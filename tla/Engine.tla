------------------------------- MODULE Engine -------------------------------
(***************************************************************************)
(* The engine's pipeline (crates/core/src/engine/executor.rs): an intent   *)
(* is planned against an observation and reviewed, then applied under the  *)
(* account's lock after a second observation, step by step, and rolled     *)
(* back when a step fails. Every call to Cloudflare is an action of its    *)
(* own, so the tasks of one process, other processes (the CLI is one) and  *)
(* other editors of the account interleave between them.                   *)
(*                                                                         *)
(* A review may use an observation up to 5 s old (CACHE_TTL): here a       *)
(* review is simply a step that happened earlier. A task applies one       *)
(* intent. An observation is one step.                                     *)
(***************************************************************************)
EXTENDS Planner

CONSTANTS
  Tasks,      \* calls of apply()
  Procs,      \* processes, each with an Engine and its locks
  ProcOf,     \* the process of each task
  Intents,    \* what users may ask for
  Found,      \* the accounts a run may start from
  MaxFaults,  \* bound: calls that fail and change nothing
  MaxLost,    \* bound: calls that change something but whose answer is lost
  MaxEdits,   \* bound: changes made by others (the dashboard, the API)
  CanCrash    \* whether tasks and processes may die

ASSUME EngineAssumption ==
  /\ ProcOf \in [Tasks -> Procs]
  /\ None \notin Tasks
  /\ Intents \subseteq AllIntents
  /\ Found \subseteq Accounts
  /\ {MaxFaults, MaxLost, MaxEdits} \subseteq Nat
  /\ CanCrash \in BOOLEAN

VARIABLES
  account,   \* what Cloudflare holds and which connectors run here
  lock,      \* the task that holds each process's lock of the account
  pc,        \* where each task is
  intent,    \* what each task was asked for
  reviewed,  \* the observation the user's review was planned against
  agreed,    \* whether the user confirmed what needs a confirmation
  snap,      \* the observation apply() made
  at,        \* the step it is at
  created,   \* Run::created
  done,      \* Run::done: the steps that were done and have an undo
  left,      \* the things whose undo failed
  faults, lost, edits,  \* how often each has happened
  start, touched, unsure
  \* history: the account at the observation, whether someone else wrote since,
  \* what a lost answer may have changed

taskVars == <<intent, reviewed, agreed, snap, at, created, done, left, start, unsure>>
budgets  == <<faults, lost, edits>>
vars     == <<account, lock, pc, taskVars, budgets, touched>>

Phases   == {"idle", "queued", "observe", "step", "put", "undo",
             "applied", "rolledBack", "partly", "refused", "dead"}
Running  == {"step", "put", "undo"}
HoldsLock == Running \cup {"observe"}
Applying == HoldsLock \cup {"queued"}
Ended    == {"applied", "rolledBack", "partly", "refused"}

NoSnap == [tunnel |-> None, version |-> 0, rules |-> Unset,
           dns |-> [h \in Hosts |-> None], login |-> [k \in Keys |-> None]]

Init ==
  /\ account \in Found
  /\ lock = [p \in Procs |-> None]
  /\ pc = [t \in Tasks |-> "idle"]
  /\ intent = [t \in Tasks |-> None]
  /\ reviewed = [t \in Tasks |-> NoSnap]
  /\ agreed = [t \in Tasks |-> FALSE]
  /\ snap = [t \in Tasks |-> NoSnap]
  /\ at = [t \in Tasks |-> 1]
  /\ created = [t \in Tasks |-> None]
  /\ done = [t \in Tasks |-> <<>>]
  /\ left = [t \in Tasks |-> {}]
  /\ faults = 0 /\ lost = 0 /\ edits = 0
  /\ start = [t \in Tasks |-> account]
  /\ touched = [t \in Tasks |-> FALSE]
  /\ unsure = [t \in Tasks |-> {}]

PlanOf(t)  == Plan(intent[t], snap[t])
Steps(t)   == PlanOf(t).steps
\* Run::resolve: TunnelRef::Created is the tunnel this run made.
Resolve(t, s) ==
  IF "tunnel" \in DOMAIN s /\ s.tunnel = Created THEN [s EXCEPT !.tunnel = created[t]] ELSE s
Current(t) == Resolve(t, Steps(t)[at[t]])
LastUndo(t) == done[t][Len(done[t])].undo

Goto(t, to) == pc' = [pc EXCEPT ![t] = to]
Unlock(t) == lock' = [lock EXCEPT ![ProcOf[t]] = None]
\* A write by t is someone else's write to every other task.
WrittenBy(t) == touched' = [u \in Tasks |-> touched[u] \/ u # t]
Fault == faults < MaxFaults /\ faults' = faults + 1 /\ UNCHANGED <<lost, edits>>
Lost  == lost < MaxLost /\ lost' = lost + 1 /\ UNCHANGED <<faults, edits>>

FreshTunnels == Tunnels \ account.used

-----------------------------------------------------------------------------
(* Before anything changes                                                 *)

\* Engine::plan: what the user reviews, and agrees to.
Review(t) ==
  /\ pc[t] = "idle"
  /\ \E i \in Intents, yes \in BOOLEAN :
       LET s == Observe(i, account)
           p == Plan(i, s)
       IN  /\ ~p.refused /\ p.steps # <<>>
           /\ yes => p.confirm
           /\ intent' = [intent EXCEPT ![t] = i]
           /\ reviewed' = [reviewed EXCEPT ![t] = s]
           /\ agreed' = [agreed EXCEPT ![t] = yes]
  /\ Goto(t, "queued")
  /\ UNCHANGED <<account, lock, snap, at, created, done, left, start, unsure, budgets, touched>>

\* MUTANT of TakeLock: nobody waits.
TakeLockAnyway(t) ==
  /\ pc[t] = "queued"
  /\ lock' = [lock EXCEPT ![ProcOf[t]] = t]
  /\ Goto(t, "observe")
  /\ UNCHANGED <<account, taskVars, budgets, touched>>

\* apply(): the process's lock of the account.
TakeLock(t) ==
  /\ pc[t] = "queued" /\ lock[ProcOf[t]] = None
  /\ lock' = [lock EXCEPT ![ProcOf[t]] = t]
  /\ Goto(t, "observe")
  /\ UNCHANGED <<account, taskVars, budgets, touched>>

\* MUTANT of Accept: the fingerprints are not compared.
AcceptStale(t) ==
  LET s == Observe(intent[t], account)
  IN  /\ pc[t] = "observe"
      /\ Plan(intent[t], s).confirm => agreed[t]
      /\ snap' = [snap EXCEPT ![t] = s]
      /\ start' = [start EXCEPT ![t] = account]
      /\ touched' = [touched EXCEPT ![t] = FALSE]
      /\ Goto(t, "step")
      /\ UNCHANGED <<account, lock, intent, reviewed, agreed, at, created, done, left, unsure,
                     budgets>>

\* The second observation shows what was reviewed, and what needs it is confirmed.
Accept(t) ==
  LET s == Observe(intent[t], account)
  IN  /\ pc[t] = "observe"
      /\ s = reviewed[t]
      /\ Plan(intent[t], s).confirm => agreed[t]
      /\ snap' = [snap EXCEPT ![t] = s]
      /\ start' = [start EXCEPT ![t] = account]
      /\ touched' = [touched EXCEPT ![t] = FALSE]
      /\ Goto(t, "step")
      /\ UNCHANGED <<account, lock, intent, reviewed, agreed, at, created, done, left, unsure,
                     budgets>>

\* Stale, NeedsConfirmation, or the observation failed.
GiveUp(t) ==
  LET s == Observe(intent[t], account)
  IN  /\ pc[t] = "observe"
      /\ \/ s # reviewed[t] /\ UNCHANGED budgets
         \/ Plan(intent[t], s).confirm /\ ~agreed[t] /\ UNCHANGED budgets
         \/ Fault
      /\ Goto(t, "refused")
      /\ Unlock(t)
      /\ UNCHANGED <<account, taskVars, touched>>

-----------------------------------------------------------------------------
(* The steps                                                               *)

\* The call was answered: keep its undo and go on.
Answered(t, undo) ==
  /\ done' = [done EXCEPT ![t] = IF undo = <<>> THEN @
                                 ELSE Append(@, [step |-> at[t], undo |-> undo[1]])]
  /\ at' = [at EXCEPT ![t] = @ + 1]
  /\ Goto(t, "step")
  /\ UNCHANGED <<lock, intent, reviewed, agreed, snap, left, start, unsure>>

\* The call failed: whatever was done before is rolled back.
Failed(t, maybe) ==
  /\ unsure' = [unsure EXCEPT ![t] = @ \cup maybe]
  /\ Goto(t, "undo")
  /\ UNCHANGED <<lock, intent, reviewed, agreed, snap, at, created, done, left, start>>

StepNow(t) == pc[t] = "step" /\ at[t] <= Len(Steps(t))

\* One call of a step other than PutConfig: it is answered, refused, fails, or
\* its answer is lost. (A tunnel whose creation was not heard of is a new one that
\* nothing refers to.)
Call(t) ==
  /\ StepNow(t) /\ Current(t).op # "PutConfig"
  /\ LET s == Current(t) IN
     \/ /\ Accepts(account, s)
        /\ \E fresh \in IF s.op = "CreateTunnel" THEN FreshTunnels ELSE {None} :
             /\ account' = Perform(account, s, fresh)
             /\ created' = [created EXCEPT ![t] = IF fresh = None THEN @ ELSE fresh]
             /\ Answered(t, UndoOf(account', s, fresh))
        /\ WrittenBy(t)
        /\ UNCHANGED budgets
     \/ /\ ~Accepts(account, s)
        /\ Failed(t, {})
        /\ UNCHANGED <<account, budgets, touched>>
     \/ /\ Fault
        /\ Failed(t, {})
        /\ UNCHANGED <<account, touched>>
     \/ /\ Lost /\ Accepts(account, s) /\ s.op # "CreateTunnel"
        /\ account' = PerformUnheard(account, s)
        /\ WrittenBy(t)
        /\ Failed(t, {ItemOf(s)})

\* put_ingress reads the configuration and compares its version ...
ReadConfig(t) ==
  /\ StepNow(t) /\ Current(t).op = "PutConfig"
  /\ LET s == Current(t)
         now == account.tunnels[s.tunnel]
         same == now # None /\ (s.expected # None => now.version = s.expected) IN
     \/ /\ same
        /\ Goto(t, "put")
        /\ UNCHANGED <<lock, intent, reviewed, agreed, snap, at, created, done, left, start,
                       unsure, budgets>>
     \/ /\ ~same
        /\ Failed(t, {}) /\ UNCHANGED budgets
     \/ /\ Fault
        /\ Failed(t, {})
  /\ UNCHANGED <<account, touched>>

\* ... and then writes the whole of it.
WriteIngress(t) ==
  /\ pc[t] = "put"
  /\ LET s == Current(t) IN
     \/ /\ Accepts(account, s)
        /\ account' = Perform(account, s, None)
        /\ Answered(t, UndoOf(account', s, None))
        /\ WrittenBy(t)
        /\ UNCHANGED <<created, budgets>>
     \/ /\ ~Accepts(account, s)
        /\ Failed(t, {})
        /\ UNCHANGED <<account, budgets, touched>>
     \/ /\ Fault
        /\ Failed(t, {})
        /\ UNCHANGED <<account, touched>>
     \/ /\ Lost /\ Accepts(account, s)
        /\ account' = PerformUnheard(account, s)
        /\ WrittenBy(t)
        /\ Failed(t, {ItemOf(s)})

\* Every step is done. A new or changed route also has its connector started
\* (ensure_connector); one that cannot start is reported, and the change stands.
Finish(t) ==
  /\ pc[t] = "step" /\ at[t] > Len(Steps(t))
  /\ \/ /\ intent[t].kind \in {"AddRoute", "UpdateRoute"}
        /\ LET s == StartConnector(IF created[t] = None THEN snap[t].tunnel ELSE created[t])
           IN  Accepts(account, s) /\ account' = Perform(account, s, None)
     \/ UNCHANGED account
  /\ WrittenBy(t)
  /\ Goto(t, "applied")
  /\ Unlock(t)
  /\ UNCHANGED <<taskVars, budgets>>

-----------------------------------------------------------------------------
(* Rolling back                                                            *)

Undone(t, leaves) ==
  /\ done' = [done EXCEPT ![t] = SubSeq(@, 1, Len(@) - 1)]
  /\ left' = [left EXCEPT ![t] = @ \cup leaves]
  /\ UNCHANGED <<lock, pc, intent, reviewed, agreed, snap, at, created, start, unsure>>

\* MUTANT of UndoLast: a failed undo is not reported.
UndoLastQuietly(t) ==
  /\ pc[t] = "undo" /\ done[t] # <<>>
  /\ LET s == LastUndo(t) IN
     \/ /\ Accepts(account, s)
        /\ account' = Perform(account, s, None)
        /\ WrittenBy(t)
        /\ Undone(t, {}) /\ UNCHANGED budgets
     \/ /\ Fault
        /\ Undone(t, {}) /\ UNCHANGED <<account, touched>>

\* Undo the last step that is still done; one that fails is left over.
UndoLast(t) ==
  /\ pc[t] = "undo" /\ done[t] # <<>>
  /\ LET s == LastUndo(t) IN
     \/ /\ Accepts(account, s)
        /\ account' = Perform(account, s, None)
        /\ WrittenBy(t)
        /\ Undone(t, {}) /\ UNCHANGED budgets
     \/ /\ ~Accepts(account, s)
        /\ Undone(t, {ItemOf(s)}) /\ UNCHANGED <<account, budgets, touched>>
     \/ /\ Fault
        /\ Undone(t, {ItemOf(s)}) /\ UNCHANGED <<account, touched>>
     \/ /\ Lost /\ Accepts(account, s)
        /\ account' = PerformUnheard(account, s)
        /\ WrittenBy(t)
        /\ Undone(t, {ItemOf(s)})

\* MUTANT of RolledBack: the lock is kept.
RolledBackLocked(t) ==
  /\ pc[t] = "undo" /\ done[t] = <<>>
  /\ Goto(t, IF left[t] = {} THEN "rolledBack" ELSE "partly")
  /\ UNCHANGED <<account, lock, taskVars, budgets, touched>>

RolledBack(t) ==
  /\ pc[t] = "undo" /\ done[t] = <<>>
  /\ Goto(t, IF left[t] = {} THEN "rolledBack" ELSE "partly")
  /\ Unlock(t)
  /\ UNCHANGED <<account, taskVars, budgets, touched>>

-----------------------------------------------------------------------------
(* The rest of the world                                                   *)

\* Tasks end between two calls, and the lock they held with them (its guard is dropped).
Drop(S) ==
  /\ CanCrash
  /\ \E t \in S : pc[t] \in Applying
  /\ pc' = [t \in Tasks |-> IF t \in S /\ pc[t] \in Applying THEN "dead" ELSE pc[t]]
  /\ lock' = [p \in Procs |-> IF lock[p] \in S THEN None ELSE lock[p]]
  /\ UNCHANGED <<account, taskVars, budgets, touched>>

\* The process dies.
Crash(p) == Drop({t \in Tasks : ProcOf[t] = p})

\* A change asked for over the control connection is dropped after 180 s, the question
\* to the user included, or with the connection; nothing is rolled back.
Abandon(t) == Drop({t})

OutsideEdit ==
  /\ edits < MaxEdits /\ edits' = edits + 1
  /\ touched' = [t \in Tasks |-> TRUE]
  /\ UNCHANGED <<lock, pc, taskVars, faults, lost>>

\* Someone changes a route in the dashboard.
EditRule ==
  /\ OutsideEdit
  /\ \E t \in Tunnels, k \in Keys, o \in SUBSET Origins :
       /\ account.tunnels[t] # None
       /\ Cardinality(o) <= 1 /\ o # RulesOf(account, t)[k]
       /\ account' = WriteConfig(account, t, [RulesOf(account, t) EXCEPT ![k] = o])

\* Someone edits a record where it is (its kind stays), deletes it, or puts one of their own
\* in its place, of either kind, with a comment or without.
EditRecord ==
  /\ OutsideEdit
  /\ \E h \in Hosts :
       LET r == account.dns[h] IN
       /\ r # None
       /\ \/ r.to # Address /\ account' = PutRecord(account, h, [r EXCEPT !.to = Elsewhere])
          \/ account' = DropRecord(account, h, r.id)
          \/ \E to \in {Elsewhere, Address}, noted \in BOOLEAN :
               account' = PutRecord(account, h, [id |-> NextId(account), to |-> to,
                                                 owned |-> FALSE, noted |-> noted])

Apply(t) ==
  \/ TakeLock(t) \/ Accept(t) \/ GiveUp(t)
  \/ Call(t) \/ ReadConfig(t) \/ WriteIngress(t) \/ Finish(t)
  \/ UndoLast(t) \/ RolledBack(t)

Next ==
  \/ \E t \in Tasks : Review(t) \/ Apply(t) \/ Abandon(t)
  \/ \E p \in Procs : Crash(p)
  \/ EditRule \/ EditRecord

Spec == Init /\ [][Next]_vars

\* Every call ends: the client has timeouts and bounded retries (client.rs:61-62,
\* 153-189), and tokio's mutex is handed on. Users and the world owe nothing.
Fairness == \A t \in Tasks : WF_vars(Apply(t))
FairSpec == Spec /\ Fairness

-----------------------------------------------------------------------------
(* Safety                                                                  *)

TypeOK ==
  /\ account \in Accounts
  /\ lock \in [Procs -> Tasks \cup {None}]
  /\ pc \in [Tasks -> Phases]
  /\ \A t \in Tasks : pc[t] # "idle" => intent[t] \in AllIntents
  /\ agreed \in [Tasks -> BOOLEAN]
  /\ reviewed \in [Tasks -> Snapshots]
  /\ snap \in [Tasks -> Snapshots]
  /\ at \in [Tasks -> Nat]
  /\ created \in [Tasks -> Tunnels \cup {None}]
  /\ touched \in [Tasks -> BOOLEAN]

\* A process's lock is held by the one task of it that observes or applies.
LockHeld == \A t \in Tasks : pc[t] \in HoldsLock <=> lock[ProcOf[t]] = t

\* Only what was reviewed is applied, and what needs a confirmation has it
\* (executor.rs:1065-1072).
OnlyReviewed ==
  \A t \in Tasks :
    pc[t] \in Running =>
      /\ Plan(intent[t], snap[t]) = Plan(intent[t], reviewed[t])
      /\ Plan(intent[t], snap[t]).confirm => agreed[t]

\* While a task applies, no other task of its process writes to the account
\* ("Changes to one account are serialised", executor.rs:1019).
Undisturbed == \A t \in Tasks : pc[t] \in Running => ~touched[t]

\* What a failed apply leaves behind is what it lists, or the effect of a call whose
\* answer was lost ("everything done before it was undone", executor.rs:197). Three things
\* are let through, against that comment: a configuration written over an empty one, a
\* connector that was not running, and Teitunnel's comment on a record that had none.
LeftoversAccount ==
  \A t \in Tasks :
    pc[t] \in {"rolledBack", "partly"} /\ ~touched[t] =>
      Changes(start[t], account) \subseteq left[t] \cup unsure[t] \cup Unlisted(start[t])

\* An applied change is there, asking for it again changes nothing, the routes it does not
\* name keep their rules, their logins and their answer, and of the records but the asked
\* hostname's only Teitunnel's have changed (Reached, in Planner).
AppliedConverges ==
  \A t \in Tasks : pc[t] = "applied" /\ ~touched[t] => Reached(intent[t], start[t], account)

Open(t, k) ==
  /\ pc[t] \in Running \cup {"applied", "rolledBack", "partly", "dead"}
  /\ ~touched[t] /\ Exposed(intent[t], start[t], account, k)

\* "A protected route is never reachable without" a login (planner.rs:10-11), at no
\* call of an apply or of a rollback, and wherever the process dies ...
NeverOpen == \A t \in Tasks, k \in Keys : left[t] = {} /\ unsure[t] = {} => ~Open(t, k)

\* ... and, as the comment has it, also when an undo fails or an answer is lost.
NeverOpenAtAll == \A t \in Tasks, k \in Keys : ~Open(t, k)

-----------------------------------------------------------------------------
(* What a step may not do                                                  *)

Acts(t) == <<pc[t], at[t], done[t], left[t]>>' # <<pc[t], at[t], done[t], left[t]>>

\* A record that does not count as Teitunnel's (is_owned) is changed by a task only if its
\* user confirmed that ("never overwritten silently", ARCHITECTURE 4.3). To count as its is
\* such a change too: the confirmed change that marks a record and is taken back in place
\* leaves it to later, unconfirmed ones (GiveBack, in Account).
ForeignKept ==
  [][\A h \in Hosts, t \in Tasks :
        LET r == account.dns[h] IN
        r # None /\ ~r.owned /\ account'.dns[h] # r /\ Acts(t) => agreed[t]]_vars

-----------------------------------------------------------------------------
(* Liveness                                                                *)

\* Every apply ends: with an outcome, an error, or with its process.
ApplyEnds == \A t \in Tasks : pc[t] = "queued" ~> pc[t] \in Ended \cup {"dead"}
=============================================================================
