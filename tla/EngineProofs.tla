----------------------------- MODULE EngineProofs -----------------------------
(***************************************************************************)
(* What is proved of Engine, for any tasks, processes, accounts and faults:*)
(* its locks, what it applies, where each task is in its plan, and from that*)
(* what its outcomes promise; and that within one process, with nobody else*)
(* at the account, it implements AtomicApply.                              *)
(***************************************************************************)
EXTENDS EngineRefinement, PlannerProofs

Phased == lock \in [Procs -> Tasks \cup {None}] /\ pc \in [Tasks -> Phases]
LockInv == Phased /\ LockHeld

\* A task that holds the lock moves, and keeps it.
Stays(t) ==
  /\ pc[t] \in HoldsLock
  /\ \E x \in HoldsLock : pc' = [pc EXCEPT ![t] = x]
  /\ UNCHANGED lock

\* A task that holds the lock ends, and lets it go.
Leaves(t) ==
  /\ pc[t] \in HoldsLock
  /\ \E x \in Ended : pc' = [pc EXCEPT ![t] = x]
  /\ Unlock(t)

\* Every step of an apply takes the lock, stays within it, or leaves it: no action
\* of apply() touches the lock in the middle (executor.rs:1063-1064).
LEMMA ApplyShape ==
  ASSUME Phased, NEW t \in Tasks, Apply(t)
  PROVE  TakeLock(t) \/ Stays(t) \/ Leaves(t)
<1> USE DEF Phased, Phases, HoldsLock, Running, Ended, Goto
<1>1. CASE TakeLock(t)
  BY <1>1
<1>2. CASE Accept(t)
  BY <1>2 DEF Accept, Stays
<1>3. CASE GiveUp(t)
  BY <1>3 DEF GiveUp, Leaves
<1>4. CASE Call(t)
  BY <1>4 DEF Call, StepNow, Answered, Failed, Stays
<1>5. CASE ReadConfig(t)
  BY <1>5 DEF ReadConfig, StepNow, Failed, Stays
<1>6. CASE WriteIngress(t)
  BY <1>6 DEF WriteIngress, Answered, Failed, Stays
<1>7. CASE Finish(t)
  BY <1>7 DEF Finish, Leaves
<1>8. CASE UndoLast(t)
  <2>1. pc[t] = "undo" /\ UNCHANGED <<pc, lock>>
    BY <1>8 DEF UndoLast, Undone
  <2>2. pc' = [pc EXCEPT ![t] = "undo"]
    BY <2>1
  <2> QED
    BY <2>1, <2>2 DEF Stays
<1>9. CASE RolledBack(t)
  BY <1>9 DEF RolledBack, Leaves
<1> QED
  BY <1>1, <1>2, <1>3, <1>4, <1>5, <1>6, <1>7, <1>8, <1>9 DEF Apply

\* The lock and the phases agree at the start.
LEMMA LockInit == Init => LockInv
<1> SUFFICES ASSUME Init PROVE LockInv
  OBVIOUS
<1>1. \A t \in Tasks : pc[t] = "idle" /\ lock[ProcOf[t]] # t
  BY EngineAssumption DEF Init
<1> QED
  BY <1>1 DEF Init, LockInv, Phased, Phases, LockHeld, HoldsLock, Running

\* The lock goes to a task only when no other has it, and comes free only with the
\* task that had it or with its process.
LEMMA LockStep == LockInv /\ [Next]_vars => LockInv'
<1> SUFFICES ASSUME LockInv, [Next]_vars PROVE LockInv'
  OBVIOUS
<1> USE EngineAssumption DEF LockInv, Phased, LockHeld
<1>1. ASSUME NEW t \in Tasks, Review(t) PROVE LockInv'
  <2>1. pc[t] = "idle" /\ pc' = [pc EXCEPT ![t] = "queued"] /\ UNCHANGED lock
    BY <1>1 DEF Review, Goto
  <2> QED
    BY <2>1 DEF Phases, HoldsLock, Running
<1>2. ASSUME NEW t \in Tasks, Apply(t) PROVE LockInv'
  <2>1. CASE TakeLock(t)
    <3>1. /\ pc[t] = "queued" /\ lock[ProcOf[t]] = None
          /\ pc' = [pc EXCEPT ![t] = "observe"]
          /\ lock' = [lock EXCEPT ![ProcOf[t]] = t]
      BY <2>1 DEF TakeLock, Goto
    <3>2. \A u \in Tasks : ProcOf[u] = ProcOf[t] => pc[u] \notin HoldsLock
      BY <3>1
    <3>3. Phased'
      BY <3>1 DEF Phases
    <3>4. ASSUME NEW u \in Tasks PROVE pc'[u] \in HoldsLock <=> lock'[ProcOf[u]] = u
      <4>1. CASE u = t
        BY <4>1, <3>1 DEF HoldsLock
      <4>2. CASE u # t /\ ProcOf[u] = ProcOf[t]
        BY <4>2, <3>1, <3>2
      <4>3. CASE ProcOf[u] # ProcOf[t]
        BY <4>3, <3>1
      <4> QED
        BY <4>1, <4>2, <4>3
    <3> QED
      BY <3>3, <3>4
  <2>2. CASE Stays(t)
    BY <2>2 DEF Stays, Phases, HoldsLock, Running
  <2>3. CASE Leaves(t)
    <3>1. PICK x \in Ended : pc' = [pc EXCEPT ![t] = x]
      BY <2>3 DEF Leaves
    <3>2. lock[ProcOf[t]] = t /\ lock' = [lock EXCEPT ![ProcOf[t]] = None]
      BY <2>3 DEF Leaves, Unlock
    <3>3. Phased'
      BY <3>1, <3>2 DEF Phases, Ended
    <3>4. ASSUME NEW u \in Tasks PROVE pc'[u] \in HoldsLock <=> lock'[ProcOf[u]] = u
      <4>1. CASE u = t
        BY <4>1, <3>1, <3>2 DEF HoldsLock, Running, Ended
      <4>2. CASE u # t /\ ProcOf[u] = ProcOf[t]
        BY <4>2, <3>1, <3>2
      <4>3. CASE ProcOf[u] # ProcOf[t]
        BY <4>3, <3>1, <3>2
      <4> QED
        BY <4>1, <4>2, <4>3
    <3> QED
      BY <3>3, <3>4
  <2> QED
    BY <1>2, <2>1, <2>2, <2>3, ApplyShape
<1>3. ASSUME NEW S \in SUBSET Tasks, Drop(S) PROVE LockInv'
  <2>1. /\ pc' = [t \in Tasks |-> IF t \in S /\ pc[t] \in Applying THEN "dead" ELSE pc[t]]
        /\ lock' = [p \in Procs |-> IF lock[p] \in S THEN None ELSE lock[p]]
    BY <1>3 DEF Drop
  <2>2. Phased'
    BY <2>1 DEF Phases
  <2>3. ASSUME NEW u \in Tasks PROVE pc'[u] \in HoldsLock <=> lock'[ProcOf[u]] = u
    <3>1. CASE u \in S
      BY <3>1, <2>1 DEF Applying, HoldsLock, Running
    <3>2. CASE u \notin S
      BY <3>2, <2>1
    <3> QED
      BY <3>1, <3>2
  <2> QED
    BY <2>2, <2>3
<1>4. CASE EditRule \/ EditRecord
  BY <1>4 DEF EditRule, EditRecord, OutsideEdit
<1>5. CASE UNCHANGED vars
  BY <1>5 DEF vars
<1> QED
  BY <1>1, <1>2, <1>3, <1>4, <1>5 DEF Next, Crash, Abandon

\* A process's lock of an account is held by exactly the one task of it that observes
\* or applies, through failures, rollbacks and the end of the process.
THEOREM LockIsHeld == Spec => []LockHeld
<1>1. Spec => []LockInv
  BY LockInit, LockStep, PTL DEF Spec
<1> QED
  BY <1>1, PTL DEF LockInv

-----------------------------------------------------------------------------

\* A task works from what was reviewed and agreed to.
Approved(t) ==
  snap[t] = reviewed[t] /\ (Plan(intent[t], snap[t]).confirm => agreed[t])
ReviewInv ==
  /\ LockInv
  /\ snap = [t \in Tasks |-> snap[t]]
  /\ \A t \in Tasks : pc[t] \in Running => Approved(t)

\* Nothing is reviewed and nothing applied at the start.
LEMMA ReviewInit == Init => ReviewInv
<1> SUFFICES ASSUME Init PROVE ReviewInv
  OBVIOUS
<1>1. LockInv
  BY LockInit
<1> QED
  BY <1>1 DEF Init, ReviewInv, Running

\* Only Accept lets a task run, on an observation equal to the review; from then on
\* its intent, its review and its agreement are left alone.
LEMMA ReviewStep == ReviewInv /\ [Next]_vars => ReviewInv'
<1> SUFFICES ASSUME ReviewInv, [Next]_vars PROVE ReviewInv'
  OBVIOUS
<1>l. LockInv' /\ Phased
  BY LockStep DEF ReviewInv, LockInv
<1> USE <1>l DEF ReviewInv
<1> DEFINE Same == UNCHANGED <<intent, reviewed, agreed, snap>>
<1>0. ASSUME Same, \A t \in Tasks : pc'[t] \in Running => pc[t] \in Running
      PROVE  ReviewInv'
  BY <1>0 DEF Approved
<1>1. ASSUME NEW t \in Tasks, Review(t) PROVE ReviewInv'
  <2>1. /\ pc[t] = "idle" /\ pc' = [pc EXCEPT ![t] = "queued"] /\ UNCHANGED snap
        /\ \E i, s, yes : /\ intent' = [intent EXCEPT ![t] = i]
                          /\ reviewed' = [reviewed EXCEPT ![t] = s]
                          /\ agreed' = [agreed EXCEPT ![t] = yes]
    BY <1>1 DEF Review, Goto
  <2>2. \A u \in Tasks : pc'[u] \in Running =>
                           u # t /\ pc[u] \in Running
    BY <2>1 DEF Phased, Running
  <2>3. \A u \in Tasks : u # t => /\ intent'[u] = intent[u] /\ reviewed'[u] = reviewed[u]
                                  /\ agreed'[u] = agreed[u] /\ snap'[u] = snap[u]
    BY <2>1
  <2> QED
    BY <2>1, <2>2, <2>3 DEF Approved
<1>2. ASSUME NEW t \in Tasks, Accept(t) PROVE ReviewInv'
  <2> DEFINE s == Observe(intent[t], account)
  <2>1. /\ s = reviewed[t] /\ (Plan(intent[t], s).confirm => agreed[t])
        /\ snap' = [snap EXCEPT ![t] = s]
        /\ pc' = [pc EXCEPT ![t] = "step"]
        /\ UNCHANGED <<intent, reviewed, agreed>>
    BY <1>2 DEF Accept, Goto
  <2>2. ASSUME NEW u \in Tasks, pc'[u] \in Running PROVE Approved(u)'
    <3>1. CASE u = t
      BY <3>1, <2>1 DEF Approved
    <3>2. CASE u # t
      BY <3>2, <2>1, <2>2 DEF Approved, Phased
    <3> QED
      BY <3>1, <3>2
  <2> QED
    BY <2>1, <2>2
<1>3. ASSUME NEW t \in Tasks, Apply(t), ~Accept(t) PROVE ReviewInv'
  <2> USE DEF Goto, Phased, Running
  <2>1. CASE TakeLock(t)
    BY <2>1, <1>0 DEF TakeLock, taskVars
  <2>2. CASE GiveUp(t)
    BY <2>2, <1>0 DEF GiveUp, taskVars
  <2>3. CASE Call(t)
    BY <2>3, <1>0 DEF Call, StepNow, Answered, Failed
  <2>4. CASE ReadConfig(t)
    BY <2>4, <1>0 DEF ReadConfig, StepNow, Failed
  <2>5. CASE WriteIngress(t)
    BY <2>5, <1>0 DEF WriteIngress, Answered, Failed
  <2>6. CASE Finish(t)
    BY <2>6, <1>0 DEF Finish, taskVars
  <2>7. CASE UndoLast(t)
    BY <2>7, <1>0 DEF UndoLast, Undone
  <2>8. CASE RolledBack(t)
    BY <2>8, <1>0 DEF RolledBack, taskVars
  <2> QED
    BY <1>3, <2>1, <2>2, <2>3, <2>4, <2>5, <2>6, <2>7, <2>8 DEF Apply
<1>4. ASSUME NEW S \in SUBSET Tasks, Drop(S) PROVE ReviewInv'
  BY <1>4, <1>0 DEF Drop, taskVars, Running
<1>5. CASE EditRule \/ EditRecord
  BY <1>5, <1>0 DEF EditRule, EditRecord, OutsideEdit, taskVars
<1>6. CASE UNCHANGED vars
  BY <1>6, <1>0 DEF vars, taskVars
<1> QED
  BY <1>1, <1>2, <1>3, <1>4, <1>5, <1>6 DEF Next, Crash, Abandon

\* What is applied is the plan that was reviewed, confirmed where it asks for that, in
\* however many processes, and whatever others write in between.
THEOREM ReviewedOnly == Spec => []OnlyReviewed
<1>1. ReviewInv => OnlyReviewed
  BY DEF ReviewInv, Approved, OnlyReviewed
<1> QED
  BY <1>1, ReviewInit, ReviewStep, PTL DEF Spec

-----------------------------------------------------------------------------

\* One process, and nobody else at the account.
Alone == MaxEdits = 0 /\ \A t, u \in Tasks : ProcOf[t] = ProcOf[u]

QuietInv ==
  /\ Alone
  /\ LockInv
  /\ edits \in Nat
  /\ touched = [t \in Tasks |-> touched[t]]
  /\ Undisturbed

\* A step of an apply marks only the other tasks, and lets no task run but its own.
LEMMA ApplyMarks ==
  ASSUME Phased, NEW t \in Tasks, Apply(t)
  PROVE  /\ \/ UNCHANGED touched \/ WrittenBy(t)
            \/ Accept(t) /\ touched' = [touched EXCEPT ![t] = FALSE]
         /\ UNCHANGED edits
         /\ Accept(t) \/ (pc'[t] \in Running => pc[t] \in Running)
<1> USE DEF Goto, Fault, Lost, budgets, Phased, Running
<1>1. CASE TakeLock(t)
  BY <1>1 DEF TakeLock
<1>2. CASE Accept(t)
  BY <1>2 DEF Accept
<1>3. CASE GiveUp(t)
  BY <1>3 DEF GiveUp
<1>4. CASE Call(t)
  BY <1>4 DEF Call, StepNow, Answered, Failed
<1>5. CASE ReadConfig(t)
  BY <1>5 DEF ReadConfig, StepNow, Failed
<1>6. CASE WriteIngress(t)
  BY <1>6 DEF WriteIngress, Answered, Failed
<1>7. CASE Finish(t)
  BY <1>7 DEF Finish
<1>8. CASE UndoLast(t)
  BY <1>8 DEF UndoLast, Undone
<1>9. CASE RolledBack(t)
  BY <1>9 DEF RolledBack
<1> QED
  BY <1>1, <1>2, <1>3, <1>4, <1>5, <1>6, <1>7, <1>8, <1>9 DEF Apply

\* Whoever writes holds the lock, so no other task is in the middle of its steps.
LEMMA QuietStep == QuietInv /\ [Next]_vars => QuietInv'
<1> SUFFICES ASSUME QuietInv, [Next]_vars PROVE QuietInv'
  OBVIOUS
<1>a. Alone'
  BY DEF QuietInv, Alone
<1>l. LockInv' /\ Phased
  BY LockStep DEF QuietInv, LockInv
<1> USE <1>a, <1>l DEF QuietInv, Undisturbed
<1>1. ASSUME NEW t \in Tasks, Review(t) PROVE QuietInv'
  BY <1>1 DEF Review, Goto, budgets, Phased, Running
<1>2. ASSUME NEW t \in Tasks, Apply(t) PROVE QuietInv'
  <2>1. /\ \/ UNCHANGED touched \/ WrittenBy(t)
           \/ Accept(t) /\ touched' = [touched EXCEPT ![t] = FALSE]
        /\ UNCHANGED edits
        /\ Accept(t) \/ (pc'[t] \in Running => pc[t] \in Running)
    BY <1>2, ApplyMarks
  <2>2. \A u \in Tasks : u # t => pc'[u] = pc[u]
    BY <1>2, ApplyShape DEF TakeLock, Stays, Leaves, Goto, Phased
  <2>3. CASE TakeLock(t)
    BY <2>3 DEF TakeLock, Goto, budgets, Phased, Running
  <2>4. CASE Stays(t) \/ Leaves(t)
    <3>1. lock[ProcOf[t]] = t
      BY <2>4 DEF Stays, Leaves, LockInv, LockHeld
    <3>2. \A u \in Tasks : u # t => pc'[u] \notin Running
      BY <3>1, <2>2 DEF Alone, LockInv, LockHeld, HoldsLock
    <3>3. pc'[t] \in Running => ~touched'[t]
      <4>1. CASE Accept(t)
        BY <4>1 DEF Accept
      <4>2. CASE ~Accept(t)
        BY <4>2, <2>1 DEF WrittenBy
      <4> QED
        BY <4>1, <4>2
    <3>4. touched' = [u \in Tasks |-> touched'[u]]
      BY <2>1 DEF WrittenBy
    <3> QED
      BY <2>1, <3>2, <3>3, <3>4
  <2> QED
    BY <1>2, <2>3, <2>4, ApplyShape
<1>3. ASSUME NEW S \in SUBSET Tasks, Drop(S) PROVE QuietInv'
  BY <1>3 DEF Drop, budgets, Running
<1>4. CASE EditRule \/ EditRecord
  <2>1. edits < MaxEdits
    BY <1>4 DEF EditRule, EditRecord, OutsideEdit
  <2>2. MaxEdits = 0 /\ edits \in Nat
    BY DEF Alone
  <2> QED
    BY <2>1, <2>2
<1>5. CASE UNCHANGED vars
  BY <1>5 DEF vars, budgets
<1> QED
  BY <1>1, <1>2, <1>3, <1>4, <1>5 DEF Next, Crash, Abandon

\* Within one process, and with nobody else at the account, no task finds another's
\* write among its own: changes to one account are serialised, rollbacks included.
THEOREM Serialised == Alone => (Spec => []Undisturbed)
<1>1. Alone /\ Init => QuietInv
  <2> SUFFICES ASSUME Alone, Init PROVE QuietInv
    OBVIOUS
  <2>1. LockInv
    BY LockInit
  <2> QED
    BY <2>1 DEF Init, QuietInv, Undisturbed, Running
<1>2. QuietInv => Undisturbed
  BY DEF QuietInv
<1> QED
  BY <1>1, <1>2, QuietStep, PTL DEF Spec

-----------------------------------------------------------------------------
(* Where a task is                                                         *)

\* The tunnel a task works on: the one it observed, or the one it created.
Mine(t) == IF snap[t].tunnel = None THEN created[t] ELSE snap[t].tunnel
QOf(t) == PlanFrom(intent[t], start[t], Mine(t))
Bare == {"idle", "queued", "observe", "refused"}
Begun == Running \cup {"applied", "rolledBack", "partly"}

\* A task that applies, or has, works from what it observed, on a tunnel that exists or
\* did, with undos that may be called.
Under(t) ==
  /\ snap[t] = Observe(intent[t], start[t]) /\ Reviewed(intent[t], start[t])
  /\ at[t] \in 1..(Len(Steps(t)) + 1)
  /\ Mine(t) = None => at[t] = 1 /\ done[t] = <<>> /\ left[t] = {} /\ unsure[t] = {}
  /\ Mine(t) # None => /\ Its(start[t], Mine(t)) /\ Mine(t) \in account.used
                       /\ MyTunnel(start[t]) = None => at[t] > 1
  /\ IsList(done[t])
  /\ \A j \in DOMAIN done[t] : /\ TypedStep(done[t][j].undo, account.used)
                               /\ done[t][j].undo.op # "CreateTunnel"

TaskOK(t) ==
  /\ start[t].used \subseteq account.used
  /\ pc[t] # "idle" => intent[t] \in AllIntents /\ ~Plan(intent[t], reviewed[t]).refused
  /\ pc[t] \in Bare => /\ at[t] = 1 /\ done[t] = <<>> /\ left[t] = {} /\ unsure[t] = {}
                       /\ created[t] = None
  /\ pc[t] \in Begun => Under(t)
  /\ pc[t] \in {"put", "undo", "rolledBack", "partly"} => at[t] \in DOMAIN Steps(t)
  /\ pc[t] = "put" => Current(t).op = "PutConfig"
  /\ pc[t] \in {"step", "put", "applied"} => left[t] = {} /\ unsure[t] = {}
  /\ pc[t] = "applied" => at[t] > Len(Steps(t))
  /\ pc[t] \in {"rolledBack", "partly"} => done[t] = <<>>
  /\ pc[t] = "rolledBack" => left[t] = {}

Typed ==
  /\ account \in Accounts
  /\ Phased
  /\ agreed \in [Tasks -> BOOLEAN]
  /\ reviewed \in [Tasks -> Snapshots]
  /\ snap \in [Tasks -> Snapshots]
  /\ at \in [Tasks -> Nat]
  /\ created \in [Tasks -> Tunnels \cup {None}]
  /\ touched \in [Tasks -> BOOLEAN]
  /\ start \in [Tasks -> Accounts]
  /\ intent = [t \in Tasks |-> intent[t]]
  /\ done = [t \in Tasks |-> done[t]]
  /\ left = [t \in Tasks |-> left[t]]
  /\ unsure = [t \in Tasks |-> unsure[t]]

TypeInv == Typed /\ \A t \in Tasks : TaskOK(t)

-----------------------------------------------------------------------------
(* Where a task that nobody disturbed is in its plan                       *)

\* The last step that is done and was not taken back, and the things a failed change
\* may leave otherwise than they were.
Horizon(t) == IF pc[t] = "undo" THEN Top(done[t]) ELSE at[t] - 1
Loose(t) == left[t] \cup unsure[t]
Along(i, a, c, L) == c = a \/ \E x \in Tunnels, m, n \in Nat : Halfway(i, a, c, x, m, n, L)

Working(t) ==
  IF Mine(t) = None THEN account = start[t]
  ELSE /\ Horizon(t) \in Nat /\ Horizon(t) < at[t]
       /\ Midway(QOf(t), start[t], account, Mine(t), Horizon(t), at[t], Loose(t))
       /\ Logged(QOf(t), done[t], account, Mine(t), Horizon(t))

TakenBack(t) ==
  IF Mine(t) = None THEN account = start[t]
  ELSE Midway(QOf(t), start[t], account, Mine(t), 0, at[t], Loose(t))

\* ensure_connector may have started the tunnel's connector in the end.
Made(t) ==
  \E R \in SUBSET Tunnels :
    LET c == [account EXCEPT !.running = R]
    IN  /\ c \in Accounts /\ Mine(t) # None
        /\ Midway(QOf(t), start[t], c, Mine(t), Len(Steps(t)), Len(Steps(t)) + 1, {})

RunOK(t) ==
  /\ pc[t] \in Bare => account = start[t]
  /\ pc[t] \in Running => Working(t)
  /\ pc[t] \in {"rolledBack", "partly"} => TakenBack(t)
  /\ pc[t] = "applied" => Made(t)
  /\ pc[t] = "dead" => Along(intent[t], start[t], account, Loose(t))

RunInv == \A t \in Tasks : ~touched[t] => RunOK(t)

SameTask(u) ==
  /\ pc'[u] = pc[u] /\ intent'[u] = intent[u] /\ reviewed'[u] = reviewed[u]
  /\ agreed'[u] = agreed[u] /\ snap'[u] = snap[u] /\ at'[u] = at[u] /\ created'[u] = created[u]
  /\ done'[u] = done[u] /\ left'[u] = left[u] /\ start'[u] = start[u] /\ unsure'[u] = unsure[u]

\* A task's steps leave the others where they were, and they count its writes.
LEMMA Others ==
  ASSUME Typed, NEW t \in Tasks, Review(t) \/ Apply(t), NEW u \in Tasks, u # t
  PROVE  /\ SameTask(u)
         /\ touched'[u] \/ (touched'[u] = touched[u] /\ account' = account)
<1> USE DEF Typed, Phased, Goto, taskVars, SameTask
<1>1. CASE Review(t)
  BY <1>1 DEF Review
<1>2. CASE TakeLock(t)
  BY <1>2 DEF TakeLock
<1>3. CASE Accept(t)
  BY <1>3 DEF Accept
<1>4. CASE GiveUp(t)
  BY <1>4 DEF GiveUp
<1>5. CASE Call(t)
  <2>1. SameTask(u)
    BY <1>5 DEF Call, StepNow, Answered, Failed
  <2>2. (touched' = touched /\ account' = account) \/ WrittenBy(t)
    BY <1>5 DEF Call
  <2> QED
    BY <2>1, <2>2 DEF WrittenBy
<1>6. CASE ReadConfig(t)
  BY <1>6 DEF ReadConfig, Failed
<1>7. CASE WriteIngress(t)
  <2>1. SameTask(u)
    BY <1>7 DEF WriteIngress, Answered, Failed
  <2>2. (touched' = touched /\ account' = account) \/ WrittenBy(t)
    BY <1>7 DEF WriteIngress
  <2> QED
    BY <2>1, <2>2 DEF WrittenBy
<1>8. CASE Finish(t)
  <2>1. SameTask(u) /\ WrittenBy(t)
    BY <1>8 DEF Finish
  <2> QED
    BY <2>1 DEF WrittenBy
<1>9. CASE UndoLast(t)
  <2>1. SameTask(u)
    BY <1>9 DEF UndoLast, Undone
  <2>2. (touched' = touched /\ account' = account) \/ WrittenBy(t)
    BY <1>9 DEF UndoLast
  <2> QED
    BY <2>1, <2>2 DEF WrittenBy
<1>10. CASE RolledBack(t)
  BY <1>10 DEF RolledBack
<1> QED
  BY <1>1, <1>2, <1>3, <1>4, <1>5, <1>6, <1>7, <1>8, <1>9, <1>10 DEF Apply

-----------------------------------------------------------------------------
(* Types, and what each action does to its task                            *)

\* What is known of a plan P, and of Q, the same with tunnel x.
PlanAt(a, x, P, Q) ==
  /\ Shaped(Q, a, x) /\ DOMAIN Q = DOMAIN P
  /\ DOMAIN P = 1..Len(P) /\ Len(P) \in Nat
  /\ \A l \in DOMAIN P : Q[l].op = P[l].op
  /\ MyTunnel(a) = None => /\ 1 \in DOMAIN P /\ P[1] = CreateTunnel
                           /\ \A l \in DOMAIN P : l # 1 => P[l].op # "CreateTunnel"
  /\ MyTunnel(a) # None => \A l \in DOMAIN P : P[l].op # "CreateTunnel"

\* PlanShaped, for a plan known by name.
LEMMA PlanStands ==
  ASSUME NEW a \in Accounts, NEW i, Reviewed(i, a), NEW x, MyTunnel(a) = None \/ x = MyTunnel(a)
  PROVE  LET P == Plan(i, Observe(i, a)).steps IN PlanAt(a, x, P, Resolution(P, x))
<1> DEFINE P == Plan(i, Observe(i, a)).steps
           Q == Resolution(P, x)
<1>1. /\ Shaped(Q, a, x) /\ DOMAIN Q = DOMAIN P /\ DOMAIN P = 1..Len(P) /\ Len(P) \in Nat
      /\ \A l \in DOMAIN P : Q[l].op = P[l].op /\ Rank(Q[l]) = Rank(P[l]) /\ Spot(Q[l]) = Spot(P[l])
      /\ MyTunnel(a) = None => /\ 1 \in DOMAIN P /\ P[1] = CreateTunnel
                               /\ \A l \in DOMAIN P : l # 1 => P[l].op # "CreateTunnel"
      /\ MyTunnel(a) # None => \A l \in DOMAIN P : P[l].op # "CreateTunnel"
  BY PlanShaped
<1> HIDE DEF P, Q
<1>2. PlanAt(a, x, P, Q)
  BY <1>1 DEF PlanAt
<1> QED
  BY <1>2 DEF P, Q

LEMMA PlanNamed ==
  ASSUME NEW a \in Accounts, NEW i, Reviewed(i, a), NEW x, MyTunnel(a) = None \/ x = MyTunnel(a),
         NEW P, P = Plan(i, Observe(i, a)).steps, NEW Q, Q = Resolution(P, x)
  PROVE  PlanAt(a, x, P, Q)
<1>1. PlanAt(a, x, Plan(i, Observe(i, a)).steps, Resolution(Plan(i, Observe(i, a)).steps, x))
  BY PlanStands
<1> QED
  BY <1>1, Zenon

\* What a task that applies works from, and what its next step is.
LEMMA PlanFacts ==
  ASSUME Typed, NEW t \in Tasks, Under(t)
  PROVE  /\ start[t] \in Accounts /\ snap[t].tunnel = MyTunnel(start[t])
         /\ Steps(t) = Plan(intent[t], Observe(intent[t], start[t])).steps
         /\ DOMAIN Steps(t) = 1..Len(Steps(t)) /\ Len(Steps(t)) \in Nat
         /\ DOMAIN QOf(t) = DOMAIN Steps(t) /\ at[t] \in Nat \ {0}
         /\ Shaped(QOf(t), start[t], Mine(t))
         /\ \A l \in DOMAIN QOf(t) : QOf(t)[l] = Resolve(t, Steps(t)[l])
         /\ Mine(t) = None => /\ MyTunnel(start[t]) = None /\ created[t] = None
                              /\ 1 \in DOMAIN Steps(t) /\ Steps(t)[1] = CreateTunnel
         /\ Mine(t) # None => Mine(t) \in account.used /\ Mine(t) \in Tunnels
                              /\ Its(start[t], Mine(t))
         /\ at[t] \in DOMAIN Steps(t) =>
              /\ Current(t) = QOf(t)[at[t]]
              /\ Current(t).op = "CreateTunnel" <=> Mine(t) = None
<1> DEFINE a == start[t]
           i == intent[t]
           x == Mine(t)
           P == Plan(i, Observe(i, a)).steps
<1>1. /\ a \in Accounts /\ Reviewed(i, a) /\ i \in AllIntents
      /\ snap[t].tunnel = MyTunnel(a) /\ Steps(t) = P /\ account \in Accounts
  BY DEF Typed, Under, Reviewed, Steps, PlanOf, Observe
<1>2. MyTunnel(a) = None \/ x = MyTunnel(a)
  BY <1>1 DEF Mine
<1>3. QOf(t) = Resolution(P, x)
  BY DEF QOf, PlanFrom
<1>4. /\ Shaped(QOf(t), a, x) /\ DOMAIN QOf(t) = DOMAIN P /\ DOMAIN P = 1..Len(P) /\ Len(P) \in Nat
      /\ \A l \in DOMAIN P : QOf(t)[l].op = P[l].op
      /\ MyTunnel(a) = None => /\ 1 \in DOMAIN P /\ P[1] = CreateTunnel
                               /\ \A l \in DOMAIN P : l # 1 => P[l].op # "CreateTunnel"
      /\ MyTunnel(a) # None => \A l \in DOMAIN P : P[l].op # "CreateTunnel"
  <2> HIDE DEF P, x
  <2>1. P = Plan(i, Observe(i, a)).steps
    BY DEF P
  <2> HIDE DEF a, i
  <2>2. PlanAt(a, x, P, QOf(t))
    BY <1>1, <1>2, <1>3, <2>1, PlanNamed
  <2> QED
    BY <2>2 DEF PlanAt
<1>5. ASSUME NEW l \in DOMAIN P PROVE QOf(t)[l] = Resolve(t, P[l])
  <2>1. QOf(t)[l] = Resolved(P[l], x)
    BY <1>3, <1>5 DEF Resolution
  <2>2. CASE MyTunnel(a) = None
    BY <2>1, <2>2, <1>1 DEF Mine, Resolve, Resolved
  <2>3. CASE MyTunnel(a) # None
    <3>1. Grounded(P[l], a, MyTunnel(a))
      BY <1>1, <1>5, <2>3, PlanIs
    <3>2. MyTunnel(a) # Created
      BY <1>1, AccountTypes, AccountAssumption DEF MyTunnel
    <3>3. \A st : Grounded(st, a, MyTunnel(a)) /\ "tunnel" \in DOMAIN st => st.tunnel = MyTunnel(a)
      BY DEF Grounded, CreateTunnel, Step, PutConfig, CreateRecord, UpdateRecord, DeleteRecord,
                  CreateApp, UpdateApp, DeleteApp, StopConnector, DeleteTunnel
    <3> QED
      BY <2>1, <3>1, <3>2, <3>3 DEF Resolve, Resolved
  <2> QED
    BY <2>2, <2>3
<1>6. x = None => MyTunnel(a) = None /\ created[t] = None
  BY <1>1 DEF Mine
<1>7. x # None => x \in account.used /\ x \in Tunnels /\ Its(a, x)
  BY <1>1, AccountTypes DEF Under
<1>8. at[t] \in Nat \ {0}
  BY <1>1, <1>4 DEF Under
<1>9. ASSUME at[t] \in DOMAIN P
      PROVE  /\ Current(t) = QOf(t)[at[t]]
             /\ Current(t).op = "CreateTunnel" <=> x = None
  <2>1. Current(t) = QOf(t)[at[t]] /\ Current(t).op = P[at[t]].op
    BY <1>1, <1>4, <1>5, <1>9 DEF Current
  <2>2. CASE x = None
    BY <2>1, <2>2, <1>4, <1>6 DEF Under, CreateTunnel, Step
  <2>3. CASE x # None
    BY <2>1, <2>3, <1>4, <1>9 DEF Under
  <2> QED
    BY <2>1, <2>2, <2>3
<1> QED
  BY <1>1, <1>4, <1>5, <1>6, <1>7, <1>8, <1>9

-----------------------------------------------------------------------------
(* What a task's calls come to                                             *)

SameGoal(t) ==
  /\ intent'[t] = intent[t] /\ reviewed'[t] = reviewed[t] /\ agreed'[t] = agreed[t]
  /\ snap'[t] = snap[t] /\ start'[t] = start[t]

\* The step is done, and its undo kept.
Keeps(t, undo) ==
  /\ pc'[t] = "step" /\ at'[t] = at[t] + 1 /\ left'[t] = left[t] /\ unsure'[t] = unsure[t]
  /\ done'[t] = IF undo = <<>> THEN done[t] ELSE Append(done[t], Entry(at[t], undo[1]))

Advances(t) ==
  LET s == Current(t)
  IN  /\ Accepts(account, s) /\ s.op # "CreateTunnel" /\ account' = Perform(account, s, None)
      /\ Keeps(t, UndoOf(account', s, None)) /\ created'[t] = created[t]

Creates(t) ==
  /\ Current(t).op = "CreateTunnel"
  /\ \E x \in Tunnels \ account.used :
       /\ account' = AddTunnel(account, x) /\ created'[t] = x
       /\ Keeps(t, <<DeleteTunnel(x)>>)

Puts(t) ==
  /\ Current(t).op = "PutConfig" /\ pc'[t] = "put" /\ account' = account
  /\ at'[t] = at[t] /\ created'[t] = created[t] /\ done'[t] = done[t]
  /\ left'[t] = left[t] /\ unsure'[t] = unsure[t]

\* A call that failed, or was not heard of: the items it may have changed.
Unheard(s, M) ==
  \/ account' = account /\ M = {}
  \/ /\ Accepts(account, s) /\ s.op # "CreateTunnel"
     /\ account' = PerformUnheard(account, s) /\ M = {ItemOf(s)}

Fails(t) ==
  /\ pc'[t] = "undo" /\ at'[t] = at[t] /\ created'[t] = created[t] /\ done'[t] = done[t]
  /\ left'[t] = left[t]
  /\ \E M : unsure'[t] = unsure[t] \cup M /\ Unheard(Current(t), M)

Undoes(t) ==
  /\ pc[t] = "undo" /\ done[t] # <<>>
  /\ pc'[t] = "undo" /\ at'[t] = at[t] /\ created'[t] = created[t] /\ unsure'[t] = unsure[t]
  /\ done'[t] = SubSeq(done[t], 1, Len(done[t]) - 1)
  /\ \E M : /\ left'[t] = left[t] \cup M
            /\ \/ /\ Accepts(account, LastUndo(t))
                  /\ account' = Perform(account, LastUndo(t), None) /\ M = {}
               \/ account' = account /\ M = {ItemOf(LastUndo(t))}
               \/ /\ Accepts(account, LastUndo(t))
                  /\ account' = PerformUnheard(account, LastUndo(t)) /\ M = {ItemOf(LastUndo(t))}

\* A call is answered, fails or, when it is the first half of PutConfig, is followed by
\* the second.
LEMMA CallIs ==
  ASSUME Typed, NEW t \in Tasks, Call(t)
  PROVE  /\ StepNow(t) /\ SameGoal(t) /\ Current(t).op # "PutConfig"
         /\ Advances(t) \/ Creates(t) \/ Fails(t)
<1> USE DEF Typed, Phased, Goto
<1>1. StepNow(t) /\ SameGoal(t) /\ Current(t).op # "PutConfig"
  BY DEF Call, SameGoal, Answered, Failed
<1> DEFINE s == Current(t)
<1>2. ASSUME Accepts(account, s),
             NEW f \in IF s.op = "CreateTunnel" THEN FreshTunnels ELSE {None},
             account' = Perform(account, s, f),
             created' = [created EXCEPT ![t] = IF f = None THEN @ ELSE f],
             Answered(t, UndoOf(account', s, f))
      PROVE  Advances(t) \/ Creates(t)
  <2>1. Keeps(t, UndoOf(account', s, f))
    BY <1>2 DEF Answered, Keeps, Entry
  <2>2. CASE s.op = "CreateTunnel"
    <3>1. f \in Tunnels \ account.used /\ f # None
      BY <1>2, <2>2, AccountAssumption DEF FreshTunnels
    <3>2. account' = AddTunnel(account, f) /\ UndoOf(account', s, f) = <<DeleteTunnel(f)>>
      BY <1>2, <2>2 DEF Perform, UndoOf
    <3> QED
      BY <1>2, <2>1, <2>2, <3>1, <3>2 DEF Creates
  <2>3. CASE s.op # "CreateTunnel"
    <3>1. f = None
      BY <1>2, <2>3
    <3> QED
      BY <1>2, <2>1, <2>3, <3>1 DEF Advances
  <2> QED
    BY <2>2, <2>3
<1>3. ASSUME account' = account, Failed(t, {}) PROVE Fails(t)
  BY <1>3 DEF Failed, Fails, Unheard
<1>4. ASSUME Accepts(account, s), s.op # "CreateTunnel", account' = PerformUnheard(account, s),
             Failed(t, {ItemOf(s)})
      PROVE  Fails(t)
  BY <1>4 DEF Failed, Fails, Unheard
<1> QED
  BY <1>1, <1>2, <1>3, <1>4 DEF Call

\* Reading a configuration leads to its write, or to a rollback.
LEMMA ReadIs ==
  ASSUME Typed, NEW t \in Tasks, ReadConfig(t)
  PROVE  StepNow(t) /\ SameGoal(t) /\ (Puts(t) \/ Fails(t))
<1> USE DEF Typed, Phased, Goto
<1>1. StepNow(t) /\ SameGoal(t) /\ Current(t).op = "PutConfig" /\ account' = account
  BY DEF ReadConfig, SameGoal, Failed
<1>2. (Goto(t, "put") /\ UNCHANGED <<at, created, done, left, unsure>>) \/ Failed(t, {})
  BY DEF ReadConfig
<1> QED
  BY <1>1, <1>2 DEF Puts, Failed, Fails, Unheard

\* Its write is a step like the others.
LEMMA WriteIs ==
  ASSUME Typed, NEW t \in Tasks, WriteIngress(t), Current(t).op = "PutConfig"
  PROVE  pc[t] = "put" /\ SameGoal(t) /\ (Advances(t) \/ Fails(t))
<1> USE DEF Typed, Phased, Goto
<1>1. pc[t] = "put" /\ SameGoal(t)
  BY DEF WriteIngress, SameGoal, Answered, Failed
<1> DEFINE s == Current(t)
<1>2. ASSUME Accepts(account, s), account' = Perform(account, s, None), UNCHANGED created,
             Answered(t, UndoOf(account', s, None))
      PROVE  Advances(t)
  BY <1>2 DEF Answered, Keeps, Entry, Advances
<1>3. ASSUME account' = account, Failed(t, {}) PROVE Fails(t)
  BY <1>3 DEF Failed, Fails, Unheard
<1>4. ASSUME Accepts(account, s), account' = PerformUnheard(account, s), Failed(t, {ItemOf(s)})
      PROVE  Fails(t)
  BY <1>4 DEF Failed, Fails, Unheard
<1> QED
  BY <1>1, <1>2, <1>3, <1>4 DEF WriteIngress

\* One undo, made or not, goes from the list of those still to make.
LEMMA UndoLastIs ==
  ASSUME Typed, NEW t \in Tasks, UndoLast(t)
  PROVE  SameGoal(t) /\ Undoes(t)
<1> USE DEF Typed, Phased
<1>1. SameGoal(t) /\ pc[t] = "undo" /\ done[t] # <<>>
  BY DEF UndoLast, SameGoal, Undone
<1>2. \A M : Undone(t, M) => /\ pc'[t] = "undo" /\ at'[t] = at[t] /\ created'[t] = created[t]
                            /\ unsure'[t] = unsure[t] /\ left'[t] = left[t] \cup M
                            /\ done'[t] = SubSeq(done[t], 1, Len(done[t]) - 1)
  BY <1>1 DEF Undone
<1> DEFINE s == LastUndo(t)
<1> HIDE DEF s
<1>3. \/ Accepts(account, s) /\ account' = Perform(account, s, None) /\ Undone(t, {})
      \/ account' = account /\ Undone(t, {ItemOf(s)})
      \/ Accepts(account, s) /\ account' = PerformUnheard(account, s) /\ Undone(t, {ItemOf(s)})
  BY DEF UndoLast, s
<1> QED
  BY <1>1, <1>2, <1>3 DEF Undoes, s

-----------------------------------------------------------------------------
(* A call keeps what a task works from                                     *)

\* A call of a task that has its tunnel is one the account knows.
LEMMA CurrentTyped ==
  ASSUME Typed, NEW t \in Tasks, Under(t), start[t].used \subseteq account.used,
         at[t] \in DOMAIN Steps(t), Mine(t) # None
  PROVE  /\ TypedStep(Current(t), account.used) /\ Current(t).op # "CreateTunnel"
         /\ Grounded(Current(t), start[t], Mine(t)) /\ Current(t) = QOf(t)[at[t]]
         /\ About(Current(t), Mine(t)) = ItemOf(Current(t))
<1>1. /\ Current(t) = QOf(t)[at[t]] /\ Current(t).op # "CreateTunnel" /\ start[t] \in Accounts
      /\ at[t] \in DOMAIN QOf(t) /\ Shaped(QOf(t), start[t], Mine(t)) /\ Mine(t) \in account.used
  BY PlanFacts
<1>2. Grounded(Current(t), start[t], Mine(t))
  BY <1>1 DEF Shaped
<1> QED
  BY <1>1, <1>2, GroundedTyped DEF About

\* As long as its goal, its place and its undos are those of before.
LEMMA UnderStays ==
  ASSUME NEW t \in Tasks, Under(t), SameGoal(t), at'[t] = at[t], created'[t] = created[t],
         done'[t] = done[t], account.used \subseteq account'.used,
         Mine(t) = None => left'[t] = {} /\ unsure'[t] = {}
  PROVE  /\ Under(t)' /\ Mine(t)' = Mine(t) /\ QOf(t)' = QOf(t) /\ Steps(t)' = Steps(t)
         /\ Current(t)' = Current(t)
<1>1. /\ Mine(t)' = Mine(t) /\ QOf(t)' = QOf(t) /\ Steps(t)' = Steps(t)
      /\ Current(t)' = Current(t)
  BY DEF SameGoal, Mine, QOf, Steps, PlanOf, Current, Resolve
<1>2. \A s : TypedStep(s, account.used) => TypedStep(s, account'.used)
  BY TypedLater
<1>3. \A j \in DOMAIN done'[t] : /\ TypedStep(done'[t][j].undo, account'.used)
                                /\ done'[t][j].undo.op # "CreateTunnel"
  BY <1>2 DEF Under
<1> QED
  BY <1>1, <1>3 DEF Under, SameGoal

\* A step that was answered keeps an undo that may be called.
LEMMA UnderAdvances ==
  ASSUME Typed, NEW t \in Tasks, Under(t), start[t].used \subseteq account.used, SameGoal(t),
         at[t] \in DOMAIN Steps(t), Advances(t)
  PROVE  /\ account' \in Accounts /\ account'.used = account.used /\ Mine(t) # None
         /\ Under(t)' /\ Mine(t)' = Mine(t) /\ QOf(t)' = QOf(t) /\ Steps(t)' = Steps(t)
<1> DEFINE s == Current(t)
           u == UndoOf(account', s, None)
<1>0. /\ Mine(t) # None /\ account \in Accounts /\ at[t] \in Nat \ {0}
      /\ DOMAIN Steps(t) = 1..Len(Steps(t)) /\ Len(Steps(t)) \in Nat
  BY PlanFacts DEF Advances, Typed
<1>1. TypedStep(s, account.used) /\ Accepts(account, s) /\ s.op # "CreateTunnel"
  BY <1>0, CurrentTyped DEF Advances
<1>2. account' = Perform(account, s, None) /\ Keeps(t, u) /\ created'[t] = created[t]
  BY DEF Advances
<1> HIDE DEF s
<1>3. account' \in Accounts /\ account'.used = account.used
  BY <1>0, <1>1, <1>2, PerformIs DEF PerformsWell
<1>4. Mine(t)' = Mine(t) /\ QOf(t)' = QOf(t) /\ Steps(t)' = Steps(t)
  BY <1>2 DEF SameGoal, Mine, QOf, Steps, PlanOf
<1>5. u # <<>> => TypedStep(u[1], account.used) /\ u[1].op # "CreateTunnel"
  <2>1. u # <<>> => TypedStep(u[1], account.used)
    BY <1>0, <1>1, <1>2, UndoIs
  <2>2. u # <<>> => u[1].op # "CreateTunnel"
    BY DEF UndoOf, DeleteTunnel, PutConfig, DeleteRecord, RestoreRecord, RecreateRecord, DeleteApp,
           UpdateApp, CreateApp, StartConnector
  <2> QED
    BY <2>1, <2>2
<1> HIDE DEF u
<1>6. IsList(done'[t]) /\ \A j \in DOMAIN done'[t] : /\ TypedStep(done'[t][j].undo, account.used)
                                                   /\ done'[t][j].undo.op # "CreateTunnel"
  <2>1. CASE u = <<>>
    BY <2>1, <1>2 DEF Keeps, Under
  <2>2. CASE u # <<>>
    <3> DEFINE e == Entry(at[t], u[1])
               D == done[t]
    <3>1. e.undo = u[1] /\ IsList(D) /\ done'[t] = Append(D, e)
      BY <2>2, <1>2 DEF Keeps, Under, Entry
    <3>2. \A j \in DOMAIN D : TypedStep(D[j].undo, account.used) /\ D[j].undo.op # "CreateTunnel"
      BY DEF Under
    <3> HIDE DEF e, D
    <3>3. /\ IsList(Append(D, e)) /\ DOMAIN Append(D, e) = 1..(Len(D) + 1) /\ Len(D) \in Nat
          /\ DOMAIN D = 1..Len(D) /\ Append(D, e)[Len(D) + 1] = e
          /\ \A j \in DOMAIN D : Append(D, e)[j] = D[j]
      BY <3>1, AppendIs
    <3>4. \A j \in 1..(Len(D) + 1) : j \in 1..Len(D) \/ j = Len(D) + 1
      BY <3>3
    <3>5. ASSUME NEW j \in DOMAIN Append(D, e)
          PROVE  /\ TypedStep(Append(D, e)[j].undo, account.used)
                 /\ Append(D, e)[j].undo.op # "CreateTunnel"
      <4>1. CASE j \in DOMAIN D
        BY <4>1, <3>2, <3>3
      <4>2. CASE j = Len(D) + 1
        BY <4>2, <3>1, <3>3, <2>2, <1>5
      <4> QED
        BY <4>1, <4>2, <3>3, <3>4
    <3> QED
      BY <3>1, <3>3, <3>5
  <2> QED
    BY <2>1, <2>2
<1>7. at'[t] \in 1..(Len(Steps(t)) + 1) /\ at'[t] > 1
  BY <1>0, <1>2 DEF Keeps
<1>8. Its(start[t], Mine(t)) /\ Mine(t) \in account.used
  BY <1>0 DEF Under
<1> QED
  BY <1>0, <1>3, <1>4, <1>6, <1>7, <1>8 DEF Under, SameGoal

\* The tunnel a task created is its own, and was never there before.
LEMMA UnderCreates ==
  ASSUME Typed, NEW t \in Tasks, Under(t), start[t].used \subseteq account.used, SameGoal(t),
         at[t] \in DOMAIN Steps(t), Creates(t)
  PROVE  /\ account' \in Accounts /\ account.used \subseteq account'.used /\ Mine(t) = None
         /\ MyTunnel(start[t]) = None /\ at[t] = 1 /\ done[t] = <<>> /\ Steps(t)' = Steps(t)
         /\ Under(t)' /\ Mine(t)' \in Tunnels \ account.used
         /\ account' = AddTunnel(account, Mine(t)') /\ at'[t] = 2
         /\ done'[t] = Append(<<>>, Entry(1, DeleteTunnel(Mine(t)')))
<1>0. /\ Mine(t) = None /\ account \in Accounts /\ at[t] = 1 /\ done[t] = <<>>
      /\ DOMAIN Steps(t) = 1..Len(Steps(t)) /\ Len(Steps(t)) \in Nat
      /\ MyTunnel(start[t]) = None /\ snap[t].tunnel = None /\ start[t] \in Accounts
    BY PlanFacts DEF Creates, Typed, Under
<1>1. PICK x \in Tunnels \ account.used :
           account' = AddTunnel(account, x) /\ created'[t] = x /\ Keeps(t, <<DeleteTunnel(x)>>)
  BY DEF Creates
<1>2. account' \in Accounts /\ account'.used = account.used \cup {x}
  <2>1. AddTunnel(account, x) \in Accounts /\ AddTunnel(account, x).used = account.used \cup {x}
    BY <1>0, AddTunnelIs
  <2> QED
    BY <1>1, <2>1
<1>3. Mine(t)' = x /\ Steps(t)' = Steps(t) /\ x # None
  BY <1>0, <1>1, AccountAssumption DEF SameGoal, Mine, Steps, PlanOf
<1>4. at'[t] = 2 /\ done'[t] = Append(<<>>, Entry(1, DeleteTunnel(x)))
  BY <1>0, <1>1 DEF Keeps
<1>5. TypedStep(DeleteTunnel(x), account'.used) /\ DeleteTunnel(x).op # "CreateTunnel"
  BY <1>2 DEF TypedStep, DeleteTunnel
<1>6. IsList(done'[t]) /\ \A j \in DOMAIN done'[t] : done'[t][j].undo = DeleteTunnel(x)
  <2>1. IsList(<<>>)
    BY <1>0 DEF Under
  <2> DEFINE e == Entry(1, DeleteTunnel(x))
  <2>2. e.undo = DeleteTunnel(x)
    BY DEF Entry
  <2> HIDE DEF e
  <2>3. /\ IsList(Append(<<>>, e)) /\ DOMAIN Append(<<>>, e) = 1..1
        /\ Append(<<>>, e)[1] = e
    <3> DEFINE D == done[t]
    <3>1. IsList(D) /\ Len(D) = 0 /\ D = <<>>
      BY <1>0, <2>1
    <3> HIDE DEF D
    <3>2. /\ IsList(Append(D, e)) /\ DOMAIN Append(D, e) = 1..(Len(D) + 1)
          /\ Append(D, e)[Len(D) + 1] = e
      BY <3>1, AppendIs
    <3>3. /\ IsList(Append(D, e)) /\ DOMAIN Append(D, e) = 1..1
          /\ Append(D, e)[1] = e
      BY <3>1, <3>2
    <3> QED
      BY <3>1, <3>3
  <2> QED
    BY <1>4, <2>2, <2>3 DEF e
<1>7. Its(start[t], x) /\ x \in account'.used
  BY <1>0, <1>1, <1>2 DEF Its
<1>8. at'[t] \in 1..(Len(Steps(t)) + 1) /\ at'[t] > 1
  BY <1>0, <1>4
<1>9. \A j \in DOMAIN done'[t] : /\ TypedStep(done'[t][j].undo, account'.used)
                                /\ done'[t][j].undo.op # "CreateTunnel"
  BY <1>5, <1>6
<1> QED
  BY <1>0, <1>1, <1>2, <1>3, <1>4, <1>6, <1>7, <1>8, <1>9 DEF Under, SameGoal

\* A task whose call fails still works from what it observed.
LEMMA UnderFails ==
  ASSUME Typed, NEW t \in Tasks, Under(t), start[t].used \subseteq account.used, SameGoal(t),
         at[t] \in DOMAIN Steps(t), Fails(t)
  PROVE  /\ account' \in Accounts /\ account'.used = account.used
         /\ Under(t)' /\ Mine(t)' = Mine(t) /\ QOf(t)' = QOf(t) /\ Steps(t)' = Steps(t)
<1> DEFINE s == Current(t)
<1>0. Mine(t) = None <=> s.op = "CreateTunnel"
  BY PlanFacts
<1>1. PICK M : unsure'[t] = unsure[t] \cup M /\ Unheard(s, M)
  BY DEF Fails
<1>2. account' \in Accounts /\ account'.used = account.used
  <2>1. CASE account' = account
    BY <2>1 DEF Typed
  <2>2. CASE account' = PerformUnheard(account, s) /\ Accepts(account, s) /\ s.op # "CreateTunnel"
    <3>1. TypedStep(s, account.used) /\ account \in Accounts
      BY <2>2, <1>0, CurrentTyped DEF Typed
    <3> HIDE DEF s
    <3> QED
      BY <2>2, <3>1, PerformUnheardIs DEF PerformsWell
  <2> QED
    BY <1>1, <2>1, <2>2 DEF Unheard
<1>3. Mine(t) = None => M = {}
  BY <1>0, <1>1 DEF Unheard
<1>4. Mine(t) = None => left'[t] = {} /\ unsure'[t] = {}
  BY <1>1, <1>3 DEF Under, Fails
<1> QED
  BY <1>2, <1>4, UnderStays DEF Fails

\* So does one that takes a step back.
LEMMA UnderUndoes ==
  ASSUME Typed, NEW t \in Tasks, Under(t), SameGoal(t), Undoes(t)
  PROVE  /\ account' \in Accounts /\ account'.used = account.used /\ Mine(t) # None
         /\ Under(t)' /\ Mine(t)' = Mine(t) /\ QOf(t)' = QOf(t) /\ Steps(t)' = Steps(t)
         /\ Current(t)' = Current(t)
         /\ LET u == LastUndo(t)
            IN  /\ TypedStep(u, account.used) /\ u.op # "CreateTunnel"
                /\ account' = account \/ PerformsWell(account, u, account')
<1> DEFINE D == done[t]
           u == LastUndo(t)
<1>1. Mine(t) # None /\ IsList(D) /\ D # <<>> /\ account \in Accounts
  BY DEF Under, Undoes, Typed
<1>2. Mine(t)' = Mine(t) /\ QOf(t)' = QOf(t) /\ Steps(t)' = Steps(t) /\ Current(t)' = Current(t)
  BY DEF SameGoal, Undoes, Mine, QOf, Steps, PlanOf, Current, Resolve
<1>3. /\ IsList(done'[t]) /\ DOMAIN done'[t] \subseteq DOMAIN D /\ Len(D) \in DOMAIN D
      /\ \A j \in DOMAIN done'[t] : done'[t][j] = D[j]
  <2>1. done'[t] = SubSeq(D, 1, Len(D) - 1)
    BY DEF Undoes
  <2> DEFINE E == SubSeq(D, 1, Len(D) - 1)
  <2> HIDE DEF D
  <2>2. /\ IsList(E) /\ Len(D) \in Nat \ {0} /\ DOMAIN D = 1..Len(D)
        /\ DOMAIN E = 1..(Len(D) - 1) /\ \A j \in DOMAIN E : E[j] = D[j]
    BY <1>1, ButLastIs
  <2> HIDE DEF E
  <2> QED
    BY <2>1, <2>2 DEF E
<1>4. TypedStep(u, account.used) /\ u.op # "CreateTunnel"
  BY <1>3 DEF Under, LastUndo
<1> HIDE DEF u
<1>5. account' = account \/ PerformsWell(account, u, account')
  <2>1. \/ account' = account
        \/ Accepts(account, u) /\ account' = Perform(account, u, None)
        \/ Accepts(account, u) /\ account' = PerformUnheard(account, u)
    BY DEF Undoes, u
  <2> QED
    BY <2>1, <1>1, <1>4, PerformIs, PerformUnheardIs
<1>6. account' \in Accounts /\ account'.used = account.used
  BY <1>1, <1>5 DEF PerformsWell
<1>7. \A j \in DOMAIN done'[t] : /\ TypedStep(done'[t][j].undo, account'.used)
                                /\ done'[t][j].undo.op # "CreateTunnel"
  BY <1>3, <1>6 DEF Under
<1>8. Under(t)'
  BY <1>1, <1>2, <1>3, <1>6, <1>7 DEF Under, SameGoal, Undoes
<1> QED
  BY <1>1, <1>2, <1>4, <1>5, <1>6, <1>8 DEF u

-----------------------------------------------------------------------------
(* Every step keeps the types                                              *)

\* An observation is a snapshot.
LEMMA ObservedTyped ==
  ASSUME NEW i \in AllIntents, NEW a \in Accounts
  PROVE  Observe(i, a) \in Snapshots
<1> DEFINE s == Observe(i, a)
<1>1. /\ s.tunnel \in Tunnels \cup {None} /\ s.version \in Nat /\ s.rules \in Rules \cup {Unset}
      /\ \A h \in Hosts : s.dns[h] = IF h \in HostsOf(i, a) THEN a.dns[h] ELSE None
      /\ \A k \in Keys : s.login[k] = IF k \in Domains(i, a) THEN a.login[k] ELSE None
  BY Observed
<1>2. s.dns \in [Hosts -> Records \cup {None}]
  <2>1. s.dns = [h \in Hosts |-> IF h \in HostsOf(i, a) THEN a.dns[h] ELSE None]
    BY DEF Observe
  <2> QED
    BY <2>1, AccountTypes
<1>3. s.login \in [Keys -> Apps \cup {None}]
  <2>1. s.login = [k \in Keys |-> IF k \in Domains(i, a) THEN a.login[k] ELSE None]
    BY DEF Observe
  <2> QED
    BY <2>1, AccountTypes
<1>4. s = [tunnel |-> s.tunnel, version |-> s.version, rules |-> s.rules, dns |-> s.dns,
           login |-> s.login]
  BY DEF Observe
<1> HIDE DEF s
<1> QED
  BY <1>1, <1>2, <1>3, <1>4 DEF Snapshots, s

\* While it waits, or once it was refused, a task has done nothing.
LEMMA BareTask ==
  ASSUME NEW t \in Tasks, TaskOK(t), pc[t] \in Bare, pc'[t] \in Bare, start'[t] = start[t],
         account' = account, UNCHANGED <<at, created, done, left, unsure>>,
         pc'[t] # "idle" => intent'[t] \in AllIntents /\ ~Plan(intent'[t], reviewed'[t]).refused
  PROVE  TaskOK(t)'
<1>1. pc'[t] \notin Begun /\ pc'[t] \notin {"put", "undo", "rolledBack", "partly", "step", "applied"}
  BY DEF Bare, Begun, Running
<1>2. /\ at'[t] = 1 /\ done'[t] = <<>> /\ left'[t] = {} /\ unsure'[t] = {} /\ created'[t] = None
  BY DEF TaskOK
<1>3. start'[t].used \subseteq account'.used
  BY DEF TaskOK
<1> QED
  BY <1>1, <1>2, <1>3 DEF TaskOK

\* A task that applies has a plan that was reviewed, and never waits.
LEMMA BegunTask ==
  ASSUME NEW t \in Tasks, TaskOK(t), SameGoal(t), pc[t] \in Running, pc'[t] \in Begun,
         account.used \subseteq account'.used, Under(t)',
         pc'[t] \in {"put", "undo", "rolledBack", "partly"} => (at[t] \in DOMAIN Steps(t))',
         pc'[t] = "put" => (Current(t).op = "PutConfig")',
         pc'[t] \in {"step", "put", "applied"} => left'[t] = {} /\ unsure'[t] = {},
         pc'[t] = "applied" => (at[t] > Len(Steps(t)))',
         pc'[t] \in {"rolledBack", "partly"} => done'[t] = <<>>,
         pc'[t] = "rolledBack" => left'[t] = {}
  PROVE  TaskOK(t)'
<1>1. pc'[t] \notin Bare /\ pc'[t] # "idle" /\ pc[t] # "idle"
  BY DEF Bare, Begun, Running
<1>2. intent'[t] \in AllIntents /\ ~Plan(intent'[t], reviewed'[t]).refused
  BY <1>1 DEF TaskOK, SameGoal
<1>3. start'[t].used \subseteq account'.used
  BY DEF TaskOK, SameGoal
<1> QED
  BY <1>1, <1>2, <1>3 DEF TaskOK

\* A call keeps what is known of the task that makes it.
LEMMA CallTask ==
  ASSUME TypeInv, NEW t \in Tasks, Call(t) \/ ReadConfig(t) \/ WriteIngress(t)
  PROVE  account' \in Accounts /\ account.used \subseteq account'.used /\ TaskOK(t)'
<1>1. Typed /\ TaskOK(t)
  BY DEF TypeInv
<1>2. /\ SameGoal(t) /\ pc[t] \in {"step", "put"}
      /\ pc[t] = "step" => at[t] <= Len(Steps(t))
      /\ Advances(t) \/ Creates(t) \/ Fails(t) \/ Puts(t)
  <2>1. CASE Call(t)
    BY <2>1, <1>1, CallIs DEF StepNow
  <2>2. CASE ReadConfig(t)
    BY <2>2, <1>1, ReadIs DEF StepNow
  <2>3. CASE WriteIngress(t)
    <3>1. pc[t] = "put" /\ Current(t).op = "PutConfig"
      BY <2>3, <1>1 DEF WriteIngress, TaskOK
    <3> QED
      BY <3>1, <2>3, <1>1, WriteIs
  <2> QED
    BY <2>1, <2>2, <2>3
<1>3. Under(t) /\ start[t].used \subseteq account.used /\ left[t] = {} /\ unsure[t] = {}
  BY <1>1, <1>2 DEF TaskOK, Begun, Running
<1>4. /\ DOMAIN Steps(t) = 1..Len(Steps(t)) /\ Len(Steps(t)) \in Nat /\ at[t] \in Nat \ {0}
  BY <1>1, <1>3, PlanFacts
<1>5. at[t] \in DOMAIN Steps(t)
  <2>1. CASE pc[t] = "step"
    BY <2>1, <1>2, <1>4
  <2>2. CASE pc[t] = "put"
    BY <2>2, <1>1 DEF TaskOK
  <2> QED
    BY <1>2, <2>1, <2>2
<1>6. CASE Advances(t)
  <2>1. /\ account' \in Accounts /\ account'.used = account.used /\ Under(t)'
    BY <1>1, <1>2, <1>3, <1>5, <1>6, UnderAdvances
  <2>2. pc'[t] = "step" /\ left'[t] = {} /\ unsure'[t] = {}
    BY <1>3, <1>6 DEF Advances, Keeps
  <2> QED
    BY <2>1, <2>2, <1>1, <1>2, BegunTask DEF Running, Begun
<1>7. CASE Creates(t)
  <2>1. /\ account' \in Accounts /\ account.used \subseteq account'.used /\ Under(t)'
    BY <1>1, <1>2, <1>3, <1>5, <1>7, UnderCreates
  <2>2. pc'[t] = "step" /\ left'[t] = {} /\ unsure'[t] = {}
    BY <1>3, <1>7 DEF Creates, Keeps
  <2> QED
    BY <2>1, <2>2, <1>1, <1>2, BegunTask DEF Running, Begun
<1>8. CASE Fails(t)
  <2>1. /\ account' \in Accounts /\ account'.used = account.used /\ Under(t)'
        /\ Steps(t)' = Steps(t)
    BY <1>1, <1>2, <1>3, <1>5, <1>8, UnderFails
  <2>2. pc'[t] = "undo" /\ at'[t] = at[t]
    BY <1>8 DEF Fails
  <2> QED
    BY <2>1, <2>2, <1>1, <1>2, <1>5, BegunTask DEF Running, Begun
<1>9. CASE Puts(t)
  <2>1. /\ pc'[t] = "put" /\ account' = account /\ at'[t] = at[t] /\ created'[t] = created[t]
        /\ done'[t] = done[t] /\ left'[t] = left[t] /\ unsure'[t] = unsure[t]
        /\ Current(t).op = "PutConfig"
    BY <1>9 DEF Puts
  <2>2. Under(t)' /\ Current(t)' = Current(t) /\ Steps(t)' = Steps(t)
    BY <2>1, <1>2, <1>3, UnderStays
  <2>3. account' \in Accounts
    BY <2>1, <1>1 DEF Typed
  <2> QED
    BY <2>1, <2>2, <2>3, <1>1, <1>2, <1>3, <1>5, BegunTask DEF Running, Begun
<1> QED
  BY <1>2, <1>6, <1>7, <1>8, <1>9

\* A task that starts works from the account it observed.
LEMMA AcceptTask ==
  ASSUME TypeInv, NEW t \in Tasks, Accept(t)
  PROVE  /\ account' = account /\ TaskOK(t)' /\ start'[t] = account /\ snap'[t] \in Snapshots
         /\ Mine(t)' = MyTunnel(account) /\ at'[t] = 1 /\ done'[t] = <<>> /\ pc'[t] = "step"
         /\ left'[t] = {} /\ unsure'[t] = {} /\ intent'[t] = intent[t] /\ Reviewed(intent[t], account)
<1>1. Typed /\ TaskOK(t) /\ pc[t] = "observe" /\ account \in Accounts
  BY DEF TypeInv, Accept, Typed
<1> DEFINE i == intent[t]
           s == Observe(i, account)
<1>2. /\ s = reviewed[t] /\ snap'[t] = s /\ start'[t] = account /\ pc'[t] = "step"
      /\ account' = account /\ intent'[t] = i /\ reviewed'[t] = s /\ at'[t] = 1
      /\ done'[t] = <<>> /\ left'[t] = {} /\ unsure'[t] = {} /\ created'[t] = None
      /\ done[t] = <<>>
  BY <1>1 DEF Accept, Typed, Phased, Goto, TaskOK, Bare
<1>3. i \in AllIntents /\ Reviewed(i, account) /\ ~Plan(i, s).refused
  BY <1>1, <1>2 DEF TaskOK, Reviewed
<1>4. /\ s.tunnel = MyTunnel(account)
      /\ MyTunnel(account) # None => MyTunnel(account) \in account.used
  BY <1>1, <1>3, Observed
<1>5. Mine(t)' = MyTunnel(account)
  BY <1>2, <1>4 DEF Mine
<1>6. Steps(t)' = Plan(i, s).steps /\ Len(Plan(i, s).steps) \in Nat
  BY <1>1, <1>2, <1>3, PlanIs DEF Steps, PlanOf
<1>7. IsList(<<>>) /\ \A j \in DOMAIN <<>> : FALSE
  BY DEF IsList
<1>8. Under(t)'
  BY <1>1, <1>2, <1>3, <1>4, <1>5, <1>6, <1>7 DEF Under, Its
<1>9. s \in Snapshots
  BY <1>1, <1>3, ObservedTyped
<1> HIDE DEF s
<1>10. TaskOK(t)'
  BY <1>2, <1>3, <1>8 DEF TaskOK, Bare, Begun, Running
<1> QED
  BY <1>2, <1>3, <1>5, <1>9, <1>10

\* A task that has done every step has its tunnel.
LEMMA FinishIs ==
  ASSUME TypeInv, NEW t \in Tasks, Finish(t)
  PROVE  /\ Under(t) /\ SameGoal(t) /\ pc[t] = "step" /\ pc'[t] = "applied" /\ Mine(t) # None
         /\ at[t] = Len(Steps(t)) + 1 /\ left[t] = {} /\ unsure[t] = {}
         /\ at'[t] = at[t] /\ created'[t] = created[t] /\ done'[t] = done[t]
         /\ left'[t] = left[t] /\ unsure'[t] = unsure[t]
         /\ account' \in Accounts /\ account'.used = account.used
         /\ \E R \in SUBSET Tunnels : account = [account' EXCEPT !.running = R]
<1>1. Typed /\ TaskOK(t) /\ account \in Accounts
  BY DEF TypeInv, Typed
<1>2. /\ pc[t] = "step" /\ pc'[t] = "applied" /\ at[t] > Len(Steps(t))
      /\ UNCHANGED <<intent, reviewed, agreed, snap, at, created, done, left, start, unsure>>
  BY <1>1 DEF Finish, Goto, Typed, Phased, taskVars
<1>3. Under(t) /\ left[t] = {} /\ unsure[t] = {}
  BY <1>1, <1>2 DEF TaskOK, Begun, Running
<1>4. /\ DOMAIN Steps(t) = 1..Len(Steps(t)) /\ Len(Steps(t)) \in Nat /\ at[t] \in Nat
      /\ Mine(t) = None => 1 \in DOMAIN Steps(t)
      /\ Mine(t) # None => Mine(t) \in Tunnels
  BY <1>1, <1>3, PlanFacts
<1>5. Mine(t) # None
  BY <1>2, <1>3, <1>4 DEF Under
<1>6. at[t] = Len(Steps(t)) + 1
  BY <1>2, <1>3, <1>4 DEF Under
<1> DEFINE x == IF created[t] = None THEN snap[t].tunnel ELSE created[t]
<1>7. x \in Tunnels
  BY <1>1, <1>4, <1>5 DEF Mine, Typed
<1> HIDE DEF x
<1>8. /\ account' \in Accounts /\ account'.used = account.used
      /\ \E R \in SUBSET Tunnels : account = [account' EXCEPT !.running = R]
  <2> DEFINE d == [account EXCEPT !.running = @ \cup {x}]
  <2>1. account' = account \/ (account.tunnels[x] # None /\ account' = d)
    <3>1. \/ account' = account
          \/ Accepts(account, StartConnector(x)) /\ account' = Perform(account, StartConnector(x), None)
      BY DEF Finish, x
    <3>2. Accepts(account, StartConnector(x)) <=> account.tunnels[x] # None
      BY DEF Accepts, StartConnector
    <3>3. Perform(account, StartConnector(x), None) = d
      BY DEF Perform, StartConnector
    <3> QED
      BY <3>1, <3>2, <3>3
  <2>2. account.running \in SUBSET Tunnels /\ \A y \in account.running : account.tunnels[y] # None
    BY <1>1, AccountTypes
  <2>3. account = [account EXCEPT !.running = account.running]
    BY <1>1 DEF Accounts
  <2>4. account.tunnels[x] # None => /\ d \in Accounts /\ d.used = account.used
                                     /\ account = [d EXCEPT !.running = account.running]
    <3> SUFFICES ASSUME account.tunnels[x] # None
                 PROVE  /\ d \in Accounts /\ d.used = account.used
                        /\ account = [d EXCEPT !.running = account.running]
      OBVIOUS
    <3> DEFINE Q == account.running \cup {x}
    <3>1. Q \in SUBSET Tunnels /\ \A y \in Q : account.tunnels[y] # None
      BY <2>2, <1>7
    <3>2. d = [account EXCEPT !.running = Q]
      OBVIOUS
    <3> HIDE DEF Q
    <3>3. [account EXCEPT !.running = Q] \in Accounts /\ [account EXCEPT !.running = Q].used = account.used
      BY <1>1, <3>1, RunningIs
    <3>4. account = [[account EXCEPT !.running = Q] EXCEPT !.running = account.running]
      BY <1>1 DEF Accounts
    <3> QED
      BY <3>2, <3>3, <3>4
  <2> HIDE DEF d
  <2> QED
    BY <2>1, <2>2, <2>3, <2>4, <1>1
<1> QED
  BY <1>2, <1>3, <1>5, <1>6, <1>8 DEF SameGoal

\* The end of a plan keeps what is known of its task.
LEMMA FinishTask ==
  ASSUME TypeInv, NEW t \in Tasks, Finish(t)
  PROVE  account' \in Accounts /\ account'.used = account.used /\ TaskOK(t)'
<1>1. TaskOK(t)
  BY DEF TypeInv
<1>2. /\ Under(t) /\ SameGoal(t) /\ pc[t] = "step" /\ pc'[t] = "applied" /\ Mine(t) # None
      /\ at[t] = Len(Steps(t)) + 1 /\ left[t] = {} /\ unsure[t] = {}
      /\ at'[t] = at[t] /\ created'[t] = created[t] /\ done'[t] = done[t]
      /\ left'[t] = left[t] /\ unsure'[t] = unsure[t]
      /\ account' \in Accounts /\ account'.used = account.used
  BY FinishIs
<1>3. Under(t)' /\ Steps(t)' = Steps(t)
  BY <1>2, UnderStays
<1>4. (at[t] > Len(Steps(t)))'
  <2>1. Len(Steps(t)) \in Nat
    BY <1>2, PlanFacts DEF TypeInv
  <2> QED
    BY <2>1, <1>2, <1>3
<1> QED
  BY <1>1, <1>2, <1>3, <1>4, BegunTask DEF Running, Begun

\* So does an undo.
LEMMA UndoTask ==
  ASSUME TypeInv, NEW t \in Tasks, UndoLast(t)
  PROVE  account' \in Accounts /\ account'.used = account.used /\ TaskOK(t)'
<1>1. Typed /\ TaskOK(t)
  BY DEF TypeInv
<1>2. SameGoal(t) /\ Undoes(t) /\ pc[t] = "undo" /\ pc'[t] = "undo" /\ at'[t] = at[t]
  BY <1>1, UndoLastIs DEF Undoes
<1>3. Under(t) /\ at[t] \in DOMAIN Steps(t)
  BY <1>1, <1>2 DEF TaskOK, Begun, Running
<1>4. /\ account' \in Accounts /\ account'.used = account.used /\ Under(t)'
      /\ Steps(t)' = Steps(t)
  BY <1>1, <1>2, <1>3, UnderUndoes
<1> QED
  BY <1>1, <1>2, <1>3, <1>4, BegunTask DEF Running, Begun

\* So does the end of a rollback.
LEMMA RolledBackTask ==
  ASSUME TypeInv, NEW t \in Tasks, RolledBack(t)
  PROVE  /\ account' = account /\ TaskOK(t)' /\ pc[t] = "undo" /\ SameGoal(t) /\ done[t] = <<>>
         /\ pc'[t] \in {"rolledBack", "partly"} /\ Mine(t)' = Mine(t) /\ QOf(t)' = QOf(t)
         /\ Steps(t)' = Steps(t) /\ at'[t] = at[t] /\ left'[t] = left[t] /\ unsure'[t] = unsure[t]
<1>1. Typed /\ TaskOK(t)
  BY DEF TypeInv
<1>2. /\ SameGoal(t) /\ pc[t] = "undo" /\ at'[t] = at[t] /\ created'[t] = created[t]
      /\ done[t] = <<>> /\ done'[t] = done[t] /\ left'[t] = left[t] /\ unsure'[t] = unsure[t]
      /\ account' = account
      /\ pc'[t] = IF left[t] = {} THEN "rolledBack" ELSE "partly"
  BY <1>1 DEF RolledBack, SameGoal, Goto, Typed, Phased, taskVars
<1>3. Under(t) /\ at[t] \in DOMAIN Steps(t)
  BY <1>1, <1>2 DEF TaskOK, Begun, Running
<1>4. /\ Under(t)' /\ Mine(t)' = Mine(t) /\ QOf(t)' = QOf(t) /\ Steps(t)' = Steps(t)
  BY <1>2, <1>3, UnderStays DEF Under
<1>5. TaskOK(t)'
  BY <1>1, <1>2, <1>3, <1>4, BegunTask DEF Running, Begun
<1> QED
  BY <1>2, <1>4, <1>5

\* What a task's step does to the account, and to the task itself.
LEMMA TaskStep ==
  ASSUME TypeInv, NEW t \in Tasks, Review(t) \/ Apply(t)
  PROVE  account' \in Accounts /\ account.used \subseteq account'.used /\ TaskOK(t)'
<1>0. Typed /\ TaskOK(t) /\ account \in Accounts
  BY DEF TypeInv, Typed
<1>1. CASE Review(t)
  <2>1. PICK i \in Intents, yes \in BOOLEAN :
          /\ ~Plan(i, Observe(i, account)).refused
          /\ intent' = [intent EXCEPT ![t] = i]
          /\ reviewed' = [reviewed EXCEPT ![t] = Observe(i, account)]
    BY <1>1 DEF Review
  <2>2. /\ pc[t] \in Bare /\ pc'[t] \in Bare /\ start'[t] = start[t] /\ account' = account
        /\ UNCHANGED <<at, created, done, left, unsure>>
    BY <1>1, <1>0 DEF Review, Goto, Bare, Typed, Phased
  <2>3. intent'[t] = i /\ reviewed'[t] = Observe(i, account) /\ i \in AllIntents
    BY <2>1, <1>0, EngineAssumption DEF Typed
  <2> QED
    BY <1>0, <2>1, <2>2, <2>3, BareTask
<1>2. CASE TakeLock(t) \/ GiveUp(t)
  <2>1. /\ pc[t] \in Bare /\ pc[t] # "idle" /\ pc'[t] \in Bare /\ start'[t] = start[t]
        /\ account' = account /\ intent'[t] = intent[t] /\ reviewed'[t] = reviewed[t]
        /\ UNCHANGED <<at, created, done, left, unsure>>
    BY <1>2, <1>0 DEF TakeLock, GiveUp, Goto, Bare, Typed, Phased, taskVars
  <2> QED
    BY <1>0, <2>1, BareTask DEF TaskOK
<1>3. CASE Accept(t)
  BY <1>0, <1>3, AcceptTask
<1>4. CASE Call(t) \/ ReadConfig(t) \/ WriteIngress(t)
  BY <1>4, CallTask
<1>5. CASE Finish(t)
  BY <1>5, FinishTask
<1>6. CASE UndoLast(t)
  BY <1>6, UndoTask
<1>7. CASE RolledBack(t)
  BY <1>0, <1>7, RolledBackTask
<1> QED
  BY <1>1, <1>2, <1>3, <1>4, <1>5, <1>6, <1>7 DEF Apply

\* The variables keep their types, if the account does.
LEMMA TypedStays ==
  ASSUME TypeInv, NEW t \in Tasks, Review(t) \/ Apply(t), account' \in Accounts
  PROVE  Typed'
<1>1. Phased'
  <2>1. CASE Review(t)
    BY <2>1 DEF Review, Goto, TypeInv, Typed, Phased, Phases
  <2>2. CASE Apply(t)
    <3>1. TakeLock(t) \/ Stays(t) \/ Leaves(t)
      BY <2>2, ApplyShape DEF TypeInv, Typed
    <3> QED
      BY <3>1, EngineAssumption DEF TakeLock, Stays, Leaves, Unlock, Goto, TypeInv, Typed, Phased,
                                    Phases, HoldsLock, Running, Ended
  <2> QED
    BY <2>1, <2>2
<1> USE DEF TypeInv, Typed, taskVars
<1>2. CASE Review(t)
  <2>1. PICK i \in Intents, yes \in BOOLEAN :
          /\ intent' = [intent EXCEPT ![t] = i] /\ agreed' = [agreed EXCEPT ![t] = yes]
          /\ reviewed' = [reviewed EXCEPT ![t] = Observe(i, account)]
          /\ UNCHANGED <<snap, at, created, done, left, start, unsure, touched>>
    BY <1>2 DEF Review
  <2>2. Observe(i, account) \in Snapshots
    BY EngineAssumption, ObservedTyped
  <2> QED
    BY <1>1, <2>1, <2>2
<1>3. CASE TakeLock(t)
  BY <1>1, <1>3 DEF TakeLock
<1>4. CASE GiveUp(t)
  BY <1>1, <1>4 DEF GiveUp
<1>5. CASE Accept(t)
  <2>1. snap'[t] \in Snapshots
    BY <1>5, AcceptTask
  <2> QED
    BY <1>1, <1>5, <2>1 DEF Accept
<1>6. CASE Call(t) \/ ReadConfig(t) \/ WriteIngress(t)
  <2>1. \/ \E u : Answered(t, u)
        \/ \E M : Failed(t, M) /\ TRUE
        \/ UNCHANGED <<intent, reviewed, agreed, snap, at, created, done, left, start, unsure>>
    BY <1>6 DEF Call, ReadConfig, WriteIngress
  <2>2. created' = [created EXCEPT ![t] = created'[t]] /\ created'[t] \in Tunnels \cup {None}
    <3>1. CASE Call(t)
      <4>1. \/ \E f \in FreshTunnels \cup {None} :
                 created' = [created EXCEPT ![t] = IF f = None THEN @ ELSE f]
            \/ UNCHANGED created
        BY <3>1 DEF Call, Failed
      <4> QED
        BY <4>1 DEF FreshTunnels
    <3>2. CASE ReadConfig(t) \/ WriteIngress(t)
      <4>1. UNCHANGED created
        BY <3>2 DEF ReadConfig, WriteIngress, Failed
      <4> QED
        BY <4>1
    <3> QED
      BY <1>6, <3>1, <3>2
  <2>3. touched' \in [Tasks -> BOOLEAN]
    <3>1. UNCHANGED touched \/ WrittenBy(t)
      BY <1>6 DEF Call, ReadConfig, WriteIngress
    <3> QED
      BY <3>1 DEF WrittenBy
  <2>4. created' \in [Tasks -> Tunnels \cup {None}]
    BY <2>2
  <2>5. CASE \E u : Answered(t, u)
    <3>1. /\ UNCHANGED <<intent, reviewed, agreed, snap, left, start, unsure>>
          /\ at' = [at EXCEPT ![t] = @ + 1]
          /\ \E D : done' = [done EXCEPT ![t] = D]
      BY <2>5 DEF Answered
    <3>2. done' = [u \in Tasks |-> done'[u]] /\ at' \in [Tasks -> Nat]
      BY <3>1
    <3> QED
      BY <1>1, <2>3, <2>4, <3>1, <3>2
  <2>6. CASE \E M : Failed(t, M) /\ TRUE
    BY <1>1, <2>3, <2>4, <2>6 DEF Failed
  <2> QED
    BY <1>1, <2>1, <2>3, <2>4, <2>5, <2>6
<1>7. CASE Finish(t)
  BY <1>1, <1>7 DEF Finish, WrittenBy
<1>8. CASE UndoLast(t)
  <2>1. touched' \in [Tasks -> BOOLEAN]
    <3>1. UNCHANGED touched \/ WrittenBy(t)
      BY <1>8 DEF UndoLast
    <3> QED
      BY <3>1 DEF WrittenBy
  <2>2. /\ UNCHANGED <<intent, reviewed, agreed, snap, at, created, start, unsure>>
        /\ \E M : left' = [left EXCEPT ![t] = @ \cup M]
        /\ \E D : done' = [done EXCEPT ![t] = D]
    BY <1>8 DEF UndoLast, Undone
  <2>3. left' = [u \in Tasks |-> left'[u]] /\ done' = [u \in Tasks |-> done'[u]]
    BY <2>2
  <2>4. account' \in Accounts /\ intent' = [u \in Tasks |-> intent'[u]]
    BY <2>2
  <2> QED
    BY <1>1, <2>1, <2>2, <2>3, <2>4
<1>9. CASE RolledBack(t)
  BY <1>1, <1>9 DEF RolledBack
<1> QED
  BY <1>2, <1>3, <1>4, <1>5, <1>6, <1>7, <1>8, <1>9 DEF Apply

\* What another task or process does leaves a task as it was, on an account that has had
\* no fewer tunnels.
LEMMA TaskElsewhere ==
  ASSUME NEW u \in Tasks, TaskOK(u), SameTask(u), account.used \subseteq account'.used
  PROVE  TaskOK(u)'
<1>1. /\ Mine(u)' = Mine(u) /\ Steps(u)' = Steps(u) /\ Current(u)' = Current(u)
  BY DEF SameTask, Mine, Steps, PlanOf, Current, Resolve
<1>2. Under(u) => Under(u)'
  BY UnderStays DEF SameTask, SameGoal, Under
<1> QED
  BY <1>1, <1>2 DEF TaskOK, SameTask

\* What someone may do to the record of a hostname: put one there that goes elsewhere, with
\* the number and the owner it had or with a new number, or delete it.
EditOf(h) ==
  \/ \E r \in Records :
       /\ r.to \in {Elsewhere, Address} /\ account' = PutRecord(account, h, r)
       /\ \/ r.id = NextId(account)
          \/ r.id = account.dns[h].id /\ r.owned = account.dns[h].owned
  \/ account' = DropRecord(account, h, account.dns[h].id)

\* EditRecord is such an edit.
LEMMA EditIs ==
  ASSUME account \in Accounts, EditRecord
  PROVE  \E h \in Hosts : account.dns[h] # None /\ EditOf(h)
<1>1. PICK h \in Hosts :
        /\ account.dns[h] # None
        /\ \/ account' = PutRecord(account, h, [account.dns[h] EXCEPT !.to = Elsewhere])
           \/ account' = DropRecord(account, h, account.dns[h].id)
           \/ \E to \in {Elsewhere, Address}, noted \in BOOLEAN :
                account' = PutRecord(account, h, [id |-> NextId(account), to |-> to,
                                                  owned |-> FALSE, noted |-> noted])
  BY DEF EditRecord
<1>2. account.dns[h] \in Records /\ NextId(account) \in Nat
  BY <1>1, AccountTypes DEF NextId
<1>3. CASE account' = PutRecord(account, h, [account.dns[h] EXCEPT !.to = Elsewhere])
  <2> DEFINE r == [account.dns[h] EXCEPT !.to = Elsewhere]
  <2>1. /\ r \in Records /\ r.to = Elsewhere /\ r.id = account.dns[h].id
        /\ r.owned = account.dns[h].owned
    BY <1>2 DEF Records, Targets
  <2>2. account' = PutRecord(account, h, r)
    BY <1>3
  <2> HIDE DEF r
  <2> QED
    BY <1>1, <2>1, <2>2 DEF EditOf
<1>4. ASSUME NEW to \in {Elsewhere, Address}, NEW noted \in BOOLEAN,
             account' = PutRecord(account, h, [id |-> NextId(account), to |-> to,
                                               owned |-> FALSE, noted |-> noted])
      PROVE  EditOf(h)
  <2> DEFINE r == [id |-> NextId(account), to |-> to, owned |-> FALSE, noted |-> noted]
  <2>1. r \in Records /\ r.to \in {Elsewhere, Address} /\ r.id = NextId(account)
    BY <1>2 DEF Records, Targets
  <2>2. account' = PutRecord(account, h, r)
    BY <1>4
  <2> HIDE DEF r
  <2> QED
    BY <2>1, <2>2 DEF EditOf
<1> QED
  BY <1>1, <1>3, <1>4 DEF EditOf

\* An edit leaves an account.
LEMMA EditAccount ==
  ASSUME account \in Accounts, EditRule \/ EditRecord
  PROVE  account' \in Accounts /\ account'.used = account.used
<1>1. CASE EditRule
  <2>1. PICK y \in Tunnels, k \in Keys, o \in SUBSET Origins :
           /\ account.tunnels[y] # None
           /\ account' = WriteConfig(account, y, [RulesOf(account, y) EXCEPT ![k] = o])
    BY <1>1 DEF EditRule
  <2>2. RulesOf(account, y) \in Rules
    BY <2>1, AccountTypes DEF RulesOf, NoRules, Rules, Configs
  <2>3. [RulesOf(account, y) EXCEPT ![k] = o] \in Rules
    BY <2>2 DEF Rules
  <2> QED
    BY <2>1, <2>3, WriteConfigIs
<1>2. CASE EditRecord
  <2>1. PICK h \in Hosts : account.dns[h] # None /\ EditOf(h)
    BY <1>2, EditIs
  <2>2. ASSUME NEW r \in Records, r.to \in {Elsewhere, Address}, account' = PutRecord(account, h, r)
        PROVE  account' \in Accounts /\ account'.used = account.used
    BY <2>2, PutRecordIs
  <2>3. CASE account' = DropRecord(account, h, account.dns[h].id)
    <3> DEFINE n == account.dns[h].id
    <3>1. account' = DropRecord(account, h, n)
      BY <2>3
    <3> HIDE DEF n
    <3>2. DropRecord(account, h, n) \in Accounts /\ DropRecord(account, h, n).used = account.used
      BY DropRecordIs
    <3> QED
      BY <3>1, <3>2
  <2> QED
    BY <2>1, <2>2, <2>3 DEF EditOf
<1> QED
  BY <1>1, <1>2

\* A task that dies keeps what it had; the others stay as they were.
LEMMA DropIs ==
  ASSUME Typed, NEW S \in SUBSET Tasks, Drop(S), NEW u \in Tasks
  PROVE  /\ account' = account /\ touched' = touched
         /\ \/ SameTask(u)
            \/ pc[u] \in Applying /\ pc'[u] = "dead" /\ intent'[u] = intent[u]
               /\ reviewed'[u] = reviewed[u] /\ start'[u] = start[u] /\ left'[u] = left[u]
               /\ unsure'[u] = unsure[u]
  BY DEF Drop, SameTask, taskVars, Typed, Phased

\* Every step keeps the types and each task at its place.
LEMMA TypeStep == TypeInv /\ [Next]_vars => TypeInv'
<1> SUFFICES ASSUME TypeInv, [Next]_vars PROVE TypeInv'
  OBVIOUS
<1>0. Typed /\ account \in Accounts /\ \A u \in Tasks : TaskOK(u)
  BY DEF TypeInv, Typed
<1>1. ASSUME NEW t \in Tasks, Review(t) \/ Apply(t) PROVE TypeInv'
  <2>1. account' \in Accounts /\ account.used \subseteq account'.used /\ TaskOK(t)'
    BY <1>1, TaskStep
  <2>2. Typed'
    BY <1>1, <2>1, TypedStays
  <2>3. ASSUME NEW u \in Tasks, u # t PROVE TaskOK(u)'
    BY <1>0, <1>1, <2>1, <2>3, Others, TaskElsewhere
  <2> QED
    BY <2>1, <2>2, <2>3 DEF TypeInv
<1>2. ASSUME NEW S \in SUBSET Tasks, Drop(S) PROVE TypeInv'
  <2>1. Typed'
    BY <1>0, <1>2 DEF Drop, Typed, taskVars, Phased, Phases
  <2>2. ASSUME NEW u \in Tasks PROVE TaskOK(u)'
    <3>1. account' = account
      BY <1>2 DEF Drop
    <3>2. CASE SameTask(u)
      BY <1>0, <3>1, <3>2, TaskElsewhere
    <3>3. CASE ~SameTask(u)
      BY <1>0, <1>2, <3>1, <3>3, DropIs DEF TaskOK, Applying, HoldsLock, Running, Bare, Begun
    <3> QED
      BY <3>2, <3>3
  <2> QED
    BY <2>1, <2>2 DEF TypeInv
<1>3. CASE EditRule \/ EditRecord
  <2>1. account' \in Accounts /\ account'.used = account.used
    BY <1>0, <1>3, EditAccount
  <2>2. Typed'
    BY <1>0, <1>3, <2>1 DEF EditRule, EditRecord, OutsideEdit, Typed, taskVars, Phased
  <2>3. ASSUME NEW u \in Tasks PROVE TaskOK(u)'
    <3>1. SameTask(u)
      BY <1>3 DEF EditRule, EditRecord, OutsideEdit, SameTask, taskVars
    <3> QED
      BY <1>0, <2>1, <3>1, TaskElsewhere
  <2> QED
    BY <2>2, <2>3 DEF TypeInv
<1>4. CASE UNCHANGED vars
  <2>1. Typed'
    BY <1>0, <1>4 DEF vars, Typed, taskVars, Phased
  <2>2. ASSUME NEW u \in Tasks PROVE TaskOK(u)'
    <3>1. SameTask(u) /\ account' = account
      BY <1>4 DEF vars, SameTask, taskVars
    <3> QED
      BY <1>0, <3>1, TaskElsewhere
  <2> QED
    BY <2>1, <2>2 DEF TypeInv
<1> QED
  BY <1>1, <1>2, <1>3, <1>4 DEF Next, Crash, Abandon

\* They hold at the start.
LEMMA TypeInit == Init => TypeInv
<1> SUFFICES ASSUME Init PROVE TypeInv
  OBVIOUS
<1>1. account \in Accounts
  BY EngineAssumption DEF Init
<1>2. NoSnap \in Snapshots
  BY DEF NoSnap, Snapshots
<1>3. Phased
  BY LockInit DEF LockInv
<1>4. Typed
  BY <1>1, <1>2, <1>3 DEF Init, Typed
<1>5. ASSUME NEW u \in Tasks PROVE TaskOK(u)
  BY <1>1, <1>5 DEF Init, TaskOK, Bare, Begun, Running
<1> QED
  BY <1>4, <1>5 DEF TypeInv

\* Whatever is called, fails, is lost or edited, the account and every task are of the
\* kinds the engine knows.
THEOREM TypeCorrect == Spec => []TypeOK
<1>1. TypeInv => TypeOK
  BY DEF TypeInv, Typed, TaskOK, TypeOK, Phased
<1> QED
  BY <1>1, TypeInit, TypeStep, PTL DEF Spec

-----------------------------------------------------------------------------
(* Every task that nobody disturbed keeps to its plan                      *)

\* What is known of an undisturbed task in the middle of its plan.
LEMMA WorkingIs ==
  ASSUME Typed, NEW t \in Tasks, Under(t), start[t].used \subseteq account.used, Working(t),
         Mine(t) # None
  PROVE  /\ start[t] \in Accounts /\ account \in Accounts /\ Mine(t) \in account.used
         /\ Mine(t) \in Tunnels /\ Its(start[t], Mine(t)) /\ Ours(start[t], Mine(t))
         /\ Shaped(QOf(t), start[t], Mine(t)) /\ DOMAIN QOf(t) = DOMAIN Steps(t)
         /\ DOMAIN QOf(t) \subseteq Nat /\ at[t] \in Nat \ {0}
         /\ Horizon(t) \in Nat /\ Horizon(t) < at[t]
         /\ Midway(QOf(t), start[t], account, Mine(t), Horizon(t), at[t], Loose(t))
         /\ Logged(QOf(t), done[t], account, Mine(t), Horizon(t))
<1>1. /\ start[t] \in Accounts /\ account \in Accounts /\ Mine(t) \in account.used
      /\ Mine(t) \in Tunnels /\ Its(start[t], Mine(t))
      /\ Shaped(QOf(t), start[t], Mine(t)) /\ DOMAIN QOf(t) = DOMAIN Steps(t)
      /\ DOMAIN Steps(t) = 1..Len(Steps(t)) /\ Len(Steps(t)) \in Nat /\ at[t] \in Nat \ {0}
  BY PlanFacts DEF Typed
<1>2. Ours(start[t], Mine(t))
  BY <1>1, ItsOurs
<1> QED
  BY <1>1, <1>2 DEF Working

\* A step that was answered is done, with the undo it was given.
LEMMA WorkAdvances ==
  ASSUME Typed, NEW t \in Tasks, Under(t), start[t].used \subseteq account.used, SameGoal(t),
         Working(t), pc[t] \in {"step", "put"}, at[t] \in DOMAIN Steps(t), left[t] = {},
         unsure[t] = {}, Advances(t)
  PROVE  Working(t)'
<1> DEFINE Q == QOf(t)
           a == start[t]
           c == account
           d == account'
           x == Mine(t)
           n == at[t]
           s == Current(t)
           D == done[t]
           u == UndoOf(d, s, None)
<1>1. /\ x # None /\ Mine(t)' = x /\ QOf(t)' = Q
  BY UnderAdvances
<1>2. /\ a \in Accounts /\ c \in Accounts /\ x \in c.used /\ x \in Tunnels /\ Shaped(Q, a, x)
      /\ n \in DOMAIN Q /\ DOMAIN Q \subseteq Nat /\ n \in Nat \ {0} /\ Horizon(t) = n - 1
      /\ Midway(Q, a, c, x, n - 1, n, {}) /\ Logged(Q, D, c, x, n - 1)
  <2>1. Horizon(t) = n - 1 /\ Loose(t) = {}
    BY DEF Horizon, Loose
  <2> QED
    BY <1>1, <2>1, WorkingIs
<1>3. /\ s = Q[n] /\ s.op # "CreateTunnel" /\ TypedStep(s, c.used) /\ About(s, x) = ItemOf(s)
      /\ Accepts(c, s) /\ d = Perform(c, s, None)
  BY <1>1, CurrentTyped DEF Advances
<1>4. /\ at'[t] = n + 1 /\ pc'[t] = "step" /\ left'[t] = {} /\ unsure'[t] = {}
      /\ done'[t] = (IF u = <<>> THEN D ELSE Append(D, Entry(n, u[1]))) /\ start'[t] = a
  <2>1. Keeps(t, u)
    BY DEF Advances
  <2> HIDE DEF u
  <2> QED
    BY <2>1 DEF Keeps, SameGoal
<1>5. c.used = c.used /\ a.used \subseteq c.used
  OBVIOUS
<1> HIDE DEF Q, a, c, d, x, n, s, D, u
<1>6. SameBut(c, d, About(Q[n], x)) /\ d \in Accounts
  BY <1>2, <1>3, PerformIs DEF PerformsWell
<1>7. Midway(Q, a, d, x, n, n + 1, {}) /\ Done(s, d, x)
  BY <1>2, <1>3, <1>5, MidStep
<1>8. Logged(Q, done'[t], d, x, n)
  <2>1. CASE HasUndo(s)
    <3>1. u # <<>> /\ Fits(s, u[1], d, x)
      BY <1>7, <2>1 DEF Done, u
    <3>2. Logged(Q, Append(D, Entry(n, u[1])), d, x, n)
      BY <1>2, <1>3, <1>6, <3>1, LogStep
    <3> QED
      BY <1>4, <3>1, <3>2
  <2>2. CASE ~HasUndo(s)
    <3>1. u = <<>>
      BY <1>7, <2>2 DEF Done, u
    <3>2. Logged(Q, D, d, x, n)
      BY <1>2, <1>3, <1>6, <2>2, LogPassed
    <3> QED
      BY <1>4, <3>1, <3>2
  <2> QED
    BY <2>1, <2>2
<1>9. Horizon(t)' = n /\ Loose(t)' = {} /\ n < n + 1 /\ n \in Nat
  BY <1>2, <1>4 DEF Horizon, Loose
<1>10. /\ Midway(QOf(t)', start'[t], account', Mine(t)', n, at'[t], {})
       /\ Logged(QOf(t)', done'[t], account', Mine(t)', n)
  BY <1>1, <1>4, <1>7, <1>8 DEF d
<1> QED
  BY <1>1, <1>4, <1>9, <1>10 DEF Working

\* So is the creation of a tunnel.
LEMMA WorkCreates ==
  ASSUME Typed, NEW t \in Tasks, Under(t), start[t].used \subseteq account.used, SameGoal(t),
         Working(t), at[t] \in DOMAIN Steps(t), left[t] = {}, unsure[t] = {}, Creates(t)
  PROVE  Working(t)'
<1> DEFINE a == start[t]
           d == account'
           x == Mine(t)'
           Q == QOf(t)'
           P == Plan(intent[t], Observe(intent[t], a)).steps
           e == Entry(1, DeleteTunnel(x))
           D == <<e>>
<1>1. /\ Mine(t) = None /\ MyTunnel(a) = None /\ x \in Tunnels \ account.used
      /\ d = AddTunnel(account, x) /\ at'[t] = 2 /\ done'[t] = Append(<<>>, e)
  BY UnderCreates
<1>2. account = a /\ a \in Accounts /\ Reviewed(intent[t], a) /\ x # None
  BY <1>1, AccountAssumption DEF Working, Typed, Under
<1>3. Q = Resolution(P, x)
  BY DEF QOf, PlanFrom, SameGoal
<1>4. pc'[t] = "step" /\ left'[t] = {} /\ unsure'[t] = {} /\ start'[t] = a
  BY DEF Creates, Keeps, SameGoal
<1>5. done'[t] = D
  BY <1>1
<1>6. PlanAt(a, x, P, Q)
  <2> HIDE DEF x, Q
  <2>1. \A p : p = P => PlanAt(a, x, p, Q)
    BY <1>1, <1>2, <1>3, PlanNamed
  <2> QED
    BY <2>1
<1> HIDE DEF a, d, x, Q, P
<1>7. Shaped(Q, a, x) /\ 1 \in DOMAIN Q /\ Q[1].op = "CreateTunnel" /\ DOMAIN Q \subseteq Nat \ {0}
  BY <1>1, <1>6 DEF PlanAt, CreateTunnel, Step
<1>8. Midway(Q, a, AddTunnel(a, x), x, 1, 2, {})
  BY <1>1, <1>2, <1>7, MidCreate
<1>9. Logged(Q, D, d, x, 1)
  <2>1. e.step = 1 /\ e.undo = DeleteTunnel(x)
    BY DEF Entry
  <2>2. Fits(Q[1], e.undo, d, x)
    BY <1>7, <2>1 DEF Fits
  <2> HIDE DEF e
  <2>3. IsList(D) /\ DOMAIN D = {1} /\ D[1] = e
    <3>1. D \in Seq(Range(D))
      BY DEF Range
    <3> QED
      BY <3>1 DEF IsList
  <2>4. \A l \in DOMAIN Q : l <= 1 => l = 1
    BY <1>7
  <2> HIDE DEF D
  <2> QED
    BY <2>1, <2>2, <2>3, <2>4, <1>7 DEF Logged
<1>10. Horizon(t)' = 1 /\ Loose(t)' = {}
  BY <1>1, <1>4 DEF Horizon, Loose
<1> QED
  BY <1>1, <1>2, <1>4, <1>5, <1>8, <1>9, <1>10 DEF Working, d, x, Q

\* A call that fails may leave the thing it is about as it was or as it was to be.
LEMMA WorkFails ==
  ASSUME Typed, NEW t \in Tasks, Under(t), start[t].used \subseteq account.used, SameGoal(t),
         Working(t), pc[t] \in {"step", "put"}, at[t] \in DOMAIN Steps(t), left[t] = {},
         unsure[t] = {}, Fails(t)
  PROVE  Working(t)'
<1> DEFINE Q == QOf(t)
           a == start[t]
           c == account
           d == account'
           x == Mine(t)
           n == at[t]
           s == Current(t)
           D == done[t]
<1>1. Mine(t)' = x /\ QOf(t)' = Q /\ d \in Accounts
  BY UnderFails
<1>2. PICK M : unsure'[t] = unsure[t] \cup M /\ Unheard(s, M)
  BY DEF Fails
<1>3. pc'[t] = "undo" /\ at'[t] = n /\ done'[t] = D /\ left'[t] = {} /\ start'[t] = a
  BY DEF Fails, SameGoal
<1>4. CASE x = None
  <2>1. s.op = "CreateTunnel"
    BY <1>4, PlanFacts
  <2>2. d = c
    BY <1>2, <2>1 DEF Unheard
  <2> QED
    BY <1>1, <1>3, <1>4, <2>2 DEF Working
<1>5. CASE x # None
  <2>1. /\ a \in Accounts /\ c \in Accounts /\ x \in c.used /\ x \in Tunnels /\ Shaped(Q, a, x)
        /\ n \in DOMAIN Q /\ DOMAIN Q \subseteq Nat /\ n \in Nat \ {0} /\ Horizon(t) = n - 1
        /\ Midway(Q, a, c, x, n - 1, n, {}) /\ Logged(Q, D, c, x, n - 1)
    <3>1. Horizon(t) = n - 1 /\ Loose(t) = {}
      BY DEF Horizon, Loose
    <3> QED
      BY <1>5, <3>1, WorkingIs
  <2>2. /\ s = Q[n] /\ s.op # "CreateTunnel" /\ TypedStep(s, c.used) /\ About(s, x) = ItemOf(s)
    BY <1>5, CurrentTyped
  <2>3. Loose(t)' = M
    BY <1>2, <1>3 DEF Loose
  <2>4. \/ d = c
        \/ Accepts(c, s) /\ d = PerformUnheard(c, s) /\ M = {ItemOf(s)}
    BY <1>2 DEF Unheard
  <2> HIDE DEF Q, a, c, d, x, n, s, D
  <2>5. Touches(c, d, About(Q[n], x)) /\ (d = c \/ About(Q[n], x) \in M)
    <3>1. CASE d = c
      BY <3>1 DEF Touches
    <3>2. CASE Accepts(c, s) /\ d = PerformUnheard(c, s) /\ M = {ItemOf(s)}
      <4>1. SameBut(c, d, ItemOf(s))
        BY <2>1, <2>2, <3>2, PerformUnheardIs DEF PerformsWell
      <4> QED
        BY <2>2, <3>2, <4>1 DEF Touches
    <3> QED
      BY <2>4, <3>1, <3>2
  <2>6. Midway(Q, a, d, x, n - 1, n, M)
    BY <1>1, <2>1, <2>5, MidFailed
  <2>7. Logged(Q, D, d, x, n - 1)
    BY <1>1, <2>1, <2>5, LogFailed
  <2>8. n - 1 \in Nat
    BY <2>1
  <2>9. /\ Top(D) \in Nat /\ Top(D) <= n - 1
        /\ \A l \in DOMAIN Q : Top(D) < l /\ l <= n - 1 => ~HasUndo(Q[l])
        /\ Logged(Q, D, d, x, Top(D))
    BY <2>1, <2>7, <2>8, LogTop
  <2>10. Midway(Q, a, d, x, Top(D), n, M)
    BY <2>1, <2>6, <2>8, <2>9, MidLower
  <2>11. Horizon(t)' = Top(D) /\ Top(D) < n
    BY <1>3, <2>1, <2>9 DEF Horizon
  <2> QED
    BY <1>1, <1>3, <1>5, <2>3, <2>9, <2>10, <2>11 DEF Working, d
<1> QED
  BY <1>4, <1>5

\* An undo sets its thing back, or leaves it over.
LEMMA WorkUndoes ==
  ASSUME Typed, NEW t \in Tasks, Under(t), start[t].used \subseteq account.used, SameGoal(t),
         Working(t), at[t] \in DOMAIN Steps(t), Undoes(t)
  PROVE  Working(t)'
<1> DEFINE Q == QOf(t)
           a == start[t]
           c == account
           d == account'
           x == Mine(t)
           n == at[t]
           D == done[t]
           m == Top(D)
           u == LastUndo(t)
           E == SubSeq(D, 1, Len(D) - 1)
           L == Loose(t)
<1>1. /\ x # None /\ Mine(t)' = x /\ QOf(t)' = Q /\ d \in Accounts
      /\ TypedStep(u, c.used) /\ u.op # "CreateTunnel" /\ (d = c \/ PerformsWell(c, u, d))
  BY UnderUndoes
<1>2. D # <<>> /\ pc[t] = "undo" /\ pc'[t] = "undo" /\ at'[t] = n /\ done'[t] = E /\ start'[t] = a
  BY DEF Undoes, SameGoal
<1>3. PICK M : /\ Loose(t)' = L \cup M
               /\ \/ Accepts(c, u) /\ d = Perform(c, u, None)
                  \/ M = {ItemOf(u)}
  <2>1. PICK M : /\ left'[t] = left[t] \cup M /\ unsure'[t] = unsure[t]
                 /\ \/ Accepts(c, u) /\ d = Perform(c, u, None)
                    \/ M = {ItemOf(u)}
    BY DEF Undoes
  <2> QED
    BY <2>1 DEF Loose
<1>4. /\ a \in Accounts /\ c \in Accounts /\ x \in c.used /\ x \in Tunnels /\ Shaped(Q, a, x)
      /\ n \in DOMAIN Q /\ DOMAIN Q \subseteq Nat /\ n \in Nat \ {0} /\ Ours(a, x)
      /\ m \in Nat /\ m < n /\ Midway(Q, a, c, x, m, n, L) /\ Logged(Q, D, c, x, m)
  <2>1. Horizon(t) = m
    BY <1>2 DEF Horizon
  <2> HIDE DEF m
  <2> QED
    BY <1>1, <2>1, WorkingIs
<1>u. u = D[Len(D)].undo
  BY DEF LastUndo
<1> HIDE DEF Q, a, c, d, x, n, D, m, u, E, L
<1>5. m \in DOMAIN Q /\ Fits(Q[m], u, c, x)
  <2>1. Top(D) \in Nat /\ Logged(Q, D, c, x, Top(D))
    BY <1>4 DEF m
  <2>2. Top(D) \in DOMAIN Q /\ Fits(Q[Top(D)], D[Len(D)].undo, c, x)
    BY <1>2, <1>4, <2>1, LogTop
  <2> QED
    BY <2>2, <1>u DEF m
<1>6. Grounded(Q[m], a, x) /\ InPlace(Q[m], c, x)
  BY <1>4, <1>5 DEF Shaped, Midway
<1>7. ItemOf(u) = About(Q[m], x)
  BY <1>4, <1>5, <1>6, FitsAbout
<1>8. Touches(c, d, About(Q[m], x))
  BY <1>1, <1>7 DEF Touches, PerformsWell
<1>9. About(Q[m], x) \in L \cup M \/ AsBefore(Q[m], a, d, x)
  <2>1. CASE Accepts(c, u) /\ d = Perform(c, u, None)
    BY <2>1, <1>4, <1>5, <1>6, StepUndone
  <2>2. CASE M = {ItemOf(u)}
    BY <2>2, <1>7
  <2> QED
    BY <1>3, <2>1, <2>2
<1>10. /\ Logged(Q, E, d, x, Top(E)) /\ Top(E) \in Nat /\ Top(E) < m
       /\ \A l \in DOMAIN Q : Top(E) < l /\ l < m => ~HasUndo(Q[l])
  BY <1>1, <1>2, <1>4, <1>5, <1>8, LogBack DEF m, E
<1>11. Midway(Q, a, d, x, Top(E), n, L \cup M)
  BY <1>1, <1>4, <1>5, <1>8, <1>9, <1>10, MidBack
<1>12. Horizon(t)' = Top(E) /\ Top(E) < n
  BY <1>2, <1>4, <1>10 DEF Horizon
<1> QED
  BY <1>1, <1>2, <1>3, <1>10, <1>11, <1>12 DEF Working, d, L

\* The first step of a plan starts from what was observed.
LEMMA WorkBegins ==
  ASSUME TypeInv, NEW t \in Tasks, Accept(t)
  PROVE  Working(t)' /\ pc'[t] = "step"
<1> DEFINE a == account
           i == intent[t]
           x == MyTunnel(a)
           Q == QOf(t)'
           P == Plan(i, Observe(i, a)).steps
<1>1. /\ account' = a /\ start'[t] = a /\ Mine(t)' = x /\ at'[t] = 1 /\ done'[t] = <<>>
      /\ pc'[t] = "step" /\ left'[t] = {} /\ unsure'[t] = {} /\ intent'[t] = i
      /\ Reviewed(i, a)
  BY AcceptTask
<1>2. a \in Accounts
  BY DEF TypeInv, Typed
<1>3. Q = Resolution(P, x)
  BY <1>1 DEF QOf, PlanFrom
<1>4. Horizon(t)' = 0 /\ Loose(t)' = {}
  BY <1>1 DEF Horizon, Loose
<1>5. PlanAt(a, x, P, Q)
  <2> HIDE DEF x, Q
  <2>1. \A p : p = P => PlanAt(a, x, p, Q)
    BY <1>1, <1>2, <1>3, PlanNamed DEF x
  <2> QED
    BY <2>1
<1> HIDE DEF a, i, Q, P
<1>6. CASE x = None
  BY <1>1, <1>6 DEF Working
<1>7. CASE x # None
  <2>1. Shaped(Q, a, x)
    BY <1>5 DEF PlanAt
  <2>2. Midway(Q, a, a, x, 0, 1, {})
    BY <1>2, <1>7, <2>1, MidBegin
  <2>3. Logged(Q, <<>>, a, x, 0)
    BY <2>1, LogBegin
  <2> HIDE DEF x
  <2> QED
    BY <1>1, <1>4, <1>7, <2>2, <2>3 DEF Working, Q
<1> QED
  BY <1>6, <1>7

\* A task that dies leaves its plan where it was.
LEMMA WorkDies ==
  ASSUME TypeInv, NEW t \in Tasks, pc[t] \in Running, Working(t)
  PROVE  Along(intent[t], start[t], account, Loose(t))
<1>1. Typed /\ TaskOK(t)
  BY DEF TypeInv
<1>2. Under(t) /\ start[t].used \subseteq account.used
  BY <1>1 DEF TaskOK, Begun
<1>3. CASE Mine(t) = None
  BY <1>3 DEF Working, Along
<1>4. CASE Mine(t) # None
  <2> DEFINE m == Horizon(t)
             n == at[t]
  <2>1. /\ Mine(t) \in Tunnels /\ Its(start[t], Mine(t)) /\ n \in Nat /\ m \in Nat /\ m < n
        /\ Midway(QOf(t), start[t], account, Mine(t), m, n, Loose(t))
        /\ DOMAIN QOf(t) = DOMAIN Steps(t)
    BY <1>1, <1>2, <1>4, WorkingIs
  <2>2. n \in DOMAIN QOf(t) \/ m = n - 1
    BY <1>1, <2>1 DEF TaskOK, Running, Horizon
  <2>3. Reviewed(intent[t], start[t])
    BY <1>2 DEF Under
  <2> HIDE DEF m, n
  <2>4. Halfway(intent[t], start[t], account, Mine(t), m, n, Loose(t))
    BY <2>1, <2>2, <2>3 DEF Halfway, QOf
  <2> QED
    BY <2>1, <2>4 DEF Along
<1> QED
  BY <1>3, <1>4

\* A call keeps a task to its plan.
LEMMA CallRun ==
  ASSUME TypeInv, NEW t \in Tasks, RunOK(t), Call(t) \/ ReadConfig(t) \/ WriteIngress(t)
  PROVE  RunOK(t)'
<1>1. Typed /\ TaskOK(t)
  BY DEF TypeInv
<1>2. /\ SameGoal(t) /\ pc[t] \in {"step", "put"}
      /\ pc[t] = "step" => at[t] <= Len(Steps(t))
      /\ Advances(t) \/ Creates(t) \/ Fails(t) \/ Puts(t)
  <2>1. CASE Call(t)
    BY <2>1, <1>1, CallIs DEF StepNow
  <2>2. CASE ReadConfig(t)
    BY <2>2, <1>1, ReadIs DEF StepNow
  <2>3. CASE WriteIngress(t)
    <3>1. pc[t] = "put" /\ Current(t).op = "PutConfig"
      BY <2>3, <1>1 DEF WriteIngress, TaskOK
    <3> QED
      BY <3>1, <2>3, <1>1, WriteIs
  <2> QED
    BY <2>1, <2>2, <2>3
<1>3. /\ Under(t) /\ start[t].used \subseteq account.used /\ left[t] = {} /\ unsure[t] = {}
      /\ Working(t)
  BY <1>1, <1>2 DEF TaskOK, Begun, Running, RunOK
<1>4. /\ DOMAIN Steps(t) = 1..Len(Steps(t)) /\ Len(Steps(t)) \in Nat /\ at[t] \in Nat \ {0}
  BY <1>1, <1>3, PlanFacts
<1>5. at[t] \in DOMAIN Steps(t)
  <2>1. CASE pc[t] = "step"
    BY <2>1, <1>2, <1>4
  <2>2. CASE pc[t] = "put"
    BY <2>2, <1>1 DEF TaskOK
  <2> QED
    BY <1>2, <2>1, <2>2
<1>6. Working(t)'
  <2>1. CASE Advances(t)
    BY <2>1, <1>1, <1>2, <1>3, <1>5, WorkAdvances
  <2>2. CASE Creates(t)
    BY <2>2, <1>1, <1>2, <1>3, <1>5, WorkCreates
  <2>3. CASE Fails(t)
    BY <2>3, <1>1, <1>2, <1>3, <1>5, WorkFails
  <2>4. CASE Puts(t)
    <3>1. /\ pc'[t] = "put" /\ account' = account /\ at'[t] = at[t] /\ created'[t] = created[t]
          /\ done'[t] = done[t] /\ left'[t] = left[t] /\ unsure'[t] = unsure[t] /\ start'[t] = start[t]
      BY <2>4, <1>2 DEF Puts, SameGoal
    <3>2. /\ Mine(t)' = Mine(t) /\ QOf(t)' = QOf(t)
      BY <3>1, <1>2, <1>3, UnderStays
    <3>3. Horizon(t)' = Horizon(t) /\ Loose(t)' = Loose(t)
      BY <3>1, <1>2 DEF Horizon, Loose
    <3> QED
      BY <1>3, <3>1, <3>2, <3>3 DEF Working
  <2> QED
    BY <1>2, <2>1, <2>2, <2>3, <2>4
<1>7. pc'[t] \in Running
  BY <1>2 DEF Running, Advances, Creates, Keeps, Fails, Puts
<1> QED
  BY <1>6, <1>7 DEF RunOK, Running, Bare

\* At the end every step is done.
LEMMA FinishRun ==
  ASSUME TypeInv, NEW t \in Tasks, RunOK(t), Finish(t)
  PROVE  RunOK(t)'
<1>1. Typed /\ TaskOK(t) /\ account \in Accounts
  BY DEF TypeInv, Typed
<1>2. /\ Under(t) /\ SameGoal(t) /\ pc[t] = "step" /\ pc'[t] = "applied" /\ Mine(t) # None
      /\ at[t] = Len(Steps(t)) + 1 /\ left[t] = {} /\ unsure[t] = {}
      /\ at'[t] = at[t] /\ created'[t] = created[t] /\ done'[t] = done[t]
      /\ left'[t] = left[t] /\ unsure'[t] = unsure[t]
      /\ account' \in Accounts /\ account'.used = account.used
  BY FinishIs
<1>3. PICK R \in SUBSET Tunnels : account = [account' EXCEPT !.running = R]
  BY FinishIs
<1>4. /\ Steps(t)' = Steps(t) /\ Mine(t)' = Mine(t) /\ QOf(t)' = QOf(t)
  BY <1>2, UnderStays
<1>5. Working(t) /\ start[t].used \subseteq account.used /\ start'[t] = start[t]
  BY <1>1, <1>2 DEF RunOK, Running, TaskOK, SameGoal
<1>6. Midway(QOf(t), start[t], account, Mine(t), Len(Steps(t)), Len(Steps(t)) + 1, {})
  <2>1. Len(Steps(t)) \in Nat
    BY <1>1, <1>2, PlanFacts
  <2>2. Horizon(t) = Len(Steps(t)) /\ Loose(t) = {}
    BY <1>2, <2>1 DEF Horizon, Loose
  <2>3. Midway(QOf(t), start[t], account, Mine(t), Horizon(t), at[t], Loose(t))
    BY <1>1, <1>2, <1>5, WorkingIs
  <2> QED
    BY <1>2, <2>2, <2>3
<1> DEFINE c == [account' EXCEPT !.running = R]
<1>7. c = account
  BY <1>3
<1> HIDE DEF c
<1>8. /\ c \in Accounts /\ Mine(t)' # None
      /\ Midway(QOf(t)', start'[t], c, Mine(t)', Len(Steps(t)'), Len(Steps(t)') + 1, {})
  BY <1>1, <1>2, <1>4, <1>5, <1>6, <1>7
<1>9. Made(t)'
  BY <1>8 DEF Made, c
<1> QED
  BY <1>2, <1>9 DEF RunOK, Running, Bare

\* An undo keeps to the way back.
LEMMA UndoRun ==
  ASSUME TypeInv, NEW t \in Tasks, RunOK(t), UndoLast(t)
  PROVE  RunOK(t)'
<1>1. Typed /\ TaskOK(t)
  BY DEF TypeInv
<1>2. SameGoal(t) /\ Undoes(t) /\ pc[t] = "undo" /\ pc'[t] = "undo"
  BY <1>1, UndoLastIs DEF Undoes
<1>3. /\ Under(t) /\ at[t] \in DOMAIN Steps(t) /\ Working(t) /\ start[t].used \subseteq account.used
  BY <1>1, <1>2 DEF TaskOK, Begun, Running, RunOK
<1>4. Working(t)'
  BY <1>1, <1>2, <1>3, WorkUndoes
<1> QED
  BY <1>2, <1>4 DEF RunOK, Running, Bare

\* At the end of a rollback every step was taken back or is left over.
LEMMA RolledBackRun ==
  ASSUME TypeInv, NEW t \in Tasks, RunOK(t), RolledBack(t)
  PROVE  RunOK(t)'
<1>1. /\ account' = account /\ pc[t] = "undo" /\ SameGoal(t) /\ done[t] = <<>>
      /\ pc'[t] \in {"rolledBack", "partly"} /\ Mine(t)' = Mine(t) /\ QOf(t)' = QOf(t)
      /\ at'[t] = at[t] /\ left'[t] = left[t] /\ unsure'[t] = unsure[t]
  BY RolledBackTask
<1>2. Working(t) /\ Horizon(t) = 0 /\ Loose(t)' = Loose(t) /\ start'[t] = start[t]
  BY <1>1 DEF RunOK, Running, Horizon, Top, Loose, SameGoal
<1>3. TakenBack(t)'
  BY <1>1, <1>2 DEF Working, TakenBack
<1> QED
  BY <1>1, <1>3 DEF RunOK, Running, Bare

\* A step of a task that nobody disturbs keeps to its plan.
LEMMA RunTask ==
  ASSUME TypeInv, NEW t \in Tasks, Review(t) \/ Apply(t), ~touched'[t],
         ~touched[t] => RunOK(t)
  PROVE  RunOK(t)'
<1>0. Typed
  BY DEF TypeInv
<1>1. CASE Accept(t)
  <2>1. Working(t)' /\ pc'[t] = "step"
    BY <1>1, WorkBegins
  <2> QED
    BY <2>1 DEF RunOK, Running, Bare
<1>2. ASSUME ~Accept(t) PROVE RunOK(t)
  <2>1. touched'[t] = touched[t]
    <3>1. touched' = touched \/ WrittenBy(t)
      BY <1>2 DEF Apply, Review, TakeLock, GiveUp, Call, ReadConfig, WriteIngress, Finish, UndoLast,
                  RolledBack
    <3> QED
      BY <3>1, <1>0 DEF WrittenBy, Typed
  <2> QED
    BY <2>1
<1>3. CASE Review(t) \/ TakeLock(t) \/ GiveUp(t)
  <2>1. /\ pc[t] \in Bare /\ pc'[t] \in Bare /\ start'[t] = start[t] /\ account' = account
        /\ pc[t] # "observe" \/ GiveUp(t)
    BY <1>3, <1>0 DEF Review, TakeLock, GiveUp, Goto, Bare, Typed, Phased, taskVars
  <2>2. RunOK(t)
    <3>1. touched' = touched
      BY <1>3 DEF Review, TakeLock, GiveUp
    <3> QED
      BY <3>1
  <2> QED
    BY <2>1, <2>2 DEF RunOK, Running, Bare
<1>4. CASE Call(t) \/ ReadConfig(t) \/ WriteIngress(t)
  BY <1>2, <1>4, CallRun, <1>1
<1>5. CASE Finish(t)
  BY <1>1, <1>2, <1>5, FinishRun
<1>6. CASE UndoLast(t)
  BY <1>1, <1>2, <1>6, UndoRun
<1>7. CASE RolledBack(t)
  BY <1>1, <1>2, <1>7, RolledBackRun
<1> QED
  BY <1>1, <1>3, <1>4, <1>5, <1>6, <1>7 DEF Apply

\* On an account that nobody wrote to, a task that does not move stands where it stood.
LEMMA RunElsewhere ==
  ASSUME NEW u \in Tasks, RunOK(u), SameTask(u), account' = account
  PROVE  RunOK(u)'
<1>1. /\ Mine(u)' = Mine(u) /\ QOf(u)' = QOf(u) /\ Steps(u)' = Steps(u)
      /\ Horizon(u)' = Horizon(u) /\ Loose(u)' = Loose(u)
  BY DEF SameTask, Mine, QOf, Steps, PlanOf, Horizon, Loose
<1> QED
  BY <1>1 DEF RunOK, Working, TakenBack, Made, SameTask

SafeInv == TypeInv /\ RunInv

\* Every step keeps the tasks that nobody disturbed to their plans.
LEMMA RunStep == SafeInv /\ [Next]_vars => SafeInv'
<1> SUFFICES ASSUME SafeInv, [Next]_vars PROVE RunInv'
  BY TypeStep DEF SafeInv
<1>0. TypeInv /\ Typed /\ \A u \in Tasks : ~touched[u] => RunOK(u)
  BY DEF SafeInv, TypeInv, RunInv
<1>1. ASSUME NEW t \in Tasks, Review(t) \/ Apply(t), NEW u \in Tasks, ~touched'[u]
      PROVE  RunOK(u)'
  <2>1. CASE u = t
    BY <1>0, <1>1, <2>1, RunTask
  <2>2. CASE u # t
    BY <1>0, <1>1, <2>2, Others, RunElsewhere
  <2> QED
    BY <2>1, <2>2
<1>2. ASSUME NEW S \in SUBSET Tasks, Drop(S), NEW u \in Tasks, ~touched'[u]
      PROVE  RunOK(u)'
  <2>1. account' = account /\ touched' = touched /\ RunOK(u)
    BY <1>0, <1>2, DropIs
  <2>2. CASE SameTask(u)
    BY <2>1, <2>2, RunElsewhere
  <2>3. CASE ~SameTask(u)
    <3>1. /\ pc[u] \in Applying /\ pc'[u] = "dead" /\ intent'[u] = intent[u]
          /\ start'[u] = start[u] /\ Loose(u)' = Loose(u)
      BY <1>0, <1>2, <2>3, DropIs DEF Loose
    <3>2. Along(intent[u], start[u], account, Loose(u))
      <4>1. CASE pc[u] \in Running
        BY <1>0, <2>1, <4>1, WorkDies DEF RunOK
      <4>2. CASE pc[u] \in Bare
        BY <2>1, <4>2 DEF RunOK, Along
      <4> QED
        BY <3>1, <4>1, <4>2 DEF Applying, HoldsLock, Bare
    <3>3. Along(intent[u], start[u], account, Loose(u))'
      BY <2>1, <3>1, <3>2
    <3> QED
      BY <3>1, <3>3 DEF RunOK, Running, Bare
  <2> QED
    BY <2>2, <2>3
<1>3. CASE EditRule \/ EditRecord
  <2>1. \A u \in Tasks : touched'[u]
    BY <1>3 DEF EditRule, EditRecord, OutsideEdit
  <2> QED
    BY <2>1 DEF RunInv
<1>4. CASE UNCHANGED vars
  <2>1. ASSUME NEW u \in Tasks, ~touched'[u] PROVE RunOK(u)'
    <3>1. SameTask(u) /\ account' = account /\ touched' = touched
      BY <1>4 DEF vars, SameTask, taskVars
    <3> QED
      BY <1>0, <2>1, <3>1, RunElsewhere
  <2> QED
    BY <2>1 DEF RunInv
<1> QED
  BY <1>1, <1>2, <1>3, <1>4 DEF Next, Crash, Abandon, RunInv

\* At the start no task has left its account.
LEMMA SafeInit == Init => SafeInv
<1> SUFFICES ASSUME Init PROVE RunInv
  BY TypeInit DEF SafeInv
<1> QED
  BY DEF Init, RunInv, RunOK, Running, Bare

-----------------------------------------------------------------------------

\* Nothing differs in an account from itself.
LEMMA NoChange == ASSUME NEW a \in Accounts PROVE Changes(a, a) = {}
<1>1. ASSUME NEW h \in Hosts PROVE ~Marked(a.dns[h], a.dns[h])
  <2>1. a.dns[h] \in Records \cup {None}
    BY AccountTypes
  <2> DEFINE r == a.dns[h]
  <2>2. ASSUME r \in Records, ~r.owned PROVE Look(r) # [Look(r) EXCEPT !.owned = TRUE]
    <3>1. Look(r) = [r EXCEPT !.id = 0]
      BY <2>2, AccountAssumption DEF Look
    <3> QED
      BY <2>2, <3>1 DEF Records
  <2> HIDE DEF r
  <2> QED
    BY <2>1, <2>2 DEF Marked, r
<1> QED
  BY <1>1 DEF Changes

\* Exposed does not depend on which connectors run.
LEMMA ExposedAnyway ==
  ASSUME NEW i, NEW a, NEW c \in Accounts, NEW R, NEW d, d = [c EXCEPT !.running = R], NEW k
  PROVE  /\ Exposed(i, a, d, k) <=> Exposed(i, a, c, k)
         /\ \A j : Observe(j, d) = Observe(j, c)
         /\ \A j : LiveIn(d, j) <=> LiveIn(c, j)
<1>1. /\ d.tunnels = c.tunnels /\ d.machine = c.machine /\ d.dns = c.dns /\ d.login = c.login
  BY DEF Accounts
<1>2. MyTunnel(d) = MyTunnel(c) /\ \A x : RulesOf(d, x) = RulesOf(c, x)
  BY <1>1 DEF MyTunnel, RulesOf
<1>3. \A j : LiveIn(d, j) <=> LiveIn(c, j)
  BY <1>1, <1>2 DEF LiveIn
<1>4. ASSUME NEW j PROVE Observe(j, d) = Observe(j, c)
  <2>1. HostsOf(j, d) = HostsOf(j, c)
    BY <1>1, <1>2 DEF HostsOf
  <2>2. Domains(j, d) = Domains(j, c)
    <3>1. ASSUME NEW h \in Keys PROVE d.login[h] = c.login[h]
      BY <1>1
    <3>2. ASSUME NEW h
          PROVE (/\ j.kind # "AddRoute" /\ HostOf[h] \in HostsOf(j, d)
                 /\ d.login[h] # None /\ d.login[h].owned)
                <=> (/\ j.kind # "AddRoute" /\ HostOf[h] \in HostsOf(j, c)
                     /\ c.login[h] # None /\ c.login[h].owned)
      BY <1>1, <2>1, Zenon
    <3> QED
      BY <3>2, Zenon DEF Domains
  <2> DEFINE T(e) == e.tunnels[MyTunnel(c)]
  <2>3. /\ MyTunnel(d) = MyTunnel(c) /\ T(d) = T(c)
        /\ \A h \in Hosts : d.dns[h] = c.dns[h]
        /\ \A h \in Keys : d.login[h] = c.login[h]
    BY <1>1, <1>2
  <2> DEFINE V(e) == IF MyTunnel(e) = None THEN 0 ELSE e.tunnels[MyTunnel(e)].version
  <2> DEFINE U(e) == IF MyTunnel(e) = None THEN Unset ELSE e.tunnels[MyTunnel(e)].rules
  <2> DEFINE H(e) == [h \in Hosts |-> IF h \in HostsOf(j, e) THEN e.dns[h] ELSE None]
  <2> DEFINE L(e) == [h \in Keys |-> IF h \in Domains(j, e) THEN e.login[h] ELSE None]
  <2>4. V(d) = V(c) /\ U(d) = U(c)
    BY <1>1, <2>3
  <2>5. H(d) = H(c)
    BY <2>1, <2>3
  <2>6. L(d) = L(c)
    BY <2>2, <2>3
  <2>7. \A e : Observe(j, e) = [tunnel |-> MyTunnel(e), version |-> V(e), rules |-> U(e),
                               dns |-> H(e), login |-> L(e)]
    BY Zenon DEF Observe
  <2> HIDE DEF V, U, H, L, T
  <2> QED
    BY <2>3, <2>4, <2>5, <2>6, <2>7, Zenon
<1> QED
  BY <1>1, <1>3, <1>4 DEF Exposed

\* Nor does what a change promised.
LEMMA ReachedAnyway ==
  ASSUME NEW i, NEW a, NEW c \in Accounts, NEW R, NEW d, d = [c EXCEPT !.running = R]
  PROVE  Reached(i, a, d) <=> Reached(i, a, c)
<1>1. /\ Observe(i, d) = Observe(i, c) /\ \A j : LiveIn(d, j) <=> LiveIn(c, j)
  BY ExposedAnyway
<1>2. d.tunnels = c.tunnels /\ d.dns = c.dns /\ d.login = c.login
  BY DEF Accounts
<1>3. OthersStay(i, a, d) <=> OthersStay(i, a, c)
  BY <1>1, <1>2 DEF OthersStay
<1>4. RecordsSpared(i, a, d) <=> RecordsSpared(i, a, c)
  BY <1>2 DEF RecordsSpared
<1> QED
  BY <1>1, <1>2, <1>3, <1>4, ZenonT(150) DEF Reached

\* A change that was made is there to its last step, whichever connectors run.
LEMMA AppliedIs ==
  ASSUME SafeInv, NEW t \in Tasks, pc[t] = "applied", ~touched[t]
  PROVE  /\ start[t] \in Accounts /\ account \in Accounts
         /\ \E R \in SUBSET Tunnels :
              LET c == [account EXCEPT !.running = R]
              IN  /\ c \in Accounts
                  /\ Halfway(intent[t], start[t], c, Mine(t), Len(QOf(t)), Len(QOf(t)) + 1, {})
<1>1. /\ Typed /\ Under(t) /\ Made(t) /\ start[t] \in Accounts /\ account \in Accounts
      /\ Reviewed(intent[t], start[t])
  BY DEF SafeInv, TypeInv, RunInv, Typed, TaskOK, Begun, RunOK, Under
<1> DEFINE l == Len(Steps(t))
<1>2. PICK R \in SUBSET Tunnels :
        LET c == [account EXCEPT !.running = R]
        IN  /\ c \in Accounts /\ Mine(t) # None
            /\ Midway(QOf(t), start[t], c, Mine(t), l, l + 1, {})
  BY <1>1 DEF Made
<1> DEFINE c == [account EXCEPT !.running = R]
<1>3. /\ Its(start[t], Mine(t)) /\ l \in Nat /\ Len(QOf(t)) = l
  <2>1. /\ Its(start[t], Mine(t)) /\ DOMAIN QOf(t) = 1..l /\ l \in Nat
        /\ Shaped(QOf(t), start[t], Mine(t))
    BY <1>1, <1>2, PlanFacts
  <2>2. DOMAIN QOf(t) = 1..Len(QOf(t)) /\ Len(QOf(t)) \in Nat
    BY <2>1 DEF Shaped
  <2> QED
    BY <2>1, <2>2
<1>4. c \in Accounts /\ Midway(QOf(t), start[t], c, Mine(t), l, l + 1, {})
  BY <1>2
<1> HIDE DEF c, l
<1>5. Halfway(intent[t], start[t], c, Mine(t), l, l + 1, {})
  BY <1>1, <1>3, <1>4 DEF Halfway, QOf
<1> QED
  BY <1>1, <1>3, <1>4, <1>5 DEF c

\* An account is not open where it is as it was.
LEMMA ClosedBefore ==
  ASSUME NEW i, NEW a, NEW k PROVE ~Exposed(i, a, a, k)
  BY DEF Exposed, MeantGuarded

\* A failed change that keeps to its plan leaves nothing it does not list.
LEMMA ListedIsLeft == SafeInv => LeftoversAccount
<1> SUFFICES ASSUME SafeInv, NEW t \in Tasks, pc[t] \in {"rolledBack", "partly"}, ~touched[t]
             PROVE  Changes(start[t], account) \subseteq left[t] \cup unsure[t] \cup Unlisted(start[t])
  BY DEF LeftoversAccount
<1>1. Typed /\ TaskOK(t) /\ TakenBack(t)
  BY DEF SafeInv, TypeInv, RunInv, RunOK
<1>2. Under(t) /\ at[t] \in DOMAIN Steps(t)
  BY <1>1 DEF TaskOK, Begun
<1>3. CASE Mine(t) = None
  BY <1>1, <1>3, NoChange, AccountTypes DEF TakenBack, Typed
<1>4. CASE Mine(t) # None
  <2>1. /\ start[t] \in Accounts /\ account \in Accounts /\ Its(start[t], Mine(t))
        /\ Shaped(QOf(t), start[t], Mine(t)) /\ at[t] \in DOMAIN QOf(t)
    BY <1>1, <1>2, <1>4, PlanFacts DEF Typed
  <2>2. Midway(QOf(t), start[t], account, Mine(t), 0, at[t], Loose(t))
    BY <1>1, <1>4 DEF TakenBack
  <2>3. Changes(start[t], account) \subseteq Loose(t) \cup Unlisted(start[t])
    BY <2>1, <2>2, WhatIsLeft
  <2> QED
    BY <2>3 DEF Loose
<1> QED
  BY <1>3, <1>4

\* What a failed change leaves behind is what its outcome lists, or the effect of a call
\* whose answer was lost, or one of the three things the code never lists (Unlisted, in
\* Planner): a configuration written over an empty one, a connector that was not running,
\* and Teitunnel's comment on a record that had none. Whichever steps failed, were lost or
\* could not be taken back.
THEOREM OnlyListedIsLeft == Spec => []LeftoversAccount
  BY ListedIsLeft, SafeInit, RunStep, PTL DEF Spec

\* A change that keeps to its plan leaves no route without its login.
LEMMA StayClosed == SafeInv => NeverOpen
<1> SUFFICES ASSUME SafeInv, NEW t \in Tasks, NEW k \in Keys, left[t] = {}, unsure[t] = {},
                    pc[t] \in Running \cup {"applied", "rolledBack", "partly", "dead"}, ~touched[t]
             PROVE  ~Exposed(intent[t], start[t], account, k)
  BY DEF NeverOpen, Open
<1>1. /\ Typed /\ TaskOK(t) /\ RunOK(t) /\ TypeInv /\ Loose(t) = {}
      /\ start[t] \in Accounts /\ account \in Accounts
  BY DEF SafeInv, TypeInv, RunInv, Loose, Typed
<1>2. ASSUME Along(intent[t], start[t], account, {}) PROVE ~Exposed(intent[t], start[t], account, k)
  <2>1. CASE account = start[t]
    BY <2>1, ClosedBefore
  <2>2. CASE account # start[t]
    <3>1. PICK x \in Tunnels, m, n \in Nat :
            Halfway(intent[t], start[t], account, x, m, n, {})
      BY <1>2, <2>2 DEF Along
    <3> QED
      BY <1>1, <3>1, Closed
  <2> QED
    BY <2>1, <2>2
<1>3. CASE pc[t] \in Running
  BY <1>1, <1>2, <1>3, WorkDies DEF RunOK
<1>4. CASE pc[t] = "dead"
  BY <1>1, <1>2, <1>4 DEF RunOK
<1>5. CASE pc[t] \in {"rolledBack", "partly"}
  <2>1. Under(t) /\ at[t] \in DOMAIN Steps(t) /\ TakenBack(t)
    BY <1>1, <1>5 DEF TaskOK, Begun, RunOK
  <2>2. CASE Mine(t) = None
    BY <1>2, <2>1, <2>2 DEF TakenBack, Along
  <2>3. CASE Mine(t) # None
    <3>1. /\ Its(start[t], Mine(t)) /\ Mine(t) \in Tunnels /\ at[t] \in DOMAIN QOf(t)
          /\ at[t] \in Nat \ {0}
      BY <1>1, <2>1, <2>3, PlanFacts
    <3>2. Midway(QOf(t), start[t], account, Mine(t), 0, at[t], {})
      BY <1>1, <2>1, <2>3 DEF TakenBack
    <3>3. Reviewed(intent[t], start[t]) /\ 0 \in Nat /\ 0 < at[t]
      BY <2>1, <3>1 DEF Under
    <3>4. Halfway(intent[t], start[t], account, Mine(t), 0, at[t], {})
      BY <3>1, <3>2, <3>3 DEF Halfway, QOf
    <3> QED
      BY <3>1, <3>4, <1>2 DEF Along
  <2> QED
    BY <2>2, <2>3
<1>6. CASE pc[t] = "applied"
  <2>1. PICK R \in SUBSET Tunnels :
          LET c == [account EXCEPT !.running = R]
          IN  /\ c \in Accounts
              /\ Halfway(intent[t], start[t], c, Mine(t), Len(QOf(t)), Len(QOf(t)) + 1, {})
    BY <1>6, AppliedIs
  <2>2. ~Exposed(intent[t], start[t], [account EXCEPT !.running = R], k)
    BY <1>1, <2>1, Closed
  <2> QED
    BY <1>1, <2>2, ExposedAnyway
<1> QED
  BY <1>3, <1>4, <1>5, <1>6

\* A protected route is never reachable without its login: not between two calls of a
\* change or of its rollback, not once it ended, nor where its process died; but for
\* changes of others, undos that failed and answers that were lost.
THEOREM RoutesStayClosed == Spec => []NeverOpen
  BY StayClosed, SafeInit, RunStep, PTL DEF Spec

\* A change that keeps to its plan to the end is there.
LEMMA Converges == SafeInv => AppliedConverges
<1> SUFFICES ASSUME SafeInv, NEW t \in Tasks, pc[t] = "applied", ~touched[t]
             PROVE  Reached(intent[t], start[t], account)
  BY DEF AppliedConverges
<1>1. /\ start[t] \in Accounts /\ account \in Accounts
      /\ \E R \in SUBSET Tunnels :
           LET c == [account EXCEPT !.running = R]
           IN  /\ c \in Accounts
               /\ Halfway(intent[t], start[t], c, Mine(t), Len(QOf(t)), Len(QOf(t)) + 1, {})
  BY AppliedIs
<1>2. PICK R \in SUBSET Tunnels :
        LET c == [account EXCEPT !.running = R]
        IN  /\ c \in Accounts
            /\ Halfway(intent[t], start[t], c, Mine(t), Len(QOf(t)), Len(QOf(t)) + 1, {})
  BY <1>1
<1> DEFINE c == [account EXCEPT !.running = R]
<1>3. c \in Accounts /\ c = [account EXCEPT !.running = R]
      /\ Halfway(intent[t], start[t], c, Mine(t), Len(QOf(t)), Len(QOf(t)) + 1, {})
  BY <1>2
<1> HIDE DEF c
<1>4. Arrived(intent[t], start[t], c, Mine(t))
  BY <1>1, <1>3, MadeArrived DEF QOf
<1>5. Reached(intent[t], start[t], c)
  BY <1>1, <1>3, <1>4, Promised
<1> QED
  BY <1>1, <1>3, <1>5, ReachedAnyway

\* An applied change is there and asking for it again changes nothing; the routes it does
\* not name, those of the same hostname too, keep their rules and logins and go on
\* answering; and of the records but the asked hostname's only Teitunnel's have changed.
THEOREM ChangesConverge == Spec => []AppliedConverges
  BY Converges, SafeInit, RunStep, PTL DEF Spec

-----------------------------------------------------------------------------
(* Records that are not Teitunnel's                                        *)

IsOwned(r) == r.owned
\* Where record n of hostname h still is, it is Teitunnel's.
OursAt(c, h, n) == HasRecord(c, h, n) => IsOwned(c.dns[h])
Numbered(c) == \A h \in Hosts : c.dns[h] # None => c.dns[h].id <= c.made

\* What becomes of account c leaves Teitunnel's records Teitunnel's, but for hostname x.
GentleBut(c, d, x) ==
  /\ c.made <= d.made /\ Numbered(d)
  /\ \A h \in Hosts, n \in Nat : h # x /\ n <= c.made /\ OursAt(c, h, n) => OursAt(d, h, n)
Gentle(c, d) == \A x : GentleBut(c, d, x)

\* Where no record changed.
LEMMA SameRecords ==
  ASSUME NEW c \in Accounts, NEW d \in Accounts, Numbered(c), d.dns = c.dns, c.made <= d.made
  PROVE  Gentle(c, d)
<1>1. c.made \in Nat /\ d.made \in Nat /\ c.dns \in [Hosts -> Records \cup {None}]
  BY AccountTypes
<1>2. Numbered(d)
  BY <1>1, AccountAssumption DEF Numbered, Records
<1>3. \A h : \A n : OursAt(c, h, n) => OursAt(d, h, n)
  BY DEF OursAt, HasRecord
<1> QED
  BY <1>2, <1>3 DEF Gentle, GentleBut

\* A record that was written, by which number and whose.
LEMMA WrittenRecord ==
  ASSUME NEW c \in Accounts, Numbered(c), NEW h \in Hosts, NEW r \in Records,
         r.to \in c.used \cup {Elsewhere, Address}
  PROVE  LET d == PutRecord(c, h, r)
         IN  /\ GentleBut(c, d, h)
             /\ r.id > c.made \/ IsOwned(r) => Gentle(c, d)
<1> DEFINE d == PutRecord(c, h, r)
           n == r.id
<1>0. d.dns = [c.dns EXCEPT ![h] = r] /\ d \in Accounts /\ n \in Nat
  BY PutRecordIs DEF Records
<1>r. PutRecord(c, h, r).dns[h] = r
  BY RecordThere
<1>1. d.dns = [c.dns EXCEPT ![h] = r] /\ d \in Accounts /\ d.dns[h] = r
  BY <1>0, <1>r
<1>2. d.made = IF n > c.made THEN n ELSE c.made
  BY AccountTypes DEF PutRecord, Accounts
<1>3. c.made \in Nat /\ d.made \in Nat /\ c.dns \in [Hosts -> Records \cup {None}]
  BY <1>1, AccountTypes
<1>4. r.id = n
  OBVIOUS
<1> HIDE DEF d, n
<1>5. c.made <= d.made /\ n <= d.made
  BY <1>0, <1>2, <1>3
<1>6. \A g \in Hosts : g # h => d.dns[g] = c.dns[g]
  BY <1>1, <1>3
<1>7. Numbered(d)
  <2> SUFFICES ASSUME NEW g \in Hosts, d.dns[g] # None PROVE d.dns[g].id <= d.made
    BY DEF Numbered
  <2>1. CASE g = h
    BY <2>1, <1>1, <1>4, <1>5
  <2>2. CASE g # h
    <3>1. c.dns[g] # None /\ c.dns[g].id \in Nat /\ c.dns[g].id <= c.made
      BY <2>2, <1>3, <1>6 DEF Numbered, Records
    <3> QED
      BY <2>2, <3>1, <1>3, <1>5, <1>6
  <2> QED
    BY <2>1, <2>2
<1>8. \A g \in Hosts : \A m : g # h /\ OursAt(c, g, m) => OursAt(d, g, m)
  BY <1>6 DEF OursAt, HasRecord
<1>9. GentleBut(c, d, h)
  BY <1>5, <1>7, <1>8 DEF GentleBut
<1>10. ASSUME n > c.made \/ IsOwned(r), NEW m \in Nat, m <= c.made PROVE OursAt(d, h, m)
  <2>1. CASE n > c.made
    BY <2>1, <1>0, <1>1, <1>3, <1>4, <1>10 DEF OursAt, HasRecord
  <2>2. CASE IsOwned(r)
    BY <2>2, <1>1, <1>4 DEF OursAt
  <2> QED
    BY <1>10, <2>1, <2>2
<1>11. n > c.made \/ IsOwned(r) => Gentle(c, d)
  BY <1>5, <1>7, <1>8, <1>10 DEF Gentle, GentleBut
<1> QED
  BY <1>9, <1>11 DEF d, n

\* What Teitunnel wrote is its own.
LEMMA OwnIs ==
  ASSUME NEW c \in Accounts, NEW h \in Hosts, NEW n \in Nat, NEW x \in c.used,
         NEW d, d = OwnRecord(c, h, n, x)
  PROVE  d.dns[h] # None /\ d.dns[h].id = n /\ IsOwned(d.dns[h])
<1>1. d.dns[h] = OurRecord(n, x)
  BY RecordThere DEF OwnRecord
<1>2. x \in Tunnels
  BY AccountTypes
<1>3. /\ OurRecord(n, x) \in Records /\ OurRecord(n, x).id = n
      /\ OurRecord(n, x).owned
  BY <1>2, OurRecordIs
<1> QED
  BY <1>1, <1>3, AccountAssumption DEF IsOwned

\* A login that was written.
LogsIn(c, f) == f.dns = c.dns /\ c.made <= f.made
LEMMA AppPut ==
  ASSUME NEW c \in Accounts, NEW k, NEW n \in Nat, NEW w, NEW own
  PROVE  LogsIn(c, PutApp(c, k, n, w, own))
<1>1. /\ PutApp(c, k, n, w, own).dns = c.dns
      /\ PutApp(c, k, n, w, own).made = IF n > c.made THEN n ELSE c.made
  BY DEF PutApp, Accounts
<1> QED
  BY <1>1, AccountTypes DEF LogsIn

\* Every call but the restoring of a record.
LEMMA CallGentle ==
  ASSUME NEW c \in Accounts, Numbered(c), NEW s, TypedStep(s, c.used), Accepts(c, s),
         s.op \notin {"CreateTunnel", "RestoreRecord"}
  PROVE  Gentle(c, Perform(c, s, None)) /\ Gentle(c, PerformUnheard(c, s))
<1> DEFINE d == Perform(c, s, None)
           e == PerformUnheard(c, s)
<1>1. d \in Accounts /\ e \in Accounts
  BY PerformIs, PerformUnheardIs DEF PerformsWell
<1>2. c.made \in Nat /\ NextId(c) > c.made /\ NextId(c) \in Nat
  BY AccountTypes DEF NextId
<1>4. \A f : LET g == [f EXCEPT !.machine = c.machine]
             IN  f \in Accounts => g.dns = f.dns /\ g.made = f.made
  BY DEF Accounts
<1>5. s.op \in {"CreateRecord", "UpdateRecord", "RecreateRecord"} => Gentle(c, d)
  <2>1. ASSUME NEW h \in Hosts, NEW x \in c.used, s = CreateRecord(h, x) PROVE Gentle(c, d)
    <3>1. d = PutRecord(c, h, OurRecord(NextId(c), x))
      BY <2>1 DEF CreateRecord, Perform
    <3>2. x \in Tunnels
      BY AccountTypes
    <3> QED
      BY <3>1, <3>2, <1>2, OurRecordIs, WrittenRecord DEF IsOwned
  <2>2. ASSUME NEW h \in Hosts, NEW x \in c.used, NEW r \in Records, s = UpdateRecord(h, x, r)
        PROVE  Gentle(c, d)
    <3>1. d = PutRecord(c, h, OurRecord(IdAfter(c, r), x)) /\ x \in Tunnels
      BY <2>2, AccountTypes DEF UpdateRecord, Perform
    <3>2. IdAfter(c, r) \in Nat
      BY <1>2 DEF IdAfter, Records
    <3> QED
      BY <3>1, <3>2, OurRecordIs, WrittenRecord DEF IsOwned
  <2>3. ASSUME NEW h \in Hosts, NEW r \in Records, r.to \in c.used \cup {Elsewhere, Address},
               s = RecreateRecord(h, r)
        PROVE  Gentle(c, d)
    <3>1. d = PutRecord(c, h, [r EXCEPT !.id = NextId(c)])
      BY <2>3 DEF RecreateRecord, Perform
    <3> QED
      BY <3>1, <1>2, <2>3, Recreated, WrittenRecord
  <2> QED
    BY <2>1, <2>2, <2>3 DEF TypedStep, CreateTunnel, Step, DeleteTunnel, StartConnector,
       StopConnector, PutConfig, CreateRecord, UpdateRecord, DeleteRecord, RecreateRecord,
       RestoreRecord, CreateApp, UpdateApp, DeleteApp
<1>6. s.op = "DeleteRecord" => Gentle(c, d)
  <2> SUFFICES ASSUME NEW h \in Hosts, NEW r \in Records, s = DeleteRecord(h, r)
               PROVE  Gentle(c, d)
    BY DEF TypedStep, CreateTunnel, Step, DeleteTunnel, StartConnector,
       StopConnector, PutConfig, CreateRecord, UpdateRecord, DeleteRecord, RecreateRecord,
       RestoreRecord, CreateApp, UpdateApp, DeleteApp
  <2>1. d = DropRecord(c, h, r.id)
    BY DEF DeleteRecord, Perform
  <2>2. d.dns = (IF HasRecord(c, h, r.id) THEN [c.dns EXCEPT ![h] = None] ELSE c.dns)
    BY <2>1, DropRecordIs
  <2>3. d.made = c.made
    BY <2>1 DEF DropRecord, Accounts
  <2> HIDE DEF d
  <2>4. \A g \in Hosts : d.dns[g] = None \/ d.dns[g] = c.dns[g]
    BY <2>2, AccountTypes
  <2>5. Numbered(d)
    BY <2>3, <2>4 DEF Numbered
  <2>6. \A g \in Hosts : \A m : OursAt(c, g, m) => OursAt(d, g, m)
    BY <2>4 DEF OursAt, HasRecord
  <2> QED
    BY <1>2, <2>3, <2>5, <2>6 DEF Gentle, GentleBut
<1>7. s.op \notin {"CreateRecord", "UpdateRecord", "RecreateRecord", "DeleteRecord"} =>
        d.dns = c.dns /\ c.made <= d.made
  <2>1. s.op \in {"DeleteTunnel", "PutConfig", "StartConnector", "StopConnector"} =>
          d.dns = c.dns /\ d.made = c.made
    BY DEF Perform, RemoveTunnel, WriteConfig, Accounts
  <2>2. s.op = "DeleteApp" => d.dns = c.dns /\ d.made = c.made
    BY DEF Perform, DropApp, Accounts
  <2>3. s.op = "CreateApp" => d.dns = c.dns /\ c.made <= d.made
    <3>1. LogsIn(c, PutApp(c, s.key, NextId(c), s.who, TRUE))
      BY <1>2, AppPut
    <3>2. s.op = "CreateApp" => d = PutApp(c, s.key, NextId(c), s.who, TRUE)
      BY DEF Perform
    <3> QED
      BY <3>1, <3>2, Zenon DEF LogsIn
  <2>4. s.op = "UpdateApp" => d.dns = c.dns /\ c.made <= d.made
    <3> SUFFICES ASSUME NEW k \in Keys, NEW w \in People, NEW p \in Apps, s = UpdateApp(k, w, p)
                 PROVE  d.dns = c.dns /\ c.made <= d.made
      BY DEF TypedStep, CreateTunnel, Step, DeleteTunnel, StartConnector,
       StopConnector, PutConfig, CreateRecord, UpdateRecord, DeleteRecord, RecreateRecord,
       RestoreRecord, CreateApp, UpdateApp, DeleteApp
    <3>1. d = PutApp(c, k, p.id, w, TRUE) /\ p.id \in Nat
      BY DEF UpdateApp, Perform, Apps
    <3>2. LogsIn(c, PutApp(c, k, p.id, w, TRUE))
      BY <3>1, AppPut
    <3> QED
      BY <3>1, <3>2, Zenon DEF LogsIn
  <2> QED
    BY <1>2, <2>1, <2>2, <2>3, <2>4 DEF TypedStep, CreateTunnel, Step, DeleteTunnel,
       StartConnector, StopConnector, PutConfig, CreateRecord, UpdateRecord, DeleteRecord,
       RecreateRecord, RestoreRecord, CreateApp, UpdateApp, DeleteApp
<1>8. Gentle(c, d)
  BY <1>1, <1>5, <1>6, <1>7, SameRecords
<1>9. ASSUME s.op # "RecreateRecord"
      PROVE  (e.dns = d.dns /\ e.made = d.made) \/ (e.dns = c.dns /\ c.made <= e.made)
  <2>1. CASE s.op = "CreateApp"
    <3>1. LogsIn(c, PutApp(c, s.key, NextId(c), s.who, FALSE))
      BY <1>2, AppPut
    <3>2. e = PutApp(c, s.key, NextId(c), s.who, FALSE)
      BY <2>1 DEF PerformUnheard
    <3> QED
      BY <3>1, <3>2, Zenon DEF LogsIn
  <2>2. CASE s.op # "CreateApp"
    BY <2>2, <1>1, <1>4, <1>9 DEF PerformUnheard
  <2> QED
    BY <2>1, <2>2
<1>10. Gentle(c, e)
  <2>1. CASE e.dns = d.dns /\ e.made = d.made
    BY <1>8, <2>1 DEF Gentle, GentleBut, Numbered, OursAt, HasRecord
  <2>2. CASE e.dns = c.dns /\ c.made <= e.made
    BY <1>1, <2>2, SameRecords
  <2>3. CASE s.op = "RecreateRecord"
    <3>1. PICK h \in Hosts, r \in Records :
            r.to \in c.used \cup {Elsewhere, Address} /\ s = RecreateRecord(h, r)
      BY <2>3 DEF TypedStep, CreateTunnel, Step, DeleteTunnel, StartConnector,
         StopConnector, PutConfig, CreateRecord, UpdateRecord, DeleteRecord, RecreateRecord,
         RestoreRecord, CreateApp, UpdateApp, DeleteApp
    <3> DEFINE q == [r EXCEPT !.id = NextId(c), !.owned = @ /\ ~r.noted]
    <3>2. q \in Records /\ q.to = r.to /\ q.id = NextId(c)
      BY <1>2 DEF Records
    <3>3. e = PutRecord(c, h, q)
      BY <3>1 DEF RecreateRecord, PerformUnheard
    <3> HIDE DEF q
    <3> QED
      BY <3>1, <3>2, <3>3, <1>2, WrittenRecord
  <2> QED
    BY <1>9, <2>1, <2>2, <2>3
<1> QED
  BY <1>8, <1>10

\* Restoring a record leaves those of the other hostnames.
LEMMA RestoreGentle ==
  ASSUME NEW c \in Accounts, Numbered(c), NEW s, TypedStep(s, c.used), Accepts(c, s),
         s.op = "RestoreRecord"
  PROVE  /\ GentleBut(c, Perform(c, s, None), s.host) /\ s.host \in Hosts
         /\ GentleBut(c, PerformUnheard(c, s), s.host)
<1> DEFINE d == Perform(c, s, None)
           e == PerformUnheard(c, s)
<1>1. d \in Accounts
  BY PerformIs DEF PerformsWell
<1>2. PICK h \in Hosts, n \in Nat, r \in Records :
        r.to \in c.used \cup {Elsewhere, Address} /\ s = RestoreRecord(h, n, r)
  BY DEF TypedStep, CreateTunnel, Step, DeleteTunnel, StartConnector,
       StopConnector, PutConfig, CreateRecord, UpdateRecord, DeleteRecord, RecreateRecord,
       RestoreRecord, CreateApp, UpdateApp, DeleteApp
<1>3. PICK q \in Records : d = PutRecord(c, h, q) /\ q.to = r.to
  <2>1. d = GiveBack(c, s)
    BY <1>2 DEF RestoreRecord, Perform
  <2> QED
    BY <1>2, <2>1, GivenBack
<1>4. s.host = h
  BY <1>2 DEF RestoreRecord
<1>5. GentleBut(c, d, h)
  BY <1>2, <1>3, WrittenRecord
<1> DEFINE p == IF n = r.id THEN [r EXCEPT !.owned = TRUE]
                ELSE [r EXCEPT !.id = NextId(c), !.owned = @ /\ ~r.noted]
<1>6. e = PutRecord(c, h, p) /\ p \in Records /\ p.to = r.to
  <2>1. e = PutRecord(c, h, p)
    BY <1>2 DEF PerformUnheard, RestoreRecord
  <2>2. p \in Records /\ p.to = r.to
    <3>1. [r EXCEPT !.owned = TRUE] \in Records /\ [r EXCEPT !.owned = TRUE].to = r.to
      BY DEF Records
    <3>2. NextId(c) \in Nat /\ (r.owned /\ ~r.noted) \in BOOLEAN
      BY AccountTypes DEF NextId
    <3> DEFINE m == NextId(c)
               o == r.owned /\ ~r.noted
               x == [r EXCEPT !.id = m, !.owned = o]
    <3> HIDE DEF m, o
    <3>3. x \in Records /\ x.to = r.to
      BY <3>2 DEF Records, m, o
    <3> QED
      BY <3>1, <3>3 DEF m, o
  <2> QED
    BY <2>1, <2>2
<1> HIDE DEF d, e, p
<1>7. GentleBut(c, e, h)
  BY <1>2, <1>6, WrittenRecord
<1> QED
  BY <1>4, <1>5, <1>7 DEF d, e

-----------------------------------------------------------------------------
(* A record that is not Teitunnel's is replaced by a plan that asks        *)

NoMove(S) == \A st \in S : st.op # "UpdateRecord"

\* Only what makes a hostname resolve to the tunnel writes over a record.
LEMMA NoMoves ==
  ASSUME NEW s
  PROVE  /\ NoMove(Range(EnsureTunnel(s))) /\ NoMove({})
         /\ \A k, who : NoMove(Range(Protect(s, k, who))) /\ NoMove(Range(Unprotect(s, k)))
         /\ \A h : NoMove(Range(ReleaseDns(s, h)))
         /\ \A r : NoMove(Range(WriteRules(s, r)))
<1>1. NoMove(Range(EnsureTunnel(s))) /\ NoMove({})
  BY TunnelPart DEF NoMove, CreateTunnel, Step
<1>2. ASSUME NEW k, NEW who
      PROVE  NoMove(Range(Protect(s, k, who))) /\ NoMove(Range(Unprotect(s, k)))
  BY LoginPart, UnprotectPart DEF NoMove, CreateApp, UpdateApp, DeleteApp
<1>3. ASSUME NEW h PROVE NoMove(Range(ReleaseDns(s, h)))
  BY ReleasePart DEF NoMove, DeleteRecord
<1>4. ASSUME NEW r PROVE NoMove(Range(WriteRules(s, r)))
  <2> DEFINE v == IF s.tunnel = None THEN None ELSE s.version
  <2>1. Range(WriteRules(s, r)) = IF r = s.rules THEN {} ELSE {PutConfig(TunnelRef(s), r, v, s.rules)}
    BY ConfigPart
  <2> HIDE DEF v
  <2>2. PutConfig(TunnelRef(s), r, v, s.rules).op # "UpdateRecord"
    BY DEF PutConfig
  <2> QED
    BY <2>1, <2>2 DEF NoMove
<1> QED
  BY <1>1, <1>2, <1>3, <1>4

\* A hostname is taken over from the record that was observed.
LEMMA MoveIs ==
  ASSUME NEW s, NEW h, NEW st \in Range(EnsureDns(s, h)), st.op = "UpdateRecord",
         ~IsOwned(st.previous)
  PROVE  TakesForeign(s, h)
<1>1. /\ ~PointsHere(s, h) /\ s.dns[h] # None /\ st = UpdateRecord(h, TunnelRef(s), s.dns[h])
  BY RecordPart DEF CreateRecord
<1>2. st.previous = s.dns[h]
  BY <1>1 DEF UpdateRecord
<1> QED
  BY <1>1, <1>2, Zenon DEF TakesForeign, IsOwned

\* A plan that is to be confirmed says so.
LEMMA Asks == ASSUME NEW q, NEW c, c PROVE Planned(q, c).confirm
<1>1. Planned(q, c).confirm = c
  BY DEF Planned
<1> QED
  BY <1>1, Zenon

\* So a plan that would write over someone else's record is to be confirmed.
LEMMA ForeignAsks ==
  ASSUME NEW a \in Accounts, NEW i, Reviewed(i, a), NEW st \in Range(Plan(i, Observe(i, a)).steps),
         st.op = "UpdateRecord", ~IsOwned(st.previous)
  PROVE  Plan(i, Observe(i, a)).confirm
<1> DEFINE s == Observe(i, a)
           P == Plan(i, s).steps
<1>0. i \in AllIntents /\ ~Plan(i, s).refused /\ st \in Range(P)
  BY DEF Reviewed
<1>1. CASE i.kind = "AddRoute"
  <2> DEFINE w == [Routes(s) EXCEPT ![i.key] = {i.origin}]
  <2>1. Range(P) = Range(EnsureTunnel(s)) \cup Range(Protect(s, i.key, i.who))
                  \cup (IF Routes(s)[i.key] = {} THEN Range(WriteRules(s, w)) ELSE {})
                  \cup Range(EnsureDns(s, HostOf[i.key]))
    BY <1>0, <1>1, AddRoutePlan
  <2> HIDE DEF P, w
  <2>2. st \in Range(EnsureDns(s, HostOf[i.key]))
    BY <1>0, <2>1, NoMoves DEF NoMove
  <2>3. TakesForeign(s, HostOf[i.key])
    BY <2>2, MoveIs
  <2>4. Plan(i, s) = PlanAddRoute(i, s) /\ PlanAddRoute(i, s) # Refused
    BY <1>0, <1>1 DEF Plan, Refused
  <2>5. PICK q : PlanAddRoute(i, s) = Planned(q, TakesForeign(s, HostOf[i.key]))
    BY <2>4 DEF PlanAddRoute
  <2>6. Planned(q, TakesForeign(s, HostOf[i.key])).confirm
    BY <2>3, Asks
  <2> QED
    BY <2>4, <2>5, <2>6, Zenon
<1>2. CASE i.kind = "UpdateRoute"
  <2> DEFINE w == [Routes(s) EXCEPT ![i.key] = {}, ![i.to] = @ \cup {i.origin}]
  <2>1. Range(P) = Range(Protect(s, i.to, i.who)) \cup Range(WriteRules(s, w))
                  \cup Range(EnsureDns(s, HostOf[i.to]))
                  \cup (IF HostOf[i.key] # HostOf[i.to] /\ LastOfHost(s, i.key)
                        THEN Range(ReleaseDns(s, HostOf[i.key])) ELSE {})
                  \cup (IF i.who # None /\ i.to = i.key THEN {} ELSE Range(Unprotect(s, i.key)))
    BY <1>0, <1>2, UpdateRoutePlan
  <2> HIDE DEF P, w
  <2>2. st \in Range(EnsureDns(s, HostOf[i.to]))
    BY <1>0, <2>1, NoMoves DEF NoMove
  <2>3. TakesForeign(s, HostOf[i.to])
    BY <2>2, MoveIs
  <2>4. Plan(i, s) = PlanUpdateRoute(i, s) /\ PlanUpdateRoute(i, s) # Refused
    BY <1>0, <1>2 DEF Plan, Refused
  <2>5. PICK q : PlanUpdateRoute(i, s) = Planned(q, TakesForeign(s, HostOf[i.to]))
    BY <2>4 DEF PlanUpdateRoute
  <2>6. Planned(q, TakesForeign(s, HostOf[i.to])).confirm
    BY <2>3, Asks
  <2> QED
    BY <2>4, <2>5, <2>6, Zenon
<1>3. CASE i.kind = "RemoveRoute"
  <2> DEFINE w == [Routes(s) EXCEPT ![i.key] = {}]
  <2>1. Range(P) = Range(WriteRules(s, w))
                  \cup (IF LastOfHost(s, i.key) THEN Range(ReleaseDns(s, HostOf[i.key])) ELSE {})
                  \cup Range(Unprotect(s, i.key))
    BY <1>0, <1>3, RemoveRoutePlan
  <2> HIDE DEF P, w
  <2> QED
    BY <1>0, <2>1, NoMoves DEF NoMove
<1>4. CASE i.kind = "RemoveTunnel"
  <2> DEFINE routed == {HostOf[k] : k \in {j \in Keys : Routes(s)[j] # {}}}
  <2>1. Range(P) = (IF routed = {} THEN {} ELSE Range(WriteRules(s, NoRules)))
                  \cup {DeleteRecord(h, s.dns[h]) : h \in {g \in routed : Releases(s, g)}}
                  \cup {DeleteApp(k, s.login[k]) : k \in {j \in Keys : Owns(s, j)}}
                  \cup {StopConnector(s.tunnel), DeleteTunnel(s.tunnel)}
    BY <1>0, <1>4, RemoveTunnelPlan
  <2>2. \A q, r : /\ DeleteRecord(q, r).op # "UpdateRecord" /\ DeleteApp(q, r).op # "UpdateRecord"
                  /\ StopConnector(q).op # "UpdateRecord" /\ DeleteTunnel(q).op # "UpdateRecord"
    BY DEF DeleteRecord, DeleteApp, StopConnector, DeleteTunnel
  <2> HIDE DEF P, routed
  <2> QED
    BY <1>0, <2>1, <2>2, NoMoves DEF NoMove
<1> QED
  BY <1>0, <1>1, <1>2, <1>3, <1>4, IntentTypes

-----------------------------------------------------------------------------
(* What a task is to find when it writes to a record                       *)

\* The records of account a that are Teitunnel's are, where they are, in account c.
Guarded(a, c) == \A h \in Hosts : a.dns[h] # None /\ IsOwned(a.dns[h]) => OursAt(c, h, a.dns[h].id)

\* An undo that deletes or rewrites a record, and by which number it finds it.
Watched(u) == u.op \in {"DeleteRecord", "RestoreRecord"}
NumberOf(u) == IF u.op = "DeleteRecord" THEN u.record.id ELSE u.current
Finds(c, u) == NumberOf(u) <= c.made /\ OursAt(c, u.host, NumberOf(u))
Later(Q, n, h) == \A l \in DOMAIN Q : n <= l /\ Q[l].op \in RecordSteps => Q[l].host # h

\* The undos D of the steps of Q before n find Teitunnel's records, each another's.
Fine(c, D, Q, n) ==
  \A j \in DOMAIN D :
    /\ D[j].undo.op # "UpdateRecord"
    /\ Watched(D[j].undo) =>
         /\ Finds(c, D[j].undo) /\ Later(Q, n, D[j].undo.host)
         /\ \A k \in DOMAIN D : k # j /\ Watched(D[k].undo) => D[k].undo.host # D[j].undo.host

Typings(D, U) == \A j \in DOMAIN D : TypedStep(D[j].undo, U)

\* What an undo looks for.
LEMMA WatchedTypes ==
  ASSUME NEW u, NEW U, TypedStep(u, U), Watched(u)
  PROVE  u.host \in Hosts /\ NumberOf(u) \in Nat
<1>1. CASE u.op = "DeleteRecord"
  <2>1. PICK h \in Hosts, r \in Records : u = DeleteRecord(h, r)
    BY <1>1 DEF TypedStep, CreateTunnel, Step, DeleteTunnel, StartConnector,
       StopConnector, PutConfig, CreateRecord, UpdateRecord, DeleteRecord, RecreateRecord,
       RestoreRecord, CreateApp, UpdateApp, DeleteApp
  <2> QED
    BY <2>1 DEF DeleteRecord, NumberOf, Records
<1>2. CASE u.op = "RestoreRecord"
  <2>1. PICK h \in Hosts, n \in Nat, r \in Records : u = RestoreRecord(h, n, r)
    BY <1>2 DEF TypedStep, CreateTunnel, Step, DeleteTunnel, StartConnector,
       StopConnector, PutConfig, CreateRecord, UpdateRecord, DeleteRecord, RecreateRecord,
       RestoreRecord, CreateApp, UpdateApp, DeleteApp
  <2> QED
    BY <2>1 DEF RestoreRecord, NumberOf
<1> QED
  BY <1>1, <1>2 DEF Watched

\* It still finds Teitunnel's, if anything.
LEMMA FindsStill ==
  ASSUME NEW c \in Accounts, NEW d \in Accounts, NEW x, GentleBut(c, d, x), NEW u, NEW U,
         TypedStep(u, U), Watched(u), u.host # x, Finds(c, u)
  PROVE  Finds(d, u)
<1>1. u.host \in Hosts /\ NumberOf(u) \in Nat
  BY WatchedTypes
<1>2. c.made \in Nat /\ d.made \in Nat
  BY AccountTypes
<1> QED
  BY <1>1, <1>2 DEF GentleBut, Finds

\* So do all of a task's undos.
LEMMA FineStill ==
  ASSUME NEW c \in Accounts, NEW d \in Accounts, Gentle(c, d), NEW D, NEW U, Typings(D, U),
         NEW Q, NEW n, Fine(c, D, Q, n)
  PROVE  Fine(d, D, Q, n)
<1>1. ASSUME NEW j \in DOMAIN D, Watched(D[j].undo) PROVE Finds(d, D[j].undo)
  <2>1. PICK x : x # D[j].undo.host
    OBVIOUS
  <2>2. TypedStep(D[j].undo, U) /\ Finds(c, D[j].undo) /\ GentleBut(c, d, x)
    BY <1>1 DEF Typings, Fine, Gentle
  <2> QED
    BY <1>1, <2>1, <2>2, FindsStill
<1> QED
  BY <1>1 DEF Fine

\* And so do its steps.
LEMMA GuardedStill ==
  ASSUME NEW a \in Accounts, NEW c \in Accounts, NEW d \in Accounts, Numbered(a), a.made <= c.made,
         Gentle(c, d), Guarded(a, c)
  PROVE  Guarded(a, d)
<1> SUFFICES ASSUME NEW h \in Hosts, a.dns[h] # None, IsOwned(a.dns[h])
             PROVE  OursAt(d, h, a.dns[h].id)
  BY DEF Guarded
<1>1. a.dns[h].id \in Nat /\ a.made \in Nat /\ c.made \in Nat
  BY AccountTypes DEF Records
<1>2. a.dns[h].id <= c.made /\ OursAt(c, h, a.dns[h].id)
  BY <1>1 DEF Numbered, Guarded
<1>3. PICK x : x # h
  OBVIOUS
<1> QED
  BY <1>1, <1>2, <1>3 DEF Gentle, GentleBut

\* A step that was answered leaves an undo that finds what it wrote.
LEMMA NewUndo ==
  ASSUME NEW c \in Accounts, Numbered(c), NEW s, TypedStep(s, c.used), Accepts(c, s),
         s.op \notin {"CreateTunnel", "RestoreRecord", "RecreateRecord"},
         UndoOf(Perform(c, s, None), s, None) # <<>>
  PROVE  LET d == Perform(c, s, None)
             u == UndoOf(d, s, None)[1]
         IN  /\ u.op # "UpdateRecord"
             /\ Watched(u) => s.op \in RecordSteps /\ u.host = s.host /\ Finds(d, u)
<1> DEFINE d == Perform(c, s, None)
           u == UndoOf(d, s, None)[1]
<1>1. Numbered(d) /\ c.made \in Nat /\ NextId(c) \in Nat
  <2>1. Gentle(c, d)
    BY CallGentle
  <2> QED
    BY <2>1, AccountTypes DEF Gentle, GentleBut, NextId
<1>2. CASE s.op = "CreateRecord"
  <2>1. PICK h \in Hosts, x \in c.used : s = CreateRecord(h, x)
    BY <1>2 DEF TypedStep, CreateTunnel, Step, DeleteTunnel, StartConnector,
       StopConnector, PutConfig, CreateRecord, UpdateRecord, DeleteRecord, RecreateRecord,
       RestoreRecord, CreateApp, UpdateApp, DeleteApp
  <2>2. d = OwnRecord(c, h, NextId(c), x) /\ s.host = h
    BY <2>1 DEF CreateRecord, Perform, OwnRecord
  <2>3. u = DeleteRecord(h, d.dns[h])
    BY <2>1, <2>2 DEF CreateRecord, UndoOf
  <2> HIDE DEF d, u
  <2>4. d.dns[h] # None /\ d.dns[h].id = NextId(c) /\ IsOwned(d.dns[h])
    BY <1>1, <2>2, OwnIs
  <2>5. u.op = "DeleteRecord" /\ u.host = h /\ NumberOf(u) = d.dns[h].id
    BY <2>3 DEF DeleteRecord, NumberOf
  <2>6. Finds(d, u)
    BY <1>1, <2>4, <2>5 DEF Finds, Numbered, OursAt
  <2> QED
    BY <1>2, <2>2, <2>5, <2>6 DEF RecordSteps, d, u
<1>3. CASE s.op = "UpdateRecord"
  <2>1. PICK h \in Hosts, x \in c.used, q \in Records : s = UpdateRecord(h, x, q)
    BY <1>3 DEF TypedStep, CreateTunnel, Step, DeleteTunnel, StartConnector,
       StopConnector, PutConfig, CreateRecord, UpdateRecord, DeleteRecord, RecreateRecord,
       RestoreRecord, CreateApp, UpdateApp, DeleteApp
  <2>2. d = OwnRecord(c, h, IdAfter(c, q), x) /\ s.host = h
    BY <2>1 DEF UpdateRecord, Perform, OwnRecord
  <2>3. u = RestoreRecord(h, d.dns[h].id, q)
    BY <2>1, <2>2 DEF UpdateRecord, UndoOf
  <2> HIDE DEF d, u
  <2>a. IdAfter(c, q) \in Nat
    BY <1>1 DEF IdAfter, Records
  <2>4. d.dns[h] # None /\ d.dns[h].id = IdAfter(c, q) /\ IsOwned(d.dns[h])
    BY <2>a, <2>2, OwnIs
  <2>5. u.op = "RestoreRecord" /\ u.host = h /\ NumberOf(u) = d.dns[h].id
    BY <2>3 DEF RestoreRecord, NumberOf
  <2>6. Finds(d, u)
    BY <1>1, <2>4, <2>5 DEF Finds, Numbered, OursAt
  <2> QED
    BY <1>3, <2>2, <2>5, <2>6 DEF RecordSteps, d, u
<1>4. CASE s.op \notin {"CreateRecord", "UpdateRecord"}
  <2>1. u.op \notin {"DeleteRecord", "RestoreRecord", "UpdateRecord"}
    BY <1>4 DEF UndoOf, DeleteTunnel, PutConfig, RecreateRecord, DeleteApp, UpdateApp,
                CreateApp, StartConnector
  <2> QED
    BY <2>1 DEF Watched
<1> QED
  BY <1>2, <1>3, <1>4

\* The steps that follow one about a record are about others.
LEMMA FineLonger ==
  ASSUME NEW c, NEW D, IsList(D), NEW Q, NEW a, NEW x, Shaped(Q, a, x), NEW n \in DOMAIN Q,
         Fine(c, D, Q, n), NEW u, u.op # "UpdateRecord",
         Watched(u) => Q[n].op \in RecordSteps /\ u.host = Q[n].host /\ Finds(c, u)
  PROVE  Fine(c, Append(D, Entry(n, u)), Q, n + 1) /\ Fine(c, D, Q, n + 1)
<1> DEFINE e == Entry(n, u)
           E == Append(D, e)
<1>1. e.undo = u
  BY DEF Entry
<1> HIDE DEF e
<1>2. /\ DOMAIN E = 1..(Len(D) + 1) /\ Len(D) \in Nat /\ DOMAIN D = 1..Len(D)
      /\ E[Len(D) + 1] = e /\ \A j \in DOMAIN D : E[j] = D[j]
  BY AppendIs
<1>3. DOMAIN Q \subseteq Nat
  BY DEF Shaped
<1>4. \A h : Later(Q, n, h) => Later(Q, n + 1, h)
  BY <1>3 DEF Later
<1>5. Watched(u) => Later(Q, n + 1, u.host)
  <2> SUFFICES ASSUME Watched(u), NEW l \in DOMAIN Q, n + 1 <= l, Q[l].op \in RecordSteps
               PROVE  Q[l].host # u.host
    BY DEF Later
  <2>1. l # n
    BY <1>3
  <2>1a. Q[n].op \in RecordSteps
    OBVIOUS
  <2>2. Spot(Q[n]) # Spot(Q[l])
    BY <2>1 DEF Shaped
  <2>3. Spot(Q[n]) = Item("dns", Q[n].host) /\ Spot(Q[l]) = Item("dns", Q[l].host)
    BY <2>1a DEF Spot, RecordSteps, LoginSteps
  <2> QED
    BY <2>2, <2>3
<1>6. Fine(c, D, Q, n + 1)
  BY <1>4 DEF Fine
<1>7. \A j \in DOMAIN D : Watched(D[j].undo) /\ Watched(u) => D[j].undo.host # u.host
  <2> SUFFICES ASSUME NEW j \in DOMAIN D, Watched(D[j].undo), Watched(u)
               PROVE  D[j].undo.host # u.host
    OBVIOUS
  <2>1. Later(Q, n, D[j].undo.host) /\ n \in Nat
    BY <1>3 DEF Fine
  <2> QED
    BY <2>1 DEF Later
<1>8. DOMAIN E = DOMAIN D \cup {Len(D) + 1} /\ Len(D) + 1 \notin DOMAIN D
  BY <1>2
<1>e. E = Append(D, Entry(n, u))
  BY DEF E, e
<1> HIDE DEF E
<1>9. Fine(c, E, Q, n + 1)
  <2> SUFFICES ASSUME NEW j \in DOMAIN E
               PROVE  /\ E[j].undo.op # "UpdateRecord"
                      /\ Watched(E[j].undo) =>
                           /\ Finds(c, E[j].undo) /\ Later(Q, n + 1, E[j].undo.host)
                           /\ \A k \in DOMAIN E : k # j /\ Watched(E[k].undo)
                                => E[k].undo.host # E[j].undo.host
    BY DEF Fine
  <2>1. CASE j \in DOMAIN D
    <3>1. E[j] = D[j]
      BY <1>2, <2>1
    <3>2. ASSUME NEW k \in DOMAIN E, k # j, Watched(D[j].undo), Watched(E[k].undo)
          PROVE  E[k].undo.host # D[j].undo.host
      <4>1. CASE k \in DOMAIN D
        BY <1>2, <2>1, <3>2, <4>1 DEF Fine
      <4>2. CASE k = Len(D) + 1
        BY <1>1, <1>2, <1>7, <2>1, <3>2, <4>2
      <4> QED
        BY <1>8, <4>1, <4>2
    <3>3. /\ D[j].undo.op # "UpdateRecord"
          /\ Watched(D[j].undo) => Finds(c, D[j].undo) /\ Later(Q, n + 1, D[j].undo.host)
      BY <1>6, <2>1 DEF Fine
    <3> QED
      BY <3>1, <3>2, <3>3
  <2>2. CASE j = Len(D) + 1
    <3>1. E[j].undo = u
      BY <1>1, <1>2, <2>2
    <3>2. ASSUME NEW k \in DOMAIN E, k # j, Watched(u), Watched(E[k].undo)
          PROVE  E[k].undo.host # u.host
      <4>1. k \in DOMAIN D
        BY <1>8, <2>2, <3>2
      <4> QED
        BY <1>2, <1>7, <3>2, <4>1
    <3> QED
      BY <3>1, <3>2, <1>5
  <2> QED
    BY <1>8, <2>1, <2>2
<1> QED
  BY <1>6, <1>9, <1>e, Zenon

\* An undo that was called, or not, leaves the others something to find.
LEMMA FineShorter ==
  ASSUME NEW c \in Accounts, NEW d \in Accounts, NEW D, IsList(D), D # <<>>, NEW U, Typings(D, U),
         NEW Q, NEW n, Fine(c, D, Q, n),
         Gentle(c, d) \/ (Watched(D[Len(D)].undo) /\ GentleBut(c, d, D[Len(D)].undo.host))
  PROVE  Fine(d, SubSeq(D, 1, Len(D) - 1), Q, n)
<1> DEFINE E == SubSeq(D, 1, Len(D) - 1)
           u == D[Len(D)].undo
<1>1. /\ Len(D) \in Nat \ {0} /\ DOMAIN D = 1..Len(D) /\ DOMAIN E = 1..(Len(D) - 1)
      /\ \A j \in DOMAIN E : E[j] = D[j]
  BY ButLastIs
<1>2. DOMAIN E \subseteq DOMAIN D /\ Len(D) \in DOMAIN D /\ \A j \in DOMAIN E : j # Len(D)
  BY <1>1
<1> HIDE DEF E
<1>3. ASSUME NEW j \in DOMAIN E, Watched(D[j].undo) PROVE Finds(d, D[j].undo)
  <2>1. /\ Finds(c, D[j].undo) /\ TypedStep(D[j].undo, U)
        /\ Watched(u) => u.host # D[j].undo.host
    BY <1>2, <1>3 DEF Fine, Typings
  <2>2. PICK x : x # D[j].undo.host /\ GentleBut(c, d, x)
    <3>1. CASE Gentle(c, d)
      <4>1. PICK x : x # D[j].undo.host
        OBVIOUS
      <4> QED
        BY <3>1, <4>1 DEF Gentle
    <3>2. CASE Watched(u) /\ GentleBut(c, d, u.host)
      BY <2>1, <3>2
    <3> QED
      BY <3>1, <3>2
  <2> QED
    BY <1>3, <2>1, <2>2, FindsStill
<1>4. Fine(d, E, Q, n)
  BY <1>1, <1>2, <1>3 DEF Fine
<1> QED
  BY <1>4 DEF E

\* A call that changes a record found it by its number.
LEMMA CallTouches ==
  ASSUME NEW c \in Accounts, NEW s, TypedStep(s, c.used), Accepts(c, s), s.op # "CreateTunnel",
         NEW d, d = Perform(c, s, None) \/ d = PerformUnheard(c, s),
         NEW h \in Hosts, c.dns[h] # None, d.dns[h] # c.dns[h]
  PROVE  /\ s.host = h
         /\ \/ s.op = "UpdateRecord" /\ HasRecord(c, h, s.previous.id)
            \/ Watched(s) /\ HasRecord(c, h, NumberOf(s))
<1>1. SameBut(c, d, ItemOf(s))
  BY PerformIs, PerformUnheardIs DEF PerformsWell
<1>2. ItemOf(s) = Item("dns", h)
  BY <1>1 DEF SameBut
<1>3. /\ s.op \in {"CreateRecord", "UpdateRecord", "DeleteRecord", "RecreateRecord", "RestoreRecord"}
      /\ s.host = h
  BY <1>2 DEF ItemOf, Item, TypedStep, CreateTunnel, Step, DeleteTunnel, StartConnector,
       StopConnector, PutConfig, CreateRecord, UpdateRecord, DeleteRecord, RecreateRecord,
       RestoreRecord, CreateApp, UpdateApp, DeleteApp
<1>4. s.op \notin {"CreateRecord", "RecreateRecord"}
  BY <1>3 DEF Accepts
<1>5. s.op = "UpdateRecord" => HasRecord(c, h, s.previous.id)
  BY <1>3 DEF Accepts
<1>6. s.op = "RestoreRecord" => Watched(s) /\ HasRecord(c, h, NumberOf(s))
  BY <1>3 DEF Accepts, Watched, NumberOf
<1>7. s.op = "DeleteRecord" => Watched(s) /\ HasRecord(c, h, NumberOf(s))
  <2> SUFFICES ASSUME s.op = "DeleteRecord", ~HasRecord(c, h, s.record.id) PROVE FALSE
    BY DEF Watched, NumberOf
  <2>1. Perform(c, s, None) = c
    BY <1>3 DEF Perform, DropRecord
  <2>2. PerformUnheard(c, s).dns = c.dns
    BY <2>1 DEF PerformUnheard, Accounts
  <2> QED
    BY <2>1, <2>2
<1> QED
  BY <1>3, <1>4, <1>5, <1>6, <1>7

\* Of a task's start nothing was numbered that the account has not numbered, and as long as
\* it works, the records that were Teitunnel's then are, and its undos find Teitunnel's.
ForeignOK(t) ==
  /\ Numbered(start[t]) /\ start[t].made <= account.made
  /\ pc[t] \in {"step", "put"} => Guarded(start[t], account)
  /\ pc[t] \in Running => Fine(account, done[t], QOf(t), at[t])

\* Nobody else of the process works beside a task that does.
OneProcess == \A t, u \in Tasks : ProcOf[t] = ProcOf[u]
Counted == \A c \in Found : Numbered(c)

ForeignInv ==
  /\ TypeInv /\ ReviewInv /\ Numbered(account)
  /\ \A t \in Tasks : ForeignOK(t)

\* An account only counts on.
LEMMA GentleMore ==
  ASSUME NEW c, NEW d, NEW x, GentleBut(c, d, x)
  PROVE  c.made <= d.made /\ Numbered(d)
  BY DEF GentleBut

\* One that stays as it is, likewise.
LEMMA GentleSame == ASSUME NEW c \in Accounts, Numbered(c) PROVE Gentle(c, c)
<1>1. c.made <= c.made
  BY AccountTypes
<1> QED
  BY <1>1, SameRecords

\* What a step of a plan is not.
LEMMA PlannedIs ==
  ASSUME NEW s, NEW a, NEW x, Grounded(s, a, x)
  PROVE  s.op \notin {"RestoreRecord", "RecreateRecord"}
  BY DEF Grounded, CreateTunnel, Step, DeleteTunnel, StopConnector, PutConfig, CreateRecord,
         UpdateRecord, DeleteRecord, CreateApp, UpdateApp, DeleteApp

\* A task that goes on, on an account that gently changed.
LEMMA ForeignGoes ==
  ASSUME NEW t \in Tasks, ForeignOK(t), account \in Accounts, account' \in Accounts,
         start[t] \in Accounts, start'[t] = start[t], Gentle(account, account'),
         pc'[t] \in {"step", "put"} => pc[t] \in {"step", "put"},
         pc'[t] \in Running => Fine(account', done'[t], QOf(t)', at'[t])
  PROVE  ForeignOK(t)'
<1>1. /\ Numbered(start[t]) /\ start[t].made <= account.made /\ account.made <= account'.made
      /\ start[t].made \in Nat /\ account.made \in Nat /\ account'.made \in Nat
  BY AccountTypes DEF ForeignOK, Gentle, GentleBut
<1>2. start[t].made <= account'.made
  BY <1>1
<1>3. pc'[t] \in {"step", "put"} => Guarded(start[t], account')
  BY <1>1, GuardedStill DEF ForeignOK
<1> QED
  BY <1>1, <1>2, <1>3 DEF ForeignOK

\* The undos a task has kept have their kinds.
LEMMA UndosTyped ==
  ASSUME NEW t \in Tasks, Under(t)
  PROVE  IsList(done[t]) /\ Typings(done[t], account.used)
  BY DEF Under, Typings

\* A step that was answered.
LEMMA ForeignAdvances ==
  ASSUME Typed, NEW t \in Tasks, Under(t), start[t].used \subseteq account.used, SameGoal(t),
         pc[t] \in {"step", "put"}, at[t] \in DOMAIN Steps(t), Numbered(account), ForeignOK(t),
         Advances(t)
  PROVE  Gentle(account, account') /\ ForeignOK(t)'
<1> DEFINE Q == QOf(t)
           a == start[t]
           c == account
           d == account'
           x == Mine(t)
           n == at[t]
           s == Current(t)
           D == done[t]
           u == UndoOf(d, s, None)
<1>1. /\ x # None /\ QOf(t)' = Q /\ d \in Accounts
  BY UnderAdvances
<1>2. /\ a \in Accounts /\ c \in Accounts /\ Shaped(Q, a, x) /\ n \in DOMAIN Q
  BY PlanFacts DEF Typed
<1>3. /\ s = Q[n] /\ s.op # "CreateTunnel" /\ TypedStep(s, c.used) /\ Grounded(s, a, x)
      /\ Accepts(c, s) /\ d = Perform(c, s, None)
  BY <1>1, CurrentTyped DEF Advances
<1>4. /\ at'[t] = n + 1 /\ pc'[t] = "step" /\ start'[t] = a
      /\ done'[t] = (IF u = <<>> THEN D ELSE Append(D, Entry(n, u[1])))
  <2>1. Keeps(t, u)
    BY DEF Advances
  <2> HIDE DEF u
  <2> QED
    BY <2>1 DEF Keeps, SameGoal
<1>5. IsList(D) /\ Typings(D, c.used) /\ Fine(c, D, Q, n)
  BY UndosTyped DEF ForeignOK, Running
<1> HIDE DEF Q, c, d, x, n, s, D, u
<1>6. s.op \notin {"CreateTunnel", "RestoreRecord", "RecreateRecord"}
  BY <1>3, PlannedIs
<1>7. Numbered(c)
  BY DEF c
<1>8. Gentle(c, d)
  BY <1>2, <1>3, <1>6, <1>7, CallGentle
<1>9. Fine(d, D, Q, n)
  BY <1>1, <1>2, <1>5, <1>8, FineStill
<1>10. Fine(d, done'[t], Q, n + 1)
  <2>1. CASE u = <<>>
    <3>1. DOMAIN Q \subseteq Nat /\ n \in Nat
      BY <1>2 DEF Shaped
    <3>2. \A h : Later(Q, n, h) => Later(Q, n + 1, h)
      BY <3>1 DEF Later
    <3> QED
      BY <1>4, <1>9, <2>1, <3>2 DEF Fine
  <2>2. CASE u # <<>>
    <3>1. /\ u[1].op # "UpdateRecord"
          /\ Watched(u[1]) => s.op \in RecordSteps /\ u[1].host = s.host /\ Finds(d, u[1])
      BY <1>2, <1>3, <1>6, <1>7, <2>2, NewUndo DEF u
    <3> QED
      BY <1>2, <1>3, <1>4, <1>5, <1>9, <2>2, <3>1, FineLonger
  <2> QED
    BY <2>1, <2>2
<1>11. ForeignOK(t)'
  BY <1>1, <1>2, <1>4, <1>8, <1>10, ForeignGoes DEF c, d
<1> QED
  BY <1>8, <1>11 DEF c, d

\* A tunnel that was created.
LEMMA ForeignCreates ==
  ASSUME Typed, NEW t \in Tasks, Under(t), start[t].used \subseteq account.used, SameGoal(t),
         pc[t] \in {"step", "put"}, at[t] \in DOMAIN Steps(t), Numbered(account), ForeignOK(t),
         Creates(t)
  PROVE  Gentle(account, account') /\ ForeignOK(t)'
<1>1. /\ account' \in Accounts /\ Mine(t)' \in Tunnels /\ account' = AddTunnel(account, Mine(t)')
      /\ done'[t] = Append(<<>>, Entry(1, DeleteTunnel(Mine(t)')))
  BY UnderCreates
<1>2. account \in Accounts /\ start[t] \in Accounts /\ start'[t] = start[t]
  BY DEF Typed, SameGoal
<1>3. account'.dns = account.dns /\ account'.made = account.made
  BY <1>1, <1>2 DEF AddTunnel, Accounts
<1>4. Gentle(account, account')
  <2>1. account.made <= account'.made
    BY <1>2, <1>3, AccountTypes
  <2> QED
    BY <1>1, <1>2, <1>3, <2>1, SameRecords
<1>5. Fine(account', done'[t], QOf(t)', at'[t])
  <2> DEFINE u == DeleteTunnel(Mine(t)')
             e == Entry(1, u)
             E == Append(<<>>, e)
  <2>1. e.undo = u /\ u.op = "DeleteTunnel"
    BY DEF Entry, DeleteTunnel
  <2>2. DOMAIN E = {1} /\ E[1] = e
    OBVIOUS
  <2> HIDE DEF e, u, E
  <2>3. \A q, p, n : Fine(q, E, p, n)
    BY <2>1, <2>2 DEF Fine, Watched
  <2> QED
    BY <1>1, <2>3 DEF E, e, u
<1> QED
  BY <1>1, <1>2, <1>4, <1>5, ForeignGoes

\* A call that failed, or whose answer was lost.
LEMMA ForeignFails ==
  ASSUME Typed, NEW t \in Tasks, Under(t), start[t].used \subseteq account.used, SameGoal(t),
         pc[t] \in {"step", "put"}, at[t] \in DOMAIN Steps(t), Numbered(account), ForeignOK(t),
         Fails(t)
  PROVE  Gentle(account, account') /\ ForeignOK(t)'
<1>1. QOf(t)' = QOf(t) /\ account' \in Accounts
  BY UnderFails
<1>2. account \in Accounts /\ start[t] \in Accounts /\ start'[t] = start[t]
  BY DEF Typed, SameGoal
<1>3. done'[t] = done[t] /\ at'[t] = at[t] /\ pc'[t] = "undo"
  BY DEF Fails
<1>4. Gentle(account, account')
  <2> DEFINE s == Current(t)
  <2>1. PICK M : Unheard(s, M)
    BY DEF Fails
  <2>2. CASE account' = account
    <3>1. Gentle(account, account)
      BY <1>2, GentleSame
    <3> QED
      BY <2>2, <3>1
  <2>3. CASE Accepts(account, s) /\ s.op # "CreateTunnel" /\ account' = PerformUnheard(account, s)
    <3>1. Mine(t) # None
      BY <2>3, PlanFacts
    <3>2. TypedStep(s, account.used) /\ Grounded(s, start[t], Mine(t))
      BY <3>1, CurrentTyped
    <3> HIDE DEF s
    <3>3. s.op \notin {"CreateTunnel", "RestoreRecord"}
      BY <2>3, <3>2, PlannedIs
    <3> QED
      BY <1>2, <2>3, <3>2, <3>3, CallGentle
  <2> QED
    BY <2>1, <2>2, <2>3 DEF Unheard
<1>5. Fine(account', done[t], QOf(t), at[t])
  <2>1. Typings(done[t], account.used) /\ Fine(account, done[t], QOf(t), at[t])
    BY UndosTyped DEF ForeignOK, Running
  <2> QED
    BY <1>1, <1>2, <1>4, <2>1, FineStill
<1> QED
  BY <1>1, <1>2, <1>3, <1>4, <1>5, ForeignGoes

\* An undo, which may hand a record back to whom it was taken from.
LEMMA ForeignUndoes ==
  ASSUME Typed, NEW t \in Tasks, Under(t), start[t].used \subseteq account.used, SameGoal(t),
         Numbered(account), ForeignOK(t), Undoes(t)
  PROVE  account.made <= account'.made /\ Numbered(account') /\ ForeignOK(t)'
<1> DEFINE Q == QOf(t)
           c == account
           d == account'
           D == done[t]
           u == LastUndo(t)
           n == at[t]
           E == SubSeq(D, 1, Len(D) - 1)
<1>1. /\ QOf(t)' = Q /\ d \in Accounts /\ TypedStep(u, c.used) /\ u.op # "CreateTunnel"
  BY UnderUndoes
<1>2. /\ D # <<>> /\ pc[t] = "undo" /\ pc'[t] = "undo" /\ at'[t] = n /\ done'[t] = E
      /\ start'[t] = start[t]
  BY DEF Undoes, SameGoal
<1>3. \/ Accepts(c, u) /\ d = Perform(c, u, None)
      \/ d = c
      \/ Accepts(c, u) /\ d = PerformUnheard(c, u)
  BY DEF Undoes
<1>4. c \in Accounts /\ start[t] \in Accounts /\ Numbered(c)
  BY DEF Typed
<1>5. IsList(D) /\ Typings(D, c.used) /\ Fine(c, D, Q, n)
  BY <1>2, UndosTyped DEF ForeignOK, Running
<1>u. u = D[Len(D)].undo
  BY DEF LastUndo
<1>s. start[t].made <= c.made /\ Numbered(start[t])
  BY DEF ForeignOK
<1> HIDE DEF Q, c, d, D, u, n, E
<1>6. Gentle(c, d) \/ (Watched(u) /\ GentleBut(c, d, u.host))
  <2>1. CASE d = c
    BY <1>4, <2>1, GentleSame
  <2>2. CASE d # c /\ u.op = "RestoreRecord"
    BY <1>1, <1>3, <1>4, <2>2, RestoreGentle DEF Watched
  <2>3. CASE d # c /\ u.op # "RestoreRecord"
    BY <1>1, <1>3, <1>4, <2>3, CallGentle
  <2> QED
    BY <2>1, <2>2, <2>3
<1>7. Fine(d, E, Q, n)
  BY <1>1, <1>2, <1>4, <1>5, <1>6, <1>u, FineShorter DEF E
<1>8. c.made <= d.made /\ Numbered(d)
  BY <1>6 DEF Gentle, GentleBut
<1>9. start[t].made <= d.made
  BY <1>1, <1>4, <1>8, <1>s, AccountTypes
<1>10. ForeignOK(t)'
  BY <1>1, <1>2, <1>7, <1>9, <1>s DEF ForeignOK, d
<1> QED
  BY <1>8, <1>10 DEF c, d

\* A task that waits, or is over, has nothing to find.
LEMMA ForeignRests ==
  ASSUME NEW t \in Tasks, ForeignOK(t), account \in Accounts, account' \in Accounts,
         start[t] \in Accounts, start'[t] = start[t], account.made <= account'.made,
         pc'[t] \notin Running
  PROVE  ForeignOK(t)'
<1>1. start[t].made <= account'.made
  BY AccountTypes DEF ForeignOK
<1>2. pc'[t] \notin {"step", "put"}
  BY DEF Running
<1> QED
  BY <1>1, <1>2 DEF ForeignOK

\* On an account that did not change, a task that did not either.
LEMMA ForeignStays ==
  ASSUME NEW u \in Tasks, ForeignOK(u), SameTask(u), account' = account
  PROVE  ForeignOK(u)'
<1>1. QOf(u)' = QOf(u)
  BY DEF SameTask, QOf, Mine
<1> QED
  BY <1>1 DEF ForeignOK, SameTask

\* A call leaves Teitunnel's records Teitunnel's, and what its task is to find.
LEMMA ForeignCalls ==
  ASSUME TypeInv, NEW t \in Tasks, Numbered(account), ForeignOK(t),
         Call(t) \/ ReadConfig(t) \/ WriteIngress(t)
  PROVE  Gentle(account, account') /\ ForeignOK(t)' /\ pc[t] \in Running
<1>1. Typed /\ TaskOK(t)
  BY DEF TypeInv
<1>2. /\ SameGoal(t) /\ pc[t] \in {"step", "put"}
      /\ pc[t] = "step" => at[t] <= Len(Steps(t))
      /\ Advances(t) \/ Creates(t) \/ Fails(t) \/ Puts(t)
  <2>1. CASE Call(t)
    BY <2>1, <1>1, CallIs DEF StepNow
  <2>2. CASE ReadConfig(t)
    BY <2>2, <1>1, ReadIs DEF StepNow
  <2>3. CASE WriteIngress(t)
    <3>1. pc[t] = "put" /\ Current(t).op = "PutConfig"
      BY <2>3, <1>1 DEF WriteIngress, TaskOK
    <3> QED
      BY <3>1, <2>3, <1>1, WriteIs
  <2> QED
    BY <2>1, <2>2, <2>3
<1>3. Under(t) /\ start[t].used \subseteq account.used /\ pc[t] \in Running
  BY <1>1, <1>2 DEF TaskOK, Begun, Running
<1>4. /\ DOMAIN Steps(t) = 1..Len(Steps(t)) /\ Len(Steps(t)) \in Nat /\ at[t] \in Nat \ {0}
  BY <1>1, <1>3, PlanFacts
<1>5. at[t] \in DOMAIN Steps(t)
  <2>1. CASE pc[t] = "step"
    BY <2>1, <1>2, <1>4
  <2>2. CASE pc[t] = "put"
    BY <2>2, <1>1 DEF TaskOK
  <2> QED
    BY <1>2, <2>1, <2>2
<1>6. CASE Advances(t)
  BY <1>1, <1>2, <1>3, <1>5, <1>6, ForeignAdvances
<1>7. CASE Creates(t)
  BY <1>1, <1>2, <1>3, <1>5, <1>7, ForeignCreates
<1>8. CASE Fails(t)
  BY <1>1, <1>2, <1>3, <1>5, <1>8, ForeignFails
<1>9. CASE Puts(t)
  <2>1. /\ pc'[t] = "put" /\ account' = account /\ at'[t] = at[t] /\ created'[t] = created[t]
        /\ done'[t] = done[t] /\ start'[t] = start[t]
    BY <1>2, <1>9 DEF Puts, SameGoal
  <2>2. QOf(t)' = QOf(t)
    BY <2>1, <1>2 DEF SameGoal, QOf, Mine
  <2>3. Gentle(account, account')
    <3>1. Gentle(account, account)
      BY <1>1, GentleSame DEF Typed
    <3> QED
      BY <2>1, <3>1
  <2>4. account \in Accounts /\ start[t] \in Accounts
    BY <1>1 DEF Typed
  <2> QED
    BY <2>1, <2>2, <2>3, <2>4, <1>2, <1>3, ForeignGoes DEF ForeignOK
<1> QED
  BY <1>2, <1>3, <1>6, <1>7, <1>8, <1>9

\* A task starts from the account that is there.
LEMMA ForeignBegins ==
  ASSUME TypeInv, NEW t \in Tasks, Numbered(account), Accept(t)
  PROVE  account' = account /\ ForeignOK(t)'
<1>1. account' = account /\ start'[t] = account /\ done'[t] = <<>>
  BY AcceptTask
<1>2. account.made <= account.made
  BY AccountTypes DEF TypeInv, Typed
<1>3. Guarded(account, account)
  BY DEF Guarded, OursAt
<1>4. \A c, q, n : Fine(c, <<>>, q, n)
  BY DEF Fine
<1> QED
  BY <1>1, <1>2, <1>3, <1>4 DEF ForeignOK

\* A task's step, what it makes of the account and of what the task is to find.
LEMMA ForeignTask ==
  ASSUME TypeInv, NEW t \in Tasks, Numbered(account), ForeignOK(t), Review(t) \/ Apply(t)
  PROVE  /\ account.made <= account'.made /\ Numbered(account') /\ ForeignOK(t)'
         /\ account' = account \/ pc[t] \in Running
<1>0. /\ Typed /\ TaskOK(t) /\ account \in Accounts /\ account' \in Accounts
      /\ start[t] \in Accounts /\ account.made <= account.made
  BY TaskStep, AccountTypes DEF TypeInv, Typed
<1>1. CASE Review(t) \/ TakeLock(t) \/ GiveUp(t)
  <2>1. /\ pc'[t] \notin Running /\ start'[t] = start[t] /\ account' = account
    BY <1>1, <1>0 DEF Review, TakeLock, GiveUp, Goto, Running, Typed, Phased, taskVars
  <2> QED
    BY <1>0, <2>1, ForeignRests
<1>2. CASE Accept(t)
  BY <1>0, <1>2, ForeignBegins
<1>3. CASE Call(t) \/ ReadConfig(t) \/ WriteIngress(t)
  <2>1. Gentle(account, account') /\ ForeignOK(t)' /\ pc[t] \in Running
    BY <1>3, ForeignCalls
  <2> QED
    BY <2>1 DEF Gentle, GentleBut
<1>4. CASE Finish(t)
  <2>1. pc[t] = "step" /\ pc'[t] = "applied" /\ start'[t] = start[t]
    BY <1>4, FinishIs DEF SameGoal
  <2>2. PICK R \in SUBSET Tunnels : account = [account' EXCEPT !.running = R]
    BY <1>4, FinishIs
  <2>3. account'.dns = account.dns /\ account'.made = account.made
    BY <1>0, <2>2 DEF Accounts
  <2>4. account.made <= account'.made /\ Numbered(account')
    BY <1>0, <2>3 DEF Numbered
  <2> QED
    BY <1>0, <2>1, <2>4, ForeignRests DEF Running
<1>5. CASE UndoLast(t)
  <2>1. SameGoal(t) /\ Undoes(t) /\ pc[t] = "undo"
    BY <1>0, <1>5, UndoLastIs DEF Undoes
  <2>2. Under(t) /\ start[t].used \subseteq account.used /\ pc[t] \in Running
    BY <1>0, <2>1 DEF TaskOK, Begun, Running
  <2> QED
    BY <1>0, <2>1, <2>2, ForeignUndoes
<1>6. CASE RolledBack(t)
  <2>1. account' = account /\ pc'[t] \in {"rolledBack", "partly"} /\ start'[t] = start[t]
    BY <1>6, RolledBackTask DEF SameGoal
  <2> QED
    BY <1>0, <2>1, ForeignRests DEF Running
<1> QED
  BY <1>1, <1>2, <1>3, <1>4, <1>5, <1>6 DEF Apply

\* What someone else does to a record makes none of Teitunnel's anybody else's under its
\* number.
LEMMA EditGentle ==
  ASSUME account \in Accounts, Numbered(account), EditRule \/ EditRecord
  PROVE  Gentle(account, account')
<1> DEFINE c == account
           d == account'
<1>0. c \in Accounts /\ d \in Accounts /\ c.made \in Nat
  BY EditAccount, AccountTypes
<1>1. CASE EditRule
  <2>1. d.dns = c.dns /\ d.made = c.made
    BY <1>0, <1>1 DEF EditRule, WriteConfig, Accounts
  <2> QED
    BY <1>0, <2>1, SameRecords
<1>2. CASE EditRecord
  <2>1. PICK h \in Hosts : account.dns[h] # None /\ EditOf(h)
    BY <1>2, EditIs
  <2> DEFINE r == c.dns[h]
  <2>2. r.id \in Nat /\ r.id <= c.made /\ NextId(c) > c.made
    BY <1>0, <2>1, AccountTypes DEF Records, Numbered, NextId
  <2>3. \/ \E q \in Records :
             /\ q.to \in {Elsewhere, Address} /\ d = PutRecord(c, h, q)
             /\ q.id = NextId(c) \/ (q.id = r.id /\ q.owned = r.owned)
        \/ d = DropRecord(c, h, r.id)
    BY <2>1 DEF EditOf
  <2> HIDE DEF c, d, r
  <2>n. Numbered(c)
    BY DEF c
  <2>4. ASSUME NEW q \in Records, q.to \in {Elsewhere, Address}, d = PutRecord(c, h, q),
               q.id = NextId(c)
        PROVE  Gentle(c, d)
    BY <1>0, <2>n, <2>2, <2>4, WrittenRecord
  <2>5. ASSUME NEW q \in Records, q.to \in {Elsewhere, Address}, d = PutRecord(c, h, q),
               q.id = r.id, q.owned = r.owned
        PROVE  Gentle(c, d)
    <3>1. GentleBut(c, d, h)
      BY <1>0, <2>n, <2>5, WrittenRecord
    <3>2. d.dns[h] = q
      BY <1>0, <2>5, RecordThere
    <3>3. \A m \in Nat : OursAt(c, h, m) => OursAt(d, h, m)
      BY <2>1, <2>5, <3>2 DEF OursAt, HasRecord, IsOwned, r, c
    <3>4. \A g \in Hosts, m \in Nat : m <= c.made /\ OursAt(c, g, m) => OursAt(d, g, m)
      BY <3>1, <3>3 DEF GentleBut
    <3>5. c.made <= d.made /\ Numbered(d)
      BY <3>1 DEF GentleBut
    <3> QED
      BY <3>4, <3>5 DEF Gentle, GentleBut
  <2>6. ASSUME d = DropRecord(c, h, r.id) PROVE Gentle(c, d)
    <3>1. d.dns = (IF HasRecord(c, h, r.id) THEN [c.dns EXCEPT ![h] = None] ELSE c.dns)
      BY <1>0, <2>2, <2>6, DropRecordIs
    <3>2. d.made = c.made
      BY <1>0, <2>6 DEF DropRecord, Accounts
    <3>3. \A g \in Hosts : d.dns[g] = None \/ d.dns[g] = c.dns[g]
      BY <1>0, <3>1, AccountTypes
    <3>4. Numbered(d)
      BY <2>n, <3>2, <3>3 DEF Numbered
    <3>5. \A g \in Hosts : \A m : OursAt(c, g, m) => OursAt(d, g, m)
      BY <3>3 DEF OursAt, HasRecord
    <3>6. c.made <= d.made
      BY <1>0, <3>2
    <3> QED
      BY <3>4, <3>5, <3>6 DEF Gentle, GentleBut
  <2> QED
    BY <2>3, <2>4, <2>5, <2>6 DEF c, d
<1> QED
  BY <1>1, <1>2

\* Whoever writes holds the lock, so nobody else is in the middle of a plan.
LEMMA ForeignStep == OneProcess /\ ForeignInv /\ [Next]_vars => ForeignInv'
<1> SUFFICES ASSUME OneProcess, ForeignInv, [Next]_vars
             PROVE  Numbered(account') /\ \A t \in Tasks : ForeignOK(t)'
  BY TypeStep, ReviewStep DEF ForeignInv
<1>0. /\ TypeInv /\ Typed /\ account \in Accounts /\ Numbered(account) /\ LockHeld
      /\ \A u \in Tasks : ForeignOK(u) /\ start[u] \in Accounts
  BY DEF ForeignInv, TypeInv, Typed, ReviewInv, LockInv
<1>a. account' \in Accounts
  BY TypeStep DEF ForeignInv, TypeInv, Typed
<1>1. ASSUME NEW t \in Tasks, Review(t) \/ Apply(t)
      PROVE  Numbered(account') /\ \A u \in Tasks : ForeignOK(u)'
  <2>1. /\ account.made <= account'.made /\ Numbered(account') /\ ForeignOK(t)'
        /\ account' = account \/ pc[t] \in Running
    BY <1>0, <1>1, ForeignTask
  <2>2. ASSUME NEW u \in Tasks, u # t PROVE ForeignOK(u)'
    <3>1. SameTask(u)
      BY <1>0, <1>1, <2>2, Others
    <3>2. CASE account' = account
      BY <1>0, <3>1, <3>2, ForeignStays
    <3>3. CASE pc[t] \in Running
      <4>1. lock[ProcOf[u]] = t
        BY <1>0, <3>3 DEF LockHeld, OneProcess, HoldsLock
      <4>2. pc'[u] \notin Running
        BY <1>0, <2>2, <3>1, <4>1 DEF LockHeld, HoldsLock, SameTask
      <4> QED
        BY <1>0, <1>a, <2>1, <3>1, <4>2, ForeignRests DEF SameTask
    <3> QED
      BY <2>1, <3>2, <3>3
  <2> QED
    BY <2>1, <2>2
<1>2. ASSUME NEW S \in SUBSET Tasks, Drop(S)
      PROVE  Numbered(account') /\ \A u \in Tasks : ForeignOK(u)'
  <2>1. ASSUME NEW u \in Tasks PROVE account' = account /\ ForeignOK(u)'
    <3>1. account' = account /\ account.made <= account.made
      BY <1>0, <1>2, AccountTypes DEF Drop
    <3>2. CASE SameTask(u)
      BY <1>0, <3>1, <3>2, ForeignStays
    <3>3. CASE ~SameTask(u)
      <4>1. pc'[u] = "dead" /\ start'[u] = start[u]
        BY <1>0, <1>2, <3>3, DropIs
      <4> QED
        BY <1>0, <3>1, <4>1, ForeignRests DEF Running
    <3> QED
      BY <3>1, <3>2, <3>3
  <2>2. account' = account
    BY <1>2 DEF Drop
  <2> QED
    BY <1>0, <2>1, <2>2
<1>3. CASE EditRule \/ EditRecord
  <2>1. Gentle(account, account')
    BY <1>0, <1>3, EditGentle
  <2>2. ASSUME NEW u \in Tasks PROVE ForeignOK(u)'
    <3>1. SameTask(u)
      BY <1>3 DEF EditRule, EditRecord, OutsideEdit, SameTask, taskVars
    <3>2. QOf(u)' = QOf(u)
      BY <3>1 DEF SameTask, QOf, Mine
    <3>3. pc[u] \in Running => Fine(account', done[u], QOf(u), at[u])
      <4> SUFFICES ASSUME pc[u] \in Running PROVE Fine(account', done[u], QOf(u), at[u])
        OBVIOUS
      <4>1. Under(u)
        BY <1>0 DEF TypeInv, TaskOK, Begun
      <4>2. Typings(done[u], account.used) /\ Fine(account, done[u], QOf(u), at[u])
        BY <1>0, <4>1, UndosTyped DEF ForeignOK
      <4> QED
        BY <1>0, <1>a, <2>1, <4>2, FineStill
    <3> QED
      BY <1>0, <1>a, <2>1, <3>1, <3>2, <3>3, ForeignGoes DEF SameTask
  <2> QED
    BY <2>1, <2>2 DEF Gentle, GentleBut
<1>4. CASE UNCHANGED vars
  <2>1. account' = account /\ \A u \in Tasks : SameTask(u)
    BY <1>4 DEF vars, SameTask, taskVars
  <2> QED
    BY <1>0, <2>1, ForeignStays
<1> QED
  BY <1>1, <1>2, <1>3, <1>4 DEF Next, Crash, Abandon

\* Nothing is done at the start.
LEMMA ForeignInit == Counted /\ Init => ForeignInv
<1> SUFFICES ASSUME Counted, Init PROVE ForeignInv
  OBVIOUS
<1>1. TypeInv /\ ReviewInv /\ account \in Accounts
  BY TypeInit, ReviewInit DEF TypeInv, Typed
<1>2. account.made <= account.made
  BY <1>1, AccountTypes
<1> QED
  BY <1>1, <1>2 DEF Init, Counted, ForeignInv, ForeignOK, Running

-----------------------------------------------------------------------------
(* A task that writes over a record of someone else's asked its user       *)

\* What a step writes over does not depend on its tunnel.
LEMMA ResolvedUpdate ==
  ASSUME NEW h, NEW y, NEW r, NEW x
  PROVE  Resolved(UpdateRecord(h, y, r), x).previous = r
  BY DEF Resolved, UpdateRecord

\* It writes over the record that was observed.
LEMMA UpdateIs ==
  ASSUME NEW s, NEW a, NEW x, Grounded(s, a, x), s.op = "UpdateRecord"
  PROVE  \E h \in Hosts : a.dns[h] # None /\ s = UpdateRecord(h, x, a.dns[h])
  BY DEF Grounded, CreateTunnel, Step, DeleteTunnel, StopConnector, PutConfig,
         CreateRecord, UpdateRecord, DeleteRecord, CreateApp, UpdateApp, DeleteApp

\* A step of a plan that writes over such a record is one the plan asks about.
LEMMA TakesAsked ==
  ASSUME Typed, NEW t \in Tasks, Under(t), Approved(t), at[t] \in DOMAIN Steps(t),
         Current(t).op = "UpdateRecord", ~IsOwned(Current(t).previous)
  PROVE  agreed[t]
<1> DEFINE n == at[t]
           i == intent[t]
           a == start[t]
           x == Mine(t)
           y == IF MyTunnel(a) = None THEN Created ELSE MyTunnel(a)
           P == Plan(i, Observe(i, a)).steps
           Q == QOf(t)
           st == P[n]
<1>1. /\ a \in Accounts /\ Reviewed(i, a) /\ snap[t] = Observe(i, a) /\ Steps(t) = P
      /\ n \in DOMAIN P /\ DOMAIN Q = DOMAIN P /\ Current(t) = Q[n]
  BY PlanFacts DEF Under
<1>2. MyTunnel(a) = None \/ x = MyTunnel(a)
  <2>1. snap[t].tunnel = MyTunnel(a)
    BY PlanFacts
  <2> QED
    BY <2>1 DEF Mine
<1>3. Q = Resolution(P, x)
  BY DEF QOf, PlanFrom
<1>4. Grounded(st, a, y)
  BY <1>1, PlanIs
<1>5. Q[n].op = st.op /\ Q[n] = Resolved(st, x) /\ st \in Range(P)
  <2>1. Q[n] = Resolved(st, x)
    BY <1>1, <1>3 DEF Resolution
  <2>2. st \in Range(P)
    BY <1>1 DEF Range
  <2> HIDE DEF y
  <2>3. Resolved(st, x).op = st.op
    BY <1>1, <1>2, <1>4, ResolvedStep DEF y
  <2> QED
    BY <2>1, <2>2, <2>3
<1> HIDE DEF y
<1>6. st.op = "UpdateRecord" /\ ~IsOwned(st.previous)
  <2>1. st.op = "UpdateRecord"
    BY <1>1, <1>5
  <2>2. PICK h \in Hosts : st = UpdateRecord(h, y, a.dns[h])
    BY <1>4, <2>1, UpdateIs
  <2>3. Q[n].previous = a.dns[h]
    BY <1>5, <2>2, ResolvedUpdate
  <2>4. st.previous = a.dns[h]
    BY <2>2 DEF UpdateRecord
  <2> QED
    BY <1>1, <2>1, <2>3, <2>4
<1>7. Plan(i, Observe(i, a)).confirm
  BY <1>1, <1>5, <1>6, ForeignAsks
<1> QED
  BY <1>1, <1>7 DEF Approved

\* A call that changes such a record is one the user agreed to.
LEMMA CallsAsked ==
  ASSUME TypeInv, NEW t \in Tasks, ForeignOK(t), Approved(t),
         Call(t) \/ ReadConfig(t) \/ WriteIngress(t),
         NEW h \in Hosts, account.dns[h] # None, ~IsOwned(account.dns[h]),
         account'.dns[h] # account.dns[h]
  PROVE  agreed[t]
<1>1. Typed /\ TaskOK(t)
  BY DEF TypeInv
<1>2. /\ SameGoal(t) /\ pc[t] \in {"step", "put"}
      /\ pc[t] = "step" => at[t] <= Len(Steps(t))
      /\ Advances(t) \/ Creates(t) \/ Fails(t) \/ Puts(t)
  <2>1. CASE Call(t)
    BY <2>1, <1>1, CallIs DEF StepNow
  <2>2. CASE ReadConfig(t)
    BY <2>2, <1>1, ReadIs DEF StepNow
  <2>3. CASE WriteIngress(t)
    <3>1. pc[t] = "put" /\ Current(t).op = "PutConfig"
      BY <2>3, <1>1 DEF WriteIngress, TaskOK
    <3> QED
      BY <3>1, <2>3, <1>1, WriteIs
  <2> QED
    BY <2>1, <2>2, <2>3
<1>3. Under(t) /\ start[t].used \subseteq account.used
  BY <1>1, <1>2 DEF TaskOK, Begun, Running
<1>4. /\ DOMAIN Steps(t) = 1..Len(Steps(t)) /\ Len(Steps(t)) \in Nat /\ at[t] \in Nat \ {0}
  BY <1>1, <1>3, PlanFacts
<1>5. at[t] \in DOMAIN Steps(t)
  <2>1. CASE pc[t] = "step"
    BY <2>1, <1>2, <1>4
  <2>2. CASE pc[t] = "put"
    BY <2>2, <1>1 DEF TaskOK
  <2> QED
    BY <1>2, <2>1, <2>2
<1> DEFINE s == Current(t)
<1>6. /\ Accepts(account, s) /\ s.op # "CreateTunnel"
      /\ account' = Perform(account, s, None) \/ account' = PerformUnheard(account, s)
  <2>1. ~Puts(t)
    BY DEF Puts
  <2>2. ~Creates(t)
    <3> SUFFICES ASSUME Creates(t) PROVE FALSE
      OBVIOUS
    <3>1. PICK x \in Tunnels \ account.used : account' = AddTunnel(account, x)
      BY DEF Creates
    <3>2. AddTunnel(account, x).dns = account.dns
      BY <1>1, AddTunnelIs DEF Typed
    <3> QED
      BY <3>1, <3>2
  <2>3. CASE Advances(t)
    BY <2>3 DEF Advances
  <2>4. CASE Fails(t)
    BY <2>4 DEF Fails, Unheard
  <2> QED
    BY <1>2, <2>1, <2>2, <2>3, <2>4
<1>7. Mine(t) # None
  BY <1>1, <1>3, <1>5, <1>6, PlanFacts
<1>8. TypedStep(s, account.used) /\ Grounded(s, start[t], Mine(t))
  BY <1>1, <1>3, <1>5, <1>7, CurrentTyped
<1>9. account \in Accounts /\ start[t] \in Accounts /\ Guarded(start[t], account)
  BY <1>1, <1>2 DEF Typed, ForeignOK
<1> HIDE DEF s
<1>10. /\ s.host = h
       /\ \/ s.op = "UpdateRecord" /\ HasRecord(account, h, s.previous.id)
          \/ Watched(s) /\ HasRecord(account, h, NumberOf(s))
  BY <1>6, <1>8, <1>9, CallTouches
<1>11. CASE Watched(s) /\ HasRecord(account, h, NumberOf(s))
  <2>1. s.op = "DeleteRecord"
    BY <1>8, <1>11, PlannedIs DEF Watched
  <2>2. PICK g \in Hosts : /\ start[t].dns[g] # None /\ start[t].dns[g].owned
                           /\ s = DeleteRecord(g, start[t].dns[g])
    BY <1>8, <2>1 DEF Grounded, CreateTunnel, Step, DeleteTunnel, StopConnector, PutConfig,
         CreateRecord, UpdateRecord, DeleteRecord, CreateApp, UpdateApp, DeleteApp
  <2>3. g = h /\ NumberOf(s) = start[t].dns[h].id
    BY <1>10, <2>2 DEF DeleteRecord, NumberOf
  <2>4. OursAt(account, h, start[t].dns[h].id)
    BY <1>9, <2>2, <2>3 DEF Guarded, IsOwned
  <2> QED
    BY <1>11, <2>3, <2>4 DEF OursAt
<1>12. CASE s.op = "UpdateRecord" /\ HasRecord(account, h, s.previous.id)
  <2>1. PICK g \in Hosts : /\ start[t].dns[g] # None
                           /\ s = UpdateRecord(g, Mine(t), start[t].dns[g])
    BY <1>8, <1>12, UpdateIs
  <2>2. g = h /\ s.previous = start[t].dns[h]
    BY <1>10, <2>1 DEF UpdateRecord
  <2>3. ~IsOwned(s.previous)
    BY <1>9, <1>12, <2>1, <2>2 DEF Guarded, OursAt
  <2> QED
    BY <1>1, <1>3, <1>5, <1>12, <2>3, TakesAsked DEF s
<1> QED
  BY <1>10, <1>11, <1>12

\* What an undo finds by its number is Teitunnel's.
LEMMA UndoesNone ==
  ASSUME TypeInv, NEW t \in Tasks, ForeignOK(t), UndoLast(t),
         NEW h \in Hosts, account.dns[h] # None, ~IsOwned(account.dns[h])
  PROVE  account'.dns[h] = account.dns[h]
<1> SUFFICES ASSUME account'.dns[h] # account.dns[h] PROVE FALSE
  OBVIOUS
<1>1. Typed /\ TaskOK(t) /\ account \in Accounts
  BY DEF TypeInv, Typed
<1>2. SameGoal(t) /\ Undoes(t) /\ pc[t] = "undo"
  BY <1>1, UndoLastIs DEF Undoes
<1>3. Under(t) /\ pc[t] \in Running
  BY <1>1, <1>2 DEF TaskOK, Begun, Running
<1> DEFINE u == LastUndo(t)
           D == done[t]
<1>4. TypedStep(u, account.used) /\ u.op # "CreateTunnel"
  BY <1>1, <1>2, <1>3, UnderUndoes
<1>5. /\ Accepts(account, u)
      /\ account' = Perform(account, u, None) \/ account' = PerformUnheard(account, u)
  BY <1>2 DEF Undoes
<1>6. Len(D) \in DOMAIN D /\ u = D[Len(D)].undo
  <2>1. IsList(D) /\ D # <<>>
    BY <1>2, <1>3, UndosTyped DEF Undoes
  <2> HIDE DEF D
  <2>2. Len(D) \in DOMAIN D
    BY <2>1, ButLastIs
  <2> QED
    BY <2>2 DEF D, LastUndo
<1>7. u.op # "UpdateRecord" /\ (Watched(u) => Finds(account, u))
  <2>1. Fine(account, D, QOf(t), at[t])
    BY <1>3 DEF ForeignOK
  <2> HIDE DEF u, D
  <2> QED
    BY <1>6, <2>1 DEF Fine
<1> HIDE DEF u
<1>8. u.host = h /\ Watched(u) /\ HasRecord(account, h, NumberOf(u))
  BY <1>1, <1>4, <1>5, <1>7, CallTouches
<1> QED
  BY <1>7, <1>8 DEF Finds, OursAt

\* So a task that changes one has its user's agreement.
LEMMA ForeignAsked ==
  ASSUME ForeignInv, [Next]_vars, NEW h \in Hosts, NEW t \in Tasks, account.dns[h] # None,
         ~IsOwned(account.dns[h]), account'.dns[h] # account.dns[h], Acts(t)
  PROVE  agreed[t]
<1>0. /\ TypeInv /\ Typed /\ account \in Accounts /\ ForeignOK(t)
      /\ pc[t] \in Running => Approved(t)
  BY DEF ForeignInv, TypeInv, Typed, ReviewInv
<1>1. \A u \in Tasks : SameTask(u) => u # t
  BY DEF SameTask, Acts
<1>2. ASSUME NEW u \in Tasks, Review(u) \/ Apply(u) PROVE agreed[t]
  <2>1. u = t
    BY <1>0, <1>1, <1>2, Others
  <2>2. ~Review(t) /\ ~TakeLock(t) /\ ~Accept(t) /\ ~GiveUp(t) /\ ~RolledBack(t)
    BY DEF Review, TakeLock, Accept, GiveUp, RolledBack
  <2>3. ~Finish(t)
    <3> SUFFICES ASSUME Finish(t) PROVE FALSE
      OBVIOUS
    <3>1. PICK R \in SUBSET Tunnels : account = [account' EXCEPT !.running = R]
      BY <1>0, FinishIs
    <3>2. account' \in Accounts
      BY <1>0, FinishIs
    <3> QED
      BY <3>1, <3>2 DEF Accounts
  <2>4. ~UndoLast(t)
    BY <1>0, UndoesNone
  <2>5. Call(t) \/ ReadConfig(t) \/ WriteIngress(t)
    BY <1>2, <2>1, <2>2, <2>3, <2>4 DEF Apply
  <2>6. pc[t] \in Running
    BY <2>5 DEF Call, ReadConfig, WriteIngress, StepNow, Running
  <2> QED
    BY <1>0, <2>5, <2>6, CallsAsked
<1>3. ASSUME NEW S \in SUBSET Tasks, Drop(S) PROVE FALSE
  BY <1>3 DEF Drop
<1>4. CASE EditRule \/ EditRecord
  <2>1. SameTask(t)
    BY <1>4 DEF EditRule, EditRecord, OutsideEdit, SameTask, taskVars
  <2> QED
    BY <1>1, <2>1
<1>5. CASE UNCHANGED vars
  BY <1>5 DEF vars
<1> QED
  BY <1>2, <1>3, <1>4, <1>5 DEF Next, Crash, Abandon

\* "Never overwritten silently" (ARCHITECTURE 4.3): within one process, whatever is called,
\* fails, is lost or edited, and wherever a task dies, a record that does not count as
\* Teitunnel's (is_owned) is changed, or made to count as its, by no call, and by no
\* rollback, of a task whose user did not confirm it.
THEOREM ForeignConfirmed == ASSUME OneProcess, Counted PROVE Spec => ForeignKept
<1>1. Init => ForeignInv
  BY ForeignInit
<1>2. ForeignInv /\ [Next]_vars => ForeignInv'
  BY ForeignStep
<1>3. ForeignInv /\ [Next]_vars =>
        [\A h \in Hosts, t \in Tasks :
           LET r == account.dns[h] IN
           r # None /\ ~r.owned /\ account'.dns[h] # r /\ Acts(t) => agreed[t]]_vars
  BY ForeignAsked DEF IsOwned
<1> QED
  BY <1>1, <1>2, <1>3, PTL DEF Spec, ForeignKept

-----------------------------------------------------------------------------
(* To its user a change is one step                                        *)

\* One task at most works on the account, and what is seen is what it started from.
SeenRight ==
  /\ \A t, u \in Tasks : pc[t] \in HoldsLock /\ pc[u] \in HoldsLock => t = u
  /\ \A t \in Tasks : pc[t] \in Running => Seen = start[t] /\ ~touched[t]
  /\ (\A t \in Tasks : pc[t] \notin Running) => Seen = account

\* So it is with one process and nobody else.
LEMMA SeenIs == QuietInv => SeenRight
<1> SUFFICES ASSUME QuietInv PROVE SeenRight
  OBVIOUS
<1>1. \A t, u \in Tasks : pc[t] \in HoldsLock /\ pc[u] \in HoldsLock => t = u
  BY DEF QuietInv, Alone, LockInv, LockHeld
<1>2. ASSUME NEW t \in Tasks, pc[t] \in Running PROVE Seen = start[t] /\ ~touched[t]
  <2> DEFINE c == CHOOSE u \in Tasks : pc[u] \in Running
  <2>1. c \in Tasks /\ pc[c] \in Running
    BY <1>2
  <2>2. c = t
    BY <2>1, <1>1, <1>2 DEF HoldsLock
  <2>3. Seen = start[c]
    BY <1>2 DEF Seen
  <2> QED
    BY <2>2, <2>3, <1>2 DEF QuietInv, Undisturbed
<1>3. ASSUME \A t \in Tasks : pc[t] \notin Running PROVE Seen = account
  BY <1>3 DEF Seen
<1> QED
  BY <1>1, <1>2, <1>3 DEF SeenRight

\* What the invariants say of a state that is reached.
Known ==
  /\ SafeInv /\ SeenRight
  /\ LeftoversAccount /\ AppliedConverges /\ NeverOpen

\* A step that shows nothing to who waits for the end of changes.
LEMMA Unseen ==
  ASSUME Known, Known', intent' = intent, NEW t \in Tasks,
         \/ pc[t] \in Running /\ pc'[t] \in Running /\ start'[t] = start[t]
         \/ (\A u \in Tasks : pc[u] \notin Running /\ pc'[u] \notin Running) /\ account' = account
         \/ (\A u \in Tasks : pc[u] \notin Running) /\ pc'[t] \in Running /\ start'[t] = account,
         \A u \in Tasks : \/ Awaited(u) /\ Awaited(u)'
                          \/ /\ ~Awaited(u) /\ ~Awaited(u)' /\ pc'[u] = pc[u]
                             /\ left'[u] = left[u] /\ unsure'[u] = unsure[u]
  PROVE  UNCHANGED Promise!vars
<1>1. Seen' = Seen
  BY DEF Known, SeenRight
<1>2. Outcomes' = Outcomes
  BY DEF Outcomes, Awaited
<1>3. Lists' = Lists /\ Unheards' = Unheards
  BY DEF Lists, Unheards, Awaited
<1> QED
  BY <1>1, <1>2, <1>3 DEF Promise!vars

\* The steps between a review and an outcome.
Inner(t) ==
  TakeLock(t) \/ Accept(t) \/ Call(t) \/ ReadConfig(t) \/ WriteIngress(t) \/ UndoLast(t)

\* They move a task along, and no outcome is seen.
LEMMA InnerIs ==
  ASSUME Typed, NEW t \in Tasks, Inner(t)
  PROVE  /\ intent' = intent /\ Awaited(t) /\ Awaited(t)'
         /\ \/ pc[t] \in Running /\ pc'[t] \in Running /\ start'[t] = start[t]
            \/ TakeLock(t)
            \/ pc[t] = "observe" /\ pc'[t] \in Running /\ start'[t] = account
<1> USE DEF Typed, Phased, Goto, taskVars, Awaited, Applying, HoldsLock, Running
<1>1. CASE TakeLock(t)
  BY <1>1 DEF TakeLock
<1>2. CASE Accept(t)
  BY <1>2 DEF Accept
<1>3. CASE Call(t)
  <2>1. pc[t] = "step" /\ pc'[t] \in {"step", "undo"} /\ start' = start /\ intent' = intent
    BY <1>3 DEF Call, StepNow, Answered, Failed
  <2> QED
    BY <2>1
<1>4. CASE ReadConfig(t)
  <2>1. pc[t] = "step" /\ pc'[t] \in {"put", "undo"} /\ start' = start /\ intent' = intent
    BY <1>4 DEF ReadConfig, StepNow, Failed
  <2> QED
    BY <2>1
<1>5. CASE WriteIngress(t)
  <2>1. pc[t] = "put" /\ pc'[t] \in {"step", "undo"} /\ start' = start /\ intent' = intent
    BY <1>5 DEF WriteIngress, Answered, Failed
  <2> QED
    BY <2>1
<1>6. CASE UndoLast(t)
  <2>1. pc[t] = "undo" /\ pc'[t] = "undo" /\ start' = start /\ intent' = intent
    BY <1>6 DEF UndoLast, Undone
  <2> QED
    BY <2>1
<1> QED
  BY <1>1, <1>2, <1>3, <1>4, <1>5, <1>6 DEF Inner

\* So they are nothing to who waits.
LEMMA InnerStep ==
  ASSUME Known, Known', NEW t \in Tasks, Inner(t)
  PROVE  UNCHANGED Promise!vars
<1>1. Typed /\ Apply(t)
  BY DEF Known, SafeInv, TypeInv, Inner, Apply
<1>2. /\ intent' = intent /\ Awaited(t) /\ Awaited(t)'
      /\ \/ pc[t] \in Running /\ pc'[t] \in Running /\ start'[t] = start[t]
         \/ TakeLock(t)
         \/ pc[t] = "observe" /\ pc'[t] \in Running /\ start'[t] = account
  BY <1>1, InnerIs
<1>3. \A u \in Tasks : u # t => SameTask(u)
  BY <1>1, Others
<1>4. \A u \in Tasks : \/ Awaited(u) /\ Awaited(u)'
                       \/ /\ ~Awaited(u) /\ ~Awaited(u)' /\ pc'[u] = pc[u]
                          /\ left'[u] = left[u] /\ unsure'[u] = unsure[u]
  BY <1>2, <1>3 DEF SameTask, Awaited
<1>5. CASE TakeLock(t)
  <2>1. account' = account /\ pc[t] = "queued" /\ pc'[t] = "observe"
    BY <1>1, <1>5 DEF TakeLock, Goto, Typed, Phased
  <2>2. \A u \in Tasks : pc'[u] \notin Running
    BY <2>1 DEF Known, SeenRight, HoldsLock, Running
  <2>3. \A u \in Tasks : pc[u] \notin Running
    BY <2>1, <2>2, <1>3 DEF SameTask, Running
  <2> QED
    BY <2>1, <2>2, <2>3, <1>2, <1>4, Unseen
<1>6. CASE pc[t] = "observe" /\ pc'[t] \in Running /\ start'[t] = account
  <2>1. \A u \in Tasks : pc[u] \notin Running
    BY <1>6 DEF Known, SeenRight, HoldsLock, Running
  <2> QED
    BY <1>6, <2>1, <1>2, <1>4, Unseen
<1>7. CASE pc[t] \in Running /\ pc'[t] \in Running /\ start'[t] = start[t]
  BY <1>7, <1>2, <1>4, Unseen
<1> QED
  BY <1>2, <1>5, <1>6, <1>7

\* A review is when a change is asked for.
LEMMA AskStep ==
  ASSUME Known, Known', NEW t \in Tasks, Review(t)
  PROVE  Promise!Ask(t)
<1>1. Typed /\ TaskOK(t)
  BY DEF Known, SafeInv, TypeInv
<1>2. PICK i \in AllIntents : intent' = [intent EXCEPT ![t] = i]
  BY EngineAssumption DEF Review
<1>3. /\ pc[t] = "idle" /\ pc' = [pc EXCEPT ![t] = "queued"]
      /\ account' = account /\ start' = start /\ left' = left /\ unsure' = unsure
  BY DEF Review, Goto
<1>4. Outcomes[t] = "idle" /\ Outcomes' = [Outcomes EXCEPT ![t] = "asked"]
  BY <1>1, <1>3 DEF Outcomes, Awaited, Applying, HoldsLock, Running, Typed, Phased
<1>5. left[t] = {} /\ unsure[t] = {}
  BY <1>1, <1>3 DEF TaskOK, Bare
<1>6. Lists' = Lists /\ Unheards' = Unheards
  BY <1>1, <1>3, <1>5
  DEF Lists, Unheards, Awaited, Applying, HoldsLock, Running, Typed, Phased
<1>7. Seen' = Seen
  <2>1. \A u \in Tasks : pc'[u] \in Running <=> pc[u] \in Running
    BY <1>1, <1>3 DEF Running, Typed, Phased
  <2> QED
    BY <1>3, <2>1 DEF Known, SeenRight
<1> QED
  BY <1>2, <1>4, <1>6, <1>7 DEF Promise!Ask

\* One task at most works on the account, so one that ends leaves it to nobody.
LEMMA Alike ==
  ASSUME Known, Known', NEW t \in Tasks, pc[t] \in HoldsLock, pc'[t] \notin Running,
         \A u \in Tasks : u # t => SameTask(u)
  PROVE  /\ Seen' = account'
         /\ pc[t] \in Running => Seen = start[t] /\ ~touched[t]
         /\ pc[t] = "observe" => Seen = account
<1>1. \A u \in Tasks : u # t => pc[u] \notin HoldsLock /\ pc'[u] \notin HoldsLock
  BY DEF Known, SeenRight, SameTask, HoldsLock
<1> QED
  BY <1>1 DEF Known, SeenRight, HoldsLock, Running

\* A change that is over, and the others as they were.
LEMMA OverIs ==
  ASSUME Typed, Typed', NEW t \in Tasks, Awaited(t), ~Awaited(t)', intent' = intent,
         \A u \in Tasks : u # t => SameTask(u)
  PROVE  /\ Promise!Ends(t, pc'[t])
         /\ Lists[t] = {} /\ Unheards[t] = {}
         /\ Lists'[t] = left'[t] /\ Unheards'[t] = unsure'[t]
         /\ left'[t] = {} /\ unsure'[t] = {} => Lists' = Lists /\ Unheards' = Unheards
<1>1. Outcomes[t] = "asked" /\ Outcomes' = [Outcomes EXCEPT ![t] = pc'[t]]
  BY DEF Outcomes, Awaited, SameTask
<1>2. \A u \in Tasks \ {t} : Lists'[u] = Lists[u] /\ Unheards'[u] = Unheards[u]
  BY DEF Lists, Unheards, Awaited, SameTask
<1>3. /\ Lists[t] = {} /\ Unheards[t] = {}
      /\ Lists'[t] = left'[t] /\ Unheards'[t] = unsure'[t]
  BY DEF Lists, Unheards, Awaited
<1>4. left'[t] = {} /\ unsure'[t] = {} => Lists' = Lists /\ Unheards' = Unheards
  BY DEF Lists, Unheards, Awaited, SameTask
<1> QED
  BY <1>1, <1>2, <1>3, <1>4 DEF Promise!Ends

\* A change that is given up before it began is refused.
LEMMA RefuseStep ==
  ASSUME Known, Known', NEW t \in Tasks, GiveUp(t)
  PROVE  Promise!Refuse(t)
<1>1. Typed /\ Typed' /\ TaskOK(t) /\ Apply(t)
  BY DEF Known, SafeInv, TypeInv, Apply
<1>2. /\ pc[t] = "observe" /\ pc' = [pc EXCEPT ![t] = "refused"]
      /\ account' = account /\ left' = left /\ unsure' = unsure /\ intent' = intent
  BY DEF GiveUp, Goto, taskVars
<1>3. \A u \in Tasks : u # t => SameTask(u)
  BY <1>1, Others
<1>4. /\ pc'[t] = "refused" /\ Awaited(t) /\ ~Awaited(t)'
      /\ left'[t] = {} /\ unsure'[t] = {}
  BY <1>1, <1>2 DEF TaskOK, Bare, Awaited, Applying, HoldsLock, Running, Typed, Phased
<1>5. Promise!Ends(t, "refused") /\ Lists' = Lists /\ Unheards' = Unheards
  BY <1>1, <1>2, <1>3, <1>4, OverIs
<1>6. Seen' = Seen
  BY <1>2, <1>3, <1>4, Alike DEF HoldsLock, Running
<1> QED
  BY <1>5, <1>6 DEF Promise!Refuse

\* A change that is over has its logins, unless it says that it may lack some.
LEMMA ShelteredIs ==
  ASSUME Known', NEW t \in Tasks, intent' = intent, Seen = start'[t], Seen' = account',
         ~touched'[t], pc'[t] \in {"applied", "rolledBack", "partly", "dead"},
         Lists'[t] = left'[t], Unheards'[t] = unsure'[t]
  PROVE  Promise!Sheltered(t)
  BY DEF Known, NeverOpen, Open, Promise!Sheltered

\* A change that is applied is there.
LEMMA ApplyStep ==
  ASSUME Known, Known', NEW t \in Tasks, Finish(t)
  PROVE  Promise!Apply(t)
<1>1. Typed /\ Typed' /\ TaskOK(t) /\ Apply(t)
  BY DEF Known, SafeInv, TypeInv, Apply
<1>2. /\ pc[t] = "step" /\ pc' = [pc EXCEPT ![t] = "applied"] /\ WrittenBy(t)
      /\ left' = left /\ unsure' = unsure /\ intent' = intent /\ start' = start
  BY DEF Finish, Goto, taskVars
<1>3. \A u \in Tasks : u # t => SameTask(u)
  BY <1>1, Others
<1>4. /\ pc'[t] = "applied" /\ Awaited(t) /\ ~Awaited(t)' /\ pc[t] \in Running
      /\ left'[t] = {} /\ unsure'[t] = {} /\ touched'[t] = touched[t]
  BY <1>1, <1>2
  DEF TaskOK, Awaited, Applying, HoldsLock, Running, Typed, Phased, WrittenBy
<1>5. /\ Promise!Ends(t, "applied") /\ Lists' = Lists /\ Unheards' = Unheards
      /\ Lists'[t] = left'[t] /\ Unheards'[t] = unsure'[t]
  BY <1>1, <1>2, <1>3, <1>4, OverIs
<1>6. Seen = start'[t] /\ ~touched'[t] /\ Seen' = account'
  BY <1>2, <1>3, <1>4, Alike DEF HoldsLock, Running
<1>7. Reached(intent[t], Seen, Seen')
  BY <1>2, <1>4, <1>6 DEF Known, AppliedConverges
<1>8. Promise!Sheltered(t)
  BY <1>2, <1>4, <1>5, <1>6, ShelteredIs
<1> QED
  BY <1>5, <1>7, <1>8 DEF Promise!Apply

\* A change that failed is taken back but for what it lists.
LEMMA TakeBackStep ==
  ASSUME Known, Known', NEW t \in Tasks, RolledBack(t)
  PROVE  Promise!TakeBack(t)
<1>1. Typed /\ Typed' /\ Apply(t)
  BY DEF Known, SafeInv, TypeInv, Apply
<1>2. /\ pc[t] = "undo"
      /\ pc' = [pc EXCEPT ![t] = IF left[t] = {} THEN "rolledBack" ELSE "partly"]
      /\ left' = left /\ unsure' = unsure /\ intent' = intent /\ start' = start
      /\ touched' = touched
  BY DEF RolledBack, Goto, taskVars
<1>3. \A u \in Tasks : u # t => SameTask(u)
  BY <1>1, Others
<1>4. /\ pc'[t] = (IF left'[t] = {} THEN "rolledBack" ELSE "partly")
      /\ pc'[t] \in {"rolledBack", "partly"}
      /\ Awaited(t) /\ ~Awaited(t)' /\ pc[t] \in Running
  BY <1>1, <1>2 DEF Awaited, Applying, HoldsLock, Running, Typed, Phased
<1>5. /\ Promise!Ends(t, pc'[t]) /\ Lists'[t] = left'[t] /\ Unheards'[t] = unsure'[t]
  BY <1>1, <1>2, <1>3, <1>4, OverIs
<1>6. Seen = start'[t] /\ ~touched'[t] /\ Seen' = account'
  BY <1>2, <1>3, <1>4, Alike DEF HoldsLock, Running
<1>7. Changes(Seen, Seen') \subseteq Lists'[t] \cup Unheards'[t] \cup Unlisted(Seen)
  BY <1>4, <1>5, <1>6 DEF Known, LeftoversAccount
<1>8. Promise!Sheltered(t)
  BY <1>2, <1>4, <1>5, <1>6, ShelteredIs
<1>9. Promise!Ends(t, IF Lists'[t] = {} THEN "rolledBack" ELSE "partly")
  BY <1>4, <1>5
<1> QED
  BY <1>7, <1>8, <1>9 DEF Promise!TakeBack

\* Where tasks die, the one that had begun leaves no route without its login.
LEMMA DieStep ==
  ASSUME Known, Known', NEW S \in SUBSET Tasks, Drop(S)
  PROVE  Promise!Die
<1>1. Typed /\ Typed'
  BY DEF Known, SafeInv, TypeInv
<1>2. /\ account' = account /\ touched' = touched
      /\ left' = left /\ unsure' = unsure /\ intent' = intent /\ start' = start
      /\ pc' = [t \in Tasks |-> IF t \in S /\ pc[t] \in Applying THEN "dead" ELSE pc[t]]
  BY DEF Drop, taskVars
<1>3. PICK v \in S : pc[v] \in Applying
  BY DEF Drop
<1>4. \A t \in Tasks :
        /\ Outcomes[t] = (IF pc[t] \in Applying THEN "asked" ELSE pc[t])
        /\ Outcomes'[t] = (IF pc'[t] \in Applying THEN "asked" ELSE pc'[t])
        /\ Lists[t] = (IF pc[t] \in Applying THEN {} ELSE left[t])
        /\ Lists'[t] = (IF pc'[t] \in Applying THEN {} ELSE left'[t])
        /\ Unheards[t] = (IF pc[t] \in Applying THEN {} ELSE unsure[t])
        /\ Unheards'[t] = (IF pc'[t] \in Applying THEN {} ELSE unsure'[t])
  BY DEF Outcomes, Lists, Unheards, Awaited
<1>5. \A t \in Tasks : \/ t \in S /\ pc[t] \in Applying /\ pc'[t] = "dead"
                       \/ pc'[t] = pc[t]
  BY <1>2
<1>6. "dead" \notin Applying /\ "asked" # "dead"
  BY DEF Applying, HoldsLock, Running
<1>7. Outcomes' # Outcomes
  BY <1>3, <1>4, <1>2, <1>6
<1>8. \A t \in Tasks : Outcomes'[t] # Outcomes[t] => Outcomes[t] = "asked" /\ Outcomes'[t] = "dead"
  BY <1>4, <1>5, <1>6
<1>9. \A t \in Tasks : Outcomes'[t] = Outcomes[t] =>
        Lists'[t] = Lists[t] /\ Unheards'[t] = Unheards[t]
  BY <1>2, <1>4, <1>5, <1>6
<1>10. Seen' = Seen \/ \E t \in Tasks : Outcomes'[t] # Outcomes[t] /\ Promise!Sheltered(t)
  <2>1. ASSUME NEW t \in Tasks, pc[t] \in Running, pc'[t] # pc[t]
        PROVE  Outcomes'[t] # Outcomes[t] /\ Promise!Sheltered(t)
    <3>1. pc'[t] = "dead" /\ pc[t] \in Applying
      BY <1>5, <2>1
    <3>2. Outcomes'[t] # Outcomes[t] /\ Lists'[t] = left'[t] /\ Unheards'[t] = unsure'[t]
      BY <1>4, <1>6, <3>1
    <3>3. \A u \in Tasks : pc'[u] \notin Running
      BY <1>5, <2>1, <3>1 DEF Known, SeenRight, HoldsLock, Running
    <3>4. Seen = start'[t] /\ ~touched'[t] /\ Seen' = account'
      BY <1>2, <2>1, <3>3 DEF Known, SeenRight
    <3> QED
      BY <1>2, <3>1, <3>2, <3>4, ShelteredIs
  <2>2. CASE \A t \in Tasks : pc[t] \in Running => pc'[t] = pc[t]
    <3>1. \A t \in Tasks : pc'[t] \in Running <=> pc[t] \in Running
      BY <1>5, <2>2 DEF Running
    <3> QED
      BY <1>2, <3>1 DEF Known, SeenRight
  <2> QED
    BY <2>1, <2>2
<1> QED
  BY <1>2, <1>7, <1>8, <1>9, <1>10 DEF Promise!Die

\* An account starts as an account, with nothing asked for.
LEMMA PromiseInit == Init => Promise!Init
<1> SUFFICES ASSUME Init PROVE Promise!Init
  OBVIOUS
<1>1. /\ account \in Accounts /\ intent = [t \in Tasks |-> None]
      /\ \A t \in Tasks : pc[t] = "idle" /\ left[t] = {} /\ unsure[t] = {}
  BY EngineAssumption DEF Init
<1>2. Seen = account
  BY <1>1 DEF Seen, Running
<1>3. Outcomes = [t \in Tasks |-> "idle"]
  BY <1>1 DEF Outcomes, Awaited, Applying, HoldsLock, Running
<1>4. Lists = [t \in Tasks |-> {}] /\ Unheards = [t \in Tasks |-> {}]
  BY <1>1 DEF Lists, Unheards, Awaited
<1> QED
  BY <1>1, <1>2, <1>3, <1>4 DEF Promise!Init

\* Every step of the engine is one of the promise, or shows nothing.
LEMMA PromiseStep ==
  ASSUME Known, Known', Alone, edits \in Nat, [Next]_vars
  PROVE  [Promise!Next]_(Promise!vars)
<1>1. ASSUME NEW t \in Tasks, Review(t) PROVE Promise!Next
  BY <1>1, AskStep DEF Promise!Next
<1>2. ASSUME NEW t \in Tasks, Apply(t) PROVE Promise!Next \/ UNCHANGED Promise!vars
  <2>1. CASE Inner(t)
    BY <2>1, InnerStep
  <2>2. CASE GiveUp(t)
    BY <2>2, RefuseStep DEF Promise!Next
  <2>3. CASE Finish(t)
    BY <2>3, ApplyStep DEF Promise!Next
  <2>4. CASE RolledBack(t)
    BY <2>4, TakeBackStep DEF Promise!Next
  <2> QED
    BY <1>2, <2>1, <2>2, <2>3, <2>4 DEF Apply, Inner
<1>3. ASSUME NEW S \in SUBSET Tasks, Drop(S) PROVE Promise!Next
  BY <1>3, DieStep DEF Promise!Next
<1>4. ~EditRule /\ ~EditRecord
  <2>1. edits < MaxEdits => FALSE
    BY DEF Alone
  <2> QED
    BY <2>1 DEF EditRule, EditRecord, OutsideEdit
<1>5. CASE UNCHANGED vars
  <2>1. UNCHANGED Promise!vars
    BY <1>5 DEF vars, taskVars, Promise!vars, Seen, Outcomes, Lists, Unheards, Awaited
  <2> QED
    BY <2>1
<1> QED
  BY <1>1, <1>2, <1>3, <1>4, <1>5 DEF Next, Crash, Abandon

\* Within one process, and with nobody else at the account, a change is one step to its
\* user: all of it, or nothing but what it lists and what the code never lists (Unlisted, in
\* Planner), however its calls, its rollback and crashes fall.
THEOREM KeepsItsPromise == Alone => (Spec => Implements)
<1>1. SafeInv /\ QuietInv => Known
  BY SeenIs, ListedIsLeft, Converges, StayClosed DEF Known
<1>2. Alone /\ Init => Promise!Init /\ SafeInv /\ QuietInv
  <2> SUFFICES ASSUME Alone, Init PROVE Promise!Init /\ SafeInv /\ QuietInv
    OBVIOUS
  <2> QED
    BY PromiseInit, SafeInit, LockInit, SMT DEF Init, QuietInv, Undisturbed, Running
<1>3. SafeInv /\ QuietInv /\ [Next]_vars => SafeInv' /\ QuietInv'
  BY RunStep, QuietStep
<1>4. QuietInv /\ Known /\ Known' /\ [Next]_vars => [Promise!Next]_(Promise!vars)
  <2> SUFFICES ASSUME QuietInv, Known, Known', [Next]_vars PROVE [Promise!Next]_(Promise!vars)
    OBVIOUS
  <2> QED
    BY PromiseStep DEF QuietInv
<1> QED
  BY <1>1, <1>2, <1>3, <1>4, PTL DEF Spec, Implements, Promise!Spec
===============================================================================
