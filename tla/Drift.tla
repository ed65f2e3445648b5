-------------------------------- MODULE Drift --------------------------------
(***************************************************************************)
(* Drift (engine/drift.rs, and of engine/executor.rs what reads and writes *)
(* the baseline): what Teitunnel last wrote to a tunnel is kept in the     *)
(* local database, and a configuration of a higher version with other      *)
(* routes is shown as an outside edit, to keep or to restore.              *)
(*                                                                         *)
(* A check reads the database, Cloudflare, and the database again, and     *)
(* writes an edit that moves no route into the baseline; it holds no lock. *)
(* Applies and Keep hold their process's lock of the account.  Everyone    *)
(* else edits when they like.                                              *)
(*                                                                         *)
(* One tunnel, which is there.  Of a plan only its PutConfig is here, with *)
(* the steps after it as one that may fail (Rest); Engine has the others.  *)
(***************************************************************************)
EXTENDS Naturals, FiniteSets

CONSTANTS
  Keys,        \* the hostnames, with their paths, a rule may be for
  Services,    \* what a rule may forward to, with its options
  Tasks,       \* calls of the app and of the CLI
  Procs,       \* processes, each with an Engine and its locks
  ProcOf,      \* the process of each task
  MaxVersion,  \* bound: the version of the configuration
  None         \* no rule, no call, no version

ASSUME DriftAssumption ==
  /\ ProcOf \in [Tasks -> Procs]
  /\ MaxVersion \in Nat
  /\ None \notin Services \cup Tasks \cup Nat

VARIABLES
  config,  \* Cloudflare's version and rules
  row,     \* last_applied_version and last_applied_ingress
  lock,    \* the task that holds each process's lock of the account
  op,      \* the call each task is in
  shown,   \* the outside edit that is on the screen
  mine,    \* history: what Teitunnel wrote last, or what its user, shown it, kept
  odd      \* history: what the properties make an exception of

vars == <<config, row, lock, op, shown, mine, odd>>

\* Rules other than those of a hostname (the catch-all) are part of the version only.
Rules   == [Keys -> Services \cup {None}]
Configs == [version : Nat, rules : Rules]
Unset   == [version |-> 0, rules |-> [k \in Keys |-> None]]
Never   == [version |-> None, rules |-> Unset.rules]
Rows    == Configs \cup {Never}

Checking == {"config", "ours", "adopt"}
Locked   == {"keep", "observe", "read", "put", "record", "rest"}
Calls ==
  [kind : {"show", "keep", "restore", "change"},
   at : Checking \cup Locked \cup {"lock", "review", "queued"},
   base : Rows,      \* the baseline as the call read it
   clicked : Rows,   \* what was on the screen when it began
   seen : Configs,   \* the configuration as it read it
   want : Rules,     \* what it writes
   wrote : Configs,  \* what it wrote
   undo : BOOLEAN]   \* whether it rolls back

ASSUME NoneAssumption == None \notin Calls

TypeOK ==
  /\ config \in Configs
  /\ row \in Rows
  /\ lock \in [Procs -> Tasks \cup {None}]
  /\ op \in [Tasks -> Calls \cup {None}]
  /\ shown \in Rows
  /\ mine \in Rows
  /\ odd \subseteq {"stale", "unshown", "unrecorded"}

\* A tunnel of this computer that Teitunnel has written to, or has only adopted.
Init ==
  /\ config \in {Unset} \cup [version : {1}, rules : Rules]
  /\ row \in {Never} \cup (IF config = Unset THEN {} ELSE {config})
  /\ lock = [p \in Procs |-> None]
  /\ op = [t \in Tasks |-> None]
  /\ shown = Never
  /\ mine = row
  /\ odd = {}

\* diff()
Diff(ours, theirs) == {k \in Keys : ours[k] # theirs[k]}

At(t, place) == op[t] # None /\ op[t].at = place
Goto(t, place) == op' = [op EXCEPT ![t].at = place]
End(t) == op' = [op EXCEPT ![t] = None]
Unlock(t) == lock' = [lock EXCEPT ![ProcOf[t]] = None]
Oddly(what, when) == odd' = IF when THEN odd \cup {what} ELSE odd
\* The database has been written since the call read it.
Stale(t) == row # op[t].base

-----------------------------------------------------------------------------
(* drift(): a check, for the screen, for Keep or for Restore               *)

\* The database's version, without which there is nothing to compare. The button of
\* Keep or Restore is there when an edit is shown.
Check(t, kind) ==
  /\ op[t] = None
  /\ row # Never
  /\ kind = "show" \/ shown # Never
  /\ op' = [op EXCEPT ![t] =
       [kind |-> kind, at |-> "config", base |-> row, clicked |-> shown, seen |-> Unset,
        want |-> Unset.rules, wrote |-> Unset, undo |-> FALSE]]
  /\ UNCHANGED <<config, row, lock, shown, mine, odd>>

NoDrift(t) ==
  /\ End(t)
  /\ shown' = IF op[t].kind = "show" THEN Never ELSE shown

\* Cloudflare's answer, if there is one.
ReadConfig(t) ==
  /\ At(t, "config")
  /\ \/ config.version <= op[t].base.version /\ NoDrift(t)
     \/ /\ config.version > op[t].base.version
        /\ op' = [op EXCEPT ![t].seen = config, ![t].at = "ours"]
        /\ UNCHANGED shown
     \/ End(t) /\ UNCHANGED shown
  /\ UNCHANGED <<config, row, lock, mine, odd>>

\* What is done with an edit: shown, adopted, or put right.
Found(t) ==
  LET read == [op[t] EXCEPT !.base.rules = row.rules] IN
  CASE op[t].kind = "show"    -> End(t) /\ shown' = op[t].seen
    [] op[t].kind = "keep"    -> /\ op' = [op EXCEPT ![t] = [read EXCEPT !.at = "lock"]]
                                 /\ UNCHANGED shown
    [] op[t].kind = "restore" -> /\ op' = [op EXCEPT ![t] =
                                      [read EXCEPT !.at = "review", !.want = row.rules]]
                                 /\ UNCHANGED shown

\* MUTANT of ReadOurs: only rules that Teitunnel wrote are compared.
ReadOursOnly(t) ==
  /\ At(t, "ours")
  /\ IF {k \in Diff(row.rules, op[t].seen.rules) : row.rules[k] # None} = {}
     THEN op' = [op EXCEPT ![t].at = "adopt", ![t].base.rules = row.rules] /\ UNCHANGED shown
     ELSE Found(t)
  /\ UNCHANGED <<config, row, lock, mine, odd>>

\* The database's rules, read only now.
ReadOurs(t) ==
  /\ At(t, "ours")
  /\ IF Diff(row.rules, op[t].seen.rules) = {}
     THEN op' = [op EXCEPT ![t].at = "adopt", ![t].base.rules = row.rules] /\ UNCHANGED shown
     ELSE Found(t)
  /\ UNCHANGED <<config, row, lock, mine, odd>>

\* An edit that moves no route becomes the baseline, whatever that is by now.
Adopt(t) ==
  /\ At(t, "adopt")
  /\ row' = op[t].seen
  /\ NoDrift(t)
  /\ Oddly("stale", Stale(t))
  /\ UNCHANGED <<config, lock, mine>>

-----------------------------------------------------------------------------
(* keep_theirs() and apply(), under the lock                               *)

TakeLock(t) ==
  /\ At(t, "lock") \/ At(t, "queued")
  /\ lock[ProcOf[t]] = None
  /\ lock' = [lock EXCEPT ![ProcOf[t]] = t]
  /\ Goto(t, IF op[t].at = "lock" THEN "keep" ELSE "observe")
  /\ UNCHANGED <<config, row, shown, mine, odd>>

\* What its check found becomes the baseline. Its user has kept what was on the screen.
Keep(t) ==
  LET call == op[t] IN
  /\ At(t, "keep")
  /\ row' = call.seen
  /\ mine' = [version |-> call.seen.version, rules |-> call.clicked.rules]
  /\ odd' = odd \cup (IF Stale(t) THEN {"stale"} ELSE {})
                \cup (IF call.clicked.rules # call.seen.rules THEN {"unshown"} ELSE {})
  /\ Unlock(t) /\ End(t)
  /\ UNCHANGED <<config, shown>>

\* A reviewed change of one route.
Change(t) ==
  /\ op[t] = None
  /\ \E k \in Keys, s \in Services \cup {None} :
       /\ s # config.rules[k]
       /\ op' = [op EXCEPT ![t] =
            [kind |-> "change", at |-> "queued", base |-> Never, clicked |-> Never,
             seen |-> config, want |-> [config.rules EXCEPT ![k] = s], wrote |-> Unset,
             undo |-> FALSE]]
  /\ UNCHANGED <<config, row, lock, shown, mine, odd>>

\* The review of a restore. There may be nothing left to put back. (The app derives the
\* restore again when it is applied; one that differs from the reviewed is refused.)
Review(t) ==
  /\ At(t, "review")
  /\ \/ op' = [op EXCEPT ![t].seen = config, ![t].at = "queued"]
     \/ op[t].want = config.rules /\ End(t)
  /\ UNCHANGED <<config, row, lock, shown, mine, odd>>

\* The second observation: as reviewed, or the plan is stale; or it fails.
Observe(t) ==
  /\ At(t, "observe")
  /\ \/ config = op[t].seen /\ Goto(t, "read") /\ UNCHANGED lock
     \/ End(t) /\ Unlock(t)
  /\ UNCHANGED <<config, row, shown, mine, odd>>

\* put_ingress reads the version, which an undo does not compare, ...
ReadVersion(t) ==
  /\ At(t, "read")
  /\ \/ /\ op[t].undo \/ config.version = op[t].seen.version
        /\ Goto(t, "put") /\ UNCHANGED lock
     \/ End(t) /\ Unlock(t)
  /\ UNCHANGED <<config, row, shown, mine, odd>>

\* ... writes the whole of it, which may fail, or be done and not heard of, ...
Put(t) ==
  LET new == [version |-> config.version + 1, rules |-> op[t].want] IN
  /\ At(t, "put")
  /\ \/ /\ config.version < MaxVersion
        /\ config' = new /\ mine' = new
        /\ \/ /\ op' = [op EXCEPT ![t].wrote = new, ![t].at = "record"]
              /\ UNCHANGED <<lock, odd>>
           \/ End(t) /\ Unlock(t) /\ Oddly("unrecorded", TRUE)
     \/ End(t) /\ Unlock(t) /\ UNCHANGED <<config, mine, odd>>
  /\ UNCHANGED <<row, shown>>

\* ... and then records it. An error of the database is only logged.
Record(t) ==
  /\ At(t, "record")
  /\ \/ row' = op[t].wrote /\ Oddly("stale", mine # op[t].wrote)
     \/ UNCHANGED row /\ Oddly("unrecorded", TRUE)
  /\ Goto(t, "rest")
  /\ UNCHANGED <<config, lock, shown, mine>>

\* The steps after it: done, or one failed and the configuration is put back, unless
\* there was none.
Rest(t) ==
  /\ At(t, "rest")
  /\ \/ /\ ~op[t].undo /\ op[t].seen # Unset
        /\ op' = [op EXCEPT ![t].undo = TRUE, ![t].want = op[t].seen.rules, ![t].at = "read"]
        /\ UNCHANGED lock
     \/ End(t) /\ Unlock(t)
  /\ UNCHANGED <<config, row, shown, mine, odd>>

-----------------------------------------------------------------------------
(* The rest of the world                                                   *)

\* The process dies, or a change asked for over the control connection is dropped; with
\* it goes the lock.
Drop(t) ==
  /\ op[t] # None
  /\ Oddly("unrecorded", At(t, "record"))
  /\ IF op[t].at \in Locked THEN Unlock(t) ELSE UNCHANGED lock
  /\ End(t)
  /\ UNCHANGED <<config, row, shown, mine>>

\* Someone edits the configuration elsewhere: a route, or something else.
Edit ==
  /\ config.version < MaxVersion
  /\ \E rules \in {config.rules} \cup
          {[config.rules EXCEPT ![k] = s] : k \in Keys, s \in Services \cup {None}} :
       config' = [version |-> config.version + 1, rules |-> rules]
  /\ UNCHANGED <<row, lock, op, shown, mine, odd>>

Next ==
  \/ \E t \in Tasks :
       \/ \E kind \in {"show", "keep", "restore"} : Check(t, kind)
       \/ ReadConfig(t) \/ ReadOurs(t) \/ Adopt(t)
       \/ TakeLock(t) \/ Keep(t)
       \/ Change(t) \/ Review(t) \/ Observe(t) \/ ReadVersion(t) \/ Put(t) \/ Record(t)
       \/ Rest(t) \/ Drop(t)
  \/ Edit

Spec == Init /\ [][Next]_vars

-----------------------------------------------------------------------------
(* Safety                                                                  *)

\* What a check made now would show.
Reported ==
  IF row # Never /\ config.version > row.version THEN Diff(row.rules, config.rules) ELSE {}

\* What differs from what Teitunnel wrote, and its user has not kept.
Outside == IF mine = Never THEN {} ELSE Diff(mine.rules, config.rules)

\* A check shows every route that was changed outside Teitunnel and is as they left it,
\* and none that Teitunnel changed (drift.rs:1-3, executor.rs:866), as long as no check,
\* Keep or apply wrote over a baseline it had not read ("stale"), everything that was
\* written was recorded, and what was kept is what was shown; and except between a write
\* and its record.
Told == odd = {} /\ (\A t \in Tasks : ~At(t, "record")) => Reported = Outside
=============================================================================
