--------------------------- MODULE ConnectorProofs ---------------------------
(***************************************************************************)
(* Theorems about Connector for every number of actors, callers and        *)
(* processes. Type correctness and what holds however callers overlap come *)
(* first; then what holds when one caller at a time starts and stops the   *)
(* id (Serial), as machine.rs:730-732 does: it stops before it starts.      *)
(***************************************************************************)
EXTENDS Connector, TLAPS

LEMMA InitTypeOK == Init => TypeOK
  BY ConnectorAssumption DEF Init, TypeOK, Phases, States, Outcomes

\* Types are preserved action by action.
LEMMA NextTypeOK == TypeOK /\ [Next]_vars => TypeOK'
<1> SUFFICES ASSUME TypeOK, [Next]_vars PROVE TypeOK'
  OBVIOUS
<1> USE ConnectorAssumption DEF TypeOK, Phases, States, Outcomes
<1>1. ASSUME NEW c \in Callers, NEW a \in Actors, Start(c, a) PROVE TypeOK'
  BY <1>1 DEF Start, Goto, procVars
<1>2. ASSUME NEW c \in Callers, Stop(c) PROVE TypeOK'
  BY <1>2 DEF Stop, procVars
<1>3. ASSUME NEW c \in Callers, StopReturns(c) PROVE TypeOK'
  BY <1>3 DEF StopReturns, actorVars, procVars
<1>4. CASE Nudge
  BY <1>4 DEF Nudge, procVars
<1>5. ASSUME NEW a \in Actors, Proceed(a) PROVE TypeOK'
  <2>1. CASE SeeStopAtTop(a) \/ EndStopped(a) \/ WaitStopped(a)
    <3>1. Finish(a)
      BY <2>1 DEF SeeStopAtTop, EndStopped, WaitStopped
    <3>2. /\ pc' \in [Actors -> Phases]
          /\ state' \in [Actors -> States]
          /\ outcome' \in [Actors -> Outcomes]
      BY <3>1 DEF Finish, Goto, Show
    <3>3. /\ stop' \in [Actors -> BOOLEAN]
          /\ runNudge' \in [Actors -> BOOLEAN]
          /\ watchNudge' \in [Actors -> BOOLEAN]
          /\ check' \in [Actors -> BOOLEAN]
          /\ crashes' \in [Actors -> Nat]
      BY <3>1 DEF Finish
    <3>4. QED
      BY <3>1, <3>2, <3>3 DEF Finish, procVars
  <2>2. CASE Spawn(a)
    BY <2>2 DEF Spawn, FreshPids, Goto, Show
  <2>3. CASE SpawnFails(a)
    BY <2>3 DEF SpawnFails, Goto, Show, procVars
  <2>4. CASE Record(a)
    BY <2>4 DEF Record, Goto, Show, procVars
  <2>5. CASE SeeExit(a) \/ SeeStop(a)
    BY <2>5 DEF SeeExit, SeeStop, Goto, Show, procVars
  <2>6. CASE SeeNudge(a)
    BY <2>6 DEF SeeNudge, procVars
  <2>7. CASE KillChild(a)
    BY <2>7 DEF KillChild, Goto
  <2>8. CASE Forget(a)
    BY <2>8 DEF Forget, Goto, procVars
  <2>9. CASE EndRestart(a) \/ Settle(a) \/ WaitNudged(a)
    <3>1. CASE EndRestart(a)
      BY <3>1 DEF EndRestart, Goto, procVars
    <3>2. CASE Settle(a)
      BY <3>2 DEF Settle, Goto, procVars
    <3>3. CASE WaitNudged(a)
      BY <3>3 DEF WaitNudged, Goto, procVars
    <3>4. QED
      BY <2>9, <3>1, <3>2, <3>3
  <2>10. CASE EndCrashed(a)
    <3>1. PICK n \in 1..crashes[a] + 1 :
            /\ crashes' = [crashes EXCEPT ![a] = n]
            /\ Show(a, IF n > Threshold THEN "CrashLoop" ELSE "Crashed")
      BY <2>10 DEF EndCrashed
    <3>2. n \in Nat
      OBVIOUS
    <3>3. crashes' \in [Actors -> Nat] /\ state' \in [Actors -> States]
      BY <3>1, <3>2 DEF Show
    <3>4. QED
      BY <2>10, <3>3 DEF EndCrashed, Goto, procVars
  <2>11. QED
    BY <1>5, <2>1, <2>2, <2>3, <2>4, <2>5, <2>6, <2>7, <2>8, <2>9, <2>10 DEF Proceed
<1>6. ASSUME NEW a \in Actors, Poll(a) PROVE TypeOK'
  <2>1. CASE PollRestarts(a) \/ PollDegraded(a)
    BY <2>1 DEF PollRestarts, PollDegraded, Goto, Show, procVars
  <2>2. CASE PollHealthy(a)
    BY <2>2 DEF PollHealthy, Show, procVars
  <2>3. QED
    BY <1>6, <2>1, <2>2 DEF Poll
<1>7. ASSUME NEW a \in Actors, WaitOver(a) PROVE TypeOK'
  BY <1>7 DEF WaitOver, Goto, procVars
<1>8. ASSUME NEW p \in Pids, Die(p) \/ Connect(p) \/ Disconnect(p) PROVE TypeOK'
  BY <1>8 DEF Die, Connect, Disconnect, actorVars
<1>9. CASE Exit
  BY <1>9 DEF Exit, procVars
<1>10. CASE Launch \/ ReapKill \/ ReapForget
  BY <1>10 DEF Launch, ReapKill, ReapForget, actorVars, procVars
<1>11. CASE UNCHANGED vars
  BY <1>11 DEF vars, actorVars, procVars
<1>12. QED
  BY <1>1, <1>2, <1>3, <1>4, <1>5, <1>6, <1>7, <1>8, <1>9, <1>10, <1>11
  DEF Next, Supervise, Actor, World

\* Every variable of the model keeps its type (connector.rs, supervisor.rs,
\* registry.rs).
THEOREM TypeCorrect == Spec => []TypeOK
  BY InitTypeOK, NextTypeOK, PTL DEF Spec

-----------------------------------------------------------------------------
(* What holds however callers overlap.                                     *)

HasChild == {"spawned", "watch", "stopping", "forget"}

\* An actor holds a process exactly while it is between spawning it and having
\* forgotten it, and the process is dead by the time it is forgotten.
ChildInv ==
  \A a \in Actors :
    /\ pc[a] \in HasChild <=> child[a] # None
    /\ pc[a] = "forget" => child[a] \notin alive

\* An app that is not up runs no actor.
DownInv == app # "up" => \A a \in Actors : pc[a] = "done"

IInv == TypeOK /\ Accounted /\ ChildInv /\ DownInv

LEMMA InitIInv == Init => IInv
  BY InitTypeOK DEF Init, IInv, Accounted, ChildInv, DownInv, HasChild

\* A step of an actor that has not ended changes only what belongs to it, and
\* keeps its process until that is dead.
LEMMA ActorIInv ==
  ASSUME IInv, NEW a \in Actors, Actor(a)
  PROVE  Accounted' /\ ChildInv' /\ DownInv'
<1> USE ConnectorAssumption DEF IInv, TypeOK
<1>1. /\ pc[a] # "done"
      /\ UNCHANGED <<app, handle, call>>
      /\ \A b \in Actors \ {a} : pc'[b] = pc[b] /\ child'[b] = child[b]
      /\ pc' \in [Actors -> Phases] /\ child' \in [Actors -> Pids \cup {None}]
  <2>1. CASE Proceed(a)
    BY <2>1 DEF Proceed, SeeStopAtTop, Spawn, SpawnFails, Record, SeeExit, SeeStop, SeeNudge,
                KillChild, Forget, EndStopped, EndRestart, EndCrashed, Settle, WaitNudged,
                WaitStopped, Finish, Goto, Phases, FreshPids
  <2>2. CASE Poll(a) \/ WaitOver(a)
    BY <2>2 DEF Poll, PollRestarts, PollHealthy, PollDegraded, WaitOver, Goto, Phases
  <2>3. QED
    BY <2>1, <2>2 DEF Actor
<1>2. Accounted'
  BY <1>1 DEF Accounted
<1>3. DownInv'
  BY <1>1 DEF DownInv
<1>4. ChildInv'
  <2>1. CASE Spawn(a)
    <3>1. PICK p \in FreshPids : alive' = alive \cup {p} /\ child' = [child EXCEPT ![a] = p]
      BY <2>1 DEF Spawn
    <3>2. p # None /\ \A b \in Actors : p # child[b]
      BY <3>1 DEF FreshPids
    <3>3. pc' = [pc EXCEPT ![a] = "spawned"]
      BY <2>1 DEF Spawn, Goto
    <3>4. QED
      BY <3>1, <3>2, <3>3 DEF ChildInv, HasChild
  <2>2. CASE KillChild(a)
    BY <1>1, <2>2 DEF KillChild, Goto, ChildInv, HasChild
  <2>3. CASE Forget(a)
    BY <1>1, <2>3 DEF Forget, Goto, ChildInv, HasChild, procVars
  <2>4. CASE SeeExit(a) \/ SeeStop(a) \/ SeeNudge(a) \/ Record(a)
    BY <1>1, <2>4 DEF SeeExit, SeeStop, SeeNudge, Record, Goto, ChildInv, HasChild, procVars
  <2>5. CASE SeeStopAtTop(a) \/ EndStopped(a) \/ WaitStopped(a)
    BY <1>1, <2>5 DEF SeeStopAtTop, EndStopped, WaitStopped, Finish, Goto, ChildInv, HasChild,
                      procVars
  <2>6. CASE SpawnFails(a) \/ EndRestart(a) \/ EndCrashed(a) \/ Settle(a) \/ WaitNudged(a)
             \/ WaitOver(a)
    BY <1>1, <2>6 DEF SpawnFails, EndRestart, EndCrashed, Settle, WaitNudged, WaitOver, Goto,
                      ChildInv, HasChild, procVars
  <2>7. CASE Poll(a)
    BY <1>1, <2>7 DEF Poll, PollRestarts, PollHealthy, PollDegraded, Goto, ChildInv, HasChild,
                      procVars
  <2>8. QED
    BY <2>1, <2>2, <2>3, <2>4, <2>5, <2>6, <2>7 DEF Actor, Proceed
<1>5. QED
  BY <1>2, <1>3, <1>4

LEMMA NextIInv == IInv /\ [Next]_vars => IInv'
<1> SUFFICES ASSUME IInv, [Next]_vars PROVE Accounted' /\ ChildInv' /\ DownInv'
  BY NextTypeOK DEF IInv
<1> USE ConnectorAssumption DEF IInv, TypeOK
<1>1. ASSUME NEW c \in Callers, NEW a \in Actors, Start(c, a)
      PROVE  Accounted' /\ ChildInv' /\ DownInv'
  BY <1>1 DEF Start, Goto, procVars, Accounted, ChildInv, DownInv, HasChild
<1>2. ASSUME NEW c \in Callers, Stop(c) PROVE Accounted' /\ ChildInv' /\ DownInv'
  BY <1>2 DEF Stop, procVars, Accounted, ChildInv, DownInv
<1>3. ASSUME NEW c \in Callers, StopReturns(c) PROVE Accounted' /\ ChildInv' /\ DownInv'
  BY <1>3 DEF StopReturns, actorVars, procVars, Accounted, ChildInv, DownInv
<1>4. CASE Nudge
  BY <1>4 DEF Nudge, procVars, Accounted, ChildInv, DownInv
<1>5. ASSUME NEW a \in Actors, Actor(a) PROVE Accounted' /\ ChildInv' /\ DownInv'
  BY <1>5, ActorIInv
<1>6. ASSUME NEW p \in Pids, Die(p) \/ Connect(p) \/ Disconnect(p)
      PROVE  Accounted' /\ ChildInv' /\ DownInv'
  BY <1>6 DEF Die, Connect, Disconnect, actorVars, Accounted, ChildInv, DownInv
<1>7. CASE Exit
  BY <1>7 DEF Exit, procVars, Accounted, ChildInv, DownInv, HasChild
<1>8. CASE Launch \/ ReapKill \/ ReapForget
  BY <1>8 DEF Launch, ReapKill, ReapForget, actorVars, procVars, Accounted, ChildInv, DownInv
<1>9. CASE UNCHANGED vars
  BY <1>9 DEF vars, actorVars, procVars, Accounted, ChildInv, DownInv
<1>10. QED
  BY <1>1, <1>2, <1>3, <1>4, <1>5, <1>6, <1>7, <1>8, <1>9 DEF Next, Supervise, World

\* No actor runs that neither the map nor a pending stop() knows.
THEOREM EveryActorAccounted == Spec => []Accounted
<1>1. IInv => Accounted
  BY DEF IInv
<1>2. QED
  BY <1>1, InitIInv, NextIInv, PTL DEF Spec

\* Once every stop() has returned and the map is empty, no process is left.
THEOREM StopLeavesNothing == Spec => []StoppedIsGone
<1>1. IInv => StoppedIsGone
  BY ConnectorAssumption DEF IInv, TypeOK, Accounted, ChildInv, StoppedIsGone, HasChild
<1>2. QED
  BY <1>1, InitIInv, NextIInv, PTL DEF Spec

-----------------------------------------------------------------------------
(* A process is let go of only once it is dead.                            *)

\* An actor forgets its process only at the end of supervise(), after that process
\* has ended by itself or was killed (connector.rs:191-195).
THEOREM OnlyDeadLetGo == Spec => LetGoOnlyDead
<1> DEFINE Safe == \A a \in Actors :
                     child[a] # None /\ child'[a] = None /\ app' = app => child[a] \notin alive'
<1>1. ASSUME IInv, [Next]_vars PROVE [Safe]_vars
  <2> USE <1>1, ConnectorAssumption DEF IInv, TypeOK
  <2>1. CASE UNCHANGED child
    BY <2>1
  <2>2. ASSUME NEW a \in Actors, Spawn(a) PROVE Safe
    <3>1. PICK p \in FreshPids : child' = [child EXCEPT ![a] = p]
      BY <2>2 DEF Spawn
    <3> QED
      BY <3>1 DEF FreshPids
  <2>3. ASSUME NEW a \in Actors, Forget(a) PROVE Safe
    BY <2>3 DEF Forget, ChildInv, procVars
  <2>4. CASE Exit
    BY <2>4 DEF Exit
  <2>5. ASSUME NEW a \in Actors, Actor(a), ~Spawn(a), ~Forget(a) PROVE UNCHANGED child
    BY <2>5 DEF Actor, Poll, Proceed, SeeStopAtTop, SpawnFails, Record, SeeExit, SeeStop, SeeNudge,
                PollRestarts, PollHealthy, PollDegraded, KillChild, EndStopped, EndRestart,
                EndCrashed, Settle, WaitOver, WaitNudged, WaitStopped, Finish
  <2>6. CASE Supervise \/ Nudge
    BY <2>1, <2>6 DEF Supervise, Start, Stop, StopReturns, Nudge, actorVars
  <2>7. CASE World /\ ~Exit
    BY <2>1, <2>7 DEF World, Die, Connect, Disconnect, Launch, ReapKill, ReapForget, actorVars
  <2>8. CASE UNCHANGED vars
    BY <2>8
  <2> QED
    BY <2>1, <2>2, <2>3, <2>4, <2>5, <2>6, <2>7, <2>8 DEF Next
<1> QED
  BY <1>1, InitIInv, NextIInv, PTL DEF Spec, LetGoOnlyDead

-----------------------------------------------------------------------------
(* What holds when one task at a time starts and stops the id.             *)

Serial == \A c, d \in Callers : c = d

\* While a stop() is awaited nothing is in the map, so one actor at most has not ended.
OneActor == \A c \in Callers : call[c] # None => handle = None
SerialInv == Serial /\ IInv /\ OneActor

LEMMA Alone ==
  ASSUME SerialInv, NEW a \in Actors, NEW b \in Actors, pc[a] # "done", pc[b] # "done"
  PROVE  a = b
  BY ConnectorAssumption DEF SerialInv, Serial, IInv, Accounted, OneActor

LEMMA SerialStep == SerialInv /\ [Next]_vars => SerialInv'
<1> SUFFICES ASSUME SerialInv, [Next]_vars PROVE OneActor'
  BY NextIInv DEF SerialInv, Serial
<1> USE ConnectorAssumption DEF SerialInv, IInv, TypeOK, OneActor
<1>1. ASSUME NEW c \in Callers, NEW a \in Actors, Start(c, a) PROVE OneActor'
  BY <1>1 DEF Start, Serial
<1>2. ASSUME NEW c \in Callers, Stop(c) PROVE OneActor'
  BY <1>2 DEF Stop
<1>3. ASSUME NEW c \in Callers, StopReturns(c) PROVE OneActor'
  BY <1>3 DEF StopReturns
<1>4. CASE UNCHANGED <<handle, call>>
  BY <1>4
<1>5. CASE Exit
  BY <1>5 DEF Exit
<1>6. ASSUME NEW a \in Actors, Actor(a) PROVE UNCHANGED <<handle, call>>
  BY <1>6 DEF Actor, Poll, Proceed, SeeStopAtTop, Spawn, SpawnFails, Record, SeeExit, SeeStop,
              SeeNudge, PollRestarts, PollHealthy, PollDegraded, KillChild, Forget, EndStopped,
              EndRestart, EndCrashed, Settle, WaitOver, WaitNudged, WaitStopped, Finish
<1>7. CASE Nudge \/ (World /\ ~Exit) \/ UNCHANGED vars
  BY <1>4, <1>7 DEF Nudge, World, Die, Connect, Disconnect, Launch, ReapKill, ReapForget, vars
<1> QED
  BY <1>1, <1>2, <1>3, <1>4, <1>5, <1>6, <1>7 DEF Next, Supervise

LEMMA SerialInit == Serial /\ Init => SerialInv
  BY InitIInv DEF Init, SerialInv, OneActor

\* With one caller at a time the id has one process at most, restarts and launches
\* after a crash of the app included (supervisor.rs:197).
THEOREM OnlyOneProcess == Serial => (Spec => []OneProcess)
<1>1. SerialInv => OneProcess
  <2> SUFFICES ASSUME SerialInv, NEW a \in Actors, NEW b \in Actors,
                      child[a] \in alive, child[b] \in alive
               PROVE  a = b
    BY DEF OneProcess
  <2>1. pc[a] # "done" /\ pc[b] # "done"
    BY ConnectorAssumption DEF SerialInv, IInv, TypeOK, ChildInv, HasChild
  <2> QED
    BY <2>1, Alone
<1> QED
  BY <1>1, SerialInit, SerialStep, PTL DEF Spec

RecordInv == SerialInv /\ ~DiskFails /\ WatchedIsRecorded

\* The record is written before the watching begins; only an actor that ends or a
\* launch removes it, and neither happens while another actor watches.
LEMMA RecordStep == RecordInv /\ [Next]_vars => RecordInv'
<1> SUFFICES ASSUME RecordInv, [Next]_vars,
                    NEW b \in Actors, pc'[b] \in {"watch", "stopping"}
             PROVE  pidfile' = child'[b]
  BY SerialStep DEF RecordInv, WatchedIsRecorded
<1> USE ConnectorAssumption DEF RecordInv, SerialInv, IInv, TypeOK, WatchedIsRecorded
<1>1. CASE pc[b] = "done"
  BY <1>1 DEF Next, Supervise, Start, Stop, StopReturns, Nudge, World, Die, Connect, Disconnect,
              Exit, Launch, ReapKill, ReapForget, Actor, Poll, Proceed, SeeStopAtTop, Spawn,
              SpawnFails, Record, SeeExit, SeeStop, SeeNudge, PollRestarts, PollHealthy,
              PollDegraded, KillChild, Forget, EndStopped, EndRestart, EndCrashed, Settle,
              WaitOver, WaitNudged, WaitStopped, Finish, Goto, vars, actorVars
<1>2. ASSUME pc[b] # "done", NEW a \in Actors, Actor(a) PROVE pidfile' = child'[b]
  <2>1. a = b
    <3>1. pc[a] # "done"
      BY <1>2 DEF Actor, Poll, Proceed, SeeStopAtTop, Spawn, SpawnFails, Record, SeeExit, SeeStop,
                  SeeNudge, PollRestarts, PollHealthy, PollDegraded, KillChild, Forget,
                  EndStopped, EndRestart, EndCrashed, Settle, WaitOver, WaitNudged, WaitStopped
    <3> QED
      BY <3>1, <1>2, Alone
  <2>2. CASE Record(b)
    BY <2>2 DEF Record
  <2>3. CASE ~Record(b)
    BY <1>2, <2>1, <2>3 DEF Actor, Poll, Proceed, SeeStopAtTop, Spawn, SpawnFails, SeeExit,
                  SeeStop, SeeNudge, PollRestarts, PollHealthy, PollDegraded, KillChild, Forget,
                  EndStopped, EndRestart, EndCrashed, Settle, WaitOver, WaitNudged, WaitStopped,
                  Finish, Goto
  <2> QED
    BY <2>1, <2>2, <2>3
<1>3. CASE pc[b] # "done" /\ Supervise
  <2>1. pc'[b] = pc[b] /\ UNCHANGED <<child, pidfile>>
    BY <1>3 DEF Supervise, Start, Stop, StopReturns, Goto, actorVars
  <2> QED
    BY <2>1
<1>4. CASE pc[b] # "done" /\ World
  <2>1. app = "up"
    BY <1>4 DEF DownInv
  <2>2. ~Exit
    BY DEF Exit
  <2> QED
    BY <1>4, <2>1, <2>2 DEF World, Die, Connect, Disconnect, Launch, ReapKill, ReapForget, actorVars
<1>5. CASE Nudge \/ UNCHANGED vars
  BY <1>5 DEF Nudge, vars, actorVars
<1> QED
  BY <1>1, <1>2, <1>3, <1>4, <1>5 DEF Next

\* With one caller at a time and a disk that takes the pidfile, a watched process is
\* always the recorded one, so the next launch finds it (registry.rs:25).
THEOREM WatchedRecorded == Serial /\ ~DiskFails => (Spec => []WatchedIsRecorded)
<1>1. Serial /\ ~DiskFails /\ Init => RecordInv
  BY SerialInit DEF Init, RecordInv, WatchedIsRecorded
<1>2. RecordInv => WatchedIsRecorded
  BY DEF RecordInv
<1> QED
  BY <1>1, <1>2, RecordStep, PTL DEF Spec
=============================================================================
