------------------------------ MODULE Connector ------------------------------
(***************************************************************************)
(* One connector id of crates/core/src/runtime: the supervisor's handle    *)
(* map, the actor task behind each handle (connector.rs), the cloudflared  *)
(* child it runs, and the pidfile through which a child that outlives the  *)
(* app is found again (registry.rs).                                       *)
(*                                                                         *)
(* Every start() spawns a new actor, so several actors of the same id may  *)
(* exist at once: the map holds at most one of them, the others are still  *)
(* ending because stop() takes the handle out first and awaits the task    *)
(* afterwards. All of them share one pidfile path.                         *)
(*                                                                         *)
(* Time is abstracted: a timer that may fire is an action that may happen. *)
(***************************************************************************)
EXTENDS Naturals, FiniteSets

CONSTANTS
  Actors,     \* identities for the actor tasks; a finished one is used again
  Pids,       \* process identities (pid and start time, registry.rs:18-20)
  Callers,    \* tasks of the app that call start() and stop() of this id
  None,
  Threshold,  \* RestartPolicy::crash_loop_threshold
  NudgeCheck, \* whether RestartPolicy::nudge_check is Some
  DiskFails   \* whether writing the pidfile may fail (only warned about)

ASSUME ConnectorAssumption ==
  /\ Threshold \in Nat \ {0}
  /\ NudgeCheck \in BOOLEAN
  /\ DiskFails \in BOOLEAN
  /\ None \notin Actors \cup Pids

VARIABLES
  app,        \* the app process: "up", "reaping" (at launch) or "down"
  handle,     \* the actor whose handle is in Supervisor::connectors
  call,       \* the actor whose end each caller's stop() awaits
  pc,         \* where each actor is
  state,      \* each actor's published ConnectorState
  stop,       \* each actor's stop flag
  outcome,    \* what supervise() returned
  crashes,    \* crashes the tracker still holds
  runNudge,   \* run()'s receiver has an unseen nudge
  watchNudge, \* supervise()'s receiver has an unseen nudge
  check,      \* check_at is set
  child,      \* the process each actor owns
  alive,      \* processes that run
  connected,  \* processes with an edge connection
  pidfile     \* the process named by <app_data>/run/<id>.json

actorVars == <<pc, state, stop, outcome, crashes, runNudge, watchNudge, check, child>>
procVars  == <<alive, connected>>
vars      == <<app, handle, call, actorVars, procVars, pidfile>>

Phases == {"top", "spawned", "watch", "stopping", "forget", "ended", "settle", "wait", "done"}
States == {"Stopped", "Starting", "Connecting", "Healthy", "Degraded", "Crashed",
           "CrashLoop", "Stopping"}
Outcomes == {"none", "Exited", "StopRequested", "Restart"}
Waiting  == {"Crashed", "CrashLoop"}

TypeOK ==
  /\ app \in {"up", "reaping", "down"}
  /\ handle \in Actors \cup {None}
  /\ call \in [Callers -> Actors \cup {None}]
  /\ pc \in [Actors -> Phases]
  /\ state \in [Actors -> States]
  /\ stop \in [Actors -> BOOLEAN]
  /\ outcome \in [Actors -> Outcomes]
  /\ crashes \in [Actors -> Nat]
  /\ runNudge \in [Actors -> BOOLEAN]
  /\ watchNudge \in [Actors -> BOOLEAN]
  /\ check \in [Actors -> BOOLEAN]
  /\ child \in [Actors -> Pids \cup {None}]
  /\ alive \subseteq Pids
  /\ connected \subseteq Pids
  /\ pidfile \in Pids \cup {None}

Init ==
  /\ app = "up"
  /\ handle = None
  /\ call = [c \in Callers |-> None]
  /\ pc = [a \in Actors |-> "done"]
  /\ state = [a \in Actors |-> "Stopped"]
  /\ stop = [a \in Actors |-> FALSE]
  /\ outcome = [a \in Actors |-> "none"]
  /\ crashes = [a \in Actors |-> 0]
  /\ runNudge = [a \in Actors |-> FALSE]
  /\ watchNudge = [a \in Actors |-> FALSE]
  /\ check = [a \in Actors |-> FALSE]
  /\ child = [a \in Actors |-> None]
  /\ alive = {}
  /\ connected = {}
  /\ pidfile = None

Goto(a, to) == pc' = [pc EXCEPT ![a] = to]
Show(a, st) == state' = [state EXCEPT ![a] = st]

-----------------------------------------------------------------------------
(* The supervisor (supervisor.rs): what the app's tasks call.              *)

\* MUTANT of Start: without the AlreadyRunning check.
StartUnchecked(c, a) ==
  /\ app = "up" /\ call[c] = None
  /\ pc[a] = "done" /\ a # handle /\ \A d \in Callers : call[d] # a
  /\ handle' = a
  /\ Goto(a, "top")
  /\ UNCHANGED <<app, call, state, stop, outcome, crashes, runNudge, watchNudge, check, child,
                 procVars, pidfile>>

\* start: refused while the map holds an unfinished task of the id; the new
\* actor replaces whatever handle was there.
Start(c, a) ==
  /\ app = "up" /\ call[c] = None
  /\ \A b \in Actors : handle = b => pc[b] = "done"
  /\ pc[a] = "done" /\ a # handle /\ \A d \in Callers : call[d] # a
  /\ handle' = a
  /\ Goto(a, "top")
  /\ UNCHANGED <<app, call, state, stop, outcome, crashes, runNudge, watchNudge, check, child,
                 procVars, pidfile>>

\* stop (and stop_all, for the one id modelled): the handle leaves the map
\* before the actor has ended.
Stop(c) ==
  /\ app = "up" /\ call[c] = None /\ handle # None
  /\ handle' = None
  /\ call' = [call EXCEPT ![c] = handle]
  /\ stop' = [stop EXCEPT ![handle] = TRUE]
  /\ UNCHANGED <<app, pc, state, outcome, crashes, runNudge, watchNudge, check, child,
                 procVars, pidfile>>

\* MUTANT of StopReturns: the task is not awaited.
StopReturnsAtOnce(c) ==
  /\ call[c] # None
  /\ call' = [call EXCEPT ![c] = None]
  /\ UNCHANGED <<app, handle, actorVars, procVars, pidfile>>

\* stop returns once the task it awaits has finished.
StopReturns(c) ==
  /\ call[c] # None /\ pc[call[c]] = "done"
  /\ call' = [call EXCEPT ![c] = None]
  /\ UNCHANGED <<app, handle, actorVars, procVars, pidfile>>

\* nudge_all reaches the connectors in the map only.
Nudge ==
  /\ app = "up" /\ handle # None
  /\ runNudge' = [runNudge EXCEPT ![handle] = TRUE]
  /\ watchNudge' = [watchNudge EXCEPT ![handle] = TRUE]
  /\ UNCHANGED <<app, handle, call, pc, state, stop, outcome, crashes, check, child,
                 procVars, pidfile>>

-----------------------------------------------------------------------------
(* The actor (connector.rs).                                               *)

\* run() returns. Its locals and channels are fresh for the next start of the id.
Finish(a) ==
  /\ Goto(a, "done")
  /\ Show(a, "Stopped")
  /\ stop' = [stop EXCEPT ![a] = FALSE]
  /\ outcome' = [outcome EXCEPT ![a] = "none"]
  /\ crashes' = [crashes EXCEPT ![a] = 0]
  /\ runNudge' = [runNudge EXCEPT ![a] = FALSE]
  /\ watchNudge' = [watchNudge EXCEPT ![a] = FALSE]
  /\ check' = [check EXCEPT ![a] = FALSE]
  /\ UNCHANGED <<app, handle, call, child, procVars, pidfile>>

\* The top of run()'s loop: give up if a stop is pending, else spawn.
SeeStopAtTop(a) ==
  /\ pc[a] = "top" /\ stop[a]
  /\ Finish(a)

FreshPids == Pids \ (alive \cup {pidfile} \cup {child[b] : b \in Actors})

\* spawn() succeeded and supervise() began by marking its nudges as seen.
Spawn(a) ==
  /\ pc[a] = "top" /\ ~stop[a]
  /\ \E p \in FreshPids :
       /\ alive' = alive \cup {p}
       /\ child' = [child EXCEPT ![a] = p]
  /\ watchNudge' = [watchNudge EXCEPT ![a] = FALSE]
  /\ Show(a, "Starting")
  /\ Goto(a, "spawned")
  /\ UNCHANGED <<app, handle, call, stop, outcome, crashes, runNudge, check, connected,
                 pidfile>>

\* spawn() failed: no process, and run() treats it as an exit.
SpawnFails(a) ==
  /\ pc[a] = "top" /\ ~stop[a]
  /\ outcome' = [outcome EXCEPT ![a] = "Exited"]
  /\ Show(a, "Starting")
  /\ Goto(a, "ended")
  /\ UNCHANGED <<app, handle, call, stop, crashes, runNudge, watchNudge, check, child,
                 procVars, pidfile>>

\* registry.record, then the watching begins. A write that fails leaves the
\* file as it was.
Record(a) ==
  /\ pc[a] = "spawned"
  /\ pidfile' \in {child[a]} \cup (IF DiskFails THEN {pidfile} ELSE {})
  /\ check' = [check EXCEPT ![a] = FALSE]
  /\ Show(a, "Connecting")
  /\ Goto(a, "watch")
  /\ UNCHANGED <<app, handle, call, stop, outcome, crashes, runNudge, watchNudge, child,
                 procVars>>

\* The branches of supervise()'s select.
SeeExit(a) ==
  /\ pc[a] = "watch" /\ child[a] \notin alive
  /\ outcome' = [outcome EXCEPT ![a] = "Exited"]
  /\ Goto(a, "forget")
  /\ UNCHANGED <<app, handle, call, state, stop, crashes, runNudge, watchNudge, check,
                 child, procVars, pidfile>>

\* MUTANT of SeeStop: only a connected child is stopped.
SeeStopConnected(a) ==
  /\ pc[a] = "watch" /\ stop[a] /\ child[a] \in connected
  /\ outcome' = [outcome EXCEPT ![a] = "StopRequested"]
  /\ Show(a, "Stopping")
  /\ Goto(a, "stopping")
  /\ UNCHANGED <<app, handle, call, stop, crashes, runNudge, watchNudge, check, child,
                 procVars, pidfile>>

SeeStop(a) ==
  /\ pc[a] = "watch" /\ stop[a]
  /\ outcome' = [outcome EXCEPT ![a] = "StopRequested"]
  /\ Show(a, "Stopping")
  /\ Goto(a, "stopping")
  /\ UNCHANGED <<app, handle, call, stop, crashes, runNudge, watchNudge, check, child,
                 procVars, pidfile>>

\* MUTANT of SeeNudge: the nudge sets no check.
SeeNudgeIgnored(a) ==
  /\ pc[a] = "watch" /\ watchNudge[a]
  /\ watchNudge' = [watchNudge EXCEPT ![a] = FALSE]
  /\ UNCHANGED <<app, handle, call, pc, state, stop, outcome, crashes, runNudge, check, child,
                 procVars, pidfile>>

SeeNudge(a) ==
  /\ pc[a] = "watch" /\ watchNudge[a]
  /\ watchNudge' = [watchNudge EXCEPT ![a] = FALSE]
  /\ check' = [check EXCEPT ![a] = check[a] \/ NudgeCheck]
  /\ UNCHANGED <<app, handle, call, pc, state, stop, outcome, crashes, runNudge, child,
                 procVars, pidfile>>

\* A poll that finds the nudge's check due and no connection.
PollRestarts(a) ==
  /\ pc[a] = "watch" /\ check[a] /\ child[a] \notin connected
  /\ check' = [check EXCEPT ![a] = FALSE]
  /\ outcome' = [outcome EXCEPT ![a] = "Restart"]
  /\ Show(a, "Stopping")
  /\ Goto(a, "stopping")
  /\ UNCHANGED <<app, handle, call, stop, crashes, runNudge, watchNudge, child,
                 procVars, pidfile>>

\* A poll that finds a connection (the check, if it was due, is done).
PollHealthy(a) ==
  /\ pc[a] = "watch" /\ child[a] \in connected
  /\ \E due \in {FALSE, check[a]} : check' = [check EXCEPT ![a] = @ /\ ~due]
  /\ Show(a, "Healthy")
  /\ UNCHANGED <<app, handle, call, pc, stop, outcome, crashes, runNudge, watchNudge, child,
                 procVars, pidfile>>

\* A poll without a connection while no check is due, once there was a connection
\* before or connect_timeout has passed (before that, a poll changes nothing).
PollDegraded(a) ==
  /\ pc[a] = "watch" /\ child[a] \notin connected
  /\ Show(a, "Degraded")
  /\ UNCHANGED <<app, handle, call, pc, stop, outcome, crashes, runNudge, watchNudge, check,
                 child, procVars, pidfile>>

\* MUTANT of KillChild: the signal is sent, the exit not waited for.
KillChildUnwaited(a) ==
  /\ pc[a] = "stopping"
  /\ Goto(a, "forget")
  /\ UNCHANGED <<app, handle, call, state, stop, outcome, crashes, runNudge, watchNudge, check,
                 child, procVars, pidfile>>

\* stop_child: SIGTERM, then SIGKILL after the grace period.
KillChild(a) ==
  /\ pc[a] = "stopping"
  /\ alive' = alive \ {child[a]}
  /\ connected' = connected \ {child[a]}
  /\ Goto(a, "forget")
  /\ UNCHANGED <<app, handle, call, state, stop, outcome, crashes, runNudge, watchNudge, check,
                 child, pidfile>>

\* registry.remove: by connector id, whoever wrote the file.
Forget(a) ==
  /\ pc[a] = "forget"
  /\ pidfile' = None
  /\ child' = [child EXCEPT ![a] = None]
  /\ Goto(a, "ended")
  /\ UNCHANGED <<app, handle, call, state, stop, outcome, crashes, runNudge, watchNudge, check,
                 procVars>>

\* What run() does with the outcome. CrashTracker::record adds the crash and
\* drops those that left the window, so the count is anything up to one more.
EndStopped(a) ==
  /\ pc[a] = "ended" /\ outcome[a] = "StopRequested"
  /\ Finish(a)

EndRestart(a) ==
  /\ pc[a] = "ended" /\ outcome[a] = "Restart"
  /\ Goto(a, "top")
  /\ UNCHANGED <<app, handle, call, state, stop, outcome, crashes, runNudge, watchNudge, check,
                 child, procVars, pidfile>>

EndCrashed(a) ==
  /\ pc[a] = "ended" /\ outcome[a] = "Exited"
  /\ \E n \in 1..crashes[a] + 1 :
       /\ crashes' = [crashes EXCEPT ![a] = n]
       /\ Show(a, IF n > Threshold THEN "CrashLoop" ELSE "Crashed")
  /\ Goto(a, "settle")
  /\ UNCHANGED <<app, handle, call, stop, outcome, runNudge, watchNudge, check, child,
                 procVars, pidfile>>

\* nudge.mark_unchanged(), after the state was published.
Settle(a) ==
  /\ pc[a] = "settle"
  /\ runNudge' = [runNudge EXCEPT ![a] = FALSE]
  /\ Goto(a, "wait")
  /\ UNCHANGED <<app, handle, call, state, stop, outcome, crashes, watchNudge, check,
                 child, procVars, pidfile>>

\* MUTANT of WaitOver: a crash loop is never retried.
WaitOverGivesUp(a) ==
  /\ pc[a] = "wait" /\ state[a] = "Crashed"
  /\ Goto(a, "top")
  /\ UNCHANGED <<app, handle, call, state, stop, outcome, crashes, runNudge, watchNudge, check,
                 child, procVars, pidfile>>

\* The backoff or crash_loop_retry has passed.
WaitOver(a) ==
  /\ pc[a] = "wait"
  /\ crashes' = [crashes EXCEPT ![a] = IF state[a] = "CrashLoop" THEN 0 ELSE @]
  /\ Goto(a, "top")
  /\ UNCHANGED <<app, handle, call, state, stop, outcome, runNudge, watchNudge, check,
                 child, procVars, pidfile>>

WaitNudged(a) ==
  /\ pc[a] = "wait" /\ runNudge[a]
  /\ runNudge' = [runNudge EXCEPT ![a] = FALSE]
  /\ crashes' = [crashes EXCEPT ![a] = 0]
  /\ Goto(a, "top")
  /\ UNCHANGED <<app, handle, call, state, stop, outcome, watchNudge, check, child,
                 procVars, pidfile>>

WaitStopped(a) ==
  /\ pc[a] = "wait" /\ stop[a]
  /\ Finish(a)

-----------------------------------------------------------------------------
(* The world: cloudflared processes, the app's own end and its next launch.*)

Die(p) ==
  /\ p \in alive
  /\ alive' = alive \ {p}
  /\ connected' = connected \ {p}
  /\ UNCHANGED <<app, handle, call, actorVars, pidfile>>

Connect(p) ==
  /\ p \in alive \ connected
  /\ connected' = connected \cup {p}
  /\ UNCHANGED <<app, handle, call, actorVars, alive, pidfile>>

Disconnect(p) ==
  /\ p \in connected
  /\ connected' = connected \ {p}
  /\ UNCHANGED <<app, handle, call, actorVars, alive, pidfile>>

\* The app exits, crashes or is force-quit: its tasks are gone, the children
\* (a process group of their own) may live on.
Exit ==
  /\ app # "down"
  /\ app' = "down"
  /\ handle' = None
  /\ call' = [c \in Callers |-> None]
  /\ pc' = [a \in Actors |-> "done"]
  /\ state' = [a \in Actors |-> "Stopped"]
  /\ stop' = [a \in Actors |-> FALSE]
  /\ outcome' = [a \in Actors |-> "none"]
  /\ crashes' = [a \in Actors |-> 0]
  /\ runNudge' = [a \in Actors |-> FALSE]
  /\ watchNudge' = [a \in Actors |-> FALSE]
  /\ check' = [a \in Actors |-> FALSE]
  /\ child' = [a \in Actors |-> None]
  /\ UNCHANGED <<procVars, pidfile>>

Launch ==
  /\ app = "down"
  /\ app' = "reaping"
  /\ UNCHANGED <<handle, call, actorVars, procVars, pidfile>>

\* reap_orphans, before the app starts anything: stop what the record names if
\* it still runs, then remove the record.
ReapKill ==
  /\ app = "reaping" /\ pidfile \in alive
  /\ alive' = alive \ {pidfile}
  /\ connected' = connected \ {pidfile}
  /\ UNCHANGED <<app, handle, call, actorVars, pidfile>>

ReapForget ==
  /\ app = "reaping" /\ pidfile \notin alive
  /\ pidfile' = None
  /\ app' = "up"
  /\ UNCHANGED <<handle, call, actorVars, procVars>>

-----------------------------------------------------------------------------
\* What an actor does by itself, without waiting for its child or a timer.
Proceed(a) ==
  \/ SeeStopAtTop(a) \/ Spawn(a) \/ SpawnFails(a) \/ Record(a)
  \/ SeeExit(a) \/ SeeStop(a) \/ SeeNudge(a)
  \/ KillChild(a) \/ Forget(a)
  \/ EndStopped(a) \/ EndRestart(a) \/ EndCrashed(a) \/ Settle(a)
  \/ WaitNudged(a) \/ WaitStopped(a)

Poll(a) == PollRestarts(a) \/ PollHealthy(a) \/ PollDegraded(a)

Actor(a) == Proceed(a) \/ Poll(a) \/ WaitOver(a)

Supervise == \E c \in Callers : (\E a \in Actors : Start(c, a)) \/ Stop(c) \/ StopReturns(c)

World ==
  \/ \E p \in Pids : Die(p) \/ Connect(p) \/ Disconnect(p)
  \/ Exit \/ Launch \/ ReapKill \/ ReapForget

Next == Supervise \/ Nudge \/ (\E a \in Actors : Actor(a)) \/ World

Spec == Init /\ [][Next]_vars

\* tokio keeps polling a task that can make progress, its timers fire, and a
\* ready branch of a select is taken in the end (its order is random). Nothing
\* is assumed of users, of cloudflared or of the network.
Fairness ==
  \A a \in Actors :
    /\ WF_vars(Proceed(a))
    /\ WF_vars(WaitOver(a))
    /\ WF_vars(PollRestarts(a))
    /\ WF_vars(SeeStop(a))
    /\ WF_vars(SeeNudge(a))

FairSpec == Spec /\ Fairness

-----------------------------------------------------------------------------
(* Safety *)

\* Every unfinished actor is either in the map or awaited by the stop() that
\* took it out: nothing runs that neither a stop nor an exit could reach
\* (supervisor.rs start/stop).
Accounted ==
  \A a \in Actors : pc[a] # "done" => handle = a \/ \E c \in Callers : call[c] = a

\* With no handle and no stop() in flight, no cloudflared of this id is left: a
\* stop that returned has ended its process.
StoppedIsGone ==
  app = "up" /\ handle = None /\ (\A c \in Callers : call[c] = None)
    => \A a \in Actors : child[a] \notin alive

\* At most one cloudflared of the id runs under the supervisor
\* ("AlreadyRunning if the id is in use by a live connector", supervisor.rs:197).
OneProcess ==
  \A a, b \in Actors : child[a] \in alive /\ child[b] \in alive => a = b

\* A child being watched is the one the pidfile names, so a force-quit cannot
\* leave it running unnoticed ("Pidfiles for every process the supervisor
\* starts", registry.rs:25).
WatchedIsRecorded ==
  \A a \in Actors : pc[a] \in {"watch", "stopping"} => pidfile = child[a]

\* While its actor lives on, a process is let go of only once it is dead
\* (supervise() waits for or kills its child before it returns).
LetGoOnlyDead ==
  [][\A a \in Actors :
        child[a] # None /\ child'[a] = None /\ app' = app => child[a] \notin alive']_vars

-----------------------------------------------------------------------------
(* Liveness *)

\* A requested stop ends the actor, whatever it was doing.
StopEnds == \A a \in Actors : stop[a] /\ pc[a] # "done" ~> pc[a] = "done"

\* A crashed or crash-looping connector is started again or was stopped: it
\* "must come back by itself" (policy.rs:28-30).
ComesBack == \A a \in Actors : state[a] \in Waiting ~> pc[a] \in {"top", "done"}

\* A nudged connector without a connection gets one or is restarted
\* (supervisor.rs:140-142), unless its policy opts out.
NudgeActs ==
  \A a \in Actors :
    NudgeCheck /\ pc[a] = "watch" /\ watchNudge[a]
      ~> child[a] \in connected \/ pc[a] # "watch"
=============================================================================
