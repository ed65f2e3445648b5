------------------------------ MODULE QuickShare ------------------------------
(***************************************************************************)
(* Quick Shares (crates/core/src/quick_share.rs): an anonymous address for *)
(* a local service, one cloudflared per share. A share is an entry in the  *)
(* map, a reserved metrics port, a connector of the supervisor, a tap of   *)
(* the inspector perhaps, and a poller that waits for the address; a       *)
(* restart replaces the last three under a new generation.                 *)
(*                                                                         *)
(* The supervisor is used through what Connector shows of it: start() is   *)
(* refused while the map holds a running actor, stop() takes the actor out *)
(* of the map and returns when its process has ended. Checks through the   *)
(* edge, Host headers, pauses and the history are left out.                *)
(***************************************************************************)
EXTENDS Naturals, Sequences, FiniteSets

CONSTANTS
  Shares,      \* share ids; each is used once (a UUID)
  Ports,       \* PortAllocator's range
  Callers,     \* tasks that start, restart and stop shares
  None,
  Asking,      \* a poller that has seen its generation and asks for the address
  Late,        \* a poller that has seen its generation after its deadline
  MaxRestarts, \* bound: restarts of a share
  MaxFaults,   \* bound: deaths and lost connections of processes
  MaxEvents,   \* bound: the capacity of the channel of state events
  Overlap      \* whether operations on one share may overlap

ASSUME QuickShareAssumption ==
  /\ {MaxRestarts, MaxFaults, MaxEvents} \subseteq Nat
  /\ Overlap \in BOOLEAN
  /\ None \notin Ports \cup Nat
  /\ Cardinality({None, Asking, Late}) = 3

VARIABLES
  entry,    \* the map: what is known of each share
  reserved, \* the ports PortAllocator has handed out
  op,       \* what each caller is in the middle of
  actor,    \* each share's connector in the supervisor's map
  proc,     \* the cloudflared that connector runs
  spawned,  \* how many each share has had: a new one has a new address
  tap,      \* the address of each share's tap: the generation it was made for
  pollers,  \* the tasks that wait for an address (await_url)
  events,   \* states published and not yet read (watch_runtime)
  mirror,   \* the status watch_runtime has decided on and not yet written
  used,     \* ids that were given out
  faults

shareVars   == <<entry, reserved, tap, used>>
runtimeVars == <<actor, proc, spawned, events, faults>>
vars        == <<shareVars, op, pollers, mirror, runtimeVars>>

Generations == 0..MaxRestarts
Addresses == Shares \X Nat
Statuses  == {"Starting", "Live", "Reconnecting", "Failed"}
Published == {"Healthy", "Degraded", "Crashed", "CrashLoop"}

Entries == [port : Ports, tap : BOOLEAN, gen : Generations, url : Addresses \cup {None},
            status : Statuses, inspected : BOOLEAN]
\* tap: the tap to stop if this goes on, or the one it has made. ending: the process
\* whose end supervisor.stop() awaits.
Operations == [at : {"stop", "ending", "untap", "target", "run", "record"},
               kind : {"start", "restart", "stop"}, share : Shares, port : Ports,
               gen : Generations, inspect : BOOLEAN, tap : BOOLEAN,
               ending : Addresses \cup {None}]
Pollers == [share : Shares, gen : Generations, port : Ports,
            asked : Addresses \cup {None, Asking, Late}, seen : BOOLEAN]

ASSUME NoneAssumption ==
  /\ None \notin Entries \cup Operations
  /\ \A x \in {None, Asking, Late} : x \notin Addresses

TypeOK ==
  /\ entry \in [Shares -> Entries \cup {None}]
  /\ reserved \subseteq Ports
  /\ op \in [Callers -> Operations \cup {None}]
  /\ actor \in [Shares -> [target : Generations \cup {None}, port : Ports] \cup {None}]
  /\ proc \in [Shares -> [url : Addresses, connected : BOOLEAN] \cup {None}]
  /\ tap \in [Shares -> Generations \cup {None}]
  /\ pollers \subseteq Pollers
  /\ events \in [Shares -> Seq(Published)]
  /\ mirror \in [share : Shares, status : Statuses] \cup {None}
  /\ used \subseteq Shares
  /\ spawned \in [Shares -> Nat]
  /\ faults \in Nat

Init ==
  /\ entry = [s \in Shares |-> None]
  /\ reserved = {}
  /\ op = [c \in Callers |-> None]
  /\ actor = [s \in Shares |-> None]
  /\ proc = [s \in Shares |-> None]
  /\ spawned = [s \in Shares |-> 0]
  /\ tap = [s \in Shares |-> None]
  /\ pollers = {}
  /\ events = [s \in Shares |-> <<>>]
  /\ mirror = None
  /\ used = {}
  /\ faults = 0

Busy(s)  == \E c \in Callers : op[c] # None /\ op[c].share = s
Begin(c, s) == op[c] = None /\ (Overlap \/ ~Busy(s))
At(c, x) == op[c] # None /\ op[c].at = x
Goto(c, x) == op' = [op EXCEPT ![c].at = x]
Return(c) == op' = [op EXCEPT ![c] = None]

\* Who is bound to a port: the running processes, and those whose end is awaited.
BoundTo(p) ==
  {proc[s].url : s \in {x \in Shares : proc[x] # None /\ actor[x].port = p}}
  \cup {op[c].ending : c \in {d \in Callers : op[d] # None /\ op[d].port = p
                                             /\ op[d].ending # None}}
Ready(p) == \/ \E s \in Shares : proc[s] # None /\ actor[s].port = p /\ proc[s].connected
            \/ \E c \in Callers : op[c] # None /\ op[c].port = p /\ op[c].ending # None

\* update(): nothing happens to a share that was forgotten.
Update(s, e) == entry' = IF entry[s] = None THEN entry ELSE [entry EXCEPT ![s] = e]
Poller(s, gen, port) ==
  [share |-> s, gen |-> gen, port |-> port, asked |-> None, seen |-> FALSE]

-----------------------------------------------------------------------------
(* Starting, restarting and stopping                                       *)

\* start_with, start_folder: a port nobody has or is bound to.
Start(c, s) ==
  /\ Begin(c, s) /\ s \notin used
  /\ \E p \in {q \in Ports \ reserved : BoundTo(q) = {}}, inspect \in BOOLEAN :
       /\ reserved' = reserved \cup {p}
       /\ op' = [op EXCEPT ![c] = [at |-> "target", kind |-> "start", share |-> s, port |-> p,
                                   gen |-> 0, inspect |-> inspect, tap |-> FALSE,
                                   ending |-> None]]
  /\ used' = used \cup {s}
  /\ UNCHANGED <<entry, tap, pollers, mirror, runtimeVars>>

\* set_inspected, to the other setting, or set_host_header, when there is no tap to set it
\* on; both looked before. restart: a new generation, and the tap is taken.
Restart(c, s) ==
  /\ Begin(c, s) /\ entry[s] # None /\ entry[s].gen < MaxRestarts
  /\ LET e == entry[s] IN
     /\ entry' = [entry EXCEPT ![s] = [e EXCEPT !.gen = @ + 1, !.url = None, !.tap = FALSE,
                                                !.status = "Starting"]]
     /\ \E inspect \in BOOLEAN :
          /\ Overlap \/ inspect # e.inspected \/ ~e.tap
          /\ op' = [op EXCEPT ![c] = [at |-> "stop", kind |-> "restart", share |-> s,
                                      port |-> e.port, gen |-> e.gen + 1,
                                      inspect |-> inspect, tap |-> e.tap,
                                      ending |-> None]]
  /\ UNCHANGED <<reserved, tap, used, pollers, mirror, runtimeVars>>

\* MUTANT of Stop: the port is released before the process has ended.
StopReleasing(c, s) ==
  /\ Begin(c, s) /\ entry[s] # None
  /\ LET e == entry[s] IN
     /\ entry' = [entry EXCEPT ![s] = None]
     /\ reserved' = reserved \ {e.port}
     /\ op' = [op EXCEPT ![c] = [at |-> "stop", kind |-> "stop", share |-> s, port |-> e.port,
                                 gen |-> e.gen, inspect |-> FALSE, tap |-> e.tap,
                                 ending |-> None]]
  /\ UNCHANGED <<tap, used, pollers, mirror, runtimeVars>>

\* stop, by a user, the share's own timer, an idle tap or the app's exit: the entry goes first.
Stop(c, s) ==
  /\ Begin(c, s) /\ entry[s] # None
  /\ LET e == entry[s] IN
     /\ entry' = [entry EXCEPT ![s] = None]
     /\ op' = [op EXCEPT ![c] = [at |-> "stop", kind |-> "stop", share |-> s, port |-> e.port,
                                 gen |-> e.gen, inspect |-> FALSE, tap |-> e.tap,
                                 ending |-> None]]
  /\ UNCHANGED <<reserved, tap, used, pollers, mirror, runtimeVars>>

\* supervisor.stop(): nothing to wait for when the map has no connector of the id.
StopConnector(c) ==
  /\ At(c, "stop")
  /\ LET s == op[c].share IN
     /\ op' = [op EXCEPT ![c].at = IF proc[s] = None THEN "untap" ELSE "ending",
                         ![c].ending = IF proc[s] = None THEN None ELSE proc[s].url]
     /\ actor' = [actor EXCEPT ![s] = None]
     /\ proc' = [proc EXCEPT ![s] = None]
  /\ UNCHANGED <<shareVars, pollers, mirror, spawned, events, faults>>

ConnectorStopped(c) ==
  /\ At(c, "ending")
  /\ op' = [op EXCEPT ![c].at = "untap", ![c].ending = None]
  /\ UNCHANGED <<shareVars, pollers, mirror, runtimeVars>>

\* stop_tap: by id, and the id is the share's.
WithoutTap(c) == IF op[c].tap THEN [tap EXCEPT ![op[c].share] = None] ELSE tap

\* The end of stop().
Release(c) ==
  /\ At(c, "untap") /\ op[c].kind = "stop"
  /\ tap' = WithoutTap(c)
  /\ reserved' = reserved \ {op[c].port}
  /\ Return(c)
  /\ UNCHANGED <<entry, used, pollers, mirror, runtimeVars>>

Untap(c) ==
  /\ At(c, "untap") /\ op[c].kind = "restart"
  /\ tap' = WithoutTap(c)
  /\ op' = [op EXCEPT ![c].at = "target", ![c].tap = FALSE]
  /\ UNCHANGED <<entry, reserved, used, pollers, mirror, runtimeVars>>

\* target(): straight to the service, or a new tap in front of it (Inspector::start
\* stops the one there is).
Target(c) ==
  /\ At(c, "target")
  /\ tap' = IF op[c].inspect THEN [tap EXCEPT ![op[c].share] = op[c].gen] ELSE tap
  /\ op' = [op EXCEPT ![c].at = "run", ![c].tap = op[c].inspect]
  /\ UNCHANGED <<entry, reserved, used, pollers, mirror, runtimeVars>>

MayFail(c) == At(c, "run") \/ (At(c, "target") /\ op[c].inspect)

\* A start that fails returns its port; a restarted share keeps its own.
PortsAfterFailure(c) ==
  IF op[c].kind = "start" THEN reserved \ {op[c].port} ELSE reserved

\* MUTANT of GiveUp: a restart that fails returns the port too.
GiveUpReleasing(c) ==
  LET s == op[c].share IN
  /\ MayFail(c)
  /\ tap' = IF At(c, "target") THEN [tap EXCEPT ![s] = None] ELSE WithoutTap(c)
  /\ reserved' = reserved \ {op[c].port}
  /\ Update(s, [entry[s] EXCEPT !.status = "Failed"])
  /\ Return(c)
  /\ UNCHANGED <<used, pollers, mirror, runtimeVars>>

\* MUTANT of GiveUp: the tap stays.
GiveUpTapped(c) ==
  LET s == op[c].share IN
  /\ MayFail(c)
  /\ reserved' = PortsAfterFailure(c)
  /\ Update(s, [entry[s] EXCEPT !.status = "Failed"])
  /\ Return(c)
  /\ UNCHANGED <<tap, used, pollers, mirror, runtimeVars>>

\* MUTANT of GiveUp: a start that fails keeps its port.
GiveUpKeeping(c) ==
  LET s == op[c].share IN
  /\ MayFail(c)
  /\ tap' = IF At(c, "target") THEN [tap EXCEPT ![s] = None] ELSE WithoutTap(c)
  /\ Update(s, [entry[s] EXCEPT !.status = "Failed"])
  /\ Return(c)
  /\ UNCHANGED <<reserved, used, pollers, mirror, runtimeVars>>

\* The tap, the command's config file or supervisor.start() failed, the last of them
\* also because the share runs already. What this operation made is taken down; a
\* restarted share stays, as failed, with its port.
GiveUp(c) ==
  LET s == op[c].share IN
  /\ MayFail(c)
  /\ tap' = IF At(c, "target") THEN [tap EXCEPT ![s] = None] ELSE WithoutTap(c)
  /\ reserved' = PortsAfterFailure(c)
  /\ Update(s, [entry[s] EXCEPT !.status = "Failed"])
  /\ Return(c)
  /\ UNCHANGED <<used, pollers, mirror, runtimeVars>>

StartConnector(c) ==
  LET s == op[c].share IN
  /\ actor[s] = None
  /\ actor' = [actor EXCEPT ![s] = [target |-> IF op[c].tap THEN op[c].gen ELSE None,
                                    port |-> op[c].port]]
  /\ UNCHANGED <<proc, spawned, events, faults>>

\* A new share is in the map once its connector has started, and its address awaited.
RunNew(c) ==
  LET s == op[c].share IN
  /\ At(c, "run") /\ op[c].kind = "start"
  /\ StartConnector(c)
  /\ entry' = [entry EXCEPT ![s] = [port |-> op[c].port, tap |-> op[c].tap, gen |-> 0,
                                    url |-> None, status |-> "Starting",
                                    inspected |-> op[c].tap]]
  /\ pollers' = pollers \cup {Poller(s, 0, op[c].port)}
  /\ Return(c)
  /\ UNCHANGED <<reserved, tap, used, mirror>>

RunAgain(c) ==
  /\ At(c, "run") /\ op[c].kind = "restart"
  /\ StartConnector(c)
  /\ Goto(c, "record")
  /\ UNCHANGED <<shareVars, pollers, mirror>>

\* MUTANT of Record: the new tap is not kept.
RecordUntapped(c) ==
  LET s == op[c].share IN
  /\ At(c, "record")
  /\ Update(s, [entry[s] EXCEPT !.inspected = op[c].tap])
  /\ pollers' = pollers \cup {Poller(s, op[c].gen, op[c].port)}
  /\ Return(c)
  /\ UNCHANGED <<reserved, tap, used, mirror, runtimeVars>>

\* MUTANT of Record: nobody waits for the new address.
RecordUnpolled(c) ==
  LET s == op[c].share IN
  /\ At(c, "record")
  /\ Update(s, [entry[s] EXCEPT !.tap = op[c].tap, !.inspected = op[c].tap])
  /\ Return(c)
  /\ UNCHANGED <<reserved, tap, used, pollers, mirror, runtimeVars>>

\* The end of restart().
Record(c) ==
  LET s == op[c].share IN
  /\ At(c, "record")
  /\ Update(s, [entry[s] EXCEPT !.tap = op[c].tap, !.inspected = op[c].tap])
  /\ pollers' = pollers \cup {Poller(s, op[c].gen, op[c].port)}
  /\ Return(c)
  /\ UNCHANGED <<reserved, tap, used, mirror, runtimeVars>>

-----------------------------------------------------------------------------
(* Waiting for the address (await_url)                                     *)

Current(q) == entry[q.share] # None /\ entry[q.share].gen = q.gen
PollerRest == <<reserved, tap, used, op, mirror, runtimeVars>>

\* A poller whose generation has passed ends without a word.
PollEnds(q) ==
  /\ q.asked = None /\ ~Current(q)
  /\ pollers' = pollers \ {q}
  /\ UNCHANGED <<entry, PollerRest>>

PollGoesOn(q) ==
  /\ q.asked = None /\ Current(q)
  /\ pollers' = (pollers \ {q}) \cup {[q EXCEPT !.asked = Asking]}
  /\ UNCHANGED <<entry, PollerRest>>

\* quick_tunnel_host(): whoever is bound to the port answers, or nobody.
PollHost(q) ==
  /\ q.asked = Asking
  /\ \E u \in BoundTo(q.port) \cup {None} :
       pollers' = (pollers \ {q}) \cup {[q EXCEPT !.asked = u]}
  /\ UNCHANGED <<entry, PollerRest>>

\* ready(), again of whoever is bound to the port. The share is live once it is connected
\* and its name has had time to reach the DNS; the generation is not looked at again.
PollReady(q) ==
  /\ q.asked \in Addresses
  /\ \/ /\ Ready(q.port) /\ q.seen
        /\ Update(q.share, [entry[q.share] EXCEPT !.url = q.asked, !.status = "Live"])
        /\ pollers' = pollers \ {q}
     \/ /\ Update(q.share, [entry[q.share] EXCEPT !.url = q.asked])
        /\ pollers' = (pollers \ {q}) \cup {[q EXCEPT !.asked = None, !.seen = TRUE]}
  /\ UNCHANGED PollerRest

\* The deadline has passed: the generation once more, and then the verdict.
PollTimesOut(q) ==
  /\ q.asked = None /\ Current(q)
  /\ pollers' = (pollers \ {q}) \cup {[q EXCEPT !.asked = Late]}
  /\ UNCHANGED <<entry, PollerRest>>

PollFails(q) ==
  /\ q.asked = Late
  /\ Update(q.share, [entry[q.share] EXCEPT !.status = "Failed"])
  /\ pollers' = pollers \ {q}
  /\ UNCHANGED PollerRest

-----------------------------------------------------------------------------
(* The connector's process, and its states as watch_runtime mirrors them   *)

\* A receiver that lags loses the oldest.
Publish(s, st) ==
  LET all == Append(events[s], st) IN
  events' = [events EXCEPT ![s] = IF Len(all) > MaxEvents THEN Tail(all) ELSE all]
Fault == faults < MaxFaults /\ faults' = faults + 1
RuntimeRest == <<shareVars, op, pollers, mirror>>

\* A cloudflared that finds its port taken exits, and is spawned again later.
Spawn(s) ==
  /\ actor[s] # None /\ proc[s] = None /\ BoundTo(actor[s].port) = {}
  /\ spawned' = [spawned EXCEPT ![s] = @ + 1]
  /\ proc' = [proc EXCEPT ![s] = [url |-> <<s, spawned[s] + 1>>, connected |-> FALSE]]
  /\ UNCHANGED <<RuntimeRest, actor, events, faults>>

Connect(s) ==
  /\ proc[s] # None /\ ~proc[s].connected
  /\ proc' = [proc EXCEPT ![s].connected = TRUE]
  /\ Publish(s, "Healthy")
  /\ UNCHANGED <<RuntimeRest, actor, spawned, faults>>

Disconnect(s) ==
  /\ proc[s] # None /\ proc[s].connected /\ Fault
  /\ proc' = [proc EXCEPT ![s].connected = FALSE]
  /\ Publish(s, "Degraded")
  /\ UNCHANGED <<RuntimeRest, actor, spawned>>

Die(s) ==
  /\ proc[s] # None /\ Fault
  /\ proc' = [proc EXCEPT ![s] = None]
  /\ \E st \in {"Crashed", "CrashLoop"} : Publish(s, st)
  /\ UNCHANGED <<RuntimeRest, actor, spawned>>

\* apply_state: what a state makes of the status.
Mirrored(e, st) ==
  CASE st \in {"Degraded", "Crashed"} -> "Reconnecting"
    [] st = "CrashLoop" -> "Failed"
    [] st = "Healthy" /\ e.status = "Reconnecting" /\ e.url # None -> "Live"
    [] OTHER -> e.status

\* It reads the share and writes its status under two locks.
MirrorReads(s) ==
  /\ mirror = None /\ events[s] # <<>>
  /\ events' = [events EXCEPT ![s] = Tail(@)]
  /\ LET next == IF entry[s] = None THEN None ELSE Mirrored(entry[s], Head(events[s])) IN
     mirror' = IF next = None \/ next = entry[s].status THEN None
               ELSE [share |-> s, status |-> next]
  /\ UNCHANGED <<shareVars, op, pollers, actor, proc, spawned, faults>>

MirrorWrites ==
  /\ mirror # None
  /\ Update(mirror.share, [entry[mirror.share] EXCEPT !.status = mirror.status])
  /\ mirror' = None
  /\ UNCHANGED <<reserved, tap, used, op, pollers, runtimeVars>>

-----------------------------------------------------------------------------
Continue(c) ==
  \/ StopConnector(c) \/ ConnectorStopped(c) \/ Release(c) \/ Untap(c) \/ Target(c)
  \/ GiveUp(c) \/ RunNew(c) \/ RunAgain(c) \/ Record(c)

Poll(q) ==
  \/ PollEnds(q) \/ PollGoesOn(q) \/ PollHost(q) \/ PollReady(q)
  \/ PollTimesOut(q) \/ PollFails(q)

Next ==
  \/ \E c \in Callers : (\E s \in Shares : Start(c, s) \/ Restart(c, s) \/ Stop(c, s)) \/ Continue(c)
  \/ \E q \in pollers : Poll(q)
  \/ \E s \in Shares : Spawn(s) \/ Connect(s) \/ Disconnect(s) \/ Die(s) \/ MirrorReads(s)
  \/ MirrorWrites

Spec == Init /\ [][Next]_vars

\* An operation goes on: stop() ends (Connector), I/O has an outcome. A poller goes on,
\* and its deadline passes however often it asks.
PollersOf(s, g) == {q \in pollers : q.share = s /\ q.gen = g}
Fairness ==
  /\ \A c \in Callers : WF_vars(Continue(c))
  /\ \A s \in Shares, g \in Generations :
       /\ WF_vars(\E q \in PollersOf(s, g) : Poll(q))
       /\ SF_vars(\E q \in PollersOf(s, g) : PollTimesOut(q))
FairSpec == Spec /\ Fairness

-----------------------------------------------------------------------------
(* Safety                                                                  *)

\* A port is reserved exactly as long as a share or an operation that starts or stops
\* one has it: no error path loses one of the 100 ports (ports.rs, quick_share.rs).
PortsAccounted ==
  reserved = {entry[s].port : s \in {x \in Shares : entry[x] # None}}
             \cup {op[c].port : c \in {d \in Callers : op[d] # None
                                                      /\ op[d].kind # "restart"}}

\* No two shares have one port, and a process is on a port reserved for its share until
\* it has ended.
OwnPort ==
  /\ \A s, x \in Shares :
       entry[s] # None /\ entry[x] # None /\ entry[s].port = entry[x].port => s = x
  /\ \A p \in Ports : BoundTo(p) # {} => p \in reserved

\* Stopping a share "forgets it" (quick_share.rs:883) when nothing of it is left: no
\* connector, no process and no tap of a share that is not in the map and not on its
\* way in or out.
NothingForgotten ==
  \A s \in Shares :
    entry[s] = None /\ ~Busy(s) => actor[s] = None /\ proc[s] = None /\ tap[s] = None

\* A share's cloudflared forwards to the service itself or to the tap that is there, and
\* the share knows which ("Requests go through the inspector", quick_share.rs:132).
Forwards ==
  \A s \in Shares :
    entry[s] # None /\ ~Busy(s) =>
      /\ entry[s].tap <=> tap[s] # None
      /\ actor[s] # None => /\ actor[s].target = tap[s]
                            /\ entry[s].inspected <=> tap[s] # None

\* A share never shows the address of another share.
OwnAddress ==
  \A s \in Shares : entry[s] # None /\ entry[s].url # None => entry[s].url[1] = s

\* ShareStatus::Live: "The URL works." (quick_share.rs:94), once what was published has
\* been mirrored and nothing about the share is under way.
LiveWorks ==
  \A s \in Shares :
    /\ entry[s] # None /\ entry[s].status = "Live" /\ ~Busy(s) /\ events[s] = <<>>
    /\ mirror = None
    /\ proc[s] # None /\ proc[s].connected /\ PollersOf(s, entry[s].gen) = {}
    => entry[s].url = proc[s].url

-----------------------------------------------------------------------------
(* Liveness                                                                *)

\* A share does not stay "starting": it goes live, fails, reconnects or is stopped.
StartingEnds ==
  \A s \in Shares :
    entry[s] # None /\ entry[s].status = "Starting"
      ~> entry[s] = None \/ entry[s].status # "Starting"
=============================================================================
