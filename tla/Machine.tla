------------------------------- MODULE Machine -------------------------------
(***************************************************************************)
(* The run modes of one tunnel of this machine (crates/core/src/           *)
(* machine.rs): a connector of the app (Session), a service of the OS      *)
(* (Always-on), and the switches, updates, starts and stops that go from   *)
(* one to the other over several awaits, with no lock. The mode is kept    *)
(* four times: by what runs, in the app's maps, in the database and in the *)
(* token file of the service.                                              *)
(*                                                                         *)
(* The supervisor is used through what Connector shows of it, the service  *)
(* manager through what its callers in service.rs rely on.                 *)
(***************************************************************************)
EXTENDS Naturals, FiniteSets

CONSTANTS
  Ports,      \* PortAllocator's range
  Callers,    \* tasks that call MachineTunnels
  None,
  MaxAsks,    \* bound: calls, the app's ends and launches, the command line's switches
  MaxTrouble  \* bound: calls that fail, connectors that break, ports others take

ASSUME MachineAssumption ==
  /\ {MaxAsks, MaxTrouble} \subseteq Nat
  /\ None \notin Ports

VARIABLES
  up,         \* the app runs
  row,        \* local_tunnels: Always-on
  remembered, \* local_tunnels: the metrics port
  tokenFile,  \* the service's token file is there
  session,    \* the supervisor's connector
  agent,      \* the OS's service
  held,       \* MachineTunnels::held: the port of the session
  services,   \* MachineTunnels::services: the port of the service
  taken,      \* the ports PortAllocator has handed out
  other,      \* a port that another program listens on
  op,         \* what each caller is in the middle of
  asks, trouble,
  odd         \* history: what has happened that a property makes an exception of

stored == <<row, remembered, tokenFile>>
memory == <<held, services, taken>>
runs   == <<session, agent, other>>
vars   == <<up, stored, runs, memory, op, asks, trouble, odd>>

\* dead: between a crash and its restart. alive: it has its metrics port. up: connected.
Connectors == [port : Ports, st : {"dead", "alive", "up"}]
Kinds  == {"on", "off", "update", "start", "stop", "resume"}
Places == {"install", "load", "ready", "unload", "clear", "port", "healthy", "remove",
           "halt", "drop", "row", "adopt"}
Nexts  == {"port", "row", "restore", "end", "done"}
\* old: the service's port when the call began. new: the port a service is put on.
\* next: what follows on stop_session.
Ops == [kind : Kinds, at : Places, old : Ports \cup {None}, new : Ports \cup {None},
        next : Nexts]
Oddities == {"unremembered", "unwritten", "reinstall", "bridge", "manager", "noPort", "end",
             "restored", "broken", "outside"}

\* None is no call and no connector.
ASSUME NoneAssumption == None \notin Ops /\ None \notin Connectors

TypeOK ==
  /\ {up, row, tokenFile} \subseteq BOOLEAN
  /\ {remembered, held, services, other} \subseteq Ports \cup {None}
  /\ {session, agent} \subseteq Connectors \cup {None}
  /\ taken \subseteq Ports
  /\ op \in [Callers -> Ops \cup {None}]
  /\ {asks, trouble} \subseteq Nat
  /\ odd \subseteq Oddities

Init ==
  /\ up = TRUE
  /\ row = FALSE /\ remembered = None /\ tokenFile = FALSE
  /\ session = None /\ agent = None /\ other = None
  /\ held = None /\ services = None /\ taken = {}
  /\ op = [c \in Callers |-> None]
  /\ asks = 0 /\ trouble = 0
  /\ odd = {}

Connected(x) == IF x = None THEN FALSE ELSE x.st = "up"
Serving == Connected(session) \/ Connected(agent)
BoundBy(x) == IF x = None \/ x.st = "dead" THEN {} ELSE {x.port}
Bound == {other} \cup BoundBy(session) \cup BoundBy(agent)
\* PortAllocator: not handed out, and it can be bound now.
FreePorts == Ports \ (taken \cup Bound)
New(p) == [port |-> p, st |-> "alive"]

At(c, x) == op[c] # None /\ op[c].at = x
Goto(c, x) == op' = [op EXCEPT ![c].at = x]
End(c) == op' = [op EXCEPT ![c] = None]
\* stop_session, and what follows on it.
Halt(c, next) == op' = [op EXCEPT ![c].at = "halt", ![c].next = next]

Ask == asks < MaxAsks /\ asks' = asks + 1
Fault == trouble < MaxTrouble /\ trouble' = trouble + 1
NoFault == UNCHANGED trouble
Odd(why) == odd' = odd \cup {why}

Update(c) == op[c].kind = "update"

-----------------------------------------------------------------------------
(* Calls                                                                   *)

Call(c, kind, at) ==
  op' = [op EXCEPT ![c] = [kind |-> kind, at |-> at, old |-> services, new |-> None,
                           next |-> "end"]]

\* set_always_on, up to its first call: nothing to switch, or the new one comes first.
SetAlwaysOn(c, on) ==
  /\ \/ /\ (services # None) = on
        /\ Call(c, IF on THEN "on" ELSE "off", "row")
        /\ UNCHANGED services
     \/ /\ on /\ services = None
        /\ Call(c, "on", "install")
        /\ UNCHANGED services
     \/ /\ ~on /\ services # None
        /\ Call(c, "off", "clear")
        /\ services' = None
  /\ UNCHANGED odd

\* restart_tunnel: nothing runs, or the session restarts, or it is the service's bridge.
RestartTunnel(c) ==
  /\ services # None \/ held # None
  /\ IF services # None THEN Call(c, "update", "clear")
     ELSE op' = [op EXCEPT ![c] = [kind |-> "update", at |-> "halt", old |-> None,
                                   new |-> None, next |-> "port"]]
  /\ UNCHANGED <<services, odd>>

\* A service is reinstalled, a session started.
Startable == IF services # None THEN "unload" ELSE "clear"

\* start (the engine's).
StartTunnel(c) ==
  /\ Call(c, "start", Startable)
  /\ IF row /\ services = None THEN Odd("restored") ELSE UNCHANGED odd
  /\ UNCHANGED services

\* MUTANT of StopTunnel: only the session is stopped.
StopTheSession(c) ==
  /\ Call(c, "stop", "halt")
  /\ UNCHANGED <<services, odd>>

\* stop.
StopTunnel(c) ==
  /\ IF services # None THEN Call(c, "stop", "unload") ELSE Call(c, "stop", "halt")
  /\ UNCHANGED <<services, odd>>

\* resume_tunnel. A session that runs is left alone, one in a crash loop is not; of a
\* service, what was last sampled counts.
ResumeTunnel(c) ==
  /\ \/ row /\ Call(c, "resume", "adopt")
     \/ /\ ~row
        /\ services = None /\ session # None => session.st = "dead"
        /\ Call(c, "resume", Startable)
  /\ UNCHANGED <<services, odd>>

Begin(c) ==
  /\ up /\ op[c] = None /\ Ask
  /\ \/ \E on \in BOOLEAN : SetAlwaysOn(c, on)
     \/ RestartTunnel(c)
     \/ StartTunnel(c)
     \/ StopTunnel(c)
     \/ ResumeTunnel(c)
  /\ UNCHANGED <<up, stored, runs, held, taken, trouble>>

-----------------------------------------------------------------------------
(* Services                                                                *)

\* What is left when install_service fails: an update's old port is let go of.
Uninstalled(c, ports) == taken' = IF Update(c) THEN ports \ {op[c].old} ELSE ports
Failed(c, why) == odd' = odd \cup (IF services # None THEN {"reinstall"} ELSE why)

\* install_service: the token file and a port; the file stays when there is none.
Install(c) ==
  /\ At(c, "install")
  /\ \/ \E p \in FreePorts :
          /\ op' = [op EXCEPT ![c].at = "load", ![c].new = p]
          /\ taken' = taken \cup {p}
          /\ tokenFile' = TRUE
          /\ UNCHANGED <<odd, trouble>>
     \/ /\ FreePorts = {} /\ NoFault
        /\ tokenFile' = TRUE
        /\ Uninstalled(c, taken) /\ Failed(c, {"noPort"}) /\ End(c)
     \/ /\ Fault
        /\ UNCHANGED tokenFile
        /\ Uninstalled(c, taken) /\ Failed(c, {}) /\ End(c)
  /\ UNCHANGED <<up, row, remembered, runs, held, services, asks>>

\* manager.install, which replaces a service. It fails before that or after it.
Load(c) ==
  /\ At(c, "load")
  /\ \/ /\ agent' = New(op[c].new)
        /\ services' = op[c].new
        /\ \/ remembered' = op[c].new /\ UNCHANGED <<odd, trouble>>
           \/ Fault /\ Odd("unremembered") /\ UNCHANGED remembered
        /\ IF op[c].kind \in {"on", "update"} THEN Goto(c, "ready") ELSE End(c)
        /\ Uninstalled(c, taken)
        /\ UNCHANGED tokenFile
     \/ /\ Fault
        /\ agent' \in {agent, None}
        /\ tokenFile' = FALSE
        /\ Uninstalled(c, taken \ {op[c].new}) /\ Failed(c, {}) /\ End(c)
        /\ UNCHANGED <<services, remembered>>
  /\ UNCHANGED <<up, row, session, other, held, asks>>

\* MUTANT of Ready: the service's connections are not waited for.
ReadyAtOnce(c) ==
  /\ At(c, "ready")
  /\ Halt(c, IF Update(c) THEN "done" ELSE "row")
  /\ UNCHANGED <<up, stored, runs, memory, asks, trouble, odd>>

\* MUTANT of Ready: the session goes on next to the service.
ReadyKeeping(c) ==
  /\ At(c, "ready")
  /\ IF Connected(agent) THEN Goto(c, "row") ELSE Goto(c, "unload")
  /\ UNCHANGED <<up, stored, runs, memory, asks, trouble, odd>>

\* wait_ready, up to 30 s.
Ready(c) ==
  /\ At(c, "ready")
  /\ IF Connected(agent) /\ agent.port = op[c].new
     THEN Halt(c, IF Update(c) THEN "done" ELSE "row") /\ UNCHANGED odd
     ELSE IF Update(c) THEN End(c) /\ Odd("bridge")
     ELSE Goto(c, "unload") /\ UNCHANGED odd
  /\ UNCHANGED <<up, stored, runs, memory, asks, trouble>>

\* A failed switch on puts the session's port back, if that can be written.
Restored(c) ==
  remembered' \in IF op[c].kind = "on" /\ held # None THEN {held, remembered} ELSE {remembered}
AfterUnload(c) == IF op[c].kind \in {"start", "resume"} THEN Goto(c, "install") ELSE End(c)

\* uninstall_service; an error stops it half-way, and start() and a switch go on.
Unload(c) ==
  /\ At(c, "unload")
  /\ \/ /\ agent' = None /\ UNCHANGED <<odd, trouble>>
        /\ tokenFile' = FALSE
        /\ services' = None /\ taken' = taken \ {services}
     \/ /\ Fault /\ Odd("manager")
        /\ agent' \in {agent, None}
        /\ UNCHANGED <<tokenFile, services, taken>>
  /\ Restored(c) /\ AfterUnload(c)
  /\ UNCHANGED <<up, row, session, other, held, asks>>

\* Switching off: the service goes after the session has connected.
Remove(c) ==
  /\ At(c, "remove")
  /\ \/ /\ agent' = None /\ UNCHANGED <<odd, trouble>>
        /\ tokenFile' = FALSE
        /\ taken' = taken \ {op[c].old}
        /\ Goto(c, "row")
     \/ /\ Fault /\ Odd("manager")
        /\ agent' \in {agent, None}
        /\ End(c)
        /\ UNCHANGED <<tokenFile, taken>>
  /\ UNCHANGED <<up, row, remembered, session, other, held, services, asks>>

\* The mode is written last.
WriteRow(c) ==
  /\ At(c, "row")
  /\ End(c)
  /\ \/ row' = (op[c].kind = "on") /\ UNCHANGED <<odd, trouble>>
     \/ Fault /\ Odd("unwritten") /\ UNCHANGED row
  /\ UNCHANGED <<up, remembered, tokenFile, runs, memory, asks>>

\* MUTANT of Adopt: the remembered port is not looked at.
AdoptAny(c) ==
  /\ At(c, "adopt")
  /\ agent # None
  /\ taken' = taken \cup {remembered} /\ services' = remembered
  /\ End(c)
  /\ UNCHANGED <<up, stored, runs, held, asks, trouble, odd>>

\* resume_tunnel of an Always-on tunnel: a loaded service is watched on the port that is
\* remembered, and claimed if it is not bound, which it is while the service runs.
Adopt(c) ==
  /\ At(c, "adopt")
  /\ \/ /\ agent # None /\ remembered # None
        /\ taken' = IF remembered \in FreePorts THEN taken \cup {remembered} ELSE taken
        /\ services' = remembered
        /\ End(c)
     \/ /\ agent = None \/ remembered = None
        /\ Goto(c, "install")
        /\ UNCHANGED <<taken, services>>
  /\ UNCHANGED <<up, stored, runs, held, asks, trouble, odd>>

-----------------------------------------------------------------------------
(* Sessions                                                                *)

\* MUTANT of Restore: a service whose switch failed stays forgotten.
RestoreNothing(c) == UNCHANGED services

\* restore_service.
Restore(c) == services' = op[c].old

\* start_session fails: a switch puts the service back, an update is over.
NoSession(c) ==
  /\ IF op[c].kind = "off" THEN Restore(c) ELSE UNCHANGED services
  /\ End(c)

\* start_session clears what is left of a connector.
Clear(c) ==
  /\ At(c, "clear")
  /\ \/ /\ IF session = None THEN Goto(c, "port") ELSE Halt(c, "port")
        /\ UNCHANGED <<services, trouble>>
     \/ Fault /\ NoSession(c)
  /\ UNCHANGED <<up, stored, runs, held, taken, asks, odd>>

\* MUTANT of PortFor: the port that is used is remembered in place of a busy one.
PortForAny(p) ==
  /\ p \in FreePorts
  /\ remembered' = p

\* port_for: the remembered port if it is free; another is remembered if none was and it
\* can be written.
PortFor(p) ==
  /\ p \in FreePorts
  /\ remembered \in FreePorts => p = remembered
  /\ remembered' \in IF remembered = None THEN {p, None} ELSE {remembered}

\* start_session: the supervisor refuses a second connector.
StartSession(c) ==
  /\ At(c, "port")
  /\ \/ \E p \in Ports :
          /\ PortFor(p)
          /\ \/ /\ session = None
                /\ session' = New(p) /\ held' = p /\ taken' = taken \cup {p}
                /\ IF op[c].kind \in {"off", "update"} THEN Goto(c, "healthy") ELSE End(c)
                /\ UNCHANGED services
             \/ /\ session # None
                /\ NoSession(c)
                /\ UNCHANGED <<session, held, taken>>
          /\ NoFault
     \/ /\ (FreePorts = {} /\ NoFault) \/ Fault
        /\ NoSession(c)
        /\ UNCHANGED <<remembered, session, held, taken>>
  /\ UNCHANGED <<up, row, tokenFile, agent, other, asks, odd>>

\* wait_session_healthy, up to 30 s.
Healthy(c) ==
  /\ At(c, "healthy")
  /\ IF Connected(session)
     THEN IF op[c].kind = "off" THEN Goto(c, "remove")
          ELSE IF op[c].old # None THEN Goto(c, "install") ELSE End(c)
     ELSE IF op[c].kind = "off" THEN Halt(c, "restore")
          ELSE IF op[c].old # None THEN Halt(c, "end") ELSE End(c)
  /\ UNCHANGED <<up, stored, runs, memory, asks, trouble, odd>>

\* stop_session: the supervisor stops the connector ...
HaltSession(c) ==
  /\ At(c, "halt")
  /\ session' = None
  /\ Goto(c, "drop")
  /\ UNCHANGED <<up, stored, agent, other, memory, asks, trouble, odd>>

\* MUTANT of DropPort: the port is not released.
DropNoPort(c) ==
  /\ At(c, "drop")
  /\ held' = None
  /\ CASE op[c].next \in {"port", "row"} -> Goto(c, op[c].next) /\ UNCHANGED services
       [] op[c].next = "restore" -> End(c) /\ Restore(c)
       [] OTHER -> End(c) /\ UNCHANGED services
  /\ UNCHANGED <<up, stored, runs, taken, asks, trouble, odd>>

\* ... and its port is released.
DropPort(c) ==
  /\ At(c, "drop")
  /\ held' = None
  /\ taken' = taken \ {held}
  /\ CASE op[c].next \in {"port", "row"} -> Goto(c, op[c].next) /\ UNCHANGED services
       [] op[c].next = "restore" -> End(c) /\ Restore(c)
       [] OTHER -> End(c) /\ UNCHANGED services
  /\ UNCHANGED <<up, stored, runs, asks, trouble, odd>>

-----------------------------------------------------------------------------
(* What goes on around it                                                  *)

Alive(x) == IF x = None THEN FALSE ELSE x.st = "alive"
\* A connector registers its connections.
Connect ==
  /\ \/ Alive(session) /\ session' = [session EXCEPT !.st = "up"]
        /\ UNCHANGED agent
     \/ Alive(agent) /\ agent' = [agent EXCEPT !.st = "up"]
        /\ UNCHANGED session
  /\ UNCHANGED <<up, stored, other, memory, op, asks, trouble, odd>>

Broken(x, st) == IF x = None THEN FALSE ELSE x.st \notin {"dead", st}
\* It loses them, or its process dies ...
Break ==
  /\ Fault
  /\ \E st \in {"alive", "dead"} :
       \/ Broken(session, st) /\ session' = [session EXCEPT !.st = st] /\ UNCHANGED agent
       \/ Broken(agent, st) /\ agent' = [agent EXCEPT !.st = st] /\ UNCHANGED session
  /\ IF \E c \in Callers : op[c] # None THEN Odd("broken") ELSE UNCHANGED odd
  /\ UNCHANGED <<up, stored, other, memory, op, asks>>

Dead(x) == IF x = None THEN FALSE ELSE x.st = "dead" /\ x.port \notin Bound
\* ... and is started again, by the supervisor or by the OS, once it can have its port.
Revive ==
  /\ \/ Dead(session) /\ session' = [session EXCEPT !.st = "alive"] /\ UNCHANGED agent
     \/ Dead(agent) /\ agent' = [agent EXCEPT !.st = "alive"] /\ UNCHANGED session
  /\ UNCHANGED <<up, stored, other, memory, op, asks, trouble, odd>>

\* Another program takes a port, and leaves it.
OtherBinds ==
  /\ Fault
  /\ other = None
  /\ other' \in Ports \ Bound
  /\ UNCHANGED <<up, stored, session, agent, memory, op, asks, odd>>
OtherLeaves ==
  /\ other # None
  /\ other' = None
  /\ UNCHANGED <<up, stored, session, agent, memory, op, asks, trouble, odd>>

\* The app quits or dies, its sessions with it (Connector shows that the next launch ends
\* what is left of them first).
EndApp ==
  /\ up /\ Ask
  /\ up' = FALSE
  /\ session' = None
  /\ held' = None /\ services' = None /\ taken' = {}
  /\ op' = [c \in Callers |-> None]
  /\ IF \E c \in Callers : op[c] # None THEN Odd("end") ELSE UNCHANGED odd
  /\ UNCHANGED <<stored, agent, other, trouble>>

\* A launch resumes what this machine runs.
Launch(c) ==
  /\ ~up
  /\ up' = TRUE
  /\ Call(c, "resume", IF row THEN "adopt" ELSE "clear")
  /\ UNCHANGED <<stored, runs, memory, asks, trouble, odd>>

\* `teitunnel always-on on|off`, in a process of its own, with maps and ports of its own:
\* set_always_on finds no service, disable_service starts nothing.
CommandLine ==
  /\ Ask /\ Fault
  /\ \/ \E p \in Ports \ Bound :
          /\ agent' = [port |-> p, st |-> "up"]
          /\ remembered' = p /\ tokenFile' = TRUE /\ row' = TRUE
     \/ agent' = None /\ tokenFile' = FALSE /\ row' = FALSE /\ UNCHANGED remembered
  /\ Odd("outside")
  /\ UNCHANGED <<up, session, other, memory, op>>

Step(c) ==
  \/ Install(c) \/ Load(c) \/ Ready(c) \/ Unload(c) \/ Remove(c) \/ WriteRow(c) \/ Adopt(c)
  \/ Clear(c) \/ StartSession(c) \/ Healthy(c) \/ HaltSession(c) \/ DropPort(c)

Next ==
  \/ \E c \in Callers : Begin(c) \/ Step(c) \/ Launch(c)
  \/ Connect \/ Break \/ Revive \/ OtherBinds \/ OtherLeaves \/ EndApp \/ CommandLine

Spec == Init /\ [][Next]_vars

\* Every wait has an end: 30 s for a connection, the supervisor's grace period, launchctl's.
FairSpec == Spec /\ \A c \in Callers : WF_vars(Step(c))

-----------------------------------------------------------------------------
(* Safety                                                                  *)

Quiet == \A c \in Callers : op[c] = None
Not(why) == odd \cap why = {}

\* What leaves the four records of the mode apart, and the next launch, start or switch to
\* put them together: a call to the service manager or a write to the database that
\* failed, an update that did not end, an app that ended in a call, another process.
Halfway == {"manager", "unwritten", "unremembered", "reinstall", "bridge", "end", "outside"}

\* At rest a service that is loaded is one the next launch or login finds: the database has
\* it as Always-on, on the port it is on, and its token file is there ("exists only while
\* the service is installed", machine.rs:6-8).
Adoptable ==
  Quiet /\ agent # None /\ Not(Halfway) => row /\ remembered = agent.port /\ tokenFile

\* ... and the app watches it there: a switch that failed has put back what it forgot.
ServiceKnown == up /\ Quiet /\ agent # None /\ Not(Halfway) => services = agent.port

\* At rest a tunnel is not run twice.
NotTwice == Quiet /\ Not(Halfway \cup {"restored"}) => session = None \/ agent = None

\* A port that was handed out is one somebody will release.
Users == {held, services} \cup UNION {{op[c].old, op[c].new} : c \in {d \in Callers : op[d] # None}}
NoPortLost == Not({"manager", "unremembered", "reinstall", "outside"}) => taken \subseteq Users

-----------------------------------------------------------------------------
(* What a step may not do                                                  *)

Removes(c) ==
  \/ op[c].kind = "on" /\ At(c, "halt")
  \/ op[c].kind = "off" /\ At(c, "remove")
  \/ op[c].kind = "update" /\ op[c].old # None
       /\ (At(c, "load") \/ (At(c, "halt") /\ op[c].next = "done"))

\* "Without a gap": when the old one is stopped the new one is connected, unless it has
\* broken since, or another process has come between.
NoGap ==
  [][\A c \in Callers :
       op[c] # None /\ up' /\ op'[c] # op[c] /\ Removes(c) /\ Not({"broken", "outside"}) /\ Serving
         => Serving']_vars

\* What is stopped does not run.
StopStops ==
  [][\A c \in Callers :
       op[c] # None /\ op[c].kind = "stop" /\ op'[c] = None /\ up'
       /\ Not(Halfway \cup {"restored"})' => session' = None /\ agent' = None]_vars

=============================================================================
