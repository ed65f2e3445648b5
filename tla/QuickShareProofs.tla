--------------------------- MODULE QuickShareProofs ---------------------------
(***************************************************************************)
(* Theorems about QuickShare for every number of shares, ports and callers *)
(* and every bound: its types and its ports whether or not operations on a *)
(* share overlap, and what holds when they do not.                         *)
(***************************************************************************)
EXTENDS QuickShare, TLAPS

-----------------------------------------------------------------------------
(* Type correctness                                                        *)

LEMMA InitTypeOK == Init => TypeOK
<1> SUFFICES ASSUME Init PROVE TypeOK
  OBVIOUS
<1>1. events \in [Shares -> Seq(Published)]
  BY DEF Init
<1>2. QED
  BY <1>1 DEF Init, TypeOK

\* A status or an address written to a share keeps what the map holds typed.
LEMMA UpdateTypes ==
  ASSUME TypeOK, NEW s \in Shares, NEW e, Update(s, e), entry[s] # None => e \in Entries
  PROVE  entry' \in [Shares -> Entries \cup {None}]
  BY DEF TypeOK, Update

LEMMA CallTypes ==
  ASSUME TypeOK, NEW c \in Callers,
         \/ \E s \in Shares : Start(c, s) \/ Restart(c, s) \/ Stop(c, s)
         \/ Continue(c)
  PROVE  TypeOK'
<1> USE QuickShareAssumption DEF TypeOK
<1>1. ASSUME NEW s \in Shares, Start(c, s) PROVE TypeOK'
  <2>1. PICK p \in Ports, inspect \in BOOLEAN :
          /\ reserved' = reserved \cup {p}
          /\ op' = [op EXCEPT ![c] = [at |-> "target", kind |-> "start", share |-> s,
                                      port |-> p, gen |-> 0, inspect |-> inspect,
                                      tap |-> FALSE, ending |-> None]]
    BY <1>1 DEF Start
  <2>2. op' \in [Callers -> Operations \cup {None}]
    BY <2>1 DEF Operations, Generations
  <2>3. QED
    BY <1>1, <2>1, <2>2 DEF Start, runtimeVars
<1>2. ASSUME NEW s \in Shares, Restart(c, s) PROVE TypeOK'
  <2>1. entry[s] \in Entries /\ entry[s].gen < MaxRestarts
    BY <1>2 DEF Restart
  <2>2. entry[s].gen + 1 \in Generations
    BY <2>1 DEF Entries, Generations
  <2>3. entry' \in [Shares -> Entries \cup {None}]
    BY <1>2, <2>1, <2>2 DEF Restart, Entries, Statuses
  <2>4. op' \in [Callers -> Operations \cup {None}]
    <3>1. PICK inspect \in BOOLEAN :
            op' = [op EXCEPT ![c] = [at |-> "stop", kind |-> "restart", share |-> s,
                                     port |-> entry[s].port, gen |-> entry[s].gen + 1,
                                     inspect |-> inspect, tap |-> entry[s].tap,
                                     ending |-> None]]
      BY <1>2 DEF Restart
    <3>2. entry[s].port \in Ports /\ entry[s].tap \in BOOLEAN
      BY <2>1 DEF Entries
    <3>3. [at |-> "stop", kind |-> "restart", share |-> s, port |-> entry[s].port,
           gen |-> entry[s].gen + 1, inspect |-> inspect, tap |-> entry[s].tap,
           ending |-> None] \in Operations
      BY <2>2, <3>2 DEF Operations
    <3>4. QED
      BY <3>1, <3>3
  <2>5. QED
    BY <1>2, <2>3, <2>4 DEF Restart, runtimeVars
<1>3. ASSUME NEW s \in Shares, Stop(c, s) PROVE TypeOK'
  <2>1. op' \in [Callers -> Operations \cup {None}]
    BY <1>3, SMTT(30) DEF Stop, Entries, Operations
  <2>2. QED
    BY <1>3, <2>1 DEF Stop, runtimeVars
<1>4. CASE StopConnector(c)
  <2>1. op[c] \in Operations
    BY <1>4 DEF StopConnector, At
  <2>2. op' \in [Callers -> Operations \cup {None}]
    <3> DEFINE url == IF proc[op[c].share] = None THEN None ELSE proc[op[c].share].url
               next == [op[c] EXCEPT
                          !.at = IF proc[op[c].share] = None THEN "untap" ELSE "ending",
                          !.ending = url]
    <3>1. url \in Addresses \cup {None}
      BY <2>1 DEF Operations
    <3>2. next \in Operations
      BY <2>1, <3>1 DEF Operations
    <3>3. op' = [op EXCEPT ![c] = next]
      BY <1>4 DEF StopConnector
    <3>4. QED
      BY <3>2, <3>3
  <2>3. QED
    BY <1>4, <2>1, <2>2, Zenon DEF StopConnector, shareVars, Operations
<1>5. CASE ConnectorStopped(c)
  <2>1. op[c] \in Operations
    BY <1>5 DEF ConnectorStopped, At
  <2>2. op' \in [Callers -> Operations \cup {None}]
    BY <1>5, <2>1 DEF ConnectorStopped, Operations
  <2>3. QED
    BY <1>5, <2>2 DEF ConnectorStopped, shareVars, runtimeVars
<1>6. CASE Release(c)
  <2>1. op[c] \in Operations
    BY <1>6 DEF Release, At
  <2>2. tap' \in [Shares -> Generations \cup {None}]
    BY <1>6, <2>1 DEF Release, WithoutTap
  <2>3. QED
    BY <1>6, <2>2 DEF Release, Return, runtimeVars
<1>7. CASE Untap(c)
  <2>1. op[c] \in Operations
    BY <1>7 DEF Untap, At
  <2>2. tap' \in [Shares -> Generations \cup {None}]
    BY <1>7, <2>1 DEF Untap, WithoutTap
  <2>3. op' \in [Callers -> Operations \cup {None}]
    BY <1>7, <2>1 DEF Untap, Operations
  <2>4. QED
    BY <1>7, <2>2, <2>3 DEF Untap, runtimeVars
<1>8. CASE Target(c)
  <2>1. op[c] \in Operations
    BY <1>8 DEF Target, At
  <2>2. tap' \in [Shares -> Generations \cup {None}]
    BY <1>8, <2>1 DEF Target, Operations
  <2>3. op' \in [Callers -> Operations \cup {None}]
    BY <1>8, <2>1 DEF Target, Operations
  <2>4. QED
    BY <1>8, <2>2, <2>3 DEF Target, runtimeVars
<1>9. CASE GiveUp(c)
  <2>1. op[c] \in Operations /\ op[c].share \in Shares
    BY <1>9 DEF GiveUp, PortsAfterFailure, MayFail, At, Operations
  <2>2. entry' \in [Shares -> Entries \cup {None}]
    <3>1. entry[op[c].share] # None
            => [entry[op[c].share] EXCEPT !.status = "Failed"] \in Entries
      <4> HAVE entry[op[c].share] # None
      <4>1. entry[op[c].share] \in Entries
        BY <2>1
      <4>2. QED
        BY <4>1 DEF Entries, Statuses
    <3>2. QED
      BY <1>9, <2>1, <3>1, UpdateTypes DEF GiveUp, PortsAfterFailure
  <2>3. tap' \in [Shares -> Generations \cup {None}]
    BY <1>9, <2>1 DEF GiveUp, PortsAfterFailure, WithoutTap
  <2>4. QED
    BY <1>9, <2>2, <2>3 DEF GiveUp, PortsAfterFailure, Return, runtimeVars
<1>10. CASE RunNew(c)
  <2>1. op[c] \in Operations
    BY <1>10 DEF RunNew, At
  <2>2. actor' \in [Shares -> [target : Generations \cup {None}, port : Ports] \cup {None}]
    BY <1>10, <2>1 DEF RunNew, StartConnector, Operations
  <2>3. entry' \in [Shares -> Entries \cup {None}]
    BY <1>10, <2>1 DEF RunNew, Operations, Entries, Statuses, Generations
  <2>4. pollers' \subseteq Pollers
    <3>1. 0 \in Generations /\ op[c].share \in Shares /\ op[c].port \in Ports
      BY <2>1 DEF Generations, Operations
    <3>2. Poller(op[c].share, 0, op[c].port) \in Pollers
      BY <3>1 DEF Poller, Pollers
    <3>3. QED
      BY <1>10, <3>2 DEF RunNew
  <2>5. QED
    BY <1>10, <2>2, <2>3, <2>4 DEF RunNew, StartConnector, Return
<1>11. CASE RunAgain(c)
  <2>1. op[c] \in Operations
    BY <1>11 DEF RunAgain, At
  <2>2. actor' \in [Shares -> [target : Generations \cup {None}, port : Ports] \cup {None}]
    BY <1>11, <2>1 DEF RunAgain, StartConnector, Operations
  <2>3. op' \in [Callers -> Operations \cup {None}]
    BY <1>11, <2>1 DEF RunAgain, Goto, Operations
  <2>4. QED
    BY <1>11, <2>2, <2>3 DEF RunAgain, StartConnector, shareVars
<1>12. CASE Record(c)
  <2>1. op[c] \in Operations /\ op[c].share \in Shares /\ op[c].tap \in BOOLEAN
    BY <1>12 DEF Record, At, Operations
  <2>2. entry' \in [Shares -> Entries \cup {None}]
    <3>1. entry[op[c].share] # None
            => [entry[op[c].share] EXCEPT !.tap = op[c].tap, !.inspected = op[c].tap]
                 \in Entries
      <4>1. \A e \in Entries, b \in BOOLEAN :
              [e EXCEPT !.tap = b, !.inspected = b] \in Entries
        BY DEF Entries
      <4>2. entry[op[c].share] \in Entries \cup {None}
        BY <2>1
      <4>3. QED
        BY <2>1, <4>1, <4>2
    <3>2. QED
      BY <1>12, <2>1, <3>1, UpdateTypes DEF Record
  <2>3. pollers' \subseteq Pollers
    <3>1. op[c].gen \in Generations /\ op[c].port \in Ports
      BY <2>1 DEF Operations
    <3>2. Poller(op[c].share, op[c].gen, op[c].port) \in Pollers
      BY <2>1, <3>1 DEF Poller, Pollers
    <3>3. QED
      BY <1>12, <3>2 DEF Record
  <2>4. QED
    BY <1>12, <2>2, <2>3 DEF Record, Return, runtimeVars
<1>13. QED
  BY <1>1, <1>2, <1>3, <1>4, <1>5, <1>6, <1>7, <1>8, <1>9, <1>10, <1>11, <1>12 DEF Continue

LEMMA PollTypes ==
  ASSUME TypeOK, NEW q \in pollers, Poll(q)
  PROVE  TypeOK'
<1> USE DEF TypeOK
<1>1. q \in Pollers /\ q.share \in Shares
  BY DEF Pollers
<1>2. /\ [q EXCEPT !.asked = Asking] \in Pollers
      /\ [q EXCEPT !.asked = Late] \in Pollers
      /\ [q EXCEPT !.asked = None, !.seen = TRUE] \in Pollers
  BY <1>1 DEF Pollers
<1>3. CASE PollEnds(q)
  BY <1>3 DEF PollEnds, PollerRest, runtimeVars
<1>4. CASE PollGoesOn(q) \/ PollTimesOut(q)
  BY <1>2, <1>4 DEF PollGoesOn, PollTimesOut, PollerRest, runtimeVars
<1>5. CASE PollHost(q)
  <2>1. \A u \in BoundTo(q.port) : u \in Addresses
    BY DEF BoundTo, Operations
  <2>2. \A u \in Addresses \cup {None} : [q EXCEPT !.asked = u] \in Pollers
    BY <1>1 DEF Pollers
  <2>3. QED
    BY <1>5, <2>1, <2>2 DEF PollHost, PollerRest, runtimeVars
<1>6. CASE PollReady(q)
  <2>1. q.asked \in Addresses
    BY <1>6 DEF PollReady
  <2>2. entry[q.share] # None =>
          /\ [entry[q.share] EXCEPT !.url = q.asked, !.status = "Live"] \in Entries
          /\ [entry[q.share] EXCEPT !.url = q.asked] \in Entries
    <3> HAVE entry[q.share] # None
    <3>1. entry[q.share] \in Entries
      BY <1>1
    <3>2. QED
      BY <2>1, <3>1 DEF Entries, Statuses
  <2>3. entry' \in [Shares -> Entries \cup {None}]
    BY <1>1, <1>6, <2>2, UpdateTypes DEF PollReady
  <2>4. QED
    BY <1>2, <1>6, <2>3 DEF PollReady, PollerRest, runtimeVars
<1>7. CASE PollFails(q)
  <2>1. entry[q.share] # None => [entry[q.share] EXCEPT !.status = "Failed"] \in Entries
    <3> HAVE entry[q.share] # None
    <3>1. entry[q.share] \in Entries
      BY <1>1
    <3>2. QED
      BY <3>1 DEF Entries, Statuses
  <2>2. entry' \in [Shares -> Entries \cup {None}]
    BY <1>1, <1>7, <2>1, UpdateTypes DEF PollFails
  <2>3. QED
    BY <1>7, <2>2 DEF PollFails, PollerRest, runtimeVars
<1>8. QED
  BY <1>3, <1>4, <1>5, <1>6, <1>7 DEF Poll

\* The channel of a share's states stays one, whatever is lost from it.
LEMMA PublishTypes ==
  ASSUME TypeOK, NEW s \in Shares, NEW st \in Published, Publish(s, st)
  PROVE  events' \in [Shares -> Seq(Published)]
<1> DEFINE all == Append(events[s], st)
<1>1. events[s] \in Seq(Published)
  BY DEF TypeOK
<1>2. all \in Seq(Published) /\ Len(all) = Len(events[s]) + 1
  BY <1>1
<1>3. all # <<>>
  BY <1>1, <1>2
<1>4. Tail(all) \in Seq(Published)
  BY <1>2, <1>3
<1>5. QED
  BY <1>2, <1>4 DEF Publish, TypeOK

LEMMA RuntimeTypes ==
  ASSUME TypeOK, NEW s \in Shares, Spawn(s) \/ Connect(s) \/ Disconnect(s) \/ Die(s)
  PROVE  TypeOK'
<1> USE QuickShareAssumption DEF TypeOK, RuntimeRest, shareVars
<1>1. CASE Spawn(s)
  <2>1. <<s, spawned[s] + 1>> \in Addresses
    BY DEF Addresses
  <2>2. QED
    BY <1>1, <2>1 DEF Spawn
<1>2. CASE Connect(s)
  <2>1. events' \in [Shares -> Seq(Published)]
    BY <1>2, PublishTypes DEF Connect, Published
  <2>2. proc' \in [Shares -> [url : Addresses, connected : BOOLEAN] \cup {None}]
    BY <1>2 DEF Connect
  <2>3. QED
    BY <1>2, <2>1, <2>2 DEF Connect
<1>3. CASE Disconnect(s)
  <2>1. events' \in [Shares -> Seq(Published)]
    BY <1>3, PublishTypes DEF Disconnect, Published
  <2>2. proc' \in [Shares -> [url : Addresses, connected : BOOLEAN] \cup {None}]
    BY <1>3 DEF Disconnect
  <2>3. QED
    BY <1>3, <2>1, <2>2, SMTT(30) DEF Disconnect, Fault
<1>4. CASE Die(s)
  <2>1. PICK st \in {"Crashed", "CrashLoop"} : Publish(s, st)
    BY <1>4 DEF Die
  <2>2. events' \in [Shares -> Seq(Published)]
    BY <2>1, PublishTypes DEF Published
  <2>3. /\ proc' \in [Shares -> [url : Addresses, connected : BOOLEAN] \cup {None}]
        /\ faults' \in Nat
    BY <1>4 DEF Die, Fault
  <2>4. UNCHANGED <<entry, reserved, tap, used, op, pollers, mirror, actor, spawned>>
    BY <1>4 DEF Die
  <2>5. QED
    BY <2>2, <2>3, <2>4
<1>5. QED
  BY <1>1, <1>2, <1>3, <1>4

LEMMA MirrorTypes ==
  ASSUME TypeOK, MirrorWrites \/ \E s \in Shares : MirrorReads(s)
  PROVE  TypeOK'
<1> USE DEF TypeOK
<1>1. ASSUME NEW s \in Shares, MirrorReads(s) PROVE TypeOK'
  <2>1. events' \in [Shares -> Seq(Published)]
    <3>1. events[s] \in Seq(Published) /\ events[s] # <<>>
      BY <1>1 DEF MirrorReads
    <3>2. Tail(events[s]) \in Seq(Published)
      BY <3>1
    <3>3. QED
      BY <1>1, <3>2 DEF MirrorReads
  <2>2. mirror' \in [share : Shares, status : Statuses] \cup {None}
    <3>1. \A e \in Entries, st \in Published : Mirrored(e, st) \in Statuses
      BY DEF Mirrored, Entries, Statuses, Published
    <3>2. entry[s] # None => Mirrored(entry[s], Head(events[s])) \in Statuses
      <4>1. Head(events[s]) \in Published
        BY <1>1 DEF MirrorReads
      <4>2. QED
        BY <3>1, <4>1
    <3>3. QED
      BY <1>1, <3>2 DEF MirrorReads
  <2>3. QED
    BY <1>1, <2>1, <2>2 DEF MirrorReads, shareVars
<1>2. CASE MirrorWrites
  <2>1. mirror \in [share : Shares, status : Statuses]
    BY <1>2 DEF MirrorWrites
  <2>2. entry[mirror.share] # None
          => [entry[mirror.share] EXCEPT !.status = mirror.status] \in Entries
    <3> HAVE entry[mirror.share] # None
    <3>1. entry[mirror.share] \in Entries
      BY <2>1
    <3>2. QED
      BY <2>1, <3>1 DEF Entries
  <2>3. entry' \in [Shares -> Entries \cup {None}]
    BY <1>2, <2>1, <2>2, UpdateTypes DEF MirrorWrites
  <2>4. QED
    BY <1>2, <2>3 DEF MirrorWrites, runtimeVars
<1>3. QED
  BY <1>1, <1>2

LEMMA NextTypeOK == TypeOK /\ [Next]_vars => TypeOK'
<1>1. ASSUME TypeOK, UNCHANGED vars PROVE TypeOK'
  BY <1>1 DEF TypeOK, vars, shareVars, runtimeVars
<1>2. QED
  BY <1>1, CallTypes, PollTypes, RuntimeTypes, MirrorTypes DEF Next

\* Every variable of the model keeps its type (quick_share.rs).
THEOREM TypeCorrect == Spec => []TypeOK
  BY InitTypeOK, NextTypeOK, PTL DEF Spec

-----------------------------------------------------------------------------
(* Ports                                                                   *)

\* A call that starts or stops a share has its port; one that restarts it leaves the
\* port with the share.
Has(c) == op[c] # None /\ op[c].kind # "restart"

\* Whoever has a port is the only one: so a release gives away nobody else's.
OnePortEach ==
  /\ \A s, x \in Shares :
       entry[s] # None /\ entry[x] # None /\ entry[s].port = entry[x].port => s = x
  /\ \A c, d \in Callers : Has(c) /\ Has(d) /\ op[c].port = op[d].port => c = d
  /\ \A s \in Shares, c \in Callers :
       entry[s] # None /\ Has(c) => entry[s].port # op[c].port

\* A share is started once, and is in the map only afterwards: RunNew overwrites no entry.
StartedOnce ==
  /\ \A s \in Shares : entry[s] # None => s \in used
  /\ \A c \in Callers :
       op[c] # None /\ op[c].kind = "start" =>
         /\ op[c].share \in used /\ entry[op[c].share] = None
         /\ \A d \in Callers : op[d] # None /\ op[d].kind = "start"
                                /\ op[d].share = op[c].share => d = c

\* Which awaits a call may be at: only Release ends a stop, only RunNew or GiveUp a start.
InOrder ==
  \A c \in Callers :
    op[c] # None =>
      /\ op[c].kind = "start" => op[c].at \in {"target", "run"}
      /\ op[c].kind = "stop" => op[c].at \in {"stop", "ending", "untap"}

PortInv == TypeOK /\ PortsAccounted /\ OnePortEach /\ StartedOnce /\ InOrder

Held(p) ==
  \/ \E s \in Shares : entry[s] # None /\ entry[s].port = p
  \/ \E c \in Callers : Has(c) /\ op[c].port = p

LEMMA Accounting ==
  /\ PortsAccounted <=> \A p : p \in reserved <=> Held(p)
  /\ PortsAccounted' <=> \A p : p \in reserved' <=> Held(p)'
  BY DEF PortsAccounted, Held, Has

SharesKeepPorts ==
  \A s \in Shares : /\ entry'[s] = None <=> entry[s] = None
                    /\ entry[s] # None => entry'[s].port = entry[s].port

\* A step that moves no port: shares come and go nowhere, calls with a port keep it.
MovesNoPort ==
  /\ UNCHANGED <<reserved, used>>
  /\ SharesKeepPorts
  /\ \A c \in Callers :
       /\ Has(c)' <=> Has(c)
       /\ Has(c) => /\ op'[c].kind = op[c].kind
                    /\ op'[c].share = op[c].share
                    /\ op'[c].port = op[c].port

LEMMA NoPortMoved ==
  ASSUME PortInv, TypeOK', MovesNoPort, InOrder'
  PROVE  PortInv'
<1>1. PortsAccounted'
  <2>1. \A p : Held(p)' <=> Held(p)
    BY DEF MovesNoPort, SharesKeepPorts, Held
  <2>2. QED
    BY <2>1, Accounting DEF PortInv, MovesNoPort
<1>2. OnePortEach'
  BY DEF PortInv, MovesNoPort, SharesKeepPorts, OnePortEach
<1>3. StartedOnce'
  <2>1. \A c \in Callers : op[c] # None /\ op[c].kind = "start" => Has(c)
    BY DEF Has
  <2>2. \A c \in Callers : op'[c] # None /\ op'[c].kind = "start" =>
          /\ op[c] # None /\ op[c].kind = "start" /\ op'[c].share = op[c].share
    BY DEF Has, MovesNoPort
  <2>3. \A c \in Callers : op[c] # None => op[c].share \in Shares
    BY DEF PortInv, TypeOK, Operations
  <2>4. QED
    BY <2>1, <2>2, <2>3 DEF PortInv, StartedOnce, MovesNoPort, SharesKeepPorts
<1>4. QED
  BY <1>1, <1>2, <1>3 DEF PortInv

\* A status, an address or a tap written to a share moves no port.
LEMMA UpdateMovesNoPort ==
  ASSUME TypeOK, TypeOK', NEW s \in Shares, NEW e, Update(s, e),
         entry[s] # None => e \in Entries /\ e.port = entry[s].port
  PROVE  SharesKeepPorts
  BY NoneAssumption DEF TypeOK, Update, SharesKeepPorts

LEMMA RestartedEntry ==
  ASSUME NEW e \in Entries, e.gen < MaxRestarts
  PROVE  [e EXCEPT !.gen = @ + 1, !.url = None, !.tap = FALSE, !.status = "Starting"]
           \in Entries
<1>1. e.gen + 1 \in Generations
  BY QuickShareAssumption DEF Entries, Generations
<1>2. QED
  BY <1>1 DEF Entries, Statuses

\* restart() and the awaits of every call, but for those that take or give a port.
LEMMA CallKeepsPorts ==
  ASSUME PortInv, TypeOK', NEW c \in Callers,
         \/ \E s \in Shares : Restart(c, s)
         \/ StopConnector(c) \/ ConnectorStopped(c) \/ Untap(c) \/ Target(c)
         \/ RunAgain(c) \/ Record(c)
  PROVE  PortInv'
<1> USE NoneAssumption DEF PortInv, TypeOK
<1>1. ASSUME NEW s \in Shares, Restart(c, s) PROVE PortInv'
  <2>1. PICK inspect \in BOOLEAN :
          op' = [op EXCEPT ![c] = [at |-> "stop", kind |-> "restart", share |-> s,
                                   port |-> entry[s].port, gen |-> entry[s].gen + 1,
                                   inspect |-> inspect, tap |-> entry[s].tap,
                                   ending |-> None]]
    BY <1>1 DEF Restart
  <2>2. op[c] = None /\ op'[c].kind = "restart"
    BY <1>1, <2>1 DEF Restart, Begin
  <2>3. \A d \in Callers : d # c => op'[d] = op[d]
    BY <2>1
  <2>4. SharesKeepPorts
    <3>1. entry[s] \in Entries
      BY <1>1 DEF Restart
    <3>2. entry'[s].port = entry[s].port /\ \A x \in Shares : x # s => entry'[x] = entry[x]
      BY <1>1, <3>1 DEF Restart, Entries
    <3>3. entry'[s] # None
      BY <1>1, <3>1, RestartedEntry DEF Restart
    <3>4. QED
      BY <1>1, <3>2, <3>3 DEF Restart, SharesKeepPorts
  <2>5. MovesNoPort
    BY <1>1, <2>2, <2>3, <2>4 DEF Restart, MovesNoPort, Has
  <2>6. InOrder'
    BY <2>2, <2>3 DEF InOrder
  <2>7. QED
    BY <2>5, <2>6, NoPortMoved
<1>2. ASSUME op[c] \in Operations, op'[c] \in Operations,
             \A d \in Callers : d # c => op'[d] = op[d],
             op'[c].kind = op[c].kind, op'[c].share = op[c].share, op'[c].port = op[c].port,
             UNCHANGED <<entry, reserved, used>>,
             op[c].kind = "start" => op'[c].at \in {"target", "run"},
             op[c].kind = "stop" => op'[c].at \in {"stop", "ending", "untap"}
      PROVE  PortInv'
  <2>1. MovesNoPort
    BY <1>2, ZenonT(60) DEF MovesNoPort, SharesKeepPorts, Has
  <2>2. InOrder'
    BY <1>2 DEF InOrder
  <2>3. QED
    BY <2>1, <2>2, NoPortMoved
<1>3. CASE StopConnector(c)
  <2>1. op[c] \in Operations /\ op[c].at = "stop"
    BY <1>3 DEF StopConnector, At
  <2>2. op[c].kind # "start"
    BY <2>1 DEF InOrder
  <2>3. /\ op'[c].kind = op[c].kind /\ op'[c].share = op[c].share /\ op'[c].port = op[c].port
        /\ op'[c].at \in {"untap", "ending"}
        /\ \A d \in Callers : d # c => op'[d] = op[d]
    BY <1>3, <2>1 DEF StopConnector, Operations
  <2>4. op'[c] \in Operations
    <3> DEFINE url == IF proc[op[c].share] = None THEN None ELSE proc[op[c].share].url
    <3>1. url \in Addresses \cup {None}
      BY <2>1 DEF Operations
    <3>2. [op[c] EXCEPT !.at = IF proc[op[c].share] = None THEN "untap" ELSE "ending",
                        !.ending = url] \in Operations
      BY <2>1, <3>1 DEF Operations
    <3>3. QED
      BY <1>3, <3>2 DEF StopConnector
  <2>5. QED
    BY <1>2, <1>3, <2>1, <2>2, <2>3, <2>4 DEF StopConnector, shareVars
<1>4. CASE ConnectorStopped(c)
  <2>1. op[c] \in Operations /\ op[c].at = "ending"
    BY <1>4 DEF ConnectorStopped, At
  <2>2. op[c].kind # "start"
    BY <2>1 DEF InOrder
  <2>3. /\ op'[c].kind = op[c].kind /\ op'[c].share = op[c].share /\ op'[c].port = op[c].port
        /\ op'[c].at = "untap"
        /\ \A d \in Callers : d # c => op'[d] = op[d]
        /\ op'[c] \in Operations
    BY <1>4, <2>1 DEF ConnectorStopped, Operations
  <2>4. QED
    BY <1>2, <1>4, <2>1, <2>2, <2>3 DEF ConnectorStopped, shareVars
<1>5. CASE Untap(c)
  <2>1. op[c] \in Operations /\ op[c].kind = "restart"
    BY <1>5 DEF Untap, At
  <2>2. /\ op'[c].kind = op[c].kind /\ op'[c].share = op[c].share /\ op'[c].port = op[c].port
        /\ \A d \in Callers : d # c => op'[d] = op[d]
        /\ op'[c] \in Operations
    BY <1>5, <2>1 DEF Untap, Operations
  <2>3. QED
    BY <1>2, <1>5, <2>1, <2>2 DEF Untap
<1>6. CASE Target(c)
  <2>1. op[c] \in Operations /\ op[c].at = "target"
    BY <1>6 DEF Target, At
  <2>2. op[c].kind # "stop"
    BY <2>1 DEF InOrder
  <2>3. /\ op'[c].kind = op[c].kind /\ op'[c].share = op[c].share /\ op'[c].port = op[c].port
        /\ op'[c].at = "run"
        /\ \A d \in Callers : d # c => op'[d] = op[d]
        /\ op'[c] \in Operations
    BY <1>6, <2>1 DEF Target, Operations
  <2>4. QED
    BY <1>2, <1>6, <2>1, <2>2, <2>3 DEF Target
<1>7. CASE RunAgain(c)
  <2>1. op[c] \in Operations /\ op[c].kind = "restart"
    BY <1>7 DEF RunAgain, At
  <2>2. /\ op'[c].kind = op[c].kind /\ op'[c].share = op[c].share /\ op'[c].port = op[c].port
        /\ \A d \in Callers : d # c => op'[d] = op[d]
        /\ op'[c] \in Operations
    BY <1>7, <2>1 DEF RunAgain, Goto, Operations
  <2>3. QED
    BY <1>2, <1>7, <2>1, <2>2 DEF RunAgain, shareVars
<1>8. CASE Record(c)
  <2>1. op[c] \in Operations /\ op[c].at = "record" /\ op[c].share \in Shares
    BY <1>8 DEF Record, At, Operations
  <2>2. op[c].kind = "restart"
    BY <2>1 DEF InOrder, Operations
  <2>3. op'[c] = None /\ \A d \in Callers : d # c => op'[d] = op[d]
    BY <1>8 DEF Record, Return
  <2>4. SharesKeepPorts
    <3> DEFINE s == op[c].share
               e == [entry[s] EXCEPT !.tap = op[c].tap, !.inspected = op[c].tap]
    <3>1. entry[s] # None => e \in Entries /\ e.port = entry[s].port
      <4> HAVE entry[s] # None
      <4>1. entry[s] \in Entries /\ op[c].tap \in BOOLEAN
        BY <2>1 DEF Operations
      <4>2. QED
        BY <4>1 DEF Entries
    <3>2. Update(s, e)
      BY <1>8 DEF Record
    <3>3. QED
      BY <2>1, <3>1, <3>2, UpdateMovesNoPort
  <2>5. MovesNoPort
    BY <1>8, <2>1, <2>2, <2>3, <2>4 DEF Record, MovesNoPort, Has
  <2>6. InOrder'
    BY <2>3 DEF InOrder
  <2>7. QED
    BY <2>5, <2>6, NoPortMoved
<1>9. QED
  BY <1>1, <1>3, <1>4, <1>5, <1>6, <1>7, <1>8

\* A port that is handed out has nobody; its call is then the only one that has it.
LEMMA StartTakesPort ==
  ASSUME PortInv, TypeOK', NEW c \in Callers, NEW s \in Shares, Start(c, s)
  PROVE  PortInv'
<1> USE DEF PortInv
<1>1. PICK p \in Ports \ reserved, inspect \in BOOLEAN :
        /\ reserved' = reserved \cup {p}
        /\ op' = [op EXCEPT ![c] = [at |-> "target", kind |-> "start", share |-> s,
                                    port |-> p, gen |-> 0, inspect |-> inspect,
                                    tap |-> FALSE, ending |-> None]]
  BY NoneAssumption DEF TypeOK, Start
<1>2. [at |-> "target", kind |-> "start", share |-> s, port |-> p, gen |-> 0,
       inspect |-> inspect, tap |-> FALSE, ending |-> None] \in Operations
  BY QuickShareAssumption DEF Operations, Generations
<1>3. /\ op[c] = None /\ op'[c] # None
      /\ op'[c].at = "target" /\ op'[c].kind = "start"
      /\ op'[c].share = s /\ op'[c].port = p
      /\ \A d \in Callers : d # c => op'[d] = op[d]
      /\ UNCHANGED entry /\ s \notin used /\ used' = used \cup {s}
  BY NoneAssumption, <1>1, <1>2 DEF TypeOK, Start, Begin
<1>4. ~Held(p)
  BY Accounting
<1>5. PortsAccounted'
  <2>1. \A x : Held(x)' <=> Held(x) \/ x = p
    BY <1>3 DEF Held, Has
  <2>2. QED
    BY <1>1, <2>1, Accounting
<1>6. OnePortEach'
  BY <1>3, <1>4 DEF OnePortEach, Held, Has
<1>7. StartedOnce'
  BY <1>3 DEF StartedOnce
<1>8. InOrder'
  BY <1>3 DEF InOrder
<1>9. QED
  BY <1>5, <1>6, <1>7, <1>8

\* A share that is stopped leaves its port to the call that stops it.
LEMMA StopTakesPort ==
  ASSUME PortInv, TypeOK', NEW c \in Callers, NEW s \in Shares, Stop(c, s)
  PROVE  PortInv'
<1> USE DEF PortInv
<1>1. entry[s] \in Entries /\ entry[s] # None
  BY NoneAssumption DEF TypeOK, Stop
<1>2. [at |-> "stop", kind |-> "stop", share |-> s, port |-> entry[s].port,
       gen |-> entry[s].gen, inspect |-> FALSE, tap |-> entry[s].tap,
       ending |-> None] \in Operations
  BY NoneAssumption, <1>1 DEF TypeOK, Operations, Entries
<1>3. /\ op[c] = None /\ op'[c] # None
      /\ op'[c].at = "stop" /\ op'[c].kind = "stop" /\ op'[c].port = entry[s].port
      /\ \A d \in Callers : d # c => op'[d] = op[d]
      /\ entry'[s] = None /\ \A x \in Shares : x # s => entry'[x] = entry[x]
      /\ UNCHANGED <<reserved, used>>
  BY NoneAssumption, <1>2 DEF TypeOK, Stop, Begin
<1>4. PortsAccounted'
  <2>1. \A p : Held(p)' <=> Held(p)
    <3>1. \A p : Held(p)' => Held(p)
      BY <1>1, <1>3 DEF Held, Has
    <3>2. \A p : (\E x \in Shares : entry[x] # None /\ entry[x].port = p) => Held(p)'
      BY <1>3 DEF Held, Has
    <3>3. \A p : (\E d \in Callers : Has(d) /\ op[d].port = p) => Held(p)'
      BY <1>3 DEF Held, Has
    <3>4. QED
      BY <3>1, <3>2, <3>3 DEF Held
  <2>2. QED
    BY <1>3, <2>1, Accounting
<1>5. OnePortEach'
  BY <1>1, <1>3 DEF OnePortEach, Has
<1>6. StartedOnce'
  <2>1. \A d \in Callers : op[d] # None => op[d].share \in Shares
    BY DEF TypeOK, Operations
  <2>2. \A d \in Callers : op'[d] # None /\ op'[d].kind = "start" => d # c
    BY <1>1, <1>3
  <2>3. QED
    BY <1>1, <1>3, <2>1, <2>2 DEF StartedOnce
<1>7. InOrder'
  BY <1>3 DEF InOrder
<1>8. QED
  BY <1>4, <1>5, <1>6, <1>7

\* A call that ends with its port released: what others have is untouched.
LEMMA PortReleased ==
  ASSUME PortInv, TypeOK', NEW c \in Callers, Has(c), op'[c] = None,
         \A d \in Callers : d # c => op'[d] = op[d],
         SharesKeepPorts,
         reserved' = reserved \ {op[c].port}, used' = used
  PROVE  PortInv'
<1> USE DEF PortInv
<1>1. PortsAccounted'
  <2>1. \A p : Held(p)' <=> Held(p) /\ p # op[c].port
    BY DEF OnePortEach, SharesKeepPorts, Held, Has
  <2>2. QED
    BY <2>1, Accounting
<1>2. OnePortEach'
  BY DEF OnePortEach, SharesKeepPorts, Has
<1>3. StartedOnce'
  <2>1. \A d \in Callers : op[d] # None => op[d].share \in Shares
    BY DEF TypeOK, Operations
  <2>2. QED
    BY <2>1 DEF StartedOnce, SharesKeepPorts
<1>4. InOrder'
  BY DEF InOrder
<1>5. QED
  BY <1>1, <1>2, <1>3, <1>4

LEMMA ReleaseGivesPort ==
  ASSUME PortInv, TypeOK', NEW c \in Callers, Release(c)
  PROVE  PortInv'
<1>1. Has(c) /\ op'[c] = None /\ \A d \in Callers : d # c => op'[d] = op[d]
  BY DEF PortInv, TypeOK, Release, At, Return, Has
<1>2. QED
  BY <1>1, PortReleased DEF Release, SharesKeepPorts

\* An operation that fails releases the port it took, or leaves a restarted share its own.
LEMMA GiveUpGivesPort ==
  ASSUME PortInv, TypeOK', NEW c \in Callers, GiveUp(c)
  PROVE  PortInv'
<1> DEFINE s == op[c].share
           e == [entry[s] EXCEPT !.status = "Failed"]
<1>1. op[c] # None /\ op[c] \in Operations /\ s \in Shares
  BY DEF PortInv, TypeOK, GiveUp, PortsAfterFailure, MayFail, At, Operations
<1>2. op'[c] = None /\ \A d \in Callers : d # c => op'[d] = op[d]
  BY DEF PortInv, TypeOK, GiveUp, PortsAfterFailure, Return
<1>3. SharesKeepPorts
  <2>1. entry[s] # None => e \in Entries /\ e.port = entry[s].port
    <3> HAVE entry[s] # None
    <3>1. entry[s] \in Entries
      BY <1>1 DEF PortInv, TypeOK
    <3>2. QED
      BY <3>1 DEF Entries, Statuses
  <2>2. Update(s, e)
    BY DEF GiveUp, PortsAfterFailure
  <2>3. QED
    BY <1>1, <2>1, <2>2, UpdateMovesNoPort DEF PortInv
<1>4. CASE op[c].kind = "start"
  <2>1. Has(c)
    BY <1>1, <1>4 DEF Has
  <2>2. QED
    BY <1>2, <1>3, <1>4, <2>1, PortReleased DEF GiveUp, PortsAfterFailure
<1>5. CASE op[c].kind # "start"
  <2>1. op[c].kind = "restart"
    BY <1>1, <1>5 DEF PortInv, InOrder, GiveUp, PortsAfterFailure, MayFail, At, Operations
  <2>2. MovesNoPort
    BY <1>2, <1>3, <2>1 DEF GiveUp, PortsAfterFailure, MovesNoPort, Has
  <2>3. InOrder'
    BY <1>2 DEF PortInv, InOrder
  <2>4. QED
    BY <2>2, <2>3, NoPortMoved
<1>6. QED
  BY <1>4, <1>5

\* The share that is in the map now has the port its call had.
LEMMA RunNewHandsPortOn ==
  ASSUME PortInv, TypeOK', NEW c \in Callers, RunNew(c)
  PROVE  PortInv'
<1> DEFINE s == op[c].share
<1> USE DEF PortInv
<1>1. op[c] # None /\ op[c] \in Operations /\ s \in Shares /\ op[c].kind = "start"
  BY NoneAssumption DEF TypeOK, RunNew, At, Operations
<1>2. Has(c) /\ entry[s] = None /\ s \in used
  BY NoneAssumption, <1>1 DEF TypeOK, StartedOnce, Has
<1>3. [port |-> op[c].port, tap |-> op[c].tap, gen |-> 0, url |-> None,
       status |-> "Starting", inspected |-> op[c].tap] \in Entries
  BY NoneAssumption, <1>1, QuickShareAssumption DEF TypeOK, Operations, Entries, Statuses, Generations
<1>4. /\ op'[c] = None /\ \A d \in Callers : d # c => op'[d] = op[d]
      /\ entry'[s] # None /\ entry'[s].port = op[c].port
      /\ \A x \in Shares : x # s => entry'[x] = entry[x]
      /\ UNCHANGED <<reserved, used>>
  BY NoneAssumption, <1>1, <1>3 DEF TypeOK, RunNew, Return
<1>5. PortsAccounted'
  <2>1. \A p : Held(p)' <=> Held(p)
    <3>1. \A p : Held(p)' => Held(p)
      BY <1>2, <1>4 DEF Held, Has
    <3>2. \A p : (\E x \in Shares : entry[x] # None /\ entry[x].port = p) => Held(p)'
      BY <1>2, <1>4 DEF Held
    <3>3. \A p : (\E d \in Callers : Has(d) /\ op[d].port = p) => Held(p)'
      BY <1>1, <1>4 DEF Held, Has
    <3>4. QED
      BY <3>1, <3>2, <3>3 DEF Held
  <2>2. QED
    BY <1>4, <2>1, Accounting
<1>6. OnePortEach'
  BY <1>2, <1>4 DEF OnePortEach, Has
<1>7. StartedOnce'
  <2>1. \A d \in Callers : op[d] # None => op[d].share \in Shares
    BY DEF TypeOK, Operations
  <2>2. \A d \in Callers : op'[d] # None /\ op'[d].kind = "start" => d # c
    BY <1>1, <1>2, <1>4
  <2>3. QED
    BY <1>1, <1>2, <1>4, <2>1, <2>2 DEF StartedOnce
<1>8. InOrder'
  BY <1>4, SMTT(30) DEF InOrder
<1>9. QED
  BY <1>5, <1>6, <1>7, <1>8

\* Pollers, processes and mirrored states have no say in who has a port.
LEMMA OthersKeepPorts ==
  ASSUME PortInv, TypeOK',
         \/ \E q \in pollers : Poll(q)
         \/ \E s \in Shares : \/ Spawn(s) \/ Connect(s) \/ Disconnect(s) \/ Die(s)
                              \/ MirrorReads(s)
         \/ MirrorWrites
         \/ UNCHANGED vars
  PROVE  PortInv'
<1>1. UNCHANGED <<op, reserved, used>>
  BY DEF Poll, PollEnds, PollGoesOn, PollHost, PollReady, PollTimesOut, PollFails, PollerRest,
         Spawn, Connect, Disconnect, Die, MirrorReads, MirrorWrites, RuntimeRest, shareVars, vars
<1>2. SharesKeepPorts
  <2>1. CASE UNCHANGED entry
    BY <2>1 DEF SharesKeepPorts
  <2>2. ASSUME NEW s \in Shares, entry[s] # None PROVE entry[s] \in Entries
    BY <2>2 DEF PortInv, TypeOK
  <2>3. ASSUME NEW q \in pollers, PollReady(q) \/ PollFails(q)
        PROVE  SharesKeepPorts
    <3> DEFINE s == q.share
    <3>1. s \in Shares
      BY DEF PortInv, TypeOK, Pollers
    <3>2. CASE PollReady(q)
      <4>1. q.asked \in Addresses
        BY <3>2 DEF PollReady
      <4>2. entry[s] # None =>
              /\ [entry[s] EXCEPT !.url = q.asked, !.status = "Live"] \in Entries
              /\ [entry[s] EXCEPT !.url = q.asked] \in Entries
        BY <2>2, <3>1, <4>1, ZenonT(60) DEF Entries, Statuses
      <4>3. \/ Update(s, [entry[s] EXCEPT !.url = q.asked, !.status = "Live"])
            \/ Update(s, [entry[s] EXCEPT !.url = q.asked])
        BY <3>2 DEF PollReady
      <4>4. entry[s] # None =>
              /\ [entry[s] EXCEPT !.url = q.asked, !.status = "Live"].port = entry[s].port
              /\ [entry[s] EXCEPT !.url = q.asked].port = entry[s].port
        BY <2>2, <3>1 DEF Entries
      <4>5. QED
        BY <3>1, <4>2, <4>3, <4>4, UpdateMovesNoPort DEF PortInv
    <3>3. CASE PollFails(q)
      <4>1. entry[s] # None => /\ [entry[s] EXCEPT !.status = "Failed"] \in Entries
                               /\ [entry[s] EXCEPT !.status = "Failed"].port = entry[s].port
        BY <2>2, <3>1 DEF Entries, Statuses
      <4>2. QED
        BY <3>1, <3>3, <4>1, UpdateMovesNoPort DEF PortInv, PollFails
    <3>4. QED
      BY <2>3, <3>2, <3>3
  <2>4. CASE MirrorWrites
    <3> DEFINE s == mirror.share
    <3>1. s \in Shares /\ mirror.status \in Statuses
      BY <2>4 DEF MirrorWrites, PortInv, TypeOK
    <3>2. entry[s] # None => /\ [entry[s] EXCEPT !.status = mirror.status] \in Entries
                             /\ [entry[s] EXCEPT !.status = mirror.status].port = entry[s].port
      BY <2>2, <3>1 DEF Entries
    <3>3. QED
      BY <2>4, <3>1, <3>2, UpdateMovesNoPort DEF PortInv, MirrorWrites
  <2>5. CASE UNCHANGED vars \/ \E s \in Shares : \/ Spawn(s) \/ Connect(s) \/ Disconnect(s)
                                                \/ Die(s) \/ MirrorReads(s)
    BY <2>1, <2>5 DEF Spawn, Connect, Disconnect, Die, MirrorReads, RuntimeRest, shareVars, vars
  <2>6. CASE \E q \in pollers : PollEnds(q) \/ PollGoesOn(q) \/ PollHost(q) \/ PollTimesOut(q)
    BY <2>1, <2>6 DEF PollEnds, PollGoesOn, PollHost, PollTimesOut
  <2>7. ASSUME NEW q \in pollers, Poll(q)
        PROVE  SharesKeepPorts
    <3>1. CASE PollReady(q) \/ PollFails(q)
      BY <2>3, <3>1
    <3>2. CASE PollEnds(q) \/ PollGoesOn(q) \/ PollHost(q) \/ PollTimesOut(q)
      BY <2>6, <3>2
    <3>3. QED
      BY <2>7, <3>1, <3>2 DEF Poll
  <2>8. QED
    BY <2>4, <2>5, <2>7
<1>3. MovesNoPort
  BY <1>1, <1>2 DEF MovesNoPort, Has
<1>4. InOrder'
  BY <1>1 DEF PortInv, InOrder
<1>5. QED
  BY <1>3, <1>4, NoPortMoved

LEMMA InitPortInv == Init => PortInv
  BY InitTypeOK DEF Init, PortInv, PortsAccounted, OnePortEach, StartedOnce, InOrder, Has

LEMMA NextPortInv == PortInv /\ [Next]_vars => PortInv'
<1> SUFFICES ASSUME PortInv, [Next]_vars PROVE PortInv'
  OBVIOUS
<1>1. TypeOK'
  BY NextTypeOK DEF PortInv
<1>2. ASSUME NEW c \in Callers, NEW s \in Shares, Start(c, s) \/ Restart(c, s) \/ Stop(c, s)
      PROVE  PortInv'
  BY <1>1, <1>2, StartTakesPort, CallKeepsPorts, StopTakesPort
<1>3. ASSUME NEW c \in Callers, Continue(c) PROVE PortInv'
  BY <1>1, <1>3, CallKeepsPorts, ReleaseGivesPort, GiveUpGivesPort, RunNewHandsPortOn
  DEF Continue
<1>4. QED
  BY <1>1, <1>2, <1>3, OthersKeepPorts DEF Next

\* No error path, stop or restart loses a port or gives away another share's, however
\* calls overlap (quick_share.rs:517, 535, 600, 618, 891; ports.rs).
THEOREM NoPortLost == Spec => []PortsAccounted
<1>1. PortInv => PortsAccounted
  BY DEF PortInv
<1>2. QED
  BY InitPortInv, NextPortInv, <1>1, PTL DEF Spec

-----------------------------------------------------------------------------
(* One share at a time                                                     *)

\* Without overlap no two calls are on one share.
Sole ==
  \A c, d \in Callers : op[c] # None /\ op[d] # None /\ op[c].share = op[d].share => c = d

\* A share between two calls: in the map, or nothing is left of it.
Idle(s) ==
  IF entry[s] = None THEN actor[s] = None /\ tap[s] = None
  ELSE /\ entry[s].tap <=> tap[s] # None
       /\ actor[s] # None => /\ actor[s].target = tap[s] /\ actor[s].port = entry[s].port
                             /\ entry[s].inspected <=> tap[s] # None

\* What a call at an await has made of its share, or left of it.
InCall(o) ==
  LET s == o.share IN
  /\ o.kind = "restart" => entry[s] # None /\ entry[s].port = o.port /\ ~entry[s].tap
  /\ o.kind # "restart" => entry[s] = None
  /\ o.at = "target" => tap[s] = None
  /\ o.at # "target" => (o.tap <=> tap[s] # None)
  /\ o.at \in {"run", "record"} /\ o.tap => tap[s] = o.gen
  /\ o.at \in {"ending", "untap", "target", "run"} => actor[s] = None
  /\ o.at = "record" /\ actor[s] # None => actor[s].target = tap[s]
  /\ actor[s] # None => actor[s].port = o.port

SharesInv ==
  /\ Sole
  /\ \A c \in Callers : op[c] # None => InCall(op[c])
  /\ \A s \in Shares : ~Busy(s) => Idle(s)

\* An address is its share's.
UrlInv ==
  /\ \A s \in Shares : proc[s] # None => actor[s] # None /\ proc[s].url[1] = s
  /\ \A c \in Callers : op[c] # None /\ op[c].ending # None => op[c].ending[1] = op[c].share
PollInv ==
  \A q \in pollers :
    /\ q.share \in used
    /\ \A c \in Callers : op[c] # None /\ op[c].share = q.share => op[c].kind # "start"
    /\ entry[q.share] # None =>
         /\ entry[q.share].port = q.port
         /\ q.asked \in Addresses => q.asked[1] = q.share

SerialInv == PortInv /\ SharesInv /\ UrlInv /\ PollInv /\ OwnAddress

\* A step of one call, or the beginning of one, is a step of its share alone.
LEMMA OneShareMoves ==
  ASSUME TypeOK, TypeOK', SharesInv, NEW c \in Callers, NEW s \in Shares,
         op[c] = None => ~Busy(s),
         op[c] # None => op[c].share = s,
         op'[c] # None => op'[c].share = s,
         \A d \in Callers : d # c => op'[d] = op[d],
         \A x \in Shares : x # s => entry'[x] = entry[x] /\ actor'[x] = actor[x] /\ tap'[x] = tap[x],
         op'[c] # None => InCall(op[c])',
         op'[c] = None => Idle(s)'
  PROVE  SharesInv'
<1>1. \A d \in Callers : d # c /\ op[d] # None => op[d].share # s
  BY DEF SharesInv, Sole, Busy
<1>2. Sole'
  BY <1>1 DEF SharesInv, Sole
<1>3. ASSUME NEW d \in Callers, op'[d] # None PROVE InCall(op[d])'
  <2>1. CASE d # c
    <3>1. op[d] # None /\ op'[d] = op[d] /\ InCall(op[d]) /\ op[d].share \in Shares \ {s}
      BY <1>1, <1>3, <2>1 DEF SharesInv, TypeOK, Operations
    <3>2. QED
      BY <3>1 DEF InCall
  <2>2. QED
    BY <1>3, <2>1
<1>4. ASSUME NEW x \in Shares, ~Busy(x)' PROVE Idle(x)'
  <2>1. CASE x = s
    BY <1>4, <2>1 DEF Busy
  <2>2. CASE x # s
    <3>1. ~Busy(x)
      BY <1>4, <2>2 DEF Busy
    <3>2. QED
      BY <2>2, <3>1 DEF SharesInv, Idle
  <2>3. QED
    BY <2>1, <2>2
<1>5. QED
  BY <1>2, <1>3, <1>4 DEF SharesInv

LEMMA StartsShare ==
  ASSUME Overlap = FALSE, PortInv, SharesInv, TypeOK', NEW c \in Callers, NEW s \in Shares,
         Start(c, s)
  PROVE  SharesInv'
<1>1. op[c] = None /\ ~Busy(s) /\ UNCHANGED <<entry, tap, actor>> /\ TypeOK
  BY DEF Start, Begin, runtimeVars, PortInv
<1>2. PICK p \in Ports, inspect \in BOOLEAN :
        op' = [op EXCEPT ![c] = [at |-> "target", kind |-> "start", share |-> s, port |-> p,
                                 gen |-> 0, inspect |-> inspect, tap |-> FALSE, ending |-> None]]
  BY DEF Start
<1>3. /\ op'[c].at = "target" /\ op'[c].kind = "start" /\ op'[c].share = s
      /\ \A d \in Callers : d # c => op'[d] = op[d]
  BY <1>1, <1>2 DEF TypeOK
<1>4. entry[s] = None /\ actor[s] = None /\ tap[s] = None
  BY <1>1 DEF Start, PortInv, StartedOnce, SharesInv, Idle
<1>5. op'[c] # None => InCall(op[c])'
  BY <1>1, <1>3, <1>4 DEF InCall
<1>6. op'[c] # None
  <2>1. [at |-> "target", kind |-> "start", share |-> s, port |-> p, gen |-> 0,
         inspect |-> inspect, tap |-> FALSE, ending |-> None] \in Operations
    BY QuickShareAssumption DEF Operations, Generations
  <2>2. QED
    BY <1>1, <1>2, <2>1, NoneAssumption DEF TypeOK
<1>7. QED
  BY <1>1, <1>3, <1>5, <1>6, OneShareMoves

LEMMA RestartsShare ==
  ASSUME Overlap = FALSE, PortInv, SharesInv, TypeOK', NEW c \in Callers, NEW s \in Shares,
         Restart(c, s)
  PROVE  SharesInv'
<1> DEFINE e == entry[s]
<1>1. op[c] = None /\ ~Busy(s) /\ UNCHANGED <<tap, actor>> /\ TypeOK /\ Idle(s)
  BY DEF Restart, Begin, runtimeVars, PortInv, SharesInv
<1>2. e # None /\ e \in Entries /\ e.gen < MaxRestarts
  BY <1>1 DEF Restart, TypeOK
<1>3. PICK inspect \in BOOLEAN :
        op' = [op EXCEPT ![c] = [at |-> "stop", kind |-> "restart", share |-> s, port |-> e.port,
                                 gen |-> e.gen + 1, inspect |-> inspect, tap |-> e.tap,
                                 ending |-> None]]
  BY DEF Restart
<1>4. /\ op'[c].at = "stop" /\ op'[c].kind = "restart" /\ op'[c].share = s
      /\ op'[c].port = e.port /\ op'[c].tap = e.tap
      /\ \A d \in Callers : d # c => op'[d] = op[d]
  BY <1>1, <1>3 DEF TypeOK
<1>5. /\ entry' = [entry EXCEPT ![s] = [e EXCEPT !.gen = @ + 1, !.url = None, !.tap = FALSE,
                                                 !.status = "Starting"]]
      /\ [e EXCEPT !.gen = @ + 1, !.url = None, !.tap = FALSE, !.status = "Starting"] \in Entries
  BY <1>2, RestartedEntry DEF Restart
<1>6. /\ entry'[s] # None /\ entry'[s].port = e.port /\ ~entry'[s].tap
      /\ \A x \in Shares : x # s => entry'[x] = entry[x]
  BY <1>1, <1>2, <1>5, NoneAssumption DEF TypeOK, Entries
<1>7. InCall(op[c])'
  BY <1>1, <1>2, <1>4, <1>6 DEF InCall, Idle
<1>8. op'[c] # None
  <2>1. [at |-> "stop", kind |-> "restart", share |-> s, port |-> e.port, gen |-> e.gen + 1,
         inspect |-> inspect, tap |-> e.tap, ending |-> None] \in Operations
    BY <1>2, QuickShareAssumption DEF Operations, Entries, Generations
  <2>2. QED
    BY <1>1, <1>3, <2>1, NoneAssumption DEF TypeOK
<1>9. QED
  BY <1>1, <1>4, <1>6, <1>7, <1>8, OneShareMoves

LEMMA StopsShare ==
  ASSUME Overlap = FALSE, PortInv, SharesInv, TypeOK', NEW c \in Callers, NEW s \in Shares,
         Stop(c, s)
  PROVE  SharesInv'
<1> DEFINE e == entry[s]
<1>1. op[c] = None /\ ~Busy(s) /\ UNCHANGED <<tap, actor>> /\ TypeOK /\ Idle(s)
  BY DEF Stop, Begin, runtimeVars, PortInv, SharesInv
<1>2. e # None /\ e \in Entries
  BY <1>1 DEF Stop, TypeOK
<1>3. op' = [op EXCEPT ![c] = [at |-> "stop", kind |-> "stop", share |-> s, port |-> e.port,
                               gen |-> e.gen, inspect |-> FALSE, tap |-> e.tap,
                               ending |-> None]]
  BY DEF Stop
<1>4. /\ op'[c].at = "stop" /\ op'[c].kind = "stop" /\ op'[c].share = s
      /\ op'[c].port = e.port /\ op'[c].tap = e.tap
      /\ \A d \in Callers : d # c => op'[d] = op[d]
  BY <1>1, <1>3 DEF TypeOK
<1>5. entry'[s] = None /\ \A x \in Shares : x # s => entry'[x] = entry[x]
  BY <1>1 DEF Stop, TypeOK
<1>6. InCall(op[c])'
  BY <1>1, <1>2, <1>4, <1>5 DEF InCall, Idle
<1>7. op'[c] # None
  <2>1. [at |-> "stop", kind |-> "stop", share |-> s, port |-> e.port, gen |-> e.gen,
         inspect |-> FALSE, tap |-> e.tap, ending |-> None] \in Operations
    BY <1>2 DEF Operations, Entries
  <2>2. QED
    BY <1>1, <1>3, <2>1, NoneAssumption DEF TypeOK
<1>8. QED
  BY <1>1, <1>4, <1>5, <1>6, <1>7, OneShareMoves

\* What an await leaves of its call.
Onward(c, at, tp, ending) ==
  op' = [op EXCEPT ![c] = [op[c] EXCEPT !.at = at, !.tap = tp, !.ending = ending]]

LEMMA CallGoesOn ==
  ASSUME TypeOK, NEW c \in Callers, op[c] # None,
         NEW at \in {"stop", "ending", "untap", "target", "run", "record"},
         NEW tp \in BOOLEAN, NEW ending \in Addresses \cup {None},
         Onward(c, at, tp, ending)
  PROVE  /\ op'[c] # None
         /\ op'[c].at = at /\ op'[c].tap = tp /\ op'[c].ending = ending
         /\ op'[c].kind = op[c].kind /\ op'[c].share = op[c].share /\ op'[c].port = op[c].port
         /\ op'[c].gen = op[c].gen
         /\ \A d \in Callers : d # c => op'[d] = op[d]
<1>1. op[c] \in Operations
  BY DEF TypeOK
<1>2. /\ op'[c] = [op[c] EXCEPT !.at = at, !.tap = tp, !.ending = ending]
      /\ \A d \in Callers : d # c => op'[d] = op[d]
  BY DEF Onward, TypeOK
<1>3. [op[c] EXCEPT !.at = at, !.tap = tp, !.ending = ending] \in Operations
  BY <1>1 DEF Operations
<1>4. QED
  BY <1>1, <1>2, <1>3, NoneAssumption DEF Operations

\* The awaits after which a call goes on.
LEMMA CallKeepsShare ==
  ASSUME PortInv, SharesInv, TypeOK', NEW c \in Callers,
         \/ StopConnector(c) \/ ConnectorStopped(c) \/ Untap(c) \/ Target(c) \/ RunAgain(c)
  PROVE  SharesInv'
<1> DEFINE s == op[c].share
<1> USE DEF PortInv
<1>1. /\ op[c] # None /\ op[c] \in Operations /\ s \in Shares
      /\ op[c].tap \in BOOLEAN /\ op[c].inspect \in BOOLEAN
      /\ op[c].ending \in Addresses \cup {None}
  BY DEF TypeOK, StopConnector, ConnectorStopped, Untap, Target, RunAgain, At, Operations
<1>2. InCall(op[c]) /\ entry' = entry
  BY <1>1 DEF SharesInv, StopConnector, ConnectorStopped, Untap, Target, RunAgain, shareVars
<1>3. ASSUME NEW at \in {"stop", "ending", "untap", "target", "run", "record"},
             NEW tp \in BOOLEAN, NEW ending \in Addresses \cup {None},
             Onward(c, at, tp, ending),
             \A x \in Shares : x # s => actor'[x] = actor[x] /\ tap'[x] = tap[x],
             InCall(op[c])'
      PROVE  SharesInv'
  <2>1. op'[c] # None /\ op'[c].share = s /\ \A d \in Callers : d # c => op'[d] = op[d]
    BY <1>1, <1>3, CallGoesOn
  <2>2. \A x \in Shares : entry'[x] = entry[x]
    BY <1>2
  <2>3. QED
    BY <1>1, <1>3, <2>1, <2>2, OneShareMoves
<1>4. CASE StopConnector(c)
  <2> DEFINE at == IF proc[s] = None THEN "untap" ELSE "ending"
             ending == IF proc[s] = None THEN None ELSE proc[s].url
  <2>1. Onward(c, at, op[c].tap, ending)
    BY <1>1, <1>4 DEF StopConnector, Operations, Onward
  <2>0. at \in {"untap", "ending"} /\ ending \in Addresses \cup {None}
    BY <1>1 DEF TypeOK
  <2> HIDE DEF at, ending
  <2>2. tap' = tap /\ actor'[s] = None /\ \A x \in Shares : x # s => actor'[x] = actor[x]
    BY <1>1, <1>4 DEF StopConnector, shareVars, TypeOK
  <2>3. op[c].at = "stop"
    BY <1>4 DEF StopConnector, At
  <2>4. InCall(op[c])'
    BY <1>1, <1>2, <2>0, <2>1, <2>2, <2>3, CallGoesOn DEF InCall
  <2>5. QED
    BY <1>1, <1>3, <2>0, <2>1, <2>2, <2>4
<1>5. CASE ConnectorStopped(c)
  <2>1. Onward(c, "untap", op[c].tap, None)
    BY <1>1, <1>5 DEF ConnectorStopped, Operations, Onward
  <2>2. UNCHANGED <<tap, actor>> /\ op[c].at = "ending"
    BY <1>5 DEF ConnectorStopped, shareVars, runtimeVars, At
  <2>3. InCall(op[c])'
    BY <1>1, <1>2, <2>1, <2>2, CallGoesOn DEF InCall
  <2>4. QED
    BY <1>1, <1>3, <2>1, <2>2, <2>3
<1>6. CASE Untap(c)
  <2>1. Onward(c, "target", FALSE, op[c].ending)
    BY <1>1, <1>6 DEF Untap, Operations, Onward
  <2>2. UNCHANGED actor /\ op[c].at = "untap" /\ tap' = WithoutTap(c)
    BY <1>6 DEF Untap, runtimeVars, At
  <2>3. tap'[s] = None /\ \A x \in Shares : x # s => tap'[x] = tap[x]
    BY <1>1, <1>2, <2>2 DEF WithoutTap, InCall, TypeOK
  <2>4. /\ op'[c].at = "target" /\ op'[c].kind = op[c].kind /\ op'[c].share = s
        /\ op'[c].port = op[c].port
    BY <1>1, <2>1, CallGoesOn
  <2>5. InCall(op[c])'
    BY <1>1, <1>2, <2>2, <2>3, <2>4 DEF InCall
  <2>6. QED
    BY <1>1, <1>3, <2>1, <2>2, <2>3, <2>5
<1>7. CASE Target(c)
  <2>1. Onward(c, "run", op[c].inspect, op[c].ending)
    BY <1>1, <1>7 DEF Target, Operations, Onward
  <2>2. UNCHANGED actor /\ op[c].at = "target"
    BY <1>7 DEF Target, runtimeVars, At
  <2>3. /\ tap'[s] = IF op[c].inspect THEN op[c].gen ELSE tap[s]
        /\ \A x \in Shares : x # s => tap'[x] = tap[x]
    BY <1>1, <1>7 DEF Target, TypeOK
  <2>4. tap[s] = None /\ op[c].gen # None
    BY <1>1, <1>2, <2>2, QuickShareAssumption DEF InCall, Operations, Generations
  <2>5. InCall(op[c])'
    BY <1>1, <1>2, <2>1, <2>2, <2>3, <2>4, CallGoesOn DEF InCall
  <2>6. QED
    BY <1>1, <1>3, <2>1, <2>2, <2>3, <2>5
<1>8. CASE RunAgain(c)
  <2>1. Onward(c, "record", op[c].tap, op[c].ending)
    BY <1>1, <1>8 DEF RunAgain, Goto, Operations, Onward
  <2>2. UNCHANGED tap /\ op[c].at = "run"
    BY <1>8 DEF RunAgain, shareVars, At
  <2>3. actor' = [actor EXCEPT ![s] = [target |-> IF op[c].tap THEN op[c].gen ELSE None,
                                       port |-> op[c].port]]
    BY <1>8 DEF RunAgain, StartConnector
  <2>4. /\ actor'[s].target = tap[s] /\ actor'[s].port = op[c].port
        /\ \A x \in Shares : x # s => actor'[x] = actor[x]
    BY <1>1, <1>2, <2>2, <2>3 DEF InCall, TypeOK
  <2>5. InCall(op[c])'
    BY <1>1, <1>2, <2>1, <2>2, <2>4, CallGoesOn DEF InCall
  <2>6. QED
    BY <1>1, <1>3, <2>1, <2>2, <2>4, <2>5
<1>9. QED
  BY <1>4, <1>5, <1>6, <1>7, <1>8

\* The last await of a call leaves its share in the map or nothing of it.
LEMMA CallLeavesShare ==
  ASSUME PortInv, SharesInv, TypeOK', NEW c \in Callers, NEW s \in Shares, s = op[c].share,
         Release(c) \/ GiveUp(c) \/ RunNew(c) \/ Record(c)
  PROVE  SharesInv'
<1> USE DEF PortInv
<1>1. /\ op[c] # None /\ op[c] \in Operations /\ s \in Shares
      /\ op[c].tap \in BOOLEAN /\ op[c].gen # None
  BY QuickShareAssumption DEF TypeOK, Release, GiveUp, PortsAfterFailure, MayFail, RunNew,
       Record, At, Operations,
     Generations
<1>2. InCall(op[c])
  BY <1>1 DEF SharesInv
<1>3. op'[c] = None /\ \A d \in Callers : d # c => op'[d] = op[d]
  BY DEF Release, GiveUp, PortsAfterFailure, RunNew, Record, Return, TypeOK
<1>4. ASSUME \A x \in Shares : x # s => /\ entry'[x] = entry[x] /\ actor'[x] = actor[x]
                                        /\ tap'[x] = tap[x],
             Idle(s)'
      PROVE  SharesInv'
  BY <1>1, <1>3, <1>4, OneShareMoves
<1>5. CASE Release(c)
  <2>1. op[c].at = "untap" /\ op[c].kind = "stop" /\ UNCHANGED <<entry, actor>>
        /\ tap' = WithoutTap(c)
    BY <1>5 DEF Release, At, runtimeVars
  <2>2. tap'[s] = None /\ \A x \in Shares : x # s => tap'[x] = tap[x]
    BY <1>1, <1>2, <2>1 DEF WithoutTap, InCall, TypeOK
  <2>3. Idle(s)'
    BY <1>1, <1>2, <2>1, <2>2 DEF InCall, Idle
  <2>4. QED
    BY <1>4, <2>1, <2>2, <2>3
<1>6. CASE GiveUp(c)
  <2> DEFINE e == [entry[s] EXCEPT !.status = "Failed"]
  <2>1. op[c].at \in {"run", "target"} /\ UNCHANGED actor /\ Update(s, e)
        /\ tap' = IF At(c, "target") THEN [tap EXCEPT ![s] = None] ELSE WithoutTap(c)
    BY <1>6 DEF GiveUp, PortsAfterFailure, MayFail, At, runtimeVars
  <2>2. tap'[s] = None /\ \A x \in Shares : x # s => tap'[x] = tap[x]
    BY <1>1, <1>2, <2>1 DEF WithoutTap, InCall, TypeOK, At
  <2>3. /\ entry'[s] = None <=> entry[s] = None
        /\ entry[s] # None => entry'[s].tap = entry[s].tap
        /\ \A x \in Shares : x # s => entry'[x] = entry[x]
    <3>1. entry[s] # None => e \in Entries /\ e.tap = entry[s].tap
      <4> HAVE entry[s] # None
      <4>1. entry[s] \in Entries
        BY <1>1 DEF TypeOK
      <4>2. QED
        BY <4>1 DEF Entries, Statuses
    <3>2. QED
      BY <1>1, <2>1, <3>1, NoneAssumption DEF Update, TypeOK
  <2>4. Idle(s)'
    <3>1. actor'[s] = None
      BY <1>2, <2>1 DEF InCall
    <3>2. entry[s] # None => ~entry[s].tap
      BY <1>1, <1>2, <2>1 DEF InCall
    <3>3. QED
      BY <2>2, <2>3, <3>1, <3>2 DEF Idle
  <2>5. QED
    BY <1>4, <2>1, <2>2, <2>3, <2>4
<1>7. CASE RunNew(c)
  <2> DEFINE e == [port |-> op[c].port, tap |-> op[c].tap, gen |-> 0, url |-> None,
                   status |-> "Starting", inspected |-> op[c].tap]
  <2>1. /\ op[c].at = "run" /\ UNCHANGED tap /\ entry' = [entry EXCEPT ![s] = e]
        /\ actor' = [actor EXCEPT ![s] = [target |-> IF op[c].tap THEN op[c].gen ELSE None,
                                          port |-> op[c].port]]
    BY <1>7 DEF RunNew, StartConnector, At
  <2>2. /\ actor'[s].target = tap[s] /\ actor'[s].port = op[c].port
        /\ entry'[s] = e
        /\ \A x \in Shares : x # s => actor'[x] = actor[x] /\ entry'[x] = entry[x]
    BY <1>1, <1>2, <2>1 DEF InCall, TypeOK
  <2>3. e \in Entries
    BY <1>1, QuickShareAssumption DEF Entries, Operations, Generations, Statuses
  <2>4. e # None /\ (op[c].tap <=> tap[s] # None)
    BY <1>2, <2>1, <2>3, NoneAssumption DEF InCall
  <2>5. Idle(s)'
    BY <2>1, <2>2, <2>4 DEF Idle
  <2>6. QED
    BY <1>4, <2>1, <2>2, <2>5
<1>8. CASE Record(c)
  <2> DEFINE e == [entry[s] EXCEPT !.tap = op[c].tap, !.inspected = op[c].tap]
  <2>1. op[c].at = "record" /\ UNCHANGED <<actor, tap>> /\ Update(s, e)
    BY <1>8 DEF Record, At, runtimeVars
  <2>2. entry[s] # None /\ entry[s] \in Entries /\ entry[s].port = op[c].port
    BY <1>1, <1>2, <2>1 DEF InCall, TypeOK, InOrder, Operations
  <2>3. e \in Entries /\ e.port = op[c].port /\ e.tap = op[c].tap /\ e.inspected = op[c].tap
    BY <1>1, <2>2 DEF Entries
  <2>4. entry'[s] = e /\ \A x \in Shares : x # s => entry'[x] = entry[x]
    BY <1>1, <2>1, <2>2 DEF Update, TypeOK
  <2>5. (op[c].tap <=> tap[s] # None) /\ (actor[s] # None => actor[s].target = tap[s])
        /\ (actor[s] # None => actor[s].port = op[c].port)
    BY <1>2, <2>1 DEF InCall
  <2>6. e # None
    BY <2>3, NoneAssumption
  <2>7. Idle(s)'
    BY <2>1, <2>3, <2>4, <2>5, <2>6 DEF Idle
  <2>8. QED
    BY <1>4, <2>1, <2>4, <2>7
<1>9. QED
  BY <1>5, <1>6, <1>7, <1>8

\* A status or an address written to a share says nothing of its tap, its connector or
\* its port.
SharesStay ==
  \A s \in Shares :
    /\ entry'[s] = None <=> entry[s] = None
    /\ entry[s] # None => /\ entry'[s].port = entry[s].port /\ entry'[s].tap = entry[s].tap
                          /\ entry'[s].inspected = entry[s].inspected

LEMMA StatusStays ==
  ASSUME TypeOK, NEW s \in Shares, NEW e, Update(s, e),
         entry[s] # None =>
           /\ e \in Entries /\ e.port = entry[s].port /\ e.tap = entry[s].tap
           /\ e.inspected = entry[s].inspected
  PROVE  SharesStay
  BY NoneAssumption DEF TypeOK, Update, SharesStay

World ==
  \/ \E q \in pollers : Poll(q)
  \/ \E s \in Shares : Spawn(s) \/ Connect(s) \/ Disconnect(s) \/ Die(s) \/ MirrorReads(s)
  \/ MirrorWrites

LEMMA WorldStays ==
  ASSUME TypeOK, World
  PROVE  SharesStay /\ UNCHANGED <<op, actor, tap, used, reserved>>
<1>1. ASSUME NEW s \in Shares, entry[s] # None, NEW u \in Addresses, NEW st \in Statuses
      PROVE  /\ \A e \in {[entry[s] EXCEPT !.url = u, !.status = st],
                          [entry[s] EXCEPT !.url = u], [entry[s] EXCEPT !.status = st]} :
                  /\ e \in Entries /\ e.port = entry[s].port /\ e.tap = entry[s].tap
                  /\ e.inspected = entry[s].inspected
  <2>1. entry[s] \in Entries
    BY <1>1 DEF TypeOK
  <2>2. QED
    BY <1>1, <2>1 DEF Entries
<1>2. ASSUME NEW q \in pollers, Poll(q) PROVE SharesStay /\ UNCHANGED <<op, actor, tap, used, reserved>>
  <2>1. q.share \in Shares
    BY <1>2 DEF TypeOK, Pollers
  <2>2. UNCHANGED <<op, actor, tap, used, reserved>>
    BY <1>2 DEF Poll, PollEnds, PollGoesOn, PollHost, PollReady, PollTimesOut, PollFails,
       PollerRest, runtimeVars
  <2>3. CASE PollReady(q)
    <3>1. q.asked \in Addresses /\ "Live" \in Statuses
      BY <2>3 DEF PollReady, Statuses
    <3>2. \/ Update(q.share, [entry[q.share] EXCEPT !.url = q.asked, !.status = "Live"])
          \/ Update(q.share, [entry[q.share] EXCEPT !.url = q.asked])
      BY <2>3 DEF PollReady
    <3>3. SharesStay
      BY <1>1, <2>1, <3>1, <3>2, StatusStays
    <3>4. QED
      BY <2>2, <3>3
  <2>4. CASE PollFails(q)
    <3>1. Update(q.share, [entry[q.share] EXCEPT !.status = "Failed"])
      BY <2>4 DEF PollFails
    <3>2. entry[q.share] # None =>
            LET e == [entry[q.share] EXCEPT !.status = "Failed"] IN
            /\ e \in Entries /\ e.port = entry[q.share].port /\ e.tap = entry[q.share].tap
            /\ e.inspected = entry[q.share].inspected
      <4> HAVE entry[q.share] # None
      <4>1. entry[q.share] \in Entries
        BY <2>1 DEF TypeOK
      <4>2. QED
        BY <4>1 DEF Entries, Statuses
    <3>3. SharesStay
      BY <2>1, <3>1, <3>2, StatusStays
    <3>4. QED
      BY <2>2, <3>3
  <2>5. CASE PollEnds(q) \/ PollGoesOn(q) \/ PollHost(q) \/ PollTimesOut(q)
    <3>1. UNCHANGED entry
      BY <2>5 DEF PollEnds, PollGoesOn, PollHost, PollTimesOut
    <3>2. QED
      BY <2>2, <3>1 DEF SharesStay
  <2>6. QED
    BY <1>2, <2>3, <2>4, <2>5 DEF Poll
<1>3. CASE MirrorWrites
  <2> DEFINE s == mirror.share
             e == [entry[s] EXCEPT !.status = mirror.status]
  <2>1. s \in Shares /\ mirror.status \in Statuses /\ Update(s, e)
    BY <1>3 DEF MirrorWrites, TypeOK
  <2>2. entry[s] # None => /\ e \in Entries /\ e.port = entry[s].port /\ e.tap = entry[s].tap
                           /\ e.inspected = entry[s].inspected
    <3> HAVE entry[s] # None
    <3>1. entry[s] \in Entries
      BY <2>1 DEF TypeOK
    <3>2. QED
      BY <2>1, <3>1 DEF Entries
  <2>3. SharesStay
    BY <2>1, <2>2, StatusStays
  <2>4. QED
    BY <1>3, <2>3 DEF MirrorWrites, runtimeVars
<1>4. ASSUME NEW s \in Shares, Spawn(s) \/ Connect(s) \/ Disconnect(s) \/ Die(s) \/ MirrorReads(s)
      PROVE  SharesStay /\ UNCHANGED <<op, actor, tap, used, reserved>>
  <2>1. UNCHANGED <<entry, op, actor, tap, used, reserved>>
    BY <1>4 DEF Spawn, Connect, Disconnect, Die, MirrorReads, RuntimeRest, shareVars
  <2>2. QED
    BY <2>1 DEF SharesStay
<1>5. QED
  BY <1>2, <1>3, <1>4 DEF World

LEMMA WorldKeepsShares ==
  ASSUME TypeOK, SharesInv, World PROVE SharesInv'
<1>1. SharesStay /\ UNCHANGED <<op, actor, tap>>
  BY WorldStays
<1>2. \A s \in Shares : Busy(s)' <=> Busy(s)
  BY <1>1 DEF Busy
<1>3. ASSUME NEW s \in Shares, Idle(s) PROVE Idle(s)'
  BY <1>1, <1>3 DEF SharesStay, Idle
<1>4. ASSUME NEW c \in Callers, op[c] # None, InCall(op[c]) PROVE InCall(op[c])'
  <2>1. op[c].share \in Shares
    BY <1>4 DEF TypeOK, Operations
  <2>2. QED
    BY <1>1, <1>4, <2>1 DEF SharesStay, InCall
<1>5. QED
  BY <1>1, <1>2, <1>3, <1>4 DEF SharesInv, Sole

LEMMA NextSharesInv ==
  ASSUME Overlap = FALSE, PortInv, SharesInv, TypeOK', [Next]_vars
  PROVE  SharesInv'
<1>1. ASSUME NEW c \in Callers, NEW s \in Shares, Start(c, s) \/ Restart(c, s) \/ Stop(c, s)
      PROVE  SharesInv'
  BY <1>1, StartsShare, RestartsShare, StopsShare
<1>2. ASSUME NEW c \in Callers, Continue(c) PROVE SharesInv'
  <2>1. CASE Release(c) \/ GiveUp(c) \/ RunNew(c) \/ Record(c)
    <3>1. op[c].share \in Shares
      BY <2>1 DEF PortInv, TypeOK, Release, GiveUp, PortsAfterFailure, MayFail, RunNew, Record, At, Operations
    <3>2. QED
      BY <2>1, <3>1, CallLeavesShare
  <2>2. QED
    BY <1>2, <2>1, CallKeepsShare DEF Continue
<1>3. CASE UNCHANGED vars
  BY <1>3 DEF vars, shareVars, runtimeVars, SharesInv, Sole, InCall, Idle, Busy
<1>4. CASE World
  BY <1>4, WorldKeepsShares DEF PortInv
<1>5. QED
  BY <1>1, <1>2, <1>3, <1>4 DEF Next, World

\* Whose a port is that a process is on, or that a call has.
LEMMA ActorPort ==
  ASSUME PortInv, SharesInv, NEW x \in Shares, actor[x] # None
  PROVE  \/ entry[x] # None /\ entry[x].port = actor[x].port
         \/ \E c \in Callers : Has(c) /\ op[c].port = actor[x].port
<1>1. CASE Busy(x)
  <2>1. PICK c \in Callers : op[c] # None /\ op[c].share = x
    BY <1>1 DEF Busy
  <2>2. InCall(op[c])
    BY <2>1 DEF SharesInv
  <2>3. QED
    BY <2>1, <2>2 DEF InCall, Has
<1>2. CASE ~Busy(x)
  BY <1>2 DEF SharesInv, Idle
<1>3. QED
  BY <1>1, <1>2

LEMMA CallPort ==
  ASSUME SharesInv, NEW c \in Callers, op[c] # None
  PROVE  Has(c) \/ (entry[op[c].share] # None /\ entry[op[c].share].port = op[c].port)
BY DEF SharesInv, InCall, Has

\* Nobody is bound to a port that is not reserved.
LEMMA BoundReserved ==
  ASSUME PortInv, SharesInv, UrlInv, NEW p, BoundTo(p) # {}
  PROVE  p \in reserved
<1>1. Held(p)
  <2>1. CASE \E s \in Shares : proc[s] # None /\ actor[s].port = p
    BY <2>1, ActorPort DEF UrlInv, Held
  <2>2. CASE \E c \in Callers : op[c] # None /\ op[c].port = p
    <3>1. PICK c \in Callers : op[c] # None /\ op[c].port = p
      BY <2>2
    <3>2. op[c].share \in Shares
      BY <3>1 DEF PortInv, TypeOK, Operations
    <3>3. QED
      BY <3>1, <3>2, CallPort DEF Held
  <2>3. QED
    BY <2>1, <2>2 DEF BoundTo
<1>2. QED
  BY <1>1, Accounting DEF PortInv

\* Whoever is bound to a share's port is the share's.
LEMMA BoundOwn ==
  ASSUME PortInv, SharesInv, UrlInv, NEW s \in Shares, entry[s] # None,
         NEW u \in BoundTo(entry[s].port)
  PROVE  u[1] = s
<1> DEFINE p == entry[s].port
<1>1. OnePortEach
  BY DEF PortInv
<1>2. CASE \E x \in Shares : proc[x] # None /\ actor[x].port = p /\ u = proc[x].url
  <2>1. PICK x \in Shares : proc[x] # None /\ actor[x].port = p /\ u = proc[x].url
    BY <1>2
  <2>2. x = s
    BY <1>1, <2>1, ActorPort DEF UrlInv, OnePortEach
  <2>3. QED
    BY <2>1, <2>2 DEF UrlInv
<1>3. CASE \E c \in Callers : op[c] # None /\ op[c].port = p /\ op[c].ending # None
                              /\ u = op[c].ending
  <2>1. PICK c \in Callers : op[c] # None /\ op[c].port = p /\ op[c].ending # None
                             /\ u = op[c].ending
    BY <1>3
  <2>2. op[c].share \in Shares
    BY <2>1 DEF PortInv, TypeOK, Operations
  <2>3. op[c].share = s
    BY <1>1, <2>1, <2>2, CallPort DEF OnePortEach
  <2>4. QED
    BY <2>1, <2>3 DEF UrlInv
<1>4. QED
  BY <1>2, <1>3 DEF BoundTo

LEMMA NextUrlInv ==
  ASSUME TypeOK, TypeOK', UrlInv, [Next]_vars
  PROVE  UrlInv'
<1>1. ASSUME NEW c \in Callers, NEW s \in Shares, Start(c, s) \/ Restart(c, s) \/ Stop(c, s)
      PROVE  UrlInv'
  <2>1. UNCHANGED <<proc, actor>>
    BY <1>1 DEF Start, Restart, Stop, runtimeVars
  <2>2. op'[c].ending = None /\ \A d \in Callers : d # c => op'[d] = op[d]
    BY <1>1 DEF Start, Restart, Stop, TypeOK
  <2>3. QED
    BY <2>1, <2>2 DEF UrlInv
<1>2. ASSUME NEW c \in Callers, Continue(c) PROVE UrlInv'
  <2>1. op[c] # None /\ op[c] \in Operations /\ op[c].share \in Shares
    BY <1>2 DEF Continue, TypeOK, StopConnector, ConnectorStopped, Release, Untap, Target,
       GiveUp, PortsAfterFailure, MayFail, RunNew, RunAgain, Record, At, Operations
  <2>2. CASE StopConnector(c)
    <3> DEFINE s == op[c].share
               ending == IF proc[s] = None THEN None ELSE proc[s].url
    <3>1. op'[c].ending = ending /\ op'[c].share = s /\ \A d \in Callers : d # c => op'[d] = op[d]
      BY <2>1, <2>2 DEF StopConnector, TypeOK, Operations
    <3>2. ending # None => ending[1] = s
      BY <2>1 DEF UrlInv
    <3>3. \A x \in Shares : IF x = s THEN proc'[x] = None
                            ELSE proc'[x] = proc[x] /\ actor'[x] = actor[x]
      BY <2>1, <2>2 DEF StopConnector, TypeOK
    <3>4. QED
      BY <3>1, <3>2, <3>3, SMTT(30) DEF UrlInv
  <2>3. CASE ~StopConnector(c)
    <3>1. \A d \in Callers : op'[d] # None /\ op'[d].ending # None =>
            op[d] # None /\ op'[d].ending = op[d].ending /\ op'[d].share = op[d].share
      <4>1. CASE Release(c) \/ GiveUp(c) \/ RunNew(c) \/ Record(c)
        <5>1. op' = [op EXCEPT ![c] = None]
          BY <4>1 DEF Release, GiveUp, PortsAfterFailure, RunNew, Record, Return
        <5>2. QED
          BY <5>1 DEF TypeOK
      <4>2. CASE ConnectorStopped(c)
        <5>1. Onward(c, "untap", op[c].tap, None) /\ op[c].tap \in BOOLEAN
          BY <2>1, <4>2 DEF ConnectorStopped, Operations, Onward
        <5>2. op'[c].ending = None /\ \A d \in Callers : d # c => op'[d] = op[d]
          BY <2>1, <5>1, CallGoesOn
        <5>3. QED
          BY <5>2
      <4>3. CASE Untap(c) \/ Target(c)
        <5>1. PICK at \in {"target", "run"}, tp \in BOOLEAN : Onward(c, at, tp, op[c].ending)
          <6>1. CASE Untap(c)
            <7>1. Onward(c, "target", FALSE, op[c].ending)
              BY <2>1, <6>1 DEF Untap, Operations, Onward
            <7>2. QED
              BY <7>1
          <6>2. CASE Target(c)
            <7>1. Onward(c, "run", op[c].inspect, op[c].ending) /\ op[c].inspect \in BOOLEAN
              BY <2>1, <6>2 DEF Target, Operations, Onward
            <7>2. QED
              BY <7>1
          <6>3. QED
            BY <4>3, <6>1, <6>2
        <5>2. op'[c].ending = op[c].ending /\ op'[c].share = op[c].share
              /\ \A d \in Callers : d # c => op'[d] = op[d]
          BY <2>1, <5>1, CallGoesOn DEF Operations
        <5>3. QED
          BY <2>1, <5>2
      <4>4. CASE RunAgain(c)
        <5>1. op' = [op EXCEPT ![c] = [op[c] EXCEPT !.at = "record"]]
          BY <4>4 DEF RunAgain, Goto
        <5>2. op'[c].ending = op[c].ending /\ op'[c].share = op[c].share
              /\ \A d \in Callers : d # c => op'[d] = op[d]
          BY <2>1, <5>1 DEF TypeOK, Operations
        <5>3. QED
          BY <2>1, <5>2
      <4>5. QED
        BY <1>2, <2>3, <4>1, <4>2, <4>3, <4>4 DEF Continue
    <3>2. proc' = proc /\ \A x \in Shares : actor[x] # None => actor'[x] = actor[x]
      BY <1>2, <2>1, <2>3 DEF Continue, TypeOK, ConnectorStopped, Release, Untap, Target,
         GiveUp, PortsAfterFailure, RunNew, RunAgain, Record, StartConnector, runtimeVars
    <3>3. QED
      BY <3>1, <3>2 DEF UrlInv
  <2>4. QED
    BY <2>2, <2>3
<1>3. CASE World
  <2>1. UNCHANGED <<op, actor>>
    BY <1>3, WorldStays
  <2>2. ASSUME NEW s \in Shares, Spawn(s) \/ Connect(s) \/ Disconnect(s) \/ Die(s)
        PROVE  \A x \in Shares : proc'[x] # None => actor[x] # None /\ proc'[x].url[1] = x
    <3>1. CASE Spawn(s)
      <4>1. /\ actor[s] # None
            /\ proc'[s] = [url |-> <<s, spawned[s] + 1>>, connected |-> FALSE]
            /\ \A x \in Shares : x # s => proc'[x] = proc[x]
        BY <3>1 DEF Spawn, TypeOK
      <4>2. <<s, spawned[s] + 1>>[1] = s
        OBVIOUS
      <4>3. proc'[s].url[1] = s
        BY <4>1, <4>2
      <4>4. QED
        BY <4>1, <4>3 DEF UrlInv
    <3>2. CASE Connect(s) \/ Disconnect(s)
      <4>1. PICK up \in BOOLEAN : proc' = [proc EXCEPT ![s].connected = up]
        BY <3>2 DEF Connect, Disconnect
      <4>2. proc[s] # None /\ proc[s] \in [url : Addresses, connected : BOOLEAN]
        BY <3>2 DEF Connect, Disconnect, TypeOK
      <4>3. proc'[s].url = proc[s].url /\ \A x \in Shares : x # s => proc'[x] = proc[x]
        BY <4>1, <4>2 DEF TypeOK
      <4>4. QED
        BY <4>2, <4>3 DEF UrlInv
    <3>3. CASE Die(s)
      BY <3>3 DEF Die, UrlInv, TypeOK
    <3>4. QED
      BY <2>2, <3>1, <3>2, <3>3
  <2>3. CASE \/ \E q \in pollers : Poll(q)
             \/ \E s \in Shares : MirrorReads(s)
             \/ MirrorWrites
    <3>1. UNCHANGED proc
      BY <2>3 DEF Poll, PollEnds, PollGoesOn, PollHost, PollReady, PollTimesOut, PollFails,
         PollerRest, runtimeVars, MirrorReads, MirrorWrites
    <3>2. QED
      BY <2>1, <3>1 DEF UrlInv
  <2>4. QED
    BY <1>3, <2>1, <2>2, <2>3 DEF World, UrlInv
<1>4. CASE UNCHANGED vars
  BY <1>4 DEF vars, runtimeVars, UrlInv
<1>5. QED
  BY <1>1, <1>2, <1>3, <1>4 DEF Next, World

\* What a step makes of the addresses in the map: it keeps them, drops them, or writes
\* one that a poller was told for the share.
LEMMA AddressWritten ==
  ASSUME TypeOK, OwnAddress, PollInv,
         NEW s \in Shares, NEW e, Update(s, e),
         entry[s] # None => e.url = entry[s].url \/ e.url = None \/ e.url[1] = s
  PROVE  OwnAddress'
BY DEF OwnAddress, Update, TypeOK

LEMMA NextOwnAddress ==
  ASSUME PortInv, PollInv, OwnAddress, [Next]_vars
  PROVE  OwnAddress'
<1> USE DEF PortInv
<1>1. \A s \in Shares : entry[s] # None => entry[s] \in Entries
  BY DEF TypeOK
<1>2. ASSUME NEW c \in Callers, NEW s \in Shares, Start(c, s) \/ Restart(c, s) \/ Stop(c, s)
      PROVE  OwnAddress'
  <2>1. CASE Start(c, s)
    BY <2>1 DEF Start, OwnAddress
  <2>2. CASE Stop(c, s)
    BY <2>2 DEF Stop, OwnAddress, TypeOK
  <2>3. CASE Restart(c, s)
    <3>1. entry[s] # None /\ entry[s] \in Entries
      BY <2>3 DEF Restart, TypeOK
    <3>2. entry'[s].url = None /\ \A x \in Shares : x # s => entry'[x] = entry[x]
      BY <2>3, <3>1 DEF Restart, TypeOK, Entries
    <3>3. QED
      BY <3>2 DEF OwnAddress
  <2>4. QED
    BY <1>2, <2>1, <2>2, <2>3
<1>3. ASSUME NEW c \in Callers, Continue(c) PROVE OwnAddress'
  <2>1. op[c] # None /\ op[c] \in Operations /\ op[c].share \in Shares /\ op[c].tap \in BOOLEAN
    BY <1>3 DEF Continue, TypeOK, StopConnector, ConnectorStopped, Release, Untap, Target,
       GiveUp, PortsAfterFailure, MayFail, RunNew, RunAgain, Record, At, Operations
  <2>2. CASE GiveUp(c)
    <3> DEFINE s == op[c].share
               e == [entry[s] EXCEPT !.status = "Failed"]
    <3>1. entry[s] # None => e.url = entry[s].url
      BY <1>1, <2>1 DEF Entries
    <3>2. Update(s, e)
      BY <2>2 DEF GiveUp, PortsAfterFailure
    <3>3. QED
      BY <2>1, <3>1, <3>2, AddressWritten
  <2>3. CASE Record(c)
    <3> DEFINE s == op[c].share
               e == [entry[s] EXCEPT !.tap = op[c].tap, !.inspected = op[c].tap]
    <3>1. entry[s] # None => e.url = entry[s].url
      BY <1>1, <2>1 DEF Entries
    <3>2. Update(s, e)
      BY <2>3 DEF Record
    <3>3. QED
      BY <2>1, <3>1, <3>2, AddressWritten
  <2>4. CASE RunNew(c)
    BY <2>1, <2>4 DEF RunNew, OwnAddress, TypeOK
  <2>5. CASE StopConnector(c) \/ ConnectorStopped(c) \/ Release(c) \/ Untap(c) \/ Target(c)
             \/ RunAgain(c)
    <3>1. UNCHANGED entry
      BY <2>5 DEF StopConnector, ConnectorStopped, Release, Untap, Target, RunAgain, shareVars
    <3>2. QED
      BY <3>1 DEF OwnAddress
  <2>6. QED
    BY <1>3, <2>2, <2>3, <2>4, <2>5 DEF Continue
<1>4. ASSUME NEW q \in pollers, Poll(q) PROVE OwnAddress'
  <2>1. q.share \in Shares
    BY <1>4 DEF TypeOK, Pollers
  <2>2. CASE PollReady(q)
    <3>1. q.asked \in Addresses
      BY <2>2 DEF PollReady
    <3>2. entry[q.share] # None => q.asked[1] = q.share
      BY <3>1 DEF PollInv
    <3>3. PICK e : /\ Update(q.share, e)
                   /\ e \in {[entry[q.share] EXCEPT !.url = q.asked, !.status = "Live"],
                             [entry[q.share] EXCEPT !.url = q.asked]}
      BY <2>2 DEF PollReady
    <3>4. entry[q.share] # None => e.url = q.asked
      BY <1>1, <2>1, <3>1, <3>3 DEF Entries
    <3>5. QED
      BY <2>1, <3>2, <3>3, <3>4, AddressWritten
  <2>3. CASE PollFails(q)
    <3> DEFINE e == [entry[q.share] EXCEPT !.status = "Failed"]
    <3>1. entry[q.share] # None => e.url = entry[q.share].url
      BY <1>1, <2>1 DEF Entries
    <3>2. Update(q.share, e)
      BY <2>3 DEF PollFails
    <3>3. QED
      BY <2>1, <3>1, <3>2, AddressWritten
  <2>4. CASE PollEnds(q) \/ PollGoesOn(q) \/ PollHost(q) \/ PollTimesOut(q)
    BY <2>4 DEF PollEnds, PollGoesOn, PollHost, PollTimesOut, OwnAddress
  <2>5. QED
    BY <1>4, <2>2, <2>3, <2>4 DEF Poll
<1>5. CASE MirrorWrites
  <2>1. mirror.share \in Shares /\ mirror.status \in Statuses
    BY <1>5 DEF MirrorWrites, TypeOK
  <2> DEFINE e == [entry[mirror.share] EXCEPT !.status = mirror.status]
  <2>2. entry[mirror.share] # None => e.url = entry[mirror.share].url
    BY <1>1, <2>1 DEF Entries
  <2>3. Update(mirror.share, e)
    BY <1>5 DEF MirrorWrites
  <2>4. QED
    BY <2>1, <2>2, <2>3, AddressWritten
<1>6. CASE \/ \E s \in Shares : Spawn(s) \/ Connect(s) \/ Disconnect(s) \/ Die(s) \/ MirrorReads(s)
           \/ UNCHANGED vars
  <2>1. UNCHANGED entry
    BY <1>6 DEF Spawn, Connect, Disconnect, Die, MirrorReads, RuntimeRest, shareVars, vars
  <2>2. QED
    BY <2>1 DEF OwnAddress
<1>7. QED
  BY <1>2, <1>3, <1>4, <1>5, <1>6 DEF Next

\* Pollers: a step that makes none, and leaves ports and calls be.
LEMMA PollersStay ==
  ASSUME PollInv, pollers' \subseteq pollers, used \subseteq used',
         \A q \in pollers : entry'[q.share] # None =>
           entry[q.share] # None /\ entry'[q.share].port = entry[q.share].port,
         \A c \in Callers : op'[c] # None /\ op'[c].kind = "start" =>
           \/ op[c] # None /\ op[c].kind = "start" /\ op'[c].share = op[c].share
           \/ op'[c].share \notin used
  PROVE  PollInv'
BY DEF PollInv

\* ... or puts one in another's place, with what it was told of its own share.
LEMMA PollerMoves ==
  ASSUME PollInv, NEW q \in pollers, NEW r, pollers' = (pollers \ {q}) \cup {r},
         r.share = q.share, r.port = q.port,
         r.asked \in Addresses /\ entry'[q.share] # None => r.asked[1] = q.share,
         UNCHANGED <<op, used>>,
         \A x \in pollers : entry'[x.share] # None =>
           entry[x.share] # None /\ entry'[x.share].port = entry[x.share].port
  PROVE  PollInv'
BY DEF PollInv

LEMMA CallsKeepPollers ==
  ASSUME PortInv, TypeOK', PollInv, NEW c \in Callers,
         \/ \E s \in Shares : Start(c, s) \/ Restart(c, s) \/ Stop(c, s)
         \/ StopConnector(c) \/ ConnectorStopped(c) \/ Release(c) \/ Untap(c) \/ Target(c)
         \/ GiveUp(c) \/ RunAgain(c)
  PROVE  PollInv'
<1> USE DEF PortInv
<1>1. \A q \in pollers : q.share \in Shares
  BY DEF TypeOK, Pollers
<1>2. pollers' = pollers
  BY DEF Start, Restart, Stop, StopConnector, ConnectorStopped, Release, Untap, Target,
       GiveUp, PortsAfterFailure,
     RunAgain
<1>3. \A s \in Shares : entry'[s] # None => entry[s] # None /\ entry'[s].port = entry[s].port
  <2>1. CASE GiveUp(c)
    <3> DEFINE s == op[c].share
               e == [entry[s] EXCEPT !.status = "Failed"]
    <3>1. s \in Shares /\ Update(s, e)
      BY <2>1 DEF GiveUp, PortsAfterFailure, MayFail, At, TypeOK, Operations
    <3>2. entry[s] # None => e.port = entry[s].port
      BY <3>1 DEF TypeOK, Entries
    <3>3. QED
      BY <3>1, <3>2 DEF Update, TypeOK
  <2>2. ASSUME NEW s \in Shares, Restart(c, s)
        PROVE  \A x \in Shares : entry'[x] # None => entry[x] # None /\ entry'[x].port = entry[x].port
    <3>1. entry[s] # None /\ entry[s] \in Entries
      BY <2>2 DEF Restart, TypeOK
    <3>2. entry'[s].port = entry[s].port /\ \A x \in Shares : x # s => entry'[x] = entry[x]
      BY <2>2, <3>1 DEF Restart, TypeOK, Entries
    <3>3. QED
      BY <3>1, <3>2
  <2>3. ASSUME NEW s \in Shares, Stop(c, s)
        PROVE  \A x \in Shares : entry'[x] # None => entry[x] # None /\ entry'[x].port = entry[x].port
    BY <2>3 DEF Stop, TypeOK
  <2>4. CASE \/ \E s \in Shares : Start(c, s)
             \/ StopConnector(c) \/ ConnectorStopped(c) \/ Release(c) \/ Untap(c) \/ Target(c)
             \/ RunAgain(c)
    <3>1. UNCHANGED entry
      BY <2>4 DEF Start, StopConnector, ConnectorStopped, Release, Untap, Target, RunAgain, shareVars
    <3>2. QED
      BY <3>1
  <2>5. QED
    BY <2>1, <2>2, <2>3, <2>4
<1>4. /\ used \subseteq used'
      /\ \A d \in Callers : op'[d] # None /\ op'[d].kind = "start" =>
           \/ op[d] # None /\ op[d].kind = "start" /\ op'[d].share = op[d].share
           \/ op'[d].share \notin used
  <2>1. ASSUME NEW s \in Shares, Start(c, s)
        PROVE  /\ op'[c].share = s /\ s \notin used /\ used \subseteq used'
               /\ \A d \in Callers : d # c => op'[d] = op[d]
    BY <2>1 DEF Start, TypeOK
  <2>2. ASSUME NEW s \in Shares, Restart(c, s) \/ Stop(c, s)
        PROVE  /\ op'[c].kind # "start" /\ used' = used
               /\ \A d \in Callers : d # c => op'[d] = op[d]
    <3>1. CASE Stop(c, s)
      BY <3>1 DEF Stop, TypeOK
    <3>2. CASE Restart(c, s)
      <4>1. PICK inspect \in BOOLEAN :
              op' = [op EXCEPT ![c] = [at |-> "stop", kind |-> "restart", share |-> s,
                                       port |-> entry[s].port, gen |-> entry[s].gen + 1,
                                       inspect |-> inspect, tap |-> entry[s].tap,
                                       ending |-> None]]
        BY <3>2 DEF Restart
      <4>2. QED
        BY <3>2, <4>1 DEF Restart, TypeOK
    <3>3. QED
      BY <2>2, <3>1, <3>2
  <2>3. CASE Release(c) \/ GiveUp(c)
    BY <2>3 DEF Release, GiveUp, PortsAfterFailure, Return, TypeOK
  <2>4. CASE StopConnector(c) \/ ConnectorStopped(c) \/ Untap(c) \/ Target(c) \/ RunAgain(c)
    <3>1. op[c] # None /\ op[c] \in Operations
      BY <2>4 DEF StopConnector, ConnectorStopped, Untap, Target, RunAgain, At, TypeOK
    <3>2. used' = used
      BY <2>4 DEF StopConnector, ConnectorStopped, Untap, Target, RunAgain, shareVars
    <3>3. op'[c].kind = op[c].kind /\ op'[c].share = op[c].share
          /\ \A d \in Callers : d # c => op'[d] = op[d]
      <4>1. CASE StopConnector(c)
        BY <3>1, <4>1 DEF StopConnector, TypeOK, Operations
      <4>2. CASE ConnectorStopped(c)
        BY <3>1, <4>2 DEF ConnectorStopped, TypeOK, Operations
      <4>3. CASE Untap(c) \/ Target(c)
        BY <3>1, <4>3 DEF Untap, Target, TypeOK, Operations
      <4>4. CASE RunAgain(c)
        BY <3>1, <4>4 DEF RunAgain, Goto, TypeOK, Operations
      <4>5. QED
        BY <2>4, <4>1, <4>2, <4>3, <4>4, SMTT(30)
    <3>4. QED
      BY <3>1, <3>2, <3>3
  <2>5. QED
    BY <2>1, <2>2, <2>3, <2>4
<1>5. QED
  BY <1>1, <1>2, <1>3, <1>4, PollersStay

\* A new poller asks for the address of a share that is in the map, on its port.
LEMMA NewPoller ==
  ASSUME PortInv, SharesInv, TypeOK', PollInv, NEW c \in Callers, RunNew(c) \/ Record(c)
  PROVE  PollInv'
<1> DEFINE s == op[c].share
<1> USE DEF PortInv
<1>1. op[c] # None /\ op[c] \in Operations /\ s \in Shares
  BY DEF RunNew, Record, At, TypeOK, Operations
<1>2. op'[c] = None /\ used' = used /\ \A d \in Callers : d # c => op'[d] = op[d]
  BY DEF RunNew, Record, Return, TypeOK
<1>3. \A q \in pollers : q.share \in Shares
  BY DEF TypeOK, Pollers
<1>4. CASE RunNew(c)
  <2>1. op[c].kind = "start" /\ s \in used
        /\ \A d \in Callers : op[d] # None /\ op[d].kind = "start" /\ op[d].share = s => d = c
    BY <1>1, <1>4 DEF RunNew, StartedOnce
  <2>2. \A q \in pollers : q.share # s
    BY <1>1, <2>1 DEF PollInv
  <2>3. entry'[s].port = op[c].port /\ \A x \in Shares : x # s => entry'[x] = entry[x]
    BY <1>1, <1>4 DEF RunNew, TypeOK
  <2>4. pollers' = pollers \cup {Poller(s, 0, op[c].port)}
    BY <1>4 DEF RunNew
  <2>5. QED
    BY <1>2, <1>3, <2>1, <2>2, <2>3, <2>4, NoneAssumption DEF PollInv, Poller
<1>5. CASE Record(c)
  <2>1. op[c].kind = "restart" /\ InCall(op[c])
    BY <1>1, <1>5 DEF Record, At, InOrder, Operations, SharesInv
  <2>2. entry[s] # None /\ entry[s] \in Entries /\ entry[s].port = op[c].port
    BY <1>1, <2>1 DEF InCall, TypeOK
  <2>3. s \in used /\ \A d \in Callers : op[d] # None /\ op[d].kind = "start" => op[d].share # s
    BY <1>1, <2>2 DEF StartedOnce
  <2>4. entry'[s].port = op[c].port /\ \A x \in Shares : x # s => entry'[x] = entry[x]
    <3>1. Update(s, [entry[s] EXCEPT !.tap = op[c].tap, !.inspected = op[c].tap])
      BY <1>5 DEF Record
    <3>2. QED
      BY <1>1, <2>2, <3>1 DEF Update, TypeOK, Entries
  <2>5. pollers' = pollers \cup {Poller(s, op[c].gen, op[c].port)}
    BY <1>5 DEF Record
  <2>6. QED
    BY <1>2, <1>3, <2>2, <2>3, <2>4, <2>5, NoneAssumption DEF PollInv, Poller
<1>6. QED
  BY <1>4, <1>5

LEMMA WorldKeepsPollers ==
  ASSUME PortInv, SharesInv, UrlInv, PollInv, World
  PROVE  PollInv'
<1> USE DEF PortInv
<1>1. UNCHANGED <<op, used>> /\ SharesStay
  BY WorldStays
<1>2. \A q \in pollers : entry'[q.share] # None =>
        entry[q.share] # None /\ entry'[q.share].port = entry[q.share].port
  BY <1>1 DEF SharesStay, TypeOK, Pollers
<1>3. CASE pollers' \subseteq pollers
  BY <1>1, <1>2, <1>3, PollersStay
<1>4. ASSUME NEW q \in pollers, Poll(q), ~(pollers' \subseteq pollers) PROVE PollInv'
  <2>1. q \in Pollers /\ q.share \in Shares
    BY DEF TypeOK, Pollers
  <2>2. ASSUME NEW r, pollers' = (pollers \ {q}) \cup {r}, r.share = q.share, r.port = q.port,
               r.asked \in {None, Asking, Late} \cup BoundTo(q.port)
        PROVE  PollInv'
    <3>1. ASSUME r.asked \in Addresses, entry'[q.share] # None PROVE r.asked[1] = q.share
      <4>1. entry[q.share] # None /\ entry[q.share].port = q.port
        BY <1>2, <3>1 DEF PollInv
      <4>2. r.asked \in BoundTo(q.port)
        BY <2>2, <3>1, NoneAssumption
      <4>3. QED
        BY <2>1, <4>1, <4>2, BoundOwn
    <3>2. QED
      BY <1>1, <1>2, <2>2, <3>1, PollerMoves
  <2>3. CASE PollGoesOn(q)
    <3> DEFINE r == [q EXCEPT !.asked = Asking]
    <3>1. pollers' = (pollers \ {q}) \cup {r}
      BY <2>3 DEF PollGoesOn
    <3>2. r.share = q.share /\ r.port = q.port /\ r.asked = Asking
      BY <2>1 DEF Pollers
    <3>3. QED
      BY <2>2, <3>1, <3>2
  <2>4. CASE PollHost(q)
    <3>1. PICK u \in BoundTo(q.port) \cup {None} :
            pollers' = (pollers \ {q}) \cup {[q EXCEPT !.asked = u]}
      BY <2>4 DEF PollHost
    <3> DEFINE r == [q EXCEPT !.asked = u]
    <3>2. r.share = q.share /\ r.port = q.port /\ r.asked = u
      BY <2>1 DEF Pollers
    <3>3. QED
      BY <2>2, <3>1, <3>2
  <2>5. CASE PollReady(q)
    <3> DEFINE r == [q EXCEPT !.asked = None, !.seen = TRUE]
    <3>1. pollers' = (pollers \ {q}) \cup {r}
      BY <1>4, <2>5 DEF PollReady
    <3>2. r.share = q.share /\ r.port = q.port /\ r.asked = None
      BY <2>1 DEF Pollers
    <3>3. QED
      BY <2>2, <3>1, <3>2
  <2>6. CASE PollTimesOut(q)
    <3> DEFINE r == [q EXCEPT !.asked = Late]
    <3>1. pollers' = (pollers \ {q}) \cup {r}
      BY <2>6 DEF PollTimesOut
    <3>2. r.share = q.share /\ r.port = q.port /\ r.asked = Late
      BY <2>1 DEF Pollers
    <3>3. QED
      BY <2>2, <3>1, <3>2
  <2>7. QED
    BY <1>4, <2>3, <2>4, <2>5, <2>6 DEF Poll, PollEnds, PollFails
<1>5. CASE \/ \E s \in Shares : Spawn(s) \/ Connect(s) \/ Disconnect(s) \/ Die(s) \/ MirrorReads(s)
           \/ MirrorWrites
  BY <1>3, <1>5 DEF Spawn, Connect, Disconnect, Die, MirrorReads, MirrorWrites, RuntimeRest
<1>6. QED
  BY <1>3, <1>4, <1>5 DEF World

LEMMA NextSerialInv ==
  ASSUME Overlap = FALSE, SerialInv, [Next]_vars PROVE SerialInv'
<1> USE DEF SerialInv
<1>1. PortInv' /\ TypeOK /\ TypeOK'
  BY NextPortInv, NextTypeOK DEF PortInv
<1>2. SharesInv' /\ UrlInv' /\ OwnAddress'
  BY <1>1, NextSharesInv, NextUrlInv, NextOwnAddress
<1>3. ASSUME NEW c \in Callers, (\E s \in Shares : Start(c, s) \/ Restart(c, s) \/ Stop(c, s))
                                 \/ Continue(c)
      PROVE  PollInv'
  BY <1>1, <1>3, CallsKeepPollers, NewPoller DEF Continue
<1>4. ASSUME UNCHANGED vars PROVE PollInv'
  BY <1>4 DEF vars, shareVars, PollInv
<1>5. PollInv'
  BY <1>3, <1>4, WorldKeepsPollers DEF Next, World
<1>6. QED
  BY <1>1, <1>2, <1>5

LEMMA InitSerialInv == Init => SerialInv
<1> SUFFICES ASSUME Init PROVE SerialInv
  OBVIOUS
<1>1. PortInv
  BY InitPortInv
<1>2. QED
  BY <1>1 DEF Init, SerialInv, SharesInv, Sole, Idle, Busy, UrlInv, PollInv, OwnAddress

LEMMA Serial == Overlap = FALSE => (Spec => []SerialInv)
<1> DEFINE AloneInv == Overlap = FALSE /\ SerialInv
<1>1. Overlap = FALSE /\ Init => AloneInv
  BY InitSerialInv
<1>2. AloneInv /\ [Next]_vars => AloneInv'
  BY NextSerialInv
<1>3. AloneInv => SerialInv
  OBVIOUS
<1>4. QED
  BY <1>1, <1>2, <1>3, PTL DEF Spec

\* As long as operations on one share do not overlap: no two shares have a port, and
\* whatever listens on one is of a share that has it or of a call that stops it.
THEOREM PortsAreOwn == Overlap = FALSE => (Spec => []OwnPort)
<1>1. SerialInv => OwnPort
  BY BoundReserved DEF SerialInv, PortInv, OnePortEach, OwnPort
<1>2. QED
  BY <1>1, Serial, PTL

\* As long as operations on one share do not overlap, a share that is stopped, or was
\* never started, has no connector, no process and no tap left.
THEOREM StoppedIsForgotten == Overlap = FALSE => (Spec => []NothingForgotten)
<1>1. SerialInv => NothingForgotten
  BY DEF SerialInv, SharesInv, Idle, UrlInv, NothingForgotten
<1>2. QED
  BY <1>1, Serial, PTL

\* As long as operations on one share do not overlap, a share that is in the map forwards
\* to the tap that is there, and knows of it.
THEOREM ForwardsToItsTap == Overlap = FALSE => (Spec => []Forwards)
<1>1. SerialInv => Forwards
  BY DEF SerialInv, SharesInv, Idle, Forwards
<1>2. QED
  BY <1>1, Serial, PTL

\* As long as operations on one share do not overlap, a share shows no other share's
\* address, whichever pollers of earlier generations still ask on its port.
THEOREM AddressIsOwn == Overlap = FALSE => (Spec => []OwnAddress)
<1>1. SerialInv => OwnAddress
  BY DEF SerialInv
<1>2. QED
  BY <1>1, Serial, PTL

=============================================================================
