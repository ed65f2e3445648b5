---------------------------- MODULE MachineProofs ----------------------------
(***************************************************************************)
(* What is proved of Machine for every set of ports and every bound: its   *)
(* types, and that a switch does not cut the service of a tunnel; and,     *)
(* with one caller, that at rest the four records of the mode agree, a     *)
(* tunnel is not run twice, what is stopped does not run, and no port is   *)
(* lost.                                                                   *)
(***************************************************************************)
EXTENDS Machine, TLAPS

\* What a call is at says something of what it is and of what it carries.
Placed(o) ==
  /\ o.at \in {"load", "ready"} => o.new \in Ports
  /\ o.at = "adopt" => o.kind = "resume"
  /\ o.at = "ready" => o.kind \in {"on", "update"}
  /\ o.at \in {"clear", "port"} => o.kind # "on"
  /\ o.at = "healthy" => o.kind \in {"off", "update"}
  /\ o.at = "remove" => o.kind = "off"
  /\ o.at \in {"halt", "drop"} /\ o.next = "port" => o.kind # "on"
  /\ o.at \in {"halt", "drop"} /\ o.next = "row" => o.kind = "on"

PlacesInv == \A c \in Callers : op[c] # None => Placed(op[c])
TypeInv == TypeOK /\ PlacesInv

-----------------------------------------------------------------------------
(* The steps of a call                                                     *)

\* One call moves to o, or is over; the others stay where they are.
MovesTo(c, o) == op' = [op EXCEPT ![c] = o]
At1(o, x) == [kind |-> o.kind, at |-> x, old |-> o.old, new |-> o.new, next |-> o.next]
Halted(o, next) == [kind |-> o.kind, at |-> "halt", old |-> o.old, new |-> o.new, next |-> next]

LEMMA GotoIs ==
  ASSUME TypeOK, NEW c \in Callers, op[c] # None, NEW x, Goto(c, x)
  PROVE  MovesTo(c, At1(op[c], x))
<1>1. op[c] \in Ops
  BY DEF TypeOK
<1>2. [op[c] EXCEPT !.at = x] = At1(op[c], x)
  BY <1>1 DEF Ops, At1
<1>3. QED
  BY <1>2 DEF Goto, MovesTo

LEMMA HaltIs ==
  ASSUME TypeOK, NEW c \in Callers, op[c] # None, NEW next, Halt(c, next)
  PROVE  MovesTo(c, Halted(op[c], next))
<1>1. op[c] \in Ops
  BY DEF TypeOK
<1>2. op'[c] = Halted(op[c], next)
  BY <1>1 DEF Halt, Halted, Ops, TypeOK
<1>3. op' = [op EXCEPT ![c] = op'[c]]
  BY DEF Halt, TypeOK
<1>4. QED
  BY <1>2, <1>3 DEF MovesTo

LEMMA EndIs ==
  ASSUME NEW c \in Callers, End(c)
  PROVE  MovesTo(c, None)
BY DEF End, MovesTo

LEMMA MoveKeeps ==
  ASSUME TypeInv, NEW c \in Callers, NEW o, MovesTo(c, o),
         o = None \/ (o \in Ops /\ Placed(o))
  PROVE  op' \in [Callers -> Ops \cup {None}] /\ PlacesInv'
BY DEF TypeInv, TypeOK, PlacesInv, Placed, MovesTo

\* What a move leaves of a call.
LEMMA MoveType ==
  ASSUME NEW o \in Ops, NEW x \in Places, NEW next \in Nexts
  PROVE  At1(o, x) \in Ops /\ Halted(o, next) \in Ops
BY DEF At1, Halted, Ops, Places

\* The state a step finds its call in.
LEMMA CallType ==
  ASSUME TypeInv, NEW c \in Callers, op[c] # None
  PROVE  op[c] \in Ops /\ Placed(op[c])
BY DEF TypeInv, TypeOK, PlacesInv

-----------------------------------------------------------------------------
(* Types                                                                   *)

LEMMA NewType ==
  ASSUME NEW p \in Ports PROVE New(p) \in Connectors
BY DEF New, Connectors

LEMMA FaultType ==
  ASSUME TypeInv PROVE Fault \/ NoFault => trouble' \in Nat
BY DEF Fault, NoFault, TypeInv, TypeOK

LEMMA OddType ==
  ASSUME TypeInv, NEW why PROVE Odd(why) /\ why \in Oddities => odd' \subseteq Oddities
BY DEF Odd, TypeInv, TypeOK

LEMMA FailedType ==
  ASSUME TypeInv, NEW c, NEW why
  PROVE  Failed(c, why) /\ why \subseteq Oddities => odd' \subseteq Oddities
BY DEF Failed, Oddities, TypeInv, TypeOK

LEMMA UninstalledType ==
  ASSUME TypeInv, NEW c, NEW ports
  PROVE  Uninstalled(c, ports) /\ ports \subseteq Ports => taken' \subseteq Ports
BY DEF Uninstalled

LEMMA BeginType ==
  ASSUME TypeInv, NEW c \in Callers, Begin(c)
  PROVE  TypeInv'
<1> DEFINE Called(kind, at) == [kind |-> kind, at |-> at, old |-> services, new |-> None,
                                next |-> "end"]
<1>1. services \in Ports \cup {None}
  BY DEF TypeInv, TypeOK
<1>2. ASSUME NEW kind \in Kinds, NEW at \in Places, Call(c, kind, at)
      PROVE  MovesTo(c, Called(kind, at)) /\ Called(kind, at) \in Ops
  BY <1>1, <1>2 DEF Call, MovesTo, Ops, Nexts
<1>3. /\ op' \in [Callers -> Ops \cup {None}] /\ PlacesInv'
      /\ services' \in Ports \cup {None} /\ odd' \subseteq Oddities
  <2>1. CASE \E on \in BOOLEAN : SetAlwaysOn(c, on)
    <3>1. PICK on \in BOOLEAN : SetAlwaysOn(c, on)
      BY <2>1
    <3>2. \/ Call(c, "on", "row") \/ Call(c, "off", "row")
          \/ Call(c, "on", "install") \/ Call(c, "off", "clear")
      BY <3>1 DEF SetAlwaysOn
    <3>3. PICK kind \in {"on", "off"}, at \in {"row", "install", "clear"} :
             Call(c, kind, at) /\ ~(kind = "on" /\ at = "clear")
      BY <3>2
    <3>4. Placed(Called(kind, at))
      BY <3>3 DEF Placed
    <3>5. QED
      BY <1>1, <1>2, <3>1, <3>3, <3>4, MoveKeeps DEF SetAlwaysOn, Kinds, Places, TypeInv, TypeOK
  <2>2. CASE RestartTunnel(c)
    <3>1. CASE Call(c, "update", "clear")
      <4>1. Placed(Called("update", "clear"))
        BY DEF Placed
      <4>2. QED
        BY <1>1, <1>2, <2>2, <3>1, <4>1, MoveKeeps DEF RestartTunnel, Kinds, Places, TypeInv, TypeOK
    <3>2. CASE op' = [op EXCEPT ![c] = [kind |-> "update", at |-> "halt", old |-> None,
                                        new |-> None, next |-> "port"]]
      <4> DEFINE o == [kind |-> "update", at |-> "halt", old |-> None, new |-> None,
                       next |-> "port"]
      <4>1. o \in Ops /\ Placed(o)
        BY DEF Ops, Kinds, Places, Nexts, Placed
      <4>2. MovesTo(c, o)
        BY <3>2 DEF MovesTo
      <4> HIDE DEF o
      <4>3. QED
        BY <1>1, <2>2, <4>1, <4>2, MoveKeeps DEF RestartTunnel, TypeInv, TypeOK
    <3>3. QED
      BY <2>2, <3>1, <3>2 DEF RestartTunnel
  <2>3. CASE StartTunnel(c) \/ ResumeTunnel(c) \/ StopTunnel(c)
    <3>1. PICK kind \in {"start", "resume", "stop"}, at \in {"unload", "clear", "adopt", "halt"} :
             /\ Call(c, kind, at)
             /\ at = "adopt" => kind = "resume"
      BY <2>3 DEF StartTunnel, ResumeTunnel, StopTunnel, Startable
    <3>2. Placed(Called(kind, at))
      BY <3>1 DEF Placed
    <3>3. services' = services /\ odd' \subseteq Oddities
      BY <2>3 DEF StartTunnel, ResumeTunnel, StopTunnel, Odd, Oddities, TypeInv, TypeOK
    <3>4. QED
      BY <1>1, <1>2, <3>1, <3>2, <3>3, MoveKeeps DEF Kinds, Places
  <2>4. QED
    BY <2>1, <2>2, <2>3 DEF Begin
<1>4. asks' \in Nat
  BY DEF Begin, Ask, TypeInv, TypeOK
<1>5. QED
  BY <1>3, <1>4 DEF Begin, stored, runs, TypeInv, TypeOK

\* A call goes on at x.
LEMMA GotoType ==
  ASSUME TypeInv, NEW c \in Callers, op[c] # None, NEW x \in Places, Goto(c, x),
         Placed(At1(op[c], x))
  PROVE  op' \in [Callers -> Ops \cup {None}] /\ PlacesInv'
<1>1. op[c] \in Ops /\ MovesTo(c, At1(op[c], x))
  BY CallType, GotoIs DEF TypeInv
<1>2. At1(op[c], x) \in Ops
  BY <1>1 DEF At1, Ops
<1>3. QED
  BY <1>1, <1>2, MoveKeeps

LEMMA HaltType ==
  ASSUME TypeInv, NEW c \in Callers, op[c] # None, NEW next \in Nexts, Halt(c, next),
         next = "port" => op[c].kind # "on", next = "row" => op[c].kind = "on"
  PROVE  op' \in [Callers -> Ops \cup {None}] /\ PlacesInv'
<1>1. op[c] \in Ops /\ MovesTo(c, Halted(op[c], next))
  BY CallType, HaltIs DEF TypeInv
<1>2. Halted(op[c], next) \in Ops
  BY <1>1 DEF Halted, Ops, Places
<1>3. Placed(Halted(op[c], next))
  BY DEF Halted, Placed
<1>4. QED
  BY <1>1, <1>2, <1>3, MoveKeeps

LEMMA EndType ==
  ASSUME TypeInv, NEW c \in Callers, End(c)
  PROVE  op' \in [Callers -> Ops \cup {None}] /\ PlacesInv'
BY EndIs, MoveKeeps

LEMMA InstallType ==
  ASSUME TypeInv, NEW c \in Callers, Install(c)
  PROVE  TypeInv'
<1>1. op[c] # None /\ op[c].at = "install" /\ op[c] \in Ops /\ Placed(op[c])
  BY CallType DEF Install, At
<1>2. CASE \E p \in FreePorts :
             /\ op' = [op EXCEPT ![c].at = "load", ![c].new = p]
             /\ taken' = taken \cup {p}
             /\ tokenFile' = TRUE
             /\ UNCHANGED <<odd, trouble>>
  <2>1. PICK p \in FreePorts :
             /\ op' = [op EXCEPT ![c].at = "load", ![c].new = p]
             /\ taken' = taken \cup {p}
             /\ tokenFile' = TRUE
             /\ UNCHANGED <<odd, trouble>>
    BY <1>2
  <2> DEFINE o == [kind |-> op[c].kind, at |-> "load", old |-> op[c].old, new |-> p,
                   next |-> op[c].next]
  <2>2. p \in Ports
    BY DEF FreePorts
  <2>3. op'[c] = o
    BY <1>1, <2>1 DEF Ops, TypeInv, TypeOK
  <2>4. op' = [op EXCEPT ![c] = op'[c]]
    BY <2>1 DEF TypeInv, TypeOK
  <2>5. o \in Ops /\ Placed(o)
    BY <1>1, <2>2 DEF Ops, Places, Placed
  <2>6. op' \in [Callers -> Ops \cup {None}] /\ PlacesInv'
    BY <2>3, <2>4, <2>5, MoveKeeps DEF MovesTo
  <2>7. QED
    BY <2>1, <2>2, <2>6 DEF Install, runs, TypeInv, TypeOK
<1>3. CASE End(c)
  <2>1. op' \in [Callers -> Ops \cup {None}] /\ PlacesInv'
    BY <1>3, EndType
  <2>2. taken' \subseteq Ports
    <3>1. taken \subseteq Ports /\ \A p \in FreePorts : p \in Ports
      BY DEF FreePorts, TypeInv, TypeOK
    <3>2. QED
      BY <3>1, UninstalledType DEF Install
  <2>3. odd' \subseteq Oddities
    <3>1. odd \subseteq Oddities /\ {} \subseteq Oddities /\ {"noPort"} \subseteq Oddities
      BY DEF Oddities, TypeInv, TypeOK
    <3>2. QED
      BY <3>1, FailedType DEF Install
  <2>4. trouble' \in Nat
    BY FaultType DEF Install, TypeInv, TypeOK
  <2>5. tokenFile' \in BOOLEAN
    BY DEF Install, TypeInv, TypeOK
  <2>6. QED
    BY <2>1, <2>2, <2>3, <2>4, <2>5 DEF Install, runs, TypeInv, TypeOK
<1>4. QED
  BY <1>2, <1>3 DEF Install

LEMMA LoadType ==
  ASSUME TypeInv, NEW c \in Callers, Load(c)
  PROVE  TypeInv'
<1>1. op[c] # None /\ op[c] \in Ops /\ Placed(op[c]) /\ op[c].new \in Ports
  BY CallType DEF Load, At, Placed
<1>2. New(op[c].new) \in Connectors
  BY <1>1, NewType
<1>3. op' \in [Callers -> Ops \cup {None}] /\ PlacesInv'
  <2>1. CASE End(c)
    BY <2>1, EndType
  <2>2. CASE op[c].kind \in {"on", "update"} /\ Goto(c, "ready")
    <3>1. Placed(At1(op[c], "ready"))
      BY <1>1, <2>2 DEF At1, Placed
    <3>2. QED
      BY <1>1, <2>2, <3>1, GotoType DEF Places
  <2>3. QED
    BY <2>1, <2>2 DEF Load
<1>4. /\ taken' \subseteq Ports /\ odd' \subseteq Oddities /\ trouble' \in Nat
      /\ tokenFile' \in BOOLEAN
  <2>1. taken' \subseteq Ports
    <3>1. taken \subseteq Ports /\ taken \ {op[c].new} \subseteq Ports
      BY DEF TypeInv, TypeOK
    <3>2. QED
      BY <3>1, UninstalledType DEF Load
  <2>2. odd' \subseteq Oddities
    <3>1. odd \subseteq Oddities /\ {} \subseteq Oddities /\ "unremembered" \in Oddities
      BY DEF Oddities, TypeInv, TypeOK
    <3>2. QED
      BY <3>1, FailedType, OddType DEF Load
  <2>3. trouble' \in Nat
    BY FaultType DEF Load, TypeInv, TypeOK
  <2>4. tokenFile' \in BOOLEAN
    BY DEF Load, TypeInv, TypeOK
  <2>5. QED
    BY <2>1, <2>2, <2>3, <2>4
<1>5. services' \in Ports \cup {None} /\ remembered' \in Ports \cup {None}
  BY <1>1 DEF Load, TypeInv, TypeOK
<1>6. agent' \in Connectors \cup {None}
  BY <1>2 DEF Load, TypeInv, TypeOK
<1>7. QED
  BY <1>3, <1>4, <1>5, <1>6 DEF Load, TypeInv, TypeOK

LEMMA ReadyType ==
  ASSUME TypeInv, NEW c \in Callers, Ready(c)
  PROVE  TypeInv'
<1>1. op[c] # None /\ op[c] \in Ops /\ Placed(op[c]) /\ op[c].at = "ready"
  BY CallType DEF Ready, At
<1>2. op' \in [Callers -> Ops \cup {None}] /\ PlacesInv'
  <2>1. CASE End(c)
    BY <2>1, EndType
  <2>2. CASE Halt(c, IF Update(c) THEN "done" ELSE "row")
    BY <1>1, <2>2, HaltType DEF Nexts, Update, Placed
  <2>3. CASE Goto(c, "unload")
    <3>1. Placed(At1(op[c], "unload"))
      BY DEF At1, Placed
    <3>2. QED
      BY <1>1, <2>3, <3>1, GotoType DEF Places
  <2>4. QED
    BY <2>1, <2>2, <2>3 DEF Ready
<1>3. odd' \subseteq Oddities
  BY DEF Ready, Odd, Oddities, TypeInv, TypeOK
<1>4. QED
  BY <1>2, <1>3 DEF Ready, stored, runs, memory, TypeInv, TypeOK

LEMMA UnloadType ==
  ASSUME TypeInv, NEW c \in Callers, Unload(c)
  PROVE  TypeInv'
<1>1. op[c] # None /\ op[c] \in Ops /\ Placed(op[c])
  BY CallType DEF Unload, At
<1>2. op' \in [Callers -> Ops \cup {None}] /\ PlacesInv'
  <2>1. CASE End(c)
    BY <2>1, EndType
  <2>2. CASE Goto(c, "install")
    <3>1. Placed(At1(op[c], "install"))
      BY DEF At1, Placed
    <3>2. QED
      BY <1>1, <2>2, <3>1, GotoType DEF Places
  <2>3. QED
    BY <2>1, <2>2 DEF Unload, AfterUnload
<1>3. remembered' \in Ports \cup {None}
  BY DEF Unload, Restored, TypeInv, TypeOK
<1>4. /\ agent' \in Connectors \cup {None} /\ tokenFile' \in BOOLEAN
      /\ services' \in Ports \cup {None} /\ taken' \subseteq Ports
  BY DEF Unload, TypeInv, TypeOK
<1>5. odd' \subseteq Oddities /\ trouble' \in Nat
  BY FaultType, OddType DEF Unload, Oddities, TypeInv, TypeOK
<1>6. QED
  BY <1>2, <1>3, <1>4, <1>5 DEF Unload, TypeInv, TypeOK

LEMMA RemoveType ==
  ASSUME TypeInv, NEW c \in Callers, Remove(c)
  PROVE  TypeInv'
<1>1. op[c] # None /\ op[c] \in Ops /\ Placed(op[c]) /\ op[c].at = "remove"
  BY CallType DEF Remove, At
<1>2. op' \in [Callers -> Ops \cup {None}] /\ PlacesInv'
  <2>1. CASE End(c)
    BY <2>1, EndType
  <2>2. CASE Goto(c, "row")
    <3>1. Placed(At1(op[c], "row"))
      BY DEF At1, Placed
    <3>2. QED
      BY <1>1, <2>2, <3>1, GotoType DEF Places
  <2>3. QED
    BY <2>1, <2>2 DEF Remove
<1>3. /\ agent' \in Connectors \cup {None} /\ tokenFile' \in BOOLEAN /\ taken' \subseteq Ports
  BY DEF Remove, TypeInv, TypeOK
<1>4. odd' \subseteq Oddities /\ trouble' \in Nat
  BY FaultType, OddType DEF Remove, Oddities, TypeInv, TypeOK
<1>5. QED
  BY <1>2, <1>3, <1>4 DEF Remove, TypeInv, TypeOK

LEMMA WriteRowType ==
  ASSUME TypeInv, NEW c \in Callers, WriteRow(c)
  PROVE  TypeInv'
<1>1. op' \in [Callers -> Ops \cup {None}] /\ PlacesInv'
  BY EndType DEF WriteRow
<1>2. row' \in BOOLEAN
  BY DEF WriteRow, TypeInv, TypeOK
<1>3. odd' \subseteq Oddities /\ trouble' \in Nat
  BY FaultType, OddType DEF WriteRow, Oddities, TypeInv, TypeOK
<1>4. QED
  BY <1>1, <1>2, <1>3 DEF WriteRow, runs, memory, TypeInv, TypeOK

LEMMA AdoptType ==
  ASSUME TypeInv, NEW c \in Callers, Adopt(c)
  PROVE  TypeInv'
<1>1. op[c] # None /\ op[c] \in Ops /\ Placed(op[c])
  BY CallType DEF Adopt, At
<1>2. op' \in [Callers -> Ops \cup {None}] /\ PlacesInv'
  <2>1. CASE End(c)
    BY <2>1, EndType
  <2>2. CASE Goto(c, "install")
    <3>1. Placed(At1(op[c], "install"))
      BY DEF At1, Placed
    <3>2. QED
      BY <1>1, <2>2, <3>1, GotoType DEF Places
  <2>3. QED
    BY <2>1, <2>2 DEF Adopt
<1>3. taken' \subseteq Ports /\ services' \in Ports \cup {None}
  BY DEF Adopt, FreePorts, TypeInv, TypeOK
<1>4. QED
  BY <1>2, <1>3 DEF Adopt, stored, runs, TypeInv, TypeOK

LEMMA NoSessionType ==
  ASSUME TypeInv, NEW c \in Callers, op[c] # None, NoSession(c)
  PROVE  op' \in [Callers -> Ops \cup {None}] /\ PlacesInv' /\ services' \in Ports \cup {None}
<1>1. op' \in [Callers -> Ops \cup {None}] /\ PlacesInv'
  BY EndType DEF NoSession
<1>2. op[c] \in Ops
  BY CallType
<1>3. services' \in Ports \cup {None}
  BY <1>2 DEF NoSession, Restore, Ops, TypeInv, TypeOK
<1>4. QED
  BY <1>1, <1>3

LEMMA ClearType ==
  ASSUME TypeInv, NEW c \in Callers, Clear(c)
  PROVE  TypeInv'
<1>1. op[c] # None /\ op[c] \in Ops /\ Placed(op[c]) /\ op[c].at = "clear"
  BY CallType DEF Clear, At
<1>2. /\ op' \in [Callers -> Ops \cup {None}] /\ PlacesInv'
      /\ services' \in Ports \cup {None}
  <2>1. CASE NoSession(c)
    BY <1>1, <2>1, NoSessionType
  <2>2. CASE Goto(c, "port") /\ UNCHANGED services
    <3>1. Placed(At1(op[c], "port"))
      BY <1>1 DEF At1, Placed
    <3>2. QED
      BY <1>1, <2>2, <3>1, GotoType DEF Places, TypeInv, TypeOK
  <2>3. CASE Halt(c, "port") /\ UNCHANGED services
    BY <1>1, <2>3, HaltType DEF Nexts, Placed, TypeInv, TypeOK
  <2>4. QED
    BY <2>1, <2>2, <2>3 DEF Clear
<1>3. trouble' \in Nat
  BY DEF Clear, Fault, TypeInv, TypeOK
<1>4. QED
  BY <1>2, <1>3 DEF Clear, stored, runs, TypeInv, TypeOK

LEMMA StartSessionType ==
  ASSUME TypeInv, NEW c \in Callers, StartSession(c)
  PROVE  TypeInv'
<1>1. op[c] # None /\ op[c] \in Ops /\ Placed(op[c]) /\ op[c].at = "port"
  BY CallType DEF StartSession, At
<1>2. /\ op' \in [Callers -> Ops \cup {None}] /\ PlacesInv'
      /\ services' \in Ports \cup {None}
  <2>1. CASE NoSession(c)
    BY <1>1, <2>1, NoSessionType
  <2>2. CASE End(c) /\ UNCHANGED services
    BY <2>2, EndType DEF TypeInv, TypeOK
  <2>3. CASE op[c].kind \in {"off", "update"} /\ Goto(c, "healthy") /\ UNCHANGED services
    <3>1. Placed(At1(op[c], "healthy"))
      BY <1>1, <2>3 DEF At1, Placed
    <3>2. QED
      BY <1>1, <2>3, <3>1, GotoType DEF Places, TypeInv, TypeOK
  <2>4. QED
    BY <2>1, <2>2, <2>3 DEF StartSession
<1>3. ASSUME NEW p \in Ports, PortFor(p) PROVE remembered' \in Ports \cup {None}
  BY <1>3 DEF PortFor, TypeInv, TypeOK
<1>4. remembered' \in Ports \cup {None}
  BY <1>3 DEF StartSession, TypeInv, TypeOK
<1>5. /\ session' \in Connectors \cup {None} /\ held' \in Ports \cup {None}
      /\ taken' \subseteq Ports
  BY NewType DEF StartSession, TypeInv, TypeOK
<1>6. trouble' \in Nat
  BY DEF StartSession, Fault, NoFault, TypeInv, TypeOK
<1>7. QED
  BY <1>2, <1>4, <1>5, <1>6 DEF StartSession, TypeInv, TypeOK

LEMMA HealthyType ==
  ASSUME TypeInv, NEW c \in Callers, Healthy(c)
  PROVE  TypeInv'
<1>1. op[c] # None /\ op[c] \in Ops /\ Placed(op[c]) /\ op[c].at = "healthy"
  BY CallType DEF Healthy, At
<1>2. op' \in [Callers -> Ops \cup {None}] /\ PlacesInv'
  <2>1. CASE End(c)
    BY <2>1, EndType
  <2>2. CASE op[c].kind = "off" /\ Goto(c, "remove")
    <3>1. Placed(At1(op[c], "remove"))
      BY <2>2 DEF At1, Placed
    <3>2. QED
      BY <1>1, <2>2, <3>1, GotoType DEF Places
  <2>3. CASE Goto(c, "install")
    <3>1. Placed(At1(op[c], "install"))
      BY DEF At1, Placed
    <3>2. QED
      BY <1>1, <2>3, <3>1, GotoType DEF Places
  <2>4. CASE \E next \in {"restore", "end"} : Halt(c, next)
    BY <1>1, <2>4, HaltType DEF Nexts
  <2>5. QED
    BY <2>1, <2>2, <2>3, <2>4 DEF Healthy
<1>3. QED
  BY <1>2 DEF Healthy, stored, runs, memory, TypeInv, TypeOK

LEMMA HaltSessionType ==
  ASSUME TypeInv, NEW c \in Callers, HaltSession(c)
  PROVE  TypeInv'
<1>1. op[c] # None /\ op[c] \in Ops /\ Placed(op[c]) /\ op[c].at = "halt"
  BY CallType DEF HaltSession, At
<1>2. Placed(At1(op[c], "drop"))
  BY <1>1 DEF At1, Placed
<1>3. op' \in [Callers -> Ops \cup {None}] /\ PlacesInv'
  BY <1>1, <1>2, GotoType DEF HaltSession, Places
<1>4. QED
  BY <1>3 DEF HaltSession, stored, memory, TypeInv, TypeOK

LEMMA DropPortType ==
  ASSUME TypeInv, NEW c \in Callers, DropPort(c)
  PROVE  TypeInv'
<1>1. op[c] # None /\ op[c] \in Ops /\ Placed(op[c]) /\ op[c].at = "drop"
  BY CallType DEF DropPort, At
<1>2. /\ op' \in [Callers -> Ops \cup {None}] /\ PlacesInv'
      /\ services' \in Ports \cup {None}
  <2>1. CASE op[c].next \in {"port", "row"}
    <3>1. Placed(At1(op[c], op[c].next))
      BY <1>1, <2>1 DEF At1, Placed
    <3>2. QED
      BY <1>1, <2>1, <3>1, GotoType DEF DropPort, Places, TypeInv, TypeOK
  <2>2. CASE op[c].next \notin {"port", "row"}
    BY <1>1, <2>2, EndType DEF DropPort, Restore, Ops, TypeInv, TypeOK
  <2>3. QED
    BY <2>1, <2>2
<1>3. taken' \subseteq Ports /\ held' = None
  BY DEF DropPort, TypeInv, TypeOK
<1>4. QED
  BY <1>2, <1>3 DEF DropPort, stored, runs, TypeInv, TypeOK

\* What goes on around the calls.
LEMMA WorldType ==
  ASSUME TypeInv, Connect \/ Break \/ Revive \/ OtherBinds \/ OtherLeaves
  PROVE  TypeInv'
<1>1. /\ {session, agent} \subseteq Connectors \cup {None} /\ other \in Ports \cup {None}
  BY DEF TypeInv, TypeOK
<1>2. ASSUME NEW st \in {"dead", "alive", "up"}
      PROVE  /\ session # None => [session EXCEPT !.st = st] \in Connectors
             /\ agent # None => [agent EXCEPT !.st = st] \in Connectors
  BY <1>1 DEF Connectors
<1>3. {session', agent'} \subseteq Connectors \cup {None}
  <2>1. CASE Connect
    <3>1. CASE Alive(session) /\ session' = [session EXCEPT !.st = "up"] /\ UNCHANGED agent
      BY <1>1, <1>2, <3>1 DEF Alive
    <3>2. CASE Alive(agent) /\ agent' = [agent EXCEPT !.st = "up"] /\ UNCHANGED session
      BY <1>1, <1>2, <3>2 DEF Alive
    <3>3. QED
      BY <2>1, <3>1, <3>2 DEF Connect
  <2>2. CASE Break
    <3>1. PICK st \in {"alive", "dead"} :
             \/ Broken(session, st) /\ session' = [session EXCEPT !.st = st] /\ UNCHANGED agent
             \/ Broken(agent, st) /\ agent' = [agent EXCEPT !.st = st] /\ UNCHANGED session
      BY <2>2 DEF Break
    <3>2. CASE Broken(session, st) /\ session' = [session EXCEPT !.st = st] /\ UNCHANGED agent
      BY <1>1, <1>2, <3>2 DEF Broken
    <3>3. CASE Broken(agent, st) /\ agent' = [agent EXCEPT !.st = st] /\ UNCHANGED session
      BY <1>1, <1>2, <3>3 DEF Broken
    <3>4. QED
      BY <3>1, <3>2, <3>3
  <2>3. CASE Revive
    <3>1. CASE Dead(session) /\ session' = [session EXCEPT !.st = "alive"] /\ UNCHANGED agent
      BY <1>1, <1>2, <3>1 DEF Dead
    <3>2. CASE Dead(agent) /\ agent' = [agent EXCEPT !.st = "alive"] /\ UNCHANGED session
      BY <1>1, <1>2, <3>2 DEF Dead
    <3>3. QED
      BY <2>3, <3>1, <3>2 DEF Revive
  <2>4. CASE OtherBinds \/ OtherLeaves
    BY <1>1, <2>4 DEF OtherBinds, OtherLeaves
  <2>5. QED
    BY <2>1, <2>2, <2>3, <2>4
<1>4. other' \in Ports \cup {None}
  BY <1>1 DEF Connect, Break, Revive, OtherBinds, OtherLeaves
<1>5. trouble' \in Nat
  BY FaultType DEF Connect, Break, Revive, OtherBinds, OtherLeaves, TypeInv, TypeOK
<1>6. odd' \subseteq Oddities
  BY OddType DEF Connect, Break, Revive, OtherBinds, OtherLeaves, Oddities, TypeInv, TypeOK
<1>7. UNCHANGED <<up, stored, memory, op, asks>>
  BY DEF Connect, Break, Revive, OtherBinds, OtherLeaves
<1>8. TypeOK'
  BY <1>3, <1>4, <1>5, <1>6, <1>7 DEF TypeInv, TypeOK, stored, memory
<1>9. PlacesInv'
  BY <1>7 DEF TypeInv, PlacesInv
<1>10. QED
  BY <1>8, <1>9 DEF TypeInv

LEMMA AppType ==
  ASSUME TypeInv, EndApp \/ CommandLine
  PROVE  TypeInv'
<1>1. CASE EndApp
  <2>1. odd' \subseteq Oddities
    BY <1>1, OddType DEF EndApp, Oddities, TypeInv, TypeOK
  <2>2. op' \in [Callers -> Ops \cup {None}] /\ PlacesInv'
    BY <1>1 DEF EndApp, PlacesInv
  <2>3. {up', row', tokenFile'} \subseteq BOOLEAN
    BY <1>1, Zenon DEF EndApp, stored, TypeInv, TypeOK
  <2>4. {asks', trouble'} \subseteq Nat
    BY <1>1 DEF EndApp, Ask, TypeInv, TypeOK
  <2>5. /\ {remembered', held', services', other'} \subseteq Ports \cup {None}
        /\ {session', agent'} \subseteq Connectors \cup {None} /\ taken' \subseteq Ports
    BY <1>1 DEF EndApp, stored, TypeInv, TypeOK
  <2>6. QED
    BY <2>1, <2>2, <2>3, <2>4, <2>5 DEF TypeInv, TypeOK
<1>2. CASE CommandLine
  <2>1. odd' \subseteq Oddities /\ trouble' \in Nat
    BY <1>2, OddType, FaultType DEF CommandLine, Oddities
  <2>2. agent' \in Connectors \cup {None} /\ remembered' \in Ports \cup {None}
    BY <1>2 DEF CommandLine, Connectors, TypeInv, TypeOK
  <2>3. tokenFile' \in BOOLEAN /\ row' \in BOOLEAN
    BY <1>2, Zenon DEF CommandLine
  <2>4. asks' \in Nat
    BY <1>2 DEF CommandLine, Ask, TypeInv, TypeOK
  <2>5. QED
    BY <1>2, <2>1, <2>2, <2>3, <2>4 DEF CommandLine, memory, TypeInv, TypeOK, PlacesInv
<1>3. QED
  BY <1>1, <1>2

LEMMA LaunchType ==
  ASSUME TypeInv, NEW c \in Callers, Launch(c)
  PROVE  TypeInv'
<1> DEFINE at == IF row THEN "adopt" ELSE "clear"
           o == [kind |-> "resume", at |-> at, old |-> services, new |-> None, next |-> "end"]
<1>1. MovesTo(c, o)
  BY DEF Launch, Call, MovesTo
<1>2. o \in Ops /\ Placed(o)
  BY DEF Ops, Kinds, Places, Nexts, Placed, TypeInv, TypeOK
<1> HIDE DEF o
<1>3. op' \in [Callers -> Ops \cup {None}] /\ PlacesInv'
  BY <1>1, <1>2, MoveKeeps
<1>4. QED
  BY <1>3 DEF Launch, stored, runs, memory, TypeInv, TypeOK

LEMMA TypeStep == TypeInv /\ [Next]_vars => TypeInv'
<1> SUFFICES ASSUME TypeInv, [Next]_vars PROVE TypeInv'
  OBVIOUS
<1>1. ASSUME NEW c \in Callers, Step(c) PROVE TypeInv'
  BY <1>1, InstallType, LoadType, ReadyType, UnloadType, RemoveType, WriteRowType, AdoptType,
     ClearType, StartSessionType, HealthyType, HaltSessionType, DropPortType DEF Step
<1>2. CASE UNCHANGED vars
  BY <1>2 DEF vars, stored, memory, runs, TypeInv, TypeOK, PlacesInv
<1>3. QED
  BY <1>1, <1>2, BeginType, LaunchType, WorldType, AppType DEF Next

LEMMA TypeInit == Init => TypeInv
<1> SUFFICES ASSUME Init PROVE TypeInv
  OBVIOUS
<1>1. {up, row, tokenFile} \subseteq BOOLEAN
  BY Zenon DEF Init
<1>2. {remembered, held, services, other} \subseteq Ports \cup {None}
  BY DEF Init
<1>3. {session, agent} \subseteq Connectors \cup {None} /\ taken \subseteq Ports
  BY DEF Init
<1>4. op \in [Callers -> Ops \cup {None}] /\ PlacesInv
  BY DEF Init, PlacesInv
<1>5. {asks, trouble} \subseteq Nat /\ odd \subseteq Oddities
  BY DEF Init
<1>6. QED
  BY <1>1, <1>2, <1>3, <1>4, <1>5 DEF TypeInv, TypeOK

\* Every variable keeps its type, whatever overlaps and whatever fails.
THEOREM TypeCorrect == Spec => []TypeOK
<1>1. TypeInv => TypeOK
  BY DEF TypeInv
<1>2. QED
  BY <1>1, TypeInit, TypeStep, PTL DEF Spec

-----------------------------------------------------------------------------
(***************************************************************************)
(* No gap, with one call at a time.  (With two of them there is one: an    *)
(* update restarts the session a switch has just waited for.)              *)
(***************************************************************************)

OneCall == \A c, d \in Callers : c = d

\* What a call that is about to stop something knows of the other one.
Sound(c) ==
  /\ op[c].kind = "on" /\ op[c].at = "halt" => Connected(agent)
  /\ op[c].at = "remove" => Connected(session)
  /\ op[c].kind = "update" /\ op[c].old # None /\ op[c].at \in {"install", "load"} => Connected(session)
  /\ op[c].at = "halt" /\ op[c].next = "done" => Connected(agent)

Undisturbed == Not({"broken", "outside"})
GapInv == Undisturbed => \A c \in Callers : op[c] # None => Sound(c)

AloneInv == OneCall /\ TypeInv /\ GapInv

LEMMA OddGrows ==
  ASSUME [Next]_vars PROVE odd \subseteq odd'
<1>1. ASSUME NEW c \in Callers, Step(c) PROVE odd \subseteq odd'
  BY <1>1 DEF Step, Install, Load, Ready, Unload, Remove, WriteRow, Adopt, Clear, StartSession,
     Healthy, HaltSession, DropPort, Failed, Odd
<1>2. ASSUME NEW c \in Callers, Begin(c) \/ Launch(c) PROVE odd \subseteq odd'
  BY <1>2 DEF Begin, SetAlwaysOn, RestartTunnel, StartTunnel, StopTunnel, ResumeTunnel, Launch, Odd
<1>3. CASE Connect \/ Break \/ Revive \/ OtherBinds \/ OtherLeaves \/ EndApp \/ CommandLine
  BY <1>3 DEF Connect, Break, Revive, OtherBinds, OtherLeaves, EndApp, CommandLine, Odd
<1>4. QED
  BY <1>1, <1>2, <1>3 DEF Next, vars

\* A connection is lost by a break, by a stop, by a service put in its place, and by the
\* end of the app.
LEMMA WorldSound ==
  ASSUME TypeInv, GapInv, Undisturbed',
         Connect \/ Break \/ Revive \/ OtherBinds \/ OtherLeaves \/ EndApp \/ CommandLine,
         NEW c \in Callers, op'[c] # None
  PROVE  Sound(c)'
<1>1. Undisturbed
  BY OddGrows DEF Undisturbed, Not, Next
<1>2. ~Break /\ ~EndApp /\ ~CommandLine
  <2>1. ~CommandLine
    BY DEF CommandLine, Odd, Undisturbed, Not
  <2>2. ~EndApp
    BY DEF EndApp
  <2>3. ~Break
    BY DEF Break, Odd, Undisturbed, Not
  <2>4. QED
    BY <2>1, <2>2, <2>3
<1>3. op' = op
  BY <1>2 DEF Connect, Revive, OtherBinds, OtherLeaves
<1>4. (Connected(session) => session' = session) /\ (Connected(agent) => agent' = agent)
  BY <1>2 DEF Connect, Revive, OtherBinds, OtherLeaves, Alive, Dead, Connected
<1>5. Sound(c)
  BY <1>1, <1>3 DEF GapInv
<1>6. (Connected(session) => Connected(session)') /\ (Connected(agent) => Connected(agent)')
  BY <1>4 DEF Connected
<1>7. QED
  BY <1>3, <1>5, <1>6 DEF Sound

LEMMA BeginSound ==
  ASSUME TypeInv, NEW c \in Callers, Begin(c) \/ Launch(c), op'[c] # None
  PROVE  Sound(c)'
<1>1. op'[c].at \in {"row", "install", "clear", "unload", "adopt", "halt"}
      /\ (op'[c].at = "install" => op'[c].kind = "on")
      /\ (op'[c].at = "halt" => op'[c].kind # "on" /\ op'[c].next # "done")
  <2>1. ASSUME NEW kind, NEW at, Call(c, kind, at)
        PROVE  op'[c].kind = kind /\ op'[c].at = at /\ op'[c].next = "end"
    BY <2>1 DEF Call, TypeInv, TypeOK
  <2>2. CASE \E on \in BOOLEAN : SetAlwaysOn(c, on)
    BY <2>1, <2>2 DEF SetAlwaysOn
  <2>3. CASE RestartTunnel(c)
    BY <2>1, <2>3 DEF RestartTunnel, TypeInv, TypeOK
  <2>4. CASE StartTunnel(c) \/ StopTunnel(c) \/ ResumeTunnel(c)
    BY <2>1, <2>4 DEF StartTunnel, StopTunnel, ResumeTunnel, Startable
  <2>5. CASE Launch(c)
    BY <2>1, <2>5 DEF Launch
  <2>6. QED
    BY <2>2, <2>3, <2>4, <2>5 DEF Begin
<1>2. QED
  BY <1>1 DEF Sound

\* A step that only moves on.
LEMMA GotoSound ==
  ASSUME TypeInv, NEW c \in Callers, op[c] # None, NEW x, Goto(c, x),
         x \notin {"halt", "remove", "install", "load"}
  PROVE  Sound(c)'
<1>1. op'[c] = At1(op[c], x)
  BY GotoIs DEF MovesTo, TypeInv, TypeOK
<1>2. op'[c].at = x
  BY <1>1 DEF At1
<1>3. QED
  BY <1>2 DEF Sound

LEMMA StepSound ==
  ASSUME TypeInv, GapInv, Undisturbed, NEW c \in Callers, Step(c), op'[c] # None
  PROVE  Sound(c)'
<1>1. op[c] # None
  BY DEF Step, Install, Load, Ready, Unload, Remove, WriteRow, Adopt, Clear, StartSession,
     Healthy, HaltSession, DropPort, At
<1>2. op[c] \in Ops /\ Placed(op[c]) /\ Sound(c)
  BY <1>1, CallType DEF GapInv
<1>3. ~End(c)
  BY DEF End, TypeInv, TypeOK
<1>4. ASSUME NEW next, Halt(c, next)
      PROVE  op'[c].at = "halt" /\ op'[c].next = next /\ op'[c].kind = op[c].kind
  <2>1. op'[c] = Halted(op[c], next)
    BY <1>1, <1>4, HaltIs DEF MovesTo, TypeInv, TypeOK
  <2>2. QED
    BY <2>1 DEF Halted
<1>5. ASSUME NEW x, Goto(c, x)
      PROVE  op'[c].at = x /\ op'[c].kind = op[c].kind
  <2>1. op'[c] = At1(op[c], x)
    BY <1>1, <1>5, GotoIs DEF MovesTo, TypeInv, TypeOK
  <2>2. QED
    BY <2>1 DEF At1
<1>6. CASE Install(c)
  <2>1. op'[c].at = "load" /\ op'[c].kind = op[c].kind /\ op'[c].old = op[c].old
    BY <1>2, <1>3, <1>6 DEF Install, Ops, TypeInv, TypeOK
  <2>2. session' = session /\ op[c].at = "install"
    BY <1>6 DEF Install, runs, At
  <2>3. QED
    BY <1>2, <2>1, <2>2 DEF Sound, Connected
<1>7. CASE Load(c)
  BY <1>1, <1>3, <1>7, GotoSound DEF Load
<1>8. CASE Ready(c)
  <2>1. CASE Goto(c, "unload")
    BY <1>1, <2>1, GotoSound
  <2>2. CASE Connected(agent) /\ \E next : Halt(c, next)
    <3>1. PICK next : Halt(c, next)
      BY <2>2
    <3>2. op'[c].at = "halt" /\ agent' = agent
      BY <1>4, <1>8, <3>1 DEF Ready, runs
    <3>3. Connected(agent)'
      BY <2>2, <3>2 DEF Connected
    <3>4. QED
      BY <3>2, <3>3 DEF Sound
  <2>3. QED
    BY <1>3, <1>8, <2>1, <2>2 DEF Ready
<1>9. CASE Unload(c)
  <2>1. op[c].kind \in {"start", "resume"} /\ Goto(c, "install")
    BY <1>3, <1>9 DEF Unload, AfterUnload
  <2>2. QED
    BY <1>5, <2>1 DEF Sound
<1>10. CASE Remove(c)
  BY <1>1, <1>3, <1>10, GotoSound DEF Remove
<1>11. CASE WriteRow(c)
  BY <1>3, <1>11 DEF WriteRow
<1>12. CASE Adopt(c)
  <2>1. op[c].kind = "resume" /\ Goto(c, "install")
    BY <1>2, <1>3, <1>12 DEF Adopt, At, Placed
  <2>2. QED
    BY <1>5, <2>1 DEF Sound
<1>13. CASE Clear(c)
  <2>1. CASE Goto(c, "port")
    BY <1>1, <2>1, GotoSound
  <2>2. CASE Halt(c, "port")
    <3>1. op[c].kind # "on"
      BY <1>2, <1>13 DEF Clear, At, Placed
    <3>2. QED
      BY <1>4, <2>2, <3>1 DEF Sound
  <2>3. QED
    BY <1>3, <1>13, <2>1, <2>2 DEF Clear, NoSession
<1>14. CASE StartSession(c)
  BY <1>1, <1>3, <1>14, GotoSound DEF StartSession, NoSession
<1>15. CASE Healthy(c)
  <2>1. op[c].kind \in {"off", "update"} /\ session' = session
    BY <1>2, <1>15 DEF Healthy, At, Placed, runs
  <2>2. CASE Connected(session)
    <3>1. Connected(session)'
      BY <2>1, <2>2 DEF Connected
    <3>2. \E x \in {"remove", "install"} : Goto(c, x)
      BY <1>3, <1>15, <2>2 DEF Healthy
    <3>3. op'[c].at \in {"remove", "install"}
      BY <1>5, <3>2
    <3>4. QED
      BY <3>1, <3>3 DEF Sound
  <2>3. CASE ~Connected(session)
    <3>1. \E next \in {"restore", "end"} : Halt(c, next)
      BY <1>3, <1>15, <2>3 DEF Healthy
    <3>2. QED
      BY <1>4, <2>1, <3>1 DEF Sound
  <2>4. QED
    BY <2>2, <2>3
<1>16. CASE HaltSession(c)
  BY <1>1, <1>16, GotoSound DEF HaltSession
<1>17. CASE DropPort(c)
  <2>1. \E x \in {"port", "row"} : Goto(c, x)
    BY <1>3, <1>17 DEF DropPort
  <2>2. QED
    BY <1>1, <2>1, GotoSound
<1>18. QED
  BY <1>6, <1>7, <1>8, <1>9, <1>10, <1>11, <1>12, <1>13, <1>14, <1>15, <1>16, <1>17 DEF Step

LEMMA GapStep == OneCall /\ TypeInv /\ GapInv /\ [Next]_vars => GapInv'
<1> SUFFICES ASSUME OneCall, TypeInv, GapInv, [Next]_vars, Undisturbed',
                    NEW c \in Callers, op'[c] # None
             PROVE  Sound(c)'
  BY DEF GapInv
<1>1. Undisturbed
  BY OddGrows DEF Undisturbed, Not
<1>2. ASSUME NEW d \in Callers, Begin(d) \/ Step(d) \/ Launch(d)
      PROVE  Sound(c)'
  <2>1. d = c
    BY DEF OneCall
  <2>2. QED
    BY <1>1, <1>2, <2>1, BeginSound, StepSound
<1>3. CASE UNCHANGED vars
  <2>1. op' = op /\ session' = session /\ agent' = agent
    BY <1>3 DEF vars, runs
  <2>2. QED
    BY <1>1, <2>1 DEF GapInv, Sound, Connected
<1>4. QED
  BY <1>2, <1>3, WorldSound DEF Next

\* A step of the call that stops one way to serve leaves the other one connected.
LEMMA NoGapStep ==
  ASSUME OneCall, TypeInv, GapInv, [Next]_vars, NEW c \in Callers,
         op[c] # None, up', op'[c] # op[c], Removes(c), Not({"broken", "outside"}), Serving
  PROVE  Serving'
<1>1. op[c] \in Ops /\ Placed(op[c]) /\ Sound(c)
  BY CallType DEF GapInv, Undisturbed
<1>2. op[c].at \in {"halt", "remove", "load"}
  BY DEF Removes, At
<1>3. CASE Step(c)
  <2>1. HaltSession(c) \/ Remove(c) \/ Load(c)
    BY <1>2, <1>3 DEF Step, Install, Load, Ready, Unload, Remove, WriteRow, Adopt, Clear,
       StartSession, Healthy, HaltSession, DropPort, At
  <2>2. CASE HaltSession(c)
    <3>1. op[c].at = "halt" /\ agent' = agent
      BY <2>2 DEF HaltSession, At
    <3>2. Connected(agent)
      BY <1>1, <3>1 DEF Removes, At, Sound
    <3>3. QED
      BY <3>1, <3>2 DEF Serving, Connected
  <2>3. CASE Remove(c) \/ Load(c)
    <3>1. op[c].at \in {"remove", "load"} /\ session' = session
      BY <2>3 DEF Remove, Load, At
    <3>2. Connected(session)
      BY <1>1, <3>1 DEF Removes, At, Sound
    <3>3. QED
      BY <3>1, <3>2 DEF Serving, Connected
  <2>4. QED
    BY <2>1, <2>2, <2>3
<1>4. ASSUME Begin(c) \/ Launch(c) PROVE Serving'
  <2>1. session' = session /\ agent' = agent
    BY <1>4 DEF Begin, Launch, runs
  <2>2. QED
    BY <2>1 DEF Serving, Connected
<1>5. ~UNCHANGED op
  OBVIOUS
<1>6. QED
  <2>1. ASSUME NEW d \in Callers, Begin(d) \/ Step(d) \/ Launch(d) PROVE Serving'
    BY <1>3, <1>4, <2>1 DEF OneCall
  <2>2. QED
    BY <1>5, <2>1 DEF Next, vars, Connect, Break, Revive, OtherBinds, OtherLeaves, EndApp,
       CommandLine

\* With one call at a time no switch and no update stops what serves before the other
\* way is connected, whatever fails on the way: unless the other one breaks in the
\* meantime or another process comes between.
THEOREM SwitchesWithoutAGap == OneCall => (Spec => NoGap)
<1>1. OneCall /\ Init => AloneInv
  <2>1. Init => GapInv
    BY DEF Init, GapInv
  <2>2. QED
    BY <2>1, TypeInit DEF AloneInv
<1>2. AloneInv /\ [Next]_vars => AloneInv'
  BY TypeStep, GapStep DEF AloneInv
<1>3. AloneInv /\ [Next]_vars =>
        [\A c \in Callers :
           op[c] # None /\ up' /\ op'[c] # op[c] /\ Removes(c) /\ Not({"broken", "outside"})
           /\ Serving => Serving']_vars
  BY NoGapStep DEF AloneInv
<1>4. QED
  BY <1>1, <1>2, <1>3, PTL DEF Spec, NoGap

-----------------------------------------------------------------------------
(* The records of the mode                                                 *)

Whole == Not(Halfway)
Restored1 == "restored" \in odd

\* The service on port p is the one the records tell of; there is none.
Has(p) == agent # None /\ p = agent.port /\ remembered = p /\ tokenFile
None1 == agent = None /\ services = None
\* A session of an Always-on tunnel is one that start() put there.
Single == row => session = None \/ Restored1
OnlyRestored == row => Restored1

AtRest ==
  /\ agent # None => row /\ Has(agent.port) /\ (up => services = agent.port)
  /\ services # None => agent # None
  /\ ~up => services = None /\ session = None
  /\ Single
  /\ held # None => session # None

OffKnows(o) ==
  IF o.at = "row" THEN None1
  ELSE /\ services = None /\ o.old # None /\ Has(o.old) /\ row
       /\ o.at = "clear" => Single
       /\ o.at \in {"clear", "halt", "drop", "port", "healthy", "remove"}
       /\ o.at \in {"halt", "drop"} => o.next \in {"port", "restore"}
OnKnows(o) ==
  /\ o.at \in {"install", "load"} => None1
  /\ o.at \in {"ready", "halt", "drop", "row"} => services # None /\ Has(services)
  /\ o.at \in {"install", "load", "ready", "unload", "row"} => Single
  /\ o.at = "row" => session = None \/ Restored1
  /\ o.at \in {"halt", "drop"} => o.next = "row"
  /\ o.at \in {"install", "load", "ready", "unload", "halt", "drop", "row"}
UpdateKnows(o) ==
  /\ IF o.old = None
     THEN /\ None1 /\ OnlyRestored
          /\ o.at \in {"halt", "drop", "port", "healthy"}
          /\ o.at \in {"halt", "drop"} => o.next = "port"
     ELSE /\ services # None /\ Has(services) /\ row
          /\ o.at \in {"clear", "halt", "drop", "port", "healthy", "install", "load", "ready"}
          /\ o.at \in {"halt", "drop"} => o.next \in {"port", "end", "done"}
          /\ o.at = "clear" => Single
StartKnows(o) ==
  /\ o.at \in {"adopt", "unload", "install", "load"} => row /\ Single
  /\ o.at = "adopt" => /\ agent # None => Has(agent.port)
                       /\ services # None => agent # None /\ Has(services)
  /\ o.at = "unload" => services # None
  /\ o.at \in {"install", "load"} => None1
  /\ o.at \in {"clear", "halt", "drop", "port"} => None1 /\ OnlyRestored
  /\ o.at \in {"halt", "drop"} => o.next = "port"
  /\ o.at \in {"adopt", "unload", "install", "load", "clear", "halt", "drop", "port"}
StopKnows(o) ==
  /\ o.at = "unload" => services # None /\ Has(services) /\ row /\ Single
  /\ o.at \in {"halt", "drop"} => None1 /\ o.next = "end"
  /\ o.at \in {"unload", "halt", "drop"}

InCall(o) ==
  /\ up
  /\ o.at \in {"drop", "port"} => session = None
  /\ held # None /\ session = None => o.at = "drop"
  /\ o.at = "load" => tokenFile
  /\ CASE o.kind = "off"    -> OffKnows(o)
       [] o.kind = "on"     -> OnKnows(o)
       [] o.kind = "update" -> UpdateKnows(o)
       [] o.kind = "stop"   -> StopKnows(o)
       [] OTHER             -> StartKnows(o)

ModeAt(c) == IF op[c] = None THEN AtRest ELSE InCall(op[c])
ModeInv == Whole => \A c \in Callers : ModeAt(c)

OneCaller == \E c : Callers = {c}

\* What a step makes of its call.
LEMMA Goes ==
  ASSUME TypeInv, NEW c \in Callers, op[c] # None, NEW x, Goto(c, x)
  PROVE  /\ op'[c] = At1(op[c], x)
         /\ op'[c].at = x /\ op'[c].kind = op[c].kind /\ op'[c].old = op[c].old
         /\ op'[c].next = op[c].next
<1>1. op'[c] = At1(op[c], x)
  BY GotoIs DEF MovesTo, TypeInv, TypeOK
<1>2. QED
  BY <1>1 DEF At1

LEMMA Halts ==
  ASSUME TypeInv, NEW c \in Callers, op[c] # None, NEW next, Halt(c, next)
  PROVE  /\ op'[c] = Halted(op[c], next)
         /\ op'[c].at = "halt" /\ op'[c].kind = op[c].kind /\ op'[c].old = op[c].old
         /\ op'[c].next = next
<1>1. op'[c] = Halted(op[c], next)
  BY HaltIs DEF MovesTo, TypeInv, TypeOK
<1>2. QED
  BY <1>1 DEF Halted

LEMMA Ends ==
  ASSUME TypeInv, NEW c \in Callers, End(c) PROVE op'[c] = None
BY DEF End, TypeInv, TypeOK

LEMMA Known ==
  ASSUME TypeInv, ModeInv, Whole', [Next]_vars, NEW c \in Callers
  PROVE  Whole /\ ModeAt(c)
BY OddGrows DEF ModeInv, Whole, Not

LEMMA Odd1 ==
  ASSUME NEW why \in Halfway, Whole' PROVE ~Odd(why)
BY DEF Odd, Whole, Not

LEMMA InstallMode ==
  ASSUME TypeInv, NEW c \in Callers, Install(c), Whole', ModeAt(c)
  PROVE  ModeAt(c)'
<1>1. op[c] # None /\ op[c].at = "install" /\ op[c] \in Ops
  BY CallType DEF Install, At
<1>2. InCall(op[c])
  BY <1>1 DEF ModeAt
<1>3. UNCHANGED <<up, row, remembered, session, agent, held, services>>
  BY DEF Install, runs
<1>4. op[c].kind # "update" \/ services # None
  BY <1>1, <1>2 DEF InCall, UpdateKnows
<1>5. CASE \E p \in FreePorts :
             /\ op' = [op EXCEPT ![c].at = "load", ![c].new = p]
             /\ tokenFile' = TRUE
             /\ UNCHANGED odd
  <2>1. /\ op'[c] # None /\ op'[c].at = "load" /\ op'[c].kind = op[c].kind
        /\ op'[c].old = op[c].old
    <3>1. PICK p \in FreePorts : op' = [op EXCEPT ![c].at = "load", ![c].new = p]
      BY <1>5
    <3> DEFINE q == [kind |-> op[c].kind, at |-> "load", old |-> op[c].old, new |-> p,
                     next |-> op[c].next]
    <3>2. op'[c] = q
      BY <1>1, <3>1 DEF Ops, TypeInv, TypeOK
    <3>3. q \in Ops
      BY <1>1 DEF Ops, Places, FreePorts
    <3>4. QED
      BY <3>2, <3>3, NoneAssumption
  <2>2. QED
    BY <1>1, <1>2, <1>3, <1>5, <2>1 DEF ModeAt, InCall, OffKnows, OnKnows, UpdateKnows, StartKnows,
       StopKnows, Has, None1, Single, OnlyRestored, Restored1
<1>6. CASE tokenFile' \in {TRUE, tokenFile} /\ (Failed(c, {"noPort"}) \/ Failed(c, {})) /\ End(c)
  <2>1. op'[c] = None
    BY <1>6, Ends
  <2>2. services = None
    BY <1>6 DEF Failed, Whole, Not, Halfway
  <2>3. None1 /\ Single /\ up /\ (held # None => session # None)
    BY <1>1, <1>2, <1>4, <2>2 DEF InCall, OffKnows, OnKnows, UpdateKnows, StartKnows, StopKnows
  <2>4. Restored1 => Restored1'
    BY <1>6 DEF Failed, Restored1
  <2>5. AtRest'
    BY <1>3, <2>3, <2>4 DEF AtRest, None1, Single, Restored1
  <2>6. QED
    BY <2>1, <2>5 DEF ModeAt
<1>7. QED
  BY <1>5, <1>6 DEF Install

LEMMA LoadMode ==
  ASSUME TypeInv, NEW c \in Callers, Load(c), Whole', ModeAt(c)
  PROVE  ModeAt(c)'
<1>1. op[c] # None /\ op[c].at = "load" /\ op[c] \in Ops /\ op[c].new \in Ports
  BY CallType DEF Load, At, Placed
<1>2. InCall(op[c])
  BY <1>1 DEF ModeAt
<1>3. UNCHANGED <<up, row, session, other, held>>
  BY DEF Load
<1>4. CASE /\ agent' = New(op[c].new) /\ services' = op[c].new
           /\ \/ remembered' = op[c].new /\ UNCHANGED <<odd, trouble>>
              \/ Fault /\ Odd("unremembered") /\ UNCHANGED remembered
           /\ IF op[c].kind \in {"on", "update"} THEN Goto(c, "ready") ELSE End(c)
           /\ UNCHANGED tokenFile
  <2>1. ~Odd("unremembered")
    BY Odd1 DEF Halfway
  <2>2. New(op[c].new) # None /\ New(op[c].new).port = op[c].new
    BY <1>1, NewType, NoneAssumption DEF New
  <2>3. services' # None /\ Has(services)' /\ Has(agent.port)' /\ UNCHANGED odd
    BY <1>1, <1>2, <1>4, <2>1, <2>2, MachineAssumption DEF Has, InCall
  <2>4. CASE op[c].kind \in {"on", "update"}
    <3>1. /\ op'[c] # None /\ op'[c].at = "ready" /\ op'[c].kind = op[c].kind
          /\ op'[c].old = op[c].old
      <4>1. Goto(c, "ready")
        BY <1>4, <2>4
      <4>2. At1(op[c], "ready") \in Ops
        BY <1>1 DEF At1, Ops, Places
      <4>3. QED
        BY <1>1, <4>1, <4>2, Goes, NoneAssumption
    <3>2. QED
      BY <1>1, <1>2, <1>3, <2>3, <2>4, <3>1 DEF ModeAt, InCall, OnKnows, UpdateKnows, Single, Restored1
  <2>5. CASE op[c].kind \notin {"on", "update"}
    <3>1. op'[c] = None
      BY <1>4, <2>5, Ends
    <3>2. row /\ Single /\ up /\ (held # None => session # None)
      BY <1>1, <1>2, <2>5 DEF InCall, OffKnows, StartKnows, StopKnows
    <3>3. services' = agent'.port
      BY <1>4, <2>2
    <3>4. AtRest'
      BY <1>3, <2>3, <3>2, <3>3 DEF AtRest, Single, Restored1, Has
    <3>5. QED
      BY <3>1, <3>4 DEF ModeAt
  <2>6. QED
    BY <2>4, <2>5
<1>5. CASE /\ agent' \in {agent, None} /\ tokenFile' = FALSE /\ Failed(c, {}) /\ End(c)
           /\ UNCHANGED <<services, remembered>>
  <2>1. op'[c] = None
    BY <1>5, Ends
  <2>2. services = None
    BY <1>5 DEF Failed, Whole, Not, Halfway
  <2>3. None1 /\ Single /\ up /\ (held # None => session # None)
    BY <1>1, <1>2, <2>2 DEF InCall, OffKnows, OnKnows, UpdateKnows, StartKnows, StopKnows
  <2>4. Restored1 => Restored1'
    BY <1>5 DEF Failed, Restored1
  <2>5. AtRest'
    BY <1>3, <1>5, <2>3, <2>4 DEF AtRest, None1, Single, Restored1
  <2>6. QED
    BY <2>1, <2>5 DEF ModeAt
<1>6. QED
  BY <1>4, <1>5 DEF Load

\* Where a call goes next it still is one.
LEMMA StillCall ==
  ASSUME TypeInv, NEW c \in Callers, op[c] # None
  PROVE  /\ \A x \in Places : Goto(c, x) => op'[c] # None
         /\ \A next \in Nexts : Halt(c, next) => op'[c] # None
<1>1. op[c] \in Ops
  BY CallType
<1>2. ASSUME NEW x \in Places, Goto(c, x) PROVE op'[c] # None
  <2>1. At1(op[c], x) \in Ops
    BY <1>1, <1>2 DEF At1, Ops
  <2>2. QED
    BY <1>2, <2>1, Goes, NoneAssumption
<1>3. ASSUME NEW next \in Nexts, Halt(c, next) PROVE op'[c] # None
  <2>1. Halted(op[c], next) \in Ops
    BY <1>1, <1>3 DEF Halted, Ops, Places
  <2>2. QED
    BY <1>3, <2>1, Halts, NoneAssumption
<1>4. QED
  BY <1>2, <1>3

LEMMA ReadyMode ==
  ASSUME TypeInv, NEW c \in Callers, Ready(c), Whole', ModeAt(c)
  PROVE  ModeAt(c)'
<1>1. op[c] # None /\ op[c].at = "ready" /\ op[c].kind \in {"on", "update"}
  BY CallType DEF Ready, At, Placed
<1>2. InCall(op[c])
  BY <1>1 DEF ModeAt
<1>3. UNCHANGED <<up, row, remembered, tokenFile, session, agent, held, services>>
  BY DEF Ready, stored, runs, memory
<1>4. ~Odd("bridge")
  BY Odd1 DEF Halfway
<1>5. CASE Halt(c, IF Update(c) THEN "done" ELSE "row") /\ UNCHANGED odd
  <2>1. /\ op'[c] # None /\ op'[c].at = "halt" /\ op'[c].kind = op[c].kind
        /\ op'[c].old = op[c].old /\ op'[c].next \in {"done", "row"}
        /\ op'[c].next = IF op[c].kind = "update" THEN "done" ELSE "row"
    BY <1>1, <1>5, Halts, StillCall DEF Nexts, Update
  <2>2. QED
    BY <1>1, <1>2, <1>3, <1>5, <2>1 DEF ModeAt, InCall, OnKnows, UpdateKnows, Has, Single, Restored1
<1>6. CASE op[c].kind = "on" /\ Goto(c, "unload") /\ UNCHANGED odd
  <2>1. /\ op'[c] # None /\ op'[c].at = "unload" /\ op'[c].kind = "on"
    BY <1>1, <1>6, Goes, StillCall DEF Places
  <2>2. QED
    BY <1>1, <1>2, <1>3, <1>6, <2>1 DEF ModeAt, InCall, OnKnows, Single, Restored1
<1>7. QED
  BY <1>1, <1>4, <1>5, <1>6 DEF Ready, Update

LEMMA UnloadMode ==
  ASSUME TypeInv, NEW c \in Callers, Unload(c), Whole', ModeAt(c)
  PROVE  ModeAt(c)'
<1>1. op[c] # None /\ op[c].at = "unload" /\ op[c] \in Ops
  BY CallType DEF Unload, At
<1>2. InCall(op[c])
  BY <1>1 DEF ModeAt
<1>3. UNCHANGED <<up, row, session, held>>
  BY DEF Unload
<1>4. ~Odd("manager")
  BY Odd1 DEF Halfway
<1>5. agent' = None /\ services' = None /\ UNCHANGED odd
  BY <1>4 DEF Unload
<1>6. Single /\ up /\ (held # None => session # None)
  BY <1>1, <1>2 DEF InCall, OffKnows, OnKnows, UpdateKnows, StartKnows, StopKnows, Ops, Kinds
<1>7. CASE op[c].kind \in {"start", "resume"}
  <2>1. op'[c] # None /\ op'[c].at = "install" /\ op'[c].kind = op[c].kind
    BY <1>1, <1>7, Goes, StillCall DEF Unload, AfterUnload, Places
  <2>2. QED
    BY <1>1, <1>2, <1>3, <1>5, <1>7, <2>1 DEF ModeAt, InCall, StartKnows, None1, Single, Restored1
<1>8. CASE op[c].kind \notin {"start", "resume"}
  <2>1. op'[c] = None
    BY <1>8, Ends DEF Unload, AfterUnload
  <2>2. AtRest'
    BY <1>3, <1>5, <1>6 DEF AtRest, Single, Restored1
  <2>3. QED
    BY <2>1, <2>2 DEF ModeAt
<1>9. QED
  BY <1>7, <1>8

LEMMA RemoveMode ==
  ASSUME TypeInv, NEW c \in Callers, Remove(c), Whole', ModeAt(c)
  PROVE  ModeAt(c)'
<1>1. op[c] # None /\ op[c].at = "remove" /\ op[c].kind = "off"
  BY CallType DEF Remove, At, Placed
<1>2. InCall(op[c])
  BY <1>1 DEF ModeAt
<1>3. ~Odd("manager")
  BY Odd1 DEF Halfway
<1>4. agent' = None /\ Goto(c, "row") /\ UNCHANGED odd
  BY <1>3 DEF Remove
<1>5. op'[c] # None /\ op'[c].at = "row" /\ op'[c].kind = "off"
  BY <1>1, <1>4, Goes, StillCall DEF Places
<1>6. UNCHANGED <<up, session, held, services>>
  BY DEF Remove
<1>7. QED
  BY <1>1, <1>2, <1>4, <1>5, <1>6 DEF ModeAt, InCall, OffKnows, None1

LEMMA WriteRowMode ==
  ASSUME TypeInv, NEW c \in Callers, WriteRow(c), Whole', ModeAt(c)
  PROVE  ModeAt(c)'
<1>1. op[c] # None /\ op[c].at = "row" /\ op[c] \in Ops
  BY CallType DEF WriteRow, At
<1>2. InCall(op[c])
  BY <1>1 DEF ModeAt
<1>3. ~Odd("unwritten")
  BY Odd1 DEF Halfway
<1>4. op'[c] = None /\ row' = (op[c].kind = "on") /\ UNCHANGED odd
  BY <1>3, Ends DEF WriteRow
<1>5. UNCHANGED <<up, remembered, tokenFile, session, agent, held, services>>
  BY DEF WriteRow, runs, memory
<1>6. op[c].kind \in {"on", "off"}
  BY <1>1, <1>2 DEF InCall, UpdateKnows, StartKnows, StopKnows, Ops, Kinds
<1>7. up /\ (held # None => session # None)
  BY <1>1, <1>2 DEF InCall
<1>8. CASE op[c].kind = "on"
  <2>1. services # None /\ Has(services) /\ (session = None \/ Restored1)
    BY <1>1, <1>2, <1>8 DEF InCall, OnKnows
  <2>2. AtRest'
    BY <1>4, <1>5, <1>7, <1>8, <2>1 DEF AtRest, Has, Single, Restored1
  <2>3. QED
    BY <1>4, <2>2 DEF ModeAt
<1>9. CASE op[c].kind = "off"
  <2>1. None1
    BY <1>1, <1>2, <1>9 DEF InCall, OffKnows
  <2>2. AtRest'
    BY <1>4, <1>5, <1>7, <1>9, <2>1 DEF AtRest, None1, Single, Restored1
  <2>3. QED
    BY <1>4, <2>2 DEF ModeAt
<1>10. QED
  BY <1>6, <1>8, <1>9

LEMMA AdoptMode ==
  ASSUME TypeInv, NEW c \in Callers, Adopt(c), Whole', ModeAt(c)
  PROVE  ModeAt(c)'
<1>1. op[c] # None /\ op[c].at = "adopt" /\ op[c].kind = "resume"
  BY CallType DEF Adopt, At, Placed
<1>2. InCall(op[c])
  BY <1>1 DEF ModeAt
<1>3. UNCHANGED <<up, row, remembered, tokenFile, session, agent, held, odd>>
  BY DEF Adopt, stored, runs
<1>4. /\ up /\ row /\ Single /\ (held # None => session # None)
      /\ agent # None => Has(agent.port)
      /\ services # None => agent # None
  BY <1>1, <1>2 DEF InCall, StartKnows
<1>5. CASE /\ agent # None /\ remembered # None /\ services' = remembered /\ End(c)
  <2>1. op'[c] = None
    BY <1>5, Ends
  <2>2. AtRest'
    BY <1>3, <1>4, <1>5 DEF AtRest, Has, Single, Restored1
  <2>3. QED
    BY <2>1, <2>2 DEF ModeAt
<1>6. CASE (agent = None \/ remembered = None) /\ Goto(c, "install") /\ UNCHANGED services
  <2>1. op'[c] # None /\ op'[c].at = "install" /\ op'[c].kind = "resume"
    BY <1>1, <1>6, Goes, StillCall DEF Places
  <2>2. agent = None
    <3>1. agent # None => agent.port # None
      BY MachineAssumption DEF Connectors, TypeInv, TypeOK
    <3>2. QED
      BY <1>4, <1>6, <3>1 DEF Has
  <2>3. QED
    BY <1>1, <1>2, <1>3, <1>4, <1>6, <2>1, <2>2 DEF ModeAt, InCall, StartKnows, None1, Single,
       Restored1
<1>7. QED
  BY <1>5, <1>6 DEF Adopt

\* A session that does not start leaves the records as they were; a switch's are put back.
LEMMA NoSessionMode ==
  ASSUME TypeInv, NEW c \in Callers, op[c] # None, InCall(op[c]), NoSession(c),
         op[c].at \in {"clear", "port"},
         UNCHANGED <<up, row, tokenFile, session, agent, held, odd>>,
         remembered' = remembered \/ (remembered = None /\ agent = None)
  PROVE  ModeAt(c)'
<1>1. op'[c] = None
  BY Ends DEF NoSession
<1>2. op[c] \in Ops /\ Placed(op[c])
  BY CallType
<1>3. up /\ (held # None => session # None)
  BY DEF InCall
<1>4. CASE op[c].kind = "off"
  <2>1. services' = op[c].old /\ op[c].old # None /\ Has(op[c].old) /\ row /\ Single
    BY <1>4 DEF InCall, OffKnows, NoSession, Restore, Single
  <2>2. AtRest'
    BY <1>3, <2>1 DEF AtRest, Has, Single, Restored1
  <2>3. QED
    BY <1>1, <2>2 DEF ModeAt
<1>5. CASE op[c].kind = "update" /\ op[c].old # None
  <2>1. services' = services /\ services # None /\ Has(services) /\ row /\ Single
    BY <1>5 DEF InCall, UpdateKnows, NoSession, Single
  <2>2. AtRest'
    BY <1>3, <2>1 DEF AtRest, Has, Single, Restored1
  <2>3. QED
    BY <1>1, <2>2 DEF ModeAt
<1>6. CASE \/ op[c].kind = "update" /\ op[c].old = None
           \/ op[c].kind \in {"start", "resume"}
  <2>1. services' = services /\ None1 /\ OnlyRestored
    BY <1>6 DEF InCall, UpdateKnows, StartKnows, NoSession
  <2>2. AtRest'
    BY <1>3, <2>1 DEF AtRest, None1, OnlyRestored, Single, Restored1
  <2>3. QED
    BY <1>1, <2>2 DEF ModeAt
<1>7. CASE op[c].kind \in {"on", "stop"}
  BY <1>7 DEF InCall, OnKnows, StopKnows
<1>8. QED
  BY <1>2, <1>4, <1>5, <1>6, <1>7 DEF Ops, Kinds

LEMMA ClearMode ==
  ASSUME TypeInv, NEW c \in Callers, Clear(c), Whole', ModeAt(c)
  PROVE  ModeAt(c)'
<1>1. op[c] # None /\ op[c].at = "clear" /\ op[c] \in Ops /\ op[c].kind # "on"
  BY CallType DEF Clear, At, Placed
<1>2. InCall(op[c])
  BY <1>1 DEF ModeAt
<1>3. UNCHANGED <<up, row, remembered, tokenFile, session, agent, held, odd>>
  BY DEF Clear, stored, runs
<1>4. CASE NoSession(c)
  BY <1>1, <1>2, <1>3, <1>4, NoSessionMode
<1>5. CASE session = None /\ Goto(c, "port") /\ UNCHANGED services
  <2>1. /\ op'[c] # None /\ op'[c].at = "port" /\ op'[c].kind = op[c].kind
        /\ op'[c].old = op[c].old
    BY <1>1, <1>5, Goes, StillCall DEF Places
  <2>2. held = None
    BY <1>1, <1>2, <1>5 DEF InCall
  <2>3. QED
    BY <1>1, <1>2, <1>3, <1>5, <2>1, <2>2 DEF ModeAt, InCall, OffKnows, UpdateKnows, StartKnows,
       StopKnows, Has, None1, OnlyRestored, Restored1
<1>6. CASE session # None /\ Halt(c, "port") /\ UNCHANGED services
  <2>1. /\ op'[c] # None /\ op'[c].at = "halt" /\ op'[c].kind = op[c].kind
        /\ op'[c].old = op[c].old /\ op'[c].next = "port"
    BY <1>1, <1>6, Halts, StillCall DEF Nexts
  <2>2. QED
    BY <1>1, <1>2, <1>3, <1>6, <2>1 DEF ModeAt, InCall, OffKnows, UpdateKnows, StartKnows,
       StopKnows, Has, None1, OnlyRestored, Restored1
<1>7. QED
  BY <1>4, <1>5, <1>6 DEF Clear

LEMMA StartSessionMode ==
  ASSUME TypeInv, NEW c \in Callers, StartSession(c), Whole', ModeAt(c)
  PROVE  ModeAt(c)'
<1>1. op[c] # None /\ op[c].at = "port" /\ op[c] \in Ops /\ op[c].kind # "on"
  BY CallType DEF StartSession, At, Placed
<1>2. InCall(op[c])
  BY <1>1 DEF ModeAt
<1>3. UNCHANGED <<up, row, tokenFile, agent, odd>>
  BY DEF StartSession
<1>4. session = None
  BY <1>1, <1>2 DEF InCall
<1>5. remembered = None => agent = None
  <2>1. op[c].old # None => op[c].old \in Ports
    BY <1>1 DEF Ops
  <2>2. services # None => services \in Ports
    BY DEF TypeInv, TypeOK
  <2>3. QED
    BY <1>1, <1>2, <2>1, <2>2, MachineAssumption DEF InCall, OffKnows, UpdateKnows, StartKnows,
       StopKnows, Has, None1, Ops, Kinds
<1>6. ASSUME NEW p \in Ports, PortFor(p)
      PROVE  remembered' = remembered \/ (remembered = None /\ agent = None)
  BY <1>5, <1>6 DEF PortFor
<1>7. remembered' = remembered \/ (remembered = None /\ agent = None)
  BY <1>6 DEF StartSession
<1>8. CASE NoSession(c) /\ UNCHANGED <<session, held>>
  BY <1>1, <1>2, <1>3, <1>7, <1>8, NoSessionMode
<1>9. CASE \E p \in Ports :
             /\ session' = New(p) /\ held' = p
             /\ IF op[c].kind \in {"off", "update"} THEN Goto(c, "healthy") ELSE End(c)
             /\ UNCHANGED services
  <2>1. session' # None
    BY <1>9, NewType, NoneAssumption
  <2>2. CASE op[c].kind \in {"off", "update"}
    <3>1. /\ op'[c] # None /\ op'[c].at = "healthy" /\ op'[c].kind = op[c].kind
          /\ op'[c].old = op[c].old
      <4>1. Goto(c, "healthy")
        BY <1>9, <2>2
      <4>2. QED
        BY <1>1, <4>1, Goes, StillCall DEF Places
    <3>2. services' = services
      BY <1>9
    <3>3. QED
      BY <1>1, <1>2, <1>3, <1>7, <2>1, <2>2, <3>1, <3>2 DEF ModeAt, InCall, OffKnows, UpdateKnows,
         Has, None1, OnlyRestored, Restored1
  <2>3. CASE op[c].kind \notin {"off", "update"}
    <3>1. op'[c] = None /\ services' = services
      BY <1>9, <2>3, Ends
    <3>2. None1 /\ OnlyRestored /\ up
      BY <1>1, <1>2, <2>3 DEF InCall, StartKnows, StopKnows, Ops, Kinds
    <3>3. AtRest'
      BY <1>3, <2>1, <3>1, <3>2 DEF AtRest, None1, OnlyRestored, Single, Restored1
    <3>4. QED
      BY <3>1, <3>3 DEF ModeAt
  <2>4. QED
    BY <2>2, <2>3
<1>10. QED
  BY <1>4, <1>8, <1>9 DEF StartSession

LEMMA HealthyMode ==
  ASSUME TypeInv, NEW c \in Callers, Healthy(c), Whole', ModeAt(c)
  PROVE  ModeAt(c)'
<1>1. /\ op[c] # None /\ op[c].at = "healthy" /\ op[c] \in Ops
      /\ op[c].kind \in {"off", "update"}
  BY CallType DEF Healthy, At, Placed
<1>2. InCall(op[c])
  BY <1>1 DEF ModeAt
<1>3. UNCHANGED <<up, row, remembered, tokenFile, session, agent, held, services, odd>>
  BY DEF Healthy, stored, runs, memory
<1>4. CASE \/ op[c].kind = "off" /\ Goto(c, "remove")
           \/ op[c].kind = "update" /\ op[c].old # None /\ Goto(c, "install")
  <2>1. /\ op'[c] # None /\ op'[c].kind = op[c].kind /\ op'[c].old = op[c].old
        /\ op'[c].at = IF op[c].kind = "off" THEN "remove" ELSE "install"
    BY <1>1, <1>4, Goes, StillCall DEF Places
  <2>2. QED
    BY <1>1, <1>2, <1>3, <1>4, <2>1 DEF ModeAt, InCall, OffKnows, UpdateKnows, Has
<1>5. CASE \/ op[c].kind = "off" /\ Halt(c, "restore")
           \/ op[c].kind = "update" /\ op[c].old # None /\ Halt(c, "end")
  <2>1. /\ op'[c] # None /\ op'[c].kind = op[c].kind /\ op'[c].old = op[c].old
        /\ op'[c].at = "halt"
        /\ op'[c].next = IF op[c].kind = "off" THEN "restore" ELSE "end"
    BY <1>1, <1>5, Halts, StillCall DEF Nexts
  <2>2. QED
    BY <1>1, <1>2, <1>3, <1>5, <2>1 DEF ModeAt, InCall, OffKnows, UpdateKnows, Has
<1>6. CASE op[c].kind = "update" /\ op[c].old = None /\ End(c)
  <2>1. op'[c] = None
    BY <1>6, Ends
  <2>2. None1 /\ OnlyRestored /\ up /\ (held # None => session # None)
    BY <1>1, <1>2, <1>6 DEF InCall, UpdateKnows
  <2>3. AtRest'
    BY <1>3, <2>2 DEF AtRest, None1, OnlyRestored, Single, Restored1
  <2>4. QED
    BY <2>1, <2>3 DEF ModeAt
<1>7. QED
  BY <1>1, <1>4, <1>5, <1>6 DEF Healthy

LEMMA HaltSessionMode ==
  ASSUME TypeInv, NEW c \in Callers, HaltSession(c), Whole', ModeAt(c)
  PROVE  ModeAt(c)'
<1>1. op[c] # None /\ op[c].at = "halt" /\ op[c] \in Ops
  BY CallType DEF HaltSession, At
<1>2. InCall(op[c])
  BY <1>1 DEF ModeAt
<1>3. /\ UNCHANGED <<up, row, remembered, tokenFile, agent, held, services, odd>>
      /\ session' = None
  BY DEF HaltSession, stored, memory
<1>4. /\ op'[c] # None /\ op'[c].at = "drop" /\ op'[c].kind = op[c].kind
      /\ op'[c].old = op[c].old /\ op'[c].next = op[c].next
  BY <1>1, Goes, StillCall DEF HaltSession, Places
<1>5. QED
  BY <1>1, <1>2, <1>3, <1>4 DEF ModeAt, InCall, OffKnows, OnKnows, UpdateKnows, StartKnows,
     StopKnows, Has, None1, OnlyRestored, Restored1

LEMMA DropPortMode ==
  ASSUME TypeInv, NEW c \in Callers, DropPort(c), Whole', ModeAt(c)
  PROVE  ModeAt(c)'
<1>1. op[c] # None /\ op[c].at = "drop" /\ op[c] \in Ops /\ Placed(op[c])
  BY CallType DEF DropPort, At
<1>2. InCall(op[c])
  BY <1>1 DEF ModeAt
<1>3. /\ UNCHANGED <<up, row, remembered, tokenFile, session, agent, odd>>
      /\ held' = None /\ session = None /\ up
  BY <1>1, <1>2 DEF DropPort, stored, runs, InCall
<1>4. CASE op[c].next \in {"port", "row"} /\ Goto(c, op[c].next) /\ UNCHANGED services
  <2>1. /\ op'[c] # None /\ op'[c].kind = op[c].kind /\ op'[c].at = op[c].next
        /\ op'[c].old = op[c].old
    BY <1>1, <1>4, Goes, StillCall DEF Places
  <2>2. op[c].next = "row" <=> op[c].kind = "on"
    BY <1>1, <1>4 DEF Placed
  <2>3. QED
    BY <1>1, <1>2, <1>3, <1>4, <2>1, <2>2 DEF ModeAt, InCall, OffKnows, OnKnows, UpdateKnows,
       StartKnows, StopKnows, Has, None1, Single, OnlyRestored, Restored1
<1>5. CASE op[c].next = "restore" /\ End(c) /\ Restore(c)
  <2>1. op'[c] = None /\ services' = op[c].old
    BY <1>5, Ends DEF Restore
  <2>2. CASE op[c].kind = "off"
    <3>1. op[c].old # None /\ Has(op[c].old) /\ row
      BY <1>1, <1>2, <2>2 DEF InCall, OffKnows
    <3>2. AtRest'
      BY <1>3, <2>1, <3>1 DEF AtRest, Has, Single
    <3>3. QED
      BY <2>1, <3>2 DEF ModeAt
  <2>3. CASE op[c].kind = "on"
    BY <1>1, <1>2, <1>5, <2>3 DEF InCall, OnKnows
  <2>4. CASE op[c].kind \in {"update", "start", "resume", "stop"}
    BY <1>1, <1>2, <1>5, <2>4 DEF InCall, UpdateKnows, StartKnows, StopKnows
  <2>5. QED
    BY <1>1, <2>2, <2>3, <2>4 DEF Ops, Kinds
<1>6. CASE op[c].next \in {"end", "done"} /\ End(c) /\ UNCHANGED services
  <2>1. op'[c] = None
    BY <1>6, Ends
  <2>2. \/ None1
        \/ services # None /\ Has(services) /\ row
    BY <1>1, <1>2, <1>6 DEF InCall, OffKnows, OnKnows, UpdateKnows, StartKnows, StopKnows, Ops, Kinds
  <2>3. AtRest'
    BY <1>3, <1>6, <2>2 DEF AtRest, Has, None1, Single
  <2>4. QED
    BY <2>1, <2>3 DEF ModeAt
<1>7. QED
  BY <1>1, <1>4, <1>5, <1>6 DEF DropPort, Ops, Nexts

LEMMA Calls ==
  ASSUME TypeInv, NEW c \in Callers, NEW kind \in Kinds, NEW at \in Places, Call(c, kind, at)
  PROVE  /\ op'[c] # None /\ op'[c].kind = kind /\ op'[c].at = at /\ op'[c].old = services
         /\ op'[c].next = "end"
<1> DEFINE o == [kind |-> kind, at |-> at, old |-> services, new |-> None, next |-> "end"]
<1>1. op'[c] = o
  BY DEF Call, TypeInv, TypeOK
<1>2. o \in Ops
  BY DEF Ops, Nexts, TypeInv, TypeOK
<1>3. QED
  BY <1>1, <1>2, NoneAssumption

\* What is at rest, of a service and without one.
LEMMA RestKnows ==
  ASSUME TypeInv, AtRest, up
  PROVE  /\ services # None => Has(services) /\ row
         /\ services = None => None1
         /\ Single /\ (held # None => session # None)
<1>1. agent # None => agent.port # None
  BY MachineAssumption DEF Connectors, TypeInv, TypeOK
<1>2. QED
  BY <1>1 DEF AtRest, Has, None1

LEMMA BeginMode ==
  ASSUME TypeInv, NEW c \in Callers, Begin(c), Whole', ModeAt(c)
  PROVE  ModeAt(c)'
<1>1. up /\ op[c] = None /\ AtRest
  BY DEF Begin, ModeAt
<1>2. UNCHANGED <<up, row, remembered, tokenFile, session, agent, held>>
  BY DEF Begin, stored, runs
<1>3. /\ services # None => Has(services) /\ row
      /\ services = None => None1
      /\ Single /\ (held # None => session # None)
  BY <1>1, RestKnows
<1>4. /\ {"on", "off", "update", "start", "stop", "resume"} \subseteq Kinds
      /\ {"row", "install", "clear", "unload", "halt", "adopt"} \subseteq Places
  BY DEF Kinds, Places
<1>5. CASE \E on \in BOOLEAN : SetAlwaysOn(c, on)
  <2>1. PICK on \in BOOLEAN : SetAlwaysOn(c, on)
    BY <1>5
  <2>2. CASE /\ (services # None) = on
             /\ Call(c, IF on THEN "on" ELSE "off", "row") /\ UNCHANGED services
    <3>1. /\ op'[c] # None /\ op'[c].at = "row" /\ op'[c].kind = IF on THEN "on" ELSE "off"
      BY <1>4, <2>2, Calls
    <3>2. UNCHANGED <<services, odd>>
      BY <2>1, <2>2 DEF SetAlwaysOn
    <3>3. CASE on
      BY <1>1, <1>2, <1>3, <2>2, <3>1, <3>2, <3>3 DEF ModeAt, InCall, OnKnows, Has, Single, Restored1
    <3>4. CASE ~on
      BY <1>1, <1>2, <1>3, <2>2, <3>1, <3>2, <3>4 DEF ModeAt, InCall, OffKnows, None1
    <3>5. QED
      BY <3>3, <3>4
  <2>3. CASE services = None /\ Call(c, "on", "install") /\ UNCHANGED services
    <3>1. op'[c] # None /\ op'[c].at = "install" /\ op'[c].kind = "on"
      BY <1>4, <2>3, Calls
    <3>2. UNCHANGED <<services, odd>>
      BY <2>1, <2>3 DEF SetAlwaysOn
    <3>3. QED
      BY <1>1, <1>2, <1>3, <2>3, <3>1, <3>2 DEF ModeAt, InCall, OnKnows, None1, Single, Restored1
  <2>4. CASE services # None /\ Call(c, "off", "clear") /\ services' = None
    <3>1. /\ op'[c] # None /\ op'[c].at = "clear" /\ op'[c].kind = "off"
          /\ op'[c].old = services
      BY <1>4, <2>4, Calls
    <3>2. UNCHANGED odd
      BY <2>1 DEF SetAlwaysOn
    <3>3. QED
      BY <1>1, <1>2, <1>3, <2>4, <3>1, <3>2 DEF ModeAt, InCall, OffKnows, Has, Single, Restored1
  <2>5. QED
    BY <2>1, <2>2, <2>3, <2>4 DEF SetAlwaysOn
<1>6. CASE RestartTunnel(c)
  <2>1. UNCHANGED <<services, odd>> /\ (services # None \/ held # None)
    BY <1>6 DEF RestartTunnel
  <2>2. CASE services # None
    <3>1. /\ op'[c] # None /\ op'[c].at = "clear" /\ op'[c].kind = "update"
          /\ op'[c].old = services
      BY <1>4, <1>6, <2>2, Calls DEF RestartTunnel
    <3>2. QED
      BY <1>1, <1>2, <1>3, <2>1, <2>2, <3>1 DEF ModeAt, InCall, UpdateKnows, Has, Single, Restored1
  <2>3. CASE services = None
    <3> DEFINE o == [kind |-> "update", at |-> "halt", old |-> None, new |-> None, next |-> "port"]
    <3>1. op'[c] = o
      BY <1>6, <2>3 DEF RestartTunnel, TypeInv, TypeOK
    <3>2. o \in Ops
      BY DEF Ops, Kinds, Places, Nexts
    <3>3. /\ op'[c] # None /\ op'[c].at = "halt" /\ op'[c].kind = "update"
          /\ op'[c].old = None /\ op'[c].next = "port"
      BY <3>1, <3>2, NoneAssumption
    <3>4. OnlyRestored
      BY <1>3, <2>1, <2>3 DEF Single, OnlyRestored
    <3>5. QED
      BY <1>1, <1>2, <1>3, <2>1, <2>3, <3>3, <3>4 DEF ModeAt, InCall, UpdateKnows, None1,
         OnlyRestored, Restored1
  <2>4. QED
    BY <2>2, <2>3
<1>7. CASE StartTunnel(c)
  <2>1. /\ op'[c] # None /\ op'[c].kind = "start"
        /\ op'[c].at = IF services # None THEN "unload" ELSE "clear"
    BY <1>4, <1>7, Calls DEF StartTunnel, Startable
  <2>2. UNCHANGED services
    BY <1>7 DEF StartTunnel
  <2>3. Restored1 => Restored1'
    BY <1>7 DEF StartTunnel, Odd, Restored1
  <2>4. services = None /\ row => Restored1'
    BY <1>7 DEF StartTunnel, Odd, Restored1
  <2>5. QED
    BY <1>1, <1>2, <1>3, <2>1, <2>2, <2>3, <2>4 DEF ModeAt, InCall, StartKnows, None1, Single,
       OnlyRestored
<1>8. CASE StopTunnel(c)
  <2>1. /\ op'[c] # None /\ op'[c].kind = "stop" /\ op'[c].next = "end"
        /\ op'[c].at = IF services # None THEN "unload" ELSE "halt"
    BY <1>4, <1>8, Calls DEF StopTunnel
  <2>2. UNCHANGED <<services, odd>>
    BY <1>8 DEF StopTunnel
  <2>3. QED
    BY <1>1, <1>2, <1>3, <2>1, <2>2 DEF ModeAt, InCall, StopKnows, Has, None1, Single, Restored1
<1>9. CASE ResumeTunnel(c)
  <2>1. UNCHANGED <<services, odd>>
    BY <1>9 DEF ResumeTunnel
  <2>2. CASE row /\ Call(c, "resume", "adopt")
    <3>1. op'[c] # None /\ op'[c].kind = "resume" /\ op'[c].at = "adopt"
      BY <1>4, <2>2, Calls
    <3>2. agent # None => Has(agent.port)
      BY <1>1 DEF AtRest
    <3>3. services # None => agent # None
      BY <1>1 DEF AtRest
    <3>4. QED
      BY <1>1, <1>2, <1>3, <2>1, <2>2, <3>1, <3>2, <3>3 DEF ModeAt, InCall, StartKnows, Has, Single,
         Restored1
  <2>3. CASE ~row /\ Call(c, "resume", Startable)
    <3>1. services = None
      BY <1>3, <2>3
    <3>2. op'[c] # None /\ op'[c].kind = "resume" /\ op'[c].at = "clear"
      BY <1>4, <2>3, <3>1, Calls DEF Startable
    <3>3. QED
      BY <1>1, <1>2, <1>3, <2>1, <2>3, <3>1, <3>2 DEF ModeAt, InCall, StartKnows, None1, OnlyRestored
  <2>4. QED
    BY <1>9, <2>2, <2>3 DEF ResumeTunnel
<1>10. QED
  BY <1>5, <1>6, <1>7, <1>8, <1>9 DEF Begin

LEMMA LaunchMode ==
  ASSUME TypeInv, NEW c \in Callers, Launch(c), Whole', ModeAt(c)
  PROVE  ModeAt(c)'
<1>1. ~up /\ up' = TRUE /\ Call(c, "resume", IF row THEN "adopt" ELSE "clear")
      /\ UNCHANGED <<row, remembered, tokenFile, session, agent, held, services, odd>>
  BY DEF Launch, stored, runs, memory
<1>2. op[c] = None /\ AtRest
  BY <1>1 DEF ModeAt, InCall
<1>3. /\ op'[c] # None /\ op'[c].kind = "resume"
      /\ op'[c].at = IF row THEN "adopt" ELSE "clear"
  BY <1>1, Calls DEF Kinds, Places
<1>4. /\ services = None /\ session = None /\ held = None
      /\ agent # None => row /\ Has(agent.port)
  BY <1>1, <1>2 DEF AtRest
<1>5. QED
  BY <1>1, <1>3, <1>4 DEF ModeAt, InCall, StartKnows, Has, None1, Single, OnlyRestored, Restored1

LEMMA WorldMode ==
  ASSUME TypeInv, Whole', NEW c \in Callers, ModeAt(c),
         Connect \/ Break \/ Revive \/ OtherBinds \/ OtherLeaves
  PROVE  ModeAt(c)'
<1>1. UNCHANGED <<up, row, remembered, tokenFile, held, services>> /\ op' = op
  BY DEF Connect, Break, Revive, OtherBinds, OtherLeaves, stored, memory
<1>2. Restored1 => Restored1'
  BY DEF Connect, Break, Revive, OtherBinds, OtherLeaves, Odd, Restored1
<1>3. /\ session' = None <=> session = None
      /\ agent' = None <=> agent = None
      /\ agent # None => agent'.port = agent.port
  <2>1. /\ {session, agent} \subseteq Connectors \cup {None}
    BY DEF TypeInv, TypeOK
  <2>2. ASSUME NEW x \in Connectors, NEW st \in {"dead", "alive", "up"}
        PROVE  [x EXCEPT !.st = st] # None /\ [x EXCEPT !.st = st].port = x.port /\ x # None
    <3>1. [x EXCEPT !.st = st] \in Connectors /\ [x EXCEPT !.st = st].port = x.port
      BY <2>2 DEF Connectors
    <3>2. QED
      BY <3>1, NoneAssumption
  <2>3. \E st \in {"dead", "alive", "up"} :
          \/ session # None /\ session' = [session EXCEPT !.st = st] /\ UNCHANGED agent
          \/ agent # None /\ agent' = [agent EXCEPT !.st = st] /\ UNCHANGED session
          \/ UNCHANGED <<session, agent>>
    BY DEF Connect, Break, Revive, OtherBinds, OtherLeaves, Alive, Broken, Dead
  <2>4. QED
    BY <2>1, <2>2, <2>3
<1>4. CASE op[c] = None
  BY <1>1, <1>2, <1>3, <1>4 DEF ModeAt, AtRest, Has, Single
<1>5. CASE op[c] # None
  <2>1. /\ \A p : Has(p) => Has(p)'
        /\ None1 => None1'
        /\ Single => Single'
        /\ OnlyRestored => OnlyRestored'
    BY <1>1, <1>2, <1>3 DEF Has, None1, Single, OnlyRestored
  <2>2. InCall(op[c])
    BY <1>5 DEF ModeAt
  <2>3. /\ OffKnows(op[c]) => OffKnows(op[c])'
        /\ OnKnows(op[c]) => OnKnows(op[c])'
        /\ UpdateKnows(op[c]) => UpdateKnows(op[c])'
        /\ StartKnows(op[c]) => StartKnows(op[c])'
        /\ StopKnows(op[c]) => StopKnows(op[c])'
    BY <1>1, <1>2, <1>3 DEF OffKnows, OnKnows, UpdateKnows, StartKnows, StopKnows, Has, None1,
       Single, OnlyRestored
  <2>4. QED
    BY <1>1, <1>3, <1>5, <2>2, <2>3 DEF ModeAt, InCall
<1>6. QED
  BY <1>4, <1>5

LEMMA AppMode ==
  ASSUME TypeInv, Whole', NEW c \in Callers, ModeAt(c), EndApp \/ CommandLine
  PROVE  ModeAt(c)'
<1>1. ~Odd("outside") /\ ~Odd("end")
  BY Odd1 DEF Halfway
<1>2. /\ up /\ up' = FALSE /\ session' = None /\ held' = None /\ services' = None
      /\ op' = [d \in Callers |-> None] /\ op[c] = None
      /\ UNCHANGED <<row, remembered, tokenFile, agent, odd>>
  BY <1>1 DEF EndApp, CommandLine, stored
<1>3. AtRest /\ op'[c] = None
  BY <1>2 DEF ModeAt
<1>4. AtRest'
  BY <1>2, <1>3 DEF AtRest, Has, Single
<1>5. QED
  BY <1>3, <1>4 DEF ModeAt

LEMMA StepMode ==
  ASSUME TypeInv, NEW c \in Callers, Step(c), Whole', ModeAt(c)
  PROVE  ModeAt(c)'
BY InstallMode, LoadMode, ReadyMode, UnloadMode, RemoveMode, WriteRowMode, AdoptMode, ClearMode,
   StartSessionMode, HealthyMode, HaltSessionMode, DropPortMode DEF Step

LEMMA ModeStep == OneCaller /\ TypeInv /\ ModeInv /\ [Next]_vars => ModeInv'
<1> SUFFICES ASSUME OneCaller, TypeInv, ModeInv, [Next]_vars, Whole', NEW c \in Callers
    PROVE  ModeAt(c)'
  BY DEF ModeInv
<1>1. ModeAt(c)
  BY Known
<1>2. CASE \E d \in Callers : Begin(d) \/ Step(d) \/ Launch(d)
  <2>1. Begin(c) \/ Step(c) \/ Launch(c)
    BY <1>2 DEF OneCaller
  <2>2. QED
    BY <1>1, <2>1, BeginMode, StepMode, LaunchMode
<1>3. CASE UNCHANGED vars
  BY <1>1, <1>3 DEF vars, stored, memory, runs, ModeAt, AtRest, InCall, OffKnows, OnKnows,
     UpdateKnows, StartKnows, StopKnows, Has, None1, Single, OnlyRestored, Restored1
<1>4. QED
  BY <1>1, <1>2, <1>3, WorldMode, AppMode DEF Next

LEMMA ModeInit == Init => ModeInv
BY DEF Init, ModeInv, ModeAt, AtRest, Single

SerialInv == OneCaller /\ TypeInv /\ ModeInv

\* Machine with one call at a time keeps SerialInv.
LEMMA Serial == OneCaller /\ Spec => []SerialInv
<1>1. OneCaller /\ Init => SerialInv
  BY TypeInit, ModeInit DEF SerialInv
<1>2. SerialInv /\ [Next]_vars => SerialInv'
  BY TypeStep, ModeStep DEF SerialInv, OneCaller
<1>3. QED
  BY <1>1, <1>2, PTL DEF Spec

LEMMA QuietRest ==
  ASSUME SerialInv, Quiet, Whole PROVE AtRest
BY DEF SerialInv, OneCaller, ModeInv, ModeAt, Quiet

\* With one call at a time, a service that is loaded at rest is one the next launch or
\* login finds: Always-on in the database, on the port that is remembered, its token file
\* there.
THEOREM ServiceIsFound == OneCaller => (Spec => []Adoptable)
<1>1. SerialInv => Adoptable
  BY QuietRest DEF Adoptable, Whole, AtRest, Has
<1>2. QED
  BY <1>1, Serial, PTL

\* ... and the running app watches it on its port: a switch to a session that failed has
\* put back the service it forgot.
THEOREM ServiceIsWatched == OneCaller => (Spec => []ServiceKnown)
<1>1. SerialInv => ServiceKnown
  BY QuietRest DEF ServiceKnown, Whole, AtRest, Has
<1>2. QED
  BY <1>1, Serial, PTL

\* ... and the tunnel is not run by a session as well, unless a start had put one in
\* place of a service that was not loaded.
THEOREM RunsOnce == OneCaller => (Spec => []NotTwice)
<1>1. SerialInv => NotTwice
  <2>1. ASSUME SerialInv, Quiet, Not(Halfway \cup {"restored"})
        PROVE  session = None \/ agent = None
    <3>1. Whole /\ ~Restored1
      BY <2>1 DEF Whole, Not, Restored1
    <3>2. AtRest
      BY <2>1, <3>1, QuietRest
    <3>3. QED
      BY <3>1, <3>2 DEF AtRest, Single
  <2>2. QED
    BY <2>1 DEF NotTwice
<1>2. QED
  BY <1>1, Serial, PTL

\* A stop that ends with the app running.
LEMMA StopStep ==
  ASSUME SerialInv, [Next]_vars, NEW c \in Callers,
         op[c] # None, op[c].kind = "stop", op'[c] = None, up',
         Not(Halfway \cup {"restored"})'
  PROVE  session' = None /\ agent' = None
<1>1. TypeInv /\ ModeInv
  BY DEF SerialInv
<1>2. Whole' /\ ~Restored1' /\ odd \subseteq odd'
  BY OddGrows DEF Whole, Not, Restored1
<1>3. InCall(op[c]) /\ ~Restored1
  BY <1>1, <1>2, Known DEF ModeAt, Restored1
<1>4. StopKnows(op[c])
  BY <1>3 DEF InCall
<1>5. Step(c)
  <2>1. op' # op
    OBVIOUS
  <2>2. ~EndApp
    BY DEF EndApp
  <2>3. PICK d \in Callers : Begin(d) \/ Step(d) \/ Launch(d)
    BY <2>1, <2>2 DEF Next, vars, memory, Connect, Break, Revive, OtherBinds, OtherLeaves,
       CommandLine
  <2>4. d = c
    BY DEF SerialInv, OneCaller
  <2>5. ~Begin(c)
    BY DEF Begin
  <2>6. ~Launch(c)
    BY <1>3 DEF Launch, InCall
  <2>7. QED
    BY <2>3, <2>4, <2>5, <2>6
<1>6. Unload(c) \/ HaltSession(c) \/ DropPort(c)
  BY <1>4, <1>5 DEF Step, StopKnows, At, Install, Load, Ready, Remove, WriteRow, Adopt, Clear,
     StartSession, Healthy
<1>7. CASE Unload(c)
  <2>1. ~Odd("manager")
    BY <1>2, Odd1 DEF Halfway
  <2>2. agent' = None /\ session' = session
    BY <1>7, <2>1 DEF Unload
  <2>3. session = None
    BY <1>3, <1>4, <1>7 DEF Unload, At, StopKnows, Single
  <2>4. QED
    BY <2>2, <2>3
<1>8. CASE HaltSession(c)
  <2>1. op'[c] # None
    <3>1. op'[c].at = "drop" /\ op'[c] = At1(op[c], "drop")
      BY <1>1, <1>8, Goes DEF HaltSession
    <3>2. op[c] \in Ops
      BY <1>1 DEF TypeInv, TypeOK
    <3>3. At1(op[c], "drop") \in Ops
      BY <3>2 DEF At1, Ops, Places
    <3>4. QED
      BY <3>1, <3>3, NoneAssumption
  <2>2. QED
    BY <2>1
<1>9. CASE DropPort(c)
  <2>1. session' = session /\ agent' = agent
    BY <1>9 DEF DropPort, runs
  <2>2. session = None /\ agent = None
    BY <1>3, <1>4, <1>9 DEF DropPort, At, InCall, StopKnows, None1
  <2>3. QED
    BY <2>1, <2>2
<1>10. QED
  BY <1>6, <1>7, <1>8, <1>9

\* With one call at a time, a stop that ends leaves neither a session nor a service,
\* whichever of them ran.
THEOREM StopEndsBoth == OneCaller => (Spec => StopStops)
<1>1. SerialInv /\ [Next]_vars =>
        [\A c \in Callers :
           op[c] # None /\ op[c].kind = "stop" /\ op'[c] = None /\ up'
           /\ Not(Halfway \cup {"restored"})' => session' = None /\ agent' = None]_vars
  BY StopStep
<1>2. QED
  BY <1>1, Serial, PTL DEF Spec, StopStops

-----------------------------------------------------------------------------
(* The ports: each that was handed out is the session's, the service's or  *)
(* a call's                                                                *)

\* What takes a service from the app's maps without its port: NoPortLost's exceptions.
Strays == {"manager", "unremembered", "reinstall", "outside"}
Tidy == Not(Strays)

\* A service that is watched is there, on the port that is remembered.
Watched(p) == p # None => agent # None /\ remembered = p

\* The ports of a call: the one it puts a service on, the one of the service it switches
\* off.
Own(o) ==
  (IF o.at = "load" THEN {o.new} ELSE {})
  \cup (IF o.kind = "off" /\ o.at # "row" THEN {o.old} ELSE {})

PortsAtRest ==
  /\ taken \subseteq {held, services}
  /\ Watched(services)
  /\ held # None => session # None
  /\ ~up => services = None

OffPorts(o) ==
  /\ o.at \in {"clear", "halt", "drop", "port", "healthy", "remove", "row"}
  /\ o.at # "row" => services = None /\ Watched(o.old)
  /\ o.at \in {"halt", "drop"} => o.next \in {"port", "restore"}
UpdatePorts(o) == o.at # "ready" /\ o.next # "done" => services = o.old

PortsInCall(o) ==
  /\ up
  /\ taken \subseteq {held, services} \cup Own(o)
  /\ Watched(services)
  /\ held # None /\ session = None => o.at = "drop"
  /\ o.kind = "off" => OffPorts(o)
  /\ o.kind = "update" => UpdatePorts(o) /\ o.at # "unload"
  /\ o.at \in {"install", "load"} => o.kind = "update" \/ services = None
  /\ o.next = "done" => o.at \in {"halt", "drop"}
  /\ o.next = "restore" => o.kind = "off"

PortsAt(c) == IF op[c] = None THEN PortsAtRest ELSE PortsInCall(op[c])
PortInv == Tidy => \A c \in Callers : PortsAt(c)

\* A step, with what it finds and what it leaves.
LEMMA Tidied ==
  ASSUME TypeInv, PortInv, Tidy', [Next]_vars, NEW c \in Callers
  PROVE  Tidy /\ PortsAt(c)
BY OddGrows DEF PortInv, Tidy, Not

LEMMA Stray1 ==
  ASSUME NEW why \in Strays, Tidy' PROVE ~Odd(why)
BY DEF Odd, Tidy, Not

\* An install that fails leaves no service that was watched.
LEMMA NoReinstall ==
  ASSUME NEW c, NEW why, Failed(c, why), Tidy' PROVE services = None
BY DEF Failed, Tidy, Not, Strays

LEMMA EndPorts ==
  ASSUME TypeInv, NEW c \in Callers, End(c), PortsAtRest'
  PROVE  PortsAt(c)'
BY Ends DEF PortsAt

LEMMA InstallPorts ==
  ASSUME TypeInv, NEW c \in Callers, Install(c), Tidy', PortsAt(c)
  PROVE  PortsAt(c)'
<1>1. op[c] # None /\ op[c].at = "install" /\ op[c] \in Ops
  BY CallType DEF Install, At
<1>2. PortsInCall(op[c])
  BY <1>1 DEF PortsAt
<1>3. UNCHANGED <<up, remembered, session, agent, held, services>>
  BY DEF Install, runs
<1>4. CASE \E p \in FreePorts :
             /\ op' = [op EXCEPT ![c].at = "load", ![c].new = p]
             /\ taken' = taken \cup {p}
  <2>1. PICK p \in FreePorts :
             /\ op' = [op EXCEPT ![c].at = "load", ![c].new = p]
             /\ taken' = taken \cup {p}
    BY <1>4
  <2>2. /\ op'[c].at = "load" /\ op'[c].kind = op[c].kind /\ op'[c].new = p
        /\ op'[c].old = op[c].old /\ op'[c].next = op[c].next
    BY <1>1, <2>1 DEF Ops, TypeInv, TypeOK
  <2>3. op'[c] \in Ops
    BY <1>1, <2>1 DEF Ops, Places, FreePorts, TypeInv, TypeOK
  <2>4. op'[c] # None
    BY <2>3, NoneAssumption
  <2>5. QED
    BY <1>1, <1>2, <1>3, <2>1, <2>2, <2>4 DEF PortsAt, PortsInCall, Own, OffPorts, UpdatePorts,
       Watched
<1>5. CASE End(c) /\ Uninstalled(c, taken)
  <2>1. PortsAtRest'
    BY <1>1, <1>2, <1>3, <1>5 DEF PortsInCall, PortsAtRest, Own, OffPorts, Watched, Uninstalled,
       Update, UpdatePorts, Install, Failed, Tidy, Not, Strays
  <2>2. QED
    BY <1>5, <2>1, EndPorts
<1>6. QED
  BY <1>4, <1>5 DEF Install

LEMMA LoadPorts ==
  ASSUME TypeInv, NEW c \in Callers, Load(c), Tidy', PortsAt(c)
  PROVE  PortsAt(c)'
<1>1. op[c] # None /\ op[c].at = "load" /\ op[c] \in Ops /\ op[c].new \in Ports
  BY CallType DEF Load, At, Placed
<1>2. PortsInCall(op[c])
  BY <1>1 DEF PortsAt
<1>3. UNCHANGED <<up, session, held>>
  BY DEF Load
<1>4. op[c].kind # "off" /\ (held # None => session # None) /\ op[c].next # "done"
  BY <1>1, <1>2 DEF PortsInCall, OffPorts
<1>5. CASE /\ agent' = New(op[c].new) /\ services' = op[c].new
           /\ IF op[c].kind \in {"on", "update"} THEN Goto(c, "ready") ELSE End(c)
           /\ Uninstalled(c, taken)
           /\ remembered' = op[c].new \/ Odd("unremembered")
  <2>1. remembered' = op[c].new
    BY <1>5, Stray1 DEF Strays
  <2>2. agent' # None
    BY <1>1, <1>5, NewType, NoneAssumption
  <2>3. taken' \subseteq {held', services'}
    <3>1. None \notin taken
      BY MachineAssumption DEF TypeInv, TypeOK
    <3>2. op[c].kind = "update" => services = op[c].old
      BY <1>1, <1>2, <1>4 DEF PortsInCall, UpdatePorts
    <3>3. op[c].kind # "update" => services = None
      BY <1>1, <1>2 DEF PortsInCall
    <3>4. taken \subseteq {held, services, op[c].new}
      BY <1>1, <1>2, <1>4 DEF PortsInCall, Own
    <3>5. QED
      BY <1>3, <1>5, <3>1, <3>2, <3>3, <3>4 DEF Uninstalled, Update
  <2>4. Watched(services)'
    BY <1>5, <2>1, <2>2 DEF Watched
  <2>5. CASE End(c)
    <3>1. PortsAtRest'
      BY <1>2, <1>3, <1>4, <2>3, <2>4 DEF PortsInCall, PortsAtRest
    <3>2. QED
      BY <2>5, <3>1, EndPorts
  <2>6. CASE Goto(c, "ready")
    <3>1. /\ op'[c] # None /\ op'[c].at = "ready" /\ op'[c].kind = op[c].kind
          /\ op'[c].next = op[c].next
      BY <1>1, <2>6, Goes, StillCall DEF Places
    <3>2. QED
      BY <1>1, <1>2, <1>3, <1>4, <2>3, <2>4, <3>1 DEF PortsAt, PortsInCall, UpdatePorts
  <2>7. QED
    BY <1>5, <2>5, <2>6
<1>6. CASE /\ Uninstalled(c, taken \ {op[c].new}) /\ Failed(c, {}) /\ End(c)
           /\ UNCHANGED <<services, remembered>>
  <2>1. services = None
    BY <1>6, NoReinstall
  <2>2. PortsAtRest'
    BY <1>1, <1>2, <1>3, <1>4, <1>6, <2>1 DEF PortsInCall, PortsAtRest, Own, Uninstalled, Watched
  <2>3. QED
    BY <1>6, <2>2, EndPorts
<1>7. QED
  BY <1>5, <1>6 DEF Load

LEMMA ReadyPorts ==
  ASSUME TypeInv, NEW c \in Callers, Ready(c), Tidy', PortsAt(c)
  PROVE  PortsAt(c)'
<1>1. op[c] # None /\ op[c].at = "ready" /\ op[c] \in Ops
  BY CallType DEF Ready, At
<1>2. PortsInCall(op[c]) /\ op[c].kind # "off"
  BY <1>1 DEF PortsAt, PortsInCall, OffPorts
<1>3. UNCHANGED <<up, remembered, session, agent, held, services, taken>>
  BY DEF Ready, stored, runs, memory
<1>4. CASE Halt(c, IF Update(c) THEN "done" ELSE "row")
  <2>1. /\ op'[c] # None /\ op'[c].at = "halt" /\ op'[c].kind = op[c].kind
        /\ op'[c].next = IF Update(c) THEN "done" ELSE "row"
    BY <1>1, <1>4, Halts, StillCall DEF Nexts
  <2>2. QED
    BY <1>1, <1>2, <1>3, <2>1 DEF PortsAt, PortsInCall, UpdatePorts, Own, Watched, Update
<1>5. CASE Update(c) /\ End(c)
  <2>1. PortsAtRest'
    BY <1>1, <1>2, <1>3 DEF PortsAtRest, PortsInCall, Own, Watched
  <2>2. QED
    BY <1>5, <2>1, EndPorts
<1>6. CASE ~Update(c) /\ Goto(c, "unload")
  <2>1. /\ op'[c] # None /\ op'[c].at = "unload" /\ op'[c].kind = op[c].kind
        /\ op'[c].next = op[c].next
    BY <1>1, <1>6, Goes, StillCall DEF Places
  <2>2. QED
    BY <1>1, <1>2, <1>3, <1>6, <2>1 DEF PortsAt, PortsInCall, Own, Watched, Update
<1>7. QED
  BY <1>4, <1>5, <1>6 DEF Ready

LEMMA UnloadPorts ==
  ASSUME TypeInv, NEW c \in Callers, Unload(c), Tidy', PortsAt(c)
  PROVE  PortsAt(c)'
<1>1. op[c] # None /\ op[c].at = "unload" /\ op[c] \in Ops
  BY CallType DEF Unload, At
<1>2. PortsInCall(op[c]) /\ op[c].kind \notin {"off", "update"}
  BY <1>1 DEF PortsAt, PortsInCall, OffPorts
<1>3. UNCHANGED <<up, session, held>>
  BY DEF Unload
<1>4. services' = None /\ taken' = taken \ {services}
  BY Stray1 DEF Unload, Strays
<1>5. taken' \subseteq {held', services'} /\ Watched(services)'
  BY <1>1, <1>2, <1>3, <1>4 DEF PortsInCall, Own, Watched
<1>6. CASE End(c)
  <2>1. PortsAtRest'
    BY <1>1, <1>2, <1>3, <1>4, <1>5 DEF PortsInCall, PortsAtRest
  <2>2. QED
    BY <1>6, <2>1, EndPorts
<1>7. CASE Goto(c, "install")
  <2>1. /\ op'[c] # None /\ op'[c].at = "install" /\ op'[c].kind = op[c].kind
        /\ op'[c].next = op[c].next
    BY <1>1, <1>7, Goes, StillCall DEF Places
  <2>2. QED
    BY <1>1, <1>2, <1>3, <1>4, <1>5, <2>1 DEF PortsAt, PortsInCall
<1>8. QED
  BY <1>6, <1>7 DEF Unload, AfterUnload

LEMMA RemovePorts ==
  ASSUME TypeInv, NEW c \in Callers, Remove(c), Tidy', PortsAt(c)
  PROVE  PortsAt(c)'
<1>1. op[c] # None /\ op[c].at = "remove" /\ op[c] \in Ops /\ op[c].kind = "off"
  BY CallType DEF Remove, At, Placed
<1>2. PortsInCall(op[c]) /\ services = None
  BY <1>1 DEF PortsAt, PortsInCall, OffPorts
<1>3. UNCHANGED <<up, session, held, services>>
  BY DEF Remove
<1>4. taken' = taken \ {op[c].old} /\ Goto(c, "row")
  BY Stray1 DEF Remove, Strays
<1>5. /\ op'[c] # None /\ op'[c].at = "row" /\ op'[c].kind = op[c].kind
      /\ op'[c].next = op[c].next
  BY <1>1, <1>4, Goes, StillCall DEF Places
<1>6. QED
  BY <1>1, <1>2, <1>3, <1>4, <1>5 DEF PortsAt, PortsInCall, OffPorts, Own, Watched

LEMMA WriteRowPorts ==
  ASSUME TypeInv, NEW c \in Callers, WriteRow(c), Tidy', PortsAt(c)
  PROVE  PortsAt(c)'
<1>1. op[c] # None /\ op[c].at = "row"
  BY DEF WriteRow, At
<1>2. UNCHANGED <<up, remembered, session, agent, held, services, taken>> /\ End(c)
  BY DEF WriteRow, runs, memory
<1>3. PortsAtRest'
  BY <1>1, <1>2 DEF PortsAt, PortsInCall, PortsAtRest, Own, Watched
<1>4. QED
  BY <1>2, <1>3, EndPorts

LEMMA AdoptPorts ==
  ASSUME TypeInv, NEW c \in Callers, Adopt(c), Tidy', PortsAt(c)
  PROVE  PortsAt(c)'
<1>1. op[c] # None /\ op[c].at = "adopt" /\ op[c] \in Ops /\ op[c].kind = "resume"
  BY CallType DEF Adopt, At, Placed
<1>2. PortsInCall(op[c])
  BY <1>1 DEF PortsAt
<1>3. UNCHANGED <<up, remembered, session, agent, held>>
  BY DEF Adopt, stored, runs
<1>4. None \notin taken
  BY MachineAssumption DEF TypeInv, TypeOK
<1>5. CASE /\ agent # None /\ remembered # None
           /\ taken' = IF remembered \in FreePorts THEN taken \cup {remembered} ELSE taken
           /\ services' = remembered
           /\ End(c)
  <2>1. services # None => services = remembered
    BY <1>2 DEF PortsInCall, Watched
  <2>2. taken \subseteq {held, services}
    BY <1>1, <1>2 DEF PortsInCall, Own
  <2>3. taken' \subseteq {held', services'}
    BY <1>3, <1>4, <1>5, <2>1, <2>2
  <2>4. PortsAtRest'
    BY <1>1, <1>2, <1>3, <1>5, <2>3 DEF PortsInCall, PortsAtRest, Watched
  <2>5. QED
    BY <1>5, <2>4, EndPorts
<1>6. CASE /\ agent = None \/ remembered = None
           /\ Goto(c, "install")
           /\ UNCHANGED <<taken, services>>
  <2>1. services = None
    BY <1>2, <1>6 DEF PortsInCall, Watched
  <2>2. /\ op'[c] # None /\ op'[c].at = "install" /\ op'[c].kind = op[c].kind
        /\ op'[c].next = op[c].next
    BY <1>1, <1>6, Goes, StillCall DEF Places
  <2>3. QED
    BY <1>1, <1>2, <1>3, <1>6, <2>1, <2>2 DEF PortsAt, PortsInCall, Own, Watched
<1>7. QED
  BY <1>5, <1>6 DEF Adopt

\* A session that does not start: a switch's service is watched again.
LEMMA NoSessionPorts ==
  ASSUME TypeInv, NEW c \in Callers, op[c] # None, PortsInCall(op[c]), NoSession(c),
         op[c].at \in {"clear", "port"},
         UNCHANGED <<up, session, agent, held, taken>>,
         remembered' = remembered \/ remembered = None
  PROVE  PortsAt(c)'
<1>1. None \notin taken
  BY MachineAssumption DEF TypeInv, TypeOK
<1>2. up /\ (held # None => session # None) /\ End(c)
  BY DEF PortsInCall, NoSession
<1>3. CASE op[c].kind = "off"
  <2>1. services' = op[c].old /\ services = None /\ Watched(op[c].old)
    BY <1>3 DEF PortsInCall, OffPorts, NoSession, Restore
  <2>2. taken \subseteq {held, services, op[c].old}
    BY DEF PortsInCall, Own
  <2>3. PortsAtRest'
    BY <1>1, <1>2, <2>1, <2>2 DEF PortsAtRest, Watched
  <2>4. QED
    BY <1>2, <2>3, EndPorts
<1>4. CASE op[c].kind # "off"
  <2>1. services' = services /\ Watched(services)
    BY <1>4 DEF PortsInCall, NoSession
  <2>2. taken \subseteq {held, services}
    BY <1>4 DEF PortsInCall, Own
  <2>3. PortsAtRest'
    BY <1>2, <2>1, <2>2 DEF PortsAtRest, Watched
  <2>4. QED
    BY <1>2, <2>3, EndPorts
<1>5. QED
  BY <1>3, <1>4

LEMMA ClearPorts ==
  ASSUME TypeInv, NEW c \in Callers, Clear(c), Tidy', PortsAt(c)
  PROVE  PortsAt(c)'
<1>1. op[c] # None /\ op[c].at = "clear" /\ op[c] \in Ops
  BY CallType DEF Clear, At
<1>2. PortsInCall(op[c])
  BY <1>1 DEF PortsAt
<1>3. UNCHANGED <<up, remembered, session, agent, held, taken>>
  BY DEF Clear, stored, runs
<1>4. CASE NoSession(c)
  BY <1>1, <1>2, <1>3, <1>4, NoSessionPorts
<1>5. CASE (Goto(c, "port") \/ Halt(c, "port")) /\ UNCHANGED services
  <2>1. /\ op'[c] # None /\ op'[c].kind = op[c].kind /\ op'[c].old = op[c].old
        /\ \/ op'[c].at = "port" /\ op'[c].next = op[c].next
           \/ op'[c].at = "halt" /\ op'[c].next = "port"
    BY <1>1, <1>5, Goes, Halts, StillCall DEF Places, Nexts
  <2>2. QED
    BY <1>1, <1>2, <1>3, <1>5, <2>1 DEF PortsAt, PortsInCall, OffPorts, UpdatePorts, Own, Watched
<1>6. QED
  BY <1>4, <1>5 DEF Clear

LEMMA StartSessionPorts ==
  ASSUME TypeInv, NEW c \in Callers, StartSession(c), Tidy', PortsAt(c)
  PROVE  PortsAt(c)'
<1>1. op[c] # None /\ op[c].at = "port" /\ op[c] \in Ops
  BY CallType DEF StartSession, At
<1>2. PortsInCall(op[c])
  BY <1>1 DEF PortsAt
<1>3. UNCHANGED <<up, agent>>
  BY DEF StartSession
<1>4. CASE /\ NoSession(c) /\ UNCHANGED <<session, held, taken>>
           /\ remembered' = remembered \/ remembered = None
  BY <1>1, <1>2, <1>3, <1>4, NoSessionPorts
<1>5. CASE \E p \in Ports :
             /\ PortFor(p) /\ session = None
             /\ session' = New(p) /\ held' = p /\ taken' = taken \cup {p}
             /\ IF op[c].kind \in {"off", "update"} THEN Goto(c, "healthy") ELSE End(c)
             /\ UNCHANGED services
  <2>1. PICK p \in Ports :
             /\ PortFor(p)
             /\ session' = New(p) /\ held' = p /\ taken' = taken \cup {p}
             /\ IF op[c].kind \in {"off", "update"} THEN Goto(c, "healthy") ELSE End(c)
             /\ UNCHANGED services
    BY <1>5
  <2>2. session' # None
    BY <2>1, NewType, NoneAssumption
  <2>3. held = None
    BY <1>1, <1>2, <1>5 DEF PortsInCall
  <2>4. taken \subseteq {services} \cup Own(op[c])
    <3>1. None \notin taken
      BY MachineAssumption DEF TypeInv, TypeOK
    <3>2. QED
      BY <1>2, <2>3, <3>1 DEF PortsInCall
  <2>5. remembered' = remembered \/ remembered = None
    BY <2>1 DEF PortFor
  <2>6. /\ Watched(services)'
        /\ op[c].kind = "off" /\ op[c].old # None => agent' # None /\ remembered' = op[c].old
    BY <1>1, <1>2, <1>3, <2>1, <2>5 DEF PortsInCall, OffPorts, Watched
  <2>7. CASE op[c].kind \in {"off", "update"}
    <3>1. /\ op'[c] # None /\ op'[c].at = "healthy" /\ op'[c].kind = op[c].kind
          /\ op'[c].old = op[c].old /\ op'[c].next = op[c].next
      BY <1>1, <2>1, <2>7, Goes, StillCall DEF Places
    <3>2. taken' \subseteq {held', services'} \cup Own(op[c])
      BY <2>1, <2>4
    <3>3. Own(op[c]) = Own(op'[c])
      BY <1>1, <3>1 DEF Own
    <3>4. QED
      BY <1>1, <1>2, <1>3, <2>1, <2>2, <2>6, <3>1, <3>2, <3>3 DEF PortsAt, PortsInCall, OffPorts,
         UpdatePorts, Watched
  <2>8. CASE op[c].kind \notin {"off", "update"}
    <3>1. Own(op[c]) = {}
      BY <1>1, <2>8 DEF Own
    <3>2. PortsAtRest'
      BY <1>2, <1>3, <2>1, <2>2, <2>4, <2>6, <3>1 DEF PortsInCall, PortsAtRest
    <3>3. QED
      BY <2>1, <2>8, <3>2, EndPorts
  <2>9. QED
    BY <2>7, <2>8
<1>6. QED
  BY <1>4, <1>5 DEF StartSession, PortFor

LEMMA HealthyPorts ==
  ASSUME TypeInv, NEW c \in Callers, Healthy(c), Tidy', PortsAt(c)
  PROVE  PortsAt(c)'
<1>1. op[c] # None /\ op[c].at = "healthy" /\ op[c] \in Ops
      /\ op[c].kind \in {"off", "update"}
  BY CallType DEF Healthy, At, Placed
<1>2. PortsInCall(op[c])
  BY <1>1 DEF PortsAt
<1>3. UNCHANGED <<up, remembered, session, agent, held, services, taken>>
  BY DEF Healthy, stored, runs, memory
<1>4. CASE op[c].kind = "off"
  <2>1. /\ op'[c] # None /\ op'[c].kind = "off" /\ op'[c].old = op[c].old
        /\ \/ op'[c].at = "remove" /\ op'[c].next = op[c].next
           \/ op'[c].at = "halt" /\ op'[c].next = "restore"
    BY <1>1, <1>4, Goes, Halts, StillCall DEF Healthy, Places, Nexts
  <2>2. QED
    BY <1>1, <1>2, <1>3, <1>4, <2>1 DEF PortsAt, PortsInCall, OffPorts, Own, Watched
<1>5. CASE op[c].kind = "update" /\ ~End(c)
  <2>1. /\ op'[c] # None /\ op'[c].kind = "update" /\ op'[c].old = op[c].old
        /\ \/ op'[c].at = "install" /\ op'[c].next = op[c].next
           \/ op'[c].at = "halt" /\ op'[c].next = "end"
    BY <1>1, <1>5, Goes, Halts, StillCall DEF Healthy, Places, Nexts
  <2>2. QED
    BY <1>1, <1>2, <1>3, <1>5, <2>1 DEF PortsAt, PortsInCall, UpdatePorts, Own, Watched
<1>6. CASE op[c].kind = "update" /\ End(c)
  <2>1. PortsAtRest'
    BY <1>1, <1>2, <1>3, <1>6 DEF PortsInCall, PortsAtRest, Own, Watched
  <2>2. QED
    BY <1>6, <2>1, EndPorts
<1>7. QED
  BY <1>1, <1>4, <1>5, <1>6

LEMMA HaltSessionPorts ==
  ASSUME TypeInv, NEW c \in Callers, HaltSession(c), Tidy', PortsAt(c)
  PROVE  PortsAt(c)'
<1>1. op[c] # None /\ op[c].at = "halt" /\ op[c] \in Ops
  BY CallType DEF HaltSession, At
<1>2. PortsInCall(op[c])
  BY <1>1 DEF PortsAt
<1>3. UNCHANGED <<up, remembered, agent, held, services, taken>>
  BY DEF HaltSession, stored, memory
<1>4. /\ op'[c] # None /\ op'[c].at = "drop" /\ op'[c].kind = op[c].kind
      /\ op'[c].old = op[c].old /\ op'[c].next = op[c].next
  BY <1>1, Goes, StillCall DEF HaltSession, Places
<1>5. QED
  BY <1>1, <1>2, <1>3, <1>4 DEF PortsAt, PortsInCall, OffPorts, UpdatePorts, Own, Watched

LEMMA DropPortPorts ==
  ASSUME TypeInv, NEW c \in Callers, DropPort(c), Tidy', PortsAt(c)
  PROVE  PortsAt(c)'
<1>1. op[c] # None /\ op[c].at = "drop" /\ op[c] \in Ops /\ Placed(op[c])
  BY CallType DEF DropPort, At
<1>2. PortsInCall(op[c])
  BY <1>1 DEF PortsAt
<1>3. /\ UNCHANGED <<up, remembered, agent, session>>
      /\ held' = None /\ taken' = taken \ {held}
  BY DEF DropPort, stored, runs
<1>4. taken' \subseteq {services} \cup Own(op[c]) /\ None \notin taken
  BY <1>2, <1>3, MachineAssumption DEF PortsInCall, TypeInv, TypeOK
<1>5. CASE op[c].next \in {"port", "row"} /\ Goto(c, op[c].next) /\ UNCHANGED services
  <2>1. /\ op'[c] # None /\ op'[c].at = op[c].next /\ op'[c].kind = op[c].kind
        /\ op'[c].old = op[c].old /\ op'[c].next = op[c].next
    BY <1>1, <1>5, Goes, StillCall DEF Places
  <2>2. op[c].next = "row" => op[c].kind = "on"
    BY <1>1 DEF Placed
  <2>3. Own(op'[c]) = Own(op[c])
    BY <1>1, <1>5, <2>1, <2>2 DEF Own
  <2>4. QED
    BY <1>1, <1>2, <1>3, <1>4, <1>5, <2>1, <2>2, <2>3 DEF PortsAt, PortsInCall, OffPorts,
       UpdatePorts, Watched
<1>6. CASE op[c].next = "restore" /\ End(c) /\ Restore(c)
  <2>1. op[c].kind = "off" => services = None /\ Watched(op[c].old)
    BY <1>1, <1>2 DEF PortsInCall, OffPorts
  <2>2. PortsAtRest'
    BY <1>1, <1>2, <1>3, <1>4, <1>6, <2>1 DEF PortsInCall, PortsAtRest, Own, Watched, Restore
  <2>3. QED
    BY <1>6, <2>2, EndPorts
<1>7. CASE op[c].next \in {"end", "done"} /\ End(c) /\ UNCHANGED services
  <2>1. op[c].kind # "off"
    BY <1>1, <1>2, <1>7 DEF PortsInCall, OffPorts
  <2>2. PortsAtRest'
    BY <1>1, <1>2, <1>3, <1>4, <1>7, <2>1 DEF PortsInCall, PortsAtRest, Own, Watched
  <2>3. QED
    BY <1>7, <2>2, EndPorts
<1>8. QED
  BY <1>1, <1>5, <1>6, <1>7 DEF DropPort, Ops, Nexts

LEMMA BeginPorts ==
  ASSUME TypeInv, NEW c \in Callers, Begin(c), Tidy', PortsAt(c)
  PROVE  PortsAt(c)'
<1>1. up /\ op[c] = None /\ PortsAtRest
  BY DEF Begin, PortsAt
<1>2. UNCHANGED <<up, remembered, session, agent, held, taken>>
  BY DEF Begin, stored, runs
<1>3. /\ {"on", "off", "update", "start", "stop", "resume"} \subseteq Kinds
      /\ {"row", "install", "clear", "unload", "halt", "adopt"} \subseteq Places
  BY DEF Kinds, Places
<1>4. CASE \E on \in BOOLEAN : SetAlwaysOn(c, on)
  <2>1. CASE (\E on \in BOOLEAN : Call(c, IF on THEN "on" ELSE "off", "row")) /\ UNCHANGED services
    <3>1. op'[c] # None /\ op'[c].at = "row" /\ op'[c].kind \in {"on", "off"} /\ op'[c].next = "end"
      BY <1>3, <2>1, Calls
    <3>2. QED
      BY <1>1, <1>2, <2>1, <3>1 DEF PortsAtRest, PortsAt, PortsInCall, OffPorts, Own, Watched
  <2>2. CASE services = None /\ Call(c, "on", "install") /\ UNCHANGED services
    <3>1. op'[c] # None /\ op'[c].at = "install" /\ op'[c].kind = "on" /\ op'[c].next = "end"
      BY <1>3, <2>2, Calls
    <3>2. QED
      BY <1>1, <1>2, <2>2, <3>1 DEF PortsAtRest, PortsAt, PortsInCall, Own, Watched
  <2>3. CASE Call(c, "off", "clear") /\ services' = None
    <3>1. /\ op'[c] # None /\ op'[c].at = "clear" /\ op'[c].kind = "off"
          /\ op'[c].old = services /\ op'[c].next = "end"
      BY <1>3, <2>3, Calls
    <3>2. QED
      BY <1>1, <1>2, <2>3, <3>1 DEF PortsAtRest, PortsAt, PortsInCall, OffPorts, Own, Watched
  <2>4. QED
    BY <1>4, <2>1, <2>2, <2>3 DEF SetAlwaysOn
<1>5. CASE RestartTunnel(c)
  <2>1. UNCHANGED services
    BY <1>5 DEF RestartTunnel
  <2>2. CASE services # None /\ Call(c, "update", "clear")
    <3>1. /\ op'[c] # None /\ op'[c].at = "clear" /\ op'[c].kind = "update"
          /\ op'[c].old = services /\ op'[c].next = "end"
      BY <1>3, <2>2, Calls
    <3>2. QED
      BY <1>1, <1>2, <2>1, <3>1 DEF PortsAtRest, PortsAt, PortsInCall, UpdatePorts, Own, Watched
  <2>3. CASE services = None
    <3> DEFINE o == [kind |-> "update", at |-> "halt", old |-> None, new |-> None,
                     next |-> "port"]
    <3>1. op'[c] = o
      BY <1>5, <2>3 DEF RestartTunnel, TypeInv, TypeOK
    <3>2. o \in Ops
      BY DEF Ops, Kinds, Places, Nexts
    <3>3. op'[c] # None
      BY <3>1, <3>2, NoneAssumption
    <3>4. QED
      BY <1>1, <1>2, <2>1, <2>3, <3>1, <3>3 DEF PortsAtRest, PortsAt, PortsInCall, UpdatePorts,
         Own, Watched
  <2>4. QED
    BY <1>5, <2>2, <2>3 DEF RestartTunnel
<1>6. CASE StartTunnel(c) \/ StopTunnel(c) \/ ResumeTunnel(c)
  <2>1. UNCHANGED services
    BY <1>6 DEF StartTunnel, StopTunnel, ResumeTunnel
  <2>2. PICK kind \in {"start", "stop", "resume"}, at \in {"unload", "clear", "halt", "adopt"} :
          Call(c, kind, at)
    BY <1>6 DEF StartTunnel, StopTunnel, ResumeTunnel, Startable
  <2>3. op'[c] # None /\ op'[c].at = at /\ op'[c].kind = kind /\ op'[c].next = "end"
    BY <1>3, <2>2, Calls
  <2>4. QED
    BY <1>1, <1>2, <2>1, <2>3 DEF PortsAtRest, PortsAt, PortsInCall, Own, Watched
<1>7. QED
  BY <1>4, <1>5, <1>6 DEF Begin

LEMMA LaunchPorts ==
  ASSUME TypeInv, NEW c \in Callers, Launch(c), Tidy', PortsAt(c)
  PROVE  PortsAt(c)'
<1>1. ~up /\ up' = TRUE /\ Call(c, "resume", IF row THEN "adopt" ELSE "clear")
      /\ UNCHANGED <<remembered, session, agent, held, services, taken>>
  BY DEF Launch, stored, runs, memory
<1>2. op[c] = None /\ PortsAtRest
  BY <1>1 DEF PortsAt, PortsInCall
<1>3. /\ op'[c] # None /\ op'[c].kind = "resume" /\ op'[c].next = "end"
      /\ op'[c].at \in {"adopt", "clear"}
  BY <1>1, Calls DEF Kinds, Places
<1>4. QED
  BY <1>1, <1>2, <1>3 DEF PortsAtRest, PortsAt, PortsInCall, Own, Watched

LEMMA WorldPorts ==
  ASSUME TypeInv, Tidy', NEW c \in Callers, PortsAt(c),
         Connect \/ Break \/ Revive \/ OtherBinds \/ OtherLeaves
  PROVE  PortsAt(c)'
<1>1. UNCHANGED <<up, remembered, held, services, taken>> /\ op' = op
  BY DEF Connect, Break, Revive, OtherBinds, OtherLeaves, stored, memory
<1>2. /\ session # None => session' # None
      /\ agent # None => agent' # None
  <2>1. ASSUME NEW x \in Connectors, NEW st \in {"dead", "alive", "up"}
        PROVE  [x EXCEPT !.st = st] # None
    <3>1. [x EXCEPT !.st = st] \in Connectors
      BY DEF Connectors
    <3>2. QED
      BY <3>1, NoneAssumption
  <2>2. \E st \in {"dead", "alive", "up"} :
          \/ session # None /\ session' = [session EXCEPT !.st = st] /\ UNCHANGED agent
          \/ agent # None /\ agent' = [agent EXCEPT !.st = st] /\ UNCHANGED session
          \/ UNCHANGED <<session, agent>>
    BY DEF Connect, Break, Revive, OtherBinds, OtherLeaves, Alive, Broken, Dead
  <2>3. QED
    BY <2>1, <2>2 DEF TypeInv, TypeOK
<1>3. session = None => session' = None
  BY DEF Connect, Break, Revive, OtherBinds, OtherLeaves, Alive, Broken, Dead
<1>4. \A p : Watched(p) => Watched(p)'
  BY <1>1, <1>2 DEF Watched
<1>5. CASE op[c] = None
  BY <1>1, <1>2, <1>4, <1>5 DEF PortsAt, PortsAtRest
<1>6. CASE op[c] # None
  BY <1>1, <1>2, <1>3, <1>4, <1>6 DEF PortsAt, PortsInCall, OffPorts, UpdatePorts, Own, Watched
<1>7. QED
  BY <1>5, <1>6

LEMMA AppPorts ==
  ASSUME TypeInv, Tidy', NEW c \in Callers, PortsAt(c), EndApp \/ CommandLine
  PROVE  PortsAt(c)'
<1>1. EndApp
  BY Stray1 DEF CommandLine, Strays
<1>2. /\ held' = None /\ services' = None /\ taken' = {} /\ op'[c] = None
  BY <1>1 DEF EndApp
<1>3. QED
  BY <1>2 DEF PortsAt, PortsAtRest, Watched

LEMMA PortStep == OneCaller /\ TypeInv /\ PortInv /\ [Next]_vars => PortInv'
<1> SUFFICES ASSUME OneCaller, TypeInv, PortInv, [Next]_vars, Tidy', NEW c \in Callers
    PROVE  PortsAt(c)'
  BY DEF PortInv
<1>1. PortsAt(c)
  BY Tidied
<1>2. CASE \E d \in Callers : Begin(d) \/ Step(d) \/ Launch(d)
  <2>1. Begin(c) \/ Step(c) \/ Launch(c)
    BY <1>2 DEF OneCaller
  <2>2. ASSUME Step(c) PROVE PortsAt(c)'
    BY <1>1, <2>2, InstallPorts, LoadPorts, ReadyPorts, UnloadPorts, RemovePorts, WriteRowPorts,
       AdoptPorts, ClearPorts, StartSessionPorts, HealthyPorts, HaltSessionPorts, DropPortPorts
       DEF Step
  <2>3. QED
    BY <1>1, <2>1, <2>2, BeginPorts, LaunchPorts
<1>3. CASE UNCHANGED vars
  BY <1>1, <1>3 DEF vars, stored, memory, runs, PortsAt, PortsAtRest, PortsInCall, OffPorts,
     UpdatePorts, Own, Watched
<1>4. QED
  BY <1>1, <1>2, <1>3, WorldPorts, AppPorts DEF Next

\* Each port is somebody's to release, in a call or at rest.
LEMMA PortsHaveUsers == OneCaller /\ TypeInv /\ PortInv => NoPortLost
<1> SUFFICES ASSUME OneCaller, TypeInv, PortInv, Tidy PROVE taken \subseteq Users
  BY DEF NoPortLost, Tidy, Strays
<1>1. PICK c : Callers = {c} /\ c \in Callers
  BY DEF OneCaller
<1>2. PortsAt(c)
  BY <1>1 DEF PortInv
<1>3. {held, services} \subseteq Users
  BY DEF Users
<1>4. CASE op[c] = None
  BY <1>2, <1>3, <1>4 DEF PortsAt, PortsAtRest
<1>5. CASE op[c] # None
  <2>1. {op[c].old, op[c].new} \subseteq Users
    BY <1>1, <1>5 DEF Users
  <2>2. QED
    BY <1>2, <1>3, <1>5, <2>1 DEF PortsAt, PortsInCall, Own
<1>6. QED
  BY <1>4, <1>5

\* With one call at a time, whatever fails short of the service manager and the database,
\* every port that was handed out is the session's, the service's, or in the hands of the
\* call that will release it.
THEOREM EveryPortHasAUser == OneCaller => (Spec => []NoPortLost)
<1>1. Init => PortInv
  BY DEF Init, PortInv, PortsAt, PortsAtRest, Watched
<1>2. OneCaller /\ TypeInv /\ PortInv /\ [Next]_vars => (TypeInv /\ PortInv)'
  BY TypeStep, PortStep
<1>3. OneCaller /\ TypeInv /\ PortInv => NoPortLost
  BY PortsHaveUsers
<1>4. (OneCaller)' <=> OneCaller
  BY DEF OneCaller
<1>5. QED
  BY <1>1, <1>2, <1>3, <1>4, TypeInit, PTL DEF Spec
=============================================================================
