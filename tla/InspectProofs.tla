---------------------------- MODULE InspectProofs ----------------------------
(***************************************************************************)
(* What is proved of Inspect for every set of services and every bound:    *)
(* with any overlap the types, and that a route which points at a tap is   *)
(* remembered; where what people do does not overlap with the app's own    *)
(* tasks, whose service comes back and what a settled pause shows.         *)
(***************************************************************************)
EXTENDS Inspect, TLAPS

-----------------------------------------------------------------------------
(* What a task is in the middle of, place by place                         *)

OnPlaces == {"plan", "prepare", "record", "point", "unrecord", "unrecordGone", "mark", "save",
             "show", "serving", "sync", "guard"}
OffPlaces == {"find", "look", "lapse", "refind", "relook", "relapse", "back", "clear"}
RowPlaces == {"record", "point", "look", "lapse", "relook", "relapse", "back", "clear"}
OnKinds == {"on", "pause"}

Placed(o) ==
  /\ o.at \in OnPlaces => o.kind \in OnKinds
  /\ o.at \in OffPlaces => o.kind \notin OnKinds
  /\ o.at = "review" => o.kind # "pause"
  /\ o.at \in RowPlaces => o.row # None

Placeds == {o \in Ops : Placed(o)} \cup {None}
TypeInv == TypeOK /\ op \in [Slots -> Placeds]

With(o, x, plan, r) == [at |-> x, kind |-> o.kind, plan |-> plan, row |-> r, tail |-> o.tail]

\* One task moves to o (or is over), the others stay; the route may change under them.
Same(u) ==
  IF op[u] = None THEN op'[u] = None
  ELSE /\ op'[u] # None
       /\ op'[u].at = op[u].at /\ op'[u].kind = op[u].kind /\ op'[u].row = op[u].row
Moves(s, o) ==
  /\ op' \in [Slots -> Placeds]
  /\ op'[s] = o
  /\ \A u \in Slots \ {s} : Same(u)

LEMMA CallType ==
  ASSUME TypeInv, NEW s \in Slots, op[s] # None
  PROVE  op[s] \in Ops /\ Placed(op[s])
BY DEF TypeInv, Placeds

LEMMA WithType ==
  ASSUME NEW o \in Ops, NEW x \in Places, NEW plan \in Changes \cup {None},
         NEW r \in Rows \cup {None}
  PROVE  /\ With(o, x, plan, r) \in Ops
         /\ With(o, x, plan, r).at = x /\ With(o, x, plan, r).kind = o.kind
         /\ With(o, x, plan, r).row = r
BY DEF With, Ops

LEMMA NewType ==
  ASSUME NEW x \in Places, NEW kind \in Kinds, NEW tail \in BOOLEAN
  PROVE  /\ NewOp(x, kind, tail) \in Ops
         /\ NewOp(x, kind, tail).at = x /\ NewOp(x, kind, tail).kind = kind
         /\ NewOp(x, kind, tail).row = None
BY DEF NewOp, Ops

LEMMA MoveIs ==
  ASSUME TypeInv, NEW s \in Slots, NEW o \in Placeds, op' = [op EXCEPT ![s] = o]
  PROVE  Moves(s, o)
BY DEF TypeInv, Moves, Same

LEMMA GotoIs ==
  ASSUME TypeInv, NEW s \in Slots, op[s] # None, NEW x \in Places, Goto(s, x),
         Placed(With(op[s], x, op[s].plan, op[s].row))
  PROVE  Moves(s, With(op[s], x, op[s].plan, op[s].row))
<1> DEFINE o == With(op[s], x, op[s].plan, op[s].row)
<1>1. op[s] \in Ops
  BY CallType
<1>2. [op[s] EXCEPT !.at = x] = o
  BY <1>1 DEF With, Ops
<1>3. op' = [op EXCEPT ![s] = o]
  BY <1>2 DEF Goto
<1>4. o \in Placeds
  BY <1>1, WithType DEF Placeds, Ops
<1> HIDE DEF o
<1>5. Moves(s, o)
  BY <1>3, <1>4, MoveIs
<1>6. QED
  BY <1>5 DEF o

\* Where a task goes at its end: out of the process, to look at what it did, or away.
EndOf(s, o) ==
  \/ o = None
  \/ /\ o \in Placeds \ {None}
     /\ o.at \in {"exit", "check"} /\ o.kind = op[s].kind /\ o.row = op[s].row

LEMMA EndedIs ==
  ASSUME TypeInv, NEW s \in Slots, op[s] # None
  PROVE  EndOf(s, Ended(s)) /\ Ended(s) \in Placeds
<1>1. op[s] \in Ops
  BY CallType
<1>2. \A x \in {"exit", "check"} :
        [op[s] EXCEPT !.at = x] = With(op[s], x, op[s].plan, op[s].row)
  BY <1>1 DEF With, Ops
<1>3. \A x \in {"exit", "check"} :
        LET o == With(op[s], x, op[s].plan, op[s].row) IN
        /\ o \in Ops /\ o.at = x /\ o.kind = op[s].kind /\ o.row = op[s].row
  BY <1>1 DEF With, Ops, Places
<1>4. \A x \in {"exit", "check"} :
        LET o == With(op[s], x, op[s].plan, op[s].row) IN o \in Placeds
  BY <1>3 DEF Placeds, Placed, OnPlaces, OffPlaces, RowPlaces
<1>5. \A x \in {"exit", "check"} :
        LET o == With(op[s], x, op[s].plan, op[s].row) IN EndOf(s, o)
  BY <1>3, <1>4 DEF EndOf
<1>6. None \in Placeds /\ EndOf(s, None)
  BY DEF Placeds, EndOf
<1>7. QED
  BY <1>2, <1>4, <1>5, <1>6 DEF Ended

LEMMA FinishIs ==
  ASSUME TypeInv, NEW s \in Slots, op[s] # None, Finish(s)
  PROVE  Moves(s, Ended(s)) /\ EndOf(s, Ended(s))
BY EndedIs, MoveIs DEF Finish

LEMMA OutdatedIs ==
  ASSUME TypeInv, NEW u \in Slots
  PROVE  /\ Outdated(u) \in Placeds
         /\ op[u] = None => Outdated(u) = None
         /\ op[u] # None => /\ Outdated(u) # None
                            /\ Outdated(u).at = op[u].at /\ Outdated(u).kind = op[u].kind
                            /\ Outdated(u).row = op[u].row
<1>1. CASE op[u] = None
  BY <1>1 DEF Outdated, Placeds
<1>2. CASE op[u] # None
  <2> DEFINE o == With(op[u], op[u].at, None, op[u].row)
  <2>1. op[u] \in Ops /\ Placed(op[u])
    BY <1>2, CallType
  <2>2. [op[u] EXCEPT !.plan = None] = o
    BY <2>1 DEF With, Ops
  <2>3. /\ o \in Ops /\ o.at = op[u].at /\ o.kind = op[u].kind /\ o.row = op[u].row
    BY <2>1 DEF With, Ops
  <2>4. Outdated(u) = o
    BY <1>2, <2>2 DEF Outdated
  <2> HIDE DEF o
  <2>5. o # None
    BY <2>3, NoneAssumption
  <2>6. QED
    BY <1>2, <2>1, <2>3, <2>4, <2>5 DEF Placeds, Placed
<1>3. QED
  BY <1>1, <1>2

LEMMA ChangeIs ==
  ASSUME TypeInv, NEW s \in Slots, NEW v, NEW o \in Placeds, Change(v, s, o)
  PROVE  route' = v /\ Moves(s, o)
<1>1. route' = v /\ op' = [u \in Slots |-> IF u = s THEN o ELSE Outdated(u)]
  BY DEF Change
<1>2. op'[s] = o /\ \A u \in Slots \ {s} : op'[u] = Outdated(u)
  BY <1>1
<1>3. \A u \in Slots \ {s} : Same(u)
  BY <1>2, OutdatedIs DEF Same
<1>4. op' \in [Slots -> Placeds]
  BY <1>1, OutdatedIs
<1>5. QED
  BY <1>1, <1>2, <1>3, <1>4 DEF Moves

-----------------------------------------------------------------------------
(* What each task knows, and what is remembered                            *)

Clean == odd \cap {"lost", "stacked", "raced"} = {}
Lone == \A s, u \in Slots : Busy(s) /\ Busy(u) => s = u
Remembered ==
  /\ route \in Urls => row # None /\ row.url = route
  /\ row # None => row.original \notin Urls
Knows(s) ==
  op[s] # None =>
    /\ op[s].at \in RowPlaces \ {"record"} => row = op[s].row
    /\ op[s].at \in {"point", "unrecord", "unrecordGone", "lapse", "relapse", "clear"} =>
         route \notin Urls
    /\ op[s].at = "record" /\ route \in Urls => op[s].row.original = route
WayBackInv == Clean => Lone /\ Remembered /\ \A s \in Slots : Knows(s)

LEMMA SameKnows ==
  ASSUME NEW u \in Slots, Same(u), Knows(u), row' = row, route' = route \/ route' \notin Urls
  PROVE  Knows(u)'
BY DEF Same, Knows, Urls

LEMMA SameIdle ==
  ASSUME NEW u \in Slots, Same(u), ~Busy(u)
  PROVE  ~Busy(u)' /\ Knows(u)'
BY DEF Same, Knows, Busy, RowPlaces

\* A task that is between two calls moves on: it is alone.
LEMMA StepKeeps ==
  ASSUME WayBackInv, NEW s \in Slots, Busy(s), NEW o, Moves(s, o), odd \subseteq odd',
         Clean' => Remembered' /\ Knows(s)'
  PROVE  WayBackInv'
<1> SUFFICES ASSUME Clean' PROVE Lone' /\ Remembered' /\ \A u \in Slots : Knows(u)'
  BY DEF WayBackInv
<1>1. Lone
  BY DEF WayBackInv, Clean
<1>2. \A u \in Slots \ {s} : ~Busy(u)' /\ Knows(u)'
  BY <1>1, SameIdle DEF Lone, Moves
<1>3. QED
  BY <1>2 DEF Lone

\* A task begins something, or comes to its end, and touches nothing yet.
LEMMA BeginKeeps ==
  ASSUME WayBackInv, NEW s \in Slots, ~Busy(s), NEW o, Moves(s, o), Begun(s) \subseteq odd',
         UNCHANGED <<route, row>>, o # None => o.at \notin RowPlaces \cup {"unrecord", "unrecordGone"}
  PROVE  WayBackInv'
<1> SUFFICES ASSUME Clean' PROVE Lone' /\ Remembered' /\ \A u \in Slots : Knows(u)'
  BY DEF WayBackInv
<1>1. Clean /\ (op'[s] = None \/ \A u \in Slots \ {s} : ~Busy(u))
  BY DEF Begun, Clean
<1>2. Lone /\ Remembered /\ \A u \in Slots : Knows(u)
  BY <1>1 DEF WayBackInv
<1>3. \A u \in Slots \ {s} : Same(u) /\ Knows(u)'
  BY <1>2, SameKnows DEF Moves
<1>4. \A u \in Slots \ {s} : Busy(u)' => Busy(u)
  BY <1>3, SameIdle
<1>5. Lone'
  <2>1. CASE op'[s] = None
    BY <1>2, <1>4, <2>1 DEF Lone, Busy
  <2>2. CASE \A u \in Slots \ {s} : ~Busy(u)
    BY <1>4, <2>2 DEF Lone
  <2>3. QED
    BY <1>1, <2>1, <2>2
<1>6. Remembered'
  BY <1>2 DEF Remembered, Urls
<1>7. Knows(s)'
  BY DEF Knows, Moves, RowPlaces
<1>8. QED
  BY <1>3, <1>5, <1>6, <1>7

\* Tasks stay or are gone; the route stays, or has a service of the user's.
LEMMA RestKeeps ==
  ASSUME WayBackInv, \A u \in Slots : op'[u] = None \/ Same(u), odd \subseteq odd', row' = row,
         route' = route \/ route' \notin Urls
  PROVE  WayBackInv'
<1> SUFFICES ASSUME Clean' PROVE Lone' /\ Remembered' /\ \A u \in Slots : Knows(u)'
  BY DEF WayBackInv
<1>1. Lone /\ Remembered /\ \A u \in Slots : Knows(u)
  BY DEF WayBackInv, Clean
<1>2. \A u \in Slots : Knows(u)' /\ (Busy(u)' => Busy(u))
  <2> TAKE u \in Slots
  <2>1. CASE op'[u] = None
    BY <2>1 DEF Knows, Busy
  <2>2. CASE Same(u)
    BY <1>1, <2>2, SameKnows, SameIdle
  <2>3. QED
    BY <2>1, <2>2
<1>3. Lone'
  BY <1>1, <1>2 DEF Lone
<1>4. Remembered'
  BY <1>1 DEF Remembered, Urls
<1>5. QED
  BY <1>2, <1>3, <1>4

-----------------------------------------------------------------------------
(* The steps: pointing the route at a tap                                  *)

LEMMA BusyIs ==
  ASSUME NEW s \in Slots, NEW x, At(s, x), x \notin {"review", "serving"}
  PROVE  op[s] # None /\ op[s].at = x /\ Busy(s)
BY DEF At, Busy

LEMMA SlotType ==
  ASSUME NEW s \in Slots PROVE ProcOf(s) \in Procs
BY DEF ProcOf, Procs

LEMMA FaultType ==
  ASSUME TypeInv PROVE Fault \/ NoFault \/ Trouble => trouble' \in Nat
BY DEF Fault, NoFault, Trouble, TypeInv, TypeOK

LEMMA OddType ==
  ASSUME TypeInv, NEW why
  PROVE  Odd(why) => odd \subseteq odd' /\ why \in odd' /\ (why \in Oddities => odd' \subseteq Oddities)
BY DEF Odd, TypeInv, TypeOK

LEMMA BegunType ==
  ASSUME TypeInv, NEW s PROVE Begun(s) \subseteq Oddities /\ odd \subseteq Begun(s)
BY DEF Begun, Oddities, TypeInv, TypeOK

LEMMA StopType ==
  ASSUME TypeInv, NEW p
  PROVE  StopTap(p) \/ UNCHANGED tap => tap' \in [Procs -> Taps \cup {None}]
BY DEF StopTap, TypeInv, TypeOK

LEMMA HereIs ==
  ASSUME TypeInv, NEW p \in Procs, tap[p] # None
  PROVE  Here(p) \in Urls
BY DEF Here, Urls, Taps, TypeInv, TypeOK

LEMMA EnsureIs ==
  ASSUME TypeInv, NEW p \in Procs, EnsureTap(p), route \in Targets
  PROVE  tap' \in [Procs -> Taps \cup {None}] /\ Here(p)' \in Urls
<1>1. CASE tap[p] # None
  <2>1. tap' = tap
    BY <1>1 DEF EnsureTap
  <2>2. QED
    BY <1>1, <2>1, HereIs DEF Here, TypeInv, TypeOK
<1>2. CASE tap[p] = None
  <2>1. PICK n \in 1..MaxTaps :
           tap' = [tap EXCEPT ![p] = [n |-> n, to |-> route, paused |-> FALSE]]
    BY <1>2 DEF EnsureTap
  <2> DEFINE t == [n |-> n, to |-> route, paused |-> FALSE]
  <2>2. t \in Taps /\ t.n = n
    BY DEF Taps
  <2>3. tap' \in [Procs -> Taps \cup {None}] /\ tap'[p] = t
    BY <2>1, <2>2 DEF TypeInv, TypeOK
  <2> HIDE DEF t
  <2>4. tap'[p] # None
    BY <2>2, <2>3, NoneAssumption
  <2>5. QED
    BY <2>2, <2>3, <2>4 DEF Here, Urls
<1>3. QED
  BY <1>1, <1>2

LEMMA WebTargets ==
  ASSUME NEW p, ~Refuses(p) PROVE route \in Targets
BY InspectAssumption DEF Refuses, NotWeb, Targets

\* A step of a task that leaves the route, the row and the oddities, and asks for nothing.
LEMMA RefuseIs ==
  ASSUME TypeInv, NEW s \in Slots, op[s] # None, Refuse(s)
  PROVE  /\ Moves(s, Ended(s)) /\ EndOf(s, Ended(s))
         /\ pause' \in Pauses /\ trouble' \in Nat
<1>1. Finish(s) /\ (Fault \/ NoFault)
  BY DEF Refuse
<1>2. pause' \in Pauses
  BY DEF Refuse, Pauses, TypeInv, TypeOK
<1>3. QED
  BY <1>1, <1>2, FinishIs, FaultType

\* Where a task has nothing to know.
LEMMA NothingKnown ==
  ASSUME NEW s \in Slots, NEW o, Moves(s, o),
         o # None => o.at \notin RowPlaces \cup {"unrecord", "unrecordGone"}
  PROVE  Knows(s)'
BY DEF Moves, Knows, RowPlaces

LEMMA EndKnows ==
  ASSUME NEW s \in Slots, NEW o, Moves(s, o), EndOf(s, o)
  PROVE  Knows(s)'
BY NothingKnown DEF EndOf, RowPlaces

LEMMA StayRemembered ==
  ASSUME Remembered, UNCHANGED <<route, row>> PROVE Remembered'
BY DEF Remembered, Urls

LEMMA BusyKnows ==
  ASSUME WayBackInv, NEW s \in Slots, odd \subseteq odd', Clean'
  PROVE  Clean /\ Lone /\ Remembered /\ Knows(s)
BY DEF WayBackInv, Clean

\* A step of a busy task that leaves the route and the row, and knows nothing after it.
LEMMA PlainKeeps ==
  ASSUME NEW s \in Slots, Busy(s), NEW o, Moves(s, o), odd \subseteq odd',
         UNCHANGED <<route, row>>,
         o # None => o.at \notin RowPlaces \cup {"unrecord", "unrecordGone"}
  PROVE  WayBackInv => WayBackInv'
<1> SUFFICES ASSUME WayBackInv PROVE WayBackInv'
  OBVIOUS
<1>1. Clean' => Remembered' /\ Knows(s)'
  BY BusyKnows, StayRemembered, NothingKnown
<1>2. QED
  BY <1>1, StepKeeps

LEMMA PlanOnStep ==
  ASSUME TypeInv, NEW s \in Slots, PlanOn(s)
  PROVE  TypeInv' /\ (WayBackInv => WayBackInv')
<1> DEFINE p == ProcOf(s)
<1>1. op[s] # None /\ op[s].at = "plan" /\ Busy(s) /\ op[s] \in Ops /\ Placed(op[s]) /\ p \in Procs
  BY BusyIs, CallType, SlotType DEF PlanOn
<1>2. /\ tap' \in [Procs -> Taps \cup {None}] /\ pause' \in Pauses /\ trouble' \in Nat
      /\ odd \subseteq odd' /\ odd' \subseteq Oddities
      /\ \E o : Moves(s, o) /\ (o # None => o.at \in {"review", "prepare", "exit", "check"})
  <2>1. CASE /\ ~Refuses(p) /\ EnsureTap(p)
             /\ op' = [op EXCEPT ![s].plan = [from |-> route, to |-> Here(p)'],
                                 ![s].at = IF op[s].kind = "on" THEN "review" ELSE "prepare"]
             /\ UNCHANGED <<odd, trouble, pause>>
    <3>1. route \in Targets /\ tap' \in [Procs -> Taps \cup {None}] /\ Here(p)' \in Urls
      BY <1>1, <2>1, WebTargets, EnsureIs
    <3> DEFINE x == IF op[s].kind = "on" THEN "review" ELSE "prepare"
               plan == [from |-> route, to |-> Here(p)']
               o == With(op[s], x, plan, op[s].row)
    <3>2. plan \in Changes /\ x \in Places
      BY <3>1 DEF Changes, Targets, Places
    <3> HIDE DEF plan
    <3>3. o \in Ops /\ o.at = x /\ o.kind = op[s].kind
      BY <1>1, <3>2 DEF With, Ops
    <3>4. o \in Placeds
      BY <1>1, <3>3 DEF Placeds, Placed, OnPlaces, OffPlaces, RowPlaces, OnKinds
    <3>5. op'[s] = o
      BY <1>1, <2>1 DEF With, Ops, plan, TypeInv
    <3>6. op' = [op EXCEPT ![s] = op'[s]]
      BY <2>1 DEF TypeInv
    <3> HIDE DEF o
    <3>7. Moves(s, o)
      BY <3>4, <3>5, <3>6, MoveIs
    <3>8. QED
      BY <2>1, <3>1, <3>3, <3>7 DEF TypeInv, TypeOK
  <2>2. CASE ~Refuses(p) /\ EnsureTap(p) /\ Fault /\ Finish(s) /\ Odd("astray") /\ UNCHANGED pause
    <3>1. tap' \in [Procs -> Taps \cup {None}]
      BY <1>1, <2>2, WebTargets, EnsureIs
    <3>2. QED
      BY <1>1, <2>2, <3>1, FinishIs, FaultType, OddType DEF EndOf, Oddities, TypeInv, TypeOK
  <2>3. CASE Refuse(s) /\ UNCHANGED <<tap, odd>>
    BY <1>1, <2>3, RefuseIs DEF EndOf, TypeInv, TypeOK
  <2>4. QED
    BY <2>1, <2>2, <2>3 DEF PlanOn
<1>3. UNCHANGED <<route, row, alive, fresh, applied, asks, own>>
  BY DEF PlanOn
<1>4. WayBackInv => WayBackInv'
  BY <1>1, <1>2, <1>3, PlainKeeps DEF RowPlaces
<1>5. QED
  BY <1>2, <1>3, <1>4 DEF Moves, Placeds, TypeInv, TypeOK, Targets, Urls, Procs

LEMMA ReviewStep ==
  ASSUME TypeInv, NEW s \in Slots, Review(s)
  PROVE  TypeInv' /\ (WayBackInv => WayBackInv')
<1>1. op[s] # None /\ op[s].at = "review" /\ ~Busy(s) /\ op[s] \in Ops /\ Placed(op[s])
  BY CallType DEF Review, At, Busy
<1>2. /\ Begun(s) \subseteq odd' /\ odd' \subseteq Oddities
      /\ \E o : Moves(s, o) /\ (o # None => o.at \in {"prepare", "refind", "exit", "check"})
  <2>1. CASE Goto(s, IF op[s].kind = "on" THEN "prepare" ELSE "refind") /\ Begins(s)
    <3> DEFINE x == IF op[s].kind = "on" THEN "prepare" ELSE "refind"
               o == With(op[s], x, op[s].plan, op[s].row)
    <3>1. x \in Places /\ Placed(o) /\ o.at = x
      BY <1>1 DEF Places, Placed, With, Ops, OnPlaces, OffPlaces, RowPlaces, OnKinds, Kinds
    <3>2. Moves(s, o)
      BY <1>1, <2>1, <3>1, GotoIs
    <3>3. QED
      BY <2>1, <3>1, <3>2, BegunType DEF Begins
  <2>2. CASE Finish(s) /\ odd' = Begun(s) \cup IF op[s].kind = "on" THEN {"astray"} ELSE {}
    BY <1>1, <2>2, FinishIs, BegunType DEF EndOf, Oddities
  <2>3. QED
    BY <2>1, <2>2 DEF Review
<1>3. UNCHANGED <<route, row, pause, alive, fresh, tap, applied, budgets, own>>
  BY DEF Review
<1>4. WayBackInv => WayBackInv'
  BY <1>1, <1>2, <1>3, BeginKeeps DEF RowPlaces
<1>5. QED
  BY <1>2, <1>3, <1>4 DEF Moves, Placeds, TypeInv, TypeOK, Targets, Urls, Procs, budgets

LEMMA PrepareStep ==
  ASSUME TypeInv, NEW s \in Slots, Prepare(s)
  PROVE  TypeInv' /\ (WayBackInv => WayBackInv')
<1> DEFINE p == ProcOf(s)
<1>1. op[s] # None /\ op[s].at = "prepare" /\ Busy(s) /\ op[s] \in Ops /\ Placed(op[s]) /\ p \in Procs
  BY BusyIs, CallType, SlotType DEF Prepare
<1>2. UNCHANGED <<route, row, alive, fresh, applied, asks, own>>
  BY DEF Prepare
<1>3. CASE /\ ~Refuses(p) /\ EnsureTap(p)
           /\ op' = [op EXCEPT ![s].row = [original |-> route, url |-> Here(p)', owner |-> p],
                               ![s].at = "record"]
           /\ UNCHANGED <<pause, odd, trouble>>
  <2> DEFINE r == [original |-> route, url |-> Here(p)', owner |-> p]
             o == With(op[s], "record", op[s].plan, r)
  <2>1. route \in Targets /\ tap' \in [Procs -> Taps \cup {None}] /\ Here(p)' \in Urls
    BY <1>1, <1>3, WebTargets, EnsureIs
  <2>2. r \in Rows /\ r.original = route
    BY <1>1, <2>1 DEF Rows
  <2> HIDE DEF r
  <2>3. o \in Ops /\ o.at = "record" /\ o.kind = op[s].kind /\ o.row = r
    BY <1>1, <2>2 DEF With, Ops, Places
  <2>4. o \in Placeds
    BY <1>1, <2>2, <2>3, NoneAssumption DEF Placeds, Placed, OnPlaces, OffPlaces, RowPlaces, OnKinds
  <2>5. op'[s] = o
    BY <1>1, <1>3 DEF With, Ops, r, TypeInv
  <2>6. op' = [op EXCEPT ![s] = op'[s]]
    BY <1>3 DEF TypeInv
  <2> HIDE DEF o
  <2>7. Moves(s, o)
    BY <2>4, <2>5, <2>6, MoveIs
  <2>8. Knows(s)'
    BY <1>2, <2>2, <2>3, <2>5 DEF Knows, RowPlaces
  <2>9. WayBackInv => WayBackInv'
    BY <1>1, <1>2, <1>3, <2>7, <2>8, BusyKnows, StayRemembered, StepKeeps
  <2>10. QED
    BY <1>2, <1>3, <2>1, <2>7, <2>9 DEF Moves, Placeds, TypeInv, TypeOK, Targets, Urls, Procs
<1>4. CASE Refuse(s) /\ Odd("astray") /\ UNCHANGED tap
  <2>1. /\ Moves(s, Ended(s)) /\ EndOf(s, Ended(s)) /\ pause' \in Pauses /\ trouble' \in Nat
        /\ odd \subseteq odd' /\ odd' \subseteq Oddities
    BY <1>1, <1>4, RefuseIs, OddType DEF Oddities
  <2>2. WayBackInv => WayBackInv'
    BY <1>1, <1>2, <2>1, PlainKeeps DEF EndOf, RowPlaces
  <2>3. QED
    BY <1>2, <1>4, <2>1, <2>2 DEF Moves, Placeds, TypeInv, TypeOK, Targets, Urls, Procs
<1>5. QED
  BY <1>3, <1>4 DEF Prepare

LEMMA RecordStep ==
  ASSUME TypeInv, NEW s \in Slots, Record(s)
  PROVE  TypeInv' /\ (WayBackInv => WayBackInv')
<1> DEFINE o == With(op[s], "point", op[s].plan, op[s].row)
<1>1. /\ op[s] # None /\ op[s].at = "record" /\ Busy(s) /\ op[s] \in Ops /\ Placed(op[s])
      /\ op[s].row \in Rows /\ op[s].row # None
  BY BusyIs, CallType DEF Record, Placed, RowPlaces, Ops
<1>2. /\ row' = op[s].row /\ Goto(s, "point")
      /\ IF op[s].row.original \in Urls THEN Odd("stacked") ELSE UNCHANGED odd
      /\ UNCHANGED <<route, pause, alive, fresh, tap, applied, budgets, own>>
  BY DEF Record
<1>3. o \in Ops /\ o.at = "point" /\ o.kind = op[s].kind /\ o.row = op[s].row
  BY <1>1 DEF With, Ops, Places
<1>4. Placed(o)
  BY <1>1, <1>3 DEF Placed, OnPlaces, OffPlaces, RowPlaces, OnKinds
<1>5. Moves(s, o) /\ op'[s] = o
  BY <1>1, <1>2, <1>4, GotoIs DEF Places, Moves
<1> HIDE DEF o
<1>6. odd \subseteq odd' /\ odd' \subseteq Oddities
  BY <1>2, OddType DEF Oddities, TypeInv, TypeOK
<1>7. ASSUME WayBackInv PROVE WayBackInv'
  <2>1. ASSUME Clean' PROVE Remembered' /\ Knows(s)'
    <3>1. Clean /\ Remembered /\ Knows(s)
      BY <1>1, <1>6, <1>7, <2>1, BusyKnows
    <3>2. op[s].row.original \notin Urls
      BY <1>2, <2>1, OddType DEF Clean
    <3>3. route \notin Urls
      BY <1>1, <3>1, <3>2 DEF Knows
    <3>4. QED
      BY <1>1, <1>2, <1>3, <1>5, <3>2, <3>3 DEF Remembered, Knows, Urls
  <2>2. QED
    BY <1>1, <1>5, <1>6, <1>7, <2>1, StepKeeps
<1>8. QED
  BY <1>1, <1>2, <1>5, <1>6, <1>7 DEF Moves, Placeds, TypeInv, TypeOK, Targets, Urls, Procs, budgets

\* What a change of the route makes of it.
LEMMA ToIs ==
  ASSUME TypeInv, NEW s \in Slots, op[s] # None, op[s].row # None
  PROVE  /\ To(s) \in Targets
         /\ op[s].kind \in OnKinds => To(s) = op[s].row.url
         /\ op[s].kind \notin OnKinds => To(s) = op[s].row.original
BY CallType DEF To, OnKinds, Ops, Rows, Targets

LEMMA PointedIs ==
  ASSUME TypeInv, NEW s \in Slots, op[s] # None, op[s].kind \in OnKinds
  PROVE  Pointed(s) \in Placeds /\ (Pointed(s) # None => Pointed(s).at \in {"serving", "mark"})
<1> DEFINE o(x) == With(op[s], x, op[s].plan, op[s].row)
<1>1. op[s] \in Ops
  BY CallType
<1>2. \A x \in {"serving", "mark"} :
        /\ [op[s] EXCEPT !.at = x] = o(x)
        /\ o(x) \in Ops /\ o(x).at = x /\ o(x).kind = op[s].kind
  BY <1>1 DEF With, Ops, Places
<1>3. \A x \in {"serving", "mark"} : o(x) \in Placeds
  BY <1>2 DEF Placeds, Placed, OnPlaces, OffPlaces, RowPlaces, OnKinds
<1>4. None \in Placeds
  BY DEF Placeds
<1> HIDE DEF o
<1>5. QED
  BY <1>2, <1>3, <1>4 DEF Pointed

LEMMA PointStep ==
  ASSUME TypeInv, NEW s \in Slots, Point(s)
  PROVE  TypeInv' /\ (WayBackInv => WayBackInv')
<1>1. /\ op[s] # None /\ op[s].at = "point" /\ Busy(s) /\ op[s] \in Ops /\ Placed(op[s])
      /\ op[s].row \in Rows /\ op[s].row # None /\ op[s].kind \in OnKinds
  BY BusyIs, CallType DEF Point, Placed, RowPlaces, OnPlaces, Ops
<1>2. UNCHANGED <<row, pause, alive, fresh, tap, applied, asks, own>>
  BY DEF Point
<1>3. CASE Approved(s) /\ Change(To(s), s, Pointed(s)) /\ UNCHANGED <<odd, trouble>>
  <2>1. /\ To(s) \in Targets /\ To(s) = op[s].row.url
        /\ Pointed(s) \in Placeds /\ (Pointed(s) # None => Pointed(s).at \in {"serving", "mark"})
    BY <1>1, ToIs, PointedIs
  <2>2. route' = To(s) /\ Moves(s, Pointed(s))
    BY <1>1, <1>3, <2>1, ChangeIs
  <2>3. ASSUME WayBackInv PROVE WayBackInv'
    <3>1. ASSUME Clean' PROVE Remembered' /\ Knows(s)'
      <4>1. Remembered /\ row = op[s].row
        BY <1>1, <1>3, <2>3, <3>1, BusyKnows DEF Knows, RowPlaces
      <4>2. Remembered'
        BY <1>1, <1>2, <2>1, <2>2, <4>1 DEF Remembered, Urls
      <4>3. QED
        BY <2>1, <2>2, <4>2, NothingKnown DEF RowPlaces
    <3>2. QED
      BY <1>1, <1>3, <2>2, <2>3, <3>1, StepKeeps
  <2>4. QED
    BY <1>2, <1>3, <2>1, <2>2, <2>3 DEF Moves, Placeds, TypeInv, TypeOK, Targets, Urls, Procs
<1>4. CASE /\ Declined(s)
           /\ Goto(s, IF route = None THEN "unrecordGone" ELSE "unrecord")
           /\ UNCHANGED <<route, odd>>
  <2> DEFINE x == IF route = None THEN "unrecordGone" ELSE "unrecord"
             o == With(op[s], x, op[s].plan, op[s].row)
  <2>1. x \in Places /\ o.at = x /\ Placed(o)
    BY <1>1 DEF With, Ops, Places, Placed, OnPlaces, OffPlaces, RowPlaces, OnKinds
  <2>2. Moves(s, o) /\ op'[s] = o
    BY <1>1, <1>4, <2>1, GotoIs DEF Moves
  <2> HIDE DEF o
  <2>3. ASSUME WayBackInv PROVE WayBackInv'
    <3>1. ASSUME Clean' PROVE Remembered' /\ Knows(s)'
      <4>1. Remembered /\ route \notin Urls
        BY <1>1, <1>4, <2>3, <3>1, BusyKnows DEF Knows
      <4>2. QED
        BY <1>2, <1>4, <2>1, <2>2, <4>1, StayRemembered DEF Knows, RowPlaces, Urls
    <3>2. QED
      BY <1>1, <1>4, <2>2, <2>3, <3>1, StepKeeps
  <2>4. trouble' \in Nat
    BY <1>4, FaultType DEF Declined
  <2>5. QED
    BY <1>2, <1>4, <2>2, <2>3, <2>4 DEF Moves, Placeds, TypeInv, TypeOK, Targets, Urls, Procs
<1>5. CASE /\ Approved(s) /\ Fault
           /\ Change(To(s), s, [op[s] EXCEPT !.at = "unrecord"])
           /\ Odd("lost")
  <2> DEFINE o == With(op[s], "unrecord", op[s].plan, op[s].row)
  <2>1. [op[s] EXCEPT !.at = "unrecord"] = o /\ o.at = "unrecord" /\ o.kind = op[s].kind /\ o \in Ops
    BY <1>1 DEF With, Ops, Places
  <2>2. o \in Placeds
    BY <1>1, <2>1 DEF Placeds, Placed, OnPlaces, OffPlaces, RowPlaces, OnKinds
  <2> HIDE DEF o
  <2>3. route' = To(s) /\ To(s) \in Targets /\ Moves(s, o)
    BY <1>1, <1>5, <2>1, <2>2, ToIs, ChangeIs
  <2>4. odd' \subseteq Oddities /\ "lost" \in odd' /\ trouble' \in Nat
    BY <1>5, OddType, FaultType DEF Oddities
  <2>5. WayBackInv'
    BY <2>4 DEF WayBackInv, Clean
  <2>6. QED
    BY <1>2, <2>3, <2>4, <2>5 DEF Moves, Placeds, TypeInv, TypeOK, Targets, Urls, Procs
<1>6. QED
  BY <1>3, <1>4, <1>5 DEF Point

LEMMA UnrecordStep ==
  ASSUME TypeInv, NEW s \in Slots, Unrecord(s)
  PROVE  TypeInv' /\ (WayBackInv => WayBackInv')
<1>1. op[s] # None /\ op[s].at \in {"unrecord", "unrecordGone"} /\ Busy(s)
  BY BusyIs DEF Unrecord
<1>2. row' = None /\ StopTap(ProcOf(s)) /\ Finish(s) /\ UNCHANGED <<route, alive, fresh, applied, budgets, own, odd>>
  BY DEF Unrecord
<1>3. Moves(s, Ended(s)) /\ EndOf(s, Ended(s))
  BY <1>1, <1>2, FinishIs
<1>4. pause' \in Pauses /\ tap' \in [Procs -> Taps \cup {None}]
  BY <1>2, StopType DEF Unrecord, Pauses, TypeInv, TypeOK
<1>5. ASSUME WayBackInv PROVE WayBackInv'
  <2>1. ASSUME Clean' PROVE Remembered' /\ Knows(s)'
    <3>1. route \notin Urls
      BY <1>1, <1>2, <1>5, <2>1, BusyKnows DEF Knows
    <3>2. QED
      BY <1>2, <1>3, <3>1, EndKnows DEF Remembered, Urls
  <2>2. QED
    BY <1>1, <1>2, <1>3, <1>5, <2>1, StepKeeps
<1>6. QED
  BY <1>2, <1>3, <1>4, <1>5 DEF Moves, Placeds, TypeInv, TypeOK, Targets, Urls, Procs, budgets

-----------------------------------------------------------------------------
(* The steps: pausing                                                      *)

LEMMA ShowType ==
  ASSUME TypeInv, NEW p \in Procs, tap[p] # None, NEW on \in BOOLEAN, ShowPaused(p, on)
  PROVE  tap' \in [Procs -> Taps \cup {None}]
<1> DEFINE t == [n |-> tap[p].n, to |-> tap[p].to, paused |-> on]
<1>1. tap[p] \in Taps
  BY DEF TypeInv, TypeOK
<1>2. [tap[p] EXCEPT !.paused = on] = t /\ t \in Taps
  BY <1>1 DEF Taps
<1>3. tap' = [tap EXCEPT ![p] = t]
  BY <1>2 DEF ShowPaused
<1> HIDE DEF t
<1>4. QED
  BY <1>2, <1>3 DEF TypeInv, TypeOK

LEMMA NewIs ==
  ASSUME TypeInv, NEW s \in Slots, NEW x \in Places, NEW kind \in Kinds, NEW tail \in BOOLEAN,
         op' = [op EXCEPT ![s] = NewOp(x, kind, tail)], x \notin RowPlaces,
         x \in OnPlaces => kind \in OnKinds, x \in OffPlaces => kind \notin OnKinds,
         x # "review"
  PROVE  Moves(s, NewOp(x, kind, tail)) /\ NewOp(x, kind, tail).at = x
<1> DEFINE o == NewOp(x, kind, tail)
<1>1. o \in Ops /\ o.at = x /\ o.kind = kind
  BY NewType
<1> HIDE DEF o
<1>2. o \in Placeds
  BY <1>1 DEF Placeds, Placed
<1>3. op' = [op EXCEPT ![s] = o]
  BY DEF o
<1>4. Moves(s, o)
  BY <1>2, <1>3, MoveIs
<1>5. QED
  BY <1>1, <1>4 DEF o

\* A task is over.
LEMMA OverIs ==
  ASSUME TypeInv, NEW s \in Slots, op' = [op EXCEPT ![s] = None]
  PROVE  Moves(s, None)
BY MoveIs DEF Placeds

LEMMA SyncStep ==
  ASSUME TypeInv, NEW s \in Slots, Sync(s)
  PROVE  TypeInv' /\ (WayBackInv => WayBackInv')
<1> DEFINE tail == op[s] # None /\ op[s].tail
           Return == op' = [op EXCEPT ![s] = IF tail THEN NewOp("check", "pause", TRUE) ELSE None]
           Start(at, kind) == op' = [op EXCEPT ![s] = NewOp(at, kind, tail)]
<1>1. tail \in BOOLEAN
  BY CallType DEF Ops
<1>2. Return => \E o : Moves(s, o) /\ (o # None => o.at \in {"check", "guard", "find"})
  <2>1. CASE tail /\ Return
    <3>1. op' = [op EXCEPT ![s] = NewOp("check", "pause", TRUE)]
      BY <2>1
    <3>2. "check" \in Places /\ "pause" \in Kinds /\ "check" \notin OnPlaces \cup OffPlaces \cup RowPlaces
      BY DEF Places, Kinds, OnPlaces, OffPlaces, RowPlaces
    <3>3. Moves(s, NewOp("check", "pause", TRUE)) /\ NewOp("check", "pause", TRUE).at = "check"
      BY <3>1, <3>2, NewIs
    <3>4. QED
      BY <3>3
  <2>2. CASE ~tail /\ Return
    <3>1. op' = [op EXCEPT ![s] = None]
      BY <2>2
    <3>2. QED
      BY <3>1, OverIs
  <2>3. QED
    BY <2>1, <2>2
<1> HIDE DEF tail
<1>3. Start("guard", "pause") => \E o : Moves(s, o) /\ (o # None => o.at \in {"check", "guard", "find"})
  <2>1. /\ "guard" \in Places \ RowPlaces /\ "pause" \in Kinds
        /\ "guard" \in OnPlaces => "pause" \in OnKinds
        /\ "guard" \in OffPlaces => "pause" \notin OnKinds
    BY DEF Places, Kinds, OnPlaces, OffPlaces, RowPlaces, OnKinds
  <2>2. ASSUME NEW t \in BOOLEAN, op' = [op EXCEPT ![s] = NewOp("guard", "pause", t)]
        PROVE  Moves(s, NewOp("guard", "pause", t)) /\ NewOp("guard", "pause", t).at = "guard"
    BY <2>1, <2>2, NewIs
  <2>3. Start("guard", "pause") => Moves(s, NewOp("guard", "pause", tail)) /\ NewOp("guard", "pause", tail).at = "guard"
    BY <1>1, <2>2, Zenon
  <2>4. QED
    BY <2>3
<1>4. Start("find", "resume") => \E o : Moves(s, o) /\ (o # None => o.at \in {"check", "guard", "find"})
  <2>1. /\ "find" \in Places \ RowPlaces /\ "resume" \in Kinds
        /\ "find" \in OnPlaces => "resume" \in OnKinds
        /\ "find" \in OffPlaces => "resume" \notin OnKinds
    BY DEF Places, Kinds, OnPlaces, OffPlaces, RowPlaces, OnKinds
  <2>2. ASSUME NEW t \in BOOLEAN, op' = [op EXCEPT ![s] = NewOp("find", "resume", t)]
        PROVE  Moves(s, NewOp("find", "resume", t)) /\ NewOp("find", "resume", t).at = "find"
    BY <2>1, <2>2, NewIs
  <2>3. Start("find", "resume") => Moves(s, NewOp("find", "resume", tail)) /\ NewOp("find", "resume", tail).at = "find"
    BY <1>1, <2>2, Zenon
  <2>4. QED
    BY <2>3
<1>5. /\ Return \/ Start("guard", "pause") \/ Start("find", "resume")
      /\ Fault \/ NoFault
      /\ tap' \in [Procs -> Taps \cup {None}] /\ applied' \in Pauses
  <2>1. App \in Procs /\ pause \in Pauses /\ tap \in [Procs -> Taps \cup {None}] /\ applied \in Pauses
    BY DEF Procs, TypeInv, TypeOK
  <2>2. CASE /\ tap[App] # None /\ pause # "no"
             /\ ShowPaused(App, TRUE)
             /\ applied' = pause
             /\ Return /\ NoFault
    BY <2>1, <2>2, ShowType
  <2>3. CASE /\ tap[App] = None /\ pause # "no"
             /\ (Start("guard", "pause") /\ NoFault) \/ (Return /\ Fault)
             /\ UNCHANGED <<tap, applied>>
    BY <2>1, <2>3
  <2>4. CASE /\ pause = "no"
             /\ applied' = "no"
             /\ IF tap[App] # None /\ applied # "no" THEN ShowPaused(App, FALSE) ELSE UNCHANGED tap
             /\ IF applied = "via" THEN (Start("find", "resume") /\ NoFault) \/ (Return /\ Fault)
                ELSE Return /\ NoFault
    BY <2>1, <2>4, ShowType DEF Pauses
  <2>5. QED
    BY <2>2, <2>3, <2>4 DEF Sync, tail
<1>6. PICK o : Moves(s, o) /\ (o # None => o.at \in {"check", "guard", "find"})
  BY <1>2, <1>3, <1>4, <1>5
<1>7. odd' = Begun(s) /\ odd' \subseteq Oddities /\ odd \subseteq odd'
      /\ UNCHANGED <<route, row, pause, alive, fresh, asks, own>>
  BY BegunType DEF Sync, Begins
<1>8. trouble' \in Nat
  BY <1>5, FaultType
<1>9. WayBackInv => WayBackInv'
  <2>1. CASE Busy(s)
    BY <1>6, <1>7, <2>1, PlainKeeps DEF RowPlaces
  <2>2. CASE ~Busy(s)
    BY <1>6, <1>7, <2>2, BeginKeeps DEF RowPlaces
  <2>3. QED
    BY <2>1, <2>2
<1>10. QED
  BY <1>5, <1>6, <1>7, <1>8, <1>9 DEF Moves, Placeds, TypeInv, TypeOK, Targets, Urls, Procs

LEMMA PauseStep ==
  ASSUME TypeInv, NEW s \in Slots, Guard(s) \/ Mark(s) \/ Save(s) \/ Show(s) \/ Check(s)
  PROVE  TypeInv' /\ (WayBackInv => WayBackInv')
<1> DEFINE o(x) == With(op[s], x, op[s].plan, op[s].row)
<1>1. /\ op[s] # None /\ op[s].at \in {"guard", "mark", "save", "show", "check"} /\ Busy(s)
      /\ op[s] \in Ops /\ Placed(op[s])
      /\ op[s].at # "check" => op[s].kind \in OnKinds
  BY BusyIs, CallType DEF Guard, Mark, Save, Show, Check, Placed, OnPlaces
<1>2. \/ Finish(s) \/ op' = [op EXCEPT ![s] = None]
      \/ op[s].at # "check" /\ \E x \in {"show", "plan", "save"} : Goto(s, x)
  BY <1>1 DEF Guard, Mark, Save, Show, Check, At
<1>3. \E q : Moves(s, q) /\ (q # None => q.at \in {"show", "plan", "save", "exit", "check"})
  <2>1. CASE Finish(s)
    BY <1>1, <2>1, FinishIs DEF EndOf
  <2>2. CASE op' = [op EXCEPT ![s] = None]
    BY <2>2, OverIs
  <2>3. CASE op[s].at # "check" /\ \E x \in {"show", "plan", "save"} : Goto(s, x)
    <3>1. PICK x \in {"show", "plan", "save"} : Goto(s, x)
      BY <2>3
    <3>2. o(x).at = x /\ o(x).kind = op[s].kind
      BY DEF With
    <3>3. Placed(o(x))
      BY <1>1, <2>3, <3>2 DEF Placed, OnPlaces, OffPlaces, RowPlaces
    <3>4. Moves(s, o(x))
      BY <1>1, <3>1, <3>3, GotoIs DEF Places
    <3>5. QED
      BY <3>2, <3>4
  <2>4. QED
    BY <1>2, <2>1, <2>2, <2>3
<1>4. UNCHANGED <<route, row, alive, fresh, budgets, own, odd>>
  BY DEF Guard, Mark, Save, Show, Check
<1>5. /\ pause' \in Pauses /\ applied' \in Pauses /\ tap' \in [Procs -> Taps \cup {None}]
  <2>1. /\ App \in Procs /\ pause \in Pauses /\ tap \in [Procs -> Taps \cup {None}]
        /\ applied \in Pauses /\ {"via", "no"} \subseteq Pauses
    BY DEF Procs, Pauses, TypeInv, TypeOK
  <2>2. CASE Show(s)
    <3>1. IF tap[App] = None THEN UNCHANGED tap ELSE ShowPaused(App, TRUE)
      BY <2>2 DEF Show
    <3>2. QED
      BY <2>1, <2>2, <3>1, ShowType DEF Show
  <2>3. CASE Guard(s) \/ Mark(s) \/ Save(s) \/ Check(s)
    BY <2>1, <2>3 DEF Guard, Mark, Save, Check
  <2>4. QED
    BY <2>2, <2>3
<1>6. WayBackInv => WayBackInv'
  BY <1>1, <1>3, <1>4, PlainKeeps DEF RowPlaces
<1>7. QED
  BY <1>3, <1>4, <1>5, <1>6 DEF Moves, Placeds, TypeInv, TypeOK, Targets, Urls, Procs, budgets

-----------------------------------------------------------------------------
(* The steps: pointing the route back                                      *)

LEMMA FindStep ==
  ASSUME TypeInv, NEW s \in Slots, Find(s)
  PROVE  TypeInv' /\ (WayBackInv => WayBackInv')
<1>1. /\ op[s] # None /\ op[s].at \in {"find", "refind"} /\ Busy(s) /\ op[s] \in Ops
      /\ Placed(op[s]) /\ op[s].kind \notin OnKinds
  BY BusyIs, CallType DEF Find, Placed, OffPlaces
<1>2. UNCHANGED <<route, row, pause, alive, fresh, applied, budgets, own, odd>>
  BY DEF Find
<1>3. CASE /\ row # None
           /\ op' = [op EXCEPT ![s].row = row,
                               ![s].at = IF @ = "find" THEN "look" ELSE "relook"]
           /\ UNCHANGED tap
  <2> DEFINE x == IF op[s].at = "find" THEN "look" ELSE "relook"
             o == With(op[s], x, op[s].plan, row)
  <2>1. row \in Rows
    BY <1>3 DEF TypeInv, TypeOK
  <2>2. o \in Ops /\ o.at = x /\ o.kind = op[s].kind /\ o.row = row
    BY <1>1, <2>1 DEF With, Ops, Places
  <2>3. o \in Placeds
    BY <1>1, <1>3, <2>2 DEF Placeds, Placed, OnPlaces, OffPlaces, RowPlaces
  <2>4. op'[s] = o
    BY <1>1, <1>3 DEF With, Ops, TypeInv
  <2>5. op' = [op EXCEPT ![s] = op'[s]]
    BY <1>3 DEF TypeInv
  <2> HIDE DEF o
  <2>6. Moves(s, o)
    BY <2>3, <2>4, <2>5, MoveIs
  <2>7. Knows(s)'
    BY <1>2, <2>2, <2>4 DEF Knows
  <2>8. WayBackInv => WayBackInv'
    BY <1>1, <1>2, <2>6, <2>7, BusyKnows, StayRemembered, StepKeeps
  <2>9. QED
    BY <1>2, <1>3, <2>6, <2>8 DEF Moves, Placeds, TypeInv, TypeOK, Targets, Urls, Procs, budgets
<1>4. CASE row = None /\ StopTapIf(Tidying(s), ProcOf(s)) /\ Finish(s)
  <2>1. Moves(s, Ended(s)) /\ EndOf(s, Ended(s))
    BY <1>1, <1>4, FinishIs
  <2>2. tap' \in [Procs -> Taps \cup {None}]
    BY <1>4, StopType DEF StopTapIf
  <2>3. WayBackInv => WayBackInv'
    BY <1>1, <1>2, <2>1, PlainKeeps DEF EndOf, RowPlaces
  <2>4. QED
    BY <1>2, <2>1, <2>2, <2>3 DEF Moves, Placeds, TypeInv, TypeOK, Targets, Urls, Procs, budgets
<1>5. QED
  BY <1>3, <1>4 DEF Find

LEMMA LookStep ==
  ASSUME TypeInv, NEW s \in Slots, Look(s)
  PROVE  TypeInv' /\ (WayBackInv => WayBackInv')
<1>1. /\ op[s] # None /\ op[s].at \in {"look", "relook"} /\ Busy(s) /\ op[s] \in Ops
      /\ Placed(op[s]) /\ op[s].kind \notin OnKinds
      /\ op[s].row \in Rows /\ op[s].row # None
  BY BusyIs, CallType DEF Look, Placed, OffPlaces, RowPlaces, Ops
<1>2. UNCHANGED <<route, row, pause, alive, fresh, applied, asks, own, odd>>
  BY DEF Look
<1>3. CASE /\ route = op[s].row.url
           /\ op' = [op EXCEPT ![s].at = AfterLook(s),
                               ![s].plan = IF At(s, "look") THEN [from |-> route, to |-> To(s)] ELSE @]
           /\ UNCHANGED <<tap, trouble>>
  <2> DEFINE x == AfterLook(s)
             new == [from |-> route, to |-> To(s)]
             plan == IF At(s, "look") THEN new ELSE op[s].plan
             o == With(op[s], x, plan, op[s].row)
  <2>1. x \in {"back", "review", "refind"} /\ (x = "review" => op[s].kind = "off")
    BY DEF AfterLook
  <2>2. To(s) \in Targets /\ route \in Targets
    BY <1>1, <1>3, ToIs DEF Rows, Targets
  <2>3. new \in Changes
    BY <2>2 DEF Changes
  <2> HIDE DEF new
  <2>4. plan \in Changes \cup {None}
    BY <1>1, <2>3 DEF Ops
  <2>5. op'[s] = o
    BY <1>1, <1>3 DEF With, Ops, new, TypeInv
  <2>6. op' = [op EXCEPT ![s] = op'[s]]
    BY <1>3 DEF TypeInv
  <2> HIDE DEF plan, x
  <2>7. o \in Ops /\ o.at = x /\ o.kind = op[s].kind /\ o.row = op[s].row
    BY <1>1, <2>1, <2>4 DEF With, Ops, Places
  <2> HIDE DEF o
  <2>8. o \in Placeds
    BY <1>1, <2>1, <2>7 DEF Placeds, Placed, OnPlaces, OffPlaces, RowPlaces, OnKinds
  <2>9. Moves(s, o)
    BY <2>5, <2>6, <2>8, MoveIs
  <2>10. ASSUME WayBackInv PROVE WayBackInv'
    <3>1. ASSUME Clean' PROVE Remembered' /\ Knows(s)'
      <4>1. Remembered /\ row = op[s].row
        BY <1>1, <1>2, <2>10, <3>1, BusyKnows DEF Knows, RowPlaces
      <4>2. Knows(s)'
        BY <1>2, <2>1, <2>5, <2>7, <4>1 DEF Knows, RowPlaces
      <4>3. QED
        BY <1>2, <4>1, <4>2, StayRemembered
    <3>2. QED
      BY <1>1, <1>2, <2>9, <2>10, <3>1, StepKeeps
  <2>11. QED
    BY <1>2, <1>3, <2>9, <2>10 DEF Moves, Placeds, TypeInv, TypeOK, Targets, Urls, Procs
<1>4. CASE /\ route # op[s].row.url
           /\ Goto(s, IF At(s, "look") THEN "lapse" ELSE "relapse")
           /\ UNCHANGED <<tap, trouble>>
  <2> DEFINE x == IF At(s, "look") THEN "lapse" ELSE "relapse"
             o == With(op[s], x, op[s].plan, op[s].row)
  <2>1. x \in Places /\ o.at = x /\ o.row = op[s].row /\ Placed(o)
    BY <1>1 DEF With, Ops, Places, Placed, OnPlaces, OffPlaces, RowPlaces
  <2>2. Moves(s, o) /\ op'[s] = o
    BY <1>1, <1>4, <2>1, GotoIs DEF Moves
  <2> HIDE DEF o
  <2>3. ASSUME WayBackInv PROVE WayBackInv'
    <3>1. ASSUME Clean' PROVE Remembered' /\ Knows(s)'
      <4>1. Remembered /\ row = op[s].row
        BY <1>1, <1>2, <2>3, <3>1, BusyKnows DEF Knows, RowPlaces
      <4>2. route \notin Urls
        BY <1>4, <4>1 DEF Remembered
      <4>3. QED
        BY <1>2, <2>1, <2>2, <4>1, <4>2, StayRemembered DEF Knows, Urls
    <3>2. QED
      BY <1>1, <1>2, <2>2, <2>3, <3>1, StepKeeps
  <2>4. QED
    BY <1>2, <1>4, <2>2, <2>3 DEF Moves, Placeds, TypeInv, TypeOK, Targets, Urls, Procs
<1>5. CASE Fault /\ StopTapIf(Tidying(s), ProcOf(s)) /\ Finish(s)
  <2>1. Moves(s, Ended(s)) /\ EndOf(s, Ended(s))
    BY <1>1, <1>5, FinishIs
  <2>2. tap' \in [Procs -> Taps \cup {None}] /\ trouble' \in Nat
    BY <1>5, StopType, FaultType DEF StopTapIf
  <2>3. WayBackInv => WayBackInv'
    BY <1>1, <1>2, <2>1, PlainKeeps DEF EndOf, RowPlaces
  <2>4. QED
    BY <1>2, <2>1, <2>2, <2>3 DEF Moves, Placeds, TypeInv, TypeOK, Targets, Urls, Procs
<1>6. QED
  BY <1>3, <1>4, <1>5 DEF Look

\* The row goes, of a route that does not point at a tap.
LEMMA ForgetStep ==
  ASSUME TypeInv, NEW s \in Slots, Lapse(s) \/ Clear(s)
  PROVE  TypeInv' /\ (WayBackInv => WayBackInv')
<1>1. op[s] # None /\ op[s].at \in {"lapse", "relapse", "clear"} /\ Busy(s)
  BY BusyIs DEF Lapse, Clear
<1>2. row' = None /\ Finish(s) /\ UNCHANGED <<route, pause, alive, fresh, applied, budgets, own, odd>>
  BY DEF Lapse, Clear
<1>3. tap' \in [Procs -> Taps \cup {None}]
  BY StopType DEF Lapse, Clear, StopTapIf
<1>4. Moves(s, Ended(s)) /\ EndOf(s, Ended(s))
  BY <1>1, <1>2, FinishIs
<1>5. ASSUME WayBackInv PROVE WayBackInv'
  <2>1. ASSUME Clean' PROVE Remembered' /\ Knows(s)'
    <3>1. route \notin Urls
      BY <1>1, <1>2, <1>5, <2>1, BusyKnows DEF Knows
    <3>2. QED
      BY <1>2, <1>4, <3>1, EndKnows DEF Remembered, Urls
  <2>2. QED
    BY <1>1, <1>2, <1>4, <1>5, <2>1, StepKeeps
<1>6. QED
  BY <1>2, <1>3, <1>4, <1>5 DEF Moves, Placeds, TypeInv, TypeOK, Targets, Urls, Procs, budgets

LEMMA BackStep ==
  ASSUME TypeInv, NEW s \in Slots, Back(s)
  PROVE  TypeInv' /\ (WayBackInv => WayBackInv')
<1>1. /\ op[s] # None /\ op[s].at = "back" /\ Busy(s) /\ op[s] \in Ops
      /\ Placed(op[s]) /\ op[s].kind \notin OnKinds
      /\ op[s].row \in Rows /\ op[s].row # None
  BY BusyIs, CallType DEF Back, Placed, OffPlaces, RowPlaces, Ops
<1>2. UNCHANGED <<pause, alive, fresh, applied, asks, own>>
  BY DEF Back
<1>3. To(s) \in Targets /\ To(s) = op[s].row.original
  BY <1>1, ToIs
<1>4. CASE /\ Approved(s)
           /\ Change(To(s), s, [op[s] EXCEPT !.at = "clear"])
           /\ UNCHANGED <<row, tap, odd, trouble>>
  <2> DEFINE o == With(op[s], "clear", op[s].plan, op[s].row)
  <2>1. [op[s] EXCEPT !.at = "clear"] = o /\ o.at = "clear" /\ o.row = op[s].row
        /\ o.kind = op[s].kind /\ o \in Ops
    BY <1>1 DEF With, Ops, Places
  <2>2. o \in Placeds
    BY <1>1, <2>1 DEF Placeds, Placed, OnPlaces, OffPlaces, RowPlaces
  <2> HIDE DEF o
  <2>3. route' = To(s) /\ Moves(s, o) /\ op'[s] = o
    BY <1>4, <2>1, <2>2, ChangeIs DEF Moves
  <2>4. ASSUME WayBackInv PROVE WayBackInv'
    <3>1. ASSUME Clean' PROVE Remembered' /\ Knows(s)'
      <4>1. Remembered /\ row = op[s].row
        BY <1>1, <1>4, <2>4, <3>1, BusyKnows DEF Knows, RowPlaces
      <4>2. route' \notin Urls
        BY <1>1, <1>3, <2>3, <4>1 DEF Remembered
      <4>3. QED
        BY <1>4, <2>1, <2>3, <4>1, <4>2 DEF Remembered, Knows, Urls
    <3>2. QED
      BY <1>1, <1>4, <2>3, <2>4, <3>1, StepKeeps
  <2>5. QED
    BY <1>2, <1>3, <1>4, <2>3, <2>4 DEF Moves, Placeds, TypeInv, TypeOK, Targets, Urls, Procs
<1>5. CASE /\ Declined(s)
           /\ row' = IF Tidying(s) /\ route = None THEN None ELSE row
           /\ StopTapIf(Tidying(s), ProcOf(s))
           /\ Finish(s)
           /\ UNCHANGED <<route, odd>>
  <2>1. Moves(s, Ended(s)) /\ EndOf(s, Ended(s))
    BY <1>1, <1>5, FinishIs
  <2>2. tap' \in [Procs -> Taps \cup {None}] /\ trouble' \in Nat
    BY <1>5, StopType, FaultType DEF StopTapIf, Declined
  <2>3. ASSUME WayBackInv PROVE WayBackInv'
    <3>1. ASSUME Clean' PROVE Remembered' /\ Knows(s)'
      <4>1. Remembered
        BY <1>1, <1>5, <2>3, <3>1, BusyKnows
      <4>2. QED
        BY <1>5, <2>1, <4>1, EndKnows, NoneAssumption DEF Remembered, Urls
    <3>2. QED
      BY <1>1, <1>5, <2>1, <2>3, <3>1, StepKeeps
  <2>4. QED
    BY <1>2, <1>5, <2>1, <2>2, <2>3 DEF Moves, Placeds, TypeInv, TypeOK, Targets, Urls, Procs
<1>6. CASE /\ Approved(s) /\ Fault
           /\ Change(To(s), s, Ended(s))
           /\ Odd("lost")
           /\ StopTapIf(Tidying(s), ProcOf(s))
           /\ UNCHANGED row
  <2>1. route' = To(s) /\ Moves(s, Ended(s))
    BY <1>1, <1>6, EndedIs, ChangeIs
  <2>2. tap' \in [Procs -> Taps \cup {None}] /\ trouble' \in Nat
    BY <1>6, StopType, FaultType DEF StopTapIf
  <2>3. odd' \subseteq Oddities /\ "lost" \in odd'
    BY <1>6, OddType DEF Oddities
  <2>4. WayBackInv'
    BY <2>3 DEF WayBackInv, Clean
  <2>5. QED
    BY <1>2, <1>3, <1>6, <2>1, <2>2, <2>3, <2>4 DEF Moves, Placeds, TypeInv, TypeOK, Targets, Urls, Procs
<1>7. QED
  BY <1>4, <1>5, <1>6 DEF Back

-----------------------------------------------------------------------------
(* The steps: who asks for it                                              *)

\* What a task begins with.
LEMMA BeginStep ==
  ASSUME TypeInv, NEW s \in Slots, NEW o, Moves(s, o), Begins(s),
         UNCHANGED <<route, row, applied, tap, trouble, own>>,
         pause' \in Pauses, alive' \in [Procs -> BOOLEAN], fresh' \in BOOLEAN, asks' \in Nat,
         o # None => o.at \notin RowPlaces \cup {"unrecord", "unrecordGone"}
  PROVE  TypeInv' /\ (WayBackInv => WayBackInv')
<1>1. Begun(s) \subseteq odd' /\ odd' \subseteq Oddities /\ odd \subseteq odd'
  BY BegunType DEF Begins
<1>2. WayBackInv => WayBackInv'
  <2>1. CASE Busy(s)
    BY <1>1, <2>1, PlainKeeps
  <2>2. CASE ~Busy(s)
    BY <1>1, <2>2, BeginKeeps
  <2>3. QED
    BY <2>1, <2>2
<1>3. QED
  BY <1>1, <1>2 DEF Moves, Placeds, TypeInv, TypeOK, Targets, Urls, Procs

LEMMA HandStep ==
  ASSUME TypeInv, InspectHere \/ SetPaused \/ Quit
  PROVE  TypeInv' /\ (WayBackInv => WayBackInv')
<1>1. "hand" \in Slots
  BY DEF Slots
<1>2. Begins("hand") /\ UNCHANGED <<route, row, applied, tap, trouble, own, alive, fresh>>
  BY DEF InspectHere, SetPaused, Quit, budgets
<1>3. /\ alive' \in [Procs -> BOOLEAN] /\ fresh' \in BOOLEAN
      /\ pause' \in Pauses /\ asks' \in Nat
  <2>1. alive' \in [Procs -> BOOLEAN] /\ fresh' \in BOOLEAN
    BY <1>2 DEF TypeInv, TypeOK
  <2>2. asks' \in Nat
    <3>1. asks \in Nat
      BY DEF TypeInv, TypeOK
    <3>2. asks' = asks + 1 \/ asks' = asks
      BY DEF InspectHere, SetPaused, Quit, Ask, budgets
    <3>3. QED
      BY <3>1, <3>2
  <2>3. UNCHANGED pause \/ \E on \in BOOLEAN : Asked(on)
    BY DEF InspectHere, SetPaused, Quit
  <2>4. pause' \in Pauses
    BY <2>3 DEF Asked, Pauses, TypeInv, TypeOK
  <2>5. QED
    BY <2>1, <2>2, <2>4
<1>4. PICK x \in {"plan", "find", "sync", "exit"}, kind \in Kinds, tail \in BOOLEAN :
         /\ op' = [op EXCEPT !["hand"] = NewOp(x, kind, tail)]
         /\ x \in {"plan", "sync"} => kind \in OnKinds
         /\ x = "find" => kind \notin OnKinds
  BY DEF InspectHere, SetPaused, Quit, Kinds, OnKinds
<1>5. /\ x \in Places \ RowPlaces /\ x \notin {"review", "unrecord", "unrecordGone"}
      /\ x \in OnPlaces => kind \in OnKinds
      /\ x \in OffPlaces => kind \notin OnKinds
  BY <1>4 DEF Places, OnPlaces, OffPlaces, RowPlaces
<1>6. Moves("hand", NewOp(x, kind, tail)) /\ NewOp(x, kind, tail).at = x
  BY <1>1, <1>4, <1>5, NewIs
<1>7. QED
  BY <1>1, <1>2, <1>3, <1>5, <1>6, BeginStep

LEMMA CliStep ==
  ASSUME TypeInv, RunCli \/ Interrupt
  PROVE  TypeInv' /\ (WayBackInv => WayBackInv')
<1>1. UNCHANGED <<route, row, pause, applied, tap, trouble, own, fresh>> /\ Begins("cli")
  BY DEF RunCli, Interrupt, budgets
<1>2. /\ alive' \in [Procs -> BOOLEAN] /\ asks' \in Nat /\ fresh' \in BOOLEAN /\ pause' \in Pauses
  <2>1. fresh' \in BOOLEAN /\ pause' \in Pauses
    BY <1>1 DEF TypeInv, TypeOK
  <2>2. asks' \in Nat
    <3>1. asks \in Nat
      BY DEF TypeInv, TypeOK
    <3>2. asks' = asks + 1 \/ asks' = asks
      BY DEF RunCli, Interrupt, Ask, budgets
    <3>3. QED
      BY <3>1, <3>2
  <2>3. alive' = [alive EXCEPT ![Cli] = TRUE] \/ alive' = alive
    BY DEF RunCli, Interrupt
  <2>4. alive' \in [Procs -> BOOLEAN]
    BY <2>3 DEF TypeInv, TypeOK
  <2>5. QED
    BY <2>1, <2>2, <2>4
<1>3. "cli" \in Slots
  BY DEF Slots
<1>4. /\ "find" \in Places /\ "tidy" \in Kinds /\ "plan" \in Places /\ "on" \in Kinds
      /\ "find" \notin RowPlaces \cup OnPlaces \cup {"review", "unrecord", "unrecordGone"}
      /\ "plan" \notin RowPlaces \cup OffPlaces \cup {"review", "unrecord", "unrecordGone"}
      /\ "exit" \notin RowPlaces \cup {"unrecord", "unrecordGone"}
      /\ "tidy" \notin OnKinds /\ "on" \in OnKinds
  BY DEF Places, Kinds, OnPlaces, OffPlaces, RowPlaces, OnKinds
<1>5. CASE op' = [op EXCEPT !["cli"] = NewOp("plan", "on", FALSE)]
  <2>1. Moves("cli", NewOp("plan", "on", FALSE)) /\ NewOp("plan", "on", FALSE).at = "plan"
    BY <1>3, <1>4, <1>5, NewIs
  <2>2. QED
    BY <1>1, <1>2, <1>3, <1>4, <1>5, <2>1, BeginStep
<1>6. CASE op' = [op EXCEPT !["cli"] = NewOp("find", "tidy", FALSE)]
  <2>1. Moves("cli", NewOp("find", "tidy", FALSE)) /\ NewOp("find", "tidy", FALSE).at = "find"
    BY <1>3, <1>4, <1>6, NewIs
  <2>2. QED
    BY <1>1, <1>2, <1>3, <1>4, <1>6, <2>1, BeginStep
<1>7. CASE op' = [op EXCEPT !["cli"] = [@ EXCEPT !.at = "exit"]] /\ op["cli"] # None
  <2> DEFINE o == With(op["cli"], "exit", op["cli"].plan, op["cli"].row)
  <2>1. op["cli"] \in Ops
    BY <1>3, <1>7, CallType
  <2>2. [op["cli"] EXCEPT !.at = "exit"] = o /\ o.at = "exit" /\ o \in Ops
    BY <2>1 DEF With, Ops, Places
  <2>3. o \in Placeds
    BY <2>2 DEF Placeds, Placed, OnPlaces, OffPlaces, RowPlaces
  <2>4. op' = [op EXCEPT !["cli"] = o]
    BY <1>7, <2>2
  <2> HIDE DEF o
  <2>5. Moves("cli", o)
    BY <1>3, <2>3, <2>4, MoveIs
  <2>6. QED
    BY <1>1, <1>2, <1>3, <1>4, <1>7, <2>2, <2>5, BeginStep
<1>8. CASE RunCli
  BY <1>5, <1>8 DEF RunCli
<1>9. CASE Interrupt
  BY <1>6, <1>7, <1>9 DEF Interrupt, At
<1>10. QED
  BY <1>8, <1>9

\* The app's sweep begins, or finds nothing to do.
LEMMA SweepStep ==
  ASSUME TypeInv, Sweep
  PROVE  TypeInv' /\ (WayBackInv => WayBackInv')
<1>1. /\ UNCHANGED <<route, row, pause, alive, tap, applied, budgets, own>> /\ Begins("sweep")
      /\ fresh' = FALSE
  BY DEF Sweep
<1>2. "sweep" \in Slots
  BY DEF Slots
<1>3. /\ trouble' = trouble /\ asks' \in Nat /\ pause' \in Pauses /\ alive' \in [Procs -> BOOLEAN]
      /\ fresh' \in BOOLEAN
  BY <1>1 DEF budgets, TypeInv, TypeOK
<1>4. op' = op \/ op' = [op EXCEPT !["sweep"] = NewOp("find", "tidy", FALSE)]
  BY DEF Sweep
<1>5. CASE op' = [op EXCEPT !["sweep"] = NewOp("find", "tidy", FALSE)]
  <2>1. /\ "find" \in Places /\ "tidy" \in Kinds /\ "tidy" \notin OnKinds
        /\ "find" \notin RowPlaces \cup OnPlaces \cup {"review", "unrecord", "unrecordGone"}
    BY DEF Places, Kinds, OnPlaces, RowPlaces, OnKinds
  <2>2. /\ Moves("sweep", NewOp("find", "tidy", FALSE))
        /\ NewOp("find", "tidy", FALSE).at = "find"
    BY <1>2, <1>5, <2>1, NewIs
  <2>3. QED
    BY <1>1, <1>2, <1>3, <2>1, <2>2, BeginStep
<1>6. CASE op' = op
  <2>1. op["sweep"] = None
    BY DEF Sweep, Idle
  <2>2. Moves("sweep", None)
    BY <1>2, <1>6, <2>1 DEF Moves, Same, TypeInv
  <2>3. QED
    BY <1>1, <1>2, <1>3, <2>2, BeginStep
<1>7. QED
  BY <1>4, <1>5, <1>6

\* What leaves the tasks as they are, or ends them.
LEMMA RestStep ==
  ASSUME TypeInv, \A u \in Slots : (op'[u] = None \/ Same(u)), op' \in [Slots -> Placeds],
         row' = row, route' \in Targets \cup {None}, route' = route \/ route' \notin Urls,
         odd \subseteq odd', odd' \subseteq Oddities,
         pause' \in Pauses, alive' \in [Procs -> BOOLEAN], fresh' \in BOOLEAN,
         tap' \in [Procs -> Taps \cup {None}], applied' \in Pauses,
         trouble' \in Nat, asks' \in Nat, own' \in Services \cup {None}
  PROVE  TypeInv' /\ (WayBackInv => WayBackInv')
<1>1. WayBackInv => WayBackInv'
  BY RestKeeps
<1>2. QED
  BY <1>1 DEF Placeds, TypeInv, TypeOK, Targets, Urls, Procs, Rows

LEMMA StayIs ==
  ASSUME TypeInv, op' = op
  PROVE  op' \in [Slots -> Placeds] /\ \A u \in Slots : Same(u)
BY DEF TypeInv, Same

LEMMA GoneStep ==
  ASSUME TypeInv, NEW p \in Procs, Gone(p), trouble' \in Nat
  PROVE  TypeInv' /\ (WayBackInv => WayBackInv')
<1>1. /\ op' = [s \in Slots |-> IF ProcOf(s) = p THEN None ELSE op[s]]
      /\ UNCHANGED <<route, row, pause, fresh, asks, own, odd>>
  BY DEF Gone
<1>2. /\ op' \in [Slots -> Placeds]
      /\ \A u \in Slots : (op'[u] = None \/ Same(u))
  BY <1>1 DEF TypeInv, Same, Placeds
<1>3. /\ alive' \in [Procs -> BOOLEAN] /\ tap' \in [Procs -> Taps \cup {None}]
      /\ applied' \in Pauses
  <2>1. alive' \in [Procs -> BOOLEAN]
    BY DEF Gone, TypeInv, TypeOK
  <2>2. tap' \in [Procs -> Taps \cup {None}]
    BY DEF Gone, TypeInv, TypeOK
  <2>3. applied' \in Pauses
    BY DEF Gone, Pauses, TypeInv, TypeOK
  <2>4. QED
    BY <2>1, <2>2, <2>3
<1>4. /\ route' \in Targets \cup {None} /\ pause' \in Pauses /\ fresh' \in BOOLEAN
      /\ asks' \in Nat /\ own' \in Services \cup {None} /\ odd' \subseteq Oddities
  BY <1>1 DEF TypeInv, TypeOK
<1>5. QED
  BY <1>1, <1>2, <1>3, <1>4, RestStep

LEMMA EditStep ==
  ASSUME TypeInv, EditRoute
  PROVE  TypeInv' /\ (WayBackInv => WayBackInv')
<1>1. PICK v \in Services \cup {None} : own' = v /\ Change(v, None, None)
  BY DEF EditRoute
<1>2. /\ Trouble /\ UNCHANGED <<row, pause, alive, fresh, tap, applied, asks>>
      /\ Odd("astray") \/ UNCHANGED odd
  BY DEF EditRoute
<1>3. route' = v /\ op' = [u \in Slots |-> IF u = None THEN None ELSE Outdated(u)]
  BY <1>1 DEF Change
<1>4. \A u \in Slots : op'[u] = None \/ op'[u] = Outdated(u)
  BY <1>3
<1>5. op' \in [Slots -> Placeds] /\ \A u \in Slots : (op'[u] = None \/ Same(u))
  <2>1. None \in Placeds
    BY DEF Placeds
  <2>2. op' \in [Slots -> Placeds]
    BY <1>3, <2>1, OutdatedIs
  <2>3. \A u \in Slots : (op'[u] = None \/ Same(u))
    BY <1>4, OutdatedIs DEF Same
  <2>4. QED
    BY <2>2, <2>3
<1>6. route' \in Targets \cup {None} /\ route' \notin Urls
  BY <1>1, <1>3, NoneAssumption DEF Targets
<1>7. odd \subseteq odd' /\ odd' \subseteq Oddities /\ trouble' \in Nat
  <2>1. odd \subseteq odd' /\ odd' \subseteq Oddities
    BY <1>2, OddType DEF Oddities, TypeInv, TypeOK
  <2>2. QED
    BY <1>2, <2>1, FaultType
<1>8. /\ pause' \in Pauses /\ alive' \in [Procs -> BOOLEAN] /\ fresh' \in BOOLEAN
      /\ tap' \in [Procs -> Taps \cup {None}] /\ applied' \in Pauses /\ asks' \in Nat
      /\ own' \in Services \cup {None}
  BY <1>1, <1>2 DEF TypeInv, TypeOK
<1>9. QED
  BY <1>2, <1>5, <1>6, <1>7, <1>8, RestStep

LEMMA StayStep ==
  ASSUME TypeInv, AskOver \/ Launch \/ UNCHANGED vars
  PROVE  TypeInv' /\ (WayBackInv => WayBackInv')
<1>1. UNCHANGED <<route, row, tap, applied, op, trouble, own, odd>>
  BY DEF AskOver, Launch, vars, budgets
<1>2. asks' \in Nat
  <2>1. asks \in Nat
    BY DEF TypeInv, TypeOK
  <2>2. asks' = asks + 1 \/ asks' = asks
    BY DEF AskOver, Launch, vars, budgets, Ask
  <2>3. QED
    BY <2>1, <2>2
<1>3. pause' \in Pauses
  <2>1. UNCHANGED pause \/ \E on \in BOOLEAN : Asked(on)
    BY DEF AskOver, Launch, vars
  <2>2. QED
    BY <2>1 DEF Asked, Pauses, TypeInv, TypeOK
<1>4. alive' \in [Procs -> BOOLEAN] /\ fresh' \in BOOLEAN
  <2>1. alive' = alive \/ alive' = [alive EXCEPT ![App] = TRUE]
    BY DEF AskOver, Launch, vars
  <2>2. fresh' = fresh \/ fresh' = TRUE
    BY DEF AskOver, Launch, vars
  <2>3. QED
    BY <2>1, <2>2 DEF TypeInv, TypeOK
<1>5. /\ route' \in Targets \cup {None} /\ tap' \in [Procs -> Taps \cup {None}]
      /\ applied' \in Pauses /\ trouble' \in Nat /\ own' \in Services \cup {None}
      /\ odd' \subseteq Oddities
  BY <1>1 DEF TypeInv, TypeOK
<1>6. QED
  BY <1>1, <1>2, <1>3, <1>4, <1>5, StayIs, RestStep

-----------------------------------------------------------------------------
(* The theorems                                                            *)

LEMMA AnyStep ==
  ASSUME TypeInv, [Next]_vars
  PROVE  TypeInv' /\ (WayBackInv => WayBackInv')
<1>1. CASE \E s \in Slots : Step(s) \/ Review(s) \/ Sync(s)
  <2>1. PICK s \in Slots : Step(s) \/ Review(s) \/ Sync(s)
    BY <1>1
  <2>2. CASE Review(s) \/ Sync(s)
    BY <2>2, ReviewStep, SyncStep
  <2>3. CASE PlanOn(s) \/ Prepare(s) \/ Record(s) \/ Point(s) \/ Unrecord(s)
    BY <2>3, PlanOnStep, PrepareStep, RecordStep, PointStep, UnrecordStep
  <2>4. CASE Guard(s) \/ Mark(s) \/ Save(s) \/ Show(s) \/ Check(s)
    BY <2>4, PauseStep
  <2>5. CASE Find(s) \/ Look(s) \/ Lapse(s) \/ Back(s) \/ Clear(s)
    BY <2>5, FindStep, LookStep, ForgetStep, BackStep
  <2>6. CASE Exit(s)
    <3>1. Gone(ProcOf(s)) /\ trouble' \in Nat
      BY <2>6 DEF Exit, TypeInv, TypeOK
    <3>2. QED
      BY <3>1, SlotType, GoneStep
  <2>7. QED
    BY <2>1, <2>2, <2>3, <2>4, <2>5, <2>6 DEF Step
<1>2. CASE InspectHere \/ SetPaused \/ Quit
  BY <1>2, HandStep
<1>3. CASE RunCli \/ Interrupt
  BY <1>3, CliStep
<1>4. CASE Sweep
  BY <1>4, SweepStep
<1>5. CASE \E p \in Procs : Crash(p)
  <2>1. PICK p \in Procs : Crash(p)
    BY <1>5
  <2>2. Gone(p) /\ trouble' \in Nat
    BY <2>1, FaultType DEF Crash
  <2>3. QED
    BY <2>2, GoneStep
<1>6. CASE EditRoute
  BY <1>6, EditStep
<1>7. CASE AskOver \/ Launch \/ UNCHANGED vars
  BY <1>7, StayStep
<1>8. QED
  BY <1>1, <1>2, <1>3, <1>4, <1>5, <1>6, <1>7 DEF Next

LEMMA InitTyped == Init => TypeInv /\ WayBackInv
<1> SUFFICES ASSUME Init PROVE TypeInv /\ WayBackInv
  OBVIOUS
<1>1. First \in Services /\ First \notin Urls /\ None \notin Services
  BY InspectAssumption, NoneAssumption
<1>2. op = [s \in Slots |-> None] /\ None \in Placeds
  BY DEF Init, Placeds
<1>3. TypeOK
  BY <1>1, <1>2 DEF Init, TypeOK, Targets, Pauses, Procs, Oddities
<1>4. \A s \in Slots : op[s] = None
  BY <1>2
<1>5. Lone /\ Remembered /\ \A s \in Slots : Knows(s)
  BY <1>1, <1>4 DEF Init, Lone, Busy, Remembered, Knows
<1>6. QED
  BY <1>2, <1>3, <1>5 DEF TypeInv, WayBackInv

\* Every task is at a place of its kind, and carries the row where it needs it (pause.rs,
\* inspect/routes.rs).
THEOREM TypeCorrect == Spec => []TypeOK
<1>1. Init => TypeInv
  BY InitTyped
<1>2. TypeInv /\ [Next]_vars => TypeInv'
  BY AnyStep
<1>3. TypeInv => TypeOK
  BY DEF TypeInv
<1>4. QED
  BY <1>1, <1>2, <1>3, PTL DEF Spec

\* "The route is remembered first, so a crash can't leave it unnoticed"
\* (routes.rs:312-313): a route that points at a tap has a row with that address, for
\* every number of taps, failures, crashes and requests, and with any overlap.
THEOREM AlwaysWayBack == Spec => []WayBack
<1>1. Init => TypeInv /\ WayBackInv
  BY InitTyped
<1>2. TypeInv /\ WayBackInv /\ [Next]_vars => (TypeInv /\ WayBackInv)'
  BY AnyStep
<1>3. WayBackInv => WayBack
  BY DEF WayBackInv, WayBack, Clean, Remembered
<1>4. QED
  BY <1>1, <1>2, <1>3, PTL DEF Spec

-----------------------------------------------------------------------------
(* Whose the service is that comes back                                    *)

Stacked == "stacked" \in odd

\* What is remembered, in the database or by a task.
Kept(r) == row = r \/ \E u \in Slots : op[u] # None /\ op[u].row = r

\* No task of the app's is at work beside a person's.
Turns == \A s \in ByPeople, u \in Slots : s # u => ~(Busy(s) /\ Busy(u))

\* An address is the owner's.
Addressed == \A r \in Rows : Kept(r) => r.url[1] = r.owner

\* A process that is dead has no tap, and no task.
Still == \A p \in Procs : ~alive[p] => /\ tap[p] = None
                                       /\ \A s \in Slots : ProcOf(s) = p => op[s] = None

\* What each task is for, and whose rows it works with.
Roles(s) ==
  op[s] # None =>
    /\ s = "sweep" => op[s].kind = "tidy"
    /\ s = "loop" => op[s].kind \in {"pause", "resume"}
    /\ s = "cli" => op[s].kind \in {"on", "tidy"} /\ op[s].at \notin {"sync", "guard", "refind"}
    /\ op[s].at \in {"review", "serving"} => s \in ByPeople
    /\ s = "cli" /\ op[s].at \in {"review", "serving"} => op[s].kind = "on"
    /\ op[s].kind \in OnKinds /\ op[s].row # None => op[s].row.owner = ProcOf(s)
    /\ s = "cli" /\ op[s].row # None => op[s].row.owner = Cli
    /\ s = "cli" /\ op[s].at = "find" /\ row # None => row.owner = Cli

\* The tap a task is about to use is one that nothing remembers.
Unused(s) ==
  op[s] # None /\ s # "hand" /\ op[s].at \in {"plan", "review", "prepare"} /\ tap[ProcOf(s)] # None =>
    \A r \in Rows : Kept(r) => r.url # Here(ProcOf(s))

\* The row a task is to point the route with is the only one with its address.
Distinct(s) ==
  op[s] # None =>
    /\ op[s].at \in {"record", "point"} =>
         \A u \in Slots :
           (op[u] # None /\ op[u].row # None /\ op[u].row.url = op[s].row.url) => op[u].row = op[s].row
    /\ op[s].at = "point" \/ (op[s].at = "record" /\ s # "hand") =>
         (row # None /\ row.url = op[s].row.url => row = op[s].row)

\* A plan that is not outdated starts from the route as it is.
Planned(s) ==
  op[s] # None /\ op[s].plan # None =>
    /\ op[s].at \in {"review", "refind", "relook", "prepare"} => op[s].plan.from = route
    /\ op[s].at \in {"record", "point"} => op[s].plan.from = op[s].row.original
    /\ op[s].at = "back" => op[s].plan.from = op[s].row.url

\* A task points the route at its process's tap.
Aimed(s) ==
  op[s] # None /\ op[s].at \in {"record", "point"} /\ tap[ProcOf(s)] # None =>
    op[s].row.url = Here(ProcOf(s))

Mine(s) == Roles(s) /\ Unused(s) /\ Distinct(s) /\ Planned(s) /\ Aimed(s)

\* What is remembered of a route that points at its tap is what the user has there.
Faithful(r) == r.original \in Services /\ (r.url = route => r.original = own)
Recalls(u) ==
  op[u] # None /\ op[u].row # None /\ (op[u].at # "record" \/ op[u].row.original \notin Urls) =>
    Faithful(op[u].row)
Truths ==
  ~Stacked =>
    /\ route \notin Urls => own = route
    /\ row # None => Faithful(row)
    /\ \A u \in Slots : Recalls(u)

\* The app's tap is where the route points, or a task is about to see to it.
Mends(s) ==
  /\ op[s] # None /\ ProcOf(s) = App
  /\ \/ op[s].at \in {"prepare", "record", "point", "unrecord", "unrecordGone", "clear"}
     \/ op[s].at = "review" /\ op[s].kind = "on"
Straight ==
  odd \cap {"stacked", "astray", "lost"} = {} /\ tap[App] # None =>
    route = Here(App) \/ \E s \in Slots : Mends(s)

OwnInv ==
  /\ Turns /\ Addressed /\ Still
  /\ \A s \in Slots : Mine(s)
  /\ Truths /\ Straight

-----------------------------------------------------------------------------
(* What a step leaves as it is                                             *)

\* A task stays; its plan may be outdated, and is if the route has changed.
Alike(u) ==
  IF op[u] = None THEN op'[u] = None
  ELSE /\ op'[u] # None
       /\ op'[u].at = op[u].at /\ op'[u].kind = op[u].kind /\ op'[u].row = op[u].row
       /\ op'[u].plan = None \/ (op'[u].plan = op[u].plan /\ route' = route)

\* No tap is started.
Shrinks == \A p \in Procs : tap'[p] # None => tap[p] # None /\ tap'[p].n = tap[p].n

\* One task takes a step; it remembers what it did, or what the row says.
Plain(s) ==
  /\ \A u \in Slots \ {s} : Alike(u)
  /\ op'[s] # None =>
       /\ Busy(s) \/ Free(s)
       /\ op[s] # None \/ alive'[ProcOf(s)]
       /\ \/ op'[s].row = None
          \/ op[s] # None /\ op'[s].row = op[s].row
          \/ Busy(s) /\ op'[s].row = row
  /\ row' = row \/ row' = None \/ (Busy(s) /\ row' = op[s].row)
  /\ Shrinks
  /\ \A p \in Procs : alive[p] => alive'[p]

\* Nothing is remembered that was not.
LEMMA PlainKept ==
  ASSUME NEW s \in Slots, Plain(s), NEW r \in Rows, Kept(r)'
  PROVE  Kept(r)
<1>1. r # None
  BY NoneAssumption
<1>2. CASE row' = r
  BY <1>1, <1>2 DEF Plain, Kept, Busy
<1>3. ASSUME NEW u \in Slots, op'[u] # None, op'[u].row = r
      PROVE  Kept(r)
  <2>1. CASE u = s
    BY <1>1, <1>3, <2>1 DEF Plain, Kept
  <2>2. CASE u # s
    BY <1>3, <2>2 DEF Plain, Kept, Alike
  <2>3. QED
    BY <2>1, <2>2
<1>4. QED
  BY <1>2, <1>3 DEF Kept

LEMMA OtherMine ==
  ASSUME TypeInv, OwnInv, NEW s \in Slots, Plain(s), NEW u \in Slots \ {s}
  PROVE  Mine(u)'
<1>1. Mine(u) /\ Alike(u) /\ Turns /\ ProcOf(u) \in Procs
  BY SlotType DEF OwnInv, Plain
<1>2. Roles(u)'
  BY <1>1 DEF Mine, Roles, Alike, Plain, Turns, Busy, ByPeople
<1>3. \A r \in Rows : Kept(r)' => Kept(r)
  BY PlainKept
<1>4. Unused(u)'
  BY <1>1, <1>3 DEF Mine, Unused, Alike, Plain, Shrinks, Here
<1>5. Distinct(u)'
  <2> SUFFICES ASSUME op[u] # None PROVE Distinct(u)'
    BY <1>1 DEF Alike, Distinct
  <2>1. op'[u] # None /\ op'[u].at = op[u].at /\ op'[u].row = op[u].row /\ Distinct(u)
    BY <1>1 DEF Alike, Mine
  <2>2. ASSUME op[u].at \in {"record", "point"},
               NEW v \in Slots, op'[v] # None, op'[v].row # None, op'[v].row.url = op[u].row.url
        PROVE  op'[v].row = op[u].row
    <3>1. CASE op[v] # None /\ op'[v].row = op[v].row
      BY <2>1, <2>2, <3>1 DEF Distinct
    <3>2. CASE v = s /\ Busy(s) /\ op'[s].row = row
      <4>1. op[u].at = "point" \/ (op[u].at = "record" /\ u # "hand")
        BY <1>1, <2>2, <3>2 DEF Turns, Busy, ByPeople
      <4> QED
        BY <2>1, <2>2, <3>2, <4>1 DEF Distinct
    <3> QED
      BY <1>1, <2>2, <3>1, <3>2 DEF Plain, Alike
  <2>3. ASSUME op[u].at = "point" \/ (op[u].at = "record" /\ u # "hand"),
               row' # None, row'.url = op[u].row.url
        PROVE  row' = op[u].row
    BY <1>1, <2>1, <2>3 DEF Plain, Distinct, Busy
  <2> QED
    BY <2>1, <2>2, <2>3 DEF Distinct
<1>6. Planned(u)'
  BY <1>1 DEF Mine, Planned, Alike
<1>7. Aimed(u)'
  BY <1>1 DEF Mine, Aimed, Alike, Plain, Shrinks, Here
<1>8. QED
  BY <1>2, <1>4, <1>5, <1>6, <1>7 DEF Mine

LEMMA PlainOwn ==
  ASSUME TypeInv, OwnInv, ~Overlap, NEW s \in Slots, Plain(s), Mine(s)', Truths', Straight'
  PROVE  OwnInv'
<1>1. \A u \in Slots : Mine(u)'
  BY OtherMine
<1>2. Turns'
  <2>1. \A u \in Slots \ {s} : Busy(u)' => Busy(u)
    BY DEF Plain, Alike, Busy
  <2>2. \A u \in Slots \ {s} : {s, u} \cap ByPeople # {} => ~(Busy(s)' /\ Busy(u))
    <3>1. CASE Busy(s)
      BY <3>1 DEF OwnInv, Turns
    <3>2. CASE Busy(s)' /\ ~Busy(s)
      BY <3>2 DEF Plain, Busy, Free
    <3>3. QED
      BY <3>1, <3>2
  <2>3. QED
    BY <2>1, <2>2 DEF OwnInv, Turns, ByPeople, Slots
<1>3. \A r \in Rows : Kept(r)' => Kept(r)
  BY PlainKept
<1>4. Addressed'
  BY <1>3 DEF OwnInv, Addressed
<1>5. Still'
  BY SlotType DEF OwnInv, Plain, Still, Alike, Shrinks
<1>6. QED
  BY <1>1, <1>2, <1>4, <1>5 DEF OwnInv

LEMMA TruthStays ==
  ASSUME OwnInv, NEW s \in Slots, Plain(s), UNCHANGED <<route, own>>, odd \subseteq odd',
         op[s] # None /\ op[s].at = "record" => Stacked' \/ op[s].row.original \notin Urls
  PROVE  Truths'
<1> SUFFICES ASSUME ~Stacked'
             PROVE  /\ route' \notin Urls => own' = route'
                    /\ row' # None => Faithful(row)'
                    /\ \A u \in Slots : Recalls(u)'
  BY DEF Truths, Urls
<1>1. /\ route \notin Urls => own = route
      /\ row # None => Faithful(row)
      /\ \A u \in Slots : Recalls(u)
  BY DEF OwnInv, Truths, Stacked
<1>2. \A r : Faithful(r) => Faithful(r)'
  BY DEF Faithful
<1>3. op[s] # None /\ op[s].row # None => Faithful(op[s].row)
  BY <1>1 DEF Recalls
<1>4. row' # None => Faithful(row')
  BY <1>1, <1>3 DEF Plain, Busy
<1>5. \A u \in Slots : Recalls(u)'
  <2> TAKE u \in Slots
  <2>1. CASE u = s
    <3>1. op'[s] # None /\ op'[s].row # None => Faithful(op'[s].row)
      BY <1>1, <1>3 DEF Plain
    <3>2. QED
      BY <1>2, <2>1, <3>1 DEF Recalls
  <2>2. CASE u # s
    <3>1. Alike(u) /\ Recalls(u)
      BY <1>1, <2>2 DEF Plain
    <3>2. QED
      BY <1>2, <3>1 DEF Recalls, Alike, Urls
  <2>3. QED
    BY <2>1, <2>2
<1>6. QED
  BY <1>1, <1>2, <1>4, <1>5 DEF Faithful

LEMMA AlikeMends ==
  ASSUME NEW u \in Slots, Alike(u), Mends(u)
  PROVE  Mends(u)'
BY DEF Alike, Mends, ProcOf

LEMMA StraightStays ==
  ASSUME OwnInv, NEW s \in Slots, Plain(s), route' = route, odd \subseteq odd',
         Mends(s) => \/ Mends(s)' \/ tap'[App] = None
                     \/ odd' \cap {"stacked", "astray", "lost"} # {}
  PROVE  Straight'
<1> SUFFICES ASSUME odd' \cap {"stacked", "astray", "lost"} = {}, tap'[App] # None
             PROVE  route' = Here(App)' \/ \E u \in Slots : Mends(u)'
  BY DEF Straight
<1>1. tap[App] # None /\ Here(App)' = Here(App)
  BY DEF Plain, Shrinks, Here, Procs
<1>2. route = Here(App) \/ \E u \in Slots : Mends(u)
  BY <1>1 DEF OwnInv, Straight
<1>3. \A u \in Slots : Mends(u) => Mends(u)'
  BY AlikeMends DEF Plain
<1>4. QED
  BY <1>1, <1>2, <1>3

\* A step that leaves the route.
LEMMA QuietOwn ==
  ASSUME TypeInv, OwnInv, ~Overlap, NEW s \in Slots, Plain(s), Mine(s)',
         UNCHANGED <<route, own>>, odd \subseteq odd',
         op[s] # None /\ op[s].at = "record" => Stacked' \/ op[s].row.original \notin Urls,
         Mends(s) => \/ Mends(s)' \/ tap'[App] = None
                     \/ odd' \cap {"stacked", "astray", "lost"} # {}
  PROVE  OwnInv'
BY TruthStays, StraightStays, PlainOwn

-----------------------------------------------------------------------------
(* What the steps have in common                                           *)

LEMMA ExceptAlike ==
  ASSUME TypeInv, NEW s \in Slots, NEW o, op' = [op EXCEPT ![s] = o], route' = route
  PROVE  op'[s] = o /\ \A u \in Slots \ {s} : Alike(u)
BY DEF TypeInv, Alike

\* A task goes on with what it has.
Goes(s, x) ==
  /\ op'[s] # None
  /\ op'[s].at = x /\ op'[s].kind = op[s].kind /\ op'[s].row = op[s].row
  /\ op'[s].plan = op[s].plan

LEMMA GoesIs ==
  ASSUME TypeInv, NEW s \in Slots, op[s] # None, NEW x \in Places,
         op'[s] = [op[s] EXCEPT !.at = x]
  PROVE  Goes(s, x)
<1>1. op[s] \in Ops
  BY CallType
<1>2. [op[s] EXCEPT !.at = x] \in Ops
  BY <1>1 DEF Ops
<1>3. op'[s] # None
  BY <1>2, NoneAssumption
<1>4. QED
  BY <1>1, <1>3 DEF Goes, Ops

LEMMA GotoAlike ==
  ASSUME TypeInv, NEW s \in Slots, op[s] # None, NEW x \in Places, Goto(s, x), route' = route
  PROVE  Goes(s, x) /\ \A u \in Slots \ {s} : Alike(u)
<1>1. op' = [op EXCEPT ![s] = [op[s] EXCEPT !.at = x]]
  BY DEF Goto
<1>2. op'[s] = [op[s] EXCEPT !.at = x] /\ \A u \in Slots \ {s} : Alike(u)
  BY <1>1, ExceptAlike
<1>3. QED
  BY <1>2, GoesIs

LEMMA FinishAlike ==
  ASSUME TypeInv, NEW s \in Slots, op[s] # None, Finish(s), route' = route
  PROVE  EndOf(s, op'[s]) /\ \A u \in Slots \ {s} : Alike(u)
<1>1. op'[s] = Ended(s) /\ \A u \in Slots \ {s} : Alike(u)
  BY ExceptAlike DEF Finish
<1>2. QED
  BY <1>1, EndedIs

LEMMA ChangeAlike ==
  ASSUME TypeInv, NEW s \in Slots, NEW v, NEW o, Change(v, s, o)
  PROVE  route' = v /\ op'[s] = o /\ \A u \in Slots \ {s} : Alike(u)
<1>1. route' = v /\ op' = [u \in Slots |-> IF u = s THEN o ELSE Outdated(u)]
  BY DEF Change
<1>2. \A u \in Slots \ {s} : Alike(u)
  <2> TAKE u \in Slots \ {s}
  <2>1. op'[u] = Outdated(u)
    BY <1>1
  <2>2. op[u] # None => Outdated(u).plan = None
    BY CallType DEF Outdated, Ops
  <2>3. QED
    BY <2>1, <2>2, OutdatedIs DEF Alike
<1>3. QED
  BY <1>1, <1>2

\* A task at a place where it only has to be what it was.
LEMMA EasyMine ==
  ASSUME NEW s \in Slots, op[s] # None, Mine(s), op'[s] # None, op'[s].kind = op[s].kind,
         op'[s].row = op[s].row,
         op'[s].at \notin {"review", "serving", "plan", "prepare", "record", "point", "refind",
                          "relook", "back", "find", "sync", "guard"}
  PROVE  Mine(s)'
BY DEF Mine, Roles, Unused, Distinct, Planned, Aimed, ProcOf

LEMMA EndMine ==
  ASSUME NEW s \in Slots, op[s] # None, Mine(s), EndOf(s, op'[s])
  PROVE  Mine(s)'
<1>1. CASE op'[s] = None
  BY <1>1 DEF Mine, Roles, Unused, Distinct, Planned, Aimed
<1>2. CASE op'[s] # None
  BY <1>2, EasyMine DEF EndOf
<1>3. QED
  BY <1>1, <1>2

\* The tap of a task's process is stopped, or no tap changes.
LEMMA StopShrinks ==
  ASSUME TypeInv, NEW p \in Procs, StopTap(p) \/ UNCHANGED tap
  PROVE  Shrinks /\ (StopTap(p) => tap'[p] = None)
BY DEF StopTap, Shrinks, TypeInv, TypeOK

-----------------------------------------------------------------------------
(* A tap for the route                                                     *)

LEMMA KeptKnown ==
  ASSUME TypeInv, NEW r \in Rows, Kept(r)
  PROVE  r.url \in Known
<1>1. r # None
  BY NoneAssumption
<1>2. CASE row = r
  BY <1>1, <1>2 DEF Known
<1>3. ASSUME NEW w \in Slots, op[w] # None, op[w].row = r
      PROVE  r.url \in Known
  <2> DEFINE K == UNION {{op[s].row.url, op[s].row.original} :
                            s \in {u \in Slots : op[u] # None /\ op[u].row # None}}
  <2>1. w \in {u \in Slots : op[u] # None /\ op[u].row # None}
    BY <1>1, <1>3
  <2>2. r.url \in {op[w].row.url, op[w].row.original}
    BY <1>3
  <2>3. r.url \in K
    BY <2>1, <2>2
  <2>4. K \subseteq Known
    BY Zenon DEF Known
  <2>5. QED
    BY <2>3, <2>4
<1>4. QED
  BY <1>2, <1>3 DEF Kept

\* A tap that is started is on a port that nothing remembers.
LEMMA EnsureFresh ==
  ASSUME TypeInv, NEW p \in Procs, EnsureTap(p), route \in Targets
  PROVE  /\ \A q \in Procs \ {p} : tap'[q] = tap[q]
         /\ tap'[p] # None
         /\ tap[p] # None => tap' = tap
         /\ tap[p] = None => \A r \in Rows : Kept(r) => r.url # Here(p)'
<1>1. CASE tap[p] # None
  BY <1>1 DEF EnsureTap
<1>2. CASE tap[p] = None
  <2>1. PICK n \in {m \in 1..MaxTaps : <<p, m>> \notin Known} :
           tap' = [tap EXCEPT ![p] = [n |-> n, to |-> route, paused |-> FALSE]]
    BY <1>2 DEF EnsureTap
  <2> DEFINE t == [n |-> n, to |-> route, paused |-> FALSE]
  <2>2. t \in Taps /\ t.n = n
    BY DEF Taps
  <2>3. tap'[p] = t /\ \A q \in Procs \ {p} : tap'[q] = tap[q]
    BY <2>1 DEF TypeInv, TypeOK
  <2> HIDE DEF t
  <2>4. tap'[p] # None
    BY <2>2, <2>3, NoneAssumption
  <2>5. Here(p)' = <<p, n>>
    BY <2>2, <2>3, <2>4 DEF Here
  <2>6. QED
    BY <1>2, <2>1, <2>3, <2>4, <2>5, KeptKnown
<1>3. QED
  BY <1>1, <1>2

\* Of the tasks that point the route at a tap, one is at work.
LEMMA OnAlone ==
  ASSUME TypeInv, OwnInv, NEW s \in Slots, NEW u \in Slots, op[s] # None, op[u] # None,
         Busy(s), Busy(u), op[s].kind \in OnKinds, op[u].kind \in OnKinds
  PROVE  s = u
BY DEF OwnInv, Turns, Mine, Roles, ByPeople, Slots, OnKinds

\* A task finds its process's tap, or starts it; what it remembers may be new.
Ensures(s) ==
  /\ \A u \in Slots \ {s} : Alike(u)
  /\ op[s] # None /\ Busy(s) /\ op[s].kind \in OnKinds
  /\ EnsureTap(ProcOf(s)) /\ route \in Targets
  /\ UNCHANGED <<route, row, alive, own>>
  /\ odd \subseteq odd'

\* What was remembered is, but for what the task took in.
LEMMA EnsureKept ==
  ASSUME NEW s \in Slots, Ensures(s), NEW r \in Rows, Kept(r)'
  PROVE  Kept(r) \/ (op'[s] # None /\ op'[s].row = r)
BY DEF Ensures, Kept, Alike

LEMMA EnsureOther ==
  ASSUME TypeInv, OwnInv, NEW s \in Slots, Ensures(s), NEW u \in Slots \ {s},
         \/ op'[s] # None => op'[s].row = op[s].row
         \/ op'[s] # None /\ op'[s].row \in Rows /\ op'[s].row.url = Here(ProcOf(s))'
  PROVE  Mine(u)'
<1>1. Mine(u) /\ Alike(u) /\ ProcOf(u) \in Procs /\ ProcOf(s) \in Procs
  BY SlotType DEF OwnInv, Ensures
<1>2. Roles(u)'
  BY <1>1 DEF Mine, Roles, Alike, Ensures
<1>3. /\ \A q \in Procs \ {ProcOf(s)} : tap'[q] = tap[q]
      /\ tap'[ProcOf(s)] # None
      /\ tap[ProcOf(s)] # None => tap' = tap
      /\ tap[ProcOf(s)] = None => \A r \in Rows : Kept(r) => r.url # Here(ProcOf(s))'
  BY <1>1, EnsureFresh DEF Ensures
<1>4. ASSUME op[u] # None, op[u].at \in {"plan", "prepare", "record", "point"}
      PROVE  FALSE
  BY <1>4, OnAlone, CallType DEF Ensures, Placed, OnPlaces, Busy
<1>5. ASSUME op[u] # None, op[u].at = "review", u # "hand" PROVE u = "cli"
  BY <1>1, <1>5 DEF Mine, Roles, ByPeople
<1>6. op[u] # None /\ u = "cli" => ProcOf(s) # ProcOf(u)
  BY InspectAssumption DEF ProcOf
<1>7. Unused(u)'
  <2> SUFFICES ASSUME op'[u] # None, u = "cli", op'[u].at = "review", tap'[ProcOf(u)] # None,
                      NEW r \in Rows, Kept(r)'
               PROVE  r.url # Here(ProcOf(u))'
    BY <1>1, <1>4, <1>5 DEF Unused, Alike
  <2>1. /\ op[u] # None /\ op[u].at = "review" /\ ProcOf(u) # ProcOf(s)
        /\ tap'[ProcOf(u)] = tap[ProcOf(u)]
    BY <1>1, <1>3, <1>6 DEF Alike
  <2>2. Here(ProcOf(u))' = Here(ProcOf(u))
    BY <2>1 DEF Here
  <2>3. \A q \in Rows : Kept(q) => q.url # Here(ProcOf(u))
    BY <1>1, <2>1 DEF Mine, Unused
  <2>4. CASE Kept(r)
    BY <2>2, <2>3, <2>4
  <2>5. CASE ~Kept(r)
    <3>1. op'[s] # None /\ op'[s].row = r
      BY <2>5, EnsureKept
    <3>2. r.url = Here(ProcOf(s))'
      BY <2>5, <3>1 DEF Kept, Ensures
    <3>3. QED
      BY <1>3, <2>1, <3>2 DEF Here
  <2>6. QED
    BY <2>4, <2>5
<1>8. Distinct(u)' /\ Aimed(u)'
  BY <1>1, <1>4 DEF Distinct, Aimed, Alike
<1>9. Planned(u)'
  BY <1>1 DEF Mine, Planned, Alike
<1>10. QED
  BY <1>2, <1>7, <1>8, <1>9 DEF Mine

LEMMA EnsureOwn ==
  ASSUME TypeInv, OwnInv, ~Overlap, NEW s \in Slots, Ensures(s), Mine(s)', Truths',
         \/ op'[s] # None => op'[s].row = op[s].row
         \/ op'[s] # None /\ op'[s].row \in Rows /\ op'[s].row.url = Here(ProcOf(s))'
               /\ op'[s].row.owner = ProcOf(s),
         \/ Mends(s)' \/ s = "cli"
         \/ odd' \cap {"stacked", "astray", "lost"} # {}
  PROVE  OwnInv'
<1>1. \A u \in Slots : Mine(u)'
  BY EnsureOther
<1>2. ProcOf(s) \in Procs /\ alive[ProcOf(s)]
  BY SlotType DEF OwnInv, Still, Ensures
<1>3. Turns'
  <2>1. \A u \in Slots : Busy(u)' => Busy(u)
    BY DEF Ensures, Busy, Alike
  <2>2. QED
    BY <2>1 DEF OwnInv, Turns, ByPeople, Slots
<1>4. /\ \A q \in Procs \ {ProcOf(s)} : tap'[q] = tap[q]
      /\ tap'[ProcOf(s)] # None
  BY <1>2, EnsureFresh DEF Ensures
<1>5. Still'
  BY <1>2, <1>4, SlotType DEF OwnInv, Still, Ensures, Alike
<1>6. Addressed'
  <2> SUFFICES ASSUME NEW r \in Rows, Kept(r)' PROVE r.url[1] = r.owner
    BY DEF Addressed
  <2>1. CASE Kept(r)
    BY <2>1 DEF OwnInv, Addressed
  <2>2. CASE ~Kept(r)
    <3>1. op'[s] # None /\ op'[s].row = r
      BY <2>2, EnsureKept
    <3>2. r.url = Here(ProcOf(s))' /\ r.owner = ProcOf(s)
      BY <2>2, <3>1 DEF Kept, Ensures
    <3>3. QED
      BY <1>4, <3>2 DEF Here
  <2>3. QED
    BY <2>1, <2>2
<1>7. Straight'
  <2> SUFFICES ASSUME s = "cli", odd' \cap {"stacked", "astray", "lost"} = {}, tap'[App] # None
               PROVE  route' = Here(App)' \/ \E u \in Slots : Mends(u)'
    BY DEF Straight
  <2>1. tap'[App] = tap[App]
    BY <1>4, InspectAssumption DEF ProcOf, Procs
  <2>2. route = Here(App) \/ \E u \in Slots : Mends(u)
    BY <2>1 DEF OwnInv, Straight, Ensures
  <2>3. ~Mends(s)
    BY InspectAssumption DEF Mends, ProcOf
  <2>4. \A u \in Slots : Mends(u) => Mends(u)'
    BY <2>3, AlikeMends DEF Ensures
  <2>5. QED
    BY <2>1, <2>2, <2>4 DEF Ensures, Here
<1>8. QED
  BY <1>1, <1>3, <1>5, <1>6, <1>7 DEF OwnInv

-----------------------------------------------------------------------------
(* The steps                                                               *)

\* What is beside the route, where a task ends or goes on.
Calm == UNCHANGED <<route, alive, own>> /\ odd \subseteq odd' /\ (row' = row \/ row' = None)

LEMMA EndOwn ==
  ASSUME TypeInv, OwnInv, ~Overlap, NEW s \in Slots, op[s] # None, Finish(s), Calm,
         Busy(s) \/ Free(s), op[s].at # "record",
         StopTap(ProcOf(s)) \/ UNCHANGED tap,
         Mends(s) => StopTap(ProcOf(s)) \/ odd' \cap {"stacked", "astray", "lost"} # {}
  PROVE  OwnInv'
<1>1. EndOf(s, op'[s]) /\ \A u \in Slots \ {s} : Alike(u)
  BY FinishAlike DEF Calm
<1>2. Mine(s)'
  BY <1>1, EndMine DEF OwnInv
<1>3. ProcOf(s) \in Procs
  BY SlotType
<1>4. Shrinks /\ (StopTap(ProcOf(s)) => tap'[ProcOf(s)] = None)
  BY <1>3, StopShrinks
<1>5. Plain(s)
  BY <1>1, <1>4 DEF Plain, Calm, EndOf
<1>6. QED
  BY <1>2, <1>4, <1>5, QuietOwn DEF Calm, Mends

LEMMA GoOwn ==
  ASSUME TypeInv, OwnInv, ~Overlap, NEW s \in Slots, op[s] # None, NEW x \in Places, Goto(s, x),
         Calm, Busy(s) \/ Free(s), op[s].at # "record", Shrinks, Mine(s)',
         Mends(s) => x \in {"prepare", "unrecord", "unrecordGone"}
  PROVE  OwnInv'
<1>1. Goes(s, x) /\ \A u \in Slots \ {s} : Alike(u)
  BY GotoAlike DEF Calm
<1>2. Plain(s)
  BY <1>1 DEF Plain, Calm, Goes
<1>3. Mends(s) => Mends(s)'
  BY <1>1 DEF Mends, Goes
<1>4. QED
  BY <1>2, <1>3, QuietOwn DEF Calm

LEMMA PlanOnOwn ==
  ASSUME TypeInv, OwnInv, ~Overlap, NEW s \in Slots, PlanOn(s)
  PROVE  OwnInv'
<1> DEFINE p == ProcOf(s)
<1>1. /\ op[s] # None /\ op[s].at = "plan" /\ Busy(s) /\ op[s] \in Ops /\ op[s].kind \in OnKinds
      /\ p \in Procs /\ Mine(s)
  BY BusyIs, CallType, SlotType DEF PlanOn, Placed, OnPlaces, OwnInv
<1>2. UNCHANGED <<route, row, alive, own>>
  BY DEF PlanOn
<1>3. CASE /\ ~Refuses(p) /\ EnsureTap(p)
           /\ op' = [op EXCEPT ![s].plan = [from |-> route, to |-> Here(p)'],
                               ![s].at = IF op[s].kind = "on" THEN "review" ELSE "prepare"]
           /\ UNCHANGED <<odd, trouble, pause>>
  <2> DEFINE x == IF op[s].kind = "on" THEN "review" ELSE "prepare"
             plan == [from |-> route, to |-> Here(p)']
             o == With(op[s], x, plan, op[s].row)
  <2>1. op' = [op EXCEPT ![s] = o]
    <3>1. op'[s] = o
      BY <1>1, <1>3 DEF With, Ops, TypeInv
    <3>2. op' = [op EXCEPT ![s] = op'[s]]
      BY <1>3 DEF TypeInv
    <3>3. QED
      BY <3>1, <3>2
  <2>2. op'[s] = o /\ \A u \in Slots \ {s} : Alike(u)
    BY <1>2, <2>1, ExceptAlike
  <2>3. o.at = x /\ o.kind = op[s].kind /\ o.row = op[s].row /\ o.plan.from = route /\ o # None
    <3>1. o.at = x /\ o.kind = op[s].kind /\ o.row = op[s].row /\ o.plan.from = route
      BY DEF With
    <3>2. route \in Targets /\ Here(p)' \in Urls
      BY <1>1, <1>3, WebTargets, EnsureIs
    <3>3. plan \in Changes /\ x \in Places
      BY <3>2 DEF Changes, Targets, Places
    <3> HIDE DEF plan, x
    <3>4. o \in Ops
      BY <1>1, <3>3, WithType DEF Ops
    <3>5. QED
      BY <3>1, <3>4, NoneAssumption
  <2> HIDE DEF o
  <2>4. route \in Targets
    BY <1>3, WebTargets
  <2>5. Ensures(s)
    BY <1>1, <1>2, <1>3, <2>2, <2>4 DEF Ensures
  <2>6. \A r \in Rows : Kept(r)' => Kept(r)
    BY <1>1, <2>2, <2>3, <2>5, EnsureKept DEF Kept
  <2>7. Unused(s)'
    <3> SUFFICES ASSUME s # "hand", NEW r \in Rows, Kept(r) PROVE r.url # Here(p)'
      BY <2>6 DEF Unused
    <3>1. CASE tap[p] # None
      <4>1. tap' = tap
        BY <1>1, <1>3, <2>4, <3>1, EnsureFresh
      <4>2. QED
        BY <1>1, <3>1, <4>1 DEF Mine, Unused, Here
    <3>2. CASE tap[p] = None
      BY <1>1, <1>3, <2>4, <3>2, EnsureFresh
    <3>3. QED
      BY <3>1, <3>2
  <2>8. Roles(s)'
    BY <1>1, <1>2, <2>2, <2>3 DEF Mine, Roles, OnKinds, ByPeople, Slots, ProcOf
  <2>9. Mine(s)'
    BY <1>2, <2>2, <2>3, <2>7, <2>8 DEF Mine, Distinct, Planned, Aimed
  <2>10. Truths'
    <3> SUFFICES ASSUME ~Stacked' PROVE \A u \in Slots : Recalls(u)'
      BY <1>2, <1>3 DEF OwnInv, Truths, Stacked, Faithful, Urls
    <3>1. \A u \in Slots : Recalls(u)
      BY <1>3 DEF OwnInv, Truths, Stacked
    <3>2. Recalls(s)'
      BY <1>1, <1>2, <2>2, <2>3, <3>1 DEF Recalls, Faithful, Urls
    <3>3. \A u \in Slots \ {s} : Recalls(u)'
      BY <1>2, <2>2, <3>1 DEF Recalls, Faithful, Alike, Urls
    <3>4. QED
      BY <3>2, <3>3
  <2>11. Mends(s)' \/ s = "cli"
    BY <2>2, <2>3 DEF Mends, ProcOf
  <2>12. QED
    BY <2>2, <2>3, <2>5, <2>9, <2>10, <2>11, EnsureOwn
<1>4. CASE ~Refuses(p) /\ EnsureTap(p) /\ Fault /\ Finish(s) /\ Odd("astray") /\ UNCHANGED pause
  <2>1. EndOf(s, op'[s]) /\ \A u \in Slots \ {s} : Alike(u)
    BY <1>1, <1>2, <1>4, FinishAlike
  <2>2. odd \subseteq odd' /\ "astray" \in odd'
    BY <1>4, OddType
  <2>3. Ensures(s) /\ Mine(s)'
    BY <1>1, <1>2, <1>4, <2>1, <2>2, WebTargets, EndMine DEF Ensures
  <2>4. Truths'
    <3> SUFFICES ASSUME ~Stacked' PROVE \A u \in Slots : Recalls(u)'
      BY <1>2, <2>2 DEF OwnInv, Truths, Stacked, Faithful, Urls
    <3>1. \A u \in Slots : Recalls(u)
      BY <2>2 DEF OwnInv, Truths, Stacked
    <3>2. Recalls(s)'
      BY <1>1, <1>2, <2>1, <3>1 DEF Recalls, Faithful, Urls, EndOf
    <3>3. \A u \in Slots \ {s} : Recalls(u)'
      BY <1>2, <2>1, <3>1 DEF Recalls, Faithful, Alike, Urls
    <3>4. QED
      BY <3>2, <3>3
  <2>5. QED
    BY <2>1, <2>2, <2>3, <2>4, EnsureOwn DEF EndOf
<1>5. CASE Refuse(s) /\ UNCHANGED <<tap, odd>>
  BY <1>1, <1>2, <1>5, EndOwn DEF Refuse, Calm, Mends
<1>6. QED
  BY <1>3, <1>4, <1>5 DEF PlanOn

LEMMA ReviewOwn ==
  ASSUME TypeInv, OwnInv, ~Overlap, NEW s \in Slots, Review(s)
  PROVE  OwnInv'
<1>1. /\ op[s] # None /\ op[s].at = "review" /\ op[s] \in Ops /\ op[s].kind # "pause"
      /\ Free(s) /\ Mine(s)
  BY CallType DEF Review, At, Placed, OwnInv
<1>2. UNCHANGED <<route, row, alive, own, tap>> /\ Shrinks /\ odd \subseteq odd'
  BY BegunType DEF Review, Begins, Shrinks
<1>3. CASE Goto(s, IF op[s].kind = "on" THEN "prepare" ELSE "refind")
  <2> DEFINE x == IF op[s].kind = "on" THEN "prepare" ELSE "refind"
  <2>1. Goes(s, x) /\ \A u \in Slots \ {s} : Alike(u)
    BY <1>1, <1>2, <1>3, GotoAlike DEF Places
  <2>2. \A r \in Rows : Kept(r)' => Kept(r)
    BY <1>1, <1>2, <2>1 DEF Kept, Goes, Alike
  <2>3. Mine(s)'
    BY <1>1, <1>2, <2>1, <2>2 DEF Mine, Roles, Unused, Distinct, Planned, Aimed, Goes, Here, ProcOf
  <2>4. QED
    BY <1>1, <1>2, <1>3, <2>3, GoOwn DEF Calm, Places, Mends
<1>4. CASE Finish(s) /\ odd' = Begun(s) \cup IF op[s].kind = "on" THEN {"astray"} ELSE {}
  BY <1>1, <1>2, <1>4, EndOwn DEF Calm, Mends
<1>5. QED
  BY <1>3, <1>4 DEF Review

LEMMA PrepareOwn ==
  ASSUME TypeInv, OwnInv, ~Overlap, NEW s \in Slots, Prepare(s)
  PROVE  OwnInv'
<1> DEFINE p == ProcOf(s)
<1>1. /\ op[s] # None /\ op[s].at = "prepare" /\ Busy(s) /\ op[s] \in Ops /\ op[s].kind \in OnKinds
      /\ p \in Procs /\ Mine(s)
  BY BusyIs, CallType, SlotType DEF Prepare, Placed, OnPlaces, OwnInv
<1>2. UNCHANGED <<route, row, alive, own>>
  BY DEF Prepare
<1>3. CASE /\ ~Refuses(p) /\ EnsureTap(p)
           /\ op' = [op EXCEPT ![s].row = [original |-> route, url |-> Here(p)', owner |-> p],
                               ![s].at = "record"]
           /\ UNCHANGED <<pause, odd, trouble>>
  <2> DEFINE r == [original |-> route, url |-> Here(p)', owner |-> p]
             o == With(op[s], "record", op[s].plan, r)
  <2>1. /\ route \in Targets /\ Here(p)' \in Urls /\ tap' \in [Procs -> Taps \cup {None}]
    BY <1>1, <1>3, WebTargets, EnsureIs
  <2>2. r \in Rows /\ r.original = route /\ r.url = Here(p)' /\ r.owner = p
    BY <1>1, <2>1 DEF Rows
  <2> HIDE DEF r
  <2>3. op' = [op EXCEPT ![s] = o]
    <3>1. op'[s] = o
      BY <1>1, <1>3 DEF With, Ops, TypeInv, r
    <3>2. op' = [op EXCEPT ![s] = op'[s]]
      BY <1>3 DEF TypeInv
    <3>3. QED
      BY <3>1, <3>2
  <2>4. op'[s] = o /\ \A u \in Slots \ {s} : Alike(u)
    BY <1>2, <2>3, ExceptAlike
  <2>5. o.at = "record" /\ o.kind = op[s].kind /\ o.row = r /\ o.plan = op[s].plan /\ o # None
    <3>1. o.at = "record" /\ o.kind = op[s].kind /\ o.row = r /\ o.plan = op[s].plan
      BY DEF With
    <3>2. o \in Ops
      BY <1>1, <2>2, WithType DEF Ops, Places
    <3>3. QED
      BY <3>1, <3>2, NoneAssumption
  <2> HIDE DEF o
  <2>6. Ensures(s)
    BY <1>1, <1>2, <1>3, <2>1, <2>4 DEF Ensures
  <2>7. /\ \A q \in Procs \ {p} : tap'[q] = tap[q]
        /\ tap'[p] # None
        /\ tap[p] # None => tap' = tap
        /\ tap[p] = None => \A q \in Rows : Kept(q) => q.url # Here(p)'
    BY <1>1, <1>3, <2>1, EnsureFresh
  <2>8. ASSUME s # "hand", NEW q \in Rows, Kept(q) PROVE q.url # r.url
    BY <1>1, <2>2, <2>7, <2>8 DEF Mine, Unused, Here
  <2>9. ASSUME NEW u \in Slots \ {s}, op[u] # None, op[u].row # None PROVE op[u].row.url # r.url
    <3>1. op[u].row \in Rows /\ Kept(op[u].row)
      BY <2>9, CallType DEF Ops, Kept
    <3>2. CASE s # "hand"
      BY <2>8, <3>1, <3>2
    <3>3. CASE tap[p] = None
      BY <2>2, <2>7, <3>1, <3>3
    <3>4. CASE s = "hand" /\ tap[p] # None
      <4>1. ~Busy(u)
        BY <1>1, <3>4 DEF OwnInv, Turns, ByPeople
      <4>2. u = "cli"
        BY <2>9, <3>4, <4>1 DEF OwnInv, Mine, Roles, Busy, ByPeople
      <4>3. op[u].row.url[1] = Cli
        BY <2>9, <3>1, <4>2 DEF OwnInv, Mine, Roles, Addressed
      <4>4. r.url[1] = App
        BY <2>2, <2>7, <3>4 DEF Here, ProcOf
      <4>5. QED
        BY <4>3, <4>4, InspectAssumption
    <3>5. QED
      BY <3>2, <3>3, <3>4
  <2>10. Distinct(s)'
    <3>1. \A u \in Slots : (op'[u] # None /\ op'[u].row # None /\ op'[u].row.url = r.url) => op'[u].row = r
      BY <2>4, <2>5, <2>9 DEF Alike
    <3>2. s # "hand" => (row # None /\ row.url = r.url => row = r)
      BY <2>8 DEF Kept, TypeInv, TypeOK
    <3>3. QED
      BY <1>2, <2>4, <2>5, <3>1, <3>2 DEF Distinct
  <2>11. Roles(s)'
    BY <1>1, <1>2, <2>2, <2>4, <2>5 DEF Mine, Roles, ProcOf
  <2>12. Mine(s)'
    BY <1>1, <1>2, <2>2, <2>4, <2>5, <2>10, <2>11 DEF Mine, Unused, Planned, Aimed
  <2>13. Truths'
    <3> SUFFICES ASSUME ~Stacked' PROVE \A u \in Slots : Recalls(u)'
      BY <1>2, <1>3 DEF OwnInv, Truths, Stacked, Faithful, Urls
    <3>1. \A u \in Slots : Recalls(u)
      BY <1>3 DEF OwnInv, Truths, Stacked
    <3>2. Recalls(s)'
      <4>1. r.original \notin Urls => r.original \in Services
        BY <2>1, <2>2 DEF Targets
      <4>2. r.original \notin Urls => r.url # route
        BY <2>1, <2>2
      <4>3. QED
        BY <1>2, <2>4, <2>5, <4>1, <4>2 DEF Recalls, Faithful, Urls
    <3>3. \A u \in Slots \ {s} : Recalls(u)'
      BY <1>2, <2>4, <3>1 DEF Recalls, Faithful, Alike, Urls
    <3>4. QED
      BY <3>2, <3>3
  <2>14. Mends(s)' \/ s = "cli"
    BY <2>4, <2>5 DEF Mends, ProcOf
  <2>15. QED
    BY <2>2, <2>4, <2>5, <2>6, <2>12, <2>13, <2>14, EnsureOwn
<1>4. CASE Refuse(s) /\ Odd("astray") /\ UNCHANGED tap
  <2>1. odd \subseteq odd' /\ "astray" \in odd'
    BY <1>4, OddType
  <2>2. Calm
    BY <1>2, <2>1 DEF Calm
  <2>3. QED
    BY <1>1, <1>4, <2>1, <2>2, EndOwn DEF Refuse
<1>5. QED
  BY <1>3, <1>4 DEF Prepare

LEMMA RecordOwn ==
  ASSUME TypeInv, OwnInv, ~Overlap, NEW s \in Slots, Record(s)
  PROVE  OwnInv'
<1>1. /\ op[s] # None /\ op[s].at = "record" /\ Busy(s) /\ Mine(s) /\ op[s].row \in Rows
  BY BusyIs, CallType DEF Record, Placed, RowPlaces, Ops, OwnInv
<1>2. /\ row' = op[s].row /\ Goto(s, "point")
      /\ IF op[s].row.original \in Urls THEN Odd("stacked") ELSE UNCHANGED odd
      /\ UNCHANGED <<route, alive, tap, own>>
  BY DEF Record
<1>3. Goes(s, "point") /\ \A u \in Slots \ {s} : Alike(u)
  BY <1>1, <1>2, GotoAlike DEF Places
<1>4. odd \subseteq odd' /\ (Stacked' \/ op[s].row.original \notin Urls)
  BY <1>2, OddType DEF Stacked
<1>5. Plain(s)
  BY <1>1, <1>2, <1>3 DEF Plain, Goes, Shrinks
<1>6. Distinct(s)'
  BY <1>1, <1>2, <1>3 DEF Mine, Distinct, Goes, Alike
<1>7. Mine(s)'
  BY <1>1, <1>2, <1>3, <1>6 DEF Mine, Roles, Unused, Planned, Aimed, Goes, Here, ProcOf
<1>8. Mends(s) => Mends(s)'
  BY <1>3 DEF Mends, Goes
<1>9. QED
  BY <1>1, <1>2, <1>4, <1>5, <1>7, <1>8, QuietOwn

\* A route that is about to be pointed at a tap has the user's service, and so does what
\* is remembered of it.
LEMMA PointTruths ==
  ASSUME TypeInv, OwnInv, NEW s \in Slots, op[s] # None, op[s].at = "point",
         op[s].row \in Rows, op[s].row # None, To(s) = op[s].row.url, Approved(s),
         route' = To(s), UNCHANGED <<row, own>>, \A u \in Slots \ {s} : Alike(u),
         op'[s] # None => op'[s].row = op[s].row, odd \subseteq odd'
  PROVE  Truths' /\ (Stacked' \/ route \notin Urls)
<1> DEFINE R == op[s].row
<1> SUFFICES ASSUME ~Stacked' PROVE Truths' /\ route \notin Urls
  BY DEF Truths
<1>1. Truths /\ ~Stacked /\ Mine(s)
  BY DEF OwnInv, Stacked
<1>2. Faithful(R)
  BY <1>1 DEF Truths, Recalls
<1>3. R.original = route
  <2>1. op[s].plan # None
    <3>1. route \in Targets \cup {None} /\ To(s) \in Targets
      BY ToIs DEF TypeInv, TypeOK
    <3>2. [from |-> route, to |-> To(s)] \in [from : Targets \cup {None}, to : Targets]
      BY <3>1
    <3>3. QED
      BY <3>2, NoneAssumption DEF Approved
  <2>2. op[s].plan.from = route
    BY DEF Approved
  <2>3. QED
    BY <1>1, <2>1, <2>2 DEF Mine, Planned
<1>4. route \notin Urls /\ own = route
  BY <1>1, <1>2, <1>3, NoneAssumption DEF Faithful, Truths
<1>5. route' \in Urls
  BY DEF Rows
<1>6. \A q : Faithful(q) /\ (q.url = R.url => q = R) => Faithful(q)'
  BY <1>2, <1>3, <1>4 DEF Faithful
<1>7. row # None => Faithful(row)'
  BY <1>1, <1>6 DEF Truths, Mine, Distinct
<1>8. ASSUME NEW u \in Slots PROVE Recalls(u)'
  <2>1. CASE u = s
    BY <1>2, <1>6, <2>1 DEF Recalls
  <2>2. CASE u # s
    <3>1. Alike(u) /\ Recalls(u)
      BY <1>1, <2>2 DEF Truths
    <3>2. op[u] # None /\ op[u].row # None => (op[u].row.url = R.url => op[u].row = R)
      BY <1>1 DEF Mine, Distinct
    <3>3. QED
      BY <1>6, <3>1, <3>2 DEF Recalls, Alike, Urls
  <2>3. QED
    BY <2>1, <2>2
<1>9. QED
  BY <1>4, <1>5, <1>7, <1>8 DEF Truths, Faithful, Urls

LEMMA PointOwn ==
  ASSUME TypeInv, OwnInv, ~Overlap, NEW s \in Slots, Point(s)
  PROVE  OwnInv'
<1>1. /\ op[s] # None /\ op[s].at = "point" /\ Busy(s) /\ op[s] \in Ops /\ Placed(op[s])
      /\ op[s].row \in Rows /\ op[s].row # None /\ op[s].kind \in OnKinds
      /\ ProcOf(s) \in Procs /\ Mine(s)
  BY BusyIs, CallType, SlotType DEF Point, Placed, RowPlaces, OnPlaces, Ops, OwnInv
<1>2. UNCHANGED <<row, alive, tap, own>> /\ Shrinks
  BY DEF Point, Shrinks
<1>3. To(s) = op[s].row.url
  BY <1>1, ToIs
<1>4. CASE Declined(s) /\ Goto(s, IF route = None THEN "unrecordGone" ELSE "unrecord")
           /\ UNCHANGED <<route, odd>>
  <2> DEFINE x == IF route = None THEN "unrecordGone" ELSE "unrecord"
  <2>1. Goes(s, x)
    BY <1>1, <1>4, GotoAlike DEF Places
  <2>2. Mine(s)'
    BY <1>1, <2>1, EasyMine DEF Goes
  <2>3. QED
    BY <1>1, <1>2, <1>4, <2>2, GoOwn DEF Calm, Places
<1>5. ASSUME Approved(s), route' = To(s), \A u \in Slots \ {s} : Alike(u), odd \subseteq odd',
             \/ op'[s] = None
             \/ /\ op'[s] # None /\ op'[s].kind = op[s].kind /\ op'[s].row = op[s].row
                /\ op'[s].at \in {"mark", "unrecord"} \/ (op'[s].at = "serving" /\ s = "cli")
      PROVE  OwnInv'
  <2>1. route' = op[s].row.url
    BY <1>3, <1>5
  <2>2. Plain(s)
    BY <1>1, <1>2, <1>5, <2>1 DEF Plain
  <2>3. Mine(s)'
    <3>1. CASE op'[s] # None /\ op'[s].at = "serving"
      BY <1>1, <1>2, <1>5, <2>1, <3>1
      DEF Mine, Roles, Unused, Distinct, Planned, Aimed, OnKinds, ByPeople, ProcOf
    <3>2. CASE op'[s] # None /\ op'[s].at # "serving"
      BY <1>1, <1>5, <2>1, <3>2, EasyMine
    <3>3. CASE op'[s] = None
      BY <3>3 DEF Mine, Roles, Unused, Distinct, Planned, Aimed
    <3>4. QED
      BY <3>1, <3>2, <3>3
  <2>4. Truths' /\ (Stacked' \/ route \notin Urls)
    BY <1>1, <1>2, <1>3, <1>5, <2>1, PointTruths
  <2>5. Straight'
    <3> SUFFICES ASSUME odd' \cap {"stacked", "astray", "lost"} = {}, tap'[App] # None
                 PROVE  route' = Here(App)' \/ \E u \in Slots : Mends(u)'
      BY DEF Straight
    <3>1. tap[App] # None /\ Here(App)' = Here(App)
      BY <1>2 DEF Here
    <3>2. CASE ProcOf(s) = App
      BY <1>1, <2>1, <3>1, <3>2 DEF Mine, Aimed
    <3>3. CASE ProcOf(s) # App
      <4>1. route # Here(App)
        BY <2>4, <3>1, HereIs DEF Stacked, Procs
      <4>2. PICK u \in Slots : Mends(u)
        BY <1>5, <3>1, <4>1 DEF OwnInv, Straight
      <4>3. u # s
        BY <3>3, <4>2 DEF Mends
      <4>4. QED
        BY <1>5, <4>2, <4>3, AlikeMends
    <3>4. QED
      BY <3>2, <3>3
  <2>6. QED
    BY <2>2, <2>3, <2>4, <2>5, PlainOwn
<1>6. \A x \in {"serving", "mark", "unrecord"} :
        LET o == [op[s] EXCEPT !.at = x] IN
        o # None /\ o.at = x /\ o.kind = op[s].kind /\ o.row = op[s].row
  <2> TAKE x \in {"serving", "mark", "unrecord"}
  <2> DEFINE o == [op[s] EXCEPT !.at = x]
  <2>1. o \in Ops /\ o.at = x /\ o.kind = op[s].kind /\ o.row = op[s].row
    BY <1>1 DEF Ops, Places
  <2>2. QED
    BY <2>1, NoneAssumption
<1>7. CASE Approved(s) /\ Change(To(s), s, Pointed(s)) /\ UNCHANGED odd
  <2>1. \/ Pointed(s) = None
        \/ /\ Pointed(s) # None /\ Pointed(s).kind = op[s].kind /\ Pointed(s).row = op[s].row
           /\ Pointed(s).at = "mark" \/ (Pointed(s).at = "serving" /\ s = "cli")
    BY <1>6 DEF Pointed
  <2>2. route' = To(s) /\ op'[s] = Pointed(s) /\ \A u \in Slots \ {s} : Alike(u)
    BY <1>7, ChangeAlike
  <2>3. QED
    BY <1>5, <1>7, <2>1, <2>2
<1>8. CASE Approved(s) /\ Change(To(s), s, [op[s] EXCEPT !.at = "unrecord"]) /\ Odd("lost")
  <2>1. odd \subseteq odd'
    BY <1>8, OddType
  <2>2. /\ route' = To(s) /\ op'[s] = [op[s] EXCEPT !.at = "unrecord"]
        /\ \A u \in Slots \ {s} : Alike(u)
    BY <1>8, ChangeAlike
  <2>3. /\ op'[s] # None /\ op'[s].at = "unrecord" /\ op'[s].kind = op[s].kind
        /\ op'[s].row = op[s].row
    BY <1>6, <2>2
  <2>4. QED
    BY <1>5, <1>8, <2>1, <2>2, <2>3
<1>9. QED
  BY <1>4, <1>7, <1>8 DEF Point

LEMMA UnrecordOwn ==
  ASSUME TypeInv, OwnInv, ~Overlap, NEW s \in Slots, Unrecord(s)
  PROVE  OwnInv'
<1>1. op[s] # None /\ op[s].at \in {"unrecord", "unrecordGone"} /\ Busy(s)
  BY BusyIs DEF Unrecord
<1>2. Finish(s) /\ StopTap(ProcOf(s)) /\ Calm
  BY DEF Unrecord, Calm
<1>3. QED
  BY <1>1, <1>2, EndOwn

\* What a task begins with: nothing it remembers, nothing it planned.
LEMMA NewAlike ==
  ASSUME TypeInv, NEW s \in Slots, NEW x \in Places, NEW kind \in Kinds, NEW tail \in BOOLEAN,
         op' = [op EXCEPT ![s] = NewOp(x, kind, tail)], route' = route
  PROVE  /\ op'[s] # None /\ op'[s].at = x /\ op'[s].kind = kind
         /\ op'[s].row = None /\ op'[s].plan = None
         /\ \A u \in Slots \ {s} : Alike(u)
<1>1. op'[s] = NewOp(x, kind, tail) /\ \A u \in Slots \ {s} : Alike(u)
  BY ExceptAlike
<1>2. NewOp(x, kind, tail) # None
  BY NewType, NoneAssumption
<1>3. QED
  BY <1>1, <1>2 DEF NewOp

LEMMA ShowShrinks ==
  ASSUME TypeInv, NEW p \in Procs, tap[p] # None, NEW on \in BOOLEAN, ShowPaused(p, on)
  PROVE  Shrinks
<1>1. tap[p] \in Taps
  BY DEF TypeInv, TypeOK
<1>2. [tap[p] EXCEPT !.paused = on].n = tap[p].n
  BY <1>1 DEF Taps
<1>3. tap' = [tap EXCEPT ![p] = [tap[p] EXCEPT !.paused = on]]
  BY DEF ShowPaused
<1>4. QED
  BY <1>2, <1>3 DEF Shrinks, TypeInv, TypeOK

\* A task that is neither the sweep's nor the command line's begins something harmless.
LEMMA NewMine ==
  ASSUME NEW s \in {"hand", "loop"}, op'[s] # None, op'[s].row = None, op'[s].plan = None,
         s = "loop" => op'[s].kind \in {"pause", "resume"},
         op'[s].at \in {"check", "guard", "find", "sync", "exit"}
                        \cup (IF s = "hand" THEN {"plan"} ELSE {})
  PROVE  Mine(s)'
BY DEF Mine, Roles, Unused, Distinct, Planned, Aimed, ByPeople

LEMMA SyncOwn ==
  ASSUME TypeInv, OwnInv, ~Overlap, NEW s \in Slots, Sync(s)
  PROVE  OwnInv'
<1> DEFINE tail == op[s] # None /\ op[s].tail
           Return == op' = [op EXCEPT ![s] = IF tail THEN NewOp("check", "pause", TRUE) ELSE None]
           Start(at, kind) == op' = [op EXCEPT ![s] = NewOp(at, kind, tail)]
<1>1. /\ tail \in BOOLEAN
      /\ UNCHANGED <<route, row, alive, own>>
      /\ odd \subseteq odd'
  BY CallType, BegunType DEF Ops, Sync, Begins
<1>2. \/ s = "loop" /\ op[s] = None /\ alive[App] /\ Free(s)
      \/ s = "hand" /\ op[s] # None /\ op[s].at = "sync" /\ Busy(s)
  BY BusyIs DEF Sync
<1>3. Return \/ Start("guard", "pause") \/ Start("find", "resume")
  BY DEF Sync
<1>4. Shrinks
  <2>1. \/ tap[App] # None /\ \E on \in BOOLEAN : ShowPaused(App, on)
        \/ UNCHANGED tap
    BY DEF Sync
  <2>2. QED
    BY <2>1, ShowShrinks DEF Shrinks, Procs
<1>5. /\ "check" \in Places /\ "guard" \in Places /\ "find" \in Places
      /\ "pause" \in Kinds /\ "resume" \in Kinds /\ route' = route
  BY <1>1 DEF Places, Kinds
<1>6. /\ \A u \in Slots \ {s} : Alike(u)
      /\ \/ op'[s] = None
         \/ /\ op'[s] # None /\ op'[s].at \in {"check", "guard", "find"}
            /\ op'[s].kind \in {"pause", "resume"} /\ op'[s].row = None /\ op'[s].plan = None
  <2>1. CASE op' = [op EXCEPT ![s] = None]
    BY <1>1, <2>1, ExceptAlike
  <2>2. CASE op' = [op EXCEPT ![s] = NewOp("check", "pause", TRUE)]
    <3>1. /\ op'[s] # None /\ op'[s].at = "check" /\ op'[s].kind = "pause"
          /\ op'[s].row = None /\ op'[s].plan = None
          /\ \A u \in Slots \ {s} : Alike(u)
      BY <1>1, <1>5, <2>2, NewAlike
    <3>2. QED
      BY <3>1
  <2> HIDE DEF tail
  <2>3. CASE Start("guard", "pause")
    <3>1. /\ op'[s] # None /\ op'[s].at = "guard" /\ op'[s].kind = "pause"
          /\ op'[s].row = None /\ op'[s].plan = None
          /\ \A u \in Slots \ {s} : Alike(u)
      BY <1>1, <1>5, <2>3, NewAlike
    <3>2. QED
      BY <3>1
  <2>4. CASE Start("find", "resume")
    <3>1. /\ op'[s] # None /\ op'[s].at = "find" /\ op'[s].kind = "resume"
          /\ op'[s].row = None /\ op'[s].plan = None
          /\ \A u \in Slots \ {s} : Alike(u)
      BY <1>1, <1>5, <2>4, NewAlike
    <3>2. QED
      BY <3>1
  <2>5. QED
    BY <1>3, <2>1, <2>2, <2>3, <2>4
<1>7. Mine(s)'
  <2>1. CASE op'[s] = None
    BY <2>1 DEF Mine, Roles, Unused, Distinct, Planned, Aimed
  <2>2. CASE op'[s] # None
    BY <1>2, <1>6, <2>2, NewMine
  <2>3. QED
    BY <2>1, <2>2
<1>8. Plain(s)
  BY <1>1, <1>2, <1>4, <1>6 DEF Plain, ProcOf
<1>9. QED
  BY <1>1, <1>2, <1>7, <1>8, QuietOwn DEF Mends

LEMMA PauseOwn ==
  ASSUME TypeInv, OwnInv, ~Overlap, NEW s \in Slots, Guard(s) \/ Mark(s) \/ Save(s) \/ Show(s) \/ Check(s)
  PROVE  OwnInv'
<1>1. /\ op[s] # None /\ op[s].at \in {"guard", "mark", "save", "show", "check"} /\ Busy(s)
      /\ Mine(s)
  BY BusyIs DEF Guard, Mark, Save, Show, Check, OwnInv
<1>2. UNCHANGED <<route, row, alive, own, odd>> /\ Calm
  BY DEF Guard, Mark, Save, Show, Check, Calm
<1>3. Shrinks
  <2>1. (tap[App] # None /\ ShowPaused(App, TRUE)) \/ UNCHANGED tap
    BY DEF Guard, Mark, Save, Show, Check
  <2>2. QED
    BY <2>1, ShowShrinks DEF Shrinks, Procs
<1>4. ASSUME NEW x \in {"show", "plan", "save"}, Goto(s, x),
             x = "plan" => s # "cli" /\ tap[App] = None
      PROVE  OwnInv'
  <2>1. Goes(s, x)
    BY <1>1, <1>2, <1>4, GotoAlike DEF Places
  <2>2. Mine(s)'
    <3>1. CASE x # "plan"
      BY <1>1, <2>1, <3>1, EasyMine DEF Goes
    <3>2. CASE x = "plan"
      <4>1. tap'[ProcOf(s)] = None
        BY <1>3, <1>4, <3>2 DEF Shrinks, ProcOf, Procs
      <4>2. QED
        BY <1>1, <2>1, <3>2, <4>1 DEF Mine, Roles, Unused, Distinct, Planned, Aimed, Goes, ProcOf
    <3>3. QED
      BY <3>1, <3>2
  <2>3. QED
    BY <1>1, <1>2, <1>3, <1>4, <2>2, GoOwn DEF Places, Mends
<1>5. CASE Guard(s)
  <2>1. s # "cli"
    BY <1>1, <1>5 DEF Guard, At, Mine, Roles
  <2>2. Goto(s, "show") \/ (tap[App] = None /\ Goto(s, "plan")) \/ (Finish(s) /\ UNCHANGED tap)
    BY <1>5 DEF Guard
  <2>3. QED
    BY <1>1, <1>2, <1>4, <2>1, <2>2, EndOwn DEF Mends
<1>6. CASE Mark(s) \/ Save(s)
  BY <1>4, <1>6 DEF Mark, Save
<1>7. CASE Show(s) \/ Check(s)
  <2>1. EndOf(s, op'[s]) /\ \A u \in Slots \ {s} : Alike(u)
    <3>1. CASE Finish(s)
      BY <1>1, <1>2, <3>1, FinishAlike
    <3>2. CASE op' = [op EXCEPT ![s] = None]
      BY <1>2, <3>2, ExceptAlike DEF EndOf
    <3>3. QED
      BY <1>7, <3>1, <3>2 DEF Show, Check
  <2>2. Plain(s)
    BY <1>1, <1>2, <1>3, <2>1 DEF Plain, EndOf
  <2>3. Mine(s)'
    BY <1>1, <2>1, EndMine
  <2>4. QED
    BY <1>1, <1>2, <2>2, <2>3, QuietOwn DEF Mends
<1>8. QED
  BY <1>5, <1>6, <1>7

LEMMA FindOwn ==
  ASSUME TypeInv, OwnInv, ~Overlap, NEW s \in Slots, Find(s)
  PROVE  OwnInv'
<1>1. /\ op[s] # None /\ op[s].at \in {"find", "refind"} /\ Busy(s) /\ op[s] \in Ops
      /\ op[s].kind \notin OnKinds /\ Mine(s)
  BY BusyIs, CallType DEF Find, Placed, OffPlaces, OwnInv
<1>2. UNCHANGED <<route, row, alive, own, odd>> /\ Calm
  BY DEF Find, Calm
<1>3. CASE /\ row # None
           /\ op' = [op EXCEPT ![s].row = row,
                               ![s].at = IF @ = "find" THEN "look" ELSE "relook"]
           /\ UNCHANGED tap
  <2> DEFINE x == IF op[s].at = "find" THEN "look" ELSE "relook"
             o == With(op[s], x, op[s].plan, row)
  <2>1. op' = [op EXCEPT ![s] = o]
    <3>1. op'[s] = o
      BY <1>1, <1>3 DEF With, Ops, TypeInv
    <3>2. op' = [op EXCEPT ![s] = op'[s]]
      BY <1>3 DEF TypeInv
    <3>3. QED
      BY <3>1, <3>2
  <2>2. op'[s] = o /\ \A u \in Slots \ {s} : Alike(u)
    BY <1>2, <2>1, ExceptAlike
  <2>3. o.at = x /\ o.kind = op[s].kind /\ o.row = row /\ o.plan = op[s].plan /\ o # None
    <3>1. o.at = x /\ o.kind = op[s].kind /\ o.row = row /\ o.plan = op[s].plan
      BY DEF With
    <3>2. o \in Ops
      BY <1>1, <1>3, WithType DEF Ops, Places, TypeInv, TypeOK
    <3>3. QED
      BY <3>1, <3>2, NoneAssumption
  <2> HIDE DEF o
  <2>4. Roles(s)'
    BY <1>1, <1>2, <2>2, <2>3 DEF Mine, Roles
  <2>5. Mine(s)'
    BY <1>1, <1>2, <2>2, <2>3, <2>4 DEF Mine, Unused, Distinct, Planned, Aimed
  <2>6. Plain(s)
    BY <1>1, <1>2, <1>3, <2>2, <2>3 DEF Plain, Shrinks
  <2>7. QED
    BY <1>1, <1>2, <2>5, <2>6, QuietOwn DEF Mends
<1>4. CASE row = None /\ StopTapIf(Tidying(s), ProcOf(s)) /\ Finish(s)
  BY <1>1, <1>2, <1>4, EndOwn DEF StopTapIf, Mends
<1>5. QED
  BY <1>3, <1>4 DEF Find

LEMMA LookOwn ==
  ASSUME TypeInv, OwnInv, ~Overlap, NEW s \in Slots, Look(s)
  PROVE  OwnInv'
<1>1. /\ op[s] # None /\ op[s].at \in {"look", "relook"} /\ Busy(s) /\ op[s] \in Ops
      /\ op[s].kind \notin OnKinds /\ Mine(s) /\ op[s].row \in Rows /\ op[s].row # None
  BY BusyIs, CallType DEF Look, Placed, OffPlaces, RowPlaces, Ops, OwnInv
<1>2. UNCHANGED <<route, row, alive, own, odd>> /\ Calm
  BY DEF Look, Calm
<1>3. CASE /\ route = op[s].row.url
           /\ op' = [op EXCEPT ![s].at = AfterLook(s),
                               ![s].plan = IF At(s, "look") THEN [from |-> route, to |-> To(s)] ELSE @]
           /\ UNCHANGED tap
  <2> DEFINE x == AfterLook(s)
             new == [from |-> route, to |-> To(s)]
             plan == IF At(s, "look") THEN new ELSE op[s].plan
             o == With(op[s], x, plan, op[s].row)
  <2>1. /\ x \in {"back", "review", "refind"} /\ (x = "review" => op[s].kind = "off")
        /\ x = "refind" => op[s].kind \notin {"off", "tidy"}
    BY DEF AfterLook, Tidying
  <2>2. new \in Changes /\ new.from = route
    BY <1>1, <1>3, ToIs DEF Rows, Targets, Changes
  <2> HIDE DEF new
  <2>3. plan # None => plan.from = route
    BY <1>1, <2>2 DEF At, Mine, Planned
  <2>4. plan \in Changes \cup {None}
    BY <1>1, <2>2 DEF Ops
  <2>5. op' = [op EXCEPT ![s] = o]
    <3>1. op'[s] = o
      BY <1>1, <1>3 DEF With, Ops, TypeInv, new
    <3>2. op' = [op EXCEPT ![s] = op'[s]]
      BY <1>3 DEF TypeInv
    <3>3. QED
      BY <3>1, <3>2
  <2> HIDE DEF plan, x
  <2>6. op'[s] = o /\ \A u \in Slots \ {s} : Alike(u)
    BY <1>2, <2>5, ExceptAlike
  <2>7. /\ o.at = x /\ o.kind = op[s].kind /\ o.row = op[s].row /\ o.plan = plan /\ o # None
    <3>1. o.at = x /\ o.kind = op[s].kind /\ o.row = op[s].row /\ o.plan = plan
      BY DEF With
    <3>2. x \in Places /\ op[s].row \in Rows \cup {None}
      BY <1>1, <2>1 DEF Places
    <3>3. With(op[s], x, plan, op[s].row) \in Ops
      BY <1>1, <2>4, <3>2, WithType
    <3>4. o \in Ops
      BY <3>3
    <3>5. QED
      BY <3>1, <3>4, NoneAssumption
  <2> HIDE DEF o
  <2>8. Roles(s)'
    BY <1>1, <1>2, <2>1, <2>6, <2>7 DEF Mine, Roles, OnKinds, Slots, ByPeople
  <2>9. Unused(s)'
    BY <1>1, <2>1, <2>6, <2>7, <2>8 DEF Unused, Roles, ByPeople
  <2>10. Mine(s)'
    BY <1>1, <1>2, <1>3, <2>1, <2>3, <2>6, <2>7, <2>8, <2>9 DEF Mine, Distinct, Planned, Aimed
  <2>11. Plain(s)
    BY <1>1, <1>2, <1>3, <2>6, <2>7 DEF Plain, Shrinks
  <2>12. QED
    BY <1>1, <1>2, <2>10, <2>11, QuietOwn DEF Mends
<1>4. CASE /\ route # op[s].row.url
           /\ Goto(s, IF At(s, "look") THEN "lapse" ELSE "relapse")
           /\ UNCHANGED tap
  <2> DEFINE x == IF At(s, "look") THEN "lapse" ELSE "relapse"
  <2>1. Goes(s, x)
    BY <1>1, <1>2, <1>4, GotoAlike DEF Places
  <2>2. Mine(s)'
    BY <1>1, <2>1, EasyMine DEF Goes
  <2>3. Shrinks
    BY <1>4 DEF Shrinks
  <2>4. QED
    BY <1>1, <1>2, <1>4, <2>2, <2>3, GoOwn DEF Places, Mends
<1>5. CASE Fault /\ StopTapIf(Tidying(s), ProcOf(s)) /\ Finish(s)
  BY <1>1, <1>2, <1>5, EndOwn DEF StopTapIf, Mends
<1>6. QED
  BY <1>3, <1>4, <1>5 DEF Look

LEMMA ForgetOwn ==
  ASSUME TypeInv, OwnInv, ~Overlap, NEW s \in Slots, Lapse(s) \/ Clear(s)
  PROVE  OwnInv'
<1>1. op[s] # None /\ op[s].at \in {"lapse", "relapse", "clear"} /\ Busy(s)
  BY BusyIs DEF Lapse, Clear
<1>2. Finish(s) /\ Calm /\ (StopTap(ProcOf(s)) \/ UNCHANGED tap)
  BY DEF Lapse, Clear, Calm, StopTapIf
<1>3. op[s].at = "clear" => StopTap(ProcOf(s))
  BY DEF Lapse, Clear, At
<1>4. QED
  BY <1>1, <1>2, <1>3, EndOwn DEF Mends

\* What a route gets back is what the user has there.
LEMMA BackTruths ==
  ASSUME TypeInv, OwnInv, NEW s \in Slots, op[s] # None, op[s].at = "back",
         op[s].row \in Rows, op[s].row # None, To(s) = op[s].row.original, Approved(s),
         route' = To(s), own' = own, row' = row \/ row' = None, \A u \in Slots \ {s} : Alike(u),
         op'[s] # None => op'[s].row = op[s].row, odd \subseteq odd'
  PROVE  /\ Truths' /\ route = op[s].row.url
         /\ ~Stacked' => route' = own /\ own \in Services
<1>1. route = op[s].row.url
  <2>1. route \in Targets \cup {None} /\ To(s) \in Targets
    BY ToIs DEF TypeInv, TypeOK
  <2>2. [from |-> route, to |-> To(s)] \in [from : Targets \cup {None}, to : Targets]
    BY <2>1
  <2>3. op[s].plan # None /\ op[s].plan.from = route
    BY <2>2, NoneAssumption DEF Approved
  <2>4. Mine(s)
    BY DEF OwnInv
  <2>5. QED
    BY <2>3, <2>4 DEF Mine, Planned
<1> SUFFICES ASSUME ~Stacked' PROVE Truths' /\ route' = own /\ own \in Services
  BY <1>1 DEF Truths
<1>2. Truths /\ ~Stacked
  BY DEF OwnInv, Stacked
<1>3. Faithful(op[s].row)
  BY <1>2 DEF Truths, Recalls
<1>4. route' = own /\ own \in Services /\ route' \notin Urls
  BY <1>1, <1>3, NoneAssumption DEF Faithful
<1>5. ASSUME NEW q \in Rows, Faithful(q) PROVE Faithful(q)'
  BY <1>4, <1>5 DEF Faithful, Rows
<1>6. row' # None => Faithful(row)'
  BY <1>2, <1>4 DEF Truths, Faithful, Rows, TypeInv, TypeOK
<1>7. ASSUME NEW u \in Slots PROVE Recalls(u)'
  <2>1. CASE u = s
    BY <1>3, <1>5, <2>1 DEF Recalls
  <2>2. CASE u # s
    <3>1. Alike(u) /\ Recalls(u)
      BY <1>2, <2>2 DEF Truths
    <3>2. op[u] # None /\ op[u].row # None => op[u].row \in Rows
      BY CallType DEF Ops
    <3>3. QED
      BY <1>5, <3>1, <3>2 DEF Recalls, Alike, Urls
  <2>3. QED
    BY <2>1, <2>2
<1>8. QED
  BY <1>4, <1>6, <1>7 DEF Truths

LEMMA BackOwn ==
  ASSUME TypeInv, OwnInv, ~Overlap, NEW s \in Slots, Back(s)
  PROVE  OwnInv'
<1>1. /\ op[s] # None /\ op[s].at = "back" /\ Busy(s) /\ op[s] \in Ops
      /\ op[s].kind \notin OnKinds /\ Mine(s) /\ op[s].row \in Rows /\ op[s].row # None
  BY BusyIs, CallType DEF Back, Placed, OffPlaces, RowPlaces, Ops, OwnInv
<1>2. UNCHANGED <<alive, own>> /\ To(s) = op[s].row.original
  BY <1>1, ToIs DEF Back
<1>3. CASE /\ Approved(s)
           /\ Change(To(s), s, [op[s] EXCEPT !.at = "clear"])
           /\ UNCHANGED <<row, tap, odd, trouble>>
  <2>1. /\ route' = To(s) /\ op'[s] = [op[s] EXCEPT !.at = "clear"]
        /\ \A u \in Slots \ {s} : Alike(u)
    BY <1>3, ChangeAlike
  <2>2. Goes(s, "clear")
    BY <1>1, <2>1, GoesIs DEF Places
  <2>3. Mine(s)'
    BY <1>1, <2>2, EasyMine DEF Goes
  <2>4. Plain(s)
    BY <1>1, <1>2, <1>3, <2>1, <2>2 DEF Plain, Goes, Shrinks
  <2>5. Truths' /\ route = op[s].row.url
    BY <1>1, <1>2, <1>3, <2>1, <2>2, BackTruths DEF Goes
  <2>6. Straight'
    <3> SUFFICES ASSUME odd' \cap {"stacked", "astray", "lost"} = {}, tap'[App] # None
                 PROVE  route' = Here(App)' \/ \E u \in Slots : Mends(u)'
      BY DEF Straight
    <3>1. CASE ProcOf(s) = App
      BY <2>2, <3>1 DEF Mends, Goes
    <3>2. CASE ProcOf(s) # App
      <4>1. tap[App] # None
        BY <1>3
      <4>2. op[s].row.url[1] = Cli
        BY <1>1, <3>2 DEF ProcOf, OwnInv, Mine, Roles, Addressed, Kept
      <4>3. route # Here(App)
        BY <2>5, <4>1, <4>2, InspectAssumption DEF Here
      <4>4. PICK u \in Slots : Mends(u)
        BY <1>3, <4>1, <4>3 DEF OwnInv, Straight
      <4>5. u # s
        BY <3>2, <4>4 DEF Mends
      <4>6. QED
        BY <2>1, <4>4, <4>5, AlikeMends
    <3>3. QED
      BY <3>1, <3>2
  <2>7. QED
    BY <2>3, <2>4, <2>5, <2>6, PlainOwn
<1>4. CASE /\ Declined(s)
           /\ row' = IF Tidying(s) /\ route = None THEN None ELSE row
           /\ StopTapIf(Tidying(s), ProcOf(s))
           /\ Finish(s)
           /\ UNCHANGED <<route, odd>>
  BY <1>1, <1>2, <1>4, EndOwn DEF Calm, StopTapIf, Mends
<1>5. CASE /\ Approved(s) /\ Fault
           /\ Change(To(s), s, Ended(s))
           /\ Odd("lost")
           /\ StopTapIf(Tidying(s), ProcOf(s))
           /\ UNCHANGED row
  <2>1. /\ route' = To(s) /\ op'[s] = Ended(s) /\ \A u \in Slots \ {s} : Alike(u)
    BY <1>5, ChangeAlike
  <2>2. EndOf(s, op'[s])
    BY <1>1, <2>1, EndedIs
  <2>3. Mine(s)'
    BY <1>1, <2>2, EndMine
  <2>4. odd \subseteq odd' /\ "lost" \in odd'
    BY <1>5, OddType
  <2>5. Shrinks
    BY <1>5, SlotType, StopShrinks DEF StopTapIf
  <2>6. Plain(s)
    BY <1>1, <1>2, <1>5, <2>1, <2>2, <2>5 DEF Plain, EndOf
  <2>7. Truths'
    BY <1>1, <1>2, <1>5, <2>1, <2>2, <2>4, BackTruths DEF EndOf
  <2>8. Straight'
    BY <2>4 DEF Straight
  <2>9. QED
    BY <2>3, <2>6, <2>7, <2>8, PlainOwn
<1>6. QED
  BY <1>3, <1>4, <1>5 DEF Back

LEMMA HandOwn ==
  ASSUME TypeInv, OwnInv, ~Overlap, InspectHere \/ SetPaused \/ Quit
  PROVE  OwnInv'
<1>1. /\ "hand" \in Slots /\ op["hand"] = None /\ alive[ProcOf("hand")] /\ Free("hand")
      /\ UNCHANGED <<route, row, alive, tap, own>> /\ odd \subseteq odd'
  BY BegunType DEF Slots, InspectHere, SetPaused, Quit, Idle, Begins
<1>2. PICK x \in {"plan", "find", "sync", "exit"}, kind \in Kinds, tail \in BOOLEAN :
         op' = [op EXCEPT !["hand"] = NewOp(x, kind, tail)]
  BY DEF InspectHere, SetPaused, Quit, Kinds
<1>3. x \in Places /\ route' = route
  BY <1>1 DEF Places
<1>4. /\ op'["hand"] # None /\ op'["hand"].at = x
      /\ op'["hand"].row = None /\ op'["hand"].plan = None
      /\ \A u \in Slots \ {"hand"} : Alike(u)
  BY <1>1, <1>2, <1>3, NewAlike
<1>5. Mine("hand")'
  BY <1>4, NewMine
<1>6. Plain("hand")
  BY <1>1, <1>4 DEF Plain, Shrinks
<1>7. QED
  BY <1>1, <1>5, <1>6, QuietOwn DEF Mends

LEMMA CliOwn ==
  ASSUME TypeInv, OwnInv, ~Overlap, RunCli \/ Interrupt
  PROVE  OwnInv'
<1>1. /\ "cli" \in Slots /\ Free("cli") /\ UNCHANGED <<route, row, tap, own>> /\ odd \subseteq odd'
      /\ "find" \in Places /\ "tidy" \in Kinds /\ "plan" \in Places /\ "on" \in Kinds
      /\ "exit" \in Places /\ route' = route /\ ~Mends("cli") /\ Mine("cli")
      /\ ProcOf("cli") = Cli /\ Cli \in Procs
  BY BegunType, InspectAssumption
  DEF Slots, RunCli, Interrupt, Begins, Places, Kinds, Mends, ProcOf, Procs, OwnInv
<1>2. CASE RunCli
  <2>1. /\ ~alive[Cli] /\ alive' = [alive EXCEPT ![Cli] = TRUE]
        /\ op' = [op EXCEPT !["cli"] = NewOp("plan", "on", FALSE)]
    BY <1>2 DEF RunCli
  <2>2. /\ op'["cli"] # None /\ op'["cli"].at = "plan" /\ op'["cli"].kind = "on"
        /\ op'["cli"].row = None /\ op'["cli"].plan = None
        /\ \A u \in Slots \ {"cli"} : Alike(u)
    BY <1>1, <2>1, NewAlike
  <2>3. tap[Cli] = None /\ op["cli"] = None
    BY <1>1, <2>1 DEF OwnInv, Still
  <2>4. Mine("cli")'
    BY <1>1, <2>2, <2>3 DEF Mine, Roles, Unused, Distinct, Planned, Aimed
  <2>5. alive'[Cli] /\ \A p \in Procs : alive[p] => alive'[p]
    BY <1>1, <2>1 DEF TypeInv, TypeOK
  <2>6. Plain("cli")
    BY <1>1, <2>2, <2>5 DEF Plain, Shrinks
  <2>7. QED
    BY <1>1, <2>3, <2>4, <2>6, QuietOwn
<1>3. CASE Interrupt
  <2>1. op["cli"] # None /\ op["cli"].at = "serving" /\ alive' = alive
    BY <1>3 DEF Interrupt, At
  <2>2. CASE /\ op' = [op EXCEPT !["cli"] = NewOp("find", "tidy", FALSE)]
             /\ row # None /\ row.owner = Cli
    <3>1. /\ op'["cli"] # None /\ op'["cli"].at = "find" /\ op'["cli"].kind = "tidy"
          /\ op'["cli"].row = None /\ op'["cli"].plan = None
          /\ \A u \in Slots \ {"cli"} : Alike(u)
      BY <1>1, <2>2, NewAlike
    <3>2. Mine("cli")'
      BY <1>1, <2>2, <3>1 DEF Mine, Roles, Unused, Distinct, Planned, Aimed, OnKinds
    <3>3. Plain("cli")
      BY <1>1, <2>1, <3>1 DEF Plain, Shrinks
    <3>4. QED
      BY <1>1, <2>1, <3>2, <3>3, QuietOwn
  <2>3. CASE op' = [op EXCEPT !["cli"] = [op["cli"] EXCEPT !.at = "exit"]]
    <3>1. op'["cli"] = [op["cli"] EXCEPT !.at = "exit"] /\ \A u \in Slots \ {"cli"} : Alike(u)
      BY <1>1, <2>3, ExceptAlike
    <3>2. Goes("cli", "exit")
      BY <1>1, <2>1, <3>1, GoesIs
    <3>3. Mine("cli")'
      BY <1>1, <2>1, <3>2, EasyMine DEF Goes
    <3>4. Plain("cli")
      BY <1>1, <2>1, <3>1, <3>2 DEF Plain, Shrinks, Goes
    <3>5. QED
      BY <1>1, <2>1, <3>3, <3>4, QuietOwn
  <2>4. QED
    BY <1>3, <2>2, <2>3 DEF Interrupt
<1>4. QED
  BY <1>2, <1>3

\* What leaves the tasks as they are, or ends them.
LEMMA RestOwn ==
  ASSUME TypeInv, OwnInv, \A u \in Slots : op'[u] = None \/ Alike(u), row' = row, Shrinks,
         Still', Truths', Straight'
  PROVE  OwnInv'
<1>1. \A r \in Rows : Kept(r)' => Kept(r)
  BY DEF Kept, Alike
<1>2. Addressed'
  BY <1>1 DEF OwnInv, Addressed
<1>3. Turns'
  <2>1. \A u \in Slots : Busy(u)' => Busy(u)
    BY DEF Busy, Alike
  <2>2. QED
    BY <2>1 DEF OwnInv, Turns, ByPeople, Slots
<1>4. ASSUME NEW u \in Slots PROVE Mine(u)'
  <2>1. CASE op'[u] = None
    BY <2>1 DEF Mine, Roles, Unused, Distinct, Planned, Aimed
  <2>2. CASE op'[u] # None
    <3>1. Alike(u) /\ Mine(u) /\ ProcOf(u) \in Procs
      BY <2>2, SlotType DEF OwnInv
    <3>2. Unused(u)'
      BY <1>1, <3>1 DEF Mine, Unused, Alike, Shrinks, Here
    <3>3. Distinct(u)'
      BY <3>1 DEF Mine, Distinct, Alike
    <3>4. Aimed(u)'
      BY <3>1 DEF Mine, Aimed, Alike, Shrinks, Here
    <3>5. QED
      BY <3>1, <3>2, <3>3, <3>4 DEF Mine, Roles, Planned, Alike
  <2>3. QED
    BY <2>1, <2>2
<1>5. QED
  BY <1>2, <1>3, <1>4 DEF OwnInv

LEMMA RestTruths ==
  ASSUME OwnInv, \A u \in Slots : op'[u] = None \/ Alike(u), UNCHANGED <<row, route, own, odd>>
  PROVE  Truths'
<1> SUFFICES ASSUME ~Stacked' PROVE \A u \in Slots : Recalls(u)'
  BY DEF OwnInv, Truths, Stacked, Faithful, Urls
<1>1. \A u \in Slots : Recalls(u)
  BY DEF OwnInv, Truths, Stacked
<1>2. QED
  BY <1>1 DEF Recalls, Faithful, Alike, Urls

LEMMA StayOwn ==
  ASSUME TypeInv, OwnInv, AskOver \/ Launch \/ UNCHANGED vars
  PROVE  OwnInv'
<1>1. UNCHANGED <<route, row, tap, op, own, odd>> /\ (alive' = alive \/ alive' = [alive EXCEPT ![App] = TRUE])
  BY DEF AskOver, Launch, vars
<1>2. \A u \in Slots : Alike(u)
  BY <1>1 DEF Alike
<1>3. Shrinks /\ Truths'
  BY <1>1, <1>2, RestTruths DEF Shrinks
<1>4. \A p \in Procs : ~alive'[p] => ~alive[p]
  BY <1>1 DEF TypeInv, TypeOK
<1>5. Still'
  BY <1>1, <1>4 DEF OwnInv, Still
<1>6. Straight'
  BY <1>1 DEF OwnInv, Straight, Mends, Here
<1>7. QED
  BY <1>1, <1>2, <1>3, <1>5, <1>6, RestOwn

LEMMA GoneOwn ==
  ASSUME TypeInv, OwnInv, NEW p \in Procs, Gone(p)
  PROVE  OwnInv'
<1>1. /\ op' = [s \in Slots |-> IF ProcOf(s) = p THEN None ELSE op[s]]
      /\ tap' = [tap EXCEPT ![p] = None] /\ alive' = [alive EXCEPT ![p] = FALSE]
      /\ UNCHANGED <<route, row, own, odd>>
  BY DEF Gone
<1>2. \A u \in Slots : op'[u] = None \/ Alike(u)
  BY <1>1 DEF Alike
<1>3. /\ \A q \in Procs \ {p} : tap'[q] = tap[q] /\ alive'[q] = alive[q]
      /\ tap'[p] = None
  BY <1>1 DEF TypeInv, TypeOK
<1>4. Shrinks
  BY <1>3 DEF Shrinks
<1>5. Still'
  BY <1>1, <1>3 DEF OwnInv, Still
<1>6. Truths'
  BY <1>1, <1>2, RestTruths
<1>7. Straight'
  <2> SUFFICES ASSUME odd' \cap {"stacked", "astray", "lost"} = {}, tap'[App] # None
               PROVE  route' = Here(App)' \/ \E u \in Slots : Mends(u)'
    BY DEF Straight
  <2>1. p # App /\ tap[App] # None /\ Here(App)' = Here(App)
    BY <1>3 DEF Procs, Here
  <2>2. route = Here(App) \/ \E u \in Slots : Mends(u)
    BY <1>1, <2>1 DEF OwnInv, Straight
  <2>3. \A u \in Slots : Mends(u) => Mends(u)'
    BY <1>1, <2>1 DEF Mends, ProcOf
  <2>4. QED
    BY <1>1, <2>1, <2>2, <2>3
<1>8. QED
  BY <1>1, <1>2, <1>4, <1>5, <1>6, <1>7, RestOwn

LEMMA EditOwn ==
  ASSUME TypeInv, OwnInv, EditRoute
  PROVE  OwnInv'
<1>1. PICK v \in Services \cup {None} : own' = v /\ Change(v, None, None)
  BY DEF EditRoute
<1>2. /\ UNCHANGED <<row, alive, tap>>
      /\ IF \E p \in Procs : tap[p] # None THEN Odd("astray") ELSE UNCHANGED odd
  BY DEF EditRoute
<1>3. route' = v /\ op' = [u \in Slots |-> IF u = None THEN None ELSE Outdated(u)]
  BY <1>1 DEF Change
<1>4. \A u \in Slots : op'[u] = None \/ Alike(u)
  <2> TAKE u \in Slots
  <2>1. op'[u] = None \/ op'[u] = Outdated(u)
    BY <1>3
  <2>2. op[u] # None => Outdated(u).plan = None
    BY CallType DEF Outdated, Ops
  <2>3. QED
    BY <2>1, <2>2, OutdatedIs DEF Alike
<1>5. Shrinks /\ odd \subseteq odd'
  BY <1>2, OddType DEF Shrinks
<1>6. Still'
  BY <1>2, <1>4 DEF OwnInv, Still, Alike
<1>7. v \notin Urls
  BY <1>1, NoneAssumption
<1>8. Truths'
  <2> SUFFICES ASSUME ~Stacked'
               PROVE  (row' # None => Faithful(row)') /\ \A u \in Slots : Recalls(u)'
    BY <1>1, <1>3 DEF Truths
  <2>1. (row # None => Faithful(row)) /\ \A u \in Slots : Recalls(u)
    BY <1>5 DEF OwnInv, Truths, Stacked
  <2>2. ASSUME NEW q \in Rows, Faithful(q) PROVE Faithful(q)'
    BY <1>3, <1>7, <2>2 DEF Faithful, Rows
  <2>3. row' # None => Faithful(row)'
    BY <1>2, <1>3, <1>7, <2>1 DEF Faithful, Rows, TypeInv, TypeOK
  <2>4. ASSUME NEW u \in Slots PROVE Recalls(u)'
    <3>1. op[u] # None /\ op[u].row # None => op[u].row \in Rows
      BY CallType DEF Ops
    <3>2. QED
      BY <1>4, <2>1, <2>2, <3>1 DEF Recalls, Alike, Urls
  <2>5. QED
    BY <2>3, <2>4
<1>9. Straight'
  BY <1>2, OddType DEF Straight, Procs
<1>10. QED
  BY <1>2, <1>4, <1>5, <1>6, <1>8, <1>9, RestOwn

LEMMA SweepOwn ==
  ASSUME TypeInv, OwnInv, ~Overlap, Sweep
  PROVE  OwnInv'
<1>1. /\ "sweep" \in Slots /\ op["sweep"] = None /\ alive[ProcOf("sweep")] /\ Free("sweep")
      /\ UNCHANGED <<route, row, alive, tap, own>> /\ odd \subseteq odd' /\ route' = route
      /\ "find" \in Places /\ "tidy" \in Kinds
  BY BegunType DEF Slots, Sweep, Idle, Begins, Places, Kinds
<1>2. CASE op' = [op EXCEPT !["sweep"] = NewOp("find", "tidy", FALSE)]
  <2>1. /\ op'["sweep"] # None /\ op'["sweep"].at = "find" /\ op'["sweep"].kind = "tidy"
        /\ op'["sweep"].row = None /\ op'["sweep"].plan = None
        /\ \A u \in Slots \ {"sweep"} : Alike(u)
    BY <1>1, <1>2, NewAlike
  <2>2. Mine("sweep")'
    BY <2>1 DEF Mine, Roles, Unused, Distinct, Planned, Aimed, OnKinds
  <2>3. Plain("sweep")
    BY <1>1, <2>1 DEF Plain, Shrinks
  <2>4. QED
    BY <1>1, <2>2, <2>3, QuietOwn DEF Mends
<1>3. CASE op' = op
  <2>1. \A u \in Slots : Alike(u)
    BY <1>1, <1>3 DEF Alike
  <2>2. Plain("sweep")
    BY <1>1, <1>3, <2>1 DEF Plain, Shrinks
  <2>3. Mine("sweep")'
    BY <1>1, <1>3 DEF Mine, Roles, Unused, Distinct, Planned, Aimed
  <2>4. QED
    BY <1>1, <2>2, <2>3, QuietOwn DEF Mends
<1>4. QED
  BY <1>2, <1>3 DEF Sweep

-----------------------------------------------------------------------------
(* What comes back                                                         *)

LEMMA AnyOwn ==
  ASSUME TypeInv, OwnInv, ~Overlap, [Next]_vars
  PROVE  OwnInv'
<1>1. CASE \E s \in Slots : Step(s) \/ Review(s) \/ Sync(s)
  <2>1. PICK s \in Slots : Step(s) \/ Review(s) \/ Sync(s)
    BY <1>1
  <2>2. CASE Review(s) \/ Sync(s)
    BY <2>2, ReviewOwn, SyncOwn
  <2>3. CASE PlanOn(s) \/ Prepare(s) \/ Record(s) \/ Point(s) \/ Unrecord(s)
    BY <2>3, PlanOnOwn, PrepareOwn, RecordOwn, PointOwn, UnrecordOwn
  <2>4. CASE Guard(s) \/ Mark(s) \/ Save(s) \/ Show(s) \/ Check(s)
    BY <2>4, PauseOwn
  <2>5. CASE Find(s) \/ Look(s) \/ Lapse(s) \/ Back(s) \/ Clear(s)
    BY <2>5, FindOwn, LookOwn, ForgetOwn, BackOwn
  <2>6. CASE Exit(s)
    BY <2>6, SlotType, GoneOwn DEF Exit
  <2>7. QED
    BY <2>1, <2>2, <2>3, <2>4, <2>5, <2>6 DEF Step
<1>2. CASE InspectHere \/ SetPaused \/ Quit
  BY <1>2, HandOwn
<1>3. CASE RunCli \/ Interrupt
  BY <1>3, CliOwn
<1>4. CASE Sweep
  BY <1>4, SweepOwn
<1>5. CASE \E p \in Procs : Crash(p)
  BY <1>5, GoneOwn DEF Crash
<1>6. CASE EditRoute
  BY <1>6, EditOwn
<1>7. CASE AskOver \/ Launch \/ UNCHANGED vars
  BY <1>7, StayOwn
<1>8. QED
  BY <1>1, <1>2, <1>3, <1>4, <1>5, <1>6, <1>7 DEF Next

LEMMA InitOwn == Init => OwnInv
<1> SUFFICES ASSUME Init PROVE OwnInv
  OBVIOUS
<1>1. /\ \A s \in Slots : op[s] = None
      /\ \A p \in Procs : tap[p] = None
      /\ row = None /\ own = route /\ App \in Procs
  BY DEF Init, Procs
<1>2. \A r \in Rows : ~Kept(r)
  BY <1>1, NoneAssumption DEF Kept
<1>3. \A s \in Slots : Mine(s)
  BY <1>1 DEF Mine, Roles, Unused, Distinct, Planned, Aimed
<1>4. Turns
  BY <1>1 DEF Turns, Busy
<1>5. Addressed /\ Still /\ Straight
  BY <1>1, <1>2 DEF Addressed, Still, Straight
<1>6. Truths
  BY <1>1 DEF Truths, Recalls
<1>7. QED
  BY <1>3, <1>4, <1>5, <1>6 DEF OwnInv

\* A settled pause: every task's end has seen to the tap.
LEMMA OwnHides == OwnInv => PausedIsHidden
<1> SUFFICES ASSUME OwnInv, Settled, odd \cap {"stacked", "astray", "lost"} = {},
                    tap[App] # None
             PROVE  route = Here(App)
  BY DEF PausedIsHidden, Hidden
<1>1. \A s \in Slots : ~Mends(s)
  BY DEF Settled, Mends
<1>2. QED
  BY <1>1 DEF OwnInv, Straight

LEMMA OwnStep ==
  ASSUME TypeInv, OwnInv, [Next]_vars, route' # route, own' = own, ~Stacked
  PROVE  route' \in Urls \/ route' = own
<1>1. CASE EditRoute
  <2>1. route' = own'
    BY <1>1 DEF EditRoute, Change
  <2>2. QED
    BY <2>1
<1>2. ASSUME NEW s \in Slots, Point(s) PROVE route' \in Urls
  <2>1. /\ op[s] # None /\ op[s].row \in Rows /\ op[s].row # None /\ op[s].kind \in OnKinds
    BY <1>2, BusyIs, CallType DEF Point, Placed, RowPlaces, OnPlaces, Ops
  <2>2. route' = op[s].row.url
    BY <1>2, <2>1, ToIs DEF Point, Change
  <2>3. QED
    BY <2>1, <2>2 DEF Rows
<1>3. ASSUME NEW s \in Slots, Back(s) PROVE route' = own
  <2>1. /\ op[s] # None /\ op[s].at = "back" /\ op[s] \in Ops
        /\ op[s].kind \notin OnKinds /\ op[s].row \in Rows /\ op[s].row # None
    BY <1>3, BusyIs, CallType DEF Back, Placed, OffPlaces, RowPlaces, Ops
  <2>2. To(s) = op[s].row.original
    BY <2>1, ToIs
  <2>3. ~UNCHANGED route
    OBVIOUS
  <2>4. /\ Approved(s) /\ UNCHANGED row
        /\ \/ Change(To(s), s, [op[s] EXCEPT !.at = "clear"]) /\ UNCHANGED odd
           \/ Change(To(s), s, Ended(s)) /\ Odd("lost")
    BY <1>3, <2>3, Zenon DEF Back
  <2>5. /\ route' = To(s) /\ \A u \in Slots \ {s} : Alike(u)
        /\ op'[s] = [op[s] EXCEPT !.at = "clear"] \/ op'[s] = Ended(s)
    BY <2>4, ChangeAlike
  <2>6. op'[s] # None => op'[s].row = op[s].row
    BY <2>1, <2>5, GoesIs, EndedIs DEF Goes, EndOf, Places
  <2>7. odd \subseteq odd' /\ ~Stacked'
    BY <2>4, OddType DEF Odd, Stacked
  <2>8. QED
    BY <2>1, <2>2, <2>4, <2>5, <2>6, <2>7, BackTruths
<1>4. EditRoute \/ \E s \in Slots : Point(s) \/ Back(s)
  <2>1. SUFFICES ASSUME ~EditRoute, \A s \in Slots : ~Point(s) /\ ~Back(s) PROVE FALSE
    OBVIOUS
  <2>2. ASSUME NEW s \in Slots, Step(s) \/ Review(s) \/ Sync(s) PROVE FALSE
    <3>1. CASE PlanOn(s) \/ Prepare(s) \/ Record(s) \/ Unrecord(s) \/ Review(s) \/ Sync(s)
      BY <3>1 DEF PlanOn, Prepare, Record, Unrecord, Review, Sync
    <3>2. CASE Guard(s) \/ Mark(s) \/ Save(s) \/ Show(s) \/ Check(s)
      BY <3>2 DEF Guard, Mark, Save, Show, Check
    <3>3. CASE Find(s) \/ Look(s) \/ Lapse(s) \/ Clear(s) \/ Exit(s)
      BY <3>3 DEF Find, Look, Lapse, Clear, Exit, Gone
    <3>4. QED
      BY <2>1, <2>2, <3>1, <3>2, <3>3 DEF Step
  <2>3. QED
    BY <2>1, <2>2 DEF Next, vars, InspectHere, SetPaused, AskOver, RunCli, Interrupt, Quit, Sweep,
                      Crash, Gone, Launch
<1>5. QED
  BY <1>1, <1>2, <1>3, <1>4

LEMMA OwnAlways == ASSUME ~Overlap PROVE Spec => [](TypeInv /\ OwnInv)
<1>1. Init => TypeInv /\ OwnInv
  BY InitTyped, InitOwn
<1>2. TypeInv /\ OwnInv /\ [Next]_vars => (TypeInv /\ OwnInv)'
  BY AnyStep, AnyOwn
<1>3. QED
  BY <1>1, <1>2, PTL DEF Spec

\* "Remembers the original" (routes.rs:1-3): what the row says of a route that points at its
\* tap is the service the user gave it, and never a tap's address, for every number of
\* taps, failures, crashes and requests, as long as what people do does not overlap with
\* the app's own tasks and no tap's address was taken for the user's service.
THEOREM OriginalStays == ASSUME ~Overlap PROVE Spec => []OriginalKept
<1>1. OwnInv => OriginalKept
  BY DEF OwnInv, Truths, Faithful, OriginalKept, Stacked
<1>2. QED
  BY <1>1, OwnAlways, PTL

\* "Visitors get a friendly paused page ... instead of the service" (pause.rs:1-3): when
\* all is settled, the route points at a tap of the app's that shows the page.
THEOREM PausedStaysHidden == ASSUME ~Overlap PROVE Spec => []PausedIsHidden
BY OwnHides, OwnAlways, PTL

\* Pointing a route at a tap and back, wherever processes die and calls fail, gives it no
\* service that the user did not (routes.rs:349-357, 484-521).
THEOREM TheirsOnly == ASSUME ~Overlap PROVE Spec => OnlyTheirs
<1>1. TypeInv /\ OwnInv /\ [Next]_vars =>
        [route' # route /\ own' = own /\ "stacked" \notin odd => route' \in Urls \/ route' = own]_vars
  BY OwnStep DEF Stacked
<1>2. QED
  BY <1>1, OwnAlways, PTL DEF Spec, OnlyTheirs
=============================================================================
