----------------------------- MODULE DriftProofs -----------------------------
(***************************************************************************)
(* What is proved of Drift for every set of rules, tasks and processes.    *)
(***************************************************************************)
EXTENDS Drift, TLAPS

-----------------------------------------------------------------------------
(* Type correctness                                                        *)

\* A check has read a baseline, and there is one from then on.
Placed(o, r) ==
  o.at \in Checking \cup {"lock", "keep"} => o.kind # "change" /\ o.base # Never /\ r # Never

TypeInv == TypeOK /\ \A t \in Tasks : op[t] # None => Placed(op[t], row)

LEMMA NeverHasNoVersion == Never \notin Configs /\ Unset \in Configs /\ Never \in Rows
  BY DriftAssumption DEF Never, Configs, Unset, Rules, Rows

LEMMA InitTypeInv == Init => TypeInv
<1> SUFFICES ASSUME Init PROVE TypeInv
  OBVIOUS
<1>1. config \in Configs
  BY NeverHasNoVersion DEF Init, Configs
<1>2. QED
  BY <1>1, NeverHasNoVersion DEF Init, TypeInv, TypeOK, Rows

\* A call that moves, begins or ends, and what it writes, keep their types.
LEMMA OneCallMoves ==
  ASSUME TypeInv, NEW t \in Tasks, NEW c \in Calls \cup {None}, op' = [op EXCEPT ![t] = c],
         c # None => Placed(c, row'), row # Never => row' # Never,
         config' \in Configs, row' \in Rows, shown' \in Rows, mine' \in Rows,
         lock' \in [Procs -> Tasks \cup {None}],
         odd' \subseteq {"stale", "unshown", "unrecorded"}
  PROVE  TypeInv'
<1>1. op' \in [Tasks -> Calls \cup {None}]
  BY DEF TypeInv, TypeOK
<1>2. ASSUME NEW u \in Tasks, op'[u] # None PROVE Placed(op[u], row)'
  <2>1. CASE u = t
    BY <1>2, <2>1 DEF TypeInv, TypeOK
  <2>2. CASE u # t
    <3>1. op'[u] = op[u] /\ Placed(op[u], row)
      BY <1>2, <2>2 DEF TypeInv, TypeOK
    <3>2. QED
      BY <3>1 DEF Placed
  <2>3. QED
    BY <2>1, <2>2
<1>3. QED
  BY <1>1, <1>2 DEF TypeInv, TypeOK

LEMMA CheckTypes ==
  ASSUME TypeInv, NEW t \in Tasks,
         \/ \E kind \in {"show", "keep", "restore"} : Check(t, kind)
         \/ ReadConfig(t) \/ ReadOurs(t) \/ Adopt(t)
  PROVE  TypeInv'
<1> USE NeverHasNoVersion DEF TypeInv, TypeOK
<1>1. CASE \E kind \in {"show", "keep", "restore"} : Check(t, kind)
  <2>1. PICK kind \in {"show", "keep", "restore"} : Check(t, kind)
    BY <1>1
  <2> DEFINE c == [kind |-> kind, at |-> "config", base |-> row, clicked |-> shown,
                   seen |-> Unset, want |-> Unset.rules, wrote |-> Unset, undo |-> FALSE]
  <2>2. c \in Calls
    BY DEF Calls, Checking, Unset, Configs
  <2>3. Placed(c, row')
    BY <2>1 DEF Check, Placed
  <2>4. QED
    BY <2>1, <2>2, <2>3, OneCallMoves DEF Check
<1>2. CASE ReadConfig(t)
  <2>1. op[t] \in Calls /\ op[t].at = "config" /\ Placed(op[t], row)
    BY <1>2 DEF ReadConfig, At
  <2>2. CASE op' = [op EXCEPT ![t].seen = config, ![t].at = "ours"] /\ UNCHANGED shown
    <3> DEFINE c == [op[t] EXCEPT !.seen = config, !.at = "ours"]
    <3>1. c \in Calls /\ op' = [op EXCEPT ![t] = c]
      BY <2>1, <2>2 DEF Calls, Checking
    <3>2. Placed(c, row')
      BY <1>2, <2>1 DEF ReadConfig, Placed, Checking, Calls
    <3>3. QED
      BY <1>2, <2>2, <3>1, <3>2, OneCallMoves DEF ReadConfig
  <2>3. CASE op' = [op EXCEPT ![t] = None]
    <3>1. shown' \in Rows
      BY <1>2 DEF ReadConfig, NoDrift, End
    <3>2. QED
      BY <1>2, <2>3, <3>1, OneCallMoves DEF ReadConfig
  <2>4. QED
    BY <1>2, <2>2, <2>3 DEF ReadConfig, NoDrift, End
<1>3. CASE ReadOurs(t)
  <2>1. op[t] \in Calls /\ op[t].at = "ours" /\ Placed(op[t], row)
    BY <1>3 DEF ReadOurs, At
  <2>2. op[t].base \in Configs /\ row \in Configs /\ row.rules \in Rules
    BY <2>1 DEF Placed, Checking, Rows, Calls, Configs
  <2> DEFINE read == [op[t] EXCEPT !.base.rules = row.rules]
  <2>3. read \in Calls /\ read.base \in Configs /\ read.kind = op[t].kind
    BY <2>1, <2>2 DEF Calls, Configs, Rows
  <2>4. ASSUME NEW c \in Calls, op' = [op EXCEPT ![t] = c], c.kind = op[t].kind,
               c.base \in Configs, shown' = shown
        PROVE  TypeInv'
    <3>1. Placed(c, row')
      BY <1>3, <2>1, <2>4 DEF ReadOurs, Placed, Checking
    <3>2. QED
      BY <1>3, <2>4, <3>1, OneCallMoves DEF ReadOurs
  <2>5. CASE op' = [op EXCEPT ![t].at = "adopt", ![t].base.rules = row.rules] /\ UNCHANGED shown
    <3> DEFINE c == [read EXCEPT !.at = "adopt"]
    <3>1. c \in Calls /\ c.kind = op[t].kind /\ c.base \in Configs
      BY <2>3 DEF Calls, Checking
    <3>2. op' = [op EXCEPT ![t] = c]
      BY <2>1, <2>5 DEF Calls
    <3>3. QED
      BY <2>4, <2>5, <3>1, <3>2
  <2>6. CASE End(t) /\ shown' = op[t].seen
    <3>1. shown' \in Rows
      BY <2>1, <2>6 DEF Calls, Rows
    <3>2. QED
      BY <1>3, <2>6, <3>1, OneCallMoves DEF ReadOurs, End
  <2>7. CASE op' = [op EXCEPT ![t] = [read EXCEPT !.at = "lock"]] /\ UNCHANGED shown
    <3> DEFINE c == [read EXCEPT !.at = "lock"]
    <3>1. c \in Calls /\ c.kind = op[t].kind /\ c.base \in Configs
      BY <2>3 DEF Calls
    <3>2. QED
      BY <2>4, <2>7, <3>1
  <2>8. CASE op' = [op EXCEPT ![t] = [read EXCEPT !.at = "review", !.want = row.rules]]
             /\ UNCHANGED shown
    <3> DEFINE c == [read EXCEPT !.at = "review", !.want = row.rules]
    <3>1. c \in Calls /\ c.kind = op[t].kind /\ c.base \in Configs
      BY <2>2, <2>3 DEF Calls
    <3>2. QED
      BY <2>4, <2>8, <3>1
  <2>9. op[t].kind \in {"show", "keep", "restore"}
    BY <2>1 DEF Placed, Checking, Calls
  <2>10. CASE Diff(row.rules, op[t].seen.rules) = {}
    BY <1>3, <2>5, <2>10 DEF ReadOurs
  <2>11. CASE Diff(row.rules, op[t].seen.rules) # {}
    <3>1. Found(t)
      BY <1>3, <2>11 DEF ReadOurs
    <3>2. QED
      BY <2>6, <2>7, <2>8, <2>9, <3>1 DEF Found
  <2>12. QED
    BY <2>10, <2>11
<1>4. CASE Adopt(t)
  <2>1. op[t] \in Calls /\ op[t].seen \in Configs
    BY <1>4 DEF Adopt, At, Calls
  <2>2. row' \in Rows /\ row' # Never /\ shown' \in Rows
    BY <1>4, <2>1 DEF Adopt, NoDrift, Rows
  <2>3. odd' \subseteq {"stale", "unshown", "unrecorded"}
    BY <1>4 DEF Adopt, Oddly
  <2>4. QED
    BY <1>4, <2>2, <2>3, OneCallMoves DEF Adopt, NoDrift, End
<1>5. QED
  BY <1>1, <1>2, <1>3, <1>4

LEMMA LockTypes ==
  ASSUME TypeInv, NEW t \in Tasks, TakeLock(t) \/ Keep(t) \/ Review(t) \/ Change(t)
  PROVE  TypeInv'
<1> USE NeverHasNoVersion DEF TypeInv, TypeOK
<1>1. CASE TakeLock(t)
  <2>1. op[t] \in Calls /\ op[t].at \in {"lock", "queued"} /\ Placed(op[t], row)
    BY <1>1 DEF TakeLock, At
  <2> DEFINE c == [op[t] EXCEPT !.at = IF op[t].at = "lock" THEN "keep" ELSE "observe"]
  <2>2. c \in Calls /\ op' = [op EXCEPT ![t] = c]
    BY <1>1, <2>1 DEF TakeLock, Goto, Calls, Locked
  <2>3. Placed(c, row')
    BY <1>1, <2>1 DEF TakeLock, Placed, Calls, Checking
  <2>4. lock' \in [Procs -> Tasks \cup {None}]
    BY <1>1 DEF TakeLock
  <2>5. QED
    BY <1>1, <2>2, <2>3, <2>4, OneCallMoves DEF TakeLock
<1>2. CASE Keep(t)
  <2>1. op[t] \in Calls /\ op[t].seen \in Configs
    BY <1>2 DEF Keep, At, Calls
  <2>2. op[t].clicked.rules \in Rules
    BY <2>1 DEF Calls, Rows, Configs, Never, Unset, Rules
  <2>3. row' \in Rows /\ row' # Never /\ mine' \in Rows
    BY <1>2, <2>1, <2>2 DEF Keep, Rows, Configs
  <2>4. odd' \subseteq {"stale", "unshown", "unrecorded"}
    BY <1>2 DEF Keep
  <2>5. lock' \in [Procs -> Tasks \cup {None}]
    BY <1>2 DEF Keep, Unlock
  <2>6. QED
    BY <1>2, <2>3, <2>4, <2>5, OneCallMoves DEF Keep, End
<1>3. CASE Review(t)
  <2>1. op[t] \in Calls
    BY <1>3 DEF Review, At
  <2>2. CASE op' = [op EXCEPT ![t].seen = config, ![t].at = "queued"]
    <3> DEFINE c == [op[t] EXCEPT !.seen = config, !.at = "queued"]
    <3>1. c \in Calls /\ op' = [op EXCEPT ![t] = c] /\ Placed(c, row')
      BY <2>1, <2>2 DEF Calls, Placed, Checking
    <3>2. QED
      BY <1>3, <3>1, OneCallMoves DEF Review
  <2>3. CASE End(t)
    BY <1>3, <2>3, OneCallMoves DEF Review, End
  <2>4. QED
    BY <1>3, <2>2, <2>3 DEF Review
<1>4. CASE Change(t)
  <2>1. PICK k \in Keys, s \in Services \cup {None} :
          op' = [op EXCEPT ![t] =
            [kind |-> "change", at |-> "queued", base |-> Never, clicked |-> Never,
             seen |-> config, want |-> [config.rules EXCEPT ![k] = s], wrote |-> Unset,
             undo |-> FALSE]]
    BY <1>4 DEF Change
  <2> DEFINE c == [kind |-> "change", at |-> "queued", base |-> Never, clicked |-> Never,
                   seen |-> config, want |-> [config.rules EXCEPT ![k] = s], wrote |-> Unset,
                   undo |-> FALSE]
  <2>2. [config.rules EXCEPT ![k] = s] \in Rules
    BY DEF Configs, Rules
  <2>3. c \in Calls
    BY <2>2 DEF Calls
  <2>4. Placed(c, row')
    BY DEF Placed, Checking
  <2>5. QED
    BY <1>4, <2>1, <2>3, <2>4, OneCallMoves DEF Change
<1>5. QED
  BY <1>1, <1>2, <1>3, <1>4

LEMMA ApplyTypes ==
  ASSUME TypeInv, NEW t \in Tasks,
         Observe(t) \/ ReadVersion(t) \/ Put(t) \/ Record(t) \/ Rest(t) \/ Drop(t)
  PROVE  TypeInv'
<1> USE NeverHasNoVersion DEF TypeInv, TypeOK
<1>1. op[t] \in Calls
  BY DEF Observe, ReadVersion, Put, Record, Rest, Drop, At
<1>2. ASSUME NEW c \in Calls \cup {None}, op' = [op EXCEPT ![t] = c],
             c # None => c.at \in {"read", "put", "record", "rest"},
             config' \in Configs, mine' \in Rows, row' \in Rows, row # Never => row' # Never,
             odd' \subseteq {"stale", "unshown", "unrecorded"}, shown' = shown,
             UNCHANGED lock \/ Unlock(t)
      PROVE  TypeInv'
  <2>1. lock' \in [Procs -> Tasks \cup {None}]
    BY <1>2 DEF Unlock
  <2>2. c # None => Placed(c, row')
    BY <1>2 DEF Placed, Checking
  <2>3. QED
    BY <1>2, <2>1, <2>2, OneCallMoves
<1>3. CASE Observe(t)
  <2> DEFINE c == [op[t] EXCEPT !.at = "read"]
  <2>1. c \in Calls
    BY <1>1 DEF Calls, Locked
  <2>2. CASE Goto(t, "read") /\ UNCHANGED lock
    <3>1. op' = [op EXCEPT ![t] = c]
      BY <2>2 DEF Goto
    <3>2. QED
      BY <1>1, <1>2, <1>3, <2>1, <2>2, <3>1 DEF Observe, Calls
  <2>3. CASE End(t) /\ Unlock(t)
    BY <1>2, <1>3, <2>3 DEF Observe, End
  <2>4. QED
    BY <1>3, <2>2, <2>3 DEF Observe
<1>4. CASE ReadVersion(t)
  <2> DEFINE c == [op[t] EXCEPT !.at = "put"]
  <2>1. c \in Calls
    BY <1>1 DEF Calls, Locked
  <2>2. CASE Goto(t, "put") /\ UNCHANGED lock
    <3>1. op' = [op EXCEPT ![t] = c]
      BY <2>2 DEF Goto
    <3>2. QED
      BY <1>1, <1>2, <1>4, <2>1, <2>2, <3>1 DEF ReadVersion, Calls
  <2>3. CASE End(t) /\ Unlock(t)
    BY <1>2, <1>4, <2>3 DEF ReadVersion, End
  <2>4. QED
    BY <1>4, <2>2, <2>3 DEF ReadVersion
<1>5. CASE Put(t)
  <2> DEFINE new == [version |-> config.version + 1, rules |-> op[t].want]
             c   == [op[t] EXCEPT !.wrote = new, !.at = "record"]
  <2>1. new \in Configs /\ new \in Rows
    BY <1>1 DEF Calls, Configs, Rows
  <2>2. c \in Calls
    BY <1>1, <2>1 DEF Calls, Locked
  <2>3. config' \in Configs /\ mine' \in Rows
    BY <1>5, <2>1 DEF Put
  <2>4. odd' \subseteq {"stale", "unshown", "unrecorded"}
    BY <1>5 DEF Put, Oddly
  <2>5. CASE op' = [op EXCEPT ![t].wrote = new, ![t].at = "record"] /\ UNCHANGED lock
    <3>1. op' = [op EXCEPT ![t] = c]
      BY <2>5
    <3>2. QED
      BY <1>1, <1>2, <1>5, <2>2, <2>3, <2>4, <2>5, <3>1 DEF Put, Calls
  <2>6. CASE End(t) /\ Unlock(t)
    BY <1>2, <1>5, <2>3, <2>4, <2>6 DEF Put, End
  <2>7. QED
    BY <1>5, <2>5, <2>6 DEF Put
<1>6. CASE Record(t)
  <2> DEFINE c == [op[t] EXCEPT !.at = "rest"]
  <2>1. c \in Calls /\ op[t].wrote \in Configs
    BY <1>1 DEF Calls, Locked
  <2>2. op' = [op EXCEPT ![t] = c]
    BY <1>6 DEF Record, Goto
  <2>3. row' \in Rows /\ (row # Never => row' # Never)
    BY <1>6, <2>1 DEF Record, Rows
  <2>4. odd' \subseteq {"stale", "unshown", "unrecorded"}
    BY <1>6 DEF Record, Oddly
  <2>5. QED
    BY <1>1, <1>2, <1>6, <2>1, <2>2, <2>3, <2>4 DEF Record, Calls
<1>7. CASE Rest(t)
  <2> DEFINE c == [op[t] EXCEPT !.undo = TRUE, !.want = op[t].seen.rules, !.at = "read"]
  <2>1. c \in Calls
    BY <1>1 DEF Calls, Locked, Configs
  <2>2. CASE op' = [op EXCEPT ![t].undo = TRUE, ![t].want = op[t].seen.rules, ![t].at = "read"]
             /\ UNCHANGED lock
    <3>1. op' = [op EXCEPT ![t] = c]
      BY <2>2
    <3>2. QED
      BY <1>1, <1>2, <1>7, <2>1, <2>2, <3>1 DEF Rest, Calls
  <2>3. CASE End(t) /\ Unlock(t)
    BY <1>2, <1>7, <2>3 DEF Rest, End
  <2>4. QED
    BY <1>7, <2>2, <2>3 DEF Rest
<1>8. CASE Drop(t)
  <2>1. odd' \subseteq {"stale", "unshown", "unrecorded"}
    BY <1>8 DEF Drop, Oddly
  <2>2. QED
    BY <1>2, <1>8, <2>1 DEF Drop, End
<1>9. QED
  BY <1>3, <1>4, <1>5, <1>6, <1>7, <1>8

LEMMA NextTypeInv == TypeInv /\ [Next]_vars => TypeInv'
<1> SUFFICES ASSUME TypeInv, [Next]_vars PROVE TypeInv'
  OBVIOUS
<1>1. CASE UNCHANGED vars
  BY <1>1 DEF vars, TypeInv, TypeOK, Placed
<1>2. CASE Edit
  <2>1. config' \in Configs
    BY <1>2, DriftAssumption DEF Edit, TypeInv, TypeOK, Configs, Rules
  <2>2. QED
    BY <1>2, <2>1 DEF Edit, TypeInv, TypeOK, Placed
<1>3. ASSUME NEW t \in Tasks,
             \/ \E kind \in {"show", "keep", "restore"} : Check(t, kind)
             \/ ReadConfig(t) \/ ReadOurs(t) \/ Adopt(t)
      PROVE  TypeInv'
  BY <1>3, CheckTypes
<1>4. ASSUME NEW t \in Tasks, TakeLock(t) \/ Keep(t) \/ Review(t) \/ Change(t)
      PROVE  TypeInv'
  BY <1>4, LockTypes
<1>5. ASSUME NEW t \in Tasks,
             Observe(t) \/ ReadVersion(t) \/ Put(t) \/ Record(t) \/ Rest(t) \/ Drop(t)
      PROVE  TypeInv'
  BY <1>5, ApplyTypes
<1>6. QED
  BY <1>1, <1>2, <1>3, <1>4, <1>5 DEF Next

LEMMA Typed == Spec => []TypeInv
  BY InitTypeInv, NextTypeInv, PTL DEF Spec

\* Every variable keeps its type, and a check has a baseline to compare with.
THEOREM TypeCorrect == Spec => []TypeOK
<1>1. TypeInv => TypeOK
  BY DEF TypeInv
<1>2. QED
  BY <1>1, Typed, PTL

-----------------------------------------------------------------------------
(* A check tells the truth                                                 *)

\* A configuration that was read or written is the present one, or an earlier one.
Dated(x, now) == x.version <= now.version /\ (x.version = now.version => x.rules = now.rules)

CallInv(o, now, m) ==
  /\ Dated(o.seen, now) /\ Dated(o.wrote, now)
  /\ o.at = "adopt" => o.seen.rules = o.base.rules
  /\ o.at = "record" => m # Never

HistoryInv ==
  /\ Dated(Unset, config)
  /\ row # Never => Dated(row, config) /\ mine # Never
  /\ \A t \in Tasks : op[t] # None => CallInv(op[t], config, mine)

Recorded == \A t \in Tasks : ~At(t, "record")

\* What the database has is Teitunnel's last word, once that has been recorded.
AgreeInv == odd = {} /\ Recorded => row.rules = mine.rules /\ (row = Never => mine = Never)

ToldInv == TypeInv /\ HistoryInv /\ AgreeInv

LEMMA InitToldInv == Init => ToldInv
<1> SUFFICES ASSUME Init PROVE ToldInv
  OBVIOUS
<1>1. TypeInv
  BY InitTypeInv
<1>2. HistoryInv
  BY NeverHasNoVersion DEF Init, HistoryInv, Dated, Unset, Configs
<1>3. AgreeInv
  BY DEF Init, AgreeInv
<1>4. QED
  BY <1>1, <1>2, <1>3 DEF ToldInv

LEMMA LaterStillDated ==
  ASSUME NEW x \in Configs, NEW now \in Configs, NEW then \in Configs, Dated(x, now),
         then = now \/ then.version = now.version + 1
  PROVE  Dated(x, then)
  BY DEF Dated, Configs

\* One call moves, begins or ends: the others, and the configurations they read, are as
\* they were.
LEMMA OneCallKeeps ==
  ASSUME TypeInv, TypeInv', HistoryInv,
         NEW t \in Tasks, NEW c \in Calls \cup {None}, op' = [op EXCEPT ![t] = c],
         c # None => CallInv(c, config', mine'),
         config' = config \/ config'.version = config.version + 1,
         mine # Never => mine' # Never,
         row' = row \/ (Dated(row', config') /\ mine' # Never)
  PROVE  HistoryInv'
<1> USE NeverHasNoVersion DEF TypeInv, TypeOK
<1>1. Dated(Unset, config')
  BY LaterStillDated DEF HistoryInv
<1>2. row' # Never => Dated(row', config') /\ mine' # Never
  BY LaterStillDated DEF HistoryInv, Rows
<1>3. ASSUME NEW u \in Tasks, op'[u] # None PROVE CallInv(op'[u], config', mine')
  <2>1. CASE u = t
    BY <1>3, <2>1
  <2>2. CASE u # t
    <3>1. op'[u] = op[u] /\ CallInv(op[u], config, mine) /\ op[u] \in Calls
      BY <1>3, <2>2 DEF HistoryInv
    <3>2. op[u].seen \in Configs /\ op[u].wrote \in Configs
      BY <3>1 DEF Calls
    <3>3. QED
      BY <3>1, <3>2, LaterStillDated DEF CallInv
  <2>3. QED
    BY <2>1, <2>2
<1>4. QED
  BY <1>1, <1>2, <1>3 DEF HistoryInv

LEMMA CheckKeepsHistory ==
  ASSUME TypeInv, TypeInv', HistoryInv, NEW t \in Tasks,
         \/ \E kind \in {"show", "keep", "restore"} : Check(t, kind)
         \/ ReadConfig(t) \/ ReadOurs(t) \/ Adopt(t)
  PROVE  HistoryInv'
<1> USE NeverHasNoVersion DEF TypeInv, TypeOK
<1>1. CASE \E kind \in {"show", "keep", "restore"} : Check(t, kind)
  <2>1. PICK kind \in {"show", "keep", "restore"} : Check(t, kind)
    BY <1>1
  <2> DEFINE c == [kind |-> kind, at |-> "config", base |-> row, clicked |-> shown,
                   seen |-> Unset, want |-> Unset.rules, wrote |-> Unset, undo |-> FALSE]
  <2>2. c \in Calls
    BY DEF Calls, Checking, Unset, Configs
  <2>3. CallInv(c, config', mine')
    BY <2>1 DEF Check, CallInv, HistoryInv
  <2>4. QED
    BY <2>1, <2>2, <2>3, OneCallKeeps DEF Check
<1>2. CASE ReadConfig(t)
  <2>1. op[t] \in Calls /\ CallInv(op[t], config, mine)
    BY <1>2 DEF ReadConfig, At, HistoryInv
  <2>2. CASE op' = [op EXCEPT ![t].seen = config, ![t].at = "ours"]
    <3> DEFINE c == [op[t] EXCEPT !.seen = config, !.at = "ours"]
    <3>1. c \in Calls /\ op' = [op EXCEPT ![t] = c]
      BY <2>1, <2>2 DEF Calls, Checking
    <3>2. CallInv(c, config', mine')
      BY <1>2, <2>1 DEF ReadConfig, CallInv, Dated, Calls, Configs
    <3>3. QED
      BY <1>2, <3>1, <3>2, OneCallKeeps DEF ReadConfig
  <2>3. CASE op' = [op EXCEPT ![t] = None]
    BY <1>2, <2>3, OneCallKeeps DEF ReadConfig
  <2>4. QED
    BY <1>2, <2>2, <2>3 DEF ReadConfig, NoDrift, End
<1>3. CASE ReadOurs(t)
  <2>1. op[t] \in Calls /\ CallInv(op[t], config, mine) /\ Placed(op[t], row) /\ op[t].at = "ours"
    BY <1>3 DEF ReadOurs, At, HistoryInv
  <2>2. op[t].base \in Configs /\ row \in Configs /\ row.rules \in Rules /\ op[t].seen.rules \in Rules
    BY <2>1 DEF Placed, Checking, Rows, Calls, Configs
  <2> DEFINE read == [op[t] EXCEPT !.base.rules = row.rules]
  <2>3. /\ read \in Calls /\ read.base \in Configs /\ read.base.rules = row.rules
        /\ read.seen = op[t].seen /\ read.wrote = op[t].wrote
    BY <2>1, <2>2 DEF Calls, Configs, Rows
  <2>4. ASSUME NEW c \in Calls, op' = [op EXCEPT ![t] = c], c.seen = op[t].seen,
               c.wrote = op[t].wrote, c.at # "record",
               c.at = "adopt" => c.seen.rules = c.base.rules
        PROVE  HistoryInv'
    <3>1. CallInv(c, config', mine')
      BY <1>3, <2>1, <2>4 DEF ReadOurs, CallInv
    <3>2. QED
      BY <1>3, <2>4, <3>1, OneCallKeeps DEF ReadOurs
  <2>5. CASE /\ Diff(row.rules, op[t].seen.rules) = {}
             /\ op' = [op EXCEPT ![t].at = "adopt", ![t].base.rules = row.rules]
    <3> DEFINE c == [read EXCEPT !.at = "adopt"]
    <3>1. row.rules = op[t].seen.rules
      <4>1. \A k \in Keys : row.rules[k] = op[t].seen.rules[k]
        BY <2>5 DEF Diff
      <4>2. QED
        BY <2>2, <4>1 DEF Rules
    <3>2. c \in Calls /\ c.seen = op[t].seen /\ c.wrote = op[t].wrote /\ c.base.rules = row.rules
          /\ c.at = "adopt"
      BY <2>3 DEF Calls, Checking
    <3>3. op' = [op EXCEPT ![t] = c]
      BY <2>1, <2>5, ZenonT(60) DEF Calls
    <3>4. QED
      BY <2>4, <3>1, <3>2, <3>3
  <2>6. CASE End(t)
    BY <1>3, <2>6, OneCallKeeps DEF ReadOurs, End
  <2>7. CASE op' = [op EXCEPT ![t] = [read EXCEPT !.at = "lock"]]
    <3> DEFINE c == [read EXCEPT !.at = "lock"]
    <3>1. c \in Calls /\ c.seen = op[t].seen /\ c.wrote = op[t].wrote /\ c.at = "lock"
      BY <2>3 DEF Calls
    <3>2. QED
      BY <2>4, <2>7, <3>1
  <2>8. CASE op' = [op EXCEPT ![t] = [read EXCEPT !.at = "review", !.want = row.rules]]
    <3> DEFINE c == [read EXCEPT !.at = "review", !.want = row.rules]
    <3>1. c \in Calls /\ c.seen = op[t].seen /\ c.wrote = op[t].wrote /\ c.at = "review"
      BY <2>2, <2>3 DEF Calls
    <3>2. QED
      BY <2>4, <2>8, <3>1
  <2>9. op[t].kind \in {"show", "keep", "restore"}
    BY <2>1 DEF Placed, Checking, Calls
  <2>10. CASE Diff(row.rules, op[t].seen.rules) = {}
    BY <1>3, <2>5, <2>10 DEF ReadOurs
  <2>11. CASE Diff(row.rules, op[t].seen.rules) # {}
    <3>1. Found(t)
      BY <1>3, <2>11 DEF ReadOurs
    <3>2. QED
      BY <2>6, <2>7, <2>8, <2>9, <3>1 DEF Found
  <2>12. QED
    BY <2>10, <2>11
<1>4. CASE Adopt(t)
  <2>1. Dated(op[t].seen, config) /\ Placed(op[t], row) /\ op[t].at = "adopt"
    BY <1>4 DEF Adopt, At, HistoryInv, CallInv
  <2>2. Dated(row', config') /\ mine' # Never
    BY <1>4, <2>1 DEF Adopt, Placed, Checking, HistoryInv
  <2>3. QED
    BY <1>4, <2>2, OneCallKeeps DEF Adopt, NoDrift, End
<1>5. QED
  BY <1>1, <1>2, <1>3, <1>4

LEMMA LockKeepsHistory ==
  ASSUME TypeInv, TypeInv', HistoryInv, NEW t \in Tasks,
         TakeLock(t) \/ Keep(t) \/ Review(t) \/ Change(t)
  PROVE  HistoryInv'
<1> USE NeverHasNoVersion DEF TypeInv, TypeOK
<1>1. CASE TakeLock(t)
  <2>1. op[t] \in Calls /\ CallInv(op[t], config, mine)
    BY <1>1 DEF TakeLock, At, HistoryInv
  <2> DEFINE c == [op[t] EXCEPT !.at = IF op[t].at = "lock" THEN "keep" ELSE "observe"]
  <2>2. c \in Calls /\ op' = [op EXCEPT ![t] = c]
    BY <1>1, <2>1 DEF TakeLock, Goto, Calls, Locked
  <2>3. CallInv(c, config', mine')
    BY <1>1, <2>1 DEF TakeLock, CallInv, Calls
  <2>4. QED
    BY <1>1, <2>2, <2>3, OneCallKeeps DEF TakeLock
<1>2. CASE Keep(t)
  <2>1. Dated(op[t].seen, config) /\ op[t].seen \in Configs
    BY <1>2 DEF Keep, At, HistoryInv, CallInv, Calls
  <2>2. mine'.version = op[t].seen.version /\ op[t].seen.version \in Nat
    BY <1>2, <2>1 DEF Keep, Configs
  <2>3. mine' # Never
    BY <2>2, DriftAssumption DEF Never
  <2>4. Dated(row', config')
    BY <1>2, <2>1 DEF Keep
  <2>5. QED
    BY <1>2, <2>3, <2>4, OneCallKeeps DEF Keep, End
<1>3. CASE Review(t)
  <2>1. op[t] \in Calls /\ CallInv(op[t], config, mine)
    BY <1>3 DEF Review, At, HistoryInv
  <2>2. CASE op' = [op EXCEPT ![t].seen = config, ![t].at = "queued"]
    <3> DEFINE c == [op[t] EXCEPT !.seen = config, !.at = "queued"]
    <3>1. c \in Calls /\ op' = [op EXCEPT ![t] = c]
      BY <2>1, <2>2 DEF Calls
    <3>2. CallInv(c, config', mine')
      BY <1>3, <2>1 DEF Review, CallInv, Dated, Calls, Configs
    <3>3. QED
      BY <1>3, <3>1, <3>2, OneCallKeeps DEF Review
  <2>3. CASE End(t)
    BY <1>3, <2>3, OneCallKeeps DEF Review, End
  <2>4. QED
    BY <1>3, <2>2, <2>3 DEF Review
<1>4. CASE Change(t)
  <2>1. PICK k \in Keys, s \in Services \cup {None} :
          op' = [op EXCEPT ![t] =
            [kind |-> "change", at |-> "queued", base |-> Never, clicked |-> Never,
             seen |-> config, want |-> [config.rules EXCEPT ![k] = s], wrote |-> Unset,
             undo |-> FALSE]]
    BY <1>4 DEF Change
  <2> DEFINE c == [kind |-> "change", at |-> "queued", base |-> Never, clicked |-> Never,
                   seen |-> config, want |-> [config.rules EXCEPT ![k] = s], wrote |-> Unset,
                   undo |-> FALSE]
  <2>2. [config.rules EXCEPT ![k] = s] \in Rules
    BY DEF Configs, Rules
  <2>3. c \in Calls
    BY <2>2 DEF Calls
  <2>4. CallInv(c, config', mine')
    BY <1>4 DEF Change, CallInv, Dated, HistoryInv, Configs
  <2>5. QED
    BY <1>4, <2>1, <2>3, <2>4, OneCallKeeps DEF Change
<1>5. QED
  BY <1>1, <1>2, <1>3, <1>4

LEMMA ApplyKeepsHistory ==
  ASSUME TypeInv, TypeInv', HistoryInv, NEW t \in Tasks,
         Observe(t) \/ ReadVersion(t) \/ Put(t) \/ Record(t) \/ Rest(t) \/ Drop(t)
  PROVE  HistoryInv'
<1> USE NeverHasNoVersion DEF TypeInv, TypeOK
<1>1. op[t] \in Calls /\ CallInv(op[t], config, mine)
  BY DEF Observe, ReadVersion, Put, Record, Rest, Drop, At, HistoryInv
<1>2. ASSUME NEW c \in Calls \cup {None}, op' = [op EXCEPT ![t] = c],
             c # None => /\ c.at \in {"read", "put", "rest"}
                         /\ c.seen = op[t].seen /\ c.wrote = op[t].wrote,
             UNCHANGED <<config, row, mine>>
      PROVE  HistoryInv'
  <2>1. c # None => CallInv(c, config', mine')
    BY <1>1, <1>2 DEF CallInv
  <2>2. QED
    BY <1>2, <2>1, OneCallKeeps
<1>3. CASE Observe(t)
  <2> DEFINE c == [op[t] EXCEPT !.at = "read"]
  <2>1. c \in Calls /\ c.at = "read" /\ c.seen = op[t].seen /\ c.wrote = op[t].wrote
    BY <1>1 DEF Calls, Locked
  <2>2. op' = [op EXCEPT ![t] = c] \/ op' = [op EXCEPT ![t] = None]
    BY <1>3 DEF Observe, Goto, End
  <2>3. QED
    BY <1>2, <1>3, <2>1, <2>2 DEF Observe
<1>4. CASE ReadVersion(t)
  <2> DEFINE c == [op[t] EXCEPT !.at = "put"]
  <2>1. c \in Calls /\ c.at = "put" /\ c.seen = op[t].seen /\ c.wrote = op[t].wrote
    BY <1>1 DEF Calls, Locked
  <2>2. op' = [op EXCEPT ![t] = c] \/ op' = [op EXCEPT ![t] = None]
    BY <1>4 DEF ReadVersion, Goto, End
  <2>3. QED
    BY <1>2, <1>4, <2>1, <2>2 DEF ReadVersion
<1>5. CASE Put(t)
  <2> DEFINE new == [version |-> config.version + 1, rules |-> op[t].want]
             c   == [op[t] EXCEPT !.wrote = new, !.at = "record"]
  <2>1. new \in Configs /\ new # Never
    BY <1>1 DEF Calls, Configs
  <2>2. c \in Calls /\ c.at = "record" /\ c.seen = op[t].seen /\ c.wrote = new
    BY <1>1, <2>1 DEF Calls, Locked
  <2>3. CASE config' = new /\ mine' = new
    <3>1. Dated(op[t].seen, config')
      BY <1>1, <2>1, <2>3, LaterStillDated DEF CallInv, Calls
    <3>2. CallInv(c, config', mine')
      BY <2>1, <2>2, <2>3, <3>1 DEF CallInv, Dated, Configs
    <3>3. op' = [op EXCEPT ![t] = c] \/ op' = [op EXCEPT ![t] = None]
      BY <1>5 DEF Put, End
    <3>4. QED
      BY <1>5, <2>1, <2>2, <2>3, <3>2, <3>3, OneCallKeeps DEF Put
  <2>4. CASE End(t) /\ UNCHANGED <<config, mine>>
    BY <1>2, <1>5, <2>4 DEF Put, End
  <2>5. QED
    BY <1>5, <2>3, <2>4 DEF Put
<1>6. CASE Record(t)
  <2> DEFINE c == [op[t] EXCEPT !.at = "rest"]
  <2>1. c \in Calls /\ c.at = "rest" /\ c.seen = op[t].seen /\ c.wrote = op[t].wrote
    BY <1>1 DEF Calls, Locked
  <2>2. op' = [op EXCEPT ![t] = c]
    BY <1>6 DEF Record, Goto
  <2>3. CallInv(c, config', mine')
    BY <1>1, <1>6, <2>1 DEF Record, CallInv
  <2>4. row' = row \/ (Dated(row', config') /\ mine' # Never)
    BY <1>1, <1>6 DEF Record, CallInv, At
  <2>5. QED
    BY <1>6, <2>1, <2>2, <2>3, <2>4, OneCallKeeps DEF Record
<1>7. CASE Rest(t)
  <2> DEFINE c == [op[t] EXCEPT !.undo = TRUE, !.want = op[t].seen.rules, !.at = "read"]
  <2>1. c \in Calls /\ c.at = "read" /\ c.seen = op[t].seen /\ c.wrote = op[t].wrote
    BY <1>1 DEF Calls, Locked, Configs
  <2>2. op' = [op EXCEPT ![t] = c] \/ op' = [op EXCEPT ![t] = None]
    BY <1>7 DEF Rest, End
  <2>3. QED
    BY <1>2, <1>7, <2>1, <2>2 DEF Rest
<1>8. CASE Drop(t)
  BY <1>2, <1>8 DEF Drop, End
<1>9. QED
  BY <1>3, <1>4, <1>5, <1>6, <1>7, <1>8

LEMMA NextHistoryInv == TypeInv /\ TypeInv' /\ HistoryInv /\ [Next]_vars => HistoryInv'
<1> SUFFICES ASSUME TypeInv, TypeInv', HistoryInv, [Next]_vars PROVE HistoryInv'
  OBVIOUS
<1>1. CASE UNCHANGED vars
  BY <1>1 DEF vars, HistoryInv
<1>2. CASE Edit
  <2>1. config' \in Configs /\ config'.version = config.version + 1
    BY <1>2 DEF Edit, TypeInv, TypeOK
  <2>2. ASSUME NEW x \in Configs, Dated(x, config) PROVE Dated(x, config')
    BY <2>1, <2>2, LaterStillDated DEF TypeInv, TypeOK
  <2>3. \A t \in Tasks : op[t] # None => op[t].seen \in Configs /\ op[t].wrote \in Configs
    BY DEF TypeInv, TypeOK, Calls
  <2>4. row # Never => row \in Configs
    BY DEF TypeInv, TypeOK, Rows
  <2>5. QED
    BY <1>2, <2>2, <2>3, <2>4, NeverHasNoVersion DEF Edit, HistoryInv, CallInv
<1>3. ASSUME NEW t \in Tasks,
             \/ \E kind \in {"show", "keep", "restore"} : Check(t, kind)
             \/ ReadConfig(t) \/ ReadOurs(t) \/ Adopt(t)
      PROVE  HistoryInv'
  BY <1>3, CheckKeepsHistory
<1>4. ASSUME NEW t \in Tasks, TakeLock(t) \/ Keep(t) \/ Review(t) \/ Change(t)
      PROVE  HistoryInv'
  BY <1>4, LockKeepsHistory
<1>5. ASSUME NEW t \in Tasks,
             Observe(t) \/ ReadVersion(t) \/ Put(t) \/ Record(t) \/ Rest(t) \/ Drop(t)
      PROVE  HistoryInv'
  BY <1>5, ApplyKeepsHistory
<1>6. QED
  BY <1>1, <1>2, <1>3, <1>4, <1>5 DEF Next

\* A call that was not at its record leaves no record to be written behind.
LEMMA OthersRecorded ==
  ASSUME TypeInv, NEW t \in Tasks, NEW c, op' = [op EXCEPT ![t] = c], ~At(t, "record"), Recorded'
  PROVE  Recorded
<1>1. ASSUME NEW u \in Tasks, u # t PROVE op'[u] = op[u]
  BY <1>1 DEF TypeInv, TypeOK
<1>2. QED
  BY <1>1 DEF Recorded, At

\* What a call does to the database, or to Teitunnel's last word, keeps them agreed.
LEMMA WritesAgree ==
  ASSUME TypeInv, HistoryInv, AgreeInv, NEW t \in Tasks,
         Adopt(t) \/ Keep(t) \/ Put(t) \/ Record(t) \/ Drop(t)
  PROVE  AgreeInv'
<1> USE DEF TypeInv, TypeOK
<1> SUFFICES ASSUME odd' = {}, Recorded'
             PROVE  row'.rules = mine'.rules /\ (row' = Never => mine' = Never)
  BY DEF AgreeInv
<1>1. CASE Adopt(t)
  <2>1. op[t].seen.rules = op[t].base.rules /\ row = op[t].base /\ odd = {} /\ mine' = mine
    BY <1>1 DEF Adopt, Oddly, Stale, At, HistoryInv, CallInv
  <2>2. Recorded
    BY <1>1, OthersRecorded DEF Adopt, NoDrift, End, At
  <2>3. row'.rules = mine'.rules
    BY <1>1, <2>1, <2>2 DEF Adopt, AgreeInv
  <2>4. row' # Never
    BY <1>1, NeverHasNoVersion DEF Adopt, At, Calls
  <2>5. QED
    BY <2>3, <2>4
<1>2. CASE Keep(t)
  <2>1. op[t].clicked.rules = op[t].seen.rules
    BY <1>2 DEF Keep
  <2>2. row' # Never
    BY <1>2, NeverHasNoVersion DEF Keep, At, Calls
  <2>3. QED
    BY <1>2, <2>1, <2>2 DEF Keep
<1>3. CASE Put(t)
  <2> DEFINE new == [version |-> config.version + 1, rules |-> op[t].want]
             c   == [op[t] EXCEPT !.wrote = new, !.at = "record"]
  <2>1. op' # [op EXCEPT ![t].wrote = new, ![t].at = "record"]
    <3>1. SUFFICES ASSUME op' = [op EXCEPT ![t].wrote = new, ![t].at = "record"] PROVE FALSE
      OBVIOUS
    <3>2. op[t] \in Calls
      BY <1>3 DEF Put, At
    <3>3. op'[t] = c /\ c.at = "record"
      BY <3>1, <3>2 DEF Calls
    <3>4. op'[t] # None
      <4>1. new \in Configs
        BY <3>2 DEF Calls, Configs
      <4>2. c \in Calls
        BY <3>2, <4>1 DEF Calls, Locked
      <4>3. QED
        BY <3>3, <4>2, NoneAssumption
    <3>5. QED
      BY <3>3, <3>4 DEF Recorded, At
  <2>2. ~Oddly("unrecorded", TRUE)
    BY DEF Oddly
  <2>3. End(t) /\ UNCHANGED <<config, mine, odd, row>>
    BY <1>3, <2>1, <2>2 DEF Put
  <2>4. Recorded
    BY <1>3, <2>3, OthersRecorded DEF Put, End, At
  <2>5. QED
    BY <2>3, <2>4 DEF AgreeInv
<1>4. CASE Record(t)
  <2>1. row' = op[t].wrote /\ mine = op[t].wrote /\ mine' = mine
    BY <1>4 DEF Record, Oddly
  <2>2. QED
    BY <2>1
<1>5. CASE Drop(t)
  <2>1. ~At(t, "record") /\ odd = {}
    BY <1>5 DEF Drop, Oddly
  <2>2. Recorded
    BY <1>5, <2>1, OthersRecorded DEF Drop, End
  <2>3. QED
    BY <1>5, <2>1, <2>2 DEF Drop, AgreeInv
<1>6. QED
  BY <1>1, <1>2, <1>3, <1>4, <1>5

LEMMA OthersAgree ==
  ASSUME TypeInv, TypeInv', AgreeInv, NEW t \in Tasks, UNCHANGED <<row, mine, odd>>,
         \A u \in Tasks : u # t => op'[u] = op[u], ~At(t, "record")
  PROVE  AgreeInv'
<1>1. Recorded' => Recorded
  BY DEF Recorded, At
<1>2. QED
  BY <1>1 DEF AgreeInv

LEMMA NextAgreeInv == TypeInv /\ TypeInv' /\ HistoryInv /\ AgreeInv /\ [Next]_vars => AgreeInv'
<1> SUFFICES ASSUME TypeInv, TypeInv', HistoryInv, AgreeInv, [Next]_vars PROVE AgreeInv'
  OBVIOUS
<1> USE DEF TypeInv, TypeOK
<1>1. CASE UNCHANGED vars \/ Edit
  BY <1>1 DEF vars, Edit, AgreeInv, Recorded, At
<1>2. ASSUME NEW t \in Tasks, Adopt(t) \/ Keep(t) \/ Put(t) \/ Record(t) \/ Drop(t)
      PROVE  AgreeInv'
  BY <1>2, WritesAgree
<1>3. ASSUME NEW t \in Tasks, \E kind \in {"show", "keep", "restore"} : Check(t, kind)
      PROVE  AgreeInv'
  BY <1>3, OthersAgree DEF Check, At
<1>4. ASSUME NEW t \in Tasks, ReadConfig(t) PROVE AgreeInv'
  BY <1>4, OthersAgree DEF ReadConfig, NoDrift, End, At
<1>5. ASSUME NEW t \in Tasks, ReadOurs(t) PROVE AgreeInv'
  <2>1. op[t] \in Calls /\ Placed(op[t], row) /\ op[t].at = "ours"
    BY <1>5 DEF ReadOurs, At
  <2>2. op[t].kind \in {"show", "keep", "restore"}
    BY <2>1 DEF Placed, Checking, Calls
  <2>3. \A u \in Tasks : u # t => op'[u] = op[u]
    BY <1>5, <2>2 DEF ReadOurs, Found, End
  <2>4. QED
    BY <1>5, <2>3, OthersAgree DEF ReadOurs, At
<1>6. ASSUME NEW t \in Tasks, TakeLock(t) \/ Review(t) \/ Change(t) PROVE AgreeInv'
  BY <1>6, OthersAgree DEF TakeLock, Review, Change, Goto, End, At
<1>7. ASSUME NEW t \in Tasks, Observe(t) \/ ReadVersion(t) \/ Rest(t) PROVE AgreeInv'
  BY <1>7, OthersAgree DEF Observe, ReadVersion, Rest, Goto, End, At
<1>8. QED
  BY <1>1, <1>2, <1>3, <1>4, <1>5, <1>6, <1>7 DEF Next

LEMMA ToldNow == ToldInv => Told
<1> SUFFICES ASSUME ToldInv, odd = {}, Recorded PROVE Reported = Outside
  BY DEF Told, Recorded
<1>1. row.rules = mine.rules /\ (row = Never <=> mine = Never)
  BY DEF ToldInv, AgreeInv, HistoryInv
<1>2. CASE row = Never
  BY <1>1, <1>2 DEF Reported, Outside
<1>3. CASE row # Never
  <2>1. row \in Configs /\ config \in Configs /\ Dated(row, config)
    BY <1>3 DEF ToldInv, TypeInv, TypeOK, HistoryInv, Rows
  <2>2. CASE config.version > row.version
    BY <1>1, <1>3, <2>2 DEF Reported, Outside
  <2>3. CASE ~(config.version > row.version)
    <3>1. row.rules = config.rules
      BY <2>1, <2>3 DEF Dated, Configs
    <3>2. Diff(mine.rules, config.rules) = {}
      BY <1>1, <3>1 DEF Diff
    <3>3. QED
      BY <1>3, <1>1, <2>3, <3>2 DEF Reported, Outside
  <2>4. QED
    BY <2>2, <2>3
<1>4. QED
  BY <1>2, <1>3

\* A check shows what was changed outside Teitunnel, and no change of its own, however
\* checks, Keep, applies, rollbacks and outside edits interleave (Told's exceptions apart;
\* drift.rs:1-3, executor.rs:874, 950, 2385).
THEOREM ChecksTellTheTruth == Spec => []Told
<1>1. ToldInv /\ [Next]_vars => ToldInv'
  BY NextTypeInv, NextHistoryInv, NextAgreeInv DEF ToldInv
<1>2. QED
  BY InitToldInv, <1>1, ToldNow, PTL DEF Spec
=============================================================================
