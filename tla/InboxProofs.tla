----------------------------- MODULE InboxProofs -----------------------------
(***************************************************************************)
(* Theorems about Inbox for every number of webhooks and drainers and      *)
(* every bound.                                                            *)
(***************************************************************************)
EXTENDS Inbox, TLAPS, FiniteSetTheorems, SequenceTheorems, WellFoundedInduction

-----------------------------------------------------------------------------
(* Type correctness                                                        *)

LEMMA InitTypeOK == Init => TypeOK
<1> SUFFICES ASSUME Init PROVE TypeOK
  OBVIOUS
<1>1. IsFiniteSet(table)
  BY FS_EmptySet DEF Init
<1>2. MaxClock \in Nat /\ MaxTrouble \in Nat
  BY InboxAssumption
<1>3. received \in Seq(Hooks)
  BY DEF Init
<1>4. request \in [Hooks -> Requests]
  BY <1>2 DEF Init, Requests
<1>5. drainer \in [Drainers -> Rounds]
  BY DEF Init, Idle, Rounds
<1>6. \A d \in Drainers : drainer[d].at \in {"deliver", "mark"} <=> drainer[d].rows # {}
  BY DEF Init, Idle
<1>7. table \subseteq Row /\ again \in BOOLEAN /\ overlap \in BOOLEAN
  BY DEF Init
<1>8. clock \in 0..MaxClock /\ trouble \in 0..MaxTrouble
  BY <1>2 DEF Init
<1>9. QED
  BY <1>1, <1>3, <1>4, <1>5, <1>6, <1>7, <1>8 DEF TypeOK

\* A set of numbers has a smallest.
LEMMA Smallest ==
  ASSUME NEW T, T \subseteq Nat, T # {}
  PROVE  \E x \in T : \A y \in T : x <= y
<1>1. IsWellFoundedOn({p \in Nat \X Nat : p[1] < p[2]}, Nat)
  BY NatLessThanWellFounded DEF OpToRel
<1>2. PICK x \in T : \A y \in T : ~(<<y, x>> \in {p \in Nat \X Nat : p[1] < p[2]})
  BY <1>1, WFMin
<1>3. ASSUME NEW y \in T PROVE x <= y
  <2>1. x \in Nat /\ y \in Nat /\ <<y, x>> \in Nat \X Nat
    OBVIOUS
  <2>2. ~(y < x)
    BY <1>2, <2>1
  <2>3. QED
    BY <2>1, <2>2
<1>4. QED
  BY <1>3

\* A batch that is not worked off has a first row.
LEMMA FirstType ==
  ASSUME NEW rows \in SUBSET Row, rows # {}
  PROVE  First(rows) \in rows
<1> DEFINE T == {row.seq : row \in rows}
<1>1. T \subseteq Nat /\ T # {}
  BY DEF Row
<1>2. PICK n \in T : \A m \in T : n <= m
  BY <1>1, Smallest
<1>3. PICK row \in rows : row.seq = n
  BY <1>2
<1>4. \A other \in rows : row.seq <= other.seq
  BY <1>2, <1>3
<1>5. QED
  BY <1>4 DEF First

\* The first row has the least seq.
LEMMA FirstIsLeast ==
  ASSUME NEW rows \in SUBSET Row, NEW q \in rows
  PROVE  First(rows).seq <= q.seq
<1> DEFINE T == {row.seq : row \in rows}
<1>1. T \subseteq Nat /\ T # {}
  BY DEF Row
<1>2. PICK n \in T : \A m \in T : n <= m
  BY <1>1, Smallest
<1>3. PICK row \in rows : row.seq = n
  BY <1>2
<1>4. \A other \in rows : row.seq <= other.seq
  BY <1>2, <1>3
<1>5. QED
  BY <1>4 DEF First

\* The service's record of webhooks stays one.
LEMMA TakeTypes ==
  ASSUME TypeOK, NEW w \in Hooks, Take(w)
  PROVE  received' \in Seq(Hooks) /\ again' \in BOOLEAN
  BY AppendProperties DEF TypeOK, Take

\* An answered request is a request.
LEMMA AnswerTypes ==
  ASSUME TypeOK, NEW w \in Hooks, NEW a \in {"passed", "kept", "refused"}, Answer(w, a)
  PROVE  request' \in [Hooks -> Requests]
<1>1. request[w] \in Requests
  BY DEF TypeOK
<1>2. [at |-> "done", answer |-> a, pending |-> 0,
       now |-> IF a = "kept" THEN request[w].now ELSE 0,
       after |-> IF a = "passed" THEN {} ELSE request[w].after] \in Requests
  BY <1>1, InboxAssumption DEF Requests
<1>3. QED
  BY <1>2 DEF Answer, TypeOK

\* How many webhooks were answered 202, and so the next seq, is a number.
LEMMA NextSeqType ==
  ASSUME TypeOK
  PROVE  NextSeq \in Nat /\ IsFiniteSet(KeptHooks) /\ Cardinality(KeptHooks) \in Nat
<1>1. IsFiniteSet(KeptHooks)
  BY FS_Subset, InboxAssumption DEF KeptHooks
<1>2. QED
  BY <1>1, FS_CardinalityType, InboxAssumption DEF NextSeq, TypeOK

\* A write leaves a finite set of rows.
LEMMA StoredTypes ==
  ASSUME TypeOK, NEW w \in Hooks
  PROVE  Stored(w) \subseteq Row /\ IsFiniteSet(Stored(w))
<1> DEFINE new == [seq |-> NextSeq, hook |-> w, received |-> request[w].now, delivered |-> {}]
           old == {row \in table : ~Old(row, request[w].now)}
<1>1. new \in Row
  BY NextSeqType DEF Row, TypeOK, Requests
<1>2. IsFiniteSet(old)
  BY FS_Subset DEF TypeOK
<1>3. IsFiniteSet(old \cup {new})
  BY <1>2, FS_AddElement
<1>4. Stored(w) = old \cup {new}
  BY DEF Stored
<1>5. QED
  BY <1>1, <1>3, <1>4 DEF TypeOK

\* So does an UPDATE.
LEMMA MarkTypes ==
  ASSUME TypeOK, NEW n
  PROVE  MarkDelivered(n) \subseteq Row /\ IsFiniteSet(MarkDelivered(n))
<1> DEFINE f == [row \in table |-> IF row.seq = n THEN [row EXCEPT !.delivered = {clock}]
                                                   ELSE row]
<1>1. \A row \in table : f[row] \in Row
  BY DEF TypeOK, Row
<1>2. MarkDelivered(n) = {f[row] : row \in table}
  BY DEF MarkDelivered
<1>3. IsFiniteSet({f[row] : row \in table})
  <2> DEFINE T == {f[row] : row \in table}
  <2>1. f \in [table -> T] /\ \A t \in T : \E row \in table : f[row] = t
    OBVIOUS
  <2> HIDE DEF f
  <2>2. f \in Surjection(table, T)
    BY <2>1 DEF Surjection
  <2>3. QED
    BY <2>2, FS_Surjection DEF TypeOK
<1>4. QED
  BY <1>1, <1>2, <1>3

\* What is left of a batch is one.
LEMMA OnwardTypes ==
  ASSUME TypeOK, NEW d \in Drainers, Onward(d)
  PROVE  /\ drainer' \in [Drainers -> Rounds]
         /\ \A e \in Drainers : drainer'[e].at \in {"deliver", "mark"} <=> drainer'[e].rows # {}
  BY DEF TypeOK, Onward, Rounds

LEMMA WorkerTypes ==
  ASSUME TypeOK, NEW w \in Hooks, Send(w) \/ WorkerStep(w)
  PROVE  TypeOK'
<1>1. CASE Send(w)
  <2>1. request' \in [Hooks -> Requests]
    <3>1. request[w] \in Requests /\ KeptHooks \subseteq Hooks /\ 0 \in Nat
      BY DEF TypeOK, KeptHooks
    <3>2. [at |-> "count", answer |-> "none", now |-> clock, pending |-> 0,
           after |-> IF request[w].at = "unsent" THEN KeptHooks ELSE request[w].after] \in Requests
      BY <3>1 DEF TypeOK, Requests
    <3>3. QED
      BY <1>1, <3>2 DEF Send, TypeOK
  <2>2. QED
    BY <1>1, <2>1 DEF Send, TypeOK
<1>2. CASE Count(w)
  <2>1. IsFiniteSet(WaitingRows)
    BY FS_Subset DEF TypeOK, WaitingRows
  <2>2. Cardinality(WaitingRows) \in Nat
    BY <2>1, FS_CardinalityType
  <2>3. request' \in [Hooks -> Requests]
    <3>1. request[w] \in Requests
      BY DEF TypeOK
    <3>2. \A at \in {"fetch", "store"} :
              [request[w] EXCEPT !.at = at, !.pending = Cardinality(WaitingRows)] \in Requests
      BY <3>1, <2>2 DEF Requests
    <3>3. \E at \in {"fetch", "store"} :
              request' = [request EXCEPT ![w] =
                 [request[w] EXCEPT !.at = at, !.pending = Cardinality(WaitingRows)]]
      BY <1>2 DEF Count, TypeOK
    <3>4. QED
      BY <3>2, <3>3 DEF TypeOK
  <2>4. QED
    BY <1>2, <2>3 DEF Count, Calm, TypeOK
<1>3. CASE Fetch(w)
  <2>1. request' \in [Hooks -> Requests]
    <3>1. CASE request' = [request EXCEPT ![w].at = "store"]
      BY <3>1, ZenonT(60) DEF TypeOK, Requests
    <3>2. CASE Answer(w, "passed") \/ Answer(w, "refused")
      BY <3>2, AnswerTypes
    <3>3. QED
      BY <1>3, <3>1, <3>2 DEF Fetch
  <2>2. received' \in Seq(Hooks) /\ again' \in BOOLEAN
    BY <1>3, TakeTypes DEF Fetch, NotTaken, TypeOK
  <2>3. trouble' \in 0..MaxTrouble /\ overlap' \in BOOLEAN
    BY <1>3, InboxAssumption DEF Fetch, Calm, Trouble, TypeOK
  <2>4. QED
    BY <1>3, <2>1, <2>2, <2>3 DEF Fetch, TypeOK
<1>4. CASE Keep(w)
  <2>1. request' \in [Hooks -> Requests]
    BY <1>4, AnswerTypes DEF Keep
  <2>2. table' \subseteq Row /\ IsFiniteSet(table')
    BY <1>4, StoredTypes DEF Keep
  <2>3. QED
    BY <1>4, <2>1, <2>2 DEF Keep, Calm, TypeOK
<1>5. CASE Refuse(w)
  <2>1. request' \in [Hooks -> Requests]
    BY <1>5, AnswerTypes DEF Refuse
  <2>2. QED
    BY <1>5, <2>1 DEF Refuse, Calm, TypeOK
<1>6. CASE WorkerFails(w)
  <2>1. request' \in [Hooks -> Requests]
    BY <1>6, AnswerTypes DEF WorkerFails
  <2>2. table' \subseteq Row /\ IsFiniteSet(table')
    BY <1>6, StoredTypes DEF WorkerFails, TypeOK
  <2>3. trouble' \in 0..MaxTrouble /\ overlap' \in BOOLEAN
    BY <1>6, InboxAssumption DEF WorkerFails, Trouble, TypeOK
  <2>4. QED
    BY <1>6, <2>1, <2>2, <2>3 DEF WorkerFails, TypeOK
<1>7. QED
  BY <1>1, <1>2, <1>3, <1>4, <1>5, <1>6 DEF WorkerStep

LEMMA RoundTypes ==
  ASSUME TypeOK, NEW d \in Drainers, Begin(d) \/ DrainStep(d) \/ Killed(d)
  PROVE  TypeOK'
<1>1. trouble' \in 0..MaxTrouble /\ overlap' \in BOOLEAN
  <2>1. MaxTrouble \in Nat
    BY InboxAssumption
  <2>2. CASE Calm \/ Trouble
    BY <2>1, <2>2 DEF Calm, Trouble, TypeOK
  <2>3. CASE Begin(d)
    BY <2>3 DEF Begin, TypeOK
  <2>4. QED
    BY <2>2, <2>3 DEF DrainStep, Killed, Delivered, NotDelivered, Mark, Sweep, DrainFails
<1>2. received' \in Seq(Hooks) /\ again' \in BOOLEAN
  <2>1. CASE Delivered(d) \/ NotDelivered(d)
    <3>1. drainer[d].rows # {} /\ drainer[d].rows \subseteq Row
      BY <2>1 DEF Delivered, NotDelivered, TypeOK, Rounds
    <3>2. CASE TakeCurrent(d)
      <4>1. Current(d).hook \in Hooks
        BY <3>1, FirstType DEF Current, Row
      <4>2. QED
        BY <3>2, <4>1, TakeTypes DEF TakeCurrent
    <3>3. CASE NotTaken
      BY <3>3 DEF NotTaken, TypeOK
    <3>4. QED
      BY <2>1, <3>2, <3>3 DEF Delivered, NotDelivered
  <2>2. CASE UNCHANGED <<received, again>>
    BY <2>2 DEF TypeOK
  <2>3. QED
    BY <2>1, <2>2 DEF Begin, DrainStep, Mark, Sweep, DrainFails, Killed
<1>3. table' \subseteq Row /\ IsFiniteSet(table')
  <2>1. CASE table' = table
    BY <2>1 DEF TypeOK
  <2>2. CASE table' = MarkDelivered(Current(d).seq)
    BY <2>2, MarkTypes
  <2>3. CASE Sweep(d)
    BY <2>3, FS_Subset DEF Sweep, TypeOK
  <2>4. QED
    BY <2>1, <2>2, <2>3 DEF Begin, DrainStep, Delivered, NotDelivered, Mark, DrainFails, Killed
<1>4. /\ drainer' \in [Drainers -> Rounds]
      /\ \A e \in Drainers : drainer'[e].at \in {"deliver", "mark"} <=> drainer'[e].rows # {}
  <2>1. CASE Begin(d)
    <3>1. FirstWaiting \subseteq Row
      BY DEF FirstWaiting, WaitingRows, TypeOK
    <3>2. QED
      BY <2>1, <3>1 DEF Begin, TypeOK, Rounds
  <2>2. CASE Delivered(d)
    BY <2>2 DEF Delivered, TypeOK, Rounds
  <2>3. CASE NotDelivered(d)
    BY <2>3 DEF NotDelivered, GiveUp, TypeOK, Rounds
  <2>4. CASE Mark(d)
    BY <2>4, OnwardTypes DEF Mark
  <2>5. CASE drainer' = [drainer EXCEPT ![d] = Idle]
    BY <2>5 DEF Idle, TypeOK, Rounds
  <2>6. QED
    BY <2>1, <2>2, <2>3, <2>4, <2>5 DEF DrainStep, Sweep, DrainFails, Killed
<1>5. request' \in [Hooks -> Requests] /\ clock' \in 0..MaxClock
  BY DEF TypeOK, Begin, DrainStep, Delivered, NotDelivered, Mark, Sweep, DrainFails, Killed
<1>6. QED
  BY <1>1, <1>2, <1>3, <1>4, <1>5 DEF TypeOK

LEMMA NextTypeOK == TypeOK /\ [Next]_vars => TypeOK'
<1> SUFFICES ASSUME TypeOK, [Next]_vars PROVE TypeOK'
  OBVIOUS
<1>1. CASE Tick
  BY <1>1, InboxAssumption DEF Tick, TypeOK
<1>2. CASE UNCHANGED vars
  BY <1>2 DEF vars, TypeOK
<1>3. QED
  BY <1>1, <1>2, WorkerTypes, RoundTypes DEF Next

\* Every variable keeps its type, in every behaviour and for any number of
\* webhooks, requests and rounds: what the table and the rounds hold are rows.
THEOREM TypeCorrect == Spec => []TypeOK
<1>1. QED
  BY InitTypeOK, NextTypeOK, PTL DEF Spec

-----------------------------------------------------------------------------
(* No webhook whose sender was told 202 is lost                            *)
(*                                                                         *)
(* The note of a delivery goes to every row with the seq of the row that   *)
(* was delivered, from a copy of that row a round read some time ago.  So  *)
(* the argument follows the rows wherever they are known: a seq names one  *)
(* webhook among the table and the rounds' copies, and is never used again.*)

\* The rows of the table, and the copies the rounds hold.
Known == table \cup {row \in Row : \E d \in Drainers : row \in drainer[d].rows}

SameRow(r, q) == r.seq = q.seq /\ r.hook = q.hook /\ r.received = q.received

Unanswered ==
    \A w \in Hooks :
        request[w].at \in {"unsent", "count", "fetch", "store"} => request[w].answer = "none"

SeqsUsed == \A r \in Known : r.seq < NextSeq
OneWebhook == \A r, q \in Known : r.seq = q.seq => r.hook = q.hook
MarkTaken == \A d \in Drainers : drainer[d].at = "mark" => Current(d).hook \in TakenByNow
NowPast == \A w \in Hooks : request[w].now <= clock

\* The row a 202 was given for is in the table until the service has it.
RowOf(w) == \E row \in WaitingRows : row.hook = w /\ row.received = request[w].now
Safe == \A w \in KeptHooks : w \in TakenByNow \/ RowOf(w) \/ PastRetention(w)

KeptInv ==
    TypeOK /\ Unanswered /\ SeqsUsed /\ OneWebhook /\ MarkTaken /\ NowPast /\ Safe

LEMMA InitKeptInv == Init => KeptInv
<1> SUFFICES ASSUME Init PROVE KeptInv
  OBVIOUS
<1>1. TypeOK
  BY InitTypeOK
<1>2. Known = {} /\ KeptHooks = {}
  BY DEF Init, Idle, Known, KeptHooks
<1>3. Unanswered /\ MarkTaken
  BY DEF Init, Unanswered, MarkTaken, Idle
<1>4. NowPast
  BY DEF Init, NowPast
<1>5. QED
  BY <1>1, <1>2, <1>3, <1>4 DEF KeptInv, SeqsUsed, OneWebhook, Safe

\* An answer is given to a request that had none.
LEMMA UnansweredStep == TypeOK /\ Unanswered /\ [Next]_vars => Unanswered'
<1> SUFFICES ASSUME TypeOK, Unanswered, [Next]_vars PROVE Unanswered'
  OBVIOUS
<1>1. CASE UNCHANGED request
  BY <1>1 DEF Unanswered
<1>2. ASSUME NEW w \in Hooks, Send(w) PROVE Unanswered'
  BY <1>2 DEF Send, Unanswered, TypeOK
<1>3. ASSUME NEW w \in Hooks, Count(w) PROVE Unanswered'
  BY <1>3 DEF Count, Unanswered, TypeOK, Requests
<1>4. ASSUME NEW w \in Hooks, NEW a, Answer(w, a) PROVE Unanswered'
  BY <1>4 DEF Answer, Unanswered, TypeOK
<1>5. ASSUME NEW w \in Hooks, request[w].at = "fetch",
             request' = [request EXCEPT ![w].at = "store"] PROVE Unanswered'
  BY <1>5 DEF Unanswered, TypeOK, Requests
<1>6. ASSUME NEW w \in Hooks, WorkerStep(w) PROVE Unanswered'
  BY <1>6, <1>3, <1>4, <1>5 DEF WorkerStep, Fetch, Keep, Refuse, WorkerFails
<1>7. QED
  BY <1>1, <1>2, <1>6 DEF Next, vars, Begin, DrainStep, Delivered, NotDelivered, Mark, Sweep,
     DrainFails, Killed, Tick

\* A webhook is counted among those answered 202 when Keep answers it, once.
LEMMA KeptStep ==
  ASSUME TypeOK, Unanswered, [Next]_vars
  PROVE  \/ KeptHooks' = KeptHooks
         \/ \E w \in Hooks : Keep(w) /\ w \notin KeptHooks /\ KeptHooks' = KeptHooks \cup {w}
<1>1. CASE UNCHANGED request
  BY <1>1 DEF KeptHooks
<1>2. ASSUME NEW w \in Hooks, Send(w) PROVE KeptHooks' = KeptHooks
  BY <1>2 DEF Send, KeptHooks, TypeOK, Unanswered
<1>3. ASSUME NEW w \in Hooks, Count(w) PROVE KeptHooks' = KeptHooks
  BY <1>3 DEF Count, KeptHooks, TypeOK, Requests
<1>4. ASSUME NEW w \in Hooks, NEW a \in {"passed", "refused"}, Answer(w, a),
             request[w].answer = "none"
      PROVE  KeptHooks' = KeptHooks
  BY <1>4 DEF Answer, KeptHooks, TypeOK
<1>5. ASSUME NEW w \in Hooks, request' = [request EXCEPT ![w].at = "store"]
      PROVE  KeptHooks' = KeptHooks
  BY <1>5 DEF KeptHooks, TypeOK, Requests
<1>6. ASSUME NEW w \in Hooks, Keep(w)
      PROVE  w \notin KeptHooks /\ KeptHooks' = KeptHooks \cup {w}
  BY <1>6 DEF Keep, Answer, KeptHooks, TypeOK, Unanswered
<1>7. ASSUME NEW w \in Hooks, Fetch(w) \/ Refuse(w) \/ WorkerFails(w)
      PROVE  KeptHooks' = KeptHooks
  <2>1. request[w].answer = "none"
    BY <1>7 DEF Fetch, Refuse, WorkerFails, Unanswered
  <2>2. QED
    BY <2>1, <1>7, <1>4, <1>5 DEF Fetch, Refuse, WorkerFails
<1>8. QED
  BY <1>1, <1>2, <1>3, <1>6, <1>7 DEF Next, WorkerStep, vars, Begin, DrainStep, Delivered,
     NotDelivered, Mark, Sweep, DrainFails, Killed, Tick

LEMMA TroubleStep == ASSUME TypeOK, [Next]_vars PROVE trouble <= trouble'
<1>1. trouble \in Nat
  BY InboxAssumption DEF TypeOK
<1>2. CASE trouble' = trouble
  BY <1>1, <1>2
<1>3. CASE trouble' = trouble + 1
  BY <1>1, <1>3
<1>4. QED
  BY <1>2, <1>3 DEF Next, vars, Send, WorkerStep, Count, Fetch, Keep, Refuse, WorkerFails, Begin,
     DrainStep, Delivered, NotDelivered, Mark, Sweep, DrainFails, Killed, Tick, Calm, Trouble

\* seq never goes back, and a write uses the one it names up.
LEMMA SeqStep ==
  ASSUME TypeOK, Unanswered, [Next]_vars
  PROVE  /\ NextSeq \in Nat /\ NextSeq' \in Nat /\ NextSeq <= NextSeq'
         /\ \A w \in Hooks : Keep(w) \/ WorkerFails(w) => NextSeq < NextSeq'
<1>1. /\ NextSeq \in Nat /\ IsFiniteSet(KeptHooks) /\ Cardinality(KeptHooks) \in Nat
      /\ trouble \in Nat /\ trouble' \in Nat /\ trouble <= trouble'
  BY NextSeqType, TroubleStep, NextTypeOK, InboxAssumption, SMTT(30) DEF TypeOK
<1>2. CASE KeptHooks' = KeptHooks
  <2>1. NextSeq' = 1 + Cardinality(KeptHooks) + trouble'
    BY <1>2 DEF NextSeq
  <2>2. ASSUME NEW w \in Hooks, Keep(w) PROVE FALSE
    BY <2>2, <1>2 DEF Keep, Answer, KeptHooks, TypeOK, Unanswered
  <2>3. ASSUME NEW w \in Hooks, WorkerFails(w) PROVE trouble' = trouble + 1
    BY <2>3 DEF WorkerFails, Trouble
  <2>4. QED
    BY <1>1, <2>1, <2>2, <2>3 DEF NextSeq
<1>3. CASE \E w \in Hooks : w \notin KeptHooks /\ KeptHooks' = KeptHooks \cup {w}
  <2>1. Cardinality(KeptHooks') = Cardinality(KeptHooks) + 1
    BY <1>1, <1>3, FS_AddElement
  <2>2. NextSeq' = 1 + Cardinality(KeptHooks) + 1 + trouble'
    BY <2>1, <1>1 DEF NextSeq
  <2>3. QED
    BY <1>1, <2>2 DEF NextSeq
<1>4. QED
  BY <1>2, <1>3, KeptStep

\* A row that is known, or of which a copy that differs in the note of the
\* delivery at most is.
KnownBefore(r) == \E q \in Known : SameRow(r, q)

LEMMA KnownIsKnown ==
  ASSUME TypeOK
  PROVE  /\ \A r \in Known : KnownBefore(r)
         /\ \A r \in table : KnownBefore(r)
         /\ \A d \in Drainers : \A r \in drainer[d].rows : KnownBefore(r)
<1>1. \A r \in Known : KnownBefore(r)
  BY DEF SameRow, KnownBefore
<1>2. \A d \in Drainers : drainer[d].rows \subseteq Row
  BY DEF TypeOK, Rounds
<1>3. QED
  BY <1>1, <1>2 DEF Known

\* A round makes no new rows.
LEMMA RoundKnown ==
  ASSUME TypeOK, NEW d \in Drainers, Begin(d) \/ DrainStep(d) \/ Killed(d)
  PROVE  \A r \in Known' : KnownBefore(r)
<1>1. \A n : \A r \in MarkDelivered(n) : KnownBefore(r)
  <2>1. ASSUME NEW row \in table PROVE KnownBefore([row EXCEPT !.delivered = {clock}])
    <3>1. row \in Known /\ row \in Row
      BY DEF Known, TypeOK
    <3>2. SameRow([row EXCEPT !.delivered = {clock}], row)
      BY <3>1 DEF SameRow, Row
    <3>3. QED
      BY <3>1, <3>2 DEF KnownBefore
  <2>2. QED
    BY <2>1, KnownIsKnown DEF MarkDelivered
<1>2. \A r \in table' : KnownBefore(r)
  <2>1. CASE table' \subseteq table
    BY <2>1, KnownIsKnown
  <2>2. CASE table' = MarkDelivered(Current(d).seq)
    BY <2>2, <1>1
  <2>3. QED
    BY <2>1, <2>2 DEF Begin, DrainStep, Delivered, NotDelivered, Mark, Sweep, DrainFails, Killed
<1>3. drainer'[d].rows \subseteq drainer[d].rows \cup table
  <2>1. FirstWaiting \subseteq table
    BY DEF FirstWaiting, WaitingRows
  <2>2. QED
    BY <2>1 DEF Begin, DrainStep, Delivered, NotDelivered, GiveUp, Mark, Onward, Sweep,
       DrainFails, Killed, Idle, TypeOK, Rounds
<1>4. \A e \in Drainers \ {d} : drainer'[e] = drainer[e]
  BY DEF Begin, DrainStep, Delivered, NotDelivered, GiveUp, Mark, Onward, Sweep, DrainFails,
     Killed, TypeOK
<1>5. \A r \in Known' : r \in table' \/ \E e \in Drainers : r \in drainer'[e].rows
  BY DEF Known
<1>6. QED
  BY <1>2, <1>3, <1>4, <1>5, KnownIsKnown

\* What is known after a step was known before, or is the row a write adds.
LEMMA KnownStep ==
  ASSUME TypeOK, [Next]_vars
  PROVE  \/ \A r \in Known' : KnownBefore(r)
         \/ \E w \in Hooks :
               /\ Keep(w) \/ WorkerFails(w)
               /\ \A r \in Known' : KnownBefore(r) \/ (r.seq = NextSeq /\ r.hook = w)
<1>1. \A r \in Known' : r \in table' \/ \E d \in Drainers : r \in drainer'[d].rows
  BY DEF Known
<1>2. CASE UNCHANGED <<table, drainer>>
  BY <1>2, KnownIsKnown DEF Known
<1>3. ASSUME NEW w \in Hooks, table' = Stored(w), UNCHANGED drainer
      PROVE  \A r \in Known' : KnownBefore(r) \/ (r.seq = NextSeq /\ r.hook = w)
  <2>1. \A r \in table' : KnownBefore(r) \/ (r.seq = NextSeq /\ r.hook = w)
    BY <1>3, KnownIsKnown DEF Stored
  <2>2. QED
    BY <1>1, <1>3, <2>1, KnownIsKnown
<1>4. ASSUME NEW w \in Hooks, Send(w) \/ WorkerStep(w), ~UNCHANGED <<table, drainer>>
      PROVE  table' = Stored(w) /\ UNCHANGED drainer /\ (Keep(w) \/ WorkerFails(w))
  BY <1>4 DEF Send, WorkerStep, Count, Fetch, Keep, Refuse, WorkerFails
<1>5. QED
  BY <1>2, <1>3, <1>4, RoundKnown DEF Next, vars, Tick

LEMMA RowsStep ==
  ASSUME TypeOK, Unanswered, SeqsUsed, OneWebhook, [Next]_vars
  PROVE  SeqsUsed' /\ OneWebhook'
<1>1. /\ NextSeq \in Nat /\ NextSeq' \in Nat /\ NextSeq <= NextSeq'
      /\ \A w \in Hooks : Keep(w) \/ WorkerFails(w) => NextSeq < NextSeq'
  BY SeqStep
<1>2. \A r \in Known : r.seq \in Nat
  BY DEF Known, TypeOK, Row
<1>3. \A r \in Known' : KnownBefore(r) => r.seq \in Nat /\ r.seq < NextSeq
  BY <1>2 DEF KnownBefore, SameRow, SeqsUsed
<1>4. ASSUME NEW r \in Known', NEW q \in Known', KnownBefore(r), KnownBefore(q), r.seq = q.seq
      PROVE  r.hook = q.hook
  BY <1>4 DEF KnownBefore, SameRow, OneWebhook
<1>5. CASE \A r \in Known' : KnownBefore(r)
  BY <1>1, <1>3, <1>4, <1>5 DEF SeqsUsed, OneWebhook
<1>6. ASSUME NEW w \in Hooks, Keep(w) \/ WorkerFails(w),
             \A r \in Known' : KnownBefore(r) \/ (r.seq = NextSeq /\ r.hook = w)
      PROVE  SeqsUsed' /\ OneWebhook'
  <2>1. SeqsUsed'
    BY <1>1, <1>3, <1>6 DEF SeqsUsed
  <2>2. OneWebhook'
    BY <1>1, <1>3, <1>4, <1>6 DEF OneWebhook
  <2>3. QED
    BY <2>1, <2>2
<1>7. QED
  BY <1>5, <1>6, KnownStep

\* Taking a webhook adds it to what was taken.
LEMMA TakeTakes ==
  ASSUME TypeOK, NEW w \in Hooks, Take(w)
  PROVE  TakenByNow' = TakenByNow \cup {w}
<1>1. CASE w \in TakenByNow
  BY <1>1 DEF Take, TakenByNow
<1>2. CASE w \notin TakenByNow
  <2>1. received \in Seq(Hooks) /\ received' = Append(received, w)
    BY <1>2 DEF Take, TypeOK
  <2>2. /\ DOMAIN received = 1..Len(received) /\ Len(received) \in Nat
        /\ DOMAIN received' = 1..(Len(received) + 1)
        /\ \A i \in 1..Len(received) : received'[i] = received[i]
        /\ received'[Len(received) + 1] = w
    BY <2>1, AppendProperties
  <2>3. QED
    BY <2>2 DEF TakenByNow
<1>3. QED
  BY <1>1, <1>2

\* The row a round is at is one of its copies, and known.
LEMMA CurrentType ==
  ASSUME TypeOK, NEW d \in Drainers, drainer[d].at \in {"deliver", "mark"}
  PROVE  /\ Current(d) \in drainer[d].rows /\ Current(d) \in Row /\ Current(d) \in Known
         /\ Current(d).hook \in Hooks
  BY FirstType DEF TypeOK, Rounds, Current, Row, Known

\* The service forgets nothing it took.
LEMMA TakenStep ==
  ASSUME TypeOK, [Next]_vars
  PROVE  TakenByNow \subseteq TakenByNow'
<1>1. CASE UNCHANGED received
  BY <1>1 DEF TakenByNow
<1>2. QED
  BY <1>1, TakeTakes, CurrentType DEF Next, vars, Send, WorkerStep, Count, Fetch, Keep, Refuse,
     WorkerFails, Begin, DrainStep, Delivered, NotDelivered, Mark, Sweep, DrainFails, Killed,
     Tick, NotTaken, TakeCurrent

LEMMA MarkTakenStep ==
  ASSUME TypeOK, MarkTaken, [Next]_vars
  PROVE  MarkTaken'
<1>1. TakenByNow \subseteq TakenByNow'
  BY TakenStep
<1>2. CASE UNCHANGED drainer
  BY <1>1, <1>2 DEF MarkTaken, Current
<1>3. ASSUME NEW d \in Drainers, Begin(d) \/ DrainStep(d) \/ Killed(d)
      PROVE  MarkTaken'
  <2>1. \A e \in Drainers \ {d} : drainer'[e] = drainer[e]
    BY <1>3 DEF Begin, DrainStep, Delivered, NotDelivered, GiveUp, Mark, Onward, Sweep,
       DrainFails, Killed, TypeOK
  <2>2. CASE Delivered(d)
    <3>1. Current(d).hook \in Hooks
      BY <2>2, CurrentType DEF Delivered
    <3>2. Current(d).hook \in TakenByNow'
      BY <2>2, <3>1, TakeTakes DEF Delivered, TakeCurrent
    <3>3. drainer'[d].rows = drainer[d].rows
      BY <2>2 DEF Delivered, TypeOK, Rounds
    <3>4. QED
      BY <1>1, <2>1, <3>2, <3>3 DEF MarkTaken, Current
  <2>3. CASE ~Delivered(d)
    <3>1. drainer'[d].at # "mark"
      BY <1>3, <2>3 DEF Begin, DrainStep, NotDelivered, GiveUp, Mark, Onward, Sweep,
         DrainFails, Killed, Idle, TypeOK
    <3>2. QED
      BY <1>1, <2>1, <3>1 DEF MarkTaken, Current
  <2>4. QED
    BY <2>2, <2>3
<1>4. QED
  BY <1>2, <1>3 DEF Next, vars, Send, WorkerStep, Count, Fetch, Keep, Refuse, WorkerFails, Tick

LEMMA NowStep ==
  ASSUME TypeOK, NowPast, [Next]_vars
  PROVE  NowPast'
<1>1. /\ MaxClock \in Nat /\ clock \in Nat
      /\ \A w \in Hooks : request[w].now \in Nat /\ request[w].now <= clock
  BY InboxAssumption DEF TypeOK, Requests, NowPast
<1>2. clock' = clock \/ clock' = clock + 1
  BY DEF Next, vars, Send, WorkerStep, Count, Fetch, Keep, Refuse, WorkerFails,
     Begin, DrainStep, Delivered, NotDelivered, Mark, Sweep, DrainFails, Killed, Tick
<1>3. \A w \in Hooks : request'[w].now \in {request[w].now, clock, 0}
  <2>1. CASE UNCHANGED request
    BY <2>1
  <2>2. ASSUME NEW v \in Hooks, Send(v) PROVE \A w \in Hooks : request'[w].now \in {request[w].now, clock}
    BY <2>2 DEF Send, TypeOK
  <2>3. ASSUME NEW v \in Hooks, NEW a, Answer(v, a)
        PROVE  \A w \in Hooks : request'[w].now \in {request[w].now, 0}
    BY <2>3 DEF Answer, TypeOK
  <2>4. ASSUME NEW v \in Hooks, Count(v) \/ request' = [request EXCEPT ![v].at = "store"]
        PROVE  \A w \in Hooks : request'[w].now = request[w].now
    <3>1. request[v] \in Requests
      BY DEF TypeOK
    <3>2. request'[v].now = request[v].now /\ \A w \in Hooks \ {v} : request'[w] = request[w]
      BY <2>4, <3>1 DEF Count, TypeOK, Requests
    <3>3. QED
      BY <3>2
  <2>5. ASSUME NEW v \in Hooks, WorkerStep(v)
        PROVE  \A w \in Hooks : request'[w].now \in {request[w].now, 0}
    <3>1. \/ Count(v) \/ request' = [request EXCEPT ![v].at = "store"]
          \/ \E a \in {"passed", "kept", "refused"} : Answer(v, a)
      BY <2>5 DEF WorkerStep, Fetch, Keep, Refuse, WorkerFails
    <3>2. CASE Count(v) \/ request' = [request EXCEPT ![v].at = "store"]
      BY <3>2, <2>4
    <3>3. ASSUME NEW a, Answer(v, a) PROVE \A w \in Hooks : request'[w].now \in {request[w].now, 0}
      BY <3>3, <2>3
    <3>4. QED
      BY <3>1, <3>2, <3>3
  <2>6. QED
    BY <2>1, <2>2, <2>5 DEF Next, vars, Begin, DrainStep, Delivered, NotDelivered, Mark, Sweep,
       DrainFails, Killed, Tick
<1>4. \A w \in Hooks : request'[w].now <= clock
  BY <1>1, <1>3
<1>5. \A w \in Hooks : request'[w].now \in Nat
  BY <1>1, <1>3
<1>6. QED
  BY <1>1, <1>2, <1>4, <1>5 DEF NowPast

\* A request that was answered 202 is not touched any more.
LEMMA KeptStays ==
  ASSUME TypeOK, Unanswered, [Next]_vars, NEW w \in KeptHooks
  PROVE  request'[w] = request[w]
<1>1. w \in Hooks /\ request[w].answer = "kept"
  BY DEF KeptHooks
<1>2. request[w].at \notin {"unsent", "count", "fetch", "store"}
  BY <1>1 DEF Unanswered
<1>3. ASSUME NEW v \in Hooks, Send(v) \/ WorkerStep(v) PROVE v # w
  BY <1>1, <1>2, <1>3 DEF Send, WorkerStep, Count, Fetch, Keep, Refuse, WorkerFails
<1>4. ASSUME NEW v \in Hooks, Send(v) \/ WorkerStep(v) PROVE request'[w] = request[w]
  <2>1. v # w
    BY <1>3, <1>4
  <2>2. QED
    BY <1>1, <1>4, <2>1 DEF Send, WorkerStep, Count, Fetch, Keep, Refuse, WorkerFails, Answer,
       TypeOK
<1>5. QED
  BY <1>4 DEF Next, vars, Begin, DrainStep, Delivered, NotDelivered, Mark, Sweep, DrainFails,
     Killed, Tick

\* The row of a webhook stays, unless the service has it or its time is over.
LEMMA RowStep ==
  ASSUME KeptInv, [Next]_vars, NEW w \in Hooks, NEW row \in WaitingRows,
         row.hook = w, row.received = request[w].now
  PROVE  \/ row \in table'
         \/ w \in TakenByNow
         \/ request[w].now < clock
<1> USE DEF KeptInv
<1>1. row \in table /\ row.delivered = {} /\ row \in Known /\ row \in Row
  BY DEF WaitingRows, Waiting, Known, TypeOK
<1>2. CASE UNCHANGED table
  BY <1>1, <1>2
<1>3. ASSUME NEW v \in Hooks, table' = Stored(v) PROVE row \in table' \/ request[w].now < clock
  <2>1. request[v].now <= clock /\ request[v].now \in Nat /\ clock \in Nat
        /\ request[w].now \in Nat
    BY DEF NowPast, TypeOK, Requests
  <2>2. CASE Old(row, request[v].now)
    BY <2>1, <2>2 DEF Old
  <2>3. CASE ~Old(row, request[v].now)
    BY <1>1, <1>3, <2>3 DEF Stored
  <2>4. QED
    BY <2>2, <2>3
<1>4. ASSUME NEW d \in Drainers, drainer[d].at = "mark", table' = MarkDelivered(Current(d).seq)
      PROVE  row \in table' \/ w \in TakenByNow
  <2>1. CASE row.seq = Current(d).seq
    <3>1. Current(d).hook = w
      BY <1>1, <1>4, <2>1, CurrentType DEF OneWebhook
    <3>2. QED
      BY <1>4, <3>1 DEF MarkTaken
  <2>2. CASE row.seq # Current(d).seq
    BY <1>1, <1>4, <2>2 DEF MarkDelivered
  <2>3. QED
    BY <2>1, <2>2
<1>5. ASSUME NEW d \in Drainers, Sweep(d) PROVE row \in table'
  BY <1>1, <1>5 DEF Sweep
<1>6. QED
  BY <1>2, <1>3, <1>4, <1>5 DEF Next, vars, Send, WorkerStep, Count, Fetch, Keep, Refuse,
     WorkerFails, Begin, DrainStep, Delivered, NotDelivered, Mark, DrainFails, Killed, Tick

LEMMA SafeStep == KeptInv /\ [Next]_vars => Safe'
<1> SUFFICES ASSUME KeptInv, [Next]_vars, NEW w \in KeptHooks'
             PROVE  (w \in TakenByNow \/ RowOf(w) \/ PastRetention(w))'
  BY DEF Safe
<1> USE DEF KeptInv
<1>1. CASE w \in KeptHooks
  <2>1. request'[w] = request[w] /\ w \in Hooks
    BY <1>1, KeptStays DEF KeptHooks
  <2>2. TakenByNow \subseteq TakenByNow'
    BY TakenStep
  <2>3. clock \in Nat /\ request[w].now \in Nat /\ (clock' = clock \/ clock' = clock + 1)
    <3>1. clock' = clock \/ clock' = clock + 1
      BY DEF Next, vars, Send, WorkerStep, Count, Fetch, Keep, Refuse, WorkerFails,
         Begin, DrainStep, Delivered, NotDelivered, Mark, Sweep, DrainFails, Killed, Tick
    <3>2. QED
      BY <2>1, <3>1, InboxAssumption DEF TypeOK, Requests
  <2>4. CASE w \in TakenByNow
    BY <2>2, <2>4
  <2>5. CASE request[w].now < clock
    BY <2>1, <2>3, <2>5 DEF PastRetention
  <2>6. CASE RowOf(w) /\ w \notin TakenByNow /\ ~(request[w].now < clock)
    <3>1. PICK row \in WaitingRows : row.hook = w /\ row.received = request[w].now
      BY <2>6 DEF RowOf
    <3>2. row \in table' /\ row.delivered = {}
      BY <2>1, <2>6, <3>1, RowStep DEF WaitingRows, Waiting
    <3>3. row \in WaitingRows'
      BY <3>2 DEF WaitingRows, Waiting
    <3>4. RowOf(w)'
      BY <2>1, <3>1, <3>3 DEF RowOf
    <3>5. QED
      BY <3>4
  <2>7. QED
    BY <1>1, <2>4, <2>5, <2>6 DEF Safe, PastRetention
<1>2. CASE w \notin KeptHooks
  <2>1. w \in Hooks /\ Keep(w)
    BY <1>2, KeptStep
  <2>2. request'[w].now = request[w].now
    BY <2>1 DEF Keep, Answer, TypeOK
  <2>3. \E row \in table' : row.hook = w /\ row.received = request[w].now /\ row.delivered = {}
    <3> DEFINE new == [seq |-> NextSeq, hook |-> w, received |-> request[w].now, delivered |-> {}]
    <3>1. new \in table'
      BY <2>1 DEF Keep, Stored
    <3>2. new.hook = w /\ new.received = request[w].now /\ new.delivered = {}
      OBVIOUS
    <3>3. QED
      BY <3>1, <3>2
  <2>4. PICK row \in table' : row.hook = w /\ row.received = request[w].now /\ row.delivered = {}
    BY <2>3
  <2>5. row \in WaitingRows'
    BY <2>4 DEF WaitingRows, Waiting
  <2>6. RowOf(w)'
    BY <2>2, <2>4, <2>5 DEF RowOf
  <2>7. QED
    BY <2>6
<1>3. QED
  BY <1>1, <1>2

LEMMA NextKeptInv == KeptInv /\ [Next]_vars => KeptInv'
  BY NextTypeOK, UnansweredStep, RowsStep, MarkTakenStep, NowStep, SafeStep DEF KeptInv

\* No webhook whose sender was told 202 is lost before its retention ends,
\* for any number of requests, rounds and failures and wherever a round is
\* killed: it is with the service, or its row waits.
THEOREM NoneLost == Spec => []NothingLost
<1>1. KeptInv => NothingLost
  BY DEF KeptInv, Safe, RowOf, NothingLost
<1>2. QED
  BY <1>1, InitKeptInv, NextKeptInv, PTL DEF Spec

-----------------------------------------------------------------------------
(* A webhook reaches the service twice only for a reason                   *)
(*                                                                         *)
(* While no two rounds overlapped and nothing failed, a webhook is in one  *)
(* place: with its request, in one row, or with the service; and the one   *)
(* row that waits though the service has its webhook is the one the one    *)
(* active round is about to mark.                                          *)

Serene == ~overlap /\ trouble = 0

\* A webhook that was not answered 202 has no row.
NoRowYet == \A w \in Hooks : request[w].answer # "kept" => \A r \in Known : r.hook # w
\* One that has no 2xx yet is not with the service.
NotTakenYet ==
    \A w \in Hooks : request[w].answer \notin {"kept", "passed"} => w \notin TakenByNow
OneRow == \A r, q \in Known : r.hook = q.hook => r.seq = q.seq /\ r.received = q.received
Alone == \A d, e \in Drainers : drainer[d].at # "idle" /\ drainer[e].at # "idle" => d = e
AboutToMark ==
    \A r \in WaitingRows : r.hook \in TakenByNow =>
        \E d \in Drainers : drainer[d].at = "mark" /\ Current(d).hook = r.hook
NotYet ==
    \A d \in Drainers : \A r \in drainer[d].rows :
        r.delivered = {} /\ (r.hook \in TakenByNow => drainer[d].at = "mark" /\ r = Current(d))

OnceInv ==
    Serene => ~again /\ NoRowYet /\ NotTakenYet /\ OneRow /\ Alone /\ AboutToMark /\ NotYet

LEMMA InitOnceInv == Init => OnceInv
<1> SUFFICES ASSUME Init PROVE OnceInv
  OBVIOUS
<1>1. Known = {} /\ WaitingRows = {} /\ TakenByNow = {} /\ ~again
  BY DEF Init, Idle, Known, WaitingRows, TakenByNow
<1>2. \A d \in Drainers : drainer[d].at = "idle" /\ drainer[d].rows = {}
  BY DEF Init, Idle
<1>3. QED
  BY <1>1, <1>2 DEF OnceInv, NoRowYet, NotTakenYet, OneRow, Alone, AboutToMark, NotYet

\* Trouble and overlapping rounds are not forgotten.
LEMMA SereneStep == ASSUME TypeOK, [Next]_vars, Serene' PROVE Serene
<1>1. overlap => overlap'
  BY DEF TypeOK, Next, vars, Send, WorkerStep, Count, Fetch, Keep, Refuse,
     WorkerFails, Begin, DrainStep, Delivered, NotDelivered, Mark, Sweep, DrainFails, Killed, Tick,
     Calm, Trouble
<1>2. trouble \in Nat /\ trouble <= trouble'
  BY TroubleStep, InboxAssumption DEF TypeOK
<1>3. QED
  BY <1>1, <1>2 DEF Serene

\* The Worker's steps.
LEMMA WorkerOnce ==
  ASSUME TypeOK, Unanswered, OnceInv, NEW w \in Hooks, Send(w) \/ WorkerStep(w), Serene, Serene'
  PROVE  OnceInv'
<1>1. /\ ~again /\ NoRowYet /\ NotTakenYet /\ OneRow /\ Alone /\ AboutToMark /\ NotYet
      /\ trouble = 0 /\ trouble' = 0
  BY DEF OnceInv, Serene
<1>2. request[w].answer \in {"none", "refused"}
  BY DEF Send, WorkerStep, Count, Fetch, Keep, Refuse, WorkerFails, Unanswered
<1>3. w \notin TakenByNow /\ \A r \in Known : r.hook # w
  BY <1>1, <1>2 DEF NoRowYet, NotTakenYet
<1>4. \A v \in Hooks \ {w} : request'[v] = request[v]
  BY DEF Send, WorkerStep, Count, Fetch, Keep, Refuse, WorkerFails, Answer, TypeOK
<1>5. UNCHANGED drainer
  BY DEF Send, WorkerStep, Count, Fetch, Keep, Refuse, WorkerFails
<1>6. Alone'
  BY <1>1, <1>5 DEF Alone
<1>7. CASE UNCHANGED <<table, received, again>> /\ request'[w].answer # "kept"
  <2>1. Known' = Known /\ WaitingRows' = WaitingRows /\ TakenByNow' = TakenByNow
    BY <1>5, <1>7 DEF Known, WaitingRows, TakenByNow
  <2>2. NoRowYet' /\ NotTakenYet'
    BY <1>1, <1>3, <1>4, <2>1 DEF NoRowYet, NotTakenYet
  <2>3. OneRow' /\ AboutToMark' /\ NotYet'
    BY <1>1, <1>5, <2>1 DEF OneRow, AboutToMark, NotYet, Current
  <2>4. QED
    BY <1>1, <1>6, <1>7, <2>2, <2>3 DEF OnceInv
<1>8. CASE Take(w) /\ Answer(w, "passed") /\ UNCHANGED table
  <2>1. Known' = Known /\ WaitingRows' = WaitingRows /\ TakenByNow' = TakenByNow \cup {w}
    BY <1>5, <1>8, TakeTakes DEF Known, WaitingRows
  <2>2. request'[w].answer = "passed"
    BY <1>8 DEF Answer, TypeOK
  <2>3. NoRowYet' /\ NotTakenYet'
    BY <1>1, <1>3, <1>4, <2>1, <2>2 DEF NoRowYet, NotTakenYet
  <2>4. WaitingRows \subseteq Known /\ \A d \in Drainers : drainer[d].rows \subseteq Known
    BY DEF WaitingRows, Known, TypeOK, Rounds
  <2>5. OneRow' /\ AboutToMark' /\ NotYet'
    BY <1>1, <1>3, <1>5, <2>1, <2>4 DEF OneRow, AboutToMark, NotYet, Current
  <2>6. ~again'
    BY <1>1, <1>3, <1>8 DEF Take
  <2>7. QED
    BY <1>6, <2>3, <2>5, <2>6 DEF OnceInv
<1>9. CASE Keep(w)
  <2> DEFINE new == [seq |-> NextSeq, hook |-> w, received |-> request[w].now, delivered |-> {}]
  <2>1. table' \subseteq table \cup {new} /\ UNCHANGED <<received, again>>
    BY <1>9 DEF Keep, Stored
  <2>2. TakenByNow' = TakenByNow
    BY <2>1 DEF TakenByNow
  <2>3. Known' \subseteq Known \cup {new} /\ WaitingRows' \subseteq WaitingRows \cup {new}
    BY <1>5, <2>1 DEF Known, WaitingRows, Waiting
  <2>4. new.hook = w
    OBVIOUS
  <2>5. request'[w].answer = "kept"
    BY <1>9 DEF Keep, Answer, TypeOK
  <2> HIDE DEF new
  <2>6. NoRowYet' /\ NotTakenYet'
    BY <1>1, <1>4, <2>2, <2>3, <2>4, <2>5 DEF NoRowYet, NotTakenYet
  <2>7. OneRow'
    BY <1>1, <1>3, <2>3, <2>4 DEF OneRow
  <2>8. AboutToMark' /\ NotYet'
    BY <1>1, <1>3, <1>5, <2>2, <2>3, <2>4 DEF AboutToMark, NotYet, Current
  <2>9. QED
    BY <1>1, <1>6, <2>1, <2>6, <2>7, <2>8 DEF OnceInv
<1>10. ~Trouble
  BY <1>1 DEF Trouble
<1>11. ASSUME Send(w) \/ Count(w) \/ Answer(w, "refused") \/ request' = [request EXCEPT ![w].at = "store"]
       PROVE  request'[w].answer # "kept"
  BY <1>2, <1>11 DEF Send, Count, Answer, TypeOK, Requests
<1>12. QED
  BY <1>7, <1>8, <1>9, <1>10, <1>11 DEF Send, WorkerStep, Count, Fetch, Refuse, WorkerFails,
     NotTaken

\* The steps of a round.
LEMMA RoundOnce ==
  ASSUME TypeOK, OnceInv, NEW d \in Drainers, Begin(d) \/ DrainStep(d) \/ Killed(d),
         Serene, Serene'
  PROVE  OnceInv'
<1>1. /\ ~again /\ NoRowYet /\ NotTakenYet /\ OneRow /\ Alone /\ AboutToMark /\ NotYet
      /\ trouble = 0 /\ trouble' = 0 /\ ~overlap'
  BY DEF OnceInv, Serene
<1>2. ~Trouble
  BY <1>1 DEF Trouble
<1>3. UNCHANGED request
  BY DEF Begin, DrainStep, Delivered, NotDelivered, Mark, Sweep, DrainFails, Killed
<1>4. \A e \in Drainers \ {d} : drainer'[e] = drainer[e]
  BY DEF Begin, DrainStep, Delivered, NotDelivered, GiveUp, Mark, Onward, Sweep, DrainFails,
     Killed, TypeOK
<1>5. NoRowYet' /\ OneRow'
  <2>1. \A r \in Known' : \E q \in Known : SameRow(r, q)
    BY RoundKnown DEF KnownBefore
  <2>2. NoRowYet'
    BY <1>1, <1>3, <2>1 DEF NoRowYet, SameRow
  <2>3. OneRow'
    BY <1>1, <2>1 DEF OneRow, SameRow
  <2>4. QED
    BY <2>2, <2>3
\* No other round is active: it holds no row and marks none.
<1>6. \A e \in Drainers \ {d} : drainer[e].at = "idle" /\ drainer[e].rows = {}
  <2>1. \A e \in Drainers \ {d} : drainer[e].at = "idle"
    <3>1. CASE Begin(d)
      BY <1>1, <3>1 DEF Begin
    <3>2. CASE ~Begin(d)
      <4>1. drainer[d].at # "idle"
        BY <3>2 DEF DrainStep, Delivered, NotDelivered, Mark, Sweep, DrainFails, Killed
      <4>2. QED
        BY <1>1, <4>1 DEF Alone
    <3>3. QED
      BY <3>1, <3>2
  <2>2. QED
    BY <2>1 DEF TypeOK
<1>7. Alone'
  BY <1>4, <1>6 DEF Alone
<1>8. CASE Begin(d)
  <2>1. TakenByNow' = TakenByNow /\ WaitingRows' = WaitingRows /\ again' = again
    BY <1>8 DEF Begin, TakenByNow, WaitingRows, Waiting
  <2>2. \A r \in WaitingRows : r.hook \notin TakenByNow
    BY <1>1, <1>6, <1>8 DEF Begin, AboutToMark
  <2>3. drainer'[d].rows \subseteq WaitingRows
    BY <1>8 DEF Begin, FirstWaiting, TypeOK
  <2>4. NotYet'
    BY <1>4, <1>6, <2>1, <2>2, <2>3 DEF NotYet, WaitingRows, Waiting
  <2>5. QED
    BY <1>1, <1>3, <1>5, <1>7, <2>1, <2>2, <2>4 DEF OnceInv, NotTakenYet, AboutToMark
<1>9. CASE Delivered(d)
  <2> DEFINE w == Current(d).hook
  <2>1. drainer[d].at = "deliver" /\ Current(d) \in drainer[d].rows /\ Current(d) \in Known
        /\ Current(d) \in Row /\ w \in Hooks
    BY <1>9, CurrentType DEF Delivered
  <2>2. w \notin TakenByNow /\ \A r \in drainer[d].rows : r.hook \notin TakenByNow
    BY <1>1, <2>1 DEF NotYet
  <2>3. TakenByNow' = TakenByNow \cup {w} /\ again' = FALSE
    BY <1>1, <1>9, <2>1, <2>2, TakeTakes DEF Delivered, TakeCurrent, Take
  <2>4. WaitingRows' = WaitingRows
    BY <1>9 DEF Delivered, WaitingRows, Waiting
  <2>5. drainer'[d].rows = drainer[d].rows /\ drainer'[d].at = "mark"
    BY <1>9 DEF Delivered, TypeOK, Rounds
  <2>6. Current(d)' = Current(d)
    BY <2>5 DEF Current
  <2>7. NotTakenYet'
    BY <1>1, <1>3, <2>1, <2>3 DEF NotTakenYet, NoRowYet
  <2>8. AboutToMark'
    <3>1. \A r \in WaitingRows : r.hook \notin TakenByNow
      BY <1>1, <1>6, <2>1 DEF AboutToMark
    <3>2. QED
      BY <2>3, <2>4, <2>5, <2>6, <3>1 DEF AboutToMark
  <2>9. NotYet'
    <3>1. ASSUME NEW r \in drainer[d].rows, r.hook = w PROVE r = Current(d)
      <4>1. r \in Known /\ r \in Row
        BY DEF Known, TypeOK, Rounds
      <4>2. r.seq = Current(d).seq /\ r.received = Current(d).received
        BY <1>1, <2>1, <3>1, <4>1 DEF OneRow
      <4>3. r.delivered = Current(d).delivered
        BY <1>1, <2>1 DEF NotYet
      <4>4. QED
        BY <2>1, <3>1, <4>1, <4>2, <4>3 DEF Row
    <3>2. \A r \in drainer[d].rows : r.delivered = {}
      BY <1>1 DEF NotYet
    <3>3. QED
      BY <1>4, <1>6, <2>2, <2>3, <2>5, <2>6, <3>1, <3>2 DEF NotYet
  <2>10. QED
    BY <1>5, <1>7, <2>3, <2>7, <2>8, <2>9 DEF OnceInv
<1>10. ASSUME UNCHANGED <<received, again>>, drainer'[d].rows = {},
              \A r \in WaitingRows' : r \in WaitingRows /\ r.hook \notin TakenByNow
       PROVE  OnceInv'
  <2>1. TakenByNow' = TakenByNow
    BY <1>10 DEF TakenByNow
  <2>2. NotTakenYet' /\ AboutToMark'
    BY <1>1, <1>3, <1>10, <2>1 DEF NotTakenYet, AboutToMark
  <2>3. NotYet'
    BY <1>4, <1>6, <1>10 DEF NotYet
  <2>4. QED
    BY <1>1, <1>5, <1>7, <1>10, <2>2, <2>3 DEF OnceInv
<1>11. CASE NotDelivered(d)
  <2>1. \A r \in WaitingRows : r.hook \notin TakenByNow
    BY <1>1, <1>6, <1>11 DEF NotDelivered, AboutToMark
  <2>2. WaitingRows' = WaitingRows
    BY <1>11 DEF NotDelivered, WaitingRows, Waiting
  <2>3. drainer'[d].rows = {}
    BY <1>11 DEF NotDelivered, GiveUp, TypeOK
  <2>4. QED
    BY <1>2, <1>10, <1>11, <2>1, <2>2, <2>3 DEF NotDelivered, NotTaken
<1>12. CASE Sweep(d)
  <2>1. \A r \in WaitingRows : r.hook \notin TakenByNow
    BY <1>1, <1>6, <1>12 DEF Sweep, AboutToMark
  <2>2. WaitingRows' \subseteq WaitingRows
    BY <1>12 DEF Sweep, WaitingRows, Waiting
  <2>3. drainer'[d].rows = {}
    BY <1>12 DEF Sweep, Idle, TypeOK
  <2>4. QED
    BY <1>10, <1>12, <2>1, <2>2, <2>3 DEF Sweep
<1>13. CASE Mark(d)
  <2>1. drainer[d].at = "mark" /\ Current(d) \in drainer[d].rows /\ Current(d) \in Known
    BY <1>13, CurrentType DEF Mark
  <2>2. TakenByNow' = TakenByNow /\ again' = again
    BY <1>13 DEF Mark, TakenByNow
  <2>3. \A r \in WaitingRows' : r \in WaitingRows /\ r.seq # Current(d).seq
    <3>1. ASSUME NEW row \in table, row.seq = Current(d).seq
          PROVE  [row EXCEPT !.delivered = {clock}].delivered # {}
      BY DEF TypeOK, Row
    <3>2. table' = MarkDelivered(Current(d).seq)
      BY <1>13 DEF Mark
    <3>3. \A r \in table' : r.delivered = {} => r \in table /\ r.seq # Current(d).seq
      BY <3>1, <3>2 DEF MarkDelivered
    <3>4. QED
      BY <3>3 DEF WaitingRows, Waiting
  <2>4. \A r \in WaitingRows' : r.hook \notin TakenByNow
    <3>1. \A r \in WaitingRows : r \in Known
      BY DEF WaitingRows, Known
    <3>2. \A r \in WaitingRows : r.hook \in TakenByNow => r.seq = Current(d).seq
      BY <1>1, <1>6, <2>1, <3>1 DEF AboutToMark, OneRow
    <3>3. QED
      BY <2>3, <3>2
  <2>5. drainer'[d].rows = drainer[d].rows \ {Current(d)}
    BY <1>13 DEF Mark, Onward, TypeOK
  <2>6. \A r \in drainer'[d].rows : r.delivered = {} /\ r.hook \notin TakenByNow
    BY <1>1, <2>5 DEF NotYet
  <2>7. NotYet'
    BY <1>4, <1>6, <2>2, <2>6 DEF NotYet
  <2>8. NotTakenYet' /\ AboutToMark'
    BY <1>1, <1>3, <2>2, <2>4 DEF NotTakenYet, AboutToMark
  <2>9. QED
    BY <1>1, <1>5, <1>7, <2>2, <2>7, <2>8 DEF OnceInv
<1>14. QED
  BY <1>2, <1>8, <1>9, <1>11, <1>12, <1>13 DEF DrainStep, DrainFails, Killed

LEMMA NextOnceInv == TypeOK /\ Unanswered /\ OnceInv /\ [Next]_vars => OnceInv'
<1> SUFFICES ASSUME TypeOK, Unanswered, OnceInv, [Next]_vars, Serene' PROVE OnceInv'
  BY DEF OnceInv
<1>1. Serene
  BY SereneStep
<1>2. CASE UNCHANGED <<table, request, drainer, received, again>>
  <2>1. Known' = Known /\ WaitingRows' = WaitingRows /\ TakenByNow' = TakenByNow
    BY <1>2 DEF Known, WaitingRows, Waiting, TakenByNow
  <2>2. QED
    BY <1>1, <1>2, <2>1 DEF OnceInv, NoRowYet, NotTakenYet, OneRow, Alone, AboutToMark, NotYet,
       Current
<1>3. QED
  BY <1>1, <1>2, WorkerOnce, RoundOnce DEF Next, vars, Tick

\* A webhook reaches the service twice only after two rounds overlapped or a
\* query, an answer or a round was lost: a single drainer in peace delivers
\* each webhook once, however many requests of the Worker overlap.
THEOREM OnceInPeace == Spec => []TwiceForAReason
<1>1. TypeOK /\ OnceInv => TwiceForAReason
  <2>1. TypeOK => trouble \in Nat
    BY InboxAssumption DEF TypeOK
  <2>2. QED
    BY <2>1 DEF OnceInv, Serene, TwiceForAReason
<1>2. Init => TypeOK /\ Unanswered /\ OnceInv
  BY InitKeptInv, InitOnceInv DEF KeptInv
<1>3. TypeOK /\ Unanswered /\ OnceInv /\ [Next]_vars => (TypeOK /\ Unanswered /\ OnceInv)'
  BY NextTypeOK, UnansweredStep, NextOnceInv
<1>4. QED
  BY <1>1, <1>2, <1>3, PTL DEF Spec

-----------------------------------------------------------------------------
(* The order is kept                                                       *)
(*                                                                         *)
(* Of a webhook w, request[w].after names the ones it must not overtake.   *)
(* Until such a one is with the service, or past its retention, its row    *)
(* waits below every row of w, and in every round that holds a copy of a   *)
(* row of w a copy of it comes first; and w does not go straight.          *)

Done(v) == v \in TakenByNow \/ PastRetention(v)

AfterKept == \A w \in Hooks : request[w].after \subseteq KeptHooks
NoRowUnsent == \A w \in Hooks : request[w].at = "unsent" => \A r \in Known : r.hook # w
StraightAfter == \A w \in Hooks : request[w].at = "fetch" => \A v \in request[w].after : Done(v)

Below(v, r) == \E q \in WaitingRows : q.hook = v /\ q.received = request[v].now /\ q.seq < r.seq
RowsInOrder == \A r \in WaitingRows : \A v \in request[r.hook].after : Done(v) \/ Below(v, r)

Before(d, v, r) == \E q \in drainer[d].rows : q.hook = v /\ q.seq < r.seq
RoundsInOrder ==
    \A d \in Drainers : \A r \in drainer[d].rows : \A v \in request[r.hook].after :
        Done(v) \/ Before(d, v, r)

OrderInv == AfterKept /\ NoRowUnsent /\ StraightAfter /\ RowsInOrder /\ RoundsInOrder

LEMMA InitOrderInv == Init => OrderInv
<1> SUFFICES ASSUME Init PROVE OrderInv
  OBVIOUS
<1>1. Known = {} /\ WaitingRows = {} /\ \A d \in Drainers : drainer[d].rows = {}
  BY DEF Init, Idle, Known, WaitingRows
<1>2. \A w \in Hooks : request[w].after = {} /\ request[w].at = "unsent"
  BY DEF Init
<1>3. QED
  BY <1>1, <1>2 DEF OrderInv, AfterKept, NoRowUnsent, StraightAfter, RowsInOrder, RoundsInOrder

LEMMA ClockStep == ASSUME [Next]_vars PROVE clock' = clock \/ clock' = clock + 1
  BY DEF Next, vars, Send, WorkerStep, Count, Fetch, Keep, Refuse, WorkerFails,
     Begin, DrainStep, Delivered, NotDelivered, Mark, Sweep, DrainFails, Killed, Tick

\* What is done stays done.
LEMMA DoneStays ==
  ASSUME KeptInv, [Next]_vars, NEW v \in KeptHooks, Done(v)
  PROVE  Done(v)'
<1>1. request'[v] = request[v] /\ v \in Hooks
  BY KeptStays DEF KeptInv, KeptHooks
<1>2. TakenByNow \subseteq TakenByNow'
  BY TakenStep DEF KeptInv
<1>3. clock \in Nat /\ request[v].now \in Nat
  BY <1>1, InboxAssumption DEF KeptInv, TypeOK, Requests
<1>4. QED
  BY <1>1, <1>2, <1>3, ClockStep DEF Done, PastRetention

\* The webhooks one must not overtake are named when it is first sent.
LEMMA AfterStep ==
  ASSUME TypeOK, [Next]_vars, NEW w \in Hooks
  PROVE  \/ request'[w].after \subseteq request[w].after
         \/ Send(w) /\ request[w].at = "unsent" /\ request'[w].after = KeptHooks
<1>1. CASE request'[w] = request[w]
  BY <1>1
<1>2. CASE Send(w)
  BY <1>2 DEF Send, TypeOK
<1>3. CASE Count(w) \/ request' = [request EXCEPT ![w].at = "store"]
  <2>1. request[w] \in Requests
    BY DEF TypeOK
  <2>2. request'[w].after = request[w].after
    BY <1>3, <2>1 DEF Count, TypeOK, Requests
  <2>3. QED
    BY <2>2
<1>4. ASSUME NEW a, Answer(w, a) PROVE request'[w].after \subseteq request[w].after
  BY <1>4 DEF Answer, TypeOK
<1>5. ASSUME NEW v \in Hooks, v # w, Send(v) \/ WorkerStep(v) PROVE request'[w] = request[w]
  BY <1>5 DEF Send, WorkerStep, Count, Fetch, Keep, Refuse, WorkerFails, Answer, TypeOK
<1>6. CASE WorkerStep(w)
  BY <1>3, <1>4, <1>6 DEF WorkerStep, Fetch, Keep, Refuse, WorkerFails
<1>7. QED
  BY <1>1, <1>2, <1>5, <1>6 DEF Next, vars, Begin, DrainStep, Delivered, NotDelivered, Mark,
     Sweep, DrainFails, Killed, Tick

\* Nothing but a write makes a row that waits.
LEMMA WaitingStep ==
  ASSUME TypeOK, [Next]_vars, NEW r \in WaitingRows'
  PROVE  \/ r \in WaitingRows
         \/ \E w \in Hooks : /\ Keep(w) \/ WorkerFails(w)
                             /\ request[w].at = "store" /\ r.hook = w /\ r.seq = NextSeq
<1>1. r \in table' /\ r.delivered = {}
  BY DEF WaitingRows, Waiting
<1>2. CASE r \in table
  BY <1>1, <1>2 DEF WaitingRows, Waiting
<1>3. CASE r \notin table
  <2>1. ASSUME NEW d \in Drainers, table' = MarkDelivered(Current(d).seq) PROVE FALSE
    <3>1. \A row \in table : [row EXCEPT !.delivered = {clock}].delivered # {}
      BY DEF TypeOK, Row
    <3>2. QED
      BY <1>1, <1>3, <2>1, <3>1 DEF MarkDelivered
  <2>2. ASSUME table' \subseteq table PROVE FALSE
    BY <1>1, <1>3, <2>2
  <2>3. ASSUME NEW w \in Hooks, table' = Stored(w) PROVE r.hook = w /\ r.seq = NextSeq
    BY <1>1, <1>3, <2>3 DEF Stored
  <2>4. ASSUME NEW d \in Drainers, Begin(d) \/ DrainStep(d) \/ Killed(d) PROVE FALSE
    BY <2>1, <2>2, <2>4 DEF Begin, DrainStep, Delivered, NotDelivered, Mark, Sweep, DrainFails,
       Killed
  <2>5. PICK w \in Hooks : (Keep(w) \/ WorkerFails(w)) /\ request[w].at = "store"
                          /\ table' = Stored(w)
    BY <2>2, <2>4 DEF Next, vars, Send, WorkerStep, Count, Fetch, Keep, Refuse, WorkerFails, Tick
  <2>6. QED
    BY <2>3, <2>5
<1>4. QED
  BY <1>2, <1>3

LEMMA AfterKeptStep ==
  ASSUME TypeOK, Unanswered, AfterKept, [Next]_vars
  PROVE  AfterKept'
<1>1. KeptHooks \subseteq KeptHooks'
  BY KeptStep
<1>2. QED
  BY <1>1, AfterStep DEF AfterKept

\* A request is never unsent again.
LEMMA UnsentStep ==
  ASSUME TypeOK, [Next]_vars, NEW w \in Hooks, request'[w].at = "unsent"
  PROVE  request[w].at = "unsent" /\ ~Keep(w) /\ ~WorkerFails(w)
<1>1. CASE UNCHANGED request
  BY <1>1 DEF Keep, WorkerFails, Answer, TypeOK
<1>2. ASSUME NEW v \in Hooks, v # w, Send(v) \/ WorkerStep(v)
      PROVE  request'[w] = request[w]
  BY <1>2 DEF Send, WorkerStep, Count, Fetch, Keep, Refuse, WorkerFails, Answer, TypeOK
<1>3. CASE Send(w) \/ WorkerStep(w)
  BY <1>3 DEF Send, WorkerStep, Count, Fetch, Keep, Refuse, WorkerFails, Answer, TypeOK, Requests
<1>4. ~Keep(w) /\ ~WorkerFails(w)
  BY DEF Keep, WorkerFails, Answer, TypeOK
<1>5. QED
  BY <1>1, <1>2, <1>3, <1>4 DEF Next, vars, Begin, DrainStep, Delivered, NotDelivered, Mark,
     Sweep, DrainFails, Killed, Tick

LEMMA NoRowUnsentStep ==
  ASSUME TypeOK, NoRowUnsent, [Next]_vars
  PROVE  NoRowUnsent'
<1> SUFFICES ASSUME NEW w \in Hooks, request'[w].at = "unsent", NEW r \in Known'
             PROVE  r.hook # w
  BY DEF NoRowUnsent
<1>1. request[w].at = "unsent" /\ ~Keep(w) /\ ~WorkerFails(w)
  BY UnsentStep
<1>2. CASE KnownBefore(r)
  BY <1>1, <1>2 DEF KnownBefore, SameRow, NoRowUnsent
<1>3. QED
  BY <1>1, <1>2, KnownStep

\* The straight way is taken after a count that found nothing waiting.
LEMMA StraightAfterStep ==
  ASSUME KeptInv, AfterKept, StraightAfter, [Next]_vars
  PROVE  StraightAfter'
<1> USE DEF KeptInv
<1> SUFFICES ASSUME NEW w \in Hooks, request'[w].at = "fetch", NEW v \in request'[w].after
             PROVE  Done(v)'
  BY DEF StraightAfter
<1>1. CASE request[w].at = "fetch"
  <2>1. ~Send(w)
    BY <1>1 DEF Send, TypeOK
  <2>2. v \in request[w].after
    BY <2>1, AfterStep
  <2>3. Done(v) /\ v \in KeptHooks
    BY <1>1, <2>2 DEF StraightAfter, AfterKept
  <2>4. QED
    BY <2>3, DoneStays
<1>2. CASE request[w].at # "fetch"
  <2>1. Count(w) /\ Cardinality(WaitingRows) = 0
    <3>1. request[w] \in Requests
      BY DEF TypeOK
    <3>2. ~UNCHANGED request
      BY <1>2
    <3>3. ASSUME NEW u \in Hooks, u # w PROVE ~Send(u) /\ ~WorkerStep(u)
      <4>1. Send(u) \/ WorkerStep(u) => request'[w] = request[w]
        BY <3>3 DEF Send, WorkerStep, Count, Fetch, Keep, Refuse, WorkerFails, Answer, TypeOK
      <4>2. QED
        BY <1>2, <4>1
    <3>4. ~Send(w) /\ ~Fetch(w) /\ ~Keep(w) /\ ~Refuse(w) /\ ~WorkerFails(w)
      <4>1. ~Send(w)
        BY DEF Send, TypeOK
      <4>2. \A answer : Answer(w, answer) => request'[w].at = "done"
        BY DEF Answer, TypeOK
      <4>3. QED
        BY <1>2, <4>1, <4>2 DEF Fetch, Keep, Refuse, WorkerFails
    <3>5. Count(w)
      BY <3>2, <3>3, <3>4 DEF Next, vars, WorkerStep, Begin, DrainStep, Delivered, NotDelivered,
         Mark, Sweep, DrainFails, Killed, Tick
    <3>6. request'[w].at = IF Cardinality(WaitingRows) = 0 THEN "fetch" ELSE "store"
      BY <3>5 DEF Count, TypeOK
    <3>7. QED
      BY <3>5, <3>6
  <2>2. WaitingRows = {}
    <3>1. IsFiniteSet(WaitingRows)
      BY FS_Subset DEF TypeOK, WaitingRows
    <3>2. QED
      BY <2>1, <3>1, FS_EmptySet
  <2>3. v \in request[w].after
    BY <2>1, AfterStep DEF Count, Send
  <2>4. v \in KeptHooks
    BY <2>3 DEF AfterKept
  <2>5. Done(v)
    BY <2>2, <2>4 DEF Safe, RowOf, Done
  <2>6. QED
    BY <2>4, <2>5, DoneStays
<1>3. QED
  BY <1>1, <1>2

\* A row that waits below another does so until it is done.
LEMMA RowStays ==
  ASSUME KeptInv, [Next]_vars, NEW v \in KeptHooks, NEW q \in WaitingRows,
         q.hook = v, q.received = request[v].now
  PROVE  Done(v)' \/ (q \in WaitingRows' /\ request'[v].now = request[v].now)
<1> USE DEF KeptInv
<1>1. v \in Hooks /\ request'[v] = request[v]
  BY KeptStays DEF KeptHooks
<1>2. q \in table' \/ Done(v)
  BY <1>1, RowStep DEF Done, PastRetention
<1>3. CASE Done(v)
  BY <1>3, DoneStays
<1>4. CASE q \in table'
  <2>1. q \in WaitingRows'
    BY <1>4 DEF WaitingRows, Waiting
  <2>2. QED
    BY <1>1, <2>1
<1>5. QED
  BY <1>2, <1>3, <1>4

LEMMA RowsInOrderStep ==
  ASSUME KeptInv, AfterKept, NoRowUnsent, RowsInOrder, [Next]_vars
  PROVE  RowsInOrder'
<1> USE DEF KeptInv
<1> SUFFICES ASSUME NEW r \in WaitingRows', NEW v \in request'[r.hook].after, ~Done(v)'
             PROVE  Below(v, r)'
  BY DEF RowsInOrder
<1>1. CASE r \in WaitingRows
  <2>1. r \in Known /\ r.hook \in Hooks
    BY <1>1 DEF WaitingRows, Known, TypeOK, Row
  <2>2. request[r.hook].at # "unsent"
    BY <2>1 DEF NoRowUnsent
  <2>3. v \in request[r.hook].after
    BY <2>1, <2>2, AfterStep
  <2>4. v \in KeptHooks
    BY <2>1, <2>3 DEF AfterKept
  <2>5. ~Done(v)
    BY <2>4, DoneStays
  <2>6. PICK q \in WaitingRows : q.hook = v /\ q.received = request[v].now /\ q.seq < r.seq
    BY <1>1, <2>3, <2>5 DEF RowsInOrder, Below
  <2>7. q \in WaitingRows' /\ request'[v].now = request[v].now
    BY <2>4, <2>6, RowStays
  <2>8. QED
    BY <2>6, <2>7 DEF Below
<1>2. CASE r \notin WaitingRows
  <2>1. PICK w \in Hooks : /\ Keep(w) \/ WorkerFails(w)
                          /\ request[w].at = "store" /\ r.hook = w /\ r.seq = NextSeq
    BY <1>2, WaitingStep
  <2>2. v \in request[w].after
    BY <2>1, AfterStep DEF Send
  <2>3. v \in KeptHooks
    BY <2>2 DEF AfterKept
  <2>4. ~Done(v)
    BY <2>3, DoneStays
  <2>5. PICK q \in WaitingRows : q.hook = v /\ q.received = request[v].now
    BY <2>3, <2>4 DEF Safe, RowOf, Done
  <2>6. q.seq < r.seq
    BY <2>1, <2>5 DEF SeqsUsed, Known, WaitingRows
  <2>7. q \in WaitingRows' /\ request'[v].now = request[v].now
    BY <2>3, <2>5, RowStays
  <2>8. QED
    BY <2>5, <2>6, <2>7 DEF Below
<1>3. QED
  BY <1>1, <1>2

\* A batch holds, with a row, every row that waits below it.
LEMMA BatchIsFirst ==
  ASSUME TypeOK, NEW r \in FirstWaiting, NEW q \in WaitingRows, q.seq < r.seq
  PROVE  q \in FirstWaiting
<1> DEFINE Under(n) == {other \in WaitingRows : other.seq < n}
<1>1. IsFiniteSet(WaitingRows) /\ \A row \in WaitingRows : row.seq \in Nat
  BY FS_Subset DEF TypeOK, WaitingRows, Row
<1>2. IsFiniteSet(Under(r.seq)) /\ IsFiniteSet(Under(q.seq))
  BY <1>1, FS_Subset
<1>3. r \in WaitingRows
  BY DEF FirstWaiting
<1>4. Under(q.seq) \subseteq Under(r.seq)
  BY <1>1, <1>3
<1>5. Cardinality(Under(q.seq)) <= Cardinality(Under(r.seq))
  BY <1>2, <1>4, FS_Subset
<1>6. Cardinality(Under(q.seq)) \in Nat /\ Cardinality(Under(r.seq)) \in Nat /\ Batch \in Nat
  BY <1>2, FS_CardinalityType, InboxAssumption
<1>7. Cardinality(Under(r.seq)) < Batch
  BY DEF FirstWaiting
<1>8. QED
  BY <1>5, <1>6, <1>7 DEF FirstWaiting

\* The rows of a round are those it began with, less the ones it is through with.
LEMMA RoundRows ==
  ASSUME TypeOK, [Next]_vars, NEW d \in Drainers
  PROVE  \/ drainer'[d].rows = drainer[d].rows
         \/ Begin(d) /\ drainer'[d].rows = FirstWaiting
         \/ Mark(d) /\ drainer'[d].rows = drainer[d].rows \ {Current(d)}
         \/ drainer'[d].rows = {}
<1>1. CASE UNCHANGED drainer
  BY <1>1
<1>2. ASSUME NEW e \in Drainers, e # d, Begin(e) \/ DrainStep(e) \/ Killed(e)
      PROVE  drainer'[d] = drainer[d]
  BY <1>2 DEF TypeOK, Begin, DrainStep, Delivered, NotDelivered, GiveUp, Mark, Onward, Sweep,
     DrainFails, Killed
<1>3. CASE Begin(d)
  BY <1>3 DEF Begin, TypeOK
<1>4. CASE Mark(d)
  BY <1>4 DEF Mark, Onward, TypeOK
<1>5. CASE Delivered(d)
  <2>1. drainer[d] \in Rounds
    BY DEF TypeOK
  <2>2. drainer'[d] = [drainer[d] EXCEPT !.at = "mark"]
    BY <1>5 DEF Delivered, TypeOK
  <2>3. QED
    BY <2>1, <2>2 DEF Rounds
<1>6. CASE NotDelivered(d) \/ Sweep(d) \/ DrainFails(d) \/ Killed(d)
  BY <1>6 DEF NotDelivered, GiveUp, Sweep, DrainFails, Killed, Idle, TypeOK
<1>7. CASE \E w \in Hooks : Send(w) \/ WorkerStep(w)
  BY <1>1, <1>7 DEF Send, WorkerStep, Count, Fetch, Keep, Refuse, WorkerFails
<1>8. CASE Tick
  BY <1>1, <1>8 DEF Tick
<1>9. CASE \E e \in Drainers : Begin(e) \/ DrainStep(e) \/ Killed(e)
  <2>1. PICK e \in Drainers : Begin(e) \/ DrainStep(e) \/ Killed(e)
    BY <1>9
  <2>2. CASE e # d
    BY <1>2, <2>1, <2>2
  <2>3. CASE e = d
    BY <1>3, <1>4, <1>5, <1>6, <2>1, <2>3 DEF DrainStep
  <2>4. QED
    BY <2>2, <2>3
<1>10. CASE UNCHANGED vars
  BY <1>1, <1>10 DEF vars
<1>11. QED
  BY <1>7, <1>8, <1>9, <1>10 DEF Next

LEMMA RoundsInOrderStep ==
  ASSUME KeptInv, OrderInv, [Next]_vars
  PROVE  RoundsInOrder'
<1> USE DEF KeptInv, OrderInv
<1> SUFFICES ASSUME NEW d \in Drainers, NEW r \in drainer'[d].rows,
                    NEW v \in request'[r.hook].after, ~Done(v)'
             PROVE  Before(d, v, r)'
  BY DEF RoundsInOrder
<1>1. ASSUME r \in Known
      PROVE  r.hook \in Hooks /\ v \in request[r.hook].after /\ ~Done(v)
  <2>1. r.hook \in Hooks
    BY <1>1 DEF Known, TypeOK, Row
  <2>2. request[r.hook].at # "unsent"
    BY <1>1, <2>1 DEF NoRowUnsent
  <2>3. v \in request[r.hook].after
    BY <2>1, <2>2, AfterStep
  <2>4. v \in KeptHooks
    BY <2>1, <2>3 DEF AfterKept
  <2>5. QED
    BY <2>1, <2>3, <2>4, DoneStays
<1>2. drainer[d].rows \subseteq Known
  BY DEF Known, TypeOK, Rounds
<1>3. CASE r \in drainer[d].rows
  <2>1. PICK q \in drainer[d].rows : q.hook = v /\ q.seq < r.seq
    BY <1>1, <1>2, <1>3 DEF RoundsInOrder, Before
  <2>2. CASE drainer'[d].rows = drainer[d].rows
    BY <2>1, <2>2 DEF Before
  <2>3. CASE Mark(d)
    <3>1. drainer'[d].rows = drainer[d].rows \ {Current(d)}
      BY <2>3 DEF Mark, Onward, TypeOK
    <3>2. q # Current(d)
      BY <1>1, <1>2, <1>3, <2>1, <2>3 DEF Mark, MarkTaken, Done
    <3>3. QED
      BY <2>1, <3>1, <3>2 DEF Before
  <2>4. ~Begin(d) /\ drainer'[d].rows # {}
    BY <1>3 DEF Begin, TypeOK
  <2>5. QED
    BY <2>2, <2>3, <2>4, RoundRows
<1>4. CASE r \notin drainer[d].rows
  <2>1. drainer'[d].rows # drainer[d].rows \ {Current(d)} /\ drainer'[d].rows # {}
        /\ drainer'[d].rows # drainer[d].rows
    BY <1>4
  <2>2. Begin(d) /\ drainer'[d].rows = FirstWaiting
    BY <2>1, RoundRows
  <2>3. r \in WaitingRows /\ r \in Known
    BY <2>2 DEF FirstWaiting, WaitingRows, Known
  <2>4. PICK q \in WaitingRows : q.hook = v /\ q.seq < r.seq
    BY <1>1, <2>3 DEF RowsInOrder, Below
  <2>5. q \in FirstWaiting
    BY <2>2, <2>4, BatchIsFirst
  <2>6. QED
    BY <2>2, <2>4, <2>5 DEF Before
<1>5. QED
  BY <1>3, <1>4

LEMMA NextOrderInv == KeptInv /\ OrderInv /\ [Next]_vars => OrderInv'
<1> SUFFICES ASSUME KeptInv, OrderInv, [Next]_vars PROVE OrderInv'
  OBVIOUS
<1>1. TypeOK /\ Unanswered
  BY DEF KeptInv
<1>2. AfterKept /\ NoRowUnsent /\ StraightAfter /\ RowsInOrder
  BY DEF OrderInv
<1>3. QED
  BY <1>1, <1>2, AfterKeptStep, NoRowUnsentStep, StraightAfterStep, RowsInOrderStep,
     RoundsInOrderStep DEF OrderInv

\* A round delivers the first of its rows.
LEMMA CurrentIsFirst ==
  ASSUME TypeOK, NEW d \in Drainers, NEW q \in drainer[d].rows
  PROVE  Current(d).seq <= q.seq
<1>1. drainer[d].rows \subseteq Row
  BY DEF TypeOK, Rounds
<1>2. QED
  BY <1>1, FirstIsLeast DEF Current

LEMMA OrderStep ==
  ASSUME KeptInv, OrderInv, [Next]_vars
  PROVE  \A w \in TakenByNow' \ TakenByNow : \A v \in request[w].after :
             v \in TakenByNow \/ PastRetention(v)
<1> USE DEF KeptInv, OrderInv
<1> SUFFICES ASSUME NEW w \in TakenByNow' \ TakenByNow, NEW v \in request[w].after, ~Done(v)
             PROVE  FALSE
  BY DEF Done
<1>1. CASE \E u \in Hooks : Fetch(u) /\ Take(u)
  <2>1. w \in Hooks /\ request[w].at = "fetch"
    BY <1>1, TakeTakes DEF Fetch
  <2>2. QED
    BY <2>1 DEF StraightAfter
<1>2. ASSUME NEW d \in Drainers, Delivered(d) \/ NotDelivered(d), TakeCurrent(d) PROVE FALSE
  <2>1. /\ Current(d) \in drainer[d].rows /\ Current(d).hook \in Hooks /\ Current(d) \in Row
    BY <1>2, CurrentType DEF Delivered, NotDelivered
  <2>2. w = Current(d).hook
    BY <1>2, <2>1, TakeTakes DEF TakeCurrent
  <2>3. PICK q \in drainer[d].rows : q.seq < Current(d).seq
    BY <2>1, <2>2 DEF RoundsInOrder, Before
  <2>4. Current(d).seq <= q.seq /\ Current(d).seq \in Nat /\ q.seq \in Nat
    BY <2>1, CurrentIsFirst DEF TypeOK, Rounds, Row
  <2>5. QED
    BY <2>3, <2>4
<1>3. CASE UNCHANGED received
  BY <1>3 DEF TakenByNow
<1>4. QED
  BY <1>1, <1>2, <1>3 DEF Next, vars, Send, WorkerStep, Count, Fetch, Keep, Refuse, WorkerFails,
     Begin, DrainStep, Delivered, NotDelivered, Mark, Sweep, DrainFails, Killed, Tick, NotTaken

\* The service never sees a webhook before one whose sender had its 202 when
\* this one was sent, unless the retention took that one: for any number of
\* requests and of rounds beside each other, and whatever fails.
THEOREM OrderKept == Spec => InOrder
<1>1. Init => KeptInv /\ OrderInv
  BY InitKeptInv, InitOrderInv
<1>2. KeptInv /\ OrderInv /\ [Next]_vars => (KeptInv /\ OrderInv)'
  BY NextKeptInv, NextOrderInv
<1>3. KeptInv /\ OrderInv /\ [Next]_vars =>
        [\A w \in TakenByNow' \ TakenByNow :
            \A v \in request[w].after : v \in TakenByNow \/ PastRetention(v)]_vars
  BY OrderStep
<1>4. QED
  BY <1>1, <1>2, <1>3, PTL DEF Spec, InOrder

=============================================================================
