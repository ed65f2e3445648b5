-------------------------------- MODULE Inbox --------------------------------
(***************************************************************************)
(* The webhook inbox of one route: a Worker in front of the tunnel keeps   *)
(* the webhooks that arrive while this computer is off                     *)
(* (engine/inbox-worker.js), and this computer reads them back and         *)
(* delivers them to the local service (inbox.rs: drain).                   *)
(*                                                                         *)
(* Nothing is shared but one table at Cloudflare, and nothing is locked:   *)
(* requests of the Worker run side by side and each counts what waits,     *)
(* asks the tunnel and stores in separate steps; the app's 30 second loop, *)
(* the window's "deliver now" and `teitunnel inbox deliver` each read a    *)
(* batch and work it off.  Any of them may overlap, a query may fail, its  *)
(* answer may be lost, and a drainer may be killed between a delivery and  *)
(* the note of it.                                                         *)
(***************************************************************************)
EXTENDS Naturals, FiniteSets, Sequences

CONSTANTS
    Hooks,        \* the webhooks the sender sends, in this order: 1..n
    Loop,         \* the app's own drainer, every 30 seconds
    Others,       \* the drainers a person starts
    MaxItems,     \* INBOX.maxItems
    Batch,        \* BATCH
    AtOnce,       \* bound: requests the Worker handles at the same time
    MaxClock,     \* bound: the clock, which ticks once per INBOX.retentionDays
    MaxTrouble    \* bound: failed queries, lost answers and killed drainers

ASSUME InboxAssumption ==
    /\ Hooks \subseteq Nat /\ IsFiniteSet(Hooks)
    /\ Loop \notin Others
    /\ {MaxItems, Batch, AtOnce} \subseteq Nat \ {0}
    /\ {MaxClock, MaxTrouble} \subseteq Nat

VARIABLES
    table,      \* teitunnel_inbox: its rows, which seq puts in order
    request,    \* each webhook: the Worker's request that carries it
    drainer,    \* each drainer: where it is, and the rows it read
    received,   \* the webhooks the service took, in the order of the first time
    again,      \* whether it took one more than once
    clock,
    overlap,    \* whether two rounds overlapped so far
    trouble     \* how often a query failed, an answer was lost, a round was killed

vars == <<table, request, drainer, received, again, clock, overlap, trouble>>

Drainers == {Loop} \cup Others

Idle == [at |-> "idle", rows |-> {}]

\* A row: its webhook, when it arrived, when it was delivered (a set of at
\* most one time: delivered_at is NULL while it waits).
Row == [seq : Nat, hook : Hooks, received : 0..MaxClock, delivered : SUBSET (0..MaxClock)]

Requests ==
    [at : {"unsent", "count", "fetch", "store", "done"},
     answer : {"none", "passed", "kept", "refused"},
     now : 0..MaxClock, pending : Nat, after : SUBSET Hooks]

Rounds == [at : {"idle", "deliver", "mark", "sweep"}, rows : SUBSET Row]

TypeOK ==
    /\ table \subseteq Row /\ IsFiniteSet(table)
    /\ request \in [Hooks -> Requests]
    /\ drainer \in [Drainers -> Rounds]
    /\ \A d \in Drainers : drainer[d].at \in {"deliver", "mark"} <=> drainer[d].rows # {}
    /\ received \in Seq(Hooks)
    /\ again \in BOOLEAN /\ overlap \in BOOLEAN
    /\ clock \in 0..MaxClock
    /\ trouble \in 0..MaxTrouble

Init ==
    /\ table = {}
    /\ request = [w \in Hooks |-> [at |-> "unsent", answer |-> "none", now |-> 0,
                                   pending |-> 0, after |-> {}]]
    /\ drainer = [d \in Drainers |-> Idle]
    /\ received = <<>> /\ again = FALSE
    /\ clock = 0
    /\ overlap = FALSE /\ trouble = 0

-----------------------------------------------------------------------------
\* What the table holds.

Waiting(row) == row.delivered = {}
WaitingRows == {row \in table : Waiting(row)}

\* received_at < now - retentionDays
Old(row, now) == row.received < now

TakenByNow == {received[i] : i \in DOMAIN received}

\* The service takes a webhook: it answers it below 500.
Take(w) ==
    /\ received' = IF w \in TakenByNow THEN received ELSE Append(received, w)
    /\ again' = (again \/ w \in TakenByNow)

NotTaken == UNCHANGED <<received, again>>

Calm == UNCHANGED <<overlap, trouble>>

Trouble ==
    /\ trouble < MaxTrouble
    /\ trouble' = trouble + 1
    /\ UNCHANGED overlap

-----------------------------------------------------------------------------
(***************************************************************************)
(* The Worker (inbox-worker.js, handle).  Each request counts what waits,  *)
(* asks the tunnel when nothing does, and otherwise stores the webhook.    *)
(***************************************************************************)

Handled == {w \in Hooks : request[w].at \in {"count", "fetch", "store"}}
KeptHooks == {w \in Hooks : request[w].answer = "kept"}

\* What the properties ask of an answered request is kept, the rest forgotten.
Answer(w, answer) ==
    request' = [request EXCEPT ![w] =
        [at |-> "done", answer |-> answer, pending |-> 0,
         now |-> IF answer = "kept" THEN @.now ELSE 0,
         after |-> IF answer = "passed" THEN {} ELSE @.after]]

\* The sender sends the webhooks in order, and sends one again that was
\* answered 5xx.  `after` notes what it had been promised (202) by the first time.
Send(w) ==
    /\ \/ request[w].at = "unsent" /\ \A v \in Hooks : v < w => request[v].at # "unsent"
       \/ request[w].answer = "refused"
    /\ Cardinality(Handled) < AtOnce
    /\ request' = [request EXCEPT ![w] =
           [at |-> "count", answer |-> "none", now |-> clock, pending |-> 0,
            after |-> IF @.at = "unsent" THEN KeptHooks ELSE @.after]]
    /\ UNCHANGED <<table, drainer, received, again, clock, overlap, trouble>>

Count(w) ==
    /\ request[w].at = "count"
    /\ LET pending == Cardinality(WaitingRows)
       IN request' = [request EXCEPT ![w].at = IF pending = 0 THEN "fetch" ELSE "store",
                                     ![w].pending = pending]
    /\ Calm /\ UNCHANGED <<table, drainer, received, again, clock>>

\* Straight to the tunnel: the service's own answer goes back to the sender,
\* a 5xx of its own too; 530 and 502 mean that nobody is there.
Fetch(w) ==
    /\ request[w].at = "fetch"
    /\ \/ Take(w) /\ Answer(w, "passed") /\ Calm
       \/ NotTaken /\ Answer(w, "refused") /\ Calm
       \/ NotTaken /\ request' = [request EXCEPT ![w].at = "store"] /\ Calm
       \/ \* the service took it, and the answer never came back
          Take(w) /\ request' = [request EXCEPT ![w].at = "store"] /\ Trouble
    /\ UNCHANGED <<table, drainer, clock>>

\* seq INTEGER PRIMARY KEY AUTOINCREMENT: a write so far was answered 202 or is
\* among what went wrong, so this number is new and the largest.
NextSeq == 1 + Cardinality(KeptHooks) + trouble

\* The batch of a write: everything past its retention goes, then the new row.
Stored(w) ==
    {row \in table : ~Old(row, request[w].now)}
    \cup {[seq |-> NextSeq, hook |-> w, received |-> request[w].now, delivered |-> {}]}

Full(w) == request[w].pending >= MaxItems

Keep(w) ==
    /\ request[w].at = "store"
    /\ ~Full(w)
    /\ table' = Stored(w)
    /\ Answer(w, "kept")
    /\ Calm /\ UNCHANGED <<drainer, received, again, clock>>

Refuse(w) ==
    /\ request[w].at = "store"
    /\ Full(w)
    /\ Answer(w, "refused")
    /\ Calm /\ UNCHANGED <<table, drainer, received, again, clock>>

\* A query fails: the sender gets 503.  The write may have happened all the same.
WorkerFails(w) ==
    /\ \/ request[w].at = "count" /\ UNCHANGED table
       \/ /\ request[w].at = "store" /\ ~Full(w)
          /\ table' \in {table, Stored(w)}
    /\ Answer(w, "refused")
    /\ Trouble /\ UNCHANGED <<drainer, received, again, clock>>

WorkerStep(w) == Count(w) \/ Fetch(w) \/ Keep(w) \/ Refuse(w) \/ WorkerFails(w)

-----------------------------------------------------------------------------
(***************************************************************************)
(* A delivery round (inbox.rs, drain): the first rows that wait, one after *)
(* the other; the first failure ends it.                                   *)
(***************************************************************************)

\* MUTANT of First: the newest first.
Newest(rows) == CHOOSE row \in rows : \A other \in rows : row.seq >= other.seq

First(rows) == CHOOSE row \in rows : \A other \in rows : row.seq <= other.seq

\* SELECT .. WHERE delivered_at IS NULL ORDER BY seq LIMIT BATCH
FirstWaiting ==
    {row \in WaitingRows : Cardinality({other \in WaitingRows : other.seq < row.seq}) < Batch}

Begin(d) ==
    /\ drainer[d].at = "idle"
    /\ table # {}
    /\ drainer' = [drainer EXCEPT ![d] =
           [at |-> IF FirstWaiting = {} THEN "sweep" ELSE "deliver", rows |-> FirstWaiting]]
    /\ overlap' = (overlap \/ \E e \in Drainers \ {d} : drainer[e].at # "idle")
    /\ UNCHANGED <<table, request, received, again, clock, trouble>>

Current(d) == First(drainer[d].rows)

\* The round with the first row done.
Onward(d) ==
    LET rest == drainer[d].rows \ {Current(d)}
    IN drainer' = [drainer EXCEPT ![d] =
           [at |-> IF rest = {} THEN "sweep" ELSE "deliver", rows |-> rest]]

TakeCurrent(d) == Take(Current(d).hook)
GiveUp(d) == drainer' = [drainer EXCEPT ![d] = [at |-> "sweep", rows |-> {}]]

\* MUTANT of NotDelivered: a round that takes any answer for a delivery.
CallDelivered(d) ==
    /\ drainer[d].at = "deliver"
    /\ NotTaken
    /\ drainer' = [drainer EXCEPT ![d].at = "mark"]
    /\ Calm /\ UNCHANGED <<table, request, clock>>

\* deliver(): an answer below 500 is a delivery.
Delivered(d) ==
    /\ drainer[d].at = "deliver"
    /\ TakeCurrent(d)
    /\ drainer' = [drainer EXCEPT ![d].at = "mark"]
    /\ Calm /\ UNCHANGED <<table, request, clock>>

\* Anything else, and no answer, is counted (attempts, error: nothing here)
\* and ends the round, also when the service did take the webhook and only
\* its answer was lost.
NotDelivered(d) ==
    /\ drainer[d].at = "deliver"
    /\ (NotTaken /\ Calm) \/ (TakeCurrent(d) /\ Trouble)
    /\ GiveUp(d)
    /\ UNCHANGED <<table, request, clock>>

\* UPDATE .. SET delivered_at WHERE seq: the row may be gone, or marked already.
MarkDelivered(seq) ==
    {IF row.seq = seq THEN [row EXCEPT !.delivered = {clock}] ELSE row : row \in table}

\* MUTANT of Mark: a round that keeps its notes for itself.
MarkNothing(d) ==
    /\ drainer[d].at = "mark"
    /\ Onward(d)
    /\ Calm /\ UNCHANGED <<table, request, received, again, clock>>

Mark(d) ==
    /\ drainer[d].at = "mark"
    /\ table' = MarkDelivered(Current(d).seq)
    /\ Onward(d)
    /\ Calm /\ UNCHANGED <<request, received, again, clock>>

\* DELETE .. WHERE delivered_at < the retention.
Sweep(d) ==
    /\ drainer[d].at = "sweep"
    /\ table' = {row \in table : \A t \in row.delivered : ~(t < clock)}
    /\ drainer' = [drainer EXCEPT ![d] = Idle]
    /\ Calm /\ UNCHANGED <<request, received, again, clock>>

\* A query of the round fails, and with it the round; an UPDATE may have
\* happened all the same.
DrainFails(d) ==
    /\ drainer[d].at \in {"mark", "sweep"}
    /\ table' \in {table} \cup IF drainer[d].at = "mark"
                               THEN {MarkDelivered(Current(d).seq)} ELSE {}
    /\ drainer' = [drainer EXCEPT ![d] = Idle]
    /\ Trouble
    /\ UNCHANGED <<request, received, again, clock>>

\* The app or the command line is ended in the middle of a round.
Killed(d) ==
    /\ drainer[d].at # "idle"
    /\ drainer' = [drainer EXCEPT ![d] = Idle]
    /\ Trouble
    /\ UNCHANGED <<table, request, received, again, clock>>

DrainStep(d) == Delivered(d) \/ NotDelivered(d) \/ Mark(d) \/ Sweep(d) \/ DrainFails(d)

-----------------------------------------------------------------------------
\* The world.

Tick ==
    /\ clock < MaxClock
    /\ clock' = clock + 1
    /\ UNCHANGED <<table, request, drainer, received, again, overlap, trouble>>

Next ==
    \/ \E w \in Hooks : Send(w) \/ WorkerStep(w)
    \/ \E d \in Drainers : Begin(d) \/ DrainStep(d) \/ Killed(d)
    \/ Tick

Spec == Init /\ [][Next]_vars

\* The loop comes round every 30 seconds; a round and a request that began go
\* on.  Nobody has to send or to press the button.  A service that the loop
\* asks again and again takes a webhook some time.
Fairness ==
    /\ WF_vars(Begin(Loop))
    /\ SF_vars(Delivered(Loop))
    /\ \A d \in Drainers : WF_vars(DrainStep(d))
    /\ \A w \in Hooks : WF_vars(WorkerStep(w))

FairSpec == Spec /\ Fairness

-----------------------------------------------------------------------------
(***************************************************************************)
(* What the inbox promises.                                                *)
(***************************************************************************)

\* The retention of the row, or of the request that stored it, is over.
PastRetention(w) == request[w].now < clock

\* A webhook whose sender was told 202 is with the service, or still waits,
\* or is older than the retention: whatever fails or is killed in between.
\* (inbox-worker.js: "it's stored in D1 and the sender gets 202".)
NothingLost ==
    \A w \in KeptHooks :
        \/ w \in TakenByNow
        \/ \E row \in WaitingRows : row.hook = w
        \/ PastRetention(w)

\* The service never sees a webhook before one whose sender had its 202 when
\* this one was first sent, unless the retention took that one: not by the straight
\* way to the tunnel, not by two rounds at once, not after a failed delivery
\* (inbox.rs: "a 5xx or no answer stops the round (order is kept)").
InOrder ==
    [][\A w \in TakenByNow' \ TakenByNow :
          \A v \in request[w].after : v \in TakenByNow \/ PastRetention(v)]_vars

\* A webhook reaches the service twice only when two rounds overlapped, a
\* query failed, an answer was lost or a round was killed before its note.
TwiceForAReason == again => overlap \/ trouble > 0

\* Every webhook whose sender was told 202 reaches the service, or its
\* retention ends (bootstrap.rs: watch_inboxes).
Settled ==
    \A w \in Hooks :
        (request[w].answer = "kept") ~> (w \in TakenByNow \/ PastRetention(w))
=============================================================================
