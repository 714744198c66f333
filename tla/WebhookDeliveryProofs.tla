------------------------ MODULE WebhookDeliveryProofs ------------------------
(***************************************************************************)
(* The sender and the SQLite inbox together record each stream in order,   *)
(* for every value of the constants: any number of streams, processes,     *)
(* attempts and retries.                                                   *)
(*                                                                         *)
(* What the sender knows is never wrong, only late (Delivered).  So an     *)
(* item that is anywhere inside the inbox has nothing undelivered before   *)
(* it (InLine), for as long as an attempt of it may still run.             *)
(***************************************************************************)
EXTENDS WebhookDelivery, SqliteInboxProofs

\* The types of the sender's books; it waits only for what is pending.
SenderTypeOK ==
    /\ fate \in [Deliveries -> {"pending", "delivered", "dead"}]
    /\ awaits \in [Deliveries -> Workers \cup {None}]
    /\ retries \in [Deliveries -> 0..MaxRetries]
    /\ \A d \in Deliveries : awaits[d] # None => fate[d] = "pending"

\* Everything before the item is delivered, in whatever place it has.
Ready(d) == \A s \in Streams : \A i \in DOMAIN s :
    s[i] = d => \A j \in 1..(i - 1) : fate[s[j]] = "delivered"

\* An item on its way through the inbox or in it had its turn.
InLine ==
    /\ \A w \in Workers : ~At(w, "idle") => Ready(worker[w].item)
    /\ \A d \in Deliveries : Recorded(d) => Ready(d)

Delivered == \A d \in Deliveries : fate[d] = "delivered" => Recorded(d)

OnlySent == \A r \in rows : \E d \in Deliveries : r = RowOf(d)

DInv == IInv /\ SenderTypeOK /\ InLine /\ Delivered /\ OnlySent

-----------------------------------------------------------------------------
USE DeliveriesAssumption, NoBodyAssumption, FreeAssumption, MaxSendsAssumption,
    StreamsAssumption, NoneAssumption, MaxRetriesAssumption
USE DEF Idle, Writing, Frame, At

LEMMA DeliveryInitInv == DeliveryInit => DInv
<1> SUFFICES ASSUME DeliveryInit PROVE DInv
  OBVIOUS
<1>1. IInv
  BY InitInv DEF DeliveryInit
<1>2. SenderTypeOK
  BY DEF DeliveryInit, SenderTypeOK
<1>3. InLine /\ Delivered /\ OnlySent
  BY DEF DeliveryInit, Init, InLine, Delivered, OnlySent, Recorded
<1> QED
  BY <1>1, <1>2, <1>3 DEF DInv

\* An item has one place, so having its turn somewhere is being ready.
LEMMA TurnIsReady ==
    ASSUME NEW d \in Deliveries, NextInLine(d)
    PROVE  Ready(d)
<1>1. PICK s \in Streams : \E i \in DOMAIN s :
        s[i] = d /\ \A j \in 1..(i - 1) : fate[s[j]] = "delivered"
  BY DEF NextInLine
<1>2. PICK i \in DOMAIN s : s[i] = d /\ \A j \in 1..(i - 1) : fate[s[j]] = "delivered"
  BY <1>1
<1>3. \A t \in Streams : \A k \in DOMAIN t : t[k] = d => t = s /\ k = i
  BY <1>2, PlaceAssumption
<1> QED
  BY <1>2, <1>3 DEF Ready

\* A row under the outbox ID or the event of an item is the row of this item.
LEMMA RowIsOfItem ==
    ASSUME OnlySent, NEW d \in Deliveries, NEW r \in rows,
           r.outbox = d.outbox \/ r.event = d.event
    PROVE  r = RowOf(d)
<1>1. PICK e \in Deliveries : r = RowOf(e)
  BY DEF OnlySent
<1>2. e.outbox = d.outbox \/ e.event = d.event
  BY <1>1 DEF RowOf
<1> QED
  BY <1>1, <1>2, IdentityAssumption

\* What is accepted is recorded.
LEMMA AcceptedIsRecorded ==
    ASSUME DInv, NEW w \in Workers, At(w, "accepted")
    PROVE  worker[w].item \in Deliveries /\ Recorded(worker[w].item)
<1>1. worker[w].item \in Deliveries
  BY AtWork DEF DInv, IInv
<1>2. PICK r \in rows : r.event = worker[w].item.event
  BY DEF DInv, IInv, Judged, Stored
<1>3. r = RowOf(worker[w].item)
  BY <1>1, <1>2, RowIsOfItem DEF DInv
<1> QED
  BY <1>1, <1>2, <1>3 DEF Recorded

\* Nothing that is delivered is taken back, so what was ready stays ready.
LEMMA StaysReady ==
    ASSUME \A d \in Deliveries : fate[d] = "delivered" => fate'[d] = "delivered",
           NEW d \in Deliveries, Ready(d)
    PROVE  Ready(d)'
<1> SUFFICES ASSUME NEW s \in Streams, NEW i \in DOMAIN s, s[i] = d, NEW j \in 1..(i - 1)
             PROVE  fate'[s[j]] = "delivered"
  BY DEF Ready
<1>1. fate[s[j]] = "delivered"
  BY DEF Ready
<1>2. s \in Seq(Deliveries) /\ i \in 1..Len(s)
  OBVIOUS
<1>3. s[j] \in Deliveries
  BY <1>2
<1> QED
  BY <1>1, <1>3

\* A step that brings no new item into a process and no new row keeps the order, if
\* what becomes delivered is recorded.
LEMMA NoItemInv ==
    ASSUME DInv, IInv', SenderTypeOK', UNCHANGED rows,
           \A w \in Workers : worker'[w].pc # "idle" =>
                worker[w].pc # "idle" /\ worker'[w].item = worker[w].item,
           \A d \in Deliveries : fate[d] = "delivered" => fate'[d] = "delivered",
           \A d \in Deliveries : fate'[d] = "delivered" => fate[d] = "delivered" \/ Recorded(d)
    PROVE  DInv'
<1>1. ASSUME NEW d \in Deliveries, Ready(d) PROVE Ready(d)'
  BY <1>1, StaysReady
<1>2. ASSUME NEW w \in Workers, worker'[w].pc # "idle" PROVE Ready(worker[w].item)'
  <2>1. worker[w].pc # "idle" /\ worker'[w].item = worker[w].item
    BY <1>2
  <2>2. PICK d \in Deliveries : d = worker[w].item
    BY <2>1, AtWork DEF DInv, IInv
  <2>3. Ready(d)
    BY <2>1, <2>2 DEF DInv, InLine
  <2>4. Ready(d)'
    BY <1>1, <2>3
  <2> QED
    BY <2>1, <2>2, <2>4 DEF Ready
<1>3. InLine'
  BY <1>1, <1>2 DEF DInv, InLine, Recorded
<1>4. Delivered' /\ OnlySent'
  BY DEF DInv, Delivered, OnlySent, Recorded
<1> QED
  BY <1>3, <1>4 DEF DInv

-----------------------------------------------------------------------------
LEMMA DeliverInv ==
    ASSUME DInv, NEW w \in Workers, NEW d \in Deliveries, Deliver(w, d)
    PROVE  DInv'
<1>1. /\ fate[d] = "pending" /\ NextInLine(d) /\ Receive(w, d)
      /\ awaits' = [awaits EXCEPT ![d] = w]
      /\ UNCHANGED <<fate, retries, rows>>
  BY DEF Deliver, Receive
<1>2. IInv'
  BY <1>1, ReceiveInv DEF DInv
<1>3. SenderTypeOK'
  BY <1>1 DEF DInv, SenderTypeOK
<1>4. worker'[w].item = d /\ \A v \in Workers \ {w} : worker'[v] = worker[v]
  BY <1>1 DEF Receive, DInv, IInv, TypeOK
<1>5. Ready(d)
  BY <1>1, TurnIsReady
<1>6. ASSUME NEW v \in Workers, worker'[v].pc # "idle" PROVE Ready(worker[v].item)'
  <2>1. CASE v = w
    BY <1>1, <1>4, <1>5, <2>1 DEF Ready
  <2>2. CASE v # w
    BY <1>1, <1>4, <1>6, <2>2 DEF DInv, InLine, Ready
  <2> QED
    BY <2>1, <2>2
<1>7. InLine'
  BY <1>1, <1>6 DEF DInv, InLine, Recorded, Ready
<1>8. Delivered' /\ OnlySent'
  BY <1>1 DEF DInv, Delivered, OnlySent, Recorded
<1> QED
  BY <1>2, <1>3, <1>7, <1>8 DEF DInv

\* A failed attempt changes what the sender holds of an item it still waits for.
LEMMA FailedFacts ==
    ASSUME SenderTypeOK, NEW d \in Deliveries, awaits[d] # None, Failed(d)
    PROVE  /\ SenderTypeOK'
           /\ \A e \in Deliveries : fate[e] = "delivered" <=> fate'[e] = "delivered"
BY DEF SenderTypeOK, Failed

LEMMA AnswerInv ==
    ASSUME DInv, NEW w \in Workers, Answer(w)
    PROVE  DInv'
<1> DEFINE d == worker[w].item
<1>1. Reply(w) /\ UNCHANGED rows
  BY DEF Answer, Reply
<1>2. IInv'
  BY <1>1, ReplyInv DEF DInv
<1>3. \A v \in Workers : worker'[v].pc # "idle" =>
        worker[v].pc # "idle" /\ worker'[v].item = worker[v].item
  BY <1>1 DEF Reply, DInv, IInv, TypeOK
<1>4. d \in Deliveries
  BY <1>1, AtWork DEF Reply, DInv, IInv
<1>5. CASE awaits[d] # w
  <2>1. UNCHANGED senderVars
    BY <1>5 DEF Answer
  <2>2. SenderTypeOK'
    BY <2>1 DEF senderVars, DInv, SenderTypeOK
  <2> QED
    BY <1>1, <1>2, <1>3, <2>1, <2>2, NoItemInv DEF senderVars
<1>6. CASE awaits[d] = w /\ At(w, "accepted")
  <2>1. /\ fate' = [fate EXCEPT ![d] = "delivered"]
        /\ awaits' = [awaits EXCEPT ![d] = None]
        /\ UNCHANGED retries
    BY <1>6 DEF Answer
  <2>2. Recorded(d)
    BY <1>6, AcceptedIsRecorded
  <2>3. SenderTypeOK'
    BY <1>4, <2>1 DEF DInv, SenderTypeOK
  <2>4. /\ \A e \in Deliveries : fate[e] = "delivered" => fate'[e] = "delivered"
        /\ \A e \in Deliveries : fate'[e] = "delivered" => fate[e] = "delivered" \/ Recorded(e)
    BY <1>4, <2>1, <2>2 DEF DInv, SenderTypeOK
  <2> QED
    BY <1>1, <1>2, <1>3, <2>3, <2>4, NoItemInv
<1>7. CASE awaits[d] = w /\ ~At(w, "accepted")
  <2>1. Failed(d)
    BY <1>7 DEF Answer
  <2>2. /\ SenderTypeOK'
        /\ \A e \in Deliveries : fate[e] = "delivered" <=> fate'[e] = "delivered"
    BY <1>4, <1>7, <2>1, FailedFacts DEF DInv
  <2> QED
    BY <1>1, <1>2, <1>3, <2>2, NoItemInv
<1> QED
  BY <1>5, <1>6, <1>7

\* The inbox knows nothing of what the sender holds.
LEMMA UntouchedInbox ==
    ASSUME IInv, UNCHANGED <<rows, writer, worker, acked>>, sent' \in [Deliveries -> 0..MaxSends]
    PROVE  IInv'
BY DEF IInv, TypeOK, Unique, Locked, Judged, Told, Conflicts, Stored, Clashes

LEMMA HangUpInv ==
    ASSUME DInv, NEW d \in Deliveries, HangUp(d)
    PROVE  DInv'
<1>1. awaits[d] # None /\ Failed(d) /\ UNCHANGED <<rows, writer, worker, sent, acked>>
  BY DEF HangUp, vars
<1>2. IInv'
  BY <1>1, UntouchedInbox DEF DInv, IInv, TypeOK
<1>3. /\ SenderTypeOK'
      /\ \A e \in Deliveries : fate[e] = "delivered" <=> fate'[e] = "delivered"
  BY <1>1, FailedFacts DEF DInv
<1> QED
  BY <1>1, <1>2, <1>3, NoItemInv

LEMMA RetryInv ==
    ASSUME DInv, NEW d \in Deliveries, Retry(d)
    PROVE  DInv'
<1>1. /\ fate[d] = "dead" /\ retries[d] < MaxRetries
      /\ fate' = [fate EXCEPT ![d] = "pending"]
      /\ retries' = [retries EXCEPT ![d] = @ + 1]
      /\ sent' = [sent EXCEPT ![d] = 0]
      /\ UNCHANGED <<rows, writer, worker, acked, awaits>>
  BY DEF Retry
<1>2. IInv'
  BY <1>1, UntouchedInbox DEF DInv, IInv, TypeOK
<1>3. SenderTypeOK'
  BY <1>1 DEF DInv, SenderTypeOK
<1>4. \A e \in Deliveries : fate[e] = "delivered" <=> fate'[e] = "delivered"
  BY <1>1 DEF DInv, SenderTypeOK
<1> QED
  BY <1>1, <1>2, <1>3, <1>4, NoItemInv

\* The row a commit adds is that of an item which had its turn.
LEMMA CommitKeepsOrder ==
    ASSUME DInv, NEW w \in Workers, Commit(w), UNCHANGED senderVars
    PROVE  DInv'
<1> DEFINE d == worker[w].item
<1>1. /\ worker[w].pc \in {"commit", "keep"}
      /\ rows' \in {rows, rows \cup {RowOf(d)}}
      /\ Goto(w, "accepted")
      /\ UNCHANGED <<fate, awaits, retries>>
  BY DEF Commit, End, senderVars
<1>2. d \in Deliveries /\ Ready(d)
  BY <1>1, AtWork DEF DInv, IInv, InLine
<1>3. IInv' /\ SenderTypeOK'
  BY <1>1, CommitInv DEF DInv, SenderTypeOK
<1>4. /\ worker'[w].item = d
      /\ \A v \in Workers \ {w} : worker'[v] = worker[v]
  BY <1>1, GotoFacts DEF DInv, IInv
<1>5. \A e \in Deliveries : Recorded(e)' => Recorded(e) \/ RowOf(e) = RowOf(d)
  BY <1>1 DEF Recorded, RowOf
<1>6. \A e \in Deliveries : RowOf(e) = RowOf(d) => e = d
  BY <1>2, IdentityAssumption DEF RowOf
<1>7. ASSUME NEW e \in Deliveries, Recorded(e)' PROVE Ready(e)
  BY <1>2, <1>5, <1>6, <1>7 DEF DInv, InLine
<1>8. InLine'
  <2>1. ASSUME NEW v \in Workers, worker'[v].pc # "idle" PROVE Ready(worker[v].item)'
    <3>1. CASE v = w
      BY <1>1, <1>2, <1>4, <3>1 DEF Ready
    <3>2. CASE v # w
      BY <1>1, <1>4, <2>1, <3>2 DEF DInv, InLine, Ready
    <3> QED
      BY <3>1, <3>2
  <2>2. ASSUME NEW e \in Deliveries, Recorded(e)' PROVE Ready(e)'
    BY <1>1, <1>7, <2>2 DEF Ready
  <2> QED
    BY <2>1, <2>2 DEF InLine
<1>9. Delivered' /\ OnlySent'
  BY <1>1, <1>2 DEF DInv, Delivered, OnlySent, Recorded, RowOf
<1> QED
  BY <1>3, <1>8, <1>9 DEF DInv

LEMMA InsideInv ==
    ASSUME DInv, Inside
    PROVE  DInv'
<1>1. UNCHANGED <<fate, awaits, retries>> /\ UNCHANGED senderVars /\ SenderTypeOK'
  BY DEF Inside, senderVars, DInv, SenderTypeOK
<1>2. ASSUME NEW w \in Workers, Insert(w) \/ Compare(w) \/ Busy(w) \/ Error(w) PROVE DInv'
  <2>1. IInv' /\ UNCHANGED rows
    BY <1>2, InsertInv, CompareInv, FailureInv DEF DInv, Insert, Compare, Busy, Error
  <2>2. \E pc \in {"insert", "accepted", "refused", "failed"} \cup Writing : Goto(w, pc)
    BY <1>2 DEF Insert, Compare, Busy, Error, End
  <2>3. worker[w].pc # "idle"
    BY <1>2 DEF Insert, Compare, Busy, Error
  <2>4. \A v \in Workers : worker'[v].pc # "idle" =>
            worker[v].pc # "idle" /\ worker'[v].item = worker[v].item
    BY <2>2, <2>3, GotoFacts DEF DInv, IInv
  <2> QED
    BY <1>1, <2>1, <2>4, NoItemInv
<1>3. ASSUME NEW w \in Workers, Commit(w) PROVE DInv'
  BY <1>1, <1>3, CommitKeepsOrder
<1>4. ASSUME NEW S \in SUBSET Workers, Die(S) PROVE DInv'
  <2>1. IInv' /\ UNCHANGED rows
    BY <1>4, DieInv DEF DInv, Die
  <2>2. \A v \in Workers : worker'[v].pc # "idle" =>
            worker[v].pc # "idle" /\ worker'[v].item = worker[v].item
    BY <1>4 DEF Die
  <2> QED
    BY <1>1, <2>1, <2>2, NoItemInv
<1> QED
  BY <1>2, <1>3, <1>4 DEF Inside

LEMMA DeliveryNextInv == DInv /\ [DeliveryNext]_deliveryVars => DInv'
<1> SUFFICES ASSUME DInv, [DeliveryNext]_deliveryVars PROVE DInv'
  OBVIOUS
<1>1. CASE UNCHANGED deliveryVars
  <2>1. /\ UNCHANGED <<rows, writer, worker, sent, acked>>
        /\ UNCHANGED <<fate, awaits, retries>>
    BY <1>1 DEF deliveryVars, vars, senderVars
  <2>2. IInv' /\ SenderTypeOK'
    BY <2>1, UntouchedInbox DEF DInv, IInv, TypeOK, SenderTypeOK
  <2> QED
    BY <2>1, <2>2, NoItemInv
<1> QED
  BY <1>1, DeliverInv, AnswerInv, HangUpInv, RetryInv, InsideInv DEF DeliveryNext

LEMMA DeliveryInvariant == DeliverySpec => []DInv
BY DeliveryInitInv, DeliveryNextInv, PTL DEF DeliverySpec

-----------------------------------------------------------------------------
\* The rows of every stream are a beginning of it without a gap, however many
\* attempts overlap, fail, are lost or are given up and retried.
THEOREM StreamsAreRecordedInOrder == DeliverySpec => []RecordedInOrder
<1>1. DInv => RecordedInOrder
  <2> SUFFICES ASSUME DInv PROVE RecordedInOrder
    OBVIOUS
  <2>1. ASSUME NEW s \in Streams, NEW i \in DOMAIN s, Recorded(s[i]), NEW j \in 1..(i - 1)
        PROVE  Recorded(s[j])
    <3>1. s \in Seq(Deliveries) /\ i \in 1..Len(s)
      OBVIOUS
    <3>2. s[i] \in Deliveries /\ s[j] \in Deliveries
      BY <3>1
    <3>3. fate[s[j]] = "delivered"
      BY <2>1, <3>2 DEF DInv, InLine, Ready
    <3> QED
      BY <3>2, <3>3 DEF DInv, Delivered
  <2> QED
    BY <2>1 DEF DInv, Delivered, RecordedInOrder
<1> QED
  BY <1>1, DeliveryInvariant, PTL

\* No delivery of a sender that keeps identities apart is refused as a collision.
THEOREM CollisionAlarmIsNeverFalse == DeliverySpec => []NoFalseAlarm
<1>1. DInv => NoFalseAlarm
  <2> SUFFICES ASSUME DInv, NEW w \in Workers, At(w, "refused") PROVE FALSE
    BY DEF NoFalseAlarm
  <2> DEFINE d == worker[w].item
  <2>1. d \in Deliveries
    BY AtWork DEF DInv, IInv
  <2>2. PICK r \in rows :
            (r.event = d.event /\ r.body # d.body) \/ (r.outbox = d.outbox /\ r.event # d.event)
    BY DEF DInv, IInv, Judged, Clashes
  <2>3. r = RowOf(d)
    BY <2>1, <2>2, RowIsOfItem DEF DInv
  <2> QED
    BY <2>2, <2>3 DEF RowOf
<1> QED
  BY <1>1, DeliveryInvariant, PTL

-----------------------------------------------------------------------------
\* The sender's own steps do not show in the inbox.
LEMMA DeliveryPromise == DInv /\ [DeliveryNext]_deliveryVars => [Promise!Next]_(Promise!vars)
<1> DEFINE Kept == [Promise!Next]_(Promise!vars)
<1> SUFFICES ASSUME DInv, DeliveryNext \/ UNCHANGED deliveryVars PROVE Kept
  OBVIOUS
<1>1. ASSUME Next \/ UNCHANGED vars PROVE Kept
  BY <1>1, NextPromise DEF DInv
<1>2. ASSUME UNCHANGED <<rows, acked>> PROVE Kept
  BY <1>2 DEF Promise!vars, Records
<1> HIDE DEF Kept
<1>3. ASSUME NEW w \in Workers, NEW d \in Deliveries, Deliver(w, d) PROVE Kept
  BY <1>1, <1>3 DEF Deliver, Next
<1>4. ASSUME NEW w \in Workers, Answer(w) PROVE Kept
  BY <1>1, <1>4 DEF Answer, Next, Step
<1>5. ASSUME NEW d \in Deliveries, HangUp(d) \/ Retry(d) PROVE Kept
  BY <1>2, <1>5 DEF HangUp, Retry, vars
<1>6. CASE Inside
  BY <1>1, <1>6 DEF Inside, Next, Step
<1>7. CASE UNCHANGED deliveryVars
  BY <1>1, <1>7 DEF deliveryVars
<1> QED
  BY <1>3, <1>4, <1>5, <1>6, <1>7 DEF DeliveryNext

\* Attempts that start again after a retry leave the inbox a durable one: the event
\* is recorded before the 204, once, and for good, whoever sends it how often.
THEOREM DeliveryKeepsThePromise == DeliverySpec => KeepsThePromise
<1>1. DeliveryInit => Promise!Init
  BY InitPromise DEF DeliveryInit
<1> QED
  BY <1>1, DeliveryPromise, DeliveryInvariant, PTL DEF DeliverySpec, KeepsThePromise, Promise!Spec
=============================================================================
