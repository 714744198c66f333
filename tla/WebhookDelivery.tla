--------------------------- MODULE WebhookDelivery ---------------------------
(***************************************************************************)
(* The sender of the webhooks in front of SqliteInbox.  It delivers each   *)
(* stream in order, one item at a time, repeats an item that was not       *)
(* answered with 204 in time, and gives it up as a dead letter after       *)
(* MaxSends attempts; later items then wait until an operator retries it.  *)
(* It does not know whether an attempt that it gave up still runs.         *)
(***************************************************************************)
EXTENDS SqliteInbox, Sequences

CONSTANTS
    Streams,     \* the items of each business in order; a notification is on its own
    None,        \* no attempt under way
    MaxRetries   \* how often an operator retries one item

ASSUME StreamsAssumption == Streams \subseteq Seq(Deliveries)
ASSUME NoneAssumption == None \notin Workers
ASSUME MaxRetriesAssumption == MaxRetries \in Nat

\* The sender gives no two items one identity, and sends the same bytes each time.
ASSUME IdentityAssumption == \A d \in Deliveries, e \in Deliveries :
    d.outbox = e.outbox \/ d.event = e.event => d = e

\* An item has one place, in the stream of its business.
ASSUME PlaceAssumption == \A s \in Streams, t \in Streams :
    \A i \in DOMAIN s, j \in DOMAIN t : s[i] = t[j] => s = t /\ i = j

VARIABLES
    fate,    \* what the sender holds of each item
    awaits,  \* the process whose answer it waits for
    retries  \* by operators

senderVars == <<fate, awaits, retries>>

deliveryVars == <<vars, senderVars>>

DeliveryInit ==
    /\ Init
    /\ fate = [d \in Deliveries |-> "pending"]
    /\ awaits = [d \in Deliveries |-> None]
    /\ retries = [d \in Deliveries |-> 0]

-----------------------------------------------------------------------------
\* All items before it have been delivered.
NextInLine(d) == \E s \in Streams : \E i \in DOMAIN s :
    s[i] = d /\ \A j \in 1..(i - 1) : fate[s[j]] = "delivered"

Deliver(w, d) ==
    /\ fate[d] = "pending"
    /\ awaits[d] = None
    /\ NextInLine(d)
    /\ Receive(w, d)
    /\ awaits' = [awaits EXCEPT ![d] = w]
    /\ UNCHANGED <<fate, retries>>

\* The attempt is over, without success.
Failed(d) ==
    /\ fate' = [fate EXCEPT ![d] = IF sent[d] = MaxSends THEN "dead" ELSE @]
    /\ awaits' = [awaits EXCEPT ![d] = None]
    /\ UNCHANGED retries

\* The sender waits for this answer, or has long hung up.
Answer(w) ==
    LET d == worker[w].item
    IN  /\ Reply(w)
        /\ IF awaits[d] # w THEN UNCHANGED senderVars
           ELSE IF At(w, "accepted")
           THEN /\ fate' = [fate EXCEPT ![d] = "delivered"]
                /\ awaits' = [awaits EXCEPT ![d] = None]
                /\ UNCHANGED retries
           ELSE Failed(d)

\* It hangs up on a slow process or a dead one, or the answer is lost.
HangUp(d) ==
    /\ awaits[d] # None
    /\ Failed(d)
    /\ UNCHANGED vars

\* A reviewed dead letter goes out again, under its own identity.
Retry(d) ==
    /\ fate[d] = "dead"
    /\ retries[d] < MaxRetries
    /\ fate' = [fate EXCEPT ![d] = "pending"]
    /\ retries' = [retries EXCEPT ![d] = @ + 1]
    /\ sent' = [sent EXCEPT ![d] = 0]
    /\ UNCHANGED <<rows, writer, worker, acked, awaits>>

\* The inbox goes on by itself.
Inside ==
    /\ \/ \E w \in Workers : Insert(w) \/ Compare(w) \/ Commit(w) \/ Busy(w) \/ Error(w)
       \/ \E S \in SUBSET Workers : Die(S)
    /\ UNCHANGED senderVars

DeliveryNext ==
    \/ \E w \in Workers : \E d \in Deliveries : Deliver(w, d)
    \/ \E w \in Workers : Answer(w)
    \/ \E d \in Deliveries : HangUp(d) \/ Retry(d)
    \/ Inside

DeliverySpec == DeliveryInit /\ [][DeliveryNext]_deliveryVars

\* A running process goes on, the sender delivers what it can, and does not wait
\* for ever.
FairDelivery ==
    /\ DeliverySpec
    /\ \A w \in Workers :
        WF_deliveryVars(((Insert(w) \/ Compare(w) \/ Commit(w)) /\ UNCHANGED senderVars) \/ Answer(w))
    /\ \A d \in Deliveries :
        /\ WF_deliveryVars(\E w \in Workers : Deliver(w, d))
        /\ WF_deliveryVars(HangUp(d))

-----------------------------------------------------------------------------
Recorded(d) == RowOf(d) \in rows

\* The rows of a business are a beginning of its ledger, without a gap, whatever was
\* lost, timed out, failed, died or was given up; and what the sender takes for
\* delivered is among them.  WEBHOOKS.md:31 builds the cursor of a consumer on it.
RecordedInOrder ==
    /\ \A s \in Streams : \A i \in DOMAIN s :
        Recorded(s[i]) => \A j \in 1..(i - 1) : Recorded(s[j])
    /\ \A d \in Deliveries : fate[d] = "delivered" => Recorded(d)

\* A sender that keeps identities stable is never told of an identity collision,
\* though its attempts of one item may overlap: webhook_receiver.py:87 is an alarm.
NoFalseAlarm == \A w \in Workers : ~At(w, "refused")

\* An item whose turn it is gets settled: it is delivered, or becomes a dead letter
\* that an operator sees.  The inbox cannot make the sender wait for ever.
ItemsAreSettled == \A d \in Deliveries :
    fate[d] = "pending" /\ NextInLine(d) ~> fate[d] # "pending"
=============================================================================
