------------------------------ MODULE SqliteInbox ------------------------------
(***************************************************************************)
(* The SQLite inbox of the Python webhook receiver.  persist inserts one   *)
(* row in a transaction; when a unique index refuses the row, it compares  *)
(* the delivery with the rows there are, still inside the transaction.     *)
(* The callback blocks its event loop, so a process takes one delivery at  *)
(* a time; several worker processes share the database, which lets one of  *)
(* them write.  synchronous = FULL makes a commit durable, so a power loss *)
(* is no more than all processes dying.                                    *)
(***************************************************************************)
EXTENDS Naturals

CONSTANTS
    Deliveries, \* what the sender may deliver: records of outbox, event and body
    Outbox,     \* outbox IDs
    Events,     \* event identities: stream and event ID
    Bodies,     \* raw payloads
    NoBody,     \* no row of an event
    Workers,    \* worker processes
    Free,       \* nobody holds the write lock
    MaxSends    \* how often the sender tries one delivery

ASSUME DeliveriesAssumption == Deliveries \subseteq [outbox : Outbox, event : Events, body : Bodies]
ASSUME NoBodyAssumption == NoBody \notin Bodies
ASSUME FreeAssumption == Free \notin Workers
ASSUME MaxSendsAssumption == MaxSends \in Nat

VARIABLES
    rows,   \* the committed rows
    writer, \* holder of the database's write lock
    worker, \* per process: where it is and what it delivers
    sent,   \* how often each delivery was sent
    acked   \* deliveries answered with 204

vars == <<rows, writer, worker, sent, acked>>

Idle == [pc |-> "idle"]

\* Inside a transaction that holds the write lock.
Writing == {"commit", "compare", "keep"}

Frame == [pc : {"insert", "accepted", "refused", "failed"} \cup Writing, item : Deliveries]

TypeOK ==
    /\ rows \subseteq [outbox : Outbox, event : Events, body : Bodies]
    /\ writer \in Workers \cup {Free}
    /\ worker \in [Workers -> Frame \cup {Idle}]
    /\ sent \in [Deliveries -> 0..MaxSends]
    /\ acked \subseteq Deliveries

Init ==
    /\ rows = {}
    /\ writer = Free
    /\ worker = [w \in Workers |-> Idle]
    /\ sent = [d \in Deliveries |-> 0]
    /\ acked = {}

At(w, pc) == worker[w].pc = pc

Goto(w, pc) == worker' = [worker EXCEPT ![w].pc = pc]

-----------------------------------------------------------------------------
(* A delivery.                                                             *)

\* The sender delivers, for the first time or again.
Receive(w, d) ==
    /\ At(w, "idle")
    /\ sent[d] < MaxSends
    /\ sent' = [sent EXCEPT ![d] = @ + 1]
    /\ worker' = [worker EXCEPT ![w] = [pc |-> "insert", item |-> d]]
    /\ UNCHANGED <<rows, writer, acked>>

\* Mutant: the payload is left out of the row.
RowOfIdentity(d) == [outbox |-> d.outbox, event |-> d.event]

RowOf(d) == [outbox |-> d.outbox, event |-> d.event, body |-> d.body]

\* The primary key or the unique index refuses the row.
Conflicts(d) == \E r \in rows : r.outbox = d.outbox \/ r.event = d.event

\* Mutant: the insert does not wait for another transaction.
InsertUnlocked(w) ==
    /\ At(w, "insert")
    /\ Goto(w, IF Conflicts(worker[w].item) THEN "compare" ELSE "commit")
    /\ UNCHANGED <<rows, writer, sent, acked>>

\* The INSERT opens the transaction and waits for the write lock.  A constraint
\* undoes the statement and leaves the transaction open.
Insert(w) ==
    /\ At(w, "insert")
    /\ writer = Free
    /\ writer' = w
    /\ Goto(w, IF Conflicts(worker[w].item) THEN "compare" ELSE "commit")
    /\ UNCHANGED <<rows, sent, acked>>

\* The end of the transaction, in `with connection', and of the connection.
End(w, pc) ==
    /\ Goto(w, pc)
    /\ writer' = IF writer = w THEN Free ELSE writer

\* Mutant: the outbox ID is compared with the row of the event, too.
IsRepeatOfRow(d) == RowOf(d) \in rows

\* Mutant: whatever an index refuses is a collision.
NeverARepeat(d) == FALSE

\* The row under the outbox ID decides; without one that of the event, which
\* came under another outbox ID.
IsRepeat(d) ==
    LET same   == {r \in rows : r.outbox = d.outbox}
        judged == IF same # {} THEN same ELSE {r \in rows : r.event = d.event}
    IN  \A r \in judged : r.event = d.event /\ r.body = d.body

\* RuntimeError rolls back; a return goes on to the commit of an empty transaction.
Compare(w) ==
    /\ At(w, "compare")
    /\ IF IsRepeat(worker[w].item)
       THEN Goto(w, "keep") /\ UNCHANGED writer
       ELSE End(w, "refused")
    /\ UNCHANGED <<rows, sent, acked>>

\* Mutant: the connection is closed without a commit.
CommitMissing(w) ==
    /\ worker[w].pc \in {"commit", "keep"}
    /\ End(w, "accepted")
    /\ UNCHANGED <<rows, sent, acked>>

Commit(w) ==
    /\ worker[w].pc \in {"commit", "keep"}
    /\ rows' = IF At(w, "commit") THEN rows \cup {RowOf(worker[w].item)} ELSE rows
    /\ End(w, "accepted")
    /\ UNCHANGED <<sent, acked>>

\* receive answers 204, or 500 for an exception.
Reply(w) ==
    /\ worker[w].pc \in {"accepted", "refused", "failed"}
    /\ acked' = IF At(w, "accepted") THEN acked \cup {worker[w].item} ELSE acked
    /\ worker' = [worker EXCEPT ![w] = Idle]
    /\ UNCHANGED <<rows, writer, sent>>

-----------------------------------------------------------------------------
(* What can go wrong.                                                      *)

\* Another process held the write lock for ten seconds.
Busy(w) ==
    /\ At(w, "insert")
    /\ writer \notin {Free, w}
    /\ Goto(w, "failed")
    /\ UNCHANGED <<rows, writer, sent, acked>>

\* Mutant: the exception leaves the connection and its transaction open.
ErrorLeavingOpen(w) ==
    /\ worker[w].pc \in Writing
    /\ Goto(w, "failed")
    /\ UNCHANGED <<rows, writer, sent, acked>>

\* A statement or the commit raises: rollback, close.
Error(w) ==
    /\ worker[w].pc \in Writing \cup {"insert"}
    /\ End(w, "failed")
    /\ UNCHANGED <<rows, sent, acked>>

\* The processes in S die and others take their place; SQLite recovers the lock.
Die(S) ==
    /\ \E w \in S : ~At(w, "idle")
    /\ worker' = [w \in Workers |-> IF w \in S THEN Idle ELSE worker[w]]
    /\ writer' = IF writer \in S THEN Free ELSE writer
    /\ UNCHANGED <<rows, sent, acked>>

-----------------------------------------------------------------------------
Step(w) == Insert(w) \/ Compare(w) \/ Commit(w) \/ Reply(w)

Next ==
    \/ \E w \in Workers, d \in Deliveries : Receive(w, d)
    \/ \E w \in Workers : Step(w) \/ Busy(w) \/ Error(w)
    \/ \E S \in SUBSET Workers : Die(S)

Spec == Init /\ [][Next]_vars

\* A running process goes on; the wait for the lock retries until its timeout.
FairSpec == Spec /\ \A w \in Workers : WF_vars(Step(w))

-----------------------------------------------------------------------------
\* webhook_receiver.py:87 refuses to surface an identity collision, and :100 a
\* repeated event is none.  A delivery is not refused while its own event is
\* recorded and no other event has its outbox ID, whatever ran before it.
RepeatsAreAccepted == \A w \in Workers : At(w, "refused") =>
    LET d == worker[w].item
    IN  \E r \in rows :
            (r.event = d.event /\ r.body # d.body) \/ (r.outbox = d.outbox /\ r.event # d.event)

\* The body in the rows of an event.
Records == [e \in Events |->
    IF \E r \in rows : r.event = e
    THEN (CHOOSE r \in rows : r.event = e).body
    ELSE NoBody]

Promise == INSTANCE WebhookInbox WITH
    records <- Records, Form <- [b \in Bodies |-> b]

\* The transactions of several processes, and whichever of them die, amount to one
\* durable inbox: the event is committed before the 204, once, and for good.
KeepsThePromise == Promise!Spec

\* A delivery is answered unless its process dies, and without the lock's timeout
\* having to cut it off: every way out of persist closes the transaction.
DeliveriesAreAnswered == \A w \in Workers : ~At(w, "idle") ~> At(w, "idle")
=============================================================================
