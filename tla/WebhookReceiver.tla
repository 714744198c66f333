--------------------------- MODULE WebhookReceiver ---------------------------
(***************************************************************************)
(* What the two SDKs' webhook receivers answer to one delivery.  Each does *)
(* its checks in an order of its own, and the first that fails decides the *)
(* status.  A delivery is described by what the checks tell apart, not by  *)
(* its bytes, as each SDK's decoders and framework have read it: the two   *)
(* need not read the same in the same bytes.  The Go receiver is the one   *)
(* behind net/http.                                                        *)
(***************************************************************************)
EXTENDS ExactAmounts

CONSTANTS
    Rails,       \* azeer_units, provider_balance, invoice
    Units,       \* milliunit, halala
    Unhashable,  \* a JSON array or object where a string belongs
    NoAck        \* no X-Mizan-Ack-Sequence header

(***************************************************************************)
(* An SDK reads in a delivery                                              *)
(*   auth, outbox: whether the bearer token and the outbox ID are in order *)
(*   size, json:   of the body; what it parses to.  Python's json.loads    *)
(*                 also "raises" what receive does not catch: ValueError,  *)
(*                 on an integer of too many digits, and RecursionError    *)
(*   ledger:       the members of a ledger event, if it has                *)
(*                 business_sequence, else Absent                          *)
(*   notification: those of a notification, if it has type, else Absent    *)
(* An amount has a value and a form: its digits are in "ascii", or not all *)
(* of them ("foreign"), or the text is "padded" or no number.  The field   *)
(* plain says that the members which no receiver checks have the types     *)
(* they are declared with.                                                 *)
(***************************************************************************)
\* Notifications of a budget limit, of a pause by it, and of pauses by hand.
Types == {"threshold", "paused", "manual"}

ASSUME TypesAssumption == Malformed \notin Types /\ Unhashable \notin Types

\* What the bytes of a delivery can be to the checks.
Posting == [rail : Rails \cup {Malformed, Unhashable}, unit : Units \cup {Malformed, Unhashable},
            account : BOOLEAN, amount : SignedAmounts]

LedgerEvent == [identified : BOOLEAN, sequence : {Malformed} \cup Int,
                metadata : {"object", "other", "absent"},
                postings : {Absent, Malformed} \cup Seq(Posting), plain : BOOLEAN]

Notification == [identified : BOOLEAN, type : Types \cup {Malformed, Unhashable},
                 period : BOOLEAN, projected : SignedAmounts, limit : SignedAmounts,
                 plain : BOOLEAN]

Reading == [auth : BOOLEAN, outbox : BOOLEAN, size : {"empty", "fits", "exceeds"},
            json : {"raises", "garbage", "other", "object"},
            ledger : {Absent} \cup LedgerEvent, notification : {Absent} \cup Notification]

SDKs == {"python", "go"}

\* The decoders are independent: NaN, byte-order marks, UTF-16, broken UTF-8, doubled
\* or oddly cased names and the like are read by one SDK in a way and by the other in
\* another.  Only Python's raises.
Delivery == {d \in [SDKs -> Reading] : d["go"].json # "raises"}

Statuses == {204, 400, 401, 413, 422, 500}

\* The status, the callback that was called, the acknowledged sequence.
NoAnswer == [status |-> 0, callback |-> "none", ack |-> NoAck]

-----------------------------------------------------------------------------
(* Checks of a reading, in their order: a failing condition and its        *)
(* status.  A 500 of Python's is an exception that leaves receive, which   *)
(* the framework answers.                                                  *)

Passed == 0

FirstFailing(checks) ==
    LET failing == {i \in DOMAIN checks : checks[i][1]}
    IN  IF failing = {} THEN Passed ELSE checks[Min(failing)][2]

\* Mutant: the JSON is parsed before the caller is authorized.
PyTransportParsingFirst(d) == FirstFailing(<<
    <<d.size = "empty",    400>>,
    <<d.json = "raises",   500>>,
    <<d.json = "garbage",  400>>,
    <<~d.auth,             401>>,
    <<~d.outbox,           400>>,
    <<d.size = "exceeds",  413>>,
    <<d.json # "object",   400>> >>)

\* Mutant: only a JSONDecodeError is caught, not the UnicodeDecodeError.
PyTransportUncaught(d) == FirstFailing(<<
    <<~d.auth,             401>>,
    <<~d.outbox,           400>>,
    <<d.size = "empty",    400>>,
    <<d.json = "raises",   500>>,
    <<d.json = "garbage",  500>>,
    <<d.size = "exceeds",  413>>,
    <<d.json # "object",   400>> >>)

PyTransport(d) == FirstFailing(<<
    <<~d.auth,             401>>,
    <<~d.outbox,           400>>,
    <<d.size = "empty",    400>>,
    <<d.json = "raises",   500>>,
    <<d.json = "garbage",  400>>,
    <<d.size = "exceeds",  413>>,
    <<d.json # "object",   400>> >>)

GoTransport(d) == FirstFailing(<<
    <<d.size = "exceeds",  413>>,
    <<d.size = "empty",    400>>,
    <<~d.auth,             401>>,
    <<~d.outbox,           400>>,
    <<d.json # "object",   400>> >>)

-----------------------------------------------------------------------------
(* Balances.                                                               *)

\* Mutant: the running balance is a 64-bit integer that wraps around.
PostWrapping(balances, p) ==
    [balances EXCEPT ![<<p.rail, p.unit>>] =
        ((@ + p.amount.value + MaxInt + 1) % (2 * (MaxInt + 1))) - MaxInt - 1]

\* Integers without a width in Python, big.Int in Go.
Post(balances, p) == [balances EXCEPT ![<<p.rail, p.unit>>] = @ + p.amount.value]

Balanced(postings) ==
    LET start    == [b \in Rails \X Units |-> 0]
        balances == FoldLeft(Post, start, postings)
    IN  \A b \in Rails \X Units : balances[b] = 0

-----------------------------------------------------------------------------
(* The Python receiver.  Looking an unhashable value up in a set raises a  *)
(* TypeError, which leaves receive as well.                                *)

PyPosting(p) == FirstFailing(<<
    <<p.rail = Unhashable,     500>>,
    <<p.rail \notin Rails,     422>>,
    <<p.unit = Unhashable,     500>>,
    <<p.unit \notin Units,     422>>,
    <<~p.account,              422>>,
    <<~PyCanonical(p.amount),  422>> >>)

PyPostings(postings) ==
    LET faulty == {i \in DOMAIN postings : PyPosting(postings[i]) # Passed}
    IN  IF faulty # {} THEN PyPosting(postings[Min(faulty)])
        ELSE IF Balanced(postings) THEN Passed ELSE 422

PyLedger(l) ==
    IF \/ ~l.identified
       \/ l.sequence = Malformed \/ l.sequence < 1
       \/ l.metadata # "object"
       \/ l.postings \in {Absent, Malformed}
    THEN 422
    ELSE PyPostings(l.postings)

PyNotification(n) == FirstFailing(<<
    <<~n.identified,                                                  422>>,
    <<n.type = Unhashable,                                            500>>,
    <<n.type = Malformed,                                             422>>,
    <<n.type \in {"threshold", "paused"} /\ ~n.period,                422>>,
    <<n.type = "threshold" /\ ~(PyUnsigned(n.projected) /\ PyUnsigned(n.limit)), 422>> >>)

-----------------------------------------------------------------------------
(* The Go receiver: what does not decode into the structs and what does    *)
(* not validate are answered alike.                                        *)

GoPosting(p) == p.rail \in Rails /\ p.unit \in Units /\ p.account /\ GoCanonical(p.amount)

\* A nil slice has no postings to object to.
GoPostings(postings) ==
    \/ postings = Absent
    \/ /\ postings # Malformed
       /\ \A i \in DOMAIN postings : GoPosting(postings[i])
       /\ Balanced(postings)

GoLedger(l) ==
    IF /\ l.plain
       /\ l.identified
       /\ l.sequence # Malformed /\ l.sequence \in 1..MaxInt
       /\ l.metadata # "absent"
       /\ GoPostings(l.postings)
    THEN Passed ELSE 422

GoNotification(n) ==
    IF /\ n.plain
       /\ n.identified
       /\ n.type \in Types
       /\ n.type # "manual" => n.period
       /\ n.type = "threshold" => GoUnsigned(n.projected) /\ GoUnsigned(n.limit)
    THEN Passed ELSE 422

-----------------------------------------------------------------------------
(* The answer.                                                             *)

Refuse(status) == [NoAnswer EXCEPT !.status = status]

\* Mutant: a notification, which has no sequence, is acknowledged as well.
CalledAcknowledgingAll(stream, event, fails) ==
    IF fails THEN [status |-> 500, callback |-> stream, ack |-> NoAck]
    ELSE [status |-> 204, callback |-> stream,
          ack |-> IF stream = "ledger" THEN event.sequence ELSE Absent]

\* The callback was called and has returned or failed.
Called(stream, event, fails) ==
    IF fails THEN [status |-> 500, callback |-> stream, ack |-> NoAck]
    ELSE [status |-> 204, callback |-> stream,
          ack |-> IF stream = "ledger" THEN event.sequence ELSE NoAck]

\* business_sequence makes it a ledger event, whatever else there is.
Dispatch(d, ledgerFault, notificationFault, fails) ==
    CASE d.ledger # Absent ->
            IF ledgerFault = Passed THEN Called("ledger", d.ledger, fails) ELSE Refuse(ledgerFault)
      [] d.ledger = Absent /\ d.notification # Absent ->
            IF notificationFault = Passed
            THEN Called("notification", d.notification, fails)
            ELSE Refuse(notificationFault)
      [] OTHER -> Refuse(422)

\* Of a reading.
PyReceive(d, fails) ==
    IF PyTransport(d) # Passed THEN Refuse(PyTransport(d))
    ELSE Dispatch(d, PyLedger(d.ledger), PyNotification(d.notification), fails)

GoReceive(d, fails) ==
    IF GoTransport(d) # Passed THEN Refuse(GoTransport(d))
    ELSE Dispatch(d, GoLedger(d.ledger), GoNotification(d.notification), fails)

-----------------------------------------------------------------------------
(* For the properties.                                                     *)

\* The reference: each rail and unit on its own, as one sum.
SumsToZero(postings) ==
    \A r \in Rails, u \in Units :
        LET booked == {i \in DOMAIN postings : postings[i].rail = r /\ postings[i].unit = u}
            values == [i \in DOMAIN postings |-> postings[i].amount.value]
        IN  SumFunctionOnSet(values, booked) = 0

AmountsOf(d) ==
    (IF d.ledger = Absent \/ d.ledger.postings \in {Absent, Malformed} THEN {}
     ELSE {d.ledger.postings[i].amount : i \in DOMAIN d.ledger.postings})
    \cup (IF d.notification = Absent THEN {} ELSE {d.notification.projected, d.notification.limit})

HasUnhashable(d) ==
    \/ d.notification # Absent /\ d.notification.type = Unhashable
    \/ /\ d.ledger # Absent
       /\ d.ledger.postings \notin {Absent, Malformed}
       /\ \E i \in DOMAIN d.ledger.postings :
            Unhashable \in {d.ledger.postings[i].rail, d.ledger.postings[i].unit}

\* Where the checks of the two receivers part, of one reading.
ChecksDiffer(d) ==
    \/ d.size = "exceeds" /\ (~d.auth \/ ~d.outbox \/ d.json = "garbage")
    \/ d.size = "empty" /\ ~d.auth
    \/ \E a \in AmountsOf(d) : a.form = "foreign"
    \/ HasUnhashable(d)
    \/ d.notification # Absent /\ ~d.notification.plain
    \/ /\ d.ledger # Absent
       /\ \/ d.ledger.sequence # Malformed /\ d.ledger.sequence > MaxInt
          \/ d.ledger.metadata = "other"
          \/ d.ledger.postings = Absent
          \/ ~d.ledger.plain

\* They differ when the SDKs read something else in the same bytes, and where their
\* checks part.
ReceiversDiffer(d) == d["python"] # d["go"] \/ ChecksDiffer(d["python"])
=============================================================================
