----------------------------- MODULE SdkContract -----------------------------
(***************************************************************************)
(* The two SDKs side by side: each gets the same webhook delivery, the     *)
(* same usage facts or the same payment, and answers it.  What they answer *)
(* has to be exact, and alike but for the differences named below.         *)
(***************************************************************************)
EXTENDS WebhookReceiver, UsageBuilders

CONSTANTS
    Deliveries,  \* the webhook deliveries to be considered,
    Usages,      \* the usage facts
    Payments,    \* and the payments
    NotYet

\* They are what a network or a caller can bring about.
ASSUME DeliveriesAssumption == \A d \in Deliveries : d \in Delivery

ASSUME UsagesAssumption == \A u \in Usages : IsUsage(u)

ASSUME PaymentsAssumption == \A p \in Payments : IsPayment(p)

VARIABLES
    input,   \* what both get: its kind, what it is, whether the callback fails on it
    answer   \* per SDK

vars == <<input, answer>>

Input(kind, of, fails) == [kind |-> kind, of |-> of, fails |-> fails]

Init ==
    /\ \/ \E d \in Deliveries, fails \in BOOLEAN : input = Input("delivery", d, fails)
       \/ \E u \in Usages : input = Input("usage", u, FALSE)
       \/ \E p \in Payments : input = Input("payment", p, FALSE)
    /\ answer = [s \in SDKs |-> NotYet]

Answers(s, kind, result) ==
    /\ input.kind = kind
    /\ answer[s] = NotYet
    /\ answer' = [answer EXCEPT ![s] = result]
    /\ UNCHANGED input

PyReceives == Answers("python", "delivery", PyReceive(input.of["python"], input.fails))

GoReceives == Answers("go", "delivery", GoReceive(input.of["go"], input.fails))

PyBuilds == Answers("python", "usage", PyBuild(input.of))

GoBuilds == Answers("go", "usage", GoBuild(input.of))

PyPays == Answers("python", "payment", PyPayment(input.of))

GoPays == Answers("go", "payment", GoPayment(input.of))

Next == PyReceives \/ GoReceives \/ PyBuilds \/ GoBuilds \/ PyPays \/ GoPays

Spec == Init /\ [][Next]_vars

-----------------------------------------------------------------------------
Answered(s, kind) == input.kind = kind /\ answer[s] # NotYet

Sent(s, kind) == Answered(s, kind) /\ answer[s] # Refused

\* A receiver answers with one of its statuses, calls a callback only when it then
\* says 204 or 500, and acknowledges the sequence of a ledger event and nothing else.
TypeOK ==
    \A s \in SDKs : Answered(s, "delivery") =>
        /\ answer[s].status \in Statuses
        /\ answer[s].callback \in {"none", "ledger", "notification"}
        /\ answer[s].callback # "none" => answer[s].status \in {204, 500}
        /\ IF answer[s].status = 204 /\ answer[s].callback = "ledger"
           THEN answer[s].ack \in Nat \ {0} ELSE answer[s].ack = NoAck

\* No receiver hands postings to the application that do not balance exactly per
\* rail and unit, however close to the 64-bit limits the amounts are.
LedgerBalances ==
    \A s \in SDKs :
        /\ Answered(s, "delivery")
        /\ answer[s].callback = "ledger"
        /\ input.of[s].ledger.postings # Absent
        => SumsToZero(input.of[s].ledger.postings)

\* WEBHOOKS.md describes one receiver contract.  The SDKs check it alike: when both read
\* the same in a delivery, status, callback and acknowledgement are the same, but where
\* ChecksDiffer says.
SameAnswer ==
    (\A s \in SDKs : Answered(s, "delivery")) /\ ~ReceiversDiffer(input.of) =>
        answer["python"] = answer["go"]

\* webhooks.py authenticates before parsing, so that an unauthorized caller cannot
\* exercise the JSON contract: his answer is 401 whatever the body says, and no callback
\* hears of him.  Of Go's receiver he learns the body's size at most.
AuthenticatedFirst ==
    \A s \in SDKs : Answered(s, "delivery") /\ ~input.of[s].auth =>
        \/ answer[s] = Refuse(401)
        \/ s = "go" /\ input.of[s].size = "empty" /\ answer[s] = Refuse(400)
        \/ s = "go" /\ input.of[s].size = "exceeds" /\ answer[s] = Refuse(413)

\* WEBHOOKS.md says that the receiver rejects malformed payloads; a 500 has Mizan send
\* the same again, ten times.  What no callback has seen is a server error only where the
\* code of an authorized delivery raises: json.loads does on JSON beyond Python's limits,
\* and so does the lookup of an array or object as rail, unit or type.  Whatever else is
\* wrong with a delivery is refused, and Go's receiver refuses those too.
UncalledErrorsRaise ==
    \A s \in SDKs :
        /\ Answered(s, "delivery")
        /\ answer[s].status = 500 /\ answer[s].callback = "none"
        => /\ s = "python" /\ input.of[s].auth
           /\ input.of[s].json = "raises" \/ HasUnhashable(input.of[s])

-----------------------------------------------------------------------------
\* The reference: each digit at its place, with no padding.
Milli(a) ==
    LET worth == [i \in DOMAIN a.fraction |-> a.fraction[i] * Base^(Places - i)]
    IN  a.whole * Scale + SumFunction(worth)

Exact(a) == Len(a.fraction) <= Places /\ Milli(a) \in 1..MaxInt

ScaledFeatures == Features \ {"voice_ai_started_minute", "other_provider_charge"}

Build(s, u) == IF s = "python" THEN PyBuild(u) ELSE GoBuild(u)

\* builders.py:95 promises exact scaling.  A quantity is sent just when its value in
\* milliunits is a whole number from 1 to the largest 64-bit integer, counts being
\* whole besides; the amount is what decides when all else is in order.
ExactQuantity ==
    \A s \in SDKs :
        Answered(s, "usage") /\ input.of.feature \in ScaledFeatures =>
            LET u == input.of
                a == u.amount
                asked == a # Absent /\ u.feature # "conversation_24h"
                right == Exact(a) /\ (u.feature \notin MinuteFeatures => IsWhole(a))
            IN  /\ asked /\ answer[s] # Refused /\ a.form # "empty" => right
                /\ asked /\ a.form = "ascii" /\ right =>
                        (answer[s] = Refused <=> Build(s, [u EXCEPT !.amount = One]) = Refused)

\* What the arguments say of who charged what stands in the request, whatever the
\* caller's own metadata says: the provider and its event, the conversation and its
\* channel, the invoice and what was converted by which rule.
ArgumentsStand ==
    \A s \in SDKs : Sent(s, "usage") =>
        LET u == input.of
            m == answer[s].metadata
            charge == u.feature = "other_provider_charge"
            says(arguments) == \A f \in DOMAIN arguments : m[f] = arguments[f]
        IN  /\ u.feature \in ProviderFeatures => says(Attribution(u)) /\ ~IsBlank(m["provider"])
            /\ u.feature = "conversation_24h" => says(Conversation(u))
            /\ charge => says(Invoice(u))
            /\ charge /\ Currency(u).name # "SAR" => m["fx_rule"] = Strip(u.fx_rule)

-----------------------------------------------------------------------------
(* Where the builders part.                                                *)

Entries(m) == IF m["attributes"] \in Unset \cup {Malformed} THEN {} ELSE m["attributes"]

TextsOf(u) ==
    {u.source_event_id, u.provider, u.provider_event_id, u.conversation_id,
     u.provider_invoice_id, u.tariff_version, u.fx_rule}
    \cup (IF u.metadata = Absent THEN {}
          ELSE {u.metadata[f] : f \in TextFields \cup {"actor"}}
               \cup {a.key : a \in Entries(u.metadata)} \cup {a.value : a \in Entries(u.metadata)})

IntegersOf(u) ==
    {u.amount, u.original_amount_minor}
    \cup (IF u.metadata = Absent THEN {} ELSE {u.metadata["original_amount_minor"]})

\* One counts characters, the other bytes.
Wide(t) == t \in Texts /\ t.width > 1

\* Where the builders part, of all that the model tells apart.
BuildersDiffer(u) ==
    LET m == u.metadata
        charge == u.feature = "other_provider_charge"
    IN  \/ \E t \in TextsOf(u) : Wide(t)
        \/ \E a \in IntegersOf(u) : a \notin Unset /\ a.form \in {"foreign", "empty"}
        \/ u.occurred_at \in {"zero", "naive"}
        \/ /\ m # Absent
           /\ \/ m["custom"] # Absent
              \* Python sends null, {} and nothing shorter than one character, Go none of them.
              \/ \E f \in Fields : m[f] = Null
              \/ Empty \in {m["channel"], m["actor"]} \/ m["attributes"] = {}
              \/ \E f \in TextFields : m[f] \notin Unset /\ PyLen(m[f]) = 0
              \* Go checks them when the arguments have taken their place.
              \/ /\ u.feature \in ProviderFeatures
                 /\ \E f \in {"provider", "provider_event_id"} :
                        m[f] \notin Unset /\ PyLen(m[f]) > MaxText
              \* Go has no fx_rule but the argument.
              \/ charge /\ u.fx_rule = Absent /\ m["fx_rule"] # Absent
        \* Python does not check them once they are merged.
        \/ charge /\ \E t \in {u.provider, u.provider_event_id} : PyLen(Strip(t)) > MaxText
        \/ charge /\ u.fx_rule # Absent /\ IsBlank(u.fx_rule)

PaymentsDiffer(p) ==
    \/ \E t \in {p.payment_event_id, p.reason} : Wide(t)
    \/ \E a \in {p.amount_minor, p.total_minor} : a.form = "foreign"

\* Both SDKs make the same request of the same facts, or both refuse them, but where
\* BuildersDiffer and PaymentsDiffer say.
SameRequest ==
    \/ \E s \in SDKs : answer[s] = NotYet
    \/ answer["python"] = answer["go"]
    \/ input.kind = "delivery"
    \/ input.kind = "usage" /\ BuildersDiffer(input.of)
    \/ input.kind = "payment" /\ PaymentsDiffer(input.of)
=============================================================================
