---------------------------- MODULE UsageBuilders ----------------------------
(***************************************************************************)
(* The feature-specific request builders of both SDKs: builders.py, and    *)
(* the Consume methods of usage.go.  Each refuses the caller's facts or    *)
(* makes them into the body of a consumption request.  Facts of a wrong    *)
(* type, which Go's compiler and Python's isinstance reject, are left out. *)
(***************************************************************************)
EXTENDS ExactAmounts

CONSTANTS
    Names,      \* what texts say
    Channels,   \* the channels there are
    MaxId,      \* longest event or actor ID, 128 in the code
    MaxText,    \* longest metadata or attribute value, 512 in the code
    MaxKey,     \* longest key of an attribute, 64 in the code
    MaxEntries, \* most attributes, 32 in the code
    Meta,       \* the provider of WhatsApp marketing messages
    Null,       \* a field that is there and None
    Empty,      \* a channel, or an actor, with nothing in it
    Refused     \* ValueError, or a non-nil error

CountFeatures == {"outbound_delivered_message", "ai_assist_action_over_allowance", "ai_reply_handling"}
MinuteFeatures == {"telephony_voice_minute", "inbound_voice_minute"}
ProviderFeatures == MinuteFeatures \cup {"whatsapp_meta_marketing_msg", "other_provider_charge"}
Required == {"voice_ai_started_minute", "other_provider_charge"}  \* the amount has no default
Features == CountFeatures \cup ProviderFeatures \cup {"conversation_24h", "voice_ai_started_minute"}

-----------------------------------------------------------------------------
(* Texts: which one it is, how many characters it has, how many of them    *)
(* blanks around the others, and how many bytes a character takes.         *)

Texts == [name : Names, chars : Nat, pad : Nat, width : Nat \ {0}]

PyLen(t) == t.chars + t.pad

GoLen(t) == t.chars * t.width + t.pad

Strip(t) == [t EXCEPT !.pad = 0]

IsBlank(t) == t.chars = 0

-----------------------------------------------------------------------------
(* Metadata is Absent or has the fields below; campaign_id stands for all  *)
(* the text fields that no builder sets.  An actor of a supported type is  *)
(* its ID.  Each field of Python's mapping can be Null; Go's struct has no *)
(* such value, and Null is there the field that is left out.               *)

TextFields == {"provider", "provider_event_id", "conversation_id", "campaign_id",
               "provider_invoice_id", "original_currency", "tariff_version", "fx_rule"}

Fields == TextFields \cup {"channel", "actor", "attributes", "original_amount_minor", "custom"}

NoMetadata == [f \in Fields |-> Absent]

Unset == {Absent, Null}

\* One value for a key.  A text stands for what a value is written as.
IsAttributes(entries) ==
    /\ entries \in SUBSET [key : Texts, value : Texts \cup {Null}]
    /\ IsFiniteSet(entries)
    /\ \A a, b \in entries : a.key = b.key => a = b

IsMetadata(m) ==
    /\ m = [f \in Fields |-> m[f]]
    /\ \A f \in TextFields : m[f] \in Unset \/ m[f] \in Texts
    /\ m["channel"] \in Channels \cup Unset \cup {Empty, Malformed}
    /\ m["actor"] \in Unset \cup {Empty, Malformed} \/ m["actor"] \in Texts
    /\ m["attributes"] \in Unset \cup {Malformed} \/ IsAttributes(m["attributes"])
    /\ m["original_amount_minor"] \in Unset \/ m["original_amount_minor"] \in Decimals
    /\ m["custom"] \in {"valid", Absent}

PyBounded(entries) ==
    /\ Cardinality(entries) <= MaxEntries
    /\ \A a \in entries : PyLen(a.key) <= MaxKey /\ (a.value # Null => PyLen(a.value) <= MaxText)

GoBounded(entries) ==
    /\ Cardinality(entries) <= MaxEntries
    /\ \A a \in entries : GoLen(a.key) <= MaxKey /\ (a.value # Null => GoLen(a.value) <= MaxText)

\* _validate_metadata
PyValid(m) == m # Absent =>
    /\ m["custom"] = Absent
    /\ m["channel"] \in Channels \cup Unset
    /\ m["actor"] \notin Unset =>
            m["actor"] \notin {Empty, Malformed} /\ PyLen(m["actor"]) \in 1..MaxId
    /\ \A f \in TextFields : m[f] \notin Unset => PyLen(m[f]) \in 1..MaxText
    /\ m["original_amount_minor"] \notin Unset => PyInteger(m["original_amount_minor"], TRUE)
    /\ m["attributes"] # Absent =>
            m["attributes"] \notin {Null, Malformed} /\ PyBounded(m["attributes"])

\* validateMetadata
GoValid(m) == m # Absent =>
    /\ m["channel"] \in Channels \cup Unset \cup {Empty}
    /\ m["actor"] \notin Unset \cup {Empty} =>
            m["actor"] # Malformed /\ GoLen(m["actor"]) \in 1..MaxId
    /\ \A f \in TextFields : m[f] \notin Unset => GoLen(m[f]) <= MaxText
    /\ m["original_amount_minor"] \notin Unset /\ m["original_amount_minor"].form # "empty" =>
            GoInteger(m["original_amount_minor"], TRUE)
    /\ m["attributes"] \notin Unset =>
            m["attributes"] # Malformed /\ GoBounded(m["attributes"])

\* Mutant: the caller's metadata wins over the arguments.
MergeUnder(m, arguments) ==
    LET base == IF m = Absent THEN NoMetadata ELSE m
    IN  [f \in Fields |-> IF base[f] = Absent /\ f \in DOMAIN arguments THEN arguments[f] ELSE base[f]]

\* The arguments win over the caller's metadata.
Merge(m, arguments) ==
    LET base == IF m = Absent THEN NoMetadata ELSE m
    IN  [f \in Fields |-> IF f \in DOMAIN arguments THEN arguments[f] ELSE base[f]]

-----------------------------------------------------------------------------
(* What a caller gives: u.feature and that builder's arguments.            *)

\* Three letters.
Currencies == {t \in Texts : t.chars = 3 /\ t.width = 1}

Facts == {"feature", "occurred_at", "amount", "metadata", "source_event_id", "provider",
          "provider_event_id", "conversation_id", "provider_invoice_id", "tariff_version",
          "fx_rule", "channel", "original_amount_minor", "original_currency"}

IsUsage(u) ==
    /\ DOMAIN u = Facts
    /\ u.feature \in Features
    /\ u.occurred_at \in {"zoned", "zero", "naive", "missing"}
    /\ u.amount \in Decimals \/ (u.amount = Absent /\ u.feature \notin Required)
    /\ u.metadata = Absent \/ IsMetadata(u.metadata)
    /\ {u.source_event_id, u.provider, u.provider_event_id, u.conversation_id,
        u.provider_invoice_id, u.tariff_version} \subseteq Texts
    /\ u.fx_rule = Absent \/ u.fx_rule \in Texts
    /\ u.channel \in Channels \cup {Malformed}
    /\ u.original_amount_minor \in Decimals
    /\ u.original_currency = Malformed \/ u.original_currency \in Currencies

Provider(u) == IF u.feature = "whatsapp_meta_marketing_msg" THEN Meta ELSE Strip(u.provider)

Attribution(u) == [provider |-> Provider(u), provider_event_id |-> Strip(u.provider_event_id)]

Conversation(u) == [conversation_id |-> Strip(u.conversation_id), channel |-> u.channel]

Upper(t) == [t EXCEPT !.name = IF @ = "sar" THEN "SAR" ELSE @]

Currency(u) == Upper(Strip(u.original_currency))

Invoice(u) == [provider_invoice_id   |-> Strip(u.provider_invoice_id),
               original_amount_minor |-> u.original_amount_minor,
               original_currency     |-> Currency(u),
               tariff_version        |-> Strip(u.tariff_version)]

\* What a request may hold besides its feature, event and amount.
FieldValues ==
    {"valid", Absent, Null, Empty, Malformed} \cup Channels \cup Decimals \cup Texts
    \cup SUBSET [key : Texts, value : Texts \cup {Null}]

\* In halala nothing is converted; otherwise the rule of conversion is named.
Settled(u) ==
    /\ u.original_currency # Malformed
    /\ Currency(u).name = "SAR" => u.original_amount_minor = u.amount
    /\ Currency(u).name # "SAR" => u.fx_rule # Absent /\ ~IsBlank(u.fx_rule)

Body(u, amount, m) ==
    [feature |-> u.feature, event |-> u.source_event_id, amount |-> amount, metadata |-> m]

Requests == [feature : Features, event : Texts, amount : Decimals,
             metadata : {Absent} \cup [Fields -> FieldValues]]

\* A refusal is no request.
ASSUME RefusedAssumption == Refused \notin Requests

\* What is missing is no value.
ASSUME MissingAssumption == Absent \notin Texts \cup Decimals \cup [Fields -> FieldValues]

\* It is what sar becomes in capitals.
ASSUME NamesAssumption == "SAR" \in Names

\* Nor is None.
ASSUME NullAssumption == Null \notin Texts \cup Decimals \cup {Absent}

\* A channel of a wrong type, or none, is no channel.
ASSUME ChannelsAssumption ==
    Channels \cap {Malformed, Null, Empty} = {} /\ Malformed \notin {Null, Empty}

\* A currency and the builder's own text fit.
ASSUME MaxTextAssumption ==
    /\ MaxText \in Nat /\ 3 <= MaxText
    /\ Meta \in Texts /\ ~IsBlank(Meta) /\ Meta.width = 1 /\ PyLen(Meta) <= MaxText

-----------------------------------------------------------------------------
(* Python.                                                                 *)

\* _event
PyEvent(u) == PyLen(u.source_event_id) \in 1..MaxId /\ u.occurred_at \in {"zoned", "zero"}

\* Mutant: the blanks around it count.
PyRequiredUnstripped(t) == ~IsBlank(t) /\ PyLen(t) <= MaxText

\* _required_metadata_string
PyRequired(t) == ~IsBlank(t) /\ PyLen(Strip(t)) <= MaxText

\* _provider_metadata: the caller's metadata is validated, the merged is not.
PyAttributed(u) ==
    PyValid(u.metadata) /\ ~IsBlank(Provider(u)) /\ ~IsBlank(u.provider_event_id)

\* _count_usage
PyUsage(u, amount, inOrder, m) ==
    IF PyEvent(u) /\ inOrder /\ PyValid(m) THEN Body(u, amount, m) ELSE Refused

PyCharge(u) ==
    IF /\ PyEvent(u)
       /\ PyInteger(u.amount, TRUE) /\ PyInteger(u.original_amount_minor, TRUE)
       /\ Settled(u)
       /\ PyAttributed(u)
       /\ PyRequired(u.provider_invoice_id) /\ PyRequired(u.tariff_version)
       /\ u.fx_rule # Absent => PyRequired(u.fx_rule)
    THEN LET evidence == Merge(Merge(u.metadata, Attribution(u)), Invoice(u))
         IN  Body(u, u.amount,
                  IF u.fx_rule = Absent THEN evidence
                  ELSE Merge(evidence, [fx_rule |-> Strip(u.fx_rule)]))
    ELSE Refused

One == [whole |-> 1, fraction |-> <<>>, form |-> "ascii"]

\* The parameter's default.
PyAmount(u) == IF u.amount = Absent THEN One ELSE u.amount

PyBuild(u) ==
    CASE u.feature \in CountFeatures ->
            PyUsage(u, PyAmount(u), PyWholeCount(PyAmount(u)), u.metadata)
      [] u.feature = "conversation_24h" ->
            PyUsage(u, One,
                    PyValid(u.metadata) /\ u.channel \in Channels /\ PyRequired(u.conversation_id),
                    Merge(u.metadata, Conversation(u)))
      [] u.feature = "voice_ai_started_minute" ->
            PyUsage(u, u.amount, PyInteger(u.amount, FALSE), u.metadata)
      [] u.feature = "whatsapp_meta_marketing_msg" ->
            PyUsage(u, PyAmount(u), PyAttributed(u) /\ PyWholeCount(PyAmount(u)),
                    Merge(u.metadata, Attribution(u)))
      [] u.feature \in MinuteFeatures ->
            PyUsage(u, PyAmount(u), PyAttributed(u) /\ PyQuantity(PyAmount(u)),
                    Merge(u.metadata, Attribution(u)))
      [] OTHER -> PyCharge(u)

-----------------------------------------------------------------------------
(* Go.                                                                     *)

\* validateUsageEvent: a time.Time always has a zone, and the first moment of year 1 is
\* what it is when nobody has set it.
GoEvent(u) == GoLen(u.source_event_id) \in 1..MaxId /\ u.occurred_at \notin {"missing", "zero"}

\* providerMetadata: the merged metadata is validated, the caller's is not.
GoAttributed(u) ==
    /\ ~IsBlank(Provider(u)) /\ ~IsBlank(u.provider_event_id)
    /\ GoValid(Merge(u.metadata, Attribution(u)))

\* The struct has no place for a custom key, and omits what is empty.
Lost(m, f) ==
    \/ f = "custom"
    \/ m[f] \in Unset
    \/ f \in TextFields /\ GoLen(m[f]) = 0
    \/ f \in {"channel", "actor"} /\ m[f] = Empty
    \/ f = "attributes" /\ m[f] = {}
    \/ f = "original_amount_minor" /\ m[f].form = "empty"

\* omitempty
GoWire(m) == IF m = Absent THEN Absent ELSE [f \in Fields |-> IF Lost(m, f) THEN Absent ELSE m[f]]

\* countRequest and providerQuantityRequest
GoUsage(u, amount, inOrder, m) ==
    IF GoEvent(u) /\ inOrder /\ GoValid(m) THEN Body(u, amount, GoWire(m)) ELSE Refused

GoCharge(u) ==
    LET evidence == Merge(Merge(Merge(u.metadata, Attribution(u)), Invoice(u)),
            [fx_rule |-> IF u.fx_rule = Absent \/ IsBlank(u.fx_rule) THEN Absent ELSE Strip(u.fx_rule)])
    IN  IF /\ GoEvent(u)
           /\ GoInteger(u.amount, TRUE) /\ GoInteger(u.original_amount_minor, TRUE)
           /\ ~IsBlank(u.provider_invoice_id) /\ ~IsBlank(u.tariff_version)
           /\ Settled(u)
           /\ GoAttributed(u)
           /\ GoValid(evidence)
        THEN Body(u, u.amount, GoWire(evidence)) ELSE Refused

\* quantityOrOne
GoAmount(u) == IF u.amount = Absent \/ u.amount.form = "empty" THEN One ELSE u.amount

GoBuild(u) ==
    CASE u.feature \in CountFeatures ->
            GoUsage(u, GoAmount(u), GoWholeCount(GoAmount(u)), u.metadata)
      [] u.feature = "conversation_24h" ->
            GoUsage(u, One, GoValid(u.metadata) /\ ~IsBlank(u.conversation_id),
                    Merge(u.metadata, Conversation(u)))
      [] u.feature = "voice_ai_started_minute" ->
            GoUsage(u, u.amount, GoInteger(u.amount, FALSE), u.metadata)
      [] u.feature = "whatsapp_meta_marketing_msg" ->
            GoUsage(u, GoAmount(u), GoAttributed(u) /\ GoWholeCount(GoAmount(u)),
                    Merge(u.metadata, Attribution(u)))
      [] u.feature \in MinuteFeatures ->
            GoUsage(u, GoAmount(u), GoAttributed(u) /\ GoQuantity(GoAmount(u)),
                    Merge(u.metadata, Attribution(u)))
      [] OTHER -> GoCharge(u)

-----------------------------------------------------------------------------
(* Confirmed payments: top-ups, whose reason is Absent, and refunds.  The  *)
(* limit of a reason is 1000 in the code.                                  *)

IsPayment(p) ==
    /\ {p.amount_minor, p.total_minor} \subseteq Decimals
    /\ p.payment_event_id \in Texts
    /\ p.reason = Absent \/ p.reason \in Texts

\* confirmed_top_up and confirmed_refund
PyPayment(p) ==
    IF /\ PyInteger(p.amount_minor, FALSE) /\ PyInteger(p.total_minor, FALSE)
       /\ PyLen(p.payment_event_id) \in 1..MaxId
       /\ p.reason # Absent => ~IsBlank(p.reason) /\ PyLen(p.reason) <= MaxText
    THEN p ELSE Refused

\* validatePaymentRequest and RefundProviderBalance
GoPayment(p) ==
    IF /\ GoLen(p.payment_event_id) \in 1..MaxId
       /\ GoInteger(p.amount_minor, FALSE) /\ GoInteger(p.total_minor, FALSE)
       /\ p.reason # Absent => ~IsBlank(p.reason) /\ GoLen(p.reason) <= MaxText
    THEN p ELSE Refused
=============================================================================
