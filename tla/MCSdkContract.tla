---------------------------- MODULE MCSdkContract ----------------------------
(* SdkContract on all transport conditions with one body, on all bodies     *)
(* below over a transport in order, on deliveries that the SDKs read        *)
(* differently, on each builder with up to two of its facts out of the      *)
(* ordinary, and on payments.  The range is -2501..2500.                    *)
EXTENDS SdkContract

CONSTANTS units, invoice, milliunit, halala, whatsapp, telephony

MCRails == {units, invoice}
MCUnits == {milliunit, halala}
MCChannels == {whatsapp, telephony}
MCNames == {"x", "Meta", "event", "carrier", "call", "chat", "invoice", "v4", "rate",
            "SAR", "sar", "USD"}

Amount(v) == [value |-> v, form |-> "ascii"]

Booking(r, u, a) == [rail |-> r, unit |-> u, account |-> TRUE, amount |-> a]

\* At both ends of the range, one beyond, and such that three of them wrap to zero.
Bookings == {Booking(r, u, Amount(v)) : r \in MCRails, u \in MCUnits,
                                        v \in {-MaxInt - 1, -1, 1, 2, MaxInt, MaxInt + 1}}

Credit == Booking(units, milliunit, Amount(1))
Debit == Booking(units, milliunit, Amount(-1))

\* One thing wrong with each, or strange.
Oddities ==
    {[Debit EXCEPT !.rail = x] : x \in {Malformed, Unhashable}}
    \cup {[Debit EXCEPT !.unit = x] : x \in {Malformed, Unhashable}}
    \cup {[Debit EXCEPT !.amount.form = f] : f \in {"foreign", "padded"}}
    \cup {[Debit EXCEPT !.account = FALSE]}

Postings ==
    {<<>>}
    \cup {<<a, b>> : a \in Bookings, b \in Bookings \cup Oddities}
    \cup {<<a, b>> : a \in Oddities, b \in Oddities \cup {Credit}}
    \cup {<<a, b, c>> : a, b, c \in {x \in Bookings : x.rail = units}}
    \cup {<<a, b, c>> : a \in Oddities, b \in {Credit, Debit}, c \in Oddities}

Entry == [identified |-> TRUE, sequence |-> 1, metadata |-> "object",
          postings |-> <<Credit, Debit>>, plain |-> TRUE]

Ledgers ==
    {[Entry EXCEPT !.postings = ps] : ps \in Postings}
    \cup [identified : BOOLEAN, sequence : {-1, 0, 1, MaxInt, MaxInt + 1, Malformed},
          metadata : {"object", "other", "absent"},
          postings : {<<>>, <<Credit, Debit>>, <<Credit>>, Absent, Malformed}, plain : BOOLEAN]

Thresholds == {Amount(-1), Amount(0), Amount(MaxInt), Amount(MaxInt + 1),
               [value |-> 2, form |-> "foreign"], [value |-> 2, form |-> "padded"]}

Notifications ==
    [identified : BOOLEAN, type : {"threshold", "paused", "manual", Malformed, Unhashable},
     period : BOOLEAN, projected : Thresholds, limit : Thresholds, plain : BOOLEAN]

Note == [identified |-> TRUE, type |-> "manual", period |-> FALSE,
         projected |-> Amount(0), limit |-> Amount(0), plain |-> TRUE]

Sound(l, n) == [auth |-> TRUE, outbox |-> TRUE, size |-> "fits", json |-> "object",
                ledger |-> l, notification |-> n]

\* What either SDK can read.
Readings ==
    {Sound(l, n) : l \in Ledgers, n \in {Absent, Note}}
    \cup {Sound(Absent, n) : n \in Notifications \cup {Absent}}
    \cup [auth : BOOLEAN, outbox : BOOLEAN, size : {"empty"}, json : {"garbage"},
          ledger : {Absent}, notification : {Absent}]
    \cup [auth : BOOLEAN, outbox : BOOLEAN, size : {"fits", "exceeds"},
          json : {"garbage", "other", "object"}, ledger : {Entry, Absent}, notification : {Note, Absent}]

Read(python, go) == [s \in SDKs |-> IF s = "python" THEN python ELSE go]

\* Of the same bytes, by one SDK or the other: nothing, no object, nothing of interest,
\* a ledger event, another one (a member doubled or oddly cased), a notification.
Bodies ==
    [auth : BOOLEAN, outbox : BOOLEAN, size : {"fits", "exceeds"}, json : {"garbage", "other"},
     ledger : {Absent}, notification : {Absent}]
    \cup [auth : BOOLEAN, outbox : BOOLEAN, size : {"fits", "exceeds"}, json : {"object"},
          ledger : {Absent, Entry, [Entry EXCEPT !.sequence = 2], [Entry EXCEPT !.postings = <<Credit>>]},
          notification : {Absent, Note}]

Raised(d) == [d EXCEPT !.json = "raises", !.ledger = Absent, !.notification = Absent]

MCDeliveries ==
    {Read(d, d) : d \in Readings}
    \cup {Read(p, g) : <<p, g>> \in {x \in Bodies \X Bodies :
                                        x[1].size = x[2].size /\ x[1].outbox = x[2].outbox}}
    \cup {Read(Raised(d), d) : d \in Bodies}

-----------------------------------------------------------------------------
Text(name, chars) == [name |-> name, chars |-> chars, pad |-> 0, width |-> 1]

\* Ordinary, padded, blank, empty, at the limit, too long, too long only with
\* its padding, and too long only in bytes.
SomeTexts ==
    {Text("x", n) : n \in {0, 2, MaxText, MaxText + 1}}
    \cup {[Text("x", n) EXCEPT !.pad = 1] : n \in {0, 2, MaxText}}
    \cup {[Text("x", 2) EXCEPT !.width = 2]}

\* The name that the builder fills in.
MCMeta == Text("Meta", 3)

Decimal(whole, fraction) == [whole |-> whole, fraction |-> fraction, form |-> "ascii"]

\* Around zero, one milliunit and the limit, with none to four places.
Quantities ==
    {[a EXCEPT !.form = f] : a \in {Decimal(0, <<>>), One, Decimal(1, <<5>>)}, f \in Forms}
    \cup {Decimal(w, fr) : w \in 0..3, fr \in BoundedSeq({0, 1, 5}, Places + 1)}

Integrals == {Decimal(w, <<>>) : w \in {0, 1, MaxInt, MaxInt + 1}}
    \cup {[One EXCEPT !.form = f] : f \in Forms} \cup {Decimal(1, <<0>>)}

With(m, f, v) == [m EXCEPT ![f] = v]

\* At the limits of their length, too long, and too long only in bytes; of MaxEntries
\* and one more.
Keys == {Text("x", MaxKey), Text("x", MaxKey + 1), [Text("x", MaxKey) EXCEPT !.width = 2]}

SomeEntries ==
    {{[key |-> k, value |-> Text("x", 1)]} : k \in Keys}
    \cup {{[key |-> Text("x", 1), value |-> v]} : v \in SomeTexts \cup {Null}}
    \cup {{[key |-> Text(n, 1), value |-> Null] : n \in names} : names \in {{}, {"x", "v4"}, {"x", "v4", "call"}}}

\* The caller's own metadata: none, none set, or one field set.
Metadata ==
    {Absent, NoMetadata}
    \cup {With(NoMetadata, f, t) : f \in TextFields, t \in SomeTexts}
    \cup {With(NoMetadata, f, Null) : f \in Fields \ {"custom"}}
    \cup {With(NoMetadata, "channel", c) : c \in {telephony, Empty, Malformed}}
    \cup {With(NoMetadata, "actor", x) : x \in SomeTexts \cup {Empty, Malformed}}
    \cup {With(NoMetadata, "attributes", x) : x \in SomeEntries \cup {Malformed}}
    \cup {With(NoMetadata, "original_amount_minor", a) : a \in Integrals}
    \cup {With(NoMetadata, "custom", "valid")}

SomeCurrencies ==
    {Text("SAR", 3), Text("sar", 3), [Text("SAR", 3) EXCEPT !.pad = 1], Text("USD", 3), Malformed}

\* Everything in order.
Usage(f) ==
    [feature |-> f, source_event_id |-> Text("event", 1), occurred_at |-> "zoned",
     amount |-> One, metadata |-> Absent,
     provider |-> Text("carrier", 2), provider_event_id |-> Text("call", 2),
     conversation_id |-> Text("chat", 2), channel |-> whatsapp,
     provider_invoice_id |-> Text("invoice", 2), original_amount_minor |-> One,
     original_currency |-> Text("USD", 3), tariff_version |-> Text("v4", 2),
     fx_rule |-> Text("rate", 2)]

Amounts(f) == IF f \in Required THEN Integrals ELSE Quantities \cup {Absent}

\* Out of the ordinary in one fact, or one and the metadata.
Strange(u) ==
    {[u EXCEPT !.amount = a] : a \in Amounts(u.feature)}
    \cup {[u EXCEPT !.source_event_id = t] : t \in SomeTexts}
    \cup {[u EXCEPT !.occurred_at = o] : o \in {"zero", "naive", "missing"}}
    \cup {[u EXCEPT !.provider = t] : t \in SomeTexts}
    \cup {[u EXCEPT !.provider_event_id = t] : t \in SomeTexts}
    \cup {[u EXCEPT !.conversation_id = t] : t \in SomeTexts}
    \cup {[u EXCEPT !.channel = c] : c \in MCChannels \cup {Malformed}}
    \cup {[u EXCEPT !.provider_invoice_id = t] : t \in SomeTexts}
    \cup {[u EXCEPT !.tariff_version = t] : t \in SomeTexts}
    \cup {[u EXCEPT !.original_currency = c, !.fx_rule = t, !.original_amount_minor = a] :
                c \in SomeCurrencies, t \in SomeTexts \cup {Absent}, a \in Integrals}

Annotated == {[Usage(f) EXCEPT !.metadata = m] : f \in Features, m \in Metadata}

MCUsages ==
    UNION {Strange(Usage(f)) : f \in Features}
    \cup Annotated
    \* In SAR without a rule, whatever the metadata says.
    \cup {[u EXCEPT !.original_currency = Text("SAR", 3), !.fx_rule = x] :
                u \in Annotated, x \in {Absent, Text("rate", 2)}}

MCPayments ==
    [amount_minor : Integrals, total_minor : Integrals,
     payment_event_id : SomeTexts, reason : SomeTexts \cup {Absent}]
=============================================================================
