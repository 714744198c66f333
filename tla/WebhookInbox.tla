---------------------------- MODULE WebhookInbox ----------------------------
(***************************************************************************)
(* What a durable webhook inbox promises, whatever it is built from: an    *)
(* event that was acknowledged is recorded, is recorded once, and stays    *)
(* recorded.  WEBHOOKS.md and the comments of both example receivers ask   *)
(* for it; FileInbox and SqliteInbox are two implementations.               *)
(***************************************************************************)
CONSTANTS
    Deliveries, \* what the sender may deliver: records with an event and a body
    Events,     \* event identities, each with its stream
    NoBody,     \* no record of an event
    Form        \* the form in which a body is recorded

VARIABLES
    records,    \* the body recorded for each event
    acked       \* deliveries that were answered with 204

vars == <<records, acked>>

Init ==
    /\ records = [e \in Events |-> NoBody]
    /\ acked = {}

Record(d) ==
    /\ records[d.event] = NoBody
    /\ records' = [records EXCEPT ![d.event] = Form[d.body]]
    /\ UNCHANGED acked

Acknowledge(d) ==
    /\ records[d.event] = Form[d.body]
    /\ acked' = acked \cup {d}
    /\ UNCHANGED records

\* A power loss takes records that nobody was told about.
Lose(S) ==
    /\ \A d \in acked : d.event \notin S
    /\ records' = [e \in Events |-> IF e \in S THEN NoBody ELSE records[e]]
    /\ UNCHANGED acked

Next ==
    \/ \E d \in Deliveries : Record(d) \/ Acknowledge(d)
    \/ \E S \in SUBSET Events : Lose(S)

Spec == Init /\ [][Next]_vars
=============================================================================
