------------------------- MODULE MCWebhookDelivery -------------------------
(* WebhookDelivery with the three ledger events of one business.              *)
EXTENDS WebhookDelivery

CONSTANTS o1, o2, o3, e1, e2, e3, b1, b2

First == [outbox |-> o1, event |-> e1, body |-> b1]
Second == [outbox |-> o2, event |-> e2, body |-> b2]
Third == [outbox |-> o3, event |-> e3, body |-> b1]

MCDeliveries == {First, Second, Third}
MCStreams == {<<First, Second, Third>>}
MCOutbox == {o1, o2, o3}
MCEvents == {e1, e2, e3}
MCBodies == {b1, b2}
=============================================================================
