--------------------------- MODULE MCSqliteInbox ---------------------------
(* SqliteInbox with deliveries that repeat an event under another outbox ID, *)
(* reuse an outbox ID for another event and an event ID for another body.    *)
EXTENDS SqliteInbox

CONSTANTS o1, o2, e1, e2, b1, b2

MCOutbox == {o1, o2}
MCEvents == {e1, e2}
MCBodies == {b1, b2}

Delivery(o, e, b) == [outbox |-> o, event |-> e, body |-> b]

MCDeliveries == {Delivery(o1, e1, b1), Delivery(o2, e1, b1),
                 Delivery(o1, e2, b1), Delivery(o2, e1, b2)}
=============================================================================
