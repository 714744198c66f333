---------------------------- MODULE MCFileInbox ----------------------------
(* FileInbox with one body that json.Marshal changes, and with deliveries   *)
(* that repeat an event, reuse an outbox ID and reuse an event ID.          *)
EXTENDS FileInbox

CONSTANTS o1, o2, e1, e2, plain, spaced, compact

MCOutbox == {o1, o2}
MCEvents == {e1, e2}
MCBodies == {plain, spaced, compact}
MCForm == [b \in MCBodies |-> IF b = spaced THEN compact ELSE b]

Delivery(o, e, b) == [outbox |-> o, event |-> e, body |-> b]

MCDeliveries == {Delivery(o1, e1, spaced), Delivery(o2, e1, spaced),
                 Delivery(o1, e2, plain), Delivery(o2, e1, plain)}

\* Either calls fail and processes die, or the power fails.
MCFaultModels == {{"error", "kill"}, {"power"}}

\* A process killed between two steps, and a power loss later.
MCKillAndPower == {{"kill", "power"}}

MCKill == {{"kill"}}
=============================================================================
