---------------------------- MODULE MizanService ----------------------------
(***************************************************************************)
(* What the SDK clients talk to: the HTTP connections of the calls in      *)
(* progress and the Mizan Worker behind them.  Neither is part of this     *)
(* repository; both are modelled from what the request loops of client.py  *)
(* and mizan.go can observe and from the replay rules the SDK relies on.   *)
(*                                                                         *)
(* A request that was sent may be handled late, after its caller has given *)
(* up on the connection, or never.  The Worker records the body of the     *)
(* first request it commits under an idempotency key, replays that command *)
(* without a second effect when key and body come back together, and       *)
(* refuses the key with another body.  Whatever it decided, the answer can *)
(* be lost or damaged on the way to the caller.                            *)
(***************************************************************************)
EXTENDS Naturals, FiniteSets

CONSTANTS
    Calls,      \* invocations of a client method, each used once
    Ops,        \* the operations the application wants performed
    Reads,      \* those of Ops that are queries (mutation=False)
    Keys,       \* idempotency keys
    Bodies,     \* serialized request bodies
    NoKey,      \* a request without an Idempotency-Key header
    NoBody,     \* no body was recorded, or a request without one
    MaxAttempts \* attempts of one call, max_attempts in the constructor

ASSUME ReadsAssumption == Reads \subseteq Ops
ASSUME KeyAssumption == NoKey \notin Keys
ASSUME BodyAssumption == NoBody \notin Bodies
ASSUME AttemptsAssumption == MaxAttempts \in Nat \ {0}

VARIABLES
    net,        \* requests sent and not handled yet
    conn,       \* per call: the attempt its open connection waits for, and the answer
    recorded,   \* Worker: the body committed under each key
    effects     \* Worker: how often each operation has been applied

serviceVars == <<net, conn, recorded, effects>>

Mutations == Ops \ Reads

(***************************************************************************)
(* Answers as the loops tell them apart: a 2xx object, a structured error  *)
(* (refused, or the key-reuse conflict, or marked retryable), a body that  *)
(* is no usable JSON object, a non-2xx object without an error code, and a *)
(* response that breaks the HTTP framing itself (a truncated chunk, a      *)
(* malformed status line).                                                 *)
(***************************************************************************)
Answers == {"ok", "refused", "conflict", "retryable", "garbled", "bare", "cut"}

Damaged == {"garbled", "bare", "cut"}

Request == [call : Calls, attempt : 1..MaxAttempts, op : Ops,
            key : Keys \cup {NoKey}, body : Bodies \cup {NoBody}]

NotConnected == [attempt |-> 0, answer |-> "none"]

ServiceTypeOK ==
    /\ net \subseteq Request
    /\ conn \in [Calls -> [attempt : 0..MaxAttempts, answer : Answers \cup {"none"}]]
    /\ recorded \in [Keys -> Bodies \cup {NoBody}]
    /\ effects \in [Ops -> Nat]

ServiceInit ==
    /\ net = {}
    /\ conn = [c \in Calls |-> NotConnected]
    /\ recorded = [k \in Keys |-> NoBody]
    /\ effects = [o \in Ops |-> 0]

-----------------------------------------------------------------------------
(* The connection a call holds.                                            *)

\* The request is on the wire and its caller waits for the answer.
Send(m) ==
    /\ net' = net \cup {m}
    /\ conn' = [conn EXCEPT ![m.call] = [attempt |-> m.attempt, answer |-> "none"]]

\* The caller is done with the connection; an answer still to come is lost.
HangUp(c) ==
    /\ conn' = [conn EXCEPT ![c] = NotConnected]
    /\ UNCHANGED net

\* The answer to m reaches the caller only if it still waits for that attempt.
Answer(m, a) ==
    /\ net' = net \ {m}
    /\ conn' = IF conn[m.call].attempt = m.attempt
               THEN [conn EXCEPT ![m.call].answer = a]
               ELSE conn

-----------------------------------------------------------------------------
(* The Worker handles one request.                                         *)

\* The command is applied and its body recorded under the key; without a key
\* there is nothing to record, and nothing to recognise the command by later.
Commit(m) ==
    /\ m.op \in Mutations
    /\ \/ /\ m.key \in Keys
          /\ recorded[m.key] = NoBody
          /\ recorded' = [recorded EXCEPT ![m.key] = m.body]
       \/ m.key = NoKey /\ UNCHANGED recorded
    /\ effects' = [effects EXCEPT ![m.op] = @ + 1]
    /\ \E a \in {"ok", "retryable"} \cup Damaged : Answer(m, a)

\* Key and body were committed before: the answer is repeated, not the effect.
Replay(m) ==
    /\ m.op \in Mutations
    /\ m.key \in Keys
    /\ recorded[m.key] # NoBody
    /\ recorded[m.key] = m.body
    /\ \E a \in {"ok", "retryable"} \cup Damaged : Answer(m, a)
    /\ UNCHANGED <<recorded, effects>>

\* The key was committed with another body (IDEMPOTENCY_KEY_REUSED).
Conflict(m) ==
    /\ m.op \in Mutations
    /\ m.key \in Keys
    /\ recorded[m.key] \notin {NoBody, m.body}
    /\ Answer(m, "conflict")
    /\ UNCHANGED <<recorded, effects>>

\* A new command is turned down, for now or for good; the key stays unused, so
\* that the same event may be retried with its original body and key.
TurnDown(m) ==
    /\ m.op \in Mutations
    /\ m.key \in Keys => recorded[m.key] = NoBody
    /\ \E a \in {"refused", "retryable"} \cup Damaged : Answer(m, a)
    /\ UNCHANGED <<recorded, effects>>

\* A query changes nothing.
Query(m) ==
    /\ m.op \in Reads
    /\ \E a \in Answers \ {"conflict"} : Answer(m, a)
    /\ UNCHANGED <<recorded, effects>>

Handle(m) == Commit(m) \/ Replay(m) \/ Conflict(m) \/ TurnDown(m) \/ Query(m)
=============================================================================
