------------------------------ MODULE GoClient ------------------------------
(***************************************************************************)
(* Client and AdminClient of the Go SDK: requestWithHeaders, the loop that *)
(* every exported method ends in, and the ways into it.  It differs from   *)
(* the Python loop in three things.  A context can expire while a call     *)
(* runs; a response that cannot be read is a transport failure like any    *)
(* other; and ConfigureAddon hands its idempotency key on as it is, also   *)
(* when it is empty.                                                       *)
(***************************************************************************)
EXTENDS MizanService

CONSTANTS
    Unkeyed,    \* mutations whose method generates no key: ConfigureAddon
    Invalid,    \* operations a method refuses before any HTTP call
    NoOp        \* a call not made yet

ASSUME UnkeyedAssumption == Unkeyed \subseteq Ops \ Reads
ASSUME InvalidAssumption == Invalid \subseteq Ops
ASSUME NoOpAssumption == NoOp \notin Ops

VARIABLES
    intent,     \* what the application has stored of each command: key and body
    frame,      \* the local state of requestWithHeaders in each call
    expired     \* whether the context of a call is done

clientVars == <<intent, frame, expired>>
vars == <<serviceVars, intent, frame, expired>>

\* Mutations whose method guarantees a key.
Commands == Mutations \ Unkeyed

Results == {"ok", "refused", "conflict", "http_error", "retryable", "protocol",
            "unknown", "cancelled", "invalid", "crashed"}

\* Mutant: a ProtocolError does without IdempotencyKey.
KeyBearingButProtocol == {"refused", "conflict", "http_error", "retryable", "unknown"}

\* The SDK's own error types, which have an IdempotencyKey; ctx.Err() has none.
KeyBearing == {"refused", "conflict", "http_error", "retryable", "protocol", "unknown"}

Frame == [pc : {"idle", "wait", "backoff", "done"},
          op : Ops \cup {NoOp},
          key : Keys \cup {NoKey},
          body : Bodies \cup {NoBody},
          attempt : 0..MaxAttempts,
          result : Results \cup {"none"}]

Uncalled == [pc |-> "idle", op |-> NoOp, key |-> NoKey, body |-> NoBody,
             attempt |-> 0, result |-> "none"]

Unstored == [key |-> NoKey, body |-> NoBody]

TypeOK ==
    /\ ServiceTypeOK
    /\ intent \in [Ops -> [key : Keys \cup {NoKey}, body : Bodies \cup {NoBody}]]
    /\ frame \in [Calls -> Frame]
    /\ expired \in [Calls -> BOOLEAN]

Init ==
    /\ ServiceInit
    /\ intent = [o \in Ops |-> Unstored]
    /\ frame = [c \in Calls |-> Uncalled]
    /\ expired = [c \in Calls |-> FALSE]

Running(c) == frame[c].pc \in {"wait", "backoff"}

-----------------------------------------------------------------------------
(* Into the loop.                                                          *)

\* Mutant: the header is set on the first attempt only.
KeyedOnceRequest(c, f, n) ==
    [call |-> c, attempt |-> n, op |-> f.op,
     key |-> IF n = 1 THEN f.key ELSE NoKey, body |-> f.body]

\* The request of attempt n of a call with local state f.
RequestOf(c, f, n) ==
    [call |-> c, attempt |-> n, op |-> f.op, key |-> f.key, body |-> f.body]

\* The input is encoded once and the first attempt is on the wire; under a context
\* that is done already, Do fails before it sends anything.
Enter(c, o, k, b) ==
    LET f == [pc |-> "wait", op |-> o, key |-> k, body |-> b,
              attempt |-> 1, result |-> "none"]
    IN  /\ frame' = [frame EXCEPT ![c] = f]
        /\ \/ Send(RequestOf(c, f, 1)) /\ UNCHANGED expired
           \/ UNCHANGED <<net, conn>> /\ expired' = [expired EXCEPT ![c] = TRUE]
        /\ UNCHANGED <<recorded, effects>>

Fresh(k) == \A c \in Calls : frame[c].key # k

\* A key of the application's own, or the one mutate makes up for an empty one.
KeyFor(o, k, own) == IF own \/ o \in Commands THEN k ELSE NoKey

FirstCall(c, o) ==
    /\ frame[c].pc = "idle"
    /\ o \in Mutations \ Invalid
    /\ intent[o] = Unstored
    /\ \E k \in Keys, b \in Bodies, own \in BOOLEAN :
        /\ Fresh(k)
        /\ intent' = [intent EXCEPT ![o] = [key |-> IF own THEN k ELSE NoKey, body |-> b]]
        /\ Enter(c, o, KeyFor(o, k, own), b)

\* The application repeats a command only with the key and input it stored.
RepeatCall(c, o) ==
    /\ frame[c].pc = "idle"
    /\ o \in Mutations
    /\ intent[o].key # NoKey
    /\ Enter(c, o, intent[o].key, intent[o].body)
    /\ UNCHANGED intent

ReadCall(c, o) ==
    /\ frame[c].pc = "idle"
    /\ o \in Reads \ Invalid
    /\ Enter(c, o, NoKey, NoBody)
    /\ UNCHANGED intent

\* Another business than the client's, a missing code, actor or kind, a bad page.
InvalidCall(c, o) ==
    /\ frame[c].pc = "idle"
    /\ o \in Invalid
    /\ frame' = [frame EXCEPT ![c] = [Uncalled EXCEPT !.pc = "done", !.op = o,
                                                      !.result = "invalid"]]
    /\ UNCHANGED <<serviceVars, intent, expired>>

-----------------------------------------------------------------------------
(* One turn of the loop.                                                   *)

\* An error of the SDK hands the key to the application.
Return(c, r) ==
    /\ frame' = [frame EXCEPT ![c].pc = "done", ![c].result = r]
    /\ intent' = IF r \in KeyBearing /\ frame[c].op \in Mutations
                 THEN [intent EXCEPT ![frame[c].op].key = frame[c].key]
                 ELSE intent
    /\ HangUp(c)
    /\ UNCHANGED <<recorded, effects, expired>>

\* Mutant: one attempt too many.
MayRetryOnceMore(c) == frame[c].op \in Mutations /\ frame[c].attempt <= MaxAttempts

MayRetry(c) == frame[c].op \in Mutations /\ frame[c].attempt < MaxAttempts

Pause(c) ==
    /\ frame' = [frame EXCEPT ![c].pc = "backoff"]
    /\ HangUp(c)
    /\ UNCHANGED <<recorded, effects, intent, expired>>

TryAgain(c) == conn[c].answer = "retryable" /\ MayRetry(c)

\* Mutant: the status code is not looked at.
ResultIgnoringStatus(a) ==
    CASE a = "garbled" -> "protocol"
      [] a = "bare"    -> "ok"
      [] OTHER         -> a

\* Mutant: a non-2xx object without an error code counts as a refusal.
ResultBareRefused(a) ==
    CASE a = "garbled" -> "protocol"
      [] a = "bare"    -> "refused"
      [] OTHER         -> a

\* A body without a usable error object still makes an APIError, HTTP_ERROR.
ResultOf(a) ==
    CASE a = "garbled" -> "protocol"
      [] a = "bare"    -> "http_error"
      [] OTHER         -> a

\* The response was read to its end.
Finish(c) ==
    /\ frame[c].pc = "wait"
    /\ conn[c].answer \notin {"none", "cut"}
    /\ ~TryAgain(c)
    /\ Return(c, ResultOf(conn[c].answer))

RetryError(c) ==
    /\ frame[c].pc = "wait"
    /\ TryAgain(c)
    /\ Pause(c)

Fail(c) == IF MayRetry(c) THEN Pause(c) ELSE Return(c, "unknown")

\* Do fails or the body cannot be read: timeout, reset, broken response.
LoseConnection(c) ==
    /\ frame[c].pc = "wait"
    /\ Fail(c)

\* Mutant: the request is made without the context.
FailWithoutContext(c) == FALSE

\* A done context makes Do, or the reading of the body, fail.
FailExpired(c) ==
    /\ frame[c].pc = "wait"
    /\ expired[c]
    /\ Fail(c)

\* The delay has passed.  When the context is done as well, select may still
\* choose the timer; Do then fails before it sends anything.
Resend(c) ==
    LET n == frame[c].attempt + 1
    IN  /\ frame[c].pc = "backoff"
        /\ frame' = [frame EXCEPT ![c].pc = "wait", ![c].attempt = n]
        /\ IF expired[c] THEN UNCHANGED <<net, conn>>
                         ELSE Send(RequestOf(c, frame[c], n))
        /\ UNCHANGED <<recorded, effects, intent, expired>>

\* The context is done during the delay: ctx.Err() is returned as it is.
Abort(c) ==
    /\ frame[c].pc = "backoff"
    /\ expired[c]
    /\ Return(c, "cancelled")

-----------------------------------------------------------------------------
(* The application.                                                        *)

\* A deadline passes or the caller cancels.
Expire(c) ==
    /\ Running(c)
    /\ ~expired[c]
    /\ expired' = [expired EXCEPT ![c] = TRUE]
    /\ UNCHANGED <<serviceVars, intent, frame>>

Crash ==
    /\ \E c \in Calls : Running(c)
    /\ frame' = [c \in Calls |->
                    IF Running(c)
                    THEN [frame[c] EXCEPT !.pc = "done", !.result = "crashed"]
                    ELSE frame[c]]
    /\ conn' = [c \in Calls |-> NotConnected]
    /\ UNCHANGED <<net, recorded, effects, intent, expired>>

-----------------------------------------------------------------------------
Worker == \E m \in net : Handle(m) /\ UNCHANGED clientVars

Begin(c) == \E o \in Ops : FirstCall(c, o) \/ RepeatCall(c, o) \/ ReadCall(c, o) \/ InvalidCall(c, o)

Step(c) == Finish(c) \/ RetryError(c) \/ LoseConnection(c) \/ Resend(c) \/ Abort(c)

Next ==
    \/ \E c \in Calls : Begin(c) \/ Step(c) \/ Expire(c)
    \/ Worker
    \/ Crash

Spec == Init /\ [][Next]_vars

\* A done context ends a wait and a response that arrived is read; a delay ends.
\* Nothing else is assumed: HTTPClient may be one without a timeout, and the
\* Worker may never answer.
FairSpec ==
    /\ Spec
    /\ \A c \in Calls : /\ WF_vars(Finish(c) \/ RetryError(c) \/ FailExpired(c))
                        /\ WF_vars(Resend(c) \/ Abort(c))

-----------------------------------------------------------------------------
(* Safety.                                                                 *)

\* A command whose method guarantees a key is applied at most once.
AtMostOnce == \A o \in Commands : effects[o] <= 1

\* README.md of the SDK, line 102: the client adds mutation idempotency headers.
\* Then no mutation is on the wire without one.
EveryMutationIsKeyed == \A m \in net : m.op \in Mutations => m.key \in Keys

\* README.md:80 and mizan.go:566: an unknown outcome is reported with the key to
\* retry it with.  Then every error that ends a command leaves the key.
EveryFailureLeavesTheKey ==
    \A c \in Calls :
        /\ frame[c].op \in Commands
        /\ frame[c].result \notin {"none", "ok", "invalid", "crashed"}
        => intent[frame[c].op].key = frame[c].key

\* An error of the SDK's own types leaves the application with the one key that
\* all calls of the command used.
FailureLeavesTheKey ==
    \A c \in Calls :
        /\ frame[c].op \in Commands
        /\ frame[c].result \notin {"none", "ok", "invalid", "cancelled", "crashed"}
        => \A d \in Calls : frame[d].op = frame[c].op => frame[d].key = intent[frame[c].op].key

CallsOf(o) == {c \in Calls : frame[c].op = o}

\* A command is refused for good when no attempt was left in doubt: all its calls
\* were refused on the first attempt, or before there was one.  It is not applied,
\* and no request of it is under way that could still be.
RefusalIsFinal ==
    \A o \in Commands :
        (\A c \in CallsOf(o) : frame[c].result \in {"refused", "invalid"} /\ frame[c].attempt <= 1)
            => effects[o] = 0 /\ \A m \in net : m.op # o

-----------------------------------------------------------------------------
(* The promise to the application.  Unkeyed mutations are not part of it.  *)

\* A refusal settles a call only on its first attempt.
Settled(f) == f.result = "invalid" \/ (f.result = "refused" /\ f.attempt = 1)

PhaseOf(f) ==
    IF f.pc = "idle" THEN "idle"
    ELSE IF f.pc # "done" THEN "open"
    ELSE IF f.result = "ok" THEN "ok"
    ELSE IF Settled(f) THEN "declined" ELSE "doubt"

Promise == INSTANCE AtomicCommand WITH
    Mutations <- Commands,
    Queries <- Reads \cup Unkeyed,
    applied <- [o \in Commands |-> effects[o]],
    target  <- [c \in Calls |-> frame[c].op],
    phase   <- [c \in Calls |-> PhaseOf(frame[c])]

\* The Go loop keeps the same promise as the Python one, contexts included.
KeepsThePromise == Promise!Spec

-----------------------------------------------------------------------------
(* Liveness.                                                               *)

\* An expired context ends its call, even over a client without a timeout.
ExpiredCallsReturn == \A c \in Calls : Running(c) /\ expired[c] ~> frame[c].pc = "done"
=============================================================================
