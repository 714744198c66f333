------------------------------ MODULE PyClient ------------------------------
(***************************************************************************)
(* MizanClient of the Python SDK: every public method ends in _request,    *)
(* which fixes the idempotency key and the serialized body once and then   *)
(* sends them up to max_attempts times.  Calls run on several threads of   *)
(* one application; the application keeps a record of what it asked for,   *)
(* repeats a command only with the key and body it stored, and may crash.  *)
(***************************************************************************)
EXTENDS MizanService

CONSTANTS
    Invalid,    \* operations whose arguments a method refuses with ValueError
    NoOp        \* a call not made yet

ASSUME InvalidAssumption == Invalid \subseteq Ops
ASSUME NoOpAssumption == NoOp \notin Ops

VARIABLES
    draft,      \* the mapping object the application passes for each operation
    intent,     \* what the application has stored of each command: key and body
    frame       \* the local state of _request in each call

clientVars == <<draft, intent, frame>>
vars == <<serviceVars, draft, intent, frame>>

Results == {"ok", "refused", "conflict", "http_error", "retryable", "protocol",
            "unknown", "escaped", "invalid", "crashed"}

\* Mutant: MizanProtocolError does without idempotency_key.
KeyBearingButProtocol == {"refused", "conflict", "http_error", "retryable", "unknown"}

\* Exceptions of _request that carry idempotency_key to the caller.
KeyBearing == {"refused", "conflict", "http_error", "retryable", "protocol", "unknown"}

Frame == [pc : {"idle", "wait", "backoff", "done"},
          op : Ops \cup {NoOp},
          key : Keys \cup {NoKey},
          body : Bodies \cup {NoBody},
          attempt : 0..MaxAttempts,
          result : Results \cup {"none"}]

Uncalled == [pc |-> "idle", op |-> NoOp, key |-> NoKey, body |-> NoBody,
             attempt |-> 0, result |-> "none"]

\* Nothing stored for a command; a stored body without a key is a command whose
\* key only the SDK knows.
Unstored == [key |-> NoKey, body |-> NoBody]

TypeOK ==
    /\ ServiceTypeOK
    /\ draft \in [Mutations -> Bodies]
    /\ intent \in [Ops -> [key : Keys \cup {NoKey}, body : Bodies \cup {NoBody}]]
    /\ frame \in [Calls -> Frame]

Init ==
    /\ ServiceInit
    /\ draft \in [Mutations -> Bodies]
    /\ intent = [o \in Ops |-> Unstored]
    /\ frame = [c \in Calls |-> Uncalled]

Running(c) == frame[c].pc \in {"wait", "backoff"}

-----------------------------------------------------------------------------
(* Entering _request.                                                      *)

\* Mutant: the body is encoded again for every attempt.
ReencodedRequest(c, f, n) ==
    [call |-> c, attempt |-> n, op |-> f.op, key |-> f.key,
     body |-> IF n = 1 THEN f.body ELSE draft[f.op]]

\* Mutant: the Idempotency-Key header is set on the first attempt only.
KeyedOnceRequest(c, f, n) ==
    [call |-> c, attempt |-> n, op |-> f.op,
     key |-> IF n = 1 THEN f.key ELSE NoKey, body |-> f.body]

\* The request of attempt n of a call with local state f.
RequestOf(c, f, n) ==
    [call |-> c, attempt |-> n, op |-> f.op, key |-> f.key, body |-> f.body]

\* Key and encoded body are settled and the first attempt is on the wire.
Enter(c, o, k, b) ==
    LET f == [pc |-> "wait", op |-> o, key |-> k, body |-> b,
              attempt |-> 1, result |-> "none"]
    IN  /\ frame' = [frame EXCEPT ![c] = f]
        /\ Send(RequestOf(c, f, 1))
        /\ UNCHANGED <<recorded, effects>>

\* A key nobody used yet: the application's own, or uuid4.
Fresh(k) == \A c \in Calls : frame[c].key # k

\* A command for the first time.  The application stores the body before it
\* calls, and the key too if it chose one; otherwise the SDK generates it.
FirstCall(c, o) ==
    /\ frame[c].pc = "idle"
    /\ o \in Mutations \ Invalid
    /\ intent[o] = Unstored
    /\ \E k \in Keys, own \in BOOLEAN :
        /\ Fresh(k)
        /\ intent' = [intent EXCEPT ![o] = [key |-> IF own THEN k ELSE NoKey,
                                            body |-> draft[o]]]
        /\ Enter(c, o, k, draft[o])
    /\ UNCHANGED draft

\* The same command again, from the stored key and body.  Nothing stops another
\* thread from doing so while an earlier call is still running.
RepeatCall(c, o) ==
    /\ frame[c].pc = "idle"
    /\ o \in Mutations
    /\ intent[o].key # NoKey
    /\ draft' = [draft EXCEPT ![o] = intent[o].body]
    /\ Enter(c, o, intent[o].key, intent[o].body)
    /\ UNCHANGED intent

ReadCall(c, o) ==
    /\ frame[c].pc = "idle"
    /\ o \in Reads \ Invalid
    /\ Enter(c, o, NoKey, NoBody)
    /\ UNCHANGED <<draft, intent>>

\* Another business than the bound one, a missing identifier or amount: the
\* method raises ValueError before it reaches _request.
InvalidCall(c, o) ==
    /\ frame[c].pc = "idle"
    /\ o \in Invalid
    /\ frame' = [frame EXCEPT ![c] = [Uncalled EXCEPT !.pc = "done", !.op = o,
                                                      !.result = "invalid"]]
    /\ UNCHANGED <<serviceVars, draft, intent>>

-----------------------------------------------------------------------------
(* One turn of the loop in _request.                                       *)

\* The call ends; an exception with a key hands the key to the application.
Return(c, r) ==
    /\ frame' = [frame EXCEPT ![c].pc = "done", ![c].result = r]
    /\ intent' = IF r \in KeyBearing /\ frame[c].op \in Mutations
                 THEN [intent EXCEPT ![frame[c].op].key = frame[c].key]
                 ELSE intent
    /\ HangUp(c)
    /\ UNCHANGED <<recorded, effects, draft>>

\* Mutant: one attempt too many.
MayRetryOnceMore(c) == frame[c].op \in Mutations /\ frame[c].attempt <= MaxAttempts

\* The loop may only go round again for a mutation with attempts left.
MayRetry(c) == frame[c].op \in Mutations /\ frame[c].attempt < MaxAttempts

Sleep(c) ==
    /\ frame' = [frame EXCEPT ![c].pc = "backoff"]
    /\ HangUp(c)
    /\ UNCHANGED <<recorded, effects, draft, intent>>

\* Whether an answer sends the loop round again instead of ending the call.
TryAgain(c) == conn[c].answer = "retryable" /\ MayRetry(c)

\* Mutant: the payload of any JSON object is returned whatever its status.
ResultIgnoringStatus(a) ==
    CASE a = "garbled" -> "protocol"
      [] a = "bare"    -> "ok"
      [] a = "cut"     -> "escaped"
      [] OTHER         -> a

\* Mutant: a non-2xx object without an error code counts as a refusal.
ResultBareRefused(a) ==
    CASE a = "garbled" -> "protocol"
      [] a = "bare"    -> "refused"
      [] a = "cut"     -> "escaped"
      [] OTHER         -> a

\* The exception, or "ok", an answer is turned into.
ResultOf(a) ==
    CASE a = "garbled" -> "protocol"
      [] a = "bare"    -> "http_error"
      [] a = "cut"     -> "escaped"
      [] OTHER         -> a

\* The transport returned, or raised an http.client.HTTPException.
Finish(c) ==
    /\ frame[c].pc = "wait"
    /\ conn[c].answer # "none"
    /\ ~TryAgain(c)
    /\ Return(c, ResultOf(conn[c].answer))

RetryError(c) ==
    /\ frame[c].pc = "wait"
    /\ TryAgain(c)
    /\ Sleep(c)

\* URLError, TimeoutError or OSError from the transport: the request may be
\* unsent, in flight or handled, and an answer on its way is lost.
LoseConnection(c) ==
    /\ frame[c].pc = "wait"
    /\ IF MayRetry(c) THEN Sleep(c) ELSE Return(c, "unknown")

\* Mutant: the attempts are not counted.
SameAttempt(c) == frame[c].attempt

NextAttempt(c) == frame[c].attempt + 1

\* Awake after the jittered delay: the next attempt sends the same key and body.
Resend(c) ==
    /\ frame[c].pc = "backoff"
    /\ frame' = [frame EXCEPT ![c].pc = "wait", ![c].attempt = NextAttempt(c)]
    /\ Send(RequestOf(c, frame[c], NextAttempt(c)))
    /\ UNCHANGED <<recorded, effects, draft, intent>>

-----------------------------------------------------------------------------
(* The application around the client.                                      *)

\* Another thread changes the mapping object while a call that got it runs.
EditDraft(o) ==
    /\ \E c \in Calls : Running(c) /\ frame[c].op = o
    /\ o \in Mutations
    /\ \E b \in Bodies \ {draft[o]} : draft' = [draft EXCEPT ![o] = b]
    /\ UNCHANGED <<serviceVars, intent, frame>>

\* The process dies with every call it was making; what it stored survives.
Crash ==
    /\ \E c \in Calls : Running(c)
    /\ frame' = [c \in Calls |->
                    IF Running(c)
                    THEN [frame[c] EXCEPT !.pc = "done", !.result = "crashed"]
                    ELSE frame[c]]
    /\ conn' = [c \in Calls |-> NotConnected]
    /\ UNCHANGED <<net, recorded, effects, draft, intent>>

-----------------------------------------------------------------------------
Worker == \E m \in net : Handle(m) /\ UNCHANGED clientVars

Begin(c) == \E o \in Ops : FirstCall(c, o) \/ RepeatCall(c, o) \/ ReadCall(c, o) \/ InvalidCall(c, o)

Step(c) == Finish(c) \/ RetryError(c) \/ LoseConnection(c) \/ Resend(c)

Next ==
    \/ \E c \in Calls : Begin(c) \/ Step(c)
    \/ \E o \in Ops : EditDraft(o)
    \/ Worker
    \/ Crash

Spec == Init /\ [][Next]_vars

\* The constructor insists on timeout > 0, so a wait for the transport ends,
\* and a sleep of at most two seconds ends; nothing is assumed of the Worker.
FairSpec == Spec /\ \A c \in Calls : WF_vars(Step(c))

-----------------------------------------------------------------------------
(* Safety.                                                                 *)

\* However often a command is sent, by retries of one call, by later calls or by
\* two threads at once, and however late its requests are handled, the Worker
\* applies it at most once: key and body are fixed before the loop.
AtMostOnce == \A o \in Mutations : effects[o] <= 1

\* A call that returns a payload to the application stands for an applied
\* command, even when the answer was produced by a later attempt.
SuccessIsApplied ==
    \A c \in Calls : frame[c].result = "ok" /\ frame[c].op \in Mutations
                        => effects[frame[c].op] = 1

\* An application that repeats only what it stored never meets
\* IDEMPOTENCY_KEY_REUSED: no attempt differs from the one that committed.
NoSelfConflict == \A c \in Calls : conn[c].answer # "conflict" /\ frame[c].result # "conflict"

CallsOf(o) == {c \in Calls : frame[c].op = o}

\* A refusal may be taken as final when no attempt was left in doubt: if every
\* call of a command was refused on its first attempt, or before it was sent,
\* then it is not applied and no request of it is still under way.
RefusalIsFinal ==
    \A o \in Mutations :
        (\A c \in CallsOf(o) : frame[c].result \in {"refused", "invalid"} /\ frame[c].attempt <= 1)
            => effects[o] = 0 /\ \A m \in net : m.op # o

\* When an exception of the SDK tells the application that a command failed or
\* is in doubt, the application holds the one key that all its calls used.
FailureLeavesTheKey ==
    \A c \in Calls :
        /\ frame[c].op \in Mutations
        /\ frame[c].result \notin {"none", "ok", "invalid", "escaped", "crashed"}
        => \A d \in CallsOf(frame[c].op) : frame[d].key = intent[frame[c].op].key

\* README.md:80 and the docstring at client.py:148 say that after a transport or
\* protocol error the command can be retried with the exception's key.  Then every
\* call that ends by an exception, while the application lives, leaves its key.
EveryFailureLeavesTheKey ==
    \A c \in Calls :
        /\ frame[c].op \in Mutations
        /\ frame[c].result \notin {"none", "ok", "invalid", "crashed"}
        => intent[frame[c].op].key = frame[c].key

-----------------------------------------------------------------------------
(* The promise to the application, and how the client's state keeps it.    *)

\* A refusal settles a call only on its first attempt: an earlier attempt may
\* have been left in doubt, even one that was answered with "retryable".
Settled(f) == f.result = "invalid" \/ (f.result = "refused" /\ f.attempt = 1)

PhaseOf(f) ==
    IF f.pc = "idle" THEN "idle"
    ELSE IF f.pc # "done" THEN "open"
    ELSE IF f.result = "ok" THEN "ok"
    ELSE IF Settled(f) THEN "declined" ELSE "doubt"

Promise == INSTANCE AtomicCommand WITH
    Queries <- Reads,
    applied <- [o \in Mutations |-> effects[o]],
    target  <- [c \in Calls |-> frame[c].op],
    phase   <- [c \in Calls |-> PhaseOf(frame[c])]

\* The request loop, the network and the Worker together behave as one atomic
\* command per operation: every step is a step of AtomicCommand or invisible.
KeepsThePromise == Promise!Spec

-----------------------------------------------------------------------------
(* Liveness.                                                               *)

\* Every call returns: attempts are bounded and each one ends.
CallsReturn == \A c \in Calls : Running(c) ~> frame[c].pc = "done"
=============================================================================
