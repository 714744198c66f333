---------------------------- MODULE AtomicCommand ----------------------------
(***************************************************************************)
(* What the SDK promises an application about its operations, without keys,*)
(* requests, retries or connections: a command takes effect at most once,  *)
(* only while some call that asked for it is open or ended in doubt, and a *)
(* call that reports success reports an effect.  A call ends as "ok", as   *)
(* "declined" (this call will never take effect) or as "doubt" (it may have*)
(* taken effect, or may still do so).                                      *)
(***************************************************************************)
EXTENDS Naturals

CONSTANTS
    Calls,      \* invocations of a client method
    Mutations,  \* operations that change the billing state
    Queries,    \* operations that do not
    NoOp        \* the operation of a call not made yet

VARIABLES
    applied,    \* how often each command has taken effect
    target,     \* the operation each call was made for
    phase       \* how far each call has come

vars == <<applied, target, phase>>

Init ==
    /\ applied = [o \in Mutations |-> 0]
    /\ target = [c \in Calls |-> NoOp]
    /\ phase = [c \in Calls |-> "idle"]

Invoke(c, o) ==
    /\ phase[c] = "idle"
    /\ target' = [target EXCEPT ![c] = o]
    /\ phase' = [phase EXCEPT ![c] = "open"]
    /\ UNCHANGED applied

\* Arguments that no request is ever sent for.
Dismiss(c, o) ==
    /\ phase[c] = "idle"
    /\ target' = [target EXCEPT ![c] = o]
    /\ phase' = [phase EXCEPT ![c] = "declined"]
    /\ UNCHANGED applied

Apply(o) ==
    /\ applied[o] = 0
    /\ \E c \in Calls : target[c] = o /\ phase[c] \in {"open", "doubt"}
    /\ applied' = [applied EXCEPT ![o] = 1]
    /\ UNCHANGED <<target, phase>>

Succeed(c) ==
    /\ phase[c] = "open"
    /\ target[c] \in Mutations => applied[target[c]] = 1
    /\ phase' = [phase EXCEPT ![c] = "ok"]
    /\ UNCHANGED <<applied, target>>

Decline(c) ==
    /\ phase[c] = "open"
    /\ phase' = [phase EXCEPT ![c] = "declined"]
    /\ UNCHANGED <<applied, target>>

\* Calls end without an answer that settles them: one by an exception, or all
\* open ones with the process that made them.
Abandon(S) ==
    /\ \A c \in S : phase[c] = "open"
    /\ phase' = [c \in Calls |-> IF c \in S THEN "doubt" ELSE phase[c]]
    /\ UNCHANGED <<applied, target>>

Next ==
    \/ \E c \in Calls, o \in Mutations \cup Queries : Invoke(c, o) \/ Dismiss(c, o)
    \/ \E o \in Mutations : Apply(o)
    \/ \E c \in Calls : Succeed(c) \/ Decline(c)
    \/ \E S \in SUBSET Calls : Abandon(S)

Spec == Init /\ [][Next]_vars
=============================================================================
