--------------------------- MODULE PyClientProofs ---------------------------
(***************************************************************************)
(* Theorems about PyClient for every set of calls, operations, keys and    *)
(* bodies and every number of attempts: its invariants first, then that it *)
(* implements AtomicCommand.                                               *)
(*                                                                         *)
(* The argument: all calls of one command carry the same key and body, and *)
(* no other command carries that key (Identity); every request on the wire *)
(* is a copy of the call that sent it (Wire); hence what the Worker has    *)
(* recorded under the key of a call says exactly how often the operation   *)
(* of that call has been applied (Ledgered).                               *)
(***************************************************************************)
EXTENDS PyClient, TLAPS

\* The calls that brought a command to the wire.
Submitted(c) == frame[c].key \in Keys

\* A call not made has its initial frame; one in progress has an operation, and a
\* key if that is a command; only commands with attempts left ever sleep.
Frames ==
    \A c \in Calls :
        /\ frame[c].pc = "idle" => frame[c] = Uncalled
        /\ Running(c) => frame[c].op \in Ops
        /\ Running(c) /\ frame[c].op \in Mutations => Submitted(c)
        /\ frame[c].pc = "backoff" => frame[c].op \in Mutations /\ frame[c].attempt < MaxAttempts

\* A submitted call carries the body the application stored for its operation.
Stored ==
    /\ \A c \in Calls : Submitted(c) =>
            /\ frame[c].op \in Mutations
            /\ frame[c].body \in Bodies
            /\ intent[frame[c].op].body = frame[c].body
    /\ \A o \in Ops : intent[o].key # NoKey =>
            /\ intent[o].body \in Bodies
            /\ \E c \in Calls : frame[c].op = o /\ frame[c].key = intent[o].key

\* Submitted calls share a key exactly when they share the operation.
Identity ==
    \A c, d \in Calls : Submitted(c) /\ Submitted(d) =>
        (frame[c].key = frame[d].key <=> frame[c].op = frame[d].op)

\* A request is a copy of the call that sent it, and commands are keyed.
Wire ==
    \A m \in net :
        /\ m.op = frame[m.call].op
        /\ m.key = frame[m.call].key
        /\ m.body = frame[m.call].body
        /\ m.op \in Mutations => m.key \in Keys

\* Only a call that waits has a connection.
Connected ==
    \A c \in Calls :
        /\ frame[c].pc # "wait" => conn[c] = NotConnected
        /\ conn[c].attempt = 0 => conn[c].answer = "none"

\* The record under the key of a call tells how often its operation was applied.
Ledgered ==
    /\ \A c \in Calls : Submitted(c) =>
            /\ recorded[frame[c].key] \in {NoBody, frame[c].body}
            /\ effects[frame[c].op] = IF recorded[frame[c].key] = NoBody THEN 0 ELSE 1
    /\ \A k \in Keys : recorded[k] # NoBody => \E c \in Calls : frame[c].key = k
    /\ \A o \in Mutations : effects[o] # 0 => \E c \in Calls : Submitted(c) /\ frame[c].op = o

\* "ok" is said, or about to be said, of applied commands only; no conflict is.
Truthful ==
    \A c \in Calls :
        /\ frame[c].op \in Mutations /\ (conn[c].answer = "ok" \/ frame[c].result = "ok")
                => effects[frame[c].op] = 1
        /\ conn[c].answer # "conflict"
        /\ frame[c].result # "conflict"

IInv == TypeOK /\ Frames /\ Stored /\ Identity /\ Wire /\ Connected /\ Ledgered /\ Truthful

-----------------------------------------------------------------------------
USE KeyAssumption, BodyAssumption, AttemptsAssumption, NoOpAssumption, ReadsAssumption
USE DEF Mutations, Answers, Damaged, Request, NotConnected, Results, Frame, Uncalled, Unstored

\* The initial states satisfy the inductive invariant.
LEMMA InitInv == Init => IInv
<1> SUFFICES ASSUME Init PROVE IInv
  OBVIOUS
<1> USE DEF Init, ServiceInit
<1>1. TypeOK
  BY DEF TypeOK, ServiceTypeOK
<1>2. Frames /\ Stored /\ Identity
  BY DEF Frames, Stored, Identity, Submitted, Running
<1>3. Wire /\ Connected /\ Ledgered /\ Truthful
  BY DEF Wire, Connected, Ledgered, Truthful, Submitted
<1> QED
  BY <1>1, <1>2, <1>3 DEF IInv

\* A call enters the loop with a key and body that fit its operation, as the
\* first of its command or as one more of those that share them.
LEMMA FirstCallInv ==
    ASSUME IInv, NEW c \in Calls, NEW o \in Ops, FirstCall(c, o)
    PROVE  IInv'
<1> PICK k \in Keys, own \in BOOLEAN :
        /\ Fresh(k)
        /\ intent' = [intent EXCEPT ![o] = [key |-> IF own THEN k ELSE NoKey, body |-> draft[o]]]
        /\ Enter(c, o, k, draft[o])
  BY DEF FirstCall
<1>0. /\ frame[c] = Uncalled
      /\ o \in Mutations
      /\ draft[o] \in Bodies
      /\ intent[o] = Unstored
      /\ UNCHANGED <<draft, recorded, effects>>
  BY DEF FirstCall, IInv, Frames, TypeOK, Enter
<1> DEFINE f == [pc |-> "wait", op |-> o, key |-> k, body |-> draft[o], attempt |-> 1, result |-> "none"]
           r == [call |-> c, attempt |-> 1, op |-> o, key |-> k, body |-> draft[o]]
<1>1. /\ frame' = [frame EXCEPT ![c] = f]
      /\ net' = net \cup {r}
      /\ conn' = [conn EXCEPT ![c] = [attempt |-> 1, answer |-> "none"]]
  BY DEF Enter, Send, RequestOf
<1>2. \A d \in Calls : Submitted(d) => frame[d].op # o
  BY <1>0 DEF IInv, Stored
<1>3. effects[o] = 0 /\ recorded[k] = NoBody
  BY <1>0, <1>2 DEF IInv, Ledgered, Fresh, TypeOK, ServiceTypeOK
<1>4. TypeOK'
  BY <1>0, <1>1 DEF IInv, TypeOK, ServiceTypeOK
<1>5. Frames'
  BY <1>0, <1>1 DEF IInv, Frames, TypeOK, Submitted, Running
<1>6. Stored'
  BY <1>0, <1>1, <1>2 DEF IInv, Stored, TypeOK, Submitted
<1>7. Identity'
  BY <1>0, <1>1, <1>2 DEF IInv, Identity, TypeOK, Submitted, Fresh
<1>8. Wire'
  BY <1>0, <1>1 DEF IInv, Wire, TypeOK, ServiceTypeOK
<1>9. Connected'
  BY <1>0, <1>1 DEF IInv, Connected, TypeOK, ServiceTypeOK
<1>10. Ledgered'
  BY <1>0, <1>1, <1>2, <1>3 DEF IInv, Ledgered, TypeOK, ServiceTypeOK, Submitted, Fresh
<1>11. Truthful'
  BY <1>0, <1>1 DEF IInv, Truthful, TypeOK, ServiceTypeOK
<1> QED
  BY <1>4, <1>5, <1>6, <1>7, <1>8, <1>9, <1>10, <1>11 DEF IInv

\* A repeated call carries what is stored, so it agrees with the calls before it.
LEMMA RepeatCallInv ==
    ASSUME IInv, NEW c \in Calls, NEW o \in Ops, RepeatCall(c, o)
    PROVE  IInv'
<1> DEFINE k == intent[o].key
           b == intent[o].body
           f == [pc |-> "wait", op |-> o, key |-> k, body |-> b, attempt |-> 1, result |-> "none"]
           r == [call |-> c, attempt |-> 1, op |-> o, key |-> k, body |-> b]
<1>0. /\ frame[c] = Uncalled
      /\ o \in Mutations
      /\ draft' = [draft EXCEPT ![o] = b]
      /\ UNCHANGED <<intent, recorded, effects>>
  BY DEF RepeatCall, IInv, Frames, Enter
<1>1. /\ frame' = [frame EXCEPT ![c] = f]
      /\ net' = net \cup {r}
      /\ conn' = [conn EXCEPT ![c] = [attempt |-> 1, answer |-> "none"]]
  BY DEF RepeatCall, Enter, Send, RequestOf
<1>2. PICK d \in Calls : frame[d].op = o /\ frame[d].key = k
  BY DEF RepeatCall, IInv, Stored
<1>3. k \in Keys /\ b \in Bodies /\ Submitted(d) /\ c # d /\ frame[d].body = b
  BY <1>0, <1>2 DEF RepeatCall, IInv, Stored, TypeOK, Submitted
<1> HIDE DEF k, b
<1>4. TypeOK'
  BY <1>0, <1>1, <1>3 DEF IInv, TypeOK, ServiceTypeOK
<1>5. Frames'
  BY <1>0, <1>1, <1>3 DEF IInv, Frames, TypeOK, Submitted, Running
<1>6. Stored'
  BY <1>0, <1>1, <1>3 DEF IInv, Stored, TypeOK, Submitted, k, b
<1>7. Identity'
  BY <1>0, <1>1, <1>2, <1>3 DEF IInv, Identity, TypeOK, Submitted
<1>8. Wire'
  BY <1>0, <1>1, <1>3 DEF IInv, Wire, TypeOK, ServiceTypeOK
<1>9. Connected'
  BY <1>0, <1>1 DEF IInv, Connected, TypeOK, ServiceTypeOK
<1>10. Ledgered'
  BY <1>0, <1>1, <1>2, <1>3 DEF IInv, Ledgered, TypeOK, ServiceTypeOK, Submitted
<1>11. Truthful'
  BY <1>0, <1>1 DEF IInv, Truthful, TypeOK, ServiceTypeOK
<1> QED
  BY <1>4, <1>5, <1>6, <1>7, <1>8, <1>9, <1>10, <1>11 DEF IInv

\* A read sends no key, and touches nothing that commands share.
LEMMA ReadCallInv ==
    ASSUME IInv, NEW c \in Calls, NEW o \in Ops, ReadCall(c, o)
    PROVE  IInv'
<1> DEFINE f == [pc |-> "wait", op |-> o, key |-> NoKey, body |-> NoBody,
                 attempt |-> 1, result |-> "none"]
           r == [call |-> c, attempt |-> 1, op |-> o, key |-> NoKey, body |-> NoBody]
<1>0. /\ frame[c] = Uncalled
      /\ o \notin Mutations
      /\ UNCHANGED <<draft, intent, recorded, effects>>
  BY DEF ReadCall, IInv, Frames, Enter
<1>1. /\ frame' = [frame EXCEPT ![c] = f]
      /\ net' = net \cup {r}
      /\ conn' = [conn EXCEPT ![c] = [attempt |-> 1, answer |-> "none"]]
  BY DEF ReadCall, Enter, Send, RequestOf
<1>2. TypeOK'
  BY <1>0, <1>1 DEF IInv, TypeOK, ServiceTypeOK
<1>3. Frames'
  BY <1>0, <1>1 DEF IInv, Frames, TypeOK, Submitted, Running
<1>4. Stored' /\ Identity'
  BY <1>0, <1>1 DEF IInv, Stored, Identity, TypeOK, Submitted
<1>5. Wire' /\ Connected'
  BY <1>0, <1>1 DEF IInv, Wire, Connected, TypeOK, ServiceTypeOK
<1>6. Ledgered'
  BY <1>0, <1>1 DEF IInv, Ledgered, TypeOK, ServiceTypeOK, Submitted
<1>7. Truthful'
  BY <1>0, <1>1 DEF IInv, Truthful, TypeOK, ServiceTypeOK
<1> QED
  BY <1>2, <1>3, <1>4, <1>5, <1>6, <1>7 DEF IInv

\* A call refused locally never becomes a submitted one.
LEMMA InvalidCallInv ==
    ASSUME IInv, NEW c \in Calls, NEW o \in Ops, InvalidCall(c, o)
    PROVE  IInv'
<1>0. /\ frame[c] = Uncalled
      /\ frame' = [frame EXCEPT ![c] = [Uncalled EXCEPT !.pc = "done", !.op = o,
                                                        !.result = "invalid"]]
      /\ UNCHANGED <<serviceVars, draft, intent>>
  BY DEF InvalidCall, IInv, Frames
<1> USE DEF serviceVars
<1>1. TypeOK'
  BY <1>0 DEF IInv, TypeOK, ServiceTypeOK
<1>2. Frames'
  BY <1>0 DEF IInv, Frames, TypeOK, Submitted, Running
<1>3. Stored' /\ Identity'
  BY <1>0 DEF IInv, Stored, Identity, TypeOK, Submitted
<1>4. Wire' /\ Connected'
  BY <1>0 DEF IInv, Wire, Connected, TypeOK, ServiceTypeOK
<1>5. Ledgered' /\ Truthful'
  BY <1>0 DEF IInv, Ledgered, Truthful, Connected, TypeOK, ServiceTypeOK, Submitted
<1> QED
  BY <1>1, <1>2, <1>3, <1>4, <1>5 DEF IInv

-----------------------------------------------------------------------------
\* Ledgered looks at the identities of the calls, not at how far they have come.
LEMMA SameLedger ==
    ASSUME Ledgered, UNCHANGED <<recorded, effects>>,
           \A d \in Calls : /\ frame'[d].op = frame[d].op
                           /\ frame'[d].key = frame[d].key
                           /\ frame'[d].body = frame[d].body
    PROVE  Ledgered'
<1>1. \A d \in Calls : Submitted(d)' <=> Submitted(d)
  BY DEF Submitted
<1>2. recorded' = recorded /\ effects' = effects
  OBVIOUS
<1>3. (\A d \in Calls : Submitted(d) =>
            /\ recorded[frame[d].key] \in {NoBody, frame[d].body}
            /\ effects[frame[d].op] = IF recorded[frame[d].key] = NoBody THEN 0 ELSE 1)'
  BY <1>1, <1>2 DEF Ledgered
<1>4. (\A k \in Keys : recorded[k] # NoBody => \E d \in Calls : frame[d].key = k)'
  BY <1>2 DEF Ledgered
<1>5. (\A o \in Mutations : effects[o] # 0 => \E d \in Calls : Submitted(d) /\ frame[d].op = o)'
  BY <1>1, <1>2 DEF Ledgered
<1> QED
  BY <1>3, <1>4, <1>5 DEF Ledgered

\* A running call ends without saying more than the answer it got.
LEMMA ReturnInv ==
    ASSUME IInv, NEW c \in Calls, Running(c), NEW r \in Results, Return(c, r),
           r # "conflict",
           r = "ok" /\ frame[c].op \in Mutations => effects[frame[c].op] = 1
    PROVE  IInv'
<1>0. /\ frame' = [frame EXCEPT ![c].pc = "done", ![c].result = r]
      /\ conn' = [conn EXCEPT ![c] = NotConnected]
      /\ UNCHANGED <<net, recorded, effects, draft>>
      /\ \/ intent' = intent
         \/ /\ Submitted(c)
            /\ intent' = [intent EXCEPT ![frame[c].op].key = frame[c].key]
  BY DEF Return, HangUp, IInv, Frames
<1>1. TypeOK'
  <2>0. frame[c] \in Frame
    BY DEF IInv, TypeOK
  <2>1. frame' \in [Calls -> Frame]
    <3>1. frame' = [frame EXCEPT ![c] = [frame[c] EXCEPT !.pc = "done", !.result = r]]
      BY <1>0 DEF IInv, TypeOK
    <3>2. [frame[c] EXCEPT !.pc = "done", !.result = r] \in Frame
      BY <2>0
    <3> QED
      BY <3>1, <3>2 DEF IInv, TypeOK
  <2>2. ServiceTypeOK' /\ draft' \in [Mutations -> Bodies]
    BY <1>0 DEF IInv, TypeOK, ServiceTypeOK
  <2>3. intent' \in [Ops -> [key : Keys \cup {NoKey}, body : Bodies \cup {NoBody}]]
    BY <1>0, <2>0 DEF IInv, TypeOK
  <2> QED
    BY <2>1, <2>2, <2>3 DEF TypeOK
<1>2. Frames'
  BY <1>0 DEF IInv, Frames, TypeOK, Submitted, Running
<1>3. Stored'
  <2>1. /\ \A d \in Calls : /\ frame'[d].op = frame[d].op
                             /\ frame'[d].key = frame[d].key
                             /\ frame'[d].body = frame[d].body
    BY <1>0 DEF IInv, TypeOK
  <2>2. CASE intent' = intent
    BY <2>1, <2>2 DEF IInv, Stored, Submitted
  <2>3. CASE Submitted(c) /\ intent' = [intent EXCEPT ![frame[c].op].key = frame[c].key]
    <3>1. \A o \in Ops : intent'[o].body = intent[o].body
      BY <2>3 DEF IInv, TypeOK
    <3>2. \A o \in Ops \ {frame[c].op} : intent'[o] = intent[o]
      BY <2>3 DEF IInv, TypeOK
    <3>3. frame[c].op \in Ops => intent'[frame[c].op].key = frame[c].key
      BY <2>3 DEF IInv, TypeOK
    <3> QED
      BY <2>1, <2>3, <3>1, <3>2, <3>3 DEF IInv, Stored, Submitted
  <2> QED
    BY <1>0, <2>2, <2>3
<1>4. Identity'
  BY <1>0 DEF IInv, Identity, TypeOK, Submitted
<1>5. Wire' /\ Connected'
  BY <1>0 DEF IInv, Wire, Connected, TypeOK, ServiceTypeOK
<1>6. Ledgered'
  <2>1. \A d \in Calls : /\ frame'[d].op = frame[d].op
                         /\ frame'[d].key = frame[d].key
                         /\ frame'[d].body = frame[d].body
    BY <1>0 DEF IInv, TypeOK
  <2> QED
    BY <2>1, SameLedger, <1>0 DEF IInv
<1>7. Truthful'
  BY <1>0 DEF IInv, Truthful, TypeOK, ServiceTypeOK
<1> QED
  BY <1>1, <1>2, <1>3, <1>4, <1>5, <1>6, <1>7 DEF IInv

\* Sleeping changes where the call is, and nothing that it carries.
LEMMA SleepInv ==
    ASSUME IInv, NEW c \in Calls, Running(c), MayRetry(c), Sleep(c)
    PROVE  IInv'
<1>0. /\ frame' = [frame EXCEPT ![c].pc = "backoff"]
      /\ conn' = [conn EXCEPT ![c] = NotConnected]
      /\ UNCHANGED <<net, recorded, effects, draft, intent>>
  BY DEF Sleep, HangUp
<1>1. TypeOK'
  <2>1. frame' \in [Calls -> Frame]
    <3>1. frame[c] \in Frame
      BY DEF IInv, TypeOK
    <3>2. [frame[c] EXCEPT !.pc = "backoff"] \in Frame
      BY <3>1
    <3> QED
      BY <1>0, <3>2 DEF IInv, TypeOK
  <2> QED
    BY <1>0, <2>1 DEF IInv, TypeOK, ServiceTypeOK
<1>2. Frames'
  BY <1>0 DEF IInv, Frames, TypeOK, Submitted, Running, MayRetry
<1>3. Stored' /\ Identity'
  BY <1>0 DEF IInv, Stored, Identity, TypeOK, Submitted
<1>4. Wire' /\ Connected'
  BY <1>0 DEF IInv, Wire, Connected, TypeOK, ServiceTypeOK
<1>5. Ledgered' /\ Truthful'
  BY <1>0 DEF IInv, Ledgered, Truthful, TypeOK, ServiceTypeOK, Submitted
<1> QED
  BY <1>1, <1>2, <1>3, <1>4, <1>5 DEF IInv

\* A call ends with what its connection was told.
LEMMA FinishInv ==
    ASSUME IInv, NEW c \in Calls, Finish(c)
    PROVE  IInv'
<1> DEFINE a == conn[c].answer
<1>1. a \in Answers /\ a # "conflict"
  BY DEF Finish, IInv, TypeOK, ServiceTypeOK, Truthful
<1>2. ResultOf(a) \in Results /\ ResultOf(a) # "conflict" /\ (ResultOf(a) = "ok" => a = "ok")
  BY <1>1 DEF ResultOf
<1> QED
  BY <1>2, ReturnInv DEF Finish, Running, IInv, Truthful

\* A lost connection leaves the request on the wire.
LEMMA LoseConnectionInv ==
    ASSUME IInv, NEW c \in Calls, LoseConnection(c)
    PROVE  IInv'
<1>1. CASE MayRetry(c)
  BY <1>1, SleepInv DEF LoseConnection, Running
<1>2. CASE ~MayRetry(c)
  BY <1>2, ReturnInv DEF LoseConnection, Running
<1> QED
  BY <1>1, <1>2

\* The next attempt is another copy of the same call.
LEMMA ResendInv ==
    ASSUME IInv, NEW c \in Calls, Resend(c)
    PROVE  IInv'
<1> DEFINE n == frame[c].attempt + 1
           r == [call |-> c, attempt |-> n, op |-> frame[c].op,
                 key |-> frame[c].key, body |-> frame[c].body]
<1>0. /\ frame' = [frame EXCEPT ![c].pc = "wait", ![c].attempt = n]
      /\ net' = net \cup {r}
      /\ conn' = [conn EXCEPT ![c] = [attempt |-> n, answer |-> "none"]]
      /\ UNCHANGED <<recorded, effects, draft, intent>>
  BY DEF Resend, Send, RequestOf, NextAttempt
<1>1. /\ frame[c].op \in Mutations
      /\ Submitted(c)
      /\ n \in 1..MaxAttempts
  BY DEF Resend, Running, IInv, Frames, TypeOK
<1> HIDE DEF n
<1>2. TypeOK'
  <2>1. frame[c] \in Frame /\ frame' \in [Calls -> Frame]
    <3>1. frame[c] \in Frame
      BY DEF IInv, TypeOK
    <3>2. frame' = [frame EXCEPT ![c] = [frame[c] EXCEPT !.pc = "wait", !.attempt = n]]
      BY <1>0 DEF IInv, TypeOK
    <3>3. n \in 0..MaxAttempts
      BY <1>1
    <3>4. [frame[c] EXCEPT !.pc = "wait", !.attempt = n] \in Frame
      BY <3>1, <3>3
    <3> QED
      BY <3>1, <3>2, <3>4 DEF IInv, TypeOK
  <2>2. r \in Request
    BY <1>1, <2>1
  <2>3. ServiceTypeOK'
    BY <1>0, <1>1, <2>2 DEF IInv, TypeOK, ServiceTypeOK
  <2> QED
    BY <1>0, <2>1, <2>3 DEF IInv, TypeOK
<1>3. Frames'
  BY <1>0, <1>1 DEF IInv, Frames, TypeOK, Submitted, Running
<1>4. Stored' /\ Identity'
  BY <1>0 DEF IInv, Stored, Identity, TypeOK, Submitted
<1>5. Wire' /\ Connected'
  BY <1>0, <1>1 DEF IInv, Wire, Connected, TypeOK, ServiceTypeOK, Submitted
<1>6. Ledgered'
  <2>1. \A d \in Calls : /\ frame'[d].op = frame[d].op
                         /\ frame'[d].key = frame[d].key
                         /\ frame'[d].body = frame[d].body
    BY <1>0 DEF IInv, TypeOK
  <2> QED
    BY <2>1, SameLedger, <1>0 DEF IInv
<1>7. Truthful'
  BY <1>0 DEF IInv, Truthful, TypeOK, ServiceTypeOK
<1> QED
  BY <1>2, <1>3, <1>4, <1>5, <1>6, <1>7 DEF IInv

-----------------------------------------------------------------------------
\* Another thread's edit of the mapping object reaches nothing that was encoded.
LEMMA EditDraftInv ==
    ASSUME IInv, NEW o \in Ops, EditDraft(o)
    PROVE  IInv'
<1>1. /\ draft' \in [Mutations -> Bodies]
      /\ UNCHANGED <<net, conn, recorded, effects, intent, frame>>
  BY DEF EditDraft, serviceVars, IInv, TypeOK
<1> QED
  BY <1>1 DEF IInv, TypeOK, ServiceTypeOK, Frames, Stored, Identity, Wire, Connected,
              Ledgered, Truthful, Submitted, Running

\* A crash ends calls and keeps what is stored, on the wire and recorded.
LEMMA CrashInv ==
    ASSUME IInv, Crash
    PROVE  IInv'
<1>0. /\ conn' = [c \in Calls |-> NotConnected]
      /\ UNCHANGED <<net, recorded, effects, draft, intent>>
  BY DEF Crash
<1>1. \A c \in Calls :
        /\ ~Running(c) => frame'[c] = frame[c]
        /\ Running(c) => frame'[c] = [frame[c] EXCEPT !.pc = "done", !.result = "crashed"]
  BY DEF Crash
<1>2. frame' \in [Calls -> Frame]
  <2>1. ASSUME NEW c \in Calls PROVE frame'[c] \in Frame
    <3>1. frame[c] \in Frame
      BY DEF IInv, TypeOK
    <3>2. [frame[c] EXCEPT !.pc = "done", !.result = "crashed"] \in Frame
      BY <3>1
    <3> QED
      BY <1>1, <3>1, <3>2
  <2> QED
    BY <2>1 DEF Crash
<1>3. ASSUME NEW c \in Calls
      PROVE  /\ frame'[c].op = frame[c].op
             /\ frame'[c].key = frame[c].key
             /\ frame'[c].body = frame[c].body
             /\ frame'[c].result \in {frame[c].result, "crashed"}
             /\ frame'[c].pc \in {"idle", "done"}
             /\ frame'[c].pc = "idle" => frame'[c] = frame[c]
  <2>1. frame[c] \in Frame
    BY DEF IInv, TypeOK
  <2>2. CASE Running(c)
    BY <1>1, <2>1, <2>2
  <2>3. CASE ~Running(c)
    BY <1>1, <2>1, <2>3 DEF Running
  <2> QED
    BY <2>2, <2>3
<1>4. TypeOK'
  BY <1>0, <1>2 DEF IInv, TypeOK, ServiceTypeOK
<1>5. Frames'
  BY <1>3 DEF IInv, Frames, Running
<1>6. Stored' /\ Identity'
  BY <1>0, <1>3 DEF IInv, Stored, Identity, Submitted
<1>7. Wire' /\ Connected'
  BY <1>0, <1>3 DEF IInv, Wire, Connected, TypeOK, ServiceTypeOK
<1>8. Ledgered'
  BY <1>0, <1>3, SameLedger DEF IInv
<1>9. Truthful'
  BY <1>0, <1>3 DEF IInv, Truthful
<1> QED
  BY <1>4, <1>5, <1>6, <1>7, <1>8, <1>9 DEF IInv

-----------------------------------------------------------------------------
\* An answer changes nothing but the connection that waits for it.
LEMMA AnswerFacts ==
    ASSUME IInv, NEW m \in net, NEW a \in Answers, Answer(m, a)
    PROVE  /\ net' \subseteq net
           /\ conn' \in [Calls -> [attempt : 0..MaxAttempts, answer : Answers \cup {"none"}]]
           /\ \A c \in Calls :
                 \/ conn'[c] = conn[c]
                 \/ /\ c = m.call
                    /\ frame[c].pc = "wait"
                    /\ conn[c].attempt # 0
                    /\ conn'[c] = [attempt |-> conn[c].attempt, answer |-> a]
<1>1. m \in Request /\ m.attempt # 0 /\ m.call \in Calls
  BY DEF IInv, TypeOK, ServiceTypeOK
<1>2. CASE conn[m.call].attempt = m.attempt
  <2>1. conn' = [conn EXCEPT ![m.call].answer = a] /\ net' = net \ {m}
    BY <1>2 DEF Answer
  <2>2. frame[m.call].pc = "wait" /\ conn[m.call].attempt # 0
    BY <1>1, <1>2 DEF IInv, Connected
  <2>3. conn \in [Calls -> [attempt : 0..MaxAttempts, answer : Answers \cup {"none"}]]
    BY DEF IInv, TypeOK, ServiceTypeOK
  <2> QED
    BY <1>1, <2>1, <2>2, <2>3
<1>3. CASE conn[m.call].attempt # m.attempt
  BY <1>3 DEF Answer, IInv, TypeOK, ServiceTypeOK
<1> QED
  BY <1>2, <1>3

\* What a request tells about the call that sent it.
LEMMA SenderFacts ==
    ASSUME IInv, NEW m \in net, m.op \in Mutations
    PROVE  /\ m \in Request
           /\ m.call \in Calls
           /\ Submitted(m.call)
           /\ m.key \in Keys
           /\ frame[m.call].key = m.key
           /\ frame[m.call].op = m.op
           /\ frame[m.call].body = m.body
           /\ m.body \in Bodies
BY DEF IInv, TypeOK, ServiceTypeOK, Wire, Stored, Submitted

\* An answer leaves what is on the wire and what connections were told in order.
LEMMA AnswerWire ==
    ASSUME IInv, NEW m \in net, NEW a \in Answers, Answer(m, a), UNCHANGED frame
    PROVE  Wire' /\ Connected'
<1>1. Wire'
  BY AnswerFacts DEF IInv, Wire
<1>2. ASSUME NEW c \in Calls
      PROVE  /\ frame[c].pc # "wait" => conn'[c] = NotConnected
             /\ conn'[c].attempt = 0 => conn'[c].answer = "none"
  <2>1. CASE conn'[c] = conn[c]
    BY <2>1 DEF IInv, Connected
  <2>2. CASE /\ frame[c].pc = "wait"
             /\ conn[c].attempt # 0
             /\ conn'[c] = [attempt |-> conn[c].attempt, answer |-> a]
    BY <2>2
  <2> QED
    BY <2>1, <2>2, AnswerFacts
<1> QED
  BY <1>1, <1>2 DEF Connected

\* The Worker answers without touching its records.
LEMMA AnswerInv ==
    ASSUME IInv, NEW m \in net, NEW a \in Answers, Answer(m, a),
           UNCHANGED <<recorded, effects>>, UNCHANGED clientVars,
           a # "conflict",
           a = "ok" /\ m.op \in Mutations => effects[m.op] = 1
    PROVE  IInv'
<1> USE DEF clientVars
<1>1. TypeOK'
  BY AnswerFacts DEF IInv, TypeOK, ServiceTypeOK
<1>2. Frames' /\ Stored' /\ Identity'
  BY DEF IInv, Frames, Stored, Identity, Submitted, Running
<1>3. Wire' /\ Connected'
  BY AnswerWire
<1>4. Ledgered'
  BY SameLedger DEF IInv
<1>5. Truthful'
  <2> SUFFICES ASSUME NEW c \in Calls
               PROVE  /\ frame[c].op \in Mutations /\ (conn'[c].answer = "ok" \/ frame[c].result = "ok")
                              => effects[frame[c].op] = 1
                      /\ conn'[c].answer # "conflict"
                      /\ frame[c].result # "conflict"
    BY DEF Truthful
  <2>1. CASE conn'[c] = conn[c]
    BY <2>1 DEF IInv, Truthful
  <2>2. CASE c = m.call /\ conn'[c] = [attempt |-> conn[c].attempt, answer |-> a]
    BY <2>2 DEF IInv, Truthful, Wire
  <2> QED
    BY <2>1, <2>2, AnswerFacts
<1> QED
  BY <1>1, <1>2, <1>3, <1>4, <1>5 DEF IInv

\* The Worker applies a command: only possible when nothing was recorded under
\* the key that all calls of the operation share.
LEMMA CommitInv ==
    ASSUME IInv, NEW m \in net, Commit(m), UNCHANGED clientVars
    PROVE  IInv'
<1> USE DEF clientVars
<1> PICK a \in {"ok", "retryable"} \cup Damaged : Answer(m, a)
  BY DEF Commit
<1>0. a \in Answers /\ a # "conflict"
  OBVIOUS
<1>1. /\ m.op \in Mutations
      /\ recorded[m.key] = NoBody
      /\ recorded' = [recorded EXCEPT ![m.key] = m.body]
      /\ effects' = [effects EXCEPT ![m.op] = @ + 1]
  BY SenderFacts DEF Commit
<1>2. effects[m.op] = 0
  BY <1>1, SenderFacts DEF IInv, Ledgered
<1>3. effects'[m.op] = 1 /\ \A o \in Ops \ {m.op} : effects'[o] = effects[o]
  BY <1>1, <1>2 DEF IInv, TypeOK, ServiceTypeOK
<1>4. recorded'[m.key] = m.body /\ \A k \in Keys \ {m.key} : recorded'[k] = recorded[k]
  BY <1>1, SenderFacts DEF IInv, TypeOK, ServiceTypeOK
<1>5. TypeOK'
  BY <1>0, <1>1, SenderFacts, AnswerFacts DEF IInv, TypeOK, ServiceTypeOK
<1>6. Frames' /\ Stored' /\ Identity'
  BY DEF IInv, Frames, Stored, Identity, Submitted, Running
<1>7. Wire' /\ Connected'
  BY <1>0, AnswerWire
<1>8. Ledgered'
  <2>1. ASSUME NEW c \in Calls, Submitted(c)
        PROVE  /\ recorded'[frame[c].key] \in {NoBody, frame[c].body}
               /\ effects'[frame[c].op] = IF recorded'[frame[c].key] = NoBody THEN 0 ELSE 1
    <3>1. frame[c].key \in Keys /\ frame[c].op \in Mutations
      BY <2>1 DEF IInv, Stored, Submitted
    <3>2. CASE frame[c].op = m.op
      BY <1>3, <1>4, <2>1, <3>2, SenderFacts, <1>1 DEF IInv, Identity, Stored
    <3>3. CASE frame[c].op # m.op
      BY <1>3, <1>4, <2>1, <3>1, <3>3, SenderFacts, <1>1 DEF IInv, Identity, Ledgered
    <3> QED
      BY <3>2, <3>3
  <2>2. ASSUME NEW k \in Keys, recorded'[k] # NoBody
        PROVE  \E c \in Calls : frame[c].key = k
    BY <1>1, <1>4, <2>2, SenderFacts DEF IInv, Ledgered
  <2>3. ASSUME NEW o \in Mutations, effects'[o] # 0
        PROVE  \E c \in Calls : Submitted(c) /\ frame[c].op = o
    BY <1>1, <1>3, <2>3, SenderFacts DEF IInv, Ledgered
  <2>4. frame' = frame
    OBVIOUS
  <2> QED
    BY <2>1, <2>2, <2>3, <2>4 DEF Ledgered, Submitted
<1>9. Truthful'
  <2> SUFFICES ASSUME NEW c \in Calls
               PROVE  /\ frame[c].op \in Mutations /\ (conn'[c].answer = "ok" \/ frame[c].result = "ok")
                              => effects'[frame[c].op] = 1
                      /\ conn'[c].answer # "conflict"
                      /\ frame[c].result # "conflict"
    BY DEF Truthful
  <2>1. CASE conn'[c] = conn[c]
    BY <1>1, <1>3, <2>1 DEF IInv, Truthful
  <2>2. CASE c = m.call /\ conn'[c] = [attempt |-> conn[c].attempt, answer |-> a]
    BY <1>0, <1>1, <1>3, <2>2, SenderFacts DEF IInv, Truthful
  <2> QED
    BY <1>0, <2>1, <2>2, AnswerFacts
<1> QED
  BY <1>5, <1>6, <1>7, <1>8, <1>9 DEF IInv

\* The Worker and the network keep the invariant.
LEMMA WorkerInv ==
    ASSUME IInv, Worker
    PROVE  IInv'
<1> PICK m \in net : Handle(m) /\ UNCHANGED clientVars
  BY DEF Worker
<1>1. CASE Commit(m)
  BY <1>1, CommitInv
<1>2. CASE Replay(m)
  <2>1. effects[m.op] = 1
    BY <1>2, SenderFacts DEF Replay, IInv, Ledgered
  <2> QED
    BY <1>2, <2>1, AnswerInv DEF Replay
<1>3. CASE Conflict(m)
  <2>1. recorded[m.key] \in {NoBody, m.body}
    BY <1>3, SenderFacts DEF Conflict, IInv, Ledgered
  <2> QED
    BY <1>3, <2>1 DEF Conflict
<1>4. CASE TurnDown(m)
  BY <1>4, AnswerInv DEF TurnDown
<1>5. CASE Query(m)
  BY <1>5, AnswerInv DEF Query
<1> QED
  BY <1>1, <1>2, <1>3, <1>4, <1>5 DEF Handle

-----------------------------------------------------------------------------
\* Every step of the system preserves the inductive invariant.
LEMMA NextInv == IInv /\ [Next]_vars => IInv'
<1> SUFFICES ASSUME IInv, [Next]_vars PROVE IInv'
  OBVIOUS
<1>1. ASSUME NEW c \in Calls, Begin(c) PROVE IInv'
  BY <1>1, FirstCallInv, RepeatCallInv, ReadCallInv, InvalidCallInv DEF Begin
<1>2. ASSUME NEW c \in Calls, Step(c) PROVE IInv'
  <2>1. CASE Finish(c)
    BY <2>1, FinishInv
  <2>2. CASE RetryError(c)
    BY <2>2, SleepInv DEF RetryError, TryAgain, Running
  <2>3. CASE LoseConnection(c)
    BY <2>3, LoseConnectionInv
  <2>4. CASE Resend(c)
    BY <2>4, ResendInv
  <2> QED
    BY <1>2, <2>1, <2>2, <2>3, <2>4 DEF Step
<1>3. ASSUME NEW o \in Ops, EditDraft(o) PROVE IInv'
  BY <1>3, EditDraftInv
<1>4. CASE Worker
  BY <1>4, WorkerInv
<1>5. CASE Crash
  BY <1>5, CrashInv
<1>6. CASE UNCHANGED vars
  BY <1>6 DEF vars, serviceVars, IInv, TypeOK, ServiceTypeOK, Frames, Stored, Identity,
              Wire, Connected, Ledgered, Truthful, Submitted, Running
<1> QED
  BY <1>1, <1>2, <1>3, <1>4, <1>5, <1>6 DEF Next

\* The invariant holds in every reachable state.
LEMMA InductiveInvariant == Spec => []IInv
BY InitInv, NextInv, PTL DEF Spec

\* Every variable keeps its type, in particular no call makes an attempt beyond
\* max_attempts.
THEOREM TypeCorrect == Spec => []TypeOK
<1>1. IInv => TypeOK
  BY DEF IInv
<1> QED
  BY <1>1, InductiveInvariant, PTL

\* No command is applied twice, whatever is retried, repeated, lost or late.
THEOREM CommandsApplyAtMostOnce == Spec => []AtMostOnce
<1>1. IInv => AtMostOnce
  <2> SUFFICES ASSUME IInv, NEW o \in Mutations PROVE effects[o] <= 1
    BY DEF AtMostOnce
  <2>1. CASE effects[o] = 0
    BY <2>1
  <2>2. CASE effects[o] # 0
    <3> PICK c \in Calls : Submitted(c) /\ frame[c].op = o
      BY <2>2 DEF IInv, Ledgered
    <3> QED
      BY DEF IInv, Ledgered
  <2> QED
    BY <2>1, <2>2
<1> QED
  BY <1>1, InductiveInvariant, PTL

\* A payload is returned to the application for applied commands only.
THEOREM SuccessMeansApplied == Spec => []SuccessIsApplied
<1>1. IInv => SuccessIsApplied
  BY DEF IInv, Truthful, SuccessIsApplied
<1> QED
  BY <1>1, InductiveInvariant, PTL

\* An application that repeats what it stored never runs into its own key.
THEOREM NoKeyConflict == Spec => []NoSelfConflict
<1>1. IInv => NoSelfConflict
  BY DEF IInv, Truthful, NoSelfConflict
<1> QED
  BY <1>1, InductiveInvariant, PTL

-----------------------------------------------------------------------------
(* A failure leaves the key.  IInv knows what keys the calls share; it is  *)
(* left to say that the application holds the key where it should, and     *)
(* that no call without one is of the same command.                        *)

KeyLeft ==
    /\ \A c \in Calls : Submitted(c) => frame[c].op \notin Invalid
    /\ \A c \in Calls : frame[c].op \in Mutations \ Invalid => Submitted(c)
    /\ \A c \in Calls : frame[c].op \in Mutations /\ frame[c].result \in KeyBearing
            => intent[frame[c].op].key # NoKey

\* Steps of calls that are under way: identities stay, and so do stored keys.
LEMMA UnderWayKeyLeft ==
    ASSUME KeyLeft,
           \A c \in Calls : frame'[c].op = frame[c].op /\ frame'[c].key = frame[c].key,
           \A c \in Calls : frame[c].op \in Mutations /\ intent[frame[c].op].key # NoKey
                => intent'[frame[c].op].key # NoKey,
           \A c \in Calls : frame[c].op \in Mutations /\ frame'[c].result \in KeyBearing
                => frame[c].result \in KeyBearing \/ intent'[frame[c].op].key # NoKey
    PROVE  KeyLeft'
BY DEF KeyLeft, Submitted

\* A call that returns hands out its own key, or none.
LEMMA ReturnKeyLeft ==
    ASSUME IInv, KeyLeft, NEW c \in Calls, Running(c), NEW r \in Results, Return(c, r)
    PROVE  KeyLeft'
<1> DEFINE o == frame[c].op
<1>1. /\ frame' = [frame EXCEPT ![c].pc = "done", ![c].result = r]
      /\ intent' = IF r \in KeyBearing /\ o \in Mutations
                   THEN [intent EXCEPT ![o].key = frame[c].key]
                   ELSE intent
  BY DEF Return
<1>2. o \in Mutations => frame[c].key \in Keys
  BY DEF IInv, Frames, Submitted
<1>3. /\ \A d \in Calls : frame'[d].op = frame[d].op /\ frame'[d].key = frame[d].key
      /\ \A d \in Calls \ {c} : frame'[d].result = frame[d].result
      /\ frame'[c].result = r
  BY <1>1 DEF IInv, TypeOK
<1>4. \A p \in Mutations : intent[p].key # NoKey => intent'[p].key # NoKey
  BY <1>1, <1>2 DEF IInv, TypeOK
<1>5. o \in Mutations /\ r \in KeyBearing => intent'[o].key # NoKey
  BY <1>1, <1>2 DEF IInv, TypeOK
<1> QED
  BY <1>3, <1>4, <1>5, UnderWayKeyLeft

\* Sleeping hands out no key.
LEMMA SleepKeyLeft ==
    ASSUME IInv, KeyLeft, NEW c \in Calls, Sleep(c)
    PROVE  KeyLeft'
<1>1. /\ \A d \in Calls : /\ frame'[d].op = frame[d].op
                          /\ frame'[d].key = frame[d].key
                          /\ frame'[d].result = frame[d].result
      /\ intent' = intent
  BY DEF Sleep, IInv, TypeOK
<1> QED
  BY <1>1, UnderWayKeyLeft

\* A call begins where nothing was stored of its command, or with the stored key.
LEMMA BeginKeyLeft ==
    ASSUME IInv, KeyLeft, NEW c \in Calls, NEW o \in Ops,
           FirstCall(c, o) \/ RepeatCall(c, o) \/ ReadCall(c, o) \/ InvalidCall(c, o)
    PROVE  KeyLeft'
<1>1. frame[c] = Uncalled
  BY DEF FirstCall, RepeatCall, ReadCall, InvalidCall, IInv, Frames
<1>2. CASE FirstCall(c, o)
  <2>1. PICK k \in Keys, own \in BOOLEAN :
            /\ intent' = [intent EXCEPT ![o] = [key |-> IF own THEN k ELSE NoKey, body |-> draft[o]]]
            /\ Enter(c, o, k, draft[o])
    BY <1>2 DEF FirstCall
  <2>2. o \in Mutations \ Invalid /\ intent[o] = Unstored
    BY <1>2 DEF FirstCall
  <2>3. frame'[c].op = o /\ frame'[c].key = k /\ frame'[c].result = "none"
    BY <2>1 DEF Enter, IInv, TypeOK
  <2>4. \A d \in Calls \ {c} : frame'[d] = frame[d]
    BY <2>1 DEF Enter, IInv, TypeOK
  <2>5. \A p \in Ops \ {o} : intent'[p] = intent[p]
    BY <2>1 DEF IInv, TypeOK
  <2>6. "none" \notin KeyBearing
    BY DEF KeyBearing
  <2> QED
    BY <2>2, <2>3, <2>4, <2>5, <2>6 DEF KeyLeft, Submitted
<1>3. CASE RepeatCall(c, o)
  <2>1. Enter(c, o, intent[o].key, intent[o].body) /\ intent[o].key # NoKey /\ intent' = intent
    BY <1>3 DEF RepeatCall
  <2>2. /\ frame'[c].op = o /\ frame'[c].key = intent[o].key /\ frame'[c].result = "none"
        /\ \A d \in Calls \ {c} : frame'[d] = frame[d]
    BY <2>1 DEF Enter, IInv, TypeOK
  <2>3. intent[o].key \in Keys
    BY <2>1 DEF IInv, TypeOK
  <2>4. PICK d \in Calls : frame[d].op = o /\ frame[d].key = intent[o].key
    BY <2>1 DEF IInv, Stored
  <2>5. o \notin Invalid
    BY <2>3, <2>4 DEF KeyLeft, Submitted
  <2>6. "none" \notin KeyBearing
    BY DEF KeyBearing
  <2> QED
    BY <2>1, <2>2, <2>3, <2>5, <2>6 DEF KeyLeft, Submitted
<1>4. CASE ReadCall(c, o)
  <2>1. Enter(c, o, NoKey, NoBody) /\ o \notin Mutations /\ intent' = intent
    BY <1>4 DEF ReadCall
  <2>2. /\ frame'[c].op = o /\ frame'[c].key = NoKey
        /\ \A d \in Calls \ {c} : frame'[d] = frame[d]
    BY <2>1 DEF Enter, IInv, TypeOK
  <2> QED
    BY <2>1, <2>2 DEF KeyLeft, Submitted
<1>5. CASE InvalidCall(c, o)
  <2>1. /\ frame'[c].op = o /\ frame'[c].key = NoKey /\ frame'[c].result = "invalid"
        /\ \A d \in Calls \ {c} : frame'[d] = frame[d]
        /\ o \in Invalid /\ intent' = intent
    BY <1>5 DEF InvalidCall, IInv, TypeOK
  <2>2. "invalid" \notin KeyBearing
    BY DEF KeyBearing
  <2> QED
    BY <2>1, <2>2 DEF KeyLeft, Submitted
<1> QED
  BY <1>2, <1>3, <1>4, <1>5

\* A crash leaves the keys that were handed out.
LEMMA CrashKeyLeft ==
    ASSUME IInv, KeyLeft, Crash
    PROVE  KeyLeft'
<1>1. "crashed" \notin KeyBearing
  BY DEF KeyBearing
<1>2. ASSUME NEW c \in Calls
      PROVE  /\ frame'[c].op = frame[c].op
             /\ frame'[c].key = frame[c].key
             /\ frame'[c].result \in {frame[c].result, "crashed"}
  <2>1. frame[c] \in Frame
    BY DEF IInv, TypeOK
  <2> QED
    BY <2>1 DEF Crash
<1>3. intent' = intent
  BY DEF Crash
<1> QED
  BY <1>1, <1>2, <1>3, UnderWayKeyLeft

\* So every step keeps the keys that were handed out.
LEMMA NextKeyLeft == IInv /\ KeyLeft /\ [Next]_vars => KeyLeft'
<1> SUFFICES ASSUME IInv, KeyLeft, [Next]_vars PROVE KeyLeft'
  OBVIOUS
<1>1. ASSUME NEW c \in Calls, Begin(c) PROVE KeyLeft'
  BY <1>1, BeginKeyLeft DEF Begin
<1>2. ASSUME NEW c \in Calls, Finish(c) PROVE KeyLeft'
  <2>1. conn[c].answer \in Answers
    BY <1>2 DEF Finish, IInv, TypeOK, ServiceTypeOK
  <2>2. ResultOf(conn[c].answer) \in Results
    BY <2>1 DEF ResultOf
  <2> QED
    BY <1>2, <2>2, ReturnKeyLeft DEF Finish, Running
<1>3. ASSUME NEW c \in Calls, RetryError(c) \/ LoseConnection(c) PROVE KeyLeft'
  BY <1>3, ReturnKeyLeft, SleepKeyLeft DEF RetryError, LoseConnection, Running
<1>4. ASSUME NEW c \in Calls, Resend(c) PROVE KeyLeft'
  <2>1. /\ \A d \in Calls : /\ frame'[d].op = frame[d].op
                            /\ frame'[d].key = frame[d].key
                            /\ frame'[d].result = frame[d].result
        /\ intent' = intent
    BY <1>4 DEF Resend, IInv, TypeOK
  <2> QED
    BY <2>1, UnderWayKeyLeft
<1>5. ASSUME UNCHANGED <<intent, frame>> PROVE KeyLeft'
  BY <1>5 DEF KeyLeft, Submitted
<1>6. CASE Crash
  BY <1>6, CrashKeyLeft
<1> QED
  BY <1>1, <1>2, <1>3, <1>4, <1>5, <1>6 DEF Next, Step, EditDraft, Worker, clientVars, vars

\* Whoever is told by an exception that a command failed or is in doubt holds the
\* one key of all its calls, and can find out or try again under it.
THEOREM FailureLeavesOneKey == Spec => []FailureLeavesTheKey
<1>1. Init => KeyLeft
  <2>1. NoOp \notin Mutations
    BY NoOpAssumption
  <2>2. "none" \notin KeyBearing
    BY DEF KeyBearing
  <2> QED
    BY <2>1, <2>2 DEF Init, KeyLeft, Submitted
<1>2. IInv /\ KeyLeft => FailureLeavesTheKey
  <2> SUFFICES ASSUME IInv, KeyLeft, NEW c \in Calls, frame[c].op \in Mutations,
                      frame[c].result \notin {"none", "ok", "invalid", "escaped", "crashed"},
                      NEW d \in Calls, frame[d].op = frame[c].op
               PROVE  frame[d].key = intent[frame[c].op].key
    BY DEF FailureLeavesTheKey, CallsOf
  <2>1. frame[c].result \in KeyBearing
    BY DEF IInv, TypeOK, KeyBearing
  <2>2. intent[frame[c].op].key # NoKey
    BY <2>1 DEF KeyLeft
  <2>3. PICK e \in Calls : frame[e].op = frame[c].op /\ frame[e].key = intent[frame[c].op].key
    BY <2>2 DEF IInv, Stored
  <2>4. Submitted(e)
    BY <2>2, <2>3 DEF IInv, TypeOK, Submitted
  <2>5. Submitted(d)
    BY <2>3, <2>4 DEF KeyLeft
  <2> QED
    BY <2>3, <2>4, <2>5 DEF IInv, Identity
<1> QED
  BY <1>1, <1>2, NextKeyLeft, InductiveInvariant, PTL DEF Spec

-----------------------------------------------------------------------------
(***************************************************************************)
(* PyClient implements AtomicCommand, and a refusal is final, for every    *)
(* value of the constants.                                                 *)
(*                                                                         *)
(* Beyond the invariant above, IInv, the argument needs to know where      *)
(* the attempts of a call are: none lies ahead of the loop's counter, and  *)
(* an attempt that was answered is no longer on the wire (Attempts).  So a *)
(* call that was refused on its first attempt has nothing left that could  *)
(* take effect, and an effect always has a call that is still open, was    *)
(* told of it, or ended in doubt (Caused).                                 *)
(***************************************************************************)

\* Refused while only one attempt was ever made.
RefusedAtOnce(f) == f.result = "refused" /\ f.attempt = 1

Attempts ==
    /\ \A c \in Calls :
        /\ conn[c].attempt # 0 => conn[c].attempt = frame[c].attempt
        /\ Running(c) => frame[c].result = "none" /\ frame[c].attempt # 0
        /\ frame[c].pc = "done" => frame[c].result # "none"
        /\ frame[c].result = "invalid" => frame[c].key = NoKey
        /\ frame[c].result \notin {"none", "invalid"} => frame[c].attempt # 0
    /\ \A m \in net :
        /\ m.attempt <= frame[m.call].attempt
        /\ conn[m.call].answer # "none" => m.attempt # conn[m.call].attempt
        /\ ~RefusedAtOnce(frame[m.call])

Caused ==
    \A o \in Mutations : effects[o] # 0 =>
        \E c \in Calls : /\ Submitted(c)
                         /\ frame[c].op = o
                         /\ ~RefusedAtOnce(frame[c])
                         /\ ~(conn[c].answer = "refused" /\ frame[c].attempt = 1)

JInv == IInv /\ Attempts /\ Caused

-----------------------------------------------------------------------------
\* The phase a call is in, condition by condition.
LEMMA Phases ==
    ASSUME NEW f
    PROVE  /\ f.pc = "idle" => PhaseOf(f) = "idle"
           /\ f.pc \in {"wait", "backoff"} => PhaseOf(f) = "open"
           /\ f.pc = "done" /\ f.result = "ok" => PhaseOf(f) = "ok"
           /\ f.pc = "done" /\ Settled(f) => PhaseOf(f) = "declined"
           /\ f.pc = "done" /\ f.result # "ok" /\ ~Settled(f) => PhaseOf(f) = "doubt"
BY DEF PhaseOf, Settled

\* Before the first call nothing was sent, answered or applied.
LEMMA InitJ == Init => JInv /\ Promise!Init
<1> SUFFICES ASSUME Init PROVE JInv /\ Promise!Init
  OBVIOUS
<1> USE DEF Init, ServiceInit
<1>1. IInv
  BY InitInv
<1>2. Attempts /\ Caused
  BY DEF Attempts, Caused, Running, RefusedAtOnce
<1>3. \A c \in Calls : PhaseOf(frame[c]) = "idle"
  BY Phases
<1>4. Promise!Init
  BY <1>3 DEF Promise!Init
<1> QED
  BY <1>1, <1>2, <1>4 DEF JInv

\* A call is made: an Invoke of the abstract command.
LEMMA EnterJ ==
    ASSUME JInv, IInv', NEW c \in Calls, NEW o \in Ops, frame[c].pc = "idle",
           NEW k, NEW b, Enter(c, o, k, b)
    PROVE  JInv' /\ Promise!Invoke(c, o)
<1> DEFINE f == [pc |-> "wait", op |-> o, key |-> k, body |-> b, attempt |-> 1, result |-> "none"]
           r == [call |-> c, attempt |-> 1, op |-> o, key |-> k, body |-> b]
<1>0. frame[c] = Uncalled
  BY DEF JInv, IInv, Frames
<1>1. /\ frame' = [frame EXCEPT ![c] = f]
      /\ net' = net \cup {r}
      /\ conn' = [conn EXCEPT ![c] = [attempt |-> 1, answer |-> "none"]]
      /\ UNCHANGED <<recorded, effects>>
  BY DEF Enter, Send, RequestOf
<1>2. \A m \in net : m.call # c /\ m.call \in Calls
  BY <1>0 DEF JInv, IInv, Wire, TypeOK, ServiceTypeOK
<1>3. frame'[c] = f /\ conn'[c] = [attempt |-> 1, answer |-> "none"]
  BY <1>1 DEF JInv, IInv, TypeOK, ServiceTypeOK
<1>4. \A d \in Calls \ {c} : frame'[d] = frame[d] /\ conn'[d] = conn[d]
  BY <1>1 DEF JInv, IInv, TypeOK, ServiceTypeOK
<1>5. Attempts'
  <2>1. ASSUME NEW d \in Calls
        PROVE  /\ conn'[d].attempt # 0 => conn'[d].attempt = frame'[d].attempt
               /\ Running(d)' => frame'[d].result = "none" /\ frame'[d].attempt # 0
               /\ frame'[d].pc = "done" => frame'[d].result # "none"
               /\ frame'[d].result = "invalid" => frame'[d].key = NoKey
               /\ frame'[d].result \notin {"none", "invalid"} => frame'[d].attempt # 0
    <3>1. CASE d = c
      BY <1>3, <3>1
    <3>2. CASE d # c
      BY <1>4, <3>2 DEF JInv, Attempts, Running
    <3> QED
      BY <3>1, <3>2
  <2>2. ASSUME NEW m \in net'
        PROVE  /\ m.attempt <= frame'[m.call].attempt
               /\ conn'[m.call].answer # "none" => m.attempt # conn'[m.call].attempt
               /\ ~RefusedAtOnce(frame'[m.call])
    <3>1. CASE m = r
      BY <1>3, <3>1 DEF RefusedAtOnce
    <3>2. CASE m \in net
      BY <1>2, <1>4, <3>2 DEF JInv, Attempts
    <3> QED
      BY <1>1, <3>1, <3>2
  <2> QED
    BY <2>1, <2>2 DEF Attempts
<1>6. Caused'
  <2> SUFFICES ASSUME NEW p \in Mutations, effects'[p] # 0
               PROVE  \E d \in Calls : /\ Submitted(d)'
                                       /\ frame'[d].op = p
                                       /\ ~RefusedAtOnce(frame'[d])
                                       /\ ~(conn'[d].answer = "refused" /\ frame'[d].attempt = 1)
    BY DEF Caused
  <2> PICK d \in Calls : /\ Submitted(d)
                         /\ frame[d].op = p
                         /\ ~RefusedAtOnce(frame[d])
                         /\ ~(conn[d].answer = "refused" /\ frame[d].attempt = 1)
    BY <1>1 DEF JInv, Caused
  <2>1. d # c
    BY <1>0 DEF Submitted
  <2> QED
    BY <1>4, <2>1 DEF Submitted
<1>7. Promise!Invoke(c, o)
  <2>1. PhaseOf(frame[c]) = "idle" /\ PhaseOf(frame'[c]) = "open"
    BY <1>0, <1>3, Phases
  <2>2. \A d \in Calls \ {c} : PhaseOf(frame'[d]) = PhaseOf(frame[d]) /\ frame'[d].op = frame[d].op
    BY <1>4
  <2>3. [d \in Calls |-> PhaseOf(frame'[d])] = [[d \in Calls |-> PhaseOf(frame[d])] EXCEPT ![c] = "open"]
    BY <2>1, <2>2
  <2>4. [d \in Calls |-> frame'[d].op] = [[d \in Calls |-> frame[d].op] EXCEPT ![c] = o]
    <3>1. frame'[c].op = o
      BY <1>3
    <3> QED
      BY <2>2, <3>1
  <2> QED
    BY <1>1, <2>1, <2>3, <2>4 DEF Promise!Invoke
<1> QED
  BY <1>5, <1>6, <1>7 DEF JInv

\* An invalid call is dismissed without a trace elsewhere.
LEMMA InvalidCallJ ==
    ASSUME JInv, IInv', NEW c \in Calls, NEW o \in Ops, InvalidCall(c, o)
    PROVE  JInv' /\ Promise!Dismiss(c, o)
<1> DEFINE f == [pc |-> "done", op |-> o, key |-> NoKey, body |-> NoBody,
                 attempt |-> 0, result |-> "invalid"]
<1>0. frame[c] = Uncalled
  BY DEF InvalidCall, JInv, IInv, Frames
<1>1. frame' = [frame EXCEPT ![c] = [Uncalled EXCEPT !.pc = "done", !.op = o,
                                                        !.result = "invalid"]]
  BY DEF InvalidCall
<1>8. UNCHANGED <<net, conn, recorded, effects>>
  BY DEF InvalidCall, serviceVars
<1>2. \A m \in net : m.call # c /\ m.call \in Calls
  BY <1>0 DEF JInv, IInv, Wire, TypeOK, ServiceTypeOK
<1>3. frame'[c] = f /\ \A d \in Calls \ {c} : frame'[d] = frame[d]
  BY <1>1 DEF JInv, IInv, TypeOK
<1>4. conn[c] = NotConnected
  BY <1>0 DEF JInv, IInv, Connected
<1>5. Attempts'
  <2>1. ASSUME NEW d \in Calls
        PROVE  /\ conn[d].attempt # 0 => conn[d].attempt = frame'[d].attempt
               /\ Running(d)' => frame'[d].result = "none" /\ frame'[d].attempt # 0
               /\ frame'[d].pc = "done" => frame'[d].result # "none"
               /\ frame'[d].result = "invalid" => frame'[d].key = NoKey
               /\ frame'[d].result \notin {"none", "invalid"} => frame'[d].attempt # 0
    <3>1. CASE d = c
      BY <1>3, <1>4, <3>1 DEF Running
    <3>2. CASE d # c
      BY <1>3, <3>2 DEF JInv, Attempts, Running
    <3> QED
      BY <3>1, <3>2
  <2>2. ASSUME NEW m \in net
        PROVE  /\ m.attempt <= frame'[m.call].attempt
               /\ conn[m.call].answer # "none" => m.attempt # conn[m.call].attempt
               /\ ~RefusedAtOnce(frame'[m.call])
    BY <1>2, <1>3 DEF JInv, Attempts
  <2> QED
    BY <1>8, <2>1, <2>2 DEF Attempts
<1>6. Caused'
  <2> SUFFICES ASSUME NEW p \in Mutations, effects[p] # 0
               PROVE  \E d \in Calls : /\ Submitted(d)'
                                       /\ frame'[d].op = p
                                       /\ ~RefusedAtOnce(frame'[d])
                                       /\ ~(conn[d].answer = "refused" /\ frame'[d].attempt = 1)
    BY <1>8 DEF Caused
  <2> PICK d \in Calls : /\ Submitted(d)
                         /\ frame[d].op = p
                         /\ ~RefusedAtOnce(frame[d])
                         /\ ~(conn[d].answer = "refused" /\ frame[d].attempt = 1)
    BY DEF JInv, Caused
  <2>1. d # c
    BY <1>0 DEF Submitted
  <2> QED
    BY <1>3, <2>1 DEF Submitted
<1>7. Promise!Dismiss(c, o)
  <2>1. PhaseOf(frame[c]) = "idle" /\ PhaseOf(frame'[c]) = "declined"
    BY <1>0, <1>3 DEF PhaseOf, Settled
  <2>2. \A d \in Calls \ {c} : PhaseOf(frame'[d]) = PhaseOf(frame[d]) /\ frame'[d].op = frame[d].op
    BY <1>3
  <2>3. [d \in Calls |-> PhaseOf(frame'[d])] = [[d \in Calls |-> PhaseOf(frame[d])] EXCEPT ![c] = "declined"]
    BY <2>1, <2>2
  <2>4. frame'[c].op = o
    BY <1>3
  <2>5. [d \in Calls |-> frame'[d].op] = [[d \in Calls |-> frame[d].op] EXCEPT ![c] = o]
    BY <2>2, <2>4
  <2> QED
    BY <1>8, <2>1, <2>3, <2>5 DEF Promise!Dismiss
<1> QED
  BY <1>5, <1>6, <1>7 DEF JInv

-----------------------------------------------------------------------------
\* A call ends with the answer it got: as a success, a refusal, or in doubt.
LEMMA ReturnJ ==
    ASSUME JInv, IInv', NEW c \in Calls, frame[c].pc = "wait",
           NEW r \in Results \ {"invalid"}, Return(c, r),
           r = "ok" /\ frame[c].op \in Mutations => effects[frame[c].op] = 1,
           r = "refused" => conn[c].answer = "refused"
    PROVE  JInv' /\ (Promise!Succeed(c) \/ Promise!Decline(c) \/ Promise!Abandon({c}))
<1>1. /\ frame' = [frame EXCEPT ![c].pc = "done", ![c].result = r]
      /\ conn' = [conn EXCEPT ![c] = NotConnected]
      /\ UNCHANGED <<net, recorded, effects>>
  BY DEF Return, HangUp
<1>2. /\ frame'[c].pc = "done"
      /\ frame'[c].result = r
      /\ conn'[c] = NotConnected
      /\ \A d \in Calls \ {c} : frame'[d] = frame[d] /\ conn'[d] = conn[d]
      /\ \A d \in Calls : /\ frame'[d].op = frame[d].op
                          /\ frame'[d].key = frame[d].key
                          /\ frame'[d].attempt = frame[d].attempt
  BY <1>1 DEF JInv, IInv, TypeOK, ServiceTypeOK
<1>3. frame[c].attempt # 0
  BY DEF JInv, Attempts, Running
<1>4. \A m \in net : m \in Request
  BY DEF JInv, IInv, TypeOK, ServiceTypeOK
<1>5. Attempts'
  <2>1. ASSUME NEW d \in Calls
        PROVE  /\ conn'[d].attempt # 0 => conn'[d].attempt = frame'[d].attempt
               /\ Running(d)' => frame'[d].result = "none" /\ frame'[d].attempt # 0
               /\ frame'[d].pc = "done" => frame'[d].result # "none"
               /\ frame'[d].result = "invalid" => frame'[d].key = NoKey
               /\ frame'[d].result \notin {"none", "invalid"} => frame'[d].attempt # 0
    <3>1. CASE d = c
      BY <1>2, <1>3, <3>1 DEF Running
    <3>2. CASE d # c
      BY <1>2, <3>2 DEF JInv, Attempts, Running
    <3> QED
      BY <3>1, <3>2
  <2>2. ASSUME NEW m \in net
        PROVE  /\ m.attempt <= frame'[m.call].attempt
               /\ conn'[m.call].answer # "none" => m.attempt # conn'[m.call].attempt
               /\ ~RefusedAtOnce(frame'[m.call])
    <3>1. CASE m.call = c
      <4>1. m.attempt <= frame[c].attempt /\ m.attempt \in 1..MaxAttempts
        BY <1>4, <3>1 DEF JInv, Attempts
      <4>2. conn[c].answer = "refused" => conn[c].attempt = frame[c].attempt
        BY DEF JInv, IInv, Connected, Attempts
      <4>3. conn[c].answer = "refused" => m.attempt # conn[c].attempt
        BY <3>1 DEF JInv, Attempts
      <4>4. ~RefusedAtOnce(frame'[c])
        BY <1>2, <4>1, <4>2, <4>3 DEF RefusedAtOnce
      <4> QED
        BY <1>2, <3>1, <4>1, <4>4
    <3>2. CASE m.call # c
      BY <1>2, <1>4, <3>2 DEF JInv, Attempts
    <3> QED
      BY <3>1, <3>2
  <2> QED
    BY <1>1, <2>1, <2>2 DEF Attempts
<1>6. Caused'
  <2> SUFFICES ASSUME NEW p \in Mutations, effects[p] # 0
               PROVE  \E d \in Calls : /\ Submitted(d)'
                                       /\ frame'[d].op = p
                                       /\ ~RefusedAtOnce(frame'[d])
                                       /\ ~(conn'[d].answer = "refused" /\ frame'[d].attempt = 1)
    BY <1>1 DEF Caused
  <2> PICK d \in Calls : /\ Submitted(d)
                         /\ frame[d].op = p
                         /\ ~RefusedAtOnce(frame[d])
                         /\ ~(conn[d].answer = "refused" /\ frame[d].attempt = 1)
    BY DEF JInv, Caused
  <2>1. ~RefusedAtOnce(frame'[d])
    BY <1>2 DEF RefusedAtOnce
  <2>2. ~(conn'[d].answer = "refused" /\ frame'[d].attempt = 1)
    BY <1>2
  <2> QED
    BY <1>2, <2>1, <2>2 DEF Submitted
<1>7. Promise!Succeed(c) \/ Promise!Decline(c) \/ Promise!Abandon({c})
  <2>1. PhaseOf(frame[c]) = "open"
    BY Phases
  <2>2. \A d \in Calls \ {c} : PhaseOf(frame'[d]) = PhaseOf(frame[d])
    BY <1>2
  <2>3. [d \in Calls |-> frame'[d].op] = [d \in Calls |-> frame[d].op]
    BY <1>2
  <2>4. CASE r = "ok"
    <3>1. PhaseOf(frame'[c]) = "ok"
      BY <1>2, <2>4, Phases
    <3>2. [d \in Calls |-> PhaseOf(frame'[d])] = [[d \in Calls |-> PhaseOf(frame[d])] EXCEPT ![c] = "ok"]
      BY <2>2, <3>1
    <3> QED
      BY <1>1, <2>1, <2>3, <2>4, <3>2 DEF Promise!Succeed
  <2>5. CASE r # "ok" /\ Settled(frame'[c])
    <3>1. PhaseOf(frame'[c]) = "declined"
      BY <1>2, <2>5, Phases
    <3>2. [d \in Calls |-> PhaseOf(frame'[d])] = [[d \in Calls |-> PhaseOf(frame[d])] EXCEPT ![c] = "declined"]
      BY <2>2, <3>1
    <3> QED
      BY <1>1, <2>1, <2>3, <3>2 DEF Promise!Decline
  <2>6. CASE r # "ok" /\ ~Settled(frame'[c])
    <3>1. PhaseOf(frame'[c]) = "doubt"
      BY <1>2, <2>6, Phases
    <3>2. [d \in Calls |-> PhaseOf(frame'[d])]
            = [d \in Calls |-> IF d \in {c} THEN "doubt"
                               ELSE [e \in Calls |-> PhaseOf(frame[e])][d]]
      BY <2>2, <3>1
    <3> QED
      BY <1>1, <2>1, <2>3, <3>2 DEF Promise!Abandon
  <2> QED
    BY <2>4, <2>5, <2>6
<1> QED
  BY <1>5, <1>6, <1>7 DEF JInv

\* What the abstract state is made of.
promised == <<[o \in Mutations |-> effects[o]],
              [c \in Calls |-> frame[c].op],
              [c \in Calls |-> PhaseOf(frame[c])]>>

\* A call that ends tells the promise what it was told.
LEMMA FinishJ ==
    ASSUME JInv, IInv', NEW c \in Calls, Finish(c)
    PROVE  JInv' /\ (Promise!Succeed(c) \/ Promise!Decline(c) \/ Promise!Abandon({c}))
<1> DEFINE a == conn[c].answer
<1>1. a \in Answers /\ a # "conflict"
  BY DEF Finish, JInv, IInv, TypeOK, ServiceTypeOK, Truthful
<1>2. /\ ResultOf(a) \in Results \ {"invalid"}
      /\ ResultOf(a) = "ok" => a = "ok"
      /\ ResultOf(a) = "refused" => a = "refused"
  BY <1>1 DEF ResultOf
<1> QED
  BY <1>2, ReturnJ DEF Finish, JInv, IInv, Truthful

\* Going to sleep and waking up do not show.
LEMMA SleepJ ==
    ASSUME JInv, IInv', NEW c \in Calls, frame[c].pc = "wait", Sleep(c)
    PROVE  JInv' /\ UNCHANGED promised
<1>1. /\ frame' = [frame EXCEPT ![c].pc = "backoff"]
      /\ conn' = [conn EXCEPT ![c] = NotConnected]
      /\ UNCHANGED <<net, recorded, effects>>
  BY DEF Sleep, HangUp
<1>2. /\ frame'[c].pc = "backoff"
      /\ conn'[c] = NotConnected
      /\ \A d \in Calls \ {c} : frame'[d] = frame[d] /\ conn'[d] = conn[d]
      /\ \A d \in Calls : /\ frame'[d].op = frame[d].op
                          /\ frame'[d].key = frame[d].key
                          /\ frame'[d].attempt = frame[d].attempt
                          /\ frame'[d].result = frame[d].result
  BY <1>1 DEF JInv, IInv, TypeOK, ServiceTypeOK
<1>3. frame[c].attempt # 0 /\ frame[c].result = "none"
  BY DEF JInv, Attempts, Running
<1>4. \A m \in net : m \in Request
  BY DEF JInv, IInv, TypeOK, ServiceTypeOK
<1>5. Attempts'
  <2>1. ASSUME NEW d \in Calls
        PROVE  /\ conn'[d].attempt # 0 => conn'[d].attempt = frame'[d].attempt
               /\ Running(d)' => frame'[d].result = "none" /\ frame'[d].attempt # 0
               /\ frame'[d].pc = "done" => frame'[d].result # "none"
               /\ frame'[d].result = "invalid" => frame'[d].key = NoKey
               /\ frame'[d].result \notin {"none", "invalid"} => frame'[d].attempt # 0
    <3>1. CASE d = c
      BY <1>2, <1>3, <3>1 DEF Running
    <3>2. CASE d # c
      BY <1>2, <3>2 DEF JInv, Attempts, Running
    <3> QED
      BY <3>1, <3>2
  <2>2. ASSUME NEW m \in net
        PROVE  /\ m.attempt <= frame'[m.call].attempt
               /\ conn'[m.call].answer # "none" => m.attempt # conn'[m.call].attempt
               /\ ~RefusedAtOnce(frame'[m.call])
    <3>1. CASE m.call = c
      BY <1>2, <1>3, <3>1 DEF JInv, Attempts, RefusedAtOnce
    <3>2. CASE m.call # c
      BY <1>2, <1>4, <3>2 DEF JInv, Attempts
    <3> QED
      BY <3>1, <3>2
  <2> QED
    BY <1>1, <2>1, <2>2 DEF Attempts
<1>6. Caused'
  <2> SUFFICES ASSUME NEW p \in Mutations, effects[p] # 0
               PROVE  \E d \in Calls : /\ Submitted(d)'
                                       /\ frame'[d].op = p
                                       /\ ~RefusedAtOnce(frame'[d])
                                       /\ ~(conn'[d].answer = "refused" /\ frame'[d].attempt = 1)
    BY <1>1 DEF Caused
  <2> PICK d \in Calls : /\ Submitted(d)
                         /\ frame[d].op = p
                         /\ ~RefusedAtOnce(frame[d])
                         /\ ~(conn[d].answer = "refused" /\ frame[d].attempt = 1)
    BY DEF JInv, Caused
  <2> QED
    BY <1>2 DEF Submitted, RefusedAtOnce
<1>7. UNCHANGED promised
  <2>1. \A d \in Calls : PhaseOf(frame'[d]) = PhaseOf(frame[d])
    BY <1>2, Phases
  <2> QED
    BY <1>1, <1>2, <2>1 DEF promised
<1> QED
  BY <1>5, <1>6, <1>7 DEF JInv

\* A lost connection leaves the outcome open, or in doubt.
LEMMA LoseConnectionJ ==
    ASSUME JInv, IInv', NEW c \in Calls, LoseConnection(c)
    PROVE  JInv' /\ (UNCHANGED promised \/ Promise!Succeed(c) \/ Promise!Decline(c)
                        \/ Promise!Abandon({c}))
<1>1. CASE MayRetry(c)
  BY <1>1, SleepJ DEF LoseConnection
<1>2. CASE ~MayRetry(c)
  BY <1>2, ReturnJ DEF LoseConnection
<1> QED
  BY <1>1, <1>2

\* Another attempt is a stutter of the promise.
LEMMA ResendJ ==
    ASSUME JInv, IInv', NEW c \in Calls, Resend(c)
    PROVE  JInv' /\ UNCHANGED promised
<1> DEFINE n == frame[c].attempt + 1
           r == [call |-> c, attempt |-> n, op |-> frame[c].op,
                 key |-> frame[c].key, body |-> frame[c].body]
<1>1. /\ frame' = [frame EXCEPT ![c].pc = "wait", ![c].attempt = n]
      /\ net' = net \cup {r}
      /\ conn' = [conn EXCEPT ![c] = [attempt |-> n, answer |-> "none"]]
      /\ UNCHANGED <<recorded, effects>>
      /\ frame[c].pc = "backoff"
  BY DEF Resend, Send, RequestOf, NextAttempt
<1>2. /\ frame'[c].pc = "wait"
      /\ frame'[c].attempt = n
      /\ conn'[c] = [attempt |-> n, answer |-> "none"]
      /\ \A d \in Calls \ {c} : frame'[d] = frame[d] /\ conn'[d] = conn[d]
      /\ \A d \in Calls : /\ frame'[d].op = frame[d].op
                          /\ frame'[d].key = frame[d].key
                          /\ frame'[d].result = frame[d].result
  BY <1>1 DEF JInv, IInv, TypeOK, ServiceTypeOK
<1>3. frame[c].attempt \in Nat /\ n # 0 /\ frame[c].result = "none"
  BY <1>1 DEF JInv, IInv, TypeOK, Attempts, Running
<1>4. \A m \in net : m \in Request
  BY DEF JInv, IInv, TypeOK, ServiceTypeOK
<1>5. Attempts'
  <2>1. ASSUME NEW d \in Calls
        PROVE  /\ conn'[d].attempt # 0 => conn'[d].attempt = frame'[d].attempt
               /\ Running(d)' => frame'[d].result = "none" /\ frame'[d].attempt # 0
               /\ frame'[d].pc = "done" => frame'[d].result # "none"
               /\ frame'[d].result = "invalid" => frame'[d].key = NoKey
               /\ frame'[d].result \notin {"none", "invalid"} => frame'[d].attempt # 0
    <3>1. CASE d = c
      BY <1>2, <1>3, <3>1 DEF Running
    <3>2. CASE d # c
      BY <1>2, <3>2 DEF JInv, Attempts, Running
    <3> QED
      BY <3>1, <3>2
  <2>2. ASSUME NEW m \in net'
        PROVE  /\ m.attempt <= frame'[m.call].attempt
               /\ conn'[m.call].answer # "none" => m.attempt # conn'[m.call].attempt
               /\ ~RefusedAtOnce(frame'[m.call])
    <3>1. CASE m = r
      BY <1>2, <1>3, <3>1 DEF RefusedAtOnce
    <3>2. CASE m \in net /\ m.call = c
      <4>1. m.attempt <= frame[c].attempt /\ m.attempt \in Nat
        BY <1>4, <3>2 DEF JInv, Attempts
      <4> QED
        BY <1>2, <1>3, <3>2, <4>1 DEF RefusedAtOnce
    <3>3. CASE m \in net /\ m.call # c
      BY <1>2, <1>4, <3>3 DEF JInv, Attempts
    <3> QED
      BY <1>1, <3>1, <3>2, <3>3
  <2> QED
    BY <2>1, <2>2 DEF Attempts
<1>6. Caused'
  <2> SUFFICES ASSUME NEW p \in Mutations, effects[p] # 0
               PROVE  \E d \in Calls : /\ Submitted(d)'
                                       /\ frame'[d].op = p
                                       /\ ~RefusedAtOnce(frame'[d])
                                       /\ ~(conn'[d].answer = "refused" /\ frame'[d].attempt = 1)
    BY <1>1 DEF Caused
  <2> PICK d \in Calls : /\ Submitted(d)
                         /\ frame[d].op = p
                         /\ ~RefusedAtOnce(frame[d])
                         /\ ~(conn[d].answer = "refused" /\ frame[d].attempt = 1)
    BY DEF JInv, Caused
  <2>1. CASE d = c
    BY <1>2, <1>3, <2>1 DEF Submitted, RefusedAtOnce
  <2>2. CASE d # c
    BY <1>2, <2>2 DEF Submitted, RefusedAtOnce
  <2> QED
    BY <2>1, <2>2
<1>7. UNCHANGED promised
  <2>1. ASSUME NEW d \in Calls PROVE PhaseOf(frame'[d]) = PhaseOf(frame[d])
    <3>1. PhaseOf(frame[c]) = "open" /\ PhaseOf(frame'[c]) = "open"
      BY <1>1, <1>2, Phases
    <3> QED
      BY <1>2, <3>1
  <2> QED
    BY <1>1, <1>2, <2>1 DEF promised
<1> QED
  BY <1>5, <1>6, <1>7 DEF JInv

-----------------------------------------------------------------------------
\* A crash leaves every running call in doubt at once.
LEMMA CrashJ ==
    ASSUME JInv, IInv', Crash
    PROVE  JInv' /\ Promise!Abandon({c \in Calls : Running(c)})
<1>1. /\ conn' = [c \in Calls |-> NotConnected]
      /\ UNCHANGED <<net, recorded, effects>>
  BY DEF Crash
<1>2. ASSUME NEW c \in Calls
      PROVE  /\ frame'[c].op = frame[c].op
             /\ frame'[c].key = frame[c].key
             /\ frame'[c].attempt = frame[c].attempt
             /\ ~Running(c) => frame'[c] = frame[c]
             /\ Running(c) => frame'[c].pc = "done" /\ frame'[c].result = "crashed"
  <2>1. frame'[c] = IF Running(c) THEN [frame[c] EXCEPT !.pc = "done", !.result = "crashed"]
                                  ELSE frame[c]
    BY DEF Crash
  <2>2. frame[c] \in Frame
    BY DEF JInv, IInv, TypeOK
  <2> QED
    BY <2>1, <2>2
<1>3. \A m \in net : m \in Request
  BY DEF JInv, IInv, TypeOK, ServiceTypeOK
<1>4. \A c \in Calls : RefusedAtOnce(frame'[c]) => RefusedAtOnce(frame[c])
  BY <1>2 DEF RefusedAtOnce
<1>5. Attempts'
  <2>1. ASSUME NEW d \in Calls
        PROVE  /\ conn'[d].attempt # 0 => conn'[d].attempt = frame'[d].attempt
               /\ Running(d)' => frame'[d].result = "none" /\ frame'[d].attempt # 0
               /\ frame'[d].pc = "done" => frame'[d].result # "none"
               /\ frame'[d].result = "invalid" => frame'[d].key = NoKey
               /\ frame'[d].result \notin {"none", "invalid"} => frame'[d].attempt # 0
    <3>1. CASE Running(d)
      BY <1>1, <1>2, <3>1 DEF JInv, Attempts, Running
    <3>2. CASE ~Running(d)
      BY <1>1, <1>2, <3>2 DEF JInv, Attempts, Running
    <3> QED
      BY <3>1, <3>2
  <2>2. ASSUME NEW m \in net
        PROVE  /\ m.attempt <= frame'[m.call].attempt
               /\ conn'[m.call].answer # "none" => m.attempt # conn'[m.call].attempt
               /\ ~RefusedAtOnce(frame'[m.call])
    BY <1>1, <1>2, <1>3, <1>4 DEF JInv, Attempts
  <2> QED
    BY <1>1, <2>1, <2>2 DEF Attempts
<1>6. Caused'
  BY <1>1, <1>2, <1>4 DEF JInv, Caused, Submitted
<1>7. Promise!Abandon({c \in Calls : Running(c)})
  <2> DEFINE S == {c \in Calls : Running(c)}
             phase == [c \in Calls |-> PhaseOf(frame[c])]
  <2>1. \A c \in S : phase[c] = "open"
    BY Phases DEF Running
  <2>2. ASSUME NEW c \in Calls
        PROVE  PhaseOf(frame'[c]) = IF c \in S THEN "doubt" ELSE phase[c]
    <3>1. CASE Running(c)
      BY <1>2, <3>1, Phases DEF Settled
    <3>2. CASE ~Running(c)
      BY <1>2, <3>2
    <3> QED
      BY <3>1, <3>2
  <2>3. [c \in Calls |-> PhaseOf(frame'[c])] = [c \in Calls |-> IF c \in S THEN "doubt" ELSE phase[c]]
    BY <2>2
  <2>4. [c \in Calls |-> frame'[c].op] = [c \in Calls |-> frame[c].op]
    BY <1>2
  <2>5. [o \in Mutations |-> effects'[o]] = [o \in Mutations |-> effects[o]]
    BY <1>1
  <2> HIDE DEF S
  <2>6. Promise!Abandon(S)
    BY <2>1, <2>3, <2>4, <2>5 DEF Promise!Abandon
  <2> QED
    BY <2>6 DEF S
<1> QED
  BY <1>5, <1>6, <1>7 DEF JInv

-----------------------------------------------------------------------------
\* An answer to a request of a command that was not turned down on its first
\* attempt while its effect exists: the answer "refused" needs a free key.
LEMMA AnswerJ ==
    ASSUME JInv, IInv', NEW m \in net, NEW a \in Answers, Answer(m, a), UNCHANGED frame
    PROVE  Attempts'
<1>1. m \in Request /\ m.call \in Calls
  BY DEF JInv, IInv, TypeOK, ServiceTypeOK
<1>0. ASSUME NEW c \in Calls
      PROVE  \/ conn'[c] = conn[c]
             \/ c = m.call /\ conn'[c] = [attempt |-> conn[c].attempt, answer |-> a]
  BY AnswerFacts DEF JInv
<1>2. ASSUME NEW c \in Calls PROVE conn'[c].attempt = conn[c].attempt
  <2>1. CASE conn'[c] = conn[c]
    BY <2>1
  <2>2. CASE conn'[c] = [attempt |-> conn[c].attempt, answer |-> a]
    BY <2>2
  <2> QED
    BY <1>0, <2>1, <2>2
<1>3. ASSUME NEW q \in net'
      PROVE  /\ q.attempt <= frame[q.call].attempt
             /\ conn'[q.call].answer # "none" => q.attempt # conn'[q.call].attempt
             /\ ~RefusedAtOnce(frame[q.call])
  <2>1. q \in net /\ q # m /\ q \in Request
    BY <1>3 DEF Answer, JInv, IInv, TypeOK, ServiceTypeOK
  <2>2. CASE q.call # m.call
    <3>1. conn'[q.call] = conn[q.call]
      <4>1. q.call \in Calls
        BY <2>1
      <4> QED
        BY <1>0, <2>2, <4>1
    <3> QED
      BY <2>1, <3>1 DEF JInv, Attempts
  <2>3. CASE q.call = m.call
    <3>1. q.attempt # m.attempt
      <4>1. q.op = m.op /\ q.key = m.key /\ q.body = m.body
        BY <2>1, <2>3 DEF JInv, IInv, Wire
      <4> QED
        BY <1>1, <2>1, <2>3, <4>1
    <3>2. CASE conn[m.call].attempt = m.attempt
      BY <1>1, <1>2, <2>1, <2>3, <3>1, <3>2 DEF JInv, Attempts
    <3>3. CASE conn[m.call].attempt # m.attempt
      <4>1. conn' = conn
        BY <3>3 DEF Answer
      <4> QED
        BY <2>1, <4>1 DEF JInv, Attempts
    <3> QED
      BY <3>2, <3>3
  <2> QED
    BY <2>2, <2>3
<1> QED
  BY <1>2, <1>3 DEF JInv, Attempts, Running

\* An answer that leaves the records alone does not show either.
LEMMA SilentAnswerJ ==
    ASSUME JInv, IInv', NEW m \in net, NEW a \in Answers, Answer(m, a),
           UNCHANGED <<recorded, effects>>, UNCHANGED clientVars,
           a = "refused" /\ m.op \in Mutations => recorded[m.key] = NoBody
    PROVE  JInv' /\ UNCHANGED promised
<1> USE DEF clientVars
<1>1. Attempts'
  BY AnswerJ
<1>2. Caused'
  <2> SUFFICES ASSUME NEW p \in Mutations, effects[p] # 0
               PROVE  \E d \in Calls : /\ Submitted(d)
                                       /\ frame[d].op = p
                                       /\ ~RefusedAtOnce(frame[d])
                                       /\ ~(conn'[d].answer = "refused" /\ frame[d].attempt = 1)
    BY DEF Caused, Submitted
  <2> PICK d \in Calls : /\ Submitted(d)
                         /\ frame[d].op = p
                         /\ ~RefusedAtOnce(frame[d])
                         /\ ~(conn[d].answer = "refused" /\ frame[d].attempt = 1)
    BY DEF JInv, Caused
  <2>1. CASE conn'[d] = conn[d]
    BY <2>1
  <2>2. CASE d = m.call /\ conn'[d] = [attempt |-> conn[d].attempt, answer |-> a]
    <3>1. m.op = p /\ recorded[m.key] # NoBody
      BY <2>2 DEF JInv, IInv, Wire, Ledgered
    <3> QED
      BY <2>2, <3>1
  <2> QED
    BY <2>1, <2>2, AnswerFacts DEF JInv
<1>3. UNCHANGED promised
  BY DEF promised
<1> QED
  BY <1>1, <1>2, <1>3 DEF JInv

\* The Worker's commit is the moment the abstract command takes effect.
LEMMA CommitJ ==
    ASSUME JInv, IInv', NEW m \in net, Commit(m), UNCHANGED clientVars
    PROVE  JInv' /\ Promise!Apply(m.op)
<1> USE DEF clientVars
<1> PICK a \in {"ok", "retryable"} \cup Damaged : Answer(m, a)
  BY DEF Commit
<1>0. a \in Answers /\ a # "refused" /\ IInv
  BY DEF JInv
<1>1. /\ m \in Request /\ m.call \in Calls /\ Submitted(m.call) /\ m.key \in Keys
      /\ frame[m.call].key = m.key /\ frame[m.call].op = m.op
      /\ m.op \in Mutations
  BY <1>0, SenderFacts DEF Commit
<1>2. recorded[m.key] = NoBody /\ effects[m.op] = 0
  BY <1>0, <1>1 DEF Commit, IInv, Ledgered
<1>3. effects' = [effects EXCEPT ![m.op] = 1]
  BY <1>0, <1>2 DEF Commit, IInv, TypeOK, ServiceTypeOK
<1>4. Attempts'
  BY <1>0, AnswerJ
<1>5. Caused'
  <2> SUFFICES ASSUME NEW p \in Mutations, effects'[p] # 0
               PROVE  \E d \in Calls : /\ Submitted(d)
                                       /\ frame[d].op = p
                                       /\ ~RefusedAtOnce(frame[d])
                                       /\ ~(conn'[d].answer = "refused" /\ frame[d].attempt = 1)
    BY DEF Caused, Submitted
  <2>1. CASE p = m.op
    <3>1. ~RefusedAtOnce(frame[m.call])
      BY DEF JInv, Attempts
    <3>2. ~(conn'[m.call].answer = "refused" /\ frame[m.call].attempt = 1)
      <4>1. CASE conn'[m.call] = [attempt |-> conn[m.call].attempt, answer |-> a]
        BY <1>0, <4>1
      <4>2. CASE conn'[m.call] = conn[m.call]
        <5>1. m.attempt <= frame[m.call].attempt /\ m.attempt \in 1..MaxAttempts
          BY <1>1 DEF JInv, Attempts
        <5>2. conn[m.call].answer = "refused" => /\ conn[m.call].attempt = frame[m.call].attempt
                                                 /\ m.attempt # conn[m.call].attempt
          BY <1>1 DEF JInv, IInv, Connected, Attempts
        <5> QED
          BY <4>2, <5>1, <5>2
      <4> QED
        BY <1>0, <1>1, <4>1, <4>2, AnswerFacts
    <3> QED
      BY <1>1, <2>1, <3>1, <3>2
  <2>2. CASE p # m.op
    <3>1. effects[p] # 0
      BY <1>0, <1>3, <2>2 DEF IInv, TypeOK, ServiceTypeOK
    <3> PICK d \in Calls : /\ Submitted(d)
                           /\ frame[d].op = p
                           /\ ~RefusedAtOnce(frame[d])
                           /\ ~(conn[d].answer = "refused" /\ frame[d].attempt = 1)
      BY <3>1 DEF JInv, Caused
    <3>2. d # m.call
      BY <1>1, <2>2
    <3>3. conn'[d] = conn[d]
      BY <1>0, <3>2, AnswerFacts
    <3> QED
      BY <3>3
  <2> QED
    BY <2>1, <2>2
<1>6. Promise!Apply(m.op)
  <2>1. PhaseOf(frame[m.call]) \in {"open", "doubt"}
    <3>1. frame[m.call] \in Frame /\ frame[m.call].pc # "idle"
      BY <1>0, <1>1 DEF IInv, TypeOK, Frames, Submitted
    <3>2. frame[m.call].result # "ok"
      BY <1>0, <1>1, <1>2 DEF IInv, Truthful
    <3>3. ~Settled(frame[m.call])
      BY <1>1 DEF JInv, Attempts, Settled, RefusedAtOnce
    <3> QED
      BY <3>1, <3>2, <3>3, Phases
  <2>2. [o \in Mutations |-> effects'[o]] = [[o \in Mutations |-> effects[o]] EXCEPT ![m.op] = 1]
    BY <1>0, <1>1, <1>3 DEF IInv, TypeOK, ServiceTypeOK
  <2> QED
    BY <1>1, <1>2, <2>1, <2>2 DEF Promise!Apply
<1> QED
  BY <1>4, <1>5, <1>6 DEF JInv

\* Whatever else the Worker does, it does not show.
LEMMA WorkerJ ==
    ASSUME JInv, IInv', Worker
    PROVE  JInv' /\ (UNCHANGED promised \/ \E o \in Mutations : Promise!Apply(o))
<1> PICK m \in net : Handle(m) /\ UNCHANGED clientVars
  BY DEF Worker
<1>1. CASE Commit(m)
  <2>1. m.op \in Mutations
    BY <1>1 DEF Commit
  <2> QED
    BY <1>1, <2>1, CommitJ
<1>2. CASE Replay(m)
  <2>1. PICK a \in {"ok", "retryable"} \cup Damaged : Answer(m, a)
    BY <1>2 DEF Replay
  <2>2. a \in Answers /\ a # "refused" /\ UNCHANGED <<recorded, effects>>
    BY <1>2 DEF Replay
  <2> QED
    BY <2>1, <2>2, SilentAnswerJ
<1>3. CASE Conflict(m)
  <2>1. recorded[m.key] \in {NoBody, m.body}
    BY <1>3, SenderFacts DEF Conflict, JInv, IInv, Ledgered
  <2> QED
    BY <1>3, <2>1 DEF Conflict
<1>4. CASE TurnDown(m)
  <2>1. PICK a \in {"refused", "retryable"} \cup Damaged : Answer(m, a)
    BY <1>4 DEF TurnDown
  <2>2. a \in Answers /\ recorded[m.key] = NoBody /\ UNCHANGED <<recorded, effects>>
    BY <1>4, SenderFacts DEF TurnDown, JInv
  <2> QED
    BY <2>1, <2>2, SilentAnswerJ
<1>5. CASE Query(m)
  <2>1. PICK a \in Answers \ {"conflict"} : Answer(m, a)
    BY <1>5 DEF Query
  <2>2. m.op \notin Mutations /\ UNCHANGED <<recorded, effects>>
    BY <1>5 DEF Query
  <2> QED
    BY <2>1, <2>2, SilentAnswerJ
<1> QED
  BY <1>1, <1>2, <1>3, <1>4, <1>5 DEF Handle

-----------------------------------------------------------------------------
\* Steps that touch nothing of what JInv speaks of, and do not show.
LEMMA QuietJ ==
    ASSUME JInv, IInv', UNCHANGED <<serviceVars, frame>>
    PROVE  JInv' /\ UNCHANGED promised
<1> USE DEF serviceVars
<1>1. Attempts' /\ Caused'
  BY DEF JInv, Attempts, Caused, Running, Submitted
<1>2. UNCHANGED promised
  BY DEF promised
<1> QED
  BY <1>1, <1>2 DEF JInv

\* Every step keeps the invariant, and is a step of the promise or invisible.
LEMMA NextJ == JInv /\ [Next]_vars => JInv' /\ [Promise!Next]_(Promise!vars)
<1> SUFFICES ASSUME JInv, [Next]_vars
             PROVE  JInv' /\ (Promise!Next \/ UNCHANGED promised)
  BY DEF Promise!vars, promised
<1>0. IInv'
  BY NextInv DEF JInv
<1>1. ASSUME NEW c \in Calls, NEW o \in Ops,
             FirstCall(c, o) \/ RepeatCall(c, o) \/ ReadCall(c, o)
      PROVE  JInv' /\ Promise!Invoke(c, o)
  <2>1. frame[c].pc = "idle"
    BY <1>1 DEF FirstCall, RepeatCall, ReadCall
  <2>2. \E k, b : Enter(c, o, k, b)
    BY <1>1 DEF FirstCall, RepeatCall, ReadCall
  <2> QED
    BY <1>0, <2>1, <2>2, EnterJ
<1>2. ASSUME NEW c \in Calls, Begin(c) PROVE JInv' /\ Promise!Next
  <2> PICK o \in Ops : FirstCall(c, o) \/ RepeatCall(c, o) \/ ReadCall(c, o) \/ InvalidCall(c, o)
    BY <1>2 DEF Begin
  <2>1. o \in Mutations \cup Reads
    OBVIOUS
  <2> QED
    BY <1>0, <1>1, <2>1, InvalidCallJ DEF Promise!Next
<1>3. ASSUME NEW c \in Calls, Step(c) PROVE JInv' /\ (Promise!Next \/ UNCHANGED promised)
  <2>0. {c} \in SUBSET Calls
    OBVIOUS
  <2>1. CASE Finish(c)
    BY <1>0, <2>0, <2>1, FinishJ DEF Promise!Next
  <2>2. CASE RetryError(c)
    BY <1>0, <2>2, SleepJ DEF RetryError
  <2>3. CASE LoseConnection(c)
    BY <1>0, <2>0, <2>3, LoseConnectionJ DEF Promise!Next
  <2>4. CASE Resend(c)
    BY <1>0, <2>4, ResendJ
  <2> QED
    BY <1>3, <2>1, <2>2, <2>3, <2>4 DEF Step
<1>4. ASSUME NEW o \in Ops, EditDraft(o) PROVE JInv' /\ UNCHANGED promised
  BY <1>0, <1>4, QuietJ DEF EditDraft
<1>5. CASE Worker
  BY <1>0, <1>5, WorkerJ DEF Promise!Next
<1>6. CASE Crash
  <2>1. {c \in Calls : Running(c)} \in SUBSET Calls
    OBVIOUS
  <2> QED
    BY <1>0, <1>6, <2>1, CrashJ DEF Promise!Next
<1>7. CASE UNCHANGED vars
  BY <1>0, <1>7, QuietJ DEF vars
<1> QED
  BY <1>2, <1>3, <1>4, <1>5, <1>6, <1>7 DEF Next

\* The strengthened invariant holds in every reachable state.
LEMMA AttemptsInvariant == Spec => []JInv
BY InitJ, NextJ, PTL DEF Spec

\* The request loop with its retries, the application that repeats commands and
\* may crash, the network that loses and delays, and the Worker implement one
\* atomic command per operation.
THEOREM ClientKeepsThePromise == Spec => KeepsThePromise
<1>1. Init => Promise!Init
  BY InitJ
<1>2. JInv /\ [Next]_vars => [Promise!Next]_(Promise!vars)
  BY NextJ
<1> QED
  BY <1>1, <1>2, AttemptsInvariant, PTL DEF Spec, KeepsThePromise, Promise!Spec

\* A command all of whose calls were refused at their first attempt was not
\* applied and never will be.
THEOREM RefusalsAreFinal == Spec => []RefusalIsFinal
<1>1. JInv => RefusalIsFinal
  <2> SUFFICES ASSUME JInv, NEW o \in Mutations,
                      \A c \in CallsOf(o) : /\ frame[c].result \in {"refused", "invalid"}
                                            /\ frame[c].attempt <= 1
               PROVE  effects[o] = 0 /\ \A m \in net : m.op # o
    BY DEF RefusalIsFinal
  <2>1. ASSUME NEW c \in CallsOf(o) PROVE ~Submitted(c) \/ RefusedAtOnce(frame[c])
    <3>1. c \in Calls /\ frame[c] \in Frame
      BY DEF CallsOf, JInv, IInv, TypeOK
    <3>2. CASE frame[c].result = "invalid"
      BY <3>1, <3>2 DEF JInv, Attempts, Submitted
    <3>3. CASE frame[c].result = "refused"
      <4>1. frame[c].attempt # 0
        BY <3>1, <3>3 DEF JInv, Attempts
      <4> QED
        BY <3>1, <3>3, <4>1 DEF RefusedAtOnce
    <3> QED
      BY <3>2, <3>3
  <2>2. effects[o] = 0
    BY <2>1 DEF JInv, Caused, CallsOf
  <2>3. ASSUME NEW m \in net, m.op = o PROVE FALSE
    <3>1. m.call \in CallsOf(o) /\ Submitted(m.call)
      BY <2>3, SenderFacts DEF JInv, CallsOf
    <3> QED
      BY <2>1, <3>1 DEF JInv, Attempts
  <2> QED
    BY <2>2, <2>3
<1> QED
  BY <1>1, AttemptsInvariant, PTL
=============================================================================
