---------------------------- MODULE GoClientProofs ----------------------------
(***************************************************************************)
(* Theorems about GoClient for every set of calls, operations, keys and    *)
(* bodies and every number of attempts: its invariants first, then that it *)
(* implements AtomicCommand.                                               *)
(*                                                                         *)
(* The argument is that of PyClientProofs, with two turns.  A mutation     *)
(* without a key (ConfigureAddon) is told by its body, so what is said of  *)
(* the calls of a command is said of Made calls, and what is said of the   *)
(* Worker's records of those that carry a key.  An attempt made under a done *)
(* context waits without a connection.                                     *)
(***************************************************************************)
EXTENDS GoClient, TLAPS

\* The calls of mutations that entered the loop.
Made(c) == frame[c].body \in Bodies

Frames ==
    \A c \in Calls :
        /\ frame[c].pc = "idle" => frame[c] = Uncalled /\ ~expired[c]
        /\ Running(c) => frame[c].op \in Ops
        /\ Running(c) /\ frame[c].op \in Mutations => Made(c)
        /\ frame[c].pc = "backoff" => frame[c].op \in Mutations /\ frame[c].attempt < MaxAttempts

\* A call that was made carries the body stored for its operation, and a key if its
\* method guarantees one; a stored key is that of a call.
Stored ==
    /\ \A c \in Calls : Made(c) =>
            /\ frame[c].op \in Mutations \ Invalid
            /\ intent[frame[c].op].body = frame[c].body
            /\ frame[c].op \in Commands => frame[c].key \in Keys
    /\ \A c \in Calls : frame[c].op \in Mutations \ Invalid => Made(c)
    /\ \A o \in Ops : intent[o].key # NoKey =>
            \E c \in Calls : Made(c) /\ frame[c].op = o /\ frame[c].key = intent[o].key

\* The calls of one operation have one key, or none; no other operation has it.
Identity ==
    \A c \in Calls, d \in Calls : Made(c) /\ Made(d) =>
        /\ frame[c].op = frame[d].op => frame[c].key = frame[d].key
        /\ frame[c].key = frame[d].key /\ frame[c].key \in Keys => frame[c].op = frame[d].op

\* A request is a copy of the call that sent it.
Wire ==
    \A m \in net :
        /\ m.op = frame[m.call].op
        /\ m.key = frame[m.call].key
        /\ m.body = frame[m.call].body
        /\ m.op \in Mutations => m.body \in Bodies

Connected ==
    \A c \in Calls :
        /\ frame[c].pc # "wait" => conn[c] = NotConnected
        /\ conn[c].attempt = 0 => conn[c].answer = "none"

\* The record under a key tells how often the operation of its calls was applied.
Ledgered ==
    /\ \A c \in Calls : Made(c) /\ frame[c].key \in Keys =>
            /\ recorded[frame[c].key] \in {NoBody, frame[c].body}
            /\ effects[frame[c].op] = IF recorded[frame[c].key] = NoBody THEN 0 ELSE 1
    /\ \A k \in Keys : recorded[k] # NoBody => \E c \in Calls : frame[c].key = k
    /\ \A o \in Mutations : effects[o] # 0 => \E c \in Calls : Made(c) /\ frame[c].op = o

\* An error of the SDK has left the key of a command.
KeyLeft ==
    \A c \in Calls : frame[c].op \in Commands /\ frame[c].result \in KeyBearing
        => intent[frame[c].op].key # NoKey

NoConflict == \A c \in Calls : conn[c].answer # "conflict"

IInv == TypeOK /\ Frames /\ Stored /\ Identity /\ Wire /\ Connected /\ Ledgered /\ KeyLeft /\ NoConflict

-----------------------------------------------------------------------------
USE KeyAssumption, BodyAssumption, AttemptsAssumption, NoOpAssumption, ReadsAssumption,
    UnkeyedAssumption
USE DEF Mutations, Commands, Answers, Damaged, Request, NotConnected, Results, KeyBearing,
        Frame, Uncalled, Unstored

\* At first there are no calls, requests or records.
LEMMA InitInv == Init => IInv
<1> SUFFICES ASSUME Init PROVE IInv
  OBVIOUS
<1> USE DEF Init, ServiceInit
<1>1. TypeOK
  BY DEF TypeOK, ServiceTypeOK
<1>2. Frames /\ Stored /\ Identity
  BY DEF Frames, Stored, Identity, Made, Running
<1>3. Wire /\ Connected /\ Ledgered /\ KeyLeft /\ NoConflict
  BY DEF Wire, Connected, Ledgered, KeyLeft, NoConflict, Made
<1> QED
  BY <1>1, <1>2, <1>3 DEF IInv

-----------------------------------------------------------------------------
\* What all ways into the loop have in common.
LEMMA EnterFacts ==
    ASSUME IInv, NEW c \in Calls, frame[c] = Uncalled, NEW o \in Ops,
           NEW k \in Keys \cup {NoKey}, NEW b \in Bodies \cup {NoBody},
           o \in Mutations => b \in Bodies,
           Enter(c, o, k, b)
    PROVE  /\ ServiceTypeOK' /\ frame' \in [Calls -> Frame]
           /\ expired' \in [Calls -> BOOLEAN] /\ \A d \in Calls \ {c} : expired'[d] = expired[d]
           /\ frame'[c] = [pc |-> "wait", op |-> o, key |-> k, body |-> b,
                           attempt |-> 1, result |-> "none"]
           /\ \A d \in Calls \ {c} : frame'[d] = frame[d]
           /\ Wire' /\ Connected' /\ NoConflict'
           /\ recorded' = recorded /\ effects' = effects
<1> DEFINE f == [pc |-> "wait", op |-> o, key |-> k, body |-> b, attempt |-> 1, result |-> "none"]
           r == [call |-> c, attempt |-> 1, op |-> o, key |-> k, body |-> b]
<1>1. /\ frame' = [frame EXCEPT ![c] = f]
      /\ \/ UNCHANGED <<net, conn>>
         \/ /\ net' = net \cup {r}
            /\ conn' = [conn EXCEPT ![c] = [attempt |-> 1, answer |-> "none"]]
      /\ expired' = expired \/ expired' = [expired EXCEPT ![c] = TRUE]
      /\ UNCHANGED <<recorded, effects>>
  BY DEF Enter, Send, RequestOf
<1>2. f \in Frame /\ r \in Request
  OBVIOUS
<1>3. /\ net' \subseteq net \cup {r}
      /\ conn' \in [Calls -> [attempt : 0..MaxAttempts, answer : Answers \cup {"none"}]]
      /\ conn'[c] = conn[c] \/ conn'[c] = [attempt |-> 1, answer |-> "none"]
      /\ \A d \in Calls \ {c} : conn'[d] = conn[d]
  <2>1. conn \in [Calls -> [attempt : 0..MaxAttempts, answer : Answers \cup {"none"}]]
    BY DEF IInv, TypeOK, ServiceTypeOK
  <2>2. [attempt |-> 1, answer |-> "none"] \in [attempt : 0..MaxAttempts, answer : Answers \cup {"none"}]
    OBVIOUS
  <2> HIDE DEF r
  <2>3. CASE net' = net /\ conn' = conn
    BY <2>1, <2>3
  <2>4. CASE net' = net \cup {r} /\ conn' = [conn EXCEPT ![c] = [attempt |-> 1, answer |-> "none"]]
    BY <2>1, <2>2, <2>4
  <2> QED
    BY <1>1, <2>3, <2>4
<1>4. frame' \in [Calls -> Frame]
  BY <1>1, <1>2 DEF IInv, TypeOK
<1>5. frame'[c] = f /\ \A d \in Calls \ {c} : frame'[d] = frame[d]
  BY <1>1 DEF IInv, TypeOK
<1>6. \A m \in net : m.call # c
  <2> SUFFICES ASSUME NEW m \in net, m.call = c PROVE FALSE
    OBVIOUS
  <2>1. m.op = NoOp
    BY DEF IInv, Wire
  <2>2. m \in Request
    BY DEF IInv, TypeOK, ServiceTypeOK
  <2> QED
    BY <2>1, <2>2
<1>7. Wire'
  <2>1. \A m \in net : m \in Request
    BY DEF IInv, TypeOK, ServiceTypeOK
  <2>2. ASSUME NEW m \in net
        PROVE  /\ m.op = frame'[m.call].op
               /\ m.key = frame'[m.call].key
               /\ m.body = frame'[m.call].body
               /\ m.op \in Mutations => m.body \in Bodies
    BY <1>5, <1>6, <2>1 DEF IInv, Wire
  <2>3. /\ r.op = frame'[r.call].op
        /\ r.key = frame'[r.call].key
        /\ r.body = frame'[r.call].body
        /\ r.op \in Mutations => r.body \in Bodies
    BY <1>5
  <2> HIDE DEF r
  <2> QED
    BY <1>3, <2>2, <2>3 DEF Wire
<1>8. Connected' /\ NoConflict'
  BY <1>3, <1>5 DEF IInv, Connected, NoConflict
<1>9. ServiceTypeOK'
  <2> HIDE DEF r
  <2> QED
    BY <1>1, <1>2, <1>3 DEF IInv, TypeOK, ServiceTypeOK
<1>10. expired' \in [Calls -> BOOLEAN] /\ \A d \in Calls \ {c} : expired'[d] = expired[d]
  BY <1>1 DEF IInv, TypeOK
<1> QED
  BY <1>1, <1>4, <1>5, <1>7, <1>8, <1>9, <1>10

\* The first call of a command is the only one, and its key is new.
LEMMA FirstCallInv ==
    ASSUME IInv, NEW c \in Calls, NEW o \in Ops, FirstCall(c, o)
    PROVE  IInv'
<1>1. PICK k \in Keys, b \in Bodies, own \in BOOLEAN :
        /\ Fresh(k)
        /\ intent' = [intent EXCEPT ![o] = [key |-> IF own THEN k ELSE NoKey, body |-> b]]
        /\ Enter(c, o, KeyFor(o, k, own), b)
  BY DEF FirstCall
<1> DEFINE key == KeyFor(o, k, own)
<1>2. /\ frame[c] = Uncalled
      /\ o \in Mutations \ Invalid
      /\ intent[o] = Unstored
  BY DEF FirstCall, IInv, Frames
<1>3. /\ key \in Keys \cup {NoKey}
      /\ key \in {k, NoKey}
      /\ o \in Commands => key = k
      /\ own => key = k
  BY DEF KeyFor
<1> HIDE DEF key
<1>4. /\ ServiceTypeOK' /\ frame' \in [Calls -> Frame]
      /\ expired' \in [Calls -> BOOLEAN] /\ \A d \in Calls \ {c} : expired'[d] = expired[d]
      /\ frame'[c] = [pc |-> "wait", op |-> o, key |-> key, body |-> b,
                      attempt |-> 1, result |-> "none"]
      /\ \A d \in Calls \ {c} : frame'[d] = frame[d]
      /\ Wire' /\ Connected' /\ NoConflict'
      /\ recorded' = recorded /\ effects' = effects
  BY <1>1, <1>2, <1>3, EnterFacts DEF key
<1>5. \A d \in Calls : ~(Made(d) /\ frame[d].op = o)
  BY <1>2 DEF IInv, Stored, Made
<1>6. \A d \in Calls : frame[d].op # o
  BY <1>2, <1>5 DEF IInv, Stored
<1>7. effects[o] = 0 /\ recorded[k] = NoBody /\ \A d \in Calls : frame[d].key # k
  BY <1>1, <1>2, <1>5 DEF IInv, Ledgered, Fresh
<1>8. /\ intent'[o].body = b
      /\ intent'[o].key # NoKey => intent'[o].key = key
      /\ \A p \in Ops \ {o} : intent'[p] = intent[p]
  BY <1>1, <1>3 DEF IInv, TypeOK
<1>9. TypeOK'
  <2>1. intent' \in [Ops -> [key : Keys \cup {NoKey}, body : Bodies \cup {NoBody}]]
    BY <1>1 DEF IInv, TypeOK
  <2> QED
    BY <1>4, <2>1 DEF IInv, TypeOK
<1>10. Frames'
  BY <1>4 DEF IInv, Frames, Made, Running
<1>11. Stored'
  <2>1. /\ frame'[c].op = o /\ frame'[c].key = key /\ frame'[c].body = b
        /\ \A d \in Calls \ {c} : frame'[d] = frame[d]
    BY <1>4
  <2> QED
    BY <1>2, <1>3, <1>5, <1>8, <2>1 DEF IInv, Stored, Made
<1>12. Identity'
  BY <1>3, <1>4, <1>5, <1>7 DEF IInv, Identity, Made
<1>13. Ledgered'
  BY <1>2, <1>3, <1>4, <1>7 DEF IInv, Ledgered, Made
<1>14. KeyLeft'
  BY <1>4, <1>6, <1>8 DEF IInv, KeyLeft
<1> QED
  BY <1>4, <1>9, <1>10, <1>11, <1>12, <1>13, <1>14 DEF IInv

\* A repeated call carries what is stored, so it agrees with the calls before it.
LEMMA RepeatCallInv ==
    ASSUME IInv, NEW c \in Calls, NEW o \in Ops, RepeatCall(c, o)
    PROVE  IInv'
<1> DEFINE k == intent[o].key
           b == intent[o].body
<1>1. /\ frame[c] = Uncalled
      /\ o \in Mutations
      /\ Enter(c, o, k, b)
      /\ k # NoKey
      /\ intent' = intent
  BY DEF RepeatCall, IInv, Frames
<1>2. PICK d \in Calls : Made(d) /\ frame[d].op = o /\ frame[d].key = k
  BY <1>1 DEF IInv, Stored
<1>3. k \in Keys /\ b \in Bodies /\ frame[d].body = b /\ c # d /\ o \notin Invalid
  BY <1>1, <1>2 DEF IInv, Stored, TypeOK, Made
<1> HIDE DEF k, b
<1>4. /\ ServiceTypeOK' /\ frame' \in [Calls -> Frame]
      /\ expired' \in [Calls -> BOOLEAN] /\ \A e \in Calls \ {c} : expired'[e] = expired[e]
      /\ frame'[c] = [pc |-> "wait", op |-> o, key |-> k, body |-> b,
                      attempt |-> 1, result |-> "none"]
      /\ \A e \in Calls \ {c} : frame'[e] = frame[e]
      /\ Wire' /\ Connected' /\ NoConflict'
      /\ recorded' = recorded /\ effects' = effects
  BY <1>1, <1>3, EnterFacts
<1>5. TypeOK'
  BY <1>1, <1>4 DEF IInv, TypeOK
<1>6. Frames'
  BY <1>3, <1>4 DEF IInv, Frames, Made, Running
<1>7. Stored'
  <2>1. \A e \in Calls : Made(e) /\ e # c => Made(e)'
    BY <1>4 DEF Made
  <2>2. Uncalled.body = NoBody /\ ~Made(c)
    BY <1>1 DEF Made
  <2> QED
    BY <1>1, <1>3, <1>4, <2>1, <2>2 DEF IInv, Stored, Made, k, b
<1>8. Identity'
  BY <1>2, <1>3, <1>4 DEF IInv, Identity, Made
<1>9. Ledgered'
  <2>1. \A e \in Calls : frame[e].key \in Keys => e # c
    BY <1>1
  <2>2. ~Made(c)
    BY <1>1 DEF Made
  <2> QED
    BY <1>2, <1>3, <1>4, <2>1, <2>2 DEF IInv, Ledgered, Made
<1>10. KeyLeft'
  BY <1>1, <1>4 DEF IInv, KeyLeft
<1> QED
  BY <1>4, <1>5, <1>6, <1>7, <1>8, <1>9, <1>10 DEF IInv

\* A read sends no key, and touches nothing that commands share.
LEMMA ReadCallInv ==
    ASSUME IInv, NEW c \in Calls, NEW o \in Ops, ReadCall(c, o)
    PROVE  IInv'
<1>1. /\ frame[c] = Uncalled
      /\ o \in Reads /\ o \notin Mutations
      /\ Enter(c, o, NoKey, NoBody)
      /\ intent' = intent
  BY DEF ReadCall, IInv, Frames
<1>2. /\ ServiceTypeOK' /\ frame' \in [Calls -> Frame]
      /\ expired' \in [Calls -> BOOLEAN] /\ \A d \in Calls \ {c} : expired'[d] = expired[d]
      /\ frame'[c] = [pc |-> "wait", op |-> o, key |-> NoKey, body |-> NoBody,
                      attempt |-> 1, result |-> "none"]
      /\ \A e \in Calls \ {c} : frame'[e] = frame[e]
      /\ Wire' /\ Connected' /\ NoConflict'
      /\ recorded' = recorded /\ effects' = effects
  BY <1>1, EnterFacts
<1>3. ~Made(c) /\ ~Made(c)' /\ \A e \in Calls : frame[e].key \in Keys => e # c
  BY <1>1, <1>2 DEF Made
<1>4. TypeOK'
  BY <1>1, <1>2 DEF IInv, TypeOK
<1>5. Frames'
  BY <1>1, <1>2 DEF IInv, Frames, Made, Running
<1>6. Stored' /\ Identity'
  BY <1>1, <1>2, <1>3 DEF IInv, Stored, Identity, Made
<1>7. Ledgered' /\ KeyLeft'
  BY <1>1, <1>2, <1>3 DEF IInv, Ledgered, KeyLeft, Made
<1> QED
  BY <1>2, <1>4, <1>5, <1>6, <1>7 DEF IInv

\* A call refused locally never becomes a made one.
LEMMA InvalidCallInv ==
    ASSUME IInv, NEW c \in Calls, NEW o \in Ops, InvalidCall(c, o)
    PROVE  IInv'
<1>1. /\ frame[c] = Uncalled /\ o \in Invalid
      /\ frame' = [frame EXCEPT ![c] = [Uncalled EXCEPT !.pc = "done", !.op = o,
                                                        !.result = "invalid"]]
      /\ UNCHANGED <<net, conn, recorded, effects, intent, expired>>
  BY DEF InvalidCall, serviceVars, IInv, Frames
<1>2. /\ frame'[c] = [pc |-> "done", op |-> o, key |-> NoKey, body |-> NoBody,
                      attempt |-> 0, result |-> "invalid"]
      /\ \A e \in Calls \ {c} : frame'[e] = frame[e]
      /\ frame' \in [Calls -> Frame]
  BY <1>1 DEF IInv, TypeOK
<1>3. ~Made(c) /\ ~Made(c)' /\ \A e \in Calls : frame[e].key \in Keys => e # c
  BY <1>1, <1>2 DEF Made
<1>4. \A m \in net : m.call # c
  <2> SUFFICES ASSUME NEW m \in net, m.call = c PROVE FALSE
    OBVIOUS
  <2> QED
    BY <1>1 DEF IInv, Wire, TypeOK, ServiceTypeOK
<1>5. TypeOK'
  BY <1>1, <1>2 DEF IInv, TypeOK, ServiceTypeOK
<1>6. Frames'
  BY <1>1, <1>2 DEF IInv, Frames, Made, Running
<1>7. Stored' /\ Identity'
  BY <1>1, <1>2, <1>3 DEF IInv, Stored, Identity, Made
<1>8. Wire' /\ Connected' /\ NoConflict'
  BY <1>1, <1>2, <1>4 DEF IInv, Wire, Connected, NoConflict, TypeOK, ServiceTypeOK
<1>9. Ledgered' /\ KeyLeft'
  BY <1>1, <1>2, <1>3 DEF IInv, Ledgered, KeyLeft, Made
<1> QED
  BY <1>5, <1>6, <1>7, <1>8, <1>9 DEF IInv

-----------------------------------------------------------------------------
\* A call under way keeps its identity.
SameCalls == \A c \in Calls :
    /\ frame'[c].op = frame[c].op
    /\ frame'[c].key = frame[c].key
    /\ frame'[c].body = frame[c].body

\* What is said of calls by their identities does not change with their progress.
LEMMA SameCallsInv ==
    ASSUME IInv, SameCalls, UNCHANGED <<recorded, effects>>
    PROVE  /\ Identity' /\ Ledgered'
           /\ intent' = intent => Stored'
           /\ \A c \in Calls : Made(c)' <=> Made(c)
<1>1. \A c \in Calls : Made(c)' <=> Made(c)
  BY DEF SameCalls, Made
<1>2. Identity'
  BY <1>1 DEF IInv, Identity, SameCalls
<1>3. Ledgered'
  <2>1. recorded' = recorded /\ effects' = effects
    OBVIOUS
  <2>2. (\A c \in Calls : Made(c) /\ frame[c].key \in Keys =>
            /\ recorded[frame[c].key] \in {NoBody, frame[c].body}
            /\ effects[frame[c].op] = IF recorded[frame[c].key] = NoBody THEN 0 ELSE 1)'
    BY <1>1, <2>1 DEF IInv, Ledgered, SameCalls
  <2>3. (\A k \in Keys : recorded[k] # NoBody => \E c \in Calls : frame[c].key = k)'
    BY <2>1 DEF IInv, Ledgered, SameCalls
  <2>4. (\A o \in Mutations : effects[o] # 0 => \E c \in Calls : Made(c) /\ frame[c].op = o)'
    BY <1>1, <2>1 DEF IInv, Ledgered, SameCalls
  <2> QED
    BY <2>2, <2>3, <2>4 DEF Ledgered
<1>4. intent' = intent => Stored'
  BY <1>1 DEF IInv, Stored, SameCalls
<1> QED
  BY <1>1, <1>2, <1>3, <1>4

\* A call that returns keeps what it carried.
LEMMA ReturnInv ==
    ASSUME IInv, NEW c \in Calls, Running(c), NEW r \in Results, Return(c, r)
    PROVE  IInv'
<1> DEFINE o == frame[c].op
           left == r \in KeyBearing /\ o \in Mutations
<1>1. /\ frame' = [frame EXCEPT ![c].pc = "done", ![c].result = r]
      /\ conn' = [conn EXCEPT ![c] = NotConnected]
      /\ intent' = IF left THEN [intent EXCEPT ![o].key = frame[c].key] ELSE intent
      /\ UNCHANGED <<net, recorded, effects, expired>>
  BY DEF Return, HangUp
<1>2. frame[c] \in Frame /\ o \in Ops /\ (o \in Mutations => Made(c))
  BY DEF IInv, TypeOK, Frames
<1>3. /\ frame'[c] = [frame[c] EXCEPT !.pc = "done", !.result = r]
      /\ \A d \in Calls \ {c} : frame'[d] = frame[d]
  BY <1>1 DEF IInv, TypeOK
<1>4. SameCalls
  BY <1>2, <1>3 DEF SameCalls
<1>5. Identity' /\ Ledgered' /\ (intent' = intent => Stored')
  BY <1>1, <1>4, SameCallsInv
<1>6. \A d \in Calls : Made(d)' <=> Made(d)
  BY <1>1, <1>4, SameCallsInv
<1>7. TypeOK'
  <2>1. frame'[c] \in Frame
    BY <1>2, <1>3
  <2>2. frame' \in [Calls -> Frame]
    BY <1>1, <1>3, <2>1 DEF IInv, TypeOK
  <2>3. ServiceTypeOK'
    BY <1>1 DEF IInv, TypeOK, ServiceTypeOK
  <2>4. intent' \in [Ops -> [key : Keys \cup {NoKey}, body : Bodies \cup {NoBody}]]
    BY <1>1, <1>2 DEF IInv, TypeOK
  <2> QED
    BY <1>1, <2>2, <2>3, <2>4 DEF IInv, TypeOK
<1>8. Frames'
  <2>1. frame'[c].pc = "done"
    BY <1>2, <1>3
  <2> QED
    BY <1>1, <1>3, <1>6, <2>1 DEF IInv, Frames, Running
<1>9. /\ left => intent'[o].key = frame[c].key
      /\ \A p \in Ops : intent'[p].body = intent[p].body
      /\ \A p \in Ops : ~(left /\ p = o) => intent'[p] = intent[p]
  BY <1>1, <1>2 DEF IInv, TypeOK
<1>10. Stored'
  <2>1. CASE ~left
    BY <1>1, <1>5, <2>1
  <2>2. CASE left
    <3>1. \A d \in Calls : Made(d)' =>
            /\ frame'[d].op \in Mutations \ Invalid
            /\ intent'[frame'[d].op].body = frame'[d].body
            /\ frame'[d].op \in Commands => frame'[d].key \in Keys
      BY <1>4, <1>6, <1>9 DEF SameCalls, IInv, Stored
    <3>2. \A d \in Calls : frame'[d].op \in Mutations \ Invalid => Made(d)'
      BY <1>4, <1>6 DEF SameCalls, IInv, Stored
    <3>3. ASSUME NEW p \in Ops, intent'[p].key # NoKey
          PROVE  \E d \in Calls : Made(d)' /\ frame'[d].op = p /\ frame'[d].key = intent'[p].key
      <4>1. CASE p = o
        BY <1>2, <1>4, <1>6, <1>9, <2>2, <4>1 DEF SameCalls
      <4>2. CASE p # o
        BY <1>4, <1>6, <1>9, <3>3, <4>2 DEF SameCalls, IInv, Stored
      <4> QED
        BY <4>1, <4>2
    <3> QED
      BY <3>1, <3>2, <3>3 DEF Stored
  <2> QED
    BY <2>1, <2>2
<1>11. Wire'
  BY <1>1, <1>4 DEF IInv, Wire, SameCalls, TypeOK, ServiceTypeOK
<1>12. Connected' /\ NoConflict'
  BY <1>1, <1>3 DEF IInv, Connected, NoConflict, TypeOK, ServiceTypeOK
<1>13. KeyLeft'
  <2>1. o \in Commands => frame[c].key # NoKey
    BY <1>2 DEF IInv, Stored
  <2>2. frame'[c].result = r
    BY <1>2, <1>3
  <2> SUFFICES ASSUME NEW d \in Calls, frame'[d].op \in Commands, frame'[d].result \in KeyBearing
               PROVE  intent'[frame'[d].op].key # NoKey
    BY DEF KeyLeft
  <2>3. CASE d = c
    BY <1>4, <1>9, <2>1, <2>2, <2>3 DEF SameCalls
  <2>4. CASE d # c
    BY <1>3, <1>9, <2>1, <2>4 DEF IInv, KeyLeft
  <2> QED
    BY <2>3, <2>4
<1> QED
  BY <1>5, <1>7, <1>8, <1>10, <1>11, <1>12, <1>13 DEF IInv

\* The other steps of a call store nothing.
LEMMA ProgressInv ==
    ASSUME IInv, TypeOK', Frames', SameCalls, Wire', Connected', NoConflict',
           UNCHANGED <<recorded, effects, intent>>,
           \A c \in Calls : frame'[c].result \in KeyBearing => frame'[c].result = frame[c].result
    PROVE  IInv'
<1>1. Stored' /\ Identity' /\ Ledgered'
  BY SameCallsInv
<1>2. KeyLeft'
  BY DEF IInv, KeyLeft, SameCalls
<1> QED
  BY <1>1, <1>2 DEF IInv

\* Waiting changes where the call is, and nothing that it carries.
LEMMA PauseInv ==
    ASSUME IInv, NEW c \in Calls, Running(c), MayRetry(c), Pause(c)
    PROVE  IInv'
<1>1. /\ frame' = [frame EXCEPT ![c].pc = "backoff"]
      /\ conn' = [conn EXCEPT ![c] = NotConnected]
      /\ UNCHANGED <<net, recorded, effects, intent, expired>>
  BY DEF Pause, HangUp
<1>2. frame[c] \in Frame
  BY DEF IInv, TypeOK
<1>3. /\ frame'[c] = [frame[c] EXCEPT !.pc = "backoff"]
      /\ \A d \in Calls \ {c} : frame'[d] = frame[d]
  BY <1>1 DEF IInv, TypeOK
<1>4. SameCalls /\ \A d \in Calls : frame'[d].result = frame[d].result
  BY <1>2, <1>3 DEF SameCalls
<1>5. TypeOK'
  <2>1. frame'[c] \in Frame
    BY <1>2, <1>3
  <2>2. frame' \in [Calls -> Frame]
    BY <1>1, <1>3, <2>1 DEF IInv, TypeOK
  <2> QED
    BY <1>1, <2>2 DEF IInv, TypeOK, ServiceTypeOK
<1>6. Frames'
  BY <1>1, <1>2, <1>3 DEF IInv, Frames, Running, MayRetry, Made
<1>7. Wire'
  BY <1>1, <1>4 DEF IInv, Wire, SameCalls, TypeOK, ServiceTypeOK
<1>8. Connected' /\ NoConflict'
  BY <1>1, <1>3 DEF IInv, Connected, NoConflict, TypeOK, ServiceTypeOK
<1> QED
  BY <1>1, <1>4, <1>5, <1>6, <1>7, <1>8, ProgressInv

\* The next attempt is another copy of the same call, or, with a done context, a
\* wait for nothing.
LEMMA ResendInv ==
    ASSUME IInv, NEW c \in Calls, Resend(c)
    PROVE  IInv'
<1> DEFINE n == frame[c].attempt + 1
           r == [call |-> c, attempt |-> n, op |-> frame[c].op,
                 key |-> frame[c].key, body |-> frame[c].body]
<1>1. /\ frame[c].pc = "backoff"
      /\ frame' = [frame EXCEPT ![c].pc = "wait", ![c].attempt = n]
      /\ \/ UNCHANGED <<net, conn>>
         \/ /\ net' = net \cup {r}
            /\ conn' = [conn EXCEPT ![c] = [attempt |-> n, answer |-> "none"]]
      /\ UNCHANGED <<recorded, effects, intent, expired>>
  BY DEF Resend, Send, RequestOf
<1>2. /\ frame[c] \in Frame
      /\ frame[c].op \in Mutations
      /\ Made(c)
      /\ n \in 1..MaxAttempts
      /\ conn[c] = NotConnected
  BY <1>1 DEF Running, IInv, Frames, TypeOK, Connected
<1> HIDE DEF n
<1>3. /\ frame'[c] = [frame[c] EXCEPT !.pc = "wait", !.attempt = n]
      /\ \A d \in Calls \ {c} : frame'[d] = frame[d]
  BY <1>1 DEF IInv, TypeOK
<1>4. SameCalls /\ \A d \in Calls : frame'[d].result = frame[d].result
  BY <1>2, <1>3 DEF SameCalls
<1>5. r \in Request /\ r.body \in Bodies
  BY <1>2 DEF Made
<1>6. TypeOK'
  <2>1. frame'[c] \in Frame
    <3>1. n \in 0..MaxAttempts
      BY <1>2
    <3>2. [frame[c] EXCEPT !.pc = "wait", !.attempt = n] \in Frame
      BY <1>2, <3>1
    <3> QED
      BY <1>3, <3>2
  <2>2. frame' \in [Calls -> Frame]
    BY <1>1, <1>3, <2>1 DEF IInv, TypeOK
  <2>3. net' \subseteq Request
    BY <1>1, <1>5 DEF IInv, TypeOK, ServiceTypeOK
  <2>4. conn' \in [Calls -> [attempt : 0..MaxAttempts, answer : Answers \cup {"none"}]]
    <3>1. [attempt |-> n, answer |-> "none"] \in [attempt : 0..MaxAttempts, answer : Answers \cup {"none"}]
      BY <1>2
    <3>2. conn \in [Calls -> [attempt : 0..MaxAttempts, answer : Answers \cup {"none"}]]
      BY DEF IInv, TypeOK, ServiceTypeOK
    <3> QED
      BY <1>1, <3>1, <3>2
  <2> QED
    BY <1>1, <2>2, <2>3, <2>4 DEF IInv, TypeOK, ServiceTypeOK
<1>7. Frames'
  <2>1. frame'[c].pc = "wait"
    BY <1>2, <1>3
  <2>2. frame'[c].op \in Ops /\ frame'[c].body \in Bodies
    BY <1>2, <1>4 DEF SameCalls, Made
  <2>3. ASSUME NEW d \in Calls, d # c
        PROVE  /\ frame'[d].pc = "idle" => frame'[d] = Uncalled /\ ~expired'[d]
               /\ frame'[d].pc \in {"wait", "backoff"} => frame'[d].op \in Ops
               /\ frame'[d].pc \in {"wait", "backoff"} /\ frame'[d].op \in Mutations
                    => frame'[d].body \in Bodies
               /\ frame'[d].pc = "backoff"
                    => frame'[d].op \in Mutations /\ frame'[d].attempt < MaxAttempts
    BY <1>1, <1>3, <2>3 DEF IInv, Frames, Running, Made
  <2> QED
    BY <2>1, <2>2, <2>3 DEF Frames, Running, Made
<1>8. Wire'
  <2>1. \A m \in net : m.call \in Calls
    BY DEF IInv, TypeOK, ServiceTypeOK
  <2>2. ASSUME NEW m \in net
        PROVE  /\ m.op = frame'[m.call].op
               /\ m.key = frame'[m.call].key
               /\ m.body = frame'[m.call].body
               /\ m.op \in Mutations => m.body \in Bodies
    BY <1>4, <2>1 DEF IInv, Wire, SameCalls
  <2>3. /\ r.op = frame'[r.call].op
        /\ r.key = frame'[r.call].key
        /\ r.body = frame'[r.call].body
    BY <1>4 DEF SameCalls
  <2>4. \A m \in net' : m \in net \/ m = r
    BY <1>1
  <2> HIDE DEF r
  <2> QED
    BY <1>5, <2>2, <2>3, <2>4 DEF Wire
<1>9. Connected' /\ NoConflict'
  BY <1>1, <1>2, <1>3 DEF IInv, Connected, NoConflict, TypeOK, ServiceTypeOK
<1> QED
  BY <1>1, <1>4, <1>6, <1>7, <1>8, <1>9, ProgressInv

\* The end of a context changes no call by itself.
LEMMA ExpireInv ==
    ASSUME IInv, NEW c \in Calls, Expire(c)
    PROVE  IInv'
<1>1. /\ expired' = [expired EXCEPT ![c] = TRUE]
      /\ frame[c].pc # "idle"
      /\ UNCHANGED <<net, conn, recorded, effects, intent, frame>>
  BY DEF Expire, serviceVars, Running
<1>2. TypeOK' /\ Wire' /\ Connected' /\ NoConflict'
  BY <1>1 DEF IInv, TypeOK, ServiceTypeOK, Wire, Connected, NoConflict
<1>3. Frames'
  BY <1>1 DEF IInv, Frames, Running, Made, TypeOK
<1> QED
  BY <1>1, <1>2, <1>3, ProgressInv DEF SameCalls

\* A crash ends calls and keeps what is stored, on the wire and recorded.
LEMMA CrashInv ==
    ASSUME IInv, Crash
    PROVE  IInv'
<1>1. /\ conn' = [c \in Calls |-> NotConnected]
      /\ UNCHANGED <<net, recorded, effects, intent, expired>>
  BY DEF Crash
<1>2. \A c \in Calls :
        frame'[c] = IF Running(c) THEN [frame[c] EXCEPT !.pc = "done", !.result = "crashed"]
                                  ELSE frame[c]
  BY DEF Crash
<1>3. ASSUME NEW c \in Calls
      PROVE  /\ frame'[c] \in Frame
             /\ frame'[c].op = frame[c].op
             /\ frame'[c].key = frame[c].key
             /\ frame'[c].body = frame[c].body
             /\ frame'[c].result \in {frame[c].result, "crashed"}
             /\ frame'[c].pc \in {"idle", "done"}
             /\ frame'[c].pc = "idle" => frame'[c] = frame[c]
  <2>1. frame[c] \in Frame
    BY DEF IInv, TypeOK
  <2>2. CASE Running(c)
    <3>1. [frame[c] EXCEPT !.pc = "done", !.result = "crashed"] \in Frame
      BY <2>1
    <3> QED
      BY <1>2, <2>1, <2>2, <3>1
  <2>3. CASE ~Running(c)
    BY <1>2, <2>1, <2>3 DEF Running
  <2> QED
    BY <2>2, <2>3
<1>4. SameCalls
  BY <1>3 DEF SameCalls
<1>5. TypeOK'
  <2>1. frame' \in [Calls -> Frame]
    BY <1>3 DEF Crash
  <2> QED
    BY <1>1, <2>1 DEF IInv, TypeOK, ServiceTypeOK
<1>6. Frames'
  BY <1>1, <1>3 DEF IInv, Frames, Running
<1>7. Wire'
  BY <1>1, <1>3 DEF IInv, Wire, TypeOK, ServiceTypeOK
<1>8. Connected' /\ NoConflict'
  BY <1>1 DEF Connected, NoConflict
<1> QED
  BY <1>1, <1>3, <1>4, <1>5, <1>6, <1>7, <1>8, ProgressInv

-----------------------------------------------------------------------------
\* An answer changes nothing but the connection that waits for it.
LEMMA AnswerFacts ==
    ASSUME IInv, NEW m \in net, NEW a \in Answers \ {"conflict"}, Answer(m, a), UNCHANGED frame
    PROVE  /\ net' \subseteq net
           /\ conn' \in [Calls -> [attempt : 0..MaxAttempts, answer : Answers \cup {"none"}]]
           /\ Wire' /\ Connected' /\ NoConflict'
<1>1. m \in Request /\ m.attempt # 0 /\ m.call \in Calls
  BY DEF IInv, TypeOK, ServiceTypeOK
<1>2. conn \in [Calls -> [attempt : 0..MaxAttempts, answer : Answers \cup {"none"}]]
  BY DEF IInv, TypeOK, ServiceTypeOK
<1>3. net' \subseteq net
  BY DEF Answer
<1>4. CASE conn[m.call].attempt = m.attempt
  <2>1. conn' = [conn EXCEPT ![m.call].answer = a]
    BY <1>4 DEF Answer
  <2>2. frame[m.call].pc = "wait" /\ conn[m.call].attempt # 0
    BY <1>1, <1>4 DEF IInv, Connected
  <2>3. conn' \in [Calls -> [attempt : 0..MaxAttempts, answer : Answers \cup {"none"}]]
    BY <1>1, <1>2, <2>1
  <2>4. /\ conn'[m.call] = [attempt |-> conn[m.call].attempt, answer |-> a]
        /\ \A c \in Calls \ {m.call} : conn'[c] = conn[c]
    BY <1>1, <1>2, <2>1
  <2>5. Connected' /\ NoConflict'
    BY <1>1, <2>2, <2>4 DEF IInv, Connected, NoConflict
  <2> QED
    BY <1>3, <2>3, <2>5 DEF IInv, Wire
<1>5. CASE conn[m.call].attempt # m.attempt
  <2>1. conn' = conn
    BY <1>5 DEF Answer
  <2> QED
    BY <1>2, <1>3, <2>1 DEF IInv, Wire, Connected, NoConflict
<1> QED
  BY <1>4, <1>5

\* What a request tells about the call that sent it.
LEMMA SenderFacts ==
    ASSUME IInv, NEW m \in net, m.op \in Mutations
    PROVE  /\ m \in Request /\ m.call \in Calls
           /\ Made(m.call) /\ m.body \in Bodies
           /\ frame[m.call].key = m.key
           /\ frame[m.call].op = m.op
           /\ frame[m.call].body = m.body
BY DEF IInv, TypeOK, ServiceTypeOK, Wire, Made

\* The Worker answers without touching its records.
LEMMA AnswerInv ==
    ASSUME IInv, NEW m \in net, NEW a \in Answers \ {"conflict"}, Answer(m, a),
           UNCHANGED <<recorded, effects>>, UNCHANGED clientVars
    PROVE  IInv'
<1> USE DEF clientVars
<1>1. Wire' /\ Connected' /\ NoConflict'
  BY AnswerFacts
<1>2. TypeOK'
  BY AnswerFacts DEF IInv, TypeOK, ServiceTypeOK
<1>3. Frames'
  BY DEF IInv, Frames, Made, Running
<1> QED
  BY <1>1, <1>2, <1>3, ProgressInv DEF SameCalls

\* The Worker applies a mutation: a keyed one only while nothing is recorded under
\* the key that all its calls share; one without a key touches no record.
LEMMA CommitInv ==
    ASSUME IInv, NEW m \in net, Commit(m), UNCHANGED clientVars
    PROVE  IInv'
<1> USE DEF clientVars
<1>1. PICK a \in {"ok", "retryable"} \cup Damaged : Answer(m, a)
  BY DEF Commit
<1>2. a \in Answers \ {"conflict"}
  OBVIOUS
<1>3. /\ m.op \in Mutations
      /\ effects' = [effects EXCEPT ![m.op] = @ + 1]
      /\ \/ /\ m.key \in Keys
            /\ recorded[m.key] = NoBody
            /\ recorded' = [recorded EXCEPT ![m.key] = m.body]
         \/ m.key = NoKey /\ recorded' = recorded
  BY DEF Commit
<1>4. /\ m \in Request /\ m.call \in Calls
      /\ Made(m.call) /\ m.body \in Bodies
      /\ frame[m.call].key = m.key
      /\ frame[m.call].op = m.op
      /\ frame[m.call].body = m.body
  BY <1>3, SenderFacts
<1>5. /\ effects'[m.op] = effects[m.op] + 1
      /\ \A o \in Ops \ {m.op} : effects'[o] = effects[o]
  BY <1>3 DEF IInv, TypeOK, ServiceTypeOK
<1>6. TypeOK'
  BY <1>1, <1>2, <1>3, <1>4, AnswerFacts DEF IInv, TypeOK, ServiceTypeOK
<1>7. Wire' /\ Connected' /\ NoConflict'
  BY <1>1, <1>2, AnswerFacts
<1>8. Frames' /\ Stored' /\ Identity' /\ KeyLeft'
  BY DEF IInv, Frames, Stored, Identity, KeyLeft, Made, Running
<1>9. Ledgered'
  <2>1. ASSUME NEW c \in Calls, Made(c), frame[c].key \in Keys
        PROVE  /\ recorded'[frame[c].key] \in {NoBody, frame[c].body}
               /\ effects'[frame[c].op] = IF recorded'[frame[c].key] = NoBody THEN 0 ELSE 1
    <3>1. frame[c].op \in Mutations
      BY <2>1 DEF IInv, Stored
    <3>2. CASE frame[c].op = m.op
      <4>1. frame[c].key = m.key /\ m.key \in Keys
        BY <1>4, <2>1, <3>2 DEF IInv, Identity
      <4>2. recorded[m.key] = NoBody /\ recorded'[m.key] = m.body
        BY <1>3, <4>1 DEF IInv, TypeOK, ServiceTypeOK
      <4>3. effects[m.op] = 0
        BY <2>1, <3>2, <4>1, <4>2 DEF IInv, Ledgered
      <4>4. frame[c].body = m.body
        BY <1>4, <2>1, <3>2 DEF IInv, Stored
      <4> QED
        BY <1>4, <1>5, <3>2, <4>1, <4>2, <4>3, <4>4
    <3>3. CASE frame[c].op # m.op
      <4>1. frame[c].key # m.key
        BY <1>4, <2>1, <3>3 DEF IInv, Identity
      <4>2. recorded'[frame[c].key] = recorded[frame[c].key]
        BY <1>3, <2>1, <4>1 DEF IInv, TypeOK, ServiceTypeOK
      <4> QED
        BY <1>5, <2>1, <3>1, <3>3, <4>2 DEF IInv, Ledgered
    <3> QED
      BY <3>2, <3>3
  <2>2. ASSUME NEW k \in Keys, recorded'[k] # NoBody
        PROVE  \E c \in Calls : frame[c].key = k
    <3>1. CASE k = m.key
      BY <1>4, <3>1
    <3>2. CASE k # m.key
      BY <1>3, <2>2, <3>2 DEF IInv, Ledgered, TypeOK, ServiceTypeOK
    <3> QED
      BY <3>1, <3>2
  <2>3. ASSUME NEW o \in Mutations, effects'[o] # 0
        PROVE  \E c \in Calls : Made(c) /\ frame[c].op = o
    BY <1>4, <1>5, <2>3 DEF IInv, Ledgered
  <2>4. frame' = frame
    OBVIOUS
  <2> QED
    BY <2>1, <2>2, <2>3, <2>4 DEF Ledgered, Made
<1> QED
  BY <1>6, <1>7, <1>8, <1>9 DEF IInv

\* The Worker and the network keep the invariant.
LEMMA WorkerInv ==
    ASSUME IInv, Worker
    PROVE  IInv'
<1>1. PICK m \in net : Handle(m) /\ UNCHANGED clientVars
  BY DEF Worker
<1>2. CASE Commit(m)
  BY <1>1, <1>2, CommitInv
<1>3. CASE Replay(m) \/ TurnDown(m) \/ Query(m)
  BY <1>1, <1>3, AnswerInv DEF Replay, TurnDown, Query
<1>4. CASE Conflict(m)
  <2>1. recorded[m.key] \in {NoBody, m.body}
    BY <1>4, SenderFacts DEF Conflict, IInv, Ledgered
  <2> QED
    BY <1>4, <2>1 DEF Conflict
<1> QED
  BY <1>1, <1>2, <1>3, <1>4 DEF Handle

-----------------------------------------------------------------------------
\* Every step keeps the invariant.
LEMMA NextInv == IInv /\ [Next]_vars => IInv'
<1> SUFFICES ASSUME IInv, [Next]_vars PROVE IInv'
  OBVIOUS
<1>1. ASSUME NEW c \in Calls, Begin(c) PROVE IInv'
  BY <1>1, FirstCallInv, RepeatCallInv, ReadCallInv, InvalidCallInv DEF Begin
<1>2. ASSUME NEW c \in Calls, Finish(c) PROVE IInv'
  <2>1. conn[c].answer \in Answers
    BY <1>2 DEF Finish, IInv, TypeOK, ServiceTypeOK
  <2>2. ResultOf(conn[c].answer) \in Results
    BY <1>2, <2>1 DEF ResultOf, Finish
  <2> QED
    BY <1>2, <2>2, ReturnInv DEF Finish, Running
<1>3. ASSUME NEW c \in Calls, RetryError(c) PROVE IInv'
  BY <1>3, PauseInv DEF RetryError, TryAgain, Running
<1>4. ASSUME NEW c \in Calls, LoseConnection(c) PROVE IInv'
  BY <1>4, PauseInv, ReturnInv DEF LoseConnection, Fail, Running
<1>5. ASSUME NEW c \in Calls, Abort(c) PROVE IInv'
  BY <1>5, ReturnInv DEF Abort, Running
<1>6. CASE UNCHANGED vars
  <2>1. /\ UNCHANGED <<net, conn, recorded, effects>>
        /\ UNCHANGED <<intent, frame, expired>>
    BY <1>6 DEF vars, serviceVars
  <2>2. TypeOK' /\ Frames' /\ Wire' /\ Connected' /\ NoConflict'
    BY <2>1 DEF IInv, TypeOK, ServiceTypeOK, Frames, Wire, Connected, NoConflict, Made, Running
  <2> QED
    BY <2>1, <2>2, ProgressInv DEF SameCalls
<1> QED
  BY <1>1, <1>2, <1>3, <1>4, <1>5, <1>6, ResendInv, ExpireInv, WorkerInv, CrashInv DEF Next, Step

\* The invariant holds in every reachable state.
LEMMA InductiveInvariant == Spec => []IInv
BY InitInv, NextInv, PTL DEF Spec

-----------------------------------------------------------------------------
\* Every variable keeps its type; no call makes more attempts than configured.
THEOREM TypeCorrect == Spec => []TypeOK
<1>1. IInv => TypeOK
  BY DEF IInv
<1> QED
  BY <1>1, InductiveInvariant, PTL

\* A command whose method guarantees a key is applied at most once, contexts that
\* expire and mutations without a key beside it notwithstanding.
THEOREM CommandsApplyAtMostOnce == Spec => []AtMostOnce
<1>1. IInv => AtMostOnce
  <2> SUFFICES ASSUME IInv, NEW o \in Commands, effects[o] # 0 PROVE effects[o] <= 1
    BY DEF AtMostOnce
  <2>1. PICK c \in Calls : Made(c) /\ frame[c].op = o
    BY DEF IInv, Ledgered
  <2>2. frame[c].key \in Keys
    BY <2>1 DEF IInv, Stored
  <2> QED
    BY <2>1, <2>2 DEF IInv, Ledgered
<1> QED
  BY <1>1, InductiveInvariant, PTL

\* An error of the SDK's own types leaves the one key of all calls of the command.
THEOREM FailureLeavesOneKey == Spec => []FailureLeavesTheKey
<1>1. IInv => FailureLeavesTheKey
  <2> SUFFICES ASSUME IInv, NEW c \in Calls, frame[c].op \in Commands,
                      frame[c].result \notin {"none", "ok", "invalid", "cancelled", "crashed"},
                      NEW d \in Calls, frame[d].op = frame[c].op
               PROVE  frame[d].key = intent[frame[c].op].key
    BY DEF FailureLeavesTheKey
  <2>1. frame[c].result \in KeyBearing
    BY DEF IInv, TypeOK
  <2>2. intent[frame[c].op].key # NoKey
    BY <2>1 DEF IInv, KeyLeft
  <2>3. PICK e \in Calls : Made(e) /\ frame[e].op = frame[c].op /\ frame[e].key = intent[frame[c].op].key
    BY <2>2 DEF IInv, Stored
  <2>4. Made(d)
    BY <2>3 DEF IInv, Stored
  <2> QED
    BY <2>3, <2>4 DEF IInv, Identity
<1> QED
  BY <1>1, InductiveInvariant, PTL

-----------------------------------------------------------------------------
(***************************************************************************)
(* GoClient implements AtomicCommand for its keyed commands, for every     *)
(* value of the constants.                                                 *)
(*                                                                         *)
(* The argument is that of PyClientProofs, laid out by what a step of      *)
(* one call may do (CallStepJ).  What is new: an attempt made under a      *)
(* done context has neither a connection nor a request, so a connection    *)
(* may be behind the loop's counter only by not being there at all; and    *)
(* the effects of unkeyed mutations are no business of the promise.        *)
(***************************************************************************)

\* Refused while only one attempt was ever made.
RefusedAtOnce(f) == f.result = "refused" /\ f.attempt = 1

\* Where the attempts of a call are.
Placed(c) ==
    /\ conn[c].attempt # 0 => conn[c].attempt = frame[c].attempt
    /\ Running(c) => frame[c].result = "none" /\ frame[c].attempt # 0
    /\ frame[c].pc = "done" => frame[c].result # "none"
    /\ frame[c].result = "invalid" => frame[c].body = NoBody
    /\ frame[c].attempt = 0 => frame[c].body = NoBody

\* A request on the wire was not answered, and its call is not settled.
Outstanding(m) ==
    /\ m.attempt <= frame[m.call].attempt
    /\ conn[m.call].answer # "none" => m.attempt # conn[m.call].attempt
    /\ ~RefusedAtOnce(frame[m.call])

\* "ok" is said, or about to be said, of applied commands only.
Truthful(c) ==
    frame[c].op \in Commands /\ (conn[c].answer = "ok" \/ frame[c].result = "ok")
        => effects[frame[c].op] = 1

\* Whether the call is, or is about to be, refused at once.
Cleared(c) ==
    \/ RefusedAtOnce(frame[c])
    \/ conn[c].answer = "refused" /\ frame[c].attempt = 1

\* An effect was asked for by a call that is not cleared of it.
Caused ==
    \A o \in Commands : effects[o] # 0 =>
        \E c \in Calls : Made(c) /\ frame[c].op = o /\ ~Cleared(c)

JInv ==
    /\ IInv
    /\ \A c \in Calls : Placed(c) /\ Truthful(c)
    /\ \A m \in net : Outstanding(m)
    /\ Caused

\* What the abstract state is made of.
promised == <<[o \in Commands |-> effects[o]],
              [c \in Calls |-> frame[c].op],
              [c \in Calls |-> PhaseOf(frame[c])]>>

-----------------------------------------------------------------------------
\* The phase a call is in, condition by condition.
LEMMA Phases ==
    ASSUME NEW f
    PROVE  /\ f.pc = "idle" => PhaseOf(f) = "idle"
           /\ f.pc \in {"wait", "backoff"} => PhaseOf(f) = "open"
           /\ f.pc = "done" /\ f.result = "ok" => PhaseOf(f) = "ok"
           /\ f.pc = "done" /\ Settled(f) => PhaseOf(f) = "declined"
           /\ f.pc = "done" /\ f.result # "ok" /\ ~Settled(f) => PhaseOf(f) = "doubt"
BY DEF PhaseOf, Settled

\* Before the first call nothing was sent, answered or applied.
LEMMA InitJ == Init => JInv /\ Promise!Init
<1> SUFFICES ASSUME Init PROVE JInv /\ Promise!Init
  OBVIOUS
<1>1. IInv
  BY InitInv
<1> USE DEF Init, ServiceInit
<1>2. \A c \in Calls : Placed(c) /\ Truthful(c)
  BY DEF Placed, Truthful, Running
<1>3. (\A m \in net : Outstanding(m)) /\ Caused
  BY DEF Outstanding, Caused
<1>4. \A c \in Calls : PhaseOf(frame[c]) = "idle"
  BY Phases
<1>5. Promise!Init
  BY <1>4 DEF Promise!Init
<1> QED
  BY <1>1, <1>2, <1>3, <1>5 DEF JInv

\* The types the steps below rely on.
LEMMA Typed ==
    ASSUME IInv
    PROVE  /\ \A c \in Calls : frame[c] \in Frame
           /\ \A m \in net : m \in Request /\ m.call \in Calls /\ m.attempt \in Nat \ {0}
           /\ frame \in [Calls -> Frame]
           /\ conn \in [Calls -> [attempt : 0..MaxAttempts, answer : Answers \cup {"none"}]]
           /\ effects \in [Ops -> Nat]
BY DEF IInv, TypeOK, ServiceTypeOK

\* A step of one call keeps the invariant if that call keeps its part of it.
LEMMA CallStepJ ==
    ASSUME JInv, IInv', NEW c \in Calls, UNCHANGED <<recorded, effects>>,
           \A d \in Calls \ {c} : frame'[d] = frame[d] /\ conn'[d] = conn[d],
           Placed(c)', Truthful(c)',
           \A m \in net' : m \in net \/ m.call = c,
           \A m \in net' : m.call = c => Outstanding(m)',
           Made(c) /\ ~Cleared(c) => Made(c)' /\ frame'[c].op = frame[c].op /\ ~Cleared(c)'
    PROVE  JInv'
<1>1. \A d \in Calls \ {c} : Placed(d)' /\ Truthful(d)'
  BY DEF JInv, Placed, Truthful, Running
<1>2. \A m \in net' : Outstanding(m)'
  <2> SUFFICES ASSUME NEW m \in net', m.call # c PROVE Outstanding(m)'
    OBVIOUS
  <2>1. m \in net /\ m.call \in Calls
    BY Typed DEF JInv
  <2> QED
    BY <2>1 DEF JInv, Outstanding
<1>3. Caused'
  <2> SUFFICES ASSUME NEW o \in Commands, effects[o] # 0
               PROVE  \E d \in Calls : Made(d)' /\ frame'[d].op = o /\ ~Cleared(d)'
    BY DEF Caused
  <2> PICK d \in Calls : Made(d) /\ frame[d].op = o /\ ~Cleared(d)
    BY DEF JInv, Caused
  <2>1. CASE d = c
    BY <2>1
  <2>2. CASE d # c
    BY <2>2 DEF Made, Cleared
  <2> QED
    BY <2>1, <2>2
<1> QED
  BY <1>1, <1>2, <1>3 DEF JInv

\* What a step of one call shows of it.
LEMMA ShownOf ==
    ASSUME NEW c \in Calls, \A d \in Calls \ {c} : frame'[d] = frame[d]
    PROVE  /\ \A p : PhaseOf(frame'[c]) = p =>
                [d \in Calls |-> PhaseOf(frame'[d])] = [[d \in Calls |-> PhaseOf(frame[d])] EXCEPT ![c] = p]
           /\ \A o : frame'[c].op = o =>
                [d \in Calls |-> frame'[d].op] = [[d \in Calls |-> frame[d].op] EXCEPT ![c] = o]
           /\ frame'[c].op = frame[c].op =>
                [d \in Calls |-> frame'[d].op] = [d \in Calls |-> frame[d].op]
           /\ PhaseOf(frame'[c]) = PhaseOf(frame[c]) =>
                [d \in Calls |-> PhaseOf(frame'[d])] = [d \in Calls |-> PhaseOf(frame[d])]
<1>1. \A d \in Calls \ {c} : PhaseOf(frame'[d]) = PhaseOf(frame[d]) /\ frame'[d].op = frame[d].op
  OBVIOUS
<1> QED
  BY <1>1

-----------------------------------------------------------------------------
\* A call is made: an Invoke of the abstract command.
LEMMA EnterJ ==
    ASSUME JInv, IInv', NEW c \in Calls, NEW o \in Ops, frame[c].pc = "idle",
           NEW k, NEW b, Enter(c, o, k, b)
    PROVE  JInv' /\ Promise!Invoke(c, o)
<1> DEFINE f == [pc |-> "wait", op |-> o, key |-> k, body |-> b, attempt |-> 1, result |-> "none"]
           r == [call |-> c, attempt |-> 1, op |-> o, key |-> k, body |-> b]
<1>1. frame[c] = Uncalled
  BY DEF JInv, IInv, Frames
<1>2. /\ frame' = [frame EXCEPT ![c] = f]
      /\ \/ net' = net /\ conn' = conn
         \/ net' = net \cup {r} /\ conn' = [conn EXCEPT ![c] = [attempt |-> 1, answer |-> "none"]]
      /\ UNCHANGED <<recorded, effects>>
  BY DEF Enter, Send, RequestOf
<1>3. /\ frame'[c] = f /\ conn'[c] \in {NotConnected, [attempt |-> 1, answer |-> "none"]}
      /\ \A d \in Calls \ {c} : frame'[d] = frame[d] /\ conn'[d] = conn[d]
  <2>1. conn[c] = NotConnected
    BY <1>1 DEF JInv, IInv, Connected
  <2> QED
    BY <1>2, <2>1, Typed DEF JInv
<1>4. \A m \in net : m.call # c
  <2> SUFFICES ASSUME NEW m \in net, m.call = c PROVE FALSE
    OBVIOUS
  <2>1. m.attempt <= 0 /\ m.attempt \in Nat \ {0}
    BY <1>1, Typed DEF JInv, Outstanding
  <2> QED
    BY <2>1
<1>5. Placed(c)' /\ Truthful(c)' /\ ~Made(c)
  BY <1>1, <1>3 DEF Placed, Truthful, Running, Made
<1>6. \A m \in net' : m \in net \/ m.call = c
  BY <1>2
<1>7. \A m \in net' : m.call = c => Outstanding(m)'
  <2> SUFFICES ASSUME NEW m \in net', m.call = c PROVE Outstanding(m)'
    OBVIOUS
  <2>1. m = r
    BY <1>2, <1>4
  <2>2. m.attempt = 1 /\ m.call = c
    BY <2>1
  <2> QED
    BY <1>3, <2>2 DEF Outstanding, RefusedAtOnce
<1>8. JInv'
  BY <1>2, <1>3, <1>5, <1>6, <1>7, CallStepJ
<1>9. PhaseOf(frame[c]) = "idle" /\ PhaseOf(frame'[c]) = "open" /\ frame'[c].op = o
  BY <1>1, <1>3, Phases
<1>10. Promise!Invoke(c, o)
  BY <1>2, <1>3, <1>9, ShownOf DEF Promise!Invoke
<1> QED
  BY <1>8, <1>10

\* An invalid call is dismissed without a trace elsewhere.
LEMMA InvalidCallJ ==
    ASSUME JInv, IInv', NEW c \in Calls, NEW o \in Ops, InvalidCall(c, o)
    PROVE  JInv' /\ Promise!Dismiss(c, o)
<1> DEFINE f == [pc |-> "done", op |-> o, key |-> NoKey, body |-> NoBody,
                 attempt |-> 0, result |-> "invalid"]
<1>1. frame[c] = Uncalled /\ conn[c] = NotConnected
  BY DEF InvalidCall, JInv, IInv, Frames, Connected
<1>2. /\ frame' = [frame EXCEPT ![c] = [Uncalled EXCEPT !.pc = "done", !.op = o,
                                                        !.result = "invalid"]]
      /\ UNCHANGED <<net, conn, recorded, effects>>
  BY DEF InvalidCall, serviceVars
<1>3. /\ frame'[c] = f /\ conn'[c] = NotConnected
      /\ \A d \in Calls \ {c} : frame'[d] = frame[d] /\ conn'[d] = conn[d]
  BY <1>1, <1>2, Typed DEF JInv
<1>4. \A m \in net : m.call # c
  <2> SUFFICES ASSUME NEW m \in net, m.call = c PROVE FALSE
    OBVIOUS
  <2>1. m.attempt <= 0 /\ m.attempt \in Nat \ {0}
    BY <1>1, Typed DEF JInv, Outstanding
  <2> QED
    BY <2>1
<1>5. Placed(c)' /\ Truthful(c)' /\ ~Made(c)
  BY <1>1, <1>3 DEF Placed, Truthful, Running, Made
<1>6. \A m \in net' : m \in net /\ m.call # c
  BY <1>2, <1>4
<1>7. JInv'
  BY <1>2, <1>3, <1>5, <1>6, CallStepJ
<1>8. PhaseOf(frame[c]) = "idle" /\ PhaseOf(frame'[c]) = "declined" /\ frame'[c].op = o
  BY <1>1, <1>3 DEF PhaseOf, Settled
<1>9. Promise!Dismiss(c, o)
  BY <1>2, <1>3, <1>8, ShownOf DEF Promise!Dismiss
<1> QED
  BY <1>7, <1>9

-----------------------------------------------------------------------------
\* A call ends: as a success, as a refusal, or in doubt.
LEMMA ReturnJ ==
    ASSUME JInv, IInv', NEW c \in Calls, Running(c),
           NEW r \in Results \ {"invalid"}, Return(c, r),
           r = "ok" /\ frame[c].op \in Commands => effects[frame[c].op] = 1,
           r = "refused" => conn[c].answer = "refused"
    PROVE  JInv' /\ (Promise!Succeed(c) \/ Promise!Decline(c) \/ Promise!Abandon({c}))
<1>1. /\ frame' = [frame EXCEPT ![c].pc = "done", ![c].result = r]
      /\ conn' = [conn EXCEPT ![c] = NotConnected]
      /\ UNCHANGED <<net, recorded, effects>>
  BY DEF Return, HangUp
<1>2. /\ frame'[c].pc = "done" /\ frame'[c].result = r
      /\ frame'[c].op = frame[c].op /\ frame'[c].body = frame[c].body
      /\ frame'[c].attempt = frame[c].attempt
      /\ conn'[c] = NotConnected
      /\ \A d \in Calls \ {c} : frame'[d] = frame[d] /\ conn'[d] = conn[d]
  BY <1>1, Typed DEF JInv
<1>3. frame[c].attempt \in Nat \ {0} /\ frame[c].result = "none"
  BY Typed DEF JInv, Placed
<1>4. Placed(c)' /\ Truthful(c)'
  BY <1>1, <1>2, <1>3 DEF Placed, Truthful, Running
<1>5. \A m \in net' : m.call = c => Outstanding(m)'
  <2> SUFFICES ASSUME NEW m \in net, m.call = c PROVE Outstanding(m)'
    BY <1>1
  <2>1. /\ m.attempt <= frame[c].attempt /\ m.attempt \in Nat \ {0}
        /\ conn[c].answer # "none" => m.attempt # conn[c].attempt
    BY Typed DEF JInv, Outstanding
  <2>2. conn[c].answer = "refused" => conn[c].attempt = frame[c].attempt
    BY DEF JInv, IInv, Connected, Placed
  <2>3. ~(r = "refused" /\ frame[c].attempt = 1)
    BY <2>1, <2>2
  <2> QED
    BY <1>2, <2>1, <2>3 DEF Outstanding, RefusedAtOnce
<1>6. Made(c) /\ ~Cleared(c) => Made(c)' /\ frame'[c].op = frame[c].op /\ ~Cleared(c)'
  BY <1>2 DEF Made, Cleared, RefusedAtOnce
<1>7. \A m \in net' : m \in net \/ m.call = c
  BY <1>1
<1>8. JInv'
  BY <1>1, <1>2, <1>4, <1>5, <1>6, <1>7, CallStepJ
<1>9. Promise!Succeed(c) \/ Promise!Decline(c) \/ Promise!Abandon({c})
  <2>1. PhaseOf(frame[c]) = "open"
    <3>1. frame[c].pc \in {"wait", "backoff"}
      BY Typed DEF JInv, Running
    <3> QED
      BY <3>1, Phases
  <2>2. [d \in Calls |-> frame'[d].op] = [d \in Calls |-> frame[d].op]
    BY <1>2, ShownOf
  <2>3. CASE r = "ok"
    <3>1. PhaseOf(frame'[c]) = "ok"
      BY <1>2, <2>3, Phases
    <3>2. [d \in Calls |-> PhaseOf(frame'[d])] = [[d \in Calls |-> PhaseOf(frame[d])] EXCEPT ![c] = "ok"]
      BY <1>2, <3>1, ShownOf
    <3> QED
      BY <1>1, <2>1, <2>2, <2>3, <3>2 DEF Promise!Succeed
  <2>4. CASE r # "ok" /\ Settled(frame'[c])
    <3>1. PhaseOf(frame'[c]) = "declined"
      BY <1>2, <2>4, Phases
    <3>2. [d \in Calls |-> PhaseOf(frame'[d])] = [[d \in Calls |-> PhaseOf(frame[d])] EXCEPT ![c] = "declined"]
      BY <1>2, <3>1, ShownOf
    <3> QED
      BY <1>1, <2>1, <2>2, <3>2 DEF Promise!Decline
  <2>5. CASE r # "ok" /\ ~Settled(frame'[c])
    <3>1. PhaseOf(frame'[c]) = "doubt"
      BY <1>2, <2>5, Phases
    <3>2. [d \in Calls |-> PhaseOf(frame'[d])]
            = [d \in Calls |-> IF d \in {c} THEN "doubt"
                               ELSE [e \in Calls |-> PhaseOf(frame[e])][d]]
      BY <1>2, <3>1
    <3> QED
      BY <1>1, <2>1, <2>2, <3>2 DEF Promise!Abandon
  <2> QED
    BY <2>3, <2>4, <2>5
<1> QED
  BY <1>8, <1>9

\* Finish: the answer is classified and the call is over.
LEMMA FinishJ ==
    ASSUME JInv, IInv', NEW c \in Calls, Finish(c)
    PROVE  JInv' /\ (Promise!Succeed(c) \/ Promise!Decline(c) \/ Promise!Abandon({c}))
<1> DEFINE a == conn[c].answer
<1>1. a \in Answers /\ a # "conflict" /\ Running(c)
  BY Typed DEF Finish, JInv, IInv, NoConflict, Running
<1>2. /\ ResultOf(a) \in Results \ {"invalid"}
      /\ ResultOf(a) = "ok" => a = "ok"
      /\ ResultOf(a) = "refused" => a = "refused"
  BY <1>1 DEF ResultOf, Finish
<1>3. ResultOf(a) = "ok" /\ frame[c].op \in Commands => effects[frame[c].op] = 1
  BY <1>2 DEF JInv, Truthful
<1> QED
  BY <1>1, <1>2, <1>3, ReturnJ DEF Finish

\* Going into the delay does not show.
LEMMA PauseJ ==
    ASSUME JInv, IInv', NEW c \in Calls, frame[c].pc = "wait", Pause(c)
    PROVE  JInv' /\ UNCHANGED promised
<1>1. /\ frame' = [frame EXCEPT ![c].pc = "backoff"]
      /\ conn' = [conn EXCEPT ![c] = NotConnected]
      /\ UNCHANGED <<net, recorded, effects>>
  BY DEF Pause, HangUp
<1>2. /\ frame'[c].pc = "backoff" /\ frame'[c].result = frame[c].result
      /\ frame'[c].op = frame[c].op /\ frame'[c].body = frame[c].body
      /\ frame'[c].attempt = frame[c].attempt
      /\ conn'[c] = NotConnected
      /\ \A d \in Calls \ {c} : frame'[d] = frame[d] /\ conn'[d] = conn[d]
  BY <1>1, Typed DEF JInv
<1>3. frame[c].attempt # 0 /\ frame[c].result = "none"
  BY DEF JInv, Placed, Running
<1>4. Placed(c)' /\ Truthful(c)'
  BY <1>1, <1>2, <1>3 DEF Placed, Truthful, Running
<1>5. \A m \in net' : m.call = c => Outstanding(m)'
  BY <1>1, <1>2, <1>3 DEF JInv, Outstanding, RefusedAtOnce
<1>6. Made(c) /\ ~Cleared(c) => Made(c)' /\ frame'[c].op = frame[c].op /\ ~Cleared(c)'
  BY <1>2, <1>3 DEF Made, Cleared, RefusedAtOnce
<1>7. \A m \in net' : m \in net \/ m.call = c
  BY <1>1
<1>8. JInv'
  BY <1>1, <1>2, <1>4, <1>5, <1>6, <1>7, CallStepJ
<1>9. PhaseOf(frame[c]) = "open" /\ PhaseOf(frame'[c]) = "open"
  BY <1>2, Phases
<1>10. UNCHANGED promised
  BY <1>1, <1>2, <1>9, ShownOf DEF promised
<1> QED
  BY <1>8, <1>10

\* The connection fails: a silent answer to the attempt in flight.
LEMMA LoseConnectionJ ==
    ASSUME JInv, IInv', NEW c \in Calls, LoseConnection(c)
    PROVE  JInv' /\ (UNCHANGED promised \/ Promise!Succeed(c) \/ Promise!Decline(c)
                        \/ Promise!Abandon({c}))
<1>1. CASE MayRetry(c)
  BY <1>1, PauseJ DEF LoseConnection, Fail
<1>2. CASE ~MayRetry(c)
  BY <1>2, ReturnJ DEF LoseConnection, Fail, Running
<1> QED
  BY <1>1, <1>2

\* Nor does leaving it, whether or not the context lets a request out.
LEMMA ResendJ ==
    ASSUME JInv, IInv', NEW c \in Calls, Resend(c)
    PROVE  JInv' /\ UNCHANGED promised
<1> DEFINE n == frame[c].attempt + 1
           r == [call |-> c, attempt |-> n, op |-> frame[c].op,
                 key |-> frame[c].key, body |-> frame[c].body]
<1>1. /\ frame' = [frame EXCEPT ![c].pc = "wait", ![c].attempt = n]
      /\ UNCHANGED <<recorded, effects>>
      /\ frame[c].pc = "backoff"
  BY DEF Resend
<1>2. \/ net' = net /\ conn' = conn
      \/ net' = net \cup {r} /\ conn' = [conn EXCEPT ![c] = [attempt |-> n, answer |-> "none"]]
  BY DEF Resend, Send, RequestOf
<1>3. conn[c] = NotConnected
  BY <1>1 DEF JInv, IInv, Connected
<1>4. /\ frame'[c].pc = "wait" /\ frame'[c].result = frame[c].result
      /\ frame'[c].op = frame[c].op /\ frame'[c].body = frame[c].body
      /\ frame'[c].attempt = n
      /\ \A d \in Calls \ {c} : frame'[d] = frame[d]
  BY <1>1, Typed DEF JInv
<1>5. /\ conn'[c] \in {NotConnected, [attempt |-> n, answer |-> "none"]}
      /\ \A d \in Calls \ {c} : conn'[d] = conn[d]
  BY <1>2, <1>3, Typed DEF JInv
<1>6. conn'[c].answer = "none" /\ conn'[c].attempt \in {0, n}
  BY <1>5
<1>7. frame[c].attempt \in Nat \ {0} /\ frame[c].result = "none"
  BY <1>1, Typed DEF JInv, Placed, Running
<1>8. Placed(c)' /\ Truthful(c)'
  BY <1>1, <1>4, <1>6, <1>7 DEF Placed, Truthful, Running
<1>9. \A m \in net' : m \in net \/ m = r
  BY <1>2
<1>10. \A m \in net' : m.call = c => Outstanding(m)'
  <2> SUFFICES ASSUME NEW m \in net', m.call = c PROVE Outstanding(m)'
    OBVIOUS
  <2>1. m.attempt \in Nat /\ m.attempt <= n
    <3>1. CASE m = r
      BY <1>7, <3>1
    <3>2. CASE m \in net
      BY <1>7, <3>2, Typed DEF JInv, Outstanding
    <3> QED
      BY <1>9, <3>1, <3>2
  <2> QED
    BY <1>4, <1>6, <1>7, <2>1 DEF Outstanding, RefusedAtOnce
<1>11. Made(c) /\ ~Cleared(c) => Made(c)' /\ frame'[c].op = frame[c].op /\ ~Cleared(c)'
  BY <1>4, <1>6, <1>7 DEF Made, Cleared, RefusedAtOnce
<1>12. \A m \in net' : m \in net \/ m.call = c
  BY <1>9
<1>13. JInv'
  BY <1>1, <1>4, <1>5, <1>8, <1>10, <1>11, <1>12, CallStepJ
<1>14. PhaseOf(frame[c]) = "open" /\ PhaseOf(frame'[c]) = "open"
  BY <1>1, <1>4, Phases
<1>15. UNCHANGED promised
  BY <1>1, <1>4, <1>14, ShownOf DEF promised
<1> QED
  BY <1>13, <1>15

-----------------------------------------------------------------------------
\* A crash leaves every running call in doubt at once.
LEMMA CrashJ ==
    ASSUME JInv, IInv', Crash
    PROVE  JInv' /\ Promise!Abandon({c \in Calls : Running(c)})
<1>1. /\ conn' = [c \in Calls |-> NotConnected]
      /\ UNCHANGED <<net, recorded, effects>>
  BY DEF Crash
<1>2. ASSUME NEW c \in Calls
      PROVE  /\ frame'[c].op = frame[c].op
             /\ frame'[c].body = frame[c].body
             /\ frame'[c].attempt = frame[c].attempt
             /\ ~Running(c) => frame'[c] = frame[c]
             /\ Running(c) => frame'[c].pc = "done" /\ frame'[c].result = "crashed"
             /\ conn'[c] = NotConnected
  <2>1. frame'[c] = IF Running(c) THEN [frame[c] EXCEPT !.pc = "done", !.result = "crashed"]
                                  ELSE frame[c]
    BY DEF Crash
  <2>2. frame[c] \in Frame
    BY Typed DEF JInv
  <2> QED
    BY <1>1, <2>1, <2>2
<1>3. \A c \in Calls : RefusedAtOnce(frame'[c]) => RefusedAtOnce(frame[c])
  BY <1>2 DEF RefusedAtOnce
<1>4. ASSUME NEW c \in Calls PROVE Placed(c)' /\ Truthful(c)'
  <2>1. CASE Running(c)
    BY <1>1, <1>2, <2>1 DEF JInv, Placed, Truthful, Running
  <2>2. CASE ~Running(c)
    BY <1>1, <1>2, <2>2 DEF JInv, Placed, Truthful, Running
  <2> QED
    BY <2>1, <2>2
<1>5. \A m \in net' : Outstanding(m)'
  BY <1>1, <1>2, <1>3, Typed DEF JInv, Outstanding
<1>6. Caused'
  BY <1>1, <1>2, <1>3 DEF JInv, Caused, Made, Cleared
<1>7. Promise!Abandon({c \in Calls : Running(c)})
  <2> DEFINE S == {c \in Calls : Running(c)}
             phase == [c \in Calls |-> PhaseOf(frame[c])]
  <2>1. \A c \in S : phase[c] = "open"
    <3> SUFFICES ASSUME NEW c \in Calls, Running(c) PROVE phase[c] = "open"
      OBVIOUS
    <3>1. frame[c].pc \in {"wait", "backoff"}
      BY Typed DEF JInv, Running
    <3> QED
      BY <3>1, Phases
  <2>2. ASSUME NEW c \in Calls
        PROVE  PhaseOf(frame'[c]) = IF c \in S THEN "doubt" ELSE phase[c]
    <3>1. CASE Running(c)
      BY <1>2, <3>1, Phases DEF Settled
    <3>2. CASE ~Running(c)
      BY <1>2, <3>2
    <3> QED
      BY <3>1, <3>2
  <2>3. [c \in Calls |-> PhaseOf(frame'[c])] = [c \in Calls |-> IF c \in S THEN "doubt" ELSE phase[c]]
    BY <2>2
  <2>4. [c \in Calls |-> frame'[c].op] = [c \in Calls |-> frame[c].op]
    BY <1>2
  <2>5. [o \in Commands |-> effects'[o]] = [o \in Commands |-> effects[o]]
    BY <1>1
  <2> HIDE DEF S
  <2>6. Promise!Abandon(S)
    BY <2>1, <2>3, <2>4, <2>5 DEF Promise!Abandon
  <2> QED
    BY <2>6 DEF S
<1> QED
  BY <1>4, <1>5, <1>6, <1>7 DEF JInv

-----------------------------------------------------------------------------
(* The Worker.                                                             *)

\* An answer reaches the call that waits for it, or nobody.
LEMMA AnswerReaches ==
    ASSUME JInv, NEW m \in net, NEW a \in Answers, Answer(m, a), NEW c \in Calls
    PROVE  \/ conn'[c] = conn[c]
           \/ /\ c = m.call
              /\ conn'[c] = [attempt |-> conn[c].attempt, answer |-> a]
<1>1. CASE conn[m.call].attempt = m.attempt
  <2>1. conn' = [conn EXCEPT ![m.call].answer = a]
    BY <1>1 DEF Answer
  <2> QED
    BY <2>1, Typed DEF JInv
<1>2. CASE conn[m.call].attempt # m.attempt
  BY <1>2 DEF Answer
<1> QED
  BY <1>1, <1>2

\* What was answered is off the wire.
LEMMA AnswerPlaces ==
    ASSUME JInv, NEW m \in net, NEW a \in Answers, Answer(m, a), UNCHANGED frame
    PROVE  (\A c \in Calls : Placed(c)') /\ (\A q \in net' : Outstanding(q)')
<1>1. m \in Request /\ m.call \in Calls
  BY Typed DEF JInv
<1>2. ASSUME NEW c \in Calls PROVE conn'[c].attempt = conn[c].attempt
  <2>1. CASE conn'[c] = conn[c]
    BY <2>1
  <2>2. CASE conn'[c] = [attempt |-> conn[c].attempt, answer |-> a]
    BY <2>2
  <2> QED
    BY <2>1, <2>2, AnswerReaches
<1>3. ASSUME NEW q \in net' PROVE Outstanding(q)'
  <2>1. q \in net /\ q # m /\ q \in Request /\ q.call \in Calls
    BY Typed DEF Answer, JInv
  <2>2. CASE conn'[q.call] = conn[q.call]
    BY <2>1, <2>2 DEF JInv, Outstanding
  <2>3. CASE conn'[q.call] # conn[q.call]
    <3>1. q.call = m.call
      BY <2>1, <2>3, AnswerReaches
    <3>2. q.op = m.op /\ q.key = m.key /\ q.body = m.body
      BY <2>1, <3>1 DEF JInv, IInv, Wire
    <3>3. q.attempt # m.attempt
      BY <1>1, <2>1, <3>1, <3>2
    <3>4. conn[m.call].attempt = m.attempt
      BY <2>3 DEF Answer
    <3>5. conn'[q.call].attempt # q.attempt
      BY <1>1, <1>2, <3>1, <3>3, <3>4
    <3> QED
      BY <2>1, <3>5 DEF JInv, Outstanding
  <2> QED
    BY <2>2, <2>3
<1> QED
  BY <1>2, <1>3 DEF JInv, Placed, Running

\* An answer without effect on a command does not show.
LEMMA SilentAnswerJ ==
    ASSUME JInv, IInv', NEW m \in net, NEW a \in Answers, Answer(m, a), UNCHANGED frame,
           \A o \in Commands : effects'[o] = effects[o],
           a = "ok" /\ m.op \in Commands => effects[m.op] = 1,
           a = "refused" /\ m.op \in Commands => effects[m.op] = 0
    PROVE  JInv' /\ UNCHANGED promised
<1>1. frame[m.call].op = m.op
  BY DEF JInv, IInv, Wire
<1>2. ASSUME NEW c \in Calls PROVE Truthful(c)'
  <2>1. CASE conn'[c] = conn[c]
    BY <2>1 DEF JInv, Truthful
  <2>2. CASE c = m.call /\ conn'[c] = [attempt |-> conn[c].attempt, answer |-> a]
    BY <1>1, <2>2 DEF JInv, Truthful
  <2> QED
    BY <2>1, <2>2, AnswerReaches
<1>3. Caused'
  <2> SUFFICES ASSUME NEW o \in Commands, effects[o] # 0
               PROVE  \E d \in Calls : Made(d)' /\ frame'[d].op = o /\ ~Cleared(d)'
    BY DEF Caused
  <2> PICK d \in Calls : Made(d) /\ frame[d].op = o /\ ~Cleared(d)
    BY DEF JInv, Caused
  <2>1. CASE conn'[d] = conn[d]
    BY <2>1 DEF Made, Cleared
  <2>2. CASE d = m.call /\ conn'[d] = [attempt |-> conn[d].attempt, answer |-> a]
    BY <1>1, <2>2 DEF Made, Cleared
  <2> QED
    BY <2>1, <2>2, AnswerReaches
<1>4. UNCHANGED promised
  BY DEF promised
<1> QED
  BY <1>2, <1>3, <1>4, AnswerPlaces DEF JInv

\* The commit of a keyed command is the moment the abstract one takes effect.
LEMMA CommitJ ==
    ASSUME JInv, IInv', NEW m \in net, m.op \in Commands, Commit(m), UNCHANGED frame
    PROVE  JInv' /\ Promise!Apply(m.op)
<1> PICK a \in {"ok", "retryable"} \cup Damaged : Answer(m, a)
  BY DEF Commit
<1>1. a \in Answers /\ a # "refused"
  OBVIOUS
<1> DEFINE c == m.call
<1>2. /\ c \in Calls /\ Made(c) /\ frame[c].op = m.op /\ frame[c].key = m.key /\ m.key \in Keys
  BY SenderFacts DEF JInv, IInv, Stored
<1>3. recorded[m.key] = NoBody /\ effects[m.op] = 0
  BY <1>2 DEF Commit, JInv, IInv, Ledgered
<1>4. /\ effects'[m.op] = 1
      /\ \A o \in Commands \ {m.op} : effects'[o] = effects[o]
  BY <1>3, Typed DEF Commit, JInv
<1>5. ASSUME NEW d \in Calls PROVE Truthful(d)'
  <2>1. CASE frame[d].op = m.op
    BY <1>4, <2>1 DEF Truthful
  <2>2. CASE frame[d].op # m.op
    <3>1. conn'[d] = conn[d]
      BY <1>1, <1>2, <2>2, AnswerReaches
    <3> QED
      BY <1>4, <2>2, <3>1 DEF JInv, Truthful
  <2> QED
    BY <2>1, <2>2
<1>6. ~Cleared(c)'
  <2>1. ~RefusedAtOnce(frame[c])
    BY DEF JInv, Outstanding
  <2>2. CASE conn'[c] = [attempt |-> conn[c].attempt, answer |-> a]
    BY <1>1, <2>1, <2>2 DEF Cleared
  <2>3. CASE conn'[c] = conn[c]
    <3>1. m.attempt <= frame[c].attempt /\ m.attempt \in Nat \ {0}
      BY Typed DEF JInv, Outstanding
    <3>2. conn[c].answer = "refused" =>
            conn[c].attempt = frame[c].attempt /\ m.attempt # conn[c].attempt
      BY <1>2 DEF JInv, IInv, Connected, Placed, Outstanding
    <3> QED
      BY <2>1, <2>3, <3>1, <3>2 DEF Cleared
  <2> QED
    BY <1>1, <1>2, <2>2, <2>3, AnswerReaches
<1>7. Caused'
  <2> SUFFICES ASSUME NEW o \in Commands, effects'[o] # 0
               PROVE  \E d \in Calls : Made(d)' /\ frame'[d].op = o /\ ~Cleared(d)'
    BY DEF Caused
  <2>1. CASE o = m.op
    BY <1>2, <1>6, <2>1 DEF Made
  <2>2. CASE o # m.op
    <3> PICK d \in Calls : Made(d) /\ frame[d].op = o /\ ~Cleared(d)
      BY <1>4, <2>2 DEF JInv, Caused
    <3>1. conn'[d] = conn[d]
      BY <1>1, <1>2, <2>2, AnswerReaches
    <3> QED
      BY <3>1 DEF Made, Cleared
  <2> QED
    BY <2>1, <2>2
<1>8. JInv'
  BY <1>1, <1>5, <1>7, AnswerPlaces DEF JInv
<1>9. PhaseOf(frame[c]) \in {"open", "doubt"}
  <2>1. frame[c] \in Frame /\ frame[c].pc # "idle"
    BY <1>2, Typed DEF JInv, IInv, Frames, Made
  <2>2. frame[c].result # "ok"
    BY <1>2, <1>3 DEF JInv, Truthful
  <2>3. ~Settled(frame[c])
    BY <1>2 DEF JInv, Placed, Outstanding, Made, Settled, RefusedAtOnce
  <2> QED
    BY <2>1, <2>2, <2>3, Phases
<1>10. [o \in Commands |-> effects'[o]] = [[o \in Commands |-> effects[o]] EXCEPT ![m.op] = 1]
  BY <1>4
<1>11. Promise!Apply(m.op)
  BY <1>2, <1>3, <1>9, <1>10 DEF Promise!Apply
<1> QED
  BY <1>8, <1>11

\* Whatever else the Worker does, it does not show.
LEMMA WorkerJ ==
    ASSUME JInv, IInv', Worker
    PROVE  JInv' /\ (UNCHANGED promised \/ \E o \in Commands : Promise!Apply(o))
<1> PICK m \in net : Handle(m) /\ UNCHANGED frame
  BY DEF Worker, clientVars
<1>0. m.op \in Commands =>
        /\ m.key \in Keys
        /\ recorded[m.key] \in {NoBody, m.body} /\ m.body # NoBody
        /\ effects[m.op] = IF recorded[m.key] = NoBody THEN 0 ELSE 1
  BY SenderFacts DEF JInv, IInv, Stored, Ledgered
<1>1. CASE Commit(m) /\ m.op \in Commands
  BY <1>1, CommitJ
<1>2. CASE Commit(m) /\ m.op \notin Commands
  <2>1. PICK a \in {"ok", "retryable"} \cup Damaged : Answer(m, a)
    BY <1>2 DEF Commit
  <2>2. \A o \in Commands : effects'[o] = effects[o]
    BY <1>2, Typed DEF Commit, JInv
  <2> QED
    BY <1>2, <2>1, <2>2, SilentAnswerJ
<1>3. CASE Replay(m)
  <2>1. PICK a \in {"ok", "retryable"} \cup Damaged : Answer(m, a)
    BY <1>3 DEF Replay
  <2>2. effects' = effects /\ (m.op \in Commands => effects[m.op] = 1)
    BY <1>0, <1>3 DEF Replay
  <2> QED
    BY <2>1, <2>2, SilentAnswerJ
<1>4. CASE Conflict(m)
  <2>1. effects' = effects /\ Answer(m, "conflict")
    BY <1>4 DEF Conflict
  <2> QED
    BY <2>1, SilentAnswerJ
<1>5. CASE TurnDown(m)
  <2>1. PICK a \in {"refused", "retryable"} \cup Damaged : Answer(m, a)
    BY <1>5 DEF TurnDown
  <2>2. effects' = effects /\ (m.op \in Commands => effects[m.op] = 0)
    BY <1>0, <1>5 DEF TurnDown
  <2> QED
    BY <2>1, <2>2, SilentAnswerJ
<1>6. CASE Query(m)
  <2>1. PICK a \in Answers \ {"conflict"} : Answer(m, a)
    BY <1>6 DEF Query
  <2>2. effects' = effects /\ m.op \notin Commands
    BY <1>6 DEF Query
  <2> QED
    BY <2>1, <2>2, SilentAnswerJ
<1> QED
  BY <1>1, <1>2, <1>3, <1>4, <1>5, <1>6 DEF Handle

-----------------------------------------------------------------------------
\* Steps that touch nothing of what JInv speaks of, and do not show.
LEMMA QuietJ ==
    ASSUME JInv, IInv', UNCHANGED <<serviceVars, frame>>
    PROVE  JInv' /\ UNCHANGED promised
<1> USE DEF serviceVars
<1>1. (\A c \in Calls : Placed(c)' /\ Truthful(c)') /\ (\A m \in net' : Outstanding(m)')
  BY DEF JInv, Placed, Truthful, Outstanding, Running
<1>2. Caused'
  BY DEF JInv, Caused, Made, Cleared
<1>3. UNCHANGED promised
  BY DEF promised
<1> QED
  BY <1>1, <1>2, <1>3 DEF JInv

\* Every step keeps the invariant, and is a step of the promise or invisible.
LEMMA NextJ == JInv /\ [Next]_vars => JInv' /\ [Promise!Next]_(Promise!vars)
<1> SUFFICES ASSUME JInv, [Next]_vars
             PROVE  JInv' /\ (Promise!Next \/ UNCHANGED promised)
  BY DEF Promise!vars, promised
<1>0. IInv'
  BY NextInv DEF JInv
<1>1. ASSUME NEW c \in Calls, NEW o \in Ops,
             FirstCall(c, o) \/ RepeatCall(c, o) \/ ReadCall(c, o)
      PROVE  JInv' /\ Promise!Invoke(c, o)
  <2>1. frame[c].pc = "idle"
    BY <1>1 DEF FirstCall, RepeatCall, ReadCall
  <2>2. \E k, b : Enter(c, o, k, b)
    BY <1>1 DEF FirstCall, RepeatCall, ReadCall
  <2> QED
    BY <1>0, <2>1, <2>2, EnterJ
<1>2. ASSUME NEW c \in Calls, Begin(c) PROVE JInv' /\ Promise!Next
  <2> PICK o \in Ops : FirstCall(c, o) \/ RepeatCall(c, o) \/ ReadCall(c, o) \/ InvalidCall(c, o)
    BY <1>2 DEF Begin
  <2>1. o \in Commands \cup (Reads \cup Unkeyed)
    OBVIOUS
  <2> QED
    BY <1>0, <1>1, <2>1, InvalidCallJ DEF Promise!Next
<1>3. ASSUME NEW c \in Calls, Step(c) PROVE JInv' /\ (Promise!Next \/ UNCHANGED promised)
  <2>0. {c} \in SUBSET Calls
    OBVIOUS
  <2>1. CASE Finish(c)
    BY <1>0, <2>0, <2>1, FinishJ DEF Promise!Next
  <2>2. CASE RetryError(c)
    BY <1>0, <2>2, PauseJ DEF RetryError
  <2>3. CASE LoseConnection(c)
    BY <1>0, <2>0, <2>3, LoseConnectionJ DEF Promise!Next
  <2>4. CASE Resend(c)
    BY <1>0, <2>4, ResendJ
  <2>5. CASE Abort(c)
    BY <1>0, <2>0, <2>5, ReturnJ DEF Abort, Running, Promise!Next
  <2> QED
    BY <1>3, <2>1, <2>2, <2>3, <2>4, <2>5 DEF Step
<1>4. ASSUME NEW c \in Calls, Expire(c) PROVE JInv' /\ UNCHANGED promised
  BY <1>0, <1>4, QuietJ DEF Expire
<1>5. CASE Worker
  BY <1>0, <1>5, WorkerJ DEF Promise!Next
<1>6. CASE Crash
  <2>1. {c \in Calls : Running(c)} \in SUBSET Calls
    OBVIOUS
  <2> QED
    BY <1>0, <1>6, <2>1, CrashJ DEF Promise!Next
<1>7. CASE UNCHANGED vars
  BY <1>0, <1>7, QuietJ DEF vars
<1> QED
  BY <1>2, <1>3, <1>4, <1>5, <1>6, <1>7 DEF Next

\* JInv holds in every reachable state.
LEMMA AttemptsInvariant == Spec => []JInv
BY InitJ, NextJ, PTL DEF Spec

\* The loop of requestWithHeaders, with contexts that end at any moment, the network
\* and the Worker implement one atomic command per keyed operation.
THEOREM ClientKeepsThePromise == Spec => KeepsThePromise
<1>1. Init => Promise!Init
  BY InitJ
<1>2. JInv /\ [Next]_vars => [Promise!Next]_(Promise!vars)
  BY NextJ
<1> QED
  BY <1>1, <1>2, AttemptsInvariant, PTL DEF Spec, KeepsThePromise, Promise!Spec

\* A command all of whose calls were refused at their first attempt, or before it,
\* was not applied and never will be, whatever became of their contexts.
THEOREM RefusalsAreFinal == Spec => []RefusalIsFinal
<1>1. JInv => RefusalIsFinal
  <2> SUFFICES ASSUME JInv, NEW o \in Commands,
                      \A c \in CallsOf(o) : /\ frame[c].result \in {"refused", "invalid"}
                                            /\ frame[c].attempt <= 1
               PROVE  effects[o] = 0 /\ \A m \in net : m.op # o
    BY DEF RefusalIsFinal
  <2>1. ASSUME NEW c \in CallsOf(o), Made(c) PROVE RefusedAtOnce(frame[c])
    <3>1. c \in Calls /\ frame[c] \in Frame
      BY Typed DEF CallsOf, JInv
    <3>2. frame[c].result # "invalid"
      BY <2>1, <3>1 DEF JInv, Placed, Made
    <3>3. frame[c].attempt # 0
      BY <2>1, <3>1 DEF JInv, Placed, Made
    <3> QED
      BY <3>1, <3>2, <3>3 DEF RefusedAtOnce
  <2>2. effects[o] = 0
    BY <2>1 DEF JInv, Caused, CallsOf, Cleared
  <2>3. ASSUME NEW m \in net, m.op = o PROVE FALSE
    <3>1. m.call \in CallsOf(o) /\ Made(m.call)
      BY <2>3, SenderFacts DEF JInv, CallsOf
    <3> QED
      BY <2>1, <3>1 DEF JInv, Outstanding
  <2> QED
    BY <2>2, <2>3
<1> QED
  BY <1>1, AttemptsInvariant, PTL
===============================================================================
