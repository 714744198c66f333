-------------------------- MODULE SqliteInboxProofs --------------------------
(***************************************************************************)
(* The SQLite inbox is a durable inbox, for every value of the constants.  *)
(*                                                                         *)
(* The write lock is what the argument rests on: only its holder is inside *)
(* a transaction (Locked), so what the INSERT saw of the rows still holds  *)
(* when the transaction commits or compares (Judged).  Hence the rows obey *)
(* both indexes (Unique), a verdict rests on rows that no step removes     *)
(* (Judged again), and so does what the sender was told (Told).            *)
(***************************************************************************)
EXTENDS SqliteInbox, TLAPS

\* Neither index holds two rows under one key.
Unique == \A r \in rows, s \in rows : r.outbox = s.outbox \/ r.event = s.event => r = s

Locked == \A w \in Workers : worker[w].pc \in Writing => writer = w

\* The event has a row with this body.
Stored(d) == \E r \in rows : r.event = d.event /\ r.body = d.body

\* The outbox ID or the event belongs to something else.
Clashes(d) == \E r \in rows :
    (r.event = d.event /\ r.body # d.body) \/ (r.outbox = d.outbox /\ r.event # d.event)

Judged ==
    \A w \in Workers :
        /\ At(w, "commit") => ~Conflicts(worker[w].item)
        /\ At(w, "compare") => Conflicts(worker[w].item)
        /\ worker[w].pc \in {"keep", "accepted"} => Stored(worker[w].item)
        /\ At(w, "refused") => Clashes(worker[w].item)

Told == \A d \in acked : Stored(d)

IInv == TypeOK /\ Unique /\ Locked /\ Judged /\ Told

-----------------------------------------------------------------------------
USE DeliveriesAssumption, NoBodyAssumption, FreeAssumption, MaxSendsAssumption
USE DEF Idle, Writing, Frame, At

LEMMA InitInv == Init => IInv
BY DEF Init, IInv, TypeOK, Unique, Locked, Judged, Told

\* A process that is not idle has a delivery.
LEMMA AtWork ==
    ASSUME TypeOK, NEW w \in Workers, worker[w].pc # "idle"
    PROVE  /\ worker[w] \in Frame
           /\ worker[w].item \in Deliveries
           /\ worker[w].item.outbox \in Outbox
           /\ worker[w].item.event \in Events
           /\ worker[w].item.body \in Bodies
<1>1. worker[w] \in Frame
  BY DEF TypeOK
<1>2. worker[w].item \in Deliveries
  BY <1>1
<1>3. worker[w].item \in [outbox : Outbox, event : Events, body : Bodies]
  BY <1>2
<1> QED
  BY <1>1, <1>2, <1>3

\* A process that moves on keeps its delivery; the others stay where they are.
LEMMA GotoFacts ==
    ASSUME TypeOK, NEW w \in Workers, worker[w].pc # "idle",
           NEW pc \in {"insert", "accepted", "refused", "failed"} \cup Writing,
           Goto(w, pc)
    PROVE  /\ worker'[w].pc = pc
           /\ worker'[w].item = worker[w].item
           /\ \A v \in Workers \ {w} : worker'[v] = worker[v]
           /\ worker' \in [Workers -> Frame \cup {Idle}]
<1>1. worker[w] \in Frame
  BY AtWork
<1>2. /\ worker'[w] = [worker[w] EXCEPT !.pc = pc]
      /\ \A v \in Workers \ {w} : worker'[v] = worker[v]
  BY DEF Goto, TypeOK
<1>3. worker'[w] \in Frame
  BY <1>1, <1>2
<1>4. worker' \in [Workers -> Frame \cup {Idle}]
  <2>1. ASSUME NEW v \in Workers PROVE worker'[v] \in Frame \cup {Idle}
    BY <1>2, <1>3 DEF TypeOK
  <2> QED
    BY <2>1 DEF Goto, TypeOK
<1> QED
  BY <1>1, <1>2, <1>4

\* The holder of the write lock is alone inside a transaction.
LEMMA OneWrites ==
    ASSUME Locked, NEW w \in Workers, worker[w].pc \in Writing
    PROVE  writer = w /\ \A v \in Workers \ {w} : worker[v].pc \notin Writing
BY DEF Locked

\* A comparison that finds a repeat rests on a row of the event, and one that
\* does not on a row that clashes.
LEMMA VerdictFacts ==
    ASSUME NEW d \in Deliveries, Conflicts(d)
    PROVE  /\ IsRepeat(d) => Stored(d)
           /\ ~IsRepeat(d) => Clashes(d)
<1> DEFINE same == {r \in rows : r.outbox = d.outbox}
           alike == {r \in rows : r.event = d.event}
           judged == IF same # {} THEN same ELSE alike
<1>1. IsRepeat(d) <=> \A r \in judged : r.event = d.event /\ r.body = d.body
  BY DEF IsRepeat
<1>2. judged # {} /\ judged \subseteq rows
  BY DEF Conflicts
<1>3. IsRepeat(d) => Stored(d)
  <2>1. PICK r \in judged : TRUE
    BY <1>2
  <2> HIDE DEF judged
  <2> QED
    BY <1>1, <1>2, <2>1 DEF Stored
<1>4. ~IsRepeat(d) => Clashes(d)
  <2>1. \A r \in judged : r.outbox = d.outbox \/ r.event = d.event
    OBVIOUS
  <2> HIDE DEF judged
  <2> QED
    BY <1>1, <1>2, <2>1 DEF Clashes
<1> QED
  BY <1>3, <1>4

\* Steps that touch no row only have to fit the processes to the rows.
LEMMA NoRowInv ==
    ASSUME IInv, UNCHANGED <<rows, acked>>, TypeOK', Locked', Judged'
    PROVE  IInv'
<1>1. Unique' /\ Told'
  BY DEF IInv, Unique, Told, Stored
<1> QED
  BY <1>1 DEF IInv

-----------------------------------------------------------------------------
LEMMA ReceiveInv ==
    ASSUME IInv, NEW w \in Workers, NEW d \in Deliveries, Receive(w, d)
    PROVE  IInv'
<1>1. /\ TypeOK /\ worker[w].pc = "idle" /\ UNCHANGED <<rows, writer, acked>>
      /\ worker' = [worker EXCEPT ![w] = [pc |-> "insert", item |-> d]]
  BY DEF IInv, Receive
<1>2. /\ worker'[w].pc = "insert"
      /\ \A v \in Workers \ {w} : worker'[v] = worker[v]
  BY <1>1 DEF TypeOK
<1>3. TypeOK'
  <2>1. [pc |-> "insert", item |-> d] \in Frame
    OBVIOUS
  <2>2. worker' \in [Workers -> Frame \cup {Idle}]
    BY <1>1, <2>1 DEF TypeOK
  <2>3. sent' \in [Deliveries -> 0..MaxSends]
    BY <1>1 DEF Receive, TypeOK
  <2> QED
    BY <1>1, <2>2, <2>3 DEF TypeOK
<1>4. Locked'
  BY <1>1, <1>2 DEF IInv, Locked
<1>5. Judged'
  BY <1>1, <1>2 DEF IInv, Judged, Conflicts, Stored, Clashes
<1> QED
  BY <1>1, <1>3, <1>4, <1>5, NoRowInv

\* The lock is free, so no other process is inside a transaction.
LEMMA InsertInv ==
    ASSUME IInv, NEW w \in Workers, Insert(w)
    PROVE  IInv'
<1> DEFINE d == worker[w].item
           next == IF Conflicts(d) THEN "compare" ELSE "commit"
<1>1. /\ TypeOK /\ worker[w].pc = "insert" /\ writer = Free /\ writer' = w
      /\ Goto(w, next)
      /\ UNCHANGED <<rows, sent, acked>>
  BY DEF IInv, Insert
<1>2. /\ worker'[w].pc = next
      /\ worker'[w].item = d
      /\ \A v \in Workers \ {w} : worker'[v] = worker[v]
      /\ worker' \in [Workers -> Frame \cup {Idle}]
  BY <1>1, GotoFacts
<1>3. \A v \in Workers : worker[v].pc \notin Writing
  BY <1>1 DEF IInv, Locked
<1>4. TypeOK'
  BY <1>1, <1>2 DEF TypeOK
<1>5. Locked'
  BY <1>1, <1>2, <1>3 DEF Locked
<1>6. Judged'
  BY <1>1, <1>2 DEF IInv, Judged, Conflicts, Stored, Clashes
<1> QED
  BY <1>1, <1>4, <1>5, <1>6, NoRowInv

LEMMA CompareInv ==
    ASSUME IInv, NEW w \in Workers, Compare(w)
    PROVE  IInv'
<1> DEFINE d == worker[w].item
           next == IF IsRepeat(d) THEN "keep" ELSE "refused"
<1>1. /\ TypeOK /\ worker[w].pc = "compare"
      /\ Goto(w, next)
      /\ writer' \in {writer, Free}
      /\ next = "keep" => writer' = writer
      /\ UNCHANGED <<rows, sent, acked>>
  BY DEF IInv, Compare, End
<1>2. /\ worker'[w].pc = next
      /\ worker'[w].item = d
      /\ \A v \in Workers \ {w} : worker'[v] = worker[v]
      /\ worker' \in [Workers -> Frame \cup {Idle}]
  BY <1>1, GotoFacts
<1>3. writer = w /\ \A v \in Workers \ {w} : worker[v].pc \notin Writing
  BY <1>1, OneWrites DEF IInv
<1>4. next = "keep" => Stored(d)
  BY <1>1, AtWork, VerdictFacts DEF IInv, Judged
<1>5. next = "refused" => Clashes(d)
  BY <1>1, AtWork, VerdictFacts DEF IInv, Judged
<1>6. TypeOK'
  BY <1>1, <1>2 DEF TypeOK
<1>7. Locked'
  BY <1>1, <1>2, <1>3 DEF Locked
<1>8. Judged'
  <2>1. \A r \in {next} : r \in {"keep", "refused"}
    OBVIOUS
  <2> HIDE DEF next
  <2> QED
    BY <1>1, <1>2, <1>4, <1>5, <2>1 DEF IInv, Judged, Conflicts, Stored, Clashes
<1> QED
  BY <1>1, <1>6, <1>7, <1>8, NoRowInv

\* A commit adds the one row that conflicts with none, or no row.
LEMMA CommitInv ==
    ASSUME IInv, NEW w \in Workers, Commit(w)
    PROVE  IInv'
<1> DEFINE d == worker[w].item
<1>1. /\ TypeOK /\ worker[w].pc \in {"commit", "keep"}
      /\ rows' = IF worker[w].pc = "commit" THEN rows \cup {RowOf(d)} ELSE rows
      /\ Goto(w, "accepted")
      /\ writer' \in {writer, Free}
      /\ UNCHANGED <<sent, acked>>
  BY DEF IInv, Commit, End
<1>2. /\ worker'[w].pc = "accepted"
      /\ worker'[w].item = d
      /\ \A v \in Workers \ {w} : worker'[v] = worker[v]
      /\ worker' \in [Workers -> Frame \cup {Idle}]
  BY <1>1, GotoFacts
<1>3. writer = w /\ \A v \in Workers \ {w} : worker[v].pc \notin Writing
  BY <1>1, OneWrites DEF IInv
<1>4. /\ RowOf(d) \in [outbox : Outbox, event : Events, body : Bodies]
      /\ RowOf(d).outbox = d.outbox /\ RowOf(d).event = d.event /\ RowOf(d).body = d.body
  BY <1>1, AtWork DEF RowOf
<1>5. rows \subseteq rows'
  BY <1>1
<1>6. TypeOK'
  BY <1>1, <1>2, <1>4 DEF TypeOK
<1>7. Unique'
  <2>1. CASE worker[w].pc = "commit"
    <3>1. \A r \in rows : r.outbox # d.outbox /\ r.event # d.event
      BY <2>1 DEF IInv, Judged, Conflicts
    <3>2. rows' = rows \cup {RowOf(d)}
      BY <1>1, <2>1
    <3> QED
      BY <1>4, <3>1, <3>2 DEF IInv, Unique
  <2>2. CASE worker[w].pc # "commit"
    BY <1>1, <2>2 DEF IInv, Unique
  <2> QED
    BY <2>1, <2>2
<1>8. Locked'
  BY <1>2, <1>3 DEF Locked
<1>9. Judged'
  <2>1. \E r \in rows' : r.event = d.event /\ r.body = d.body
    <3>1. CASE worker[w].pc = "commit"
      BY <1>1, <1>4, <3>1
    <3>2. CASE worker[w].pc = "keep"
      BY <1>1, <3>2 DEF IInv, Judged, Stored
    <3> QED
      BY <1>1, <3>1, <3>2
  <2>2. ASSUME NEW v \in Workers \ {w}
        PROVE  /\ worker'[v] = worker[v]
               /\ worker[v].pc \notin Writing
               /\ worker[v].pc = "accepted" =>
                    \E r \in rows' : r.event = worker[v].item.event /\ r.body = worker[v].item.body
               /\ worker[v].pc = "refused" => \E r \in rows' :
                    \/ r.event = worker[v].item.event /\ r.body # worker[v].item.body
                    \/ r.outbox = worker[v].item.outbox /\ r.event # worker[v].item.event
    BY <1>2, <1>3, <1>5 DEF IInv, Judged, Stored, Clashes
  <2> QED
    BY <1>2, <2>1, <2>2 DEF Judged, Stored, Clashes
<1>10. Told'
  BY <1>1, <1>5 DEF IInv, Told, Stored
<1> QED
  BY <1>6, <1>7, <1>8, <1>9, <1>10 DEF IInv

LEMMA ReplyInv ==
    ASSUME IInv, NEW w \in Workers, Reply(w)
    PROVE  IInv'
<1> DEFINE d == worker[w].item
<1>1. /\ TypeOK /\ worker[w].pc \in {"accepted", "refused", "failed"}
      /\ acked' = IF worker[w].pc = "accepted" THEN acked \cup {d} ELSE acked
      /\ worker' = [worker EXCEPT ![w] = Idle]
      /\ UNCHANGED <<rows, writer, sent>>
  BY DEF IInv, Reply
<1>2. worker'[w] = Idle /\ \A v \in Workers \ {w} : worker'[v] = worker[v]
  BY <1>1 DEF TypeOK
<1>3. d \in Deliveries
  BY <1>1, AtWork
<1>4. TypeOK'
  BY <1>1, <1>3 DEF TypeOK
<1>5. Unique' /\ Locked'
  BY <1>1, <1>2 DEF IInv, Unique, Locked
<1>6. Judged'
  BY <1>1, <1>2 DEF IInv, Judged, Conflicts, Stored, Clashes
<1>7. Told'
  BY <1>1 DEF IInv, Told, Judged, Stored
<1> QED
  BY <1>4, <1>5, <1>6, <1>7 DEF IInv

\* A lock that times out and an exception leave the rows as they are.
LEMMA FailureInv ==
    ASSUME IInv, NEW w \in Workers, Busy(w) \/ Error(w)
    PROVE  IInv'
<1>1. /\ TypeOK /\ worker[w].pc \in Writing \cup {"insert"}
      /\ Goto(w, "failed")
      /\ writer' \in {writer, Free}
      /\ writer' = writer \/ writer = w
      /\ UNCHANGED <<rows, sent, acked>>
  BY DEF IInv, Busy, Error, End
<1>2. /\ worker'[w].pc = "failed"
      /\ \A v \in Workers \ {w} : worker'[v] = worker[v]
      /\ worker' \in [Workers -> Frame \cup {Idle}]
  BY <1>1, GotoFacts
<1>3. TypeOK'
  BY <1>1, <1>2 DEF TypeOK
<1>4. Locked'
  BY <1>1, <1>2 DEF IInv, Locked
<1>5. Judged'
  BY <1>1, <1>2 DEF IInv, Judged, Conflicts, Stored, Clashes
<1> QED
  BY <1>1, <1>3, <1>4, <1>5, NoRowInv

\* Processes die: a transaction that was open never happened.
LEMMA DieInv ==
    ASSUME IInv, NEW S \in SUBSET Workers, Die(S)
    PROVE  IInv'
<1>1. /\ TypeOK
      /\ \A v \in Workers : worker'[v] = IF v \in S THEN Idle ELSE worker[v]
      /\ writer' = IF writer \in S THEN Free ELSE writer
      /\ UNCHANGED <<rows, sent, acked>>
  BY DEF IInv, Die
<1>2. TypeOK'
  <2>1. worker' \in [Workers -> Frame \cup {Idle}]
    BY <1>1 DEF Die, TypeOK
  <2> QED
    BY <1>1, <2>1 DEF TypeOK
<1>3. Locked'
  BY <1>1 DEF IInv, Locked
<1>4. Judged'
  BY <1>1 DEF IInv, Judged, Conflicts, Stored, Clashes
<1> QED
  BY <1>1, <1>2, <1>3, <1>4, NoRowInv

LEMMA NextInv == IInv /\ [Next]_vars => IInv'
<1> SUFFICES ASSUME IInv, [Next]_vars PROVE IInv'
  OBVIOUS
<1>1. ASSUME NEW w \in Workers, NEW d \in Deliveries, Receive(w, d) PROVE IInv'
  BY <1>1, ReceiveInv
<1>2. ASSUME NEW w \in Workers, Step(w) \/ Busy(w) \/ Error(w) PROVE IInv'
  BY <1>2, InsertInv, CompareInv, CommitInv, ReplyInv, FailureInv DEF Step
<1>3. ASSUME NEW S \in SUBSET Workers, Die(S) PROVE IInv'
  BY <1>3, DieInv
<1>4. CASE UNCHANGED vars
  BY <1>4 DEF vars, IInv, TypeOK, Unique, Locked, Judged, Told, Conflicts, Stored, Clashes
<1> QED
  BY <1>1, <1>2, <1>3, <1>4 DEF Next

LEMMA InductiveInvariant == Spec => []IInv
BY InitInv, NextInv, PTL DEF Spec

\* The variables keep their types; in particular a row has all its columns.
THEOREM TypeCorrect == Spec => []TypeOK
<1>1. IInv => TypeOK
  BY DEF IInv
<1> QED
  BY <1>1, InductiveInvariant, PTL

\* A delivery is refused only where its outbox ID or its event is taken by
\* something else, in whatever order the processes judged their deliveries.
THEOREM RefusedOnlyForAClash == Spec => []RepeatsAreAccepted
<1>1. IInv => RepeatsAreAccepted
  BY DEF IInv, Judged, Clashes, RepeatsAreAccepted
<1> QED
  BY <1>1, InductiveInvariant, PTL

-----------------------------------------------------------------------------
\* The body that a set of rows has for an event.
BodyIn(R, e) ==
    IF \E r \in R : r.event = e THEN (CHOOSE r \in R : r.event = e).body ELSE NoBody

LEMMA BodyOfRow ==
    ASSUME NEW R, \A r \in R, s \in R : r.event = s.event => r = s, NEW r \in R
    PROVE  BodyIn(R, r.event) = r.body
<1> DEFINE chosen == CHOOSE s \in R : s.event = r.event
<1>1. chosen \in R /\ chosen.event = r.event
  OBVIOUS
<1>2. chosen = r
  BY <1>1
<1> QED
  BY <1>2 DEF BodyIn

LEMMA InitPromise == Init => Promise!Init
BY DEF Init, Promise!Init, Records

\* A new row is a new record, and leaves those of the other events alone.
LEMMA CommitPromise ==
    ASSUME IInv, NEW w \in Workers, Commit(w)
    PROVE  Promise!Next \/ UNCHANGED <<Records, acked>>
<1> DEFINE d == worker[w].item
<1>1. TypeOK /\ worker[w].pc \in {"commit", "keep"} /\ acked' = acked
  BY DEF IInv, Commit
<1>2. d \in Deliveries /\ d.event \in Events /\ d.body \in Bodies
  BY <1>1, AtWork
<1>3. Records = [e \in Events |-> BodyIn(rows, e)] /\ Records' = [e \in Events |-> BodyIn(rows', e)]
  BY DEF Records, BodyIn
<1>4. CASE worker[w].pc = "keep"
  <2>1. rows' = rows
    BY <1>4 DEF Commit
  <2> QED
    BY <1>1, <1>3, <2>1
<1>5. CASE worker[w].pc = "commit"
  <2>1. rows' = rows \cup {RowOf(d)} /\ RowOf(d).event = d.event /\ RowOf(d).body = d.body
    BY <1>5 DEF Commit, RowOf
  <2>2. \A r \in rows : r.event # d.event
    BY <1>5 DEF IInv, Judged, Conflicts
  <2>3. /\ \A r \in rows, s \in rows : r.event = s.event => r = s
        /\ \A r \in rows', s \in rows' : r.event = s.event => r = s
    BY CommitInv DEF IInv, Unique
  <2>4. BodyIn(rows, d.event) = NoBody
    BY <2>2 DEF BodyIn
  <2>5. BodyIn(rows', d.event) = d.body
    <3>1. RowOf(d) \in rows'
      BY <2>1
    <3>2. BodyIn(rows', RowOf(d).event) = RowOf(d).body
      BY <2>3, <3>1, BodyOfRow
    <3> QED
      BY <2>1, <3>2
  <2>6. ASSUME NEW e \in Events, e # d.event PROVE BodyIn(rows', e) = BodyIn(rows, e)
    <3>1. CASE \E r \in rows : r.event = e
      <4>1. PICK r \in rows : r.event = e
        BY <3>1
      <4>2. BodyIn(rows, r.event) = r.body /\ BodyIn(rows', r.event) = r.body
        BY <2>1, <2>3, BodyOfRow
      <4> QED
        BY <4>1, <4>2
    <3>2. CASE ~\E r \in rows : r.event = e
      BY <2>1, <2>6, <3>2 DEF BodyIn
    <3> QED
      BY <3>1, <3>2
  <2>7. Records' = [Records EXCEPT ![d.event] = [b \in Bodies |-> b][d.body]]
    BY <1>2, <1>3, <2>4, <2>5, <2>6
  <2>8. Promise!Record(d)
    BY <1>1, <1>2, <1>3, <2>4, <2>7 DEF Promise!Record
  <2> QED
    BY <1>2, <2>8 DEF Promise!Next
<1> QED
  BY <1>1, <1>4, <1>5

\* A 204 is an acknowledgement the promise allows.
LEMMA ReplyPromise ==
    ASSUME IInv, NEW w \in Workers, Reply(w)
    PROVE  Promise!Next \/ UNCHANGED <<Records, acked>>
<1> DEFINE d == worker[w].item
<1>1. Records' = Records
  BY DEF Reply, Records
<1>2. CASE ~At(w, "accepted")
  BY <1>1, <1>2 DEF Reply
<1>3. CASE At(w, "accepted")
  <2>1. d \in Deliveries /\ d.event \in Events /\ d.body \in Bodies
    BY <1>3, AtWork DEF IInv
  <2>2. PICK r \in rows : r.event = d.event /\ r.body = d.body
    BY <1>3 DEF IInv, Judged, Stored
  <2>3. BodyIn(rows, r.event) = r.body
    BY BodyOfRow DEF IInv, Unique
  <2>4. Records[d.event] = [b \in Bodies |-> b][d.body]
    BY <2>1, <2>2, <2>3 DEF Records, BodyIn
  <2>5. acked' = acked \cup {d}
    BY <1>3 DEF Reply
  <2>6. Promise!Acknowledge(d)
    BY <1>1, <2>4, <2>5 DEF Promise!Acknowledge
  <2> QED
    BY <2>1, <2>6 DEF Promise!Next
<1> QED
  BY <1>2, <1>3

\* Every step is a step of the promise or invisible.
LEMMA NextPromise == IInv /\ [Next]_vars => [Promise!Next]_(Promise!vars)
<1> SUFFICES ASSUME IInv, [Next]_vars PROVE Promise!Next \/ UNCHANGED <<Records, acked>>
  BY DEF Promise!vars
<1>1. ASSUME UNCHANGED <<rows, acked>> PROVE UNCHANGED <<Records, acked>>
  BY <1>1 DEF Records
<1>2. ASSUME NEW w \in Workers, NEW d \in Deliveries, Receive(w, d)
      PROVE  UNCHANGED <<rows, acked>>
  BY <1>2 DEF Receive
<1>3. ASSUME NEW w \in Workers, Insert(w) \/ Compare(w) \/ Busy(w) \/ Error(w)
      PROVE  UNCHANGED <<rows, acked>>
  BY <1>3 DEF Insert, Compare, Busy, Error
<1>4. ASSUME NEW S \in SUBSET Workers, Die(S) PROVE UNCHANGED <<rows, acked>>
  BY <1>4 DEF Die
<1>5. CASE UNCHANGED vars
  BY <1>1, <1>5 DEF vars
<1> QED
  BY <1>1, <1>2, <1>3, <1>4, <1>5, CommitPromise, ReplyPromise DEF Next, Step

\* Several processes on one database are one durable inbox: the event is recorded
\* before the 204, once, and for good.
THEOREM InboxKeepsThePromise == Spec => KeepsThePromise
BY InitPromise, NextPromise, InductiveInvariant, PTL DEF Spec, KeepsThePromise, Promise!Spec
=============================================================================
