--------------------------- MODULE LifecycleProofs ---------------------------
(***************************************************************************)
(* Theorems about the end-to-end programs for any number of runs, catalog  *)
(* versions, foreign ledger entries and any page size.                     *)
(*                                                                         *)
(* Every request of every run is one that the ledger can still explain     *)
(* (Requests): its key is that of its command, and its body is a catalog   *)
(* version there has been, the place of the activation, or a run there has *)
(* been.  The ledger holds one entry of a key (OneEntry), so whatever two  *)
(* runs read of a command is the same entry (Reading), and a conflict can  *)
(* only come from a body that differs between runs (Cause).                *)
(***************************************************************************)
EXTENDS Lifecycle, SequenceTheorems, TLAPS

KeysOfCommands == {<<c>> : c \in Commands}

RequestsOfCommands == [key : KeysOfCommands, command : Commands, body : Nat]

Entries == RequestsOfCommands \cup {Foreign}

Shapes ==
    /\ program \in {"python", "go"}
    /\ funding \in {"unset", "half", "both"}
    /\ atEnd \in {"null", "end"}
    /\ catalog \in Nat \ {0} /\ units \in Nat /\ run \in Nat
    /\ ledger \in Seq(Entries)
    /\ wire \subseteq RequestsOfCommands
    /\ local \in [pc : Steps \cup {"off"}, version : Nat, period : Nat, decision : Nat,
                  after : Nat, exported : Seq(Nat), start : Nat]
    /\ call \in [request : Entries, verdict : Verdicts, sequence : Nat]
    /\ last \in [how : Ends, at : Steps \cup {"off"}]

\* The place of the activation in the ledger.
IsActivation(i) == i \in DOMAIN ledger /\ ledger[i].command = "activate"

\* A request that some run could have made up to now.
Sound(r) ==
    /\ r.key = <<r.command>>
    /\ r.command = "activate" => r.body \in 1..catalog
    /\ r.command = "fund" => r.body = 0
    /\ r.command = "consume" =>
        IF program = "python" THEN IsActivation(r.body) ELSE r.body \in 1..run

Requests ==
    /\ \A r \in wire : Sound(r)
    /\ \A i \in DOMAIN ledger : ledger[i].command # "other" => Sound(ledger[i])

OneEntry == \A i \in DOMAIN ledger, j \in DOMAIN ledger :
    ledger[i].command # "other" /\ ledger[i].command = ledger[j].command => i = j

\* What makes a run meet its own key with another body.
Cause(pc) ==
    \/ pc = "activate" /\ catalog > 1
    \/ pc = "consume" /\ program = "go" /\ run > 1

\* What the run has read, and what it waits for.
Reading ==
    /\ local.pc # "off" => run > 0
    /\ local.pc \notin {"off", "catalog"} => local.version \in 1..catalog
    /\ local.pc \notin {"off", "catalog", "activate"} => IsActivation(local.period)
    /\ local.pc = "replay" =>
        /\ local.decision \in DOMAIN ledger
        /\ ledger[local.decision].command = "consume"
        /\ ledger[local.decision].body = OccurredAt
    /\ call.verdict = "none" => call = NoCall
    /\ call.verdict # "none" =>
        local.pc \in {"activate", "fund", "consume", "replay"} /\ call.request = RequestAt(local.pc)
    /\ call.verdict = "ok" =>
        /\ call.sequence \in DOMAIN ledger
        /\ ledger[call.sequence].command = call.request.command
        /\ ledger[call.sequence].body = call.request.body
    /\ call.verdict = "reused" => Cause(local.pc)

Past ==
    /\ last.how # "none" => local.pc = "off"
    /\ last.how = "reused" => Cause(last.at)
    /\ last.how # "differs"
    /\ \A t \in told : /\ t \in [key : KeysOfCommands, sequence : Nat]
                       /\ t.sequence \in DOMAIN ledger
                       /\ ledger[t.sequence].key = t.key

\* The export is a beginning of the ledger, and the cursor is where it ends.
Exporting ==
    /\ local.exported = [i \in 1..Len(local.exported) |-> i]
    /\ local.after <= Len(local.exported)
    /\ local.pc \notin {"off", "export"} => local.exported = <<>> /\ local.after = 0
    /\ local.pc = "export" =>
        /\ local.after = Len(local.exported)
        /\ Len(local.exported) <= Len(ledger)
        /\ local.start <= Len(ledger)
    /\ last.how = "done" => Len(local.exported) >= local.start

IInv == Shapes /\ Requests /\ OneEntry /\ Reading /\ Past /\ Exporting

-----------------------------------------------------------------------------
USE PageSizeAssumption, GrantAssumption, NoneAssumption
USE DEF Commands, Verdicts, Steps, Ends, KeysOfCommands, RequestsOfCommands, Entries

\* Commands have keys of their own.
LEMMA KeyFacts ==
    /\ \A c \in Commands, d \in Commands : <<c>> = <<d>> => c = d
    /\ \A c \in Commands : <<c>> # <<>>
OBVIOUS

LEMMA InitInv == Init => IInv
<1> SUFFICES ASSUME Init PROVE IInv
  OBVIOUS
<1> USE DEF Init, NotRunning, NewRun, NoCall, Foreign
<1>1. Shapes
  <2>1. <<>> \in Seq(Nat) /\ <<>> \in Seq(Entries)
    OBVIOUS
  <2>2. local = [pc |-> "off", version |-> 0, period |-> 0, decision |-> 0,
                 after |-> 0, exported |-> <<>>, start |-> 0]
    OBVIOUS
  <2>3. call \in [request : Entries, verdict : Verdicts, sequence : Nat]
    OBVIOUS
  <2>4. local \in [pc : Steps \cup {"off"}, version : Nat, period : Nat, decision : Nat,
                   after : Nat, exported : Seq(Nat), start : Nat]
    <3>1. [pc |-> "off", version |-> 0, period |-> 0, decision |-> 0,
           after |-> 0, exported |-> <<>>, start |-> 0]
              \in [pc : Steps \cup {"off"}, version : Nat, period : Nat, decision : Nat,
                   after : Nat, exported : Seq(Nat), start : Nat]
      BY <2>1
    <3> HIDE DEF Init
    <3> QED
      BY <2>2, <3>1
  <2>5. last \in [how : Ends, at : Steps \cup {"off"}]
    OBVIOUS
  <2>6. /\ program \in {"python", "go"}
        /\ funding \in {"unset", "half", "both"}
        /\ atEnd \in {"null", "end"}
        /\ catalog \in Nat \ {0} /\ units \in Nat /\ run \in Nat
        /\ ledger \in Seq(Entries)
        /\ wire \subseteq RequestsOfCommands
    BY <2>1
  <2> QED
    BY <2>3, <2>4, <2>5, <2>6 DEF Shapes
<1>2. Requests /\ OneEntry /\ Reading /\ Past /\ Exporting
  BY DEF Requests, OneEntry, Reading, Past, Exporting
<1> QED
  BY <1>1, <1>2 DEF IInv

-----------------------------------------------------------------------------
\* The world as the invariant sees it only grows.
Grows ==
    /\ program' = program
    /\ catalog <= catalog' /\ catalog' \in Nat
    /\ run <= run' /\ run' \in Nat
    /\ ledger' \in Seq(Entries)
    /\ Len(ledger) <= Len(ledger')
    /\ \A i \in DOMAIN ledger : i \in DOMAIN ledger' /\ ledger'[i] = ledger[i]

LEMMA StaysSound ==
    ASSUME Shapes, Grows, NEW r \in Entries, Sound(r)
    PROVE  Sound(r)'
BY DEF Shapes, Grows, Sound, IsActivation

\* The request that a step of the run sends is sound.
LEMMA RequestFacts ==
    ASSUME IInv, local.pc \in {"activate", "fund", "consume", "replay"}
    PROVE  /\ RequestAt(local.pc) \in RequestsOfCommands
           /\ RequestAt(local.pc).command =
                IF local.pc \in {"activate", "fund"} THEN local.pc ELSE "consume"
           /\ local.pc \in {"consume", "replay"} => RequestAt(local.pc).body = OccurredAt
           /\ RequestAt(local.pc).key = <<RequestAt(local.pc).command>>
           /\ Sound(RequestAt(local.pc))
BY DEF IInv, Shapes, Reading, RequestAt, Request, KeyOf, OccurredAt, Sound, IsActivation

-----------------------------------------------------------------------------
(* The Worker, and what else happens to the business.                      *)

\* A step that leaves the run where it is, but may answer what it waits for.
LEMMA WorldInv ==
    ASSUME IInv, Shapes', Grows, OneEntry', wire' \subseteq wire,
           UNCHANGED <<run, local, last, told>>,
           \A i \in DOMAIN ledger' :
                i \in DOMAIN ledger \/ ledger'[i].command = "other" \/ ledger'[i] \in wire,
           \/ call' = call
           \/ /\ call.verdict = "waiting"
              /\ call'.request = call.request
              /\ call'.verdict \in {"ok", "reused", "refused"}
              /\ call'.verdict = "ok" =>
                    /\ call'.sequence \in DOMAIN ledger'
                    /\ ledger'[call'.sequence].command = call.request.command
                    /\ ledger'[call'.sequence].body = call.request.body
              /\ call'.verdict = "reused" => Cause(local.pc)
    PROVE  IInv'
<1>1. Requests'
  <2>1. \A r \in wire : r \in Entries /\ Sound(r)
    BY DEF IInv, Shapes, Requests
  <2>2. \A i \in DOMAIN ledger : ledger[i] \in Entries
    BY DEF IInv, Shapes
  <2>3. ASSUME NEW r \in Entries, Sound(r) PROVE Sound(r)'
    BY <2>3, StaysSound DEF IInv
  <2>4. ASSUME NEW i \in DOMAIN ledger', ledger'[i].command # "other" PROVE Sound(ledger[i])'
    <3>1. PICK e \in Entries : e = ledger'[i]
      BY DEF Grows
    <3>2. Sound(e)
      BY <2>1, <2>4, <3>1 DEF Grows, IInv, Requests
    <3>3. Sound(e)'
      BY <2>3, <3>2
    <3> QED
      BY <3>1, <3>3 DEF Sound
  <2> QED
    BY <2>1, <2>3, <2>4 DEF Requests
<1>2. \A pc : Cause(pc) => Cause(pc)'
  BY DEF Cause, Grows, IInv, Shapes
<1>3. RequestAt(local.pc)' = RequestAt(local.pc) /\ OccurredAt' = OccurredAt
  BY DEF RequestAt, Request, KeyOf, OccurredAt, Grows
<1>4. Reading'
  <2>1. local.pc \notin {"off", "catalog"} => local.version \in 1..catalog'
    BY DEF IInv, Reading, Grows, Shapes
  <2>2. /\ local.pc \notin {"off", "catalog", "activate"} => IsActivation(local.period)'
        /\ local.pc = "replay" =>
            /\ local.decision \in DOMAIN ledger'
            /\ ledger'[local.decision].command = "consume"
            /\ ledger'[local.decision].body = OccurredAt
    BY DEF IInv, Reading, Grows, IsActivation
  <2>3. CASE call' = call
    BY <1>2, <1>3, <2>1, <2>2, <2>3 DEF IInv, Reading, Grows, Cause
  <2>4. CASE call' # call
    BY <1>2, <1>3, <2>1, <2>2, <2>4 DEF IInv, Reading, Cause
  <2> QED
    BY <2>3, <2>4
<1>5. Past'
  BY <1>2 DEF IInv, Past, Cause, Grows
<1>6. Exporting'
  BY DEF IInv, Exporting, Grows, Shapes
<1> QED
  BY <1>1, <1>4, <1>5, <1>6 DEF IInv

\* What the ledger gains by one more entry at its end.
LEMMA AppendFacts ==
    ASSUME Shapes, NEW e \in Entries, ledger' = Append(ledger, e)
    PROVE  /\ ledger' \in Seq(Entries)
           /\ Len(ledger') = Len(ledger) + 1
           /\ DOMAIN ledger' = 1..(Len(ledger) + 1)
           /\ DOMAIN ledger = 1..Len(ledger)
           /\ \A i \in DOMAIN ledger : ledger'[i] = ledger[i]
           /\ ledger'[Len(ledger) + 1] = e
BY DEF Shapes

\* The answer to r, with what has to be known of it.
LEMMA ReplyInv ==
    ASSUME IInv, NEW r \in wire, NEW v \in {"ok", "reused", "refused"}, NEW q \in Nat,
           Reply(r, v, q), units' \in Nat, Grows, OneEntry',
           \A i \in DOMAIN ledger' : i \in DOMAIN ledger \/ ledger'[i] = r,
           v = "ok" => /\ q \in DOMAIN ledger'
                       /\ ledger'[q].command = r.command
                       /\ ledger'[q].body = r.body,
           v = "reused" /\ call.request = r /\ call.verdict = "waiting" => Cause(local.pc)
    PROVE  IInv'
<1>1. /\ wire' \subseteq wire
      /\ UNCHANGED <<program, funding, atEnd, catalog, run, local, last, told>>
  BY DEF Reply
<1>2. \/ call' = call
      \/ /\ call.request = r /\ call.verdict = "waiting"
         /\ call' = [call EXCEPT !.verdict = v, !.sequence = q]
  BY DEF Reply
<1>3. CASE call' = call
  <2>1. Shapes'
    BY <1>1, <1>3 DEF IInv, Shapes, Grows
  <2> QED
    BY <1>1, <1>3, <2>1, WorldInv
<1>4. CASE /\ call.request = r /\ call.verdict = "waiting"
           /\ call' = [call EXCEPT !.verdict = v, !.sequence = q]
  <2>1. call \in [request : Entries, verdict : Verdicts, sequence : Nat]
    BY DEF IInv, Shapes
  <2>2. call' = [request |-> r, verdict |-> v, sequence |-> q]
    BY <1>4, <2>1
  <2>3. call' \in [request : Entries, verdict : Verdicts, sequence : Nat]
    BY <2>2 DEF IInv, Shapes
  <2>4. Shapes'
    BY <1>1, <2>3 DEF IInv, Shapes, Grows
  <2>5. call'.request = r /\ call'.verdict = v /\ call'.sequence = q
    BY <2>2
  <2> QED
    BY <1>1, <1>4, <2>4, <2>5, WorldInv
<1> QED
  BY <1>2, <1>3, <1>4

\* An entry that the key finds is the one entry of the command.
LEMMA FoundFacts ==
    ASSUME IInv, NEW r \in wire, NEW i \in CommittedAt(r.key)
    PROVE  /\ i \in DOMAIN ledger /\ i \in Nat
           /\ ledger[i].command = r.command
           /\ Sound(r) /\ Sound(ledger[i])
<1>1. i \in DOMAIN ledger /\ ledger[i].key = r.key /\ i \in Nat
  BY DEF CommittedAt, IInv, Shapes
<1>2. r \in RequestsOfCommands /\ Sound(r) /\ ledger[i] \in Entries
  BY <1>1 DEF IInv, Shapes, Requests
<1>3. ledger[i] \in RequestsOfCommands
  <2>1. PICK c \in Commands : r.key = <<c>>
    BY <1>2
  <2>2. Foreign.key = <<>> /\ <<c>> # <<>>
    BY KeyFacts DEF Foreign
  <2> QED
    BY <1>1, <1>2, <2>1, <2>2
<1>4. Sound(ledger[i])
  BY <1>1, <1>3 DEF IInv, Requests
<1>5. ledger[i].command \in Commands
  BY <1>3
<1>6. <<ledger[i].command>> = <<r.command>>
  BY <1>1, <1>2, <1>4 DEF Sound
<1> QED
  BY <1>1, <1>2, <1>4, <1>5, <1>6, KeyFacts

LEMMA CommitInv ==
    ASSUME IInv, NEW r \in wire, Commit(r)
    PROVE  IInv'
<1>1. /\ CommittedAt(r.key) = {} /\ Acceptable(r)
      /\ ledger' = Append(ledger, r)
      /\ units' = UnitsAfter(r)
      /\ Reply(r, "ok", Len(ledger) + 1)
  BY DEF Commit
<1>2. r \in RequestsOfCommands /\ r \in Entries /\ Sound(r)
  BY DEF IInv, Shapes, Requests
<1>3. /\ ledger' \in Seq(Entries)
      /\ Len(ledger') = Len(ledger) + 1
      /\ DOMAIN ledger' = 1..(Len(ledger) + 1)
      /\ DOMAIN ledger = 1..Len(ledger)
      /\ \A i \in DOMAIN ledger : ledger'[i] = ledger[i]
      /\ ledger'[Len(ledger) + 1] = r
  BY <1>1, <1>2, AppendFacts DEF IInv
<1>4. Len(ledger) \in Nat
  BY DEF IInv, Shapes
<1>5. units' \in Nat
  <2>1. units \in Nat /\ r.command \in Commands
    BY <1>2 DEF IInv, Shapes
  <2>2. CASE r.command = "activate"
    BY <1>1, <2>1, <2>2 DEF UnitsAfter
  <2>3. CASE r.command = "consume"
    BY <1>1, <2>1, <2>3 DEF UnitsAfter, Acceptable
  <2>4. CASE r.command = "fund"
    BY <1>1, <2>1, <2>4 DEF UnitsAfter
  <2> QED
    BY <2>1, <2>2, <2>3, <2>4
<1>6. Grows
  BY <1>1, <1>3, <1>4 DEF Grows, Reply, IInv, Shapes
<1>7. \A i \in DOMAIN ledger : ledger[i].command # r.command
  <2> SUFFICES ASSUME NEW i \in DOMAIN ledger, ledger[i].command = r.command PROVE FALSE
    OBVIOUS
  <2>1. ledger[i].command # "other"
    BY <1>2
  <2>2. Sound(ledger[i])
    BY <2>1 DEF IInv, Requests
  <2>3. ledger[i].key = r.key
    BY <1>2, <2>2 DEF Sound
  <2> QED
    BY <1>1, <2>3 DEF CommittedAt
<1>8. OneEntry'
  <2> SUFFICES ASSUME NEW i \in DOMAIN ledger', NEW j \in DOMAIN ledger',
                      ledger'[i].command # "other", ledger'[i].command = ledger'[j].command
               PROVE  i = j
    BY DEF OneEntry
  <2>1. i \in DOMAIN ledger \/ i = Len(ledger) + 1
    BY <1>3, <1>4
  <2>2. j \in DOMAIN ledger \/ j = Len(ledger) + 1
    BY <1>3, <1>4
  <2> QED
    BY <1>3, <1>7, <2>1, <2>2 DEF IInv, OneEntry
<1>9. \A i \in DOMAIN ledger' : i \in DOMAIN ledger \/ ledger'[i] = r
  BY <1>3, <1>4
<1>10. Len(ledger) + 1 \in Nat /\ Len(ledger) + 1 \in DOMAIN ledger'
  BY <1>3, <1>4
<1> QED
  BY <1>1, <1>3, <1>5, <1>6, <1>8, <1>9, <1>10, ReplyInv

LEMMA ReplayInv ==
    ASSUME IInv, NEW r \in wire, Replay(r)
    PROVE  IInv'
<1>1. PICK i \in CommittedAt(r.key) : ledger[i].body = r.body /\ Reply(r, "ok", i)
  BY DEF Replay
<1>2. i \in DOMAIN ledger /\ i \in Nat /\ ledger[i].command = r.command
  BY FoundFacts
<1>3. ledger' = ledger /\ units' \in Nat
  BY DEF Replay, IInv, Shapes
<1>4. Grows /\ OneEntry'
  BY <1>1, <1>3 DEF Grows, Reply, OneEntry, IInv, Shapes
<1> QED
  BY <1>1, <1>2, <1>3, <1>4, ReplyInv

\* Two requests under one key have different bodies for a cause only.
LEMMA ConflictInv ==
    ASSUME IInv, NEW r \in wire, Conflict(r)
    PROVE  IInv'
<1>1. PICK i \in CommittedAt(r.key) : ledger[i].body # r.body
  BY DEF Conflict
<1>2. /\ i \in DOMAIN ledger /\ ledger[i].command = r.command
      /\ Sound(r) /\ Sound(ledger[i])
  BY FoundFacts
<1>3. Reply(r, "reused", 0) /\ ledger' = ledger /\ units' \in Nat
  BY DEF Conflict, IInv, Shapes
<1>4. Grows /\ OneEntry'
  BY <1>3 DEF Grows, Reply, OneEntry, IInv, Shapes
<1>5. ASSUME call.request = r, call.verdict = "waiting" PROVE Cause(local.pc)
  <2>1. local.pc \in {"activate", "fund", "consume", "replay"} /\ r = RequestAt(local.pc)
    BY <1>5 DEF IInv, Reading
  <2>2. r.command = IF local.pc \in {"activate", "fund"} THEN local.pc ELSE "consume"
    BY <2>1, RequestFacts
  <2>3. CASE local.pc = "activate"
    BY <1>1, <1>2, <2>2, <2>3 DEF Sound, Cause, IInv, Shapes
  <2>4. CASE local.pc = "fund"
    BY <1>1, <1>2, <2>2, <2>4 DEF Sound
  <2>5. CASE local.pc = "consume"
    <3>1. CASE program = "python"
      <4>1. IsActivation(r.body) /\ IsActivation(ledger[i].body)
        BY <1>2, <2>2, <2>5, <3>1 DEF Sound
      <4> QED
        BY <1>1, <4>1 DEF IsActivation, IInv, OneEntry
    <3>2. CASE program # "python"
      <4>1. r.body \in 1..run /\ ledger[i].body \in 1..run
        BY <1>2, <2>2, <2>5, <3>2 DEF Sound
      <4>2. program = "go" /\ run \in Nat
        BY <3>2 DEF IInv, Shapes
      <4> QED
        BY <1>1, <2>5, <4>1, <4>2 DEF Cause
    <3> QED
      BY <3>1, <3>2
  <2>6. CASE local.pc = "replay"
    <3>1. /\ local.decision \in DOMAIN ledger
          /\ ledger[local.decision].command = "consume"
          /\ ledger[local.decision].body = OccurredAt
      BY <2>6 DEF IInv, Reading
    <3>2. i = local.decision
      BY <1>2, <2>2, <2>6, <3>1 DEF IInv, OneEntry
    <3>3. r.body = OccurredAt
      BY <2>1, <2>6, RequestFacts
    <3> QED
      BY <1>1, <3>1, <3>2, <3>3
  <2> QED
    BY <2>1, <2>3, <2>4, <2>5, <2>6
<1> QED
  BY <1>3, <1>4, <1>5, ReplyInv

LEMMA TurnDownInv ==
    ASSUME IInv, NEW r \in wire, TurnDown(r)
    PROVE  IInv'
<1>1. Reply(r, "refused", 0) /\ ledger' = ledger /\ units' \in Nat
  BY DEF TurnDown, IInv, Shapes
<1>2. Grows /\ OneEntry'
  BY <1>1 DEF Grows, Reply, OneEntry, IInv, Shapes
<1> QED
  BY <1>1, <1>2, ReplyInv

LEMMA OtherInv ==
    ASSUME IInv, Other
    PROVE  IInv'
<1>1. /\ ledger' = Append(ledger, Foreign)
      /\ units' \in Nat
      /\ UNCHANGED <<program, funding, atEnd, catalog, wire, run, local, call, last, told>>
  BY DEF Other
<1>2. Foreign \in Entries /\ Foreign.command = "other"
  BY DEF Foreign
<1>3. /\ ledger' \in Seq(Entries)
      /\ Len(ledger') = Len(ledger) + 1
      /\ DOMAIN ledger' = 1..(Len(ledger) + 1)
      /\ DOMAIN ledger = 1..Len(ledger)
      /\ \A i \in DOMAIN ledger : ledger'[i] = ledger[i]
      /\ ledger'[Len(ledger) + 1] = Foreign
  BY <1>1, <1>2, AppendFacts DEF IInv
<1>4. Len(ledger) \in Nat
  BY DEF IInv, Shapes
<1>5. \A i \in DOMAIN ledger' : i \in DOMAIN ledger \/ ledger'[i].command = "other"
  BY <1>2, <1>3, <1>4
<1>6. Shapes'
  BY <1>1, <1>3 DEF IInv, Shapes
<1>7. Grows
  BY <1>1, <1>3, <1>4 DEF Grows, IInv, Shapes
<1>8. OneEntry'
  BY <1>3, <1>5 DEF IInv, OneEntry
<1> QED
  BY <1>1, <1>5, <1>6, <1>7, <1>8, WorldInv

LEMMA PublishInv ==
    ASSUME IInv, Publish
    PROVE  IInv'
<1>1. /\ catalog' = catalog + 1
      /\ UNCHANGED <<program, funding, atEnd, ledger, units, wire, run, local, call, last, told>>
  BY DEF Publish
<1>2. Shapes' /\ Grows /\ OneEntry'
  BY <1>1 DEF IInv, Shapes, Grows, OneEntry
<1> QED
  BY <1>1, <1>2, WorldInv

-----------------------------------------------------------------------------
(* A run.                                                                  *)

Locals == [pc : Steps \cup {"off"}, version : Nat, period : Nat, decision : Nat,
           after : Nat, exported : Seq(Nat), start : Nat]

\* A step of the run changes nothing of the business.
LEMMA RunInv ==
    ASSUME IInv, UNCHANGED <<program, funding, atEnd, catalog, ledger, units>>,
           run' \in {run, run + 1},
           \A r \in wire' : r \in wire \/ (r \in RequestsOfCommands /\ Sound(r)),
           local' \in Locals,
           call' \in [request : Entries, verdict : Verdicts, sequence : Nat],
           last' \in [how : Ends, at : Steps \cup {"off"}],
           Reading', Past', Exporting'
    PROVE  IInv'
<1>1. Shapes'
  BY DEF IInv, Shapes, Locals
<1>2. Grows
  BY DEF Grows, IInv, Shapes
<1>3. ASSUME NEW r \in Entries, Sound(r) PROVE Sound(r)'
  BY <1>2, <1>3, StaysSound DEF IInv
<1>4. Requests'
  <2>1. \A r \in wire' : Sound(r)'
    BY <1>3 DEF IInv, Shapes, Requests
  <2>2. ASSUME NEW i \in DOMAIN ledger, ledger[i].command # "other" PROVE Sound(ledger[i])'
    <3>1. PICK e \in Entries : e = ledger[i]
      BY DEF IInv, Shapes
    <3>2. Sound(e)'
      BY <1>3, <2>2, <3>1 DEF IInv, Requests
    <3> QED
      BY <3>1, <3>2 DEF Sound
  <2> QED
    BY <2>1, <2>2 DEF Requests
<1>5. OneEntry'
  BY DEF IInv, OneEntry
<1> QED
  BY <1>1, <1>4, <1>5 DEF IInv

\* Between steps no call is under way.
LEMMA NoCallFacts ==
    /\ NoCall.verdict = "none"
    /\ NoCall \in [request : Entries, verdict : Verdicts, sequence : Nat]
BY DEF NoCall

\* A run that ends, or fails anywhere.
LEMMA HaltInv ==
    ASSUME IInv, NEW how \in Ends \ {"none", "done", "differs"}, local.pc # "off", Halt(how),
           UNCHANGED <<program, funding, atEnd, catalog, ledger, units, run>>,
           UNCHANGED wire,
           how = "reused" => Cause(local.pc),
           \A t \in told' : /\ t \in [key : KeysOfCommands, sequence : Nat]
                            /\ t.sequence \in DOMAIN ledger
                            /\ ledger[t.sequence].key = t.key
    PROVE  IInv'
<1>1. /\ last' = [how |-> how, at |-> local.pc]
      /\ local' = NotRunning
      /\ call' = NoCall
  BY DEF Halt
<1>2. local' = [pc |-> "off", version |-> 0, period |-> 0, decision |-> 0,
                after |-> 0, exported |-> <<>>, start |-> 0]
  BY <1>1 DEF NotRunning, NewRun
<1>3. local' \in Locals
  <2>1. <<>> \in Seq(Nat)
    OBVIOUS
  <2> QED
    BY <1>2, <2>1 DEF Locals
<1>4. local.pc \in Steps \cup {"off"}
  BY DEF IInv, Shapes
<1>5. Reading'
  BY <1>1, <1>2, NoCallFacts DEF Reading
<1>6. Past'
  BY <1>1, <1>2 DEF Past, Cause
<1>7. Exporting'
  BY <1>1, <1>2 DEF Exporting
<1> QED
  BY <1>1, <1>3, <1>4, <1>5, <1>6, <1>7, NoCallFacts, RunInv DEF IInv

LEMMA StartInv ==
    ASSUME IInv, Start
    PROVE  IInv'
<1>1. /\ local.pc = "off"
      /\ run' = run + 1
      /\ local' = NewRun
      /\ last' = [how |-> "none", at |-> "off"]
      /\ UNCHANGED <<program, funding, atEnd, catalog, ledger, units, wire, call, told>>
  BY DEF Start
<1>2. local' = [pc |-> "catalog", version |-> 0, period |-> 0, decision |-> 0,
                after |-> 0, exported |-> <<>>, start |-> 0]
  BY <1>1 DEF NewRun
<1>3. local' \in Locals
  <2>1. <<>> \in Seq(Nat)
    OBVIOUS
  <2> QED
    BY <1>2, <2>1 DEF Locals
<1>4. call = NoCall
  BY <1>1 DEF IInv, Reading
<1>5. Reading'
  BY <1>1, <1>2, <1>4, NoCallFacts DEF Reading, IInv, Shapes
<1>6. Past'
  BY <1>1 DEF IInv, Past
<1>7. Exporting'
  BY <1>1, <1>2 DEF Exporting
<1>8. last' \in [how : Ends, at : Steps \cup {"off"}]
  BY <1>1
<1>9. /\ call' \in [request : Entries, verdict : Verdicts, sequence : Nat]
      /\ \A r \in wire' : r \in wire \/ (r \in RequestsOfCommands /\ Sound(r))
      /\ run' \in {run, run + 1}
      /\ UNCHANGED <<program, funding, atEnd, catalog, ledger, units>>
  BY <1>1, <1>4, NoCallFacts
<1> QED
  BY <1>3, <1>5, <1>6, <1>7, <1>8, <1>9, RunInv

\* A step that only moves the run on, up to what it reads.
LEMMA MoveInv ==
    ASSUME IInv, local.pc \notin {"off", "export"}, call' = NoCall,
           UNCHANGED <<program, funding, atEnd, catalog, ledger, units, wire, run, last>>,
           local' \in Locals, local'.pc # "off",
           local'.after = local.after, local'.exported = local.exported,
           local'.pc = "export" => local'.start <= Len(ledger),
           local'.pc # "catalog" => local'.version \in 1..catalog,
           local'.pc \notin {"catalog", "activate"} => IsActivation(local'.period),
           local'.pc = "replay" =>
                /\ local'.decision \in DOMAIN ledger
                /\ ledger[local'.decision].command = "consume"
                /\ ledger[local'.decision].body = (IF program = "python" THEN local'.period ELSE run),
           \A t \in told' : /\ t \in [key : KeysOfCommands, sequence : Nat]
                            /\ t.sequence \in DOMAIN ledger
                            /\ ledger[t.sequence].key = t.key
    PROVE  IInv'
<1>1. Reading'
  BY NoCallFacts DEF IInv, Reading, IsActivation, OccurredAt
<1>2. last.how = "none" /\ Past'
  BY DEF IInv, Past, Cause
<1>3. Exporting'
  <2>1. local.exported = <<>> /\ local.after = 0
    BY DEF IInv, Exporting
  <2>2. Len(<<>>) = 0 /\ <<>> = [i \in 1..0 |-> i] /\ Len(ledger) \in Nat
    BY DEF IInv, Shapes
  <2> QED
    BY <1>2, <2>1, <2>2 DEF Exporting
<1>4. /\ call' \in [request : Entries, verdict : Verdicts, sequence : Nat]
      /\ \A r \in wire' : r \in wire \/ (r \in RequestsOfCommands /\ Sound(r))
      /\ run' \in {run, run + 1}
  BY NoCallFacts
<1>5. last' \in [how : Ends, at : Steps \cup {"off"}]
  BY DEF IInv, Shapes
<1> QED
  BY <1>1, <1>2, <1>3, <1>4, <1>5, RunInv

LEMMA GetCatalogInv ==
    ASSUME IInv, GetCatalog
    PROVE  IInv'
<1>1. /\ local.pc = "catalog" /\ call = NoCall /\ call' = NoCall /\ told' = told
      /\ local' = [local EXCEPT !.version = catalog, !.pc = "activate"]
      /\ UNCHANGED <<program, funding, atEnd, catalog, ledger, units, wire, run, last>>
  BY DEF GetCatalog, At
<1>2. local \in Locals /\ catalog \in Nat \ {0}
  BY DEF IInv, Shapes, Locals
<1>3. /\ local' \in Locals /\ local'.pc = "activate" /\ local'.version = catalog
      /\ local'.after = local.after /\ local'.exported = local.exported
  BY <1>1, <1>2 DEF Locals
<1>4. /\ local.pc \notin {"off", "export"}
      /\ local'.pc \notin {"off", "catalog", "replay", "export"}
      /\ local'.version \in 1..catalog
  BY <1>1, <1>2, <1>3
<1>5. local'.pc = "activate"
  BY <1>3
<1>6. \A t \in told' : /\ t \in [key : KeysOfCommands, sequence : Nat]
                       /\ t.sequence \in DOMAIN ledger
                       /\ ledger[t.sequence].key = t.key
  BY <1>1 DEF IInv, Past
<1> QED
  BY <1>1, <1>3, <1>4, <1>5, <1>6, MoveInv

LEMMA SendInv ==
    ASSUME IInv, Send
    PROVE  IInv'
<1>1. /\ local.pc \in {"activate", "fund", "consume", "replay"}
      /\ wire' = wire \cup {RequestAt(local.pc)}
      /\ call' = [request |-> RequestAt(local.pc), verdict |-> "waiting", sequence |-> 0]
      /\ UNCHANGED <<program, funding, atEnd, catalog, ledger, units, run, local, last, told>>
  BY DEF Send
<1>2. RequestAt(local.pc) \in RequestsOfCommands /\ Sound(RequestAt(local.pc))
  BY <1>1, RequestFacts
<1>3. \A r \in wire' : r \in wire \/ (r \in RequestsOfCommands /\ Sound(r))
  <2> DEFINE new == RequestAt(local.pc)
  <2>1. new \in RequestsOfCommands /\ Sound(new) /\ wire' = wire \cup {new}
    BY <1>1, <1>2
  <2> HIDE DEF new
  <2> QED
    BY <2>1
<1>4. call' \in [request : Entries, verdict : Verdicts, sequence : Nat]
  BY <1>1, <1>2
<1>5. call'.verdict = "waiting" /\ call'.request = RequestAt(local.pc)
  BY <1>1
<1>7. Reading'
  <2>1. (call.request = RequestAt(local.pc))'
    BY <1>1, <1>5 DEF RequestAt, Request, KeyOf, OccurredAt
  <2> QED
    BY <1>1, <1>5, <2>1 DEF IInv, Reading, IsActivation, OccurredAt
<1>8. Past' /\ Exporting'
  BY <1>1 DEF IInv, Past, Exporting, Cause
<1> QED
  BY <1>1, <1>3, <1>4, <1>7, <1>8, RunInv DEF IInv, Shapes, Locals

\* A step that halts, or goes on without having read anything.
LEMMA GotoInv ==
    ASSUME IInv, At(local.pc), NEW pc \in {"eligibility", "consume"},
           local.pc \in {"fund", "eligibility"}, Goto(pc), UNCHANGED <<call, last, told>>,
           UNCHANGED <<program, funding, atEnd, catalog, ledger, units, wire, run>>
    PROVE  IInv'
<1>1. local \in Locals
  BY DEF IInv, Shapes, Locals
<1>2. /\ local' \in Locals /\ local'.pc = pc
      /\ local'.version = local.version /\ local'.period = local.period
      /\ local'.after = local.after /\ local'.exported = local.exported
  BY <1>1 DEF Goto, Locals
<1>3. local.version \in 1..catalog /\ IsActivation(local.period)
  BY DEF IInv, Reading
<1>4. call = NoCall /\ call' = NoCall
  BY DEF At
<1> QED
  BY <1>2, <1>3, <1>4, MoveInv DEF IInv, Past

LEMMA SkipFundingInv ==
    ASSUME IInv, SkipFunding
    PROVE  IInv'
<1>1. /\ At(local.pc) /\ local.pc = "fund"
      /\ UNCHANGED <<program, funding, atEnd, catalog, ledger, units, wire, run, told>>
  BY DEF SkipFunding, At
<1>2. CASE Goto("eligibility") /\ UNCHANGED <<call, last>>
  BY <1>1, <1>2, GotoInv
<1>3. CASE Halt("misconfigured")
  BY <1>1, <1>3, HaltInv DEF IInv, Past
<1> QED
  BY <1>2, <1>3 DEF SkipFunding

LEMMA CheckEligibilityInv ==
    ASSUME IInv, CheckEligibility
    PROVE  IInv'
<1>1. /\ At(local.pc) /\ local.pc = "eligibility"
      /\ UNCHANGED <<program, funding, atEnd, catalog, ledger, units, wire, run, told>>
  BY DEF CheckEligibility, At
<1>2. CASE Goto("consume") /\ UNCHANGED <<call, last>>
  BY <1>1, <1>2, GotoInv
<1>3. CASE Halt("ineligible")
  BY <1>1, <1>3, HaltInv DEF IInv, Past
<1> QED
  BY <1>2, <1>3 DEF CheckEligibility

\* A successful answer names the one entry of its command.
LEMMA AnswerFacts ==
    ASSUME IInv, call.verdict = "ok"
    PROVE  /\ local.pc \in {"activate", "fund", "consume", "replay"}
           /\ call.sequence \in DOMAIN ledger /\ call.sequence \in Nat
           /\ ledger[call.sequence].command =
                IF local.pc \in {"activate", "fund"} THEN local.pc ELSE "consume"
           /\ local.pc \in {"consume", "replay"} => ledger[call.sequence].body = OccurredAt
           /\ call.request.key \in KeysOfCommands
           /\ ledger[call.sequence].key = call.request.key
<1>1. /\ local.pc \in {"activate", "fund", "consume", "replay"}
      /\ call.request = RequestAt(local.pc)
      /\ call.sequence \in DOMAIN ledger
      /\ ledger[call.sequence].command = call.request.command
      /\ ledger[call.sequence].body = call.request.body
  BY DEF IInv, Reading
<1>2. /\ RequestAt(local.pc) \in RequestsOfCommands
      /\ RequestAt(local.pc).command =
            IF local.pc \in {"activate", "fund"} THEN local.pc ELSE "consume"
      /\ local.pc \in {"consume", "replay"} => RequestAt(local.pc).body = OccurredAt
      /\ RequestAt(local.pc).key = <<RequestAt(local.pc).command>>
  BY <1>1, RequestFacts
<1>3. Sound(ledger[call.sequence])
  BY <1>1, <1>2 DEF IInv, Requests
<1>4. ledger[call.sequence].key = call.request.key
  BY <1>1, <1>2, <1>3 DEF Sound
<1> QED
  BY <1>1, <1>2, <1>4 DEF IInv, Shapes

LEMMA ReceiveInv ==
    ASSUME IInv, Receive
    PROVE  IInv'
<1> DEFINE q == call.sequence
<1>1. /\ call.verdict = "ok"
      /\ told' = told \cup {[key |-> call.request.key, sequence |-> q]}
      /\ UNCHANGED <<program, funding, atEnd, catalog, ledger, units, wire, run>>
  BY DEF Receive
<1>2. /\ local.pc \in {"activate", "fund", "consume", "replay"}
      /\ q \in DOMAIN ledger /\ q \in Nat
      /\ ledger[q].command = IF local.pc \in {"activate", "fund"} THEN local.pc ELSE "consume"
      /\ local.pc \in {"consume", "replay"} => ledger[q].body = OccurredAt
      /\ call.request.key \in KeysOfCommands
      /\ ledger[q].key = call.request.key
  BY <1>1, AnswerFacts
<1>3. \A t \in told' : /\ t \in [key : KeysOfCommands, sequence : Nat]
                       /\ t.sequence \in DOMAIN ledger
                       /\ ledger[t.sequence].key = t.key
  <2>1. \A t \in told : /\ t \in [key : KeysOfCommands, sequence : Nat]
                        /\ t.sequence \in DOMAIN ledger
                        /\ ledger[t.sequence].key = t.key
    BY DEF IInv, Past
  <2>2. [key |-> call.request.key, sequence |-> q] \in [key : KeysOfCommands, sequence : Nat]
    BY <1>2
  <2> QED
    BY <1>1, <1>2, <2>1, <2>2
<1>4. ~(local.pc = "replay" /\ q # local.decision)
  BY <1>2 DEF IInv, Reading, OneEntry
<1>5. Continue /\ call' = NoCall /\ last' = last
  BY <1>4 DEF Receive
<1>6. local \in Locals /\ Len(ledger) \in Nat
  BY DEF IInv, Shapes, Locals
<1>7. local.version \in 1..catalog
  BY <1>2 DEF IInv, Reading
<1>8. CASE local.pc = "activate"
  <2>1. local' = [local EXCEPT !.period = q, !.pc = "fund"]
    BY <1>5, <1>8 DEF Continue
  <2>2. /\ local' \in Locals /\ local'.pc = "fund" /\ local'.period = q
        /\ local'.version = local.version
        /\ local'.after = local.after /\ local'.exported = local.exported
    BY <1>2, <1>6, <2>1 DEF Locals
  <2>3. IsActivation(q)
    BY <1>2, <1>8 DEF IsActivation
  <2> QED
    BY <1>1, <1>3, <1>5, <1>7, <1>8, <2>2, <2>3, MoveInv
<1>9. CASE local.pc # "activate"
  <2>0. IsActivation(local.period)
    BY <1>2, <1>9 DEF IInv, Reading
  <2>1. CASE local.pc = "fund"
    <3>1. local' = [local EXCEPT !.pc = "eligibility"]
      BY <1>5, <2>1 DEF Continue, Goto
    <3>2. /\ local' \in Locals /\ local'.pc = "eligibility" /\ local'.period = local.period
          /\ local'.version = local.version
          /\ local'.after = local.after /\ local'.exported = local.exported
      BY <1>6, <3>1 DEF Locals
    <3> QED
      BY <1>1, <1>3, <1>5, <1>7, <2>0, <2>1, <3>2, MoveInv
  <2>2. CASE local.pc = "consume"
    <3>1. local' = [local EXCEPT !.decision = q, !.pc = "replay"]
      BY <1>5, <2>2 DEF Continue
    <3>2. /\ local' \in Locals /\ local'.pc = "replay" /\ local'.period = local.period
          /\ local'.decision = q /\ local'.version = local.version
          /\ local'.after = local.after /\ local'.exported = local.exported
      BY <1>2, <1>6, <3>1 DEF Locals
    <3>3. /\ ledger[q].command = "consume"
          /\ ledger[q].body = (IF program = "python" THEN local'.period ELSE run)
      BY <1>2, <2>2, <3>2 DEF OccurredAt
    <3> QED
      BY <1>1, <1>2, <1>3, <1>5, <1>7, <2>0, <2>2, <3>2, <3>3, MoveInv
  <2>3. CASE local.pc = "replay"
    <3>1. local' = [local EXCEPT !.pc = "export", !.start = Len(ledger)]
      BY <1>5, <2>3 DEF Continue
    <3>2. /\ local' \in Locals /\ local'.pc = "export" /\ local'.period = local.period
          /\ local'.version = local.version /\ local'.start = Len(ledger)
          /\ local'.after = local.after /\ local'.exported = local.exported
      BY <1>6, <3>1 DEF Locals
    <3> QED
      BY <1>1, <1>3, <1>5, <1>6, <1>7, <2>0, <2>3, <3>2, MoveInv
  <2> QED
    BY <1>2, <1>9, <2>1, <2>2, <2>3
<1> QED
  BY <1>8, <1>9

LEMMA RejectedInv ==
    ASSUME IInv, Rejected
    PROVE  IInv'
<1>1. /\ call.verdict \in {"reused", "refused"}
      /\ Halt(call.verdict)
      /\ UNCHANGED <<program, funding, atEnd, catalog, ledger, units, wire, run, told>>
  BY DEF Rejected
<1>2. local.pc # "off" /\ (call.verdict = "reused" => Cause(local.pc))
  BY <1>1 DEF IInv, Reading
<1> QED
  BY <1>1, <1>2, HaltInv DEF IInv, Past

LEMMA FailInv ==
    ASSUME IInv, Fail
    PROVE  IInv'
BY HaltInv DEF Fail, IInv, Past

-----------------------------------------------------------------------------
(* The export.                                                             *)

\* A list of numbers by position is a sequence.
LEMMA ListFacts ==
    ASSUME NEW n \in Nat, NEW k \in Nat, NEW page, page = [i \in 1..k |-> n + i]
    PROVE  /\ page \in Seq(Nat) /\ Len(page) = k
           /\ \A i \in 1..k : page[i] = n + i
<1>1. page \in [1..k -> Nat]
  OBVIOUS
<1>2. page \in Seq(Nat)
  BY <1>1, SeqDef
<1>3. DOMAIN page = 1..Len(page) /\ Len(page) \in Nat
  BY <1>2, LenProperties
<1>4. Len(page) = k
  BY <1>1, <1>3
<1> QED
  BY <1>2, <1>4

\* A page continues a list of sequence numbers by those that follow.
LEMMA PageFacts ==
    ASSUME NEW n \in Nat, NEW k \in Nat,
           NEW shown \in Seq(Nat), Len(shown) = n, \A i \in 1..n : shown[i] = i,
           NEW page \in Seq(Nat), Len(page) = k, \A i \in 1..k : page[i] = n + i
    PROVE  /\ shown \o page \in Seq(Nat)
           /\ Len(shown \o page) = n + k
           /\ shown \o page = [i \in 1..(n + k) |-> i]
<1> DEFINE both == shown \o page
<1>1. /\ both \in Seq(Nat)
      /\ Len(both) = n + k
      /\ \A i \in 1..(n + k) : both[i] = IF i <= n THEN shown[i] ELSE page[i - n]
  BY ConcatProperties
<1>2. \A i \in 1..(n + k) : both[i] = i
  <2>1. SUFFICES ASSUME NEW i \in 1..(n + k), i > n PROVE both[i] = i
    BY <1>1
  <2>2. i - n \in 1..k /\ n + (i - n) = i
    BY <2>1
  <2> HIDE DEF both
  <2> QED
    BY <1>1, <2>1, <2>2
<1>3. DOMAIN both = 1..(n + k) /\ both \in [1..(n + k) -> Nat]
  BY <1>1, LenProperties
<1> HIDE DEF both
<1>4. both = [i \in 1..(n + k) |-> i]
  BY <1>2, <1>3
<1> QED
  BY <1>1, <1>4 DEF both

LEMMA ExportPageInv ==
    ASSUME IInv, ExportPage
    PROVE  IInv'
<1> DEFINE n == Len(local.exported)
           page == Page(local.after)
           shown == local.exported \o page
           next == NextAfter(local.after)
<1>1. /\ local.pc = "export" /\ call = NoCall
      /\ IF Finished(next, local.after)
         THEN /\ local' = [local EXCEPT !.exported = shown, !.pc = "off"]
              /\ last' = [how |-> "done", at |-> "export"]
         ELSE /\ local' = [local EXCEPT !.exported = shown, !.after = next]
              /\ last' = last
      /\ UNCHANGED <<program, funding, atEnd, catalog, ledger, units, wire, run, call, told>>
  BY DEF ExportPage, At, Cursor
<1>2. local \in Locals
  BY DEF IInv, Shapes, Locals
<1>3. local.exported \in Seq(Nat) /\ local.start \in Nat
  BY <1>2 DEF Locals
<1>4. Len(ledger) \in Nat
  BY DEF IInv, Shapes
<1>5. /\ n \in Nat /\ local.after = n /\ n <= Len(ledger) /\ local.start <= Len(ledger)
      /\ local.exported = [i \in 1..n |-> i]
  BY <1>1, <1>3 DEF IInv, Exporting
<1>6. /\ page \in Seq(Nat) /\ Len(page) \in Nat /\ n + Len(page) <= Len(ledger)
      /\ Len(page) = 0 => n = Len(ledger)
      /\ \A i \in 1..Len(page) : page[i] = n + i
  <2> DEFINE k == Smaller(PageSize, Len(ledger) - n)
  <2>1. k \in Nat /\ n + k <= Len(ledger) /\ (k = 0 => n = Len(ledger))
    <3> HIDE DEF n
    <3> QED
      BY <1>4, <1>5 DEF Smaller
  <2>2. page = [i \in 1..k |-> n + i]
    BY <1>5 DEF Page
  <2> HIDE DEF n, page, k
  <2> QED
    BY <1>5, <2>1, <2>2, ListFacts
<1>7. /\ shown \in Seq(Nat)
      /\ Len(shown) = n + Len(page)
      /\ shown = [i \in 1..Len(shown) |-> i]
  <2>1. \A i \in 1..n : local.exported[i] = i
    BY <1>5
  <2>2. Len(local.exported) = n
    OBVIOUS
  <2> HIDE DEF n, page
  <2> QED
    BY <1>3, <1>5, <1>6, <2>1, <2>2, PageFacts
<1>8. (next = None /\ n + Len(page) = Len(ledger)) \/ next = n + Len(page)
  BY <1>5 DEF NextAfter
<1> HIDE DEF n, page, shown, next
<1>9. /\ call' \in [request : Entries, verdict : Verdicts, sequence : Nat]
      /\ \A r \in wire' : r \in wire \/ (r \in RequestsOfCommands /\ Sound(r))
      /\ run' \in {run, run + 1}
  BY <1>1, NoCallFacts
<1>10. CASE Finished(next, local.after)
  <2>0. local' = [local EXCEPT !.exported = shown, !.pc = "off"]
    BY <1>1, <1>10
  <2>1. /\ local' \in Locals /\ local'.pc = "off" /\ local'.exported = shown
        /\ local'.after = n /\ local'.start = local.start
    BY <1>2, <1>5, <1>7, <2>0 DEF Locals
  <2>2. last' = [how |-> "done", at |-> "export"]
    BY <1>1, <1>10
  <2>3. Len(shown) >= local.start /\ n <= Len(shown)
    BY <1>3, <1>4, <1>5, <1>6, <1>7, <1>8, <1>10 DEF Finished
  <2>4. Reading'
    BY <1>1, <2>1, NoCallFacts DEF Reading
  <2>5. Past'
    BY <1>1, <2>1, <2>2 DEF IInv, Past
  <2>6. Exporting'
    BY <1>7, <2>1, <2>2, <2>3 DEF Exporting
  <2>7. last' \in [how : Ends, at : Steps \cup {"off"}]
    BY <2>2
  <2> QED
    BY <1>1, <1>9, <2>1, <2>4, <2>5, <2>6, <2>7, RunInv
<1>11. CASE ~Finished(next, local.after)
  <2>1. next = n + Len(page) /\ next \in Nat
    BY <1>5, <1>6, <1>7, <1>8, <1>11 DEF Finished
  <2>2. /\ local' \in Locals /\ local'.pc = "export" /\ local'.exported = shown
        /\ local'.after = next /\ local'.start = local.start
        /\ local'.version = local.version /\ local'.period = local.period
    BY <1>1, <1>2, <1>7, <1>11, <2>1 DEF Locals
  <2>3. last' = last /\ last.how = "none"
    BY <1>1, <1>11 DEF IInv, Past
  <2>4. Reading'
    BY <1>1, <2>2, NoCallFacts DEF IInv, Reading, IsActivation
  <2>5. Past'
    BY <1>1, <2>2, <2>3 DEF IInv, Past
  <2>6. Exporting'
    BY <1>1, <1>5, <1>6, <1>7, <2>1, <2>2, <2>3 DEF Exporting
  <2>7. last' \in [how : Ends, at : Steps \cup {"off"}]
    BY <2>3 DEF IInv, Shapes
  <2> QED
    BY <1>1, <1>9, <2>2, <2>4, <2>5, <2>6, <2>7, RunInv
<1> QED
  BY <1>10, <1>11

-----------------------------------------------------------------------------
LEMMA HandleInv ==
    ASSUME IInv, NEW r \in wire, Handle(r)
    PROVE  IInv'
BY CommitInv, ReplayInv, ConflictInv, TurnDownInv DEF Handle

LEMMA NextInv ==
    ASSUME IInv, [Next]_vars
    PROVE  IInv'
<1>1. CASE Start
  BY <1>1, StartInv
<1>2. CASE GetCatalog
  BY <1>2, GetCatalogInv
<1>3. CASE Send
  BY <1>3, SendInv
<1>4. CASE SkipFunding
  BY <1>4, SkipFundingInv
<1>5. CASE CheckEligibility
  BY <1>5, CheckEligibilityInv
<1>6. CASE Receive
  BY <1>6, ReceiveInv
<1>7. CASE Rejected
  BY <1>7, RejectedInv
<1>8. CASE ExportPage
  BY <1>8, ExportPageInv
<1>9. CASE Fail
  BY <1>9, FailInv
<1>10. CASE \E r \in wire : Handle(r)
  BY <1>10, HandleInv
<1>11. CASE Other
  BY <1>11, OtherInv
<1>12. CASE Publish
  BY <1>12, PublishInv
<1>13. CASE UNCHANGED vars
  <2> USE <1>13 DEF vars, IInv
  <2>1. Shapes'
    BY DEF Shapes
  <2>2. Requests' /\ OneEntry'
    BY DEF Requests, Sound, IsActivation, OneEntry
  <2>3. Reading'
    BY DEF Reading, IsActivation, OccurredAt, Cause, RequestAt, Request, KeyOf
  <2>4. Past' /\ Exporting'
    BY DEF Past, Cause, Exporting
  <2> QED
    BY <2>1, <2>2, <2>3, <2>4
<1> QED
  BY <1>1, <1>2, <1>3, <1>4, <1>5, <1>6, <1>7, <1>8, <1>9, <1>10, <1>11, <1>12, <1>13
     DEF Next, Proceed

THEOREM InductiveInvariant == Spec => []IInv
<1>1. Init => IInv
  BY InitInv
<1>2. IInv /\ [Next]_vars => IInv'
  BY NextInv
<1> QED
  BY <1>1, <1>2, PTL DEF Spec

\* Every variable keeps its type.
THEOREM TypeCorrect == Spec => []TypeOK
<1>1. IInv => TypeOK
  BY DEF IInv, Shapes, TypeOK, Foreign
<1> QED
  BY <1>1, InductiveInvariant, PTL

\* However often the program is run and killed, and however late its requests are
\* handled, the ledger holds one entry of each of its commands.
THEOREM OneEffectOfRuns == Spec => []OneEffect
<1>1. IInv => OneEffect
  BY DEF IInv, OneEntry, OneEffect, Shapes, Foreign
<1> QED
  BY <1>1, InductiveInvariant, PTL

\* All runs report a command by the same ledger entry, and the comparison of the
\* replayed decision with the first (end_to_end.py:145) never fails.
THEOREM IdentityIsStable == Spec => []StableIdentity
<1>1. ASSUME IInv PROVE StableIdentity
  <2>1. \A t \in told : /\ t \in [key : KeysOfCommands, sequence : Nat]
                        /\ t.sequence \in DOMAIN ledger
                        /\ ledger[t.sequence].key = t.key
    BY <1>1 DEF IInv, Past
  <2>2. ASSUME NEW s \in told, NEW t \in told, s.key = t.key PROVE s = t
    <3> DEFINE e == ledger[s.sequence]
               f == ledger[t.sequence]
    <3>1. e \in Entries /\ f \in Entries /\ e.key \in KeysOfCommands /\ f.key = e.key
      BY <1>1, <2>1, <2>2 DEF IInv, Shapes
    <3>2. e.command \in Commands /\ f.command \in Commands
      <4>1. Foreign.key \notin KeysOfCommands
        BY KeyFacts DEF Foreign
      <4>2. e # Foreign /\ f # Foreign
        BY <3>1, <4>1
      <4> QED
        BY <3>1, <4>2
    <3>3. e.key = <<e.command>> /\ f.key = <<f.command>>
      BY <1>1, <2>1, <3>2 DEF IInv, Requests, Sound
    <3>4. e.command = f.command
      BY <3>1, <3>2, <3>3, KeyFacts
    <3>5. s.sequence = t.sequence
      BY <1>1, <2>1, <3>2, <3>4 DEF IInv, OneEntry
    <3> QED
      BY <2>1, <2>2, <3>5
  <2> QED
    BY <1>1, <2>1, <2>2 DEF IInv, Past, StableIdentity
<1> QED
  BY <1>1, InductiveInvariant, PTL

\* A run meets its own key with another body only at the activation, after a new
\* catalog was published, and at the Go program's consumption, in a rerun.
THEOREM ReuseHasItsCause == Spec => []ReuseHasACause
<1>1. IInv => ReuseHasACause
  BY DEF IInv, Past, Cause, ReuseHasACause
<1> QED
  BY <1>1, InductiveInvariant, PTL

\* Whatever the page size and however the ledger grows meanwhile, the export
\* skips and repeats no entry.
THEOREM ExportSkipsNothing == Spec => []ExportIsExact
<1>1. IInv => ExportIsExact
  BY DEF IInv, Exporting, ExportIsExact
<1> QED
  BY <1>1, InductiveInvariant, PTL
=============================================================================
