------------------------------ MODULE Lifecycle ------------------------------
(***************************************************************************)
(* The two end-to-end programs: examples/end_to_end.py and                 *)
(* examples/end_to_end/main.go.  An operator runs one of them, it ends or  *)
(* is killed anywhere, and it is run again with the same environment: its  *)
(* idempotency keys are made of the run ID, so they are the same each time.*)
(* Meanwhile other programs bill the same business, a new catalog may be   *)
(* published, and requests of a run that is over may still be handled.     *)
(*                                                                         *)
(* The Worker is external.  It answers a key by the ledger entry that was  *)
(* committed under it; see MizanService for the rules.                     *)
(***************************************************************************)
EXTENDS Integers, Sequences

CONSTANTS
    MaxRuns,     \* how often the operator runs the program
    MaxOther,    \* ledger entries that other programs cause
    MaxCatalog,  \* catalog versions that are ever published
    Grant,       \* units an activation brings; a consumption takes one
    PageSize,    \* entries of a ledger page, 100 in the code
    None         \* next_after_sequence: null

ASSUME PageSizeAssumption == PageSize \in Nat \ {0}
ASSUME GrantAssumption == Grant \in Nat
ASSUME NoneAssumption == None \notin Nat

VARIABLES
    program,     \* which of the two, and never changed
    funding,     \* which of the two top-up variables are in the environment
    atEnd,       \* what the Worker names as next on a last page: null or its end
    catalog,     \* Worker: the current catalog version
    ledger,      \* Worker: the entries of the business, by sequence number
    units,       \* Worker: the balance a consumption is paid from
    wire,        \* mutations that may still be handled
    run,         \* how many runs have been started
    local,       \* the variables of the current run
    call,        \* its mutation in progress and the answer to it
    last,        \* how and where the last run ended
    told         \* history: the ledger identities reported as success, by key

workerVars == <<catalog, ledger, units>>
vars == <<program, funding, atEnd, catalog, ledger, units, wire, run, local, call, last, told>>

Commands == {"activate", "fund", "consume"}

\* Mutant: a key made anew in each run.
KeyOfRun(command) == <<command, run>>

\* Mutant: no key is given, so that the SDK makes one for each call.
KeyOfCall(command) == <<command, run, local.pc>>

\* Every key ends in the run ID, which no rerun changes.
KeyOf(command) == <<command>>

Request(command, body) == [key |-> KeyOf(command), command |-> command, body |-> body]

\* An entry that no command of this program caused.
Foreign == [key |-> <<>>, command |-> "other", body |-> 0]

NoCall == [request |-> Foreign, verdict |-> "none", sequence |-> 0]

Verdicts == {"none", "waiting", "ok", "reused", "refused"}

\* version, period, decision: what the run has read from the answers.  after and
\* exported belong to export_ledger (exported stands for count, with what was
\* counted); start is the ledger's length when it began.
NewRun == [pc |-> "catalog", version |-> 0, period |-> 0, decision |-> 0,
           after |-> 0, exported |-> <<>>, start |-> 0]

NotRunning == [NewRun EXCEPT !.pc = "off"]

Steps == {"catalog", "activate", "fund", "eligibility", "consume", "replay", "export"}

Ends == {"none", "done", "failed", "reused", "refused",
         "ineligible", "misconfigured", "differs"}

Init ==
    /\ program \in {"python", "go"}
    /\ funding \in {"unset", "half", "both"}
    /\ atEnd \in {"null", "end"}
    /\ catalog = 1
    /\ ledger = <<>>
    /\ units = 0
    /\ wire = {}
    /\ run = 0
    /\ local = NotRunning
    /\ call = NoCall
    /\ last = [how |-> "none", at |-> "off"]
    /\ told = {}

-----------------------------------------------------------------------------
(* The Worker, and what else happens to the business.                      *)

CommittedAt(key) == {i \in DOMAIN ledger : ledger[i].key = key}

\* Activation is refused for a version that is no longer current, consumption
\* without units.
Acceptable(r) ==
    /\ r.command = "activate" => r.body = catalog
    /\ r.command = "consume" => units > 0

UnitsAfter(r) ==
    CASE r.command = "activate" -> units + Grant
      [] r.command = "consume"  -> units - 1
      [] OTHER                  -> units

\* A request may be handled again: the SDK repeats it, or its run is repeated.
\* The answer reaches the program if that is what it waits for.
Reply(r, verdict, sequence) ==
    /\ wire' \in {wire, wire \ {r}}
    /\ call' = IF call.request = r /\ call.verdict = "waiting"
               THEN [call EXCEPT !.verdict = verdict, !.sequence = sequence]
               ELSE call
    /\ UNCHANGED <<program, funding, atEnd, catalog, run, local, last, told>>

Commit(r) ==
    /\ CommittedAt(r.key) = {}
    /\ Acceptable(r)
    /\ ledger' = Append(ledger, r)
    /\ units' = UnitsAfter(r)
    /\ Reply(r, "ok", Len(ledger) + 1)

Replay(r) ==
    /\ \E i \in CommittedAt(r.key) : ledger[i].body = r.body /\ Reply(r, "ok", i)
    /\ UNCHANGED <<ledger, units>>

Conflict(r) ==
    /\ \E i \in CommittedAt(r.key) : ledger[i].body # r.body
    /\ Reply(r, "reused", 0)
    /\ UNCHANGED <<ledger, units>>

TurnDown(r) ==
    /\ CommittedAt(r.key) = {}
    /\ ~Acceptable(r)
    /\ Reply(r, "refused", 0)
    /\ UNCHANGED <<ledger, units>>

Handle(r) == Commit(r) \/ Replay(r) \/ Conflict(r) \/ TurnDown(r)

\* Renewals, top-ups and consumption by others, up to MaxOther entries.
Other ==
    /\ Len(SelectSeq(ledger, LAMBDA e : e = Foreign)) < MaxOther
    /\ ledger' = Append(ledger, Foreign)
    /\ units' \in {units - 1, units, units + 1} \cap Nat
    /\ UNCHANGED <<program, funding, atEnd, catalog, wire, run, local, call, last, told>>

Publish ==
    /\ catalog < MaxCatalog
    /\ catalog' = catalog + 1
    /\ UNCHANGED <<program, funding, atEnd, ledger, units, wire, run, local, call, last, told>>

-----------------------------------------------------------------------------
(* A run.                                                                  *)

At(pc) == local.pc = pc /\ call = NoCall

Goto(pc) == local' = [local EXCEPT !.pc = pc]

Halt(how) ==
    /\ last' = [how |-> how, at |-> local.pc]
    /\ local' = NotRunning
    /\ call' = NoCall

Start ==
    /\ local.pc = "off"
    /\ run < MaxRuns
    /\ run' = run + 1
    /\ local' = NewRun
    /\ last' = [how |-> "none", at |-> "off"]
    /\ UNCHANGED <<program, funding, atEnd, catalog, ledger, units, wire, call, told>>

GetCatalog ==
    /\ At("catalog")
    /\ local' = [local EXCEPT !.version = catalog, !.pc = "activate"]
    /\ UNCHANGED <<program, funding, atEnd, catalog, ledger, units, wire, run, call, last, told>>

\* Mutant: the Python program reads the clock as well.
OccurredNow == run

\* The event time is the activation's period start in Python, now in Go.
OccurredAt == IF program = "python" THEN local.period ELSE run

RequestAt(pc) ==
    CASE pc = "activate" -> Request("activate", local.version)
      [] pc = "fund"     -> Request("fund", 0)
      [] OTHER           -> Request("consume", OccurredAt)

\* The SDK is called with the step's mutation, built anew from local variables.
Send ==
    /\ local.pc \in {"activate", "fund", "consume", "replay"}
    /\ At(local.pc)
    /\ local.pc = "fund" => funding = "both"
    /\ wire' = wire \cup {RequestAt(local.pc)}
    /\ call' = [request |-> RequestAt(local.pc), verdict |-> "waiting", sequence |-> 0]
    /\ UNCHANGED <<program, funding, atEnd, catalog, ledger, units, run, local, last, told>>

\* maybe_fund_provider without both variables.
SkipFunding ==
    /\ At("fund")
    /\ \/ funding = "unset" /\ Goto("eligibility") /\ UNCHANGED <<call, last>>
       \/ funding = "half" /\ Halt("misconfigured")
    /\ UNCHANGED <<program, funding, atEnd, catalog, ledger, units, wire, run, told>>

CheckEligibility ==
    /\ At("eligibility")
    /\ \/ units > 0 /\ Goto("consume") /\ UNCHANGED <<call, last>>
       \/ units = 0 /\ Halt("ineligible")
    /\ UNCHANGED <<program, funding, atEnd, catalog, ledger, units, wire, run, told>>

\* What a step does with its successful answer.
Continue ==
    CASE local.pc = "activate" ->
            local' = [local EXCEPT !.period = call.sequence, !.pc = "fund"]
      [] local.pc = "fund" -> Goto("eligibility")
      [] local.pc = "consume" ->
            local' = [local EXCEPT !.decision = call.sequence, !.pc = "replay"]
      [] OTHER -> local' = [local EXCEPT !.pc = "export", !.start = Len(ledger)]

Receive ==
    /\ call.verdict = "ok"
    /\ told' = told \cup {[key |-> call.request.key, sequence |-> call.sequence]}
    /\ IF local.pc = "replay" /\ call.sequence # local.decision
       THEN Halt("differs")
       ELSE Continue /\ call' = NoCall /\ UNCHANGED last
    /\ UNCHANGED <<program, funding, atEnd, catalog, ledger, units, wire, run>>

\* fail_with_mizan_error: an authoritative error ends the run.
Rejected ==
    /\ call.verdict \in {"reused", "refused"}
    /\ Halt(call.verdict)
    /\ UNCHANGED <<program, funding, atEnd, catalog, ledger, units, wire, run, told>>

\* So does a request, of any step, whose outcome stays unknown; and the process
\* may be killed.
Fail ==
    /\ local.pc # "off"
    /\ Halt("failed")
    /\ UNCHANGED <<program, funding, atEnd, catalog, ledger, units, wire, run, told>>

-----------------------------------------------------------------------------
(* export_ledger.                                                          *)

Smaller(a, b) == IF a < b THEN a ELSE b

\* get_ledger: the next entries, by position.
Page(after) ==
    [i \in 1 .. Smaller(PageSize, Len(ledger) - after) |-> after + i]

\* The Worker names the last entry of the page while there are more.  On the last
\* page the code is ready for null and for a cursor that does not move.
NextAfter(after) ==
    LET end == after + Len(Page(after))
    IN  IF end = Len(ledger) /\ atEnd = "null" THEN None ELSE end

\* Mutant: a page that ends where it began is asked for again.
Exhausted(next, after) == next = None \/ next < after

\* Mutant: null is not taken for the end, and becomes the cursor.
FinishedWhenStill(next, after) == next # None /\ next <= after

\* The loop ends without a next cursor, or with one that does not move.
Finished(next, after) == next = None \/ next <= after

\* Mutant: the cursor moves by the size of a full page.
CursorByPageSize(next, after) == after + PageSize

Cursor(next, after) == next

ExportPage ==
    /\ At("export")
    /\  LET exported == local.exported \o Page(local.after)
            next == NextAfter(local.after)
        IN  IF Finished(next, local.after)
            THEN /\ local' = [local EXCEPT !.exported = exported, !.pc = "off"]
                 /\ last' = [how |-> "done", at |-> "export"]
            ELSE /\ local' = [local EXCEPT !.exported = exported,
                                           !.after = Cursor(next, local.after)]
                 /\ UNCHANGED last
    /\ UNCHANGED <<program, funding, atEnd, catalog, ledger, units, wire, run, call, told>>

-----------------------------------------------------------------------------
Proceed ==
    \/ GetCatalog \/ Send \/ SkipFunding \/ CheckEligibility
    \/ Receive \/ Rejected \/ ExportPage

Next ==
    \/ Start \/ Proceed \/ Fail
    \/ \E r \in wire : Handle(r)
    \/ Other \/ Publish

Spec == Init /\ [][Next]_vars

\* A run goes on by itself, and a mutation it waits for ends, if only because the
\* SDK bounds both time and attempts.
FairSpec == Spec /\ WF_vars(Proceed) /\ WF_vars(call.verdict = "waiting" /\ Fail)

-----------------------------------------------------------------------------
TypeOK ==
    /\ program \in {"python", "go"}
    /\ funding \in {"unset", "half", "both"}
    /\ atEnd \in {"null", "end"}
    /\ {catalog, units, run} \subseteq Nat
    /\ local.pc \in Steps \cup {"off"}
    /\ {local.version, local.period, local.decision, local.after, local.start} \subseteq Nat
    /\ \A i \in DOMAIN ledger : ledger[i].command \in Commands \cup {"other"}
    /\ \A r \in wire : r.command \in Commands
    /\ call.verdict \in Verdicts
    /\ last.how \in Ends

\* However often the program is run, killed and run again, and however late its
\* requests are handled, the business is activated, funded and charged once.
OneEffect ==
    \A i, j \in DOMAIN ledger :
        ledger[i].command \in Commands /\ ledger[i].command = ledger[j].command => i = j

\* What the program reports as the identity of a command is the command's ledger
\* entry, the same in every run; so the comparison of the replay with the decision
\* (end_to_end.py:145) never fails.
StableIdentity ==
    /\ \A t \in told : t.sequence \in DOMAIN ledger /\ ledger[t.sequence].key = t.key
    /\ \A s, t \in told : s.key = t.key => s = t
    /\ last.how # "differs"

\* A rerun meets its own key with another body for two reasons only: at the
\* activation, a catalog published since (examples/README.md:41); at the
\* consumption, in Go, its own clock.  The Python program has no such obstacle.
ReuseHasACause ==
    last.how = "reused" =>
        \/ last.at = "activate" /\ catalog > 1
        \/ last.at = "consume" /\ program = "go" /\ run > 1

\* The export counts the entries 1, 2, .. n, each once, however the ledger grows
\* between its pages; it misses none that was there when it began; and an export
\* resumed from the cursor it ends with misses none either.
ExportIsExact ==
    /\ local.exported = [i \in 1 .. Len(local.exported) |-> i]
    /\ local.after <= Len(local.exported)
    /\ last.how = "done" => Len(local.exported) >= local.start

\* Every run ends.
RunsEnd == local.pc # "off" ~> local.pc = "off"
=============================================================================
