# Mizan client SDKs: a TLA+ model

This directory holds a TLA+ model of the Mizan billing client SDKs (Python and
Go): the request loops with their idempotency keys and retries, the usage
builders, the webhook receivers, the two example inboxes that make webhook
deliveries durable, alone and behind the sender of the webhooks, and the
end-to-end example programs. TLC checks it on small instances; TLAPS proves every
safety property of the passing runs, and the refinements, for all
values of the constants. Paths below are relative to the repository's `src/`.

## The system

The Mizan Worker is a remote billing service. An application talks to it through
an SDK (commands such as `Consume` or `TopUpAzeerUnits`, and queries), and the
Worker talks back by HTTP webhooks (a ledger stream, ordered per business, and
notifications). Neither side sees the other's state; everything is done by
requests that may be lost, late, repeated, or answered to nobody.

| Component | State it keeps | Operations | Interacts with | What is hard | What makes it correct |
|---|---|---|---|---|---|
| Python request loop, `mizan-python/src/mizan/client.py` | per call: key, encoded body, attempt | every method of `MizanClient`, `MizanAdminClient`, all through `_request` | Worker through `urllib`; the caller's threads and its mutable mappings | late and damaged answers, repeats by the application, threads, crashes | one effect per command; success and refusal mean what they say; the key is never lost |
| Go request loop, `mizan-go/mizan.go` | the same, and the caller's context | `Client`, `AdminClient`, through `mutate`, `request`, `requestWithHeaders` | Worker through `net/http`; context | expiry at any point, `select` between timer and context, one keyless mutation | as above; an expired call returns |
| Admin clients | none of their own | reads and mutations with attribution headers | the two loops | `ConfigureAddon` bypasses the key generator in Go | as the loops |
| Worker and network (external) | committed keys and bodies, effects | apply, replay, conflict, turn down, query | both clients | - | - |
| Webhook receivers, `mizan-python/src/mizan/webhooks.py`, `mizan-go/webhooks.go` | none | `receive`, `Receive`, `ServeHTTP` | frameworks; the application's callbacks | two implementations of one contract; exact amounts | the same checks of what both read alike; nothing before authentication; only balanced postings reach the application |
| Framework adapters | none | FastAPI endpoint, Fiber middleware | receivers | - | they add nothing |
| File inbox, `mizan-go/examples/webhook_receiver/main.go` | event files, alias files, a mutex | `persist`, `writeOnce` | receiver callback; file system | two files per event, kill between them, unsynced directory entries, concurrent requests | an acknowledged event is stored, once, for good; repeats are accepted |
| SQLite inbox, `mizan-python/examples/webhook_receiver.py` | one table with two unique keys | `persist` | receiver callback; other worker processes | write lock and its timeout, errors inside a transaction, death after commit | as the file inbox |
| Usage builders and validators, `mizan-python/src/mizan/builders.py`, `mizan-go/usage.go` | none | ten feature builders, confirmed payments | the clients | decimal texts, ranges, metadata of the caller under metadata of the arguments, two implementations | quantities are exact; the arguments stand; both SDKs send the same request of what both can say |
| Lifecycle examples and ledger export, `mizan-python/examples/end_to_end.py`, `mizan-go/examples/end_to_end/main.go` | what the run has read; a cursor | a script of reads and keyed commands, a replay check, paging | clients, Worker | killed and rerun with the same keys, a ledger that grows between pages | one effect, one identity, however often it is run; no entry skipped or repeated |
| Webhook sender (external) | per item: pending, delivered, dead letter; attempts | deliver, wait, hang up, retry by an operator | the inboxes | hangs up on attempts that still run | streams are recorded in order |
| Consumption examples, vocabulary, types, errors | none | declarations, straight-line code | - | - | - |

## Modules

| Module | Stands for | Composes |
|---|---|---|
| `MizanService` | network, connections and Worker, from what the loops rely on | |
| `AtomicCommand` | abstract: what an application is promised of a command, without requests or keys | |
| `PyClient` | `_request` and all ways into it, the application around it | `MizanService`; refines `AtomicCommand` |
| `GoClient` | `requestWithHeaders` and all ways into it | `MizanService`; refines `AtomicCommand` |
| `ExactAmounts` | the two SDKs' patterns and ranges of amounts | |
| `WebhookReceiver` | both receivers' checks, validation and answer, as operators | `ExactAmounts` |
| `UsageBuilders` | both SDKs' builders and payments, as operators | `ExactAmounts` |
| `SdkContract` | both SDKs side by side on the same input | `WebhookReceiver`, `UsageBuilders` |
| `WebhookInbox` | abstract: what a durable inbox promises | |
| `FileInbox` | `persist` and `writeOnce` of the Go receiver | refines `WebhookInbox` |
| `SqliteInbox` | `SQLiteInbox.persist` of the Python receiver | refines `WebhookInbox` |
| `WebhookDelivery` | the ordered sender in front of `SqliteInbox` | `SqliteInbox` |
| `Lifecycle` | the two end-to-end programs, run again and again | a Worker of its own, by the rules of `MizanService` |
| `PyClientProofs`, `GoClientProofs`, `WebhookReceiverProofs`, `SdkContractProofs`, `FileInboxProofs`, `SqliteInboxProofs`, `WebhookDeliveryProofs`, `LifecycleProofs` | theorems and their proofs | extend what they are named after |
| `MC*` | constants for TLC | extend what they are named after |

Definitions whose comment begins with "Mutant:" are deliberately wrong variants
of the definition they stand next to. No specification uses them; put in the
place of the right one, each makes the property it was written for fail.

### Clients

`frame[c]` holds the local variables of one call: its key and encoded body
(fixed by `Enter`, before the loop), its attempt, and where it is. An attempt is
in `wait` while the transport has it and in `backoff` during the sleep. Every
public method is one of four ways in: `FirstCall` of a command, with a key of the
application's or a generated one; `RepeatCall` from what the application stored;
`ReadCall`; and `InvalidCall`, which ends before any request. `Finish`,
`RetryError`, `LoseConnection` and `Resend` are the turns of the loop; in Go
`FailExpired`, `Abort` and `Expire` add the context, which may be done before the
call is made (`Enter`): `Do` then fails at once, and the loop goes on to its
backoff. That `net/http` sends nothing under a done context is taken from its
documentation, and no property restates it.

Answers are the classes the loops tell apart: a 2xx object, a structured error
(final, the key conflict, or retryable), a body that is no JSON object (`garbled`),
a non-2xx object without an error code (`bare`) and a response that breaks the
HTTP framing (`cut`). The Worker may commit a command and then have its answer
replaced by any of the damaged ones, and may handle a request long after its
caller hung up. Its replay rules (same key and body: same answer, no new effect;
same key, other body: conflict; a command that was turned down leaves its key
unused) are those the loops and the documentation rely on.

The application stores body and, if it chose one, key before it calls. It repeats
a command only with a key it holds, which is either its own or one an exception
handed to it; a second thread may do so while the first call still runs. Its
process may crash at any time and keeps what it stored.

### Inboxes

`handler[h]` (Go) and `worker[w]` (Python) hold one delivery being persisted.
`FileInbox` has one step per system call that can be seen later: linking a file
to its name and syncing its directory, for the event and for the alias. Contents
are synced before the link, so a readable file is whole. `eventsKept` and
`aliasesKept` are the entries a power loss cannot take. `Form` is what
`json.Marshal` makes of a raw payload: it is written into the event file, and it
is not the identity. `SqliteInbox` has one step per statement that takes, holds
or gives up the write lock. Its Python callback blocks the event loop, so the
concurrency is that of several server processes.

### Delivery

`WebhookDelivery` puts the Worker's sender in front of `SqliteInbox`, as WEBHOOKS.md
and the receiver's comments describe it: ledger items of a business go out in
order, one at a time; an item that is not answered with 204 is repeated and after
`MaxSends` attempts becomes a dead letter, which an operator may send again. The
sender may hang up (`HangUp`) while the process it called still works, so attempts
of one item overlap, and an answer may come when nobody waits for it (`Answer`).

### Receivers

Each transport check is a pair of a condition and a status, in the order of the
code, and the first that fails decides. Validation follows the two functions
of each SDK, on records that say of each member only what the checks tell apart.
Amounts are integers with a small `MaxInt` in place of 2^63-1. A lookup of
an unhashable value raises in Python and is a 500 there, a 422 in Go.

The decoders are not modelled as one. A delivery is a pair of readings, one per
SDK, and `Delivery` has every pair: what the Python side reads in it and what the
Go side reads are independent. This is where the following are, which `json.loads`
(webhooks.py:231) and `json.Unmarshal` (webhooks.go:208) take differently:

- `NaN` and `Infinity`, a body that begins with a byte-order mark, and UTF-16 or
  UTF-32: an object in Python, `garbage` in Go.
- UTF-8 that is broken inside a string: `garbage` in Python, replaced in Go.
- An integer of more digits than Python's `int` takes (4300), or nesting beyond its
  recursion limit: `raises` in Python, which `_decode_payload` does not catch; Go
  keeps what it does not look at as raw bytes, and refuses nesting by a limit of its
  own.
- Member names in another case, which Go takes for the name, and duplicates, of
  which both keep the last but Go merges objects.
- Header values: a repeated header, or blanks that only Python's `strip` removes.

So of any body the model says what each SDK makes of what it has read, and
`AuthenticatedFirst` and `LedgerBalances` hold whatever each reads. `SameAnswer`
compares the checks, of deliveries that both read alike; which bytes those are is a
question about the decoders that it leaves open.

### Builders

The text of an amount is a record of its digits before and after the point and of
its form: ASCII, digits of another script, padded, empty. Scaling multiplies and
pads as the code does, with three decimal places and a small largest integer. A
text is which one it is, its length in characters, the blanks around it and the
bytes of a character, which is what `len`, `strip` and Go's byte counts tell apart;
this goes for the actor's ID and for keys and values of attributes too.

Metadata is a function from the fields of `UsageMetadata` to values or `Absent`;
a field of the caller's mapping may also be `Null`, Python's `None`, and a channel or
an actor `Empty`. Each builder merges its arguments over the caller's in the code's
order and validates before or after as that SDK does. Go's encoder drops what is
empty (`Lost`). Python's drops nothing: `json.dumps` sends `None` as `null`, so that
`Null` stays in the request. `Refused` is `ValueError` or an error. `IsUsage` and
`IsPayment` say which facts there are: every feature with every value of every
argument, texts of any length, any number of attributes and amounts of any number of
digits.

### End-to-end programs

`local` holds the variables of the current run and where it is; `call` the
mutation it waits for. `Start` is the operator who runs the program with the same
`MIZAN_EXAMPLE_RUN_ID`; `Fail` ends a run anywhere, by an exception or a kill; `wire` keeps
requests that may still be handled, also after their run is over. `KeyOf` names a
command's key without the run ID, which is the same in all runs. The event time of
the consumption is the activation's period start in Python and `time.Now()` in Go
(`OccurredAt`). `ExportPage` is one turn of the export loop; other programs append
to the ledger between its pages, and on the last page the Worker may name no next
cursor or its end, which the code both expects.

## Runs

| Run | Question | Outcome |
|---|---|---|
| `py_client` | Can retries, later calls, concurrent calls and crashes apply a command twice, or mislead the application? Does the client implement `AtomicCommand`, does every call return? | no; yes |
| `py_client_escape` | Does every failure leave the key with the application? | no, see findings |
| `go_client` | The same of the Go loop, with contexts that end at any point, before the call too: is a refusal still final, do expired calls return? | yes |
| `go_client_expiry`, `go_client_unkeyed` | Does every failure leave the key? Is every mutation keyed? | no, see findings |
| `sdk_contract` | Do both SDKs check alike what both read alike, and build the same requests; does anything come before authentication; are only balanced postings passed on, only exact quantities sent, and do arguments stand against metadata? | yes, but for `ChecksDiffer`, `BuildersDiffer` and `PaymentsDiffer` |
| `file_inbox` | Is the file inbox one durable inbox under errors and kills, or under power losses? Is every request answered? | yes |
| `file_inbox_power` | Is an acknowledged event safe if a power loss follows a kill? | no, see findings |
| `file_inbox_repeat` | Are repeats of a recorded event accepted? | no, see findings |
| `sqlite_inbox` | Is the SQLite inbox one durable inbox, does it accept repeats, does it answer? | yes |
| `webhook_delivery` | Behind a sender that hangs up, repeats and gives up: is a ledger recorded in order, is a collision never reported in error, is every item settled? | yes |
| `lifecycle` | Can the end-to-end programs be killed and rerun anywhere: one effect, one identity, what stops a rerun, an exact export, every run ends? | yes; a rerun is stopped for the reasons in `ReuseHasACause` |

### Properties worth reading

- `KeepsThePromise` (both clients, both inboxes) is refinement. For the clients: a
  command takes effect at most once, only while a call for it is open or ended in
  doubt, success means effect, and "declined" is said only where it is final. A
  refusal on a *second* attempt is doubt, not refusal: the first attempt may be
  handled later.
- `RefusalIsFinal` says when an application may stop worrying: every call of the
  command refused on its first attempt.
- `NoSelfConflict` and `AtMostOnce` depend on key and body being fixed before the
  loop, while `EditDraft` changes the caller's mapping.
- `FailureLeavesTheKey` ties the exception an application sees to the key that all
  calls of the command used; `EveryFailureLeavesTheKey` is the stronger statement
  the documentation makes and the code does not keep.
- `NoDanglingAlias`, `OutboxNamesOneEvent` relate the two indexes of the file
  inbox, across restarts after a kill, or after power losses, as the run has them: a
  power loss after a kill can take an alias that was never synced.
- `AuthenticatedFirst` holds of every pair of readings: an unauthorized caller gets
  401 whatever the body would do to the parser, and from Go at most a 400 or 413
  that tells the body's size.
- `SameAnswer` is about deliveries that both SDKs read alike. Of these it excepts by
  `ChecksDiffer` where the checks part: their order when two fail, `null` metadata,
  absent postings, sequences beyond 64 bits, digits of other scripts, unhashable
  values, and members only Go's decoder gives a type to.
- `SameRequest` excepts by `BuildersDiffer` where the builders part, of what the model
  tells apart: any text, actor ID, attribute key or value with characters of more
  than one byte (Python measures characters, Go bytes); digits of other scripts,
  which Python accepts; an explicitly empty quantity, which Go takes for one; the
  first moment of year 1 and naive timestamps; in the caller's metadata an explicit
  `None`, an empty text, channel, actor or set of attributes, and members outside the
  vocabulary; an over-long provider there that an argument replaces (Go checks
  afterwards); in `other_provider_charge`, a provider or its event ID beyond the
  limit (Python checks metadata before it merges them and sends them unchecked),
  an `fx_rule` given in metadata only, and a blank one for SAR. What the model does
  not tell apart is under "Not modelled"; the list is no list of those.
- `UncalledErrorsRaise` says which malformed deliveries are a server error, which the
  sender repeats, and not refused: those on which Python's own code raises, and none
  in Go.
- `ExactQuantity` compares what is sent with the decimal value of the text: a
  quantity goes out if and only if it is a whole number of milliunits in range.
- `ArgumentsStand`: the caller's metadata never overrides what the arguments say
  of provider, conversation, invoice and conversion.
- `LedgerBalances` compares the running balance with sums per rail and unit.
- `RecordedInOrder` is what a consumer's cursor rests on: whatever fails, the rows
  of a business are a beginning of its ledger. `NoFalseAlarm`: overlapping attempts
  of one item are never taken for two items under one identity.
- `OneEffect`, `StableIdentity`, `ReuseHasACause`: reruns of the lifecycle pay and
  consume once, report the same identity, and meet the key-reuse conflict only
  after a new catalog or, in Go, because the clock is in the body.
- `ExportIsExact`: the export's entries are 1, 2, .., n although the ledger grows
  under it, and include all that was there when it began.

### Bounds

`MaxAttempts` 3 in Python, the default, and 2 in Go: 2 has a first, a retried and
a last attempt. The runs have two calls, of one command or of two, which gives a
retry, a concurrent repeat and a late request of an earlier call; more calls are
left to the proofs. Two
bodies are needed for a conflict; `GoClient.cfg` has one, since Go encodes the
body from a value no other goroutine holds, and one key, since calls with
different keys share nothing. The inboxes get four deliveries that repeat an
event, reuse an outbox ID and reuse an event ID, two concurrent requests and two
sends of each (`MaxSends`): enough for a delivery, its interruption and its
redelivery next to a competitor. `WebhookDelivery` has three items of one business
(a first, a middle and a last), two processes, two attempts in place of ten and one
retry by an operator: an attempt given up can still run when the next one, or the
next item, arrives. The SDKs get 33,187 inputs: all transport conditions with one
body, and pairs of readings that differ; all bodies of up to three postings over the range -2501..2500, of which three
can wrap around to zero, over a transport in order; each builder with up to two of
its facts out of the ordinary; payments. Identifiers have up to 2 characters,
texts 3, keys of attributes 1 (`MaxKey`), and attributes 2 entries (`MaxEntries`), in
place of 128, 512, 64 and 32, so that each can be too much by one. The
lifecycle has two runs (one cut off anywhere, one that meets what it left), two
foreign entries, two catalog versions, and pages of two entries for a ledger of up
to five.

`CHECK_DEADLOCK FALSE` is set in each cfg because the calls, sends and
deliveries are finite in number: when all are used up the system stops.

### Fairness

`FairSpec` of the clients assumes weak fairness of a call's own steps. An attempt
ends because of its timeout (the Python constructor insists on one); in Go an
HTTP client may have none, so only the context ends it, and `ExpiredCallsReturn`
is stated of expired calls. Nothing is assumed of the Worker. The inboxes assume
that a running request goes on and that the wait for a mutex or lock ends once it
is free; deliveries are finite in number, so nobody is overtaken for ever. SQLite's
ten second timeout is a possibility, not something the answer depends on.
`FairDelivery` assumes that a running process goes on, that the sender delivers an
item when it can, and that it does not wait for ever. `FairSpec` of `Lifecycle`
assumes that a run goes on by itself and that a call under way ends, in failure if
the Worker never answers, since the SDK bounds its time and attempts.

## Findings

1. `py_client_escape`: a response cut in a chunk, or with a malformed status line,
   raises an `http.client.HTTPException` that `_request` does not catch. The call
   ends without a retry and without its generated key.
2. `go_client_expiry`: a context that ends during the backoff is returned as
   `ctx.Err()`, without the key of a command that may have been applied.
3. `go_client_unkeyed`: `ConfigureAddon` with an empty key is retried without one.
4. `file_inbox_power`: a process killed between `os.Link` and `directory.Sync`
   leaves an event that is visible and not durable; the redelivery syncs only the
   alias's directory and is acknowledged.
5. `file_inbox_repeat`: the payload read back was compacted by `json.Marshal`, so
   a repeat that finds its event but not its alias is refused, every time, unless
   its body was compact already.

Observations without a run of their own:

- A repeat under a second outbox ID leaves no row in SQLite, so that ID may be
  reused for another event unnoticed (the file inbox writes an alias and notices).
- Go's backoff computes `1 << (attempt-1)` times 100ms in 64 bits, which overflows
  from attempt 38 on and makes `rand.Int63n` panic.
- `mizan-go/examples/end_to_end/main.go:62` says an unchanged replay is safe, but
  `OccurredAt` is `time.Now()` (line 136), so a rerun after the consumption was
  applied meets its own key with another body (`ReuseHasACause`, second disjunct);
  `examples/README.md:41` names payment facts and the catalog only.
- A rerun whose consumption was applied but used up the balance ends as ineligible
  before it can ask for the recorded answer: the eligibility check comes first.
- An array or object as `type`, `rail` or `unit` raises `TypeError` in Python, and JSON
  on which `json.loads` raises a plain `ValueError` or `RecursionError` is not caught
  either (`UncalledErrorsRaise`): a 500, which the sender repeats until the item is a
  dead letter, where WEBHOOKS.md:43 says that malformed payloads are rejected.
- Python's `other_provider_charge` sends `provider` and `provider_event_id` of any
  length, since it validates metadata before it merges them; Go limits both.
  `BuildersDiffer` names it.
- When the Worker ends the export with `null`, the `last_sequence` the program
  prints is the cursor before the last page; an export resumed from it repeats that
  page and misses nothing.

## Proofs

All proofs are complete and rest on the named assumptions on constants only:
sentinels differ from ordinary values, `MaxAttempts` and `PageSize` are positive,
`Form` is idempotent, and of the sender of webhooks that it gives no two items one
identity and each item one place in one stream. The contract of the SDKs assumes of
its limits that `MaxInt` holds one unit in milliunits and that `MaxText` has room
for a currency and for `Meta`, that `Null`, `Empty` and what is absent are no values,
and of its inputs that they are members of `Delivery`, `IsUsage` and `IsPayment`. Nothing is assumed finite.

`PyClientProofs` proves `TypeCorrect`, `CommandsApplyAtMostOnce`,
`SuccessMeansApplied` and `NoKeyConflict` from one inductive invariant `IInv`, and
`FailureLeavesOneKey` from a second one on top (`KeyLeft`: what an exception handed
out is the key of the command's calls, and stays it).
`AtMostOnce` is not inductive: it has to be known that all calls of an operation
share one key and body (`Identity`) and that these are the ones stored (`Stored`),
that what is on the wire carries them (`Wire`), that a connection's answer is true
(`Connected`), and that an effect and a recorded key go together (`Ledgered`).

Its second part proves that `PyClient` implements `AtomicCommand`
(`ClientKeepsThePromise`), and `RefusalsAreFinal`. The invariant `JInv` adds
`Attempts` (an attempt is on the wire or answered, not both; a call refused at
once has nothing on the wire) and `Caused` (an effect was asked for by a call
that was not refused at once).

`GoClientProofs` proves the same of the Go loop (`TypeCorrect`,
`CommandsApplyAtMostOnce`, `FailureLeavesOneKey`), with contexts and with the
mutation that has no key: what the Python invariant says of the calls of a command
is said here of calls that were made (`Made`), and what it says of the Worker's
records, of those with a key.

Its second part proves that `GoClient` implements `AtomicCommand`
(`ClientKeepsThePromise`), and `RefusalsAreFinal`. The invariant `JInv` adds where the attempts of a call
are (`Placed`, `Outstanding`), that an answer `ok` speaks of an applied command
(`Truthful`), and that an effect was asked for by a call that was not refused at
once (`Caused`). `CallStepJ` says what one step of one call may do to these. An
attempt resent under a done context has neither a connection nor a request, so a
connection may only be behind the loop's counter by not being there; the effects
of mutations without a key are outside the promise.

`FileInboxProofs` proves `NoAliasDangles`, `AcknowledgedForGood`, `OutboxNamesOne`
and `InboxKeepsThePromise` for behaviours in which the power fails alone or not at
all (`Alone`); `file_inbox_power` shows that they are false otherwise. The
invariant follows the holder of the mutex from file to file (`Working`), says that
readable files fit together (`Formed`, `Indexed`), that whatever is not durable is
about to be synced by that holder (`Synced`), and that what was acknowledged is in
the index to stay (`Told`).

`SqliteInboxProofs` proves `TypeCorrect`, `RefusedOnlyForAClash` and
`InboxKeepsThePromise`. It rests on the write lock: only its holder is inside a
transaction (`Locked`), so what the INSERT found still holds when the transaction
commits or compares (`Judged`); rows are never removed, so a verdict and what was
told stay true (`Judged`, `Told`), and both indexes hold (`Unique`).

`WebhookDeliveryProofs` builds on it: `StreamsAreRecordedInOrder`,
`CollisionAlarmIsNeverFalse` and `DeliveryKeepsThePromise`.
`RecordedInOrder` is not inductive, because an attempt that the sender gave up may
be recorded much later. What is: every item anywhere inside the inbox had its turn
(`InLine`), and nothing is ever taken back from a delivered item (`Delivered`).

`LifecycleProofs` proves all safety properties of the `lifecycle` run. Whatever is on
the wire or in the ledger is a request that some run could have made (`Requests`):
its body is a catalog version there has been, the activation's place, or a run's
clock. The ledger has one entry of a command (`OneEntry`), so all that runs read of
a command is the same (`Reading`), and a conflict can only come from a body that
differs between runs (`Past`, `Cause`). `Exporting` ties the cursor to the length
of what was exported.

`WebhookReceiverProofs` is about the receivers' operators. Both receivers fold the
postings of an event into running balances, and the reference, `SumsToZero`, adds up
each rail and unit on its own. `BalancedIsExact` says that the two agree for any
number of postings. Such a statement takes induction, and the library's induction
theorems take an operator as a parameter, which the provers cannot instantiate; the
proof uses well-foundedness instead. Of the numbers (`NatLeast`), or of the subsets of
a finite set (`SubsetLeast`), for which a claim fails there would be a least one.
`FoldExists` shows by it that a fold's recursion defines a function, and `SumRemove`
that the order of the terms of a sum does not matter. The other lemmas decide the
lists of checks (`FirstFailingDecides`), one receiver at a time, and compare them
(`LedgersAgree`, `NotificationIs`, `AnswersAgree`).

`SdkContractProofs` proves all properties of the `sdk_contract` run. The invariant,
`Honest`, says that what an SDK has answered is what its operator makes of the input;
the properties are then facts about the operators:

- `TypeCorrect`, `LedgerBalancesExactly`, `ReceiversAgree`, `AuthenticationComesFirst`
  and `OnlyRaisingFails` rest on `WebhookReceiverProofs`.
- `QuantitiesAreExact`: multiplying, padding and parsing, as the code does, yields the
  sum of each digit times the value of its place (`FractionIsExact`), so the code's
  conditions on an amount are those of the reference (`CountIsExact`,
  `QuantityIsExact`); the rest of the facts does not depend on the amount
  (`RestIsTheSame`).
- `BuildersAgree`: facts outside `BuildersDiffer` have texts, attributes and metadata
  that Python and Go measure, validate and encode alike (`Ordinary`, `Plain`,
  `Narrow`), and stay so when
  the arguments are merged in (`MergeIsPlain`, `MergeIsValid`). Validating before the
  merge, as Python does, and after it, as Go does, comes to the same (`EvidenceAlike`).
- `ArgumentsAlwaysStand`: no later merge overwrites an argument (`MergeSays`), and Go's
  encoding drops none of them, since what is blank was refused (`WireSays`).

The run says of its inputs only that the SDKs differ nowhere else than
`ChecksDiffer`, `BuildersDiffer` and `PaymentsDiffer` say; `ReceiversAgree` and
`BuildersAgree` say it of all that the model tells apart: postings, texts, digits and
attributes of any number. What the decoders read differently, and what is listed
below, they do not compare.

Only model-checked: liveness under fairness, which is out of the prover's reach.

## Not modelled

- Payload contents the Worker computes: VAT, prices, lots, budgets. The clients pass
  them on. `feature_budget` builds a request and checks nothing.
- Facts of a wrong type given to a builder, which Go's compiler refuses.
- In the builders, where the SDKs differ too: Python tests `str(channel)` and converts
  `original_amount_minor` by `str`, so that values of other types pass which Go's
  types exclude; numbers and Booleans among the attributes are measured as `str` or
  `fmt.Sprint` writes them; `strip` takes U+001C to U+001F for blanks and
  `strings.TrimSpace` does not; capitals of some letters are two or more in Python
  (`ß`); texts with lone surrogates or broken UTF-8; the rendering of `occurred_at`.
  The proofs and the run say nothing of such facts.
- Which scalar each client method checks. `Invalid` stands for all of them.
- The log, headers other than the idempotency key, response decoding into types.
- `net/http` itself sends a request with an `Idempotency-Key` again when a reused
  connection fails before the first byte of an answer, within one attempt of the loop.
  In the model an attempt is one request, handled once. The second one has the same
  key and body, so the Worker's replay rules would keep the effect single as they do
  for the loop's own attempts; but a first attempt that was refused may then have an
  earlier copy under way, so `RefusalIsFinal` and the part of `KeepsThePromise` that
  calls such a refusal final are shown for a transport that sends an attempt once.
- In the file inbox: left-over temporary files, the Windows path without
  directory syncs, and the directories' own durability (`MkdirAll` does not sync
  the parent). In the SQLite inbox: the creation of the table.
- In the receivers: which bytes each decoder reads as what (the readings are
  independent, see "Receivers"), configuration errors, and a callback that changes the event it is given.
- Of the sender: the audit of an operator's retry, and the consumer's own cursor
  beyond the inbox (no code of the repository has one).
- In the end-to-end programs: the entitlement and summary reads, which decide
  nothing, and printing. The consumption examples: straight-line calls.
- The vocabulary, the typed dictionaries and the error classes: declarations.
- Go's backoff is a wait of any length; its width is an observation above.

## Plan

Done in this order, most important first: the Python loop with its proofs and
refinement, the Go loop, the inboxes, the receivers, the builders, the sender
before the SQLite inbox, the end-to-end programs, the proofs about what runs
concurrently, and those about the receivers' and builders' functions. What is left
would be:

1. `WebhookDelivery` before `FileInbox`, whose refused repeats
   (`file_inbox_repeat`) turn into dead letters that no retry cures.
