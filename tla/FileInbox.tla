------------------------------ MODULE FileInbox ------------------------------
(***************************************************************************)
(* The file inbox of the Go webhook receiver.  persist keeps an event file *)
(* and an alias file per outbox ID; each is published by linking a synced  *)
(* temporary file to its name and then syncing the directory.  Concurrent  *)
(* requests take turns through a mutex.  A call into the file system can   *)
(* fail, the process can be killed, and a power loss takes directory       *)
(* entries that were not synced.  The directories themselves are taken to  *)
(* exist durably.                                                          *)
(***************************************************************************)
EXTENDS Naturals, FiniteSets

CONSTANTS
    Deliveries,  \* what the sender may deliver: records of outbox, event and body
    Outbox,      \* outbox IDs
    Events,      \* event identities: stream and event ID
    Bodies,      \* raw payloads
    NoBody,      \* no event file
    NoAlias,     \* no alias file
    Form,        \* what json.Marshal makes of a raw payload: compact, HTML escaped
    Handlers,    \* concurrent requests
    Free,        \* nobody holds the mutex
    MaxSends,    \* how often the sender tries one delivery
    FaultModels  \* the sets of faults to be considered

ASSUME DeliveriesAssumption == Deliveries \subseteq [outbox : Outbox, event : Events, body : Bodies]
ASSUME FormAssumption == Form \in [Bodies -> Bodies] /\ \A b \in Bodies : Form[Form[b]] = Form[b]
ASSUME NoBodyAssumption == NoBody \notin Bodies
ASSUME NoAliasAssumption == NoAlias \notin [event : Events, body : Bodies]
ASSUME FreeAssumption == Free \notin Handlers
ASSUME MaxSendsAssumption == MaxSends \in Nat
ASSUME FaultsAssumption == FaultModels \subseteq SUBSET {"error", "kill", "power"}

VARIABLES
    events,      \* the event files one can read, each with its payload
    aliases,     \* the alias files one can read
    eventsKept,  \* events whose directory entry is durable
    aliasesKept, \* outbox IDs whose directory entry is durable
    lock,        \* holder of the mutex
    handler,     \* per request: where it is and what it delivers
    sent,        \* how often each delivery was sent
    acked,       \* deliveries answered with 204
    faults       \* what can go wrong in this behaviour

disk == <<events, aliases, eventsKept, aliasesKept>>
vars == <<disk, lock, handler, sent, acked, faults>>

Idle == [pc |-> "idle"]

\* Between taking the mutex for a write and the return.
Critical == {"linkEvent", "syncEvents", "linkAlias", "syncOutbox"}

Frame == [pc : {"persist", "accepted", "refused", "failed"} \cup Critical, item : Deliveries]

TypeOK ==
    /\ events \in [Events -> Bodies \cup {NoBody}]
    /\ aliases \in [Outbox -> [event : Events, body : Bodies] \cup {NoAlias}]
    /\ eventsKept \subseteq {e \in Events : events[e] # NoBody}
    /\ aliasesKept \subseteq {o \in Outbox : aliases[o] # NoAlias}
    /\ lock \in Handlers \cup {Free}
    /\ handler \in [Handlers -> Frame \cup {Idle}]
    /\ sent \in [Deliveries -> 0..MaxSends]
    /\ acked \subseteq Deliveries
    /\ faults \in FaultModels

Init ==
    /\ events = [e \in Events |-> NoBody]
    /\ aliases = [o \in Outbox |-> NoAlias]
    /\ eventsKept = {}
    /\ aliasesKept = {}
    /\ lock = Free
    /\ handler = [h \in Handlers |-> Idle]
    /\ sent = [d \in Deliveries |-> 0]
    /\ acked = {}
    /\ faults \in FaultModels

At(h, pc) == handler[h].pc = pc

Goto(h, pc) == handler' = [handler EXCEPT ![h].pc = pc]

-----------------------------------------------------------------------------
(* A request.                                                              *)

\* The sender delivers, for the first time or again: its last attempt failed,
\* timed out, or was answered and the answer lost.
Receive(h, d) ==
    /\ At(h, "idle")
    /\ sent[d] < MaxSends
    /\ sent' = [sent EXCEPT ![d] = @ + 1]
    /\ handler' = [handler EXCEPT ![h] = [pc |-> "persist", item |-> d]]
    /\ UNCHANGED <<disk, lock, acked, faults>>

\* Mutant: the digest of the payload is left out of the alias.
AliasOfEventOnly(d) == [event |-> d.event]

AliasOf(d) == [event |-> d.event, body |-> d.body]

\* Mutant: a repeated event under another outbox ID leaves no alias.
VerdictWithoutAlias(d) ==
    IF aliases[d.outbox] = AliasOf(d) THEN "accepted"
    ELSE IF aliases[d.outbox] # NoAlias THEN "refused"
    ELSE IF events[d.event] = NoBody THEN "linkEvent"
    ELSE IF events[d.event] = d.body THEN "accepted"
    ELSE "refused"

\* What persist does with a delivery, from the two files that may exist for it.
\* The payload read back is compared with the one received.
Verdict(d) ==
    IF aliases[d.outbox] = AliasOf(d) THEN "accepted"
    ELSE IF aliases[d.outbox] # NoAlias THEN "refused"
    ELSE IF events[d.event] = NoBody THEN "linkEvent"
    ELSE IF events[d.event] = d.body THEN "linkAlias"
    ELSE "refused"

\* Mutant: the mutex is not taken.
PersistWithoutLock(h) ==
    /\ At(h, "persist")
    /\ Goto(h, Verdict(handler[h].item))
    /\ UNCHANGED <<disk, lock, sent, acked, faults>>

\* The mutex is taken, both files are looked for, and held on to for a write.
Persist(h) ==
    /\ At(h, "persist")
    /\ lock = Free
    /\ LET next == Verdict(handler[h].item)
       IN  Goto(h, next) /\ lock' = IF next \in Critical THEN h ELSE Free
    /\ UNCHANGED <<disk, sent, acked, faults>>

\* persist returns and its deferred unlock runs.
Leave(h, pc) ==
    /\ Goto(h, pc)
    /\ lock' = IF lock = h THEN Free ELSE lock

\* writeOnce finds the name taken and the contents different, if only by
\* received_at: an error.
LinkEvent(h) ==
    LET d == handler[h].item
    IN  /\ At(h, "linkEvent")
        /\ IF events[d.event] # NoBody
           THEN Leave(h, "failed") /\ UNCHANGED events
           ELSE /\ events' = [events EXCEPT ![d.event] = Form[d.body]]
                /\ Goto(h, "syncEvents")
                /\ UNCHANGED lock
        /\ UNCHANGED <<aliases, eventsKept, aliasesKept, sent, acked, faults>>

\* Mutant: the directory is not synced.
SyncNothing(h) ==
    /\ At(h, "syncEvents")
    /\ Goto(h, "linkAlias")
    /\ UNCHANGED <<disk, lock, sent, acked, faults>>

\* Syncing a directory makes all its entries durable.
SyncEvents(h) ==
    /\ At(h, "syncEvents")
    /\ eventsKept' = {e \in Events : events[e] # NoBody}
    /\ Goto(h, "linkAlias")
    /\ UNCHANGED <<events, aliases, aliasesKept, lock, sent, acked, faults>>

\* writeOnce accepts a name that is taken by the same contents.
LinkAlias(h) ==
    LET d == handler[h].item
    IN  /\ At(h, "linkAlias")
        /\ IF aliases[d.outbox] # NoAlias
           THEN /\ Leave(h, IF aliases[d.outbox] = AliasOf(d) THEN "accepted" ELSE "failed")
                /\ UNCHANGED aliases
           ELSE /\ aliases' = [aliases EXCEPT ![d.outbox] = AliasOf(d)]
                /\ Goto(h, "syncOutbox")
                /\ UNCHANGED lock
        /\ UNCHANGED <<events, eventsKept, aliasesKept, sent, acked, faults>>

SyncOutbox(h) ==
    /\ At(h, "syncOutbox")
    /\ aliasesKept' = {o \in Outbox : aliases[o] # NoAlias}
    /\ Leave(h, "accepted")
    /\ UNCHANGED <<events, aliases, eventsKept, sent, acked, faults>>

\* The handler returned: 204, or 500 for an error.
Reply(h) ==
    /\ handler[h].pc \in {"accepted", "refused", "failed"}
    /\ acked' = IF At(h, "accepted") THEN acked \cup {handler[h].item} ELSE acked
    /\ handler' = [handler EXCEPT ![h] = Idle]
    /\ UNCHANGED <<disk, lock, sent, faults>>

-----------------------------------------------------------------------------
(* What can go wrong.                                                      *)

\* Mutant: the error path returns without unlocking.
FailHoldingLock(h) ==
    /\ "error" \in faults
    /\ handler[h].pc \in Critical
    /\ Goto(h, "failed")
    /\ UNCHANGED <<disk, lock, sent, acked, faults>>

\* A read, the making of the file, its link or the sync returns an error; what
\* was linked stays.
Fail(h) ==
    /\ "error" \in faults
    /\ handler[h].pc \in Critical \/ (At(h, "persist") /\ lock = Free)
    /\ Leave(h, "failed")
    /\ UNCHANGED <<disk, sent, acked, faults>>

\* The process dies and is started again.
Kill ==
    /\ "kill" \in faults
    /\ \E h \in Handlers : ~At(h, "idle")
    /\ handler' = [h \in Handlers |-> Idle]
    /\ lock' = Free
    /\ UNCHANGED <<disk, sent, acked, faults>>

\* The machine stops; of the entries not synced any may be gone afterwards.
PowerLoss ==
    /\ "power" \in faults
    /\ \E es \in SUBSET {e \in Events : events[e] # NoBody},
          os \in SUBSET {o \in Outbox : aliases[o] # NoAlias} :
        /\ eventsKept \subseteq es
        /\ aliasesKept \subseteq os
        /\ events' = [e \in Events |-> IF e \in es THEN events[e] ELSE NoBody]
        /\ aliases' = [o \in Outbox |-> IF o \in os THEN aliases[o] ELSE NoAlias]
        /\ eventsKept' = es
        /\ aliasesKept' = os
    /\ handler' = [h \in Handlers |-> Idle]
    /\ lock' = Free
    /\ UNCHANGED <<sent, acked, faults>>

-----------------------------------------------------------------------------
Step(h) == Persist(h) \/ LinkEvent(h) \/ SyncEvents(h) \/ LinkAlias(h) \/ SyncOutbox(h) \/ Reply(h)

Next ==
    \/ \E h \in Handlers, d \in Deliveries : Receive(h, d)
    \/ \E h \in Handlers : Step(h) \/ Fail(h)
    \/ Kill
    \/ PowerLoss

Spec == Init /\ [][Next]_vars

\* A running request goes on, and sync.Mutex hands itself on in turn.
FairSpec == Spec /\ \A h \in Handlers : WF_vars(Step(h))

-----------------------------------------------------------------------------
\* The outbox index never names an event that is not recorded: otherwise every
\* redelivery would be answered from the index and the event never stored.
NoDanglingAlias ==
    \A o \in Outbox : aliases[o] # NoAlias =>
        events[aliases[o].event] = Form[aliases[o].body]

\* main.go:3 says that an event is durably enqueued before the 204.  Then what
\* was acknowledged is recorded, also after a restart and a power loss.
AcknowledgedIsStored == \A d \in acked : events[d.event] = Form[d.body]

\* main_test.go:28: a repeated event identity is deduplicated.  Then a delivery
\* is not refused while its own event is recorded and its outbox ID is not taken
\* by another event.
RepeatsAreAccepted ==
    \A h \in Handlers : At(h, "refused") =>
        LET d == handler[h].item
        IN  ~(events[d.event] = Form[d.body] /\ aliases[d.outbox] \in {NoAlias, AliasOf(d)})

\* An outbox ID stands for one event: once a delivery was acknowledged under it,
\* another event that comes under it never is.  That outlasts restarts after kills,
\* and power losses where nothing was killed; after a kill, a power loss can take
\* the alias too.
OutboxNamesOneEvent ==
    \A a, b \in acked : a.outbox = b.outbox => a.event = b.event /\ a.body = b.body

Promise == INSTANCE WebhookInbox WITH records <- events

\* Under errors and kills, and under power losses that interrupt anything, the
\* two files and the mutex behave as one durable inbox.
KeepsThePromise == Promise!Spec

\* Every request that is not cut off by a crash is answered: no path out of
\* persist leaves the mutex behind.
RequestsAreAnswered == \A h \in Handlers : ~At(h, "idle") ~> At(h, "idle")
=============================================================================
