--------------------------- MODULE FileInboxProofs ---------------------------
(***************************************************************************)
(* As long as a power loss is the only fault there is, or none ever comes, *)
(* the file inbox is a durable inbox, for every value of the constants.    *)
(*                                                                         *)
(* The inductive invariant follows the holder of the mutex from file to    *)
(* file (Working), says that readable files fit together (Formed, Indexed) *)
(* and that, where a power loss can come, an entry that is not durable is  *)
(* one the holder is about to sync (Synced); so what a request was told,   *)
(* or is about to be told, rests on durable entries (Told).                *)
(***************************************************************************)
EXTENDS FileInbox, TLAPS

\* The power fails only where nothing else does.
Alone == "power" \in faults => faults = {"power"}

Power == "power" \in faults

Mutex == \A h \in Handlers : handler[h].pc \in Critical => lock = h

\* Records are in the form they are written in.
Formed == \A e \in Events : events[e] # NoBody => Form[events[e]] = events[e]

\* How far the holder of the mutex has come with its delivery.
Working ==
    \A h \in Handlers : handler[h].pc \in Critical =>
        LET d == handler[h].item
        IN  /\ At(h, "linkEvent") => events[d.event] = NoBody
            /\ ~At(h, "linkEvent") => events[d.event] = Form[d.body]
            /\ At(h, "linkAlias") /\ Power => d.event \in eventsKept
            /\ ~At(h, "syncOutbox") => aliases[d.outbox] = NoAlias
            /\ At(h, "syncOutbox") => aliases[d.outbox] = AliasOf(d)

\* An alias names a recorded event, and a durable one if that matters.
Indexed ==
    \A o \in Outbox : aliases[o] # NoAlias =>
        /\ events[aliases[o].event] = Form[aliases[o].body]
        /\ Power => aliases[o].event \in eventsKept

\* Only the holder of the mutex has anything left to sync.
Synced ==
    Power =>
        /\ \A e \in Events : events[e] # NoBody /\ e \notin eventsKept =>
                \E h \in Handlers : At(h, "syncEvents") /\ handler[h].item.event = e
        /\ \A o \in Outbox : aliases[o] # NoAlias /\ o \notin aliasesKept =>
                \E h \in Handlers : At(h, "syncOutbox") /\ handler[h].item.outbox = o

\* The delivery is in the index to stay.
Settled(d) == aliases[d.outbox] = AliasOf(d) /\ (Power => d.outbox \in aliasesKept)

Told ==
    /\ \A h \in Handlers : At(h, "accepted") => Settled(handler[h].item)
    /\ \A d \in acked : Settled(d)

IInv == TypeOK /\ Alone /\ Mutex /\ Formed /\ Working /\ Indexed /\ Synced /\ Told

-----------------------------------------------------------------------------
USE DeliveriesAssumption, FormAssumption, NoBodyAssumption, NoAliasAssumption,
    FreeAssumption, MaxSendsAssumption, FaultsAssumption
USE DEF Idle, Critical, Frame, At, Power

\* The initial states satisfy the inductive invariant and those of the promise.
LEMMA InitInv == Init /\ Alone => IInv /\ Promise!Init
<1> SUFFICES ASSUME Init, Alone PROVE IInv /\ Promise!Init
  OBVIOUS
<1> USE DEF Init
<1>1. TypeOK
  BY DEF TypeOK
<1>2. Mutex /\ Formed /\ Working /\ Indexed /\ Synced /\ Told
  BY DEF Mutex, Formed, Working, Indexed, Synced, Told
<1>3. Promise!Init
  BY DEF Promise!Init
<1> QED
  BY <1>1, <1>2, <1>3 DEF IInv

\* A request that is not idle has a delivery.
LEMMA Busy ==
    ASSUME TypeOK, NEW h \in Handlers, handler[h].pc # "idle"
    PROVE  /\ handler[h] \in Frame
           /\ handler[h].item \in Deliveries
           /\ handler[h].item.outbox \in Outbox
           /\ handler[h].item.event \in Events
           /\ handler[h].item.body \in Bodies
           /\ Form[handler[h].item.body] \in Bodies
<1>1. handler[h] \in Frame
  BY DEF TypeOK
<1>2. handler[h].item \in Deliveries
  BY <1>1
<1>3. handler[h].item \in [outbox : Outbox, event : Events, body : Bodies]
  BY <1>2
<1> QED
  BY <1>1, <1>2, <1>3

\* A request that moves on keeps its delivery; the others stay where they are.
LEMMA GotoFacts ==
    ASSUME TypeOK, NEW h \in Handlers, handler[h].pc # "idle",
           NEW pc \in {"persist", "accepted", "refused", "failed"} \cup Critical,
           Goto(h, pc)
    PROVE  /\ handler'[h].pc = pc
           /\ handler'[h].item = handler[h].item
           /\ \A g \in Handlers \ {h} : handler'[g] = handler[g]
           /\ handler' \in [Handlers -> Frame \cup {Idle}]
<1>1. handler[h] \in Frame
  BY Busy
<1>2. /\ handler'[h] = [handler[h] EXCEPT !.pc = pc]
      /\ \A g \in Handlers \ {h} : handler'[g] = handler[g]
  BY DEF Goto, TypeOK
<1>3. handler'[h] \in Frame
  BY <1>1, <1>2
<1>4. handler' \in [Handlers -> Frame \cup {Idle}]
  <2>1. ASSUME NEW g \in Handlers PROVE handler'[g] \in Frame \cup {Idle}
    BY <1>2, <1>3 DEF TypeOK
  <2> QED
    BY <2>1 DEF Goto, TypeOK
<1> QED
  BY <1>1, <1>2, <1>4

\* Where the mutex is free, everything readable is durable if it has to be.
LEMMA AllKept ==
    ASSUME IInv, Power, \A h \in Handlers : handler[h].pc \notin Critical
    PROVE  /\ \A e \in Events : events[e] # NoBody => e \in eventsKept
           /\ \A o \in Outbox : aliases[o] # NoAlias => o \in aliasesKept
BY DEF IInv, Synced

-----------------------------------------------------------------------------
\* Steps that touch no file only have to fit the requests to the files.
LEMMA NoFileInv ==
    ASSUME IInv, UNCHANGED <<disk, faults>>, TypeOK', Mutex', Working', Told',
           Power => \A h \in Handlers : handler[h].pc \in Critical => handler'[h] = handler[h]
    PROVE  IInv'
<1> USE DEF disk
<1>1. Alone' /\ Formed' /\ Indexed'
  BY DEF IInv, Alone, Formed, Indexed
<1>2. Synced'
  BY DEF IInv, Synced
<1> QED
  BY <1>1, <1>2 DEF IInv

LEMMA ReceiveInv ==
    ASSUME IInv, NEW h \in Handlers, NEW d \in Deliveries, Receive(h, d)
    PROVE  IInv'
<1> USE DEF disk
<1>0. TypeOK /\ handler[h].pc = "idle" /\ UNCHANGED <<disk, lock, acked, faults>>
  BY DEF IInv, Receive
<1>1. /\ handler'[h] = [pc |-> "persist", item |-> d]
      /\ \A g \in Handlers \ {h} : handler'[g] = handler[g]
  BY <1>0 DEF Receive, TypeOK
<1>2. TypeOK'
  <2>1. handler' \in [Handlers -> Frame \cup {Idle}]
    <3>1. [pc |-> "persist", item |-> d] \in Frame
      OBVIOUS
    <3> QED
      BY <1>0, <3>1 DEF Receive, TypeOK
  <2>2. sent' \in [Deliveries -> 0..MaxSends]
    BY <1>0 DEF Receive, TypeOK
  <2> QED
    BY <1>0, <2>1, <2>2 DEF TypeOK
<1>3. Mutex' /\ Working' /\ Told'
  <2>1. \A g \in Handlers : handler'[g].pc \in Critical \cup {"accepted"} => handler'[g] = handler[g]
    BY <1>1
  <2> QED
    BY <1>0, <2>1 DEF IInv, Mutex, Working, Told, Settled, AliasOf
<1>4. \A g \in Handlers : handler[g].pc \in Critical => handler'[g] = handler[g]
  BY <1>0, <1>1
<1> QED
  BY <1>0, <1>2, <1>3, <1>4, NoFileInv

\* The verdict fits the files: what is accepted at once, and what is written to.
LEMMA PersistInv ==
    ASSUME IInv, NEW h \in Handlers, Persist(h)
    PROVE  IInv'
<1> USE DEF disk
<1> DEFINE d == handler[h].item
           next == Verdict(d)
<1>0. /\ TypeOK /\ handler[h].pc = "persist" /\ lock = Free
      /\ UNCHANGED <<disk, sent, acked, faults>>
      /\ Goto(h, next)
      /\ lock' = IF next \in Critical THEN h ELSE Free
  BY DEF IInv, Persist
<1>1. next \in {"accepted", "refused", "linkEvent", "linkAlias"}
  BY DEF Verdict
<1>2. /\ handler'[h].pc = next
      /\ handler'[h].item = d
      /\ \A g \in Handlers \ {h} : handler'[g] = handler[g]
      /\ handler' \in [Handlers -> Frame \cup {Idle}]
  BY <1>0, <1>1, GotoFacts
<1>3. /\ d.outbox \in Outbox /\ d.event \in Events /\ d.body \in Bodies
      /\ d \in Deliveries
  BY <1>0, Busy
<1>4. \A g \in Handlers : handler[g].pc \notin Critical
  BY <1>0 DEF IInv, Mutex
<1>5. TypeOK'
  BY <1>0, <1>2 DEF TypeOK
<1>6. Mutex'
  BY <1>0, <1>2, <1>4 DEF Mutex
<1>7. Working'
  <2>1. CASE next = "linkEvent"
    <3>1. events[d.event] = NoBody /\ aliases[d.outbox] = NoAlias
      BY <2>1 DEF Verdict
    <3> QED
      BY <1>0, <1>2, <1>4, <2>1, <3>1 DEF Working
  <2>2. CASE next = "linkAlias"
    <3>1. events[d.event] = d.body /\ events[d.event] # NoBody /\ aliases[d.outbox] = NoAlias
      BY <2>2 DEF Verdict
    <3>2. events[d.event] = Form[d.body]
      BY <1>3, <3>1 DEF IInv, Formed
    <3>3. Power => d.event \in eventsKept
      BY <1>3, <1>4, <3>1, AllKept
    <3> QED
      BY <1>0, <1>2, <1>4, <2>2, <3>1, <3>2, <3>3 DEF Working
  <2>3. CASE next \in {"accepted", "refused"}
    BY <1>0, <1>2, <1>4, <2>3 DEF Working
  <2> QED
    BY <1>1, <2>1, <2>2, <2>3
<1>8. Told'
  <2>1. next = "accepted" => Settled(d)
    <3>1. next = "accepted" => aliases[d.outbox] = AliasOf(d)
      BY DEF Verdict
    <3>2. AliasOf(d) # NoAlias
      BY <1>3 DEF AliasOf
    <3> QED
      BY <1>3, <1>4, <3>1, <3>2, AllKept DEF Settled
  <2> QED
    BY <1>0, <1>2, <2>1 DEF IInv, Told, Settled, AliasOf
<1> QED
  BY <1>0, <1>4, <1>5, <1>6, <1>7, <1>8, NoFileInv

LEMMA FailInv ==
    ASSUME IInv, NEW h \in Handlers, Fail(h)
    PROVE  IInv'
<1> USE DEF disk
<1>0. /\ TypeOK /\ ~Power /\ handler[h].pc \in Critical \cup {"persist"}
      /\ UNCHANGED <<disk, sent, acked, faults>>
      /\ Goto(h, "failed")
      /\ lock' = IF lock = h THEN Free ELSE lock
  BY DEF IInv, Fail, Leave, Alone
<1>1. /\ handler'[h].pc = "failed"
      /\ \A g \in Handlers \ {h} : handler'[g] = handler[g]
      /\ handler' \in [Handlers -> Frame \cup {Idle}]
  BY <1>0, GotoFacts
<1>2. TypeOK'
  BY <1>0, <1>1 DEF TypeOK
<1>3. Mutex' /\ Working' /\ Told'
  <2>1. \A g \in Handlers : handler'[g].pc \in Critical \cup {"accepted"} => g # h /\ handler'[g] = handler[g]
    BY <1>1
  <2> QED
    BY <1>0, <2>1 DEF IInv, Mutex, Working, Told, Settled, AliasOf
<1> QED
  BY <1>0, <1>2, <1>3, NoFileInv

\* What is acknowledged was accepted, so it is in the index to stay.
LEMMA ReplyInv ==
    ASSUME IInv, NEW h \in Handlers, Reply(h)
    PROVE  IInv'
<1> USE DEF disk
<1>0. /\ TypeOK /\ handler[h].pc \notin Critical \cup {"idle"}
      /\ UNCHANGED <<disk, lock, sent, faults>>
      /\ acked' = IF handler[h].pc = "accepted" THEN acked \cup {handler[h].item} ELSE acked
      /\ handler' = [handler EXCEPT ![h] = Idle]
  BY DEF IInv, Reply
<1>1. /\ handler'[h] = Idle
      /\ \A g \in Handlers \ {h} : handler'[g] = handler[g]
  BY <1>0 DEF TypeOK
<1>2. TypeOK'
  <2>1. handler[h].item \in Deliveries
    BY <1>0, Busy
  <2> QED
    BY <1>0, <2>1 DEF TypeOK
<1>3. Mutex' /\ Working'
  <2>1. \A g \in Handlers : handler'[g].pc \in Critical => handler'[g] = handler[g]
    BY <1>1
  <2> QED
    BY <1>0, <2>1 DEF IInv, Mutex, Working, AliasOf
<1>4. Told'
  BY <1>0, <1>1 DEF IInv, Told, Settled, AliasOf
<1> QED
  BY <1>0, <1>1, <1>2, <1>3, <1>4, NoFileInv

LEMMA KillInv ==
    ASSUME IInv, Kill
    PROVE  IInv'
<1> USE DEF disk
<1>0. /\ TypeOK /\ ~Power /\ UNCHANGED <<disk, sent, acked, faults>>
      /\ lock' = Free /\ handler' = [h \in Handlers |-> Idle]
  BY DEF IInv, Kill, Alone
<1>1. TypeOK' /\ Mutex' /\ Working'
  BY <1>0 DEF TypeOK, Mutex, Working
<1>2. Told'
  BY <1>0 DEF IInv, Told, Settled, AliasOf
<1> QED
  BY <1>0, <1>1, <1>2, NoFileInv

-----------------------------------------------------------------------------
\* Only one request is between taking the mutex and its return.
LEMMA OneWorks ==
    ASSUME IInv, NEW h \in Handlers, handler[h].pc \in Critical
    PROVE  /\ lock = h
           /\ \A g \in Handlers \ {h} : handler[g].pc \notin Critical
BY DEF IInv, Mutex

\* The event file appears under a free name: the event is recorded.
LEMMA LinkEventInv ==
    ASSUME IInv, NEW h \in Handlers, LinkEvent(h)
    PROVE  IInv' /\ Promise!Record(handler[h].item)
<1> DEFINE d == handler[h].item
<1>1. handler[h].pc = "linkEvent" /\ TypeOK
  BY DEF IInv, LinkEvent
<1>2. /\ d \in Deliveries /\ d.outbox \in Outbox /\ d.event \in Events
      /\ d.body \in Bodies /\ Form[d.body] \in Bodies
  BY <1>1, Busy
<1>3. /\ lock = h
      /\ \A g \in Handlers \ {h} : handler[g].pc \notin Critical
      /\ events[d.event] = NoBody
      /\ aliases[d.outbox] = NoAlias
  BY <1>1, OneWorks DEF IInv, Working
<1>4. /\ events' = [events EXCEPT ![d.event] = Form[d.body]]
      /\ Goto(h, "syncEvents")
      /\ UNCHANGED <<lock, aliases, eventsKept, aliasesKept, sent, acked, faults>>
  BY <1>3 DEF LinkEvent
<1>5. /\ handler'[h].pc = "syncEvents"
      /\ handler'[h].item = d
      /\ \A g \in Handlers \ {h} : handler'[g] = handler[g]
      /\ handler' \in [Handlers -> Frame \cup {Idle}]
  BY <1>1, <1>4, GotoFacts
<1>6. /\ events'[d.event] = Form[d.body]
      /\ \A e \in Events \ {d.event} : events'[e] = events[e]
      /\ events' \in [Events -> Bodies \cup {NoBody}]
  BY <1>1, <1>2, <1>4 DEF TypeOK
<1>7. TypeOK'
  BY <1>1, <1>3, <1>4, <1>5, <1>6 DEF TypeOK
<1>8. Alone' /\ Mutex'
  BY <1>3, <1>4, <1>5 DEF IInv, Alone, Mutex
<1>9. Formed'
  BY <1>2, <1>6 DEF IInv, Formed
<1>10. Working'
  BY <1>3, <1>4, <1>5, <1>6 DEF Working
<1>11. Indexed'
  <2> SUFFICES ASSUME NEW o \in Outbox, aliases[o] # NoAlias
               PROVE  /\ events'[aliases[o].event] = Form[aliases[o].body]
                      /\ Power => aliases[o].event \in eventsKept
    BY <1>4 DEF Indexed
  <2>1. aliases[o] \in [event : Events, body : Bodies]
    BY <1>1 DEF TypeOK
  <2>2. events[aliases[o].event] = Form[aliases[o].body] /\ Form[aliases[o].body] \in Bodies
    BY <2>1 DEF IInv, Indexed
  <2>3. aliases[o].event # d.event
    BY <1>3, <2>2
  <2> QED
    BY <1>6, <2>1, <2>2, <2>3 DEF IInv, Indexed
<1>12. Synced'
  <2>1. ASSUME Power, NEW e \in Events, events'[e] # NoBody, e \notin eventsKept
        PROVE  \E g \in Handlers : handler'[g].pc = "syncEvents" /\ handler'[g].item.event = e
    <3>1. CASE e = d.event
      BY <1>5, <3>1
    <3>2. CASE e # d.event
      BY <1>1, <1>3, <1>6, <2>1, <3>2 DEF IInv, Synced
    <3> QED
      BY <3>1, <3>2
  <2>2. ASSUME Power, NEW o \in Outbox, aliases[o] # NoAlias, o \notin aliasesKept
        PROVE  \E g \in Handlers : handler'[g].pc = "syncOutbox" /\ handler'[g].item.outbox = o
    BY <1>1, <1>3, <2>2 DEF IInv, Synced
  <2> QED
    BY <1>4, <2>1, <2>2 DEF Synced
<1>13. Told'
  BY <1>4, <1>5 DEF IInv, Told, Settled, AliasOf
<1>14. Promise!Record(d)
  BY <1>3, <1>4 DEF Promise!Record
<1> QED
  BY <1>7, <1>8, <1>9, <1>10, <1>11, <1>12, <1>13, <1>14 DEF IInv

\* The directory of events is synced.
LEMMA SyncEventsInv ==
    ASSUME IInv, NEW h \in Handlers, SyncEvents(h)
    PROVE  IInv'
<1> DEFINE d == handler[h].item
<1>1. /\ handler[h].pc = "syncEvents" /\ TypeOK
      /\ eventsKept' = {e \in Events : events[e] # NoBody}
      /\ Goto(h, "linkAlias")
      /\ UNCHANGED <<events, aliases, aliasesKept, lock, sent, acked, faults>>
  BY DEF IInv, SyncEvents
<1>2. /\ d \in Deliveries /\ d.outbox \in Outbox /\ d.event \in Events
      /\ d.body \in Bodies /\ Form[d.body] \in Bodies
  BY <1>1, Busy
<1>3. /\ lock = h
      /\ \A g \in Handlers \ {h} : handler[g].pc \notin Critical
      /\ events[d.event] = Form[d.body]
      /\ aliases[d.outbox] = NoAlias
  BY <1>1, OneWorks DEF IInv, Working
<1>4. /\ handler'[h].pc = "linkAlias"
      /\ handler'[h].item = d
      /\ \A g \in Handlers \ {h} : handler'[g] = handler[g]
      /\ handler' \in [Handlers -> Frame \cup {Idle}]
  BY <1>1, GotoFacts
<1>5. d.event \in eventsKept' /\ eventsKept \subseteq eventsKept'
  BY <1>1, <1>2, <1>3 DEF TypeOK
<1>6. TypeOK'
  BY <1>1, <1>4 DEF TypeOK
<1>7. Alone' /\ Mutex' /\ Formed'
  BY <1>1, <1>3, <1>4 DEF IInv, Alone, Mutex, Formed
<1>8. Working'
  BY <1>1, <1>3, <1>4, <1>5 DEF Working
<1>9. Indexed'
  BY <1>1, <1>5 DEF IInv, Indexed
<1>10. Synced'
  BY <1>1, <1>3, <1>4 DEF IInv, Synced
<1>11. Told'
  BY <1>1, <1>4 DEF IInv, Told, Settled, AliasOf
<1> QED
  BY <1>6, <1>7, <1>8, <1>9, <1>10, <1>11 DEF IInv

\* The alias file appears under a free name.
LEMMA LinkAliasInv ==
    ASSUME IInv, NEW h \in Handlers, LinkAlias(h)
    PROVE  IInv' /\ UNCHANGED <<events, acked>>
<1> DEFINE d == handler[h].item
<1>1. handler[h].pc = "linkAlias" /\ TypeOK
  BY DEF IInv, LinkAlias
<1>2. /\ d \in Deliveries /\ d.outbox \in Outbox /\ d.event \in Events
      /\ d.body \in Bodies /\ Form[d.body] \in Bodies
  BY <1>1, Busy
<1>3. /\ lock = h
      /\ \A g \in Handlers \ {h} : handler[g].pc \notin Critical
      /\ events[d.event] = Form[d.body]
      /\ aliases[d.outbox] = NoAlias
      /\ Power => d.event \in eventsKept
  BY <1>1, OneWorks DEF IInv, Working
<1>4. /\ aliases' = [aliases EXCEPT ![d.outbox] = AliasOf(d)]
      /\ Goto(h, "syncOutbox")
      /\ UNCHANGED <<lock, events, eventsKept, aliasesKept, sent, acked, faults>>
  BY <1>3 DEF LinkAlias
<1>5. /\ handler'[h].pc = "syncOutbox"
      /\ handler'[h].item = d
      /\ \A g \in Handlers \ {h} : handler'[g] = handler[g]
      /\ handler' \in [Handlers -> Frame \cup {Idle}]
  BY <1>1, <1>4, GotoFacts
<1>6. AliasOf(d) = [event |-> d.event, body |-> d.body]
  BY DEF AliasOf
<1>7. /\ aliases'[d.outbox] = AliasOf(d)
      /\ \A o \in Outbox \ {d.outbox} : aliases'[o] = aliases[o]
      /\ aliases' \in [Outbox -> [event : Events, body : Bodies] \cup {NoAlias}]
  BY <1>1, <1>2, <1>4, <1>6 DEF TypeOK
<1>8. TypeOK'
  BY <1>1, <1>3, <1>4, <1>5, <1>7 DEF TypeOK
<1>9. Alone' /\ Mutex' /\ Formed'
  BY <1>3, <1>4, <1>5 DEF IInv, Alone, Mutex, Formed
<1>10. Working'
  BY <1>3, <1>4, <1>5, <1>7 DEF Working, AliasOf
<1>11. Indexed'
  <2> SUFFICES ASSUME NEW o \in Outbox, aliases'[o] # NoAlias
               PROVE  /\ events[aliases'[o].event] = Form[aliases'[o].body]
                      /\ Power => aliases'[o].event \in eventsKept
    BY <1>4 DEF Indexed
  <2>1. CASE o = d.outbox
    BY <1>3, <1>6, <1>7, <2>1
  <2>2. CASE o # d.outbox
    BY <1>7, <2>2 DEF IInv, Indexed
  <2> QED
    BY <2>1, <2>2
<1>12. Synced'
  <2>1. ASSUME Power, NEW e \in Events, events[e] # NoBody, e \notin eventsKept
        PROVE  \E g \in Handlers : handler'[g].pc = "syncEvents" /\ handler'[g].item.event = e
    BY <1>1, <1>3, <2>1 DEF IInv, Synced
  <2>2. ASSUME Power, NEW o \in Outbox, aliases'[o] # NoAlias, o \notin aliasesKept
        PROVE  \E g \in Handlers : handler'[g].pc = "syncOutbox" /\ handler'[g].item.outbox = o
    <3>1. CASE o = d.outbox
      BY <1>5, <3>1
    <3>2. CASE o # d.outbox
      BY <1>1, <1>3, <1>7, <2>2, <3>2 DEF IInv, Synced
    <3> QED
      BY <3>1, <3>2
  <2> QED
    BY <1>4, <2>1, <2>2 DEF Synced
<1>13. Told'
  <2>1. ASSUME NEW x \in Deliveries, Settled(x) PROVE Settled(x)'
    <3>1. AliasOf(x) # NoAlias /\ x.outbox \in Outbox
      BY DEF AliasOf
    <3>2. x.outbox # d.outbox
      BY <1>3, <2>1, <3>1 DEF Settled
    <3> QED
      BY <1>4, <1>7, <2>1, <3>1, <3>2 DEF Settled, AliasOf
  <2>2. \A g \in Handlers : handler'[g].pc = "accepted" =>
            /\ handler[g].pc = "accepted"
            /\ handler'[g].item = handler[g].item
            /\ handler[g].item \in Deliveries
    BY <1>1, <1>5, Busy
  <2>3. acked' = acked /\ acked \subseteq Deliveries
    BY <1>1, <1>4 DEF TypeOK
  <2> QED
    BY <2>1, <2>2, <2>3 DEF IInv, Told, Settled, AliasOf
<1> QED
  BY <1>4, <1>8, <1>9, <1>10, <1>11, <1>12, <1>13 DEF IInv

\* The directory of aliases is synced, and the delivery accepted.
LEMMA SyncOutboxInv ==
    ASSUME IInv, NEW h \in Handlers, SyncOutbox(h)
    PROVE  IInv' /\ UNCHANGED <<events, acked>>
<1> DEFINE d == handler[h].item
<1>1. /\ handler[h].pc = "syncOutbox" /\ TypeOK
      /\ aliasesKept' = {o \in Outbox : aliases[o] # NoAlias}
      /\ Goto(h, "accepted")
      /\ lock' = IF lock = h THEN Free ELSE lock
      /\ UNCHANGED <<events, aliases, eventsKept, sent, acked, faults>>
  BY DEF IInv, SyncOutbox, Leave
<1>2. d.outbox \in Outbox /\ d.event \in Events /\ d.body \in Bodies
  BY <1>1, Busy
<1>3. /\ lock' = Free
      /\ \A g \in Handlers \ {h} : handler[g].pc \notin Critical
      /\ aliases[d.outbox] = AliasOf(d)
  BY <1>1, OneWorks DEF IInv, Working
<1>4. /\ handler'[h].pc = "accepted"
      /\ handler'[h].item = d
      /\ \A g \in Handlers \ {h} : handler'[g] = handler[g]
      /\ handler' \in [Handlers -> Frame \cup {Idle}]
  BY <1>1, GotoFacts
<1>5. AliasOf(d) # NoAlias
  BY <1>2 DEF AliasOf
<1>6. d.outbox \in aliasesKept' /\ aliasesKept \subseteq aliasesKept'
  BY <1>1, <1>2, <1>3, <1>5 DEF TypeOK
<1>7. TypeOK'
  BY <1>1, <1>3, <1>4 DEF TypeOK
<1>8. Alone' /\ Mutex' /\ Formed' /\ Working' /\ Indexed'
  BY <1>1, <1>3, <1>4 DEF IInv, Alone, Mutex, Formed, Working, Indexed
<1>9. Synced'
  <2>1. ASSUME Power, NEW e \in Events, events[e] # NoBody, e \notin eventsKept PROVE FALSE
    BY <1>1, <1>3, <2>1 DEF IInv, Synced
  <2> QED
    BY <1>1, <2>1 DEF Synced
<1>10. Told'
  <2>1. ASSUME NEW g \in Handlers, handler'[g].pc = "accepted"
        PROVE  /\ aliases[handler'[g].item.outbox] = AliasOf(handler'[g].item)
               /\ Power => handler'[g].item.outbox \in aliasesKept'
    <3>1. CASE g = h
      <4>1. handler'[g].item = d
        BY <1>4, <3>1
      <4> QED
        BY <1>3, <1>6, <4>1
    <3>2. CASE g # h
      <4>1. handler'[g] = handler[g] /\ handler[g].pc = "accepted"
        BY <1>4, <2>1, <3>2
      <4>2. Settled(handler[g].item)
        BY <4>1 DEF IInv, Told
      <4> QED
        BY <1>6, <4>1, <4>2 DEF Settled
    <3> QED
      BY <3>1, <3>2
  <2>2. ASSUME NEW x \in acked
        PROVE  aliases[x.outbox] = AliasOf(x) /\ (Power => x.outbox \in aliasesKept')
    BY <1>6 DEF IInv, Told, Settled
  <2> QED
    BY <1>1, <2>1, <2>2 DEF Told, Settled, AliasOf
<1> QED
  BY <1>1, <1>7, <1>8, <1>9, <1>10 DEF IInv

\* A power loss takes nothing an alias or an answer rests on.
LEMMA PowerLossInv ==
    ASSUME IInv, PowerLoss
    PROVE  IInv' /\ \E S \in SUBSET Events : Promise!Lose(S)
<1>1. PICK es \in SUBSET {e \in Events : events[e] # NoBody},
           os \in SUBSET {o \in Outbox : aliases[o] # NoAlias} :
        /\ eventsKept \subseteq es
        /\ aliasesKept \subseteq os
        /\ events' = [e \in Events |-> IF e \in es THEN events[e] ELSE NoBody]
        /\ aliases' = [o \in Outbox |-> IF o \in os THEN aliases[o] ELSE NoAlias]
        /\ eventsKept' = es
        /\ aliasesKept' = os
  BY DEF PowerLoss
<1>2. /\ Power /\ TypeOK
      /\ handler' = [h \in Handlers |-> Idle]
      /\ lock' = Free
      /\ UNCHANGED <<sent, acked, faults>>
  BY DEF IInv, PowerLoss
<1>3. TypeOK'
  <2>1. events' \in [Events -> Bodies \cup {NoBody}]
    BY <1>1, <1>2 DEF TypeOK
  <2>2. aliases' \in [Outbox -> [event : Events, body : Bodies] \cup {NoAlias}]
    BY <1>1, <1>2 DEF TypeOK
  <2>3. eventsKept' \subseteq {e \in Events : events'[e] # NoBody}
    BY <1>1
  <2>4. aliasesKept' \subseteq {o \in Outbox : aliases'[o] # NoAlias}
    BY <1>1
  <2> QED
    BY <1>2, <2>1, <2>2, <2>3, <2>4 DEF TypeOK
<1>4. Alone' /\ Mutex' /\ Formed' /\ Working'
  BY <1>1, <1>2 DEF IInv, Alone, Mutex, Formed, Working
<1>5. Indexed'
  <2> SUFFICES ASSUME NEW o \in Outbox, aliases'[o] # NoAlias
               PROVE  /\ events'[aliases'[o].event] = Form[aliases'[o].body]
                      /\ aliases'[o].event \in eventsKept'
    BY DEF Indexed
  <2>1. o \in os /\ aliases'[o] = aliases[o] /\ aliases[o] # NoAlias
    BY <1>1
  <2>2. /\ events[aliases[o].event] = Form[aliases[o].body]
        /\ aliases[o].event \in eventsKept
    BY <1>2, <2>1 DEF IInv, Indexed
  <2>3. aliases[o].event \in es /\ aliases[o].event \in Events
    BY <1>1, <2>2
  <2> QED
    BY <1>1, <2>1, <2>2, <2>3
<1>6. Synced'
  BY <1>1 DEF Synced
<1>7. ASSUME NEW x \in acked
      PROVE  /\ aliases'[x.outbox] = AliasOf(x)
             /\ x.outbox \in aliasesKept'
             /\ x.event \in es
  <2>1. x.outbox \in Outbox /\ x.event \in Events /\ x.body \in Bodies
    <3>1. x \in [outbox : Outbox, event : Events, body : Bodies]
      BY <1>2 DEF TypeOK
    <3> QED
      BY <3>1
  <2>2. aliases[x.outbox] = AliasOf(x) /\ x.outbox \in aliasesKept
    BY <1>2 DEF IInv, Told, Settled
  <2>3. AliasOf(x) = [event |-> x.event, body |-> x.body] /\ AliasOf(x) # NoAlias
    BY <2>1 DEF AliasOf
  <2>4. x.event \in eventsKept
    BY <1>2, <2>1, <2>2, <2>3 DEF IInv, Indexed
  <2> QED
    BY <1>1, <2>1, <2>2, <2>4
<1>8. Told'
  BY <1>2, <1>7 DEF Told, Settled, AliasOf
<1>9. Promise!Lose(Events \ es)
  <2>1. events' = [e \in Events |-> IF e \in Events \ es THEN NoBody ELSE events[e]]
    BY <1>1
  <2> QED
    BY <1>2, <1>7, <2>1 DEF Promise!Lose
<1>10. Events \ es \in SUBSET Events
  OBVIOUS
<1> QED
  BY <1>3, <1>4, <1>5, <1>6, <1>8, <1>9, <1>10 DEF IInv

-----------------------------------------------------------------------------
\* A 204 is an acknowledgement the promise allows.
LEMMA ReplyPromise ==
    ASSUME IInv, NEW h \in Handlers, Reply(h)
    PROVE  UNCHANGED <<events, acked>> \/ \E d \in Deliveries : Promise!Acknowledge(d)
<1> DEFINE d == handler[h].item
<1>1. CASE ~At(h, "accepted")
  BY <1>1 DEF Reply, disk
<1>2. CASE At(h, "accepted")
  <2>1. /\ d \in Deliveries /\ d.outbox \in Outbox /\ d.event \in Events /\ d.body \in Bodies
    BY <1>2, Busy DEF IInv
  <2>2. /\ aliases[d.outbox] = AliasOf(d)
        /\ AliasOf(d) = [event |-> d.event, body |-> d.body]
        /\ AliasOf(d) # NoAlias
    BY <1>2, <2>1 DEF IInv, Told, Settled, AliasOf
  <2>3. events[d.event] = Form[d.body]
    BY <2>1, <2>2 DEF IInv, Indexed
  <2>4. acked' = acked \cup {d} /\ UNCHANGED events
    BY <1>2 DEF Reply, disk
  <2>5. Promise!Acknowledge(d)
    BY <2>3, <2>4 DEF Promise!Acknowledge
  <2> QED
    BY <2>1, <2>5
<1> QED
  BY <1>1, <1>2

\* Every step keeps the invariant, and is a step of the promise or invisible.
LEMMA NextInv == IInv /\ [Next]_vars => IInv' /\ [Promise!Next]_(Promise!vars)
<1> SUFFICES ASSUME IInv, [Next]_vars
             PROVE  IInv' /\ (Promise!Next \/ UNCHANGED <<events, acked>>)
  BY DEF Promise!vars
<1>1. ASSUME NEW h \in Handlers, NEW d \in Deliveries, Receive(h, d)
      PROVE  IInv' /\ UNCHANGED <<events, acked>>
  BY <1>1, ReceiveInv DEF Receive, disk
<1>2. ASSUME NEW h \in Handlers, Step(h)
      PROVE  IInv' /\ (Promise!Next \/ UNCHANGED <<events, acked>>)
  <2>1. CASE Persist(h)
    BY <2>1, PersistInv DEF Persist, disk
  <2>2. CASE LinkEvent(h)
    <3>1. handler[h].item \in Deliveries
      BY <2>2, Busy DEF IInv, LinkEvent
    <3> QED
      BY <2>2, <3>1, LinkEventInv DEF Promise!Next
  <2>3. CASE SyncEvents(h)
    BY <2>3, SyncEventsInv DEF SyncEvents
  <2>4. CASE LinkAlias(h)
    BY <2>4, LinkAliasInv
  <2>5. CASE SyncOutbox(h)
    BY <2>5, SyncOutboxInv
  <2>6. CASE Reply(h)
    BY <2>6, ReplyInv, ReplyPromise DEF Promise!Next
  <2> QED
    BY <1>2, <2>1, <2>2, <2>3, <2>4, <2>5, <2>6 DEF Step
<1>3. ASSUME NEW h \in Handlers, Fail(h) PROVE IInv' /\ UNCHANGED <<events, acked>>
  BY <1>3, FailInv DEF Fail, disk
<1>4. CASE Kill
  BY <1>4, KillInv DEF Kill, disk
<1>5. CASE PowerLoss
  BY <1>5, PowerLossInv DEF Promise!Next
<1>6. CASE UNCHANGED vars
  BY <1>6 DEF vars, disk, IInv, TypeOK, Alone, Mutex, Formed, Working, Indexed, Synced,
              Told, Settled, AliasOf
<1> QED
  BY <1>1, <1>2, <1>3, <1>4, <1>5, <1>6 DEF Next

LEMMA InductiveInvariant == Spec /\ Alone => []IInv
BY InitInv, NextInv, PTL DEF Spec

\* Every variable keeps its type.
THEOREM TypeCorrect == Spec /\ Alone => []TypeOK
<1>1. IInv => TypeOK
  BY DEF IInv
<1> QED
  BY <1>1, InductiveInvariant, PTL

\* The outbox index never names an event that is not recorded, unless processes
\* die and the power fails in one behaviour.
THEOREM NoAliasDangles == Spec /\ Alone => []NoDanglingAlias
<1>1. IInv => NoDanglingAlias
  BY DEF IInv, Indexed, NoDanglingAlias
<1> QED
  BY <1>1, InductiveInvariant, PTL

\* What was acknowledged is recorded for good, under the same restriction.
THEOREM AcknowledgedForGood == Spec /\ Alone => []AcknowledgedIsStored
<1>1. IInv => AcknowledgedIsStored
  <2> SUFFICES ASSUME IInv, NEW d \in acked PROVE events[d.event] = Form[d.body]
    BY DEF AcknowledgedIsStored
  <2>1. d \in [outbox : Outbox, event : Events, body : Bodies]
    BY DEF IInv, TypeOK
  <2>2. /\ aliases[d.outbox] = [event |-> d.event, body |-> d.body]
        /\ [event |-> d.event, body |-> d.body] # NoAlias
    BY <2>1 DEF IInv, Told, Settled, AliasOf
  <2> QED
    BY <2>1, <2>2 DEF IInv, Indexed
<1> QED
  BY <1>1, InductiveInvariant, PTL

\* One outbox ID is acknowledged for one event only, under the same restriction.
THEOREM OutboxNamesOne == Spec /\ Alone => []OutboxNamesOneEvent
<1>1. IInv => OutboxNamesOneEvent
  <2> SUFFICES ASSUME IInv, NEW a \in acked, NEW b \in acked, a.outbox = b.outbox
               PROVE  a.event = b.event /\ a.body = b.body
    BY DEF OutboxNamesOneEvent
  <2>1. [event |-> a.event, body |-> a.body] = [event |-> b.event, body |-> b.body]
    BY DEF IInv, Told, Settled, AliasOf
  <2> QED
    BY <2>1
<1> QED
  BY <1>1, InductiveInvariant, PTL

\* The two files, the mutex and the syncs implement the durable inbox.
THEOREM InboxKeepsThePromise == Spec /\ Alone => KeepsThePromise
<1>1. Init /\ Alone => Promise!Init
  BY InitInv
<1>2. IInv /\ [Next]_vars => [Promise!Next]_(Promise!vars)
  BY NextInv
<1> QED
  BY <1>1, <1>2, InductiveInvariant, PTL DEF Spec, KeepsThePromise, Promise!Spec
=============================================================================
