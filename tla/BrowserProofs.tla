--------------------------- MODULE BrowserProofs ----------------------------
(***************************************************************************)
(* What reaches the browser.  The first part proves the safety properties  *)
(* of Hub, the snapshots that are pushed, and that it implements Feed; the *)
(* second those of Timeline, the events that are asked for.  Every set of  *)
(* connections, agents and kinds of events, every limit and every bound is *)
(* meant.                                                                  *)
(***************************************************************************)
EXTENDS Hub, Timeline, Induction, SequenceTheorems, TLAPS

\* What ties a connection's registration, its state, its read loop and the
\* handler that accepted it together.
Connection(c) ==
  /\ pc[c] = "new" => conn[c] = "none" /\ c \notin upToDate
  /\ conn[c] = "none" <=> reader[c] = "none"
  /\ c \in clients => conn[c] \in {"open", "broken"} /\ reader[c] \in {"reading", "remove"}
  /\ reader[c] = "close" => conn[c] \in {"open", "broken"} /\ c \notin clients
  /\ conn[c] \in {"open", "broken"} => c \in clients \/ reader[c] = "close"
  /\ closes[c] = IF conn[c] = "closed" THEN 1 ELSE 0

\* The inductive invariant.
HubInv ==
  /\ TypeOK
  /\ \A c \in Clients : Connection(c)
  /\ StoreOutlivesCollector

\* No connection is there yet.
LEMMA InitInv == Init => HubInv
<1> SUFFICES ASSUME Init PROVE HubInv OBVIOUS
<1>1. \A c \in Clients : pc[c] = "new" /\ conn[c] = "none" /\ reader[c] = "none" /\ closes[c] = 0
  BY HubAssumption DEF Init, Pushers
<1>2. pc[Collector] = "write" BY DEF Init, Pushers
<1>3. pc \in [Pushers -> CollectorSteps \cup HandlerSteps]
  BY DEF Init, CollectorSteps, HandlerSteps
<1>4. TypeOK BY <1>1, <1>2, <1>3 DEF Init, TypeOK, CollectorSteps, HandlerSteps
<1>5. \A c \in Clients : Connection(c) BY <1>1 DEF Init, Connection
<1> QED BY <1>4, <1>5 DEF HubInv, StoreOutlivesCollector, Init

\* The steps of one connection.
LEMMA AddInv == ASSUME HubInv, NEW c \in Clients, Alive, Add(c) PROVE HubInv'
BY HubAssumption
   DEF HubInv, TypeOK, Connection, StoreOutlivesCollector, Pushers, CollectorSteps,
       HandlerSteps, Alive, Add, Goto, HubFree, process

\* The browser goes away.
LEMMA DisconnectInv == ASSUME HubInv, NEW c \in Clients, Alive, Disconnect(c) PROVE HubInv'
BY HubAssumption
   DEF HubInv, TypeOK, Connection, StoreOutlivesCollector, Pushers, CollectorSteps,
       HandlerSteps, Alive, Disconnect, process, pushing

\* The read loop fails, removes its client and closes the connection.
LEMMA ReaderInv ==
  ASSUME HubInv, NEW c \in Clients, Alive, ReadFails(c) \/ Remove(c) \/ RemoveCloses(c)
  PROVE  HubInv'
<1>1. CASE ReadFails(c)
  BY <1>1, HubAssumption
     DEF HubInv, TypeOK, Connection, StoreOutlivesCollector, Pushers, CollectorSteps,
         HandlerSteps, Alive, ReadFails, process, pushing
<1>2. CASE Remove(c)
  BY <1>2, HubAssumption
     DEF HubInv, TypeOK, Connection, StoreOutlivesCollector, Pushers, CollectorSteps,
         HandlerSteps, Alive, Remove, HubFree, process, pushing
<1>3. CASE RemoveCloses(c)
  BY <1>3, HubAssumption
     DEF HubInv, TypeOK, Connection, StoreOutlivesCollector, Pushers, CollectorSteps,
         HandlerSteps, Alive, RemoveCloses, CloseConn, process, pushing
<1> QED BY <1>1, <1>2, <1>3

\* The steps of one who pushes.
LEMMA PusherInv ==
  ASSUME HubInv, NEW p \in Pushers, Alive, ReadSnapshot(p) \/ ListFails(p) \/ Lock(p) \/ PushGoesOn(p)
  PROVE  HubInv'
<1>1. CASE ReadSnapshot(p) \/ ListFails(p)
  BY <1>1, HubAssumption
     DEF HubInv, TypeOK, Connection, StoreOutlivesCollector, Pushers, CollectorSteps,
         HandlerSteps, Alive, ReadSnapshot, ListFails, Goto, process, net
<1>2. CASE Lock(p)
  BY <1>2, HubAssumption
     DEF HubInv, TypeOK, Connection, StoreOutlivesCollector, Pushers, CollectorSteps,
         HandlerSteps, Alive, Lock, HubFree, process, net
<1>3. ASSUME NEW c \in Clients, Deliver(p, c) PROVE HubInv'
  BY <1>3, HubAssumption
     DEF HubInv, TypeOK, Connection, StoreOutlivesCollector, Pushers, CollectorSteps,
         HandlerSteps, Alive, Deliver, process
<1>4. ASSUME NEW c \in Clients, Fail(p, c) PROVE HubInv'
  BY <1>4, HubAssumption
     DEF HubInv, TypeOK, Connection, StoreOutlivesCollector, Pushers, CollectorSteps,
         HandlerSteps, Alive, Fail, CloseConn, process
<1>5. CASE Unlock(p)
  BY <1>5, HubAssumption
     DEF HubInv, TypeOK, Connection, StoreOutlivesCollector, Pushers, CollectorSteps,
         HandlerSteps, Alive, Unlock, Goto, process, net
<1> QED BY <1>1, <1>2, <1>3, <1>4, <1>5 DEF PushGoesOn

\* The other steps of the collector, and main's.
LEMMA ScanInv ==
  ASSUME HubInv, Alive,
         ScanWrites \/ ScanWritten \/ AnyoneListens \/ ScanStarts \/ CollectorStops
  PROVE  HubInv'
<1>1. CASE ScanWrites
  BY <1>1, HubAssumption
     DEF HubInv, TypeOK, Connection, StoreOutlivesCollector, Pushers, CollectorSteps,
         HandlerSteps, Alive, ScanWrites, process
<1>2. CASE ScanWritten \/ AnyoneListens \/ ScanStarts \/ CollectorStops
  BY <1>2, HubAssumption
     DEF HubInv, TypeOK, Connection, StoreOutlivesCollector, Pushers, CollectorSteps,
         HandlerSteps, Alive, ScanWritten, AnyoneListens, ScanStarts, CollectorStops,
         HubFree, Goto, process, net
<1> QED BY <1>1, <1>2

\* main is told to stop, waits for the collector and closes the store.
LEMMA MainInv == ASSUME HubInv, Alive, Signal \/ CloseStore PROVE HubInv'
<1>1. UNCHANGED <<pushing, net>>
  BY DEF Signal, CloseStore, pushing, net
<1>2. \A c \in Clients : Connection(c)'
  BY <1>1 DEF HubInv, Connection, pushing, net
<1>3. main' \in {"running", "cancelled", "closed"} /\ gaveUp' \in BOOLEAN
  <2>1. gaveUp \in BOOLEAN
    BY DEF HubInv, TypeOK
  <2>2. QED
    BY <2>1 DEF Signal, CloseStore, WaitOver
<1>4. TypeOK'
  BY <1>1, <1>3 DEF HubInv, TypeOK, pushing, net
<1>5. StoreOutlivesCollector'
  <2>1. CASE Signal
    BY <2>1 DEF StoreOutlivesCollector, Signal
  <2>2. CASE CloseStore
    <3>1. gaveUp' = (pc[Collector] # "stopped") /\ pc' = pc
      BY <1>1, <2>2 DEF CloseStore, WaitOver, pushing
    <3>2. QED
      BY <3>1 DEF StoreOutlivesCollector
  <2>3. QED
    BY <2>1, <2>2
<1>6. QED
  BY <1>2, <1>4, <1>5 DEF HubInv

\* Whatever leaves the variables alone.
LEMMA StutterInv == ASSUME HubInv, UNCHANGED vars PROVE HubInv'
BY DEF HubInv, TypeOK, Connection, StoreOutlivesCollector, vars, process, pushing, net

\* Every step of the hub's specification.
LEMMA NextInv == ASSUME HubInv, [Next]_vars PROVE HubInv'
<1>1. CASE Alive /\ Running
  BY <1>1, AddInv, DisconnectInv, ReaderInv, PusherInv, ScanInv, MainInv DEF Running
<1>2. CASE Exited \/ UNCHANGED vars
  BY <1>2, StutterInv DEF Exited
<1> QED BY <1>1, <1>2 DEF Next

\* The hub's invariant.
LEMMA Inductive == Spec => []HubInv
<1> QED BY InitInv, NextInv, PTL DEF Spec

\* Every variable has its type, and whoever pushes holds the hub's mutex and
\* writes to registered clients only.
THEOREM HubTypes == Spec => []TypeOK
<1>1. HubInv => TypeOK BY DEF HubInv
<1> QED BY <1>1, Inductive, PTL

\* A connection that has left the hub is closed, in whatever order Push and
\* the read loop removed it, and closed once; one that is registered is not.
THEOREM Removed == Spec => []RemovedAreClosed
<1>1. HubInv => RemovedAreClosed BY DEF HubInv, TypeOK, Connection, RemovedAreClosed
<1> QED BY <1>1, Inductive, PTL

\* The collector has stopped before the store is closed, unless main gave up.
THEOREM Outlives == Spec => []StoreOutlivesCollector
<1>1. HubInv => StoreOutlivesCollector BY DEF HubInv
<1> QED BY <1>1, Inductive, PTL
-----------------------------------------------------------------------------
(***************************************************************************)
(* The hub implements the feed.                                            *)
(***************************************************************************)

\* The initial states are those of the feed.
LEMMA InitFeed == Init => Abstract!Init
BY HubAssumption DEF Init, Abstract!Init, Subscription, Pushers

\* A connection is registered, served or let go: a step of its subscription,
\* or none.
LEMMA ClientFeed ==
  ASSUME HubInv, NEW c \in Clients, Alive,
         Add(c) \/ Disconnect(c) \/ ReadFails(c) \/ Remove(c) \/ RemoveCloses(c)
  PROVE  [Abstract!Next]_(Abstract!vars)
<1>1. CASE Add(c)
  <2>1. /\ c \notin clients /\ c \notin upToDate /\ c \in DOMAIN pc /\ pc[c] = "new"
    BY <1>1 DEF HubInv, TypeOK, Connection, Pushers, Add
  <2>2. /\ clients' = clients \cup {c} /\ pc' = [pc EXCEPT ![c] = "list"]
        /\ upToDate' = upToDate /\ main' = main
    BY <1>1 DEF Add, Goto, process
  <2>3. Subscription[c] = "new"
    BY <2>1 DEF Subscription
  <2>4. \A d \in Clients :
          Subscription'[d] = IF d = c THEN "subscribed" ELSE Subscription[d]
    BY <2>1, <2>2 DEF Subscription
  <2>5. Subscription' = [Subscription EXCEPT ![c] = "subscribed"]
    BY <2>4 DEF Subscription
  <2>6. upToDate' \cap clients' = upToDate \cap clients
    BY <2>1, <2>2
  <2>7. Abstract!Subscribe(c)
    BY <2>2, <2>3, <2>5, <2>6 DEF Abstract!Subscribe
  <2> QED BY <2>7 DEF Abstract!Next
<1>2. CASE Disconnect(c) \/ ReadFails(c) \/ RemoveCloses(c)
  BY <1>2
     DEF Disconnect, ReadFails, RemoveCloses, process, pushing, Subscription, Abstract!vars
<1>3. CASE Remove(c) /\ c \in clients
  <2>1. Abstract!End(c)
    BY <1>3 DEF HubInv, TypeOK, Connection, Pushers, Remove, process, pushing, Subscription,
                Abstract!End
  <2> QED BY <2>1 DEF Abstract!Next
<1>4. CASE Remove(c) /\ c \notin clients
  BY <1>4 DEF Remove, process, pushing, Subscription, Abstract!vars
<1> QED BY <1>1, <1>2, <1>3, <1>4

\* A Push shows one client something, or lets one go, at a time.
LEMMA PusherFeed ==
  ASSUME HubInv, NEW p \in Pushers, Alive,
         ReadSnapshot(p) \/ ListFails(p) \/ Lock(p) \/ PushGoesOn(p)
  PROVE  [Abstract!Next]_(Abstract!vars)
<1>1. CASE ReadSnapshot(p) \/ ListFails(p) \/ Unlock(p)
  <2>1. \A c \in Clients : pc'[c] = "new" <=> pc[c] = "new"
    BY <1>1, HubAssumption
       DEF HubInv, TypeOK, Pushers, ReadSnapshot, ListFails, Unlock, Goto, CollectorSteps,
           HandlerSteps
  <2> QED
    BY <1>1, <2>1 DEF ReadSnapshot, ListFails, Unlock, process, net, Subscription, Abstract!vars
<1>2. CASE Lock(p)
  BY <1>2 DEF Lock, process, net, Subscription, Abstract!vars
<1>3. ASSUME NEW c \in Clients, Deliver(p, c) PROVE [Abstract!Next]_(Abstract!vars)
  <2>1. c \in clients BY <1>3 DEF HubInv, TypeOK, Deliver
  <2>2. UNCHANGED <<Subscription, main = "running", clients>>
    BY <1>3 DEF Deliver, process, Subscription
  <2>3. CASE upToDate' = upToDate
    BY <2>2, <2>3 DEF Abstract!vars
  <2>4. CASE upToDate' = upToDate \cup {c}
    <3>1. Abstract!ShowLatest(c) BY <2>1, <2>2, <2>4 DEF Abstract!ShowLatest, Subscription
    <3> QED BY <3>1 DEF Abstract!Next
  <2>5. CASE upToDate' = upToDate \ {c}
    <3>1. Abstract!ShowOutdated(c) BY <2>1, <2>2, <2>5 DEF Abstract!ShowOutdated, Subscription
    <3> QED BY <3>1 DEF Abstract!Next
  <2> QED BY <1>3, <2>3, <2>4, <2>5 DEF Deliver
<1>4. ASSUME NEW c \in Clients, Fail(p, c) PROVE [Abstract!Next]_(Abstract!vars)
  <2>1. Abstract!End(c)
    BY <1>4 DEF HubInv, TypeOK, Connection, Pushers, Fail, CloseConn, process, Subscription,
                Abstract!End
  <2> QED BY <2>1 DEF Abstract!Next
<1> QED BY <1>1, <1>2, <1>3, <1>4 DEF PushGoesOn

\* The scan changes the tables; main stops the service.
LEMMA ScanFeed ==
  ASSUME HubInv, Alive,
         \/ ScanWrites \/ ScanWritten \/ AnyoneListens \/ ScanStarts \/ CollectorStops
         \/ Signal \/ CloseStore
  PROVE  [Abstract!Next]_(Abstract!vars)
<1>1. CASE ScanWrites
  <2>1. Abstract!Change BY <1>1 DEF ScanWrites, process, Subscription, Abstract!Change
  <2> QED BY <2>1 DEF Abstract!Next
<1>2. CASE ScanWritten \/ AnyoneListens \/ ScanStarts \/ CollectorStops
  <2>1. \A c \in Clients : pc'[c] = pc[c]
    BY <1>2, HubAssumption
       DEF HubInv, TypeOK, Pushers, ScanWritten, AnyoneListens, ScanStarts, CollectorStops,
           Goto
  <2> QED
    BY <1>2, <2>1
       DEF ScanWritten, AnyoneListens, ScanStarts, CollectorStops, process, net, Subscription,
           Abstract!vars
<1>3. CASE Signal
  <2>1. Abstract!Stop BY <1>3 DEF Signal, pushing, net, Subscription, Abstract!Stop
  <2> QED BY <2>1 DEF Abstract!Next
<1>4. CASE CloseStore
  BY <1>4 DEF CloseStore, WaitOver, pushing, net, Subscription, Abstract!vars
<1> QED BY <1>1, <1>2, <1>3, <1>4

\* Every step of the hub is one of the feed, or none.
LEMMA StepFeed == ASSUME HubInv, [Next]_vars PROVE [Abstract!Next]_(Abstract!vars)
<1>1. CASE Alive /\ Running BY <1>1, ClientFeed, PusherFeed, ScanFeed DEF Running
<1>2. CASE Exited \/ UNCHANGED vars
  BY <1>2 DEF Exited, vars, process, pushing, net, Subscription, Abstract!vars
<1> QED BY <1>1, <1>2 DEF Next

\* For every set of browsers, the hub, its handlers, the scan loop and main
\* together do nothing that the feed does not allow.
THEOREM RefinesFeed == Spec => ImplementsFeed
<1> QED BY InitFeed, StepFeed, Inductive, PTL DEF Spec, ImplementsFeed, Abstract!Safety
-----------------------------------------------------------------------------
(***************************************************************************)
(* The timeline: rows and answers.                                         *)
(***************************************************************************)
USE TimelineAssumption

\* The events of an agent.
Of(p) == {e \in Event : e.pid = p}

\* The rows that the query selects are rows of the agent.
LEMMA EventsAreOf ==
  ASSUME NEW table \in Seq(Event), NEW p
  PROVE  EventsOf(table, p) \in Seq(Of(p))
<1> DEFINE R == {table[n] : n \in 1..Len(table)} \cap Of(p)
<1>1. EventsOf(table, p) \in Seq(R)
  BY AmongIs DEF EventsOf, Of
<1>2. R \subseteq Of(p)
  OBVIOUS
<1> HIDE DEF R
<1>3. QED
  BY <1>1, <1>2

\* A sequence without its i-th element.
LEMMA WithoutOne ==
  ASSUME NEW T, NEW s \in Seq(T), NEW i \in 1..Len(s)
  PROVE  /\ SubSeq(s, 1, i - 1) \o SubSeq(s, i + 1, Len(s)) \in Seq(T)
         /\ Len(SubSeq(s, 1, i - 1) \o SubSeq(s, i + 1, Len(s))) = Len(s) - 1
<1>1. Len(s) \in Nat
  OBVIOUS
<1>2. PICK a : a = SubSeq(s, 1, i - 1)
  OBVIOUS
<1>3. PICK b : b = SubSeq(s, i + 1, Len(s))
  OBVIOUS
<1>4. a \in Seq(T) /\ Len(a) = i - 1
  BY <1>1, <1>2
<1>5. b \in Seq(T) /\ Len(b) = Len(s) - i
  BY <1>1, <1>3
<1>6. a \o b \in Seq(T) /\ Len(a \o b) = Len(s) - 1
  <2>1. a \o b \in Seq(T) /\ Len(a \o b) = Len(a) + Len(b)
    BY <1>4, <1>5, ConcatProperties
  <2>2. QED
    BY <1>1, <1>4, <1>5, <2>1
<1>7. QED
  BY <1>2, <1>3, <1>6

\* The last rows of a table.
LEMMA LastRows ==
  ASSUME NEW T, NEW s \in Seq(T), NEW i \in 1..Len(s) + 1
  PROVE  /\ SubSeq(s, i, Len(s)) \in Seq(T)
         /\ Len(SubSeq(s, i, Len(s))) = Len(s) - i + 1
         /\ \A j \in 1..Len(s) - i + 1 : SubSeq(s, i, Len(s))[j] = s[j + i - 1]
<1>1. Len(s) \in Nat
  OBVIOUS
<1>2. QED
  BY <1>1

\* What a monitor remembers, and what a visit reports.
Memory == [Kinds \cup {"state"} -> Details \cup {NoValue}]

\* What one visit passes to recordEvents: of its kinds, or of the state only.
LEMMA ReportIs ==
  ASSUME NEW src, NEW now \in Reports(src)
  PROVE  /\ now \in Memory /\ DOMAIN now = Kinds \cup {"state"}
         /\ src # "proc" => \A k \in Kinds : now[k] = NoValue
<1>1. CASE src = "proc"
  <2>1. PICK did \in [Kinds -> Values \cup {NoValue}] :
          now = [k \in Kinds \cup {"state"} |-> IF k = "state" THEN Needs ELSE did[k]]
    BY <1>1 DEF Reports
  <2>2. \A k \in Kinds \cup {"state"} :
          (IF k = "state" THEN Needs ELSE did[k]) \in Details \cup {NoValue}
    BY <2>1 DEF Details
  <2>3. QED
    BY <1>1, <2>1, <2>2 DEF Memory
<1>2. CASE src # "proc"
  <2>1. PICK state \in States : now = [NoPrev EXCEPT !["state"] = state]
    BY <1>2 DEF Reports
  <2>2. \A k \in Kinds : k # "state"
    OBVIOUS
  <2>3. QED
    BY <1>2, <2>1, <2>2 DEF NoPrev, Details, Memory
<1>3. QED
  BY <1>1, <1>2 DEF Memory

\* A new monitor remembers nothing.
LEMMA NoPrevType ==
  /\ NoPrev \in Memory
  /\ \A k \in Kinds : NoPrev[k] = NoValue
BY DEF NoPrev, Memory

\* What a monitor remembers of the kinds reported, and of the others.
LEMMA OverIs ==
  ASSUME NEW old \in Memory, NEW now \in Memory, NEW ks \in SUBSET DOMAIN now
  PROVE  /\ Over(old, now, ks) \in Memory
         /\ \A k \in DOMAIN now : Over(old, now, ks)[k] = IF k \in ks THEN now[k] ELSE old[k]
BY DEF Over, Memory

\* The rows that one visit adds.
AddedBy(m, now, news, added) ==
  /\ added \in Seq(Event)
  /\ \A i \in 1..Len(added) : /\ added[i].pid = m.pid
                              /\ added[i].kind \in news
                              /\ added[i].detail = now[added[i].kind]
  /\ \A k \in news : \E i \in 1..Len(added) : added[i].pid = m.pid /\ added[i].kind = k

\* In whatever order a visit records the kinds that changed, each of its rows is
\* of one of them and says what was reported, and each of them has a row.
LEMMA AddedIs ==
  ASSUME NEW m \in Monitors, NEW now \in Reports(m.src), NEW news \in SUBSET DOMAIN now,
         \A k \in news : now[k] # NoValue,
         NEW new, new = {[pid |-> m.pid, kind |-> k, detail |-> now[k]] : k \in news},
         NEW added \in Orders(new)
  PROVE  AddedBy(m, now, news, added)
<1>1. /\ DOMAIN now = Kinds \cup {"state"}
      /\ \A k \in DOMAIN now : now[k] \in Details \cup {NoValue}
  BY ReportIs DEF Memory
<1>2. m.pid \in Pids
  BY DEF Monitors, Pids
<1>3. \A k \in news : [pid |-> m.pid, kind |-> k, detail |-> now[k]] \in Event
  BY <1>1, <1>2 DEF Event
<1>4. new \subseteq Event
  BY <1>3
<1>5. Cardinality(new) \in Nat
  <2>1. IsFiniteSet(Kinds \cup {"state"})
    BY FS_AddElement
  <2>2. IsFiniteSet(news)
    BY <1>1, <2>1, FS_Subset
  <2> DEFINE f == [k \in news |-> [pid |-> m.pid, kind |-> k, detail |-> now[k]]]
  <2>3. IsFiniteSet(new)
    <3>1. f \in Surjection(news, new)
      BY DEF Surjection
    <3> HIDE DEF f
    <3>2. QED
      BY <2>2, <3>1, FS_Surjection
  <2>4. QED
    BY <2>3, FS_CardinalityType
<1>6. added \in [1..Cardinality(new) -> new] /\ \A e \in new : \E i \in DOMAIN added : added[i] = e
  BY DEF Orders
<1>7. added \in Seq(Event) /\ Len(added) = Cardinality(new) /\ DOMAIN added = 1..Len(added)
  <2>1. PICK n \in Nat : n = Cardinality(new)
    BY <1>5
  <2>2. added \in [1..n -> Event]
    BY <1>4, <1>6, <2>1
  <2>3. added \in Seq(Event)
    BY <2>2
  <2>4. Len(added) = n /\ DOMAIN added = 1..n
    BY <2>2
  <2>5. QED
    BY <2>1, <2>3, <2>4
<1>8. \A e \in new : e.pid = m.pid /\ e.kind \in news /\ e.detail = now[e.kind]
  OBVIOUS
<1>9. \A i \in 1..Len(added) : added[i] \in new
  BY <1>6, <1>7
<1>10. \A k \in news : [pid |-> m.pid, kind |-> k, detail |-> now[k]] \in new
  OBVIOUS
<1>11. ASSUME NEW k \in news
       PROVE  \E i \in 1..Len(added) : added[i].pid = m.pid /\ added[i].kind = k
  <2>1. PICK e \in new : e = [pid |-> m.pid, kind |-> k, detail |-> now[k]]
    BY <1>10
  <2>2. PICK i \in 1..Len(added) : added[i] = e
    BY <1>6, <1>7
  <2>3. e.pid = m.pid /\ e.kind = k
    BY <2>1
  <2>4. QED
    BY <2>2, <2>3
<1>12. QED
  BY <1>7, <1>8, <1>9, <1>11 DEF AddedBy

-----------------------------------------------------------------------------
(***************************************************************************)
(* The timeline: the inductive invariant.                                  *)
(***************************************************************************)

\* An answer holds events of the agent that was asked for, no more than Limit.
Answered == {r \in Request : r.answer \in Seq(Event) =>
                               r.answer \in Seq(Of(r.pid)) /\ Len(r.answer) <= Limit}

\* The panel shows what is in it only while an agent is open.
PanelInv ==
  /\ requests \in Seq(Answered)
  /\ view # "closed" => open # NoAgent
  /\ open # NoAgent /\ events # Null => events \in Seq(Of(open))

Proc(p) == [pid |-> p, src |-> "proc"]

\* The newest row of a process and a kind is what its monitor compares with, but
\* for what could not be inserted.
RecordInv ==
  \A p \in ProcPids :
    /\ prev[Proc(p)] = told[p]
    /\ \A k \in Kinds \ missed[p], i \in 1..Len(rows) :
         Newest(rows, i, p, k) /\ told[p][k] # NoValue => rows[i].detail = told[p][k]

TimelineInv == TimelineTypeOK /\ PanelInv /\ RecordInv

\* An empty table, monitors that remember nothing, and no agent open.
LEMMA TimelineStarts == TimelineInit => TimelineInv
<1> SUFFICES ASSUME TimelineInit
             PROVE  TimelineInv
  OBVIOUS
<1>1. rows = <<>> /\ Len(rows) = 0 /\ rows \in Seq(Event) /\ events \in Seq(Event)
      /\ Len(events) = 0 /\ requests \in Seq(Request) /\ Len(requests) = 0
      /\ requests \in Seq(Answered)
  BY DEF TimelineInit
<1>2. prev = [m \in Monitors |-> NoPrev] /\ told = [p \in ProcPids |-> NoPrev]
      /\ missed = [p \in ProcPids |-> {}]
  BY DEF TimelineInit
<1>3. TimelineTypeOK
  <2>1. /\ prev \in [Monitors -> Memory] /\ told \in [ProcPids -> Memory]
        /\ missed \in [ProcPids -> SUBSET Kinds]
    BY <1>2, NoPrevType
  <2>2. /\ Len(rows) <= MaxRows /\ Len(events) <= Limit /\ Len(requests) <= MaxRequests
        /\ 0 \in 0..MaxClicks
    BY <1>1
  <2>3. open = NoAgent /\ tab = "info" /\ eventsLoading = FALSE /\ asked = "none" /\ view = "closed"
        /\ clicks = 0
    BY DEF TimelineInit
  <2>4. QED
    BY <1>1, <2>1, <2>2, <2>3 DEF TimelineTypeOK, Memory
<1>4. PanelInv
  BY <1>1 DEF TimelineInit, PanelInv
<1>5. RecordInv
  <2>1. \A p \in ProcPids : Proc(p) \in Monitors
    BY DEF Proc, Monitors
  <2>2. QED
    BY <1>1, <1>2, <2>1 DEF RecordInv
<1>6. QED
  BY <1>3, <1>4, <1>5 DEF TimelineInv

\* What the page's handlers and answers leave alone.
LEMMA PageKeepsRecord ==
  ASSUME RecordInv, UNCHANGED scans
  PROVE  RecordInv'
BY DEF RecordInv, scans, Newest

\* What the scans leave alone.
LEMMA ScanKeepsPanel ==
  ASSUME PanelInv, UNCHANGED ofPage
  PROVE  PanelInv'
BY DEF PanelInv, ofPage

\* A visit records what has changed, as far as the insertions succeed.  Of a kind
\* that has not, the newest row stays the newest, and it is the one that the
\* monitor compared with.
LEMMA RecordKeeps ==
  ASSUME TimelineInv, NEW m \in Monitors, NEW now \in Reports(m.src), RecordEvents(m, now)
  PROVE  TimelineInv'
<1> USE DEF TimelineInv
<1> DEFINE said == {k \in DOMAIN now : now[k] # NoValue}
<1>1. PICK ch : ch = Changed(m, now)
  OBVIOUS
<1>16. PICK failed \in SUBSET ch :
         LET new == {[pid |-> m.pid, kind |-> k, detail |-> now[k]] : k \in ch \ failed}
         IN  /\ \E added \in Orders(new) :
                  Len(rows) + Len(added) <= MaxRows /\ rows' = rows \o added
             /\ prev' = [prev EXCEPT ![m] = Over(@, now, ch)]
             /\ IF m.src # "proc" THEN UNCHANGED <<told, missed>>
                ELSE /\ told' = [told EXCEPT ![m.pid] = Over(@, now, said)]
                     /\ missed' = [missed EXCEPT ![m.pid] = (@ \ ch) \cup (failed \cap Kinds)]
             /\ UNCHANGED ofPage
  BY <1>1 DEF RecordEvents
<1>17. PICK news : news = ch \ failed
  OBVIOUS
<1>2. PICK new : new = {[pid |-> m.pid, kind |-> k, detail |-> now[k]] : k \in news}
  OBVIOUS
<1>3. /\ prev' = [prev EXCEPT ![m] = Over(@, now, ch)]
      /\ told' = IF m.src # "proc" THEN told ELSE [told EXCEPT ![m.pid] = Over(@, now, said)]
      /\ missed' = IF m.src # "proc" THEN missed
                   ELSE [missed EXCEPT ![m.pid] = (@ \ ch) \cup (failed \cap Kinds)]
      /\ UNCHANGED ofPage
      /\ \E added \in Orders(new) : Len(rows) + Len(added) <= MaxRows /\ rows' = rows \o added
  BY <1>2, <1>16, <1>17
<1>4. PICK added \in Orders(new) : Len(rows) + Len(added) <= MaxRows /\ rows' = rows \o added
  BY <1>3
<1>5. now \in Memory /\ DOMAIN now = Kinds \cup {"state"} /\ (m.src # "proc" => \A k \in Kinds : now[k] = NoValue)
  BY ReportIs
<1>6. prev \in [Monitors -> Memory] /\ told \in [ProcPids -> Memory]
      /\ missed \in [ProcPids -> SUBSET Kinds]
  BY DEF TimelineTypeOK, Memory
<1>7. /\ ch \subseteq DOMAIN now
      /\ \A k \in DOMAIN now : k \in ch <=> now[k] # NoValue /\ now[k] # prev[m][k]
      /\ news \subseteq ch /\ news \subseteq DOMAIN now
  BY <1>1, <1>17 DEF Changed
<1>8. AddedBy(m, now, news, added)
  BY <1>2, <1>7, AddedIs
<1>9. /\ added \in Seq(Event)
      /\ \A i \in 1..Len(added) : /\ added[i].pid = m.pid /\ added[i].kind \in news
                                  /\ added[i].detail = now[added[i].kind]
      /\ \A k \in news : \E i \in 1..Len(added) : added[i].pid = m.pid /\ added[i].kind = k
  BY <1>8 DEF AddedBy
<1>10. /\ rows \in Seq(Event) /\ Len(rows) \in Nat /\ rows' \in Seq(Event)
       /\ Len(added) \in Nat /\ Len(rows') = Len(rows) + Len(added) /\ Len(rows') <= MaxRows
       /\ \A i \in 1..Len(rows) : rows'[i] = rows[i]
       /\ \A i \in 1..Len(added) : rows'[Len(rows) + i] = added[i]
  BY <1>4, <1>9 DEF TimelineTypeOK
<1>11. said \subseteq DOMAIN now /\ \A k \in DOMAIN now : k \in said <=> now[k] # NoValue
  OBVIOUS
<1> HIDE DEF said
<1>12. m.src = "proc" => m.pid \in ProcPids /\ m = Proc(m.pid)
  BY DEF Monitors, Proc
<1>13. TimelineTypeOK'
  <2>1. prev' \in [Monitors -> Memory]
    <3>1. Over(prev[m], now, ch) \in Memory
      BY <1>6, <1>5, <1>7, OverIs
    <3>2. QED
      BY <1>6, <1>3, <3>1
  <2>2. told' \in [ProcPids -> Memory]
    <3>1. m.src = "proc" => Over(told[m.pid], now, said) \in Memory
      BY <1>6, <1>5, <1>11, <1>12, OverIs
    <3>2. QED
      BY <1>6, <1>3, <1>12, <3>1
  <2>3. missed' \in [ProcPids -> SUBSET Kinds]
    BY <1>3, <1>6
  <2>4. QED
    BY <1>3, <1>10, <2>1, <2>2, <2>3 DEF TimelineTypeOK, ofPage, Memory
<1>14. RecordInv'
  <2> SUFFICES ASSUME NEW p \in ProcPids
               PROVE  /\ prev'[Proc(p)] = told'[p]
                      /\ \A k \in Kinds \ missed'[p], i \in 1..Len(rows') :
                           Newest(rows', i, p, k) /\ told'[p][k] # NoValue =>
                             rows'[i].detail = told'[p][k]
    BY DEF RecordInv
  <2>1. /\ Proc(p) \in Monitors /\ prev[Proc(p)] = told[p]
    BY DEF Proc, Monitors, RecordInv
  <2>2. CASE m = Proc(p)
    <3>1. m.src = "proc" /\ m.pid = p
      BY <2>2 DEF Proc
    <3>2. PICK old \in Memory : old = prev[m] /\ old = told[p]
      BY <1>6, <2>1, <2>2
    <3>3. prev'[m] = Over(old, now, ch) /\ told'[p] = Over(old, now, said)
          /\ missed'[p] = (missed[p] \ ch) \cup (failed \cap Kinds)
      BY <1>6, <1>3, <3>1, <3>2
    <3>4. Over(old, now, ch) = Over(old, now, said)
      <4>1. \A k \in DOMAIN now : (IF k \in ch THEN now[k] ELSE old[k]) = (IF k \in said THEN now[k] ELSE old[k])
        BY <1>7, <1>11, <3>2
      <4>2. QED
        BY <4>1 DEF Over
    <3>5. ASSUME NEW k \in Kinds \ missed'[p], NEW i \in 1..Len(rows'), Newest(rows', i, p, k),
                 told'[p][k] # NoValue
          PROVE  rows'[i].detail = told'[p][k]
      <4>0. (k \in ch <=> k \in news) /\ (k \notin ch => k \notin missed[p])
        BY <1>17, <3>3
      <4>5. told'[p][k] = IF k \in ch THEN now[k] ELSE told[p][k]
        BY <1>5, <1>7, <3>2, <3>3, <3>4, OverIs
      <4>1. told'[p][k] = IF k \in news THEN now[k] ELSE told[p][k]
        BY <4>0, <4>5
      <4>2. CASE i \in 1..Len(rows)
        <5>1. k \notin news
          <6> SUFFICES ASSUME k \in news
                       PROVE  FALSE
            OBVIOUS
          <6>1. PICK j \in 1..Len(added) : added[j].pid = p /\ added[j].kind = k
            BY <1>9, <3>1
          <6>2. Len(rows) + j \in i + 1..Len(rows') /\ rows'[Len(rows) + j] = added[j]
            BY <1>10, <4>2
          <6>3. QED
            BY <3>5, <6>1, <6>2 DEF Newest
        <5>2. Newest(rows, i, p, k)
          <6>1. \A j \in i + 1..Len(rows) : j \in i + 1..Len(rows') /\ rows'[j] = rows[j]
            BY <1>10, <4>2
          <6>2. QED
            BY <1>10, <3>5, <4>2, <6>1 DEF Newest
        <5>3. QED
          BY <1>10, <3>5, <4>0, <4>1, <4>2, <5>1, <5>2 DEF RecordInv
      <4>3. CASE i \notin 1..Len(rows)
        <5>1. PICK j \in 1..Len(added) : i = Len(rows) + j
          <6>1. i - Len(rows) \in 1..Len(added) /\ i = Len(rows) + (i - Len(rows))
            BY <1>10, <4>3
          <6>2. QED
            BY <6>1
        <5>2. rows'[i] = added[j] /\ added[j].kind \in news /\ added[j].detail = now[added[j].kind]
          BY <1>9, <1>10, <5>1
        <5>3. added[j].kind = k
          BY <3>5, <5>2 DEF Newest
        <5>4. QED
          BY <4>1, <5>2, <5>3
      <4>4. QED
        BY <4>2, <4>3
    <3>6. QED
      BY <2>2, <3>3, <3>4, <3>5
  <2>3. CASE m # Proc(p)
    <3>1. prev'[Proc(p)] = prev[Proc(p)]
      BY <1>6, <1>3, <2>1, <2>3
    <3>2. told'[p] = told[p] /\ missed'[p] = missed[p]
      BY <1>6, <1>3, <1>12, <2>1, <2>3
    <3>3. \A j \in 1..Len(added), k \in Kinds : added[j].pid # p \/ added[j].kind # k
      <4> SUFFICES ASSUME NEW j \in 1..Len(added), added[j].pid = p, added[j].kind \in Kinds
                   PROVE  FALSE
        OBVIOUS
      <4>1. m.pid = p /\ added[j].kind \in news
        BY <1>9
      <4>2. m.src # "proc"
        BY <1>12, <2>3, <4>1
      <4>3. QED
        BY <1>5, <1>7, <4>1, <4>2
    <3>4. ASSUME NEW k \in Kinds \ missed'[p], NEW i \in 1..Len(rows'), Newest(rows', i, p, k),
                 told'[p][k] # NoValue
          PROVE  rows'[i].detail = told'[p][k]
      <4>1. i \in 1..Len(rows)
        <5> SUFFICES ASSUME i \notin 1..Len(rows)
                     PROVE  FALSE
          OBVIOUS
        <5>1. i - Len(rows) \in 1..Len(added) /\ i = Len(rows) + (i - Len(rows))
          BY <1>10
        <5>2. rows'[i] = added[i - Len(rows)]
          BY <1>10, <5>1
        <5>3. QED
          BY <3>3, <3>4, <5>1, <5>2 DEF Newest
      <4>2. \A j \in i + 1..Len(rows) : j \in i + 1..Len(rows') /\ rows'[j] = rows[j]
        BY <1>10, <4>1
      <4>3. Newest(rows, i, p, k) /\ rows'[i] = rows[i]
        BY <1>10, <3>4, <4>1, <4>2 DEF Newest
      <4>4. QED
        BY <3>2, <3>4, <4>1, <4>3 DEF RecordInv
    <3>5. QED
      BY <2>1, <3>1, <3>2, <3>4
  <2>4. QED
    BY <2>2, <2>3
<1>15. QED
  BY <1>3, <1>13, <1>14, ScanKeepsPanel

\* The oldest rows go: the newest one of a kind, if any is left, is still the same.
LEMMA PruneKeeps ==
  ASSUME TimelineInv, PruneEvents
  PROVE  TimelineInv'
<1> USE DEF TimelineInv
<1>1. rows \in Seq(Event) /\ Len(rows) \in Nat /\ Len(rows) <= MaxRows
  BY DEF TimelineTypeOK
<1>2. PICK n \in 1..Len(rows) : rows' = SubSeq(rows, n + 1, Len(rows))
  BY DEF PruneEvents
<1>3. prev' = prev /\ told' = told /\ missed' = missed /\ UNCHANGED ofPage
  BY DEF PruneEvents
<1>4. /\ rows' \in Seq(Event) /\ Len(rows') = Len(rows) - n
      /\ \A j \in 1..Len(rows) - n : rows'[j] = rows[j + n]
  <2>1. n + 1 \in 1..Len(rows) + 1
    BY <1>1
  <2>2. /\ SubSeq(rows, n + 1, Len(rows)) \in Seq(Event)
        /\ Len(SubSeq(rows, n + 1, Len(rows))) = Len(rows) - (n + 1) + 1
        /\ \A j \in 1..Len(rows) - (n + 1) + 1 : SubSeq(rows, n + 1, Len(rows))[j] = rows[j + (n + 1) - 1]
    BY <1>1, <2>1, LastRows
  <2>3. \A j \in 1..Len(rows) - n : j + (n + 1) - 1 = j + n
    BY <1>1
  <2>4. Len(rows) - (n + 1) + 1 = Len(rows) - n
    BY <1>1
  <2>5. QED
    BY <1>2, <2>2, <2>3, <2>4
<1>5. TimelineTypeOK'
  <2>1. Len(rows') <= MaxRows
    BY <1>1, <1>4
  <2>2. QED
    BY <1>3, <1>4, <2>1 DEF TimelineTypeOK, ofPage
<1>6. RecordInv'
  <2> SUFFICES ASSUME NEW p \in ProcPids, NEW k \in Kinds \ missed[p], NEW i \in 1..Len(rows'),
                      Newest(rows', i, p, k), told[p][k] # NoValue
               PROVE  rows'[i].detail = told[p][k]
    BY <1>3 DEF RecordInv
  <2>1. i + n \in 1..Len(rows) /\ rows'[i] = rows[i + n]
    BY <1>1, <1>4
  <2>2. \A j \in (i + n) + 1..Len(rows) : j - n \in i + 1..Len(rows') /\ rows'[j - n] = rows[j]
    <3> SUFFICES ASSUME NEW j \in (i + n) + 1..Len(rows)
                 PROVE  j - n \in i + 1..Len(rows') /\ rows'[j - n] = rows[j]
      OBVIOUS
    <3>1. j - n \in i + 1..Len(rows') /\ j - n \in 1..Len(rows) - n /\ (j - n) + n = j
      BY <1>1, <1>4
    <3>2. QED
      BY <1>4, <3>1
  <2>3. Newest(rows, i + n, p, k)
    BY <2>1, <2>2 DEF Newest
  <2>4. QED
    BY <2>1, <2>3 DEF RecordInv
<1>7. QED
  BY <1>3, <1>5, <1>6, ScanKeepsPanel

\* A monitor that is dropped has said nothing: the old rows are no news of the
\* process that takes its pid.
LEMMA DropKeeps ==
  ASSUME TimelineInv, NEW m \in Monitors, Drop(m)
  PROVE  TimelineInv'
<1> USE DEF TimelineInv
<1>1. /\ prev' = [prev EXCEPT ![m] = NoPrev]
      /\ told' = IF m.src = "proc" THEN [told EXCEPT ![m.pid] = NoPrev] ELSE told
      /\ missed' = IF m.src = "proc" THEN [missed EXCEPT ![m.pid] = {}] ELSE missed
      /\ rows' = rows /\ UNCHANGED ofPage
  BY DEF Drop
<1>2. prev \in [Monitors -> Memory] /\ told \in [ProcPids -> Memory]
      /\ missed \in [ProcPids -> SUBSET Kinds]
  BY DEF TimelineTypeOK, Memory
<1>3. m.src = "proc" => m.pid \in ProcPids /\ m = Proc(m.pid)
  BY DEF Monitors, Proc
<1>4. prev' \in [Monitors -> Memory] /\ told' \in [ProcPids -> Memory]
      /\ missed' \in [ProcPids -> SUBSET Kinds]
  BY <1>1, <1>2, NoPrevType
<1>5. TimelineTypeOK'
  BY <1>1, <1>4 DEF TimelineTypeOK, ofPage, Memory
<1>6. RecordInv'
  <2> SUFFICES ASSUME NEW p \in ProcPids
               PROVE  /\ prev'[Proc(p)] = told'[p]
                      /\ \A k \in Kinds \ missed'[p], i \in 1..Len(rows) :
                           Newest(rows, i, p, k) /\ told'[p][k] # NoValue =>
                             rows[i].detail = told'[p][k]
    BY <1>1 DEF RecordInv
  <2>1. Proc(p) \in Monitors
    BY DEF Proc, Monitors
  <2>2. CASE m = Proc(p)
    <3>1. m.src = "proc" /\ m.pid = p
      BY <2>2 DEF Proc
    <3>2. prev'[m] = NoPrev /\ told'[p] = NoPrev
      BY <1>1, <1>2, <3>1
    <3>3. QED
      BY <2>2, <3>2, NoPrevType
  <2>3. CASE m # Proc(p)
    <3>1. prev'[Proc(p)] = prev[Proc(p)] /\ told'[p] = told[p] /\ missed'[p] = missed[p]
      BY <1>1, <1>2, <1>3, <2>1, <2>3
    <3>2. QED
      BY <3>1 DEF RecordInv
  <2>4. QED
    BY <2>2, <2>3
<1>7. QED
  BY <1>1, <1>5, <1>6, ScanKeepsPanel

\* /api/events answers with events of the agent asked for, if at all.
LEMMA AnswerIs ==
  ASSUME TimelineTypeOK, NEW p, NEW a, a \in {RecentEvents(p), Failed}
  PROVE  a \in {Failed, Null} \/ (a \in Seq(Of(p)) /\ Len(a) <= Limit)
<1>1. CASE a = Failed
  BY <1>1
<1>2. CASE a = RecentEvents(p)
  <2>1. PICK mine \in Seq(Of(p)) : mine = EventsOf(rows, p)
    BY EventsAreOf DEF TimelineTypeOK
  <2>2. PICK from : from = IF Len(mine) > Limit THEN Len(mine) - Limit + 1 ELSE 1
    OBVIOUS
  <2>3. RecentEvents(p) = IF mine = <<>> THEN Null ELSE SubSeq(mine, from, Len(mine))
    BY <2>1, <2>2 DEF RecentEvents
  <2>4. Len(mine) \in Nat /\ Limit \in Nat /\ Limit > 0
    OBVIOUS
  <2>5. CASE mine # <<>>
    <3>1. from \in 1..Len(mine) + 1 /\ Len(mine) - from + 1 <= Limit
      <4>1. Len(mine) > 0
        BY <2>5
      <4>2. QED
        BY <2>2, <2>4, <4>1
    <3>2. PICK b : b = SubSeq(mine, from, Len(mine))
      OBVIOUS
    <3>3. b \in Seq(Of(p)) /\ Len(b) = Len(mine) - from + 1
      BY <3>1, <3>2, LastRows
    <3>4. QED
      BY <1>2, <2>3, <2>5, <3>1, <3>2, <3>3
  <2>6. QED
    BY <1>2, <2>3, <2>5
<1>3. QED
  BY <1>1, <1>2

\* The events of an agent are events.
LEMMA OfIsEvent == \A p : Seq(Of(p)) \subseteq Seq(Event)
<1>1. \A p : Of(p) \subseteq Event
  BY DEF Of
<1>2. QED
  BY <1>1

\* The server answers a request.
LEMMA ServeKeeps ==
  ASSUME TimelineInv, NEW i \in DOMAIN requests, Serve(i)
  PROVE  TimelineInv'
<1> USE DEF TimelineInv
<1>1. PICK r : r = requests[i]
  OBVIOUS
<1>2. PICK a \in {RecentEvents(r.pid), Failed} : requests' = [requests EXCEPT ![i].answer = a]
  BY <1>1 DEF Serve
<1>3. UNCHANGED <<scans, open, tab, events, eventsLoading, asked, view, clicks>>
  BY DEF Serve
<1>4. /\ requests \in Seq(Answered) /\ i \in 1..Len(requests) /\ r \in Answered
      /\ Len(requests) \in Nat /\ Len(requests) <= MaxRequests
  BY <1>1 DEF PanelInv, TimelineTypeOK
<1>5. a \in {Failed, Null} \/ (a \in Seq(Of(r.pid)) /\ Len(a) <= Limit)
  BY <1>2, AnswerIs
<1>6. a \in {Pending, Failed, Null} \cup Seq(Event)
  BY <1>5, OfIsEvent
<1>7. [r EXCEPT !.answer = a] \in Answered
  <2>1. PICK s : s = [r EXCEPT !.answer = a]
    OBVIOUS
  <2>2. s \in Request /\ s.pid = r.pid /\ s.answer = a
    BY <1>4, <1>6, <2>1 DEF Answered, Request
  <2>3. a \in Seq(Event) => a \in Seq(Of(r.pid)) /\ Len(a) <= Limit
    BY <1>5
  <2>4. QED
    BY <2>1, <2>2, <2>3 DEF Answered
<1>8. requests' = [requests EXCEPT ![i] = [r EXCEPT !.answer = a]]
  BY <1>1, <1>2
<1>9. requests' \in Seq(Answered) /\ Len(requests') = Len(requests)
  BY <1>4, <1>7, <1>8
<1>10. PanelInv'
  BY <1>3, <1>9 DEF PanelInv
<1>11. TimelineTypeOK'
  <2>1. requests' \in Seq(Request)
    <3>1. Answered \subseteq Request
      BY DEF Answered
    <3>2. QED
      BY <1>9, <3>1
  <2>2. QED
    BY <1>3, <1>4, <1>9, <2>1 DEF TimelineTypeOK, scans
<1>12. QED
  BY <1>3, <1>10, <1>11, PageKeepsRecord

\* After every handler the panel shows one of its views, and none of them if
\* no agent is open.
LEMMA RenderedIs ==
  ASSUME view' = Rendered
  PROVE  /\ view' \in {"closed", "info", "loading", "nothing", "empty", "list"}
         /\ view' # "closed" => open' # NoAgent
BY DEF Rendered

\* The page takes an answer, if it is one for the agent that is open.
LEMMA ReceiveKeeps ==
  ASSUME TimelineInv, NEW i \in DOMAIN requests, Receive(i)
  PROVE  TimelineInv'
<1> USE DEF TimelineInv
<1>1. PICK r : r = requests[i]
  OBVIOUS
<1>2. /\ r.answer # Pending
      /\ events' = IF ~Accepted(r.pid) THEN events
                   ELSE IF r.answer = Failed THEN <<>> ELSE r.answer
      /\ eventsLoading' = LoadingAfter(r)
      /\ requests' = SubSeq(requests, 1, i - 1) \o SubSeq(requests, i + 1, Len(requests))
      /\ UNCHANGED <<scans, open, tab, asked, clicks>>
      /\ view' = Rendered
  BY <1>1 DEF Receive
<1>3. /\ requests \in Seq(Answered) /\ i \in 1..Len(requests) /\ r \in Answered
      /\ Len(requests) \in Nat /\ Len(requests) <= MaxRequests
  BY <1>1 DEF PanelInv, TimelineTypeOK
<1>4. requests' \in Seq(Answered) /\ Len(requests') = Len(requests) - 1
  BY <1>2, <1>3, WithoutOne
<1>5. PanelInv' /\ (events' = Null \/ (events' \in Seq(Event) /\ Len(events') <= Limit))
  <2>1. CASE ~Accepted(r.pid)
    <3>1. events' = events
      BY <1>2, <2>1
    <3>2. PanelInv'
      BY <1>2, <1>4, <3>1, RenderedIs DEF PanelInv
    <3>3. QED
      BY <3>1, <3>2 DEF TimelineTypeOK
  <2>2. CASE Accepted(r.pid)
    <3>1. open = r.pid /\ events' = IF r.answer = Failed THEN <<>> ELSE r.answer
      BY <1>2, <2>2 DEF Accepted
    <3>2. r.answer \in {Failed, Null} \/ (r.answer \in Seq(Of(open)) /\ Len(r.answer) <= Limit)
      BY <1>2, <1>3, <3>1 DEF Answered, Request
    <3>3. events' = Null \/ (events' \in Seq(Of(open)) /\ Len(events') <= Limit)
      <4>1. <<>> \in Seq(Of(open)) /\ Len(<<>>) <= Limit
        OBVIOUS
      <4>2. QED
        BY <3>1, <3>2, <4>1
    <3>4. PanelInv'
      BY <1>2, <1>4, <3>3, RenderedIs DEF PanelInv
    <3>5. QED
      BY <3>3, <3>4, OfIsEvent
  <2>3. QED
    BY <2>1, <2>2
<1>6. TimelineTypeOK'
  <2>1. requests' \in Seq(Request) /\ Len(requests') <= MaxRequests
    <3>1. Answered \subseteq Request
      BY DEF Answered
    <3>2. QED
      BY <1>3, <1>4, <3>1
  <2>2. eventsLoading' \in BOOLEAN
    BY <1>2 DEF LoadingAfter, TimelineTypeOK
  <2>3. view' \in {"closed", "info", "loading", "nothing", "empty", "list"}
    BY <1>2, RenderedIs
  <2>4. QED
    BY <1>2, <1>5, <2>1, <2>2, <2>3 DEF TimelineTypeOK, scans
<1>7. QED
  BY <1>2, <1>5, <1>6, PageKeepsRecord

\* A click that leaves the events of the panel as they are, or opens an agent
\* with an empty panel.
LEMMA ClickKeeps ==
  ASSUME TimelineInv, Click, view' = Rendered,
         open' \in Pids \cup {NoAgent}, tab' \in {"info", "timeline"},
         (open' = open /\ events' = events) \/ (open' = NoAgent /\ events' = events) \/ events' = <<>>,
         eventsLoading' \in BOOLEAN, asked' \in {"none", "tab", "filter"},
         requests' = requests \/ \E pid \in Pids \cup {Undefined} : LoadEvents(pid)
  PROVE  TimelineInv'
<1> USE DEF TimelineInv
<1>1. UNCHANGED scans /\ clicks' \in 0..MaxClicks
  BY DEF Click, TimelineTypeOK
<1>2. requests' \in Seq(Answered) /\ Len(requests') <= MaxRequests
  <2>1. requests \in Seq(Answered) /\ Len(requests) <= MaxRequests /\ Len(requests) \in Nat
    BY DEF PanelInv, TimelineTypeOK
  <2>2. CASE requests' = requests
    BY <2>1, <2>2
  <2>3. ASSUME NEW pid \in Pids \cup {Undefined}, LoadEvents(pid)
        PROVE  requests' \in Seq(Answered) /\ Len(requests') <= MaxRequests
    <3>1. PICK r : r = [pid |-> pid, answer |-> Pending]
      OBVIOUS
    <3>2. r \in Request /\ r.answer = Pending
      BY <3>1 DEF Request
    <3>3. r \in Answered
      BY <3>2 DEF Answered
    <3>4. requests' = Append(requests, r) /\ Len(requests) < MaxRequests
      BY <2>3, <3>1 DEF LoadEvents
    <3>5. QED
      BY <2>1, <3>3, <3>4
  <2>4. QED
    BY <2>2, <2>3
<1>3. PanelInv'
  <2>1. open' # NoAgent /\ events' # Null => events' \in Seq(Of(open'))
    <3>1. CASE events' = <<>>
      BY <3>1
    <3>2. CASE open' = open /\ events' = events
      BY <3>2 DEF PanelInv
    <3>3. QED
      BY <3>1, <3>2
  <2>2. QED
    BY <1>2, <2>1, RenderedIs DEF PanelInv
<1>4. TimelineTypeOK'
  <2>1. requests' \in Seq(Request)
    <3>1. Answered \subseteq Request
      BY DEF Answered
    <3>2. QED
      BY <1>2, <3>1
  <2>2. events' = Null \/ (events' \in Seq(Event) /\ Len(events') <= Limit)
    <3>1. <<>> \in Seq(Event) /\ Len(<<>>) <= Limit
      OBVIOUS
    <3>2. QED
      BY <3>1 DEF TimelineTypeOK
  <2>3. view' \in {"closed", "info", "loading", "nothing", "empty", "list"}
    BY RenderedIs
  <2>4. QED
    BY <1>1, <1>2, <2>1, <2>2, <2>3 DEF TimelineTypeOK, scans
<1>5. QED
  BY <1>1, <1>3, <1>4, PageKeepsRecord

\* Every step of the timeline's specification.
LEMMA TimelineStep == TimelineInv /\ [TimelineNext]_timelineVars => TimelineInv'
<1> SUFFICES ASSUME TimelineInv, [TimelineNext]_timelineVars
             PROVE  TimelineInv'
  OBVIOUS
<1>1. ASSUME NEW m \in Monitors, Drop(m)
      PROVE  TimelineInv'
  BY <1>1, DropKeeps
<1>2. ASSUME NEW m \in Monitors, NEW now \in Reports(m.src), RecordEvents(m, now)
      PROVE  TimelineInv'
  BY <1>2, RecordKeeps
<1>3. CASE PruneEvents
  BY <1>3, PruneKeeps
<1>4. ASSUME NEW i \in DOMAIN requests, Serve(i) \/ Receive(i)
      PROVE  TimelineInv'
  BY <1>4, ServeKeeps, ReceiveKeeps
<1>5. ASSUME NEW p \in Pids, Toggle(p)
      PROVE  TimelineInv'
  <2>1. open' \in Pids \cup {NoAgent} /\ eventsLoading' \in BOOLEAN
        /\ asked' \in {"none", "tab", "filter"} /\ tab' \in {"info", "timeline"}
    BY <1>5 DEF Toggle, TimelineInv, TimelineTypeOK
  <2>2. (open' = NoAgent /\ events' = events) \/ events' = <<>>
    BY <1>5 DEF Toggle
  <2>3. Click /\ view' = Rendered /\ requests' = requests
    BY <1>5 DEF Toggle
  <2>4. QED
    BY <2>1, <2>2, <2>3, ClickKeeps
<1>6. CASE ClickTimeline
  <2>1. /\ open \in Pids /\ open' = open /\ eventsLoading' \in BOOLEAN
        /\ asked' \in {"none", "tab", "filter"} /\ tab' \in {"info", "timeline"}
    BY <1>6 DEF ClickTimeline, LoadEvents, TimelineInv, TimelineTypeOK
  <2>2. LoadEvents(open) /\ events' = events /\ Click /\ view' = Rendered
    BY <1>6 DEF ClickTimeline
  <2>3. \E pid \in Pids \cup {Undefined} : LoadEvents(pid)
    BY <2>1, <2>2
  <2>4. QED
    BY <2>1, <2>2, <2>3, ClickKeeps
<1>7. CASE ClickInfo
  BY <1>7, ClickKeeps DEF ClickInfo, TimelineInv, TimelineTypeOK
<1>8. CASE ToggleOnlyUser
  <2>1. /\ open' = open /\ open \in Pids \cup {NoAgent} /\ eventsLoading' \in BOOLEAN
        /\ asked' \in {"none", "tab", "filter"} /\ tab' \in {"info", "timeline"}
    BY <1>8 DEF ToggleOnlyUser, LoadEvents, TimelineInv, TimelineTypeOK
  <2>2. LoadEvents(Undefined) /\ events' = events /\ Click /\ view' = Rendered
    BY <1>8 DEF ToggleOnlyUser
  <2>3. \E pid \in Pids \cup {Undefined} : LoadEvents(pid)
    BY <2>2
  <2>4. QED
    BY <2>1, <2>2, <2>3, ClickKeeps
<1>9. CASE UNCHANGED timelineVars
  <2>1. TimelineTypeOK'
    BY <1>9 DEF timelineVars, scans, TimelineInv, TimelineTypeOK
  <2>2. PanelInv' /\ RecordInv'
    BY <1>9, ScanKeepsPanel, PageKeepsRecord DEF timelineVars, ofPage, TimelineInv
  <2>3. QED
    BY <2>1, <2>2 DEF TimelineInv
<1>10. QED
  BY <1>1, <1>2, <1>3, <1>4, <1>5, <1>6, <1>7, <1>8, <1>9 DEF TimelineNext

\* The timeline's invariant.
LEMMA TimelineInvariant == TimelineSpec => []TimelineInv
<1>1. QED
  BY TimelineStarts, TimelineStep, PTL DEF TimelineSpec

\* Every variable has its type; an answer and the panel have Limit rows at most.
THEOREM TimelineTypes == TimelineSpec => []TimelineTypeOK
<1>1. TimelineInv => TimelineTypeOK
  BY DEF TimelineInv
<1>2. QED
  BY <1>1, TimelineInvariant, PTL

\* However answers and clicks overtake each other, the panel never shows events
\* of another agent than the one that is open.
THEOREM ShowsOpen == TimelineSpec => []ShowsOpenAgent
<1>1. TimelineInv => ShowsOpenAgent
  <2> SUFFICES ASSUME TimelineInv, view \in {"list", "loading"}, events # Null, NEW i \in DOMAIN events
               PROVE  events[i].pid = open
    BY DEF ShowsOpenAgent
  <2>1. events \in Seq(Of(open))
    BY DEF TimelineInv, PanelInv
  <2>2. events[i] \in Of(open)
    BY <2>1
  <2>3. QED
    BY <2>2 DEF Of
<1>2. QED
  BY <1>1, TimelineInvariant, PTL

\* When a waiting process has reported, the newest row of each kind says what it
\* last did, whatever was pruned and whichever monitors were replaced, unless the
\* insertion of it failed.
THEOREM Current == TimelineSpec => RecordIsCurrent
<1> DEFINE A == \A p \in ProcPids, k \in Kinds :
                  told'[p] # told[p] /\ told'[p][k] # NoValue /\ k \notin missed'[p] =>
                    \A i \in DOMAIN rows' : Newest(rows', i, p, k) => rows'[i].detail = told'[p][k]
<1>1. TimelineInv' => [A]_timelineVars
  <2>1. TimelineInv' => DOMAIN rows' = 1..Len(rows')
    BY DEF TimelineInv, TimelineTypeOK
  <2>2. QED
    BY <2>1 DEF TimelineInv, RecordInv
<1>2. TimelineInv /\ [TimelineNext]_timelineVars => TimelineInv'
  BY TimelineStep
<1>3. QED
  BY TimelineStarts, <1>1, <1>2, PTL DEF TimelineSpec, RecordIsCurrent
=============================================================================
