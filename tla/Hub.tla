-------------------------------- MODULE Hub ---------------------------------
(***************************************************************************)
(* The serving side of agent-scope: the WebSocket hub, the /ws handler of  *)
(* every connection, the scan loop that writes the store and pushes a      *)
(* snapshot of it, and the order in which main shuts everything down.      *)
(*                                                                         *)
(* The store's mutex covers one call, the hub's mutex the registration of  *)
(* a client, its removal, Len, and the whole loop of a Push.  All that      *)
(* matters of a snapshot is whether it shows the store as it is now: every *)
(* write of a scan makes what was read before a thing of the past.         *)
(***************************************************************************)
EXTENDS Integers, FiniteSets

CONSTANTS
  Clients,    \* WebSocket connections
  Collector,  \* the collector's goroutine
  Nobody      \* holds no lock

ASSUME HubAssumption ==
  /\ Collector \notin Clients
  /\ Nobody \notin Clients \cup {Collector}

\* Those who push: every connection's handler and the collector.
Pushers == Clients \cup {Collector}

VARIABLES
  main,      \* where main stands
  gaveUp,    \* main has stopped waiting for the collector
  pc,        \* where each pusher stands
  current,   \* pushers whose snapshot, as far as read, shows the store as it is
  lock,      \* who is inside a Push, holding Hub.mu
  todo,      \* the clients that Push has still to write to
  clients,   \* Hub.clients
  conn,      \* state of each connection
  reader,    \* where the read loop of each connection stands
  upToDate,  \* browsers whose last snapshot shows the store as it is
  closes     \* history: how often the server closed each connection

process == <<main, gaveUp>>
pushing == <<pc, current, lock, todo>>
net     == <<clients, conn, reader, upToDate, closes>>
vars    == <<process, pushing, net>>

CollectorSteps == {"select", "write", "len", "list", "push", "stopped"}
HandlerSteps   == {"new", "list", "push", "done"}
-----------------------------------------------------------------------------
Init ==
  /\ main = "running" /\ gaveUp = FALSE
  /\ pc = [p \in Pushers |-> IF p = Collector THEN "write" ELSE "new"]
  /\ current = {}
  /\ lock = Nobody /\ todo = {}
  /\ clients = {}
  /\ conn = [c \in Clients |-> "none"]
  /\ reader = [c \in Clients |-> "none"]
  /\ upToDate = {}
  /\ closes = [c \in Clients |-> 0]

Goto(p, step) == pc' = [pc EXCEPT ![p] = step]

HubFree == lock = Nobody

-----------------------------------------------------------------------------
(***************************************************************************)
(* Hub.                                                                    *)
(***************************************************************************)

\* The server closes a connection: Close is harmless on a closed one.
CloseConn(c) ==
  /\ conn' = [conn EXCEPT ![c] = "closed"]
  /\ closes' = [closes EXCEPT ![c] = @ + 1]

\* Upgrade and Add: the connection becomes a client, with a read loop.
Add(c) ==
  /\ pc[c] = "new"
  /\ HubFree
  /\ clients' = clients \cup {c}
  /\ conn' = [conn EXCEPT ![c] = "open"]
  /\ reader' = [reader EXCEPT ![c] = "reading"]
  /\ Goto(c, "list")
  /\ UNCHANGED <<process, current, lock, todo, upToDate, closes>>

\* The browser goes away, or the network does.
Disconnect(c) ==
  /\ conn[c] = "open"
  /\ conn' = [conn EXCEPT ![c] = "broken"]
  /\ UNCHANGED <<process, pushing, clients, reader, upToDate, closes>>

\* Mutant: nobody reads from a connection; only a close is noticed.
ClosedOnly(c) ==
  /\ reader[c] = "reading" /\ conn[c] = "closed"
  /\ reader' = [reader EXCEPT ![c] = "remove"]
  /\ UNCHANGED <<process, pushing, clients, conn, upToDate, closes>>

\* ReadMessage fails once the connection is broken or closed.
ReadFails(c) ==
  /\ reader[c] = "reading" /\ conn[c] \in {"broken", "closed"}
  /\ reader' = [reader EXCEPT ![c] = "remove"]
  /\ UNCHANGED <<process, pushing, clients, conn, upToDate, closes>>

\* Mutant: remove closes the connection whoever removed it.
RemoveAgain(c) ==
  /\ reader[c] = "remove"
  /\ HubFree
  /\ clients' = clients \ {c}
  /\ reader' = [reader EXCEPT ![c] = "close"]
  /\ UNCHANGED <<process, pushing, conn, upToDate, closes>>

\* Mutant: remove does not take the lock.
RemoveUnlocked(c) ==
  /\ reader[c] = "remove"
  /\ clients' = clients \ {c}
  /\ reader' = [reader EXCEPT ![c] = IF c \in clients THEN "close" ELSE "ended"]
  /\ UNCHANGED <<process, pushing, conn, upToDate, closes>>

\* remove: only one who found the client registered goes on to close it.
Remove(c) ==
  /\ reader[c] = "remove"
  /\ HubFree
  /\ clients' = clients \ {c}
  /\ reader' = [reader EXCEPT ![c] = IF c \in clients THEN "close" ELSE "ended"]
  /\ UNCHANGED <<process, pushing, conn, upToDate, closes>>

\* ... outside the lock.
RemoveCloses(c) ==
  /\ reader[c] = "close"
  /\ CloseConn(c)
  /\ reader' = [reader EXCEPT ![c] = "ended"]
  /\ UNCHANGED <<process, pushing, clients, upToDate>>

\* Push takes the lock and keeps it until all clients are served.
Lock(p) ==
  /\ pc[p] = "push" /\ HubFree
  /\ lock' = p
  /\ todo' = clients
  /\ UNCHANGED <<process, pc, current, net>>

\* One client is written to; the kernel may still take what is written to a
\* broken connection.
Deliver(p, c) ==
  /\ lock = p /\ c \in todo /\ conn[c] \in {"open", "broken"}
  /\ todo' = todo \ {c}
  /\ upToDate' = IF conn[c] # "open" THEN upToDate
                 ELSE IF p \in current THEN upToDate \cup {c} ELSE upToDate \ {c}
  /\ UNCHANGED <<process, pc, current, lock, clients, conn, reader, closes>>

\* Mutant: the first failure ends the service of everyone not yet written to.
FailAll(p, c) ==
  /\ lock = p /\ c \in todo
  /\ todo' = {}
  /\ clients' = clients \ todo
  /\ conn' = [d \in Clients |-> IF d \in todo THEN "closed" ELSE conn[d]]
  /\ closes' = [d \in Clients |-> IF d \in todo THEN closes[d] + 1 ELSE closes[d]]
  /\ UNCHANGED <<process, pc, current, lock, reader, upToDate>>

\* Writing to a client fails, for the connection is broken or the browser
\* takes nothing for three seconds: it is closed and removed.
Fail(p, c) ==
  /\ lock = p /\ c \in todo
  /\ todo' = todo \ {c}
  /\ clients' = clients \ {c}
  /\ CloseConn(c)
  /\ UNCHANGED <<process, pc, current, lock, reader, upToDate>>

\* Push returns: the handler has finished, the collector's scan too.
Unlock(p) ==
  /\ lock = p /\ todo = {}
  /\ lock' = Nobody
  /\ Goto(p, IF p = Collector THEN "select" ELSE "done")
  /\ current' = current \ {p}
  /\ UNCHANGED <<process, todo, net>>

PushGoesOn(p) ==
  \/ \E c \in Clients : Deliver(p, c) \/ Fail(p, c)
  \/ Unlock(p)

-----------------------------------------------------------------------------
(***************************************************************************)
(* The snapshot that is pushed, read by a handler or by the collector.     *)
(***************************************************************************)

\* ListTree, then RecentAlerts.  A write between the two makes the snapshot as
\* outdated as one before both would, hence one step.
ReadSnapshot(p) ==
  /\ pc[p] = "list"
  /\ current' = current \cup {p}
  /\ Goto(p, "push")
  /\ UNCHANGED <<process, lock, todo, net>>

\* ListTree fails: nothing is pushed.
ListFails(p) ==
  /\ pc[p] = "list"
  /\ Goto(p, IF p = Collector THEN "select" ELSE "done")
  /\ UNCHANGED <<process, current, lock, todo, net>>

-----------------------------------------------------------------------------
(***************************************************************************)
(* The collector: Run and the parts of scan that touch the store and the   *)
(* hub.                                                                    *)
(***************************************************************************)

\* A write of the scan that changes the tables.
ScanWrites ==
  /\ pc[Collector] = "write"
  /\ current' = {} /\ upToDate' = {}
  /\ UNCHANGED <<process, pc, lock, todo, clients, conn, reader, closes>>

\* The scan has written everything it will write.
ScanWritten ==
  /\ pc[Collector] = "write"
  /\ Goto(Collector, "len")
  /\ UNCHANGED <<process, current, lock, todo, net>>

\* Mutant: nobody is ever taken for a subscriber.
NobodyListens ==
  /\ pc[Collector] = "len" /\ HubFree
  /\ Goto(Collector, "select")
  /\ UNCHANGED <<process, current, lock, todo, net>>

\* Len: nothing is read for nobody.
AnyoneListens ==
  /\ pc[Collector] = "len" /\ HubFree
  /\ Goto(Collector, IF clients = {} THEN "select" ELSE "list")
  /\ UNCHANGED <<process, current, lock, todo, net>>

\* The scan ticker fires.
ScanStarts ==
  /\ pc[Collector] = "select"
  /\ Goto(Collector, "write")
  /\ UNCHANGED <<process, current, lock, todo, net>>

\* Run returns when its context is cancelled, and only between two scans.
CollectorStops ==
  /\ pc[Collector] = "select" /\ main # "running"
  /\ Goto(Collector, "stopped")
  /\ UNCHANGED <<process, current, lock, todo, net>>

-----------------------------------------------------------------------------
(***************************************************************************)
(* main.                                                                   *)
(***************************************************************************)

\* SIGINT or SIGTERM: the context is cancelled.
Signal ==
  /\ main = "running"
  /\ main' = "cancelled"
  /\ UNCHANGED <<gaveUp, pushing, net>>

\* Mutant: the store is closed as soon as the server is down.
NoWait == main = "cancelled" /\ UNCHANGED gaveUp

\* collectorDone, or three seconds.
WaitOver ==
  /\ main = "cancelled"
  /\ gaveUp' = (pc[Collector] # "stopped")

\* srv.Shutdown (which does not wait for the /ws handlers, whose connections
\* are hijacked) and the wait are over, and the store is closed.
CloseStore ==
  /\ WaitOver
  /\ main' = "closed"
  /\ UNCHANGED <<pushing, net>>

Alive == main # "closed"

\* main has returned.
Exited == main = "closed" /\ UNCHANGED vars

Running ==
  \/ \E c \in Clients :
       Add(c) \/ Disconnect(c) \/ ReadFails(c) \/ Remove(c) \/ RemoveCloses(c)
  \/ \E p \in Pushers :
       ReadSnapshot(p) \/ ListFails(p) \/ Lock(p) \/ PushGoesOn(p)
  \/ ScanWrites \/ ScanWritten \/ AnyoneListens
  \/ ScanStarts \/ CollectorStops
  \/ Signal \/ CloseStore

\* The process ends with main, whatever the others are doing.
Next == (Alive /\ Running) \/ Exited

Spec == Init /\ [][Next]_vars

\* Goroutines run, a write ends within three seconds, a broken connection is
\* noticed; the read loop that waits for the mutex, which the collector takes
\* again and again, is not starved (sync.Mutex hands over after 1 ms), and the
\* database does not fail the collector for ever.
Fairness ==
  /\ \A c \in Clients :
       /\ WF_vars(Alive /\ (ReadFails(c) \/ RemoveCloses(c)))
       /\ SF_vars(Alive /\ Remove(c))
  /\ \A p \in Pushers :
       WF_vars(Alive /\ (ReadSnapshot(p) \/ ListFails(p) \/ Lock(p) \/ PushGoesOn(p)))
  /\ SF_vars(Alive /\ ReadSnapshot(Collector))
  /\ WF_vars(Alive /\ (ScanWritten \/ AnyoneListens \/ ScanStarts))

FairSpec == Spec /\ Fairness
-----------------------------------------------------------------------------
(***************************************************************************)
(* Properties.                                                             *)
(***************************************************************************)

\* Every variable has its type; only the one that pushes holds the lock, and
\* it writes to registered clients only.
TypeOK ==
  /\ main \in {"running", "cancelled", "closed"} /\ gaveUp \in BOOLEAN
  /\ pc \in [Pushers -> CollectorSteps \cup HandlerSteps]
  /\ pc[Collector] \in CollectorSteps /\ \A c \in Clients : pc[c] \in HandlerSteps
  /\ current \subseteq Pushers
  /\ lock \in Pushers \cup {Nobody}
  /\ lock # Nobody => pc[lock] = "push"
  /\ clients \subseteq Clients /\ todo \subseteq clients
  /\ lock = Nobody => todo = {}
  /\ conn \in [Clients -> {"none", "open", "broken", "closed"}]
  /\ reader \in [Clients -> {"none", "reading", "remove", "close", "ended"}]
  /\ upToDate \subseteq Clients
  /\ closes \in [Clients -> Nat]

\* Push and the read loop both remove clients, in any order: whoever does, the
\* connection is closed, at once by Push and next by the read loop; it is closed
\* once, by one of the two; and no client that is registered has been closed.
RemovedAreClosed ==
  \A c \in Clients :
    /\ conn[c] # "none" /\ c \notin clients /\ reader[c] # "close" => conn[c] = "closed"
    /\ closes[c] <= 1
    /\ c \in clients => conn[c] # "closed"

\* The store is closed under a running collector only if main gave up waiting
\* for it (the race that the comments in main describe).
StoreOutlivesCollector == main = "closed" /\ ~gaveUp => pc[Collector] = "stopped"

\* Seen from outside, all this is the feed that Feed specifies: a subscription
\* starts and ends once, whoever removes the client, and no step ends two.
Subscription ==
  [c \in Clients |-> IF c \in clients THEN "subscribed"
                     ELSE IF pc[c] = "new" THEN "new" ELSE "ended"]

Abstract == INSTANCE Feed WITH state   <- Subscription,
                               fresh   <- upToDate \cap clients,
                               serving <- main = "running"

ImplementsFeed == Abstract!Safety

\* However the first snapshots of new clients and those of the scans overtake
\* each other, a client that stays is brought up to date again.
ServesFeed == Abstract!Liveness

\* A connection that breaks leaves the hub and is closed, though the kernel
\* may take every message Push writes to it.
BrokenLeave ==
  \A c \in Clients :
    conn[c] = "broken" ~> (c \notin clients /\ conn[c] = "closed") \/ main # "running"
=============================================================================
