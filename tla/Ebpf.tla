-------------------------------- MODULE Ebpf --------------------------------
(***************************************************************************)
(* Behaviour events from the kernel to the agents' monitors: the tracing   *)
(* programs keep the last event of every pid in beh_map, the collector     *)
(* polls and empties that map at the start of each scan and routes what it *)
(* read by pidOwner, which scans and the 500 ms refreshTrees fill.         *)
(*                                                                         *)
(* The collector is one goroutine: refreshes and scans alternate.  The     *)
(* kernel is not: processes fork, trace and exit between any two steps,    *)
(* between the reading and the deletion of one map entry too, and pids are *)
(* reused.                                                                 *)
(***************************************************************************)
EXTENDS Integers, FiniteSets

CONSTANTS
  Pids,      \* real pids, all above that of init
  Agents,    \* pids of root agents
  Homes,     \* Homes[p]: the processes that may fork pid p, Init1 included
  Room,      \* number of entries of agent_pids (4096)
  MaxEvents  \* bound on the events traced (a bound of the model)

Init1 == 1
None  == 0

Ids == 1..MaxEvents

ASSUME EbpfAssumption ==
  /\ Pids \subseteq Nat \ {None, Init1}
  /\ IsFiniteSet(Pids)
  /\ Agents \subseteq Pids
  /\ Homes \in [Pids -> SUBSET (Pids \cup {Init1})]
  /\ Room \in Nat
  /\ MaxEvents \in Nat

VARIABLES
  parent,    \* the processes that run, each with its parent
  traced,    \* number of events traced so far; the n-th has id n
  behMap,    \* beh_map: the last event of every pid, None if polled
  phase,     \* what the collector does: "idle", "refresh", "poll", "tree", "roots"
  todo,      \* entries, monitors or roots that phase still has to visit
  reading,   \* the pid whose map entry was read and not yet deleted
  polled,    \* what PollEvents has read so far: pid -> event
  tree,      \* the snapshot of /proc of the scan in progress
  seen,      \* monitors this scan has marked
  monitors,  \* pids with a proc monitor
  pidOwner,  \* Collector.pidOwner
  agentPids, \* agent_pids
  refused,   \* history: pids whose last Put into agent_pids found it full
  deliveries \* history: the deliveries of an event, counted by receiver

kernel == <<parent, traced, behMap>>
scan   == <<phase, todo, reading, polled, tree, seen>>
table  == <<monitors, pidOwner, agentPids, refused, deliveries>>
vars   == <<kernel, scan, table>>
-----------------------------------------------------------------------------
NoTree == [p \in {} |-> None]
Nothing == [p \in Pids |-> None]

\* The processes of t at or below r.
Ancestor(t, p) ==
  LET A[n \in Nat] == IF n = 0 THEN p
                      ELSE IF A[n - 1] \in DOMAIN t THEN t[A[n - 1]] ELSE None
  IN A

\* Mutant: the root of the tree is left out.
StrictlyBelow(t, r) ==
  {p \in DOMAIN t : \E n \in 1..Cardinality(Pids) : Ancestor(t, p)[n] = r}

descendantPids(t, r) ==
  {r} \cup {p \in DOMAIN t : \E n \in 1..Cardinality(Pids) : Ancestor(t, p)[n] = r}

Init ==
  /\ parent = NoTree
  /\ traced = 0
  /\ behMap = Nothing
  /\ phase = "idle"
  /\ todo = {} /\ reading = None /\ polled = Nothing /\ tree = NoTree /\ seen = {}
  /\ monitors = {} /\ pidOwner = Nothing /\ agentPids = {} /\ refused = {}
  /\ deliveries = [i \in Ids |-> [p \in Pids |-> 0]]

Fork(p, h) ==
  /\ p \notin DOMAIN parent
  /\ h \in Homes[p]
  /\ h = Init1 \/ h \in DOMAIN parent
  /\ parent' = [q \in DOMAIN parent \cup {p} |-> IF q = p THEN h ELSE parent[q]]
  /\ UNCHANGED <<traced, behMap, scan, table>>

\* The children of a process that exits go to init; its entries stay.
Exit(p) ==
  /\ p \in DOMAIN parent
  /\ parent' = [q \in DOMAIN parent \ {p} |-> IF parent[q] = p THEN Init1 ELSE parent[q]]
  /\ UNCHANGED <<traced, behMap, scan, table>>

\* emit: any process of the system, the last event of a pid wins.
Trace(p) ==
  /\ p \in DOMAIN parent
  /\ traced < MaxEvents
  /\ traced' = traced + 1
  /\ behMap' = [behMap EXCEPT ![p] = traced']
  /\ UNCHANGED <<parent, scan, table>>

-----------------------------------------------------------------------------
\* The fast ticker: every proc monitor, roots and children alike, in the
\* random order of a Go map.
StartRefresh ==
  /\ phase = "idle" /\ monitors # {}
  /\ phase' = "refresh"
  /\ todo' = monitors
  /\ UNCHANGED <<kernel, reading, polled, tree, seen, table>>

\* AddPID for some pids, one after the other: once agent_pids is full, Put
\* fails for every pid that is not in it, which is logged and nothing else.
AddPIDs(pids) ==
  \E put \in SUBSET pids :
    /\ agentPids' = agentPids \cup put
    /\ Cardinality(agentPids') <= Room
    /\ pids \subseteq agentPids' \/ Cardinality(agentPids') = Room
    /\ refused' = (refused \ pids) \cup (pids \ agentPids')

\* Watch a tree: its processes go into agent_pids, as far as there is room,
\* and all of them get an owner.
Watch(pids, owner) ==
  /\ AddPIDs(pids)
  /\ pidOwner' = [p \in Pids |-> IF p \in pids THEN owner ELSE pidOwner[p]]

RefreshTree(m) ==
  /\ phase = "refresh"
  /\ m \in todo
  /\ todo' = todo \ {m}
  /\ phase' = IF todo' = {} THEN "idle" ELSE "refresh"
  /\ Watch(descendantPids(parent, m), m)
  /\ UNCHANGED <<kernel, reading, polled, tree, seen, monitors, deliveries>>

-----------------------------------------------------------------------------
\* scan() starts with PollEvents, which visits at least the entries that the
\* map holds when it starts.
StartPoll ==
  /\ phase = "idle"
  /\ phase' = "poll"
  /\ todo' = {p \in Pids : behMap[p] # None}
  /\ polled' = Nothing
  /\ UNCHANGED <<kernel, reading, tree, seen, table>>

PollRead(p) ==
  /\ phase = "poll" /\ reading = None
  /\ behMap[p] # None
  /\ reading' = p
  /\ polled' = [polled EXCEPT ![p] = behMap[p]]
  /\ UNCHANGED <<kernel, phase, todo, tree, seen, table>>

\* Mutant: the entries stay in the map.
KeepEntries ==
  /\ phase = "poll" /\ reading # None
  /\ reading' = None
  /\ todo' = todo \ {reading}
  /\ UNCHANGED <<parent, traced, behMap, phase, polled, tree, seen, table>>

\* The entry that was read is deleted, with whatever it holds by now.
PollDelete ==
  /\ phase = "poll" /\ reading # None
  /\ behMap' = [behMap EXCEPT ![reading] = None]
  /\ reading' = None
  /\ todo' = todo \ {reading}
  /\ UNCHANGED <<parent, traced, phase, polled, tree, seen, table>>

\* The receiver of an event of pid p: its owner, if that still has a monitor.
Receiver(p) == IF pidOwner[p] \in monitors THEN pidOwner[p] ELSE None

\* pollBehavior routes what was read; events of other pids are dropped.
Route ==
  /\ phase = "poll" /\ reading = None /\ todo = {}
  /\ deliveries' =
       [i \in Ids |-> [m \in Pids |->
          deliveries[i][m] + Cardinality({p \in Pids : polled[p] = i /\ Receiver(p) = m})]]
  /\ phase' = "tree"
  /\ polled' = Nothing
  /\ UNCHANGED <<kernel, todo, reading, tree, seen, monitors, pidOwner, agentPids, refused>>

\* The snapshot of /proc and the roots in it.
BuildTree ==
  /\ phase = "tree"
  /\ tree' = parent
  /\ todo' = Agents \cap DOMAIN parent
  /\ phase' = "roots"
  /\ UNCHANGED <<kernel, reading, polled, seen, table>>

\* One root: its processes of the snapshot get monitors, and what is below
\* them in /proc by now is watched for the root.
HandleRoot(r) ==
  /\ phase = "roots"
  /\ r \in todo
  /\ todo' = todo \ {r}
  /\ LET nodes == descendantPids(tree, r)
     IN /\ seen' = seen \cup nodes
        /\ monitors' = monitors \cup nodes
        /\ Watch(UNION {descendantPids(parent, p) : p \in nodes}, r)
  /\ UNCHANGED <<kernel, phase, reading, polled, tree, deliveries>>

\* Mutant: the monitors of child processes outlive their process.
DropsRootsOnly ==
  /\ phase = "roots" /\ todo = {}
  /\ monitors' = {m \in monitors : m \in seen \/ m \notin Agents}
  /\ agentPids' = agentPids \ (monitors \ monitors')
  /\ phase' = "idle"
  /\ seen' = {} /\ tree' = NoTree
  /\ UNCHANGED <<kernel, todo, reading, polled, pidOwner, refused, deliveries>>

\* The end of scan(): monitors not seen are dropped, their pids unwatched.
DropMonitors ==
  /\ phase = "roots" /\ todo = {}
  /\ monitors' = monitors \cap seen
  /\ agentPids' = agentPids \ (monitors \ seen)
  /\ phase' = "idle"
  /\ seen' = {} /\ tree' = NoTree
  /\ UNCHANGED <<kernel, todo, reading, polled, pidOwner, refused, deliveries>>

-----------------------------------------------------------------------------
ScanStep ==
  \/ StartPoll
  \/ \E p \in Pids : PollRead(p)
  \/ PollDelete
  \/ Route
  \/ BuildTree
  \/ \E r \in Pids : HandleRoot(r)
  \/ DropMonitors

RefreshStep == StartRefresh \/ \E m \in Pids : RefreshTree(m)

Next ==
  \/ \E p \in Pids, h \in Pids \cup {Init1} : Fork(p, h)
  \/ \E p \in Pids : Exit(p) \/ Trace(p)
  \/ RefreshStep
  \/ ScanStep

Spec == Init /\ [][Next]_vars

\* Both tickers fire for ever, and neither starves the other: a select with
\* two ready channels takes either of them.
FairSpec == Spec /\ WF_vars(RefreshStep) /\ SF_vars(ScanStep)
-----------------------------------------------------------------------------
(***************************************************************************)
(* Properties.                                                             *)
(***************************************************************************)

\* Every variable has its type, agent_pids never holds more than it has room
\* for, and a monitored process is watched, but for one that AddPID could not
\* put into the full map.
TypeOK ==
  /\ DOMAIN parent \subseteq Pids
  /\ \A p \in DOMAIN parent : parent[p] \in Pids \cup {Init1}
  /\ traced \in 0..MaxEvents
  /\ behMap \in [Pids -> Ids \cup {None}]
  /\ phase \in {"idle", "refresh", "poll", "tree", "roots"}
  /\ todo \subseteq Pids
  /\ reading \in Pids \cup {None}
  /\ polled \in [Pids -> Ids \cup {None}]
  /\ seen \subseteq Pids
  /\ monitors \subseteq agentPids \cup refused
  /\ pidOwner \in [Pids -> Pids \cup {None}]
  /\ agentPids \subseteq Pids /\ Cardinality(agentPids) <= Room
  /\ refused \subseteq Pids
  /\ deliveries \in [Ids -> [Pids -> Nat]]

\* However polling and tracing interleave, and whoever the pid belonged to
\* before, no event reaches monitors twice: a command is audited once.
DeliveredAtMostOnce ==
  \A i \in Ids : \A p, q \in Pids :
    deliveries[i][p] <= 1 /\ (deliveries[i][p] = 1 /\ deliveries[i][q] = 1 => p = q)

\* Nothing is left behind for ever.  Every event leaves beh_map, also those of
\* pids that nobody owns and of processes that are gone, and a process that has
\* exited for good loses its monitor for good.
NothingPilesUp ==
  /\ \A i \in Ids : (\E p \in Pids : behMap[p] = i) ~> (\A p \in Pids : behMap[p] # i)
  /\ \A p \in Pids : <>[](p \notin DOMAIN parent) => <>[](p \notin monitors)
=============================================================================
