----------------------------- MODULE EbpfProofs -----------------------------
(***************************************************************************)
(* Proofs about Ebpf, for every set of processes, any agents among them    *)
(* and any number of events: its types, and that no event is delivered     *)
(* twice.                                                                  *)
(***************************************************************************)
EXTENDS Ebpf, FiniteSetTheorems, TLAPS

USE EbpfAssumption DEF None, Init1, Ids

-----------------------------------------------------------------------------
(***************************************************************************)
(* Types.                                                                  *)
(***************************************************************************)

\* What is below a process of a tree are processes of that tree.
LEMMA DescendantsType ==
  ASSUME NEW t, DOMAIN t \subseteq Pids, NEW r \in Pids
  PROVE  descendantPids(t, r) \subseteq Pids
BY DEF descendantPids

\* Watching keeps the owners and the watched pids what they are; whoever was to
\* be watched is, or was refused, and nobody else has lost anything.
LEMMA WatchType ==
  ASSUME TypeOK, NEW pids \in SUBSET Pids, NEW owner \in Pids, Watch(pids, owner)
  PROVE  /\ pidOwner' \in [Pids -> Pids \cup {None}]
         /\ agentPids' \subseteq Pids /\ Cardinality(agentPids') <= Room
         /\ refused' \subseteq Pids
         /\ agentPids \cup refused \cup pids \subseteq agentPids' \cup refused'
<1>1. pidOwner' \in [Pids -> Pids \cup {None}]
  BY DEF Watch, TypeOK
<1>2. PICK put \in SUBSET pids :
        /\ agentPids' = agentPids \cup put
        /\ Cardinality(agentPids') <= Room
        /\ refused' = (refused \ pids) \cup (pids \ agentPids')
  BY DEF Watch, AddPIDs
<1>3. QED
  BY <1>1, <1>2 DEF TypeOK

\* The number of processes that have a property is a number.
LEMMA CountType ==
  ASSUME NEW S \in SUBSET Pids
  PROVE  IsFiniteSet(S) /\ Cardinality(S) \in Nat
BY FS_Subset, FS_CardinalityType

\* What the scan keeps of the snapshot are processes.
TreeInv == DOMAIN tree \subseteq Pids

\* The entries of event i that go to receiver m.
Receipts(i, m) == {p \in Pids : polled[p] = i /\ Receiver(p) = m}

LEMMA InitType == Init => TypeOK /\ TreeInv
BY FS_EmptySet DEF Init, TypeOK, TreeInv, NoTree, Nothing

LEMMA StepType ==
  ASSUME TypeOK, TreeInv, [Next]_vars
  PROVE  TypeOK' /\ TreeInv'
<1> USE DEF vars, kernel, scan, table
<1>1. ASSUME NEW p \in Pids, NEW h \in Pids \cup {Init1}, Fork(p, h)
      PROVE  TypeOK' /\ TreeInv'
  BY <1>1 DEF Fork, TypeOK, TreeInv
<1>2. ASSUME NEW p \in Pids, Exit(p)
      PROVE  TypeOK' /\ TreeInv'
  BY <1>2 DEF Exit, TypeOK, TreeInv
<1>3. ASSUME NEW p \in Pids, Trace(p)
      PROVE  TypeOK' /\ TreeInv'
  BY <1>3 DEF Trace, TypeOK, TreeInv
<1>4. CASE StartRefresh
  BY <1>4 DEF StartRefresh, TypeOK, TreeInv
<1>5. ASSUME NEW m \in Pids, RefreshTree(m)
      PROVE  TypeOK' /\ TreeInv'
  <2>1. descendantPids(parent, m) \in SUBSET Pids
    BY DescendantsType DEF TypeOK
  <2>2. Watch(descendantPids(parent, m), m)
    BY <1>5 DEF RefreshTree
  <2>3. /\ pidOwner' \in [Pids -> Pids \cup {None}]
        /\ agentPids' \subseteq Pids /\ Cardinality(agentPids') <= Room
        /\ refused' \subseteq Pids
        /\ agentPids \cup refused \subseteq agentPids' \cup refused'
    BY <2>1, <2>2, WatchType
  <2>4. QED
    BY <1>5, <2>3 DEF RefreshTree, TypeOK, TreeInv
<1>6. CASE StartPoll
  BY <1>6 DEF StartPoll, Nothing, TypeOK, TreeInv
<1>7. ASSUME NEW p \in Pids, PollRead(p)
      PROVE  TypeOK' /\ TreeInv'
  BY <1>7 DEF PollRead, TypeOK, TreeInv
<1>8. CASE PollDelete
  BY <1>8 DEF PollDelete, TypeOK, TreeInv
<1>9. CASE Route
  <2>1. \A i \in Ids : \A m \in Pids : Cardinality(Receipts(i, m)) \in Nat
    <3>1. \A i \in Ids : \A m \in Pids : Receipts(i, m) \in SUBSET Pids
      BY DEF Receipts
    <3>2. QED
      BY <3>1, CountType
  <2>2. deliveries' = [i \in Ids |-> [m \in Pids |->
                         deliveries[i][m] + Cardinality(Receipts(i, m))]]
    BY <1>9 DEF Route, Receipts
  <2>3. deliveries' \in [Ids -> [Pids -> Nat]]
    <3>1. \A i \in Ids : \A m \in Pids : deliveries[i][m] \in Nat
      BY DEF TypeOK
    <3>2. \A i \in Ids : \A m \in Pids :
            deliveries[i][m] + Cardinality(Receipts(i, m)) \in Nat
      BY <2>1, <3>1
    <3>3. QED
      BY <2>2, <3>2
  <2>4. QED
    BY <1>9, <2>3 DEF Route, Nothing, TypeOK, TreeInv
<1>10. CASE BuildTree
  BY <1>10 DEF BuildTree, TypeOK, TreeInv
<1>11. ASSUME NEW r \in Pids, HandleRoot(r)
       PROVE  TypeOK' /\ TreeInv'
  <2> DEFINE nodes == descendantPids(tree, r)
             below == UNION {descendantPids(parent, p) : p \in nodes}
  <2>1. nodes \subseteq Pids
    BY DescendantsType DEF TreeInv
  <2>2. \A p \in nodes : descendantPids(parent, p) \subseteq Pids /\ p \in descendantPids(parent, p)
    BY <2>1, DescendantsType DEF TypeOK, descendantPids
  <2>3. below \in SUBSET Pids /\ nodes \subseteq below
    BY <2>2
  <2>4. Watch(below, r)
    BY <1>11 DEF HandleRoot
  <2> HIDE DEF below
  <2>5. /\ pidOwner' \in [Pids -> Pids \cup {None}]
        /\ agentPids' \subseteq Pids /\ Cardinality(agentPids') <= Room
        /\ refused' \subseteq Pids
        /\ agentPids \cup refused \cup below \subseteq agentPids' \cup refused'
    BY <2>3, <2>4, WatchType
  <2>6. seen' = seen \cup nodes /\ monitors' = monitors \cup nodes
    BY <1>11 DEF HandleRoot
  <2> HIDE DEF nodes
  <2>7. QED
    BY <1>11, <2>1, <2>3, <2>5, <2>6 DEF HandleRoot, TypeOK, TreeInv
<1>12. CASE DropMonitors
  <2>1. /\ agentPids' = agentPids \ (monitors \ seen) /\ monitors' = monitors \cap seen
        /\ refused' = refused
    BY <1>12 DEF DropMonitors
  <2>2. Cardinality(agentPids') <= Room
    <3>1. IsFiniteSet(agentPids) /\ agentPids' \subseteq agentPids
      BY <2>1, FS_Subset DEF TypeOK
    <3>2. Cardinality(agentPids') <= Cardinality(agentPids)
      BY <3>1, FS_Subset
    <3>3. Cardinality(agentPids') \in Nat /\ Cardinality(agentPids) \in Nat
      BY <3>1, FS_Subset, FS_CardinalityType
    <3>4. QED
      BY <3>2, <3>3 DEF TypeOK
  <2>3. QED
    BY <1>12, <2>1, <2>2 DEF DropMonitors, NoTree, TypeOK, TreeInv
<1>13. CASE UNCHANGED vars
  BY <1>13 DEF TypeOK, TreeInv
<1>14. QED
  BY <1>1, <1>2, <1>3, <1>4, <1>5, <1>6, <1>7, <1>8, <1>9, <1>10, <1>11, <1>12,
     <1>13 DEF Next, RefreshStep, ScanStep

\* Every reachable state has its types, agent_pids is never overfull, and every
\* monitored process is watched or was refused for want of room.
THEOREM EbpfTypes == Spec => []TypeOK
<1>1. TypeOK /\ TreeInv /\ [Next]_vars => (TypeOK /\ TreeInv)'
  BY StepType
<1>2. QED
  BY <1>1, InitType, PTL DEF Spec

-----------------------------------------------------------------------------
(***************************************************************************)
(* No event is delivered twice.  An event is at one pid: in beh_map, read  *)
(* by the poll, or, only between the reading and the deletion of its       *)
(* entry, both; and once it has been delivered it is at none.              *)
(***************************************************************************)

\* Event i is in the map or was read, under pid p.
At(i, p) == behMap[p] = i \/ polled[p] = i

OnePlace ==
  /\ \A i \in Ids : \A p, q \in Pids : At(i, p) /\ At(i, q) => p = q
  /\ \A i \in Ids : \A p \in Pids : At(i, p) => i <= traced
  /\ \A i \in Ids : \A p \in Pids : behMap[p] = i /\ polled[p] = i => reading = p

Delivered ==
  /\ \A i \in Ids : \A m \in Pids : deliveries[i][m] # 0 =>
       i <= traced /\ \A p \in Pids : ~At(i, p)
  /\ DeliveredAtMostOnce

EventInv == OnePlace /\ Delivered

\* The entries of one event go to one receiver at most, and once.
LEMMA CountOnce ==
  ASSUME NEW i \in Ids, NEW m \in Pids,
         \A p, q \in Pids : polled[p] = i /\ polled[q] = i => p = q
  PROVE  \/ Receipts(i, m) = {} /\ Cardinality(Receipts(i, m)) = 0
         \/ /\ Cardinality(Receipts(i, m)) = 1
            /\ \E p \in Pids : polled[p] = i /\ Receiver(p) = m
<1>1. CASE Receipts(i, m) = {}
  BY <1>1, FS_EmptySet
<1>2. CASE Receipts(i, m) # {}
  <2>1. PICK p \in Pids : polled[p] = i /\ Receiver(p) = m
    BY <1>2 DEF Receipts
  <2>2. Receipts(i, m) = {p}
    BY <2>1 DEF Receipts
  <2>3. Cardinality({p}) = 1
    BY FS_Singleton
  <2>4. QED
    BY <2>1, <2>2, <2>3
<1>3. QED
  BY <1>1, <1>2

LEMMA EventStep ==
  ASSUME TypeOK, TypeOK', EventInv, [Next]_vars
  PROVE  EventInv'
<1> USE DEF vars, kernel, scan, table
<1>1. ASSUME NEW p \in Pids, Trace(p)
      PROVE  EventInv'
  <2>1. /\ traced' = traced + 1 /\ traced' \in Ids /\ traced \in Nat
        /\ \A q \in Pids : behMap'[q] = IF q = p THEN traced' ELSE behMap[q]
        /\ UNCHANGED <<reading, polled, deliveries>>
    BY <1>1 DEF Trace, TypeOK
  <2>2. \A q \in Pids : ~At(traced', q)
    BY <2>1 DEF EventInv, OnePlace
  <2>3. \A i \in Ids : \A q \in Pids :
          At(i, q)' => At(i, q) \/ (i = traced' /\ q = p)
    BY <2>1 DEF At
  <2>4. \A m \in Pids : deliveries[traced'][m] = 0
    BY <2>1 DEF EventInv, Delivered, TypeOK
  <2>5. OnePlace'
    BY <2>1, <2>2, <2>3 DEF EventInv, OnePlace, At
  <2>6. Delivered'
    BY <2>1, <2>3, <2>4 DEF EventInv, Delivered, DeliveredAtMostOnce
  <2>7. QED
    BY <2>5, <2>6 DEF EventInv
<1>2. CASE StartPoll
  <2>1. /\ \A p \in Pids : polled'[p] = None
        /\ UNCHANGED <<behMap, traced, reading, deliveries>>
    BY <1>2 DEF StartPoll, Nothing
  <2>2. OnePlace'
    BY <2>1 DEF EventInv, OnePlace, At
  <2>3. Delivered'
    BY <2>1 DEF EventInv, Delivered, At, DeliveredAtMostOnce
  <2>4. QED
    BY <2>2, <2>3 DEF EventInv
<1>3. ASSUME NEW p \in Pids, PollRead(p)
      PROVE  EventInv'
  <2>1. /\ reading = None /\ reading' = p
        /\ \A q \in Pids : polled'[q] = IF q = p THEN behMap[p] ELSE polled[q]
        /\ UNCHANGED <<behMap, traced, deliveries>>
    BY <1>3 DEF PollRead, TypeOK
  <2>2. OnePlace'
    BY <2>1 DEF EventInv, OnePlace, At
  <2>3. Delivered'
    BY <2>1 DEF EventInv, Delivered, At, DeliveredAtMostOnce
  <2>4. QED
    BY <2>2, <2>3 DEF EventInv
<1>4. CASE PollDelete
  <2>1. /\ reading \in Pids
        /\ \A q \in Pids : behMap'[q] = IF q = reading THEN None ELSE behMap[q]
        /\ UNCHANGED <<polled, traced, deliveries>>
    BY <1>4 DEF PollDelete, TypeOK
  <2>2. OnePlace'
    BY <2>1 DEF EventInv, OnePlace, At
  <2>3. Delivered'
    BY <2>1 DEF EventInv, Delivered, At, DeliveredAtMostOnce
  <2>4. QED
    BY <2>2, <2>3 DEF EventInv
<1>5. CASE Route
  <2>1. /\ reading = None
        /\ \A p \in Pids : polled'[p] = None
        /\ UNCHANGED <<behMap, traced, reading>>
    BY <1>5 DEF Route, Nothing
  <2>2. \A i \in Ids : \A m \in Pids :
          deliveries'[i][m] = deliveries[i][m] + Cardinality(Receipts(i, m))
    BY <1>5 DEF Route, Receipts
  <2>3. \A i \in Ids : \A m \in Pids :
          \/ Receipts(i, m) = {} /\ Cardinality(Receipts(i, m)) = 0
          \/ /\ Cardinality(Receipts(i, m)) = 1
             /\ \E p \in Pids : polled[p] = i /\ Receiver(p) = m
    BY CountOnce DEF EventInv, OnePlace, At
  <2>4. \A i \in Ids : \A p \in Pids : polled[p] = i =>
          i <= traced /\ (\A m \in Pids : deliveries[i][m] = 0)
                      /\ (\A q \in Pids : behMap[q] # i)
    BY <2>1 DEF EventInv, OnePlace, Delivered, At, TypeOK
  <2>5. \A i \in Ids : \A m \in Pids : deliveries[i][m] \in Nat
    BY DEF TypeOK
  <2>6. \A i \in Ids : \A m \in Pids :
          \/ deliveries'[i][m] = deliveries[i][m]
          \/ /\ deliveries'[i][m] = 1 /\ \A n \in Pids : deliveries[i][n] = 0
             /\ \E p \in Pids : polled[p] = i /\ Receiver(p) = m
    <3> SUFFICES ASSUME NEW i \in Ids, NEW m \in Pids
                 PROVE  \/ deliveries'[i][m] = deliveries[i][m]
                        \/ /\ deliveries'[i][m] = 1 /\ \A n \in Pids : deliveries[i][n] = 0
                           /\ \E p \in Pids : polled[p] = i /\ Receiver(p) = m
      OBVIOUS
    <3>1. CASE Cardinality(Receipts(i, m)) = 0
      BY <2>2, <2>5, <3>1
    <3>2. CASE /\ Cardinality(Receipts(i, m)) = 1
               /\ \E p \in Pids : polled[p] = i /\ Receiver(p) = m
      BY <2>2, <2>4, <2>5, <3>2
    <3>3. QED
      BY <2>3, <3>1, <3>2
  <2>7. OnePlace'
    BY <2>1 DEF EventInv, OnePlace, At
  <2>8. DeliveredAtMostOnce'
    <3> SUFFICES ASSUME NEW i \in Ids, NEW p \in Pids, NEW q \in Pids
                 PROVE  /\ deliveries'[i][p] <= 1
                        /\ deliveries'[i][p] = 1 /\ deliveries'[i][q] = 1 => p = q
      BY DEF DeliveredAtMostOnce
    <3>1. \A r, s \in Pids : polled[r] = i /\ polled[s] = i => r = s
      BY DEF EventInv, OnePlace, At
    <3>2. /\ deliveries[i][p] <= 1
          /\ deliveries[i][p] = 1 /\ deliveries[i][q] = 1 => p = q
      BY DEF EventInv, Delivered, DeliveredAtMostOnce
    <3>3. \A n \in Pids :
            \/ deliveries'[i][n] = deliveries[i][n]
            \/ /\ deliveries'[i][n] = 1 /\ deliveries[i][p] = 0 /\ deliveries[i][q] = 0
               /\ \E r \in Pids : polled[r] = i /\ Receiver(r) = n
      BY <2>6
    <3>4. deliveries'[i][p] <= 1
      BY <3>2, <3>3
    <3>5. ASSUME deliveries'[i][p] = 1, deliveries'[i][q] = 1
          PROVE  p = q
      <4>1. CASE deliveries[i][p] = 0 /\ deliveries[i][q] = 0
        <5>1. PICK r \in Pids : polled[r] = i /\ Receiver(r) = p
          BY <3>3, <3>5, <4>1
        <5>2. PICK t \in Pids : polled[t] = i /\ Receiver(t) = q
          BY <3>3, <3>5, <4>1
        <5>3. QED
          BY <3>1, <5>1, <5>2
      <4>2. CASE ~(deliveries[i][p] = 0 /\ deliveries[i][q] = 0)
        BY <3>2, <3>3, <3>5, <4>2
      <4>3. QED
        BY <4>1, <4>2
    <3>6. QED
      BY <3>4, <3>5
  <2>9. \A i \in Ids : \A m \in Pids : deliveries'[i][m] # 0 =>
          i <= traced' /\ \A p \in Pids : ~(behMap'[p] = i \/ polled'[p] = i)
    <3>1. \A i \in Ids : \A m \in Pids : deliveries[i][m] # 0 =>
            i <= traced /\ \A p \in Pids : behMap[p] # i
      BY DEF EventInv, Delivered, At
    <3>2. \A i \in Ids : \A m \in Pids : deliveries'[i][m] # 0 =>
            i <= traced /\ \A p \in Pids : behMap[p] # i
      BY <2>4, <2>6, <3>1
    <3>3. \A i \in Ids : \A p \in Pids : polled'[p] # i
      BY <2>1
    <3>4. behMap' = behMap /\ traced' = traced
      BY <2>1
    <3>5. QED
      BY <3>2, <3>3, <3>4
  <2>10. QED
    BY <2>7, <2>8, <2>9 DEF EventInv, Delivered, At
<1>6. CASE UNCHANGED <<behMap, traced, polled, reading, deliveries>>
  BY <1>6 DEF EventInv, OnePlace, Delivered, At, DeliveredAtMostOnce
<1>7. ASSUME NEW p \in Pids, NEW h \in Pids \cup {Init1},
             Fork(p, h) \/ Exit(p) \/ RefreshTree(p) \/ HandleRoot(p)
      PROVE  EventInv'
  BY <1>6, <1>7 DEF Fork, Exit, RefreshTree, HandleRoot
<1>8. CASE StartRefresh \/ BuildTree \/ DropMonitors \/ UNCHANGED vars
  BY <1>6, <1>8 DEF StartRefresh, BuildTree, DropMonitors
<1>9. QED
  BY <1>1, <1>2, <1>3, <1>4, <1>5, <1>7, <1>8 DEF Next, RefreshStep, ScanStep

\* However polling and tracing interleave, no event reaches monitors twice.
THEOREM AtMostOnce == Spec => []DeliveredAtMostOnce
<1>1. Init => EventInv
  BY DEF Init, EventInv, OnePlace, Delivered, At, DeliveredAtMostOnce, Nothing
<1>2. TypeOK /\ TypeOK' /\ EventInv /\ [Next]_vars => EventInv'
  BY EventStep
<1>3. EventInv => DeliveredAtMostOnce
  BY DEF EventInv, Delivered
<1>4. QED
  BY <1>1, <1>2, <1>3, EbpfTypes, PTL DEF Spec
=============================================================================
