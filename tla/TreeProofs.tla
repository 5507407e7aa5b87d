----------------------------- MODULE TreeProofs -----------------------------
(***************************************************************************)
(* Proofs about Tree, for every set of processes and sessions, every       *)
(* ancestry and every scan interval: the variables keep their types, the   *)
(* rows of a scan form trees, and a row outlives one scan that misses its  *)
(* process.                                                                *)
(***************************************************************************)
EXTENDS Tree, Induction

USE TreeAssumption DEF Retention, MaxAge
LEMMA MaxAgeType == Retention \in Nat /\ MaxAge \in Nat /\ Interval <= Retention
OBVIOUS

-----------------------------------------------------------------------------
(***************************************************************************)
(* Climbing.  A snapshot whose parents form no cycle: from a process the   *)
(* climb meets every process at most once, so it passes fewer processes    *)
(* than there are, and what is found above an ancestor is found above the  *)
(* process too.                                                            *)
(***************************************************************************)

Nodes == Pids \cup {Init1, None}

\* Among the processes of any set, one has its parent outside of it.
Acyclic(t) ==
  \A S \in SUBSET DOMAIN t : S # {} => \E p \in S : t[p] \notin S

IsForest(t) ==
  /\ DOMAIN t \subseteq Pids
  /\ \A p \in DOMAIN t : t[p] \in Pids \cup {Init1}
  /\ Acyclic(t)

LEMMA Climb ==
  ASSUME NEW t, IsForest(t), NEW p \in Nodes
  PROVE  /\ Ancestor(t, p) \in [Nat -> Nodes]
         /\ Ancestor(t, p)[0] = p
         /\ \A n \in Nat :
              Ancestor(t, p)[n + 1] =
                IF Ancestor(t, p)[n] \in DOMAIN t THEN t[Ancestor(t, p)[n]] ELSE None
<1> DEFINE up == [x \in Nodes |-> IF x \in DOMAIN t THEN t[x] ELSE None]
           Rec(f) == [n \in Nat |-> IF n = 0 THEN p
                                    ELSE IF f[n - 1] \in DOMAIN t THEN t[f[n - 1]] ELSE None]
<1>1. up \in [Nodes -> Nodes]
  BY DEF IsForest, Nodes
<1>2. PICK f \in [Nat -> Nodes] : f[0] = p /\ \A n \in Nat : n # 0 => f[n] = up[f[n - 1]]
  <2> DEFINE step == [n \in Nat |-> up]
  <2> HIDE DEF up
  <2>1. step \in [Nat -> [Nodes -> Nodes]]
    BY <1>1
  <2>2. \A n \in Nat : step[n] = up
    OBVIOUS
  <2>3. p \in Nodes
    OBVIOUS
  <2> HIDE DEF step
  <2>4. PICK f : Iterated(Nodes, p, step, f)
    BY <2>1, <2>3, Iteration
  <2>5. QED
    BY <2>2, <2>4 DEF Iterated
<1>3. f = Rec(f)
  <2>1. \A n \in Nat : n # 0 => n - 1 \in Nat /\ f[n - 1] \in Nodes
    BY <1>2
  <2>2. \A n \in Nat : f[n] = Rec(f)[n]
    BY <1>2, <2>1
  <2>3. QED
    BY <1>2, <2>2
<1>4. Ancestor(t, p) = Rec(Ancestor(t, p))
  <2>1. Ancestor(t, p) = CHOOSE A : A = Rec(A)
    BY DEF Ancestor
  <2>2. QED
    BY <1>3, <2>1
<1> DEFINE A == Ancestor(t, p)
<1> HIDE DEF A
<1>5. \A n \in Nat : A[n] = IF n = 0 THEN p ELSE IF A[n - 1] \in DOMAIN t THEN t[A[n - 1]] ELSE None
  BY <1>4 DEF A
<1>6. DOMAIN A = Nat /\ A = [n \in Nat |-> A[n]]
  BY <1>4 DEF A
<1>7. A[0] = p /\ \A n \in Nat : A[n + 1] = IF A[n] \in DOMAIN t THEN t[A[n]] ELSE None
  <2>1. \A n \in Nat : n + 1 \in Nat /\ n + 1 # 0 /\ (n + 1) - 1 = n
    OBVIOUS
  <2>2. QED
    BY <1>5, <2>1
<1>8. Nat \subseteq {n \in Nat : A[n] \in Nodes}
  <2> DEFINE S == {n \in Nat : A[n] \in Nodes}
  <2>1. 0 \in S
    BY <1>7
  <2>2. \A n \in Nat : n \in S => n + 1 \in S
    BY <1>7 DEF IsForest, Nodes
  <2> HIDE DEF S
  <2>3. QED
    BY <2>1, <2>2, AllNat DEF S
<1>9. QED
  BY <1>6, <1>7, <1>8 DEF A

LEMMA FirstStep ==
  ASSUME NEW t, IsForest(t), NEW p \in DOMAIN t
  PROVE  p \in Nodes /\ Ancestor(t, p)[0] = p /\ Ancestor(t, p)[1] = t[p]
<1>1. p \in Nodes
  BY DEF IsForest, Nodes
<1>2. /\ Ancestor(t, p)[0] = p
      /\ \A n \in Nat : Ancestor(t, p)[n + 1] =
           IF Ancestor(t, p)[n] \in DOMAIN t THEN t[Ancestor(t, p)[n]] ELSE None
  BY <1>1, Climb
<1>3. Ancestor(t, p)[0 + 1] = t[p]
  BY <1>2
<1>4. QED
  BY <1>1, <1>2, <1>3

\* The climb from an ancestor is the rest of the climb.
LEMMA Compose ==
  ASSUME NEW t, IsForest(t), NEW p \in Nodes, NEW m \in Nat, NEW n \in Nat
  PROVE  /\ Ancestor(t, p)[m] \in Nodes
         /\ Ancestor(t, p)[m + n] = Ancestor(t, Ancestor(t, p)[m])[n]
<1> DEFINE A == Ancestor(t, p)
           B == Ancestor(t, A[m])
<1>1. A \in [Nat -> Nodes] /\ A[m] \in Nodes
  BY Climb
<1>2. /\ B[0] = A[m]
      /\ \A k \in Nat : A[k + 1] = IF A[k] \in DOMAIN t THEN t[A[k]] ELSE None
      /\ \A k \in Nat : B[k + 1] = IF B[k] \in DOMAIN t THEN t[B[k]] ELSE None
  <2>1. \A x \in Nodes : /\ Ancestor(t, x)[0] = x
                         /\ \A k \in Nat :
                              Ancestor(t, x)[k + 1] =
                                IF Ancestor(t, x)[k] \in DOMAIN t THEN t[Ancestor(t, x)[k]]
                                ELSE None
    BY Climb
  <2>2. QED
    BY <1>1, <2>1
<1> DEFINE S == {k \in Nat : A[m + k] = B[k]}
<1> HIDE DEF A, B
<1>3. 0 \in S
  BY <1>2
<1>4. ASSUME NEW k \in Nat, k \in S
      PROVE  k + 1 \in S
  <2>1. m + k \in Nat /\ m + (k + 1) = (m + k) + 1
    OBVIOUS
  <2>2. QED
    BY <1>2, <1>4, <2>1
<1> HIDE DEF S
<1>5. n \in S
  BY <1>3, <1>4, AllNat
<1>6. QED
  BY <1>1, <1>5 DEF A, B, S

\* Every process below an ancestor that runs, runs.
LEMMA Path ==
  ASSUME NEW t, IsForest(t), NEW p \in Nodes, NEW n \in Nat, NEW m \in 0..n,
         Ancestor(t, p)[n] \in DOMAIN t
  PROVE  Ancestor(t, p)[m] \in DOMAIN t
<1> DEFINE A == Ancestor(t, p)
           S == {k \in Nat : A[m + k] \notin DOMAIN t}
<1>1. \A k \in Nat : A[k + 1] = IF A[k] \in DOMAIN t THEN t[A[k]] ELSE None
  BY Climb
<1>2. None \notin DOMAIN t
  BY DEF IsForest
<1> SUFFICES ASSUME A[m] \notin DOMAIN t
             PROVE  A[n] \notin DOMAIN t
  OBVIOUS
<1> HIDE DEF A
<1>3. 0 \in S
  OBVIOUS
<1>4. ASSUME NEW k \in Nat, k \in S
      PROVE  k + 1 \in S
  <2>1. m + k \in Nat /\ m + (k + 1) = (m + k) + 1
    OBVIOUS
  <2>2. QED
    BY <1>1, <1>2, <1>4, <2>1
<1> HIDE DEF S
<1>5. n - m \in S /\ m + (n - m) = n
  BY <1>3, <1>4, AllNat
<1>6. QED
  BY <1>5 DEF S

\* No process is met twice.
LEMMA Once ==
  ASSUME NEW t, IsForest(t), NEW p \in Nodes, NEW i \in Nat, NEW j \in Nat,
         Ancestor(t, p)[i] \in DOMAIN t, Ancestor(t, p)[i] = Ancestor(t, p)[j]
  PROVE  i = j
<1> DEFINE A == Ancestor(t, p)
<1>1. \A k \in Nat : A[k + 1] = IF A[k] \in DOMAIN t THEN t[A[k]] ELSE None
  BY Climb
<1>2. ASSUME NEW a \in Nat, NEW b \in Nat, a < b, A[b] \in DOMAIN t, A[a] = A[b]
      PROVE  FALSE
  <2> DEFINE S == {A[k] : k \in a..b - 1}
  <2>1. \A k \in 0..b : A[k] \in DOMAIN t
    BY <1>2, Path
  <2> HIDE DEF A
  <2>2. S \in SUBSET DOMAIN t
    BY <1>2, <2>1
  <2>3. A[a] \in S
    BY <1>2
  <2>4. PICK x \in S : t[x] \notin S
    BY <2>2, <2>3 DEF IsForest, Acyclic
  <2>5. PICK k \in a..b - 1 : x = A[k]
    BY <2>4
  <2>6. A[k + 1] = t[x]
    BY <1>1, <2>1, <2>5
  <2>7. A[k + 1] \in S
    <3>1. CASE k = b - 1
      BY <1>2, <2>3, <2>5, <3>1
    <3>2. CASE k # b - 1
      BY <2>5, <3>2
    <3>3. QED
      BY <3>1, <3>2
  <2>8. QED
    BY <2>4, <2>6, <2>7
<1>3. QED
  BY <1>2

\* A climb passes fewer processes than there are.
LEMMA Few ==
  ASSUME NEW t, IsForest(t), NEW p \in Nodes, NEW n \in Nat,
         Ancestor(t, p)[n] \in DOMAIN t
  PROVE  Cardinality(Pids) \in Nat /\ n < Cardinality(Pids) /\ n \in Heights \cup {0}
<1> DEFINE D == 0..n
           f == [k \in D |-> Ancestor(t, p)[k]]
<1>1. Cardinality(Pids) \in Nat
  BY FS_CardinalityType
<1>2. ASSUME Cardinality(Pids) < n + 1
      PROVE  FALSE
  <2>1. IsFiniteSet(D) /\ IsFiniteSet(Pids) /\ Cardinality(Pids) < Cardinality(D)
    <3>1. IsFiniteSet(D) /\ Cardinality(D) = n + 1
      BY FS_Interval
    <3>2. QED
      BY <1>2, <3>1
  <2>2. f \in [D -> Pids]
    <3>1. \A k \in 0..n : Ancestor(t, p)[k] \in DOMAIN t
      BY Path
    <3>2. QED
      BY <3>1 DEF IsForest
  <2> HIDE DEF f, D
  <2>3. PICK i, j \in D : i # j /\ f[i] = f[j]
    BY <2>1, <2>2, FS_PigeonHole
  <2>4. Ancestor(t, p)[i] = Ancestor(t, p)[j] /\ Ancestor(t, p)[i] \in DOMAIN t
    BY <2>3, Path DEF f, D
  <2>5. QED
    BY <2>3, <2>4, Once DEF D
<1>3. QED
  BY <1>1, <1>2 DEF Heights

\* The depth of a process below one that runs is its distance.
LEMMA DepthIs ==
  ASSUME NEW t, IsForest(t), NEW p \in Nodes, NEW n \in Nat, NEW r \in DOMAIN t,
         Ancestor(t, p)[n] = r
  PROVE  /\ n \in Heights \cup {0} /\ n \in 0..Cardinality(Pids)
         /\ Below(t, r, p) = {n} /\ Depth(t, r, p) = n
<1>1. n \in Heights \cup {0} /\ n < Cardinality(Pids) /\ Cardinality(Pids) \in Nat
  BY Few
<1>2. \A m \in Heights \cup {0} : m \in Nat
  BY <1>1 DEF Heights
<1>3. \A m \in Nat : Ancestor(t, p)[m] = r => m = n
  BY Once
<1>4. Below(t, r, p) = {n}
  BY <1>1, <1>2, <1>3 DEF Below
<1>5. QED
  BY <1>1, <1>4 DEF Depth

\* A process below a running one is found by climbing.
LEMMA Found ==
  ASSUME NEW t, IsForest(t), NEW p \in Nodes, NEW r \in DOMAIN t, Below(t, r, p) # {}
  PROVE  Depth(t, r, p) \in Nat /\ Ancestor(t, p)[Depth(t, r, p)] = r
<1>1. PICK n \in Below(t, r, p) : TRUE
  OBVIOUS
<1>2. Cardinality(Pids) \in Nat
  BY FS_CardinalityType
<1>3. n \in Nat /\ Ancestor(t, p)[n] = r
  BY <1>1, <1>2 DEF Below, Heights
<1>4. QED
  BY <1>3, DepthIs

\* A process is the shallowest of its own tree.
LEMMA AtRoot ==
  ASSUME NEW t, IsForest(t), NEW r \in DOMAIN t
  PROVE  r \in Descendants(t, r) /\ Depth(t, r, r) = 0 /\ r \in Nodes
<1>1. r \in Nodes
  BY DEF IsForest, Nodes
<1>2. Ancestor(t, r)[0] = r
  BY <1>1, Climb
<1>3. QED
  BY <1>1, <1>2, DepthIs DEF Descendants

\* What excludes an ancestor excludes the process.
LEMMA ExcludedBelow ==
  ASSUME NEW t, IsForest(t), NEW p \in Nodes, NEW m \in Nat,
         IsExcluded(t, Ancestor(t, p)[m])
  PROVE  IsExcluded(t, p)
<1>1. Cardinality(Pids) \in Nat
  BY FS_CardinalityType
<1>2. PICK n \in Heights \cup {0} : Ancestor(t, Ancestor(t, p)[m])[n] \in Excluded \cap DOMAIN t
  BY DEF IsExcluded
<1>3. n \in Nat /\ m + n \in Nat
  BY <1>1 DEF Heights
<1>4. Ancestor(t, p)[m + n] \in Excluded \cap DOMAIN t
  <2>1. Ancestor(t, p)[m + n] = Ancestor(t, Ancestor(t, p)[m])[n]
    BY <1>3, Compose
  <2>2. QED
    BY <1>2, <2>1
<1>5. m + n \in Heights \cup {0}
  BY <1>3, <1>4, Few
<1>6. QED
  BY <1>4, <1>5 DEF IsExcluded

\* The parent of a descendant is a descendant, one step nearer.
LEMMA ParentBelow ==
  ASSUME NEW t, IsForest(t), NEW r \in DOMAIN t, NEW p \in Descendants(t, r), p # r
  PROVE  /\ t[p] \in Descendants(t, r)
         /\ Depth(t, r, t[p]) \in Nat
         /\ Depth(t, r, p) = Depth(t, r, t[p]) + 1
<1>1. p \in DOMAIN t /\ p \in Nodes /\ Below(t, r, p) # {} /\ ~IsExcluded(t, p)
  BY DEF Descendants, IsForest, Nodes
<1> DEFINE n == Depth(t, r, p)
<1>2. n \in Nat /\ Ancestor(t, p)[n] = r
  BY <1>1, Found
<1> HIDE DEF n
<1>3. Ancestor(t, p)[0] = p /\ Ancestor(t, p)[1] = t[p]
  BY <1>1, FirstStep
<1>4. n # 0
  BY <1>2, <1>3
<1>6. t[p] \in DOMAIN t
  <2>1. 1 \in 0..n
    BY <1>2, <1>4
  <2>2. QED
    BY <1>1, <1>2, <1>3, <2>1, Path
<1>7. t[p] \in Nodes
  BY <1>6 DEF IsForest, Nodes
<1>8. n - 1 \in Nat /\ 1 + (n - 1) = n
  BY <1>2, <1>4
<1>9. Ancestor(t, t[p])[n - 1] = r
  BY <1>1, <1>2, <1>3, <1>8, Compose
<1>10. Below(t, r, t[p]) = {n - 1} /\ Depth(t, r, t[p]) = n - 1
  BY <1>7, <1>8, <1>9, DepthIs
<1>11. ~IsExcluded(t, t[p])
  BY <1>1, <1>3, ExcludedBelow
<1>12. QED
  BY <1>2, <1>6, <1>8, <1>10, <1>11 DEF Descendants, n

\* A descendant of a descendant is one too, and not the root.
LEMMA BelowBelow ==
  ASSUME NEW t, IsForest(t), NEW r \in DOMAIN t, NEW u \in DOMAIN t, NEW p \in DOMAIN t,
         Below(t, r, u) # {}, Below(t, u, p) # {}, p # u, ~IsExcluded(t, p)
  PROVE  p \in Descendants(t, r) /\ p # r
<1>1. p \in Nodes /\ u \in Nodes
  BY DEF IsForest, Nodes
<1> DEFINE m == Depth(t, u, p)
           n == Depth(t, r, u)
<1>2. /\ m \in Nat /\ Ancestor(t, p)[m] = u
      /\ n \in Nat /\ Ancestor(t, u)[n] = r
  BY <1>1, Found
<1>3. Ancestor(t, p)[0] = p
  BY <1>1, Climb
<1> HIDE DEF m, n
<1>4. Ancestor(t, p)[m + n] = r /\ m + n \in Nat
  <2>1. Ancestor(t, p)[m + n] = Ancestor(t, Ancestor(t, p)[m])[n]
    BY <1>1, <1>2, Compose
  <2>2. QED
    BY <1>2, <2>1
<1>5. Below(t, r, p) = {m + n}
  BY <1>1, <1>4, DepthIs
<1>6. ASSUME p = r
      PROVE  FALSE
  <2>1. m + n = 0
    BY <1>1, <1>3, <1>4, <1>6, Once
  <2>2. m = 0
    BY <1>2, <2>1
  <2>3. QED
    BY <1>2, <1>3, <2>2
<1>7. QED
  BY <1>5, <1>6 DEF Descendants

-----------------------------------------------------------------------------
(***************************************************************************)
(* The inductive invariant.                                                *)
(***************************************************************************)

\* The parents of the running processes run, and form no cycle.
Processes ==
  /\ Acyclic(parent)
  /\ \A p \in DOMAIN parent : parent[p] \in DOMAIN parent \cup {Init1}

\* So do those of the snapshot; only matched roots are handled, and rows are
\* written only after the snapshot.
Snapshot ==
  /\ Acyclic(tree)
  /\ roots \subseteq MatchedRoots(tree)
  /\ phase # "roots" => roots = {}
  /\ phase \in {"idle", "tree"} => activePids = {}

\* What is folded in a scan is a private executable below a root that has been
\* handled, which has a row unless it is skipped.
FoldedBelow ==
  \A q \in Pids :
    folded[q] # None =>
      /\ phase \in {"roots", "transcripts"}
      /\ folded[q] \in MatchedRoots(tree)
      /\ q \in FoldedIn(tree, folded[q])
      /\ Skipped(folded[q]) \/ folded[q] \in activePids

\* A session's tool is skipped, and its process is a claude.
Attributed ==
  \A s \in txs :
    /\ s.tool \in hasTx
    /\ realPID[s] # None => s.tool = "claude" /\ Tool[realPID[s]] = "claude"

\* The parent of the row of p in the tree of r.
Up(r, p) == IF p = r THEN None ELSE IF tree[p] \in Folded THEN r ELSE tree[p]

\* The row of p is that of a descendant of a matched root; it was adopted if its
\* root was folded when the row was written.
FromTree(p) ==
  /\ agents[p].src = "proc"
  /\ agents[p].root \in MatchedRoots(tree)
  /\ p \in Descendants(tree, agents[p].root) \ FoldedIn(tree, agents[p].root)
  /\ \/ agents[p].parent = Up(agents[p].root, p)
     \/ agents[p].parent # None /\ p # agents[p].root /\ Adopted(p)
  /\ agents[p].depth = Depth(tree, agents[p].root, p)

\* The row of p is that of a session.
FromSession(p) ==
  /\ phase = "transcripts"
  /\ agents[p].src = "transcript" /\ agents[p].parent = None /\ agents[p].depth = 0
  /\ p \in Pids => Tool[p] = "claude" /\ Skipped(p)

\* The parent of a row is a skipped root, or a row, of the same root unless the
\* row of p was adopted.
HangsBelow(p) ==
  agents[p].src = "proc" /\ agents[p].parent # None =>
    \/ agents[p].parent \in Pids /\ Skipped(agents[p].parent)
    \/ /\ agents[p].parent \in activePids
       /\ agents[agents[p].parent].src = "proc"
       /\ Adopted(p) \/ agents[agents[p].parent].root = agents[p].root

RowsInv == \A p \in activePids : (FromTree(p) \/ FromSession(p)) /\ HangsBelow(p)

TreeInv ==
  TypeOK /\ Processes /\ Snapshot /\ FoldedBelow /\ Attributed /\ RowsInv

LEMMA Forests ==
  ASSUME TreeInv
  PROVE  IsForest(parent) /\ IsForest(tree)
BY DEF TreeInv, TypeOK, Processes, Snapshot, IsForest

LEMMA MatchedType ==
  ASSUME NEW t
  PROVE  MatchedRoots(t) \subseteq DOMAIN t
BY DEF MatchedRoots

\* The processes fork and exit without closing a cycle.
LEMMA ProcessesStep ==
  ASSUME TreeInv, [Next]_vars
  PROVE  Processes'
<1> USE DEF TreeInv, TypeOK, Processes
<1>1. ASSUME NEW p \in Pids, Fork(p)
      PROVE  Processes'
  <2>1. /\ DOMAIN parent' = DOMAIN parent \cup {p}
        /\ \A q \in DOMAIN parent' : parent'[q] = IF q = p THEN Home[p] ELSE parent[q]
        /\ p \notin DOMAIN parent
        /\ Home[p] \in DOMAIN parent \cup {Init1}
    BY <1>1 DEF Fork
  <2>2. Acyclic(parent)'
    <3> SUFFICES ASSUME NEW S \in SUBSET DOMAIN parent', S # {}
                 PROVE  \E q \in S : parent'[q] \notin S
      BY DEF Acyclic
    <3>1. CASE S \ {p} = {}
      <4>1. S = {p} /\ Home[p] # p
        BY <2>1, <3>1
      <4>2. QED
        BY <2>1, <4>1
    <3>2. CASE S \ {p} # {}
      <4>1. S \ {p} \in SUBSET DOMAIN parent
        BY <2>1
      <4>2. PICK q \in S \ {p} : parent[q] \notin S \ {p}
        BY <3>2, <4>1 DEF Acyclic
      <4>3. q \in DOMAIN parent /\ parent[q] # p
        BY <2>1, <4>1, <4>2
      <4>4. QED
        BY <2>1, <4>2, <4>3
    <3>3. QED
      BY <3>1, <3>2
  <2>3. QED
    BY <2>1, <2>2
<1>2. ASSUME NEW p \in Pids, Exit(p)
      PROVE  Processes'
  <2>1. /\ DOMAIN parent' = DOMAIN parent \ {p}
        /\ \A q \in DOMAIN parent' : parent'[q] = IF parent[q] = p THEN Init1 ELSE parent[q]
    BY <1>2 DEF Exit
  <2>2. Acyclic(parent)'
    <3> SUFFICES ASSUME NEW S \in SUBSET DOMAIN parent', S # {}
                 PROVE  \E q \in S : parent'[q] \notin S
      BY DEF Acyclic
    <3>1. S \in SUBSET DOMAIN parent
      BY <2>1
    <3>2. PICK q \in S : parent[q] \notin S
      BY <3>1 DEF Acyclic
    <3>3. Init1 \notin S
      BY <3>1
    <3>4. QED
      BY <2>1, <3>2, <3>3
  <2>3. QED
    BY <2>1, <2>2
<1>3. CASE UNCHANGED parent
  BY <1>3 DEF Acyclic
<1>4. QED
  BY <1>1, <1>2, <1>3
     DEF Next, ScanStep, Tick, ScanTranscripts, BuildTree, HandleRoot, EndRoots,
         HandleTranscript, EndScan, vars

\* A snapshot of running processes is a forest, and roots come from it.
LEMMA SnapshotStep ==
  ASSUME TreeInv, [Next]_vars
  PROVE  Snapshot'
<1> USE DEF TreeInv, TypeOK, Processes, Snapshot
<1>1. CASE BuildTree
  <2>1. PICK torn \in SUBSET DOMAIN parent :
          /\ tree' = [p \in DOMAIN parent \ torn |-> parent[p]]
          /\ roots' = MatchedRoots(tree')
    BY <1>1 DEF BuildTree
  <2>2. /\ DOMAIN tree' \subseteq DOMAIN parent
        /\ \A p \in DOMAIN tree' : tree'[p] = parent[p]
    BY <2>1
  <2>3. Acyclic(tree)'
    <3> SUFFICES ASSUME NEW S \in SUBSET DOMAIN tree', S # {}
                 PROVE  \E p \in S : tree'[p] \notin S
      BY DEF Acyclic
    <3>1. S \in SUBSET DOMAIN parent
      BY <2>2
    <3>2. PICK p \in S : parent[p] \notin S
      BY <3>1 DEF Acyclic
    <3>3. QED
      BY <2>2, <3>2
  <2>4. phase' = "roots"
    BY <1>1 DEF BuildTree
  <2>5. (roots \subseteq MatchedRoots(tree))'
    BY <2>1
  <2>6. QED
    BY <2>3, <2>4, <2>5
<1>2. CASE EndScan
  <2>1. /\ tree' = NoTree /\ activePids' = {} /\ UNCHANGED roots
        /\ phase = "transcripts"
    BY <1>2 DEF EndScan
  <2>2. DOMAIN tree' = {}
    BY <2>1 DEF NoTree
  <2>3. Acyclic(tree)'
    BY <2>2 DEF Acyclic
  <2>4. QED
    BY <2>1, <2>3
<1>3. ASSUME UNCHANGED tree, roots' \subseteq roots,
             phase' # "roots" => roots' = {},
             phase' \in {"idle", "tree"} =>
               phase \in {"idle", "tree"} /\ activePids' = activePids
      PROVE  Snapshot'
  <2>1. Acyclic(tree)'
    BY <1>3 DEF Acyclic
  <2>2. (roots \subseteq MatchedRoots(tree))'
    BY <1>3
  <2>3. QED
    BY <1>3, <2>1, <2>2
<1>4. ASSUME NEW r \in Pids, HandleRoot(r)
      PROVE  Snapshot'
  BY <1>3, <1>4 DEF HandleRoot
<1>5. ASSUME NEW s \in Sessions, HandleTranscript(s)
      PROVE  Snapshot'
  BY <1>3, <1>5 DEF HandleTranscript
<1>6. CASE Tick \/ ScanTranscripts \/ EndRoots \/ UNCHANGED vars
  BY <1>3, <1>6 DEF Tick, ScanTranscripts, EndRoots, vars, scanVars
<1>7. ASSUME NEW p \in Pids, Fork(p) \/ Exit(p)
      PROVE  Snapshot'
  BY <1>3, <1>7 DEF Fork, Exit, scanVars
<1>8. QED
  BY <1>1, <1>2, <1>4, <1>5, <1>6, <1>7 DEF Next, ScanStep

\* The latest of the processes of a project is one of them.
LEMMA Latest ==
  ASSUME TreeInv, NEW cwd, ClaudesIn(cwd) # {}
  PROVE  Max(ClaudesIn(cwd)) \in ClaudesIn(cwd)
<1>1. ClaudesIn(cwd) \in SUBSET Int /\ IsFiniteSet(ClaudesIn(cwd))
  <2>1. ClaudesIn(cwd) \in SUBSET Pids
    BY DEF ClaudesIn, TreeInv, TypeOK
  <2>2. IsFiniteSet(Pids) /\ Pids \subseteq Int
    OBVIOUS
  <2>3. QED
    BY <2>1, <2>2, FS_Subset
<1>2. \E x \in ClaudesIn(cwd) : \A y \in ClaudesIn(cwd) : x >= y
  BY <1>1, Greatest
<1>3. QED
  BY <1>2 DEF Max

LEMMA AttributedStep ==
  ASSUME TreeInv, [Next]_vars
  PROVE  Attributed'
<1>1. CASE ScanTranscripts
  <2>1. /\ txs' \subseteq {s \in Sessions : Listed(s)}
        /\ realPID' = [s \in Sessions |-> IF s \in txs' /\ s.tool = "claude"
                                          THEN Max(ClaudesIn(s.cwd)) ELSE None]
        /\ hasTx' = {s.tool : s \in txs'}
    BY <1>1 DEF ScanTranscripts
  <2>2. ASSUME NEW s \in txs', realPID'[s] # None
        PROVE  s.tool = "claude" /\ Tool[realPID'[s]] = "claude"
    <3>1. s.tool = "claude" /\ realPID'[s] = Max(ClaudesIn(s.cwd)) /\ Listed(s)
      BY <2>1, <2>2
    <3>2. realPID'[s] \in ClaudesIn(s.cwd)
      BY <3>1, Latest DEF Listed
    <3>3. QED
      BY <3>1, <3>2 DEF ClaudesIn
  <2>3. QED
    BY <2>1, <2>2 DEF Attributed
<1>2. CASE EndScan
  BY <1>2 DEF EndScan, Attributed
<1>3. CASE UNCHANGED <<hasTx, realPID>> /\ txs' \subseteq txs
  BY <1>3 DEF TreeInv, Attributed
<1>4. QED
  BY <1>1, <1>2, <1>3
     DEF Next, ScanStep, Tick, Fork, Exit, BuildTree, HandleRoot, EndRoots,
         HandleTranscript, vars, scanVars

-----------------------------------------------------------------------------
(***************************************************************************)
(* Handling one root.                                                      *)
(***************************************************************************)

\* The rows that handling r writes.
Shown(r) == {p \in Descendants(tree, r) \ FoldedIn(tree, r) : p = r => ~Skipped(r)}

\* What handling a root does to the table, as far as rows are concerned.
LEMMA HandleRootWrites ==
  ASSUME TreeInv, NEW r \in Pids, HandleRoot(r)
  PROVE  /\ r \in MatchedRoots(tree) /\ r \in DOMAIN tree /\ IsForest(tree)
         /\ Shown(r) \subseteq DOMAIN tree /\ Shown(r) \subseteq Pids
         /\ activePids' = activePids \cup Shown(r)
         /\ \A q \in Pids : folded'[q] = IF q \in FoldedIn(tree, r) THEN r ELSE folded[q]
         /\ \A p \in Shown(r) :
              agents'[p] = [parent |-> ParentOf(r, p), root |-> r, src |-> "proc",
                            depth |-> Depth(tree, r, p), age |-> elapsed]
         /\ \A p \in RowPids \ Shown(r) : agents'[p] = agents[p]
         /\ DOMAIN agents' = RowPids
         /\ agents' = [p \in RowPids |-> agents'[p]]
<1>1. r \in roots /\ roots \subseteq MatchedRoots(tree)
  BY DEF HandleRoot, TreeInv, Snapshot
<1>2. r \in MatchedRoots(tree) /\ r \in DOMAIN tree
  BY <1>1, MatchedType
<1>3. IsForest(tree)
  BY Forests
<1>4. Shown(r) \subseteq DOMAIN tree /\ Shown(r) \subseteq Pids
  BY <1>3 DEF Shown, Descendants, IsForest
<1>5. Shown(r) \subseteq RowPids
  BY <1>4 DEF RowPids
<1>6. /\ activePids' = activePids \cup Shown(r)
      /\ agents' = [p \in RowPids |->
                      IF p \in Shown(r)
                      THEN [parent |-> ParentOf(r, p), root |-> r, src |-> "proc",
                            depth |-> Depth(tree, r, p), age |-> elapsed]
                      ELSE agents[p]]
      /\ folded' = [p \in Pids |-> IF p \in FoldedIn(tree, r) THEN r ELSE folded[p]]
  BY DEF HandleRoot, Shown
<1>7. QED
  BY <1>2, <1>3, <1>4, <1>5, <1>6

\* The parent pointer of a row: what is folded below the root being handled leads
\* to that root, never to one that was handled before; only the children of that
\* root itself are adopted by the root that folded it.
LEMMA ParentIsUp ==
  ASSUME TreeInv, NEW r \in Pids, HandleRoot(r), NEW p \in Shown(r)
  PROVE  /\ ParentOf(r, p) \in Pids \cup {None}
         /\ p # r => tree[p] \in Descendants(tree, r)
         /\ \/ ParentOf(r, p) = Up(r, p)
            \/ /\ p # r /\ tree[p] = r
               /\ ParentOf(r, p) = folded[r] /\ folded[r] # None
<1>1. /\ r \in MatchedRoots(tree) /\ r \in DOMAIN tree /\ IsForest(tree)
      /\ \A q \in Pids : folded'[q] = IF q \in FoldedIn(tree, r) THEN r ELSE folded[q]
  BY HandleRootWrites
<1>2. CASE p = r
  BY <1>2 DEF ParentOf, Up
<1>3. CASE p # r
  <2> DEFINE u == tree[p]
  <2>1. u \in Descendants(tree, r)
    BY <1>1, <1>3, ParentBelow DEF Shown
  <2>2. u \in Pids
    BY <1>1, <2>1 DEF Descendants, IsForest
  <2> HIDE DEF u
  <2>3. CASE u \in Folded /\ u # r
    <3>1. u \in FoldedIn(tree, r)
      BY <2>1, <2>3 DEF FoldedIn
    <3>2. folded'[u] = r /\ r # None
      BY <1>1, <2>2, <3>1
    <3>3. QED
      BY <1>3, <2>1, <2>2, <2>3, <3>2 DEF ParentOf, Up, u
  <2>4. CASE u = r
    <3>1. folded'[u] = folded[r] /\ folded[r] \in Pids \cup {None}
      BY <1>1, <2>2, <2>4 DEF FoldedIn, TreeInv, TypeOK
    <3>2. QED
      BY <1>3, <2>1, <2>2, <2>4, <3>1 DEF ParentOf, Up, u
  <2>5. CASE u \notin Folded /\ u # r
    <3>1. folded'[u] = None
      BY <1>1, <2>2, <2>5 DEF FoldedIn, TreeInv, FoldedBelow
    <3>2. QED
      BY <1>3, <2>1, <2>2, <2>5, <3>1 DEF ParentOf, Up, u
  <2>6. QED
    BY <2>3, <2>4, <2>5
<1>4. QED
  BY <1>2, <1>3

LEMMA FoldedStep ==
  ASSUME TreeInv, [Next]_vars
  PROVE  FoldedBelow'
<1>1. ASSUME NEW r \in Pids, HandleRoot(r)
      PROVE  FoldedBelow'
  <2>1. /\ r \in DOMAIN tree /\ IsForest(tree)
        /\ \A q \in Pids : folded'[q] = IF q \in FoldedIn(tree, r) THEN r ELSE folded[q]
    BY <1>1, HandleRootWrites
  <2>2. UNCHANGED <<phase, tree, hasTx>> /\ phase = "roots"
    BY <1>1 DEF HandleRoot
  <2>3. Skipped(r) \/ r \in activePids'
    BY <1>1, <2>1, AtRoot, HandleRootWrites DEF Shown, FoldedIn
  <2>4. activePids \subseteq activePids' /\ r \in MatchedRoots(tree)
    BY <1>1, HandleRootWrites
  <2>5. \A x : Skipped(x)' <=> Skipped(x)
    BY <2>2 DEF Skipped
  <2>6. QED
    BY <2>1, <2>2, <2>3, <2>4, <2>5 DEF TreeInv, FoldedBelow
<1>2. CASE \A q \in Pids : folded'[q] = None
  BY <1>2 DEF FoldedBelow
<1>3. CASE BuildTree \/ EndScan
  BY <1>2, <1>3 DEF BuildTree, EndScan
<1>4. CASE ScanTranscripts
  <2>1. \A q \in Pids : folded[q] = None
    BY <1>4 DEF ScanTranscripts, TreeInv, FoldedBelow
  <2>2. QED
    BY <1>2, <1>4, <2>1 DEF ScanTranscripts
<1>5. ASSUME UNCHANGED <<folded, tree, hasTx>>, phase' = phase \/ phase' = "transcripts",
             activePids \subseteq activePids'
      PROVE  FoldedBelow'
  <2>1. \A x : Skipped(x)' <=> Skipped(x)
    BY <1>5 DEF Skipped
  <2>2. QED
    BY <1>5, <2>1 DEF TreeInv, FoldedBelow
<1>6. ASSUME NEW s \in Sessions, HandleTranscript(s)
      PROVE  FoldedBelow'
  BY <1>5, <1>6 DEF HandleTranscript
<1>7. CASE Tick \/ EndRoots \/ UNCHANGED vars
  BY <1>5, <1>7 DEF Tick, EndRoots, vars, scanVars
<1>8. ASSUME NEW p \in Pids, Fork(p) \/ Exit(p)
      PROVE  FoldedBelow'
  BY <1>5, <1>8 DEF Fork, Exit, scanVars
<1>9. QED
  BY <1>1, <1>3, <1>4, <1>6, <1>7, <1>8 DEF Next, ScanStep

-----------------------------------------------------------------------------
(***************************************************************************)
(* Types.                                                                  *)
(***************************************************************************)

LEMMA AgeType == \A n \in 0..MaxAge : Aged(n, MaxAge) \in 0..MaxAge
BY MaxAgeType DEF Aged

LEMMA NoRowIsRow == NoRow \in AgentRow
<1>1. Cardinality(Pids) \in Nat
  BY FS_CardinalityType
<1>2. QED
  BY <1>1, MaxAgeType DEF NoRow, AgentRow

\* The times of a scan.
LEMMA TimesStep ==
  ASSUME TypeOK, [Next]_vars
  PROVE  elapsed' \in 0..MaxScan /\ sinceScan' \in 0..MaxAge
<1>1. MaxAge \in Nat /\ 0..MaxScan \subseteq 0..MaxAge
  BY MaxAgeType
<1>2. CASE Tick
  BY <1>1, <1>2, AgeType DEF Tick, TypeOK
<1>3. CASE elapsed' \in {0, elapsed} /\ sinceScan' \in {elapsed, sinceScan}
  BY <1>1, <1>3 DEF TypeOK
<1>4. QED
  BY <1>2, <1>3
     DEF Next, ScanStep, Fork, Exit, ScanTranscripts, BuildTree, HandleRoot, EndRoots,
         HandleTranscript, EndScan, vars, scanVars

\* The rows.
LEMMA TableStep ==
  ASSUME TreeInv, [Next]_vars
  PROVE  activePids' \subseteq RowPids /\ agents' \in [RowPids -> AgentRow]
<1>0. /\ activePids \subseteq RowPids /\ agents \in [RowPids -> AgentRow]
      /\ elapsed \in 0..MaxScan
  BY DEF TreeInv, TypeOK
<1>1. 0..MaxScan \subseteq 0..MaxAge /\ Cardinality(Pids) \in Nat
  BY MaxAgeType, FS_CardinalityType
<1>2. CASE Tick
  <2>1. ASSUME NEW p \in RowPids
        PROVE  [agents[p] EXCEPT !.age = Aged(@, MaxAge)] \in AgentRow
    BY <1>0, AgeType DEF AgentRow
  <2>2. QED
    BY <1>0, <1>2, <2>1 DEF Tick
<1>3. ASSUME NEW r \in Pids, HandleRoot(r)
      PROVE  activePids' \subseteq RowPids /\ agents' \in [RowPids -> AgentRow]
  <2>1. /\ r \in DOMAIN tree /\ IsForest(tree)
        /\ Shown(r) \subseteq Pids
        /\ activePids' = activePids \cup Shown(r)
        /\ \A p \in Shown(r) :
             agents'[p] = [parent |-> ParentOf(r, p), root |-> r, src |-> "proc",
                           depth |-> Depth(tree, r, p), age |-> elapsed]
        /\ \A p \in RowPids \ Shown(r) : agents'[p] = agents[p]
        /\ agents' = [p \in RowPids |-> agents'[p]]
    BY <1>3, HandleRootWrites
  <2>2. ASSUME NEW p \in Shown(r)
        PROVE  agents'[p] \in AgentRow
    <3>1. Depth(tree, r, p) \in 0..Cardinality(Pids)
      <4>1. p \in Descendants(tree, r) /\ p \in Nodes
        BY <2>1 DEF Shown, Nodes
      <4>2. Depth(tree, r, p) \in Nat /\ Ancestor(tree, p)[Depth(tree, r, p)] = r
        BY <2>1, <4>1, Found DEF Descendants
      <4>3. QED
        BY <2>1, <4>1, <4>2, DepthIs
    <3>2. ParentOf(r, p) \in Pids \cup {None}
      BY <1>3, ParentIsUp
    <3>3. elapsed \in 0..MaxAge
      BY <1>0, <1>1
    <3>4. agents'[p] = [parent |-> ParentOf(r, p), root |-> r, src |-> "proc",
                        depth |-> Depth(tree, r, p), age |-> elapsed]
      BY <2>1
    <3>5. QED
      BY <3>1, <3>2, <3>3, <3>4 DEF AgentRow
  <2>3. \A p \in RowPids : agents'[p] \in AgentRow
    BY <1>0, <2>1, <2>2
  <2>4. QED
    BY <1>0, <2>1, <2>3 DEF RowPids
<1>4. ASSUME NEW s \in Sessions, HandleTranscript(s)
      PROVE  activePids' \subseteq RowPids /\ agents' \in [RowPids -> AgentRow]
  <2>1. AgentPID(s) \in Pids \cup {x.pid : x \in Sessions}
    BY DEF AgentPID, TreeInv, TypeOK
  <2>2. [parent |-> None, root |-> AgentPID(s), src |-> "transcript",
         depth |-> 0, age |-> elapsed] \in AgentRow
    <3>1. elapsed \in 0..MaxAge /\ 0 \in 0..Cardinality(Pids)
      BY <1>0, <1>1
    <3>2. QED
      BY <2>1, <3>1 DEF AgentRow
  <2>3. QED
    BY <1>0, <1>4, <2>1, <2>2 DEF HandleTranscript, RowPids
<1>5. CASE EndScan
  BY <1>0, <1>5, NoRowIsRow DEF EndScan, Prune
<1>6. CASE UNCHANGED <<activePids, agents>>
  BY <1>0, <1>6
<1>7. QED
  BY <1>2, <1>3, <1>4, <1>5, <1>6
     DEF Next, ScanStep, Fork, Exit, ScanTranscripts, BuildTree, EndRoots, vars, scanVars

LEMMA TypeStep ==
  ASSUME TreeInv, [Next]_vars
  PROVE  TypeOK'
<1>1. DOMAIN parent' \subseteq Pids /\ \A p \in DOMAIN parent' : parent'[p] \in Pids \cup {Init1}
  <2>1. CASE UNCHANGED parent
    BY <2>1 DEF TreeInv, TypeOK
  <2>2. ASSUME NEW p \in Pids, Fork(p)
        PROVE  DOMAIN parent' \subseteq Pids
               /\ \A q \in DOMAIN parent' : parent'[q] \in Pids \cup {Init1}
    BY <2>2 DEF Fork, TreeInv, TypeOK
  <2>3. ASSUME NEW p \in Pids, Exit(p)
        PROVE  DOMAIN parent' \subseteq Pids
               /\ \A q \in DOMAIN parent' : parent'[q] \in Pids \cup {Init1}
    BY <2>3 DEF Exit, TreeInv, TypeOK
  <2>4. QED
    BY <2>1, <2>2, <2>3
       DEF Next, ScanStep, Tick, ScanTranscripts, BuildTree, HandleRoot, EndRoots,
           HandleTranscript, EndScan, vars
<1>2. DOMAIN tree' \subseteq Pids /\ \A p \in DOMAIN tree' : tree'[p] \in Pids \cup {Init1}
  <2>1. CASE UNCHANGED tree
    BY <2>1 DEF TreeInv, TypeOK
  <2>2. CASE BuildTree
    BY <2>2 DEF BuildTree, TreeInv, TypeOK
  <2>3. CASE EndScan
    BY <2>3 DEF EndScan, NoTree
  <2>4. QED
    BY <2>1, <2>2, <2>3
       DEF Next, ScanStep, Tick, Fork, Exit, ScanTranscripts, HandleRoot, EndRoots,
           HandleTranscript, vars, scanVars
<1>3. phase' \in {"idle", "tree", "roots", "transcripts"} /\ txs' \subseteq Sessions
  BY DEF TreeInv, TypeOK, Next, ScanStep, Tick, Fork, Exit, ScanTranscripts, BuildTree,
         HandleRoot, EndRoots, HandleTranscript, EndScan, vars, scanVars
<1>4. realPID' \in [Sessions -> Pids \cup {None}] /\ hasTx' \subseteq TxTools
  <2>1. CASE ScanTranscripts
    <3>1. /\ txs' \subseteq {s \in Sessions : Listed(s)}
          /\ realPID' = [s \in Sessions |-> IF s \in txs' /\ s.tool = "claude"
                                            THEN Max(ClaudesIn(s.cwd)) ELSE None]
          /\ hasTx' = {s.tool : s \in txs'}
      BY <2>1 DEF ScanTranscripts
    <3>2. ASSUME NEW s \in txs', s.tool = "claude"
          PROVE  Max(ClaudesIn(s.cwd)) \in Pids
      <4>1. Max(ClaudesIn(s.cwd)) \in ClaudesIn(s.cwd)
        BY <3>1, <3>2, Latest DEF Listed
      <4>2. QED
        BY <4>1 DEF ClaudesIn, TreeInv, TypeOK
    <3>3. QED
      BY <3>1, <3>2
  <2>2. CASE EndScan
    BY <2>2 DEF EndScan
  <2>3. CASE UNCHANGED <<realPID, hasTx>>
    BY <2>3 DEF TreeInv, TypeOK
  <2>4. QED
    BY <2>1, <2>2, <2>3
       DEF Next, ScanStep, Tick, Fork, Exit, BuildTree, HandleRoot, EndRoots,
           HandleTranscript, vars, scanVars
<1>5. roots' \subseteq Pids
  <2>1. roots' \subseteq DOMAIN tree'
    BY SnapshotStep, MatchedType DEF Snapshot
  <2>2. QED
    BY <1>2, <2>1
<1>6. folded' \in [Pids -> Pids \cup {None}]
  <2>1. ASSUME NEW r \in Pids, HandleRoot(r)
        PROVE  folded' \in [Pids -> Pids \cup {None}]
    BY <2>1 DEF HandleRoot, TreeInv, TypeOK
  <2>2. CASE BuildTree \/ EndScan
    BY <2>2 DEF BuildTree, EndScan
  <2>3. CASE UNCHANGED folded
    BY <2>3 DEF TreeInv, TypeOK
  <2>4. QED
    BY <2>1, <2>2, <2>3
       DEF Next, ScanStep, Tick, Fork, Exit, ScanTranscripts, EndRoots,
           HandleTranscript, vars, scanVars
<1>7. QED
  BY <1>1, <1>2, <1>3, <1>4, <1>5, <1>6, TimesStep, TableStep DEF TypeOK, TreeInv

-----------------------------------------------------------------------------
(***************************************************************************)
(* Rows.                                                                   *)
(***************************************************************************)

\* A row whose parent is rewritten below another root is rewritten with it.
LEMMA RewrittenTogether ==
  ASSUME TreeInv, NEW r \in Pids, HandleRoot(r), NEW p \in activePids, FromTree(p),
         agents[p].parent # None, agents[p].parent \in Shown(r)
  PROVE  p \in Shown(r)
<1> DEFINE o == agents[p].root
           u == agents[p].parent
<1>1. r \in DOMAIN tree /\ IsForest(tree)
  BY HandleRootWrites
<1>2. /\ o \in DOMAIN tree /\ p \in Descendants(tree, o) \ FoldedIn(tree, o)
      /\ u = Up(o, p) \/ (p # o /\ u = folded[o])
  BY MatchedType DEF FromTree, Adopted
<1>3. p # o
  BY <1>2 DEF Up
<1>4. p \in DOMAIN tree /\ ~IsExcluded(tree, p) /\ Below(tree, o, p) # {} /\ p \notin Folded
  BY <1>2, <1>3 DEF Descendants, FoldedIn
<1>5. /\ tree[p] \in Descendants(tree, o) /\ Depth(tree, o, tree[p]) \in Nat
      /\ Depth(tree, o, p) = Depth(tree, o, tree[p]) + 1
  BY <1>1, <1>2, <1>3, ParentBelow
<1>6. u \in DOMAIN tree /\ Below(tree, u, p) # {} /\ p # u
  <2>1. CASE u = o
    BY <1>2, <1>3, <1>4, <2>1
  <2>2. CASE u = tree[p]
    <3>1. u \in DOMAIN tree
      BY <1>5, <2>2 DEF Descendants
    <3>2. Below(tree, u, p) = {1}
      BY <1>1, <1>4, <2>2, <3>1, FirstStep, DepthIs
    <3>3. QED
      BY <1>5, <2>2, <3>1, <3>2
  <2>3. CASE u = folded[o]
    <3>1. o \in Pids /\ folded[o] # None
      BY <1>1, <1>2, <2>3 DEF IsForest
    <3>2. u \in MatchedRoots(tree) /\ o \in FoldedIn(tree, u)
      BY <2>3, <3>1 DEF TreeInv, FoldedBelow
    <3>3. u \in DOMAIN tree /\ Below(tree, u, o) # {}
      BY <3>2, MatchedType DEF FoldedIn, Descendants
    <3> HIDE DEF u, o
    <3>4. p \in Descendants(tree, u) /\ p # u
      BY <1>1, <1>2, <1>3, <1>4, <3>3, BelowBelow
    <3>5. QED
      BY <3>3, <3>4 DEF Descendants
  <2>4. QED
    BY <1>2, <1>3, <2>1, <2>2, <2>3 DEF Up
<1>7. Below(tree, r, u) # {}
  BY DEF Shown, Descendants
<1> HIDE DEF u, o
<1>8. p \in Descendants(tree, r) /\ p # r
  BY <1>1, <1>4, <1>6, <1>7, BelowBelow
<1>9. QED
  BY <1>4, <1>8 DEF Shown, FoldedIn

\* A row that is not rewritten keeps what its root was folded into.
LEMMA FoldedTogether ==
  ASSUME TreeInv, NEW r \in Pids, HandleRoot(r), NEW p \in activePids, FromTree(p),
         p # agents[p].root, p \notin Shown(r)
  PROVE  folded'[agents[p].root] = folded[agents[p].root]
<1> DEFINE o == agents[p].root
<1>1. /\ r \in DOMAIN tree /\ IsForest(tree)
      /\ \A q \in Pids : folded'[q] = IF q \in FoldedIn(tree, r) THEN r ELSE folded[q]
  BY HandleRootWrites
<1>2. o \in DOMAIN tree /\ o \in Pids /\ p \in Descendants(tree, o) \ FoldedIn(tree, o)
  BY <1>1, MatchedType DEF FromTree, IsForest
<1>3. p \in DOMAIN tree /\ ~IsExcluded(tree, p) /\ Below(tree, o, p) # {} /\ p \notin Folded
  BY <1>2 DEF Descendants, FoldedIn
<1> HIDE DEF o
<1>4. ASSUME o \in FoldedIn(tree, r)
      PROVE  FALSE
  <2>1. Below(tree, r, o) # {}
    BY <1>4 DEF FoldedIn, Descendants
  <2>2. p \in Descendants(tree, r) /\ p # r
    BY <1>1, <1>2, <1>3, <2>1, BelowBelow DEF o
  <2>3. QED
    BY <1>3, <2>2 DEF Shown, FoldedIn
<1>5. QED
  BY <1>1, <1>2, <1>4 DEF o

LEMMA RowsHandleRoot ==
  ASSUME TreeInv, NEW r \in Pids, HandleRoot(r)
  PROVE  RowsInv'
<1>1. /\ r \in MatchedRoots(tree) /\ r \in DOMAIN tree /\ IsForest(tree)
      /\ Shown(r) \subseteq Pids
      /\ activePids' = activePids \cup Shown(r)
      /\ \A p \in Shown(r) :
           agents'[p] = [parent |-> ParentOf(r, p), root |-> r, src |-> "proc",
                         depth |-> Depth(tree, r, p), age |-> elapsed]
      /\ \A p \in RowPids \ Shown(r) : agents'[p] = agents[p]
      /\ \A q \in Pids : folded'[q] = IF q \in FoldedIn(tree, r) THEN r ELSE folded[q]
  BY HandleRootWrites
<1>2. UNCHANGED <<phase, tree, hasTx>> /\ phase = "roots" /\ activePids \subseteq RowPids
  BY DEF HandleRoot, TreeInv, TypeOK
<1>3. ASSUME NEW p \in Shown(r)
      PROVE  FromTree(p)' /\ HangsBelow(p)'
  <2>1. /\ agents'[p].src = "proc" /\ agents'[p].root = r
        /\ agents'[p].depth = Depth(tree, r, p)
        /\ agents'[p].parent = ParentOf(r, p)
    <3>1. agents'[p] = [parent |-> ParentOf(r, p), root |-> r, src |-> "proc",
                        depth |-> Depth(tree, r, p), age |-> elapsed]
      BY <1>1
    <3>2. QED
      BY <3>1
  <2>2. p \in Descendants(tree, r) \ FoldedIn(tree, r)
    BY DEF Shown
  <2> DEFINE Taken == p # r /\ tree[p] = r /\ ParentOf(r, p) = folded[r] /\ folded[r] # None
  <2>3. folded'[r] = folded[r]
    BY <1>1 DEF FoldedIn
  <2>4. Taken => Adopted(p)'
    BY <1>2, <2>1, <2>3 DEF Adopted
  <2>5. ParentOf(r, p) = Up(r, p) \/ Taken
    BY ParentIsUp
  <2>6. UNCHANGED tree => Up(r, p)' = Up(r, p)
    BY DEF Up
  <2> HIDE DEF Taken
  <2>7. FromTree(p)'
    <3>1. Taken => agents'[p].parent # None /\ p # agents'[p].root
      BY <2>1 DEF Taken
    <3>2. \/ agents'[p].parent = Up(r, p)'
          \/ agents'[p].parent # None /\ p # agents'[p].root /\ Adopted(p)'
      BY <1>2, <2>1, <2>4, <2>5, <2>6, <3>1
    <3>3. (agents[p].parent = Up(agents[p].root, p))' <=> agents'[p].parent = Up(r, p)'
      BY <2>1 DEF Up
    <3>4. QED
      BY <1>1, <1>2, <2>1, <2>2, <3>2, <3>3 DEF FromTree
  <2>8. ASSUME Up(r, p) # None, ~(Up(r, p) \in Pids /\ Skipped(Up(r, p)))
        PROVE  Up(r, p) \in Shown(r)
    <3>1. p # r
      BY <2>8 DEF Up
    <3>2. tree[p] \in Descendants(tree, r)
      BY <3>1, ParentIsUp
    <3>3. CASE Up(r, p) = r
      BY <1>1, <2>8, <3>3, AtRoot DEF Shown, FoldedIn
    <3>4. CASE Up(r, p) = tree[p] /\ tree[p] \notin Folded /\ tree[p] # r
      BY <3>2, <3>4 DEF Shown, FoldedIn
    <3>5. QED
      BY <3>1, <3>3, <3>4 DEF Up
  <2>9. HangsBelow(p)'
    <3>1. \A x : Skipped(x)' <=> Skipped(x)
      BY <1>2 DEF Skipped
    <3>2. ASSUME NEW x \in Shown(r)
          PROVE  agents'[x].src = "proc" /\ agents'[x].root = r
      <4>1. agents'[x] = [parent |-> ParentOf(r, x), root |-> r, src |-> "proc",
                          depth |-> Depth(tree, r, x), age |-> elapsed]
        BY <1>1
      <4>2. QED
        BY <4>1
    <3>3. Shown(r) \subseteq activePids'
      BY <1>1
    <3>4. CASE ParentOf(r, p) = Up(r, p)
      BY <2>1, <2>8, <3>1, <3>2, <3>3, <3>4 DEF HangsBelow
    <3>5. CASE Taken
      <4> DEFINE o == folded[r]
      <4>1. o \in Pids /\ (Skipped(o) \/ o \in activePids) /\ agents'[p].parent = o
        BY <2>1, <3>5 DEF TreeInv, TypeOK, FoldedBelow, Taken
      <4> HIDE DEF o
      <4>2. o \in activePids => agents'[o].src = "proc" /\ o \in activePids'
        <5>1. o \in activePids => agents[o].src = "proc"
          BY <1>2 DEF TreeInv, RowsInv, FromTree, FromSession
        <5>2. QED
          BY <1>1, <1>2, <3>2, <5>1
      <4>3. QED
        BY <2>4, <3>1, <3>5, <4>1, <4>2 DEF HangsBelow
    <3>6. QED
      BY <2>5, <3>4, <3>5
  <2>10. QED
    BY <2>7, <2>9
<1>4. ASSUME NEW p \in activePids, p \notin Shown(r)
      PROVE  FromTree(p)' /\ HangsBelow(p)'
  <2>1. agents'[p] = agents[p] /\ FromTree(p) /\ HangsBelow(p)
    BY <1>1, <1>2, <1>4 DEF TreeInv, RowsInv, FromSession
  <2>2. p # agents[p].root => (Adopted(p)' <=> Adopted(p))
    BY <1>2, <1>4, <2>1, FoldedTogether DEF Adopted
  <2>3. agents[p].parent # None => p # agents[p].root
    BY <2>1 DEF FromTree, Up
  <2>4. FromTree(p)'
    BY <1>2, <2>1, <2>2 DEF FromTree, Up
  <2>5. agents[p].parent # None => agents[p].parent \notin Shown(r)
    BY <1>4, <2>1, RewrittenTogether
  <2>6. HangsBelow(p)'
    <3>1. \A x : Skipped(x)' <=> Skipped(x)
      BY <1>2 DEF Skipped
    <3>2. QED
      BY <1>1, <1>2, <2>1, <2>5, <2>2, <2>3, <3>1 DEF HangsBelow
  <2>7. QED
    BY <2>4, <2>6
<1>5. QED
  BY <1>1, <1>3, <1>4 DEF RowsInv

LEMMA RowsHandleTranscript ==
  ASSUME TreeInv, NEW s \in Sessions, HandleTranscript(s)
  PROVE  RowsInv'
<1>0. PICK a : a = AgentPID(s)
  OBVIOUS
<1>1. /\ UNCHANGED <<phase, tree, hasTx, folded>> /\ phase = "transcripts" /\ s \in txs
      /\ activePids' = activePids \cup {a}
      /\ agents' = [agents EXCEPT ![a] = [parent |-> None, root |-> a, src |-> "transcript",
                                          depth |-> 0, age |-> elapsed]]
  BY <1>0 DEF HandleTranscript
<1>2. a \in RowPids /\ DOMAIN agents = RowPids /\ activePids \subseteq RowPids
  BY <1>0 DEF AgentPID, TreeInv, TypeOK, RowPids
<1>3. a \in Pids => Tool[a] = "claude" /\ Skipped(a)
  <2> SUFFICES ASSUME a \in Pids
               PROVE  Tool[a] = "claude" /\ Skipped(a)
    OBVIOUS
  <2>1. s.pid \notin Pids
    OBVIOUS
  <2>2. realPID[s] # None /\ a = realPID[s]
    BY <1>0, <2>1 DEF AgentPID
  <2>3. Tool[a] = "claude" /\ "claude" \in hasTx
    BY <1>1, <2>2 DEF TreeInv, Attributed
  <2>4. QED
    BY <2>3 DEF Skipped, TxTools
<1>4. \A x : Skipped(x)' <=> Skipped(x)
  BY <1>1 DEF Skipped
<1>5. agents'[a].src = "transcript" /\ agents'[a].parent = None /\ agents'[a].depth = 0
  BY <1>1, <1>2
<1>6. (FromTree(a) \/ FromSession(a))' /\ HangsBelow(a)'
  BY <1>1, <1>3, <1>4, <1>5 DEF FromSession, HangsBelow
<1>7. ASSUME NEW p \in activePids, p # a
      PROVE  (FromTree(p) \/ FromSession(p))' /\ HangsBelow(p)'
  <2>1. /\ agents'[p] = agents[p]
        /\ FromTree(p) \/ FromSession(p)
        /\ HangsBelow(p)
    BY <1>1, <1>2, <1>7 DEF TreeInv, RowsInv
  <2>2. Adopted(p)' <=> Adopted(p)
    BY <1>1, <2>1 DEF Adopted
  <2>3. (FromTree(p) \/ FromSession(p))'
    BY <1>1, <1>4, <2>1, <2>2 DEF FromTree, FromSession, Up
  <2>4. ASSUME agents[p].src = "proc", agents[p].parent = a, a \in activePids,
               agents[a].src = "proc"
        PROVE  a \in Pids /\ Skipped(a)
    <3>1. FromTree(a)
      BY <2>4 DEF TreeInv, RowsInv, FromSession
    <3>2. a \in Pids
      BY <3>1 DEF FromTree, Descendants, TreeInv, TypeOK
    <3>3. QED
      BY <1>3, <3>2
  <2>5. \A x \in activePids : x # a => agents'[x] = agents[x]
    BY <1>1, <1>2
  <2>6. HangsBelow(p)'
    BY <1>1, <1>4, <2>1, <2>4, <2>5, <2>2 DEF HangsBelow
  <2>7. QED
    BY <2>3, <2>6
<1>8. QED
  BY <1>1, <1>6, <1>7 DEF RowsInv

LEMMA RowsStep ==
  ASSUME TreeInv, [Next]_vars
  PROVE  RowsInv'
<1>1. ASSUME UNCHANGED <<tree, hasTx, folded, activePids>>, phase' = "transcripts" \/ UNCHANGED phase,
             \A p \in activePids :
               /\ agents'[p].src = agents[p].src /\ agents'[p].root = agents[p].root
               /\ agents'[p].parent = agents[p].parent /\ agents'[p].depth = agents[p].depth
      PROVE  RowsInv'
  <2> SUFFICES ASSUME NEW p \in activePids
               PROVE  (FromTree(p) \/ FromSession(p))' /\ HangsBelow(p)'
    BY <1>1 DEF RowsInv
  <2>1. \A x : Skipped(x)' <=> Skipped(x)
    BY <1>1 DEF Skipped
  <2>2. (FromTree(p) \/ FromSession(p)) /\ HangsBelow(p)
    BY DEF TreeInv, RowsInv
  <2>3. Adopted(p)' <=> Adopted(p)
    BY <1>1 DEF Adopted
  <2>4. (FromTree(p) \/ FromSession(p))'
    BY <1>1, <2>1, <2>2, <2>3 DEF FromTree, FromSession, Up
  <2>5. HangsBelow(p)'
    BY <1>1, <2>1, <2>2, <2>3 DEF HangsBelow
  <2>6. QED
    BY <2>4, <2>5
<1>2. CASE activePids' = {}
  BY <1>2 DEF RowsInv
<1>3. CASE ScanTranscripts \/ BuildTree \/ EndScan
  BY <1>2, <1>3 DEF ScanTranscripts, BuildTree, EndScan, TreeInv, Snapshot
<1>4. CASE Tick
  <2>1. ASSUME NEW p \in activePids
        PROVE  /\ agents'[p].src = agents[p].src /\ agents'[p].root = agents[p].root
               /\ agents'[p].parent = agents[p].parent /\ agents'[p].depth = agents[p].depth
    <3>1. p \in RowPids /\ agents[p] \in AgentRow
      BY DEF TreeInv, TypeOK
    <3>2. agents'[p] = [agents[p] EXCEPT !.age = Aged(@, MaxAge)]
      BY <1>4, <3>1 DEF Tick
    <3>3. QED
      BY <3>1, <3>2 DEF AgentRow
  <2>2. QED
    BY <1>1, <1>4, <2>1 DEF Tick
<1>5. CASE EndRoots \/ UNCHANGED vars
  BY <1>1, <1>5 DEF EndRoots, vars, scanVars
<1>6. ASSUME NEW p \in Pids, Fork(p) \/ Exit(p)
      PROVE  RowsInv'
  BY <1>1, <1>6 DEF Fork, Exit, scanVars
<1>7. QED
  BY <1>3, <1>4, <1>5, <1>6, RowsHandleRoot, RowsHandleTranscript DEF Next, ScanStep

LEMMA TreeStep ==
  ASSUME TreeInv, [Next]_vars
  PROVE  TreeInv'
BY TypeStep, ProcessesStep, SnapshotStep, FoldedStep, AttributedStep, RowsStep DEF TreeInv

LEMMA TreeInit == Init => TreeInv
<1> SUFFICES ASSUME Init
             PROVE  TreeInv
  OBVIOUS
<1>1. TypeOK
  BY NoRowIsRow, MaxAgeType DEF Init, TypeOK, NoTree
<1>2. Processes /\ Snapshot
  <2>1. DOMAIN NoTree = {}
    BY DEF NoTree
  <2>2. Acyclic(NoTree)
    BY <2>1 DEF Acyclic
  <2>3. QED
    BY <2>1, <2>2 DEF Init, Processes, Snapshot
<1>3. FoldedBelow /\ Attributed /\ RowsInv
  BY DEF Init, FoldedBelow, Attributed, RowsInv
<1>4. QED
  BY <1>1, <1>2, <1>3 DEF TreeInv

\* The parent of a row is nearer to the root than the row.
LEMMA Nearer ==
  ASSUME TreeInv, NEW p \in activePids, FromTree(p), ~Adopted(p), agents[p].parent # None,
         NEW u \in activePids, u = agents[p].parent, FromTree(u),
         agents[u].root = agents[p].root
  PROVE  agents[u].depth < agents[p].depth
<1> DEFINE r == agents[p].root
<1>1. /\ r \in DOMAIN tree /\ IsForest(tree) /\ p \in Descendants(tree, r)
      /\ agents[p].depth = Depth(tree, r, p) /\ agents[u].depth = Depth(tree, r, u)
      /\ p # r /\ u \in {r, tree[p]}
  BY Forests, MatchedType DEF FromTree, Up
<1> HIDE DEF r
<1>2. Depth(tree, r, tree[p]) \in Nat /\ Depth(tree, r, p) = Depth(tree, r, tree[p]) + 1
  BY <1>1, ParentBelow
<1>3. Depth(tree, r, r) = 0
  BY <1>1, AtRoot
<1>4. QED
  BY <1>1, <1>2, <1>3

LEMMA TreeInvMeans ==
  ASSUME TreeInv
  PROVE  TypeOK /\ RowsFormTrees
<1> SUFFICES ASSUME NEW p \in activePids
             PROVE  /\ agents[p].parent # None
                       /\ ~(agents[p].parent \in Pids /\ Skipped(agents[p].parent))
                       => /\ agents[p].parent \in activePids
                          /\ \/ Adopted(p)
                             \/ /\ agents[agents[p].parent].root = agents[p].root
                                /\ agents[agents[p].parent].depth < agents[p].depth
                    /\ p \in Folded => agents[p].depth = 0
  BY DEF RowsFormTrees, TreeInv
<1>1. (FromTree(p) \/ FromSession(p)) /\ HangsBelow(p)
  BY DEF TreeInv, RowsInv
<1>2. ASSUME agents[p].parent # None, ~(agents[p].parent \in Pids /\ Skipped(agents[p].parent))
      PROVE  /\ agents[p].parent \in activePids
             /\ \/ Adopted(p)
                \/ /\ agents[agents[p].parent].root = agents[p].root
                   /\ agents[agents[p].parent].depth < agents[p].depth
  <2>1. FromTree(p)
    BY <1>1, <1>2 DEF FromSession
  <2>2. /\ agents[p].parent \in activePids
        /\ Adopted(p) \/ agents[agents[p].parent].root = agents[p].root
        /\ agents[agents[p].parent].src = "proc"
    BY <1>1, <1>2, <2>1 DEF HangsBelow, FromTree
  <2>3. FromTree(agents[p].parent)
    BY <2>2 DEF TreeInv, RowsInv, FromSession
  <2>4. QED
    BY <1>2, <2>1, <2>2, <2>3, Nearer
<1>3. ASSUME p \in Folded
      PROVE  agents[p].depth = 0
  <2>1. CASE FromSession(p)
    BY <2>1 DEF FromSession
  <2>2. CASE FromTree(p)
    <3>1. p = agents[p].root /\ p \in DOMAIN tree
      BY <1>3, <2>2, MatchedType DEF FromTree, FoldedIn
    <3>2. IsForest(tree)
      BY Forests
    <3>3. QED
      BY <2>2, <3>1, <3>2, AtRoot DEF FromTree
  <2>3. QED
    BY <1>1, <2>1, <2>2
<1>4. QED
  BY <1>2, <1>3

\* Every variable keeps its type: the parent of a row is a process, and its
\* depth is at most the number of processes.
THEOREM Types == Spec => []TypeOK
<1>1. TreeInv /\ [Next]_vars => TreeInv'
  BY TreeStep
<1>2. TreeInv => TypeOK
  BY TreeInvMeans
<1>3. QED
  BY TreeInit, <1>1, <1>2, PTL DEF Spec

\* The rows of a scan form trees, in whatever order the roots are handled, for
\* every set of processes, every nesting of agents and every torn snapshot.
THEOREM RowsForm == Spec => []RowsFormTrees
<1>1. TreeInv /\ [Next]_vars => TreeInv'
  BY TreeStep
<1>2. TreeInv => RowsFormTrees
  BY TreeInvMeans
<1>3. QED
  BY TreeInit, <1>1, <1>2, PTL DEF Spec

-----------------------------------------------------------------------------
(***************************************************************************)
(* Pruning.                                                                *)
(***************************************************************************)

\* Only the end of a scan takes rows away, and only old ones.
Shrinks == \A p \in Rows : p \notin Rows' => agents[p].age - elapsed > Retention

LEMMA ShrinksStep ==
  ASSUME TypeOK, [Next]_vars
  PROVE  Shrinks
<1>0. agents \in [RowPids -> AgentRow]
  BY DEF TypeOK
<1>1. ASSUME \A p \in RowPids : agents'[p].src \in {agents[p].src, "proc", "transcript"}
      PROVE  Shrinks
  BY <1>1 DEF Shrinks, Rows
<1>2. CASE Tick
  <2>1. ASSUME NEW p \in RowPids
        PROVE  agents'[p].src = agents[p].src
    <3>1. agents'[p] = [agents[p] EXCEPT !.age = Aged(@, MaxAge)]
      BY <1>2 DEF Tick
    <3>2. agents[p] \in AgentRow
      BY <1>0
    <3>3. QED
      BY <3>1, <3>2 DEF AgentRow
  <2>2. QED
    BY <1>1, <2>1
<1>3. ASSUME NEW r \in Pids, HandleRoot(r)
      PROVE  Shrinks
  <2>1. ASSUME NEW p \in RowPids
        PROVE  agents'[p].src \in {agents[p].src, "proc"}
    <3>1. \/ agents'[p] = agents[p]
          \/ agents'[p] = [parent |-> ParentOf(r, p), root |-> r, src |-> "proc",
                           depth |-> Depth(tree, r, p), age |-> elapsed]
      BY <1>3 DEF HandleRoot
    <3>2. QED
      BY <3>1
  <2>2. QED
    BY <1>1, <2>1
<1>4. ASSUME NEW s \in Sessions, HandleTranscript(s)
      PROVE  Shrinks
  <2>1. ASSUME NEW p \in RowPids
        PROVE  agents'[p].src \in {agents[p].src, "transcript"}
    <3>1. \/ agents'[p] = agents[p]
          \/ agents'[p] = [parent |-> None, root |-> AgentPID(s), src |-> "transcript",
                           depth |-> 0, age |-> elapsed]
      BY <1>0, <1>4 DEF HandleTranscript
    <3>2. QED
      BY <3>1
  <2>2. QED
    BY <1>1, <2>1
<1>5. CASE EndScan
  <2>1. ASSUME NEW p \in RowPids
        PROVE  agents'[p] = agents[p] \/ agents[p].age - elapsed > Retention
    BY <1>5 DEF EndScan, Prune
  <2>2. QED
    BY <2>1 DEF Shrinks, Rows
<1>6. CASE UNCHANGED agents
  BY <1>1, <1>6
<1>7. QED
  BY <1>2, <1>3, <1>4, <1>5, <1>6
     DEF Next, ScanStep, Fork, Exit, ScanTranscripts, BuildTree, EndRoots, vars, scanVars

\* A row that the previous scan wrote outlives the scan that misses its process.
THEOREM MissedOnce == Spec => MissedOnceStays
<1>1. TreeInv /\ [Next]_vars => TreeInv'
  BY TreeStep
<1>2. TreeInv /\ [Next]_vars =>
        [\A p \in Rows :
           agents[p].age = sinceScan /\ sinceScan - elapsed <= Interval => p \in Rows']_vars
  <2> SUFFICES ASSUME TypeOK, [Next]_vars, NEW p \in Rows,
                      agents[p].age = sinceScan, sinceScan - elapsed <= Interval
               PROVE  p \in Rows'
    BY DEF TreeInv
  <2>1. Shrinks
    BY ShrinksStep
  <2>2. elapsed \in Nat /\ sinceScan \in Nat
    BY MaxAgeType DEF TypeOK
  <2>3. ~(sinceScan - elapsed > Retention)
    BY <2>2, MaxAgeType
  <2>4. QED
    BY <2>1, <2>3 DEF Shrinks
<1>3. QED
  BY TreeInit, <1>1, <1>2, PTL DEF Spec, MissedOnceStays
=============================================================================
