-------------------------------- MODULE Tree --------------------------------
(***************************************************************************)
(* From /proc to the agents table: which processes of a scan's snapshot    *)
(* are root agents, which of their descendants become rows, whose child a  *)
(* row is, which session transcripts replace their root's row, and when a  *)
(* row leaves.                                                             *)
(*                                                                         *)
(* Processes fork and exit at any time.  A scan works on the snapshot it   *)
(* took, one root after the other in the random order of a Go map.  Times  *)
(* are ages in whole seconds: an age grows as the clock ticks.             *)
(***************************************************************************)
EXTENDS Integers, FiniteSets, FiniteSetsExt

CONSTANTS
  Pids,      \* real pids, all above that of init
  Home,      \* the process that forks a given one, Init1 for a top-level one
  Tool,      \* what matchTool finds in the command line, NoTool if nothing
  NoTool,
  Shells,    \* comm is that of a shell
  Folded,    \* private executables: isCopilotPrivateExec, isHermesInfraExec
  Excluded,  \* comm or executable is in Collect.Exclude
  Cwd,       \* working directory, which names a project
  Sessions,  \* transcript files: [tool, cwd, pid], pid synthetic and negative
  Interval,  \* Collect.Interval
  MaxScan,   \* bound on the seconds one scan takes (a bound of the model)
  MaxTorn    \* bound on the processes one snapshot misses (likewise)

Init1 == 1
None  == 0

\* The tools whose root is shown from a transcript.
TxTools == {"claude", "codex"}

RowPids == Pids \cup {s.pid : s \in Sessions}

ASSUME TreeAssumption ==
  /\ Pids \subseteq Nat \ {None, Init1}
  /\ IsFiniteSet(Pids)
  /\ Home \in [Pids -> Pids \cup {Init1}]
  /\ NoTool \notin TxTools
  /\ Shells \subseteq Pids /\ Folded \subseteq Pids /\ Excluded \subseteq Pids
  /\ \A s \in Sessions : s.tool \in TxTools /\ s.pid \in Int \ Nat
  /\ Interval \in Nat \ {0}
  /\ MaxScan \in Nat
  /\ MaxTorn \in Nat

VARIABLES
  parent,    \* the processes that run, each with its parent
  phase,     \* where scan() stands
  elapsed,   \* seconds since the scan in progress took its `now`
  sinceScan, \* seconds since the last completed scan took its `now`
  txs,       \* sessions this scan has read and not yet shown
  realPID,   \* the process a session is attributed to
  hasTx,     \* hasTxThisRound
  tree,      \* the snapshot of /proc: pid -> ppid
  roots,     \* matched roots this scan has still to handle
  folded,    \* foldedParent
  activePids, \* rows that the scan in progress has written
  agents     \* the agents table

scanVars == <<phase, elapsed, sinceScan, txs, realPID, hasTx, tree, roots, folded,
              activePids>>
vars     == <<parent, scanVars, agents>>
-----------------------------------------------------------------------------
\* A row is pruned at 2 * Interval; an older age cannot be told apart.
Retention == 2 * Interval
MaxAge    == Retention + MaxScan + 1

NoRow == [parent |-> None, root |-> None, depth |-> 0, age |-> MaxAge, src |-> "none"]

Rows == {p \in RowPids : agents[p].src # "none"}

NoTree == [p \in {} |-> None]

Aged(n, bound) == IF n < bound THEN n + 1 ELSE bound

-----------------------------------------------------------------------------
(* Reading a snapshot t.                                                   *)

\* The n-th ancestor of p; a process missing from the snapshot ends the climb.
Ancestor(t, p) ==
  LET A[n \in Nat] == IF n = 0 THEN p
                      ELSE IF A[n - 1] \in DOMAIN t THEN t[A[n - 1]] ELSE None
  IN A

Heights == 1..Cardinality(Pids)

IsExcluded(t, p) ==
  \E n \in Heights \cup {0} : Ancestor(t, p)[n] \in Excluded \cap DOMAIN t

\* The ancestor that stops the climb of the root search: no shell, matched.
Stops(t, q) == q \in DOMAIN t /\ q \notin Shells /\ Tool[q] # NoTool

\* p belongs to an agent of its own tool further up.
IsDescendant(t, p) ==
  \E n \in Heights :
    /\ Stops(t, Ancestor(t, p)[n])
    /\ \A m \in Heights : m < n => ~Stops(t, Ancestor(t, p)[m])
    /\ Tool[Ancestor(t, p)[n]] = Tool[p]

MatchedRoots(t) ==
  {p \in DOMAIN t : Tool[p] # NoTool /\ ~IsDescendant(t, p) /\ ~IsExcluded(t, p)}

\* The depth at which the breadth-first search from r meets p, None for r.
Below(t, r, p) == {n \in Heights \cup {0} : Ancestor(t, p)[n] = r}

Depth(t, r, p) == CHOOSE n \in Below(t, r, p) : TRUE

Descendants(t, r) ==
  {p \in DOMAIN t : Below(t, r, p) # {} /\ (p = r \/ ~IsExcluded(t, p))}

\* The private executables below r: no row of their own.
FoldedIn(t, r) == {p \in Descendants(t, r) : p # r /\ p \in Folded}

-----------------------------------------------------------------------------
Init ==
  /\ parent = NoTree
  /\ phase = "idle"
  /\ elapsed = 0
  /\ sinceScan = MaxAge
  /\ txs = {} /\ realPID = [s \in Sessions |-> None] /\ hasTx = {}
  /\ tree = NoTree
  /\ roots = {}
  /\ folded = [p \in Pids |-> None]
  /\ activePids = {}
  /\ agents = [p \in RowPids |-> NoRow]

\* Between its snapshot and its end a scan reads nothing of the processes that
\* decides a row, so they need not move there.
Looked == phase \in {"idle", "tree"}

Fork(p) ==
  /\ Looked
  /\ p \notin DOMAIN parent
  /\ Home[p] = Init1 \/ Home[p] \in DOMAIN parent
  /\ parent' = [q \in DOMAIN parent \cup {p} |-> IF q = p THEN Home[p] ELSE parent[q]]
  /\ UNCHANGED <<scanVars, agents>>

\* The children of a process that exits go to init.
Exit(p) ==
  /\ Looked
  /\ p \in DOMAIN parent
  /\ parent' = [q \in DOMAIN parent \ {p} |-> IF parent[q] = p THEN Init1 ELSE parent[q]]
  /\ UNCHANGED <<scanVars, agents>>

\* A second passes.
Tick ==
  /\ phase \in {"roots", "transcripts"} => elapsed < MaxScan
  /\ elapsed' = IF phase \in {"roots", "transcripts"} THEN elapsed + 1 ELSE 0
  /\ sinceScan' = Aged(sinceScan, MaxAge)
  /\ agents' = [p \in RowPids |-> [agents[p] EXCEPT !.age = Aged(@, MaxAge)]]
  /\ UNCHANGED <<parent, phase, txs, realPID, hasTx, tree, roots, folded, activePids>>

-----------------------------------------------------------------------------
\* The claude processes of a project; the latest is taken for all of them.
ClaudesIn(cwd) == {p \in DOMAIN parent : Tool[p] = "claude" /\ Cwd[p] = cwd}

\* A claude session counts only while a claude process runs in its project.
Listed(s) == s.tool = "claude" => ClaudesIn(s.cwd) # {}

\* scan() starts: the transcripts are read (a file may yield nothing).
ScanTranscripts ==
  /\ phase = "idle"
  /\ txs' \in SUBSET {s \in Sessions : Listed(s)}
  /\ realPID' = [s \in Sessions |-> IF s \in txs' /\ s.tool = "claude"
                                    THEN Max(ClaudesIn(s.cwd)) ELSE None]
  /\ hasTx' = {s.tool : s \in txs'}
  /\ phase' = "tree"
  /\ UNCHANGED <<parent, activePids, elapsed, sinceScan, tree, roots, folded, agents>>

\* buildProcTree reads the processes one by one: one that forks or exits
\* meanwhile may be missing.  Then the matched roots are determined.
BuildTree ==
  /\ phase = "tree"
  /\ \E torn \in SUBSET DOMAIN parent :
       /\ Cardinality(torn) <= MaxTorn
       /\ tree' = [p \in DOMAIN parent \ torn |-> parent[p]]
       /\ roots' = MatchedRoots(tree')
  /\ folded' = [p \in Pids |-> None]
  /\ elapsed' = 0
  /\ phase' = "roots"
  /\ UNCHANGED <<parent, sinceScan, txs, realPID, hasTx, activePids, agents>>

\* The root of a transcript tool gets no row while any session of that tool
\* was read this round.
Skipped(r) == Tool[r] \in TxTools \cap hasTx

\* Mutant: a root is given the parent that /proc names.
RootKeepsParent(r, p) ==
  IF tree[p] \in Pids /\ folded'[tree[p]] # None THEN folded'[tree[p]] ELSE tree[p]

\* Mutant: a child of a private executable keeps the executable as parent.
DirectParent(r, p) == IF p = r THEN None ELSE tree[p]

\* The children of a private executable belong to its root.
ParentOf(r, p) ==
  IF p = r THEN None
  ELSE IF tree[p] \in Pids /\ folded'[tree[p]] # None THEN folded'[tree[p]]
  ELSE tree[p]

\* One root with all its descendants, breadth first.
HandleRoot(r) ==
  /\ phase = "roots"
  /\ r \in roots
  /\ roots' = roots \ {r}
  /\ folded' = [p \in Pids |-> IF p \in FoldedIn(tree, r) THEN r ELSE folded[p]]
  /\ LET shown == {p \in Descendants(tree, r) \ FoldedIn(tree, r) : p = r => ~Skipped(r)}
     IN /\ activePids' = activePids \cup shown
        /\ agents' = [p \in RowPids |->
                        IF p \in shown
                        THEN [parent |-> ParentOf(r, p), root |-> r, src |-> "proc",
                              depth |-> Depth(tree, r, p), age |-> elapsed]
                        ELSE agents[p]]
  /\ UNCHANGED <<parent, phase, elapsed, sinceScan, txs, realPID, hasTx, tree>>

EndRoots ==
  /\ phase = "roots"
  /\ roots = {}
  /\ phase' = "transcripts"
  /\ UNCHANGED <<parent, elapsed, sinceScan, txs, realPID, hasTx, tree, roots, folded,
                 activePids, agents>>

\* The pid under which a session is shown.
AgentPID(s) == IF realPID[s] # None THEN realPID[s] ELSE s.pid

\* The row of a session, once for all the sessions of the same process (the
\* rows of its subagents are left out).
HandleTranscript(s) ==
  /\ phase = "transcripts"
  /\ s \in txs
  /\ txs' = {x \in txs : AgentPID(x) # AgentPID(s)}
  /\ activePids' = activePids \cup {AgentPID(s)}
  /\ agents' = [agents EXCEPT ![AgentPID(s)] =
                   [parent |-> None, root |-> AgentPID(s), src |-> "transcript",
                    depth |-> 0, age |-> elapsed]]
  /\ UNCHANGED <<parent, phase, elapsed, sinceScan, realPID, hasTx, tree, roots, folded>>

\* Mutant: the rows of one interval ago already leave.
PruneEarly(rows) ==
  [p \in RowPids |-> IF rows[p].age - elapsed >= Interval THEN NoRow ELSE rows[p]]

\* Mutant: no row is ever pruned.
NeverPrune(rows) == rows

\* Rows last written before `now` - 2 * Interval leave.
Prune(rows) ==
  [p \in RowPids |-> IF rows[p].age - elapsed > Retention THEN NoRow ELSE rows[p]]

EndScan ==
  /\ phase = "transcripts"
  /\ txs = {}
  /\ agents' = Prune(agents)
  /\ sinceScan' = elapsed
  /\ elapsed' = 0
  /\ phase' = "idle"
  /\ activePids' = {}
  /\ realPID' = [s \in Sessions |-> None] /\ hasTx' = {}
  /\ tree' = NoTree /\ folded' = [p \in Pids |-> None]
  /\ UNCHANGED <<parent, txs, roots>>

-----------------------------------------------------------------------------
ScanStep ==
  \/ ScanTranscripts
  \/ BuildTree
  \/ \E r \in Pids : HandleRoot(r)
  \/ EndRoots
  \/ \E s \in Sessions : HandleTranscript(s)
  \/ EndScan

Next ==
  \/ Tick
  \/ \E p \in Pids : Fork(p) \/ Exit(p)
  \/ ScanStep

Spec == Init /\ [][Next]_vars

\* Time passes, and the collector's goroutine, whose ticker fires every
\* interval, always takes its next step.
FairSpec == Spec /\ WF_vars(Tick) /\ WF_vars(ScanStep)
-----------------------------------------------------------------------------
(***************************************************************************)
(* Properties.                                                             *)
(***************************************************************************)

AgentRow == [parent : Pids \cup {None},
             root   : Pids \cup {None} \cup {s.pid : s \in Sessions},
             depth  : 0..Cardinality(Pids), age : 0..MaxAge,
             src    : {"none", "proc", "transcript"}]

\* Every variable has its type.
TypeOK ==
  /\ DOMAIN parent \subseteq Pids
  /\ \A p \in DOMAIN parent : parent[p] \in Pids \cup {Init1}
  /\ phase \in {"idle", "tree", "roots", "transcripts"}
  /\ elapsed \in 0..MaxScan
  /\ sinceScan \in 0..MaxAge
  /\ txs \subseteq Sessions
  /\ realPID \in [Sessions -> Pids \cup {None}]
  /\ hasTx \subseteq TxTools
  /\ DOMAIN tree \subseteq Pids
  /\ \A p \in DOMAIN tree : tree[p] \in Pids \cup {Init1}
  /\ roots \subseteq Pids
  /\ folded \in [Pids -> Pids \cup {None}]
  /\ activePids \subseteq RowPids
  /\ agents \in [RowPids -> AgentRow]

\* The scan has written all its rows.
Written == phase = "transcripts" /\ txs = {}

\* p is the child of a root that is a private executable itself and that an agent
\* of another tool further up has folded: it was given that agent as its parent.
Adopted(p) ==
  /\ tree[p] = agents[p].root
  /\ agents[p].parent = folded[agents[p].root]

\* The rows of a scan form trees, whatever the order of the roots, the nesting
\* of agents and the folding: the parent of a row is a row of the same scan,
\* unless it is the skipped root of a tool with transcripts, which may have no
\* row; it has the same root and is nearer to it, unless the row was adopted.
\* A private executable has a row only as a root or for a session.
RowsFormTrees ==
  Written =>
    \A p \in activePids :
      LET row == agents[p]
          up  == agents[row.parent]
      IN  /\ row.parent # None /\ ~(row.parent \in Pids /\ Skipped(row.parent))
               => /\ row.parent \in activePids
                  /\ Adopted(p) \/ (up.root = row.root /\ up.depth < row.depth)
          /\ p \in Folded => row.depth = 0

\* A row outlives one scan that misses its process (a torn reading of /proc, a
\* transcript caught in the middle of a line): what the previous scan wrote is
\* still there after this one, unless they are further apart than Interval.
MissedOnceStays ==
  [][\A p \in Rows :
       agents[p].age = sinceScan /\ sinceScan - elapsed <= Interval => p \in Rows']_vars

\* The row of a process that has exited for good leaves for good.
GoneProcessesLeave ==
  \A p \in Pids : <>[](p \notin DOMAIN parent) => <>[](p \notin Rows)
=============================================================================
