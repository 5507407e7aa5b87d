------------------------------ MODULE Sessions ------------------------------
(***************************************************************************)
(* The claude sessions of one project: scan() lists the project's session  *)
(* files while a claude process runs there, merges them into one row of    *)
(* the youngest process, and hangs the sub-agents they mention below it.   *)
(*                                                                         *)
(* One module below this one, Transcript models how a single file is read; *)
(* here only the time of a line matters and whether it calls a sub-agent.  *)
(* A line has two halves and may be half written when a scan comes; sizes  *)
(* and offsets count halves.  Files are numbered in the order in which the *)
(* directory lists them.  Times count the lines begun: the line of number  *)
(* n carries 2n, and a scan after it takes place at 2n + 1.                *)
(***************************************************************************)
EXTENDS Integers, Sequences, FiniteSets, FiniteSetsExt

CONSTANTS
  NumFiles, \* session files of the project
  Pids,     \* process numbers of claude
  Delays,   \* intervals from one scan to the next, one unless scans are slow
  MaxLines, \* bound on the lines of all files (a bound of the model)
  MaxCuts   \* only that many lines may be written in two pieces, the first
            \* ones (a bound of the model)

ASSUME SessionsAssumption ==
  /\ NumFiles \in Nat /\ MaxLines \in Nat /\ MaxCuts \in Nat
  /\ Delays \subseteq Nat \ {0}
  /\ Pids \subseteq Nat \ {0} /\ IsFiniteSet(Pids)

Files == 1..NumFiles
None  == 0           \* no file: the row is one of the process tree

\* Rows are pruned when they are older than two intervals.
Retention == 2

Line == [ts : {2 * n : n \in 1..MaxLines}, task : BOOLEAN]

Times == 0..2 * MaxLines + 1

\* A reading of a file: transcriptInfo, as far as the merging looks at it.
Info == [file : Files, upto : 1..MaxLines, ts : Times]

\* The monitor of a file: transcriptOffset, the line its cache stands for,
\* lastOut, and subagentScanOffset.
Monitor == [offset : 0..2 * MaxLines, cached : 0..MaxLines, lastOut : Times,
            subs : 0..2 * MaxLines]
NoMonitor == [offset |-> 0, cached |-> 0, lastOut |-> 0, subs |-> 0]

\* The row of a process, with the session it shows and up to which line, and
\* that of a sub-agent, named by the line that calls it; with the intervals
\* since they were written.
Row    == [pid : Pids, file : Files \cup {None}, upto : 0..MaxLines, age : 0..Retention]
SubRow == [file : Files, line : 1..MaxLines, parent : Pids, age : 0..Retention]

VARIABLES
  lines,     \* the lines of each file
  half,      \* files whose last line is only half written
  old,       \* lines up to this time are older than two hours
  running,   \* the claude processes
  monitored, \* files that have a transcript monitor
  monitor,   \* the monitors
  rows,      \* the rows of the processes
  subs,      \* the rows of sub-agents
  appeared,  \* history: calls that have had a row since their file has a monitor
  cutOff,    \* history: calls that were half written when the monitor of their
             \* file passed them
  looked,    \* history: files each monitor was used for to find sub-agents
  scanned,   \* history: the time of the last scan
  eclipsed   \* history: it skipped the processes that run here, for a session of
             \* another project

world    == <<lines, half, old, running>>
readers  == <<monitored, monitor>>
table    == <<rows, subs>>
history  == <<appeared, cutOff, looked, scanned, eclipsed>>
vars     == <<world, readers, table, history>>
-----------------------------------------------------------------------------
LastTs(f) == lines[f][Len(lines[f])].ts

Size(f) == 2 * Len(lines[f]) - (IF f \in half THEN 1 ELSE 0)

\* The number of whole lines of a file, and the time of the last of them.
Whole(f)   == Len(lines[f]) - (IF f \in half THEN 1 ELSE 0)
WholeTs(f) == IF Whole(f) = 0 THEN 0 ELSE lines[f][Whole(f)].ts

Now == 1 + Max({0} \cup {LastTs(f) : f \in {g \in Files : lines[g] # <<>>}})

Init ==
  /\ lines = [f \in Files |-> <<>>] /\ half = {} /\ old = 0 /\ running = {}
  /\ monitored = {} /\ monitor = [f \in Files |-> NoMonitor]
  /\ rows = {} /\ subs = {}
  /\ appeared = {} /\ cutOff = {} /\ looked = [f \in Files |-> {}]
  /\ scanned = 0 /\ eclipsed = FALSE

\* A session, its process running, appends a line or the first half of one.
Write(f, task, cut) ==
  /\ running # {} /\ f \notin half /\ Now < 2 * MaxLines
  /\ cut => Now < 2 * MaxCuts
  /\ lines' = [lines EXCEPT ![f] = Append(@, [ts |-> Now + 1, task |-> task])]
  /\ half' = IF cut THEN half \cup {f} ELSE half
  /\ UNCHANGED <<old, running, readers, table, history>>

\* The other half follows.
Finish(f) ==
  /\ f \in half
  /\ half' = half \ {f}
  /\ UNCHANGED <<lines, old, running, readers, table, history>>

\* Lines that have been scanned grow older than two hours; no line stays half
\* written for so long.
TwoHours(t) ==
  /\ old < t /\ t <= scanned
  /\ \A f \in half : LastTs(f) > t
  /\ old' = t
  /\ UNCHANGED <<lines, half, running, readers, table, history>>

\* A claude process starts in the project or exits.
StartOrExit(p) ==
  /\ running' = IF p \in running THEN running \ {p} ELSE running \cup {p}
  /\ UNCHANGED <<lines, half, old, readers, table, history>>

-----------------------------------------------------------------------------
(***************************************************************************)
(* scan, step 0: scanTranscripts.                                          *)
(***************************************************************************)

\* activeClaudeProjects: the youngest process stands for the project.
realPID == Max(running)

\* The files listed: those written to within two hours, while a process runs.
Listed == {f \in Files : running # {} /\ lines[f] # <<>> /\ LastTs(f) > old}

Offset(f) == IF f \in monitored THEN monitor[f].offset ELSE 0

\* A line begins and ends in what was appended.  A line that a scan has found
\* half written does not begin there when its other half follows.
HasNews(f) == Offset(f) <= 2 * Whole(f) - 2

\* Files that readTranscript returns something for: news that is not older than
\* two hours, or a cache.
Read == {f \in Listed : IF HasNews(f) THEN WholeTs(f) > old ELSE monitor[f].cached > 0}

\* What it returns: news with their own time, the cache with the monitor's.
Reading(f) ==
  IF HasNews(f) THEN [file |-> f, upto |-> Whole(f), ts |-> WholeTs(f)]
  ELSE [file |-> f, upto |-> monitor[f].cached, ts |-> monitor[f].lastOut]

-----------------------------------------------------------------------------
(***************************************************************************)
(* scan, step 4: one row for all sessions of a process.                    *)
(***************************************************************************)

\* Mutant: the last file read stands for all of them.
LastRead == Reading(Max(Read))

\* mergedByReal: the reading of the greatest lastTs, the first of equals.
Merged ==
  LET newest == {f \in Read : \A g \in Read : Reading(g).ts <= Reading(f).ts}
  IN  Reading(Min(newest))

\* Only the first file's monitor is used and, if need be, created.
Holder == Min(Read)

\* Mutant: the offset counts the half of a line that is still to come.
AfterReadingPast(f) ==
  IF f \notin monitored THEN monitor[f]
  ELSE [monitor[f] EXCEPT !.offset = 2 * Len(lines[f]) + 1,
                          !.cached = IF HasNews(f) THEN Whole(f) ELSE @]

\* A monitor after its file was read.
AfterReading(f) ==
  IF f \notin monitored THEN monitor[f]
  ELSE [monitor[f] EXCEPT !.offset = Size(f), !.cached = IF HasNews(f) THEN Whole(f) ELSE @]

\* Mutant: one offset for the reading of the state and of the sub-agents.
SharedOffset == AfterReading(Holder).offset

\* mergeTranscriptSubagents starts where the holder's monitor last ended,
\* whichever file tx it is applied to.
SubsFrom == monitor[Holder].subs

\* The lines of f that call a sub-agent and lie whole behind an offset.
CallsIn(f, from) == {i \in 1..Whole(f) : from <= 2 * i - 2 /\ lines[f][i].task}

\* Mutant: the sub-agents are hung below the oldest process.
SubsOfOldest(tx) ==
  {[file |-> tx.file, line |-> i, parent |-> Min(running), age |-> 0] :
     i \in CallsIn(tx.file, SubsFrom)}

NewSubs(tx) ==
  {[file |-> tx.file, line |-> i, parent |-> realPID, age |-> 0] :
     i \in CallsIn(tx.file, SubsFrom)}

\* A call that is half written when the offset of the sub-agents passes it.
CutOff(f) ==
  {<<f, i>> : i \in {j \in {Len(lines[f])} : f \in half /\ lines[f][j].task}}

\* The holder takes over the activity of the newest session, or now if the
\* process was busy more than 30 s after it.
AfterMerge(tx, busy) ==
  [AfterReading(Holder) EXCEPT !.lastOut = IF busy THEN Now ELSE tx.ts,
                               !.subs    = Max({SubsFrom, Size(tx.file)})]

-----------------------------------------------------------------------------
(***************************************************************************)
(* The table and the end of the scan.                                      *)
(***************************************************************************)

\* Prune, in a scan that comes `late` intervals after the one before.
Prune(had, late) ==
  {r \in {[t EXCEPT !.age = @ + late] : t \in had} : r.age <= Retention}

\* Mutant: a session read in the scan before still makes the roots skipped.
RootsSkippedOn(other) == IF other \/ monitored # {} THEN {} ELSE running

\* The roots that step 3 shows in a scan that reads no session here.  They are
\* skipped per tool (hasTxThisRound): a session of any `other` project that the
\* scan has read is enough.
Roots(other) == IF other THEN {} ELSE running

\* Step 3 and the end of a scan that reads no session of the project: its root
\* processes are shown as they are, or skipped, and no monitor is kept.
ScanProcs(late, other) ==
  /\ Read = {}
  /\ monitored' = {} /\ monitor' = [f \in Files |-> NoMonitor]
  /\ rows' = Prune({r \in rows : r.pid \notin Roots(other)}, late)
               \cup {[pid |-> p, file |-> None, upto |-> 0, age |-> 0] : p \in Roots(other)}
  /\ subs' = Prune(subs, late)
  /\ appeared' = {} /\ cutOff' = {} /\ looked' = [f \in Files |-> {}]
  /\ scanned' = Now /\ eclipsed' = (other /\ running # {})
  /\ UNCHANGED world

\* Step 4 and the end of a scan that reads sessions: step 3 has skipped the
\* roots of their tool; monitors of files that yielded nothing are dropped.
ScanSessions(late, busy) ==
  /\ Read # {}
  /\ LET tx    == Merged
         first == Holder
         fresh == NewSubs(tx)
         found == {<<s.file, s.line>> : s \in fresh}
         kept  == (monitored \cap Read) \cup {first}
         row   == [pid |-> realPID, file |-> tx.file, upto |-> tx.upto, age |-> 0]
     IN  /\ monitored' = kept
         /\ monitor' = [f \in Files |-> IF f = first THEN AfterMerge(tx, busy)
                                        ELSE IF f \in kept THEN AfterReading(f) ELSE NoMonitor]
         /\ rows' = Prune({r \in rows : r.pid # realPID}, late) \cup {row}
         /\ subs' = fresh \cup Prune({s \in subs : <<s.file, s.line>> \notin found}, late)
         /\ appeared' = {c \in appeared \cup found : c[1] \in kept}
         /\ cutOff' = {c \in cutOff : c[1] \in kept}
                        \cup (IF tx.file = first THEN CutOff(first) ELSE {})
         /\ looked' = [f \in Files |-> IF f = first THEN looked[f] \cup {tx.file}
                                       ELSE IF f \in kept THEN looked[f] ELSE {}]
  /\ scanned' = Now /\ eclipsed' = FALSE
  /\ UNCHANGED world

Scan(late) ==
  \/ \E other \in BOOLEAN : ScanProcs(late, other)
  \/ \E busy \in BOOLEAN : ScanSessions(late, busy)

Next ==
  \/ \E f \in Files, task, cut \in BOOLEAN : Write(f, task, cut)
  \/ \E f \in Files : Finish(f)
  \/ \E n \in 1..MaxLines : TwoHours(2 * n)
  \/ \E p \in Pids : StartOrExit(p)
  \/ \E late \in Delays : Scan(late)

Spec == Init /\ [][Next]_vars
-----------------------------------------------------------------------------
(***************************************************************************)
(* Properties.                                                             *)
(***************************************************************************)

\* Every variable has its type, no monitor is past the end of its file, and a
\* process and a call have one row.
TypeOK ==
  /\ lines \in [Files -> Seq(Line)]
  /\ half \subseteq {f \in Files : lines[f] # <<>>}
  /\ old \in Times /\ running \subseteq Pids
  /\ monitored \subseteq Files /\ monitor \in [Files -> Monitor]
  /\ \A f \in Files : monitor[f].offset <= Size(f)
  /\ \A r \in rows : r \in Row
  /\ \A r, s \in rows : r.pid = s.pid => r = s
  /\ \A s \in subs : s \in SubRow
  /\ \A s, t \in subs : s.file = t.file /\ s.line = t.line => s = t
  /\ appeared \subseteq Files \X (1..MaxLines)
  /\ cutOff \subseteq Files \X (1..MaxLines)
  /\ looked \in [Files -> SUBSET Files]
  /\ scanned \in Times /\ eclipsed \in BOOLEAN

\* Whoever wrote last is shown: if a session has a whole line since the scan
\* before, the row of the process shows the newest whole line of all its
\* sessions.
Newest(f) == f \in Listed /\ \A g \in Listed : WholeTs(g) <= WholeTs(f)

ShowsNewest ==
  \E r \in rows' : r.pid = realPID /\ r.age = 0 /\ Newest(r.file) /\ r.upto = Whole(r.file)

NewsIsShown ==
  [][scanned' # scanned /\ (\E f \in Listed : WholeTs(f) > scanned) => ShowsNewest]_vars

\* A sub-agent's row hangs below a row that is at least as fresh, whatever
\* processes came and went: it never outlives its parent.
SubagentsHang ==
  \A s \in subs : \E r \in rows : r.pid = s.parent /\ r.age <= s.age

\* Reading the growing file piece by piece misses no sub-agent, as long as the
\* monitor was never used for another session of the process, but for one whose
\* call was only half written when a scan moved the monitor's
\* subagentScanOffset behind it: that line is never parsed.
SubagentsAppear ==
  [][Read # {} /\ (monitor' # monitor \/ scanned' # scanned) /\ looked'[Holder] = {Holder} =>
       \A i \in DOMAIN lines[Holder] :
         lines[Holder][i].task => <<Holder, i>> \in appeared' \cup cutOff']_vars

\* A project with a running claude is represented by its youngest process after
\* every scan, by sessions or without, but for a scan that read no session here
\* and one of another project: that makes it skip the roots of every project.
NeverVanishes ==
  [][(rows' # rows \/ scanned' # scanned) /\ running # {} /\ ~eclipsed' =>
       \E r \in rows' : r.pid = realPID /\ r.age = 0]_vars
=============================================================================
