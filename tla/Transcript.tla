----------------------------- MODULE Transcript -----------------------------
(***************************************************************************)
(* Reading one session's transcript: readTranscript parses only what was   *)
(* appended since the last scan and carries the rest of its knowledge in   *)
(* the monitor; transcriptState derives the agent's state from it.         *)
(*                                                                         *)
(* The session appends lines while the collector reads, so that a reading  *)
(* may end in the middle of a line.  A file is a sequence of lines of two  *)
(* halves; sizes and offsets count halves.  Ages are classes of seconds.   *)
(***************************************************************************)
EXTENDS Integers, Sequences, FiniteSets

CONSTANTS
  ToolUses, \* ids of tool_use blocks
  MaxLines, \* bound on the lines of a session (a bound of the model)
  MaxCuts,  \* bound on the lines written in two pieces (a bound of the model)
  IdleAge,  \* 60 s, the freshness of states and errors
  AliveAge, \* 300 s, the idleness of a session whose process runs
  DropAge   \* 2 h, the age at which a session is dropped

ASSUME TranscriptAssumption ==
  /\ MaxLines \in Nat /\ MaxCuts \in Nat
  /\ IdleAge \in Nat /\ AliveAge \in Nat /\ DropAge \in Nat
  /\ IdleAge <= AliveAge /\ AliveAge <= DropAge

None == "none" \* the empty string: no id, no type, no tool
ASSUME NoneAssumption == None \notin ToolUses

\* The lines that readTranscript tells apart: a prompt, the result of a tool,
\* an assistant line that calls an ordinary or an interactive tool, one that
\* calls none, one that reports an API error, a system line, and the
\* bookkeeping lines it skips.
Called == {"call", "ask"}
Plain  == {"prompt", "reply", "error", "system", "meta"}

Old  == DropAge + 1
Ages == 0..Old

\* A line reaches the file at once, or in two pieces: cut in its body, or
\* before its newline.
Cuts == {"nowhere", "body", "newline"}

Line == [kind : Called \cup {"result"}, id : ToolUses, age : Ages, cut : Cuts]
          \cup [kind : Plain, id : {None}, age : Ages, cut : Cuts]

\* transcriptInfo; an info without type stands for nil.
Info == [type    : {None, "user", "assistant", "system"},
         age     : Ages,            \* of lastTs
         error   : BOOLEAN,         \* lastApiStatus or lastApiErr
         apiAge  : Ages,            \* of lastApiTs
         tool    : {None, "call", "ask"}, \* lastToolName; lastStopReason is tool_use if there is one
         pending : SUBSET ToolUses] \* pendingTools

NoInfo == [type |-> None, age |-> Old, error |-> FALSE, apiAge |-> Old,
           tool |-> None, pending |-> {}]

VARIABLES
  file,    \* the lines of the session's file
  half,    \* the last line is only half written
  running, \* the claude process of the project runs
  known,   \* the session is shown and has a transcript monitor
  offset,  \* its transcriptOffset
  cache,   \* its cached fields
  lastOut, \* the age of its lastOut
  lost     \* history: lines the monitor has passed without parsing them

session == <<file, half, running>>
reader  == <<known, offset, cache, lastOut, lost>>
vars    == <<session, reader>>
-----------------------------------------------------------------------------
TypeOf(kind) == IF kind \in Called \cup {"reply", "error"} THEN "assistant"
                ELSE IF kind = "system" THEN "system" ELSE "user"

Size == 2 * Len(file) - (IF half THEN 1 ELSE 0)

Content(l) == l.kind # "meta"

\* Mutant: the result of a tool leaves the call pending.
NeverAnswered(info, l) ==
  IF ~Content(l) THEN info
  ELSE [type    |-> TypeOf(l.kind),
        age     |-> l.age,
        error   |-> l.kind = "error" \/ (info.error /\ TypeOf(l.kind) # "assistant"),
        apiAge  |-> IF l.kind = "error" THEN l.age ELSE info.apiAge,
        tool    |-> IF l.kind \in Called THEN l.kind
                    ELSE IF l.kind \in {"error", "system"} THEN info.tool ELSE None,
        pending |-> IF l.kind \in Called THEN info.pending \cup {l.id} ELSE info.pending]

\* One line of the loop of readTranscript.
ParseLine(info, l) ==
  IF ~Content(l) THEN info
  ELSE [type    |-> TypeOf(l.kind),
        age     |-> l.age,
        error   |-> l.kind = "error" \/ (info.error /\ TypeOf(l.kind) # "assistant"),
        apiAge  |-> IF l.kind = "error" THEN l.age ELSE info.apiAge,
        tool    |-> IF l.kind \in Called THEN l.kind
                    ELSE IF l.kind \in {"error", "system"} THEN info.tool ELSE None,
        pending |-> IF l.kind \in Called THEN info.pending \cup {l.id}
                    ELSE info.pending \ {l.id}]

\* How many lines are complete JSON in the first `to` halves of the file.
Complete(to) ==
  IF to % 2 = 1 /\ file[(to + 1) \div 2].cut = "newline" THEN (to + 1) \div 2 ELSE to \div 2

\* The information after each line, when the first `passed` lines are skipped.
ParseLines(ls, start, passed) ==
  LET info[n \in 0..Len(ls)] ==
        IF n <= passed THEN start ELSE ParseLine(info[n - 1], ls[n])
  IN  info

\* The lines that are whole between two offsets, parsed in order; the halves
\* that are cut off at either end are no JSON and are passed over.
Parse(start, from, to) == ParseLines(file, start, (from + 1) \div 2)[Complete(to)]

\* Mutant: a chunk starts with no call pending.
ForgetsPending == NoInfo

\* Only the pending calls are carried from one chunk to the next.
Start == [NoInfo EXCEPT !.pending = IF known /\ offset > 0 THEN cache.pending ELSE {}]

Chunk == Parse(Start, offset, Size)

\* Mutant: a file without news yields nothing.
NothingCached == NoInfo

\* A file without news is represented by what the monitor remembers.
Cached == IF known /\ cache.type # None THEN [cache EXCEPT !.age = lastOut] ELSE NoInfo

HasNews == Size # offset /\ Chunk.type # None

\* All that was appended is the newline of a line already read.
BlankNews == offset % 2 = 1 /\ Size = offset + 1 /\ file[Len(file)].cut = "newline"

\* What readTranscript returns.
readTranscript ==
  IF BlankNews THEN NoInfo
  ELSE IF ~HasNews THEN Cached
  ELSE IF Chunk.age > DropAge THEN NoInfo ELSE Chunk

\* transcriptState, for a session whose process runs or not.
transcriptState(info, alive) ==
  IF info.error /\ info.apiAge <= IdleAge THEN "error"
  ELSE IF info.type = "assistant" /\ info.tool = "ask" THEN "waiting"
  ELSE IF info.type \in {"assistant", "user"}
            /\ info.age <= (IF alive THEN AliveAge ELSE IdleAge)
  THEN "thinking"
  ELSE "idle"

\* The state of each status in sessions/<pid>.json.  Statuses has one more, for
\* no such file (older versions), that of another process, or a status that is new.
LiveState == [busy |-> "thinking", waiting |-> "waiting", idle |-> "idle", shell |-> "running"]
Statuses  == DOMAIN LiveState \cup {None}

\* DeriveTranscriptState: an error first, then what claude itself says, then
\* a call that is pending while the terminal's event loop blocks.
DeriveTranscriptState(info, alive, blocked, status) ==
  LET state == transcriptState(info, alive)
  IN  IF state = "error" THEN "error"
      ELSE IF status \in DOMAIN LiveState THEN LiveState[status]
      ELSE IF blocked /\ info.pending # {} THEN "waiting" ELSE state

-----------------------------------------------------------------------------
Init ==
  /\ file = <<>> /\ half = FALSE /\ running = TRUE
  /\ known = FALSE /\ offset = 0 /\ cache = NoInfo /\ lastOut = Old
  /\ lost = {}

\* The kinds of the first n lines that are about a call.
Kinds(i, n) == {file[j].kind : j \in {k \in 1..n : file[k].id = i}}

\* Calls among the first n lines that have no result there.
Open(n) == {i \in ToolUses : Kinds(i, n) \cap Called # {} /\ "result" \notin Kinds(i, n)}

\* The session appends a line, or its first half.
Append1(l) ==
  /\ running /\ ~half /\ Len(file) < MaxLines
  /\ l.age = 0
  /\ l.cut # "nowhere" =>
       Cardinality({i \in DOMAIN file : file[i].cut # "nowhere"}) < MaxCuts
  /\ l.kind \in Called => Kinds(l.id, Len(file)) = {}
  /\ l.kind = "result" => l.id \in Open(Len(file))
  /\ file' = Append(file, l)
  /\ half' = (l.cut # "nowhere")
  /\ UNCHANGED <<running, reader>>

\* The other half of the last line follows.
Finish ==
  /\ half
  /\ half' = FALSE
  /\ UNCHANGED <<file, running, reader>>

\* The process of the session exits, or is resumed.
ExitOrResume ==
  /\ running' = ~running
  /\ UNCHANGED <<file, half, reader>>

Older(age) == IF age < Old THEN age + 1 ELSE Old

\* Time passes.
Tick ==
  /\ file' = [i \in DOMAIN file |-> [file[i] EXCEPT !.age = Older(@)]]
  /\ cache' = [cache EXCEPT !.age = Older(@), !.apiAge = Older(@)]
  /\ lastOut' = Older(lastOut)
  /\ UNCHANGED <<half, running, known, offset, lost>>

\* A claude session is listed while its process runs and its file is recent.
Listed == running /\ file # <<>> /\ file[Len(file)].age <= DropAge

\* Mutant: the offset also counts a newline that is still to come.
PastNewline == Size + 1

\* The offset after a reading.
ReadTo == Size

\* The session is read and shown; its first reading only creates the monitor,
\* every later one moves the offset and keeps what was parsed.  Activity of
\* the process may refresh lastOut.
Show ==
  /\ Listed /\ readTranscript # NoInfo
  /\ \E age \in {readTranscript.age, 0} : lastOut' = age
  /\ known' = TRUE
  /\ offset' = IF known THEN ReadTo ELSE 0
  /\ cache' = IF known /\ HasNews THEN Chunk ELSE cache
  /\ lost' = IF known /\ Complete(Size) < Len(file) THEN lost \cup {Len(file)} ELSE lost
  /\ UNCHANGED session

\* The session is not listed or yields nothing: its monitor is dropped.
Drop ==
  /\ ~Listed \/ readTranscript = NoInfo
  /\ known' = FALSE /\ offset' = 0 /\ cache' = NoInfo /\ lastOut' = Old
  /\ lost' = {}
  /\ UNCHANGED session

Scan == Show \/ Drop

Next ==
  \/ \E l \in Line : Append1(l)
  \/ Finish
  \/ ExitOrResume
  \/ Tick
  \/ Scan

Spec == Init /\ [][Next]_vars
-----------------------------------------------------------------------------
(***************************************************************************)
(* Properties.                                                             *)
(***************************************************************************)

\* Every variable has its type, and no reader is past the end of the file.
TypeOK ==
  /\ file \in Seq(Line) /\ Len(file) <= MaxLines
  /\ half \in BOOLEAN /\ running \in BOOLEAN /\ known \in BOOLEAN
  /\ half => file # <<>>
  /\ offset \in 0..Size
  /\ cache \in Info
  /\ lastOut \in Ages
  /\ lost \subseteq DOMAIN file

\* Reading piece by piece comes to the same as reading the whole file again,
\* however the pieces are cut, as long as no line was cut in two and none
\* reports an error: the monitor's pending calls, the age of the session and
\* the state derived from it.
ReadsAsWhole ==
  LET whole == Parse(NoInfo, 0, offset)
  IN  known /\ offset > 0 /\ lost = {} /\ (\A i \in DOMAIN file : file[i].kind # "error")
        => /\ cache.pending = whole.pending
           /\ cache.age = whole.age
           /\ transcriptState(cache, running) = transcriptState(whole, running)

\* What a scan shows of the session: the reading, its age that of lastOut.
Shown == [readTranscript EXCEPT !.age = lastOut']

\* A session is shown as waiting for its user only if claude itself says so or,
\* when it says nothing, while the file holds a call without a result (as long as
\* no line was cut in two), whatever the terminal looks like.
WaitingIsReal ==
  [][Show =>
       \A blocked \in BOOLEAN, status \in Statuses :
         DeriveTranscriptState(Shown, running, blocked, status) = "waiting"
           => \/ status = "waiting"
              \/ status = None /\ (lost' = {} => Open(Complete(Size)) # {})]_vars

\* A session that is shown stays shown, whether its file grew, stood still or
\* was caught in the middle of a line, until it is no longer listed or its
\* last line of content is old.  The exception is the code's own: a newline
\* that arrives alone makes it vanish for a scan.
SessionStaysShown ==
  [][known /\ ~known' =>
       \/ ~Listed
       \/ BlankNews
       \/ \A i \in 1..Complete(Size) : Content(file[i]) => file[i].age > DropAge]_vars
=============================================================================
