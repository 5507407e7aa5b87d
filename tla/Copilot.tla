------------------------------ MODULE Copilot -------------------------------
(***************************************************************************)
(* The state of copilot agents: which session a process is taken to run    *)
(* (parseCopilotStateResultInDirForCWD), and what the tail of the          *)
(* session's events.jsonl says of it.                                      *)
(*                                                                         *)
(* Copilot itself, which writes the events, is external: it asks for       *)
(* permission or input with or without a request id, calls tools in        *)
(* parallel, shuts down, is killed and is resumed.  What it really does is *)
(* kept beside its log, for the parser's answer to be compared with.       *)
(***************************************************************************)
EXTENDS Integers, Sequences, FiniteSets, Selection

CONSTANTS
  Sessions,  \* session directories
  Cwds,      \* working directories
  CwdOf,     \* the working directory of each session's process
  Requests,  \* request ids
  NoRequest, \* stands for the event family of a request that has no id
  Calls,     \* toolCallIds
  TailSize,  \* events that fit into the tail that is read (256 KB)
  MaxEvents  \* bound on all events written (a bound of the model)

Keys == Requests \cup {NoRequest}
None == "none"

ASSUME CopilotAssumption ==
  /\ CwdOf \in [Sessions -> Cwds]
  /\ IsFiniteSet(Sessions) /\ None \notin Sessions
  /\ NoRequest \notin Requests
  /\ Calls \cap (Requests \cup {NoRequest}) = {}
  /\ TailSize \in Nat \ {0} /\ MaxEvents \in Nat

\* "start" is session.start and every other type that the parser ignores;
\* a call is of an ordinary tool or of one that waits for the user.
Event == [type : {"start", "turn_start", "turn_end", "final_answer", "shutdown"},
          id   : {None}]
           \cup [type : {"call", "ask_user", "complete"}, id : Calls]
           \cup [type : {"requested", "completed"}, id : Keys]

\* Calls, and what tells them apart.
OpenCall == [type : {"call", "ask_user"}, id : Calls]
Ids(calls) == {calls[n].id : n \in DOMAIN calls}

VARIABLES
  log,     \* the events of each session
  newer,   \* for each session, those that were written after it
  alive,   \* sessions whose process runs
  turn,    \* those in an assistant's turn
  final,   \* those whose turn has given its final answer
  asking,  \* requests of each session that wait for the user
  calling, \* calls of each session that are not complete, in order
  left,    \* requests and calls that a process left behind when it ended
  quiet,   \* history: length of the log when the session was last idle
  killed   \* history: sessions killed since the session's last write

truth == <<turn, final, asking, calling, left, quiet>>
copilotVars == <<log, newer, alive, truth, killed>>
-----------------------------------------------------------------------------
(***************************************************************************)
(* The parser.                                                             *)
(***************************************************************************)

\* What the loop over the events accumulates.
Nothing == [waits |-> {}, tools |-> <<>>, turn |-> FALSE, final |-> FALSE]

\* Mutant: a new turn does not settle the requests before it.
TurnStartedOnly(a) == [a EXCEPT !.turn = TRUE, !.final = FALSE]

\* A new turn: the user has answered whatever was asked.
TurnStarted(a) == [a EXCEPT !.turn = TRUE, !.final = FALSE, !.waits = {}]

\* Mutant: the end of a turn leaves its final answer.
TurnEndedOnly(a) == [a EXCEPT !.turn = FALSE]

TurnEnded(a) == [a EXCEPT !.turn = FALSE, !.final = FALSE]

\* The calls but one.
Without(calls, id) == Among(calls, {c \in OpenCall : c.id # id})

\* One event of the loop.
ParseEvent(a, e) ==
  CASE e.type \in {"call", "ask_user"} -> [a EXCEPT !.tools = Append(@, e)]
    [] e.type = "complete"     -> [a EXCEPT !.tools = Without(@, e.id)]
    [] e.type = "turn_start"   -> TurnStarted(a)
    [] e.type = "turn_end"     -> TurnEnded(a)
    [] e.type = "final_answer" -> [a EXCEPT !.final = TRUE]
    [] e.type = "shutdown"     -> [a EXCEPT !.waits = {}]
    [] e.type = "requested"    -> [a EXCEPT !.waits = @ \cup {e.id}]
    [] e.type = "completed"    -> [a EXCEPT !.waits = @ \ {e.id}]
    [] OTHER -> a

\* What the loop makes of the events after the first ones.
Read(events, first) ==
  LET after[n \in 0..Len(events)] ==
        IF n <= first THEN Nothing ELSE ParseEvent(after[n - 1], events[n])
  IN  after[Len(events)]

\* The events of a session that its tail does not reach.
Skipped(s) == IF Len(log[s]) > TailSize THEN Len(log[s]) - TailSize ELSE 0

Parsed(s) == Read(log[s], Skipped(s))

\* The state that follows: an open request first, then the newest open call.
StateOf(waits, tools, inTurn, answered) ==
  IF waits # {} THEN "waiting"
  ELSE IF tools # <<>> THEN IF tools[Len(tools)].type = "ask_user" THEN "waiting" ELSE "running"
  ELSE IF inTurn \/ answered THEN "thinking"
  ELSE "idle"

StateShown(s) == LET a == Parsed(s) IN StateOf(a.waits, a.tools, a.turn, a.final)

lastEventIsShutdown(s) == log[s][Len(log[s])].type = "shutdown"

\* Sessions that have a file.
Files == {s \in Sessions : log[s] # <<>>}

\* Those of a working directory, or all if it has none.
Candidates(cwd) ==
  LET own == {s \in Files : CwdOf[s] = cwd}
  IN  IF own = {} THEN Files ELSE own

\* The candidate that was written last, the first one in the order of mtime.
Latest(some) == CHOOSE s \in some : newer[s] \cap some = {}

\* Mutant: a closed session is as good as any other.
LatestOnly(cwd) == IF Files = {} THEN None ELSE Latest(Candidates(cwd))

\* Mutant: when all are closed there is none.
OpenOnly(cwd) ==
  LET open == {s \in Candidates(cwd) : ~lastEventIsShutdown(s)}
  IN  IF open # {} THEN Latest(open) ELSE None

\* The session that a process in this working directory is taken to run: the
\* last written that is not shut down, or else the last written.
Picked(cwd) ==
  LET open == {s \in Candidates(cwd) : ~lastEventIsShutdown(s)}
  IN  IF open # {} THEN Latest(open)
      ELSE IF Files # {} THEN Latest(Candidates(cwd))
      ELSE None

\* What DeriveProcState returns; without any session, nothing.
DeriveProcState(cwd) == IF Picked(cwd) = None THEN None ELSE StateShown(Picked(cwd))

-----------------------------------------------------------------------------
(***************************************************************************)
(* Copilot.                                                                *)
(***************************************************************************)
CopilotInit ==
  /\ log = [s \in Sessions |-> <<>>]
  /\ newer = [s \in Sessions |-> {}]
  /\ alive = {} /\ turn = {} /\ final = {}
  /\ asking = [s \in Sessions |-> {}]
  /\ calling = [s \in Sessions |-> <<>>]
  /\ left = [s \in Sessions |-> {}]
  /\ quiet = [s \in Sessions |-> 0]
  /\ killed = [s \in Sessions |-> {}]

Rests(s) == asking'[s] = {} /\ calling'[s] = <<>> /\ s \notin turn' \cup final'

\* A session appends an event, and the file becomes the last written.
Write(s, type, id) ==
  /\ Cardinality(UNION {{x} \X DOMAIN log[x] : x \in Sessions}) < MaxEvents
  /\ log' = [log EXCEPT ![s] = Append(@, [type |-> type, id |-> id])]
  /\ newer' = [x \in Sessions |-> IF x = s THEN {} ELSE newer[x] \cup {s}]
  /\ killed' = [killed EXCEPT ![s] = {}]
  /\ quiet' = [quiet EXCEPT ![s] = IF Rests(s) THEN Len(log'[s]) ELSE @]

Unused(s, i) == \A n \in DOMAIN log[s] : log[s][n].id # i

\* A process starts a session or resumes one.
Start(s) ==
  /\ s \notin alive
  /\ alive' = alive \cup {s}
  /\ UNCHANGED <<turn, final, asking, calling, left>>
  /\ Write(s, "start", None)

TurnStart(s) ==
  /\ s \in alive \ turn
  /\ asking[s] = {} /\ calling[s] = <<>>
  /\ turn' = turn \cup {s}
  /\ left' = [left EXCEPT ![s] = @ \cap Calls]
  /\ UNCHANGED <<alive, final, asking, calling>>
  /\ Write(s, "turn_start", None)

FinalAnswer(s) ==
  /\ s \in turn \ final
  /\ final' = final \cup {s}
  /\ UNCHANGED <<alive, turn, asking, calling, left>>
  /\ Write(s, "final_answer", None)

TurnEnd(s) ==
  /\ s \in turn
  /\ asking[s] = {} /\ calling[s] = <<>>
  /\ turn' = turn \ {s} /\ final' = final \ {s}
  /\ UNCHANGED <<alive, asking, calling, left>>
  /\ Write(s, "turn_end", None)

\* A tool is called, beside others, and completes.
Call(s, c, type) ==
  /\ s \in turn /\ Unused(s, c)
  /\ calling' = [calling EXCEPT ![s] = Append(@, [type |-> type, id |-> c])]
  /\ UNCHANGED <<alive, turn, final, asking, left>>
  /\ Write(s, type, c)

Complete(s, c) ==
  /\ c \in Ids(calling[s])
  /\ calling' = [calling EXCEPT ![s] = Without(@, c)]
  /\ UNCHANGED <<alive, turn, final, asking, left>>
  /\ Write(s, "complete", c)

\* The user is asked, within a turn or after it, and answers.
Ask(s, r) ==
  /\ s \in alive /\ r \notin asking[s]
  /\ r \in Requests => Unused(s, r)
  /\ asking' = [asking EXCEPT ![s] = @ \cup {r}]
  /\ UNCHANGED <<alive, turn, final, calling, left>>
  /\ Write(s, "requested", r)

Answer(s, r) ==
  /\ r \in asking[s]
  /\ asking' = [asking EXCEPT ![s] = @ \ {r}]
  /\ UNCHANGED <<alive, turn, final, calling, left>>
  /\ Write(s, "completed", r)

\* The process ends; what it was doing is left in the log.
Ends(s, leaving) ==
  /\ s \in alive
  /\ alive' = alive \ {s}
  /\ turn' = turn \ {s} /\ final' = final \ {s}
  /\ asking' = [asking EXCEPT ![s] = {}]
  /\ calling' = [calling EXCEPT ![s] = <<>>]
  /\ left' = [left EXCEPT ![s] = @ \cup leaving \cup Ids(calling[s])
                                  \cup (IF s \in turn THEN {"turn"} ELSE {})]

Shutdown(s) == Ends(s, {}) /\ Write(s, "shutdown", None)

Kill(s) ==
  /\ Ends(s, asking[s])
  /\ killed' = [x \in Sessions |-> IF x = s THEN killed[x] ELSE killed[x] \cup {s}]
  /\ UNCHANGED <<log, newer, quiet>>

CopilotNext ==
  \E s \in Sessions :
    \/ Start(s) \/ TurnStart(s) \/ FinalAnswer(s) \/ TurnEnd(s)
    \/ \E c \in Calls :
         Call(s, c, "call") \/ Call(s, c, "ask_user") \/ Complete(s, c)
    \/ \E r \in Keys : Ask(s, r) \/ Answer(s, r)
    \/ Shutdown(s) \/ Kill(s)

CopilotSpec == CopilotInit /\ [][CopilotNext]_copilotVars
-----------------------------------------------------------------------------
(***************************************************************************)
(* Properties.                                                             *)
(***************************************************************************)

\* Every variable has its type, and an agent whose tool has any session is
\* shown in one of the four states.
CopilotTypeOK ==
  /\ log \in [Sessions -> Seq(Event)]
  /\ newer \in [Sessions -> SUBSET Files] /\ alive \subseteq Files
  /\ turn \subseteq alive /\ final \subseteq turn
  /\ asking \in [Sessions -> SUBSET Keys] /\ calling \in [Sessions -> Seq(OpenCall)]
  /\ left \in [Sessions -> SUBSET (Keys \cup Calls \cup {"turn"})]
  /\ quiet \in [Sessions -> Nat] /\ \A s \in Sessions : quiet[s] <= Len(log[s])
  /\ killed \in [Sessions -> SUBSET Sessions]
  /\ Files # {} => \A cwd \in Cwds :
       DeriveProcState(cwd) \in {"waiting", "running", "thinking", "idle"}

\* However little of the log the tail holds, nothing is made up: what a running
\* session is shown to wait for, to execute or to think about, it does, unless
\* a process that ended left it open.  A request left open is forgotten when
\* the next turn starts.
NothingMadeUp ==
  \A s \in alive :
    LET a == Parsed(s)
    IN  /\ a.waits \subseteq asking[s] \cup left[s]
        /\ Ids(a.tools) \subseteq Ids(calling[s]) \cup left[s]
        /\ a.turn \/ a.final => s \in turn \/ "turn" \in left[s]

\* The tail is enough when it reaches back to the session's last idle moment
\* and no process left anything open: the state is then the true one.
ExactSinceQuiet ==
  \A s \in alive :
    left[s] = {} /\ Len(log[s]) - quiet[s] <= TailSize
      => StateShown(s) = StateOf(asking[s], calling[s], s \in turn, s \in final)

\* A process alone in its working directory is shown with its own session,
\* unless another process there was killed since the session was last written.
PicksOwnSession ==
  \A s \in alive :
    /\ \A x \in alive \ {s} : CwdOf[x] # CwdOf[s]
    /\ \A x \in killed[s] : CwdOf[x] # CwdOf[s]
    => Picked(CwdOf[s]) = s
=============================================================================
