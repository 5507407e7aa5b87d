------------------------------- MODULE Monitor ------------------------------
(***************************************************************************)
(* The state of an agent told from outside: from the system calls of its   *)
(* process tree, its connections and whether it is blocked on its          *)
(* terminal; and that of hermes, which is told from its database as long   *)
(* as that can be read.                                                    *)
(*                                                                         *)
(* The kernel program notes when a process was last active and keeps the   *)
(* last event of each process; a scan polls the events into the monitor of *)
(* the root (consumeEvent), later takes over the time of the last activity *)
(* and derives the state (updateState) and whether it is stuck.            *)
(*                                                                         *)
(* Points in time are kept as ages, which Tick advances up to Old.  The    *)
(* text of a process's monitor is always empty, so the rules on what it    *)
(* says never apply and are left out.                                      *)
(***************************************************************************)
EXTENDS Naturals

CONSTANTS
  Interval,  \* longest time between two polls
  Idle,      \* idle_seconds
  Wait,      \* wait_input_seconds
  Think,     \* thinkWindow
  Quiet,     \* idleNs of the sources
  Stuck,     \* stuck_seconds
  Suspends,  \* whether the machine may be suspended
  Recurring, \* events that the child may repeat for ever
  MaxActs    \* bound on what else the agent does (a bound of the model)

Old  == Stuck + Interval
Ages == 0..Old

\* The root process of an agent, and one process below it.
Procs == {"root", "child"}

\* Events: open for reading, open for writing (or rename to) a file of the
\* user, open for writing a transient file, connections.
Events == {"execve", "read", "edit", "temp", "connect", "connectLLM"}
NoEvent == "none"

ASSUME MonitorAssumption ==
  /\ {Interval, Idle, Wait, Think, Quiet, Stuck, MaxActs} \subseteq Nat \ {0}
  /\ Idle < Wait /\ Idle < Think /\ Wait < Stuck /\ Think <= Quiet /\ Quiet < Stuck
  /\ Suspends \in BOOLEAN /\ Recurring \subseteq Events

\* agentMonitor: the ages of lastOut, lastEvTs, connTs and editTs.
AgentMonitor ==
  [lastOut : Ages, lastEv : Ages, connTs : Ages, editTs : Ages,
   lastConn : {"none", "other", "llm"}, lastFileWr : BOOLEAN]

\* hermesMessageState: the newest message is one the model answers (of the user
\* or of a tool), or one of the model that calls tools or that ends its turn.
Roles == {"toAnswer", "calls", "stop"}

\* state.db: the age of the last update of unfinished work, the newest message
\* and its age.
Database == [work : Ages, role : Roles \cup {"none"}, at : Ages]

States == {"waiting", "thinking", "editing", "running", "idle"}

VARIABLES
  tool,    \* "hermes", or one without a source
  db,      \* the database of hermes
  proc,    \* the process: blocked on its pty, with a child, connected to an LLM
  own,     \* age of the root's last activity
  events,  \* beh_map: the last event of each process
  full,    \* last_active takes no further process
  marked,  \* last_active has an entry of the root
  skew,    \* how much older than it is last_active makes an activity
  known,   \* the root has a monitor
  monitor, \* the monitor
  gap,     \* time since the last poll
  phase,   \* what the scan does next
  shown,   \* the state of the row, and whether it has a stuck alert
  edited,  \* history: time the machine was up since the last edit of a user's file
  heard,   \* history: this scan has polled an event of the child
  acts     \* what the agent has done

agent == <<proc, db>>

vars == <<tool, agent, own, events, full, marked, skew, known, monitor, gap, phase, shown,
          edited, heard, acts>>
-----------------------------------------------------------------------------
Init ==
  /\ tool \in {"plain", "hermes"}
  /\ db = [work |-> Old, role |-> "none", at |-> Old]
  /\ proc \in [blocked : BOOLEAN, child : {FALSE}, llm : BOOLEAN]
  /\ own = Old /\ events = [p \in Procs |-> NoEvent]
  /\ marked = FALSE /\ full \in BOOLEAN /\ skew = 0
  /\ known = FALSE
  /\ monitor = [lastOut |-> Old, lastEv |-> Old, connTs |-> Old, editTs |-> Old,
                lastConn |-> "none", lastFileWr |-> FALSE]
  /\ gap = 0 /\ phase = "poll"
  /\ shown = [state |-> "idle", stuck |-> FALSE]
  /\ edited = Old /\ heard = FALSE /\ acts = 0

Act == acts < MaxActs /\ acts' = acts + 1 /\ UNCHANGED tool

\* mark_active: an entry is refreshed, a new one made if there is room.
MarkActive(p) ==
  IF p = "root" THEN own' = 0 /\ marked' = (marked \/ ~full)
  ELSE UNCHANGED <<own, marked>>

\* A system call with an event, which replaces the last one of its process.
Emit(p, event) ==
  /\ IF p = "child" /\ event \in Recurring THEN UNCHANGED <<tool, acts>> ELSE Act
  /\ p = "child" => proc.child
  /\ MarkActive(p)
  /\ events' = [events EXCEPT ![p] = event]
  /\ edited' = IF event = "edit" THEN 0 ELSE edited
  /\ UNCHANGED <<agent, full, skew, known, monitor, gap, phase, shown, heard>>

\* write: noted for monitored processes only, and no event.
WriteCall ==
  /\ Act
  /\ known
  /\ MarkActive("root")
  /\ UNCHANGED <<agent, events, full, skew, known, monitor, gap, phase, shown, edited, heard>>

\* The process blocks on its pty or goes on, starts or loses a child, opens or
\* closes a connection to an LLM.
Turn(part) ==
  /\ Act
  /\ proc' = [proc EXCEPT ![part] = ~@]
  /\ UNCHANGED <<db, own, events, full, marked, skew, known, monitor, gap, phase, shown, edited,
                 heard>>

\* Hermes notes a message, works on something or has done it, in a process that
\* need not be the one observed.
Note(update) ==
  /\ Act
  /\ tool = "hermes"
  /\ db' = CASE update \in Roles -> [db EXCEPT !.role = update, !.at = 0]
             [] update = "work"  -> [db EXCEPT !.work = 0]
             [] update = "done"  -> [db EXCEPT !.work = Old]
  /\ UNCHANGED <<proc, own, events, full, marked, skew, known, monitor, gap, phase, shown,
                 edited, heard>>

Older(age, by) == IF age + by > Old THEN Old ELSE age + by

Pass(time) ==
  /\ own' = Older(own, time)
  /\ db' = [db EXCEPT !.work = Older(@, time), !.at = Older(@, time)]
  /\ monitor' = [monitor EXCEPT !.lastOut = Older(@, time), !.lastEv = Older(@, time),
                                !.connTs = Older(@, time), !.editTs = Older(@, time)]

Tick ==
  /\ gap < Interval
  /\ gap' = gap + 1
  /\ Pass(1)
  /\ edited' = Older(edited, 1)
  /\ UNCHANGED <<tool, proc, events, full, marked, skew, known, phase, shown, heard, acts>>

\* bpf_ktime_get_ns stands still while the machine is suspended, the boot time
\* that LastActive compares it with does not.
Suspend ==
  /\ Suspends /\ skew = 0
  /\ skew' = Old
  /\ Pass(Old)
  /\ UNCHANGED <<tool, proc, events, full, marked, known, gap, phase, shown, edited, heard, acts>>

-----------------------------------------------------------------------------
(***************************************************************************)
(* pollBehavior and consumeEvent.                                          *)
(***************************************************************************)

\* Mutant: a connection does not count as an event.
ConsumeFilesOnly(m, event) ==
  IF event = NoEvent THEN m
  ELSE IF event \in {"connect", "connectLLM"} THEN [m EXCEPT !.lastOut = 0, !.connTs = 0]
  ELSE [m EXCEPT !.lastOut = 0, !.lastEv = 0, !.lastFileWr = (event # "read")]

ConsumeEvent(m, event) ==
  IF event = NoEvent THEN m
  ELSE [m EXCEPT !.lastOut    = 0,
                 !.lastEv     = 0,
                 !.lastFileWr = IF event \in {"read", "edit", "temp"} THEN event # "read" ELSE @,
                 !.editTs     = IF event = "edit" THEN 0 ELSE @,
                 !.connTs     = IF event \in {"connect", "connectLLM"} THEN 0 ELSE @,
                 !.lastConn   = IF event = "connectLLM" THEN "llm"
                                ELSE IF event = "connect" THEN "other" ELSE @]

\* The map is emptied in any order; both processes are owned by the root, and
\* what comes before the root has a monitor is lost.
Poll ==
  /\ phase = "poll"
  /\ \E first \in Procs :
       LET second == CHOOSE p \in Procs : p # first
       IN  monitor' = IF known THEN ConsumeEvent(ConsumeEvent(monitor, events[first]),
                                                 events[second])
                      ELSE monitor
  /\ events' = [p \in Procs |-> NoEvent]
  /\ heard' = (known /\ events["child"] # NoEvent)
  /\ gap' = 0 /\ phase' = "derive"
  /\ UNCHANGED <<tool, agent, own, full, marked, skew, known, shown, edited, acts>>

-----------------------------------------------------------------------------
(***************************************************************************)
(* updateState, and the stuck rule of detectAnomalies.                     *)
(***************************************************************************)
IsLLM(m)      == m.lastConn = "llm" \/ proc.llm
LLMActive(m)  == IsLLM(m) /\ (m.connTs < Idle \/ m.lastEv < Idle)
Active(m)     == m.lastOut < Idle
RecentEdit(m) == m.editTs < Idle

\* Mutant: an agent with a connection to an LLM never waits for input.
NeedsInputUnlessConnected(m) ==
  proc.blocked /\ ~Active(m) /\ ~IsLLM(m) /\ m.lastOut > Wait

NeedsInput(m) == proc.blocked /\ ~Active(m) /\ ~LLMActive(m) /\ m.lastOut > Wait

Thinking(m) == LLMActive(m) /\ m.connTs < Think /\ ~RecentEdit(m)

Editing(m) == RecentEdit(m) /\ m.lastFileWr

\* Mutant: a child does not count.
RunningAlone(m) == Active(m) \/ m.lastEv < Idle

Running(m) == proc.child \/ Active(m) \/ m.lastEv < Idle

State(m) ==
  CASE NeedsInput(m) -> "waiting"
    [] ~NeedsInput(m) /\ Thinking(m) -> "thinking"
    [] ~NeedsInput(m) /\ ~Thinking(m) /\ Editing(m) -> "editing"
    [] ~NeedsInput(m) /\ ~Thinking(m) /\ ~Editing(m) /\ Running(m) -> "running"
    [] OTHER -> "idle"

\* readHermesState, if the query for work and that for messages succeed or not:
\* without messages to go by the state is that of the kernel's signals.
HermesState(m, workRead, messagesRead) ==
  CASE workRead /\ db.work <= Quiet -> "running"
    [] ~(workRead /\ db.work <= Quiet) /\ ~messagesRead -> State(m)
    [] ~(workRead /\ db.work <= Quiet) /\ messagesRead ->
         IF db.role = "none" \/ db.at > Quiet THEN "idle"
         ELSE CASE db.role = "toAnswer" -> "thinking"
                [] db.role = "calls"    -> "running"
                [] db.role = "stop"     -> "idle"

\* What the agent's source makes of it.
Sourced(m) ==
  IF tool = "hermes" THEN {HermesState(m, w, r) : w, r \in BOOLEAN} ELSE {State(m)}

\* The stuck rule; an agent that needs input is one that is shown as waiting.
IsStuck(m, state) == state \notin {"idle", "waiting"} /\ m.lastOut > Stuck

\* Mutant: the kernel's record is not consulted.
LastOutOfEvents == monitor.lastOut

\* LastActive replaces lastOut if the root has an entry.
LastOut == IF marked THEN Older(own, skew) ELSE monitor.lastOut

\* The visit of the root in step 3 of the scan.
Derive ==
  /\ phase = "derive"
  /\ LET m == [monitor EXCEPT !.lastOut = LastOut]
     IN  /\ monitor' = m
         /\ \E state \in Sourced(m) : shown' = [state |-> state, stuck |-> IsStuck(m, state)]
  /\ known' = TRUE /\ heard' = FALSE
  /\ phase' = "poll"
  /\ UNCHANGED <<tool, agent, own, events, full, marked, skew, gap, edited, acts>>

Next ==
  \/ \E p \in Procs, event \in Events : Emit(p, event)
  \/ WriteCall
  \/ \E part \in DOMAIN proc : Turn(part)
  \/ \E update \in Roles \cup {"work", "done"} : Note(update)
  \/ Tick
  \/ Suspend
  \/ Poll
  \/ Derive

\* Time passes and the scan ticker keeps firing.
Fairness == WF_vars(Tick) /\ WF_vars(Poll) /\ WF_vars(Derive)

Spec == Init /\ [][Next]_vars /\ Fairness
-----------------------------------------------------------------------------
(***************************************************************************)
(* Properties.                                                             *)
(***************************************************************************)

\* Every variable has its type, no event is newer than the last one, and the
\* time of an edit is late by no more than the interval.
TypeOK ==
  /\ tool \in {"plain", "hermes"} /\ db \in Database
  /\ proc \in [blocked : BOOLEAN, child : BOOLEAN, llm : BOOLEAN]
  /\ own \in Ages /\ edited \in Ages /\ skew \in {0, Old}
  /\ events \in [Procs -> Events \cup {NoEvent}]
  /\ {full, marked, known, heard} \subseteq BOOLEAN
  /\ monitor \in AgentMonitor
  /\ monitor.lastEv <= monitor.connTs /\ monitor.lastEv <= monitor.editTs
  /\ edited <= monitor.editTs + Interval
  /\ gap \in 0..Interval /\ phase \in {"poll", "derive"}
  /\ shown \in [state : States, stuck : BOOLEAN]
  /\ acts \in 0..MaxActs

Derived == phase = "derive" /\ phase' = "poll"

\* What is shown has a reason in what the agent really did, as far as the kernel
\* had room to note it and the machine was not suspended:
\* - it is stuck only if it made no system call for that long, not even a write
\*   to its terminal;
\* - it waits only if it is blocked and has done nothing for the wait time;
\* - it edits only if someone of its tree edited a file of the user within the
\*   idle time and the interval to the poll, so transient files do not count;
\* - hermes works only if its database says so, unless that cannot be read.
ShownHasReason ==
  [][Derived =>
       /\ shown'.stuck /\ marked /\ skew = 0 => own > Stuck
       /\ shown'.state = "waiting" => proc.blocked /\ (marked /\ skew = 0 => own > Wait)
       /\ shown'.state = "editing" => edited < Idle + Interval
       /\ tool = "hermes" /\ shown'.state \in {"thinking", "running"} =>
            db.work <= Quiet \/ db.at <= Quiet \/ shown'.state = State(monitor')]_vars

\* The root makes no more system calls, its child none with an event.
RootSilent  == own # 0
ChildSilent == events["child"] = NoEvent

\* An agent that stays blocked on its terminal and does nothing any more ends up
\* waiting, whatever its connections (hermes, if its database cannot be read).
\* Its child may go on for ever if the kernel has an entry of the root, which
\* keeps the child's events out of lastOut, and as long as the agent is not
\* taken to be connected to an LLM: one that is counts as thinking, or at least
\* not as waiting, with every event of its child.
PromptNoticed ==
  tool = "plain" /\ <>[](proc.blocked /\ RootSilent) =>
    (<>[]ChildSilent \/ <>[](marked /\ ~IsLLM(monitor)) => <>[](shown.state = "waiting"))

\* An agent that hangs with a child, neither blocked nor doing anything any
\* more, is found to be stuck.  Again its child may go on if the kernel has an
\* entry of the root.
HangNoticed ==
  tool = "plain" /\ <>[](proc.child /\ ~proc.blocked /\ RootSilent) =>
    (<>[]ChildSilent \/ <>[]marked => <>[]shown.stuck)

\* What the comment on consumeEvent says: an event of its child that the scan
\* has polled keeps the agent from being called stuck by the same scan.
WorkingIsNotStuck ==
  [][Derived /\ heard => ~shown'.stuck]_vars
=============================================================================
