------------------------------ MODULE Timeline ------------------------------
(***************************************************************************)
(* The timeline of an agent: what scans record in the events table, what   *)
(* /api/events answers, and the panel of the page that asks for it.        *)
(*                                                                         *)
(* The page runs beside the scans.  An answer may be overtaken by others   *)
(* and by clicks that open another agent; the page only compares the pid.  *)
(* Every file the collector reports is one of the user, hence the filter   *)
(* of the panel changes no answer and is left out, but not its button.     *)
(***************************************************************************)
EXTENDS Integers, Sequences, FiniteSets, Selection

CONSTANTS
  ProcPids,    \* agents that may be shown as a process
  TxPids,      \* agents that may be shown as a session with a transcript
  States,      \* states of sessions
  Kinds,       \* kinds of behaviour: command, file, connection
  Values,      \* commands, files, addresses
  Limit,       \* rows of an answer
  Null,        \* what JSON makes of an empty slice
  Failed,      \* an answer that is an error
  Pending,     \* no answer yet
  Undefined,   \* the pid of a click
  MaxRows,     \* bound on the rows of the table (a bound of the model)
  MaxClicks,   \* bound on the clicks (a bound of the model)
  MaxRequests  \* bound on the requests under way (a bound of the model)

Pids    == ProcPids \cup TxPids
NoAgent  == 0 \* no agent is open
NoValue == "none"
Needs   == "needs_input"

Details == Values \cup States \cup {Needs}
Event   == [pid : Pids, kind : Kinds \cup {"state"}, detail : Details]

\* An agent has a monitor of its process, and one of its session while that has
\* a transcript.
Monitors == [pid : ProcPids, src : {"proc"}] \cup [pid : TxPids, src : {"transcript"}]

Request == [pid : Pids \cup {Undefined}, answer : {Pending, Failed, Null} \cup Seq(Event)]

\* A click is no agent, and no answer is taken for another.
ASSUME TimelineAssumption ==
  /\ NoAgent \notin Pids /\ Undefined \notin Pids \cup {NoAgent}
  /\ "state" \notin Kinds /\ IsFiniteSet(Kinds)
  /\ Null # Failed /\ Null # Pending /\ Failed # Pending
  /\ {Null, Failed, Pending} \cap Seq(Event) = {}
  /\ {Limit, MaxRows, MaxClicks, MaxRequests} \subseteq Nat \ {0}

VARIABLES
  prev,      \* prevCmd ... prevState of each monitor
  told,      \* history: what the visits of each process last reported
  missed,    \* history: of this, the kinds that could not be inserted
  rows,      \* the events table, oldest first
  open, tab, events, eventsLoading, \* as in the page
  requests,  \* answers under way
  asked,     \* history: which button last asked for events
  view,      \* what the panel shows
  clicks     \* clicks so far

scans == <<prev, told, missed, rows>>
timelineVars  == <<scans, open, tab, events, eventsLoading, requests, asked, view, clicks>>
-----------------------------------------------------------------------------
NoPrev == [k \in Kinds \cup {"state"} |-> NoValue]

TimelineInit ==
  /\ prev = [m \in Monitors |-> NoPrev] /\ told = [p \in ProcPids |-> NoPrev]
  /\ missed = [p \in ProcPids |-> {}] /\ rows = <<>>
  /\ open = NoAgent /\ tab = "info" /\ events = <<>> /\ eventsLoading = FALSE
  /\ requests = <<>> /\ asked = "none" /\ view = "closed" /\ clicks = 0

(***************************************************************************)
(* The collector.                                                          *)
(***************************************************************************)
ofPage == <<open, tab, events, eventsLoading, requests, asked, view, clicks>>

\* What a visit passes to recordEvents: for a process that waits what it did, for
\* a session its state.
Reports(src) ==
  IF src = "proc"
  THEN {[k \in Kinds \cup {"state"} |-> IF k = "state" THEN Needs ELSE did[k]] :
          did \in [Kinds -> Values \cup {NoValue}]}
  ELSE {[NoPrev EXCEPT !["state"] = state] : state \in States}

\* Mutant: each kind is recorded once.
ChangedOnce(m, now) == {k \in DOMAIN now : now[k] # NoValue /\ prev[m][k] = NoValue}

Changed(m, now) == {k \in DOMAIN now : now[k] \notin {NoValue, prev[m][k]}}

\* The rows of a visit, in whatever order it records the kinds.
Orders(new) == {row \in [1..Cardinality(new) -> new] : \A e \in new : \E i \in DOMAIN row : row[i] = e}

\* What a monitor remembers after some kinds were reported.
Over(old, now, kinds) == [k \in DOMAIN now |-> IF k \in kinds THEN now[k] ELSE old[k]]

\* What has changed since the monitor last reported is recorded.  RecordEvent
\* fails for some of the kinds, but the monitor remembers these as well.
RecordEvents(m, now) ==
  \E failed \in SUBSET Changed(m, now) :
    LET new == {[pid |-> m.pid, kind |-> k, detail |-> now[k]] : k \in Changed(m, now) \ failed}
    IN  /\ \E added \in Orders(new) :
             Len(rows) + Len(added) <= MaxRows /\ rows' = rows \o added
        /\ prev' = [prev EXCEPT ![m] = Over(@, now, Changed(m, now))]
        /\ IF m.src # "proc" THEN UNCHANGED <<told, missed>>
           ELSE /\ told' = [told EXCEPT ![m.pid] =
                             Over(@, now, {k \in DOMAIN now : now[k] # NoValue})]
                /\ missed' = [missed EXCEPT ![m.pid] =
                               (@ \ Changed(m, now)) \cup (failed \cap Kinds)]
        /\ UNCHANGED ofPage

\* PruneEvents: rows are in the order of their time.
PruneEvents ==
  /\ \E n \in 1..Len(rows) : rows' = SubSeq(rows, n + 1, Len(rows))
  /\ UNCHANGED <<prev, told, missed, ofPage>>

\* The process exits, another one takes its pid, or its session is not read: the
\* monitor is dropped, and the next one of that pid is new.
Drop(m) ==
  /\ prev' = [prev EXCEPT ![m] = NoPrev]
  /\ told' = IF m.src = "proc" THEN [told EXCEPT ![m.pid] = NoPrev] ELSE told
  /\ missed' = IF m.src = "proc" THEN [missed EXCEPT ![m.pid] = {}] ELSE missed
  /\ UNCHANGED <<rows, ofPage>>

-----------------------------------------------------------------------------
(***************************************************************************)
(* The server.                                                             *)
(***************************************************************************)

\* The rows of an agent.
EventsOf(table, p) == Among(table, {e \in Event : e.pid = p})

\* Mutant: the limit is not applied.
RecentAll(p) == IF EventsOf(rows, p) = <<>> THEN Null ELSE EventsOf(rows, p)

\* RecentEvents: the newest rows, oldest first; an empty result is nil.
RecentEvents(p) ==
  LET mine == EventsOf(rows, p)
      from == IF Len(mine) > Limit THEN Len(mine) - Limit + 1 ELSE 1
  IN  IF mine = <<>> THEN Null ELSE SubSeq(mine, from, Len(mine))

\* /api/events: "undefined" is read as pid 0, of which there are no events.
Serve(i) ==
  /\ requests[i].answer = Pending
  /\ \E result \in {RecentEvents(requests[i].pid), Failed} :
       requests' = [requests EXCEPT ![i].answer = result]
  /\ UNCHANGED <<scans, open, tab, events, eventsLoading, asked, view, clicks>>

-----------------------------------------------------------------------------
(***************************************************************************)
(* The page.                                                               *)
(***************************************************************************)

\* The panel is rendered after every handler.  Asking null for its length
\* fails, and the framework shows nothing in place of the agent.
Rendered ==
  IF open' = NoAgent THEN "closed"
  ELSE IF tab' = "info" THEN "info"
  ELSE IF eventsLoading' THEN "loading"
  ELSE IF events' = Null THEN "nothing"
  ELSE IF events' = <<>> THEN "empty" ELSE "list"

Click == clicks < MaxClicks /\ clicks' = clicks + 1 /\ UNCHANGED scans

\* loadEvents up to its first await.
LoadEvents(pid) ==
  /\ Len(requests) < MaxRequests
  /\ tab' = "timeline" /\ eventsLoading' = TRUE
  /\ requests' = Append(requests, [pid |-> pid, answer |-> Pending])

\* toggle: the agent's card is clicked.
Toggle(p) ==
  /\ Click
  /\ ~(open = p /\ view = "nothing")
  /\ open' = IF open = p THEN NoAgent ELSE p
  /\ IF open = p THEN UNCHANGED <<tab, events>> ELSE tab' = "info" /\ events' = <<>>
  /\ UNCHANGED <<eventsLoading, requests, asked>>
  /\ view' = Rendered

ClickTimeline ==
  /\ Click
  /\ open # NoAgent /\ view # "nothing"
  /\ LoadEvents(open)
  /\ asked' = "tab"
  /\ UNCHANGED <<open, events>>
  /\ view' = Rendered

ClickInfo ==
  /\ Click
  /\ open # NoAgent /\ view # "nothing"
  /\ tab' = "info"
  /\ UNCHANGED <<open, events, eventsLoading, requests, asked>>
  /\ view' = Rendered

\* toggleOnlyUser: the template passes it no node, hence it gets the event of
\* the click, which has no pid.
ToggleOnlyUser ==
  /\ Click
  /\ view \in {"loading", "empty", "list"}
  /\ LoadEvents(Undefined)
  /\ asked' = "filter"
  /\ UNCHANGED <<open, events>>
  /\ view' = Rendered

\* Mutant: the answer is accepted whatever is open now.
AcceptedAlways(pid) == open # NoAgent

Accepted(pid) == open = pid

\* Mutant: the loading ends with a good answer only.
LoadingAfterSuccess(r) == IF Accepted(r.pid) /\ r.answer # Failed THEN FALSE ELSE eventsLoading

LoadingAfter(r) == IF Accepted(r.pid) THEN FALSE ELSE eventsLoading

\* loadEvents after its awaits.
Receive(i) ==
  LET r == requests[i]
  IN  /\ r.answer # Pending
      /\ events' = IF ~Accepted(r.pid) THEN events
                   ELSE IF r.answer = Failed THEN <<>> ELSE r.answer
      /\ eventsLoading' = LoadingAfter(r)
      /\ requests' = SubSeq(requests, 1, i - 1) \o SubSeq(requests, i + 1, Len(requests))
      /\ UNCHANGED <<scans, open, tab, asked, clicks>>
      /\ view' = Rendered

TimelineNext ==
  \/ \E m \in Monitors : Drop(m) \/ \E now \in Reports(m.src) : RecordEvents(m, now)
  \/ PruneEvents
  \/ \E i \in DOMAIN requests : Serve(i) \/ Receive(i)
  \/ \E p \in Pids : Toggle(p)
  \/ ClickTimeline \/ ClickInfo \/ ToggleOnlyUser

\* Every request is answered or fails.
Answers(i) == i \in DOMAIN requests /\ (Serve(i) \/ Receive(i))

TimelineSpec ==
  TimelineInit /\ [][TimelineNext]_timelineVars /\ \A i \in 1..MaxRequests : WF_timelineVars(Answers(i))
-----------------------------------------------------------------------------
(***************************************************************************)
(* Properties.                                                             *)
(***************************************************************************)

\* Every variable has its type.
TimelineTypeOK ==
  /\ prev \in [Monitors -> [Kinds \cup {"state"} -> Details \cup {NoValue}]]
  /\ told \in [ProcPids -> [Kinds \cup {"state"} -> Details \cup {NoValue}]]
  /\ missed \in [ProcPids -> SUBSET Kinds]
  /\ rows \in Seq(Event) /\ Len(rows) <= MaxRows
  /\ open \in Pids \cup {NoAgent} /\ tab \in {"info", "timeline"}
  /\ events = Null \/ (events \in Seq(Event) /\ Len(events) <= Limit)
  /\ eventsLoading \in BOOLEAN
  /\ requests \in Seq(Request) /\ Len(requests) <= MaxRequests
  /\ asked \in {"none", "tab", "filter"}
  /\ view \in {"closed", "info", "loading", "nothing", "empty", "list"}
  /\ clicks \in 0..MaxClicks

\* However answers and clicks overtake each other, the events on the panel are
\* those of the agent that is open.
ShowsOpenAgent ==
  view \in {"list", "loading"} /\ events # Null => \A i \in DOMAIN events : events[i].pid = open

\* A panel that asked for the events of its agent does not load for ever, even
\* if it was closed, opened again or left for another one in between.
LoadingEnds == <>[](view = "loading" => asked = "filter")

\* The i-th row is the newest of its agent and kind.
Newest(table, i, p, k) ==
  /\ table[i].pid = p /\ table[i].kind = k
  /\ \A j \in i + 1..Len(table) : table[j].pid # p \/ table[j].kind # k

\* When a waiting process has reported, the newest row of each kind that is left
\* says what it last did, pruned rows, its session and other processes of that
\* pid notwithstanding.  What it did when an insertion failed is the exception:
\* it is not recorded, and the row before it stays the newest until the process
\* does something else.
RecordIsCurrent ==
  [][\A p \in ProcPids, k \in Kinds :
       told'[p] # told[p] /\ told'[p][k] # NoValue /\ k \notin missed'[p] =>
         \A i \in DOMAIN rows' : Newest(rows', i, p, k) => rows'[i].detail = told'[p][k]]_timelineVars
=============================================================================
