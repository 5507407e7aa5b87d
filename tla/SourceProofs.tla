--------------------------- MODULE SourceProofs -----------------------------
(***************************************************************************)
(* What the sources say of an agent's state.  The first part is about      *)
(* Monitor: its types, and that what is shown of an agent has a reason in  *)
(* what it did.  The second is about Copilot: whatever part of a log is    *)
(* read makes nothing up, what reaches back to a moment of rest is exact,  *)
(* and which session a process is taken to run.  Every threshold, every    *)
(* size of the tail, and all sessions, requests and calls are meant.       *)
(***************************************************************************)
EXTENDS Monitor, Copilot, Induction, SequenceTheorems, TLAPS

USE MonitorAssumption

\* An edit that waits in beh_map happened after the last poll.
EditInv == \A p \in Procs : events[p] = "edit" => edited <= gap

MonitorInv == TypeOK /\ EditInv

-----------------------------------------------------------------------------
\* Ages stay ages.
LEMMA AgesType ==
  /\ Old \in Nat /\ 0 \in Ages /\ Old \in Ages
  /\ Interval \in Nat /\ Idle \in Nat /\ Interval <= Old
  /\ \A n \in Ages : n \in Nat /\ n <= Old
BY DEF Old, Ages

\* A step of time makes an age older, up to Old.
LEMMA OlderType ==
  ASSUME NEW age \in Ages, NEW by \in {0, 1, Old}
  PROVE  /\ Older(age, by) \in Ages
         /\ Older(age, by) = IF age + by > Old THEN Old ELSE age + by
BY DEF Older, Old, Ages

\* A suspension makes every age old.
LEMMA OlderByOld ==
  ASSUME NEW age \in Ages
  PROVE  Older(age, Old) = Old
<1>1. age \in Nat /\ Old \in Nat
  BY AgesType
<1>2. age + Old > Old \/ age = 0
  BY <1>1
<1>3. QED
  BY <1>1, <1>2 DEF Older

\* Time passes for all alike.
LEMMA OlderOrder ==
  ASSUME NEW a \in Ages, NEW b \in Ages, NEW by \in {1, Old}
  PROVE  /\ a <= b => Older(a, by) <= Older(b, by)
         /\ Older(a, by) <= a + by
         /\ a <= b + Interval => Older(a, by) <= Older(b, by) + Interval
<1>1. by \in Nat /\ a \in Nat /\ b \in Nat /\ a <= Old /\ b <= Old
  BY AgesType
<1>2. /\ Older(a, by) = IF a + by > Old THEN Old ELSE a + by
      /\ Older(b, by) = IF b + by > Old THEN Old ELSE b + by
  BY OlderType
<1>3. QED
  BY <1>1, <1>2, AgesType

\* The state is one of the five.
LEMMA StateType ==
  ASSUME NEW m
  PROVE  /\ State(m) \in States
         /\ State(m) = "waiting" => NeedsInput(m)
         /\ State(m) = "editing" => RecentEdit(m)
BY DEF State, States, Editing

\* That of hermes is the kernel's or one of its database.
LEMMA HermesType ==
  ASSUME TypeOK, NEW m, NEW w \in BOOLEAN, NEW r \in BOOLEAN
  PROVE  \/ HermesState(m, w, r) = State(m)
         \/ HermesState(m, w, r) = "idle"
         \/ /\ HermesState(m, w, r) \in {"running", "thinking"}
            /\ db.work <= Quiet \/ db.at <= Quiet
<1>1. db.role \in Roles \cup {"none"} /\ db.work \in Nat /\ db.at \in Nat
  BY AgesType DEF TypeOK, Database
<1>2. CASE w /\ db.work <= Quiet
  BY <1>2 DEF HermesState
<1>3. CASE ~(w /\ db.work <= Quiet) /\ ~r
  BY <1>3 DEF HermesState
<1>4. CASE ~(w /\ db.work <= Quiet) /\ r /\ (db.role = "none" \/ db.at > Quiet)
  BY <1>4 DEF HermesState
<1>5. CASE ~(w /\ db.work <= Quiet) /\ r /\ db.role # "none" /\ db.at <= Quiet
  <2>1. db.role \in Roles /\ ~(db.at > Quiet)
    BY <1>1, <1>5
  <2>2. HermesState(m, w, r) = CASE db.role = "toAnswer" -> "thinking"
                                 [] db.role = "calls"    -> "running"
                                 [] db.role = "stop"     -> "idle"
    BY <1>5, <2>1 DEF HermesState
  <2>3. QED
    BY <1>5, <2>1, <2>2 DEF Roles
<1>6. QED
  BY <1>1, <1>2, <1>3, <1>4, <1>5

\* A source's answer, or none.
LEMMA SourcedType ==
  ASSUME TypeOK, NEW m, NEW state \in Sourced(m)
  PROVE  /\ state \in States
         /\ state = "waiting" => NeedsInput(m)
         /\ state = "editing" => RecentEdit(m)
         /\ tool = "hermes" /\ state \in {"thinking", "running"} =>
              db.work <= Quiet \/ db.at <= Quiet \/ state = State(m)
<1>1. CASE tool # "hermes"
  BY <1>1, StateType DEF Sourced
<1>2. CASE tool = "hermes"
  <2>1. PICK w \in BOOLEAN, r \in BOOLEAN : state = HermesState(m, w, r)
    BY <1>2 DEF Sourced
  <2>2. QED
    BY <2>1, HermesType, StateType DEF States
<1>3. QED
  BY <1>1, <1>2

-----------------------------------------------------------------------------
\* What consuming an event does to a monitor whose edits are late by no more
\* than the interval.
GoodMonitor(m) ==
  /\ m \in AgentMonitor
  /\ m.lastEv <= m.connTs /\ m.lastEv <= m.editTs
  /\ edited <= m.editTs + Interval

\* A monitor that has consumed an event.
LEMMA ConsumeType ==
  ASSUME NEW m, GoodMonitor(m), NEW event \in Events \cup {NoEvent},
         edited \in Ages, event = "edit" => edited <= Interval
  PROVE  GoodMonitor(ConsumeEvent(m, event))
<1>1. CASE event = NoEvent
  BY <1>1 DEF ConsumeEvent
<1>2. CASE event # NoEvent
  <2> DEFINE n == ConsumeEvent(m, event)
  <2>1. /\ n \in AgentMonitor /\ n.lastEv = 0
        /\ n.editTs = IF event = "edit" THEN 0 ELSE m.editTs
    BY <1>2, AgesType DEF ConsumeEvent, GoodMonitor, AgentMonitor
  <2>2. n.connTs \in Nat /\ n.editTs \in Nat /\ edited \in Nat
    BY <2>1, AgesType DEF AgentMonitor
  <2>3. n.lastEv <= n.connTs /\ n.lastEv <= n.editTs
    BY <2>1, <2>2
  <2>4. edited <= n.editTs + Interval
    BY <2>1, <2>2, AgesType DEF GoodMonitor
  <2>5. QED
    BY <2>1, <2>3, <2>4 DEF GoodMonitor
<1>3. QED
  BY <1>1, <1>2

\* Time ages everything of a monitor alike.
LEMMA PassType ==
  ASSUME TypeOK, NEW time \in {1, Old}, Pass(time)
  PROVE  /\ own' \in Ages /\ db' \in Database
         /\ monitor' \in AgentMonitor
         /\ monitor'.lastEv <= monitor'.connTs /\ monitor'.lastEv <= monitor'.editTs
         /\ monitor'.editTs = Older(monitor.editTs, time)
<1>1. monitor \in AgentMonitor /\ own \in Ages /\ db \in Database
  BY DEF TypeOK
<1>2. own' \in Ages
  BY <1>1, OlderType DEF Pass
<1>3. db' \in Database
  BY <1>1, OlderType DEF Pass, Database
<1>4. /\ monitor' \in AgentMonitor
      /\ monitor'.lastEv = Older(monitor.lastEv, time)
      /\ monitor'.connTs = Older(monitor.connTs, time)
      /\ monitor'.editTs = Older(monitor.editTs, time)
  BY <1>1, OlderType DEF Pass, AgentMonitor
<1>5. /\ monitor.lastEv \in Ages /\ monitor.connTs \in Ages /\ monitor.editTs \in Ages
      /\ monitor.lastEv <= monitor.connTs /\ monitor.lastEv <= monitor.editTs
  BY <1>1 DEF AgentMonitor, TypeOK
<1>6. monitor'.lastEv <= monitor'.connTs
  BY <1>4, <1>5, OlderOrder
<1>7. monitor'.lastEv <= monitor'.editTs
  BY <1>4, <1>5, OlderOrder
<1>8. QED
  BY <1>2, <1>3, <1>4, <1>6, <1>7

\* A record of one field changed is one of its type.
LEMMA DeriveType ==
  ASSUME TypeOK, Derive
  PROVE  /\ monitor' = [monitor EXCEPT !.lastOut = LastOut]
         /\ LastOut \in Ages /\ monitor' \in AgentMonitor
         /\ monitor'.editTs = monitor.editTs /\ monitor'.lastEv = monitor.lastEv
         /\ monitor'.connTs = monitor.connTs /\ monitor'.lastOut = LastOut
         /\ \E state \in Sourced(monitor') :
              shown' = [state |-> state, stuck |-> IsStuck(monitor', state)]
<1>1. LastOut \in Ages
  <2>1. own \in Ages /\ monitor.lastOut \in Ages /\ skew \in {0, 1, Old}
    BY DEF TypeOK, AgentMonitor
  <2>2. QED
    BY <2>1, OlderType DEF LastOut
<1>2. monitor' = [monitor EXCEPT !.lastOut = LastOut]
  BY DEF Derive
<1>3. \E state \in Sourced([monitor EXCEPT !.lastOut = LastOut]) :
        shown' = [state |-> state, stuck |-> IsStuck([monitor EXCEPT !.lastOut = LastOut], state)]
  BY DEF Derive
<1>4. QED
  BY <1>1, <1>2, <1>3 DEF TypeOK, AgentMonitor

-----------------------------------------------------------------------------
\* A new monitor.
LEMMA InitInv == Init => MonitorInv
<1> SUFFICES ASSUME Init PROVE MonitorInv
  OBVIOUS
<1>1. monitor \in AgentMonitor /\ db \in Database
  BY AgesType DEF Init, AgentMonitor, Database, Roles
<1>2. monitor.lastEv <= monitor.connTs /\ monitor.lastEv <= monitor.editTs
      /\ edited <= monitor.editTs + Interval
  BY AgesType DEF Init
<1>3. /\ events \in [Procs -> Events \cup {NoEvent}] /\ shown \in [state : States, stuck : BOOLEAN]
      /\ \A p \in Procs : events[p] # "edit"
  BY DEF Init, Events, NoEvent, States
<1>4. /\ own \in Ages /\ edited \in Ages /\ skew \in {0, Old}
      /\ gap \in 0..Interval
  BY AgesType DEF Init
<1>5. acts \in 0..MaxActs
  BY DEF Init
<1>6. {full, marked, known} \subseteq BOOLEAN
  BY DEF Init
<1>7. proc \in [blocked : BOOLEAN, child : BOOLEAN, llm : BOOLEAN]
  BY DEF Init
<1>8. TypeOK
  BY <1>1, <1>2, <1>3, <1>4, <1>5, <1>6, <1>7 DEF Init, TypeOK
<1>9. QED
  BY <1>3, <1>8 DEF MonitorInv, EditInv

\* Every step keeps the types, and that a waiting edit is recent.
LEMMA StepInv ==
  ASSUME MonitorInv, [Next]_vars
  PROVE  MonitorInv'
<1> USE AgesType DEF MonitorInv, vars, agent
<1>1. ASSUME NEW p \in Procs, NEW event \in Events, Emit(p, event)
      PROVE  MonitorInv'
  <2>1. own' \in Ages /\ marked' \in BOOLEAN
    BY <1>1 DEF Emit, MarkActive, TypeOK
  <2>2. acts' \in 0..MaxActs
    BY <1>1 DEF Emit, Act, TypeOK
  <2>3. events' = [events EXCEPT ![p] = event] /\ events' \in [Procs -> Events \cup {NoEvent}]
    BY <1>1 DEF Emit, TypeOK
  <2>4. edited' \in Ages /\ edited \in Ages /\ (edited' = edited \/ (edited' = 0 /\ event = "edit"))
    BY <1>1 DEF Emit, TypeOK
  <2>5. monitor' = monitor /\ edited' <= monitor'.editTs + Interval
    <3>1. monitor' = monitor
      BY <1>1 DEF Emit
    <3>2. monitor.editTs \in Nat /\ edited <= monitor.editTs + Interval
      BY DEF TypeOK, AgentMonitor
    <3>3. QED
      BY <2>4, <3>1, <3>2
  <2>6. TypeOK'
    BY <1>1, <2>1, <2>2, <2>3, <2>4, <2>5 DEF Emit, Act, TypeOK
  <2>7. gap' = gap /\ gap \in Nat /\ (event = "edit" => edited' = 0)
    BY <1>1 DEF Emit, TypeOK
  <2>8. EditInv'
    BY <2>3, <2>4, <2>7 DEF TypeOK, EditInv
  <2>9. QED
    BY <2>6, <2>8
<1>2. CASE WriteCall
  BY <1>2 DEF WriteCall, Act, MarkActive, TypeOK, EditInv
<1>3. ASSUME NEW part \in DOMAIN proc, Turn(part)
      PROVE  MonitorInv'
  <2>1. proc' \in [blocked : BOOLEAN, child : BOOLEAN, llm : BOOLEAN]
    BY <1>3 DEF Turn, TypeOK
  <2>2. QED
    BY <1>3, <2>1 DEF Turn, Act, TypeOK, EditInv
<1>4. ASSUME NEW update \in Roles \cup {"work", "done"}, Note(update)
      PROVE  MonitorInv'
  <2>1. db' \in Database
    <3>1. CASE update \in Roles
      BY <1>4, <3>1 DEF Note, TypeOK, Database, Roles
    <3>2. CASE update = "work"
      BY <1>4, <3>2 DEF Note, TypeOK, Database, Roles
    <3>3. CASE update = "done"
      BY <1>4, <3>3 DEF Note, TypeOK, Database, Roles
    <3>4. QED
      BY <3>1, <3>2, <3>3
  <2>2. QED
    BY <1>4, <2>1 DEF Note, Act, TypeOK, EditInv
<1>5. CASE Tick
  <2>1. /\ own' \in Ages /\ db' \in Database /\ monitor' \in AgentMonitor
        /\ monitor'.lastEv <= monitor'.connTs /\ monitor'.lastEv <= monitor'.editTs
        /\ monitor'.editTs = Older(monitor.editTs, 1)
    BY <1>5, PassType DEF Tick
  <2>2. /\ gap' = gap + 1 /\ gap' \in 0..Interval
        /\ edited' = Older(edited, 1) /\ edited' \in Ages
    BY <1>5, OlderType DEF Tick, TypeOK
  <2>3. edited \in Ages /\ monitor.editTs \in Ages /\ edited <= monitor.editTs + Interval
    BY DEF TypeOK, AgentMonitor
  <2>4. edited' <= edited + 1 /\ edited' <= monitor'.editTs + Interval
    BY <2>1, <2>2, <2>3, OlderOrder
  <2>5. TypeOK'
    BY <1>5, <2>1, <2>2, <2>4 DEF Tick, TypeOK
  <2>6. edited \in Nat /\ edited' \in Nat /\ gap \in Nat /\ events' = events
    <3>1. gap \in Nat
      BY DEF TypeOK
    <3>2. events' = events
      BY <1>5 DEF Tick
    <3>3. QED
      BY <2>2, <2>3, <3>1, <3>2
  <2>7. EditInv'
    BY <2>2, <2>4, <2>6 DEF EditInv
  <2>8. QED
    BY <2>5, <2>7
<1>6. CASE Suspend
  <2>1. /\ own' \in Ages /\ db' \in Database /\ monitor' \in AgentMonitor
        /\ monitor'.lastEv <= monitor'.connTs /\ monitor'.lastEv <= monitor'.editTs
        /\ monitor'.editTs = Older(monitor.editTs, Old)
    BY <1>6, PassType DEF Suspend
  <2>2. edited' = edited /\ edited \in Ages
    BY <1>6 DEF Suspend, TypeOK
  <2>3. Older(monitor.editTs, Old) = Old
    <3>1. monitor.editTs \in Ages
      BY DEF TypeOK, AgentMonitor
    <3>2. QED
      BY <3>1, OlderByOld
  <2>4. edited' <= monitor'.editTs + Interval
    BY <2>1, <2>2, <2>3
  <2>5. QED
    BY <1>6, <2>1, <2>2, <2>4 DEF Suspend, TypeOK, EditInv
<1>7. CASE Poll
  <2>1. \A p \in Procs : /\ events[p] \in Events \cup {NoEvent}
                         /\ events[p] = "edit" => edited <= Interval
    BY DEF TypeOK, EditInv
  <2>2. GoodMonitor(monitor) /\ edited \in Ages
    BY DEF TypeOK, GoodMonitor
  <2>3. GoodMonitor(monitor')
    <3>1. CASE ~known
      BY <1>7, <2>2, <3>1 DEF Poll
    <3>2. CASE known
      <4>1. PICK first \in Procs :
                   monitor' = ConsumeEvent(ConsumeEvent(monitor, events[first]),
                                           events[CHOOSE p \in Procs : p # first])
        BY <1>7, <3>2 DEF Poll
      <4>2. (CHOOSE p \in Procs : p # first) \in Procs
        BY DEF Procs
      <4>3. GoodMonitor(ConsumeEvent(monitor, events[first]))
        BY <2>1, <2>2, ConsumeType
      <4>4. QED
        BY <2>1, <2>2, <4>1, <4>2, <4>3, ConsumeType
    <3>3. QED
      BY <3>1, <3>2 DEF TypeOK
  <2>4. /\ monitor' \in AgentMonitor
        /\ monitor'.lastEv <= monitor'.connTs /\ monitor'.lastEv <= monitor'.editTs
        /\ edited' = edited /\ edited' <= monitor'.editTs + Interval
    BY <1>7, <2>3 DEF Poll, GoodMonitor
  <2>5. TypeOK'
    BY <1>7, <2>4 DEF Poll, TypeOK
  <2>6. EditInv'
    BY <1>7 DEF Poll, EditInv, NoEvent
  <2>7. QED
    BY <2>5, <2>6
<1>8. CASE Derive
  <2>1. PICK state \in Sourced(monitor') :
               shown' = [state |-> state, stuck |-> IsStuck(monitor', state)]
    BY <1>8, DeriveType
  <2>2. state \in States /\ IsStuck(monitor', state) \in BOOLEAN
    BY <2>1, SourcedType DEF IsStuck
  <2>3. shown' \in [state : States, stuck : BOOLEAN]
    BY <2>1, <2>2
  <2>4. /\ monitor' \in AgentMonitor
        /\ monitor'.lastEv <= monitor'.connTs /\ monitor'.lastEv <= monitor'.editTs
        /\ edited' = edited /\ edited' <= monitor'.editTs + Interval
    BY <1>8, DeriveType DEF Derive, TypeOK
  <2>5. TypeOK'
    BY <1>8, <2>3, <2>4 DEF Derive, TypeOK
  <2>6. EditInv'
    BY <1>8 DEF Derive, EditInv
  <2>7. QED
    BY <2>5, <2>6
<1>9. CASE UNCHANGED vars
  BY <1>9 DEF TypeOK, EditInv
<1>10. QED
  BY <1>1, <1>2, <1>3, <1>4, <1>5, <1>6, <1>7, <1>8, <1>9 DEF Next

\* Every reachable state has its types, and an edit is known with a delay of
\* one interval at most.
THEOREM MonitorTypes == Spec => []TypeOK
<1>1. MonitorInv /\ [Next]_vars => MonitorInv'
  BY StepInv
<1>2. MonitorInv => TypeOK
  BY DEF MonitorInv
<1>3. QED
  BY <1>1, <1>2, InitInv, PTL DEF Spec

-----------------------------------------------------------------------------
\* The reasons of what a visit shows.
Reasons ==
  Derived =>
    /\ shown'.stuck /\ marked /\ skew = 0 => own > Stuck
    /\ shown'.state = "waiting" => proc.blocked /\ (marked /\ skew = 0 => own > Wait)
    /\ shown'.state = "editing" => edited < Idle + Interval
    /\ tool = "hermes" /\ shown'.state \in {"thinking", "running"} =>
         db.work <= Quiet \/ db.at <= Quiet \/ shown'.state = State(monitor')

\* A visit shows nothing without a reason.
LEMMA DeriveReasons ==
  ASSUME TypeOK, Derive
  PROVE  Reasons
<1>1. /\ LastOut \in Ages /\ monitor'.lastOut = LastOut /\ monitor'.editTs = monitor.editTs
      /\ monitor' \in AgentMonitor
  BY DeriveType
<1>2. marked /\ skew = 0 => monitor'.lastOut = own
  <2>1. own \in Ages
    BY DEF TypeOK
  <2>2. QED
    BY <1>1, <2>1, OlderType, AgesType DEF LastOut
<1>3. PICK state \in Sourced(monitor') :
             shown' = [state |-> state, stuck |-> IsStuck(monitor', state)]
  BY DeriveType
<1>4. shown'.state = state /\ shown'.stuck = IsStuck(monitor', state)
  BY <1>3
<1>5. /\ state = "waiting" => NeedsInput(monitor')
      /\ state = "editing" => RecentEdit(monitor')
      /\ tool = "hermes" /\ state \in {"thinking", "running"} =>
           db.work <= Quiet \/ db.at <= Quiet \/ state = State(monitor')
  BY <1>3, SourcedType
<1>6. IsStuck(monitor', state) => monitor'.lastOut > Stuck
  BY DEF IsStuck
<1>7. NeedsInput(monitor') => proc.blocked /\ monitor'.lastOut > Wait
  BY DEF NeedsInput
<1>8. RecentEdit(monitor') => edited < Idle + Interval
  <2>1. edited <= monitor.editTs + Interval /\ edited \in Nat /\ monitor.editTs \in Nat
    BY AgesType DEF TypeOK, AgentMonitor
  <2>2. RecentEdit(monitor') => monitor.editTs < Idle
    BY <1>1 DEF RecentEdit
  <2>3. QED
    BY <2>1, <2>2, AgesType
<1>9. QED
  BY <1>2, <1>4, <1>5, <1>6, <1>7, <1>8 DEF Reasons

\* What is shown of an agent has a reason in what it did.
THEOREM HasReason == Spec => ShownHasReason
<1>1. MonitorInv /\ [Next]_vars => MonitorInv'
  BY StepInv
<1>2. MonitorInv /\ [Next]_vars => [Reasons]_vars
  <2> SUFFICES ASSUME MonitorInv, Next, Derived
               PROVE  Reasons
    BY DEF Reasons
  <2>1. Derive
    BY DEF Derived, Next, Emit, Act, WriteCall, Turn, Note, Tick, Suspend, Poll
  <2>2. QED
    BY <2>1, DeriveReasons DEF MonitorInv
<1>3. QED
  BY <1>1, <1>2, InitInv, PTL DEF Spec, ShownHasReason, Reasons
-----------------------------------------------------------------------------
(***************************************************************************)
(* Copilot: the loop over the events.                                      *)
(***************************************************************************)
USE CopilotAssumption

\* What the loop accumulates.
Found == [waits : SUBSET Keys, tools : Seq(OpenCall), turn : BOOLEAN, final : BOOLEAN]

\* One call less.
LEMMA WithoutIs ==
  ASSUME NEW calls \in Seq(OpenCall), NEW c
  PROVE  /\ Without(calls, c) \in Seq(OpenCall)
         /\ Ids(Without(calls, c)) = Ids(calls) \ {c}
<1> DEFINE R == {calls[n] : n \in 1..Len(calls)} \cap {k \in OpenCall : k.id # c}
<1>1. DOMAIN calls = 1..Len(calls) /\ \A n \in 1..Len(calls) : calls[n] \in OpenCall
  OBVIOUS
<1>2. \A k \in R : k \in OpenCall /\ k.id \in Ids(calls) \ {c}
  BY DEF Ids
<1>3. /\ Without(calls, c) \in Seq(R)
      /\ \A n \in 1..Len(calls) : calls[n].id # c =>
           \E i \in 1..Len(Without(calls, c)) : Without(calls, c)[i] = calls[n]
  <2> DEFINE W == {k \in OpenCall : k.id # c}
  <2>1. /\ Among(calls, W) \in Seq({calls[n] : n \in 1..Len(calls)} \cap W)
        /\ \A n \in 1..Len(calls) : calls[n] \in W =>
             \E i \in 1..Len(Among(calls, W)) : Among(calls, W)[i] = calls[n]
    <3> HIDE DEF W
    <3> QED
      BY AmongIs
  <2>2. Without(calls, c) = Among(calls, W)
    BY DEF Without
  <2>3. \A n \in 1..Len(calls) : calls[n].id # c => calls[n] \in W
    BY <1>1
  <2> HIDE DEF W
  <2>4. R = {calls[n] : n \in 1..Len(calls)} \cap W
    BY DEF W
  <2>5. QED
    BY <2>1, <2>2, <2>3, <2>4
<1> HIDE DEF R
<1>4. DOMAIN Without(calls, c) = 1..Len(Without(calls, c))
      /\ \A n \in DOMAIN Without(calls, c) : Without(calls, c)[n] \in R
  BY <1>3
<1>5. Without(calls, c) \in Seq(OpenCall)
  BY <1>2, <1>3
<1>6. Ids(Without(calls, c)) \subseteq Ids(calls) \ {c}
  BY <1>2, <1>4 DEF Ids
<1>7. Ids(calls) \ {c} \subseteq Ids(Without(calls, c))
  BY <1>1, <1>3, <1>4 DEF Ids
<1>8. QED
  BY <1>5, <1>6, <1>7

\* The loop begins with nothing.
LEMMA NothingFound == Nothing \in Found
BY DEF Nothing, Found

\* Every event leaves something that the loop may have found.
LEMMA ParsedIs ==
  ASSUME NEW a \in Found, NEW e \in Event
  PROVE  ParseEvent(a, e) \in Found
<1>1. CASE e.type \in {"call", "ask_user"}
  <2>1. e \in OpenCall
    BY <1>1 DEF Event, OpenCall
  <2>2. Append(a.tools, e) \in Seq(OpenCall)
    BY <2>1 DEF Found
  <2>3. QED
    BY <1>1, <2>2 DEF Found, ParseEvent
<1>2. CASE e.type = "complete"
  <2>1. a.tools \in Seq(OpenCall)
    BY DEF Found
  <2>2. Without(a.tools, e.id) \in Seq(OpenCall)
    BY <2>1, WithoutIs
  <2>3. QED
    BY <1>2, <2>2 DEF Found, ParseEvent
<1>3. CASE e.type \in {"requested", "completed"}
  <2>1. e.id \in Keys
    BY <1>3 DEF Event
  <2>2. QED
    BY <1>3, <2>1 DEF Found, ParseEvent
<1>4. CASE e.type \in {"start", "turn_start", "turn_end", "final_answer", "shutdown"}
  BY <1>4 DEF Found, ParseEvent, TurnStarted, TurnEnded
<1>5. QED
  BY <1>1, <1>2, <1>3, <1>4 DEF Event

\* What has been found after n events of a log.
Reading(A, l, j) ==
  /\ A \in [0..Len(l) -> Found]
  /\ \A n \in 0..Len(l) : A[n] = IF n <= j THEN Nothing ELSE ParseEvent(A[n - 1], l[n])
  /\ Read(l, j) = A[Len(l)]

\* The recursion of the loop is well defined.
LEMMA ReadIs ==
  ASSUME NEW l \in Seq(Event), NEW j \in 0..Len(l)
  PROVE  \E A : Reading(A, l, j)
<1> DEFINE N == Len(l)
           more(a, n) == IF n <= j THEN Nothing ELSE ParseEvent(a, l[n])
           step == [n \in Nat |-> [a \in Found |-> IF n \in 1..N THEN more(a, n) ELSE a]]
           Rec(f) == [n \in 0..N |-> IF n <= j THEN Nothing ELSE ParseEvent(f[n - 1], l[n])]
<1>1. N \in Nat /\ j \in Nat /\ \A n \in 1..N : l[n] \in Event
  OBVIOUS
<1>2. Nothing \in Found
  BY DEF Nothing, Found
<1>3. \A n \in 1..N, a \in Found : more(a, n) \in Found
  BY <1>1, <1>2, ParsedIs
<1>4. step \in [Nat -> [Found -> Found]]
  <2> HIDE DEF more
  <2> QED
    BY <1>3
<1>5. PICK f : Iterated(Found, Nothing, step, f)
  <2> HIDE DEF step
  <2> QED
    BY <1>2, <1>4, Iteration
<1>6. f \in [Nat -> Found] /\ f[0] = Nothing /\ \A n \in Nat : n # 0 => f[n] = step[n][f[n - 1]]
  BY <1>5 DEF Iterated
<1> DEFINE g == [n \in 0..N |-> f[n]]
<1>7. g = Rec(g)
  <2>1. ASSUME NEW n \in 0..N
        PROVE  f[n] = IF n <= j THEN Nothing ELSE ParseEvent(g[n - 1], l[n])
    <3>1. CASE n = 0
      BY <1>1, <1>6, <3>1
    <3>2. CASE n # 0
      <4>1. n \in 1..N /\ n \in Nat /\ n - 1 \in Nat /\ n - 1 \in 0..N
        BY <1>1, <3>2
      <4>2. f[n - 1] \in Found /\ g[n - 1] = f[n - 1] /\ f[n] = step[n][f[n - 1]]
        BY <1>6, <3>2, <4>1
      <4>3. step[n][f[n - 1]] = more(f[n - 1], n)
        <5> HIDE DEF more
        <5> QED
          BY <4>1, <4>2
      <4>4. QED
        BY <4>2, <4>3
    <3>3. QED
      BY <3>1, <3>2
  <2>2. QED
    BY <2>1
<1> DEFINE A == CHOOSE h : h = Rec(h)
<1>8. A = Rec(A)
  <2> HIDE DEF g, Rec
  <2> QED
    BY <1>7
<1>9. Read(l, j) = A[N]
  BY DEF Read
<1> HIDE DEF A
<1>10. \A n \in 0..N : A[n] = IF n <= j THEN Nothing ELSE ParseEvent(A[n - 1], l[n])
  BY <1>1, <1>8
<1>11. DOMAIN A = 0..N /\ A = [n \in 0..N |-> A[n]]
  BY <1>8
<1> DEFINE S == {n \in 0..N : A[n] \in Found}
<1>12. 0 \in S
  BY <1>1, <1>2, <1>10
<1>13. ASSUME NEW n \in 0..N, n \in S, n < N
       PROVE  n + 1 \in S
  <2>1. n + 1 \in 1..N /\ n + 1 \in 0..N /\ (n + 1) - 1 = n /\ A[n] \in Found
    BY <1>1, <1>13
  <2>2. A[n + 1] = more(A[n], n + 1)
    BY <1>10, <2>1
  <2>3. QED
    BY <1>3, <2>1, <2>2
<1>14. 0..N \subseteq S
  <2> HIDE DEF S, N
  <2> QED
    BY <1>1, <1>12, <1>13, Upto
<1>15. A \in [0..N -> Found]
  BY <1>11, <1>14
<1>16. QED
  BY <1>9, <1>10, <1>15 DEF Reading

\* One more event is read last.
LEMMA ReadNext ==
  ASSUME NEW l \in Seq(Event), NEW e \in Event, NEW j \in 0..Len(l)
  PROVE  /\ Read(l, j) \in Found
         /\ Read(Append(l, e), j) = ParseEvent(Read(l, j), e)
<1> DEFINE L == Append(l, e)
<1>1. L \in Seq(Event) /\ Len(L) = Len(l) + 1 /\ Len(l) \in Nat /\ L[Len(l) + 1] = e
      /\ \A n \in 1..Len(l) : L[n] = l[n]
  OBVIOUS
<1> HIDE DEF L
<1>2. PICK A : Reading(A, l, j)
  BY ReadIs
<1>3. PICK B : Reading(B, L, j)
  <2>1. j \in 0..Len(L)
    BY <1>1
  <2>2. QED
    BY <1>1, <2>1, ReadIs
<1>4. /\ \A n \in 0..Len(l) : A[n] = IF n <= j THEN Nothing ELSE ParseEvent(A[n - 1], l[n])
      /\ Read(l, j) = A[Len(l)] /\ A[Len(l)] \in Found
  BY <1>1, <1>2 DEF Reading
<1>5. /\ \A n \in 0..Len(l) + 1 : B[n] = IF n <= j THEN Nothing ELSE ParseEvent(B[n - 1], L[n])
      /\ Read(L, j) = B[Len(l) + 1]
  BY <1>1, <1>3 DEF Reading
<1> DEFINE S == {n \in 0..Len(l) : A[n] = B[n]}
<1>6. 0 \in S
  BY <1>1, <1>4, <1>5
<1>7. ASSUME NEW n \in 0..Len(l), n \in S, n < Len(l)
      PROVE  n + 1 \in S
  <2>1. n + 1 \in 1..Len(l) /\ n + 1 \in 0..Len(l) /\ n + 1 \in 0..Len(l) + 1 /\ (n + 1) - 1 = n
        /\ A[n] = B[n] /\ L[n + 1] = l[n + 1]
    <3>1. n \in Nat /\ Len(l) \in Nat /\ n < Len(l) /\ A[n] = B[n]
      BY <1>1, <1>7
    <3>2. n + 1 \in 1..Len(l)
      BY <3>1
    <3>3. L[n + 1] = l[n + 1]
      BY <1>1, <3>2
    <3>4. QED
      BY <3>1, <3>2, <3>3
  <2>2. A[n + 1] = IF n + 1 <= j THEN Nothing ELSE ParseEvent(A[n], l[n + 1])
    BY <1>4, <2>1
  <2>3. B[n + 1] = IF n + 1 <= j THEN Nothing ELSE ParseEvent(B[n], L[n + 1])
    BY <1>5, <2>1
  <2>4. QED
    BY <2>1, <2>2, <2>3
<1>8. 0..Len(l) \subseteq S
  <2> HIDE DEF S
  <2> QED
    BY <1>1, <1>6, <1>7, Upto
<1>9. A[Len(l)] = B[Len(l)]
  BY <1>1, <1>8
<1>10. B[Len(l) + 1] = ParseEvent(B[Len(l)], e)
  BY <1>1, <1>5
<1>11. QED
  BY <1>4, <1>5, <1>9, <1>10 DEF L

\* What a reading makes of a log.
LEMMA ReadFound ==
  ASSUME NEW l \in Seq(Event), NEW j \in 0..Len(l)
  PROVE  Read(l, j) \in Found
<1>1. PICK A : Reading(A, l, j)
  BY ReadIs
<1>2. Len(l) \in Nat /\ Len(l) \in 0..Len(l)
  OBVIOUS
<1>3. QED
  BY <1>1, <1>2 DEF Reading

\* Where nothing is read, nothing is found.
LEMMA ReadNothing ==
  ASSUME NEW l \in Seq(Event)
  PROVE  Read(l, Len(l)) = Nothing
<1>1. Len(l) \in Nat /\ Len(l) \in 0..Len(l)
  OBVIOUS
<1>2. PICK A : Reading(A, l, Len(l))
  BY <1>1, ReadIs
<1>3. QED
  BY <1>1, <1>2 DEF Reading
-----------------------------------------------------------------------------
(***************************************************************************)
(* Copilot: the inductive invariant.                                       *)
(***************************************************************************)

\* The types, without the state that is shown.
Typed ==
  /\ log \in [Sessions -> Seq(Event)]
  /\ newer \in [Sessions -> SUBSET Files] /\ alive \subseteq Files
  /\ turn \subseteq alive /\ final \subseteq turn
  /\ asking \in [Sessions -> SUBSET Keys] /\ calling \in [Sessions -> Seq(OpenCall)]
  /\ left \in [Sessions -> SUBSET (Keys \cup Calls \cup {"turn"})]
  /\ quiet \in [Sessions -> Nat] /\ \A s \in Sessions : quiet[s] <= Len(log[s])
  /\ killed \in [Sessions -> SUBSET Sessions]

\* Nothing is found that is not so, or was left by a process that ended.
Fits(a, s, ask, call, lft, doing) ==
  /\ a.waits \subseteq ask[s] \cup lft[s]
  /\ Ids(a.tools) \subseteq Ids(call[s]) \cup lft[s]
  /\ a.turn \/ a.final => s \in doing \/ "turn" \in lft[s]

\* Everything is found, but for the order of calls beside those left.
Whole(a, s, ask, call, lft, doing) ==
  /\ ask[s] \subseteq a.waits
  /\ lft[s] \cap Calls = {} => a.tools = call[s]
  /\ s \in doing => a.turn

\* Wherever the reading of a log begins, it finds nothing else, and all if it
\* begins before a moment of rest.
ReadInv ==
  \A s \in Sessions :
    /\ \A j \in 0..Len(log[s]) : Fits(Read(log[s], j), s, asking, calling, left, turn)
    /\ \A j \in 0..quiet[s] : Whole(Read(log[s], j), s, asking, calling, left, turn)
    /\ s \notin alive => asking[s] = {} /\ calling[s] = <<>>

\* The sessions that have a file are in a linear order.
OrderInv ==
  \A x \in Sessions, y \in Sessions :
    /\ x \notin newer[x]
    /\ y \in newer[x] => newer[y] \subseteq newer[x]
    /\ x \in Files /\ y \in Files /\ x # y => y \in newer[x] \/ x \in newer[y]

\* A newer session that is neither alive nor shut down was killed, and the
\* older one has not been written since.
KilledInv ==
  /\ \A s \in alive : ~lastEventIsShutdown(s)
  /\ \A s \in Files : \A x \in newer[s] :
       x \in alive \/ lastEventIsShutdown(x) \/ x \in killed[s]

CopilotInv == Typed /\ ReadInv /\ OrderInv /\ KilledInv

\* Nothing found fits everything.
LEMMA NothingFits ==
  ASSUME NEW s, NEW ask, NEW call, NEW lft, NEW doing
  PROVE  Fits(Nothing, s, ask, call, lft, doing)
BY DEF Fits, Nothing, Ids

\* The calls that are found are calls.
LEMMA ToolsAreCalls ==
  ASSUME NEW a \in Found
  PROVE  Ids(a.tools) \subseteq Calls
<1>1. a.tools \in Seq(OpenCall)
  BY DEF Found
<1>2. \A n \in DOMAIN a.tools : a.tools[n] \in OpenCall
  BY <1>1
<1>3. QED
  BY <1>2 DEF OpenCall, Ids

\* At rest, what fits is whole.
LEMMA RestIsWhole ==
  ASSUME NEW s, NEW ask, NEW call, NEW lft, NEW doing, NEW a \in Found,
         Fits(a, s, ask, call, lft, doing),
         ask[s] = {}, call[s] = <<>>, s \notin doing
  PROVE  Whole(a, s, ask, call, lft, doing)
<1>1. CASE lft[s] \cap Calls = {}
  <2>1. Ids(a.tools) \subseteq Calls
    BY ToolsAreCalls
  <2>2. Ids(call[s]) = {}
    BY DEF Ids
  <2>3. Ids(a.tools) = {}
    BY <1>1, <2>1, <2>2 DEF Fits
  <2>4. a.tools \in Seq(OpenCall)
    BY DEF Found
  <2>5. a.tools = <<>>
    <3>1. \A n \in 1..Len(a.tools) : n \in DOMAIN a.tools
      BY <2>4
    <3>2. \A n \in DOMAIN a.tools : FALSE
      <4>1. \A n \in DOMAIN a.tools : a.tools[n].id \in Ids(a.tools)
        BY Zenon DEF Ids
      <4>2. QED
        BY <2>3, <4>1
    <3>3. QED
      BY <2>4, <3>1, <3>2
  <2>6. QED
    BY <2>5 DEF Whole
<1>2. QED
  BY <1>1 DEF Whole

\* The event keeps what the readings of its session say.
Kept(s, e) ==
  \A a \in Found :
    Fits(a, s, asking, calling, left, turn) =>
      /\ Fits(ParseEvent(a, e), s, asking', calling', left', turn')
      /\ Whole(a, s, asking, calling, left, turn)
           => Whole(ParseEvent(a, e), s, asking', calling', left', turn')

\* The event is about this session only, which runs unless it shuts down.
Concerns(s, type) ==
  /\ alive' \subseteq Sessions /\ turn' \subseteq alive' /\ final' \subseteq turn'
  /\ asking' \in [Sessions -> SUBSET Keys] /\ calling' \in [Sessions -> Seq(OpenCall)]
  /\ left' \in [Sessions -> SUBSET (Keys \cup Calls \cup {"turn"})]
  /\ \A x \in Sessions \ {s} :
       /\ x \in alive' <=> x \in alive
       /\ x \in turn' <=> x \in turn
       /\ asking'[x] = asking[x] /\ calling'[x] = calling[x] /\ left'[x] = left[x]
  /\ s \in alive' <=> type # "shutdown"
  /\ s \notin alive' => asking'[s] = {} /\ calling'[s] = <<>>

\* What an event does to the files.
LEMMA Wrote ==
  ASSUME CopilotInv, NEW s \in Sessions, NEW type, NEW id,
         [type |-> type, id |-> id] \in Event, Write(s, type, id)
  PROVE  /\ log' \in [Sessions -> Seq(Event)]
         /\ log'[s] = Append(log[s], [type |-> type, id |-> id])
         /\ Len(log'[s]) = Len(log[s]) + 1 /\ log'[s][Len(log'[s])].type = type
         /\ \A x \in Sessions \ {s} : log'[x] = log[x] /\ quiet'[x] = quiet[x]
         /\ Files' = Files \cup {s}
         /\ newer' \in [Sessions -> SUBSET Files']
         /\ quiet' \in [Sessions -> Nat]
         /\ quiet'[s] = quiet[s] \/ (quiet'[s] = Len(log[s]) + 1 /\ Rests(s))
         /\ killed' \in [Sessions -> SUBSET Sessions]
<1> DEFINE e == [type |-> type, id |-> id]
<1>1. /\ log' = [log EXCEPT ![s] = Append(@, e)]
      /\ newer' = [x \in Sessions |-> IF x = s THEN {} ELSE newer[x] \cup {s}]
      /\ killed' = [killed EXCEPT ![s] = {}]
      /\ quiet' = [quiet EXCEPT ![s] = IF Rests(s) THEN Len(log'[s]) ELSE @]
  BY DEF Write
<1>2. log \in [Sessions -> Seq(Event)] /\ quiet \in [Sessions -> Nat]
      /\ killed \in [Sessions -> SUBSET Sessions] /\ newer \in [Sessions -> SUBSET Files]
  BY DEF CopilotInv, Typed
<1>3. log[s] \in Seq(Event) /\ e \in Event
  BY <1>2
<1>4. PICK L : L = Append(log[s], e)
  OBVIOUS
<1>5. L \in Seq(Event) /\ Len(L) = Len(log[s]) + 1 /\ Len(log[s]) \in Nat /\ L[Len(L)] = e /\ L # <<>>
  BY <1>3, <1>4
<1> HIDE DEF e
<1>6. log' \in [Sessions -> Seq(Event)] /\ log'[s] = L /\ \A x \in Sessions \ {s} : log'[x] = log[x]
  BY <1>1, <1>2, <1>4, <1>5
<1>7. Files' = Files \cup {s}
  BY <1>5, <1>6 DEF Files
<1>8. newer' \in [Sessions -> SUBSET Files']
  BY <1>1, <1>2, <1>7
<1>9. /\ quiet' \in [Sessions -> Nat] /\ \A x \in Sessions \ {s} : quiet'[x] = quiet[x]
      /\ quiet'[s] = quiet[s] \/ (quiet'[s] = Len(log[s]) + 1 /\ Rests(s))
  BY <1>1, <1>2, <1>5, <1>6
<1>10. killed' \in [Sessions -> SUBSET Sessions]
  BY <1>1, <1>2
<1>11. QED
  BY <1>4, <1>5, <1>6, <1>7, <1>8, <1>9, <1>10 DEF e

\* The order after an event.
LEMMA OrderKept ==
  ASSUME CopilotInv, NEW s \in Sessions, NEW type, NEW id,
         [type |-> type, id |-> id] \in Event, Write(s, type, id)
  PROVE  OrderInv'
<1>1. Files' = Files \cup {s}
  BY Wrote
<1>2. newer' = [x \in Sessions |-> IF x = s THEN {} ELSE newer[x] \cup {s}]
  BY DEF Write
<1>3. newer \in [Sessions -> SUBSET Files] /\ OrderInv
  BY DEF CopilotInv, Typed
<1> SUFFICES ASSUME NEW x \in Sessions, NEW y \in Sessions
             PROVE  /\ x \notin newer'[x]
                    /\ y \in newer'[x] => newer'[y] \subseteq newer'[x]
                    /\ x \in Files' /\ y \in Files' /\ x # y => y \in newer'[x] \/ x \in newer'[y]
  BY DEF OrderInv
<1>4. /\ x \notin newer[x]
      /\ y \in newer[x] => newer[y] \subseteq newer[x]
      /\ x \in Files /\ y \in Files /\ x # y => y \in newer[x] \/ x \in newer[y]
  BY <1>3 DEF OrderInv
<1>5. newer'[x] = (IF x = s THEN {} ELSE newer[x] \cup {s})
      /\ newer'[y] = (IF y = s THEN {} ELSE newer[y] \cup {s})
  BY <1>2
<1>6. QED
  BY <1>1, <1>4, <1>5

\* What was killed after an event.
LEMMA KilledKept ==
  ASSUME CopilotInv, NEW s \in Sessions, NEW type, NEW id,
         [type |-> type, id |-> id] \in Event, Write(s, type, id), Concerns(s, type)
  PROVE  KilledInv'
<1>1. /\ newer' = [x \in Sessions |-> IF x = s THEN {} ELSE newer[x] \cup {s}]
      /\ killed' = [killed EXCEPT ![s] = {}]
  BY DEF Write
<1>2. /\ Files' = Files \cup {s} /\ log'[s][Len(log'[s])].type = type
      /\ \A x \in Sessions \ {s} : log'[x] = log[x]
  BY Wrote
<1>3. newer \in [Sessions -> SUBSET Files] /\ killed \in [Sessions -> SUBSET Sessions]
      /\ Files \subseteq Sessions /\ alive \subseteq Files /\ OrderInv /\ KilledInv
  BY DEF CopilotInv, Typed, Files
<1>4. alive' \subseteq Sessions /\ (s \in alive' <=> type # "shutdown")
      /\ \A x \in Sessions \ {s} : x \in alive' <=> x \in alive
  BY DEF Concerns
<1>5. lastEventIsShutdown(s)' <=> type = "shutdown"
  BY <1>2 DEF lastEventIsShutdown
<1>6. \A x \in Sessions \ {s} : lastEventIsShutdown(x)' <=> lastEventIsShutdown(x)
  BY <1>2 DEF lastEventIsShutdown
<1>7. \A x \in alive' : ~lastEventIsShutdown(x)'
  BY <1>3, <1>4, <1>5, <1>6 DEF KilledInv
<1>8. ASSUME NEW y \in Files', NEW x \in newer'[y]
      PROVE  x \in alive' \/ lastEventIsShutdown(x)' \/ x \in killed'[y]
  <2>1. y # s /\ y \in Files /\ y \in Sessions /\ x \in newer[y] \cup {s} /\ x \in Sessions
    BY <1>1, <1>2, <1>3, <1>8
  <2>2. CASE x = s
    BY <1>4, <1>5, <2>2
  <2>3. CASE x # s
    <3>1. x \in alive \/ lastEventIsShutdown(x) \/ x \in killed[y]
      BY <1>3, <2>1, <2>3 DEF KilledInv
    <3>2. killed'[y] = killed[y]
      BY <1>1, <1>3, <2>1
    <3>3. QED
      BY <1>4, <1>6, <2>1, <2>3, <3>1, <3>2
  <2>4. QED
    BY <2>2, <2>3
<1>9. QED
  BY <1>7, <1>8 DEF KilledInv

\* What the readings say after an event.
LEMMA ReadKept ==
  ASSUME CopilotInv, NEW s \in Sessions, NEW type, NEW id,
         [type |-> type, id |-> id] \in Event, Write(s, type, id), Concerns(s, type),
         Kept(s, [type |-> type, id |-> id])
  PROVE  ReadInv'
<1> DEFINE e == [type |-> type, id |-> id]
<1>1. /\ log' \in [Sessions -> Seq(Event)]
      /\ log'[s] = Append(log[s], e) /\ Len(log'[s]) = Len(log[s]) + 1
      /\ \A x \in Sessions \ {s} : log'[x] = log[x] /\ quiet'[x] = quiet[x]
      /\ quiet'[s] = quiet[s] \/ (quiet'[s] = Len(log[s]) + 1 /\ Rests(s))
  BY Wrote
<1>2. log[s] \in Seq(Event) /\ Len(log[s]) \in Nat /\ quiet[s] \in Nat /\ quiet[s] <= Len(log[s])
      /\ e \in Event
  BY DEF CopilotInv, Typed
<1>3. Kept(s, e)
  OBVIOUS
<1> HIDE DEF e
<1> DEFINE l  == log[s]
           l2 == log'[s]
<1>4. ASSUME NEW j \in 0..Len(l)
      PROVE  /\ Read(l, j) \in Found /\ Read(l2, j) \in Found
             /\ Read(l2, j) = ParseEvent(Read(l, j), e)
  BY <1>1, <1>2, ReadNext, ParsedIs
<1>5. Read(l2, Len(l) + 1) = Nothing
  <2>1. l2 \in Seq(Event) /\ Len(l2) = Len(l) + 1
    BY <1>1
  <2>2. QED
    BY <2>1, ReadNothing
<1>6. ASSUME NEW j \in 0..Len(l)
      PROVE  Fits(Read(l, j), s, asking, calling, left, turn)
  BY DEF CopilotInv, ReadInv
<1>7. ASSUME NEW j \in 0..quiet[s]
      PROVE  Whole(Read(l, j), s, asking, calling, left, turn)
  BY DEF CopilotInv, ReadInv
<1> HIDE DEF l, l2
<1>8. ASSUME NEW j \in 0..Len(l)
      PROVE  Fits(Read(l2, j), s, asking', calling', left', turn')
  BY <1>3, <1>4, <1>6 DEF Kept
<1>9. ASSUME NEW j \in 0..Len(l) + 1
      PROVE  Fits(Read(l2, j), s, asking', calling', left', turn')
  <2>1. CASE j = Len(l) + 1
    BY <1>5, <2>1, NothingFits
  <2>2. CASE j # Len(l) + 1
    <3>1. j \in 0..Len(l)
      BY <1>2, <2>2 DEF l
    <3>2. QED
      BY <1>8, <3>1
  <2>3. QED
    BY <2>1, <2>2
<1>10. ASSUME NEW j \in 0..quiet'[s]
       PROVE  Whole(Read(l2, j), s, asking', calling', left', turn')
  <2>1. CASE quiet'[s] = quiet[s]
    <3>1. j \in 0..quiet[s] /\ j \in 0..Len(l)
      BY <1>2, <2>1 DEF l
    <3>2. QED
      BY <1>3, <1>4, <1>6, <1>7, <3>1 DEF Kept
  <2>2. CASE quiet'[s] = Len(l) + 1 /\ Rests(s)
    <3>1. j \in 0..Len(l) + 1 /\ asking'[s] = {} /\ calling'[s] = <<>> /\ s \notin turn'
      BY <2>2 DEF Rests
    <3>2. Read(l2, j) \in Found
      <4>1. CASE j \in 0..Len(l)
        BY <1>4, <4>1
      <4>2. CASE j \notin 0..Len(l)
        <5>1. j = Len(l) + 1
          BY <1>2, <3>1, <4>2 DEF l
        <5>2. QED
          BY <1>5, <5>1, NothingFound
      <4>3. QED
        BY <4>1, <4>2
    <3>3. QED
      BY <1>9, <3>1, <3>2, RestIsWhole
  <2>3. QED
    BY <1>1, <2>1, <2>2 DEF l
<1>11. ASSUME NEW x \in Sessions
       PROVE  /\ \A j \in 0..Len(log'[x]) : Fits(Read(log'[x], j), x, asking', calling', left', turn')
              /\ \A j \in 0..quiet'[x] : Whole(Read(log'[x], j), x, asking', calling', left', turn')
              /\ x \notin alive' => asking'[x] = {} /\ calling'[x] = <<>>
  <2>1. CASE x = s
    BY <1>1, <1>9, <1>10, <2>1 DEF Concerns, l, l2
  <2>2. CASE x # s
    <3>1. /\ x \in alive' <=> x \in alive
          /\ x \in turn' <=> x \in turn
          /\ asking'[x] = asking[x] /\ calling'[x] = calling[x] /\ left'[x] = left[x]
      BY <2>2 DEF Concerns
    <3>2. log'[x] = log[x] /\ quiet'[x] = quiet[x]
      BY <1>1, <2>2
    <3>3. \A a : /\ Fits(a, x, asking', calling', left', turn') <=> Fits(a, x, asking, calling, left, turn)
                 /\ Whole(a, x, asking', calling', left', turn') <=> Whole(a, x, asking, calling, left, turn)
      BY <3>1 DEF Fits, Whole
    <3>4. QED
      BY <3>1, <3>2, <3>3 DEF CopilotInv, ReadInv
  <2>3. QED
    BY <2>1, <2>2
<1>12. QED
  BY <1>11 DEF ReadInv

\* An event keeps the invariant.
LEMMA WriteKeeps ==
  ASSUME CopilotInv, NEW s \in Sessions, NEW type, NEW id,
         [type |-> type, id |-> id] \in Event, Write(s, type, id), Concerns(s, type),
         Kept(s, [type |-> type, id |-> id])
  PROVE  CopilotInv'
<1>1. OrderInv' /\ KilledInv' /\ ReadInv'
  BY OrderKept, KilledKept, ReadKept
<1>2. /\ log' \in [Sessions -> Seq(Event)] /\ Files' = Files \cup {s}
      /\ newer' \in [Sessions -> SUBSET Files']
      /\ quiet' \in [Sessions -> Nat]
      /\ \A x \in Sessions \ {s} : log'[x] = log[x] /\ quiet'[x] = quiet[x]
      /\ quiet'[s] = quiet[s] \/ (quiet'[s] = Len(log[s]) + 1 /\ Rests(s))
      /\ Len(log'[s]) = Len(log[s]) + 1
      /\ killed' \in [Sessions -> SUBSET Sessions]
  BY Wrote
<1>3. log \in [Sessions -> Seq(Event)] /\ quiet \in [Sessions -> Nat]
      /\ (\A x \in Sessions : quiet[x] <= Len(log[x])) /\ alive \subseteq Files
  BY DEF CopilotInv, Typed
<1>4. \A x \in Sessions : quiet'[x] <= Len(log'[x])
  <2> SUFFICES ASSUME NEW x \in Sessions
               PROVE  quiet'[x] <= Len(log'[x])
    OBVIOUS
  <2>1. Len(log[x]) \in Nat /\ quiet[x] \in Nat /\ quiet[x] <= Len(log[x])
    BY <1>3
  <2>2. CASE x = s
    <3>1. quiet'[s] = quiet[s] \/ quiet'[s] = Len(log[s]) + 1
      BY <1>2
    <3>2. Len(log'[s]) = Len(log[s]) + 1
      BY <1>2
    <3>3. QED
      BY <2>1, <2>2, <3>1, <3>2
  <2>3. CASE x # s
    <3>1. log'[x] = log[x] /\ quiet'[x] = quiet[x]
      BY <1>2, <2>3
    <3>2. QED
      BY <2>1, <3>1
  <2>4. QED
    BY <2>2, <2>3
<1>5. alive' \subseteq Files'
  BY <1>2, <1>3 DEF Concerns
<1>6. Typed'
  BY <1>2, <1>4, <1>5 DEF Typed, Concerns
<1>7. QED
  BY <1>1, <1>6 DEF CopilotInv

\* A process starts a session, or resumes one with what was left in it.
LEMMA StartKeeps ==
  ASSUME CopilotInv, NEW s \in Sessions, Start(s)
  PROVE  CopilotInv'
<1> DEFINE e == [type |-> "start", id |-> None]
<1>1. e \in Event /\ Write(s, "start", None)
  BY DEF Start, Event
<1>2. /\ alive \subseteq Sessions /\ turn \subseteq alive /\ final \subseteq turn
      /\ asking \in [Sessions -> SUBSET Keys] /\ calling \in [Sessions -> Seq(OpenCall)]
      /\ left \in [Sessions -> SUBSET (Keys \cup Calls \cup {"turn"})]
      /\ s \notin alive => asking[s] = {} /\ calling[s] = <<>>
  BY DEF CopilotInv, Typed, Files, ReadInv
<1>3. Concerns(s, "start")
  BY <1>2 DEF Start, Concerns
<1>4. ASSUME NEW a \in Found, Fits(a, s, asking, calling, left, turn)
      PROVE  /\ Fits(ParseEvent(a, e), s, asking', calling', left', turn')
             /\ Whole(a, s, asking, calling, left, turn)
                  => Whole(ParseEvent(a, e), s, asking', calling', left', turn')
  BY <1>2, <1>4 DEF Start, ParseEvent, Fits, Whole, Found
<1>5. Kept(s, e)
  BY <1>4 DEF Kept
<1>6. QED
  BY <1>1, <1>3, <1>5, WriteKeeps

\* A turn starts: whatever was asked is settled.
LEMMA TurnStartKeeps ==
  ASSUME CopilotInv, NEW s \in Sessions, TurnStart(s)
  PROVE  CopilotInv'
<1> DEFINE e == [type |-> "turn_start", id |-> None]
<1>1. e \in Event /\ Write(s, "turn_start", None)
  BY DEF TurnStart, Event
<1>2. /\ alive \subseteq Sessions /\ turn \subseteq alive /\ final \subseteq turn
      /\ asking \in [Sessions -> SUBSET Keys] /\ calling \in [Sessions -> Seq(OpenCall)]
      /\ left \in [Sessions -> SUBSET (Keys \cup Calls \cup {"turn"})]
      /\ s \notin alive => asking[s] = {} /\ calling[s] = <<>>
  BY DEF CopilotInv, Typed, Files, ReadInv
<1>3. Concerns(s, "turn_start")
  BY <1>2 DEF TurnStart, Concerns
<1>4. ASSUME NEW a \in Found, Fits(a, s, asking, calling, left, turn)
      PROVE  /\ Fits(ParseEvent(a, e), s, asking', calling', left', turn')
             /\ Whole(a, s, asking, calling, left, turn)
                  => Whole(ParseEvent(a, e), s, asking', calling', left', turn')
  <2>1. ParseEvent(a, e) = TurnStarted(a)
    BY DEF ParseEvent
  <2>2. /\ asking'[s] = {} /\ calling'[s] = calling[s] /\ left'[s] = left[s] \cap Calls
        /\ s \in turn'
    BY <1>2 DEF TurnStart
  <2>3. /\ TurnStarted(a).waits = {} /\ TurnStarted(a).tools = a.tools
        /\ TurnStarted(a).turn = TRUE
    BY DEF TurnStarted, Found
  <2>4. Ids(a.tools) \subseteq Calls
    BY ToolsAreCalls
  <2>5. QED
    BY <1>4, <2>1, <2>2, <2>3, <2>4 DEF Fits, Whole
<1>5. Kept(s, e)
  BY <1>4 DEF Kept
<1>6. QED
  BY <1>1, <1>3, <1>5, WriteKeeps

\* A turn has its final answer.
LEMMA FinalAnswerKeeps ==
  ASSUME CopilotInv, NEW s \in Sessions, FinalAnswer(s)
  PROVE  CopilotInv'
<1> DEFINE e == [type |-> "final_answer", id |-> None]
<1>1. e \in Event /\ Write(s, "final_answer", None)
  BY DEF FinalAnswer, Event
<1>2. /\ alive \subseteq Sessions /\ turn \subseteq alive /\ final \subseteq turn
      /\ asking \in [Sessions -> SUBSET Keys] /\ calling \in [Sessions -> Seq(OpenCall)]
      /\ left \in [Sessions -> SUBSET (Keys \cup Calls \cup {"turn"})]
      /\ s \notin alive => asking[s] = {} /\ calling[s] = <<>>
  BY DEF CopilotInv, Typed, Files, ReadInv
<1>3. Concerns(s, "final_answer")
  BY <1>2 DEF FinalAnswer, Concerns
<1>4. ASSUME NEW a \in Found, Fits(a, s, asking, calling, left, turn)
      PROVE  /\ Fits(ParseEvent(a, e), s, asking', calling', left', turn')
             /\ Whole(a, s, asking, calling, left, turn)
                  => Whole(ParseEvent(a, e), s, asking', calling', left', turn')
  BY <1>2, <1>4 DEF FinalAnswer, ParseEvent, Fits, Whole, Found
<1>5. Kept(s, e)
  BY <1>4 DEF Kept
<1>6. QED
  BY <1>1, <1>3, <1>5, WriteKeeps

\* A turn ends.
LEMMA TurnEndKeeps ==
  ASSUME CopilotInv, NEW s \in Sessions, TurnEnd(s)
  PROVE  CopilotInv'
<1> DEFINE e == [type |-> "turn_end", id |-> None]
<1>1. e \in Event /\ Write(s, "turn_end", None)
  BY DEF TurnEnd, Event
<1>2. /\ alive \subseteq Sessions /\ turn \subseteq alive /\ final \subseteq turn
      /\ asking \in [Sessions -> SUBSET Keys] /\ calling \in [Sessions -> Seq(OpenCall)]
      /\ left \in [Sessions -> SUBSET (Keys \cup Calls \cup {"turn"})]
      /\ s \notin alive => asking[s] = {} /\ calling[s] = <<>>
  BY DEF CopilotInv, Typed, Files, ReadInv
<1>3. Concerns(s, "turn_end")
  BY <1>2 DEF TurnEnd, Concerns
<1>4. ASSUME NEW a \in Found, Fits(a, s, asking, calling, left, turn)
      PROVE  /\ Fits(ParseEvent(a, e), s, asking', calling', left', turn')
             /\ Whole(a, s, asking, calling, left, turn)
                  => Whole(ParseEvent(a, e), s, asking', calling', left', turn')
  BY <1>2, <1>4 DEF TurnEnd, ParseEvent, Fits, Whole, Found, TurnEnded
<1>5. Kept(s, e)
  BY <1>4 DEF Kept
<1>6. QED
  BY <1>1, <1>3, <1>5, WriteKeeps

\* The user is asked.
LEMMA AskKeeps ==
  ASSUME CopilotInv, NEW s \in Sessions, NEW r \in Keys, Ask(s, r)
  PROVE  CopilotInv'
<1> DEFINE e == [type |-> "requested", id |-> r]
<1>1. e \in Event /\ Write(s, "requested", r)
  BY DEF Ask, Event
<1>2. /\ alive \subseteq Sessions /\ turn \subseteq alive /\ final \subseteq turn
      /\ asking \in [Sessions -> SUBSET Keys] /\ calling \in [Sessions -> Seq(OpenCall)]
      /\ left \in [Sessions -> SUBSET (Keys \cup Calls \cup {"turn"})]
      /\ s \notin alive => asking[s] = {} /\ calling[s] = <<>>
  BY DEF CopilotInv, Typed, Files, ReadInv
<1>3. Concerns(s, "requested")
  BY <1>2 DEF Ask, Concerns
<1>4. ASSUME NEW a \in Found, Fits(a, s, asking, calling, left, turn)
      PROVE  /\ Fits(ParseEvent(a, e), s, asking', calling', left', turn')
             /\ Whole(a, s, asking, calling, left, turn)
                  => Whole(ParseEvent(a, e), s, asking', calling', left', turn')
  BY <1>2, <1>4 DEF Ask, ParseEvent, Fits, Whole, Found
<1>5. Kept(s, e)
  BY <1>4 DEF Kept
<1>6. QED
  BY <1>1, <1>3, <1>5, WriteKeeps

\* The user answers.
LEMMA AnswerKeeps ==
  ASSUME CopilotInv, NEW s \in Sessions, NEW r \in Keys, Answer(s, r)
  PROVE  CopilotInv'
<1> DEFINE e == [type |-> "completed", id |-> r]
<1>1. e \in Event /\ Write(s, "completed", r)
  BY DEF Answer, Event
<1>2. /\ alive \subseteq Sessions /\ turn \subseteq alive /\ final \subseteq turn
      /\ asking \in [Sessions -> SUBSET Keys] /\ calling \in [Sessions -> Seq(OpenCall)]
      /\ left \in [Sessions -> SUBSET (Keys \cup Calls \cup {"turn"})]
      /\ s \notin alive => asking[s] = {} /\ calling[s] = <<>>
  BY DEF CopilotInv, Typed, Files, ReadInv
<1>3. Concerns(s, "completed")
  BY <1>2 DEF Answer, Concerns
<1>4. ASSUME NEW a \in Found, Fits(a, s, asking, calling, left, turn)
      PROVE  /\ Fits(ParseEvent(a, e), s, asking', calling', left', turn')
             /\ Whole(a, s, asking, calling, left, turn)
                  => Whole(ParseEvent(a, e), s, asking', calling', left', turn')
  BY <1>2, <1>4 DEF Answer, ParseEvent, Fits, Whole, Found
<1>5. Kept(s, e)
  BY <1>4 DEF Kept
<1>6. QED
  BY <1>1, <1>3, <1>5, WriteKeeps

\* The identities of calls when one begins.
LEMMA IdsAppend ==
  ASSUME NEW calls \in Seq(OpenCall), NEW e \in OpenCall
  PROVE  /\ Append(calls, e) \in Seq(OpenCall)
         /\ Ids(Append(calls, e)) = Ids(calls) \cup {e.id}
<1> DEFINE more == Append(calls, e)
<1>1. /\ more \in Seq(OpenCall) /\ DOMAIN more = 1..Len(calls) + 1 /\ DOMAIN calls = 1..Len(calls)
      /\ more[Len(calls) + 1] = e /\ Len(calls) \in Nat
      /\ \A n \in 1..Len(calls) : more[n] = calls[n]
  OBVIOUS
<1> HIDE DEF more
<1>2. \A n \in DOMAIN more : n \in DOMAIN calls \/ n = Len(calls) + 1
  BY <1>1
<1>3. \A n \in DOMAIN calls : n \in DOMAIN more
  BY <1>1
<1>4. Len(calls) + 1 \in DOMAIN more
  BY <1>1
<1>5. QED
  BY <1>1, <1>2, <1>3, <1>4 DEF more, Ids

\* A tool is called, beside others.
LEMMA CallKeeps ==
  ASSUME CopilotInv, NEW s \in Sessions, NEW c \in Calls, NEW type \in {"call", "ask_user"},
         Call(s, c, type)
  PROVE  CopilotInv'
<1> DEFINE e == [type |-> type, id |-> c]
<1>1. e \in Event /\ e \in OpenCall /\ e.id = c /\ Write(s, type, c)
  BY DEF Call, Event, OpenCall
<1>2. /\ alive \subseteq Sessions /\ turn \subseteq alive /\ final \subseteq turn
      /\ asking \in [Sessions -> SUBSET Keys] /\ calling \in [Sessions -> Seq(OpenCall)]
      /\ left \in [Sessions -> SUBSET (Keys \cup Calls \cup {"turn"})]
  BY DEF CopilotInv, Typed, Files
<1>3. /\ s \in turn /\ calling' = [calling EXCEPT ![s] = Append(@, e)]
      /\ UNCHANGED <<alive, turn, final, asking, left>>
  BY DEF Call
<1> HIDE DEF e
<1>4. calling[s] \in Seq(OpenCall)
  BY <1>2
<1>5. /\ Append(calling[s], e) \in Seq(OpenCall)
      /\ Ids(Append(calling[s], e)) = Ids(calling[s]) \cup {c}
  BY <1>1, <1>4, IdsAppend
<1>6. /\ calling' \in [Sessions -> Seq(OpenCall)] /\ calling'[s] = Append(calling[s], e)
      /\ \A x \in Sessions \ {s} : calling'[x] = calling[x]
  BY <1>2, <1>3, <1>5
<1>7. Concerns(s, type)
  BY <1>2, <1>3, <1>6 DEF Concerns
<1>8. ASSUME NEW a \in Found, Fits(a, s, asking, calling, left, turn)
      PROVE  /\ Fits(ParseEvent(a, e), s, asking', calling', left', turn')
             /\ Whole(a, s, asking, calling, left, turn)
                  => Whole(ParseEvent(a, e), s, asking', calling', left', turn')
  <2>1. a.tools \in Seq(OpenCall)
    BY DEF Found
  <2>2. Ids(Append(a.tools, e)) = Ids(a.tools) \cup {c}
    BY <1>1, <2>1, IdsAppend
  <2>3. ParseEvent(a, e) = [a EXCEPT !.tools = Append(@, e)]
    BY DEF ParseEvent, e
  <2>4. /\ ParseEvent(a, e).tools = Append(a.tools, e) /\ ParseEvent(a, e).waits = a.waits
        /\ ParseEvent(a, e).turn = a.turn /\ ParseEvent(a, e).final = a.final
    BY <2>3 DEF Found
  <2>5. QED
    BY <1>3, <1>5, <1>6, <1>8, <2>2, <2>4 DEF Fits, Whole
<1>9. Kept(s, e)
  BY <1>8 DEF Kept
<1>10. QED
  BY <1>1, <1>7, <1>9, WriteKeeps DEF e

\* A call completes; one with no start in the tail changes nothing.
LEMMA CompleteKeeps ==
  ASSUME CopilotInv, NEW s \in Sessions, NEW c \in Calls, Complete(s, c)
  PROVE  CopilotInv'
<1> DEFINE e == [type |-> "complete", id |-> c]
<1>1. e \in Event /\ e.type = "complete" /\ e.id = c /\ Write(s, "complete", c)
  BY DEF Complete, Event
<1>2. /\ alive \subseteq Sessions /\ turn \subseteq alive /\ final \subseteq turn
      /\ asking \in [Sessions -> SUBSET Keys] /\ calling \in [Sessions -> Seq(OpenCall)]
      /\ left \in [Sessions -> SUBSET (Keys \cup Calls \cup {"turn"})]
      /\ s \notin alive => asking[s] = {} /\ calling[s] = <<>>
  BY DEF CopilotInv, Typed, Files, ReadInv
<1>3. /\ c \in Ids(calling[s]) /\ calling' = [calling EXCEPT ![s] = Without(@, c)]
      /\ UNCHANGED <<alive, turn, final, asking, left>>
  BY DEF Complete
<1>4. calling[s] \in Seq(OpenCall)
  BY <1>2
<1>5. /\ Without(calling[s], c) \in Seq(OpenCall)
      /\ Ids(Without(calling[s], c)) = Ids(calling[s]) \ {c}
  BY <1>4, WithoutIs
<1>6. /\ calling' \in [Sessions -> Seq(OpenCall)] /\ calling'[s] = Without(calling[s], c)
      /\ \A x \in Sessions \ {s} : calling'[x] = calling[x]
  BY <1>2, <1>3, <1>5
<1>7. s \in alive
  BY <1>2, <1>3 DEF Ids
<1>8. Concerns(s, "complete")
  BY <1>2, <1>3, <1>6, <1>7 DEF Concerns
<1>9. ASSUME NEW a \in Found, Fits(a, s, asking, calling, left, turn)
      PROVE  /\ Fits(ParseEvent(a, e), s, asking', calling', left', turn')
             /\ Whole(a, s, asking, calling, left, turn)
                  => Whole(ParseEvent(a, e), s, asking', calling', left', turn')
  <2>1. a.tools \in Seq(OpenCall)
    BY DEF Found
  <2>2. Ids(Without(a.tools, c)) = Ids(a.tools) \ {c}
    BY <2>1, WithoutIs
  <2>3. ParseEvent(a, e) = [a EXCEPT !.tools = Without(@, c)]
    BY <1>1 DEF ParseEvent
  <2>4. /\ ParseEvent(a, e).tools = Without(a.tools, c) /\ ParseEvent(a, e).waits = a.waits
        /\ ParseEvent(a, e).turn = a.turn /\ ParseEvent(a, e).final = a.final
    BY <2>3 DEF Found
  <2>5. QED
    BY <1>3, <1>5, <1>6, <1>9, <2>2, <2>4 DEF Fits, Whole
<1>10. Kept(s, e)
  BY <1>9 DEF Kept
<1>11. QED
  BY <1>1, <1>8, <1>10, WriteKeeps

\* When a process ends, what it was doing is left.
LEMMA EndsIs ==
  ASSUME CopilotInv, NEW s \in Sessions, NEW leaving \in SUBSET Keys, Ends(s, leaving)
  PROVE  /\ s \in alive /\ alive' = alive \ {s} /\ turn' = turn \ {s} /\ final' = final \ {s}
         /\ asking' \in [Sessions -> SUBSET Keys] /\ asking'[s] = {}
         /\ calling' \in [Sessions -> Seq(OpenCall)] /\ calling'[s] = <<>>
         /\ left' \in [Sessions -> SUBSET (Keys \cup Calls \cup {"turn"})]
         /\ left[s] \cup leaving \cup Ids(calling[s]) \subseteq left'[s]
         /\ s \in turn => "turn" \in left'[s]
         /\ \A x \in Sessions \ {s} :
              asking'[x] = asking[x] /\ calling'[x] = calling[x] /\ left'[x] = left[x]
<1>1. /\ asking \in [Sessions -> SUBSET Keys] /\ calling \in [Sessions -> Seq(OpenCall)]
      /\ left \in [Sessions -> SUBSET (Keys \cup Calls \cup {"turn"})]
  BY DEF CopilotInv, Typed
<1>2. Ids(calling[s]) \subseteq Calls
  <2>1. calling[s] \in Seq(OpenCall)
    BY <1>1
  <2>2. \A n \in DOMAIN calling[s] : calling[s][n] \in OpenCall
    BY <2>1
  <2>3. QED
    BY <2>2 DEF OpenCall, Ids
<1>3. left' = [left EXCEPT ![s] = @ \cup leaving \cup Ids(calling[s])
                                    \cup (IF s \in turn THEN {"turn"} ELSE {})]
  BY DEF Ends
<1>4. PICK more : more = Ids(calling[s])
  OBVIOUS
<1>5. /\ left' \in [Sessions -> SUBSET (Keys \cup Calls \cup {"turn"})]
      /\ left[s] \cup leaving \cup Ids(calling[s]) \subseteq left'[s]
      /\ s \in turn => "turn" \in left'[s]
      /\ \A x \in Sessions \ {s} : left'[x] = left[x]
  BY <1>1, <1>2, <1>3, <1>4
<1>6. /\ s \in alive /\ alive' = alive \ {s} /\ turn' = turn \ {s} /\ final' = final \ {s}
      /\ asking' = [asking EXCEPT ![s] = {}] /\ calling' = [calling EXCEPT ![s] = <<>>]
  BY DEF Ends
<1>7. <<>> \in Seq(OpenCall)
  OBVIOUS
<1>8. QED
  BY <1>1, <1>5, <1>6, <1>7

\* What fits and is whole, does and is when the process has ended.
LEMMA EndFits ==
  ASSUME CopilotInv, NEW s \in Sessions, NEW leaving \in SUBSET Keys, Ends(s, leaving),
         NEW a \in Found, NEW b \in Found, b.waits \subseteq left[s] \cup leaving,
         b.tools = a.tools, b.turn = a.turn, b.final = a.final,
         Fits(a, s, asking, calling, left, turn)
  PROVE  /\ Fits(b, s, asking', calling', left', turn')
         /\ Whole(a, s, asking, calling, left, turn) => Whole(b, s, asking', calling', left', turn')
<1>1. /\ asking'[s] = {} /\ calling'[s] = <<>> /\ s \notin turn'
      /\ left[s] \cup leaving \cup Ids(calling[s]) \subseteq left'[s]
      /\ s \in turn => "turn" \in left'[s]
  BY EndsIs
<1>2. Fits(b, s, asking', calling', left', turn')
  BY <1>1 DEF Fits
<1>3. Whole(b, s, asking', calling', left', turn')
  BY <1>1, <1>2, RestIsWhole
<1>4. QED
  BY <1>2, <1>3

\* A session is shut down: no request is open.
LEMMA ShutdownKeeps ==
  ASSUME CopilotInv, NEW s \in Sessions, Shutdown(s)
  PROVE  CopilotInv'
<1> DEFINE e == [type |-> "shutdown", id |-> None]
<1>1. e \in Event /\ Write(s, "shutdown", None) /\ Ends(s, {})
  BY DEF Shutdown, Event
<1>2. /\ s \in alive /\ alive' = alive \ {s} /\ turn' = turn \ {s} /\ final' = final \ {s}
      /\ asking' \in [Sessions -> SUBSET Keys] /\ asking'[s] = {}
      /\ calling' \in [Sessions -> Seq(OpenCall)] /\ calling'[s] = <<>>
      /\ left' \in [Sessions -> SUBSET (Keys \cup Calls \cup {"turn"})]
      /\ \A x \in Sessions \ {s} :
           asking'[x] = asking[x] /\ calling'[x] = calling[x] /\ left'[x] = left[x]
  BY <1>1, EndsIs
<1>3. alive \subseteq Sessions /\ turn \subseteq alive /\ final \subseteq turn
  BY DEF CopilotInv, Typed, Files
<1>4. Concerns(s, "shutdown")
  BY <1>2, <1>3 DEF Concerns
<1>5. ASSUME NEW a \in Found, Fits(a, s, asking, calling, left, turn)
      PROVE  /\ Fits(ParseEvent(a, e), s, asking', calling', left', turn')
             /\ Whole(a, s, asking, calling, left, turn)
                  => Whole(ParseEvent(a, e), s, asking', calling', left', turn')
  <2>1. PICK b : b = ParseEvent(a, e)
    OBVIOUS
  <2>2. b = [a EXCEPT !.waits = {}]
    BY <2>1 DEF ParseEvent
  <2>3. /\ b \in Found /\ b.waits = {} /\ b.tools = a.tools /\ b.turn = a.turn /\ b.final = a.final
    BY <2>2 DEF Found
  <2>4. QED
    BY <1>1, <1>5, <2>1, <2>3, EndFits
<1>6. Kept(s, e)
  BY <1>5 DEF Kept
<1>7. QED
  BY <1>1, <1>4, <1>6, WriteKeeps

\* A session is killed: its requests and calls stay open in its log.
LEMMA KillKeeps ==
  ASSUME CopilotInv, NEW s \in Sessions, Kill(s)
  PROVE  CopilotInv'
<1>1. /\ asking \in [Sessions -> SUBSET Keys] /\ killed \in [Sessions -> SUBSET Sessions]
      /\ alive \subseteq Files /\ Files \subseteq Sessions /\ turn \subseteq alive /\ final \subseteq turn
      /\ log \in [Sessions -> Seq(Event)] /\ newer \in [Sessions -> SUBSET Files]
      /\ ReadInv /\ OrderInv /\ KilledInv /\ quiet \in [Sessions -> Nat]
      /\ \A x \in Sessions : quiet[x] <= Len(log[x])
  BY DEF CopilotInv, Typed, Files
<1>2. /\ Ends(s, asking[s]) /\ asking[s] \in SUBSET Keys
      /\ killed' = [x \in Sessions |-> IF x = s THEN killed[x] ELSE killed[x] \cup {s}]
      /\ log' = log /\ newer' = newer /\ quiet' = quiet
  BY <1>1 DEF Kill
<1>3. /\ s \in alive /\ alive' = alive \ {s} /\ turn' = turn \ {s} /\ final' = final \ {s}
      /\ asking' \in [Sessions -> SUBSET Keys] /\ asking'[s] = {}
      /\ calling' \in [Sessions -> Seq(OpenCall)] /\ calling'[s] = <<>>
      /\ left' \in [Sessions -> SUBSET (Keys \cup Calls \cup {"turn"})]
      /\ left[s] \cup asking[s] \cup Ids(calling[s]) \subseteq left'[s]
      /\ \A x \in Sessions \ {s} :
           asking'[x] = asking[x] /\ calling'[x] = calling[x] /\ left'[x] = left[x]
  BY <1>2, EndsIs
<1>4. Files' = Files /\ \A x : lastEventIsShutdown(x)' <=> lastEventIsShutdown(x)
  BY <1>2 DEF Files, lastEventIsShutdown
<1>5. killed' \in [Sessions -> SUBSET Sessions]
  BY <1>1, <1>2
<1>6. Typed'
  BY <1>1, <1>2, <1>3, <1>4, <1>5 DEF Typed
<1>7. OrderInv'
  BY <1>1, <1>2, <1>4 DEF OrderInv
<1>8. KilledInv'
  <2>1. \A x \in alive' : ~lastEventIsShutdown(x)'
    BY <1>1, <1>3, <1>4 DEF KilledInv
  <2>2. ASSUME NEW y \in Files, NEW x \in newer[y]
        PROVE  x \in alive' \/ lastEventIsShutdown(x) \/ x \in killed'[y]
    <3>1. x \in alive \/ lastEventIsShutdown(x) \/ x \in killed[y]
      BY <1>1 DEF KilledInv
    <3>2. x \in Sessions /\ y \in Sessions /\ (x = s => y # s)
      BY <1>1 DEF OrderInv
    <3>3. QED
      BY <1>2, <1>3, <3>1, <3>2
  <2>3. QED
    BY <1>2, <1>4, <2>1, <2>2 DEF KilledInv
<1>9. ASSUME NEW x \in Sessions
      PROVE  /\ \A j \in 0..Len(log[x]) : Fits(Read(log[x], j), x, asking', calling', left', turn')
             /\ \A j \in 0..quiet[x] : Whole(Read(log[x], j), x, asking', calling', left', turn')
             /\ x \notin alive' => asking'[x] = {} /\ calling'[x] = <<>>
  <2>1. CASE x = s
    <3>1. log[s] \in Seq(Event) /\ Len(log[s]) \in Nat /\ quiet[s] \in Nat /\ quiet[s] <= Len(log[s])
      BY <1>1
    <3>2. ASSUME NEW j \in 0..Len(log[s])
          PROVE  /\ Fits(Read(log[s], j), s, asking', calling', left', turn')
                 /\ Whole(Read(log[s], j), s, asking', calling', left', turn')
      <4>1. Read(log[s], j) \in Found
        BY <3>1, ReadFound
      <4>2. PICK a \in Found : a = Read(log[s], j)
        BY <4>1
      <4>3. Fits(a, s, asking, calling, left, turn)
        BY <1>1, <4>2 DEF ReadInv
      <4>4. a.waits \subseteq left[s] \cup asking[s]
        BY <4>3 DEF Fits
      <4>5. Fits(a, s, asking', calling', left', turn')
        BY <1>2, <4>3, <4>4, EndFits
      <4>6. Whole(a, s, asking', calling', left', turn')
        BY <1>3, <4>5, RestIsWhole
      <4>7. QED
        BY <4>2, <4>5, <4>6
    <3>3. \A j \in 0..quiet[s] : j \in 0..Len(log[s])
      BY <3>1
    <3>4. QED
      BY <1>3, <2>1, <3>2, <3>3
  <2>2. CASE x # s
    <3>1. /\ x \in alive' <=> x \in alive
          /\ x \in turn' <=> x \in turn
          /\ asking'[x] = asking[x] /\ calling'[x] = calling[x] /\ left'[x] = left[x]
      BY <1>3, <2>2
    <3>2. \A a : /\ Fits(a, x, asking', calling', left', turn') <=> Fits(a, x, asking, calling, left, turn)
                 /\ Whole(a, x, asking', calling', left', turn') <=> Whole(a, x, asking, calling, left, turn)
      BY <3>1 DEF Fits, Whole
    <3>3. QED
      BY <1>1, <3>1, <3>2 DEF ReadInv
  <2>3. QED
    BY <2>1, <2>2
<1>10. ReadInv'
  BY <1>2, <1>9 DEF ReadInv
<1>11. QED
  BY <1>6, <1>7, <1>8, <1>10 DEF CopilotInv
-----------------------------------------------------------------------------
(***************************************************************************)
(* Copilot: the theorems.                                                  *)
(***************************************************************************)

\* No session has a file yet.
LEMMA CopilotStarts == CopilotInit => CopilotInv
<1> SUFFICES ASSUME CopilotInit
             PROVE  CopilotInv
  OBVIOUS
<1>1. /\ \A s \in Sessions : log[s] = <<>> /\ quiet[s] = 0 /\ left[s] = {} /\ newer[s] = {}
                            /\ asking[s] = {} /\ calling[s] = <<>>
      /\ Files = {} /\ alive = {} /\ turn = {} /\ final = {}
  BY DEF CopilotInit, Files
<1>2. <<>> \in Seq(Event) /\ Len(<<>>) = 0 /\ <<>> \in Seq(OpenCall)
  OBVIOUS
<1>3. Typed
  BY <1>1, <1>2 DEF CopilotInit, Typed
<1>4. Read(<<>>, 0) = Nothing
  BY <1>2, ReadNothing
<1>5. ASSUME NEW s \in Sessions
      PROVE  /\ Fits(Nothing, s, asking, calling, left, turn)
             /\ Whole(Nothing, s, asking, calling, left, turn)
  BY <1>1, NothingFits, NothingFound, RestIsWhole
<1>6. ReadInv
  <2>1. \A j \in 0..0 : j = 0
    OBVIOUS
  <2>2. QED
    BY <1>1, <1>2, <1>4, <1>5, <2>1 DEF ReadInv
<1>7. OrderInv
  BY <1>1 DEF OrderInv
<1>8. KilledInv
  BY <1>1 DEF KilledInv
<1>9. QED
  BY <1>3, <1>6, <1>7, <1>8 DEF CopilotInv

\* Every step of copilot keeps the invariant.
LEMMA CopilotStep == CopilotInv /\ [CopilotNext]_copilotVars => CopilotInv'
<1> SUFFICES ASSUME CopilotInv, [CopilotNext]_copilotVars
             PROVE  CopilotInv'
  OBVIOUS
<1>1. CASE CopilotNext
  <2> SUFFICES ASSUME NEW s \in Sessions,
                      \/ Start(s) \/ TurnStart(s) \/ FinalAnswer(s) \/ TurnEnd(s)
                      \/ \E c \in Calls :
                           Call(s, c, "call") \/ Call(s, c, "ask_user") \/ Complete(s, c)
                      \/ \E r \in Keys : Ask(s, r) \/ Answer(s, r)
                      \/ Shutdown(s) \/ Kill(s)
               PROVE  CopilotInv'
    BY <1>1 DEF CopilotNext
  <2>1. CASE Start(s) \/ TurnStart(s) \/ FinalAnswer(s) \/ TurnEnd(s)
    BY <2>1, StartKeeps, TurnStartKeeps, FinalAnswerKeeps, TurnEndKeeps
  <2>2. ASSUME NEW c \in Calls, Call(s, c, "call") \/ Call(s, c, "ask_user") \/ Complete(s, c)
        PROVE  CopilotInv'
    BY <2>2, CallKeeps, CompleteKeeps
  <2>3. ASSUME NEW r \in Keys, Ask(s, r) \/ Answer(s, r)
        PROVE  CopilotInv'
    BY <2>3, AskKeeps, AnswerKeeps
  <2>4. CASE Shutdown(s) \/ Kill(s)
    BY <2>4, ShutdownKeeps, KillKeeps
  <2>5. QED
    BY <2>1, <2>2, <2>3, <2>4
<1>2. CASE UNCHANGED copilotVars
  <2>1. UNCHANGED <<log, newer, alive, turn, final, asking, calling, left, quiet, killed>>
    BY <1>2 DEF copilotVars, truth
  <2>2. Files' = Files /\ \A x : lastEventIsShutdown(x)' <=> lastEventIsShutdown(x)
    BY <2>1 DEF Files, lastEventIsShutdown
  <2>3. Typed' /\ ReadInv' /\ OrderInv' /\ KilledInv'
    BY <2>1, <2>2 DEF CopilotInv, Typed, ReadInv, OrderInv, KilledInv
  <2>4. QED
    BY <2>3 DEF CopilotInv
<1>3. QED
  BY <1>1, <1>2

\* The invariant of the copilot sessions.
LEMMA CopilotInvariant == CopilotSpec => []CopilotInv
<1>1. QED
  BY CopilotStarts, CopilotStep, PTL DEF CopilotSpec

\* Among some sessions there is one that no other of them is newer than.
LEMMA LatestIs ==
  ASSUME CopilotInv, NEW S \in SUBSET Files, S # {}
  PROVE  Latest(S) \in S /\ newer[Latest(S)] \cap S = {}
<1>1. /\ Files \subseteq Sessions /\ IsFiniteSet(Sessions) /\ S \subseteq Sessions
      /\ newer \in [Sessions -> SUBSET Files] /\ OrderInv
  BY DEF CopilotInv, Typed, Files
<1>2. IsFiniteSet(S) /\ \A x \in S : IsFiniteSet(newer[x]) /\ Cardinality(newer[x]) \in Nat
  <2>1. \A x \in S : newer[x] \subseteq Sessions
    BY <1>1
  <2>2. QED
    BY <1>1, <2>1, FS_Subset, FS_CardinalityType
<1> DEFINE key == [x \in S |-> 0 - Cardinality(newer[x])]
<1>3. key \in [S -> Int]
  BY <1>2
<1>4. PICK x \in S : \A y \in S : key[x] >= key[y]
  <2> HIDE DEF key
  <2> QED
    BY <1>2, <1>3, GreatestKey
<1>5. ASSUME NEW y \in newer[x] \cap S
      PROVE  FALSE
  <2>1. newer[y] \subseteq newer[x] /\ y \notin newer[y] /\ y \in newer[x] /\ y \in S
    BY <1>1, <1>5 DEF OrderInv
  <2>2. newer[y] # newer[x]
    BY <2>1
  <2>3. Cardinality(newer[y]) <= Cardinality(newer[x])
        /\ Cardinality(newer[y]) # Cardinality(newer[x])
    BY <1>2, <2>1, <2>2, FS_Subset
  <2>4. Cardinality(newer[y]) \in Nat /\ Cardinality(newer[x]) \in Nat
    BY <1>2, <2>1
  <2>5. QED
    BY <1>4, <2>1, <2>3, <2>4
<1>6. QED
  BY <1>4, <1>5 DEF Latest

\* If any session has a file, one that has is picked.
LEMMA PickedIs ==
  ASSUME CopilotInv, Files # {}, NEW cwd
  PROVE  Picked(cwd) \in Files
<1> DEFINE C == Candidates(cwd)
           open == {s \in C : ~lastEventIsShutdown(s)}
<1>1. C \in SUBSET Files /\ C # {}
  BY DEF Candidates
<1> HIDE DEF C
<1>2. open \in SUBSET Files
  BY <1>1
<1>3. Picked(cwd) = IF open # {} THEN Latest(open) ELSE Latest(C)
  BY DEF Picked, C
<1>4. open # {} => Latest(open) \in open
  <2> HIDE DEF open
  <2> QED
    BY <1>2, LatestIs
<1>5. Latest(C) \in C
  BY <1>1, LatestIs
<1>6. QED
  BY <1>1, <1>2, <1>3, <1>4, <1>5

\* Every variable has its type, and an agent whose tool has any session is shown
\* in one of the four states.
THEOREM CopilotTypes == CopilotSpec => []CopilotTypeOK
<1>1. CopilotInv => CopilotTypeOK
  <2> SUFFICES ASSUME CopilotInv
               PROVE  CopilotTypeOK
    OBVIOUS
  <2>1. ASSUME Files # {}, NEW cwd \in Cwds
        PROVE  DeriveProcState(cwd) \in {"waiting", "running", "thinking", "idle"}
    <3>1. Picked(cwd) \in Sessions
      BY <2>1, PickedIs DEF Files
    <3>2. DeriveProcState(cwd) = StateShown(Picked(cwd))
      BY <3>1 DEF DeriveProcState
    <3>3. QED
      BY <3>2 DEF StateShown, StateOf
  <2>2. QED
    BY <2>1 DEF CopilotInv, Typed, CopilotTypeOK
<1>2. QED
  BY <1>1, CopilotInvariant, PTL

\* What the tail of a log yields is a reading of it.
LEMMA ParsedIsRead ==
  ASSUME CopilotInv, NEW s \in Sessions
  PROVE  /\ Parsed(s) \in Found
         /\ Fits(Parsed(s), s, asking, calling, left, turn)
         /\ Len(log[s]) - quiet[s] <= TailSize
              => Whole(Parsed(s), s, asking, calling, left, turn)
<1>1. log[s] \in Seq(Event) /\ Len(log[s]) \in Nat /\ quiet[s] \in Nat /\ quiet[s] <= Len(log[s])
  BY DEF CopilotInv, Typed
<1>2. Skipped(s) \in 0..Len(log[s]) /\ (Len(log[s]) - quiet[s] <= TailSize => Skipped(s) \in 0..quiet[s])
  BY <1>1 DEF Skipped
<1>3. Parsed(s) = Read(log[s], Skipped(s))
  BY DEF Parsed
<1>4. Parsed(s) \in Found
  BY <1>1, <1>2, <1>3, ReadFound
<1>5. QED
  BY <1>2, <1>3, <1>4 DEF CopilotInv, ReadInv

\* However little of the log the tail holds, a running session is not shown to
\* wait, to execute or to think about anything that it does not, unless a
\* process that ended left it open.
THEOREM NotMadeUp == CopilotSpec => []NothingMadeUp
<1>1. CopilotInv => NothingMadeUp
  <2> SUFFICES ASSUME CopilotInv, NEW s \in alive
               PROVE  /\ Parsed(s).waits \subseteq asking[s] \cup left[s]
                      /\ Ids(Parsed(s).tools) \subseteq Ids(calling[s]) \cup left[s]
                      /\ Parsed(s).turn \/ Parsed(s).final => s \in turn \/ "turn" \in left[s]
    BY DEF NothingMadeUp
  <2>1. s \in Sessions
    BY DEF CopilotInv, Typed, Files
  <2>2. Fits(Parsed(s), s, asking, calling, left, turn)
    BY <2>1, ParsedIsRead
  <2>3. QED
    BY <2>2 DEF Fits
<1>2. QED
  BY <1>1, CopilotInvariant, PTL

\* The state shown is the true one if nothing was left open and the tail reaches
\* back to the last moment of rest, however requests and calls overlap.
THEOREM Exact == CopilotSpec => []ExactSinceQuiet
<1>1. CopilotInv => ExactSinceQuiet
  <2> SUFFICES ASSUME CopilotInv, NEW s \in alive, left[s] = {}, Len(log[s]) - quiet[s] <= TailSize
               PROVE  StateShown(s) = StateOf(asking[s], calling[s], s \in turn, s \in final)
    BY DEF ExactSinceQuiet
  <2>1. s \in Sessions /\ final \subseteq turn
    BY DEF CopilotInv, Typed, Files
  <2>2. PICK a \in Found : a = Parsed(s)
    BY <2>1, ParsedIsRead
  <2>3. Fits(a, s, asking, calling, left, turn) /\ Whole(a, s, asking, calling, left, turn)
    BY <2>1, <2>2, ParsedIsRead
  <2>4. a.waits = asking[s] /\ a.tools = calling[s]
    BY <2>3 DEF Fits, Whole
  <2>5. a.turn \/ a.final <=> s \in turn \/ s \in final
    BY <2>1, <2>3 DEF Fits, Whole
  <2>6. StateShown(s) = StateOf(a.waits, a.tools, a.turn, a.final)
    BY <2>2 DEF StateShown
  <2>7. QED
    BY <2>4, <2>5, <2>6 DEF StateOf
<1>2. QED
  BY <1>1, CopilotInvariant, PTL

\* A process alone in its working directory is shown with its own session,
\* unless another session there was killed since its own was last written.
THEOREM OwnSession == CopilotSpec => []PicksOwnSession
<1>1. CopilotInv => PicksOwnSession
  <2> SUFFICES ASSUME CopilotInv, NEW s \in alive,
                      \A x \in alive \ {s} : CwdOf[x] # CwdOf[s],
                      \A x \in killed[s] : CwdOf[x] # CwdOf[s]
               PROVE  Picked(CwdOf[s]) = s
    BY DEF PicksOwnSession
  <2> DEFINE home == {x \in Files : CwdOf[x] = CwdOf[s]}
             open == {x \in home : ~lastEventIsShutdown(x)}
  <2>1. /\ alive \subseteq Files /\ Files \subseteq Sessions /\ newer \in [Sessions -> SUBSET Files]
        /\ OrderInv /\ KilledInv
    BY DEF CopilotInv, Typed, Files
  <2>2. s \in home /\ s \in open /\ s \in Sessions /\ s \in Files
    BY <2>1 DEF KilledInv
  <2>3. Candidates(CwdOf[s]) = home
    BY <2>2 DEF Candidates
  <2>4. Picked(CwdOf[s]) = Latest(open)
    BY <2>2, <2>3 DEF Picked
  <2>5. ASSUME NEW x \in newer[s] \cap open
        PROVE  FALSE
    <3>1. x \in Files /\ CwdOf[x] = CwdOf[s] /\ ~lastEventIsShutdown(x) /\ x \in newer[s] /\ x # s
      BY <2>1, <2>2, <2>5 DEF OrderInv
    <3>2. x \notin alive /\ x \notin killed[s]
      BY <3>1
    <3>3. QED
      BY <2>1, <2>2, <3>1, <3>2 DEF KilledInv
  <2>6. open \in SUBSET Files /\ open # {}
    BY <2>2
  <2> HIDE DEF open
  <2>7. Latest(open) \in open /\ newer[Latest(open)] \cap open = {}
    BY <2>6, LatestIs
  <2>8. PICK t \in Files : t = Latest(open) /\ t \in open /\ newer[t] \cap open = {}
    BY <2>6, <2>7
  <2>9. t # s => t \in newer[s] \/ s \in newer[t]
    BY <2>1, <2>2, <2>8 DEF OrderInv
  <2>10. QED
    BY <2>2, <2>4, <2>5, <2>8, <2>9
<1>2. QED
  BY <1>1, CopilotInvariant, PTL
=============================================================================
