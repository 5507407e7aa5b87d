------------------------------- MODULE Alerts -------------------------------
(***************************************************************************)
(* The alert life cycle of the collector: detectAnomalies, fireAlert, the  *)
(* notifier's own cooldown, the per-kind self-healing, the transcript      *)
(* branch's llm_error, and the sweep at the end of every scan.             *)
(*                                                                         *)
(* One goroutine runs scan(), so the checks of a scan are sequential; what *)
(* interleaves with them is the wall clock, which every fireAlert and      *)
(* every Notifier.Send reads for itself, and the monitored processes,      *)
(* which exit (and whose pids are reused) between any two reads of /proc.  *)
(* Times are whole Unix seconds.  What a scan observes of an agent (its    *)
(* derived state, the last command it ran) is an input of the visit.       *)
(*                                                                         *)
(* The program may be killed and started again at any moment.  The alerts  *)
(* table outlives it, everything else here is the memory of one run.       *)
(***************************************************************************)
EXTENDS Integers

CONSTANTS
  Agents,        \* agent pids (synthetic negative pids of sessions included)
  TxAgents,      \* those of the tool whose root is shown from a transcript
  NoAgent,       \* the pid of no visit
  Cooldown,      \* Notify.CooldownSeconds
  WaitSeconds,   \* Alert.WaitSeconds
  Observations,  \* what a visit of a root agent may see (see Observation)
  RetainSeconds, \* Store.RetainAlertsDays, in seconds; 0: never pruned
  MaxRuns,       \* bound on the runs of the program (a bound of the model)
  MaxTime        \* bound on the clock (a bound of the model, not of the code)

\* What a visit sees of a root agent; `state` groups the agent states into
\* the three classes that the stuck rule tells apart.
Observation == [needsInput  : BOOLEAN,
                state       : {"idle", "waiting", "busy"},
                silent      : BOOLEAN,     \* no output for StuckSeconds
                secret      : BOOLEAN,     \* last command or file matches
                destructive : BOOLEAN]

ASSUME AlertsAssumption ==
  /\ TxAgents \subseteq Agents
  /\ NoAgent \notin Agents
  /\ Observations \subseteq Observation
  /\ Cooldown \in Nat \ {0}
  /\ WaitSeconds \in Nat \ {0}
  /\ RetainSeconds \in Nat
  /\ MaxRuns \in Nat \ {0}
  /\ MaxTime \in Nat \ {0}

VARIABLES
  run,         \* history: which run of the program this is
  now,         \* time.Now().Unix()
  alive,       \* pids that exist in /proc (or sessions still listed)
  phase,       \* where scan() stands
  txs,         \* agents whose transcript this scan has still to handle
  procs,       \* agent processes of this scan's tree still to handle
  scanNow,     \* the `now` that scan() took after building the tree
  seen,        \* agents whose proc monitor this scan has marked
  written,     \* src and needs_input of the agents rows this scan has written
  visit,       \* the detectAnomalies call in progress
  outbox,      \* the alert recorded but not yet handed to the channels
  alerts,      \* the alerts table
  lastAlert,   \* Collector.lastAlert
  lastSent,    \* Notifier.last
  needsSince,  \* agentMonitor.needsInputSince of the agent's proc monitor
  interrupted, \* history: when the agent's waiting was last, or may have been, interrupted
  carried      \* history: agents whose timer ran on through a scan that did not judge them

table  == <<alerts, lastAlert, lastSent, outbox>>
world  == <<run, now, alive>>
cursor == <<phase, txs, procs, scanNow, seen, written>>
timer  == <<needsSince, interrupted, carried>>
vars   == <<world, cursor, visit, table, timer>>

-----------------------------------------------------------------------------
StateKinds == {"wait_unhandled", "llm_error", "stuck"}
AuditKinds == {"secret_leak", "destructive_cmd"}
Kinds      == StateKinds \cup AuditKinds

\* The order in which detectAnomalies decides the kinds.
CheckOrder == <<"wait_unhandled", "llm_error", "secret_leak",
                "destructive_cmd", "stuck">>

Never == 0       \* a key with no entry; the clock starts after it
Times == Never .. MaxTime

\* A row of the table; `run` is history: the run of the program that wrote it.
Alert == [pid : Agents, kind : Kinds, ts : Times, run : 1..MaxRuns]

NoVisit == [pid |-> NoAgent, at |-> Never, hits |-> {}, step |-> 0]

AgentRow == [src : {"none", "proc", "transcript"}, needsInput : BOOLEAN]

NoRow == [src |-> "none", needsInput |-> FALSE]

NoAlert == [key \in Agents \X Kinds |-> Never]

\* The agents this scan has written, in either branch.
activePids == {p \in Agents : written[p].src # "none"}

Idle == visit.step = 0 /\ outbox = {}

Cooling(last, t) == last # Never /\ t - last < Cooldown

Row(p, k) == \E r \in alerts : r.pid = p /\ r.kind = k

DeleteAlertsKind(p, k) == {r \in alerts : r.pid # p \/ r.kind # k}

PruneAlerts(rows, before) == {r \in rows : ~(r.ts < before)}

\* Mutant: the kind list of the sweep lacks one of the state kinds.
ForgetsWaiting(rows, active) ==
  {r \in rows : r.pid \in active \/ r.kind \notin {"llm_error", "stuck"}}

DeleteOrphanStateAlerts(rows, active) ==
  {r \in rows : r.pid \in active \/ r.kind \notin StateKinds}

Stuck(o) ==
  /\ ~o.needsInput
  /\ o.state \notin {"idle", "waiting"}
  /\ o.silent

\* The kinds whose condition the observation meets.  A proc monitor never
\* has text (only tests call setLastLine), so llm_error is never among them.
Hits(o) == {k \in Kinds : \/ k = "wait_unhandled"  /\ o.needsInput
                          \/ k = "secret_leak"     /\ o.secret
                          \/ k = "destructive_cmd" /\ o.destructive
                          \/ k = "stuck"           /\ Stuck(o)}
-----------------------------------------------------------------------------
Init ==
  /\ run = 1
  /\ now = 1
  /\ alive = Agents
  /\ phase = "start"
  /\ txs = {} /\ procs = {} /\ seen = {}
  /\ written = [p \in Agents |-> NoRow]
  /\ scanNow = Never
  /\ visit = NoVisit
  /\ outbox = {}
  /\ alerts = {}
  /\ lastAlert = NoAlert /\ lastSent = NoAlert
  /\ needsSince = [p \in Agents |-> Never]
  /\ interrupted = [p \in Agents |-> Never]
  /\ carried = {}

\* A second passes.
Tick ==
  /\ now < MaxTime
  /\ now' = now + 1
  /\ UNCHANGED <<run, alive, cursor, visit, table, timer>>

\* A monitored process exits.
Exit(p) ==
  /\ p \in alive
  /\ alive' = alive \ {p}
  /\ UNCHANGED <<run, now, cursor, visit, table, timer>>

\* A new agent process gets the pid of one that exited.
Spawn(p) ==
  /\ p \notin alive
  /\ alive' = alive \cup {p}
  /\ UNCHANGED <<run, now, cursor, visit, table, timer>>

\* The program stops, wherever its scan stands, and New makes a collector
\* without cooldowns and monitors; an alert not yet handed on is lost.
Restart ==
  /\ run < MaxRuns
  /\ run' = run + 1
  /\ phase' = "start"
  /\ txs' = {} /\ procs' = {} /\ seen' = {}
  /\ written' = [p \in Agents |-> NoRow]
  /\ scanNow' = Never
  /\ visit' = NoVisit
  /\ outbox' = {}
  /\ lastAlert' = NoAlert /\ lastSent' = NoAlert
  /\ needsSince' = [p \in Agents |-> Never]
  /\ interrupted' = [p \in Agents |-> now]
  /\ carried' = {}
  /\ UNCHANGED <<now, alive, alerts>>

-----------------------------------------------------------------------------
\* scan() starts: it reads the transcripts of the sessions still listed.
ScanTranscripts ==
  /\ phase \in {"start", "idle"}
  /\ txs' \in SUBSET (alive \cap TxAgents)
  /\ phase' = "tree"
  /\ written' = [p \in Agents |-> NoRow]
  /\ UNCHANGED <<world, procs, scanNow, seen, visit, table, timer>>

\* Then it reads /proc, a moment later.
BuildTree ==
  /\ phase = "tree"
  /\ procs' \in SUBSET alive
  /\ scanNow' = now
  /\ phase' = "proc"
  /\ UNCHANGED <<world, txs, seen, written, visit, table, timer>>

\* A proc node is handled: its monitor is marked, the node leaves the list.
Handled(p) ==
  /\ phase = "proc" /\ Idle
  /\ p \in procs
  /\ procs' = procs \ {p}
  /\ seen' = seen \cup {p}
  /\ UNCHANGED <<phase, txs, scanNow>>

\* A scan that handles the agent without a look at its waiting: the user may
\* have answered meanwhile, but a running timer runs on.
NotJudged(p) ==
  /\ interrupted' = [interrupted EXCEPT ![p] = now]
  /\ carried' = IF needsSince[p] = Never THEN carried ELSE carried \cup {p}
  /\ UNCHANGED needsSince

\* The root of a transcript tool, while any of its transcripts was read this
\* round: no row is written and no anomaly is looked for.
SkipRoot(p) ==
  /\ Handled(p)
  /\ p \in TxAgents /\ txs # {}
  /\ NotJudged(p)
  /\ UNCHANGED <<world, written, visit, table>>

\* The row of a proc node is written.
UpsertProc(p, needs) ==
  written' = [written EXCEPT ![p] = [src |-> "proc", needsInput |-> needs]]

\* A descendant process: a row, but anomalies are the root's business.
VisitChild(p, needs) ==
  /\ Handled(p)
  /\ UpsertProc(p, needs)
  /\ NotJudged(p)
  /\ UNCHANGED <<world, visit, table>>

\* A root process: a row, then detectAnomalies, which takes its clock reading.
VisitRoot(p, o) ==
  /\ Handled(p)
  /\ ~(p \in TxAgents /\ txs # {})
  /\ p \in alive
  /\ UpsertProc(p, o.needsInput)
  /\ visit' = [pid |-> p, at |-> now, hits |-> Hits(o), step |-> 1]
  /\ UNCHANGED <<world, table, timer>>

\* The same of a process that is gone: detectAnomalies gives up at once.
VisitGone(p, needs) ==
  /\ Handled(p)
  /\ ~(p \in TxAgents /\ txs # {})
  /\ p \notin alive
  /\ UpsertProc(p, needs)
  /\ NotJudged(p)
  /\ UNCHANGED <<world, visit, table>>

-----------------------------------------------------------------------------
\* Mutant: the row carries the end of its cooldown instead of its time.
FireExpiry(p, k) ==
  IF Cooling(lastAlert[<<p, k>>], now)
  THEN UNCHANGED <<alerts, lastAlert, outbox>>
  ELSE /\ lastAlert' = [lastAlert EXCEPT ![<<p, k>>] = now]
       /\ alerts' = alerts \cup {[pid |-> p, kind |-> k, ts |-> now + Cooldown, run |-> run]}
       /\ outbox' = {[pid |-> p, kind |-> k, ts |-> now, run |-> run]}

\* Mutant: fireAlert asks its cooldown map but never writes it.
FireUnrecorded(p, k) ==
  IF Cooling(lastAlert[<<p, k>>], now)
  THEN UNCHANGED <<alerts, lastAlert, outbox>>
  ELSE /\ UNCHANGED lastAlert
       /\ alerts' = alerts \cup {[pid |-> p, kind |-> k, ts |-> now, run |-> run]}
       /\ outbox' = {[pid |-> p, kind |-> k, ts |-> now, run |-> run]}

\* fireAlert up to RecordAlert; Send follows as a step of its own because it
\* reads the clock again.
FireAlert(p, k) ==
  IF Cooling(lastAlert[<<p, k>>], now)
  THEN UNCHANGED <<alerts, lastAlert, outbox>>
  ELSE /\ lastAlert' = [lastAlert EXCEPT ![<<p, k>>] = now]
       /\ alerts' = alerts \cup {[pid |-> p, kind |-> k, ts |-> now, run |-> run]}
       /\ outbox' = {[pid |-> p, kind |-> k, ts |-> now, run |-> run]}

Heal(p, k) ==
  /\ alerts' = DeleteAlertsKind(p, k)
  /\ UNCHANGED <<lastAlert, outbox>>

\* One kind of detectAnomalies other than waiting: alert or self-heal.
CheckKind(p, k) ==
  /\ IF k \in visit.hits THEN FireAlert(p, k) ELSE Heal(p, k)
  /\ UNCHANGED timer

\* The waiting rule: the first waiting visit starts the timer, a later one
\* alerts when the timer has run WaitSeconds, a visit that sees no waiting
\* stops the timer and heals.
CheckWait(p) ==
  \/ /\ "wait_unhandled" \in visit.hits
     /\ needsSince[p] = Never
     /\ needsSince' = [needsSince EXCEPT ![p] = visit.at]
     /\ UNCHANGED <<alerts, lastAlert, outbox, interrupted, carried>>
  \/ /\ "wait_unhandled" \in visit.hits
     /\ needsSince[p] # Never
     /\ IF visit.at - needsSince[p] >= WaitSeconds
        THEN FireAlert(p, "wait_unhandled")
        ELSE UNCHANGED <<alerts, lastAlert, outbox>>
     /\ UNCHANGED timer
  \/ /\ "wait_unhandled" \notin visit.hits
     /\ needsSince' = [needsSince EXCEPT ![p] = Never]
     /\ interrupted' = [interrupted EXCEPT ![p] = visit.at]
     /\ carried' = carried \ {p}
     /\ Heal(p, "wait_unhandled")

\* The next rule of the detectAnomalies call in progress.
Check ==
  /\ visit.step \in 1..5 /\ outbox = {}
  /\ LET k == CheckOrder[visit.step]
     IN  IF k = "wait_unhandled" THEN CheckWait(visit.pid)
                                 ELSE CheckKind(visit.pid, k)
  /\ visit' = IF visit.step = 5 THEN NoVisit
                                ELSE [visit EXCEPT !.step = @ + 1]
  /\ UNCHANGED <<world, cursor, lastSent>>

\* Mutant: the notifier asks the collector's cooldown map.
SendOnSharedMap(a) ==
  /\ a \in outbox
  /\ outbox' = outbox \ {a}
  /\ lastSent' = IF Cooling(lastAlert[<<a.pid, a.kind>>], now)
                 THEN lastSent
                 ELSE [lastSent EXCEPT ![<<a.pid, a.kind>>] = now]
  /\ UNCHANGED <<world, cursor, visit, alerts, lastAlert, timer>>

\* Notifier.Send: its own cooldown map, its own reading of the clock.
Send(a) ==
  /\ a \in outbox
  /\ outbox' = outbox \ {a}
  /\ lastSent' = IF Cooling(lastSent[<<a.pid, a.kind>>], now)
                 THEN lastSent
                 ELSE [lastSent EXCEPT ![<<a.pid, a.kind>>] = now]
  /\ UNCHANGED <<world, cursor, visit, alerts, lastAlert, timer>>

-----------------------------------------------------------------------------
\* All proc nodes handled: the transcripts are next.
EndProcs ==
  /\ phase = "proc" /\ Idle
  /\ procs = {}
  /\ phase' = "transcript"
  /\ UNCHANGED <<world, txs, procs, scanNow, seen, written, visit, table, timer>>

\* The node of a session: llm_error fires or heals, and the row is written.
VisitTranscript(p, isError, needs) ==
  /\ phase = "transcript" /\ Idle
  /\ p \in txs
  /\ txs' = txs \ {p}
  /\ IF isError THEN FireAlert(p, "llm_error") ELSE Heal(p, "llm_error")
  /\ written' = [written EXCEPT ![p] = [src |-> "transcript", needsInput |-> needs]]
  /\ UNCHANGED <<world, phase, procs, scanNow, seen, visit, lastSent, timer>>

\* Mutant: a dropped monitor leaves its timer to the next one of its pid.
KeepTimers ==
  /\ UNCHANGED <<needsSince, carried>>
  /\ interrupted' = [p \in Agents |-> IF p \in seen THEN interrupted[p] ELSE scanNow]

\* Monitors that this scan has not seen are dropped, their timers with them.
DropMonitors ==
  /\ needsSince'  = [p \in Agents |-> IF p \in seen THEN needsSince[p] ELSE Never]
  /\ interrupted' = [p \in Agents |-> IF p \in seen THEN interrupted[p] ELSE scanNow]
  /\ carried' = carried \cap seen

Pruned == IF RetainSeconds > 0
          THEN PruneAlerts(alerts, scanNow - RetainSeconds)
          ELSE alerts

\* Mutant: alerts leave by retention only.
NoSweep == Pruned

\* The alerts that the sweeps at the end of a scan leave.
Swept == DeleteOrphanStateAlerts(Pruned, activePids)

\* The end of scan().
EndScan ==
  /\ phase = "transcript" /\ Idle
  /\ txs = {}
  /\ DropMonitors
  /\ alerts' = Swept
  /\ phase' = "idle"
  /\ seen' = {} /\ scanNow' = Never
  /\ UNCHANGED <<world, txs, procs, written, visit, lastAlert, lastSent, outbox>>

-----------------------------------------------------------------------------
ScanStep ==
  \/ ScanTranscripts
  \/ BuildTree
  \/ \E p \in Agents : SkipRoot(p)
  \/ \E p \in Agents, needs \in BOOLEAN : VisitChild(p, needs)
  \/ \E p \in Agents, o \in Observations : VisitRoot(p, o)
  \/ \E p \in Agents, needs \in BOOLEAN : VisitGone(p, needs)
  \/ Check
  \/ \E a \in outbox : Send(a)
  \/ EndProcs
  \/ \E p \in Agents, isError, needs \in BOOLEAN : VisitTranscript(p, isError, needs)
  \/ EndScan

Next ==
  \/ Tick
  \/ Restart
  \/ \E p \in Agents : Exit(p) \/ Spawn(p)
  \/ ScanStep

Spec == Init /\ [][Next]_vars

\* The collector's goroutine is always scheduled again: its ticker fires
\* every interval and no step of scan() blocks for ever.
FairSpec == Spec /\ WF_vars(ScanStep)
-----------------------------------------------------------------------------
(***************************************************************************)
(* Properties.                                                             *)
(***************************************************************************)

\* Every variable has its type, and at most one alert is on its way out.
TypeOK ==
  /\ run \in 1..MaxRuns
  /\ now \in 1..MaxTime
  /\ alive \subseteq Agents
  /\ phase \in {"start", "idle", "tree", "proc", "transcript"}
  /\ txs \subseteq TxAgents
  /\ procs \subseteq Agents
  /\ seen \subseteq Agents
  /\ written \in [Agents -> AgentRow]
  /\ scanNow \in Nat
  /\ visit \in [pid : Agents \cup {NoAgent}, at : Nat, hits : SUBSET Kinds, step : 0..5]
  /\ outbox \subseteq Alert
  /\ alerts \subseteq Alert
  /\ lastAlert \in [Agents \X Kinds -> Nat]
  /\ lastSent \in [Agents \X Kinds -> Nat]
  /\ needsSince \in [Agents -> Nat]
  /\ interrupted \in [Agents -> Nat]
  /\ carried \subseteq {p \in Agents : needsSince[p] # Never}

\* Two alerts that one run of the program raises of one agent and one kind are
\* at least Cooldown apart, however often the condition comes and goes,
\* whichever branch of scan() raises them and however the clock moves between
\* checks (fireAlert's promise of one record per CooldownSeconds).
CooldownSpacing ==
  \A r, s \in alerts :
    r.pid = s.pid /\ r.kind = s.kind /\ r.run = s.run /\ r.ts < s.ts
      => s.ts - r.ts >= Cooldown

\* No agent is reported at once as waiting for its user and as stuck: the
\* stuck rule leaves waiting agents to wait_unhandled, and the self-healing
\* of either kind comes before the other one can be raised.
WaitStuckExclusive ==
  \A p \in Agents : ~(Row(p, "wait_unhandled") /\ Row(p, "stuck"))

\* A wait_unhandled alert is earned: in the WaitSeconds before it is raised
\* no root visit saw the agent not waiting, no scan missed its process, found it
\* gone or below another root, and the program was not restarted, so that neither
\* a pause nor a predecessor with the same pid counts as waiting.  Excepted is a
\* timer that was running when a scan did not judge the agent (its root was
\* skipped for a transcript, or the process was gone): the code lets it run on.
WaitAlertEarned ==
  [][\A r \in alerts' \ alerts :
       r.kind = "wait_unhandled" /\ r.pid \notin carried
         => interrupted[r.pid] + WaitSeconds <= r.ts]_vars

\* After a scan no state alert is left of an agent the scan did not write to
\* the agents table, whichever branch, and whichever run of the program, raised
\* it and whenever the agent left, if only while the program was down.
NoOrphanStateAlert ==
  phase = "idle" => \A r \in alerts : r.kind \in StateKinds => r.pid \in activePids

\* The two cooldowns read the clock apart, so the notifier may swallow a
\* recorded alert; but then it has sent one for the same agent and kind less
\* than Cooldown before: the user is never left without word for longer.
NotifierKeepsUp ==
  \A p \in Agents, k \in Kinds :
    lastAlert[<<p, k>>] # Never /\ (\A a \in outbox : a.pid # p \/ a.kind # k)
      => lastSent[<<p, k>>] # Never /\ lastAlert[<<p, k>>] - lastSent[<<p, k>>] < Cooldown

\* Once an agent has exited for good its state alerts go away for good (the
\* life-cycle binding of scan()'s last step), restarts or not.
ExitedAgentsHeal ==
  \A p \in Agents :
    <>[](p \notin alive) => <>[](\A k \in StateKinds : ~Row(p, k))

\* What the comment on the wait rule says, "no longer waiting: the alert is
\* cleared": an agent whose row is written from a transcript that shows it
\* not waiting has no wait_unhandled alert after the scan.
TranscriptAgentHeals ==
  phase = "idle" =>
    \A p \in Agents :
      written[p] = [src |-> "transcript", needsInput |-> FALSE]
        => ~Row(p, "wait_unhandled")

\* What the comment at the end of scan() says of the audit kinds, "kept for
\* tracing, no loss": only retention removes them.
AuditAlertsKept ==
  [][\A r \in alerts : r.kind \in AuditKinds /\ r \notin alerts'
       => RetainSeconds > 0 /\ r.ts < scanNow - RetainSeconds]_vars
=============================================================================
