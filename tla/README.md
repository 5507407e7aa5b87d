# A TLA+ model of agent-scope

agent-scope observes the coding agents that run on a machine (claude, codex,
copilot, hermes ...): one Go process scans `/proc`, session transcripts and eBPF
events, derives a state for every agent, keeps agents, events and alerts in
SQLite, and shows them in a browser. This directory holds a TLA+ development of
it: nine modules that model its parts, an abstract specification that one of
them implements, TLC configurations that check them on small instances, and
proofs, for instances of every size, about all of them: every safety and action
property that a passing run checks is also a theorem. Paths below are relative to
`src/backend/internal/` unless they start with `src/`.

Contents: [1 the system](#1-the-system) · [2 modules and code](#2-modules-and-code) ·
[3 runs, bounds, fairness](#3-runs) · [4 what disagrees](#4-where-code-and-comments-disagree) ·
[5 proofs](#5-proofs) · [6 not modelled](#6-what-is-not-modelled) · [7 plan](#7-plan)

## 1 The system

### Components

| component | state | operations | what makes it correct | module |
|---|---|---|---|---|
| alerts (`collector/anomaly.go`, `notify/notify.go`) | `lastAlert`, `Notifier.last`, `needsInputSince`, table `alerts` | `detectAnomalies`, `fireAlert`, self-healing, `clearOrphanStateAlerts`, `PruneAlerts`, `Send` | one record per cooldown, no contradicting alerts, none of agents that are gone, restarts included | `Alerts` |
| process tree (`collector/proc.go`, scan steps 1-3) | the snapshot of a scan | `buildProcTree`, root search, folding, parents | rows of a scan form trees; a row does not flicker and does not stay | `Tree` |
| eBPF (`ebpf/ebpf.go`, `ebpf/bpf/agent_mon.bpf.c`, `collector/ebpf_handler.go`) | `beh_map`, `agent_pids`, `last_active`, `pidOwner` | kernel `emit`, `PollEvents`, `pollBehavior`, `refreshTrees`, `LastActive` | an event reaches one monitor, once; maps do not fill up | `Ebpf`, `Monitor` |
| state inference (`collector/monitor.go`) | per monitor: times of the last output, event, connection, edit | `consumeEvent`, `updateState`, the stuck rule | what is shown has a reason; a prompt and a hang are noticed | `Monitor` |
| hermes (`collector/hermes_source.go`) | none: its database is read anew | `readHermesState` | works only if the database says so | `Monitor` |
| transcripts (`collector/transcript.go`, `claude_source.go`) | per session: offset, cached fields, pending calls | `scanTranscripts`, `readTranscript`, `transcriptState` | reading in pieces means the same as reading the whole; a waiting session really waits | `Transcript` |
| sessions of one process, subagents (scan step 4) | rows merged, `subagentScanOffset` | `mergedByReal`, `mergeTranscriptSubagents` | whoever wrote last is shown; subagents appear, and hang below a row | `Sessions` |
| copilot sessions (`collector/copilot.go`, `copilot_source.go`) | none: the tail of a log is read anew each time | choice of a session, fold over its events | the right session, and nothing made up from a cut log | `Copilot` |
| store (`store/store.go`) | tables `agents`, `alerts`, `events` | one mutex section per call | - | each module has its table |
| hub (`wss/hub.go`), server (`server/server.go`) | registered clients and their connections | `Add`, `remove`, `Push`, `Len`; `/ws` and read-only `/api` | registration and connection agree; clients are brought up to date | `Hub`, `Feed` |
| main (`src/backend/main.go`) | - | start, signal, shutdown | the store is closed last | `Hub` |
| timeline panel (`src/frontend/src/composables/useAgentMon.js`) with `recordEvents` and `/api/events` | `prevCmd` ... `prevState` of a monitor, table `events`; the open agent, its events, loading | `recordEvents`, `RecentEvents`, `toggle`, `loadEvents`, `toggleOnlyUser` | the panel shows the agent that is open, and stops loading; the record is current | `Timeline` |
| configuration, rest of the web interface, packaging | - | - | - | see 6 |

### How they interact

`scan` calls everything else in one goroutine, every `Collect.Interval` seconds: it
polls eBPF, reads the transcripts, reads `/proc`, writes rows root by root (in the
random order of a Go map) and session by session, calls `detectAnomalies` for
roots, drops monitors that this scan did not mark, prunes tables and pushes a
snapshot. `refreshTrees` runs every 500 ms in the same goroutine. What runs *beside*
it: the observed processes (which fork, exit, trace, write their logs and reuse pids
at any time), the kernel's eBPF programs, the `/ws` handlers and read loops, the
browsers' clicks and fetches, `main`, and the wall clock, which several steps of
one scan read separately. agent-scope itself may be killed and started again at
any moment; only its database survives.

### What is hard

* interleaving: process exit and pid reuse between two readings of `/proc`; the
  kernel's writes between reading and deleting a map entry; `Push` and read loop
  removing the same client; a handler's snapshot overtaken by a scan's; answers
  overtaken by clicks;
* half-done writes: a transcript read in the middle of a line, a log of which
  only the tail is read, a program killed between recording and notifying;
* two clocks for one cooldown (`fireAlert`, `Notifier.Send`), two clocks for one
  activity (the kernel's and the boot time), and timers that survive scans that
  did not look;
* order: nested agents handled in the order of a map; long sequences of partial
  readings; sessions that take turns; shutdown;
* things that must happen in the end: alerts heal, rows and monitors leave, maps
  drain, clients are served, prompts and hangs are noticed, loading ends.

`PROJECT.json` lists these, each at its line, with the property that watches it.

## 2 Modules and code

Every definition that models code is mapped to its lines in `PROJECT.json`. A
definition whose comment starts with "Mutant:" is not part of the model: it is a
plausible mistake in the definition after it, used to see that a property would
notice.

**`Alerts`** (MCAlerts, AlertsProofs) - the alert life cycle. `phase`, `txs`, `procs`
say where `scan` stands; `visit` is the `detectAnomalies` call in progress, which
decides five kinds in the code's order, one step each, because each `fireAlert` reads
the clock anew; `outbox` is the moment between `RecordAlert` and the notifier's
own reading of the clock. `SkipRoot`/`VisitRoot`/`VisitChild`/`VisitGone` are the four fates of
a process, the first, third and fourth without a look at its waiting (`NotJudged`: a running timer
runs on), `VisitTranscript` that of a session, `EndScan` drops monitors (with
their timers), prunes and sweeps. `Restart` kills the program at any moment, in the
middle of a visit or before a notification is sent, and starts it again: the table
stays, the cooldowns of `fireAlert` and of the notifier, the monitors and the scan do
not. What a scan sees of an agent (waits, silent, last command matches ...) is an
input. `interrupted`, `carried` (agents whose timer ran on through a scan that
did not judge them) and `run` are history variables. The text rule for `llm_error`
cannot hit a proc monitor, because only tests set a monitor's last line, and so the
kind is never among `Hits`.

**`Tree`** (MCTree, TreeProofs) - from `/proc` to the `agents` table. `BuildTree` takes a
snapshot that may miss processes (`MaxTorn`) since `/proc` is read one entry after the
other; `HandleRoot` handles one root with its descendants, in any order;
`HandleTranscript` writes the row of a session under the pid of the largest claude
process in the project; `Prune` acts on ages in whole seconds. Processes do not
move between the snapshot and the end of the scan, because nothing read there
decides a row. Any set of processes may be private executables (`Folded`), also ones that are
roots of their own: a node program's process is called `MainThread` whatever its tool.

**`Ebpf`** (MCEbpf, EbpfProofs) - events from the kernel to monitors. `beh_map` keeps the
last event of a pid; `PollRead` and `PollDelete` are two steps, as in `PollEvents`, with
`Trace` allowed between them; `RefreshTree` handles one monitor in any order;
`HandleRoot` watches what is below the snapshot's processes by then. `deliveries`
is history. `AddPIDs` fails for what finds `agent_pids` full (`Room`), which the code only logs;
`refused` keeps that in mind. The kernel traces any process, so what goes unwatched is
not what goes unpolled. Event contents and the limit of `beh_map` are left out.

**`Monitor`** (SourceProofs) - the state of an agent told from outside. `Emit` is a
system call with an event, noted in `last_active` (if there is room) and in
`beh_map`; `WriteCall` one without; `Poll` is `pollBehavior` with `consumeEvent` for the
two processes of the tree, in either order; `Derive` is the visit of the root:
`LastActive` replaces `lastOut`, then `updateState` or `readHermesState`, whose two
queries may each fail, and the stuck rule. The child may repeat the events in `Recurring` for ever;
`heard` is history: this scan has polled an event of the child. Points in time are ages, which `Tick`
advances; `Suspend` lets the boot time, and not the kernel's monotonic one, go on.
Which paths are transient, which addresses are an LLM's and whether the terminal
blocks are inputs.

**`Transcript`** (TranscriptProofs) - one claude session's file and its reader. A line has two
halves and may be written in two pieces, cut in its body or just before its
newline; offsets count halves, so a scan may stop inside a line. `ParseLine` is the
loop body, `Start` what one reading inherits from the last (only the pending
calls), `Cached` how a silent file is represented, `Show`/`Drop` what a scan does
with the result. Ages are classes of seconds against the three thresholds
60 s/300 s/2 h. `DeriveTranscriptState` gives precedence to the status in claude's own
`sessions/<pid>.json`, an input of any value. Left out: files that shrink, codex.

**`Sessions`** (SessionsProofs) - one level above `Transcript`: the session files of one project
and the claude processes that run there. Of a line only its time and whether it calls a subagent
matter, and that it may be half written when a scan comes. `Reading` is what a file yields,
`Merged` and `Holder` which reading is shown and whose monitor is used, `AfterMerge` what that
monitor becomes, `NewSubs` the subagents found, `CutOff` those that the monitor's offset passes
half written. A scan is one step, as nothing it reads twice decides a row: `ScanSessions`, or
`ScanProcs` when no session is read here; then the roots are shown, or skipped as well because a
session of another project was read (`other`): `hasTxThisRound` is kept per tool. Scans may be
slow (`Delays`), and files fall out of the two hours (`TwoHours`).

**`Copilot`** (MCCopilot, SourceProofs) - the choice of a session (`Picked`, among `Candidates` by
`Latest`) and the fold over the tail of its events (`Read`, `ParseEvent`). Of the files' times
only the order counts: `newer` holds the sessions written after each. Copilot itself is external:
its sessions start, take turns, call tools, ask with or without request ids, end, are killed and
resumed, and the model keeps what they really do beside what they log. The tail is counted in
events instead of bytes; an event that is only half written is read next time and therefore not
modelled. Of several open calls the newest decides, as in the code, so an `ask_user` behind a
newer call is shown as running.

**`Hub`** (BrowserProofs) - hub, `/ws` handler, the writing half of `scan`, and `main`.
`Lock`, `Deliver`, `Fail`, `Unlock` are the loop of `Push` with the mutex held;
`Remove` and `RemoveCloses` are `Hub.remove` under and after the mutex. A snapshot
is only *current* or *outdated*: every write of a scan outdates those read
before it, hence `ListTree` and `RecentAlerts` can be one step (a write between
them has the effect of a write after both). Handlers of hijacked connections are
not awaited by `http.Server.Shutdown`; all goroutines end with `main`. The read loop
leaves on an error only, whatever the comment at `wss/hub.go:49` says of frames,
so a frame is not a step.

**`Feed`** - what all of that promises a browser, without mutexes, handlers, read loops or
scans: a connection subscribes once, is shown the tables, current or overtaken, until
its subscription ends for good, and is brought up to date again and again while
the service runs. `Hub` implements it under the mapping at its end: a subscription is
a registration, *fresh* is `upToDate` of the registered.

**`Timeline`** (BrowserProofs) - the way of an event into the panel: `RecordEvents` writes what
differs from the monitor's last report (the kinds of one visit in any order, and some of them
without success, which the monitor ignores: `missed`), `PruneEvents` takes
the oldest rows, `Drop` replaces a monitor; `Serve` is `/api/events`, which may fail and whose
empty result is JSON null; `Toggle`, `ClickTimeline`, `ClickInfo`, `ToggleOnlyUser` are the page's
handlers up to their first `await`, `Receive` what follows it; `Rendered` is what the template
makes of the state, after each of them. An agent has a monitor of its process, of its session, or
both.

**`Selection`** - one helper, the elements of a sequence that are in a set, for `Copilot` and
`Timeline`. These two name their specifications `CopilotSpec` and `TimelineSpec`
(likewise `Init`, `Next`, `TypeOK`), since each shares a proof module with another module.

Which module stands on which: each models one part of the program with the parts around it
reduced to what they can do to it. `Hub` composes server, hub, scan and `main`; `Monitor`
kernel, poll and visit; `Timeline` collector, server and page. `Alerts` takes the rows
of `Tree`'s scan as a set of visits and the states of `Monitor` as inputs, `Sessions` takes
`Transcript`'s reading of a file as one fact, `Ebpf` repeats the part of the scan that
watches pids, `Hub` knows of a scan only that it writes, then pushes. Nothing is shared
but the order of `scan`'s steps, which is the same in all.

## 3 Runs

| run | question | distinct states | answer |
|---|---|---|---|
| `alerts` | do cooldown, healing, sweep and notifier agree under every interleaving with clock, exits, pid reuse and restarts? | 1 160 000 | holds |
| `tree` | do the rows of a scan form trees, and leave when and only when they should? | 310 000 | holds |
| `ebpf` | is an event delivered at most once, does the map drain, do monitors go? | 140 000 | holds |
| `monitor` | has what is shown a reason, and are prompts and hangs noticed? | 610 000 | holds |
| `transcript` | is piecewise reading the same as reading at once? | 550 000 | holds |
| `sessions` | is the right one of several sessions shown, with its subagents? | 280 000 | holds |
| `copilot` | what can be concluded from the tail of a log? | 360 000 | holds |
| `hub` | is the feed of `Feed` served, does the store outlive the collector? | 170 000 | holds |
| `timeline` | do answers and clicks that overtake each other mix up the panel? | 950 000 | holds |
| `alerts_heal`, `alerts_audit`, `monitor_stuck` | does the code do what a comment says? | stop early | violated, see 4 |

### The properties

* `alerts`: `CooldownSpacing` (two alerts of a kind, raised in one run of the program, are a
  cooldown apart, whichever branch raised them), `NoOrphanStateAlert` (nor is one left of an agent
  that went while the program was down), `NotifierKeepsUp` (a recorded alert may be swallowed by
  the notifier, because it reads the clock separately, but then one was sent less than a cooldown
  earlier), `WaitAlertEarned` (only uninterrupted waiting alerts, but for a timer that ran on
  through a scan that did not judge the agent, see 4), `ExitedAgentsHeal` (liveness).
  `WaitStuckExclusive` is proved and needs no run.
* `tree`: `RowsFormTrees` (parents and roots of the rows agree, but below a root that another one
  has folded, see 4; and a private executable has a row only as a root), `MissedOnceStays` (a torn
  snapshot does not make a row flicker), `GoneProcessesLeave` (liveness).
* `ebpf`: `TypeOK` (whatever is monitored is watched, unless the full map refused it),
  `DeliveredAtMostOnce`, `NothingPilesUp` (liveness: every event leaves the map, every process
  that exited loses its monitor).
* `monitor`: `ShownHasReason` relates what is shown to what the agent did, not to what the monitor
  believes; `PromptNoticed` and `HangNoticed` (liveness) say that a connection to an LLM cannot
  put off the conclusion for ever once the tree is silent, and a child that goes on for ever
  cannot either, if the kernel knows the root and, for a prompt, the agent is not taken to be
  connected to an LLM. Neither condition can be left out: see 4.
* `transcript`: `ReadsAsWhole`, `WaitingIsReal`, `SessionStaysShown`. The first excludes lines
  that report errors: an error is forgotten with the chunk it came in, whereas a single reading
  would keep it until the next assistant line. The first two exclude sessions with a lost half
  line (see 4); the last names its exception, a newline that arrives alone. `WaitingIsReal` says
  nothing of a state that claude reports itself, but that no other status is turned into waiting.
* `sessions`: `NewsIsShown`, `SubagentsAppear` (as long as the monitor was used for one file only
  and the call was not half written when a scan came, see 4), `SubagentsHang` (no row of a
  subagent outlives its parent's, although the two are written and pruned in different scans),
  `NeverVanishes` (between the branches with and without sessions nothing falls through, but for a
  scan that read sessions of other projects only, see 4).
* `copilot`: `NothingMadeUp`, `ExactSinceQuiet` (a tail that reaches back to the last idle moment
  gives the exact state), `PicksOwnSession` (a process alone in its directory is shown with its
  own session unless another was killed there since).
* `hub`: `RemovedAreClosed` (once, and no registered client is), `StoreOutlivesCollector`,
  `ImplementsFeed` (refinement of `Feed`'s steps), `ServesFeed` (of its liveness), `BrokenLeave`
  (liveness: a broken connection leaves, though writes to it may succeed).
* `timeline`: `ShowsOpenAgent`, `LoadingEnds` (liveness), `RecordIsCurrent` (what a waiting
  process last did is the newest row of its kind, or all were pruned, or it could not be inserted,
  see 4).

`TypeOK` (`CopilotTypeOK`, `TimelineTypeOK`) is the type invariant of each module, with the facts
about control that belong to it.

### Bounds, and why they are enough

* `alerts`: one agent of a transcript tool, cooldown and retention 2 s, waiting time 1 s, clock to
  3, one restart. Keys of different agents never meet in the code (every map and every deletion is
  by pid), so one agent meets everything; three seconds let a cooldown expire, an alert be raised
  again and retention strike; a second restart starts from a table that the first can have left.
  Four observations reach all five kinds' hit and heal branches but one of the two audit kinds,
  which are treated alike. The proofs remove these bounds.
* `tree`: a claude with one session, a copilot's private executable started from its terminal, and
  another process of that copilot below: nesting of different tools and of the same, folding, a
  folded root, orphans and skipped roots all occur with three processes. `MaxTorn` 3 lets a
  snapshot miss everything, `MaxScan` 1 lets a scan cross a second. No process of this instance is
  a shell or excluded: a fourth process takes the run beyond two million states, out of five
  minutes.
* `ebpf`: an agent and a command whose pid is reused by an unrelated process, three events: one
  may overwrite another, arrive between `Next` and `Delete`, or come after the pid was reused.
  `Room` is 1, so that `agent_pids` is full as soon as one pid is watched; the rest of the module
  does not depend on it.
* `monitor`: thresholds as close together as `MonitorAssumption` allows (1, 2 and 3 intervals),
  with a machine that may be suspended once. Two actions of the agent suffice to combine any two
  signals (an edit and a prompt, a connection and the root's silence); beside them the child may
  start a program again and again, for ever, so that nothing falls silent for want of actions.
  `monitor_stuck` needs three: a child, an event of the root, one of the child.
* `transcript`: three lines, one call, one line cut in two; thresholds 0/1/1: a call, its result
  and a line after it, read in any pieces.
* `sessions`: two files and two processes, three lines: each file can be ahead of the other and be
  overtaken again. Delays of 2 and 3 against a retention of 2 make rows survive one scan or none;
  `Hang` is proved for all delays. The first line may be cut in two (`MaxCuts`): one call
  lost, and a whole one behind it.
* `copilot`: two sessions of one directory and one elsewhere, six events, a tail of three: long
  enough to lose a start and see its end. `CHECK_DEADLOCK FALSE`, because all agents may have
  stopped when the event bound is reached.
* `hub`: two browsers; with one only, `Push` never has a client to go on with after a failure.
* `timeline`: one agent with a process, one with a session (the proof covers agents that have
  both, and any number of kinds of events), answers of one row, two rows in the table, two
  requests under way and five clicks: enough to open one agent, ask, go to the other, ask, and
  come back before the first answer.

Bounded counters (`MaxTime`, `MaxRuns`, `MaxScan`, `MaxEvents`, `MaxLines`, `MaxCuts`, `MaxTorn`,
`MaxActs`, `MaxRows`, `MaxClicks`, `MaxRequests`) belong to the model only, and each is a CONSTANT
with a comment.

### Fairness

* `Alerts`, `Tree`: weak fairness of `ScanStep`. The collector's ticker fires for
  ever, and no step of `scan` blocks indefinitely. `Tree` also lets time pass. `Restart`
  is bounded and never fair: a program that is killed for ever heals nothing.
* `Ebpf`: weak fairness of the refresh and strong fairness of the scan: both are
  cases of one `select`, which chooses among ready channels at random.
* `Monitor`: weak fairness of `Tick`, `Poll` and `Derive`: time passes, scans go on.
* `Hub`: goroutines run, and a write ends within its deadline of 3 s. Strong
  fairness for `Remove`, whose mutex the collector takes again and again: `sync.Mutex`
  hands over to a waiter after 1 ms; and for the collector's `ReadSnapshot`: the
  database does not fail it for ever (once is allowed: `ListFails`). `Signal` and
  `Disconnect` are never fair.
* `Timeline`: every request is answered or fails, and its answer is delivered. Clicks and scans are
  not fair.
* `Transcript`, `Sessions`, `Copilot` have no liveness properties.

## 4 Where code and comments disagree

Each of these runs checks what a comment says and ends in a counterexample.

1. `alerts_heal` - a wait alert is to go when the agent stops waiting
   (`collector/anomaly.go:32`), but an agent shown from its transcript is no longer visited.
2. `alerts_audit` - audit alerts are to be kept (`collector/collector.go:448`), but
   `detectAnomalies` deletes them with the next command that does not match.
3. `monitor_stuck` - an event of the agent's tree is to keep it from being called stuck
   (`collector/monitor.go:99`), but `LastActive` of the root process alone replaces the
   time that the events have refreshed: the agent is called stuck by the very scan that
   polled an event of its child.

Properties of the runs that hold make exceptions, and these are why:

* Waiting is timed from when it began (`collector/anomaly.go:25`), but a scan that skips the root of
  a tool with sessions (`collector/collector.go:239`) or finds the process gone
  (`collector/anomaly.go:14-16`) does not look, and a running timer runs on. A pause in between
  counts as waiting, and the next wait may raise its alert at once. `WaitAlertEarned` excepts a
  timer so `carried`.
* A tool whose sessions cannot be read falls back to its processes (`collector/collector.go:91-93`),
  but `hasTxThisRound` is kept per tool and not per project: one session read anywhere makes the
  roots of every project skipped, and a project whose sessions are older than two hours vanishes.
  `NeverVanishes` excepts scans that are `eclipsed` so.
* Half-written lines are known of (`collector/collector.go:88-89`), but the search for subagents
  moves its offset to the size of the file, also past a line of which only a part is there
  (`collector/transcript.go:81-88`). A call cut in two is never found; `SubagentsAppear` excepts what
  was `cutOff`.
* `RecordEvent` may fail (`store/store.go:360-372`), which `collector/monitor.go:283-300` ignores while
  it takes the value for recorded: the row before it stays the newest until the value
  changes again. `RecordIsCurrent` excepts what was `missed`.
* A process that finds no room among the 4096 of `agent_pids` is reported as an error
  (`ebpf/ebpf.go:128-130`), which is only logged, and the process is monitored without being
  watched. The type invariant of `Ebpf` excepts the `refused`.
* A prompt of an agent whose child goes on is not noticed as long as the agent counts as
  connected to an LLM: each event of the child refreshes what keeps it from waiting
  (`collector/monitor.go:221-238`). `PromptNoticed` asks that one of the two end.
* A private executable that is a root of its own may be folded by an agent of another tool further
  up. Its children are then given the outer agent as their parent, and keep the inner one as
  their root (`collector/collector.go:181`, lines 214-218). `RowsFormTrees` calls them `Adopted`.
* An agent started from another's terminal is to be independent (`collector/collector.go:114`), but
  the search below the outer root goes on through it (line 161), and the order of a map
  decides which row remains. `RowsFormTrees` holds for either.
* Children of a skipped root are to hang in the tree (`collector/collector.go:233`), but their parent
  has a row only if it is the largest claude pid of its project; with two claudes there the
  other one's children have no parent. `RowsFormTrees` exempts them.
* Events are to be routed to the root (`collector/ebpf_handler.go:34`), but `refreshTrees` takes the
  monitors of children for roots too (lines 15-23), so a child may get an event.
  `DeliveredAtMostOnce` counts whoever gets it.
* No waiting without a pending tool (`collector/claude_source.go:54`), but a tool result that
  was half written when read is never parsed (`collector/transcript.go:356`), and its call
  stays pending. `WaitingIsReal` excludes such sessions, and those of which claude says itself
  that they wait (`collector/claude_source.go:61-67`).
* With several sessions of one process, the first file's monitor is given the newest file's
  time (`collector/collector.go:363`). In the next scan without news its older cached state
  ties with the newest and wins as the first of equals: an outdated state returns.
  `NewsIsShown` speaks of scans with news. Likewise its `subagentScanOffset` is applied
  to whichever file is the newest (line 391) and may skip subagents of the other.
* A panel whose filter was clicked last may load for ever: `toggleOnlyUser` is given the click's
  event instead of an agent and asks for the events of `undefined`, whose answer is for nobody.
  `LoadingEnds` excepts it.
* A machine that was suspended, or a process that finds no room among the 4096 of `last_active`
  (which is never emptied), is judged by less: `ShownHasReason` excepts both.

Seen while modelling, and not checked by a run: `pidOwner` is never pruned, so an event
of a reused pid goes to its old owner until the next refresh; `agent_pids` is only emptied for
pids with a monitor, so short-lived children that `refreshTrees` added stay; an agent without
events gets JSON null, of which the template asks the length, so that its card shows nothing; the
panel's filter changes no answer, as `file_kind` is always that of a user's file; the `prevState`
of a process is only ever `needs_input`, so a second wait is not recorded; the README documents a
`/api/agents/:pid/timeline` that the server does not have.

## 5 Proofs

Checked by TLAPS, for all values of the constants that satisfy the assumption named in
each module. Each proof module first shows an inductive invariant of the component, one
lemma per action, and then draws the properties from it. Where an invariant of a run is
not inductive, what it lacks is named below: that is what the proof teaches about the code.

**`Induction`** - the installed provers cannot use theorems that take an operator as a
parameter, so the library's induction is closed to them. This module proves what is needed without:
a nonempty set of naturals has a least member (`Least`, from a well-founded order), hence a
set that holds 0 and successors holds all (`AllNat`, `Upto`); a finite set has a member with
the greatest key (`GreatestKey`); an iterated function exists and is determined (`Iteration`), which
climbing a process tree or folding over lines needs; and `AmongIs`, what
a selection from a sequence holds.

**`AlertsProofs`** assumes `AlertsAssumption` (positive cooldown, waiting time and
bounds; observations are observations). The first step is that `TypeOK /\ VisitInv`
is inductive: `VisitInv` says that a visit in progress belongs to a real agent, happens in
the proc phase, has a clock reading not in the future and never finds its agent both
waiting and stuck. `TypeOK` alone is not inductive, as `Check` indexes maps with
`visit.pid`. On top of it:

* `Spacing` and `KeepsUp` share `CooldownInv`: the cooldown map dates every row of this run and
  the alert on its way out, so a new row keeps its distance from all rows of its key; rows
  of earlier runs have smaller `run`s; and a swallowed record follows a sent one by less
  than a cooldown;
* `Exclusive` rests on `ExclusiveInv`: a stuck row and a running wait timer exist together
  only while a visit is under way that is about to heal the row, and a visit that
  will raise `stuck` has already stopped the timer and healed the wait row; the order
  of the rules is what the proof uses. After a restart the timer starts anew,
  so a wait row that survived is healed before a stuck one is raised;
* `WaitIsEarned` rests on `TimerInv`: a running timer is not older than the last interruption, unless
  the agent is `carried`;
* `NoOrphans` needs none beyond the types: what the sweep leaves stays true while the
  collector is idle, and no alert is raised then; a restarted program is not idle before
  its first sweep.

**`TreeProofs`** (`TreeAssumption`: finitely many pids above that of init; a synthetic pid of a
session is no pid) proves `Types`, `RowsForm` and `MissedOnce`. The first part is about any
acyclic parent map: climbing from a process reaches the top in at most as many steps as there are
processes (`Climb`, `Path`), each process on the way once (`Once`, `Few`), so `Depth` is a number;
and the descendants of a process are closed under parents up to it (`ParentBelow`, `BelowBelow`).
`TreeInv` then says: the parents of the running processes and those of the snapshot form no cycle,
although a process whose parent exits moves below init; what is folded is a private executable
below a root that has been handled, which is skipped or has a row (`FoldedBelow`); a session is
attributed to a claude (`Attributed`); and every row of this scan is either a session's, or that of
a descendant of a matched root, with the depth the snapshot gives it and the parent the snapshot
gives it or its root was folded into, and hangs below a skipped root or a row of the same root,
unless it was adopted (`RowsInv`). `RowsFormTrees` alone is not inductive: a later root of the same
scan may take rows from an earlier one's tree, and only the facts that it takes whole subtrees
(`RewrittenTogether`) and that it folds no root whose rows it leaves alone (`FoldedTogether`) keep
parent and root agreed. Which processes are private executables, and where they run, is not
restricted. `MissedOnce` needs `Shrinks`: only
the end of a scan takes rows away, and only those older than the retention, which the interval
does not reach.

**`EbpfProofs`** (`EbpfAssumption`: pids above that of init, finitely many). `EbpfTypes` says beside
the types that whatever is monitored is watched, or was `refused` by the full map. `AtMostOnce` rests on
`EventInv`: an event is at one pid only, in the map or polled, or both exactly while `PollRead`
has taken it and `PollDelete` has not; and an event that was delivered is at none any more.
Counting the receipts needs that the set of entries of one event has at most one element.

**`TranscriptProofs`** (`TranscriptAssumption`: thresholds in their order; `NoneAssumption`: no
call is called *none*) proves `Types`, `ReadAsWhole`, `Waits` and `StaysShown`. `TranscriptInv`
relates a reader to what one reading of the file *as it is now* would have found after the lines
passed: if no half line was lost, the cached pending calls are equal, and without error lines the
rest is the `Same` (but for the tool called last, which decides nothing after a system line). The
relation must speak of every prefix, not only of what is shown, since the next chunk starts from
it. `ChunkParsed` goes through a chunk line by line (`Chunked`): as long as it has no content it
inherits, after its first line with content it knows as much as the whole; `KeptIsWhole` joins the
cached case. `FileInv` (lines in the order of their times, a call has an id of its own) gives
`OlderParsed`: time passing changes ages only. `Waits` then needs that a pending call was called
in the file and its result is not in it (`PendingIsOpen`), and that no status but *waiting* of
claude's own becomes a waiting state.

**`SessionsProofs`** (`SessionsAssumption`: delays are positive, finitely many pids) proves
`Types`, `NewestShown`, `Vanishes`, `Appear` and `Hang`. `SessionsInv`: no line is later than its
file, whatever a monitor has read or remembers is not later than the last scan (`ScannedInv`), and
a monitor that was used for its own file only has shown every subagent up to where it stands, or
the call was cut off (`FoundInv`). The second makes news win: a line written since is newer than
every cached time, also than one lent by another file; the third is exactly what the exception of
`SubagentsAppear` asks. `MergedIs` is that the youngest of the readings, and the first among
equals, exists and is unique. `SubagentsHang` says that a subagent's row is at least as old as its
parent's, which with the types is inductive: fresh rows have age 0, all others grow by the same
delay, and a parent that is pruned is older than the retention, so its subagents are too
(`ScanHangs`).

**`SourceProofs`** is about the two sources that tell a state from outside, or from a log.

* `Monitor` (`MonitorAssumption`: the order of the thresholds that the defaults have):
  `MonitorTypes`, `HasReason`. `MonitorInv` adds to `TypeOK`, which relates the ages of a monitor
  to the true age of an edit, that an edit still in `beh_map` happened after the last poll;
  without it a poll could make an old edit look new. `HasReason` then follows step by step from
  the derivation of each state.
* `Copilot` (`CopilotAssumption`: finitely many sessions, calls and requests have different ids):
  `CopilotTypes`, `NotMadeUp`, `Exact`, `OwnSession`. What the tail shows after the next event
  does not follow from what it shows now, as its start moves. `ReadInv` therefore speaks of the
  readings from *every* position of the log: each finds nothing that is not so or was left by a
  process that ended (`Fits`), and each that begins before the last moment of rest finds
  everything (`Whole`). Both are kept by every event (`WriteKeeps`), because a reading goes on by
  one event (`ReadNext`) from wherever it began; the size of the tail no longer matters.
  `OwnSession` rests on `OrderInv` (the files are linearly ordered by their last write) and
  `KilledInv`: a newer session that neither runs nor was shut down was killed after the older
  one's last write.

**`BrowserProofs`** is about the two components a browser talks to.

* `Hub` (`HubAssumption`: the collector is not a client, and `Nobody` is neither): `HubTypes`,
  `Removed`, `Outlives`, `RefinesFeed`. `HubInv` is `TypeOK` with, for every connection, the
  relation `Connection` between its registration, its state, its read loop and its handler, and
  `StoreOutlivesCollector`. `RemovedAreClosed` is not inductive: one needs that an open connection
  outside the hub has a read loop that is about to close it, and that only one of `Push` and the
  read loop found the client registered. `RefinesFeed` shows that every step of `Hub` is one of
  `Feed` or a stutter, with one lemma for the clients' steps, one for those of whoever pushes and
  one for the scan's; it uses `HubInv`, since a client that is removed must have been subscribed,
  and one that is written to still is.
* `Timeline` (`TimelineAssumption`: no agent has the pid 0, which stands for a closed panel; an
  error, JSON null and a missing answer are no lists): `TimelineTypes`, `ShowsOpen`, `Current`.
  `PanelInv`: an answer under way holds only events of the agent that was asked for, and while an
  agent is open the panel holds only its events; the page's comparison of pids is what makes it
  inductive, in whatever order answers come. `RecordInv`: what the process's monitor compares with
  is what it told last, and the newest row of a process and kind says it, but for what
  could not be inserted (`missed`); it survives pruning,
  which takes the oldest rows, and the monitor of a session, which records states only.

Only model-checked: liveness (`ExitedAgentsHeal`, `GoneProcessesLeave`, `NothingPilesUp`,
`PromptNoticed`, `HangNoticed`, `ServesFeed`, `BrokenLeave`, `LoadingEnds`). It rests on fairness,
hence on ENABLED, of which the prover knows nothing.

## 6 What is not modelled

* codex sessions; which `sessions/<pid>.json` claude writes for a session; files that shrink; the
  parsing of a subagent's call and `parseSubagents` of copilot; `c.txs`, which lends a claude
  process without a session the newest reading of its tool.
* in `monitor.go`: which paths are internal or transient, which addresses are an LLM's, the
  probing of the terminal; these are inputs of `Monitor`.
* SQL, migrations, the content of rows; texts and their matching.
* the notifier's channels (webhook, desktop, log), the other read-only endpoints, static files.
* of the web interface: the tree, filters, search and the order of fetched and pushed snapshots.
* configuration, which is read once (its values are the constants of the modules), and packaging.
  `src/backend/ebpf/agent_mon.c` is not built.
* a restart of agent-scope in modules other than `Alerts`: the agents table survives too, and its
  rows are pruned by their age like those that one missed scan leaves, which `Tree` has.

## 7 Plan

Done: several sessions and subagents, a restart, an abstract specification of the hub with its
refinement, state inference, the timeline, and proofs of every property that is
not liveness. Left:

1. A second instance of `Tree`: a claude whose shell, with the tool's name in its command line, starts
   another one, and an excluded process, instead of the private executable and its child.
2. Codex sessions: no two-hour rule, the state of a session that ended; `c.txs`.
3. The page's tree: snapshots that are pushed against those that are fetched on start.
4. An abstract alerts table (per key: absent, active) that `Alerts` implements, and the proof that
   it does.
