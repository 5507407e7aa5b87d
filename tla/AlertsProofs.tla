---------------------------- MODULE AlertsProofs ----------------------------
(***************************************************************************)
(* Proofs about Alerts, for every set of agents and every setting of the   *)
(* cooldown, the waiting time and the retention.                           *)
(*                                                                         *)
(* TypeOK and VisitInv (where a detectAnomalies call can stand) are        *)
(* inductive together; the other invariants are proved on top of them.     *)
(***************************************************************************)
EXTENDS Alerts, TLAPS

\* A visit is in progress only in the proc phase, it is a real agent's, and
\* its clock reading is not in the future; it never finds the agent both
\* waiting and stuck.
VisitInv ==
  /\ visit.step # 0 =>
       /\ phase = "proc"
       /\ visit.pid \in Agents
       /\ visit.at \in 1..now
       /\ ~("wait_unhandled" \in visit.hits /\ "stuck" \in visit.hits)
  /\ phase = "idle" => outbox = {}

USE DEF Never, Times

-----------------------------------------------------------------------------
\* What the helpers return.

\* Healing and the two sweeps only take rows away.
LEMMA HealType ==
  ASSUME alerts \subseteq Alert, NEW p \in Agents, NEW k \in Kinds
  PROVE  DeleteAlertsKind(p, k) \subseteq alerts
BY DEF DeleteAlertsKind

LEMMA SweepType ==
  ASSUME NEW rows, NEW active, NEW before
  PROVE  /\ DeleteOrphanStateAlerts(rows, active) \subseteq rows
         /\ PruneAlerts(rows, before) \subseteq rows
BY DEF DeleteOrphanStateAlerts, PruneAlerts

\* No observation is both waiting and stuck.
LEMMA HitsType ==
  ASSUME NEW o
  PROVE  /\ Hits(o) \subseteq Kinds
         /\ ~("wait_unhandled" \in Hits(o) /\ "stuck" \in Hits(o))
BY DEF Hits, Stuck, Kinds, StateKinds, AuditKinds

\* The rules come in a fixed order.
LEMMA CheckOrderType ==
  /\ \A i \in 1..5 : CheckOrder[i] \in Kinds
  /\ \A i \in 1..5 : /\ CheckOrder[i] = "wait_unhandled" <=> i = 1
                     /\ CheckOrder[i] = "stuck" <=> i = 5
BY DEF CheckOrder, Kinds, StateKinds, AuditKinds

\* An alert that fireAlert writes has the type of one.
LEMMA FireType ==
  ASSUME TypeOK, NEW p \in Agents, NEW k \in Kinds, FireAlert(p, k)
  PROVE  /\ alerts' \subseteq Alert
         /\ outbox' \subseteq Alert
         /\ lastAlert' \in [Agents \X Kinds -> Nat]
<1>1. [pid |-> p, kind |-> k, ts |-> now, run |-> run] \in Alert
  BY AlertsAssumption DEF TypeOK, Alert
<1>2. now \in Nat
  BY AlertsAssumption DEF TypeOK
<1>3. QED
  BY <1>1, <1>2 DEF FireAlert, TypeOK

\* A scan that does not judge an agent only touches the history of its timer.
LEMMA NotJudgedType ==
  ASSUME TypeOK, NEW p \in Agents, NotJudged(p)
  PROVE  /\ needsSince' = needsSince
         /\ interrupted' \in [Agents -> Nat]
         /\ carried' \subseteq {q \in Agents : needsSince[q] # Never}
         /\ needsSince[p] # Never => p \in carried'
         /\ carried \subseteq carried'
         /\ \A q \in Agents : interrupted'[q] = IF q = p THEN now ELSE interrupted[q]
BY AlertsAssumption DEF NotJudged, TypeOK

-----------------------------------------------------------------------------
(***************************************************************************)
(* Types.                                                                  *)
(***************************************************************************)

\* The variables that a step leaves alone keep their types.
LEMMA InitType == Init => TypeOK /\ VisitInv
BY AlertsAssumption
   DEF Init, TypeOK, VisitInv, NoVisit, NoRow, NoAlert, AgentRow, Kinds, Alert

LEMMA StepType ==
  ASSUME TypeOK, VisitInv, [Next]_vars
  PROVE  TypeOK' /\ VisitInv'
<1> USE AlertsAssumption DEF vars, world, cursor, table, timer
<1>1. CASE Tick
  BY <1>1 DEF Tick, TypeOK, VisitInv
<1>2. ASSUME NEW p \in Agents, Exit(p) \/ Spawn(p)
      PROVE  TypeOK' /\ VisitInv'
  BY <1>2 DEF Exit, Spawn, TypeOK, VisitInv
<1>3. CASE ScanTranscripts
  BY <1>3 DEF ScanTranscripts, TypeOK, VisitInv, NoRow, AgentRow
<1>4. CASE BuildTree
  BY <1>4 DEF BuildTree, TypeOK, VisitInv
<1>5. ASSUME NEW p \in Agents, SkipRoot(p)
      PROVE  TypeOK' /\ VisitInv'
  BY <1>5, NotJudgedType DEF SkipRoot, Handled, TypeOK, VisitInv
<1>6. ASSUME NEW p \in Agents, NEW needs \in BOOLEAN, VisitChild(p, needs)
      PROVE  TypeOK' /\ VisitInv'
  BY <1>6, NotJudgedType DEF VisitChild, UpsertProc, Handled, TypeOK, VisitInv, AgentRow
<1>7. ASSUME NEW p \in Agents, NEW o \in Observations, VisitRoot(p, o)
      PROVE  TypeOK' /\ VisitInv'
  <2>1. o.needsInput \in BOOLEAN
    BY DEF Observation
  <2>2. written' \in [Agents -> AgentRow]
    BY <1>7, <2>1 DEF VisitRoot, UpsertProc, TypeOK, AgentRow
  <2>3. /\ visit' \in [pid : Agents \cup {NoAgent}, at : Nat, hits : SUBSET Kinds, step : 0..5]
        /\ visit'.step = 1 /\ visit'.pid = p /\ visit'.at = now
        /\ visit'.hits = Hits(o)
    BY <1>7, HitsType DEF VisitRoot, Handled, Idle, TypeOK
  <2>4. VisitInv'
    BY <1>7, <2>3, HitsType DEF VisitRoot, Handled, TypeOK, VisitInv
  <2>5. QED
    BY <1>7, <2>2, <2>3, <2>4 DEF VisitRoot, Handled, TypeOK
<1>8. CASE Check
  <2> DEFINE p == visit.pid
             k == CheckOrder[visit.step]
  <2>1. /\ p \in Agents /\ k \in Kinds /\ visit.at \in 1..now /\ phase = "proc"
    BY <1>8, CheckOrderType DEF Check, VisitInv, TypeOK
  <2>2. /\ alerts' \subseteq Alert /\ outbox' \subseteq Alert
        /\ lastAlert' \in [Agents \X Kinds -> Nat]
    <3>1. CASE FireAlert(p, k)
      BY <3>1, <2>1, FireType
    <3>2. CASE Heal(p, k)
      BY <3>2, <2>1, HealType DEF Heal, TypeOK
    <3>3. CASE UNCHANGED <<alerts, lastAlert, outbox>>
      BY <3>3 DEF TypeOK
    <3>4. QED
      BY <1>8, <3>1, <3>2, <3>3 DEF Check, CheckWait, CheckKind
  <2>3. /\ needsSince' \in [Agents -> Nat] /\ interrupted' \in [Agents -> Nat]
        /\ carried' \subseteq {q \in Agents : needsSince'[q] # Never}
    <3>1. CASE CheckKind(p, k)
      BY <3>1 DEF CheckKind, TypeOK
    <3>2. CASE CheckWait(p)
      BY <3>2, <2>1 DEF CheckWait, TypeOK
    <3>3. QED
      BY <1>8, <3>1, <3>2 DEF Check
  <2>4. /\ visit' \in [pid : Agents \cup {NoAgent}, at : Nat, hits : SUBSET Kinds, step : 0..5]
        /\ \/ visit'.step = 0
           \/ visit'.pid = p /\ visit'.at = visit.at /\ visit'.hits = visit.hits
    BY <1>8 DEF Check, NoVisit, TypeOK
  <2>5. UNCHANGED <<world, cursor, lastSent>>
    BY <1>8 DEF Check
  <2>6. VisitInv'
    BY <1>8, <2>1, <2>4, <2>5 DEF Check, VisitInv
  <2>7. QED
    BY <2>2, <2>3, <2>4, <2>5, <2>6 DEF TypeOK
<1>9. ASSUME NEW a \in outbox, Send(a)
      PROVE  TypeOK' /\ VisitInv'
  BY <1>9 DEF Send, TypeOK, VisitInv, Alert
<1>10. CASE EndProcs
  BY <1>10 DEF EndProcs, Idle, TypeOK, VisitInv
<1>11. ASSUME NEW p \in Agents, NEW isError \in BOOLEAN, NEW needs \in BOOLEAN,
              VisitTranscript(p, isError, needs)
       PROVE  TypeOK' /\ VisitInv'
  <2>1. "llm_error" \in Kinds
    BY DEF Kinds, StateKinds
  <2>2. /\ alerts' \subseteq Alert /\ outbox' \subseteq Alert
        /\ lastAlert' \in [Agents \X Kinds -> Nat]
    <3>1. CASE FireAlert(p, "llm_error")
      BY <3>1, <2>1, FireType
    <3>2. CASE Heal(p, "llm_error")
      BY <3>2, <2>1, HealType DEF Heal, TypeOK
    <3>3. QED
      BY <1>11, <3>1, <3>2 DEF VisitTranscript
  <2>3. QED
    BY <1>11, <2>2 DEF VisitTranscript, Idle, TypeOK, VisitInv, AgentRow
<1>12. CASE EndScan
  <2>1. alerts' \subseteq alerts
    BY <1>12, SweepType DEF EndScan, Swept, Pruned
  <2>2. /\ needsSince' \in [Agents -> Nat] /\ interrupted' \in [Agents -> Nat]
        /\ carried' \subseteq {q \in Agents : needsSince'[q] # Never}
    BY <1>12 DEF EndScan, DropMonitors, TypeOK
  <2>3. QED
    BY <1>12, <2>1, <2>2 DEF EndScan, Idle, TypeOK, VisitInv
<1>13. CASE UNCHANGED vars
  BY <1>13 DEF TypeOK, VisitInv
<1>14. CASE Restart
  BY <1>14 DEF Restart, TypeOK, VisitInv, NoVisit, NoRow, NoAlert, AgentRow
<1>15. ASSUME NEW p \in Agents, NEW needs \in BOOLEAN, VisitGone(p, needs)
       PROVE  TypeOK' /\ VisitInv'
  BY <1>15, NotJudgedType DEF VisitGone, UpsertProc, Handled, TypeOK, VisitInv, AgentRow
<1>16. QED
  BY <1>1, <1>2, <1>3, <1>4, <1>5, <1>6, <1>7, <1>8, <1>9, <1>10, <1>11,
     <1>12, <1>13, <1>14, <1>15 DEF Next, ScanStep

\* Every reachable state has its types, and a detectAnomalies call stands
\* where VisitInv says.
THEOREM TypeCorrect == Spec => [](TypeOK /\ VisitInv)
<1>1. Init => TypeOK /\ VisitInv
  BY InitType
<1>2. (TypeOK /\ VisitInv) /\ [Next]_vars => (TypeOK /\ VisitInv)'
  BY StepType
<1>3. QED
  BY <1>1, <1>2, PTL DEF Spec

-----------------------------------------------------------------------------
(***************************************************************************)
(* The two cooldowns.  lastAlert dates the latest alert of every agent and *)
(* kind, also when its row is gone, so a new row keeps its distance from   *)
(* all older ones of the same run; the alert in the outbox is the latest   *)
(* of its key.                                                             *)
(***************************************************************************)

\* Which steps touch the alerts, the outbox and the two cooldown maps.
Raise == \E p \in Agents, k \in Kinds : FireAlert(p, k) /\ outbox = {}
                                        /\ UNCHANGED <<run, now, lastSent>>

Withdraw == alerts' \subseteq alerts /\ UNCHANGED <<lastAlert, lastSent, outbox, run, now>>

Wait == UNCHANGED <<table, run>> /\ now' >= now

LEMMA TableStep ==
  ASSUME TypeOK, VisitInv, [Next]_vars
  PROVE  \/ Raise
         \/ Withdraw
         \/ Wait
         \/ \E a \in outbox : Send(a)
         \/ Restart
<1> USE AlertsAssumption DEF vars, world, cursor, table, timer
<1>0. now \in Nat
  BY DEF TypeOK
<1>1. CASE Check
  <2> DEFINE p == visit.pid
             k == CheckOrder[visit.step]
  <2>1. p \in Agents /\ k \in Kinds
    BY <1>1, CheckOrderType DEF Check, VisitInv
  <2>2. \/ FireAlert(p, k)
        \/ Heal(p, k)
        \/ UNCHANGED <<alerts, lastAlert, outbox>>
    BY <1>1 DEF Check, CheckWait, CheckKind
  <2>3. outbox = {} /\ UNCHANGED <<run, now, lastSent>>
    BY <1>1 DEF Check
  <2>4. CASE FireAlert(p, k)
    BY <2>1, <2>3, <2>4 DEF Raise
  <2>5. CASE Heal(p, k)
    BY <2>1, <2>3, <2>5, HealType DEF Heal, Withdraw, TypeOK
  <2>6. CASE UNCHANGED <<alerts, lastAlert, outbox>>
    BY <1>0, <2>3, <2>6 DEF Wait
  <2>7. QED
    BY <2>2, <2>4, <2>5, <2>6
<1>2. ASSUME NEW p \in Agents, NEW isError \in BOOLEAN, NEW needs \in BOOLEAN,
             VisitTranscript(p, isError, needs)
      PROVE  Raise \/ Withdraw
  <2>1. "llm_error" \in Kinds
    BY DEF Kinds, StateKinds
  <2>2. outbox = {} /\ UNCHANGED <<run, now, lastSent>>
    BY <1>2 DEF VisitTranscript, Idle
  <2>3. CASE FireAlert(p, "llm_error")
    BY <2>1, <2>2, <2>3 DEF Raise
  <2>4. CASE Heal(p, "llm_error")
    BY <2>1, <2>2, <2>4, HealType DEF Heal, Withdraw, TypeOK
  <2>5. QED
    BY <1>2, <2>3, <2>4 DEF VisitTranscript
<1>3. CASE EndScan
  BY <1>3, SweepType DEF EndScan, Swept, Pruned, Withdraw
<1>4. CASE Tick
  BY <1>0, <1>4 DEF Tick, Wait
<1>5. ASSUME NEW p \in Agents, Exit(p) \/ Spawn(p)
      PROVE  Wait
  BY <1>0, <1>5 DEF Exit, Spawn, Wait
<1>6. CASE ScanTranscripts \/ BuildTree \/ EndProcs \/ UNCHANGED vars
  BY <1>0, <1>6 DEF ScanTranscripts, BuildTree, EndProcs, Wait
<1>7. ASSUME NEW p \in Agents, SkipRoot(p)
      PROVE  Wait
  BY <1>0, <1>7 DEF SkipRoot, Wait
<1>8. ASSUME NEW p \in Agents, NEW needs \in BOOLEAN, VisitChild(p, needs)
      PROVE  Wait
  BY <1>0, <1>8 DEF VisitChild, Wait
<1>9. ASSUME NEW p \in Agents, NEW o \in Observations, VisitRoot(p, o)
      PROVE  Wait
  BY <1>0, <1>9 DEF VisitRoot, Wait
<1>10. ASSUME NEW p \in Agents, NEW needs \in BOOLEAN, VisitGone(p, needs)
       PROVE  Wait
  BY <1>0, <1>10 DEF VisitGone, Wait
<1>11. QED
  BY <1>1, <1>2, <1>3, <1>4, <1>5, <1>6, <1>7, <1>8, <1>9, <1>10 DEF Next, ScanStep

\* lastAlert dates every row of this run and every alert on its way out, and is not in
\* the future; neither is lastSent.
LastAlertInv ==
  /\ \A key \in Agents \X Kinds : lastAlert[key] <= now /\ lastSent[key] <= now
  /\ \A r \in alerts : /\ r.ts # Never /\ r.run <= run
                       /\ r.run = run =>
                            /\ lastAlert[<<r.pid, r.kind>>] # Never
                            /\ r.ts <= lastAlert[<<r.pid, r.kind>>]
  /\ \A a \in outbox : a.ts = lastAlert[<<a.pid, a.kind>>]
  /\ \A a, b \in outbox : a = b

CooldownInv == LastAlertInv /\ CooldownSpacing /\ NotifierKeepsUp

LEMMA CooldownStep ==
  ASSUME TypeOK, VisitInv, TypeOK', CooldownInv, [Next]_vars
  PROVE  CooldownInv'
<1> USE AlertsAssumption DEF CooldownInv
<1>0. now \in 1..MaxTime /\ now' \in 1..MaxTime /\ run \in Nat
  BY DEF TypeOK
<1>1. ASSUME NEW p \in Agents, NEW k \in Kinds, FireAlert(p, k), outbox = {},
             UNCHANGED <<run, now, lastSent>>
      PROVE  CooldownInv'
  <2>1. CASE Cooling(lastAlert[<<p, k>>], now)
    BY <1>1, <2>1 DEF FireAlert, LastAlertInv, CooldownSpacing, NotifierKeepsUp
  <2>2. CASE ~Cooling(lastAlert[<<p, k>>], now)
    <3> DEFINE new == [pid |-> p, kind |-> k, ts |-> now, run |-> run]
    <3>1. /\ alerts' = alerts \cup {new}
          /\ outbox' = {new}
          /\ lastAlert' = [lastAlert EXCEPT ![<<p, k>>] = now]
      BY <1>1, <2>2 DEF FireAlert
    <3>2. \A key \in Agents \X Kinds :
            lastAlert'[key] = IF key = <<p, k>> THEN now ELSE lastAlert[key]
      BY <3>1 DEF TypeOK
    <3>3. LastAlertInv'
      BY <1>0, <1>1, <3>1, <3>2 DEF LastAlertInv, TypeOK, Alert
    <3>4. \A r \in alerts :
            r.pid = p /\ r.kind = k /\ r.run = run => now - r.ts >= Cooldown
      BY <1>0, <2>2 DEF LastAlertInv, Cooling, TypeOK, Alert
    <3>5. CooldownSpacing'
      <4> SUFFICES ASSUME NEW r \in alerts', NEW s \in alerts',
                          r.pid = s.pid, r.kind = s.kind, r.run = s.run, r.ts < s.ts
                   PROVE  s.ts - r.ts >= Cooldown
        BY DEF CooldownSpacing
      <4>1. CASE r \in alerts /\ s \in alerts
        BY <4>1 DEF CooldownSpacing
      <4>2. CASE r = new /\ s \in alerts
        <5>1. <<s.pid, s.kind>> \in Agents \X Kinds /\ s.ts \in Nat
          BY <4>2 DEF TypeOK, Alert
        <5>2. s.ts <= now
          BY <1>0, <4>2, <5>1 DEF LastAlertInv, TypeOK
        <5>3. QED
          BY <1>0, <4>2, <5>1, <5>2
      <4>3. CASE r \in alerts /\ s = new
        BY <3>4, <4>3
      <4>4. CASE r = new /\ s = new
        BY <1>0, <4>4
      <4>5. QED
        BY <3>1, <4>1, <4>2, <4>3, <4>4
    <3>6. NotifierKeepsUp'
      BY <1>1, <3>1, <3>2 DEF NotifierKeepsUp
    <3>7. QED
      BY <3>3, <3>5, <3>6
  <2>3. QED
    BY <2>1, <2>2
<1>2. CASE Withdraw
  BY <1>2 DEF Withdraw, LastAlertInv, CooldownSpacing, NotifierKeepsUp
<1>3. CASE Wait
  <2>1. LastAlertInv'
    BY <1>0, <1>3 DEF Wait, table, LastAlertInv, TypeOK
  <2>2. QED
    BY <1>3, <2>1 DEF Wait, table, CooldownSpacing, NotifierKeepsUp
<1>4. ASSUME NEW a \in outbox, Send(a)
      PROVE  CooldownInv'
  <2> DEFINE key == <<a.pid, a.kind>>
  <2>1. /\ a.pid \in Agents /\ a.kind \in Kinds /\ key \in Agents \X Kinds
        /\ lastAlert[key] \in Nat /\ lastSent[key] \in Nat
        /\ lastAlert[key] <= now
    BY DEF TypeOK, Alert, LastAlertInv
  <2>2. /\ UNCHANGED <<run, now, alerts, lastAlert>>
        /\ outbox' = {}
        /\ lastSent' = IF Cooling(lastSent[key], now) THEN lastSent
                       ELSE [lastSent EXCEPT ![key] = now]
    BY <1>4 DEF Send, LastAlertInv, world
  <2>3. \A other \in Agents \X Kinds :
          lastSent'[other] = IF other = key /\ ~Cooling(lastSent[key], now)
                             THEN now ELSE lastSent[other]
    BY <2>2 DEF TypeOK
  <2>4. LastAlertInv'
    BY <1>0, <2>2, <2>3 DEF LastAlertInv, TypeOK
  <2>5. lastSent'[key] # Never /\ lastAlert[key] - lastSent'[key] < Cooldown
    BY <1>0, <2>1, <2>3 DEF Cooling
  <2>6. NotifierKeepsUp'
    <3> SUFFICES ASSUME NEW p \in Agents, NEW k \in Kinds, lastAlert[<<p, k>>] # Never
                 PROVE  /\ lastSent'[<<p, k>>] # Never
                        /\ lastAlert[<<p, k>>] - lastSent'[<<p, k>>] < Cooldown
      BY <2>2 DEF NotifierKeepsUp
    <3>1. CASE <<p, k>> = key
      BY <3>1, <2>5
    <3>2. CASE <<p, k>> # key
      <4>1. \A b \in outbox : b.pid # p \/ b.kind # k
        BY <3>2 DEF LastAlertInv
      <4>2. lastSent'[<<p, k>>] = lastSent[<<p, k>>]
        BY <2>3, <3>2
      <4>3. QED
        BY <4>1, <4>2 DEF NotifierKeepsUp
    <3>3. QED
      BY <3>1, <3>2
  <2>7. QED
    BY <2>2, <2>4, <2>6 DEF CooldownSpacing
<1>5. CASE Restart
  <2>1. /\ alerts' = alerts /\ outbox' = {} /\ run' = run + 1 /\ now' = now
        /\ \A key \in Agents \X Kinds : lastAlert'[key] = Never /\ lastSent'[key] = Never
    BY <1>5 DEF Restart, NoAlert
  <2>2. LastAlertInv'
    <3>1. \A r \in alerts : r.run \in Nat
      BY DEF TypeOK, Alert
    <3>2. \A r \in alerts : r.ts # Never /\ r.run <= run
      BY DEF LastAlertInv
    <3>3. \A r \in alerts : r.run <= run' /\ r.run # run'
      BY <1>0, <2>1, <3>1, <3>2
    <3>4. QED
      BY <1>0, <2>1, <3>2, <3>3 DEF LastAlertInv
  <2>3. CooldownSpacing' /\ NotifierKeepsUp'
    BY <2>1 DEF CooldownSpacing, NotifierKeepsUp
  <2>4. QED
    BY <2>2, <2>3
<1>6. QED
  BY <1>1, <1>2, <1>3, <1>4, <1>5, TableStep DEF Raise

\* One record per cooldown window, whatever the clock and the processes do.
THEOREM Spacing == Spec => []CooldownSpacing
<1>1. Init => CooldownInv
  BY AlertsAssumption
     DEF Init, NoAlert, CooldownInv, LastAlertInv, CooldownSpacing, NotifierKeepsUp
<1>2. TypeOK /\ VisitInv /\ TypeOK' /\ CooldownInv /\ [Next]_vars => CooldownInv'
  BY CooldownStep
<1>3. CooldownInv => CooldownSpacing
  BY DEF CooldownInv
<1>4. QED
  BY <1>1, <1>2, <1>3, TypeCorrect, PTL DEF Spec

\* The notifier, with a cooldown of its own, never falls a window behind.
THEOREM KeepsUp == Spec => []NotifierKeepsUp
<1>1. Init => CooldownInv
  BY AlertsAssumption
     DEF Init, NoAlert, CooldownInv, LastAlertInv, CooldownSpacing, NotifierKeepsUp
<1>2. TypeOK /\ VisitInv /\ TypeOK' /\ CooldownInv /\ [Next]_vars => CooldownInv'
  BY CooldownStep
<1>3. CooldownInv => NotifierKeepsUp
  BY DEF CooldownInv
<1>4. QED
  BY <1>1, <1>2, <1>3, TypeCorrect, PTL DEF Spec

-----------------------------------------------------------------------------
(***************************************************************************)
(* Waiting and stuck exclude each other.  A stuck row and a running timer  *)
(* of one agent coexist only between the waiting rule and the stuck rule   *)
(* of a visit that is about to heal the stuck row; a visit that is about   *)
(* to raise stuck has already stopped the timer and healed the wait row.   *)
(***************************************************************************)

ExclusiveInv ==
  /\ WaitStuckExclusive
  /\ \A p \in Agents :
       Row(p, "stuck") /\ needsSince[p] # Never =>
         visit.pid = p /\ visit.step \in 2..5 /\ "stuck" \notin visit.hits
  /\ visit.step \in 2..5 /\ "stuck" \in visit.hits =>
       ~Row(visit.pid, "wait_unhandled") /\ needsSince[visit.pid] = Never

\* Firing one kind changes the rows of no other agent or kind.
LEMMA FireRows ==
  ASSUME NEW p \in Agents, NEW k \in Kinds, FireAlert(p, k),
         NEW q \in Agents, NEW j \in Kinds, Row(q, j)'
  PROVE  Row(q, j) \/ (q = p /\ j = k)
BY DEF FireAlert, Row

LEMMA ExclusiveStep ==
  ASSUME TypeOK, VisitInv, VisitInv', ExclusiveInv, [Next]_vars
  PROVE  ExclusiveInv'
<1> USE AlertsAssumption DEF vars, world, cursor, table, timer
<1>0. "wait_unhandled" \in Kinds /\ "stuck" \in Kinds /\ "llm_error" \in Kinds
  BY DEF Kinds, StateKinds
<1>1. CASE Check
  <2>1. PICK p \in Agents, k \in Kinds :
             /\ p = visit.pid /\ k = CheckOrder[visit.step] /\ visit.step \in 1..5
             /\ k = "wait_unhandled" <=> visit.step = 1
             /\ k = "stuck" <=> visit.step = 5
    BY <1>1, CheckOrderType DEF Check, VisitInv
  <2>2. CASE visit.step = 1
    <3>1. /\ CheckWait(p)
          /\ visit'.pid = p /\ visit'.hits = visit.hits /\ visit'.step = 2
      BY <1>1, <2>1, <2>2 DEF Check, TypeOK
    <3>2. \A q \in Agents : Row(q, "stuck") => needsSince[q] = Never
      BY <2>2 DEF ExclusiveInv
    <3>3. CASE /\ "wait_unhandled" \in visit.hits /\ needsSince[p] = Never
               /\ needsSince' = [needsSince EXCEPT ![p] = visit.at]
               /\ alerts' = alerts
      <4>1. "stuck" \notin visit.hits
        BY <2>2, <3>3 DEF VisitInv
      <4>2. \A q \in Agents : q # p => needsSince'[q] = needsSince[q]
        BY <3>3 DEF TypeOK
      <4>3. QED
        BY <3>1, <3>2, <3>3, <4>1, <4>2 DEF ExclusiveInv, WaitStuckExclusive, Row
    <3>4. CASE /\ "wait_unhandled" \in visit.hits /\ needsSince[p] # Never
               /\ needsSince' = needsSince
               /\ FireAlert(p, "wait_unhandled") \/ alerts' = alerts
      <4>1. "stuck" \notin visit.hits /\ ~Row(p, "stuck")
        BY <2>1, <2>2, <3>2, <3>4 DEF VisitInv
      <4>2. \A q \in Agents, j \in Kinds :
              Row(q, j)' => Row(q, j) \/ (q = p /\ j = "wait_unhandled")
        <5>1. CASE FireAlert(p, "wait_unhandled")
          BY <1>0, <2>1, <5>1, FireRows
        <5>2. CASE alerts' = alerts
          BY <5>2 DEF Row
        <5>3. QED
          BY <3>4, <5>1, <5>2
      <4>3. WaitStuckExclusive'
        BY <1>0, <4>1, <4>2 DEF ExclusiveInv, WaitStuckExclusive
      <4>4. \A q \in Agents : Row(q, "stuck")' => needsSince'[q] = Never
        BY <1>0, <3>2, <3>4, <4>2
      <4>5. QED
        BY <3>1, <4>1, <4>3, <4>4 DEF ExclusiveInv
    <3>5. CASE /\ "wait_unhandled" \notin visit.hits
               /\ needsSince' = [needsSince EXCEPT ![p] = Never]
               /\ Heal(p, "wait_unhandled")
      <4>1. /\ ~Row(p, "wait_unhandled")'
            /\ \A q \in Agents, j \in Kinds : Row(q, j)' => Row(q, j)
        BY <3>5 DEF Heal, DeleteAlertsKind, Row
      <4>2. /\ needsSince'[p] = Never
            /\ \A q \in Agents : q # p => needsSince'[q] = needsSince[q]
        BY <2>1, <3>5 DEF TypeOK
      <4>3. \A q \in Agents : Row(q, "stuck")' => needsSince'[q] = Never
        BY <1>0, <3>2, <4>1, <4>2
      <4>4. QED
        BY <1>0, <3>1, <4>1, <4>2, <4>3 DEF ExclusiveInv, WaitStuckExclusive
    <3>6. QED
      BY <3>1, <3>3, <3>4, <3>5 DEF CheckWait
  <2>3. CASE visit.step \in 2..4
    <3>1. /\ needsSince' = needsSince
          /\ visit'.pid = p /\ visit'.hits = visit.hits /\ visit'.step \in 2..5
          /\ FireAlert(p, k) \/ Heal(p, k)
          /\ k # "wait_unhandled" /\ k # "stuck"
      BY <1>1, <2>1, <2>3 DEF Check, CheckKind, TypeOK
    <3>2. \A q \in Agents : \A j \in {"wait_unhandled", "stuck"} :
            Row(q, j)' => Row(q, j)
      <4>1. CASE FireAlert(p, k)
        BY <3>1, <4>1 DEF FireAlert, Row
      <4>2. CASE Heal(p, k)
        BY <4>2 DEF Heal, DeleteAlertsKind, Row
      <4>3. QED
        BY <3>1, <4>1, <4>2
    <3>3. QED
      BY <2>1, <2>3, <3>1, <3>2 DEF ExclusiveInv, WaitStuckExclusive
  <2>4. CASE visit.step = 5
    <3>1. /\ k = "stuck" /\ needsSince' = needsSince /\ visit'.step = 0
          /\ IF "stuck" \in visit.hits THEN FireAlert(p, "stuck") ELSE Heal(p, "stuck")
      BY <1>1, <2>1, <2>4 DEF Check, CheckKind, NoVisit
    <3>2. CASE "stuck" \in visit.hits
      <4>1. ~Row(p, "wait_unhandled") /\ needsSince[p] = Never
        BY <2>1, <2>4, <3>2 DEF ExclusiveInv
      <4>2. \A q \in Agents, j \in Kinds :
              Row(q, j)' => Row(q, j) \/ (q = p /\ j = "stuck")
        BY <2>1, <1>0, <3>1, <3>2, FireRows
      <4>3. WaitStuckExclusive'
        BY <1>0, <4>1, <4>2 DEF ExclusiveInv, WaitStuckExclusive
      <4>4. \A q \in Agents : Row(q, "stuck")' => needsSince'[q] = Never
        BY <1>0, <2>4, <3>1, <3>2, <4>1, <4>2 DEF ExclusiveInv
      <4>5. QED
        BY <3>1, <4>3, <4>4 DEF ExclusiveInv
    <3>3. CASE "stuck" \notin visit.hits
      <4>1. /\ ~Row(p, "stuck")'
            /\ \A q \in Agents, j \in Kinds : Row(q, j)' => Row(q, j)
        BY <3>1, <3>3 DEF Heal, DeleteAlertsKind, Row
      <4>2. \A q \in Agents : Row(q, "stuck")' => needsSince'[q] = Never
        BY <1>0, <2>1, <2>4, <3>1, <4>1 DEF ExclusiveInv
      <4>3. QED
        BY <1>0, <3>1, <4>1, <4>2 DEF ExclusiveInv, WaitStuckExclusive
    <3>4. QED
      BY <3>2, <3>3
  <2>5. QED
    BY <2>1, <2>2, <2>3, <2>4
<1>2. ASSUME NEW p \in Agents, NEW isError \in BOOLEAN, NEW needs \in BOOLEAN,
             VisitTranscript(p, isError, needs)
      PROVE  ExclusiveInv'
  <2>1. /\ UNCHANGED <<needsSince, visit>> /\ visit.step = 0
        /\ FireAlert(p, "llm_error") \/ Heal(p, "llm_error")
    BY <1>2 DEF VisitTranscript, Idle
  <2>2. \A q \in Agents : \A j \in {"wait_unhandled", "stuck"} :
          Row(q, j)' => Row(q, j)
    <3>1. CASE FireAlert(p, "llm_error")
      BY <3>1 DEF FireAlert, Row
    <3>2. CASE Heal(p, "llm_error")
      BY <3>2 DEF Heal, DeleteAlertsKind, Row
    <3>3. QED
      BY <2>1, <3>1, <3>2
  <2>3. QED
    BY <2>1, <2>2 DEF ExclusiveInv, WaitStuckExclusive
<1>3. CASE EndScan
  <2>1. /\ alerts' \subseteq alerts /\ visit' = visit /\ visit.step = 0
        /\ \A p \in Agents : needsSince'[p] \in {needsSince[p], Never}
    BY <1>3, SweepType DEF EndScan, DropMonitors, Swept, Pruned, Idle
  <2>2. QED
    BY <2>1 DEF ExclusiveInv, WaitStuckExclusive, Row
<1>4. ASSUME NEW p \in Agents, NEW o \in Observations, VisitRoot(p, o)
      PROVE  ExclusiveInv'
  <2>1. /\ UNCHANGED <<alerts, needsSince>>
        /\ visit.step = 0 /\ visit'.step \in {0, 1}
    BY <1>4 DEF VisitRoot, Handled, Idle
  <2>2. QED
    BY <2>1 DEF ExclusiveInv, WaitStuckExclusive, Row
<1>5. CASE UNCHANGED <<alerts, needsSince, visit>>
  BY <1>5 DEF ExclusiveInv, WaitStuckExclusive, Row
<1>6. CASE Tick \/ ScanTranscripts \/ BuildTree \/ EndProcs \/ UNCHANGED vars
  BY <1>5, <1>6 DEF Tick, ScanTranscripts, BuildTree, EndProcs
<1>7. ASSUME NEW p \in Agents, NEW needs \in BOOLEAN,
             Exit(p) \/ Spawn(p) \/ SkipRoot(p) \/ VisitChild(p, needs) \/ VisitGone(p, needs)
      PROVE  ExclusiveInv'
  BY <1>5, <1>7 DEF Exit, Spawn, SkipRoot, VisitChild, VisitGone, NotJudged
<1>8. ASSUME NEW a \in outbox, Send(a)
      PROVE  ExclusiveInv'
  BY <1>5, <1>8 DEF Send
<1>9. CASE Restart
  BY <1>9 DEF Restart, NoVisit, ExclusiveInv, WaitStuckExclusive, Row
<1>10. QED
  BY <1>1, <1>2, <1>3, <1>4, <1>6, <1>7, <1>8, <1>9 DEF Next, ScanStep

\* No agent is ever reported as waiting and as stuck at once.
THEOREM Exclusive == Spec => []WaitStuckExclusive
<1>1. Init => ExclusiveInv
  BY DEF Init, ExclusiveInv, WaitStuckExclusive, Row, NoVisit
<1>2. TypeOK /\ VisitInv /\ VisitInv' /\ ExclusiveInv /\ [Next]_vars => ExclusiveInv'
  BY ExclusiveStep
<1>3. ExclusiveInv => WaitStuckExclusive
  BY DEF ExclusiveInv
<1>4. QED
  BY <1>1, <1>2, <1>3, TypeCorrect, PTL DEF Spec

-----------------------------------------------------------------------------
(***************************************************************************)
(* A wait alert is earned: a running timer started after the last time     *)
(* the waiting was interrupted.                                            *)
(***************************************************************************)

TimerInv ==
  /\ scanNow <= now
  /\ \A p \in Agents : interrupted[p] <= now
  /\ \A p \in Agents \ carried : needsSince[p] # Never => interrupted[p] <= needsSince[p]
  /\ visit.step # 0 => interrupted[visit.pid] <= visit.at

Earned == \A r \in alerts' \ alerts :
            r.kind = "wait_unhandled" /\ r.pid \notin carried
              => interrupted[r.pid] + WaitSeconds <= r.ts

LEMMA TimerStep ==
  ASSUME TypeOK, VisitInv, TypeOK', TimerInv, [Next]_vars
  PROVE  TimerInv' /\ (Earned \/ UNCHANGED vars)
<1> USE AlertsAssumption DEF vars, world, cursor, table, timer
<1>0. now \in Nat /\ now' \in Nat /\ now <= MaxTime
  BY DEF TypeOK
<1>1. CASE Check
  <2>1. PICK p \in Agents, k \in Kinds :
             /\ p = visit.pid /\ k = CheckOrder[visit.step] /\ visit.step \in 1..5
             /\ k = "wait_unhandled" <=> visit.step = 1
    BY <1>1, CheckOrderType DEF Check, VisitInv
  <2>2. /\ visit.at \in 1..now /\ interrupted[p] <= visit.at
        /\ interrupted[p] \in Nat /\ needsSince[p] \in Nat
        /\ UNCHANGED <<now, scanNow>>
        /\ visit'.step = 0 \/ (visit'.pid = p /\ visit'.at = visit.at)
    BY <1>1, <2>1 DEF Check, NoVisit, VisitInv, TimerInv, TypeOK
  <2>3. CASE k = "wait_unhandled"
    <3>1. CheckWait(p)
      BY <1>1, <2>1, <2>3 DEF Check
    <3>2. CASE /\ needsSince' = [needsSince EXCEPT ![p] = visit.at]
               /\ UNCHANGED <<alerts, interrupted, carried>>
      BY <1>0, <2>1, <2>2, <3>2 DEF TimerInv, Earned, TypeOK
    <3>3. CASE /\ needsSince[p] # Never
               /\ UNCHANGED <<needsSince, interrupted, carried>>
               /\ IF visit.at - needsSince[p] >= WaitSeconds
                  THEN FireAlert(p, "wait_unhandled")
                  ELSE UNCHANGED <<alerts, lastAlert, outbox>>
      <4>1. TimerInv'
        BY <1>0, <2>1, <2>2, <3>3 DEF TimerInv, TypeOK
      <4>2. ASSUME NEW r \in alerts' \ alerts, r.pid \notin carried
            PROVE  interrupted[r.pid] + WaitSeconds <= r.ts
        <5>1. /\ r = [pid |-> p, kind |-> "wait_unhandled", ts |-> now, run |-> run]
              /\ visit.at - needsSince[p] >= WaitSeconds
          BY <3>3 DEF FireAlert
        <5>2. interrupted[p] <= needsSince[p]
          BY <3>3, <4>2, <5>1 DEF TimerInv
        <5>3. interrupted[p] + WaitSeconds <= now
          BY <1>0, <2>2, <5>1, <5>2
        <5>4. QED
          BY <5>1, <5>3
      <4>3. QED
        BY <4>1, <4>2 DEF Earned
    <3>4. CASE /\ needsSince' = [needsSince EXCEPT ![p] = Never]
               /\ interrupted' = [interrupted EXCEPT ![p] = visit.at]
               /\ carried' = carried \ {p}
               /\ Heal(p, "wait_unhandled")
      <4>1. TimerInv'
        BY <1>0, <2>1, <2>2, <3>4 DEF TimerInv, TypeOK
      <4>2. QED
        BY <3>4, <4>1 DEF Heal, DeleteAlertsKind, Earned
    <3>5. QED
      BY <3>1, <3>2, <3>3, <3>4 DEF CheckWait
  <2>4. CASE k # "wait_unhandled"
    <3>1. CheckKind(p, k)
      BY <1>1, <2>1, <2>4 DEF Check
    <3>2. TimerInv'
      BY <1>0, <2>1, <2>2, <3>1 DEF CheckKind, TimerInv, TypeOK
    <3>3. Earned
      BY <2>4, <3>1 DEF CheckKind, FireAlert, Heal, DeleteAlertsKind, Earned
    <3>4. QED
      BY <3>2, <3>3
  <2>5. QED
    BY <2>3, <2>4
<1>2. ASSUME NEW p \in Agents, NEW isError \in BOOLEAN, NEW needs \in BOOLEAN,
             VisitTranscript(p, isError, needs)
      PROVE  TimerInv' /\ Earned
  <2>1. TimerInv'
    BY <1>2 DEF VisitTranscript, TimerInv
  <2>2. Earned
    BY <1>2 DEF VisitTranscript, FireAlert, Heal, DeleteAlertsKind, Earned
  <2>3. QED
    BY <2>1, <2>2
<1>3. CASE EndScan
  <2>1. alerts' \subseteq alerts
    BY <1>3, SweepType DEF EndScan, Swept, Pruned
  <2>2. /\ scanNow' = Never /\ UNCHANGED <<now, visit>> /\ visit.step = 0
        /\ \A p \in Agents :
             \/ /\ needsSince'[p] = needsSince[p] /\ interrupted'[p] = interrupted[p]
                /\ p \in carried => p \in carried'
             \/ needsSince'[p] = Never /\ interrupted'[p] = scanNow
    BY <1>3 DEF EndScan, DropMonitors, Idle
  <2>3. TimerInv'
    BY <1>0, <2>2 DEF TimerInv
  <2>4. QED
    BY <2>1, <2>3 DEF Earned
<1>4. ASSUME NEW p \in Agents, NEW o \in Observations, VisitRoot(p, o)
      PROVE  TimerInv' /\ Earned
  <2>1. /\ UNCHANGED <<now, scanNow, alerts, needsSince, interrupted, carried>>
        /\ visit'.pid = p /\ visit'.at = now
    BY <1>4 DEF VisitRoot, Handled
  <2>2. QED
    BY <2>1 DEF TimerInv, Earned
<1>5. CASE Tick \/ BuildTree
  BY <1>0, <1>5 DEF Tick, BuildTree, TimerInv, Earned, TypeOK
<1>6. CASE UNCHANGED <<now, scanNow, alerts, timer, visit>>
  BY <1>6 DEF TimerInv, Earned
<1>7. CASE ScanTranscripts \/ EndProcs \/ UNCHANGED vars
  BY <1>6, <1>7 DEF ScanTranscripts, EndProcs
<1>8. ASSUME NEW p \in Agents, NEW needs \in BOOLEAN,
             Exit(p) \/ Spawn(p)
      PROVE  TimerInv' /\ Earned
  BY <1>6, <1>8 DEF Exit, Spawn
<1>9. ASSUME NEW a \in outbox, Send(a)
      PROVE  TimerInv' /\ Earned
  BY <1>6, <1>9 DEF Send
<1>10. CASE Restart
  BY <1>0, <1>10 DEF Restart, NoVisit, TimerInv, Earned
<1>11. ASSUME NEW p \in Agents, NEW needs \in BOOLEAN,
              SkipRoot(p) \/ VisitChild(p, needs) \/ VisitGone(p, needs)
       PROVE  TimerInv' /\ Earned
  <2>1. /\ NotJudged(p) /\ UNCHANGED <<now, scanNow, alerts, visit>>
        /\ visit.step = 0
    BY <1>11 DEF SkipRoot, VisitChild, VisitGone, Handled, Idle
  <2>2. QED
    BY <1>0, <2>1, NotJudgedType DEF TimerInv, Earned
<1>12. QED
  BY <1>1, <1>2, <1>3, <1>4, <1>5, <1>7, <1>8, <1>9, <1>10, <1>11 DEF Next, ScanStep

\* No wait alert counts a pause, or a predecessor of the same pid, as waiting,
\* unless its timer ran on through a scan that did not judge the agent.
THEOREM WaitIsEarned == Spec => WaitAlertEarned
<1>1. Init => TimerInv
  BY DEF Init, TimerInv, NoVisit
<1>2. TypeOK /\ VisitInv /\ TypeOK' /\ TimerInv /\ [Next]_vars
        => TimerInv' /\ (Earned \/ UNCHANGED vars)
  BY TimerStep
<1>3. QED
  BY <1>1, <1>2, TypeCorrect, PTL DEF Spec, WaitAlertEarned, Earned

-----------------------------------------------------------------------------
(***************************************************************************)
(* Orphans.  Between scans nothing touches the alerts.                     *)
(***************************************************************************)

LEMMA OrphanStep ==
  ASSUME TypeOK, VisitInv, NoOrphanStateAlert, [Next]_vars
  PROVE  NoOrphanStateAlert'
<1> USE AlertsAssumption DEF vars, world, cursor, table, timer
<1>1. CASE EndScan
  <2>1. /\ UNCHANGED written
        /\ \A r \in alerts' : r.pid \in activePids \/ r.kind \notin StateKinds
    BY <1>1 DEF EndScan, Swept, DeleteOrphanStateAlerts
  <2>2. QED
    BY <2>1 DEF NoOrphanStateAlert, activePids
<1>2. CASE phase' # "idle"
  BY <1>2 DEF NoOrphanStateAlert
<1>3. CASE UNCHANGED <<phase, alerts, written>>
  BY <1>3 DEF NoOrphanStateAlert, activePids
<1>4. CASE Tick \/ UNCHANGED vars
  BY <1>3, <1>4 DEF Tick
<1>5. CASE Check
  BY <1>2, <1>5 DEF Check, VisitInv
<1>6. ASSUME NEW p \in Agents, Exit(p) \/ Spawn(p)
      PROVE  NoOrphanStateAlert'
  BY <1>3, <1>6 DEF Exit, Spawn
<1>7. ASSUME NEW a \in outbox, Send(a)
      PROVE  NoOrphanStateAlert'
  BY <1>3, <1>7 DEF Send
<1>8. CASE ScanTranscripts \/ BuildTree \/ EndProcs
  BY <1>2, <1>8 DEF ScanTranscripts, BuildTree, EndProcs
<1>9. ASSUME NEW p \in Agents, NEW needs \in BOOLEAN, NEW isError \in BOOLEAN,
             \/ SkipRoot(p) \/ VisitChild(p, needs) \/ VisitGone(p, needs)
             \/ VisitTranscript(p, isError, needs)
      PROVE  NoOrphanStateAlert'
  BY <1>2, <1>9 DEF SkipRoot, VisitChild, VisitGone, Handled, VisitTranscript
<1>10. ASSUME NEW p \in Agents, NEW o \in Observations, VisitRoot(p, o)
       PROVE  NoOrphanStateAlert'
  BY <1>2, <1>10 DEF VisitRoot, Handled
<1>11. CASE Restart
  BY <1>2, <1>11 DEF Restart
<1>12. QED
  BY <1>1, <1>4, <1>5, <1>6, <1>7, <1>8, <1>9, <1>10, <1>11 DEF Next, ScanStep

\* A scan leaves no state alert of an agent it did not write.
THEOREM NoOrphans == Spec => []NoOrphanStateAlert
<1>1. Init => NoOrphanStateAlert
  BY DEF Init, NoOrphanStateAlert
<1>2. (TypeOK /\ VisitInv) /\ NoOrphanStateAlert /\ [Next]_vars => NoOrphanStateAlert'
  BY OrphanStep
<1>3. QED
  BY <1>1, <1>2, TypeCorrect, PTL DEF Spec
=============================================================================
