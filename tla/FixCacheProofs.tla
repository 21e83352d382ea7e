---------------------------- MODULE FixCacheProofs ----------------------------
(***************************************************************************)
(* Proofs about two parts that share nothing: AutoFix, for any number of   *)
(* workers, requests and deliveries, and QueryCache, for any journeys      *)
(* through the screens and any number of writes, moves and failures.       *)
(***************************************************************************)
EXTENDS AutoFix, QueryCache, FiniteSetTheorems, TLAPS

(***************************************************************************)
(* AI auto-fix runs                                                        *)
(***************************************************************************)

(* Every action of a worker, as the steps of the proofs split them.        *)
LEMMA WorkerSteps ==
  ASSUME NEW w \in Workers, RunAutofix(w)
  PROVE  \/ StartRun(w)
         \/ \E from \in {"analyze", "generate", "propose"}, s \in Active,
               to \in {"generate", "propose", "open"} : Advance(w, from, s, to)
         \/ OpenMR(w) \/ Complete(w) \/ RecordMR(w)
         \/ Fail(w) \/ RecordFailure(w) \/ Announce(w)
BY DEF RunAutofix, Analyze, Generate, Propose, Active

(* The places of a worker before its run has a final status.               *)
Before == {"start", "analyze", "generate", "propose", "open", "complete"}

(* Tasks and workers: a running task has one worker, a task that waits may *)
(* still be delivered, and a run has a task only once it was published.    *)
TaskInv ==
  /\ \A w \in Workers : wk[w] = "idle" <=> on[w] = None
  /\ \A w \in Workers : on[w] # None => task[on[w]] = "running"
  /\ \A v, w \in Workers : on[v] = on[w] /\ on[w] # None => v = w
  /\ \A r \in Runs : task[r] = "running" => \E w \in Workers : on[w] = r
  /\ \A r \in Runs : task[r] # "none" => tg[r] = "ended"
  /\ \A r \in Runs : task[r] = "none" => deliveries[r] = 0
  /\ \A r \in Runs : task[r] = "queued" => deliveries[r] < MaxDeliveries

FixTInv == FixTypeOK /\ TaskInv

LEMMA InitFixTInv == FixInit => FixTInv
<1> SUFFICES ASSUME FixInit
             PROVE  FixTInv
  OBVIOUS
<1>1. FixTypeOK
  <2>1. deliveries \in [Runs -> 0..MaxDeliveries]
    BY DeliveriesAssumption DEF FixInit
  <2> QED
    BY <2>1 DEF FixInit, FixTypeOK, Runs
<1>2. TaskInv
  BY NoneAssumption DEF FixInit, TaskInv, Runs
<1> QED
  BY <1>1, <1>2 DEF FixTInv

(* A worker that stays on its run.                                         *)
LEMMA StaysOnRun ==
  ASSUME FixTInv, NEW w \in Workers, NEW from, NEW to, Steps(w, from, to),
         from # "idle", to # "idle", UNCHANGED <<tg, task, deliveries, on>>
  PROVE  TaskInv' /\ on[w] \in Runs
<1>1. \A v \in Workers : wk'[v] = IF v = w THEN to ELSE wk[v]
  BY DEF Steps, FixTInv, FixTypeOK
<1>2. wk[w] # "idle" /\ wk'[w] # "idle"
  BY <1>1 DEF Steps
<1>3. on[w] \in Runs
  BY <1>2 DEF FixTInv, TaskInv, FixTypeOK
<1> QED
  BY <1>1, <1>2, <1>3 DEF FixTInv, TaskInv

(* A worker that gives its task back, ended or to be delivered again.      *)
LEMMA LeavesRun ==
  ASSUME FixTInv, NEW w \in Workers, NEW from, NEW outcome \in {"ended", "queued"},
         EndsTask(w, from, outcome), from # "idle",
         outcome = "queued" => deliveries[on[w]] < MaxDeliveries,
         UNCHANGED <<tg, deliveries>>
  PROVE  TaskInv' /\ on[w] \in Runs
<1>1. /\ \A v \in Workers : wk'[v] = IF v = w THEN "idle" ELSE wk[v]
      /\ \A v \in Workers : on'[v] = IF v = w THEN None ELSE on[v]
  BY DEF EndsTask, Steps, FixTInv, FixTypeOK
<1>2. on[w] \in Runs /\ task[on[w]] = "running"
  BY DEF EndsTask, Steps, FixTInv, TaskInv, FixTypeOK
<1>3. \A r \in Runs : task'[r] = IF r = on[w] THEN outcome ELSE task[r]
  BY <1>2 DEF EndsTask, FixTInv, FixTypeOK
<1>4. \A v \in Workers : v # w => on[v] # on[w]
  BY <1>2, NoneAssumption DEF FixTInv, TaskInv
<1>5. \A r \in Runs : task'[r] = "running" => \E v \in Workers : on'[v] = r
  BY <1>1, <1>2, <1>3 DEF FixTInv, TaskInv
<1> QED
  BY <1>1, <1>2, <1>3, <1>4, <1>5 DEF FixTInv, TaskInv, FixTypeOK

LEMMA StepFixTInv == FixTInv /\ [FixNext]_fixVars => FixTInv'
<1> SUFFICES ASSUME FixTInv, [FixNext]_fixVars
             PROVE  FixTInv'
  OBVIOUS
<1>t. FixTypeOK /\ TaskInv
  BY DEF FixTInv
<1>1. ASSUME NEW t \in Triggers, CheckActive(t)
      PROVE  FixTInv'
  BY <1>1, <1>t DEF CheckActive, TriggerGoes, FixTInv, FixTypeOK, TaskInv, Runs
<1>2. ASSUME NEW t \in Triggers, CreateRun(t)
      PROVE  FixTInv'
  BY <1>2, <1>t DEF CreateRun, TriggerGoes, FixTInv, FixTypeOK, TaskInv, Runs, Statuses, Active
<1>3. ASSUME NEW t \in Triggers, Publish(t)
      PROVE  FixTInv'
  <2>1. task[t] = "none"
    BY <1>3, <1>t DEF Publish, FixTypeOK, TaskInv, Runs
  <2> QED
    BY <1>3, <1>t, <2>1, NoneAssumption, DeliveriesAssumption
    DEF Publish, TriggerGoes, FixTInv, FixTypeOK, TaskInv, Runs
<1>4. ASSUME NEW w \in Workers, NEW r \in Runs, TakeRun(w, r)
      PROVE  FixTInv'
  <2>1. /\ \A v \in Workers : wk'[v] = IF v = w THEN "start" ELSE wk[v]
        /\ \A v \in Workers : on'[v] = IF v = w THEN r ELSE on[v]
        /\ \A s \in Runs : task'[s] = IF s = r THEN "running" ELSE task[s]
        /\ \A s \in Runs : deliveries'[s] = IF s = r THEN deliveries[r] + 1 ELSE deliveries[s]
    BY <1>4, <1>t DEF TakeRun, Steps, FixTypeOK
  <2>2. /\ task[r] = "queued" /\ wk[w] = "idle" /\ on[w] = None /\ r # None
        /\ \A v \in Workers : on[v] # r /\ on[v] \in Runs \cup {None}
    BY <1>4, <1>t, NoneAssumption DEF TakeRun, Steps, TaskInv, FixTypeOK
  <2>3. TaskInv'
    <3>1. UNCHANGED tg
      BY <1>4 DEF TakeRun
    <3>2. \A s \in Runs : task'[s] = "running" => \E v \in Workers : on'[v] = s
      BY <1>t, <2>1, <2>2, NoneAssumption DEF TaskInv
    <3> QED
      BY <1>t, <2>1, <2>2, <3>1, <3>2 DEF TaskInv, FixTypeOK
  <2>4. FixTypeOK'
    BY <1>4, <1>t, DeliveriesAssumption DEF TakeRun, Steps, FixTypeOK, TaskInv
  <2> QED
    BY <2>3, <2>4 DEF FixTInv
<1>5. ASSUME NEW w \in Workers, StartRun(w)
      PROVE  FixTInv'
  <2>1. TaskInv' /\ on[w] \in Runs
    BY <1>5, StaysOnRun, LeavesRun DEF StartRun
  <2> QED
    BY <1>5, <1>t, <2>1 DEF StartRun, Steps, EndsTask, FixTInv, FixTypeOK
<1>6. ASSUME NEW w \in Workers, NEW from \in {"analyze", "generate", "propose"}, NEW s \in Active,
             NEW to \in {"generate", "propose", "open"}, Advance(w, from, s, to)
      PROVE  FixTInv'
  <2>1. TaskInv' /\ on[w] \in Runs
    BY <1>6, StaysOnRun DEF Advance
  <2> QED
    BY <1>6, <1>t, <2>1 DEF Advance, Steps, SetStatus, FixTInv, FixTypeOK, Statuses
<1>7. ASSUME NEW w \in Workers, OpenMR(w)
      PROVE  FixTInv'
  <2>1. TaskInv' /\ on[w] \in Runs
    BY <1>7, StaysOnRun DEF OpenMR
  <2> QED
    BY <1>7, <1>t, <2>1 DEF OpenMR, Steps, FixTInv, FixTypeOK
<1>8. ASSUME NEW w \in Workers, Complete(w) \/ RecordMR(w) \/ Fail(w) \/ RecordFailure(w)
      PROVE  FixTInv'
  <2>1. TaskInv' /\ on[w] \in Runs
    BY <1>8, StaysOnRun DEF Complete, RecordMR, Fail, RecordFailure
  <2> QED
    BY <1>8, <1>t, <2>1
    DEF Complete, RecordMR, Fail, RecordFailure, Steps, SetStatus, FixTInv, FixTypeOK, Statuses
<1>9. ASSUME NEW w \in Workers, Announce(w)
      PROVE  FixTInv'
  <2>1. TaskInv' /\ on[w] \in Runs
    BY <1>9, StaysOnRun, LeavesRun DEF Announce
  <2> QED
    BY <1>9, <1>t, <2>1 DEF Announce, Steps, EndsTask, FixTInv, FixTypeOK
<1>10. ASSUME NEW w \in Workers, CrashRun(w)
       PROVE  FixTInv'
  <2>1. PICK outcome \in {"queued", "ended"} : EndsTask(w, wk[w], outcome)
    BY <1>10 DEF CrashRun
  <2>2. TaskInv' /\ on[w] \in Runs
    BY <1>10, <2>1, LeavesRun DEF CrashRun
  <2>3. orphan' \subseteq Runs /\ raced' \in BOOLEAN
    BY <1>10, <1>t, <2>2 DEF CrashRun, FixTypeOK
  <2> QED
    BY <1>10, <1>t, <2>1, <2>2, <2>3 DEF CrashRun, Steps, EndsTask, FixTInv, FixTypeOK
<1>11. CASE UNCHANGED fixVars
  BY <1>11, <1>t DEF fixVars, FixTInv, FixTypeOK, TaskInv
<1> QED
  BY <1>1, <1>2, <1>3, <1>4, <1>5, <1>6, <1>7, <1>8, <1>9, <1>10, <1>11, WorkerSteps
  DEF FixNext, Trigger

(* Every reachable state of the fixes is well typed; in particular no task *)
(* is delivered more often than the bound.                                 *)
THEOREM FixTypesCorrect == FixSpec => []FixTypeOK
<1>1. FixSpec => []FixTInv
  BY InitFixTInv, StepFixTInv, PTL DEF FixSpec
<1> QED
  BY <1>1, PTL DEF FixTInv

-----------------------------------------------------------------------------
(* A run that blocks others is being worked on.                            *)

(* What the status of a run can be, from where its trigger and its worker  *)
(* are: a run whose task is over is final unless it was never worked on.   *)
StatusInv ==
  /\ \A r \in Runs : tg[r] \in {"check", "create"} => status[r] = None
  /\ \A r \in Runs : tg[r] = "publish" => status[r] = "queued"
  /\ \A r \in Runs : tg[r] = "ended" /\ task[r] \in {"none", "ended"} /\ status[r] \in Active
                     => r \in orphan
  /\ \A w \in Workers : wk[w] \in {"record", "announce"} => status[on[w]] = "completed"
  /\ \A w \in Workers : wk[w] \in {"record_failure", "announce_failure"} => status[on[w]] = "failed"
  /\ \A w \in Workers : wk[w] \in {"complete", "record"} => mrs[on[w]] > 0

LEMMA InitStatusInv == FixInit => StatusInv
BY NoneAssumption DEF FixInit, StatusInv, Runs, Statuses

(* A worker's step on the status of its run.                               *)
LEMMA StatusSaved ==
  ASSUME FixTInv, StatusInv, NEW w \in Workers, NEW from, NEW to, NEW s,
         Steps(w, from, to), from # "idle", to # "idle",
         SetStatus(w, s) \/ (UNCHANGED status /\ s = status[on[w]]),
         to \in {"record", "announce"} => s = "completed",
         to \in {"record_failure", "announce_failure"} => s = "failed",
         to \in {"complete", "record"} => mrs'[on[w]] > 0,
         \A r \in Runs \ {on[w]} : mrs'[r] = mrs[r],
         UNCHANGED <<tg, task, on, orphan>>
  PROVE  StatusInv'
<1>1. /\ \A v \in Workers : wk'[v] = IF v = w THEN to ELSE wk[v]
      /\ wk[w] # "idle" /\ on[w] \in Runs /\ task[on[w]] = "running" /\ tg[on[w]] = "ended"
  BY DEF Steps, FixTInv, FixTypeOK, TaskInv
<1>2. \A r \in Runs : status'[r] = IF r = on[w] THEN s ELSE status[r]
  BY <1>1 DEF SetStatus, FixTInv, FixTypeOK
<1>3. \A v \in Workers : v # w /\ wk[v] # "idle" => on[v] \in Runs /\ on[v] # on[w]
  BY <1>1, NoneAssumption DEF FixTInv, FixTypeOK, TaskInv
<1>4. \A v \in Workers : v # w /\ wk[v] # "idle" =>
        status'[on'[v]] = status[on[v]] /\ mrs'[on'[v]] = mrs[on[v]]
  BY <1>2, <1>3
<1>5. status'[on'[w]] = s /\ mrs'[on'[w]] = mrs'[on[w]]
  BY <1>1, <1>2
<1> QED
  BY <1>1, <1>2, <1>4, <1>5 DEF StatusInv

LEMMA StepStatusInv == FixTInv /\ StatusInv /\ [FixNext]_fixVars => StatusInv'
<1> SUFFICES ASSUME FixTInv, StatusInv, [FixNext]_fixVars
             PROVE  StatusInv'
  OBVIOUS
<1>t. FixTypeOK /\ TaskInv
  BY DEF FixTInv
<1>u. \A w \in Workers : wk[w] # "idle" => /\ on[w] \in Runs /\ task[on[w]] = "running"
                                          /\ tg[on[w]] = "ended"
  BY <1>t DEF FixTypeOK, TaskInv
<1>1. ASSUME NEW t \in Triggers, CheckActive(t)
      PROVE  StatusInv'
  BY <1>1, <1>t, NoneAssumption DEF CheckActive, TriggerGoes, StatusInv, FixTypeOK, Runs, Statuses
<1>2. ASSUME NEW t \in Triggers, CreateRun(t)
      PROVE  StatusInv'
  BY <1>2, <1>t, <1>u DEF CreateRun, TriggerGoes, StatusInv, FixTypeOK, Runs
<1>3. ASSUME NEW t \in Triggers, Publish(t)
      PROVE  StatusInv'
  BY <1>3, <1>t DEF Publish, TriggerGoes, StatusInv, FixTypeOK, Runs
<1>4. ASSUME NEW w \in Workers, NEW r \in Runs, TakeRun(w, r)
      PROVE  StatusInv'
  <2>1. /\ \A v \in Workers : wk'[v] = IF v = w THEN "start" ELSE wk[v]
        /\ \A v \in Workers : on'[v] = IF v = w THEN r ELSE on[v]
        /\ \A s \in Runs : task'[s] = IF s = r THEN "running" ELSE task[s]
    BY <1>4, <1>t DEF TakeRun, Steps, FixTypeOK
  <2> QED
    BY <1>4, <2>1 DEF TakeRun, StatusInv
<1>5. ASSUME NEW w \in Workers, NEW from, NEW outcome \in {"ended", "queued"},
             from # "idle", EndsTask(w, from, outcome),
             outcome = "ended" => on[w] \in orphan' \/ status[on[w]] \notin Active,
             orphan \subseteq orphan', UNCHANGED <<tg, status, mrs>>
      PROVE  StatusInv'
  <2>1. on[w] \in Runs
    BY <1>5, <1>u DEF EndsTask, Steps
  <2>2. /\ \A v \in Workers : wk'[v] = IF v = w THEN "idle" ELSE wk[v]
        /\ \A v \in Workers : v # w => on'[v] = on[v]
        /\ \A r \in Runs : task'[r] = IF r = on[w] THEN outcome ELSE task[r]
    BY <1>5, <1>t, <2>1 DEF EndsTask, Steps, FixTypeOK
  <2> QED
    BY <1>5, <2>1, <2>2 DEF StatusInv
<1>6. ASSUME NEW w \in Workers, StartRun(w)
      PROVE  StatusInv'
  <2>1. CASE Steps(w, "start", "analyze") /\ UNCHANGED <<task, on, orphan>>
    BY <1>6, <2>1, StatusSaved DEF StartRun
  <2>2. CASE EndsTask(w, "start", "ended") /\ orphan' = orphan \cup {on[w]}
    BY <1>6, <2>2, <1>5 DEF StartRun
  <2> QED
    BY <1>6, <2>1, <2>2 DEF StartRun
<1>7. ASSUME NEW w \in Workers, NEW from \in {"analyze", "generate", "propose"}, NEW s \in Active,
             NEW to \in {"generate", "propose", "open"}, Advance(w, from, s, to)
      PROVE  StatusInv'
  BY <1>7, StatusSaved DEF Advance
<1>8. ASSUME NEW w \in Workers, OpenMR(w)
      PROVE  StatusInv'
  <2>1. on[w] \in Runs /\ wk[w] # "idle"
    BY <1>8, <1>u DEF OpenMR, Steps
  <2>2. /\ \A r \in Runs \ {on[w]} : mrs'[r] = mrs[r]
        /\ wk'[w] = "complete" => mrs'[on[w]] > 0
    BY <1>8, <1>t, <2>1 DEF OpenMR, Steps, FixTypeOK
  <2>3. CASE Steps(w, "open", "complete")
    <3>1. wk'[w] = "complete"
      BY <1>t, <2>3 DEF Steps, FixTypeOK
    <3> QED
      BY <1>8, <2>2, <2>3, <3>1, StatusSaved DEF OpenMR
  <2>4. CASE Steps(w, "open", "fail")
    BY <1>8, <2>2, <2>4, StatusSaved DEF OpenMR
  <2> QED
    BY <1>8, <2>3, <2>4 DEF OpenMR
<1>9. ASSUME NEW w \in Workers, Complete(w)
      PROVE  StatusInv'
  <2>1. mrs[on[w]] > 0
    BY <1>9 DEF Complete, Steps, StatusInv
  <2> QED
    BY <1>9, <2>1, StatusSaved DEF Complete
<1>10. ASSUME NEW w \in Workers, RecordMR(w)
       PROVE  StatusInv'
  <2>1. status[on[w]] = "completed"
    BY <1>10 DEF RecordMR, Steps, StatusInv
  <2> QED
    BY <1>10, <2>1, StatusSaved DEF RecordMR
<1>11. ASSUME NEW w \in Workers, Fail(w)
       PROVE  StatusInv'
  BY <1>11, StatusSaved DEF Fail
<1>12. ASSUME NEW w \in Workers, RecordFailure(w)
       PROVE  StatusInv'
  <2>1. status[on[w]] = "failed"
    BY <1>12 DEF RecordFailure, Steps, StatusInv
  <2> QED
    BY <1>12, <2>1, StatusSaved DEF RecordFailure
<1>13. ASSUME NEW w \in Workers, Announce(w)
       PROVE  StatusInv'
  <2>1. CASE Steps(w, "announce", "fail") /\ UNCHANGED <<on, task>>
    BY <1>13, <2>1, StatusSaved DEF Announce
  <2>2. ASSUME NEW from \in {"announce", "announce_failure"}, EndsTask(w, from, "ended")
        PROVE  StatusInv'
    <3>1. status[on[w]] \notin Active
      BY <2>2 DEF EndsTask, Steps, StatusInv, Active
    <3> QED
      BY <1>13, <2>2, <3>1, <1>5 DEF Announce
  <2> QED
    BY <1>13, <2>1, <2>2 DEF Announce
<1>14. ASSUME NEW w \in Workers, CrashRun(w)
       PROVE  StatusInv'
  BY <1>14, <1>5 DEF CrashRun
<1>15. CASE UNCHANGED fixVars
  BY <1>15 DEF fixVars, StatusInv
<1> QED
  BY <1>1, <1>2, <1>3, <1>4, <1>6, <1>7, <1>8, <1>9, <1>10, <1>11, <1>12, <1>13, <1>14, <1>15,
     WorkerSteps
  DEF FixNext, Trigger

(* A run that keeps an issue from being fixed again is about to be         *)
(* published, waits in the queue, or is worked on by exactly one worker,   *)
(* wherever workers die: only a failed publish, a failed start or a killed *)
(* pool process leaves one behind.                                         *)
THEOREM NoIdleBlocker == FixSpec => []BlockedMeansWork
<1>1. FixInit => FixTInv /\ StatusInv
  BY InitFixTInv, InitStatusInv
<1>2. FixTInv /\ StatusInv /\ [FixNext]_fixVars => (FixTInv /\ StatusInv)'
  BY StepFixTInv, StepStatusInv
<1>3. ASSUME FixTInv, StatusInv
      PROVE  BlockedMeansWork
  <2> SUFFICES ASSUME NEW r \in InFlight, r \notin orphan, tg[r] # "publish"
               PROVE  \/ task[r] = "queued" /\ \A w \in Workers : on[w] # r
                      \/ task[r] = "running" /\ Cardinality({w \in Workers : on[w] = r}) = 1
    BY DEF BlockedMeansWork
  <2>1. r \in Runs /\ status[r] \in Active /\ tg[r] = "ended" /\ task[r] \in {"queued", "running"}
    BY <1>3, NoneAssumption DEF InFlight, FixTInv, FixTypeOK, StatusInv, Statuses, Runs
  <2>2. CASE task[r] = "queued"
    BY <1>3, <2>1, <2>2, NoneAssumption DEF FixTInv, TaskInv
  <2>3. CASE task[r] = "running"
    <3>1. PICK w \in Workers : on[w] = r
      BY <1>3, <2>1, <2>3 DEF FixTInv, TaskInv
    <3>2. {v \in Workers : on[v] = r} = {w}
      BY <1>3, <2>1, <3>1, NoneAssumption DEF FixTInv, TaskInv
    <3> QED
      BY <2>3, <3>2, FS_Singleton
  <2> QED
    BY <2>1, <2>2, <2>3
<1> QED
  BY <1>1, <1>2, <1>3, PTL DEF FixSpec

-----------------------------------------------------------------------------
(* Fixes that nothing made overlap are serial.                             *)

(* Unless checks overlapped or a finished run was started again: one       *)
(* trigger at most has passed its check, and then nothing is in flight;    *)
(* what waits or is worked on, up to its end, is the run in flight.        *)
SerialInv ==
  ~raced =>
    /\ \A r, s \in InFlight : r = s
    /\ \A t, u \in Triggers : tg[t] = "create" /\ tg[u] = "create" => t = u
    /\ (\E t \in Triggers : tg[t] = "create") => InFlight = {}
    /\ \A w \in Workers : wk[w] \in Before => status[on[w]] \in Active
    /\ \A r \in Runs : task[r] = "queued" => status[r] \in Active

LEMMA InitSerialInv == FixInit => SerialInv
BY NoneAssumption DEF FixInit, SerialInv, InFlight, Before, Statuses

(* A step of w that brings no run in flight, and stays among the places    *)
(* before the end of its run only if the run is in flight.                 *)
LEMMA NoneStarted ==
  ASSUME FixTInv, SerialInv, NEW w \in Workers, UNCHANGED <<tg, raced>>,
         \A v \in Workers \ {w} : wk'[v] = wk[v] /\ on'[v] = on[v],
         \A v \in Workers \ {w} : wk[v] # "idle" => status'[on[v]] = status[on[v]],
         ~raced => InFlight' \subseteq InFlight,
         ~raced /\ wk'[w] \in Before => status'[on'[w]] \in Active,
         ~raced => \A r \in Runs : task'[r] = "queued" => status'[r] \in Active
  PROVE  SerialInv'
<1>1. \A v \in Workers \ {w} : wk[v] \in Before => wk[v] # "idle"
  BY DEF Before
<1> QED
  BY <1>1 DEF SerialInv

LEMMA StepSerialInv == FixTInv /\ StatusInv /\ SerialInv /\ [FixNext]_fixVars => SerialInv'
<1> SUFFICES ASSUME FixTInv, StatusInv, SerialInv, [FixNext]_fixVars
             PROVE  SerialInv'
  OBVIOUS
<1>t. /\ FixTypeOK /\ TaskInv
      /\ \A w \in Workers : wk[w] # "idle" => on[w] \in Runs /\ task[on[w]] = "running"
      /\ \A v, w \in Workers : v # w /\ wk[v] # "idle" => on[v] # on[w]
  BY NoneAssumption DEF FixTInv, FixTypeOK, TaskInv
<1>1. ASSUME NEW t \in Triggers, CheckActive(t)
      PROVE  SerialInv'
  <2>1. UNCHANGED <<status, task, wk, on>> /\ InFlight' = InFlight
    BY <1>1 DEF CheckActive, InFlight
  <2>2. /\ \A u \in Triggers \ {t} : tg'[u] = tg[u]
        /\ tg'[t] = "create" => InFlight = {}
        /\ ~raced' => ~raced /\ \A u \in Triggers : tg[u] # "create"
    BY <1>1, <1>t DEF CheckActive, TriggerGoes, FixTypeOK
  <2> QED
    BY <2>1, <2>2 DEF SerialInv
<1>2. ASSUME NEW t \in Triggers, CreateRun(t)
      PROVE  SerialInv'
  <2>1. UNCHANGED <<task, wk, on, raced>> /\ tg[t] = "create" /\ t \in Runs
    BY <1>2 DEF CreateRun, Runs
  <2>2. /\ \A r \in Runs : status'[r] = IF r = t THEN "queued" ELSE status[r]
        /\ \A u \in Triggers : tg'[u] = IF u = t THEN "publish" ELSE tg[u]
    BY <1>2, <1>t DEF CreateRun, TriggerGoes, FixTypeOK, Runs
  <2>3. ASSUME ~raced
        PROVE  /\ InFlight' = {t} /\ \A u \in Triggers : tg'[u] # "create"
               /\ \A r \in Runs : status[r] \in Active => status'[r] \in Active
    BY <2>1, <2>2, <2>3 DEF SerialInv, InFlight, Active
  <2>4. \A w \in Workers : wk[w] \in Before => on[w] \in Runs
    BY <1>t DEF Before
  <2> QED
    BY <2>1, <2>3, <2>4 DEF SerialInv
<1>3. ASSUME NEW t \in Triggers, Publish(t)
      PROVE  SerialInv'
  <2>1. UNCHANGED <<status, wk, on, raced>> /\ InFlight' = InFlight /\ status[t] \in Active
    BY <1>3 DEF Publish, InFlight, StatusInv, Runs, Active
  <2>2. /\ \A u \in Triggers : tg'[u] = "create" => tg[u] = "create"
        /\ \A r \in Runs : task'[r] = "queued" => task[r] = "queued" \/ r = t
    BY <1>3, <1>t DEF Publish, TriggerGoes, FixTypeOK, Runs
  <2> QED
    BY <2>1, <2>2 DEF SerialInv
<1>4. ASSUME NEW w \in Workers, NEW r \in Runs, TakeRun(w, r)
      PROVE  SerialInv'
  <2>1. /\ \A v \in Workers \ {w} : wk'[v] = wk[v] /\ on'[v] = on[v]
        /\ on'[w] = r /\ task[r] = "queued"
        /\ \A s \in Runs : task'[s] = "queued" => task[s] = "queued"
        /\ UNCHANGED <<tg, status, raced>>
    BY <1>4, <1>t DEF TakeRun, Steps, FixTypeOK
  <2>2. InFlight' = InFlight
    BY <2>1 DEF InFlight
  <2> QED
    BY <2>1, <2>2, NoneStarted DEF SerialInv
<1>5. ASSUME NEW w \in Workers, NEW from, NEW to, NEW s, Steps(w, from, to), from # "idle",
             SetStatus(w, s) \/ UNCHANGED status,
             s \in Active => from \in Before,
             to \in Before => from \in Before /\ s \in Active,
             UNCHANGED <<tg, task, on, raced>>
      PROVE  SerialInv'
  <2>1. on[w] \in Runs /\ task[on[w]] = "running" /\ wk[w] = from
    BY <1>5, <1>t DEF Steps
  <2>2. /\ \A v \in Workers \ {w} : wk'[v] = wk[v] /\ on'[v] = on[v]
        /\ wk'[w] = to /\ on'[w] = on[w]
    BY <1>5, <1>t DEF Steps, FixTypeOK
  <2>3. \A r \in Runs : status'[r] = status[r] \/ (r = on[w] /\ status'[r] = s)
    BY <1>5, <1>t, <2>1 DEF SetStatus, FixTypeOK
  <2>4. \A v \in Workers \ {w} : wk[v] # "idle" => status'[on[v]] = status[on[v]]
    BY <1>t, <2>3
  <2>5. ~raced => InFlight' \subseteq InFlight
    BY <1>5, <2>1, <2>3 DEF InFlight, SerialInv
  <2>6. ~raced /\ wk'[w] \in Before => status'[on'[w]] \in Active
    BY <1>5, <2>1, <2>2, <2>3 DEF SerialInv
  <2>7. ~raced => \A r \in Runs : task'[r] = "queued" => status'[r] \in Active
    BY <1>5, <2>1, <2>3 DEF SerialInv
  <2> QED
    BY <1>5, <2>2, <2>4, <2>5, <2>6, <2>7, NoneStarted
<1>6. ASSUME NEW w \in Workers, NEW from, NEW outcome \in {"ended", "queued"},
             EndsTask(w, from, outcome), from # "idle", UNCHANGED <<tg, status>>,
             ~raced' => ~raced /\ (outcome = "queued" => status[on[w]] \in Active)
      PROVE  SerialInv'
  <2>1. on[w] \in Runs
    BY <1>6, <1>t DEF EndsTask, Steps
  <2>2. /\ \A v \in Workers : wk'[v] = IF v = w THEN "idle" ELSE wk[v]
        /\ \A v \in Workers \ {w} : on'[v] = on[v]
        /\ \A r \in Runs : task'[r] = IF r = on[w] THEN outcome ELSE task[r]
    BY <1>6, <1>t, <2>1 DEF EndsTask, Steps, FixTypeOK
  <2>3. InFlight' = InFlight
    BY <1>6 DEF InFlight
  <2> QED
    BY <1>6, <2>2, <2>3 DEF SerialInv, Before
<1>7. ASSUME NEW w \in Workers, StartRun(w)
      PROVE  SerialInv'
  <2>1. CASE Steps(w, "start", "analyze") /\ UNCHANGED <<task, on>>
    <3>1. "start" \in Before /\ "queued" \in Active
      BY DEF Before, Active
    <3> QED
      BY <1>7, <2>1, <3>1, <1>5 DEF StartRun
  <2>2. CASE EndsTask(w, "start", "ended")
    BY <1>7, <2>2, <1>6 DEF StartRun
  <2> QED
    BY <1>7, <2>1, <2>2 DEF StartRun
<1>8. ASSUME NEW w \in Workers, NEW from \in {"analyze", "generate", "propose"}, NEW s \in Active,
             NEW to \in {"generate", "propose", "open"}, Advance(w, from, s, to)
      PROVE  SerialInv'
  <2>1. from \in Before /\ from # "idle" /\ "fail" \notin Before
    BY DEF Before
  <2> QED
    BY <1>8, <2>1, <1>5 DEF Advance
<1>9. ASSUME NEW w \in Workers, OpenMR(w)
      PROVE  SerialInv'
  <2>1. "open" \in Before /\ "queued" \in Active
    BY DEF Before, Active
  <2> QED
    BY <1>9, <2>1, <1>5 DEF OpenMR
<1>10. ASSUME NEW w \in Workers, Complete(w) \/ RecordMR(w) \/ Fail(w) \/ RecordFailure(w)
       PROVE  SerialInv'
  <2>1. /\ {"record", "announce", "record_failure", "announce_failure"} \cap Before = {}
        /\ {"completed", "failed"} \cap Active = {}
    BY DEF Before, Active
  <2> QED
    BY <1>10, <2>1, <1>5 DEF Complete, RecordMR, Fail, RecordFailure
<1>11. ASSUME NEW w \in Workers, Announce(w)
       PROVE  SerialInv'
  <2>1. "fail" \notin Before /\ "failed" \notin Active
    BY DEF Before, Active
  <2> QED
    BY <1>11, <2>1, <1>5, <1>6 DEF Announce
<1>12. ASSUME NEW w \in Workers, CrashRun(w)
       PROVE  SerialInv'
  BY <1>12, <1>t, <1>6 DEF CrashRun, FixTypeOK
<1>13. CASE UNCHANGED fixVars
  BY <1>13 DEF fixVars, SerialInv, InFlight
<1> QED
  BY <1>1, <1>2, <1>3, <1>4, <1>7, <1>8, <1>9, <1>10, <1>11, <1>12, <1>13, WorkerSteps
  DEF FixNext, Trigger

(* However many triggers and workers there are, two fixes of an issue are  *)
(* in flight together only if two triggers checked before either created   *)
(* its run, or the task of a run that had ended was delivered again.       *)
THEOREM OneFixAtATime == FixSpec => []SerialFixes
<1>1. FixInit => FixTInv /\ StatusInv /\ SerialInv
  BY InitFixTInv, InitStatusInv, InitSerialInv
<1>2. FixTInv /\ StatusInv /\ SerialInv /\ [FixNext]_fixVars => (FixTInv /\ StatusInv /\ SerialInv)'
  BY StepFixTInv, StepStatusInv, StepSerialInv
<1>3. ASSUME SerialInv
      PROVE  SerialFixes
  <2> SUFFICES ASSUME ~raced
               PROVE  Cardinality(InFlight) <= 1
    BY DEF SerialFixes
  <2>1. CASE InFlight = {}
    BY <2>1, FS_EmptySet
  <2>2. CASE InFlight # {}
    <3>1. PICK r \in InFlight : TRUE
      BY <2>2
    <3>2. InFlight = {r}
      BY <1>3, <3>1 DEF SerialInv
    <3>3. Cardinality({r}) = 1
      BY FS_Singleton
    <3> QED
      BY <3>2, <3>3
  <2> QED
    BY <2>1, <2>2
<1> QED
  BY <1>1, <1>2, <1>3, PTL DEF FixSpec

-----------------------------------------------------------------------------
(* What the issue shows when all is quiet.                                 *)

(* A run was not started properly, or some task has still to write the     *)
(* state of the issue.                                                     *)
Unsettled ==
  \/ orphan # {}
  \/ \E r \in Runs : task[r] = "queued"
  \/ \E w \in Workers : wk[w] \notin {"idle", "announce", "announce_failure"}

StateShown ==
  /\ state # "running"
  /\ state = "mr_created" => \E r \in Runs : status[r] = "completed" /\ mrs[r] > 0
  /\ state = "failed" => \E r \in Runs : status[r] = "failed"

StateInv == Unsettled \/ StateShown

LEMMA InitStateInv == FixInit => StateInv
BY NoneAssumption DEF FixInit, StateInv, StateShown, Statuses

LEMMA StepStateInv == FixTInv /\ StatusInv /\ StateInv /\ [FixNext]_fixVars => StateInv'
<1> SUFFICES ASSUME FixTInv, StatusInv, StateInv, [FixNext]_fixVars
             PROVE  StateInv'
  OBVIOUS
<1>t. /\ FixTypeOK
      /\ \A w \in Workers : wk[w] # "idle" => on[w] \in Runs
  BY DEF FixTInv, FixTypeOK, TaskInv
<1>1. ASSUME NEW t \in Triggers, CheckActive(t)
      PROVE  StateInv'
  BY <1>1 DEF CheckActive, StateInv, Unsettled, StateShown
<1>2. ASSUME NEW t \in Triggers, CreateRun(t)
      PROVE  StateInv'
  <2>1. \A r \in Runs : status[r] \in {"completed", "failed"} => status'[r] = status[r]
    BY <1>2, <1>t, NoneAssumption DEF CreateRun, StatusInv, FixTypeOK, Runs, Statuses
  <2> QED
    BY <1>2, <2>1 DEF CreateRun, StateInv, Unsettled, StateShown
<1>3. ASSUME NEW t \in Triggers, Publish(t)
      PROVE  StateInv'
  <2>1. /\ \A r \in Runs : task[r] = "queued" => task'[r] = "queued"
        /\ orphan \subseteq orphan' /\ UNCHANGED <<status, state, wk, mrs>>
    BY <1>3, <1>t DEF Publish, FixTypeOK, Runs
  <2> QED
    BY <2>1 DEF StateInv, Unsettled, StateShown
<1>4. ASSUME NEW w \in Workers, wk'[w] \notin {"idle", "announce", "announce_failure"}
      PROVE  StateInv'
  BY <1>4 DEF StateInv, Unsettled
<1>5. ASSUME NEW w \in Workers, NEW r \in Runs, TakeRun(w, r)
      PROVE  StateInv'
  BY <1>5, <1>t, <1>4 DEF TakeRun, Steps, FixTypeOK
<1>6. ASSUME NEW w \in Workers, StartRun(w)
      PROVE  StateInv'
  <2>1. CASE Steps(w, "start", "analyze")
    BY <1>t, <2>1, <1>4 DEF Steps, FixTypeOK
  <2>2. CASE orphan' = orphan \cup {on[w]}
    BY <2>2 DEF StateInv, Unsettled
  <2> QED
    BY <1>6, <2>1, <2>2 DEF StartRun
<1>7. ASSUME NEW w \in Workers, NEW from \in {"analyze", "generate", "propose"}, NEW s \in Active,
             NEW to \in {"generate", "propose", "open"}, Advance(w, from, s, to)
      PROVE  StateInv'
  <2>1. wk'[w] \in {"generate", "propose", "open", "fail"}
    BY <1>7, <1>t DEF Advance, Steps, FixTypeOK
  <2> QED
    BY <2>1, <1>4
<1>8. ASSUME NEW w \in Workers, OpenMR(w) \/ Complete(w) \/ Fail(w)
      PROVE  StateInv'
  <2>1. wk'[w] \in {"complete", "fail", "record", "record_failure"}
    BY <1>8, <1>t DEF OpenMR, Complete, Fail, Steps, FixTypeOK
  <2> QED
    BY <2>1, <1>4
<1>9. ASSUME NEW w \in Workers, RecordMR(w)
      PROVE  StateInv'
  <2>1. on[w] \in Runs /\ status[on[w]] = "completed" /\ mrs[on[w]] > 0
    BY <1>9, <1>t DEF RecordMR, Steps, StatusInv
  <2> QED
    BY <1>9, <2>1 DEF RecordMR, StateInv, StateShown
<1>10. ASSUME NEW w \in Workers, RecordFailure(w)
       PROVE  StateInv'
  <2>1. on[w] \in Runs /\ wk'[w] = "announce_failure" /\ state' = "failed"
        /\ UNCHANGED <<status, mrs>>
    BY <1>10, <1>t DEF RecordFailure, Steps, FixTypeOK
  <2>2. status[on[w]] = "failed"
    BY <1>10 DEF RecordFailure, Steps, StatusInv
  <2> QED
    BY <2>1, <2>2 DEF StateInv, StateShown
<1>11. ASSUME NEW w \in Workers, Announce(w)
       PROVE  StateInv'
  <2>1. CASE Steps(w, "announce", "fail")
    BY <1>t, <2>1, <1>4 DEF Steps, FixTypeOK
  <2>2. ASSUME NEW from \in {"announce", "announce_failure"}, EndsTask(w, from, "ended")
        PROVE  StateInv'
    <3>1. /\ wk[w] = from /\ \A v \in Workers \ {w} : wk'[v] = wk[v]
          /\ \A r \in Runs : task[r] = "queued" => task'[r] = "queued"
      <4>1. wk[w] = from /\ on[w] \in Runs /\ task[on[w]] = "running"
        BY <1>t, <2>2 DEF EndsTask, Steps, FixTInv, TaskInv, FixTypeOK
      <4> QED
        BY <1>t, <2>2, <4>1 DEF EndsTask, Steps, FixTypeOK
    <3>2. UNCHANGED <<status, state, mrs, orphan>>
      BY <1>11 DEF Announce
    <3>3. Unsettled => Unsettled'
      BY <2>2, <3>1, <3>2 DEF Unsettled
    <3> QED
      BY <3>2, <3>3 DEF StateInv, StateShown
  <2> QED
    BY <1>11, <2>1, <2>2 DEF Announce
<1>12. ASSUME NEW w \in Workers, CrashRun(w)
       PROVE  StateInv'
  <2>1. on[w] \in Runs
    BY <1>12, <1>t DEF CrashRun, FixTypeOK
  <2>2. CASE EndsTask(w, wk[w], "queued")
    <3>1. task'[on[w]] = "queued"
      BY <1>t, <2>1, <2>2 DEF EndsTask, FixTypeOK
    <3> QED
      BY <2>1, <3>1 DEF StateInv, Unsettled
  <2>3. CASE orphan' = orphan \cup {on[w]}
    BY <2>3 DEF StateInv, Unsettled
  <2> QED
    BY <1>12, <2>2, <2>3 DEF CrashRun
<1>13. CASE UNCHANGED fixVars
  BY <1>13 DEF fixVars, StateInv, Unsettled, StateShown
<1> QED
  BY <1>1, <1>2, <1>3, <1>5, <1>6, <1>7, <1>8, <1>9, <1>10, <1>11, <1>12, <1>13, WorkerSteps
  DEF FixNext, Trigger

(* When no task waits or runs, and none was lost or could not start, the   *)
(* state of the issue is that of a run that ended so: "merge request" only *)
(* over a completed run with one, "failed" only over a failed run.         *)
THEOREM QuietStateTrue == FixSpec => []StateSettles
<1>1. FixInit => FixTInv /\ StatusInv /\ StateInv
  BY InitFixTInv, InitStatusInv, InitStateInv
<1>2. FixTInv /\ StatusInv /\ StateInv /\ [FixNext]_fixVars => (FixTInv /\ StatusInv /\ StateInv)'
  BY StepFixTInv, StepStatusInv, StepStateInv
<1>3. ASSUME FixTInv, StateInv
      PROVE  StateSettles
  <2> SUFFICES ASSUME orphan = {}, \A r \in Runs : task[r] \in {"none", "ended"}
               PROVE  ~Unsettled
    BY <1>3 DEF StateSettles, StateInv, StateShown
  <2>1. \A w \in Workers : wk[w] = "idle"
    BY <1>3 DEF FixTInv, FixTypeOK, TaskInv
  <2> QED
    BY <2>1 DEF Unsettled
<1> QED
  BY <1>1, <1>2, <1>3, PTL DEF FixSpec

(***************************************************************************)
(* The query cache.  First the tables of Screens and Api: what a mutation  *)
(* changes, it also invalidates or has refetched, but for Gap.  Then the   *)
(* cache: a write is owed only where that shows.                           *)
(***************************************************************************)

-----------------------------------------------------------------------------
(* The tables of the screens.                                              *)

AllQueries   == UNION {Tabs[s].queries : s \in DOMAIN Tabs}
AllMutations == {MarkSeen} \cup UNION {Tabs[s].mutations : s \in DOMAIN Tabs}

(* The keys of the queries that read each table of the server.             *)
Readers ==
  [orgs |-> {"organizations"}, roles |-> {"organizations", "members"},
   tokens |-> {"api-tokens"}, members |-> {"members"}, invites |-> {"invites"},
   integrations |-> {"integrations", "issue-repos"}, repositories |-> {"issue-repos"},
   channels |-> {"channels"}, rules |-> {"alert-rules"},
   deliveries |-> {"notification-logs"}, agents |-> {"ai-configs"},
   runs |-> {"autofix-runs"}, projects |-> {"projects", "project-stats"},
   issues |-> {"projects", "issues", "issues_overview", "issue"},
   seen |-> {"issues", "issues_overview"},
   bookmarks |-> {"issues", "issues_overview", "issue"}, autofix |-> {"issue"},
   events |-> {"project-stats", "issue-trends", "issue-events", "event", "issue-series"},
   comments |-> {"issue-comments"}, links |-> {"issue-external"}, tracker |-> {}]

Known(q) == /\ q.form \in {"rows", "answer"}
            /\ \A r \in q.reads : r \in DOMAIN Readers /\ q.key \in Readers[r]

IssueButtons ==
  LET invalidate == {"issue", "issues"} IN
  {Mutation("resolve", E!issues.resolve, invalidate),
   Mutation("unresolve", E!issues.unresolve, invalidate),
   Mutation("ignore", E!issues.ignore, invalidate),
   Mutation("assign", E!issues.assign, invalidate),
   Mutation("archive", E!issues.archive, invalidate),
   Mutation("bookmark", E!issues.bookmark, invalidate),
   Mutation("autofix", E!issueAutofix.autofix, invalidate)}

IssueQueries == {Raw("issue", E!issues.get),
                 unwrapList(Raw("ai-configs", E!aiConfigs.list)),
                 AssignDropdown, IssueTrendChart}

LEMMA IssueParts ==
  /\ IssueDetailPage.queries =
       IssueQueries \cup CommentsTab.queries \cup ExternalIssueSection.queries \cup EventsTab
  /\ IssueDetailPage.mutations =
       IssueButtons \cup CommentsTab.mutations \cup ExternalIssueSection.mutations
<1> DEFINE own == Screen(IssueQueries, IssueButtons)
           parts == {own, CommentsTab, ExternalIssueSection}
<1>1. /\ IssueDetailPage.queries = EventsTab \cup UNION {s.queries : s \in parts}
      /\ IssueDetailPage.mutations = UNION {s.mutations : s \in parts}
  BY DEF IssueDetailPage, IssueButtons, IssueQueries, Screen
<1>2. own.queries = IssueQueries /\ own.mutations = IssueButtons
  BY DEF Screen
<1> HIDE DEF own
<1> QED BY <1>1, <1>2

LEMMA TabsKnown == \A q \in AllQueries : Known(q)
<1> USE DEF Known, Readers, Screen, Query, Raw, Unwrapped, unwrapList, E!Lists, E!Reads, E!Changes
<1>1. \A q \in Shell.queries : Known(q)
  BY DEF Shell, OrgProvider, ProjectProvider, E!orgs, E!projects
<1>2. \A q \in McpTab.queries : Known(q)
  BY DEF McpTab, E!tokens
<1>3. \A q \in MembersTab.queries : Known(q)
  BY DEF MembersTab, E!orgs
<1>4. \A q \in IntegrationsTab.queries : Known(q)
  BY DEF IntegrationsTab, E!integrations
<1>5. \A q \in WebhooksTab.queries : Known(q)
  BY DEF WebhooksTab, DeliveryLog, E!channels, E!alertRules, E!notificationLogs
<1>6. \A q \in AiTab.queries : Known(q)
  BY DEF AiTab, E!aiConfigs
<1>7. \A q \in ProjectsPage.queries \cup OverviewPage.queries \cup AiFixesPage.queries : Known(q)
  BY DEF ProjectsPage, OverviewPage, AiFixesPage, E!projects, E!issues, E!autofixRuns
<1>8. \A q \in IssuesPage.queries : Known(q)
  BY DEF IssuesPage, AssignDropdown, E!issues, E!orgs
<1>9. \A q \in CommentsTab.queries \cup ExternalIssueSection.queries \cup EventsTab : Known(q)
  BY DEF CommentsTab, ExternalIssueSection, EventsTab, E!issues, E!issueTracker
<1>10. \A q \in IssueDetailPage.queries : Known(q)
  <2>2. Known(Raw("issue", E!issues.get)) /\ Known(unwrapList(Raw("ai-configs", E!aiConfigs.list)))
    BY DEF E!issues, E!aiConfigs
  <2>3. Known(AssignDropdown) /\ Known(IssueTrendChart)
    BY DEF AssignDropdown, IssueTrendChart, E!issues, E!orgs
  <2> QED BY <1>9, <2>2, <2>3, IssueParts DEF IssueQueries
<1>11. OrganizationTab.queries = {}
  BY DEF OrganizationTab
<1> HIDE DEF Known
<1> QED
  BY <1>1, <1>2, <1>3, <1>4, <1>5, <1>6, <1>7, <1>8, <1>10, <1>11 DEF AllQueries, Tabs

-----------------------------------------------------------------------------
(* A mutation keeps up to date, by what it invalidates or has refetched,   *)
(* every query that reads what it changes, but for the gaps; and has only  *)
(* queries of the shell refetched, which every screen shows.               *)
Keeps(m) ==
  /\ m.refetched \subseteq {"organizations"}
  /\ \A r \in m.changes \cap DOMAIN Readers : \A k \in Readers[r] :
       Gap(m, k) \/ k \in Matching(m.invalidated) \/ k \in m.refetched

(* The screen of each mutation: no name is used on two of them.            *)
Home ==
  [create_org |-> "shell", rename |-> "organization", set_retention |-> "organization",
   create_token |-> "mcp", remove_token |-> "mcp",
   invite |-> "members", update_role |-> "members", resend |-> "members",
   connect |-> "integrations", sync |-> "integrations", disconnect |-> "integrations",
   replay |-> "webhooks", create_channel |-> "webhooks", remove_channel |-> "webhooks",
   create_rule |-> "webhooks", remove_rule |-> "webhooks",
   save_agent |-> "ai", remove_agent |-> "ai", create_project |-> "projects",
   list_status |-> "issues", list_priority |-> "issues", bulk |-> "issues",
   list_assign |-> "issues",
   resolve |-> "issue", unresolve |-> "issue", ignore |-> "issue", assign |-> "issue",
   archive |-> "issue", bookmark |-> "issue", autofix |-> "issue", comment |-> "issue",
   create_external |-> "issue", link_external |-> "issue", mark_seen |-> "effect"]

Ordered(ms, home) ==
  /\ \A m \in ms : Keeps(m) /\ m.name \in DOMAIN Home /\ Home[m.name] = home
  /\ \A m, n \in ms : m.name = n.name => m = n

LEMMA ReadersAre ==
  /\ DOMAIN Readers = {"orgs", "roles", "tokens", "members", "invites", "integrations",
                       "repositories", "channels", "rules", "deliveries", "agents", "runs",
                       "projects", "issues", "seen", "bookmarks", "autofix", "events",
                       "comments", "links", "tracker"}
  /\ Readers["orgs"] = {"organizations"} /\ Readers["roles"] = {"organizations", "members"}
  /\ Readers["tokens"] = {"api-tokens"} /\ Readers["members"] = {"members"}
  /\ Readers["invites"] = {"invites"} /\ Readers["integrations"] = {"integrations", "issue-repos"}
  /\ Readers["repositories"] = {"issue-repos"} /\ Readers["channels"] = {"channels"}
  /\ Readers["rules"] = {"alert-rules"} /\ Readers["deliveries"] = {"notification-logs"}
  /\ Readers["agents"] = {"ai-configs"} /\ Readers["runs"] = {"autofix-runs"}
  /\ Readers["projects"] = {"projects", "project-stats"}
  /\ Readers["issues"] = {"projects", "issues", "issues_overview", "issue"}
  /\ Readers["seen"] = {"issues", "issues_overview"}
  /\ Readers["bookmarks"] = {"issues", "issues_overview", "issue"}
  /\ Readers["autofix"] = {"issue"} /\ Readers["comments"] = {"issue-comments"}
  /\ Readers["links"] = {"issue-external"} /\ Readers["tracker"] = {}
BY DEF Readers

LEMMA TabsOrdered == \A s \in DOMAIN Tabs : Ordered(Tabs[s].mutations, s)
<1> USE DEF Screen, Mutation, Refetching, E!Changes, E!Lists, E!Reads
<1>1. Ordered(Shell.mutations, "shell")
  <2>1. \A m, n \in Shell.mutations : m.name = n.name => m = n
    BY DEF Shell
  <2>2. \A m \in Shell.mutations : m.name \in DOMAIN Home /\ Home[m.name] = "shell"
    BY DEF Shell, Home
  <2>3. \A m \in Shell.mutations : Keeps(m)
    BY ReadersAre DEF Shell, E!orgs, Keeps, Gap, ListWrites, Matching
  <2> QED BY <2>1, <2>2, <2>3 DEF Ordered
<1>2. Ordered(OrganizationTab.mutations, "organization")
  <2>1. \A m, n \in OrganizationTab.mutations : m.name = n.name => m = n
    BY DEF OrganizationTab, RetentionCard
  <2>2. \A m \in OrganizationTab.mutations : m.name \in DOMAIN Home /\ Home[m.name] = "organization"
    BY DEF OrganizationTab, RetentionCard, Home
  <2>3. \A m \in OrganizationTab.mutations : Keeps(m)
    BY ReadersAre DEF OrganizationTab, RetentionCard, E!orgs, Keeps, Gap, ListWrites, Matching
  <2> QED BY <2>1, <2>2, <2>3 DEF Ordered
<1>3. Ordered(McpTab.mutations, "mcp")
  <2>1. \A m, n \in McpTab.mutations : m.name = n.name => m = n
    BY DEF McpTab
  <2>2. \A m \in McpTab.mutations : m.name \in DOMAIN Home /\ Home[m.name] = "mcp"
    BY DEF McpTab, Home
  <2>3. \A m \in McpTab.mutations : Keeps(m)
    BY ReadersAre DEF McpTab, E!tokens, Keeps, Gap, ListWrites, Matching
  <2> QED BY <2>1, <2>2, <2>3 DEF Ordered
<1>4. Ordered(MembersTab.mutations, "members")
  <2>1. \A m, n \in MembersTab.mutations : m.name = n.name => m = n
    BY DEF MembersTab, InviteDialog
  <2>2. \A m \in MembersTab.mutations : m.name \in DOMAIN Home /\ Home[m.name] = "members"
    BY DEF MembersTab, InviteDialog, Home
  <2>3. \A m \in MembersTab.mutations : Keeps(m)
    BY ReadersAre DEF MembersTab, InviteDialog, E!orgs, Keeps, Gap, ListWrites, Matching
  <2> QED BY <2>1, <2>2, <2>3 DEF Ordered
<1>5. Ordered(IntegrationsTab.mutations, "integrations")
  <2>1. \A m, n \in IntegrationsTab.mutations : m.name = n.name => m = n
    BY DEF IntegrationsTab
  <2>2. \A m \in IntegrationsTab.mutations : m.name \in DOMAIN Home /\ Home[m.name] = "integrations"
    BY DEF IntegrationsTab, Home
  <2>3. \A m \in IntegrationsTab.mutations : Keeps(m)
    BY ReadersAre DEF IntegrationsTab, E!integrations, Keeps, Gap, ListWrites, Matching
  <2> QED BY <2>1, <2>2, <2>3 DEF Ordered
<1>6. Ordered(WebhooksTab.mutations, "webhooks")
  <2>1. \A m, n \in WebhooksTab.mutations : m.name = n.name => m = n
    BY DEF WebhooksTab, ChannelsCard, RulesCard, DeliveryLog
  <2>2. \A m \in WebhooksTab.mutations : m.name \in DOMAIN Home /\ Home[m.name] = "webhooks"
    BY DEF WebhooksTab, ChannelsCard, RulesCard, DeliveryLog, Home
  <2>3. \A m \in WebhooksTab.mutations : Keeps(m)
    BY ReadersAre DEF WebhooksTab, ChannelsCard, RulesCard, DeliveryLog, E!channels, E!alertRules, E!notificationLogs, Keeps, Gap, ListWrites, Matching
  <2> QED BY <2>1, <2>2, <2>3 DEF Ordered
<1>7. Ordered(AiTab.mutations, "ai")
  <2>1. \A m, n \in AiTab.mutations : m.name = n.name => m = n
    BY DEF AiTab, AgentDialog
  <2>2. \A m \in AiTab.mutations : m.name \in DOMAIN Home /\ Home[m.name] = "ai"
    BY DEF AiTab, AgentDialog, Home
  <2>3. \A m \in AiTab.mutations : Keeps(m)
    BY ReadersAre DEF AiTab, AgentDialog, E!aiConfigs, Keeps, Gap, ListWrites, Matching
  <2> QED BY <2>1, <2>2, <2>3 DEF Ordered
<1>8. Ordered(ProjectsPage.mutations, "projects")
  <2>1. \A m, n \in ProjectsPage.mutations : m.name = n.name => m = n
    BY DEF ProjectsPage
  <2>2. \A m \in ProjectsPage.mutations : m.name \in DOMAIN Home /\ Home[m.name] = "projects"
    BY DEF ProjectsPage, Home
  <2>3. \A m \in ProjectsPage.mutations : Keeps(m)
    BY ReadersAre DEF ProjectsPage, E!projects, Keeps, Gap, ListWrites, Matching
  <2> QED BY <2>1, <2>2, <2>3 DEF Ordered
<1>9. Ordered(IssuesPage.mutations, "issues")
  <2>1. \A m, n \in IssuesPage.mutations : m.name = n.name => m = n
    BY DEF IssuesPage, ListInvalidates, RowActions, PriorityCell, BulkBar
  <2>2. \A m \in IssuesPage.mutations : m.name \in DOMAIN Home /\ Home[m.name] = "issues"
    BY DEF IssuesPage, ListInvalidates, RowActions, PriorityCell, BulkBar, Home
  <2>3. \A m \in IssuesPage.mutations : Keeps(m)
    BY ReadersAre DEF IssuesPage, ListInvalidates, RowActions, PriorityCell, BulkBar, E!issues, Keeps, Gap, ListWrites, Matching
  <2> QED BY <2>1, <2>2, <2>3 DEF Ordered
<1>10. Ordered(IssueDetailPage.mutations, "issue")
  <2> DEFINE All == IssueButtons \cup CommentsTab.mutations \cup ExternalIssueSection.mutations
  <2>1. \A m, n \in All : m.name = n.name => m = n
    BY SMTT(30) DEF IssueButtons, CommentsTab, ExternalIssueSection, CreateTab, LinkTab,
           E!issueTracker, E!issueAutofix
  <2>2. \A m \in All : m.name \in DOMAIN Home /\ Home[m.name] = "issue"
    BY DEF IssueButtons, CommentsTab, ExternalIssueSection, CreateTab, LinkTab, Home
  <2>3. \A m \in IssueButtons : Keeps(m)
    BY ReadersAre DEF IssueButtons, E!issues, E!issueAutofix, Keeps, Gap, ListWrites, Matching
  <2>4. \A m \in CommentsTab.mutations \cup ExternalIssueSection.mutations : Keeps(m)
    BY ReadersAre DEF CommentsTab, ExternalIssueSection, CreateTab, LinkTab, E!issues,
       E!issueTracker, Keeps, Gap, ListWrites, Matching
  <2> QED BY <2>1, <2>2, <2>3, <2>4, IssueParts DEF Ordered
<1>11. OverviewPage.mutations = {} /\ AiFixesPage.mutations = {}
  BY DEF OverviewPage, AiFixesPage
<1>12. \A s : Ordered({}, s)
  BY DEF Ordered
<1> QED
  BY <1>1, <1>2, <1>3, <1>4, <1>5, <1>6, <1>7, <1>8, <1>9, <1>10, <1>11, <1>12 DEF Tabs

LEMMA MarkSeenIs ==
  /\ MarkSeen.name = "mark_seen" /\ MarkSeen.refetched = {} /\ MarkSeen.invalidated = {"issues"}
  /\ Keeps(MarkSeen) /\ "mark_seen" \in DOMAIN Home /\ Home["mark_seen"] = "effect"
<1>1. MarkSeen.name = "mark_seen" /\ MarkSeen.refetched = {} /\ MarkSeen.invalidated = {"issues"}
      /\ MarkSeen.changes = {"seen"}
  BY DEF MarkSeen, Mutation, E!issues
<1>2. Keeps(MarkSeen)
  BY <1>1, ReadersAre DEF Keeps, Matching
<1>3. "mark_seen" \in DOMAIN Home /\ Home["mark_seen"] = "effect"
  BY DEF Home
<1> QED BY <1>1, <1>2, <1>3

(* A name stands for one mutation.                                         *)
LEMMA NamesUnique == \A m, n \in AllMutations : m.name = n.name => m = n
<1>1. ASSUME NEW m \in AllMutations
      PROVE  m = MarkSeen \/ \E s \in DOMAIN Tabs : m \in Tabs[s].mutations /\ Home[m.name] = s
  BY TabsOrdered DEF AllMutations, Ordered
<1>2. "effect" \notin DOMAIN Tabs
  BY DEF Tabs
<1> QED BY <1>1, <1>2, TabsOrdered, MarkSeenIs DEF Ordered

(* What a mutation must keep up to date, it does.                          *)
LEMMA PromisesKept ==
  ASSUME NEW m \in AllMutations, NEW q \in AllQueries,
         q.reads \cap m.changes # {}, ~Gap(m, q.key)
  PROVE  q.key \in Matching(m.invalidated) \/ q.key \in m.refetched
<1>1. Keeps(m)
  BY TabsOrdered, MarkSeenIs DEF AllMutations, Ordered
<1>2. PICK r \in q.reads : r \in m.changes
  OBVIOUS
<1>3. r \in DOMAIN Readers /\ q.key \in Readers[r]
  BY TabsKnown DEF Known
<1> QED BY <1>1, <1>2, <1>3 DEF Keeps

LEMMA OnTabs ==
  /\ Shell.queries \subseteq AllQueries
  /\ \A q \in AllQueries : q.form \in {"rows", "answer"}
  /\ \E q \in Shell.queries : q.key = "organizations"
  /\ \A q \in Tabs["issue"].queries \cup Shell.queries : q.key \notin {"issues", "issues_overview"}
<1>1. "shell" \in DOMAIN Tabs /\ Tabs["shell"] = Shell /\ Tabs["issue"] = IssueDetailPage
  BY DEF Tabs
<1>2. Shell.queries \subseteq AllQueries
  BY <1>1 DEF AllQueries
<1>3. \A q \in AllQueries : q.form \in {"rows", "answer"}
  BY TabsKnown DEF Known
<1>4. \E q \in Shell.queries : q.key = "organizations"
  <2>1. Unwrapped("organizations", E!orgs.list) \in Shell.queries
    BY DEF Shell, Screen, OrgProvider
  <2>2. Unwrapped("organizations", E!orgs.list).key = "organizations"
    BY DEF Unwrapped, Query
  <2> QED BY <2>1, <2>2
<1>5. \A q \in Shell.queries : q.key \notin {"issues", "issues_overview"}
  BY DEF Shell, Screen, OrgProvider, ProjectProvider, Unwrapped, Query
<1>6. \A q \in IssueQueries \cup CommentsTab.queries : q.key \notin {"issues", "issues_overview"}
  BY DEF IssueQueries, CommentsTab, AssignDropdown, IssueTrendChart, Screen, Raw, Query, unwrapList
<1>7. \A q \in ExternalIssueSection.queries \cup EventsTab : q.key \notin {"issues", "issues_overview"}
  BY DEF ExternalIssueSection, EventsTab, Screen, Raw, Query
<1> QED BY <1>1, <1>2, <1>3, <1>4, <1>5, <1>6, <1>7, IssueParts

-----------------------------------------------------------------------------
(* A journey: its screens are those of Tabs, and what it promises is kept. *)
Journey ==
  /\ Scopes # {}
  /\ \A s \in DOMAIN journey.screens : s \in DOMAIN Tabs /\ journey.screens[s] = Tabs[s]
  /\ \A x \in Slots : \E s \in Scopes : x = SlotIn(x[1], s)
  /\ \A p \in journey.concerns : p[1] \in Names
  /\ \A w \in Names : journey.mutations[w].refetched \subseteq {"organizations"}
  /\ \A w, k : <<w, k>> \in journey.promises =>
       /\ w \in Names
       /\ k \in Matching(journey.mutations[w].invalidated) \/ k \in journey.mutations[w].refetched
       /\ w = "mark_seen" => k \in Matching({"issues"})

LEMMA JourneyOfTables ==
  ASSUME NEW j \in Journeys, journey = Tables(j)
  PROVE  Journey
<1> DEFINE tabs    == {Tabs[s] : s \in j.screens} \cup {Shell}
           queries == UNION {t.queries : t \in tabs}
           used    == {m \in UNION {t.mutations : t \in tabs} : m.name \in j.writes}
                      \cup {m \in {MarkSeen} : "issue" \in j.screens}
           promised == {p \in used \X queries : p[2].reads \cap p[1].changes # {}
                                                /\ ~Gap(p[1], p[2].key)}
           twoForms == {q \in queries : \E r \in queries : r.key = q.key /\ r.form # q.form}
           keys == {p[2].key : p \in promised} \cup {q.key : q \in twoForms}
                   \cup ({"issue"} \cap {q.key : q \in queries})
<1>1. j.screens \subseteq DOMAIN Tabs /\ j.scopes # {}
  BY JourneysAssumption
<1>2. "shell" \in DOMAIN Tabs /\ Tabs["shell"] = Shell
  BY DEF Tabs
<1>3. queries \subseteq AllQueries
  BY <1>1, <1>2 DEF AllQueries
<1>4. used \subseteq AllMutations
  BY <1>1, <1>2 DEF AllMutations
<1>5. /\ journey.screens = [s \in j.screens |-> Tabs[s]]
      /\ journey.scopes = j.scopes
      /\ journey.mutations = [w \in {m.name : m \in used} |-> CHOOSE m \in used : m.name = w]
      /\ journey.concerns = {<<p[1].name, p[2].key>> : p \in
                               {r \in used \X queries : r[2].reads \cap r[1].changes # {}}}
      /\ journey.promises = {<<p[1].name, p[2].key>> : p \in promised}
  BY DEF Tables
<1>6. journey.slots = {SlotIn(k, s) : k \in keys, s \in j.scopes}
  BY DEF Tables
<1> HIDE DEF used, queries, keys
<1>7. ASSUME NEW m \in used
      PROVE  m.name \in Names /\ journey.mutations[m.name] = m
  <2>1. \A n \in used : n.name = m.name => n = m
    BY <1>4, NamesUnique
  <2>2. (CHOOSE n \in used : n.name = m.name) = m
    BY <2>1
  <2> QED BY <1>5, <2>2 DEF Names
<1>8. \A w \in Names : \E m \in used : w = m.name
  BY <1>5 DEF Names
<1>a. Scopes # {} /\ \A s \in DOMAIN journey.screens : s \in DOMAIN Tabs /\ journey.screens[s] = Tabs[s]
  BY <1>1, <1>5 DEF Scopes
<1>b. \A x \in Slots : \E s \in Scopes : x = SlotIn(x[1], s)
  BY <1>5, <1>6 DEF Slots, Scopes, SlotIn
<1>c. ASSUME NEW p \in journey.concerns PROVE p[1] \in Names
  <2>1. PICK r \in used \X queries : p = <<r[1].name, r[2].key>>
    BY <1>5
  <2> QED BY <1>7, <2>1
<1>d. \A w \in Names : journey.mutations[w].refetched \subseteq {"organizations"}
  <2>1. \A m \in AllMutations : Keeps(m)
    BY TabsOrdered, MarkSeenIs DEF AllMutations, Ordered
  <2> QED BY <1>4, <1>7, <1>8, <2>1 DEF Keeps
<1>e. ASSUME NEW w, NEW k, <<w, k>> \in journey.promises
      PROVE  /\ w \in Names
             /\ k \in Matching(journey.mutations[w].invalidated) \/ k \in journey.mutations[w].refetched
             /\ w = "mark_seen" => k \in Matching({"issues"})
  <2>1. PICK m \in used, q \in queries :
           w = m.name /\ k = q.key /\ q.reads \cap m.changes # {} /\ ~Gap(m, q.key)
    BY <1>5, <1>e
  <2>2. q.key \in Matching(m.invalidated) \/ q.key \in m.refetched
    BY <1>3, <1>4, <2>1, PromisesKept
  <2>3. w = "mark_seen" => m = MarkSeen
    BY <1>4, <2>1, NamesUnique, MarkSeenIs DEF AllMutations
  <2> QED BY <1>7, <2>1, <2>2, <2>3, MarkSeenIs
<1> QED BY <1>a, <1>b, <1>c, <1>d, <1>e DEF Journey

-----------------------------------------------------------------------------
(* The invariant: only an answer lags, data that is not there does not,    *)
(* and of a write that is owed an entry lacks nothing, or is invalid, or   *)
(* is being fetched by a request that does not lack it.                    *)
Quiet(e, f) == (f.phase # "answered" => f.lag = {}) /\ (~e.held => e.lag = {})
Shows(w, e, f) == /\ f.phase = "answered" => w \notin f.lag
                  /\ w \in e.lag /\ f.phase = "idle" => e.invalid

CacheTInv == Journey /\ CacheTypeOK /\ \A x \in Slots : Quiet(entry[x], fetch[x])
OwesInv   == \A p \in owed : Shows(p[1], entry[p[2]], fetch[p[2]])
CacheInv  == CacheTInv /\ OwesInv

LEMMA Typed ==
  ASSUME CacheTInv
  PROVE  /\ Journey /\ screen \in DOMAIN journey.screens /\ scope \in Scopes
         /\ entry \in [Slots -> Entry] /\ fetch \in [Slots -> Fetch]
         /\ flight \in [Names -> Flight] /\ owed \subseteq Names \X Slots
         /\ \A x \in Slots : Quiet(entry[x], fetch[x])
BY DEF CacheTInv, CacheTypeOK

LEMMA SameJourney ==
  ASSUME UNCHANGED journey
  PROVE  Slots' = Slots /\ Names' = Names /\ Scopes' = Scopes /\ Entry' = Entry
         /\ Fetch' = Fetch /\ Flight' = Flight /\ (Journey => Journey')
BY DEF Slots, Names, Scopes, Entry, Fetch, Flight, Journey

LEMMA Kept ==
  ASSUME UNCHANGED journey, Journey,
         screen' \in DOMAIN journey.screens, scope' \in Scopes,
         entry' \in [Slots -> Entry], fetch' \in [Slots -> Fetch],
         flight' \in [Names -> Flight], owed' \subseteq Names \X Slots,
         \A x \in Slots : Quiet(entry'[x], fetch'[x]),
         \A p \in owed' : Shows(p[1], entry'[p[2]], fetch'[p[2]])
  PROVE  CacheInv'
<1>1. CacheTypeOK'
  BY SameJourney DEF CacheTypeOK
<1>2. Journey' /\ \A x \in Slots' : Quiet(entry[x], fetch[x])'
  BY SameJourney DEF Quiet
<1>3. OwesInv'
  BY DEF OwesInv, Shows
<1> QED BY <1>1, <1>2, <1>3 DEF CacheInv, CacheTInv

(* What the server applies reaches the lags of what was read before.       *)
LEMMA LagEntriesAre ==
  ASSUME CacheTInv, NEW w, NEW s
  PROVE  /\ LagEntries(w, s) \in [Slots -> Entry]
         /\ \A x \in Slots : LET e == LagEntries(w, s)[x] IN
              /\ e.held = entry[x].held /\ e.invalid = entry[x].invalid
              /\ e.lag \ {w} = entry[x].lag \ {w}
              /\ ~entry[x].held => e.lag = entry[x].lag
<1>1. ASSUME NEW x \in Slots
      PROVE  LET e == LagEntries(w, s)[x] IN
              /\ e \in Entry
              /\ e.held = entry[x].held /\ e.invalid = entry[x].invalid
              /\ e.lag \ {w} = entry[x].lag \ {w}
              /\ ~entry[x].held => e.lag = entry[x].lag
  <2>1. Behind(w, s, x) => w \in Names
    BY Typed DEF Behind, Journey
  <2>2. entry[x] \in Entry
    BY Typed
  <2> QED BY <2>1, <2>2 DEF LagEntries, Entry
<1> QED BY <1>1 DEF LagEntries

LEMMA LagFetchesAre ==
  ASSUME CacheTInv, NEW w, NEW s, NEW fs \in [Slots -> Fetch]
  PROVE  /\ LagFetches(w, s, fs) \in [Slots -> Fetch]
         /\ \A x \in Slots : LET f == LagFetches(w, s, fs)[x] IN
              /\ f.phase = fs[x].phase /\ f.lag \ {w} = fs[x].lag \ {w}
              /\ fs[x].phase # "answered" => f.lag = fs[x].lag
<1>1. ASSUME NEW x \in Slots
      PROVE  LET f == LagFetches(w, s, fs)[x] IN
              /\ f \in Fetch
              /\ f.phase = fs[x].phase /\ f.lag \ {w} = fs[x].lag \ {w}
              /\ fs[x].phase # "answered" => f.lag = fs[x].lag
  <2>1. Behind(w, s, x) => w \in Names
    BY Typed DEF Behind, Journey
  <2>2. fs[x] \in Fetch
    OBVIOUS
  <2> QED BY <2>1, <2>2 DEF LagFetches, Fetch
<1> QED BY <1>1 DEF LagFetches

LEMMA InvalidatedAre ==
  ASSUME NEW es \in [Slots -> Entry], NEW targets
  PROVE  /\ InvalidatedEntries(es, targets) \in [Slots -> Entry]
         /\ \A x \in Slots : LET e == InvalidatedEntries(es, targets)[x] IN
              /\ e.held = es[x].held /\ e.lag = es[x].lag
              /\ e.invalid = IF x \in targets THEN es[x].held ELSE es[x].invalid
<1>1. ASSUME NEW x \in Slots
      PROVE  LET e == InvalidatedEntries(es, targets)[x] IN
              /\ e \in Entry
              /\ e.held = es[x].held /\ e.lag = es[x].lag
              /\ e.invalid = IF x \in targets THEN es[x].held ELSE es[x].invalid
  <2>1. es[x] \in Entry
    OBVIOUS
  <2> QED BY <2>1 DEF InvalidatedEntries, Entry
<1> QED BY <1>1 DEF InvalidatedEntries

(* A fetch that is begun lacks nothing.                                    *)
LEMMA AskedIs ==
  ASSUME NEW form \in {"rows", "answer"}
  PROVE  Asked(form) \in Fetch /\ Asked(form).phase = "asked" /\ Asked(form).lag = {}
         /\ Asked(form).form = form
BY DEF Asked, NoFetch, Fetch

LEMMA FormOfIs ==
  ASSUME NEW shown, shown \subseteq AllQueries, NEW q \in shown
  PROVE  FormOf(shown, q.key) \in {"rows", "answer"}
BY OnTabs DEF FormOf

LEMMA MountedKnown ==
  ASSUME CacheTInv, NEW s \in DOMAIN journey.screens
  PROVE  journey.screens[s].queries \subseteq AllQueries /\ Mounted \subseteq AllQueries
BY Typed, OnTabs DEF Mounted, Journey, AllQueries

LEMMA MountingIs ==
  ASSUME CacheTInv, NEW shown, shown \subseteq AllQueries, NEW s
  PROVE  /\ Mounting(shown, s, fetch) \in [Slots -> Fetch]
         /\ \A x \in Slots : LET f == Mounting(shown, s, fetch)[x] IN
              f = fetch[x] \/ (f.phase = "asked" /\ f.lag = {})
<1>1. ASSUME NEW x \in Slots
      PROVE  LET f == Mounting(shown, s, fetch)[x] IN
              /\ f \in Fetch
              /\ f = fetch[x] \/ (f.phase = "asked" /\ f.lag = {})
  <2>1. fetch[x] \in Fetch
    BY Typed
  <2>2. ASSUME NEW q \in shown, SlotIn(q.key, s) = x
        PROVE  FormOf(shown, x[1]) \in {"rows", "answer"}
    BY <2>2, FormOfIs DEF SlotIn
  <2> QED BY <2>1, <2>2, AskedIs DEF Mounting
<1> QED BY <1>1 DEF Mounting

LEMMA RefetchedAre ==
  ASSUME CacheTInv, NEW targets
  PROVE  /\ Refetched(targets) \in [Slots -> Fetch]
         /\ \A x \in Slots : LET f == Refetched(targets)[x] IN
              /\ f = fetch[x] \/ (f.phase = "asked" /\ f.lag = {})
              /\ x \in targets \cap ShownSlots /\ entry[x].held => f.phase = "asked" /\ f.lag = {}
<1>1. ASSUME NEW x \in Slots
      PROVE  LET f == Refetched(targets)[x] IN
              /\ f \in Fetch
              /\ f = fetch[x] \/ (f.phase = "asked" /\ f.lag = {})
              /\ x \in targets \cap ShownSlots /\ entry[x].held => f.phase = "asked" /\ f.lag = {}
  <2>1. fetch[x] \in Fetch
    BY Typed
  <2>2. x \in ShownSlots => FormOf(Mounted, x[1]) \in {"rows", "answer"}
    BY Typed, MountedKnown, FormOfIs DEF ShownSlots, Slot, SlotIn
  <2> QED BY <2>1, <2>2, AskedIs DEF Refetched
<1> QED BY <1>1 DEF Refetched

-----------------------------------------------------------------------------
(* Initially, and after every step.                                        *)
LEMMA InitCacheInv == Init => CacheInv
<1> SUFFICES ASSUME Init PROVE CacheInv
  OBVIOUS
<1>1. Journey
  <2>1. PICK j \in Journeys : journey = Tables(j)
    BY DEF Init
  <2> QED BY <2>1, JourneyOfTables
<1>2. screen \in DOMAIN journey.screens /\ scope \in Scopes
  BY <1>1 DEF Init, Journey
<1>3. Nothing \in Entry /\ ~Nothing.held /\ Nothing.lag = {}
      /\ NoFetch \in Fetch /\ NoFetch.phase = "idle" /\ NoFetch.lag = {}
  BY DEF Nothing, Entry, NoFetch, Fetch
<1>4. ASSUME NEW x \in Slots
      PROVE  entry[x] = Nothing /\ fetch[x] \in Fetch /\ fetch[x].lag = {}
  <2>1. Mounted \subseteq AllQueries
    BY <1>1, <1>2, OnTabs DEF Mounted, Journey, AllQueries
  <2>2. x \in ShownSlots => FormOf(Mounted, x[1]) \in {"rows", "answer"}
    BY <2>1, FormOfIs DEF ShownSlots, Slot, SlotIn
  <2> QED BY <1>3, <2>2, AskedIs DEF Init
<1>5. \A w \in Names : NoFlight(scope) \in Flight
  BY <1>2 DEF NoFlight, Flight
<1>6. CacheTypeOK
  BY <1>2, <1>3, <1>4, <1>5 DEF Init, CacheTypeOK
<1> QED BY <1>1, <1>3, <1>4, <1>6 DEF Init, CacheInv, CacheTInv, OwesInv, Quiet

LEMMA ServeKeeps == ASSUME CacheInv, NEW x \in Slots, Serve(x) PROVE CacheInv'
<1> DEFINE served == [fetch EXCEPT ![x].phase = "answered"]
           seen   == x[1] = "issue" /\ ~entry[x].held
           n == MarkSeen.name
<1>1. /\ Journey /\ screen \in DOMAIN journey.screens /\ scope \in Scopes
      /\ entry \in [Slots -> Entry] /\ fetch \in [Slots -> Fetch]
      /\ flight \in [Names -> Flight] /\ owed \subseteq Names \X Slots
      /\ \A y \in Slots : Quiet(entry[y], fetch[y])
      /\ CacheTInv /\ OwesInv
  BY Typed DEF CacheInv
<1>2. fetch[x].phase = "asked" /\ fetch[x] \in Fetch
  BY <1>1 DEF Serve
<1>3. [fetch[x] EXCEPT !.phase = "answered"] \in Fetch
  BY <1>2 DEF Fetch
<1>4. /\ served \in [Slots -> Fetch]
      /\ \A y \in Slots \ {x} : served[y] = fetch[y]
      /\ served[x].phase = "answered" /\ served[x].lag = {}
  BY <1>1, <1>2, <1>3 DEF Quiet, Fetch
<1>5. UNCHANGED <<journey, screen, scope, flight>>
      /\ entry' = (IF seen THEN LagEntries(n, x[2]) ELSE entry)
      /\ fetch' = (IF seen THEN LagFetches(n, x[2], served) ELSE served)
      /\ owed' = (IF seen THEN {p \in owed : p[1] # n} ELSE owed)
  BY DEF Serve
<1> HIDE DEF served, seen, n
<1>6. CASE ~seen
  <2>1. entry' = entry /\ fetch' = served /\ owed' = owed
    BY <1>5, <1>6
  <2>2. ASSUME NEW y \in Slots PROVE Quiet(entry'[y], fetch'[y])
    BY <1>1, <1>4, <2>1 DEF Quiet
  <2>3. ASSUME NEW p \in owed' PROVE Shows(p[1], entry'[p[2]], fetch'[p[2]])
    BY <1>1, <1>4, <2>1 DEF OwesInv, Shows
  <2> QED BY <1>1, <1>4, <1>5, <2>1, <2>2, <2>3, Kept
<1>7. CASE seen
  <2>1. entry' = LagEntries(n, x[2]) /\ fetch' = LagFetches(n, x[2], served)
        /\ owed' = {p \in owed : p[1] # n}
    BY <1>5, <1>7
  <2>2. /\ entry' \in [Slots -> Entry]
        /\ \A y \in Slots : /\ entry'[y].held = entry[y].held /\ entry'[y].invalid = entry[y].invalid
                            /\ entry'[y].lag \ {n} = entry[y].lag \ {n}
                            /\ ~entry[y].held => entry'[y].lag = entry[y].lag
    BY <1>1, <2>1, LagEntriesAre
  <2>3. /\ fetch' \in [Slots -> Fetch]
        /\ \A y \in Slots : /\ fetch'[y].phase = served[y].phase
                            /\ fetch'[y].lag \ {n} = served[y].lag \ {n}
                            /\ served[y].phase # "answered" => fetch'[y].lag = served[y].lag
    BY <1>1, <1>4, <2>1, LagFetchesAre
  <2>4. ASSUME NEW y \in Slots PROVE Quiet(entry'[y], fetch'[y])
    BY <1>1, <1>4, <2>2, <2>3 DEF Quiet
  <2>5. ASSUME NEW p \in owed' PROVE Shows(p[1], entry'[p[2]], fetch'[p[2]])
    <3>1. p \in owed /\ p[1] # n /\ p[2] \in Slots
      BY <1>1, <2>1
    <3>2. Shows(p[1], entry[p[2]], fetch[p[2]])
      BY <1>1, <3>1 DEF OwesInv
    <3>3. Shows(p[1], entry[p[2]], served[p[2]])
      BY <1>1, <1>4, <3>1, <3>2 DEF Shows
    <3>4. p[1] \in entry'[p[2]].lag <=> p[1] \in entry[p[2]].lag
      BY <2>2, <3>1
    <3>5. p[1] \in fetch'[p[2]].lag <=> p[1] \in served[p[2]].lag
      BY <2>3, <3>1
    <3> QED BY <2>2, <2>3, <3>1, <3>3, <3>4, <3>5 DEF Shows
  <2>6. owed' \subseteq Names \X Slots
    BY <1>1, <2>1
  <2> QED BY <1>1, <1>5, <2>2, <2>3, <2>4, <2>5, <2>6, Kept
<1> QED BY <1>6, <1>7

(* The effect of the page of an issue: its lists are invalid if there.     *)
LEMMA SeenEffectIs ==
  ASSUME NEW es \in [Slots -> Entry], NEW s
  PROVE  /\ SeenEffect(es, s) \in [Slots -> Entry]
         /\ \A x \in Slots :
              /\ SeenEffect(es, s)[x].held = es[x].held
              /\ SeenEffect(es, s)[x].lag = es[x].lag
              /\ es[x].held /\ es[x].invalid => SeenEffect(es, s)[x].invalid
              /\ es[x].held /\ x \in Targets({"issues"}, s) => SeenEffect(es, s)[x].invalid
BY InvalidatedAre, MarkSeenIs DEF SeenEffect

LEMMA ReceiveKeeps == ASSUME CacheInv, NEW x \in Slots, Receive(x) PROVE CacheInv'
<1> DEFINE stored == [held |-> TRUE, lag |-> fetch[x].lag, invalid |-> FALSE,
                      old |-> FALSE, form |-> fetch[x].form]
           es == [entry EXCEPT ![x] = stored]
<1>1. /\ Journey /\ screen \in DOMAIN journey.screens /\ scope \in Scopes
      /\ entry \in [Slots -> Entry] /\ fetch \in [Slots -> Fetch]
      /\ flight \in [Names -> Flight] /\ owed \subseteq Names \X Slots
      /\ \A y \in Slots : Quiet(entry[y], fetch[y])
      /\ CacheTInv /\ OwesInv
  BY Typed DEF CacheInv
<1>2. fetch[x].phase = "answered" /\ fetch[x] \in Fetch
  BY <1>1 DEF Receive
<1>3. stored \in Entry /\ stored.held /\ stored.lag = fetch[x].lag
  BY <1>2 DEF Fetch, Entry
<1>4. UNCHANGED <<journey, screen, scope, flight>> /\ fetch' = [fetch EXCEPT ![x] = NoFetch]
  BY DEF Receive
<1>5. \/ entry' = es /\ owed' = owed
      \/ /\ screen = "issue" /\ x = Slot("issue")
         /\ entry' = SeenEffect(es, scope) /\ owed' = owed \cup Owes(MarkSeen.name, scope)
  BY DEF Receive
<1> HIDE DEF stored
<1>6. es \in [Slots -> Entry] /\ es[x] = stored /\ \A y \in Slots \ {x} : es[y] = entry[y]
  BY <1>1, <1>3
<1> HIDE DEF es
<1>7. /\ fetch' \in [Slots -> Fetch] /\ fetch'[x].phase = "idle" /\ fetch'[x].lag = {}
      /\ \A y \in Slots \ {x} : fetch'[y] = fetch[y]
  <2>1. NoFetch \in Fetch /\ NoFetch.phase = "idle" /\ NoFetch.lag = {}
    BY DEF NoFetch, Fetch
  <2> QED BY <1>1, <1>4, <2>1
<1>8. ASSUME NEW y \in Slots PROVE Quiet(es[y], fetch'[y])
  BY <1>1, <1>3, <1>6, <1>7 DEF Quiet
<1>9. ASSUME NEW p \in owed
      PROVE  p[2] \in Slots /\ Shows(p[1], es[p[2]], fetch'[p[2]])
  <2>1. p[2] \in Slots /\ Shows(p[1], entry[p[2]], fetch[p[2]])
    BY <1>1 DEF OwesInv
  <2> QED BY <1>2, <1>3, <1>6, <1>7, <2>1 DEF Shows
<1>10. CASE entry' = es /\ owed' = owed
  <2> HIDE DEF CacheInv
  <2> QED BY <1>1, <1>4, <1>6, <1>7, <1>8, <1>9, <1>10, Kept
<1>11. CASE /\ screen = "issue" /\ x = Slot("issue")
            /\ entry' = SeenEffect(es, scope) /\ owed' = owed \cup Owes(MarkSeen.name, scope)
  <2>1. /\ entry' \in [Slots -> Entry]
        /\ \A y \in Slots :
              /\ entry'[y].held = es[y].held /\ entry'[y].lag = es[y].lag
              /\ es[y].held /\ es[y].invalid => entry'[y].invalid
              /\ es[y].held /\ y \in Targets({"issues"}, scope) => entry'[y].invalid
    BY <1>6, <1>11, SeenEffectIs
  <2>2. ASSUME NEW y \in Slots PROVE Quiet(entry'[y], fetch'[y])
    BY <1>8, <2>1 DEF Quiet
  <2>3. ASSUME NEW p \in owed PROVE Shows(p[1], entry'[p[2]], fetch'[p[2]])
    BY <1>8, <1>9, <2>1 DEF Shows, Quiet
  <2>4. ASSUME NEW p \in Owes(MarkSeen.name, scope)
        PROVE  p \in Names \X Slots /\ Shows(p[1], entry'[p[2]], fetch'[p[2]])
    <3>1. PICK y \in Slots : /\ p = <<"mark_seen", y>>
                             /\ y[2] \in {scope, "user"} /\ <<"mark_seen", y[1]>> \in journey.promises
                             /\ entry[y].held /\ (y \in ShownSlots \/ fetch[y].phase = "idle")
      BY MarkSeenIs DEF Owes
    <3>2. "mark_seen" \in Names /\ y[1] \in Matching({"issues"})
      BY <1>1, <3>1 DEF Journey
    <3>3. y[1] \in {"issues", "issues_overview"}
      BY <3>2 DEF Matching
    <3>4. y \notin ShownSlots
      <4>1. journey.screens[screen] = Tabs["issue"]
        BY <1>1, <1>11 DEF Journey
      <4>2. \A q \in Mounted : q.key \notin {"issues", "issues_overview"}
        BY <4>1, OnTabs DEF Mounted
      <4> QED BY <3>3, <4>2 DEF ShownSlots, Slot, SlotIn
    <3>5. y # x /\ fetch'[y].phase = "idle"
      BY <1>2, <1>7, <3>1, <3>4
    <3>6. y \in Targets({"issues"}, scope)
      BY <3>1, <3>2 DEF Targets
    <3>7. entry'[y].invalid
      BY <1>6, <2>1, <3>1, <3>5, <3>6
    <3> QED BY <3>1, <3>2, <3>5, <3>7 DEF Shows
  <2>5. owed' \subseteq Names \X Slots
        /\ \A p \in owed' : Shows(p[1], entry'[p[2]], fetch'[p[2]])
    BY <1>1, <1>11, <2>3, <2>4
  <2> QED BY <1>1, <1>4, <1>7, <2>1, <2>2, <2>5, Kept
<1> QED BY <1>5, <1>10, <1>11

LEMMA FailFetchKeeps == ASSUME CacheInv, NEW x \in Slots, FailFetch(x) PROVE CacheInv'
<1>1. /\ Journey /\ screen \in DOMAIN journey.screens /\ scope \in Scopes
      /\ entry \in [Slots -> Entry] /\ fetch \in [Slots -> Fetch]
      /\ flight \in [Names -> Flight] /\ owed \subseteq Names \X Slots
      /\ \A y \in Slots : Quiet(entry[y], fetch[y])
      /\ CacheTInv /\ OwesInv
  BY Typed DEF CacheInv
<1>2. UNCHANGED <<journey, screen, scope, entry, flight>>
  BY DEF FailFetch
<1>3. fetch[x].form \in {"rows", "answer"}
  BY <1>1 DEF Fetch
<1> DEFINE again == [Asked(fetch[x].form) EXCEPT !.retried = TRUE]
<1>4. again \in Fetch /\ again.phase = "asked" /\ again.lag = {}
  BY <1>3, AskedIs DEF Fetch
<1>5. NoFetch \in Fetch /\ NoFetch.phase = "idle" /\ NoFetch.lag = {}
  BY DEF NoFetch, Fetch
<1>6. /\ fetch' = [fetch EXCEPT ![x] = IF fetch[x].retried THEN NoFetch ELSE again]
      /\ owed' = (IF fetch[x].retried THEN {p \in owed : p[2] # x \/ entry[x].invalid} ELSE owed)
  BY DEF FailFetch
<1> HIDE DEF again
<1>7. /\ fetch' \in [Slots -> Fetch] /\ \A y \in Slots \ {x} : fetch'[y] = fetch[y]
      /\ fetch'[x] = (IF fetch[x].retried THEN NoFetch ELSE again)
  BY <1>1, <1>4, <1>5, <1>6
<1>8. ASSUME NEW y \in Slots PROVE Quiet(entry'[y], fetch'[y])
  BY <1>1, <1>2, <1>4, <1>5, <1>7 DEF Quiet
<1>9. ASSUME NEW p \in owed' PROVE Shows(p[1], entry'[p[2]], fetch'[p[2]])
  <2>1. p \in owed /\ p[2] \in Slots
    BY <1>1, <1>6
  <2>2. Shows(p[1], entry[p[2]], fetch[p[2]])
    BY <1>1, <2>1 DEF OwesInv
  <2>3. fetch[x].retried /\ p[2] = x => entry[x].invalid
    BY <1>6
  <2> QED BY <1>2, <1>4, <1>5, <1>7, <2>1, <2>2, <2>3 DEF Shows
<1>10. owed' \subseteq Names \X Slots
  BY <1>1, <1>6
<1> QED BY <1>1, <1>2, <1>7, <1>8, <1>9, <1>10, Kept

LEMMA AgeKeeps == ASSUME CacheInv, NEW x \in Slots, Age(x) \/ Forget(x) PROVE CacheInv'
<1>1. /\ Journey /\ screen \in DOMAIN journey.screens /\ scope \in Scopes
      /\ entry \in [Slots -> Entry] /\ fetch \in [Slots -> Fetch]
      /\ flight \in [Names -> Flight] /\ owed \subseteq Names \X Slots
      /\ \A y \in Slots : Quiet(entry[y], fetch[y])
      /\ CacheTInv /\ OwesInv
  BY Typed DEF CacheInv
<1>2. UNCHANGED <<journey, screen, scope, fetch, flight, owed>>
  BY DEF Age, Forget
<1>3. [entry[x] EXCEPT !.old = TRUE] \in Entry /\ Nothing \in Entry
      /\ Nothing.lag = {}
  BY <1>1 DEF Entry, Nothing
<1>4. /\ entry' \in [Slots -> Entry] /\ \A y \in Slots \ {x} : entry'[y] = entry[y]
      /\ \/ entry'[x].held = entry[x].held /\ entry'[x].lag = entry[x].lag
            /\ entry'[x].invalid = entry[x].invalid
         \/ entry'[x].lag = {}
  <2>1. CASE Age(x)
    <3>1. entry' = [entry EXCEPT ![x] = [entry[x] EXCEPT !.old = TRUE]] /\ entry[x] \in Entry
      BY <1>1, <2>1 DEF Age
    <3>2. /\ entry'[x] = [entry[x] EXCEPT !.old = TRUE]
          /\ entry' \in [Slots -> Entry] /\ \A y \in Slots \ {x} : entry'[y] = entry[y]
      BY <1>1, <1>3, <3>1, Zenon
    <3> QED BY <3>1, <3>2 DEF Entry
  <2>2. CASE Forget(x)
    <3>1. entry' = [entry EXCEPT ![x] = Nothing]
      BY <2>2 DEF Forget
    <3>2. /\ entry'[x] = Nothing
          /\ entry' \in [Slots -> Entry] /\ \A y \in Slots \ {x} : entry'[y] = entry[y]
      BY <1>1, <1>3, <3>1, Zenon
    <3> QED BY <1>3, <3>2
  <2> QED BY <2>1, <2>2
<1>5. ASSUME NEW y \in Slots PROVE Quiet(entry'[y], fetch'[y])
  BY <1>1, <1>2, <1>4 DEF Quiet
<1>6. ASSUME NEW p \in owed' PROVE Shows(p[1], entry'[p[2]], fetch'[p[2]])
  <2>1. p[2] \in Slots /\ Shows(p[1], entry[p[2]], fetch[p[2]])
    BY <1>1, <1>2 DEF OwesInv
  <2> QED BY <1>2, <1>4, <2>1 DEF Shows
<1> QED BY <1>1, <1>2, <1>4, <1>5, <1>6, Kept

(* Navigation only begins fetches and invalidates more.                    *)
LEMMA ArrivingIs ==
  ASSUME CacheTInv, NEW to, NEW s
  PROVE  /\ Arriving(to, s) \in [Slots -> Entry]
         /\ \A x \in Slots :
              /\ Arriving(to, s)[x].held = entry[x].held
              /\ Arriving(to, s)[x].lag = entry[x].lag
              /\ entry[x].held /\ entry[x].invalid => Arriving(to, s)[x].invalid
BY Typed, SeenEffectIs DEF Arriving

LEMMA MovesKeep ==
  ASSUME CacheInv, NEW to, NEW s, NEW shown, shown \subseteq AllQueries,
         entry' = Arriving(to, s), fetch' = Mounting(shown, s, fetch),
         flight' \in [Names -> Flight], UNCHANGED <<journey, owed>>,
         screen' \in DOMAIN journey.screens, scope' \in Scopes
  PROVE  CacheInv'
<1>1. /\ Journey /\ screen \in DOMAIN journey.screens /\ scope \in Scopes
      /\ entry \in [Slots -> Entry] /\ fetch \in [Slots -> Fetch]
      /\ flight \in [Names -> Flight] /\ owed \subseteq Names \X Slots
      /\ \A y \in Slots : Quiet(entry[y], fetch[y])
      /\ CacheTInv /\ OwesInv
  BY Typed DEF CacheInv
<1>2. /\ entry' \in [Slots -> Entry]
      /\ \A x \in Slots : /\ entry'[x].held = entry[x].held /\ entry'[x].lag = entry[x].lag
                          /\ entry[x].held /\ entry[x].invalid => entry'[x].invalid
  BY <1>1, ArrivingIs
<1>3. /\ fetch' \in [Slots -> Fetch]
      /\ \A x \in Slots : fetch'[x] = fetch[x] \/ (fetch'[x].phase = "asked" /\ fetch'[x].lag = {})
  BY <1>1, MountingIs
<1>4. ASSUME NEW y \in Slots PROVE Quiet(entry'[y], fetch'[y])
  BY <1>1, <1>2, <1>3 DEF Quiet
<1>5. ASSUME NEW p \in owed' PROVE Shows(p[1], entry'[p[2]], fetch'[p[2]])
  <2>1. p[2] \in Slots /\ Shows(p[1], entry[p[2]], fetch[p[2]])
    BY <1>1 DEF OwesInv
  <2>2. Quiet(entry[p[2]], fetch[p[2]])
    BY <1>1, <2>1
  <2> QED BY <1>2, <1>3, <2>1, <2>2 DEF Shows, Quiet
<1> QED BY <1>1, <1>2, <1>3, <1>4, <1>5, Kept

LEMMA OpenKeeps == ASSUME CacheInv, NEW s \in DOMAIN journey.screens, Open(s) PROVE CacheInv'
<1>1. /\ Journey /\ screen \in DOMAIN journey.screens /\ scope \in Scopes
      /\ entry \in [Slots -> Entry] /\ fetch \in [Slots -> Fetch]
      /\ flight \in [Names -> Flight] /\ owed \subseteq Names \X Slots
      /\ \A y \in Slots : Quiet(entry[y], fetch[y])
      /\ CacheTInv /\ OwesInv
  BY Typed DEF CacheInv
<1>2. \A w \in Names : [flight[w] EXCEPT !.live = FALSE] \in Flight
  BY <1>1 DEF Flight
<1>3. flight' \in [Names -> Flight]
  BY <1>2 DEF Open
<1>4. journey.screens[s].queries \subseteq AllQueries
  BY <1>1, MountedKnown
<1> QED BY <1>1, <1>3, <1>4, MovesKeep DEF Open

LEMMA SwitchKeeps == ASSUME CacheInv, NEW s \in Scopes, Switch(s) PROVE CacheInv'
<1>1. /\ Journey /\ screen \in DOMAIN journey.screens /\ scope \in Scopes
      /\ entry \in [Slots -> Entry] /\ fetch \in [Slots -> Fetch]
      /\ flight \in [Names -> Flight] /\ owed \subseteq Names \X Slots
      /\ \A y \in Slots : Quiet(entry[y], fetch[y])
      /\ CacheTInv /\ OwesInv
  BY Typed DEF CacheInv
<1>2. \A w \in Names : [flight[w] EXCEPT !.closure = s] \in Flight
  BY <1>1 DEF Flight
<1>3. flight' \in [Names -> Flight]
  BY <1>1, <1>2 DEF Switch
<1>4. Mounted \subseteq AllQueries
  BY <1>1, MountedKnown
<1> QED BY <1>1, <1>3, <1>4, MovesKeep DEF Switch

LEMMA SendKeeps == ASSUME CacheInv, NEW w \in Names, Send(w) \/ Refuse(w) PROVE CacheInv'
<1>1. /\ Journey /\ screen \in DOMAIN journey.screens /\ scope \in Scopes
      /\ entry \in [Slots -> Entry] /\ fetch \in [Slots -> Fetch]
      /\ flight \in [Names -> Flight] /\ owed \subseteq Names \X Slots
      /\ \A y \in Slots : Quiet(entry[y], fetch[y])
      /\ CacheTInv /\ OwesInv
  BY Typed DEF CacheInv
<1>2. UNCHANGED <<journey, screen, scope, entry, fetch, owed>>
  BY DEF Send, Refuse
<1>3. [phase |-> "sent", from |-> scope, closure |-> scope, live |-> TRUE] \in Flight
      /\ NoFlight(scope) \in Flight
  BY <1>1 DEF Flight, NoFlight
<1>4. flight' \in [Names -> Flight]
  BY <1>1, <1>3 DEF Send, Refuse
<1> QED BY <1>1, <1>2, <1>4, Kept DEF OwesInv

LEMMA ApplyKeeps == ASSUME CacheInv, NEW w \in Names, Apply(w) PROVE CacheInv'
<1>1. /\ Journey /\ screen \in DOMAIN journey.screens /\ scope \in Scopes
      /\ entry \in [Slots -> Entry] /\ fetch \in [Slots -> Fetch]
      /\ flight \in [Names -> Flight] /\ owed \subseteq Names \X Slots
      /\ \A y \in Slots : Quiet(entry[y], fetch[y])
      /\ CacheTInv /\ OwesInv
  BY Typed DEF CacheInv
<1> DEFINE s == flight[w].from
<1>2. [flight[w] EXCEPT !.phase = "applied"] \in Flight
  BY <1>1 DEF Flight
<1>3. /\ flight' \in [Names -> Flight] /\ entry' = LagEntries(w, s) /\ fetch' = LagFetches(w, s, fetch)
      /\ owed' = {p \in owed : p[1] # w} /\ UNCHANGED <<journey, screen, scope>>
  BY <1>1, <1>2 DEF Apply
<1> HIDE DEF s
<1>4. /\ entry' \in [Slots -> Entry]
      /\ \A y \in Slots : /\ entry'[y].held = entry[y].held /\ entry'[y].invalid = entry[y].invalid
                          /\ entry'[y].lag \ {w} = entry[y].lag \ {w}
                          /\ ~entry[y].held => entry'[y].lag = entry[y].lag
  BY <1>1, <1>3, LagEntriesAre
<1>5. /\ fetch' \in [Slots -> Fetch]
      /\ \A y \in Slots : /\ fetch'[y].phase = fetch[y].phase
                          /\ fetch'[y].lag \ {w} = fetch[y].lag \ {w}
                          /\ fetch[y].phase # "answered" => fetch'[y].lag = fetch[y].lag
  BY <1>1, <1>3, LagFetchesAre
<1>6. ASSUME NEW y \in Slots PROVE Quiet(entry'[y], fetch'[y])
  BY <1>1, <1>4, <1>5 DEF Quiet
<1>7. ASSUME NEW p \in owed' PROVE Shows(p[1], entry'[p[2]], fetch'[p[2]])
  <2>1. p \in owed /\ p[1] # w /\ p[2] \in Slots
    BY <1>1, <1>3
  <2>2. Shows(p[1], entry[p[2]], fetch[p[2]])
    BY <1>1, <2>1 DEF OwesInv
  <2>3. p[1] \in entry'[p[2]].lag <=> p[1] \in entry[p[2]].lag
    BY <1>4, <2>1
  <2>4. p[1] \in fetch'[p[2]].lag <=> p[1] \in fetch[p[2]].lag
    BY <1>5, <2>1
  <2> QED BY <1>4, <1>5, <2>1, <2>2, <2>3, <2>4 DEF Shows
<1>8. owed' \subseteq Names \X Slots
  BY <1>1, <1>3
<1> QED BY <1>1, <1>3, <1>4, <1>5, <1>6, <1>7, <1>8, Kept

(* The success: every entry that owes the write is invalid, or shown and   *)
(* fetched again.                                                          *)
LEMMA ConfirmKeeps == ASSUME CacheInv, NEW w \in Names, Confirm(w) PROVE CacheInv'
<1>1. /\ Journey /\ screen \in DOMAIN journey.screens /\ scope \in Scopes
      /\ entry \in [Slots -> Entry] /\ fetch \in [Slots -> Fetch]
      /\ flight \in [Names -> Flight] /\ owed \subseteq Names \X Slots
      /\ \A y \in Slots : Quiet(entry[y], fetch[y])
      /\ CacheTInv /\ OwesInv
  BY Typed DEF CacheInv
<1> DEFINE s == flight[w].closure
           m == journey.mutations[w]
           invalid == Targets(m.invalidated, s)
           asked == Targets(m.refetched, s)
<1>2. NoFlight(scope) \in Flight
  BY <1>1 DEF Flight, NoFlight
<1>3. /\ flight' \in [Names -> Flight] /\ UNCHANGED <<journey, screen, scope>>
      /\ entry' = InvalidatedEntries(entry, invalid) /\ fetch' = Refetched(invalid \cup asked)
  BY <1>1, <1>2 DEF Confirm
<1>4. owed' = owed \/ (owed' = owed \cup Owes(w, s))
  BY DEF Confirm
<1>m. m.refetched \subseteq {"organizations"}
      /\ \A k : <<w, k>> \in journey.promises => k \in Matching(m.invalidated) \/ k \in m.refetched
  BY <1>1 DEF Journey
<1>5. \A x \in Slots : x[2] \in {s, "user"} =>
        /\ x[1] \in Matching(m.invalidated) => x \in invalid
        /\ x[1] \in m.refetched => x \in asked
  BY DEF Targets, Matching
<1> HIDE DEF s, m, invalid, asked
<1>6. /\ entry' \in [Slots -> Entry]
      /\ \A x \in Slots : /\ entry'[x].held = entry[x].held /\ entry'[x].lag = entry[x].lag
                          /\ entry'[x].invalid = IF x \in invalid THEN entry[x].held
                                                 ELSE entry[x].invalid
  BY <1>1, <1>3, InvalidatedAre
<1>7. /\ fetch' \in [Slots -> Fetch]
      /\ \A x \in Slots :
           /\ fetch'[x] = fetch[x] \/ (fetch'[x].phase = "asked" /\ fetch'[x].lag = {})
           /\ x \in invalid \cup asked /\ x \in ShownSlots /\ entry[x].held
              => fetch'[x].phase = "asked" /\ fetch'[x].lag = {}
  BY <1>1, <1>3, RefetchedAre
<1>8. ASSUME NEW y \in Slots PROVE Quiet(entry'[y], fetch'[y])
  BY <1>1, <1>6, <1>7 DEF Quiet
<1>9. ASSUME NEW p \in owed PROVE Shows(p[1], entry'[p[2]], fetch'[p[2]])
  <2>1. p[2] \in Slots /\ Shows(p[1], entry[p[2]], fetch[p[2]])
    BY <1>1 DEF OwesInv
  <2>2. Quiet(entry[p[2]], fetch[p[2]])
    BY <1>1, <2>1
  <2> QED BY <1>6, <1>7, <2>1, <2>2 DEF Shows, Quiet
<1>10. ASSUME NEW p \in Owes(w, s)
       PROVE  p \in Names \X Slots /\ Shows(p[1], entry'[p[2]], fetch'[p[2]])
  <2>1. PICK x \in Slots : /\ p = <<w, x>> /\ x[2] \in {s, "user"}
                           /\ <<w, x[1]>> \in journey.promises /\ entry[x].held
                           /\ (x \in ShownSlots \/ fetch[x].phase = "idle")
    BY DEF Owes
  <2>2. CASE x \in invalid
    <3>1. entry'[x].invalid
      BY <1>6, <2>1, <2>2
    <3>2. fetch'[x].phase # "answered"
      BY <1>7, <2>1, <2>2
    <3> QED BY <2>1, <3>1, <3>2 DEF Shows
  <2>3. CASE x \in asked /\ x[1] = "organizations"
    <3>1. x \in ShownSlots
      <4>1. x = Slot("organizations")
        <5>1. PICK t \in Scopes : x = SlotIn(x[1], t)
          BY <1>1 DEF Journey
        <5> QED BY <2>3, <5>1 DEF Slot, SlotIn, ScopeOf, Unscoped
      <4> QED BY <4>1, OnTabs DEF ShownSlots, Mounted
    <3>2. fetch'[x].phase = "asked"
      BY <1>7, <2>1, <2>3, <3>1
    <3> QED BY <2>1, <3>2 DEF Shows
  <2> QED BY <1>m, <1>5, <2>1, <2>2, <2>3
<1>11. owed' \subseteq Names \X Slots
       /\ \A p \in owed' : Shows(p[1], entry'[p[2]], fetch'[p[2]])
  BY <1>1, <1>4, <1>9, <1>10
<1> QED BY <1>1, <1>3, <1>6, <1>7, <1>8, <1>11, Kept

LEMMA StepCacheInv == CacheInv /\ [Next]_vars => CacheInv'
<1> SUFFICES ASSUME CacheInv, [Next]_vars PROVE CacheInv'
  OBVIOUS
<1>1. ASSUME NEW x \in Slots, Serve(x) \/ Receive(x) \/ FailFetch(x) \/ Age(x) \/ Forget(x)
      PROVE  CacheInv'
  BY <1>1, ServeKeeps, ReceiveKeeps, FailFetchKeeps, AgeKeeps
<1>2. ASSUME NEW s \in DOMAIN journey.screens, Open(s) PROVE CacheInv'
  BY <1>2, OpenKeeps
<1>3. ASSUME NEW s \in Scopes, Switch(s) PROVE CacheInv'
  BY <1>3, SwitchKeeps
<1>4. ASSUME NEW w \in Names, Send(w) \/ Apply(w) \/ Refuse(w) \/ Confirm(w) PROVE CacheInv'
  BY <1>4, SendKeeps, ApplyKeeps, ConfirmKeeps
<1>5. CASE UNCHANGED vars
  <2>1. UNCHANGED <<journey, screen, scope, entry, fetch, flight, owed>>
    BY <1>5 DEF vars
  <2> QED BY <2>1, Typed, Kept DEF CacheInv, OwesInv
<1> QED BY <1>1, <1>2, <1>3, <1>4, <1>5 DEF Next

-----------------------------------------------------------------------------
(* The cache keeps its types, for any number of screens and organizations. *)
THEOREM CacheTypesCorrect == Spec => []CacheTypeOK
<1>1. CacheInv => CacheTypeOK
  BY DEF CacheInv, CacheTInv
<1> QED BY <1>1, InitCacheInv, StepCacheInv, PTL DEF Spec

(* A user's own write, once its success was told, is never hidden by the   *)
(* cache.                                                                  *)
THEOREM WritesAreSeen == Spec => []OwnWriteSeen
<1>1. ASSUME CacheInv PROVE OwnWriteSeen
  <2>1. ASSUME NEW p \in owed, p[1] \in entry[p[2]].lag
        PROVE  \/ entry[p[2]].invalid \/ fetch[p[2]].phase = "asked"
               \/ fetch[p[2]].phase = "answered" /\ p[1] \notin fetch[p[2]].lag
    <3>1. fetch[p[2]] \in Fetch /\ Shows(p[1], entry[p[2]], fetch[p[2]])
      BY <1>1, <2>1, Typed DEF CacheInv, OwesInv
    <3> QED BY <2>1, <3>1 DEF Fetch, Shows
  <2> QED BY <2>1 DEF OwnWriteSeen
<1> QED BY <1>1, InitCacheInv, StepCacheInv, PTL DEF Spec
===============================================================================
