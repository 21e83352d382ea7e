-------------------------------- MODULE AutoFix --------------------------------
(***************************************************************************)
(* AI auto-fix of one issue (backend/apps/ai): requests and the automatic  *)
(* trigger check for a run in flight, create a run and publish its task; a *)
(* worker takes the run through its statuses to a merge request.  Each     *)
(* query, publish and call of GitLab is a step.  Workers die: their task   *)
(* is delivered again, or lost with the pool process that ran it.          *)
(***************************************************************************)
EXTENDS Integers, FiniteSets

CONSTANTS
  Triggers,       \* TriggerAutoFixView requests and maybe_auto_trigger tasks
  Workers,        \* Celery workers of the queue "ai"
  None,           \* no run, no status
  MaxDeliveries   \* times the broker delivers a task (bound)

(* A trigger creates at most one run, which is named after it.             *)
Runs == Triggers

Active   == {"queued", "analyzing", "generating", "creating_mr"}
Statuses == Active \cup {"completed", "failed"}

ASSUME NoneAssumption == None \notin Runs \cup Statuses \cup {"running", "mr_created"}

ASSUME DeliveriesAssumption == MaxDeliveries \in Nat \ {0}

VARIABLES
  tg,          \* the triggers
  status,      \* AutoFixRun.status, None before the run exists
  state,       \* Issue.autofix_state
  task,        \* the task of each run: none, queued, running, ended
  deliveries,  \* deliveries of the task of each run
  wk, on,      \* where each worker is, and on which run
  mrs,         \* merge requests opened for each run
  orphan,      \* history: runs without a task to end them: the publish or the
               \* start signal failed, or the pool process was killed
  raced        \* history: checks overlapped, or a finished run started again

fixVars == <<tg, status, state, task, deliveries, wk, on, mrs, orphan, raced>>

FixInit ==
  /\ tg = [t \in Triggers |-> "check"]
  /\ status = [r \in Runs |-> None] /\ state = None
  /\ task = [r \in Runs |-> "none"] /\ deliveries = [r \in Runs |-> 0]
  /\ wk = [w \in Workers |-> "idle"] /\ on = [w \in Workers |-> None]
  /\ mrs = [r \in Runs |-> 0]
  /\ orphan = {} /\ raced = FALSE

InFlight == {r \in Runs : status[r] \in Active}

-----------------------------------------------------------------------------
(* Triggers: TriggerAutoFixView.post and maybe_auto_trigger.               *)

TriggerGoes(t, pc) == tg' = [tg EXCEPT ![t] = pc]

(* Wrong: no check for a run in flight.                                    *)
CheckNothing(t) ==
  /\ tg[t] = "check"
  /\ TriggerGoes(t, "create")
  /\ raced' = (raced \/ \E u \in Triggers : tg[u] = "create")
  /\ UNCHANGED <<status, state, task, deliveries, wk, on, mrs, orphan>>

(* 409, or nothing, while a run of the issue is in flight.                 *)
CheckActive(t) ==
  /\ tg[t] = "check"
  /\ TriggerGoes(t, IF InFlight # {} THEN "ended" ELSE "create")
  /\ raced' = (raced \/ \E u \in Triggers : tg[u] = "create")
  /\ UNCHANGED <<status, state, task, deliveries, wk, on, mrs, orphan>>

CreateRun(t) ==
  /\ tg[t] = "create"
  /\ TriggerGoes(t, "publish")
  /\ status' = [status EXCEPT ![t] = "queued"]
  /\ UNCHANGED <<state, task, deliveries, wk, on, mrs, orphan, raced>>

(* delay(): the task is published, or the broker is down and the run stays *)
(* queued with no task.                                                    *)
Publish(t) ==
  /\ tg[t] = "publish"
  /\ TriggerGoes(t, "ended")
  /\ \/ task' = [task EXCEPT ![t] = "queued"] /\ UNCHANGED orphan
     \/ orphan' = orphan \cup {t} /\ UNCHANGED task
  /\ UNCHANGED <<status, state, deliveries, wk, on, mrs, raced>>

-----------------------------------------------------------------------------
(* run_autofix_task and run_autofix.                                       *)

Steps(w, from, to) == wk[w] = from /\ wk' = [wk EXCEPT ![w] = to]

SetStatus(w, s) == status' = [status EXCEPT ![on[w]] = s]

EndsTask(w, from, outcome) ==
  /\ Steps(w, from, "idle")
  /\ on' = [on EXCEPT ![w] = None]
  /\ task' = [task EXCEPT ![on[w]] = outcome]

TakeRun(w, r) ==
  /\ task[r] = "queued"
  /\ Steps(w, "idle", "start")
  /\ on' = [on EXCEPT ![w] = r]
  /\ task' = [task EXCEPT ![r] = "running"]
  /\ deliveries' = [deliveries EXCEPT ![r] = @ + 1]
  /\ UNCHANGED <<tg, status, state, mrs, orphan, raced>>

(* autofix_started, outside the try: a receiver that raises (cache or      *)
(* broker down) ends the task.  Else the issue shows a run in progress.    *)
StartRun(w) ==
  /\ \/ /\ Steps(w, "start", "analyze") /\ state' = "running"
        /\ UNCHANGED <<task, on, orphan>>
     \/ /\ EndsTask(w, "start", "ended")
        /\ orphan' = orphan \cup {on[w]} /\ UNCHANGED state
  /\ UNCHANGED <<tg, status, deliveries, mrs, raced>>

(* Wrong: the try block does not cover this step.                          *)
AdvanceUncaught(w, from, s, to) ==
  /\ \/ Steps(w, from, to) /\ SetStatus(w, s) /\ UNCHANGED <<task, on>>
     \/ EndsTask(w, from, "ended") /\ (SetStatus(w, s) \/ UNCHANGED status)
  /\ UNCHANGED <<tg, state, deliveries, mrs, orphan, raced>>

(* One step of the try block: the status is saved and the work done, or an *)
(* exception (no configuration, no repository, the provider, no changes)   *)
(* is raised before or after the status is saved.                          *)
Advance(w, from, s, to) ==
  /\ \/ Steps(w, from, to) /\ SetStatus(w, s)
     \/ Steps(w, from, "fail") /\ (SetStatus(w, s) \/ UNCHANGED status)
  /\ UNCHANGED <<tg, state, task, deliveries, on, mrs, orphan, raced>>

Analyze(w)  == Advance(w, "analyze", "analyzing", "generate")
Generate(w) == Advance(w, "generate", "generating", "propose")
Propose(w)  == Advance(w, "propose", "creating_mr", "open")

(* create_merge_request: the answer of a merge request that was opened may *)
(* be an error all the same.                                               *)
OpenMR(w) ==
  /\ Steps(w, "open", "complete") \/ Steps(w, "open", "fail")
  /\ mrs' = [mrs EXCEPT ![on[w]] = @ + 1] \/ (wk'[w] = "fail" /\ UNCHANGED mrs)
  /\ UNCHANGED <<tg, status, state, task, deliveries, on, orphan, raced>>

Complete(w) ==
  /\ Steps(w, "complete", "record")
  /\ SetStatus(w, "completed")
  /\ UNCHANGED <<tg, state, task, deliveries, on, mrs, orphan, raced>>

RecordMR(w) ==
  /\ Steps(w, "record", "announce")
  /\ state' = "mr_created"
  /\ UNCHANGED <<tg, status, task, deliveries, on, mrs, orphan, raced>>

(* A receiver of autofix_mr_created that raises makes the run a failed     *)
(* one; one of autofix_failed that raises changes nothing.                 *)
Announce(w) ==
  /\ \/ EndsTask(w, "announce", "ended")
     \/ Steps(w, "announce", "fail") /\ UNCHANGED <<on, task>>
     \/ EndsTask(w, "announce_failure", "ended")
  /\ UNCHANGED <<tg, status, state, deliveries, mrs, orphan, raced>>

(* Wrong: the exception is logged and the run left as it is.               *)
FailSilently(w) ==
  /\ Steps(w, "fail", "record_failure")
  /\ UNCHANGED <<tg, status, state, task, deliveries, on, mrs, orphan, raced>>

Fail(w) ==
  /\ Steps(w, "fail", "record_failure")
  /\ SetStatus(w, "failed")
  /\ UNCHANGED <<tg, state, task, deliveries, on, mrs, orphan, raced>>

(* Wrong: the issue is left alone.                                         *)
RecordNoFailure(w) ==
  /\ Steps(w, "record_failure", "announce_failure")
  /\ UNCHANGED <<tg, status, state, task, deliveries, on, mrs, orphan, raced>>

RecordFailure(w) ==
  /\ Steps(w, "record_failure", "announce_failure")
  /\ state' = "failed"
  /\ UNCHANGED <<tg, status, task, deliveries, on, mrs, orphan, raced>>

(* The worker dies.  With its container gone, the broker delivers the task *)
(* again and the run starts from the beginning, whatever its status is;    *)
(* when a process of the pool was killed, Celery acknowledges the task and *)
(* the run stays as it is.                                                 *)
CrashRun(w) ==
  /\ wk[w] # "idle"
  /\ \/ /\ deliveries[on[w]] < MaxDeliveries
        /\ EndsTask(w, wk[w], "queued")
        /\ raced' = (raced \/ status[on[w]] \notin Active) /\ UNCHANGED orphan
     \/ /\ EndsTask(w, wk[w], "ended")
        /\ orphan' = orphan \cup {on[w]} /\ UNCHANGED raced
  /\ UNCHANGED <<tg, status, state, deliveries, mrs>>

-----------------------------------------------------------------------------

Trigger(t) == CheckActive(t) \/ CreateRun(t) \/ Publish(t)

RunAutofix(w) ==
  \/ StartRun(w) \/ Analyze(w) \/ Generate(w) \/ Propose(w) \/ OpenMR(w)
  \/ Complete(w) \/ RecordMR(w) \/ Fail(w) \/ RecordFailure(w) \/ Announce(w)

FixNext ==
  \/ \E t \in Triggers : Trigger(t)
  \/ \E w \in Workers : RunAutofix(w) \/ CrashRun(w) \/ \E r \in Runs : TakeRun(w, r)

FixSpec == FixInit /\ [][FixNext]_fixVars

(* Requests are served and a worker that does not die goes on.             *)
FairFixSpec ==
  /\ FixSpec
  /\ \A t \in Triggers : WF_fixVars(Trigger(t))
  /\ \A w \in Workers : WF_fixVars(RunAutofix(w) \/ \E r \in Runs : TakeRun(w, r))

-----------------------------------------------------------------------------
(* Properties.                                                             *)

(* Type invariant of the runs, the issue, the tasks and the workers.       *)
FixTypeOK ==
  /\ tg \in [Triggers -> {"check", "create", "publish", "ended"}]
  /\ status \in [Runs -> Statuses \cup {None}]
  /\ state \in {None, "running", "mr_created", "failed"}
  /\ task \in [Runs -> {"none", "queued", "running", "ended"}]
  /\ deliveries \in [Runs -> 0..MaxDeliveries]
  /\ wk \in [Workers -> {"idle", "start", "analyze", "generate", "propose", "open", "complete",
                         "record", "announce", "fail", "record_failure", "announce_failure"}]
  /\ on \in [Workers -> Runs \cup {None}]
  /\ mrs \in [Runs -> Nat] /\ orphan \subseteq Runs /\ raced \in BOOLEAN

(* A run that blocks others is being worked on: its task is about to be    *)
(* published, waits, or runs on exactly one worker.  Three things alone    *)
(* leave a run that blocks the issue for ever (orphan): its task was not   *)
(* published, its first signal failed, or its pool process was killed.     *)
BlockedMeansWork ==
  \A r \in InFlight \ orphan :
    \/ tg[r] = "publish"
    \/ task[r] = "queued" /\ \A w \in Workers : on[w] # r
    \/ task[r] = "running" /\ Cardinality({w \in Workers : on[w] = r}) = 1

(* Triggers that do not overlap, and tasks that are not repeated after     *)
(* their run has ended, never have two fixes of an issue in flight.        *)
SerialFixes == ~raced => Cardinality(InFlight) <= 1

(* When no task waits or runs, the issue shows the end of some run: never  *)
(* a run in progress, a merge request only of a completed run, a failure   *)
(* only of a failed one, however runs overlapped, failed or were repeated  *)
(* (unless one was not published or started, or was killed).               *)
StateSettles ==
  orphan = {} /\ (\A r \in Runs : task[r] \in {"none", "ended"}) =>
    /\ state # "running"
    /\ state = "mr_created" => \E r \in Runs : status[r] = "completed" /\ mrs[r] > 0
    /\ state = "failed" => \E r \in Runs : status[r] = "failed"

(* A fix that was started ends, and the issue can be fixed again, unless   *)
(* its pool process was killed on the way.                                 *)
FixEnds == \A r \in Runs : r \in InFlight \ orphan ~> r \notin InFlight \/ r \in orphan
=============================================================================
