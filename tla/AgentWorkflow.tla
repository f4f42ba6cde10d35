---------------------------- MODULE AgentWorkflow ----------------------------
(***************************************************************************)
(* One Agent run, from its creation to its terminal status: the workflow   *)
(* thread, the threads that resume or continue it, the requests of people  *)
(* (script actions, cancel, resume, polling) and the module lease that     *)
(* keeps other writers away while scripts are prepared, collected into a   *)
(* suite and executed.                                                     *)
(*                                                                         *)
(* A step is one transaction, one acquisition or release of the lease, one *)
(* access to the process's task registry or the end of one external        *)
(* operation.  A thread that dies lets go of its lease (GET_LOCK belongs   *)
(* to its connection); the registry dies with its process.  All scripts    *)
(* are in one module.  Bounds: MaxEvents, the crashes, resumes, script     *)
(* actions and visits of an outside writer in one behaviour; MaxResumes    *)
(* and MaxCrashes of them.                                                 *)
(***************************************************************************)
EXTENDS Naturals, Sequences, FiniteSets

CONSTANTS
  Items,      \* the scripts of the run's plans
  Threads,    \* threads and requests at work at one time
  Procs,      \* gunicorn processes (GUNICORN_WORKERS, 1 by default)
  Nobody,     \* no thread
  Outside,    \* holder of the lease that is not part of this run
  MaxEvents,  \* bound: crashes, resumes, actions and outside visits together
  MaxResumes, MaxCrashes

ASSUME AgentAssumption ==
  /\ Items # {} /\ Procs # {} /\ {Nobody, Outside} \cap Threads = {} /\ Nobody # Outside
  /\ MaxEvents \in Nat /\ MaxResumes \in Nat /\ MaxCrashes \in Nat

VARIABLES
  run,     \* agent_runs: status, current_step (its position), suite_uid set?
  steps,   \* agent_run_steps: status of each step
  items,   \* output_json of prepare_scripts: status of each script
  stale,   \* scripts whose file is not the revision the document knows
  suite,   \* the test suite created for the run
  lease,   \* owner of the module's target lease
  task,    \* AGENT_RUN_TASKS of each process: worker token and cancel flag
  asked,   \* processes whose cancel request has not set the flag yet
  th,      \* threads and requests
  spent    \* how many bounded events, and of them resumes and crashes, have happened

db == <<run, steps, items, suite>>
vars == <<run, steps, items, stale, suite, lease, task, asked, th, spent>>

-----------------------------------------------------------------------------
AGENT_STEP_KEYS == <<"upload_requirement", "analyze_requirement", "review_modules",
                     "generate_plans", "prepare_scripts", "create_suite", "run_suite">>
Prepare == 5
Create == 6
Execute == 7
StepNumbers == 1..Execute

\* Jobs that register a worker token.
Workflows == {"flow", "resume", "continue"}

AGENT_TERMINAL_STATUSES == {"succeeded", "succeeded_with_unresolved", "failed", "cancelled"}
AGENT_ACTIVE_STATUSES == {"queued", "running", "cancelling"}
AGENT_PAUSED_STATUSES == {"awaiting_script_action"}

NoItems == [i \in Items |-> "none"]
NoSuite == [made |-> FALSE, members |-> {}]
NoTask == [owner |-> Nobody, flag |-> FALSE]
Ready == {i \in Items : items[i] = "ready"}
Terminal(d) == \A i \in Items : d[i] \in {"ready", "abandoned"}
Closed(d) == [i \in Items |-> IF d[i] = "ready" THEN "ready" ELSE "abandoned"]

Idle == [pc |-> "idle", job |-> "none", proc |-> CHOOSE p \in Procs : TRUE,
         step |-> 0, item |-> CHOOSE i \in Items : TRUE, seen |-> "none",
         suite |-> FALSE, done |-> FALSE]

Goto(t, pc) == th' = [th EXCEPT ![t].pc = pc]
Spawn(t, p, job, pc) == th' = [th EXCEPT ![t] = [Idle EXCEPT !.pc = pc, !.job = job, !.proc = p]]
End(t) == th' = [th EXCEPT ![t] = Idle]
Spend == /\ spent.events < MaxEvents
         /\ spent' = [spent EXCEPT !.events = @ + 1]
SpendOn(e, bound) == /\ spent.events < MaxEvents /\ spent[e] < bound
                     /\ spent' = [spent EXCEPT !.events = @ + 1, ![e] = @ + 1]

\* Mutant of Unlock: the lease is released without asking whose it is.
UnlockAnyone(t) == lease' = Nobody

Unlock(t) == lease' = IF lease = t THEN Nobody ELSE lease

\* A thread whose lease is released by the way gives it back before its handlers run.
Raise(t, pc) == Goto(t, pc) /\ Unlock(t)

-----------------------------------------------------------------------------
(* Transactions. *)

\* Mutant of StepStatus: a step waiting for people is marked like its run.
StepStatusOfRun(d) == IF Terminal(d) THEN "succeeded"
                      ELSE IF \E i \in Items : d[i] \in {"queued", "busy"} THEN "running"
                      ELSE "awaiting_script_action"

StepStatus(d) == IF Terminal(d) THEN "succeeded"
                 ELSE IF \E i \in Items : d[i] \in {"queued", "busy"} THEN "running"
                 ELSE "awaiting_action"

\* persist_preparation_state_atomic refuses: cancelled, or no longer this phase.
PersistCancelled(d) == run.status \in {"cancelling", "cancelled"} /\ ~Terminal(d)
PersistConflict(d) ==
  ~PersistCancelled(d) /\ run.status \notin {"running", "awaiting_script_action", "cancelling"}

\* Mutant of Persist: the run row is written whatever its status.
PersistBlindly(d) ==
  /\ items' = d
  /\ steps' = [steps EXCEPT ![Prepare] = StepStatus(d)]
  /\ run' = [run EXCEPT !.status = IF StepStatus(d) = "running" THEN "running"
                                   ELSE "awaiting_script_action",
                        !.at = Prepare]
  /\ UNCHANGED suite

Persist(d) ==
  /\ ~PersistCancelled(d) /\ ~PersistConflict(d)
  /\ items' = d
  /\ steps' = [steps EXCEPT ![Prepare] = StepStatus(d)]
  /\ run' = IF Terminal(d) THEN run
            ELSE [run EXCEPT !.status = IF StepStatus(d) = "running" THEN "running"
                                        ELSE "awaiting_script_action",
                             !.at = Prepare]
  /\ UNCHANGED suite

\* Child rows a terminal status closes in the same transaction.
ClosedSteps(terminal) ==
  [s \in StepNumbers |->
     CASE terminal = "cancelled" /\ (steps[s] = "running" \/ (s = run.at /\ s = Prepare)) -> "cancelled"
       [] terminal = "failed" /\ s = run.at -> "failed"
       [] OTHER -> steps[s]]

\* Mutant of PublishAgentTerminal: the step rows are left to a later transaction,
\* which a crash can prevent.
PublishRunOnly(expected, terminal) ==
  /\ run' = IF run.status # expected THEN run
            ELSE [run EXCEPT !.status = terminal,
                             !.at = IF terminal \in {"failed", "cancelled"} THEN @ ELSE Execute]
  /\ UNCHANGED <<steps, items, suite>>

PublishAgentTerminal(expected, terminal) ==
  /\ IF run.status = expected
     THEN /\ steps' = ClosedSteps(terminal)
          /\ run' = [run EXCEPT !.status = terminal,
                                !.at = IF terminal \in {"failed", "cancelled"} THEN @ ELSE Execute]
     ELSE UNCHANGED <<run, steps>>
  /\ UNCHANGED <<items, suite>>

-----------------------------------------------------------------------------
(* The task registry of one process. *)

RegisterTask(t) == task' = [task EXCEPT ![th[t].proc] = [owner |-> t, flag |-> FALSE]]

CleanupTask(t) ==
  task' = [task EXCEPT ![th[t].proc] = IF @.owner = t THEN NoTask ELSE @]

HasLiveTask(p) == task[p].owner # Nobody

(* agent_is_cancelled: another worker took over, the flag, or the database -  *)
(* which is read at most every 0.5 s, so a check may miss a fresh request.    *)
SeesCancel(t) == \/ th[t].job \in Workflows /\ task[th[t].proc].owner # t
                 \/ task[th[t].proc].flag
                 \/ run.status \in {"cancelling", "cancelled"}

-----------------------------------------------------------------------------
(* run_agent_workflow and run_agent_resume_workflow *)

Register(t) ==
  /\ th[t].pc = "register"
  /\ IF HasLiveTask(th[t].proc) THEN End(t) /\ UNCHANGED task
     ELSE RegisterTask(t) /\ Goto(t, IF th[t].job = "flow" THEN "claim" ELSE "load")
  /\ UNCHANGED <<db, stale, lease, asked, spent>>

(* claim_agent_workflow_start publishes a cancellation that came first; the *)
(* upload step is written by the same thread right after.                   *)
ClaimStart(t) ==
  /\ th[t].pc = "claim"
  /\ IF run.status = "queued"
     THEN /\ run' = [run EXCEPT !.status = "running", !.at = 1]
          /\ steps' = [steps EXCEPT ![1] = "succeeded"]
          /\ th' = [th EXCEPT ![t].pc = "start", ![t].step = 2]
          /\ UNCHANGED <<items, suite>>
     ELSE PublishAgentTerminal("cancelling", "cancelled") /\ Goto(t, "cleanup")
  /\ UNCHANGED <<stale, lease, task, asked, spent>>

(* claim_agent_resume; unlike the first start it claims before it registers.  *)
(* The claim names the thread's own step: a run resumed twice may be claimed  *)
(* by the thread of the earlier resume.                                       *)
ClaimResume(t) ==
  /\ th[t].pc = "claimResume"
  /\ CASE run.status = "queued" ->
            run' = [run EXCEPT !.status = "running", !.at = th[t].step] /\ Goto(t, "replace")
       [] run.status = "cancelling" -> Goto(t, "finalize") /\ UNCHANGED run
       [] OTHER -> End(t) /\ UNCHANGED run
  /\ UNCHANGED <<steps, items, suite, stale, lease, task, asked, spent>>

\* Steps whose stored output a resume from step s loads.
LoadedBefore(s) == (2..4 \cup (IF s = Execute THEN {Create} ELSE {})) \cap 1..(s - 1)

(* agent_register_task(replace=True), then on to the step resumed from. *)
Replace(t) ==
  /\ th[t].pc = "replace"
  /\ RegisterTask(t)
  /\ LET s == th[t].step
     IN th' = [th EXCEPT
          ![t].pc = IF \E k \in LoadedBefore(s) : steps[k] # "succeeded" THEN "onFail"
                    ELSE IF s < Prepare THEN "start"
                    ELSE IF s = Prepare THEN "planBarrier" ELSE "barrier",
          ![t].suite = s = Execute,
          ![t].step = IF s = 1 THEN 2 ELSE s]
  /\ steps' = [steps EXCEPT ![1] = IF th[t].step = 1 THEN "succeeded" ELSE @]
  /\ UNCHANGED <<run, items, suite, stale, lease, asked, spent>>

\* agent_start_step refuses: cancelled, or the run is not running any more.
StartRefused(t) ==
  IF SeesCancel(t) THEN Raise(t, "onCancel") /\ UNCHANGED db
  ELSE run.status # "running" /\ Raise(t, "onFail") /\ UNCHANGED db

StartAccepted(t, s) ==
  /\ ~SeesCancel(t) /\ run.status = "running"
  /\ run' = [run EXCEPT !.at = s]
  /\ steps' = [steps EXCEPT ![s] = "running"]
  /\ UNCHANGED <<items, suite, lease>>

(* analyze_requirement, review_modules and generate_plans start alike. *)
StartStep(t) ==
  /\ th[t].pc = "start"
  /\ \/ StartRefused(t)
     \/ StartAccepted(t, th[t].step) /\ Goto(t, "work")
  /\ UNCHANGED <<stale, task, asked, spent>>

(* The step's model calls end.  The row is closed whatever became of the run  *)
(* meanwhile; requirement analysis reports a cancellation as a failure.       *)
Work(t) ==
  /\ th[t].pc = "work"
  /\ \/ /\ steps' = [steps EXCEPT ![th[t].step] = "succeeded"]
        /\ th' = [th EXCEPT ![t].step = @ + 1,
                            ![t].pc = IF th[t].step = 4 THEN "planBarrier" ELSE "start"]
     \/ Goto(t, "onFail") /\ UNCHANGED steps
     \/ th[t].step # 2 /\ SeesCancel(t) /\ Goto(t, "onCancel") /\ UNCHANGED steps
  /\ UNCHANGED <<run, items, suite, stale, lease, task, asked, spent>>

(* script_preparation_plan_barrier: a busy module ends the first workflow    *)
(* without a word and fails a resumed one.                                   *)
PlanBarrier(t) ==
  /\ th[t].pc = "planBarrier"
  /\ IF lease = Nobody THEN lease' = t /\ Goto(t, "initialize")
     ELSE Goto(t, IF th[t].job = "flow" THEN "cleanup" ELSE "onFail") /\ UNCHANGED lease
  /\ UNCHANGED <<db, stale, task, asked, spent>>

-----------------------------------------------------------------------------
(* run_agent_script_preparation, under the module's lease *)

\* A cancellation raised while the lease is held closes the scripts first.
Interrupt(t) == Goto(t, "finalize") /\ UNCHANGED <<db, lease>>

Initialize(t) ==
  /\ th[t].pc = "initialize"
  /\ LET d == [i \in Items |-> "queued"]
     IN \/ items = NoItems /\ Persist(d) /\ Goto(t, "prepare") /\ UNCHANGED lease
        \/ items = NoItems /\ PersistCancelled(d) /\ Interrupt(t)
        \/ (items # NoItems \/ PersistConflict(d)) /\ UNCHANGED db /\ Raise(t, "onFail")
  /\ stale' = {}
  /\ UNCHANGED <<task, asked, spent>>

PrepareItem(t) ==
  /\ th[t].pc = "prepare"
  /\ \E i \in Items :
       LET d == [items EXCEPT ![i] = "busy"]
       IN /\ items[i] = "queued"
          /\ \/ /\ Persist(d)
                /\ th' = [th EXCEPT ![t].pc = "item", ![t].item = i]
                /\ UNCHANGED lease
             \/ PersistCancelled(d) /\ Interrupt(t)
             \/ PersistConflict(d) /\ Raise(t, "onFail") /\ UNCHANGED db
  /\ UNCHANGED <<stale, task, asked, spent>>

(* Generation, execution and repair of one script (PreparationItem has the  *)
(* detail), by the workflow or by a person's action.                        *)
ItemEnds(t) ==
  /\ th[t].pc \in {"item", "actWork"}
  /\ LET i == th[t].item
         back == IF th[t].pc = "item" THEN "prepare" ELSE "actSettled"
     IN \/ \E v \in {"ready", "waiting"} :
             LET d == [items EXCEPT ![i] = v]
             IN /\ stale' = stale \ {i}
                /\ \/ Persist(d) /\ Goto(t, back) /\ UNCHANGED lease
                   \/ PersistCancelled(d) /\ Interrupt(t)
                   \/ /\ PersistConflict(d)
                      /\ Raise(t, IF th[t].pc = "item" THEN "onFail" ELSE "cleanup")
                      /\ UNCHANGED db
        \/ SeesCancel(t) /\ Interrupt(t) /\ UNCHANGED stale
  /\ UNCHANGED <<task, asked, spent>>

(* The last write of the automatic run: on to the suite, or wait for people. *)
Prepared(t) ==
  /\ th[t].pc = "prepare" /\ \A i \in Items : items[i] # "queued"
  /\ \/ Persist(items) /\ Raise(t, IF Terminal(items) THEN "barrier" ELSE "cleanup")
     \/ PersistCancelled(items) /\ Interrupt(t)
     \/ PersistConflict(items) /\ Raise(t, "onFail") /\ UNCHANGED db
  /\ UNCHANGED <<stale, task, asked, spent>>

-----------------------------------------------------------------------------
(* run_agent_script_preparation_continue_workflow: what the earlier steps     *)
(* left is loaded before anything else, the suite included.                   *)
Load(t) ==
  /\ th[t].pc = "load"
  /\ IF run.status \in AGENT_TERMINAL_STATUSES THEN Goto(t, "cleanup")
     ELSE IF steps[Create] # "succeeded" THEN Goto(t, "onFail")
     ELSE th' = [th EXCEPT ![t].pc = "barrier", ![t].suite = TRUE,
                           ![t].done = steps[Execute] = "succeeded"]
  /\ UNCHANGED <<db, stale, lease, task, asked, spent>>

-----------------------------------------------------------------------------
(* finish_with_script_preparation_barrier and what it calls under the lease *)

Barrier(t) ==
  /\ th[t].pc = "barrier"
  /\ IF lease = Nobody THEN lease' = t /\ Goto(t, "reconcile")
     ELSE Goto(t, IF th[t].job = "resume" THEN "onFail" ELSE "cleanup") /\ UNCHANGED lease
  /\ UNCHANGED <<db, stale, task, asked, spent>>

CanReconcile(allowClaimed) ==
  \/ run.status = "awaiting_script_action" /\ run.at = Prepare
  \/ allowClaimed /\ run.status = "running" /\ run.at >= Prepare

Adopted == [i \in Items |-> IF i \in stale THEN "waiting" ELSE items[i]]

\* Mutant of Reconcile: the revisions were compared before the lease was taken.
ReconcileNothing(t) ==
  /\ th[t].pc \in {"reconcile", "actReconcile"}
  /\ Goto(t, IF th[t].pc = "reconcile" THEN "decide" ELSE "actApply")
  /\ UNCHANGED <<db, stale, lease, task, asked, spent>>

(* reconcile_items_for_web: files that changed outside need a fresh look. *)
Reconcile(t) ==
  /\ th[t].pc \in {"reconcile", "actReconcile"}
  /\ LET inFlow == th[t].pc = "reconcile"
         on == IF inFlow THEN "decide" ELSE "actApply"
     IN IF items = NoItems \/ stale = {} \/ ~CanReconcile(inFlow)
        THEN Goto(t, on) /\ UNCHANGED <<db, stale, lease>>
        ELSE \/ Persist(Adopted) /\ stale' = {} /\ Goto(t, on) /\ UNCHANGED lease
             \/ /\ PersistCancelled(Adopted) \/ PersistConflict(Adopted)
                /\ Raise(t, IF inFlow THEN "onCancel" ELSE "cleanup")
                /\ UNCHANGED <<db, stale>>
  /\ UNCHANGED <<task, asked, spent>>

\* A worker died between a step's start and its end.
SuiteInterrupted ==
  \/ run.at = Create /\ steps[Create] \notin {"queued", "succeeded"} /\ ~run.linked /\ ~suite.made
  \/ run.at = Execute /\ steps[Execute] \notin {"queued", "succeeded"}

Decide(t) ==
  /\ th[t].pc = "decide"
  /\ IF ~(run.status = "running" /\ run.at >= Prepare /\ steps[Prepare] = "succeeded")
     THEN Raise(t, "cleanup")
     ELSE IF SuiteInterrupted THEN Goto(t, "onFail") /\ UNCHANGED lease
     ELSE IF items = NoItems \/ ~Terminal(items) THEN Raise(t, "cleanup")
     ELSE /\ Goto(t, IF Ready = {} THEN "skip" ELSE IF th[t].suite THEN "execute" ELSE "suite")
          /\ UNCHANGED lease
  /\ UNCHANGED <<db, stale, task, asked, spent>>

(* agent_create_suite: start, find or create and converge, link and finish *)
StartSuite(t) ==
  /\ th[t].pc = "suite"
  /\ \/ StartRefused(t)
     \/ StartAccepted(t, Create) /\ Goto(t, "makeSuite")
  /\ UNCHANGED <<stale, task, asked, spent>>

MakeSuite(t) ==
  /\ th[t].pc = "makeSuite"
  /\ \/ suite' = [made |-> TRUE, members |-> Ready] /\ Goto(t, "linkSuite") /\ UNCHANGED lease
     \/ Raise(t, "onFail") /\ UNCHANGED suite
  /\ UNCHANGED <<run, steps, items, stale, task, asked, spent>>

LinkSuite(t) ==
  /\ th[t].pc = "linkSuite"
  /\ run' = [run EXCEPT !.linked = TRUE]
  /\ steps' = [steps EXCEPT ![Create] = "succeeded"]
  /\ Goto(t, "execute")
  /\ UNCHANGED <<items, suite, stale, lease, task, asked, spent>>

(* agent_run_suite *)
StartExecution(t) ==
  /\ th[t].pc = "execute"
  /\ IF th[t].done THEN Goto(t, "complete") /\ UNCHANGED <<db, lease>>
     ELSE \/ StartRefused(t)
          \/ StartAccepted(t, Execute) /\ Goto(t, "executing")
  /\ UNCHANGED <<stale, task, asked, spent>>

ExecutionEnds(t) ==
  /\ th[t].pc = "executing"
  /\ \/ /\ steps' = [steps EXCEPT ![Execute] = "succeeded"]
        /\ Goto(t, "complete") /\ UNCHANGED lease
     \/ steps' = [steps EXCEPT ![Execute] = "failed"] /\ Raise(t, "onFail")
     \/ SeesCancel(t) /\ Raise(t, "onCancel") /\ UNCHANGED steps
  /\ UNCHANGED <<run, items, suite, stale, task, asked, spent>>

(* No script is left: the suite of an earlier attempt goes, both steps are skipped. *)
SkipSuite(t) ==
  /\ th[t].pc = "skip"
  /\ suite' = NoSuite
  /\ run' = [run EXCEPT !.linked = FALSE]
  /\ steps' = [steps EXCEPT ![Create] = "skipped", ![Execute] = "skipped"]
  /\ Goto(t, "completeUnresolved")
  /\ UNCHANGED <<items, stale, lease, task, asked, spent>>

(* complete_agent_workflow *)
Complete(t) ==
  /\ th[t].pc \in {"complete", "completeUnresolved"}
  /\ PublishAgentTerminal("running", IF th[t].pc = "complete" THEN "succeeded"
                                     ELSE "succeeded_with_unresolved")
  /\ IF run.status = "cancelling"
     THEN Goto(t, "finalize") /\ UNCHANGED lease
     ELSE Raise(t, "cleanup")
  /\ UNCHANGED <<stale, task, asked, spent>>

-----------------------------------------------------------------------------
(* How a thread ends *)

(* mark_agent_workflow_cancelled *)
OnCancel(t) ==
  /\ th[t].pc = "onCancel"
  /\ PublishAgentTerminal("cancelling", "cancelled")
  /\ Goto(t, "cleanup")
  /\ UNCHANGED <<stale, lease, task, asked, spent>>

(* mark_agent_workflow_failed: the status it read must still be there when it *)
(* writes; a cancellation that came first or meanwhile is finalized instead.  *)
OnFail(t) ==
  /\ th[t].pc = "onFail"
  /\ th' = [th EXCEPT
       ![t].seen = run.status,
       ![t].pc = IF run.status = "cancelling" THEN "finalize"
                 ELSE IF run.status \in {"queued", "running", "awaiting_script_action"}
                 THEN "publishFailed" ELSE "cleanup"]
  /\ UNCHANGED <<db, stale, lease, task, asked, spent>>

PublishFailed(t) ==
  /\ th[t].pc = "publishFailed"
  /\ PublishAgentTerminal(th[t].seen, "failed")
  /\ Goto(t, IF run.status = "cancelling" THEN "finalize" ELSE "cleanup")
  /\ UNCHANGED <<stale, lease, task, asked, spent>>

(* finalize_agent_cancellation: the scripts first, then the run. *)
Finalize(t) ==
  /\ th[t].pc = "finalize"
  /\ IF run.status = "cancelling" /\ items # NoItems /\ ~Terminal(items)
     THEN items' = Closed(items) /\ steps' = [steps EXCEPT ![Prepare] = "succeeded"]
     ELSE UNCHANGED <<items, steps>>
  /\ Goto(t, IF run.status = "cancelling" THEN "publishCancelled" ELSE "cleanup")
  /\ UNCHANGED <<run, suite, stale, lease, task, asked, spent>>

PublishCancelled(t) ==
  /\ th[t].pc = "publishCancelled"
  /\ PublishAgentTerminal("cancelling", "cancelled")
  /\ Goto(t, "cleanup")
  /\ UNCHANGED <<stale, lease, task, asked, spent>>

Cleanup(t) ==
  /\ th[t].pc = "cleanup"
  /\ CleanupTask(t)
  /\ Unlock(t)
  /\ End(t)
  /\ UNCHANGED <<db, stale, asked, spent>>

-----------------------------------------------------------------------------
(* Requests.  Polling also restarts what a dead process left behind. *)

Continuing(p) == \E u \in Threads : th[u].proc = p /\ th[u].job \in {"continue", "recover"}

\* Mutant of Recoverable: a cancelled run is left to the worker it had.
RecoverableRunning ==
  run.at = Prepare /\ run.status = "running" /\ steps[Prepare] = "running"

Recoverable ==
  \/ run.status = "cancelling" /\ run.at >= Prepare
  \/ run.at = Prepare /\ run.status = "running" /\ steps[Prepare] = "running"

(* claim_script_preparation_continue_record *)
Claimable == /\ run.at = Prepare /\ run.status \in {"running", "awaiting_script_action"}
             /\ steps[Prepare] = "succeeded"
Claimed == [run EXCEPT !.status = "running", !.at = Create]

(* start_agent_script_preparation_continuation(recover=True) *)
Poll(t, p) ==
  /\ th[t].pc = "idle" /\ ~HasLiveTask(p) /\ ~Continuing(p)
  /\ \/ Recoverable /\ Spawn(t, p, "recover", "recover") /\ UNCHANGED run
     \/ /\ ~Recoverable /\ Claimable
        /\ run' = Claimed /\ Spawn(t, p, "continue", "register")
     \/ /\ ~Recoverable /\ steps[Prepare] = "succeeded" /\ run.status = "running"
        /\ run.at > Prepare
        /\ Spawn(t, p, "continue", "register") /\ UNCHANGED run
  /\ UNCHANGED <<steps, items, suite, stale, lease, task, asked, spent>>

(* recover_interrupted_for_web *)
RecoverInterrupted(t) ==
  /\ th[t].pc = "recover"
  /\ IF lease # Nobody THEN End(t) /\ UNCHANGED <<db, lease>>
     ELSE IF run.status = "cancelling" THEN lease' = t /\ Goto(t, "finalize") /\ UNCHANGED db
     ELSE /\ IF run.at = Prepare /\ run.status = "running" /\ steps[Prepare] = "running"
                /\ \E i \in Items : items[i] = "busy"
             THEN Persist([i \in Items |-> IF items[i] = "busy" THEN "waiting" ELSE items[i]])
             ELSE UNCHANGED db
          /\ End(t) /\ UNCHANGED lease
  /\ UNCHANGED <<stale, task, asked, spent>>

(* get_snapshot_for_web *)
ReconcileOnRead ==
  /\ lease = Nobody /\ items # NoItems /\ stale # {} /\ CanReconcile(FALSE)
  /\ Persist(Adopted) /\ stale' = {}
  /\ UNCHANGED <<lease, task, asked, th, spent>>

(* A person's action on one script, under the lease of every module. *)
RequestAction(t, p) ==
  /\ th[t].pc = "idle" /\ lease = Nobody
  /\ run.status = "awaiting_script_action"
  /\ lease' = t /\ Spawn(t, p, "action", "actReconcile") /\ Spend
  /\ UNCHANGED <<db, stale, task, asked>>

ApplyAction(t) ==
  /\ th[t].pc = "actApply"
  /\ IF ~(run.status = "awaiting_script_action" /\ run.at = Prepare)
     THEN Goto(t, "cleanup") /\ UNCHANGED db
     ELSE \E i \in Items :
            \/ /\ items[i] \in {"waiting", "ready"}
               /\ Persist([items EXCEPT ![i] = "abandoned"]) /\ Goto(t, "actSettled")
            \/ /\ items[i] \in {"waiting", "ready", "abandoned"}
               /\ Persist([items EXCEPT ![i] = "busy"])
               /\ th' = [th EXCEPT ![t].pc = "actWork", ![t].item = i]
  /\ UNCHANGED <<stale, lease, task, asked, spent>>

(* The last script settled: claim the suite step inside the lease, start the *)
(* thread that goes on after it.                                             *)
ActionSettled(t) ==
  /\ th[t].pc = "actSettled"
  /\ IF Terminal(items) /\ Claimable THEN run' = Claimed ELSE UNCHANGED run
  /\ IF /\ Terminal(items) /\ Claimable
        /\ ~HasLiveTask(th[t].proc) /\ ~Continuing(th[t].proc)
     THEN Spawn(t, th[t].proc, "continue", "register") /\ Unlock(t)
     ELSE Raise(t, "cleanup")
  /\ UNCHANGED <<steps, items, suite, stale, task, asked, spent>>

(* cancel_agent_run_api.  The flag is set after the database says cancelling. *)
RequestCancel(p) ==
  /\ run.status \in {"queued", "running"}
  /\ run' = [run EXCEPT !.status = "cancelling"]
  /\ asked' = asked \cup {p}
  /\ UNCHANGED <<steps, items, suite, stale, lease, task, th, spent>>

SetFlag(p) ==
  /\ p \in asked
  /\ task' = [task EXCEPT ![p].flag = TRUE]
  /\ asked' = asked \ {p}
  /\ UNCHANGED <<db, stale, lease, th, spent>>

(* cancel_awaiting_agent_workflow: under the lease, and finalized at once. *)
CancelAwaiting(t, p) ==
  /\ th[t].pc = "idle" /\ lease = Nobody /\ run.status = "awaiting_script_action"
  /\ lease' = t
  /\ run' = [run EXCEPT !.status = "cancelling"]
  /\ task' = [task EXCEPT ![p].flag = TRUE]
  /\ Spawn(t, p, "cancel", "finalize")
  /\ UNCHANGED <<steps, items, suite, stale, asked, spent>>

(* reset_agent_run_for_resume, then the resuming thread *)
ResumeRun(t, p, s) ==
  /\ th[t].pc = "idle" /\ run.status \in {"failed", "cancelled"}
  /\ run' = [run EXCEPT !.status = "queued", !.at = s]
  /\ steps' = [k \in StepNumbers |-> IF k >= s THEN "queued" ELSE steps[k]]
  /\ items' = IF s <= Prepare THEN NoItems ELSE items
  /\ th' = [th EXCEPT ![t] = [Idle EXCEPT !.pc = "claimResume", !.job = "resume",
                                          !.proc = p, !.step = s]]
  /\ SpendOn("resumes", MaxResumes)
  /\ UNCHANGED <<suite, stale, lease, task, asked>>

-----------------------------------------------------------------------------
(* Everybody else *)

OutsideTakes ==
  /\ lease = Nobody
  /\ lease' = Outside /\ Spend
  /\ UNCHANGED <<db, stale, task, asked, th>>

OutsideWrites(i) ==
  /\ lease = Outside /\ items # NoItems
  /\ stale' = stale \cup {i}
  /\ UNCHANGED <<db, lease, task, asked, th, spent>>

OutsideLeaves ==
  /\ lease = Outside /\ lease' = Nobody
  /\ UNCHANGED <<db, stale, task, asked, th, spent>>

ProcessDies(p) ==
  /\ \E t \in Threads : th[t].proc = p /\ th[t].pc # "idle"
  /\ th' = [t \in Threads |-> IF th[t].proc = p THEN Idle ELSE th[t]]
  /\ lease' = IF lease \in Threads /\ th[lease].proc = p THEN Nobody ELSE lease
  /\ task' = [task EXCEPT ![p] = NoTask]
  /\ asked' = asked \ {p}
  /\ SpendOn("crashes", MaxCrashes)
  /\ UNCHANGED <<db, stale>>

-----------------------------------------------------------------------------
AgentInit ==
  /\ run = [status |-> "queued", at |-> 1, linked |-> FALSE]
  /\ steps = [s \in StepNumbers |-> "queued"]
  /\ items = NoItems /\ stale = {} /\ suite = NoSuite /\ lease = Nobody
  /\ task = [p \in Procs |-> NoTask]
  /\ asked = {}
  /\ \E t \in Threads, p \in Procs :
       th = [u \in Threads |->
               IF u = t THEN [Idle EXCEPT !.pc = "register", !.job = "flow", !.proc = p] ELSE Idle]
  /\ spent = [events |-> 0, resumes |-> 0, crashes |-> 0]

Step(t) ==
  \/ Register(t) \/ ClaimStart(t) \/ ClaimResume(t) \/ Replace(t) \/ StartStep(t) \/ Work(t)
  \/ PlanBarrier(t) \/ Initialize(t) \/ PrepareItem(t) \/ ItemEnds(t) \/ Prepared(t)
  \/ Load(t) \/ Barrier(t) \/ Reconcile(t) \/ Decide(t)
  \/ StartSuite(t) \/ MakeSuite(t) \/ LinkSuite(t) \/ StartExecution(t) \/ ExecutionEnds(t)
  \/ SkipSuite(t) \/ Complete(t) \/ OnCancel(t) \/ OnFail(t) \/ PublishFailed(t)
  \/ Finalize(t) \/ PublishCancelled(t) \/ Cleanup(t)
  \/ RecoverInterrupted(t) \/ ApplyAction(t) \/ ActionSettled(t)

Request(t, p) ==
  \/ Poll(t, p) \/ RequestAction(t, p) \/ CancelAwaiting(t, p)
  \/ \E s \in StepNumbers : ResumeRun(t, p, s)

AgentNext ==
  \/ \E t \in Threads : Step(t)
  \/ \E t \in Threads, p \in Procs : Request(t, p)
  \/ \E p \in Procs : RequestCancel(p) \/ SetFlag(p) \/ ProcessDies(p)
  \/ ReconcileOnRead \/ OutsideTakes \/ OutsideLeaves \/ \E i \in Items : OutsideWrites(i)

AgentSpec == AgentInit /\ [][AgentNext]_vars

(* Threads run, browsers go on polling, other writers finish. *)
FairAgentSpec ==
  /\ AgentSpec
  /\ \A t \in Threads : WF_vars(Step(t))
  /\ WF_vars(\E t \in Threads, p \in Procs : Poll(t, p))
  /\ \A p \in Procs : WF_vars(SetFlag(p))
  /\ WF_vars(OutsideLeaves)

-----------------------------------------------------------------------------
RunStatuses == AGENT_TERMINAL_STATUSES \cup AGENT_ACTIVE_STATUSES \cup AGENT_PAUSED_STATUSES
StepStatuses == {"queued", "running", "awaiting_action", "succeeded", "failed", "cancelled", "skipped"}
ItemStatuses == {"none", "queued", "busy", "waiting", "ready", "abandoned"}

(* The part of a thread's life that the module's lease covers: preparation,  *)
(* a person's action, and everything from the last look at the revisions to  *)
(* the end of the suite's execution.                                         *)
UnderLease == {"initialize", "prepare", "item",
               "actReconcile", "actApply", "actWork", "actSettled",
               "reconcile", "decide", "suite", "makeSuite", "linkSuite",
               "execute", "executing", "skip", "complete", "completeUnresolved"}

Pcs == UnderLease \cup
       {"idle", "register", "claim", "claimResume", "replace", "start", "work",
        "planBarrier", "load", "barrier", "onCancel", "onFail", "publishFailed",
        "finalize", "publishCancelled", "cleanup", "recover"}
Memories == [pc : Pcs, job : Workflows \cup {"none", "recover", "action", "cancel"},
             proc : Procs, step : 0..Execute, item : Items,
             seen : RunStatuses \cup {"none"}, suite : BOOLEAN, done : BOOLEAN]

(* Types of the run's rows, its scripts, the registries and the threads. *)
AgentTypeOK ==
  /\ run \in [status : RunStatuses, at : StepNumbers, linked : BOOLEAN]
  /\ steps \in [StepNumbers -> StepStatuses]
  /\ items \in [Items -> ItemStatuses]
  /\ stale \subseteq Items /\ asked \subseteq Procs
  /\ suite \in [made : BOOLEAN, members : SUBSET Items]
  /\ lease \in Threads \cup {Nobody, Outside}
  /\ spent \in [events : 0..MaxEvents, resumes : 0..MaxResumes, crashes : 0..MaxCrashes]
  /\ task \in [Procs -> [owner : Threads \cup {Nobody}, flag : BOOLEAN]]
  /\ th \in [Threads -> Memories]

(* finish_with_script_preparation_barrier, "keep module leases through suite  *)
(* execution": nobody else of this run, and no other writer of the module, is *)
(* at work while a thread is, whichever of them crash, resume or cancel.      *)
LeaseCovers == \A t \in Threads : th[t].pc \in UnderLease => lease = t

(* "Recheck all revisions": a suite is executed when every script of the run  *)
(* is at the revision that was accepted, and one at least is; a suite made    *)
(* for this execution holds exactly the accepted ones.                        *)
SuiteIsVerified ==
  \A t \in Threads :
    th[t].pc = "executing" =>
      /\ stale = {} /\ Ready # {}
      /\ th[t].suite \/ suite.members = Ready

\* No step of a cancelled run is left running.
CancelledIsClosed == run.status = "cancelled" => \A s \in StepNumbers : steps[s] # "running"

(* publish_agent_terminal, "atomically close child records before exposing a  *)
(* recoverable terminal run": the step rows tell the same story as the run.   *)
(* (A run cancelled in the queue and resumed past it never uploads, step 1.)  *)
RunMatchesSteps ==
  /\ run.status = "succeeded" => \A s \in 2..Execute : steps[s] = "succeeded"
  /\ run.status = "succeeded_with_unresolved" =>
       Ready = {} /\ \A s \in 2..Execute : steps[s] = (IF s >= Create THEN "skipped" ELSE "succeeded")
  /\ CancelledIsClosed

(* The run as its clients see it: AgentRunPromise. *)
Promised == INSTANCE AgentRunPromise WITH status <- run.status, at <- run.at
ImplementsPromise == Promised!Promise

(* A cancelled run that has reached script preparation is finalized by its     *)
(* worker or, when that died, by whoever polls next.  Before that point a      *)
(* workflow may have left the run without a thread (PlanBarrier, on a taken    *)
(* lease), and no poll looks at it.                                            *)
LateCancelSettles ==
  (run.status = "cancelling" /\ run.at >= Prepare) ~> run.status = "cancelled"

-----------------------------------------------------------------------------
(* tests/test_agent_script_preparation.py:829 has a claimed continuation       *)
(* dispatched after a crash: what is dispatched does not fail the run because   *)
(* the suite it is to create is not there yet.                                 *)
ContinuationProceeds ==
  \A t \in Threads :
    th[t].job = "continue" /\ th[t].pc = "onFail" => steps[Create] # "queued"

(* ARCHITECTURE.md:291: only ready scripts enter the suite, abandoned ones    *)
(* must be left out of it.                                                    *)
OnlyReadyExecuted ==
  \A t \in Threads : th[t].pc = "executing" => suite.members \subseteq Ready
=============================================================================
