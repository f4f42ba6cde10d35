# Verification of script preparation and of the Agent runs around it

The Waterfall AI test platform turns requirements into test plans and test plans
into Playwright scripts: it generates a script with an AI agent, executes it,
repairs it once, and otherwise asks a human. This directory holds TLA+ models of
that core (preparation runs, Agent runs, one generation, one execution), their TLC
runs and TLAPS proofs. Paths below are relative to `src/`, and `script_preparation/`,
`agent/` and so on are packages of `src/test_plan_viewer/`.

## The system

### Where things run

`deploy/entrypoint.sh` starts gunicorn with several processes of several threads.
A request thread may start a background thread in its own process
(`composition._start_module_worker`). Threads of different processes share
only the MySQL database, the script files and the advisory lock of a module. Any
of them may die; nothing in memory survives.

### Components

| Component | State | Operations | What makes it correct |
|---|---|---|---|
| Preparation run store, `script_preparation/repository.py` | one row per run: status, scope key, cancel flag, worker token and lease, document, action queue, recent actions | one transaction per method: create, save, update status, claim scope, enqueue, claim/finish action, claim/renew/release worker, request cancel | one unfinished run per module; cancel is final; an action is never started twice; the token changes hands only by release or expiry |
| Preparation manager, `script_preparation/manager.py`, `composition.py`, `web/module_script_preparation.py` | thread-local worker context | create, `run_initial`, `run_actions`, `run_recovery`, edit, batch, adoption of outside versions, cancel, snapshot | every run comes to rest, every accepted action is reported, only the owner writes |
| State machine, `agent/script_preparation.py` | the document: items with status, revision and a history of stages | generate, execute, repair, analyze, the five human actions, recovery, adoption, closing | ready means verified; one automatic repair; append-only history |
| External operations, `script_preparation/operations.py` | heartbeat registry, jobs | generate, execute, repair, analyze | revision compared under the module's lease, roll back on failure |
| Target lease, `script_preparation/target_lease.py` | a MySQL advisory lock per module | acquire, nested acquire, release | one writer per module |
| Agent workflow and its adapter, `app.py`, `agent_adapter.py` | `agent_runs`, `agent_run_steps`, the task registry of a process | create, work, pause, continue, resume, cancel, conditional updates of run and steps, barriers before the suite | the suite executes what was accepted; step rows and run agree; a cancelled run ends |
| Generation, `app.py`, `generation/cancellation.py` | job row, task registry, OpenCode session, files of the project, asset revision | stream, prompt thread, cancel, accept, record, clean up | what is accepted is what is recorded; a clean-up that raised nothing has restored everything; the job keeps the status its reader was told |
| Execution, `execution/streaming.py`, `results.py` | run, result rows, job, Playwright process | start, output, record, merge, fail, close | a result names the revision that ran; stored results stand; run and job end alike |
| Output buffer and stream consumer, `agent/*` | pending output | append, flush | order kept, nothing lost at the end |
| Assets and revisions, `app.py` | asset rows, revisions, git | sync, restore, delete | a revision per content |
| Projects, suites, plans, requirements, page inventory, setup, accounts | rows and files | CRUD | - |

Interaction: a request or a poll (`GET /api/script-preparation-runs/<id>`) calls the
manager; the manager starts a background thread, which claims the worker token in
the store, drives the state machine, takes the module's lease around each external
operation, and saves the whole document after each step. The state machine
knows neither tokens nor rows: the manager injects both. An Agent run drives the
same state machine through its adapter, which stores the document in a step row
instead. Generation and execution are generators of server-sent events: a browser
reads them over HTTP, a run reads them through `consume_sse`, and either may close
one for good wherever it yields. All writers of scripts (the editor, the recorder,
runs) take the same module lease; an execution holds it from the result row to the
end of Playwright.

What is hard here: two to four parties act on one row (worker, client, poll that
recovers, outside writer); every call of the state machine is a sequence of
independent transactions; a worker may die or lose its 30 s lease between any two;
the file and the document are written by different transactions; cancel may
arrive at any moment, and a reader may leave at any yield, inside an exception
handler too. `PROJECT.json` lists these hazards at their lines.

## The modules

| Module | Models |
|---|---|
| `PreparationRunStore` | the table and every transaction on it, called in any order |
| `PreparationRunStore_proofs` | theorems about it |
| `PreparationWorkers` | one run, its threads and its surroundings; EXTENDS the store and calls its transactions |
| `PreparationWorkers_proofs` | theorems about it, the store's carried over |
| `PreparationItem`, `PreparationItem_proofs` | one item of a document with its full history; theorems |
| `AgentRunPromise` | what a client of an Agent run may rely on: status and current step |
| `AgentWorkflow` | one Agent run with all its threads and requests; implements `AgentRunPromise` |
| `AgentWorkflow_proofs`, `AgentSuite_proofs`, `AgentSole_proofs` | theorems about it; the second about a run that has not been resumed, the third about such a run in one process |
| `Generation`, `Generation_proofs` | one OpenCode generation and everything that happens around it; theorems |
| `ScriptExecution`, `ScriptExecution_proofs` | one streamed execution of a script, a module or a suite; theorems |
| `MC...` | TLC instances |

Two modules are abstract specifications of others: `PreparationWorkers` implements
`PreparationRunStore` (it calls its operators; `workers_recovery` checks and
`ManagerImplementsStore` proves `ImplementsStore`, which maps every document to one, since
the store does not look into it),
and `AgentWorkflow` implements `AgentRunPromise` under the mapping of `run.status`
and `run.at` (`ImplementsPromise`). Generation and execution are leaves: the modules
above see one as a single step with any of its outcomes, and these two modules show
what such a step may do to files, revisions and rows.

### PreparationRunStore

`run[r]` is a row, `act` holds the queue and the recent list of all runs (a queued
or running action is in the queue, a finished one in the recent list). Each
operator is one committed transaction; a call that raises is a disabled action.
The CASE expressions of the UPDATE statements are kept branch by branch, in MySQL's
left-to-right evaluation. `StoreNext` lets anybody call any method with any
token, so it promises only what the table guarantees by itself. It is the
**abstract specification** of the layer above.

### PreparationWorkers

`th[t]` is the program counter and the local memory of thread `t`: its token, the
document it loaded, the current item and action. One step is one transaction,
one acquisition or release of the lease, or the outcome of one external operation.
`rev` are the script files, `passed` the revisions an execution accepted (history
for one property), `lease` the owner of the module's lock.

| Code | Actions |
|---|---|
| `create_run`, actions, batch, edit, GET, cancel | `CreateRun`, `Enqueue`, `EditRequest`, `AdoptRequest`, `Recover`, `CancelRequest`, `ForgetWorker` |
| `run_initial` | `Claim`, `Start`, `Reconcile`, `Resync`, `Resume`, `Loop`, `Settle`, `Fail`, `Close`, `End`, `Release` |
| `run_actions` | `Claim`, `Reconcile`, `RecoverItems`, `NextAction`, `Validate`, `Apply`, `Finish`, `Beat`, `Settle`, `Release` |
| `_reconcile_external_assets` | `Scope`, `Claim`, `Adopt`, `Finally`, `Release` (also nested in `run_actions`) |
| edit | `Scope`, `Claim`, `Load`, `Edit`, `Settle`, `Finally`, `Release` |
| `_persist` | `Save`, `Mark`: two transactions |
| generate, execute, repair, analyze | `Op`, `Write`, `Run`, `Analyze` |
| `_reconcile_owned_assets_and_settle` | `Settle`, `Save`, `Seal`, `Complete` under one lease |
| a fenced call without the token | `Quit` |
| heartbeat, lease running out, death, outside writer | `Heartbeat`, `Expire`, `Crash`, `ExternalTakes`, `ExternalWrites` |

Abstractions: an item is queued, busy, in review, parked, ready or abandoned; a
stage's history is only "a stage was left running" (`open`); steps nothing can
tell apart are one (see the module's head). A file starts at revision 0 (no
script); a run over existing scripts starts in `PreparationItem`. The per-process
lock of `run_actions` is left out: threads of two processes do not share it.

### PreparationItem

`item`, `history` and `file` for one script and `call`, the stack of the thread
that works on it. One action is one `_persist`; `Crash` may fall between any two,
inside an operation too, with the file written or not. `Finish` changes the newest
stage because the code keeps a reference to the stage it began.

### AgentWorkflow

`run` and `steps` are the two tables, `items` the document inside the preparation
step, `stale` the scripts whose file is no longer the revision it knows, `task`
the registry `AGENT_RUN_TASKS` of each process, `th` the threads.

| Code | Actions |
|---|---|
| `run_agent_workflow` | `Register`, `ClaimStart`, `StartStep`, `Work`, `PlanBarrier`, `Initialize`, `PrepareItem`, `ItemEnds`, `Prepared`, then the suite |
| `run_agent_resume_workflow` | `ClaimResume`, `Replace`, then as above |
| `run_agent_script_preparation_continue_workflow` | `Poll`, `Register`, `Load`, then the suite |
| `_finish_agent_after_script_preparation` | `Barrier`, `Reconcile`, `Decide`, `StartSuite`, `MakeSuite`, `LinkSuite`, `StartExecution`, `ExecutionEnds`, `SkipSuite`, `Complete` |
| how threads end | `OnCancel`, `OnFail`, `PublishFailed`, `Finalize`, `PublishCancelled`, `Cleanup` |
| a person's action on a script | `RequestAction`, `ApplyAction`, `ActionSettled` |
| cancel | `RequestCancel` and `SetFlag`, or `CancelAwaiting` |
| resume, GET | `ResumeRun`; `Poll`, `RecoverInterrupted`, `ReconcileOnRead` |
| outside | `OutsideTakes`, `OutsideWrites`, `OutsideLeaves`, `ProcessDies` |

`Persist` and `PublishAgentTerminal` keep the conditions of the UPDATE statements: which
status they expect, and what they do when the run was cancelled or finished
meanwhile. `Work` stands for the three steps before the scripts. What happens to
one script is `PreparationItem`'s subject; here it ends ready, waiting or abandoned.

### Generation

`pc` is where the generator is; `Suspended` are its yields, where `Disconnect` may
strike; `Looking` are the places that look at the cancel flags. Files are four:
the target, the candidate the prompt asks for, an unexpected new script, and a
script of another module; contents are small values that tell OpenCode's from
a person's and valid from invalid. `mode` is what is made (script, repair, plan)
and for whom (browser, module run, Agent), which decides the lease, the clean-up
and who cancels. `Write` and `SessionEnds` are OpenCode, which is external.

Acceptance, clean-up and revision may fail partway. `Finalize` may be refused and restore
all files or some; `SyncAsset` may fail before or after the revision is written; `Restore` and `Resync` are the
two halves of `run_cancel_cleanup`, which swallows any error (app.py:12822): `Restore` may then
leave some files as they were (`PartlyRestored`) and skip the revision, `Resync` leave the revision or
write it and fail after. `cleanup` tells how the last one ended. The
writes of the job row are assumed to succeed. People save a script under the module's lease (`SaveScript`), another plan or
script at any time (`SaveOther`), and the very plan that a planner writes, which takes
no lease, in the three steps of `save_plan` (`EditPlan`, `WritePlan`, `SyncPlan`). `late` says that OpenCode
has written since the stream last settled the files.

What the properties leave out, since nothing in the code prevents it: OpenCode's writes after the result was taken or the files
were restored (`late`); what people save while the stream runs, which a clean-up overwrites;
what a clean-up that raised has left behind; and, for the job row, the cancel request that overwrites it with its earlier reading.

### ScriptExecution

`kind` and `serial` choose among the three generators. `Fault` is a failing database
statement or pipe, and `pc` goes where the `except` clauses send it. `failing` is a
handler that yields; `DisconnectFailing` is a reader that leaves there.

## The runs

| Run | Bounds | Shows |
|---|---|---|
| `store` | 2 runs of 1 module, 2 tokens, 2 actions, symmetry | one unfinished run per module, rows agree, cancel is final, no replay, fenced takeover |
| `workers_safety` | 3 threads, 1 item, 2 revisions, 1 action, 1 death, `Lapses` false, symmetry | ready means executed; completion is scanned; the document is fenced; an ended run is closed |
| `workers_recovery` | 2 threads, 1 item, 1 revision, 1 action, 1 fault (a death or, as `Lapses` is true, the lease of a live worker running out) | recovery brings every run to rest, cancellations end, the workers implement the store |
| `item` | revisions to 2, actions on histories of up to 4 stages, 1 death | everything about one item |
| `agent` | 2 threads, 1 process, 1 script, 2 events of which at most 1 resume and 1 death | suite, rows, refinement, cancellation |
| `generation` | all seven modes, 2 writes by OpenCode, 1 edit by a person | an accepted result is recorded, a clean-up that raised nothing is whole, the job keeps the status the reader was told, and settles |
| `execution` | 3 scripts, 2 saves, 2 faults | revision recorded, outcome agrees, results stand |
| `workers_queue`, `agent_continue`, `agent_suite`, `generation_undone`, `execution_left` | see the files | violations, below |

What each passing run checks, by name:

* `store`: `StoreTypeOK`; `ScopeMatchesStatus` and `FinishedIffTerminal` (a row's
  scope key and finished flag say what its status says); `OneRunPerModule`;
  `TerminalSettled` (failed and cancelled are final; completed reopens only to running,
  and only when the module is free); `CancelWins`, `CancelledQueueEmpty`,
  `NeverReplayed`, `TakeoverFenced`.
* `workers_safety`: `WorkersTypeOK`, `ReadyMeansExecuted`, `TerminalIsClosed`,
  `CompletionScanned`, `DocumentFenced` (the thread that changes the document holds the row's
  token itself, or has none and leaves the document of a cancelled run closed).
* `workers_recovery`: the refinement `ImplementsStore`; `CancelSettles`, `RunSettles`. The
  latter excepts a run whose action was stranded (`Stranded`, the violation of
  `workers_queue`); without a queued action no run is. Both also hold with two
  faults (1.4 million states, too many for a run kept here).
* `item`: `ItemTypeOK`, `ReadyIsVerified`, `RepairIsVerified`, `AutomaticRepairOnce`,
  `OneOpenStage`, `ClosedLeavesNothingOpen`, `HistoryImmutable`, `ItemSettles`.
* `agent`: `AgentTypeOK`; `LeaseCovers` (whoever prepares, reconciles, collects or
  executes scripts holds the module's lease); `SuiteIsVerified` (while the suite executes,
  every file is the revision the run knows and a script is ready; a suite made for this
  execution has exactly the ready ones);
  `RunMatchesSteps`; `ImplementsPromise`; `LateCancelSettles` (a cancellation from
  script preparation on ends, by its worker or by a poll).
* `generation`: `GenerationTypeOK`; `AcceptedIsRecorded` (the job row has an announced success, and
  until a clean-up touches it the revision is the file and the file is valid); `UndoneWhole` (of a clean-up that raised
  nothing); `OutcomeStands` (what the reader was told stays the job's status); `JobSettles`.
  What the first three leave out is listed under *Generation* above.
* `execution`: `ExecutionTypeOK`, `ExecutedIsRecorded`, `OutcomeAgrees`,
  `ResultsStand`.

Each is stated in words above its definition.

Why the bounds are enough. A token has one holder, so liveness and refinement need two
threads, the owner and one it refuses; `workers_safety` has a third, which comes between
them while they close, recover or complete (1.8 million states). One item is enough there because
the theorems below cover any number; two items with two threads also pass, too slowly for a run kept here.
Two revisions are a script and its outside replacement. The automatic flow has at most
five stages (generate, execute, repair, execute, review); an action is accepted
on histories of up to four, adoption, recovery and the stages of that action come on top. One fault, a death or the lease of a live worker
running out (`MaxFaults`), already gives every pair (old worker, new worker); what more of them
add is proved (`ReadyIsExecuted`, `ManagerImplementsStore`, and for deaths the three
properties of the owner). In an Agent run one script waits, changes
or is closed like any other, and two threads are a driver and whoever wants to
drive as well; with a second resume a refinement step fails (below), so one is the
bound. One generation holds its module's lease, so a second is refused; what
else comes between is one edit by a person, of the script or plan or of another (one of each also
pass, 2.5 million states, too slowly for a run kept here). Three scripts give a suite one that
is done, one that runs and one that waits. Deadlock is not checked, except in
`store`: a finished run may rest for ever.

Every property has a mutant, a plausible bug in one mapped definition, that
violates it; they are the operators whose comment begins with "Mutant".

### Fairness

`Works(t)` is weakly fair for each thread: the operating system runs a started
thread, and external operations are assumed to end. `Recovers` is weakly fair because
the browser polls an unfinished run and each GET starts a recovery if
`needs_recovery` says so. A lease nobody renews runs out, and an outside
writer ends. Nothing else is fair: no client acts, nobody cancels, no
heartbeat is owed. An Agent's threads, its polls, the flag a cancel request has
yet to set and an outside holder's release are fair for the same reasons; no
person acts and no process dies of necessity. The generator of a stream is fair as long as it
is read (`Stream`): its waits all have deadlines, so nothing is asked of OpenCode, the
prompt thread or anybody else. In `PreparationItem` a call goes on and a dead one is recovered;
that it is recovered is what `workers_recovery` checks.

### Violations

* `workers_queue` (`QueueIsDrained`). A worker dies after it saved
  `awaiting_action` and before `finish_action`. Nothing in the document is
  interrupted, so the next GET clears the expired token, and with it the only trace
  that a takeover is due. The action stays "running" in `pending_actions`. The
  tests say that an interrupted action is reported as failed
  (`tests/test_module_script_preparation.py:769`). An action enqueued
  between `run_recovery`'s read of the queue and `run_initial`'s end is stranded alike.
* `agent_continue` (`ContinuationProceeds`). When the last script is settled, the next
  poll starts a continuation. It asks `get_agent_step_output` for the suite step it is
  about to execute (app.py:9747), which raises because that step has not
  succeeded yet (app.py:6020): the run fails. The same happens after a crash between the two steps.
* `agent_suite` (`OnlyReadyExecuted`). A run that failed in `run_suite` is continued
  (resumed at `run_suite`, or polled after a death): it loads the suite of the earlier attempt and
  skips `agent_create_suite`, which alone brings its members in line with the scripts. A
  script that was adopted from outside and abandoned meanwhile is still a member and is
  executed (app.py:9747; ARCHITECTURE.md:291 has only ready scripts enter the suite).
* `generation_undone` (`CancelledIsUndone`). The cancel of a module's run raises
  `ModuleScriptPreparationCancelled`, which the stream takes for an ordinary
  error: the job fails, the session is not aborted, the clean-up passed by the
  operation is not called, and `consume_sse` raises before the caller's rollback.
* `execution_left` (`EndedIsSettled`). A reader leaves while an `except` clause yields;
  its sibling `except GeneratorExit` does not catch that. Run, results and job
  stay running, and nothing recovers them.

More of the code's behaviour met while modelling, without a run of its own:

* With a queued action and a death, `claim_scope` drops the expired token, the stranded action keeps
  `_settle` at "running", and every poll starts a worker that changes nothing.
* A cancelled run may show an open review for ever. A cancel that finds no worker closes the document
  without a fence (manager.py:745). An adoption under way may save its open stage
  over that, and dies before it closes it. With four threads and two revisions nobody need die: an edit that has given its
  token back sees the cancel and closes, the recovered `run_initial` of the cancelled run saves the
  document it carries over that, then finds the module leased when it settles, which it takes for
  somebody else's business (manager.py:241), and leaves (48 steps). `TerminalIsClosed` therefore speaks of the worker that
  ends the run and of failed runs.
* What holds of one owner (`TerminalIsClosed`, `DocumentFenced`) fails as soon as the lease of one live thread
  runs out: the old worker and the new one then write in turn. `CompletionScanned` still holds with one
  such lapse.
* `run_actions` that takes over but finds the module leased gives its token back; the
  next worker takes nothing over and so recovers nothing (manager.py:703; with two
  scripts an item stays busy).
* A worker that was taken over adopts an outside version inside `get_snapshot`; the
  nested adoption releases the token it claimed and the thread goes on without
  one, unfenced (manager.py:661; `DocumentFenced` fails with one lapse, after 47 steps).
* `run_agent_workflow` that meets a module leased by somebody else returns without a word
  (app.py:9722). The run stays "running" at `generate_plans` with no thread; a cancel
  makes it "cancelling" for ever, as polls recover a cancelling run only from
  `prepare_scripts` on (composition.py:54), where `LateCancelSettles` starts.
* `ReadyMeansExecuted` says nothing of a script with a stage shown as running. Without the
  exception it fails with one death and one expiry, or with two expiries, once a worker that
  was taken over and the new one overlap on the same script.
* A second resume drives the run while an execution of the first is still on: with two of
  them `SuiteIsVerified`, `RunMatchesSteps` and `ImplementsPromise` fail.
* With two processes and two deaths the run goes from `prepare_scripts` straight to
  `run_suite`. A continuation waits at the barrier in one process; the worker of the other
  adopts an outside version, so people settle the script again, and the last
  action dies before it has claimed the suite step; the old continuation goes on (`ImplementsPromise` fails after 43 steps; with one process it holds).
* `claim_agent_resume` asks only that the run is queued: with two resumes the thread of the
  first can claim the second's run, at its own step (`MaxResumes = 2`). It also claims
  before it replaces the registered worker (app.py:9771), so a late cancel flag of
  the old one can hit it.
* `cancel` of the task registry reads the job and then writes "cancelling" unconditionally
  (cancellation.py:116): a job that ended in between stays "cancelling".
* A reader that leaves a generation has its files restored before the session is aborted; what
  the session writes in between stays. A stream that fails, or whose `wait_for_idle` ends on output
  (app.py:12782), never aborts its session: what it writes later stays beside a recorded success.
* A clean-up that raises is swallowed (app.py:12822): the job becomes cancelled and the
  lease is given back with files, or the revision, partly restored. Only a reader still there is told, by a line that is
  not persisted (app.py:13351).
* A reader that leaves between the announced success and the end has the result undone, perhaps
  partly, while its job stays succeeded (app.py:13358).
* A clean-up or a refused result of a generator puts back all plans and scripts of the snapshot,
  over what people have saved in other modules meanwhile (app.py:11164, 15575). Saving a plan takes no lease, so the clean-up of
  a planner unlinks a plan that somebody has edited meanwhile (app.py:15473), and a save under way writes one
  that was just removed.
* An error other than a closed connection does not terminate Playwright
  (streaming.py:1451): the leases are released while it runs, hence `pc # "over"` in
  `ExecutedIsRecorded`. The handlers of a script and a module replace stored results
  by "failed" (streaming.py:1102); those of a suite do not.

## The proofs

`PreparationRunStore_proofs` proves for any number of runs, modules, requests,
tokens, items and actions, under `MaxActionsAssumption` and `NullsAssumption`
(a NULL is no token, run or request):

* `StoreInvariant`: `StoreSpec => []StoreInv`. `StoreInv` = types, the row
  rules (scope key iff unfinished, finished flag iff terminal, a cancel request
  only with status cancelling or cancelled), one scope key per module, action
  numbers in order, and an empty queue for a cancelled run. `OneRunPerModule` is not
  inductive alone: the table looks only at scope keys, so it needs "scope key iff
  unfinished", and the branches of the CASEs keep that only together with the cancel rule
  of the same row. `RowWrite` carries
  the argument: a write that obeys the row rules and gains no taken scope key
  keeps the invariant; one lemma per group of transactions then shows its row rules.
* The six invariants the runs check follow from it by name (`ScopeAgrees`,
  `ModuleExclusion`, `CancelIsFinal`, ...).
* The action properties `TerminalIsSettled`, `ActionsNeverReplayed` and
  `TakeoverIsFenced` from it and one lemma per step.

`PreparationWorkers_proofs` proves for any number of threads, items, tokens, actions,
revisions, deaths and expiries, under the assumptions of the two modules (the run in
question is the store's only one, `RunsAssumption`; documents are what `Documents` says,
`DocsAssumption`; a free or an outside lease is no thread's, `LeaseAssumption`):

* `WorkersInvariant`. A document reaches the row only from the memory of a thread, saves and
  takeovers overlap, and a thread without its token may still run external operations. So
  `WorkersInv` says of every thread what its document is worth (`Carries`), where it is
  headed and what it brings there (`Headed`), and what it relies on in the row (`Needs`);
  what it relies on only grows, so no other thread disturbs it. `Sound`, that a
  document calls ready only what an execution accepted or a stage is open for, is kept for
  the row and for every memory alike.
* `ReadyIsExecuted` and `WorkersTypeSafety` follow.
* `ManagerUsesStore`: every step is a transaction of the store with some caller's
  arguments, or leaves the table alone, so all the theorems above hold of the manager.
  `ManagerImplementsStore` is the refinement with opaque documents that
  `workers_recovery` checks.
* `OwnerInvariant`, with one hypothesis more, `~Lapses`: no lease runs out under a live thread. A
  background worker renews its 30 s lease every 5 s (operations.py:31, repository.py:654), an edit
  or an adoption is a few transactions; deaths stay unbounded, and the lease of a dead owner
  does run out. `OwnerInv` says of the threads that no two hold one token (`Sole`) and of each
  (`Rightful`): a token in its hands is the row's and live, and without one it has not begun, is
  done or closes a cancelled run (`Holder`); it works on a queued action only with a token
  (`Nests`); what it has closed stays closed until it has reported it (`Closes`); from the scan to the
  completion it holds the module's lease and what it scanned still stands (`Scans`). None of the
  parts is inductive without the others: that nobody else writes needs `Holder`, which needs that a nested
  adoption never runs in an owner's hands (`Nests`), and the only write without a token, the closing of a
  cancelled run, must not undo what the owner has closed or scanned. `Spares` lists what a step
  leaves to the threads that do not move; each action has one lemma for the mover and the
  others (`...Yields`). For `DocumentFenced` each writing action shows that its own thread is entitled to
  write (`Entitled`, `FencedStep`). `EndedRunIsClosed`, `WritesAreFenced` and `CompletionIsScanned` follow.

`PreparationItem_proofs` proves for any number of revisions, stages and deaths, under
`BoundsAssumption` (they are numbers), `ItemInvariant`. None of the five invariants is inductive
alone: whether the next stage is legal depends on where the call is. `InStage` and
`Between` tie the call's place to the newest stage (an operation runs on the stage it began,
between two stages the newest says what follows), `AtRest` and `Left` say what a
returned and a dead call leave. `ItemTypesHold`, `ReadyIsAlwaysVerified`, `RepairsOnce`,
`RepairsAreVerified`, `OneStageIsOpen`, `ClosedIsClosed` follow, and `HistoryAlwaysKept` from one
lemma about a step.

`AgentWorkflow_proofs` proves for any number of scripts, threads, processes, deaths and
resumes, under `AgentAssumption` (there is a script and a process; nobody and the
outside holder are no threads):

* `AgentInvariant`: types, `LeaseCovers`, what a thread is about to write into its step and which
  status a failure replaces (`StepKnown`), and the closed rows of a cancelled run.
  `LeaseAlwaysCovers`, `AgentTypeSafety` and `CancelledRowsClosed` follow.
* `StatusOnlyMoves`: the status moves as `AgentRunPromise` says, however often the run is resumed.

`AgentSuite_proofs` proves `ExecutedIsVerified`: as long as the run has not been resumed
(`NeverResumed`; a second resume really breaks it) `SuiteIsVerified` holds, with
any number of continuations, processes and deaths. `SuiteInv` says where a thread
may be for how far the run has come (`Placed`: only the first workflow works before the
preparation, everybody else after it has begun), and what a thread past its look at the revisions
has made sure of (`Looked`). It is kept because the look and the execution are under one lease
(`LeaseCovers`), scripts, suite and files change only under it (`StepData`), and a run that is
over, or was past the preparation, stays so (`RunGoesOn`).

`AgentSole_proofs` proves, for one process (`OneProcess`; `GUNICORN_WORKERS` is 1 by default) and
a run that is not resumed, `RowsTellTheStory` (`RunMatchesSteps`) and `PromiseKept`
(`ImplementsPromise`), with any number of scripts, threads, deaths, actions and outside writers.
Neither assumption can go: see the list above. `SoleInv` has three parts. `SoleDriver`: the
registry names the worker past its registration, and of the threads that may move the run on
(first workflow, continuation, recovery) there is one. `RowsRight`: what the rows say of each
other. `Knows`: where the run is while a thread is on its way, unless it is over. A thread's own
step keeps what it knows by one lemma per group of actions (`StepKnows`); for the others,
`StepOthers` shows that beside the driver there are only people's requests and actions, which
stop the run where it is (`Kept`) or work on it while it waits at script preparation (`ActGoes`). A poll that
starts a driver finds none (`NobodyDrives`): the registry has no token and no continuation is on, and a
workflow not yet registered means the run has not reached preparation, where polls begin.

`Generation_proofs` proves for any number of writes and edits, wherever acceptance, clean-ups and
revisions fail, under `GenerationAssumption` (modes are combinations the code has),
`GenerationInvariant`. `AcceptedIsRecorded` and `UndoneWhole` rest on the lease held from the snapshot to the end
(`Guarded`), so that people save a script before or after it, and only a plan meanwhile (`SavedOutside`),
on where a stream may be that has told its reader an
outcome or has run a clean-up, whole or not (`HeardThere`, `CleanedThere`), and on what the revision and the files
hold between result, announcement and clean-up (`Recorded`, `Undoing`). `OutcomeStands` needs that an
announcement is a success (`HeardThere`). `SuccessIsRecorded`, `CleanUpIsWhole`, `ToldStands` and
`GenerationTypesHold` follow. They say no more than the properties: what those leave out
is not proved.

`ScriptExecution_proofs` proves for any number of scripts, saves and faults, under
`ExecutionAssumption` (there is a script):

* `ExecutionInvariant`: `ExecutionSpec => []ExecutionInv`. `ExecutedIsRecorded` is
  not inductive alone: what Playwright is about to read must still be what the rows
  name, which needs that no file changes meanwhile (`Held`: all leases of the
  execution are held from the row to the end of the stream) and that nothing has been
  read before (`NotStarted`). `ResultsStand` needs that a result which replaces one in
  memory belongs to a script without a row of its own (`Fresh`, with `AtScript` for the
  place of a serial execution) and that a suite's rows and memory agree (`Agreeing`),
  because the error handlers decide by what is in memory what to write to the rows.
  `StoringSteps` says what the steps that store results may write, `QuietSteps` what
  the steps in between leave alone, and one lemma per conjunct goes through the actions.
* `ExecutionTypesHold`, `ExecutedIsTheRecorded` and `ResultsAlwaysStand` follow from it,
  the last from one lemma about a step (`RowsStand`).

* `OutcomesAgree`, by a second invariant on top (`OutcomeInv`): at which point run
  and job get which status (`Settling`), that a result in memory is in its row (`Told`), and that scripts
  a serial execution has passed, in the end all, have results, but for those the report of a
  failed batch does not name (`Resolved`).

Only model-checked:

* The liveness properties (`RunSettles`, `CancelSettles`, `ItemSettles`, `LateCancelSettles`,
  `JobSettles`): out of the prover's reach.
* `CompletionScanned` of the manager when a live thread loses its lease: TLC finds no violation with one such
  lapse on the instance of `workers_safety`, but the proof rests on the one owner.
* `SuiteIsVerified`, `RunMatchesSteps` and `ImplementsPromise` of an Agent run that has been resumed: the
  run checks one resume, two break them. Without such a bound `CancelledRowsClosed` and `StatusOnlyMoves` are
  what is left of the last two.

## Not modelled

* Texts (prompts, analysis, messages, events), timestamps, the driver's row count,
  the window of 50 recent results, git history, artifacts and evidence.
* The loss of an advisory lock with its connection: nothing in the code notices it,
  so there is no behaviour to state, and no property that relies on a held lease
  survives it.
* The database baseline and its lock directory (app.py:11021): it is off by default, and
  its only protection against two owners is the age of a directory.
* Code the program does not reach: the retry of single scripts of an Agent run
  (app.py:4860-5372, 6147-6627, 10003-10796, and the routes at 14338, which always
  refuse, because `AGENT_STEP_ORDER` no longer has the steps they ask for),
  `agent_generate_scripts`, `agent_execute_generated_scripts`, `agent_repair_scripts`,
  most of `agent/failure_handling.py`, and `web/agent_failures.py`, which is not
  registered.
* The components marked `not_modelled` in `PROJECT.json`: CRUD over single rows,
  parsing and text construction, the browser client, packaging. They make up most
  of the repository's lines, which is why the models map a small share of them.
* A job row or a run left "running" by a dead process: nothing recovers jobs, so
  `ScriptExecution` and `Generation` have no crash; the recovery the code does have
  is in `PreparationWorkers` and `AgentWorkflow`.

## Plan

1. (done) `PreparationRunStore`, its runs and proofs; `PreparationWorkers`
   with the store as its abstract specification; `PreparationItem`.
2. (done) `AgentWorkflow` with `AgentRunPromise`, `Generation`, `ScriptExecution`. The
   module lease is part of each of them rather than a module of its own.
3. (done) Proofs: the safety invariants of all five components, the action properties,
   `WorkersSpec => StoreSpec` and its refinement, `AgentRunPromise`'s statuses.
4. (done) For one process and no resume, `RunMatchesSteps` and `ImplementsPromise`.
5. (done) Unless a live thread's lease runs out, `TerminalIsClosed`, `DocumentFenced` and
   `CompletionScanned`, by the one owner of the token.
6. Open: the three properties of an Agent run with one resume, and `CompletionScanned` over lapses.
