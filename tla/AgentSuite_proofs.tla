--------------------------- MODULE AgentSuite_proofs ---------------------------
(***************************************************************************)
(* Proofs about AgentWorkflow for a run that has not been resumed, with    *)
(* any number of scripts, threads, processes and crashes: what is executed *)
(* was looked at under the lease it is executed under.                     *)
(*                                                                         *)
(* A resume is left out because it really breaks this: it resets the       *)
(* scripts of a failed run while a thread of its past may still execute.   *)
(***************************************************************************)
EXTENDS AgentWorkflow_proofs

Over(r) == r.status \in AGENT_TERMINAL_STATUSES \cup {"cancelling"}
Begun(r) == r.status # "queued" /\ r.at >= Prepare
ReadyOf(d) == {i \in Items : d[i] = "ready"}

\* Before the preparation, which only the first workflow does.
Before == {"start", "work", "planBarrier", "initialize"}
Late == (UnderLease \ {"initialize"}) \cup {"load", "barrier"}
Driving == {"suite", "makeSuite", "linkSuite", "execute", "executing"}

\* Where a thread is says how far the run has come.
Placed(x, r) ==
  /\ x.job # "resume" /\ x.pc \notin {"claimResume", "replace"}
  /\ x.pc \in Before \cup {"claim"} => x.job = "flow"
  /\ x.pc \in Before => r.at < Prepare
  /\ x.pc = "register" => x.job \in {"flow", "continue"}
  /\ x.pc \in Late \/ (x.pc = "register" /\ x.job = "continue") => Begun(r)

\* What a thread on its way to an execution has made sure of; m are the
\* members of the suite.
Looked(x, r, st, d, m) ==
  /\ x.pc = "decide" => st = {} \/ d = NoItems \/ Over(r)
  /\ x.pc \in Driving => st = {} /\ ReadyOf(d) # {}
  /\ x.pc \in {"linkSuite", "execute", "executing"} => x.suite \/ m = ReadyOf(d)

SuiteInv ==
  /\ run.status = "awaiting_script_action" => run.at = Prepare
  /\ \A t, u \in Threads : th[t].job = "flow" /\ th[u].job = "flow" => t = u
  /\ \A t \in Threads : Placed(th[t], run) /\ Looked(th[t], run, stale, items, suite.members)

NeverResumed == spent.resumes = 0

-----------------------------------------------------------------------------
(* What a step does to the run and to the scripts *)

\* How the run's status and step move; p is where the thread that moves it is.
RunGoes(p) ==
  \/ run'.status = run.status /\ run'.at = run.at
  \/ run.status = "queued" /\ run'.status = "running" /\ run'.at = 1
  \/ p = "start" /\ run.status = "running" /\ run'.status = "running" /\ run'.at \in 2..4
  \/ /\ Begun(run) \/ p = "initialize"
     /\ ~Over(run) /\ run'.status # "queued" /\ run'.at >= Prepare
     /\ run'.status = "awaiting_script_action" => run'.at = Prepare
  \/ Over(run') /\ run'.at = run.at

\* A step of somebody who does not hold the lease leaves this alone.
DataKept ==
  /\ stale' = stale /\ suite' = suite /\ ReadyOf(items') = ReadyOf(items)
  /\ items = NoItems => items' = NoItems

LEMMA StatusKinds ==
  /\ ~("queued" \in AGENT_TERMINAL_STATUSES \cup {"cancelling"})
  /\ ~("running" \in AGENT_TERMINAL_STATUSES \cup {"cancelling"})
  /\ ~("awaiting_script_action" \in AGENT_TERMINAL_STATUSES \cup {"cancelling"})
  /\ \A v \in {"succeeded", "succeeded_with_unresolved", "failed", "cancelled", "cancelling"} :
       v \in AGENT_TERMINAL_STATUSES \cup {"cancelling"}
  /\ Prepare = 5 /\ Create = 6 /\ Execute = 7
BY DEF AGENT_TERMINAL_STATUSES, Prepare, Create, Execute

\* The run as it went: what had begun and what was over stays so.
LEMMA RunGoesOn ==
  ASSUME AgentInv, SuiteInv, NEW p, RunGoes(p),
         p = "start" => run.at < Prepare
  PROVE  /\ Begun(run) => Begun(run')
         /\ Over(run) => Over(run')
         /\ run'.status = "awaiting_script_action" => run'.at = Prepare
         /\ run.at < Prepare /\ p # "initialize" => run'.at < Prepare
<1>1. run.at \in 1..7 /\ Prepare = 5
  BY StatusKinds DEF AgentInv, RowsOK, StepNumbers
<1>2. ~Over(run) \/ (run.status # "queued" /\ run.status # "running")
  BY StatusKinds DEF Over
<1>3. Over(run') => run'.status # "queued" /\ run'.status # "awaiting_script_action"
  BY StatusKinds DEF Over
<1>4. CASE run'.status = run.status /\ run'.at = run.at
  BY <1>4 DEF SuiteInv, Begun, Over
<1>5. CASE run.status = "queued" /\ run'.status = "running" /\ run'.at = 1
  BY <1>1, <1>2, <1>5 DEF Begun
<1>6. CASE p = "start" /\ run.status = "running" /\ run'.status = "running" /\ run'.at \in 2..4
  BY <1>1, <1>2, <1>6 DEF Begun
<1>7. CASE /\ Begun(run) \/ p = "initialize"
           /\ ~Over(run) /\ run'.status # "queued" /\ run'.at >= Prepare
           /\ run'.status = "awaiting_script_action" => run'.at = Prepare
  BY <1>1, <1>7 DEF Begun
<1>8. CASE Over(run') /\ run'.at = run.at
  BY <1>1, <1>3, <1>8 DEF Begun
<1> QED
  BY <1>4, <1>5, <1>6, <1>7, <1>8 DEF RunGoes

LEMMA PersistRun ==
  ASSUME AgentInv, NEW p, Begun(run) \/ p = "initialize", NEW d, Persist(d)
  PROVE  RunGoes(p)
<1>1. CASE UNCHANGED run
  BY <1>1 DEF RunGoes
<1>2. CASE ~Terminal(d)
  <2>1. run.status \in {"running", "awaiting_script_action"}
    BY <1>2 DEF Persist, PersistCancelled, PersistConflict
  <2>2. run'.status \in {"running", "awaiting_script_action"} /\ run'.at = Prepare
    BY <1>2 DEF Persist, AgentInv, RowsOK
  <2>3. ~Over(run) /\ run'.at >= Prepare
    BY <2>1, <2>2, StatusKinds DEF Over
  <2> QED
    BY <2>2, <2>3 DEF RunGoes
<1> QED
  BY <1>1, <1>2 DEF Persist

\* A failure or cancellation leaves the step where it was.
LEMMA PublishRun ==
  ASSUME AgentInv, NEW p, NEW expected, NEW terminal \in {"failed", "cancelled"},
         PublishAgentTerminal(expected, terminal)
  PROVE  RunGoes(p)
<1>1. CASE run.status = expected
  <2>1. run'.status = terminal /\ run'.at = run.at
    BY <1>1 DEF PublishAgentTerminal, AgentInv, RowsOK
  <2> QED
    BY <2>1, StatusKinds DEF RunGoes, Over
<1>2. CASE run.status # expected
  BY <1>2 DEF PublishAgentTerminal, RunGoes
<1> QED
  BY <1>1, <1>2

LEMMA AcceptedRun ==
  ASSUME AgentInv, NEW t, NEW p, NEW s, StartAccepted(t, s),
         \/ Begun(run) /\ s \in {Create, Execute}
         \/ p = "start" /\ s \in 2..4
  PROVE  RunGoes(p)
<1>1. run.status = "running" /\ run'.status = "running" /\ run'.at = s /\ ~Over(run)
  BY StatusKinds DEF StartAccepted, AgentInv, RowsOK, Over
<1>2. s \in {Create, Execute} => s >= Prepare
  BY StatusKinds
<1> QED
  BY <1>1, <1>2 DEF RunGoes

LEMMA ClaimedRun == ASSUME AgentInv, NEW p, Claimable, run' = Claimed PROVE RunGoes(p)
<1>1. run'.status = "running" /\ run'.at = Create
  BY DEF Claimed, AgentInv, RowsOK
<1>2. Begun(run) /\ ~Over(run)
  BY StatusKinds DEF Claimable, Begun, Over
<1>3. Create >= Prepare
  BY StatusKinds
<1> QED
  BY <1>1, <1>2, <1>3 DEF RunGoes

LEMMA StepRun ==
  ASSUME AgentInv, SuiteInv, NEW t \in Threads, Step(t)
  PROVE  RunGoes(th[t].pc) /\ (th[t].pc = "start" => run.at < Prepare)
<1> DEFINE p == th[t].pc
<1>0. Placed(th[t], run) /\ StepKnown(th[t])
  BY DEF SuiteInv, AgentInv
<1>a. p = "start" => run.at < Prepare
  BY <1>0 DEF Placed, Before
<1>b. p \in Late => Begun(run)
  BY <1>0 DEF Placed
<1>c. UNCHANGED run => RunGoes(p)
  BY DEF RunGoes
<1> SUFFICES RunGoes(p)
  BY <1>a
<1>1. CASE ClaimStart(t)
  <2>1. CASE run.status = "queued"
    <3>1. run'.status = "running" /\ run'.at = 1
      BY <1>1, <2>1 DEF ClaimStart, AgentInv, RowsOK
    <3> QED
      BY <2>1, <3>1 DEF RunGoes
  <2>2. CASE PublishAgentTerminal("cancelling", "cancelled")
    BY <2>2, PublishRun
  <2> QED
    BY <1>1, <2>1, <2>2 DEF ClaimStart
<1>2. CASE ClaimResume(t)
  BY <1>0, <1>2 DEF Placed, ClaimResume
<1>3. CASE StartStep(t)
  <2>1. p = "start" /\ th[t].step \in 2..4
    BY <1>0, <1>3 DEF StartStep, StepKnown
  <2>2. UNCHANGED run \/ StartAccepted(t, th[t].step)
    BY <1>3 DEF StartStep, StartRefused, db
  <2> QED
    BY <1>c, <2>1, <2>2, AcceptedRun
<1>4. CASE StartSuite(t) \/ StartExecution(t)
  <2>1. Begun(run)
    BY <1>b, <1>4 DEF StartSuite, StartExecution, Late, UnderLease
  <2>2. UNCHANGED run \/ StartAccepted(t, Create) \/ StartAccepted(t, Execute)
    BY <1>4 DEF StartSuite, StartExecution, StartRefused, db
  <2> QED
    BY <1>c, <2>1, <2>2, AcceptedRun
<1>5. CASE Initialize(t)
  <2>1. p = "initialize" /\ (UNCHANGED run \/ \E d : Persist(d))
    BY <1>5 DEF Initialize, Interrupt, db
  <2> QED
    BY <1>c, <2>1, PersistRun
<1>6. CASE PrepareItem(t) \/ ItemEnds(t) \/ Prepared(t) \/ Reconcile(t) \/ ApplyAction(t)
  <2>1. Begun(run)
    BY <1>b, <1>6 DEF PrepareItem, ItemEnds, Prepared, Reconcile, ApplyAction, Late, UnderLease
  <2>2. UNCHANGED run \/ \E d : Persist(d)
    BY <1>6 DEF PrepareItem, ItemEnds, Prepared, Reconcile, ApplyAction, Interrupt, db
  <2> QED
    BY <1>c, <2>1, <2>2, PersistRun
<1>7. CASE RecoverInterrupted(t)
  <2>1. UNCHANGED run \/ (run.at = Prepare /\ run.status = "running" /\ \E d : Persist(d))
    BY <1>7 DEF RecoverInterrupted, db
  <2>2. run.at = Prepare /\ run.status = "running" => Begun(run)
    BY StatusKinds DEF Begun
  <2> QED
    BY <1>c, <2>1, <2>2, PersistRun
<1>8. CASE LinkSuite(t) \/ SkipSuite(t)
  <2>1. run'.status = run.status /\ run'.at = run.at
    BY <1>8 DEF LinkSuite, SkipSuite, AgentInv, RowsOK
  <2> QED
    BY <2>1 DEF RunGoes
<1>9. CASE Complete(t)
  <2>1. Begun(run)
    BY <1>b, <1>9 DEF Complete, Late, UnderLease
  <2>2. PICK terminal \in {"succeeded", "succeeded_with_unresolved"} :
          PublishAgentTerminal("running", terminal)
    BY <1>9 DEF Complete
  <2>3. CASE run.status = "running"
    <3>1. run'.status = terminal /\ run'.at = Execute
      BY <2>2, <2>3 DEF PublishAgentTerminal, AgentInv, RowsOK
    <3>2. ~Over(run) /\ run'.at >= Prepare
      BY <2>3, <3>1, StatusKinds DEF Over
    <3> QED
      BY <2>1, <3>1, <3>2 DEF RunGoes
  <2>4. CASE run.status # "running"
    BY <1>c, <2>2, <2>4 DEF PublishAgentTerminal
  <2> QED
    BY <2>3, <2>4
<1>10. CASE OnCancel(t) \/ PublishCancelled(t) \/ PublishFailed(t)
  BY <1>10, PublishRun DEF OnCancel, PublishCancelled, PublishFailed
<1>11. CASE ActionSettled(t)
  BY <1>c, <1>11, ClaimedRun DEF ActionSettled
<1>12. CASE Register(t) \/ Replace(t) \/ Work(t) \/ PlanBarrier(t) \/ Load(t) \/ Barrier(t) \/ Decide(t)
            \/ MakeSuite(t) \/ ExecutionEnds(t) \/ OnFail(t) \/ Finalize(t) \/ Cleanup(t)
  BY <1>c, <1>12 DEF Register, Replace, Work, PlanBarrier, Load, Barrier, Decide, MakeSuite,
                     ExecutionEnds, OnFail, Finalize, Cleanup, db
<1> QED
  BY <1>1, <1>2, <1>3, <1>4, <1>5, <1>6, <1>7, <1>8, <1>9, <1>10, <1>11, <1>12 DEF Step

\* Scripts, suite and files change under the lease, or when nobody has it.
LEMMA StepData ==
  ASSUME AgentInv, NEW t \in Threads, Step(t)
  PROVE  th[t].pc \in UnderLease \/ lease = Nobody \/ DataKept
<1>0. UNCHANGED <<items, suite, stale>> => DataKept
  BY DEF DataKept, ReadyOf
<1>1. CASE Initialize(t) \/ PrepareItem(t) \/ ItemEnds(t) \/ Prepared(t) \/ Reconcile(t) \/ ApplyAction(t)
           \/ MakeSuite(t) \/ SkipSuite(t)
  BY <1>1 DEF Initialize, PrepareItem, ItemEnds, Prepared, Reconcile, ApplyAction, MakeSuite, SkipSuite,
              UnderLease
<1>2. CASE RecoverInterrupted(t)
  BY <1>0, <1>2 DEF RecoverInterrupted, db
<1>3. CASE Finalize(t)
  <2>1. CASE items' = Closed(items) /\ items # NoItems
    <3>1. ReadyOf(items') = ReadyOf(items)
      BY <2>1 DEF ReadyOf, Closed
    <3> QED
      BY <1>3, <2>1, <3>1 DEF Finalize, DataKept
  <2> QED
    BY <1>0, <1>3, <2>1 DEF Finalize
<1>4. CASE Register(t) \/ ClaimStart(t) \/ ClaimResume(t) \/ Replace(t) \/ StartStep(t) \/ Work(t)
           \/ PlanBarrier(t) \/ Load(t) \/ Barrier(t) \/ Decide(t) \/ StartSuite(t) \/ LinkSuite(t)
  BY <1>0, <1>4 DEF Register, ClaimStart, ClaimResume, Replace, StartStep, Work, PlanBarrier, Load,
     Barrier, Decide, StartSuite, LinkSuite, StartRefused, StartAccepted, PublishAgentTerminal, db
<1>5. CASE StartExecution(t) \/ ExecutionEnds(t) \/ Complete(t) \/ OnCancel(t) \/ OnFail(t)
           \/ PublishFailed(t) \/ PublishCancelled(t) \/ Cleanup(t) \/ ActionSettled(t)
  BY <1>0, <1>5 DEF StartExecution, ExecutionEnds, Complete, OnCancel, OnFail, PublishFailed,
     PublishCancelled, Cleanup, ActionSettled, StartRefused, StartAccepted, PublishAgentTerminal, db
<1> QED
  BY <1>1, <1>2, <1>3, <1>4, <1>5 DEF Step

\* A thread that stays where it is, while somebody else moves the run on.
LEMMA Undisturbed ==
  ASSUME AgentInv, SuiteInv, NEW u \in Threads, NEW p, RunGoes(p), p = "start" => run.at < Prepare,
         th[u].pc \in Before => p # "initialize",
         th[u].pc \in UnderLease => DataKept
  PROVE  Placed(th[u], run') /\ Looked(th[u], run', stale', items', suite'.members)
<1>1. /\ Begun(run) => Begun(run')
      /\ Over(run) => Over(run')
      /\ run.at < Prepare /\ p # "initialize" => run'.at < Prepare
  BY RunGoesOn
<1>2. Placed(th[u], run) /\ Looked(th[u], run, stale, items, suite.members)
  BY DEF SuiteInv
<1>3. Placed(th[u], run')
  BY <1>1, <1>2 DEF Placed
<1>4. CASE th[u].pc \in UnderLease
  BY <1>1, <1>2, <1>3, <1>4 DEF Looked, DataKept
<1>5. CASE th[u].pc \notin UnderLease
  BY <1>3, <1>5 DEF Looked, UnderLease, Driving
<1> QED
  BY <1>4, <1>5

-----------------------------------------------------------------------------
(* Where the thread that moves gets to *)

Moved(t) ==
  /\ th' = [th EXCEPT ![t] = th'[t]]
  /\ th'[t].job = th[t].job \/ th'[t].job \notin {"flow", "resume"}
  /\ Placed(th'[t], run') /\ Looked(th'[t], run', stale', items', suite'.members)

\* Places at which a thread has nothing to answer for.
Free == {"idle", "onCancel", "onFail", "publishFailed", "finalize", "publishCancelled",
         "cleanup", "recover"}

LEMMA PlacesApart ==
  /\ Free \cap (Before \cup Late \cup Driving \cup {"claim", "register", "claimResume", "replace", "decide"}) = {}
  /\ Late \cap (Before \cup {"claim", "register", "claimResume", "replace"}) = {}
  /\ Before \cap (Driving \cup {"claim", "register", "claimResume", "replace", "decide"}) = {}
  /\ Driving \cup {"decide"} \subseteq Late /\ "decide" \notin Driving
  /\ {"linkSuite", "execute", "executing"} \subseteq Driving
  /\ {"claim", "register", "claimResume", "replace"} \cap Driving = {}
BY DEF Free, Before, Late, Driving, UnderLease

LEMMA Lands ==
  ASSUME AgentInv, SuiteInv, NEW t \in Threads, NEW p, Goto(t, p)
  PROVE  /\ th' = [th EXCEPT ![t] = th'[t]]
         /\ th'[t].job = th[t].job /\ th'[t].pc = p /\ th'[t].suite = th[t].suite
         /\ th'[t].job # "resume"
<1>1. th \in [Threads -> Memories] /\ Placed(th[t], run)
  BY DEF AgentInv, SuiteInv
<1>2. th'[t] = [th[t] EXCEPT !.pc = p] /\ th' = [th EXCEPT ![t] = th'[t]]
  BY <1>1 DEF Goto
<1>3. th[t] \in Memories
  BY <1>1
<1> QED
  BY <1>1, <1>2, <1>3 DEF Memories, Placed

LEMMA ToFree ==
  ASSUME AgentInv, SuiteInv, NEW t \in Threads, NEW p \in Free, Goto(t, p)
  PROVE  Moved(t)
BY Lands, PlacesApart DEF Moved, Placed, Looked

LEMMA ToLate ==
  ASSUME AgentInv, SuiteInv, NEW t \in Threads, NEW p \in Late, Goto(t, p), Begun(run'),
         p = "decide" => stale' = {} \/ items' = NoItems \/ Over(run'),
         p \in Driving => stale' = {} /\ ReadyOf(items') # {},
         p \in {"linkSuite", "execute", "executing"} =>
           th[t].suite \/ suite'.members = ReadyOf(items')
  PROVE  Moved(t)
BY Lands, PlacesApart DEF Moved, Placed, Looked

\* The first workflow, on its way to the preparation.
LEMMA ToBefore ==
  ASSUME AgentInv, SuiteInv, NEW t \in Threads, NEW p \in Before \cup {"claim"}, Goto(t, p),
         th[t].job = "flow", p \in Before => run'.at < Prepare
  PROVE  Moved(t)
BY Lands, PlacesApart DEF Moved, Placed, Looked

LEMMA Raised ==
  ASSUME AgentInv, SuiteInv, NEW t \in Threads, NEW p \in Free, Raise(t, p) PROVE Moved(t)
BY ToFree DEF Raise

LEMMA Interrupted ==
  ASSUME AgentInv, SuiteInv, NEW t \in Threads, Interrupt(t) PROVE Moved(t)
BY ToFree DEF Interrupt, Free

LEMMA Ended == ASSUME AgentInv, SuiteInv, NEW t \in Threads, End(t) PROVE Moved(t)
<1>1. th \in [Threads -> Memories]
  BY DEF AgentInv
<1>2. th'[t] = Idle /\ th' = [th EXCEPT ![t] = th'[t]]
  BY <1>1 DEF End
<1>3. Idle.pc = "idle" /\ Idle.job = "none"
  BY DEF Idle
<1>4. "idle" \in Free
  BY DEF Free
<1> QED
  BY <1>2, <1>3, <1>4, PlacesApart DEF Moved, Placed, Looked

LEMMA Spawned ==
  ASSUME AgentInv, SuiteInv, NEW t \in Threads, NEW p, NEW pc,
         NEW job \in {"continue", "recover", "action", "cancel"}, Spawn(t, p, job, pc),
         \/ pc \in Free
         \/ pc \in Late \ (Driving \cup {"decide"}) /\ Begun(run')
         \/ pc = "register" /\ job = "continue" /\ Begun(run')
  PROVE  Moved(t)
<1>1. th \in [Threads -> Memories]
  BY DEF AgentInv
<1> DEFINE x == [Idle EXCEPT !.pc = pc, !.job = job, !.proc = p]
<1>2. th'[t] = x /\ th' = [th EXCEPT ![t] = th'[t]]
  BY <1>1 DEF Spawn
<1>3. x.pc = pc /\ x.job = job
  BY IdleKnown DEF Memories
<1> HIDE DEF x
<1>4. th'[t].pc = pc /\ th'[t].job = job
  BY <1>2, <1>3
<1>5. "register" \notin Before /\ "register" \notin Late
  BY PlacesApart
<1> QED
  BY <1>2, <1>4, <1>5, PlacesApart DEF Moved, Placed, Looked

\* How a step leaves the run, told by where its thread is.
LEMMA StepGoesOn ==
  ASSUME AgentInv, SuiteInv, NEW t \in Threads, Step(t)
  PROVE  /\ Begun(run) => Begun(run')
         /\ Over(run) => Over(run')
         /\ run'.status = "awaiting_script_action" => run'.at = Prepare
         /\ run.at < Prepare /\ th[t].pc # "initialize" => run'.at < Prepare
         /\ th[t].pc \in Late \/ (th[t].pc = "register" /\ th[t].job = "continue") => Begun(run')
         /\ th[t].pc \in Before \cup {"claim"} => th[t].job = "flow"
         /\ th[t].pc \in Before => run.at < Prepare
         /\ th[t].pc \notin {"claimResume", "replace"}
<1>1. RunGoes(th[t].pc) /\ (th[t].pc = "start" => run.at < Prepare)
  BY StepRun
<1>2. Placed(th[t], run)
  BY DEF SuiteInv
<1> QED
  BY <1>1, <1>2, RunGoesOn DEF Placed

\* A thread whose memory changes otherwise than by Goto.
LEMMA Becomes ==
  ASSUME AgentInv, SuiteInv, NEW t \in Threads, NEW x, th' = [th EXCEPT ![t] = x],
         x.job = th[t].job, x.pc \notin Driving \cup {"decide", "register", "claimResume", "replace"},
         x.pc \in Before \cup {"claim"} => x.job = "flow",
         x.pc \in Before => run'.at < Prepare,
         x.pc \in Late => Begun(run')
  PROVE  Moved(t)
<1>1. th'[t] = x /\ th' = [th EXCEPT ![t] = th'[t]]
  BY DEF AgentInv
<1>2. th[t].job # "resume"
  BY DEF SuiteInv, Placed
<1> QED
  BY <1>1, <1>2, PlacesApart DEF Moved, Placed, Looked

LEMMA EarlyMoved ==
  ASSUME AgentInv, SuiteInv, NEW t \in Threads, Step(t),
         \/ Register(t) \/ ClaimStart(t) \/ ClaimResume(t) \/ Replace(t) \/ StartStep(t)
         \/ Work(t) \/ PlanBarrier(t) \/ Initialize(t)
  PROVE  Moved(t)
<1>0. /\ run.at < Prepare /\ th[t].pc # "initialize" => run'.at < Prepare
      /\ th[t].pc = "register" /\ th[t].job = "continue" => Begun(run')
      /\ th[t].pc \in Before \cup {"claim"} => th[t].job = "flow"
      /\ th[t].pc \in Before => run.at < Prepare
      /\ th[t].pc \notin {"claimResume", "replace"}
  BY StepGoesOn
<1>a. {"cleanup", "onCancel", "onFail", "finalize"} \subseteq Free
  BY DEF Free
<1>b. {"start", "work", "planBarrier", "initialize"} = Before /\ "load" \in Late \ (Driving \cup {"decide"})
      /\ "prepare" \in Late \ (Driving \cup {"decide"})
  BY PlacesApart DEF Before, Late, UnderLease, Driving
<1>c. th \in [Threads -> Memories] /\ Placed(th[t], run) /\ StepKnown(th[t])
  BY DEF AgentInv, SuiteInv
<1>1. CASE Register(t)
  <2>1. CASE End(t)
    BY <2>1, Ended
  <2>2. CASE th[t].job = "flow" /\ Goto(t, "claim")
    BY <2>2, ToBefore, PlacesApart, <1>b
  <2>3. CASE th[t].job = "continue" /\ Goto(t, "load")
    BY <1>0, <1>1, <1>b, <2>3, ToLate, PlacesApart DEF Register
  <2> QED
    BY <1>1, <1>c, <2>1, <2>2, <2>3 DEF Register, Placed
<1>2. CASE ClaimStart(t)
  <2>1. CASE run.status = "queued"
    <3> DEFINE x == [th[t] EXCEPT !.pc = "start", !.step = 2]
    <3>1. th' = [th EXCEPT ![t] = x] /\ run'.at = 1 /\ th[t].job = "flow"
      BY <1>0, <1>2, <2>1 DEF ClaimStart, AgentInv, RowsOK
    <3>2. x.pc = "start" /\ x.job = th[t].job
      BY <1>c DEF Memories
    <3> HIDE DEF x
    <3>3. run'.at < Prepare
      BY <3>1, StatusKinds
    <3> QED
      BY <1>b, <3>1, <3>2, <3>3, Becomes, PlacesApart
  <2>2. CASE run.status # "queued"
    BY <1>2, <1>a, <2>2, ToFree DEF ClaimStart
  <2> QED
    BY <2>1, <2>2
<1>3. CASE ClaimResume(t) \/ Replace(t)
  BY <1>0, <1>3 DEF ClaimResume, Replace
<1>4. CASE StartStep(t)
  <2>1. CASE StartRefused(t)
    BY <1>a, <2>1, Raised DEF StartRefused
  <2>2. CASE Goto(t, "work")
    <3>1. th[t].pc = "start"
      BY <1>4 DEF StartStep
    <3> QED
      BY <1>0, <1>b, <2>2, <3>1, ToBefore
  <2> QED
    BY <1>4, <2>1, <2>2 DEF StartStep
<1>5. CASE Work(t)
  <2>0. th[t].pc = "work" /\ run'.at < Prepare /\ th[t].job = "flow"
    BY <1>0, <1>b, <1>5 DEF Work
  <2>1. CASE Goto(t, "onFail") \/ Goto(t, "onCancel")
    BY <1>a, <2>1, ToFree
  <2>2. CASE th' = [th EXCEPT ![t].step = @ + 1,
                              ![t].pc = IF th[t].step = 4 THEN "planBarrier" ELSE "start"]
    <3> DEFINE s == th[t].step + 1
               q == IF th[t].step = 4 THEN "planBarrier" ELSE "start"
               x == [th[t] EXCEPT !.step = s, !.pc = q]
    <3>1. th' = [th EXCEPT ![t] = x]
      BY <1>c, <2>2
    <3>2. q \in {"planBarrier", "start"}
      OBVIOUS
    <3> HIDE DEF s, q
    <3>3. x.pc = q /\ x.job = th[t].job
      BY <1>c DEF Memories
    <3> HIDE DEF x
    <3> QED
      BY <1>b, <2>0, <3>1, <3>2, <3>3, Becomes, PlacesApart
  <2> QED
    BY <1>5, <2>1, <2>2 DEF Work
<1>6. CASE PlanBarrier(t)
  <2>0. th[t].pc = "planBarrier" /\ th[t].job = "flow" /\ run'.at < Prepare
    BY <1>0, <1>b, <1>6 DEF PlanBarrier
  <2>1. CASE Goto(t, "initialize")
    BY <1>b, <2>0, <2>1, ToBefore
  <2>2. CASE Goto(t, "cleanup") \/ Goto(t, "onFail")
    BY <1>a, <2>2, ToFree
  <2> QED
    BY <1>6, <2>1, <2>2 DEF PlanBarrier
<1>7. CASE Initialize(t)
  <2>1. CASE Interrupt(t)
    BY <2>1, Interrupted
  <2>2. CASE Raise(t, "onFail")
    BY <1>a, <2>2, Raised
  <2>3. CASE Goto(t, "prepare") /\ Persist([i \in Items |-> "queued"])
    <3> DEFINE d == [i \in Items |-> "queued"]
    <3>1. PICK i \in Items : TRUE
      BY AgentAssumption
    <3>2. ~Terminal(d)
      BY <3>1 DEF Terminal
    <3>3. run'.status \in {"running", "awaiting_script_action"} /\ run'.at = Prepare
      BY <2>3, <3>2 DEF Persist, AgentInv, RowsOK
    <3>4. Begun(run')
      BY <3>3, StatusKinds DEF Begun
    <3> QED
      BY <1>b, <2>3, <3>4, ToLate, PlacesApart
  <2> QED
    BY <1>7, <2>1, <2>2, <2>3 DEF Initialize
<1> QED
  BY <1>1, <1>2, <1>3, <1>4, <1>5, <1>6, <1>7

\* A run in its last steps that has nothing to compare any more is over.
LEMMA NothingToCompare ==
  ASSUME AgentInv, SuiteInv, Begun(run), ~CanReconcile(TRUE) PROVE Over(run)
<1>1. run.status \in RunStatuses
  BY DEF AgentInv, RowsOK
<1>2. run.status \notin {"queued", "running", "awaiting_script_action"}
  BY DEF Begun, CanReconcile, SuiteInv
<1> QED
  BY <1>1, <1>2 DEF Over, RunStatuses, AGENT_TERMINAL_STATUSES, AGENT_ACTIVE_STATUSES,
                    AGENT_PAUSED_STATUSES

LEMMA PreparingMoved ==
  ASSUME AgentInv, SuiteInv, NEW t \in Threads, Step(t),
         PrepareItem(t) \/ ItemEnds(t) \/ Prepared(t) \/ Load(t) \/ Barrier(t)
  PROVE  Moved(t)
<1>0. th[t].pc \in Late => Begun(run')
  BY StepGoesOn
<1>a. {"cleanup", "onFail", "finalize"} \subseteq Free
  BY DEF Free
<1>b. {"prepare", "item", "actSettled", "actWork", "load", "barrier", "reconcile"}
        \subseteq Late \ (Driving \cup {"decide"})
  BY DEF Late, UnderLease, Driving
<1>c. th \in [Threads -> Memories]
  BY DEF AgentInv
<1>1. CASE PrepareItem(t)
  <2>1. CASE Interrupt(t)
    BY <2>1, Interrupted
  <2>2. CASE Raise(t, "onFail")
    BY <1>a, <2>2, Raised
  <2>3. ASSUME NEW i \in Items, th' = [th EXCEPT ![t].pc = "item", ![t].item = i]
        PROVE  Moved(t)
    <3> DEFINE x == [th[t] EXCEPT !.pc = "item", !.item = i]
    <3>1. th' = [th EXCEPT ![t] = x]
      BY <1>c, <2>3
    <3>2. x.pc = "item" /\ x.job = th[t].job
      BY <1>c DEF Memories
    <3>3. Begun(run')
      BY <1>0, <1>1, <1>b DEF PrepareItem
    <3> HIDE DEF x
    <3> QED
      BY <1>b, <3>1, <3>2, <3>3, Becomes, PlacesApart
  <2> QED
    BY <1>1, <2>1, <2>2, <2>3 DEF PrepareItem
<1>2. CASE ItemEnds(t)
  <2>0. Begun(run')
    BY <1>0, <1>2, <1>b DEF ItemEnds
  <2>1. CASE Interrupt(t)
    BY <2>1, Interrupted
  <2>2. ASSUME NEW p \in {"onFail", "cleanup"}, Raise(t, p) PROVE Moved(t)
    BY <1>a, <2>2, Raised
  <2>3. ASSUME NEW p \in {"prepare", "actSettled"}, Goto(t, p) PROVE Moved(t)
    BY <1>b, <2>0, <2>3, ToLate, PlacesApart
  <2>4. \/ Interrupt(t) \/ Raise(t, "onFail") \/ Raise(t, "cleanup")
        \/ Goto(t, "prepare") \/ Goto(t, "actSettled")
    BY <1>2 DEF ItemEnds
  <2> QED
    BY <2>1, <2>2, <2>3, <2>4
<1>3. CASE Prepared(t)
  <2>0. Begun(run')
    BY <1>0, <1>3, <1>b DEF Prepared
  <2>1. CASE Interrupt(t)
    BY <2>1, Interrupted
  <2>2. CASE Raise(t, "onFail") \/ Raise(t, "cleanup")
    BY <1>a, <2>2, Raised
  <2>3. CASE Raise(t, "barrier")
    BY <1>b, <2>0, <2>3, ToLate, PlacesApart DEF Raise
  <2> QED
    BY <1>3, <2>1, <2>2, <2>3 DEF Prepared
<1>4. CASE Load(t)
  <2>1. CASE Goto(t, "onFail") \/ Goto(t, "cleanup")
    BY <1>a, <2>1, ToFree
  <2>2. CASE th' = [th EXCEPT ![t].pc = "barrier", ![t].suite = TRUE,
                              ![t].done = steps[Execute] = "succeeded"]
    <3> DEFINE done == steps[Execute] = "succeeded"
               x == [th[t] EXCEPT !.pc = "barrier", !.suite = TRUE, !.done = done]
    <3>1. th' = [th EXCEPT ![t] = x]
      BY <1>c, <2>2
    <3> HIDE DEF done
    <3>2. x.pc = "barrier" /\ x.job = th[t].job
      BY <1>c DEF Memories
    <3>3. Begun(run')
      BY <1>0, <1>4, <1>b DEF Load
    <3> HIDE DEF x
    <3> QED
      BY <1>b, <3>1, <3>2, <3>3, Becomes, PlacesApart
  <2> QED
    BY <1>4, <2>1, <2>2 DEF Load
<1>5. CASE Barrier(t)
  <2>1. CASE Goto(t, "onFail") \/ Goto(t, "cleanup")
    BY <1>a, <2>1, ToFree
  <2>2. CASE Goto(t, "reconcile")
    <3>1. Begun(run')
      BY <1>0, <1>5, <1>b DEF Barrier
    <3> QED
      BY <1>b, <2>2, <3>1, ToLate, PlacesApart
  <2> QED
    BY <1>5, <2>1, <2>2 DEF Barrier
<1> QED
  BY <1>1, <1>2, <1>3, <1>4, <1>5

LEMMA DrivingMoved ==
  ASSUME AgentInv, SuiteInv, NEW t \in Threads, Step(t),
         \/ Reconcile(t) \/ Decide(t) \/ StartSuite(t) \/ MakeSuite(t) \/ LinkSuite(t)
         \/ StartExecution(t) \/ ExecutionEnds(t) \/ SkipSuite(t) \/ Complete(t)
  PROVE  Moved(t)
<1>0. (th[t].pc \in Late => Begun(run')) /\ (Over(run) => Over(run'))
  BY StepGoesOn
<1>a. {"cleanup", "onFail", "onCancel", "finalize"} \subseteq Free
  BY DEF Free
<1>b. /\ {"actApply", "reconcile", "actReconcile", "skip", "complete", "completeUnresolved"}
           \subseteq Late \ (Driving \cup {"decide"})
      /\ {"suite", "makeSuite", "linkSuite", "execute", "executing"} = Driving
  BY DEF Late, UnderLease, Driving
<1>c. Looked(th[t], run, stale, items, suite.members) /\ Placed(th[t], run)
  BY DEF SuiteInv
<1>d. ASSUME NEW p \in {"cleanup", "onFail", "onCancel", "finalize"}, Raise(t, p) \/ Goto(t, p)
      PROVE  Moved(t)
  BY <1>a, <1>d, Raised, ToFree
<1>1. CASE Reconcile(t)
  <2>0. Begun(run') /\ Begun(run)
    BY <1>0, <1>1, <1>b, <1>c DEF Reconcile, Placed
  <2>1. CASE Goto(t, "actApply")
    BY <1>b, <2>0, <2>1, ToLate, PlacesApart
  <2>2. CASE Goto(t, "decide") /\ stale' = {}
    BY <2>0, <2>2, ToLate, PlacesApart
  <2>3. CASE /\ Goto(t, "decide") /\ UNCHANGED <<db, stale>>
             /\ items = NoItems \/ stale = {} \/ ~CanReconcile(TRUE)
    <3>1. stale' = {} \/ items' = NoItems \/ Over(run')
      BY <1>0, <2>0, <2>3, NothingToCompare DEF db
    <3> QED
      BY <2>0, <2>3, <3>1, ToLate, PlacesApart
  <2>4. CASE Raise(t, "onCancel") \/ Raise(t, "cleanup")
    BY <1>d, <2>4
  <2> QED
    BY <1>1, <2>1, <2>2, <2>3, <2>4 DEF Reconcile
<1>2. CASE Decide(t)
  <2>0. Begun(run') /\ UNCHANGED <<run, items, suite, stale>>
    BY <1>0, <1>2, PlacesApart DEF Decide, db
  <2>1. CASE Raise(t, "cleanup") \/ Goto(t, "onFail")
    BY <1>d, <2>1
  <2>2. CASE Goto(t, "skip")
    BY <1>b, <2>0, <2>2, ToLate, PlacesApart
  <2>3. CASE /\ run.status = "running" /\ items # NoItems /\ Ready # {}
             /\ Goto(t, IF th[t].suite THEN "execute" ELSE "suite")
    <3>1. ~Over(run)
      BY <2>3, StatusKinds DEF Over
    <3>2. stale = {}
      BY <1>2, <1>c, <2>3, <3>1 DEF Decide, Looked
    <3>3. ReadyOf(items) # {}
      BY <2>3 DEF Ready, ReadyOf
    <3>4. CASE th[t].suite /\ Goto(t, "execute")
      BY <1>b, <2>0, <3>2, <3>3, <3>4, ToLate, PlacesApart
    <3>5. CASE Goto(t, "suite")
      BY <1>b, <2>0, <3>2, <3>3, <3>5, ToLate, PlacesApart
    <3> QED
      BY <2>3, <3>4, <3>5
  <2> QED
    BY <1>2, <2>1, <2>2, <2>3 DEF Decide
<1>e. th[t].pc \in Driving => Begun(run') /\ stale = {} /\ ReadyOf(items) # {}
  BY <1>0, <1>c, PlacesApart DEF Looked
<1>3. CASE StartSuite(t)
  <2>1. CASE StartRefused(t)
    BY <1>d, <2>1 DEF StartRefused
  <2>2. CASE StartAccepted(t, Create) /\ Goto(t, "makeSuite")
    BY <1>3, <1>b, <1>e, <2>2, ToLate, PlacesApart DEF StartSuite, StartAccepted
  <2> QED
    BY <1>3, <2>1, <2>2 DEF StartSuite
<1>4. CASE MakeSuite(t)
  <2>1. CASE Raise(t, "onFail")
    BY <1>d, <2>1
  <2>2. CASE suite' = [made |-> TRUE, members |-> Ready] /\ Goto(t, "linkSuite")
    <3>1. suite'.members = ReadyOf(items)
      BY <2>2 DEF Ready, ReadyOf
    <3> QED
      BY <1>4, <1>b, <1>e, <2>2, <3>1, ToLate, PlacesApart DEF MakeSuite
  <2> QED
    BY <1>4, <2>1, <2>2 DEF MakeSuite
<1>5. CASE LinkSuite(t)
  BY <1>5, <1>b, <1>c, <1>e, ToLate, PlacesApart DEF LinkSuite, Looked
<1>6. CASE StartExecution(t)
  <2>1. CASE StartRefused(t)
    BY <1>d, <2>1 DEF StartRefused
  <2>2. CASE Goto(t, "complete")
    BY <1>6, <1>b, <1>e, <2>2, ToLate, PlacesApart DEF StartExecution
  <2>3. CASE StartAccepted(t, Execute) /\ Goto(t, "executing")
    BY <1>6, <1>b, <1>c, <1>e, <2>3, ToLate, PlacesApart DEF StartExecution, StartAccepted, Looked
  <2> QED
    BY <1>6, <2>1, <2>2, <2>3 DEF StartExecution
<1>7. CASE ExecutionEnds(t)
  <2>1. CASE Raise(t, "onFail") \/ Raise(t, "onCancel")
    BY <1>d, <2>1
  <2>2. CASE Goto(t, "complete")
    BY <1>7, <1>b, <1>e, <2>2, ToLate, PlacesApart DEF ExecutionEnds
  <2> QED
    BY <1>7, <2>1, <2>2 DEF ExecutionEnds
<1>8. CASE SkipSuite(t)
  <2>1. Begun(run')
    BY <1>0, <1>8, <1>b DEF SkipSuite
  <2> QED
    BY <1>8, <1>b, <2>1, ToLate, PlacesApart DEF SkipSuite
<1>9. CASE Complete(t)
  BY <1>9, <1>d DEF Complete
<1> QED
  BY <1>1, <1>2, <1>3, <1>4, <1>5, <1>6, <1>7, <1>8, <1>9

LEMMA EndingMoved ==
  ASSUME AgentInv, SuiteInv, NEW t \in Threads, Step(t),
         \/ OnCancel(t) \/ OnFail(t) \/ PublishFailed(t) \/ Finalize(t) \/ PublishCancelled(t)
         \/ Cleanup(t) \/ RecoverInterrupted(t) \/ ApplyAction(t) \/ ActionSettled(t)
  PROVE  Moved(t)
<1>0. (th[t].pc \in Late => Begun(run')) /\ (Begun(run) => Begun(run'))
  BY StepGoesOn
<1>a. {"cleanup", "finalize", "publishFailed", "publishCancelled"} \subseteq Free
  BY DEF Free
<1>b. {"actApply", "actWork", "actSettled"} \subseteq Late \ (Driving \cup {"decide"})
  BY DEF Late, UnderLease, Driving
<1>c. th \in [Threads -> Memories]
  BY DEF AgentInv
<1>1. CASE OnCancel(t) \/ PublishFailed(t) \/ Finalize(t) \/ PublishCancelled(t)
  BY <1>1, <1>a, ToFree DEF OnCancel, PublishFailed, Finalize, PublishCancelled
<1>2. CASE OnFail(t)
  <2> DEFINE q == IF run.status = "cancelling" THEN "finalize"
                  ELSE IF run.status \in {"queued", "running", "awaiting_script_action"}
                  THEN "publishFailed" ELSE "cleanup"
             s == run.status
             x == [th[t] EXCEPT !.seen = s, !.pc = q]
  <2>1. th' = [th EXCEPT ![t] = x]
    BY <1>2, <1>c DEF OnFail
  <2>2. q \in Free
    BY <1>a
  <2> HIDE DEF q, s
  <2>3. x.pc = q /\ x.job = th[t].job
    BY <1>c DEF Memories
  <2> HIDE DEF x
  <2> QED
    BY <2>1, <2>2, <2>3, Becomes, PlacesApart
<1>3. CASE Cleanup(t)
  BY <1>3, Ended DEF Cleanup
<1>4. CASE RecoverInterrupted(t)
  BY <1>4, <1>a, Ended, ToFree DEF RecoverInterrupted
<1>5. CASE ApplyAction(t)
  <2>0. Begun(run')
    BY <1>0, <1>5, <1>b DEF ApplyAction
  <2>1. CASE Goto(t, "cleanup")
    BY <1>a, <2>1, ToFree
  <2>2. CASE Goto(t, "actSettled")
    BY <1>b, <2>0, <2>2, ToLate, PlacesApart
  <2>3. ASSUME NEW i \in Items, th' = [th EXCEPT ![t].pc = "actWork", ![t].item = i]
        PROVE  Moved(t)
    <3> DEFINE x == [th[t] EXCEPT !.pc = "actWork", !.item = i]
    <3>1. th' = [th EXCEPT ![t] = x]
      BY <1>c, <2>3
    <3>2. x.pc = "actWork" /\ x.job = th[t].job
      BY <1>c DEF Memories
    <3> HIDE DEF x
    <3> QED
      BY <1>b, <2>0, <3>1, <3>2, Becomes, PlacesApart
  <2> QED
    BY <1>5, <2>1, <2>2, <2>3 DEF ApplyAction
<1>6. CASE ActionSettled(t)
  <2>1. Begun(run')
    BY <1>0, <1>6, <1>b DEF ActionSettled
  <2>2. CASE Spawn(t, th[t].proc, "continue", "register")
    BY <2>1, <2>2, Spawned
  <2>3. CASE Raise(t, "cleanup")
    BY <1>a, <2>3, Raised
  <2> QED
    BY <1>6, <2>2, <2>3 DEF ActionSettled
<1> QED
  BY <1>1, <1>2, <1>3, <1>4, <1>5, <1>6

LEMMA StepMoved == ASSUME AgentInv, SuiteInv, NEW t \in Threads, Step(t) PROVE Moved(t)
BY EarlyMoved, PreparingMoved, DrivingMoved, EndingMoved DEF Step

-----------------------------------------------------------------------------
(* SuiteInv is inductive while nobody resumes the run *)

\* One thread has moved, the others are where they were.
LEMMA OneMoves ==
  ASSUME AgentInv, SuiteInv, NEW t \in Threads, Moved(t), NEW p, RunGoes(p),
         p = "start" => run.at < Prepare,
         \A u \in Threads \ {t} : /\ th[u].pc \in Before => p # "initialize"
                                  /\ th[u].pc \in UnderLease => DataKept
  PROVE  SuiteInv'
<1>1. run'.status = "awaiting_script_action" => run'.at = Prepare
  BY RunGoesOn
<1>2. \A u \in Threads \ {t} : th'[u] = th[u]
  BY DEF Moved, AgentInv
<1>3. ASSUME NEW u \in Threads
      PROVE  Placed(th'[u], run') /\ Looked(th'[u], run', stale', items', suite'.members)
  <2>1. CASE u = t
    BY <2>1 DEF Moved
  <2>2. CASE u # t
    <3>1. Placed(th[u], run') /\ Looked(th[u], run', stale', items', suite'.members)
      BY <2>2, Undisturbed
    <3> QED
      BY <1>2, <2>2, <3>1
  <2> QED
    BY <2>1, <2>2
<1>4. ASSUME NEW u \in Threads, NEW v \in Threads, th'[u].job = "flow", th'[v].job = "flow"
      PROVE  u = v
  <2>1. th[u].job = "flow" /\ th[v].job = "flow"
    BY <1>2, <1>4 DEF Moved
  <2> QED
    BY <2>1 DEF SuiteInv
<1> QED
  BY <1>1, <1>3, <1>4 DEF SuiteInv

LEMMA StepSuite == ASSUME AgentInv, SuiteInv, NEW t \in Threads, Step(t) PROVE SuiteInv'
<1>1. RunGoes(th[t].pc) /\ (th[t].pc = "start" => run.at < Prepare)
  BY StepRun
<1>2. Moved(t)
  BY StepMoved
<1>3. ASSUME NEW u \in Threads \ {t}, th[u].pc \in Before PROVE th[t].pc # "initialize"
  <2>1. "initialize" \in Before
    BY DEF Before
  <2>2. th[u].job = "flow" /\ (th[t].pc = "initialize" => th[t].job = "flow")
    BY <1>3, <2>1 DEF SuiteInv, Placed
  <2> QED
    BY <1>3, <2>2 DEF SuiteInv
<1>4. ASSUME NEW u \in Threads \ {t}, th[u].pc \in UnderLease PROVE DataKept
  <2>1. lease = u
    BY <1>4 DEF AgentInv, LeaseCovers
  <2>2. u # Nobody
    BY AgentAssumption
  <2>3. th[t].pc \notin UnderLease
    BY <1>4, <2>1 DEF AgentInv, LeaseCovers
  <2> QED
    BY <2>1, <2>2, <2>3, StepData
<1> QED
  BY <1>1, <1>2, <1>3, <1>4, OneMoves

\* The run goes on, or its data changes while nobody holds the lease; nobody is
\* anywhere new.
LEMMA AllStay ==
  ASSUME AgentInv, SuiteInv, RunGoes("idle"),
         DataKept \/ \A t \in Threads : th[t].pc \notin UnderLease,
         \A t \in Threads : th'[t] \in {th[t], Idle}
  PROVE  SuiteInv'
<1>1. run'.status = "awaiting_script_action" => run'.at = Prepare
  BY RunGoesOn
<1>2. Idle.pc = "idle" /\ Idle.job = "none" /\ "idle" \in Free
  BY DEF Idle, Free
<1>3. ASSUME NEW u \in Threads
      PROVE  Placed(th'[u], run') /\ Looked(th'[u], run', stale', items', suite'.members)
  <2>1. CASE th'[u] = th[u]
    <3>1. Placed(th[u], run') /\ Looked(th[u], run', stale', items', suite'.members)
      BY Undisturbed
    <3> QED
      BY <2>1, <3>1
  <2>2. CASE th'[u] = Idle
    BY <1>2, <2>2, PlacesApart DEF Placed, Looked
  <2> QED
    BY <2>1, <2>2
<1>4. ASSUME NEW u \in Threads, NEW v \in Threads, th'[u].job = "flow", th'[v].job = "flow"
      PROVE  u = v
  <2>1. th[u].job = "flow" /\ th[v].job = "flow"
    BY <1>2, <1>4
  <2> QED
    BY <2>1 DEF SuiteInv
<1> QED
  BY <1>1, <1>3, <1>4 DEF SuiteInv

LEMMA SameData == ASSUME UNCHANGED <<items, suite, stale>> PROVE DataKept
BY DEF DataKept, ReadyOf

LEMMA RequestSuite ==
  ASSUME AgentInv, SuiteInv, NEW t \in Threads, NEW p \in Procs,
         Poll(t, p) \/ RequestAction(t, p) \/ CancelAwaiting(t, p)
  PROVE  SuiteInv'
<1>1. DataKept
  BY SameData DEF Poll, RequestAction, CancelAwaiting, db
<1>2. RunGoes("idle") /\ Moved(t)
  <2>0. UNCHANGED run => RunGoes("idle")
    BY DEF RunGoes
  <2>1. CASE Poll(t, p)
    <3>1. CASE UNCHANGED run /\ Spawn(t, p, "recover", "recover")
      BY <2>0, <3>1, Spawned DEF Free
    <3>2. CASE Claimable /\ run' = Claimed /\ Spawn(t, p, "continue", "register")
      <4>1. Begun(run) /\ RunGoes("idle")
        BY <3>2, ClaimedRun, StatusKinds DEF Claimable, Begun
      <4>2. Begun(run')
        BY <4>1, RunGoesOn
      <4> QED
        BY <3>2, <4>1, <4>2, Spawned
    <3>3. CASE /\ run.status = "running" /\ run.at > Prepare /\ UNCHANGED run
               /\ Spawn(t, p, "continue", "register")
      <4>1. Begun(run')
        <5>1. run.at \in 1..7
          BY StatusKinds DEF AgentInv, RowsOK, StepNumbers
        <5> QED
          BY <3>3, <5>1, StatusKinds DEF Begun
      <4> QED
        BY <2>0, <3>3, <4>1, Spawned
    <3> QED
      BY <2>1, <3>1, <3>2, <3>3 DEF Poll
  <2>2. CASE RequestAction(t, p)
    <3>1. UNCHANGED run /\ Begun(run')
      BY <2>2, StatusKinds DEF RequestAction, db, SuiteInv, Begun
    <3>2. Spawn(t, p, "action", "actReconcile")
      BY <2>2 DEF RequestAction
    <3>3. "actReconcile" \in Late \ (Driving \cup {"decide"})
      BY DEF Late, UnderLease, Driving
    <3> QED
      BY <2>0, <3>1, <3>2, <3>3, Spawned
  <2>3. CASE CancelAwaiting(t, p)
    <3>1. run'.status = "cancelling" /\ run'.at = run.at
      BY <2>3 DEF CancelAwaiting, AgentInv, RowsOK
    <3>2. RunGoes("idle")
      BY <3>1, StatusKinds DEF RunGoes, Over
    <3>3. Spawn(t, p, "cancel", "finalize") /\ "finalize" \in Free
      BY <2>3 DEF CancelAwaiting, Free
    <3> QED
      BY <3>2, <3>3, Spawned
  <2> QED
    BY <2>1, <2>2, <2>3
<1> QED
  BY <1>1, <1>2, OneMoves

LEMMA OthersSuite ==
  ASSUME AgentInv, SuiteInv, NEW p \in Procs,
         \/ RequestCancel(p) \/ SetFlag(p) \/ ProcessDies(p) \/ ReconcileOnRead
         \/ OutsideTakes \/ OutsideLeaves \/ \E i \in Items : OutsideWrites(i)
         \/ UNCHANGED vars
  PROVE  SuiteInv'
<1>0. UNCHANGED run => RunGoes("idle")
  BY DEF RunGoes
<1>1. CASE RequestCancel(p)
  <2>1. run'.status = "cancelling" /\ run'.at = run.at
    BY <1>1 DEF RequestCancel, AgentInv, RowsOK
  <2>2. RunGoes("idle")
    BY <2>1, StatusKinds DEF RunGoes, Over
  <2> QED
    BY <1>1, <2>2, AllStay, SameData DEF RequestCancel
<1>2. CASE ReconcileOnRead
  <2>1. RunGoes("idle")
    <3>1. Begun(run)
      BY <1>2, StatusKinds DEF ReconcileOnRead, CanReconcile, Begun
    <3> QED
      BY <1>2, <3>1, PersistRun DEF ReconcileOnRead
  <2>2. \A t \in Threads : th[t].pc \notin UnderLease
    BY <1>2, AgentAssumption DEF ReconcileOnRead, AgentInv, LeaseCovers
  <2>3. UNCHANGED th
    BY <1>2 DEF ReconcileOnRead
  <2> QED
    BY <2>1, <2>2, <2>3, AllStay
<1>3. CASE \E i \in Items : OutsideWrites(i)
  <2>1. \A t \in Threads : th[t].pc \notin UnderLease
    BY <1>3, AgentAssumption DEF OutsideWrites, AgentInv, LeaseCovers
  <2>2. UNCHANGED <<run, th>>
    BY <1>3 DEF OutsideWrites, db
  <2> QED
    BY <1>0, <2>1, <2>2, AllStay
<1>4. CASE ProcessDies(p)
  <2>1. \A t \in Threads : th'[t] \in {th[t], Idle}
    BY <1>4 DEF ProcessDies
  <2>2. UNCHANGED <<run, items, suite, stale>>
    BY <1>4 DEF ProcessDies, db
  <2> QED
    BY <1>0, <2>1, <2>2, AllStay, SameData
<1>5. CASE SetFlag(p) \/ OutsideTakes \/ OutsideLeaves \/ UNCHANGED vars
  <2>1. UNCHANGED <<run, items, suite, stale, th>>
    BY <1>5 DEF SetFlag, OutsideTakes, OutsideLeaves, vars, db
  <2> QED
    BY <1>0, <2>1, AllStay, SameData
<1> QED
  BY <1>1, <1>2, <1>3, <1>4, <1>5

LEMMA InitSuite == ASSUME AgentInit PROVE SuiteInv
<1>1. PICK t \in Threads, p \in Procs :
        th = [u \in Threads |->
                IF u = t THEN [Idle EXCEPT !.pc = "register", !.job = "flow", !.proc = p] ELSE Idle]
  BY DEF AgentInit
<1> DEFINE x == [Idle EXCEPT !.pc = "register", !.job = "flow", !.proc = p]
<1>2. x.pc = "register" /\ x.job = "flow" /\ Idle.pc = "idle" /\ Idle.job = "none"
  BY IdleKnown DEF Memories, Idle
<1>3. th = [u \in Threads |-> IF u = t THEN x ELSE Idle]
  BY <1>1
<1> HIDE DEF x
<1>4. "idle" \in Free
  BY DEF Free
<1>5. Placed(x, run) /\ Looked(x, run, stale, items, suite.members)
  BY <1>2, PlacesApart DEF Placed, Looked
<1>6. Placed(Idle, run) /\ Looked(Idle, run, stale, items, suite.members)
  BY <1>2, <1>4, PlacesApart DEF Placed, Looked
<1>7. run.status = "queued"
  BY DEF AgentInit
<1> QED
  BY <1>2, <1>3, <1>5, <1>6, <1>7 DEF SuiteInv

\* Resumes are counted and never taken back.
LEMMA ResumesStay ==
  ASSUME AgentInv, [AgentNext]_vars, NeverResumed'
  PROVE  NeverResumed /\ ~(\E t \in Threads, p \in Procs, s \in StepNumbers : ResumeRun(t, p, s))
<1>0. /\ spent \in [events : 0..MaxEvents, resumes : 0..MaxResumes, crashes : 0..MaxCrashes]
      /\ spent'.resumes \in 0..MaxResumes
  BY NextKeeps DEF AgentInv, RegistryOK
<1>a. spent.resumes \in Nat
  BY <1>0, AgentAssumption
<1>1. ASSUME NEW t \in Threads, NEW p \in Procs, NEW s \in StepNumbers, ResumeRun(t, p, s)
      PROVE  FALSE
  <2> DEFINE e == spent.events + 1
             r == spent.resumes + 1
  <2>1. spent' = [spent EXCEPT !.events = e, !.resumes = r]
    BY <1>1 DEF ResumeRun, SpendOn
  <2>2. r # 0
    BY <1>a
  <2> HIDE DEF e, r
  <2> QED
    BY <1>0, <2>1, <2>2 DEF NeverResumed
<1>2. CASE UNCHANGED spent
  BY <1>1, <1>2 DEF NeverResumed
<1>3. CASE Spend
  <2> DEFINE e == spent.events + 1
  <2>1. spent' = [spent EXCEPT !.events = e]
    BY <1>3 DEF Spend
  <2> HIDE DEF e
  <2> QED
    BY <1>0, <1>1, <2>1 DEF NeverResumed
<1>4. CASE SpendOn("crashes", MaxCrashes)
  <2> DEFINE e == spent.events + 1
             c == spent.crashes + 1
  <2>1. spent' = [spent EXCEPT !.events = e, !.crashes = c]
    BY <1>4 DEF SpendOn
  <2> HIDE DEF e, c
  <2> QED
    BY <1>0, <1>1, <2>1 DEF NeverResumed
<1>5. ASSUME NEW t \in Threads, Step(t) PROVE UNCHANGED spent
  BY <1>5 DEF Step, Register, ClaimStart, ClaimResume, Replace, StartStep, Work, PlanBarrier,
     Initialize, PrepareItem, ItemEnds, Prepared, Load, Barrier, Reconcile, Decide, StartSuite,
     MakeSuite, LinkSuite, StartExecution, ExecutionEnds, SkipSuite, Complete, OnCancel, OnFail,
     PublishFailed, Finalize, PublishCancelled, Cleanup, RecoverInterrupted, ApplyAction, ActionSettled
<1>6. ASSUME NEW t \in Threads, NEW p \in Procs, Request(t, p) PROVE UNCHANGED spent \/ Spend
  BY <1>1, <1>6 DEF Request, Poll, RequestAction, CancelAwaiting
<1>7. \/ \E t \in Threads : Step(t)
      \/ \E t \in Threads, p \in Procs : Request(t, p)
      \/ UNCHANGED spent \/ Spend \/ SpendOn("crashes", MaxCrashes)
  BY DEF AgentNext, RequestCancel, SetFlag, ProcessDies, ReconcileOnRead, OutsideTakes,
         OutsideLeaves, OutsideWrites, vars
<1> QED
  BY <1>2, <1>3, <1>4, <1>5, <1>6, <1>7

LEMMA NextSuite ==
  ASSUME AgentInv, NeverResumed => SuiteInv, [AgentNext]_vars
  PROVE  NeverResumed' => SuiteInv'
<1> SUFFICES ASSUME NeverResumed' PROVE SuiteInv'
  OBVIOUS
<1>1. /\ SuiteInv
      /\ ~(\E t \in Threads, p \in Procs, s \in StepNumbers : ResumeRun(t, p, s))
  BY ResumesStay
<1>2. ASSUME NEW t \in Threads, NEW p \in Procs, Request(t, p) PROVE SuiteInv'
  BY <1>1, <1>2, RequestSuite DEF Request
<1>3. PICK p \in Procs : TRUE
  BY AgentAssumption
<1> QED
  BY <1>1, <1>2, <1>3, StepSuite, OthersSuite DEF AgentNext

(* finish_with_script_preparation_barrier, "Recheck all revisions": while a   *)
(* run is as it was started, never resumed, its suite is executed only when   *)
(* every script is at the accepted revision and one is ready, and a suite     *)
(* made for the execution holds exactly those - whatever processes die and    *)
(* however many threads continue the run.                                     *)
THEOREM ExecutedIsVerified == AgentSpec => [](NeverResumed => SuiteIsVerified)
<1> DEFINE I == AgentInv /\ (NeverResumed => SuiteInv)
<1>1. AgentInit => I
  BY InitKeeps, InitSuite
<1>2. I /\ [AgentNext]_vars => I'
  BY NextKeeps, NextSuite
<1>3. I => (NeverResumed => SuiteIsVerified)
  BY PlacesApart DEF SuiteInv, Looked, SuiteIsVerified, Ready, ReadyOf
<1> QED
  BY <1>1, <1>2, <1>3, PTL DEF AgentSpec
=============================================================================
