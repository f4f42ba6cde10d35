--------------------------- MODULE AgentSole_proofs ---------------------------
(***************************************************************************)
(* Proofs about AgentWorkflow for one process (the deployment's default)   *)
(* and a run that has not been resumed, with any number of scripts,        *)
(* threads and crashes: step rows and run tell the same story, and the     *)
(* run implements AgentRunPromise.                                         *)
(*                                                                         *)
(* The argument: the registry and the polls admit one thread that drives   *)
(* the run at a time, and whatever else touches the run does so while it   *)
(* waits for people.  Both are needed: two processes lead the run out of   *)
(* what AgentRunPromise allows, and two resumes break both properties.     *)
(***************************************************************************)
EXTENDS AgentSuite_proofs

OneProcess == \A p, q \in Procs : p = q

Drivers == {"flow", "continue", "recover"}
Suited == {"execute", "executing", "complete"}
Finishing == Driving \cup {"skip", "complete", "completeUnresolved"}
Planned(s) == \A k \in 2..4 : s[k] = "succeeded"

-----------------------------------------------------------------------------
(* Who drives *)

\* A worker past its registration is the one in the registry, and only it.
Registered(x, t, reg) ==
  /\ (x.job \in {"flow", "continue"} /\ x.pc # "register") <=> (reg[x.proc].owner = t)
  /\ (x.pc = "idle") <=> (x.job = "none")

SoleDriver ==
  /\ \A t \in Threads : Registered(th[t], t, task)
  /\ \A t, u \in Threads : th[t].job \in Drivers /\ th[u].job \in Drivers => t = u

-----------------------------------------------------------------------------
(* What the rows say *)

RowsRight(r, s, d) ==
  /\ s[Prepare] = "succeeded" => Terminal(d)
  /\ r.status = "running" /\ r.at > Prepare => s[Prepare] = "succeeded"
  /\ Begun(r) /\ ~Over(r) => Planned(s)
  /\ r.status = "succeeded" => \A k \in 2..Execute : s[k] = "succeeded"
  /\ r.status = "succeeded_with_unresolved" =>
       /\ ReadyOf(d) = {} /\ Planned(s) /\ s[Prepare] = "succeeded"
       /\ s[Create] = "skipped" /\ s[Execute] = "skipped"

\* Where the run is while a thread is on its way, unless it is over ...
AtStep(x, r, s) ==
  /\ x.pc = "start" => r.at = x.step - 1 /\ \A k \in 2..(x.step - 1) : s[k] = "succeeded"
  /\ x.pc = "work" => r.at = x.step /\ \A k \in 2..(x.step - 1) : s[k] = "succeeded"
  /\ x.pc \in {"planBarrier", "initialize"} => r.at = 4 /\ Planned(s)
  /\ x.pc \in {"prepare", "item"} => r.at = Prepare
  /\ x.pc = "actWork" => r.at = Prepare /\ s[Prepare] # "succeeded"

\* ... and from the barrier before the suite on.
AtSuite(x, r, s, d) ==
  /\ x.job = "flow" /\ x.pc \in {"barrier", "reconcile", "decide", "suite"} => r.at <= Create
  /\ x.pc \in {"makeSuite", "linkSuite"} => r.at = Create
  /\ x.job = "continue" /\ x.pc \in {"register", "load", "barrier", "reconcile"} =>
       r.status = "running" /\ r.at >= Create
  /\ x.job = "continue" /\ x.pc = "decide" =>
       r.status # "running" \/ r.at >= Create
  /\ x.job = "continue" /\ x.pc \in {"barrier", "reconcile", "decide"} => s[Create] = "succeeded"
  /\ x.pc \in Suited => r.at >= Create /\ s[Create] = "succeeded"
  /\ x.done /\ x.pc \in {"barrier", "reconcile", "decide", "execute"} => s[Execute] = "succeeded"
  /\ x.pc = "complete" => s[Execute] = "succeeded"
  /\ x.pc \in Finishing => s[Prepare] = "succeeded"
  /\ x.pc \in {"skip", "completeUnresolved"} => ReadyOf(d) = {}
  /\ x.pc = "completeUnresolved" => s[Create] = "skipped" /\ s[Execute] = "skipped"

\* Memory of the suite that an earlier attempt left.
Remembers(x) ==
  /\ x.job # "continue" => ~x.suite /\ ~x.done
  /\ x.job = "continue" /\ x.pc \in {"barrier", "reconcile", "decide"} => x.suite

\* Jobs keep to their places.
InPlace(x, r) ==
  /\ x.job = "flow" /\ x.pc \in {"register", "claim"} => r.at < Prepare
  /\ x.job = "recover" => x.pc \in {"recover", "finalize", "publishCancelled", "cleanup"}
  /\ x.job \in {"action", "cancel"} =>
       x.pc \in {"actReconcile", "actApply", "actWork", "actSettled", "finalize", "publishCancelled", "cleanup"}
  /\ x.pc \in {"actReconcile", "actApply", "actWork", "actSettled"} => x.job = "action"
  /\ x.pc \in {"prepare", "item", "suite", "makeSuite", "linkSuite"} => x.job = "flow"
  /\ x.pc = "load" => x.job = "continue"
  /\ x.pc = "recover" => x.job = "recover"

Knows(x, r, s, d) ==
  /\ Remembers(x) /\ InPlace(x, r)
  /\ Over(r) \/ (AtStep(x, r, s) /\ AtSuite(x, r, s, d))
  /\ x.pc \in Finishing => r.status \notin {"succeeded", "succeeded_with_unresolved"}

SoleInv ==
  /\ SoleDriver /\ RowsRight(run, steps, items)
  /\ \A t \in Threads : Knows(th[t], run, steps, items)

-----------------------------------------------------------------------------
(* Transactions *)

\* How status and step of the run may move: AgentRunPromise, without Resume.
Promising ==
  \/ run'.status = run.status /\ run'.at = run.at
  \/ run.status = "queued" /\ run'.status = "running" /\ run'.at \in StepNumbers
  \/ /\ run.status = "running" /\ run'.status = "running"
     /\ run'.at = run.at + 1 /\ run.at < Execute
  \/ /\ run.status = "running" /\ run.at >= Prepare
     /\ run'.status = "awaiting_script_action" /\ run'.at = Prepare
  \/ /\ run.status = "awaiting_script_action" /\ run.at = Prepare
     /\ run'.status = "running" /\ run'.at \in {Prepare, Create}
  \/ /\ run.status \in {"queued", "running", "awaiting_script_action"}
     /\ run'.status \in {"cancelling", "failed"} /\ run'.at = run.at
  \/ run.status = "cancelling" /\ run'.status = "cancelled" /\ run'.at = run.at
  \/ /\ run.status = "running" /\ run.at >= Create
     /\ run'.status = "succeeded" /\ run'.at = Execute
  \/ /\ run.status = "running" /\ run.at >= Prepare
     /\ run'.status = "succeeded_with_unresolved" /\ run'.at = Execute

LEMMA PromiseSteps == Promising => [Promised!PromiseNext]_(Promised!promiseVars)
BY DEF Promising, Promised!PromiseNext, Promised!promiseVars, Promised!Begin, Promised!Advance,
       Promised!Pause, Promised!Act, Promised!AskCancel, Promised!Cancel, Promised!Fail,
       Promised!Finish, Promised!Unfinished, Promised!Preparing, Promised!Creating,
       Promised!Executing, Prepare, Create, Execute, StepNumbers

LEMMA RowTypes ==
  ASSUME AgentInv
  PROVE  /\ run.status \in RunStatuses /\ run.at \in 1..7
         /\ steps \in [1..7 -> StepStatuses] /\ StepNumbers = 1..7
BY StatusKinds DEF AgentInv, RowsOK, StepNumbers

\* A document with a script somebody works on is not settled.
Underway(d) == \E i \in Items : d[i] \in {"queued", "busy"}

LEMMA PersistRight ==
  ASSUME AgentInv, RowsRight(run, steps, items), NEW d, Persist(d), Over(run) \/ Planned(steps)
  PROVE  RowsRight(run', steps', items')
<1>0. /\ run.at \in 1..7 /\ steps \in [1..7 -> StepStatuses]
      /\ Prepare = 5 /\ Create = 6 /\ Execute = 7
  BY RowTypes, StatusKinds
<1>1. /\ run.status \in {"running", "awaiting_script_action", "cancelling"}
      /\ steps' = [steps EXCEPT ![5] = StepStatus(d)] /\ items' = d
      /\ StepStatus(d) = "succeeded" <=> Terminal(d)
  BY <1>0 DEF Persist, PersistCancelled, PersistConflict, StepStatus
<1>2. steps'[5] = StepStatus(d) /\ (Planned(steps) => Planned(steps'))
  BY <1>0, <1>1 DEF Planned
<1>3. CASE Terminal(d)
  <2>1. UNCHANGED run
    BY <1>3 DEF Persist
  <2> QED
    BY <1>0, <1>1, <1>2, <1>3, <2>1, StatusKinds DEF RowsRight, Over
<1>4. CASE ~Terminal(d)
  <2>1. run'.status \in {"running", "awaiting_script_action"} /\ run'.at = 5 /\ ~Over(run)
    <3>1. run.status # "cancelling"
      BY <1>4 DEF Persist, PersistCancelled
    <3>2. run'.status \in {"running", "awaiting_script_action"} /\ run'.at = 5
      BY <1>0, <1>4 DEF Persist, AgentInv, RowsOK
    <3> QED
      BY <1>1, <3>1, <3>2, StatusKinds DEF Over
  <2> QED
    BY <1>0, <1>1, <1>2, <1>4, <2>1 DEF RowsRight
<1> QED
  BY <1>3, <1>4

LEMMA PersistPromising ==
  ASSUME AgentInv, SuiteInv, NEW d, Persist(d),
         \/ run.at = Prepare \/ Terminal(d) \/ Over(run)
         \/ run.at = 4 /\ run.status = "running" /\ Underway(d)
         \/ run.at >= Prepare /\ ~Underway(d)
  PROVE  Promising
<1>0. run.at \in 1..7 /\ Prepare = 5 /\ Create = 6 /\ Execute = 7
  BY RowTypes, StatusKinds
<1>1. CASE Terminal(d)
  BY <1>1 DEF Persist, Promising
<1>2. CASE ~Terminal(d)
  <2>1. run.status \in {"running", "awaiting_script_action"}
    BY <1>2 DEF Persist, PersistCancelled, PersistConflict
  <2>2. ~Over(run)
    BY <2>1, StatusKinds DEF Over
  <2>3. run' = [run EXCEPT !.status = IF StepStatus(d) = "running" THEN "running"
                                      ELSE "awaiting_script_action", !.at = 5]
    BY <1>0, <1>2 DEF Persist
  <2>4. run'.at = 5 /\ run'.status = IF StepStatus(d) = "running" THEN "running"
                                     ELSE "awaiting_script_action"
    BY <2>3 DEF AgentInv, RowsOK
  <2>5. StepStatus(d) = "running" <=> Underway(d)
    BY <1>2 DEF StepStatus, Underway
  <2>6. run.status = "awaiting_script_action" => run.at = 5
    BY <1>0 DEF SuiteInv
  <2> QED
    BY <1>0, <1>2, <2>1, <2>2, <2>4, <2>5, <2>6 DEF Promising
<1> QED
  BY <1>1, <1>2

LEMMA PublishRight ==
  ASSUME AgentInv, RowsRight(run, steps, items), NEW expected,
         NEW terminal \in {"failed", "cancelled"}, PublishAgentTerminal(expected, terminal)
  PROVE  /\ RowsRight(run', steps', items')
         /\ \/ run'.status = run.status /\ run'.at = run.at /\ steps' = steps
            \/ run.status = expected /\ run'.status = terminal /\ run'.at = run.at
<1>0. /\ run.at \in 1..7 /\ steps \in [1..7 -> StepStatuses] /\ StepNumbers = 1..7
      /\ Prepare = 5 /\ Create = 6 /\ Execute = 7
  BY RowTypes, StatusKinds
<1>1. CASE run.status = expected
  <2>1. run'.status = terminal /\ run'.at = run.at /\ items' = items
    BY <1>1 DEF PublishAgentTerminal, AgentInv, RowsOK
  <2>2. Over(run')
    BY <2>1, StatusKinds DEF Over
  <2>3. steps'[5] = "succeeded" => steps[5] = "succeeded"
    BY <1>0, <1>1 DEF PublishAgentTerminal, ClosedSteps
  <2> QED
    BY <1>0, <1>1, <2>1, <2>2, <2>3 DEF RowsRight
<1>2. CASE run.status # expected
  BY <1>2 DEF PublishAgentTerminal
<1> QED
  BY <1>1, <1>2

\* A step of the run begins.
LEMMA AcceptedRight ==
  ASSUME AgentInv, RowsRight(run, steps, items), NEW t, NEW s, StartAccepted(t, s),
         \/ s \in 2..4 /\ run.at = s - 1
         \/ /\ s \in {Create, Execute} /\ s - 1 <= run.at /\ run.at <= s
            /\ Begun(run) /\ steps[Prepare] = "succeeded"
  PROVE  /\ RowsRight(run', steps', items') /\ Promising
         /\ run'.status = "running" /\ run'.at = s /\ s \in 2..7
         /\ steps' = [steps EXCEPT ![s] = "running"]
<1>0. /\ run.at \in 1..7 /\ steps \in [1..7 -> StepStatuses]
      /\ Prepare = 5 /\ Create = 6 /\ Execute = 7
  BY RowTypes, StatusKinds
<1>1. /\ run.status = "running" /\ run'.status = "running" /\ run'.at = s /\ ~Over(run)
      /\ items' = items /\ steps' = [steps EXCEPT ![s] = "running"]
  BY StatusKinds DEF StartAccepted, AgentInv, RowsOK, Over
<1>2. s \in {2, 3, 4, 6, 7}
  BY <1>0
<1>3. steps'[5] = steps[5]
  BY <1>0, <1>1, <1>2
<1>4. CASE s \in 2..4
  BY <1>0, <1>1, <1>3, <1>4 DEF RowsRight, Begun, Promising
<1>5. CASE s \in {6, 7}
  <2>1. Planned(steps')
    BY <1>0, <1>1, <1>5 DEF RowsRight, Planned
  <2> QED
    BY <1>0, <1>1, <1>3, <1>5, <2>1 DEF RowsRight, Promising
<1> QED
  BY <1>0, <1>1, <1>2, <1>4, <1>5

LEMMA ClaimedRight ==
  ASSUME AgentInv, RowsRight(run, steps, items), Claimable, run' = Claimed, UNCHANGED <<steps, items>>
  PROVE  RowsRight(run', steps', items') /\ Promising /\ run'.status = "running" /\ run'.at = Create
<1>0. Prepare = 5 /\ Create = 6 /\ Execute = 7
  BY StatusKinds
<1>1. run'.status = "running" /\ run'.at = 6
  BY <1>0 DEF Claimed, AgentInv, RowsOK
<1>2. Begun(run) /\ ~Over(run)
  BY <1>0, StatusKinds DEF Claimable, Begun, Over
<1> QED
  BY <1>0, <1>1, <1>2 DEF RowsRight, Claimable, Promising

\* A step row is closed whose value the rules leave open.
LEMMA SameRight ==
  ASSUME RowsRight(run, steps, items), run'.status = run.status, run'.at = run.at,
         UNCHANGED <<steps, items>>
  PROVE  RowsRight(run', steps', items') /\ Promising
BY DEF RowsRight, Promising, Begun, Over

LEMMA PersistGood ==
  ASSUME AgentInv, SuiteInv, RowsRight(run, steps, items), Begun(run), NEW d, Persist(d),
         run.at = Prepare \/ Over(run) \/ ~Underway(d)
  PROVE  RowsRight(run', steps', items') /\ Promising
<1>1. Over(run) \/ Planned(steps)
  BY DEF RowsRight
<1>2. run.at >= Prepare
  BY DEF Begun
<1> QED
  BY <1>1, <1>2, PersistRight, PersistPromising

\* Nothing is put back to work when a settled document is compared with the files.
LEMMA ReconciledGood ==
  ASSUME AgentInv, SuiteInv, RowsRight(run, steps, items), NEW allowed \in BOOLEAN,
         CanReconcile(allowed), Persist(Adopted)
  PROVE  RowsRight(run', steps', items') /\ Promising
<1>0. run.at \in 1..7 /\ Prepare = 5
  BY RowTypes, StatusKinds
<1>1. Begun(run)
  BY <1>0, StatusKinds DEF CanReconcile, Begun
<1>2. CASE run.at = Prepare
  BY <1>1, <1>2, PersistGood
<1>3. CASE run.at # Prepare
  <2>1. Terminal(items)
    BY <1>0, <1>3 DEF CanReconcile, RowsRight
  <2>2. ~Underway(Adopted)
    BY <2>1 DEF Underway, Adopted, Terminal
  <2> QED
    BY <1>1, <2>2, PersistGood
<1> QED
  BY <1>2, <1>3

-----------------------------------------------------------------------------
(* Steps keep the rows right, and move the run as promised *)

LEMMA WorkRows ==
  ASSUME AgentInv, SuiteInv, SoleInv, NEW t \in Threads, ClaimStart(t) \/ StartStep(t) \/ Work(t)
  PROVE  RowsRight(run', steps', items') /\ Promising
<1>0. /\ run.at \in 1..7 /\ steps \in [1..7 -> StepStatuses]
      /\ Prepare = 5 /\ Create = 6 /\ Execute = 7 /\ StepNumbers = 1..7
  BY RowTypes, StatusKinds
<1>a. RowsRight(run, steps, items) /\ Knows(th[t], run, steps, items) /\ StepKnown(th[t])
  BY DEF SoleInv, AgentInv
<1>1. CASE ClaimStart(t)
  <2>1. CASE run.status = "queued"
    <3>1. /\ run'.status = "running" /\ run'.at = 1 /\ items' = items
          /\ steps' = [steps EXCEPT ![1] = "succeeded"]
      BY <1>1, <2>1 DEF ClaimStart, AgentInv, RowsOK
    <3>2. steps'[5] = steps[5]
      BY <1>0, <3>1
    <3> QED
      BY <1>0, <1>a, <2>1, <3>1, <3>2 DEF RowsRight, Begun, Promising
  <2>2. CASE run.status # "queued"
    <3>1. PublishAgentTerminal("cancelling", "cancelled")
      BY <1>1, <2>2 DEF ClaimStart
    <3> QED
      BY <1>a, <3>1, PublishRight DEF Promising
  <2> QED
    BY <2>1, <2>2
<1>2. CASE StartStep(t)
  <2>1. CASE UNCHANGED db
    BY <1>a, <2>1, SameRight DEF db
  <2>2. CASE StartAccepted(t, th[t].step)
    <3>1. ~Over(run) /\ th[t].pc = "start" /\ th[t].step \in 2..4
      BY <1>2, <1>a, <2>2, StatusKinds DEF StartStep, StartAccepted, Over, StepKnown
    <3>2. run.at = th[t].step - 1
      BY <1>a, <3>1 DEF Knows, AtStep
    <3> QED
      BY <1>a, <2>2, <3>1, <3>2, AcceptedRight
  <2> QED
    BY <1>2, <2>1, <2>2 DEF StartStep, StartRefused
<1>3. CASE Work(t)
  <2>1. th[t].step \in 2..4 /\ UNCHANGED <<run, items>>
    BY <1>3, <1>a DEF Work, StepKnown
  <2>2. CASE UNCHANGED steps
    BY <1>a, <2>1, <2>2, SameRight
  <2>3. CASE steps' = [steps EXCEPT ![th[t].step] = "succeeded"]
    <3>1. \A k \in 1..7 : steps'[k] = steps[k] \/ (k = th[t].step /\ steps'[k] = "succeeded")
      BY <1>0, <2>3
    <3>2. /\ steps'[5] = steps[5] /\ steps'[6] = steps[6] /\ steps'[7] = steps[7]
          /\ \A k \in 2..7 : steps[k] = "succeeded" => steps'[k] = "succeeded"
      BY <1>0, <2>1, <3>1
    <3> QED
      BY <1>0, <1>a, <2>1, <3>2 DEF RowsRight, Planned, Promising
  <2> QED
    BY <1>3, <2>2, <2>3 DEF Work
<1> QED
  BY <1>1, <1>2, <1>3

LEMMA PrepareRows ==
  ASSUME AgentInv, SuiteInv, SoleInv, NEW t \in Threads,
         \/ Initialize(t) \/ PrepareItem(t) \/ ItemEnds(t) \/ Prepared(t) \/ Reconcile(t)
         \/ RecoverInterrupted(t) \/ ApplyAction(t)
  PROVE  RowsRight(run', steps', items') /\ Promising
<1>0. run.at \in 1..7 /\ Prepare = 5 /\ Create = 6 /\ Execute = 7
  BY RowTypes, StatusKinds
<1>a. RowsRight(run, steps, items) /\ Knows(th[t], run, steps, items) /\ Placed(th[t], run)
  BY DEF SoleInv, SuiteInv
<1>b. UNCHANGED db => RowsRight(run', steps', items') /\ Promising
  BY <1>a, SameRight DEF db
<1>1. CASE Initialize(t)
  <2> DEFINE d == [i \in Items |-> "queued"]
  <2>1. CASE Persist(d)
    <3>1. PICK i \in Items : TRUE
      BY AgentAssumption
    <3>2. Underway(d) /\ ~Terminal(d)
      BY <3>1 DEF Underway, Terminal
    <3>3. run.status \in {"running", "awaiting_script_action"}
      BY <2>1, <3>2 DEF Persist, PersistCancelled, PersistConflict
    <3>4. ~Over(run)
      BY <3>3, StatusKinds DEF Over
    <3>5. run.at = 4 /\ Planned(steps)
      BY <1>1, <1>a, <3>4 DEF Initialize, Knows, AtStep
    <3>6. run.status = "running"
      BY <1>0, <3>3, <3>5 DEF SuiteInv
    <3> HIDE DEF d
    <3> QED
      BY <1>a, <2>1, <3>2, <3>5, <3>6, PersistRight, PersistPromising
  <2> QED
    BY <1>1, <1>b, <2>1 DEF Initialize, Interrupt
<1>2. CASE PrepareItem(t) \/ ItemEnds(t) \/ Prepared(t)
  <2>1. th[t].pc \in {"prepare", "item", "actWork"}
    BY <1>2 DEF PrepareItem, ItemEnds, Prepared
  <2>2. Begun(run)
    BY <1>a, <2>1 DEF Placed, Late, UnderLease
  <2>3. run.at = Prepare \/ Over(run)
    BY <1>a, <2>1 DEF Knows, AtStep
  <2>4. UNCHANGED db \/ \E d : Persist(d)
    BY <1>2 DEF PrepareItem, ItemEnds, Prepared, Interrupt
  <2> QED
    BY <1>a, <1>b, <2>2, <2>3, <2>4, PersistGood
<1>3. CASE Reconcile(t)
  <2>1. UNCHANGED db \/ (Persist(Adopted) /\ \E allowed \in BOOLEAN : CanReconcile(allowed))
    BY <1>3 DEF Reconcile
  <2> QED
    BY <1>a, <1>b, <2>1, ReconciledGood
<1>4. CASE RecoverInterrupted(t) \/ ApplyAction(t)
  <2>1. \/ UNCHANGED db
        \/ /\ run.at = Prepare /\ run.status \in {"running", "awaiting_script_action"}
           /\ \E d : Persist(d)
    BY <1>4 DEF RecoverInterrupted, ApplyAction
  <2>2. run.at = Prepare /\ run.status \in {"running", "awaiting_script_action"} => Begun(run)
    BY <1>0 DEF Begun
  <2> QED
    BY <1>a, <1>b, <2>1, <2>2, PersistGood
<1> QED
  BY <1>1, <1>2, <1>3, <1>4

LEMMA SuiteRows ==
  ASSUME AgentInv, SuiteInv, SoleInv, NEW t \in Threads,
         \/ StartSuite(t) \/ MakeSuite(t) \/ LinkSuite(t) \/ StartExecution(t) \/ ExecutionEnds(t)
         \/ SkipSuite(t) \/ Complete(t)
  PROVE  RowsRight(run', steps', items') /\ Promising
<1>0. /\ run.at \in 1..7 /\ steps \in [1..7 -> StepStatuses] /\ StepNumbers = 1..7
      /\ Prepare = 5 /\ Create = 6 /\ Execute = 7
  BY RowTypes, StatusKinds
<1>a. RowsRight(run, steps, items) /\ Knows(th[t], run, steps, items) /\ Placed(th[t], run)
  BY DEF SoleInv, SuiteInv
<1>b. UNCHANGED db => RowsRight(run', steps', items') /\ Promising
  BY <1>a, SameRight DEF db
<1>c. th[t].pc \in Finishing /\ Begun(run) /\ run.at >= 5
  BY <1>0, <1>a DEF StartSuite, MakeSuite, LinkSuite, StartExecution, ExecutionEnds, SkipSuite,
     Complete, Finishing, Driving, Placed, Late, UnderLease, Begun
<1>d. run.status \notin {"succeeded", "succeeded_with_unresolved"}
  BY <1>a, <1>c DEF Knows
<1>e. ~Over(run) => AtSuite(th[t], run, steps, items) /\ steps[5] = "succeeded" /\ Planned(steps)
  BY <1>0, <1>a, <1>c DEF Knows, AtSuite, RowsRight
<1>f. run.status = "running" => ~Over(run)
  BY StatusKinds DEF Over
<1>1. CASE StartSuite(t)
  <2>1. CASE StartAccepted(t, Create)
    <3>1. run.status = "running" /\ th[t].pc = "suite" /\ th[t].job = "flow"
      BY <1>1, <1>a, <2>1 DEF StartSuite, StartAccepted, Knows, InPlace
    <3>2. run.at <= 6
      BY <1>0, <1>e, <1>f, <3>1 DEF AtSuite
    <3> QED
      BY <1>0, <1>a, <1>c, <1>e, <1>f, <2>1, <3>1, <3>2, AcceptedRight
  <2> QED
    BY <1>1, <1>b, <2>1 DEF StartSuite, StartRefused
<1>2. CASE MakeSuite(t)
  BY <1>2, <1>a, SameRight DEF MakeSuite
<1>3. CASE LinkSuite(t) \/ ExecutionEnds(t) \/ SkipSuite(t)
  <2>1. run'.status = run.status /\ run'.at = run.at /\ items' = items
    BY <1>3 DEF LinkSuite, ExecutionEnds, SkipSuite, AgentInv, RowsOK
  <2>2. \A k \in 2..5 : steps'[k] = steps[k]
    BY <1>0, <1>3 DEF LinkSuite, ExecutionEnds, SkipSuite
  <2> QED
    BY <1>0, <1>a, <1>d, <2>1, <2>2 DEF RowsRight, Planned, Begun, Over, Promising
<1>4. CASE StartExecution(t)
  <2>1. CASE StartAccepted(t, Execute)
    <3>1. run.status = "running" /\ th[t].pc = "execute"
      BY <1>4, <2>1 DEF StartExecution, StartAccepted
    <3>2. run.at >= 6
      BY <1>0, <1>e, <1>f, <3>1 DEF AtSuite, Suited
    <3> QED
      BY <1>0, <1>a, <1>c, <1>e, <1>f, <2>1, <3>1, <3>2, AcceptedRight
  <2> QED
    BY <1>4, <1>b, <2>1 DEF StartExecution, StartRefused
<1>5. CASE Complete(t)
  <2>1. PICK terminal \in {"succeeded", "succeeded_with_unresolved"} :
          /\ PublishAgentTerminal("running", terminal)
          /\ terminal = IF th[t].pc = "complete" THEN "succeeded" ELSE "succeeded_with_unresolved"
    BY <1>5 DEF Complete
  <2>2. CASE run.status = "running"
    <3>1. run'.status = terminal /\ run'.at = 7 /\ items' = items
      BY <1>0, <2>1, <2>2 DEF PublishAgentTerminal, AgentInv, RowsOK
    <3>2. steps' = [s \in 1..7 |-> steps[s]]
      BY <1>0, <2>1, <2>2 DEF PublishAgentTerminal, ClosedSteps
    <3>3. steps' = steps
      BY <1>0, <3>2
    <3>4. CASE th[t].pc = "complete"
      <4>1. run.at >= 6 /\ steps[6] = "succeeded" /\ steps[7] = "succeeded"
        BY <1>0, <1>e, <1>f, <2>2, <3>4 DEF AtSuite, Suited
      <4> QED
        BY <1>0, <1>a, <1>e, <1>f, <2>1, <2>2, <3>1, <3>3, <3>4, <4>1, StatusKinds
           DEF RowsRight, Planned, Promising, Over
    <3>5. CASE th[t].pc = "completeUnresolved"
      <4>1. ReadyOf(items) = {} /\ steps[6] = "skipped" /\ steps[7] = "skipped"
        BY <1>0, <1>e, <1>f, <2>2, <3>5 DEF AtSuite
      <4> QED
        BY <1>0, <1>a, <1>c, <1>e, <1>f, <2>1, <2>2, <3>1, <3>3, <3>5, <4>1, StatusKinds
           DEF RowsRight, Planned, Promising, Over
    <3> QED
      BY <1>5, <3>4, <3>5 DEF Complete
  <2>3. CASE run.status # "running"
    BY <1>b, <2>1, <2>3 DEF PublishAgentTerminal, db
  <2> QED
    BY <2>2, <2>3
<1> QED
  BY <1>1, <1>2, <1>3, <1>4, <1>5

LEMMA EndRows ==
  ASSUME AgentInv, SuiteInv, SoleInv, NEW t \in Threads,
         \/ OnCancel(t) \/ PublishFailed(t) \/ PublishCancelled(t) \/ Finalize(t) \/ ActionSettled(t)
  PROVE  RowsRight(run', steps', items') /\ Promising
<1>0. /\ steps \in [1..7 -> StepStatuses] /\ Prepare = 5 /\ Create = 6 /\ Execute = 7
  BY RowTypes, StatusKinds
<1>a. RowsRight(run, steps, items) /\ StepKnown(th[t])
  BY DEF SoleInv, AgentInv
<1>b. UNCHANGED db => RowsRight(run', steps', items') /\ Promising
  BY <1>a, SameRight DEF db
<1>1. CASE OnCancel(t) \/ PublishCancelled(t)
  <2>1. PublishAgentTerminal("cancelling", "cancelled")
    BY <1>1 DEF OnCancel, PublishCancelled
  <2> QED
    BY <1>a, <2>1, PublishRight DEF Promising
<1>2. CASE PublishFailed(t)
  <2>1. PublishAgentTerminal(th[t].seen, "failed")
    BY <1>2 DEF PublishFailed
  <2>2. th[t].seen \in {"queued", "running", "awaiting_script_action"}
    BY <1>2, <1>a DEF PublishFailed, StepKnown, Promised!Unfinished
  <2> QED
    BY <1>a, <2>1, <2>2, PublishRight DEF Promising
<1>3. CASE Finalize(t)
  <2>1. CASE UNCHANGED <<items, steps>>
    BY <1>3, <1>a, <2>1, SameRight DEF Finalize
  <2>2. CASE /\ run.status = "cancelling" /\ items' = Closed(items)
             /\ steps' = [steps EXCEPT ![Prepare] = "succeeded"]
    <3>1. Terminal(items')
      BY <2>2 DEF Terminal, Closed
    <3>2. run' = run /\ Over(run)
      BY <1>3, <2>2, StatusKinds DEF Finalize, Over
    <3> QED
      BY <1>0, <2>2, <3>1, <3>2 DEF RowsRight, Promising
  <2> QED
    BY <1>3, <2>1, <2>2 DEF Finalize
<1>4. CASE ActionSettled(t)
  BY <1>4, <1>a, ClaimedRight, SameRight DEF ActionSettled
<1> QED
  BY <1>1, <1>2, <1>3, <1>4

LEMMA StepRows ==
  ASSUME AgentInv, SuiteInv, SoleInv, NEW t \in Threads, Step(t)
  PROVE  RowsRight(run', steps', items') /\ Promising
<1>0. RowsRight(run, steps, items) /\ Placed(th[t], run)
  BY DEF SoleInv, SuiteInv
<1>1. CASE ClaimResume(t) \/ Replace(t)
  BY <1>0, <1>1 DEF ClaimResume, Replace, Placed
<1>2. CASE Register(t) \/ PlanBarrier(t) \/ Load(t) \/ Barrier(t) \/ Decide(t) \/ OnFail(t) \/ Cleanup(t)
  <2>1. UNCHANGED db
    BY <1>2 DEF Register, PlanBarrier, Load, Barrier, Decide, OnFail, Cleanup
  <2> QED
    BY <1>0, <2>1, SameRight DEF db
<1> QED
  BY <1>1, <1>2, WorkRows, PrepareRows, SuiteRows, EndRows DEF Step

-----------------------------------------------------------------------------
(* What the other threads rely on *)

\* The run and its steps stay, or the run is stopped where it is.
Kept ==
  \/ run'.status = run.status /\ run'.at = run.at /\ steps' = steps
  \/ run'.status \in {"failed", "cancelled", "cancelling"} /\ run'.at = run.at

\* People's scripts are worked on, and when all are settled the suite is claimed.
ActGoes ==
  /\ run.at = Prepare /\ run'.at \in {Prepare, Create}
  /\ run'.status \notin {"succeeded", "succeeded_with_unresolved"}

LEMMA PublishKept ==
  ASSUME AgentInv, SoleInv, NEW expected, NEW terminal \in {"failed", "cancelled"},
         PublishAgentTerminal(expected, terminal)
  PROVE  Kept
BY PublishRight DEF SoleInv, Kept

LEMMA PersistActs ==
  ASSUME AgentInv, NEW d, Persist(d)
  PROVE  /\ run.at = Prepare => ActGoes
         /\ Over(run) => Kept
<1>0. run.status \in {"running", "awaiting_script_action", "cancelling"}
  BY DEF Persist, PersistCancelled, PersistConflict
<1>1. CASE UNCHANGED run
  <2>1. Over(run) => run.status = "cancelling"
    BY <1>0, StatusKinds DEF Over
  <2> QED
    BY <1>0, <1>1, <2>1 DEF ActGoes, Kept
<1>2. CASE ~Terminal(d)
  <2>1. run'.at = Prepare /\ run'.status \in {"running", "awaiting_script_action"}
    BY <1>2 DEF Persist, AgentInv, RowsOK
  <2>2. ~Over(run)
    BY <1>0, <1>2, StatusKinds DEF Over, Persist, PersistCancelled
  <2> QED
    BY <2>1, <2>2 DEF ActGoes
<1> QED
  BY <1>1, <1>2 DEF Persist

LEMMA JobsAre ==
  ASSUME AgentInv, SuiteInv, SoleInv, NEW t \in Threads
  PROVE  /\ th[t].job \in {"flow", "continue", "recover", "action", "cancel", "none"}
         /\ th[t].pc = "idle" <=> th[t].job = "none"
         /\ Knows(th[t], run, steps, items)
         /\ th[t] \in Memories
<1>1. th[t] \in Memories /\ Placed(th[t], run) /\ Registered(th[t], t, task)
  BY DEF AgentInv, SuiteInv, SoleInv, SoleDriver
<1> QED
  BY <1>1 DEF Memories, Workflows, Placed, Registered, SoleInv

\* Steps outside the lease, while somebody has it, leave the last steps alone.
LEMMA AwayFromLease ==
  ASSUME AgentInv, SuiteInv, SoleInv, NEW t \in Threads, Step(t),
         th[t].pc \notin UnderLease, lease # Nobody, Begun(run)
  PROVE  Kept
<1>0. Placed(th[t], run) /\ InPlace(th[t], run)
  BY DEF SuiteInv, SoleInv, Knows
<1>a. run.at >= Prepare /\ run.at \in 1..7 /\ Prepare = 5
  BY RowTypes, StatusKinds DEF Begun
<1>b. th[t].pc \notin {"start", "work", "planBarrier", "initialize", "claim"}
  BY <1>0, <1>a DEF Placed, InPlace, Before
<1>1. CASE Register(t) \/ Load(t) \/ Barrier(t) \/ OnFail(t) \/ Cleanup(t)
  BY <1>1 DEF Register, Load, Barrier, OnFail, Cleanup, Kept, db
<1>2. CASE OnCancel(t) \/ PublishFailed(t) \/ PublishCancelled(t)
  BY <1>2, PublishKept DEF OnCancel, PublishFailed, PublishCancelled
<1>3. CASE Finalize(t)
  BY <1>3 DEF Finalize, Kept
<1>4. CASE RecoverInterrupted(t)
  BY <1>4 DEF RecoverInterrupted, Kept, db
<1>5. CASE ClaimResume(t) \/ Replace(t)
  BY <1>0, <1>5 DEF ClaimResume, Replace, Placed
<1>6. CASE ClaimStart(t) \/ StartStep(t) \/ Work(t) \/ PlanBarrier(t) \/ Initialize(t)
  BY <1>b, <1>6 DEF ClaimStart, StartStep, Work, PlanBarrier, Initialize
<1>7. CASE \/ PrepareItem(t) \/ ItemEnds(t) \/ Prepared(t) \/ Reconcile(t) \/ Decide(t)
           \/ StartSuite(t) \/ MakeSuite(t) \/ LinkSuite(t) \/ StartExecution(t)
  BY <1>7 DEF PrepareItem, ItemEnds, Prepared, Reconcile, Decide, StartSuite, MakeSuite, LinkSuite,
     StartExecution, UnderLease
<1>8. CASE ExecutionEnds(t) \/ SkipSuite(t) \/ Complete(t) \/ ApplyAction(t) \/ ActionSettled(t)
  BY <1>8 DEF ExecutionEnds, SkipSuite, Complete, ApplyAction, ActionSettled, UnderLease
<1> QED
  BY <1>1, <1>2, <1>3, <1>4, <1>5, <1>6, <1>7, <1>8 DEF Step

\* What a person's thread does to the run.
LEMMA BystanderRows ==
  ASSUME AgentInv, SuiteInv, SoleInv, NEW t \in Threads, Step(t), th[t].job \notin Drivers
  PROVE  Kept \/ (ActGoes /\ th[t].pc \in UnderLease)
<1>0. /\ th[t].pc \in {"actReconcile", "actApply", "actWork", "actSettled", "finalize",
                       "publishCancelled", "cleanup", "idle"}
      /\ Knows(th[t], run, steps, items)
  BY JobsAre DEF Drivers, Knows, InPlace
<1>a. {"actReconcile", "actApply", "actWork", "actSettled"} \subseteq UnderLease
  BY DEF UnderLease
<1>b. UNCHANGED db => Kept
  BY DEF db, Kept
<1>1. CASE Reconcile(t)
  <2>1. UNCHANGED db \/ (Persist(Adopted) /\ CanReconcile(FALSE) /\ th[t].pc = "actReconcile")
    BY <1>0, <1>1 DEF Reconcile
  <2> QED
    BY <1>a, <1>b, <2>1, PersistActs DEF CanReconcile
<1>2. CASE ItemEnds(t)
  <2>1. th[t].pc = "actWork" /\ (UNCHANGED db \/ \E d : Persist(d))
    BY <1>0, <1>2 DEF ItemEnds, Interrupt
  <2>2. Over(run) \/ run.at = Prepare
    BY <1>0, <2>1 DEF Knows, AtStep
  <2> QED
    BY <1>a, <1>b, <2>1, <2>2, PersistActs
<1>3. CASE ApplyAction(t)
  <2>1. UNCHANGED db \/ (run.at = Prepare /\ \E d : Persist(d))
    BY <1>3 DEF ApplyAction
  <2> QED
    BY <1>3, <1>a, <1>b, <2>1, PersistActs DEF ApplyAction
<1>4. CASE ActionSettled(t)
  <2>1. CASE Claimable /\ run' = Claimed
    <3>1. run'.status = "running" /\ run'.at = Create /\ run.at = Prepare
      BY <2>1 DEF Claimed, Claimable, AgentInv, RowsOK
    <3> QED
      BY <1>4, <1>a, <3>1 DEF ActionSettled, ActGoes
  <2> QED
    BY <1>4, <2>1 DEF ActionSettled, Kept
<1>5. CASE Finalize(t) \/ Cleanup(t)
  BY <1>5 DEF Finalize, Cleanup, Kept, db
<1>6. CASE PublishCancelled(t)
  BY <1>6, PublishKept DEF PublishCancelled
<1>7. CASE \/ Register(t) \/ ClaimStart(t) \/ ClaimResume(t) \/ Replace(t) \/ StartStep(t) \/ Work(t)
           \/ PlanBarrier(t) \/ Initialize(t) \/ PrepareItem(t) \/ Prepared(t) \/ Load(t) \/ Barrier(t)
  BY <1>0, <1>7 DEF Register, ClaimStart, ClaimResume, Replace, StartStep, Work, PlanBarrier,
     Initialize, PrepareItem, Prepared, Load, Barrier
<1>8. CASE \/ Decide(t) \/ StartSuite(t) \/ MakeSuite(t) \/ LinkSuite(t) \/ StartExecution(t)
           \/ ExecutionEnds(t) \/ SkipSuite(t) \/ Complete(t) \/ OnCancel(t) \/ OnFail(t)
           \/ PublishFailed(t) \/ RecoverInterrupted(t)
  BY <1>0, <1>8 DEF Decide, StartSuite, MakeSuite, LinkSuite, StartExecution, ExecutionEnds,
     SkipSuite, Complete, OnCancel, OnFail, PublishFailed, RecoverInterrupted
<1> QED
  BY <1>1, <1>2, <1>3, <1>4, <1>5, <1>6, <1>7, <1>8 DEF Step

\* Where no driver stands, only a person's work on a script asks for anything.
LEMMA PersonKnows ==
  ASSUME AgentInv, SuiteInv, SoleInv, NEW u \in Threads, th[u].job \notin Drivers,
         Over(run) => Over(run'), th[u].pc = "actWork" => Kept
  PROVE  Knows(th[u], run', steps', items')
<1>0. /\ th[u].pc \in {"actReconcile", "actApply", "actWork", "actSettled", "finalize",
                       "publishCancelled", "cleanup", "idle"}
      /\ Remembers(th[u]) /\ InPlace(th[u], run) /\ th[u].job \in {"action", "cancel", "none"}
      /\ Over(run) \/ AtStep(th[u], run, steps)
  BY JobsAre DEF Drivers, Knows, InPlace
<1>1. InPlace(th[u], run')
  BY <1>0 DEF InPlace
<1>2. th[u].pc \notin Finishing \cup Suited
  BY <1>0 DEF Finishing, Driving, Suited
<1>3. AtSuite(th[u], run', steps', items')
  BY <1>0, <1>2 DEF AtSuite
<1>4. Over(run') \/ AtStep(th[u], run', steps')
  <2>1. CASE th[u].pc = "actWork"
    <3>1. CASE run'.status = run.status /\ run'.at = run.at /\ steps' = steps
      BY <1>0, <2>1, <3>1 DEF AtStep, Over
    <3>2. CASE run'.status \in {"failed", "cancelled", "cancelling"}
      BY <3>2, StatusKinds DEF Over
    <3> QED
      BY <2>1, <3>1, <3>2 DEF Kept
  <2>2. CASE th[u].pc # "actWork"
    BY <1>0, <2>2 DEF AtStep
  <2> QED
    BY <2>1, <2>2
<1> QED
  BY <1>0, <1>1, <1>2, <1>3, <1>4 DEF Knows

\* A driver goes on relying on the rows while people and polls are at work.
LEMMA DriverKnows ==
  ASSUME AgentInv, SuiteInv, SoleInv, NEW u \in Threads, NEW p, RunGoes(p),
         p = "start" => run.at < Prepare, p # "initialize",
         th[u].pc \in UnderLease => DataKept,
         Kept \/ (ActGoes /\ th[u].pc \notin UnderLease), th[u].job \in Drivers
  PROVE  Knows(th[u], run', steps', items')
<1>0. Knows(th[u], run, steps, items) /\ Placed(th[u], run)
  BY DEF SuiteInv, SoleInv
<1>a. /\ Over(run) => Over(run')
      /\ run.at < Prepare => run'.at < Prepare
  BY RunGoesOn
<1>b. /\ run.at \in 1..7 /\ Prepare = 5 /\ Create = 6 /\ Execute = 7
  BY RowTypes, StatusKinds
<1>1. Remembers(th[u]) /\ InPlace(th[u], run')
  BY <1>0, <1>a DEF Knows, InPlace
<1>2. th[u].pc \in Finishing => run'.status \notin {"succeeded", "succeeded_with_unresolved"}
  BY <1>0 DEF Knows, Kept, ActGoes
<1>c. th[u].pc \in {"skip", "completeUnresolved"} => ReadyOf(items') = ReadyOf(items)
  BY DEF UnderLease, DataKept
<1>3. ASSUME ~Over(run') PROVE AtStep(th[u], run', steps') /\ AtSuite(th[u], run', steps', items')
  <2>0. AtStep(th[u], run, steps) /\ AtSuite(th[u], run, steps, items)
    BY <1>0, <1>a, <1>3 DEF Knows
  <2>1. CASE run'.status = run.status /\ run'.at = run.at /\ steps' = steps
    BY <1>c, <2>0, <2>1 DEF AtStep, AtSuite
  <2>2. CASE run'.status \in {"failed", "cancelled", "cancelling"}
    BY <1>3, <2>2, StatusKinds DEF Over
  <2>3. CASE ActGoes /\ th[u].pc \notin UnderLease
    <3>1. run.at = 5 /\ run'.at \in {5, 6}
      BY <1>b, <2>3 DEF ActGoes
    <3>2. th[u].pc \notin {"start", "work", "planBarrier"}
      BY <1>0, <1>b, <3>1 DEF Placed, Before
    <3>3. th[u].pc \notin {"initialize", "prepare", "item", "actWork", "reconcile", "decide",
            "suite", "makeSuite", "linkSuite", "execute", "executing", "skip", "complete",
            "completeUnresolved"}
      BY <2>3 DEF UnderLease
    <3>4. ~(th[u].job = "continue" /\ th[u].pc \in {"register", "load", "barrier"})
      BY <1>b, <2>0, <3>1 DEF AtSuite
    <3>5. th[u].done => th[u].job = "continue"
      BY <1>1 DEF Remembers
    <3>6. AtStep(th[u], run', steps')
      BY <3>2, <3>3 DEF AtStep
    <3>7. AtSuite(th[u], run', steps', items')
      BY <1>b, <3>1, <3>3, <3>4, <3>5 DEF AtSuite, Suited, Finishing, Driving
    <3> QED
      BY <3>6, <3>7
  <2> QED
    BY <2>1, <2>2, <2>3 DEF Kept
<1> QED
  BY <1>1, <1>2, <1>3 DEF Knows

LEMMA StepOthers ==
  ASSUME AgentInv, SuiteInv, SoleInv, NEW t \in Threads, Step(t), NEW u \in Threads \ {t}
  PROVE  Knows(th[u], run', steps', items')
<1>0. RunGoes(th[t].pc) /\ (th[t].pc = "start" => run.at < Prepare)
  BY StepRun
<1>a. /\ Over(run) => Over(run')
      /\ th[t].pc = "initialize" => th[t].job = "flow"
  BY StepGoesOn DEF Before
<1>b. ASSUME th[u].pc \in UnderLease
      PROVE  th[t].pc \notin UnderLease /\ lease # Nobody /\ DataKept
  <2>1. lease = u
    BY <1>b DEF AgentInv, LeaseCovers
  <2>2. u # Nobody
    BY AgentAssumption
  <2>3. th[t].pc \notin UnderLease
    BY <2>1 DEF AgentInv, LeaseCovers
  <2> QED
    BY <2>1, <2>2, <2>3, StepData
<1>1. CASE th[u].job \notin Drivers
  <2>1. ASSUME th[u].pc = "actWork" PROVE Kept
    <3>1. th[u].pc \in UnderLease /\ th[u].pc \in Late
      BY <2>1 DEF UnderLease, Late
    <3>2. Begun(run)
      BY <3>1 DEF SuiteInv, Placed
    <3> QED
      BY <1>b, <3>1, <3>2, AwayFromLease
  <2> QED
    BY <1>1, <1>a, <2>1, PersonKnows
<1>2. CASE th[u].job \in Drivers
  <2>1. th[t].job \notin Drivers
    BY <1>2 DEF SoleInv, SoleDriver
  <2>2. Kept \/ (ActGoes /\ th[t].pc \in UnderLease)
    BY <2>1, BystanderRows
  <2>3. th[t].pc # "initialize"
    BY <1>a, <2>1 DEF Drivers
  <2> QED
    BY <1>0, <1>2, <1>b, <2>2, <2>3, DriverKnows
<1> QED
  BY <1>1, <1>2

-----------------------------------------------------------------------------
(* What the thread that moves has made sure of *)

\* Places of the two workers on their way to the end of the run.
Path == {"claim", "load", "start", "work", "planBarrier", "initialize", "prepare", "item",
         "barrier", "reconcile", "decide"} \cup Finishing

LEMMA JobAt ==
  ASSUME AgentInv, SuiteInv, SoleInv, NEW t \in Threads,
         th[t].pc \in Path \cup {"onCancel", "onFail", "publishFailed"}
  PROVE  th[t].job \in {"flow", "continue"} /\ th[t].pc # "register"
<1>1. /\ th[t].job \in {"flow", "continue", "recover", "action", "cancel", "none"}
      /\ InPlace(th[t], run) /\ (th[t].pc = "idle" <=> th[t].job = "none")
  BY JobsAre DEF Knows
<1> QED
  BY <1>1 DEF InPlace, Path, Finishing, Driving

LEMMA Went ==
  ASSUME AgentInv, NEW t \in Threads, NEW p, Goto(t, p)
  PROVE  /\ th' = [th EXCEPT ![t] = th'[t]] /\ th'[t].pc = p
         /\ th'[t].job = th[t].job /\ th'[t].proc = th[t].proc /\ th'[t].step = th[t].step
         /\ th'[t].suite = th[t].suite /\ th'[t].done = th[t].done
<1>1. th \in [Threads -> Memories] /\ th[t] \in Memories
  BY DEF AgentInv
<1>2. th'[t] = [th[t] EXCEPT !.pc = p] /\ th' = [th EXCEPT ![t] = th'[t]]
  BY <1>1 DEF Goto
<1> QED
  BY <1>1, <1>2 DEF Memories

\* At places where a thread only ends, nothing is asked of it.
LEMMA QuietKnows ==
  ASSUME NEW x, NEW r, NEW s, NEW d, x.job # "continue" => ~x.suite /\ ~x.done,
         \/ x.pc \in {"finalize", "publishCancelled", "cleanup"}
         \/ x.pc \in {"onCancel", "onFail", "publishFailed"} /\ x.job \in {"flow", "continue"}
         \/ x.pc \in {"actReconcile", "actApply", "actSettled"} /\ x.job = "action"
         \/ x.pc = "recover" /\ x.job = "recover"
         \/ x.pc = "idle" /\ x.job = "none"
  PROVE  Knows(x, r, s, d)
<1>1. x.pc \notin Finishing \cup Suited
  BY DEF Finishing, Driving, Suited
<1>2. Remembers(x) /\ InPlace(x, r)
  BY DEF Remembers, InPlace
<1>3. AtStep(x, r, s) /\ AtSuite(x, r, s, d)
  BY <1>1 DEF AtStep, AtSuite
<1> QED
  BY <1>1, <1>2, <1>3 DEF Knows

LEMMA EndKnows ==
  ASSUME AgentInv, SuiteInv, SoleInv, NEW t \in Threads, NEW p, Goto(t, p),
         \/ p \in {"finalize", "publishCancelled", "cleanup"}
         \/ p \in {"onCancel", "onFail", "publishFailed"} /\ th[t].job \in {"flow", "continue"}
         \/ p \in {"actApply", "actSettled"} /\ th[t].job = "action"
  PROVE  Knows(th'[t], run', steps', items')
<1>1. Remembers(th[t])
  BY DEF SoleInv, Knows
<1> QED
  BY <1>1, Went, QuietKnows DEF Remembers

LEMMA RaiseKnows ==
  ASSUME AgentInv, SuiteInv, SoleInv, NEW t \in Threads, NEW p, Raise(t, p),
         \/ p = "cleanup"
         \/ p \in {"onCancel", "onFail"} /\ th[t].job \in {"flow", "continue"}
  PROVE  Knows(th'[t], run', steps', items')
BY EndKnows DEF Raise

LEMMA PathKnows ==
  ASSUME AgentInv, SuiteInv, SoleInv, NEW t \in Threads, NEW x, th'[t] = x,
         x.pc \in Path, x.job = th[t].job, x.job \in {"flow", "continue"},
         x.job # "continue" => ~x.suite /\ ~x.done,
         x.job = "flow" /\ x.pc = "claim" => run'.at < Prepare,
         x.pc \in {"prepare", "item", "suite", "makeSuite", "linkSuite"} => x.job = "flow",
         x.pc = "load" => x.job = "continue",
         x.job = "continue" /\ x.pc \in {"barrier", "reconcile", "decide"} => x.suite,
         x.pc \in Finishing => run'.status \notin {"succeeded", "succeeded_with_unresolved"},
         ~Over(run') => AtStep(x, run', steps') /\ AtSuite(x, run', steps', items')
  PROVE  Knows(th'[t], run', steps', items')
<1>1. x.pc \notin {"register", "actReconcile", "actApply", "actWork", "actSettled", "recover"}
  BY DEF Path, Finishing, Driving
<1>2. Remembers(x) /\ InPlace(x, run')
  BY <1>1 DEF Remembers, InPlace
<1> QED
  BY <1>2 DEF Knows

LEMMA IdleKnows ==
  ASSUME AgentInv, SuiteInv, SoleInv, NEW t \in Threads, End(t)
  PROVE  th'[t] = Idle /\ th' = [th EXCEPT ![t] = th'[t]] /\ Knows(th'[t], run', steps', items')
<1>1. th'[t] = Idle /\ th' = [th EXCEPT ![t] = th'[t]]
  BY DEF End, AgentInv
<1>2. Idle.pc = "idle" /\ Idle.job = "none" /\ ~Idle.suite /\ ~Idle.done
  BY DEF Idle
<1> QED
  BY <1>1, <1>2, QuietKnows

LEMMA StartKnows ==
  ASSUME AgentInv, SuiteInv, SoleInv, NEW t \in Threads, Step(t),
         Register(t) \/ ClaimStart(t) \/ StartStep(t) \/ Work(t) \/ PlanBarrier(t)
  PROVE  Knows(th'[t], run', steps', items')
<1>0. /\ run.at \in 1..7 /\ steps \in [1..7 -> StepStatuses] /\ StepNumbers = 1..7
      /\ Prepare = 5 /\ Create = 6 /\ Execute = 7
  BY RowTypes, StatusKinds
<1>a. /\ Knows(th[t], run, steps, items) /\ Placed(th[t], run) /\ StepKnown(th[t])
      /\ th[t] \in Memories
  BY DEF SuiteInv, SoleInv, AgentInv
<1>b. Remembers(th[t]) /\ InPlace(th[t], run)
  BY <1>a DEF Knows
<1>c. ~Over(run') => AtStep(th[t], run, steps) /\ AtSuite(th[t], run, steps, items)
  BY <1>a, StepGoesOn DEF Knows
<1>d. {"claim", "load", "start", "work", "planBarrier", "initialize"} \subseteq Path
  BY DEF Path
<1>1. CASE Register(t)
  <2>1. CASE End(t)
    BY <2>1, IdleKnows
  <2>2. CASE th[t].job = "flow" /\ Goto(t, "claim")
    <3>1. run.at < Prepare /\ UNCHANGED run
      BY <1>1, <1>b, <2>2 DEF Register, InPlace, db
    <3>2. th'[t].pc = "claim" /\ th'[t].job = "flow" /\ ~th'[t].suite /\ ~th'[t].done
      BY <1>b, <2>2, Went DEF Remembers
    <3>3. AtStep(th'[t], run', steps') /\ AtSuite(th'[t], run', steps', items')
      BY <3>2 DEF AtStep, AtSuite, Suited, Finishing, Driving
    <3> QED
      BY <1>d, <2>2, <3>1, <3>2, <3>3, PathKnows DEF Finishing, Driving
  <2>3. CASE th[t].job = "continue" /\ Goto(t, "load")
    <3>1. UNCHANGED db /\ th[t].pc = "register"
      BY <1>1 DEF Register
    <3>2. th'[t].pc = "load" /\ th'[t].job = "continue"
      BY <2>3, Went
    <3>3. ~Over(run') => run.status = "running" /\ run.at >= Create
      BY <1>c, <2>3, <3>1 DEF AtSuite
    <3>4. ~Over(run') => AtStep(th'[t], run', steps') /\ AtSuite(th'[t], run', steps', items')
      BY <3>1, <3>2, <3>3 DEF AtStep, AtSuite, Suited, Finishing, Driving, db
    <3> QED
      BY <1>d, <2>3, <3>2, <3>4, PathKnows DEF Finishing, Driving
  <2> QED
    BY <1>1, <1>a, <2>1, <2>2, <2>3 DEF Register, Placed
<1>2. CASE ClaimStart(t)
  <2>1. CASE run.status = "queued"
    <3> DEFINE x == [th[t] EXCEPT !.pc = "start", !.step = 2]
    <3>1. th'[t] = x /\ run'.at = 1
      BY <1>2, <2>1 DEF ClaimStart, AgentInv, RowsOK
    <3>2. x.pc = "start" /\ x.step = 2 /\ x.job = th[t].job /\ x.suite = th[t].suite /\ x.done = th[t].done
      BY <1>a DEF Memories
    <3> HIDE DEF x
    <3>3. AtStep(x, run', steps') /\ AtSuite(x, run', steps', items')
      BY <3>1, <3>2 DEF AtStep, AtSuite, Suited, Finishing, Driving
    <3>4. th[t].job = "flow"
      BY <1>2, <1>a DEF ClaimStart, Placed
    <3> QED
      BY <1>b, <1>d, <3>1, <3>2, <3>3, <3>4, PathKnows DEF Finishing, Driving, Remembers
  <2>2. CASE run.status # "queued"
    BY <1>2, <2>2, EndKnows DEF ClaimStart
  <2> QED
    BY <2>1, <2>2
<1>3. CASE StartStep(t)
  <2>0. th[t].pc = "start" /\ th[t].job = "flow" /\ th[t].step \in 2..4
    BY <1>3, <1>a DEF StartStep, Placed, Before, StepKnown
  <2>1. CASE StartRefused(t)
    BY <2>0, <2>1, RaiseKnows DEF StartRefused
  <2>2. CASE StartAccepted(t, th[t].step) /\ Goto(t, "work")
    <3> DEFINE s == th[t].step
    <3>1. run'.at = s /\ steps' = [steps EXCEPT ![s] = "running"]
      BY <2>2 DEF StartAccepted, AgentInv, RowsOK
    <3>2. th'[t].pc = "work" /\ th'[t].job = "flow" /\ th'[t].step = s
          /\ ~th'[t].suite /\ ~th'[t].done
      BY <1>b, <2>0, <2>2, Went DEF Remembers
    <3>3. ~Over(run') => \A k \in 2..(s - 1) : steps'[k] = "succeeded"
      BY <1>0, <1>c, <2>0, <3>1 DEF AtStep
    <3>4. ~Over(run') => AtStep(th'[t], run', steps') /\ AtSuite(th'[t], run', steps', items')
      BY <3>1, <3>2, <3>3 DEF AtStep, AtSuite, Suited, Finishing, Driving
    <3> QED
      BY <1>d, <2>0, <3>2, <3>4, PathKnows DEF Finishing, Driving
  <2> QED
    BY <1>3, <2>1, <2>2 DEF StartStep
<1>4. CASE Work(t)
  <2>0. th[t].pc = "work" /\ th[t].job = "flow" /\ th[t].step \in 2..4
    BY <1>4, <1>a DEF Work, Placed, Before, StepKnown
  <2>1. CASE Goto(t, "onFail") \/ Goto(t, "onCancel")
    BY <2>0, <2>1, EndKnows
  <2>2. CASE /\ steps' = [steps EXCEPT ![th[t].step] = "succeeded"]
             /\ th' = [th EXCEPT ![t].step = @ + 1,
                                 ![t].pc = IF th[t].step = 4 THEN "planBarrier" ELSE "start"]
    <3> DEFINE s == th[t].step + 1
               q == IF th[t].step = 4 THEN "planBarrier" ELSE "start"
               x == [th[t] EXCEPT !.step = s, !.pc = q]
    <3>1. th'[t] = x
      BY <2>2 DEF AgentInv
    <3>2. /\ q \in {"planBarrier", "start"} /\ (q = "planBarrier" <=> th[t].step = 4)
          /\ s = th[t].step + 1
      OBVIOUS
    <3> HIDE DEF s, q
    <3>3. x.pc = q /\ x.step = s /\ x.job = "flow" /\ x.suite = th[t].suite /\ x.done = th[t].done
      BY <1>a, <2>0 DEF Memories
    <3> HIDE DEF x
    <3>4. UNCHANGED run
      BY <1>4 DEF Work
    <3>5. ~Over(run') => run'.at = s - 1 /\ \A k \in 2..(s - 1) : steps'[k] = "succeeded"
      BY <1>0, <1>c, <2>0, <2>2, <3>2, <3>4 DEF AtStep
    <3>6. ~Over(run') => AtStep(x, run', steps') /\ AtSuite(x, run', steps', items')
      BY <1>0, <2>0, <3>2, <3>3, <3>5 DEF AtStep, AtSuite, Suited, Finishing, Driving, Planned
    <3> QED
      BY <1>b, <1>d, <2>0, <3>1, <3>2, <3>3, <3>6, PathKnows DEF Finishing, Driving, Remembers
  <2> QED
    BY <1>4, <2>1, <2>2 DEF Work
<1>5. CASE PlanBarrier(t)
  <2>0. th[t].pc = "planBarrier" /\ th[t].job = "flow" /\ UNCHANGED db
    BY <1>5, <1>a DEF PlanBarrier, Placed, Before
  <2>1. CASE Goto(t, "onFail") \/ Goto(t, "cleanup")
    BY <2>0, <2>1, EndKnows
  <2>2. CASE Goto(t, "initialize")
    <3>1. th'[t].pc = "initialize" /\ th'[t].job = "flow" /\ ~th'[t].suite /\ ~th'[t].done
      BY <1>b, <2>0, <2>2, Went DEF Remembers
    <3>2. ~Over(run') => AtStep(th'[t], run', steps') /\ AtSuite(th'[t], run', steps', items')
      BY <1>c, <2>0, <3>1 DEF AtStep, AtSuite, Suited, Finishing, Driving, db
    <3> QED
      BY <1>d, <2>0, <3>1, <3>2, PathKnows DEF Finishing, Driving
  <2> QED
    BY <1>5, <2>1, <2>2 DEF PlanBarrier
<1> QED
  BY <1>1, <1>2, <1>3, <1>4, <1>5

LEMMA PersistAt ==
  ASSUME AgentInv, NEW d, Persist(d)
  PROVE  /\ run'.at \in {run.at, Prepare}
         /\ steps'[Create] = steps[Create] /\ steps'[Execute] = steps[Execute]
         /\ Terminal(d) => run' = run /\ steps'[Prepare] = "succeeded"
         /\ ~Terminal(d) => /\ run'.at = Prepare
                            /\ run'.status = IF Underway(d) THEN "running" ELSE "awaiting_script_action"
                            /\ steps'[Prepare] # "succeeded"
<1>0. steps \in [1..7 -> StepStatuses] /\ Prepare = 5 /\ Create = 6 /\ Execute = 7
  BY RowTypes, StatusKinds
<1>1. steps' = [steps EXCEPT ![5] = StepStatus(d)]
  BY <1>0 DEF Persist
<1>2. ~Terminal(d) =>
        /\ run'.at = 5
        /\ run'.status = IF StepStatus(d) = "running" THEN "running" ELSE "awaiting_script_action"
  BY <1>0 DEF Persist, AgentInv, RowsOK
<1>3. /\ Terminal(d) => StepStatus(d) = "succeeded" /\ run' = run
      /\ ~Terminal(d) => /\ StepStatus(d) # "succeeded"
                         /\ StepStatus(d) = "running" <=> Underway(d)
  BY DEF StepStatus, Underway, Persist
<1> QED
  BY <1>0, <1>1, <1>2, <1>3

LEMMA PreparingKnows ==
  ASSUME AgentInv, SuiteInv, SoleInv, NEW t \in Threads, Step(t),
         Initialize(t) \/ PrepareItem(t) \/ ItemEnds(t) \/ Prepared(t)
  PROVE  Knows(th'[t], run', steps', items')
<1>0. Prepare = 5 /\ Create = 6 /\ Execute = 7
  BY StatusKinds
<1>a. /\ Knows(th[t], run, steps, items) /\ Placed(th[t], run) /\ th[t] \in Memories
  BY DEF SuiteInv, SoleInv, AgentInv
<1>b. Remembers(th[t]) /\ InPlace(th[t], run)
  BY <1>a DEF Knows
<1>c. ~Over(run') => AtStep(th[t], run, steps) /\ AtSuite(th[t], run, steps, items)
  BY <1>a, StepGoesOn DEF Knows
<1>d. {"prepare", "item", "barrier"} \subseteq Path
  BY DEF Path
<1>e. ASSUME Interrupt(t) PROVE Knows(th'[t], run', steps', items')
  BY <1>e, EndKnows DEF Interrupt
<1>1. CASE Initialize(t)
  <2>0. th[t].pc = "initialize" /\ th[t].job = "flow"
    BY <1>1, <1>a DEF Initialize, Placed, Before
  <2>1. CASE Raise(t, "onFail")
    BY <2>0, <2>1, RaiseKnows
  <2>2. CASE Persist([i \in Items |-> "queued"]) /\ Goto(t, "prepare")
    <3> DEFINE d == [i \in Items |-> "queued"]
    <3>1. PICK i \in Items : TRUE
      BY AgentAssumption
    <3>2. ~Terminal(d)
      BY <3>1 DEF Terminal
    <3> HIDE DEF d
    <3>3. run'.at = 5
      BY <1>0, <2>2, <3>2, PersistAt DEF d
    <3>4. th'[t].pc = "prepare" /\ th'[t].job = "flow" /\ ~th'[t].suite /\ ~th'[t].done
      BY <1>b, <2>0, <2>2, Went DEF Remembers
    <3>5. AtStep(th'[t], run', steps') /\ AtSuite(th'[t], run', steps', items')
      BY <1>0, <3>3, <3>4 DEF AtStep, AtSuite, Suited, Finishing, Driving
    <3> QED
      BY <1>d, <2>0, <3>4, <3>5, PathKnows DEF Finishing, Driving
  <2> QED
    BY <1>1, <1>e, <2>1, <2>2 DEF Initialize
<1>2. CASE PrepareItem(t)
  <2>0. th[t].pc = "prepare" /\ th[t].job = "flow"
    BY <1>2, <1>b DEF PrepareItem, InPlace
  <2>1. CASE Raise(t, "onFail")
    BY <2>0, <2>1, RaiseKnows
  <2>2. ASSUME NEW d, Persist(d), NEW i \in Items, th' = [th EXCEPT ![t].pc = "item", ![t].item = i]
        PROVE  Knows(th'[t], run', steps', items')
    <3> DEFINE x == [th[t] EXCEPT !.pc = "item", !.item = i]
    <3>1. th'[t] = x
      BY <2>2 DEF AgentInv
    <3>2. x.pc = "item" /\ x.job = "flow" /\ x.suite = th[t].suite /\ x.done = th[t].done
      BY <1>a, <2>0 DEF Memories
    <3> HIDE DEF x
    <3>3. ~Over(run') => run'.at = 5
      BY <1>0, <1>c, <2>0, <2>2, PersistAt DEF AtStep
    <3>4. ~Over(run') => AtStep(x, run', steps') /\ AtSuite(x, run', steps', items')
      BY <1>0, <3>2, <3>3 DEF AtStep, AtSuite, Suited, Finishing, Driving
    <3> QED
      BY <1>b, <1>d, <2>0, <3>1, <3>2, <3>4, PathKnows DEF Finishing, Driving, Remembers
  <2> QED
    BY <1>2, <1>e, <2>1, <2>2 DEF PrepareItem
<1>3. CASE ItemEnds(t)
  <2>0. /\ th[t].pc = "item" => th[t].job = "flow"
        /\ th[t].pc = "actWork" => th[t].job = "action"
        /\ th[t].pc \in {"item", "actWork"}
    BY <1>3, <1>b DEF ItemEnds, InPlace
  <2>1. CASE Raise(t, IF th[t].pc = "item" THEN "onFail" ELSE "cleanup")
    BY <2>0, <2>1, RaiseKnows
  <2>2. ASSUME NEW d, Persist(d), Goto(t, IF th[t].pc = "item" THEN "prepare" ELSE "actSettled")
        PROVE  Knows(th'[t], run', steps', items')
    <3>1. CASE th[t].pc = "actWork"
      BY <2>0, <2>2, <3>1, EndKnows
    <3>2. CASE th[t].pc = "item"
      <4>1. ~Over(run') => run'.at = 5
        BY <1>0, <1>c, <2>2, <3>2, PersistAt DEF AtStep
      <4>2. th'[t].pc = "prepare" /\ th'[t].job = "flow" /\ ~th'[t].suite /\ ~th'[t].done
        BY <1>b, <2>0, <2>2, <3>2, Went DEF Remembers
      <4>3. ~Over(run') => AtStep(th'[t], run', steps') /\ AtSuite(th'[t], run', steps', items')
        BY <1>0, <4>1, <4>2 DEF AtStep, AtSuite, Suited, Finishing, Driving
      <4> QED
        BY <1>d, <2>0, <3>2, <4>2, <4>3, PathKnows DEF Finishing, Driving
    <3> QED
      BY <2>0, <3>1, <3>2
  <2> QED
    BY <1>3, <1>e, <2>1, <2>2 DEF ItemEnds
<1>4. CASE Prepared(t)
  <2>0. th[t].pc = "prepare" /\ th[t].job = "flow"
    BY <1>4, <1>b DEF Prepared, InPlace
  <2>1. CASE Raise(t, "onFail") \/ Raise(t, "cleanup")
    BY <2>0, <2>1, RaiseKnows
  <2>2. CASE Persist(items) /\ Terminal(items) /\ Goto(t, "barrier")
    <3>1. ~Over(run') => run'.at = 5
      BY <1>0, <1>c, <2>0, <2>2, PersistAt DEF AtStep
    <3>2. th'[t].pc = "barrier" /\ th'[t].job = "flow" /\ ~th'[t].suite /\ ~th'[t].done
      BY <1>b, <2>0, <2>2, Went DEF Remembers
    <3>3. ~Over(run') => AtStep(th'[t], run', steps') /\ AtSuite(th'[t], run', steps', items')
      BY <1>0, <3>1, <3>2 DEF AtStep, AtSuite, Suited, Finishing, Driving
    <3> QED
      BY <1>d, <2>0, <3>2, <3>3, PathKnows DEF Finishing, Driving
  <2> QED
    BY <1>4, <1>e, <2>1, <2>2 DEF Prepared, Raise
<1> QED
  BY <1>1, <1>2, <1>3, <1>4

LEMMA ReadingKnows ==
  ASSUME AgentInv, SuiteInv, SoleInv, NEW t \in Threads, Step(t),
         Load(t) \/ Barrier(t) \/ Reconcile(t) \/ Decide(t)
  PROVE  Knows(th'[t], run', steps', items')
<1>0. run.at \in 1..7 /\ Prepare = 5 /\ Create = 6 /\ Execute = 7
  BY RowTypes, StatusKinds
<1>a. /\ Knows(th[t], run, steps, items) /\ Placed(th[t], run) /\ th[t] \in Memories
  BY DEF SuiteInv, SoleInv, AgentInv
<1>b. Remembers(th[t]) /\ InPlace(th[t], run)
  BY <1>a DEF Knows
<1>c. ~Over(run') => AtSuite(th[t], run, steps, items) /\ ~Over(run)
  BY <1>a, StepGoesOn DEF Knows
<1>d. {"barrier", "reconcile", "decide", "skip", "execute", "suite"} \subseteq Path
  BY DEF Path, Finishing, Driving
<1>1. CASE Load(t)
  <2>0. th[t].pc = "load" /\ th[t].job = "continue" /\ UNCHANGED db
    BY <1>1, <1>b DEF Load, InPlace
  <2>1. CASE Goto(t, "onFail") \/ Goto(t, "cleanup")
    BY <2>0, <2>1, EndKnows
  <2>2. CASE /\ steps[Create] = "succeeded"
             /\ th' = [th EXCEPT ![t].pc = "barrier", ![t].suite = TRUE,
                                 ![t].done = steps[Execute] = "succeeded"]
    <3> DEFINE done == steps[Execute] = "succeeded"
               x == [th[t] EXCEPT !.pc = "barrier", !.suite = TRUE, !.done = done]
    <3>1. th'[t] = x
      BY <2>2 DEF AgentInv
    <3>2. done => steps[Execute] = "succeeded"
      OBVIOUS
    <3> HIDE DEF done
    <3>3. x.pc = "barrier" /\ x.job = "continue" /\ x.suite /\ x.done = done
      BY <1>a, <2>0 DEF Memories
    <3> HIDE DEF x
    <3>4. ~Over(run') => AtStep(x, run', steps') /\ AtSuite(x, run', steps', items')
      BY <1>0, <1>c, <2>0, <2>2, <3>2, <3>3 DEF AtStep, AtSuite, Suited, Finishing, Driving, db
    <3> QED
      BY <1>d, <2>0, <3>1, <3>3, <3>4, PathKnows DEF Finishing, Driving
  <2> QED
    BY <1>1, <2>1, <2>2 DEF Load
<1>2. CASE Barrier(t)
  <2>0. th[t].pc = "barrier" /\ th[t].job \in {"flow", "continue"} /\ UNCHANGED db
    BY <1>2, <1>d, JobAt DEF Barrier
  <2>1. CASE Goto(t, "onFail") \/ Goto(t, "cleanup")
    BY <2>0, <2>1, EndKnows
  <2>2. CASE Goto(t, "reconcile")
    <3>1. /\ th'[t].pc = "reconcile" /\ th'[t].job = th[t].job
          /\ th'[t].suite = th[t].suite /\ th'[t].done = th[t].done
      BY <2>2, Went
    <3>2. ~Over(run') => AtStep(th'[t], run', steps') /\ AtSuite(th'[t], run', steps', items')
      BY <1>0, <1>c, <2>0, <3>1 DEF AtStep, AtSuite, Suited, Finishing, Driving, db
    <3> QED
      BY <1>b, <1>d, <2>0, <3>1, <3>2, PathKnows DEF Finishing, Driving, Remembers
  <2> QED
    BY <1>2, <2>1, <2>2 DEF Barrier
<1>3. CASE Reconcile(t)
  <2>1. CASE th[t].pc = "actReconcile"
    <3>1. th[t].job = "action" /\ (Goto(t, "actApply") \/ Raise(t, "cleanup"))
      BY <1>3, <1>b, <2>1 DEF Reconcile, InPlace
    <3> QED
      BY <3>1, EndKnows, RaiseKnows
  <2>2. CASE th[t].pc = "reconcile"
    <3>0. th[t].job \in {"flow", "continue"}
      BY <1>d, <2>2, JobAt
    <3>1. CASE Raise(t, "onCancel")
      BY <3>0, <3>1, RaiseKnows
    <3>2. CASE Goto(t, "decide") /\ (UNCHANGED db \/ Persist(Adopted))
      <4>1. /\ th'[t].pc = "decide" /\ th'[t].job = th[t].job
            /\ th'[t].suite = th[t].suite /\ th'[t].done = th[t].done
        BY <3>2, Went
      <4>2. ASSUME ~Over(run')
            PROVE  /\ th[t].job = "flow" => run'.at <= 6
                   /\ th[t].job = "continue" =>
                        steps'[6] = "succeeded" /\ (run'.status # "running" \/ run'.at >= 6)
                   /\ steps'[7] = steps[7]
        <5>1. CASE UNCHANGED db
          BY <1>0, <1>c, <2>2, <4>2, <5>1 DEF AtSuite, db
        <5>2. CASE Persist(Adopted)
          <6>1. /\ run'.at \in {run.at, 5} /\ steps'[6] = steps[6] /\ steps'[7] = steps[7]
                /\ Terminal(Adopted) => run' = run
                /\ ~Terminal(Adopted) =>
                     run'.status = IF Underway(Adopted) THEN "running" ELSE "awaiting_script_action"
            BY <1>0, <5>2, PersistAt
          <6>2. CASE th[t].job = "flow"
            BY <1>0, <1>c, <2>2, <4>2, <6>1, <6>2 DEF AtSuite
          <6>3. CASE th[t].job = "continue"
            <7>1. run.status = "running" /\ run.at >= 6 /\ steps[6] = "succeeded"
              BY <1>0, <1>c, <2>2, <4>2, <6>3 DEF AtSuite
            <7>2. Terminal(items)
              BY <1>0, <7>1 DEF SoleInv, RowsRight
            <7>3. ~Underway(Adopted)
              BY <7>2 DEF Underway, Adopted, Terminal
            <7> QED
              BY <1>0, <6>1, <6>3, <7>1, <7>3
          <6> QED
            BY <3>0, <6>2, <6>3
        <5> QED
          BY <3>2, <5>1, <5>2
      <4>3. ~Over(run') => (th[t].done => steps[7] = "succeeded")
        BY <1>0, <1>c, <2>2 DEF AtSuite
      <4>4. ~Over(run') => AtStep(th'[t], run', steps') /\ AtSuite(th'[t], run', steps', items')
        BY <1>0, <3>0, <4>1, <4>2, <4>3 DEF AtStep, AtSuite, Suited, Finishing, Driving
      <4> QED
        BY <1>b, <1>d, <2>2, <3>0, <4>1, <4>4, PathKnows DEF Finishing, Driving, Remembers
    <3> QED
      BY <1>3, <2>2, <3>1, <3>2 DEF Reconcile
  <2> QED
    BY <1>3, <2>1, <2>2 DEF Reconcile
<1>4. CASE Decide(t)
  <2>0. th[t].pc = "decide" /\ th[t].job \in {"flow", "continue"} /\ UNCHANGED db
    BY <1>4, <1>d, JobAt DEF Decide
  <2>1. CASE Raise(t, "cleanup") \/ Goto(t, "onFail")
    BY <2>0, <2>1, EndKnows, RaiseKnows
  <2>2. CASE /\ run.status = "running" /\ steps[Prepare] = "succeeded"
             /\ Goto(t, IF Ready = {} THEN "skip" ELSE IF th[t].suite THEN "execute" ELSE "suite")
    <3>1. ~Over(run') /\ run'.status = "running" /\ steps'[5] = "succeeded"
      BY <1>0, <2>0, <2>2, StatusKinds DEF Over, db
    <3>2. PICK p \in {"skip", "execute", "suite"} :
            /\ Goto(t, p)
            /\ p = "skip" => ReadyOf(items) = {}
            /\ p = "execute" => th[t].suite
            /\ p = "suite" => ~th[t].suite
      BY <2>2 DEF Ready, ReadyOf
    <3>3. /\ th'[t].pc = p /\ th'[t].job = th[t].job
          /\ th'[t].suite = th[t].suite /\ th'[t].done = th[t].done
      BY <3>2, Went
    <3>4. /\ p = "execute" => th[t].job = "continue"
          /\ p = "suite" => th[t].job = "flow"
      BY <1>b, <2>0, <3>2 DEF Remembers
    <3>5. /\ th[t].job = "flow" => run.at <= 6
          /\ th[t].job = "continue" => run.at >= 6 /\ steps[6] = "succeeded"
          /\ th[t].done => steps[7] = "succeeded"
      BY <1>0, <1>c, <2>0, <2>2, <3>1 DEF AtSuite
    <3>6. run' = run /\ steps' = steps /\ items' = items
      BY <2>0 DEF db
    <3>7. AtStep(th'[t], run', steps') /\ AtSuite(th'[t], run', steps', items')
      BY <1>0, <3>1, <3>2, <3>3, <3>4, <3>5, <3>6 DEF AtStep, AtSuite, Suited, Finishing, Driving
    <3>8. p \in Path
      BY <1>d
    <3> QED
      BY <1>b, <2>0, <3>1, <3>2, <3>3, <3>4, <3>7, <3>8, PathKnows DEF Remembers
  <2> QED
    BY <1>4, <2>1, <2>2 DEF Decide
<1> QED
  BY <1>1, <1>2, <1>3, <1>4

LEMMA SuiteKnows ==
  ASSUME AgentInv, SuiteInv, SoleInv, NEW t \in Threads, Step(t),
         \/ StartSuite(t) \/ MakeSuite(t) \/ LinkSuite(t) \/ StartExecution(t) \/ ExecutionEnds(t)
         \/ SkipSuite(t) \/ Complete(t)
  PROVE  Knows(th'[t], run', steps', items')
<1>0. /\ run.at \in 1..7 /\ steps \in [1..7 -> StepStatuses]
      /\ Prepare = 5 /\ Create = 6 /\ Execute = 7
  BY RowTypes, StatusKinds
<1>a. /\ Knows(th[t], run, steps, items) /\ th[t] \in Memories
      /\ th[t].pc \in Finishing
  BY DEF SoleInv, AgentInv, StartSuite, MakeSuite, LinkSuite, StartExecution, ExecutionEnds,
         SkipSuite, Complete, Finishing, Driving
<1>b. /\ Remembers(th[t]) /\ InPlace(th[t], run)
      /\ run.status \notin {"succeeded", "succeeded_with_unresolved"}
      /\ th[t].job \in {"flow", "continue"}
  BY <1>a, JobAt DEF Knows, Path
<1>c. ~Over(run') => AtSuite(th[t], run, steps, items) /\ ~Over(run) /\ steps[5] = "succeeded"
  BY <1>0, <1>a, StepGoesOn DEF Knows, AtSuite
<1>d. Finishing \subseteq Path
  BY DEF Path
\* The thread goes on along its path.
<1>e. ASSUME NEW p \in Finishing, Goto(t, p),
             run'.status \notin {"succeeded", "succeeded_with_unresolved"},
             p \in {"suite", "makeSuite", "linkSuite"} => th[t].job = "flow",
             ~Over(run') =>
               /\ steps'[5] = "succeeded"
               /\ p = "suite" => run'.at <= 6
               /\ p \in {"makeSuite", "linkSuite"} => run'.at = 6
               /\ p \in Suited => run'.at >= 6 /\ steps'[6] = "succeeded"
               /\ p = "execute" /\ th[t].done => steps'[7] = "succeeded"
               /\ p = "complete" => steps'[7] = "succeeded"
               /\ p \in {"skip", "completeUnresolved"} => ReadyOf(items') = {}
               /\ p = "completeUnresolved" => steps'[6] = "skipped" /\ steps'[7] = "skipped"
      PROVE  Knows(th'[t], run', steps', items')
  <2>1. /\ th'[t].pc = p /\ th'[t].job = th[t].job
        /\ th'[t].suite = th[t].suite /\ th'[t].done = th[t].done
    BY <1>e, Went
  <2>2. p \notin {"start", "work", "planBarrier", "initialize", "prepare", "item", "actWork",
                  "barrier", "reconcile", "decide", "register", "load", "claim"}
    BY DEF Finishing, Driving
  <2>3. AtStep(th'[t], run', steps')
    BY <2>1, <2>2 DEF AtStep
  <2>4. ~Over(run') => AtSuite(th'[t], run', steps', items')
    BY <1>0, <1>e, <2>1, <2>2 DEF AtSuite
  <2> QED
    BY <1>b, <1>d, <1>e, <2>1, <2>2, <2>3, <2>4, PathKnows DEF Remembers
<1>f. {"makeSuite", "linkSuite", "execute", "executing", "complete", "completeUnresolved"} \subseteq Finishing
      /\ "makeSuite" \notin Suited /\ "linkSuite" \notin Suited /\ "completeUnresolved" \notin Suited
      /\ {"execute", "executing", "complete"} = Suited
  BY DEF Finishing, Driving, Suited
<1>g. ASSUME StartRefused(t) PROVE Knows(th'[t], run', steps', items')
  BY <1>b, <1>g, RaiseKnows DEF StartRefused
<1>1. CASE StartSuite(t)
  <2>0. th[t].pc = "suite" /\ th[t].job = "flow"
    BY <1>1, <1>b DEF StartSuite, InPlace
  <2>1. CASE StartAccepted(t, Create) /\ Goto(t, "makeSuite")
    <3>1. run'.at = 6 /\ run'.status = "running"
      BY <1>0, <2>1 DEF StartAccepted, AgentInv, RowsOK
    <3>2. steps'[5] = steps[5]
      BY <1>0, <2>1 DEF StartAccepted
    <3> QED
      BY <1>c, <1>e, <1>f, <2>0, <2>1, <3>1, <3>2
  <2> QED
    BY <1>1, <1>g, <2>1 DEF StartSuite
<1>2. CASE MakeSuite(t)
  <2>0. th[t].pc = "makeSuite" /\ th[t].job = "flow" /\ UNCHANGED <<run, steps, items>>
    BY <1>2, <1>b DEF MakeSuite, InPlace
  <2>1. CASE Raise(t, "onFail")
    BY <1>b, <2>1, RaiseKnows
  <2>2. CASE Goto(t, "linkSuite")
    <3>1. ~Over(run') => run'.at = 6 /\ steps'[5] = "succeeded"
      BY <1>0, <1>c, <2>0 DEF AtSuite
    <3> QED
      BY <1>b, <1>e, <1>f, <2>0, <2>2, <3>1
  <2> QED
    BY <1>2, <2>1, <2>2 DEF MakeSuite
<1>3. CASE LinkSuite(t)
  <2>0. th[t].pc = "linkSuite" /\ th[t].job = "flow" /\ ~th[t].done /\ Goto(t, "execute")
    BY <1>3, <1>b DEF LinkSuite, InPlace, Remembers
  <2>1. run'.status = run.status /\ run'.at = run.at
    BY <1>3 DEF LinkSuite, AgentInv, RowsOK
  <2>2. steps'[5] = steps[5] /\ steps'[6] = "succeeded"
    BY <1>0, <1>3 DEF LinkSuite
  <2>3. ~Over(run') => run'.at = 6 /\ steps'[5] = "succeeded"
    BY <1>0, <1>c, <2>0, <2>1, <2>2 DEF AtSuite
  <2> QED
    BY <1>b, <1>e, <1>f, <2>0, <2>1, <2>2, <2>3
<1>4. CASE StartExecution(t)
  <2>0. ~Over(run') => /\ run.at >= 6 /\ steps[5] = "succeeded" /\ steps[6] = "succeeded"
                       /\ th[t].done => steps[7] = "succeeded"
    BY <1>0, <1>4, <1>c DEF StartExecution, AtSuite, Suited
  <2>1. CASE th[t].done /\ Goto(t, "complete") /\ UNCHANGED db
    BY <1>b, <1>e, <1>f, <2>0, <2>1 DEF db
  <2>2. CASE StartAccepted(t, Execute) /\ Goto(t, "executing")
    <3>1. run'.at = 7 /\ run'.status = "running"
      BY <1>0, <2>2 DEF StartAccepted, AgentInv, RowsOK
    <3>2. steps'[5] = steps[5] /\ steps'[6] = steps[6]
      BY <1>0, <2>2 DEF StartAccepted
    <3> QED
      BY <1>e, <1>f, <2>0, <2>2, <3>1, <3>2
  <2> QED
    BY <1>4, <1>g, <2>1, <2>2 DEF StartExecution
<1>5. CASE ExecutionEnds(t)
  <2>1. CASE Raise(t, "onFail") \/ Raise(t, "onCancel")
    BY <1>b, <2>1, RaiseKnows
  <2>2. CASE steps' = [steps EXCEPT ![Execute] = "succeeded"] /\ Goto(t, "complete")
    <3>1. steps'[5] = steps[5] /\ steps'[6] = steps[6] /\ steps'[7] = "succeeded" /\ UNCHANGED run
      BY <1>0, <1>5, <2>2 DEF ExecutionEnds
    <3>2. ~Over(run') => run.at >= 6 /\ steps[5] = "succeeded" /\ steps[6] = "succeeded"
      BY <1>0, <1>5, <1>c DEF ExecutionEnds, AtSuite, Suited
    <3> QED
      BY <1>b, <1>e, <1>f, <2>2, <3>1, <3>2
  <2> QED
    BY <1>5, <2>1, <2>2 DEF ExecutionEnds
<1>6. CASE SkipSuite(t)
  <2>0. th[t].pc = "skip" /\ Goto(t, "completeUnresolved") /\ items' = items
    BY <1>6 DEF SkipSuite
  <2>1. run'.status = run.status /\ run'.at = run.at
    BY <1>6 DEF SkipSuite, AgentInv, RowsOK
  <2>2. steps'[5] = steps[5] /\ steps'[6] = "skipped" /\ steps'[7] = "skipped"
    BY <1>0, <1>6 DEF SkipSuite
  <2>3. ~Over(run') => steps'[5] = "succeeded" /\ ReadyOf(items') = {}
    BY <1>c, <2>0, <2>2 DEF AtSuite
  <2> QED
    BY <1>b, <1>e, <1>f, <2>0, <2>1, <2>2, <2>3
<1>7. CASE Complete(t)
  BY <1>7, EndKnows, RaiseKnows DEF Complete
<1> QED
  BY <1>1, <1>2, <1>3, <1>4, <1>5, <1>6, <1>7

\* A thread starts to continue the run from the suite on.
LEMMA ContinueKnows ==
  ASSUME AgentInv, NEW t \in Threads, NEW p, Spawn(t, p, "continue", "register"),
         run'.status = "running", run'.at >= Create
  PROVE  Knows(th'[t], run', steps', items')
<1> DEFINE x == [Idle EXCEPT !.pc = "register", !.job = "continue", !.proc = p]
<1>1. th'[t] = x
  BY DEF Spawn, AgentInv
<1>2. x.pc = "register" /\ x.job = "continue"
  BY DEF Idle
<1> HIDE DEF x
<1>3. x.pc \notin Finishing \cup Suited
  BY <1>2 DEF Finishing, Driving, Suited
<1>4. Remembers(x) /\ InPlace(x, run')
  BY <1>2 DEF Remembers, InPlace
<1>5. AtStep(x, run', steps') /\ AtSuite(x, run', steps', items')
  BY <1>2, <1>3 DEF AtStep, AtSuite
<1> QED
  BY <1>1, <1>3, <1>4, <1>5 DEF Knows

LEMMA EndingKnows ==
  ASSUME AgentInv, SuiteInv, SoleInv, NEW t \in Threads, Step(t),
         \/ OnCancel(t) \/ OnFail(t) \/ PublishFailed(t) \/ Finalize(t) \/ PublishCancelled(t)
         \/ Cleanup(t) \/ RecoverInterrupted(t) \/ ApplyAction(t) \/ ActionSettled(t)
  PROVE  Knows(th'[t], run', steps', items')
<1>0. /\ run.at \in 1..7 /\ steps \in [1..7 -> StepStatuses]
      /\ Prepare = 5 /\ Create = 6 /\ Execute = 7
  BY RowTypes, StatusKinds
<1>a. Knows(th[t], run, steps, items) /\ th[t] \in Memories
  BY DEF SoleInv, AgentInv
<1>b. Remembers(th[t]) /\ InPlace(th[t], run)
  BY <1>a DEF Knows
<1>1. CASE OnCancel(t) \/ PublishFailed(t) \/ Finalize(t) \/ PublishCancelled(t)
  BY <1>1, EndKnows DEF OnCancel, PublishFailed, Finalize, PublishCancelled
<1>2. CASE OnFail(t)
  <2> DEFINE q == IF run.status = "cancelling" THEN "finalize"
                  ELSE IF run.status \in {"queued", "running", "awaiting_script_action"}
                  THEN "publishFailed" ELSE "cleanup"
             s == run.status
             x == [th[t] EXCEPT !.seen = s, !.pc = q]
  <2>1. th'[t] = x
    BY <1>2 DEF OnFail, AgentInv
  <2>2. q \in {"finalize", "publishFailed", "cleanup"}
    OBVIOUS
  <2> HIDE DEF q, s
  <2>3. x.pc = q /\ x.job = th[t].job /\ x.suite = th[t].suite /\ x.done = th[t].done
    BY <1>a DEF Memories
  <2> HIDE DEF x
  <2>4. th[t].job \in {"flow", "continue"}
    BY <1>2, JobAt DEF OnFail
  <2> QED
    BY <1>b, <2>1, <2>2, <2>3, <2>4, QuietKnows DEF Remembers
<1>3. CASE Cleanup(t)
  BY <1>3, IdleKnows DEF Cleanup
<1>4. CASE RecoverInterrupted(t)
  BY <1>4, IdleKnows, EndKnows DEF RecoverInterrupted
<1>5. CASE ApplyAction(t)
  <2>0. th[t].job = "action"
    BY <1>5, <1>b DEF ApplyAction, InPlace
  <2>1. CASE Goto(t, "cleanup") \/ Goto(t, "actSettled")
    BY <2>0, <2>1, EndKnows
  <2>2. ASSUME NEW i \in Items, Persist([items EXCEPT ![i] = "busy"]),
               th' = [th EXCEPT ![t].pc = "actWork", ![t].item = i]
        PROVE  Knows(th'[t], run', steps', items')
    <3> DEFINE d == [items EXCEPT ![i] = "busy"]
               x == [th[t] EXCEPT !.pc = "actWork", !.item = i]
    <3>1. ~Terminal(d)
      BY DEF Terminal, AgentInv, RowsOK
    <3> HIDE DEF d
    <3>2. run'.at = 5 /\ steps'[5] # "succeeded"
      BY <1>0, <2>2, <3>1, PersistAt DEF d
    <3>3. th'[t] = x
      BY <2>2 DEF AgentInv
    <3>4. x.pc = "actWork" /\ x.job = "action" /\ x.suite = th[t].suite /\ x.done = th[t].done
      BY <1>a, <2>0 DEF Memories
    <3> HIDE DEF x
    <3>5. AtStep(x, run', steps') /\ AtSuite(x, run', steps', items')
      BY <1>0, <3>2, <3>4 DEF AtStep, AtSuite, Suited, Finishing, Driving
    <3>6. Remembers(x) /\ InPlace(x, run') /\ x.pc \notin Finishing
      BY <1>b, <2>0, <3>4 DEF Remembers, InPlace, Finishing, Driving
    <3> QED
      BY <3>3, <3>5, <3>6 DEF Knows
  <2> QED
    BY <1>5, <2>1, <2>2 DEF ApplyAction
<1>6. CASE ActionSettled(t)
  <2>1. CASE Raise(t, "cleanup")
    BY <2>1, RaiseKnows
  <2>2. CASE Terminal(items) /\ Claimable /\ run' = Claimed /\ Spawn(t, th[t].proc, "continue", "register")
    <3>1. run'.status = "running" /\ run'.at = Create
      BY <2>2 DEF Claimed, AgentInv, RowsOK
    <3> QED
      BY <1>0, <2>2, <3>1, ContinueKnows
  <2> QED
    BY <1>6, <2>1, <2>2 DEF ActionSettled
<1> QED
  BY <1>1, <1>2, <1>3, <1>4, <1>5, <1>6

LEMMA StepKnows ==
  ASSUME AgentInv, SuiteInv, SoleInv, NEW t \in Threads, Step(t)
  PROVE  Knows(th'[t], run', steps', items')
<1>1. ~(ClaimResume(t) \/ Replace(t))
  BY DEF ClaimResume, Replace, SuiteInv, Placed
<1> QED
  BY <1>1, StartKnows, PreparingKnows, ReadingKnows, SuiteKnows, EndingKnows DEF Step

-----------------------------------------------------------------------------
(* The registry goes on naming the only driver *)

LEMMA ProcKnown ==
  ASSUME AgentInv, OneProcess, NEW q \in Procs
  PROVE  /\ Idle.proc = q /\ Idle.pc = "idle" /\ Idle.job = "none" /\ ~Idle.suite /\ ~Idle.done
         /\ \A t \in Threads : th[t].proc = q
         /\ task = [p \in Procs |-> task[p]] /\ \A p \in Procs : p = q
<1>1. Idle \in Memories /\ \A t \in Threads : th[t] \in Memories
  BY IdleKnown DEF AgentInv
<1>2. Idle.proc \in Procs /\ \A t \in Threads : th[t].proc \in Procs
  BY <1>1 DEF Memories
<1>3. Idle.pc = "idle" /\ Idle.job = "none" /\ ~Idle.suite /\ ~Idle.done
  BY DEF Idle
<1> QED
  BY <1>2, <1>3 DEF OneProcess, AgentInv, RegistryOK

\* A thread goes on with its job.
Stayed(t) ==
  /\ th' = [th EXCEPT ![t] = th'[t]] /\ th'[t].job = th[t].job /\ th'[t].proc = th[t].proc
  /\ th[t].pc \notin {"idle", "register"} /\ th'[t].pc \notin {"idle", "register"}

LEMMA GotoStayed ==
  ASSUME AgentInv, NEW t \in Threads, NEW p, Goto(t, p), p \notin {"idle", "register"},
         th[t].pc \notin {"idle", "register"}
  PROVE  Stayed(t)
BY Went DEF Stayed

LEMMA StayedSole ==
  ASSUME AgentInv, SoleDriver, NEW t \in Threads, Stayed(t), UNCHANGED task
  PROVE  SoleDriver'
<1>1. \A u \in Threads : u # t => th'[u] = th[u]
  BY DEF Stayed, AgentInv
<1>2. \A u \in Threads : th'[u].job = th[u].job
  BY <1>1 DEF Stayed
<1>3. ASSUME NEW u \in Threads PROVE Registered(th'[u], u, task')
  BY <1>1, <1>3 DEF Stayed, SoleDriver, Registered
<1> QED
  BY <1>2, <1>3 DEF SoleDriver

\* A thread ends whose token, if any, is taken back.
LEMMA EndSole ==
  ASSUME AgentInv, SoleDriver, OneProcess, NEW t \in Threads, End(t),
         CleanupTask(t) \/ (UNCHANGED task /\ task[th[t].proc].owner # t)
  PROVE  SoleDriver'
<1>a. PICK q \in Procs : TRUE
  BY AgentAssumption
<1>0. /\ Idle.proc = q /\ Idle.pc = "idle" /\ Idle.job = "none" /\ \A u \in Threads : th[u].proc = q
      /\ q \in Procs /\ t # Nobody
  BY ProcKnown, AgentAssumption
<1>1. th'[t] = Idle /\ \A u \in Threads : u # t => th'[u] = th[u]
  BY DEF End, AgentInv
<1>2. \A u \in Threads : task'[q].owner = u <=> (task[q].owner = u /\ u # t)
  BY <1>0, AgentAssumption DEF CleanupTask, AgentInv, RegistryOK, NoTask
<1>3. ASSUME NEW u \in Threads PROVE Registered(th'[u], u, task')
  BY <1>0, <1>1, <1>2, <1>3 DEF SoleDriver, Registered
<1>4. \A u \in Threads : th'[u].job \in Drivers => th[u].job \in Drivers
  BY <1>0, <1>1 DEF Drivers
<1> QED
  BY <1>3, <1>4 DEF SoleDriver

\* A request, or the continuation of a person's action, starts a thread.
LEMMA SpawnSole ==
  ASSUME AgentInv, SoleDriver, OneProcess, NEW t \in Threads, NEW p \in Procs, NEW pc,
         NEW job \in {"continue", "recover", "action", "cancel"}, Spawn(t, p, job, pc),
         th[t].job \notin {"flow", "continue"}, pc # "idle", job = "continue" => pc = "register",
         job \in Drivers => \A u \in Threads : u # t => th[u].job \notin Drivers,
         \A q \in Procs : task'[q].owner = task[q].owner
  PROVE  SoleDriver'
<1> DEFINE x == [Idle EXCEPT !.pc = pc, !.job = job, !.proc = p]
<1>0. \A u \in Threads : th[u].proc = p
  BY ProcKnown
<1>1. th'[t] = x /\ \A u \in Threads : u # t => th'[u] = th[u]
  BY DEF Spawn, AgentInv
<1>2. x.pc = pc /\ x.job = job /\ x.proc = p
  BY DEF Idle
<1> HIDE DEF x
<1>3. task[p].owner # t
  BY <1>0 DEF SoleDriver, Registered
<1>4. ASSUME NEW u \in Threads PROVE Registered(th'[u], u, task')
  <2>1. CASE u = t
    BY <1>1, <1>2, <1>3, <2>1 DEF Registered
  <2>2. CASE u # t
    BY <1>0, <1>1, <2>2 DEF SoleDriver, Registered
  <2> QED
    BY <2>1, <2>2
<1>5. ASSUME NEW u \in Threads, NEW v \in Threads, th'[u].job \in Drivers, th'[v].job \in Drivers
      PROVE  u = v
  BY <1>1, <1>2, <1>5 DEF SoleDriver
<1> QED
  BY <1>4, <1>5 DEF SoleDriver

\* In a process without a worker nobody drives a run that is past its plans.
LEMMA NobodyDrives ==
  ASSUME AgentInv, SuiteInv, SoleInv, OneProcess, NEW p \in Procs,
         ~HasLiveTask(p), ~Continuing(p), run.at >= Prepare
  PROVE  \A u \in Threads : th[u].job \notin Drivers
<1> SUFFICES ASSUME NEW u \in Threads, th[u].job \in Drivers PROVE FALSE
  OBVIOUS
<1>1. th[u].proc = p /\ u # Nobody
  BY ProcKnown, AgentAssumption
<1>2. th[u].job = "flow"
  BY <1>1 DEF Drivers, Continuing
<1>3. th[u].pc = "register"
  BY <1>1, <1>2 DEF HasLiveTask, SoleInv, SoleDriver, Registered
<1>4. run.at < Prepare
  BY <1>2, <1>3 DEF SoleInv, Knows, InPlace
<1>5. run.at \in 1..7 /\ Prepare = 5
  BY RowTypes, StatusKinds
<1> QED
  BY <1>4, <1>5

LEMMA RegisterSole ==
  ASSUME AgentInv, SuiteInv, SoleInv, OneProcess, NEW t \in Threads, Register(t)
  PROVE  SoleDriver'
<1>0. /\ th[t].pc = "register" /\ th[t].job \in {"flow", "continue"} /\ SoleDriver
      /\ th[t] \in Memories
  BY DEF Register, SuiteInv, Placed, SoleInv, AgentInv
<1>a. th[t].proc \in Procs /\ task[th[t].proc].owner # t
  BY <1>0 DEF Memories, SoleDriver, Registered
<1>1. CASE End(t) /\ UNCHANGED task
  BY <1>0, <1>1, <1>a, EndSole
<1>2. CASE /\ ~HasLiveTask(th[t].proc) /\ RegisterTask(t)
           /\ Goto(t, IF th[t].job = "flow" THEN "claim" ELSE "load")
  <2> DEFINE q == th[t].proc
  <2>0. /\ \A u \in Threads : th[u].proc = q
        /\ \A u \in Threads : task[q].owner # u
    BY <1>2, <1>a, ProcKnown, AgentAssumption DEF HasLiveTask
  <2>1. task'[q].owner = t
    BY <1>2, <1>a DEF RegisterTask, AgentInv, RegistryOK
  <2>2. /\ th'[t].job = th[t].job /\ th'[t].proc = q /\ th'[t].pc \in {"claim", "load"}
        /\ \A u \in Threads : u # t => th'[u] = th[u]
    <3>1. PICK p \in {"claim", "load"} : Goto(t, p)
      BY <1>2
    <3> QED
      BY <3>1, Went DEF AgentInv
  <2> HIDE DEF q
  <2>3. ASSUME NEW u \in Threads PROVE Registered(th'[u], u, task')
    BY <1>0, <2>0, <2>1, <2>2 DEF SoleDriver, Registered
  <2>4. \A u \in Threads : th'[u].job = th[u].job
    BY <2>2
  <2> QED
    BY <1>0, <2>3, <2>4 DEF SoleDriver
<1> QED
  BY <1>1, <1>2 DEF Register

LEMMA StepStays ==
  ASSUME AgentInv, SuiteInv, SoleInv, NEW t \in Threads, Step(t),
         ~(Register(t) \/ Cleanup(t) \/ RecoverInterrupted(t) \/ ActionSettled(t))
  PROVE  Stayed(t) /\ UNCHANGED task
<1>0. th[t] \in Memories /\ th \in [Threads -> Memories] /\ ~(ClaimResume(t) \/ Replace(t))
  BY DEF AgentInv, ClaimResume, Replace, SuiteInv, Placed
<1> DEFINE Gone == \E p \in Pcs : p \notin {"idle", "register"} /\ Goto(t, p)
<1>a. {"start", "work", "initialize", "prepare", "item", "actSettled", "actApply", "barrier", "load",
       "reconcile", "decide", "skip", "execute", "suite", "makeSuite", "linkSuite", "executing",
       "complete", "completeUnresolved", "onCancel", "onFail", "publishFailed", "finalize",
       "publishCancelled", "cleanup", "planBarrier", "actWork"} \subseteq Pcs \ {"idle", "register"}
  BY DEF Pcs, UnderLease
<1>b. th[t].pc \notin {"idle", "register"} /\ Gone => Stayed(t)
  BY GotoStayed
<1>1. CASE ClaimStart(t)
  <2>1. CASE th' = [th EXCEPT ![t].pc = "start", ![t].step = 2]
    <3> DEFINE x == [th[t] EXCEPT !.pc = "start", !.step = 2]
    <3>1. th' = [th EXCEPT ![t] = x] /\ th'[t] = x
      BY <1>0, <2>1
    <3>2. x.pc = "start" /\ x.job = th[t].job /\ x.proc = th[t].proc
      BY <1>0 DEF Memories
    <3> HIDE DEF x
    <3> QED
      BY <1>1, <3>1, <3>2 DEF ClaimStart, Stayed
  <2> QED
    BY <1>1, <1>a, <1>b, <2>1 DEF ClaimStart
<1>2. CASE Work(t)
  <2>1. CASE th' = [th EXCEPT ![t].step = @ + 1,
                              ![t].pc = IF th[t].step = 4 THEN "planBarrier" ELSE "start"]
    <3> DEFINE s == th[t].step + 1
               q == IF th[t].step = 4 THEN "planBarrier" ELSE "start"
               x == [th[t] EXCEPT !.step = s, !.pc = q]
    <3>1. th' = [th EXCEPT ![t] = x] /\ th'[t] = x
      BY <1>0, <2>1
    <3>2. q \in {"planBarrier", "start"}
      OBVIOUS
    <3> HIDE DEF s, q
    <3>3. x.pc = q /\ x.job = th[t].job /\ x.proc = th[t].proc
      BY <1>0 DEF Memories
    <3> HIDE DEF x
    <3> QED
      BY <1>2, <3>1, <3>2, <3>3 DEF Work, Stayed
  <2> QED
    BY <1>2, <1>a, <1>b, <2>1 DEF Work
<1>3. CASE PrepareItem(t) \/ ApplyAction(t)
  <2>1. ASSUME NEW q \in {"item", "actWork"}, NEW i \in Items,
               th' = [th EXCEPT ![t].pc = q, ![t].item = i], th[t].pc \notin {"idle", "register"}
        PROVE  Stayed(t)
    <3> DEFINE x == [th[t] EXCEPT !.pc = q, !.item = i]
    <3>1. th' = [th EXCEPT ![t] = x] /\ th'[t] = x
      BY <1>0, <2>1
    <3>2. x.pc = q /\ x.job = th[t].job /\ x.proc = th[t].proc
      BY <1>0 DEF Memories
    <3> HIDE DEF x
    <3> QED
      BY <2>1, <3>1, <3>2 DEF Stayed
  <2>2. UNCHANGED task /\ th[t].pc \notin {"idle", "register"}
    BY <1>3 DEF PrepareItem, ApplyAction
  <2>3. \/ Gone
        \/ \E q \in {"item", "actWork"}, i \in Items : th' = [th EXCEPT ![t].pc = q, ![t].item = i]
    BY <1>3, <1>a DEF PrepareItem, ApplyAction, Interrupt, Raise
  <2> QED
    BY <1>b, <2>1, <2>2, <2>3
<1>4. CASE Load(t)
  <2>1. CASE th' = [th EXCEPT ![t].pc = "barrier", ![t].suite = TRUE,
                              ![t].done = steps[Execute] = "succeeded"]
    <3> DEFINE done == steps[Execute] = "succeeded"
               x == [th[t] EXCEPT !.pc = "barrier", !.suite = TRUE, !.done = done]
    <3>1. th' = [th EXCEPT ![t] = x] /\ th'[t] = x
      BY <1>0, <2>1
    <3> HIDE DEF done
    <3>2. x.pc = "barrier" /\ x.job = th[t].job /\ x.proc = th[t].proc
      BY <1>0 DEF Memories
    <3> HIDE DEF x
    <3> QED
      BY <1>4, <3>1, <3>2 DEF Load, Stayed
  <2> QED
    BY <1>4, <1>a, <1>b, <2>1 DEF Load
<1>5. CASE OnFail(t)
  <2> DEFINE q == IF run.status = "cancelling" THEN "finalize"
                  ELSE IF run.status \in {"queued", "running", "awaiting_script_action"}
                  THEN "publishFailed" ELSE "cleanup"
             s == run.status
             x == [th[t] EXCEPT !.seen = s, !.pc = q]
  <2>1. th' = [th EXCEPT ![t] = x] /\ th'[t] = x
    BY <1>0, <1>5 DEF OnFail
  <2>2. q \in {"finalize", "publishFailed", "cleanup"}
    OBVIOUS
  <2> HIDE DEF q, s
  <2>3. x.pc = q /\ x.job = th[t].job /\ x.proc = th[t].proc
    BY <1>0 DEF Memories
  <2> HIDE DEF x
  <2> QED
    BY <1>5, <2>1, <2>2, <2>3 DEF OnFail, Stayed
<1>6. CASE StartStep(t) \/ PlanBarrier(t) \/ Initialize(t) \/ ItemEnds(t) \/ Prepared(t)
  <2>1. UNCHANGED task /\ th[t].pc \notin {"idle", "register"}
    BY <1>6 DEF StartStep, PlanBarrier, Initialize, ItemEnds, Prepared
  <2>2. Gone
    BY <1>6, <1>a DEF StartStep, StartRefused, PlanBarrier, Initialize, ItemEnds, Prepared, Interrupt, Raise
  <2> QED
    BY <1>b, <2>1, <2>2
<1>7. CASE Barrier(t) \/ Reconcile(t) \/ Decide(t) \/ StartSuite(t) \/ MakeSuite(t)
  <2>1. UNCHANGED task /\ th[t].pc \notin {"idle", "register"}
    BY <1>7 DEF Barrier, Reconcile, Decide, StartSuite, MakeSuite
  <2>2. Gone
    BY <1>7, <1>a DEF Barrier, Reconcile, Decide, StartSuite, MakeSuite, StartRefused, Raise
  <2> QED
    BY <1>b, <2>1, <2>2
<1>8. CASE \/ LinkSuite(t) \/ StartExecution(t) \/ ExecutionEnds(t) \/ SkipSuite(t) \/ Complete(t)
           \/ OnCancel(t) \/ PublishFailed(t) \/ Finalize(t) \/ PublishCancelled(t)
  <2>1. UNCHANGED task /\ th[t].pc \notin {"idle", "register"}
    BY <1>8 DEF LinkSuite, StartExecution, ExecutionEnds, SkipSuite, Complete, OnCancel,
       PublishFailed, Finalize, PublishCancelled
  <2>2. Gone
    BY <1>8, <1>a DEF LinkSuite, StartExecution, ExecutionEnds, SkipSuite, Complete, OnCancel,
       PublishFailed, Finalize, PublishCancelled, StartRefused, Raise
  <2> QED
    BY <1>b, <2>1, <2>2
<1> QED
  BY <1>0, <1>1, <1>2, <1>3, <1>4, <1>5, <1>6, <1>7, <1>8 DEF Step

LEMMA StepSole ==
  ASSUME AgentInv, SuiteInv, SoleInv, OneProcess, NEW t \in Threads, Step(t)
  PROVE  SoleDriver'
<1>0. SoleDriver /\ Knows(th[t], run, steps, items) /\ th[t] \in Memories
  BY DEF SoleInv, AgentInv
<1>a. InPlace(th[t], run) /\ Registered(th[t], t, task) /\ th[t].proc \in Procs
  BY <1>0 DEF Knows, SoleDriver, Memories
<1>1. CASE Register(t)
  BY <1>1, RegisterSole
<1>2. CASE Cleanup(t)
  BY <1>0, <1>2, EndSole DEF Cleanup
<1>3. CASE RecoverInterrupted(t)
  <2>1. th[t].job = "recover" /\ task[th[t].proc].owner # t /\ UNCHANGED task
    BY <1>3, <1>a DEF RecoverInterrupted, InPlace, Registered
  <2>2. CASE End(t)
    BY <1>0, <2>1, <2>2, EndSole
  <2>3. CASE Goto(t, "finalize")
    BY <1>0, <1>3, <2>1, <2>3, GotoStayed, StayedSole DEF RecoverInterrupted
  <2> QED
    BY <1>3, <2>2, <2>3 DEF RecoverInterrupted
<1>4. CASE ActionSettled(t)
  <2>0. UNCHANGED task /\ th[t].pc = "actSettled" /\ th[t].job = "action"
    BY <1>4, <1>a DEF ActionSettled, InPlace
  <2>1. CASE Raise(t, "cleanup")
    BY <1>0, <2>0, <2>1, GotoStayed, StayedSole DEF Raise
  <2>2. CASE /\ Claimable /\ ~HasLiveTask(th[t].proc) /\ ~Continuing(th[t].proc)
             /\ Spawn(t, th[t].proc, "continue", "register")
    <3>1. run.at >= Prepare
      BY <2>2, StatusKinds DEF Claimable
    <3>2. \A u \in Threads : th[u].job \notin Drivers
      BY <1>a, <2>2, <3>1, NobodyDrives
    <3> QED
      BY <1>0, <1>a, <2>0, <2>2, <3>2, SpawnSole
  <2> QED
    BY <1>4, <2>1, <2>2 DEF ActionSettled
<1>5. CASE ~(Register(t) \/ Cleanup(t) \/ RecoverInterrupted(t) \/ ActionSettled(t))
  BY <1>0, <1>5, StepStays, StayedSole
<1> QED
  BY <1>1, <1>2, <1>3, <1>4, <1>5

-----------------------------------------------------------------------------
(* SoleInv is inductive while nobody resumes the run *)

LEMMA StepInv ==
  ASSUME AgentInv, SuiteInv, SoleInv, OneProcess, NEW t \in Threads, Step(t)
  PROVE  SoleInv' /\ Promising
<1>1. SoleDriver' /\ RowsRight(run', steps', items') /\ Promising
  BY StepSole, StepRows
<1>2. Moved(t)
  BY StepMoved
<1>3. \A u \in Threads : u # t => th'[u] = th[u]
  BY <1>2 DEF Moved, AgentInv
<1>4. ASSUME NEW u \in Threads PROVE Knows(th'[u], run', steps', items')
  <2>1. CASE u = t
    BY <2>1, StepKnows
  <2>2. CASE u # t
    BY <1>3, <2>2, StepOthers
  <2> QED
    BY <2>1, <2>2
<1> QED
  BY <1>1, <1>4 DEF SoleInv

\* The run is stopped where it is, or its data only changes under nobody's lease.
LEMMA OtherKnows ==
  ASSUME AgentInv, SuiteInv, SoleInv, NEW u \in Threads, RunGoes("idle"),
         \/ Kept /\ DataKept
         \/ ActGoes /\ th[u].pc \notin UnderLease
  PROVE  Knows(th[u], run', steps', items')
<1>1. Over(run) => Over(run')
  BY RunGoesOn
<1>2. "actWork" \in UnderLease
  BY DEF UnderLease
<1>3. CASE th[u].job \notin Drivers
  BY <1>1, <1>2, <1>3, PersonKnows
<1>4. CASE th[u].job \in Drivers
  BY <1>4, DriverKnows
<1> QED
  BY <1>3, <1>4

\* A request that starts somewhere without relying on the rows.
LEMMA AloneKnows ==
  ASSUME AgentInv, NEW t \in Threads, NEW p, NEW pc, NEW job, Spawn(t, p, job, pc),
         \/ pc = "recover" /\ job = "recover"
         \/ pc = "actReconcile" /\ job = "action"
         \/ pc = "finalize" /\ job = "cancel"
  PROVE  Knows(th'[t], run', steps', items')
<1> DEFINE x == [Idle EXCEPT !.pc = pc, !.job = job, !.proc = p]
<1>1. th'[t] = x
  BY DEF Spawn, AgentInv
<1>2. x.pc = pc /\ x.job = job /\ ~x.suite /\ ~x.done
  BY DEF Idle
<1> HIDE DEF x
<1> QED
  BY <1>1, <1>2, QuietKnows

\* A request leaves the run as it is, or asks it to stop.
LEMMA StoppedRight ==
  ASSUME RowsRight(run, steps, items), UNCHANGED <<steps, items, suite, stale>>,
         \/ UNCHANGED run
         \/ /\ run.status \in {"queued", "running", "awaiting_script_action"}
            /\ run'.status = "cancelling" /\ run'.at = run.at
  PROVE  RowsRight(run', steps', items') /\ Promising /\ Kept /\ RunGoes("idle")
<1>1. CASE UNCHANGED run
  BY <1>1, SameRight DEF Kept, RunGoes
<1>2. CASE /\ run.status \in {"queued", "running", "awaiting_script_action"}
           /\ run'.status = "cancelling" /\ run'.at = run.at
  <2>1. Over(run')
    BY <1>2, StatusKinds DEF Over
  <2> QED
    BY <1>2, <2>1 DEF RowsRight, Promising, Kept, RunGoes
<1> QED
  BY <1>1, <1>2

LEMMA PollSole ==
  ASSUME AgentInv, SuiteInv, SoleInv, OneProcess, NEW t \in Threads, NEW p \in Procs, Poll(t, p)
  PROVE  SoleInv' /\ Promising
<1>0. /\ run.at \in 1..7 /\ Prepare = 5 /\ Create = 6 /\ Execute = 7
  BY RowTypes, StatusKinds
<1>1. /\ th[t].pc = "idle" /\ th[t].job = "none" /\ ~HasLiveTask(p) /\ ~Continuing(p)
      /\ UNCHANGED <<steps, items, suite, stale, task>>
  BY JobsAre DEF Poll
<1>2. SoleDriver /\ RowsRight(run, steps, items) /\ \A u \in Threads : Knows(th[u], run, steps, items)
  BY DEF SoleInv
<1>3. PICK job \in {"recover", "continue"}, pc \in {"recover", "register"} :
        /\ Spawn(t, p, job, pc) /\ run.at >= Prepare
        /\ job = "recover" => pc = "recover" /\ UNCHANGED run
        /\ job = "continue" =>
             /\ pc = "register"
             /\ \/ Claimable /\ run' = Claimed
                \/ run.status = "running" /\ run.at > Prepare /\ UNCHANGED run
  <2>1. CASE Recoverable /\ Spawn(t, p, "recover", "recover") /\ UNCHANGED run
    BY <1>0, <2>1 DEF Recoverable
  <2>2. CASE Claimable /\ run' = Claimed /\ Spawn(t, p, "continue", "register")
    BY <1>0, <2>2 DEF Claimable
  <2>3. CASE /\ run.status = "running" /\ run.at > Prepare
             /\ Spawn(t, p, "continue", "register") /\ UNCHANGED run
    BY <1>0, <2>3
  <2> QED
    BY <2>1, <2>2, <2>3 DEF Poll
<1>4. \A u \in Threads : th[u].job \notin Drivers
  BY <1>1, <1>3, NobodyDrives
<1>5. SoleDriver'
  BY <1>1, <1>2, <1>3, <1>4, SpawnSole
<1>6. RowsRight(run', steps', items') /\ Promising
  <2>1. CASE UNCHANGED run
    BY <1>1, <1>2, <2>1, SameRight
  <2>2. CASE Claimable /\ run' = Claimed
    BY <1>1, <1>2, <2>2, ClaimedRight
  <2> QED
    BY <1>3, <2>1, <2>2
<1>7. Knows(th'[t], run', steps', items')
  <2>1. CASE job = "continue"
    <3>1. run'.status = "running" /\ run'.at >= Create
      <4>1. CASE Claimable /\ run' = Claimed
        BY <1>0, <1>1, <1>2, <4>1, ClaimedRight
      <4>2. CASE run.status = "running" /\ run.at > Prepare /\ UNCHANGED run
        BY <1>0, <4>2
      <4> QED
        BY <1>3, <2>1, <4>1, <4>2
    <3>2. Spawn(t, p, "continue", "register")
      BY <1>3, <2>1
    <3> QED
      BY <3>1, <3>2, ContinueKnows
  <2>2. CASE job = "recover"
    BY <1>3, <2>2, AloneKnows
  <2> QED
    BY <2>1, <2>2
<1>8. ASSUME NEW u \in Threads PROVE Knows(th'[u], run', steps', items')
  <2>1. CASE u = t
    BY <1>7, <2>1
  <2>2. CASE u # t
    <3>1. th'[u] = th[u]
      BY <1>3, <2>2 DEF Spawn, AgentInv
    <3>2. CASE UNCHANGED run
      BY <1>1, <1>2, <3>1, <3>2
    <3>3. CASE Claimable /\ run' = Claimed
      <4>1. ~Over(run) /\ steps[Prepare] = "succeeded"
        BY <3>3, StatusKinds DEF Claimable, Over
      <4>2. th[u].pc # "actWork"
        BY <1>2, <4>1 DEF Knows, AtStep
      <4> QED
        BY <1>4, <3>1, <4>1, <4>2, PersonKnows
    <3> QED
      BY <1>3, <3>2, <3>3
  <2> QED
    BY <2>1, <2>2
<1> QED
  BY <1>5, <1>6, <1>8 DEF SoleInv

LEMMA PersonSole ==
  ASSUME AgentInv, SuiteInv, SoleInv, OneProcess, NEW t \in Threads, NEW p \in Procs,
         RequestAction(t, p) \/ CancelAwaiting(t, p)
  PROVE  SoleInv' /\ Promising
<1>1. th[t].pc = "idle" /\ th[t].job = "none" /\ run.status = "awaiting_script_action"
  BY JobsAre DEF RequestAction, CancelAwaiting
<1>2. SoleDriver /\ RowsRight(run, steps, items)
  BY DEF SoleInv
<1>3. PICK job \in {"action", "cancel"}, pc \in {"actReconcile", "finalize"} :
        /\ Spawn(t, p, job, pc)
        /\ job = "action" <=> pc = "actReconcile"
  BY DEF RequestAction, CancelAwaiting
<1>4. \A q \in Procs : task'[q].owner = task[q].owner
  BY DEF RequestAction, CancelAwaiting, AgentInv, RegistryOK
<1>5. SoleDriver'
  BY <1>1, <1>2, <1>3, <1>4, SpawnSole DEF Drivers
<1>6. /\ UNCHANGED <<steps, items, suite, stale>>
      /\ UNCHANGED run \/ (run'.status = "cancelling" /\ run'.at = run.at)
  BY DEF RequestAction, CancelAwaiting, db, AgentInv, RowsOK
<1>7. RowsRight(run', steps', items') /\ Promising /\ Kept /\ DataKept /\ RunGoes("idle")
  BY <1>1, <1>2, <1>6, StoppedRight, SameData
<1>8. ASSUME NEW u \in Threads PROVE Knows(th'[u], run', steps', items')
  <2>1. CASE u = t
    BY <1>3, <2>1, AloneKnows
  <2>2. CASE u # t
    BY <1>3, <1>7, <2>2, OtherKnows DEF Spawn, AgentInv
  <2> QED
    BY <2>1, <2>2
<1> QED
  BY <1>5, <1>7, <1>8 DEF SoleInv

LEMMA OthersSole ==
  ASSUME AgentInv, SuiteInv, SoleInv, OneProcess, NEW p \in Procs,
         \/ RequestCancel(p) \/ SetFlag(p) \/ ReconcileOnRead
         \/ OutsideTakes \/ OutsideLeaves \/ \E i \in Items : OutsideWrites(i)
         \/ UNCHANGED vars
  PROVE  SoleInv' /\ Promising
<1>1. UNCHANGED th /\ \A q \in Procs : task'[q].owner = task[q].owner
  <2>1. CASE SetFlag(p)
    BY <2>1 DEF SetFlag, AgentInv, RegistryOK
  <2>2. CASE ~SetFlag(p)
    BY <2>2 DEF RequestCancel, ReconcileOnRead, OutsideTakes, OutsideLeaves, OutsideWrites, vars
  <2> QED
    BY <2>1, <2>2
<1>2. th \in [Threads -> Memories] /\ \A t \in Threads : th[t].proc \in Procs
  BY DEF AgentInv, Memories
<1>3. SoleDriver' /\ SoleDriver /\ RowsRight(run, steps, items)
  BY <1>1, <1>2 DEF SoleInv, SoleDriver, Registered
<1>4. CASE RequestCancel(p)
  <2>1. /\ UNCHANGED <<steps, items, suite, stale>>
        /\ run.status \in {"queued", "running", "awaiting_script_action"}
        /\ run'.status = "cancelling" /\ run'.at = run.at
    BY <1>4 DEF RequestCancel, AgentInv, RowsOK
  <2>2. RowsRight(run', steps', items') /\ Promising /\ Kept /\ DataKept /\ RunGoes("idle")
    BY <1>3, <2>1, StoppedRight, SameData
  <2>3. \A u \in Threads : Knows(th'[u], run', steps', items')
    BY <1>1, <2>2, OtherKnows
  <2> QED
    BY <1>3, <2>2, <2>3 DEF SoleInv
<1>5. CASE ReconcileOnRead
  <2>1. CanReconcile(FALSE) /\ Persist(Adopted) /\ run.at = Prepare
    BY <1>5 DEF ReconcileOnRead, CanReconcile
  <2>2. Begun(run)
    BY <2>1, StatusKinds DEF CanReconcile, Begun
  <2>3. RowsRight(run', steps', items') /\ Promising /\ RunGoes("idle") /\ ActGoes
    BY <1>3, <2>1, <2>2, ReconciledGood, PersistRun, PersistActs
  <2>4. \A u \in Threads : th[u].pc \notin UnderLease
    BY <1>5, AgentAssumption DEF ReconcileOnRead, AgentInv, LeaseCovers
  <2>5. \A u \in Threads : Knows(th'[u], run', steps', items')
    BY <1>1, <2>3, <2>4, OtherKnows
  <2> QED
    BY <1>3, <2>3, <2>5 DEF SoleInv
<1>6. CASE ~RequestCancel(p) /\ ~ReconcileOnRead
  <2>1. UNCHANGED <<run, steps, items>>
    BY <1>6 DEF SetFlag, OutsideTakes, OutsideLeaves, OutsideWrites, vars, db
  <2> QED
    BY <1>1, <1>3, <2>1, SameRight DEF SoleInv
<1> QED
  BY <1>4, <1>5, <1>6

LEMMA DiesSole ==
  ASSUME AgentInv, SuiteInv, SoleInv, OneProcess, NEW p \in Procs, ProcessDies(p)
  PROVE  SoleInv' /\ Promising
<1>1. /\ Idle.proc = p /\ Idle.pc = "idle" /\ Idle.job = "none" /\ ~Idle.suite /\ ~Idle.done
      /\ \A t \in Threads : th[t].proc = p
  BY ProcKnown
<1>2. \A t \in Threads : th'[t] = Idle
  BY <1>1 DEF ProcessDies
<1>3. task'[p].owner = Nobody
  BY DEF ProcessDies, NoTask, AgentInv, RegistryOK
<1>4. SoleDriver'
  BY <1>1, <1>2, <1>3, AgentAssumption DEF SoleDriver, Registered, Drivers
<1>5. RowsRight(run', steps', items') /\ Promising
  BY SameRight DEF SoleInv, ProcessDies, db
<1>6. \A t \in Threads : Knows(th'[t], run', steps', items')
  BY <1>1, <1>2, QuietKnows
<1> QED
  BY <1>4, <1>5, <1>6 DEF SoleInv

LEMMA InitSole == ASSUME AgentInit, OneProcess PROVE SoleInv
<1>1. PICK t \in Threads, p \in Procs :
        th = [u \in Threads |->
                IF u = t THEN [Idle EXCEPT !.pc = "register", !.job = "flow", !.proc = p] ELSE Idle]
  BY DEF AgentInit
<1> DEFINE x == [Idle EXCEPT !.pc = "register", !.job = "flow", !.proc = p]
<1>2. /\ x.pc = "register" /\ x.job = "flow" /\ x.proc = p /\ ~x.suite /\ ~x.done
      /\ Idle.pc = "idle" /\ Idle.job = "none" /\ ~Idle.suite /\ ~Idle.done /\ Idle.proc \in Procs
  BY IdleKnown DEF Memories, Idle
<1>3. th = [u \in Threads |-> IF u = t THEN x ELSE Idle]
  BY <1>1
<1> HIDE DEF x
<1>4. run.status = "queued" /\ run.at = 1 /\ Prepare = 5 /\ Create = 6 /\ Execute = 7
  BY StatusKinds DEF AgentInit
<1>5. \A q \in Procs, u \in Threads : task[q].owner # u
  BY AgentAssumption DEF AgentInit, NoTask
<1>6. SoleDriver
  BY <1>2, <1>3, <1>5 DEF SoleDriver, Registered, Drivers
<1>7. RowsRight(run, steps, items)
  BY <1>4 DEF RowsRight, AgentInit, Begun, StepNumbers
<1>8. x.pc \notin Finishing \cup Suited
  BY <1>2 DEF Finishing, Driving, Suited
<1>9. Knows(x, run, steps, items)
  BY <1>2, <1>4, <1>8 DEF Knows, Remembers, InPlace, AtStep, AtSuite
<1>10. Knows(Idle, run, steps, items)
  BY <1>2, QuietKnows
<1> QED
  BY <1>3, <1>6, <1>7, <1>9, <1>10 DEF SoleInv

LEMMA RightMatches ==
  ASSUME AgentInv, RowsRight(run, steps, items)
  PROVE  RunMatchesSteps
<1>0. Prepare = 5 /\ Create = 6 /\ Execute = 7
  BY StatusKinds
<1>1. run.status = "succeeded" => \A s \in 2..Execute : steps[s] = "succeeded"
  BY DEF RowsRight
<1>2. run.status = "succeeded_with_unresolved" =>
        Ready = {} /\ \A s \in 2..Execute : steps[s] = (IF s >= Create THEN "skipped" ELSE "succeeded")
  <2>1. \A s \in 2..7 : s \in 2..4 \/ s = 5 \/ s = 6 \/ s = 7
    OBVIOUS
  <2> QED
    BY <1>0, <2>1 DEF RowsRight, Planned, Ready, ReadyOf
<1> QED
  BY <1>1, <1>2 DEF RunMatchesSteps, AgentInv, RowsOK

LEMMA NextSole ==
  ASSUME AgentInv, SuiteInv, SoleInv, OneProcess, [AgentNext]_vars, NeverResumed'
  PROVE  SoleInv' /\ Promising
<1>1. ~(\E t \in Threads, p \in Procs, s \in StepNumbers : ResumeRun(t, p, s))
  BY ResumesStay
<1>2. ASSUME NEW t \in Threads, NEW p \in Procs, Request(t, p) PROVE SoleInv' /\ Promising
  BY <1>1, <1>2, PollSole, PersonSole DEF Request
<1>3. PICK p \in Procs : TRUE
  BY AgentAssumption
<1> QED
  BY <1>2, <1>3, StepInv, OthersSole, DiesSole DEF AgentNext

(* publish_agent_terminal, "atomically close child records before exposing a  *)
(* recoverable terminal run": with one process and before a resume, the step  *)
(* rows of a finished run tell the same story as the run, whatever crashes,   *)
(* requests and outside writers came between.                                 *)
THEOREM RowsTellTheStory ==
  ASSUME OneProcess
  PROVE  AgentSpec => [](NeverResumed => RunMatchesSteps)
<1> DEFINE I == AgentInv /\ (NeverResumed => SuiteInv /\ SoleInv)
<1>1. AgentInit => I
  BY InitKeeps, InitSuite, InitSole
<1>2. I /\ [AgentNext]_vars => I'
  BY NextKeeps, NextSuite, NextSole, ResumesStay
<1>3. I => (NeverResumed => RunMatchesSteps)
  BY RightMatches DEF SoleInv
<1> QED
  BY <1>1, <1>2, <1>3, PTL DEF AgentSpec

(* The statuses and steps that clients poll: with one process, a run that is  *)
(* never resumed goes through them as AgentRunPromise says.                   *)
THEOREM PromiseKept ==
  ASSUME OneProcess
  PROVE  AgentSpec /\ []NeverResumed => ImplementsPromise
<1> DEFINE I == AgentInv /\ (NeverResumed => SuiteInv /\ SoleInv)
<1>1. AgentInit => I
  BY InitKeeps, InitSuite, InitSole
<1>0. AgentInit => Promised!PromiseInit
  BY DEF AgentInit, Promised!PromiseInit
<1>2. I /\ [AgentNext]_vars => I'
  BY NextKeeps, NextSuite, NextSole, ResumesStay
<1>3. I /\ NeverResumed /\ NeverResumed' /\ [AgentNext]_vars
        => [Promised!PromiseNext]_(Promised!promiseVars)
  BY NextSole, PromiseSteps
<1> QED
  BY <1>0, <1>1, <1>2, <1>3, PTL DEF AgentSpec, ImplementsPromise, Promised!Promise
=============================================================================
