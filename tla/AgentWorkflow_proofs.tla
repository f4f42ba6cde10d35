------------------------ MODULE AgentWorkflow_proofs ------------------------
(***************************************************************************)
(* Proofs about AgentWorkflow, for any number of scripts, threads and      *)
(* processes and for any number of crashes and resumes: its types, that    *)
(* the module's lease covers every phase that touches scripts, that a      *)
(* cancelled run has no running step, and which way its status may go.     *)
(***************************************************************************)
EXTENDS AgentWorkflow, TLAPS

\* What a thread is about to write into the run's current step is a step, and
\* a failure replaces a status a run can fail in.
StepKnown(x) ==
  /\ x.pc = "publishFailed" => x.seen \in Promised!Unfinished
  /\ x.pc \in {"start", "work"} => x.step \in 2..4
  /\ x.pc \in {"claimResume", "replace"} => x.step \in StepNumbers

RowsOK ==
  /\ run \in [status : RunStatuses, at : StepNumbers, linked : BOOLEAN]
  /\ steps \in [StepNumbers -> StepStatuses]
  /\ items \in [Items -> ItemStatuses]
  /\ suite \in [made : BOOLEAN, members : SUBSET Items]
  /\ CancelledIsClosed

RegistryOK ==
  /\ stale \subseteq Items /\ asked \subseteq Procs
  /\ spent \in [events : 0..MaxEvents, resumes : 0..MaxResumes, crashes : 0..MaxCrashes]
  /\ task \in [Procs -> [owner : Threads \cup {Nobody}, flag : BOOLEAN]]

AgentInv ==
  /\ RowsOK /\ RegistryOK
  /\ lease \in Threads \cup {Nobody, Outside}
  /\ th \in [Threads -> Memories]
  /\ \A t \in Threads : StepKnown(th[t])
  /\ LeaseCovers

-----------------------------------------------------------------------------
(* The rows *)

LEMMA NumbersKnown ==
  /\ Prepare \in StepNumbers /\ Create \in StepNumbers /\ Execute \in StepNumbers
  /\ 1 \in StepNumbers /\ 2..4 \subseteq StepNumbers
BY DEF Prepare, Create, Execute, StepNumbers

LEMMA StatusesKnown ==
  /\ RunStatuses = {"succeeded", "succeeded_with_unresolved", "failed", "cancelled",
                    "queued", "running", "cancelling", "awaiting_script_action"}
BY DEF RunStatuses, AGENT_TERMINAL_STATUSES, AGENT_ACTIVE_STATUSES, AGENT_PAUSED_STATUSES

LEMMA SameRows == ASSUME RowsOK, UNCHANGED db PROVE RowsOK'
BY DEF RowsOK, CancelledIsClosed, db

(* A transaction of the preparation never turns up in a cancelled run. *)
LEMMA PersistRows ==
  ASSUME RowsOK, NEW d \in [Items -> ItemStatuses], Persist(d)
  PROVE  RowsOK'
<1>1. StepStatus(d) \in StepStatuses
  BY DEF StepStatus, StepStatuses
<1>2. run.status # "cancelled"
  BY DEF Persist, PersistCancelled, PersistConflict
<1>a. \/ run' = run
      \/ \E v \in {"running", "awaiting_script_action"} :
           run' = [run EXCEPT !.status = v, !.at = Prepare]
  BY DEF Persist
<1>c. run \in [status : RunStatuses, at : StepNumbers, linked : BOOLEAN]
  BY DEF RowsOK
<1>3. run' \in [status : RunStatuses, at : StepNumbers, linked : BOOLEAN] /\ run'.status # "cancelled"
  <2>1. CASE run' = run
    BY <2>1, <1>c, <1>2
  <2>2. ASSUME NEW v \in {"running", "awaiting_script_action"},
               run' = [run EXCEPT !.status = v, !.at = Prepare]
        PROVE  run' \in [status : RunStatuses, at : StepNumbers, linked : BOOLEAN] /\ run'.status # "cancelled"
    <3>1. v \in RunStatuses /\ v # "cancelled"
      BY StatusesKnown
    <3> QED
      BY <1>c, <2>2, <3>1, NumbersKnown
  <2> QED
    BY <1>a, <2>1, <2>2
<1>b. \E w \in StepStatuses : steps' = [steps EXCEPT ![Prepare] = w]
  BY <1>1 DEF Persist
<1>5. steps' \in [StepNumbers -> StepStatuses]
  BY <1>b, NumbersKnown DEF RowsOK
<1> QED
  BY <1>3, <1>5 DEF Persist, RowsOK, CancelledIsClosed

(* The terminal status of a run closes its rows with it. *)
LEMMA PublishRows ==
  ASSUME RowsOK, NEW expected,
         NEW terminal \in {"succeeded", "succeeded_with_unresolved", "failed", "cancelled"},
         PublishAgentTerminal(expected, terminal)
  PROVE  RowsOK'
<1>1. ClosedSteps(terminal) \in [StepNumbers -> StepStatuses]
  BY DEF ClosedSteps, RowsOK, StepStatuses
<1>2. terminal = "cancelled" => \A s \in StepNumbers : ClosedSteps(terminal)[s] # "running"
  BY DEF ClosedSteps, RowsOK
<1>3. CASE run.status = expected
  <2>a. /\ steps' = ClosedSteps(terminal)
        /\ \/ run' = [run EXCEPT !.status = terminal, !.at = @]
           \/ run' = [run EXCEPT !.status = terminal, !.at = Execute]
    BY <1>3 DEF PublishAgentTerminal
  <2>b. run \in [status : RunStatuses, at : StepNumbers, linked : BOOLEAN] /\ terminal \in RunStatuses
    BY StatusesKnown DEF RowsOK
  <2>1. run' \in [status : RunStatuses, at : StepNumbers, linked : BOOLEAN]
    BY <2>a, <2>b, NumbersKnown
  <2>2. run'.status = terminal /\ steps' = ClosedSteps(terminal)
    BY <2>a DEF RowsOK
  <2> QED
    BY <1>1, <1>2, <2>1, <2>2 DEF PublishAgentTerminal, RowsOK, CancelledIsClosed
<1>4. CASE run.status # expected
  BY <1>4 DEF PublishAgentTerminal, RowsOK, CancelledIsClosed
<1> QED
  BY <1>3, <1>4

LEMMA StartRows ==
  ASSUME RowsOK, NEW t \in Threads, NEW s \in StepNumbers, StartAccepted(t, s)
  PROVE  RowsOK'
<1>1. run' \in [status : RunStatuses, at : StepNumbers, linked : BOOLEAN] /\ run'.status = "running"
  BY DEF StartAccepted, RowsOK
<1>2. steps' \in [StepNumbers -> StepStatuses]
  BY DEF StartAccepted, RowsOK, StepStatuses
<1> QED
  BY <1>1, <1>2 DEF StartAccepted, RowsOK, CancelledIsClosed

\* A step that ends, whatever became of the run meanwhile.
LEMMA EndedRows ==
  ASSUME RowsOK, NEW s \in StepNumbers, NEW v \in {"succeeded", "failed", "skipped"},
         steps' = [steps EXCEPT ![s] = v], UNCHANGED <<run, items, suite>>
  PROVE  RowsOK'
<1>1. steps' \in [StepNumbers -> StepStatuses]
  BY DEF RowsOK, StepStatuses
<1>2. \A k \in StepNumbers : steps'[k] = "running" => steps[k] = "running"
  BY DEF RowsOK
<1> QED
  BY <1>1, <1>2 DEF RowsOK, CancelledIsClosed

-----------------------------------------------------------------------------
(* One thread moves *)

\* The lease changes hands only between nobody and t.
LeaseOf(t) == lease' = lease \/ (lease \in {Nobody, t} /\ lease' \in {Nobody, t})

LEMMA ThreadMoves ==
  ASSUME AgentInv, NEW t \in Threads, NEW x \in Memories, StepKnown(x),
         th' = [th EXCEPT ![t] = x], LeaseOf(t), x.pc \in UnderLease => lease' = t,
         RowsOK', RegistryOK'
  PROVE  AgentInv'
<1>1. lease' \in Threads \cup {Nobody, Outside}
  BY DEF AgentInv, LeaseOf
<1>2. th' \in [Threads -> Memories] /\ th'[t] = x /\ \A u \in Threads : u # t => th'[u] = th[u]
  BY DEF AgentInv
<1>3. \A u \in Threads : StepKnown(th'[u])
  BY <1>2 DEF AgentInv
<1>4. \A u \in Threads : th'[u].pc \in UnderLease => lease' = u
  <2> SUFFICES ASSUME NEW u \in Threads, th'[u].pc \in UnderLease PROVE lease' = u
    OBVIOUS
  <2>1. CASE u = t
    BY <2>1, <1>2
  <2>2. CASE u # t
    <3>1. lease = u
      BY <2>2, <1>2 DEF AgentInv, LeaseCovers
    <3>2. lease # Nobody /\ lease # t
      BY <2>2, <3>1, AgentAssumption
    <3> QED
      BY <3>1, <3>2 DEF LeaseOf
  <2> QED
    BY <2>1, <2>2
<1>5. (\A u \in Threads : StepKnown(th[u]))'
  BY <1>3 DEF StepKnown
<1> QED
  BY <1>1, <1>2, <1>4, <1>5 DEF AgentInv, LeaseCovers

\* Points at which a thread names neither a step nor a status.
Nameless == Pcs \ {"start", "work", "claimResume", "replace", "publishFailed"}

LEMMA Going ==
  ASSUME AgentInv, NEW t \in Threads, NEW p \in Nameless, Goto(t, p),
         LeaseOf(t), p \in UnderLease => lease' = t, RowsOK', RegistryOK'
  PROVE  AgentInv'
<1> DEFINE x == [th[t] EXCEPT !.pc = p]
<1>1. th[t] \in Memories
  BY DEF AgentInv
<1>2. x \in Memories /\ x.pc = p
  BY <1>1 DEF Memories, Nameless
<1>3. StepKnown(x)
  BY <1>2 DEF StepKnown, Nameless
<1>4. th' = [th EXCEPT ![t] = x]
  BY DEF Goto
<1> HIDE DEF x
<1> QED
  BY <1>2, <1>3, <1>4, ThreadMoves

\* The lease is given back on the way out.
LEMMA Raising ==
  ASSUME AgentInv, NEW t \in Threads, NEW p \in Nameless \ UnderLease, Raise(t, p),
         RowsOK', RegistryOK'
  PROVE  AgentInv'
<1>1. LeaseOf(t)
  BY DEF Raise, Unlock, LeaseOf
<1> QED
  BY <1>1, Going DEF Raise

LEMMA IdleKnown == Idle \in Memories /\ Idle.pc = "idle" /\ Idle.step = 0
<1>1. (CHOOSE p \in Procs : TRUE) \in Procs /\ (CHOOSE i \in Items : TRUE) \in Items
  BY AgentAssumption
<1> QED
  BY <1>1 DEF Idle, Memories, Pcs, Execute

LEMMA Ending ==
  ASSUME AgentInv, NEW t \in Threads, End(t), LeaseOf(t), RowsOK', RegistryOK'
  PROVE  AgentInv'
<1>1. StepKnown(Idle) /\ Idle.pc \notin UnderLease
  BY IdleKnown DEF StepKnown, UnderLease
<1> QED
  BY <1>1, IdleKnown, ThreadMoves DEF End

Jobs == Workflows \cup {"none", "recover", "action", "cancel"}

LEMMA Spawning ==
  ASSUME AgentInv, NEW t \in Threads, NEW p \in Procs, NEW job \in Jobs, NEW pc \in Nameless,
         Spawn(t, p, job, pc),
         LeaseOf(t), pc \in UnderLease => lease' = t, RowsOK', RegistryOK'
  PROVE  AgentInv'
<1> DEFINE x == [Idle EXCEPT !.pc = pc, !.job = job, !.proc = p]
<1>a. pc \in Pcs
  BY DEF Nameless
<1>1. x \in Memories /\ x.pc = pc
  BY IdleKnown, <1>a DEF Memories, Jobs
<1>2. StepKnown(x)
  BY <1>1 DEF StepKnown, Nameless
<1>3. th' = [th EXCEPT ![t] = x]
  BY DEF Spawn
<1> HIDE DEF x
<1> QED
  BY <1>1, <1>2, <1>3, ThreadMoves

-----------------------------------------------------------------------------
(* One lemma per action of a thread *)

LEMMA SameRegistry == ASSUME RegistryOK, UNCHANGED <<stale, task, asked, spent>> PROVE RegistryOK'
BY DEF RegistryOK

LEMMA InvParts ==
  ASSUME AgentInv, NEW t \in Threads
  PROVE  /\ RowsOK /\ RegistryOK /\ th[t] \in Memories /\ StepKnown(th[t])
         /\ th[t].pc \in UnderLease => lease = t
         /\ th[t].proc \in Procs /\ th[t].item \in Items
BY DEF AgentInv, LeaseCovers, Memories

LEMMA LeaseKinds ==
  ASSUME NEW t \in Threads
  PROVE  /\ UNCHANGED lease => LeaseOf(t)
         /\ Unlock(t) => LeaseOf(t)
         /\ lease = Nobody /\ lease' = t => LeaseOf(t)
BY DEF LeaseOf, Unlock

LEMMA TaskKinds ==
  ASSUME RegistryOK, NEW t \in Threads, th[t].proc \in Procs, UNCHANGED <<stale, asked, spent>>,
         RegisterTask(t) \/ CleanupTask(t) \/ UNCHANGED task
  PROVE  RegistryOK'
<1>1. CASE RegisterTask(t)
  BY <1>1 DEF RegisterTask, RegistryOK
<1>2. CASE CleanupTask(t)
  <2>1. \/ task' = [task EXCEPT ![th[t].proc] = NoTask]
        \/ task' = [task EXCEPT ![th[t].proc] = @]
    BY <1>2 DEF CleanupTask
  <2>2. NoTask \in [owner : Threads \cup {Nobody}, flag : BOOLEAN]
    BY DEF NoTask
  <2>3. task' \in [Procs -> [owner : Threads \cup {Nobody}, flag : BOOLEAN]]
    BY <2>1, <2>2 DEF RegistryOK
  <2> QED
    BY <2>3 DEF RegistryOK
<1>3. CASE UNCHANGED task
  BY <1>3 DEF RegistryOK
<1> QED
  BY <1>1, <1>2, <1>3

LEMMA RegisterKeeps == ASSUME AgentInv, NEW t \in Threads, Register(t) PROVE AgentInv'
<1>1. RowsOK'
  BY InvParts, SameRows DEF Register
<1>2. RegistryOK'
  BY InvParts, TaskKinds DEF Register, End, Goto
<1>3. LeaseOf(t) /\ lease' = lease
  BY LeaseKinds DEF Register
<1>4. CASE End(t)
  BY <1>1, <1>2, <1>3, <1>4, Ending
<1>5. CASE ~HasLiveTask(th[t].proc)
  <2>1. PICK p \in {"claim", "load"} : Goto(t, p)
    BY <1>5 DEF Register
  <2>2. p \in Nameless /\ p \notin UnderLease
    BY DEF Nameless, Pcs, UnderLease
  <2> QED
    BY <1>1, <1>2, <1>3, <2>1, <2>2, Going
<1> QED
  BY <1>4, <1>5 DEF Register

LEMMA ClaimStartKeeps == ASSUME AgentInv, NEW t \in Threads, ClaimStart(t) PROVE AgentInv'
<1>1. RegistryOK' /\ LeaseOf(t) /\ lease' = lease
  BY InvParts, SameRegistry, LeaseKinds DEF ClaimStart
<1>2. CASE run.status = "queued"
  <2> DEFINE x == [th[t] EXCEPT !.pc = "start", !.step = 2]
  <2>1. th' = [th EXCEPT ![t] = x]
    BY <1>2 DEF ClaimStart
  <2>2. x \in Memories /\ x.pc = "start" /\ x.step = 2
    <3>1. "start" \in Pcs /\ 2 \in 0..Execute
      BY DEF Pcs, Execute
    <3> QED
      BY <3>1, InvParts DEF Memories
  <2> HIDE DEF x
  <2>3. StepKnown(x) /\ x.pc \notin UnderLease
    BY <2>2 DEF StepKnown, UnderLease
  <2>4. RowsOK'
    <3>1. run' = [run EXCEPT !.status = "running", !.at = 1] /\ steps' = [steps EXCEPT ![1] = "succeeded"]
          /\ UNCHANGED <<items, suite>>
      BY <1>2 DEF ClaimStart
    <3>2. run \in [status : RunStatuses, at : StepNumbers, linked : BOOLEAN]
          /\ "running" \in RunStatuses /\ 1 \in StepNumbers
      BY InvParts, StatusesKnown, NumbersKnown DEF RowsOK
    <3>3. run' \in [status : RunStatuses, at : StepNumbers, linked : BOOLEAN] /\ run'.status = "running"
      BY <3>1, <3>2
    <3>4. steps' \in [StepNumbers -> StepStatuses]
      BY <3>1, InvParts, NumbersKnown DEF RowsOK, StepStatuses
    <3> QED
      BY <3>1, <3>3, <3>4, InvParts DEF RowsOK, CancelledIsClosed
  <2> QED
    BY <1>1, <2>1, <2>2, <2>3, <2>4, ThreadMoves
<1>3. CASE run.status # "queued"
  <2>1. PublishAgentTerminal("cancelling", "cancelled") /\ Goto(t, "cleanup")
    BY <1>3 DEF ClaimStart
  <2>2. RowsOK'
    BY <2>1, InvParts, PublishRows
  <2>3. "cleanup" \in Nameless /\ "cleanup" \notin UnderLease
    BY DEF Nameless, Pcs, UnderLease
  <2> QED
    BY <1>1, <2>1, <2>2, <2>3, Going
<1> QED
  BY <1>2, <1>3

LEMMA Places ==
  /\ UnderLease \subseteq Nameless
  /\ {"register", "claim", "planBarrier", "load", "barrier", "onCancel", "onFail",
      "finalize", "publishCancelled", "cleanup", "recover"} \subseteq Nameless \ UnderLease
BY DEF Nameless, Pcs, UnderLease

\* A thread that goes on under the step it has.
LEMMA Naming ==
  ASSUME AgentInv, NEW t \in Threads, NEW p \in {"start", "work", "replace"}, Goto(t, p),
         p # "replace" => th[t].step \in 2..4, p = "replace" => th[t].step \in StepNumbers,
         LeaseOf(t), RowsOK', RegistryOK'
  PROVE  AgentInv'
<1> DEFINE x == [th[t] EXCEPT !.pc = p]
<1>1. p \in Pcs /\ p \notin UnderLease
  BY DEF Pcs, UnderLease
<1>2. x \in Memories /\ x.pc = p /\ x.step = th[t].step
  BY <1>1, InvParts DEF Memories
<1>3. StepKnown(x)
  BY <1>2 DEF StepKnown
<1>4. th' = [th EXCEPT ![t] = x]
  BY DEF Goto
<1> HIDE DEF x
<1> QED
  BY <1>1, <1>2, <1>3, <1>4, ThreadMoves

LEMMA ClaimResumeKeeps == ASSUME AgentInv, NEW t \in Threads, ClaimResume(t) PROVE AgentInv'
<1>1. RegistryOK' /\ LeaseOf(t) /\ lease' = lease
  BY InvParts, SameRegistry, LeaseKinds DEF ClaimResume
<1>2. CASE run.status = "queued"
  <2>1. run' = [run EXCEPT !.status = "running", !.at = th[t].step] /\ Goto(t, "replace")
        /\ UNCHANGED <<steps, items, suite>>
    BY <1>2 DEF ClaimResume
  <2>2. th[t].step \in StepNumbers
    BY InvParts DEF ClaimResume, StepKnown
  <2>3. run \in [status : RunStatuses, at : StepNumbers, linked : BOOLEAN] /\ "running" \in RunStatuses
    BY InvParts, StatusesKnown DEF RowsOK
  <2>4. run' \in [status : RunStatuses, at : StepNumbers, linked : BOOLEAN] /\ run'.status = "running"
    BY <2>1, <2>2, <2>3
  <2>5. RowsOK'
    BY <2>1, <2>4, InvParts DEF RowsOK, CancelledIsClosed
  <2> QED
    BY <1>1, <2>1, <2>2, <2>5, Naming
<1>3. CASE run.status # "queued" /\ run.status = "cancelling"
  <2>1. Goto(t, "finalize") /\ UNCHANGED db
    BY <1>3 DEF ClaimResume, db
  <2> QED
    BY <1>1, <2>1, Places, InvParts, SameRows, Going
<1>4. CASE run.status # "queued" /\ run.status # "cancelling"
  <2>1. End(t) /\ UNCHANGED db
    BY <1>4 DEF ClaimResume, db
  <2> QED
    BY <1>1, <2>1, InvParts, SameRows, Ending
<1> QED
  BY <1>2, <1>3, <1>4

LEMMA ReplaceKeeps == ASSUME AgentInv, NEW t \in Threads, Replace(t) PROVE AgentInv'
<1>1. RegistryOK' /\ LeaseOf(t) /\ lease' = lease
  BY InvParts, TaskKinds, LeaseKinds DEF Replace
<1>2. RowsOK'
  <2>1. \/ steps' = [steps EXCEPT ![1] = "succeeded"]
        \/ steps' = [steps EXCEPT ![1] = @]
    BY DEF Replace
  <2>2. CASE steps' = [steps EXCEPT ![1] = "succeeded"]
    BY <2>2, InvParts, EndedRows, NumbersKnown DEF Replace
  <2>3. CASE steps' = [steps EXCEPT ![1] = @]
    <3>1. UNCHANGED db
      BY <2>3, InvParts DEF RowsOK, Replace, db
    <3> QED
      BY <3>1, InvParts, SameRows
  <2> QED
    BY <2>1, <2>2, <2>3
<1> DEFINE s == th[t].step
           pc == IF \E k \in LoadedBefore(s) : steps[k] # "succeeded" THEN "onFail"
                 ELSE IF s < Prepare THEN "start"
                 ELSE IF s = Prepare THEN "planBarrier" ELSE "barrier"
           st == IF s = 1 THEN 2 ELSE s
           x == [th[t] EXCEPT !.pc = pc, !.suite = (s = Execute), !.step = st]
<1>3. th' = [th EXCEPT ![t] = x]
  BY DEF Replace
<1>4. s \in StepNumbers
  BY InvParts DEF Replace, StepKnown
<1>5. /\ pc \in {"onFail", "start", "planBarrier", "barrier"}
      /\ pc = "start" => s < Prepare
  BY Zenon
<1>6. st \in 0..Execute /\ (s < Prepare => st \in 2..4)
  BY <1>4 DEF StepNumbers, Execute, Prepare
<1>7. (s = Execute) \in BOOLEAN
  OBVIOUS
<1> HIDE DEF pc, st
<1>8. pc \in Pcs /\ pc \notin UnderLease
  BY <1>5 DEF Pcs, UnderLease
<1>9. x \in Memories /\ x.pc = pc /\ x.step = st
  BY <1>6, <1>7, <1>8, InvParts DEF Memories
<1>10. StepKnown(x)
  BY <1>5, <1>6, <1>9 DEF StepKnown
<1> HIDE DEF x
<1> QED
  BY <1>1, <1>2, <1>3, <1>8, <1>9, <1>10, ThreadMoves

LEMMA Refusing ==
  ASSUME AgentInv, NEW t \in Threads, StartRefused(t), UNCHANGED <<stale, task, asked, spent>>
  PROVE  AgentInv'
<1>1. RowsOK' /\ RegistryOK'
  BY InvParts, SameRows, SameRegistry DEF StartRefused
<1>2. PICK p \in {"onCancel", "onFail"} : Raise(t, p)
  BY DEF StartRefused
<1> QED
  BY <1>1, <1>2, Places, Raising

LEMMA StartStepKeeps == ASSUME AgentInv, NEW t \in Threads, StartStep(t) PROVE AgentInv'
<1>1. CASE StartRefused(t)
  BY <1>1, Refusing DEF StartStep
<1>2. CASE StartAccepted(t, th[t].step) /\ Goto(t, "work")
  <2>1. th[t].step \in 2..4 /\ th[t].step \in StepNumbers
    BY InvParts, NumbersKnown DEF StartStep, StepKnown
  <2>2. RowsOK' /\ RegistryOK' /\ LeaseOf(t)
    BY <1>2, <2>1, InvParts, StartRows, SameRegistry, LeaseKinds DEF StartStep, StartAccepted
  <2> QED
    BY <1>2, <2>1, <2>2, Naming
<1> QED
  BY <1>1, <1>2 DEF StartStep

LEMMA WorkKeeps == ASSUME AgentInv, NEW t \in Threads, Work(t) PROVE AgentInv'
<1>1. RegistryOK' /\ LeaseOf(t) /\ lease' = lease
  BY InvParts, SameRegistry, LeaseKinds DEF Work
<1>2. th[t].step \in 2..4 /\ th[t].step \in StepNumbers
  BY InvParts, NumbersKnown DEF Work, StepKnown
<1>3. CASE /\ steps' = [steps EXCEPT ![th[t].step] = "succeeded"]
           /\ th' = [th EXCEPT ![t].step = @ + 1,
                               ![t].pc = IF th[t].step = 4 THEN "planBarrier" ELSE "start"]
  <2> DEFINE n == th[t].step + 1
             pc == IF th[t].step = 4 THEN "planBarrier" ELSE "start"
             x == [th[t] EXCEPT !.step = n, !.pc = pc]
  <2>1. th' = [th EXCEPT ![t] = x]
    BY <1>3, InvParts DEF Memories, AgentInv
  <2>2. n \in 0..Execute /\ pc \in {"planBarrier", "start"} /\ (pc = "start" => n \in 2..4)
    BY <1>2 DEF Execute
  <2> HIDE DEF n, pc
  <2>3. pc \in Pcs /\ pc \notin UnderLease
    BY <2>2 DEF Pcs, UnderLease
  <2>4. x \in Memories /\ x.pc = pc /\ x.step = n
    BY <2>2, <2>3, InvParts DEF Memories
  <2>5. StepKnown(x)
    BY <2>2, <2>4 DEF StepKnown
  <2> HIDE DEF x
  <2>6. RowsOK'
    BY <1>2, <1>3, InvParts, EndedRows DEF Work
  <2> QED
    BY <1>1, <2>1, <2>3, <2>4, <2>5, <2>6, ThreadMoves
<1>4. CASE \E p \in {"onFail", "onCancel"} : Goto(t, p) /\ UNCHANGED steps
  <2>1. RowsOK'
    BY <1>4, InvParts, SameRows DEF Work, db
  <2>2. PICK p \in {"onFail", "onCancel"} : Goto(t, p)
    BY <1>4
  <2> QED
    BY <1>1, <2>1, <2>2, Places, Going
<1> QED
  BY <1>3, <1>4 DEF Work

\* The lease is taken when nobody has it, or the thread leaves.
LEMMA Entering ==
  ASSUME AgentInv, NEW t \in Threads, NEW p \in UnderLease,
         \/ lease = Nobody /\ lease' = t /\ Goto(t, p)
         \/ \E q \in {"cleanup", "onFail"} : Goto(t, q) /\ UNCHANGED lease,
         UNCHANGED db, UNCHANGED <<stale, task, asked, spent>>
  PROVE  AgentInv'
<1>1. RowsOK' /\ RegistryOK' /\ LeaseOf(t)
  BY InvParts, SameRows, SameRegistry, LeaseKinds
<1>2. CASE lease = Nobody /\ lease' = t /\ Goto(t, p)
  BY <1>1, <1>2, Places, Going
<1>3. CASE \E q \in {"cleanup", "onFail"} : Goto(t, q) /\ UNCHANGED lease
  BY <1>1, <1>3, Places, Going
<1> QED
  BY <1>2, <1>3

LEMMA PlanBarrierKeeps == ASSUME AgentInv, NEW t \in Threads, PlanBarrier(t) PROVE AgentInv'
<1>1. /\ \/ lease = Nobody /\ lease' = t /\ Goto(t, "initialize")
         \/ \E q \in {"cleanup", "onFail"} : Goto(t, q) /\ UNCHANGED lease
      /\ UNCHANGED db /\ UNCHANGED <<stale, task, asked, spent>>
  BY DEF PlanBarrier
<1>2. "initialize" \in UnderLease
  BY DEF UnderLease
<1> QED
  BY <1>1, <1>2, Entering

LEMMA BarrierKeeps == ASSUME AgentInv, NEW t \in Threads, Barrier(t) PROVE AgentInv'
<1>1. /\ \/ lease = Nobody /\ lease' = t /\ Goto(t, "reconcile")
         \/ \E q \in {"cleanup", "onFail"} : Goto(t, q) /\ UNCHANGED lease
      /\ UNCHANGED db /\ UNCHANGED <<stale, task, asked, spent>>
  BY DEF Barrier
<1>2. "reconcile" \in UnderLease
  BY DEF UnderLease
<1> QED
  BY <1>1, <1>2, Entering

(* Under the lease: a transaction that commits keeps it and goes on, one that *)
(* finds a cancellation goes on to close the scripts, one that conflicts      *)
(* gives it back.                                                             *)
LEMMA UnderWay ==
  ASSUME AgentInv, NEW t \in Threads, lease = t, RegistryOK',
         NEW p \in Nameless, Goto(t, p), UNCHANGED lease, RowsOK'
  PROVE  AgentInv'
BY LeaseKinds, Going

LEMMA Committing ==
  ASSUME AgentInv, NEW t \in Threads, th[t].pc \in UnderLease, RegistryOK',
         NEW d \in [Items -> ItemStatuses], NEW p \in UnderLease \cup {"cleanup"},
         Persist(d), Goto(t, p), UNCHANGED lease
  PROVE  AgentInv'
<1>1. RowsOK' /\ lease = t /\ p \in Nameless
  BY InvParts, PersistRows, Places
<1> QED
  BY <1>1, UnderWay

LEMMA Interrupting ==
  ASSUME AgentInv, NEW t \in Threads, th[t].pc \in UnderLease, RegistryOK', Interrupt(t)
  PROVE  AgentInv'
<1>1. RowsOK' /\ lease = t /\ "finalize" \in Nameless
  BY InvParts, SameRows, Places DEF Interrupt
<1> QED
  BY <1>1, UnderWay DEF Interrupt

LEMMA Conflicting ==
  ASSUME AgentInv, NEW t \in Threads, RegistryOK', UNCHANGED db,
         NEW p \in {"onFail", "onCancel", "cleanup"}, Raise(t, p)
  PROVE  AgentInv'
<1>1. RowsOK' /\ p \in Nameless \ UnderLease
  BY InvParts, SameRows, Places
<1> QED
  BY <1>1, Raising

LEMMA InitializeKeeps == ASSUME AgentInv, NEW t \in Threads, Initialize(t) PROVE AgentInv'
<1> DEFINE d == [i \in Items |-> "queued"]
<1>1. RegistryOK' /\ th[t].pc \in UnderLease /\ d \in [Items -> ItemStatuses] /\ "prepare" \in UnderLease
  BY InvParts DEF Initialize, RegistryOK, UnderLease, ItemStatuses
<1>2. \/ Persist(d) /\ Goto(t, "prepare") /\ UNCHANGED lease
      \/ Interrupt(t)
      \/ UNCHANGED db /\ Raise(t, "onFail")
  BY DEF Initialize
<1> HIDE DEF d
<1> QED
  BY <1>1, <1>2, Committing, Interrupting, Conflicting

LEMMA PrepareItemKeeps == ASSUME AgentInv, NEW t \in Threads, PrepareItem(t) PROVE AgentInv'
<1>1. RegistryOK' /\ th[t].pc \in UnderLease
  BY InvParts, SameRegistry DEF PrepareItem, UnderLease
<1>2. PICK i \in Items :
        \/ /\ Persist([items EXCEPT ![i] = "busy"])
           /\ th' = [th EXCEPT ![t].pc = "item", ![t].item = i]
           /\ UNCHANGED lease
        \/ Interrupt(t)
        \/ Raise(t, "onFail") /\ UNCHANGED db
  BY DEF PrepareItem
<1> DEFINE d == [items EXCEPT ![i] = "busy"]
<1>3. CASE Persist(d) /\ th' = [th EXCEPT ![t].pc = "item", ![t].item = i] /\ UNCHANGED lease
  <2>1. d \in [Items -> ItemStatuses]
    BY InvParts DEF RowsOK, ItemStatuses
  <2> HIDE DEF d
  <2>2. RowsOK'
    BY <1>3, <2>1, InvParts, PersistRows
  <2> DEFINE x == [th[t] EXCEPT !.pc = "item", !.item = i]
  <2>3. th' = [th EXCEPT ![t] = x]
    BY <1>3, InvParts DEF AgentInv
  <2>4. "item" \in Pcs /\ "item" \in UnderLease
    BY DEF Pcs, UnderLease
  <2>5. x \in Memories /\ x.pc = "item"
    BY <2>4, InvParts DEF Memories
  <2>6. StepKnown(x)
    BY <2>5 DEF StepKnown
  <2> HIDE DEF x
  <2>7. lease' = t /\ LeaseOf(t)
    BY <1>1, <1>3, InvParts, LeaseKinds
  <2> QED
    BY <1>1, <2>2, <2>3, <2>5, <2>6, <2>7, ThreadMoves
<1> QED
  BY <1>1, <1>2, <1>3, Interrupting, Conflicting

LEMMA ItemEndsKeeps == ASSUME AgentInv, NEW t \in Threads, ItemEnds(t) PROVE AgentInv'
<1>1. th[t].pc \in UnderLease
  BY DEF ItemEnds, UnderLease
<1>2. PICK back \in {"prepare", "actSettled"}, out \in {"onFail", "cleanup"}, i \in Items :
        \/ \E v \in {"ready", "waiting"} :
             LET d == [items EXCEPT ![i] = v]
             IN /\ stale' = stale \ {i}
                /\ \/ Persist(d) /\ Goto(t, back) /\ UNCHANGED lease
                   \/ Interrupt(t)
                   \/ Raise(t, out) /\ UNCHANGED db
        \/ Interrupt(t) /\ UNCHANGED stale
  <2>1. th[t].item \in Items
    BY InvParts
  <2> QED
    BY <2>1, Zenon DEF ItemEnds
<1>3. RegistryOK'
  BY <1>2, InvParts DEF RegistryOK, ItemEnds
<1>4. back \in UnderLease /\ out \in {"onFail", "onCancel", "cleanup"}
  BY DEF UnderLease
<1>5. ASSUME NEW v \in {"ready", "waiting"}, Persist([items EXCEPT ![i] = v]), Goto(t, back), UNCHANGED lease
      PROVE  AgentInv'
  <2>1. [items EXCEPT ![i] = v] \in [Items -> ItemStatuses]
    BY InvParts DEF RowsOK, ItemStatuses
  <2> QED
    BY <1>1, <1>3, <1>4, <1>5, <2>1, Committing
<1>6. CASE Interrupt(t)
  BY <1>1, <1>3, <1>6, Interrupting
<1>7. CASE Raise(t, out) /\ UNCHANGED db
  BY <1>3, <1>4, <1>7, Conflicting
<1> QED
  BY <1>2, <1>5, <1>6, <1>7

LEMMA PreparedKeeps == ASSUME AgentInv, NEW t \in Threads, Prepared(t) PROVE AgentInv'
<1>1. RegistryOK' /\ th[t].pc \in UnderLease /\ items \in [Items -> ItemStatuses]
  BY InvParts, SameRegistry DEF Prepared, UnderLease, RowsOK
<1>2. \/ \E p \in {"barrier", "cleanup"} : Persist(items) /\ Raise(t, p)
      \/ Interrupt(t)
      \/ Raise(t, "onFail") /\ UNCHANGED db
  BY DEF Prepared
<1>3. ASSUME NEW p \in {"barrier", "cleanup"}, Persist(items), Raise(t, p) PROVE AgentInv'
  <2>1. RowsOK' /\ p \in Nameless \ UnderLease
    BY <1>1, <1>3, InvParts, PersistRows, Places
  <2> QED
    BY <1>1, <1>3, <2>1, Raising
<1> QED
  BY <1>1, <1>2, <1>3, Interrupting, Conflicting

LEMMA LoadKeeps == ASSUME AgentInv, NEW t \in Threads, Load(t) PROVE AgentInv'
<1>1. RowsOK' /\ RegistryOK' /\ LeaseOf(t) /\ lease' = lease
  BY InvParts, SameRows, SameRegistry, LeaseKinds DEF Load
<1>2. CASE \E p \in {"cleanup", "onFail"} : Goto(t, p)
  BY <1>1, <1>2, Places, Going
<1>3. CASE th' = [th EXCEPT ![t].pc = "barrier", ![t].suite = TRUE,
                            ![t].done = steps[Execute] = "succeeded"]
  <2> DEFINE b == steps[Execute] = "succeeded"
             x == [th[t] EXCEPT !.pc = "barrier", !.suite = TRUE, !.done = b]
  <2>1. th' = [th EXCEPT ![t] = x]
    BY <1>3, InvParts DEF AgentInv
  <2>2. b \in BOOLEAN /\ "barrier" \in Pcs
    BY DEF Pcs
  <2> HIDE DEF b
  <2>3. x \in Memories /\ x.pc = "barrier"
    BY <2>2, InvParts DEF Memories
  <2>4. StepKnown(x) /\ x.pc \notin UnderLease
    BY <2>3 DEF StepKnown, UnderLease
  <2> HIDE DEF x
  <2> QED
    BY <1>1, <2>1, <2>3, <2>4, ThreadMoves
<1> QED
  BY <1>2, <1>3 DEF Load

LEMMA AdoptedTyped == ASSUME RowsOK PROVE Adopted \in [Items -> ItemStatuses]
BY DEF Adopted, RowsOK, ItemStatuses

LEMMA ReconcileKeeps == ASSUME AgentInv, NEW t \in Threads, Reconcile(t) PROVE AgentInv'
<1>1. RegistryOK' /\ th[t].pc \in UnderLease
  BY InvParts DEF Reconcile, RegistryOK, UnderLease
<1>2. PICK on \in {"decide", "actApply"}, out \in {"onCancel", "cleanup"} :
        \/ Goto(t, on) /\ UNCHANGED <<db, lease>>
        \/ Persist(Adopted) /\ Goto(t, on) /\ UNCHANGED lease
        \/ Raise(t, out) /\ UNCHANGED db
  BY Zenon DEF Reconcile
<1>3. on \in UnderLease /\ on \in Nameless /\ out \in {"onFail", "onCancel", "cleanup"}
  BY Places DEF UnderLease
<1>4. CASE Goto(t, on) /\ UNCHANGED <<db, lease>>
  <2>1. RowsOK' /\ lease = t
    BY <1>1, <1>4, InvParts, SameRows
  <2> QED
    BY <1>1, <1>3, <1>4, <2>1, UnderWay
<1>5. CASE Persist(Adopted) /\ Goto(t, on) /\ UNCHANGED lease
  <2>1. Adopted \in [Items -> ItemStatuses]
    BY InvParts, AdoptedTyped
  <2> QED
    BY <1>1, <1>3, <1>5, <2>1, Committing
<1>6. CASE Raise(t, out) /\ UNCHANGED db
  BY <1>1, <1>3, <1>6, Conflicting
<1> QED
  BY <1>2, <1>4, <1>5, <1>6

\* The thread goes on under the lease, the rows as they are.
LEMMA Passing ==
  ASSUME AgentInv, NEW t \in Threads, th[t].pc \in UnderLease, UNCHANGED <<stale, task, asked, spent>>,
         NEW p \in Nameless, Goto(t, p), UNCHANGED lease, RowsOK'
  PROVE  AgentInv'
<1>1. lease = t /\ RegistryOK'
  BY InvParts, SameRegistry
<1> QED
  BY <1>1, UnderWay

LEMMA DecideKeeps == ASSUME AgentInv, NEW t \in Threads, Decide(t) PROVE AgentInv'
<1>1. RowsOK' /\ RegistryOK' /\ th[t].pc \in UnderLease
  BY InvParts, SameRows, SameRegistry DEF Decide, UnderLease
<1>2. \/ UNCHANGED db /\ Raise(t, "cleanup")
      \/ \E p \in {"onFail", "skip", "execute", "suite"} : Goto(t, p) /\ UNCHANGED lease
  BY DEF Decide
<1>3. {"onFail", "skip", "execute", "suite"} \subseteq Nameless
  BY DEF Nameless, Pcs, UnderLease
<1> QED
  BY <1>1, <1>2, <1>3, Conflicting, Passing DEF Decide

LEMMA StartSuiteKeeps == ASSUME AgentInv, NEW t \in Threads, StartSuite(t) PROVE AgentInv'
<1>1. CASE StartRefused(t)
  BY <1>1, Refusing DEF StartSuite
<1>2. CASE StartAccepted(t, Create) /\ Goto(t, "makeSuite")
  <2>1. RowsOK' /\ UNCHANGED lease
    BY <1>2, NumbersKnown, InvParts, StartRows DEF StartAccepted
  <2>2. th[t].pc \in UnderLease /\ "makeSuite" \in Nameless
    BY Places DEF StartSuite, UnderLease
  <2> QED
    BY <1>2, <2>1, <2>2, Passing DEF StartSuite
<1> QED
  BY <1>1, <1>2 DEF StartSuite

LEMMA MakeSuiteKeeps == ASSUME AgentInv, NEW t \in Threads, MakeSuite(t) PROVE AgentInv'
<1>1. th[t].pc \in UnderLease /\ "linkSuite" \in Nameless
  BY Places DEF MakeSuite, UnderLease
<1>2. CASE suite' = [made |-> TRUE, members |-> Ready] /\ Goto(t, "linkSuite") /\ UNCHANGED lease
  <2>1. Ready \in SUBSET Items
    BY DEF Ready
  <2>2. RowsOK'
    BY <1>2, <2>1, InvParts DEF RowsOK, CancelledIsClosed, MakeSuite
  <2> QED
    BY <1>1, <1>2, <2>2, Passing DEF MakeSuite
<1>3. CASE Raise(t, "onFail") /\ UNCHANGED suite
  BY <1>3, InvParts, SameRegistry, Conflicting DEF MakeSuite, db
<1> QED
  BY <1>2, <1>3 DEF MakeSuite

\* The suite row is linked or unlinked with its steps.
LEMMA LinkRows ==
  ASSUME RowsOK, NEW b \in BOOLEAN, run' = [run EXCEPT !.linked = b],
         NEW s1 \in StepStatuses \ {"running"}, NEW s2 \in StepStatuses \ {"running"},
         \/ steps' = [steps EXCEPT ![Create] = s1]
         \/ steps' = [steps EXCEPT ![Create] = s1, ![Execute] = s2],
         UNCHANGED items, suite' \in [made : BOOLEAN, members : SUBSET Items]
  PROVE  RowsOK'
<1>1. run \in [status : RunStatuses, at : StepNumbers, linked : BOOLEAN]
  BY DEF RowsOK
<1>2. run' \in [status : RunStatuses, at : StepNumbers, linked : BOOLEAN] /\ run'.status = run.status
  BY <1>1
<1>3. steps' \in [StepNumbers -> StepStatuses]
  BY NumbersKnown DEF RowsOK
<1>4. \A k \in StepNumbers : steps'[k] = "running" => steps[k] = "running"
  BY NumbersKnown DEF RowsOK
<1> QED
  BY <1>2, <1>3, <1>4 DEF RowsOK, CancelledIsClosed

LEMMA LinkSuiteKeeps == ASSUME AgentInv, NEW t \in Threads, LinkSuite(t) PROVE AgentInv'
<1>1. th[t].pc \in UnderLease /\ "execute" \in Nameless
  BY Places DEF LinkSuite, UnderLease
<1>2. "succeeded" \in StepStatuses \ {"running"} /\ suite' \in [made : BOOLEAN, members : SUBSET Items]
  BY InvParts DEF StepStatuses, LinkSuite, RowsOK
<1>3. RowsOK'
  BY <1>2, InvParts, LinkRows DEF LinkSuite
<1> QED
  BY <1>1, <1>3, Passing DEF LinkSuite

LEMMA SkipSuiteKeeps == ASSUME AgentInv, NEW t \in Threads, SkipSuite(t) PROVE AgentInv'
<1>1. th[t].pc \in UnderLease /\ "completeUnresolved" \in Nameless
  BY Places DEF SkipSuite, UnderLease
<1>2. "skipped" \in StepStatuses \ {"running"} /\ suite' \in [made : BOOLEAN, members : SUBSET Items]
  BY DEF StepStatuses, SkipSuite, NoSuite
<1>3. RowsOK'
  BY <1>2, InvParts, LinkRows DEF SkipSuite
<1> QED
  BY <1>1, <1>3, Passing DEF SkipSuite

LEMMA StartExecutionKeeps == ASSUME AgentInv, NEW t \in Threads, StartExecution(t) PROVE AgentInv'
<1>1. th[t].pc \in UnderLease /\ "complete" \in Nameless /\ "executing" \in Nameless
  BY Places DEF StartExecution, UnderLease
<1>2. CASE Goto(t, "complete") /\ UNCHANGED <<db, lease>>
  BY <1>1, <1>2, InvParts, SameRows, Passing DEF StartExecution
<1>3. CASE StartRefused(t)
  BY <1>3, Refusing DEF StartExecution
<1>4. CASE StartAccepted(t, Execute) /\ Goto(t, "executing")
  <2>1. RowsOK' /\ UNCHANGED lease
    BY <1>4, NumbersKnown, InvParts, StartRows DEF StartAccepted
  <2> QED
    BY <1>1, <1>4, <2>1, Passing DEF StartExecution
<1> QED
  BY <1>2, <1>3, <1>4 DEF StartExecution

LEMMA ExecutionEndsKeeps == ASSUME AgentInv, NEW t \in Threads, ExecutionEnds(t) PROVE AgentInv'
<1>1. th[t].pc \in UnderLease /\ "complete" \in Nameless /\ RegistryOK'
  BY InvParts, SameRegistry, Places DEF ExecutionEnds, UnderLease
<1>2. CASE steps' = [steps EXCEPT ![Execute] = "succeeded"] /\ Goto(t, "complete") /\ UNCHANGED lease
  BY <1>1, <1>2, InvParts, NumbersKnown, EndedRows, Passing DEF ExecutionEnds
<1>3. CASE steps' = [steps EXCEPT ![Execute] = "failed"] /\ Raise(t, "onFail")
  BY <1>1, <1>3, InvParts, NumbersKnown, EndedRows, Places, Raising DEF ExecutionEnds
<1>4. CASE Raise(t, "onCancel") /\ UNCHANGED steps
  BY <1>1, <1>4, Conflicting DEF ExecutionEnds, db
<1> QED
  BY <1>2, <1>3, <1>4 DEF ExecutionEnds

LEMMA CompleteKeeps == ASSUME AgentInv, NEW t \in Threads, Complete(t) PROVE AgentInv'
<1>1. th[t].pc \in UnderLease /\ RegistryOK'
  BY InvParts, SameRegistry DEF Complete, UnderLease
<1>2. RowsOK'
  <2>1. PICK terminal \in {"succeeded", "succeeded_with_unresolved"} :
          PublishAgentTerminal("running", terminal)
    BY DEF Complete
  <2> QED
    BY <2>1, InvParts, PublishRows
<1>3. CASE Goto(t, "finalize") /\ UNCHANGED lease
  BY <1>1, <1>2, <1>3, Places, Passing DEF Complete
<1>4. CASE Raise(t, "cleanup")
  BY <1>1, <1>2, <1>4, Places, Raising
<1> QED
  BY <1>3, <1>4 DEF Complete

\* Off the lease, or on the way out of it.
LEMMA Leaving ==
  ASSUME AgentInv, NEW t \in Threads, UNCHANGED <<lease, stale, task, asked, spent>>, RowsOK',
         NEW p \in {"finalize", "publishCancelled", "cleanup"}, Goto(t, p)
  PROVE  AgentInv'
<1>1. RegistryOK' /\ LeaseOf(t) /\ p \in Nameless \ UnderLease
  BY InvParts, SameRegistry, LeaseKinds, Places
<1> QED
  BY <1>1, Going

LEMMA OnCancelKeeps == ASSUME AgentInv, NEW t \in Threads, OnCancel(t) PROVE AgentInv'
<1>1. RowsOK'
  BY InvParts, PublishRows DEF OnCancel
<1> QED
  BY <1>1, Leaving DEF OnCancel

LEMMA PublishCancelledKeeps == ASSUME AgentInv, NEW t \in Threads, PublishCancelled(t) PROVE AgentInv'
<1>1. RowsOK'
  BY InvParts, PublishRows DEF PublishCancelled
<1> QED
  BY <1>1, Leaving DEF PublishCancelled

LEMMA PublishFailedKeeps == ASSUME AgentInv, NEW t \in Threads, PublishFailed(t) PROVE AgentInv'
<1>1. RowsOK'
  BY InvParts, PublishRows DEF PublishFailed
<1>2. \E p \in {"finalize", "cleanup"} : Goto(t, p)
  BY DEF PublishFailed
<1> QED
  BY <1>1, <1>2, Leaving DEF PublishFailed

LEMMA OnFailKeeps == ASSUME AgentInv, NEW t \in Threads, OnFail(t) PROVE AgentInv'
<1>1. RowsOK' /\ RegistryOK' /\ LeaseOf(t)
  BY InvParts, SameRows, SameRegistry, LeaseKinds DEF OnFail
<1> DEFINE pc == IF run.status = "cancelling" THEN "finalize"
                 ELSE IF run.status \in {"queued", "running", "awaiting_script_action"}
                 THEN "publishFailed" ELSE "cleanup"
           v == run.status
           x == [th[t] EXCEPT !.seen = v, !.pc = pc]
<1>2. th' = [th EXCEPT ![t] = x]
  BY InvParts DEF OnFail, AgentInv
<1>3. /\ pc \in {"finalize", "publishFailed", "cleanup"} /\ v \in RunStatuses
      /\ pc = "publishFailed" => v \in Promised!Unfinished
  BY InvParts DEF RowsOK, Promised!Unfinished
<1> HIDE DEF pc, v
<1>4. pc \in Pcs /\ pc \notin UnderLease
  BY <1>3 DEF Pcs, UnderLease
<1>5. x \in Memories /\ x.pc = pc /\ x.seen = v
  BY <1>3, <1>4, InvParts DEF Memories
<1>6. StepKnown(x)
  BY <1>3, <1>5 DEF StepKnown
<1> HIDE DEF x
<1> QED
  BY <1>1, <1>2, <1>4, <1>5, <1>6, ThreadMoves

LEMMA FinalizeKeeps == ASSUME AgentInv, NEW t \in Threads, Finalize(t) PROVE AgentInv'
<1>1. RowsOK'
  <2>1. CASE items' = Closed(items) /\ steps' = [steps EXCEPT ![Prepare] = "succeeded"]
    <3>1. Closed(items) \in [Items -> ItemStatuses]
      BY DEF Closed, ItemStatuses
    <3>2. steps' \in [StepNumbers -> StepStatuses]
      BY <2>1, InvParts, NumbersKnown DEF RowsOK, StepStatuses
    <3>3. \A k \in StepNumbers : steps'[k] = "running" => steps[k] = "running"
      BY <2>1, InvParts, NumbersKnown DEF RowsOK
    <3> QED
      BY <2>1, <3>1, <3>2, <3>3, InvParts DEF RowsOK, CancelledIsClosed, Finalize
  <2>2. CASE UNCHANGED <<items, steps>>
    BY <2>2, InvParts, SameRows DEF Finalize, db
  <2> QED
    BY <2>1, <2>2 DEF Finalize
<1>2. \E p \in {"publishCancelled", "cleanup"} : Goto(t, p)
  BY DEF Finalize
<1> QED
  BY <1>1, <1>2, Leaving DEF Finalize

LEMMA CleanupKeeps == ASSUME AgentInv, NEW t \in Threads, Cleanup(t) PROVE AgentInv'
<1>1. RowsOK' /\ RegistryOK' /\ LeaseOf(t)
  BY InvParts, SameRows, TaskKinds, LeaseKinds DEF Cleanup
<1> QED
  BY <1>1, Ending DEF Cleanup

LEMMA RecoverInterruptedKeeps ==
  ASSUME AgentInv, NEW t \in Threads, RecoverInterrupted(t) PROVE AgentInv'
<1>1. RegistryOK'
  BY InvParts, SameRegistry DEF RecoverInterrupted
<1>2. CASE End(t) /\ UNCHANGED <<db, lease>>
  BY <1>1, <1>2, InvParts, SameRows, LeaseKinds, Ending
<1>3. CASE lease = Nobody /\ lease' = t /\ Goto(t, "finalize") /\ UNCHANGED db
  BY <1>1, <1>3, InvParts, SameRows, LeaseKinds, Places, Going
<1> DEFINE d == [i \in Items |-> IF items[i] = "busy" THEN "waiting" ELSE items[i]]
<1>4. CASE Persist(d) /\ End(t) /\ UNCHANGED lease
  <2>1. d \in [Items -> ItemStatuses]
    BY InvParts DEF RowsOK, ItemStatuses
  <2> HIDE DEF d
  <2> QED
    BY <1>1, <1>4, <2>1, InvParts, PersistRows, LeaseKinds, Ending
<1> QED
  BY <1>2, <1>3, <1>4 DEF RecoverInterrupted

LEMMA ApplyActionKeeps == ASSUME AgentInv, NEW t \in Threads, ApplyAction(t) PROVE AgentInv'
<1>1. RegistryOK' /\ th[t].pc \in UnderLease /\ UNCHANGED lease /\ LeaseOf(t)
  BY InvParts, SameRegistry, LeaseKinds DEF ApplyAction, UnderLease
<1>2. CASE Goto(t, "cleanup") /\ UNCHANGED db
  BY <1>1, <1>2, InvParts, SameRows, Places, Going
<1>3. ASSUME NEW i \in Items, Persist([items EXCEPT ![i] = "abandoned"]), Goto(t, "actSettled")
      PROVE  AgentInv'
  <2>1. [items EXCEPT ![i] = "abandoned"] \in [Items -> ItemStatuses] /\ "actSettled" \in UnderLease
    BY InvParts DEF RowsOK, ItemStatuses, UnderLease
  <2> QED
    BY <1>1, <1>3, <2>1, Committing
<1>4. ASSUME NEW i \in Items, Persist([items EXCEPT ![i] = "busy"]),
             th' = [th EXCEPT ![t].pc = "actWork", ![t].item = i]
      PROVE  AgentInv'
  <2>1. [items EXCEPT ![i] = "busy"] \in [Items -> ItemStatuses]
    BY InvParts DEF RowsOK, ItemStatuses
  <2>2. RowsOK'
    BY <1>4, <2>1, InvParts, PersistRows
  <2> DEFINE x == [th[t] EXCEPT !.pc = "actWork", !.item = i]
  <2>3. th' = [th EXCEPT ![t] = x]
    BY <1>4, InvParts DEF AgentInv
  <2>4. "actWork" \in Pcs
    BY DEF Pcs, UnderLease
  <2>5. x \in Memories /\ x.pc = "actWork"
    BY <2>4, InvParts DEF Memories
  <2>6. StepKnown(x)
    BY <2>5 DEF StepKnown
  <2> HIDE DEF x
  <2>7. lease' = t
    BY <1>1, InvParts
  <2> QED
    BY <1>1, <2>2, <2>3, <2>5, <2>6, <2>7, ThreadMoves
<1> QED
  BY <1>2, <1>3, <1>4 DEF ApplyAction

\* The claim of the suite step.
LEMMA ClaimRows ==
  ASSUME RowsOK, run' = Claimed \/ UNCHANGED run, UNCHANGED <<steps, items, suite>>
  PROVE  RowsOK'
<1>1. CASE run' = Claimed
  <2>1. run \in [status : RunStatuses, at : StepNumbers, linked : BOOLEAN] /\ "running" \in RunStatuses
    BY StatusesKnown DEF RowsOK
  <2>2. run' \in [status : RunStatuses, at : StepNumbers, linked : BOOLEAN] /\ run'.status = "running"
    BY <1>1, <2>1, NumbersKnown DEF Claimed
  <2> QED
    BY <2>2 DEF RowsOK, CancelledIsClosed
<1>2. CASE UNCHANGED run
  BY <1>2 DEF RowsOK, CancelledIsClosed
<1> QED
  BY <1>1, <1>2

LEMMA ActionSettledKeeps == ASSUME AgentInv, NEW t \in Threads, ActionSettled(t) PROVE AgentInv'
<1>1. RowsOK' /\ RegistryOK'
  BY InvParts, ClaimRows, SameRegistry DEF ActionSettled
<1>2. CASE Spawn(t, th[t].proc, "continue", "register") /\ Unlock(t)
  <2>1. th[t].proc \in Procs /\ "continue" \in Jobs /\ LeaseOf(t)
    BY <1>2, InvParts, LeaseKinds DEF Jobs, Workflows
  <2> QED
    BY <1>1, <1>2, <2>1, Places, Spawning
<1>3. CASE Raise(t, "cleanup")
  BY <1>1, <1>3, Places, Raising
<1> QED
  BY <1>2, <1>3 DEF ActionSettled

-----------------------------------------------------------------------------
(* Requests and everybody else *)

LEMMA PollKeeps ==
  ASSUME AgentInv, NEW t \in Threads, NEW p \in Procs, Poll(t, p) PROVE AgentInv'
<1>1. RowsOK' /\ RegistryOK' /\ LeaseOf(t)
  BY InvParts, ClaimRows, SameRegistry, LeaseKinds DEF Poll
<1>2. CASE Spawn(t, p, "recover", "recover")
  <2>1. "recover" \in Jobs
    BY DEF Jobs
  <2> QED
    BY <1>1, <1>2, <2>1, Places, Spawning
<1>3. CASE Spawn(t, p, "continue", "register")
  <2>1. "continue" \in Jobs
    BY DEF Jobs, Workflows
  <2> QED
    BY <1>1, <1>3, <2>1, Places, Spawning
<1> QED
  BY <1>2, <1>3 DEF Poll

LEMMA SpendKinds ==
  ASSUME RegistryOK, Spend \/ SpendOn("resumes", MaxResumes) \/ SpendOn("crashes", MaxCrashes)
  PROVE  spent' \in [events : 0..MaxEvents, resumes : 0..MaxResumes, crashes : 0..MaxCrashes]
<1>1. /\ spent \in [events : 0..MaxEvents, resumes : 0..MaxResumes, crashes : 0..MaxCrashes]
      /\ MaxEvents \in Nat /\ MaxResumes \in Nat /\ MaxCrashes \in Nat
  BY AgentAssumption DEF RegistryOK
<1>2. CASE Spend
  BY <1>1, <1>2 DEF Spend
<1>3. CASE SpendOn("resumes", MaxResumes)
  <2>1. /\ spent.events < MaxEvents /\ spent.resumes < MaxResumes
        /\ spent' = [spent EXCEPT !.events = @ + 1, !.resumes = @ + 1]
    BY <1>3, <1>1 DEF SpendOn
  <2> DEFINE m == spent.events + 1
             k == spent.resumes + 1
  <2>2. m \in 0..MaxEvents /\ k \in 0..MaxResumes
    BY <1>1, <2>1
  <2>3. spent' = [spent EXCEPT !.events = m, !.resumes = k]
    BY <2>1
  <2> HIDE DEF m, k
  <2> QED
    BY <1>1, <2>2, <2>3
<1>4. CASE SpendOn("crashes", MaxCrashes)
  <2>1. /\ spent.events < MaxEvents /\ spent.crashes < MaxCrashes
        /\ spent' = [spent EXCEPT !.events = @ + 1, !.crashes = @ + 1]
    BY <1>4, <1>1 DEF SpendOn
  <2> DEFINE m == spent.events + 1
             k == spent.crashes + 1
  <2>2. m \in 0..MaxEvents /\ k \in 0..MaxCrashes
    BY <1>1, <2>1
  <2>3. spent' = [spent EXCEPT !.events = m, !.crashes = k]
    BY <2>1
  <2> HIDE DEF m, k
  <2> QED
    BY <1>1, <2>2, <2>3
<1> QED
  BY <1>2, <1>3, <1>4

LEMMA RequestActionKeeps ==
  ASSUME AgentInv, NEW t \in Threads, NEW p \in Procs, RequestAction(t, p) PROVE AgentInv'
<1>1. RowsOK' /\ LeaseOf(t) /\ lease' = t
  BY InvParts, SameRows, LeaseKinds DEF RequestAction
<1>2. RegistryOK'
  <2>1. spent' \in [events : 0..MaxEvents, resumes : 0..MaxResumes, crashes : 0..MaxCrashes]
    BY InvParts, SpendKinds DEF RequestAction
  <2> QED
    BY <2>1, InvParts DEF RegistryOK, RequestAction
<1>3. "action" \in Jobs /\ "actReconcile" \in Nameless
  BY Places DEF Jobs, UnderLease
<1> QED
  BY <1>1, <1>2, <1>3, Spawning DEF RequestAction

\* A cancellation is asked for.
LEMMA AskRows ==
  ASSUME RowsOK, run' = [run EXCEPT !.status = "cancelling"], UNCHANGED <<steps, items, suite>>
  PROVE  RowsOK'
<1>1. run \in [status : RunStatuses, at : StepNumbers, linked : BOOLEAN] /\ "cancelling" \in RunStatuses
  BY StatusesKnown DEF RowsOK
<1>2. run' \in [status : RunStatuses, at : StepNumbers, linked : BOOLEAN] /\ run'.status = "cancelling"
  BY <1>1
<1> QED
  BY <1>2 DEF RowsOK, CancelledIsClosed

LEMMA CancelAwaitingKeeps ==
  ASSUME AgentInv, NEW t \in Threads, NEW p \in Procs, CancelAwaiting(t, p) PROVE AgentInv'
<1>1. RowsOK' /\ LeaseOf(t)
  BY InvParts, AskRows, LeaseKinds DEF CancelAwaiting
<1>2. RegistryOK'
  BY InvParts DEF RegistryOK, CancelAwaiting
<1>3. "cancel" \in Jobs
  BY DEF Jobs
<1> QED
  BY <1>1, <1>2, <1>3, Places, Spawning DEF CancelAwaiting

LEMMA ResumeRunKeeps ==
  ASSUME AgentInv, NEW t \in Threads, NEW p \in Procs, NEW s \in StepNumbers, ResumeRun(t, p, s)
  PROVE  AgentInv'
<1>1. RowsOK'
  <2>1. run \in [status : RunStatuses, at : StepNumbers, linked : BOOLEAN] /\ "queued" \in RunStatuses
    BY InvParts, StatusesKnown DEF RowsOK
  <2>2. run' = [run EXCEPT !.status = "queued", !.at = s]
    BY DEF ResumeRun
  <2>3. run' \in [status : RunStatuses, at : StepNumbers, linked : BOOLEAN] /\ run'.status = "queued"
    BY <2>1, <2>2
  <2>4. steps' \in [StepNumbers -> StepStatuses]
    BY InvParts DEF RowsOK, ResumeRun, StepStatuses
  <2>5. items' \in [Items -> ItemStatuses]
    BY InvParts DEF RowsOK, ResumeRun, NoItems, ItemStatuses
  <2> QED
    BY <2>3, <2>4, <2>5, InvParts DEF RowsOK, CancelledIsClosed, ResumeRun
<1>2. RegistryOK'
  <2>1. spent' \in [events : 0..MaxEvents, resumes : 0..MaxResumes, crashes : 0..MaxCrashes]
    BY InvParts, SpendKinds DEF ResumeRun
  <2> QED
    BY <2>1, InvParts DEF RegistryOK, ResumeRun
<1> DEFINE x == [Idle EXCEPT !.pc = "claimResume", !.job = "resume", !.proc = p, !.step = s]
<1>3. th' = [th EXCEPT ![t] = x]
  BY DEF ResumeRun
<1>4. "claimResume" \in Pcs /\ "resume" \in Jobs /\ s \in 0..Execute
  BY DEF Pcs, Jobs, Workflows, StepNumbers, Execute
<1>5. x \in Memories /\ x.pc = "claimResume" /\ x.step = s
  BY IdleKnown, <1>4 DEF Memories, Jobs
<1>6. StepKnown(x) /\ x.pc \notin UnderLease /\ LeaseOf(t)
  BY <1>5, LeaseKinds DEF StepKnown, UnderLease, ResumeRun
<1> HIDE DEF x
<1> QED
  BY <1>1, <1>2, <1>3, <1>5, <1>6, ThreadMoves

\* Nobody's thread moves; the lease stays, or comes from or goes to an outside writer.
LEMMA NoThreadMoves ==
  ASSUME AgentInv, UNCHANGED th,
         UNCHANGED lease \/ (lease \in {Nobody, Outside} /\ lease' \in {Nobody, Outside}),
         RowsOK', RegistryOK'
  PROVE  AgentInv'
<1>1. \A t \in Threads : th[t].pc \in UnderLease => lease' = t
  BY AgentAssumption DEF AgentInv, LeaseCovers
<1> QED
  BY <1>1 DEF AgentInv, LeaseCovers, StepKnown

LEMMA RequestCancelKeeps == ASSUME AgentInv, NEW p \in Procs, RequestCancel(p) PROVE AgentInv'
<1>1. RowsOK' /\ RegistryOK'
  BY AskRows DEF AgentInv, RegistryOK, RequestCancel
<1> QED
  BY <1>1, NoThreadMoves DEF RequestCancel

LEMMA SetFlagKeeps == ASSUME AgentInv, NEW p \in Procs, SetFlag(p) PROVE AgentInv'
<1>1. RowsOK' /\ RegistryOK'
  BY SameRows DEF AgentInv, RegistryOK, SetFlag
<1> QED
  BY <1>1, NoThreadMoves DEF SetFlag

LEMMA ReconcileOnReadKeeps == ASSUME AgentInv, ReconcileOnRead PROVE AgentInv'
<1>1. RowsOK' /\ RegistryOK'
  BY AdoptedTyped, PersistRows DEF AgentInv, RegistryOK, ReconcileOnRead
<1> QED
  BY <1>1, NoThreadMoves DEF ReconcileOnRead

LEMMA OutsideKeeps ==
  ASSUME AgentInv, OutsideTakes \/ OutsideLeaves \/ \E i \in Items : OutsideWrites(i)
  PROVE  AgentInv'
<1>1. RowsOK'
  BY SameRows DEF AgentInv, OutsideTakes, OutsideLeaves, OutsideWrites
<1>2. RegistryOK'
  <2>1. CASE OutsideTakes
    <3>1. spent' \in [events : 0..MaxEvents, resumes : 0..MaxResumes, crashes : 0..MaxCrashes]
      BY <2>1, SpendKinds DEF AgentInv, OutsideTakes
    <3> QED
      BY <2>1, <3>1 DEF AgentInv, RegistryOK, OutsideTakes
  <2>2. CASE OutsideLeaves
    BY <2>2 DEF AgentInv, RegistryOK, OutsideLeaves
  <2>3. CASE \E i \in Items : OutsideWrites(i)
    BY <2>3 DEF AgentInv, RegistryOK, OutsideWrites
  <2> QED
    BY <2>1, <2>2, <2>3
<1> QED
  BY <1>1, <1>2, NoThreadMoves DEF OutsideTakes, OutsideLeaves, OutsideWrites

(* A process dies with its threads, its registry and the leases they hold. *)
LEMMA ProcessDiesKeeps == ASSUME AgentInv, NEW p \in Procs, ProcessDies(p) PROVE AgentInv'
<1>1. RowsOK'
  BY SameRows DEF AgentInv, ProcessDies
<1>2. RegistryOK'
  <2>1. spent' \in [events : 0..MaxEvents, resumes : 0..MaxResumes, crashes : 0..MaxCrashes]
    BY SpendKinds DEF AgentInv, ProcessDies
  <2>2. NoTask \in [owner : Threads \cup {Nobody}, flag : BOOLEAN]
    BY DEF NoTask
  <2> QED
    BY <2>1, <2>2 DEF AgentInv, RegistryOK, ProcessDies
<1>3. /\ th' \in [Threads -> Memories]
      /\ \A t \in Threads : th'[t] = Idle \/ (th'[t] = th[t] /\ th[t].proc # p)
  BY IdleKnown DEF AgentInv, ProcessDies
<1>4. lease' \in Threads \cup {Nobody, Outside}
  BY DEF AgentInv, ProcessDies
<1>5. \A t \in Threads : StepKnown(th'[t])
  BY <1>3, IdleKnown DEF AgentInv, StepKnown
<1>6. \A t \in Threads : th'[t].pc \in UnderLease => lease' = t
  <2> SUFFICES ASSUME NEW t \in Threads, th'[t].pc \in UnderLease PROVE lease' = t
    OBVIOUS
  <2>1. th'[t] # Idle
    BY IdleKnown DEF UnderLease
  <2>2. lease = t /\ th[t].proc # p
    BY <1>3, <2>1 DEF AgentInv, LeaseCovers
  <2> QED
    BY <2>2 DEF ProcessDies
<1>7. (\A t \in Threads : StepKnown(th[t]))'
  BY <1>5 DEF StepKnown
<1> QED
  BY <1>1, <1>2, <1>3, <1>4, <1>6, <1>7 DEF AgentInv, LeaseCovers

-----------------------------------------------------------------------------
(* The run *)

LEMMA InitKeeps == ASSUME AgentInit PROVE AgentInv
<1>1. RowsOK
  <2>1. /\ run \in [status : RunStatuses, at : StepNumbers, linked : BOOLEAN] /\ run.status # "cancelled"
    BY StatusesKnown, NumbersKnown DEF AgentInit
  <2>2. /\ steps \in [StepNumbers -> StepStatuses] /\ items \in [Items -> ItemStatuses]
        /\ suite \in [made : BOOLEAN, members : SUBSET Items]
    BY DEF AgentInit, StepStatuses, ItemStatuses, NoItems, NoSuite
  <2> QED
    BY <2>1, <2>2 DEF RowsOK, CancelledIsClosed
<1>2. RegistryOK
  BY AgentAssumption DEF AgentInit, RegistryOK, NoTask
<1>3. PICK t \in Threads, p \in Procs :
        th = [u \in Threads |->
                IF u = t THEN [Idle EXCEPT !.pc = "register", !.job = "flow", !.proc = p] ELSE Idle]
  BY DEF AgentInit
<1> DEFINE x == [Idle EXCEPT !.pc = "register", !.job = "flow", !.proc = p]
<1>4. "register" \in Pcs /\ "register" \notin UnderLease /\ "idle" \notin UnderLease
      /\ "flow" \in Workflows
  BY DEF Pcs, UnderLease, Workflows
<1>5. x \in Memories /\ x.pc = "register"
  BY <1>4, IdleKnown DEF Memories
<1> HIDE DEF x
<1>6. \A u \in Threads : th[u] = x \/ th[u] = Idle
  BY <1>3 DEF x
<1>7. th \in [Threads -> Memories]
  BY <1>3, <1>5, IdleKnown DEF x
<1>8. \A u \in Threads : th[u].pc \in {"register", "idle"}
  BY <1>5, <1>6, IdleKnown
<1>9. (\A u \in Threads : StepKnown(th[u])) /\ LeaseCovers
  BY <1>4, <1>8 DEF StepKnown, LeaseCovers
<1> QED
  BY <1>1, <1>2, <1>7, <1>9 DEF AgentInv, AgentInit

LEMMA StepKeeps == ASSUME AgentInv, NEW t \in Threads, Step(t) PROVE AgentInv'
<1>1. CASE Register(t) \/ ClaimStart(t) \/ ClaimResume(t) \/ Replace(t) \/ StartStep(t) \/ Work(t)
  BY <1>1, RegisterKeeps, ClaimStartKeeps, ClaimResumeKeeps, ReplaceKeeps, StartStepKeeps, WorkKeeps
<1>2. CASE PlanBarrier(t) \/ Initialize(t) \/ PrepareItem(t) \/ ItemEnds(t) \/ Prepared(t)
           \/ Load(t) \/ Barrier(t) \/ Reconcile(t) \/ Decide(t)
  BY <1>2, PlanBarrierKeeps, InitializeKeeps, PrepareItemKeeps, ItemEndsKeeps, PreparedKeeps,
     LoadKeeps, BarrierKeeps, ReconcileKeeps, DecideKeeps
<1>3. CASE StartSuite(t) \/ MakeSuite(t) \/ LinkSuite(t) \/ StartExecution(t) \/ ExecutionEnds(t)
           \/ SkipSuite(t) \/ Complete(t)
  BY <1>3, StartSuiteKeeps, MakeSuiteKeeps, LinkSuiteKeeps, StartExecutionKeeps,
     ExecutionEndsKeeps, SkipSuiteKeeps, CompleteKeeps
<1>4. CASE OnCancel(t) \/ OnFail(t) \/ PublishFailed(t) \/ Finalize(t) \/ PublishCancelled(t)
           \/ Cleanup(t) \/ RecoverInterrupted(t) \/ ApplyAction(t) \/ ActionSettled(t)
  BY <1>4, OnCancelKeeps, OnFailKeeps, PublishFailedKeeps, FinalizeKeeps, PublishCancelledKeeps,
     CleanupKeeps, RecoverInterruptedKeeps, ApplyActionKeeps, ActionSettledKeeps
<1> QED
  BY <1>1, <1>2, <1>3, <1>4 DEF Step

LEMMA NextKeeps == ASSUME AgentInv, [AgentNext]_vars PROVE AgentInv'
<1>1. CASE \E t \in Threads : Step(t)
  BY <1>1, StepKeeps
<1>2. CASE \E t \in Threads, p \in Procs : Request(t, p)
  <2>1. PICK t \in Threads, p \in Procs : Request(t, p)
    BY <1>2
  <2>2. CASE \E s \in StepNumbers : ResumeRun(t, p, s)
    BY <2>2, ResumeRunKeeps
  <2> QED
    BY <2>1, <2>2, PollKeeps, RequestActionKeeps, CancelAwaitingKeeps DEF Request
<1>3. CASE \E p \in Procs : RequestCancel(p) \/ SetFlag(p) \/ ProcessDies(p)
  BY <1>3, RequestCancelKeeps, SetFlagKeeps, ProcessDiesKeeps
<1>4. CASE ReconcileOnRead \/ OutsideTakes \/ OutsideLeaves \/ \E i \in Items : OutsideWrites(i)
  BY <1>4, ReconcileOnReadKeeps, OutsideKeeps
<1>5. CASE UNCHANGED vars
  BY <1>5 DEF vars, AgentInv, RowsOK, CancelledIsClosed, RegistryOK, LeaseCovers, StepKnown
<1> QED
  BY <1>1, <1>2, <1>3, <1>4, <1>5 DEF AgentNext

(* The inductive invariant, of every behaviour: any number of scripts,       *)
(* threads, processes, crashes, resumes and cancellations.                   *)
THEOREM AgentInvariant == AgentSpec => []AgentInv
BY InitKeeps, NextKeeps, PTL DEF AgentSpec

(* The run row, its step rows, the scripts, the task registries and what the  *)
(* threads of src/app.py remember keep their types.                          *)
THEOREM AgentTypeSafety == AgentSpec => []AgentTypeOK
<1>1. AgentInv => AgentTypeOK
  BY DEF AgentInv, RowsOK, RegistryOK, AgentTypeOK
<1> QED
  BY <1>1, AgentInvariant, PTL

(* finish_with_script_preparation_barrier and the actions of people: a thread *)
(* that prepares, reconciles, collects or executes scripts holds the module's *)
(* lease, so no two of them ever do and no other writer of the module does,   *)
(* whichever threads die, resume or cancel.                                   *)
THEOREM LeaseAlwaysCovers == AgentSpec => []LeaseCovers
<1>1. AgentInv => LeaseCovers
  BY DEF AgentInv
<1> QED
  BY <1>1, AgentInvariant, PTL

(* publish_agent_terminal closes the step rows with the run: no step of a     *)
(* cancelled run is running, whatever a late worker still writes.             *)
THEOREM CancelledRowsClosed == AgentSpec => []CancelledIsClosed
<1>1. AgentInv => CancelledIsClosed
  BY DEF AgentInv, RowsOK
<1> QED
  BY <1>1, AgentInvariant, PTL

-----------------------------------------------------------------------------
(* The status of the run, as AgentRunPromise has it *)

StatusGoes == UNCHANGED run.status \/ Promised!Move

LEMMA PublishGoes ==
  ASSUME RowsOK, NEW expected, NEW terminal, PublishAgentTerminal(expected, terminal),
         <<expected, terminal>> \in Promised!Moves
  PROVE  StatusGoes
<1>1. CASE run.status = expected
  <2>1. run'.status = terminal
    BY <1>1 DEF PublishAgentTerminal, RowsOK
  <2> QED
    BY <1>1, <2>1 DEF StatusGoes, Promised!Move
<1>2. CASE run.status # expected
  BY <1>2 DEF PublishAgentTerminal, StatusGoes
<1> QED
  BY <1>1, <1>2

LEMMA MovesKnown ==
  /\ <<"cancelling", "cancelled">> \in Promised!Moves
  /\ \A u \in Promised!Unfinished :
       <<u, "failed">> \in Promised!Moves /\ <<u, "cancelling">> \in Promised!Moves
  /\ <<"queued", "running">> \in Promised!Moves
  /\ <<"awaiting_script_action", "running">> \in Promised!Moves
  /\ <<"running", "awaiting_script_action">> \in Promised!Moves
  /\ <<"running", "succeeded">> \in Promised!Moves
  /\ <<"running", "succeeded_with_unresolved">> \in Promised!Moves
  /\ <<"failed", "queued">> \in Promised!Moves /\ <<"cancelled", "queued">> \in Promised!Moves
BY DEF Promised!Moves, Promised!Unfinished

LEMMA PersistGoes == ASSUME RowsOK, NEW d, Persist(d) PROVE StatusGoes
<1>1. CASE UNCHANGED run
  BY <1>1 DEF StatusGoes
<1>2. CASE ~Terminal(d)
  <2>1. run.status \in {"running", "awaiting_script_action"}
    BY <1>2 DEF Persist, PersistCancelled, PersistConflict
  <2>2. run'.status \in {"running", "awaiting_script_action"}
    BY <1>2 DEF Persist, RowsOK
  <2> QED
    BY <2>1, <2>2, MovesKnown DEF StatusGoes, Promised!Move
<1> QED
  BY <1>1, <1>2 DEF Persist

\* A write of the run row to a given status.
LEMMA WriteGoes ==
  ASSUME RowsOK, NEW v, run'.status = v, run.status = v \/ <<run.status, v>> \in Promised!Moves
  PROVE  StatusGoes
BY DEF StatusGoes, Promised!Move

LEMMA AcceptedGoes == ASSUME RowsOK, NEW t, NEW s, StartAccepted(t, s) PROVE StatusGoes
<1>1. run'.status = run.status
  BY DEF StartAccepted, RowsOK
<1> QED
  BY <1>1 DEF StatusGoes

LEMMA ClaimGoes == ASSUME RowsOK, Claimable, run' = Claimed PROVE StatusGoes
<1>1. run'.status = "running"
  BY DEF Claimed, RowsOK
<1> QED
  BY <1>1, WriteGoes, MovesKnown DEF Claimable

LEMMA StepGoes == ASSUME AgentInv, NEW t \in Threads, Step(t) PROVE StatusGoes
<1>0. RowsOK
  BY DEF AgentInv
<1>1. CASE UNCHANGED run
  BY <1>1 DEF StatusGoes
<1>2. CASE ClaimStart(t)
  <2>1. CASE run.status = "queued"
    <3>1. run'.status = "running"
      BY <1>0, <1>2, <2>1 DEF ClaimStart, RowsOK
    <3> QED
      BY <1>0, <2>1, <3>1, WriteGoes, MovesKnown
  <2>2. CASE PublishAgentTerminal("cancelling", "cancelled")
    BY <1>0, <2>2, PublishGoes, MovesKnown
  <2> QED
    BY <1>2, <2>1, <2>2 DEF ClaimStart
<1>3. CASE ClaimResume(t)
  <2>1. CASE run.status = "queued"
    <3>1. run'.status = "running"
      BY <1>0, <1>3, <2>1 DEF ClaimResume, RowsOK
    <3> QED
      BY <1>0, <2>1, <3>1, WriteGoes, MovesKnown
  <2> QED
    BY <1>1, <1>3, <2>1 DEF ClaimResume
<1>4. CASE StartStep(t) \/ StartSuite(t) \/ StartExecution(t)
  <2>1. UNCHANGED run \/ \E s \in {th[t].step, Create, Execute} : StartAccepted(t, s)
    BY <1>4 DEF StartStep, StartSuite, StartExecution, StartRefused, db
  <2> QED
    BY <1>0, <1>1, <2>1, AcceptedGoes
<1>5. CASE Initialize(t) \/ PrepareItem(t) \/ ItemEnds(t) \/ Prepared(t) \/ Reconcile(t)
           \/ RecoverInterrupted(t) \/ ApplyAction(t)
  <2>1. UNCHANGED run \/ \E d : Persist(d)
    BY <1>5 DEF Initialize, PrepareItem, ItemEnds, Prepared, Reconcile, RecoverInterrupted,
                ApplyAction, Interrupt, db
  <2> QED
    BY <1>0, <1>1, <2>1, PersistGoes
<1>6. CASE LinkSuite(t) \/ SkipSuite(t)
  <2>1. run'.status = run.status
    BY <1>0, <1>6 DEF LinkSuite, SkipSuite, RowsOK
  <2> QED
    BY <2>1 DEF StatusGoes
<1>7. CASE Complete(t)
  <2>1. PICK terminal \in {"succeeded", "succeeded_with_unresolved"} :
          PublishAgentTerminal("running", terminal)
    BY <1>7 DEF Complete
  <2> QED
    BY <1>0, <2>1, PublishGoes, MovesKnown
<1>8. CASE OnCancel(t) \/ PublishCancelled(t)
  BY <1>0, <1>8, PublishGoes, MovesKnown DEF OnCancel, PublishCancelled
<1>9. CASE PublishFailed(t)
  <2>1. th[t].seen \in Promised!Unfinished
    BY <1>9 DEF AgentInv, StepKnown, PublishFailed
  <2>2. <<th[t].seen, "failed">> \in Promised!Moves
    BY <2>1, MovesKnown
  <2> QED
    BY <1>0, <1>9, <2>2, PublishGoes DEF PublishFailed
<1>10. CASE ActionSettled(t)
  <2>1. UNCHANGED run \/ (Claimable /\ run' = Claimed)
    BY <1>10 DEF ActionSettled
  <2> QED
    BY <1>0, <1>1, <2>1, ClaimGoes
<1>11. CASE Register(t) \/ Replace(t) \/ Work(t) \/ PlanBarrier(t) \/ Load(t) \/ Barrier(t) \/ Decide(t)
            \/ MakeSuite(t) \/ ExecutionEnds(t) \/ OnFail(t) \/ Finalize(t) \/ Cleanup(t)
  BY <1>1, <1>11 DEF Register, Replace, Work, PlanBarrier, Load, Barrier, Decide, MakeSuite,
                     ExecutionEnds, OnFail, Finalize, Cleanup, db
<1> QED
  BY <1>2, <1>3, <1>4, <1>5, <1>6, <1>7, <1>8, <1>9, <1>10, <1>11 DEF Step

LEMMA NextGoes == ASSUME AgentInv, [AgentNext]_vars PROVE [Promised!Move]_(run.status)
<1>0. RowsOK
  BY DEF AgentInv
<1> SUFFICES StatusGoes
  BY DEF StatusGoes
<1>1. CASE \E t \in Threads : Step(t)
  BY <1>1, StepGoes
<1>2. CASE UNCHANGED run
  BY <1>2 DEF StatusGoes
<1>3. CASE \E t \in Threads, p \in Procs : Request(t, p)
  <2>1. PICK t \in Threads, p \in Procs : Request(t, p)
    BY <1>3
  <2>2. CASE Poll(t, p)
    <3>1. UNCHANGED run \/ (Claimable /\ run' = Claimed)
      BY <2>2 DEF Poll
    <3> QED
      BY <1>0, <1>2, <3>1, ClaimGoes
  <2>3. CASE RequestAction(t, p)
    BY <1>2, <2>3 DEF RequestAction, db
  <2>4. CASE CancelAwaiting(t, p)
    <3>1. run.status \in Promised!Unfinished /\ run'.status = "cancelling"
      BY <1>0, <2>4 DEF CancelAwaiting, RowsOK, Promised!Unfinished
    <3> QED
      BY <1>0, <3>1, WriteGoes, MovesKnown
  <2>5. CASE \E s \in StepNumbers : ResumeRun(t, p, s)
    <3>1. run.status \in {"failed", "cancelled"} /\ run'.status = "queued"
      BY <1>0, <2>5 DEF ResumeRun, RowsOK
    <3> QED
      BY <1>0, <3>1, WriteGoes, MovesKnown
  <2> QED
    BY <2>1, <2>2, <2>3, <2>4, <2>5 DEF Request
<1>4. CASE \E p \in Procs : RequestCancel(p) \/ SetFlag(p) \/ ProcessDies(p)
  <2>1. CASE \E p \in Procs : RequestCancel(p)
    <3>1. run.status \in Promised!Unfinished /\ run'.status = "cancelling"
      BY <1>0, <2>1 DEF RequestCancel, RowsOK, Promised!Unfinished
    <3> QED
      BY <1>0, <3>1, WriteGoes, MovesKnown
  <2> QED
    BY <1>2, <1>4, <2>1 DEF SetFlag, ProcessDies, db
<1>5. CASE ReconcileOnRead
  BY <1>0, <1>5, PersistGoes DEF ReconcileOnRead
<1>6. CASE OutsideTakes \/ OutsideLeaves \/ \E i \in Items : OutsideWrites(i)
  BY <1>2, <1>6 DEF OutsideTakes, OutsideLeaves, OutsideWrites, db
<1>7. CASE UNCHANGED vars
  BY <1>2, <1>7 DEF vars
<1> QED
  BY <1>1, <1>3, <1>4, <1>5, <1>6, <1>7 DEF AgentNext

(* What clients may rely on however often a run is resumed: a success is      *)
(* final, a cancellation asked for ends as cancelled (never as a failure or a *)
(* success, though workers still write), and only a failed or cancelled run   *)
(* is queued again.                                                           *)
THEOREM StatusOnlyMoves == AgentSpec => Promised!StatusMoves
<1>1. AgentInv /\ [AgentNext]_vars => [Promised!Move]_(run.status)
  BY NextGoes
<1> QED
  BY <1>1, AgentInvariant, PTL DEF AgentSpec, Promised!StatusMoves
=============================================================================
