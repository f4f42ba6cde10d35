---------------------------- MODULE PreparationItem ----------------------------
(***************************************************************************)
(* The life of ONE script inside a preparation run: the state machine of   *)
(* ScriptPreparationService                                                *)
(*                                                                         *)
(*    generate -> execute -> (repair -> execute) -> human review           *)
(*                                                                         *)
(* with its history of stages, the human actions, the revisions of the     *)
(* script file, and what a worker that died in the middle leaves behind.   *)
(*                                                                         *)
(* item and history are the persisted document: every action is one call   *)
(* of _persist, so a crash may fall between any two.  call is the memory   *)
(* of the thread that works on the item; _await_human persists its first   *)
(* step twice, which is one step here.  Who may run these calls, and what  *)
(* happens when two threads do, is the subject of PreparationWorkers.      *)
(***************************************************************************)
EXTENDS Integers, Sequences

CONSTANTS
  MaxRev,     \* bound: revisions the script file ever gets
  MaxStages,  \* bound: no human action is accepted on a longer history
  MaxCrashes  \* bound: threads that die

ASSUME BoundsAssumption == MaxRev \in Nat /\ MaxStages \in Nat /\ MaxCrashes \in Nat

VARIABLES
  item,     \* status, included_in_suite, current_revision_id (0: no script),
            \* and the revision its plan snapshot was made with
  history,  \* sequence of stages
  file,     \* revision of the script file now (0: no file)
  last,     \* newest revision ever recorded
  call,     \* pc, trigger of the next execution, automatic repair still allowed
  crashes

vars == <<item, history, file, last, call, crashes>>

-----------------------------------------------------------------------------
Busy == {"generating", "executing", "repairing", "analyzing"}
Terminal == {"ready", "abandoned"}
ItemStatuses == Busy \cup Terminal \cup {"queued", "awaiting_human"}
Open == {"running", "pending"}

Types == {"generate", "regenerate", "execute", "repair", "rerepair", "human_review",
          "manual_edit", "abandon", "blocked", "external_version_adopted",
          "recovered_external_version", "cancelled"}
Triggers == {"automatic", "human_regenerate", "human_execute", "human_repair", "human_edit",
             "human_abandon", "manual_edit_execute", "automatic_repair",
             "post_repair_verification", "automatic_analysis", "environment_policy",
             "external_change", "worker_recovery", "run_cancelled"}
StageStatuses == {"running", "pending"} \cup {"succeeded", "failed", "blocked", "resolved", "superseded"}

Stage(type, trigger, status) ==
  [type |-> type, trigger |-> trigger, status |-> status, input |-> item.rev]

Newest == history[Len(history)]

\* The status a stage of this type puts the item in; others leave it alone.
StatusOf(type) ==
  CASE type \in {"generate", "regenerate"} -> "generating"
    [] type = "execute" -> "executing"
    [] type \in {"repair", "rerepair"} -> "repairing"
    [] type = "human_review" -> "analyzing"
    [] type \in {"manual_edit", "abandon"} -> "awaiting_human"
    [] OTHER -> item.status

\* history with every stage in state from closed as to.
Closed(h, type, from, to) ==
  [k \in DOMAIN h |-> IF h[k].type \in type /\ h[k].status \in from
                      THEN [h[k] EXCEPT !.status = to] ELSE h[k]]

(* _begin_stage *)
Begin(h, type, trigger) ==
  /\ history' = Append(h, Stage(type, trigger, "running"))
  /\ item' = [item EXCEPT !.status = StatusOf(type)]

\* Mutant of Finish: the first stage is closed in place of the newest.
FinishFirst(status) == history' = [history EXCEPT ![1].status = status]

(* _finish_stage: the stage a call began is the newest one. *)
Finish(status) == history' = [history EXCEPT ![Len(history)].status = status]

Goto(pc) == call' = [call EXCEPT !.pc = pc]

-----------------------------------------------------------------------------
(* What may be started on an item nobody works on. *)
Resting == call.pc = "rest"

(* run and resume *)
Generate ==
  /\ Resting /\ item.status = "queued"
  /\ Begin(history, "generate", "automatic")
  /\ call' = [pc |-> "work", trigger |-> "automatic", auto |-> TRUE]
  /\ UNCHANGED <<file, last, crashes>>

\* Mutant of Resolved: the review stays pending while the client's action runs.
ResolvedNever(h) == h

(* _resolve_pending_human_stage *)
Resolved(h) == Closed(h, {"human_review"}, {"pending"}, "resolved")

(* apply_action: a busy or queued item refuses. *)
Acts ==
  /\ Resting
  /\ item.status \in {"awaiting_human", "abandoned", "ready"}
  /\ Len(history) < MaxStages                              \* bound

Regenerate ==
  /\ Acts
  /\ history' = Append(Resolved(history), Stage("regenerate", "human_regenerate", "running"))
  /\ item' = [item EXCEPT !.status = "generating", !.included = FALSE]
  /\ call' = [pc |-> "work", trigger |-> "human_regenerate", auto |-> TRUE]
  /\ UNCHANGED <<file, last, crashes>>

HumanExecute ==
  /\ Acts /\ item.rev # 0
  /\ Begin(Resolved(history), "execute", "human_execute")
  /\ call' = [pc |-> "run", trigger |-> "human_execute", auto |-> TRUE]
  /\ UNCHANGED <<file, last, crashes>>

HumanRepair ==
  /\ Acts /\ item.rev # 0
  /\ history' = Append(Resolved(history), Stage("rerepair", "human_repair", "running"))
  /\ item' = [item EXCEPT !.status = "repairing", !.included = FALSE]
  /\ call' = [pc |-> "work", trigger |-> "post_repair_verification", auto |-> FALSE]
  /\ UNCHANGED <<file, last, crashes>>

ManualEdit ==
  /\ Acts /\ item.rev # 0
  /\ Begin(Resolved(history), "manual_edit", "human_edit")
  /\ Goto("edit")
  /\ UNCHANGED <<file, last, crashes>>

Abandon ==
  /\ Acts /\ item.status # "abandoned"
  /\ Begin(Resolved(history), "abandon", "human_abandon")
  /\ Goto("abandon")
  /\ UNCHANGED <<file, last, crashes>>

\* Mutant of AbandonEnds: the status is not one of the workflow.
AbandonAsRemoved ==
  /\ call.pc = "abandon"
  /\ Finish("succeeded")
  /\ item' = [item EXCEPT !.status = "removed", !.included = FALSE]
  /\ Goto("rest")
  /\ UNCHANGED <<file, last, crashes>>

AbandonEnds ==
  /\ call.pc = "abandon"
  /\ Finish("succeeded")
  /\ item' = [item EXCEPT !.status = "abandoned", !.included = FALSE]
  /\ Goto("rest")
  /\ UNCHANGED <<file, last, crashes>>

-----------------------------------------------------------------------------
(* The external operations and how the cycles go on. *)

\* The file gets a new revision; content that did not change keeps its own.
Write == last < MaxRev /\ last' = last + 1 /\ file' = last + 1
Sync == Write \/ (file # 0 /\ UNCHANGED <<file, last>>)

\* An operation refuses a file that is not at the revision it was asked to
\* work on; the first generation is asked to follow the plan snapshot.
Current == file = (IF Newest.type = "generate" THEN item.planned ELSE item.rev)

\* The item follows the file as the operation left it.
Follow == item' = [item EXCEPT !.rev = file', !.included = FALSE]

(* _run_generate_cycle and _run_repair_cycle *)
WorkSucceeds ==
  /\ call.pc = "work" /\ Current
  /\ Sync /\ Follow
  /\ Finish("succeeded")
  /\ Goto("execute")
  /\ UNCHANGED crashes

(* _adopt_rollback_script: a failed operation may have recorded a rollback. *)
WorkFails ==
  /\ call.pc = "work"
  /\ \/ UNCHANGED <<file, last, item>>
     \/ Current /\ Sync /\ Follow
  /\ Finish("failed")
  /\ Goto("await")
  /\ UNCHANGED crashes

(* _execute_once *)
Execute ==
  /\ call.pc = "execute"
  /\ Begin(history, "execute", call.trigger)
  /\ Goto("run")
  /\ UNCHANGED <<file, last, crashes>>

\* Mutant of RunSucceeds: the file is not compared with the item's revision,
\* and the item takes whatever revision the file has by then.
RunAnything ==
  /\ call.pc = "run"
  /\ item' = [item EXCEPT !.rev = file]
  /\ Finish("succeeded")
  /\ Goto("ready")
  /\ UNCHANGED <<file, last, crashes>>

RunSucceeds ==
  /\ call.pc = "run" /\ file = item.rev
  /\ Finish("succeeded")
  /\ Goto("ready")
  /\ UNCHANGED <<item, file, last, crashes>>

\* Mutant of RunFails: whoever started the execution, a repair follows.
RunFailsRepairs ==
  /\ call.pc = "run"
  /\ Finish("failed")
  /\ Goto("repair") \/ Goto("await")
  /\ UNCHANGED <<item, file, last, crashes>>

(* _run_execute_cycle: an environment policy parks the item, one automatic *)
(* repair is made when its prompt can be built, else a human decides.      *)
RunFails ==
  /\ call.pc = "run"
  /\ Finish("failed")
  /\ \/ Goto("block")
     \/ call.auto /\ Goto("repair")
     \/ Goto("await")
  /\ UNCHANGED <<item, file, last, crashes>>

(* _mark_ready *)
MarkReady ==
  /\ call.pc = "ready"
  /\ item' = [item EXCEPT !.status = "ready", !.included = TRUE]
  /\ Goto("rest")
  /\ UNCHANGED <<history, file, last, crashes>>

\* Mutant of Repair: the verification is an ordinary execution again.
RepairUncounted ==
  /\ call.pc = "repair"
  /\ Begin(history, "repair", "automatic_repair")
  /\ call' = [pc |-> "work", trigger |-> "automatic", auto |-> TRUE]
  /\ UNCHANGED <<file, last, crashes>>

Repair ==
  /\ call.pc = "repair"
  /\ Begin(history, "repair", "automatic_repair")
  /\ call' = [pc |-> "work", trigger |-> "post_repair_verification", auto |-> FALSE]
  /\ UNCHANGED <<file, last, crashes>>

(* _await_human *)
Await ==
  /\ call.pc = "await"
  /\ Begin(history, "human_review", "automatic_analysis")
  /\ Goto("analyze")
  /\ UNCHANGED <<file, last, crashes>>

Analyzed ==
  /\ call.pc = "analyze"
  /\ Finish("pending")
  /\ item' = [item EXCEPT !.status = "awaiting_human", !.included = FALSE]
  /\ Goto("rest")
  /\ UNCHANGED <<file, last, crashes>>

(* _mark_environment_blocked *)
Block ==
  /\ call.pc = "block"
  /\ Begin(history, "blocked", "environment_policy")
  /\ Goto("blocked")
  /\ UNCHANGED <<file, last, crashes>>

BlockEnds ==
  /\ call.pc = "blocked"
  /\ Finish("blocked")
  /\ item' = [item EXCEPT !.status = "awaiting_human", !.included = FALSE]
  /\ Goto("rest")
  /\ UNCHANGED <<file, last, crashes>>

(* _manual_edit: the save compares revisions; the caller may ask for an *)
(* execution right after it.                                            *)
EditSucceeds ==
  /\ call.pc = "edit" /\ Current
  /\ Sync /\ Follow
  /\ Finish("succeeded")
  /\ \/ Goto("rest")
     \/ call' = [pc |-> "execute", trigger |-> "manual_edit_execute", auto |-> TRUE]
  /\ UNCHANGED crashes

EditFails ==
  /\ call.pc = "edit"
  /\ \/ UNCHANGED <<file, last, item>>
     \/ Current /\ Sync /\ Follow
  /\ Finish("failed")
  /\ Goto("rest")
  /\ UNCHANGED crashes

(* is_cancelled_error: the operation cleans up and raises, and nothing is *)
(* persisted.                                                             *)
OperationCancelled ==
  /\ call.pc \in {"work", "run", "analyze"}
  /\ \/ UNCHANGED <<file, last>>
     \/ call.pc = "work" /\ Current /\ Write
  /\ Goto("aborted")
  /\ UNCHANGED <<item, history, crashes>>

-----------------------------------------------------------------------------
(* Changes from outside, crashes, and the ends of the run. *)
ExternalWrite ==
  /\ \/ Write
     \/ file # 0 /\ file' = 0 /\ UNCHANGED last     \* deleted
  /\ UNCHANGED <<item, history, call, crashes>>

\* Mutant of AdoptExternal: the review of the replaced revision stays pending.
AdoptBesideReview ==
  /\ Resting /\ item.status # "queued" /\ file # item.rev
  /\ \A k \in DOMAIN history : history[k].status # "running"
  /\ history' = history \o
       <<Stage("external_version_adopted", "external_change", "succeeded"),
         [Stage("human_review", "external_change", "pending") EXCEPT !.input = file]>>
  /\ item' = [item EXCEPT !.status = "awaiting_human", !.included = FALSE, !.rev = file]
  /\ UNCHANGED <<file, last, call, crashes>>

(* adopt_external_versions: whatever the item was, it needs a fresh look.   *)
(* A run rests, and adopts, only when none of its items is queued.          *)
AdoptExternal ==
  /\ Resting /\ item.status # "queued" /\ file # item.rev
  /\ \A k \in DOMAIN history : history[k].status # "running"
  /\ history' = Closed(history, {"human_review"}, {"pending"}, "superseded") \o
       <<Stage("external_version_adopted", "external_change", "succeeded"),
         [Stage("human_review", "external_change", "pending") EXCEPT !.input = file]>>
  /\ item' = [item EXCEPT !.status = "awaiting_human", !.included = FALSE, !.rev = file]
  /\ UNCHANGED <<file, last, call, crashes>>

\* The thread dies; what it had persisted stays, and the operation it was in
\* may have written the file already.
Crash ==
  /\ call.pc \notin {"rest", "closed", "dead"}
  /\ crashes < MaxCrashes /\ crashes' = crashes + 1           \* bound
  /\ \/ UNCHANGED <<file, last>>
     \/ call.pc \in {"work", "edit"} /\ Current /\ Write
  /\ Goto("dead")
  /\ UNCHANGED <<item, history>>

Interrupted ==
  \/ item.status \in Busy
  \/ \E k \in DOMAIN history : history[k].status = "running"

(* _reconcile_assets: the next worker first takes over the file's revision. *)
Resync ==
  /\ call.pc = "dead"
  /\ IF Interrupted /\ file # item.rev
     THEN /\ history' = Append(history,
               Stage("recovered_external_version", "worker_recovery", "succeeded"))
          /\ item' = [item EXCEPT !.rev = file]
     ELSE UNCHANGED <<history, item>>
  /\ Goto("synced")
  /\ UNCHANGED <<file, last, crashes>>

\* Mutant of Recover: an item between two stages is not seen as interrupted.
RecoverRunningOnly ==
  /\ call.pc = "synced"
  /\ IF \E k \in DOMAIN history : history[k].status = "running"
     THEN /\ history' = Append(Closed(history, Types, {"running"}, "failed"),
                               Stage("human_review", "worker_recovery", "pending"))
          /\ item' = [item EXCEPT !.status = "awaiting_human", !.included = FALSE]
     ELSE UNCHANGED <<history, item>>
  /\ Goto("rest")
  /\ UNCHANGED <<file, last, crashes>>

(* _recover_interrupted_state: the stage is reported and a human decides; *)
(* an operation is never repeated on its own.                             *)
Recover ==
  /\ call.pc = "synced"
  /\ IF Interrupted
     THEN /\ history' = Append(Closed(history, Types, {"running"}, "failed"),
                               Stage("human_review", "worker_recovery", "pending"))
          /\ item' = [item EXCEPT !.status = "awaiting_human", !.included = FALSE]
     ELSE UNCHANGED <<history, item>>
  /\ Goto("rest")
  /\ UNCHANGED <<file, last, crashes>>

\* Mutant of Finalize: a review that waits for the client is left alone.
FinalizeRunning ==
  /\ call.pc \in {"rest", "aborted", "dead", "synced"}
  /\ history' = [k \in DOMAIN history |-> IF history[k].status = "running"
                                          THEN [history[k] EXCEPT !.status = "failed"]
                                          ELSE history[k]]
  /\ item' = IF item.status \in Terminal THEN item
             ELSE [item EXCEPT !.status = "abandoned", !.included = FALSE]
  /\ Goto("closed")
  /\ UNCHANGED <<file, last, crashes>>

(* finalize_interrupted, when the run is cancelled or failed. *)
Finalize ==
  /\ call.pc \in {"rest", "aborted", "dead", "synced"}
  /\ history' = [k \in DOMAIN history |-> IF history[k].status \in Open
                                          THEN [history[k] EXCEPT !.status = "failed"]
                                          ELSE history[k]]
  /\ item' = IF item.status \in Terminal /\ history' = history THEN item
             ELSE [item EXCEPT !.status = "abandoned", !.included = FALSE]
  /\ Goto("closed")
  /\ UNCHANGED <<file, last, crashes>>

(* initialize_cancelled: the run was cancelled before it had a document. *)
InitializeCancelled ==
  /\ Resting /\ history = <<>>
  /\ history' = <<Stage("cancelled", "run_cancelled", "failed")>>
  /\ item' = [item EXCEPT !.status = "abandoned"]
  /\ Goto("closed")
  /\ UNCHANGED <<file, last, crashes>>

-----------------------------------------------------------------------------
ItemInit ==
  /\ file \in {0, 1} \cap 0..MaxRev /\ last = file
  /\ item = [status |-> "queued", included |-> FALSE, rev |-> 0, planned |-> file]
  /\ history = <<>> /\ crashes = 0
  /\ call = [pc |-> "rest", trigger |-> "automatic", auto |-> FALSE]

Starts == Generate \/ Regenerate \/ HumanExecute \/ HumanRepair \/ ManualEdit \/ Abandon

Works ==
  \/ WorkSucceeds \/ WorkFails \/ Execute \/ RunSucceeds \/ RunFails \/ MarkReady
  \/ Repair \/ Await \/ Analyzed \/ Block \/ BlockEnds
  \/ EditSucceeds \/ EditFails \/ AbandonEnds

Recovers == Resync \/ Recover
Outside ==
  \/ OperationCancelled \/ ExternalWrite \/ AdoptExternal \/ Crash
  \/ Finalize \/ InitializeCancelled

ItemNext == Starts \/ Works \/ Recovers \/ Outside

ItemSpec == ItemInit /\ [][ItemNext]_vars

(* A call that began goes on until it returns, a dead one is recovered, and *)
(* a cancelled one is closed by its run.                                    *)
FairItemSpec ==
  ItemSpec /\ WF_vars(Works) /\ WF_vars(Recovers) /\ WF_vars(call.pc = "aborted" /\ Finalize)

-----------------------------------------------------------------------------
Stages == [type : Types, trigger : Triggers, status : StageStatuses, input : 0..MaxRev]

(* The document, the file and the call have their types. *)
ItemTypeOK ==
  /\ item \in [status : ItemStatuses, included : BOOLEAN, rev : 0..MaxRev,
               planned : 0..MaxRev]
  /\ history \in Seq(Stages)
  /\ file \in 0..MaxRev /\ last \in 0..MaxRev /\ crashes \in 0..MaxCrashes
  /\ call \in [pc : {"rest", "work", "execute", "run", "repair", "await", "analyze", "ready",
                     "block", "blocked", "edit", "abandon", "aborted", "dead", "synced",
                     "closed"},
               trigger : Triggers, auto : BOOLEAN]

(* A script is ready only on the strength of its newest stage: a successful *)
(* execution of the very revision the item carries.                         *)
ReadyIsVerified ==
  item.status = "ready" =>
    /\ history # <<>>
    /\ Newest.type = "execute" /\ Newest.status = "succeeded" /\ Newest.input = item.rev

(* The automatic flow repairs at most once: an automatic repair directly    *)
(* follows a failed execution that is not itself the verification of a      *)
(* repair, so a failed verification always ends at a human.                 *)
AutomaticRepairOnce ==
  \A k \in DOMAIN history :
    history[k].trigger = "automatic_repair" =>
      /\ k > 1
      /\ history[k - 1].type = "execute" /\ history[k - 1].status = "failed"
      /\ history[k - 1].trigger # "post_repair_verification"

(* Every successful repair is followed by exactly one verification, unless  *)
(* the worker died or the run ended in between.                             *)
RepairIsVerified ==
  \A k \in DOMAIN history :
    /\ history[k].type \in {"repair", "rerepair"}
    /\ history[k].status = "succeeded"
    /\ k < Len(history)
    => \/ history[k + 1].type = "execute"
          /\ history[k + 1].trigger = "post_repair_verification"
       \/ history[k + 1].trigger = "worker_recovery"

(* At most one stage of an item is open, running or waiting for a human, so *)
(* recovery, which closes only the newest running stage, and an action,     *)
(* which resolves only the newest review, leave none behind.                *)
OneOpenStage ==
  \A j, k \in DOMAIN history :
    history[j].status \in Open /\ history[k].status \in Open => j = k

(* A run that is over leaves no stage open and no item unfinished.          *)
ClosedLeavesNothingOpen ==
  call.pc = "closed" =>
    /\ item.status \in Terminal
    /\ \A k \in DOMAIN history : history[k].status \notin Open

(* History is append-only: a stage keeps its place, type, trigger and       *)
(* input, and once it is closed its outcome is never rewritten.             *)
HistoryImmutable ==
  [][/\ Len(history') >= Len(history)
     /\ \A k \in DOMAIN history :
          /\ [history'[k] EXCEPT !.status = history[k].status] = history[k]
          /\ history[k].status \notin Open => history'[k] = history[k]]_vars

(* An item never stays busy: its call returns, or its worker is replaced.   *)
ItemSettles == item.status \in Busy ~> item.status \notin Busy
=============================================================================
