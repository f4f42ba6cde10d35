--------------------------- MODULE AgentRunPromise ---------------------------
(***************************************************************************)
(* What an Agent run promises whoever watches it over HTTP: the statuses   *)
(* it goes through and the step it is at.  Threads, leases, step rows and  *)
(* scripts are AgentWorkflow's business, which implements this module.     *)
(***************************************************************************)
EXTENDS Naturals

VARIABLES status, at
promiseVars == <<status, at>>

\* Positions of prepare_scripts, create_suite and run_suite in AGENT_STEP_ORDER.
Preparing == 5
Creating == 6
Executing == 7

Unfinished == {"queued", "running", "awaiting_script_action"}

PromiseInit == status = "queued" /\ at = 1

\* After a resume the step is the claiming thread's, which may be an earlier resume's.
Begin == status = "queued" /\ status' = "running" /\ at' \in 1..Executing

Advance == /\ status = "running" /\ status' = "running"
           /\ at' = at + 1 /\ at < Executing

\* Scripts wait for a human; also when one changed after preparation was over.
Pause == /\ status = "running" /\ at >= Preparing
         /\ status' = "awaiting_script_action" /\ at' = Preparing

Act == /\ status = "awaiting_script_action" /\ at = Preparing
       /\ status' = "running" /\ at' \in {Preparing, Creating}

AskCancel == status \in Unfinished /\ status' = "cancelling" /\ at' = at

Cancel == status = "cancelling" /\ status' = "cancelled" /\ at' = at

Fail == status \in Unfinished /\ status' = "failed" /\ at' = at

(* An execution that had succeeded is not repeated; with no script left the *)
(* two suite steps are skipped.                                             *)
Finish == \/ /\ status = "running" /\ at >= Creating
             /\ status' = "succeeded" /\ at' = Executing
          \/ /\ status = "running" /\ at >= Preparing
             /\ status' = "succeeded_with_unresolved" /\ at' = Executing

Resume == /\ status \in {"failed", "cancelled"} /\ status' = "queued"
          /\ at' \in 1..Executing

PromiseNext == Begin \/ Advance \/ Pause \/ Act \/ AskCancel \/ Cancel
               \/ Fail \/ Finish \/ Resume

\* The statuses alone: what stays true however often a run is resumed.
Moves == ((Unfinished \X {"cancelling", "failed"})
          \cup ({"queued", "awaiting_script_action"} \X {"running"})
          \cup ({"running"} \X {"awaiting_script_action", "succeeded", "succeeded_with_unresolved"})
          \cup {<<"cancelling", "cancelled">>}
          \cup ({"failed", "cancelled"} \X {"queued"}))

(* A success is final, a cancellation that was asked for ends as cancelled,  *)
(* and only a failed or cancelled run is queued again.                       *)
Move == <<status, status'>> \in Moves
StatusMoves == [][Move]_status

Promise == PromiseInit /\ [][PromiseNext]_promiseVars
=============================================================================
