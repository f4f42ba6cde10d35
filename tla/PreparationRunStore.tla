------------------------- MODULE PreparationRunStore -------------------------
(***************************************************************************)
(* The table script_preparation_runs behind an ordinary module             *)
(* script-preparation run, and every transaction                           *)
(* ModuleScriptPreparationRepository issues against it.                    *)
(*                                                                         *)
(* Each operator of the form Method(r, ...) is one committed transaction.  *)
(* A call that raises (row missing, lease lost, scope conflict) commits    *)
(* nothing, so it is a disabled action here.  StoreNext lets a client call *)
(* the methods in ANY order with ANY token: what holds of StoreSpec holds  *)
(* whatever the workers, requests and recoveries above the table do.       *)
(*                                                                         *)
(* The action queue and the recent-actions list of a row are kept together *)
(* in act: an action is in the queue of run r while its state is queued or *)
(* running, and in the recent list afterwards.  Actions are numbered in    *)
(* the order they are accepted, which is their order in the queue.  The    *)
(* truncation of the recent list to 50 entries, the error text, the        *)
(* current job id and the timestamps other than finished_at are left out.  *)
(***************************************************************************)
EXTENDS Integers, Sequences, FiniteSets

CONSTANTS
  Runs,        \* run ids that may be inserted
  Modules,     \* module names (scope keys)
  Requests,    \* client_request_id values
  Tokens,      \* worker tokens (uuid4: distinct for every claim in the code)
  Items,       \* item ids an action can name
  Docs,        \* possible values of state_json
  MaxActions,  \* bound on the number of actions ever accepted
  NoToken, NoDoc, NoRun, NoItem, NoModule, NoRequest   \* SQL NULLs

ASSUME MaxActionsAssumption == MaxActions \in Nat
ASSUME NullsAssumption == /\ NoToken \notin Tokens
                          /\ NoRun \notin Runs
                          /\ NoRequest \notin Requests

VARIABLES
  run,   \* [Runs -> row]
  act,   \* [1..MaxActions -> action], queue and recent list together
  sent   \* number of actions accepted so far

storeVars == <<run, act, sent>>

-----------------------------------------------------------------------------
ActiveStatuses == {"queued", "running", "failing", "cancelling", "awaiting_action"}
ActionableStatuses == {"awaiting_action", "completed"}
Terminal == {"completed", "failed", "cancelled"}
Statuses == ActiveStatuses \cup Terminal
StepStatuses == {"running", "awaiting_action", "succeeded"}
Actions == 1..MaxActions

\* A row that has not been inserted yet.
AbsentRow == [status |-> "absent", module |-> NoModule, request |-> NoRequest,
              scope |-> FALSE, cancel |-> FALSE, finished |-> FALSE,
              token |-> NoToken, live |-> FALSE, doc |-> NoDoc]

Unsent == [run |-> NoRun, item |-> NoItem, state |-> "unsent"]

Queue(r) == {a \in Actions : act[a].run = r /\ act[a].state \in {"queued", "running"}}
Queued(r) == {a \in Actions : act[a].run = r /\ act[a].state = "queued"}
Exists(r) == run[r].status # "absent"

\* The WHERE clause of a write: fenced only when the calling thread holds a token.
Owns(row, tok) == tok = NoToken \/ row.token = tok

\* active_scope_key of another run is this module's key.
ScopeTaken(r, m) == \E s \in Runs \ {r} : run[s].scope /\ run[s].module = m

\* Every queued or running action of r ends in state s (moved to the recent list).
Settled(r, from, s) ==
  [a \in Actions |-> IF act[a].run = r /\ act[a].state \in from
                     THEN [act[a] EXCEPT !.state = s] ELSE act[a]]

-----------------------------------------------------------------------------
(* create: both the idempotent returns and the conflicts commit nothing. *)
Create(r, m, q) ==
  /\ ~Exists(r)
  /\ q # NoRequest => \A s \in Runs : run[s].request # q
  /\ ~ScopeTaken(r, m)
  /\ run' = [run EXCEPT ![r] = [AbsentRow EXCEPT !.status = "queued", !.module = m,
                                                 !.request = q, !.scope = TRUE]]
  /\ UNCHANGED <<act, sent>>

(* The status save_state asks for.  pending is the action queue it read in  *)
(* an earlier transaction, tok the token of the calling thread.             *)
WantedStatus(tok, step, initial, pending) ==
  IF pending THEN "running"
  ELSE IF step = "succeeded" /\ initial /\ tok = NoToken THEN "completed"
  ELSE IF step = "awaiting_action" THEN "awaiting_action"
  ELSE "running"

\* Mutant of Saved: the cancel flag is not consulted (a lost CASE branch).
SavedOverCancel(row, tok, d, step, initial, pending) ==
  [row EXCEPT
    !.doc = d,
    !.status = IF row.status \in Terminal \cup {"failing"} THEN row.status
               ELSE WantedStatus(tok, step, initial, pending)]

(* save_state's UPDATE.  MySQL evaluates the assignments from left to right, *)
(* so the CASEs after the first one see the new status.                      *)
Saved(row, tok, d, step, initial, pending) ==
  LET want == WantedStatus(tok, step, initial, pending)
      st   == IF row.status \in Terminal \cup {"failing"} THEN row.status
              ELSE IF row.cancel THEN "cancelling" ELSE want
  IN  [row EXCEPT
        !.doc = d,
        !.status = st,
        !.scope = IF st \in Terminal THEN FALSE
                  ELSE IF st = "failing" \/ row.cancel THEN row.scope
                  ELSE want # "completed",
        !.finished = IF want = "completed"
                     THEN IF st = "failing" \/ row.cancel THEN row.finished ELSE TRUE
                     ELSE IF st \in Terminal \cup {"failing"} \/ row.cancel
                          THEN row.finished ELSE FALSE]

SaveState(r, tok, d, step, initial, pending) ==
  /\ Exists(r)
  /\ Owns(run[r], tok)
  /\ run' = [run EXCEPT ![r] = Saved(@, tok, d, step, initial, pending)]
  /\ UNCHANGED <<act, sent>>

\* Mutants of MarkedFailed: the scope is kept; a completed run is overwritten.
MarkedFailedKeepsScope(row) ==
  [row EXCEPT !.status = IF row.cancel THEN "cancelling" ELSE "failed",
              !.finished = IF row.cancel THEN row.finished ELSE TRUE]

MarkedFailedAlways(row) ==
  [row EXCEPT !.status = IF row.cancel THEN "cancelling" ELSE "failed",
              !.scope = IF row.cancel THEN row.scope ELSE FALSE,
              !.finished = IF row.cancel THEN row.finished ELSE TRUE]

(* update_status, one operator per branch of its CASE expressions. *)
MarkedFailed(row) ==
  LET st == IF row.status = "cancelled" THEN "cancelled"
            ELSE IF row.cancel \/ row.status = "cancelling" THEN "cancelling"
            ELSE IF row.status \in {"completed", "failed"} THEN row.status
            ELSE "failed"
      cancelling == row.cancel \/ st = "cancelling"
  IN  [row EXCEPT !.status = st,
                  !.scope = IF cancelling THEN row.scope ELSE FALSE,
                  !.finished = IF cancelling THEN row.finished ELSE TRUE]

MarkedCancelled(row) ==
  [row EXCEPT !.status = IF row.status \in Terminal THEN row.status ELSE "cancelled",
              !.scope = FALSE,
              !.finished = TRUE]

\* Mutant of MarkedOther: the workflow status is written without mapping it.
MarkedUnmapped(row, s) ==
  [row EXCEPT !.status = IF row.status \in Terminal THEN row.status
                         ELSE IF s = "awaiting_action" THEN "awaiting_script_action" ELSE s]

MarkedOther(row, s) ==
  LET st == IF row.status \in Terminal THEN row.status
            ELSE IF row.cancel THEN "cancelling" ELSE s
      completes == s = "completed" /\ ~row.cancel
  IN  [row EXCEPT !.status = st,
                  !.scope = IF completes THEN FALSE ELSE row.scope,
                  !.finished = IF completes THEN TRUE ELSE row.finished]

Marked(row, s) ==
  IF s = "failed" THEN MarkedFailed(row)
  ELSE IF s = "cancelled" THEN MarkedCancelled(row)
  ELSE MarkedOther(row, s)

UpdateStatus(r, tok, s) ==
  /\ Exists(r)
  /\ Owns(run[r], tok)
  /\ run' = [run EXCEPT ![r] = Marked(@, s)]
  /\ UNCHANGED <<act, sent>>

-----------------------------------------------------------------------------
Reopenable(r) ==
  /\ run[r].status \in ActionableStatuses
  /\ ~run[r].cancel
  /\ run[r].token = NoToken \/ ~run[r].live
  /\ ~ScopeTaken(r, run[r].module)

\* Mutant of ClaimScope: reopening forgets finished_at = NULL.
ClaimScopeKeepsFinished(r) ==
  /\ Reopenable(r)
  /\ run' = [run EXCEPT ![r].status = "running", ![r].scope = TRUE,
                        ![r].token = NoToken, ![r].live = FALSE]
  /\ UNCHANGED <<act, sent>>

(* A request takes a resting run over before it edits or adopts. *)
ClaimScope(r) ==
  /\ Reopenable(r)
  /\ run' = [run EXCEPT ![r].status = "running", ![r].scope = TRUE,
                        ![r].token = NoToken, ![r].live = FALSE,
                        ![r].finished = FALSE]
  /\ UNCHANGED <<act, sent>>

\* Mutant of EnqueueActions: a completed run is reopened without the scope check.
EnqueueNoScopeCheck(r, its) ==
  /\ run[r].status \in ActionableStatuses
  /\ run[r].token = NoToken
  /\ sent + Len(its) <= MaxActions
  /\ act' = [a \in Actions |->
               IF a - sent \in 1..Len(its)
               THEN [run |-> r, item |-> its[a - sent], state |-> "queued"]
               ELSE act[a]]
  /\ sent' = sent + Len(its)
  /\ run' = [run EXCEPT ![r].status = "running", ![r].scope = TRUE,
                        ![r].finished = FALSE]

(* its is the batch of items, in the order the request lists them. *)
EnqueueActions(r, its) ==
  /\ run[r].status \in ActionableStatuses
  /\ run[r].token = NoToken
  /\ sent + Len(its) <= MaxActions                       \* bound
  /\ \A k \in 1..Len(its) : \A a \in Queue(r) : act[a].item # its[k]
  /\ ~ScopeTaken(r, run[r].module)
  /\ act' = [a \in Actions |->
               IF a - sent \in 1..Len(its)
               THEN [run |-> r, item |-> its[a - sent], state |-> "queued"]
               ELSE act[a]]
  /\ sent' = sent + Len(its)
  /\ run' = [run EXCEPT ![r].status = "running", ![r].scope = TRUE,
                        ![r].finished = FALSE]

(* The oldest queued action starts; the call that finds none commits nothing. *)
ClaimNextAction(r, tok, a) ==
  /\ tok # NoToken
  /\ run[r].token = tok
  /\ a \in Queued(r)
  /\ \A b \in Queued(r) : a <= b
  /\ act' = [act EXCEPT ![a].state = "running"]
  /\ UNCHANGED <<run, sent>>

(* The result of an action moves it to the recent list; error is "failed". *)
FinishAction(r, tok, a, result) ==
  /\ Exists(r)
  /\ Owns(run[r], tok)
  /\ act' = IF a \in Queue(r) THEN [act EXCEPT ![a].state = result] ELSE act
  /\ UNCHANGED <<run, sent>>

-----------------------------------------------------------------------------
Claimable(row) ==
  \/ row.status \in {"queued", "running", "failing", "cancelling"}
  \/ row.status = "awaiting_action" /\ row.token # NoToken /\ ~row.live

TakesOver(row, tok) == row.token # NoToken /\ row.token # tok /\ ~row.live

HeldByOther(row, tok) == row.token # NoToken /\ row.token # tok /\ row.live

\* Mutants of ClaimWorker: the interrupted action is put back into the queue;
\* it is left running for the new owner.
ClaimWorkerRequeues(r, tok) ==
  /\ Exists(r)
  /\ Claimable(run[r])
  /\ ~HeldByOther(run[r], tok)
  /\ run' = [run EXCEPT ![r].token = tok, ![r].live = TRUE]
  /\ act' = IF TakesOver(run[r], tok) THEN Settled(r, {"running"}, "queued") ELSE act
  /\ UNCHANGED sent

ClaimWorkerInherits(r, tok) ==
  /\ Exists(r)
  /\ Claimable(run[r])
  /\ ~HeldByOther(run[r], tok)
  /\ run' = [run EXCEPT ![r].token = tok, ![r].live = TRUE]
  /\ UNCHANGED <<act, sent>>

ClaimWorker(r, tok) ==
  /\ Exists(r)
  /\ Claimable(run[r])
  /\ ~HeldByOther(run[r], tok)
  /\ run' = [run EXCEPT ![r].token = tok, ![r].live = TRUE]
  /\ act' = IF TakesOver(run[r], tok) THEN Settled(r, {"running"}, "failed") ELSE act
  /\ UNCHANGED sent

Freed(row) == [row EXCEPT !.token = NoToken, !.live = FALSE]

(* claim_worker on a run that needs no worker drops an expired token. *)
DiscardStaleWorker(r) ==
  /\ Exists(r)
  /\ ~Claimable(run[r])
  /\ run[r].token # NoToken /\ ~run[r].live
  /\ run' = [run EXCEPT ![r] = Freed(@)]
  /\ UNCHANGED <<act, sent>>

ClearExpiredWorker(r, statuses) ==
  /\ run[r].token # NoToken
  /\ run[r].status \in statuses
  /\ ~run[r].live
  /\ run' = [run EXCEPT ![r] = Freed(@)]
  /\ UNCHANGED <<act, sent>>

HeartbeatWorker(r, tok) ==
  /\ tok # NoToken
  /\ run[r].token = tok
  /\ run' = [run EXCEPT ![r].live = TRUE]
  /\ UNCHANGED <<act, sent>>

(* Succeeds only when no queued action would be left behind, or by force. *)
ReleaseWorker(r, tok, force) ==
  /\ tok # NoToken
  /\ run[r].token = tok
  /\ force \/ Queued(r) = {}
  /\ run' = [run EXCEPT ![r] =
               IF ~run[r].cancel THEN Freed(@)
               ELSE [Freed(@) EXCEPT
                      !.status = IF run[r].status \in Terminal
                                 THEN run[r].status ELSE "cancelling",
                      !.finished = IF run[r].status \in Terminal
                                   THEN run[r].finished ELSE FALSE]]
  /\ UNCHANGED <<act, sent>>

\* Mutant of RequestCancel: only the actions not yet started leave the queue.
RequestCancelKeepsRunning(r) ==
  /\ Exists(r)
  /\ run[r].status \notin Terminal
  /\ run' = [run EXCEPT ![r].cancel = TRUE, ![r].status = "cancelling"]
  /\ act' = Settled(r, {"queued"}, "cancelled")
  /\ UNCHANGED sent

RequestCancel(r) ==
  /\ Exists(r)
  /\ run[r].status \notin Terminal
  /\ run' = [run EXCEPT ![r].cancel = TRUE, ![r].status = "cancelling"]
  /\ act' = Settled(r, {"queued", "running"}, "cancelled")
  /\ UNCHANGED sent

(* worker_lease_until passes. *)
LeaseExpires(r) ==
  /\ run[r].token # NoToken
  /\ run[r].live
  /\ run' = [run EXCEPT ![r].live = FALSE]
  /\ UNCHANGED <<act, sent>>

-----------------------------------------------------------------------------
StoreInit ==
  /\ run = [r \in Runs |-> AbsentRow]
  /\ act = [a \in Actions |-> Unsent]
  /\ sent = 0

\* The batches a client sends: no item twice (enqueue_batch skips repeated ids).
Batches == {<<i>> : i \in Items} \cup
           {<<p[1], p[2]>> : p \in {q \in Items \X Items : q[1] # q[2]}}

Writes(r) ==
  \E tok \in Tokens \cup {NoToken} :
    \/ \E d \in Docs, step \in StepStatuses, initial, pending \in BOOLEAN :
         SaveState(r, tok, d, step, initial, pending)
    \/ \E s \in {"running", "awaiting_action", "failing", "failed", "completed", "cancelled"} :
         UpdateStatus(r, tok, s)
    \/ \E a \in Actions, result \in {"succeeded", "failed"} :
         FinishAction(r, tok, a, result)

WorkerCalls(r) ==
  \E tok \in Tokens :
    \/ ClaimWorker(r, tok)
    \/ HeartbeatWorker(r, tok)
    \/ \E force \in BOOLEAN : ReleaseWorker(r, tok, force)
    \/ \E a \in Actions : ClaimNextAction(r, tok, a)

Requested(r) ==
  \/ \E m \in Modules, q \in Requests \cup {NoRequest} : Create(r, m, q)
  \/ ClaimScope(r)
  \/ \E its \in Batches : EnqueueActions(r, its)
  \/ RequestCancel(r)
  \/ DiscardStaleWorker(r)
  \/ ClearExpiredWorker(r, {"awaiting_action", "completed", "failed", "cancelled"})

StoreNext ==
  \E r \in Runs : Writes(r) \/ WorkerCalls(r) \/ Requested(r) \/ LeaseExpires(r)

StoreSpec == StoreInit /\ [][StoreNext]_storeVars

-----------------------------------------------------------------------------
Rows ==
  [status : Statuses \cup {"absent"}, module : Modules \cup {NoModule},
   request : Requests \cup {NoRequest}, scope : BOOLEAN, cancel : BOOLEAN,
   finished : BOOLEAN, token : Tokens \cup {NoToken}, live : BOOLEAN,
   doc : Docs \cup {NoDoc}]

ActionStates == {"unsent", "queued", "running", "succeeded", "failed", "cancelled"}

(* The rows, the actions and their counter have their types. *)
StoreTypeOK ==
  /\ run \in [Runs -> Rows]
  /\ act \in [Actions -> [run : Runs \cup {NoRun}, item : Items \cup {NoItem},
                          state : ActionStates]]
  /\ sent \in 0..MaxActions

(* A module never has two unfinished preparation runs, whichever mix of     *)
(* create, reopen by an edit or a queued action, completion and             *)
(* cancellation led there (active_scope_key, ARCHITECTURE.md section on     *)
(* ordinary module runs).                                                   *)
OneRunPerModule ==
  \A r, s \in Runs :
    r # s /\ run[r].status \in ActiveStatuses /\ run[s].status \in ActiveStatuses
      => run[r].module # run[s].module

(* The scope key is held exactly while the run is unfinished: every status  *)
(* CASE of save_state, update_status and release_worker agrees with the     *)
(* CASE of active_scope_key beside it, so a finished run never blocks its   *)
(* module and an unfinished one never lets another run start.               *)
ScopeMatchesStatus ==
  \A r \in Runs : run[r].scope <=> run[r].status \in ActiveStatuses

(* Once cancellation is requested no late save, status change, release or   *)
(* failure report of a worker turns the run into anything but cancelling or *)
(* cancelled.                                                               *)
CancelWins ==
  \A r \in Runs : run[r].cancel => run[r].status \in {"cancelling", "cancelled"}

(* finished_at is set exactly on the runs that are over, also after a       *)
(* completed run was reopened and after writes that lose against a cancel.  *)
FinishedIffTerminal ==
  \A r \in Runs : run[r].finished <=> run[r].status \in Terminal

(* Cancelling drains the queue for good: nothing is accepted or started     *)
(* behind it.                                                               *)
CancelledQueueEmpty ==
  \A r \in Runs : run[r].cancel => Queue(r) = {}

(* failed and cancelled are final; completed is left only to running, and   *)
(* only when nobody else owns the module.                                   *)
TerminalSettled ==
  [][\A r \in Runs :
       /\ run[r].status \in {"failed", "cancelled"} => run'[r].status = run[r].status
       /\ run[r].status = "completed" =>
            \/ run'[r].status = "completed"
            \/ run'[r].status = "running" /\ ~ScopeTaken(r, run[r].module)]_storeVars

(* An action that started is never queued again, and its reported result is *)
(* never rewritten: a takeover reports the unknown outcome instead of       *)
(* replaying it.                                                            *)
NeverReplayed ==
  [][\A a \in Actions :
       /\ act[a].state = "running" => act'[a].state # "queued"
       /\ act[a].state \in {"succeeded", "failed", "cancelled"} => act'[a] = act[a]]_storeVars

(* A worker token is replaced by another one only after its lease expired,  *)
(* and the action the old worker had started leaves the queue in the same   *)
(* transaction.                                                             *)
TakeoverFenced ==
  [][\A r \in Runs :
       run[r].token # NoToken /\ run'[r].token \notin {NoToken, run[r].token} =>
         /\ ~run[r].live
         /\ \A a \in Actions : act'[a].run = r => act'[a].state # "running"]_storeVars
=============================================================================
