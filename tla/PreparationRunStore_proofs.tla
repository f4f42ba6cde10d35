---------------------- MODULE PreparationRunStore_proofs ----------------------
(***************************************************************************)
(* Safety of the script_preparation_runs transactions, for any number of   *)
(* runs, modules, workers, items and actions.                              *)
(*                                                                         *)
(* The argument: every write of a row keeps the row rules (scope key,      *)
(* cancel flag and finished_at agree with the status), and a row gains its *)
(* scope key only in a transaction that looked for another holder.         *)
(***************************************************************************)
EXTENDS PreparationRunStore, TLAPS

\* What every committed row satisfies on its own.
RowRules(row) ==
  /\ row.scope <=> row.status \in ActiveStatuses
  /\ row.cancel => row.status \in {"cancelling", "cancelled"}
  /\ row.finished <=> row.status \in Terminal
  /\ row.status = "absent" => row.doc = NoDoc

\* The unique key on (project_id, active_scope_key).
OneScopePerModule ==
  \A r, s \in Runs : r # s /\ run[r].scope /\ run[s].scope => run[r].module # run[s].module

RunInv ==
  /\ run \in [Runs -> Rows]
  /\ \A r \in Runs : RowRules(run[r])
  /\ OneScopePerModule

ActionRows == [run : Runs \cup {NoRun}, item : Items \cup {NoItem}, state : ActionStates]

\* Action numbers above sent are unused.
SentInv == \A a \in Actions : act[a].state = "unsent" <=> a > sent

ActInv ==
  /\ act \in [Actions -> ActionRows]
  /\ sent \in 0..MaxActions
  /\ SentInv
  /\ CancelledQueueEmpty

\* The inductive invariant.
StoreInv == RunInv /\ ActInv

\* A write that may drop the scope key of a row but never gains it.
Narrows(new, row) == new.module = row.module /\ (new.scope => row.scope)

-----------------------------------------------------------------------------
(* Replacing one row by one that obeys the row rules keeps the runs' part   *)
(* of the invariant, unless the row gains a scope key another run holds.    *)
LEMMA RowWrite ==
  ASSUME RunInv, NEW r \in Runs, NEW new \in Rows, RowRules(new),
         run' = [run EXCEPT ![r] = new],
         Narrows(new, run[r]) \/ ~ScopeTaken(r, new.module)
  PROVE  RunInv'
<1>1. run' \in [Runs -> Rows]
  BY DEF RunInv
<1>2. \A s \in Runs : RowRules(run'[s])
  BY DEF RunInv
<1>3. OneScopePerModule'
  BY DEF RunInv, OneScopePerModule, Narrows, ScopeTaken
<1> QED
  BY <1>1, <1>2, <1>3 DEF RunInv, RowRules

(* save_state keeps the row rules of an inserted row and the cancel flag.   *)
LEMMA SavedKeepsRules ==
  ASSUME NEW row \in Rows, RowRules(row), row.status # "absent",
         NEW tok, NEW d \in Docs, NEW step \in StepStatuses,
         NEW initial \in BOOLEAN, NEW pending \in BOOLEAN
  PROVE  LET new == Saved(row, tok, d, step, initial, pending)
         IN  /\ new \in Rows /\ RowRules(new) /\ Narrows(new, row)
             /\ new.cancel = row.cancel /\ new.token = row.token
<1> DEFINE want == WantedStatus(tok, step, initial, pending)
           st == IF row.status \in Terminal \cup {"failing"} THEN row.status
                 ELSE IF row.cancel THEN "cancelling" ELSE want
           sc == IF st \in Terminal THEN FALSE
                 ELSE IF st = "failing" \/ row.cancel THEN row.scope
                 ELSE want # "completed"
           fi == IF want = "completed"
                 THEN IF st = "failing" \/ row.cancel THEN row.finished ELSE TRUE
                 ELSE IF st \in Terminal \cup {"failing"} \/ row.cancel
                      THEN row.finished ELSE FALSE
           new == [row EXCEPT !.doc = d, !.status = st, !.scope = sc, !.finished = fi]
<1>1. want \in {"running", "completed", "awaiting_action"}
  BY DEF WantedStatus
<1>2. /\ row.status \in Statuses
      /\ row.scope \in BOOLEAN /\ row.cancel \in BOOLEAN /\ row.finished \in BOOLEAN
  BY DEF Rows
<1>3. Saved(row, tok, d, step, initial, pending) = new
  BY DEF Saved
<1> HIDE DEF want
<1>4. st \in Statuses /\ st # "absent" /\ sc \in BOOLEAN /\ fi \in BOOLEAN
  BY <1>1, <1>2 DEF Statuses, ActiveStatuses, Terminal
<1>5. /\ sc <=> st \in ActiveStatuses
      /\ row.cancel => st \in {"cancelling", "cancelled"}
      /\ fi <=> st \in Terminal
      /\ sc => row.scope
  BY <1>1, <1>2 DEF RowRules, Statuses, ActiveStatuses, Terminal
<1> HIDE DEF st, sc, fi
<1>6. /\ new \in Rows
      /\ new.status = st /\ new.scope = sc /\ new.finished = fi
      /\ new.module = row.module /\ new.cancel = row.cancel /\ new.token = row.token
  BY <1>4 DEF Rows
<1>7. RowRules(new) /\ Narrows(new, row)
  BY <1>4, <1>5, <1>6 DEF RowRules, Narrows
<1> QED
  BY <1>3, <1>6, <1>7

(* update_status keeps the row rules whatever status it is asked to write.  *)
LEMMA MarkedKeepsRules ==
  ASSUME NEW row \in Rows, RowRules(row), row.status # "absent",
         NEW s \in {"running", "awaiting_action", "failing", "failed", "completed", "cancelled"}
  PROVE  LET new == Marked(row, s)
         IN  /\ new \in Rows /\ RowRules(new) /\ Narrows(new, row)
             /\ new.cancel = row.cancel /\ new.token = row.token
<1> USE DEF RowRules, Narrows
<1>1. /\ row.status \in Statuses
      /\ row.scope \in BOOLEAN /\ row.cancel \in BOOLEAN /\ row.finished \in BOOLEAN
  BY DEF Rows
<1>2. CASE s = "failed"
  <2> DEFINE st == IF row.status = "cancelled" THEN "cancelled"
                   ELSE IF row.cancel \/ row.status = "cancelling" THEN "cancelling"
                   ELSE IF row.status \in {"completed", "failed"} THEN row.status
                   ELSE "failed"
             sc == IF row.cancel \/ st = "cancelling" THEN row.scope ELSE FALSE
             fi == IF row.cancel \/ st = "cancelling" THEN row.finished ELSE TRUE
             new == [row EXCEPT !.status = st, !.scope = sc, !.finished = fi]
  <2>1. Marked(row, s) = new
    BY <1>2 DEF Marked, MarkedFailed
  <2>2. /\ st \in Statuses /\ st # "absent" /\ sc \in BOOLEAN /\ fi \in BOOLEAN
        /\ sc <=> st \in ActiveStatuses
        /\ row.cancel => st \in {"cancelling", "cancelled"}
        /\ fi <=> st \in Terminal
        /\ sc => row.scope
    BY <1>1 DEF Statuses, ActiveStatuses, Terminal
  <2> HIDE DEF st, sc, fi
  <2>3. new \in Rows
    BY <2>2 DEF Rows
  <2>4. /\ new.status = st /\ new.scope = sc /\ new.finished = fi
        /\ new.cancel = row.cancel /\ new.token = row.token /\ new.module = row.module
    BY DEF Rows
  <2> HIDE DEF new
  <2> QED
    BY <2>1, <2>2, <2>3, <2>4
<1>3. CASE s = "cancelled"
  <2> DEFINE st == IF row.status \in Terminal THEN row.status ELSE "cancelled"
             new == [row EXCEPT !.status = st, !.scope = FALSE, !.finished = TRUE]
  <2>1. Marked(row, s) = new
    BY <1>3 DEF Marked, MarkedCancelled
  <2>2. /\ st \in Terminal /\ st \in Statuses /\ st \notin ActiveStatuses
        /\ row.cancel => st \in {"cancelling", "cancelled"}
    BY <1>1 DEF Statuses, ActiveStatuses, Terminal
  <2> HIDE DEF st
  <2>3. new \in Rows
    BY <2>2 DEF Rows
  <2>4. /\ new.status = st /\ new.scope = FALSE /\ new.finished = TRUE
        /\ new.cancel = row.cancel /\ new.token = row.token /\ new.module = row.module
    BY DEF Rows
  <2> HIDE DEF new
  <2> QED
    BY <2>1, <2>2, <2>3, <2>4 DEF Terminal
<1>4. CASE s \notin {"failed", "cancelled"}
  <2> DEFINE st == IF row.status \in Terminal THEN row.status
                   ELSE IF row.cancel THEN "cancelling" ELSE s
             sc == IF s = "completed" /\ ~row.cancel THEN FALSE ELSE row.scope
             fi == IF s = "completed" /\ ~row.cancel THEN TRUE ELSE row.finished
             new == [row EXCEPT !.status = st, !.scope = sc, !.finished = fi]
  <2>1. Marked(row, s) = new
    BY <1>4 DEF Marked, MarkedOther
  <2>2. /\ st \in Statuses /\ st # "absent" /\ sc \in BOOLEAN /\ fi \in BOOLEAN
        /\ sc <=> st \in ActiveStatuses
        /\ row.cancel => st \in {"cancelling", "cancelled"}
        /\ fi <=> st \in Terminal
        /\ sc => row.scope
    BY <1>1, <1>4 DEF Statuses, ActiveStatuses, Terminal
  <2> HIDE DEF st, sc, fi
  <2>3. new \in Rows
    BY <2>2 DEF Rows
  <2>4. /\ new.status = st /\ new.scope = sc /\ new.finished = fi
        /\ new.cancel = row.cancel /\ new.token = row.token /\ new.module = row.module
    BY DEF Rows
  <2> HIDE DEF new
  <2> QED
    BY <2>1, <2>2, <2>3, <2>4
<1> QED
  BY <1>2, <1>3, <1>4

-----------------------------------------------------------------------------
(* Moving a set of actions out of the queue keeps them typed, and never     *)
(* fills the queue of any run.                                              *)
LEMMA SettledShrinks ==
  ASSUME act \in [Actions -> ActionRows], NEW r \in Runs,
         NEW from \in SUBSET {"queued", "running"},
         NEW s \in {"succeeded", "failed", "cancelled"},
         act' = Settled(r, from, s)
  PROVE  /\ act' \in [Actions -> ActionRows]
         /\ \A q \in Runs : Queue(q)' \subseteq Queue(q)
         /\ \A a \in Actions : act'[a].state = "unsent" <=> act[a].state = "unsent"
<1>1. \A a \in Actions : act'[a] \in ActionRows
  BY DEF Settled, ActionRows, ActionStates
<1>2. \A a \in Actions :
        act'[a] = act[a] \/ (act[a].state \in from /\ act'[a].state = s)
  BY DEF Settled, ActionRows
<1> QED
  BY <1>1, <1>2 DEF Settled, Queue

(* A transaction that only rewrites one row, and keeps its cancel flag,     *)
(* keeps the actions' part of the invariant.                                *)
LEMMA RowWriteKeepsActions ==
  ASSUME StoreInv, NEW r \in Runs, NEW new, new.cancel = run[r].cancel,
         run' = [run EXCEPT ![r] = new], UNCHANGED <<act, sent>>
  PROVE  ActInv'
<1>1. \A q \in Runs : run'[q].cancel = run[q].cancel /\ Queue(q)' = Queue(q)
  BY DEF StoreInv, RunInv, Queue
<1> QED
  BY <1>1 DEF StoreInv, ActInv, SentInv, CancelledQueueEmpty

(* The two together: the shape of most transactions.                        *)
LEMMA RowOnly ==
  ASSUME StoreInv, NEW r \in Runs, NEW new \in Rows, RowRules(new),
         run' = [run EXCEPT ![r] = new], UNCHANGED <<act, sent>>,
         new.cancel = run[r].cancel,
         Narrows(new, run[r]) \/ ~ScopeTaken(r, new.module)
  PROVE  StoreInv'
BY RowWrite, RowWriteKeepsActions DEF StoreInv

(* The empty table satisfies the invariant.                                 *)
LEMMA StoreInitInv == StoreInit => StoreInv
<1> SUFFICES ASSUME StoreInit PROVE StoreInv
  OBVIOUS
<1>1. AbsentRow \in Rows /\ RowRules(AbsentRow) /\ ~AbsentRow.scope /\ ~AbsentRow.cancel
  BY DEF AbsentRow, Rows, RowRules, ActiveStatuses, Terminal
<1>2. RunInv
  BY <1>1 DEF StoreInit, RunInv, OneScopePerModule
<1>3. act \in [Actions -> ActionRows] /\ sent \in 0..MaxActions
  BY MaxActionsAssumption DEF StoreInit, Unsent, ActionRows, ActionStates
<1> QED
  BY <1>1, <1>2, <1>3 DEF StoreInit, Unsent, Actions, StoreInv, ActInv, SentInv, CancelledQueueEmpty

-----------------------------------------------------------------------------
(* One lemma per group of transactions: the writes of a worker or request.  *)
LEMMA WritesKeepInv ==
  ASSUME StoreInv, NEW r \in Runs, Writes(r)
  PROVE  StoreInv'
<1> USE DEF StoreInv
<1>0. run[r] \in Rows /\ RowRules(run[r])
  BY DEF RunInv
<1> SUFFICES ASSUME NEW tok \in Tokens \cup {NoToken},
               \/ \E d \in Docs, step \in StepStatuses, initial, pending \in BOOLEAN :
                    SaveState(r, tok, d, step, initial, pending)
               \/ \E s \in {"running", "awaiting_action", "failing", "failed",
                            "completed", "cancelled"} : UpdateStatus(r, tok, s)
               \/ \E a \in Actions, result \in {"succeeded", "failed"} :
                    FinishAction(r, tok, a, result)
             PROVE StoreInv'
  BY DEF Writes
<1>1. ASSUME NEW d \in Docs, NEW step \in StepStatuses,
             NEW initial \in BOOLEAN, NEW pending \in BOOLEAN,
             SaveState(r, tok, d, step, initial, pending)
      PROVE  StoreInv'
  <2> DEFINE new == Saved(run[r], tok, d, step, initial, pending)
  <2>1. run' = [run EXCEPT ![r] = new] /\ UNCHANGED <<act, sent>>
    BY <1>1 DEF SaveState, RunInv
  <2>2. new \in Rows /\ RowRules(new) /\ Narrows(new, run[r]) /\ new.cancel = run[r].cancel
    BY <1>0, <1>1, SavedKeepsRules DEF SaveState, Exists
  <2> HIDE DEF new
  <2> QED
    BY <2>1, <2>2, RowOnly
<1>2. ASSUME NEW s \in {"running", "awaiting_action", "failing", "failed",
                       "completed", "cancelled"}, UpdateStatus(r, tok, s)
      PROVE  StoreInv'
  <2> DEFINE new == Marked(run[r], s)
  <2>1. run' = [run EXCEPT ![r] = new] /\ UNCHANGED <<act, sent>>
    BY <1>2 DEF UpdateStatus, RunInv
  <2>2. new \in Rows /\ RowRules(new) /\ Narrows(new, run[r]) /\ new.cancel = run[r].cancel
    BY <1>0, <1>2, MarkedKeepsRules DEF UpdateStatus, Exists
  <2> HIDE DEF new
  <2> QED
    BY <2>1, <2>2, RowOnly
<1>3. ASSUME NEW a \in Actions, NEW result \in {"succeeded", "failed"},
             FinishAction(r, tok, a, result)
      PROVE  StoreInv'
  <2>1. UNCHANGED <<run, sent>>
    BY <1>3 DEF FinishAction
  <2>2. act' \in [Actions -> ActionRows]
    BY <1>3 DEF FinishAction, ActInv, ActionRows, ActionStates
  <2>3. \A q \in Runs : Queue(q)' \subseteq Queue(q)
    BY <1>3 DEF FinishAction, ActInv, ActionRows, Queue
  <2>5. \A b \in Actions : act'[b].state = "unsent" <=> act[b].state = "unsent"
    BY <1>3 DEF FinishAction, ActInv, ActionRows, Queue
  <2>4. RunInv'
    BY <2>1 DEF RunInv, OneScopePerModule
  <2> QED
    BY <2>1, <2>2, <2>3, <2>4, <2>5 DEF ActInv, SentInv, CancelledQueueEmpty
<1> QED
  BY <1>1, <1>2, <1>3

(* The calls of a worker: claim, heartbeat, release, next action.           *)
LEMMA WorkerCallsKeepInv ==
  ASSUME StoreInv, NEW r \in Runs, WorkerCalls(r)
  PROVE  StoreInv'
<1> USE DEF StoreInv
<1>0. run[r] \in Rows /\ RowRules(run[r])
  BY DEF RunInv
<1> PICK tok \in Tokens :
           \/ ClaimWorker(r, tok)
           \/ HeartbeatWorker(r, tok)
           \/ \E force \in BOOLEAN : ReleaseWorker(r, tok, force)
           \/ \E a \in Actions : ClaimNextAction(r, tok, a)
  BY DEF WorkerCalls
<1>1. CASE ClaimWorker(r, tok)
  <2> DEFINE new == [run[r] EXCEPT !.token = tok, !.live = TRUE]
  <2>1. run' = [run EXCEPT ![r] = new] /\ UNCHANGED sent
    BY <1>1 DEF ClaimWorker, RunInv, Rows
  <2>2. new \in Rows /\ RowRules(new) /\ Narrows(new, run[r]) /\ new.cancel = run[r].cancel
    BY <1>0 DEF Rows, RowRules, Narrows
  <2> HIDE DEF new
  <2>3. RunInv'
    BY <2>1, <2>2, RowWrite
  <2>4. /\ act' \in [Actions -> ActionRows]
        /\ \A q \in Runs : Queue(q)' \subseteq Queue(q)
        /\ \A a \in Actions : act'[a].state = "unsent" <=> act[a].state = "unsent"
    <3>1. CASE act' = Settled(r, {"running"}, "failed")
      BY <3>1, SettledShrinks DEF ActInv
    <3>2. CASE act' = act
      BY <3>2 DEF ActInv, Queue
    <3> QED
      BY <1>1, <3>1, <3>2 DEF ClaimWorker
  <2>5. \A q \in Runs : run'[q].cancel = run[q].cancel
    BY <2>1, <2>2 DEF RunInv
  <2> QED
    BY <2>1, <2>3, <2>4, <2>5 DEF ActInv, SentInv, CancelledQueueEmpty
<1>2. CASE HeartbeatWorker(r, tok)
  <2> DEFINE new == [run[r] EXCEPT !.live = TRUE]
  <2>1. run' = [run EXCEPT ![r] = new] /\ UNCHANGED <<act, sent>>
    BY <1>2 DEF HeartbeatWorker, RunInv, Rows
  <2>2. new \in Rows /\ RowRules(new) /\ Narrows(new, run[r]) /\ new.cancel = run[r].cancel
    BY <1>0 DEF Rows, RowRules, Narrows
  <2> HIDE DEF new
  <2> QED
    BY <2>1, <2>2, RowOnly
<1>3. ASSUME NEW force \in BOOLEAN, ReleaseWorker(r, tok, force)
      PROVE  StoreInv'
  <2> DEFINE st == IF run[r].status \in Terminal THEN run[r].status ELSE "cancelling"
             fi == IF run[r].status \in Terminal THEN run[r].finished ELSE FALSE
             new == IF ~run[r].cancel THEN Freed(run[r])
                    ELSE [Freed(run[r]) EXCEPT !.status = st, !.finished = fi]
  <2>1. run' = [run EXCEPT ![r] = new] /\ UNCHANGED <<act, sent>>
    BY <1>3 DEF ReleaseWorker, RunInv
  <2>2. /\ st \in Statuses /\ fi \in BOOLEAN
        /\ run[r].cancel => st \in {"cancelling", "cancelled"}
        /\ run[r].cancel => (run[r].scope <=> st \in ActiveStatuses)
        /\ run[r].cancel => (fi <=> st \in Terminal)
    BY <1>0 DEF Rows, RowRules, Statuses, ActiveStatuses, Terminal
  <2> HIDE DEF st, fi
  <2>3. new \in Rows /\ RowRules(new) /\ Narrows(new, run[r]) /\ new.cancel = run[r].cancel
    <3>1. CASE ~run[r].cancel
      BY <1>0, <3>1 DEF Freed, Rows, RowRules, Narrows
    <3>2. CASE run[r].cancel
      <4>1. new = [run[r] EXCEPT !.token = NoToken, !.live = FALSE,
                                 !.status = st, !.finished = fi]
        BY <1>0, <3>2 DEF Freed, Rows
      <4> HIDE DEF new
      <4> QED
        BY <1>0, <2>2, <3>2, <4>1 DEF Rows, RowRules, Narrows
    <3> QED
      BY <3>1, <3>2
  <2> HIDE DEF new
  <2> QED
    BY <2>1, <2>3, RowOnly
<1>4. ASSUME NEW a \in Actions, ClaimNextAction(r, tok, a)
      PROVE  StoreInv'
  <2>1. UNCHANGED <<run, sent>>
    BY <1>4 DEF ClaimNextAction
  <2>2. act' = [act EXCEPT ![a].state = "running"] /\ act[a].state = "queued"
    BY <1>4 DEF ClaimNextAction, Queued
  <2>3. act' \in [Actions -> ActionRows]
    BY <2>2 DEF ActInv, ActionRows, ActionStates
  <2>4. \A q \in Runs : Queue(q)' \subseteq Queue(q)
    BY <2>2 DEF ActInv, ActionRows, Queue
  <2>5. \A b \in Actions : act'[b].state = "unsent" <=> act[b].state = "unsent"
    BY <2>2 DEF ActInv, ActionRows
  <2>6. RunInv'
    BY <2>1 DEF RunInv, OneScopePerModule
  <2> QED
    BY <2>1, <2>3, <2>4, <2>5, <2>6 DEF ActInv, SentInv, CancelledQueueEmpty
<1> QED
  BY <1>1, <1>2, <1>3, <1>4

(* The requests: create, reopen, enqueue, cancel, and the two clean-ups.    *)
LEMMA RequestedKeepInv ==
  ASSUME StoreInv, NEW r \in Runs, Requested(r)
  PROVE  StoreInv'
<1> USE DEF StoreInv
<1>0. run[r] \in Rows /\ RowRules(run[r])
  BY DEF RunInv
<1>1. ASSUME NEW m \in Modules, NEW q \in Requests \cup {NoRequest}, Create(r, m, q)
      PROVE  StoreInv'
  <2> DEFINE new == [AbsentRow EXCEPT !.status = "queued", !.module = m,
                                      !.request = q, !.scope = TRUE]
  <2>1. run' = [run EXCEPT ![r] = new] /\ UNCHANGED <<act, sent>> /\ ~ScopeTaken(r, m)
    BY <1>1 DEF Create
  <2>2. new \in Rows /\ RowRules(new) /\ new.module = m /\ new.cancel = FALSE
    BY DEF AbsentRow, Rows, RowRules, Statuses, ActiveStatuses, Terminal
  <2>3. run[r].cancel = FALSE
    BY <1>0, <1>1 DEF Create, Exists, Rows, RowRules
  <2> HIDE DEF new
  <2> QED
    BY <2>1, <2>2, <2>3, RowOnly
<1>2. CASE ClaimScope(r)
  <2> DEFINE new == [run[r] EXCEPT !.status = "running", !.scope = TRUE, !.token = NoToken,
                                   !.live = FALSE, !.finished = FALSE]
  <2>1. run' = [run EXCEPT ![r] = new] /\ UNCHANGED <<act, sent>>
    BY <1>2 DEF ClaimScope, Reopenable, RunInv, Rows
  <2>2. ~ScopeTaken(r, run[r].module) /\ ~run[r].cancel
    BY <1>2 DEF ClaimScope, Reopenable
  <2>3. new \in Rows /\ RowRules(new) /\ new.module = run[r].module /\ new.cancel = run[r].cancel
    BY <1>0, <2>2 DEF Rows, RowRules, Statuses, ActiveStatuses, Terminal
  <2> HIDE DEF new
  <2> QED
    BY <2>1, <2>2, <2>3, RowOnly
<1>3. ASSUME NEW its \in Batches, EnqueueActions(r, its)
      PROVE  StoreInv'
  <2> DEFINE new == [run[r] EXCEPT !.status = "running", !.scope = TRUE, !.finished = FALSE]
  <2>1. run' = [run EXCEPT ![r] = new]
    BY <1>3 DEF EnqueueActions, RunInv, Rows
  <2>2. /\ ~ScopeTaken(r, run[r].module)
        /\ ~run[r].cancel
    BY <1>0, <1>3 DEF EnqueueActions, ActionableStatuses, RowRules
  <2>3. new \in Rows /\ RowRules(new) /\ new.module = run[r].module /\ new.cancel = run[r].cancel
    BY <1>0, <2>2 DEF Rows, RowRules, Statuses, ActiveStatuses, Terminal
  <2> HIDE DEF new
  <2>4. RunInv'
    BY <2>1, <2>2, <2>3, RowWrite
  <2>5. Len(its) \in 1..2 /\ \A k \in 1..Len(its) : its[k] \in Items
    BY DEF Batches
  <2>6. sent' \in 0..MaxActions
    BY <1>3, <2>5, MaxActionsAssumption DEF EnqueueActions, ActInv
  <2>7. \A a \in Actions :
          act'[a] = act[a] \/ (act'[a] \in ActionRows /\ act'[a].run = r)
    BY <1>3, <2>5 DEF EnqueueActions, ActionRows, ActionStates, ActInv, Actions
  <2>8. act' \in [Actions -> ActionRows]
    BY <1>3, <2>7 DEF EnqueueActions, ActInv
  <2>9. \A q \in Runs : run'[q].cancel => run[q].cancel /\ q # r
    BY <2>1, <2>2, <2>3 DEF RunInv
  <2>10. \A q \in Runs \ {r} : Queue(q)' \subseteq Queue(q)
    BY <2>7 DEF Queue
  <2>11. SentInv'
    BY <1>3, <2>5, <2>8 DEF EnqueueActions, SentInv, ActInv, ActionRows, Actions
  <2> QED
    BY <2>4, <2>6, <2>8, <2>9, <2>10, <2>11 DEF ActInv, CancelledQueueEmpty
<1>4. CASE RequestCancel(r)
  <2> DEFINE new == [run[r] EXCEPT !.cancel = TRUE, !.status = "cancelling"]
  <2>1. run' = [run EXCEPT ![r] = new] /\ UNCHANGED sent
    BY <1>4 DEF RequestCancel, RunInv, Rows
  <2>2. new \in Rows /\ RowRules(new) /\ Narrows(new, run[r])
    BY <1>0, <1>4 DEF RequestCancel, Exists, Rows, RowRules, Narrows, Statuses, ActiveStatuses, Terminal
  <2> HIDE DEF new
  <2>3. RunInv'
    BY <2>1, <2>2, RowWrite
  <2>4. act' = Settled(r, {"queued", "running"}, "cancelled")
    BY <1>4 DEF RequestCancel
  <2>5. /\ act' \in [Actions -> ActionRows]
        /\ \A q \in Runs : Queue(q)' \subseteq Queue(q)
        /\ \A a \in Actions : act'[a].state = "unsent" <=> act[a].state = "unsent"
    BY <2>4, SettledShrinks DEF ActInv
  <2>6. Queue(r)' = {}
    BY <2>4 DEF Settled, Queue, ActInv, ActionRows
  <2>7. \A q \in Runs \ {r} : run'[q].cancel = run[q].cancel
    BY <2>1 DEF RunInv
  <2> QED
    BY <2>1, <2>3, <2>5, <2>6, <2>7 DEF ActInv, SentInv, CancelledQueueEmpty
<1>5. CASE DiscardStaleWorker(r) \/ ClearExpiredWorker(r, {"awaiting_action", "completed", "failed", "cancelled"})
  <2>1. run' = [run EXCEPT ![r] = Freed(run[r])] /\ UNCHANGED <<act, sent>>
    BY <1>5 DEF DiscardStaleWorker, ClearExpiredWorker, RunInv
  <2>2. /\ Freed(run[r]) \in Rows /\ RowRules(Freed(run[r]))
        /\ Narrows(Freed(run[r]), run[r]) /\ Freed(run[r]).cancel = run[r].cancel
    BY <1>0 DEF Freed, Rows, RowRules, Narrows
  <2> QED
    BY <2>1, <2>2, RowOnly
<1> QED
  BY <1>1, <1>2, <1>3, <1>4, <1>5 DEF Requested

-----------------------------------------------------------------------------
(* Every transaction keeps the inductive invariant.                         *)
LEMMA StoreStepInv == StoreInv /\ [StoreNext]_storeVars => StoreInv'
<1> SUFFICES ASSUME StoreInv, [StoreNext]_storeVars PROVE StoreInv'
  OBVIOUS
<1>1. ASSUME NEW r \in Runs, LeaseExpires(r) PROVE StoreInv'
  <2> DEFINE new == [run[r] EXCEPT !.live = FALSE]
  <2>0. run[r] \in Rows /\ RowRules(run[r])
    BY DEF StoreInv, RunInv
  <2>1. run' = [run EXCEPT ![r] = new] /\ UNCHANGED <<act, sent>>
    BY <1>1 DEF LeaseExpires, StoreInv, RunInv, Rows
  <2>2. new \in Rows /\ RowRules(new) /\ Narrows(new, run[r]) /\ new.cancel = run[r].cancel
    BY <2>0 DEF Rows, RowRules, Narrows
  <2> HIDE DEF new
  <2> QED
    BY <2>1, <2>2, RowOnly
<1>2. CASE UNCHANGED storeVars
  BY <1>2 DEF storeVars, StoreInv, RunInv, ActInv, OneScopePerModule, SentInv,
              CancelledQueueEmpty, Queue
<1> QED
  BY <1>1, <1>2, WritesKeepInv, WorkerCallsKeepInv, RequestedKeepInv DEF StoreNext

(* The inductive invariant holds in every reachable state.                  *)
THEOREM StoreInvariant == StoreSpec => []StoreInv
BY StoreInitInv, StoreStepInv, PTL DEF StoreSpec

(* Every row and action keeps its type, for every number of runs, workers   *)
(* and actions.                                                             *)
THEOREM StoreTypeSafety == StoreSpec => []StoreTypeOK
<1>1. StoreInv => StoreTypeOK
  BY DEF StoreInv, RunInv, ActInv, StoreTypeOK, ActionRows
<1> QED
  BY <1>1, StoreInvariant, PTL

(* The scope key agrees with the status of every run in every state.        *)
THEOREM ScopeAgrees == StoreSpec => []ScopeMatchesStatus
<1>1. StoreInv => ScopeMatchesStatus
  BY DEF StoreInv, RunInv, RowRules, ScopeMatchesStatus
<1> QED
  BY <1>1, StoreInvariant, PTL

(* No two unfinished runs share a module, in every state.                   *)
THEOREM ModuleExclusion == StoreSpec => []OneRunPerModule
<1>1. StoreInv => OneRunPerModule
  BY DEF StoreInv, RunInv, RowRules, OneScopePerModule, OneRunPerModule
<1> QED
  BY <1>1, StoreInvariant, PTL

(* Cancellation is never undone by a late write.                            *)
THEOREM CancelIsFinal == StoreSpec => []CancelWins
<1>1. StoreInv => CancelWins
  BY DEF StoreInv, RunInv, RowRules, CancelWins
<1> QED
  BY <1>1, StoreInvariant, PTL

(* finished_at is set exactly on the runs that are over.                    *)
THEOREM FinishedAgrees == StoreSpec => []FinishedIffTerminal
<1>1. StoreInv => FinishedIffTerminal
  BY DEF StoreInv, RunInv, RowRules, FinishedIffTerminal
<1> QED
  BY <1>1, StoreInvariant, PTL

(* A cancelled run has an empty queue for good.                             *)
THEOREM CancelDrainsQueue == StoreSpec => []CancelledQueueEmpty
<1>1. StoreInv => CancelledQueueEmpty
  BY DEF StoreInv, ActInv
<1> QED
  BY <1>1, StoreInvariant, PTL

-----------------------------------------------------------------------------
(* A write never changes a terminal status; that a completed row is not     *)
(* turned into cancelling needs the row rules.                              *)
LEMMA WritesKeepTerminal ==
  ASSUME NEW row \in Rows, RowRules(row), row.status \in Terminal,
         NEW tok, NEW d, NEW step, NEW initial, NEW pending, NEW s
  PROVE  /\ Saved(row, tok, d, step, initial, pending).status = row.status
         /\ Marked(row, s).status = row.status
<1>1. Saved(row, tok, d, step, initial, pending).status = row.status
  BY DEF Saved, Rows, Terminal
<1>2. MarkedFailed(row).status = row.status
  BY DEF MarkedFailed, Rows, RowRules, Terminal
<1>3. MarkedCancelled(row).status = row.status
  BY DEF MarkedCancelled, Rows
<1>4. MarkedOther(row, s).status = row.status
  BY DEF MarkedOther, Rows
<1> QED
  BY <1>1, <1>2, <1>3, <1>4 DEF Marked

\* The step relation of TerminalSettled for one run.
TerminalKept(r) ==
  /\ run[r].status \in {"failed", "cancelled"} => run'[r].status = run[r].status
  /\ run[r].status = "completed" =>
       \/ run'[r].status = "completed"
       \/ run'[r].status = "running" /\ ~ScopeTaken(r, run[r].module)

(* No transaction leaves failed or cancelled, and only the two that look    *)
(* for another owner of the module leave completed.                         *)
LEMMA TerminalStep ==
  ASSUME StoreInv, StoreNext
  PROVE  \A r \in Runs : TerminalKept(r)
<1> USE DEF StoreInv, RunInv
<1>1. PICK q \in Runs : Writes(q) \/ WorkerCalls(q) \/ Requested(q) \/ LeaseExpires(q)
  BY DEF StoreNext
<1>2. CASE \A r \in Runs : run[r].status \in Terminal => run'[r].status = run[r].status
  BY <1>2 DEF TerminalKept, Terminal
<1>3. CASE Writes(q)
  <2>1. PICK tok \in Tokens \cup {NoToken} :
           \/ \E d \in Docs, step \in StepStatuses, initial, pending \in BOOLEAN :
                SaveState(q, tok, d, step, initial, pending)
           \/ \E s \in {"running", "awaiting_action", "failing", "failed",
                        "completed", "cancelled"} : UpdateStatus(q, tok, s)
           \/ \E a \in Actions, result \in {"succeeded", "failed"} :
                FinishAction(q, tok, a, result)
    BY <1>3 DEF Writes
  <2>2. ASSUME NEW d \in Docs, NEW step \in StepStatuses,
               NEW initial \in BOOLEAN, NEW pending \in BOOLEAN,
               SaveState(q, tok, d, step, initial, pending)
        PROVE  \A r \in Runs : run[r].status \in Terminal => run'[r].status = run[r].status
    BY <2>2, WritesKeepTerminal DEF SaveState
  <2>3. ASSUME NEW s, UpdateStatus(q, tok, s)
        PROVE  \A r \in Runs : run[r].status \in Terminal => run'[r].status = run[r].status
    BY <2>3, WritesKeepTerminal DEF UpdateStatus
  <2>4. ASSUME NEW a, NEW result, FinishAction(q, tok, a, result)
        PROVE  \A r \in Runs : run[r].status \in Terminal => run'[r].status = run[r].status
    BY <2>4 DEF FinishAction
  <2> QED
    BY <1>2, <2>1, <2>2, <2>3, <2>4
<1>4. CASE WorkerCalls(q)
  <2>1. PICK tok \in Tokens :
           \/ ClaimWorker(q, tok) \/ HeartbeatWorker(q, tok)
           \/ \E force \in BOOLEAN : ReleaseWorker(q, tok, force)
           \/ \E a \in Actions : ClaimNextAction(q, tok, a)
    BY <1>4 DEF WorkerCalls
  <2>2. CASE ClaimWorker(q, tok) \/ HeartbeatWorker(q, tok)
    BY <1>2, <2>2 DEF ClaimWorker, HeartbeatWorker, Rows
  <2>3. ASSUME NEW force, ReleaseWorker(q, tok, force)
        PROVE  \A r \in Runs : run[r].status \in Terminal => run'[r].status = run[r].status
    BY <2>3 DEF ReleaseWorker, Freed, Rows
  <2>4. ASSUME NEW a, ClaimNextAction(q, tok, a)
        PROVE  \A r \in Runs : run[r].status \in Terminal => run'[r].status = run[r].status
    BY <2>4 DEF ClaimNextAction
  <2> QED
    BY <1>2, <2>1, <2>2, <2>3, <2>4
<1>5. CASE Requested(q)
  <2>1. ASSUME NEW m, NEW c, Create(q, m, c)
        PROVE  \A r \in Runs : run[r].status \in Terminal => run'[r].status = run[r].status
    BY <2>1 DEF Create, Exists, Terminal
  <2>2. ASSUME ClaimScope(q) \/ \E its \in Batches : EnqueueActions(q, its)
        PROVE  /\ \A r \in Runs \ {q} : run'[r].status = run[r].status
               /\ run[q].status \in ActionableStatuses /\ run'[q].status = "running"
               /\ ~ScopeTaken(q, run[q].module)
    BY <2>2 DEF ClaimScope, Reopenable, EnqueueActions, Rows
  <2>3. CASE ClaimScope(q) \/ \E its \in Batches : EnqueueActions(q, its)
    BY <2>2, <2>3 DEF TerminalKept, ActionableStatuses
  <2>4. CASE RequestCancel(q)
    BY <1>2, <2>4 DEF RequestCancel, Rows
  <2>5. CASE DiscardStaleWorker(q)
             \/ ClearExpiredWorker(q, {"awaiting_action", "completed", "failed", "cancelled"})
    <3>1. run' = [run EXCEPT ![q] = Freed(run[q])]
      BY <2>5 DEF DiscardStaleWorker, ClearExpiredWorker
    <3>2. Freed(run[q]).status = run[q].status
      BY DEF Freed, Rows
    <3> QED
      BY <1>2, <3>1, <3>2
  <2> QED
    BY <1>2, <1>5, <2>1, <2>3, <2>4, <2>5 DEF Requested
<1>6. CASE LeaseExpires(q)
  BY <1>2, <1>6 DEF LeaseExpires, Rows
<1> QED
  BY <1>1, <1>3, <1>4, <1>5, <1>6

(* Finished runs stay finished, and a completed one reopens only when its   *)
(* module is free.                                                          *)
THEOREM TerminalIsSettled == StoreSpec => TerminalSettled
<1>1. StoreInv /\ [StoreNext]_storeVars =>
        [\A r \in Runs : TerminalKept(r)]_storeVars
  BY TerminalStep
<1> QED
  BY <1>1, StoreInvariant, PTL DEF StoreSpec, TerminalSettled, TerminalKept

\* The step relations of NeverReplayed and TakeoverFenced.
OutcomeKept(a) ==
  /\ act[a].state = "running" => act'[a].state # "queued"
  /\ act[a].state \in {"succeeded", "failed", "cancelled"} => act'[a] = act[a]

TokenFenced(r) ==
  run[r].token # NoToken /\ run'[r].token \notin {NoToken, run[r].token} =>
    /\ ~run[r].live
    /\ \A a \in Actions : act'[a].run = r => act'[a].state # "running"

(* No transaction puts a started action back or rewrites a reported one.    *)
LEMMA OutcomeStep ==
  ASSUME StoreInv, StoreNext
  PROVE  \A a \in Actions : OutcomeKept(a)
<1> USE DEF StoreInv, ActInv
<1>1. PICK q \in Runs : Writes(q) \/ WorkerCalls(q) \/ Requested(q) \/ LeaseExpires(q)
  BY DEF StoreNext
<1>2. CASE act' = act
  BY <1>2 DEF OutcomeKept
<1>3. ASSUME NEW from \in SUBSET {"queued", "running"}, NEW s \in {"failed", "cancelled"},
             act' = Settled(q, from, s)
      PROVE  \A a \in Actions : OutcomeKept(a)
  BY <1>3 DEF Settled, OutcomeKept, ActionRows
<1>4. ASSUME NEW tok, NEW a \in Actions, NEW result \in {"succeeded", "failed"},
             FinishAction(q, tok, a, result)
      PROVE  \A b \in Actions : OutcomeKept(b)
  BY <1>4 DEF FinishAction, Queue, OutcomeKept, ActionRows
<1>5. ASSUME NEW tok, NEW a \in Actions, ClaimNextAction(q, tok, a)
      PROVE  \A b \in Actions : OutcomeKept(b)
  BY <1>5 DEF ClaimNextAction, Queued, OutcomeKept, ActionRows
<1>6. ASSUME NEW its \in Batches, EnqueueActions(q, its)
      PROVE  \A b \in Actions : OutcomeKept(b)
  <2>1. Len(its) \in 1..2
    BY DEF Batches
  <2>2. \A b \in Actions : act'[b] = act[b] \/ b > sent
    BY <1>6, <2>1 DEF EnqueueActions, Actions
  <2> QED
    BY <2>2 DEF SentInv, OutcomeKept
<1>7. ASSUME NEW tok, ClaimWorker(q, tok) PROVE \A b \in Actions : OutcomeKept(b)
  BY <1>2, <1>3, <1>7 DEF ClaimWorker
<1>8. CASE RequestCancel(q)
  BY <1>3, <1>8 DEF RequestCancel
<1>9. CASE Writes(q)
  BY <1>2, <1>4, <1>9 DEF Writes, SaveState, UpdateStatus
<1>10. CASE WorkerCalls(q)
  BY <1>2, <1>5, <1>7, <1>10 DEF WorkerCalls, HeartbeatWorker, ReleaseWorker
<1>11. CASE Requested(q)
  BY <1>2, <1>6, <1>8, <1>11
     DEF Requested, Create, ClaimScope, Reopenable, DiscardStaleWorker, ClearExpiredWorker
<1>12. CASE LeaseExpires(q)
  BY <1>2, <1>12 DEF LeaseExpires
<1> QED
  BY <1>1, <1>9, <1>10, <1>11, <1>12

(* A started action is never queued again and its outcome never rewritten.  *)
THEOREM ActionsNeverReplayed == StoreSpec => NeverReplayed
<1>1. StoreInv /\ [StoreNext]_storeVars => [\A a \in Actions : OutcomeKept(a)]_storeVars
  BY OutcomeStep
<1> QED
  BY <1>1, StoreInvariant, PTL DEF StoreSpec, NeverReplayed, OutcomeKept

(* Only claim_worker installs a token, and only over an expired one.        *)
LEMMA TokenStep ==
  ASSUME StoreInv, StoreNext
  PROVE  \A r \in Runs : TokenFenced(r)
<1> USE DEF StoreInv, RunInv
<1>1. PICK q \in Runs : Writes(q) \/ WorkerCalls(q) \/ Requested(q) \/ LeaseExpires(q)
  BY DEF StoreNext
<1>2. CASE \A r \in Runs : run'[r].token \in {run[r].token, NoToken}
  BY <1>2 DEF TokenFenced
<1>3. ASSUME NEW tok, NEW d \in Docs, NEW step \in StepStatuses, NEW initial \in BOOLEAN,
             NEW pending \in BOOLEAN, SaveState(q, tok, d, step, initial, pending)
      PROVE  \A r \in Runs : TokenFenced(r)
  BY <1>2, <1>3, SavedKeepsRules DEF SaveState, Exists
<1>4. ASSUME NEW tok,
             NEW s \in {"running", "awaiting_action", "failing", "failed",
                       "completed", "cancelled"}, UpdateStatus(q, tok, s)
      PROVE  \A r \in Runs : TokenFenced(r)
  BY <1>2, <1>4, MarkedKeepsRules DEF UpdateStatus, Exists
<1>5. ASSUME NEW tok \in Tokens, ClaimWorker(q, tok)
      PROVE  \A r \in Runs : TokenFenced(r)
  <2>1. \A r \in Runs \ {q} : run'[r].token = run[r].token
    BY <1>5 DEF ClaimWorker
  <2>2. CASE ~TakesOver(run[q], tok)
    BY <1>5, <2>1, <2>2 DEF ClaimWorker, TakesOver, HeldByOther, TokenFenced, Rows
  <2>3. CASE TakesOver(run[q], tok)
    <3>1. act' = Settled(q, {"running"}, "failed") /\ ~run[q].live
      BY <1>5, <2>3 DEF ClaimWorker, TakesOver
    <3>2. \A a \in Actions : act'[a].run = q => act'[a].state # "running"
      BY <3>1 DEF Settled, ActInv, ActionRows
    <3> QED
      BY <2>1, <3>1, <3>2 DEF TokenFenced
  <2> QED
    BY <2>2, <2>3
<1>6. CASE Writes(q)
  BY <1>2, <1>3, <1>4, <1>6 DEF Writes, FinishAction
<1>7. CASE WorkerCalls(q)
  <2>1. ASSUME NEW force, NEW tok, ReleaseWorker(q, tok, force)
        PROVE  \A r \in Runs : run'[r].token \in {run[r].token, NoToken}
    BY <2>1 DEF ReleaseWorker, Freed, Rows
  <2>2. ASSUME NEW tok, HeartbeatWorker(q, tok)
        PROVE  \A r \in Runs : run'[r].token \in {run[r].token, NoToken}
    BY <2>2 DEF HeartbeatWorker, Rows
  <2> QED
    BY <1>2, <1>5, <1>7, <2>1, <2>2 DEF WorkerCalls, ClaimNextAction
<1>8. CASE Requested(q)
  <2> DEFINE Kept == \A r \in Runs : run'[r].token \in {run[r].token, NoToken}
  <2>1. ASSUME NEW m, NEW c, Create(q, m, c) PROVE Kept
    BY <2>1 DEF Create, AbsentRow
  <2>2. ASSUME ClaimScope(q) PROVE Kept
    BY <2>2 DEF ClaimScope, Reopenable, Rows
  <2>3. ASSUME NEW its, EnqueueActions(q, its) PROVE Kept
    BY <2>3 DEF EnqueueActions, Rows
  <2>4. ASSUME RequestCancel(q) PROVE Kept
    BY <2>4 DEF RequestCancel, Rows
  <2>5. ASSUME \/ DiscardStaleWorker(q)
               \/ ClearExpiredWorker(q, {"awaiting_action", "completed",
                                         "failed", "cancelled"})
        PROVE  Kept
    BY <2>5 DEF DiscardStaleWorker, ClearExpiredWorker, Freed, Rows
  <2> QED
    BY <1>2, <1>8, <2>1, <2>2, <2>3, <2>4, <2>5 DEF Requested
<1>9. CASE LeaseExpires(q)
  BY <1>2, <1>9 DEF LeaseExpires, Rows
<1> QED
  BY <1>1, <1>6, <1>7, <1>8, <1>9

(* A takeover needs an expired lease and leaves no started action behind.   *)
THEOREM TakeoverIsFenced == StoreSpec => TakeoverFenced
<1>1. StoreInv /\ [StoreNext]_storeVars => [\A r \in Runs : TokenFenced(r)]_storeVars
  BY TokenStep
<1> QED
  BY <1>1, StoreInvariant, PTL DEF StoreSpec, TakeoverFenced, TokenFenced
=============================================================================
