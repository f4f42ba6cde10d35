------------------------- MODULE PreparationWorkers -------------------------
(***************************************************************************)
(* The workers, requests and recoveries of ModuleScriptPreparationManager  *)
(* that drive ONE preparation run R over the table of PreparationRunStore. *)
(*                                                                         *)
(* Every step is one committed transaction of the repository, one          *)
(* acquisition or release of the module's target lease, or the outcome of  *)
(* one external operation; in between another thread, gunicorn process or  *)
(* writer of the scripts may run.  A thread is a background worker         *)
(* (run_initial, run_actions) or an HTTP request (edit, adoption of        *)
(* external versions, cancel).  A thread whose token is no longer in the   *)
(* row raises at its next fenced call and ends: Quit.                      *)
(*                                                                         *)
(* Three moments one call passes through without anything that tells them  *)
(* apart are one step: a stage's end and the next stage's begin, a read of *)
(* the row directly followed by another, and the two writes of an          *)
(* abandon.  Bounds: MaxRev, MaxFaults, MaxActions.                        *)
(***************************************************************************)
EXTENDS PreparationRunStore

CONSTANTS
  R,            \* the run
  Threads,      \* threads that may work on it at one time
  MaxRev,       \* bound: how often one script file changes
  MaxFaults,    \* bound: threads that die, and leases that run out under a live worker
  Lapses,       \* whether the 30 s lease of a live thread may run out (workers renew it every
                \* 5 s; an edit and an adoption, a few transactions long, do not)
  Free, External  \* target lease: nobody; a writer outside this run

ASSUME RunsAssumption == Runs = {R}
ASSUME LeaseAssumption == {Free, External} \cap Threads = {} /\ Free # External
ASSUME BoundsAssumption == MaxRev \in Nat /\ MaxFaults \in Nat /\ Lapses \in BOOLEAN

VARIABLES
  rev,       \* [Items -> 0..MaxRev] revision of each script file, 0: no file
  passed,    \* [Items -> SUBSET 1..MaxRev] revisions an execution accepted
  lease,     \* owner of the module's target lease
  th,        \* [Threads -> record] program counter and memory of each thread
  faults     \* how many of them have happened

fileVars == <<rev, passed>>
vars == <<run, act, sent, rev, passed, lease, th, faults>>

row == run[R]

-----------------------------------------------------------------------------
(* state_json.  open: items with a stage left "running" while their status  *)
(* is not busy; "review" has a pending human_review stage, "parked" awaits  *)
(* a human without one.                                                     *)
ItemStates == {"queued", "busy", "review", "parked", "ready", "abandoned"}
Documents == [st : [Items -> ItemStates], rev : [Items -> 0..MaxRev],
              open : SUBSET Items, initial : BOOLEAN]

\* A row holds no document or one of these.
ASSUME DocsAssumption == Docs = Documents /\ NoDoc \notin Documents

NewDoc == [st |-> [i \in Items |-> "queued"], rev |-> [i \in Items |-> 0],
           open |-> {}, initial |-> FALSE]

AllTerminal(d) == \A i \in Items : d.st[i] \in {"ready", "abandoned"}
StepOf(d) ==
  IF AllTerminal(d) THEN "succeeded"
  ELSE IF \E i \in Items : d.st[i] \in {"queued", "busy"} THEN "running"
  ELSE "awaiting_action"

Running(d) == IF d = NoDoc THEN {} ELSE {i \in Items : d.st[i] = "busy"} \cup d.open
Interrupted(d) == d # NoDoc /\ (Running(d) # {} \/ \E i \in Items : d.st[i] = "review")
Stale(d) == {i \in Items : d.rev[i] # rev[i]}
Unverified(d) == IF d = NoDoc THEN {} ELSE Stale(d) \ Running(d)

Put(d, i, s) == [d EXCEPT !.st[i] = s]

\* Mutants of Adopted: the status is not one of the workflow; the new revision
\* keeps the old verdict.
AdoptedUnknown(d, S) ==
  [d EXCEPT !.rev = [i \in Items |-> IF i \in S THEN rev[i] ELSE d.rev[i]],
            !.st = [i \in Items |-> IF i \in S THEN "awaiting_human" ELSE d.st[i]]]

AdoptedKeepsStatus(d, S) ==
  [d EXCEPT !.rev = [i \in Items |-> IF i \in S THEN rev[i] ELSE d.rev[i]]]

(* adopt_external_versions: new revision, new pending review. *)
Adopted(d, S) ==
  [d EXCEPT !.rev = [i \in Items |-> IF i \in S THEN rev[i] ELSE d.rev[i]],
            !.st = [i \in Items |-> IF i \in S THEN "review" ELSE d.st[i]],
            !.open = @ \cup {i \in S : d.st[i] = "busy"}]

(* _reconcile_assets: interrupted items take the file's revision. *)
Resynced(d) ==
  [d EXCEPT !.rev = [i \in Items |-> IF i \in Running(d) THEN rev[i] ELSE d.rev[i]]]

(* _recover_interrupted_state: interrupted items wait for a human. *)
Recovered(d) ==
  [d EXCEPT !.st = [i \in Items |-> IF i \in Running(d) THEN "review" ELSE d.st[i]],
            !.open = {i \in d.open : d.st[i] = "busy"}]

\* Mutant of Closed: items waiting for a human are left as they are.
ClosedBusyOnly(d) ==
  [d EXCEPT !.st = [i \in Items |-> IF i \in Running(d) \/ d.st[i] = "queued"
                                    THEN "abandoned" ELSE d.st[i]],
            !.open = {}]

(* finalize_interrupted: whatever is unfinished is abandoned. *)
Closed(d) ==
  [d EXCEPT !.st = [i \in Items |->
                      IF d.st[i] \in {"ready", "abandoned"} /\ i \notin d.open
                      THEN d.st[i] ELSE "abandoned"],
            !.open = {}]

-----------------------------------------------------------------------------
Resting == {"awaiting_action", "completed", "failed", "cancelled"}

\* get_snapshot and needs_recovery: nothing is left to do, an expired token is dropped.
AtRest ==
  row.status \in Resting /\ ~(row.status = "awaiting_action" /\ Interrupted(row.doc))

\* Mutants of NeedsRecovery: a cancel that no worker took is not recovered; an
\* expired token counts as a worker.
NeedsRecoveryNotCancelling ==
  /\ Exists(R)
  /\ ~AtRest
  /\ row.status # "cancelling"
  /\ row.token = NoToken \/ ~row.live

NeedsRecoveryUnowned ==
  /\ Exists(R)
  /\ ~AtRest
  /\ row.token = NoToken

NeedsRecovery ==
  /\ Exists(R)
  /\ ~AtRest
  /\ \/ row.status \in {"queued", "running", "failing", "cancelling"}
     \/ Queue(R) # {}
     \/ row.token # NoToken
  /\ row.token = NoToken \/ ~row.live

Idle == [pc |-> "idle", job |-> "none", tok |-> NoToken, doc |-> NoDoc,
         item |-> NoItem, a |-> 0, op |-> "none", next |-> "none", fin |-> "none"]

\* worker_token = uuid4: nobody has it yet.
IsFresh(tok) == tok # row.token /\ \A t \in Threads : th[t].tok # tok
FreshToken == CHOOSE tok \in Tokens : IsFresh(tok)

Lost(t) == th[t].tok # NoToken /\ row.token # th[t].tok
CanLock(t) == lease \in {Free, t}
Unlock(t) == lease' = IF lease = t THEN Free ELSE lease

\* Thread t moves to record x; the budgets are untouched.
Step(t, x) == th' = [th EXCEPT ![t] = x] /\ UNCHANGED faults
At(t, pc) == [th[t] EXCEPT !.pc = pc]

\* t has document d in memory and persists it, then goes on at nxt.
Saving(t, d, nxt) == [th[t] EXCEPT !.pc = "save", !.doc = d, !.next = nxt]

\* t closes the document before it reports the final status f.
Closing(t, f) == [th[t] EXCEPT !.pc = "close", !.fin = f, !.doc = NoDoc,
                               !.item = NoItem, !.op = "none"]

-----------------------------------------------------------------------------
(* Requests and recoveries: what an idle thread may start. *)
CreateRun(t) ==
  /\ \E m \in Modules : Create(R, m, NoRequest)
  /\ Step(t, [Idle EXCEPT !.pc = "claim", !.job = "initial"])
  /\ UNCHANGED <<fileVars, lease>>

(* needs_recovery, asked by a poll; the thread it starts runs run_recovery. *)
Recover(t) ==
  /\ NeedsRecovery
  /\ Step(t, [Idle EXCEPT !.pc = "route"])
  /\ UNCHANGED <<storeVars, fileVars, lease>>

\* The checks of get_snapshot and _validate_item_action on item i.
Actionable(t, i) ==
  /\ row.status \in ActionableStatuses
  /\ ~row.cancel /\ row.token = NoToken
  /\ row.doc # NoDoc
  /\ Unverified(row.doc) = {} /\ CanLock(t)
  /\ row.doc.st[i] \notin {"busy", "queued"}

(* apply_or_enqueue_action and enqueue_batch: the queue is extended, then a *)
(* background thread is started.                                            *)
Enqueue(t, its) ==
  /\ \A k \in 1..Len(its) : Actionable(t, its[k])
  /\ EnqueueActions(R, its)
  /\ Step(t, [Idle EXCEPT !.pc = "claim", !.job = "actions"])
  /\ UNCHANGED <<fileVars, lease>>

EditRequest(t, i) ==
  /\ Actionable(t, i)
  /\ row.doc.rev[i] # 0
  /\ Step(t, [Idle EXCEPT !.pc = "scope", !.job = "edit", !.item = i])
  /\ UNCHANGED <<storeVars, fileVars, lease>>

(* _reconcile_external_assets of a GET request: the lease stays held. *)
AdoptRequest(t) ==
  /\ row.status \in ActionableStatuses
  /\ Unverified(row.doc) # {}
  /\ lease = Free
  /\ lease' = t
  /\ Step(t, [Idle EXCEPT !.pc = "scope", !.job = "adopt"])
  /\ UNCHANGED <<storeVars, fileVars>>

\* Mutant of CancelRequest: an unowned run is cancelled in one write.
CancelInPlace(t) ==
  /\ Exists(R) /\ row.status \notin Terminal
  /\ run' = [run EXCEPT ![R].cancel = TRUE, ![R].status = "cancelled"]
  /\ UNCHANGED <<act, sent, th, faults, fileVars, lease>>

(* cancel: without a worker the request itself closes the run. *)
CancelRequest(t) ==
  /\ RequestCancel(R)
  /\ IF row.token = NoToken
     THEN Step(t, [Closing(t, "cancelled") EXCEPT !.job = "cancel"])
     ELSE UNCHANGED <<th, faults>>
  /\ UNCHANGED <<fileVars, lease>>

Request(t) ==
  /\ th[t] = Idle
  /\ \/ CreateRun(t) \/ AdoptRequest(t) \/ CancelRequest(t)
     \/ \E its \in Batches : Enqueue(t, its)
     \/ \E i \in Items : EditRequest(t, i)

(* get_snapshot and needs_recovery of a run at rest. *)
ForgetWorker ==
  /\ AtRest
  /\ ClearExpiredWorker(R, Resting)
  /\ UNCHANGED <<fileVars, lease, th, faults>>

-----------------------------------------------------------------------------
(* Steps the jobs share. *)
Nested(t) == th[t].job = "actions" /\ th[t].a # 0   \* adoption inside run_actions

\* A refused adoption or edit; inside run_actions only the action fails.
Refused(t) == IF Nested(t) THEN [At(t, "finish") EXCEPT !.fin = "failed"] ELSE Idle

\* Mutant of Scope: the run is reopened but no worker is claimed.
ScopeUnclaimed(t) ==
  /\ th[t].pc = "scope"
  /\ ClaimScope(R)
  /\ Step(t, IF th[t].job = "edit" THEN At(t, "load") ELSE At(t, "adopt"))
  /\ UNCHANGED <<fileVars, lease>>

Scope(t) ==
  /\ th[t].pc = "scope"
  /\ \/ ClaimScope(R) /\ Step(t, At(t, "claim")) /\ UNCHANGED lease
     \/ ~Reopenable(R) /\ Step(t, Refused(t)) /\ Unlock(t) /\ UNCHANGED storeVars
  /\ UNCHANGED fileVars

\* Where a thread goes with the worker token in its hands.
Started(t, took) ==
  CASE th[t].job = "initial" -> At(t, "start")
    [] th[t].job = "edit" -> At(t, "load")
    [] th[t].job = "adopt" \/ Nested(t) -> At(t, "adopt")
    [] OTHER -> IF took THEN [At(t, "reconcile") EXCEPT !.next = "recover"] ELSE At(t, "next")

Claim(t) ==
  /\ th[t].pc = "claim"
  /\ \E tok \in Tokens : IsFresh(tok)                     \* bound
  /\ LET tok == FreshToken IN
     \/ /\ ClaimWorker(R, tok)
        /\ Step(t, [Started(t, TakesOver(row, tok)) EXCEPT !.tok = tok])
        /\ UNCHANGED lease
     \/ /\ ~Claimable(row) \/ HeldByOther(row, tok)
        /\ IF ~Claimable(row) /\ row.token # NoToken /\ ~row.live
           THEN DiscardStaleWorker(R) ELSE UNCHANGED storeVars
        /\ Step(t, Refused(t))
        /\ Unlock(t)
  /\ UNCHANGED fileVars

(* _persist: save_state, then update_status unless every item is terminal. *)
Save(t) ==
  /\ th[t].pc = "save"
  /\ LET d == th[t].doc IN
     /\ SaveState(R, th[t].tok, d, StepOf(d), d.initial, Queue(R) # {})
     /\ Step(t, At(t, IF AllTerminal(d) THEN th[t].next ELSE "mark"))
  /\ UNCHANGED <<fileVars, lease>>

Mark(t) ==
  /\ th[t].pc = "mark"
  /\ UpdateStatus(R, th[t].tok, StepOf(th[t].doc))
  /\ Step(t, At(t, th[t].next))
  /\ UNCHANGED <<fileVars, lease>>

(* _finalize_cancelled_state and finalize_interrupted *)
Close(t) ==
  /\ th[t].pc = "close"
  /\ LET d == IF row.doc # NoDoc THEN Closed(row.doc)
              ELSE IF th[t].fin = "cancelled" THEN [Closed(NewDoc) EXCEPT !.initial = TRUE]
              ELSE NoDoc
     IN  Step(t, IF d = row.doc THEN At(t, "end") ELSE Saving(t, d, "end"))
  /\ UNCHANGED <<storeVars, fileVars, lease>>

(* The final status; a failure that lost to a cancel is closed as cancelled. *)
End(t) ==
  /\ th[t].pc = "end"
  /\ UpdateStatus(R, th[t].tok, th[t].fin)
  /\ IF th[t].fin = "failed" /\ run'[R].status = "cancelling"
     THEN Step(t, Closing(t, "cancelled")) /\ UNCHANGED lease
     ELSE IF th[t].tok # NoToken
     THEN Step(t, [At(t, "release") EXCEPT !.doc = NoDoc]) /\ UNCHANGED lease
     ELSE Step(t, IF Nested(t) THEN At(t, "apply") ELSE Idle) /\ Unlock(t)
  /\ UNCHANGED fileVars

(* The finally of an edit or adoption: a cancel is settled before and after *)
(* the token is given back, the second time without a fence.                *)
Finally(t) ==
  /\ th[t].pc \in {"post", "leave"}
  /\ IF row.cancel
     THEN Step(t, Closing(t, "cancelled")) /\ UNCHANGED lease
     ELSE IF th[t].pc = "post"
     THEN Step(t, [At(t, "release") EXCEPT !.doc = NoDoc]) /\ UNCHANGED lease
     ELSE Step(t, IF Nested(t) THEN At(t, "apply") ELSE Idle) /\ Unlock(t)
  /\ UNCHANGED <<storeVars, fileVars>>

\* run_actions gives the token back only with an empty queue, unless it was stopped.
Release(t) ==
  /\ th[t].pc = "release"
  /\ LET forced == th[t].job # "actions" \/ Nested(t) \/ th[t].fin # "none" IN
     \/ /\ IF th[t].tok = NoToken THEN UNCHANGED storeVars
           ELSE ReleaseWorker(R, th[t].tok, forced)
        /\ IF th[t].job \in {"edit", "adopt"} \/ Nested(t)
           THEN Step(t, [At(t, "leave") EXCEPT !.tok = NoToken]) /\ UNCHANGED lease
           ELSE Step(t, Idle) /\ Unlock(t)
     \/ /\ ~forced /\ Queued(R) # {} /\ ~Lost(t)
        /\ Step(t, At(t, "next"))
        /\ UNCHANGED <<storeVars, lease>>
  /\ UNCHANGED fileVars

\* The program counters at which the next call carries the token.
Fenced == {"save", "mark", "resync", "op", "fail", "end", "next", "finish", "beat",
           "sealed", "complete", "resettle", "release"}

\* The lease was lost: the call raises, and so does every handler's own write.
Quit(t) ==
  /\ th[t].pc \in Fenced
  /\ Lost(t)
  /\ Step(t, Idle) /\ Unlock(t)
  /\ UNCHANGED <<storeVars, fileVars>>

-----------------------------------------------------------------------------
(* run_recovery chooses the worker before it claims the run. *)
Route(t) ==
  /\ th[t].pc = "route"
  /\ Step(t, [At(t, "claim") EXCEPT
                !.job = IF row.status # "failing" /\ Queue(R) # {} THEN "actions" ELSE "initial"])
  /\ UNCHANGED <<storeVars, fileVars, lease>>

(* run_initial; _new_state raises when a plan or its prompt is unusable. *)
Start(t) ==
  /\ th[t].pc = "start"
  /\ \/ /\ row.doc = NoDoc /\ ~row.cancel /\ row.status # "failing"
        /\ Step(t, At(t, "fail"))
     \/ Step(t, IF row.cancel THEN Closing(t, "cancelled")
                ELSE IF row.status = "failing"
                THEN [At(t, "reconcile") EXCEPT !.next = "close", !.fin = "failed"]
                ELSE IF row.doc # NoDoc THEN [At(t, "reconcile") EXCEPT !.next = "resume"]
                ELSE Saving(t, NewDoc, "loop"))
  /\ UNCHANGED <<storeVars, fileVars, lease>>

(* _reconcile_interrupted_assets; ScriptTargetBusy ends the job. *)
Reconcile(t) ==
  /\ th[t].pc = "reconcile"
  /\ LET d == row.doc IN
     \/ Running(d) = {} /\ Step(t, At(t, th[t].next)) /\ UNCHANGED lease
     \/ /\ Running(d) # {} /\ ~CanLock(t)
        /\ Step(t, [At(t, "release") EXCEPT !.fin = "busy"]) /\ UNCHANGED lease
     \/ /\ Running(d) # {} /\ CanLock(t)
        /\ IF Resynced(d) = d
           THEN Step(t, At(t, th[t].next)) /\ UNCHANGED lease
           ELSE Step(t, [At(t, "resync") EXCEPT !.doc = Resynced(d)]) /\ lease' = t
  /\ UNCHANGED <<storeVars, fileVars>>

Resync(t) ==
  /\ th[t].pc = "resync"
  /\ SaveState(R, th[t].tok, th[t].doc, "running", th[t].doc.initial, Queue(R) # {})
  /\ Step(t, [At(t, th[t].next) EXCEPT !.doc = NoDoc])
  /\ Unlock(t)
  /\ UNCHANGED fileVars

Resume(t) ==
  /\ th[t].pc = "resume"
  /\ Step(t, [At(t, "loop") EXCEPT !.doc = Recovered(row.doc)])
  /\ UNCHANGED <<storeVars, fileVars, lease>>

(* The next queued plan, or the end of the automatic run; a prompt that *)
(* cannot be built raises.                                              *)
Loop(t) ==
  /\ th[t].pc = "loop"
  /\ LET d == th[t].doc
         queued == {i \in Items : d.st[i] = "queued"}
     IN  \/ /\ queued # {}
            /\ LET i == CHOOSE j \in queued : TRUE IN
               Step(t, [Saving(t, Put(d, i, "busy"), "op") EXCEPT
                          !.item = i, !.op = "generate", !.fin = "none"])
         \/ queued = {} /\ Step(t, Saving(t, [d EXCEPT !.initial = TRUE], "settle"))
         \/ queued # {} /\ Step(t, [At(t, "fail") EXCEPT !.doc = NoDoc])
  /\ UNCHANGED <<storeVars, fileVars, lease>>

Fail(t) ==
  /\ th[t].pc = "fail"
  /\ UpdateStatus(R, th[t].tok, "failing")
  /\ LET s == run'[R].status IN
     Step(t, IF s = "failing" THEN Closing(t, "failed")
             ELSE IF s = "cancelling" THEN Closing(t, "cancelled")
             ELSE At(t, "release"))
  /\ UNCHANGED <<fileVars, lease>>

-----------------------------------------------------------------------------
(* One item's operations.  generate and repair write the file, execute and  *)
(* verify run it; all four hold the target lease while they work.           *)
After(t) == IF th[t].job = "initial" THEN "loop" ELSE "finish"
Writing(t) == th[t].op \in {"generate", "repair"}

\* The file of i changes once more.
Rewrite(i) ==
  /\ rev[i] < MaxRev
  /\ rev' = [rev EXCEPT ![i] = @ + 1]
  /\ UNCHANGED passed

Op(t) ==
  /\ th[t].pc = "op"
  /\ ~Lost(t)
  /\ IF CanLock(t) THEN Step(t, At(t, "work")) /\ lease' = t
     ELSE /\ Step(t, IF Writing(t) THEN Saving(t, th[t].doc, "analyze")
                     ELSE Saving(t, Put(th[t].doc, th[t].item, "parked"), After(t)))
          /\ UNCHANGED lease
  /\ UNCHANGED <<storeVars, fileVars>>

\* is_cancelled_error: the stage stays as it is, the caller notices the cancel.
Aborted(t) ==
  IF th[t].job = "initial" THEN Closing(t, "cancelled")
  ELSE [At(t, "finish") EXCEPT !.fin = "failed", !.doc = NoDoc]

(* A failed write rolls the file back, which may record one more revision;  *)
(* the item follows unless the failure is the cancel.                       *)
Write(t) ==
  /\ th[t].pc = "work" /\ Writing(t)
  /\ LET i == th[t].item  d == th[t].doc
         saved == [d EXCEPT !.rev[i] = rev'[i]]
         current == d.rev[i] = rev[i]
     IN  \/ /\ current /\ Rewrite(i)
            /\ Step(t, [Saving(t, saved, "op") EXCEPT
                          !.op = IF th[t].op = "generate" THEN "execute" ELSE "verify"])
         \/ /\ IF current THEN Rewrite(i) \/ UNCHANGED fileVars ELSE UNCHANGED fileVars
            /\ Step(t, IF row.cancel THEN Aborted(t)
                       ELSE Saving(t, IF current THEN saved ELSE d, "analyze"))
  /\ Unlock(t)
  /\ UNCHANGED storeVars

(* One automatic repair after execute, none after verify; the environment *)
(* parks the item.                                                        *)
Run(t) ==
  /\ th[t].pc = "work" /\ ~Writing(t)
  /\ LET i == th[t].item  d == th[t].doc
         current == d.rev[i] = rev[i]
     IN  \/ /\ current
            /\ Step(t, Saving(t, Put(d, i, "ready"), After(t)))
            /\ passed' = [passed EXCEPT ![i] = @ \cup {rev[i]}]
         \/ /\ Step(t, IF row.cancel THEN Aborted(t) ELSE Saving(t, d, "analyze"))
            /\ UNCHANGED passed
         \/ /\ th[t].op = "execute" /\ ~row.cancel
            /\ Step(t, [Saving(t, d, "op") EXCEPT !.op = "repair"])
            /\ UNCHANGED passed
         \/ /\ current /\ ~row.cancel
            /\ Step(t, Saving(t, Put(d, i, "parked"), After(t)))
            /\ UNCHANGED passed
  /\ Unlock(t)
  /\ UNCHANGED <<storeVars, rev>>

(* _await_human: the analysis runs without the lease. *)
Analyze(t) ==
  /\ th[t].pc = "analyze"
  /\ \/ Step(t, Saving(t, Put(th[t].doc, th[t].item, "review"), After(t)))
     \/ row.cancel /\ Step(t, Aborted(t))
  /\ UNCHANGED <<storeVars, fileVars, lease>>

-----------------------------------------------------------------------------
(* run_actions *)
RecoverItems(t) ==
  /\ th[t].pc = "recover"
  /\ Step(t, IF Running(row.doc) = {} THEN At(t, "next")
             ELSE Saving(t, Recovered(row.doc), "next"))
  /\ UNCHANGED <<storeVars, fileVars, lease>>

NextAction(t) ==
  /\ th[t].pc = "next"
  /\ \/ row.cancel /\ Step(t, Closing(t, "cancelled")) /\ UNCHANGED storeVars
     \/ /\ ~row.cancel
        /\ \E a \in Actions :
             ClaimNextAction(R, th[t].tok, a)
             /\ Step(t, [At(t, "validate") EXCEPT !.a = a, !.doc = NoDoc, !.fin = "none"])
     \/ /\ ~row.cancel /\ Queued(R) = {} /\ th[t].tok # NoToken /\ ~Lost(t)
        /\ Step(t, [At(t, "settle") EXCEPT !.doc = NoDoc, !.fin = "none"])
        /\ UNCHANGED storeVars
     \/ th[t].tok = NoToken /\ ~row.cancel /\ Step(t, Idle) /\ UNCHANGED storeVars   \* raises
  /\ UNCHANGED <<fileVars, lease>>

(* get_snapshot before an action: it may drop the expired token of its own *)
(* thread, and adopts external versions, as for a client.                  *)
Validate(t) ==
  /\ th[t].pc = "validate"
  /\ LET drops == AtRest /\ row.token # NoToken /\ ~row.live
         looks == row.status \in ActionableStatuses /\ row.doc # NoDoc
                  /\ Running(row.doc) # Items
     IN  \/ ClearExpiredWorker(R, Resting) /\ AtRest /\ UNCHANGED <<th, lease, faults>>
         \/ /\ ~drops /\ UNCHANGED storeVars
            /\ IF looks /\ ~CanLock(t) THEN Step(t, Refused(t)) /\ UNCHANGED lease
               ELSE IF looks /\ Unverified(row.doc) # {}
               THEN Step(t, At(t, "scope")) /\ lease' = t
               ELSE Step(t, At(t, "apply")) /\ UNCHANGED lease
  /\ UNCHANGED fileVars

\* adopt_external_versions with a claimed run.
Adopt(t) ==
  /\ th[t].pc = "adopt"
  /\ LET S == Unverified(row.doc) IN
     Step(t, IF S = {} THEN At(t, "post") ELSE Saving(t, Adopted(row.doc, S), "post"))
  /\ UNCHANGED <<storeVars, fileVars, lease>>

(* _validate_item_action and apply_action up to the item's first stage; the *)
(* revision the client expected may be another one.                         *)
Apply(t) ==
  /\ th[t].pc = "apply"
  /\ LET d == row.doc
         i == act[th[t].a].item
         begin(op) == [Saving(t, Put(d, i, "busy"), "op") EXCEPT
                         !.item = i, !.op = op, !.fin = "succeeded"]
         accepted == /\ \/ row.status \in ActionableStatuses
                        \/ row.status = "running" /\ th[t].tok # NoToken
                     /\ ~row.cancel
                     /\ d.st[i] \notin {"busy", "queued"}
     IN  \/ Step(t, [At(t, "finish") EXCEPT !.fin = "failed"])
         \/ /\ accepted /\ d.st[i] # "abandoned"
            /\ Step(t, [Saving(t, Put(d, i, "abandoned"), "finish") EXCEPT
                          !.item = i, !.fin = "succeeded"])
         \/ /\ accepted /\ i \notin Stale(d)
            /\ \E op \in {"generate", "execute", "repair"} :
                 (op # "generate" => d.rev[i] # 0) /\ Step(t, begin(op))
  /\ UNCHANGED <<storeVars, fileVars, lease>>

Finish(t) ==
  /\ th[t].pc = "finish"
  /\ FinishAction(R, th[t].tok, th[t].a, th[t].fin)
  /\ Step(t, [At(t, "beat") EXCEPT !.a = 0, !.doc = NoDoc, !.item = NoItem,
                                   !.op = "none", !.fin = "none", !.next = "none"])
  /\ UNCHANGED <<fileVars, lease>>

Beat(t) ==
  /\ th[t].pc = "beat"
  /\ \/ row.cancel /\ Step(t, Closing(t, "cancelled")) /\ UNCHANGED storeVars
     \/ ~row.cancel /\ HeartbeatWorker(R, th[t].tok) /\ Step(t, At(t, "next"))
     \/ th[t].tok = NoToken /\ ~row.cancel /\ Step(t, At(t, "next")) /\ UNCHANGED storeVars
  /\ UNCHANGED <<fileVars, lease>>

-----------------------------------------------------------------------------
(* _reconcile_owned_assets_and_settle: the revision scan and the completion *)
(* decision under one lease.                                                *)
AfterSettle(t) == At(t, IF th[t].job = "edit" THEN "post" ELSE "release")

\* Mutant of Settle: the scan is skipped.
SettleUnscanned(t) ==
  /\ th[t].pc = "settle"
  /\ CanLock(t) /\ lease' = t
  /\ Step(t, [At(t, "sealed") EXCEPT !.doc = NoDoc])
  /\ UNCHANGED <<storeVars, fileVars>>

Settle(t) ==
  /\ th[t].pc = "settle"
  /\ IF CanLock(t)
     THEN LET d == row.doc
              S == {i \in Stale(d) : d.st[i] # "abandoned"}
          IN  /\ lease' = t
              /\ Step(t, IF S = {} THEN [At(t, "sealed") EXCEPT !.doc = NoDoc]
                         ELSE Saving(t, Adopted(d, S), "sealed"))
     ELSE /\ UNCHANGED lease
          /\ Step(t, IF th[t].job = "edit" THEN [At(t, "resettle") EXCEPT !.doc = NoDoc]
                     ELSE [At(t, "release") EXCEPT !.fin = "busy", !.doc = NoDoc])
  /\ UNCHANGED <<storeVars, fileVars>>

(* _settle, under the lease ("sealed") or after a failed edit ("resettle"). *)
Seal(t) ==
  /\ th[t].pc \in {"sealed", "resettle"}
  /\ LET d == row.doc IN
     IF row.cancel
     THEN /\ Step(t, IF th[t].job = "edit" THEN At(t, "post") ELSE Closing(t, "cancelled"))
          /\ Unlock(t) /\ UNCHANGED storeVars
     ELSE IF d = NoDoc
     THEN Step(t, AfterSettle(t)) /\ Unlock(t) /\ UNCHANGED storeVars
     ELSE /\ SaveState(R, th[t].tok, d, IF AllTerminal(d) THEN "succeeded" ELSE "awaiting_action",
                       d.initial, Queue(R) # {})
          /\ IF AllTerminal(d) THEN Step(t, At(t, "complete")) /\ UNCHANGED lease
             ELSE Step(t, AfterSettle(t)) /\ Unlock(t)
  /\ UNCHANGED fileVars

Complete(t) ==
  /\ th[t].pc = "complete"
  /\ UpdateStatus(R, th[t].tok, "completed")
  /\ Step(t, AfterSettle(t))
  /\ Unlock(t)
  /\ UNCHANGED fileVars

-----------------------------------------------------------------------------
(* apply_or_enqueue_action, edit: apply_action and its first stage; a      *)
(* refused content or a late conflict raises before the stage begins.      *)
Load(t) ==
  /\ th[t].pc = "load"
  /\ LET i == th[t].item  d == row.doc IN
     \/ Step(t, At(t, "resettle"))
     \/ /\ ~row.cancel /\ row.status \in ActionableStatuses \cup {"running"}
        /\ d.st[i] \notin {"busy", "queued"}
        /\ Step(t, Saving(t, [Put(d, i, "parked") EXCEPT !.open = @ \cup {i}], "edit"))
  /\ UNCHANGED <<storeVars, fileVars, lease>>

(* save_script holds the lease for one write. *)
Edit(t) ==
  /\ th[t].pc = "edit"
  /\ LET i == th[t].item
         current == CanLock(t) /\ th[t].doc.rev[i] = rev[i]
         closed == [th[t].doc EXCEPT !.open = @ \ {i}]
         saved == [closed EXCEPT !.rev[i] = rev'[i]]
     IN  \/ current /\ Rewrite(i) /\ Step(t, Saving(t, saved, "settle"))
         \/ /\ IF current THEN Rewrite(i) \/ UNCHANGED fileVars ELSE UNCHANGED fileVars
            /\ Step(t, IF row.cancel THEN [At(t, "post") EXCEPT !.doc = NoDoc]
                       ELSE Saving(t, IF current THEN saved ELSE closed, "resettle"))
  /\ UNCHANGED <<storeVars, lease>>

-----------------------------------------------------------------------------
(* The heartbeat thread of a background worker, crashes, leases that run    *)
(* out, and writers of the scripts outside this run.                        *)
Heartbeat(t) ==
  /\ th[t].job \in {"initial", "actions"} /\ ~row.live
  /\ HeartbeatWorker(R, th[t].tok)
  /\ UNCHANGED <<fileVars, lease, th, faults>>

Fault == faults < MaxFaults /\ faults' = faults + 1           \* bound

Crash(t) ==
  /\ th[t] # Idle
  /\ Fault
  /\ th' = [th EXCEPT ![t] = Idle]
  /\ Unlock(t)
  /\ UNCHANGED <<storeVars, fileVars>>

Orphaned == \A t \in Threads : th[t].tok # row.token

Expire ==
  /\ LeaseExpires(R)
  /\ IF Orphaned THEN UNCHANGED faults ELSE Lapses /\ Fault
  /\ UNCHANGED <<fileVars, lease, th>>

ExternalTakes ==
  /\ lease = Free /\ \E i \in Items : rev[i] < MaxRev
  /\ lease' = External
  /\ UNCHANGED <<storeVars, fileVars, th, faults>>

ExternalWrites ==
  /\ lease = External
  /\ lease' = Free
  /\ \E i \in Items : Rewrite(i)
  /\ UNCHANGED <<storeVars, th, faults>>

-----------------------------------------------------------------------------
WorkersInit ==
  /\ StoreInit
  /\ rev = [i \in Items |-> 0] /\ passed = [i \in Items |-> {}]
  /\ lease = Free
  /\ th = [t \in Threads |-> Idle]
  /\ faults = 0

Works(t) ==
  \/ Scope(t) \/ Claim(t) \/ Save(t) \/ Mark(t) \/ Close(t) \/ End(t)
  \/ Finally(t) \/ Release(t) \/ Quit(t)
  \/ Route(t) \/ Start(t) \/ Reconcile(t) \/ Resync(t) \/ Resume(t) \/ Loop(t) \/ Fail(t)
  \/ Op(t) \/ Write(t) \/ Run(t) \/ Analyze(t)
  \/ RecoverItems(t) \/ NextAction(t) \/ Validate(t) \/ Adopt(t) \/ Apply(t)
  \/ Finish(t) \/ Beat(t)
  \/ Settle(t) \/ Seal(t) \/ Complete(t) \/ Load(t) \/ Edit(t)

Recovers(t) == th[t] = Idle /\ Recover(t)

Environment ==
  \/ ForgetWorker \/ Expire \/ ExternalTakes \/ ExternalWrites
  \/ \E t \in Threads : Heartbeat(t) \/ Crash(t)

WorkersNext ==
  \/ \E t \in Threads : Request(t) \/ Recovers(t) \/ Works(t)
  \/ Environment

WorkersSpec == WorkersInit /\ [][WorkersNext]_vars

-----------------------------------------------------------------------------
(* Fairness: the scheduler runs every started thread; a dead worker's lease *)
(* runs out, a writer outside the run ends, and a client that shows an      *)
(* unfinished run polls it (GET starts a recovery when one is needed).      *)
Fairness ==
  /\ \A t \in Threads : WF_vars(Works(t))
  /\ WF_vars(\E t \in Threads : Recovers(t))
  /\ WF_vars(Orphaned /\ Expire)
  /\ WF_vars(ExternalWrites)

FairWorkersSpec == WorkersSpec /\ Fairness

-----------------------------------------------------------------------------
PCs == {"idle", "route", "scope", "claim", "save", "mark", "close", "end", "post", "leave",
        "release", "start", "reconcile", "resync", "resume", "loop", "fail", "op", "work",
        "analyze", "recover", "next", "validate", "adopt", "apply", "finish", "beat",
        "settle", "sealed", "resettle", "complete", "load", "edit"}

\* What a thread may have in its memory.
Memories ==
  [pc : PCs, job : {"none", "initial", "actions", "edit", "adopt", "cancel"},
   tok : Tokens \cup {NoToken}, doc : Documents \cup {NoDoc}, item : Items \cup {NoItem},
   a : 0..MaxActions, op : {"none", "generate", "execute", "repair", "verify"},
   next : PCs \cup {"none"}, fin : {"none", "succeeded", "failed", "cancelled", "busy"}]

(* The files, the lease and the threads have their types. *)
WorkersTypeOK ==
  /\ rev \in [Items -> 0..MaxRev] /\ passed \in [Items -> SUBSET (1..MaxRev)]
  /\ lease \in Threads \cup {Free, External}
  /\ th \in [Threads -> Memories]
  /\ faults \in 0..MaxFaults

(* A script counts as ready only with a revision that an execution          *)
(* accepted, however it was edited outside, adopted or recovered since,     *)
(* unless a stage of it that a dead worker left behind is still shown as    *)
(* running: reconciliation gives such an item the file's revision.          *)
ReadyMeansExecuted ==
  row.doc # NoDoc =>
    \A i \in Items \ row.doc.open :
      row.doc.st[i] = "ready" => row.doc.rev[i] \in passed[i]

(* Completion decided under the module's lease: every item is settled and   *)
(* every script that is kept is the file as it is now (the final revision   *)
(* barrier of _reconcile_owned_assets_and_settle).                          *)
CompletionScanned ==
  [][row.status # "completed" /\ row'.status = "completed"
     /\ (\E t \in Threads : th[t].pc = "complete" /\ lease = t)
       => \A i \in Items :
            \/ row.doc.st[i] = "abandoned"
            \/ row.doc.st[i] = "ready" /\ row.doc.rev[i] = rev[i]]_vars

(* The worker that ends a run as cancelled or failed has left no item and   *)
(* no stage in its document unfinished, whoever else closes the run without *)
(* a fence meanwhile; a failed run stays so.                                *)
TerminalIsClosed ==
  row.doc # NoDoc
    /\ (row.status = "failed" \/ \E t \in Threads : th[t].pc = "end" /\ th[t].tok # NoToken)
      => AllTerminal(row.doc) /\ row.doc.open = {}

(* A thread that writes the document holds the row's token as it writes; a  *)
(* thread without one writes it only once the run is cancelled, and only    *)
(* to leave it closed (save_state, finalize_interrupted).  A step moves no  *)
(* thread but its own, so the thread that moves is the writer.              *)
DocumentFenced ==
  [][row'.doc # row.doc =>
       \E t \in Threads :
         /\ th'[t] # th[t]
         /\ \/ th[t].tok # NoToken /\ th[t].tok = row.token
            \/ /\ th[t].tok = NoToken /\ row.cancel
               /\ AllTerminal(row'.doc) /\ row'.doc.open = {}]_vars

(* An accepted action that is not reported yet has a worker, or a recovery  *)
(* will give it one.                                                        *)
QueueIsDrained ==
  Queue(R) # {} =>
    \/ row.token # NoToken \/ NeedsRecovery
    \/ \E t \in Threads : th[t] # Idle

(* Every step of the workers is one transaction of the store or none of its *)
(* business, with a death and a lease that runs out: what is proved of the  *)
(* store holds of the manager.  The store cares whether a document is there *)
(* and not what it says, so every document is mapped to one.                *)
Store == INSTANCE PreparationRunStore
           WITH Docs <- {"document"},
                run <- [r \in Runs |-> [run[r] EXCEPT !.doc = IF @ = NoDoc THEN NoDoc ELSE "document"]]
ImplementsStore == Store!StoreSpec

(* A cancelled run always ends as cancelled. *)
CancelSettles == row.cancel ~> row.status = "cancelled"

(* An action whose worker died before it reported it and whose token was    *)
(* dropped since (QueueIsDrained): nobody will report it.                   *)
Stranded == row.token = NoToken /\ Queue(R) # Queued(R)

(* A run never stays unfinished: whatever crashed or lost its lease, it     *)
(* comes to rest when it is polled, unless an action was stranded in its    *)
(* queue.                                                                   *)
RunSettles ==
  row.status \in {"queued", "running", "failing", "cancelling"}
    ~> (row.status \in Resting \/ Stranded)
=============================================================================
