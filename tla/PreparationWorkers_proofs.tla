---------------------- MODULE PreparationWorkers_proofs ----------------------
(***************************************************************************)
(* Proofs about PreparationWorkers, for any numbers of threads, scripts,   *)
(* tokens, actions, revisions, deaths and expiring leases: its types, that *)
(* ready means executed, and that every step is a transaction of the       *)
(* store, so that the theorems of PreparationRunStore_proofs hold of the   *)
(* manager.                                                                *)
(*                                                                         *)
(* The argument: a document is written to the row only from the memory of  *)
(* a thread, so the invariant says of every thread what it carries and     *)
(* where it is headed; what it takes from the row (a document is there,    *)
(* its action belongs to the run, a verdict has its execution) can only    *)
(* become true, so other threads do not disturb it.                        *)
(*                                                                         *)
(* As long as no lease runs out under a live worker (~Lapses), and however *)
(* many workers die, one thread at a time owns the run (OwnerInv): the     *)
(* document is written by the owner or to close a cancelled run, a run is  *)
(* completed only after the scan of its revisions, and the worker that     *)
(* ends a run has closed its document.                                     *)
(***************************************************************************)
EXTENDS PreparationWorkers, PreparationRunStore_proofs, TLAPS

\* The step a thread is headed for: its next one, or the one after a save.
Heading(w) == IF w.pc \in {"save", "mark", "reconcile", "resync"} THEN w.next ELSE w.pc

\* A document calls a script ready on the strength of an execution in p, or
\* shows one of its stages as running.
Sound(d, p) ==
  \A i \in Items : d.st[i] = "ready" => d.rev[i] \in p[i] \/ i \in d.open

\* The document in the memory w of a thread.
Carries(w, p) ==
  /\ w.pc \in {"save", "mark", "resync", "loop", "op", "work", "analyze", "edit"} => w.doc # NoDoc
  /\ w.pc = "mark" => ~AllTerminal(w.doc)
  /\ w.doc # NoDoc => Sound(w.doc, p)

\* Where a thread may go, and what it has to bring there.
Headed(w) ==
  /\ w.pc \in {"save", "mark"} =>
       w.next \in {"loop", "settle", "op", "analyze", "finish", "next", "post", "sealed",
                   "edit", "resettle", "end"}
  /\ w.pc \in {"reconcile", "resync"} => w.next \in {"close", "resume", "recover"}
  /\ Heading(w) = "finish" => w.fin \in {"succeeded", "failed"}
  /\ Heading(w) \in {"close", "end"} => w.fin \in {"failed", "cancelled"}
  /\ Heading(w) \in {"op", "work", "analyze"} =>
       /\ w.item \in Items /\ w.doc.st[w.item] = "busy"
       /\ w.job # "initial" => w.fin = "succeeded"
       /\ w.op # "generate" => w.doc.rev[w.item] # 0
  /\ Heading(w) \in {"op", "work"} => w.op # "none"
  /\ Heading(w) = "edit" => w.item \in Items /\ w.doc.st[w.item] = "parked"
  /\ w.pc \in {"scope", "claim"} /\ w.job = "edit" => w.item \in Items
  /\ w.pc = "load" => w.item \in Items
  /\ w.pc = "scope" => w.job \in {"actions", "edit", "adopt"}
  /\ w.pc = "claim" => w.job \in {"initial", "actions", "edit", "adopt"}
  /\ Heading(w) \in {"start", "resume", "loop"} => w.job = "initial"
  /\ Heading(w) \in {"op", "work", "analyze"} => w.job \in {"initial", "actions"}
  /\ Heading(w) \in {"recover", "next", "validate", "apply", "finish", "beat"} => w.job = "actions"

\* What a thread takes from the row: d is its document, as are the actions.
Needs(w, d, as) ==
  /\ \/ w.pc \in {"mark", "loop", "resync", "op", "work", "analyze", "settle", "edit", "load"}
     \/ Heading(w) = "resume"
     \/ w.job \in {"actions", "edit", "adopt"}
     => d # NoDoc
  /\ w.a # 0 => as[w.a].run = R
  /\ w.pc \in {"validate", "apply"} => w.a # 0

ThreadOK(w, d, as, p) ==
  w \in Memories /\ Carries(w, p) /\ Headed(w) /\ Needs(w, d, as)

FilesOK ==
  /\ rev \in [Items -> 0..MaxRev] /\ passed \in [Items -> SUBSET (1..MaxRev)]
  /\ lease \in Threads \cup {Free, External}
  /\ faults \in 0..MaxFaults

\* Actions are accepted for scripts of a run that has its document.
Asked ==
  \A a \in Actions : act[a].run = R => row.doc # NoDoc /\ act[a].item \in Items

RowSound == row.doc # NoDoc => Sound(row.doc, passed)

WorkersInv ==
  /\ StoreInv /\ FilesOK /\ Asked /\ RowSound
  /\ th \in [Threads -> Memories]
  /\ \A t \in Threads : ThreadOK(th[t], row.doc, act, passed)

-----------------------------------------------------------------------------
(* Documents.                                                              *)

LEMMA RowTyped ==
  ASSUME WorkersInv
  PROVE  /\ R \in Runs /\ Runs = {R} /\ run \in [Runs -> Rows] /\ row \in Rows
         /\ row.doc \in Documents \cup {NoDoc}
         /\ act \in [Actions -> ActionRows]
<1>1. R \in Runs /\ Runs = {R} /\ run \in [Runs -> Rows] /\ act \in [Actions -> ActionRows]
  BY RunsAssumption DEF WorkersInv, StoreInv, RunInv, ActInv
<1>2. row \in Rows
  BY <1>1 DEF row
<1>3. row.doc \in Documents \cup {NoDoc}
  BY <1>2, DocsAssumption DEF Rows
<1> QED
  BY <1>1, <1>2, <1>3

\* A new document says nothing of any script.
LEMMA NewDocSound ==
  ASSUME NEW p
  PROVE  /\ NewDoc \in Documents /\ Sound(NewDoc, p)
         /\ Closed(NewDoc) \in Documents
         /\ [Closed(NewDoc) EXCEPT !.initial = TRUE] \in Documents
         /\ Sound([Closed(NewDoc) EXCEPT !.initial = TRUE], p)
<1>1. NewDoc \in Documents /\ Sound(NewDoc, p)
  BY BoundsAssumption DEF NewDoc, Documents, ItemStates, Sound
<1>2. Closed(NewDoc) \in Documents /\ \A i \in Items : Closed(NewDoc).st[i] = "abandoned"
  <2>1. NewDoc.open = {} /\ \A i \in Items : NewDoc.st[i] = "queued"
    BY DEF NewDoc
  <2>2. Closed(NewDoc) = [NewDoc EXCEPT !.st = [i \in Items |-> "abandoned"], !.open = {}]
    BY <2>1 DEF Closed
  <2> DEFINE c == [NewDoc EXCEPT !.st = [i \in Items |-> "abandoned"], !.open = {}]
  <2>3. c \in Documents /\ \A i \in Items : c.st[i] = "abandoned"
    BY <1>1 DEF Documents, ItemStates
  <2> QED
    BY <2>2, <2>3
<1>3. /\ [Closed(NewDoc) EXCEPT !.initial = TRUE] \in Documents
      /\ \A i \in Items : [Closed(NewDoc) EXCEPT !.initial = TRUE].st[i] = "abandoned"
  BY <1>2 DEF Documents
<1> QED
  BY <1>1, <1>2, <1>3 DEF Sound

\* One item gets another status, not ready.
LEMMA PutSound ==
  ASSUME NEW p, NEW d \in Documents, Sound(d, p), NEW i \in Items, NEW s \in ItemStates,
         s # "ready"
  PROVE  /\ Put(d, i, s) \in Documents /\ Sound(Put(d, i, s), p)
         /\ Put(d, i, s).st[i] = s /\ Put(d, i, s).rev = d.rev /\ Put(d, i, s).open = d.open
BY DEF Put, Documents, Sound

\* Verdicts on executions are never withdrawn.
LEMMA SoundGrows ==
  ASSUME NEW d, NEW p, NEW q, \A i \in Items : p[i] \subseteq q[i], Sound(d, p)
  PROVE  Sound(d, q)
BY DEF Sound

\* An item whose execution has been accepted may be called ready.
LEMMA PutReady ==
  ASSUME NEW p, NEW d \in Documents, Sound(d, p), NEW i \in Items, d.rev[i] \in p[i]
  PROVE  Put(d, i, "ready") \in Documents /\ Sound(Put(d, i, "ready"), p)
BY DEF Put, Documents, Sound, ItemStates

\* A stage is shown as running or no longer.
LEMMA OpenSound ==
  ASSUME NEW p, NEW d \in Documents, Sound(d, p), NEW i \in Items, d.st[i] # "ready"
  PROVE  LET x == [d EXCEPT !.open = @ \cup {i}]  y == [d EXCEPT !.open = @ \ {i}]
         IN  /\ x \in Documents /\ Sound(x, p) /\ x.st = d.st /\ x.rev = d.rev
             /\ y \in Documents /\ Sound(y, p) /\ y.st = d.st /\ y.rev = d.rev
BY DEF Documents, Sound

\* An item that is not ready gets another revision.
LEMMA RevSound ==
  ASSUME NEW p, NEW d \in Documents, Sound(d, p), NEW i \in Items, NEW n \in 0..MaxRev,
         d.st[i] # "ready"
  PROVE  LET x == [d EXCEPT !.rev[i] = n]
         IN  x \in Documents /\ Sound(x, p) /\ x.st = d.st /\ x.rev[i] = n
BY DEF Documents, Sound

\* The first stage is marked as begun or the automatic run as over.
LEMMA InitialSound ==
  ASSUME NEW p, NEW d \in Documents, Sound(d, p)
  PROVE  [d EXCEPT !.initial = TRUE] \in Documents /\ Sound([d EXCEPT !.initial = TRUE], p)
BY DEF Documents, Sound

\* What adoption, reconciliation, recovery and closing make of a document.
LEMMA DocsSound ==
  ASSUME FilesOK, NEW p, NEW d \in Documents, Sound(d, p), NEW S \in SUBSET Items
  PROVE  /\ Adopted(d, S) \in Documents /\ Sound(Adopted(d, S), p)
         /\ Resynced(d) \in Documents /\ Sound(Resynced(d), p)
         /\ Recovered(d) \in Documents /\ Sound(Recovered(d), p)
         /\ Closed(d) \in Documents /\ Sound(Closed(d), p)
<1>0. d # NoDoc
  BY DocsAssumption
<1>1. Adopted(d, S) \in Documents /\ Sound(Adopted(d, S), p)
  BY DEF Adopted, Documents, Sound, FilesOK, ItemStates
<1>2. Resynced(d) \in Documents /\ Sound(Resynced(d), p)
  BY <1>0 DEF Resynced, Running, Documents, Sound, FilesOK
<1>3. Recovered(d) \in Documents /\ Sound(Recovered(d), p)
  BY <1>0 DEF Recovered, Running, Documents, Sound, ItemStates
<1>4. Closed(d) \in Documents /\ Sound(Closed(d), p)
  BY <1>0 DEF Closed, Documents, Sound, ItemStates
<1> QED
  BY <1>1, <1>2, <1>3, <1>4

-----------------------------------------------------------------------------
(* Memories.                                                               *)

\* A thread that goes on keeps everything but its program counter.
LEMMA AtFields ==
  ASSUME NEW w \in Memories, NEW pc \in PCs
  PROVE  LET x == [w EXCEPT !.pc = pc]
         IN  /\ x \in Memories /\ x.pc = pc /\ x.job = w.job /\ x.tok = w.tok /\ x.doc = w.doc
             /\ x.item = w.item /\ x.a = w.a /\ x.op = w.op /\ x.next = w.next /\ x.fin = w.fin
BY DEF Memories

\* A thread that saves a document d and goes on at nxt.
LEMMA SavingFields ==
  ASSUME NEW t \in Threads, th[t] \in Memories, NEW d \in Documents, NEW nxt \in PCs
  PROVE  LET w == th[t]  x == Saving(t, d, nxt)
         IN  /\ x \in Memories /\ x.pc = "save" /\ x.doc = d /\ x.next = nxt
             /\ x.job = w.job /\ x.tok = w.tok /\ x.item = w.item /\ x.a = w.a
             /\ x.op = w.op /\ x.fin = w.fin
<1>1. "save" \in PCs
  BY DEF PCs
<1> QED
  BY <1>1 DEF Saving, Memories

\* A thread that closes the document before it reports f.
LEMMA ClosingFields ==
  ASSUME NEW t \in Threads, th[t] \in Memories, NEW f \in {"failed", "cancelled"}
  PROVE  LET w == th[t]  x == Closing(t, f)
         IN  /\ x \in Memories /\ x.pc = "close" /\ x.fin = f /\ x.doc = NoDoc
             /\ x.job = w.job /\ x.tok = w.tok /\ x.a = w.a /\ x.next = w.next
<1>1. "close" \in PCs
  BY DEF PCs
<1> QED
  BY <1>1 DEF Closing, Memories

LEMMA IdleOK ==
  ASSUME NEW d, NEW as, NEW p
  PROVE  Idle \in Memories /\ ThreadOK(Idle, d, as, p)
<1>1. Idle \in Memories
  BY MaxActionsAssumption DEF Idle, Memories, PCs
<1>2. Carries(Idle, p)
  BY DEF Idle, Carries
<1>3. Headed(Idle)
  BY DEF Idle, Headed, Heading
<1>4. Needs(Idle, d, as)
  BY DEF Idle, Needs, Heading
<1> QED
  BY <1>1, <1>2, <1>3, <1>4 DEF ThreadOK

\* Closing needs nothing but a document where the job needs one.
LEMMA ClosingOK ==
  ASSUME NEW t \in Threads, NEW d, NEW as, NEW p, ThreadOK(th[t], d, as, p),
         NEW f \in {"failed", "cancelled"}
  PROVE  ThreadOK(Closing(t, f), d, as, p)
<1> DEFINE x == Closing(t, f)
<1>1. /\ x \in Memories /\ x.pc = "close" /\ x.fin = f /\ x.doc = NoDoc
      /\ x.job = th[t].job /\ x.a = th[t].a
  BY ClosingFields DEF ThreadOK
<1> HIDE DEF x
<1>2. Carries(x, p)
  BY <1>1 DEF Carries
<1>3. Headed(x)
  BY <1>1 DEF Headed, Heading
<1>4. Needs(x, d, as)
  BY <1>1 DEF Needs, Heading, ThreadOK
<1> QED
  BY <1>1, <1>2, <1>3, <1>4 DEF ThreadOK, x

-----------------------------------------------------------------------------
(* Steps.                                                                  *)

\* What a step does to what threads take from the row and the files.
Grows ==
  /\ \/ row'.doc = row.doc
     \/ row'.doc \in Documents /\ Sound(row'.doc, passed')
  /\ \A a \in Actions :
       /\ act[a].run = R => act'[a].run = R
       /\ act'[a].run = R =>
            (act[a].run = R /\ act'[a].item = act[a].item) \/ (row.doc # NoDoc /\ act'[a].item \in Items)
  /\ \A i \in Items : passed[i] \subseteq passed'[i]

\* Thread t moves, and brings what it has to.
Moves(t) ==
  /\ th' = [th EXCEPT ![t] = th'[t]]
  /\ ThreadOK(th'[t], row'.doc, act', passed')

\* A step of the system: a transaction of the store or none of its business,
\* and one thread moves or none.
Proper ==
  /\ [StoreNext]_storeVars
  /\ FilesOK' /\ Grows
  /\ th' = th \/ \E t \in Threads : Moves(t)

\* What a thread relies on only becomes true.
LEMMA ThreadKept ==
  ASSUME NEW w, NEW d, NEW e, NEW as, NEW bs, NEW p, NEW q, ThreadOK(w, d, as, p),
         d # NoDoc => e # NoDoc,
         \A a \in Actions : as[a].run = R => bs[a].run = R,
         \A i \in Items : p[i] \subseteq q[i]
  PROVE  ThreadOK(w, e, bs, q)
<1>1. Carries(w, q)
  BY SoundGrows DEF ThreadOK, Carries
<1>2. w.a # 0 => w.a \in Actions
  BY MaxActionsAssumption DEF ThreadOK, Memories, Actions
<1>3. Needs(w, e, bs)
  BY <1>2 DEF ThreadOK, Needs
<1> QED
  BY <1>1, <1>3 DEF ThreadOK

LEMMA ProperKeepsInv ==
  ASSUME WorkersInv, Proper
  PROVE  WorkersInv'
<1>1. StoreInv'
  BY StoreStepInv DEF WorkersInv, Proper
<1>2. row.doc # NoDoc => row'.doc # NoDoc
  BY DocsAssumption DEF Proper, Grows
<1>3. Asked'
  BY <1>2 DEF WorkersInv, Proper, Grows, Asked
<1>4. RowSound'
  BY SoundGrows DEF WorkersInv, Proper, Grows, RowSound
<1>5. \A t \in Threads : ThreadOK(th[t], row'.doc, act', passed')
  BY <1>2, ThreadKept DEF WorkersInv, Proper, Grows
<1>6. th' \in [Threads -> Memories] /\ \A t \in Threads : ThreadOK(th'[t], row'.doc, act', passed')
  <2>1. CASE th' = th
    BY <1>5, <2>1 DEF WorkersInv
  <2>2. ASSUME NEW t \in Threads, Moves(t)
        PROVE  /\ th' \in [Threads -> Memories]
               /\ \A u \in Threads : ThreadOK(th'[u], row'.doc, act', passed')
    <3>1. th'[t] \in Memories
      BY <2>2 DEF Moves, ThreadOK
    <3>2. th' \in [Threads -> Memories] /\ \A u \in Threads \ {t} : th'[u] = th[u]
      BY <2>2, <3>1 DEF Moves, WorkersInv
    <3> QED
      BY <1>5, <2>2, <3>2 DEF Moves
  <2> QED
    BY <2>1, <2>2 DEF Proper
<1> QED
  BY <1>1, <1>3, <1>4, <1>6 DEF WorkersInv, Proper

\* The thread that a step moves holds the record the step gives it.
LEMMA Moved ==
  ASSUME WorkersInv, NEW t \in Threads, NEW x, th' = [th EXCEPT ![t] = x]
  PROVE  th'[t] = x /\ th' = [th EXCEPT ![t] = th'[t]]
BY DEF WorkersInv

\* A step that leaves the store and the files alone.
LEMMA QuietStep ==
  ASSUME WorkersInv, NEW t \in Threads, UNCHANGED <<storeVars, fileVars, faults>>,
         lease' \in Threads \cup {Free, External},
         th' = [th EXCEPT ![t] = th'[t]], ThreadOK(th'[t], row.doc, act, passed)
  PROVE  Proper
<1>1. run' = run /\ act' = act /\ rev' = rev /\ passed' = passed /\ row' = row
  BY DEF storeVars, fileVars, row
<1>2. FilesOK'
  BY <1>1 DEF WorkersInv, FilesOK
<1>3. Grows
  BY <1>1 DEF Grows
<1>4. Moves(t)
  BY <1>1 DEF Moves
<1> QED
  BY <1>2, <1>3, <1>4 DEF Proper

\* A transaction that leaves the document and the actions' scripts as they are.
LEMMA StoreStep ==
  ASSUME WorkersInv, NEW t \in Threads, [StoreNext]_storeVars,
         row'.doc = row.doc,
         \A a \in Actions : act'[a].run = act[a].run /\ act'[a].item = act[a].item,
         UNCHANGED <<fileVars, faults>>, lease' \in Threads \cup {Free, External},
         th' = [th EXCEPT ![t] = th'[t]], ThreadOK(th'[t], row.doc, act, passed)
  PROVE  Proper
<1>1. rev' = rev /\ passed' = passed
  BY DEF fileVars
<1>2. FilesOK'
  BY <1>1 DEF WorkersInv, FilesOK
<1>3. Grows
  BY <1>1 DEF Grows
<1>4. ThreadOK(th'[t], row'.doc, act', passed')
  BY <1>1, ThreadKept
<1> QED
  BY <1>2, <1>3, <1>4 DEF Proper, Moves

\* Taking and giving back the lease.
LEMMA LeaseTyped ==
  ASSUME WorkersInv, NEW t \in Threads, Unlock(t) \/ lease' = lease \/ lease' = t
  PROVE  lease' \in Threads \cup {Free, External}
BY DEF WorkersInv, FilesOK, Unlock

-----------------------------------------------------------------------------
(* The transactions the manager issues are transactions of the store.      *)

\* The actions of a run keep their scripts.
ActsKept == \A a \in Actions : act'[a].run = act[a].run /\ act'[a].item = act[a].item

LEMMA SettledKept ==
  ASSUME WorkersInv, NEW from, NEW s, act' = Settled(R, from, s)
  PROVE  ActsKept
BY RowTyped DEF Settled, ActsKept, ActionRows

LEMMA ActKept ==
  ASSUME WorkersInv, NEW a, NEW s, act' = [act EXCEPT ![a].state = s]
  PROVE  ActsKept
BY RowTyped DEF ActsKept, ActionRows

LEMMA SaveIsStored ==
  ASSUME WorkersInv, NEW tok \in Tokens \cup {NoToken}, NEW d \in Documents,
         NEW step \in StepStatuses, NEW initial \in BOOLEAN, NEW pending \in BOOLEAN,
         SaveState(R, tok, d, step, initial, pending)
  PROVE  StoreNext /\ row'.doc = d /\ UNCHANGED act
<1>1. d \in Docs /\ R \in Runs /\ run \in [Runs -> Rows] /\ row \in Rows
  BY RowTyped, DocsAssumption
<1>2. StoreNext
  BY <1>1 DEF StoreNext, Writes
<1>3. row' = Saved(row, tok, d, step, initial, pending)
  BY <1>1 DEF SaveState, row
<1>4. row'.doc = d
  BY <1>1, <1>3 DEF Saved, Rows
<1> QED
  BY <1>2, <1>4 DEF SaveState

LEMMA UpdateIsStored ==
  ASSUME WorkersInv, NEW tok \in Tokens \cup {NoToken},
         NEW s \in {"running", "awaiting_action", "failing", "failed", "completed", "cancelled"},
         UpdateStatus(R, tok, s)
  PROVE  StoreNext /\ row'.doc = row.doc /\ UNCHANGED act
<1>1. R \in Runs /\ run \in [Runs -> Rows] /\ row \in Rows
  BY RowTyped
<1>2. StoreNext
  BY <1>1 DEF StoreNext, Writes
<1>3. row' = Marked(row, s)
  BY <1>1 DEF UpdateStatus, row
<1>4. MarkedFailed(row).doc = row.doc
  BY <1>1 DEF MarkedFailed, Rows
<1>5. MarkedCancelled(row).doc = row.doc
  BY <1>1 DEF MarkedCancelled, Rows
<1>6. MarkedOther(row, s).doc = row.doc
  BY <1>1 DEF MarkedOther, Rows
<1> QED
  BY <1>2, <1>3, <1>4, <1>5, <1>6 DEF UpdateStatus, Marked

LEMMA FinishIsStored ==
  ASSUME WorkersInv, NEW tok \in Tokens \cup {NoToken}, NEW a \in Nat,
         NEW result \in {"succeeded", "failed"}, FinishAction(R, tok, a, result)
  PROVE  [StoreNext]_storeVars /\ row'.doc = row.doc /\ ActsKept
<1>1. row'.doc = row.doc
  BY DEF FinishAction, row
<1>2. CASE a \in Queue(R)
  <2>1. a \in Actions /\ R \in Runs
    BY <1>2, RowTyped DEF Queue
  <2>2. StoreNext
    BY <2>1 DEF StoreNext, Writes
  <2>3. ActsKept
    BY <1>2, ActKept DEF FinishAction
  <2> QED
    BY <1>1, <2>2, <2>3
<1>3. CASE a \notin Queue(R)
  BY <1>1, <1>3 DEF FinishAction, storeVars, ActsKept
<1> QED
  BY <1>2, <1>3

LEMMA ClaimIsStored ==
  ASSUME WorkersInv, NEW tok \in Tokens, ClaimWorker(R, tok)
  PROVE  StoreNext /\ row'.doc = row.doc /\ ActsKept
<1>1. R \in Runs /\ run \in [Runs -> Rows] /\ row \in Rows
  BY RowTyped
<1>2. StoreNext
  BY <1>1 DEF StoreNext, WorkerCalls
<1>3. row'.doc = row.doc
  BY <1>1 DEF ClaimWorker, row, Rows
<1>4. ActsKept
  BY SettledKept DEF ClaimWorker, ActsKept
<1> QED
  BY <1>2, <1>3, <1>4

LEMMA NextIsStored ==
  ASSUME WorkersInv, NEW tok \in Tokens \cup {NoToken}, NEW a \in Actions,
         ClaimNextAction(R, tok, a)
  PROVE  StoreNext /\ row'.doc = row.doc /\ ActsKept /\ act[a].run = R
<1>1. R \in Runs /\ tok \in Tokens
  BY RowTyped DEF ClaimNextAction
<1>2. StoreNext
  BY <1>1 DEF StoreNext, WorkerCalls
<1>3. ActsKept
  BY ActKept DEF ClaimNextAction
<1> QED
  BY <1>2, <1>3 DEF ClaimNextAction, Queued, row

\* Renewal and release of the token, and the writes that drop a stale one.
LEMMA TokenIsStored ==
  ASSUME WorkersInv, NEW tok \in Tokens \cup {NoToken}, NEW force \in BOOLEAN,
         \/ HeartbeatWorker(R, tok) \/ ReleaseWorker(R, tok, force)
         \/ DiscardStaleWorker(R) \/ ClearExpiredWorker(R, Resting)
         \/ ClaimScope(R) \/ LeaseExpires(R)
  PROVE  StoreNext /\ row'.doc = row.doc /\ ActsKept
<1>1. R \in Runs /\ run \in [Runs -> Rows] /\ row \in Rows
  BY RowTyped
<1>2. CASE HeartbeatWorker(R, tok)
  <2>1. tok \in Tokens
    BY <1>2 DEF HeartbeatWorker
  <2> QED
    BY <1>1, <1>2, <2>1 DEF StoreNext, WorkerCalls, HeartbeatWorker, row, Rows, ActsKept
<1>3. CASE ReleaseWorker(R, tok, force)
  <2>1. tok \in Tokens
    BY <1>3 DEF ReleaseWorker
  <2>2. StoreNext
    BY <1>1, <1>3, <2>1 DEF StoreNext, WorkerCalls
  <2>3. row'.doc = row.doc
    BY <1>1, <1>3 DEF ReleaseWorker, Freed, row, Rows
  <2> QED
    BY <1>3, <2>2, <2>3 DEF ReleaseWorker, ActsKept
<1>4. CASE DiscardStaleWorker(R)
  BY <1>1, <1>4 DEF StoreNext, Requested, DiscardStaleWorker, Freed, row, Rows, ActsKept
<1>5. CASE ClearExpiredWorker(R, Resting)
  <2>1. Requested(R)
    BY <1>5 DEF Requested, Resting
  <2> QED
    BY <1>1, <1>5, <2>1 DEF StoreNext, ClearExpiredWorker, Freed, row, Rows, ActsKept
<1>6. CASE ClaimScope(R)
  BY <1>1, <1>6 DEF StoreNext, Requested, ClaimScope, row, Rows, ActsKept
<1>7. CASE LeaseExpires(R)
  BY <1>1, <1>7 DEF StoreNext, LeaseExpires, row, Rows, ActsKept
<1> QED
  BY <1>2, <1>3, <1>4, <1>5, <1>6, <1>7

-----------------------------------------------------------------------------
(* Where threads may go.                                                   *)

LEMMA ThreadFacts ==
  ASSUME WorkersInv, NEW t \in Threads
  PROVE  /\ ThreadOK(th[t], row.doc, act, passed) /\ th[t] \in Memories
         /\ Carries(th[t], passed) /\ Headed(th[t]) /\ Needs(th[t], row.doc, act)
         /\ row.doc \in Documents \cup {NoDoc} /\ NoDoc \notin Documents
         /\ row.doc # NoDoc => Sound(row.doc, passed)
         /\ th[t].doc \in Documents \cup {NoDoc} /\ th[t].tok \in Tokens \cup {NoToken}
         /\ th[t].pc \in PCs
<1>1. th[t] \in Memories
  BY DEF WorkersInv
<1> QED
  BY <1>1, RowTyped, DocsAssumption DEF WorkersInv, ThreadOK, RowSound, Memories

\* Steps that need nothing but what the job needs.
Plain == {"fail", "recover", "next", "adopt", "beat", "sealed", "resettle", "complete",
          "post", "leave", "release"}

LEMMA PlainOK ==
  ASSUME NEW w, NEW d, NEW as, NEW p, ThreadOK(w, d, as, p), NEW x \in Memories,
         x.pc \in Plain, x.pc \in {"recover", "next", "beat"} => x.job = "actions",
         x.job = w.job, x.a \in {0, w.a}, x.doc \in {NoDoc, w.doc}
  PROVE  ThreadOK(x, d, as, p)
<1>1. Heading(x) = x.pc
  BY DEF Heading, Plain
<1>2. Carries(x, p)
  BY DEF Carries, ThreadOK, Plain
<1>3. Headed(x)
  BY <1>1 DEF Headed, Plain
<1>4. Needs(x, d, as)
  BY <1>1 DEF Needs, ThreadOK, Plain
<1> QED
  BY <1>2, <1>3, <1>4 DEF ThreadOK

\* A thread that saves a sound document.
LEMMA SavesOK ==
  ASSUME NEW w, NEW d, NEW as, NEW p, ThreadOK(w, d, as, p), NEW x \in Memories,
         x.pc = "save", x.doc \in Documents, Sound(x.doc, p), x.job = w.job, x.a = w.a,
         Headed(x)
  PROVE  ThreadOK(x, d, as, p)
<1>1. Heading(x) # "resume"
  BY DEF Heading, Headed
<1>2. Carries(x, p)
  BY DocsAssumption DEF Carries
<1>3. Needs(x, d, as)
  BY <1>1 DEF Needs, ThreadOK
<1> QED
  BY <1>2, <1>3 DEF ThreadOK

\* Steps after a save that need nothing.
LEMMA FreelyHeaded ==
  ASSUME NEW x \in Memories, x.pc = "save",
         x.next \in {"loop", "settle", "next", "post", "sealed", "resettle"},
         x.next = "loop" => x.job = "initial", x.next = "next" => x.job = "actions"
  PROVE  Headed(x)
BY DEF Headed, Heading

\* A thread that moves to pc, and perhaps forgets its document.
LEMMA AtOK ==
  ASSUME WorkersInv, NEW t \in Threads, NEW pc \in Plain,
         pc \in {"recover", "next", "beat"} => th[t].job = "actions"
  PROVE  /\ ThreadOK(At(t, pc), row.doc, act, passed)
         /\ ThreadOK([At(t, pc) EXCEPT !.doc = NoDoc], row.doc, act, passed)
         /\ ThreadOK([At(t, pc) EXCEPT !.tok = NoToken], row.doc, act, passed)
         /\ \A f \in {"none", "busy"} :
              /\ ThreadOK([At(t, pc) EXCEPT !.fin = f], row.doc, act, passed)
              /\ ThreadOK([At(t, pc) EXCEPT !.fin = f, !.doc = NoDoc], row.doc, act, passed)
<1> DEFINE w == th[t]  x == At(t, pc)
<1>1. ThreadOK(w, row.doc, act, passed) /\ w \in Memories
  BY ThreadFacts
<1>2. /\ x \in Memories /\ x.pc = pc /\ x.job = w.job /\ x.a = w.a /\ x.doc = w.doc
  <2>1. pc \in PCs
    BY DEF Plain, PCs
  <2> QED
    BY <1>1, <2>1 DEF At, Memories
<1>3. ASSUME NEW y \in Memories, y.pc = pc, y.job = w.job, y.a = w.a, y.doc \in {NoDoc, w.doc}
      PROVE  ThreadOK(y, row.doc, act, passed)
  BY <1>1, <1>3, PlainOK
<1> HIDE DEF x, w
<1>4. LET y == [x EXCEPT !.doc = NoDoc]
      IN y \in Memories /\ y.pc = pc /\ y.job = w.job /\ y.a = w.a /\ y.doc = NoDoc
  BY <1>2 DEF Memories
<1>5. LET y == [x EXCEPT !.tok = NoToken]
      IN y \in Memories /\ y.pc = pc /\ y.job = w.job /\ y.a = w.a /\ y.doc = w.doc
  BY <1>2 DEF Memories
<1>6. ASSUME NEW f \in {"none", "busy"}
      PROVE LET y == [x EXCEPT !.fin = f]  z == [x EXCEPT !.fin = f, !.doc = NoDoc]
            IN /\ y \in Memories /\ y.pc = pc /\ y.job = w.job /\ y.a = w.a /\ y.doc = w.doc
               /\ z \in Memories /\ z.pc = pc /\ z.job = w.job /\ z.a = w.a /\ z.doc = NoDoc
  BY <1>2 DEF Memories
<1>7. ThreadOK(x, row.doc, act, passed)
  BY <1>2, <1>3
<1>8. ThreadOK([x EXCEPT !.doc = NoDoc], row.doc, act, passed)
  BY <1>3, <1>4
<1>9. ThreadOK([x EXCEPT !.tok = NoToken], row.doc, act, passed)
  BY <1>3, <1>5
<1>10. \A f \in {"none", "busy"} :
         /\ ThreadOK([x EXCEPT !.fin = f], row.doc, act, passed)
         /\ ThreadOK([x EXCEPT !.fin = f, !.doc = NoDoc], row.doc, act, passed)
  BY <1>3, <1>6
<1> QED
  BY <1>7, <1>8, <1>9, <1>10 DEF x

\* A thread that reports its action with result f.
LEMMA FinishOK ==
  ASSUME WorkersInv, NEW t \in Threads, th[t].job = "actions",
         NEW f \in {"succeeded", "failed"}
  PROVE  /\ ThreadOK([At(t, "finish") EXCEPT !.fin = f], row.doc, act, passed)
         /\ ThreadOK([At(t, "finish") EXCEPT !.fin = f, !.doc = NoDoc], row.doc, act, passed)
<1> DEFINE w == th[t]
           x == [At(t, "finish") EXCEPT !.fin = f]
           y == [At(t, "finish") EXCEPT !.fin = f, !.doc = NoDoc]
<1>1. ThreadOK(w, row.doc, act, passed) /\ w \in Memories
  BY ThreadFacts
<1>2. /\ x \in Memories /\ x.pc = "finish" /\ x.job = w.job /\ x.a = w.a /\ x.doc = w.doc
      /\ y \in Memories /\ y.pc = "finish" /\ y.job = w.job /\ y.a = w.a /\ y.doc = NoDoc
      /\ x.fin = f /\ y.fin = f
  <2>1. "finish" \in PCs
    BY DEF PCs
  <2> QED
    BY <1>1, <2>1, ZenonT(40) DEF At, Memories
<1> HIDE DEF x, y, w
<1>3. Carries(x, passed) /\ Carries(y, passed)
  BY <1>1, <1>2 DEF Carries, ThreadOK
<1>4. Headed(x) /\ Headed(y)
  BY <1>2 DEF Headed, Heading, w
<1>5. Needs(x, row.doc, act) /\ Needs(y, row.doc, act)
  BY <1>1, <1>2 DEF Needs, Heading, ThreadOK
<1> QED
  BY <1>2, <1>3, <1>4, <1>5 DEF ThreadOK, x, y

LEMMA RefusedOK ==
  ASSUME WorkersInv, NEW t \in Threads
  PROVE  ThreadOK(Refused(t), row.doc, act, passed)
BY FinishOK, IdleOK DEF Refused, Nested

LEMMA AbortedOK ==
  ASSUME WorkersInv, NEW t \in Threads, th[t].job \in {"initial", "actions"}
  PROVE  ThreadOK(Aborted(t), row.doc, act, passed)
BY FinishOK, ClosingOK, ThreadFacts DEF Aborted

\* A thread that goes back to its action after a nested adoption.
LEMMA ApplyOK ==
  ASSUME WorkersInv, NEW t \in Threads, th[t].a # 0, th[t].job = "actions"
  PROVE  ThreadOK(At(t, "apply"), row.doc, act, passed)
<1> DEFINE w == th[t]  x == At(t, "apply")
<1>1. ThreadOK(w, row.doc, act, passed) /\ w \in Memories
  BY ThreadFacts
<1>2. /\ x \in Memories /\ x.pc = "apply" /\ x.job = w.job /\ x.a = w.a /\ x.doc = w.doc
  <2>1. "apply" \in PCs
    BY DEF PCs
  <2> QED
    BY <1>1, <2>1 DEF At, Memories
<1> HIDE DEF x, w
<1>3. Carries(x, passed)
  BY <1>1, <1>2 DEF Carries, ThreadOK
<1>4. Headed(x)
  BY <1>2 DEF Headed, Heading, w
<1>5. Needs(x, row.doc, act)
  BY <1>1, <1>2 DEF Needs, Heading, ThreadOK, w
<1> QED
  BY <1>2, <1>3, <1>4, <1>5 DEF ThreadOK, x

-----------------------------------------------------------------------------
(* The steps the jobs share.                                               *)

LEMMA ScopeProper ==
  ASSUME WorkersInv, NEW t \in Threads, Scope(t)
  PROVE  Proper
<1> DEFINE w == th[t]
<1>0. w \in Memories /\ ThreadOK(w, row.doc, act, passed) /\ w.pc = "scope"
  BY ThreadFacts DEF Scope
<1>1. CASE ClaimScope(R) /\ Step(t, At(t, "claim")) /\ UNCHANGED lease
  <2>1. StoreNext /\ row'.doc = row.doc /\ ActsKept
    BY <1>1, TokenIsStored
  <2> DEFINE x == At(t, "claim")
  <2>2. x \in Memories /\ x.pc = "claim" /\ x.job = w.job /\ x.a = w.a /\ x.doc = w.doc
        /\ x.item = w.item
    <3>1. "claim" \in PCs
      BY DEF PCs
    <3> QED
      BY <1>0, <3>1 DEF At, Memories
  <2>3. th'[t] = x /\ th' = [th EXCEPT ![t] = th'[t]]
    BY <1>1, Moved DEF Step
  <2> HIDE DEF x, w
  <2>4. ThreadOK(x, row.doc, act, passed)
    BY <1>0, <2>2 DEF ThreadOK, Carries, Headed, Heading, Needs
  <2>5. lease' \in Threads \cup {Free, External}
    BY <1>1, LeaseTyped
  <2> QED
    BY <1>1, <2>1, <2>3, <2>4, <2>5, StoreStep DEF Scope, Step, ActsKept
<1>2. CASE Step(t, Refused(t)) /\ Unlock(t) /\ UNCHANGED storeVars
  BY <1>2, Moved, RefusedOK, LeaseTyped, QuietStep, ZenonT(40) DEF Scope, Step
<1> QED
  BY <1>1, <1>2 DEF Scope

LEMMA ClaimProper ==
  ASSUME WorkersInv, NEW t \in Threads, Claim(t)
  PROVE  Proper
<1> DEFINE w == th[t]  tok == FreshToken
<1>0. w \in Memories /\ ThreadOK(w, row.doc, act, passed) /\ w.pc = "claim" /\ tok \in Tokens
  BY ThreadFacts DEF Claim, FreshToken
<1> HIDE DEF tok
<1>1. CASE /\ ClaimWorker(R, tok)
           /\ Step(t, [Started(t, TakesOver(row, tok)) EXCEPT !.tok = tok])
           /\ UNCHANGED lease
  <2>1. StoreNext /\ row'.doc = row.doc /\ ActsKept
    BY <1>0, <1>1, ClaimIsStored
  <2> DEFINE x == [Started(t, TakesOver(row, tok)) EXCEPT !.tok = tok]
  <2>2. /\ x \in Memories /\ x.job = w.job /\ x.a = w.a /\ x.doc = w.doc /\ x.item = w.item
        /\ \/ x.pc = "adopt"
           \/ x.pc = "next" /\ w.job = "actions"
           \/ x.pc = "start" /\ w.job = "initial"
           \/ x.pc = "load" /\ w.job = "edit"
           \/ x.pc = "reconcile" /\ x.next = "recover" /\ w.job = "actions"
    <3>1. {"start", "adopt", "next", "load", "reconcile", "recover"} \subseteq PCs
      BY DEF PCs
    <3>0. w.job \in {"initial", "actions", "edit", "adopt"}
      BY <1>0 DEF ThreadOK, Headed
    <3>2. CASE w.job = "initial"
      BY <1>0, <3>1, <3>2 DEF Started, At, Memories
    <3>3. CASE w.job = "edit"
      BY <1>0, <3>1, <3>3 DEF Started, At, Memories
    <3>4. CASE w.job = "adopt" \/ Nested(t)
      <4>1. w.job \notin {"initial", "edit"}
        BY <3>4 DEF Nested
      <4>2. Started(t, TakesOver(row, tok)) = At(t, "adopt")
        BY <3>4, <4>1 DEF Started
      <4> QED
        BY <1>0, <3>1, <4>2 DEF At, Memories
    <3>5. CASE w.job \notin {"initial", "edit", "adopt"} /\ ~Nested(t)
      <4>1. Started(t, TakesOver(row, tok)) \in
              {[At(t, "reconcile") EXCEPT !.next = "recover"], At(t, "next")}
        BY <3>5 DEF Started
      <4>2. CASE Started(t, TakesOver(row, tok)) = At(t, "next")
        BY <1>0, <3>0, <3>1, <3>5, <4>2 DEF At, Memories
      <4>3. CASE Started(t, TakesOver(row, tok)) = [At(t, "reconcile") EXCEPT !.next = "recover"]
        BY <1>0, <3>0, <3>1, <3>5, <4>3, ZenonT(40) DEF At, Memories
      <4> QED
        BY <4>1, <4>2, <4>3
    <3> QED
      BY <3>2, <3>3, <3>4, <3>5
  <2>3. th'[t] = x /\ th' = [th EXCEPT ![t] = th'[t]]
    BY <1>1, Moved DEF Step
  <2> HIDE DEF x, w
  <2>4. ThreadOK(x, row.doc, act, passed)
    <3>1. Carries(x, passed)
      BY <1>0, <2>2 DEF ThreadOK, Carries
    <3>2. Headed(x)
      BY <1>0, <2>2 DEF ThreadOK, Headed, Heading
    <3>3. Needs(x, row.doc, act)
      BY <1>0, <2>2 DEF ThreadOK, Needs, Heading
    <3> QED
      BY <2>2, <3>1, <3>2, <3>3 DEF ThreadOK
  <2>5. lease' \in Threads \cup {Free, External}
    BY <1>1, LeaseTyped
  <2> QED
    BY <1>1, <2>1, <2>3, <2>4, <2>5, StoreStep DEF Claim, Step, ActsKept
<1>2. CASE /\ DiscardStaleWorker(R) \/ UNCHANGED storeVars
           /\ Step(t, Refused(t)) /\ Unlock(t)
  <2>1. [StoreNext]_storeVars /\ row'.doc = row.doc /\ ActsKept
    <3>1. CASE DiscardStaleWorker(R)
      BY <3>1, TokenIsStored
    <3>2. CASE UNCHANGED storeVars
      BY <3>2 DEF storeVars, row, ActsKept
    <3> QED
      BY <1>2, <3>1, <3>2
  <2>2. th'[t] = Refused(t) /\ th' = [th EXCEPT ![t] = th'[t]]
    BY <1>2, Moved DEF Step
  <2>3. ThreadOK(Refused(t), row.doc, act, passed)
    BY RefusedOK
  <2>4. lease' \in Threads \cup {Free, External}
    BY <1>2, LeaseTyped
  <2>5. UNCHANGED fileVars /\ UNCHANGED faults
    BY <1>2 DEF Claim, Step
  <2> HIDE DEF w, tok
  <2> QED
    BY <2>1, <2>2, <2>3, <2>4, <2>5, StoreStep DEF ActsKept
<1> QED
  BY <1>1, <1>2 DEF Claim, tok

LEMMA SaveProper ==
  ASSUME WorkersInv, NEW t \in Threads, Save(t)
  PROVE  Proper
<1> DEFINE w == th[t]  d == w.doc  pc == IF AllTerminal(d) THEN w.next ELSE "mark"
           x == At(t, pc)
<1>0. /\ w \in Memories /\ ThreadOK(w, row.doc, act, passed) /\ w.pc = "save"
      /\ d \in Documents /\ Sound(d, passed) /\ d # NoDoc /\ w.tok \in Tokens \cup {NoToken}
      /\ w.next \in PCs
  <2>1. w \in Memories /\ ThreadOK(w, row.doc, act, passed) /\ w.pc = "save"
    BY ThreadFacts DEF Save
  <2>2. d # NoDoc /\ Sound(d, passed)
    BY <2>1 DEF ThreadOK, Carries
  <2>3. w.next \in PCs
    BY <2>1 DEF ThreadOK, Headed, PCs
  <2> QED
    BY <2>1, <2>2, <2>3, ThreadFacts
<1>1. StoreNext /\ row'.doc = d /\ UNCHANGED act
  <2>1. StepOf(d) \in StepStatuses /\ d.initial \in BOOLEAN
    BY <1>0 DEF StepOf, StepStatuses, Documents
  <2> QED
    BY <1>0, <2>1, SaveIsStored DEF Save
<1>2. x \in Memories /\ x.job = w.job /\ x.a = w.a /\ x.doc = w.doc /\ x.item = w.item
      /\ x.pc = pc /\ x.next = w.next /\ x.fin = w.fin /\ x.op = w.op
  <2>1. pc \in PCs
    BY <1>0 DEF PCs
  <2> QED
    BY <1>0, <2>1 DEF At, Memories
<1>3. th'[t] = x /\ th' = [th EXCEPT ![t] = th'[t]]
  BY Moved DEF Save, Step
<1>4. pc = w.next \/ (pc = "mark" /\ ~AllTerminal(d))
  OBVIOUS
<1>5. w.next \in {"loop", "settle", "op", "analyze", "finish", "next", "post", "sealed",
                   "edit", "resettle", "end"}
  BY <1>0 DEF ThreadOK, Headed
<1> HIDE DEF x, pc
<1>6. Carries(x, passed)
  BY <1>0, <1>2, <1>4, <1>5 DEF Carries
<1>7. Headed(x)
  BY <1>0, <1>2, <1>4, <1>5 DEF ThreadOK, Headed, Heading
<1>8. Needs(x, d, act)
  BY <1>0, <1>2, <1>4, <1>5 DEF ThreadOK, Needs, Heading
<1>9. UNCHANGED <<passed, rev, lease, faults>>
  BY DEF Save, fileVars, Step
<1>10. FilesOK' /\ Grows
  BY <1>0, <1>1, <1>9 DEF WorkersInv, FilesOK, Grows
<1> QED
  BY <1>1, <1>2, <1>3, <1>6, <1>7, <1>8, <1>9, <1>10 DEF Proper, Moves, ThreadOK

LEMMA MarkProper ==
  ASSUME WorkersInv, NEW t \in Threads, Mark(t)
  PROVE  Proper
<1> DEFINE w == th[t]  d == w.doc  x == At(t, w.next)
<1>0. /\ w \in Memories /\ ThreadOK(w, row.doc, act, passed) /\ w.pc = "mark"
      /\ d \in Documents /\ ~AllTerminal(d) /\ d # NoDoc /\ w.tok \in Tokens \cup {NoToken}
      /\ w.next \in PCs
  <2>1. w \in Memories /\ ThreadOK(w, row.doc, act, passed) /\ w.pc = "mark"
    BY ThreadFacts DEF Mark
  <2>2. d # NoDoc /\ ~AllTerminal(d)
    BY <2>1 DEF ThreadOK, Carries
  <2>3. w.next \in PCs
    BY <2>1 DEF ThreadOK, Headed, PCs
  <2> QED
    BY <2>1, <2>2, <2>3, ThreadFacts
<1>1. StoreNext /\ row'.doc = row.doc /\ UNCHANGED act
  <2>1. StepOf(d) \in {"running", "awaiting_action"}
    BY <1>0 DEF StepOf
  <2> QED
    BY <1>0, <2>1, UpdateIsStored DEF Mark
<1>2. x \in Memories /\ x.job = w.job /\ x.a = w.a /\ x.doc = w.doc /\ x.item = w.item
      /\ x.pc = w.next /\ x.next = w.next /\ x.fin = w.fin /\ x.op = w.op
  BY <1>0 DEF At, Memories
<1>3. th'[t] = x /\ th' = [th EXCEPT ![t] = th'[t]]
  BY Moved DEF Mark, Step
<1>5. w.next \in {"loop", "settle", "op", "analyze", "finish", "next", "post", "sealed",
                   "edit", "resettle", "end"}
  BY <1>0 DEF ThreadOK, Headed
<1> HIDE DEF x
<1>6. Carries(x, passed)
  BY <1>0, <1>2, <1>5 DEF ThreadOK, Carries
<1>7. Headed(x)
  BY <1>0, <1>2, <1>5 DEF ThreadOK, Headed, Heading
<1>8. Needs(x, row.doc, act)
  BY <1>0, <1>2, <1>5 DEF ThreadOK, Needs, Heading
<1>9. lease' \in Threads \cup {Free, External}
  BY LeaseTyped DEF Mark
<1> QED
  BY <1>1, <1>2, <1>3, <1>6, <1>7, <1>8, <1>9, StoreStep DEF Mark, Step, ThreadOK

LEMMA CloseProper ==
  ASSUME WorkersInv, NEW t \in Threads, Close(t)
  PROVE  Proper
<1> DEFINE w == th[t]
           d == IF row.doc # NoDoc THEN Closed(row.doc)
                ELSE IF w.fin = "cancelled" THEN [Closed(NewDoc) EXCEPT !.initial = TRUE]
                ELSE NoDoc
           x == At(t, "end")
           y == Saving(t, d, "end")
<1>0. /\ w \in Memories /\ ThreadOK(w, row.doc, act, passed) /\ w.pc = "close"
      /\ w.fin \in {"failed", "cancelled"}
  <2>1. w \in Memories /\ ThreadOK(w, row.doc, act, passed) /\ w.pc = "close"
    BY ThreadFacts DEF Close
  <2>2. Heading(w) = "close"
    BY <2>1 DEF Heading
  <2> QED
    BY <2>1, <2>2 DEF ThreadOK, Headed
<1>1. d # row.doc => d \in Documents /\ Sound(d, passed)
  <2>1. FilesOK /\ row.doc \in Documents \cup {NoDoc} /\ (row.doc # NoDoc => Sound(row.doc, passed))
    BY ThreadFacts DEF WorkersInv
  <2>2. row.doc # NoDoc => Closed(row.doc) \in Documents /\ Sound(Closed(row.doc), passed)
    BY <2>1, DocsSound
  <2> QED
    BY <2>2, NewDocSound
<1>2. th'[t] = (IF d = row.doc THEN x ELSE y) /\ th' = [th EXCEPT ![t] = th'[t]]
  BY Moved, ZenonT(40) DEF Close, Step
<1>3. ThreadOK(x, row.doc, act, passed)
  <2>1. /\ x \in Memories /\ x.pc = "end" /\ x.job = w.job /\ x.a = w.a /\ x.doc = w.doc
        /\ x.fin = w.fin
    <3>1. "end" \in PCs
      BY DEF PCs
    <3> QED
      BY <1>0, <3>1 DEF At, Memories
  <2> HIDE DEF x, w
  <2> QED
    BY <1>0, <2>1 DEF ThreadOK, Carries, Headed, Heading, Needs
<1>4. d # row.doc => ThreadOK(y, row.doc, act, passed)
  <2> SUFFICES ASSUME d # row.doc PROVE ThreadOK(y, row.doc, act, passed)
    OBVIOUS
  <2>1. /\ y \in Memories /\ y.pc = "save" /\ y.doc = d /\ y.next = "end"
        /\ y.job = w.job /\ y.a = w.a /\ y.fin = w.fin
    <3>1. "end" \in PCs
      BY DEF PCs
    <3> QED
      BY <1>0, <1>1, <3>1, SavingFields
  <2>2. Headed(y)
    BY <1>0, <2>1 DEF Headed, Heading
  <2> QED
    BY <1>0, <1>1, <2>1, <2>2, SavesOK
<1>5. UNCHANGED <<storeVars, fileVars, lease, faults>>
  BY DEF Close, Step
<1>6. lease' \in Threads \cup {Free, External}
  BY <1>5, LeaseTyped
<1>7. ThreadOK(th'[t], row.doc, act, passed)
  BY <1>2, <1>3, <1>4
<1> QED
  BY <1>2, <1>5, <1>6, <1>7, QuietStep

LEMMA EndProper ==
  ASSUME WorkersInv, NEW t \in Threads, End(t)
  PROVE  Proper
<1> DEFINE w == th[t]
<1>0. /\ w \in Memories /\ ThreadOK(w, row.doc, act, passed) /\ w.pc = "end"
      /\ w.fin \in {"failed", "cancelled"} /\ w.tok \in Tokens \cup {NoToken}
  <2>1. w \in Memories /\ ThreadOK(w, row.doc, act, passed) /\ w.pc = "end"
    BY ThreadFacts DEF End
  <2>2. Heading(w) = "end"
    BY <2>1 DEF Heading
  <2> QED
    BY <2>1, <2>2, ThreadFacts DEF ThreadOK, Headed
<1>1. StoreNext /\ row'.doc = row.doc /\ UNCHANGED act
  BY <1>0, UpdateIsStored DEF End
<1>2. ASSUME NEW x \in {Closing(t, "cancelled"), [At(t, "release") EXCEPT !.doc = NoDoc],
                        IF Nested(t) THEN At(t, "apply") ELSE Idle}
      PROVE  ThreadOK(x, row.doc, act, passed)
  <2>1. ThreadOK(Closing(t, "cancelled"), row.doc, act, passed)
    BY <1>0, ClosingOK
  <2>2. ThreadOK([At(t, "release") EXCEPT !.doc = NoDoc], row.doc, act, passed)
    BY AtOK DEF Plain
  <2>3. ThreadOK(IF Nested(t) THEN At(t, "apply") ELSE Idle, row.doc, act, passed)
    BY ApplyOK, IdleOK DEF Nested
  <2> QED
    BY <2>1, <2>2, <2>3
<1>3. PICK x \in {Closing(t, "cancelled"), [At(t, "release") EXCEPT !.doc = NoDoc],
                  IF Nested(t) THEN At(t, "apply") ELSE Idle} : th' = [th EXCEPT ![t] = x]
  BY DEF End, Step
<1>4. Unlock(t) \/ UNCHANGED lease
  BY DEF End
<1>5. UNCHANGED <<fileVars, faults>>
  BY DEF End, Step
<1>6. lease' \in Threads \cup {Free, External}
  BY <1>4, LeaseTyped
<1>7. th'[t] = x /\ th' = [th EXCEPT ![t] = th'[t]]
  BY <1>3, Moved
<1>8. ThreadOK(x, row.doc, act, passed)
  BY <1>2
<1> QED
  BY <1>1, <1>5, <1>6, <1>7, <1>8, StoreStep

LEMMA FinallyProper ==
  ASSUME WorkersInv, NEW t \in Threads, Finally(t)
  PROVE  Proper
<1>1. ThreadOK(Closing(t, "cancelled"), row.doc, act, passed)
  BY ThreadFacts, ClosingOK
<1>2. ThreadOK([At(t, "release") EXCEPT !.doc = NoDoc], row.doc, act, passed)
  BY AtOK DEF Plain
<1>3. ThreadOK(IF Nested(t) THEN At(t, "apply") ELSE Idle, row.doc, act, passed)
  BY ApplyOK, IdleOK DEF Nested
<1>4. PICK x \in {Closing(t, "cancelled"), [At(t, "release") EXCEPT !.doc = NoDoc],
                  IF Nested(t) THEN At(t, "apply") ELSE Idle} : th' = [th EXCEPT ![t] = x]
  BY DEF Finally, Step
<1>5. UNCHANGED <<storeVars, fileVars, faults>>
  BY DEF Finally, Step
<1>6. lease' \in Threads \cup {Free, External}
  BY LeaseTyped DEF Finally
<1>7. th'[t] = x /\ th' = [th EXCEPT ![t] = th'[t]]
  BY <1>4, Moved
<1>8. ThreadOK(x, row.doc, act, passed)
  BY <1>1, <1>2, <1>3, <1>4
<1> QED
  BY <1>5, <1>6, <1>7, <1>8, QuietStep

LEMMA ReleaseProper ==
  ASSUME WorkersInv, NEW t \in Threads, Release(t)
  PROVE  Proper
<1> DEFINE forced == th[t].job # "actions" \/ Nested(t) \/ th[t].fin # "none"
<1>0. forced \in BOOLEAN /\ th[t].tok \in Tokens \cup {NoToken}
  BY ThreadFacts
<1> HIDE DEF forced
<1>1. [StoreNext]_storeVars /\ row'.doc = row.doc /\ ActsKept
  <2>1. CASE ReleaseWorker(R, th[t].tok, forced)
    BY <1>0, <2>1, TokenIsStored
  <2>2. CASE UNCHANGED storeVars
    BY <2>2 DEF storeVars, row, ActsKept
  <2> QED
    BY <2>1, <2>2 DEF Release, forced
<1>2. ThreadOK([At(t, "leave") EXCEPT !.tok = NoToken], row.doc, act, passed)
  BY AtOK DEF Plain
<1>3. ~forced => ThreadOK(At(t, "next"), row.doc, act, passed)
  BY AtOK DEF Plain, forced
<1>4. PICK x \in {[At(t, "leave") EXCEPT !.tok = NoToken], At(t, "next"), Idle} :
        /\ th' = [th EXCEPT ![t] = x]
        /\ x = At(t, "next") => ~forced \/ x \in {[At(t, "leave") EXCEPT !.tok = NoToken], Idle}
  BY DEF Release, Step, forced
<1>5. UNCHANGED <<fileVars, faults>>
  BY DEF Release, Step
<1>6. lease' \in Threads \cup {Free, External}
  BY LeaseTyped DEF Release
<1>7. th'[t] = x /\ th' = [th EXCEPT ![t] = th'[t]]
  BY <1>4, Moved
<1>8. ThreadOK(x, row.doc, act, passed)
  BY <1>2, <1>3, <1>4, IdleOK
<1> QED
  BY <1>1, <1>5, <1>6, <1>7, <1>8, StoreStep DEF ActsKept

LEMMA QuitProper ==
  ASSUME WorkersInv, NEW t \in Threads, Quit(t)
  PROVE  Proper
<1>1. th'[t] = Idle /\ th' = [th EXCEPT ![t] = th'[t]]
  BY Moved DEF Quit, Step
<1>2. lease' \in Threads \cup {Free, External}
  BY LeaseTyped DEF Quit
<1>3. UNCHANGED <<storeVars, fileVars, faults>>
  BY DEF Quit, Step
<1> QED
  BY <1>1, <1>2, <1>3, IdleOK, QuietStep

-----------------------------------------------------------------------------
(* run_initial and run_recovery.                                           *)

LEMMA RouteProper ==
  ASSUME WorkersInv, NEW t \in Threads, Route(t)
  PROVE  Proper
<1> DEFINE w == th[t]
           job == IF row.status # "failing" /\ Queue(R) # {} THEN "actions" ELSE "initial"
           x == [At(t, "claim") EXCEPT !.job = job]
<1>0. w \in Memories /\ ThreadOK(w, row.doc, act, passed) /\ w.pc = "route"
  BY ThreadFacts DEF Route
<1>1. job = "actions" => row.doc # NoDoc
  BY DEF Queue, WorkersInv, Asked
<1>2. job \in {"actions", "initial"}
  OBVIOUS
<1> HIDE DEF job
<1>3. x \in Memories /\ x.pc = "claim" /\ x.job = job /\ x.a = w.a /\ x.doc = w.doc
  <2>1. "claim" \in PCs
    BY DEF PCs
  <2> QED
    BY <1>0, <1>2, <2>1, ZenonT(40) DEF At, Memories
<1>4. th'[t] = x /\ th' = [th EXCEPT ![t] = th'[t]]
  <2>1. th' = [th EXCEPT ![t] = x]
    BY DEF Route, Step, job
  <2> HIDE DEF x
  <2> QED
    BY <2>1, Moved
<1> HIDE DEF x, w
<1>5. ThreadOK(x, row.doc, act, passed)
  BY <1>0, <1>1, <1>2, <1>3 DEF ThreadOK, Carries, Headed, Heading, Needs
<1> QED
  BY <1>4, <1>5, LeaseTyped, QuietStep DEF Route, Step

LEMMA StartProper ==
  ASSUME WorkersInv, NEW t \in Threads, Start(t)
  PROVE  Proper
<1> DEFINE w == th[t]
           y == [At(t, "reconcile") EXCEPT !.next = "close", !.fin = "failed"]
           z == [At(t, "reconcile") EXCEPT !.next = "resume"]
           s == Saving(t, NewDoc, "loop")
<1>0. w \in Memories /\ ThreadOK(w, row.doc, act, passed) /\ w.pc = "start"
  BY ThreadFacts DEF Start
<1> w.job = "initial"
  BY <1>0 DEF ThreadOK, Headed, Heading
<1>1. ThreadOK(At(t, "fail"), row.doc, act, passed)
  BY AtOK DEF Plain
<1>2. ThreadOK(Closing(t, "cancelled"), row.doc, act, passed)
  BY <1>0, ClosingOK
<1>3. ThreadOK(y, row.doc, act, passed) /\ (row.doc # NoDoc => ThreadOK(z, row.doc, act, passed))
  <2>1. /\ y \in Memories /\ y.pc = "reconcile" /\ y.next = "close" /\ y.fin = "failed"
        /\ y.job = w.job /\ y.a = w.a /\ y.doc = w.doc
        /\ z \in Memories /\ z.pc = "reconcile" /\ z.next = "resume"
        /\ z.job = w.job /\ z.a = w.a /\ z.doc = w.doc
    <3>1. {"reconcile", "close", "resume"} \subseteq PCs
      BY DEF PCs
    <3> QED
      BY <1>0, <3>1, ZenonT(40) DEF At, Memories
  <2> HIDE DEF y, z, w
  <2>2. Carries(y, passed) /\ Carries(z, passed)
    BY <1>0, <2>1 DEF ThreadOK, Carries
  <2>3. Headed(y) /\ Headed(z)
    BY <2>1 DEF Headed, Heading
  <2>4. Needs(y, row.doc, act) /\ (row.doc # NoDoc => Needs(z, row.doc, act))
    BY <1>0, <2>1 DEF ThreadOK, Needs, Heading
  <2> QED
    BY <2>1, <2>2, <2>3, <2>4 DEF ThreadOK
<1>4. ThreadOK(s, row.doc, act, passed)
  <2>1. NewDoc \in Documents /\ Sound(NewDoc, passed)
    BY NewDocSound
  <2>2. /\ s \in Memories /\ s.pc = "save" /\ s.doc = NewDoc /\ s.next = "loop"
        /\ s.job = w.job /\ s.a = w.a
    <3>1. "loop" \in PCs
      BY DEF PCs
    <3> QED
      BY <1>0, <2>1, <3>1, SavingFields
  <2> HIDE DEF s
  <2> QED
    BY <1>0, <2>1, <2>2, SavesOK, FreelyHeaded
<1>5. PICK x : ThreadOK(x, row.doc, act, passed) /\ th' = [th EXCEPT ![t] = x]
  <2>1. CASE Step(t, At(t, "fail"))
    BY <1>1, <2>1 DEF Step
  <2>2. CASE Step(t, IF row.cancel THEN Closing(t, "cancelled")
                     ELSE IF row.status = "failing" THEN y
                     ELSE IF row.doc # NoDoc THEN z ELSE s)
    BY <1>2, <1>3, <1>4, <2>2 DEF Step
  <2> QED
    BY <2>1, <2>2 DEF Start
<1>6. UNCHANGED faults
  BY DEF Start, Step
<1>7. UNCHANGED <<storeVars, fileVars>> /\ lease' \in Threads \cup {Free, External}
  BY LeaseTyped DEF Start
<1>8. th'[t] = x /\ th' = [th EXCEPT ![t] = th'[t]]
  BY <1>5, Moved
<1> QED
  BY <1>5, <1>6, <1>7, <1>8, QuietStep

\* A step that saves a document, or the row's own with another status.
LEMMA SaveStep ==
  ASSUME WorkersInv, NEW t \in Threads, NEW d \in Documents, Sound(d, passed),
         StoreNext, row'.doc = d, UNCHANGED act,
         UNCHANGED <<fileVars, faults>>, lease' \in Threads \cup {Free, External},
         th' = [th EXCEPT ![t] = th'[t]], ThreadOK(th'[t], d, act, passed)
  PROVE  Proper
<1>1. rev' = rev /\ passed' = passed
  BY DEF fileVars
<1>2. FilesOK'
  BY <1>1 DEF WorkersInv, FilesOK
<1>3. Grows
  BY <1>1 DEF Grows
<1> QED
  BY <1>1, <1>2, <1>3 DEF Proper, Moves

LEMMA ReconcileProper ==
  ASSUME WorkersInv, NEW t \in Threads, Reconcile(t)
  PROVE  Proper
<1> DEFINE w == th[t]  d == row.doc
           x == At(t, w.next)
           y == [At(t, "resync") EXCEPT !.doc = Resynced(d)]
<1>0. /\ w \in Memories /\ ThreadOK(w, row.doc, act, passed) /\ w.pc = "reconcile"
      /\ w.next \in {"close", "resume", "recover"}
  BY ThreadFacts DEF Reconcile, ThreadOK, Headed
<1>1. ThreadOK(x, row.doc, act, passed)
  <2>1. /\ x \in Memories /\ x.pc = w.next /\ x.job = w.job /\ x.a = w.a /\ x.doc = w.doc
        /\ x.fin = w.fin /\ x.next = w.next
    <3>1. w.next \in PCs
      BY <1>0 DEF PCs
    <3> QED
      BY <1>0, <3>1 DEF At, Memories
  <2>2. Heading(w) = w.next /\ Heading(x) = w.next
    BY <1>0, <2>1 DEF Heading
  <2> HIDE DEF x, w
  <2> QED
    BY <1>0, <2>1, <2>2 DEF ThreadOK, Carries, Headed, Needs
<1>2. ThreadOK([At(t, "release") EXCEPT !.fin = "busy"], row.doc, act, passed)
  BY AtOK DEF Plain
<1>3. Running(d) # {} => ThreadOK(y, row.doc, act, passed)
  <2> SUFFICES ASSUME Running(d) # {} PROVE ThreadOK(y, row.doc, act, passed)
    OBVIOUS
  <2>1. d # NoDoc
    BY DEF Running
  <2>2. Resynced(d) \in Documents /\ Sound(Resynced(d), passed)
    <3>1. FilesOK /\ d \in Documents /\ Sound(d, passed) /\ {} \in SUBSET Items
      BY <2>1, ThreadFacts DEF WorkersInv
    <3> QED
      BY <3>1, DocsSound
  <2>3. /\ y \in Memories /\ y.pc = "resync" /\ y.job = w.job /\ y.a = w.a
        /\ y.doc = Resynced(d) /\ y.fin = w.fin /\ y.next = w.next
    <3>1. "resync" \in PCs
      BY DEF PCs
    <3> QED
      BY <1>0, <2>2, <3>1 DEF At, Memories
  <2>4. y.doc # NoDoc
    BY <2>2, <2>3, DocsAssumption
  <2> HIDE DEF y, w, d
  <2>5. Carries(y, passed)
    BY <2>2, <2>3, <2>4 DEF Carries
  <2>6. Headed(y)
    BY <1>0, <2>3 DEF ThreadOK, Headed, Heading
  <2>7. Needs(y, row.doc, act)
    BY <1>0, <2>1, <2>3 DEF ThreadOK, Needs, Heading, d
  <2> QED
    BY <2>3, <2>5, <2>6, <2>7 DEF ThreadOK
<1>4. PICK z : ThreadOK(z, row.doc, act, passed) /\ th' = [th EXCEPT ![t] = z]
  BY <1>1, <1>2, <1>3 DEF Reconcile, Step
<1>5. UNCHANGED <<storeVars, fileVars, faults>>
  BY DEF Reconcile, Step
<1>6. lease' \in Threads \cup {Free, External}
  BY LeaseTyped DEF Reconcile
<1>7. th'[t] = z /\ th' = [th EXCEPT ![t] = th'[t]]
  BY <1>4, Moved
<1> QED
  BY <1>4, <1>5, <1>6, <1>7, QuietStep

LEMMA ResyncProper ==
  ASSUME WorkersInv, NEW t \in Threads, Resync(t)
  PROVE  Proper
<1> DEFINE w == th[t]  d == w.doc  x == [At(t, w.next) EXCEPT !.doc = NoDoc]
<1>0. /\ w \in Memories /\ ThreadOK(w, row.doc, act, passed) /\ w.pc = "resync"
      /\ w.next \in {"close", "resume", "recover"} /\ d \in Documents /\ Sound(d, passed)
      /\ w.tok \in Tokens \cup {NoToken} /\ d # NoDoc
  BY ThreadFacts DEF Resync, ThreadOK, Headed, Carries
<1>1. StoreNext /\ row'.doc = d /\ UNCHANGED act
  <2>1. "running" \in StepStatuses /\ d.initial \in BOOLEAN
    BY <1>0 DEF StepStatuses, Documents
  <2> QED
    BY <1>0, <2>1, SaveIsStored DEF Resync
<1>2. ThreadOK(x, d, act, passed)
  <2>1. /\ x \in Memories /\ x.pc = w.next /\ x.job = w.job /\ x.a = w.a /\ x.doc = NoDoc
        /\ x.fin = w.fin /\ x.next = w.next
    <3>1. w.next \in PCs
      BY <1>0 DEF PCs
    <3> QED
      BY <1>0, <3>1 DEF At, Memories
  <2>2. Heading(w) = w.next /\ Heading(x) = w.next
    BY <1>0, <2>1 DEF Heading
  <2> HIDE DEF x, w, d
  <2>3. Carries(x, passed) /\ Headed(x) /\ Needs(x, d, act)
    BY <1>0, <2>1, <2>2 DEF ThreadOK, Carries, Headed, Needs
  <2> QED
    BY <2>1, <2>3 DEF ThreadOK
<1>3. th'[t] = x /\ th' = [th EXCEPT ![t] = th'[t]]
  BY Moved DEF Resync, Step
<1>4. lease' \in Threads \cup {Free, External}
  BY LeaseTyped DEF Resync
<1>5. UNCHANGED <<fileVars, faults>>
  BY DEF Resync, Step
<1> HIDE DEF x
<1> QED
  BY <1>0, <1>1, <1>2, <1>3, <1>4, <1>5, SaveStep

LEMMA ResumeProper ==
  ASSUME WorkersInv, NEW t \in Threads, Resume(t)
  PROVE  Proper
<1> DEFINE w == th[t]  x == [At(t, "loop") EXCEPT !.doc = Recovered(row.doc)]
<1>0. /\ w \in Memories /\ ThreadOK(w, row.doc, act, passed) /\ w.pc = "resume"
  BY ThreadFacts DEF Resume
<1>1. row.doc # NoDoc /\ w.job = "initial"
  BY <1>0 DEF ThreadOK, Headed, Needs, Heading
<1>2. Recovered(row.doc) \in Documents /\ Sound(Recovered(row.doc), passed)
  <2>1. FilesOK /\ row.doc \in Documents /\ Sound(row.doc, passed) /\ {} \in SUBSET Items
    BY <1>1, ThreadFacts DEF WorkersInv
  <2> QED
    BY <2>1, DocsSound
<1>3. /\ x \in Memories /\ x.pc = "loop" /\ x.job = w.job /\ x.a = w.a
      /\ x.doc = Recovered(row.doc)
  <2>1. "loop" \in PCs
    BY DEF PCs
  <2> QED
    BY <1>0, <1>2, <2>1 DEF At, Memories
<1>4. x.doc # NoDoc
  BY <1>2, <1>3, DocsAssumption
<1>5. th'[t] = x /\ th' = [th EXCEPT ![t] = th'[t]]
  BY Moved DEF Resume, Step
<1> HIDE DEF x, w
<1>6. Carries(x, passed) /\ Headed(x) /\ Needs(x, row.doc, act)
  BY <1>0, <1>1, <1>2, <1>3, <1>4 DEF ThreadOK, Carries, Headed, Heading, Needs
<1>7. UNCHANGED <<storeVars, fileVars, lease, faults>>
  BY DEF Resume, Step
<1>8. lease' \in Threads \cup {Free, External}
  BY <1>7, LeaseTyped
<1> QED
  BY <1>3, <1>5, <1>6, <1>7, <1>8, QuietStep DEF ThreadOK

LEMMA LoopProper ==
  ASSUME WorkersInv, NEW t \in Threads, Loop(t)
  PROVE  Proper
<1> DEFINE w == th[t]  d == w.doc
           queued == {i \in Items : d.st[i] = "queued"}
           i == CHOOSE j \in queued : TRUE
           x == [Saving(t, Put(d, i, "busy"), "op") EXCEPT
                   !.item = i, !.op = "generate", !.fin = "none"]
           y == Saving(t, [d EXCEPT !.initial = TRUE], "settle")
           z == [At(t, "fail") EXCEPT !.doc = NoDoc]
<1>0. /\ w \in Memories /\ ThreadOK(w, row.doc, act, passed) /\ w.pc = "loop"
      /\ d \in Documents /\ Sound(d, passed)
  BY ThreadFacts DEF Loop, ThreadOK, Carries
<1>1. w.job = "initial"
  BY <1>0 DEF ThreadOK, Headed, Heading
<1>2. queued # {} => ThreadOK(x, row.doc, act, passed)
  <2> SUFFICES ASSUME queued # {} PROVE ThreadOK(x, row.doc, act, passed)
    OBVIOUS
  <2>1. i \in Items
    OBVIOUS
  <2> HIDE DEF i, queued
  <2>2. /\ Put(d, i, "busy") \in Documents /\ Sound(Put(d, i, "busy"), passed)
        /\ Put(d, i, "busy").st[i] = "busy"
    BY <1>0, <2>1, PutSound DEF ItemStates
  <2>3. /\ x \in Memories /\ x.pc = "save" /\ x.next = "op" /\ x.doc = Put(d, i, "busy")
        /\ x.item = i /\ x.op = "generate" /\ x.job = w.job /\ x.a = w.a
    <3>1. {"save", "op"} \subseteq PCs
      BY DEF PCs
    <3> QED
      BY <1>0, <2>1, <2>2, <3>1, ZenonT(40) DEF Saving, Memories
  <2> HIDE DEF x, w, d
  <2>4. Headed(x)
    BY <1>1, <2>1, <2>2, <2>3 DEF Headed, Heading
  <2> QED
    BY <1>0, <2>2, <2>3, <2>4, SavesOK
<1>3. ThreadOK(y, row.doc, act, passed)
  <2>1. /\ [d EXCEPT !.initial = TRUE] \in Documents
        /\ Sound([d EXCEPT !.initial = TRUE], passed)
    BY <1>0, InitialSound
  <2>2. /\ y \in Memories /\ y.pc = "save" /\ y.doc = [d EXCEPT !.initial = TRUE]
        /\ y.next = "settle" /\ y.job = w.job /\ y.a = w.a
    <3>1. "settle" \in PCs
      BY DEF PCs
    <3> QED
      BY <1>0, <2>1, <3>1, SavingFields
  <2> HIDE DEF y, w, d
  <2> QED
    BY <1>0, <2>1, <2>2, SavesOK, FreelyHeaded
<1>4. ThreadOK(z, row.doc, act, passed)
  BY AtOK DEF Plain
<1>5. PICK u : ThreadOK(u, row.doc, act, passed) /\ th' = [th EXCEPT ![t] = u]
  <2>1. \/ queued # {} /\ Step(t, x)
        \/ queued = {} /\ Step(t, y)
        \/ queued # {} /\ Step(t, z)
    BY DEF Loop
  <2> HIDE DEF x, y, z, queued
  <2> QED
    BY <1>2, <1>3, <1>4, <2>1 DEF Step
<1>6. UNCHANGED <<storeVars, fileVars, lease, faults>>
  BY DEF Loop, Step
<1>7. lease' \in Threads \cup {Free, External}
  BY <1>6, LeaseTyped
<1>8. th'[t] = u /\ th' = [th EXCEPT ![t] = th'[t]]
  BY <1>5, Moved
<1> QED
  BY <1>5, <1>6, <1>7, <1>8, QuietStep

LEMMA FailProper ==
  ASSUME WorkersInv, NEW t \in Threads, Fail(t)
  PROVE  Proper
<1>1. StoreNext /\ row'.doc = row.doc /\ UNCHANGED act
  BY ThreadFacts, UpdateIsStored DEF Fail
<1>2. ThreadOK(Closing(t, "failed"), row.doc, act, passed)
  BY ThreadFacts, ClosingOK
<1>3. ThreadOK(Closing(t, "cancelled"), row.doc, act, passed)
  BY ThreadFacts, ClosingOK
<1>4. ThreadOK(At(t, "release"), row.doc, act, passed)
  BY AtOK DEF Plain
<1>5. PICK x \in {Closing(t, "failed"), Closing(t, "cancelled"), At(t, "release")} :
        th' = [th EXCEPT ![t] = x]
  BY DEF Fail, Step
<1>6. UNCHANGED <<fileVars, lease, faults>>
  BY DEF Fail, Step
<1>7. lease' \in Threads \cup {Free, External}
  BY <1>6, LeaseTyped
<1>8. th'[t] = x /\ th' = [th EXCEPT ![t] = th'[t]]
  BY <1>5, Moved
<1>9. ThreadOK(x, row.doc, act, passed)
  BY <1>2, <1>3, <1>4
<1> QED
  BY <1>1, <1>6, <1>7, <1>8, <1>9, StoreStep

-----------------------------------------------------------------------------
(* One item's operations.                                                  *)

\* A step that leaves the store alone and may change the files.
LEMMA FileStep ==
  ASSUME WorkersInv, NEW t \in Threads, UNCHANGED <<storeVars, faults>>,
         rev' \in [Items -> 0..MaxRev], passed' \in [Items -> SUBSET (1..MaxRev)],
         \A i \in Items : passed[i] \subseteq passed'[i],
         lease' \in Threads \cup {Free, External},
         th' = [th EXCEPT ![t] = th'[t]], ThreadOK(th'[t], row.doc, act, passed')
  PROVE  Proper
<1>1. run' = run /\ act' = act /\ row' = row
  BY DEF storeVars, row
<1>2. FilesOK'
  BY DEF WorkersInv, FilesOK
<1>3. Grows
  BY <1>1 DEF Grows
<1>4. Moves(t)
  BY <1>1 DEF Moves
<1> QED
  BY <1>2, <1>3, <1>4 DEF Proper

\* The file of i changes once more.
LEMMA RewriteTyped ==
  ASSUME WorkersInv, NEW i \in Items, Rewrite(i)
  PROVE  /\ rev' \in [Items -> 0..MaxRev] /\ rev'[i] = rev[i] + 1 /\ rev'[i] # 0
         /\ passed' = passed /\ rev[i] \in 0..MaxRev
<1>1. rev \in [Items -> 0..MaxRev] /\ MaxRev \in Nat
  BY BoundsAssumption DEF WorkersInv, FilesOK
<1>2. rev[i] \in 0..MaxRev /\ rev[i] + 1 \in 0..MaxRev /\ rev[i] + 1 # 0
  BY <1>1 DEF Rewrite
<1> QED
  BY <1>1, <1>2 DEF Rewrite

AtWork == {"op", "work", "analyze"}

LEMMA WorkFacts ==
  ASSUME WorkersInv, NEW t \in Threads, th[t].pc \in AtWork
  PROVE  /\ th[t].doc \in Documents /\ Sound(th[t].doc, passed) /\ th[t].item \in Items
         /\ th[t].doc.st[th[t].item] = "busy" /\ row.doc # NoDoc
         /\ th[t].job \in {"initial", "actions"}
         /\ th[t].job # "initial" => th[t].fin = "succeeded"
         /\ th[t].op # "generate" => th[t].doc.rev[th[t].item] # 0
         /\ th[t].pc # "analyze" => th[t].op # "none"
<1> DEFINE w == th[t]
<1>1. ThreadOK(w, row.doc, act, passed) /\ w.doc \in Documents \cup {NoDoc}
  BY ThreadFacts
<1>2. Heading(w) = w.pc
  BY DEF Heading, AtWork
<1> HIDE DEF w
<1>3. w.pc \in {"op", "work", "analyze"}
  BY DEF w, AtWork
<1>4. w.doc # NoDoc /\ Sound(w.doc, passed)
  BY <1>1, <1>3 DEF ThreadOK, Carries
<1>5. /\ w.item \in Items /\ w.doc.st[w.item] = "busy" /\ w.job \in {"initial", "actions"}
      /\ w.job # "initial" => w.fin = "succeeded"
      /\ w.op # "generate" => w.doc.rev[w.item] # 0
      /\ w.pc # "analyze" => w.op # "none"
  BY <1>1, <1>2, <1>3 DEF ThreadOK, Headed
<1>6. row.doc # NoDoc
  BY <1>1, <1>3 DEF ThreadOK, Needs
<1> QED
  BY <1>1, <1>4, <1>5, <1>6 DEF w

\* The item's operations are over: the next script, or the result.
LEMMA AfterOK ==
  ASSUME WorkersInv, NEW t \in Threads, th[t].pc \in AtWork,
         NEW p, ThreadOK(th[t], row.doc, act, p), NEW d \in Documents, Sound(d, p)
  PROVE  ThreadOK(Saving(t, d, After(t)), row.doc, act, p)
<1> DEFINE w == th[t]  x == Saving(t, d, After(t))
<1>1. w \in Memories /\ w.job \in {"initial", "actions"} /\ (w.job # "initial" => w.fin = "succeeded")
  BY ThreadFacts, WorkFacts
<1>2. /\ x \in Memories /\ x.pc = "save" /\ x.doc = d /\ x.next = After(t)
      /\ x.job = w.job /\ x.a = w.a /\ x.fin = w.fin
  <2>1. After(t) \in PCs
    BY DEF PCs, After
  <2> QED
    BY <1>1, <2>1, SavingFields
<1>3. After(t) = IF w.job = "initial" THEN "loop" ELSE "finish"
  BY DEF After
<1> HIDE DEF x, w
<1>4. Headed(x)
  BY <1>1, <1>2, <1>3 DEF Headed, Heading
<1> QED
  BY <1>2, <1>4, SavesOK DEF x, w

\* The item goes on to its next operation or to its analysis.
LEMMA GoesOnOK ==
  ASSUME WorkersInv, NEW t \in Threads, th[t].pc \in AtWork,
         NEW d \in Documents, Sound(d, passed), d.st[th[t].item] = "busy"
  PROVE  /\ (th[t].op # "generate" => d.rev[th[t].item] # 0) =>
              ThreadOK(Saving(t, d, "analyze"), row.doc, act, passed)
         /\ \A op \in {"execute", "verify", "repair"} :
              d.rev[th[t].item] # 0 =>
                ThreadOK([Saving(t, d, "op") EXCEPT !.op = op], row.doc, act, passed)
<1> DEFINE w == th[t]
<1>1. /\ w \in Memories /\ w.job \in {"initial", "actions"} /\ ThreadOK(w, row.doc, act, passed)
      /\ w.job # "initial" => w.fin = "succeeded"
      /\ w.item \in Items
  BY ThreadFacts, WorkFacts
<1>2. ASSUME w.op # "generate" => d.rev[w.item] # 0
      PROVE  ThreadOK(Saving(t, d, "analyze"), row.doc, act, passed)
  <2> DEFINE x == Saving(t, d, "analyze")
  <2>1. /\ x \in Memories /\ x.pc = "save" /\ x.doc = d /\ x.next = "analyze"
        /\ x.job = w.job /\ x.a = w.a /\ x.fin = w.fin /\ x.item = w.item /\ x.op = w.op
    <3>1. "analyze" \in PCs
      BY DEF PCs
    <3> QED
      BY <1>1, <3>1, SavingFields
  <2> HIDE DEF x
  <2>2. Headed(x)
    BY <1>1, <1>2, <2>1 DEF Headed, Heading
  <2> QED
    BY <1>1, <2>1, <2>2, SavesOK DEF x
<1>3. ASSUME NEW op \in {"execute", "verify", "repair"}, d.rev[w.item] # 0
      PROVE  ThreadOK([Saving(t, d, "op") EXCEPT !.op = op], row.doc, act, passed)
  <2> DEFINE x == [Saving(t, d, "op") EXCEPT !.op = op]
  <2>1. /\ x \in Memories /\ x.pc = "save" /\ x.doc = d /\ x.next = "op"
        /\ x.job = w.job /\ x.a = w.a /\ x.fin = w.fin /\ x.item = w.item /\ x.op = op
    <3>1. {"save", "op"} \subseteq PCs
      BY DEF PCs
    <3> QED
      BY <1>1, <3>1 DEF Saving, Memories
  <2> HIDE DEF x
  <2>2. Headed(x)
    BY <1>1, <1>3, <2>1 DEF Headed, Heading
  <2> QED
    BY <1>1, <2>1, <2>2, SavesOK DEF x
<1> QED
  BY <1>2, <1>3

LEMMA OpProper ==
  ASSUME WorkersInv, NEW t \in Threads, Op(t)
  PROVE  Proper
<1> DEFINE w == th[t]  x == At(t, "work")
<1>0. w.pc \in AtWork /\ w.pc = "op"
  BY DEF Op, AtWork
<1>1. /\ w \in Memories /\ ThreadOK(w, row.doc, act, passed)
      /\ w.doc \in Documents /\ Sound(w.doc, passed) /\ w.item \in Items
      /\ w.doc.st[w.item] = "busy" /\ (w.op # "generate" => w.doc.rev[w.item] # 0)
  BY <1>0, ThreadFacts, WorkFacts
<1>2. ThreadOK(x, row.doc, act, passed)
  <2>1. /\ x \in Memories /\ x.pc = "work" /\ x.job = w.job /\ x.a = w.a /\ x.doc = w.doc
        /\ x.fin = w.fin /\ x.item = w.item /\ x.op = w.op
    <3>1. "work" \in PCs
      BY DEF PCs
    <3> QED
      BY <1>1, <3>1 DEF At, Memories
  <2> HIDE DEF x, w
  <2>2. Carries(x, passed) /\ Headed(x) /\ Needs(x, row.doc, act)
    BY <1>0, <1>1, <2>1 DEF ThreadOK, Carries, Headed, Heading, Needs
  <2> QED
    BY <2>1, <2>2 DEF ThreadOK
<1>3. ThreadOK(Saving(t, w.doc, "analyze"), row.doc, act, passed)
  BY <1>0, <1>1, GoesOnOK
<1>4. ThreadOK(Saving(t, Put(w.doc, w.item, "parked"), After(t)), row.doc, act, passed)
  <2>0. "parked" \in ItemStates /\ "parked" # "ready"
    BY DEF ItemStates
  <2>1. /\ Put(w.doc, w.item, "parked") \in Documents
        /\ Sound(Put(w.doc, w.item, "parked"), passed)
    BY <1>1, <2>0, PutSound
  <2> QED
    BY <1>0, <1>1, <2>1, AfterOK
<1>5. PICK z \in {x, Saving(t, w.doc, "analyze"),
                  Saving(t, Put(w.doc, w.item, "parked"), After(t))} :
        th' = [th EXCEPT ![t] = z]
  BY DEF Op, Step
<1> HIDE DEF x
<1>6. UNCHANGED <<storeVars, fileVars, faults>>
  BY DEF Op, Step
<1>7. lease' \in Threads \cup {Free, External}
  BY LeaseTyped DEF Op
<1>8. th'[t] = z /\ th' = [th EXCEPT ![t] = th'[t]]
  BY <1>5, Moved
<1>9. ThreadOK(z, row.doc, act, passed)
  BY <1>2, <1>3, <1>4, <1>5
<1> QED
  BY <1>6, <1>7, <1>8, <1>9, QuietStep

LEMMA WriteProper ==
  ASSUME WorkersInv, NEW t \in Threads, Write(t)
  PROVE  Proper
<1> DEFINE w == th[t]  i == w.item  d == w.doc
           saved == [d EXCEPT !.rev[i] = rev'[i]]
           current == d.rev[i] = rev[i]
           op == IF w.op = "generate" THEN "execute" ELSE "verify"
           x == [Saving(t, saved, "op") EXCEPT !.op = op]
           y == Saving(t, IF current THEN saved ELSE d, "analyze")
<1>0. w.pc \in AtWork
  BY DEF Write, AtWork
<1>1. /\ d \in Documents /\ Sound(d, passed) /\ i \in Items /\ d.st[i] = "busy"
      /\ w.job \in {"initial", "actions"}
      /\ w.op # "generate" => d.rev[i] # 0
  BY <1>0, WorkFacts
<1>2. ThreadOK(Aborted(t), row.doc, act, passed)
  BY <1>1, AbortedOK
<1>3. /\ (current /\ Rewrite(i)) \/ UNCHANGED fileVars
      /\ \/ current /\ Rewrite(i) /\ th' = [th EXCEPT ![t] = x]
         \/ th' = [th EXCEPT ![t] = Aborted(t)]
         \/ th' = [th EXCEPT ![t] = y]
      /\ Unlock(t) /\ UNCHANGED <<storeVars, faults>>
  BY DEF Write, Step
<1>4. /\ rev' \in [Items -> 0..MaxRev] /\ passed' = passed /\ rev'[i] \in 0..MaxRev
      /\ Rewrite(i) => rev'[i] # 0
      /\ current /\ d.rev[i] # 0 => rev'[i] # 0
  <2>1. rev \in [Items -> 0..MaxRev]
    BY DEF WorkersInv, FilesOK
  <2> HIDE DEF i, d
  <2>2. CASE current /\ Rewrite(i)
    BY <1>1, <2>2, RewriteTyped
  <2>3. CASE UNCHANGED fileVars
    <3>1. rev' = rev /\ passed' = passed
      BY <2>3 DEF fileVars
    <3>2. Rewrite(i) => rev[i] + 1 = rev[i] /\ rev[i] \in Nat
      BY <1>1, <2>1, <3>1, BoundsAssumption DEF Rewrite
    <3> QED
      BY <1>1, <2>1, <3>1, <3>2
  <2> QED
    BY <1>3, <2>2, <2>3
<1>5. /\ saved \in Documents /\ Sound(saved, passed) /\ saved.st[i] = "busy"
      /\ saved.rev[i] = rev'[i]
  BY <1>1, <1>4, RevSound
<1>6. Rewrite(i) => ThreadOK(x, row.doc, act, passed)
  <2>1. op \in {"execute", "verify", "repair"}
    OBVIOUS
  <2> HIDE DEF saved, op, d
  <2> QED
    BY <1>0, <1>4, <1>5, <2>1, GoesOnOK
<1>7. ThreadOK(y, row.doc, act, passed)
  <2> DEFINE e == IF current THEN saved ELSE d
  <2>1. e \in Documents /\ Sound(e, passed) /\ e.st[i] = "busy"
    BY <1>1, <1>5
  <2>2. w.op # "generate" => e.rev[i] # 0
    BY <1>1, <1>4, <1>5
  <2> HIDE DEF e
  <2>3. ThreadOK(Saving(t, e, "analyze"), row.doc, act, passed)
    BY <1>0, <2>1, <2>2, GoesOnOK
  <2> QED
    BY <2>3 DEF e
<1> HIDE DEF x, y, current
<1>8. PICK z : ThreadOK(z, row.doc, act, passed) /\ th' = [th EXCEPT ![t] = z]
  BY <1>2, <1>3, <1>6, <1>7
<1>9. th'[t] = z /\ th' = [th EXCEPT ![t] = th'[t]]
  BY <1>8, Moved
<1>10. lease' \in Threads \cup {Free, External}
  BY <1>3, LeaseTyped
<1>11. passed' \in [Items -> SUBSET (1..MaxRev)]
  BY <1>4 DEF WorkersInv, FilesOK
<1> QED
  BY <1>3, <1>4, <1>8, <1>9, <1>10, <1>11, FileStep

LEMMA RunProper ==
  ASSUME WorkersInv, NEW t \in Threads, Run(t)
  PROVE  Proper
<1> DEFINE w == th[t]  i == w.item  d == w.doc
           current == d.rev[i] = rev[i]
<1>0. w.pc \in AtWork
  BY DEF Run, AtWork
<1>1. /\ d \in Documents /\ Sound(d, passed) /\ i \in Items /\ d.st[i] = "busy"
      /\ w.job \in {"initial", "actions"} /\ d.rev[i] # 0
      /\ ThreadOK(w, row.doc, act, passed)
  BY <1>0, WorkFacts, ThreadFacts DEF Run, Writing
<1>2. /\ lease' \in Threads \cup {Free, External} /\ rev' = rev
      /\ UNCHANGED <<storeVars, faults>>
  BY LeaseTyped DEF Run, Step
<1>3. rev \in [Items -> 0..MaxRev] /\ passed \in [Items -> SUBSET (1..MaxRev)]
  BY DEF WorkersInv, FilesOK
<1>4. CASE /\ current
           /\ Step(t, Saving(t, Put(d, i, "ready"), After(t)))
           /\ passed' = [passed EXCEPT ![i] = @ \cup {rev[i]}]
  <2> DEFINE e == Put(d, i, "ready")  x == Saving(t, e, After(t))
  <2>1. rev[i] \in 1..MaxRev
    BY <1>1, <1>3, <1>4, BoundsAssumption
  <2> HIDE DEF i, d
  <2>2. /\ passed' \in [Items -> SUBSET (1..MaxRev)]
        /\ \A j \in Items : passed[j] \subseteq passed'[j]
        /\ d.rev[i] \in passed'[i]
    BY <1>1, <1>3, <1>4, <2>1
  <2>3. ThreadOK(w, row.doc, act, passed')
    BY <1>1, <2>2, ThreadKept
  <2>4. Sound(d, passed')
    BY <1>1, <2>2, SoundGrows
  <2>5. e \in Documents /\ Sound(e, passed')
    BY <1>1, <2>2, <2>4, PutReady
  <2>6. th'[t] = x /\ th' = [th EXCEPT ![t] = th'[t]]
    BY <1>4, Moved DEF Step
  <2> HIDE DEF e
  <2>7. ThreadOK(x, row.doc, act, passed')
    BY <1>0, <2>3, <2>5, AfterOK
  <2> QED
    BY <1>2, <1>3, <2>2, <2>6, <2>7, FileStep
<1>5. ASSUME NEW x, ThreadOK(x, row.doc, act, passed), Step(t, x), UNCHANGED passed
      PROVE  Proper
  <2>1. th'[t] = x /\ th' = [th EXCEPT ![t] = th'[t]]
    BY <1>5, Moved DEF Step
  <2> QED
    BY <1>2, <1>5, <2>1, QuietStep DEF fileVars
<1>6. ThreadOK(Aborted(t), row.doc, act, passed)
  BY <1>1, AbortedOK
<1>7. ThreadOK(Saving(t, d, "analyze"), row.doc, act, passed)
  BY <1>0, <1>1, GoesOnOK
<1>8. ThreadOK([Saving(t, d, "op") EXCEPT !.op = "repair"], row.doc, act, passed)
  BY <1>0, <1>1, GoesOnOK
<1>9. ThreadOK(Saving(t, Put(d, i, "parked"), After(t)), row.doc, act, passed)
  <2>0. "parked" \in ItemStates /\ "parked" # "ready"
    BY DEF ItemStates
  <2> HIDE DEF i, d
  <2>1. Put(d, i, "parked") \in Documents /\ Sound(Put(d, i, "parked"), passed)
    BY <1>1, <2>0, PutSound
  <2> QED
    BY <1>0, <1>1, <2>1, AfterOK
<1>10. CASE /\ Step(t, IF row.cancel THEN Aborted(t) ELSE Saving(t, d, "analyze"))
            /\ UNCHANGED passed
  BY <1>5, <1>6, <1>7, <1>10
<1>11. CASE /\ Step(t, [Saving(t, d, "op") EXCEPT !.op = "repair"])
            /\ UNCHANGED passed
  BY <1>5, <1>8, <1>11
<1>12. CASE /\ Step(t, Saving(t, Put(d, i, "parked"), After(t)))
            /\ UNCHANGED passed
  BY <1>5, <1>9, <1>12
<1> QED
  BY <1>4, <1>10, <1>11, <1>12 DEF Run

LEMMA AnalyzeProper ==
  ASSUME WorkersInv, NEW t \in Threads, Analyze(t)
  PROVE  Proper
<1> DEFINE w == th[t]  d == Put(w.doc, w.item, "review")
<1>0. w.pc \in AtWork
  BY DEF Analyze, AtWork
<1>1. d \in Documents /\ Sound(d, passed)
  BY <1>0, WorkFacts, PutSound DEF ItemStates
<1>2. ThreadOK(Saving(t, d, After(t)), row.doc, act, passed)
  BY <1>0, <1>1, AfterOK, ThreadFacts
<1>3. ThreadOK(Aborted(t), row.doc, act, passed)
  BY <1>0, WorkFacts, AbortedOK
<1>4. PICK x \in {Saving(t, d, After(t)), Aborted(t)} : th' = [th EXCEPT ![t] = x]
  BY DEF Analyze, Step
<1>5. UNCHANGED <<storeVars, fileVars, lease, faults>>
  BY DEF Analyze, Step
<1>6. lease' \in Threads \cup {Free, External}
  BY <1>5, LeaseTyped
<1>7. th'[t] = x /\ th' = [th EXCEPT ![t] = th'[t]]
  BY <1>4, Moved
<1>8. ThreadOK(x, row.doc, act, passed)
  BY <1>2, <1>3, <1>4
<1> QED
  BY <1>5, <1>6, <1>7, <1>8, QuietStep


-----------------------------------------------------------------------------
(* run_actions.                                                            *)

\* A thread that saves a sound document and needs nothing afterwards.
LEMMA SavesFreely ==
  ASSUME WorkersInv, NEW t \in Threads, NEW d \in Documents, Sound(d, passed),
         NEW nxt \in {"settle", "next", "post", "sealed", "resettle"},
         nxt = "next" => th[t].job = "actions"
  PROVE  ThreadOK(Saving(t, d, nxt), row.doc, act, passed)
<1> DEFINE x == Saving(t, d, nxt)
<1>1. th[t] \in Memories /\ ThreadOK(th[t], row.doc, act, passed)
  BY ThreadFacts
<1>2. x \in Memories /\ x.pc = "save" /\ x.doc = d /\ x.next = nxt
      /\ x.job = th[t].job /\ x.a = th[t].a
  <2>1. nxt \in PCs
    BY DEF PCs
  <2> QED
    BY <1>1, <2>1, SavingFields
<1> HIDE DEF x
<1>3. Headed(x)
  BY <1>2, FreelyHeaded
<1> QED
  BY <1>1, <1>2, <1>3, SavesOK DEF x

LEMMA RecoverItemsProper ==
  ASSUME WorkersInv, NEW t \in Threads, RecoverItems(t)
  PROVE  Proper
<1>1. th[t].pc = "recover" /\ th[t].job = "actions"
  BY ThreadFacts DEF RecoverItems, Headed, Heading
<1>2. ThreadOK(At(t, "next"), row.doc, act, passed)
  BY <1>1, AtOK DEF Plain
<1>3. Running(row.doc) # {} => ThreadOK(Saving(t, Recovered(row.doc), "next"), row.doc, act, passed)
  <2> SUFFICES ASSUME Running(row.doc) # {}
               PROVE  ThreadOK(Saving(t, Recovered(row.doc), "next"), row.doc, act, passed)
    OBVIOUS
  <2>1. FilesOK /\ row.doc \in Documents /\ Sound(row.doc, passed) /\ {} \in SUBSET Items
    BY ThreadFacts DEF Running, WorkersInv
  <2>2. Recovered(row.doc) \in Documents /\ Sound(Recovered(row.doc), passed)
    BY <2>1, DocsSound
  <2> QED
    BY <1>1, <2>2, SavesFreely
<1>4. PICK x : ThreadOK(x, row.doc, act, passed) /\ th' = [th EXCEPT ![t] = x]
  BY <1>2, <1>3 DEF RecoverItems, Step
<1>5. th'[t] = x /\ th' = [th EXCEPT ![t] = th'[t]]
  BY <1>4, Moved
<1>6. UNCHANGED <<storeVars, fileVars, faults>> /\ lease' \in Threads \cup {Free, External}
  BY LeaseTyped DEF RecoverItems, Step
<1> QED
  BY <1>4, <1>5, <1>6, QuietStep

LEMMA NextActionProper ==
  ASSUME WorkersInv, NEW t \in Threads, NextAction(t)
  PROVE  Proper
<1> DEFINE w == th[t]
<1>1. /\ w \in Memories /\ ThreadOK(w, row.doc, act, passed) /\ w.pc = "next"
      /\ w.job = "actions" /\ w.tok \in Tokens \cup {NoToken} /\ row.doc # NoDoc
  BY ThreadFacts DEF NextAction, Headed, Heading, Needs
<1>2. UNCHANGED <<fileVars, faults>> /\ lease' \in Threads \cup {Free, External}
  BY LeaseTyped DEF NextAction, Step
<1>3. ASSUME NEW x, ThreadOK(x, row.doc, act, passed), th' = [th EXCEPT ![t] = x],
             UNCHANGED storeVars
      PROVE  Proper
  BY <1>2, <1>3, Moved, QuietStep
<1>4. CASE Step(t, Closing(t, "cancelled")) /\ UNCHANGED storeVars
  BY <1>1, <1>3, <1>4, ClosingOK DEF Step
<1>5. ASSUME NEW a \in Actions, ClaimNextAction(R, w.tok, a),
             Step(t, [At(t, "validate") EXCEPT !.a = a, !.doc = NoDoc, !.fin = "none"])
      PROVE  Proper
  <2> DEFINE x == [At(t, "validate") EXCEPT !.a = a, !.doc = NoDoc, !.fin = "none"]
  <2>1. StoreNext /\ row'.doc = row.doc /\ ActsKept /\ act[a].run = R
    BY <1>1, <1>5, NextIsStored
  <2>2. x \in Memories /\ x.pc = "validate" /\ x.a = a /\ x.doc = NoDoc /\ x.job = w.job
    <3>1. "validate" \in PCs /\ a \in 0..MaxActions
      BY MaxActionsAssumption DEF PCs, Actions
    <3> QED
      BY <1>1, <3>1 DEF At, Memories
  <2>3. a # 0
    BY MaxActionsAssumption DEF Actions
  <2>4. th'[t] = x /\ th' = [th EXCEPT ![t] = th'[t]]
    BY <1>5, Moved DEF Step
  <2> HIDE DEF x, w
  <2>5. Carries(x, passed) /\ Headed(x)
    BY <1>1, <2>2 DEF Carries, Headed, Heading
  <2>6. Needs(x, row.doc, act)
    BY <1>1, <2>1, <2>2, <2>3 DEF Needs, Heading
  <2> QED
    BY <1>2, <2>1, <2>2, <2>4, <2>5, <2>6, StoreStep DEF ThreadOK, ActsKept
<1>6. CASE Step(t, [At(t, "settle") EXCEPT !.doc = NoDoc, !.fin = "none"]) /\ UNCHANGED storeVars
  <2> DEFINE x == [At(t, "settle") EXCEPT !.doc = NoDoc, !.fin = "none"]
  <2>1. x \in Memories /\ x.pc = "settle" /\ x.a = w.a /\ x.doc = NoDoc /\ x.job = w.job
    <3>1. "settle" \in PCs
      BY DEF PCs
    <3> QED
      BY <1>1, <3>1 DEF At, Memories
  <2>2. th' = [th EXCEPT ![t] = x]
    BY <1>6 DEF Step
  <2> HIDE DEF x, w
  <2>3. Carries(x, passed) /\ Headed(x) /\ Needs(x, row.doc, act)
    BY <1>1, <2>1 DEF Carries, Headed, Heading, Needs, ThreadOK
  <2> QED
    BY <1>3, <1>6, <2>1, <2>2, <2>3 DEF ThreadOK
<1>7. CASE Step(t, Idle) /\ UNCHANGED storeVars
  BY <1>3, <1>7, IdleOK DEF Step
<1> QED
  BY <1>4, <1>5, <1>6, <1>7 DEF NextAction

LEMMA ValidateProper ==
  ASSUME WorkersInv, NEW t \in Threads, Validate(t)
  PROVE  Proper
<1> DEFINE w == th[t]
<1>1. /\ w \in Memories /\ ThreadOK(w, row.doc, act, passed) /\ w.pc = "validate"
      /\ w.job = "actions" /\ w.a # 0
  BY ThreadFacts DEF Validate, Headed, Heading, Needs
<1>2. CASE ClearExpiredWorker(R, Resting) /\ UNCHANGED <<th, lease, faults>>
  <2>1. StoreNext /\ row'.doc = row.doc /\ ActsKept
    BY <1>1, <1>2, TokenIsStored, ThreadFacts
  <2>2. th' = [th EXCEPT ![t] = th'[t]] /\ th'[t] = w
    BY <1>2 DEF WorkersInv
  <2>3. lease' \in Threads \cup {Free, External}
    BY <1>2, LeaseTyped
  <2> QED
    BY <1>1, <1>2, <2>1, <2>2, <2>3, StoreStep DEF Validate, ActsKept
<1>3. CASE UNCHANGED storeVars /\ \E x \in {Refused(t), At(t, "scope"), At(t, "apply")} : Step(t, x)
  <2> DEFINE y == At(t, "scope")
  <2>1. ThreadOK(y, row.doc, act, passed)
    <3>1. y \in Memories /\ y.pc = "scope" /\ y.job = w.job /\ y.a = w.a /\ y.doc = w.doc
      <4>1. "scope" \in PCs
        BY DEF PCs
      <4> QED
        BY <1>1, <4>1 DEF At, Memories
    <3> HIDE DEF y, w
    <3> QED
      BY <1>1, <3>1 DEF ThreadOK, Carries, Headed, Heading, Needs
  <2>2. ThreadOK(Refused(t), row.doc, act, passed) /\ ThreadOK(At(t, "apply"), row.doc, act, passed)
    BY <1>1, RefusedOK, ApplyOK
  <2>3. PICK x \in {Refused(t), y, At(t, "apply")} : th' = [th EXCEPT ![t] = x]
    BY <1>3 DEF Step
  <2> HIDE DEF y
  <2>4. ThreadOK(x, row.doc, act, passed)
    BY <2>1, <2>2, <2>3
  <2>5. th'[t] = x /\ th' = [th EXCEPT ![t] = th'[t]]
    BY <2>3, Moved
  <2>6. UNCHANGED <<fileVars, faults>>
    BY <1>3 DEF Validate, Step
  <2>7. lease' \in Threads \cup {Free, External}
    BY LeaseTyped DEF Validate
  <2> QED
    BY <1>3, <2>4, <2>5, <2>6, <2>7, QuietStep
<1> QED
  BY <1>2, <1>3 DEF Validate

LEMMA AdoptProper ==
  ASSUME WorkersInv, NEW t \in Threads, Adopt(t)
  PROVE  Proper
<1> DEFINE S == Unverified(row.doc)
<1>1. ThreadOK(At(t, "post"), row.doc, act, passed)
  BY AtOK DEF Plain
<1>2. S # {} => ThreadOK(Saving(t, Adopted(row.doc, S), "post"), row.doc, act, passed)
  <2> SUFFICES ASSUME S # {} PROVE ThreadOK(Saving(t, Adopted(row.doc, S), "post"), row.doc, act, passed)
    OBVIOUS
  <2>1. S \in SUBSET Items
    BY DEF Unverified, Stale
  <2>2. FilesOK /\ row.doc \in Documents /\ Sound(row.doc, passed)
    BY ThreadFacts DEF Unverified, WorkersInv
  <2> HIDE DEF S
  <2>3. Adopted(row.doc, S) \in Documents /\ Sound(Adopted(row.doc, S), passed)
    BY <2>1, <2>2, DocsSound
  <2> QED
    BY <2>3, SavesFreely
<1>3. PICK x : ThreadOK(x, row.doc, act, passed) /\ th' = [th EXCEPT ![t] = x]
  BY <1>1, <1>2 DEF Adopt, Step
<1>4. th'[t] = x /\ th' = [th EXCEPT ![t] = th'[t]]
  BY <1>3, Moved
<1>5. UNCHANGED <<storeVars, fileVars, faults>> /\ lease' \in Threads \cup {Free, External}
  BY LeaseTyped DEF Adopt, Step
<1> QED
  BY <1>3, <1>4, <1>5, QuietStep

LEMMA ApplyProper ==
  ASSUME WorkersInv, NEW t \in Threads, Apply(t)
  PROVE  Proper
<1> DEFINE w == th[t]  d == row.doc  i == act[w.a].item
<1>1. /\ w \in Memories /\ ThreadOK(w, row.doc, act, passed) /\ w.pc = "apply"
      /\ w.job = "actions" /\ w.a # 0 /\ d \in Documents /\ Sound(d, passed)
      /\ act[w.a].run = R
  BY ThreadFacts DEF Apply, Headed, Heading, Needs
<1>2. i \in Items
  <2>1. w.a \in Actions
    BY <1>1, MaxActionsAssumption DEF Memories, Actions
  <2> QED
    BY <1>1, <2>1 DEF WorkersInv, Asked
<1>3. ThreadOK([At(t, "finish") EXCEPT !.fin = "failed"], row.doc, act, passed)
  BY <1>1, FinishOK
<1>4. {"abandoned", "busy"} \subseteq ItemStates \ {"ready"}
  BY DEF ItemStates
<1> HIDE DEF i
<1>5. ThreadOK([Saving(t, Put(d, i, "abandoned"), "finish") EXCEPT !.item = i, !.fin = "succeeded"],
               row.doc, act, passed)
  <2> DEFINE e == Put(d, i, "abandoned")
             x == [Saving(t, e, "finish") EXCEPT !.item = i, !.fin = "succeeded"]
  <2>1. e \in Documents /\ Sound(e, passed)
    BY <1>1, <1>2, <1>4, PutSound
  <2> HIDE DEF e
  <2>2. /\ x \in Memories /\ x.pc = "save" /\ x.doc = e /\ x.next = "finish"
        /\ x.job = w.job /\ x.a = w.a /\ x.fin = "succeeded"
    <3>1. {"save", "finish"} \subseteq PCs
      BY DEF PCs
    <3> QED
      BY <1>1, <1>2, <2>1, <3>1 DEF Saving, Memories
  <2> HIDE DEF x, w
  <2>3. Headed(x)
    BY <1>1, <2>2 DEF Headed, Heading
  <2>4. ThreadOK(x, row.doc, act, passed)
    BY <1>1, <2>1, <2>2, <2>3, SavesOK
  <2> QED
    BY <2>4 DEF e, x
<1>6. ASSUME NEW op \in {"generate", "execute", "repair"}, op # "generate" => d.rev[i] # 0
      PROVE  ThreadOK([Saving(t, Put(d, i, "busy"), "op") EXCEPT
                         !.item = i, !.op = op, !.fin = "succeeded"], row.doc, act, passed)
  <2> DEFINE e == Put(d, i, "busy")
             x == [Saving(t, e, "op") EXCEPT !.item = i, !.op = op, !.fin = "succeeded"]
  <2>1. /\ e \in Documents /\ Sound(e, passed) /\ e.st[i] = "busy"
        /\ op # "generate" => e.rev[i] # 0
    BY <1>1, <1>2, <1>4, <1>6, PutSound
  <2> HIDE DEF e
  <2>2. /\ x \in Memories /\ x.pc = "save" /\ x.doc = e /\ x.next = "op"
        /\ x.job = w.job /\ x.a = w.a /\ x.fin = "succeeded" /\ x.item = i /\ x.op = op
    <3>1. {"save", "op"} \subseteq PCs
      BY DEF PCs
    <3> QED
      BY <1>1, <1>2, <2>1, <3>1, ZenonT(40) DEF Saving, Memories
  <2> HIDE DEF x, w
  <2>3. Headed(x)
    BY <1>1, <1>2, <2>1, <2>2 DEF Headed, Heading
  <2>4. ThreadOK(x, row.doc, act, passed)
    BY <1>1, <2>1, <2>2, <2>3, SavesOK
  <2> QED
    BY <2>4 DEF e, x
<1>7. PICK x : ThreadOK(x, row.doc, act, passed) /\ th' = [th EXCEPT ![t] = x]
  BY <1>3, <1>5, <1>6 DEF Apply, Step, i
<1>8. th'[t] = x /\ th' = [th EXCEPT ![t] = th'[t]]
  BY <1>7, Moved
<1>9. UNCHANGED <<storeVars, fileVars, faults>> /\ lease' \in Threads \cup {Free, External}
  BY LeaseTyped DEF Apply, Step
<1> QED
  BY <1>7, <1>8, <1>9, QuietStep

LEMMA FinishProper ==
  ASSUME WorkersInv, NEW t \in Threads, Finish(t)
  PROVE  Proper
<1> DEFINE w == th[t]
           x == [At(t, "beat") EXCEPT !.a = 0, !.doc = NoDoc, !.item = NoItem,
                                      !.op = "none", !.fin = "none", !.next = "none"]
<1>1. /\ w \in Memories /\ ThreadOK(w, row.doc, act, passed) /\ w.pc = "finish"
      /\ w.job = "actions" /\ w.tok \in Tokens \cup {NoToken} /\ w.a \in Nat
      /\ w.fin \in {"succeeded", "failed"}
  BY ThreadFacts, MaxActionsAssumption DEF Finish, Headed, Heading, Memories
<1>2. [StoreNext]_storeVars /\ row'.doc = row.doc /\ ActsKept
  BY <1>1, FinishIsStored DEF Finish
<1>3. x \in Memories /\ x.pc = "beat" /\ x.job = w.job /\ x.a = 0 /\ x.doc = NoDoc
  <2>1. "beat" \in PCs /\ 0 \in 0..MaxActions
    BY MaxActionsAssumption DEF PCs
  <2> DEFINE y == [At(t, "beat") EXCEPT !.a = 0, !.doc = NoDoc, !.item = NoItem]
  <2>2. y \in Memories /\ y.pc = "beat" /\ y.job = w.job /\ y.a = 0 /\ y.doc = NoDoc
    BY <1>1, <2>1 DEF At, Memories
  <2>3. x = [y EXCEPT !.op = "none", !.fin = "none", !.next = "none"]
    BY <1>1, <2>2 DEF At, Memories
  <2> HIDE DEF x, y
  <2> QED
    BY <2>2, <2>3 DEF Memories
<1>4. th'[t] = x /\ th' = [th EXCEPT ![t] = th'[t]]
  BY Moved DEF Finish, Step
<1> HIDE DEF x
<1>5. ThreadOK(x, row.doc, act, passed)
  BY <1>1, <1>3, PlainOK DEF Plain
<1>6. UNCHANGED <<fileVars, faults>> /\ lease' \in Threads \cup {Free, External}
  BY LeaseTyped DEF Finish, Step
<1> QED
  BY <1>2, <1>4, <1>5, <1>6, StoreStep DEF ActsKept

LEMMA BeatProper ==
  ASSUME WorkersInv, NEW t \in Threads, Beat(t)
  PROVE  Proper
<1>1. th[t].job = "actions" /\ th[t].tok \in Tokens \cup {NoToken}
  BY ThreadFacts DEF Beat, Headed, Heading
<1>2. ThreadOK(At(t, "next"), row.doc, act, passed)
  BY <1>1, AtOK DEF Plain
<1>3. ThreadOK(Closing(t, "cancelled"), row.doc, act, passed)
  BY ThreadFacts, ClosingOK
<1>4. [StoreNext]_storeVars /\ row'.doc = row.doc /\ ActsKept
  <2>1. CASE UNCHANGED storeVars
    BY <2>1 DEF storeVars, row, ActsKept
  <2>2. CASE HeartbeatWorker(R, th[t].tok)
    BY <1>1, <2>2, TokenIsStored
  <2> QED
    BY <2>1, <2>2 DEF Beat
<1>5. PICK x \in {At(t, "next"), Closing(t, "cancelled")} : th' = [th EXCEPT ![t] = x]
  BY DEF Beat, Step
<1>6. th'[t] = x /\ th' = [th EXCEPT ![t] = th'[t]]
  BY <1>5, Moved
<1>7. ThreadOK(x, row.doc, act, passed)
  BY <1>2, <1>3
<1>8. UNCHANGED <<fileVars, faults>> /\ lease' \in Threads \cup {Free, External}
  BY LeaseTyped DEF Beat, Step
<1> QED
  BY <1>4, <1>6, <1>7, <1>8, StoreStep DEF ActsKept

-----------------------------------------------------------------------------
(* Settling the run.                                                       *)

LEMMA SettleProper ==
  ASSUME WorkersInv, NEW t \in Threads, Settle(t)
  PROVE  Proper
<1> DEFINE d == row.doc  S == {i \in Stale(d) : d.st[i] # "abandoned"}
<1>1. d \in Documents /\ Sound(d, passed)
  BY ThreadFacts DEF Settle, Needs
<1>2. /\ ThreadOK([At(t, "sealed") EXCEPT !.doc = NoDoc], row.doc, act, passed)
      /\ ThreadOK([At(t, "resettle") EXCEPT !.doc = NoDoc], row.doc, act, passed)
      /\ ThreadOK([At(t, "release") EXCEPT !.fin = "busy", !.doc = NoDoc], row.doc, act, passed)
  BY AtOK DEF Plain
<1>3. ThreadOK(Saving(t, Adopted(d, S), "sealed"), row.doc, act, passed)
  <2>1. S \in SUBSET Items /\ FilesOK
    BY DEF Stale, WorkersInv
  <2> HIDE DEF S, d
  <2>2. Adopted(d, S) \in Documents /\ Sound(Adopted(d, S), passed)
    BY <1>1, <2>1, DocsSound
  <2> QED
    BY <2>2, SavesFreely
<1>4. PICK x : ThreadOK(x, row.doc, act, passed) /\ th' = [th EXCEPT ![t] = x]
  BY <1>2, <1>3 DEF Settle, Step
<1>5. th'[t] = x /\ th' = [th EXCEPT ![t] = th'[t]]
  BY <1>4, Moved
<1>6. UNCHANGED <<storeVars, fileVars, faults>> /\ lease' \in Threads \cup {Free, External}
  BY LeaseTyped DEF Settle, Step
<1> QED
  BY <1>4, <1>5, <1>6, QuietStep

LEMMA SealProper ==
  ASSUME WorkersInv, NEW t \in Threads, Seal(t)
  PROVE  Proper
<1> DEFINE d == row.doc
           step == IF AllTerminal(d) THEN "succeeded" ELSE "awaiting_action"
<1>1. /\ th[t].tok \in Tokens \cup {NoToken} /\ ThreadOK(th[t], row.doc, act, passed)
      /\ d \in Documents \cup {NoDoc} /\ (d # NoDoc => Sound(d, passed))
  BY ThreadFacts
<1>2. /\ ThreadOK(At(t, "post"), row.doc, act, passed)
      /\ ThreadOK(At(t, "complete"), row.doc, act, passed)
      /\ ThreadOK(AfterSettle(t), row.doc, act, passed)
      /\ ThreadOK(Closing(t, "cancelled"), row.doc, act, passed)
  <2>1. ThreadOK(At(t, "post"), row.doc, act, passed) /\ ThreadOK(At(t, "complete"), row.doc, act, passed)
    BY AtOK DEF Plain
  <2>2. ThreadOK(At(t, "release"), row.doc, act, passed)
    BY AtOK DEF Plain
  <2>3. ThreadOK(Closing(t, "cancelled"), row.doc, act, passed)
    BY <1>1, ClosingOK
  <2> QED
    BY <2>1, <2>2, <2>3 DEF AfterSettle
<1>3. PICK x \in {At(t, "post"), At(t, "complete"), AfterSettle(t), Closing(t, "cancelled")} :
        th' = [th EXCEPT ![t] = x]
  BY DEF Seal, Step
<1>4. th'[t] = x /\ th' = [th EXCEPT ![t] = th'[t]] /\ ThreadOK(x, row.doc, act, passed)
  BY <1>2, <1>3, Moved
<1>5. UNCHANGED <<fileVars, faults>> /\ lease' \in Threads \cup {Free, External}
  BY LeaseTyped DEF Seal, Step
<1>6. CASE UNCHANGED storeVars
  BY <1>4, <1>5, <1>6, QuietStep
<1>7. CASE d # NoDoc /\ SaveState(R, th[t].tok, d, step, d.initial, Queue(R) # {})
  <2>1. step \in StepStatuses /\ d.initial \in BOOLEAN /\ d \in Documents
    BY <1>1, <1>7 DEF StepStatuses, Documents
  <2> HIDE DEF step
  <2>2. StoreNext /\ row'.doc = d /\ UNCHANGED act
    BY <1>1, <1>7, <2>1, SaveIsStored
  <2> QED
    BY <1>1, <1>4, <1>5, <1>7, <2>1, <2>2, SaveStep
<1> QED
  BY <1>6, <1>7 DEF Seal

LEMMA CompleteProper ==
  ASSUME WorkersInv, NEW t \in Threads, Complete(t)
  PROVE  Proper
<1>1. StoreNext /\ row'.doc = row.doc /\ UNCHANGED act
  BY ThreadFacts, UpdateIsStored DEF Complete
<1>2. ThreadOK(At(t, "post"), row.doc, act, passed) /\ ThreadOK(At(t, "release"), row.doc, act, passed)
  BY AtOK DEF Plain
<1>3. ThreadOK(AfterSettle(t), row.doc, act, passed)
  BY <1>2 DEF AfterSettle
<1>4. th'[t] = AfterSettle(t) /\ th' = [th EXCEPT ![t] = th'[t]]
  BY Moved DEF Complete, Step
<1>5. UNCHANGED <<fileVars, faults>> /\ lease' \in Threads \cup {Free, External}
  BY LeaseTyped DEF Complete, Step
<1> QED
  BY <1>1, <1>3, <1>4, <1>5, StoreStep

LEMMA LoadProper ==
  ASSUME WorkersInv, NEW t \in Threads, Load(t)
  PROVE  Proper
<1> DEFINE w == th[t]  i == w.item  d == row.doc
           e == Put(d, i, "parked")
           o == [e EXCEPT !.open = @ \cup {i}]
           x == Saving(t, o, "edit")
<1>1. /\ w \in Memories /\ ThreadOK(w, row.doc, act, passed) /\ i \in Items
      /\ d \in Documents /\ Sound(d, passed)
  BY ThreadFacts DEF Load, Headed, Needs
<1>2. ThreadOK(At(t, "resettle"), row.doc, act, passed)
  BY AtOK DEF Plain
<1>3. o \in Documents /\ Sound(o, passed) /\ o.st[i] = "parked"
  <2>1. "parked" \in ItemStates /\ "parked" # "ready"
    BY DEF ItemStates
  <2> HIDE DEF d, i
  <2>2. e \in Documents /\ Sound(e, passed) /\ e.st[i] = "parked"
    BY <1>1, <2>1, PutSound
  <2> HIDE DEF e
  <2> QED
    BY <1>1, <2>1, <2>2, OpenSound
<1> HIDE DEF o
<1>4. ThreadOK(x, row.doc, act, passed)
  <2>1. /\ x \in Memories /\ x.pc = "save" /\ x.doc = o /\ x.next = "edit"
        /\ x.job = w.job /\ x.a = w.a /\ x.item = i
    <3>1. "edit" \in PCs
      BY DEF PCs
    <3> QED
      BY <1>1, <1>3, <3>1, SavingFields
  <2> HIDE DEF x, i
  <2>2. Headed(x)
    BY <1>1, <1>3, <2>1 DEF Headed, Heading
  <2> QED
    BY <1>1, <1>3, <2>1, <2>2, SavesOK
<1>5. PICK y \in {At(t, "resettle"), x} : th' = [th EXCEPT ![t] = y]
  BY DEF Load, Step, o
<1> HIDE DEF x
<1>6. th'[t] = y /\ th' = [th EXCEPT ![t] = th'[t]] /\ ThreadOK(y, row.doc, act, passed)
  BY <1>2, <1>4, <1>5, Moved
<1>7. UNCHANGED <<storeVars, fileVars, faults>> /\ lease' \in Threads \cup {Free, External}
  BY LeaseTyped DEF Load, Step
<1> QED
  BY <1>6, <1>7, QuietStep

LEMMA EditProper ==
  ASSUME WorkersInv, NEW t \in Threads, Edit(t)
  PROVE  Proper
<1> DEFINE w == th[t]  i == w.item
           current == CanLock(t) /\ w.doc.rev[i] = rev[i]
           closed == [w.doc EXCEPT !.open = @ \ {i}]
           saved == [closed EXCEPT !.rev[i] = rev'[i]]
           x == Saving(t, saved, "settle")
           y == [At(t, "post") EXCEPT !.doc = NoDoc]
           z == Saving(t, IF current THEN saved ELSE closed, "resettle")
<1>1. /\ w \in Memories /\ ThreadOK(w, row.doc, act, passed) /\ i \in Items
      /\ w.doc \in Documents /\ Sound(w.doc, passed) /\ w.doc.st[i] = "parked"
  BY ThreadFacts DEF Edit, Headed, Heading, Carries
<1>2. /\ \E q \in {x, y, z} : th' = [th EXCEPT ![t] = q]
      /\ Rewrite(i) \/ UNCHANGED fileVars
      /\ UNCHANGED <<storeVars, lease, faults>>
  BY DEF Edit, Step
<1>3. rev' \in [Items -> 0..MaxRev] /\ passed' = passed /\ rev'[i] \in 0..MaxRev
  <2>1. rev \in [Items -> 0..MaxRev]
    BY DEF WorkersInv, FilesOK
  <2>2. CASE Rewrite(i)
    BY <1>1, <2>2, RewriteTyped
  <2>3. CASE UNCHANGED fileVars
    BY <1>1, <2>1, <2>3 DEF fileVars
  <2> QED
    BY <1>2, <2>2, <2>3
<1>4. /\ closed \in Documents /\ Sound(closed, passed) /\ closed.st[i] = "parked"
  BY <1>1, OpenSound
<1>5. saved \in Documents /\ Sound(saved, passed)
  <2> HIDE DEF closed
  <2> QED
    BY <1>1, <1>3, <1>4, RevSound
<1>6. ThreadOK(x, row.doc, act, passed)
  <2> HIDE DEF saved
  <2> QED
    BY <1>5, SavesFreely
<1>7. ThreadOK(y, row.doc, act, passed)
  BY AtOK DEF Plain
<1>8. ThreadOK(z, row.doc, act, passed)
  <2> DEFINE e == IF current THEN saved ELSE closed
  <2>1. e \in Documents /\ Sound(e, passed)
    BY <1>4, <1>5
  <2> HIDE DEF e
  <2>2. ThreadOK(Saving(t, e, "resettle"), row.doc, act, passed)
    BY <2>1, SavesFreely
  <2> QED
    BY <2>2 DEF e
<1> HIDE DEF x, y, z
<1>9. PICK q : ThreadOK(q, row.doc, act, passed) /\ th' = [th EXCEPT ![t] = q]
  BY <1>2, <1>6, <1>7, <1>8
<1>10. th'[t] = q /\ th' = [th EXCEPT ![t] = th'[t]]
  BY <1>9, Moved
<1>11. passed' \in [Items -> SUBSET (1..MaxRev)] /\ lease' \in Threads \cup {Free, External}
  BY <1>2, <1>3, LeaseTyped DEF WorkersInv, FilesOK
<1> QED
  BY <1>2, <1>3, <1>9, <1>10, <1>11, FileStep

-----------------------------------------------------------------------------
(* Requests.                                                               *)

\* What an idle thread is started with.
LEMMA BegunOK ==
  ASSUME NEW d, NEW as, NEW p
  PROVE  /\ ThreadOK([Idle EXCEPT !.pc = "claim", !.job = "initial"], d, as, p)
         /\ ThreadOK([Idle EXCEPT !.pc = "route"], d, as, p)
         /\ d # NoDoc =>
              /\ ThreadOK([Idle EXCEPT !.pc = "claim", !.job = "actions"], d, as, p)
              /\ ThreadOK([Idle EXCEPT !.pc = "scope", !.job = "adopt"], d, as, p)
              /\ \A i \in Items :
                   ThreadOK([Idle EXCEPT !.pc = "scope", !.job = "edit", !.item = i], d, as, p)
<1>1. {"claim", "route", "scope"} \subseteq PCs
  BY DEF PCs
<1>2. Idle \in Memories /\ Idle.a = 0 /\ Idle.doc = NoDoc /\ Idle.job = "none"
  BY IdleOK DEF Idle
<1>3. ASSUME NEW x \in Memories, x.a = 0, x.doc = NoDoc,
             \/ x.pc = "claim" /\ x.job = "initial"
             \/ x.pc = "route" /\ x.job = "none"
             \/ d # NoDoc /\ x.pc = "claim" /\ x.job = "actions"
             \/ d # NoDoc /\ x.pc = "scope" /\ x.job = "edit" /\ x.item \in Items
             \/ d # NoDoc /\ x.pc = "scope" /\ x.job = "adopt"
      PROVE  ThreadOK(x, d, as, p)
  <2>1. Carries(x, p)
    BY <1>3 DEF Carries
  <2>2. Headed(x)
    BY <1>3 DEF Headed, Heading
  <2>3. Needs(x, d, as)
    BY <1>3 DEF Needs, Heading
  <2> QED
    BY <2>1, <2>2, <2>3 DEF ThreadOK
<1>4. LET x == [Idle EXCEPT !.pc = "claim", !.job = "initial"]
          y == [Idle EXCEPT !.pc = "route"]
      IN  /\ x \in Memories /\ x.a = 0 /\ x.doc = NoDoc /\ x.pc = "claim" /\ x.job = "initial"
          /\ y \in Memories /\ y.a = 0 /\ y.doc = NoDoc /\ y.pc = "route" /\ y.job = "none"
  BY <1>1, <1>2 DEF Memories
<1>5. LET x == [Idle EXCEPT !.pc = "claim", !.job = "actions"]
          z == [Idle EXCEPT !.pc = "scope", !.job = "adopt"]
      IN  /\ x \in Memories /\ x.a = 0 /\ x.doc = NoDoc /\ x.pc = "claim" /\ x.job = "actions"
          /\ z \in Memories /\ z.a = 0 /\ z.doc = NoDoc /\ z.pc = "scope" /\ z.job = "adopt"
  BY <1>1, <1>2 DEF Memories
<1>6. ASSUME NEW i \in Items
      PROVE  LET y == [Idle EXCEPT !.pc = "scope", !.job = "edit", !.item = i]
             IN  /\ y \in Memories /\ y.a = 0 /\ y.doc = NoDoc /\ y.pc = "scope"
                 /\ y.job = "edit" /\ y.item = i
  BY <1>1, <1>2 DEF Memories
<1>7. /\ ThreadOK([Idle EXCEPT !.pc = "claim", !.job = "initial"], d, as, p)
      /\ ThreadOK([Idle EXCEPT !.pc = "route"], d, as, p)
  BY <1>3, <1>4
<1>8. d # NoDoc =>
        /\ ThreadOK([Idle EXCEPT !.pc = "claim", !.job = "actions"], d, as, p)
        /\ ThreadOK([Idle EXCEPT !.pc = "scope", !.job = "adopt"], d, as, p)
  BY <1>3, <1>5
<1>9. ASSUME d # NoDoc, NEW i \in Items
      PROVE  ThreadOK([Idle EXCEPT !.pc = "scope", !.job = "edit", !.item = i], d, as, p)
  BY <1>3, <1>6, <1>9
<1> QED
  BY <1>7, <1>8, <1>9

LEMMA CreateRunProper ==
  ASSUME WorkersInv, NEW t \in Threads, CreateRun(t)
  PROVE  Proper
<1> DEFINE x == [Idle EXCEPT !.pc = "claim", !.job = "initial"]
<1>1. PICK m \in Modules : Create(R, m, NoRequest)
  BY DEF CreateRun
<1>2. StoreNext
  BY <1>1, RowTyped DEF StoreNext, Requested
<1>3. row.doc = NoDoc
  BY <1>1, RowTyped DEF Create, Exists, row, WorkersInv, StoreInv, RunInv, RowRules
<1>4. row'.doc = NoDoc /\ ActsKept
  BY <1>1, RowTyped DEF Create, AbsentRow, row, ActsKept
<1>5. th'[t] = x /\ th' = [th EXCEPT ![t] = th'[t]]
  BY Moved DEF CreateRun, Step
<1> HIDE DEF x
<1>6. ThreadOK(x, row.doc, act, passed)
  BY BegunOK DEF x
<1>7. UNCHANGED <<fileVars, faults>> /\ lease' \in Threads \cup {Free, External}
  BY LeaseTyped DEF CreateRun, Step
<1> QED
  BY <1>2, <1>3, <1>4, <1>5, <1>6, <1>7, StoreStep DEF ActsKept

LEMMA RecoverProper ==
  ASSUME WorkersInv, NEW t \in Threads, Recover(t)
  PROVE  Proper
<1> DEFINE x == [Idle EXCEPT !.pc = "route"]
<1>1. th'[t] = x /\ th' = [th EXCEPT ![t] = th'[t]]
  BY Moved DEF Recover, Step
<1>2. ThreadOK(x, row.doc, act, passed)
  BY BegunOK
<1>3. UNCHANGED <<storeVars, fileVars, faults>>
      /\ lease' \in Threads \cup {Free, External}
  BY LeaseTyped DEF Recover, Step
<1> QED
  BY <1>1, <1>2, <1>3, QuietStep

\* A batch names scripts of the module.
LEMMA BatchItems ==
  ASSUME NEW its \in Batches
  PROVE  Len(its) \in {1, 2} /\ \A k \in 1..Len(its) : its[k] \in Items
BY DEF Batches

LEMMA EnqueueProper ==
  ASSUME WorkersInv, NEW t \in Threads, NEW its \in Batches, Enqueue(t, its)
  PROVE  Proper
<1> DEFINE x == [Idle EXCEPT !.pc = "claim", !.job = "actions"]
<1>1. EnqueueActions(R, its) /\ \A k \in 1..Len(its) : Actionable(t, its[k])
  BY DEF Enqueue
<1>2. StoreNext
  BY <1>1, RowTyped DEF StoreNext, Requested
<1>3. row.doc # NoDoc
  <2>1. 1 \in 1..Len(its)
    BY BatchItems
  <2> QED
    BY <1>1, <2>1 DEF Actionable
<1>4. row'.doc = row.doc
  BY <1>1, RowTyped DEF EnqueueActions, row, Rows
<1>5. sent \in 0..MaxActions
  BY DEF WorkersInv, StoreInv, ActInv
<1>6. \A a \in Actions : act'[a] = act[a] \/ (act[a].state = "unsent" /\ act'[a].item \in Items)
  <2> TAKE a \in Actions
  <2>1. CASE a - sent \in 1..Len(its)
    <3>1. a > sent
      BY <1>5, <2>1, BatchItems, MaxActionsAssumption DEF Actions
    <3>2. act[a].state = "unsent"
      BY <3>1 DEF WorkersInv, StoreInv, ActInv, SentInv
    <3>3. act'[a].item = its[a - sent]
      BY <1>1, <2>1 DEF EnqueueActions
    <3> QED
      BY <2>1, <3>2, <3>3, BatchItems
  <2>2. CASE a - sent \notin 1..Len(its)
    BY <1>1, <2>2 DEF EnqueueActions
  <2> QED
    BY <2>1, <2>2
<1>7. \A a \in Actions : act[a].run = R => act'[a].run = R
  <2> TAKE a \in Actions
  <2>1. CASE a - sent \in 1..Len(its)
    BY <1>1, <2>1 DEF EnqueueActions
  <2>2. CASE a - sent \notin 1..Len(its)
    BY <1>1, <2>2 DEF EnqueueActions
  <2> QED
    BY <2>1, <2>2
<1>8. UNCHANGED <<rev, passed, lease, faults>>
  BY DEF Enqueue, Step, fileVars
<1>9. FilesOK' /\ Grows
  BY <1>3, <1>4, <1>6, <1>7, <1>8 DEF WorkersInv, FilesOK, Grows
<1>10. th'[t] = x /\ th' = [th EXCEPT ![t] = th'[t]]
  BY Moved DEF Enqueue, Step
<1>11. ThreadOK(x, row'.doc, act', passed')
  BY <1>3, <1>4, BegunOK
<1> QED
  BY <1>2, <1>9, <1>10, <1>11 DEF Proper, Moves

LEMMA EditRequestProper ==
  ASSUME WorkersInv, NEW t \in Threads, NEW i \in Items, EditRequest(t, i)
  PROVE  Proper
<1> DEFINE x == [Idle EXCEPT !.pc = "scope", !.job = "edit", !.item = i]
<1>1. th'[t] = x /\ th' = [th EXCEPT ![t] = th'[t]]
  BY Moved DEF EditRequest, Step
<1>2. ThreadOK(x, row.doc, act, passed)
  BY BegunOK DEF EditRequest, Actionable
<1>3. UNCHANGED <<storeVars, fileVars, faults>>
      /\ lease' \in Threads \cup {Free, External}
  BY LeaseTyped DEF EditRequest, Step
<1> QED
  BY <1>1, <1>2, <1>3, QuietStep

LEMMA AdoptRequestProper ==
  ASSUME WorkersInv, NEW t \in Threads, AdoptRequest(t)
  PROVE  Proper
<1> DEFINE x == [Idle EXCEPT !.pc = "scope", !.job = "adopt"]
<1>1. th'[t] = x /\ th' = [th EXCEPT ![t] = th'[t]]
  BY Moved DEF AdoptRequest, Step
<1>2. ThreadOK(x, row.doc, act, passed)
  BY BegunOK DEF AdoptRequest, Unverified
<1>3. UNCHANGED <<storeVars, fileVars, faults>>
      /\ lease' \in Threads \cup {Free, External}
  BY LeaseTyped DEF AdoptRequest, Step
<1> QED
  BY <1>1, <1>2, <1>3, QuietStep

LEMMA CancelRequestProper ==
  ASSUME WorkersInv, NEW t \in Threads, th[t] = Idle, CancelRequest(t)
  PROVE  Proper
<1> DEFINE c == Closing(t, "cancelled")  x == [c EXCEPT !.job = "cancel"]
<1>1. StoreNext /\ row'.doc = row.doc /\ ActsKept
  <2>1. RequestCancel(R)
    BY DEF CancelRequest
  <2>2. StoreNext
    BY <2>1, RowTyped DEF StoreNext, Requested
  <2>3. row'.doc = row.doc
    BY <2>1, RowTyped DEF RequestCancel, row, Rows
  <2>4. ActsKept
    BY <2>1, SettledKept DEF RequestCancel
  <2> QED
    BY <2>2, <2>3, <2>4
<1>2. ThreadOK(x, row.doc, act, passed)
  <2>1. /\ c \in Memories /\ c.pc = "close" /\ c.fin = "cancelled" /\ c.doc = NoDoc /\ c.a = 0
    BY ThreadFacts, ClosingFields DEF Idle
  <2> HIDE DEF c
  <2>2. /\ x \in Memories /\ x.pc = "close" /\ x.fin = "cancelled" /\ x.doc = NoDoc /\ x.a = 0
        /\ x.job = "cancel"
    BY <2>1 DEF Memories
  <2> HIDE DEF x
  <2>3. Carries(x, passed) /\ Headed(x) /\ Needs(x, row.doc, act)
    BY <2>2 DEF Carries, Headed, Heading, Needs
  <2> QED
    BY <2>2, <2>3 DEF ThreadOK
<1>3. UNCHANGED <<fileVars, faults>> /\ lease' \in Threads \cup {Free, External}
  BY LeaseTyped DEF CancelRequest, Step
<1>4. CASE Step(t, x)
  <2>1. th'[t] = x /\ th' = [th EXCEPT ![t] = th'[t]]
    BY <1>4, Moved DEF Step
  <2> QED
    BY <1>1, <1>2, <1>3, <2>1, StoreStep DEF ActsKept
<1>5. CASE UNCHANGED th
  <2>1. th' = [th EXCEPT ![t] = th'[t]] /\ th'[t] = th[t]
    BY <1>5 DEF WorkersInv
  <2> QED
    BY <1>1, <1>3, <2>1, ThreadFacts, StoreStep DEF ActsKept
<1> QED
  BY <1>4, <1>5 DEF CancelRequest

-----------------------------------------------------------------------------
(* The environment.                                                        *)

\* A step in which no thread takes part.
LEMMA OutsideStep ==
  ASSUME WorkersInv, [StoreNext]_storeVars, row'.doc = row.doc, ActsKept,
         rev' \in [Items -> 0..MaxRev], UNCHANGED <<passed, th>>,
         lease' \in Threads \cup {Free, External},
         faults' \in 0..MaxFaults
  PROVE  Proper
<1>1. FilesOK'
  BY DEF WorkersInv, FilesOK
<1>2. Grows
  BY DEF Grows, ActsKept
<1> QED
  BY <1>1, <1>2 DEF Proper

LEMMA EnvironmentProper ==
  ASSUME WorkersInv, Environment
  PROVE  Proper
<1>1. /\ rev \in [Items -> 0..MaxRev] /\ lease \in Threads \cup {Free, External}
      /\ faults \in 0..MaxFaults
      /\ MaxFaults \in Nat
  BY BoundsAssumption DEF WorkersInv, FilesOK
<1>2. NoToken \in Tokens \cup {NoToken} /\ TRUE \in BOOLEAN
  OBVIOUS
<1>3. CASE ForgetWorker
  <2>1. StoreNext /\ row'.doc = row.doc /\ ActsKept
    BY <1>2, <1>3, TokenIsStored DEF ForgetWorker
  <2> QED
    BY <1>1, <1>3, <2>1, OutsideStep DEF ForgetWorker, fileVars
<1>4. CASE Expire
  <2>1. StoreNext /\ row'.doc = row.doc /\ ActsKept
    BY <1>2, <1>4, TokenIsStored DEF Expire
  <2>2. faults' \in 0..MaxFaults
    BY <1>1, <1>4 DEF Expire, Fault
  <2> QED
    BY <1>1, <1>4, <2>1, <2>2, OutsideStep DEF Expire, fileVars
<1>5. CASE ExternalTakes
  BY <1>1, <1>5, OutsideStep DEF ExternalTakes, fileVars, storeVars, row, ActsKept
<1>6. CASE ExternalWrites
  <2>1. PICK i \in Items : Rewrite(i)
    BY <1>6 DEF ExternalWrites
  <2>2. rev' \in [Items -> 0..MaxRev] /\ passed' = passed
    BY <2>1, RewriteTyped
  <2> QED
    BY <1>1, <1>6, <2>2, OutsideStep DEF ExternalWrites, storeVars, row, ActsKept
<1>7. ASSUME NEW t \in Threads, Heartbeat(t) PROVE Proper
  <2>1. th[t].tok \in Tokens \cup {NoToken}
    BY ThreadFacts
  <2>2. StoreNext /\ row'.doc = row.doc /\ ActsKept
    BY <1>2, <1>7, <2>1, TokenIsStored DEF Heartbeat
  <2> QED
    BY <1>1, <1>7, <2>2, OutsideStep DEF Heartbeat, fileVars
<1>8. ASSUME NEW t \in Threads, Crash(t) PROVE Proper
  <2>1. th'[t] = Idle /\ th' = [th EXCEPT ![t] = th'[t]]
    BY <1>8, Moved DEF Crash
  <2>2. UNCHANGED <<storeVars, fileVars>> /\ faults' \in 0..MaxFaults
    BY <1>1, <1>8 DEF Crash, Fault
  <2>3. lease' \in Threads \cup {Free, External}
    BY <1>8, LeaseTyped DEF Crash
  <2>4. run' = run /\ act' = act /\ rev' = rev /\ passed' = passed /\ row' = row
    BY <2>2 DEF storeVars, fileVars, row
  <2>5. FilesOK' /\ Grows
    BY <2>2, <2>3, <2>4 DEF WorkersInv, FilesOK, Grows
  <2>6. Moves(t)
    BY <2>1, IdleOK DEF Moves
  <2> QED
    BY <2>2, <2>5, <2>6 DEF Proper
<1> QED
  BY <1>3, <1>4, <1>5, <1>6, <1>7, <1>8 DEF Environment

-----------------------------------------------------------------------------
(* The specification.                                                      *)

LEMMA RequestProper ==
  ASSUME WorkersInv, NEW t \in Threads, Request(t)
  PROVE  Proper
BY CreateRunProper, AdoptRequestProper, CancelRequestProper, EnqueueProper, EditRequestProper
   DEF Request

LEMMA WorksProper ==
  ASSUME WorkersInv, NEW t \in Threads, Works(t)
  PROVE  Proper
<1>1. CASE \/ Scope(t) \/ Claim(t) \/ Save(t) \/ Mark(t) \/ Close(t) \/ End(t)
           \/ Finally(t) \/ Release(t) \/ Quit(t)
  BY <1>1, ScopeProper, ClaimProper, SaveProper, MarkProper, CloseProper, EndProper,
     FinallyProper, ReleaseProper, QuitProper
<1>2. CASE \/ Route(t) \/ Start(t) \/ Reconcile(t) \/ Resync(t) \/ Resume(t) \/ Loop(t)
           \/ Fail(t)
  BY <1>2, RouteProper, StartProper, ReconcileProper, ResyncProper, ResumeProper, LoopProper,
     FailProper
<1>3. CASE Op(t) \/ Write(t) \/ Run(t) \/ Analyze(t)
  BY <1>3, OpProper, WriteProper, RunProper, AnalyzeProper
<1>4. CASE \/ RecoverItems(t) \/ NextAction(t) \/ Validate(t) \/ Adopt(t) \/ Apply(t)
           \/ Finish(t) \/ Beat(t)
  BY <1>4, RecoverItemsProper, NextActionProper, ValidateProper, AdoptProper, ApplyProper,
     FinishProper, BeatProper
<1>5. CASE Settle(t) \/ Seal(t) \/ Complete(t) \/ Load(t) \/ Edit(t)
  BY <1>5, SettleProper, SealProper, CompleteProper, LoadProper, EditProper
<1> QED
  BY <1>1, <1>2, <1>3, <1>4, <1>5 DEF Works

LEMMA NextProper == WorkersInv /\ WorkersNext => Proper
<1> SUFFICES ASSUME WorkersInv, WorkersNext PROVE Proper
  OBVIOUS
<1>1. CASE \E t \in Threads : Request(t) \/ Recovers(t) \/ Works(t)
  BY <1>1, RequestProper, RecoverProper, WorksProper DEF Recovers
<1>2. CASE Environment
  BY <1>2, EnvironmentProper
<1> QED
  BY <1>1, <1>2 DEF WorkersNext

LEMMA WorkersInitInv == WorkersInit => WorkersInv
<1> SUFFICES ASSUME WorkersInit PROVE WorkersInv
  OBVIOUS
<1>1. StoreInv
  BY StoreInitInv DEF WorkersInit
<1>2. FilesOK
  BY BoundsAssumption DEF WorkersInit, FilesOK
<1>3. row.doc = NoDoc /\ \A a \in Actions : act[a].run = NoRun
  BY RunsAssumption DEF WorkersInit, StoreInit, row, AbsentRow, Unsent
<1>4. Asked /\ RowSound
  BY <1>3, NullsAssumption, RunsAssumption DEF Asked, RowSound
<1>5. /\ th \in [Threads -> Memories]
      /\ \A t \in Threads : ThreadOK(th[t], row.doc, act, passed)
  BY IdleOK DEF WorkersInit
<1> QED
  BY <1>1, <1>2, <1>4, <1>5 DEF WorkersInv

\* A step that changes nothing keeps the invariant.
LEMMA StutterKeepsInv ==
  ASSUME WorkersInv, UNCHANGED vars
  PROVE  WorkersInv' /\ UNCHANGED storeVars
<1>1. /\ run' = run /\ act' = act /\ sent' = sent /\ rev' = rev /\ passed' = passed
      /\ lease' = lease /\ th' = th /\ faults' = faults
  BY DEF vars
<1>2. UNCHANGED storeVars
  BY <1>1 DEF storeVars
<1>3. StoreInv'
  BY <1>2, StoreStepInv DEF WorkersInv
<1>4. row' = row
  BY <1>1 DEF row
<1>5. FilesOK' /\ Asked' /\ RowSound'
  BY <1>1, <1>4 DEF WorkersInv, FilesOK, Asked, RowSound
<1>6. th' \in [Threads -> Memories]
  BY <1>1 DEF WorkersInv
<1>7. \A t \in Threads : ThreadOK(th[t], row.doc, act, passed)'
  BY <1>1, <1>4 DEF WorkersInv
<1> QED
  BY <1>2, <1>3, <1>5, <1>6, <1>7 DEF WorkersInv

(* The inductive invariant of the manager, for any number of threads,       *)
(* scripts, tokens, actions, revisions, deaths and expiring leases.         *)
THEOREM WorkersInvariant == WorkersSpec => []WorkersInv
<1>1. WorkersInv /\ [WorkersNext]_vars => WorkersInv'
  BY NextProper, ProperKeepsInv, StutterKeepsInv
<1> QED
  BY <1>1, WorkersInitInv, PTL DEF WorkersSpec

(* The files, the lease and every thread's memory keep their types.         *)
THEOREM WorkersTypeSafety == WorkersSpec => []WorkersTypeOK
<1>1. WorkersInv => WorkersTypeOK
  BY DEF WorkersInv, FilesOK, WorkersTypeOK
<1> QED
  BY <1>1, WorkersInvariant, PTL

(* A script that is called ready, and shows no stage as running, has a      *)
(* revision that an execution accepted: whatever was edited outside,        *)
(* adopted, recovered, taken over or saved late by any number of threads.   *)
THEOREM ReadyIsExecuted == WorkersSpec => []ReadyMeansExecuted
<1>1. WorkersInv => ReadyMeansExecuted
  BY DEF WorkersInv, RowSound, Sound, ReadyMeansExecuted
<1> QED
  BY <1>1, WorkersInvariant, PTL

(* Every step of the manager's threads is a transaction of the store or     *)
(* leaves it alone, so every theorem about the store holds of the manager.  *)
THEOREM ManagerUsesStore == WorkersSpec => StoreSpec
<1>1. WorkersInit => StoreInit
  BY DEF WorkersInit
<1>2. WorkersInv /\ [WorkersNext]_vars => [StoreNext]_storeVars
  BY NextProper, StutterKeepsInv DEF Proper
<1> QED
  BY <1>1, <1>2, WorkersInvariant, PTL DEF WorkersSpec, StoreSpec

-----------------------------------------------------------------------------
(* The refinement: the same transactions on rows whose document is opaque. *)

\* What the store sees of a row, and of all of them.
Seen(x) == [x EXCEPT !.doc = IF @ = NoDoc THEN NoDoc ELSE "document"]
seen == [r \in Runs |-> Seen(run[r])]

LEMMA SeenRow ==
  ASSUME NEW x \in Rows
  PROVE  /\ Seen(x).status = x.status /\ Seen(x).module = x.module /\ Seen(x).request = x.request
         /\ Seen(x).scope = x.scope /\ Seen(x).cancel = x.cancel /\ Seen(x).finished = x.finished
         /\ Seen(x).token = x.token /\ Seen(x).live = x.live
BY DEF Seen, Rows

\* A row is replaced in what the store sees as in the table.
LEMMA SeenWrite ==
  ASSUME run \in [Runs -> Rows], NEW r \in Runs, NEW new,
         run' = [run EXCEPT ![r] = new]
  PROVE  seen' = [seen EXCEPT ![r] = Seen(new)]
BY DEF seen

LEMMA SeenSaved ==
  ASSUME NEW x \in Rows, NEW tok, NEW d \in Documents, NEW step, NEW initial, NEW pending
  PROVE  Seen(Saved(x, tok, d, step, initial, pending))
           = Store!Saved(Seen(x), tok, "document", step, initial, pending)
<1> DEFINE want == WantedStatus(tok, step, initial, pending)
           st == IF x.status \in Terminal \cup {"failing"} THEN x.status
                 ELSE IF x.cancel THEN "cancelling" ELSE want
           sc == IF st \in Terminal THEN FALSE
                 ELSE IF st = "failing" \/ x.cancel THEN x.scope
                 ELSE want # "completed"
           fi == IF want = "completed"
                 THEN IF st = "failing" \/ x.cancel THEN x.finished ELSE TRUE
                 ELSE IF st \in Terminal \cup {"failing"} \/ x.cancel
                      THEN x.finished ELSE FALSE
<1>1. d # NoDoc
  BY DocsAssumption
<1>2. Store!WantedStatus(tok, step, initial, pending) = want /\ Store!Terminal = Terminal
  BY DEF WantedStatus, Store!WantedStatus, Terminal, Store!Terminal
<1>3. Saved(x, tok, d, step, initial, pending)
        = [x EXCEPT !.doc = d, !.status = st, !.scope = sc, !.finished = fi]
  BY DEF Saved
<1>4. Store!Saved(Seen(x), tok, "document", step, initial, pending)
        = [Seen(x) EXCEPT !.doc = "document", !.status = st, !.scope = sc, !.finished = fi]
  BY <1>2, SeenRow DEF Store!Saved
<1> HIDE DEF want, st, sc, fi
<1> DEFINE n == [x EXCEPT !.doc = d, !.status = st, !.scope = sc, !.finished = fi]
<1>5. PICK c : Seen(x) = [x EXCEPT !.doc = c]
  BY DEF Seen
<1>6. Seen(n) = [n EXCEPT !.doc = "document"]
  <2>1. n.doc = d
    BY DEF Rows
  <2> HIDE DEF n
  <2> QED
    BY <1>1, <2>1 DEF Seen
<1>7. [n EXCEPT !.doc = "document"]
        = [[x EXCEPT !.doc = c] EXCEPT !.doc = "document", !.status = st, !.scope = sc,
                                       !.finished = fi]
  BY DEF Rows
<1> QED
  BY <1>3, <1>4, <1>5, <1>6, <1>7

LEMMA SeenMarked ==
  ASSUME NEW x \in Rows, NEW s
  PROVE  Seen(Marked(x, s)) = Store!Marked(Seen(x), s)
<1>1. Seen(MarkedFailed(x)) = Store!MarkedFailed(Seen(x))
  BY ZenonT(40) DEF Seen, MarkedFailed, Store!MarkedFailed, Rows
<1>2. Seen(MarkedCancelled(x)) = Store!MarkedCancelled(Seen(x))
  BY DEF Seen, MarkedCancelled, Store!MarkedCancelled, Terminal, Store!Terminal, Rows
<1>3. Seen(MarkedOther(x, s)) = Store!MarkedOther(Seen(x), s)
  BY DEF Seen, MarkedOther, Store!MarkedOther, Terminal, Store!Terminal, Rows
<1> QED
  BY <1>1, <1>2, <1>3 DEF Marked, Store!Marked

LEMMA SeenFreed ==
  ASSUME NEW x \in Rows
  PROVE  Seen(Freed(x)) = Store!Freed(Seen(x))
BY DEF Seen, Freed, Store!Freed, Rows

\* What the transactions ask of a row reads the same with an opaque document.
LEMMA SeenTests ==
  ASSUME run \in [Runs -> Rows], NEW r \in Runs
  PROVE  /\ seen[r] = Seen(run[r])
         /\ Store!Exists(r) <=> Exists(r)
         /\ \A tok : Store!Owns(seen[r], tok) <=> Owns(run[r], tok)
         /\ \A m : Store!ScopeTaken(r, m) <=> ScopeTaken(r, m)
         /\ Store!Queue(r) = Queue(r) /\ Store!Queued(r) = Queued(r)
         /\ \A from, s : Store!Settled(r, from, s) = Settled(r, from, s)
         /\ Store!Reopenable(r) <=> Reopenable(r)
         /\ Store!Claimable(seen[r]) <=> Claimable(run[r])
         /\ \A tok : /\ Store!TakesOver(seen[r], tok) <=> TakesOver(run[r], tok)
                     /\ Store!HeldByOther(seen[r], tok) <=> HeldByOther(run[r], tok)
<1> DEFINE Keeps(s) == /\ seen[s].status = run[s].status /\ seen[s].scope = run[s].scope
                       /\ seen[s].module = run[s].module /\ seen[s].token = run[s].token
                       /\ seen[s].live = run[s].live /\ seen[s].cancel = run[s].cancel
<1>1. \A s \in Runs : Keeps(s) /\ seen[s] = Seen(run[s])
  BY SeenRow DEF seen
<1>2. Store!Exists(r) <=> seen[r].status # "absent"
  BY DEF Store!Exists, seen, Seen
<1>3. \A m : Store!ScopeTaken(r, m) <=> \E s \in Runs \ {r} : seen[s].scope /\ seen[s].module = m
  BY DEF Store!ScopeTaken, seen, Seen
<1>4. Store!Reopenable(r) <=> /\ seen[r].status \in ActionableStatuses
                              /\ ~seen[r].cancel
                              /\ seen[r].token = NoToken \/ ~seen[r].live
                              /\ ~Store!ScopeTaken(r, seen[r].module)
  BY DEF Store!Reopenable, Store!ActionableStatuses, ActionableStatuses, seen, Seen
<1>5. \A m : Store!ScopeTaken(r, m) <=> ScopeTaken(r, m)
  BY <1>1, <1>3 DEF ScopeTaken
<1>6. Store!Reopenable(r) <=> Reopenable(r)
  BY <1>1, <1>4, <1>5 DEF Reopenable
<1>7. /\ Store!Queue(r) = Queue(r) /\ Store!Queued(r) = Queued(r)
      /\ \A from, s : Store!Settled(r, from, s) = Settled(r, from, s)
  BY DEF Store!Queue, Queue, Store!Queued, Queued, Store!Settled, Settled, Store!Actions, Actions
<1>8. \A tok : Store!Owns(seen[r], tok) <=> Owns(run[r], tok)
  BY <1>1 DEF Store!Owns, Owns
<1>9. Store!Claimable(seen[r]) <=> Claimable(run[r])
  BY <1>1 DEF Store!Claimable, Claimable
<1>10. \A tok : /\ Store!TakesOver(seen[r], tok) <=> TakesOver(run[r], tok)
                /\ Store!HeldByOther(seen[r], tok) <=> HeldByOther(run[r], tok)
  BY <1>1 DEF Store!TakesOver, TakesOver, Store!HeldByOther, HeldByOther
<1>11. Store!Exists(r) <=> Exists(r)
  BY <1>1, <1>2 DEF Exists
<1> QED
  BY <1>1, <1>5, <1>6, <1>7, <1>8, <1>9, <1>10, <1>11

LEMMA SeenWrites ==
  ASSUME run \in [Runs -> Rows], NEW r \in Runs, Writes(r)
  PROVE  Store!Writes(r)
<1>1. ASSUME NEW tok \in Tokens \cup {NoToken}, NEW d \in Docs, NEW step \in StepStatuses,
             NEW initial \in BOOLEAN, NEW pending \in BOOLEAN,
             SaveState(r, tok, d, step, initial, pending)
      PROVE  Store!SaveState(r, tok, "document", step, initial, pending)
  <2>1. Store!Exists(r) /\ Store!Owns(seen[r], tok)
    BY <1>1, SeenTests DEF SaveState
  <2>2. d \in Documents /\ run[r] \in Rows
    BY DocsAssumption
  <2>3. seen' = [seen EXCEPT ![r] = Seen(Saved(run[r], tok, d, step, initial, pending))]
    BY <1>1, SeenWrite DEF SaveState
  <2>4. Seen(Saved(run[r], tok, d, step, initial, pending))
          = Store!Saved(Seen(run[r]), tok, "document", step, initial, pending)
    BY <2>2, SeenSaved
  <2>5. seen' = [seen EXCEPT ![r] = Store!Saved(@, tok, "document", step, initial, pending)]
    BY <2>3, <2>4, SeenTests
  <2> QED
    BY <1>1, <2>1, <2>5 DEF SaveState, Store!SaveState, seen, Seen
<1>2. ASSUME NEW tok \in Tokens \cup {NoToken}, NEW s, UpdateStatus(r, tok, s)
      PROVE  Store!UpdateStatus(r, tok, s)
  <2>1. Store!Exists(r) /\ Store!Owns(seen[r], tok)
    BY <1>2, SeenTests DEF UpdateStatus
  <2>2. seen' = [seen EXCEPT ![r] = Seen(Marked(run[r], s))]
    BY <1>2, SeenWrite DEF UpdateStatus
  <2>3. seen' = [seen EXCEPT ![r] = Store!Marked(@, s)]
    BY <2>2, SeenMarked, SeenTests
  <2> QED
    BY <1>2, <2>1, <2>3 DEF UpdateStatus, Store!UpdateStatus, seen, Seen
<1>3. ASSUME NEW tok, NEW a, NEW s, FinishAction(r, tok, a, s)
      PROVE  Store!FinishAction(r, tok, a, s)
  <2>1. Store!Exists(r) /\ Store!Owns(seen[r], tok) /\ Store!Queue(r) = Queue(r)
    BY <1>3, SeenTests DEF FinishAction
  <2>2. seen' = seen
    BY <1>3 DEF FinishAction, seen
  <2> QED
    BY <1>3, <2>1, <2>2 DEF FinishAction, Store!FinishAction, seen, Seen
<1> QED
  BY <1>1, <1>2, <1>3 DEF Writes, Store!Writes, Store!StepStatuses, StepStatuses,
     Store!Actions, Actions

LEMMA SeenWorkerCalls ==
  ASSUME run \in [Runs -> Rows], NEW r \in Runs, WorkerCalls(r)
  PROVE  Store!WorkerCalls(r)
<1>0. run[r] \in Rows /\ seen[r] = Seen(run[r]) /\ seen[r].token = run[r].token
      /\ seen[r].status = run[r].status /\ seen[r].finished = run[r].finished
      /\ seen[r].cancel = run[r].cancel
  BY SeenTests, SeenRow
<1>1. ASSUME NEW tok, ClaimWorker(r, tok)
      PROVE  Store!ClaimWorker(r, tok)
  <2>1. /\ Store!Exists(r) /\ Store!Claimable(seen[r]) /\ ~Store!HeldByOther(seen[r], tok)
        /\ Store!TakesOver(seen[r], tok) <=> TakesOver(run[r], tok)
        /\ Store!Settled(r, {"running"}, "failed") = Settled(r, {"running"}, "failed")
    BY <1>1, SeenTests DEF ClaimWorker
  <2>2. seen' = [seen EXCEPT ![r].token = tok, ![r].live = TRUE]
    <3>1. seen' = [seen EXCEPT ![r] = Seen([run[r] EXCEPT !.token = tok, !.live = TRUE])]
      BY <1>1, SeenWrite DEF ClaimWorker
    <3>2. Seen([run[r] EXCEPT !.token = tok, !.live = TRUE])
            = [Seen(run[r]) EXCEPT !.token = tok, !.live = TRUE]
      BY <1>0 DEF Seen, Rows
    <3> QED
      BY <1>0, <3>1, <3>2 DEF seen
  <2> QED
    BY <1>1, <2>1, <2>2 DEF ClaimWorker, Store!ClaimWorker, seen, Seen
<1>2. ASSUME NEW tok, HeartbeatWorker(r, tok)
      PROVE  Store!HeartbeatWorker(r, tok)
  <2>1. seen[r].token = tok /\ tok # NoToken
    BY <1>0, <1>2 DEF HeartbeatWorker
  <2>2. seen' = [seen EXCEPT ![r].live = TRUE]
    <3>1. seen' = [seen EXCEPT ![r] = Seen([run[r] EXCEPT !.live = TRUE])]
      BY <1>2, SeenWrite DEF HeartbeatWorker
    <3>2. Seen([run[r] EXCEPT !.live = TRUE]) = [Seen(run[r]) EXCEPT !.live = TRUE]
      BY <1>0 DEF Seen, Rows
    <3> QED
      BY <1>0, <3>1, <3>2 DEF seen
  <2> QED
    BY <1>2, <2>1, <2>2 DEF HeartbeatWorker, Store!HeartbeatWorker, seen, Seen
<1>3. ASSUME NEW tok, NEW force \in BOOLEAN, ReleaseWorker(r, tok, force)
      PROVE  Store!ReleaseWorker(r, tok, force)
  <2> DEFINE st(x) == IF x.status \in Terminal THEN x.status ELSE "cancelling"
             fi(x) == IF x.status \in Terminal THEN x.finished ELSE FALSE
             new(x) == IF ~x.cancel THEN Freed(x)
                       ELSE [Freed(x) EXCEPT !.status = st(x), !.finished = fi(x)]
             newer(x) == IF ~x.cancel THEN Store!Freed(x)
                         ELSE [Store!Freed(x) EXCEPT !.status = st(x), !.finished = fi(x)]
  <2>1. seen[r].token = tok /\ tok # NoToken /\ (force \/ Store!Queued(r) = {})
    BY <1>0, <1>3, SeenTests DEF ReleaseWorker
  <2>2. seen' = [seen EXCEPT ![r] = Seen(new(run[r]))]
    BY <1>3, SeenWrite DEF ReleaseWorker
  <2>3. Seen(new(run[r])) = newer(seen[r])
    <3>1. Seen(Freed(run[r])) = Store!Freed(seen[r])
      BY <1>0, SeenFreed
    <3>2. st(seen[r]) = st(run[r]) /\ fi(seen[r]) = fi(run[r])
      BY <1>0
    <3>3. Freed(run[r]) \in Rows
      BY <1>0 DEF Freed, Rows
    <3> DEFINE y == Freed(run[r])  a == st(run[r])  b == fi(run[r])
    <3>4. y \in Rows
      BY <3>3
    <3> HIDE DEF y, a, b
    <3>6. Seen([y EXCEPT !.status = a, !.finished = b]) = [Seen(y) EXCEPT !.status = a, !.finished = b]
      BY <3>4 DEF Seen, Rows
    <3>5. Seen([Freed(run[r]) EXCEPT !.status = st(run[r]), !.finished = fi(run[r])])
            = [Store!Freed(seen[r]) EXCEPT !.status = st(seen[r]), !.finished = fi(seen[r])]
      BY <3>1, <3>2, <3>6 DEF y, a, b
    <3> QED
      BY <1>0, <3>1, <3>5
  <2>4. seen' = [seen EXCEPT ![r] =
                   IF ~seen[r].cancel THEN Store!Freed(@)
                   ELSE [Store!Freed(@) EXCEPT !.status = st(seen[r]), !.finished = fi(seen[r])]]
    BY <2>2, <2>3 DEF seen
  <2> QED
    BY <1>3, <2>1, <2>4 DEF ReleaseWorker, Store!ReleaseWorker, Terminal, Store!Terminal, seen, Seen
<1>4. ASSUME NEW tok, NEW a, ClaimNextAction(r, tok, a)
      PROVE  Store!ClaimNextAction(r, tok, a)
  <2>1. tok # NoToken /\ seen[r].token = tok /\ Store!Queued(r) = Queued(r)
    BY <1>0, <1>4, SeenTests DEF ClaimNextAction
  <2>2. seen' = seen
    BY <1>4 DEF ClaimNextAction, seen
  <2> QED
    BY <1>4, <2>1, <2>2 DEF ClaimNextAction, Store!ClaimNextAction, seen, Seen
<1> QED
  BY <1>1, <1>2, <1>3, <1>4 DEF WorkerCalls, Store!WorkerCalls, Store!Actions, Actions

LEMMA SeenRequested ==
  ASSUME run \in [Runs -> Rows], NEW r \in Runs, Requested(r)
  PROVE  Store!Requested(r)
<1>0. run[r] \in Rows /\ seen[r] = Seen(run[r]) /\ seen[r].token = run[r].token
      /\ seen[r].status = run[r].status /\ seen[r].live = run[r].live
      /\ seen[r].module = run[r].module
  BY SeenTests, SeenRow
<1>1. ASSUME NEW m, NEW q, Create(r, m, q)
      PROVE  Store!Create(r, m, q)
  <2> DEFINE new == [AbsentRow EXCEPT !.status = "queued", !.module = m,
                                      !.request = q, !.scope = TRUE]
  <2>1. ~Store!Exists(r) /\ ~Store!ScopeTaken(r, m)
    BY <1>1, SeenTests DEF Create
  <2>2. q # NoRequest => \A s \in Runs : seen[s].request # q
    BY <1>1, SeenRow DEF Create, seen
  <2>3. seen' = [seen EXCEPT ![r] = Seen(new)]
    BY <1>1, SeenWrite DEF Create
  <2>4. Seen(new) = new
    BY DEF Seen, AbsentRow
  <2>5. Store!AbsentRow = AbsentRow
    BY DEF AbsentRow, Store!AbsentRow
  <2> QED
    BY <1>1, <2>1, <2>2, <2>3, <2>4, <2>5 DEF Create, Store!Create, seen, Seen
<1>2. ASSUME ClaimScope(r)
      PROVE  Store!ClaimScope(r)
  <2>1. Store!Reopenable(r)
    BY <1>2, SeenTests DEF ClaimScope
  <2> DEFINE new(x) == [x EXCEPT !.status = "running", !.scope = TRUE, !.token = NoToken,
                                 !.live = FALSE, !.finished = FALSE]
  <2>2. run' = [run EXCEPT ![r] = new(run[r])]
    BY <1>2 DEF ClaimScope
  <2>3. Seen(new(run[r])) = new(Seen(run[r]))
    BY <1>0 DEF Seen, Rows
  <2>4. seen' = [seen EXCEPT ![r] = new(seen[r])]
    <3> DEFINE x == new(run[r])
    <3>1. run' = [run EXCEPT ![r] = x] /\ Seen(x) = new(seen[r])
      BY <1>0, <2>2, <2>3
    <3> HIDE DEF x
    <3>2. seen' = [seen EXCEPT ![r] = Seen(x)]
      BY <3>1, SeenWrite
    <3> QED
      BY <3>1, <3>2
  <2> HIDE DEF new
  <2>5. seen' = [seen EXCEPT ![r].status = "running", ![r].scope = TRUE,
                             ![r].token = NoToken, ![r].live = FALSE, ![r].finished = FALSE]
    BY <2>4 DEF new, seen
  <2> QED
    BY <1>2, <2>1, <2>5 DEF ClaimScope, Store!ClaimScope, seen, Seen
<1>3. ASSUME NEW its, EnqueueActions(r, its)
      PROVE  Store!EnqueueActions(r, its)
  <2>1. /\ seen[r].status \in ActionableStatuses /\ seen[r].token = NoToken
        /\ Store!Queue(r) = Queue(r) /\ ~Store!ScopeTaken(r, seen[r].module)
    BY <1>0, <1>3, SeenTests DEF EnqueueActions
  <2> DEFINE new(x) == [x EXCEPT !.status = "running", !.scope = TRUE, !.finished = FALSE]
  <2>2. run' = [run EXCEPT ![r] = new(run[r])]
    BY <1>3 DEF EnqueueActions
  <2>3. Seen(new(run[r])) = new(Seen(run[r]))
    BY <1>0 DEF Seen, Rows
  <2>4. seen' = [seen EXCEPT ![r] = new(seen[r])]
    <3> DEFINE x == new(run[r])
    <3>1. run' = [run EXCEPT ![r] = x] /\ Seen(x) = new(seen[r])
      BY <1>0, <2>2, <2>3
    <3> HIDE DEF x
    <3>2. seen' = [seen EXCEPT ![r] = Seen(x)]
      BY <3>1, SeenWrite
    <3> QED
      BY <3>1, <3>2
  <2> HIDE DEF new
  <2>5. seen' = [seen EXCEPT ![r].status = "running", ![r].scope = TRUE, ![r].finished = FALSE]
    BY <2>4 DEF new, seen
  <2> QED
    BY <1>3, <2>1, <2>5 DEF EnqueueActions, Store!EnqueueActions, ActionableStatuses,
       Store!ActionableStatuses, Actions, Store!Actions, seen, Seen
<1>4. ASSUME RequestCancel(r)
      PROVE  Store!RequestCancel(r)
  <2>1. /\ Store!Exists(r) /\ seen[r].status \notin Terminal
        /\ Store!Settled(r, {"queued", "running"}, "cancelled")
             = Settled(r, {"queued", "running"}, "cancelled")
    BY <1>0, <1>4, SeenTests DEF RequestCancel
  <2> DEFINE new(x) == [x EXCEPT !.cancel = TRUE, !.status = "cancelling"]
  <2>2. run' = [run EXCEPT ![r] = new(run[r])]
    BY <1>4 DEF RequestCancel
  <2>3. Seen(new(run[r])) = new(Seen(run[r]))
    BY <1>0 DEF Seen, Rows
  <2>4. seen' = [seen EXCEPT ![r] = new(seen[r])]
    <3> DEFINE x == new(run[r])
    <3>1. run' = [run EXCEPT ![r] = x] /\ Seen(x) = new(seen[r])
      BY <1>0, <2>2, <2>3
    <3> HIDE DEF x
    <3>2. seen' = [seen EXCEPT ![r] = Seen(x)]
      BY <3>1, SeenWrite
    <3> QED
      BY <3>1, <3>2
  <2> HIDE DEF new
  <2>5. seen' = [seen EXCEPT ![r].cancel = TRUE, ![r].status = "cancelling"]
    BY <2>4 DEF new, seen
  <2> QED
    BY <1>4, <2>1, <2>5 DEF RequestCancel, Store!RequestCancel, Terminal, Store!Terminal, seen, Seen
<1>5. ASSUME run' = [run EXCEPT ![r] = Freed(@)]
      PROVE  seen' = [seen EXCEPT ![r] = Store!Freed(@)]
  <2>1. seen' = [seen EXCEPT ![r] = Seen(Freed(run[r]))]
    BY <1>5, SeenWrite
  <2> QED
    BY <1>0, <2>1, SeenFreed
<1>6. ASSUME DiscardStaleWorker(r)
      PROVE  Store!DiscardStaleWorker(r)
  <2>1. Store!Exists(r) /\ ~Store!Claimable(seen[r]) /\ seen[r].token # NoToken /\ ~seen[r].live
    BY <1>0, <1>6, SeenTests DEF DiscardStaleWorker
  <2>2. seen' = [seen EXCEPT ![r] = Store!Freed(@)]
    BY <1>5, <1>6 DEF DiscardStaleWorker
  <2> QED
    BY <1>6, <2>1, <2>2 DEF DiscardStaleWorker, Store!DiscardStaleWorker, seen, Seen
<1>7. ASSUME NEW S, ClearExpiredWorker(r, S)
      PROVE  Store!ClearExpiredWorker(r, S)
  <2>1. seen[r].token # NoToken /\ seen[r].status \in S /\ ~seen[r].live
    BY <1>0, <1>7 DEF ClearExpiredWorker
  <2>2. seen' = [seen EXCEPT ![r] = Store!Freed(@)]
    BY <1>5, <1>7 DEF ClearExpiredWorker
  <2> QED
    BY <1>7, <2>1, <2>2 DEF ClearExpiredWorker, Store!ClearExpiredWorker, seen, Seen
<1> QED
  BY <1>1, <1>2, <1>3, <1>4, <1>6, <1>7 DEF Requested, Store!Requested, Batches, Store!Batches

LEMMA SeenExpires ==
  ASSUME run \in [Runs -> Rows], NEW r \in Runs, LeaseExpires(r)
  PROVE  Store!LeaseExpires(r)
<1>1. seen[r].token # NoToken /\ seen[r].live
  BY SeenTests, SeenRow DEF LeaseExpires
<1>2. seen' = [seen EXCEPT ![r].live = FALSE]
  <2> DEFINE x == [run[r] EXCEPT !.live = FALSE]
  <2>1. run' = [run EXCEPT ![r] = x] /\ Seen(x) = [seen[r] EXCEPT !.live = FALSE]
    <3>1. run' = [run EXCEPT ![r] = x]
      BY DEF LeaseExpires
    <3>2. run[r] \in Rows /\ seen[r] = Seen(run[r])
      BY SeenTests
    <3>3. Seen(x) = [Seen(run[r]) EXCEPT !.live = FALSE]
      BY <3>2 DEF Seen, Rows
    <3> HIDE DEF x
    <3> QED
      BY <3>1, <3>2, <3>3
  <2> HIDE DEF x
  <2>2. seen' = [seen EXCEPT ![r] = Seen(x)]
    BY <2>1, SeenWrite
  <2> QED
    BY <2>1, <2>2
<1> QED
  BY <1>1, <1>2 DEF LeaseExpires, Store!LeaseExpires, seen, Seen

(* Rows whose documents are opaque still obey the store: it looks at        *)
(* whether a document is there and not at what it says.                     *)
THEOREM ManagerImplementsStore == WorkersSpec => ImplementsStore
<1>1. WorkersInit => Store!StoreInit
  <2> SUFFICES ASSUME StoreInit PROVE Store!StoreInit
    BY DEF WorkersInit
  <2>1. Store!AbsentRow = AbsentRow /\ Store!Unsent = Unsent /\ Store!Actions = Actions
    BY DEF Store!AbsentRow, AbsentRow, Store!Unsent, Unsent, Store!Actions, Actions
  <2>2. \A r \in Runs : Seen(run[r]) = AbsentRow
    BY DEF StoreInit, AbsentRow, Seen
  <2>3. seen = [r \in Runs |-> AbsentRow]
    BY <2>2 DEF seen
  <2> QED
    BY <2>1, <2>3 DEF StoreInit, Store!StoreInit, seen, Seen
<1>2. WorkersInv /\ [StoreNext]_storeVars => [Store!StoreNext]_(Store!storeVars)
  <2>1. ASSUME WorkersInv, StoreNext PROVE Store!StoreNext
    <3>1. run \in [Runs -> Rows]
      BY <2>1, RowTyped
    <3> QED
      BY <2>1, <3>1, SeenWrites, SeenWorkerCalls, SeenRequested, SeenExpires
      DEF StoreNext, Store!StoreNext
  <2>2. ASSUME UNCHANGED storeVars PROVE UNCHANGED Store!storeVars
    BY <2>2 DEF storeVars, Store!storeVars
  <2> QED
    BY <2>1, <2>2
<1> QED
  BY <1>1, <1>2, WorkersInvariant, ManagerUsesStore, PTL
  DEF WorkersSpec, StoreSpec, ImplementsStore, Store!StoreSpec

-----------------------------------------------------------------------------
(* One owner.  While no lease of a live worker runs out, a thread that      *)
(* holds a token is the run's owner: nobody takes the run over, however     *)
(* many threads die.  The parts below say what its owner, and a thread that *)
(* closes a cancelled run without a token, may rely on; r is the row, l the *)
(* owner of the target lease, v the revisions of the files.                 *)

Finished(d) == AllTerminal(d) /\ d.open = {}

\* Every script that is kept has the revision of its file.
Scanned(d, v) == \A i \in Items : d.st[i] = "abandoned" \/ d.rev[i] = v[i]

\* A thread on its way to report the run as cancelled.
Ends(w) ==
  /\ w.fin = "cancelled"
  /\ w.pc \in {"close", "end"} \/ (w.pc = "save" /\ w.next = "end")

Outside == {"idle", "route", "claim", "leave"}

\* A token in a thread's hands is the row's, and its lease runs; without one
\* a thread has not begun, is done, or closes a cancelled run.
Holder(w, r) ==
  IF w.tok = NoToken
  THEN w.pc \in Outside \cup {"scope"} \/ (r.cancel /\ Ends(w))
  ELSE r.token = w.tok /\ r.live /\ w.pc \notin Outside

Acting == {"validate", "scope", "apply", "op", "work", "analyze", "finish"}

\* A queued action is at work only in the hands of the owner; what is an edit's
\* alone.
Nests(w) ==
  /\ w.a # 0 => w.tok # NoToken /\ w.job = "actions" /\ Heading(w) \in Acting
  /\ w.pc \in {"reconcile", "resync"} => w.job # "edit"
  /\ Heading(w) \in {"load", "edit", "resettle"} => w.job = "edit"

\* What a thread has closed stays closed until it has reported it.
Closes(w, r) ==
  /\ w.pc = "save" /\ w.next = "end" => Finished(w.doc)
  /\ w.pc = "mark" => w.next # "end"
  /\ w.pc = "end" /\ w.tok # NoToken /\ r.doc # NoDoc => Finished(r.doc)
  /\ r.status = "failed" /\ w.tok # NoToken => w.pc = "release" /\ w.fin = "failed"

\* Between the scan and the completion the lease is held and the scan holds.
Scans(t, w, r, l, v) ==
  /\ w.pc = "work" \/ Heading(w) = "sealed" => l = t
  /\ (w.pc \in {"idle", "route"} \/ w.job = "edit") /\ l = t => Heading(w) \in {"sealed", "complete"}
  /\ w.pc = "save" /\ w.next = "sealed" => Scanned(w.doc, v)
  /\ w.pc = "sealed" \/ (w.pc = "mark" /\ w.next = "sealed") => r.cancel \/ Scanned(r.doc, v)
  /\ w.pc = "complete" /\ l = t => r.cancel \/ (AllTerminal(r.doc) /\ Scanned(r.doc, v))

Rightful(t, w, r, l, v) == Holder(w, r) /\ Nests(w) /\ Closes(w, r) /\ Scans(t, w, r, l, v)

\* Of the row alone.
Settles(r) ==
  /\ r.status = "failed" /\ r.doc # NoDoc => Finished(r.doc)
  /\ r.status = "absent" => r.token = NoToken

\* No two threads hold one token.
Sole == \A s, t \in Threads : th[s].tok = th[t].tok /\ th[s].tok # NoToken => s = t

OwnerInv ==
  /\ Sole /\ Settles(row)
  /\ \A t \in Threads : Rightful(t, th[t], row, lease, rev)

-----------------------------------------------------------------------------
(* What a step leaves to the threads of S, which do not move.               *)
Tokenless(S) == \A s \in S : th[s].tok = NoToken

Spares(S) ==
  /\ \A s \in S : th'[s] = th[s] /\ (lease = s <=> lease' = s) /\ (lease = s => rev' = rev)
  /\ row.cancel => row'.cancel
  /\ (row'.token = row.token /\ row'.live = row.live) \/ Tokenless(S)
  /\ row'.doc = row.doc \/ Tokenless(S) \/ (row'.cancel /\ Finished(row'.doc))
  /\ row'.status = "failed" => row.status = "failed" \/ Tokenless(S)

LEMMA OnlyHolder ==
  ASSUME OwnerInv, NEW t \in Threads, th[t].tok # NoToken
  PROVE  /\ Tokenless(Threads \ {t})
         /\ row.token = th[t].tok /\ row.live /\ th[t].pc \notin Outside
<1>1. row.token = th[t].tok /\ row.live /\ th[t].pc \notin Outside
  BY DEF OwnerInv, Rightful, Holder
<1>2. ASSUME NEW s \in Threads \ {t} PROVE th[s].tok = NoToken
  BY <1>1 DEF OwnerInv, Rightful, Holder, Sole
<1> QED
  BY <1>1, <1>2 DEF Tokenless

\* A thread without a token.
LEMMA TokenlessFacts ==
  ASSUME OwnerInv, NEW t \in Threads, th[t].tok = NoToken
  PROVE  /\ th[t].a = 0
         /\ th[t].pc \in Outside \cup {"scope"} \/ (row.cancel /\ Ends(th[t]))
BY DEF OwnerInv, Rightful, Holder, Nests

\* A thread that is spared keeps what it may rely on.
LEMMA SparedKept ==
  ASSUME OwnerInv, NEW S, Spares(S), NEW s \in S, s \in Threads
  PROVE  Rightful(s, th'[s], row', lease', rev')
<1> DEFINE w == th[s]
<1>1. /\ th'[s] = w /\ (lease = s <=> lease' = s) /\ (lease = s => rev' = rev)
      /\ row.cancel => row'.cancel
  BY DEF Spares
<1>2. Holder(w, row) /\ Nests(w) /\ Closes(w, row) /\ Scans(s, w, row, lease, rev)
  BY DEF OwnerInv, Rightful
<1> HIDE DEF w
<1>3. CASE w.tok = NoToken
  <2>1. w.pc \in {"idle", "route", "claim", "leave", "scope", "close", "end", "save"}
        /\ (w.pc = "save" => w.next = "end")
    BY <1>2, <1>3 DEF Holder, Ends, Outside
  <2>2. Holder(w, row')
    BY <1>1, <1>2, <1>3 DEF Holder
  <2>3. Closes(w, row')
    BY <1>2, <1>3 DEF Closes
  <2>4. Scans(s, w, row', lease', rev')
    BY <1>1, <1>2, <2>1 DEF Scans, Heading
  <2> QED
    BY <1>1, <1>2, <2>2, <2>3, <2>4 DEF Rightful
<1>4. CASE w.tok # NoToken
  <2>1. ~Tokenless(S)
    BY <1>4 DEF Tokenless, w
  <2>2. /\ row'.token = row.token /\ row'.live = row.live
        /\ row'.doc = row.doc \/ (row'.cancel /\ Finished(row'.doc))
        /\ row'.status = "failed" => row.status = "failed"
    BY <2>1 DEF Spares
  <2>3. Holder(w, row')
    BY <1>2, <1>4, <2>2 DEF Holder
  <2>4. Closes(w, row')
    BY <1>2, <2>2 DEF Closes
  <2>5. Scans(s, w, row', lease', rev')
    <3>1. w.pc = "sealed" \/ (w.pc = "mark" /\ w.next = "sealed") => row'.cancel \/ Scanned(row'.doc, rev')
      BY <1>1, <1>2, <2>2 DEF Scans, Heading
    <3>2. w.pc = "complete" /\ lease' = s => row'.cancel \/ (AllTerminal(row'.doc) /\ Scanned(row'.doc, rev'))
      BY <1>1, <1>2, <2>2 DEF Scans, Heading
    <3> QED
      BY <1>1, <1>2, <3>1, <3>2 DEF Scans, Heading
  <2> QED
    BY <1>1, <1>2, <2>3, <2>4, <2>5 DEF Rightful
<1> QED
  BY <1>3, <1>4

(* A step of the system: t moves, keeps what it may rely on and spares the  *)
(* others, or nobody moves.                                                 *)
Yields(t) ==
  /\ Spares(Threads \ {t}) /\ Settles(row')
  /\ Rightful(t, th'[t], row', lease', rev')
  /\ th'[t].tok = NoToken \/ \A s \in Threads \ {t} : th[s].tok # th'[t].tok

LEMMA YieldsKeepsInv ==
  ASSUME OwnerInv, NEW t \in Threads, Yields(t)
  PROVE  OwnerInv' /\ (row.cancel => row'.cancel)
<1>1. \A s \in Threads \ {t} : th'[s] = th[s]
  BY DEF Yields, Spares
<1>2. Sole'
  BY <1>1 DEF Sole, OwnerInv, Yields
<1>3. \A s \in Threads : Rightful(s, th'[s], row', lease', rev')
  BY SparedKept DEF Yields
<1> QED
  BY <1>2, <1>3 DEF OwnerInv, Yields, Spares

LEMMA SparedInv ==
  ASSUME OwnerInv, th' = th, Spares(Threads), Settles(row')
  PROVE  OwnerInv' /\ (row.cancel => row'.cancel)
<1>1. Sole'
  BY DEF Sole, OwnerInv
<1>2. \A s \in Threads : Rightful(s, th'[s], row', lease', rev')
  BY SparedKept
<1> QED
  BY <1>1, <1>2 DEF OwnerInv, Spares

-----------------------------------------------------------------------------
(* What a step of one thread has to show.                                   *)

\* The target lease: what t does with it leaves the others theirs.
LeaseSpared(t) ==
  \A s \in Threads \ {t} : (lease = s <=> lease' = s) /\ (lease = s => rev' = rev)

LEMMA LeaseMoves ==
  ASSUME NEW t \in Threads, rev' = rev \/ CanLock(t) \/ lease = t,
         lease' = lease \/ Unlock(t) \/ (CanLock(t) /\ lease' = t)
  PROVE  LeaseSpared(t) /\ (Unlock(t) => lease' # t)
BY LeaseAssumption DEF LeaseSpared, Unlock, CanLock

\* Where the owner has nothing to keep.
Plainly(x) ==
  /\ x.pc \notin Outside \cup {"work", "sealed", "complete", "end"}
  /\ x.pc \in {"save", "mark", "reconcile", "resync"} => x.next \notin {"sealed", "end"}
  /\ x.pc \in {"reconcile", "resync"} => x.job # "edit"
  /\ Heading(x) \in {"load", "edit", "resettle"} => x.job = "edit"

LEMMA PlainlyRightful ==
  ASSUME NEW t, NEW x, NEW r, NEW l, NEW v, x.tok # NoToken, r.token = x.tok, r.live,
         r.status # "failed", Plainly(x), Nests(x), x.job = "edit" => l # t
  PROVE  Rightful(t, x, r, l, v)
<1>1. Holder(x, r)
  BY DEF Plainly, Holder
<1>2. Closes(x, r)
  BY DEF Plainly, Closes
<1>3. Scans(t, x, r, l, v)
  BY DEF Plainly, Scans, Heading, Outside
<1> QED
  BY <1>1, <1>2, <1>3 DEF Rightful

\* What is known of the owner before its step.
LEMMA OwnerFacts ==
  ASSUME OwnerInv, NEW t \in Threads,
         th[t].tok # NoToken \/ th[t].pc \notin Outside \cup {"scope", "save", "close", "end"}
  PROVE  /\ th[t].tok # NoToken /\ row.token = th[t].tok /\ row.live
         /\ row.status # "absent"
         /\ th[t].pc # "release" => row.status # "failed"
<1>1. Holder(th[t], row) /\ Closes(th[t], row) /\ Settles(row)
  BY DEF OwnerInv, Rightful
<1>2. th[t].tok # NoToken
  BY <1>1 DEF Holder, Ends
<1> QED
  BY <1>1, <1>2 DEF Holder, Closes, Settles

LEMMA ActingFacts ==
  ASSUME OwnerInv, NEW t \in Threads, th[t].a # 0
  PROVE  th[t].tok # NoToken /\ th[t].job = "actions" /\ Heading(th[t]) \in Acting
BY DEF OwnerInv, Rightful, Nests

LEMMA EditFacts ==
  ASSUME OwnerInv, NEW t \in Threads, th[t].job = "edit",
         Heading(th[t]) \notin {"sealed", "complete"}
  PROVE  lease # t
BY DEF OwnerInv, Rightful, Scans

\* The owner writes to the store, or nowhere.
LEMMA OwnerWrites ==
  ASSUME WorkersInv, OwnerInv, NEW t \in Threads, NEW x, th' = [th EXCEPT ![t] = x],
         th[t].tok # NoToken, LeaseSpared(t),
         row'.token = row.token, row'.live = row.live, row.cancel => row'.cancel,
         Settles(row'), Rightful(t, x, row', lease', rev'), x.tok = th[t].tok
  PROVE  Yields(t)
<1>1. th'[t] = x /\ \A s \in Threads \ {t} : th'[s] = th[s]
  BY DEF WorkersInv
<1>2. Tokenless(Threads \ {t})
  BY OnlyHolder
<1>3. Spares(Threads \ {t})
  BY <1>1, <1>2 DEF Spares, LeaseSpared
<1>4. \A s \in Threads \ {t} : th[s].tok # x.tok
  BY <1>2 DEF Tokenless
<1> QED
  BY <1>1, <1>3, <1>4 DEF Yields

\* The owner goes on, and writes nothing.
LEMMA OwnerGoesOn ==
  ASSUME WorkersInv, OwnerInv, NEW t \in Threads, NEW x, th' = [th EXCEPT ![t] = x],
         th[t].tok # NoToken, LeaseSpared(t), UNCHANGED run,
         Rightful(t, x, row, lease', rev'), x.tok = th[t].tok
  PROVE  Yields(t)
<1>1. row' = row
  BY DEF row
<1>2. Settles(row')
  BY <1>1 DEF OwnerInv
<1> QED
  BY <1>1, <1>2, OwnerWrites

\* It goes on to where it has nothing to keep.
LEMMA OwnerMoves ==
  ASSUME WorkersInv, OwnerInv, NEW t \in Threads, NEW x, th' = [th EXCEPT ![t] = x],
         th[t].tok # NoToken, th[t].pc # "release", LeaseSpared(t), UNCHANGED run,
         x.tok = th[t].tok, x.job = th[t].job, x.a \in {0, th[t].a}, Plainly(x),
         x.a # 0 => Heading(x) \in Acting,
         x.job = "edit" => lease' # t
  PROVE  Yields(t)
<1>1. /\ row.token = th[t].tok /\ row.live /\ row.status # "failed"
  BY OwnerFacts
<1>2. Nests(x)
  BY ActingFacts DEF Nests, Plainly
<1>3. Rightful(t, x, row, lease', rev')
  BY <1>1, <1>2, PlainlyRightful
<1> QED
  BY <1>3, OwnerGoesOn

\* A thread without the token moves, and leaves the row alone.
LEMMA OutsiderMoves ==
  ASSUME WorkersInv, OwnerInv, NEW t \in Threads, NEW x, th' = [th EXCEPT ![t] = x],
         LeaseSpared(t), UNCHANGED run, x.tok = NoToken, x.a = 0,
         x.pc \in Outside \cup {"scope"},
         x.pc \in {"idle", "route"} \/ x.job = "edit" => lease' # t
  PROVE  Yields(t)
<1>1. th'[t] = x /\ \A s \in Threads \ {t} : th'[s] = th[s]
  BY DEF WorkersInv
<1>2. row' = row
  BY DEF row
<1>3. Spares(Threads \ {t})
  BY <1>1, <1>2 DEF Spares, LeaseSpared
<1>4. Holder(x, row) /\ Nests(x) /\ Closes(x, row) /\ Scans(t, x, row, lease', rev')
  BY DEF Holder, Nests, Closes, Scans, Heading, Outside
<1>5. Settles(row')
  BY <1>2 DEF OwnerInv
<1> QED
  BY <1>1, <1>2, <1>3, <1>4, <1>5 DEF Yields, Rightful

\* A thread closes the document of a cancelled run.
LEMMA ClosingYields ==
  ASSUME WorkersInv, OwnerInv, NEW t \in Threads, NEW f \in {"failed", "cancelled"},
         th' = [th EXCEPT ![t] = Closing(t, f)], LeaseSpared(t), UNCHANGED run,
         th[t].tok = NoToken => row.cancel /\ f = "cancelled",
         th[t].pc # "release", Heading(th[t]) \notin Acting,
         th[t].job = "edit" => lease' # t
  PROVE  Yields(t)
<1> DEFINE x == Closing(t, f)
<1>1. /\ th[t] \in Memories
  BY DEF WorkersInv
<1>2. /\ x.pc = "close" /\ x.fin = f /\ x.job = th[t].job /\ x.tok = th[t].tok
      /\ x.a = th[t].a
  BY <1>1, ClosingFields
<1>3. th'[t] = x /\ \A s \in Threads \ {t} : th'[s] = th[s]
  BY DEF WorkersInv
<1> HIDE DEF x
<1>4. x.a = 0
  BY <1>2, ActingFacts
<1>5. row' = row
  BY DEF row
<1>6. CASE th[t].tok # NoToken
  <2>1. Plainly(x)
    BY <1>2 DEF Plainly, Outside, Heading
  <2>2. th' = [th EXCEPT ![t] = x]
    BY DEF x
  <2> QED
    BY <1>2, <1>4, <1>6, <2>1, <2>2, OwnerMoves
<1>7. CASE th[t].tok = NoToken
  <2>1. Spares(Threads \ {t})
    BY <1>3, <1>5 DEF Spares, LeaseSpared
  <2>2. Holder(x, row)
    BY <1>2, <1>7 DEF Holder, Ends
  <2>3. Nests(x) /\ Closes(x, row) /\ Scans(t, x, row, lease', rev')
    BY <1>2, <1>4, <1>7 DEF Nests, Closes, Scans, Heading
  <2>4. Settles(row')
    BY <1>5 DEF OwnerInv
  <2> QED
    BY <1>2, <1>3, <1>5, <1>7, <2>1, <2>2, <2>3, <2>4 DEF Yields, Rightful
<1> QED
  BY <1>6, <1>7

\* A record that keeps the token, the job and the action of t, at a step
\* where the owner has nothing to keep.
Resumes(t, x) ==
  /\ x.tok = th[t].tok /\ x.job = th[t].job /\ x.a \in {0, th[t].a} /\ Plainly(x)
  /\ x.a # 0 => Heading(x) \in Acting

LEMMA ResumesMoves ==
  ASSUME WorkersInv, OwnerInv, NEW t \in Threads, NEW x, th' = [th EXCEPT ![t] = x],
         th[t].tok # NoToken, th[t].pc # "release", LeaseSpared(t), UNCHANGED run,
         Resumes(t, x), th[t].job = "edit" => lease' # t
  PROVE  Yields(t)
<1>1. /\ x.tok = th[t].tok /\ x.job = th[t].job /\ x.a \in {0, th[t].a} /\ Plainly(x)
      /\ x.a # 0 => Heading(x) \in Acting
  BY DEF Resumes
<1> QED
  BY <1>1, OwnerMoves

LEMMA AtResumes ==
  ASSUME NEW t \in Threads, th[t] \in Memories,
         NEW pc \in PCs \ (Outside \cup {"work", "sealed", "complete", "end", "save", "mark",
                                         "reconcile", "resync"}),
         th[t].a = 0 \/ pc \in Acting, pc \in {"load", "edit", "resettle"} => th[t].job = "edit"
  PROVE  Resumes(t, At(t, pc)) /\ \A d : Resumes(t, [At(t, pc) EXCEPT !.doc = d])
<1>2. Resumes(t, At(t, pc))
  <2> DEFINE x == At(t, pc)
  <2>1. x.pc = pc /\ x.tok = th[t].tok /\ x.job = th[t].job /\ x.a = th[t].a
    BY DEF At, Memories
  <2> HIDE DEF x
  <2>2. Resumes(t, x)
    BY <2>1 DEF Resumes, Plainly, Heading
  <2> QED
    BY <2>2 DEF x
<1>3. ASSUME NEW d PROVE Resumes(t, [At(t, pc) EXCEPT !.doc = d])
  <2> DEFINE x == [At(t, pc) EXCEPT !.doc = d]
  <2>1. x.pc = pc /\ x.tok = th[t].tok /\ x.job = th[t].job /\ x.a = th[t].a
    BY DEF At, Memories
  <2> HIDE DEF x
  <2>2. Resumes(t, x)
    BY <2>1 DEF Resumes, Plainly, Heading
  <2> QED
    BY <2>2 DEF x
<1> QED
  BY <1>2, <1>3

LEMMA SavesFields ==
  ASSUME NEW t \in Threads, th[t] \in Memories, NEW d, NEW nxt
  PROVE  LET w == th[t]  x == Saving(t, d, nxt)
         IN  /\ x.pc = "save" /\ x.doc = d /\ x.next = nxt /\ x.job = w.job /\ x.tok = w.tok
             /\ x.item = w.item /\ x.a = w.a /\ x.op = w.op /\ x.fin = w.fin
BY DEF Saving, Memories

LEMMA SavingResumes ==
  ASSUME NEW t \in Threads, th[t] \in Memories, NEW d, NEW nxt,
         nxt \notin {"sealed", "end"}, th[t].a = 0 \/ nxt \in Acting,
         nxt \in {"edit", "load", "resettle"} => th[t].job = "edit"
  PROVE  /\ Resumes(t, Saving(t, d, nxt))
         /\ \A op : Resumes(t, [Saving(t, d, nxt) EXCEPT !.op = op])
         /\ \A i, op, f : Resumes(t, [Saving(t, d, nxt) EXCEPT !.item = i, !.op = op, !.fin = f])
         /\ \A i, f : Resumes(t, [Saving(t, d, nxt) EXCEPT !.item = i, !.fin = f])
<1>1. ASSUME NEW x, x.pc = "save", x.next = nxt, x.job = th[t].job, x.tok = th[t].tok,
             x.a = th[t].a
      PROVE  Resumes(t, x)
  BY <1>1 DEF Resumes, Plainly, Heading, Outside
<1>2. Resumes(t, Saving(t, d, nxt))
  BY <1>1, SavesFields
<1>3. ASSUME NEW op PROVE Resumes(t, [Saving(t, d, nxt) EXCEPT !.op = op])
  <2> DEFINE x == [Saving(t, d, nxt) EXCEPT !.op = op]
  <2>1. x.pc = "save" /\ x.next = nxt /\ x.job = th[t].job /\ x.tok = th[t].tok /\ x.a = th[t].a
    BY DEF Saving, Memories
  <2> HIDE DEF x
  <2>2. Resumes(t, x)
    BY <1>1, <2>1
  <2> QED
    BY <2>2 DEF x
<1>4. ASSUME NEW i, NEW op, NEW f
      PROVE  Resumes(t, [Saving(t, d, nxt) EXCEPT !.item = i, !.op = op, !.fin = f])
  <2> DEFINE x == [Saving(t, d, nxt) EXCEPT !.item = i, !.op = op, !.fin = f]
  <2>1. x.pc = "save" /\ x.next = nxt /\ x.job = th[t].job /\ x.tok = th[t].tok /\ x.a = th[t].a
    BY DEF Saving, Memories
  <2> HIDE DEF x
  <2>2. Resumes(t, x)
    BY <1>1, <2>1
  <2> QED
    BY <2>2 DEF x
<1>5. ASSUME NEW i, NEW f PROVE Resumes(t, [Saving(t, d, nxt) EXCEPT !.item = i, !.fin = f])
  <2> DEFINE x == [Saving(t, d, nxt) EXCEPT !.item = i, !.fin = f]
  <2>1. x.pc = "save" /\ x.next = nxt /\ x.job = th[t].job /\ x.tok = th[t].tok /\ x.a = th[t].a
    BY DEF Saving, Memories
  <2> HIDE DEF x
  <2>2. Resumes(t, x)
    BY <1>1, <2>1
  <2> QED
    BY <2>2 DEF x
<1> QED
  BY <1>2, <1>3, <1>4, <1>5

LEMMA ClosingResumes ==
  ASSUME NEW t \in Threads, th[t] \in Memories, NEW f \in {"failed", "cancelled"}, th[t].a = 0
  PROVE  Resumes(t, Closing(t, f))
<1> DEFINE x == Closing(t, f)
<1>1. x.pc = "close" /\ x.job = th[t].job /\ x.tok = th[t].tok /\ x.a = th[t].a
  BY ClosingFields
<1> HIDE DEF x
<1>2. Resumes(t, x)
  BY <1>1 DEF Resumes, Plainly, Heading, Outside
<1> QED
  BY <1>2 DEF x

LEMMA AbortedResumes ==
  ASSUME WorkersInv, OwnerInv, NEW t \in Threads, th[t].pc \in AtWork
  PROVE  Resumes(t, Aborted(t))
<1>1. th[t] \in Memories /\ th[t].job \in {"initial", "actions"}
  BY WorkFacts DEF WorkersInv
<1>2. CASE th[t].job = "initial"
  <2>1. th[t].a = 0
    BY <1>2, ActingFacts
  <2> QED
    BY <1>1, <1>2, <2>1, ClosingResumes DEF Aborted
<1>3. CASE th[t].job # "initial"
  <2> DEFINE x == [At(t, "finish") EXCEPT !.fin = "failed", !.doc = NoDoc]
  <2>1. x.pc = "finish" /\ x.tok = th[t].tok /\ x.job = th[t].job /\ x.a = th[t].a
    BY <1>1 DEF At, Memories
  <2> HIDE DEF x
  <2>2. Resumes(t, x)
    BY <2>1 DEF Resumes, Plainly, Heading, Outside, Acting
  <2> QED
    BY <1>3, <2>2 DEF Aborted, x
<1> QED
  BY <1>2, <1>3

\* Where the owner goes after an item's operations.
LEMMA AfterResumes ==
  ASSUME WorkersInv, OwnerInv, NEW t \in Threads, th[t].pc \in AtWork, NEW d
  PROVE  Resumes(t, Saving(t, d, After(t)))
<1>1. th[t] \in Memories
  BY DEF WorkersInv
<1>2. After(t) \in {"loop", "finish"} /\ (th[t].a # 0 => After(t) = "finish")
  BY ActingFacts DEF After
<1>3. th[t].a = 0 \/ After(t) \in Acting
  BY <1>2 DEF Acting
<1> QED
  BY <1>1, <1>2, <1>3, SavingResumes

-----------------------------------------------------------------------------
(* Steps of the jobs that do not write to the store.                        *)

LEMMA QuitYields ==
  ASSUME WorkersInv, OwnerInv, NEW t \in Threads, Quit(t)
  PROVE  Yields(t)
<1>1. th[t].tok # NoToken /\ row.token # th[t].tok
  BY DEF Quit, Lost
<1> QED
  BY <1>1, OnlyHolder

LEMMA RouteYields ==
  ASSUME WorkersInv, OwnerInv, NEW t \in Threads, Route(t)
  PROVE  Yields(t)
<1> DEFINE job == IF row.status # "failing" /\ Queue(R) # {} THEN "actions" ELSE "initial"
           x == [At(t, "claim") EXCEPT !.job = job]
<1>0. th[t] \in Memories /\ th[t].pc = "route"
  BY DEF WorkersInv, Route
<1>1. th[t].tok = NoToken /\ th[t].a = 0
  BY <1>0, OnlyHolder, TokenlessFacts DEF Outside
<1>2. job \in {"actions", "initial"}
  OBVIOUS
<1>3. th' = [th EXCEPT ![t] = x] /\ UNCHANGED run /\ LeaseSpared(t)
  BY LeaseMoves DEF Route, Step, storeVars, fileVars
<1> HIDE DEF job
<1>4. x.pc = "claim" /\ x.job = job /\ x.tok = NoToken /\ x.a = 0
  BY <1>0, <1>1 DEF At, Memories
<1> HIDE DEF x
<1> QED
  BY <1>2, <1>3, <1>4, OutsiderMoves DEF Outside

LEMMA StartYields ==
  ASSUME WorkersInv, OwnerInv, NEW t \in Threads, Start(t)
  PROVE  Yields(t)
<1> DEFINE y == [At(t, "reconcile") EXCEPT !.next = "close", !.fin = "failed"]
           z == [At(t, "reconcile") EXCEPT !.next = "resume"]
<1>0. th[t] \in Memories /\ th[t].pc = "start" /\ Heading(th[t]) = "start"
  BY DEF WorkersInv, Start, Heading
<1>1. th[t].tok # NoToken /\ th[t].a = 0 /\ th[t].job = "initial"
  BY <1>0, OwnerFacts, ActingFacts, ThreadFacts DEF Outside, Acting, Headed
<1>2. Resumes(t, At(t, "fail"))
  BY <1>0, <1>1, AtResumes DEF PCs, Outside
<1>3. Resumes(t, Closing(t, "cancelled"))
  BY <1>0, <1>1, ClosingResumes
<1>4. Resumes(t, y) /\ Resumes(t, z)
  <2>1. /\ y.pc = "reconcile" /\ y.next = "close"
        /\ y.tok = th[t].tok /\ y.job = th[t].job /\ y.a = th[t].a
        /\ z.pc = "reconcile" /\ z.next = "resume"
        /\ z.tok = th[t].tok /\ z.job = th[t].job /\ z.a = th[t].a
    BY <1>0 DEF At, Memories
  <2> HIDE DEF y, z
  <2> QED
    BY <1>1, <2>1 DEF Resumes, Plainly, Outside, Heading
<1>5. Resumes(t, Saving(t, NewDoc, "loop"))
  BY <1>0, <1>1, SavingResumes
<1> HIDE DEF y, z
<1>6. PICK x : Resumes(t, x) /\ th' = [th EXCEPT ![t] = x]
  BY <1>2, <1>3, <1>4, <1>5 DEF Start, Step, y, z
<1>7. UNCHANGED run /\ LeaseSpared(t)
  BY LeaseMoves DEF Start, storeVars, fileVars
<1> QED
  BY <1>0, <1>1, <1>6, <1>7, ResumesMoves

LEMMA ReconcileYields ==
  ASSUME WorkersInv, OwnerInv, NEW t \in Threads, Reconcile(t)
  PROVE  Yields(t)
<1> DEFINE w == th[t]
           b == [At(t, "release") EXCEPT !.fin = "busy"]
<1>0. /\ w \in Memories /\ w.pc = "reconcile" /\ Heading(w) = w.next
      /\ w.next \in {"close", "resume", "recover"}
      /\ w.job # "edit"
  BY ThreadFacts DEF Reconcile, Headed, Heading, OwnerInv, Rightful, Nests
<1>1. w.tok # NoToken /\ w.a = 0
  BY <1>0, OwnerFacts, ActingFacts DEF Outside, Acting
<1>2. Resumes(t, At(t, w.next)) /\ Resumes(t, [At(t, "resync") EXCEPT !.doc = Resynced(row.doc)])
      /\ Resumes(t, b)
  <2>1. Resumes(t, At(t, w.next))
    BY <1>0, <1>1, AtResumes DEF PCs, Outside
  <2>2. Resumes(t, [At(t, "resync") EXCEPT !.doc = Resynced(row.doc)])
    <3> DEFINE x == [At(t, "resync") EXCEPT !.doc = Resynced(row.doc)]
    <3>1. x.pc = "resync" /\ x.next = w.next /\ x.tok = w.tok /\ x.job = w.job /\ x.a = w.a
      BY <1>0 DEF At, Memories
    <3> HIDE DEF x
    <3>2. Resumes(t, x)
      BY <1>0, <1>1, <3>1 DEF Resumes, Plainly, Outside, Heading
    <3> QED
      BY <3>2 DEF x
  <2>3. Resumes(t, b)
    <3>1. b.pc = "release" /\ b.tok = w.tok /\ b.job = w.job /\ b.a = w.a
      BY <1>0 DEF At, Memories
    <3> HIDE DEF b
    <3> QED
      BY <1>1, <3>1 DEF Resumes, Plainly, Outside, Heading
  <2> QED
    BY <2>1, <2>2, <2>3
<1>3. /\ \E x : Resumes(t, x) /\ th' = [th EXCEPT ![t] = x]
      /\ UNCHANGED run
  BY <1>2 DEF Reconcile, Step, storeVars
<1>4. LeaseSpared(t)
  BY LeaseMoves DEF Reconcile, fileVars
<1> QED
  BY <1>0, <1>1, <1>3, <1>4, ResumesMoves

LEMMA ResumeYields ==
  ASSUME WorkersInv, OwnerInv, NEW t \in Threads, Resume(t)
  PROVE  Yields(t)
<1>0. th[t] \in Memories /\ th[t].pc = "resume" /\ Heading(th[t]) = "resume"
  BY DEF WorkersInv, Resume, Heading
<1>1. th[t].tok # NoToken /\ th[t].a = 0 /\ (th[t].job = "edit" => lease # t)
  BY <1>0, OwnerFacts, ActingFacts, EditFacts DEF Outside, Acting
<1>2. Resumes(t, [At(t, "loop") EXCEPT !.doc = Recovered(row.doc)])
  BY <1>0, <1>1, AtResumes DEF PCs, Outside
<1>3. LeaseSpared(t)
  BY LeaseMoves DEF Resume, fileVars
<1> QED
  BY <1>0, <1>1, <1>2, <1>3, ResumesMoves DEF Resume, Step, storeVars

LEMMA LoopYields ==
  ASSUME WorkersInv, OwnerInv, NEW t \in Threads, Loop(t)
  PROVE  Yields(t)
<1>0. th[t] \in Memories /\ th[t].pc = "loop" /\ Heading(th[t]) = "loop"
  BY DEF WorkersInv, Loop, Heading
<1>1. th[t].tok # NoToken /\ th[t].a = 0 /\ (th[t].job = "edit" => lease # t)
  BY <1>0, OwnerFacts, ActingFacts, EditFacts DEF Outside, Acting
<1>2. \A d, i, op, f : Resumes(t, [Saving(t, d, "op") EXCEPT !.item = i, !.op = op, !.fin = f])
  BY <1>0, <1>1, SavingResumes
<1>3. \A d : Resumes(t, Saving(t, d, "settle"))
  BY <1>0, <1>1, SavingResumes
<1>4. Resumes(t, [At(t, "fail") EXCEPT !.doc = NoDoc])
  BY <1>0, <1>1, AtResumes DEF PCs, Outside
<1>5. PICK x : Resumes(t, x) /\ th' = [th EXCEPT ![t] = x]
  BY <1>2, <1>3, <1>4 DEF Loop, Step
<1>6. UNCHANGED <<run, lease>> /\ LeaseSpared(t)
  BY LeaseMoves DEF Loop, storeVars, fileVars
<1> QED
  BY <1>0, <1>1, <1>5, <1>6, ResumesMoves

LEMMA OpYields ==
  ASSUME WorkersInv, OwnerInv, NEW t \in Threads, Op(t)
  PROVE  Yields(t)
<1> DEFINE w == th[t]
<1>0. /\ w \in Memories /\ w.pc = "op" /\ Heading(w) = "op" /\ w.pc \in AtWork
      /\ w.job \in {"initial", "actions"}
  BY WorkFacts DEF WorkersInv, Op, Heading, AtWork
<1>1. w.tok # NoToken
  BY <1>0, OwnerFacts DEF Outside
<1>2. UNCHANGED run /\ LeaseSpared(t)
  BY LeaseMoves DEF Op, storeVars, fileVars
<1>3. CASE Step(t, At(t, "work")) /\ lease' = t
  <2> DEFINE x == At(t, "work")
  <2>1. x.pc = "work" /\ x.tok = w.tok /\ x.job = w.job /\ x.a = w.a
    BY <1>0 DEF At, Memories
  <2> HIDE DEF x
  <2>2. Holder(x, row)
    BY <1>1, <2>1, OwnerFacts DEF Holder, Outside
  <2>3. Nests(x)
    BY <1>1, <2>1, ActingFacts DEF Nests, Heading, Acting
  <2>4. Closes(x, row)
    BY <1>0, <1>1, <2>1, OwnerFacts DEF Closes
  <2>5. Scans(t, x, row, lease', rev')
    BY <1>0, <1>3, <2>1 DEF Scans, Heading
  <2>6. th' = [th EXCEPT ![t] = x]
    BY <1>3 DEF Step, x
  <2> QED
    BY <1>1, <1>2, <2>1, <2>2, <2>3, <2>4, <2>5, <2>6, OwnerGoesOn DEF Rightful
<1>4. CASE \/ Step(t, Saving(t, w.doc, "analyze"))
           \/ Step(t, Saving(t, Put(w.doc, w.item, "parked"), After(t)))
  <2>1. Resumes(t, Saving(t, w.doc, "analyze"))
    BY <1>0, SavingResumes DEF Acting
  <2>2. Resumes(t, Saving(t, Put(w.doc, w.item, "parked"), After(t)))
    BY <1>0, AfterResumes
  <2> QED
    BY <1>0, <1>1, <1>2, <1>4, <2>1, <2>2, ResumesMoves DEF Step
<1> QED
  BY <1>3, <1>4 DEF Op

LEMMA WriteYields ==
  ASSUME WorkersInv, OwnerInv, NEW t \in Threads, Write(t)
  PROVE  Yields(t)
<1> DEFINE w == th[t]
<1>0. /\ w \in Memories /\ w.pc = "work" /\ w.pc \in AtWork /\ w.job \in {"initial", "actions"}
  BY WorkFacts DEF WorkersInv, Write, AtWork
<1>1. w.tok # NoToken /\ lease = t
  BY <1>0, OwnerFacts DEF Outside, OwnerInv, Rightful, Scans
<1>2. UNCHANGED run /\ LeaseSpared(t)
  BY <1>1, LeaseMoves DEF Write, storeVars
<1>3. \A d : /\ \A op : Resumes(t, [Saving(t, d, "op") EXCEPT !.op = op])
             /\ Resumes(t, Saving(t, d, "analyze"))
  BY <1>0, SavingResumes DEF Acting
<1>4. Resumes(t, Aborted(t))
  BY <1>0, AbortedResumes
<1>5. PICK x : Resumes(t, x) /\ th' = [th EXCEPT ![t] = x]
  BY <1>3, <1>4 DEF Write, Step
<1> QED
  BY <1>0, <1>1, <1>2, <1>5, ResumesMoves

LEMMA RunYields ==
  ASSUME WorkersInv, OwnerInv, NEW t \in Threads, Run(t)
  PROVE  Yields(t)
<1> DEFINE w == th[t]
<1>0. /\ w \in Memories /\ w.pc = "work" /\ w.pc \in AtWork /\ w.job \in {"initial", "actions"}
  BY WorkFacts DEF WorkersInv, Run, AtWork
<1>1. w.tok # NoToken
  BY <1>0, OwnerFacts DEF Outside
<1>2. UNCHANGED run /\ LeaseSpared(t)
  BY LeaseMoves DEF Run, storeVars
<1>3. \A d : /\ \A op : Resumes(t, [Saving(t, d, "op") EXCEPT !.op = op])
             /\ Resumes(t, Saving(t, d, "analyze"))
             /\ Resumes(t, Saving(t, d, After(t)))
  BY <1>0, SavingResumes, AfterResumes DEF Acting
<1>4. Resumes(t, Aborted(t))
  BY <1>0, AbortedResumes
<1>5. PICK x : Resumes(t, x) /\ th' = [th EXCEPT ![t] = x]
  BY <1>3, <1>4 DEF Run, Step
<1> QED
  BY <1>0, <1>1, <1>2, <1>5, ResumesMoves

LEMMA AnalyzeYields ==
  ASSUME WorkersInv, OwnerInv, NEW t \in Threads, Analyze(t)
  PROVE  Yields(t)
<1> DEFINE w == th[t]
<1>0. /\ w \in Memories /\ w.pc = "analyze" /\ w.pc \in AtWork /\ w.job \in {"initial", "actions"}
  BY WorkFacts DEF WorkersInv, Analyze, AtWork
<1>1. w.tok # NoToken
  BY <1>0, OwnerFacts DEF Outside
<1>2. UNCHANGED run /\ LeaseSpared(t)
  BY LeaseMoves DEF Analyze, storeVars, fileVars
<1>3. PICK x : Resumes(t, x) /\ th' = [th EXCEPT ![t] = x]
  BY <1>0, AfterResumes, AbortedResumes DEF Analyze, Step
<1> QED
  BY <1>0, <1>1, <1>2, <1>3, ResumesMoves

\* Likewise with another final result.
LEMMA AtResumesAs ==
  ASSUME NEW t \in Threads, th[t] \in Memories,
         NEW pc \in PCs \ (Outside \cup {"work", "sealed", "complete", "end", "save", "mark",
                                         "reconcile", "resync"}),
         th[t].a = 0 \/ pc \in Acting, pc \in {"load", "edit", "resettle"} => th[t].job = "edit"
  PROVE  \A f, d : /\ Resumes(t, [At(t, pc) EXCEPT !.fin = f])
                   /\ Resumes(t, [At(t, pc) EXCEPT !.fin = f, !.doc = d])
<1> SUFFICES ASSUME NEW f, NEW d
             PROVE  /\ Resumes(t, [At(t, pc) EXCEPT !.fin = f])
                    /\ Resumes(t, [At(t, pc) EXCEPT !.fin = f, !.doc = d])
  OBVIOUS
<1> DEFINE x == [At(t, pc) EXCEPT !.fin = f]
           y == [At(t, pc) EXCEPT !.fin = f, !.doc = d]
<1>1. /\ x.pc = pc /\ x.tok = th[t].tok /\ x.job = th[t].job /\ x.a = th[t].a
      /\ y.pc = pc /\ y.tok = th[t].tok /\ y.job = th[t].job /\ y.a = th[t].a
  BY DEF At, Memories
<1> HIDE DEF x, y
<1>2. Resumes(t, x) /\ Resumes(t, y)
  BY <1>1 DEF Resumes, Plainly, Heading
<1> QED
  BY <1>2 DEF x, y

\* A thread moves to what it may rely on, and the row stays.
LEMMA RightfulMoves ==
  ASSUME WorkersInv, OwnerInv, NEW t \in Threads, NEW x, th' = [th EXCEPT ![t] = x],
         LeaseSpared(t), UNCHANGED run, Rightful(t, x, row, lease', rev'),
         x.tok \in {NoToken, th[t].tok}
  PROVE  Yields(t)
<1>1. th'[t] = x /\ \A s \in Threads \ {t} : th'[s] = th[s]
  BY DEF WorkersInv
<1>2. row' = row
  BY DEF row
<1>3. Spares(Threads \ {t})
  BY <1>1, <1>2 DEF Spares, LeaseSpared
<1>4. x.tok = NoToken \/ \A s \in Threads \ {t} : th[s].tok # x.tok
  BY DEF OwnerInv, Sole
<1>5. Settles(row')
  BY <1>2 DEF OwnerInv
<1> QED
  BY <1>1, <1>2, <1>3, <1>4, <1>5 DEF Yields

\* A thread ends, whether or not it dies with the token.
LEMMA IdleYields ==
  ASSUME WorkersInv, OwnerInv, NEW t \in Threads, th' = [th EXCEPT ![t] = Idle],
         LeaseSpared(t), UNCHANGED run, lease' # t
  PROVE  Yields(t)
<1>1. Idle.tok = NoToken /\ Idle.a = 0 /\ Idle.pc = "idle"
  BY DEF Idle
<1> QED
  BY <1>1, OutsiderMoves DEF Outside

LEMMA RefusedYields ==
  ASSUME WorkersInv, OwnerInv, NEW t \in Threads, th' = [th EXCEPT ![t] = Refused(t)],
         LeaseSpared(t), UNCHANGED run, th[t].pc # "release", Nested(t) \/ lease' # t
  PROVE  Yields(t)
<1>0. th[t] \in Memories
  BY DEF WorkersInv
<1>1. CASE Nested(t)
  <2>1. th[t].tok # NoToken /\ th[t].job = "actions"
    BY <1>1, ActingFacts DEF Nested
  <2>2. Resumes(t, [At(t, "finish") EXCEPT !.fin = "failed"])
    BY <1>0, AtResumesAs DEF PCs, Outside, Acting
  <2>3. Refused(t) = [At(t, "finish") EXCEPT !.fin = "failed"]
    BY <1>1 DEF Refused
  <2>4. th' = [th EXCEPT ![t] = [At(t, "finish") EXCEPT !.fin = "failed"]]
    BY <2>3
  <2> HIDE DEF Refused
  <2> QED
    BY <2>1, <2>2, <2>4, ResumesMoves
<1>2. CASE ~Nested(t)
  BY <1>2, IdleYields DEF Refused
<1> QED
  BY <1>1, <1>2

LEMMA RecoverItemsYields ==
  ASSUME WorkersInv, OwnerInv, NEW t \in Threads, RecoverItems(t)
  PROVE  Yields(t)
<1>0. th[t] \in Memories /\ th[t].pc = "recover" /\ Heading(th[t]) = "recover"
  BY DEF WorkersInv, RecoverItems, Heading
<1>1. th[t].tok # NoToken /\ th[t].a = 0 /\ (th[t].job = "edit" => lease # t)
  BY <1>0, OwnerFacts, ActingFacts, EditFacts DEF Outside, Acting
<1>2. Resumes(t, At(t, "next")) /\ Resumes(t, Saving(t, Recovered(row.doc), "next"))
  BY <1>0, <1>1, AtResumes, SavingResumes DEF PCs, Outside
<1>3. PICK x : Resumes(t, x) /\ th' = [th EXCEPT ![t] = x]
  BY <1>2 DEF RecoverItems, Step
<1>4. UNCHANGED <<run, lease>> /\ LeaseSpared(t)
  BY LeaseMoves DEF RecoverItems, storeVars, fileVars
<1> QED
  BY <1>0, <1>1, <1>3, <1>4, ResumesMoves

LEMMA AdoptYields ==
  ASSUME WorkersInv, OwnerInv, NEW t \in Threads, Adopt(t)
  PROVE  Yields(t)
<1> DEFINE S == Unverified(row.doc)
<1>0. th[t] \in Memories /\ th[t].pc = "adopt" /\ Heading(th[t]) = "adopt"
  BY DEF WorkersInv, Adopt, Heading
<1>1. th[t].tok # NoToken /\ th[t].a = 0 /\ (th[t].job = "edit" => lease # t)
  BY <1>0, OwnerFacts, ActingFacts, EditFacts DEF Outside, Acting
<1>2. Resumes(t, At(t, "post")) /\ Resumes(t, Saving(t, Adopted(row.doc, S), "post"))
  BY <1>0, <1>1, AtResumes, SavingResumes DEF PCs, Outside
<1>3. PICK x : Resumes(t, x) /\ th' = [th EXCEPT ![t] = x]
  BY <1>2 DEF Adopt, Step
<1>4. UNCHANGED <<run, lease>> /\ LeaseSpared(t)
  BY LeaseMoves DEF Adopt, storeVars, fileVars
<1> QED
  BY <1>0, <1>1, <1>3, <1>4, ResumesMoves

LEMMA ApplyYields ==
  ASSUME WorkersInv, OwnerInv, NEW t \in Threads, Apply(t)
  PROVE  Yields(t)
<1>0. th[t] \in Memories /\ th[t].pc = "apply" /\ th[t].a # 0
  BY ThreadFacts DEF Apply, Needs
<1>1. th[t].tok # NoToken /\ th[t].job = "actions"
  BY <1>0, ActingFacts
<1>2. /\ Resumes(t, [At(t, "finish") EXCEPT !.fin = "failed"])
      /\ \A d, i, f : Resumes(t, [Saving(t, d, "finish") EXCEPT !.item = i, !.fin = f])
      /\ \A d, i, op, f : Resumes(t, [Saving(t, d, "op") EXCEPT !.item = i, !.op = op, !.fin = f])
  BY <1>0, AtResumesAs, SavingResumes DEF PCs, Outside, Acting
<1>3. PICK x : Resumes(t, x) /\ th' = [th EXCEPT ![t] = x]
  BY <1>2 DEF Apply, Step
<1>4. UNCHANGED <<run, lease>> /\ LeaseSpared(t)
  BY LeaseMoves DEF Apply, storeVars, fileVars
<1> QED
  BY <1>0, <1>1, <1>3, <1>4, ResumesMoves

LEMMA LoadYields ==
  ASSUME WorkersInv, OwnerInv, NEW t \in Threads, Load(t)
  PROVE  Yields(t)
<1>0. th[t] \in Memories /\ th[t].pc = "load" /\ Heading(th[t]) = "load" /\ th[t].job = "edit"
  BY DEF WorkersInv, Load, Heading, OwnerInv, Rightful, Nests
<1>1. th[t].tok # NoToken /\ th[t].a = 0 /\ (th[t].job = "edit" => lease # t)
  BY <1>0, OwnerFacts, ActingFacts, EditFacts DEF Outside, Acting
<1>2. Resumes(t, At(t, "resettle")) /\ \A d : Resumes(t, Saving(t, d, "edit"))
  BY <1>0, <1>1, AtResumes, SavingResumes DEF PCs, Outside
<1>3. PICK x : Resumes(t, x) /\ th' = [th EXCEPT ![t] = x]
  BY <1>2 DEF Load, Step
<1>4. UNCHANGED <<run, lease>> /\ LeaseSpared(t)
  BY LeaseMoves DEF Load, storeVars, fileVars
<1> QED
  BY <1>0, <1>1, <1>3, <1>4, ResumesMoves

LEMMA EditYields ==
  ASSUME WorkersInv, OwnerInv, NEW t \in Threads, Edit(t)
  PROVE  Yields(t)
<1>0. th[t] \in Memories /\ th[t].pc = "edit" /\ Heading(th[t]) = "edit" /\ th[t].job = "edit"
  BY DEF WorkersInv, Edit, Heading, OwnerInv, Rightful, Nests
<1>1. th[t].tok # NoToken /\ th[t].a = 0 /\ (th[t].job = "edit" => lease # t)
  BY <1>0, OwnerFacts, ActingFacts, EditFacts DEF Outside, Acting
<1>2. /\ \A d : Resumes(t, [At(t, "post") EXCEPT !.doc = d])
      /\ \A d : Resumes(t, Saving(t, d, "settle")) /\ Resumes(t, Saving(t, d, "resettle"))
  BY <1>0, <1>1, AtResumes, SavingResumes DEF PCs, Outside
<1>3. PICK x : Resumes(t, x) /\ th' = [th EXCEPT ![t] = x]
  BY <1>2 DEF Edit, Step
<1>4. UNCHANGED <<run, lease>> /\ (rev' = rev \/ CanLock(t))
  BY DEF Edit, storeVars, fileVars
<1>5. LeaseSpared(t)
  BY <1>4, LeaseMoves
<1> QED
  BY <1>0, <1>1, <1>3, <1>4, <1>5, ResumesMoves

LEMMA ValidateYields ==
  ASSUME WorkersInv, OwnerInv, NEW t \in Threads, Validate(t)
  PROVE  Yields(t)
<1>0. th[t] \in Memories /\ th[t].pc = "validate" /\ th[t].a # 0
  BY ThreadFacts DEF Validate, Needs
<1>1. th[t].tok # NoToken /\ th[t].job = "actions" /\ row.live /\ Nested(t)
  BY <1>0, ActingFacts, OnlyHolder DEF Nested
<1>2. Resumes(t, At(t, "scope")) /\ Resumes(t, At(t, "apply"))
  BY <1>0, AtResumes DEF PCs, Outside, Acting
<1>3. UNCHANGED <<run, rev>> /\ (lease' = lease \/ (CanLock(t) /\ lease' = t))
  BY <1>1 DEF Validate, ClearExpiredWorker, storeVars, fileVars, row
<1>4. LeaseSpared(t)
  BY <1>3, LeaseMoves
<1>5. \/ th' = [th EXCEPT ![t] = Refused(t)]
      \/ \E x : Resumes(t, x) /\ th' = [th EXCEPT ![t] = x]
  BY <1>1, <1>2 DEF Validate, ClearExpiredWorker, Step, row
<1>6. CASE th' = [th EXCEPT ![t] = Refused(t)]
  BY <1>0, <1>1, <1>3, <1>4, <1>6, RefusedYields
<1>7. CASE \E x : Resumes(t, x) /\ th' = [th EXCEPT ![t] = x]
  BY <1>0, <1>1, <1>3, <1>4, <1>7, ResumesMoves
<1> QED
  BY <1>5, <1>6, <1>7

-----------------------------------------------------------------------------
(* Closing and settling.                                                    *)

LEMMA ClosedIsFinished ==
  /\ \A d \in Documents : Finished(Closed(d))
  /\ Finished([Closed(NewDoc) EXCEPT !.initial = TRUE])
<1>1. ASSUME NEW d \in Documents PROVE Finished(Closed(d))
  BY DEF Finished, Closed, AllTerminal, Documents
<1>2. NewDoc \in Documents /\ Closed(NewDoc) \in Documents
  BY NewDocSound
<1>3. Finished([Closed(NewDoc) EXCEPT !.initial = TRUE])
  BY <1>1, <1>2 DEF Finished, AllTerminal, Documents
<1> QED
  BY <1>1, <1>3

LEMMA AdoptedIsScanned ==
  ASSUME NEW d \in Documents, rev \in [Items -> 0..MaxRev],
         NEW S \in SUBSET Items, {i \in Stale(d) : d.st[i] # "abandoned"} \subseteq S
  PROVE  Scanned(Adopted(d, S), rev)
<1>1. ASSUME NEW i \in Items
      PROVE  Adopted(d, S).st[i] = "abandoned" \/ Adopted(d, S).rev[i] = rev[i]
  BY DEF Adopted, Stale, Documents
<1> QED
  BY <1>1 DEF Scanned

\* A thread that closes goes on to save the closed document, or to report.
LEMMA EndsRightful ==
  ASSUME OwnerInv, NEW t \in Threads, th[t].pc = "close", NEW x,
         x.tok = th[t].tok, x.fin = th[t].fin, x.a = th[t].a, x.job = th[t].job, lease' = lease,
         \/ x.pc = "save" /\ x.next = "end" /\ Finished(x.doc)
         \/ x.pc = "end" /\ (row.doc # NoDoc => Finished(row.doc))
  PROVE  Rightful(t, x, row, lease', rev')
<1>1. x.a = 0
  BY ActingFacts DEF Heading, Acting
<1>2. Holder(th[t], row) /\ (th[t].job = "edit" => lease # t)
  BY EditFacts DEF OwnerInv, Rightful, Heading
<1>3. Holder(x, row)
  BY <1>2 DEF Holder, Ends, Outside
<1>4. x.tok # NoToken => row.status # "failed"
  BY OwnerFacts
<1>5. Nests(x)
  BY <1>1 DEF Nests, Heading
<1>6. Closes(x, row)
  BY <1>4 DEF Closes
<1>7. Scans(t, x, row, lease', rev')
  BY <1>2 DEF Scans, Heading
<1> QED
  BY <1>3, <1>5, <1>6, <1>7 DEF Rightful

LEMMA CloseYields ==
  ASSUME WorkersInv, OwnerInv, NEW t \in Threads, Close(t)
  PROVE  Yields(t)
<1> DEFINE w == th[t]
           d == IF row.doc # NoDoc THEN Closed(row.doc)
                ELSE IF w.fin = "cancelled" THEN [Closed(NewDoc) EXCEPT !.initial = TRUE]
                ELSE NoDoc
<1>0. w \in Memories /\ w.pc = "close" /\ row.doc \in Documents \cup {NoDoc}
  BY ThreadFacts DEF Close
<1>1. UNCHANGED <<run, lease>> /\ LeaseSpared(t)
  BY LeaseMoves DEF Close, storeVars, fileVars
<1>2. d # NoDoc => Finished(d)
  BY <1>0, ClosedIsFinished
<1>3. Step(t, IF d = row.doc THEN At(t, "end") ELSE Saving(t, d, "end"))
  BY DEF Close
<1>4. row.doc # NoDoc => d # NoDoc
  BY <1>0, ThreadFacts, DocsSound DEF WorkersInv
<1> HIDE DEF d
<1>5. CASE d = row.doc
  <2> DEFINE x == At(t, "end")
  <2>1. x.pc = "end" /\ x.tok = w.tok /\ x.fin = w.fin /\ x.a = w.a /\ x.job = w.job
    BY <1>0 DEF At, Memories
  <2>2. th' = [th EXCEPT ![t] = x]
    BY <1>3, <1>5 DEF Step
  <2> HIDE DEF x
  <2>3. Rightful(t, x, row, lease', rev')
    BY <1>0, <1>1, <1>2, <1>5, <2>1, EndsRightful
  <2> QED
    BY <1>1, <2>1, <2>2, <2>3, RightfulMoves
<1>6. CASE d # row.doc
  <2> DEFINE x == Saving(t, d, "end")
  <2>0. d # NoDoc
    BY <1>4, <1>6
  <2>1. /\ x.pc = "save" /\ x.next = "end" /\ x.doc = d
        /\ x.tok = w.tok /\ x.fin = w.fin /\ x.a = w.a /\ x.job = w.job
    BY <1>0, SavesFields
  <2>2. th' = [th EXCEPT ![t] = x]
    BY <1>3, <1>6 DEF Step
  <2> HIDE DEF x
  <2>3. Rightful(t, x, row, lease', rev')
    BY <1>0, <1>1, <1>2, <2>0, <2>1, EndsRightful
  <2> QED
    BY <1>1, <2>1, <2>2, <2>3, RightfulMoves
<1> QED
  BY <1>5, <1>6

LEMMA FinallyYields ==
  ASSUME WorkersInv, OwnerInv, NEW t \in Threads, Finally(t)
  PROVE  Yields(t)
<1>0. th[t] \in Memories /\ th[t].pc \in {"post", "leave"} /\ Heading(th[t]) \notin Acting
      /\ (th[t].job = "edit" => lease # t)
  BY EditFacts DEF WorkersInv, Finally, Heading, Acting
<1>1. th[t].a = 0
  BY <1>0, ActingFacts
<1>2. UNCHANGED <<run, rev>> /\ (lease' = lease \/ Unlock(t)) /\ LeaseSpared(t)
  BY LeaseMoves DEF Finally, storeVars, fileVars
<1>3. CASE row.cancel
  <2>1. th' = [th EXCEPT ![t] = Closing(t, "cancelled")] /\ lease' = lease
    BY <1>3 DEF Finally, Step
  <2> QED
    BY <1>0, <1>2, <1>3, <2>1, ClosingYields
<1>4. CASE ~row.cancel /\ th[t].pc = "post"
  <2>1. th' = [th EXCEPT ![t] = [At(t, "release") EXCEPT !.doc = NoDoc]] /\ lease' = lease
    BY <1>4 DEF Finally, Step
  <2>2. Resumes(t, [At(t, "release") EXCEPT !.doc = NoDoc])
    BY <1>0, <1>1, AtResumes DEF PCs, Outside
  <2>3. th[t].tok # NoToken
    BY <1>4, OwnerFacts DEF Outside
  <2> QED
    BY <1>0, <1>2, <1>4, <2>1, <2>2, <2>3, ResumesMoves
<1>5. CASE ~row.cancel /\ th[t].pc # "post"
  <2>1. th' = [th EXCEPT ![t] = Idle] /\ Unlock(t)
    BY <1>1, <1>5 DEF Finally, Step, Nested
  <2>2. lease' # t
    BY <1>2, <2>1, LeaseMoves
  <2> QED
    BY <1>2, <2>1, <2>2, IdleYields
<1> QED
  BY <1>3, <1>4, <1>5

\* The scan begins under the lease.
LEMMA SealedRightful ==
  ASSUME OwnerInv, NEW t \in Threads, th[t].pc = "settle", NEW x,
         x.tok = th[t].tok, x.a = 0, lease' = t, rev' = rev,
         \/ x.pc = "save" /\ x.next = "sealed" /\ Scanned(x.doc, rev)
         \/ x.pc = "sealed" /\ Scanned(row.doc, rev)
  PROVE  Rightful(t, x, row, lease', rev')
<1>1. x.tok # NoToken /\ row.token = x.tok /\ row.live /\ row.status # "failed"
  BY OwnerFacts DEF Outside
<1>2. Holder(x, row) /\ Nests(x) /\ Closes(x, row)
  BY <1>1 DEF Holder, Nests, Closes, Outside, Heading
<1>3. Scans(t, x, row, lease', rev')
  BY DEF Scans, Heading
<1> QED
  BY <1>2, <1>3 DEF Rightful

LEMMA SettleYields ==
  ASSUME WorkersInv, OwnerInv, NEW t \in Threads, Settle(t)
  PROVE  Yields(t)
<1> DEFINE w == th[t]
           d == row.doc
           S == {i \in Stale(d) : d.st[i] # "abandoned"}
<1>0. /\ w \in Memories /\ w.pc = "settle" /\ Heading(w) = "settle" /\ d \in Documents
      /\ rev \in [Items -> 0..MaxRev]
  BY ThreadFacts DEF Settle, Needs, Heading, WorkersInv, FilesOK
<1>1. w.tok # NoToken /\ w.a = 0 /\ (w.job = "edit" => lease # t)
  BY <1>0, OwnerFacts, ActingFacts, EditFacts DEF Outside, Acting
<1>2. UNCHANGED <<run, rev>> /\ (lease' = lease \/ (CanLock(t) /\ lease' = t)) /\ LeaseSpared(t)
  BY LeaseMoves DEF Settle, storeVars, fileVars
<1>3. CASE CanLock(t) /\ S = {}
  <2> DEFINE x == [At(t, "sealed") EXCEPT !.doc = NoDoc]
  <2>1. x.pc = "sealed" /\ x.tok = w.tok /\ x.a = w.a
    BY <1>0 DEF At, Memories
  <2>2. th' = [th EXCEPT ![t] = x] /\ lease' = t
    BY <1>3 DEF Settle, Step
  <2>3. Scanned(row.doc, rev)
    BY <1>0, <1>3 DEF Scanned, Stale
  <2> HIDE DEF x
  <2>4. Rightful(t, x, row, lease', rev')
    BY <1>0, <1>1, <1>2, <2>1, <2>2, <2>3, SealedRightful
  <2> QED
    BY <1>2, <2>1, <2>2, <2>4, RightfulMoves
<1>4. CASE CanLock(t) /\ S # {}
  <2> DEFINE x == Saving(t, Adopted(d, S), "sealed")
  <2>1. x.pc = "save" /\ x.next = "sealed" /\ x.doc = Adopted(d, S) /\ x.tok = w.tok /\ x.a = w.a
    BY <1>0, SavesFields
  <2>2. th' = [th EXCEPT ![t] = x] /\ lease' = t
    BY <1>4 DEF Settle, Step
  <2>3. Scanned(Adopted(d, S), rev)
    <3>1. S \in SUBSET Items
      BY DEF Stale
    <3> QED
      BY <1>0, <3>1, AdoptedIsScanned
  <2> HIDE DEF x, S
  <2>4. Rightful(t, x, row, lease', rev')
    BY <1>0, <1>1, <1>2, <2>1, <2>2, <2>3, SealedRightful
  <2> QED
    BY <1>2, <2>1, <2>2, <2>4, RightfulMoves
<1>5. CASE ~CanLock(t)
  <2>1. w.job = "edit" => Resumes(t, [At(t, "resettle") EXCEPT !.doc = NoDoc])
    BY <1>0, <1>1, AtResumes DEF PCs, Outside
  <2>3. Resumes(t, [At(t, "release") EXCEPT !.fin = "busy", !.doc = NoDoc])
    BY <1>0, <1>1, AtResumesAs DEF PCs, Outside
  <2>2. lease' = lease /\ \E x : Resumes(t, x) /\ th' = [th EXCEPT ![t] = x]
    BY <1>5, <2>1, <2>3 DEF Settle, Step
  <2> QED
    BY <1>0, <1>1, <1>2, <2>2, ResumesMoves
<1> QED
  BY <1>3, <1>4, <1>5

-----------------------------------------------------------------------------
(* Steps that write to the store.                                           *)

\* No thread holds a token that is gone, has run out or is nobody's.
LEMMA NobodyHolds ==
  ASSUME OwnerInv, row.token = NoToken \/ ~row.live \/ Orphaned
  PROVE  Tokenless(Threads)
BY DEF Tokenless, OwnerInv, Rightful, Holder, Orphaned

\* Nobody else holds the token: t may write what it likes.
LEMMA AloneYields ==
  ASSUME WorkersInv, OwnerInv, NEW t \in Threads, NEW x, th' = [th EXCEPT ![t] = x],
         Tokenless(Threads \ {t}), LeaseSpared(t), row.cancel => row'.cancel,
         Settles(row'), Rightful(t, x, row', lease', rev')
  PROVE  Yields(t)
<1>1. th'[t] = x /\ \A s \in Threads \ {t} : th'[s] = th[s]
  BY DEF WorkersInv
<1>2. Spares(Threads \ {t})
  BY <1>1 DEF Spares, LeaseSpared
<1>3. x.tok = NoToken \/ \A s \in Threads \ {t} : th[s].tok # x.tok
  BY DEF Tokenless
<1> QED
  BY <1>1, <1>2, <1>3 DEF Yields

\* A thread without the token writes: at most the document of a cancelled run.
LEMMA OutsiderWrites ==
  ASSUME WorkersInv, OwnerInv, NEW t \in Threads, NEW x, th' = [th EXCEPT ![t] = x],
         LeaseSpared(t), row'.token = row.token, row'.live = row.live, row.cancel => row'.cancel,
         row'.doc = row.doc \/ (row'.cancel /\ Finished(row'.doc)),
         row'.status = "failed" => row.status = "failed", row'.status # "absent",
         Rightful(t, x, row', lease', rev'), x.tok = NoToken
  PROVE  Yields(t)
<1>1. th'[t] = x /\ \A s \in Threads \ {t} : th'[s] = th[s]
  BY DEF WorkersInv
<1>2. Spares(Threads \ {t})
  BY <1>1 DEF Spares, LeaseSpared
<1>3. Settles(row')
  BY DEF OwnerInv, Settles
<1> QED
  BY <1>1, <1>2, <1>3 DEF Yields

\* The owner writes and goes on to where it has nothing to keep.
LEMMA OwnerStores ==
  ASSUME WorkersInv, OwnerInv, NEW t \in Threads, NEW x, th' = [th EXCEPT ![t] = x],
         th[t].tok # NoToken, LeaseSpared(t),
         row'.token = row.token, row'.live = row.live, row.cancel => row'.cancel,
         row'.status \notin {"failed", "absent"}, Resumes(t, x),
         th[t].job = "edit" => lease' # t
  PROVE  Yields(t)
<1>1. row.token = th[t].tok /\ row.live
  BY OwnerFacts
<1>2. /\ x.tok = th[t].tok /\ x.job = th[t].job /\ x.a \in {0, th[t].a} /\ Plainly(x)
      /\ x.a # 0 => Heading(x) \in Acting
  BY DEF Resumes
<1>3. Nests(x)
  BY <1>2, ActingFacts DEF Nests, Plainly
<1>4. Rightful(t, x, row', lease', rev')
  BY <1>1, <1>2, <1>3, PlainlyRightful
<1>5. Settles(row')
  BY DEF Settles
<1> QED
  BY <1>2, <1>4, <1>5, OwnerWrites

LEMMA SaveFacts ==
  ASSUME WorkersInv, NEW tok, NEW d, NEW step \in StepStatuses, NEW initial, NEW pending,
         SaveState(R, tok, d, step, initial, pending)
  PROVE  /\ row'.token = row.token /\ row'.live = row.live /\ row'.cancel = row.cancel
         /\ row'.doc = d
         /\ row'.status = "failed" => row.status = "failed"
         /\ row.status # "absent" /\ row'.status # "absent"
<1>1. R \in Runs /\ run \in [Runs -> Rows] /\ row \in Rows
  BY RowTyped
<1>2. row' = Saved(row, tok, d, step, initial, pending) /\ row.status # "absent"
  BY <1>1 DEF SaveState, row, Exists
<1>3. WantedStatus(tok, step, initial, pending) \in {"running", "completed", "awaiting_action"}
  BY DEF WantedStatus
<1> DEFINE r == Saved(row, tok, d, step, initial, pending)
<1>4. r.token = row.token /\ r.live = row.live /\ r.cancel = row.cancel /\ r.doc = d
  BY <1>1 DEF Saved, Rows
<1>5. r.status \in {row.status, "cancelling", WantedStatus(tok, step, initial, pending)}
  BY <1>1 DEF Saved, Rows
<1> QED
  BY <1>2, <1>3, <1>4, <1>5

LEMMA UpdateFacts ==
  ASSUME WorkersInv, NEW tok, NEW s, s # "absent", UpdateStatus(R, tok, s)
  PROVE  /\ row'.token = row.token /\ row'.live = row.live /\ row'.cancel = row.cancel
         /\ row'.doc = row.doc
         /\ row'.status = "failed" => row.status = "failed" \/ s = "failed"
         /\ row.status # "absent" /\ row'.status # "absent"
<1>1. R \in Runs /\ run \in [Runs -> Rows] /\ row \in Rows
  BY RowTyped
<1>2. row' = Marked(row, s) /\ row.status # "absent"
  BY <1>1 DEF UpdateStatus, row, Exists
<1> DEFINE P(r) == /\ r.token = row.token /\ r.live = row.live /\ r.cancel = row.cancel
                   /\ r.doc = row.doc
<1>3. P(MarkedFailed(row)) /\ MarkedFailed(row).status # "absent"
  BY <1>1, <1>2 DEF MarkedFailed, Rows
<1>4. P(MarkedCancelled(row)) /\ MarkedCancelled(row).status \in {row.status, "cancelled"}
  BY <1>1 DEF MarkedCancelled, Rows
<1>5. P(MarkedOther(row, s)) /\ MarkedOther(row, s).status \in {row.status, "cancelling", s}
  BY <1>1 DEF MarkedOther, Rows
<1> HIDE DEF P
<1>6. P(Marked(row, s)) /\ Marked(row, s).status # "absent"
      /\ (Marked(row, s).status = "failed" => row.status = "failed" \/ s = "failed")
  BY <1>2, <1>3, <1>4, <1>5 DEF Marked
<1> QED
  BY <1>2, <1>6 DEF P

LEMMA StepOfRange == \A d : StepOf(d) \in StepStatuses
BY DEF StepOf, StepStatuses

LEMMA SaveYields ==
  ASSUME WorkersInv, OwnerInv, NEW t \in Threads, Save(t)
  PROVE  Yields(t)
<1> DEFINE w == th[t]
           d == w.doc
           nxt == IF AllTerminal(d) THEN w.next ELSE "mark"
           x == At(t, nxt)
<1>0. /\ w \in Memories /\ w.pc = "save" /\ Heading(w) = w.next
      /\ w.next \in {"loop", "settle", "op", "analyze", "finish", "next", "post", "sealed",
                     "edit", "resettle", "end"}
  BY ThreadFacts DEF Save, Headed, Heading
<1>1. SaveState(R, w.tok, d, StepOf(d), d.initial, Queue(R) # {}) /\ th' = [th EXCEPT ![t] = x]
      /\ rev' = rev /\ lease' = lease
  BY DEF Save, Step, fileVars
<1>2. /\ row'.token = row.token /\ row'.live = row.live /\ row'.cancel = row.cancel
      /\ row'.doc = d
      /\ row'.status = "failed" => row.status = "failed"
      /\ row.status # "absent" /\ row'.status # "absent"
  BY <1>1, StepOfRange, SaveFacts
<1>3. LeaseSpared(t)
  BY <1>1, LeaseMoves
<1>4. /\ x.pc = nxt /\ x.next = w.next /\ x.tok = w.tok /\ x.job = w.job /\ x.a = w.a
      /\ x.fin = w.fin
  BY <1>0 DEF At, Memories
<1>5. Holder(w, row) /\ Nests(w) /\ Closes(w, row) /\ Scans(t, w, row, lease, rev)
  BY DEF OwnerInv, Rightful
<1>6. w.next = "end" => nxt = "end" /\ Finished(d)
  BY <1>0, <1>5 DEF Closes, Finished
<1>7. nxt \in {w.next, "mark"}
  OBVIOUS
<1> HIDE DEF x, nxt
<1>8. Heading(x) = w.next
  BY <1>0, <1>4, <1>7 DEF Heading
<1>9. Nests(x)
  BY <1>0, <1>4, <1>5, <1>7, <1>8 DEF Nests
<1>10. Scans(t, x, row', lease', rev')
  <2>1. x.pc \notin {"work", "save", "complete", "idle", "route"}
    BY <1>0, <1>4, <1>7
  <2>2. x.pc = "sealed" \/ (x.pc = "mark" /\ x.next = "sealed") => Scanned(row'.doc, rev')
    BY <1>0, <1>1, <1>2, <1>4, <1>5, <1>7 DEF Scans
  <2> QED
    BY <1>0, <1>1, <1>4, <1>5, <1>8, <2>1, <2>2 DEF Scans
<1>11. CASE w.tok # NoToken
  <2>1. row.status # "failed"
    BY <1>0, <1>11, OwnerFacts
  <2>2. Settles(row')
    BY <1>2, <2>1 DEF Settles
  <2>3. Holder(x, row')
    BY <1>0, <1>2, <1>4, <1>5, <1>7, <1>11 DEF Holder, Outside
  <2>4. Closes(x, row')
    BY <1>0, <1>2, <1>4, <1>6, <1>7, <2>1 DEF Closes
  <2> QED
    BY <1>1, <1>2, <1>3, <1>4, <1>9, <1>10, <1>11, <2>2, <2>3, <2>4, OwnerWrites DEF Rightful
<1>12. CASE w.tok = NoToken
  <2>1. row.cancel /\ w.next = "end" /\ w.fin = "cancelled"
    BY <1>0, <1>5, <1>12 DEF Holder, Ends, Outside
  <2>2. x.pc = "end" /\ Finished(row'.doc)
    BY <1>2, <1>4, <1>6, <2>1
  <2>3. Holder(x, row') /\ Closes(x, row')
    BY <1>2, <1>4, <1>12, <2>1, <2>2 DEF Holder, Ends, Closes
  <2> QED
    BY <1>1, <1>2, <1>3, <1>4, <1>9, <1>10, <1>12, <2>1, <2>2, <2>3, OutsiderWrites DEF Rightful
<1> QED
  BY <1>11, <1>12

LEMMA MarkYields ==
  ASSUME WorkersInv, OwnerInv, NEW t \in Threads, Mark(t)
  PROVE  Yields(t)
<1> DEFINE w == th[t]
           x == At(t, w.next)
<1>0. /\ w \in Memories /\ w.pc = "mark" /\ Heading(w) = w.next
      /\ w.next \in {"loop", "settle", "op", "analyze", "finish", "next", "post", "sealed",
                     "edit", "resettle", "end"}
  BY ThreadFacts DEF Mark, Headed, Heading
<1>1. UpdateStatus(R, w.tok, StepOf(w.doc)) /\ th' = [th EXCEPT ![t] = x]
      /\ rev' = rev /\ lease' = lease
  BY DEF Mark, Step, fileVars
<1>2. StepOf(w.doc) \notin {"absent", "failed"}
  BY StepOfRange DEF StepStatuses
<1>3. w.tok # NoToken /\ row.token = w.tok /\ row.live /\ row.status # "failed"
  BY <1>0, OwnerFacts DEF Outside
<1>4. /\ row'.token = row.token /\ row'.live = row.live /\ row'.cancel = row.cancel
      /\ row'.doc = row.doc /\ row'.status \notin {"failed", "absent"}
  BY <1>1, <1>2, <1>3, UpdateFacts
<1>5. LeaseSpared(t)
  BY <1>1, LeaseMoves
<1>6. x.pc = w.next /\ x.next = w.next /\ x.tok = w.tok /\ x.job = w.job /\ x.a = w.a
  BY <1>0 DEF At, Memories
<1>7. Nests(w) /\ Closes(w, row) /\ Scans(t, w, row, lease, rev)
  BY DEF OwnerInv, Rightful
<1> HIDE DEF x
<1>8. Heading(x) = w.next
  BY <1>0, <1>6 DEF Heading
<1>9. Holder(x, row') /\ Nests(x)
  BY <1>0, <1>3, <1>4, <1>6, <1>7, <1>8 DEF Holder, Nests, Outside
<1>10. Closes(x, row')
  BY <1>0, <1>4, <1>6, <1>7 DEF Closes
<1>11. Scans(t, x, row', lease', rev')
  BY <1>0, <1>1, <1>4, <1>6, <1>7, <1>8 DEF Scans
<1>12. Settles(row')
  BY <1>4 DEF Settles
<1> QED
  BY <1>1, <1>3, <1>4, <1>5, <1>6, <1>9, <1>10, <1>11, <1>12, OwnerWrites DEF Rightful

LEMMA ResyncYields ==
  ASSUME WorkersInv, OwnerInv, NEW t \in Threads, Resync(t)
  PROVE  Yields(t)
<1> DEFINE w == th[t]
           x == [At(t, w.next) EXCEPT !.doc = NoDoc]
<1>0. /\ w \in Memories /\ w.pc = "resync" /\ Heading(w) = w.next
      /\ w.next \in {"close", "resume", "recover"}
  BY ThreadFacts DEF Resync, Headed, Heading
<1>1. w.tok # NoToken /\ w.a = 0 /\ row.status # "failed"
  BY <1>0, OwnerFacts, ActingFacts DEF Outside, Acting
<1>2. /\ SaveState(R, w.tok, w.doc, "running", w.doc.initial, Queue(R) # {})
      /\ th' = [th EXCEPT ![t] = x] /\ Unlock(t) /\ rev' = rev
  BY DEF Resync, Step, fileVars
<1>3. LeaseSpared(t) /\ lease' # t
  BY <1>2, LeaseMoves
<1>4. "running" \in StepStatuses
  BY DEF StepStatuses
<1>5. /\ row'.token = row.token /\ row'.live = row.live /\ row'.cancel = row.cancel
      /\ row'.status \notin {"failed", "absent"}
  BY <1>1, <1>2, <1>4, SaveFacts
<1>6. Resumes(t, x)
  BY <1>0, <1>1, AtResumes DEF PCs, Outside
<1> HIDE DEF x
<1> QED
  BY <1>1, <1>2, <1>3, <1>5, <1>6, OwnerStores

LEMMA FailYields ==
  ASSUME WorkersInv, OwnerInv, NEW t \in Threads, Fail(t)
  PROVE  Yields(t)
<1> DEFINE w == th[t]
<1>0. w \in Memories /\ w.pc = "fail" /\ Heading(w) = "fail"
  BY DEF WorkersInv, Fail, Heading
<1>1. w.tok # NoToken /\ w.a = 0 /\ row.status # "failed" /\ (w.job = "edit" => lease # t)
  BY <1>0, OwnerFacts, ActingFacts, EditFacts DEF Outside, Acting
<1>2. UpdateStatus(R, w.tok, "failing") /\ lease' = lease /\ rev' = rev
  BY DEF Fail, fileVars
<1>3. /\ row'.token = row.token /\ row'.live = row.live /\ row'.cancel = row.cancel
      /\ row'.status \notin {"failed", "absent"}
  BY <1>1, <1>2, UpdateFacts
<1>4. /\ Resumes(t, Closing(t, "failed")) /\ Resumes(t, Closing(t, "cancelled"))
      /\ Resumes(t, At(t, "release"))
  BY <1>0, <1>1, ClosingResumes, AtResumes DEF PCs, Outside
<1>5. PICK x : Resumes(t, x) /\ th' = [th EXCEPT ![t] = x]
  BY <1>4 DEF Fail, Step
<1>6. LeaseSpared(t)
  BY <1>2, LeaseMoves
<1> QED
  BY <1>1, <1>2, <1>3, <1>5, <1>6, OwnerStores

LEMMA EndYields ==
  ASSUME WorkersInv, OwnerInv, NEW t \in Threads, End(t)
  PROVE  Yields(t)
<1> DEFINE w == th[t]
<1>0. /\ w \in Memories /\ w.pc = "end" /\ Heading(w) = "end" /\ w.fin \in {"failed", "cancelled"}
      /\ (w.job = "edit" => lease # t)
  BY ThreadFacts, EditFacts DEF End, Headed, Heading
<1>1. w.a = 0
  BY <1>0, ActingFacts DEF Acting
<1>2. UpdateStatus(R, w.tok, w.fin) /\ rev' = rev /\ (lease' = lease \/ Unlock(t))
  BY DEF End, fileVars
<1>3. /\ row'.token = row.token /\ row'.live = row.live /\ row'.cancel = row.cancel
      /\ row'.doc = row.doc
      /\ row'.status = "failed" => row.status = "failed" \/ w.fin = "failed"
      /\ row'.status # "absent"
  BY <1>0, <1>2, UpdateFacts
<1>4. LeaseSpared(t) /\ (Unlock(t) => lease' # t)
  BY <1>2, LeaseMoves
<1>5. CASE w.tok = NoToken
  <2>1. row.cancel /\ w.fin = "cancelled"
    BY <1>0, <1>5 DEF OwnerInv, Rightful, Holder, Ends, Outside
  <2>2. th' = [th EXCEPT ![t] = Idle] /\ Unlock(t)
    BY <1>0, <1>1, <1>5, <2>1 DEF End, Step, Nested
  <2>3. Idle.tok = NoToken /\ Idle.a = 0 /\ Idle.pc = "idle"
    BY DEF Idle
  <2>4. Rightful(t, Idle, row', lease', rev')
    BY <1>4, <2>2, <2>3 DEF Rightful, Holder, Nests, Closes, Scans, Heading, Outside
  <2> QED
    BY <1>3, <1>4, <2>1, <2>2, <2>3, <2>4, OutsiderWrites
<1>6. CASE w.tok # NoToken /\ w.fin = "failed" /\ row'.status = "cancelling"
  <2>1. th' = [th EXCEPT ![t] = Closing(t, "cancelled")] /\ lease' = lease
    BY <1>6 DEF End, Step, row
  <2>2. Resumes(t, Closing(t, "cancelled"))
    BY <1>0, <1>1, ClosingResumes
  <2> QED
    BY <1>0, <1>3, <1>4, <1>6, <2>1, <2>2, OwnerStores
<1>7. CASE w.tok # NoToken /\ ~(w.fin = "failed" /\ row'.status = "cancelling")
  <2> DEFINE x == [At(t, "release") EXCEPT !.doc = NoDoc]
  <2>1. th' = [th EXCEPT ![t] = x] /\ lease' = lease
    BY <1>7 DEF End, Step, row
  <2>2. x.pc = "release" /\ x.tok = w.tok /\ x.job = w.job /\ x.a = w.a /\ x.fin = w.fin
    BY <1>0 DEF At, Memories
  <2> HIDE DEF x
  <2>3. row.token = w.tok /\ row.live /\ row.status # "failed"
    BY <1>0, <1>7, OwnerFacts
  <2>4. row.doc # NoDoc => Finished(row.doc)
    BY <1>0, <1>7 DEF OwnerInv, Rightful, Closes
  <2>5. Settles(row')
    BY <1>3, <2>4 DEF Settles
  <2>6. Holder(x, row') /\ Nests(x)
    BY <1>1, <1>3, <1>7, <2>2, <2>3 DEF Holder, Nests, Outside, Heading
  <2>7. Closes(x, row')
    BY <1>3, <2>2, <2>3 DEF Closes
  <2>8. Scans(t, x, row', lease', rev')
    BY <1>0, <2>1, <2>2 DEF Scans, Heading
  <2> QED
    BY <1>3, <1>4, <1>7, <2>1, <2>2, <2>5, <2>6, <2>7, <2>8, OwnerWrites DEF Rightful
<1> QED
  BY <1>5, <1>6, <1>7

LEMMA AfterSettleResumes ==
  ASSUME NEW t \in Threads, th[t] \in Memories, th[t].a = 0
  PROVE  Resumes(t, AfterSettle(t))
<1>1. Resumes(t, At(t, "post")) /\ Resumes(t, At(t, "release"))
  BY AtResumes DEF PCs, Outside
<1> QED
  BY <1>1 DEF AfterSettle

LEMMA SealYields ==
  ASSUME WorkersInv, OwnerInv, NEW t \in Threads, Seal(t)
  PROVE  Yields(t)
<1> DEFINE w == th[t]
           d == row.doc
           s == IF AllTerminal(d) THEN "succeeded" ELSE "awaiting_action"
<1>0. /\ w \in Memories /\ w.pc \in {"sealed", "resettle"} /\ Heading(w) = w.pc
      /\ w.pc # "release"
  BY DEF WorkersInv, Seal, Heading
<1>1. w.tok # NoToken /\ w.a = 0 /\ row.token = w.tok /\ row.live /\ row.status # "failed"
  BY <1>0, OwnerFacts, ActingFacts DEF Outside, Acting
<1>2. rev' = rev /\ (lease' = lease \/ Unlock(t))
  BY DEF Seal, fileVars
<1>3. LeaseSpared(t) /\ (Unlock(t) => lease' # t)
  BY <1>2, LeaseMoves
<1>4. Resumes(t, AfterSettle(t)) /\ Resumes(t, At(t, "post")) /\ Resumes(t, Closing(t, "cancelled"))
  BY <1>0, <1>1, AfterSettleResumes, AtResumes, ClosingResumes DEF PCs, Outside
<1>5. CASE row.cancel \/ d = NoDoc
  <2>1. Unlock(t) /\ UNCHANGED run /\ \E x : Resumes(t, x) /\ th' = [th EXCEPT ![t] = x]
    BY <1>4, <1>5 DEF Seal, Step, storeVars
  <2> QED
    BY <1>0, <1>1, <1>3, <2>1, ResumesMoves
<1>6. CASE ~row.cancel /\ d # NoDoc
  <2>1. SaveState(R, w.tok, d, s, d.initial, Queue(R) # {})
    BY <1>6 DEF Seal
  <2>2. s \in StepStatuses
    BY DEF StepStatuses
  <2> HIDE DEF s
  <2>3. /\ row'.token = row.token /\ row'.live = row.live /\ row'.cancel = row.cancel
        /\ row'.doc = row.doc /\ row'.status \notin {"failed", "absent"}
    BY <1>1, <2>1, <2>2, SaveFacts
  <2>4. CASE ~AllTerminal(d)
    <3>1. th' = [th EXCEPT ![t] = AfterSettle(t)] /\ Unlock(t)
      BY <1>6, <2>4 DEF Seal, Step
    <3> QED
      BY <1>1, <1>3, <1>4, <2>3, <3>1, OwnerStores
  <2>5. CASE AllTerminal(d)
    <3> DEFINE x == At(t, "complete")
    <3>1. th' = [th EXCEPT ![t] = x] /\ lease' = lease
      BY <1>6, <2>5 DEF Seal, Step
    <3>2. x.pc = "complete" /\ x.tok = w.tok /\ x.job = w.job /\ x.a = w.a
      BY <1>0 DEF At, Memories
    <3> HIDE DEF x
    <3>3. Holder(x, row') /\ Nests(x) /\ Closes(x, row')
      BY <1>1, <2>3, <3>2 DEF Holder, Nests, Closes, Outside, Heading
    <3>4. lease = t => Scanned(row.doc, rev)
      BY <1>0, <1>6, EditFacts DEF OwnerInv, Rightful, Scans, Nests
    <3>5. Scans(t, x, row', lease', rev')
      BY <1>2, <2>3, <2>5, <3>1, <3>2, <3>4 DEF Scans, Heading
    <3>6. Settles(row')
      BY <2>3 DEF Settles
    <3> QED
      BY <1>1, <1>3, <2>3, <3>1, <3>2, <3>3, <3>5, <3>6, OwnerWrites DEF Rightful
  <2> QED
    BY <2>4, <2>5
<1> QED
  BY <1>5, <1>6

LEMMA CompleteYields ==
  ASSUME WorkersInv, OwnerInv, NEW t \in Threads, Complete(t)
  PROVE  Yields(t)
<1> DEFINE w == th[t]
<1>0. w \in Memories /\ w.pc = "complete" /\ Heading(w) = "complete"
  BY DEF WorkersInv, Complete, Heading
<1>1. w.tok # NoToken /\ w.a = 0 /\ row.status # "failed"
  BY <1>0, OwnerFacts, ActingFacts DEF Outside, Acting
<1>2. /\ UpdateStatus(R, w.tok, "completed") /\ Unlock(t) /\ rev' = rev
      /\ th' = [th EXCEPT ![t] = AfterSettle(t)]
  BY DEF Complete, Step, fileVars
<1>3. /\ row'.token = row.token /\ row'.live = row.live /\ row'.cancel = row.cancel
      /\ row'.status \notin {"failed", "absent"}
  BY <1>1, <1>2, UpdateFacts
<1>4. LeaseSpared(t) /\ lease' # t
  BY <1>2, LeaseMoves
<1>5. Resumes(t, AfterSettle(t))
  BY <1>0, <1>1, AfterSettleResumes
<1> QED
  BY <1>1, <1>2, <1>3, <1>4, <1>5, OwnerStores

LEMMA FinishYields ==
  ASSUME WorkersInv, OwnerInv, NEW t \in Threads, Finish(t)
  PROVE  Yields(t)
<1> DEFINE w == th[t]
           x == [At(t, "beat") EXCEPT !.a = 0, !.doc = NoDoc, !.item = NoItem,
                                      !.op = "none", !.fin = "none", !.next = "none"]
<1>0. w \in Memories /\ w.pc = "finish" /\ w.job = "actions"
  BY ThreadFacts DEF Finish, Headed, Heading
<1>1. w.tok # NoToken
  BY <1>0, OwnerFacts DEF Outside
<1>2. th' = [th EXCEPT ![t] = x] /\ UNCHANGED <<run, rev, lease>>
  BY DEF Finish, Step, fileVars, FinishAction
<1>3. x.pc = "beat" /\ x.tok = w.tok /\ x.job = w.job /\ x.a = 0
  BY <1>0 DEF At, Memories
<1> HIDE DEF x
<1>4. Resumes(t, x)
  BY <1>3 DEF Resumes, Plainly, Outside, Heading
<1>5. LeaseSpared(t)
  BY <1>2, LeaseMoves
<1> QED
  BY <1>0, <1>1, <1>2, <1>4, <1>5, ResumesMoves

LEMMA NextActionYields ==
  ASSUME WorkersInv, OwnerInv, NEW t \in Threads, NextAction(t)
  PROVE  Yields(t)
<1> DEFINE w == th[t]
<1>0. w \in Memories /\ w.pc = "next" /\ Heading(w) = "next" /\ w.job = "actions"
  BY ThreadFacts DEF NextAction, Headed, Heading
<1>1. w.tok # NoToken /\ w.a = 0 /\ row.token = w.tok /\ row.live /\ row.status # "failed"
  BY <1>0, OwnerFacts, ActingFacts DEF Outside, Acting
<1>2. UNCHANGED <<run, rev, lease>>
  BY DEF NextAction, fileVars, storeVars, ClaimNextAction
<1>3. LeaseSpared(t)
  BY <1>2, LeaseMoves
<1>4. CASE th' = [th EXCEPT ![t] = Closing(t, "cancelled")]
  <2>1. Resumes(t, Closing(t, "cancelled"))
    BY <1>0, <1>1, ClosingResumes
  <2> QED
    BY <1>0, <1>1, <1>2, <1>3, <1>4, <2>1, ResumesMoves
<1>5. ASSUME NEW a \in Actions,
             th' = [th EXCEPT ![t] = [At(t, "validate") EXCEPT !.a = a, !.doc = NoDoc, !.fin = "none"]]
      PROVE  Yields(t)
  <2> DEFINE x == [At(t, "validate") EXCEPT !.a = a, !.doc = NoDoc, !.fin = "none"]
  <2>1. x.pc = "validate" /\ x.tok = w.tok /\ x.job = w.job /\ x.a = a
    BY <1>0 DEF At, Memories
  <2>2. th' = [th EXCEPT ![t] = x]
    BY <1>5
  <2> HIDE DEF x
  <2>3. Plainly(x) /\ Nests(x)
    BY <1>0, <1>1, <2>1 DEF Plainly, Nests, Outside, Heading, Acting
  <2>4. Rightful(t, x, row, lease', rev')
    BY <1>0, <1>1, <2>1, <2>3, PlainlyRightful
  <2> QED
    BY <1>1, <1>2, <1>3, <2>1, <2>2, <2>4, OwnerGoesOn
<1>6. CASE th' = [th EXCEPT ![t] = [At(t, "settle") EXCEPT !.doc = NoDoc, !.fin = "none"]]
  <2> DEFINE x == [At(t, "settle") EXCEPT !.doc = NoDoc, !.fin = "none"]
  <2>1. x.pc = "settle" /\ x.tok = w.tok /\ x.job = w.job /\ x.a = w.a
    BY <1>0 DEF At, Memories
  <2>2. th' = [th EXCEPT ![t] = x]
    BY <1>6
  <2> HIDE DEF x
  <2>3. Resumes(t, x)
    BY <1>1, <2>1 DEF Resumes, Plainly, Outside, Heading
  <2> QED
    BY <1>0, <1>1, <1>2, <1>3, <2>2, <2>3, ResumesMoves
<1> QED
  BY <1>1, <1>4, <1>5, <1>6 DEF NextAction, Step

LEMMA BeatYields ==
  ASSUME WorkersInv, OwnerInv, NEW t \in Threads, Beat(t)
  PROVE  Yields(t)
<1> DEFINE w == th[t]
<1>0. w \in Memories /\ w.pc = "beat" /\ Heading(w) = "beat" /\ w.job = "actions"
  BY ThreadFacts DEF Beat, Headed, Heading
<1>1. /\ w.tok # NoToken /\ w.a = 0 /\ row.token = w.tok /\ row.live
      /\ row.status \notin {"failed", "absent"}
  BY <1>0, OwnerFacts, ActingFacts DEF Outside, Acting
<1>2. UNCHANGED <<rev, lease>>
  BY DEF Beat, fileVars
<1>3. LeaseSpared(t)
  BY <1>2, LeaseMoves
<1>4. Resumes(t, Closing(t, "cancelled")) /\ Resumes(t, At(t, "next"))
  BY <1>0, <1>1, ClosingResumes, AtResumes DEF PCs, Outside
<1>5. PICK x : Resumes(t, x) /\ th' = [th EXCEPT ![t] = x]
  BY <1>4 DEF Beat, Step
<1>6. /\ row'.token = row.token /\ row'.live = row.live /\ row'.cancel = row.cancel
      /\ row'.status = row.status
  <2>1. CASE UNCHANGED run
    BY <2>1 DEF row
  <2>2. CASE HeartbeatWorker(R, w.tok)
    BY <1>1, <2>2, RowTyped DEF HeartbeatWorker, row, Rows
  <2> QED
    BY <2>1, <2>2 DEF Beat, storeVars
<1> QED
  BY <1>0, <1>1, <1>2, <1>3, <1>5, <1>6, OwnerStores

-----------------------------------------------------------------------------
(* The token is given back, taken and withdrawn.                            *)

LEMMA ReleaseYields ==
  ASSUME WorkersInv, OwnerInv, NEW t \in Threads, Release(t)
  PROVE  Yields(t)
<1> DEFINE w == th[t]
<1>0. w \in Memories /\ w.pc = "release" /\ Heading(w) = "release" /\ (w.job = "edit" => lease # t)
  BY EditFacts DEF WorkersInv, Release, Heading
<1>1. /\ w.tok # NoToken /\ w.a = 0 /\ row.token = w.tok /\ row.live /\ row.status # "absent"
      /\ Tokenless(Threads \ {t})
  BY <1>0, OwnerFacts, ActingFacts, OnlyHolder DEF Outside, Acting
<1>2. rev' = rev /\ (lease' = lease \/ Unlock(t))
  BY DEF Release, fileVars
<1>3. LeaseSpared(t) /\ (Unlock(t) => lease' # t)
  BY <1>2, LeaseMoves
<1>4. CASE /\ w.fin = "none" /\ th' = [th EXCEPT ![t] = At(t, "next")]
           /\ UNCHANGED <<run, lease>>
  <2> DEFINE x == At(t, "next")
  <2>1. x.pc = "next" /\ x.tok = w.tok /\ x.job = w.job /\ x.a = w.a
    BY <1>0 DEF At, Memories
  <2>2. th' = [th EXCEPT ![t] = x]
    BY <1>4
  <2> HIDE DEF x
  <2>3. Plainly(x) /\ Nests(x)
    BY <1>1, <2>1 DEF Plainly, Nests, Outside, Heading
  <2>4. row.status # "failed"
    BY <1>0, <1>1, <1>4 DEF OwnerInv, Rightful, Closes
  <2>5. Rightful(t, x, row, lease', rev')
    BY <1>0, <1>1, <1>4, <2>1, <2>3, <2>4, PlainlyRightful
  <2> QED
    BY <1>1, <1>3, <1>4, <2>1, <2>2, <2>5, OwnerGoesOn
<1>5. ASSUME NEW forced, ReleaseWorker(R, w.tok, forced),
             \/ th' = [th EXCEPT ![t] = [At(t, "leave") EXCEPT !.tok = NoToken]] /\ lease' = lease
             \/ th' = [th EXCEPT ![t] = Idle] /\ Unlock(t)
      PROVE  Yields(t)
  <2>1. /\ row'.cancel = row.cancel /\ row'.doc = row.doc
        /\ row'.status \in {row.status, "cancelling"}
    BY <1>5, RowTyped DEF ReleaseWorker, Freed, row, Rows
  <2>2. Settles(row')
    BY <1>1, <2>1 DEF OwnerInv, Settles
  <2>3. CASE th' = [th EXCEPT ![t] = Idle] /\ Unlock(t)
    <3>1. Idle.tok = NoToken /\ Idle.a = 0 /\ Idle.pc = "idle"
      BY DEF Idle
    <3>2. Rightful(t, Idle, row', lease', rev')
      BY <1>3, <2>3, <3>1 DEF Rightful, Holder, Nests, Closes, Scans, Heading, Outside
    <3> QED
      BY <1>1, <1>3, <2>1, <2>2, <2>3, <3>2, AloneYields
  <2>4. CASE th' = [th EXCEPT ![t] = [At(t, "leave") EXCEPT !.tok = NoToken]] /\ lease' = lease
    <3> DEFINE x == [At(t, "leave") EXCEPT !.tok = NoToken]
    <3>1. x.pc = "leave" /\ x.tok = NoToken /\ x.job = w.job /\ x.a = w.a
      BY <1>0 DEF At, Memories
    <3>2. th' = [th EXCEPT ![t] = x]
      BY <2>4
    <3> HIDE DEF x
    <3>3. Rightful(t, x, row', lease', rev')
      BY <1>0, <1>1, <2>4, <3>1 DEF Rightful, Holder, Nests, Closes, Scans, Heading, Outside
    <3> QED
      BY <1>1, <1>3, <2>1, <2>2, <3>2, <3>3, AloneYields
  <2> QED
    BY <1>5, <2>3, <2>4
<1> QED
  BY <1>1, <1>4, <1>5 DEF Release, Step, storeVars

\* A thread that gets no token begins anew or not at all.
LEMMA StaysOut ==
  ASSUME WorkersInv, OwnerInv, NEW t \in Threads, NEW x, NEW r, NEW l, NEW v,
         x.tok = NoToken, x.a = 0, x.pc \in Outside \cup {"scope"},
         x.pc \in {"idle", "route"} \/ x.job = "edit" => l # t
  PROVE  Rightful(t, x, r, l, v)
BY DEF Rightful, Holder, Nests, Closes, Scans, Heading, Outside

LEMMA ClaimYields ==
  ASSUME WorkersInv, OwnerInv, NEW t \in Threads, Claim(t)
  PROVE  Yields(t)
<1> DEFINE w == th[t]
           tok == FreshToken
<1>0. /\ w \in Memories /\ w.pc = "claim" /\ Heading(w) = "claim"
      /\ w.job \in {"initial", "actions", "edit", "adopt"} /\ (w.job = "edit" => lease # t)
  BY ThreadFacts, EditFacts DEF Claim, Headed, Heading
<1>1. w.tok = NoToken /\ w.a = 0 /\ ~Nested(t) /\ Refused(t) = Idle
  BY <1>0, OnlyHolder, TokenlessFacts DEF Outside, Nested, Refused
<1>2. tok \in Tokens /\ tok # NoToken /\ tok # row.token
  BY NullsAssumption DEF Claim, FreshToken, IsFresh
<1>3. rev' = rev /\ (lease' = lease \/ Unlock(t))
  BY DEF Claim, fileVars
<1>4. LeaseSpared(t) /\ (Unlock(t) => lease' # t)
  BY <1>3, LeaseMoves
<1> HIDE DEF tok
<1>5. CASE ClaimWorker(R, tok) /\ lease' = lease
           /\ Step(t, [Started(t, TakesOver(row, tok)) EXCEPT !.tok = tok])
  <2> DEFINE s == Started(t, TakesOver(row, tok))
             x == [s EXCEPT !.tok = tok]
  <2>1. row.status \notin {"failed", "absent"} /\ (row.token = NoToken \/ ~row.live)
    BY <1>2, <1>5, RowTyped DEF ClaimWorker, Claimable, HeldByOther, row, Exists
  <2>2. Tokenless(Threads)
    BY <2>1, NobodyHolds
  <2>3. /\ row'.token = tok /\ row'.live = TRUE /\ row'.cancel = row.cancel
        /\ row'.status = row.status
    BY <1>5, RowTyped DEF ClaimWorker, row, Rows
  <2>4. \/ s \in {At(t, "start"), At(t, "adopt"), At(t, "next")}
        \/ s = At(t, "load") /\ w.job = "edit"
        \/ s = [At(t, "reconcile") EXCEPT !.next = "recover"] /\ w.job = "actions"
    <3>1. CASE w.job = "initial"
      BY <3>1 DEF Started
    <3>2. CASE w.job = "edit"
      BY <3>2 DEF Started
    <3>3. CASE w.job = "adopt"
      BY <3>3 DEF Started
    <3>4. CASE w.job = "actions"
      BY <1>1, <3>4 DEF Started
    <3> QED
      BY <1>0, <3>1, <3>2, <3>3, <3>4
  <2> HIDE DEF s
  <2>5. /\ x.tok = tok /\ x.a = 0 /\ x.job = w.job
        /\ \/ x.pc \in {"start", "load", "adopt", "next"} /\ (x.pc = "load" => w.job = "edit")
           \/ x.pc = "reconcile" /\ x.next = "recover" /\ w.job = "actions"
    <3>1. CASE s = [At(t, "reconcile") EXCEPT !.next = "recover"] /\ w.job = "actions"
      BY <1>0, <1>1, <3>1 DEF At, Memories
    <3>2. ASSUME NEW pc \in {"start", "load", "adopt", "next"}, s = At(t, pc),
                 pc = "load" => w.job = "edit"
          PROVE  /\ x.tok = tok /\ x.a = 0 /\ x.job = w.job
                 /\ x.pc \in {"start", "load", "adopt", "next"} /\ (x.pc = "load" => w.job = "edit")
      BY <1>0, <1>1, <3>2 DEF At, Memories
    <3> QED
      BY <2>4, <3>1, <3>2
  <2>6. th' = [th EXCEPT ![t] = x]
    BY <1>5 DEF Step, s
  <2> HIDE DEF x
  <2>7. Plainly(x) /\ Nests(x)
    BY <2>5 DEF Plainly, Nests, Heading, Outside
  <2>8. Rightful(t, x, row', lease', rev')
    BY <1>0, <1>2, <1>5, <2>1, <2>3, <2>5, <2>7, PlainlyRightful
  <2>9. Settles(row')
    BY <2>1, <2>3 DEF Settles
  <2> QED
    BY <1>4, <2>2, <2>3, <2>6, <2>8, <2>9, AloneYields DEF Tokenless
<1>6. CASE Step(t, Idle) /\ Unlock(t) /\ UNCHANGED run
  BY <1>4, <1>6, IdleYields DEF Step
<1>7. CASE Step(t, Idle) /\ Unlock(t) /\ ~row.live /\ DiscardStaleWorker(R)
  <2>1. Tokenless(Threads)
    BY <1>7, NobodyHolds
  <2>2. row'.cancel = row.cancel /\ row'.doc = row.doc /\ row'.status = row.status
        /\ row'.token = NoToken
    BY <1>7, RowTyped DEF DiscardStaleWorker, Freed, row, Rows
  <2>3. Settles(row')
    BY <2>2 DEF OwnerInv, Settles
  <2>4. Idle.tok = NoToken /\ Idle.a = 0 /\ Idle.pc = "idle"
    BY DEF Idle
  <2>5. Rightful(t, Idle, row', lease', rev')
    BY <1>4, <1>7, <2>4, StaysOut DEF Outside
  <2> QED
    BY <1>4, <1>7, <2>1, <2>2, <2>3, <2>5, AloneYields DEF Tokenless, Step
<1> QED
  BY <1>1, <1>5, <1>6, <1>7 DEF Claim, storeVars, tok

LEMMA ScopeYields ==
  ASSUME WorkersInv, OwnerInv, NEW t \in Threads, Scope(t)
  PROVE  Yields(t)
<1> DEFINE w == th[t]
<1>0. w \in Memories /\ w.pc = "scope" /\ Heading(w) = "scope" /\ (w.job = "edit" => lease # t)
  BY EditFacts DEF WorkersInv, Scope, Heading
<1>1. rev' = rev /\ (lease' = lease \/ Unlock(t))
  BY DEF Scope, fileVars
<1>2. LeaseSpared(t) /\ (Unlock(t) => lease' # t)
  BY <1>1, LeaseMoves
<1>3. CASE ClaimScope(R) /\ Step(t, At(t, "claim")) /\ UNCHANGED lease
  <2> DEFINE x == At(t, "claim")
  <2>1. Tokenless(Threads)
    BY <1>3, NobodyHolds DEF ClaimScope, Reopenable, row
  <2>2. w.tok = NoToken /\ w.a = 0
    BY <2>1, TokenlessFacts DEF Tokenless
  <2>3. x.pc = "claim" /\ x.tok = w.tok /\ x.job = w.job /\ x.a = w.a
    BY <1>0 DEF At, Memories
  <2>4. th' = [th EXCEPT ![t] = x]
    BY <1>3 DEF Step
  <2> HIDE DEF x
  <2>5. row'.status = "running" /\ ~row.cancel
    BY <1>3, RowTyped DEF ClaimScope, Reopenable, row, Rows
  <2>6. Settles(row')
    BY <2>5 DEF Settles
  <2>7. Rightful(t, x, row', lease', rev')
    BY <1>0, <1>3, <2>2, <2>3, StaysOut DEF Outside
  <2> QED
    BY <1>2, <2>1, <2>4, <2>5, <2>6, <2>7, AloneYields DEF Tokenless
<1>4. CASE Step(t, Refused(t)) /\ Unlock(t) /\ UNCHANGED storeVars
  <2>1. th' = [th EXCEPT ![t] = Refused(t)] /\ UNCHANGED run /\ lease' # t
    BY <1>2, <1>4 DEF Step, storeVars
  <2> QED
    BY <1>0, <1>2, <2>1, RefusedYields
<1> QED
  BY <1>3, <1>4 DEF Scope

-----------------------------------------------------------------------------
(* Requests, recoveries and the environment.                                *)

LEMMA IdleFacts ==
  ASSUME WorkersInv, OwnerInv, NEW t \in Threads, th[t] = Idle
  PROVE  /\ lease # t /\ th[t].tok = NoToken /\ th[t].a = 0
         /\ \A pc, job : LET x == [Idle EXCEPT !.pc = pc, !.job = job]
                         IN  x.pc = pc /\ x.job = job /\ x.tok = NoToken /\ x.a = 0
         /\ \A pc, job, i : LET x == [Idle EXCEPT !.pc = pc, !.job = job, !.item = i]
                            IN  x.pc = pc /\ x.job = job /\ x.tok = NoToken /\ x.a = 0
         /\ [Idle EXCEPT !.pc = "route"].pc = "route"
         /\ [Idle EXCEPT !.pc = "route"].tok = NoToken /\ [Idle EXCEPT !.pc = "route"].a = 0
<1>1. th[t].pc = "idle" /\ th[t].tok = NoToken /\ th[t].a = 0
  BY DEF Idle
<1>2. lease # t
  BY <1>1 DEF OwnerInv, Rightful, Scans, Heading
<1> QED
  BY <1>1, <1>2 DEF Idle

\* A request that finds the run without a worker starts one.
LEMMA BeginsYields ==
  ASSUME WorkersInv, OwnerInv, NEW t \in Threads, th[t] = Idle, NEW job,
         th' = [th EXCEPT ![t] = [Idle EXCEPT !.pc = "claim", !.job = job]],
         UNCHANGED <<fileVars, lease>>, Tokenless(Threads),
         ~row.cancel, row'.status \notin {"failed", "absent"}
  PROVE  Yields(t)
<1> DEFINE x == [Idle EXCEPT !.pc = "claim", !.job = job]
<1>1. x.pc = "claim" /\ x.job = job /\ x.tok = NoToken /\ x.a = 0 /\ lease # t
  BY IdleFacts
<1>2. th' = [th EXCEPT ![t] = x] /\ rev' = rev /\ lease' = lease
  BY DEF fileVars
<1> HIDE DEF x
<1>3. LeaseSpared(t)
  BY <1>2, LeaseMoves
<1>4. Rightful(t, x, row', lease', rev')
  BY <1>1, <1>2, StaysOut DEF Outside
<1>5. Settles(row')
  BY DEF Settles
<1> QED
  BY <1>2, <1>3, <1>4, <1>5, AloneYields DEF Tokenless

LEMMA CreateRunYields ==
  ASSUME WorkersInv, OwnerInv, NEW t \in Threads, th[t] = Idle, CreateRun(t)
  PROVE  Yields(t)
<1>1. PICK m \in Modules : Create(R, m, NoRequest)
  BY DEF CreateRun
<1>2. row.status = "absent"
  BY <1>1 DEF Create, Exists, row
<1>3. RowRules(row)
  BY RowTyped DEF WorkersInv, StoreInv, RunInv, row
<1>4. ~row.cancel /\ Tokenless(Threads)
  BY <1>2, <1>3, NobodyHolds DEF RowRules, OwnerInv, Settles
<1>5. row'.status = "queued"
  BY <1>1, RowTyped DEF Create, row, AbsentRow
<1> QED
  BY <1>4, <1>5, BeginsYields DEF CreateRun, Step

LEMMA EnqueueYields ==
  ASSUME WorkersInv, OwnerInv, NEW t \in Threads, th[t] = Idle, NEW its \in Batches, Enqueue(t, its)
  PROVE  Yields(t)
<1>1. EnqueueActions(R, its)
  BY DEF Enqueue
<1>2. row.token = NoToken /\ row.status \in ActionableStatuses
  BY <1>1 DEF EnqueueActions, row
<1>3. RowRules(row)
  BY RowTyped DEF WorkersInv, StoreInv, RunInv, row
<1>4. ~row.cancel /\ Tokenless(Threads)
  BY <1>2, <1>3, NobodyHolds DEF RowRules, ActionableStatuses
<1>5. row'.status = "running"
  BY <1>1, RowTyped DEF EnqueueActions, row, Rows
<1> QED
  BY <1>4, <1>5, BeginsYields DEF Enqueue, Step

LEMMA EditRequestYields ==
  ASSUME WorkersInv, OwnerInv, NEW t \in Threads, th[t] = Idle, NEW i \in Items, EditRequest(t, i)
  PROVE  Yields(t)
<1> DEFINE x == [Idle EXCEPT !.pc = "scope", !.job = "edit", !.item = i]
<1>1. x.pc = "scope" /\ x.job = "edit" /\ x.tok = NoToken /\ x.a = 0 /\ lease # t
  BY IdleFacts
<1>2. th' = [th EXCEPT ![t] = x] /\ UNCHANGED <<run, rev, lease>>
  BY DEF EditRequest, Step, storeVars, fileVars
<1> HIDE DEF x
<1>3. LeaseSpared(t)
  BY <1>2, LeaseMoves
<1> QED
  BY <1>1, <1>2, <1>3, OutsiderMoves

LEMMA AdoptRequestYields ==
  ASSUME WorkersInv, OwnerInv, NEW t \in Threads, th[t] = Idle, AdoptRequest(t)
  PROVE  Yields(t)
<1> DEFINE x == [Idle EXCEPT !.pc = "scope", !.job = "adopt"]
<1>1. x.pc = "scope" /\ x.job = "adopt" /\ x.tok = NoToken /\ x.a = 0
  BY IdleFacts
<1>2. th' = [th EXCEPT ![t] = x] /\ UNCHANGED <<run, rev>> /\ lease' = t /\ CanLock(t)
  BY DEF AdoptRequest, Step, storeVars, fileVars, CanLock
<1> HIDE DEF x
<1>3. LeaseSpared(t)
  BY <1>2, LeaseMoves
<1> QED
  BY <1>1, <1>2, <1>3, OutsiderMoves

LEMMA CancelRequestYields ==
  ASSUME WorkersInv, OwnerInv, NEW t \in Threads, th[t] = Idle, CancelRequest(t)
  PROVE  Yields(t)
<1> DEFINE c == Closing(t, "cancelled")
           x == [c EXCEPT !.job = "cancel"]
<1>1. RequestCancel(R) /\ rev' = rev /\ lease' = lease
  BY DEF CancelRequest, fileVars
<1>2. /\ row'.token = row.token /\ row'.live = row.live /\ row'.cancel = TRUE
      /\ row'.doc = row.doc /\ row'.status = "cancelling"
  BY <1>1, RowTyped DEF RequestCancel, row, Rows
<1>3. LeaseSpared(t) /\ lease # t
  BY <1>1, LeaseMoves, IdleFacts
<1>4. CASE Step(t, x)
  <2>1. th[t] \in Memories
    BY DEF WorkersInv
  <2>2. c \in Memories /\ c.pc = "close" /\ c.fin = "cancelled" /\ c.tok = NoToken /\ c.a = 0
    BY <2>1, ClosingFields, IdleFacts
  <2> HIDE DEF c
  <2>3. x.pc = "close" /\ x.fin = "cancelled" /\ x.tok = NoToken /\ x.a = 0 /\ x.job = "cancel"
    BY <2>2 DEF Memories
  <2>4. th' = [th EXCEPT ![t] = x]
    BY <1>4 DEF Step
  <2> HIDE DEF x
  <2>5. Rightful(t, x, row', lease', rev')
    BY <1>2, <2>3 DEF Rightful, Holder, Ends, Nests, Closes, Scans, Heading
  <2> QED
    BY <1>2, <1>3, <2>3, <2>4, <2>5, OutsiderWrites
<1>5. CASE UNCHANGED th
  <2>1. th' = [th EXCEPT ![t] = Idle]
    BY <1>5 DEF WorkersInv
  <2>2. Idle.tok = NoToken /\ Idle.a = 0 /\ Idle.pc = "idle"
    BY DEF Idle
  <2>3. Rightful(t, Idle, row', lease', rev')
    BY <1>1, <1>3, <2>2, StaysOut DEF Outside
  <2> QED
    BY <1>2, <1>3, <2>1, <2>2, <2>3, OutsiderWrites
<1> QED
  BY <1>4, <1>5 DEF CancelRequest

LEMMA RecoverYields ==
  ASSUME WorkersInv, OwnerInv, NEW t \in Threads, th[t] = Idle, Recover(t)
  PROVE  Yields(t)
<1> DEFINE x == [Idle EXCEPT !.pc = "route"]
<1>1. x.pc = "route" /\ x.tok = NoToken /\ x.a = 0 /\ lease # t
  BY IdleFacts
<1>2. th' = [th EXCEPT ![t] = x] /\ UNCHANGED <<run, rev, lease>>
  BY DEF Recover, Step, storeVars, fileVars
<1> HIDE DEF x
<1>3. LeaseSpared(t)
  BY <1>2, LeaseMoves
<1> QED
  BY <1>1, <1>2, <1>3, OutsiderMoves DEF Outside

LEMMA ThreadYields ==
  ASSUME WorkersInv, OwnerInv, NEW t \in Threads, Request(t) \/ Recovers(t) \/ Works(t)
  PROVE  Yields(t)
<1>1. CASE Request(t)
  BY <1>1, CreateRunYields, AdoptRequestYields, CancelRequestYields, EnqueueYields,
     EditRequestYields DEF Request
<1>2. CASE Recovers(t)
  BY <1>2, RecoverYields DEF Recovers
<1>3. CASE Scope(t) \/ Claim(t) \/ Save(t) \/ Mark(t) \/ Close(t) \/ End(t) \/ Finally(t)
           \/ Release(t) \/ Quit(t) \/ Route(t)
  BY <1>3, ScopeYields, ClaimYields, SaveYields, MarkYields, CloseYields, EndYields,
     FinallyYields, ReleaseYields, QuitYields, RouteYields
<1>4. CASE Start(t) \/ Reconcile(t) \/ Resync(t) \/ Resume(t) \/ Loop(t) \/ Fail(t) \/ Op(t)
           \/ Write(t) \/ Run(t) \/ Analyze(t) \/ RecoverItems(t) \/ NextAction(t)
  BY <1>4, StartYields, ReconcileYields, ResyncYields, ResumeYields, LoopYields, FailYields,
     OpYields, WriteYields, RunYields, AnalyzeYields, RecoverItemsYields, NextActionYields
<1>5. CASE Validate(t) \/ Adopt(t) \/ Apply(t) \/ Finish(t) \/ Beat(t) \/ Settle(t) \/ Seal(t)
           \/ Complete(t) \/ Load(t) \/ Edit(t)
  BY <1>5, ValidateYields, AdoptYields, ApplyYields, FinishYields, BeatYields, SettleYields,
     SealYields, CompleteYields, LoadYields, EditYields
<1> QED
  BY <1>1, <1>2, <1>3, <1>4, <1>5 DEF Works

\* The row changes while no thread holds its token, and none moves.
LEMMA UnheldKeepsInv ==
  ASSUME WorkersInv, OwnerInv, Tokenless(Threads), th' = th, UNCHANGED <<rev, lease>>,
         row'.cancel = row.cancel, row'.doc = row.doc, row'.status = row.status,
         row.status = "absent" => row'.token = NoToken
  PROVE  OwnerInv' /\ (row.cancel => row'.cancel)
<1>1. Spares(Threads)
  BY DEF Spares
<1>2. Settles(row')
  BY DEF OwnerInv, Settles
<1> QED
  BY <1>1, <1>2, SparedInv

LEMMA EnvironmentOwns ==
  ASSUME ~Lapses, WorkersInv, OwnerInv, Environment
  PROVE  OwnerInv' /\ (row.cancel => row'.cancel)
<1>1. CASE ForgetWorker
  <2>1. Tokenless(Threads)
    BY <1>1, NobodyHolds DEF ForgetWorker, ClearExpiredWorker, row
  <2>2. /\ row'.cancel = row.cancel /\ row'.doc = row.doc /\ row'.status = row.status
        /\ row'.token = NoToken
    BY <1>1, RowTyped DEF ForgetWorker, ClearExpiredWorker, Freed, row, Rows
  <2> QED
    BY <1>1, <2>1, <2>2, UnheldKeepsInv DEF ForgetWorker, fileVars
<1>2. CASE Expire
  <2>1. Tokenless(Threads)
    BY <1>2, NobodyHolds DEF Expire
  <2>2. /\ row'.cancel = row.cancel /\ row'.doc = row.doc /\ row'.status = row.status
        /\ row.token # NoToken
    BY <1>2, RowTyped DEF Expire, LeaseExpires, row, Rows
  <2> QED
    BY <1>2, <2>1, <2>2, UnheldKeepsInv DEF Expire, fileVars, OwnerInv, Settles
<1>3. CASE ExternalTakes \/ ExternalWrites
  <2>1. row' = row /\ th' = th
    BY <1>3 DEF ExternalTakes, ExternalWrites, storeVars, row
  <2>2. \A s \in Threads : (lease = s <=> lease' = s) /\ lease # s
    BY <1>3, LeaseAssumption DEF ExternalTakes, ExternalWrites
  <2>3. Spares(Threads)
    BY <2>1, <2>2 DEF Spares
  <2>4. Settles(row')
    BY <2>1 DEF OwnerInv
  <2> QED
    BY <2>1, <2>3, <2>4, SparedInv
<1>4. ASSUME NEW t \in Threads, Heartbeat(t) PROVE FALSE
  <2>1. th[t].tok # NoToken /\ ~row.live
    BY <1>4 DEF Heartbeat, HeartbeatWorker
  <2> QED
    BY <2>1, OnlyHolder
<1>5. ASSUME NEW t \in Threads, Crash(t) PROVE OwnerInv' /\ (row.cancel => row'.cancel)
  <2>1. th' = [th EXCEPT ![t] = Idle] /\ Unlock(t) /\ UNCHANGED <<run, rev>>
    BY <1>5 DEF Crash, storeVars, fileVars
  <2>2. LeaseSpared(t) /\ lease' # t
    BY <2>1, LeaseMoves
  <2>3. Yields(t)
    BY <2>1, <2>2, IdleYields
  <2> QED
    BY <2>3, YieldsKeepsInv
<1> QED
  BY <1>1, <1>2, <1>3, <1>4, <1>5 DEF Environment

LEMMA OwnerNext ==
  ASSUME ~Lapses, WorkersInv, OwnerInv, [WorkersNext]_vars
  PROVE  OwnerInv' /\ (row.cancel => row'.cancel)
<1>1. CASE \E t \in Threads : Request(t) \/ Recovers(t) \/ Works(t)
  BY <1>1, ThreadYields, YieldsKeepsInv
<1>2. CASE Environment
  BY <1>2, EnvironmentOwns
<1>3. CASE UNCHANGED vars
  <2>1. row' = row /\ th' = th /\ rev' = rev /\ lease' = lease
    BY <1>3 DEF vars, row
  <2>2. Spares(Threads)
    BY <2>1 DEF Spares
  <2>3. Settles(row')
    BY <2>1 DEF OwnerInv
  <2> QED
    BY <2>1, <2>2, <2>3, SparedInv
<1> QED
  BY <1>1, <1>2, <1>3 DEF WorkersNext

LEMMA OwnerInit == WorkersInit => OwnerInv
<1> SUFFICES ASSUME WorkersInit PROVE OwnerInv
  OBVIOUS
<1>1. \A t \in Threads : th[t].tok = NoToken /\ th[t].a = 0 /\ th[t].pc = "idle" /\ lease # t
  BY LeaseAssumption DEF WorkersInit, Idle
<1>2. row.status = "absent" /\ row.token = NoToken
  BY RunsAssumption DEF WorkersInit, StoreInit, row, AbsentRow
<1>3. Settles(row) /\ Sole
  BY <1>1, <1>2 DEF Settles, Sole
<1>4. WorkersInv
  BY WorkersInitInv
<1>5. \A t \in Threads : Rightful(t, th[t], row, lease, rev)
  BY <1>1 DEF Rightful, Holder, Nests, Closes, Scans, Heading, Outside
<1> QED
  BY <1>3, <1>5 DEF OwnerInv

-----------------------------------------------------------------------------
(* What follows for the runs of a manager whose workers renew their leases. *)

\* The document of the row is written by two steps.
LEMMA DocWriters ==
  ASSUME WorkersInv, WorkersNext, row'.doc # row.doc
  PROVE  \E t \in Threads : Save(t) \/ Resync(t)
<1>0. row \in Rows /\ R \in Runs /\ run \in [Runs -> Rows]
  BY RowTyped
<1> DEFINE Kept == row'.doc = row.doc
<1>1. ASSUME NEW t \in Threads, Request(t) PROVE Kept
  <2>1. CASE CreateRun(t)
    <3>1. PICK m \in Modules : Create(R, m, NoRequest)
      BY <2>1 DEF CreateRun
    <3>2. row.doc = NoDoc
      BY <1>0, <3>1 DEF WorkersInv, StoreInv, RunInv, RowRules, Create, Exists, row
    <3> QED
      BY <1>0, <3>1, <3>2 DEF Create, row, AbsentRow
  <2>2. CASE CancelRequest(t)
    BY <1>0, <2>2 DEF CancelRequest, RequestCancel, row, Rows
  <2>3. ASSUME NEW its \in Batches, Enqueue(t, its) PROVE Kept
    BY <1>0, <2>3 DEF Enqueue, EnqueueActions, row, Rows
  <2>4. CASE AdoptRequest(t) \/ \E i \in Items : EditRequest(t, i)
    BY <2>4 DEF AdoptRequest, EditRequest, storeVars, row
  <2> QED
    BY <1>1, <2>1, <2>2, <2>3, <2>4 DEF Request
<1>2. ASSUME NEW t \in Threads, Recovers(t) \/ Quit(t) \/ Route(t) \/ Start(t) \/ Reconcile(t)
             \/ Resume(t) \/ Loop(t) \/ Op(t) \/ Write(t) \/ Run(t) \/ Analyze(t)
             \/ RecoverItems(t) \/ Adopt(t) \/ Apply(t) \/ Settle(t) \/ Load(t) \/ Edit(t)
             \/ Close(t) \/ Finally(t) \/ NextAction(t) \/ Finish(t)
      PROVE  Kept
  BY <1>2 DEF Recovers, Recover, Quit, Route, Start, Reconcile, Resume, Loop, Op, Write, Run,
     Analyze, RecoverItems, Adopt, Apply, Settle, Load, Edit, Close, Finally, NextAction, Finish,
     ClaimNextAction, FinishAction, storeVars, row
<1>3. ASSUME NEW t \in Threads, Mark(t) \/ End(t) \/ Fail(t) \/ Complete(t) PROVE Kept
  <2>1. ThreadOK(th[t], row.doc, act, passed)
    BY ThreadFacts
  <2>2. CASE Mark(t)
    <3>1. StepOf(th[t].doc) # "absent"
      BY StepOfRange DEF StepStatuses
    <3> QED
      BY <2>2, <3>1, UpdateFacts DEF Mark
  <2>3. CASE End(t)
    <3>1. th[t].fin # "absent"
      BY <2>1, <2>3 DEF End, ThreadOK, Headed, Heading
    <3> QED
      BY <2>3, <3>1, UpdateFacts DEF End
  <2>4. CASE Fail(t)
    BY <2>4, UpdateFacts DEF Fail
  <2>5. CASE Complete(t)
    BY <2>5, UpdateFacts DEF Complete
  <2> QED
    BY <1>3, <2>2, <2>3, <2>4, <2>5
<1>4. ASSUME NEW t \in Threads, Seal(t) PROVE Kept
  <2> DEFINE s == IF AllTerminal(row.doc) THEN "succeeded" ELSE "awaiting_action"
  <2>1. CASE UNCHANGED run
    BY <2>1 DEF row
  <2>2. CASE SaveState(R, th[t].tok, row.doc, s, row.doc.initial, Queue(R) # {})
    <3>1. s \in StepStatuses
      BY DEF StepStatuses
    <3> QED
      BY <2>2, <3>1, SaveFacts
  <2> QED
    BY <1>4, <2>1, <2>2 DEF Seal, storeVars
<1>5. ASSUME NEW t \in Threads, Scope(t) \/ Claim(t) \/ Release(t) \/ Validate(t) \/ Beat(t)
      PROVE  Kept
  <2>1. CASE UNCHANGED run
    BY <2>1 DEF row
  <2>2. CASE ClaimScope(R)
    BY <1>0, <2>2 DEF ClaimScope, row, Rows
  <2>3. CASE ClaimWorker(R, FreshToken) \/ HeartbeatWorker(R, th[t].tok)
    BY <1>0, <2>3 DEF ClaimWorker, HeartbeatWorker, row, Rows
  <2>4. CASE DiscardStaleWorker(R) \/ ClearExpiredWorker(R, Resting)
    BY <1>0, <2>4, ZenonT(40) DEF DiscardStaleWorker, ClearExpiredWorker, Freed, row, Rows
  <2>5. ASSUME NEW forced, ReleaseWorker(R, th[t].tok, forced) PROVE Kept
    BY <1>0, <2>5 DEF ReleaseWorker, Freed, row, Rows
  <2> QED
    BY <1>5, <2>1, <2>2, <2>3, <2>4, <2>5 DEF Scope, Claim, Release, Validate, Beat, storeVars
<1>6. CASE Environment
  <2>1. CASE UNCHANGED run
    BY <2>1 DEF row
  <2>2. CASE ClearExpiredWorker(R, Resting) \/ LeaseExpires(R)
    BY <1>0, <2>2, ZenonT(40) DEF ClearExpiredWorker, LeaseExpires, Freed, row, Rows
  <2>3. ASSUME NEW t \in Threads, HeartbeatWorker(R, th[t].tok) PROVE Kept
    BY <1>0, <2>3 DEF HeartbeatWorker, row, Rows
  <2> QED
    BY <1>6, <2>1, <2>2, <2>3 DEF Environment, ForgetWorker, Expire, ExternalTakes, ExternalWrites,
       Heartbeat, Crash, storeVars
<1> QED
  BY <1>1, <1>2, <1>3, <1>4, <1>5, <1>6 DEF WorkersNext, Works

\* The thread w writes the document d into a run with this token and this
\* cancel flag.
Entitled(w, token, cancel, d) ==
  \/ w.tok # NoToken /\ w.tok = token
  \/ w.tok = NoToken /\ cancel /\ Finished(d)

\* The thread that writes the document is the one entitled to it.
LEMMA FencedStep ==
  ASSUME WorkersInv, OwnerInv, [WorkersNext]_vars, row'.doc # row.doc
  PROVE  \E t \in Threads :
           th'[t] # th[t] /\ Entitled(th[t], row.token, row.cancel, row'.doc)
<1>1. row' # row
  OBVIOUS
<1>2. WorkersNext
  BY <1>1 DEF vars, row
<1>3. PICK t \in Threads : Save(t) \/ Resync(t)
  BY <1>2, DocWriters
<1>4. th \in [Threads -> Memories] /\ th[t] \in Memories
  BY DEF WorkersInv
<1>5. Rightful(t, th[t], row, lease, rev)
  BY DEF OwnerInv
<1>6. CASE Save(t)
  <2>1. th[t].pc = "save"
    BY <1>6 DEF Save
  <2>2. th'[t].pc = IF AllTerminal(th[t].doc) THEN th[t].next ELSE "mark"
    BY <1>4, <1>6 DEF Save, Step, At, Memories
  <2>3. th[t].next # "save"
    BY <2>1, ThreadFacts DEF Headed
  <2>4. th'[t] # th[t]
    BY <2>1, <2>2, <2>3
  <2>5. StepOf(th[t].doc) \in StepStatuses
    BY StepOfRange
  <2>6. row'.doc = th[t].doc
    BY <1>6, <2>5, SaveFacts DEF Save
  <2>7. th[t].tok = NoToken => row.cancel /\ th[t].next = "end"
    BY <1>5, <2>1 DEF Rightful, Holder, Outside, Ends
  <2>8. th[t].next = "end" => Finished(th[t].doc)
    BY <1>5, <2>1 DEF Rightful, Closes
  <2>9. th[t].tok # NoToken => row.token = th[t].tok
    BY <1>5 DEF Rightful, Holder
  <2> QED
    BY <2>4, <2>6, <2>7, <2>8, <2>9 DEF Entitled
<1>7. CASE Resync(t)
  <2>1. th[t].pc = "resync"
    BY <1>7 DEF Resync
  <2>2. th'[t].pc = th[t].next
    BY <1>4, <1>7 DEF Resync, Step, At, Memories
  <2>3. th[t].next # "resync"
    BY <2>1, ThreadFacts DEF Headed
  <2>4. th[t].tok # NoToken /\ row.token = th[t].tok
    BY <1>5, <2>1 DEF Rightful, Holder, Outside, Ends
  <2> QED
    BY <2>1, <2>2, <2>3, <2>4 DEF Entitled
<1> QED
  BY <1>3, <1>6, <1>7

\* What a completion under the lease rests on.
LEMMA ScannedStep ==
  ASSUME ~Lapses, WorkersInv, WorkersInv', OwnerInv, [WorkersNext]_vars,
         row.status # "completed", row'.status = "completed",
         \E t \in Threads : th[t].pc = "complete" /\ lease = t,
         NEW i \in Items
  PROVE  \/ row.doc.st[i] = "abandoned"
         \/ row.doc.st[i] = "ready" /\ row.doc.rev[i] = rev[i]
<1>1. ~row'.cancel
  <2>1. RowRules(row')
    BY RowTyped DEF WorkersInv, StoreInv, RunInv, row
  <2> QED
    BY <2>1 DEF RowRules
<1>2. ~row.cancel
  BY <1>1, OwnerNext
<1>3. PICK t \in Threads : th[t].pc = "complete" /\ lease = t
  OBVIOUS
<1>4. AllTerminal(row.doc) /\ Scanned(row.doc, rev)
  BY <1>2, <1>3 DEF OwnerInv, Rightful, Scans
<1> QED
  BY <1>4 DEF AllTerminal, Scanned

(* While no lease of a live worker runs out, a thread with a token in its   *)
(* hands owns the run, however many threads die, and what the owner and the *)
(* closers of a cancelled run rely on holds at every step.                  *)
THEOREM OwnerInvariant ==
  ASSUME ~Lapses
  PROVE  WorkersSpec => []OwnerInv
<1>1. WorkersInv /\ OwnerInv /\ [WorkersNext]_vars => OwnerInv'
  BY OwnerNext
<1> QED
  BY <1>1, OwnerInit, WorkersInvariant, PTL DEF WorkersSpec

(* The worker that ends a run as cancelled or failed has left no item and   *)
(* no stage in its document unfinished, and a failed run stays so, whoever  *)
(* closes a cancelled run without a fence meanwhile, as long as the         *)
(* heartbeat of every live worker keeps its lease.                          *)
THEOREM EndedRunIsClosed ==
  ASSUME ~Lapses
  PROVE  WorkersSpec => []TerminalIsClosed
<1>1. OwnerInv => TerminalIsClosed
  BY DEF OwnerInv, Rightful, Closes, Settles, Finished, TerminalIsClosed
<1> QED
  BY <1>1, OwnerInvariant, PTL

(* The thread that writes a document owns the token as it writes; without   *)
(* one it writes into a cancelled run, and leaves the document closed: the  *)
(* unfenced writes of save_state close cancelled runs and do nothing else,  *)
(* as long as the heartbeat keeps every live worker's lease.                *)
THEOREM WritesAreFenced ==
  ASSUME ~Lapses
  PROVE  WorkersSpec => DocumentFenced
<1> DEFINE ByItsWriter ==
             row'.doc # row.doc =>
               \E t \in Threads :
                 /\ th'[t] # th[t]
                 /\ \/ th[t].tok # NoToken /\ th[t].tok = row.token
                    \/ /\ th[t].tok = NoToken /\ row.cancel
                       /\ AllTerminal(row'.doc) /\ row'.doc.open = {}
<1>1. WorkersInv /\ OwnerInv /\ [WorkersNext]_vars => [ByItsWriter]_vars
  BY FencedStep DEF Entitled, Finished
<1> QED
  BY <1>1, OwnerInvariant, WorkersInvariant, PTL DEF WorkersSpec, DocumentFenced

(* A run that completes under the module's lease has every script abandoned *)
(* or ready in the revision of its file: no writer, recovery or other owner *)
(* comes between the scan and the completion of                             *)
(* _reconcile_owned_assets_and_settle.                                      *)
THEOREM CompletionIsScanned ==
  ASSUME ~Lapses
  PROVE  WorkersSpec => CompletionScanned
<1>1. WorkersInv /\ WorkersInv' /\ OwnerInv /\ [WorkersNext]_vars
        => [row.status # "completed" /\ row'.status = "completed"
              /\ (\E t \in Threads : th[t].pc = "complete" /\ lease = t)
            => \A i \in Items :
                 \/ row.doc.st[i] = "abandoned"
                 \/ row.doc.st[i] = "ready" /\ row.doc.rev[i] = rev[i]]_vars
  BY ScannedStep
<1> QED
  BY <1>1, OwnerInvariant, WorkersInvariant, PTL DEF WorkersSpec, CompletionScanned
=============================================================================
