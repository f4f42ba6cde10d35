---------------------- MODULE PreparationItem_proofs ----------------------
(***************************************************************************)
(* Proofs about PreparationItem, for any number of revisions, stages and   *)
(* deaths: its types, that ready means executed, that the automatic flow   *)
(* repairs once and verifies what it repairs, that one stage is open, that *)
(* a closed run leaves nothing open, and that history is append-only.      *)
(***************************************************************************)
EXTENDS PreparationItem, SequenceTheorems, TLAPS

Repairs == {"repair", "rerepair"}

NoneOpen == \A k \in DOMAIN history : history[k].status \notin Open

\* The newest stage is of one of the given types and in the given status.
NewestIs(types, status) ==
  history # <<>> /\ Newest.type \in types /\ Newest.status = status

\* A repair that succeeded has its verification still to come.
Unverified == NewestIs(Repairs, "succeeded")

\* What a call knows: which executions it starts, and that it repairs on its
\* own only what is not a verification.
CallKnows ==
  /\ call.trigger \in {"automatic", "human_regenerate", "human_execute", "manual_edit_execute",
                       "post_repair_verification"}
  /\ call.auto => call.trigger # "post_repair_verification"

\* Between calls only a review may be open.
AtRest ==
  call.pc = "rest" =>
    /\ \A k \in DOMAIN history : history[k].status \in Open =>
         history[k].type = "human_review" /\ history[k].status = "pending"
    /\ item.status \notin Busy
    /\ item.status = "queued" => history = <<>>
    /\ ~Unverified

\* An operation runs on the stage the call has begun, the newest.
InStage ==
  /\ call.pc = "work" =>
       /\ NewestIs({"generate", "regenerate"} \cup Repairs, "running") /\ item.status \in Busy
       /\ Newest.type \in Repairs =>
            call.trigger = "post_repair_verification" /\ item.status = "repairing"
  /\ call.pc = "run" =>
       /\ NewestIs({"execute"}, "running") /\ item.status = "executing"
       /\ Newest.input = item.rev /\ Newest.trigger = call.trigger
  /\ call.pc = "analyze" => NewestIs({"human_review"}, "running") /\ item.status = "analyzing"
  /\ call.pc = "blocked" => NewestIs({"blocked"}, "running") /\ item.status \in Busy
  /\ call.pc = "edit" => NewestIs({"manual_edit"}, "running") /\ item.status = "awaiting_human"
  /\ call.pc = "abandon" => NewestIs({"abandon"}, "running") /\ item.status = "awaiting_human"
  /\ call.pc = "aborted" => NewestIs(Types, "running") /\ item.status \in Busy

\* Between two stages of a call nothing is open, and the newest stage says
\* what comes next.
Between ==
  /\ call.pc = "execute" =>
       /\ NoneOpen /\ item.status \notin Terminal \cup {"queued"}
       /\ Unverified => call.trigger = "post_repair_verification" /\ item.status = "repairing"
  /\ call.pc = "ready" =>
       /\ NoneOpen /\ NewestIs({"execute"}, "succeeded") /\ Newest.input = item.rev
       /\ item.status = "executing"
  /\ call.pc = "repair" =>
       /\ NoneOpen /\ NewestIs({"execute"}, "failed") /\ item.status = "executing"
       /\ Newest.trigger # "post_repair_verification"
  /\ call.pc \in {"await", "block"} =>
       NoneOpen /\ NewestIs(Types, "failed") /\ item.status \in Busy

\* What a dead thread leaves behind: no review, and an item that looks
\* interrupted if a repair has yet to be verified.
Left ==
  call.pc \in {"dead", "synced"} =>
    /\ \A k \in DOMAIN history : history[k].status # "pending"
    /\ item.status \notin Terminal \cup {"queued"}
    /\ Unverified => item.status \in Busy

\* Ready is said only by calls that have returned.
ReadyAtRest == item.status \in Terminal => call.pc \in {"rest", "closed"}

ItemInv ==
  /\ ItemTypeOK /\ CallKnows /\ AtRest /\ InStage /\ Between /\ Left /\ ReadyAtRest
  /\ ReadyIsVerified /\ AutomaticRepairOnce /\ RepairIsVerified /\ OneOpenStage
  /\ ClosedLeavesNothingOpen

-----------------------------------------------------------------------------
(* Histories.                                                              *)

\* A history with the stages of this one, of which some open ones may have
\* got another status.
SameStages(h) ==
  /\ h \in Seq(Stages) /\ Len(h) = Len(history)
  /\ \A k \in 1..Len(history) :
       /\ h[k].type = history[k].type /\ h[k].trigger = history[k].trigger
       /\ h[k].input = history[k].input
       /\ history[k].status \notin Open => h[k].status = history[k].status

\* A history is a function on 1..Len, and the newest stage is its last.
LEMMA HistoryParts ==
  ASSUME ItemTypeOK
  PROVE  /\ history \in Seq(Stages) /\ Len(history) \in Nat /\ DOMAIN history = 1..Len(history)
         /\ \A k \in 1..Len(history) : history[k] \in Stages
         /\ history # <<>> => Len(history) \in 1..Len(history) /\ Newest \in Stages
         /\ history = <<>> => Len(history) = 0
<1>1. history \in Seq(Stages)
  BY DEF ItemTypeOK
<1>2. Len(history) \in Nat /\ DOMAIN history = 1..Len(history)
  BY <1>1, LenProperties
<1>3. \A k \in 1..Len(history) : history[k] \in Stages
  BY <1>1, ElementOfSeq
<1>4. history # <<>> => Len(history) \in 1..Len(history)
  BY <1>1, EmptySeq
<1>5. history = <<>> => Len(history) = 0
  BY EmptySeq
<1>6. QED
  BY <1>1, <1>2, <1>3, <1>4, <1>5 DEF Newest

\* Closing some open stages keeps the stages.
LEMMA ClosedStages ==
  ASSUME ItemTypeOK, NEW T, NEW from, from \subseteq Open, NEW to \in StageStatuses
  PROVE  /\ SameStages(Closed(history, T, from, to))
         /\ \A k \in 1..Len(history) : Closed(history, T, from, to)[k].status =
              IF history[k].type \in T /\ history[k].status \in from THEN to ELSE history[k].status
<1> DEFINE c == Closed(history, T, from, to)
<1>1. /\ history \in Seq(Stages) /\ Len(history) \in Nat /\ DOMAIN history = 1..Len(history)
      /\ \A k \in 1..Len(history) : history[k] \in Stages
  BY HistoryParts
<1>2. c = [k \in 1..Len(history) |-> IF history[k].type \in T /\ history[k].status \in from
                                    THEN [history[k] EXCEPT !.status = to] ELSE history[k]]
  BY <1>1 DEF Closed
<1>3. \A k \in 1..Len(history) :
        /\ c[k] \in Stages /\ c[k].type = history[k].type /\ c[k].trigger = history[k].trigger
        /\ c[k].input = history[k].input
        /\ c[k].status = IF history[k].type \in T /\ history[k].status \in from
                         THEN to ELSE history[k].status
  BY <1>1, <1>2 DEF Stages
<1>4. c \in [1..Len(history) -> Stages]
  BY <1>2, <1>3
<1>5. c \in Seq(Stages) /\ Len(c) = Len(history)
  BY <1>1, <1>4, SeqDef, LenProperties
<1>6. QED
  BY <1>3, <1>5 DEF SameStages

\* Finishing a running newest stage keeps the stages, and the others as they are.
LEMMA FinishedStages ==
  ASSUME ItemTypeOK, NEW types, NewestIs(types, "running"), NEW status \in StageStatuses,
         Finish(status)
  PROVE  /\ SameStages(history')
         /\ history' # <<>> /\ Newest'.status = status
         /\ Newest'.type = Newest.type /\ Newest'.trigger = Newest.trigger
         /\ Newest'.input = Newest.input
         /\ \A k \in 1..Len(history) : k # Len(history) => history'[k] = history[k]
<1>1. /\ history \in Seq(Stages) /\ Len(history) \in Nat /\ Len(history) \in 1..Len(history)
      /\ \A k \in 1..Len(history) : history[k] \in Stages
  BY HistoryParts DEF NewestIs
<1> DEFINE s == [history[Len(history)] EXCEPT !.status = status]
<1>2. /\ s \in Stages /\ s.type = Newest.type /\ s.trigger = Newest.trigger
      /\ s.input = Newest.input
      /\ s.status = status
  BY <1>1 DEF Stages, Newest
<1>3. history' = [history EXCEPT ![Len(history)] = s]
  BY <1>1 DEF Finish
<1>4. /\ history' \in Seq(Stages) /\ Len(history') = Len(history)
      /\ \A k \in 1..Len(history) : history'[k] = IF k = Len(history) THEN s ELSE history[k]
  BY <1>1, <1>2, <1>3, ExceptSeq
<1>5. Newest' = s
  BY <1>1, <1>4 DEF Newest
<1>6. history' # <<>>
  BY <1>1, <1>4, EmptySeq
<1>7. Newest.status \in Open
  BY DEF NewestIs, Open
<1>8. SameStages(history')
  BY <1>2, <1>4, <1>7 DEF SameStages, Newest
<1>9. QED
  BY <1>2, <1>4, <1>5, <1>6, <1>8

\* A stage appended to a history with the same stages.
LEMMA AppendedStage ==
  ASSUME ItemTypeOK, NEW STATE h, SameStages(h), NEW STATE s, s \in Stages, history' = Append(h, s)
  PROVE  /\ history' \in Seq(Stages) /\ history' # <<>> /\ Newest' = s
         /\ Len(history') = Len(history) + 1
         /\ DOMAIN history' = 1..(Len(history) + 1)
         /\ \A k \in 1..Len(history) : history'[k] = h[k]
         /\ history'[Len(history) + 1] = s
<1>1. h \in Seq(Stages) /\ Len(h) = Len(history) /\ Len(history) \in Nat
  BY HistoryParts DEF SameStages
<1>2. /\ history' \in Seq(Stages) /\ history' # <<>> /\ Len(history') = Len(history) + 1
      /\ \A k \in 1..Len(history) : history'[k] = h[k]
      /\ history'[Len(history) + 1] = s
  BY <1>1, AppendProperties
<1>3. DOMAIN history' = 1..(Len(history) + 1)
  BY <1>2, LenProperties
<1>4. QED
  BY <1>2, <1>3 DEF Newest

\* The history itself has its own stages.
LEMMA SameHistory == ItemTypeOK => SameStages(history)
BY HistoryParts DEF SameStages

\* Repairs stay as the automatic flow allows them when the stages are kept and
\* no stage but the newest comes to succeed.
LEMMA RepairsKept ==
  ASSUME ItemTypeOK, AutomaticRepairOnce, RepairIsVerified, SameStages(history'),
         \A k \in 1..Len(history) : history'[k].status = "succeeded" =>
           history[k].status = "succeeded" \/ k = Len(history)
  PROVE  AutomaticRepairOnce' /\ RepairIsVerified'
<1>0. Len(history) \in Nat
  BY HistoryParts
<1>1. /\ Len(history) \in Nat /\ DOMAIN history = 1..Len(history)
      /\ \A k \in 1..Len(history) : history[k] \in Stages
  BY HistoryParts
<1>2. Len(history') = Len(history) /\ DOMAIN history' = 1..Len(history)
  BY LenProperties DEF SameStages
<1>3. AutomaticRepairOnce'
  <2> SUFFICES ASSUME NEW k \in 1..Len(history), history'[k].trigger = "automatic_repair"
               PROVE  /\ k > 1
                      /\ history'[k - 1].type = "execute" /\ history'[k - 1].status = "failed"
                      /\ history'[k - 1].trigger # "post_repair_verification"
    BY <1>2 DEF AutomaticRepairOnce
  <2>1. /\ k > 1
        /\ history[k - 1].type = "execute" /\ history[k - 1].status = "failed"
        /\ history[k - 1].trigger # "post_repair_verification"
    BY <1>1 DEF AutomaticRepairOnce, SameStages
  <2>2. k - 1 \in 1..Len(history)
    BY <1>0, <2>1
  <2>3. QED
    BY <2>1, <2>2 DEF SameStages, Open
<1>4. RepairIsVerified'
  <2> SUFFICES ASSUME NEW k \in 1..Len(history), history'[k].type \in Repairs,
                      history'[k].status = "succeeded", k < Len(history)
               PROVE  \/ history'[k + 1].type = "execute"
                         /\ history'[k + 1].trigger = "post_repair_verification"
                      \/ history'[k + 1].trigger = "worker_recovery"
    BY <1>2 DEF RepairIsVerified, Repairs
  <2>1. history[k].type \in Repairs /\ history[k].status = "succeeded"
    BY <1>1 DEF SameStages
  <2>2. k + 1 \in 1..Len(history)
    BY <1>0
  <2>3. QED
    BY <1>1, <2>1, <2>2 DEF RepairIsVerified, Repairs, SameStages
<1>5. QED
  BY <1>3, <1>4

\* They stay so as well when a stage is appended that is no automatic repair,
\* or follows a failed execution, and that verifies a repair before it.
LEMMA RepairsGrown ==
  ASSUME ItemTypeOK, AutomaticRepairOnce, RepairIsVerified,
         NEW STATE h, SameStages(h), NEW STATE s, s \in Stages, history' = Append(h, s),
         \A k \in 1..Len(history) : h[k].status = "succeeded" => history[k].status = "succeeded",
         s.trigger = "automatic_repair" =>
           NewestIs({"execute"}, "failed") /\ Newest.trigger # "post_repair_verification",
         Unverified => \/ s.type = "execute" /\ s.trigger = "post_repair_verification"
                       \/ s.trigger = "worker_recovery"
  PROVE  AutomaticRepairOnce' /\ RepairIsVerified'
<1>0. Len(history) \in Nat
  BY HistoryParts
<1>1. /\ Len(history) \in Nat /\ DOMAIN history = 1..Len(history)
      /\ \A k \in 1..Len(history) : history[k] \in Stages
      /\ history # <<>> => Len(history) \in 1..Len(history)
      /\ history = <<>> => Len(history) = 0
  BY HistoryParts
<1>2. /\ Len(history') = Len(history) + 1 /\ DOMAIN history' = 1..(Len(history) + 1)
      /\ \A k \in 1..Len(history) : history'[k] = h[k]
      /\ history'[Len(history) + 1] = s
  BY AppendedStage
<1>3. AutomaticRepairOnce'
  <2> SUFFICES ASSUME NEW k \in 1..(Len(history) + 1), history'[k].trigger = "automatic_repair"
               PROVE  /\ k > 1
                      /\ history'[k - 1].type = "execute" /\ history'[k - 1].status = "failed"
                      /\ history'[k - 1].trigger # "post_repair_verification"
    BY <1>2 DEF AutomaticRepairOnce
  <2>1. CASE k = Len(history) + 1
    <3>1. NewestIs({"execute"}, "failed") /\ Newest.trigger # "post_repair_verification"
      BY <1>2, <2>1
    <3>2. k - 1 = Len(history) /\ k - 1 \in 1..Len(history)
      BY <1>1, <2>1, <3>1 DEF NewestIs
    <3>3. QED
      BY <1>1, <1>2, <3>1, <3>2 DEF NewestIs, Newest, SameStages, Open
  <2>2. CASE k # Len(history) + 1
    <3>1. k \in 1..Len(history)
      BY <1>1, <2>2
    <3>2. /\ k > 1
          /\ history[k - 1].type = "execute" /\ history[k - 1].status = "failed"
          /\ history[k - 1].trigger # "post_repair_verification"
      BY <1>1, <1>2, <3>1 DEF AutomaticRepairOnce, SameStages
    <3>3. k - 1 \in 1..Len(history)
      BY <1>1, <3>1, <3>2
    <3>4. QED
      BY <1>2, <3>2, <3>3 DEF SameStages, Open
  <2>3. QED
    BY <2>1, <2>2
<1>4. RepairIsVerified'
  <2> SUFFICES ASSUME NEW k \in 1..(Len(history) + 1), history'[k].type \in Repairs,
                      history'[k].status = "succeeded", k < Len(history) + 1
               PROVE  \/ history'[k + 1].type = "execute"
                         /\ history'[k + 1].trigger = "post_repair_verification"
                      \/ history'[k + 1].trigger = "worker_recovery"
    BY <1>2 DEF RepairIsVerified, Repairs
  <2>1. k \in 1..Len(history)
    BY <1>1
  <2>2. history[k].type \in Repairs /\ history[k].status = "succeeded"
    BY <1>2, <2>1 DEF SameStages
  <2>3. CASE k = Len(history)
    <3>1. history # <<>>
      BY <1>0, <1>1, <2>1
    <3>2. Unverified
      BY <2>2, <2>3, <3>1 DEF Unverified, NewestIs, Newest
    <3>3. QED
      BY <1>2, <2>3, <3>2
  <2>4. CASE k # Len(history)
    <3>1. k + 1 \in 1..Len(history) /\ k < Len(history)
      BY <1>0, <2>1, <2>4
    <3>2. QED
      BY <1>1, <1>2, <2>1, <2>2, <3>1 DEF RepairIsVerified, Repairs, SameStages
  <2>5. QED
    BY <2>3, <2>4
<1>5. QED
  BY <1>3, <1>4

-----------------------------------------------------------------------------
(* What beginning and finishing a stage does to the invariant.             *)

\* The conjuncts about histories alone.
HistoryInv == AutomaticRepairOnce /\ RepairIsVerified /\ OneOpenStage

\* The conjuncts that tie the item and its history to the call.
PointInv ==
  /\ CallKnows /\ AtRest /\ InStage /\ Between /\ Left /\ ReadyAtRest
  /\ ReadyIsVerified /\ ClosedLeavesNothingOpen

\* Only the newest stage may be open.
NewestOpen ==
  \A k \in DOMAIN history : history[k].status \in Open => k = Len(history) /\ history[k] = Newest

\* The parts are the whole.
LEMMA InvParts == ItemInv <=> ItemTypeOK /\ HistoryInv /\ PointInv
BY DEF ItemInv, HistoryInv, PointInv

\* The records of the type invariant, named.
ItemRecord == [status : ItemStatuses, included : BOOLEAN, rev : 0..MaxRev, planned : 0..MaxRev]
CallRecord ==
  [pc : {"rest", "work", "execute", "run", "repair", "await", "analyze", "ready", "block",
   "blocked",
         "edit", "abandon", "aborted", "dead", "synced", "closed"},
   trigger : Triggers, auto : BOOLEAN]

\* The type invariant, one variable at a time.
LEMMA TypeParts ==
  ItemTypeOK <=>
    /\ item \in ItemRecord /\ history \in Seq(Stages) /\ call \in CallRecord
    /\ file \in 0..MaxRev /\ last \in 0..MaxRev /\ crashes \in 0..MaxCrashes
BY DEF ItemTypeOK, ItemRecord, CallRecord

\* A stage made for the item.
LEMMA StageTyped ==
  ASSUME ItemTypeOK, NEW type \in Types, NEW trigger \in Triggers, NEW status \in StageStatuses
  PROVE  /\ Stage(type, trigger, status) \in Stages
         /\ Stage(type, trigger, status).type = type
         /\ Stage(type, trigger, status).trigger = trigger
         /\ Stage(type, trigger, status).status = status
         /\ Stage(type, trigger, status).input = item.rev
BY TypeParts DEF Stage, Stages, ItemRecord

\* Finishing the newest stage, the only open one, keeps the history's rules.
LEMMA FinishKeeps ==
  ASSUME ItemInv, NEW types, NewestIs(types, "running"), NEW status \in StageStatuses,
         Finish(status)
  PROVE  /\ HistoryInv' /\ NewestOpen' /\ history' \in Seq(Stages)
         /\ status \notin Open => NoneOpen'
         /\ history' # <<>> /\ Newest'.status = status
         /\ Newest'.type = Newest.type /\ Newest'.trigger = Newest.trigger
         /\ Newest'.input = Newest.input
<1>0. ItemTypeOK
  BY DEF ItemInv
<1>1. /\ SameStages(history')
      /\ \A k \in 1..Len(history) : k # Len(history) => history'[k] = history[k]
      /\ history' # <<>> /\ Newest'.status = status
      /\ Newest'.type = Newest.type /\ Newest'.trigger = Newest.trigger
      /\ Newest'.input = Newest.input
  BY <1>0, FinishedStages
<1>2. /\ DOMAIN history = 1..Len(history) /\ Len(history) \in 1..Len(history)
      /\ Len(history) \in Nat
  BY <1>0, HistoryParts DEF NewestIs
<1>3. DOMAIN history' = 1..Len(history) /\ Len(history') = Len(history)
  BY <1>1, LenProperties DEF SameStages
<1>4. \A k \in 1..Len(history) : history'[k].status = "succeeded" =>
        history[k].status = "succeeded" \/ k = Len(history)
  BY <1>1
<1>5. AutomaticRepairOnce' /\ RepairIsVerified'
  BY <1>0, <1>1, <1>4, RepairsKept DEF ItemInv
<1>6. \A k \in 1..Len(history) : history[k].status \in Open => k = Len(history)
  BY <1>2 DEF ItemInv, OneOpenStage, NewestIs, Newest, Open
<1>7. NewestOpen'
  BY <1>1, <1>3, <1>6 DEF NewestOpen, Newest
<1>8. OneOpenStage'
  BY <1>7 DEF NewestOpen, OneOpenStage
<1>9. status \notin Open => NoneOpen'
  BY <1>1, <1>7 DEF NewestOpen, NoneOpen, Newest
<1>10. QED
  BY <1>1, <1>5, <1>7, <1>8, <1>9 DEF HistoryInv, SameStages

\* Beginning a stage when no other is open keeps the history's rules.
LEMMA BeginKeeps ==
  ASSUME ItemInv, NEW STATE h, SameStages(h), NEW STATE s, s \in Stages, history' = Append(h, s),
         \A k \in 1..Len(history) : h[k].status \notin Open,
         \A k \in 1..Len(history) : h[k].status = "succeeded" => history[k].status = "succeeded",
         s.trigger = "automatic_repair" =>
           NewestIs({"execute"}, "failed") /\ Newest.trigger # "post_repair_verification",
         Unverified => \/ s.type = "execute" /\ s.trigger = "post_repair_verification"
                       \/ s.trigger = "worker_recovery"
  PROVE  /\ HistoryInv' /\ NewestOpen' /\ history' \in Seq(Stages) /\ history' # <<>> /\ Newest' = s
         /\ \A k \in DOMAIN history' : history'[k].status \in Open => history'[k] = s
<1>0. ItemTypeOK
  BY DEF ItemInv
<1>1. /\ history' \in Seq(Stages) /\ history' # <<>> /\ Newest' = s
      /\ Len(history') = Len(history) + 1
      /\ DOMAIN history' = 1..(Len(history) + 1)
      /\ \A k \in 1..Len(history) : history'[k] = h[k]
      /\ history'[Len(history) + 1] = s
  BY <1>0, AppendedStage
<1>2. AutomaticRepairOnce' /\ RepairIsVerified'
  BY <1>0, RepairsGrown DEF ItemInv
<1>3. Len(history) \in Nat
  BY <1>0, HistoryParts
<1>4. \A k \in DOMAIN history' : history'[k].status \in Open => k = Len(history) + 1
  <2> SUFFICES ASSUME NEW k \in 1..(Len(history) + 1), k # Len(history) + 1
               PROVE  history'[k].status \notin Open
    BY <1>1
  <2>1. k \in 1..Len(history)
    BY <1>3
  <2>2. QED
    BY <1>1, <2>1
<1>5. NewestOpen' /\ OneOpenStage'
  BY <1>1, <1>4 DEF NewestOpen, OneOpenStage, Newest
<1>6. QED
  BY <1>1, <1>2, <1>4, <1>5 DEF HistoryInv

-----------------------------------------------------------------------------
(* The actions.                                                            *)

\* Writing the file and following it keeps the types.
LEMMA SyncTyped ==
  ASSUME ItemTypeOK, Sync
  PROVE  file' \in 0..MaxRev /\ last' \in 0..MaxRev
BY TypeParts, BoundsAssumption DEF Sync, Write, BoundsAssumption

\* So does writing the file alone.
LEMMA WriteTyped ==
  ASSUME ItemTypeOK, Write
  PROVE  file' \in 0..MaxRev /\ last' \in 0..MaxRev
BY TypeParts, BoundsAssumption DEF Write, BoundsAssumption

\* A generation or a repair that succeeds, before its execution.
LEMMA WorkSucceedsStep ==
  ASSUME ItemInv, WorkSucceeds
  PROVE  ItemInv'
<1>1. ItemTypeOK /\ PointInv
  BY InvParts
<1>2. NewestIs({"generate", "regenerate"} \cup Repairs, "running") /\ Finish("succeeded")
  BY <1>1 DEF WorkSucceeds, PointInv, InStage
<1>3. /\ HistoryInv' /\ NewestOpen' /\ history' \in Seq(Stages)
      /\ "succeeded" \notin Open => NoneOpen'
      /\ history' # <<>> /\ Newest'.status = "succeeded"
      /\ Newest'.type = Newest.type /\ Newest'.trigger = Newest.trigger
      /\ Newest'.input = Newest.input
  BY <1>2, FinishKeeps DEF StageStatuses
<1>4. item \in ItemRecord /\ call \in CallRecord /\ Newest.type \in Types
  BY <1>1, <1>2, TypeParts, HistoryParts DEF NewestIs, Stages
<1>5. ItemTypeOK'
  <2>1. file' \in 0..MaxRev /\ last' \in 0..MaxRev /\ crashes' \in 0..MaxCrashes
    BY <1>1, SyncTyped, TypeParts DEF WorkSucceeds
  <2>2. item' \in ItemRecord
    BY <1>4, <2>1 DEF WorkSucceeds, Follow, ItemRecord, ItemStatuses, Terminal
  <2>3. call' \in CallRecord
    BY <1>4 DEF WorkSucceeds, Goto, CallRecord, Triggers
  <2>4. QED
    BY <1>3, <2>1, <2>2, <2>3 DEF ItemTypeOK, ItemRecord, CallRecord
<1>6. PointInv'
  BY <1>1, <1>2, <1>3, <1>4 DEF WorkSucceeds, Follow, Goto, ItemRecord, CallRecord, PointInv,
     NewestOpen,
     CallKnows, AtRest, InStage, Between, Left, ReadyAtRest, ReadyIsVerified,
       ClosedLeavesNothingOpen, NewestIs, Unverified, NoneOpen, Repairs, Busy, Terminal, Open
<1>7. QED
  BY <1>3, <1>5, <1>6 DEF ItemInv, HistoryInv, PointInv

\* One that fails, before a human is asked.
LEMMA WorkFailsStep ==
  ASSUME ItemInv, WorkFails
  PROVE  ItemInv'
<1>1. ItemTypeOK /\ PointInv
  BY InvParts
<1>2. NewestIs({"generate", "regenerate"} \cup Repairs, "running") /\ Finish("failed")
  BY <1>1 DEF WorkFails, PointInv, InStage
<1>3. /\ HistoryInv' /\ NewestOpen' /\ history' \in Seq(Stages)
      /\ "failed" \notin Open => NoneOpen'
      /\ history' # <<>> /\ Newest'.status = "failed"
      /\ Newest'.type = Newest.type /\ Newest'.trigger = Newest.trigger
      /\ Newest'.input = Newest.input
  BY <1>2, FinishKeeps DEF StageStatuses
<1>4. item \in ItemRecord /\ call \in CallRecord /\ Newest.type \in Types
  BY <1>1, <1>2, TypeParts, HistoryParts DEF NewestIs, Stages
<1>5. ItemTypeOK'
  <2>1. file' \in 0..MaxRev /\ last' \in 0..MaxRev /\ crashes' \in 0..MaxCrashes
    BY <1>1, SyncTyped, TypeParts DEF WorkFails
  <2>2. item' \in ItemRecord
    BY <1>4, <2>1 DEF WorkFails, Follow, ItemRecord, ItemStatuses, Terminal
  <2>3. call' \in CallRecord
    BY <1>4 DEF WorkFails, Goto, CallRecord, Triggers
  <2>4. QED
    BY <1>3, <2>1, <2>2, <2>3 DEF ItemTypeOK, ItemRecord, CallRecord
<1>6. PointInv'
  BY <1>1, <1>2, <1>3, <1>4 DEF WorkFails, Follow, Goto, ItemRecord, CallRecord, PointInv,
     NewestOpen,
     CallKnows, AtRest, InStage, Between, Left, ReadyAtRest, ReadyIsVerified,
       ClosedLeavesNothingOpen, NewestIs, Unverified, NoneOpen, Repairs, Busy, Terminal, Open
<1>7. QED
  BY <1>3, <1>5, <1>6 DEF ItemInv, HistoryInv, PointInv

\* An execution that succeeds, before the item is ready.
LEMMA RunSucceedsStep ==
  ASSUME ItemInv, RunSucceeds
  PROVE  ItemInv'
<1>1. ItemTypeOK /\ PointInv
  BY InvParts
<1>2. NewestIs({"execute"}, "running") /\ Finish("succeeded")
  BY <1>1 DEF RunSucceeds, PointInv, InStage
<1>3. /\ HistoryInv' /\ NewestOpen' /\ history' \in Seq(Stages)
      /\ "succeeded" \notin Open => NoneOpen'
      /\ history' # <<>> /\ Newest'.status = "succeeded"
      /\ Newest'.type = Newest.type /\ Newest'.trigger = Newest.trigger
      /\ Newest'.input = Newest.input
  BY <1>2, FinishKeeps DEF StageStatuses
<1>4. item \in ItemRecord /\ call \in CallRecord /\ Newest.type \in Types
  BY <1>1, <1>2, TypeParts, HistoryParts DEF NewestIs, Stages
<1>5. ItemTypeOK'
  <2>1. file' \in 0..MaxRev /\ last' \in 0..MaxRev /\ crashes' \in 0..MaxCrashes
    BY <1>1, SyncTyped, TypeParts DEF RunSucceeds
  <2>2. item' \in ItemRecord
    BY <1>4, <2>1 DEF RunSucceeds, Follow, ItemRecord, ItemStatuses, Terminal
  <2>3. call' \in CallRecord
    BY <1>4 DEF RunSucceeds, Goto, CallRecord, Triggers
  <2>4. QED
    BY <1>3, <2>1, <2>2, <2>3 DEF ItemTypeOK, ItemRecord, CallRecord
<1>6. PointInv'
  BY <1>1, <1>2, <1>3, <1>4 DEF RunSucceeds, Follow, Goto, ItemRecord, CallRecord, PointInv,
     NewestOpen,
     CallKnows, AtRest, InStage, Between, Left, ReadyAtRest, ReadyIsVerified,
       ClosedLeavesNothingOpen, NewestIs, Unverified, NoneOpen, Repairs, Busy, Terminal, Open
<1>7. QED
  BY <1>3, <1>5, <1>6 DEF ItemInv, HistoryInv, PointInv

\* An execution that fails, before a repair or a human.
LEMMA RunFailsStep ==
  ASSUME ItemInv, RunFails
  PROVE  ItemInv'
<1>1. ItemTypeOK /\ PointInv
  BY InvParts
<1>2. NewestIs({"execute"}, "running") /\ Finish("failed")
  BY <1>1 DEF RunFails, PointInv, InStage
<1>3. /\ HistoryInv' /\ NewestOpen' /\ history' \in Seq(Stages)
      /\ "failed" \notin Open => NoneOpen'
      /\ history' # <<>> /\ Newest'.status = "failed"
      /\ Newest'.type = Newest.type /\ Newest'.trigger = Newest.trigger
      /\ Newest'.input = Newest.input
  BY <1>2, FinishKeeps DEF StageStatuses
<1>4. item \in ItemRecord /\ call \in CallRecord /\ Newest.type \in Types
  BY <1>1, <1>2, TypeParts, HistoryParts DEF NewestIs, Stages
<1>5. ItemTypeOK'
  <2>1. file' \in 0..MaxRev /\ last' \in 0..MaxRev /\ crashes' \in 0..MaxCrashes
    BY <1>1, SyncTyped, TypeParts DEF RunFails
  <2>2. item' \in ItemRecord
    BY <1>4, <2>1 DEF RunFails, Follow, ItemRecord, ItemStatuses, Terminal
  <2>3. call' \in CallRecord
    BY <1>4 DEF RunFails, Goto, CallRecord, Triggers
  <2>4. QED
    BY <1>3, <2>1, <2>2, <2>3 DEF ItemTypeOK, ItemRecord, CallRecord
<1>6. PointInv'
  BY <1>1, <1>2, <1>3, <1>4 DEF RunFails, Follow, Goto, ItemRecord, CallRecord, PointInv,
     NewestOpen,
     CallKnows, AtRest, InStage, Between, Left, ReadyAtRest, ReadyIsVerified,
       ClosedLeavesNothingOpen, NewestIs, Unverified, NoneOpen, Repairs, Busy, Terminal, Open
<1>7. QED
  BY <1>3, <1>5, <1>6 DEF ItemInv, HistoryInv, PointInv

\* A review that waits for the client.
LEMMA AnalyzedStep ==
  ASSUME ItemInv, Analyzed
  PROVE  ItemInv'
<1>1. ItemTypeOK /\ PointInv
  BY InvParts
<1>2. NewestIs({"human_review"}, "running") /\ Finish("pending")
  BY <1>1 DEF Analyzed, PointInv, InStage
<1>3. /\ HistoryInv' /\ NewestOpen' /\ history' \in Seq(Stages)
      /\ "pending" \notin Open => NoneOpen'
      /\ history' # <<>> /\ Newest'.status = "pending"
      /\ Newest'.type = Newest.type /\ Newest'.trigger = Newest.trigger
      /\ Newest'.input = Newest.input
  BY <1>2, FinishKeeps DEF StageStatuses
<1>4. item \in ItemRecord /\ call \in CallRecord /\ Newest.type \in Types
  BY <1>1, <1>2, TypeParts, HistoryParts DEF NewestIs, Stages
<1>5. ItemTypeOK'
  <2>1. file' \in 0..MaxRev /\ last' \in 0..MaxRev /\ crashes' \in 0..MaxCrashes
    BY <1>1, SyncTyped, TypeParts DEF Analyzed
  <2>2. item' \in ItemRecord
    BY <1>4, <2>1 DEF Analyzed, Follow, ItemRecord, ItemStatuses, Terminal
  <2>3. call' \in CallRecord
    BY <1>4 DEF Analyzed, Goto, CallRecord, Triggers
  <2>4. QED
    BY <1>3, <2>1, <2>2, <2>3 DEF ItemTypeOK, ItemRecord, CallRecord
<1>6. PointInv'
  BY <1>1, <1>2, <1>3, <1>4 DEF Analyzed, Follow, Goto, ItemRecord, CallRecord, PointInv,
     NewestOpen,
     CallKnows, AtRest, InStage, Between, Left, ReadyAtRest, ReadyIsVerified,
       ClosedLeavesNothingOpen, NewestIs, Unverified, NoneOpen, Repairs, Busy, Terminal, Open
<1>7. QED
  BY <1>3, <1>5, <1>6 DEF ItemInv, HistoryInv, PointInv

\* An item parked by the environment.
LEMMA BlockEndsStep ==
  ASSUME ItemInv, BlockEnds
  PROVE  ItemInv'
<1>1. ItemTypeOK /\ PointInv
  BY InvParts
<1>2. NewestIs({"blocked"}, "running") /\ Finish("blocked")
  BY <1>1 DEF BlockEnds, PointInv, InStage
<1>3. /\ HistoryInv' /\ NewestOpen' /\ history' \in Seq(Stages)
      /\ "blocked" \notin Open => NoneOpen'
      /\ history' # <<>> /\ Newest'.status = "blocked"
      /\ Newest'.type = Newest.type /\ Newest'.trigger = Newest.trigger
      /\ Newest'.input = Newest.input
  BY <1>2, FinishKeeps DEF StageStatuses
<1>4. item \in ItemRecord /\ call \in CallRecord /\ Newest.type \in Types
  BY <1>1, <1>2, TypeParts, HistoryParts DEF NewestIs, Stages
<1>5. ItemTypeOK'
  <2>1. file' \in 0..MaxRev /\ last' \in 0..MaxRev /\ crashes' \in 0..MaxCrashes
    BY <1>1, SyncTyped, TypeParts DEF BlockEnds
  <2>2. item' \in ItemRecord
    BY <1>4, <2>1 DEF BlockEnds, Follow, ItemRecord, ItemStatuses, Terminal
  <2>3. call' \in CallRecord
    BY <1>4 DEF BlockEnds, Goto, CallRecord, Triggers
  <2>4. QED
    BY <1>3, <2>1, <2>2, <2>3 DEF ItemTypeOK, ItemRecord, CallRecord
<1>6. PointInv'
  BY <1>1, <1>2, <1>3, <1>4 DEF BlockEnds, Follow, Goto, ItemRecord, CallRecord, PointInv,
     NewestOpen,
     CallKnows, AtRest, InStage, Between, Left, ReadyAtRest, ReadyIsVerified,
       ClosedLeavesNothingOpen, NewestIs, Unverified, NoneOpen, Repairs, Busy, Terminal, Open
<1>7. QED
  BY <1>3, <1>5, <1>6 DEF ItemInv, HistoryInv, PointInv

\* An edit that is saved.
LEMMA EditSucceedsStep ==
  ASSUME ItemInv, EditSucceeds
  PROVE  ItemInv'
<1>1. ItemTypeOK /\ PointInv
  BY InvParts
<1>2. NewestIs({"manual_edit"}, "running") /\ Finish("succeeded")
  BY <1>1 DEF EditSucceeds, PointInv, InStage
<1>3. /\ HistoryInv' /\ NewestOpen' /\ history' \in Seq(Stages)
      /\ "succeeded" \notin Open => NoneOpen'
      /\ history' # <<>> /\ Newest'.status = "succeeded"
      /\ Newest'.type = Newest.type /\ Newest'.trigger = Newest.trigger
      /\ Newest'.input = Newest.input
  BY <1>2, FinishKeeps DEF StageStatuses
<1>4. item \in ItemRecord /\ call \in CallRecord /\ Newest.type \in Types
  BY <1>1, <1>2, TypeParts, HistoryParts DEF NewestIs, Stages
<1>5. ItemTypeOK'
  <2>1. file' \in 0..MaxRev /\ last' \in 0..MaxRev /\ crashes' \in 0..MaxCrashes
    BY <1>1, SyncTyped, TypeParts DEF EditSucceeds
  <2>2. item' \in ItemRecord
    BY <1>4, <2>1 DEF EditSucceeds, Follow, ItemRecord, ItemStatuses, Terminal
  <2>3. call' \in CallRecord
    <3>1. CASE Goto("rest")
      BY <1>4, <3>1 DEF Goto, CallRecord
    <3>2. CASE call' = [pc |-> "execute", trigger |-> "manual_edit_execute", auto |-> TRUE]
      BY <3>2 DEF CallRecord, Triggers
    <3>3. QED
      BY <3>1, <3>2 DEF EditSucceeds
  <2>4. QED
    BY <1>3, <2>1, <2>2, <2>3 DEF ItemTypeOK, ItemRecord, CallRecord
<1>6. PointInv'
  BY <1>1, <1>2, <1>3, <1>4 DEF EditSucceeds, Follow, Goto, ItemRecord, CallRecord, PointInv,
     NewestOpen,
     CallKnows, AtRest, InStage, Between, Left, ReadyAtRest, ReadyIsVerified,
       ClosedLeavesNothingOpen, NewestIs, Unverified, NoneOpen, Repairs, Busy, Terminal, Open
<1>7. QED
  BY <1>3, <1>5, <1>6 DEF ItemInv, HistoryInv, PointInv

\* An edit that is not.
LEMMA EditFailsStep ==
  ASSUME ItemInv, EditFails
  PROVE  ItemInv'
<1>1. ItemTypeOK /\ PointInv
  BY InvParts
<1>2. NewestIs({"manual_edit"}, "running") /\ Finish("failed")
  BY <1>1 DEF EditFails, PointInv, InStage
<1>3. /\ HistoryInv' /\ NewestOpen' /\ history' \in Seq(Stages)
      /\ "failed" \notin Open => NoneOpen'
      /\ history' # <<>> /\ Newest'.status = "failed"
      /\ Newest'.type = Newest.type /\ Newest'.trigger = Newest.trigger
      /\ Newest'.input = Newest.input
  BY <1>2, FinishKeeps DEF StageStatuses
<1>4. item \in ItemRecord /\ call \in CallRecord /\ Newest.type \in Types
  BY <1>1, <1>2, TypeParts, HistoryParts DEF NewestIs, Stages
<1>5. ItemTypeOK'
  <2>1. file' \in 0..MaxRev /\ last' \in 0..MaxRev /\ crashes' \in 0..MaxCrashes
    BY <1>1, SyncTyped, TypeParts DEF EditFails
  <2>2. item' \in ItemRecord
    BY <1>4, <2>1 DEF EditFails, Follow, ItemRecord, ItemStatuses, Terminal
  <2>3. call' \in CallRecord
    BY <1>4 DEF EditFails, Goto, CallRecord, Triggers
  <2>4. QED
    BY <1>3, <2>1, <2>2, <2>3 DEF ItemTypeOK, ItemRecord, CallRecord
<1>6. PointInv'
  BY <1>1, <1>2, <1>3, <1>4 DEF EditFails, Follow, Goto, ItemRecord, CallRecord, PointInv,
     NewestOpen,
     CallKnows, AtRest, InStage, Between, Left, ReadyAtRest, ReadyIsVerified,
       ClosedLeavesNothingOpen, NewestIs, Unverified, NoneOpen, Repairs, Busy, Terminal, Open
<1>7. QED
  BY <1>3, <1>5, <1>6 DEF ItemInv, HistoryInv, PointInv

\* An item the client gives up.
LEMMA AbandonEndsStep ==
  ASSUME ItemInv, AbandonEnds
  PROVE  ItemInv'
<1>1. ItemTypeOK /\ PointInv
  BY InvParts
<1>2. NewestIs({"abandon"}, "running") /\ Finish("succeeded")
  BY <1>1 DEF AbandonEnds, PointInv, InStage
<1>3. /\ HistoryInv' /\ NewestOpen' /\ history' \in Seq(Stages)
      /\ "succeeded" \notin Open => NoneOpen'
      /\ history' # <<>> /\ Newest'.status = "succeeded"
      /\ Newest'.type = Newest.type /\ Newest'.trigger = Newest.trigger
      /\ Newest'.input = Newest.input
  BY <1>2, FinishKeeps DEF StageStatuses
<1>4. item \in ItemRecord /\ call \in CallRecord /\ Newest.type \in Types
  BY <1>1, <1>2, TypeParts, HistoryParts DEF NewestIs, Stages
<1>5. ItemTypeOK'
  <2>1. file' \in 0..MaxRev /\ last' \in 0..MaxRev /\ crashes' \in 0..MaxCrashes
    BY <1>1, SyncTyped, TypeParts DEF AbandonEnds
  <2>2. item' \in ItemRecord
    BY <1>4, <2>1 DEF AbandonEnds, Follow, ItemRecord, ItemStatuses, Terminal
  <2>3. call' \in CallRecord
    BY <1>4 DEF AbandonEnds, Goto, CallRecord, Triggers
  <2>4. QED
    BY <1>3, <2>1, <2>2, <2>3 DEF ItemTypeOK, ItemRecord, CallRecord
<1>6. PointInv'
  BY <1>1, <1>2, <1>3, <1>4 DEF AbandonEnds, Follow, Goto, ItemRecord, CallRecord, PointInv,
     NewestOpen,
     CallKnows, AtRest, InStage, Between, Left, ReadyAtRest, ReadyIsVerified,
       ClosedLeavesNothingOpen, NewestIs, Unverified, NoneOpen, Repairs, Busy, Terminal, Open
<1>7. QED
  BY <1>3, <1>5, <1>6 DEF ItemInv, HistoryInv, PointInv

\* The reviews resolved by a client's action leave nothing open.
LEMMA ResolvedStages ==
  ASSUME ItemInv, Resting
  PROVE  /\ SameStages(Resolved(history))
         /\ \A k \in 1..Len(history) : Resolved(history)[k].status \notin Open
         /\ \A k \in 1..Len(history) :
              Resolved(history)[k].status = "succeeded" => history[k].status = "succeeded"
<1>1. ItemTypeOK /\ DOMAIN history = 1..Len(history)
  BY HistoryParts DEF ItemInv
<1>2. /\ SameStages(Resolved(history))
      /\ \A k \in 1..Len(history) : Resolved(history)[k].status =
           IF history[k].type \in {"human_review"} /\ history[k].status \in {"pending"}
           THEN "resolved" ELSE history[k].status
  BY <1>1, ClosedStages DEF Resolved, Open, StageStatuses
<1>3. QED
  BY <1>1, <1>2 DEF ItemInv, AtRest, Resting, Open

\* The first generation.
LEMMA GenerateStep ==
  ASSUME ItemInv, Generate
  PROVE  ItemInv'
<1> DEFINE s == Stage("generate", "automatic", "running")
<1>1. ItemTypeOK /\ PointInv /\ item \in ItemRecord /\ call \in CallRecord
  BY InvParts, TypeParts
<1>2. history' = Append(history, s)
  BY DEF Generate, Begin
<1>3. /\ s \in Stages /\ s.type = "generate" /\ s.trigger = "automatic" /\ s.status = "running"
      /\ s.input = item.rev
  <2>1. "generate" \in Types /\ "automatic" \in Triggers /\ "running" \in StageStatuses
    BY <1>1 DEF Types, Triggers, StageStatuses, CallRecord
  <2>2. QED
    BY <1>1, <2>1, StageTyped
<1>4. /\ SameStages(history)
      /\ \A k \in 1..Len(history) : history[k].status \notin Open
  BY <1>1, SameHistory, HistoryParts DEF Generate, PointInv, AtRest, Between, Resting, NoneOpen
<1>5. ~Unverified
  BY <1>1 DEF Generate, Acts, Resting, PointInv, AtRest, Between, Unverified, NewestIs, Repairs
<1>6. s.trigger # "automatic_repair"
  BY <1>1, <1>3 DEF PointInv, CallKnows
<1>7. /\ HistoryInv' /\ NewestOpen' /\ history' \in Seq(Stages) /\ history' # <<>> /\ Newest' = s
      /\ \A k \in DOMAIN history' : history'[k].status \in Open => history'[k] = s
  <2> HIDE DEF s
  <2>1. QED
    BY <1>2, <1>3, <1>4, <1>5, <1>6, BeginKeeps
<1>8. item' \in ItemRecord /\ item'.rev = item.rev
  BY <1>1 DEF Generate, Begin, StatusOf, ItemRecord, ItemStatuses, Busy, Terminal
<1>9. call' \in CallRecord
  BY <1>1 DEF Generate, Goto, CallRecord, Triggers
<1>10. ItemTypeOK'
  BY <1>1, <1>7, <1>8, <1>9, TypeParts DEF Generate, ItemTypeOK, ItemRecord, CallRecord
<1>11. PointInv'
  <2> HIDE DEF s
  <2>1. QED
    BY <1>1, <1>3, <1>5, <1>7, <1>8 DEF Generate, Acts, Resting, Begin, StatusOf, Goto,
       ItemRecord, CallRecord,
       PointInv, NewestOpen, Types,
       CallKnows, AtRest, InStage, Between, Left, ReadyAtRest, ReadyIsVerified,
       ClosedLeavesNothingOpen, NewestIs, Unverified, NoneOpen, Repairs, Busy, Terminal, Open
<1>12. QED
  BY <1>7, <1>10, <1>11 DEF ItemInv, HistoryInv, PointInv

\* An execution after a generation, a repair or an edit.
LEMMA ExecuteStep ==
  ASSUME ItemInv, Execute
  PROVE  ItemInv'
<1> DEFINE s == Stage("execute", call.trigger, "running")
<1>1. ItemTypeOK /\ PointInv /\ item \in ItemRecord /\ call \in CallRecord
  BY InvParts, TypeParts
<1>2. history' = Append(history, s)
  BY DEF Execute, Begin
<1>3. /\ s \in Stages /\ s.type = "execute" /\ s.trigger = call.trigger /\ s.status = "running"
      /\ s.input = item.rev
  <2>1. "execute" \in Types /\ call.trigger \in Triggers /\ "running" \in StageStatuses
    BY <1>1 DEF Types, Triggers, StageStatuses, CallRecord
  <2>2. QED
    BY <1>1, <2>1, StageTyped
<1>4. /\ SameStages(history)
      /\ \A k \in 1..Len(history) : history[k].status \notin Open
  BY <1>1, SameHistory, HistoryParts DEF Execute, PointInv, AtRest, Between, Resting, NoneOpen
<1>5. Unverified => call.trigger = "post_repair_verification"
  BY <1>1 DEF Execute, Acts, Resting, PointInv, AtRest, Between, Unverified, NewestIs, Repairs
<1>6. s.trigger # "automatic_repair"
  BY <1>1, <1>3 DEF PointInv, CallKnows
<1>7. /\ HistoryInv' /\ NewestOpen' /\ history' \in Seq(Stages) /\ history' # <<>> /\ Newest' = s
      /\ \A k \in DOMAIN history' : history'[k].status \in Open => history'[k] = s
  <2> HIDE DEF s
  <2>1. QED
    BY <1>2, <1>3, <1>4, <1>5, <1>6, BeginKeeps
<1>8. item' \in ItemRecord /\ item'.rev = item.rev
  BY <1>1 DEF Execute, Begin, StatusOf, ItemRecord, ItemStatuses, Busy, Terminal
<1>9. call' \in CallRecord
  BY <1>1 DEF Execute, Goto, CallRecord, Triggers
<1>10. ItemTypeOK'
  BY <1>1, <1>7, <1>8, <1>9, TypeParts DEF Execute, ItemTypeOK, ItemRecord, CallRecord
<1>11. PointInv'
  <2> HIDE DEF s
  <2>1. QED
    BY <1>1, <1>3, <1>5, <1>7, <1>8 DEF Execute, Acts, Resting, Begin, StatusOf, Goto,
       ItemRecord, CallRecord,
       PointInv, NewestOpen, Types,
       CallKnows, AtRest, InStage, Between, Left, ReadyAtRest, ReadyIsVerified,
       ClosedLeavesNothingOpen, NewestIs, Unverified, NoneOpen, Repairs, Busy, Terminal, Open
<1>12. QED
  BY <1>7, <1>10, <1>11 DEF ItemInv, HistoryInv, PointInv

\* The automatic repair.
LEMMA RepairStep ==
  ASSUME ItemInv, Repair
  PROVE  ItemInv'
<1> DEFINE s == Stage("repair", "automatic_repair", "running")
<1>1. ItemTypeOK /\ PointInv /\ item \in ItemRecord /\ call \in CallRecord
  BY InvParts, TypeParts
<1>2. history' = Append(history, s)
  BY DEF Repair, Begin
<1>3. /\ s \in Stages /\ s.type = "repair" /\ s.trigger = "automatic_repair" /\ s.status = "running"
      /\ s.input = item.rev
  <2>1. "repair" \in Types /\ "automatic_repair" \in Triggers /\ "running" \in StageStatuses
    BY <1>1 DEF Types, Triggers, StageStatuses, CallRecord
  <2>2. QED
    BY <1>1, <2>1, StageTyped
<1>4. /\ SameStages(history)
      /\ \A k \in 1..Len(history) : history[k].status \notin Open
  BY <1>1, SameHistory, HistoryParts DEF Repair, PointInv, AtRest, Between, Resting, NoneOpen
<1>5. ~Unverified
  BY <1>1 DEF Repair, Acts, Resting, PointInv, AtRest, Between, Unverified, NewestIs, Repairs 
<1>6. NewestIs({"execute"}, "failed") /\ Newest.trigger # "post_repair_verification"
  BY <1>1 DEF Repair, PointInv, Between
<1>7. /\ HistoryInv' /\ NewestOpen' /\ history' \in Seq(Stages) /\ history' # <<>> /\ Newest' = s
      /\ \A k \in DOMAIN history' : history'[k].status \in Open => history'[k] = s
  <2> HIDE DEF s
  <2>1. QED
    BY <1>2, <1>3, <1>4, <1>5, <1>6, BeginKeeps
<1>8. item' \in ItemRecord /\ item'.rev = item.rev
  BY <1>1 DEF Repair, Begin, StatusOf, ItemRecord, ItemStatuses, Busy, Terminal
<1>9. call' \in CallRecord
  BY <1>1 DEF Repair, Goto, CallRecord, Triggers
<1>10. ItemTypeOK'
  BY <1>1, <1>7, <1>8, <1>9, TypeParts DEF Repair, ItemTypeOK, ItemRecord, CallRecord
<1>11. PointInv'
  <2> HIDE DEF s
  <2>1. QED
    BY <1>1, <1>3, <1>5, <1>7, <1>8 DEF Repair, Acts, Resting, Begin, StatusOf, Goto,
       ItemRecord, CallRecord,
       PointInv, NewestOpen, Types,
       CallKnows, AtRest, InStage, Between, Left, ReadyAtRest, ReadyIsVerified,
       ClosedLeavesNothingOpen, NewestIs, Unverified, NoneOpen, Repairs, Busy, Terminal, Open
<1>12. QED
  BY <1>7, <1>10, <1>11 DEF ItemInv, HistoryInv, PointInv

\* The review.
LEMMA AwaitStep ==
  ASSUME ItemInv, Await
  PROVE  ItemInv'
<1> DEFINE s == Stage("human_review", "automatic_analysis", "running")
<1>1. ItemTypeOK /\ PointInv /\ item \in ItemRecord /\ call \in CallRecord
  BY InvParts, TypeParts
<1>2. history' = Append(history, s)
  BY DEF Await, Begin
<1>3. /\ s \in Stages /\ s.type = "human_review" /\ s.trigger = "automatic_analysis"
      /\ s.status = "running"
      /\ s.input = item.rev
  <2>1. "human_review" \in Types /\ "automatic_analysis" \in Triggers /\ "running" \in StageStatuses
    BY <1>1 DEF Types, Triggers, StageStatuses, CallRecord
  <2>2. QED
    BY <1>1, <2>1, StageTyped
<1>4. /\ SameStages(history)
      /\ \A k \in 1..Len(history) : history[k].status \notin Open
  BY <1>1, SameHistory, HistoryParts DEF Await, PointInv, AtRest, Between, Resting, NoneOpen
<1>5. ~Unverified
  BY <1>1 DEF Await, Acts, Resting, PointInv, AtRest, Between, Unverified, NewestIs, Repairs
<1>6. s.trigger # "automatic_repair"
  BY <1>1, <1>3 DEF PointInv, CallKnows
<1>7. /\ HistoryInv' /\ NewestOpen' /\ history' \in Seq(Stages) /\ history' # <<>> /\ Newest' = s
      /\ \A k \in DOMAIN history' : history'[k].status \in Open => history'[k] = s
  <2> HIDE DEF s
  <2>1. QED
    BY <1>2, <1>3, <1>4, <1>5, <1>6, BeginKeeps
<1>8. item' \in ItemRecord /\ item'.rev = item.rev
  BY <1>1 DEF Await, Begin, StatusOf, ItemRecord, ItemStatuses, Busy, Terminal
<1>9. call' \in CallRecord
  BY <1>1 DEF Await, Goto, CallRecord, Triggers
<1>10. ItemTypeOK'
  BY <1>1, <1>7, <1>8, <1>9, TypeParts DEF Await, ItemTypeOK, ItemRecord, CallRecord
<1>11. PointInv'
  <2> HIDE DEF s
  <2>1. QED
    BY <1>1, <1>3, <1>5, <1>7, <1>8 DEF Await, Acts, Resting, Begin, StatusOf, Goto,
       ItemRecord, CallRecord,
       PointInv, NewestOpen, Types,
       CallKnows, AtRest, InStage, Between, Left, ReadyAtRest, ReadyIsVerified,
       ClosedLeavesNothingOpen, NewestIs, Unverified, NoneOpen, Repairs, Busy, Terminal, Open
<1>12. QED
  BY <1>7, <1>10, <1>11 DEF ItemInv, HistoryInv, PointInv

\* The stage of an item the environment blocks.
LEMMA BlockStep ==
  ASSUME ItemInv, Block
  PROVE  ItemInv'
<1> DEFINE s == Stage("blocked", "environment_policy", "running")
<1>1. ItemTypeOK /\ PointInv /\ item \in ItemRecord /\ call \in CallRecord
  BY InvParts, TypeParts
<1>2. history' = Append(history, s)
  BY DEF Block, Begin
<1>3. /\ s \in Stages /\ s.type = "blocked" /\ s.trigger = "environment_policy"
      /\ s.status = "running"
      /\ s.input = item.rev
  <2>1. "blocked" \in Types /\ "environment_policy" \in Triggers /\ "running" \in StageStatuses
    BY <1>1 DEF Types, Triggers, StageStatuses, CallRecord
  <2>2. QED
    BY <1>1, <2>1, StageTyped
<1>4. /\ SameStages(history)
      /\ \A k \in 1..Len(history) : history[k].status \notin Open
  BY <1>1, SameHistory, HistoryParts DEF Block, PointInv, AtRest, Between, Resting, NoneOpen
<1>5. ~Unverified
  BY <1>1 DEF Block, Acts, Resting, PointInv, AtRest, Between, Unverified, NewestIs, Repairs
<1>6. s.trigger # "automatic_repair"
  BY <1>1, <1>3 DEF PointInv, CallKnows
<1>7. /\ HistoryInv' /\ NewestOpen' /\ history' \in Seq(Stages) /\ history' # <<>> /\ Newest' = s
      /\ \A k \in DOMAIN history' : history'[k].status \in Open => history'[k] = s
  <2> HIDE DEF s
  <2>1. QED
    BY <1>2, <1>3, <1>4, <1>5, <1>6, BeginKeeps
<1>8. item' \in ItemRecord /\ item'.rev = item.rev
  BY <1>1 DEF Block, Begin, StatusOf, ItemRecord, ItemStatuses, Busy, Terminal
<1>9. call' \in CallRecord
  BY <1>1 DEF Block, Goto, CallRecord, Triggers
<1>10. ItemTypeOK'
  BY <1>1, <1>7, <1>8, <1>9, TypeParts DEF Block, ItemTypeOK, ItemRecord, CallRecord
<1>11. PointInv'
  <2> HIDE DEF s
  <2>1. QED
    BY <1>1, <1>3, <1>5, <1>7, <1>8 DEF Block, Acts, Resting, Begin, StatusOf, Goto,
       ItemRecord, CallRecord,
       PointInv, NewestOpen, Types,
       CallKnows, AtRest, InStage, Between, Left, ReadyAtRest, ReadyIsVerified,
       ClosedLeavesNothingOpen, NewestIs, Unverified, NoneOpen, Repairs, Busy, Terminal, Open
<1>12. QED
  BY <1>7, <1>10, <1>11 DEF ItemInv, HistoryInv, PointInv

\* A new generation the client asks for.
LEMMA RegenerateStep ==
  ASSUME ItemInv, Regenerate
  PROVE  ItemInv'
<1> DEFINE s == Stage("regenerate", "human_regenerate", "running")
<1>1. ItemTypeOK /\ PointInv /\ item \in ItemRecord /\ call \in CallRecord
  BY InvParts, TypeParts
<1>2. history' = Append(Resolved(history), s)
  BY DEF Regenerate, Begin
<1>3. /\ s \in Stages /\ s.type = "regenerate" /\ s.trigger = "human_regenerate"
      /\ s.status = "running"
      /\ s.input = item.rev
  <2>1. "regenerate" \in Types /\ "human_regenerate" \in Triggers /\ "running" \in StageStatuses
    BY <1>1 DEF Types, Triggers, StageStatuses, CallRecord
  <2>2. QED
    BY <1>1, <2>1, StageTyped
<1>4. /\ SameStages(Resolved(history))
      /\ \A k \in 1..Len(history) : Resolved(history)[k].status \notin Open
      /\ \A k \in 1..Len(history) :
           Resolved(history)[k].status = "succeeded" => history[k].status = "succeeded"
  BY ResolvedStages DEF Regenerate, Acts
<1>5. ~Unverified
  BY <1>1 DEF Regenerate, Acts, Resting, PointInv, AtRest, Between, Unverified, NewestIs, Repairs
<1>6. s.trigger # "automatic_repair"
  BY <1>1, <1>3 DEF PointInv, CallKnows
<1>7. /\ HistoryInv' /\ NewestOpen' /\ history' \in Seq(Stages) /\ history' # <<>> /\ Newest' = s
      /\ \A k \in DOMAIN history' : history'[k].status \in Open => history'[k] = s
  <2> HIDE DEF s
  <2>1. QED
    BY <1>2, <1>3, <1>4, <1>5, <1>6, BeginKeeps
<1>8. item' \in ItemRecord /\ item'.rev = item.rev
  BY <1>1 DEF Regenerate, Begin, StatusOf, ItemRecord, ItemStatuses, Busy, Terminal
<1>9. call' \in CallRecord
  BY <1>1 DEF Regenerate, Goto, CallRecord, Triggers
<1>10. ItemTypeOK'
  BY <1>1, <1>7, <1>8, <1>9, TypeParts DEF Regenerate, ItemTypeOK, ItemRecord, CallRecord
<1>11. PointInv'
  <2> HIDE DEF s
  <2>1. QED
    BY <1>1, <1>3, <1>5, <1>7, <1>8 DEF Regenerate, Acts, Resting, Begin, StatusOf, Goto,
       ItemRecord, CallRecord,
       PointInv, NewestOpen, Types,
       CallKnows, AtRest, InStage, Between, Left, ReadyAtRest, ReadyIsVerified,
       ClosedLeavesNothingOpen, NewestIs, Unverified, NoneOpen, Repairs, Busy, Terminal, Open
<1>12. QED
  BY <1>7, <1>10, <1>11 DEF ItemInv, HistoryInv, PointInv

\* An execution the client asks for.
LEMMA HumanExecuteStep ==
  ASSUME ItemInv, HumanExecute
  PROVE  ItemInv'
<1> DEFINE s == Stage("execute", "human_execute", "running")
<1>1. ItemTypeOK /\ PointInv /\ item \in ItemRecord /\ call \in CallRecord
  BY InvParts, TypeParts
<1>2. history' = Append(Resolved(history), s)
  BY DEF HumanExecute, Begin
<1>3. /\ s \in Stages /\ s.type = "execute" /\ s.trigger = "human_execute" /\ s.status = "running"
      /\ s.input = item.rev
  <2>1. "execute" \in Types /\ "human_execute" \in Triggers /\ "running" \in StageStatuses
    BY <1>1 DEF Types, Triggers, StageStatuses, CallRecord
  <2>2. QED
    BY <1>1, <2>1, StageTyped
<1>4. /\ SameStages(Resolved(history))
      /\ \A k \in 1..Len(history) : Resolved(history)[k].status \notin Open
      /\ \A k \in 1..Len(history) :
           Resolved(history)[k].status = "succeeded" => history[k].status = "succeeded"
  BY ResolvedStages DEF HumanExecute, Acts
<1>5. ~Unverified
  BY <1>1 DEF HumanExecute, Acts, Resting, PointInv, AtRest, Between, Unverified, NewestIs, Repairs
<1>6. s.trigger # "automatic_repair"
  BY <1>1, <1>3 DEF PointInv, CallKnows
<1>7. /\ HistoryInv' /\ NewestOpen' /\ history' \in Seq(Stages) /\ history' # <<>> /\ Newest' = s
      /\ \A k \in DOMAIN history' : history'[k].status \in Open => history'[k] = s
  <2> HIDE DEF s
  <2>1. QED
    BY <1>2, <1>3, <1>4, <1>5, <1>6, BeginKeeps
<1>8. item' \in ItemRecord /\ item'.rev = item.rev
  BY <1>1 DEF HumanExecute, Begin, StatusOf, ItemRecord, ItemStatuses, Busy, Terminal
<1>9. call' \in CallRecord
  BY <1>1 DEF HumanExecute, Goto, CallRecord, Triggers
<1>10. ItemTypeOK'
  BY <1>1, <1>7, <1>8, <1>9, TypeParts DEF HumanExecute, ItemTypeOK, ItemRecord, CallRecord
<1>11. PointInv'
  <2> HIDE DEF s
  <2>1. QED
    BY <1>1, <1>3, <1>5, <1>7, <1>8 DEF HumanExecute, Acts, Resting, Begin, StatusOf, Goto,
       ItemRecord, CallRecord,
       PointInv, NewestOpen, Types,
       CallKnows, AtRest, InStage, Between, Left, ReadyAtRest, ReadyIsVerified,
       ClosedLeavesNothingOpen, NewestIs, Unverified, NoneOpen, Repairs, Busy, Terminal, Open
<1>12. QED
  BY <1>7, <1>10, <1>11 DEF ItemInv, HistoryInv, PointInv

\* A repair the client asks for.
LEMMA HumanRepairStep ==
  ASSUME ItemInv, HumanRepair
  PROVE  ItemInv'
<1> DEFINE s == Stage("rerepair", "human_repair", "running")
<1>1. ItemTypeOK /\ PointInv /\ item \in ItemRecord /\ call \in CallRecord
  BY InvParts, TypeParts
<1>2. history' = Append(Resolved(history), s)
  BY DEF HumanRepair, Begin
<1>3. /\ s \in Stages /\ s.type = "rerepair" /\ s.trigger = "human_repair" /\ s.status = "running"
      /\ s.input = item.rev
  <2>1. "rerepair" \in Types /\ "human_repair" \in Triggers /\ "running" \in StageStatuses
    BY <1>1 DEF Types, Triggers, StageStatuses, CallRecord
  <2>2. QED
    BY <1>1, <2>1, StageTyped
<1>4. /\ SameStages(Resolved(history))
      /\ \A k \in 1..Len(history) : Resolved(history)[k].status \notin Open
      /\ \A k \in 1..Len(history) :
           Resolved(history)[k].status = "succeeded" => history[k].status = "succeeded"
  BY ResolvedStages DEF HumanRepair, Acts
<1>5. ~Unverified
  BY <1>1 DEF HumanRepair, Acts, Resting, PointInv, AtRest, Between, Unverified, NewestIs, Repairs
<1>6. s.trigger # "automatic_repair"
  BY <1>1, <1>3 DEF PointInv, CallKnows
<1>7. /\ HistoryInv' /\ NewestOpen' /\ history' \in Seq(Stages) /\ history' # <<>> /\ Newest' = s
      /\ \A k \in DOMAIN history' : history'[k].status \in Open => history'[k] = s
  <2> HIDE DEF s
  <2>1. QED
    BY <1>2, <1>3, <1>4, <1>5, <1>6, BeginKeeps
<1>8. item' \in ItemRecord /\ item'.rev = item.rev
  BY <1>1 DEF HumanRepair, Begin, StatusOf, ItemRecord, ItemStatuses, Busy, Terminal
<1>9. call' \in CallRecord
  BY <1>1 DEF HumanRepair, Goto, CallRecord, Triggers
<1>10. ItemTypeOK'
  BY <1>1, <1>7, <1>8, <1>9, TypeParts DEF HumanRepair, ItemTypeOK, ItemRecord, CallRecord
<1>11. PointInv'
  <2> HIDE DEF s
  <2>1. QED
    BY <1>1, <1>3, <1>5, <1>7, <1>8 DEF HumanRepair, Acts, Resting, Begin, StatusOf, Goto,
       ItemRecord, CallRecord,
       PointInv, NewestOpen, Types,
       CallKnows, AtRest, InStage, Between, Left, ReadyAtRest, ReadyIsVerified,
       ClosedLeavesNothingOpen, NewestIs, Unverified, NoneOpen, Repairs, Busy, Terminal, Open
<1>12. QED
  BY <1>7, <1>10, <1>11 DEF ItemInv, HistoryInv, PointInv

\* An edit.
LEMMA ManualEditStep ==
  ASSUME ItemInv, ManualEdit
  PROVE  ItemInv'
<1> DEFINE s == Stage("manual_edit", "human_edit", "running")
<1>1. ItemTypeOK /\ PointInv /\ item \in ItemRecord /\ call \in CallRecord
  BY InvParts, TypeParts
<1>2. history' = Append(Resolved(history), s)
  BY DEF ManualEdit, Begin
<1>3. /\ s \in Stages /\ s.type = "manual_edit" /\ s.trigger = "human_edit" /\ s.status = "running"
      /\ s.input = item.rev
  <2>1. "manual_edit" \in Types /\ "human_edit" \in Triggers /\ "running" \in StageStatuses
    BY <1>1 DEF Types, Triggers, StageStatuses, CallRecord
  <2>2. QED
    BY <1>1, <2>1, StageTyped
<1>4. /\ SameStages(Resolved(history))
      /\ \A k \in 1..Len(history) : Resolved(history)[k].status \notin Open
      /\ \A k \in 1..Len(history) :
           Resolved(history)[k].status = "succeeded" => history[k].status = "succeeded"
  BY ResolvedStages DEF ManualEdit, Acts
<1>5. ~Unverified
  BY <1>1 DEF ManualEdit, Acts, Resting, PointInv, AtRest, Between, Unverified, NewestIs, Repairs
<1>6. s.trigger # "automatic_repair"
  BY <1>1, <1>3 DEF PointInv, CallKnows
<1>7. /\ HistoryInv' /\ NewestOpen' /\ history' \in Seq(Stages) /\ history' # <<>> /\ Newest' = s
      /\ \A k \in DOMAIN history' : history'[k].status \in Open => history'[k] = s
  <2> HIDE DEF s
  <2>1. QED
    BY <1>2, <1>3, <1>4, <1>5, <1>6, BeginKeeps
<1>8. item' \in ItemRecord /\ item'.rev = item.rev
  BY <1>1 DEF ManualEdit, Begin, StatusOf, ItemRecord, ItemStatuses, Busy, Terminal
<1>9. call' \in CallRecord
  BY <1>1 DEF ManualEdit, Goto, CallRecord, Triggers
<1>10. ItemTypeOK'
  BY <1>1, <1>7, <1>8, <1>9, TypeParts DEF ManualEdit, ItemTypeOK, ItemRecord, CallRecord
<1>11. PointInv'
  <2> HIDE DEF s
  <2>1. QED
    BY <1>1, <1>3, <1>5, <1>7, <1>8 DEF ManualEdit, Acts, Resting, Begin, StatusOf, Goto,
       ItemRecord, CallRecord,
       PointInv, NewestOpen, Types,
       CallKnows, AtRest, InStage, Between, Left, ReadyAtRest, ReadyIsVerified,
       ClosedLeavesNothingOpen, NewestIs, Unverified, NoneOpen, Repairs, Busy, Terminal, Open
<1>12. QED
  BY <1>7, <1>10, <1>11 DEF ItemInv, HistoryInv, PointInv

\* An item the client gives up.
LEMMA AbandonStep ==
  ASSUME ItemInv, Abandon
  PROVE  ItemInv'
<1> DEFINE s == Stage("abandon", "human_abandon", "running")
<1>1. ItemTypeOK /\ PointInv /\ item \in ItemRecord /\ call \in CallRecord
  BY InvParts, TypeParts
<1>2. history' = Append(Resolved(history), s)
  BY DEF Abandon, Begin
<1>3. /\ s \in Stages /\ s.type = "abandon" /\ s.trigger = "human_abandon" /\ s.status = "running"
      /\ s.input = item.rev
  <2>1. "abandon" \in Types /\ "human_abandon" \in Triggers /\ "running" \in StageStatuses
    BY <1>1 DEF Types, Triggers, StageStatuses, CallRecord
  <2>2. QED
    BY <1>1, <2>1, StageTyped
<1>4. /\ SameStages(Resolved(history))
      /\ \A k \in 1..Len(history) : Resolved(history)[k].status \notin Open
      /\ \A k \in 1..Len(history) :
           Resolved(history)[k].status = "succeeded" => history[k].status = "succeeded"
  BY ResolvedStages DEF Abandon, Acts
<1>5. ~Unverified
  BY <1>1 DEF Abandon, Acts, Resting, PointInv, AtRest, Between, Unverified, NewestIs, Repairs
<1>6. s.trigger # "automatic_repair"
  BY <1>1, <1>3 DEF PointInv, CallKnows
<1>7. /\ HistoryInv' /\ NewestOpen' /\ history' \in Seq(Stages) /\ history' # <<>> /\ Newest' = s
      /\ \A k \in DOMAIN history' : history'[k].status \in Open => history'[k] = s
  <2> HIDE DEF s
  <2>1. QED
    BY <1>2, <1>3, <1>4, <1>5, <1>6, BeginKeeps
<1>8. item' \in ItemRecord /\ item'.rev = item.rev
  BY <1>1 DEF Abandon, Begin, StatusOf, ItemRecord, ItemStatuses, Busy, Terminal
<1>9. call' \in CallRecord
  BY <1>1 DEF Abandon, Goto, CallRecord, Triggers
<1>10. ItemTypeOK'
  BY <1>1, <1>7, <1>8, <1>9, TypeParts DEF Abandon, ItemTypeOK, ItemRecord, CallRecord
<1>11. PointInv'
  <2> HIDE DEF s
  <2>1. QED
    BY <1>1, <1>3, <1>5, <1>7, <1>8 DEF Abandon, Acts, Resting, Begin, StatusOf, Goto,
       ItemRecord, CallRecord,
       PointInv, NewestOpen, Types,
       CallKnows, AtRest, InStage, Between, Left, ReadyAtRest, ReadyIsVerified,
       ClosedLeavesNothingOpen, NewestIs, Unverified, NoneOpen, Repairs, Busy, Terminal, Open
<1>12. QED
  BY <1>7, <1>10, <1>11 DEF ItemInv, HistoryInv, PointInv

\* The script becomes ready.
LEMMA MarkReadyStep ==
  ASSUME ItemInv, MarkReady
  PROVE  ItemInv'
<1>1. ItemTypeOK /\ HistoryInv /\ PointInv /\ item \in ItemRecord /\ call \in CallRecord
  BY InvParts, TypeParts
<1>2. history' = history /\ HistoryInv'
  BY <1>1 DEF MarkReady, HistoryInv, AutomaticRepairOnce, RepairIsVerified, OneOpenStage
<1>3. ItemTypeOK'
  BY <1>1, <1>2, TypeParts
     DEF MarkReady, Goto, ItemTypeOK, ItemRecord, ItemStatuses, Terminal, CallRecord
<1>4. Newest' = Newest
  BY <1>2 DEF Newest
<1>5. PointInv'
  BY <1>1, <1>2, <1>4 DEF MarkReady, Goto, ItemRecord, CallRecord, PointInv,
     CallKnows, AtRest, InStage, Between, Left, ReadyAtRest, ReadyIsVerified,
       ClosedLeavesNothingOpen, NewestIs, Unverified, NoneOpen, Repairs, Busy, Terminal, Open
<1>6. QED
  BY <1>2, <1>3, <1>5 DEF ItemInv, HistoryInv, PointInv

\* An operation that is cancelled leaves its stage running.
LEMMA OperationCancelledStep ==
  ASSUME ItemInv, OperationCancelled
  PROVE  ItemInv'
<1>1. ItemTypeOK /\ HistoryInv /\ PointInv /\ item \in ItemRecord /\ call \in CallRecord
  BY InvParts, TypeParts
<1>2. history' = history /\ item' = item /\ HistoryInv' /\ Newest' = Newest
  BY <1>1 DEF OperationCancelled, HistoryInv, AutomaticRepairOnce, RepairIsVerified,
     OneOpenStage, Newest
<1>3. ItemTypeOK'
  BY <1>1, <1>2, TypeParts, WriteTyped DEF OperationCancelled, Goto, ItemTypeOK, ItemRecord,
     CallRecord
<1>4. PointInv'
  BY <1>1, <1>2 DEF OperationCancelled, Goto, ItemRecord, CallRecord, PointInv, Types,
     CallKnows, AtRest, InStage, Between, Left, ReadyAtRest, ReadyIsVerified,
       ClosedLeavesNothingOpen, NewestIs, Unverified, NoneOpen, Repairs, Busy, Terminal, Open
<1>5. QED
  BY <1>2, <1>3, <1>4 DEF ItemInv, HistoryInv, PointInv

\* Somebody else writes the file.
LEMMA ExternalWriteStep ==
  ASSUME ItemInv, ExternalWrite
  PROVE  ItemInv'
<1>1. ItemTypeOK /\ HistoryInv /\ PointInv
  BY InvParts
<1>2. history' = history /\ item' = item /\ call' = call /\ crashes' = crashes /\ Newest' = Newest
  BY DEF ExternalWrite, Newest
<1>3. file' \in 0..MaxRev /\ last' \in 0..MaxRev
  BY <1>1, TypeParts, WriteTyped, BoundsAssumption DEF ExternalWrite, BoundsAssumption
<1>4. HistoryInv' /\ PointInv'
  BY <1>1, <1>2 DEF HistoryInv, AutomaticRepairOnce, RepairIsVerified, OneOpenStage, PointInv,
     CallKnows, AtRest, InStage, Between, Left, ReadyAtRest, ReadyIsVerified,
       ClosedLeavesNothingOpen, NewestIs, Unverified, NoneOpen, Repairs, Busy, Terminal, Open
<1>5. ItemTypeOK'
  BY <1>1, <1>2, <1>3 DEF ItemTypeOK
<1>6. QED
  BY <1>4, <1>5 DEF ItemInv, HistoryInv, PointInv

\* A thread that dies leaves no review behind.
LEMMA CrashStep ==
  ASSUME ItemInv, Crash
  PROVE  ItemInv'
<1>1. ItemTypeOK /\ HistoryInv /\ PointInv /\ item \in ItemRecord /\ call \in CallRecord
  BY InvParts, TypeParts
<1>2. history' = history /\ item' = item /\ HistoryInv' /\ Newest' = Newest
  BY <1>1 DEF Crash, HistoryInv, AutomaticRepairOnce, RepairIsVerified, OneOpenStage, Newest
<1>3. ItemTypeOK'
  BY <1>1, <1>2, TypeParts, WriteTyped, BoundsAssumption
     DEF Crash, Goto, ItemTypeOK, ItemRecord, CallRecord, BoundsAssumption
<1>4. /\ DOMAIN history = 1..Len(history)
      /\ history # <<>> => Len(history) \in 1..Len(history)
  BY <1>1, HistoryParts
<1>5. call.pc \notin {"rest", "closed"}
  BY DEF Crash
<1>6. \A k \in DOMAIN history : history[k].status # "pending"
  <2>1. CASE call.pc \in {"dead", "synced"}
    BY <1>1, <2>1 DEF PointInv, Left
  <2>2. CASE call.pc \in {"execute", "ready", "repair", "await", "block"}
    BY <1>1, <2>2 DEF PointInv, Between, NoneOpen, Open
  <2>3. CASE history # <<>> /\ Newest.status = "running"
    <3>1. \A k \in DOMAIN history : history[k].status \in Open => k = Len(history)
      BY <1>1, <1>4, <2>3 DEF HistoryInv, OneOpenStage, Newest, Open
    <3>2. QED
      BY <2>3, <3>1 DEF Newest, Open
  <2>4. QED
    BY <1>1, <1>5, <2>1, <2>2, <2>3 DEF CallRecord, PointInv, InStage, NewestIs
<1>7. /\ item.status \notin Terminal \cup {"queued"}
      /\ Unverified => item.status \in Busy
  BY <1>1, <1>5 DEF CallRecord, ItemRecord, PointInv, ReadyAtRest, Left, InStage, Between, NewestIs,
     Unverified, Repairs, Busy, Terminal
<1>8. PointInv'
  BY <1>1, <1>2, <1>5, <1>6, <1>7 DEF Crash, Goto, CallRecord, PointInv,
     CallKnows, AtRest, InStage, Between, Left, ReadyAtRest, ReadyIsVerified,
       ClosedLeavesNothingOpen, NewestIs, Unverified, NoneOpen, Repairs, Busy, Terminal, Open
<1>9. QED
  BY <1>2, <1>3, <1>8 DEF ItemInv, HistoryInv, PointInv

\* Recovery first takes over the file's revision.
LEMMA ResyncStep ==
  ASSUME ItemInv, Resync
  PROVE  ItemInv'
<1> DEFINE s == Stage("recovered_external_version", "worker_recovery", "succeeded")
<1>1. ItemTypeOK /\ HistoryInv /\ PointInv /\ item \in ItemRecord /\ call \in CallRecord
  BY InvParts, TypeParts
<1>2. /\ call.pc = "dead" /\ call' = [call EXCEPT !.pc = "synced"]
      /\ UNCHANGED <<file, last, crashes>>
      /\ \/ history' = Append(history, s) /\ item' = [item EXCEPT !.rev = file]
         \/ history' = history /\ item' = item
  BY DEF Resync, Goto
<1>3. CASE history' = Append(history, s) /\ item' = [item EXCEPT !.rev = file]
  <2>1. /\ s \in Stages /\ s.type = "recovered_external_version" /\ s.trigger = "worker_recovery"
        /\ s.status = "succeeded"
    <3>1. /\ "recovered_external_version" \in Types /\ "worker_recovery" \in Triggers
          /\ "succeeded" \in StageStatuses
      BY DEF Types, Triggers, StageStatuses
    <3>2. QED
      BY <1>1, <3>1, StageTyped
  <2> HIDE DEF s
  <2>2. SameStages(history) /\ DOMAIN history = 1..Len(history) /\ Len(history) \in Nat
    BY <1>1, SameHistory, HistoryParts
  <2>3. /\ history' \in Seq(Stages) /\ history' # <<>> /\ Newest' = s
        /\ DOMAIN history' = 1..(Len(history) + 1)
        /\ \A k \in 1..Len(history) : history'[k] = history[k]
        /\ history'[Len(history) + 1] = s
    BY <1>1, <1>3, <2>1, <2>2, AppendedStage
  <2>4. AutomaticRepairOnce' /\ RepairIsVerified'
    BY <1>1, <1>3, <2>1, <2>2, RepairsGrown DEF HistoryInv
  <2>5. \A k \in DOMAIN history' :
          (k \in DOMAIN history /\ history'[k] = history[k]) \/ history'[k] = s
    BY <2>2, <2>3
  <2>6. \A k \in DOMAIN history' : history'[k].status \in Open =>
          k \in DOMAIN history /\ history'[k] = history[k]
    BY <2>1, <2>5 DEF Open
  <2>7. OneOpenStage'
    BY <1>1, <2>6 DEF HistoryInv, OneOpenStage
  <2>8. ItemTypeOK'
    BY <1>1, <1>2, <1>3, <2>3, TypeParts DEF ItemTypeOK, ItemRecord, CallRecord
  <2>9. \A k \in DOMAIN history' : history'[k].status # "pending"
    BY <1>1, <1>2, <2>1, <2>5 DEF PointInv, Left
  <2>10. PointInv'
    BY <1>1, <1>2, <1>3, <2>1, <2>3, <2>9 DEF ItemRecord, CallRecord, PointInv,
       CallKnows, AtRest, InStage, Between, Left, ReadyAtRest, ReadyIsVerified,
       ClosedLeavesNothingOpen, NewestIs, Unverified, NoneOpen, Repairs, Busy, Terminal, Open
  <2>11. QED
    BY <2>4, <2>7, <2>8, <2>10 DEF ItemInv, PointInv
<1>4. CASE history' = history /\ item' = item
  <2>1. HistoryInv' /\ Newest' = Newest
    BY <1>1, <1>4 DEF HistoryInv, AutomaticRepairOnce, RepairIsVerified, OneOpenStage, Newest
  <2>2. ItemTypeOK'
    BY <1>1, <1>2, <1>4 DEF ItemTypeOK
  <2>3. PointInv'
    BY <1>1, <1>2, <1>4, <2>1 DEF CallRecord, PointInv,
       CallKnows, AtRest, InStage, Between, Left, ReadyAtRest, ReadyIsVerified,
       ClosedLeavesNothingOpen, NewestIs, Unverified, NoneOpen, Repairs, Busy, Terminal, Open
  <2>4. QED
    BY <2>1, <2>2, <2>3 DEF ItemInv, HistoryInv, PointInv
<1>5. QED
  BY <1>2, <1>3, <1>4

\* Recovery closes what was running and asks a human.
LEMMA RecoverStep ==
  ASSUME ItemInv, Recover
  PROVE  ItemInv'
<1> DEFINE s == Stage("human_review", "worker_recovery", "pending")
<1> DEFINE h == Closed(history, Types, {"running"}, "failed")
<1>1. ItemTypeOK /\ HistoryInv /\ PointInv /\ item \in ItemRecord /\ call \in CallRecord
  BY InvParts, TypeParts
<1>2. DOMAIN history = 1..Len(history) /\ \A k \in 1..Len(history) : history[k] \in Stages
  BY <1>1, HistoryParts
<1>3. CASE Interrupted
  <2>1. /\ s \in Stages /\ s.type = "human_review" /\ s.trigger = "worker_recovery"
        /\ s.status = "pending"
    <3>1. /\ "human_review" \in Types /\ "worker_recovery" \in Triggers
          /\ "pending" \in StageStatuses
      BY DEF Types, Triggers, StageStatuses
    <3>2. QED
      BY <1>1, <3>1, StageTyped
  <2>2. /\ SameStages(h)
        /\ \A k \in 1..Len(history) : h[k].status =
             IF history[k].type \in Types /\ history[k].status \in {"running"}
             THEN "failed" ELSE history[k].status
    BY <1>1, ClosedStages DEF Open, StageStatuses
  <2>3. /\ history' = Append(h, s)
        /\ item' = [item EXCEPT !.status = "awaiting_human", !.included = FALSE]
        /\ call' = [call EXCEPT !.pc = "rest"] /\ call.pc = "synced"
        /\ UNCHANGED <<file, last, crashes>>
    BY <1>3 DEF Recover, Goto
  <2> HIDE DEF s, h
  <2>4. \A k \in 1..Len(history) : h[k].status \notin Open
    BY <1>1, <1>2, <2>2, <2>3 DEF PointInv, Left, Open, Stages
  <2>5. /\ HistoryInv' /\ history' \in Seq(Stages) /\ history' # <<>> /\ Newest' = s
        /\ \A k \in DOMAIN history' : history'[k].status \in Open => history'[k] = s
    BY <2>1, <2>2, <2>3, <2>4, BeginKeeps
  <2>6. ItemTypeOK'
    BY <1>1, <2>3, <2>5, TypeParts DEF ItemTypeOK, ItemRecord, ItemStatuses, CallRecord
  <2>7. PointInv'
    BY <1>1, <2>1, <2>3, <2>5 DEF ItemRecord, CallRecord, PointInv,
       CallKnows, AtRest, InStage, Between, Left, ReadyAtRest, ReadyIsVerified,
       ClosedLeavesNothingOpen, NewestIs, Unverified, NoneOpen, Repairs, Busy, Terminal, Open
  <2>8. QED
    BY <2>5, <2>6, <2>7 DEF ItemInv, HistoryInv, PointInv
<1>4. CASE ~Interrupted
  <2>1. /\ history' = history /\ item' = item /\ call' = [call EXCEPT !.pc = "rest"]
        /\ call.pc = "synced" /\ UNCHANGED <<file, last, crashes>>
    BY <1>4 DEF Recover, Goto
  <2>2. HistoryInv' /\ Newest' = Newest
    BY <1>1, <2>1 DEF HistoryInv, AutomaticRepairOnce, RepairIsVerified, OneOpenStage, Newest
  <2>3. ItemTypeOK'
    BY <1>1, <2>1, TypeParts DEF ItemTypeOK, CallRecord
  <2>4. item.status \notin Busy /\ \A k \in DOMAIN history : history[k].status \notin Open
    BY <1>1, <1>4, <2>1 DEF Interrupted, PointInv, Left, Open
  <2>5. PointInv'
    BY <1>1, <2>1, <2>2, <2>4 DEF CallRecord, PointInv,
       CallKnows, AtRest, InStage, Between, Left, ReadyAtRest, ReadyIsVerified,
       ClosedLeavesNothingOpen, NewestIs, Unverified, NoneOpen, Repairs, Busy, Terminal, Open
  <2>6. QED
    BY <2>2, <2>3, <2>5 DEF ItemInv, HistoryInv, PointInv
<1>5. QED
  BY <1>3, <1>4

\* A run that ends closes every open stage and gives up unfinished items.
LEMMA FinalizeStep ==
  ASSUME ItemInv, Finalize
  PROVE  ItemInv'
<1>1. ItemTypeOK /\ HistoryInv /\ PointInv /\ item \in ItemRecord /\ call \in CallRecord
  BY InvParts, TypeParts
<1>2. DOMAIN history = 1..Len(history) /\ \A k \in 1..Len(history) : history[k] \in Stages
  BY <1>1, HistoryParts
<1>3. history' = Closed(history, Types, Open, "failed")
  BY <1>2 DEF Finalize, Closed, Stages
<1>4. /\ SameStages(history')
      /\ \A k \in 1..Len(history) : history'[k].status =
           IF history[k].type \in Types /\ history[k].status \in Open
           THEN "failed" ELSE history[k].status
  BY <1>1, <1>3, ClosedStages DEF StageStatuses
<1>5. DOMAIN history' = 1..Len(history) /\ history' \in Seq(Stages)
  BY <1>4, LenProperties DEF SameStages
<1>6. NoneOpen'
  BY <1>2, <1>4, <1>5 DEF NoneOpen, Stages, Open
<1>7. AutomaticRepairOnce' /\ RepairIsVerified'
  BY <1>1, <1>4, RepairsKept DEF HistoryInv
<1>8. HistoryInv'
  BY <1>6, <1>7 DEF HistoryInv, OneOpenStage, NoneOpen
<1>9. \/ item' = item /\ history' = history /\ item.status \in Terminal
      \/ item' = [item EXCEPT !.status = "abandoned", !.included = FALSE]
  BY DEF Finalize
<1>10. call' = [call EXCEPT !.pc = "closed"] /\ UNCHANGED <<file, last, crashes>>
  BY DEF Finalize, Goto
<1>11. ItemTypeOK'
  BY <1>1, <1>5, <1>9, <1>10, TypeParts DEF ItemTypeOK, ItemRecord, ItemStatuses, Terminal,
     CallRecord
<1>12. ReadyIsVerified' /\ item'.status \in Terminal
  <2>1. CASE item' = item /\ history' = history /\ item.status \in Terminal
    BY <1>1, <2>1 DEF PointInv, ReadyIsVerified, Newest
  <2>2. CASE item' = [item EXCEPT !.status = "abandoned", !.included = FALSE]
    BY <1>1, <2>2 DEF ItemRecord, ReadyIsVerified, Terminal
  <2>3. QED
    BY <1>9, <2>1, <2>2
<1>13. PointInv'
  BY <1>1, <1>6, <1>10, <1>12 DEF CallRecord, PointInv, CallKnows, AtRest, InStage, Between, Left,
     ReadyAtRest, ClosedLeavesNothingOpen, NoneOpen
<1>14. QED
  BY <1>8, <1>11, <1>13 DEF ItemInv, HistoryInv, PointInv

\* A run cancelled before it began has one closed stage.
LEMMA InitializeCancelledStep ==
  ASSUME ItemInv, InitializeCancelled
  PROVE  ItemInv'
<1> DEFINE s == Stage("cancelled", "run_cancelled", "failed")
<1>1. ItemTypeOK /\ PointInv /\ item \in ItemRecord /\ call \in CallRecord
  BY InvParts, TypeParts
<1>2. /\ s \in Stages /\ s.type = "cancelled" /\ s.trigger = "run_cancelled"
      /\ s.status = "failed"
  <2>1. "cancelled" \in Types /\ "run_cancelled" \in Triggers /\ "failed" \in StageStatuses
    BY DEF Types, Triggers, StageStatuses
  <2>2. QED
    BY <1>1, <2>1, StageTyped
<1>3. /\ history' = <<s>> /\ history = <<>> /\ item' = [item EXCEPT !.status = "abandoned"]
      /\ call' = [call EXCEPT !.pc = "closed"] /\ UNCHANGED <<file, last, crashes>>
  BY DEF InitializeCancelled, Goto
<1> HIDE DEF s
<1>4. history' \in Seq(Stages) /\ DOMAIN history' = {1} /\ Len(history') = 1 /\ history'[1] = s
  BY <1>2, <1>3
<1>5. HistoryInv' /\ NoneOpen'
  BY <1>2, <1>4 DEF HistoryInv, AutomaticRepairOnce, RepairIsVerified, OneOpenStage, NoneOpen, Open
<1>6. ItemTypeOK'
  BY <1>1, <1>3, <1>4, TypeParts DEF ItemTypeOK, ItemRecord, ItemStatuses, Terminal, CallRecord
<1>7. PointInv'
  BY <1>1, <1>3, <1>5 DEF ItemRecord, CallRecord, PointInv,
     CallKnows, AtRest, InStage, Between, Left, ReadyAtRest, ReadyIsVerified,
       ClosedLeavesNothingOpen, NewestIs, Unverified, NoneOpen, Repairs, Busy, Terminal, Open
<1>8. QED
  BY <1>5, <1>6, <1>7 DEF ItemInv, HistoryInv, PointInv

\* The two stages of an adopted version follow a history with nothing open.
LEMMA AdoptExternalStep ==
  ASSUME ItemInv, AdoptExternal
  PROVE  ItemInv'
<1> DEFINE h == Closed(history, {"human_review"}, {"pending"}, "superseded")
<1> DEFINE a == Stage("external_version_adopted", "external_change", "succeeded")
<1> DEFINE b == [Stage("human_review", "external_change", "pending") EXCEPT !.input = file]
<1>1. ItemTypeOK /\ HistoryInv /\ PointInv /\ item \in ItemRecord /\ call \in CallRecord
  BY InvParts, TypeParts
<1>2. /\ Len(history) \in Nat /\ DOMAIN history = 1..Len(history)
      /\ \A k \in 1..Len(history) : history[k] \in Stages
      /\ history # <<>> => Len(history) \in 1..Len(history)
      /\ history = <<>> => Len(history) = 0
  BY <1>1, HistoryParts
<1>3. /\ a \in Stages /\ a.type = "external_version_adopted" /\ a.trigger = "external_change"
      /\ a.status = "succeeded"
  <2>1. /\ "external_version_adopted" \in Types /\ "external_change" \in Triggers
        /\ "succeeded" \in StageStatuses
    BY DEF Types, Triggers, StageStatuses
  <2>2. QED
    BY <1>1, <2>1, StageTyped
<1>4. /\ b \in Stages /\ b.type = "human_review" /\ b.trigger = "external_change"
      /\ b.status = "pending"
  BY <1>1, TypeParts DEF Stage, Stages, Types, Triggers, StageStatuses
<1>5. /\ SameStages(h)
      /\ \A k \in 1..Len(history) : h[k].status =
           IF history[k].type \in {"human_review"} /\ history[k].status \in {"pending"}
           THEN "superseded" ELSE history[k].status
  BY <1>1, ClosedStages DEF Open, StageStatuses
<1>6. /\ history' = h \o <<a, b>> /\ Resting
      /\ item' = [item EXCEPT !.status = "awaiting_human", !.included = FALSE, !.rev = file]
      /\ UNCHANGED <<file, last, call, crashes>>
  BY DEF AdoptExternal
<1> HIDE DEF h, a, b
<1>7. /\ history' \in Seq(Stages) /\ Len(history') = Len(history) + 2
      /\ \A k \in 1..Len(history) : history'[k] = h[k]
      /\ history'[Len(history) + 1] = a /\ history'[Len(history) + 2] = b
  <2>1. /\ <<a, b>> \in Seq(Stages) /\ Len(<<a, b>>) = 2 /\ <<a, b>>[1] = a /\ <<a, b>>[2] = b
    BY <1>3, <1>4
  <2>2. h \in Seq(Stages) /\ Len(h) = Len(history)
    BY <1>5 DEF SameStages
  <2>3. /\ history' \in Seq(Stages) /\ Len(history') = Len(history) + 2
        /\ \A k \in 1..(Len(history) + 2) : history'[k] =
             IF k <= Len(history) THEN h[k] ELSE <<a, b>>[k - Len(history)]
    BY <1>6, <2>1, <2>2, ConcatProperties
  <2>4. /\ Len(history) + 1 \in 1..(Len(history) + 2) /\ ~(Len(history) + 1 <= Len(history))
        /\ (Len(history) + 1) - Len(history) = 1
        /\ Len(history) + 2 \in 1..(Len(history) + 2) /\ ~(Len(history) + 2 <= Len(history))
        /\ (Len(history) + 2) - Len(history) = 2
        /\ \A k \in 1..Len(history) : k \in 1..(Len(history) + 2) /\ k <= Len(history)
    BY <1>2
  <2>5. QED
    BY <2>1, <2>3, <2>4
<1>8. DOMAIN history' = 1..(Len(history) + 2)
  BY <1>7, LenProperties
<1>9. \A k \in 1..(Len(history) + 2) :
        k \in 1..Len(history) \/ k = Len(history) + 1 \/ k = Len(history) + 2
  BY <1>2
<1>10. \A k \in 1..Len(history) : h[k].status \notin Open
  BY <1>1, <1>2, <1>5, <1>6 DEF PointInv, AtRest, Resting, Open
<1>11. \A k \in 1..(Len(history) + 2) : history'[k].status \in Open => k = Len(history) + 2
  BY <1>3, <1>7, <1>9, <1>10 DEF Open
<1>12. OneOpenStage'
  BY <1>8, <1>11 DEF OneOpenStage
<1>13. AutomaticRepairOnce'
  <2> SUFFICES ASSUME NEW k \in 1..(Len(history) + 2), history'[k].trigger = "automatic_repair"
               PROVE  /\ k > 1
                      /\ history'[k - 1].type = "execute" /\ history'[k - 1].status = "failed"
                      /\ history'[k - 1].trigger # "post_repair_verification"
    BY <1>8 DEF AutomaticRepairOnce
  <2>1. k \in 1..Len(history)
    BY <1>3, <1>4, <1>7, <1>9
  <2>2. /\ k > 1
        /\ history[k - 1].type = "execute" /\ history[k - 1].status = "failed"
        /\ history[k - 1].trigger # "post_repair_verification"
    BY <1>1, <1>2, <1>5, <1>7, <2>1 DEF HistoryInv, AutomaticRepairOnce, SameStages
  <2>3. k - 1 \in 1..Len(history)
    BY <1>2, <2>1, <2>2
  <2>4. QED
    BY <1>5, <1>7, <2>2, <2>3 DEF SameStages
<1>14. RepairIsVerified'
  <2> SUFFICES ASSUME NEW k \in 1..(Len(history) + 2), history'[k].type \in Repairs,
                      history'[k].status = "succeeded"
               PROVE  k < Len(history) + 2 =>
                      \/ history'[k + 1].type = "execute"
                         /\ history'[k + 1].trigger = "post_repair_verification"
                      \/ history'[k + 1].trigger = "worker_recovery"
    BY <1>7, <1>8 DEF RepairIsVerified, Repairs
  <2>1. k \in 1..Len(history)
    BY <1>3, <1>4, <1>7, <1>9 DEF Repairs
  <2>2. history[k].type \in Repairs /\ history[k].status = "succeeded"
    BY <1>5, <1>7, <2>1 DEF SameStages
  <2>3. ~Unverified
    BY <1>1, <1>6 DEF PointInv, AtRest, Resting
  <2>4. history # <<>>
    BY <1>2, <2>1
  <2>5. k # Len(history)
    BY <2>2, <2>3, <2>4 DEF Unverified, NewestIs, Newest
  <2>6. k + 1 \in 1..Len(history) /\ k < Len(history)
    <3>1. Len(history) \in Nat
      BY <1>2
    <3>2. QED
      BY <2>1, <2>5, <3>1
  <2>7. QED
    BY <1>1, <1>2, <1>5, <1>7, <2>1, <2>2, <2>6 DEF HistoryInv, RepairIsVerified, Repairs,
       SameStages
<1>15. ItemTypeOK'
  BY <1>1, <1>6, <1>7, TypeParts DEF ItemTypeOK, ItemRecord, ItemStatuses, CallRecord
<1>16. /\ \A k \in DOMAIN history' : history'[k].status \in Open => history'[k] = b
       /\ Newest' = b
  BY <1>7, <1>8, <1>11 DEF Newest
<1>17. PointInv'
  BY <1>1, <1>4, <1>6, <1>16 DEF Resting, ItemRecord, CallRecord, PointInv,
     CallKnows, AtRest, InStage, Between, Left, ReadyAtRest, ReadyIsVerified,
       ClosedLeavesNothingOpen, NewestIs, Unverified, NoneOpen, Repairs, Busy, Terminal, Open
<1>18. QED
  BY <1>12, <1>13, <1>14, <1>15, <1>17 DEF ItemInv, HistoryInv, PointInv

-----------------------------------------------------------------------------
(* The theorems.                                                           *)

\* The invariant holds before the first stage.
LEMMA InitiallyItemInv == ItemInit => ItemInv
<1> SUFFICES ASSUME ItemInit PROVE ItemInv
  OBVIOUS
<1>1. /\ history = <<>> /\ DOMAIN history = {} /\ history \in Seq(Stages)
      /\ call = [pc |-> "rest", trigger |-> "automatic", auto |-> FALSE]
      /\ item = [status |-> "queued", included |-> FALSE, rev |-> 0, planned |-> file]
      /\ file \in 0..MaxRev /\ last = file /\ crashes = 0
  BY DEF ItemInit
<1>2. ItemTypeOK
  BY <1>1, BoundsAssumption DEF ItemTypeOK, ItemStatuses, Triggers, BoundsAssumption
<1>3. HistoryInv /\ PointInv
  BY <1>1 DEF HistoryInv, AutomaticRepairOnce, RepairIsVerified, OneOpenStage, PointInv,
     CallKnows, AtRest, InStage, Between, Left, ReadyAtRest, ReadyIsVerified,
       ClosedLeavesNothingOpen, NewestIs, Unverified, NoneOpen, Repairs, Busy, Terminal, Open
<1>4. QED
  BY <1>2, <1>3, InvParts

\* A step that changes nothing keeps the invariant.
LEMMA StutterStep == ItemInv /\ UNCHANGED vars => ItemInv'
<1> SUFFICES ASSUME ItemInv, UNCHANGED vars PROVE ItemInv'
  OBVIOUS
<1>1. Newest' = Newest
  BY DEF vars, Newest
<1>2. QED
  BY <1>1 DEF vars, ItemInv, ItemTypeOK, AutomaticRepairOnce, RepairIsVerified, OneOpenStage,
     CallKnows, AtRest, InStage, Between, Left, ReadyAtRest, ReadyIsVerified,
       ClosedLeavesNothingOpen, NewestIs, Unverified, NoneOpen, Repairs, Busy, Terminal, Open

\* Every step keeps the invariant.
LEMMA ItemStep == ItemInv /\ [ItemNext]_vars => ItemInv'
<1> SUFFICES ASSUME ItemInv, [ItemNext]_vars PROVE ItemInv'
  OBVIOUS
<1>1. CASE Starts
  BY <1>1, GenerateStep, RegenerateStep, HumanExecuteStep, HumanRepairStep, ManualEditStep,
     AbandonStep DEF Starts
<1>2. CASE Works
  BY <1>2, WorkSucceedsStep, WorkFailsStep, ExecuteStep, RunSucceedsStep, RunFailsStep,
     MarkReadyStep, RepairStep, AwaitStep, AnalyzedStep, BlockStep, BlockEndsStep,
     EditSucceedsStep, EditFailsStep, AbandonEndsStep DEF Works
<1>3. CASE Recovers
  BY <1>3, ResyncStep, RecoverStep DEF Recovers
<1>4. CASE Outside
  BY <1>4, OperationCancelledStep, ExternalWriteStep, AdoptExternalStep, CrashStep,
     FinalizeStep, InitializeCancelledStep DEF Outside
<1>5. CASE UNCHANGED vars
  BY <1>5, StutterStep
<1>6. QED
  BY <1>1, <1>2, <1>3, <1>4, <1>5 DEF ItemNext

\* The inductive invariant of an item holds of every life of a script.
THEOREM ItemInvariant == ItemSpec => []ItemInv
<1>1. QED
  BY InitiallyItemInv, ItemStep, PTL DEF ItemSpec

\* Document, file and call keep their types.
THEOREM ItemTypesHold == ItemSpec => []ItemTypeOK
<1>1. ItemInv => ItemTypeOK
  BY DEF ItemInv
<1>2. QED
  BY <1>1, ItemInvariant, PTL

\* Whatever clients, crashes and outside writers do, an item is ready only when
\* its newest stage executed the revision it carries (_mark_ready).
THEOREM ReadyIsAlwaysVerified == ItemSpec => []ReadyIsVerified
<1>1. ItemInv => ReadyIsVerified
  BY DEF ItemInv
<1>2. QED
  BY <1>1, ItemInvariant, PTL

\* An automatic repair directly follows a failed execution that is not the
\* verification of a repair (_run_execute_cycle).
THEOREM RepairsOnce == ItemSpec => []AutomaticRepairOnce
<1>1. ItemInv => AutomaticRepairOnce
  BY DEF ItemInv
<1>2. QED
  BY <1>1, ItemInvariant, PTL

\* The stage after a successful repair is its verification or says that the
\* worker died.
THEOREM RepairsAreVerified == ItemSpec => []RepairIsVerified
<1>1. ItemInv => RepairIsVerified
  BY DEF ItemInv
<1>2. QED
  BY <1>1, ItemInvariant, PTL

\* No two stages of an item are open, however calls, recovery and adoption
\* follow each other (_resolve_pending_human_stage, _recover_interrupted_state).
THEOREM OneStageIsOpen == ItemSpec => []OneOpenStage
<1>1. ItemInv => OneOpenStage
  BY DEF ItemInv
<1>2. QED
  BY <1>1, ItemInvariant, PTL

\* A run that is over leaves no open stage and no unfinished item
\* (finalize_interrupted, initialize_cancelled).
THEOREM ClosedIsClosed == ItemSpec => []ClosedLeavesNothingOpen
<1>1. ItemInv => ClosedLeavesNothingOpen
  BY DEF ItemInv
<1>2. QED
  BY <1>1, ItemInvariant, PTL

\* What any step leaves of a history: its stages, and their outcomes.
Kept ==
  /\ Len(history') >= Len(history)
  /\ \A k \in 1..Len(history) :
       /\ history'[k].type = history[k].type /\ history'[k].trigger = history[k].trigger
       /\ history'[k].input = history[k].input
       /\ history[k].status \notin Open => history'[k].status = history[k].status

\* A history with the same stages, with or without stages added, is kept.
LEMMA KeptWhenExtended ==
  ASSUME ItemTypeOK, NEW STATE h, SameStages(h),
         \/ history' = h
         \/ \E s : history' = Append(h, s)
         \/ \E s, t : history' = h \o <<s, t>>
  PROVE  Kept
<1>1. h \in Seq(Stages) /\ Len(h) = Len(history) /\ Len(history) \in Nat
  BY HistoryParts DEF SameStages
<1> DEFINE Prefix == Len(history') >= Len(history) /\ \A k \in 1..Len(history) : history'[k] = h[k]
<1>2. ASSUME history' = h PROVE Prefix
  BY <1>1, <1>2
<1>3. ASSUME NEW s, history' = Append(h, s) PROVE Prefix
  <2> DEFINE S == Stages \cup {s}
  <2>1. h \in Seq(S) /\ s \in S
    BY <1>1, SeqMonotonic
  <2> HIDE DEF S
  <2>2. /\ Len(Append(h, s)) = Len(h) + 1
        /\ \A k \in 1..Len(h) : Append(h, s)[k] = h[k]
    BY <2>1, AppendProperties
  <2>3. QED
    BY <1>1, <1>3, <2>2
<1>4. ASSUME NEW s, NEW t, history' = h \o <<s, t>> PROVE Prefix
  <2> DEFINE S == Stages \cup {s, t}
  <2>1. h \in Seq(S) /\ <<s, t>> \in Seq(S) /\ Len(<<s, t>>) = 2
    BY <1>1, SeqMonotonic
  <2> HIDE DEF S
  <2>2. /\ Len(h \o <<s, t>>) = Len(h) + 2
        /\ \A k \in 1..Len(h) : (h \o <<s, t>>)[k] = h[k]
    BY <1>1, <2>1, ConcatProperties
  <2>3. QED
    BY <1>1, <1>4, <2>2
<1>5. Prefix
  BY <1>2, <1>3, <1>4
<1>6. QED
  BY <1>1, <1>5 DEF Kept, SameStages

\* Every step keeps the history.
LEMMA HistoryKept == ItemInv /\ [ItemNext]_vars => Kept
<1> SUFFICES ASSUME ItemInv, [ItemNext]_vars PROVE Kept
  OBVIOUS
<1>1. ItemTypeOK /\ PointInv /\ SameStages(history)
  BY InvParts, SameHistory
<1>2. CASE WorkSucceeds \/ WorkFails \/ RunSucceeds \/ RunFails \/ Analyzed \/ BlockEnds \/
         EditSucceeds \/ EditFails \/ AbandonEnds
  <2>1. \E status \in StageStatuses : NewestIs(Types, "running") /\ Finish(status)
    BY <1>1, <1>2 DEF WorkSucceeds, WorkFails, RunSucceeds, RunFails, Analyzed, BlockEnds,
       EditSucceeds,
       EditFails, AbandonEnds, PointInv, InStage,
       NewestIs, Types, Repairs, StageStatuses
  <2>2. SameStages(history')
    BY <1>1, <2>1, FinishedStages
  <2>3. QED
    BY <1>1, <2>2 DEF Kept, SameStages
<1>3. CASE Generate \/ Execute \/ Repair \/ Await \/ Block
  <2>1. \E s : history' = Append(history, s)
    BY <1>3 DEF Generate, Execute, Repair, Await, Block, Begin
  <2>2. QED
    BY <1>1, <2>1, KeptWhenExtended
<1>4. CASE Regenerate \/ HumanExecute \/ HumanRepair \/ ManualEdit \/ Abandon
  <2>1. SameStages(Resolved(history))
    BY <1>4, ResolvedStages DEF Regenerate, HumanExecute, HumanRepair, ManualEdit, Abandon, Acts
  <2>2. \E s : history' = Append(Resolved(history), s)
    BY <1>4 DEF Regenerate, HumanExecute, HumanRepair, ManualEdit, Abandon, Begin
  <2>3. QED
    BY <1>1, <2>1, <2>2, KeptWhenExtended
<1>5. CASE Resync
  BY <1>1, <1>5, KeptWhenExtended DEF Resync
<1>6. CASE Recover
  <2>1. SameStages(Closed(history, Types, {"running"}, "failed"))
    BY <1>1, ClosedStages DEF Open, StageStatuses
  <2>2. QED
    BY <1>1, <1>6, <2>1, KeptWhenExtended DEF Recover
<1>7. CASE AdoptExternal
  <2>1. SameStages(Closed(history, {"human_review"}, {"pending"}, "superseded"))
    BY <1>1, ClosedStages DEF Open, StageStatuses
  <2>2. QED
    BY <1>1, <1>7, <2>1, KeptWhenExtended DEF AdoptExternal
<1>8. CASE Finalize
  <2>1. history' = Closed(history, Types, Open, "failed")
    BY <1>1, <1>8, HistoryParts DEF Finalize, Closed, Stages
  <2>2. SameStages(history')
    BY <1>1, <2>1, ClosedStages DEF StageStatuses
  <2>3. QED
    BY <1>1, <2>2 DEF Kept, SameStages
<1>9. CASE InitializeCancelled
  BY <1>9 DEF InitializeCancelled, Kept
<1>10. CASE history' = history
  BY <1>1, <1>10, KeptWhenExtended
<1>11. QED
  BY <1>2, <1>3, <1>4, <1>5, <1>6, <1>7, <1>8, <1>9, <1>10
     DEF ItemNext, Starts, Works, Recovers, Outside, MarkReady, OperationCancelled, ExternalWrite,
     Crash, vars

\* History is append-only in every life of a script: a stage keeps its place,
\* type, trigger and input, and a closed one its outcome, through recovery,
\* adoption of outside versions and the end of the run as well.
THEOREM HistoryAlwaysKept == ItemSpec => HistoryImmutable
<1> DEFINE Immutable ==
      /\ Len(history') >= Len(history)
      /\ \A k \in DOMAIN history :
           /\ [history'[k] EXCEPT !.status = history[k].status] = history[k]
           /\ history[k].status \notin Open => history'[k] = history[k]
<1>1. ASSUME ItemInv, ItemInv', [ItemNext]_vars PROVE Immutable
  <2>1. /\ Kept /\ DOMAIN history = 1..Len(history) /\ Len(history) \in Nat
        /\ \A k \in 1..Len(history) : history[k] \in Stages
    BY <1>1, HistoryKept, HistoryParts DEF ItemInv
  <2>2. history' \in Seq(Stages)
    BY <1>1 DEF ItemInv, ItemTypeOK
  <2>3. Len(history') \in Nat /\ \A k \in 1..Len(history') : history'[k] \in Stages
    BY <2>2, LenProperties, ElementOfSeq
  <2>4. \A k \in 1..Len(history) : history'[k] \in Stages
    BY <2>1, <2>3 DEF Kept
  <2>5. QED
    BY <2>1, <2>4 DEF Kept, Stages
<1>2. QED
  BY <1>1, ItemStep, ItemInvariant, PTL DEF ItemSpec, HistoryImmutable
=============================================================================
