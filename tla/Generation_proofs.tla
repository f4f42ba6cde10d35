------------------------ MODULE Generation_proofs ------------------------
(***************************************************************************)
(* Proofs about Generation, for any number of files written by OpenCode    *)
(* and edits by people, wherever acceptance, clean-up and revisions fail:  *)
(* its types, that a success is recorded as it is, that a clean-up which   *)
(* raised nothing leaves everything as it was found, and that what the     *)
(* reader was told stays the job's status.                                 *)
(***************************************************************************)
EXTENDS Generation, TLAPS

\* Once the request is through, the snapshot has the managed files, and a
\* script's lease is held until the stream is over.
Guarded ==
  pc # "request" =>
    /\ DOMAIN snapshot = Managed
    /\ Leased /\ pc # "over" => lease

\* So a person saves a script before the stream or after it, and a plan at
\* any time once there is one.
SavedOutside ==
  /\ saved /\ Leased => pc \in {"request", "over"}
  /\ editor.at # "idle" => ~Leased /\ pc # "request"
  /\ editor.at = "written" => saved

\* New files come from the prompt of a new script.
NewFiles == mode.kind # "generator" => ~Present("candidate") /\ ~Present("fresh")

\* Where a stream may be that has sent its terminal status ...
HeardThere ==
  /\ heard # "none" => pc \in {"announce", "exit", "exitsync", "exited", "closing", "rollback",
                               "rollsync", "release", "over"}
  /\ heard = "succeeded" => pc \notin {"rollback", "rollsync"}
  /\ pc = "announce" => heard = "succeeded"

\* ... and one that has run a clean-up, whole or not.
CleanedThere ==
  cleanup # "none" =>
    /\ Rolls
    /\ pc \in {"cancelled", "exited", "closing", "rollback", "rollsync", "release", "over"}

\* A result taken by the stream.
Taken ==
  mode.kind = "generator" =>
    /\ ~saved => files.target = "good"
    /\ spent.others = 0 => files.other = snapshot.other

\* Where nothing undoes a success any more: it has been announced, or its
\* reader has left a stream without a clean-up.
Kept ==
  \/ pc \in {"announce", "closing", "release", "over"}
  \/ pc \in {"exit", "exitsync", "exited"} /\ ~Rolls

\* The revision is the file's, or a person's save of the plan is under way.
Matches == (mode.kind = "planner" /\ saved) \/ asset = files.target

\* From the result to the end of the stream, unless OpenCode writes on.
Recorded ==
  ~late =>
    /\ pc = "sync" => Taken
    /\ pc = "finish" => Taken /\ Matches
    /\ heard = "succeeded" /\ cleanup = "none" /\ Kept => Taken /\ Matches

\* Files as they were found.
Whole ==
  /\ \A f \in DOMAIN snapshot : (f = "other" /\ spent.others > 0) \/ files[f] = snapshot[f]
  /\ ~Present("fresh") /\ ~Present("candidate")
  /\ mode.kind = "planner" /\ ~saved => ~Present("target")

\* The clean-up restores the files, then the asset's revision; both stay.  One
\* that fails promises nothing.
Undoing ==
  /\ Rolls /\ pc \in {"cancelled", "exited"} => cleanup # "none"
  /\ ~late =>
       /\ Rolls /\ pc \in {"resync", "exitsync", "rollsync"} => Whole
       /\ cleanup = "done" /\ pc \in {"cancelled", "exited", "closing", "rollback", "release"} =>
            Whole /\ (Leased => asset = files.target)

GenerationInv ==
  /\ GenerationTypeOK /\ Guarded /\ SavedOutside /\ NewFiles /\ HeardThere /\ CleanedThere
  /\ Recorded /\ Undoing /\ OutcomeStands

Control == Guarded /\ SavedOutside /\ NewFiles /\ HeardThere /\ CleanedThere

-----------------------------------------------------------------------------
\* There are three kinds of generations.
LEMMA KindsAre == mode \in Modes => mode.kind \in {"generator", "healer", "planner"}
BY GenerationAssumption DEF GenerationAssumption, Callers

\* What is restored or finalized has contents of files.
LEMMA RestoredTyped == GenerationTypeOK => Restored \in [File -> Content]
<1> SUFFICES ASSUME GenerationTypeOK, NEW f \in File
             PROVE  (IF f \in DOMAIN snapshot THEN snapshot[f]
                     ELSE IF mode.kind = "generator" \/ (mode.kind = "planner" /\ f = "target")
                     THEN "none" ELSE files[f]) \in Content
  BY DEF Restored
<1>1. QED
  BY DEF GenerationTypeOK, Content

LEMMA PartlyRestoredTyped ==
  GenerationTypeOK => \A fs \in PartlyRestored : fs \in [File -> Content]
<1> SUFFICES ASSUME GenerationTypeOK, NEW fs \in PartlyRestored PROVE fs \in [File -> Content]
  OBVIOUS
<1>1. PICK done \in SUBSET Managed \cup {Managed \cup {"fresh"}} :
        fs = [f \in File |-> IF f \in done THEN Restored[f] ELSE files[f]]
  BY DEF PartlyRestored
<1>2. QED
  BY <1>1, RestoredTyped DEF GenerationTypeOK

LEMMA FinalizedTyped == GenerationTypeOK => Finalized \in [File -> Content]
<1>1. Source \in File
  BY DEF Source, File
<1>2. QED
  BY <1>1 DEF Finalized, GenerationTypeOK, Content, File

\* Every step keeps the types.
LEMMA TypesKept == GenerationInv /\ [GenerationNext]_vars => GenerationTypeOK'
<1> SUFFICES ASSUME GenerationInv, [GenerationNext]_vars PROVE GenerationTypeOK'
  OBVIOUS
<1>1. CASE Start
  <2>1. record' \in [live : BOOLEAN, cancel : BOOLEAN, session : BOOLEAN]
    BY <1>1 DEF Start, Registered, GenerationInv, GenerationTypeOK
  <2>2. row' \in [status : TEST_JOB_STATUSES, cancel : BOOLEAN]
    BY <1>1 DEF Start, Finish, TEST_JOB_STATUSES, GenerationInv, GenerationTypeOK
  <2>3. QED
    BY <1>1, <2>1, <2>2 DEF Start, Finish, Registered, TEST_JOB_STATUSES, work, outside,
       GenerationInv, GenerationTypeOK
<1>2. CASE Cancelled
  <2>1. record' \in [live : BOOLEAN, cancel : BOOLEAN, session : BOOLEAN]
    BY <1>2 DEF Cancelled, RowCancelled, GenerationInv, GenerationTypeOK
  <2>2. QED
    BY <1>2, <2>1 DEF Cancelled, Aborted, Looking, work, outside, GenerationInv,
       GenerationTypeOK
<1>3. CASE Setup
  BY <1>3 DEF Setup, Leads, work, outside, GenerationInv, GenerationTypeOK
<1>4. CASE OpenSession
  <2>1. record' \in [live : BOOLEAN, cancel : BOOLEAN, session : BOOLEAN]
    BY <1>4 DEF OpenSession, RowCancelled, GenerationInv, GenerationTypeOK
  <2>2. QED
    BY <1>4, <2>1 DEF OpenSession, work, outside, GenerationInv, GenerationTypeOK
<1>5. CASE Submit
  BY <1>5 DEF Submit, work, outside, GenerationInv, GenerationTypeOK
<1>6. CASE Round
  BY <1>6 DEF Round, Leads, work, outside, GenerationInv, GenerationTypeOK
<1>7. CASE Detected
  BY <1>7 DEF Detected, Aborted, work, outside, GenerationInv, GenerationTypeOK
<1>8. CASE WaitForIdle
  BY <1>8 DEF WaitForIdle, Leads, work, outside, GenerationInv, GenerationTypeOK
<1>9. CASE Fallback
  BY <1>9 DEF Fallback, Aborted, work, outside, GenerationInv, GenerationTypeOK
<1>10. CASE WaitForCompletion
  BY <1>10 DEF WaitForCompletion, Leads, work, outside, GenerationInv, GenerationTypeOK
<1>11. CASE Finalize
  <2>0. GenerationTypeOK /\ files \in [File -> Content]
    BY DEF GenerationInv, GenerationTypeOK
  <2>1. files' \in [File -> Content]
    BY <1>11, <2>0, RestoredTyped, PartlyRestoredTyped, FinalizedTyped DEF Finalize
  <2>2. pc' \in {"sync", "failing"} /\ late' \in BOOLEAN
        /\ UNCHANGED <<mode, snapshot, runCancel, asset, row, record, lease, session, prompt, cancel,
                       saved, editor, heard, cleanup, spent>>
    BY <1>11 DEF Finalize, work, outside
  <2>3. QED
    BY <2>0, <2>1, <2>2 DEF GenerationTypeOK
<1>12. CASE SyncAsset
  BY <1>12 DEF SyncAsset, Synced, File, work, outside, GenerationInv, GenerationTypeOK
<1>13. CASE FinishJob
  BY <1>13 DEF FinishJob, Finish, TEST_JOB_STATUSES, work, outside, GenerationInv,
     GenerationTypeOK
<1>14. CASE Announce
  BY <1>14 DEF Announce, Leads, work, outside, GenerationInv, GenerationTypeOK
<1>15. CASE Restore
  <2>0. GenerationTypeOK /\ files \in [File -> Content]
    BY DEF GenerationInv, GenerationTypeOK
  <2>1. files' \in [File -> Content]
    BY <1>15, <2>0, RestoredTyped, PartlyRestoredTyped DEF Restore
  <2>2. cleanup' \in {cleanup, "failed"} /\ late' \in BOOLEAN
    <3>1. late \in BOOLEAN
      BY <2>0 DEF GenerationTypeOK
    <3>2. QED
      BY <1>15, <3>1 DEF Restore
  <2>3. pc' \in {"resync", "exitsync", "rollsync", "cancelled", "exited", "release"}
    BY <1>15 DEF Restore
  <2>4. UNCHANGED <<mode, snapshot, runCancel, asset, row, record, lease, session, prompt, cancel,
                    saved, editor, heard, spent>>
    BY <1>15 DEF Restore, work, outside
  <2>5. QED
    BY <2>0, <2>1, <2>2, <2>3, <2>4 DEF GenerationTypeOK
<1>16. CASE Resync
  <2>1. cleanup' \in {"none", "done", "failed"} /\ asset' \in Content
    BY <1>16 DEF Resync, Synced, File, GenerationInv, GenerationTypeOK
  <2>2. QED
    BY <1>16, <2>1 DEF Resync, work, outside, GenerationInv, GenerationTypeOK
<1>17. CASE StageTerminal
  BY <1>17 DEF StageTerminal, Finish, TEST_JOB_STATUSES, work, outside, GenerationInv,
     GenerationTypeOK
<1>18. CASE Exited
  BY <1>18 DEF Exited, Finish, Aborted, TEST_JOB_STATUSES, work, outside, GenerationInv,
     GenerationTypeOK
<1>19. CASE Close
  BY <1>19 DEF Close, work, outside, GenerationInv, GenerationTypeOK
<1>20. CASE Release
  <2>1. lease' \in BOOLEAN
    BY <1>20 DEF Release
  <2>2. QED
    BY <1>20, <2>1 DEF Release, work, outside, GenerationInv, GenerationTypeOK
<1>21. CASE Request
  <2>1. lease' \in BOOLEAN /\ saved' \in BOOLEAN
    BY <1>21 DEF Request, Leased
  <2>2. DOMAIN snapshot' \subseteq File /\ \A f \in DOMAIN snapshot' : snapshot'[f] \in Content
    BY <1>21, KindsAre DEF Request, ManagedSnapshot, Managed, File, GenerationInv,
       GenerationTypeOK
  <2>3. asset' \in Content
    BY <1>21 DEF Request, Synced, File, GenerationInv, GenerationTypeOK
  <2>4. row' \in [status : TEST_JOB_STATUSES, cancel : BOOLEAN]
    BY <1>21 DEF Request, TEST_JOB_STATUSES, GenerationInv, GenerationTypeOK
  <2>5. QED
    BY <1>21, <2>1, <2>2, <2>3, <2>4 DEF Request, work, outside, GenerationInv, GenerationTypeOK
<1>22. CASE Abandon
  <2>1. lease' \in BOOLEAN
    BY <1>22 DEF Abandon
  <2>2. QED
    BY <1>22, <2>1 DEF Abandon, work, outside, GenerationInv, GenerationTypeOK
<1>23. CASE Disconnect
  BY <1>23 DEF Disconnect, Leads, Suspended, work, outside, GenerationInv, GenerationTypeOK
<1>24. CASE PromptCheck
  <2>1. record' \in [live : BOOLEAN, cancel : BOOLEAN, session : BOOLEAN]
    BY <1>24 DEF PromptCheck, RowCancelled, GenerationInv, GenerationTypeOK
  <2>2. QED
    BY <1>24, <2>1 DEF PromptCheck, Aborted, work, outside, GenerationInv, GenerationTypeOK
<1>25. CASE PromptSend
  BY <1>25 DEF PromptSend, work, outside, GenerationInv, GenerationTypeOK
<1>26. CASE CancelRead
  BY <1>26 DEF CancelRead, work, outside, GenerationInv, GenerationTypeOK
<1>27. CASE CancelWrite
  <2>1. record' \in [live : BOOLEAN, cancel : BOOLEAN, session : BOOLEAN]
    BY <1>27 DEF CancelWrite, GenerationInv, GenerationTypeOK
  <2>2. row' \in [status : TEST_JOB_STATUSES, cancel : BOOLEAN]
    BY <1>27 DEF CancelWrite, TEST_JOB_STATUSES
  <2>3. QED
    BY <1>27, <2>1, <2>2 DEF CancelWrite, Aborted, TEST_JOB_STATUSES, work, outside,
       GenerationInv, GenerationTypeOK
<1>28. CASE CancelRun
  BY <1>28 DEF CancelRun, work, outside, GenerationInv, GenerationTypeOK
<1>29. CASE Write
  BY <1>29, GenerationAssumption DEF Write, Content, work, outside, GenerationInv,
     GenerationTypeOK
<1>30. CASE SessionEnds
  BY <1>30 DEF SessionEnds, work, outside, GenerationInv, GenerationTypeOK
<1>31. CASE SaveScript
  BY <1>31, GenerationAssumption DEF SaveScript, Content, File, work, outside, GenerationInv,
     GenerationTypeOK
<1>32. CASE EditPlan
  BY <1>32, GenerationAssumption DEF EditPlan, File, work, outside, GenerationInv,
     GenerationTypeOK
<1>33. CASE WritePlan
  BY <1>33 DEF WritePlan, Content, work, outside, GenerationInv, GenerationTypeOK
<1>34. CASE SyncPlan
  <2>1. files' \in [File -> Content] /\ asset' \in Content
    BY <1>34 DEF SyncPlan, Synced, File, GenerationInv, GenerationTypeOK
  <2>2. QED
    BY <1>34, <2>1 DEF SyncPlan, Content, work, outside, GenerationInv, GenerationTypeOK
<1>35. CASE SaveOther
  BY <1>35, GenerationAssumption DEF SaveOther, Content, work, outside, GenerationInv,
     GenerationTypeOK
<1>36. CASE UNCHANGED vars
  BY <1>36 DEF vars, GenerationInv, GenerationTypeOK
<1>37. QED
  BY <1>1, <1>2, <1>3, <1>4, <1>5, <1>6, <1>7, <1>8, <1>9, <1>10, <1>11, <1>12, <1>13, <1>14,
     <1>15, <1>16, <1>17, <1>18, <1>19, <1>20, <1>21, <1>22, <1>23, <1>24, <1>25, <1>26, <1>27,
     <1>28, <1>29, <1>30, <1>31, <1>32, <1>33, <1>34, <1>35,
     <1>36 DEF GenerationNext, Stream, Around

\* Every step keeps where the stream may be and what it holds.
LEMMA ControlKept == GenerationInv /\ [GenerationNext]_vars => Control'
<1> SUFFICES ASSUME GenerationInv, [GenerationNext]_vars PROVE Control'
  OBVIOUS
<1> DEFINE Stays == UNCHANGED <<mode, pc, files, snapshot, lease, saved, editor, heard, cleanup>>
<1>0. ASSUME Stays PROVE Control'
  <2>1. Managed' = Managed /\ Leased' = Leased /\ Rolls' = Rolls
    BY <1>0 DEF Managed, Leased, Rolls
  <2>2. Guarded' /\ SavedOutside'
    BY <1>0, <2>1 DEF GenerationInv, Guarded, SavedOutside
  <2>3. NewFiles'
    BY <1>0 DEF GenerationInv, NewFiles, Present
  <2>4. HeardThere' /\ CleanedThere'
    BY <1>0, <2>1 DEF GenerationInv, HeardThere, CleanedThere
  <2>5. QED
    BY <2>2, <2>3, <2>4 DEF Control
<1>1. CASE Start
  BY <1>1 DEF Start, Finish, Registered, work, outside, GenerationInv, Control,
     GenerationTypeOK, Guarded, SavedOutside, NewFiles, HeardThere, CleanedThere, Rolls, Leased,
     Managed, Present
<1>2. CASE Cancelled
  BY <1>2 DEF Cancelled, Aborted, Looking, work, outside, GenerationInv, Control,
     GenerationTypeOK, Guarded, SavedOutside, NewFiles, HeardThere, CleanedThere, Rolls, Leased,
     Managed, Present
<1>3. CASE Setup
  <2>1. pc = "setup" /\ pc' \in {"session", "failing"}
        /\ UNCHANGED <<mode, files, snapshot, lease, saved, editor, heard, cleanup>>
    BY <1>3 DEF Setup, Leads, work, outside
  <2>2. QED
    BY <1>3, <2>1 DEF GenerationInv, Control, GenerationTypeOK, Guarded, SavedOutside,
       NewFiles, HeardThere, CleanedThere, Rolls, Leased, Managed, Present
<1>4. CASE OpenSession
  BY <1>4 DEF OpenSession, work, outside, GenerationInv, Control, GenerationTypeOK, Guarded,
     SavedOutside, NewFiles, HeardThere, CleanedThere, Rolls, Leased, Managed, Present
<1>5. CASE Submit
  BY <1>5 DEF Submit, work, outside, GenerationInv, Control, GenerationTypeOK, Guarded,
     SavedOutside, NewFiles, HeardThere, CleanedThere, Rolls, Leased, Managed, Present
<1>6. CASE Round
  BY <1>6 DEF Round, Leads, work, outside, GenerationInv, Control, GenerationTypeOK, Guarded,
     SavedOutside, NewFiles, HeardThere, CleanedThere, Rolls, Leased, Managed, Present
<1>7. CASE Detected
  BY <1>7 DEF Detected, Aborted, work, outside, GenerationInv, Control, GenerationTypeOK,
     Guarded, SavedOutside, NewFiles, HeardThere, CleanedThere, Rolls, Leased, Managed, Present
<1>8. CASE WaitForIdle
  <2>1. pc = "idle" /\ pc' \in {"stable", "failing"}
        /\ UNCHANGED <<mode, files, snapshot, lease, saved, editor, heard, cleanup>>
    BY <1>8 DEF WaitForIdle, Leads, work, outside
  <2>2. QED
    BY <1>8, <2>1 DEF GenerationInv, Control, GenerationTypeOK, Guarded, SavedOutside,
       NewFiles, HeardThere, CleanedThere, Rolls, Leased, Managed, Present
<1>9. CASE Fallback
  BY <1>9 DEF Fallback, Aborted, work, outside, GenerationInv, Control, GenerationTypeOK,
     Guarded, SavedOutside, NewFiles, HeardThere, CleanedThere, Rolls, Leased, Managed, Present
<1>10. CASE WaitForCompletion
  <2>1. pc = "stable" /\ pc' \in {"finalize", "failing"}
        /\ UNCHANGED <<mode, files, snapshot, lease, saved, editor, heard, cleanup>>
    BY <1>10 DEF WaitForCompletion, Leads, work, outside
  <2>2. QED
    BY <1>10, <2>1 DEF GenerationInv, Control, GenerationTypeOK, Guarded, SavedOutside,
       NewFiles, HeardThere, CleanedThere, Rolls, Leased, Managed, Present
<1>11. CASE Finalize
  <2>1. pc = "finalize" /\ pc' \in {"sync", "failing"}
        /\ UNCHANGED <<mode, snapshot, lease, saved, editor, heard, cleanup>>
    BY <1>11 DEF Finalize, work, outside
  <2>2. mode.kind # "generator" => files' = files
    BY <1>11 DEF Finalize
  <2>3. QED
    BY <2>1, <2>2 DEF GenerationInv, Control, Guarded, SavedOutside, NewFiles, HeardThere,
       CleanedThere, Rolls, Leased, Managed, Present
<1>12. CASE SyncAsset
  BY <1>12 DEF SyncAsset, work, outside, GenerationInv, Control, GenerationTypeOK, Guarded,
     SavedOutside, NewFiles, HeardThere, CleanedThere, Rolls, Leased, Managed, Present
<1>13. CASE FinishJob
  BY <1>13 DEF FinishJob, Finish, work, outside, GenerationInv, Control, GenerationTypeOK,
     Guarded, SavedOutside, NewFiles, HeardThere, CleanedThere, Rolls, Leased, Managed, Present
<1>14. CASE Announce
  BY <1>14 DEF Announce, Leads, work, outside, GenerationInv, Control, GenerationTypeOK,
     Guarded, SavedOutside, NewFiles, HeardThere, CleanedThere, Rolls, Leased, Managed, Present
<1>15. CASE Restore
  <2>1. \/ /\ <<pc, pc'>> \in {<<"restore", "resync">>, <<"exit", "exitsync">>, <<"rollback", "rollsync">>}
           /\ cleanup' = cleanup
        \/ /\ <<pc, pc'>> \in {<<"restore", "cancelled">>, <<"exit", "exited">>, <<"rollback", "release">>}
           /\ Rolls
    BY <1>15 DEF Restore
  <2>2. UNCHANGED <<mode, snapshot, lease, saved, editor, heard>>
    BY <1>15 DEF Restore, work, outside
  <2>3. NewFiles'
    <3>1. \A f \in {"fresh", "candidate"} : f \in File /\ f \notin Managed
      BY KindsAre DEF File, Managed, GenerationInv, GenerationTypeOK
    <3>2. pc # "request"
      BY <2>1
    <3>3. mode.kind # "generator" => \A f \in {"fresh", "candidate"} : Restored[f] = files[f]
      BY <3>1, <3>2 DEF Restored, Guarded, GenerationInv
    <3>4. mode.kind # "generator" => \A f \in {"fresh", "candidate"} : files'[f] = files[f]
      BY <1>15, <3>1, <3>3 DEF Restore, PartlyRestored
    <3>5. QED
      BY <2>2, <3>4 DEF NewFiles, Present, GenerationInv
  <2>4. QED
    BY <1>15, <2>1, <2>2, <2>3 DEF GenerationInv, Control, GenerationTypeOK, Guarded,
       SavedOutside, NewFiles, HeardThere, CleanedThere, Rolls, Leased, Managed, Present
<1>16. CASE Resync
  <2>1. <<pc, pc'>> \in {<<"resync", "cancelled">>, <<"exitsync", "exited">>, <<"rollsync", "release">>}
    BY <1>16 DEF Resync
  <2>2. UNCHANGED <<mode, snapshot, files, lease, saved, editor, heard>>
    BY <1>16 DEF Resync, work, outside
  <2>3. Rolls \/ cleanup' = cleanup
    BY <1>16 DEF Resync
  <2>4. QED
    BY <1>16, <2>1, <2>2, <2>3 DEF GenerationInv, Control, GenerationTypeOK, Guarded,
       SavedOutside, NewFiles, HeardThere, CleanedThere, Rolls, Leased, Managed, Present
<1>17. CASE StageTerminal
  BY <1>17 DEF StageTerminal, Finish, work, outside, GenerationInv, Control, GenerationTypeOK,
     Guarded, SavedOutside, NewFiles, HeardThere, CleanedThere, Rolls, Leased, Managed, Present
<1>18. CASE Exited
  BY <1>18 DEF Exited, Finish, Aborted, work, outside, GenerationInv, Control,
     GenerationTypeOK, Guarded, SavedOutside, NewFiles, HeardThere, CleanedThere, Rolls, Leased,
     Managed, Present
<1>19. CASE Close
  BY <1>19 DEF Close, work, outside, GenerationInv, Control, GenerationTypeOK, Guarded,
     SavedOutside, NewFiles, HeardThere, CleanedThere, Rolls, Leased, Managed, Present
<1>20. CASE Release
  BY <1>20 DEF Release, work, outside, GenerationInv, Control, GenerationTypeOK, Guarded,
     SavedOutside, NewFiles, HeardThere, CleanedThere, Rolls, Leased, Managed, Present
<1>21. CASE Request
  BY <1>21 DEF Request, ManagedSnapshot, Managed, work, outside, GenerationInv, Control,
     GenerationTypeOK, Guarded, SavedOutside, NewFiles, HeardThere, CleanedThere, Rolls, Leased,
     Present
<1>22. CASE Abandon
  BY <1>22 DEF Abandon, work, outside, GenerationInv, Control, GenerationTypeOK, Guarded,
     SavedOutside, NewFiles, HeardThere, CleanedThere, Rolls, Leased, Managed, Present
<1>23. CASE Disconnect
  BY <1>23 DEF Disconnect, Leads, Suspended, work, outside, GenerationInv, Control,
     GenerationTypeOK, Guarded, SavedOutside, NewFiles, HeardThere, CleanedThere, Rolls, Leased,
     Managed, Present
<1>24. CASE PromptCheck
  BY <1>0, <1>24 DEF PromptCheck, work, outside
<1>25. CASE PromptSend
  BY <1>0, <1>25 DEF PromptSend, work, outside
<1>26. CASE CancelRead
  BY <1>0, <1>26 DEF CancelRead, work, outside
<1>27. CASE CancelWrite
  BY <1>0, <1>27 DEF CancelWrite, work, outside
<1>28. CASE CancelRun
  BY <1>0, <1>28 DEF CancelRun, work, outside
<1>29. CASE Write
  <2>1. UNCHANGED <<mode, pc, snapshot, lease, saved, editor, heard, cleanup>>
    BY <1>29 DEF Write, work, outside
  <2>2. PICK f \in File, c \in {"part", "good"} :
          /\ f \in {"candidate", "fresh"} => mode.kind = "generator"
          /\ files' = [files EXCEPT ![f] = c]
    BY <1>29 DEF Write
  <2>3. files \in [File -> Content]
    BY DEF GenerationInv, GenerationTypeOK
  <2>4. NewFiles'
    BY <2>1, <2>2, <2>3 DEF NewFiles, Present, File, GenerationInv
  <2>5. QED
    BY <2>1, <2>4 DEF GenerationInv, Control, Guarded, SavedOutside, HeardThere, CleanedThere,
       Rolls, Leased, Managed
<1>30. CASE SessionEnds
  BY <1>0, <1>30 DEF SessionEnds, work, outside
<1>31. CASE SaveScript
  BY <1>31 DEF SaveScript, File, work, outside, GenerationInv, Control, GenerationTypeOK,
     Guarded, SavedOutside, NewFiles, HeardThere, CleanedThere, Rolls, Leased, Managed, Present
<1>32. CASE EditPlan
  BY <1>32 DEF EditPlan, work, outside, GenerationInv, Control,
     GenerationTypeOK, Guarded, SavedOutside, NewFiles, HeardThere, CleanedThere, Rolls, Leased,
     Managed, Present
<1>33. CASE WritePlan
  BY <1>33 DEF WritePlan, File, work, outside, GenerationInv, Control,
     GenerationTypeOK, Guarded, SavedOutside, NewFiles, HeardThere, CleanedThere, Rolls, Leased,
     Managed, Present
<1>34. CASE SyncPlan
  BY <1>34 DEF SyncPlan, File, work, outside, GenerationInv, Control,
     GenerationTypeOK, Guarded, SavedOutside, NewFiles, HeardThere, CleanedThere, Rolls, Leased,
     Managed, Present
<1>35. CASE SaveOther
  <2>1. UNCHANGED <<mode, pc, snapshot, lease, saved, editor, heard, cleanup>>
        /\ files' = [files EXCEPT !.other = "mine"]
    BY <1>35 DEF SaveOther, work, outside
  <2>2. files \in [File -> Content]
    BY DEF GenerationInv, GenerationTypeOK
  <2>3. NewFiles'
    BY <2>1, <2>2 DEF NewFiles, Present, File, GenerationInv
  <2>4. QED
    BY <2>1, <2>3 DEF GenerationInv, Control, Guarded, SavedOutside, HeardThere, CleanedThere,
       Rolls, Leased, Managed
<1>36. CASE UNCHANGED vars
  BY <1>0, <1>36 DEF vars
<1>37. QED
  BY <1>1, <1>2, <1>3, <1>4, <1>5, <1>6, <1>7, <1>8, <1>9, <1>10, <1>11, <1>12, <1>13, <1>14,
     <1>15, <1>16, <1>17, <1>18, <1>19, <1>20, <1>21, <1>22, <1>23, <1>24, <1>25, <1>26, <1>27,
     <1>28, <1>29, <1>30, <1>31, <1>32, <1>33, <1>34, <1>35,
     <1>36 DEF GenerationNext, Stream, Around

\* Every step keeps what a success has recorded.
LEMMA RecordedKept == GenerationInv /\ [GenerationNext]_vars => Recorded'
<1> SUFFICES ASSUME GenerationInv, [GenerationNext]_vars PROVE Recorded'
  OBVIOUS
<1>1. CASE Start
  BY <1>1 DEF Start, Finish, Registered, work, outside, GenerationInv, Recorded, Taken, Matches, Kept,
     Guarded, SavedOutside, HeardThere, Rolls, Leased
<1>2. CASE Cancelled
  BY <1>2 DEF Cancelled, Aborted, Looking, work, outside, GenerationInv, Recorded, Taken, Matches, Kept,
     Guarded, SavedOutside, HeardThere, Rolls, Leased
<1>3. CASE Setup
  BY <1>3 DEF Setup, Leads, work, outside, GenerationInv, Recorded, Taken, Matches, Kept, Guarded,
     SavedOutside, HeardThere, Rolls, Leased
<1>4. CASE OpenSession
  BY <1>4 DEF OpenSession, work, outside, GenerationInv, Recorded, Taken, Matches, Kept, Guarded,
     SavedOutside, HeardThere, Rolls, Leased
<1>5. CASE Submit
  BY <1>5 DEF Submit, work, outside, GenerationInv, Recorded, Taken, Matches, Kept, Guarded,
     SavedOutside, HeardThere, Rolls, Leased
<1>6. CASE Round
  BY <1>6 DEF Round, Leads, work, outside, GenerationInv, Recorded, Taken, Matches, Kept, Guarded,
     SavedOutside, HeardThere, Rolls, Leased
<1>7. CASE Detected
  BY <1>7 DEF Detected, Aborted, work, outside, GenerationInv, Recorded, Taken, Matches, Kept, Guarded,
     SavedOutside, HeardThere, Rolls, Leased
<1>8. CASE WaitForIdle
  BY <1>8 DEF WaitForIdle, Leads, work, outside, GenerationInv, Recorded, Taken, Matches, Kept, Guarded,
     SavedOutside, HeardThere, Rolls, Leased
<1>9. CASE Fallback
  BY <1>9 DEF Fallback, Aborted, work, outside, GenerationInv, Recorded, Taken, Matches, Kept, Guarded,
     SavedOutside, HeardThere, Rolls, Leased
<1>10. CASE WaitForCompletion
  BY <1>10 DEF WaitForCompletion, Leads, work, outside, GenerationInv, Recorded, Taken, Matches, Kept,
     Guarded, SavedOutside, HeardThere, Rolls, Leased
<1>11. CASE Finalize
  BY <1>11 DEF Finalize, GenerationTypeOK, Finalized, Acceptable, Present, File, work, outside,
     GenerationInv, Recorded, Taken, Matches, Kept, Guarded, SavedOutside, HeardThere, Rolls, Leased
<1>12. CASE SyncAsset
  BY <1>12 DEF SyncAsset, GenerationTypeOK, Synced, work, outside, GenerationInv, Recorded,
     Taken, Matches, Kept, Guarded, SavedOutside, HeardThere, Rolls, Leased
<1>13. CASE FinishJob
  BY <1>13 DEF FinishJob, Finish, work, outside, GenerationInv, Recorded, Taken, Matches, Kept, Guarded,
     SavedOutside, HeardThere, Rolls, Leased
<1>14. CASE Announce
  BY <1>14 DEF Announce, Leads, work, outside, GenerationInv, Recorded, Taken, Matches, Kept, Guarded,
     SavedOutside, HeardThere, Rolls, Leased
<1>15. CASE Restore
  BY <1>15 DEF Restore, GenerationTypeOK, work, outside, GenerationInv, Recorded, Taken, Matches, Kept,
     Guarded, SavedOutside, HeardThere, Rolls, Leased
<1>16. CASE Resync
  BY <1>16 DEF Resync, GenerationTypeOK, Synced, CleanedThere, work, outside, GenerationInv,
     Recorded, Taken, Matches, Kept, Guarded, SavedOutside, HeardThere, Rolls, Leased
<1>17. CASE StageTerminal
  BY <1>17 DEF StageTerminal, Finish, work, outside, GenerationInv, Recorded, Taken, Matches, Kept,
     Guarded, SavedOutside, HeardThere, Rolls, Leased
<1>18. CASE Exited
  <2>1. pc = "exited" /\ pc' = "closing"
    BY <1>18 DEF Exited
  <2>2. UNCHANGED <<mode, snapshot, files, asset, saved, heard, cleanup, late, spent>>
    BY <1>18 DEF Exited, work, outside
  <2>3. Rolls => cleanup # "none"
    BY <1>18 DEF Exited, GenerationInv, Undoing
  <2>4. QED
    BY <1>18, <2>1, <2>2, <2>3 DEF GenerationInv, Recorded, Taken, Matches, Kept, Guarded, SavedOutside,
       HeardThere, Rolls, Leased
<1>19. CASE Close
  BY <1>19 DEF Close, work, outside, GenerationInv, Recorded, Taken, Matches, Kept, Guarded,
     SavedOutside, HeardThere, Rolls, Leased
<1>20. CASE Release
  BY <1>20 DEF Release, work, outside, GenerationInv, Recorded, Taken, Matches, Kept, Guarded,
     SavedOutside, HeardThere, Rolls, Leased
<1>21. CASE Request
  BY <1>21 DEF Request, work, outside, GenerationInv, Recorded, Taken, Matches, Kept, Guarded,
     SavedOutside, HeardThere, Rolls, Leased
<1>22. CASE Abandon
  BY <1>22 DEF Abandon, work, outside, GenerationInv, Recorded, Taken, Matches, Kept, Guarded,
     SavedOutside, HeardThere, Rolls, Leased
<1>23. CASE Disconnect
  BY <1>23 DEF Disconnect, Leads, Suspended, work, outside, GenerationInv, Recorded, Taken,
     Matches, Kept, Guarded, SavedOutside, HeardThere, Rolls, Leased
<1>24. CASE PromptCheck
  BY <1>24 DEF PromptCheck, Aborted, work, outside, GenerationInv, Recorded, Taken, Matches, Kept,
     Guarded, SavedOutside, HeardThere, Rolls, Leased
<1>25. CASE PromptSend
  BY <1>25 DEF PromptSend, work, outside, GenerationInv, Recorded, Taken, Matches, Kept, Guarded,
     SavedOutside, HeardThere, Rolls, Leased
<1>26. CASE CancelRead
  BY <1>26 DEF CancelRead, work, outside, GenerationInv, Recorded, Taken, Matches, Kept, Guarded,
     SavedOutside, HeardThere, Rolls, Leased
<1>27. CASE CancelWrite
  BY <1>27 DEF CancelWrite, Aborted, work, outside, GenerationInv, Recorded, Taken, Matches, Kept,
     Guarded, SavedOutside, HeardThere, Rolls, Leased
<1>28. CASE CancelRun
  BY <1>28 DEF CancelRun, work, outside, GenerationInv, Recorded, Taken, Matches, Kept, Guarded,
     SavedOutside, HeardThere, Rolls, Leased
<1>29. CASE Write
  BY <1>29 DEF Write, GenerationTypeOK, Looking, work, outside, GenerationInv, Recorded, Taken,
     Matches, Kept, Guarded, SavedOutside, HeardThere, Rolls, Leased
<1>30. CASE SessionEnds
  BY <1>30 DEF SessionEnds, work, outside, GenerationInv, Recorded, Taken, Matches, Kept, Guarded,
     SavedOutside, HeardThere, Rolls, Leased
<1>31. CASE SaveScript
  BY <1>31, ZenonT(40) DEF SaveScript, GenerationTypeOK, File, work, outside, GenerationInv,
     Recorded, Taken, Matches, Kept, Guarded, SavedOutside, HeardThere, Rolls, Leased
<1>32. CASE EditPlan
  BY <1>32 DEF EditPlan, work, outside, GenerationInv, Recorded, Taken, Matches, Kept,
     Guarded, SavedOutside, HeardThere, Rolls, Leased
<1>33. CASE WritePlan
  BY <1>33 DEF WritePlan, GenerationTypeOK, File, work, outside, GenerationInv, Recorded, Taken, Matches, Kept,
     Guarded, SavedOutside, HeardThere, Rolls, Leased
<1>34. CASE SyncPlan
  BY <1>34 DEF SyncPlan, GenerationTypeOK, File, work, outside, GenerationInv, Recorded, Taken, Matches, Kept,
     Guarded, SavedOutside, HeardThere, Rolls, Leased
<1>35. CASE SaveOther
  BY <1>35 DEF SaveOther, GenerationTypeOK, File, work, outside, GenerationInv, Recorded,
     Taken, Matches, Kept, Guarded, SavedOutside, HeardThere, Rolls, Leased
<1>36. CASE UNCHANGED vars
  BY <1>36 DEF vars, GenerationInv, Recorded, Taken, Matches, Kept, Guarded, SavedOutside, HeardThere,
     Rolls, Leased
<1>37. QED
  BY <1>1, <1>2, <1>3, <1>4, <1>5, <1>6, <1>7, <1>8, <1>9, <1>10, <1>11, <1>12, <1>13, <1>14,
     <1>15, <1>16, <1>17, <1>18, <1>19, <1>20, <1>21, <1>22, <1>23, <1>24, <1>25, <1>26, <1>27,
     <1>28, <1>29, <1>30, <1>31, <1>32, <1>33, <1>34, <1>35,
     <1>36 DEF GenerationNext, Stream, Around

\* Every step keeps what a clean-up has restored.
LEMMA UndoingKept == GenerationInv /\ [GenerationNext]_vars => Undoing'
<1> SUFFICES ASSUME GenerationInv, [GenerationNext]_vars PROVE Undoing'
  OBVIOUS
<1>1. CASE Start
  BY <1>1 DEF Start, Finish, Registered, work, outside, GenerationInv, Undoing, Whole, Guarded,
     Leased, Rolls, Present, CleanedThere
<1>2. CASE Cancelled
  BY <1>2 DEF Cancelled, Aborted, Looking, work, outside, GenerationInv, Undoing, Whole,
     Guarded, Leased, Rolls, Present, CleanedThere
<1>3. CASE Setup
  BY <1>3 DEF Setup, Leads, work, outside, GenerationInv, Undoing, Whole, Guarded, Leased,
     Rolls, Present, CleanedThere
<1>4. CASE OpenSession
  BY <1>4 DEF OpenSession, work, outside, GenerationInv, Undoing, Whole, Guarded, Leased,
     Rolls, Present, CleanedThere
<1>5. CASE Submit
  BY <1>5 DEF Submit, work, outside, GenerationInv, Undoing, Whole, Guarded, Leased, Rolls,
     Present, CleanedThere
<1>6. CASE Round
  BY <1>6 DEF Round, Leads, work, outside, GenerationInv, Undoing, Whole, Guarded, Leased,
     Rolls, Present, CleanedThere
<1>7. CASE Detected
  BY <1>7 DEF Detected, Aborted, work, outside, GenerationInv, Undoing, Whole, Guarded, Leased,
     Rolls, Present, CleanedThere
<1>8. CASE WaitForIdle
  BY <1>8 DEF WaitForIdle, Leads, work, outside, GenerationInv, Undoing, Whole, Guarded,
     Leased, Rolls, Present, CleanedThere
<1>9. CASE Fallback
  BY <1>9 DEF Fallback, Aborted, work, outside, GenerationInv, Undoing, Whole, Guarded, Leased,
     Rolls, Present, CleanedThere
<1>10. CASE WaitForCompletion
  BY <1>10 DEF WaitForCompletion, Leads, work, outside, GenerationInv, Undoing, Whole, Guarded,
     Leased, Rolls, Present, CleanedThere
<1>11. CASE Finalize
  BY <1>11 DEF Finalize, GenerationTypeOK, Looking, work, outside, GenerationInv, Undoing,
     Whole, Guarded, Leased, Rolls, Present, CleanedThere
<1>12. CASE SyncAsset
  BY <1>12 DEF SyncAsset, work, outside, GenerationInv, Undoing, Whole, Guarded, Leased, Rolls,
     Present, CleanedThere
<1>13. CASE FinishJob
  BY <1>13 DEF FinishJob, Finish, work, outside, GenerationInv, Undoing, Whole, Guarded,
     Leased, Rolls, Present, CleanedThere
<1>14. CASE Announce
  BY <1>14 DEF Announce, Leads, work, outside, GenerationInv, Undoing, Whole, Guarded, Leased,
     Rolls, Present, CleanedThere
<1>15. CASE Restore
  <2>1. UNCHANGED <<mode, snapshot, saved, spent>>
    BY <1>15 DEF Restore, work, outside
  <2>2. CASE /\ files' = IF Rolls THEN Restored ELSE files
             /\ pc' = CASE pc = "restore" -> "resync" [] pc = "exit" -> "exitsync"
                        [] OTHER -> "rollsync"
             /\ cleanup' = cleanup
    <3>1. Rolls => Whole'
      BY <1>15, <2>1, <2>2, KindsAre DEF Restore, GenerationTypeOK, Restored, Managed, NewFiles,
         File, GenerationInv, Whole, Guarded, Present
    <3>2. pc' \in {"resync", "exitsync", "rollsync"} /\ Rolls' = Rolls
      BY <1>15, <2>1, <2>2 DEF Restore, Rolls
    <3>3. QED
      BY <3>1, <3>2 DEF Undoing
  <2>3. CASE /\ Rolls /\ cleanup' = "failed"
             /\ pc' = CASE pc = "restore" -> "cancelled" [] pc = "exit" -> "exited"
                        [] OTHER -> "release"
    BY <1>15, <2>1, <2>3 DEF Restore, Undoing
  <2>4. QED
    BY <1>15, <2>2, <2>3 DEF Restore
<1>16. CASE Resync
  <2>1. <<pc, pc'>> \in {<<"resync", "cancelled">>, <<"exitsync", "exited">>, <<"rollsync", "release">>}
    BY <1>16 DEF Resync
  <2>2. UNCHANGED <<mode, snapshot, files, lease, saved, late, spent>>
    BY <1>16 DEF Resync, work, outside
  <2>3. \/ Rolls /\ cleanup' = "done" /\ (Leased => asset' = files.target)
        \/ Rolls /\ cleanup' = "failed"
        \/ ~Rolls /\ UNCHANGED <<asset, cleanup>>
    BY <1>16 DEF Resync, Synced
  <2>4. QED
    BY <1>16, <2>1, <2>2, <2>3 DEF GenerationInv, Undoing, Whole, Guarded, Leased, Rolls,
       Present, CleanedThere
<1>17. CASE StageTerminal
  BY <1>17 DEF StageTerminal, Finish, work, outside, GenerationInv, Undoing, Whole, Guarded,
     Leased, Rolls, Present, CleanedThere
<1>18. CASE Exited
  BY <1>18 DEF Exited, Finish, Aborted, work, outside, GenerationInv, Undoing, Whole, Guarded,
     Leased, Rolls, Present, CleanedThere
<1>19. CASE Close
  BY <1>19 DEF Close, work, outside, GenerationInv, Undoing, Whole, Guarded, Leased, Rolls,
     Present, CleanedThere
<1>20. CASE Release
  BY <1>20 DEF Release, work, outside, GenerationInv, Undoing, Whole, Guarded, Leased, Rolls,
     Present, CleanedThere
<1>21. CASE Request
  BY <1>21 DEF Request, work, outside, GenerationInv, Undoing, Whole, Guarded, Leased, Rolls,
     Present, CleanedThere
<1>22. CASE Abandon
  BY <1>22 DEF Abandon, work, outside, GenerationInv, Undoing, Whole, Guarded, Leased, Rolls,
     Present, CleanedThere
<1>23. CASE Disconnect
  BY <1>23 DEF Disconnect, Leads, Suspended, work, outside, GenerationInv, Undoing, Whole,
     Guarded, Leased, Rolls, Present, CleanedThere
<1>24. CASE PromptCheck
  BY <1>24 DEF PromptCheck, Aborted, work, outside, GenerationInv, Undoing, Whole, Guarded,
     Leased, Rolls, Present, CleanedThere
<1>25. CASE PromptSend
  BY <1>25 DEF PromptSend, work, outside, GenerationInv, Undoing, Whole, Guarded, Leased,
     Rolls, Present, CleanedThere
<1>26. CASE CancelRead
  BY <1>26 DEF CancelRead, work, outside, GenerationInv, Undoing, Whole, Guarded, Leased,
     Rolls, Present, CleanedThere
<1>27. CASE CancelWrite
  BY <1>27 DEF CancelWrite, Aborted, work, outside, GenerationInv, Undoing, Whole, Guarded,
     Leased, Rolls, Present, CleanedThere
<1>28. CASE CancelRun
  BY <1>28 DEF CancelRun, work, outside, GenerationInv, Undoing, Whole, Guarded, Leased, Rolls,
     Present, CleanedThere
<1>29. CASE Write
  BY <1>29 DEF Write, GenerationTypeOK, Looking, work, outside, GenerationInv, Undoing, Whole,
     Guarded, Leased, Rolls, Present, CleanedThere
<1>30. CASE SessionEnds
  BY <1>30 DEF SessionEnds, work, outside, GenerationInv, Undoing, Whole, Guarded, Leased,
     Rolls, Present, CleanedThere
<1>31. CASE SaveScript
  BY <1>31 DEF SaveScript, GenerationTypeOK, File, work, outside, GenerationInv, Undoing,
     Whole, Guarded, Leased, Rolls, Present, CleanedThere
<1>32. CASE EditPlan
  BY <1>32 DEF EditPlan, work, outside, GenerationInv, Undoing, Whole, Guarded,
     Leased, Rolls, Present, CleanedThere
<1>33. CASE WritePlan
  BY <1>33 DEF WritePlan, GenerationTypeOK, SavedOutside, Managed, File, work, outside, GenerationInv, Undoing, Whole, Guarded,
     Leased, Rolls, Present, CleanedThere
<1>34. CASE SyncPlan
  BY <1>34 DEF SyncPlan, GenerationTypeOK, SavedOutside, Managed, File, work, outside, GenerationInv, Undoing, Whole, Guarded,
     Leased, Rolls, Present, CleanedThere
<1>35. CASE SaveOther
  BY <1>35 DEF SaveOther, GenerationTypeOK, File, work, outside, GenerationInv, Undoing, Whole,
     Guarded, Leased, Rolls, Present, CleanedThere
<1>36. CASE UNCHANGED vars
  BY <1>36 DEF vars, GenerationInv, Undoing, Whole, Guarded, Leased, Rolls, Present, CleanedThere
<1>37. QED
  BY <1>1, <1>2, <1>3, <1>4, <1>5, <1>6, <1>7, <1>8, <1>9, <1>10, <1>11, <1>12, <1>13, <1>14,
     <1>15, <1>16, <1>17, <1>18, <1>19, <1>20, <1>21, <1>22, <1>23, <1>24, <1>25, <1>26, <1>27,
     <1>28, <1>29, <1>30, <1>31, <1>32, <1>33, <1>34, <1>35,
     <1>36 DEF GenerationNext, Stream, Around

\* Every step keeps what the reader was told in the job row.
LEMMA OutcomeKept == GenerationInv /\ [GenerationNext]_vars => OutcomeStands'
<1> SUFFICES ASSUME GenerationInv, [GenerationNext]_vars PROVE OutcomeStands'
  OBVIOUS
<1> DEFINE Ends == {"closing", "rollback", "rollsync", "release"}
<1>1. CASE Start \/ Request
  <2>1. heard' = "none" /\ pc' \notin Ends
    BY <1>1 DEF Start, Request, GenerationInv, HeardThere
  <2>2. QED
    BY <2>1 DEF OutcomeStands
<1>2. CASE FinishJob
  <2>1. heard' = "succeeded" /\ row'.status = "succeeded"
    BY <1>2 DEF FinishJob, Finish, GenerationInv, GenerationTypeOK
  <2>2. QED
    BY <2>1 DEF OutcomeStands, RowSays
<1>3. CASE StageTerminal
  <2>1. heard' \in {"failed", "cancelled"} /\ row'.status = heard'
    BY <1>3 DEF StageTerminal, Finish, GenerationInv, GenerationTypeOK
  <2>2. QED
    BY <2>1 DEF OutcomeStands, RowSays
<1>4. CASE Exited
  <2>1. CASE heard = "none"
    <3>1. row'.status = "cancelled" /\ heard' = "none"
      BY <1>4, <2>1 DEF Exited, Finish, GenerationInv, GenerationTypeOK
    <3>2. QED
      BY <3>1 DEF OutcomeStands, RowSays
  <2>2. CASE heard # "none"
    <3>1. UNCHANGED <<row, cancel, heard>>
      BY <1>4, <2>2 DEF Exited, outside
    <3>2. QED
      BY <2>2, <3>1 DEF GenerationInv, OutcomeStands, RowSays
  <2>3. QED
    BY <2>1, <2>2
<1>5. CASE Announce
  <2>1. heard' = "succeeded" /\ UNCHANGED <<row, cancel, heard>>
    BY <1>5 DEF Announce, Leads, outside, GenerationInv, HeardThere
  <2>2. QED
    BY <2>1 DEF GenerationInv, OutcomeStands, RowSays
<1>6. CASE Close \/ Release \/ Restore \/ Resync
  <2>1. UNCHANGED <<row, cancel, heard>> /\ (pc' \in Ends => pc \in Ends)
    BY <1>6 DEF Close, Release, Restore, Resync, outside
  <2>2. QED
    BY <2>1 DEF GenerationInv, OutcomeStands, RowSays
<1>7. CASE CancelRead
  <2>1. cancel = "none" /\ UNCHANGED <<pc, row, heard>>
    BY <1>7 DEF CancelRead
  <2>2. QED
    BY <2>1 DEF GenerationInv, OutcomeStands, RowSays
<1>8. CASE CancelWrite
  <2>1. cancel' = "done" /\ row'.status = "cancelling"
    BY <1>8 DEF CancelWrite
  <2>2. QED
    BY <2>1 DEF OutcomeStands, RowSays
<1>9. CASE Cancelled \/ Setup \/ OpenSession \/ Submit \/ Round \/ Detected \/ WaitForIdle
           \/ Fallback \/ WaitForCompletion \/ Finalize \/ SyncAsset \/ Abandon \/ Disconnect
  <2>1. UNCHANGED <<row, cancel, heard>> /\ pc' \notin Ends
    BY <1>9 DEF Cancelled, Setup, OpenSession, Submit, Round, Detected, WaitForIdle, Fallback,
       WaitForCompletion, Finalize, SyncAsset, Abandon, Disconnect, Leads, outside
  <2>2. QED
    BY <2>1 DEF GenerationInv, OutcomeStands, RowSays
<1>10. CASE PromptCheck \/ PromptSend \/ CancelRun \/ Write \/ SessionEnds \/ SaveScript
            \/ EditPlan \/ WritePlan \/ SyncPlan \/ SaveOther \/ UNCHANGED vars
  <2>1. UNCHANGED <<pc, row, cancel, heard>>
    BY <1>10 DEF PromptCheck, PromptSend, CancelRun, Write, SessionEnds, SaveScript, EditPlan,
       WritePlan, SyncPlan, SaveOther, outside, vars
  <2>2. QED
    BY <2>1 DEF GenerationInv, OutcomeStands, RowSays
<1>11. QED
  BY <1>1, <1>2, <1>3, <1>4, <1>5, <1>6, <1>7, <1>8, <1>9, <1>10 DEF GenerationNext, Stream,
     Around

-----------------------------------------------------------------------------
\* Nothing has happened before the request.
LEMMA InitiallyInv == GenerationInit => GenerationInv
<1> SUFFICES ASSUME GenerationInit PROVE GenerationInv
  OBVIOUS
<1>1. GenerationTypeOK
  <2>1. files \in [File -> Content] /\ asset \in Content
    BY DEF GenerationInit, File, Content
  <2>2. DOMAIN snapshot = {}
    BY DEF GenerationInit
  <2>3. spent \in [writes : 0..MaxWrites, saves : 0..MaxEdits, others : 0..MaxEdits]
    BY GenerationAssumption DEF GenerationInit, GenerationAssumption
  <2>4. row \in [status : TEST_JOB_STATUSES, cancel : BOOLEAN]
        /\ record \in [live : BOOLEAN, cancel : BOOLEAN, session : BOOLEAN]
        /\ editor \in [at : {"idle", "read", "written"}, found : Content]
    BY DEF GenerationInit, TEST_JOB_STATUSES, Content
  <2>5. QED
    BY <2>1, <2>2, <2>3, <2>4 DEF GenerationInit, GenerationTypeOK
<1>2. Control
  BY DEF GenerationInit, Control, Guarded, SavedOutside, NewFiles, HeardThere, CleanedThere,
     Present, File
<1>3. Recorded /\ Undoing /\ OutcomeStands
  BY DEF GenerationInit, Recorded, Undoing, Kept, OutcomeStands
<1>4. QED
  BY <1>1, <1>2, <1>3 DEF GenerationInv, Control

\* GenerationInv is inductive.
THEOREM GenerationInvariant == GenerationSpec => []GenerationInv
<1>1. GenerationInv /\ [GenerationNext]_vars => GenerationInv'
  BY TypesKept, ControlKept, RecordedKept, UndoingKept, OutcomeKept DEF GenerationInv, Control
<1>2. QED
  BY InitiallyInv, <1>1, PTL DEF GenerationSpec

\* Every statement, call and write keeps the job's statuses, the points of the
\* stream and the contents of files and revisions in their types.
THEOREM GenerationTypesHold == GenerationSpec => []GenerationTypeOK
<1>1. GenerationInv => GenerationTypeOK
  BY DEF GenerationInv
<1>2. QED
  BY <1>1, GenerationInvariant, PTL

\* A success is what the job row says, and until a clean-up touches it the
\* revision is the file, a generated script is valid and other modules are as
\* they were (finalize_script_generation, sync_script_asset,
\* emit_success_result): unless OpenCode writes after the result was taken, a
\* person saves the plan that is being written, or a cancel request overwrites
\* the row with its earlier reading.
THEOREM SuccessIsRecorded == GenerationSpec => []AcceptedIsRecorded
<1>1. GenerationInv => AcceptedIsRecorded
  BY DEF GenerationInv, AcceptedIsRecorded, Recorded, Kept, Taken, Matches, OutcomeStands
<1>2. QED
  BY <1>1, GenerationInvariant, PTL

\* When the lease is given back after a clean-up that raised nothing, every
\* file is as it was found and the script's revision describes its file
\* (restore_snapshot_files, sync_script_asset): unless OpenCode has written
\* after the files were restored or a person saved one of them meanwhile.  One
\* that raises, at any file or at the revision, promises nothing.
THEOREM CleanUpIsWhole == GenerationSpec => []UndoneWhole
<1>1. GenerationInv => UndoneWhole
  BY DEF GenerationInv, UndoneWhole, Undoing, Whole
<1>2. QED
  BY <1>1, GenerationInvariant, PTL

\* What the reader of a stream was told stays the job's status to the end,
\* wherever its clean-ups fail, and the job of a stream left without an outcome
\* is cancelled (stage_terminal_result and the terminalized flag): unless a
\* cancel request that had read the row before overwrites it.
THEOREM ToldStands == GenerationSpec => []OutcomeStands
<1>1. GenerationInv => OutcomeStands
  BY DEF GenerationInv
<1>2. QED
  BY <1>1, GenerationInvariant, PTL
==========================================================================
