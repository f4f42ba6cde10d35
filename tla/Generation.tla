----------------------------- MODULE Generation -----------------------------
(***************************************************************************)
(* One OpenCode generation: stream_plan_generation with the callers that   *)
(* create or repair a script or write a test plan, the job row and the     *)
(* task registry that cancel it, the thread that posts the prompt, and the *)
(* files and asset revision it leaves behind.                              *)
(*                                                                         *)
(* The generator of the stream is suspended whenever it yields; whoever    *)
(* reads it may then close it for good (GeneratorExit).  OpenCode is       *)
(* outside the program: once a prompt has reached its session it writes    *)
(* files of the project until it is idle, has failed or is aborted.  A     *)
(* step is one database statement, one change of the registry under its    *)
(* lock, one call to OpenCode or one group of file operations.  Acceptance,*)
(* clean-up and revision may fail partway; the writes of the job row do    *)
(* not.                                                                    *)
(*                                                                         *)
(* Bounds: MaxWrites files written by OpenCode, MaxEdits edits by people   *)
(* of the script or plan and of another plan or script.                    *)
(***************************************************************************)
EXTENDS Naturals

CONSTANTS
  Modes,       \* the generations considered: records of a kind and a caller
  MaxWrites, MaxEdits

\* "generator" writes a script from a plan, "healer" repairs one, "planner"
\* writes a plan.  "web" streams to a browser; "module" and "agent" are the
\* preparation runs of a module and of an Agent, which have a cancel flag of
\* their own.
Callers == [generator |-> {"web", "module", "agent"},
            healer |-> {"web", "module", "agent"},
            planner |-> {"web"}]

ASSUME GenerationAssumption ==
  /\ \A m \in Modes : m.kind \in DOMAIN Callers /\ m.caller \in Callers[m.kind]
  /\ MaxWrites \in Nat /\ MaxEdits \in Nat

VARIABLES
  mode,      \* this generation: kind and caller
  pc,        \* where the stream is
  files,     \* content of the files that matter
  snapshot,  \* managed_file_snapshot: the files and contents to go back to
  asset,     \* content of the current revision of the target's asset
  row,       \* test_jobs: status and cancel_requested
  record,    \* OPENCODE_TASKS[job_id]: registered, cancel_requested, session
  runCancel, \* the run that called has been cancelled
  lease,     \* the module's target lease is held by the stream
  session,   \* the OpenCode session
  prompt,    \* the thread that posts the prompt
  cancel,    \* a cancel request between reading the row and writing it
  heard,     \* terminal status the stream has sent
  cleanup,   \* how the last clean-up ended; "done": no call of it raised
  late,      \* OpenCode has written since the stream last settled the files
  saved,     \* a person has saved the target since the snapshot
  editor,    \* save_plan: between two of its steps, and what it found
  spent      \* writes, saves and edits elsewhere so far

work == <<mode, snapshot, runCancel>>
outside == <<cancel, saved, editor>>
vars == <<mode, pc, files, snapshot, asset, row, record, runCancel, lease,
          session, prompt, cancel, heard, cleanup, late, saved, editor, spent>>

-----------------------------------------------------------------------------
\* target: the script or plan; other: a file of another module; candidate:
\* where the prompt tells OpenCode to put a new script; fresh: a new script
\* beside the target.
File == {"target", "other", "candidate", "fresh"}

\* old: as found; part: unfinished or failing validation; good: passes
\* validate_generated_script_content; mine: saved by a person.
Content == {"none", "old", "part", "good", "mine"}

TEST_JOB_STATUSES == {"queued", "running", "cancelling", "succeeded", "failed", "cancelled"}
JobTerminal == {"succeeded", "failed", "cancelled"}

\* Points at which the generator is or may be suspended in a yield.
Suspended == {"setup", "session", "submit", "loop", "idle", "stable", "detected", "announce"}

\* Points at which the stream looks for a cancellation first; a repair is not
\* asked for a file at the end, and does not look there.
Looking == {"setup", "session", "submit", "fallback", "loop", "idle"}
           \cup (IF mode.kind = "healer" THEN {} ELSE {"stable"})

Leased == mode.kind # "planner"
Rolls == mode.caller # "agent"

Present(f) == files[f] # "none"

-----------------------------------------------------------------------------
(* The registry and the job row.                                           *)

RowCancelled == row.cancel \/ row.status \in {"cancelling", "cancelled"}

\* OpenCodeTaskRegistry.is_cancelled, or the run's own flag.
CancelSeen == record.cancel \/ RowCancelled \/ runCancel

\* A module's run is asked first and every time; its exception is no
\* OpencodeTaskCancelled.
RunRaises == mode.caller = "module" /\ runCancel

\* The flag in the process is always seen, the row only every half second.
Proceeds == ~record.cancel /\ ~RunRaises

Aborted == IF session = "running" THEN "stopped" ELSE session

\* finish_test_job writes whatever status the row has had.
Finish(s) == row' = [row EXCEPT !.status = s]

\* A registration that knows nothing of sessions.
RegisteredBare == [live |-> TRUE, cancel |-> record.cancel]

\* register keeps a cancellation that came before it.
Registered == [record EXCEPT !.live = TRUE]

-----------------------------------------------------------------------------
(* Files.                                                                   *)

\* collect_generation_managed_files spans every plan and script of the
\* project; a repair looks at its script only; a plan has no snapshot, its
\* clean-up removes the target.
Managed == CASE mode.kind = "generator" -> {"target", "other"}
             [] mode.kind = "healer" -> {"target"}
             [] mode.kind = "planner" -> {}

ManagedSnapshot == [f \in Managed |-> files[f]]

\* A rollback of the known files only.
RestoredKnown ==
  [f \in File |-> IF f \in DOMAIN snapshot THEN snapshot[f] ELSE files[f]]

\* restore_snapshot_files, then the files that were not there, over whatever
\* OpenCode or people have made of them since.
Restored ==
  [f \in File |->
     IF f \in DOMAIN snapshot THEN snapshot[f]
     ELSE IF mode.kind = "generator" \/ (mode.kind = "planner" /\ f = "target") THEN "none"
     ELSE files[f]]

\* A restore that raises: some files of the snapshot, or all and the new
\* scripts; the candidate comes last.
PartlyRestored ==
  {[f \in File |-> IF f \in done THEN Restored[f] ELSE files[f]] :
     done \in SUBSET Managed \cup {Managed \cup {"fresh"}}}

\* sync_script_asset: the current revision is the file's content; no asset
\* without a file.
Synced == files.target

\* The completion check of the caller (scripts) or target_file.exists().
Complete ==
  CASE mode.kind = "generator" ->
         \/ Present("candidate") \/ Present("fresh")
         \/ Present("target") /\ files.target # snapshot.target
    [] mode.kind = "healer" -> FALSE
    [] mode.kind = "planner" -> Present("target")

\* Only scripts are looked for while events arrive.
Watched == mode.kind = "generator"

\* choose_generated_script_source.
Source == IF Present("candidate") THEN "candidate"
          ELSE IF Present("target") /\ files.target # snapshot.target THEN "target"
          ELSE "fresh"

\* A result looked at by itself.
AcceptableAlone == files[Source] = "good"

\* The result is one valid script and nothing else has changed.
Acceptable ==
  /\ files[Source] = "good"
  /\ files.other = snapshot.other
  /\ Present("fresh") => Source = "fresh"

\* finalize_script_generation: the content moves to the target; a new script
\* beside it is removed, a candidate stays.
Finalized == [files EXCEPT !.target = files[Source],
                           !.fresh = "none"]

-----------------------------------------------------------------------------
(* The stream.                                                             *)

\* The request takes the lease, syncs what is there, creates the job, takes
\* the snapshot and returns a response nobody has read from yet.
Request ==
  /\ pc = "request"
  /\ mode.kind = "healer" => Present("target")
  /\ mode.kind = "planner" => ~Present("target")
  /\ pc' = "ready" /\ lease' = Leased
  /\ asset' = IF mode.kind = "healer" THEN Synced ELSE asset
  /\ row' = [row EXCEPT !.status = "queued"]
  /\ snapshot' = ManagedSnapshot
  /\ saved' = FALSE
  /\ UNCHANGED <<mode, files, record, runCancel, session, prompt, cancel, heard, cleanup, late, editor, spent>>

\* The browser leaves before the first read: call_on_close gives the lease
\* back, nothing else has happened or will.
Abandon ==
  /\ pc = "ready" /\ mode.caller = "web"
  /\ pc' = "over" /\ lease' = FALSE
  /\ UNCHANGED <<work, files, asset, row, record, session, prompt, outside, heard, cleanup, late, spent>>

Start ==
  /\ pc = "ready" /\ pc' = "setup"
  /\ record' = Registered
  /\ Finish("running")
  /\ UNCHANGED <<work, files, asset, lease, session, prompt, outside, heard, cleanup, late, spent>>

\* What an exception leads to: the stream goes on at p.
Leads(p) ==
  /\ pc' = p
  /\ UNCHANGED <<work, files, asset, row, record, lease, session, prompt, outside, heard, cleanup, late, spent>>

\* raise_if_cancelled: a cancellation by the job or by an Agent aborts the
\* session and is an OpencodeTaskCancelled; the one of a module's run is
\* another exception, and fails the job.
Cancelled ==
  /\ pc \in Looking /\ CancelSeen
  /\ IF RunRaises
     THEN pc' = "failing" /\ session' = session
     ELSE pc' = "restore" /\ session' = Aborted
  /\ record' = [record EXCEPT !.cancel = @ \/ RowCancelled]
  /\ UNCHANGED <<work, files, asset, row, lease, prompt, outside, heard, cleanup, late, spent>>

\* prepare_bound_setup runs the bound preparation scripts.
Setup ==
  /\ pc = "setup" /\ Proceeds
  /\ Leads("session") \/ Leads("failing")

\* POST /session, then set_session, which looks at the row without a throttle.
OpenSession ==
  /\ pc = "session" /\ Proceeds
  /\ \/ /\ pc' = "submit" /\ session' = "ready"
        /\ record' = [record EXCEPT !.session = TRUE, !.cancel = @ \/ RowCancelled]
     \/ /\ pc' = "failing" /\ UNCHANGED <<session, record>>
  /\ UNCHANGED <<work, files, asset, row, lease, prompt, outside, heard, cleanup, late, spent>>

\* GET /event; without it the prompt is sent synchronously.
Submit ==
  /\ pc = "submit" /\ Proceeds
  /\ \/ pc' = "loop" /\ prompt' = "checking"
     \/ pc' = "fallback" /\ prompt' = "sending"
  /\ UNCHANGED <<work, files, asset, row, record, lease, session, outside, heard, cleanup, late, spent>>

\* prompt_worker looks once more, then posts.  An abort does not keep a later
\* prompt out of the session.
PromptCheck ==
  /\ prompt = "checking"
  /\ \/ /\ CancelSeen
        /\ record' = [record EXCEPT !.cancel = @ \/ RowCancelled]
        /\ IF RunRaises
           THEN prompt' = "error" /\ session' = session
           ELSE prompt' = "cancelled" /\ session' = Aborted
     \/ Proceeds /\ prompt' = "sending" /\ UNCHANGED <<session, record>>
  /\ UNCHANGED <<work, pc, files, asset, row, lease, outside, heard, cleanup, late, spent>>

PromptSend ==
  /\ prompt = "sending"
  /\ \/ prompt' = "sent" /\ session' = "running"
     \/ prompt' = "error" /\ session' = session
  /\ UNCHANGED <<work, pc, files, asset, row, record, lease, outside, heard, cleanup, late, spent>>

\* One round of the event loop: the prompt failed, the time is up, the session
\* reported an error, the output is there, the session is idle, or the events
\* ended early.  Nothing here stops the session.
Round ==
  /\ pc = "loop" /\ Proceeds
  /\ CASE prompt = "error" -> Leads("failing")
       [] prompt = "cancelled" -> Leads("restore")
       [] OTHER -> \/ Leads("failing")
                   \/ Watched /\ Complete /\ Leads("detected")
                   \/ session = "idle" /\ Leads("stable")
                   \/ Leads("idle")

\* Output seen: the session is aborted before the result is taken.
Detected ==
  /\ pc = "detected" /\ pc' = "finalize" /\ session' = Aborted
  /\ UNCHANGED <<work, files, asset, row, record, lease, prompt, outside, heard, cleanup, late, spent>>

\* wait_for_idle asks for the status until its deadline; output ends it too,
\* with the session as it is.
WaitForIdle ==
  /\ pc = "idle" /\ Proceeds
  /\ \/ (Complete \/ session \in {"idle", "stopped"}) /\ Leads("stable")
     \/ Leads("failing")

\* send_fallback_prompt_with_cancellation: bounded, and aborts at its bound.
Fallback ==
  /\ pc = "fallback" /\ Proceeds
  /\ \/ session = "idle" /\ pc' = "stable" /\ session' = session
     \/ prompt = "error" /\ pc' = "failing" /\ session' = session
     \/ pc' = "failing" /\ session' = Aborted
  /\ UNCHANGED <<work, files, asset, row, record, lease, prompt, outside, heard, cleanup, late, spent>>

\* The messages of the session, then wait_for_stable_completion.
WaitForCompletion ==
  /\ pc = "stable"
  /\ pc \in Looking => Proceeds
  /\ \/ (Complete \/ mode.kind = "healer") /\ Leads("finalize")
     \/ Leads("failing")

\* The result is taken.  A script that is not accepted, or cannot be moved to
\* its place, is undone here, as far as that goes.
Finalize ==
  /\ pc = "finalize"
  /\ \/ mode.kind # "generator" /\ pc' = "sync" /\ files' = files
     \/ mode.kind = "generator" /\ Complete /\ Acceptable /\ pc' = "sync" /\ files' = Finalized
     \/ /\ mode.kind = "generator" /\ pc' = "failing"
        /\ files' \in {Restored} \cup PartlyRestored
  /\ late' = FALSE
  /\ UNCHANGED <<work, asset, row, record, lease, session, prompt, outside, heard, cleanup, spent>>

\* The commit and the revision of what the file is now, or an error of git or
\* of the database before or after it.
SyncAsset ==
  /\ pc = "sync"
  /\ \/ pc' = "finish" /\ asset' = Synced
     \/ pc' = "failing" /\ asset' \in {asset, Synced}
  /\ late' = (late /\ mode.kind = "generator")
  /\ UNCHANGED <<work, files, row, record, lease, session, prompt, outside, heard, cleanup, spent>>

FinishJob ==
  /\ pc = "finish" /\ pc' = "announce"
  /\ Finish("succeeded")
  /\ heard' = "succeeded"
  /\ UNCHANGED <<work, files, asset, record, lease, session, prompt, outside, cleanup, late, spent>>

\* The reader takes the status and the done event and asks for no more.
Announce == pc = "announce" /\ Leads("closing")

\* GeneratorExit at a yield inside the try: the clean-up always runs, also
\* after a success.
Disconnect ==
  /\ pc \in Suspended
  /\ Leads("exit")

\* run_cancel_cleanup: the files, then (next step) the asset.  Without a
\* clean-up (an Agent's stream) nothing is done.  An error ends the clean-up
\* where it is, and is swallowed; that of a module's own rollback ends the
\* operation.
Restore ==
  /\ pc \in {"restore", "exit", "rollback"}
  /\ \/ /\ files' = IF Rolls THEN Restored ELSE files
        /\ late' = (late /\ ~Rolls)
        /\ pc' = CASE pc = "restore" -> "resync" [] pc = "exit" -> "exitsync" [] OTHER -> "rollsync"
        /\ UNCHANGED cleanup
     \/ /\ Rolls /\ files' \in PartlyRestored /\ cleanup' = "failed"
        /\ pc' = CASE pc = "restore" -> "cancelled" [] pc = "exit" -> "exited" [] OTHER -> "release"
        /\ UNCHANGED late
  /\ UNCHANGED <<work, asset, row, record, lease, session, prompt, outside, heard, spent>>

\* sync_script_asset or mark_test_asset_deleted; a plan's clean-up leaves the
\* asset alone.  An error comes before or after the revision is written.
Resync ==
  /\ pc \in {"resync", "exitsync", "rollsync"}
  /\ \/ Rolls /\ cleanup' = "done" /\ asset' = IF Leased THEN Synced ELSE asset
     \/ Rolls /\ Leased /\ cleanup' = "failed" /\ asset' \in {asset, Synced}
     \/ ~Rolls /\ UNCHANGED <<asset, cleanup>>
  /\ pc' = CASE pc = "resync" -> "cancelled" [] pc = "exitsync" -> "exited" [] OTHER -> "release"
  /\ UNCHANGED <<work, files, row, record, lease, session, prompt, outside, heard, late, spent>>

\* stage_terminal_result, then the terminal events.
StageTerminal ==
  /\ pc \in {"cancelled", "failing"}
  /\ pc' = "closing"
  /\ LET s == IF pc = "cancelled" THEN "cancelled" ELSE "failed" IN
       Finish(s) /\ heard' = s
  /\ UNCHANGED <<work, files, asset, record, lease, session, prompt, outside, cleanup, late, spent>>

\* A closed stream that leaves its job as it was.
ExitedSilently ==
  /\ pc = "exited" /\ pc' = "closing"
  /\ session' = Aborted
  /\ UNCHANGED <<work, files, asset, row, record, lease, prompt, outside, heard, cleanup, late, spent>>

\* A closed stream that forgets that it has a terminal status.
ExitedAnew ==
  /\ pc = "exited" /\ pc' = "closing"
  /\ Finish("cancelled")
  /\ session' = Aborted
  /\ UNCHANGED <<work, files, asset, record, lease, prompt, outside, heard, cleanup, late, spent>>

\* The end of a closed stream: the job is cancelled unless it has a terminal
\* status, and only now the session is aborted.
Exited ==
  /\ pc = "exited" /\ pc' = "closing"
  /\ IF heard = "none" THEN Finish("cancelled") ELSE row' = row
  /\ session' = Aborted
  /\ UNCHANGED <<work, files, asset, record, lease, prompt, outside, heard, cleanup, late, spent>>

\* cleanup_opencode_task.  A module's operation then undoes what has not
\* succeeded, unless consume_sse, on receiving the terminal event, has found
\* its run cancelled and raised.
Close ==
  /\ pc = "closing"
  /\ record' = [live |-> FALSE, cancel |-> FALSE, session |-> FALSE]
  /\ pc' = IF mode.caller = "module" /\ heard \in {"failed", "cancelled"} /\ ~runCancel
           THEN "rollback" ELSE "release"
  /\ UNCHANGED <<work, files, asset, row, lease, session, prompt, outside, heard, cleanup, late, spent>>

Release ==
  /\ pc = "release" /\ pc' = "over" /\ lease' = FALSE
  /\ UNCHANGED <<work, files, asset, row, record, session, prompt, outside, heard, cleanup, late, spent>>

-----------------------------------------------------------------------------
(* Around the stream.                                                      *)

\* OpenCodeTaskRegistry.cancel reads the row ...
CancelRead ==
  /\ cancel = "none" /\ pc \notin {"request"}
  /\ row.status \notin JobTerminal
  /\ cancel' = "asked"
  /\ UNCHANGED <<work, pc, files, asset, row, record, lease, session, prompt, heard, cleanup, late, saved, editor, spent>>

\* ... then writes it, flags the process's own record, in this process or in
\* another, and aborts the session.
CancelWrite ==
  /\ cancel = "asked" /\ cancel' = "done"
  /\ row' = [status |-> "cancelling", cancel |-> TRUE]
  /\ \E here \in BOOLEAN :
       /\ record' = IF here THEN [record EXCEPT !.cancel = TRUE] ELSE record
       /\ session' = IF session # "none" THEN Aborted ELSE session
  /\ UNCHANGED <<work, pc, files, asset, lease, prompt, heard, cleanup, late, saved, editor, spent>>

\* A person cancels the run the stream works for.
CancelRun ==
  /\ mode.caller # "web" /\ ~runCancel /\ pc # "over"
  /\ runCancel' = TRUE
  /\ UNCHANGED <<mode, snapshot, pc, files, asset, row, record, lease, session, prompt, outside, heard, cleanup, late, spent>>

\* OpenCode writes a file: the candidate as told, or one it was not told to.
Write ==
  /\ session = "running" /\ spent.writes < MaxWrites
  /\ \E f \in File, c \in {"part", "good"} :
       /\ f \in {"candidate", "fresh"} => mode.kind = "generator"
       /\ files' = [files EXCEPT ![f] = c]
  /\ spent' = [spent EXCEPT !.writes = @ + 1]
  /\ late' = (late \/ pc \notin Looking \cup {"stable"})
  /\ UNCHANGED <<work, pc, asset, row, record, lease, session, prompt, outside, heard, cleanup>>

SessionEnds ==
  /\ session = "running" /\ session' \in {"idle", "stopped"}
  /\ UNCHANGED <<work, pc, files, asset, row, record, lease, prompt, outside, heard, cleanup, late, spent>>

\* A person saves a script under the lease: against the revision the editor
\* shows, with the file restored when the revision cannot be written.
SaveScript ==
  /\ Leased /\ ~lease /\ Present("target") /\ spent.saves + spent.others < MaxEdits
  /\ \/ files' = [files EXCEPT !.target = "mine"] /\ asset' = "mine"
     \/ files' = files /\ asset' = files.target
  /\ saved' = (saved \/ files'.target = "mine")
  /\ spent' = [spent EXCEPT !.saves = @ + 1]
  /\ UNCHANGED <<work, pc, row, record, lease, session, prompt, cancel, heard, cleanup, late, editor>>

\* A person saves the plan that is being written, which takes no lease: the
\* file has to be there when it is read ...
EditPlan ==
  /\ ~Leased /\ pc # "request" /\ editor.at = "idle"
  /\ Present("target") /\ spent.saves + spent.others < MaxEdits
  /\ editor' = [at |-> "read", found |-> files.target]
  /\ spent' = [spent EXCEPT !.saves = @ + 1]
  /\ UNCHANGED <<work, pc, files, asset, row, record, lease, session, prompt, cancel, heard, cleanup, late, saved>>

\* ... is written whether it still is or not ...
WritePlan ==
  /\ editor.at = "read"
  /\ files' = [files EXCEPT !.target = "mine"]
  /\ saved' = TRUE
  /\ editor' = [editor EXCEPT !.at = "written"]
  /\ UNCHANGED <<work, pc, asset, row, record, lease, session, prompt, cancel, heard, cleanup, late, spent>>

\* ... and gets a revision, or what was found back and, if it can, its revision.
SyncPlan ==
  /\ editor.at = "written"
  /\ \/ asset' = Synced /\ UNCHANGED files
     \/ /\ files' = [files EXCEPT !.target = editor.found]
        /\ asset' \in {asset, Synced, editor.found}
  /\ editor' = [at |-> "idle", found |-> "none"]
  /\ UNCHANGED <<work, pc, row, record, lease, session, prompt, cancel, heard, cleanup, late, saved, spent>>

\* Someone changes another plan, or a script of another module.
SaveOther ==
  /\ spent.saves + spent.others < MaxEdits
  /\ files' = [files EXCEPT !.other = "mine"]
  /\ spent' = [spent EXCEPT !.others = @ + 1]
  /\ UNCHANGED <<work, pc, asset, row, record, lease, session, prompt, outside, heard, cleanup, late>>

-----------------------------------------------------------------------------
GenerationInit ==
  /\ mode \in Modes /\ pc = "request"
  /\ files \in {[f \in File |-> IF f = "target" THEN t ELSE IF f = "other" THEN "old" ELSE "none"] :
                  t \in {"none", "old"}}
  /\ snapshot = [f \in {} |-> "none"]
  /\ asset = files.target
  /\ row = [status |-> "queued", cancel |-> FALSE]
  /\ record = [live |-> FALSE, cancel |-> FALSE, session |-> FALSE]
  /\ runCancel = FALSE /\ lease = FALSE
  /\ session = "none" /\ prompt = "none" /\ cancel = "none" /\ heard = "none"
  /\ cleanup = "none" /\ late = FALSE /\ saved = FALSE
  /\ editor = [at |-> "idle", found |-> "none"]
  /\ spent = [writes |-> 0, saves |-> 0, others |-> 0]

Stream ==
  \/ Start \/ Cancelled \/ Setup \/ OpenSession \/ Submit \/ Round \/ Detected
  \/ WaitForIdle \/ Fallback \/ WaitForCompletion \/ Finalize \/ SyncAsset \/ FinishJob
  \/ Announce \/ Restore \/ Resync \/ StageTerminal \/ Exited \/ Close \/ Release

Around ==
  \/ Request \/ Abandon \/ Disconnect \/ PromptCheck \/ PromptSend \/ CancelRead \/ CancelWrite
  \/ CancelRun \/ Write \/ SessionEnds \/ SaveScript \/ EditPlan
  \/ WritePlan \/ SyncPlan \/ SaveOther

GenerationNext == Stream \/ Around

GenerationSpec == GenerationInit /\ [][GenerationNext]_vars

\* The reader of a stream asks for its next event until it closes it; the
\* loop's polls are bounded, so a stream that is read goes on.
FairGenerationSpec == GenerationSpec /\ WF_vars(Stream)

-----------------------------------------------------------------------------
(* Properties.                                                             *)

\* The values of every variable: the job's statuses, the points of the stream,
\* the contents of files and revisions.
GenerationTypeOK ==
  /\ mode \in Modes
  /\ pc \in {"request", "ready", "setup", "session", "submit", "fallback", "loop", "idle", "stable",
             "detected", "finalize", "sync", "finish", "announce", "restore", "resync", "cancelled",
             "exit", "exitsync", "exited", "failing", "closing", "rollback", "rollsync", "release", "over"}
  /\ files \in [File -> Content] /\ asset \in Content
  /\ DOMAIN snapshot \subseteq File /\ \A f \in DOMAIN snapshot : snapshot[f] \in Content
  /\ row \in [status : TEST_JOB_STATUSES, cancel : BOOLEAN]
  /\ record \in [live : BOOLEAN, cancel : BOOLEAN, session : BOOLEAN]
  /\ runCancel \in BOOLEAN /\ lease \in BOOLEAN
  /\ session \in {"none", "ready", "running", "idle", "stopped"}
  /\ prompt \in {"none", "checking", "sending", "sent", "error", "cancelled"}
  /\ cancel \in {"none", "asked", "done"}
  /\ heard \in {"none", "succeeded", "failed", "cancelled"}
  /\ cleanup \in {"none", "done", "failed"} /\ late \in BOOLEAN /\ saved \in BOOLEAN
  /\ editor \in [at : {"idle", "read", "written"}, found : Content]
  /\ spent \in [writes : 0..MaxWrites, saves : 0..MaxEdits, others : 0..MaxEdits]

\* The job row has status s, unless a cancel request that had read it before
\* has overwritten it since.
RowSays(s) == row.status = s \/ (cancel = "done" /\ row.status = "cancelling")

\* A success that no clean-up has touched since: the job row has it, the
\* revision recorded is the file, a generated script has passed validation, and
\* no other file has been changed on the way (finalize_script_generation,
\* sync_script_asset, emit_success_result).  Left out: what OpenCode writes
\* after the result was taken, which nothing prevents when the session was not
\* aborted (wait_for_idle ends on output); and a plan that a person saves while
\* it is written, whose revisions come in any order.
AcceptedIsRecorded ==
  heard = "succeeded" =>
    /\ RowSays("succeeded")
    /\ cleanup = "none" /\ ~late /\ pc \in {"announce", "closing", "release", "over"} =>
         /\ (mode.kind = "planner" /\ saved) \/ asset = files.target
         /\ mode.kind = "generator" /\ ~saved => files.target = "good"
         /\ mode.kind = "generator" /\ spent.others = 0 => files.other = snapshot.other

\* A clean-up that raised nothing: when the lease is given back every file is
\* as it was found, nothing new is left, and the script's revision describes
\* its file (restore_snapshot_files and the rollback of the asset).  Left out:
\* what OpenCode writes after the files were restored, before the session is
\* aborted or into a session a later prompt has reached; another plan or script
\* saved meanwhile, which may be older or newer; a plan somebody saves while it
\* is written, which may come after its removal.
UndoneWhole ==
  pc = "release" /\ cleanup = "done" /\ ~late =>
    /\ \A f \in DOMAIN snapshot : (f = "other" /\ spent.others > 0) \/ files[f] = snapshot[f]
    /\ ~Present("fresh") /\ ~Present("candidate")
    /\ mode.kind = "planner" /\ ~saved => ~Present("target")
    /\ Leased => asset = files.target

\* What the reader of a stream was told stays the job's status, through a
\* clean-up, a reader that leaves after it and a rollback, and the job of a
\* stream left without an outcome is cancelled (the terminalized flag).  Only a
\* cancel request that had read the row before it ended overwrites it.
OutcomeStands ==
  /\ heard # "none" => RowSays(heard)
  /\ heard = "none" /\ pc \in {"closing", "rollback", "rollsync", "release"} => RowSays("cancelled")

\* A stream that has been started gives its job a terminal status, whether it
\* succeeds, fails, is cancelled or is left by its reader.
JobSettles == (pc = "setup") ~> (row.status \in JobTerminal)

\* A generation that ends after its module's run has been cancelled has left
\* the files as it found them: the operation passes the stream a clean-up, and
\* none has failed.
CancelledIsUndone ==
  pc = "release" /\ heard # "succeeded" /\ Rolls /\ runCancel /\ cleanup # "failed" /\ ~late
    /\ spent.others = 0 =>
    \A f \in DOMAIN snapshot : files[f] = snapshot[f]
=============================================================================
