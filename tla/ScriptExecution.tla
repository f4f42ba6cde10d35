--------------------------- MODULE ScriptExecution ---------------------------
(***************************************************************************)
(* One streamed execution of scripts by Playwright: a single script, the   *)
(* scripts of a module or a test suite, in one process or one process per  *)
(* script, with the run, the result rows and the job it keeps.             *)
(*                                                                         *)
(* The three streams of execution/streaming.py differ where kind says so.  *)
(* A stream is suspended at its yields, where its reader (a browser, or an *)
(* Agent that finds its run cancelled) may close it for good.  People save *)
(* scripts under the lease of the script's module.                         *)
(*                                                                         *)
(* Bounds: MaxFiles scripts, MaxSaves saves, MaxFaults faults, each the    *)
(* failure of one database statement or of the pipe to Playwright.         *)
(***************************************************************************)
EXTENDS Naturals

CONSTANTS MaxFiles, MaxSaves, MaxFaults

ASSUME ExecutionAssumption ==
  MaxFiles \in Nat \ {0} /\ MaxSaves \in Nat /\ MaxFaults \in Nat

VARIABLES
  kind,      \* "single", "module" or "suite"
  serial,    \* EXECUTION_MODE_SERIAL_PER_FILE
  pc,        \* where the stream is
  next,      \* the script a serial execution is at
  leases,    \* modules whose lease the stream holds
  rows,      \* test_run_results: status of each script
  results,   \* script_results, in memory
  kept,      \* persisted_result_keys
  run,       \* test_runs: status
  job,       \* test_jobs: status
  failed,    \* an error or a return code other than 0 so far
  process,   \* Playwright runs
  file,      \* version of each script
  recorded,  \* version named by the script's result row
  ran,       \* version Playwright has read, 0 if none
  faults

outcome == <<rows, results, kept, run, job>>
scripts == <<file, recorded, ran>>
vars == <<kind, serial, pc, next, leases, outcome, failed, process, scripts, faults>>

-----------------------------------------------------------------------------
Items == IF kind = "single" THEN {1} ELSE 1..MaxFiles

Last == IF kind = "single" THEN 1 ELSE MaxFiles

\* A suite takes its scripts from several modules.
Module(i) == IF kind = "suite" THEN i ELSE 1

\* The lease of the first script's module only.
WantedFirst == {Module(1)}

\* hold_script_target_lease, or hold_script_module_leases for a suite.
Wanted == {Module(i) : i \in Items}

RowStatus == {"none", "unknown", "passed", "failed", "interrupted"}
ResultStatus == {"none", "running", "unknown", "succeeded", "failed", "interrupted"}
RunStatus == {"none", "running", "passed", "failed", "cancelled"}

\* db_result_status.
DbResultStatus(s) ==
  IF s = "succeeded" THEN "passed" ELSE IF s \in {"failed", "interrupted"} THEN s ELSE "unknown"

\* The job's word for a success.
DbRunStatusPlain(s) == s

\* db_run_status.
DbRunStatus(s) == IF s = "succeeded" THEN "passed" ELSE s

\* is_completed_script_result_status.
Completed(s) == DbResultStatus(s) # "unknown"

Verdict == IF failed THEN "failed" ELSE "succeeded"

\* What the process may be running now.
Current == IF serial THEN {next} ELSE Items

\* Points of the stream inside its try at which it yields.
Suspended == {"started", "launch", "running", "merge", "finish"}

Fault == faults < MaxFaults /\ faults' = faults + 1

Written(s, done) == [i \in DOMAIN rows |-> IF i \in done THEN s[i] ELSE rows[i]]

\* Row statuses of the results in memory.
ResultRows == [i \in DOMAIN results |-> DbResultStatus(results[i])]

-----------------------------------------------------------------------------
(* The stream.                                                             *)

\* The leases come with the first read; a busy module ends the stream.
Acquire ==
  /\ pc = "ready"
  /\ \/ pc' = "create" /\ leases' = Wanted
     \/ pc' = "over" /\ UNCHANGED leases
  /\ UNCHANGED <<kind, serial, next, outcome, failed, process, scripts, faults>>

\* The run, the job and a row per script, which syncs the script's asset.  All
\* of it before the try: a fault leaves what there is as it is.
Create ==
  /\ pc = "create"
  /\ \/ /\ pc' = "started" /\ run' = "running" /\ job' = "running"
        /\ rows' = [i \in DOMAIN rows |-> IF i \in Items THEN "unknown" ELSE "none"]
        /\ results' = [i \in DOMAIN rows |-> IF i \in Items THEN "running" ELSE "none"]
        /\ recorded' = file
        /\ UNCHANGED faults
     \/ /\ Fault /\ pc' = "close"
        /\ run' \in {"none", "running"}
        /\ job' \in {"none", run'}
        /\ UNCHANGED <<rows, results, recorded>>
  /\ UNCHANGED <<kind, serial, next, leases, kept, failed, process, file, ran>>

Leads(p) ==
  /\ pc' = p
  /\ UNCHANGED <<kind, serial, next, leases, outcome, failed, process, scripts, faults>>

\* execute_setup_profile; a serial execution prepares each script instead.
Setup ==
  /\ pc = "started"
  /\ \/ Leads("launch")
     \/ Leads("error")
     \/ ~serial /\ Leads("setuperror")

\* A serial execution that cannot prepare or start a script gives it up with
\* those behind it, and goes on to the report.
Condemn ==
  /\ pc = "launch" /\ serial
  /\ \E done \in next..Last :
       /\ results' = [i \in DOMAIN rows |-> IF i = next THEN "failed"
                                            ELSE IF i \in next..done THEN "interrupted"
                                            ELSE results[i]]
       /\ \/ /\ done = Last /\ pc' = "merge"
             /\ rows' = Written(results', next..Last) /\ kept' = kept \cup next..Last
             /\ UNCHANGED faults
          \/ /\ Fault /\ pc' = "error"
             /\ rows' = Written(results', next..(done - 1)) /\ kept' = kept \cup next..(done - 1)
  /\ failed' = TRUE
  /\ UNCHANGED <<kind, serial, next, leases, run, job, process, scripts>>

Launch ==
  /\ pc = "launch"
  /\ \/ /\ pc' = "running" /\ process' = TRUE
        /\ UNCHANGED <<kind, serial, next, leases, outcome, failed, scripts, faults>>
     \/ ~serial /\ Leads("error")

\* Output is logged as it comes; an exception leaves the process alone.
Output ==
  /\ pc = "running" /\ Fault /\ pc' = "error"
  /\ UNCHANGED <<kind, serial, next, leases, outcome, failed, process, scripts>>

\* The result of one script, from its report or its return code.
ItemEnds ==
  /\ pc = "running" /\ serial
  /\ process' = FALSE
  /\ \E status \in {"succeeded", "failed"}, ok \in BOOLEAN :
       /\ results' = [results EXCEPT ![next] = status]
       /\ failed' = (failed \/ ~ok)
       /\ \/ /\ rows' = Written(ResultRows', {next}) /\ kept' = kept \cup {next}
             /\ next' = next + 1
             /\ pc' = IF next = Last THEN "merge" ELSE "launch"
             /\ UNCHANGED faults
          \/ /\ Fault /\ pc' = "error" /\ UNCHANGED next
             /\ \/ rows' = Written(ResultRows', {next}) /\ kept' = kept \cup {next}
                \/ UNCHANGED <<rows, kept>>
  /\ UNCHANGED <<kind, serial, leases, run, job, scripts>>

\* What the JSON report can say of the scripts: of a batch that succeeded, or
\* when it names none, each takes the return code's word; a single script
\* always does.
Reports(ok) ==
  LET said == IF ok THEN "succeeded" ELSE "failed" IN
    IF kind = "single" THEN {[i \in Items |-> said]}
    ELSE {r \in [Items -> {"succeeded", "failed", "unknown"}] :
            IF ok THEN \A i \in Items : r[i] # "unknown" ELSE \E i \in Items : r[i] # "unknown"}

BatchEnds ==
  /\ pc = "running" /\ ~serial
  /\ process' = FALSE /\ pc' = "record"
  /\ failed' \in BOOLEAN
  /\ \E report \in Reports(~failed') :
       results' = [i \in DOMAIN results |-> IF i \in Items THEN report[i] ELSE results[i]]
  /\ UNCHANGED <<kind, serial, next, leases, rows, kept, run, job, scripts, faults>>

Record ==
  /\ pc = "record"
  /\ \/ /\ rows' = Written(ResultRows, Items) /\ kept' = Items /\ pc' = "summary"
        /\ UNCHANGED faults
     \/ /\ Fault /\ pc' = "error"
        /\ \E done \in 0..(Last - 1) : rows' = Written(ResultRows, 1..done) /\ kept' = 1..done
  /\ UNCHANGED <<kind, serial, next, leases, results, run, job, failed, process, scripts>>

\* merge-reports: its own process, with a timeout.
Merge ==
  /\ pc = "merge"
  /\ \/ /\ pc' = "summary" /\ failed' \in {failed, TRUE}
        /\ UNCHANGED <<kind, serial, next, leases, outcome, process, scripts, faults>>
     \/ next > 1 /\ Leads("error")

\* update_test_run, then the artifacts, which are read from disk.
Summarize ==
  /\ pc = "summary"
  /\ \/ run' = DbRunStatus(Verdict) /\ pc' \in {"finish", "error"} /\ UNCHANGED faults
     \/ Fault /\ pc' = "error" /\ UNCHANGED run
  /\ UNCHANGED <<kind, serial, next, leases, rows, results, kept, job, failed, process, scripts>>

Finish ==
  /\ pc = "finish"
  /\ \/ job' = Verdict /\ pc' = "announce" /\ UNCHANGED faults
     \/ Fault /\ pc' = "error" /\ UNCHANGED job
  /\ UNCHANGED <<kind, serial, next, leases, rows, results, kept, run, failed, process, scripts>>

\* Nothing changes any more once the job is terminal, whoever reads.
Announce == pc = "announce" /\ Leads("close")

\* The except clauses of a single script or a module: every script has failed,
\* whatever has been recorded.  What they raise ends the stream.
FailAll ==
  /\ pc \in {"setuperror", "error"} /\ kind # "suite"
  /\ results' = [i \in DOMAIN results |-> IF i \in Items THEN "failed" ELSE results[i]]
  /\ \/ /\ rows' = Written(results', Items) /\ run' = "failed"
        /\ \/ pc' = "failing" /\ UNCHANGED faults
           \/ pc' = "close" /\ Fault
     \/ /\ Fault /\ pc' = "close" /\ run' = run
        /\ \E done \in 0..Last : rows' = Written(results', 1..done)
  /\ UNCHANGED <<kind, serial, next, leases, kept, job, failed, process, scripts>>

\* Everything is unresolved after an error.
UnresolvedAll == Items

\* Scripts without a result yet.
Unresolved == {i \in Items : ~Completed(results[i])}

\* finalize_failed_execution of a suite keeps what has been recorded, and
\* swallows its own faults.
FailSuite ==
  /\ pc \in {"setuperror", "error"} /\ kind = "suite"
  /\ results' = [i \in DOMAIN results |->
                   IF i \in Unresolved THEN IF pc = "setuperror" THEN "failed" ELSE "interrupted"
                   ELSE results[i]]
  /\ \/ /\ rows' = Written(ResultRows', Unresolved \cup (Items \ kept))
        /\ run' = "failed" /\ UNCHANGED faults
     \/ /\ Fault
        /\ \E i \in Items : rows' = Written(ResultRows', (Unresolved \cup (Items \ kept)) \ {i})
        /\ run' = "failed"
     \/ /\ Fault
        /\ rows' = Written(ResultRows', Unresolved \cup (Items \ kept))
        /\ UNCHANGED run
  /\ pc' = "failing"
  /\ UNCHANGED <<kind, serial, next, leases, kept, job, failed, process, scripts>>

\* The pending output is yielded first.
FailJob ==
  /\ pc = "failing"
  /\ \/ job' = "failed" /\ pc' = "announce" /\ UNCHANGED faults
     \/ Fault /\ pc' = "close" /\ UNCHANGED job
  /\ UNCHANGED <<kind, serial, next, leases, rows, results, kept, run, failed, process, scripts>>

\* GeneratorExit inside the try.
Disconnect == pc \in Suspended /\ Leads("exit")

\* GeneratorExit while an except clause yields: no other clause of the same
\* try sees it, and only finally runs.
DisconnectFailing == pc \in {"setuperror", "failing"} /\ Leads("close")

\* Rows a cancellation gives up: a single script's whatever it says.
Interrupted == IF kind = "single" THEN Items ELSE Unresolved

\* A finished run is left as it is.
CancelRunning == IF run = "running" THEN "cancelled" ELSE run

\* The run is cancelled, also when it was finished and its job was not.
CancelledRun == "cancelled"

\* The process is stopped; then best effort on rows, run and job.
Cancel ==
  /\ pc = "exit" /\ pc' = "close"
  /\ process' = FALSE
  /\ \/ /\ rows' = [i \in DOMAIN rows |-> IF i \in Interrupted THEN "interrupted" ELSE rows[i]]
        /\ run' = CancelledRun /\ job' = "cancelled" /\ UNCHANGED faults
     \/ /\ Fault
        /\ \E i \in Items :
             rows' = [j \in DOMAIN rows |-> IF j \in Interrupted \ {i} THEN "interrupted" ELSE rows[j]]
        /\ \/ run' = CancelledRun /\ job' \in {job, "cancelled"}
           \/ run' = run /\ job' = "cancelled"
  /\ UNCHANGED <<kind, serial, next, leases, results, kept, failed, scripts>>

\* The response is over: the leases go, whatever has become of the process.
Close ==
  /\ pc = "close" /\ pc' = "over" /\ leases' = {}
  /\ UNCHANGED <<kind, serial, next, outcome, failed, process, scripts, faults>>

-----------------------------------------------------------------------------
(* Around it.                                                              *)

\* Playwright loads a script when it gets to it.
Read ==
  /\ process
  /\ \E i \in Current : ran[i] = 0 /\ ran' = [ran EXCEPT ![i] = file[i]]
  /\ UNCHANGED <<kind, serial, pc, next, leases, outcome, failed, process, file, recorded, faults>>

\* Somebody saves a script, under its module's lease.
Save ==
  /\ pc # "over"
  /\ \E i \in Items :
       /\ Module(i) \notin leases /\ file[i] <= MaxSaves
       /\ file' = [file EXCEPT ![i] = @ + 1]
  /\ UNCHANGED <<kind, serial, pc, next, leases, outcome, failed, process, recorded, ran, faults>>

-----------------------------------------------------------------------------
ExecutionInit ==
  /\ kind \in {"single", "module", "suite"}
  /\ serial \in BOOLEAN /\ (kind = "single" => ~serial)
  /\ pc = "ready" /\ next = 1 /\ leases = {}
  /\ rows = [i \in 1..MaxFiles |-> "none"] /\ results = rows /\ kept = {}
  /\ run = "none" /\ job = "none" /\ failed = FALSE /\ process = FALSE
  /\ file = [i \in 1..MaxFiles |-> 1] /\ recorded = file /\ ran = [i \in 1..MaxFiles |-> 0]
  /\ faults = 0

ExecutionNext ==
  \/ Acquire \/ Create \/ Setup \/ Condemn \/ Launch \/ Output \/ ItemEnds \/ BatchEnds
  \/ Record \/ Merge \/ Summarize \/ Finish \/ Announce \/ FailAll \/ FailSuite \/ FailJob
  \/ Disconnect \/ DisconnectFailing \/ Cancel \/ Close \/ Read \/ Save

ExecutionSpec == ExecutionInit /\ [][ExecutionNext]_vars

-----------------------------------------------------------------------------
(* Properties.                                                             *)

\* The values of every variable; the statuses are those of the tables.
ExecutionTypeOK ==
  /\ kind \in {"single", "module", "suite"} /\ serial \in BOOLEAN
  /\ pc \in {"ready", "create", "started", "launch", "running", "record", "merge", "summary", "finish",
             "announce", "setuperror", "error", "failing", "exit", "close", "over"}
  /\ next \in 1..(MaxFiles + 1) /\ leases \subseteq 1..MaxFiles
  /\ rows \in [1..MaxFiles -> RowStatus] /\ results \in [1..MaxFiles -> ResultStatus]
  /\ kept \subseteq 1..MaxFiles
  /\ run \in RunStatus
  /\ job \in {"none", "running", "succeeded", "failed", "cancelled"}
  /\ failed \in BOOLEAN /\ process \in BOOLEAN
  /\ file \in [1..MaxFiles -> 1..(MaxSaves + 1)] /\ recorded \in [1..MaxFiles -> 1..(MaxSaves + 1)]
  /\ ran \in [1..MaxFiles -> 0..(MaxSaves + 1)]
  /\ faults \in 0..MaxFaults

\* As long as the stream lives, Playwright has run the revision its result row
\* names: the leases span from the row to the end of the process
\* (hold_script_module_leases, create_run_result_for_script).
ExecutedIsRecorded ==
  pc # "over" => \A i \in Items : ran[i] # 0 => ran[i] = recorded[i]

\* A result of a suite that has been stored is never replaced, neither by a
\* later error nor by a cancellation (finalize_failed_execution).
ResultsStand ==
  [][kind = "suite" =>
       \A i \in Items : rows[i] \in {"passed", "failed", "interrupted"} => rows'[i] = rows[i]]_vars

\* Without a fault, the run of a job with a terminal status has the same one,
\* and a script without a result only when the report of a failed batch does
\* not name it.
OutcomeAgrees ==
  (pc = "over" /\ faults = 0 /\ job \in {"succeeded", "failed", "cancelled"}) =>
    /\ run = IF job = "succeeded" THEN "passed" ELSE job
    /\ \A i \in Items : rows[i] = "unknown" => ~serial /\ job = "failed"

\* A stream that has ended, whoever has ended it, leaves no job running.
EndedIsSettled == pc = "over" /\ faults = 0 => job # "running"
=============================================================================
