----------------------- MODULE ScriptExecution_proofs -----------------------
(***************************************************************************)
(* Proofs about ScriptExecution, for any number of scripts, saves and      *)
(* faults: its types, that Playwright runs the revision a result names,    *)
(* that a suite's stored results stand, and that run, job and rows agree.  *)
(***************************************************************************)
EXTENDS ScriptExecution, TLAPS

\* Points of the stream at which its run, rows and job exist.
Past == pc \notin {"ready", "create", "close", "over"}

\* Before the rows exist Playwright has read nothing.
NotStarted ==
  pc \in {"ready", "create"} =>
    /\ ~process
    /\ pc = "create" => leases = Wanted
    /\ \A i \in Items : ran[i] = 0 /\ rows[i] = "none"

\* The script a serial execution is at is one of its scripts; a batch has none.
AtScript ==
  /\ kind = "single" => ~serial
  /\ ~serial => next = 1
  /\ pc \in {"ready", "create", "started", "launch", "running"} \/ process => next <= Last

\* As long as Playwright may start or run, the leases of all scripts are held
\* and no file has changed since its row was written.
Held ==
  Past \/ (process /\ pc # "over") =>
    /\ leases = Wanted
    /\ \A i \in Items : recorded[i] = file[i]

\* Rows of scripts still to come say nothing.
Fresh ==
  /\ pc \in {"started", "launch", "running"} => \A i \in Items : i >= next => rows[i] = "unknown"
  /\ pc = "record" => ~serial /\ \A i \in Items : rows[i] = "unknown"

\* A stored result of a suite is the one in memory.
Agreeing ==
  kind = "suite" /\ pc \notin {"close", "over"} =>
    \A i \in Items : rows[i] \in {"passed", "failed", "interrupted"} =>
      rows[i] = DbResultStatus(results[i])

ExecutionInv ==
  /\ ExecutionTypeOK /\ NotStarted /\ AtScript /\ Held /\ ExecutedIsRecorded /\ Fresh /\ Agreeing

\* Without a fault: what the run and the job say where the stream is.
Settling ==
  faults = 0 =>
    /\ pc \in {"started", "launch", "running", "record", "merge", "summary"} => run = "running"
    /\ pc = "finish" => run = DbRunStatus(Verdict)
    /\ pc = "failing" => run = "failed"
    /\ pc \in {"ready", "create"} => job = "none"
    /\ pc \notin {"ready", "create", "announce", "close", "over"} => job = "running"
    /\ pc = "announce" => job \in {"succeeded", "failed"}
    /\ pc \in {"announce", "close", "over"} /\ job \in {"succeeded", "failed", "cancelled"} =>
         run = IF job = "succeeded" THEN "passed" ELSE job

\* A result in memory is stored, except while a batch is being recorded.
Told ==
  faults = 0 /\ pc \notin {"ready", "create", "record", "close", "over"} =>
    \A i \in Items : Completed(results[i]) => rows[i] # "unknown"

\* Scripts a serial execution has passed have results; in the end all have,
\* but those the report of a failed batch does not name.
Resolved ==
  faults = 0 =>
    /\ pc \in {"ready", "create", "started"} => next = 1
    /\ serial /\ pc \in {"launch", "running"} => \A i \in Items : i < next => Completed(results[i])
    /\ pc = "merge" => serial
    /\ pc \in {"merge", "record", "summary", "finish"} /\ (serial \/ ~failed) =>
         \A i \in Items : Completed(results[i])
    /\ pc = "failing" => \A i \in Items : rows[i] # "unknown"
    /\ pc \in {"announce", "close", "over"} /\ job \in {"succeeded", "failed", "cancelled"}
       /\ (serial \/ job # "failed") =>
         \A i \in Items : rows[i] # "unknown"

OutcomeInv == Settling /\ Told /\ Resolved

\* The types, in the parts that different actions disturb.
PointTyped ==
  /\ kind \in {"single", "module", "suite"}
  /\ pc \in {"ready", "create", "started", "launch", "running", "record", "merge", "summary", "finish",
             "announce", "setuperror", "error", "failing", "exit", "close", "over"}
  /\ next \in 1..(MaxFiles + 1) /\ faults \in 0..MaxFaults
FlagsTyped == serial \in BOOLEAN /\ failed \in BOOLEAN /\ process \in BOOLEAN
RowsTyped ==
  /\ rows \in [1..MaxFiles -> RowStatus] /\ results \in [1..MaxFiles -> ResultStatus]
  /\ kept \subseteq 1..MaxFiles
JobTyped == run \in RunStatus /\ job \in {"none", "running", "succeeded", "failed", "cancelled"}
FilesTyped ==
  /\ leases \subseteq 1..MaxFiles
  /\ file \in [1..MaxFiles -> 1..(MaxSaves + 1)] /\ recorded \in [1..MaxFiles -> 1..(MaxSaves + 1)]
  /\ ran \in [1..MaxFiles -> 0..(MaxSaves + 1)]

\* A step that stores results stores those in memory, or leaves rows alone.
Storing ==
  /\ rows' \in [1..MaxFiles -> RowStatus] /\ results' \in [1..MaxFiles -> ResultStatus]
  /\ kept' \subseteq 1..MaxFiles
  /\ \A i \in 1..MaxFiles : rows'[i] \in {rows[i], DbResultStatus(results'[i])}

\* A step of the stream once its run and rows exist, up to its end.
Quiet ==
  /\ UNCHANGED <<leases, file, recorded, ran>>
  /\ Past /\ pc' \notin {"ready", "create", "over"}

-----------------------------------------------------------------------------
\* The bounds are numbers, and there is a script.
LEMMA Bounds == MaxFiles \in Nat /\ MaxFiles >= 1 /\ MaxSaves \in Nat /\ MaxFaults \in Nat
BY ExecutionAssumption DEF ExecutionAssumption

\* The parts are the whole.
LEMMA TypeParts ==
  ExecutionTypeOK <=> PointTyped /\ FlagsTyped /\ RowsTyped /\ JobTyped /\ FilesTyped
BY DEF ExecutionTypeOK, PointTyped, FlagsTyped, RowsTyped, JobTyped, FilesTyped

\* The scripts of an execution are numbered from 1.
LEMMA ItemsAreNumbered ==
  /\ Items = 1..Last /\ Last \in 1..MaxFiles
  /\ Items \subseteq 1..MaxFiles /\ Wanted \subseteq 1..MaxFiles
<1>1. Items = 1..Last /\ Last \in 1..MaxFiles
  <2>1. CASE kind = "single"
    <3>1. 1..1 = {1}
      OBVIOUS
    <3>2. QED
      BY Bounds, <2>1, <3>1 DEF Items, Last
  <2>2. CASE kind # "single"
    BY Bounds, <2>2 DEF Items, Last
  <2>3. QED
    BY <2>1, <2>2
<1>2. Items \subseteq 1..MaxFiles
  BY Bounds, <1>1
<1>3. Wanted \subseteq 1..MaxFiles
  BY Bounds, <1>2 DEF Wanted, Module
<1>4. QED
  BY <1>1, <1>2, <1>3

\* Nothing changes the kind of an execution, nor therefore its scripts.
LEMMA KindStands ==
  ASSUME [ExecutionNext]_vars
  PROVE  /\ kind' = kind /\ serial' = serial
         /\ Items' = Items /\ Last' = Last /\ Wanted' = Wanted
<1>1. kind' = kind /\ serial' = serial
  BY DEF ExecutionNext, vars, Acquire, Create, Setup, Condemn, Launch, Output, ItemEnds,
     BatchEnds, Record, Merge, Summarize, Finish, Announce, FailAll, FailSuite, FailJob,
     Disconnect, DisconnectFailing, Cancel, Close, Read, Save, Leads
<1>2. Items' = Items /\ Last' = Last
  BY <1>1 DEF Items, Last
<1>3. Wanted' = Wanted
  BY <1>1, <1>2 DEF Wanted, Module
<1>4. QED
  BY <1>1, <1>2, <1>3

\* Most of the stream happens while its run and rows exist, and leaves leases
\* and versions alone.
LEMMA QuietSteps ==
  ASSUME Setup \/ Condemn \/ Launch \/ Output \/ ItemEnds \/ BatchEnds \/ Record \/ Merge
         \/ Summarize \/ Finish \/ Announce \/ FailAll \/ FailSuite \/ FailJob
         \/ Disconnect \/ DisconnectFailing \/ Cancel
  PROVE  Quiet
<1> USE DEF outcome, scripts, Quiet, Past
<1>1. CASE Setup
  BY <1>1 DEF Setup, Leads
<1>2. CASE Condemn
  BY <1>2 DEF Condemn
<1>3. CASE Launch
  BY <1>3 DEF Launch, Leads
<1>4. CASE Output
  BY <1>4 DEF Output
<1>5. CASE ItemEnds
  BY <1>5 DEF ItemEnds
<1>6. CASE BatchEnds
  BY <1>6 DEF BatchEnds
<1>7. CASE Record
  BY <1>7 DEF Record
<1>8. CASE Merge
  BY <1>8 DEF Merge, Leads
<1>9. CASE Summarize
  BY <1>9 DEF Summarize
<1>10. CASE Finish
  BY <1>10 DEF Finish
<1>11. CASE Announce
  BY <1>11 DEF Announce, Leads
<1>12. CASE FailAll
  BY <1>12 DEF FailAll
<1>13. CASE FailSuite
  BY <1>13 DEF FailSuite
<1>14. CASE FailJob
  BY <1>14 DEF FailJob
<1>15. CASE Disconnect
  BY <1>15 DEF Disconnect, Leads, Suspended
<1>16. CASE DisconnectFailing
  BY <1>16 DEF DisconnectFailing, Leads
<1>17. CASE Cancel
  BY <1>17 DEF Cancel
<1>18. QED
  BY <1>1, <1>2, <1>3, <1>4, <1>5, <1>6, <1>7, <1>8, <1>9, <1>10, <1>11, <1>12, <1>13, <1>14,
     <1>15, <1>16, <1>17

\* Statuses of results have a word in the table of rows.
LEMMA RowWords ==
  ASSUME NEW r \in [1..MaxFiles -> ResultStatus]
  PROVE  \A i \in 1..MaxFiles : DbResultStatus(r[i]) \in RowStatus
BY DEF DbResultStatus, ResultStatus, RowStatus

\* Writing some rows leaves a table of rows.
LEMMA WrittenIsTyped ==
  ASSUME rows \in [1..MaxFiles -> RowStatus], NEW s, NEW done,
         \A i \in 1..MaxFiles : i \in done => s[i] \in RowStatus
  PROVE  /\ Written(s, done) \in [1..MaxFiles -> RowStatus]
         /\ \A i \in 1..MaxFiles :
              Written(s, done)[i] = IF i \in done THEN s[i] ELSE rows[i]
BY DEF Written

\* The rows written from the results in memory.
LEMMA ResultRowsTyped ==
  ASSUME results' \in [1..MaxFiles -> ResultStatus], rows \in [1..MaxFiles -> RowStatus], NEW done
  PROVE  /\ Written(ResultRows', done) \in [1..MaxFiles -> RowStatus]
         /\ \A i \in 1..MaxFiles :
              Written(ResultRows', done)[i] = IF i \in done THEN DbResultStatus(results'[i]) ELSE rows[i]
<1>1. \A i \in 1..MaxFiles : ResultRows'[i] = DbResultStatus(results'[i])
  BY DEF ResultRows, DbResultStatus
<1>2. \A i \in 1..MaxFiles : ResultRows'[i] \in RowStatus
  BY <1>1, RowWords
<1>3. QED
  BY <1>1, <1>2, WrittenIsTyped

\* The actions that change results and rows together.
LEMMA StoringSteps ==
  ASSUME ExecutionTypeOK, Condemn \/ ItemEnds \/ BatchEnds \/ Record \/ FailAll \/ FailSuite,
         AtScript
  PROVE  Storing
<1> USE DEF outcome, scripts
<1>1. /\ rows \in [1..MaxFiles -> RowStatus] /\ results \in [1..MaxFiles -> ResultStatus]
      /\ kept \subseteq 1..MaxFiles
      /\ next \in Nat /\ next >= 1 /\ next <= MaxFiles + 1
  BY TypeParts, Bounds DEF RowsTyped, PointTyped
<1>2. /\ Last \in Nat /\ Last >= 1 /\ Last <= MaxFiles
      /\ \A i : i \in Items <=> i \in Nat /\ i >= 1 /\ i <= Last
  BY ItemsAreNumbered, Bounds
<1>3. CASE Condemn
  <2>1. PICK done \in next..Last :
          /\ results' = [i \in DOMAIN rows |-> IF i = next THEN "failed"
                                               ELSE IF i \in next..done THEN "interrupted"
                                               ELSE results[i]]
          /\ \/ done = Last /\ rows' = Written(results', next..Last) /\ kept' = kept \cup next..Last
             \/ rows' = Written(results', next..(done - 1)) /\ kept' = kept \cup next..(done - 1)
    BY <1>3 DEF Condemn
  <2>2. results' \in [1..MaxFiles -> ResultStatus]
    BY <1>1, <2>1 DEF ResultStatus
  <2>3. PICK last \in {done, done - 1} : rows' = Written(results', next..last) /\ kept' = kept \cup next..last
    BY <2>1
  <2>4. \A i \in 1..MaxFiles : i \in next..last => results'[i] \in {"failed", "interrupted"}
    BY <1>1, <1>2, <2>1
  <2>5. \A i \in 1..MaxFiles : i \in next..last => results'[i] = DbResultStatus(results'[i])
    BY <2>4 DEF DbResultStatus
  <2>6. /\ rows' \in [1..MaxFiles -> RowStatus]
        /\ \A i \in 1..MaxFiles : rows'[i] = IF i \in next..last THEN results'[i] ELSE rows[i]
    BY <1>1, <2>3, <2>4, WrittenIsTyped DEF RowStatus
  <2>7. kept' \subseteq 1..MaxFiles
    BY <1>1, <1>2, Bounds, <2>1, <2>3
  <2>8. QED
    BY <2>2, <2>5, <2>6, <2>7 DEF Storing
<1>4. CASE ItemEnds
  <2>1. next <= Last
    BY <1>4 DEF ItemEnds, AtScript
  <2>2. results' \in [1..MaxFiles -> ResultStatus]
    BY <1>1, <1>4 DEF ItemEnds, ResultStatus
  <2>3. \/ rows' = Written(ResultRows', {next}) /\ kept' = kept \cup {next}
        \/ rows' = rows /\ kept' = kept
    BY <1>4 DEF ItemEnds
  <2>4. next \in 1..MaxFiles
    BY Bounds, <1>1, <1>2, <2>1
  <2>5. CASE rows' = Written(ResultRows', {next}) /\ kept' = kept \cup {next}
    <3>1. kept' \subseteq 1..MaxFiles
      BY <1>1, <2>4, <2>5
    <3>2. QED
      BY <1>1, <2>2, <2>5, <3>1, ResultRowsTyped DEF Storing
  <2>6. QED
    BY <1>1, <2>2, <2>3, <2>5 DEF Storing
<1>5. CASE BatchEnds
  <2>1. results' \in [1..MaxFiles -> ResultStatus]
    <3>1. PICK report \in Reports(~failed') :
            results' = [i \in DOMAIN results |-> IF i \in Items THEN report[i] ELSE results[i]]
      BY <1>5 DEF BatchEnds
    <3>2. \A i \in Items : report[i] \in ResultStatus
      BY <3>1 DEF Reports, ResultStatus
    <3>3. QED
      BY <1>1, <3>1, <3>2
  <2>2. QED
    BY <1>1, <1>5, <2>1 DEF BatchEnds, Storing
<1>6. CASE Record
  <2>1. results' = results
    BY <1>6 DEF Record
  <2>2. ResultRows' = ResultRows
    BY <2>1 DEF ResultRows
  <2>3. \E done : rows' = Written(ResultRows', done)
    BY <1>6, <2>2 DEF Record
  <2>4. kept' \subseteq 1..MaxFiles
    BY <1>2, <1>6, Bounds DEF Record
  <2>5. QED
    BY <1>1, <2>1, <2>3, <2>4, ResultRowsTyped DEF Storing
<1>7. CASE FailAll
  <2>1. /\ results' = [i \in DOMAIN results |-> IF i \in Items THEN "failed" ELSE results[i]]
        /\ kept' = kept
        /\ \E done \in SUBSET Items : rows' = Written(results', done)
    <3>1. \A done \in 0..Last : 1..done \subseteq Items
      BY <1>2
    <3>2. QED
      BY <1>7, <3>1 DEF FailAll
  <2>2. results' \in [1..MaxFiles -> ResultStatus]
    BY <1>1, <2>1 DEF ResultStatus
  <2>3. PICK done \in SUBSET Items : rows' = Written(results', done)
    BY <2>1
  <2>4. \A i \in 1..MaxFiles : i \in done => results'[i] = "failed"
    BY <1>1, <2>1
  <2>5. /\ rows' \in [1..MaxFiles -> RowStatus]
        /\ \A i \in 1..MaxFiles : rows'[i] = IF i \in done THEN results'[i] ELSE rows[i]
    BY <1>1, <2>3, <2>4, WrittenIsTyped DEF RowStatus
  <2>6. DbResultStatus("failed") = "failed"
    BY DEF DbResultStatus
  <2>7. QED
    BY <1>1, <2>1, <2>2, <2>4, <2>5, <2>6 DEF Storing
<1>8. CASE FailSuite
  <2>1. results' \in [1..MaxFiles -> ResultStatus]
    BY <1>1, <1>8 DEF FailSuite, ResultStatus
  <2>2. kept' = kept /\ \E done : rows' = Written(ResultRows', done)
    BY <1>8 DEF FailSuite
  <2>3. QED
    BY <1>1, <2>1, <2>2, ResultRowsTyped DEF Storing
<1>9. QED
  BY <1>3, <1>4, <1>5, <1>6, <1>7, <1>8

\* What a suite has stored stays in memory as well: only scripts still to come
\* and, after an error, scripts without a result get another one.
LEMMA MemoryStands ==
  ASSUME ExecutionTypeOK, AtScript, Fresh, Agreeing,
         Condemn \/ ItemEnds \/ BatchEnds \/ Record \/ FailSuite
  PROVE  kind = "suite" =>
           \A i \in Items : rows[i] \in {"passed", "failed", "interrupted"} => results'[i] = results[i]
<1>1. /\ rows \in [1..MaxFiles -> RowStatus] /\ results \in [1..MaxFiles -> ResultStatus]
      /\ next \in Nat /\ next >= 1
  BY TypeParts, Bounds DEF RowsTyped, PointTyped
<1>2. \A i \in Items : i \in 1..MaxFiles /\ i \in Nat /\ i >= 1
  BY ItemsAreNumbered, Bounds
<1>3. CASE Condemn
  <2>1. \A i \in Items : results'[i] = results[i] \/ i >= next
    BY <1>1, <1>2, <1>3, Bounds DEF Condemn
  <2>2. QED
    BY <1>3, <2>1 DEF Condemn, Fresh
<1>4. CASE ItemEnds
  <2>1. \A i \in Items : results'[i] = results[i] \/ i = next
    BY <1>1, <1>2, <1>4 DEF ItemEnds
  <2>2. QED
    BY <1>1, <1>4, <2>1 DEF ItemEnds, Fresh
<1>5. CASE BatchEnds
  BY <1>2, <1>5 DEF BatchEnds, AtScript, Fresh
<1>6. CASE Record
  BY <1>6 DEF Record
<1>7. CASE FailSuite
  <2>1. \A i \in Items : results'[i] = results[i] \/ DbResultStatus(results[i]) = "unknown"
    BY <1>1, <1>2, <1>7 DEF FailSuite, Unresolved, Completed
  <2>2. pc \notin {"close", "over"}
    BY <1>7 DEF FailSuite
  <2>3. QED
    BY <2>1, <2>2 DEF Agreeing
<1>8. QED
  BY <1>3, <1>4, <1>5, <1>6, <1>7

\* The types of the kind, the point of the stream, its script and the faults.
LEMMA PointStep ==
  ASSUME ExecutionTypeOK, AtScript, [ExecutionNext]_vars
  PROVE  PointTyped'
<1> USE TypeParts, Bounds, ItemsAreNumbered, KindStands DEF outcome, scripts, PointTyped,
   AtScript, Fault
<1>1. CASE Acquire
  BY <1>1 DEF Acquire
<1>2. CASE Create
  BY <1>2 DEF Create
<1>3. CASE Setup
  BY <1>3 DEF Setup, Leads
<1>4. CASE Condemn
  BY <1>4 DEF Condemn
<1>5. CASE Launch
  BY <1>5 DEF Launch, Leads
<1>6. CASE Output
  BY <1>6 DEF Output
<1>7. CASE ItemEnds
  BY <1>7 DEF ItemEnds
<1>8. CASE BatchEnds
  BY <1>8 DEF BatchEnds
<1>9. CASE Record
  BY <1>9 DEF Record
<1>10. CASE Merge
  BY <1>10 DEF Merge, Leads
<1>11. CASE Summarize
  BY <1>11 DEF Summarize
<1>12. CASE Finish
  BY <1>12 DEF Finish
<1>13. CASE Announce
  BY <1>13 DEF Announce, Leads
<1>14. CASE FailAll
  BY <1>14 DEF FailAll
<1>15. CASE FailSuite
  BY <1>15 DEF FailSuite
<1>16. CASE FailJob
  BY <1>16 DEF FailJob
<1>17. CASE Disconnect
  BY <1>17 DEF Disconnect, Leads, Suspended
<1>18. CASE DisconnectFailing
  BY <1>18 DEF DisconnectFailing, Leads
<1>19. CASE Cancel
  BY <1>19 DEF Cancel
<1>20. CASE Close
  BY <1>20 DEF Close
<1>21. CASE Read
  BY <1>21 DEF Read
<1>22. CASE Save
  BY <1>22 DEF Save
<1>23. CASE UNCHANGED vars
  BY <1>23 DEF vars
<1>24. QED
  BY <1>1, <1>2, <1>3, <1>4, <1>5, <1>6, <1>7, <1>8, <1>9, <1>10, <1>11, <1>12, <1>13, <1>14,
     <1>15, <1>16, <1>17, <1>18, <1>19, <1>20, <1>21, <1>22, <1>23 DEF ExecutionNext

\* The types of the flags.
LEMMA FlagsStep ==
  ASSUME ExecutionTypeOK, [ExecutionNext]_vars
  PROVE  FlagsTyped'
<1> USE TypeParts, KindStands DEF outcome, scripts, FlagsTyped
<1>1. CASE Acquire
  BY <1>1 DEF Acquire
<1>2. CASE Create
  BY <1>2 DEF Create
<1>3. CASE Setup
  BY <1>3 DEF Setup, Leads
<1>4. CASE Condemn
  BY <1>4 DEF Condemn
<1>5. CASE Launch
  BY <1>5 DEF Launch, Leads
<1>6. CASE Output
  BY <1>6 DEF Output
<1>7. CASE ItemEnds
  BY <1>7 DEF ItemEnds
<1>8. CASE BatchEnds
  BY <1>8 DEF BatchEnds
<1>9. CASE Record
  BY <1>9 DEF Record
<1>10. CASE Merge
  BY <1>10 DEF Merge, Leads
<1>11. CASE Summarize
  BY <1>11 DEF Summarize
<1>12. CASE Finish
  BY <1>12 DEF Finish
<1>13. CASE Announce
  BY <1>13 DEF Announce, Leads
<1>14. CASE FailAll
  BY <1>14 DEF FailAll
<1>15. CASE FailSuite
  BY <1>15 DEF FailSuite
<1>16. CASE FailJob
  BY <1>16 DEF FailJob
<1>17. CASE Disconnect
  BY <1>17 DEF Disconnect, Leads, Suspended
<1>18. CASE DisconnectFailing
  BY <1>18 DEF DisconnectFailing, Leads
<1>19. CASE Cancel
  BY <1>19 DEF Cancel
<1>20. CASE Close
  BY <1>20 DEF Close
<1>21. CASE Read
  BY <1>21 DEF Read
<1>22. CASE Save
  BY <1>22 DEF Save
<1>23. CASE UNCHANGED vars
  BY <1>23 DEF vars
<1>24. QED
  BY <1>1, <1>2, <1>3, <1>4, <1>5, <1>6, <1>7, <1>8, <1>9, <1>10, <1>11, <1>12, <1>13, <1>14,
     <1>15, <1>16, <1>17, <1>18, <1>19, <1>20, <1>21, <1>22, <1>23 DEF ExecutionNext

\* The types of rows and results.
LEMMA RowsStep ==
  ASSUME ExecutionTypeOK, AtScript, [ExecutionNext]_vars
  PROVE  RowsTyped'
<1> USE TypeParts, ItemsAreNumbered DEF outcome, scripts, RowsTyped, RowStatus, ResultStatus
<1>1. CASE Acquire
  BY <1>1 DEF Acquire
<1>2. CASE Create
  BY <1>2 DEF Create
<1>3. CASE Setup
  BY <1>3 DEF Setup, Leads
<1>4. CASE Condemn
  BY <1>4, StoringSteps DEF Storing, RowsTyped
<1>5. CASE Launch
  BY <1>5 DEF Launch, Leads
<1>6. CASE Output
  BY <1>6 DEF Output
<1>7. CASE ItemEnds
  BY <1>7, StoringSteps DEF Storing, RowsTyped
<1>8. CASE BatchEnds
  BY <1>8, StoringSteps DEF Storing, RowsTyped
<1>9. CASE Record
  BY <1>9, StoringSteps DEF Storing, RowsTyped
<1>10. CASE Merge
  BY <1>10 DEF Merge, Leads
<1>11. CASE Summarize
  BY <1>11 DEF Summarize
<1>12. CASE Finish
  BY <1>12 DEF Finish
<1>13. CASE Announce
  BY <1>13 DEF Announce, Leads
<1>14. CASE FailAll
  BY <1>14, StoringSteps DEF Storing, RowsTyped
<1>15. CASE FailSuite
  BY <1>15, StoringSteps DEF Storing, RowsTyped
<1>16. CASE FailJob
  BY <1>16 DEF FailJob
<1>17. CASE Disconnect
  BY <1>17 DEF Disconnect, Leads, Suspended
<1>18. CASE DisconnectFailing
  BY <1>18 DEF DisconnectFailing, Leads
<1>19. CASE Cancel
  BY <1>19 DEF Cancel
<1>20. CASE Close
  BY <1>20 DEF Close
<1>21. CASE Read
  BY <1>21 DEF Read
<1>22. CASE Save
  BY <1>22 DEF Save
<1>23. CASE UNCHANGED vars
  BY <1>23 DEF vars
<1>24. QED
  BY <1>1, <1>2, <1>3, <1>4, <1>5, <1>6, <1>7, <1>8, <1>9, <1>10, <1>11, <1>12, <1>13, <1>14,
     <1>15, <1>16, <1>17, <1>18, <1>19, <1>20, <1>21, <1>22, <1>23 DEF ExecutionNext

\* The types of run and job.
LEMMA JobStep ==
  ASSUME ExecutionTypeOK, [ExecutionNext]_vars
  PROVE  JobTyped'
<1> USE TypeParts DEF outcome, scripts, JobTyped, RunStatus, DbRunStatus, Verdict, CancelledRun
<1>1. CASE Acquire
  BY <1>1 DEF Acquire
<1>2. CASE Create
  BY <1>2 DEF Create
<1>3. CASE Setup
  BY <1>3 DEF Setup, Leads
<1>4. CASE Condemn
  BY <1>4 DEF Condemn
<1>5. CASE Launch
  BY <1>5 DEF Launch, Leads
<1>6. CASE Output
  BY <1>6 DEF Output
<1>7. CASE ItemEnds
  BY <1>7 DEF ItemEnds
<1>8. CASE BatchEnds
  BY <1>8 DEF BatchEnds
<1>9. CASE Record
  BY <1>9 DEF Record
<1>10. CASE Merge
  BY <1>10 DEF Merge, Leads
<1>11. CASE Summarize
  BY <1>11 DEF Summarize
<1>12. CASE Finish
  BY <1>12 DEF Finish
<1>13. CASE Announce
  BY <1>13 DEF Announce, Leads
<1>14. CASE FailAll
  BY <1>14 DEF FailAll
<1>15. CASE FailSuite
  BY <1>15 DEF FailSuite
<1>16. CASE FailJob
  BY <1>16 DEF FailJob
<1>17. CASE Disconnect
  BY <1>17 DEF Disconnect, Leads, Suspended
<1>18. CASE DisconnectFailing
  BY <1>18 DEF DisconnectFailing, Leads
<1>19. CASE Cancel
  BY <1>19 DEF Cancel
<1>20. CASE Close
  BY <1>20 DEF Close
<1>21. CASE Read
  BY <1>21 DEF Read
<1>22. CASE Save
  BY <1>22 DEF Save
<1>23. CASE UNCHANGED vars
  BY <1>23 DEF vars
<1>24. QED
  BY <1>1, <1>2, <1>3, <1>4, <1>5, <1>6, <1>7, <1>8, <1>9, <1>10, <1>11, <1>12, <1>13, <1>14,
     <1>15, <1>16, <1>17, <1>18, <1>19, <1>20, <1>21, <1>22, <1>23 DEF ExecutionNext

\* The types of leases and versions.
LEMMA FilesStep ==
  ASSUME ExecutionTypeOK, [ExecutionNext]_vars
  PROVE  FilesTyped'
<1> USE TypeParts, Bounds, ItemsAreNumbered DEF outcome, scripts, FilesTyped
<1>1. CASE Acquire
  BY <1>1 DEF Acquire
<1>2. CASE Create
  BY <1>2 DEF Create
<1>3. CASE Close
  BY <1>3 DEF Close
<1>4. CASE Read
  <2>1. PICK i \in Current : ran' = [ran EXCEPT ![i] = file[i]]
    BY <1>4 DEF Read
  <2>2. /\ leases \subseteq 1..MaxFiles /\ leases' = leases /\ file' = file /\ recorded' = recorded
        /\ file \in [1..MaxFiles -> 1..(MaxSaves + 1)] /\ recorded \in [1..MaxFiles -> 1..(MaxSaves + 1)]
        /\ ran \in [1..MaxFiles -> 0..(MaxSaves + 1)]
    BY <1>4, TypeParts DEF Read, outcome, FilesTyped
  <2>3. \A v \in 1..(MaxSaves + 1) : v \in 0..(MaxSaves + 1)
    BY Bounds
  <2>4. ran' \in [1..MaxFiles -> 0..(MaxSaves + 1)]
    BY <2>1, <2>2, <2>3
  <2>5. QED
    BY <2>2, <2>4 DEF FilesTyped
<1>5. CASE Save
  BY <1>5, SMTT(30) DEF Save
<1>6. CASE UNCHANGED vars
  BY <1>6 DEF vars
<1>7. CASE Quiet
  BY <1>7 DEF Quiet, Past
<1>8. QED
  BY QuietSteps, <1>1, <1>2, <1>3, <1>4, <1>5, <1>6, <1>7 DEF ExecutionNext

\* Nothing is read and no row is written before the rows are created.
LEMMA NotStartedStep ==
  ASSUME NotStarted, [ExecutionNext]_vars
  PROVE  NotStarted'
<1> USE KindStands DEF outcome, scripts, NotStarted
<1>1. CASE Acquire
  BY <1>1 DEF Acquire
<1>2. CASE Create
  BY <1>2 DEF Create
<1>3. CASE Close
  BY <1>3 DEF Close
<1>4. CASE Read
  BY <1>4 DEF Read
<1>5. CASE Save
  BY <1>5 DEF Save
<1>6. CASE UNCHANGED vars
  BY <1>6 DEF vars
<1>7. CASE Quiet
  BY <1>7 DEF Quiet, Past
<1>8. QED
  BY QuietSteps, <1>1, <1>2, <1>3, <1>4, <1>5, <1>6, <1>7 DEF ExecutionNext

\* A serial execution never starts one more script than it has.
LEMMA AtScriptStep ==
  ASSUME ExecutionTypeOK, AtScript, [ExecutionNext]_vars
  PROVE  AtScript'
<1> USE TypeParts, ItemsAreNumbered, KindStands DEF outcome, scripts, AtScript, PointTyped
<1>1. CASE Acquire
  BY <1>1 DEF Acquire
<1>2. CASE Create
  BY <1>2 DEF Create
<1>3. CASE Setup
  BY <1>3 DEF Setup, Leads
<1>4. CASE Condemn
  BY <1>4 DEF Condemn
<1>5. CASE Launch
  BY <1>5 DEF Launch, Leads
<1>6. CASE Output
  BY <1>6 DEF Output
<1>7. CASE ItemEnds
  BY <1>7 DEF ItemEnds
<1>8. CASE BatchEnds
  BY <1>8 DEF BatchEnds
<1>9. CASE Record
  BY <1>9 DEF Record
<1>10. CASE Merge
  <2>1. pc' \in {"summary", "error"} /\ process' = process /\ next' = next
    BY <1>10 DEF Merge, Leads
  <2>2. QED
    BY <2>1, KindStands DEF AtScript
<1>11. CASE Summarize
  BY <1>11 DEF Summarize
<1>12. CASE Finish
  BY <1>12 DEF Finish
<1>13. CASE Announce
  BY <1>13 DEF Announce, Leads
<1>14. CASE FailAll
  BY <1>14 DEF FailAll
<1>15. CASE FailSuite
  BY <1>15 DEF FailSuite
<1>16. CASE FailJob
  BY <1>16 DEF FailJob
<1>17. CASE Disconnect
  BY <1>17 DEF Disconnect, Leads, Suspended
<1>18. CASE DisconnectFailing
  BY <1>18 DEF DisconnectFailing, Leads
<1>19. CASE Cancel
  BY <1>19 DEF Cancel
<1>20. CASE Close
  BY <1>20 DEF Close
<1>21. CASE Read
  BY <1>21 DEF Read
<1>22. CASE Save
  BY <1>22 DEF Save
<1>23. CASE UNCHANGED vars
  BY <1>23 DEF vars
<1>24. QED
  BY <1>1, <1>2, <1>3, <1>4, <1>5, <1>6, <1>7, <1>8, <1>9, <1>10, <1>11, <1>12, <1>13, <1>14,
     <1>15, <1>16, <1>17, <1>18, <1>19, <1>20, <1>21, <1>22, <1>23 DEF ExecutionNext

\* Nobody saves a script while its lease is held, and only the end of the
\* stream gives the leases back.
LEMMA HeldStep ==
  ASSUME ExecutionTypeOK, NotStarted, Held, [ExecutionNext]_vars
  PROVE  Held'
<1> USE KindStands DEF outcome, scripts, Held, NotStarted, Past
<1>1. CASE Acquire
  BY <1>1 DEF Acquire
<1>2. CASE Create
  BY <1>2 DEF Create
<1>3. CASE Close
  BY <1>3 DEF Close
<1>4. CASE Read
  BY <1>4 DEF Read
<1>5. CASE Save
  <2>1. PICK i \in Items : Module(i) \notin leases /\ file' = [file EXCEPT ![i] = @ + 1]
    BY <1>5 DEF Save
  <2>2. Module(i) \in Wanted
    BY DEF Wanted
  <2>3. pc' = pc /\ process' = process /\ leases' = leases
    BY <1>5 DEF Save
  <2>4. QED
    BY <2>1, <2>2, <2>3 DEF Held, Past
<1>6. CASE UNCHANGED vars
  BY <1>6 DEF vars
<1>7. CASE Quiet
  BY <1>7 DEF Quiet, Past
<1>8. QED
  BY QuietSteps, <1>1, <1>2, <1>3, <1>4, <1>5, <1>6, <1>7 DEF ExecutionNext

\* What Playwright reads is what the rows name, as nothing has been saved.
LEMMA RecordedStep ==
  ASSUME ExecutionTypeOK, NotStarted, AtScript, Held, ExecutedIsRecorded, [ExecutionNext]_vars
  PROVE  ExecutedIsRecorded'
<1> USE KindStands DEF outcome, scripts, ExecutedIsRecorded, NotStarted, Past
<1>1. CASE Acquire
  BY <1>1 DEF Acquire
<1>2. CASE Create
  BY <1>2 DEF Create
<1>3. CASE Close
  BY <1>3 DEF Close
<1>4. CASE Read
  <2>1. PICK i \in Current : ran' = [ran EXCEPT ![i] = file[i]]
    BY <1>4 DEF Read
  <2>2. process /\ pc' = pc /\ recorded' = recorded
    BY <1>4 DEF Read
  <2>3. ran \in [1..MaxFiles -> 0..(MaxSaves + 1)]
    BY TypeParts DEF FilesTyped
  <2>4. \A j \in Items : ran'[j] = ran[j] \/ ran'[j] = file[j]
    BY <2>1, <2>3, ItemsAreNumbered
  <2>5. QED
    BY <2>2, <2>4, KindStands DEF ExecutedIsRecorded, Held
<1>5. CASE Save
  BY <1>5 DEF Save
<1>6. CASE UNCHANGED vars
  BY <1>6 DEF vars
<1>7. CASE Quiet
  BY <1>7 DEF Quiet, Past
<1>8. QED
  BY QuietSteps, <1>1, <1>2, <1>3, <1>4, <1>5, <1>6, <1>7 DEF ExecutionNext

\* Only the script at hand gets its result, those behind it wait.
LEMMA FreshStep ==
  ASSUME ExecutionTypeOK, NotStarted, AtScript, Fresh, [ExecutionNext]_vars
  PROVE  Fresh'
<1> USE TypeParts, ItemsAreNumbered, KindStands DEF outcome, scripts, Fresh, NotStarted
<1>1. CASE Acquire
  BY <1>1 DEF Acquire
<1>2. CASE Create
  <2>1. rows \in [1..MaxFiles -> RowStatus]
    BY TypeParts DEF RowsTyped
  <2>2. QED
    BY <1>2, <2>1, ItemsAreNumbered, KindStands DEF Create, Fresh, NotStarted
<1>3. CASE Setup
  BY <1>3 DEF Setup, Leads
<1>4. CASE Condemn
  BY <1>4 DEF Condemn
<1>5. CASE Launch
  BY <1>5 DEF Launch, Leads
<1>6. CASE Output
  BY <1>6 DEF Output
<1>7. CASE ItemEnds
  <2>1. rows \in [1..MaxFiles -> RowStatus] /\ next \in Nat /\ Last \in Nat
    BY TypeParts, ItemsAreNumbered, Bounds DEF RowsTyped, PointTyped
  <2>2. \A i \in Items : i \in Nat /\ i \in 1..MaxFiles
    BY ItemsAreNumbered, Bounds
  <2>3. pc' = "launch" => next' = next + 1 /\ rows' = Written(ResultRows', {next})
    BY <1>7 DEF ItemEnds
  <2>4. pc' # "record" /\ pc' # "started" /\ pc' # "running" /\ pc = "running"
    BY <1>7 DEF ItemEnds
  <2>5. results' \in [1..MaxFiles -> ResultStatus]
    BY <1>7, StoringSteps DEF Storing
  <2>6. ASSUME pc' = "launch", NEW i \in Items, i >= next + 1
        PROVE  rows'[i] = "unknown"
    BY <2>1, <2>2, <2>3, <2>4, <2>5, <2>6, ResultRowsTyped DEF Fresh
  <2>7. QED
    BY <2>3, <2>4, <2>6, KindStands DEF Fresh
<1>8. CASE BatchEnds
  <2>1. /\ pc = "running" /\ ~serial /\ pc' = "record" /\ rows' = rows /\ next = 1
    BY <1>8 DEF BatchEnds, AtScript
  <2>2. \A i \in Items : i >= 1
    BY ItemsAreNumbered, Bounds
  <2>3. QED
    BY <2>1, <2>2, KindStands DEF Fresh
<1>9. CASE Record
  BY <1>9 DEF Record
<1>10. CASE Merge
  BY <1>10 DEF Merge, Leads
<1>11. CASE Summarize
  BY <1>11 DEF Summarize
<1>12. CASE Finish
  BY <1>12 DEF Finish
<1>13. CASE Announce
  BY <1>13 DEF Announce, Leads
<1>14. CASE FailAll
  BY <1>14 DEF FailAll
<1>15. CASE FailSuite
  BY <1>15 DEF FailSuite
<1>16. CASE FailJob
  BY <1>16 DEF FailJob
<1>17. CASE Disconnect
  BY <1>17 DEF Disconnect, Leads, Suspended
<1>18. CASE DisconnectFailing
  BY <1>18 DEF DisconnectFailing, Leads
<1>19. CASE Cancel
  BY <1>19 DEF Cancel
<1>20. CASE Close
  BY <1>20 DEF Close
<1>21. CASE Read
  BY <1>21 DEF Read
<1>22. CASE Save
  BY <1>22 DEF Save
<1>23. CASE UNCHANGED vars
  BY <1>23 DEF vars
<1>24. QED
  BY <1>1, <1>2, <1>3, <1>4, <1>5, <1>6, <1>7, <1>8, <1>9, <1>10, <1>11, <1>12, <1>13, <1>14,
     <1>15, <1>16, <1>17, <1>18, <1>19, <1>20, <1>21, <1>22, <1>23 DEF ExecutionNext

\* Rows and results of a suite change together.
LEMMA AgreeingStep ==
  ASSUME ExecutionTypeOK, AtScript, NotStarted, Fresh, Agreeing, [ExecutionNext]_vars
  PROVE  Agreeing'
<1> USE TypeParts, ItemsAreNumbered, KindStands DEF outcome, scripts, Agreeing, NotStarted
<1>1. CASE Acquire
  BY <1>1 DEF Acquire
<1>2. CASE Create
  <2>1. rows \in [1..MaxFiles -> RowStatus]
    BY TypeParts DEF RowsTyped
  <2>2. \A i \in Items : rows'[i] \in {rows[i], "unknown"}
    BY <1>2, <2>1, ItemsAreNumbered DEF Create
  <2>3. QED
    BY <1>2, <2>2, KindStands DEF Create, Agreeing, NotStarted
<1>3. CASE Setup
  BY <1>3 DEF Setup, Leads
<1>4. CASE Condemn
  BY <1>4, StoringSteps, MemoryStands, ItemsAreNumbered, KindStands DEF Storing, Agreeing, Condemn
<1>5. CASE Launch
  BY <1>5 DEF Launch, Leads
<1>6. CASE Output
  BY <1>6 DEF Output
<1>7. CASE ItemEnds
  BY <1>7, StoringSteps, MemoryStands, ItemsAreNumbered, KindStands DEF Storing, Agreeing, ItemEnds
<1>8. CASE BatchEnds
  BY <1>8, StoringSteps, MemoryStands, ItemsAreNumbered, KindStands DEF Storing, Agreeing, BatchEnds
<1>9. CASE Record
  BY <1>9, StoringSteps, MemoryStands, ItemsAreNumbered, KindStands DEF Storing, Agreeing, Record
<1>10. CASE Merge
  BY <1>10 DEF Merge, Leads
<1>11. CASE Summarize
  BY <1>11 DEF Summarize
<1>12. CASE Finish
  BY <1>12 DEF Finish
<1>13. CASE Announce
  BY <1>13 DEF Announce, Leads
<1>14. CASE FailAll
  BY <1>14, KindStands DEF FailAll, Agreeing
<1>15. CASE FailSuite
  BY <1>15, StoringSteps, MemoryStands, ItemsAreNumbered, KindStands DEF Storing, Agreeing,
     FailSuite
<1>16. CASE FailJob
  BY <1>16 DEF FailJob
<1>17. CASE Disconnect
  BY <1>17 DEF Disconnect, Leads, Suspended
<1>18. CASE DisconnectFailing
  BY <1>18 DEF DisconnectFailing, Leads
<1>19. CASE Cancel
  BY <1>19 DEF Cancel
<1>20. CASE Close
  BY <1>20 DEF Close
<1>21. CASE Read
  BY <1>21 DEF Read
<1>22. CASE Save
  BY <1>22 DEF Save
<1>23. CASE UNCHANGED vars
  BY <1>23 DEF vars
<1>24. QED
  BY <1>1, <1>2, <1>3, <1>4, <1>5, <1>6, <1>7, <1>8, <1>9, <1>10, <1>11, <1>12, <1>13, <1>14,
     <1>15, <1>16, <1>17, <1>18, <1>19, <1>20, <1>21, <1>22, <1>23 DEF ExecutionNext

\* A suite's stored result is still there after any step.
LEMMA RowsStand ==
  ASSUME ExecutionInv, [ExecutionNext]_vars, kind = "suite",
         NEW i \in Items, rows[i] \in {"passed", "failed", "interrupted"}
  PROVE  rows'[i] = rows[i]
<1>1. /\ ExecutionTypeOK /\ NotStarted /\ AtScript /\ Fresh /\ Agreeing
      /\ rows \in [1..MaxFiles -> RowStatus] /\ i \in 1..MaxFiles
  BY TypeParts, ItemsAreNumbered DEF ExecutionInv, RowsTyped
<1>2. CASE Create
  BY <1>1, <1>2 DEF Create, NotStarted
<1>3. CASE Condemn \/ ItemEnds \/ BatchEnds \/ Record \/ FailSuite
  <2>1. rows'[i] \in {rows[i], DbResultStatus(results'[i])}
    BY <1>1, <1>3, StoringSteps DEF Storing
  <2>2. results'[i] = results[i]
    BY <1>1, <1>3, MemoryStands
  <2>3. pc \notin {"close", "over"}
    BY <1>3 DEF Condemn, ItemEnds, BatchEnds, Record, FailSuite
  <2>4. QED
    BY <1>1, <2>1, <2>2, <2>3 DEF Agreeing
<1>4. CASE FailAll
  BY <1>4 DEF FailAll
<1>5. CASE Cancel
  <2>1. DbResultStatus(results[i]) # "unknown"
    BY <1>1, <1>5 DEF Cancel, Agreeing
  <2>2. i \notin Interrupted
    BY <2>1 DEF Interrupted, Unresolved, Completed
  <2>3. QED
    BY <1>1, <1>5, <2>2 DEF Cancel
<1>6. CASE rows' = rows
  BY <1>6
<1>7. QED
  <2>1. \/ Create \/ Condemn \/ ItemEnds \/ BatchEnds \/ Record \/ FailAll \/ FailSuite \/ Cancel
        \/ rows' = rows
    BY DEF ExecutionNext, vars, outcome, Leads, Acquire, Setup, Launch, Output, Merge, Summarize,
       Finish, Announce, FailJob, Disconnect, DisconnectFailing, Close, Read, Save
  <2>2. QED
    BY <1>2, <1>3, <1>4, <1>5, <1>6, <2>1

\* The invariant holds as a stream is created.
LEMMA InitiallyInv == ExecutionInit => ExecutionInv
<1> SUFFICES ASSUME ExecutionInit PROVE ExecutionInv
  OBVIOUS
<1>1. MaxFiles \in Nat /\ MaxFiles >= 1 /\ MaxSaves \in Nat /\ MaxFaults \in Nat
  BY ExecutionAssumption DEF ExecutionAssumption
<1>2. ExecutionTypeOK
  <2>1. /\ kind \in {"single", "module", "suite"} /\ serial \in BOOLEAN
        /\ failed \in BOOLEAN /\ process \in BOOLEAN
    BY DEF ExecutionInit
  <2>2. rows \in [1..MaxFiles -> RowStatus] /\ results \in [1..MaxFiles -> ResultStatus]
    BY DEF ExecutionInit, RowStatus, ResultStatus
  <2>3. /\ file \in [1..MaxFiles -> 1..(MaxSaves + 1)] /\ recorded \in [1..MaxFiles -> 1..(MaxSaves + 1)]
        /\ ran \in [1..MaxFiles -> 0..(MaxSaves + 1)]
    BY <1>1 DEF ExecutionInit
  <2>4. /\ next \in 1..(MaxFiles + 1) /\ leases \subseteq 1..MaxFiles /\ kept \subseteq 1..MaxFiles
        /\ faults \in 0..MaxFaults
    BY <1>1 DEF ExecutionInit
  <2>5. run \in RunStatus
    BY DEF ExecutionInit, RunStatus
  <2>6. QED
    BY <2>1, <2>2, <2>3, <2>4, <2>5 DEF ExecutionTypeOK, ExecutionInit
<1>3. Items \subseteq 1..MaxFiles /\ Last \in 1..MaxFiles
  BY <1>2, ItemsAreNumbered
<1>4. QED
  BY <1>1, <1>2, <1>3 DEF ExecutionInit, ExecutionInv, NotStarted, AtScript, Held, Past,
     ExecutedIsRecorded, Fresh, Agreeing

\* Every step keeps the invariant, conjunct by conjunct.
LEMMA StepKeepsInv == ExecutionInv /\ [ExecutionNext]_vars => ExecutionInv'
<1> SUFFICES ASSUME ExecutionInv, [ExecutionNext]_vars PROVE ExecutionInv'
  OBVIOUS
<1> USE DEF ExecutionInv
<1>1. ExecutionTypeOK'
  <2>1. PointTyped' /\ FlagsTyped' /\ RowsTyped' /\ JobTyped' /\ FilesTyped'
    BY PointStep, FlagsStep, RowsStep, JobStep, FilesStep
  <2>2. QED
    BY <2>1 DEF ExecutionTypeOK, PointTyped, FlagsTyped, RowsTyped, JobTyped, FilesTyped
<1>2. NotStarted' /\ AtScript' /\ Held' /\ ExecutedIsRecorded'
  BY NotStartedStep, AtScriptStep, HeldStep, RecordedStep
<1>3. Fresh' /\ Agreeing'
  BY FreshStep, AgreeingStep
<1>4. QED
  BY <1>1, <1>2, <1>3

\* The inductive invariant holds of every execution.
THEOREM ExecutionInvariant == ExecutionSpec => []ExecutionInv
<1>1. QED
  BY InitiallyInv, StepKeepsInv, PTL DEF ExecutionSpec

\* Every status, lease and version stays among the values the tables and the
\* stream know (ExecutionTypeOK).
THEOREM ExecutionTypesHold == ExecutionSpec => []ExecutionTypeOK
<1>1. ExecutionInv => ExecutionTypeOK
  BY DEF ExecutionInv
<1>2. QED
  BY <1>1, ExecutionInvariant, PTL

\* However many scripts of however many modules are executed and saved, until
\* its stream has ended Playwright has run the revision that each result row
\* names: hold_script_module_leases takes every lease before a row is written,
\* and gives them back after the process.
THEOREM ExecutedIsTheRecorded == ExecutionSpec => []ExecutedIsRecorded
<1>1. ExecutionInv => ExecutedIsRecorded
  BY DEF ExecutionInv
<1>2. QED
  BY <1>1, ExecutionInvariant, PTL

\* No error, cancellation or later result replaces a result of a suite that has
\* been stored (finalize_failed_execution).
THEOREM ResultsAlwaysStand == ExecutionSpec => ResultsStand
<1>1. ExecutionInv /\ [ExecutionNext]_vars =>
        [kind = "suite" =>
           \A i \in Items :
             rows[i] \in {"passed", "failed", "interrupted"} => rows'[i] = rows[i]]_vars
  BY RowsStand
<1>2. QED
  BY <1>1, ExecutionInvariant, PTL DEF ExecutionSpec, ResultsStand

-----------------------------------------------------------------------------
(* The outcome.                                                            *)

\* Faults are only counted up: none so far, none in the step.
LEMMA NoFault ==
  ASSUME ExecutionTypeOK, [ExecutionNext]_vars, faults' = 0
  PROVE  faults = 0 /\ ~Fault
<1>1. faults \in Nat
  BY Bounds, TypeParts DEF PointTyped
<1>2. ~Fault
  BY <1>1 DEF Fault
<1>3. faults' = faults
  BY <1>2 DEF ExecutionNext, vars, Acquire, Create, Setup, Condemn, Launch, Output, ItemEnds,
     BatchEnds, Record, Merge, Summarize, Finish, Announce, FailAll, FailSuite, FailJob,
     Disconnect, DisconnectFailing, Cancel, Close, Read, Save, Leads, CancelledRun
<1>4. QED
  BY <1>2, <1>3

\* Words for results: only a result that is completed says something in a row.
LEMMA CompletedWords ==
  /\ Completed("succeeded") /\ Completed("failed") /\ Completed("interrupted")
  /\ ~Completed("running") /\ ~Completed("unknown") /\ ~Completed("none")
BY DEF Completed, DbResultStatus

\* Every step settles the run before the job, and both in the same way.
LEMMA SettlingStep ==
  ASSUME ExecutionTypeOK, Settling, [ExecutionNext]_vars
  PROVE  Settling'
<1> SUFFICES ASSUME faults' = 0 PROVE Settling'
  BY DEF Settling
<1>0. faults = 0 /\ ~Fault
  BY NoFault
<1> USE DEF outcome, Settling
<1>1. CASE Acquire
  BY <1>0, <1>1 DEF Acquire
<1>2. CASE Create
  BY <1>0, <1>2 DEF Create
<1>3. CASE Setup
  BY <1>0, <1>3 DEF Setup, Leads
<1>4. CASE Condemn
  BY <1>0, <1>4 DEF Condemn
<1>5. CASE Launch
  BY <1>0, <1>5 DEF Launch, Leads
<1>6. CASE Output
  BY <1>0, <1>6 DEF Output
<1>7. CASE ItemEnds
  BY <1>0, <1>7 DEF ItemEnds
<1>8. CASE BatchEnds
  BY <1>0, <1>8 DEF BatchEnds
<1>9. CASE Record
  BY <1>0, <1>9 DEF Record
<1>10. CASE Merge
  BY <1>0, <1>10 DEF Merge, Leads
<1>11. CASE Summarize
  BY <1>0, <1>11 DEF Summarize, DbRunStatus, Verdict
<1>12. CASE Finish
  BY <1>0, <1>12 DEF Finish, DbRunStatus, Verdict
<1>13. CASE Announce
  BY <1>0, <1>13 DEF Announce, Leads
<1>14. CASE FailAll
  BY <1>0, <1>14 DEF FailAll
<1>15. CASE FailSuite
  BY <1>0, <1>15 DEF FailSuite
<1>16. CASE FailJob
  BY <1>0, <1>16 DEF FailJob
<1>17. CASE Disconnect
  BY <1>0, <1>17 DEF Disconnect, Leads, Suspended
<1>18. CASE DisconnectFailing
  BY <1>0, <1>18 DEF DisconnectFailing, Leads
<1>19. CASE Cancel
  BY <1>0, <1>19 DEF Cancel, CancelledRun
<1>20. CASE Close
  BY <1>0, <1>20 DEF Close
<1>21. CASE Read
  BY <1>0, <1>21 DEF Read, Verdict
<1>22. CASE Save
  BY <1>0, <1>22 DEF Save, Verdict
<1>23. CASE UNCHANGED vars
  BY <1>0, <1>23 DEF vars, Verdict
<1>24. QED
  BY <1>1, <1>2, <1>3, <1>4, <1>5, <1>6, <1>7, <1>8, <1>9, <1>10, <1>11, <1>12, <1>13, <1>14,
     <1>15, <1>16, <1>17, <1>18, <1>19, <1>20, <1>21, <1>22, <1>23 DEF ExecutionNext

\* Every step that gives a script its result stores it, or is on its way to.
LEMMA ToldStep ==
  ASSUME ExecutionTypeOK, AtScript, Told, [ExecutionNext]_vars
  PROVE  Told'
<1> SUFFICES ASSUME faults' = 0, pc' \notin {"ready", "create", "record", "close", "over"},
                    NEW i \in Items, Completed(results'[i])
             PROVE  rows'[i] # "unknown"
  BY KindStands DEF Told, Completed, DbResultStatus
<1>0. /\ faults = 0 /\ ~Fault /\ i \in 1..MaxFiles /\ i \in 1..Last
      /\ rows \in [1..MaxFiles -> RowStatus] /\ results \in [1..MaxFiles -> ResultStatus]
  BY NoFault, ItemsAreNumbered, TypeParts DEF RowsTyped
<1>a. ASSUME rows'[i] = DbResultStatus(results'[i]) PROVE rows'[i] # "unknown"
  BY <1>a DEF Completed
<1> USE DEF outcome, Told
<1>1. CASE Acquire
  BY <1>0, <1>1 DEF Acquire
<1>2. CASE Create
  BY <1>0, <1>2, CompletedWords DEF Create
<1>3. CASE Setup
  BY <1>0, <1>3 DEF Setup, Leads
<1>4. CASE Condemn
  <2>1. rows' = Written(results', next..Last) /\ results'[i] = IF i = next THEN "failed"
                                               ELSE IF i \in next..Last THEN "interrupted"
                                               ELSE results[i]
    BY <1>0, <1>4 DEF Condemn
  <2>2. i \in next..Last \/ results'[i] = results[i]
    BY <2>1, <1>0, Bounds, ItemsAreNumbered, TypeParts DEF PointTyped
  <2>3. rows'[i] = IF i \in next..Last THEN results'[i] ELSE rows[i]
    BY <1>0, <2>1 DEF Written
  <2>4. QED
    BY <1>0, <1>4, <2>1, <2>2, <2>3 DEF Condemn
<1>5. CASE Launch
  BY <1>0, <1>5 DEF Launch, Leads
<1>6. CASE Output
  BY <1>0, <1>6 DEF Output
<1>7. CASE ItemEnds
  <2>1. results' \in [1..MaxFiles -> ResultStatus]
    BY <1>7, StoringSteps DEF Storing
  <2>2. rows' = Written(ResultRows', {next}) /\ (i = next \/ results'[i] = results[i])
    BY <1>0, <1>7 DEF ItemEnds
  <2>3. i = next => rows'[i] = DbResultStatus(results'[i])
    BY <1>0, <2>1, <2>2, ResultRowsTyped
  <2>4. i # next => rows'[i] = rows[i]
    BY <1>0, <2>1, <2>2, ResultRowsTyped
  <2>5. QED
    BY <1>0, <1>7, <1>a, <2>2, <2>3, <2>4 DEF ItemEnds
<1>8. CASE BatchEnds
  BY <1>0, <1>8 DEF BatchEnds
<1>9. CASE Record
  <2>1. results' = results /\ rows' = Written(ResultRows', Items)
    BY <1>0, <1>9 DEF Record, ResultRows
  <2>2. QED
    BY <1>0, <1>a, <2>1, ResultRowsTyped
<1>10. CASE Merge
  BY <1>0, <1>10 DEF Merge, Leads
<1>11. CASE Summarize
  BY <1>0, <1>11 DEF Summarize
<1>12. CASE Finish
  BY <1>0, <1>12 DEF Finish
<1>13. CASE Announce
  BY <1>0, <1>13 DEF Announce, Leads
<1>14. CASE FailAll
  <2>1. rows'[i] = results'[i] /\ results'[i] = "failed"
    BY <1>0, <1>14 DEF FailAll, Written
  <2>2. QED
    BY <2>1
<1>15. CASE FailSuite
  <2> DEFINE done == Unresolved \cup (Items \ kept)
  <2>1. results' \in [1..MaxFiles -> ResultStatus]
    BY <1>15, StoringSteps DEF Storing
  <2>2. rows' = Written(ResultRows', done) /\ (i \in done \/ results'[i] = results[i])
    BY <1>0, <1>15 DEF FailSuite
  <2> HIDE DEF done
  <2>3. rows'[i] = IF i \in done THEN DbResultStatus(results'[i]) ELSE rows[i]
    BY <1>0, <2>1, <2>2, ResultRowsTyped
  <2>4. QED
    BY <1>0, <1>15, <1>a, <2>2, <2>3 DEF FailSuite
<1>16. CASE FailJob
  BY <1>0, <1>16 DEF FailJob
<1>17. CASE Disconnect
  BY <1>0, <1>17 DEF Disconnect, Leads, Suspended
<1>18. CASE DisconnectFailing
  BY <1>0, <1>18 DEF DisconnectFailing, Leads
<1>19. CASE Cancel
  BY <1>0, <1>19 DEF Cancel
<1>20. CASE Close
  BY <1>0, <1>20 DEF Close
<1>21. CASE Read
  BY <1>0, <1>21 DEF Read
<1>22. CASE Save
  BY <1>0, <1>22 DEF Save
<1>23. CASE UNCHANGED vars
  BY <1>0, <1>23 DEF vars
<1>24. QED
  BY <1>1, <1>2, <1>3, <1>4, <1>5, <1>6, <1>7, <1>8, <1>9, <1>10, <1>11, <1>12, <1>13, <1>14,
     <1>15, <1>16, <1>17, <1>18, <1>19, <1>20, <1>21, <1>22, <1>23 DEF ExecutionNext

\* Every step leaves results behind it.
LEMMA ResolvedStep ==
  ASSUME ExecutionTypeOK, AtScript, Settling, Told, Resolved, [ExecutionNext]_vars
  PROVE  Resolved'
<1> SUFFICES ASSUME faults' = 0 PROVE Resolved'
  BY DEF Resolved
<1>0. /\ faults = 0 /\ ~Fault /\ \A i \in Items : i \in 1..MaxFiles /\ i \in 1..Last /\ i \in Nat
      /\ rows \in [1..MaxFiles -> RowStatus] /\ results \in [1..MaxFiles -> ResultStatus]
      /\ Items' = Items /\ serial' = serial /\ next \in Nat /\ Last \in Nat
  BY NoFault, ItemsAreNumbered, TypeParts, KindStands, Bounds DEF RowsTyped, PointTyped
<1> USE DEF outcome, Resolved
<1>1. CASE Acquire
  BY <1>0, <1>1 DEF Acquire, Settling
<1>2. CASE Create
  BY <1>0, <1>2 DEF Create, Settling
<1>3. CASE Setup
  BY <1>0, <1>3 DEF Setup, Leads
<1>4. CASE Condemn
  <2>1. pc = "launch" /\ serial /\ pc' = "merge"
    BY <1>0, <1>4 DEF Condemn
  <2>2. \A i \in Items : results'[i] \in {"failed", "interrupted"} \/ (i < next /\ results'[i] = results[i])
    BY <1>0, <1>4 DEF Condemn
  <2>3. \A i \in Items : Completed(results'[i])
    BY <1>0, <2>1, <2>2, CompletedWords
  <2>4. QED
    BY <1>0, <2>1, <2>3 DEF Completed, DbResultStatus
<1>5. CASE Launch
  BY <1>0, <1>5 DEF Launch, Leads
<1>6. CASE Output
  BY <1>0, <1>6 DEF Output
<1>7. CASE ItemEnds
  <2>1. /\ pc = "running" /\ serial /\ next' = next + 1
        /\ pc' = IF next = Last THEN "merge" ELSE "launch"
    BY <1>0, <1>7 DEF ItemEnds
  <2>2. \A i \in Items : IF i = next THEN results'[i] \in {"succeeded", "failed"}
                         ELSE results'[i] = results[i]
    BY <1>0, <1>7 DEF ItemEnds
  <2>3. \A i \in Items : i < next + 1 => Completed(results'[i])
    BY <1>0, <2>1, <2>2, CompletedWords
  <2>4. next = Last => \A i \in Items : i < next + 1
    BY <1>0
  <2>5. QED
    BY <1>0, <2>1, <2>3, <2>4 DEF Completed, DbResultStatus
<1>8. CASE BatchEnds
  <2>1. pc' = "record" /\ ~serial
    BY <1>8 DEF BatchEnds
  <2>2. ASSUME ~failed', NEW i \in Items PROVE Completed(results'[i])
    <3>1. PICK report \in Reports(~failed') :
            results' = [j \in DOMAIN results |-> IF j \in Items THEN report[j] ELSE results[j]]
      BY <1>8 DEF BatchEnds
    <3>2. report[i] \in {"succeeded", "failed"}
      BY <2>2, <3>1 DEF Reports
    <3>3. QED
      BY <1>0, <3>1, <3>2, CompletedWords
  <2>3. QED
    BY <1>0, <2>1, <2>2 DEF Completed, DbResultStatus
<1>9. CASE Record
  BY <1>0, <1>9 DEF Record
<1>10. CASE Merge
  BY <1>0, <1>10 DEF Merge, Leads
<1>11. CASE Summarize
  BY <1>0, <1>11 DEF Summarize
<1>12. CASE Finish
  <2>1. pc = "finish" /\ pc' = "announce" /\ job' = Verdict /\ UNCHANGED <<rows, results, failed>>
    BY <1>0, <1>12 DEF Finish
  <2>2. serial \/ job' # "failed" => serial \/ ~failed
    BY <2>1 DEF Verdict
  <2>3. serial \/ ~failed => \A i \in Items : rows[i] # "unknown"
    BY <1>0, <2>1 DEF Told
  <2>4. QED
    BY <1>0, <2>1, <2>2, <2>3
<1>13. CASE Announce
  BY <1>0, <1>13 DEF Announce, Leads
<1>14. CASE FailAll
  <2>1. pc' = "failing" /\ \A i \in Items : rows'[i] = "failed"
    BY <1>0, <1>14 DEF FailAll, Written
  <2>2. QED
    BY <1>0, <2>1
<1>15. CASE FailSuite
  <2> DEFINE done == Unresolved \cup (Items \ kept)
  <2>1. results' \in [1..MaxFiles -> ResultStatus]
    BY <1>15, StoringSteps DEF Storing
  <2>2. /\ pc \in {"setuperror", "error"} /\ pc' = "failing" /\ rows' = Written(ResultRows', done)
        /\ \A i \in Items : IF i \in Unresolved THEN results'[i] \in {"failed", "interrupted"}
                            ELSE results'[i] = results[i]
    BY <1>0, <1>15 DEF FailSuite
  <2>3. \A i \in Items : Completed(results'[i]) /\ (i \notin done => Completed(results[i]))
    BY <2>2, CompletedWords DEF Unresolved
  <2> HIDE DEF done
  <2>4. \A i \in Items : rows'[i] = IF i \in done THEN DbResultStatus(results'[i]) ELSE rows[i]
    BY <1>0, <2>1, <2>2, ResultRowsTyped
  <2>5. \A i \in Items : rows'[i] # "unknown"
    BY <1>0, <2>2, <2>3, <2>4 DEF Told, Completed
  <2>6. QED
    BY <1>0, <2>2, <2>5
<1>16. CASE FailJob
  BY <1>0, <1>16 DEF FailJob, Settling
<1>17. CASE Disconnect
  BY <1>0, <1>17 DEF Disconnect, Leads, Suspended
<1>18. CASE DisconnectFailing
  BY <1>0, <1>18 DEF DisconnectFailing, Leads, Settling
<1>19. CASE Cancel
  <2>1. pc = "exit" /\ pc' = "close"
    BY <1>19 DEF Cancel
  <2>2. \A i \in Items : rows'[i] = IF i \in Interrupted THEN "interrupted" ELSE rows[i]
    BY <1>0, <1>19 DEF Cancel
  <2>3. \A i \in Items : i \notin Interrupted => rows[i] # "unknown"
    BY <1>0, <2>1 DEF Interrupted, Unresolved, Told
  <2>4. \A i \in Items : rows'[i] # "unknown"
    BY <2>2, <2>3
  <2>5. QED
    BY <1>0, <2>1, <2>4
<1>20. CASE Close
  BY <1>0, <1>20 DEF Close
<1>21. CASE Read
  BY <1>0, <1>21 DEF Read
<1>22. CASE Save
  BY <1>0, <1>22 DEF Save
<1>23. CASE UNCHANGED vars
  BY <1>0, <1>23 DEF vars
<1>24. QED
  BY <1>1, <1>2, <1>3, <1>4, <1>5, <1>6, <1>7, <1>8, <1>9, <1>10, <1>11, <1>12, <1>13, <1>14,
     <1>15, <1>16, <1>17, <1>18, <1>19, <1>20, <1>21, <1>22, <1>23 DEF ExecutionNext

\* A stream without a fault ends with the run, the job and the rows agreed: the
\* run has the job's outcome, whether the stream has succeeded, failed or been
\* left by its reader, and a script has no result only where the report of a
\* failed batch does not name it (update_test_run, finish_test_job,
\* cancel_execution_records, finalize_failed_execution).
THEOREM OutcomesAgree == ExecutionSpec => []OutcomeAgrees
<1>1. ExecutionInit => OutcomeInv
  BY DEF ExecutionInit, OutcomeInv, Settling, Told, Resolved
<1>2. ExecutionInv /\ OutcomeInv /\ [ExecutionNext]_vars => OutcomeInv'
  BY SettlingStep, ToldStep, ResolvedStep DEF ExecutionInv, OutcomeInv
<1>3. OutcomeInv => OutcomeAgrees
  BY DEF OutcomeInv, Settling, Resolved, OutcomeAgrees
<1>4. QED
  BY <1>1, <1>2, <1>3, ExecutionInvariant, PTL DEF ExecutionSpec
=============================================================================
