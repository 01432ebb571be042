--------------------------- MODULE MigrationProofs ---------------------------
(***************************************************************************)
(* For every number of tables, ranges, threads, retries and runs, and for  *)
(* every ring: the migration driver handles each range of a table once,    *)
(* batch by batch, obeys stop and pause within a batch and keeps its       *)
(* counters; with the calculator it asks for every token once.             *)
(***************************************************************************)
EXTENDS Migration, TLAPS, FiniteSetTheorems, WellFoundedInduction

-----------------------------------------------------------------------------
(* Facts about the operators *)

(* The table loop takes the tables in order: First picks the least of them. *)
LEMMA FirstIsMember ==
  ASSUME NEW S \in SUBSET Tables, S # {}
  PROVE  First(S) \in S
<1> DEFINE Less == {pair \in Nat \X Nat : pair[1] < pair[2]}
<1>1. S \subseteq Nat
  BY LoaderAssumption DEF Tables
<1>2. IsWellFoundedOn(Less, Nat)
  BY NatLessThanWellFounded DEF OpToRel
<1>3. \A x, y \in S : y < x => <<y, x>> \in Less
  <2> SUFFICES ASSUME NEW x \in S, NEW y \in S, y < x
               PROVE  <<y, x>> \in Less
    BY Zenon
  <2>1. <<y, x>> \in Nat \X Nat /\ <<y, x>>[1] < <<y, x>>[2]
    BY <1>1
  <2> QED
    BY <2>1, Zenon
<1> HIDE DEF Less
<1>4. PICK x \in S : \A y \in S : ~(<<y, x>> \in Less)
  BY <1>1, <1>2, WFMin
<1>5. \A y \in S : x <= y
  <2>1. \A y \in S : ~(y < x)
    BY <1>3, <1>4, Zenon
  <2> QED
    BY <1>1, <2>1
<1> QED
  BY <1>5 DEF First

(* There are finitely many tables, and taking the first leaves one less. *)
LEMMA TablesLeft ==
  ASSUME NEW S \in SUBSET Tables
  PROVE  /\ Cardinality(S) \in Nat
         /\ S # {} => Cardinality(S \ {First(S)}) = Cardinality(S) - 1
<1>1. IsFiniteSet(Tables)
  BY LoaderAssumption, FS_Interval DEF Tables
<1>2. IsFiniteSet(S)
  BY <1>1, FS_Subset
<1> QED
  BY <1>2, FS_CardinalityType, FS_RemoveElement, FirstIsMember

(* The batch is a non-empty interval of at most MaxConcurrent ranges. *)
LEMMA BatchInterval ==
  ASSUME TypeOK, batch_start < ranges
  PROVE  /\ ranges \in Nat /\ batch_start \in Nat
         /\ BatchEnd \in Nat /\ batch_start < BatchEnd /\ BatchEnd <= ranges
         /\ BatchEnd <= batch_start + MaxConcurrent
         /\ Batch = batch_start .. BatchEnd - 1
  BY LoaderAssumption DEF TypeOK, BatchEnd, Batch

-----------------------------------------------------------------------------
(* Types *)

(* The initial state is well typed. *)
LEMMA TypeInit == Init => TypeOK
<1>1. Init => FlagsOK
  BY DEF Init, FlagsOK
<1>2. Init => Active = {}
  BY DEF Init, NoWorkers, Active
<1> QED
  BY <1>1, <1>2, LoaderAssumption DEF Init, TypeOK

(* The flags stay Boolean. *)
LEMMA FlagsStep ==
  ASSUME FlagsOK, [Next]_vars
  PROVE  FlagsOK'
  BY DEF FlagsOK, Next, vars, flags, Start, StartMigration, MigrateSingleTable, DriverStep, LoopStep,
         SetRunning, TablesDone, SkipTable, BeginTable, NextBatch, PauseGate, Spawn, Join, Finish,
         EndTable, RangesCalculated, WorkerStep, RangeStep, RangeRead, PageRetry, FetchFailed,
         CountFailedRow, CountSkippedRange, HandleError, Control, Pause, Resume, Stop, StopMigration

(* A step of a range's thread touches no other thread; it ends the thread or
   moves it on. *)
LEMMA WorkersTyped ==
  ASSUME NEW r \in Active, \A s \in Active : worker[s] \in Worker, RangeStep(r)
  PROVE  /\ Active' = Active \/ Active' = Active \ {r}
         /\ \A s \in Active' : s \in Active /\ worker'[s] \in Worker
         /\ \A s \in Active' \ {r} : worker'[s] = worker[s]
<1> USE LoaderAssumption DEF Active, Worker, At, MoveTo, Without
<1>1. CASE RangeRead(r)
  BY <1>1 DEF RangeRead
<1>2. CASE PageRetry(r)
  BY <1>2 DEF PageRetry
<1>3. CASE FetchFailed(r)
  BY <1>3 DEF FetchFailed
<1>4. CASE CountFailedRow(r)
  BY <1>4 DEF CountFailedRow
<1>5. CASE CountSkippedRange(r)
  BY <1>5 DEF CountSkippedRange
<1>6. CASE HandleError(r)
  BY <1>6 DEF HandleError
<1> QED
  BY <1>1, <1>2, <1>3, <1>4, <1>5, <1>6 DEF RangeStep

(* Every step keeps the types; a thread's range lies in the table's ranges. *)
LEMMA TypeStep ==
  ASSUME TypeOK, BatchInv, [Next]_vars
  PROVE  TypeOK'
<1> USE LoaderAssumption DEF TypeOK, Active, handled, promptness, counters, place
<1>0. FlagsOK'
  BY FlagsStep
<1>1. ASSUME NEW selected \in SUBSET Tables, StartMigration(selected)
      PROVE  TypeOK'
  BY <1>0, <1>1 DEF StartMigration
<1>2. ASSUME NEW t \in Tables, MigrateSingleTable(t)
      PROVE  TypeOK'
  BY <1>0, <1>2 DEF MigrateSingleTable
<1>3. CASE SetRunning
  <2>1. Cardinality(todo) \in Nat
    BY TablesLeft
  <2> QED
    BY <1>0, <1>3, <2>1 DEF SetRunning
<1>4. CASE TablesDone
  BY <1>0, <1>4 DEF TablesDone
<1>5. CASE SkipTable
  BY <1>0, <1>5 DEF SkipTable
<1>6. CASE BeginTable
  <2>1. First(todo) \in Tables
    BY <1>6, FirstIsMember DEF BeginTable
  <2> QED
    BY <1>0, <1>6, <2>1 DEF BeginTable
<1>7. ASSUME NEW n \in RangeCounts, RangesCalculated(n)
      PROVE  TypeOK'
  <2>1. Active = {} /\ read = {} /\ given_up = {}
    BY <1>7 DEF RangesCalculated, BatchInv
  <2> QED
    BY <1>0, <1>7, <2>1 DEF RangesCalculated
<1>8. CASE EndTable
  BY <1>0, <1>8 DEF EndTable
<1>9. CASE NextBatch
  BY <1>0, <1>9 DEF NextBatch
<1>10. CASE PauseGate
  BY <1>0, <1>10 DEF PauseGate
<1>11. CASE Spawn
  <2>1. DOMAIN worker' = Batch /\ \A r \in Batch : worker'[r] \in Worker
    BY <1>11 DEF Spawn, Fetching, Worker
  <2>2. \A r \in Batch : r \in 0..ranges - 1
    BY <1>11, BatchInterval DEF Spawn, BatchInv
  <2> QED
    BY <1>0, <1>11, <2>1, <2>2 DEF Spawn
<1>12. CASE Join
  BY <1>0, <1>12 DEF Join
<1>13. CASE Finish
  BY <1>0, <1>13 DEF Finish
<1>14. ASSUME NEW r \in Active, RangeStep(r)
       PROVE  TypeOK'
  <2>1. r \in 0..ranges - 1
    OBVIOUS
  <2>2. UNCHANGED <<driver, mode, todo, table, ranges, batch_start, tables_completed, tables_skipped,
                    tables_total, runs, afterStop, afterPause>>
    BY <1>14 DEF RangeStep, RangeRead, PageRetry, FetchFailed, CountFailedRow, CountSkippedRange,
                 HandleError
  <2>3. \A s \in Active' : s \in Active /\ worker'[s] \in Worker
    BY <1>14, WorkersTyped
  <2>4. failed_rows' \in Nat /\ skipped_ranges' \in Nat /\ broken' \in Nat
    BY <1>14 DEF RangeStep, RangeRead, PageRetry, FetchFailed, CountFailedRow, CountSkippedRange,
                 HandleError
  <2>5. read' \subseteq 0..ranges - 1 /\ given_up' \subseteq 0..ranges - 1
    BY <1>14, <2>1 DEF RangeStep, RangeRead, PageRetry, FetchFailed, CountFailedRow,
                       CountSkippedRange, HandleError
  <2> QED
    BY <1>0, <2>2, <2>3, <2>4, <2>5
<1>15. CASE Pause
  BY <1>0, <1>15 DEF Pause
<1>16. CASE Resume
  BY <1>0, <1>16 DEF Resume
<1>17. CASE Stop
  BY <1>0, <1>17 DEF Stop
<1>18. CASE StopMigration
  BY <1>0, <1>18 DEF StopMigration
<1>19. CASE UNCHANGED vars
  BY <1>0, <1>19 DEF vars
<1> QED
  BY <1>1, <1>2, <1>3, <1>4, <1>5, <1>6, <1>7, <1>8, <1>9, <1>10, <1>11, <1>12, <1>13, <1>14,
     <1>15, <1>16, <1>17, <1>18, <1>19 DEF Next, Start, DriverStep, LoopStep, WorkerStep, Control

-----------------------------------------------------------------------------
(* Batches *)

(* Threads are created by Spawn alone, for ranges of the open batch, and Join
   waits for all of them. *)
LEMMA BatchStep ==
  ASSUME TypeOK, BatchInv, [Next]_vars
  PROVE  BatchInv'
<1> USE DEF BatchInv, Batch, BatchEnd, Active, handled, place
<1>1. CASE Start
  BY <1>1 DEF Start, StartMigration, MigrateSingleTable
<1>2. CASE SetRunning \/ TablesDone \/ SkipTable \/ Finish
  BY <1>2 DEF SetRunning, TablesDone, SkipTable, Finish
<1>3. CASE BeginTable
  BY <1>3 DEF BeginTable
<1>4. ASSUME NEW n \in RangeCounts, RangesCalculated(n)
      PROVE  BatchInv'
  BY <1>4 DEF RangesCalculated
<1>5. CASE EndTable
  BY <1>5 DEF EndTable
<1>6. CASE NextBatch
  BY <1>6 DEF NextBatch, MoreBatches
<1>7. CASE PauseGate
  BY <1>7 DEF PauseGate
<1>8. CASE Spawn
  BY <1>8 DEF Spawn
<1>9. CASE Join
  BY <1>9 DEF Join
<1>10. ASSUME NEW r \in Active, RangeStep(r)
       PROVE  BatchInv'
  <2>1. Active' \subseteq Active
    BY <1>10, WorkersTyped DEF TypeOK
  <2>2. UNCHANGED <<driver, ranges, batch_start>>
    BY <1>10 DEF RangeStep, RangeRead, PageRetry, FetchFailed, CountFailedRow, CountSkippedRange,
                 HandleError
  <2>3. driver = "join"
    BY <1>10
  <2> HIDE DEF Active
  <2> QED
    BY <2>1, <2>2, <2>3
<1>11. CASE Control
  BY <1>11 DEF Control, Pause, Resume, Stop, StopMigration
<1>12. CASE UNCHANGED vars
  BY <1>12 DEF vars
<1> QED
  BY <1>1, <1>2, <1>3, <1>4, <1>5, <1>6, <1>7, <1>8, <1>9, <1>10, <1>11, <1>12
     DEF Next, DriverStep, LoopStep, WorkerStep

(* The ranges handled grow from one batch to the next: a batch opens where the
   joined ones end, its ranges leave it one by one, and Join moves on only when
   it is empty. *)
LEMMA OnceStep ==
  ASSUME TypeOK, BatchInv, RangesOnce, [Next]_vars
  PROVE  RangesOnce'
<1> USE LoaderAssumption DEF RangesOnce, Reached, BatchEnd, Active, handled, place
<1>1. CASE Start
  BY <1>1 DEF Start, StartMigration, MigrateSingleTable
<1>2. CASE SetRunning \/ TablesDone \/ SkipTable \/ BeginTable \/ Finish
  BY <1>2 DEF SetRunning, TablesDone, SkipTable, BeginTable, Finish
<1>3. ASSUME NEW n \in RangeCounts, RangesCalculated(n)
      PROVE  RangesOnce'
  <2>1. Active' = {} /\ read' = {} /\ given_up' = {}
    BY <1>3 DEF RangesCalculated, BatchInv
  <2>2. Reached' = 0
    BY <1>3 DEF RangesCalculated
  <2> QED
    BY <2>1, <2>2
<1>4. CASE EndTable
  BY <1>4 DEF EndTable
<1>5. CASE NextBatch
  BY <1>5 DEF NextBatch
<1>6. CASE PauseGate
  BY <1>6 DEF PauseGate
<1>7. CASE Spawn
  <2>1. batch_start < ranges /\ Active = {}
    BY <1>7 DEF Spawn, BatchInv
  <2>2. Active' = batch_start .. BatchEnd' - 1 /\ Reached' = BatchEnd' /\ BatchEnd' = BatchEnd
    BY <1>7 DEF Spawn, Batch
  <2>3. Reached = batch_start
    BY <1>7, <2>1 DEF Spawn
  <2>4. read \union given_up = 0 .. batch_start - 1 /\ read \intersect given_up = {}
    BY <1>7, <2>1, <2>3 DEF Spawn
  <2> HIDE DEF Reached, BatchEnd, Active
  <2>5. batch_start \in Nat /\ BatchEnd \in Nat /\ batch_start < BatchEnd
    BY <2>1, BatchInterval
  <2>6. read' = read /\ given_up' = given_up
    BY <1>7 DEF Spawn
  <2> QED
    BY <2>2, <2>4, <2>5, <2>6
<1>8. CASE Join
  <2>1. batch_start < ranges /\ Active = {} /\ Active' = {}
    BY <1>8 DEF Join, BatchInv
  <2>2. Reached' = Reached
    BY <1>8, <2>1 DEF Join, TypeOK
  <2> QED
    BY <1>8, <2>1, <2>2 DEF Join
<1>9. ASSUME NEW r \in Active, RangeStep(r)
      PROVE  RangesOnce'
  <2>1. Reached' = Reached /\ driver' = driver
    BY <1>9 DEF RangeStep, RangeRead, PageRetry, FetchFailed, CountFailedRow, CountSkippedRange,
                HandleError
  <2>2. \/ Active' = Active \ {r} /\ read' = read \union {r} /\ given_up' = given_up
        \/ Active' = Active /\ UNCHANGED <<read, given_up>>
        \/ Active' = Active \ {r} /\ read' = read /\ given_up' = given_up \union {r}
    BY <1>9 DEF RangeStep, RangeRead, PageRetry, FetchFailed, CountFailedRow, CountSkippedRange,
                HandleError, MoveTo, Without
  <2> HIDE DEF Reached, Active
  <2> QED
    BY <1>9, <2>1, <2>2
<1>10. CASE Control
  BY <1>10 DEF Control, Pause, Resume, Stop, StopMigration
<1>11. CASE UNCHANGED vars
  BY <1>11 DEF vars
<1> QED
  BY <1>1, <1>2, <1>3, <1>4, <1>5, <1>6, <1>7, <1>8, <1>9, <1>10, <1>11
     DEF Next, DriverStep, LoopStep, WorkerStep

-----------------------------------------------------------------------------
(* Stop and pause *)

(* Only a batch that had passed its checks before the flag was set can begin
   after it: the loop's head and the gate let no other through. *)
LEMMA PromptStep ==
  ASSUME TypeOK, PromptInv, [Next]_vars
  PROVE  PromptInv'
<1> USE DEF PromptInv, ControlIsPrompt, flags, promptness
<1>1. CASE Start
  BY <1>1 DEF Start, StartMigration, MigrateSingleTable
<1>2. CASE SetRunning
  BY <1>2 DEF SetRunning
<1>3. CASE TablesDone \/ SkipTable \/ BeginTable \/ EndTable \/ Join
  BY <1>3 DEF TablesDone, SkipTable, BeginTable, EndTable, Join
<1>4. ASSUME NEW n \in RangeCounts, RangesCalculated(n)
      PROVE  PromptInv'
  BY <1>4 DEF RangesCalculated
<1>5. CASE NextBatch
  BY <1>5 DEF NextBatch, MoreBatches
<1>6. CASE PauseGate
  BY <1>6 DEF PauseGate
<1>7. CASE Spawn
  <2>1. CASE is_running
    BY <1>7, <2>1 DEF Spawn, TypeOK
  <2>2. CASE ~is_running
    BY <1>7, <2>2 DEF Spawn, TypeOK
  <2> QED
    BY <2>1, <2>2
<1>8. CASE Finish
  BY <1>8 DEF Finish
<1>9. ASSUME NEW r \in Active, RangeStep(r)
      PROVE  PromptInv'
  BY <1>9 DEF RangeStep, RangeRead, PageRetry, FetchFailed, CountFailedRow, CountSkippedRange, HandleError
<1>10. CASE Pause
  BY <1>10 DEF Pause
<1>11. CASE Resume
  BY <1>11 DEF Resume
<1>12. CASE Stop
  BY <1>12 DEF Stop
<1>13. CASE StopMigration
  BY <1>13 DEF StopMigration
<1>14. CASE UNCHANGED vars
  BY <1>14 DEF vars
<1> QED
  BY <1>1, <1>2, <1>3, <1>4, <1>5, <1>6, <1>7, <1>8, <1>9, <1>10, <1>11, <1>12, <1>13, <1>14
     DEF Next, DriverStep, LoopStep, WorkerStep, Control

-----------------------------------------------------------------------------
(* Counters *)

(* A thread keeps to its path: the setting does not change under it. *)
LEMMA PathStep ==
  ASSUME TypeOK, PathInv, [Next]_vars
  PROVE  PathInv'
<1>1. ASSUME NEW r \in Active, RangeStep(r), UNCHANGED pagination
      PROVE  PathInv'
  <2>1. worker[r] \in Worker
    BY DEF TypeOK
  <2>2. \A s \in Active' \ {r} : s \in Active /\ worker'[s] = worker[s]
    BY <1>1, WorkersTyped DEF TypeOK
  <2>3. r \in Active' => (worker'[r].at \in {"count_row", "count_range"} => ~pagination)
    BY <1>1, <2>1 DEF RangeStep, RangeRead, PageRetry, FetchFailed, CountFailedRow, CountSkippedRange,
                      HandleError, At, MoveTo, Without, Active, Worker, PathInv
  <2> QED
    BY <1>1, <2>2, <2>3 DEF PathInv
<1>2. CASE Spawn /\ UNCHANGED pagination
  BY <1>2 DEF Spawn, Fetching, Active, PathInv
<1>3. CASE UNCHANGED <<pagination, worker>>
  BY <1>3 DEF PathInv, Active
<1> QED
  BY <1>1, <1>2, <1>3 DEF Next, vars, Start, StartMigration, MigrateSingleTable, DriverStep, LoopStep,
     SetRunning, TablesDone, SkipTable, BeginTable, NextBatch, PauseGate, Join, Finish, EndTable,
     RangesCalculated, WorkerStep, Control, Pause, Resume, Stop, StopMigration

(* A failed range is half counted from the increment of process_range_sync to
   that of the thread's handler, and only then. *)
LEMMA HalfFinite ==
  ASSUME TypeOK
  PROVE  IsFiniteSet(HalfCounted) /\ Cardinality(HalfCounted) \in Nat
<1>1. ranges \in Nat /\ HalfCounted \subseteq 0..ranges - 1
  BY LoaderAssumption DEF TypeOK, HalfCounted
<1>2. IsFiniteSet(0..ranges - 1)
  BY <1>1, FS_Interval
<1> QED
  BY <1>1, <1>2, FS_Subset, FS_CardinalityType

(* No thread, nothing half counted. *)
LEMMA HalfEmpty ==
  ASSUME Active = {}
  PROVE  Cardinality(HalfCounted) = 0
<1>1. HalfCounted = {}
  BY DEF HalfCounted
<1> QED
  BY <1>1, FS_EmptySet

(* The counts of skipped ranges under a step of a thread. *)
LEMMA HalfStep ==
  ASSUME TypeOK, PathInv, NEW r \in Active, RangeStep(r), UNCHANGED pagination,
         skipped_ranges = (IF pagination THEN 1 ELSE 2) * broken + Cardinality(HalfCounted)
  PROVE  skipped_ranges' = (IF pagination' THEN 1 ELSE 2) * broken' + Cardinality(HalfCounted')
<1>0. IsFiniteSet(HalfCounted) /\ Cardinality(HalfCounted) \in Nat /\ skipped_ranges \in Nat /\ broken \in Nat
  BY HalfFinite DEF TypeOK
<1>1. worker[r] \in Worker
  BY DEF TypeOK
<1>2. \A s \in Active' \ {r} : s \in Active /\ worker'[s] = worker[s]
  BY WorkersTyped DEF TypeOK
<1>3. CASE RangeRead(r) \/ PageRetry(r) \/ FetchFailed(r) \/ CountFailedRow(r)
  <2>1. /\ skipped_ranges' = skipped_ranges /\ broken' = broken
        /\ worker[r].at \in {"fetch", "count_row"}
    BY <1>3 DEF RangeRead, PageRetry, FetchFailed, CountFailedRow, At, counters
  <2>2. r \in Active' => (~pagination => worker'[r].at # "thrown")
    BY <1>1, <1>3 DEF RangeRead, PageRetry, FetchFailed, CountFailedRow, At, MoveTo, Without, Active, Worker
  <2>3. Active \ {r} \subseteq Active'
    BY WorkersTyped DEF TypeOK
  <2>4. HalfCounted' = HalfCounted
    BY <1>2, <2>1, <2>2, <2>3 DEF HalfCounted
  <2> QED
    BY <2>1, <2>4
<1>4. CASE CountSkippedRange(r)
  <2>1. /\ skipped_ranges' = skipped_ranges + 1 /\ broken' = broken
        /\ worker[r].at = "count_range"
    BY <1>4 DEF CountSkippedRange, At
  <2>2. Active' = Active /\ worker'[r].at = "thrown"
    BY <1>1, <1>4 DEF CountSkippedRange, MoveTo, Active, Worker
  <2>3. ~pagination
    BY <2>1 DEF PathInv
  <2>4. HalfCounted' = HalfCounted \union {r} /\ r \notin HalfCounted
    BY <1>2, <2>1, <2>2, <2>3 DEF HalfCounted
  <2>5. Cardinality(HalfCounted') = Cardinality(HalfCounted) + 1
    BY <1>0, <2>4, FS_AddElement
  <2> QED
    BY <1>0, <2>1, <2>3, <2>5
<1>5. CASE HandleError(r)
  <2>1. /\ skipped_ranges' = skipped_ranges + 1 /\ broken' = broken + 1
        /\ worker[r].at = "thrown"
    BY <1>5 DEF HandleError, At
  <2>2. Active' = Active \ {r}
    BY <1>5 DEF HandleError, Without, Active
  <2>3. CASE pagination
    <3>1. HalfCounted' = HalfCounted
      BY <2>3 DEF HalfCounted
    <3> QED
      BY <1>0, <2>1, <2>3, <3>1
  <2>4. CASE ~pagination
    <3>1. HalfCounted' = HalfCounted \ {r} /\ r \in HalfCounted
      BY <1>2, <2>1, <2>2, <2>4 DEF HalfCounted
    <3>2. Cardinality(HalfCounted') = Cardinality(HalfCounted) - 1
      BY <1>0, <3>1, FS_RemoveElement
    <3> QED
      BY <1>0, <2>1, <2>4, <3>2
  <2> QED
    BY <2>3, <2>4
<1> QED
  BY <1>3, <1>4, <1>5 DEF RangeStep

(* A table moves from todo into migrate_table or the skipped ones, and from
   migrate_table into the completed ones. *)
LEMMA TotalsStep ==
  ASSUME TypeOK, BatchInv, PathInv, TotalsInv, [Next]_vars
  PROVE  TotalsInv'
<1> USE DEF TotalsInv, TableInHand, counters, place
<1>0. Cardinality(todo) \in Nat
  BY TablesLeft DEF TypeOK
<1>h. UNCHANGED <<pagination, worker>> => HalfCounted' = HalfCounted
  BY DEF HalfCounted, Active
<1>e. driver # "join" => Cardinality(HalfCounted) = 0
  BY HalfEmpty DEF BatchInv
<1>1. ASSUME NEW selected \in SUBSET Tables, StartMigration(selected), UNCHANGED pagination
      PROVE  TotalsInv'
  BY <1>1, <1>h, <1>e DEF StartMigration
<1>2. ASSUME NEW t \in Tables, MigrateSingleTable(t), UNCHANGED pagination
      PROVE  TotalsInv'
  BY <1>h, <1>2 DEF MigrateSingleTable
<1>3. CASE SetRunning /\ UNCHANGED pagination
  BY <1>0, <1>h, <1>3 DEF SetRunning
<1>4. CASE TablesDone /\ UNCHANGED pagination
  BY <1>h, <1>4 DEF TablesDone
<1>5. CASE SkipTable /\ UNCHANGED pagination
  <2>1. Cardinality(todo') = Cardinality(todo) - 1
    BY <1>5, TablesLeft DEF SkipTable, TypeOK
  <2> QED
    BY <1>0, <1>h, <1>5, <2>1 DEF SkipTable, TypeOK
<1>6. CASE BeginTable /\ UNCHANGED pagination
  <2>1. Cardinality(todo') = Cardinality(todo) - 1
    BY <1>6, TablesLeft DEF BeginTable, TypeOK
  <2> QED
    BY <1>0, <1>h, <1>6, <2>1 DEF BeginTable, TypeOK
<1>7. ASSUME NEW n \in RangeCounts, RangesCalculated(n), UNCHANGED pagination
      PROVE  TotalsInv'
  BY <1>h, <1>7 DEF RangesCalculated
<1>8. CASE EndTable /\ UNCHANGED pagination
  BY <1>0, <1>h, <1>8 DEF EndTable, TypeOK
<1>9. CASE NextBatch /\ UNCHANGED pagination
  BY <1>h, <1>9 DEF NextBatch
<1>10. CASE PauseGate /\ UNCHANGED pagination
  BY <1>h, <1>10 DEF PauseGate
<1>11. CASE Spawn /\ UNCHANGED pagination
  <2>1. Cardinality(HalfCounted') = 0
    <3>1. HalfCounted' = {}
      BY <1>11 DEF Spawn, Fetching, HalfCounted, Active
    <3> QED
      BY <3>1, FS_EmptySet
  <2> QED
    BY <1>e, <1>11, <2>1 DEF Spawn
<1>12. CASE Join /\ UNCHANGED pagination
  BY <1>h, <1>12 DEF Join
<1>13. CASE Finish /\ UNCHANGED pagination
  BY <1>h, <1>13 DEF Finish
<1>14. ASSUME NEW r \in Active, RangeStep(r), UNCHANGED pagination
       PROVE  TotalsInv'
  <2>1. UNCHANGED <<mode, driver, todo, tables_completed, tables_skipped, tables_total>>
    BY <1>14 DEF RangeStep, RangeRead, PageRetry, FetchFailed, CountFailedRow, CountSkippedRange,
                 HandleError
  <2> QED
    BY <1>14, <2>1, HalfStep
<1>15. CASE Control
  BY <1>h, <1>15 DEF Control, Pause, Resume, Stop, StopMigration
<1>16. CASE UNCHANGED vars
  BY <1>h, <1>16 DEF vars
<1> QED
  BY <1>1, <1>2, <1>3, <1>4, <1>5, <1>6, <1>7, <1>8, <1>9, <1>10, <1>11, <1>12, <1>13, <1>14,
     <1>15, <1>16 DEF Next, Start, DriverStep, LoopStep, WorkerStep

-----------------------------------------------------------------------------
(* The driver alone, whatever number of ranges it is given *)

(* The inductive invariant holds initially. *)
LEMMA LoaderInit == Init => IInv
<1>1. Init => TypeOK
  BY TypeInit
<1>2. Init => Active = {} /\ Cardinality(todo) = 0
  BY FS_EmptySet DEF Init, NoWorkers, Active
<1>3. Init => BatchInv /\ RangesOnce
  BY <1>2 DEF Init, BatchInv, RangesOnce
<1>4. Init => PromptInv
  BY DEF Init, PromptInv, ControlIsPrompt
<1>5. Init => TotalsInv
  BY <1>2, HalfEmpty DEF Init, TotalsInv, TableInHand
<1>6. Init => PathInv
  BY <1>2 DEF PathInv
<1> QED
  BY <1>1, <1>3, <1>4, <1>5, <1>6 DEF IInv

(* The invariant of the migration driver, for any numbers of ranges. *)
THEOREM LoaderInvariance == Spec => []IInv
<1>1. IInv /\ [Next]_vars => IInv'
  BY TypeStep, BatchStep, OnceStep, PromptStep, PathStep, TotalsStep DEF IInv
<1> QED
  BY LoaderInit, <1>1, PTL DEF Spec

-----------------------------------------------------------------------------
(* The calculator inside the driver: what is proved of TokenRange holds of it *)

CalculatorProofs == INSTANCE TokenRangeProofs WITH pc <- calc_pc, ranges <- token_ranges

(* The ring's assumption is the calculator's. *)
LEMMA CalculatorAssumption ==
  /\ MinToken \in Int /\ MaxToken \in Int /\ MinToken <= MaxToken
  /\ CoresPerNode \in Nat /\ RangesPerCore \subseteq Nat
  /\ \A r \in RangesPerCore : 3 * CoresPerNode * r <= CalculatorProofs!TokenSpace
  BY MigrationAssumption DEF CalculatorProofs!TokenSpace

(* Both instances of the calculator have the same invariant. *)
LEMMA SameInvariant == /\ Calculator!IInv <=> CalculatorProofs!IInv
                       /\ Calculator!IInv' <=> CalculatorProofs!IInv'
  BY DEF Calculator!IInv, Calculator!TypeOK, Calculator!SizeInv, Calculator!TilingInv,
         Calculator!TokenSpace, Calculator!Frontier, Calculator!Emitting, Calculator!Tokens,
         Calculator!InQuery, Calculator!Ranges,
         CalculatorProofs!IInv, CalculatorProofs!TypeOK, CalculatorProofs!SizeInv,
         CalculatorProofs!TilingInv, CalculatorProofs!TokenSpace, CalculatorProofs!Frontier,
         CalculatorProofs!Emitting, CalculatorProofs!Tokens, CalculatorProofs!InQuery,
         CalculatorProofs!Ranges

(* A fresh calculator satisfies its invariant. *)
LEMMA CalculatorInit == Calculator!Init => Calculator!IInv
<1>1. CalculatorProofs!Init => CalculatorProofs!IInv
  BY CalculatorProofs!InvInit, CalculatorAssumption
<1> QED
  BY <1>1, SameInvariant DEF Calculator!Init, CalculatorProofs!Init

(* The steps of calculate_ranges keep it. *)
LEMMA CalculatorStep ==
  ASSUME Calculator!IInv, VectorInv, Calculate
  PROVE  Calculator!IInv'
<1>0. CalculatorProofs!IInv
  BY SameInvariant
<1>1. ASSUME NEW num_nodes \in {1, 3}, Calculator!QueryPeers(num_nodes, ranges_per_core)
      PROVE  CalculatorProofs!IInv'
  <2>1. CalculatorProofs!QueryPeers(num_nodes, ranges_per_core)
    BY <1>1 DEF Calculator!QueryPeers, CalculatorProofs!QueryPeers
  <2>2. ranges_per_core \in RangesPerCore
    BY DEF VectorInv
  <2> QED
    BY <1>0, <2>1, <2>2, CalculatorProofs!InvQuery, CalculatorAssumption
<1>2. CASE Calculator!Divide
  <2>1. CalculatorProofs!Divide
    BY <1>2 DEF Calculator!Divide, CalculatorProofs!Divide, Calculator!TokenSpace,
                CalculatorProofs!TokenSpace
  <2>2. CalculatorProofs!IInv'
    BY <1>0, <2>1, CalculatorProofs!InvDivide, CalculatorAssumption
  <2> QED
    BY <2>2, SameInvariant
<1>3. CASE Calculator!EmplaceBack
  <2>1. CalculatorProofs!EmplaceBack
    BY <1>3 DEF Calculator!EmplaceBack, CalculatorProofs!EmplaceBack, Calculator!RangeAt,
                CalculatorProofs!RangeAt
  <2>2. CalculatorProofs!IInv'
    BY <1>0, <2>1, CalculatorProofs!InvEmplace, CalculatorAssumption
  <2> QED
    BY <2>2, SameInvariant
<1>4. CASE Calculator!Return
  <2>1. CalculatorProofs!Return
    BY <1>4 DEF Calculator!Return, CalculatorProofs!Return
  <2>2. CalculatorProofs!IInv'
    BY <1>0, <2>1, CalculatorProofs!InvRest, CalculatorAssumption
  <2> QED
    BY <2>2, SameInvariant
<1> QED
  BY <1>1, <1>2, <1>3, <1>4, SameInvariant DEF Calculate

(* A step that leaves the calculator alone keeps it too. *)
LEMMA CalculatorIdle ==
  ASSUME Calculator!IInv, UNCHANGED calc
  PROVE  Calculator!IInv'
<1>1. UNCHANGED CalculatorProofs!vars
  BY DEF calc, CalculatorProofs!vars
<1>2. CalculatorProofs!IInv'
  BY <1>1, SameInvariant, CalculatorProofs!InvRest, CalculatorAssumption
<1> QED
  BY <1>2, SameInvariant

(* The numbers of ranges that calculate_ranges comes to are those the driver
   is modelled with; none of them is 0, so that the division never traps. *)
LEMMA EstimateCounted ==
  ASSUME NEW num_nodes \in {1, 3}, NEW r \in RangesPerCore
  PROVE  num_nodes * CoresPerNode * r \in RangeCounts
  BY MigrationAssumption

(* A finished calculation has one range for each of the estimate. *)
LEMMA VectorCounted ==
  ASSUME Calculator!IInv, VectorInv, calc_pc = "done"
  PROVE  Len(token_ranges) = total_ranges /\ Len(token_ranges) \in RangeCounts
  BY DEF Calculator!IInv, Calculator!TilingInv, Calculator!Emitting, VectorInv

(* migrate_table fills the vector before the first batch, and drops it with
   the calculator when it returns. *)
LEMMA VectorStep ==
  ASSUME MigrationInv, [MigrationNext]_allVars
  PROVE  VectorInv'
<1> USE DEF MigrationInv, VectorInv, calc, place
<1>1. CASE LoopStep /\ UNCHANGED <<ranges_per_core, calc>>
  BY <1>1 DEF LoopStep, SetRunning, TablesDone, SkipTable, BeginTable, NextBatch, PauseGate, Spawn,
              Join, Finish
<1>2. CASE Calculate
  <2>1. ASSUME NEW num_nodes \in {1, 3}, Calculator!QueryPeers(num_nodes, ranges_per_core)
        PROVE  VectorInv'
    BY <1>2, <2>1, EstimateCounted DEF Calculate, Calculator!QueryPeers, vars
  <2>2. CASE Calculator!Divide \/ Calculator!EmplaceBack \/ Calculator!Return
    BY <1>2, <2>2 DEF Calculate, Calculator!Divide, Calculator!EmplaceBack, Calculator!Return, vars
  <2> QED
    BY <1>2, <2>1, <2>2 DEF Calculate
<1>3. CASE TakeRanges
  BY <1>3 DEF TakeRanges, RangesCalculated
<1>4. CASE LeaveTable
  BY <1>4 DEF LeaveTable, EndTable
<1>5. CASE RangeThreads
  BY <1>5 DEF RangeThreads, WorkerStep, RangeStep, RangeRead, PageRetry, FetchFailed, CountFailedRow,
              CountSkippedRange, HandleError
<1>6. CASE Start /\ UNCHANGED <<ranges_per_core, calc>>
  BY <1>6 DEF Start, StartMigration, MigrateSingleTable
<1>7. CASE Control /\ UNCHANGED <<ranges_per_core, calc>>
  BY <1>7 DEF Control, Pause, Resume, Stop, StopMigration
<1>8. CASE UNCHANGED allVars
  BY <1>8 DEF allVars, vars
<1> QED
  BY <1>1, <1>2, <1>3, <1>4, <1>5, <1>6, <1>7, <1>8 DEF MigrationNext, MigrationStep

(* Driver and calculator stay in step in every migration. *)
THEOREM VectorHeld == MigrationSpec => []MigrationInv
<1>1. MigrationInit => MigrationInv
  <2>1. MigrationInit => Calculator!IInv
    BY CalculatorInit DEF MigrationInit
  <2>2. MigrationInit => VectorInv
    BY DEF MigrationInit, Init, Calculator!Init, VectorInv
  <2> QED
    BY <2>1, <2>2 DEF MigrationInv
<1>2. ASSUME MigrationInv, [MigrationNext]_allVars
      PROVE  MigrationInv'
  <2>1. CASE Calculate
    BY <1>2, <2>1, CalculatorStep, VectorStep DEF MigrationInv
  <2>2. CASE LeaveTable
    <3>1. Calculator!Init'
      BY <2>2 DEF LeaveTable, Calculator!Init
    <3>2. Calculator!IInv'
      BY <3>1, MigrationAssumption
         DEF Calculator!Init, Calculator!IInv, Calculator!TypeOK, Calculator!SizeInv,
             Calculator!TilingInv, Calculator!Emitting, Calculator!Ranges, Calculator!TokenSpace
    <3> QED
      BY <1>2, <3>2, VectorStep DEF MigrationInv
  <2>3. CASE UNCHANGED calc
    BY <1>2, <2>3, CalculatorIdle, VectorStep DEF MigrationInv
  <2> QED
    BY <1>2, <2>1, <2>2, <2>3
       DEF MigrationNext, MigrationStep, TakeRanges, RangeThreads, allVars
<1> QED
  BY <1>1, <1>2, PTL DEF MigrationSpec

(* The whole loader implements the driver: what calculate_ranges returns is
   one of the numbers of ranges that the driver alone is given. *)
THEOREM MigrationImplementsDriver == MigrationSpec => Spec
<1>1. MigrationInit => Init
  BY DEF MigrationInit
<1>2. ASSUME MigrationInv, [MigrationNext]_allVars
      PROVE  [Next]_vars
  <2>1. CASE TakeRanges
    <3>1. Len(token_ranges) \in RangeCounts
      BY <1>2, <2>1, VectorCounted DEF TakeRanges, MigrationInv
    <3> QED
      BY <2>1, <3>1 DEF TakeRanges, Next, DriverStep
  <2>2. CASE LoopStep /\ UNCHANGED <<pagination, ranges_per_core, calc>>
    BY <2>2 DEF Next, DriverStep
  <2>3. CASE LeaveTable
    BY <2>3 DEF LeaveTable, Next, DriverStep
  <2> QED
    BY <1>2, <2>1, <2>2, <2>3 DEF MigrationNext, MigrationStep, Calculate, RangeThreads, Next, allVars
<1> QED
  BY VectorHeld, <1>1, <1>2, PTL DEF MigrationSpec, Spec

(* The driver's invariant holds in the whole loader. *)
LEMMA DriverHeld == MigrationSpec => []IInv
  BY MigrationImplementsDriver, LoaderInvariance, PTL

-----------------------------------------------------------------------------
(* The properties *)

(* The variables keep their types; every range in hand is one of the table's. *)
THEOREM TypeCorrect == MigrationSpec => []TypeOK
<1>1. IInv => TypeOK
  BY DEF IInv
<1> QED
  BY DriverHeld, <1>1, PTL

(* No batch overlaps the next, the next table or the end of the migration, and
   no more threads than max_concurrent_loaders read at a time. *)
THEOREM BatchesJoined == MigrationSpec => []BatchesDoNotOverlap
<1>1. IInv => BatchesDoNotOverlap
  <2> SUFFICES ASSUME IInv
               PROVE  Cardinality(Active) <= MaxConcurrent
    BY DEF IInv, BatchInv, BatchesDoNotOverlap
  <2>1. CASE Active = {}
    BY <2>1, FS_EmptySet, LoaderAssumption
  <2>2. CASE Active # {}
    <3>1. Active \subseteq Batch /\ batch_start < ranges
      BY <2>2 DEF IInv, BatchInv
    <3>2. /\ batch_start \in Nat /\ BatchEnd \in Nat /\ batch_start < BatchEnd
          /\ BatchEnd <= batch_start + MaxConcurrent
          /\ Batch = batch_start .. BatchEnd - 1
      BY <3>1, BatchInterval DEF IInv
    <3>3. IsFiniteSet(Batch) /\ Cardinality(Batch) = BatchEnd - batch_start
      BY <3>2, FS_Interval
    <3>4. Cardinality(Active) <= Cardinality(Batch) /\ Cardinality(Active) \in Nat
      BY <3>1, <3>3, FS_Subset, FS_CardinalityType
    <3> QED
      BY <3>2, <3>3, <3>4, LoaderAssumption
  <2> QED
    BY <2>1, <2>2
<1> QED
  BY DriverHeld, <1>1, PTL

(* Each range of a table is handled once, in batch order, and all of them when
   the batches are through. *)
THEOREM HandledOnce == MigrationSpec => []RangesOnce
<1>1. IInv => RangesOnce
  BY DEF IInv
<1> QED
  BY DriverHeld, <1>1, PTL

(* After a stop or a pause at most the batch begins that had passed the check. *)
THEOREM Prompt == MigrationSpec => []ControlIsPrompt
<1>1. IInv => ControlIsPrompt
  BY DEF IInv, PromptInv
<1> QED
  BY DriverHeld, <1>1, PTL

(* Between any two increments: the table counters never exceed the selection,
   and skipped_ranges has one for each failed range of the paginated path, two
   for one of the default path, and one while its thread is between them. *)
THEOREM Totals == MigrationSpec => []StatsAddUp
<1>1. IInv => StatsAddUp
  <2> SUFFICES ASSUME IInv
               PROVE  StatsAddUp
    OBVIOUS
  <2>1. Cardinality(todo) \in Nat
    BY TablesLeft DEF IInv, TypeOK
  <2> QED
    BY <2>1 DEF IInv, TypeOK, TotalsInv, TableInHand, StatsAddUp
<1> QED
  BY DriverHeld, <1>1, PTL

(* A set whose elements are all equal has at most one. *)
LEMMA AtMostOne ==
  ASSUME NEW S, \A x, y \in S : x = y
  PROVE  Cardinality(S) <= 1
<1>1. CASE S = {}
  BY <1>1, FS_EmptySet
<1>2. CASE S # {}
  <2>1. PICK x : S = {x}
    BY <1>2
  <2> QED
    BY <2>1, FS_Singleton
<1> QED
  BY <1>1, <1>2

(* Division, batches, retries and stops together: the rows of every token of
   the ring are asked for at most once per table, and once when all batches are
   joined. *)
THEOREM TokensOnce == MigrationSpec => []EveryTokenOnce
<1>1. IInv /\ MigrationInv => EveryTokenOnce
  <2> SUFFICES ASSUME IInv, MigrationInv, driver \in {"batch", "gate", "spawn", "join"},
                      NEW t \in Calculator!Tokens
               PROVE  /\ Cardinality(Selecting(t)) <= 1
                      /\ driver = "batch" /\ batch_start >= ranges => Selecting(t) # {}
    BY DEF EveryTokenOnce
  <2>1. /\ calc_pc = "done" /\ ranges = Len(token_ranges)
        /\ token_ranges \in Seq(Calculator!Ranges) /\ Calculator!TilingInv /\ Calculator!Emitting
    BY DEF MigrationInv, VectorInv, Calculator!IInv, Calculator!TypeOK, Calculator!Emitting
  <2>2. t \in Int /\ t < MaxToken + 1 /\ ranges \in Nat
    BY <2>1, MigrationAssumption DEF Calculator!Tokens
  <2>3. ASSUME NEW r \in read \union given_up \union Active
        PROVE  r \in 0 .. ranges - 1
    BY <2>3 DEF IInv, TypeOK
  <2>4. Cardinality(Selecting(t)) <= 1
    <3>1. ASSUME NEW r \in Selecting(t), NEW s \in Selecting(t), r < s
          PROVE  FALSE
      <4>1. /\ r + 1 \in 1 .. Len(token_ranges) /\ s + 1 \in 1 .. Len(token_ranges)
            /\ r + 1 < s + 1
        BY <2>1, <2>2, <2>3, <3>1 DEF Selecting
      <4>2. token_ranges[r + 1] \in Calculator!Ranges /\ token_ranges[s + 1] \in Calculator!Ranges
        BY <2>1, <4>1
      <4>3. token_ranges[r + 1].end < token_ranges[s + 1].start
        BY <2>1, <4>1 DEF Calculator!TilingInv
      <4> QED
        BY <2>2, <4>2, <4>3 DEF Selecting, Calculator!InQuery, Calculator!Ranges
    <3>2. \A r \in Selecting(t) : r \in Int
      BY <2>2, <2>3 DEF Selecting
    <3>3. \A r, s \in Selecting(t) : r = s
      BY <3>1, <3>2
    <3> QED
      BY <3>3, AtMostOne
  <2>5. ASSUME driver = "batch", batch_start >= ranges
        PROVE  Selecting(t) # {}
    <3>1. read \union given_up \union Active = 0 .. ranges - 1
      BY <2>2, <2>5 DEF IInv, TypeOK, RangesOnce, Reached
    <3>2. Calculator!Frontier = MaxToken + 1
      BY <2>1 DEF Calculator!TilingInv, Calculator!Frontier
    <3>3. PICK k \in 1 .. Len(token_ranges) : Calculator!InQuery(t, token_ranges[k])
      BY <2>1, <2>2, <3>2 DEF Calculator!TilingInv
    <3>4. k - 1 \in 0 .. ranges - 1 /\ (k - 1) + 1 = k
      BY <2>1, <2>2
    <3> QED
      BY <3>1, <3>3, <3>4 DEF Selecting
  <2> QED
    BY <2>4, <2>5
<1> QED
  BY DriverHeld, VectorHeld, <1>1, PTL
=============================================================================
