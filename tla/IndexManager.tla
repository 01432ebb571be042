---------------------------- MODULE IndexManager ----------------------------
(***************************************************************************)
(* IndexManager of services/sstable-loader with its two strategies: drop   *)
(* the secondary indexes before a load, rebuild them after it, verify      *)
(* them.  StandardIndexStrategy executes one statement at a time,          *)
(* ParallelIndexStrategy a batch of threads at a time.  Nothing in the     *)
(* loader calls the manager yet; a call is any public operation, one at a  *)
(* time.                                                                   *)
(***************************************************************************)
EXTENDS Integers, Sequences, SequencesExt, FiniteSets

CONSTANTS
  Indexes,         \* indexes_, in order
  KeyspaceOf,      \* keyspace of an index
  MaxParallelism,  \* largest parallelism given to create_index_manager
  MaxCalls         \* bound on the calls

AllIndexes == Range(Indexes)
Keyspaces == {KeyspaceOf[i] : i \in AllIndexes}

(* drop_all, rebuild_all and verify_all take every index, drop_keyspace and
   rebuild_keyspace those of one keyspace. *)
Selected(keyspaces) == SelectSeq(Indexes, LAMBDA i : KeyspaceOf[i] \in keyspaces)
Selections == {{ks} : ks \in Keyspaces} \union {Keyspaces}

(* What is selected from a sequence is a sequence of its members. *)
ASSUME IndexAssumption ==
  /\ IsInjective(Indexes) /\ DOMAIN KeyspaceOf = AllIndexes
  /\ \A keyspaces \in Selections : Selected(keyspaces) \in Seq(AllIndexes)
  /\ MaxParallelism \in Nat \ {0} /\ MaxCalls \in Nat

VARIABLES
  parallelism,   \* 1: StandardIndexStrategy, more: ParallelIndexStrategy
  exists,        \* the target cluster: indexes that exist
  op,            \* the operation in progress, "none" between calls
  list,          \* its indexes
  start,         \* position of the batch
  threads,       \* indexes whose statement is being executed
  dropped,       \* result of drop_indexes
  failures,      \* failures of the call
  returned,      \* the last call's operation, and whether it failed
  calls          \* calls made

vars == <<parallelism, exists, op, list, start, threads, dropped, failures, returned, calls>>

Operations == {"drop", "rebuild", "verify"}

Init ==
  /\ parallelism \in 1..MaxParallelism
  /\ exists \in SUBSET AllIndexes
  /\ op = "none" /\ list = << >> /\ start = 0 /\ threads = {}
  /\ dropped = {} /\ failures = {}
  /\ returned = [op |-> "none", outcome |-> "done"]
  /\ calls = 0

-----------------------------------------------------------------------------
Call(o, keyspaces) ==
  /\ op = "none" /\ calls < MaxCalls
  /\ o = "verify" => keyspaces = Keyspaces
  /\ calls' = calls + 1
  /\ op' = o /\ list' = Selected(keyspaces) /\ start' = 0
  /\ dropped' = {} /\ failures' = {}
  /\ UNCHANGED <<parallelism, exists, threads, returned>>

-----------------------------------------------------------------------------
(* Verification is sequential in both strategies. *)
Width == IF op = "verify" THEN 1 ELSE parallelism

(* The sequential loops end at the first failure, except that of the drop. *)
Aborted == failures # {} /\ (op = "verify" \/ (op = "rebuild" /\ parallelism = 1))

(* Mutant of Batch: the short last batch loses its last index. *)
BatchOffByOne == SubSeq(list, start + 1, IF start + Width < Len(list) THEN start + Width
                                         ELSE Len(list) - 1)

Batch == SubSeq(list, start + 1, IF start + Width < Len(list) THEN start + Width ELSE Len(list))

StartBatch ==
  /\ op # "none" /\ threads = {} /\ start < Len(list) /\ ~Aborted
  /\ threads' = Range(Batch)
  /\ start' = start + Width
  /\ UNCHANGED <<parallelism, exists, op, list, dropped, failures, returned, calls>>

(* The statement of one index: DROP INDEX IF EXISTS, CREATE INDEX IF NOT
   EXISTS, or the query of system_schema.indexes. *)
Effect(i) == IF op = "drop" THEN exists \ {i}
             ELSE IF op = "rebuild" THEN exists \union {i} ELSE exists

(* execute() returns: the query does so whether it finds a row or not.  A drop
   pushes the bare index_name, taken to be unique across the keyspaces. *)
Executed(i) ==
  /\ i \in threads
  /\ exists' = Effect(i)
  /\ dropped' = IF op = "drop" THEN dropped \union {i} ELSE dropped
  /\ threads' = threads \ {i}
  /\ UNCHANGED <<parallelism, op, list, start, failures, returned, calls>>

(* Mutant of Failed: the name is pushed before the outcome is known. *)
FailedPushed(i) ==
  /\ i \in threads
  /\ exists' \in {exists, Effect(i)}
  /\ dropped' = IF op = "drop" THEN dropped \union {i} ELSE dropped
  /\ failures' = IF op = "drop" THEN failures ELSE failures \union {i}
  /\ threads' = threads \ {i}
  /\ UNCHANGED <<parallelism, op, list, start, returned, calls>>

(* It throws: after a timeout the statement may have been applied.  A drop
   only logs this. *)
Failed(i) ==
  /\ i \in threads
  /\ exists' \in {exists, Effect(i)}
  /\ failures' = IF op = "drop" THEN failures ELSE failures \union {i}
  /\ threads' = threads \ {i}
  /\ UNCHANGED <<parallelism, op, list, start, dropped, returned, calls>>

Outcome == IF failures = {} THEN "done" ELSE "failed"

(* Mutant of Return: the loop over the batches ends only exactly at the end of
   the list, which a short last batch steps over. *)
ReturnAtExactEnd ==
  /\ op # "none" /\ threads = {} /\ (start = Len(list) \/ Aborted)
  /\ returned' = [op |-> op, outcome |-> Outcome]
  /\ op' = "none"
  /\ UNCHANGED <<parallelism, exists, list, start, threads, dropped, failures, calls>>

(* The call returns or throws once the last batch was joined. *)
Return ==
  /\ op # "none" /\ threads = {} /\ (start >= Len(list) \/ Aborted)
  /\ returned' = [op |-> op, outcome |-> Outcome]
  /\ op' = "none"
  /\ UNCHANGED <<parallelism, exists, list, start, threads, dropped, failures, calls>>

-----------------------------------------------------------------------------
Step == StartBatch \/ (\E i \in threads : Executed(i) \/ Failed(i)) \/ Return

Next == \/ \E o \in Operations, keyspaces \in Selections : Call(o, keyspaces)
        \/ Step

Spec == Init /\ [][Next]_vars

(* Statements end in the driver's request timeout at the latest. *)
FairSpec == Spec /\ WF_vars(Step)

-----------------------------------------------------------------------------
TypeOK ==
  /\ parallelism \in 1..MaxParallelism
  /\ exists \subseteq AllIndexes /\ threads \subseteq AllIndexes
  /\ dropped \subseteq AllIndexes /\ failures \subseteq AllIndexes
  /\ op \in Operations \union {"none"} /\ list \in Seq(AllIndexes) /\ start \in Nat
  /\ returned \in [op : Operations \union {"none"}, outcome : {"done", "failed"}]

Idle(o) == op = "none" /\ returned.op = o

(* rebuild_indexes: a call that returns has rebuilt every index of its list,
   the short last batch included; one of the parallel strategy that throws has
   tried them all, and only the failures it counts may be missing. *)
RebuildAccounted ==
  Idle("rebuild") =>
    /\ returned.outcome = "done" => Range(list) \subseteq exists
    /\ parallelism > 1 => Range(list) \ exists \subseteq failures

(* drop_indexes: no index it reports as dropped exists, whichever statements of
   a batch failed and in whichever order its threads ended. *)
DropListTruthful == Idle("drop") => dropped \intersect exists = {}

(* rebuild_indexes, drop_indexes, verify_indexes: every call returns or throws,
   with a short last batch too, whichever of its statements fail. *)
CallReturns == op # "none" ~> op = "none"

-----------------------------------------------------------------------------
(* Inductive invariant.  The indexes whose statement was begun are those up to
   the batch's end; each that is not being executed has its outcome. *)
Begun == {list[i] : i \in {j \in 1 .. Len(list) : j <= start}}

BatchInv ==
  /\ op = "none" => threads = {}
  /\ threads \subseteq Begun
  /\ op = "rebuild" => Begun \ threads \subseteq exists \union failures
  /\ op = "drop" => dropped \intersect exists = {}

IInv == TypeOK /\ BatchInv /\ RebuildAccounted /\ DropListTruthful
=============================================================================
