------------------------------ MODULE Migration ------------------------------
(***************************************************************************)
(* The sstable-loader as a whole: the migration driver of SSTableLoader    *)
(* with the ranges that TokenRangeCalculator cuts the ring into.  For each *)
(* table migrate_table makes a calculator, lets it fill a vector, hands    *)
(* the vector's elements to the threads by their position and drops it     *)
(* when it returns; the threads look at the vector of the driver.          *)
(***************************************************************************)
EXTENDS SSTableLoader, Sequences

CONSTANTS
  MinToken, MaxToken, CoresPerNode,   \* as in TokenRange
  RangesPerCore                       \* config_.loader.num_ranges_per_core

(* As in TokenRange, where a configured 0 traps; RangeCounts are the numbers of
   ranges that the calculation can come to. *)
ASSUME MigrationAssumption ==
  /\ MinToken \in Int /\ MaxToken \in Int /\ MinToken <= MaxToken
  /\ CoresPerNode \in Nat \ {0} /\ RangesPerCore \subseteq Nat \ {0}
  /\ \A r \in RangesPerCore :
       /\ 3 * CoresPerNode * r <= MaxToken - MinToken + 1
       /\ \A num_nodes \in {1, 3} : num_nodes * CoresPerNode * r \in RangeCounts

VARIABLES
  ranges_per_core,                                   \* the configured value
  calc_pc, total_ranges, range_size, token_ranges    \* the calculator

calc == <<calc_pc, total_ranges, range_size, token_ranges>>
allVars == <<vars, ranges_per_core, calc>>

Calculator == INSTANCE TokenRange WITH pc <- calc_pc, ranges <- token_ranges

MigrationInit == Init /\ Calculator!Init /\ ranges_per_core \in RangesPerCore

(* calculate_ranges runs on the driver's thread. *)
Calculate ==
  /\ driver = "calculate"
  /\ \/ \E num_nodes \in {1, 3} : Calculator!QueryPeers(num_nodes, ranges_per_core)
     \/ Calculator!Divide \/ Calculator!EmplaceBack \/ Calculator!Return
  /\ UNCHANGED <<vars, ranges_per_core>>

(* The vector it returned is what the batches are made of. *)
TakeRanges ==
  /\ calc_pc = "done"
  /\ RangesCalculated(Len(token_ranges))
  /\ UNCHANGED <<pagination, ranges_per_core, calc>>

(* Mutant of LeaveTable: the vector outlives the table. *)
LeaveTableKeepsVector ==
  /\ EndTable
  /\ calc_pc' = "query" /\ total_ranges' = 0 /\ range_size' = 0
  /\ UNCHANGED <<pagination, ranges_per_core, token_ranges>>

(* The end of migrate_table destroys calculator and vector. *)
LeaveTable ==
  /\ EndTable
  /\ calc_pc' = "query" /\ total_ranges' = 0 /\ range_size' = 0 /\ token_ranges' = << >>
  /\ UNCHANGED <<pagination, ranges_per_core>>

MigrationStep ==
  \/ LoopStep /\ UNCHANGED <<pagination, ranges_per_core, calc>>
  \/ Calculate \/ TakeRanges \/ LeaveTable

RangeThreads == WorkerStep /\ UNCHANGED <<ranges_per_core, calc>>

MigrationNext ==
  \/ MigrationStep \/ RangeThreads
  \/ (Start \/ Control) /\ UNCHANGED <<ranges_per_core, calc>>

(* As in SSTableLoader: the driver and the range threads run. *)
MigrationSpec == /\ MigrationInit /\ [][MigrationNext]_allVars
                 /\ WF_allVars(MigrationStep) /\ WF_allVars(RangeThreads)

-----------------------------------------------------------------------------
(* The ranges whose query selects a token, among those handed to a thread. *)
Selecting(t) ==
  {r \in read \union given_up \union Active : Calculator!InQuery(t, token_ranges[r + 1])}

(* The rows of every token of the ring are asked for once per table, through
   division, batches, retries and stops: no two threads get the same token,
   and when all batches of a table are joined none was left out. *)
EveryTokenOnce ==
  driver \in {"batch", "gate", "spawn", "join"} =>
    \A t \in Calculator!Tokens :
      /\ Cardinality(Selecting(t)) <= 1
      /\ driver = "batch" /\ batch_start >= ranges => Selecting(t) # {}

-----------------------------------------------------------------------------
(* Inductive invariant: the driver holds a finished vector while it makes
   batches of it, and an empty one outside migrate_table. *)
VectorInv ==
  /\ ranges_per_core \in RangesPerCore
  /\ calc_pc # "trapped"
  /\ calc_pc # "query" => total_ranges \in RangeCounts
  /\ driver \in {"batch", "gate", "spawn", "join"} => calc_pc = "done" /\ ranges = Len(token_ranges)
  /\ driver \in {"idle", "starting", "tables", "finishing"} => calc_pc = "query"

MigrationInv == Calculator!IInv /\ VectorInv
=============================================================================
