------------------------------ MODULE TokenRange ------------------------------
(***************************************************************************)
(* TokenRangeCalculator::calculate_ranges of services/sstable-loader: how  *)
(* the token ring is cut into the ranges that the loader's threads read,   *)
(* each with a query token >= start AND token <= end (build_range_query).  *)
(*                                                                         *)
(* The code computes in 128 bits over the 64-bit ring; the assumption that *)
(* there are no more ranges than tokens holds there for every 32-bit       *)
(* num_ranges_per_core, and no intermediate value overflows.               *)
(***************************************************************************)
EXTENDS Integers, Sequences

CONSTANTS
  MinToken, MaxToken,   \* limits of int64_t
  CoresPerNode,         \* estimated_cores_per_node, 8
  RangesPerCore         \* values of config_.loader.num_ranges_per_core

TokenSpace == MaxToken - MinToken + 1

ASSUME RingAssumption ==
  /\ MinToken \in Int /\ MaxToken \in Int /\ MinToken <= MaxToken
  /\ CoresPerNode \in Nat
  /\ RangesPerCore \subseteq Nat
  /\ \A r \in RangesPerCore : 3 * CoresPerNode * r <= TokenSpace

VARIABLES
  pc,             \* "query", "divide", "loop", "done" or "trapped"
  total_ranges,
  range_size,
  ranges          \* the vector, i is its length

vars == <<pc, total_ranges, range_size, ranges>>

Init == pc = "query" /\ total_ranges = 0 /\ range_size = 0 /\ ranges = <<>>

(* The query of system.peers: three nodes are assumed when it succeeds and
   one when it fails. *)
QueryPeers(num_nodes, ranges_per_core) ==
  /\ pc = "query"
  /\ total_ranges' = num_nodes * CoresPerNode * ranges_per_core
  /\ pc' = "divide"
  /\ UNCHANGED <<range_size, ranges>>

(* Integer division traps when num_ranges_per_core is configured as 0. *)
DivideByZero ==
  /\ pc = "divide" /\ total_ranges = 0
  /\ pc' = "trapped"
  /\ UNCHANGED <<total_ranges, range_size, ranges>>

Divide ==
  /\ pc = "divide" /\ total_ranges # 0
  /\ range_size' = TokenSpace \div total_ranges
  /\ pc' = "loop"
  /\ UNCHANGED <<total_ranges, ranges>>

(* Mutants of RangeAt: the end is the next start, or the remainder of the
   division is left out. *)
RangeAtHalfOpen(i) ==
  LET start == MinToken + i * range_size
  IN  [start |-> start,
       end   |-> IF i = total_ranges - 1 THEN MaxToken ELSE start + range_size]

RangeAtWithoutRemainder(i) ==
  LET start == MinToken + i * range_size
  IN  [start |-> start, end |-> start + range_size - 1]

RangeAt(i) ==
  LET start == MinToken + i * range_size
  IN  [start |-> start,
       end   |-> IF i = total_ranges - 1 THEN MaxToken ELSE start + range_size - 1]

(* Mutant of EmplaceBack: one iteration too many. *)
EmplaceBackOneMore ==
  /\ pc = "loop" /\ Len(ranges) <= total_ranges
  /\ ranges' = Append(ranges, RangeAt(Len(ranges)))
  /\ UNCHANGED <<pc, total_ranges, range_size>>

EmplaceBack ==
  /\ pc = "loop" /\ Len(ranges) < total_ranges
  /\ ranges' = Append(ranges, RangeAt(Len(ranges)))
  /\ UNCHANGED <<pc, total_ranges, range_size>>

Return ==
  /\ pc = "loop" /\ Len(ranges) = total_ranges
  /\ pc' = "done"
  /\ UNCHANGED <<total_ranges, range_size, ranges>>

Next == \/ \E n \in {1, 3}, r \in RangesPerCore : QueryPeers(n, r)
        \/ DivideByZero \/ Divide \/ EmplaceBack \/ Return

Spec == Init /\ [][Next]_vars

-----------------------------------------------------------------------------
(* build_range_query *)
InQuery(t, range) == range.start <= t /\ t <= range.end

Tokens == MinToken .. MaxToken
Ranges == [start : Int, end : Int]

TypeOK ==
  /\ pc \in {"query", "divide", "loop", "done", "trapped"}
  /\ total_ranges \in Nat /\ range_size \in Nat
  /\ ranges \in Seq(Ranges)

(* No row is read by two of the threads: a token is selected by at most one
   of the ranges generated so far, whatever the remainder of the division. *)
NoOverlap ==
  \A j, k \in 1..Len(ranges) :
    j < k => \A t \in Tokens : ~(InQuery(t, ranges[j]) /\ InQuery(t, ranges[k]))

(* No row is missed: when calculate_ranges returns, every token of the ring is
   selected by one of its ranges, the smallest and the largest included. *)
FullCoverage ==
  pc = "done" => \A t \in Tokens : \E k \in 1..Len(ranges) : InQuery(t, ranges[k])

(* No thread is given an empty range, nor one that leaves the ring: the
   conversion back to int64_t is exact. *)
RangesInRing ==
  \A k \in 1..Len(ranges) :
    /\ ranges[k].start \in Tokens /\ ranges[k].end \in Tokens
    /\ ranges[k].start <= ranges[k].end

-----------------------------------------------------------------------------
(* Inductive invariant: the ranges emitted tile the ring up to Frontier. *)
Frontier == IF Len(ranges) = total_ranges THEN MaxToken + 1
            ELSE MinToken + Len(ranges) * range_size

Emitting == pc \in {"loop", "done"}

SizeInv ==
  /\ Emitting => total_ranges > 0 /\ range_size > 0 /\ total_ranges * range_size <= TokenSpace
  /\ ~Emitting => ranges = <<>>
  /\ pc \in {"query", "divide"} => total_ranges <= TokenSpace

TilingInv ==
  Emitting =>
    /\ Len(ranges) <= total_ranges
    /\ \A k \in 1..Len(ranges) :
         /\ MinToken <= ranges[k].start /\ ranges[k].start <= ranges[k].end
         /\ ranges[k].end < Frontier /\ ranges[k].end <= MaxToken
    /\ \A j, k \in 1..Len(ranges) : j < k => ranges[j].end < ranges[k].start
    /\ \A t \in Tokens : t < Frontier => \E k \in 1..Len(ranges) : InQuery(t, ranges[k])
    /\ pc = "done" => Len(ranges) = total_ranges

IInv == TypeOK /\ SizeInv /\ TilingInv
=============================================================================
