--------------------------- MODULE TokenRangeProofs ---------------------------
(***************************************************************************)
(* For every ring, every estimate of cores and every number of ranges per  *)
(* core: the ranges of calculate_ranges tile the ring.                     *)
(***************************************************************************)
EXTENDS TokenRange, TLAPS

(* Integer division rounds down: d parts of size n \div d fit into n, and no
   part is empty when there are at most n of them. *)
LEMMA DivisionFits ==
  ASSUME NEW n \in Nat, NEW d \in Nat, d > 0, d <= n
  PROVE  /\ n \div d \in Nat
         /\ n \div d > 0
         /\ d * (n \div d) <= n
  OBVIOUS

(* i * range_size grows with i, so a range's start is bounded by the next's. *)
LEMMA ProductMonotone ==
  ASSUME NEW a \in Nat, NEW b \in Nat, NEW s \in Nat, a <= b
  PROVE  a * s \in Nat /\ b * s \in Nat /\ a * s <= b * s
  OBVIOUS

(* The first range starts at MinToken. *)
LEMMA FirstOffset == \A s \in Nat : 0 * s = 0
  OBVIOUS

(* The topology estimate: at most three nodes, so at most TokenSpace ranges. *)
LEMMA EstimateFits ==
  ASSUME NEW n \in {1, 3}, NEW r \in RangesPerCore
  PROVE  n * CoresPerNode * r \in Nat /\ n * CoresPerNode * r <= TokenSpace
<1> USE RingAssumption
<1>1. r \in Nat /\ CoresPerNode \in Nat /\ TokenSpace \in Nat
  BY DEF TokenSpace
<1>2. DEFINE c == CoresPerNode * r
<1>3. c \in Nat
  BY <1>1
<1>4. n * CoresPerNode * r = n * c /\ 3 * CoresPerNode * r = 3 * c
  BY <1>1
<1>5. 3 * c <= TokenSpace
  BY <1>4
<1> QED
  BY <1>1, <1>3, <1>4, <1>5

(* The i-th range starts where the ranges before it end and stays in the
   ring; it ends at the last token exactly when it is the last one. *)
LEMMA RangeAtFits ==
  ASSUME TypeOK, SizeInv, Emitting, NEW i \in Nat, i < total_ranges
  PROVE  /\ RangeAt(i) \in Ranges
         /\ RangeAt(i).start = MinToken + i * range_size
         /\ i * range_size \in Nat
         /\ MinToken + i * range_size + range_size <= MaxToken + 1
         /\ (i + 1) * range_size = i * range_size + range_size
         /\ i + 1 = total_ranges => RangeAt(i).end = MaxToken
         /\ i + 1 # total_ranges => RangeAt(i).end = MinToken + i * range_size + range_size - 1
<1> USE RingAssumption
<1>1. /\ total_ranges \in Nat /\ range_size \in Nat
      /\ total_ranges * range_size <= MaxToken - MinToken + 1
  BY DEF TypeOK, SizeInv, TokenSpace
<1>2. (i + 1) * range_size <= total_ranges * range_size
  BY <1>1, ProductMonotone
<1>3. (i + 1) * range_size = i * range_size + range_size /\ i * range_size \in Nat
  BY <1>1
<1> HIDE RingAssumption
<1>4. MinToken \in Int /\ MaxToken \in Int
  BY RingAssumption
<1>5. DEFINE p == i * range_size
<1>6. p \in Nat /\ p + range_size <= MaxToken - MinToken + 1
  <2>1. total_ranges * range_size \in Nat /\ (i + 1) * range_size \in Nat
    BY <1>1
  <2> QED
    BY <1>1, <1>2, <1>3, <1>4, <2>1
<1>7. RangeAt(i) = [start |-> MinToken + p,
                    end |-> IF i = total_ranges - 1 THEN MaxToken ELSE MinToken + p + range_size - 1]
  BY DEF RangeAt
<1> HIDE DEF p
<1>8. /\ RangeAt(i) \in Ranges
      /\ RangeAt(i).start = MinToken + p
      /\ i + 1 = total_ranges => RangeAt(i).end = MaxToken
      /\ i + 1 # total_ranges => RangeAt(i).end = MinToken + p + range_size - 1
  BY <1>1, <1>4, <1>6, <1>7 DEF Ranges
<1>9. MinToken + p + range_size <= MaxToken + 1
  BY <1>1, <1>4, <1>6
<1> QED
  BY <1>3, <1>8, <1>9 DEF p

(* Before the loop there are no ranges and nothing is claimed. *)
LEMMA InvInit == Init => IInv
  BY RingAssumption DEF Init, IInv, TypeOK, SizeInv, TilingInv, Emitting, Ranges, TokenSpace

(* The topology query keeps the invariant. *)
LEMMA InvQuery ==
  ASSUME IInv, NEW n \in {1, 3}, NEW r \in RangesPerCore, QueryPeers(n, r)
  PROVE  IInv'
  BY EstimateFits DEF IInv, TypeOK, SizeInv, TilingInv, Emitting, QueryPeers, TokenSpace

(* The division establishes that total_ranges ranges of range_size fit. *)
LEMMA InvDivide ==
  ASSUME IInv, Divide
  PROVE  IInv'
<1> USE RingAssumption
<1>1. total_ranges \in Nat /\ total_ranges > 0 /\ TokenSpace \in Nat /\ total_ranges <= TokenSpace
  BY DEF IInv, TypeOK, SizeInv, Divide, TokenSpace
<1>2. /\ range_size' \in Nat /\ range_size' > 0
      /\ total_ranges * range_size' <= TokenSpace
  BY <1>1, DivisionFits DEF Divide
<1>3. pc' = "loop" /\ total_ranges' = total_ranges /\ ranges' = <<>> /\ ranges = <<>>
  BY DEF Divide, IInv, SizeInv, Emitting
<1>4. TypeOK'
  BY <1>1, <1>2, <1>3 DEF IInv, TypeOK
<1>5. SizeInv'
  BY <1>1, <1>2, <1>3 DEF SizeInv, Emitting, TokenSpace
<1>6. TilingInv'
  <2>1. Len(ranges') = 0 /\ Frontier' = MinToken
    <3>1. Len(ranges') = 0
      BY <1>3
    <3>2. Len(ranges') # total_ranges'
      BY <1>1, <1>3, <3>1
    <3> HIDE RingAssumption
    <3>3. MinToken + 0 * range_size' = MinToken
      <4>1. MinToken \in Int
        BY RingAssumption
      <4>2. 0 * range_size' = 0
        BY <1>2, FirstOffset
      <4> QED
        BY <4>1, <4>2
    <3> QED
      BY <3>1, <3>2, <3>3 DEF Frontier
  <2>2. \A t \in Tokens : ~(t < MinToken)
    BY DEF Tokens
  <2>3. 1..Len(ranges') = {}
    BY <2>1
  <2> HIDE RingAssumption
  <2> QED
    BY <1>1, <1>3, <2>1, <2>2, <2>3 DEF TilingInv, Emitting, Tokens
<1> QED
  BY <1>4, <1>5, <1>6 DEF IInv

(* One iteration of the loop moves the frontier to the end of the new range. *)
LEMMA InvEmplace ==
  ASSUME IInv, EmplaceBack
  PROVE  IInv'
<1> DEFINE i == Len(ranges)
           new == RangeAt(i)
<1>0. MinToken \in Int /\ MaxToken \in Int /\ MinToken <= MaxToken
  BY RingAssumption
<1>1. /\ TypeOK /\ SizeInv /\ TilingInv /\ Emitting
      /\ pc = "loop" /\ pc' = "loop"
      /\ total_ranges' = total_ranges /\ range_size' = range_size
      /\ ranges \in Seq(Ranges) /\ i \in Nat /\ i < total_ranges
      /\ total_ranges \in Nat /\ range_size \in Nat /\ range_size > 0
  BY DEF IInv, EmplaceBack, Emitting, TypeOK, SizeInv
<1>2. /\ new \in Ranges
      /\ new.start = MinToken + i * range_size
      /\ i * range_size \in Nat
      /\ MinToken + i * range_size + range_size <= MaxToken + 1
      /\ (i + 1) * range_size = i * range_size + range_size
      /\ i + 1 = total_ranges => new.end = MaxToken
      /\ i + 1 # total_ranges => new.end = MinToken + i * range_size + range_size - 1
  BY <1>1, RangeAtFits
<1>3. ranges' = Append(ranges, new)
  BY DEF EmplaceBack
<1> HIDE DEF new
<1>4. /\ ranges' \in Seq(Ranges) /\ Len(ranges') = i + 1
      /\ \A k \in 1..i : ranges'[k] = ranges[k]
      /\ ranges'[i + 1] = new
  BY <1>1, <1>2, <1>3
<1>5. Frontier = new.start /\ Frontier' = new.end + 1
  BY <1>0, <1>1, <1>2, <1>4 DEF Frontier, Ranges
<1>6. /\ new.start \in Int /\ new.end \in Int
      /\ MinToken <= new.start /\ new.start <= new.end /\ new.end <= MaxToken
  BY <1>0, <1>1, <1>2 DEF Ranges
<1>7. TypeOK'
  BY <1>1, <1>4 DEF TypeOK
<1>8. SizeInv'
  BY <1>1 DEF SizeInv, Emitting, TokenSpace
<1> HIDE DEF i
<1>9. \A k \in 1..i :
        /\ ranges[k].start \in Int /\ ranges[k].end \in Int
        /\ MinToken <= ranges[k].start /\ ranges[k].start <= ranges[k].end
        /\ ranges[k].end < new.start /\ ranges[k].end <= MaxToken
  <2>1. \A k \in 1..i : ranges[k] \in Ranges
    BY <1>1 DEF i
  <2> QED
    BY <1>1, <1>5, <2>1 DEF TilingInv, Ranges, i
<1>10. TilingInv'
  <2>1. Len(ranges') <= total_ranges'
    BY <1>1, <1>4
  <2>2. ASSUME NEW k \in 1..Len(ranges')
        PROVE  /\ MinToken <= ranges'[k].start /\ ranges'[k].start <= ranges'[k].end
               /\ ranges'[k].end < Frontier' /\ ranges'[k].end <= MaxToken
    <3>1. CASE k = i + 1
      BY <1>4, <1>5, <1>6, <3>1
    <3>2. CASE k # i + 1
      <4>1. k \in 1..i
        BY <1>1, <1>4, <3>2
      <4> QED
        BY <1>0, <1>4, <1>5, <1>6, <1>9, <4>1
    <3> QED
      BY <3>1, <3>2
  <2>3. ASSUME NEW j \in 1..Len(ranges'), NEW k \in 1..Len(ranges'), j < k
        PROVE  ranges'[j].end < ranges'[k].start
    <3>1. j \in 1..i
      BY <1>1, <1>4, <2>3
    <3>2. CASE k = i + 1
      BY <1>4, <1>9, <3>1, <3>2
    <3>3. CASE k # i + 1
      <4>1. k \in 1..i
        BY <1>1, <1>4, <3>3
      <4>2. ranges[j].end < ranges[k].start
        BY <1>1, <2>3, <3>1, <4>1 DEF TilingInv, i
      <4> QED
        BY <1>4, <3>1, <4>1, <4>2
    <3> QED
      BY <3>2, <3>3
  <2>4. ASSUME NEW t \in Tokens, t < Frontier'
        PROVE  \E k \in 1..Len(ranges') : InQuery(t, ranges'[k])
    <3>1. t \in Int
      BY <1>0 DEF Tokens
    <3>2. CASE t < new.start
      <4>1. PICK k \in 1..i : InQuery(t, ranges[k])
        BY <1>1, <1>5, <3>2 DEF TilingInv, i
      <4>2. k \in 1..Len(ranges') /\ InQuery(t, ranges'[k])
        BY <1>1, <1>4, <4>1
      <4> QED
        BY <4>2
    <3>3. CASE ~(t < new.start)
      <4>1. i + 1 \in 1..Len(ranges')
        BY <1>1, <1>4
      <4>2. InQuery(t, ranges'[i + 1])
        BY <1>4, <1>5, <1>6, <2>4, <3>1, <3>3 DEF InQuery
      <4> QED
        BY <4>1, <4>2
    <3> QED
      BY <3>2, <3>3
  <2> QED
    BY <1>1, <2>1, <2>2, <2>3, <2>4 DEF TilingInv, Emitting, Tokens, InQuery
<1> QED
  BY <1>7, <1>8, <1>10 DEF IInv

(* The trap, the return and stuttering leave the ranges alone. *)
LEMMA InvRest ==
  ASSUME IInv, DivideByZero \/ Return \/ UNCHANGED vars
  PROVE  IInv'
  BY DEF IInv, TypeOK, SizeInv, TilingInv, Emitting, Frontier, Tokens, TokenSpace, InQuery,
         DivideByZero, Return, vars

(* The tiling invariant holds throughout calculate_ranges. *)
THEOREM Tiling == Spec => []IInv
<1>1. IInv /\ [Next]_vars => IInv'
  BY InvQuery, InvDivide, InvEmplace, InvRest DEF Next
<1> QED
  BY InvInit, <1>1, PTL DEF Spec

(* No token is selected by two of the range queries. *)
THEOREM Disjoint == Spec => []NoOverlap
<1>1. IInv => NoOverlap
  <2> SUFFICES ASSUME IInv, NEW j \in 1..Len(ranges), NEW k \in 1..Len(ranges), j < k,
                      NEW t \in Tokens, InQuery(t, ranges[j]), InQuery(t, ranges[k])
               PROVE  FALSE
    BY DEF NoOverlap
  <2>1. ranges \in Seq(Ranges) /\ ranges # <<>> /\ Emitting
    BY DEF IInv, TypeOK, SizeInv
  <2>2. ranges[j] \in Ranges /\ ranges[k] \in Ranges
    BY <2>1
  <2>3. ranges[j].end < ranges[k].start
    BY <2>1 DEF IInv, TilingInv
  <2>4. t \in Int
    BY RingAssumption DEF Tokens
  <2> QED
    BY <2>2, <2>3, <2>4 DEF InQuery, Ranges
<1> QED
  BY Tiling, <1>1, PTL

(* When calculate_ranges returns, every token is selected by one of them. *)
THEOREM Complete == Spec => []FullCoverage
<1>1. IInv => FullCoverage
  <2> SUFFICES ASSUME IInv, pc = "done", NEW t \in Tokens
               PROVE  \E k \in 1..Len(ranges) : InQuery(t, ranges[k])
    BY DEF FullCoverage
  <2>1. t \in Int /\ t < MaxToken + 1
    BY RingAssumption DEF Tokens
  <2>2. Frontier = MaxToken + 1
    BY DEF IInv, TilingInv, Emitting, Frontier
  <2> QED
    BY <2>1, <2>2 DEF IInv, TilingInv, Emitting
<1> QED
  BY Tiling, <1>1, PTL

(* No range is empty and none leaves the ring, so that the conversion of its
   bounds to int64_t loses nothing. *)
THEOREM InRing == Spec => []RangesInRing
<1>1. IInv => RangesInRing
  <2> SUFFICES ASSUME IInv, NEW k \in 1..Len(ranges)
               PROVE  /\ ranges[k].start \in Tokens /\ ranges[k].end \in Tokens
                      /\ ranges[k].start <= ranges[k].end
    BY DEF RangesInRing
  <2>1. ranges \in Seq(Ranges) /\ ranges # <<>> /\ Emitting
    BY DEF IInv, TypeOK, SizeInv
  <2>2. ranges[k] \in Ranges
    BY <2>1
  <2>3. /\ MinToken <= ranges[k].start /\ ranges[k].start <= ranges[k].end
        /\ ranges[k].end <= MaxToken
    BY <2>1 DEF IInv, TilingInv
  <2> QED
    BY <2>2, <2>3, RingAssumption DEF Tokens, Ranges
<1> QED
  BY Tiling, <1>1, PTL
=============================================================================
