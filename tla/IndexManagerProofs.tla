------------------------- MODULE IndexManagerProofs -------------------------
(***************************************************************************)
(* For any list of indexes, any parallelism and any sequence of calls:     *)
(* what drop_indexes and rebuild_indexes report is true of the cluster,    *)
(* whichever statements of whichever batch fail.                           *)
(***************************************************************************)
EXTENDS IndexManager, TLAPS

(* What the calls hand to a strategy is a sequence of the manager's indexes. *)
LEMMA Handed ==
  ASSUME NEW keyspaces \in Selections
  PROVE  Selected(keyspaces) \in Seq(AllIndexes)
  BY IndexAssumption

(* A batch starts one or more threads. *)
LEMMA Widths ==
  ASSUME TypeOK
  PROVE  Width \in Nat \ {0}
  BY IndexAssumption DEF TypeOK, Width

(* The members of a sequence are those at its positions. *)
LEMMA Members ==
  ASSUME NEW S, NEW s \in Seq(S)
  PROVE  Range(s) = {s[i] : i \in 1 .. Len(s)} /\ Range(s) \subseteq S
  BY DEF Range

(* A piece of a sequence has the elements of its positions. *)
LEMMA Pieces ==
  ASSUME NEW S, NEW s \in Seq(S), NEW m \in 1 .. Len(s), NEW n \in m .. Len(s)
  PROVE  /\ SubSeq(s, m, n) \in Seq(S)
         /\ Len(SubSeq(s, m, n)) = n - m + 1
         /\ \A i \in 1 .. n - m + 1 : SubSeq(s, m, n)[i] = s[m + i - 1]
  OBVIOUS

(* The threads of a batch are those of the positions up to its end that no
   batch had before, the short last batch included. *)
LEMMA BatchMembers ==
  ASSUME TypeOK, start < Len(list)
  PROVE  Range(Batch) = {list[i] : i \in {j \in 1 .. Len(list) : start < j /\ j <= start + Width}}
<1> DEFINE m == start + 1
           n == IF start + Width < Len(list) THEN start + Width ELSE Len(list)
<1>1. m \in Nat /\ n \in Nat /\ 1 <= m /\ m <= n /\ n <= Len(list) /\ Len(list) \in Nat /\ start \in Nat
      /\ Width \in Nat
  BY Widths DEF TypeOK
<1>2. Batch = SubSeq(list, m, n)
  BY DEF Batch
<1>3. \A j \in 1 .. Len(list) : (start < j /\ j <= start + Width) <=> j \in m .. n
  BY <1>1
<1>4. list \in Seq(AllIndexes)
  BY DEF TypeOK
<1> HIDE DEF m, n
<1>5. \A i \in m .. n : list[i] \in AllIndexes
  BY <1>1, <1>4
<1>6. /\ SubSeq(list, m, n) \in Seq(AllIndexes)
      /\ Len(SubSeq(list, m, n)) = n - m + 1
      /\ \A i \in 1 .. n - m + 1 : SubSeq(list, m, n)[i] = list[m + i - 1]
  BY <1>1, <1>4, Pieces
<1>7. Range(Batch) = {Batch[i] : i \in 1 .. n - m + 1}
  <2>1. Range(SubSeq(list, m, n)) = {SubSeq(list, m, n)[i] : i \in 1 .. Len(SubSeq(list, m, n))}
    BY <1>6, Members
  <2> QED
    BY <1>2, <1>6, <2>1
<1>8. {Batch[i] : i \in 1 .. n - m + 1} = {list[j] : j \in m .. n}
  <2>1. ASSUME NEW i \in 1 .. n - m + 1
        PROVE  Batch[i] = list[m + i - 1] /\ m + i - 1 \in m .. n
    BY <1>1, <1>2, <1>6
  <2>2. ASSUME NEW j \in m .. n
        PROVE  j - m + 1 \in 1 .. n - m + 1 /\ Batch[j - m + 1] = list[j]
    <3>1. j - m + 1 \in 1 .. n - m + 1 /\ m + (j - m + 1) - 1 = j
      BY <1>1
    <3>2. Batch[j - m + 1] = list[m + (j - m + 1) - 1]
      BY <2>1, <3>1
    <3> QED
      BY <3>1, <3>2
  <2> QED
    BY <2>1, <2>2
<1>9. {list[j] : j \in m .. n} = {list[i] : i \in {j \in 1 .. Len(list) : start < j /\ j <= start + Width}}
  <2>1. m .. n = {j \in 1 .. Len(list) : start < j /\ j <= start + Width}
    BY <1>1, <1>3
  <2> QED
    BY <2>1
<1> QED
  BY <1>7, <1>8, <1>9

-----------------------------------------------------------------------------
(* Types *)

(* Every step keeps the types. *)
LEMMA TypeStep ==
  ASSUME TypeOK, [Next]_vars
  PROVE  TypeOK'
<1> USE DEF TypeOK, Operations
<1>1. ASSUME NEW o \in Operations, NEW keyspaces \in Selections, Call(o, keyspaces)
      PROVE  TypeOK'
  BY <1>1, Handed DEF Call
<1>2. CASE StartBatch
  <2>1. threads' \subseteq AllIndexes
    <3>1. start < Len(list) /\ threads' = Range(Batch)
      BY <1>2 DEF StartBatch
    <3>2. \A i \in 1 .. Len(list) : list[i] \in AllIndexes
      OBVIOUS
    <3> QED
      BY <3>1, <3>2, BatchMembers
  <2>2. start' \in Nat
    BY <1>2, Widths DEF StartBatch
  <2> QED
    BY <1>2, <2>1, <2>2 DEF StartBatch
<1>3. ASSUME NEW i \in threads, Executed(i)
      PROVE  TypeOK'
  BY <1>3 DEF Executed, Effect
<1>4. ASSUME NEW i \in threads, Failed(i)
      PROVE  TypeOK'
  BY <1>4 DEF Failed, Effect
<1>5. CASE Return
  BY <1>5 DEF Return, Outcome
<1>6. CASE UNCHANGED vars
  BY <1>6 DEF vars
<1> QED
  BY <1>1, <1>2, <1>3, <1>4, <1>5, <1>6 DEF Next, Step

-----------------------------------------------------------------------------
(* Batches *)

(* With the list and the batch's end unchanged, the same indexes were begun. *)
LEMMA SameBegun ==
  ASSUME UNCHANGED <<list, start>>
  PROVE  Begun' = Begun
  BY DEF Begun

(* A statement of a batch leaves its outcome: in the cluster, in the list of
   the dropped or among the failures. *)
LEMMA StatementEnds ==
  ASSUME IInv, NEW i \in threads, Executed(i) \/ Failed(i)
  PROVE  BatchInv'
<1>1. Begun' = Begun /\ threads' = threads \ {i} /\ op' = op /\ op # "none"
  BY SameBegun DEF Executed, Failed, IInv, BatchInv
<1>2. CASE Executed(i)
  BY <1>1, <1>2 DEF Executed, Effect, IInv, BatchInv
<1>3. CASE Failed(i)
  BY <1>1, <1>3 DEF Failed, Effect, IInv, BatchInv
<1> QED
  BY <1>2, <1>3

(* Every step keeps the outcomes of the batches so far. *)
LEMMA BatchStep ==
  ASSUME IInv, [Next]_vars
  PROVE  BatchInv'
<1> USE DEF IInv
<1>1. ASSUME NEW o \in Operations, NEW keyspaces \in Selections, Call(o, keyspaces)
      PROVE  BatchInv'
  <2>1. start' = 0 /\ threads' = {} /\ dropped' = {} /\ op' # "none"
    BY <1>1 DEF Call, BatchInv, Operations
  <2>2. Begun' = {}
    BY <2>1 DEF Begun
  <2> QED
    BY <2>1, <2>2 DEF BatchInv
<1>2. CASE StartBatch
  <2>1. /\ start < Len(list) /\ threads = {} /\ threads' = Range(Batch) /\ op # "none"
        /\ start' = start + Width /\ UNCHANGED <<list, op, exists, failures, dropped>>
    BY <1>2 DEF StartBatch
  <2>2. start \in Nat /\ Width \in Nat
    BY Widths DEF TypeOK
  <2>3. Begun' = Begun \union threads'
    BY <2>1, <2>2, BatchMembers DEF Begun
  <2> QED
    BY <2>1, <2>3 DEF BatchInv
<1>3. ASSUME NEW i \in threads, Executed(i) \/ Failed(i)
      PROVE  BatchInv'
  BY <1>3, StatementEnds
<1>4. CASE Return
  <2>1. Begun' = Begun
    BY <1>4, SameBegun DEF Return
  <2> QED
    BY <1>4, <2>1 DEF Return, BatchInv
<1>5. CASE UNCHANGED vars
  <2>1. Begun' = Begun
    BY <1>5, SameBegun DEF vars
  <2> QED
    BY <1>5, <2>1 DEF vars, BatchInv
<1> QED
  BY <1>1, <1>2, <1>3, <1>4, <1>5 DEF Next, Step

(* A call that returns has its last batch behind it: what it reports is what
   its batches left. *)
LEMMA ReportStep ==
  ASSUME IInv, [Next]_vars
  PROVE  RebuildAccounted' /\ DropListTruthful'
<1> USE DEF IInv
<1>1. CASE op' # "none"
  BY <1>1 DEF RebuildAccounted, DropListTruthful, Idle
<1>2. CASE Return
  <2>1. /\ op # "none" /\ threads = {} /\ returned' = [op |-> op, outcome |-> Outcome]
        /\ start >= Len(list) \/ Aborted
        /\ UNCHANGED <<exists, list, failures, dropped, parallelism>>
    BY <1>2 DEF Return
  <2>2. returned'.op = op /\ returned'.outcome = Outcome
    BY <2>1
  <2>3. CASE op = "drop"
    BY <2>1, <2>2, <2>3 DEF BatchInv, RebuildAccounted, DropListTruthful, Idle
  <2>4. CASE op = "rebuild"
    <3>1. failures = {} \/ parallelism > 1 => start >= Len(list)
      BY <2>1, <2>4 DEF Aborted, TypeOK
    <3>2. start >= Len(list) => Range(list) = Begun
      <4>1. SUFFICES ASSUME start >= Len(list) PROVE Range(list) = Begun
        OBVIOUS
      <4>2. {j \in 1 .. Len(list) : j <= start} = 1 .. Len(list)
        BY <4>1 DEF TypeOK
      <4> QED
        BY <4>2, Members DEF Begun, TypeOK
    <3>3. Begun \subseteq exists \union failures
      BY <2>1, <2>4 DEF BatchInv
    <3> QED
      BY <2>1, <2>2, <2>4, <3>1, <3>2, <3>3 DEF RebuildAccounted, DropListTruthful, Idle, Outcome
  <2> QED
    BY <2>2, <2>3, <2>4 DEF RebuildAccounted, DropListTruthful, Idle
<1>3. CASE UNCHANGED vars
  BY <1>3 DEF vars, RebuildAccounted, DropListTruthful, Idle
<1>4. Return \/ UNCHANGED vars \/ op' # "none"
  BY DEF Next, Step, Call, Operations, StartBatch, Executed, Failed, BatchInv
<1> QED
  BY <1>1, <1>2, <1>3, <1>4

-----------------------------------------------------------------------------
(* The manager *)

(* The invariant of calls, batches and threads. *)
THEOREM Invariance == Spec => []IInv
<1>1. Init => IInv
  <2> SUFFICES ASSUME Init PROVE IInv
    OBVIOUS
  <2>1. TypeOK
    BY DEF Init, TypeOK, Operations
  <2>2. BatchInv
    BY DEF Init, BatchInv
  <2> QED
    BY <2>1, <2>2 DEF Init, IInv, RebuildAccounted, DropListTruthful, Idle
<1>2. IInv /\ [Next]_vars => IInv'
  BY TypeStep, BatchStep, ReportStep DEF IInv
<1> QED
  BY <1>1, <1>2, PTL DEF Spec

(* rebuild_indexes: a normal return means that every index of the list exists,
   and a parallel call that throws has counted every index that does not. *)
THEOREM RebuildsTrue == Spec => []RebuildAccounted
<1>1. IInv => RebuildAccounted
  BY DEF IInv
<1> QED
  BY <1>1, Invariance, PTL

(* drop_indexes: no index it reports as dropped is left in the cluster. *)
THEOREM DropsTrue == Spec => []DropListTruthful
<1>1. IInv => DropListTruthful
  BY DEF IInv
<1> QED
  BY <1>1, Invariance, PTL
=============================================================================
