------------------------- MODULE WriterServiceProofs -------------------------
(***************************************************************************)
(* The dual-writer, for every set of statements, every placement on rows,  *)
(* every blacklist and every value of max_retries:                         *)
(*   - the writer's inductive invariant and what follows from it: nothing  *)
(*     is lost in the queue, the counters balance, the rows agree;         *)
(*   - it implements the promise of ShadowWrite;                           *)
(*   - what the CQL proxy tells its clients is true of both clusters;      *)
(*   - what GET /status answers misses no finished write.                  *)
(***************************************************************************)
EXTENDS DualWriterRefinement, CqlProxy, StatsSnapshot, FiniteSetTheorems, TLAPS

USE DEF Counter, Result, None

(* Everything the inductive step needs about the constants. *)
LEMMA Constants == /\ RowOf \in [Writes -> Rows]
                   /\ Executable \subseteq Writes /\ Blacklisted \subseteq Writes
                   /\ MaxRetries \in Nat /\ NoWrite \notin Writes
BY ConstantsAssumption

(* An execution leaves the row contents well typed, whatever its outcome. *)
LEMMA ApplyType ==
  ASSUME NEW rows \in [Rows -> Writes \union {NoWrite}], NEW w \in Writes, NEW o
  PROVE  Apply(rows, w, o) \in [Rows -> Writes \union {NoWrite}]
BY Constants DEF Apply

(* Counting keeps the counters natural numbers. *)
LEMMA CountType ==
  ASSUME stats \in [Counter -> Nat], NEW c \in Counter, Count(c)
  PROVE  stats' \in [Counter -> Nat]
BY DEF Count

-----------------------------------------------------------------------------
(* Type correctness *)

(* The constructor's state is well typed. *)
LEMMA TypeInit == Init => TypeOK
BY Constants DEF Init, TypeOK

(* Every step of either thread keeps the types. *)
LEMMA TypeStep == TypeOK /\ [Next]_vars => TypeOK'
<1> SUFFICES ASSUME TypeOK, [Next]_vars PROVE TypeOK'
  OBVIOUS
<1>0. NoWrite \notin Writes
  BY Constants
<1>1. ASSUME NEW w \in Writes, WriteBegin(w) PROVE TypeOK'
  <2>1. stats' \in [Counter -> Nat]
    BY <1>1, CountType DEF WriteBegin, TypeOK
  <2> QED BY <1>0, <1>1, <2>1 DEF WriteBegin, TypeOK, retryVars, clusterVars
<1>2. CASE FilterGate
  <2>1. stats' \in [Counter -> Nat]
    BY <1>2, CountType DEF FilterGate, TypeOK
  <2> QED BY <1>2, <2>1 DEF FilterGate, TypeOK, retryVars, clusterVars, history
<1>3. ASSUME NEW o \in Outcome, SourceExecute(o) PROVE TypeOK'
  <2>1. cur \in Writes
    BY <1>3 DEF SourceExecute, TypeOK
  <2>2. source' \in [Rows -> Writes \union {NoWrite}]
    BY <1>3, <2>1, ApplyType DEF SourceExecute, TypeOK
  <2> QED BY <1>3, <2>1, <2>2 DEF SourceExecute, TypeOK, retryVars
<1>4. ASSUME NEW o \in Outcome, TargetExecute(o) PROVE TypeOK'
  <2>1. cur \in Writes
    BY <1>4 DEF TargetExecute, TypeOK
  <2>2. target' \in [Rows -> Writes \union {NoWrite}]
    BY <1>4, <2>1, ApplyType DEF TargetExecute, TypeOK
  <2> QED BY <1>4, <2>1, <2>2 DEF TargetExecute, TypeOK, retryVars
<1>5. CASE EnqueueFailedWrite
  BY <1>5 DEF EnqueueFailedWrite, TypeOK, retryVars, clusterVars, history
<1>6. CASE WriteReturn
  <2>1. stats' \in [Counter -> Nat]
    BY <1>6, CountType DEF WriteReturn, TypeOK
  <2> QED BY <1>6, <2>1 DEF WriteReturn, TypeOK, retryVars, clusterVars, history
<1>7. CASE RetryWake \/ RetryEmpty \/ RetrySnapshot
  BY <1>7 DEF RetryWake, RetryEmpty, RetrySnapshot, TypeOK, ioVars, clusterVars, history
<1>8. ASSUME NEW w \in Writes, RetryDrop(w) PROVE TypeOK'
  <2>1. stats' \in [Counter -> Nat]
    BY <1>8, CountType DEF RetryDrop, TypeOK
  <2> QED BY <1>8, <2>1 DEF RetryDrop, Take, TypeOK, ioVars, clusterVars
<1>9. ASSUME NEW w \in Writes, NEW o \in Outcome, RetryExecute(w, o) PROVE TypeOK'
  <2>1. stats' \in [Counter -> Nat]
    BY <1>9, CountType DEF RetryExecute, TypeOK
  <2>2. target' \in [Rows -> Writes \union {NoWrite}]
    BY <1>9, ApplyType DEF RetryExecute, TypeOK
  <2> QED BY <1>9, <2>1, <2>2 DEF RetryExecute, Take, TypeOK, ioVars
<1>10. CASE RetryApply
  BY <1>10 DEF RetryApply, Applied, TypeOK, ioVars, clusterVars, history
<1>11. CASE RetryExit
  BY <1>11 DEF RetryExit, TypeOK, ioVars, clusterVars, history
<1>12. CASE RequestStop
  BY <1>12 DEF RequestStop, TypeOK, ioVars, retryVars, clusterVars, history
<1>13. CASE Destroy
  BY <1>13 DEF Destroy, TypeOK, ioVars, retryVars, clusterVars, history
<1>14. CASE UNCHANGED vars
  BY <1>14 DEF vars, TypeOK, ioVars, retryVars, clusterVars, history
<1> QED BY <1>1, <1>2, <1>3, <1>4, <1>5, <1>6, <1>7, <1>8, <1>9, <1>10, <1>11, <1>12,
           <1>13, <1>14 DEF Next, WriteStep, RetryStep

(* Every reachable state of the writer is well typed. *)
THEOREM TypeCorrect == Spec => []TypeOK
BY TypeInit, TypeStep, PTL DEF Spec

-----------------------------------------------------------------------------
(* The inductive invariant: one lemma per action.  Each conjunct is kept by
   its own definition alone unless a step names another one. *)

Kept == FreshInv /\ WriteInv /\ CycleInv /\ AttemptInv /\ Safety

(* A new writer has nothing queued and nothing owed. *)
LEMMA InvInit == Init => IInv
<1> SUFFICES ASSUME Init PROVE Kept
  BY TypeInit DEF IInv, Kept
<1> QED BY Constants DEF Init, Kept, FreshInv, WriteInv, CycleInv, AttemptInv, Safety,
           NoSilentLoss, AttemptBound, AbandonedOnlyWhenExhausted, Owed

(* A fresh statement enters write(). *)
LEMMA WriteBeginStep ==
  ASSUME IInv, TypeOK', NEW w \in Writes, WriteBegin(w)
  PROVE  Kept'
<1> USE Constants DEF IInv, Safety, TypeOK, Owed, WriteBegin, retryVars, clusterVars
<1>1. FreshInv'
  BY DEF FreshInv
<1>2. WriteInv'
  BY DEF WriteInv, FreshInv
<1>3. CycleInv'
  BY DEF CycleInv
<1>4. AttemptInv'
  BY DEF AttemptInv
<1>5. NoSilentLoss'
  BY DEF NoSilentLoss, Pending
<1>6. AttemptBound'
  BY DEF AttemptBound
<1>7. AbandonedOnlyWhenExhausted'
  BY DEF AbandonedOnlyWhenExhausted
<1> QED BY <1>1, <1>2, <1>3, <1>4, <1>5, <1>6, <1>7 DEF Kept

(* The gate moves write() on and touches nothing the invariant counts. *)
LEMMA FilterGateStep ==
  ASSUME IInv, TypeOK', FilterGate
  PROVE  Kept'
<1> USE Constants DEF IInv, Safety, TypeOK, Owed, FilterGate, retryVars, clusterVars, history
<1> QED BY DEF Kept, FreshInv, WriteInv, CycleInv, AttemptInv, NoSilentLoss,
           Pending, AttemptBound, AbandonedOnlyWhenExhausted

(* An accepted statement that is not blacklisted goes on to the target. *)
LEMMA SourceExecuteStep ==
  ASSUME IInv, TypeOK', NEW o \in Outcome, SourceExecute(o)
  PROVE  Kept'
<1> USE Constants DEF IInv, Safety, TypeOK, Owed, SourceExecute, retryVars
<1>1. FreshInv'
  BY DEF FreshInv, WriteInv
<1>2. WriteInv'
  BY DEF WriteInv
<1>3. CycleInv'
  BY DEF CycleInv
<1>4. AttemptInv'
  BY DEF AttemptInv
<1>5. NoSilentLoss'
  BY DEF NoSilentLoss, WriteInv, Pending
<1>6. AttemptBound'
  BY DEF AttemptBound
<1>7. AbandonedOnlyWhenExhausted'
  BY DEF AbandonedOnlyWhenExhausted
<1> QED BY <1>1, <1>2, <1>3, <1>4, <1>5, <1>6, <1>7 DEF Kept

(* The shadow write acknowledges its statement or hands it to the queue. *)
LEMMA TargetExecuteStep ==
  ASSUME IInv, TypeOK', NEW o \in Outcome, TargetExecute(o)
  PROVE  Kept'
<1> USE Constants DEF IInv, Safety, TypeOK, Owed, TargetExecute, retryVars
<1>1. FreshInv'
  BY DEF FreshInv, WriteInv
<1>2. WriteInv'
  BY DEF WriteInv
<1>3. CycleInv'
  BY DEF CycleInv, WriteInv
<1>4. AttemptInv'
  BY DEF AttemptInv, WriteInv
<1>5. NoSilentLoss'
  BY DEF NoSilentLoss, Pending
<1>6. AttemptBound'
  BY DEF AttemptBound, WriteInv
<1>7. AbandonedOnlyWhenExhausted'
  BY DEF AbandonedOnlyWhenExhausted, WriteInv
<1> QED BY <1>1, <1>2, <1>3, <1>4, <1>5, <1>6, <1>7 DEF Kept

(* Queueing a statement in the middle of a retry cycle disturbs no copy. *)
LEMMA EnqueueStep ==
  ASSUME IInv, TypeOK', EnqueueFailedWrite
  PROVE  Kept'
<1> USE Constants DEF IInv, Safety, TypeOK, Owed, EnqueueFailedWrite, retryVars, clusterVars, history
<1>1. FreshInv'
  BY DEF FreshInv, WriteInv
<1>2. WriteInv'
  BY DEF WriteInv
<1>3. CycleInv'
  BY DEF CycleInv, WriteInv
<1>4. AttemptInv'
  BY DEF AttemptInv, WriteInv, CycleInv
<1>5. NoSilentLoss'
  BY DEF NoSilentLoss, Pending
<1>6. AttemptBound'
  BY DEF AttemptBound
<1>7. AbandonedOnlyWhenExhausted'
  BY DEF AbandonedOnlyWhenExhausted
<1> QED BY <1>1, <1>2, <1>3, <1>4, <1>5, <1>6, <1>7 DEF Kept

(* Returning only counts. *)
LEMMA WriteReturnStep ==
  ASSUME IInv, TypeOK', WriteReturn
  PROVE  Kept'
<1> USE Constants DEF IInv, Safety, TypeOK, Owed, WriteReturn, retryVars, clusterVars, history
<1> QED BY DEF Kept, FreshInv, WriteInv, CycleInv, AttemptInv, NoSilentLoss,
           Pending, AttemptBound, AbandonedOnlyWhenExhausted

(* Waking up and finding nothing to do. *)
LEMMA RetryWakeStep ==
  ASSUME IInv, TypeOK', RetryWake \/ RetryEmpty
  PROVE  Kept'
<1> USE Constants DEF IInv, Safety, TypeOK, Owed, RetryWake, RetryEmpty, ioVars, clusterVars, history
<1> QED BY DEF Kept, FreshInv, WriteInv, CycleInv, AttemptInv, NoSilentLoss,
           Pending, AttemptBound, AbandonedOnlyWhenExhausted

(* The snapshot agrees with the queue. *)
LEMMA RetrySnapshotStep ==
  ASSUME IInv, TypeOK', RetrySnapshot
  PROVE  Kept'
<1> USE Constants DEF IInv, Safety, TypeOK, Owed, RetrySnapshot, ioVars, clusterVars, history
<1>1. FreshInv'
  BY DEF FreshInv
<1>2. WriteInv'
  BY DEF WriteInv
<1>3. CycleInv'
  BY DEF CycleInv
<1>4. AttemptInv'
  BY DEF AttemptInv, CycleInv
<1>5. NoSilentLoss'
  BY DEF NoSilentLoss, Pending
<1>6. AttemptBound'
  BY DEF AttemptBound
<1>7. AbandonedOnlyWhenExhausted'
  BY DEF AbandonedOnlyWhenExhausted
<1> QED BY <1>1, <1>2, <1>3, <1>4, <1>5, <1>6, <1>7 DEF Kept

(* Giving a statement up: its recorded attempts are its sends. *)
LEMMA RetryDropStep ==
  ASSUME IInv, TypeOK', NEW w \in Writes, RetryDrop(w)
  PROVE  Kept'
<1> USE Constants DEF IInv, Safety, TypeOK, Owed, RetryDrop, Take, Remaining, ioVars, clusterVars
<1>1. FreshInv'
  BY DEF FreshInv, CycleInv
<1>2. WriteInv'
  BY DEF WriteInv, CycleInv
<1>3. CycleInv'
  BY DEF CycleInv, AttemptInv
<1>4. AttemptInv'
  BY DEF AttemptInv
<1>5. NoSilentLoss'
  BY DEF NoSilentLoss, Pending
<1>6. AttemptBound'
  BY DEF AttemptBound
<1>7. AbandonedOnlyWhenExhausted'
  BY DEF AbandonedOnlyWhenExhausted, CycleInv, AttemptInv
<1> QED BY <1>1, <1>2, <1>3, <1>4, <1>5, <1>6, <1>7 DEF Kept

(* A retry settles its entry or adds exactly one attempt. *)
LEMMA RetryExecuteStep ==
  ASSUME IInv, TypeOK', NEW w \in Writes, NEW o \in Outcome, RetryExecute(w, o)
  PROVE  Kept'
<1> USE Constants DEF IInv, Safety, TypeOK, Owed, RetryExecute, Take, Remaining, ioVars
<1>1. FreshInv'
  BY DEF FreshInv, CycleInv
<1>2. WriteInv'
  BY DEF WriteInv, CycleInv
<1>3. CycleInv'
  BY DEF CycleInv
<1>4. AttemptInv'
  BY DEF AttemptInv, CycleInv
<1>5. NoSilentLoss'
  BY DEF NoSilentLoss, Pending
<1>6. AttemptBound'
  BY DEF AttemptBound, CycleInv, AttemptInv
<1>7. AbandonedOnlyWhenExhausted'
  BY DEF AbandonedOnlyWhenExhausted, CycleInv
<1> QED BY <1>1, <1>2, <1>3, <1>4, <1>5, <1>6, <1>7 DEF Kept

(* Applying the cycle removes settled entries only and keeps new ones. *)
LEMMA RetryApplyStep ==
  ASSUME IInv, TypeOK', RetryApply
  PROVE  Kept'
<1> USE Constants DEF IInv, Safety, TypeOK, Owed, RetryApply, Applied, Remaining, ioVars, clusterVars, history
<1>1. FreshInv'
  BY DEF FreshInv, CycleInv
<1>2. WriteInv'
  BY DEF WriteInv, CycleInv
<1>3. CycleInv'
  BY DEF CycleInv
<1>4. AttemptInv'
  BY DEF AttemptInv, CycleInv
<1>5. NoSilentLoss'
  BY DEF NoSilentLoss, CycleInv, Pending
<1>6. AttemptBound'
  BY DEF AttemptBound
<1>7. AbandonedOnlyWhenExhausted'
  BY DEF AbandonedOnlyWhenExhausted
<1> QED BY <1>1, <1>2, <1>3, <1>4, <1>5, <1>6, <1>7 DEF Kept

(* The loop ends between cycles. *)
LEMMA RetryExitStep ==
  ASSUME IInv, TypeOK', RetryExit
  PROVE  Kept'
<1> USE Constants DEF IInv, Safety, TypeOK, Owed, RetryExit, ioVars, clusterVars, history
<1> QED BY DEF Kept, FreshInv, WriteInv, CycleInv, AttemptInv, NoSilentLoss,
           Pending, AttemptBound, AbandonedOnlyWhenExhausted

(* The stop request changes no queue. *)
LEMMA RequestStopStep ==
  ASSUME IInv, TypeOK', RequestStop
  PROVE  Kept'
<1> USE Constants DEF IInv, Safety, TypeOK, Owed, RequestStop, ioVars, retryVars, clusterVars, history
<1> QED BY DEF Kept, FreshInv, WriteInv, CycleInv, AttemptInv, NoSilentLoss,
           Pending, AttemptBound, AbandonedOnlyWhenExhausted

(* Destroying the members. *)
LEMMA DestroyStep ==
  ASSUME IInv, TypeOK', Destroy
  PROVE  Kept'
<1> USE Constants DEF IInv, Safety, TypeOK, Owed, Destroy, ioVars, retryVars, clusterVars, history
<1> QED BY DEF Kept, FreshInv, WriteInv, CycleInv, AttemptInv, NoSilentLoss,
           Pending, AttemptBound, AbandonedOnlyWhenExhausted

(* A stuttering step. *)
LEMMA StutterStep ==
  ASSUME IInv, TypeOK', UNCHANGED vars
  PROVE  Kept'
<1> USE Constants DEF IInv, Safety, TypeOK, Owed, vars, ioVars, retryVars, clusterVars, history
<1> QED BY DEF Kept, FreshInv, WriteInv, CycleInv, AttemptInv, NoSilentLoss,
           Pending, AttemptBound, AbandonedOnlyWhenExhausted

(* Every step of either thread preserves the inductive invariant. *)
LEMMA InvStep == IInv /\ [Next]_vars => IInv'
<1> SUFFICES ASSUME IInv, [Next]_vars PROVE IInv'
  OBVIOUS
<1>1. TypeOK'
  BY TypeStep DEF IInv
<1>2. Kept'
  BY <1>1, WriteBeginStep, FilterGateStep, SourceExecuteStep, TargetExecuteStep, EnqueueStep,
     WriteReturnStep, RetryWakeStep, RetrySnapshotStep, RetryDropStep, RetryExecuteStep, RetryApplyStep,
     RetryExitStep, RequestStopStep, DestroyStep, StutterStep
     DEF Next, WriteStep, RetryStep
<1> QED BY <1>1, <1>2 DEF IInv, Kept

(* The invariant holds in every reachable state. *)
THEOREM Invariance == Spec => []IInv
BY InvInit, InvStep, PTL DEF Spec

-----------------------------------------------------------------------------
(* The promises of the writer *)

(* No statement owed to the target is lost while the writer lives: the race
   of enqueue_failed_write with the snapshot and apply of a retry cycle is
   harmless for any number of statements. *)
THEOREM NothingLost == Spec => []NoSilentLoss
<1>1. IInv => NoSilentLoss
  BY DEF IInv, Safety
<1> QED BY <1>1, Invariance, PTL

(* The writer's copies of the queue stay consistent during a cycle. *)
THEOREM CycleConsistent == Spec => []CycleInv
<1>1. IInv => CycleInv
  BY DEF IInv
<1> QED BY <1>1, Invariance, PTL

(* A statement is sent to the target at most max(1, max_retries) times. *)
THEOREM SendsBounded == Spec => []AttemptBound
<1>1. IInv => AttemptBound
  BY DEF IInv, Safety
<1> QED BY <1>1, Invariance, PTL

(* Only statements that used up their attempts are abandoned. *)
THEOREM AbandonExhausted == Spec => []AbandonedOnlyWhenExhausted
<1>1. IInv => AbandonedOnlyWhenExhausted
  BY DEF IInv, Safety
<1> QED BY <1>1, Invariance, PTL

(* A statement the target acknowledged is never sent again. *)
THEOREM AckedNeverResent == Spec => NeverResent
<1> DEFINE Resend == \A w \in Writes : sent'[w] > sent[w] => w \notin acked
<1>1. IInv /\ [Next]_vars => [Resend]_vars
  <2> SUFFICES ASSUME IInv, Next, NEW w \in Writes, sent'[w] > sent[w]
               PROVE  w \notin acked
    OBVIOUS
  <2> USE DEF IInv, TypeOK
  <2>1. ASSUME NEW v \in Writes, NEW o \in Outcome, RetryExecute(v, o)
        PROVE  w \notin acked
    BY <2>1 DEF RetryExecute, Take, Remaining, CycleInv
  <2>2. ASSUME NEW o \in Outcome, TargetExecute(o)
        PROVE  w \notin acked
    BY <2>2 DEF TargetExecute, WriteInv
  <2>3. CASE sent' = sent
    BY <2>3
  <2> QED
    BY <2>1, <2>2, <2>3 DEF Next, WriteStep, RetryStep, WriteBegin, FilterGate, SourceExecute,
       EnqueueFailedWrite, WriteReturn, RetryWake, RetryEmpty, RetrySnapshot, RetryDrop, RetryApply, RetryExit,
       RequestStop, Destroy, history
<1>2. Spec => [][Resend]_vars
  BY <1>1, Invariance, PTL DEF Spec
<1> QED BY <1>2 DEF NeverResent

-----------------------------------------------------------------------------
(* The counters *)

(* Sets of statements are finite. *)
LEMMA FiniteWrites ==
  ASSUME NEW S \in SUBSET Writes
  PROVE  IsFiniteSet(S) /\ Cardinality(S) \in Nat
BY ConstantsAssumption, FS_Subset, FS_CardinalityType

(* A statement that joins a set is counted once. *)
LEMMA Joins ==
  ASSUME NEW S \in SUBSET Writes, NEW w \in Writes \ S
  PROVE  Cardinality(S \union {w}) = Cardinality(S) + 1
BY FiniteWrites, FS_AddElement

(* What is taken out of a set is no longer counted. *)
LEMMA Leaves ==
  ASSUME NEW S \in SUBSET Writes, NEW T \in SUBSET S
  PROVE  Cardinality(S \ T) = Cardinality(S) - Cardinality(T)
<1> DEFINE R == S \ T
<1>1. /\ R \in SUBSET Writes /\ T \in SUBSET Writes
      /\ R \union T = S /\ R \intersect T = {}
  OBVIOUS
<1> HIDE DEF R
<1>2. /\ IsFiniteSet(R) /\ Cardinality(R) \in Nat
      /\ IsFiniteSet(T) /\ Cardinality(T) \in Nat
  BY <1>1, FiniteWrites
<1>3. Cardinality(R \union T) = Cardinality(R) + Cardinality(T) - Cardinality(R \intersect T)
  BY <1>2, FS_Union
<1>4. Cardinality(R \union T) = Cardinality(S) /\ Cardinality(R \intersect T) = 0
  BY <1>1, FS_EmptySet
<1>5. Cardinality(R) = Cardinality(S) - Cardinality(T)
  BY <1>2, <1>3, <1>4
<1> QED
  BY <1>5, Zenon DEF R

(* Every entry of write() is counted as total, every return as an outcome. *)
LEMMA FinishedStep ==
  ASSUME TypeOK, Finished, [Next]_vars
  PROVE  Finished'
<1> USE DEF TypeOK, Finished
<1>1. ASSUME NEW w \in Writes, WriteBegin(w)
      PROVE  Finished'
  BY <1>1 DEF WriteBegin, Count
<1>2. CASE FilterGate
  BY <1>2 DEF FilterGate, Count
<1>3. ASSUME NEW o \in Outcome, SourceExecute(o)
      PROVE  Finished'
  BY <1>3 DEF SourceExecute
<1>4. ASSUME NEW o \in Outcome, TargetExecute(o)
      PROVE  Finished'
  BY <1>4 DEF TargetExecute
<1>5. CASE EnqueueFailedWrite
  BY <1>5 DEF EnqueueFailedWrite
<1>6. CASE WriteReturn
  BY <1>6 DEF WriteReturn, Count
<1>7. ASSUME NEW w \in Writes, RetryDrop(w)
      PROVE  Finished'
  BY <1>7 DEF RetryDrop, Count, ioVars
<1>8. ASSUME NEW w \in Writes, NEW o \in Outcome, RetryExecute(w, o)
      PROVE  Finished'
  BY <1>8 DEF RetryExecute, Count, ioVars
<1>9. CASE pc' = pc /\ stats' = stats
  BY <1>9
<1> QED
  BY <1>1, <1>2, <1>3, <1>4, <1>5, <1>6, <1>7, <1>8, <1>9
     DEF Next, WriteStep, RetryStep, RetryWake, RetryEmpty, RetrySnapshot, RetryApply, RetryExit,
         RequestStop, Destroy, vars, ioVars

(* The sets the balance is about are finite. *)
LEMMA BalanceTypes ==
  ASSUME TypeOK
  PROVE  /\ Cardinality(Pending) \in Nat /\ Cardinality(ShadowFailed) \in Nat /\ Cardinality(to_remove) \in Nat
         /\ stats["retried"] \in Nat /\ stats["abandoned"] \in Nat
<1>1. Pending \in SUBSET Writes /\ ShadowFailed \in SUBSET Writes /\ to_remove \in SUBSET Writes
  BY DEF Pending, ShadowFailed, TypeOK
<1> QED
  BY <1>1, FiniteWrites DEF TypeOK

(* write(): a shadow write that fails is queued in the step after. *)
LEMMA BalanceOfWrite ==
  ASSUME IInv, TypeOK', Balance, WriteStep
  PROVE  Balance'
<1> USE BalanceTypes DEF IInv, Balance
<1>0. cur \in Writes
  BY DEF WriteStep, FilterGate, SourceExecute, TargetExecute, EnqueueFailedWrite, WriteReturn, TypeOK
<1>1. CASE FilterGate
  <2>1. Pending' = Pending /\ ShadowFailed' = ShadowFailed /\ to_remove' = to_remove
    BY <1>1 DEF FilterGate, Pending, ShadowFailed, Clean, history, retryVars
  <2>2. stats'["retried"] = stats["retried"] /\ stats'["abandoned"] = stats["abandoned"]
        /\ pc # "enqueue" /\ pc' # "enqueue"
    BY <1>1 DEF FilterGate, Count, TypeOK
  <2> QED
    BY <2>1, <2>2
<1>2. ASSUME NEW o \in Outcome, SourceExecute(o)
      PROVE  Balance'
  <2>1. Pending' = Pending /\ ShadowFailed' = ShadowFailed /\ to_remove' = to_remove
    BY <1>2 DEF SourceExecute, Pending, ShadowFailed, Clean, retryVars
  <2>2. stats' = stats /\ pc # "enqueue" /\ pc' # "enqueue"
    BY <1>2 DEF SourceExecute
  <2> QED
    BY <2>1, <2>2
<1>3. ASSUME NEW o \in Outcome, TargetExecute(o)
      PROVE  Balance'
  <2>1. Pending' = Pending /\ to_remove' = to_remove /\ stats' = stats /\ pc = "target"
    BY <1>3 DEF TargetExecute, Pending, retryVars
  <2>2. sent[cur] = 0 /\ cur \notin acked /\ sent' = [sent EXCEPT ![cur] = 1]
    BY <1>0, <1>3 DEF TargetExecute, WriteInv, TypeOK
  <2>3. CASE o = "ok"
    <3>1. acked' = acked \union {cur} /\ pc' = "return"
      BY <1>3, <2>3 DEF TargetExecute
    <3>2. ShadowFailed' = ShadowFailed
      BY <1>0, <2>2, <3>1 DEF ShadowFailed, Clean, TypeOK
    <3> QED
      BY <2>1, <3>1, <3>2
  <2>4. CASE o # "ok"
    <3>1. acked' = acked /\ pc' = "enqueue"
      BY <1>3, <2>4 DEF TargetExecute
    <3>2. ShadowFailed' = ShadowFailed \union {cur} /\ cur \notin ShadowFailed
      BY <1>0, <2>2, <3>1 DEF ShadowFailed, Clean, TypeOK
    <3>3. Cardinality(ShadowFailed') = Cardinality(ShadowFailed) + 1
      BY <1>0, <3>2, Joins DEF ShadowFailed
    <3> QED
      BY <2>1, <3>1, <3>3
  <2> QED
    BY <2>3, <2>4
<1>4. CASE EnqueueFailedWrite
  <2>1. to_remove' = to_remove /\ stats' = stats /\ pc = "enqueue" /\ pc' = "return"
        /\ ShadowFailed' = ShadowFailed
    BY <1>4 DEF EnqueueFailedWrite, ShadowFailed, Clean, retryVars, history
  <2>2. Pending' = Pending \union {cur} /\ cur \notin Pending
    BY <1>0, <1>4 DEF EnqueueFailedWrite, WriteInv, Pending, TypeOK
  <2>3. Cardinality(Pending') = Cardinality(Pending) + 1
    BY <1>0, <2>2, Joins DEF Pending
  <2> QED
    BY <2>1, <2>3
<1>5. CASE WriteReturn
  <2>1. Pending' = Pending /\ ShadowFailed' = ShadowFailed /\ to_remove' = to_remove
    BY <1>5 DEF WriteReturn, Pending, ShadowFailed, Clean, history, retryVars
  <2>2. stats'["retried"] = stats["retried"] /\ stats'["abandoned"] = stats["abandoned"]
        /\ pc # "enqueue" /\ pc' # "enqueue"
    BY <1>5 DEF WriteReturn, Count, TypeOK
  <2> QED
    BY <2>1, <2>2
<1> QED
  BY <1>1, <1>2, <1>3, <1>4, <1>5 DEF WriteStep

(* The retry thread: an entry it has settled is counted, but stays pending
   until the cycle's lists are applied. *)
LEMMA BalanceOfRetry ==
  ASSUME IInv, TypeOK', Balance, RetryStep
  PROVE  Balance'
<1> USE BalanceTypes DEF IInv, Balance
<1>1. CASE RetryWake \/ RetryEmpty \/ RetryExit
  <2>1. Pending' = Pending /\ ShadowFailed' = ShadowFailed /\ to_remove' = to_remove /\ stats' = stats /\ pc' = pc
    BY <1>1 DEF RetryWake, RetryEmpty, RetryExit, Pending, ShadowFailed, Clean, history, ioVars
  <2> QED
    BY <2>1
<1>2. CASE RetrySnapshot
  <2>1. Pending' = Pending /\ ShadowFailed' = ShadowFailed /\ stats' = stats /\ pc' = pc
    BY <1>2 DEF RetrySnapshot, Pending, ShadowFailed, Clean, history, ioVars
  <2>2. to_remove' = to_remove
    BY <1>2 DEF RetrySnapshot, CycleInv
  <2> QED
    BY <2>1, <2>2
<1>3. ASSUME NEW w \in Writes, RetryDrop(w)
      PROVE  Balance'
  <2>1. Pending' = Pending /\ ShadowFailed' = ShadowFailed /\ pc' = pc /\ to_remove' = to_remove \union {w}
    BY <1>3 DEF RetryDrop, Pending, ShadowFailed, Clean, ioVars
  <2>2. w \notin to_remove /\ failed_writes[w] > 0
    BY <1>3 DEF RetryDrop, Take, Remaining, CycleInv, TypeOK
  <2>3. snapshot[w] >= MaxRetries
    BY <1>3, <2>2 DEF RetryDrop, AttemptInv, Owed
  <2>4. stats'["retried"] = stats["retried"] /\ stats'["abandoned"] = stats["abandoned"] + 1
    BY <1>3, <2>3 DEF RetryDrop, Count, TypeOK
  <2>5. Cardinality(to_remove') = Cardinality(to_remove) + 1
    BY <2>1, <2>2, Joins DEF TypeOK
  <2> QED
    BY <2>1, <2>4, <2>5
<1>4. ASSUME NEW w \in Writes, NEW o \in Outcome, RetryExecute(w, o)
      PROVE  Balance'
  <2>1. Pending' = Pending /\ pc' = pc
    BY <1>4 DEF RetryExecute, Pending, ioVars
  <2>2. w \notin to_remove /\ failed_writes[w] > 0 /\ w \notin acked
    BY <1>4 DEF RetryExecute, Take, Remaining, CycleInv, TypeOK
  <2>3. sent[w] > 0 /\ sent' = [sent EXCEPT ![w] = sent[w] + 1]
    BY <1>4, <2>2 DEF RetryExecute, AttemptInv
  <2>4. ShadowFailed' = ShadowFailed
    <3>1. acked' = acked \/ acked' = acked \union {w}
      BY <1>4 DEF RetryExecute
    <3>2. ASSUME NEW v \in Writes
          PROVE  v \in ShadowFailed' <=> v \in ShadowFailed
      BY <2>2, <2>3, <3>1 DEF ShadowFailed, Clean, TypeOK
    <3> QED
      BY <3>2 DEF ShadowFailed
  <2>5. CASE o = "ok"
    <3>1. to_remove' = to_remove \union {w} /\ Count("retried")
      BY <1>4, <2>5 DEF RetryExecute
    <3>2. stats'["retried"] = stats["retried"] + 1 /\ stats'["abandoned"] = stats["abandoned"]
      BY <3>1 DEF Count, TypeOK
    <3>3. Cardinality(to_remove') = Cardinality(to_remove) + 1
      BY <2>2, <3>1, Joins DEF TypeOK
    <3> QED
      BY <2>1, <2>4, <3>2, <3>3
  <2>6. CASE o # "ok"
    <3>1. to_remove' = to_remove /\ stats' = stats
      BY <1>4, <2>6 DEF RetryExecute
    <3> QED
      BY <2>1, <2>4, <3>1
  <2> QED
    BY <2>5, <2>6
<1>5. CASE RetryApply
  <2>1. ShadowFailed' = ShadowFailed /\ stats' = stats /\ pc' = pc /\ to_remove' = {}
    BY <1>5 DEF RetryApply, ShadowFailed, Clean, history, ioVars
  <2>2. Pending' = Pending \ to_remove /\ to_remove \in SUBSET Pending
    BY <1>5 DEF RetryApply, Applied, Pending, CycleInv, TypeOK
  <2>3. Cardinality(Pending') = Cardinality(Pending) - Cardinality(to_remove)
    BY <2>2, Leaves DEF Pending
  <2> QED
    BY <2>1, <2>3, FS_EmptySet
<1> QED
  BY <1>1, <1>2, <1>3, <1>4, <1>5 DEF RetryStep

(* write() and the retry thread balance the counters between them. *)
LEMMA LedgerStep ==
  ASSUME IInv, Ledger, [Next]_vars
  PROVE  Ledger'
<1> SUFFICES ASSUME life' # "destroyed" PROVE Finished' /\ Balance'
  BY DEF Ledger
<1>1. TypeOK /\ TypeOK'
  BY TypeStep DEF IInv
<1>2. life # "destroyed"
  BY DEF Next, WriteStep, RetryStep, WriteBegin, FilterGate, SourceExecute, TargetExecute, EnqueueFailedWrite,
     WriteReturn, RetryWake, RetryEmpty, RetrySnapshot, RetryDrop, RetryExecute, RetryApply, RetryExit,
     RequestStop, Destroy, vars
<1>3. Finished /\ Balance
  BY <1>2 DEF Ledger
<1>4. Finished'
  BY <1>1, <1>3, FinishedStep
<1>5. CASE WriteStep
  BY <1>1, <1>3, <1>4, <1>5, BalanceOfWrite
<1>6. CASE RetryStep
  BY <1>1, <1>3, <1>4, <1>6, BalanceOfRetry
<1>7. CASE RequestStop \/ UNCHANGED vars
  <2>1. Pending' = Pending /\ ShadowFailed' = ShadowFailed /\ to_remove' = to_remove /\ stats' = stats /\ pc' = pc
    BY <1>7 DEF RequestStop, vars, Pending, ShadowFailed, Clean, history, ioVars, retryVars
  <2> QED
    BY <1>3, <1>4, <2>1 DEF Balance
<1>8. ASSUME NEW w \in Writes, WriteBegin(w)
      PROVE  Balance'
  <2>1. Pending' = Pending /\ ShadowFailed' = ShadowFailed /\ to_remove' = to_remove
    BY <1>8 DEF WriteBegin, Pending, ShadowFailed, Clean, retryVars
  <2>2. stats'["retried"] = stats["retried"] /\ stats'["abandoned"] = stats["abandoned"]
        /\ pc # "enqueue" /\ pc' # "enqueue"
    BY <1>1, <1>8 DEF WriteBegin, Count, TypeOK
  <2> QED
    BY <1>3, <2>1, <2>2 DEF Balance
<1>9. ~Destroy
  BY DEF Destroy
<1> QED
  BY <1>4, <1>5, <1>6, <1>7, <1>8, <1>9 DEF Next

(* /status and /metrics: while the writer lives, its counters account for
   every statement, in the middle of a retry cycle too. *)
THEOREM LedgerKept == Spec => []Ledger
<1>1. Init => Ledger
  <2> SUFFICES ASSUME Init PROVE Ledger
    OBVIOUS
  <2>1. Pending = {} /\ ShadowFailed = {} /\ to_remove = {}
    BY DEF Init, Pending, ShadowFailed
  <2> QED
    BY <2>1, FS_EmptySet DEF Init, Ledger, Finished, Balance
<1> QED
  BY <1>1, LedgerStep, Invariance, PTL DEF Spec

-----------------------------------------------------------------------------
(* The rows of the two clusters *)

(* Only the target's first acknowledgement makes a statement clean, and none
   that is not write()'s own changes. *)
LEMMA CleanStep ==
  ASSUME IInv, [Next]_vars, NEW w \in Writes, w # cur
  PROVE  Clean(w)' <=> Clean(w)
<1> USE DEF IInv, TypeOK, Clean
<1>1. ASSUME NEW o \in Outcome, TargetExecute(o)
      PROVE  Clean(w)' <=> Clean(w)
  BY <1>1 DEF TargetExecute
<1>2. ASSUME NEW v \in Writes, NEW o \in Outcome, RetryExecute(v, o)
      PROVE  Clean(w)' <=> Clean(w)
  <2>1. v \notin acked /\ sent[v] > 0
    BY <1>2 DEF RetryExecute, Take, Remaining, CycleInv, AttemptInv
  <2> QED
    BY <1>2, <2>1 DEF RetryExecute
<1>3. CASE sent' = sent /\ acked' = acked
  BY <1>3
<1> QED
  BY <1>1, <1>2, <1>3
     DEF Next, WriteStep, RetryStep, WriteBegin, FilterGate, SourceExecute, EnqueueFailedWrite,
         WriteReturn, RetryWake, RetryEmpty, RetrySnapshot, RetryDrop, RetryApply, RetryExit,
         RequestStop, Destroy, vars, history

(* Where the rows and the clean statements do not change, the place of write()
   may move on to one that asks no more of them. *)
LEMMA RowsSame ==
  ASSUME IInv, RowInv, UNCHANGED <<cur, source, target, submitted, acked, sent>>,
         \/ pc' = pc
         \/ pc = "gate" /\ pc' \in {"source", "source_only"}
         \/ pc = "enqueue" /\ pc' = "return"
  PROVE  RowInv'
<1>1. pc = "enqueue" => ~Clean(cur)
  BY DEF IInv, WriteInv, Clean
<1>2. \A w : Clean(w)' <=> Clean(w)
  BY DEF Clean
<1> QED
  BY <1>1, <1>2 DEF RowInv

(* A statement enters write(): the rows are still those of the ones before it. *)
LEMMA RowsBegin ==
  ASSUME IInv, RowInv, NEW w \in Writes, WriteBegin(w)
  PROVE  RowInv'
<1>1. cur = NoWrite /\ NoWrite \notin submitted /\ w \notin submitted
  BY Constants DEF WriteBegin, IInv, TypeOK
<1>2. pc' = "gate" /\ cur' = w /\ submitted' \ {cur'} = submitted \ {cur}
      /\ UNCHANGED <<source, target>>
  BY <1>1 DEF WriteBegin, clusterVars
<1>3. \A v : Clean(v)' <=> Clean(v)
  BY DEF WriteBegin, Clean
<1> SUFFICES ASSUME NEW r \in Rows, \A v \in submitted \ {cur} : RowOf[v] = r => Clean(v)
             PROVE  target'[r] = source'[r]
  BY <1>2, <1>3 DEF RowInv
<1> QED
  BY <1>1, <1>2 DEF RowInv

(* The write to the source: only its own row, which nothing clean is left to
   protect unless the target follows. *)
LEMMA RowsSource ==
  ASSUME IInv, RowInv, NEW o \in Outcome, SourceExecute(o)
  PROVE  RowInv'
<1>1. cur \in Writes /\ RowOf[cur] \in Rows /\ cur # NoWrite
  BY Constants DEF SourceExecute, IInv, TypeOK
<1>2. cur \notin acked /\ ~Clean(cur)
  BY DEF SourceExecute, IInv, WriteInv, Clean
<1>3. \A v : Clean(v)' <=> Clean(v)
  BY DEF SourceExecute, Clean
<1>4. UNCHANGED <<cur, submitted, target>> /\ source \in [Rows -> Writes \union {NoWrite}]
      /\ pc \in {"source", "source_only"}
  BY DEF SourceExecute, IInv, TypeOK
<1>5. \A r \in Rows : r # RowOf[cur] => source'[r] = source[r]
  BY <1>1, <1>4 DEF SourceExecute, Apply
<1>6. (pc' = "target" /\ source'[RowOf[cur]] = cur) \/ pc' = "return"
  BY <1>1, <1>4 DEF SourceExecute, Apply
<1> QED
  BY <1>1, <1>2, <1>3, <1>4, <1>5, <1>6 DEF RowInv

(* The shadow write: an acknowledgement makes the two rows one. *)
LEMMA RowsTarget ==
  ASSUME IInv, RowInv, NEW o \in Outcome, TargetExecute(o)
  PROVE  RowInv'
<1>1. cur \in Writes /\ RowOf[cur] \in Rows /\ cur # NoWrite
  BY Constants DEF TargetExecute, IInv, TypeOK
<1>2. TargetExecute(o) => Next
  BY DEF Next, WriteStep
<1>3. \A v \in Writes : v # cur => (Clean(v)' <=> Clean(v))
  BY <1>2, CleanStep
<1>4. UNCHANGED <<cur, submitted, source>> /\ target \in [Rows -> Writes \union {NoWrite}]
      /\ submitted \subseteq Writes /\ pc = "target"
  BY DEF TargetExecute, IInv, TypeOK
<1>5. \A r \in Rows : r # RowOf[cur] => target'[r] = target[r]
  BY <1>1, <1>4 DEF TargetExecute, Apply
<1>6. (pc' = "return" /\ target'[RowOf[cur]] = cur) \/ pc' = "enqueue"
  BY <1>1, <1>4 DEF TargetExecute, Apply
<1> QED
  BY <1>1, <1>3, <1>4, <1>5, <1>6 DEF RowInv

(* write() returns: its statement is one of the others from now on. *)
LEMMA RowsReturn ==
  ASSUME IInv, RowInv, WriteReturn
  PROVE  RowInv'
<1>1. cur \in submitted /\ cur # NoWrite /\ cur' = NoWrite /\ pc = "return"
      /\ UNCHANGED <<submitted, source, target>>
  BY Constants DEF WriteReturn, IInv, TypeOK, WriteInv, clusterVars, history
<1>2. \A v : Clean(v)' <=> Clean(v)
  BY DEF WriteReturn, Clean, history
<1>3. NoWrite \notin submitted
  BY Constants DEF IInv, TypeOK
<1> QED
  BY <1>1, <1>2, <1>3 DEF RowInv

(* A retry touches only rows that have a statement which is not clean. *)
LEMMA RowsRetry ==
  ASSUME IInv, RowInv, NEW w \in Writes, NEW o \in Outcome, RetryExecute(w, o)
  PROVE  RowInv'
<1>1. w \notin acked /\ sent[w] > 0 /\ failed_writes[w] > 0 /\ w \in submitted
  BY DEF RetryExecute, Take, Remaining, IInv, CycleInv, AttemptInv, FreshInv, TypeOK, Owed
<1>2. RetryExecute(w, o) => Next
  BY DEF Next, RetryStep
<1>3. \A v \in Writes : v # cur => (Clean(v)' <=> Clean(v))
  BY <1>2, CleanStep
<1>4. ~Clean(w) /\ ~Clean(w)'
  BY <1>1 DEF RetryExecute, Clean, IInv, TypeOK
<1>5. cur # w /\ cur \in Writes => (Clean(cur)' <=> Clean(cur))
  BY DEF RetryExecute, Clean, IInv, TypeOK, ioVars
<1>6. cur = w => pc = "return"
  BY <1>1, Constants DEF IInv, WriteInv, TypeOK
<1>7. UNCHANGED <<pc, cur, submitted, source>> /\ target \in [Rows -> Writes \union {NoWrite}]
      /\ submitted \subseteq Writes
  BY DEF RetryExecute, IInv, TypeOK, ioVars
<1>8. \A r \in Rows : r # RowOf[w] => target'[r] = target[r]
  BY <1>7 DEF RetryExecute, Apply
<1>9. cur \in Writes \union {NoWrite}
  BY DEF IInv, TypeOK
<1> SUFFICES ASSUME NEW r \in Rows, \A v \in submitted \ {cur} : RowOf[v] = r => Clean(v)'
             PROVE  IF cur # NoWrite /\ RowOf[cur] = r
                    THEN /\ pc \in {"gate", "source", "source_only"} => target'[r] = source[r]
                         /\ pc = "target" => source[r] = cur
                         /\ pc = "return" /\ Clean(cur)' => target'[r] = source[r]
                    ELSE target'[r] = source[r]
  BY <1>7 DEF RowInv
<1>10. \A v \in submitted \ {cur} : RowOf[v] = r => Clean(v)
  BY <1>3, <1>7
<1>11. CASE RowOf[w] = r
  BY <1>1, <1>4, <1>6, <1>7, <1>11, Constants DEF Clean
<1>12. CASE RowOf[w] # r
  BY <1>5, <1>8, <1>9, <1>10, <1>12 DEF RowInv
<1> QED
  BY <1>11, <1>12

(* Every step keeps the rows of clean statements equal. *)
LEMMA RowStep ==
  ASSUME IInv, RowInv, [Next]_vars
  PROVE  RowInv'
<1>1. CASE FilterGate \/ EnqueueFailedWrite
  BY <1>1, RowsSame DEF FilterGate, EnqueueFailedWrite, history, clusterVars
<1>2. CASE \/ RetryWake \/ RetryEmpty \/ RetrySnapshot \/ RetryApply \/ RetryExit
           \/ RequestStop \/ Destroy \/ UNCHANGED vars
  BY <1>2, RowsSame DEF RetryWake, RetryEmpty, RetrySnapshot, RetryApply, RetryExit,
     RequestStop, Destroy, vars, history, ioVars, clusterVars
<1>3. ASSUME NEW w \in Writes, RetryDrop(w)
      PROVE  RowInv'
  BY <1>3, RowsSame DEF RetryDrop, ioVars, clusterVars
<1> QED
  BY <1>1, <1>2, <1>3, RowsBegin, RowsSource, RowsTarget, RowsReturn, RowsRetry
     DEF Next, WriteStep, RetryStep

(* The direct path never reorders two statements of a row: between two calls
   of write() the clusters agree on every row whose statements all went
   through at once, whatever the retry thread does to other rows. *)
THEOREM RowsAgree == Spec => []DivergenceOnlyThroughFailure
<1>1. Init => RowInv
  BY DEF Init, RowInv
<1>2. IInv /\ RowInv => DivergenceOnlyThroughFailure
  <2> SUFFICES ASSUME IInv, RowInv PROVE DivergenceOnlyThroughFailure
    OBVIOUS
  <2>1. pc = "idle" => cur = NoWrite /\ NoWrite \notin submitted
    BY Constants DEF IInv, TypeOK
  <2> QED
    BY <2>1 DEF RowInv, DivergenceOnlyThroughFailure
<1> QED
  BY <1>1, <1>2, RowStep, Invariance, PTL DEF Spec


HIDE DEF Counter, Result, None

-----------------------------------------------------------------------------
(* The promise: the initial states map to the initial state of ShadowWrite,
   and every step maps to one of its steps or leaves phases and tries alone. *)


(* In a new writer every statement is new and untried. *)
LEMMA RefineInit == Init => Shadow!ShadowInit
<1> SUFFICES ASSUME Init PROVE Shadow!ShadowInit
  OBVIOUS
<1>1. \A w \in Writes : PhaseOf(w) = "new"
  BY DEF Init, PhaseOf, Unanswered
<1>2. sent = [w \in Writes |-> 0]
  BY DEF Init, None
<1> QED BY <1>1, <1>2 DEF Shadow!ShadowInit

(* The phase of one statement determines the others' if nobody else moves. *)
LEMMA OnlyOneMoves ==
  ASSUME NEW w \in Writes, NEW to, PhaseOf(w)' = to,
         \A v \in Writes : v # w => PhaseOf(v)' = PhaseOf(v)
  PROVE  [v \in Writes |-> PhaseOf(v)]' = [[v \in Writes |-> PhaseOf(v)] EXCEPT ![w] = to]
OBVIOUS

(* Steps that are invisible in the abstract state. *)
LEMMA Invisible ==
  ASSUME UNCHANGED <<accepted, acked, abandoned, sent>>,
         life' = life \/ (life' = "stopping" /\ life = "up"),
         \A w \in Writes : Unanswered(w)' <=> Unanswered(w)
  PROVE  UNCHANGED Shadow!shadowVars
<1>1. \A w \in Writes : PhaseOf(w)' = PhaseOf(w)
  BY DEF PhaseOf
<1> QED BY <1>1 DEF Shadow!shadowVars

(* The source's answer moves exactly its statement. *)
LEMMA RefineSourceExecute ==
  ASSUME IInv, NEW o \in Outcome, SourceExecute(o)
  PROVE  \E w \in Writes : Shadow!Answer(w)
<1> USE Constants DEF IInv, TypeOK, WriteInv, SourceExecute
<1>1. cur \in Writes /\ PhaseOf(cur) = "new"
  <2>1. cur \in Writes /\ cur \notin accepted \union acked \union abandoned
    OBVIOUS
  <2> QED BY <2>1 DEF PhaseOf, Unanswered
<1>2. PhaseOf(cur)' \in {"rejected", "exempt", "owed"}
  BY DEF PhaseOf, Unanswered
<1>3. \A v \in Writes : v # cur => PhaseOf(v)' = PhaseOf(v)
  BY DEF PhaseOf, Unanswered
<1>4. sent' = sent
  OBVIOUS
<1> QED BY <1>1, <1>2, <1>3, <1>4, OnlyOneMoves DEF Shadow!Answer, Shadow!Move

(* The first shadow write mirrors or misses its statement. *)
LEMMA RefineTargetExecute ==
  ASSUME IInv, NEW o \in Outcome, TargetExecute(o)
  PROVE  \E w \in Writes : Shadow!Settle(w)
<1> USE Constants DEF IInv, TypeOK, WriteInv, TargetExecute, Owed
<1>1. cur \in Writes /\ PhaseOf(cur) = "owed" /\ sent[cur] = 0
  <2>1. /\ cur \in accepted /\ cur \notin Blacklisted /\ cur \notin acked \union abandoned
        /\ life = "up" /\ sent[cur] = 0 /\ cur \in Writes
    OBVIOUS
  <2> QED BY <2>1 DEF PhaseOf
<1>2. PhaseOf(cur)' = IF o = "ok" THEN "mirrored" ELSE "owed"
  BY <1>1 DEF PhaseOf
<1>3. \A v \in Writes : v # cur => PhaseOf(v)' = PhaseOf(v)
  BY DEF PhaseOf, Unanswered
<1>4. Shadow!Try(cur)
  BY <1>1 DEF Shadow!Try
<1>5. CASE o = "ok"
  BY <1>1, <1>2, <1>3, <1>4, <1>5, OnlyOneMoves DEF Shadow!Settle, Shadow!Mirror, Shadow!Move
<1>6. CASE o # "ok"
  <2>1. \A v \in Writes : PhaseOf(v)' = PhaseOf(v)
    BY <1>1, <1>2, <1>3, <1>6
  <2> QED BY <1>1, <1>4, <2>1 DEF Shadow!Settle, Shadow!Miss
<1> QED BY <1>5, <1>6

(* Giving an entry up is giving its statement up. *)
LEMMA RefineRetryDrop ==
  ASSUME IInv, NEW w \in Writes, RetryDrop(w)
  PROVE  Shadow!Settle(w)
<1> USE Constants DEF IInv, TypeOK, RetryDrop, Take, Remaining
<1>1. /\ w \in Owed \ (acked \union abandoned)
      /\ sent[w] > 0 /\ sent[w] = snapshot[w]
  BY DEF CycleInv, AttemptInv
<1>2. PhaseOf(w) = "owed" /\ PhaseOf(w)' = "abandoned"
  BY <1>1 DEF PhaseOf, CycleInv, Owed
<1>3. \A v \in Writes : v # w => PhaseOf(v)' = PhaseOf(v)
  BY DEF PhaseOf, Unanswered, ioVars
<1> QED BY <1>1, <1>2, <1>3, OnlyOneMoves DEF Shadow!Settle, Shadow!GiveUp, Shadow!Move, Owed

(* A retry mirrors or misses its statement. *)
LEMMA RefineRetryExecute ==
  ASSUME IInv, NEW w \in Writes, NEW o \in Outcome, RetryExecute(w, o)
  PROVE  Shadow!Settle(w)
<1> USE Constants DEF IInv, TypeOK, RetryExecute, Take, Remaining
<1>1. /\ w \in Owed \ (acked \union abandoned)
      /\ sent[w] = snapshot[w]
  BY DEF CycleInv, AttemptInv
<1>2. PhaseOf(w) = "owed" /\ PhaseOf(w)' = IF o = "ok" THEN "mirrored" ELSE "owed"
  BY <1>1 DEF PhaseOf, CycleInv, Owed
<1>3. \A v \in Writes : v # w => PhaseOf(v)' = PhaseOf(v)
  BY DEF PhaseOf, Unanswered, ioVars
<1>4. Shadow!Try(w)
  BY <1>1, <1>2 DEF Shadow!Try
<1> QED BY <1>2, <1>3, <1>4, OnlyOneMoves
        DEF Shadow!Settle, Shadow!Mirror, Shadow!Miss, Shadow!Move

(* Destroying the queue is the shutdown. *)
LEMMA RefineDestroy ==
  ASSUME IInv, Destroy
  PROVE  Shadow!Shutdown
BY DEF IInv, TypeOK, Destroy, Shadow!Shutdown, PhaseOf, Unanswered, ioVars, history

(* Every step of either thread is an abstract step or invisible. *)
LEMMA RefineStep ==
  ASSUME IInv, TypeOK', [Next]_vars
  PROVE  [Shadow!ShadowNext]_(Shadow!shadowVars)
<1>1. ASSUME NEW w \in Writes, WriteBegin(w) PROVE UNCHANGED Shadow!shadowVars
  <2>1. \A v \in Writes : Unanswered(v)' <=> Unanswered(v)
    BY <1>1, Constants DEF Unanswered, IInv, TypeOK, WriteInv, WriteBegin
  <2>2. UNCHANGED <<accepted, acked, abandoned, sent>>
    BY <1>1 DEF WriteBegin
  <2>3. life' = life \/ (life' = "stopping" /\ life = "up")
    BY <1>1 DEF WriteBegin
  <2> QED BY <2>1, <2>2, <2>3, Invisible
<1>2. ASSUME FilterGate PROVE UNCHANGED Shadow!shadowVars
  <2>1. \A v \in Writes : Unanswered(v)' <=> Unanswered(v)
    BY <1>2, Constants DEF Unanswered, IInv, TypeOK, WriteInv, FilterGate, history
  <2>2. UNCHANGED <<accepted, acked, abandoned, sent>>
    BY <1>2 DEF FilterGate, history
  <2>3. life' = life \/ (life' = "stopping" /\ life = "up")
    BY <1>2 DEF FilterGate, history
  <2> QED BY <2>1, <2>2, <2>3, Invisible
<1>3. ASSUME EnqueueFailedWrite PROVE UNCHANGED Shadow!shadowVars
  <2>1. \A v \in Writes : Unanswered(v)' <=> Unanswered(v)
    BY <1>3, Constants DEF Unanswered, IInv, TypeOK, WriteInv, EnqueueFailedWrite, history
  <2>2. UNCHANGED <<accepted, acked, abandoned, sent>>
    BY <1>3 DEF EnqueueFailedWrite, history
  <2>3. life' = life \/ (life' = "stopping" /\ life = "up")
    BY <1>3 DEF EnqueueFailedWrite, history
  <2> QED BY <2>1, <2>2, <2>3, Invisible
<1>4. ASSUME WriteReturn PROVE UNCHANGED Shadow!shadowVars
  <2>1. \A v \in Writes : Unanswered(v)' <=> Unanswered(v)
    BY <1>4, Constants DEF Unanswered, IInv, TypeOK, WriteInv, WriteReturn, history
  <2>2. UNCHANGED <<accepted, acked, abandoned, sent>>
    BY <1>4 DEF WriteReturn, history
  <2>3. life' = life \/ (life' = "stopping" /\ life = "up")
    BY <1>4 DEF WriteReturn, history
  <2> QED BY <2>1, <2>2, <2>3, Invisible
<1>5. ASSUME RetryWake \/ RetryEmpty \/ RetrySnapshot \/ RetryApply \/ RetryExit PROVE UNCHANGED Shadow!shadowVars
  <2>1. \A v \in Writes : Unanswered(v)' <=> Unanswered(v)
    BY <1>5, Constants DEF Unanswered, IInv, TypeOK, WriteInv, RetryWake, RetryEmpty, RetrySnapshot, RetryApply, RetryExit, ioVars, history
  <2>2. UNCHANGED <<accepted, acked, abandoned, sent>>
    BY <1>5 DEF RetryWake, RetryEmpty, RetrySnapshot, RetryApply, RetryExit, ioVars, history
  <2>3. life' = life \/ (life' = "stopping" /\ life = "up")
    BY <1>5 DEF RetryWake, RetryEmpty, RetrySnapshot, RetryApply, RetryExit, ioVars, history
  <2> QED BY <2>1, <2>2, <2>3, Invisible
<1>6. ASSUME RequestStop PROVE UNCHANGED Shadow!shadowVars
  <2>1. \A v \in Writes : Unanswered(v)' <=> Unanswered(v)
    BY <1>6, Constants DEF Unanswered, IInv, TypeOK, WriteInv, RequestStop, ioVars, history
  <2>2. UNCHANGED <<accepted, acked, abandoned, sent>>
    BY <1>6 DEF RequestStop, ioVars, history
  <2>3. life' = life \/ (life' = "stopping" /\ life = "up")
    BY <1>6 DEF RequestStop, ioVars, history
  <2> QED BY <2>1, <2>2, <2>3, Invisible
<1>7. ASSUME UNCHANGED vars PROVE UNCHANGED Shadow!shadowVars
  <2>1. \A v \in Writes : Unanswered(v)' <=> Unanswered(v)
    BY <1>7, Constants DEF Unanswered, IInv, TypeOK, WriteInv, vars, ioVars, history
  <2>2. UNCHANGED <<accepted, acked, abandoned, sent>>
    BY <1>7 DEF vars, ioVars, history
  <2>3. life' = life \/ (life' = "stopping" /\ life = "up")
    BY <1>7 DEF vars, ioVars, history
  <2> QED BY <2>1, <2>2, <2>3, Invisible
<1> QED BY <1>1, <1>2, <1>3, <1>4, <1>5, <1>6, <1>7, RefineSourceExecute, RefineTargetExecute,
           RefineRetryDrop, RefineRetryExecute, RefineDestroy
        DEF Next, WriteStep, RetryStep, Shadow!ShadowNext

(* The writer implements the promise: an owed statement is mirrored, given up
   after its attempts or lost at shutdown, and nothing else happens to it. *)
THEOREM Refinement == Spec => ImplementsShadowWrite
<1>1. IInv /\ IInv' /\ [Next]_vars => [Shadow!ShadowNext]_(Shadow!shadowVars)
  BY RefineStep DEF IInv
<1> QED BY <1>1, RefineInit, Invariance, PTL
        DEF Spec, ImplementsShadowWrite, Shadow!ShadowSpec

-----------------------------------------------------------------------------
(* The CQL proxy: for any number of connections and statements, however the
   clients send them. *)


(* A raw frame is applied to the source behind the writer's back, which
   changes nothing that the writer's invariant speaks of. *)
LEMMA ForwardKeepsWriter ==
  ASSUME IInv, NEW w \in Writes, NEW o, source' = Apply(source, w, o),
         UNCHANGED <<ioVars, stats, failed_writes, retryVars, life, target, history>>
  PROVE  IInv'
<1> USE DEF ioVars, retryVars, history
<1>1. source' \in [Rows -> Writes \union {NoWrite}]
  BY ApplyType DEF IInv, TypeOK
<1>2. TypeOK'
  BY <1>1 DEF IInv, TypeOK
<1>3. FreshInv' /\ WriteInv' /\ CycleInv' /\ AttemptInv' /\ Safety'
  BY DEF IInv, FreshInv, WriteInv, CycleInv, AttemptInv, Safety, NoSilentLoss, AttemptBound,
         AbandonedOnlyWhenExhausted, Owed, Pending
<1> QED
  BY <1>2, <1>3 DEF IInv

(* Behind the proxy the writer takes its own steps, or none. *)
LEMMA WriterInside ==
  ASSUME ProxyNext \/ UNCHANGED allVars, \A c \in Conns : ~SourceAnswer(c)
  PROVE  [Next]_vars
<1>1. CASE WriterStep
  BY <1>1 DEF WriterStep, InWrite, Next, WriteStep
<1>2. ASSUME NEW c \in Conns, NEW w \in Writes, BeginWrite(c, w)
      PROVE  Next
  BY <1>2 DEF BeginWrite, Next
<1>3. ASSUME NEW c \in Conns, EndWrite(c)
      PROVE  Next
  BY <1>3 DEF EndWrite, Next, WriteStep
<1>4. ASSUME NEW c \in Conns, ConnectSource(c) \/ ClientClose(c) \/ PrepareAnswer(c) \/ Reply(c)
      PROVE  UNCHANGED vars
  BY <1>4 DEF ConnectSource, ClientClose, PrepareAnswer, Reply
<1>5. ASSUME NEW c \in Conns, NEW w \in Writes, Prepare(c, w) \/ BeginForward(c, w)
      PROVE  UNCHANGED vars
  BY <1>5 DEF Prepare, BeginForward
<1>6. CASE UNCHANGED allVars
  BY <1>6 DEF allVars
<1> QED
  BY <1>1, <1>2, <1>3, <1>4, <1>5, <1>6 DEF ProxyNext

(* The writer's invariant holds behind the proxy. *)
LEMMA WriterKept ==
  ASSUME ProxyInv, [ProxyNext]_allVars
  PROVE  IInv'
<1>1. ASSUME NEW c \in Conns, SourceAnswer(c)
      PROVE  IInv'
  <2>1. req[c] \in Writes
    BY <1>1 DEF SourceAnswer, ProxyInv, RequestInv, ProxyTypeOK
  <2>2. \E o \in Outcome : source' = Apply(source, req[c], o)
    BY <1>1 DEF SourceAnswer, Outcome, Apply
  <2> QED
    BY <1>1, <2>1, <2>2, ForwardKeepsWriter DEF SourceAnswer, ProxyInv
<1>2. CASE \A c \in Conns : ~SourceAnswer(c)
  BY <1>2, WriterInside, InvStep DEF ProxyInv
<1> QED
  BY <1>1, <1>2

-----------------------------------------------------------------------------
(* Types *)

(* Every connection starts with nothing sent and nothing prepared. *)
LEMMA ProxyTypeInit == ProxyInit => ProxyTypeOK
  BY TypeInit DEF ProxyInit, ProxyTypeOK

(* No step of a coroutine, of the source or of the writer leaves the types. *)
LEMMA ProxyTypeStep ==
  ASSUME ProxyInv, [ProxyNext]_allVars
  PROVE  ProxyTypeOK'
<1> USE DEF ProxyTypeOK
<1>0. TypeOK' /\ ProxyTypeOK
  BY WriterKept DEF IInv, ProxyInv
<1>1. ASSUME NEW c \in Conns, ConnectSource(c) \/ ClientClose(c) \/ Reply(c)
      PROVE  ProxyTypeOK'
  <2>1. conn[c] = "replying" => req[c] \in Writes
    BY DEF ProxyInv, RequestInv
  <2> QED
    BY <1>0, <1>1, <2>1 DEF ConnectSource, ClientClose, Reply, Goto
<1>2. ASSUME NEW c \in Conns, NEW w \in Writes, Prepare(c, w)
      PROVE  ProxyTypeOK'
  BY <1>0, <1>2 DEF Prepare, Goto
<1>3. ASSUME NEW c \in Conns, PrepareAnswer(c)
      PROVE  ProxyTypeOK'
  <2>1. req[c] \in Writes
    BY <1>3 DEF PrepareAnswer, ProxyInv, RequestInv
  <2> QED
    BY <1>0, <1>3, <2>1 DEF PrepareAnswer, Goto
<1>4. ASSUME NEW c \in Conns, NEW w \in Writes, BeginWrite(c, w)
      PROVE  ProxyTypeOK'
  BY <1>0, <1>4 DEF BeginWrite, Send, Goto
<1>5. ASSUME NEW c \in Conns, NEW w \in Writes, BeginForward(c, w)
      PROVE  ProxyTypeOK'
  BY <1>0, <1>5 DEF BeginForward, Send, Goto
<1>6. ASSUME NEW c \in Conns, EndWrite(c)
      PROVE  ProxyTypeOK'
  <2>1. req[c] \in Writes
    BY <1>0, <1>6 DEF EndWrite, ProxyInv, ThreadInv, TypeOK
  <2> QED
    BY <1>0, <1>6, <2>1 DEF EndWrite, Goto
<1>7. ASSUME NEW c \in Conns, SourceAnswer(c)
      PROVE  ProxyTypeOK'
  <2>1. req[c] \in Writes
    BY <1>7 DEF SourceAnswer, ProxyInv, RequestInv
  <2> QED
    BY <1>0, <1>7, <2>1 DEF SourceAnswer, Goto
<1>8. CASE WriterStep
  BY <1>0, <1>8 DEF WriterStep, proxyVars
<1>9. CASE UNCHANGED allVars
  BY <1>0, <1>9 DEF allVars, proxyVars
<1> QED
  BY <1>1, <1>2, <1>3, <1>4, <1>5, <1>6, <1>7, <1>8, <1>9 DEF ProxyNext

-----------------------------------------------------------------------------
(* The inductive invariant: one lemma per kind of step *)

Agreement == ResultInv /\ ThreadInv /\ RequestInv /\ GapInv /\ ConfirmedOnSource /\ NoDoubleSourceWrite

(* Connecting, preparing and closing touch no statement that was sent. *)
LEMMA QuietStep ==
  ASSUME ProxyInv, NEW c \in Conns,
         \/ ConnectSource(c) \/ ClientClose(c) \/ PrepareAnswer(c)
         \/ \E w \in Writes : Prepare(c, w)
  PROVE  Agreement'
<1>1. /\ UNCHANGED vars /\ UNCHANGED <<requested, strangers, forwarded, landed, confirmed>>
      /\ \E p \in {"reading", "closed", "preparing"} : Goto(c, p)
  BY DEF ConnectSource, ClientClose, PrepareAnswer, Prepare
<1>2. /\ \A d \in Conns \ {c} : conn'[d] = conn[d] /\ req'[d] = req[d]
      /\ conn'[c] \in {"reading", "closed", "preparing"}
      /\ conn'[c] = "preparing" => req'[c] # NoWrite
  BY <1>1, Constants DEF ProxyInv, ProxyTypeOK, ConnectSource, ClientClose, PrepareAnswer, Prepare, Goto
<1> QED
  BY <1>1, <1>2 DEF ProxyInv, Agreement, ResultInv, SourceOk, ThreadInv, RequestInv, GapInv, SourceOnly, ConfirmedOnSource,
                    NoDoubleSourceWrite, vars, ioVars, history

(* A statement that no client has sent before enters write(): nothing of it
   was forwarded or confirmed. *)
LEMMA BeginWriteStep ==
  ASSUME ProxyInv, NEW c \in Conns, NEW w \in Writes, BeginWrite(c, w)
  PROVE  Agreement'
<1>1. /\ pc = "idle" /\ pc' = "gate" /\ cur' = w /\ w \notin requested
      /\ submitted' = submitted \union {w} /\ requested' = requested \union {w}
      /\ strangers \subseteq strangers'
      /\ UNCHANGED <<life, accepted, forwarded, landed, confirmed>>
  BY DEF BeginWrite, Send, WriteBegin
<1>2. /\ conn'[c] = "writing" /\ req'[c] = w
      /\ \A d \in Conns \ {c} : conn'[d] = conn[d] /\ req'[d] = req[d]
  BY DEF BeginWrite, Send, Goto, ProxyInv, ProxyTypeOK
<1> QED
  BY <1>1, <1>2 DEF ProxyInv, Agreement, ResultInv, ThreadInv, RequestInv, GapInv, SourceOnly, ConfirmedOnSource,
                    NoDoubleSourceWrite

(* A statement that is forwarded at once never was in write(). *)
LEMMA BeginForwardStep ==
  ASSUME ProxyInv, NEW c \in Conns, NEW w \in Writes, BeginForward(c, w)
  PROVE  Agreement'
<1>1. /\ UNCHANGED vars /\ pc = "idle" /\ w \notin requested /\ requested' = requested \union {w}
      /\ forwarded' = forwarded \union {w} /\ UNCHANGED <<landed, confirmed>>
      /\ strangers \subseteq strangers' /\ (How[w] = "batch" \/ w \in strangers')
  BY DEF BeginForward, Send, ThreadFree, Intercepted, IsWriteQuery
<1>2. /\ conn'[c] = "forwarding" /\ req'[c] = w
      /\ \A d \in Conns \ {c} : conn'[d] = conn[d] /\ req'[d] = req[d]
  BY DEF BeginForward, Send, Goto, ProxyInv, ProxyTypeOK
<1>3. w \notin accepted
  BY <1>1 DEF ProxyInv, IInv, FreshInv, RequestInv
<1> QED
  BY <1>1, <1>2, <1>3 DEF ProxyInv, Agreement, ResultInv, SourceOk, ThreadInv, RequestInv, GapInv, SourceOnly, ConfirmedOnSource,
                          NoDoubleSourceWrite, vars, ioVars, history

(* write() returns to the coroutine that called it; the fallback forwards
   only what the source did not acknowledge. *)
LEMMA EndWriteStep ==
  ASSUME ProxyInv, NEW c \in Conns, EndWrite(c)
  PROVE  Agreement'
<1>1. /\ pc = "return" /\ pc' = "idle" /\ req[c] = cur /\ cur \in submitted
      /\ SourceOk <=> cur \in accepted
      /\ UNCHANGED <<life, submitted, accepted, req, requested, strangers, landed, confirmed>>
  BY DEF EndWrite, WriteReturn, history, ProxyInv, IInv, WriteInv, ThreadInv, ResultInv
<1>2. /\ \A d \in Conns \ {c} : conn'[d] = conn[d] /\ conn[d] # "writing"
      /\ \/ SourceOk /\ conn'[c] = "replying" /\ forwarded' = forwarded
         \/ ~SourceOk /\ conn'[c] = "forwarding" /\ forwarded' = forwarded \union {cur}
  BY <1>1 DEF EndWrite, Goto, ProxyInv, ProxyTypeOK, ThreadInv
<1> HIDE DEF SourceOk
<1> QED
  BY <1>1, <1>2 DEF ProxyInv, Agreement, ResultInv, ThreadInv, RequestInv, GapInv, SourceOnly, ConfirmedOnSource,
                    NoDoubleSourceWrite

(* The source's answer to a raw frame decides whether it may be confirmed. *)
LEMMA SourceAnswerStep ==
  ASSUME ProxyInv, NEW c \in Conns, SourceAnswer(c)
  PROVE  Agreement'
<1>1. /\ UNCHANGED <<pc, cur, result, life, submitted, accepted, req, requested, strangers, forwarded, confirmed>>
      /\ conn[c] = "forwarding"
  BY DEF SourceAnswer, ioVars, history
<1>2. /\ \A d \in Conns \ {c} : conn'[d] = conn[d]
      /\ \/ conn'[c] = "replying" /\ landed' = landed \union {req[c]}
         \/ conn'[c] \in {"refusing", "closed"} /\ landed' = landed
  BY DEF SourceAnswer, Goto, ProxyInv, ProxyTypeOK
<1> QED
  BY <1>1, <1>2 DEF ProxyInv, Agreement, ResultInv, SourceOk, ThreadInv, RequestInv, GapInv, SourceOnly, ConfirmedOnSource,
                    NoDoubleSourceWrite

(* The reply confirms a statement the source has acknowledged. *)
LEMMA ReplyStep ==
  ASSUME ProxyInv, NEW c \in Conns, Reply(c)
  PROVE  Agreement'
<1>1. /\ UNCHANGED vars /\ UNCHANGED <<req, requested, strangers, forwarded, landed>> /\ pc = "idle"
      /\ conn[c] \in {"replying", "refusing"}
  BY DEF Reply, ThreadFree
<1>2. /\ \A d \in Conns \ {c} : conn'[d] = conn[d]
      /\ conn'[c] \in {"reading", "closed"}
      /\ \/ confirmed' = confirmed
         \/ conn[c] = "replying" /\ confirmed' = confirmed \union {req[c]}
  BY DEF Reply, Goto, ProxyInv, ProxyTypeOK
<1> QED
  BY <1>1, <1>2 DEF ProxyInv, Agreement, ResultInv, SourceOk, ThreadInv, RequestInv, GapInv, SourceOnly, ConfirmedOnSource,
                    NoDoubleSourceWrite, vars, ioVars, history

(* The steps inside write(): the source's acknowledgement of a statement that
   was neither forwarded nor confirmed, and the result that goes with it. *)
LEMMA InWriteStep ==
  ASSUME ProxyInv, InWrite, UNCHANGED proxyVars
  PROVE  Agreement'
<1> USE DEF proxyVars
<1>1. CASE FilterGate
  BY <1>1 DEF FilterGate, history, ProxyInv, Agreement, ResultInv, ThreadInv, RequestInv, GapInv, SourceOnly,
              ConfirmedOnSource, NoDoubleSourceWrite
<1>2. ASSUME NEW o \in Outcome, SourceExecute(o)
      PROVE  Agreement'
  <2>1. /\ pc # "idle" /\ cur' = cur /\ UNCHANGED <<life, submitted>>
        /\ cur \notin accepted /\ cur \notin forwarded
        /\ \/ accepted' = accepted /\ pc' = "return" /\ result' = "source_failed"
           \/ accepted' = accepted \union {cur} /\ pc' = "return" /\ result' = "source_only"
           \/ accepted' = accepted \union {cur} /\ pc' = "target"
    BY <1>2 DEF SourceExecute, ProxyInv, IInv, WriteInv, RequestInv
  <2>2. ResultInv'
    BY <2>1 DEF ResultInv, SourceOk
  <2> QED
    BY <2>1, <2>2 DEF ProxyInv, Agreement, ThreadInv, RequestInv, GapInv, SourceOnly, ConfirmedOnSource, NoDoubleSourceWrite
<1>3. ASSUME NEW o \in Outcome, TargetExecute(o)
      PROVE  Agreement'
  <2>1. /\ pc # "idle" /\ cur' = cur /\ UNCHANGED <<life, submitted, accepted>>
        /\ cur \in accepted
        /\ \/ pc' = "return" /\ result' = "both"
           \/ pc' = "enqueue" /\ result' = "shadow_failed"
    BY <1>3 DEF TargetExecute, ProxyInv, IInv, WriteInv, Owed
  <2>2. ResultInv'
    BY <2>1 DEF ResultInv, SourceOk
  <2> QED
    BY <2>1, <2>2 DEF ProxyInv, Agreement, ThreadInv, RequestInv, GapInv, SourceOnly, ConfirmedOnSource, NoDoubleSourceWrite
<1>4. CASE EnqueueFailedWrite
  <2>1. /\ pc # "idle" /\ pc' = "return" /\ UNCHANGED <<cur, life, submitted, accepted>>
        /\ result' = "shadow_failed" /\ cur \in accepted
    BY <1>4 DEF EnqueueFailedWrite, history, ProxyInv, IInv, WriteInv, Owed, ResultInv
  <2>2. ResultInv'
    BY <2>1 DEF ResultInv, SourceOk
  <2> QED
    BY <2>1, <2>2 DEF ProxyInv, Agreement, ThreadInv, RequestInv, GapInv, SourceOnly, ConfirmedOnSource, NoDoubleSourceWrite
<1> QED
  BY <1>1, <1>2, <1>3, <1>4 DEF InWrite

(* The retry thread neither accepts nor confirms anything. *)
LEMMA RetryThreadStep ==
  ASSUME ProxyInv, RetryStep, UNCHANGED proxyVars
  PROVE  Agreement'
<1>1. UNCHANGED <<pc, cur, result, life, submitted, accepted>>
  BY DEF RetryStep, RetryWake, RetryEmpty, RetrySnapshot, RetryDrop, RetryExecute, RetryApply, RetryExit,
         ioVars, history
<1> QED
  BY <1>1 DEF ProxyInv, Agreement, ResultInv, SourceOk, ThreadInv, RequestInv, GapInv, SourceOnly, ConfirmedOnSource,
              NoDoubleSourceWrite, proxyVars

(* The inductive invariant holds when the service starts. *)
LEMMA ProxyInvInit == ProxyInit => ProxyInv
<1> SUFFICES ASSUME ProxyInit PROVE ProxyInv
  OBVIOUS
<1>1. IInv /\ ProxyTypeOK
  BY InvInit, ProxyTypeInit DEF ProxyInit
<1> QED
  BY <1>1 DEF ProxyInit, Init, ProxyInv, ResultInv, ThreadInv, RequestInv, GapInv, SourceOnly, ConfirmedOnSource,
              NoDoubleSourceWrite

(* It is kept by every step of the proxy, of the source and of the writer. *)
LEMMA ProxyInvStep == ProxyInv /\ [ProxyNext]_allVars => ProxyInv'
<1> SUFFICES ASSUME ProxyInv, [ProxyNext]_allVars PROVE ProxyInv'
  OBVIOUS
<1>1. IInv' /\ ProxyTypeOK'
  BY WriterKept, ProxyTypeStep
<1>2. Agreement'
  <2>1. CASE UNCHANGED allVars
    BY <2>1 DEF allVars, vars, ioVars, history, proxyVars, ProxyInv, Agreement, ResultInv, SourceOk, ThreadInv,
                RequestInv, GapInv, SourceOnly, ConfirmedOnSource, NoDoubleSourceWrite
  <2>2. CASE ProxyNext
    BY <2>2, QuietStep, BeginWriteStep, BeginForwardStep, EndWriteStep, SourceAnswerStep, ReplyStep,
       InWriteStep, RetryThreadStep DEF ProxyNext, WriterStep
  <2> QED
    BY <2>1, <2>2
<1> QED
  BY <1>1, <1>2 DEF ProxyInv, Agreement

(* Proxy and writer agree in every reachable state. *)
THEOREM ProxyInvariance == ProxySpec => []ProxyInv
  BY ProxyInvInit, ProxyInvStep, PTL DEF ProxySpec

-----------------------------------------------------------------------------
(* What a client may rely on *)

(* A RESULT means that the source acknowledged the statement. *)
THEOREM ConfirmationTrue == ProxySpec => []ConfirmedOnSource
<1>1. ProxyInv => ConfirmedOnSource
  BY DEF ProxyInv
<1> QED
  BY ProxyInvariance, <1>1, PTL

(* The fallback never sends the source what it acknowledged to the writer. *)
THEOREM SourceWrittenOnce == ProxySpec => []NoDoubleSourceWrite
<1>1. ProxyInv => NoDoubleSourceWrite
  BY DEF ProxyInv
<1> QED
  BY ProxyInvariance, <1>1, PTL

(* Whatever is missing on the target although its client was told OK is a
   batch, was executed on a connection that did not prepare it, or got to the
   source by the fallback: what the source acknowledged to write() is not lost,
   and a raw frame carries nothing else. *)
THEOREM GapsKnown == ProxySpec => []NoOtherGap
<1>1. ProxyInv => NoOtherGap
  <2> SUFFICES ASSUME ProxyInv, NEW w \in confirmed, w \notin SourceOnly
               PROVE  w \in acked \union abandoned \union Pending \union Blacklisted
    BY DEF NoOtherGap
  <2>1. w \in accepted
    BY DEF ProxyInv, ConfirmedOnSource, GapInv
  <2>2. life = "up" /\ (pc # "idle" => w # cur)
    BY DEF ProxyInv, ThreadInv, RequestInv
  <2> QED
    BY <2>1, <2>2 DEF ProxyInv, IInv, Safety, NoSilentLoss, Owed
<1> QED
  BY ProxyInvariance, <1>1, PTL

(* What is proved of the writer alone holds behind the proxy, although frames
   reach the source past it: nothing owed to the target is lost. *)
THEOREM NothingLostBehindProxy == ProxySpec => []NoSilentLoss
<1>1. ProxyInv => NoSilentLoss
  BY DEF ProxyInv, IInv, Safety
<1> QED
  BY ProxyInvariance, <1>1, PTL

(* The promise of ShadowWrite is kept behind the proxy: for every statement
   that a client sends through write(), whatever other frames reach the source
   past it meanwhile. *)
THEOREM ProxyRefinement == ProxySpec => ImplementsShadowWrite
<1>1. ProxyInit => Shadow!ShadowInit
  BY RefineInit DEF ProxyInit
<1>2. ProxyInv /\ ProxyInv' /\ [ProxyNext]_allVars => [Shadow!ShadowNext]_(Shadow!shadowVars)
  <2> SUFFICES ASSUME ProxyInv, ProxyInv', [ProxyNext]_allVars
               PROVE  [Shadow!ShadowNext]_(Shadow!shadowVars)
    OBVIOUS
  <2>1. ASSUME NEW c \in Conns, SourceAnswer(c)
        PROVE  UNCHANGED Shadow!shadowVars
    <3>1. UNCHANGED <<ioVars, life, history>>
      BY <2>1 DEF SourceAnswer
    <3>2. \A w \in Writes : Unanswered(w)' <=> Unanswered(w)
      BY <3>1 DEF Unanswered, ioVars, history
    <3> QED
      BY <3>1, <3>2, Invisible DEF history
  <2>2. CASE \A c \in Conns : ~SourceAnswer(c)
    BY <2>2, WriterInside, RefineStep DEF ProxyInv, ProxyTypeOK
  <2> QED
    BY <2>1, <2>2
<1> QED
  BY <1>1, <1>2, ProxyInvariance, PTL DEF ProxySpec, ImplementsShadowWrite, Shadow!ShadowSpec

-----------------------------------------------------------------------------
(* GET /status and GET /metrics *)

USE DEF Counter

(* No step of the writer lowers a counter. *)
LEMMA CountersGrow ==
  ASSUME TypeOK, [Next]_vars, NEW c \in Counter
  PROVE  stats[c] \in Nat /\ stats'[c] >= stats[c]
<1>1. ASSUME NEW d \in Counter, Count(d)
      PROVE  stats'[c] >= stats[c]
  BY <1>1 DEF Count, TypeOK
<1>2. stats' = stats \/ \E d \in Counter : Count(d)
  BY DEF Next, WriteStep, RetryStep, WriteBegin, FilterGate, SourceExecute, TargetExecute, EnqueueFailedWrite,
     WriteReturn, RetryWake, RetryEmpty, RetrySnapshot, RetryDrop, RetryExecute, RetryApply, RetryExit,
     RequestStop, Destroy, vars
<1> QED
  BY <1>1, <1>2 DEF TypeOK

(* While the writer counts, a request that has loaded some of the counters
   is owed no more than the others hold. *)
LEMMA SnapWriter ==
  ASSUME StatsInv, [Next]_vars, UNCHANGED apiVars
  PROVE  StatsInv'
<1>1. IInv' /\ Finished'
  BY InvStep, FinishedStep DEF StatsInv, IInv
<1>2. /\ stats["successful"] \in Nat /\ stats'["successful"] >= stats["successful"]
      /\ stats["failed"] \in Nat /\ stats'["failed"] >= stats["failed"]
  BY CountersGrow DEF StatsInv, IInv
<1>3. stats'["successful"] \in Nat /\ stats'["failed"] \in Nat
  BY <1>1 DEF IInv, TypeOK
<1>4. snap["total"] \in Nat /\ snap["successful"] \in Nat
  BY DEF StatsInv, SnapTypeOK
<1> QED
  BY <1>1, <1>2, <1>3, <1>4 DEF StatsInv, SnapTypeOK, SnapInv, apiVars

(* A load in the order of LoadOrder, the total first. *)
LEMMA SnapLoad ==
  ASSUME StatsInv, Load
  PROVE  SnapTypeOK' /\ SnapInv'
<1>1. Fields = 7 /\ LoadOrder[1] = "total" /\ LoadOrder[2] = "successful" /\ LoadOrder[3] = "failed"
      /\ LoadOrder[4] = "retried" /\ LoadOrder[5] = "filtered" /\ LoadOrder[6] = "abandoned"
      /\ LoadOrder[7] = "pending"
  BY DEF Fields, LoadOrder
<1>2. Cardinality(Pending) \in Nat
  BY BalanceTypes DEF StatsInv, IInv
<1> DEFINE f == LoadOrder[loaded + 1]
           v == IF f = "pending" THEN Cardinality(Pending) ELSE stats[f]
<1>3. loaded \in 0 .. 6 /\ loaded' = loaded + 1 /\ snap' = [snap EXCEPT ![f] = v]
      /\ UNCHANGED stats
  BY <1>1 DEF Load, StatsInv, SnapTypeOK, vars
<1>4. f \in Counter \union {"pending"} /\ (f = "pending" <=> loaded = 6)
      /\ (f = "total" <=> loaded = 0) /\ (f = "successful" <=> loaded = 1) /\ (f = "failed" <=> loaded = 2)
  BY <1>1, <1>3
<1>5. v \in Nat
  BY <1>2, <1>4 DEF StatsInv, IInv, TypeOK
<1>6. snap \in [Counter \union {"pending"} -> Nat]
  BY DEF StatsInv, SnapTypeOK
<1> HIDE DEF f
<1>7. SnapTypeOK'
  BY <1>1, <1>3, <1>4, <1>5, <1>6 DEF SnapTypeOK
<1>8. stats["total"] \in Nat /\ stats["successful"] \in Nat /\ stats["failed"] \in Nat
      /\ stats["total"] <= stats["successful"] + stats["failed"] + 1
  BY DEF StatsInv, IInv, TypeOK, Finished
<1>9. CASE loaded = 0
  BY <1>3, <1>4, <1>6, <1>7, <1>8, <1>9 DEF SnapInv
<1>10. CASE loaded = 1
  BY <1>3, <1>4, <1>6, <1>7, <1>8, <1>10 DEF SnapInv, StatsInv
<1>11. CASE loaded = 2
  BY <1>3, <1>4, <1>6, <1>7, <1>8, <1>11 DEF SnapInv, StatsInv
<1>12. CASE loaded > 2
  BY <1>3, <1>4, <1>6, <1>7, <1>12 DEF SnapInv, StatsInv
<1> QED
  BY <1>3, <1>7, <1>9, <1>10, <1>11, <1>12

(* get_stats(): because the total is loaded first, an answer misses at most
   the write in progress, whatever is counted between the loads. *)
THEOREM OutcomesAnswered == StatsSpec => []OutcomesNotMissing
<1>1. StatsInit => StatsInv
  <2> SUFFICES ASSUME StatsInit PROVE StatsInv
    OBVIOUS
  <2>1. IInv
    BY InvInit DEF StatsInit
  <2>2. Finished
    BY DEF StatsInit, Init, Finished
  <2>3. SnapTypeOK /\ SnapInv
    BY DEF StatsInit, SnapTypeOK, SnapInv, Fields, LoadOrder
  <2> QED
    BY <2>1, <2>2, <2>3 DEF StatsInv
<1>2. StatsInv /\ [StatsNext]_statsVars => StatsInv'
  <2> SUFFICES ASSUME StatsInv, [StatsNext]_statsVars PROVE StatsInv'
    OBVIOUS
  <2>1. CASE WriterBeside \/ UNCHANGED statsVars
    BY <2>1, SnapWriter DEF WriterBeside, statsVars
  <2>2. CASE Load
    <3>1. IInv' /\ Finished'
      BY <2>2, InvStep, FinishedStep DEF Load, StatsInv, IInv
    <3> QED
      BY <2>2, <3>1, SnapLoad DEF StatsInv
  <2>3. CASE StatusRequest
    <3>1. IInv' /\ Finished'
      BY <2>3, InvStep, FinishedStep DEF StatusRequest, StatsInv, IInv
    <3>2. SnapTypeOK' /\ SnapInv'
      BY <2>3 DEF StatusRequest, StatsInv, SnapTypeOK, SnapInv, Fields, LoadOrder
    <3> QED
      BY <3>1, <3>2 DEF StatsInv
  <2> QED
    BY <2>1, <2>2, <2>3 DEF StatsNext
<1>3. StatsInv => OutcomesNotMissing
  BY DEF StatsInv, SnapInv, SnapTypeOK, OutcomesNotMissing, Answered, Fields, LoadOrder
<1> QED
  BY <1>1, <1>2, <1>3, PTL DEF StatsSpec
=============================================================================
