----------------------------- MODULE ShadowWrite -----------------------------
(***************************************************************************)
(* What the dual-writer promises about each statement, without threads,    *)
(* queue or snapshots: a statement the source accepted is owed to the      *)
(* target until the target acknowledges it or its attempts are used up;    *)
(* what is still owed when the writer shuts down is lost.                  *)
(***************************************************************************)
EXTENDS Integers

CONSTANTS Writes, MaxRetries

VARIABLES
  phase,   \* "new", "rejected", "exempt", "owed", "mirrored", "abandoned" or "lost"
  tries    \* shadow writes made for each statement

shadowVars == <<phase, tries>>

ShadowInit == phase = [w \in Writes |-> "new"] /\ tries = [w \in Writes |-> 0]

Move(w, from, to) == phase[w] = from /\ phase' = [phase EXCEPT ![w] = to]

(* The source answers: the statement is refused, or it is kept away from the
   target by the filter, or it is owed to the target. *)
Answer(w) == \E to \in {"rejected", "exempt", "owed"} : Move(w, "new", to) /\ UNCHANGED tries

(* The first shadow write is unconditional, max_retries allows the others. *)
Try(w) == /\ phase[w] = "owed"
          /\ tries[w] = 0 \/ tries[w] < MaxRetries
          /\ tries' = [tries EXCEPT ![w] = @ + 1]

Mirror(w) == Try(w) /\ Move(w, "owed", "mirrored")
Miss(w)   == Try(w) /\ UNCHANGED phase
GiveUp(w) == tries[w] > 0 /\ tries[w] >= MaxRetries /\ Move(w, "owed", "abandoned")
             /\ UNCHANGED tries

Settle(w) == Mirror(w) \/ Miss(w) \/ GiveUp(w)

(* Shutdown: what is owed stays undone. *)
Shutdown ==
  /\ phase' = [w \in Writes |-> IF phase[w] = "owed" THEN "lost" ELSE phase[w]]
  /\ UNCHANGED tries

ShadowNext == (\E w \in Writes : Answer(w) \/ Settle(w)) \/ Shutdown

ShadowSpec == ShadowInit /\ [][ShadowNext]_shadowVars

(* Every owed statement is tried until it is settled. *)
ShadowFairSpec == ShadowSpec /\ \A w \in Writes : WF_shadowVars(Settle(w))
=============================================================================
