------------------------ MODULE DualWriterRefinement ------------------------
(* DualWriter implements ShadowWrite. *)
EXTENDS DualWriter

(* write() has not yet heard from the source about w. *)
Unanswered(w) == \/ w \notin submitted
                 \/ w = cur /\ pc \in {"gate", "source", "source_only"}

(* The phase of w, read off the writer's state. *)
PhaseOf(w) ==
  IF w \in acked THEN "mirrored"
  ELSE IF w \in abandoned THEN "abandoned"
  ELSE IF w \in accepted THEN IF w \in Blacklisted THEN "exempt"
                              ELSE IF life = "destroyed" THEN "lost" ELSE "owed"
  ELSE IF Unanswered(w) THEN "new" ELSE "rejected"

Shadow == INSTANCE ShadowWrite WITH phase <- [w \in Writes |-> PhaseOf(w)], tries <- sent

(* The two threads, the queue and its snapshots implement the promise of
   ShadowWrite: every step of the code is one of its steps or leaves phases
   and tries alone. *)
ImplementsShadowWrite == Shadow!ShadowSpec

(* With both threads running the promise is kept: no owed statement waits
   forever. *)
ImplementsFairShadowWrite == Shadow!ShadowFairSpec
=============================================================================
