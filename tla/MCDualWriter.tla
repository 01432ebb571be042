---------------------------- MODULE MCDualWriter ----------------------------
(* Small instances of DualWriter. *)
EXTENDS DualWriterRefinement, TLC

CONSTANTS w1, w2, w3, w4, r1, r2

MCWrites == {w1, w2, w3, w4}
MCRows == {r1, r2}

(* w1 and w2 write the same row: a retry of w1 can follow w2. *)
MCRowOf == (w1 :> r1) @@ (w2 :> r1) @@ (w3 :> r2) @@ (w4 :> r2)
MCExecutable == MCWrites
(* w4 goes to a table the filter skips. *)
MCBlacklisted == {w4}
=============================================================================
