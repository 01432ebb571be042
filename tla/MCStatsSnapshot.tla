-------------------------- MODULE MCStatsSnapshot --------------------------
(* The writer with GET /status beside it: two statements on one row. *)
EXTENDS StatsSnapshot, DualWriterRefinement, TLC

CONSTANTS w1, w2, r1

MCWrites == {w1, w2}
MCRows == {r1}
MCRowOf == (w1 :> r1) @@ (w2 :> r1)
=============================================================================
