----------------------------- MODULE MCMigration -----------------------------
(* A ring of eight tokens in one or three ranges: a short last batch, and a  *)
(* remainder of the division.                                                *)
EXTENDS Migration

MCMinToken == -4
=============================================================================
