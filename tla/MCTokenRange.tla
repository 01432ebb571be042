----------------------------- MODULE MCTokenRange -----------------------------
(* A ring of 32 tokens, cut into 2 to 30 ranges with remainders from 0 to 12. *)
EXTENDS TokenRange

MCMinToken == -16
=============================================================================
