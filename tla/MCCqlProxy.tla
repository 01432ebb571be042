----------------------------- MODULE MCCqlProxy -----------------------------
(* Two clients: q is a plain statement, e a prepared one without bind
   markers, b a batch; the prepared one can be executed on the connection
   that did not prepare it.  p is a prepared statement with bind markers. *)
EXTENDS CqlProxy, TLC

CONSTANTS q, e, b, p, r1, c1, c2

MCConns == {c1, c2}
MCOneConn == {c1}
MCRows == {r1}

MCWrites == {q, e, b}
MCRowOf == [w \in MCWrites |-> r1]
MCHow == (q :> "query") @@ (e :> "execute") @@ (b :> "batch")
MCExecutable == {q, e}

MCBound == {p}
MCBoundRowOf == (p :> r1)
MCBoundHow == (p :> "execute")
=============================================================================
