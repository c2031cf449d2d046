------------------------------ MODULE MCEntry -------------------------------
(***************************************************************************)
(* Entry for TLC: u2's client may send the Idempotency-Key u1's sends, and *)
(* u1 has a page at p1 now and then.                                      *)
(***************************************************************************)
EXTENDS Entry, TLC

CONSTANTS u1, u2, k1, k2, p1, p2

SomeShared == u1 :> {k1} @@ u2 :> {k1, k2}
OnePage == {<<p1, u1>>}
=============================================================================
