----------------------------- MODULE MCRefcount -----------------------------
(* Refcount instantiated for TLC: a 2-bit counter, so that saturation at  *)
(* UINT_MAX and the wrap of the unchecked calls are reached.               *)
EXTENDS Refcount

MCOps == {"inc_not_zero", "dec_not_one", "dec_and_test", "inc", "dec"}
=============================================================================
