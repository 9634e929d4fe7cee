----------------------------- MODULE MCLiveApi -----------------------------
(* Model values for checking LiveApi. *)
EXTENDS LiveApi

CONSTANTS p, c1, c2, u1, u2, s1, s2
=============================================================================
