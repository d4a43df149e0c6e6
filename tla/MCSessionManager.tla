-------------------------- MODULE MCSessionManager --------------------------
(***************************************************************************)
(* SessionManager for TLC: session IDs are interchangeable.                 *)
(***************************************************************************)
EXTENDS SessionManager, TLC

IdSymmetry == Permutations(Ids)
=============================================================================
