---------------------------- MODULE SendPolicyMC ----------------------------
(***************************************************************************)
(* Small instances of SendPolicy.                                          *)
(***************************************************************************)
EXTENDS SendPolicy, TLC

Symmetry == Permutations(Conn) \cup Permutations(Task)
=============================================================================
