---------------------------- MODULE GroupIndexMC ----------------------------
(***************************************************************************)
(* Small instances of GroupIndex.                                          *)
(***************************************************************************)
EXTENDS GroupIndex, TLC

\* Every group in one shard: the instance with the most lock conflicts.
OneShard == [g \in Group |-> 0]

Symmetry ==
  Permutations(Conn) \cup Permutations(Group) \cup Permutations(Task)
=============================================================================
