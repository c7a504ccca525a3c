----------------------------- MODULE MCRaftNode -----------------------------
(* Small instances of RaftNode for TLC. *)
EXTENDS RaftNode, TLC

\* Nodes and commands are interchangeable: no action or property names one.
Symmetry == Permutations(Nodes) \cup Permutations(Commands)
=============================================================================
