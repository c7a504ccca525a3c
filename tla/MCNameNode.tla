----------------------------- MODULE MCNameNode -----------------------------
(* Small instances of NameNode for TLC. *)
EXTENDS NameNode, TLC

\* No action or property names a path, a DataNode or a request.
Symmetry == Permutations(Paths) \cup Permutations(DataNodes) \cup Permutations(Calls)
=============================================================================
