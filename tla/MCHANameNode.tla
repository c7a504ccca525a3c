---------------------------- MODULE MCHANameNode ----------------------------
(* Small instances of HANameNode for TLC. *)
EXTENDS HANameNode, TLC

CONSTANTS create, allocate, delete, p1

MCOpOf == create :> "create" @@ allocate :> "allocate" @@ delete :> "delete"
MCPathOf == [v \in Commands |-> p1]

\* No action or property names a server.
Symmetry == Permutations(Nodes)
=============================================================================
