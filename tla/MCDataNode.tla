----------------------------- MODULE MCDataNode -----------------------------
(* Small instances of DataNode for TLC. *)
EXTENDS DataNode

CONSTANTS d1, d2
TwoNodes == <<d1, d2>>
=============================================================================
