------------------------------ MODULE MCLsmDB ------------------------------
(* Small instances of LsmDB for TLC: LsmStore.cfg, LsmWal.cfg. *)
EXTENDS LsmDB
=============================================================================
