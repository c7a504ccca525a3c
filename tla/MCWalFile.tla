----------------------------- MODULE MCWalFile ------------------------------
(* Small instances of WalFile for TLC. *)
EXTENDS WalFile

\* The empty string, one as long as a length of one byte allows, with a byte that
\* has the top bit set and one that looks like a type or a length, and one too long.
MCStrings == {<<>>, <<5, 1>>, <<1, 1, 1>>}
=============================================================================
