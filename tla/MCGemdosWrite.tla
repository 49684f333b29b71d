--------------------------- MODULE MCGemdosWrite ---------------------------
(***************************************************************************)
(* A small instance of GemdosWrite for TLC: two handles, a buffer of two   *)
(* bytes, files of up to three bytes, so that an Fwrite may fill the       *)
(* buffer, run over it or be kept out of it by the other handle.           *)
(***************************************************************************)
EXTENDS GemdosWrite

\* A new volume, and a buffer with old bytes in it.
MCStore0  == {[p \in Paths |-> NoFile]}
MCBuffer0 == {[k \in Place |-> 1]}

=============================================================================
