------------------------------- MODULE MCBump -------------------------------
(***************************************************************************)
(* The bump allocator on one or two pages of 16 bytes, with requests that  *)
(* leave it aligned and unaligned, are empty, and do not fit, and with a   *)
(* builder in it that starts below and at the size of a text, and a list.  *)
(***************************************************************************)
EXTENDS Containers

MCSizes == {0, 1, 5, 33}
MCCapacities == {0, 10, 20}
MCPieces == {<<"a">>, <<"b", "c", "d">>}
=============================================================================
