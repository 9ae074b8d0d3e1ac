------------------------------- MODULE MCXcgc -------------------------------
(* The collector's heap: small, and with the odd sizes Str_concat requests. *)
EXTENDS Xcgc

MCSizes == {1, 5, 8, 16}
MCCapacities == {32, 48}
=============================================================================
