---------------------------- MODULE MCEnumerate -----------------------------
(* Enumerate on a small instance, for TLC.                                 *)
EXTENDS EnumerateInv
=============================================================================
