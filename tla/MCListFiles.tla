---------------------------- MODULE MCListFiles -----------------------------
(* ListFiles with four directory entries, for TLC: paths shorter than the  *)
(* limit, and longer.                                                      *)
EXTENDS ListFiles
=============================================================================
