------------------------------- MODULE MCRootCA -------------------------------
(* Instance of RootCA for TLC: one peer (peers do not meet), and a CA that   *)
(* is replaced twice.                                                      *)
EXTENDS RootCA
=============================================================================
