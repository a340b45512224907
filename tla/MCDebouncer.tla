----------------------------- MODULE MCDebouncer -----------------------------
(* Instance of Debouncer for TLC. *)
EXTENDS Debouncer
=============================================================================
