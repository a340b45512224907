---------------------------- MODULE MCAtomicWrite ----------------------------
(* Instance of AtomicWrite for TLC: every failure at every system call. *)
EXTENDS AtomicWrite
=============================================================================
