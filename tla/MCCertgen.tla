------------------------------ MODULE MCCertgen ------------------------------
(***************************************************************************)
(* Certgen for TLC: two connections, two SAN lists that can be issued and  *)
(* one that validation refuses.                                            *)
(***************************************************************************)
EXTENDS Certgen

CONSTANTS SansA, SansB, SansBad

MCSanSets == {SansA, SansB, SansBad}
MCInvalid == {SansBad}
=============================================================================
