------------------------------ MODULE MCTakeover ------------------------------
(* Instance of Takeover for TLC: the primary suffix and another one, and    *)
(* lists with each mark.                                                   *)
EXTENDS Takeover
CONSTANTS main, orbLocal
MCLists == {{}, {orbLocal}, {orbLocal, main}, {orbLocal, main, Gap}, {Comma}, {orbLocal, Bad}}
=============================================================================
