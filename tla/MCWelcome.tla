------------------------------ MODULE MCWelcome ------------------------------
(* Instance of Welcome for TLC: two requests on one of two addresses. *)
EXTENDS Welcome, TLC
CONSTANTS a1, a2, r1, r2, r3
MCAddrOf == r1 :> a1 @@ r2 :> a1 @@ r3 :> a2
=============================================================================
