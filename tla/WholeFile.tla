------------------------------ MODULE WholeFile ------------------------------
(***************************************************************************)
(* What a caller of atomicWrite (reconcile.go) relies on: a file that at    *)
(* any instant holds one content somebody wrote as a whole, or is missing.  *)
(* A call publishes its content or changes nothing.  Until the file system  *)
(* has settled, a crash of the machine may bring back an earlier content,   *)
(* but never a mixture and never one that was settled over.                 *)
(***************************************************************************)
CONSTANTS Contents,  \* what may be written
          Missing    \* the file does not exist

VARIABLES shown,     \* what a reader of the file gets
          recent     \* what a crash of the machine may leave of it

vars == <<shown, recent>>

Init ==
    /\ shown = Missing
    /\ recent = {Missing}

Publish(v) ==
    /\ shown' = v
    /\ recent' = recent \cup {v}

Settle ==
    /\ recent' = {shown}
    /\ UNCHANGED shown

PowerFailure ==
    /\ shown' \in recent
    /\ recent' = {shown'}

Next == Settle \/ PowerFailure \/ \E v \in Contents : Publish(v)

Spec == Init /\ [][Next]_vars
=============================================================================
