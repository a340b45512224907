------------------------------- MODULE MCMesh -------------------------------
(***************************************************************************)
(* Mesh for TLC: two containers of two compose projects, a third one that   *)
(* certgen rejects, and two connections.  The connections are               *)
(* interchangeable, and so are the first two containers.                    *)
(***************************************************************************)
EXTENDS Mesh, TLC

CONSTANTS a, b, d, PA, PB, PD, c1, c2

MCProjectOf == [c \in {a, b, d} |-> CASE c = a -> PA [] c = b -> PB [] c = d -> PD]

(* Renaming both containers together with their projects changes nothing. *)
Swap == a :> b @@ b :> a @@ PA :> PB @@ PB :> PA
Same == [v \in {a, b, PA, PB} |-> v]

Symmetry == {p @@ s : p \in Permutations({c1, c2}), s \in {Swap, Same}}
=============================================================================
