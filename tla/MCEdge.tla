------------------------------- MODULE MCEdge -------------------------------
(***************************************************************************)
(* Edge for TLC: two containers of two compose projects, two connections.  *)
(* The connections are interchangeable, and so are the containers.         *)
(***************************************************************************)
EXTENDS Edge, TLC

CONSTANTS a, b, PA, PB, c1, c2

MCProjectOf == [c \in {a, b} |-> IF c = a THEN PA ELSE PB]

(* Renaming both containers together with their projects changes nothing. *)
Swap == a :> b @@ b :> a @@ PA :> PB @@ PB :> PA
Same == [v \in {a, b, PA, PB} |-> v]

Symmetry == {p @@ s : p \in Permutations({c1, c2}), s \in {Swap, Same}}
=============================================================================
