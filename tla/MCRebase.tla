------------------------------ MODULE MCRebase ------------------------------
(***************************************************************************)
(* Two instances of Rebase.  Three images whose parent fields are any that *)
(* three documents can have, one with an ID that another's begins with,    *)
(* and a short name that all begin with.  And five images, named by their  *)
(* IDs, that form one history: long enough for the loop that applies       *)
(* layers to run three times.                                              *)
(***************************************************************************)
EXTENDS Rebase

CONSTANTS a, b, c, g, h, short

Three      == {a, b, c}
ThreeNames == Three \cup {short}
ThreeDenote ==
  [n \in ThreeNames |-> IF n = short THEN Three ELSE IF n = a THEN {a, b} ELSE {n}]

AnyParentage == [Three -> Three \cup {NoParent}]

\* A rank for each image such that parents rank below their children.
Forests ==
  {f \in AnyParentage :
     \E rank \in [Three -> 1 .. 3] : \A x \in Three : f[x] \in Three => rank[f[x]] < rank[x]}

Five       == {a, b, c, g, h}
FiveDenote == [n \in Five |-> {n}]

\* a is the root and h the newest.
Chain ==
  {[n \in Five |-> CASE n = a -> NoParent [] n = b -> a [] n = c -> b [] n = g -> c
                     [] n = h -> g]}
=============================================================================
