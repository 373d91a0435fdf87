---------------------------- MODULE RebasePromise ----------------------------
(***************************************************************************)
(* What Graph.Rebase promises of the images it was given: either an error, *)
(* or an image that keeps its ID, has the base as its parent, and whose    *)
(* layer stands for the layers of the images strictly between the two,     *)
(* oldest first.  How the images are found is left open.                   *)
(***************************************************************************)
EXTENDS Integers, Sequences

CONSTANTS Ids, Names, Denotes, NoParent, NoImage, Parentages

VARIABLES
  parent,    \* the parent fields of the archive
  image,     \* the names given
  base,
  images,    \* the images known so far
  failed,    \* an error was returned
  rimg       \* the image returned

vars == <<parent, image, base, images, failed, rimg>>

Init ==
  /\ parent \in Parentages
  /\ image \in Names /\ base \in Names
  /\ images = {}
  /\ failed = FALSE
  /\ rimg = NoImage

Open == ~failed /\ rimg = NoImage

\* An exact ID is never read as a prefix.
Named(name) == IF name \in images THEN {name} ELSE Denotes[name] \cap images

\* The layers lead from an image above b, child after child, to below x.
IsStretch(b, layers, x) ==
  LET path == <<b>> \o layers
  IN  /\ \A k \in 1 .. Len(layers) : parent[path[k + 1]] = path[k]
      /\ x # b => parent[x] = path[Len(path)]
      /\ x = b => layers = <<>>

Learn ==
  /\ Open
  /\ \E x \in Ids : images' = images \cup {x}
  /\ UNCHANGED <<parent, image, base, failed, rimg>>

Return ==
  /\ Open
  /\ rimg' # NoImage
  /\ rimg'.id \in Named(image)
  /\ rimg'.parent \in Named(base)
  /\ IsStretch(rimg'.parent, rimg'.layers, rimg'.id)
  /\ UNCHANGED <<parent, image, base, images, failed>>

Refuse ==
  /\ Open
  /\ failed' = TRUE
  /\ UNCHANGED <<parent, image, base, images, rimg>>

Next == Learn \/ Return \/ Refuse

Spec == Init /\ [][Next]_vars
==============================================================================
