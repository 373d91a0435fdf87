------------------------------- MODULE Graph --------------------------------
(***************************************************************************)
(* type Graph of graph.go: the images an archive described, by ID, and the *)
(* layer archives kept as image.<id>.tar in its working directory.         *)
(*                                                                         *)
(* Load reads an archive entry by entry and knows two kinds, <id>/json and *)
(* <id>/layer.tar, in whatever order they come; it checks neither that an  *)
(* image has both nor that a parent is there.  Names are what a user types *)
(* for an image; a name denotes the IDs it is a prefix of.                 *)
(*                                                                         *)
(* The working directory can be one that other runs use too, before this   *)
(* one (-workdir keeps it) or at the same time (without -workdir it is the *)
(* shared temporary directory).  Nothing locks or renames a file in it.    *)
(* Two runs need not mean the same layer by an ID: a rebased image keeps   *)
(* the ID of the image it is made of (Clone in Rebase, SaveFile).          *)
(***************************************************************************)
CONSTANTS
  Ids,        \* image IDs
  Names,      \* what can stand on the command line
  Denotes,    \* Denotes[n]: the IDs that start with n
  Shared      \* the IDs whose layers other runs in the directory read as well

ASSUME NamesAssumption ==
  /\ Ids \subseteq Names
  /\ Denotes \in [Names -> SUBSET Ids]
  /\ \A id \in Ids : id \in Denotes[id]

ASSUME SharedAssumption == Shared \subseteq Ids

VARIABLES
  images,     \* the keys of gr.Images
  tarballs,   \* what is at gr.ImageRoot(id)
  writing,    \* the ID whose tarball this run is writing, if any
  copying,    \* the IDs whose tarballs other runs are writing
  disturbed   \* history: the IDs whose tarballs other runs had open for writing
              \* when this run last created them, or later

graphVars == <<images, tarballs, writing, copying, disturbed>>

\* No file; part or all of what this run was given to write, and nothing else;
\* or anything that another run had a hand in.
TarballStates == {"missing", "part", "whole", "foreign"}

GraphTypeOK ==
  /\ images \subseteq Ids
  /\ tarballs \in [Ids -> TarballStates]
  /\ writing \subseteq Ids
  /\ copying \subseteq Shared
  /\ disturbed \subseteq Shared

\* NewGraph: no images, but the directory may have been used before, and other
\* runs may be in the middle of a file.
NewGraph ==
  /\ images = {}
  /\ writing = {}
  /\ \E kept \in SUBSET Shared :
       /\ tarballs = [id \in Ids |-> IF id \in kept THEN "foreign" ELSE "missing"]
       /\ copying \in SUBSET kept
  /\ disturbed = copying

\* An entry <id>/json: read, parsed and added.
LoadJson(id) ==
  /\ images' = images \cup {id}
  /\ UNCHANGED <<tarballs, writing, copying, disturbed>>

\* Mutant: a file that is there is taken for the layer.
CreateLayerOnce(id) ==
  /\ writing' = {id}
  /\ tarballs' = [tarballs EXCEPT ![id] = IF @ = "missing" THEN "part" ELSE @]
  /\ disturbed' = IF id \in copying THEN disturbed \cup {id} ELSE disturbed \ {id}
  /\ UNCHANGED <<images, copying>>

\* An entry <id>/layer.tar: os.Create makes the file or truncates the one of its
\* name.  A run that has that one open goes on writing into it where it was.
CreateLayer(id) ==
  /\ writing' = {id}
  /\ tarballs' = [tarballs EXCEPT ![id] = IF id \in copying THEN "foreign" ELSE "part"]
  /\ disturbed' = IF id \in copying THEN disturbed \cup {id} ELSE disturbed \ {id}
  /\ UNCHANGED <<images, copying>>

\* io.Copy has written the entry, and the file is closed.
FinishLayer(id) ==
  /\ id \in writing
  /\ writing' = {}
  /\ tarballs' = [tarballs EXCEPT ![id] = IF @ = "part" THEN "whole" ELSE @]
  /\ UNCHANGED <<images, copying, disturbed>>

\* The copy breaks off: the file is closed with what it has.
LeaveLayer ==
  /\ writing' = {}
  /\ UNCHANGED <<images, tarballs, copying, disturbed>>

\* Another run comes to its entry <id>/layer.tar: whatever is there is truncated.
AnotherCreates(id) ==
  /\ id \in Shared
  /\ tarballs' = [tarballs EXCEPT ![id] = "foreign"]
  /\ copying' = copying \cup {id}
  /\ disturbed' = disturbed \cup {id}
  /\ UNCHANGED <<images, writing>>

\* The runs that were writing the file have finished, failed or been killed.
AnotherCloses(id) ==
  /\ id \in copying
  /\ copying' = copying \ {id}
  /\ UNCHANGED <<images, tarballs, writing, disturbed>>

\* Mutant: the exact key is not tried first.
AnyMatch(name) == Denotes[name] \cap images

\* expandID: a name that is a key is itself.  Otherwise the loop over the map
\* keeps the last match of an order that Go leaves open; the test for a second
\* match asks for an error that no earlier line can have set.
Expansions(name) ==
  IF name \in images THEN {name} ELSE Denotes[name] \cap images
=============================================================================
