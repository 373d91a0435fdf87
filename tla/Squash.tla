------------------------------- MODULE Squash -------------------------------
(***************************************************************************)
(* Layer.Apply called on one layer archive after another (graph.go:150-155)*)
(* beside what Docker makes of the same archives: rootfs is the file       *)
(* system that unpacking them entry by entry over the base image gives.    *)
(*                                                                         *)
(* The archives are chosen as they are read: the next header is any one    *)
(* that a storage driver can put there when it writes the difference       *)
(* between two images, given the file system so far and the paths already  *)
(* in this archive.  Shapes says which of two looser forms occur:          *)
(*   "implicit" - a path whose unchanged directories are not listed (the   *)
(*                generic driver, archive.ChangesDirs, to which only a     *)
(*                file that comes or goes changes the directory it is in;  *)
(*                the aufs driver lists them all);                         *)
(*   "retype"   - a directory replaced by a file, or the reverse, of which *)
(*                an archive only tells the new entry (any driver: the     *)
(*                aufs driver packs its directory of the layer, and a file *)
(*                made in place of a directory is all that is left there). *)
(* So Shapes = {"retype"} is all that the aufs driver writes.              *)
(***************************************************************************)
EXTENDS Layer, Naturals

CONSTANTS
  Shapes,     \* the looser forms that occur, a subset of AllShapes
  NumLayers   \* how many archives the loop of Rebase applies

AllShapes == {"implicit", "retype"}

ASSUME SquashAssumption ==
  /\ Shapes \subseteq AllShapes
  /\ NumLayers \in Nat

VARIABLES
  base,       \* the file system of the base image
  rootfs,     \* base with every entry read so far unpacked over it
  seen,       \* the paths the current archive has mentioned
  layer,      \* how many archives have been read to the end
  status,     \* "applying", "done", or "failed" when Apply returned an error
  listed,     \* history: paths that some archive added or changed
  deleted,    \* history: paths that some archive whited out
  retyped     \* history: paths an archive made a file of a directory, or the reverse

vars == <<files, white, base, rootfs, seen, layer, status, listed, deleted,
          retyped>>

TypeOK ==
  /\ LayerTypeOK
  /\ base \in FileSystems
  /\ rootfs \in FileSystems
  /\ seen \subseteq Paths
  /\ layer \in 0 .. NumLayers
  /\ status \in {"applying", "done", "failed"}
  /\ listed \subseteq Paths
  /\ deleted \subseteq Paths
  /\ retyped \subseteq Paths

Init ==
  /\ base \in {fs \in FileSystems : WellFormed(fs)}
  /\ rootfs = base
  /\ NewLayer
  /\ seen = {}
  /\ layer = 0
  /\ status = IF NumLayers = 0 THEN "done" ELSE "applying"
  /\ listed = {}
  /\ deleted = {}
  /\ retyped = {}

-----------------------------------------------------------------------------
(* What the storage driver can have written next. *)

\* A difference mentions a path once, a directory before what is in it, and
\* nothing below a path it deletes or replaces.
Mentionable(p) ==
  /\ Tree(p) \cap seen = {}
  /\ \A d \in Above(p) : rootfs[d] \in Dirs \/ d \in AufsMeta
  /\ "implicit" \in Shapes \/ Above(p) \subseteq seen

\* The directory that p is in, the innermost above it, is listed.
ParentListed(p) ==
  \A d \in Above(p) : d \in seen \/ \E q \in Above(p) : q \in Beneath[d]

SameKind(p, e) ==
  rootfs[p] \in Entries => (rootfs[p] \in Dirs <=> e \in Dirs)

Addable(p, e) ==
  /\ Mentionable(p)
  /\ "retype" \in Shapes \/ SameKind(p, e)
  /\ ParentListed(p) \/ (rootfs[p] # Absent /\ SameKind(p, e))

Deletable(p) ==
  /\ Mentionable(p)
  /\ ParentListed(p)
  /\ rootfs[p] # Absent

-----------------------------------------------------------------------------
(* One iteration of the loop of Layer.Apply. *)

ReadAddition(p, e) ==
  /\ status = "applying"
  /\ Addable(p, e)
  /\ AddDir(p, e) \/ AddFile(p, e)
  /\ rootfs' = Extract(rootfs, p, e)
  /\ seen' = seen \cup {p}
  /\ listed' = listed \cup {p}
  /\ retyped' = IF SameKind(p, e) THEN retyped ELSE retyped \cup {p}
  /\ UNCHANGED <<base, layer, status, deleted>>

ReadWhiteout(p) ==
  /\ status = "applying"
  /\ Deletable(p)
  /\ ApplyWhiteout(p)
  /\ rootfs' = RemoveAll(rootfs, p)
  /\ seen' = seen \cup {p}
  /\ deleted' = deleted \cup {p}
  /\ UNCHANGED <<base, layer, status, listed, retyped>>

\* Mutant: the loop goes round once more.
EndOfArchiveOnceMore ==
  /\ status = "applying"
  /\ layer' = layer + 1
  /\ status' = IF layer = NumLayers THEN "done" ELSE "applying"
  /\ seen' = {}
  /\ UNCHANGED <<files, white, base, rootfs, listed, deleted, retyped>>

\* tr.Next() returns io.EOF: on to the next archive, or out of Rebase's loop.
EndOfArchive ==
  /\ status = "applying"
  /\ layer' = layer + 1
  /\ status' = IF layer' = NumLayers THEN "done" ELSE "applying"
  /\ seen' = {}
  /\ UNCHANGED <<files, white, base, rootfs, listed, deleted, retyped>>

\* os.Open, tr.Next, TempFile or io.Copy fails: Apply returns before it
\* touches lr.Files for the entry at hand.
ApplyError ==
  /\ status = "applying"
  /\ status' = "failed"
  /\ UNCHANGED <<files, white, base, rootfs, seen, layer, listed, deleted, retyped>>

Next ==
  \/ \E p \in Paths, e \in Entries : ReadAddition(p, e)
  \/ \E p \in Paths : ReadWhiteout(p)
  \/ EndOfArchive
  \/ ApplyError

Spec == Init /\ [][Next]_vars

-----------------------------------------------------------------------------
(* What the squashed layer must be. *)

Extracted == Paths \ AufsMeta

\* No archive replaced the path, or a directory above it, by an entry of the
\* other kind.  Where one did, Apply leaves the keys below in place.
Steady(p) == ({p} \cup Above(p)) \cap retyped = {}

\* Nothing is lost: whatever the layers leave in the file system, the squashed
\* layer unpacked over the base leaves there too, at every moment of the loop.
\* (The overwrite, undelete and removal branches of Apply together.)
NothingLost ==
  \A p \in Extracted : rootfs[p] # Absent => Unpacked(base)[p] = rootfs[p]

\* A whiteout key is kept only for a path that is gone, so writing it out can
\* never delete something a later layer put back (Layer.undelete's purpose).
WhiteoutsAreGone ==
  \A p \in white : rootfs[p] = Absent

\* Nothing leaks: where every archive lists the directories above its entries,
\* an entry that an archive added and a later one removed, overwrote or removed
\* with its directory is not in the squashed layer, unless the path or one
\* above it changed between directory and file.
NothingLeaks ==
  "implicit" \notin Shapes =>
    \A p \in Extracted : Steady(p) => files[p] \in {Absent, rootfs[p]}

\* Where nothing changed between directory and file, and the directories above
\* every entry are listed, the squashed layer differs from the layers it stands
\* for in one way only: it may leave a file of the base image that they removed.
OnlyBaseContentReturns ==
  "implicit" \notin Shapes =>
    \A p \in Extracted :
      Steady(p) =>
        Unpacked(base)[p] \in {rootfs[p]} \cup (IF rootfs[p] = Absent THEN {base[p]} ELSE {})

\* ... and that only where the layers both listed and deleted the path or a
\* directory above it: a plain deletion of base content is always kept, whatever
\* the archives list.
DeletionsKept ==
  \A p \in Extracted :
    Steady(p) /\ rootfs[p] = Absent =>
      \/ base[p] = Absent
      \/ \E q \in {p} \cup Above(p) : q \in white \/ q \in listed \cap deleted

\* Where the archives list the directories above their entries, so does the
\* squashed layer: every key has those above it listed as directories, so Docker
\* neither invents one nor meets a file in its place.  One that an archive put in
\* place of a file, or a file in its place, is excepted.
ParentsListed ==
  "implicit" \notin Shapes =>
    \A p \in Paths :
      files[p] # Absent \/ p \in white =>
        \A d \in Above(p) \cap Extracted : Steady(d) => files[d] \in Dirs

\* aufs metadata is carried into the squashed layer, never taken for a deletion,
\* and goes only with a directory that a layer deleted.
MetadataIsKept ==
  \A m \in AufsMeta \cap listed : files[m] # Absent \/ Above(m) \cap deleted # {}

-----------------------------------------------------------------------------
(* The inductive invariant: what Apply maintains about each key. *)

\* NothingLost key by key: what is in the file system is listed as it is, or is
\* not listed and comes from the base image unchanged.
ListedOrBase ==
  \A p \in Extracted :
    rootfs[p] # Absent =>
      \/ files[p] = rootfs[p]
      \/ /\ files[p] = Absent
         /\ base[p] = rootfs[p]

\* What the current archive has put there is listed.
SeenIsListed ==
  \A p \in seen \cap Extracted : rootfs[p] # Absent => files[p] = rootfs[p]

\* The histories cover the keys they are the history of.
KeysHaveHistory ==
  /\ \A p \in Paths : files[p] # Absent => p \in listed
  /\ white \subseteq deleted \cap Extracted

\* The loop runs exactly while there are archives left.
ArchivesLeft == status = "applying" => layer \in 0 .. (NumLayers - 1)

IInv ==
  /\ TypeOK
  /\ ArchivesLeft
  /\ WellFormed(rootfs)
  /\ ListedOrBase
  /\ SeenIsListed
  /\ KeysHaveHistory
  /\ WhiteoutsAreGone
  /\ NothingLeaks
  /\ ParentsListed
  /\ DeletionsKept
  /\ MetadataIsKept

-----------------------------------------------------------------------------
(* What the repository says and the code does not do; each is the property *)
(* of a run that shows the violation.                                      *)

\* "Remove base-supplied files" (features/fixtures/smoke/Dockerfile:4), "the
\* image should delete ..." (features/kitchen-sink.feature:47): what the build
\* deleted is gone from the rebased image.
DeletedStaysDeleted ==
  \A p \in Extracted : rootfs[p] = Absent => Unpacked(base)[p] = Absent

\* "the image should not add ..." (features/kitchen-sink.feature:44 and 53): what
\* one step of the build added and a later one removed is not in the layer.
RemovedIsNotAdded ==
  \A p \in Extracted : rootfs[p] = Absent => files[p] = Absent

\* "File addition / overwrite" (layer.go:72): adding a file where there was a
\* directory overwrites the directory, it does not leave its contents listed.
OverwriteReplaces ==
  \A p \in Extracted : files[p] # Absent => \A d \in Above(p) : files[d] \notin Entries \ Dirs
=============================================================================
