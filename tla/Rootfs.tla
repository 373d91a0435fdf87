------------------------------- MODULE Rootfs -------------------------------
(***************************************************************************)
(* Root file systems and what unpacking a layer archive does to them.      *)
(*                                                                         *)
(* docker-rebase squashes layers so that Docker can unpack the result over *)
(* the base image.  What Docker does with a layer is therefore the         *)
(* reference its squashing is measured against: archive.ApplyLayer of the  *)
(* Docker library (Godeps/.../docker/archive/diff.go), one archive entry   *)
(* at a time.                                                              *)
(*                                                                         *)
(* A path is opaque: Beneath gives the paths strictly below it, which is   *)
(* all that the code's path.Dir, path.Base and "name/" prefixes tell       *)
(* apart.  A whiteout, the file ".wh.<base>" in the directory of p, stands *)
(* for the deletion of p and is written as a fact about p.                 *)
(***************************************************************************)
CONSTANTS
  Paths,      \* the cleaned names that can occur in an archive
  Beneath,    \* Beneath[p]: the paths strictly below p
  Entries,    \* tar headers with their contents, opaque
  Dirs,       \* the headers with FileInfo().IsDir()
  AufsMeta,   \* paths whose base name starts with ".wh..wh.", and their contents
  Absent      \* "there is nothing at this path"

ASSUME PathsAssumption ==
  /\ Beneath \in [Paths -> SUBSET Paths]
  /\ \A p \in Paths : p \notin Beneath[p]
  /\ \A p \in Paths : \A q \in Beneath[p] : Beneath[q] \subseteq Beneath[p]

ASSUME EntriesAssumption ==
  /\ Dirs \subseteq Entries
  /\ Absent \notin Entries

\* The names under which aufs keeps its own state (".wh..wh.plnk/...", or
\* ".wh..wh..opq" in a directory): what is below one is metadata too.
ASSUME AufsAssumption ==
  /\ AufsMeta \subseteq Paths
  /\ \A m \in AufsMeta : Beneath[m] \subseteq AufsMeta

Above(p) == {d \in Paths : p \in Beneath[d]}
Tree(p)  == {p} \cup Beneath[p]

\* A file system, or the part of one that an archive describes.
FileSystems == [Paths -> Entries \cup {Absent}]

\* What a real file system looks like: only directories have contents, and
\* the aufs metadata is never part of the mounted tree.
WellFormed(fs) ==
  /\ \A d \in Paths : fs[d] \notin Dirs => \A q \in Beneath[d] : fs[q] = Absent
  /\ \A m \in AufsMeta : fs[m] = Absent

\* os.RemoveAll: the path and everything below it.
RemoveAll(fs, p) == [q \in Paths |-> IF q \in Tree(p) THEN Absent ELSE fs[q]]

\* The entry's file or directory, with the header's attributes; a directory that
\* is there gets the attributes only.
CreateTarFile(fs, p, e) == [fs EXCEPT ![p] = e]

\* An addition replaces what is at its path, except that a directory is merged
\* into an existing directory.  aufs metadata is skipped: at the root by name,
\* in a directory because ".wh..wh..opq" reads as the deletion of ".wh..opq".
Extract(fs, p, e) ==
  IF p \in AufsMeta THEN fs
  ELSE IF fs[p] \in Dirs /\ e \in Dirs THEN CreateTarFile(fs, p, e)
  ELSE CreateTarFile(RemoveAll(fs, p), p, e)
=============================================================================
