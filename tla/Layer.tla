------------------------------- MODULE Layer --------------------------------
(***************************************************************************)
(* type Layer of layer.go: the squashed layer, a map from archive names to *)
(* tar headers that Apply updates once per entry of every archive it reads.*)
(*                                                                         *)
(* lr.Files is split by kind of key: files[p] is the entry under the name  *)
(* p itself and white holds every p whose whiteout name "<dir>/.wh.<base>" *)
(* is a key.  A directory's key has no trailing slash (layer.go:62-66), so *)
(* a path has one key whatever its kind.                                   *)
(*                                                                         *)
(* The three actions are the three branches of the switch in Apply.  The   *)
(* branch for ".wh..wh." names falls through to the one that adds a file.  *)
(***************************************************************************)
EXTENDS Rootfs

VARIABLES
  files,   \* [Paths -> Entries \cup {Absent}]
  white    \* the paths with a whiteout key

layerVars == <<files, white>>

LayerTypeOK ==
  /\ files \in FileSystems
  /\ white \subseteq Paths

NewLayer ==
  /\ files = [p \in Paths |-> Absent]
  /\ white = {}

\* Mutant: undelete is not called.
UndeleteNothing(p) == white

\* A whiteout of p was recorded and p is back: its key goes.  Only the exact
\* key is looked up; a recorded whiteout of a directory above stays.
Undelete(p) == white \ {p}

\* case hdr.FileInfo().IsDir()
AddDir(p, e) ==
  /\ e \in Dirs
  /\ white' = Undelete(p)
  /\ files' = [files EXCEPT ![p] = e]

\* Mutant: ".wh..wh." names are taken for deletions.
AddFileNoMeta(p, e) ==
  /\ e \notin Dirs
  /\ white' = Undelete(p)
  /\ files' = IF p \in AufsMeta THEN files ELSE [files EXCEPT ![p] = e]

\* case ".wh..wh.", default: the content went to a temporary file first
AddFile(p, e) ==
  /\ e \notin Dirs
  /\ white' = Undelete(p)
  /\ files' = [files EXCEPT ![p] = e]

\* Mutant: only what is listed can be deleted.
ForgetWhiteout(p) ==
  /\ files[p] = Absent
  /\ UNCHANGED layerVars

\* case ".wh.": the deletion of a path no earlier layer listed is recorded, ...
RecordWhiteout(p) ==
  /\ files[p] = Absent
  /\ white' = white \cup {p}
  /\ UNCHANGED files

\* Mutant: the directory's own key goes, what is in it stays.
DropDirKey(p) ==
  /\ files[p] \in Dirs
  /\ files' = [files EXCEPT ![p] = Absent]
  /\ white' = white \ Beneath[p]

\* Mutant: the prefix is "<p>", which other names can begin with too.
DropPrefix(p) ==
  /\ files[p] \in Dirs
  /\ \E q \in Paths : files' = RemoveAll(RemoveAll(files, p), q)
  /\ white' = white \ Beneath[p]

\* ... that of a listed directory drops every key whose name starts with
\* "<p>/", the directory itself and the whiteouts below it included, ...
DropDir(p) ==
  /\ files[p] \in Dirs
  /\ files' = RemoveAll(files, p)
  /\ white' = white \ Beneath[p]

\* Mutant: the whiteout is ignored, but not the file dropped.
KeepFile(p) ==
  /\ files[p] \in Entries \ Dirs
  /\ UNCHANGED layerVars

\* ... and that of a listed file drops the file.
DropFile(p) ==
  /\ files[p] \in Entries \ Dirs
  /\ files' = [files EXCEPT ![p] = Absent]
  /\ UNCHANGED white

ApplyWhiteout(p) == RecordWhiteout(p) \/ DropDir(p) \/ DropFile(p)

-----------------------------------------------------------------------------
\* What unpacking the entries f and the whiteouts w over the file system fs
\* leaves there: the entries, and what fs had where no whiteout and no file
\* replacing a directory hides it.
Hidden(f, w, p) ==
  \/ p \in w
  \/ \E d \in Above(p) : d \in w \/ f[d] \in Entries \ Dirs

UnpackedBy(f, w, fs) ==
  [p \in Paths |-> IF f[p] # Absent THEN f[p]
                   ELSE IF Hidden(f, w, p) THEN Absent ELSE fs[p]]

\* ... and of the whole layer.  Module Repack writes and unpacks it key by key.
Unpacked(fs) == UnpackedBy(files, white, fs)
=============================================================================
