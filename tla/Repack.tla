------------------------------- MODULE Repack -------------------------------
(***************************************************************************)
(* Layer.Save after the last Layer.Apply, and what Docker makes of the     *)
(* archive it writes: every entry is unpacked over the base image as soon  *)
(* as it is written, by ApplyLayer of Docker's library.                    *)
(*                                                                         *)
(* Save sorts the keys as strings.  A directory's key is a prefix of the   *)
(* keys in it and so comes before them; the order of any other two keys,   *)
(* of ".wh.x" and "x" also, depends on how they are spelled and is left    *)
(* open here.                                                              *)
(***************************************************************************)
EXTENDS Squash

CONSTANT Bare  \* the directory that ApplyLayer makes where one is missing

ASSUME RepackAssumption == Bare \in Dirs

VARIABLES
  saved,      \* what Save returned: "not called", "pending", "ok", "error"
  unsaved,    \* the keys it has still to write
  out,        \* the base with the written keys unpacked over it
  loads       \* Docker has taken them all

saveVars == <<saved, unsaved, out, loads>>
repackVars == <<vars, saveVars>>

\* The keys of lr.Files.
Keys ==
  {<<"entry", p>> : p \in {q \in Paths : files[q] # Absent}}
    \cup {<<"whiteout", p>> : p \in white}

RepackTypeOK ==
  /\ TypeOK
  /\ saved \in {"not called", "pending", "ok", "error"}
  /\ unsaved \subseteq Keys
  /\ out \in FileSystems
  /\ loads \in BOOLEAN

RepackInit ==
  /\ Init
  /\ saved = "not called"
  /\ unsaved = {}
  /\ out = base
  /\ loads = TRUE

-----------------------------------------------------------------------------
(* Docker reads an entry. *)

\* MkdirAll of the directories a name needs: for every entry, before it is known
\* to be a whiteout or metadata.  It stops at a file.
MadeParents(fs, p) ==
  [q \in Paths |->
     IF q \in Above(p) \ AufsMeta /\ fs[q] = Absent THEN Bare ELSE fs[q]]

\* Something above p is no directory.
Blocked(fs, p) == \E d \in Above(p) : fs[d] \in Entries \ Dirs

\* RemoveAll finds nothing below a file, and an addition fails there.
Unpack(kind, p) ==
  LET fs == IF Blocked(out, p) THEN out ELSE MadeParents(out, p)
  IN  IF kind = "whiteout"
        THEN out' = RemoveAll(fs, p) /\ UNCHANGED loads
        ELSE IF Blocked(out, p) /\ p \notin AufsMeta
          THEN loads' = FALSE /\ UNCHANGED out
          ELSE out' = Extract(fs, p, files[p]) /\ UNCHANGED loads

-----------------------------------------------------------------------------
(* Save. *)

StartSave ==
  /\ status = "done" /\ saved = "not called"
  /\ saved' = "pending"
  /\ unsaved' = Keys
  /\ UNCHANGED <<vars, out, loads>>

\* Mutant: the keys are written in the order of the map.
MapOrder(k) == k \in unsaved

\* A key whose turn it can be: those of the directories above it are written.
Sorted(k) ==
  /\ k \in unsaved
  /\ \A d \in Above(k[2]) : <<"entry", d>> \notin unsaved

\* Header, and content from the temporary file.  Docker stops at what it refuses.
WriteKey(k) ==
  /\ saved = "pending"
  /\ Sorted(k)
  /\ unsaved' = unsaved \ {k}
  /\ IF loads THEN Unpack(k[1], k[2]) ELSE UNCHANGED <<out, loads>>
  /\ UNCHANGED <<vars, saved>>

\* WriteHeader, WithOpen or io.Copy fails.
SaveError ==
  /\ saved = "pending"
  /\ saved' = "error"
  /\ UNCHANGED <<vars, unsaved, out, loads>>

\* return nil, whatever the deferred tw.Close says: it writes the padding of the
\* last entry and the trailer, and a reader takes an archive without them for one
\* that ends there.
SaveReturns ==
  /\ saved = "pending" /\ unsaved = {}
  /\ saved' = "ok"
  /\ UNCHANGED <<vars, unsaved, out, loads>>

RepackNext ==
  \/ Next /\ UNCHANGED saveVars
  \/ StartSave
  \/ \E k \in {"entry", "whiteout"} \X Paths : WriteKey(k)
  \/ SaveError
  \/ SaveReturns

RepackSpec == RepackInit /\ [][RepackNext]_repackVars

-----------------------------------------------------------------------------
(* What the saved layer must be. *)

\* Where the archives list the directories above their entries, Docker takes the
\* saved layer, in whatever order its keys were sorted, unless some path changed
\* between directory and file; and unpacking it one entry after another then
\* gives what the keys say together, but for what is below such a path.
SavedUnpacks ==
  saved = "ok" /\ "implicit" \notin Shapes =>
    /\ retyped = {} => loads
    /\ loads => \A p \in Extracted : Steady(p) => out[p] = Unpacked(base)[p]

\* Whatever the drivers listed: if Docker takes the saved layer, then everything
\* the layers left in the file system is there, whole.
LoadedLosesNothing ==
  saved = "ok" /\ loads =>
    \A p \in Extracted : rootfs[p] # Absent => out[p] = rootfs[p]

\* What docker-rebase is for: archives that list the directories above their
\* entries, as those of the aufs driver do, become one archive that unpacks to
\* the image they made.  Docker takes it unless one of them replaced a directory
\* by a file or the reverse.  If it takes it, the images differ only in what the
\* layers had removed: content of the base may be there again where they both
\* listed and deleted the path or a directory above it, and anything may be at or
\* below a path that changed between directory and file.
RebasedImage ==
  saved = "ok" /\ "implicit" \notin Shapes =>
    /\ retyped = {} => loads
    /\ loads =>
         \A p \in Extracted :
           \/ out[p] = rootfs[p]
           \/ /\ rootfs[p] = Absent
              /\ \/ ~Steady(p)
                 \/ /\ out[p] = base[p]
                    /\ \E q \in {p} \cup Above(p) : q \in listed \cap deleted

-----------------------------------------------------------------------------
(* The inductive invariant of Save. *)

WrittenFiles ==
  [p \in Paths |-> IF <<"entry", p>> \in unsaved THEN Absent ELSE files[p]]

WrittenWhite == {p \in white : <<"whiteout", p>> \notin unsaved}

\* At every moment Docker has what the keys written so far say, and the keys are
\* those of a layer that is complete.
SavedSoFar ==
  /\ saved = "not called" => out = base /\ loads /\ unsaved = {}
  /\ saved # "not called" => status = "done"
  /\ saved = "ok" => unsaved = {}
  /\ "implicit" \notin Shapes /\ saved # "not called" =>
       /\ retyped = {} => loads
       /\ loads =>
            \A p \in Extracted :
              Steady(p) => out[p] = UnpackedBy(WrittenFiles, WrittenWhite, base)[p]

\* Keys are written after those of the directories above them.
WrittenInOrder ==
  \A k \in unsaved : \A q \in Beneath[k[2]] :
    k[1] = "entry" =>
      /\ files[q] # Absent => <<"entry", q>> \in unsaved
      /\ q \in white => <<"whiteout", q>> \in unsaved

\* LoadedLosesNothing key by key, whatever the drivers listed: what the layers
\* left is in Docker's hands once its key is written, and from the start where
\* it has none.
LoadedSoFar ==
  saved # "not called" /\ loads =>
    \A p \in Extracted :
      rootfs[p] # Absent /\ <<"entry", p>> \notin unsaved => out[p] = rootfs[p]

RepackIInv ==
  /\ RepackTypeOK
  /\ WellFormed(base)
  /\ WellFormed(out)
  /\ SavedSoFar
  /\ WrittenInOrder
  /\ LoadedSoFar
=============================================================================
