---------------------------- MODULE RepackProofs ----------------------------
(***************************************************************************)
(* Proofs about Repack: whatever order its keys are sorted in, the saved   *)
(* layer unpacks to what the keys say together, and to the image the layers*)
(* made but for deletions that were dropped, for every set of paths and    *)
(* headers and every number of archives; and whatever the drivers listed,  *)
(* what Docker takes lacks nothing.                                        *)
(***************************************************************************)
EXTENDS Repack, SquashProofs

-----------------------------------------------------------------------------
(* Save leaves what Apply made. *)

\* A run with its Save is a run of Squash, so all that is proved of Squash holds.
LEMMA RepackIsSquash == RepackSpec => Spec
<1>1. RepackInit => Init
  BY DEF RepackInit
<1>2. [RepackNext]_repackVars => [Next]_vars
  BY DEF RepackNext, StartSave, WriteKey, SaveError, SaveReturns, repackVars
<1>3. QED
  BY <1>1, <1>2, PTL DEF RepackSpec, Spec

LEMMA SquashHolds == RepackSpec => []IInv
BY RepackIsSquash, SquashInvariant, PTL

-----------------------------------------------------------------------------
(* The operators of the unpacking. *)

\* Made directories, removals and additions make a file system of a file system.
LEMMA UnpackTypes ==
  ASSUME NEW fs \in FileSystems, NEW p \in Paths, NEW e \in Entries
  PROVE  /\ MadeParents(fs, p) \in FileSystems
         /\ RemoveAll(fs, p) \in FileSystems
         /\ Extract(fs, p, e) \in FileSystems
BY RepackAssumption, EntriesAssumption
   DEF MadeParents, RemoveAll, Extract, CreateTarFile, FileSystems

\* What is below an addition goes, unless a directory meets a directory.
LEMMA ExtractBelow ==
  ASSUME NEW fs \in FileSystems, NEW p \in Extracted, NEW e \in Entries,
         NEW q \in Beneath[p]
  PROVE  Extract(fs, p, e)[q] = IF fs[p] \in Dirs /\ e \in Dirs THEN fs[q] ELSE Absent
<1>1. p \in Paths /\ p \notin AufsMeta /\ q \in Paths /\ q # p
  BY PathsAssumption DEF Extracted
<1>2. QED
  BY <1>1 DEF Extract, CreateTarFile, RemoveAll, FileSystems, Tree

\* Below directories an entry is unpacked where it is: none is missing.
LEMMA NoneMissing ==
  ASSUME NEW fs \in FileSystems, WellFormed(fs), NEW p \in Paths,
         \A d \in Above(p) \cap Extracted : fs[d] \in Dirs
  PROVE  /\ ~Blocked(fs, p)
         /\ MadeParents(fs, p) = fs
         /\ \A d \in Above(p) : fs[d] \in Dirs \/ d \in AufsMeta
<1>1. \A d \in Above(p) : d \in AufsMeta \/ d \in Extracted
  BY DEF Above, Extracted
<1>2. ~Blocked(fs, p)
  BY <1>1, EntriesAssumption DEF Blocked, WellFormed
<1>3. \A q \in Paths : MadeParents(fs, p)[q] = fs[q]
  BY <1>1, EntriesAssumption DEF MadeParents
<1>4. MadeParents(fs, p) = fs
  BY <1>3 DEF MadeParents, FileSystems
<1>5. QED
  BY <1>1, <1>2, <1>4

\* Below no file, the directories that are missing can be made.
LEMMA MadeParentsWellFormed ==
  ASSUME NEW fs \in FileSystems, WellFormed(fs), NEW p \in Paths, ~Blocked(fs, p)
  PROVE  /\ WellFormed(MadeParents(fs, p))
         /\ \A d \in Above(p) : MadeParents(fs, p)[d] \in Dirs \/ d \in AufsMeta
         /\ \A q \in Paths : fs[q] # Absent => MadeParents(fs, p)[q] = fs[q]
<1> DEFINE g == MadeParents(fs, p)
<1>1. \A q \in Paths :
        g[q] = IF q \in Above(p) \ AufsMeta /\ fs[q] = Absent THEN Bare ELSE fs[q]
  BY DEF MadeParents
<1>2. \A d \in Above(p) : g[d] \in Dirs \/ d \in AufsMeta
  BY <1>1, RepackAssumption DEF Blocked, Above, FileSystems
<1>3. \A m \in AufsMeta : g[m] = Absent
  BY <1>1, AufsAssumption DEF WellFormed
<1>4. ASSUME NEW d \in Paths, g[d] \notin Dirs, NEW q \in Beneath[d]
      PROVE  g[q] = Absent
  <2>1. q \in Paths /\ fs[d] \notin Dirs
    BY <1>1, <1>4, PathsAssumption, RepackAssumption, EntriesAssumption
  <2>2. fs[q] = Absent
    BY <1>4, <2>1 DEF WellFormed
  \* What is made above p has only such directories above it.
  <2>3. q \notin Above(p) \ AufsMeta
    <3>1. q \in Above(p) => d \in Above(p)
      BY <1>4, TreeFacts DEF Above
    <3>2. d \in AufsMeta => q \in AufsMeta
      BY <1>4, AufsAssumption
    <3>3. QED
      BY <1>2, <1>4, <3>1, <3>2
  <2>4. QED
    BY <1>1, <2>1, <2>2, <2>3
<1>5. QED
  BY <1>1, <1>2, <1>3, <1>4 DEF WellFormed

\* Whatever Docker reads, only directories have contents afterwards.
LEMMA UnpackWellFormed ==
  ASSUME out \in FileSystems, WellFormed(out), NEW kind, NEW p \in Paths,
         kind # "whiteout" => files[p] \in Entries,
         Unpack(kind, p)
  PROVE  WellFormed(out')
<1> DEFINE fs == IF Blocked(out, p) THEN out ELSE MadeParents(out, p)
<1>1. fs \in FileSystems /\ WellFormed(fs)
  BY UnpackTypes, MadeParentsWellFormed, RepackAssumption, EntriesAssumption
<1>2. CASE kind = "whiteout"
  <2>1. out' = RemoveAll(fs, p)
    BY <1>2 DEF Unpack
  <2>2. QED
    BY <1>1, <2>1, RemoveAllWellFormed
<1>3. CASE kind # "whiteout" /\ Blocked(out, p) /\ p \notin AufsMeta
  BY <1>3 DEF Unpack
<1>4. CASE kind # "whiteout" /\ ~(Blocked(out, p) /\ p \notin AufsMeta)
  <2>1. out' = Extract(fs, p, files[p])
    BY <1>4 DEF Unpack
  <2>2. CASE p \in AufsMeta
    BY <1>1, <2>1, <2>2 DEF Extract
  <2>3. CASE p \notin AufsMeta
    <3>1. \A d \in Above(p) : fs[d] \in Dirs \/ d \in AufsMeta
      BY <1>4, <2>3, MadeParentsWellFormed
    <3>2. QED
      BY <1>1, <1>4, <2>1, <3>1, ExtractWellFormed
  <2>4. QED
    BY <2>2, <2>3
<1>5. QED
  BY <1>2, <1>3, <1>4

-----------------------------------------------------------------------------
(* The keys of a finished layer. *)

\* What is above a steady path is steady.
LEMMA SteadyAbove ==
  ASSUME NEW p \in Paths, Steady(p), NEW d \in Above(p)
  PROVE  Steady(d)
BY TreeFacts DEF Steady, Above

\* No steady path that is listed has a whiteout at it or above it.
LEMMA NoneListedBelowWhiteout ==
  ASSUME IInv, "implicit" \notin Shapes, NEW p \in white, NEW q \in Tree(p) \cap Extracted,
         Steady(q)
  PROVE  files[q] = Absent
<1>1. p \in Extracted /\ p \in Paths /\ rootfs[p] = Absent
  BY DEF IInv, KeysHaveHistory, WhiteoutsAreGone, Extracted
<1>2. Steady(p)
  BY <1>1, SteadyAbove DEF Tree, Above, Extracted
<1>3. files[p] = Absent
  BY <1>1, <1>2 DEF IInv, NothingLeaks
<1>4. CASE q = p
  BY <1>3, <1>4
<1>5. CASE q # p
  <2>1. p \in Above(q) \cap Extracted /\ q \in Paths
    BY <1>1, <1>5 DEF Tree, Above, Extracted
  <2>2. files[q] # Absent => files[p] \in Dirs
    BY <1>2, <2>1 DEF IInv, ParentsListed
  <2>3. QED
    BY <1>3, <2>2, EntriesAssumption
<1>6. QED
  BY <1>4, <1>5

\* When it is the turn of a key, Docker has the steady directories above it.
LEMMA DirectoriesUnpacked ==
  ASSUME IInv, RepackIInv, "implicit" \notin Shapes, saved = "pending", loads,
         NEW kind \in {"entry", "whiteout"}, NEW p \in Paths, Sorted(<<kind, p>>),
         NEW d \in Above(p) \cap Extracted, Steady(d)
  PROVE  out[d] \in Dirs
<1>1. d \in Paths /\ <<kind, p>> \in Keys /\ <<"entry", d>> \notin unsaved
  BY DEF Above, Sorted, RepackIInv, RepackTypeOK
<1>2. files[p] # Absent \/ p \in white
  BY <1>1 DEF Keys
<1>3. files[d] \in Dirs
  BY <1>2 DEF IInv, ParentsListed
<1>4. WrittenFiles[d] = files[d] /\ files[d] # Absent
  BY <1>1, <1>3, EntriesAssumption DEF WrittenFiles
<1>5. out[d] = UnpackedBy(WrittenFiles, WrittenWhite, base)[d]
  BY DEF RepackIInv, SavedSoFar
<1>6. QED
  BY <1>1, <1>3, <1>4, <1>5 DEF UnpackedBy

\* So no steady path is a directory that Docker makes for the key.
LEMMA SteadyNotMade ==
  ASSUME IInv, RepackIInv, "implicit" \notin Shapes, saved = "pending", loads,
         NEW kind \in {"entry", "whiteout"}, NEW p \in Paths, Sorted(<<kind, p>>),
         NEW q \in Extracted, Steady(q)
  PROVE  MadeParents(out, p)[q] = out[q]
<1>1. q \in Above(p) => out[q] # Absent
  BY DirectoriesUnpacked, EntriesAssumption
<1>2. QED
  BY <1>1 DEF MadeParents, Extracted

-----------------------------------------------------------------------------
(* One key is written. *)

\* An entry: Docker takes a steady one after those before it, and of the steady
\* paths nothing written is lost.
LEMMA EntryUnpacks ==
  ASSUME IInv, RepackIInv, "implicit" \notin Shapes, loads,
         NEW p \in Paths, WriteKey(<<"entry", p>>)
  PROVE  /\ Steady(p) => loads'
         /\ loads' =>
              \A q \in Extracted :
                Steady(q) => out'[q] = UnpackedBy(WrittenFiles', WrittenWhite', base)[q]
<1> DEFINE f == WrittenFiles
           g == WrittenFiles'
           w == WrittenWhite
           fs == IF Blocked(out, p) THEN out ELSE MadeParents(out, p)
<1>1. /\ saved = "pending" /\ Sorted(<<"entry", p>>)
      /\ unsaved' = unsaved \ {<<"entry", p>>}
      /\ UNCHANGED <<files, white, base>>
      /\ Unpack("entry", p)
  BY DEF WriteKey, vars
<1>2. /\ out \in FileSystems /\ WellFormed(out)
      /\ \A q \in Extracted : Steady(q) => out[q] = UnpackedBy(f, w, base)[q]
  BY <1>1 DEF RepackIInv, RepackTypeOK, SavedSoFar
<1>3. files[p] \in Entries /\ <<"entry", p>> \in unsaved
  <2>1. <<"entry", p>> \in Keys
    BY <1>1 DEF Sorted, RepackIInv, RepackTypeOK
  <2>2. QED
    BY <1>1, <2>1 DEF Keys, Sorted, IInv, TypeOK, LayerTypeOK, FileSystems
<1>4. ASSUME Steady(p) PROVE loads'
  <2>1. \A d \in Above(p) \cap Extracted : out[d] \in Dirs
    BY <1>1, <1>4, SteadyAbove, DirectoriesUnpacked
  <2>2. ~Blocked(out, p)
    BY <1>2, <2>1, NoneMissing
  <2>3. QED
    BY <1>1, <2>2 DEF Unpack
<1>5. /\ fs \in FileSystems
      /\ WellFormed(fs)
      /\ \A q \in Extracted : Steady(q) => fs[q] = out[q]
  BY <1>1, <1>2, <1>3, UnpackTypes, MadeParentsWellFormed, SteadyNotMade
<1>6. loads' => out' = Extract(fs, p, files[p])
  BY <1>1 DEF Unpack
<1>8. /\ \A q \in Paths : g[q] = IF q = p THEN files[p] ELSE f[q]
      /\ f[p] = Absent
      /\ WrittenWhite' = w
  BY <1>1, <1>3 DEF WrittenFiles, WrittenWhite
<1>9. ASSUME loads', NEW q \in Extracted, Steady(q)
      PROVE  out'[q] = UnpackedBy(g, w, base)[q]
  <2> DEFINE before == UnpackedBy(f, w, base)
             after  == UnpackedBy(g, w, base)
  <2>0. out' = Extract(fs, p, files[p]) /\ fs[q] = out[q]
    BY <1>5, <1>6, <1>9
  <2>1. q \in Paths /\ out[q] = before[q] /\ Above(q) \subseteq Paths
    BY <1>2, <1>9 DEF Extracted, Above
  <2>2. p \notin Above(q) \/ files[p] \in Dirs => (Hidden(g, w, q) <=> Hidden(f, w, q))
    BY <1>8, <2>1, EntriesAssumption DEF Hidden
  <2>3. CASE q = p
    <3>1. out'[p] = files[p]
      BY <1>3, <1>5, <2>0, <2>3, ExtractAt DEF Extracted
    <3>2. QED
      BY <1>3, <1>8, <2>1, <2>3, <3>1, EntriesAssumption DEF UnpackedBy
  <2>4. CASE q # p /\ q \notin Beneath[p]
    <3>1. out'[q] = out[q]
      BY <1>3, <1>5, <2>0, <2>1, <2>4, ExtractAt
    <3>2. p \notin Above(q)
      BY <2>4 DEF Above
    <3>3. QED
      BY <1>8, <2>1, <2>2, <2>4, <3>1, <3>2 DEF UnpackedBy
  <2>5. CASE q # p /\ q \in Beneath[p]
    <3>1. p \in Extracted /\ fs[p] = out[p]
      <4>1. p \in Extracted
        BY <2>5, AufsAssumption DEF Extracted
      <4>2. Steady(p)
        BY <1>9, <2>1, <2>5, SteadyAbove DEF Above
      <4>3. QED
        BY <1>5, <4>1, <4>2
    <3>2. g[q] = Absent /\ f[q] = Absent
      <4>1. files[q] # Absent => <<"entry", q>> \in unsaved
        BY <1>3, <2>5 DEF RepackIInv, WrittenInOrder
      <4>2. QED
        BY <1>8, <2>1, <2>5, <4>1 DEF WrittenFiles
    <3>3. out'[q] = IF out[p] \in Dirs /\ files[p] \in Dirs THEN out[q] ELSE Absent
      BY <1>3, <1>5, <2>0, <2>5, <3>1, ExtractBelow
    <3>4. CASE files[p] \in Dirs
      <4>1. after[q] = before[q]
        BY <2>1, <2>2, <3>2, <3>4 DEF UnpackedBy
      <4>2. out[p] \notin Dirs => out[q] = Absent
        BY <1>2, <2>5 DEF WellFormed
      <4>3. QED
        BY <2>1, <3>3, <3>4, <4>1, <4>2
    <3>5. CASE files[p] \notin Dirs
      <4>1. Hidden(g, w, q)
        BY <1>3, <1>8, <2>5, <3>5 DEF Hidden, Above
      <4>2. QED
        BY <2>1, <3>2, <3>3, <3>5, <4>1 DEF UnpackedBy
    <3>6. QED
      BY <3>4, <3>5
  <2>6. QED
    BY <2>3, <2>4, <2>5
<1>10. QED
  BY <1>4, <1>8, <1>9

\* A whiteout: of the steady paths it removes nothing that was written.
LEMMA WhiteoutUnpacks ==
  ASSUME IInv, RepackIInv, "implicit" \notin Shapes, loads,
         NEW p \in Paths, WriteKey(<<"whiteout", p>>)
  PROVE  /\ loads'
         /\ \A q \in Extracted :
              Steady(q) => out'[q] = UnpackedBy(WrittenFiles', WrittenWhite', base)[q]
<1> DEFINE f == WrittenFiles
           w == WrittenWhite
           fs == IF Blocked(out, p) THEN out ELSE MadeParents(out, p)
<1>1. /\ saved = "pending" /\ Sorted(<<"whiteout", p>>)
      /\ unsaved' = unsaved \ {<<"whiteout", p>>}
      /\ UNCHANGED <<files, white, base>>
      /\ out' = RemoveAll(fs, p) /\ UNCHANGED loads
  BY DEF WriteKey, Unpack, vars
<1>2. \A q \in Extracted : Steady(q) => out[q] = UnpackedBy(f, w, base)[q]
  BY <1>1 DEF RepackIInv, SavedSoFar
<1>3. p \in white
  <2>1. <<"whiteout", p>> \in Keys
    BY <1>1 DEF Sorted, RepackIInv, RepackTypeOK
  <2>2. QED
    BY <2>1 DEF Keys
<1>4. \A q \in Extracted : Steady(q) => fs[q] = out[q]
  BY <1>1, SteadyNotMade
<1>5. WrittenFiles' = f /\ WrittenWhite' = w \cup {p}
  BY <1>1, <1>3 DEF WrittenFiles, WrittenWhite
<1>6. ASSUME NEW q \in Extracted, Steady(q)
      PROVE  out'[q] = UnpackedBy(f, w \cup {p}, base)[q]
  <2>1. q \in Paths /\ out'[q] = IF q \in Tree(p) THEN Absent ELSE out[q]
    BY <1>1, <1>4, <1>6 DEF RemoveAll, Extracted
  <2>2. CASE q \in Tree(p)
    <3>1. f[q] = Absent
      BY <1>3, <1>6, <2>1, <2>2, NoneListedBelowWhiteout DEF WrittenFiles
    <3>2. Hidden(f, w \cup {p}, q)
      BY <2>1, <2>2 DEF Hidden, Tree, Above
    <3>3. QED
      BY <2>1, <2>2, <3>1, <3>2 DEF UnpackedBy
  <2>3. CASE q \notin Tree(p)
    <3>1. Hidden(f, w \cup {p}, q) <=> Hidden(f, w, q)
      BY <2>3 DEF Hidden, Tree, Above
    <3>2. QED
      BY <1>2, <1>6, <2>1, <2>3, <3>1 DEF UnpackedBy
  <2>4. QED
    BY <2>2, <2>3
<1>7. QED
  BY <1>1, <1>5, <1>6

\* Whatever the keys are: what the layers left, and Docker has, the next key
\* leaves alone; and an entry that Docker takes, it then has.
LEMMA WriteKeyLosesNothing ==
  ASSUME IInv, RepackIInv, NEW kind \in {"entry", "whiteout"}, NEW p \in Paths,
         WriteKey(<<kind, p>>)
  PROVE  LoadedSoFar'
<1>1. /\ saved = "pending" /\ Sorted(<<kind, p>>)
      /\ unsaved' = unsaved \ {<<kind, p>>}
      /\ UNCHANGED vars
      /\ loads => Unpack(kind, p)
      /\ ~loads => ~loads'
  BY DEF WriteKey
<1>2. /\ out \in FileSystems /\ WellFormed(out) /\ WellFormed(rootfs) /\ loads \in BOOLEAN
      /\ files \in FileSystems
  BY DEF IInv, TypeOK, LayerTypeOK, RepackIInv, RepackTypeOK
<1>3. <<kind, p>> \in unsaved /\ <<kind, p>> \in Keys
  BY <1>1 DEF Sorted, RepackIInv, RepackTypeOK
<1> SUFFICES ASSUME loads', NEW q \in Extracted, rootfs[q] # Absent,
                    <<"entry", q>> \notin unsaved'
             PROVE  out'[q] = rootfs[q]
  BY <1>1 DEF LoadedSoFar, vars
<1> DEFINE fs == IF Blocked(out, p) THEN out ELSE MadeParents(out, p)
<1>4. q \in Paths /\ loads /\ Unpack(kind, p)
  BY <1>1 DEF Extracted
<1>5. fs \in FileSystems /\ \A r \in Paths : out[r] # Absent => fs[r] = out[r]
  BY <1>2, UnpackTypes, MadeParentsWellFormed, RepackAssumption, EntriesAssumption
<1>6. <<"entry", q>> \notin unsaved => out[q] = rootfs[q] /\ fs[q] = rootfs[q]
  BY <1>1, <1>4, <1>5 DEF RepackIInv, LoadedSoFar
<1>7. CASE kind = "whiteout"
  \* Nothing is left at or below what a whiteout stands for.
  <2>1. p \in white /\ rootfs[p] = Absent
    BY <1>3, <1>7 DEF Keys, IInv, WhiteoutsAreGone
  <2>2. q \notin Tree(p)
    BY <1>2, <1>4, <2>1, EntriesAssumption DEF Tree, WellFormed
  <2>3. out' = RemoveAll(fs, p)
    BY <1>4, <1>7 DEF Unpack
  <2>4. <<"entry", q>> \notin unsaved
    BY <1>1, <1>7
  <2>5. QED
    BY <1>4, <1>6, <2>2, <2>3, <2>4 DEF RemoveAll
<1>8. CASE kind = "entry"
  <2>1. files[p] \in Entries
    BY <1>2, <1>3, <1>8 DEF Keys, FileSystems
  <2>2. out' = Extract(fs, p, files[p])
    BY <1>4, <1>8 DEF Unpack
  <2>3. CASE q = p
    \* It is listed, and so as the layers left it.
    <3>1. files[p] = rootfs[p]
      BY <2>1, <2>3, EntriesAssumption DEF IInv, ListedOrBase
    <3>2. QED
      BY <1>5, <2>1, <2>2, <2>3, <3>1, ExtractAt DEF Extracted
  <2>4. CASE q # p
    <3>1. <<"entry", q>> \notin unsaved
      BY <1>1, <2>4
    <3>2. CASE q \notin Beneath[p]
      BY <1>4, <1>5, <1>6, <2>1, <2>2, <2>4, <3>1, <3>2, ExtractAt
    <3>3. CASE q \in Beneath[p]
      \* A directory, merged into the one that is there.
      <4>1. p \in Extracted
        BY <3>3, AufsAssumption DEF Extracted
      <4>2. rootfs[p] \in Dirs
        BY <1>2, <3>3 DEF WellFormed
      <4>3. files[p] = rootfs[p]
        BY <2>1, <4>1, <4>2, EntriesAssumption DEF IInv, ListedOrBase
      <4>4. out[p] \in Dirs
        BY <1>2, <1>6, <3>1, <3>3 DEF WellFormed
      <4>5. fs[p] \in Dirs
        BY <1>5, <4>4, EntriesAssumption
      <4>6. out'[q] = fs[q]
        BY <1>5, <2>1, <2>2, <3>3, <4>1, <4>2, <4>3, <4>5, ExtractBelow
      <4>7. QED
        BY <1>6, <3>1, <4>6
    <3>4. QED
      BY <3>2, <3>3
  <2>5. QED
    BY <2>3, <2>4
<1>9. QED
  BY <1>7, <1>8

\* Writing a key keeps the invariant.
LEMMA WriteKeyKeepsIInv ==
  ASSUME IInv, RepackIInv, NEW k \in {"entry", "whiteout"} \X Paths, WriteKey(k)
  PROVE  RepackIInv'
<1>1. PICK kind \in {"entry", "whiteout"}, p \in Paths : k = <<kind, p>>
  OBVIOUS
<1>2. /\ saved = "pending" /\ saved' = saved /\ Sorted(<<kind, p>>)
      /\ unsaved' = unsaved \ {<<kind, p>>}
      /\ UNCHANGED vars
      /\ \/ loads /\ Unpack(kind, p)
         \/ UNCHANGED <<out, loads>>
  BY <1>1 DEF WriteKey
<1>3. Keys' = Keys /\ <<kind, p>> \in Keys
  BY <1>2 DEF Keys, vars, Sorted, RepackIInv, RepackTypeOK
<1>4. out' \in FileSystems /\ loads' \in BOOLEAN
  <2>1. kind = "entry" => files[p] \in Entries
    BY <1>3 DEF Keys, IInv, TypeOK, LayerTypeOK, FileSystems
  <2>2. CASE Unpack(kind, p)
    <3>1. out \in FileSystems /\ MadeParents(out, p) \in FileSystems /\ loads \in BOOLEAN
      BY UnpackTypes, EntriesAssumption, RepackAssumption DEF RepackIInv, RepackTypeOK
    <3>2. kind = "entry" => /\ Extract(out, p, files[p]) \in FileSystems
                            /\ Extract(MadeParents(out, p), p, files[p]) \in FileSystems
      BY <2>1, <3>1, UnpackTypes
    <3>3. RemoveAll(out, p) \in FileSystems /\ RemoveAll(MadeParents(out, p), p) \in FileSystems
      BY <3>1, UnpackTypes, EntriesAssumption, RepackAssumption
    <3>4. QED
      BY <2>2, <3>1, <3>2, <3>3 DEF Unpack
  <2>3. QED
    BY <1>2, <2>2 DEF RepackIInv, RepackTypeOK
<1>5. RepackTypeOK'
  BY <1>2, <1>3, <1>4 DEF RepackIInv, RepackTypeOK, IInv, TypeOK, LayerTypeOK, vars
<1>6. WellFormed(base)'
  BY <1>2 DEF RepackIInv, WellFormed, vars
<1>7. SavedSoFar'
  <2>1. status' = "done" /\ base' = base
    BY <1>2 DEF RepackIInv, SavedSoFar, vars
  <2>2. retyped' = retyped /\ \A q \in Extracted : Steady(q)' = Steady(q)
    BY <1>2 DEF Steady, vars
  <2>3. ASSUME "implicit" \notin Shapes
        PROVE  /\ retyped' = {} => loads'
               /\ loads' => \A q \in Extracted :
                    Steady(q) => out'[q] = UnpackedBy(WrittenFiles', WrittenWhite', base')[q]
    <3>1. retyped = {} => loads /\ Steady(p)
      BY <1>2, <2>3 DEF RepackIInv, SavedSoFar, Steady
    <3>2. CASE loads
      <4>1. CASE kind = "entry"
        BY <1>1, <2>1, <2>2, <2>3, <3>1, <3>2, <4>1, EntryUnpacks
      <4>2. CASE kind = "whiteout"
        BY <1>1, <2>1, <2>3, <3>2, <4>2, WhiteoutUnpacks
      <4>3. QED
        BY <4>1, <4>2
    <3>3. CASE ~loads
      BY <1>1, <2>2, <3>1, <3>3 DEF WriteKey
    <3>4. QED
      BY <3>2, <3>3
  <2>4. /\ saved' # "not called" /\ saved' # "ok"
    BY <1>2
  <2>5. QED
    BY <2>1, <2>2, <2>3, <2>4 DEF SavedSoFar
<1>8. WrittenInOrder'
  <2> SUFFICES ASSUME NEW j \in unsaved', NEW q \in Beneath[j[2]], j[1] = "entry"
               PROVE  /\ files[q] # Absent => <<"entry", q>> \in unsaved'
                      /\ q \in white => <<"whiteout", q>> \in unsaved'
    BY <1>2 DEF WrittenInOrder, vars
  <2>1. j \in unsaved /\ j \in Keys
    BY <1>2 DEF RepackIInv, RepackTypeOK
  <2>2. j[2] \in Paths /\ j = <<"entry", j[2]>>
    BY <2>1 DEF Keys, IInv, TypeOK, LayerTypeOK
  <2>3. <<kind, p>> # <<"entry", q>> /\ <<kind, p>> # <<"whiteout", q>>
    <3>1. p = q => j[2] \in Above(p)
      BY <2>2 DEF Above
    <3>2. p = q => j \notin unsaved
      BY <1>2, <2>2, <3>1 DEF Sorted
    <3>3. QED
      BY <2>1, <3>2
  <2>4. QED
    BY <1>2, <2>1, <2>3 DEF RepackIInv, WrittenInOrder
<1>9. WellFormed(out)'
  <2>1. kind = "entry" => files[p] \in Entries
    BY <1>3 DEF Keys, IInv, TypeOK, LayerTypeOK, FileSystems
  <2>2. Unpack(kind, p) => WellFormed(out')
    BY <2>1, UnpackWellFormed DEF RepackIInv, RepackTypeOK
  <2>3. QED
    BY <1>2, <2>2 DEF RepackIInv, WellFormed
<1>10. LoadedSoFar'
  BY <1>1, WriteKeyLosesNothing
<1>11. QED
  BY <1>5, <1>6, <1>7, <1>8, <1>9, <1>10 DEF RepackIInv

-----------------------------------------------------------------------------
(* The other steps. *)

LEMMA RepackInitIInv == RepackInit => RepackIInv
<1> SUFFICES ASSUME RepackInit PROVE RepackIInv
  OBVIOUS
<1>1. TypeOK /\ WellFormed(base)
  BY InitIInv DEF RepackInit, Init, IInv
<1>2. WellFormed(out) /\ LoadedSoFar
  BY <1>1 DEF RepackInit, LoadedSoFar, WellFormed
<1>3. QED
  BY <1>1, <1>2 DEF RepackInit, RepackIInv, RepackTypeOK, SavedSoFar, WrittenInOrder, TypeOK

\* Apply runs only before Save.
LEMMA ApplyKeepsRepackIInv ==
  ASSUME IInv, RepackIInv, Next, UNCHANGED saveVars
  PROVE  RepackIInv'
<1>1. status = "applying" /\ base' = base
  BY DEF Next, ReadAddition, ReadWhiteout, EndOfArchive, ApplyError
<1>2. saved = "not called" /\ out = base /\ loads /\ unsaved = {}
  BY <1>1 DEF RepackIInv, SavedSoFar
<1>3. TypeOK'
  BY NextKeepsIInv DEF IInv
<1>4. WellFormed(out)' /\ LoadedSoFar'
  BY <1>2 DEF saveVars, RepackIInv, LoadedSoFar, WellFormed
<1>5. QED
  BY <1>1, <1>2, <1>3, <1>4
     DEF saveVars, RepackIInv, RepackTypeOK, SavedSoFar, WrittenInOrder, WellFormed, TypeOK

LEMMA StartSaveKeepsIInv ==
  ASSUME IInv, RepackIInv, StartSave
  PROVE  RepackIInv'
<1>1. /\ saved' = "pending" /\ unsaved' = Keys /\ status = "done"
      /\ UNCHANGED <<vars, out, loads>>
      /\ out = base /\ loads
  BY DEF StartSave, RepackIInv, SavedSoFar
<1>2. RepackTypeOK'
  BY <1>1 DEF RepackIInv, RepackTypeOK, IInv, TypeOK, LayerTypeOK, vars, Keys
<1>3. WellFormed(base)' /\ WellFormed(out)'
  BY <1>1 DEF RepackIInv, WellFormed, vars
<1>4. \A p \in Paths : WrittenFiles'[p] = Absent
  BY <1>1 DEF WrittenFiles, Keys, vars
<1>5. WrittenWhite' = {}
  BY <1>1 DEF WrittenWhite, Keys, vars
<1>6. \A p \in Extracted : out'[p] = UnpackedBy(WrittenFiles', WrittenWhite', base')[p]
  <2>1. \A p \in Extracted : p \in Paths /\ Above(p) \subseteq Paths
    BY DEF Extracted, Above
  <2>2. \A p \in Extracted : ~Hidden(WrittenFiles', WrittenWhite', p)
    BY <1>4, <1>5, <2>1, EntriesAssumption DEF Hidden
  <2>3. out' = base'
    BY <1>1 DEF vars
  <2>4. QED
    BY <1>4, <2>1, <2>2, <2>3 DEF UnpackedBy
<1>7. SavedSoFar'
  BY <1>1, <1>6 DEF SavedSoFar, vars
<1>8. WrittenInOrder'
  <2>1. \A k \in Keys : \A q \in Beneath[k[2]] : q \in Paths
    BY PathsAssumption DEF Keys, IInv, TypeOK, LayerTypeOK
  <2>2. QED
    BY <1>1, <2>1 DEF WrittenInOrder, Keys, vars
\* What has no key comes from the base, and Docker has that.
<1>9. LoadedSoFar'
  <2> SUFFICES ASSUME NEW p \in Extracted, rootfs[p] # Absent, <<"entry", p>> \notin Keys
               PROVE  base[p] = rootfs[p]
    BY <1>1 DEF LoadedSoFar, vars
  <2>1. files[p] = Absent
    BY DEF Keys, Extracted
  <2>2. QED
    BY <2>1 DEF IInv, ListedOrBase
<1>10. QED
  BY <1>2, <1>3, <1>7, <1>8, <1>9 DEF RepackIInv

LEMMA EndOfSaveKeepsIInv ==
  ASSUME IInv, RepackIInv, SaveError \/ SaveReturns \/ UNCHANGED repackVars
  PROVE  RepackIInv'
<1>1. /\ UNCHANGED <<vars, unsaved, out, loads>>
      /\ \/ saved = "pending" /\ saved' = "error"
         \/ saved = "pending" /\ saved' = "ok" /\ unsaved = {}
         \/ saved' = saved
  BY DEF SaveError, SaveReturns, repackVars, saveVars
<1>2. RepackTypeOK'
  BY <1>1 DEF RepackIInv, RepackTypeOK, IInv, TypeOK, LayerTypeOK, vars, Keys
<1>3. WellFormed(base)' /\ WellFormed(out)'
  BY <1>1 DEF RepackIInv, WellFormed, vars
<1>4. SavedSoFar'
  <2>1. /\ WrittenFiles' = WrittenFiles /\ WrittenWhite' = WrittenWhite
        /\ base' = base /\ out' = out /\ loads' = loads
        /\ unsaved' = unsaved /\ status' = status /\ retyped' = retyped
        /\ \A p \in Extracted : Steady(p)' = Steady(p)
    BY <1>1 DEF WrittenFiles, WrittenWhite, Steady, vars
  <2>3. UnpackedBy(WrittenFiles', WrittenWhite', base') = UnpackedBy(WrittenFiles, WrittenWhite, base)
    BY <2>1
  <2>4. saved' # "not called" => saved # "not called"
    BY <1>1
  <2>5. saved' = "not called" => out' = base' /\ loads' /\ unsaved' = {}
    <3>1. saved' = "not called" => saved = "not called"
      BY <1>1
    <3>2. saved = "not called" => out = base /\ loads = TRUE /\ unsaved = {}
      BY DEF RepackIInv, RepackTypeOK, SavedSoFar
    <3>3. QED
      BY <2>1, <3>1, <3>2
  <2>6. /\ saved' # "not called" => status' = "done"
        /\ saved' = "ok" => unsaved' = {}
    BY <1>1, <2>1 DEF RepackIInv, SavedSoFar
  <2>7. "implicit" \notin Shapes /\ saved' # "not called" /\ retyped' = {} => loads'
    BY <2>1, <2>4 DEF RepackIInv, SavedSoFar
  <2>8. ASSUME "implicit" \notin Shapes, saved' # "not called", loads',
               NEW p \in Extracted, Steady(p)'
        PROVE  out'[p] = UnpackedBy(WrittenFiles', WrittenWhite', base')[p]
    <3>1. out[p] = UnpackedBy(WrittenFiles, WrittenWhite, base)[p]
      BY <2>1, <2>4, <2>8 DEF RepackIInv, SavedSoFar
    <3>2. QED
      BY <2>1, <2>3, <3>1
  <2>9. QED
    BY <2>5, <2>6, <2>7, <2>8 DEF SavedSoFar
<1>5. WrittenInOrder'
  BY <1>1 DEF RepackIInv, WrittenInOrder, vars
<1>6. LoadedSoFar'
  BY <1>1 DEF RepackIInv, LoadedSoFar, vars
<1>7. QED
  BY <1>2, <1>3, <1>4, <1>5, <1>6 DEF RepackIInv

\* Every reachable state of the loop and of Save satisfies both invariants.
THEOREM RepackInvariant == RepackSpec => []RepackIInv
<1>1. IInv /\ RepackIInv /\ [RepackNext]_repackVars => RepackIInv'
  BY ApplyKeepsRepackIInv, StartSaveKeepsIInv, WriteKeyKeepsIInv, EndOfSaveKeepsIInv
     DEF RepackNext
<1>2. QED
  BY <1>1, RepackInitIInv, SquashHolds, PTL DEF RepackSpec

-----------------------------------------------------------------------------
(* What follows about the saved layer. *)

\* The keys of the layer, both file systems and Save keep their types.
THEOREM RepackTypeCorrect == RepackSpec => []RepackTypeOK
<1>1. RepackIInv => RepackTypeOK
  BY DEF RepackIInv
<1>2. QED
  BY <1>1, RepackInvariant, PTL

\* With no key left to write, what Docker has is the whole layer unpacked.
LEMMA IInvGivesSavedUnpacks == RepackIInv => SavedUnpacks
<1> SUFFICES ASSUME RepackIInv, saved = "ok", "implicit" \notin Shapes
             PROVE  /\ retyped = {} => loads
                    /\ loads => \A p \in Extracted :
                                  Steady(p) => out[p] = Unpacked(base)[p]
  BY DEF SavedUnpacks
<1>1. unsaved = {} /\ (retyped = {} => loads)
  BY DEF RepackIInv, SavedSoFar
<1>2. loads => \A p \in Extracted :
                 Steady(p) => out[p] = UnpackedBy(WrittenFiles, WrittenWhite, base)[p]
  BY DEF RepackIInv, SavedSoFar
<1>3. WrittenFiles = files /\ WrittenWhite = white
  BY <1>1 DEF WrittenFiles, WrittenWhite, RepackIInv, RepackTypeOK, TypeOK, LayerTypeOK, FileSystems
<1>4. QED
  BY <1>1, <1>2, <1>3 DEF Unpacked

\* Archives that list the directories above their entries squash to one that
\* Docker takes, in any order of keys, unless a path changed between directory
\* and file; and what it takes unpacks to what the keys say, but at or below one
\* that did.
THEOREM SavedLayerUnpacks == RepackSpec => []SavedUnpacks
<1>1. RepackIInv => SavedUnpacks
  BY IInvGivesSavedUnpacks
<1>2. QED
  BY <1>1, RepackInvariant, PTL

\* With no key left to write, nothing that the layers left is missing.
LEMMA LoadedIsWhole == RepackIInv => LoadedLosesNothing
<1> SUFFICES ASSUME RepackIInv, saved = "ok", loads, NEW p \in Extracted, rootfs[p] # Absent
             PROVE  out[p] = rootfs[p]
  BY DEF LoadedLosesNothing
<1>1. unsaved = {}
  BY DEF RepackIInv, SavedSoFar
<1>2. QED
  BY <1>1 DEF RepackIInv, LoadedSoFar

\* Whatever the drivers listed, and in whatever order Save writes the keys: an
\* archive that Docker takes brings back all that the layers left.
THEOREM LoadedLayerIsWhole == RepackSpec => []LoadedLosesNothing
BY LoadedIsWhole, RepackInvariant, PTL

\* The whole way, from archives that list the directories above their entries:
\* if no path changed between directory and file, Docker takes the saved layer;
\* and if it takes it, what the layers left is in the rebased image, which
\* differs from theirs at most in content of the base that was both listed and
\* deleted, and at or below a path that changed its kind.
THEOREM ImageIsRebased == RepackSpec => []RebasedImage
<1>1. IInv /\ RepackIInv => RebasedImage
  <2> SUFFICES ASSUME IInv, RepackIInv, saved = "ok", "implicit" \notin Shapes
               PROVE  /\ retyped = {} => loads
                      /\ loads =>
                           \A p \in Extracted :
                             \/ out[p] = rootfs[p]
                             \/ /\ rootfs[p] = Absent
                                /\ \/ ~Steady(p)
                                   \/ /\ out[p] = base[p]
                                      /\ \E q \in {p} \cup Above(p) :
                                           q \in listed \cap deleted
    BY DEF RebasedImage
  <2>1. SavedUnpacks
    BY IInvGivesSavedUnpacks
  <2>2. ASSUME loads, NEW p \in Extracted, out[p] # rootfs[p]
        PROVE  rootfs[p] = Absent
    BY <2>2, LoadedIsWhole DEF LoadedLosesNothing
  <2>3. ASSUME loads, NEW p \in Extracted, out[p] # rootfs[p], Steady(p)
        PROVE  /\ out[p] = base[p]
               /\ \E q \in {p} \cup Above(p) : q \in listed \cap deleted
    <3>1. out[p] = Unpacked(base)[p] /\ p \in Paths
      BY <2>1, <2>3 DEF SavedUnpacks, Extracted
    <3>2. rootfs[p] = Absent
      BY <2>2, <2>3
    <3>3. files[p] = Absent
      BY <2>3, <3>2 DEF IInv, NothingLeaks
    <3>4. ~Hidden(files, white, p) /\ out[p] = base[p]
      BY <2>3, <3>1, <3>2, <3>3 DEF Unpacked, UnpackedBy
    <3>5. PICK q \in {p} \cup Above(p) : q \in white \/ q \in listed \cap deleted
      BY <2>3, <3>2, <3>4 DEF IInv, DeletionsKept
    <3>6. q \notin white
      BY <3>4, <3>5 DEF Hidden
    <3>7. QED
      BY <3>4, <3>5, <3>6
  <2>4. QED
    BY <2>1, <2>2, <2>3 DEF SavedUnpacks
<1>2. QED
  BY <1>1, RepackInvariant, SquashHolds, PTL
=============================================================================
