---------------------------- MODULE SquashProofs ----------------------------
(***************************************************************************)
(* Proofs about Squash for every set of paths and headers, every number of *)
(* archives and every choice of Shapes.                                    *)
(***************************************************************************)
EXTENDS Squash, TLAPS

-----------------------------------------------------------------------------
(* The tree order. *)

\* A path is not below itself, and what is below a path below p is below p.
LEMMA TreeFacts ==
  ASSUME NEW p \in Paths
  PROVE  /\ Beneath[p] \subseteq Paths
         /\ p \notin Beneath[p]
         /\ \A q \in Beneath[p] : Beneath[q] \subseteq Beneath[p]
         /\ Tree(p) \subseteq Paths
         /\ \A q \in Tree(p) : Beneath[q] \subseteq Tree(p)
         /\ \A d \in Above(p) : d \in Paths /\ d \notin Tree(p)
BY PathsAssumption DEF Tree, Above

\* Metadata is below metadata only from metadata on: a path above a path that
\* is extracted is extracted itself.
LEMMA AboveExtracted ==
  ASSUME NEW p \in Extracted, NEW d \in Above(p)
  PROVE  d \in Extracted
BY AufsAssumption DEF Extracted, Above

-----------------------------------------------------------------------------
(* What unpacking does to a well-formed file system. *)

\* Removing a tree keeps a file system well-formed.
LEMMA RemoveAllWellFormed ==
  ASSUME NEW fs \in FileSystems, WellFormed(fs), NEW p \in Paths
  PROVE  /\ RemoveAll(fs, p) \in FileSystems
         /\ WellFormed(RemoveAll(fs, p))
BY TreeFacts, EntriesAssumption, AufsAssumption, PathsAssumption
   DEF FileSystems, WellFormed, RemoveAll

\* Unpacking an entry whose directories exist keeps a file system well-formed.
LEMMA ExtractWellFormed ==
  ASSUME NEW fs \in FileSystems, WellFormed(fs), NEW p \in Paths, NEW e \in Entries,
         \A d \in Above(p) : fs[d] \in Dirs \/ d \in AufsMeta
  PROVE  /\ Extract(fs, p, e) \in FileSystems
         /\ WellFormed(Extract(fs, p, e))
<1>1. CASE p \in AufsMeta
  BY <1>1 DEF Extract, CreateTarFile
<1>2. CASE p \notin AufsMeta
  <2> DEFINE g == Extract(fs, p, e)
  <2>1. g \in FileSystems
    BY <1>2, EntriesAssumption DEF Extract, CreateTarFile, RemoveAll, FileSystems
  <2>2. ASSUME NEW q \in Paths
        PROVE  g[q] = IF q = p THEN e
                      ELSE IF q \in Beneath[p] /\ ~(fs[p] \in Dirs /\ e \in Dirs) THEN Absent
                      ELSE fs[q]
    BY <1>2, <2>2 DEF Extract, CreateTarFile, RemoveAll, FileSystems, Tree
  <2>3. ASSUME NEW m \in AufsMeta
        PROVE  g[m] = Absent
    BY <1>2, <2>2, <2>3, AufsAssumption DEF WellFormed
  <2>4. ASSUME NEW d \in Paths, g[d] \notin Dirs, NEW q \in Beneath[d]
        PROVE  g[q] = Absent
    <3>1. q \in Paths /\ q # d
      BY <2>4, TreeFacts
    <3>2. CASE q = p
      \* d is above p: it is a directory already, or metadata, whose tree is too.
      <4>1. d \in Above(p) /\ d # p /\ d \notin Beneath[p]
        BY <2>4, <3>2, TreeFacts DEF Above, Tree
      <4>2. d \notin AufsMeta
        BY <1>2, <2>4, <3>2, AufsAssumption
      <4>3. g[d] = fs[d]
        BY <2>2, <4>1
      <4>4. QED
        BY <2>4, <4>1, <4>2, <4>3
    <3>3. CASE q # p /\ d = p
      <4>1. e \notin Dirs
        BY <2>2, <2>4, <3>3
      <4>2. QED
        BY <2>2, <2>4, <3>1, <3>3, <4>1
    <3>4. CASE q # p /\ d # p
      <4>1. CASE g[d] = fs[d]
        BY <2>2, <2>4, <3>1, <3>4, <4>1 DEF WellFormed
      <4>2. CASE g[d] # fs[d]
        \* d went with the tree below p, and q is in that tree
        <5>1. d \in Beneath[p] /\ ~(fs[p] \in Dirs /\ e \in Dirs)
          BY <2>2, <3>4, <4>2
        <5>2. q \in Beneath[p]
          BY <2>4, <5>1, TreeFacts
        <5>3. QED
          BY <2>2, <3>1, <3>4, <5>1, <5>2
      <4>3. QED
        BY <4>1, <4>2
    <3>5. QED
      BY <3>2, <3>3, <3>4
  <2>5. QED
    BY <2>1, <2>3, <2>4 DEF WellFormed
<1>3. QED
  BY <1>1, <1>2

\* What an addition does to the file system, path by path.
LEMMA ExtractAt ==
  ASSUME NEW fs \in FileSystems, NEW p \in Paths, NEW e \in Entries
  PROVE  /\ p \notin AufsMeta => Extract(fs, p, e)[p] = e
         /\ \A q \in Paths \ {p} : Extract(fs, p, e)[q] \in {fs[q], Absent}
         /\ \A q \in Paths : p \in AufsMeta => Extract(fs, p, e)[q] = fs[q]
         /\ \A q \in Paths \ {p} :
              Extract(fs, p, e)[q] # fs[q] =>
                q \in Beneath[p] /\ ~(fs[p] \in Dirs /\ e \in Dirs)
BY DEF Extract, CreateTarFile, RemoveAll, FileSystems, Tree

-----------------------------------------------------------------------------
(* The inductive invariant. *)

LEMMA InitIInv == Init => IInv
<1> SUFFICES ASSUME Init PROVE IInv
  OBVIOUS
<1> USE DEF Init, NewLayer
<1>1. base \in FileSystems /\ WellFormed(base) /\ rootfs = base
  OBVIOUS
<1>2. TypeOK
  BY <1>1, SquashAssumption DEF TypeOK, LayerTypeOK, FileSystems
<1>3. ListedOrBase /\ SeenIsListed /\ KeysHaveHistory /\ WhiteoutsAreGone
  BY DEF ListedOrBase, SeenIsListed, KeysHaveHistory, WhiteoutsAreGone, Extracted
<1>4. NothingLeaks /\ ParentsListed /\ DeletionsKept /\ MetadataIsKept
  BY DEF NothingLeaks, ParentsListed, DeletionsKept, MetadataIsKept, Extracted
<1>5. ArchivesLeft
  BY SquashAssumption DEF ArchivesLeft
<1>6. QED
  BY <1>1, <1>2, <1>3, <1>4, <1>5 DEF IInv

\* An entry of kind addition keeps the invariant: its key becomes what the file
\* system gets, and what it replaces was either merged into or had no contents.
LEMMA AdditionKeepsIInv ==
  ASSUME IInv, NEW p \in Paths, NEW e \in Entries, ReadAddition(p, e)
  PROVE  IInv'
<1>1. /\ TypeOK /\ files \in FileSystems /\ rootfs \in FileSystems
      /\ base \in FileSystems /\ white \subseteq Paths
      /\ WellFormed(rootfs)
  BY DEF IInv, TypeOK, LayerTypeOK
<1>2. /\ files' = [files EXCEPT ![p] = e]
      /\ white' = white \ {p}
      /\ rootfs' = Extract(rootfs, p, e)
      /\ seen' = seen \cup {p}
      /\ listed' = listed \cup {p}
      /\ retyped' = IF SameKind(p, e) THEN retyped ELSE retyped \cup {p}
      /\ UNCHANGED <<base, layer, status, deleted>>
  BY DEF ReadAddition, AddDir, AddFile, Undelete
<1>3. /\ \A d \in Above(p) : rootfs[d] \in Dirs \/ d \in AufsMeta
      /\ "implicit" \in Shapes \/ Above(p) \subseteq seen
  BY DEF ReadAddition, Addable, Mentionable
<1>4. files'[p] = e /\ e # Absent /\ \A q \in Paths \ {p} : files'[q] = files[q]
  BY <1>1, <1>2, EntriesAssumption DEF FileSystems
<1>5. /\ p \notin AufsMeta => rootfs'[p] = e
      /\ \A q \in Paths \ {p} : rootfs'[q] \in {rootfs[q], Absent}
      /\ \A q \in Paths : p \in AufsMeta => rootfs'[q] = rootfs[q]
      /\ \A q \in Paths \ {p} :
           rootfs'[q] # rootfs[q] =>
             q \in Beneath[p] /\ ~(rootfs[p] \in Dirs /\ e \in Dirs)
  BY <1>1, <1>2, ExtractAt
\* Of the same kind, nothing but the path itself changes.
<1>6. ASSUME SameKind(p, e), NEW q \in Paths \ {p}
      PROVE  rootfs'[q] = rootfs[q]
  <2>1. CASE rootfs[p] \in Dirs
    BY <1>5, <1>6, <2>1, EntriesAssumption DEF SameKind
  <2>2. CASE rootfs[p] \notin Dirs
    <3>1. q \in Beneath[p] => rootfs[q] = Absent
      BY <1>1, <2>2 DEF WellFormed
    <3>2. QED
      BY <1>5, <1>6, <3>1
  <2>3. QED
    BY <2>1, <2>2
\* What is steady after the entry was steady before it, and no part of a tree
\* that a new kind of p replaced.
<1>steady. ASSUME NEW q \in Paths, Steady(q)'
           PROVE  Steady(q) /\ (q \in Tree(p) => SameKind(p, e))
  BY <1>2, <1>steady DEF Steady, Tree, Above
<1>7. TypeOK' /\ WellFormed(rootfs)'
  <2>1. rootfs' \in FileSystems /\ WellFormed(rootfs')
    BY <1>1, <1>2, <1>3, ExtractWellFormed
  <2>2. files' \in FileSystems
    BY <1>1, <1>2 DEF FileSystems
  <2>3. QED
    BY <1>1, <1>2, <2>1, <2>2 DEF TypeOK, LayerTypeOK
<1>8. ListedOrBase'
  <2> SUFFICES ASSUME NEW q \in Extracted, rootfs'[q] # Absent
               PROVE  \/ files'[q] = rootfs'[q]
                      \/ files'[q] = Absent /\ base[q] = rootfs'[q]
    BY <1>2 DEF ListedOrBase
  <2>1. CASE q = p
    BY <1>4, <1>5, <2>1 DEF Extracted
  <2>2. CASE q # p
    BY <1>4, <1>5, <2>2 DEF IInv, ListedOrBase, Extracted
  <2>3. QED
    BY <2>1, <2>2
<1>9. SeenIsListed'
  <2> SUFFICES ASSUME NEW q \in (seen \cup {p}) \cap Extracted, rootfs'[q] # Absent
               PROVE  files'[q] = rootfs'[q]
    BY <1>2 DEF SeenIsListed
  <2>1. CASE q = p
    BY <1>4, <1>5, <2>1 DEF Extracted
  <2>2. CASE q # p
    BY <1>4, <1>5, <2>2 DEF IInv, SeenIsListed, Extracted
  <2>3. QED
    BY <2>1, <2>2
<1>10. KeysHaveHistory'
  BY <1>2, <1>4 DEF IInv, KeysHaveHistory
<1>11. WhiteoutsAreGone'
  BY <1>1, <1>2, <1>5 DEF IInv, WhiteoutsAreGone
<1>12. NothingLeaks'
  <2> SUFFICES ASSUME "implicit" \notin Shapes, NEW q \in Extracted, Steady(q)'
               PROVE  files'[q] \in {Absent, rootfs'[q]}
    BY DEF NothingLeaks
  <2>0. q \in Paths /\ Steady(q) /\ (q \in Tree(p) => SameKind(p, e))
    BY <1>steady DEF Extracted
  <2>1. CASE q = p
    BY <1>4, <1>5, <2>1 DEF Extracted
  <2>2. CASE q # p
    <3>1. rootfs'[q] = rootfs[q] /\ files'[q] = files[q]
      BY <1>4, <1>5, <1>6, <2>0, <2>2 DEF Tree
    <3>2. QED
      BY <2>0, <3>1 DEF IInv, NothingLeaks
  <2>3. QED
    BY <2>1, <2>2
<1>13. ParentsListed'
  <2> SUFFICES ASSUME "implicit" \notin Shapes, NEW q \in Paths,
                      files'[q] # Absent \/ q \in white',
                      NEW d \in Above(q) \cap Extracted, Steady(d)'
               PROVE  files'[d] \in Dirs
    BY DEF ParentsListed
  <2>1. d \in Extracted /\ d \in Paths /\ d # q
    BY PathsAssumption DEF Above, Extracted
  <2>0. Steady(d) /\ (d = p => SameKind(p, e))
    BY <1>steady, <2>1 DEF Tree
  <2>2. CASE q = p
    <3>1. d \in seen /\ rootfs[d] \in Dirs
      BY <1>3, <2>1, <2>2 DEF Extracted
    <3>2. files[d] = rootfs[d]
      BY <2>1, <3>1, EntriesAssumption DEF IInv, SeenIsListed
    <3>3. QED
      BY <1>4, <2>1, <2>2, <3>1, <3>2
  <2>3. CASE q # p
    <3>1. files[d] \in Dirs
      BY <1>2, <1>4, <2>0, <2>3 DEF IInv, ParentsListed
    <3>2. CASE d = p
      <4>1. rootfs[p] \in Dirs
        BY <2>0, <2>1, <3>1, <3>2, EntriesAssumption DEF IInv, NothingLeaks
      <4>2. QED
        BY <1>4, <2>0, <3>2, <4>1, EntriesAssumption DEF SameKind
    <3>3. CASE d # p
      BY <1>4, <2>1, <3>1, <3>3
    <3>4. QED
      BY <3>2, <3>3
  <2>4. QED
    BY <2>2, <2>3
<1>14. DeletionsKept'
  <2> SUFFICES ASSUME NEW q \in Extracted, Steady(q)', rootfs'[q] = Absent,
                      base[q] # Absent
               PROVE  \E r \in {q} \cup Above(q) : r \in white' \/ r \in listed' \cap deleted'
    BY <1>2 DEF DeletionsKept
  <2>1. q # p
    BY <1>4, <1>5 DEF Extracted
  <2>2. Steady(q) /\ rootfs[q] = Absent
    BY <1>5, <1>6, <1>steady, <2>1 DEF Extracted, Tree
  <2>3. PICK r \in {q} \cup Above(q) : r \in white \/ r \in listed \cap deleted
    BY <2>2 DEF IInv, DeletionsKept
  <2>4. r \in white' \/ r \in listed' \cap deleted'
    BY <1>2, <2>3 DEF IInv, KeysHaveHistory
  <2>5. QED
    BY <2>4
<1>15. MetadataIsKept'
  BY <1>2, <1>4, AufsAssumption DEF IInv, MetadataIsKept
<1>16. ArchivesLeft'
  BY <1>2 DEF IInv, ArchivesLeft
<1>17. QED
  BY <1>16, <1>7, <1>8, <1>9, <1>10, <1>11, <1>12, <1>13, <1>14, <1>15 DEF IInv

\* A whiteout keeps the invariant in each of its three branches: recorded, or
\* spent on a directory with its listed tree, or spent on one file.
LEMMA WhiteoutKeepsIInv ==
  ASSUME IInv, NEW p \in Paths, ReadWhiteout(p)
  PROVE  IInv'
<1>1. /\ TypeOK /\ files \in FileSystems /\ rootfs \in FileSystems
      /\ white \subseteq Paths
      /\ WellFormed(rootfs)
  BY DEF IInv, TypeOK, LayerTypeOK
<1>2. /\ rootfs' = RemoveAll(rootfs, p)
      /\ seen' = seen \cup {p}
      /\ deleted' = deleted \cup {p}
      /\ UNCHANGED <<base, layer, status, listed, retyped>>
      /\ RecordWhiteout(p) \/ DropDir(p) \/ DropFile(p)
  BY DEF ReadWhiteout, ApplyWhiteout
<1>3. rootfs[p] # Absent /\ p \in Extracted
  BY <1>1 DEF ReadWhiteout, Deletable, WellFormed, Extracted
<1>4. /\ Tree(p) \subseteq Paths
      /\ \A q \in Tree(p) : q = p \/ p \in Above(q)
      /\ \A q \in Paths : \A d \in Above(q) : d \in Tree(p) => q \in Beneath[p]
  BY TreeFacts DEF Tree, Above
<1>5. \A q \in Paths : rootfs'[q] = IF q \in Tree(p) THEN Absent ELSE rootfs[q]
  BY <1>2 DEF RemoveAll
\* What each branch leaves of the keys.
<1>6. /\ files' \in FileSystems
      /\ white' \subseteq white \cup {p}
      /\ \A q \in Paths : files'[q] \in {files[q], Absent}
      /\ \A q \in Paths \ Tree(p) : files'[q] = files[q]
  <2>1. CASE RecordWhiteout(p)
    BY <1>1, <2>1 DEF RecordWhiteout
  <2>2. CASE DropDir(p)
    BY <1>1, <2>2 DEF DropDir, RemoveAll, FileSystems
  <2>3. CASE DropFile(p)
    BY <1>1, <2>3 DEF DropFile, FileSystems, Tree
  <2>4. QED
    BY <1>2, <2>1, <2>2, <2>3
<1>steady. \A q \in Paths : Steady(q)' => Steady(q)
  BY <1>2 DEF Steady
<1>7. TypeOK' /\ WellFormed(rootfs)'
  BY <1>1, <1>2, <1>6, RemoveAllWellFormed DEF TypeOK, LayerTypeOK
<1>8. ListedOrBase'
  BY <1>2, <1>5, <1>6 DEF IInv, ListedOrBase, Extracted
<1>9. SeenIsListed'
  <2> SUFFICES ASSUME NEW q \in (seen \cup {p}) \cap Extracted, rootfs'[q] # Absent
               PROVE  files'[q] = rootfs'[q]
    BY <1>2 DEF SeenIsListed
  <2>1. q \in Paths \ Tree(p) /\ q \in seen
    BY <1>5 DEF Extracted, Tree
  <2>2. QED
    BY <1>5, <1>6, <2>1 DEF IInv, SeenIsListed
<1>10. KeysHaveHistory'
  BY <1>2, <1>3, <1>6 DEF IInv, KeysHaveHistory
<1>11. WhiteoutsAreGone'
  BY <1>1, <1>5, <1>6 DEF IInv, WhiteoutsAreGone, Tree
<1>12. NothingLeaks'
  <2> SUFFICES ASSUME "implicit" \notin Shapes, NEW q \in Extracted, Steady(q)
               PROVE  files'[q] \in {Absent, rootfs'[q]}
    BY <1>steady DEF NothingLeaks, Extracted
  <2>1. CASE q \notin Tree(p)
    BY <1>5, <1>6, <2>1 DEF IInv, NothingLeaks, Extracted
  <2>2. CASE q \in Tree(p)
    <3>0. q # p => p \in Above(q) /\ Steady(p)
      BY <1>4, <2>2, TreeFacts DEF Steady, Tree, Above
    <3>1. q # p => (files[q] # Absent => files[p] \in Dirs)
      BY <1>3, <3>0 DEF IInv, ParentsListed, Extracted
    <3>2. CASE RecordWhiteout(p)
      BY <3>1, <3>2, EntriesAssumption DEF RecordWhiteout
    <3>3. CASE DropDir(p)
      BY <2>2, <3>3 DEF DropDir, RemoveAll, Extracted
    <3>4. CASE DropFile(p)
      <4>1. q # p => files[q] = Absent
        BY <3>1, <3>4 DEF DropFile
      <4>2. files'[p] = Absent
        BY <1>1, <3>4 DEF DropFile, FileSystems
      <4>3. QED
        BY <1>6, <4>1, <4>2 DEF Extracted
    <3>5. QED
      BY <1>2, <3>2, <3>3, <3>4
  <2>3. QED
    BY <2>1, <2>2
<1>13. ParentsListed'
  <2> SUFFICES ASSUME "implicit" \notin Shapes, NEW q \in Paths,
                      files'[q] # Absent \/ q \in white',
                      NEW d \in Above(q) \cap Extracted, Steady(d)
               PROVE  files'[d] \in Dirs
    BY <1>steady DEF ParentsListed, Extracted
  <2>1. d \in Paths /\ d # q
    BY PathsAssumption DEF Above
  \* The directories above the whiteout itself are in this archive, ...
  <2>2. CASE q = p /\ RecordWhiteout(p)
    <3>1. d \in seen /\ rootfs[d] \in Dirs
      BY <1>1, <2>2 DEF ReadWhiteout, Deletable, Mentionable, Extracted
    <3>2. QED
      BY <2>2, <3>1, EntriesAssumption DEF IInv, SeenIsListed, RecordWhiteout
  \* ... and those above a key that stays were and stay listed.
  <2>3. CASE ~(q = p /\ RecordWhiteout(p))
    <3>1. files[q] # Absent \/ q \in white
      <4>1. CASE q = p
        <5>1. DropDir(p) \/ DropFile(p)
          BY <1>2, <2>3, <4>1
        <5>2. QED
          BY <1>6, <4>1, <5>1 DEF DropDir, DropFile
      <4>2. CASE q # p
        BY <1>6, <4>2
      <4>3. QED
        BY <4>1, <4>2
    <3>2. files[d] \in Dirs
      BY <3>1 DEF IInv, ParentsListed
    <3>3. CASE RecordWhiteout(p)
      BY <3>2, <3>3 DEF RecordWhiteout
    <3>4. CASE DropDir(p)
      <4>1. q \notin Beneath[p]
        BY <3>4 DEF DropDir, RemoveAll, Tree
      <4>2. d \notin Tree(p)
        BY <1>4, <2>1, <4>1 DEF Tree
      <4>3. QED
        BY <1>6, <2>1, <3>2, <4>2
    <3>5. CASE DropFile(p)
      BY <1>1, <2>1, <3>2, <3>5 DEF DropFile, FileSystems
    <3>6. QED
      BY <1>2, <3>3, <3>4, <3>5
  <2>4. QED
    BY <2>2, <2>3
<1>14. DeletionsKept'
  <2> SUFFICES ASSUME NEW q \in Extracted, Steady(q), rootfs'[q] = Absent,
                      base[q] # Absent
               PROVE  \E r \in {q} \cup Above(q) : r \in white' \/ r \in listed' \cap deleted'
    BY <1>2, <1>steady DEF DeletionsKept, Extracted
  <2>1. q \in Paths
    BY DEF Extracted
  \* A whiteout of p is recorded, or p had a key and so a history.
  <2>2. p \in white' \/ p \in listed' \cap deleted'
    <3>1. RecordWhiteout(p) => p \in white'
      BY DEF RecordWhiteout
    <3>2. DropDir(p) \/ DropFile(p) => files[p] # Absent
      BY EntriesAssumption DEF DropDir, DropFile
    <3>3. QED
      BY <1>2, <3>1, <3>2 DEF IInv, KeysHaveHistory
  <2>3. CASE q \in Tree(p)
    BY <1>4, <2>2, <2>3
  <2>4. CASE q \notin Tree(p)
    <3>1. rootfs[q] = Absent
      BY <1>5, <2>1, <2>4
    <3>2. PICK r \in {q} \cup Above(q) : r \in white \/ r \in listed \cap deleted
      BY <3>1 DEF IInv, DeletionsKept
    <3>3. r \notin Beneath[p]
      BY <1>4, <2>1, <2>4, <3>2 DEF Tree
    <3>4. white \ Beneath[p] \subseteq white'
      BY <1>2 DEF RecordWhiteout, DropDir, DropFile
    <3>5. QED
      BY <1>2, <3>2, <3>3, <3>4
  <2>5. QED
    BY <2>3, <2>4
<1>15. MetadataIsKept'
  <2> SUFFICES ASSUME NEW m \in AufsMeta \cap listed
               PROVE  files'[m] # Absent \/ Above(m) \cap deleted' # {}
    BY <1>2 DEF MetadataIsKept
  <2>1. m \in Paths /\ m # p
    BY <1>3, AufsAssumption DEF Extracted
  <2>2. CASE m \in Tree(p)
    BY <1>2, <1>4, <2>1, <2>2
  <2>3. CASE m \notin Tree(p)
    BY <1>2, <1>6, <2>1, <2>3 DEF IInv, MetadataIsKept
  <2>4. QED
    BY <2>2, <2>3
<1>16. ArchivesLeft'
  BY <1>2 DEF IInv, ArchivesLeft
<1>17. QED
  BY <1>16, <1>7, <1>8, <1>9, <1>10, <1>11, <1>12, <1>13, <1>14, <1>15 DEF IInv

\* Reading on to the next archive, failing and stuttering leave every key and
\* the file system alone; at most seen is emptied.
LEMMA OtherStepsKeepIInv ==
  ASSUME IInv, EndOfArchive \/ ApplyError \/ UNCHANGED vars
  PROVE  IInv'
<1>1. /\ UNCHANGED <<files, white, base, rootfs, listed, deleted, retyped>>
      /\ seen' \subseteq seen
  BY DEF EndOfArchive, ApplyError, vars
<1>2. /\ layer' \in 0 .. NumLayers
      /\ status' \in {"applying", "done", "failed"}
      /\ ArchivesLeft'
  <2>1. CASE EndOfArchive
    BY <2>1, SquashAssumption DEF IInv, ArchivesLeft, EndOfArchive
  <2>2. CASE ApplyError \/ UNCHANGED vars
    BY <2>2 DEF IInv, TypeOK, ArchivesLeft, ApplyError, vars
  <2>3. QED
    BY <2>1, <2>2
<1>3. TypeOK' /\ WellFormed(rootfs)'
  BY <1>1, <1>2 DEF IInv, TypeOK, LayerTypeOK
<1>4. ListedOrBase' /\ SeenIsListed' /\ KeysHaveHistory' /\ WhiteoutsAreGone'
  BY <1>1 DEF IInv, ListedOrBase, SeenIsListed, KeysHaveHistory, WhiteoutsAreGone
<1>5. NothingLeaks' /\ ParentsListed' /\ DeletionsKept' /\ MetadataIsKept'
  BY <1>1 DEF IInv, NothingLeaks, ParentsListed, DeletionsKept, MetadataIsKept, Steady
<1>6. QED
  BY <1>2, <1>3, <1>4, <1>5 DEF IInv

LEMMA NextKeepsIInv == IInv /\ [Next]_vars => IInv'
<1> SUFFICES ASSUME IInv, [Next]_vars PROVE IInv'
  OBVIOUS
<1>1. CASE \E p \in Paths, e \in Entries : ReadAddition(p, e)
  BY <1>1, AdditionKeepsIInv
<1>2. CASE \E p \in Paths : ReadWhiteout(p)
  BY <1>2, WhiteoutKeepsIInv
<1>3. CASE EndOfArchive \/ ApplyError \/ UNCHANGED vars
  BY <1>3, OtherStepsKeepIInv
<1>4. QED
  BY <1>1, <1>2, <1>3 DEF Next

\* Every reachable state of the loop satisfies the inductive invariant.
THEOREM SquashInvariant == Spec => []IInv
BY InitIInv, NextKeepsIInv, PTL DEF Spec

-----------------------------------------------------------------------------
(* What follows about the squashed layer. *)

\* lr.Files, the file systems and the loop's counters keep their types.
THEOREM TypeCorrect == Spec => []TypeOK
<1>1. IInv => TypeOK
  BY DEF IInv
<1>2. QED
  BY <1>1, SquashInvariant, PTL

\* No whiteout key outlives the deletion it stands for.
THEOREM NoStaleWhiteout == Spec => []WhiteoutsAreGone
<1>1. IInv => WhiteoutsAreGone
  BY DEF IInv
<1>2. QED
  BY <1>1, SquashInvariant, PTL

\* Archives that list the directories above their entries leave no entry that
\* was removed or overwritten, but at or below a path that changed its kind, ...
THEOREM NoLeak == Spec => []NothingLeaks
<1>1. IInv => NothingLeaks
  BY DEF IInv
<1>2. QED
  BY <1>1, SquashInvariant, PTL

\* ... and no entry without its directories, but where one changed its kind.
THEOREM ParentsStay == Spec => []ParentsListed
<1>1. IInv => ParentsListed
  BY DEF IInv
<1>2. QED
  BY <1>1, SquashInvariant, PTL

\* A deletion is lost only where the same tree was both listed and deleted, or
\* changed between directory and file.
THEOREM DeletionKept == Spec => []DeletionsKept
<1>1. IInv => DeletionsKept
  BY DEF IInv
<1>2. QED
  BY <1>1, SquashInvariant, PTL

\* aufs metadata goes only with a deleted directory.
THEOREM MetadataKept == Spec => []MetadataIsKept
<1>1. IInv => MetadataIsKept
  BY DEF IInv
<1>2. QED
  BY <1>1, SquashInvariant, PTL

\* What the file system has, the squashed layer gives: its key is listed as it
\* is, or the base has it and nothing in the layer hides it.
LEMMA NothingHidden ==
  ASSUME IInv, NEW p \in Extracted, rootfs[p] # Absent
  PROVE  Unpacked(base)[p] = rootfs[p]
<1>1. p \in Paths /\ WellFormed(rootfs)
  BY DEF IInv, Extracted
<1>2. CASE files[p] = rootfs[p]
  BY <1>1, <1>2 DEF Unpacked, UnpackedBy
<1>3. CASE files[p] = Absent /\ base[p] = rootfs[p]
  <2>1. p \notin white
    BY DEF IInv, WhiteoutsAreGone
  <2>2. ASSUME NEW d \in Above(p)
        PROVE  d \notin white /\ files[d] \notin Entries \ Dirs
    <3>1. d \in Extracted /\ d \in Paths
      BY AboveExtracted DEF Above
    <3>2. rootfs[d] \in Dirs
      BY <1>1, <3>1 DEF WellFormed, Above
    <3>3. rootfs[d] # Absent
      BY <3>2, EntriesAssumption
    <3>4. files[d] = rootfs[d] \/ files[d] = Absent
      BY <3>1, <3>3 DEF IInv, ListedOrBase
    <3>5. QED
      BY <3>2, <3>3, <3>4, EntriesAssumption DEF IInv, WhiteoutsAreGone
  <2>3. ~Hidden(files, white, p)
    BY <2>1, <2>2 DEF Hidden
  <2>4. QED
    BY <1>1, <1>3, <2>3 DEF Unpacked, UnpackedBy
<1>4. QED
  BY <1>2, <1>3 DEF IInv, ListedOrBase

\* Nothing the layers leave in the file system is lost by squashing them.
THEOREM NoLoss == Spec => []NothingLost
<1>1. IInv => NothingLost
  BY NothingHidden DEF NothingLost
<1>2. QED
  BY <1>1, SquashInvariant, PTL

\* From archives that list the directories above their entries, the squashed
\* layer differs from the layers it stands for at most in leaving content of the
\* base that the layers removed, but at or below a path that changed its kind.
THEOREM OnlyBaseReturns == Spec => []OnlyBaseContentReturns
<1>1. IInv => OnlyBaseContentReturns
  <2> SUFFICES ASSUME IInv, "implicit" \notin Shapes, NEW p \in Extracted, Steady(p)
               PROVE  Unpacked(base)[p] \in
                        {rootfs[p]} \cup (IF rootfs[p] = Absent THEN {base[p]} ELSE {})
    BY DEF OnlyBaseContentReturns
  <2>1. CASE rootfs[p] # Absent
    BY <2>1, NothingHidden
  <2>2. CASE rootfs[p] = Absent
    <3>1. files[p] = Absent
      BY <2>2 DEF IInv, NothingLeaks
    <3>2. QED
      BY <2>2, <3>1 DEF Unpacked, UnpackedBy, Extracted
  <2>3. QED
    BY <2>1, <2>2
<1>2. QED
  BY <1>1, SquashInvariant, PTL
=============================================================================
