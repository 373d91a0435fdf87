---------------------------- MODULE RebaseProofs ----------------------------
(***************************************************************************)
(* Proofs about Rebase for every set of images, whatever their parents and *)
(* the names given, and for histories of any length.                       *)
(***************************************************************************)
EXTENDS Rebase, FiniteSetTheorems, WellFoundedInduction, TLAPS

-----------------------------------------------------------------------------
(* A fact about numbers. *)

\* A set of numbers has a least one.
LEMMA LeastOf ==
  ASSUME NEW S \in SUBSET Nat, S # {}
  PROVE  \E d \in S : \A e \in S : d <= e
<1> DEFINE Less == {ss \in Nat \X Nat : ss[1] < ss[2]}
<1>1. IsWellFoundedOn(Less, Nat)
  BY NatLessThanWellFounded DEF OpToRel
<1>2. \A x, y \in Nat : <<y, x>> \in Less <=> y < x
  OBVIOUS
<1> HIDE DEF Less
<1>3. PICK d \in S : \A e \in S : ~(<<e, d>> \in Less)
  BY <1>1, WFMin
<1>4. ASSUME NEW e \in S
      PROVE  d <= e
  <2>1. d \in Nat /\ e \in Nat
    OBVIOUS
  <2>2. ~(<<e, d>> \in Less)
    BY <1>3
  <2>3. ~(e < d)
    BY <1>2, <2>1, <2>2
  <2>4. QED
    BY <2>1, <2>3
<1>5. QED
  BY <1>4

-----------------------------------------------------------------------------
(* The parts of the state that the phases share. *)

LEMMA InitLoopInv == Init => LoopInv
<1> SUFFICES ASSUME Init PROVE LoopInv
  OBVIOUS
<1> USE DEF Init
<1>1. TypeOK
  <2>1. GraphTypeOK
    <3>1. tarballs \in [Ids -> TarballStates]
      BY DEF NewGraph, TarballStates
    <3>2. QED
      BY <3>1 DEF NewGraph, GraphTypeOK
  <2>2. QED
    BY <2>1 DEF TypeOK, Phases
<1>2. IndexInRange /\ HistoryIsChain /\ HistoryIsWhole
  BY DEF IndexInRange, HistoryIsChain, HistoryIsWhole
<1>3. IdIsLoaded
  BY DEF IdIsLoaded
<1>4. AppliedFollowsHistory /\ ResultIsFinal
  BY DEF AppliedFollowsHistory, ResultIsFinal
<1>5. QED
  BY <1>1, <1>2, <1>3, <1>4 DEF LoopInv

\* While the archive is read there is no history yet and nothing is applied.
LEMMA LoadingKeepsLoopInv ==
  ASSUME LoopInv,
         \/ \E kind \in {"json", "layer.tar"}, x \in Ids : ReadEntry(kind, x)
         \/ EndOfCopy \/ EndOfStream \/ LoadError
  PROVE  LoopInv'
<1>1. /\ pc = "load" /\ pc' \in {"load", "expand", "failed"}
      /\ UNCHANGED <<parent, image, base, id, base_id, history, i, applied, reads, rimg>>
      /\ unread' \subseteq unread
  BY DEF ReadEntry, EndOfCopy, EndOfStream, LoadError, Fail, runVars
<1>2. GraphTypeOK'
  <2>1. ASSUME NEW x \in Ids, LoadJson(x) \/ CreateLayer(x) \/ FinishLayer(x)
        PROVE  GraphTypeOK'
    <3>1. tarballs' \in [Ids -> TarballStates]
      BY <2>1 DEF LoopInv, TypeOK, GraphTypeOK, TarballStates, LoadJson, CreateLayer, FinishLayer
    <3>2. QED
      BY <2>1, <3>1 DEF LoopInv, TypeOK, GraphTypeOK, LoadJson, CreateLayer, FinishLayer
  <2>2. CASE LeaveLayer \/ UNCHANGED graphVars
    BY <2>2 DEF LoopInv, TypeOK, GraphTypeOK, graphVars, LeaveLayer
  <2>3. writing \subseteq Ids
    BY DEF LoopInv, TypeOK, GraphTypeOK
  <2>4. QED
    BY <2>1, <2>2, <2>3 DEF ReadEntry, EndOfCopy, EndOfStream, LoadError
<1>3. TypeOK'
  BY <1>1, <1>2 DEF LoopInv, TypeOK, Phases
<1>4. IdIsLoaded' /\ IndexInRange' /\ HistoryIsChain' /\ HistoryIsWhole'
  BY <1>1 DEF LoopInv, IdIsLoaded, graphVars, IndexInRange, HistoryIsChain, HistoryIsWhole
<1>5. AppliedFollowsHistory' /\ ResultIsFinal'
  BY <1>1 DEF LoopInv, AppliedFollowsHistory, ResultIsFinal
<1>6. QED
  BY <1>3, <1>4, <1>5 DEF LoopInv

\* Both names expand to images that were loaded, and the history starts at the
\* image.
LEMMA ExpandingKeepsLoopInv ==
  ASSUME LoopInv, ExpandImage \/ ExpandBase
  PROVE  LoopInv'
<1>1. \A name \in Names : Expansions(name) \subseteq images
  BY DEF Expansions
<1>2. images \subseteq Ids /\ images \subseteq Names
  BY NamesAssumption DEF LoopInv, TypeOK, GraphTypeOK
<1>3. CASE ExpandImage
  <2>1. /\ pc = "expand" /\ pc' \in {"expandBase", "failed"}
        /\ id' \in Names /\ (pc' = "expandBase" => id' \in images)
        /\ UNCHANGED <<graphVars, parent, image, base, unread, base_id, history, i, applied, reads, rimg>>
    BY <1>1, <1>2, <1>3 DEF ExpandImage, Fail, IdIsLoaded, LoopInv, TypeOK
  <2>2. TypeOK'
    BY <2>1 DEF LoopInv, TypeOK, GraphTypeOK, graphVars, Phases
  <2>3. IdIsLoaded' /\ IndexInRange' /\ HistoryIsChain' /\ HistoryIsWhole'
    BY <2>1 DEF LoopInv, IdIsLoaded, graphVars, IndexInRange, HistoryIsChain, HistoryIsWhole
  <2>4. AppliedFollowsHistory' /\ ResultIsFinal'
    BY <2>1 DEF LoopInv, AppliedFollowsHistory, ResultIsFinal
  <2>5. QED
    BY <2>2, <2>3, <2>4 DEF LoopInv
<1>4. CASE ExpandBase /\ pc' = "failed"
  <2>1. /\ pc = "expandBase"
        /\ UNCHANGED <<graphVars, parent, image, base, unread, id, base_id, history, i, applied, reads, rimg>>
    BY <1>4 DEF ExpandBase
  <2>2. TypeOK'
    BY <1>4, <2>1 DEF LoopInv, TypeOK, GraphTypeOK, graphVars, Phases
  <2>3. IdIsLoaded' /\ IndexInRange' /\ HistoryIsChain' /\ HistoryIsWhole'
    BY <1>4, <2>1 DEF LoopInv, IdIsLoaded, graphVars, IndexInRange, HistoryIsChain, HistoryIsWhole
  <2>4. AppliedFollowsHistory' /\ ResultIsFinal'
    BY <1>4, <2>1 DEF LoopInv, AppliedFollowsHistory, ResultIsFinal
  <2>5. QED
    BY <2>2, <2>3, <2>4 DEF LoopInv
<1>5. CASE ExpandBase /\ pc' # "failed"
  <2>1. /\ pc = "expandBase" /\ pc' = "history"
        /\ base_id' \in Names /\ id \in Ids
        /\ history' = <<id>>
        /\ UNCHANGED <<graphVars, parent, image, base, unread, id, i, applied, reads, rimg>>
    BY <1>1, <1>2, <1>5 DEF ExpandBase, Fail, LoopInv, TypeOK, IdIsLoaded
  <2>2. TypeOK'
    BY <2>1 DEF LoopInv, TypeOK, GraphTypeOK, graphVars, Phases
  <2>3. IdIsLoaded' /\ IndexInRange' /\ HistoryIsChain' /\ HistoryIsWhole'
    BY <2>1 DEF LoopInv, IdIsLoaded, graphVars, IndexInRange, HistoryIsChain, HistoryIsWhole
  <2>4. AppliedFollowsHistory' /\ ResultIsFinal'
    BY <2>1 DEF LoopInv, AppliedFollowsHistory, ResultIsFinal
  <2>5. QED
    BY <2>2, <2>3, <2>4 DEF LoopInv
<1>6. QED
  BY <1>3, <1>4, <1>5

-----------------------------------------------------------------------------
(* The history. *)

LEMMA WalkKeepsLoopInv ==
  ASSUME LoopInv, WalkHistory
  PROVE  LoopInv'
<1>1. /\ pc = "history" /\ history \in Seq(Ids) /\ Len(history) > 0
      /\ Oldest \in Ids
      /\ history' = Append(history, Oldest)
      /\ UNCHANGED <<graphVars, parent, image, base, unread, pc, id, base_id, i, applied, reads, rimg>>
  BY DEF WalkHistory, LoopInv, TypeOK, GraphTypeOK, HistoryIsChain
<1>2. /\ history' \in Seq(Ids) /\ Len(history') = Len(history) + 1
      /\ history'[Len(history) + 1] = Oldest
      /\ \A k \in 1 .. Len(history) : history'[k] = history[k]
  BY <1>1
<1>3. TypeOK' /\ IdIsLoaded'
  BY <1>1, <1>2 DEF LoopInv, TypeOK, GraphTypeOK, IdIsLoaded, graphVars
<1>4. HistoryIsChain'
  <2>1. history'[1] = id
    BY <1>1, <1>2 DEF LoopInv, HistoryIsChain
  <2>2. ASSUME NEW k \in 1 .. Len(history)
        PROVE  parent[history'[k]] = history'[k + 1]
    <3>1. CASE k = Len(history)
      BY <1>2, <3>1 DEF Oldest
    <3>2. CASE k # Len(history)
      <4>1. k \in 1 .. Len(history) - 1 /\ k + 1 \in 1 .. Len(history)
        BY <1>1, <3>2
      <4>2. QED
        BY <1>2, <4>1 DEF LoopInv, HistoryIsChain
    <3>3. QED
      BY <3>1, <3>2
  <2>3. QED
    BY <1>1, <1>2, <2>1, <2>2 DEF HistoryIsChain
<1>5. IndexInRange' /\ HistoryIsWhole' /\ AppliedFollowsHistory' /\ ResultIsFinal'
  BY <1>1 DEF LoopInv, IndexInRange, HistoryIsWhole, AppliedFollowsHistory, ResultIsFinal
<1>6. QED
  BY <1>3, <1>4, <1>5 DEF LoopInv

LEMMA EndOfHistoryKeepsLoopInv ==
  ASSUME LoopInv, EndOfHistory
  PROVE  LoopInv'
<1>1. /\ pc = "history" /\ history \in Seq(Ids) /\ Len(history) > 0
      /\ \/ Oldest = NoParent /\ pc' = "seek" /\ i' = Len(history) - 1
         \/ pc' = "failed" /\ i' = i
      /\ UNCHANGED <<graphVars, parent, image, base, unread, id, base_id, history, applied, reads, rimg>>
  BY DEF EndOfHistory, Fail, LoopInv, TypeOK, HistoryIsChain
<1>2. TypeOK' /\ IdIsLoaded'
  BY <1>1 DEF LoopInv, TypeOK, GraphTypeOK, IdIsLoaded, graphVars, Phases
<1>3. IndexInRange'
  BY <1>1 DEF IndexInRange
<1>4. HistoryIsChain' /\ HistoryIsWhole'
  BY <1>1 DEF LoopInv, HistoryIsChain, HistoryIsWhole, Oldest
<1>5. AppliedFollowsHistory' /\ ResultIsFinal'
  BY <1>1 DEF LoopInv, AppliedFollowsHistory, ResultIsFinal
<1>6. QED
  BY <1>2, <1>3, <1>4, <1>5 DEF LoopInv

-----------------------------------------------------------------------------
(* The two loops of Rebase. *)

LEMMA SkipKeepsLoopInv ==
  ASSUME LoopInv, SkipBelowBase
  PROVE  LoopInv'
<1>1. /\ pc = "seek" /\ i' = i - 1 /\ i \in Int
      /\ IF i' < 0 THEN pc' = "failed" ELSE pc' = pc
      /\ history \in Seq(Ids) /\ i + 1 \in 1 .. Len(history)
      /\ UNCHANGED <<graphVars, parent, image, base, unread, id, base_id, history, applied, reads, rimg>>
  BY DEF SkipBelowBase, Fail, LoopInv, TypeOK, IndexInRange
<1>2. TypeOK' /\ IdIsLoaded'
  BY <1>1 DEF LoopInv, TypeOK, GraphTypeOK, IdIsLoaded, graphVars, Phases
<1>3. IndexInRange'
  BY <1>1 DEF IndexInRange
<1>4. HistoryIsChain' /\ HistoryIsWhole'
  BY <1>1 DEF LoopInv, HistoryIsChain, HistoryIsWhole
<1>5. AppliedFollowsHistory' /\ ResultIsFinal'
  BY <1>1 DEF LoopInv, AppliedFollowsHistory, ResultIsFinal
<1>6. QED
  BY <1>2, <1>3, <1>4, <1>5 DEF LoopInv

LEMMA FoundKeepsLoopInv ==
  ASSUME LoopInv, BaseFound
  PROVE  LoopInv'
<1>1. /\ pc = "seek" /\ i' = i - 1 /\ i \in Int
      /\ pc' \in {"apply", "failed"}
      /\ history \in Seq(Ids) /\ i + 1 \in 1 .. Len(history)
      /\ history[i + 1] = base_id
      /\ applied = <<>> /\ rimg = NoImage
      /\ UNCHANGED <<graphVars, parent, image, base, unread, id, base_id, history, applied, reads, rimg>>
  BY DEF BaseFound, LoopInv, TypeOK, IndexInRange, ResultIsFinal
<1>2. TypeOK' /\ IdIsLoaded'
  BY <1>1 DEF LoopInv, TypeOK, GraphTypeOK, IdIsLoaded, graphVars, Phases
<1>3. IndexInRange'
  BY <1>1 DEF IndexInRange, MoreLayers
<1>4. HistoryIsChain' /\ HistoryIsWhole'
  BY <1>1 DEF LoopInv, HistoryIsChain, HistoryIsWhole
<1>5. AppliedFollowsHistory'
  <2>1. FoundAt' = i /\ Len(applied') = 0
    BY <1>1 DEF FoundAt
  <2>2. QED
    BY <1>1, <2>1 DEF AppliedFollowsHistory
<1>6. ResultIsFinal'
  BY <1>1 DEF ResultIsFinal
<1>7. QED
  BY <1>2, <1>3, <1>4, <1>5, <1>6 DEF LoopInv

\* A layer applied is the next one of the history towards the image; the place
\* where the base was found stays the same.
LEMMA ApplyKeepsLoopInv ==
  ASSUME LoopInv, ApplyLayer
  PROVE  LoopInv'
<1>1. /\ pc = "apply" /\ i > 0 /\ i' = i - 1 /\ i \in Int
      /\ history \in Seq(Ids) /\ i + 1 \in 1 .. Len(history)
      /\ applied \in Seq(Ids) /\ applied' = Append(applied, history[i + 1])
      /\ reads' = Append(reads, tarballs[history[i + 1]])
      /\ UNCHANGED <<graphVars, parent, image, base, unread, pc, id, base_id, history, rimg>>
  BY DEF ApplyLayer, LoopInv, TypeOK, IndexInRange, MoreLayers
<1>2. /\ applied' \in Seq(Ids) /\ Len(applied') = Len(applied) + 1
      /\ applied'[Len(applied) + 1] = history[i + 1]
      /\ \A k \in 1 .. Len(applied) : applied'[k] = applied[k]
  BY <1>1
<1>3. TypeOK' /\ IdIsLoaded'
  <2>1. reads' \in Seq(TarballStates)
    BY <1>1 DEF LoopInv, TypeOK, GraphTypeOK
  <2>2. QED
    BY <1>1, <1>2, <2>1 DEF LoopInv, TypeOK, GraphTypeOK, IdIsLoaded, graphVars
<1>4. IndexInRange'
  BY <1>1 DEF IndexInRange, MoreLayers
<1>5. HistoryIsChain' /\ HistoryIsWhole'
  BY <1>1 DEF LoopInv, HistoryIsChain, HistoryIsWhole
<1>6. AppliedFollowsHistory'
  <2>1. FoundAt' = FoundAt /\ FoundAt \in Int
    BY <1>1, <1>2 DEF FoundAt
  <2>2. /\ FoundAt \in 0 .. Len(history) - 1
        /\ history[FoundAt + 1] = base_id
        /\ \A k \in 1 .. Len(applied) : applied[k] = history[FoundAt + 1 - k]
    BY <1>1 DEF LoopInv, AppliedFollowsHistory
  <2>3. ASSUME NEW k \in 1 .. Len(applied')
        PROVE  applied'[k] = history[FoundAt + 1 - k]
    <3>1. CASE k = Len(applied) + 1
      <4>1. FoundAt + 1 - k = i + 1
        BY <1>1, <3>1 DEF FoundAt
      <4>2. QED
        BY <1>2, <3>1, <4>1
    <3>2. CASE k # Len(applied) + 1
      <4>1. k \in 1 .. Len(applied)
        BY <1>1, <1>2, <3>2
      <4>2. QED
        BY <1>2, <2>2, <4>1
    <3>3. QED
      BY <3>1, <3>2
  <2>4. i' # -1 /\ i' >= -1
    BY <1>1
  <2>5. QED
    BY <1>1, <2>1, <2>2, <2>3, <2>4 DEF AppliedFollowsHistory
<1>7. ResultIsFinal'
  BY <1>1 DEF LoopInv, ResultIsFinal
<1>8. QED
  BY <1>3, <1>4, <1>5, <1>6, <1>7 DEF LoopInv

\* The image returned is made of images of the history.
LEMMA ResultIsImage ==
  ASSUME LoopInv, pc \in {"save", "done"}
  PROVE  [id |-> id, parent |-> base_id, layers |-> applied] \in Results
<1>1. history \in Seq(Ids) /\ applied \in Seq(Ids) /\ id \in Ids
  BY DEF LoopInv, TypeOK, GraphTypeOK, IdIsLoaded
<1>2. FoundAt + 1 \in 1 .. Len(history) /\ base_id = history[FoundAt + 1]
  BY <1>1 DEF LoopInv, AppliedFollowsHistory
<1>3. base_id \in Ids
  BY <1>1, <1>2
<1>4. QED
  BY <1>1, <1>3 DEF Results

LEMMA FinishingKeepsLoopInv ==
  ASSUME LoopInv, ApplyError \/ EndOfLayers \/ SaveLayer \/ UNCHANGED vars
  PROVE  LoopInv'
<1>1. /\ UNCHANGED <<graphVars, parent, image, base, unread, id, base_id, history, i, applied, reads>>
      /\ \/ pc = "apply" /\ pc' = "failed" /\ rimg' = rimg
         \/ pc = "apply" /\ pc' = "save" /\ ~MoreLayers /\ rimg' = rimg
         \/ pc = "save" /\ pc' = "failed" /\ rimg' = rimg
         \/ /\ pc = "save" /\ pc' = "done"
            /\ rimg' = [id |-> id, parent |-> base_id, layers |-> applied]
         \/ pc' = pc /\ rimg' = rimg
  BY DEF ApplyError, EndOfLayers, SaveLayer, Fail, vars, runVars
<1>2. pc = "save" => [id |-> id, parent |-> base_id, layers |-> applied] \in Results
  BY ResultIsImage
<1>3. TypeOK' /\ IdIsLoaded'
  BY <1>1, <1>2 DEF LoopInv, TypeOK, GraphTypeOK, IdIsLoaded, graphVars, Phases
<1>4. IndexInRange' /\ HistoryIsChain' /\ HistoryIsWhole'
  BY <1>1 DEF LoopInv, IndexInRange, HistoryIsChain, HistoryIsWhole, MoreLayers
<1>5. AppliedFollowsHistory'
  BY <1>1 DEF LoopInv, AppliedFollowsHistory, FoundAt
<1>6. ResultIsFinal'
  BY <1>1 DEF LoopInv, ResultIsFinal, MoreLayers
<1>7. QED
  BY <1>3, <1>4, <1>5, <1>6 DEF LoopInv

\* What other runs do in the directory is nothing to the loops.
LEMMA AnotherRunKeepsLoopInv ==
  ASSUME LoopInv, AnotherRun
  PROVE  LoopInv'
<1>1. images' = images /\ UNCHANGED runVars
  BY DEF AnotherRun, AnotherCreates, AnotherCloses
<1>2. GraphTypeOK'
  <2>1. PICK x \in Ids : AnotherCreates(x) \/ AnotherCloses(x)
    BY DEF AnotherRun
  <2>2. tarballs' \in [Ids -> TarballStates]
    BY <2>1 DEF LoopInv, TypeOK, GraphTypeOK, TarballStates, AnotherCreates, AnotherCloses
  <2>3. QED
    BY <2>1, <2>2 DEF LoopInv, TypeOK, GraphTypeOK, AnotherCreates, AnotherCloses
<1>3. TypeOK' /\ IdIsLoaded'
  BY <1>1, <1>2 DEF LoopInv, TypeOK, IdIsLoaded, runVars
<1>4. IndexInRange' /\ HistoryIsChain' /\ HistoryIsWhole'
  BY <1>1 DEF LoopInv, IndexInRange, MoreLayers, HistoryIsChain, HistoryIsWhole, runVars
<1>5. AppliedFollowsHistory' /\ ResultIsFinal'
  BY <1>1 DEF LoopInv, AppliedFollowsHistory, FoundAt, ResultIsFinal, MoreLayers, runVars
<1>6. QED
  BY <1>3, <1>4, <1>5 DEF LoopInv

LEMMA NextKeepsLoopInv == LoopInv /\ [Next]_vars => LoopInv'
BY LoadingKeepsLoopInv, ExpandingKeepsLoopInv, WalkKeepsLoopInv, EndOfHistoryKeepsLoopInv,
   SkipKeepsLoopInv, FoundKeepsLoopInv, ApplyKeepsLoopInv, FinishingKeepsLoopInv,
   AnotherRunKeepsLoopInv DEF Next, RunNext

-----------------------------------------------------------------------------
(* The names and the layers, step by step. *)

\* Images are loaded before the first name is expanded; the names are expanded
\* one after the other.
LEMMA NextKeepsNames ==
  ASSUME LoopInv, NamesExpanded, [Next]_vars
  PROVE  NamesExpanded'
<1>1. CASE \E kind \in {"json", "layer.tar"}, x \in Ids : ReadEntry(kind, x)
  BY <1>1 DEF NamesExpanded, ReadEntry, Fail
<1>2. CASE EndOfCopy \/ EndOfStream \/ LoadError
  BY <1>2 DEF NamesExpanded, EndOfCopy, FinishLayer, EndOfStream, LoadError, Fail, runVars
<1>3. CASE ExpandImage
  <2>1. id' \in Expansions(image) \/ pc' = "failed"
    BY <1>3 DEF ExpandImage, Fail
  <2>2. \A x \in Expansions(image) :
          x \in images /\ x \in Denotes[image] /\ (image \in images => x = image)
    BY NamesAssumption DEF Expansions, LoopInv, TypeOK, GraphTypeOK
  <2>3. QED
    BY <1>3, <2>1, <2>2 DEF NamesExpanded, ExpandImage, Fail, graphVars
<1>4. CASE ExpandBase
  <2>1. base_id' \in Expansions(base) \/ pc' = "failed"
    BY <1>4 DEF ExpandBase, Fail
  <2>2. \A x \in Expansions(base) :
          x \in images /\ x \in Denotes[base] /\ (base \in images => x = base)
    BY NamesAssumption DEF Expansions, LoopInv, TypeOK, GraphTypeOK
  <2>3. QED
    BY <1>4, <2>1, <2>2 DEF NamesExpanded, ExpandBase, Fail, graphVars
<1>5. CASE WalkHistory \/ EndOfHistory \/ SkipBelowBase \/ BaseFound
  BY <1>5 DEF NamesExpanded, WalkHistory, EndOfHistory, SkipBelowBase, BaseFound, Fail, graphVars
<1>6. CASE ApplyLayer \/ ApplyError \/ EndOfLayers \/ SaveLayer
  BY <1>6 DEF NamesExpanded, ApplyLayer, ApplyError, EndOfLayers, SaveLayer, Fail, graphVars
<1>7. CASE AnotherRun
  BY <1>7 DEF NamesExpanded, AnotherRun, AnotherCreates, AnotherCloses, runVars
<1>8. CASE UNCHANGED vars
  BY <1>8 DEF NamesExpanded, vars, runVars, graphVars
<1>9. QED
  BY <1>1, <1>2, <1>3, <1>4, <1>5, <1>6, <1>7, <1>8 DEF Next, RunNext

\* What has an explanation keeps it while other runs go on, and while this one
\* goes on once it has read the archive.
LEMMA StaysExplained ==
  ASSUME NEW x \in Ids, ForeignIsExplained(x),
         unread' = unread, disturbed \subseteq disturbed'
  PROVE  ForeignIsExplained(x)'
BY DEF ForeignIsExplained

\* What is read of a layer is what is at its name then.
LEMMA NextKeepsLayers ==
  ASSUME LoopInv, LayersKnown, [Next]_vars
  PROVE  LayersKnown'
<1> DEFINE Known ==
             \A z \in Ids : /\ tarballs[z] = "part" => z \in writing
                            /\ tarballs[z] = "foreign" => ForeignIsExplained(z)
           ReadsKnown ==
             /\ Len(reads) = Len(applied)
             /\ \A k \in 1 .. Len(applied) :
                  reads[k] = "whole" \/ ForeignIsExplained(applied[k])
<1>1. /\ tarballs \in [Ids -> TarballStates] /\ copying \subseteq Shared /\ writing \subseteq Ids
      /\ applied \in Seq(Ids) /\ reads \in Seq(TarballStates)
      /\ ReadsKnown /\ (pc # "failed" => Known)
      /\ pc \notin {"load", "failed"} => writing = {}
      /\ \A x, y \in writing : x = y
      /\ pc = "load" => applied = <<>>
  BY DEF LoopInv, TypeOK, GraphTypeOK, LayersKnown, ResultIsFinal
<1>2. CASE /\ pc = "load" /\ UNCHANGED <<applied, reads>>
           /\ \A x, y \in writing' : x = y
           /\ (pc' = "failed" \/ (Known' /\ (pc' # "load" => writing' = {})))
  <2>1. applied' = <<>> /\ ReadsKnown'
    BY <1>1, <1>2
  <2>2. \A x, y \in writing' : x = y
    BY <1>2
  <2>3. /\ pc' # "failed" => Known'
        /\ pc' \notin {"load", "failed"} => writing' = {}
    BY <1>2
  <2>4. QED
    BY <2>1, <2>2, <2>3 DEF LayersKnown, ForeignIsExplained
\* A file that was not this archive's is truncated, and all its writers are new.
<1>3. CASE \E x \in Ids : ReadEntry("json", x) \/ ReadEntry("layer.tar", x)
  <2>1. PICK x \in Ids : ReadEntry("json", x) \/ ReadEntry("layer.tar", x)
    BY <1>3
  <2>2. /\ pc = "load" /\ pc' = "load" /\ writing = {} /\ Known
        /\ UNCHANGED <<applied, reads>>
    BY <1>1, <2>1 DEF ReadEntry
  <2>3. CASE ReadEntry("json", x)
    <3>1. UNCHANGED <<tarballs, writing, disturbed>> /\ unread' = unread \ {<<"json", x>>}
      BY <2>3 DEF ReadEntry, LoadJson
    <3>2. Known'
      BY <2>2, <3>1 DEF ForeignIsExplained
    <3>3. QED
      BY <1>1, <1>2, <2>2, <3>1, <3>2
  <2>4. CASE ReadEntry("layer.tar", x)
    <3>1. /\ unread' = unread \ {<<"layer.tar", x>>} /\ writing' = {x}
          /\ tarballs' = [tarballs EXCEPT ![x] = IF x \in copying THEN "foreign" ELSE "part"]
          /\ disturbed' = IF x \in copying THEN disturbed \cup {x} ELSE disturbed \ {x}
      BY <2>4 DEF ReadEntry, CreateLayer
    <3>2. ASSUME NEW y \in Ids \ {x}
          PROVE  /\ tarballs'[y] # "part"
                 /\ tarballs'[y] = "foreign" => ForeignIsExplained(y)'
      <4>1. tarballs'[y] = tarballs[y]
        BY <1>1, <3>1
      <4>2. ForeignIsExplained(y) => ForeignIsExplained(y)'
        BY <3>1 DEF ForeignIsExplained
      <4>3. QED
        BY <2>2, <4>1, <4>2 DEF ForeignIsExplained
    <3>3. tarballs'[x] = "foreign" => ForeignIsExplained(x)'
      BY <1>1, <3>1 DEF ForeignIsExplained
    <3>4. Known'
      BY <3>1, <3>2, <3>3
    <3>5. QED
      BY <1>2, <2>2, <3>1, <3>4
  <2>5. QED
    BY <2>1, <2>3, <2>4
<1>4. CASE EndOfCopy
  <2>1. PICK x \in writing : FinishLayer(x)
    BY <1>4 DEF EndOfCopy
  <2>2. /\ pc = "load" /\ pc' = pc /\ UNCHANGED <<applied, reads, unread, disturbed>>
        /\ writing' = {} /\ Known
        /\ tarballs' = [tarballs EXCEPT ![x] = IF @ = "part" THEN "whole" ELSE @]
    BY <1>1, <1>4, <2>1 DEF EndOfCopy, FinishLayer, runVars
  \* The one that it was writing was the only part.
  <2>3. writing \subseteq {x}
    BY <1>1, <2>1
  <2>4. Known'
    BY <1>1, <2>1, <2>2, <2>3 DEF ForeignIsExplained
  <2>5. QED
    BY <1>2, <2>2, <2>4
<1>5. CASE EndOfStream
  <2>1. Known' /\ writing' = {} /\ pc = "load" /\ UNCHANGED <<applied, reads>>
    BY <1>1, <1>5 DEF EndOfStream, graphVars, ForeignIsExplained
  <2>2. QED
    BY <1>2, <2>1
<1>6. CASE LoadError
  <2>1. writing' = {} /\ pc = "load" /\ pc' = "failed" /\ UNCHANGED <<applied, reads>>
    BY <1>6 DEF LoadError, LeaveLayer, Fail
  <2>2. QED
    BY <1>2, <2>1
<1>7. CASE ApplyLayer
  <2> DEFINE x == history[i + 1]
  <2>1. /\ pc = "apply" /\ pc' = pc /\ i > 0 /\ x \in Ids /\ writing = {} /\ Known
        /\ UNCHANGED <<tarballs, writing, unread, disturbed>>
        /\ tarballs[x] # "missing"
        /\ applied' = Append(applied, x)
        /\ reads' = Append(reads, tarballs[x])
    BY <1>1, <1>7 DEF ApplyLayer, LoopInv, TypeOK, IndexInRange, MoreLayers, graphVars
  <2>2. tarballs[x] = "whole" \/ ForeignIsExplained(x)
    BY <1>1, <2>1 DEF TarballStates, ForeignIsExplained
  <2> HIDE DEF x
  <2>3. /\ Len(applied') = Len(applied) + 1 /\ Len(reads') = Len(reads) + 1
        /\ \A k \in 1 .. Len(applied) : applied'[k] = applied[k]
        /\ \A k \in 1 .. Len(reads) : reads'[k] = reads[k]
        /\ applied'[Len(applied) + 1] = x
        /\ reads'[Len(reads) + 1] = tarballs[x]
    BY <1>1, <2>1
  <2>4. \A k \in 1 .. Len(applied') : k \in 1 .. Len(applied) \/ k = Len(applied) + 1
    BY <1>1, <2>3
  <2>5. \A k \in 1 .. Len(applied') : reads'[k] = "whole" \/ ForeignIsExplained(applied'[k])
    BY <1>1, <2>2, <2>3, <2>4
  <2>6. QED
    BY <1>1, <2>1, <2>3, <2>5 DEF LayersKnown, ForeignIsExplained
<1>8. CASE AnotherRun
  <2>1. /\ UNCHANGED <<pc, unread, applied, reads, writing>>
        /\ disturbed \subseteq disturbed'
        /\ \/ tarballs' = tarballs
           \/ \E x \in Shared : /\ tarballs' = [tarballs EXCEPT ![x] = "foreign"]
                                /\ x \in disturbed'
    BY <1>8 DEF AnotherRun, AnotherCreates, AnotherCloses, runVars
  <2>2. \A x \in Ids : ForeignIsExplained(x) => ForeignIsExplained(x)'
    BY <2>1, StaysExplained
  <2>3. Known => Known'
    BY <1>1, <2>1, <2>2 DEF ForeignIsExplained
  <2>4. ReadsKnown'
    BY <1>1, <2>1, <2>2
  <2>5. QED
    BY <1>1, <2>1, <2>3, <2>4 DEF LayersKnown
<1>9. ASSUME UNCHANGED <<graphVars, unread, applied, reads>>,
             pc \notin {"load", "failed"} \/ pc' = pc
      PROVE  LayersKnown'
  <2>1. Known => Known'
    BY <1>9 DEF graphVars, ForeignIsExplained
  <2>2. ReadsKnown'
    BY <1>1, <1>9 DEF graphVars, ForeignIsExplained
  <2>3. /\ pc' \notin {"load", "failed"} => writing' = {}
        /\ \A x, y \in writing' : x = y
    BY <1>1, <1>9 DEF graphVars
  <2>4. QED
    BY <1>1, <1>9, <2>1, <2>2, <2>3 DEF LayersKnown
<1>10. CASE ExpandImage \/ ExpandBase \/ WalkHistory \/ EndOfHistory
  BY <1>9, <1>10 DEF ExpandImage, ExpandBase, WalkHistory, EndOfHistory, Fail
<1>11. CASE SkipBelowBase \/ BaseFound \/ ApplyError \/ EndOfLayers \/ SaveLayer
  BY <1>9, <1>11 DEF SkipBelowBase, BaseFound, ApplyError, EndOfLayers, SaveLayer, Fail
<1>12. CASE UNCHANGED vars
  BY <1>9, <1>12 DEF vars, runVars
<1>13. QED
  BY <1>3, <1>4, <1>5, <1>6, <1>7, <1>8, <1>10, <1>11, <1>12 DEF Next, RunNext

\* The walk starts at an image that is loaded and goes on only to such.
LEMMA NextKeepsHistoryLoaded ==
  ASSUME LoopInv, HistoryIsLoaded, [Next]_vars
  PROVE  HistoryIsLoaded'
<1>1. CASE \E kind \in {"json", "layer.tar"}, x \in Ids : ReadEntry(kind, x)
  <2>1. history' = history /\ (images' = images \/ \E x \in Ids : images' = images \cup {x})
    BY <1>1 DEF ReadEntry, LoadJson, CreateLayer
  <2>2. IsFiniteSet(images') /\ images \subseteq images'
    BY <2>1, FS_AddElement DEF HistoryIsLoaded
  <2>3. QED
    BY <2>1, <2>2 DEF HistoryIsLoaded
<1>2. CASE ExpandBase
  <2>1. /\ images' = images
        /\ history' = history \/ (history' = <<id>> /\ id \in images)
    BY <1>2 DEF ExpandBase, graphVars, LoopInv, IdIsLoaded
  <2>2. history' = <<id>> => Len(history') = 1 /\ history'[1] = id
    OBVIOUS
  <2>3. QED
    BY <2>1, <2>2 DEF HistoryIsLoaded
<1>3. CASE WalkHistory
  <2>1. /\ images' = images /\ history \in Seq(Ids)
        /\ Oldest \in images /\ history' = Append(history, Oldest)
    BY <1>3 DEF WalkHistory, graphVars, LoopInv, TypeOK
  <2>2. /\ Len(history') = Len(history) + 1
        /\ history'[Len(history) + 1] = Oldest
        /\ \A k \in 1 .. Len(history) : history'[k] = history[k]
    BY <2>1
  <2>3. \A k \in 1 .. Len(history') : k \in 1 .. Len(history) \/ k = Len(history) + 1
    BY <2>1, <2>2
  <2>4. QED
    BY <2>1, <2>2, <2>3 DEF HistoryIsLoaded
<1>4. ASSUME UNCHANGED <<images, history>>
      PROVE  HistoryIsLoaded'
  BY <1>4 DEF HistoryIsLoaded
<1>5. CASE EndOfCopy \/ EndOfStream \/ LoadError \/ ExpandImage \/ EndOfHistory \/ SkipBelowBase
           \/ BaseFound
  BY <1>4, <1>5 DEF EndOfCopy, FinishLayer, runVars, EndOfStream, LoadError, LeaveLayer, ExpandImage, EndOfHistory, SkipBelowBase, BaseFound,
                    graphVars
<1>6. CASE ApplyLayer \/ ApplyError \/ EndOfLayers \/ SaveLayer
  BY <1>4, <1>6 DEF ApplyLayer, ApplyError, EndOfLayers, SaveLayer, graphVars
<1>7. CASE AnotherRun \/ UNCHANGED vars
  BY <1>4, <1>7 DEF AnotherRun, AnotherCreates, AnotherCloses, vars, runVars, graphVars
<1>8. QED
  BY <1>1, <1>2, <1>3, <1>5, <1>6, <1>7 DEF Next, RunNext

\* Before the first entry there are at most the files of other runs.
LEMMA InitIInv == Init => IInv
<1>1. Init => NamesExpanded
  BY DEF Init, NamesExpanded
<1>2. Init => LayersKnown
  BY DEF Init, NewGraph, LayersKnown, ForeignIsExplained, Archive
<1>3. Init => HistoryIsLoaded
  BY FS_EmptySet DEF Init, NewGraph, HistoryIsLoaded
<1>4. QED
  BY <1>1, <1>2, <1>3, InitLoopInv DEF IInv

\* Every reachable state of a run satisfies the inductive invariant.
THEOREM RebaseInvariant == Spec => []IInv
<1>1. IInv /\ [Next]_vars => IInv'
  BY NextKeepsLoopInv, NextKeepsNames, NextKeepsLayers, NextKeepsHistoryLoaded DEF IInv
<1>2. QED
  BY <1>1, InitIInv, PTL DEF Spec

-----------------------------------------------------------------------------
(* What follows about the result. *)

\* Layers are applied from just above the base, each on top of its parent's.
LEMMA LoopIsInOrder == LoopInv => AppliedIsStretch
<1> SUFFICES ASSUME LoopInv, pc \in {"apply", "save", "done"}, NEW k \in 1 .. Len(applied)
             PROVE  parent[applied[k]] = IF k = 1 THEN base_id ELSE applied[k - 1]
  BY DEF AppliedIsStretch
<1>1. /\ history \in Seq(Ids) /\ applied \in Seq(Ids) /\ i \in Int /\ i >= -1
      /\ FoundAt \in 0 .. Len(history) - 1 /\ FoundAt = i + 1 + Len(applied)
      /\ history[FoundAt + 1] = base_id
      /\ \A j \in 1 .. Len(applied) : applied[j] = history[FoundAt + 1 - j]
      /\ i = -1 => applied = <<>>
  BY DEF LoopInv, TypeOK, AppliedFollowsHistory, FoundAt
<1>2. i # -1
  BY <1>1
<1>3. FoundAt + 1 - k \in 1 .. Len(history) - 1
  BY <1>1, <1>2
<1>4. parent[applied[k]] = history[FoundAt + 1 - k + 1]
  BY <1>1, <1>3 DEF LoopInv, HistoryIsChain
<1>5. CASE k = 1
  <2>1. FoundAt + 1 - k + 1 = FoundAt + 1
    BY <1>1, <1>5
  <2>2. QED
    BY <1>1, <1>4, <1>5, <2>1
<1>6. CASE k # 1
  <2>1. FoundAt + 1 - k + 1 = FoundAt + 1 - (k - 1) /\ k - 1 \in 1 .. Len(applied)
    BY <1>1, <1>6
  <2>2. applied[k - 1] = history[FoundAt + 1 - (k - 1)]
    BY <1>1, <2>1
  <2>3. QED
    BY <1>4, <1>6, <2>1, <2>2
<1>7. QED
  BY <1>5, <1>6

\* No layer between the base and the image is left out of the result.
LEMMA LoopLeavesNoGap == LoopInv => NoneLeftOut
<1> SUFFICES ASSUME LoopInv, rimg # NoImage, rimg.id # rimg.parent
             PROVE  LET path == <<rimg.parent>> \o rimg.layers
                    IN  parent[rimg.id] = path[Len(path)]
  BY DEF NoneLeftOut
<1>1. /\ pc = "done" /\ rimg.id = id /\ rimg.parent = base_id /\ rimg.layers = applied
      /\ ~(i > 0)
  BY DEF LoopInv, ResultIsFinal, MoreLayers
<1>2. /\ history \in Seq(Ids) /\ applied \in Seq(Ids) /\ i \in Int /\ i >= -1
      /\ FoundAt \in 0 .. Len(history) - 1 /\ FoundAt = i + 1 + Len(applied)
      /\ history[FoundAt + 1] = base_id
      /\ \A j \in 1 .. Len(applied) : applied[j] = history[FoundAt + 1 - j]
      /\ i = -1 => applied = <<>>
      /\ history[1] = id
  BY <1>1 DEF LoopInv, TypeOK, AppliedFollowsHistory, FoundAt, HistoryIsChain
\* i = -1 would mean that the base was found at the image itself.
<1>3. i = 0
  <2>1. CASE i = -1
    <3>1. FoundAt = 0
      BY <1>2, <2>1
    <3>2. QED
      BY <1>1, <1>2, <3>1
  <2>2. QED
    BY <1>1, <1>2, <2>1
<1>4. parent[id] = history[2]
  <2>1. 1 \in 1 .. Len(history) - 1
    BY <1>2, <1>3
  <2>2. parent[history[1]] = history[1 + 1]
    BY <2>1 DEF LoopInv, HistoryIsChain
  <2>3. QED
    BY <1>2, <2>2
<1> DEFINE path == <<base_id>> \o applied
<1>5. path[Len(path)] = history[2]
  <2>1. Len(path) = Len(applied) + 1
    BY <1>2
  <2>2. CASE Len(applied) = 0
    <3>1. path[1] = base_id
      BY <1>2
    <3>2. FoundAt = 1
      BY <1>2, <1>3, <2>2
    <3>3. QED
      BY <1>2, <2>1, <2>2, <3>1, <3>2
  <2>3. CASE Len(applied) # 0
    <3>1. Len(applied) \in 1 .. Len(applied)
      BY <1>2, <2>3
    <3>2. path[Len(applied) + 1] = applied[Len(applied)]
      BY <1>2, <3>1
    <3>3. FoundAt + 1 - Len(applied) = 2
      BY <1>2, <1>3
    <3>4. applied[Len(applied)] = history[FoundAt + 1 - Len(applied)]
      BY <1>2, <3>1
    <3>5. QED
      BY <2>1, <3>2, <3>3, <3>4
  <2>4. QED
    BY <2>2, <2>3
<1>6. QED
  BY <1>1, <1>4, <1>5

\* An image that comes twice in a walk goes on in the same way both times, so a
\* walk that ends has no image twice.
LEMMA NoRepetition ==
  ASSUME LoopInv, pc \in {"seek", "apply", "save", "done"},
         NEW m \in 1 .. Len(history), NEW n \in 1 .. Len(history), history[m] = history[n]
  PROVE  m = n
<1> DEFINE Left == {d \in Nat : \E k, j \in 1 .. Len(history) :
                                  k < j /\ history[k] = history[j] /\ d = Len(history) - j}
<1>1. /\ history \in Seq(Ids) /\ NoParent \notin Ids /\ Len(history) \in Nat
      /\ \A k \in 1 .. Len(history) - 1 : parent[history[k]] = history[k + 1]
      /\ parent[history[Len(history)]] = NoParent
  BY RebaseAssumption DEF LoopInv, TypeOK, HistoryIsChain, HistoryIsWhole
<1>2. ASSUME Left # {}
      PROVE  FALSE
  <2>1. Left \subseteq Nat
    OBVIOUS
  <2>2. PICK d \in Left : \A e \in Left : d <= e
    <3> HIDE DEF Left
    <3>1. QED
      BY <1>2, <2>1, LeastOf
  <2>3. PICK k \in 1 .. Len(history), j \in 1 .. Len(history) :
          k < j /\ history[k] = history[j] /\ d = Len(history) - j
    OBVIOUS
  <2>4. k \in 1 .. Len(history) - 1 /\ k + 1 \in 1 .. Len(history)
    BY <1>1, <2>3
  <2>5. parent[history[k]] = history[k + 1] /\ history[k + 1] \in Ids
    BY <1>1, <2>4
  <2>6. j # Len(history)
    BY <1>1, <2>3, <2>5
  <2>7. j \in 1 .. Len(history) - 1 /\ j + 1 \in 1 .. Len(history)
    BY <1>1, <2>3, <2>6
  <2>8. history[k + 1] = history[j + 1]
    BY <1>1, <2>3, <2>5, <2>7
  <2>9. k + 1 < j + 1 /\ d - 1 = Len(history) - (j + 1) /\ d - 1 \in Nat
    BY <1>1, <2>3, <2>7
  <2>10. d - 1 \in Left
    BY <2>4, <2>7, <2>8, <2>9
  <2>11. d <= d - 1
    <3> HIDE DEF Left
    <3>1. QED
      BY <2>2, <2>10
  <2>12. QED
    BY <2>9, <2>11
<1>3. \A k, j \in 1 .. Len(history) : k < j => history[k] # history[j]
  <2>1. \A k, j \in 1 .. Len(history) : Len(history) - j \in Nat
    BY <1>1
  <2>2. QED
    BY <1>2, <2>1
<1>4. QED
  BY <1>1, <1>3

\* The images from the base down close under parents, and the layers come from
\* those above.
LEMMA LoopSkipsBase ==
  ASSUME LoopInv, pc \in {"apply", "save", "done"}
  PROVE  BaseNotRepeated
<1> SUFFICES ASSUME NEW k \in 1 .. Len(applied), applied[k] \in Lineage(base_id)
             PROVE  FALSE
  BY DEF BaseNotRepeated
<1> DEFINE below == {history[j] : j \in FoundAt + 1 .. Len(history)}
<1>1. /\ history \in Seq(Ids) /\ Len(history) \in Nat /\ applied \in Seq(Ids) /\ i \in Int
      /\ FoundAt \in 0 .. Len(history) - 1 /\ FoundAt = i + 1 + Len(applied) /\ i >= -1
      /\ history[FoundAt + 1] = base_id
      /\ \A j \in 1 .. Len(applied) : applied[j] = history[FoundAt + 1 - j]
      /\ i = -1 => applied = <<>>
  BY DEF LoopInv, TypeOK, AppliedFollowsHistory, FoundAt
<1>2. below \subseteq Ids /\ base_id \in below
  BY <1>1
<1>3. ASSUME NEW z \in below, parent[z] \in Ids
      PROVE  parent[z] \in below
  <2>1. PICK j \in FoundAt + 1 .. Len(history) : z = history[j]
    OBVIOUS
  <2>2. j # Len(history)
    BY <1>3, <2>1, RebaseAssumption DEF LoopInv, HistoryIsWhole
  <2>3. j \in 1 .. Len(history) - 1 /\ j + 1 \in FoundAt + 1 .. Len(history)
    BY <1>1, <2>1, <2>2
  <2>4. parent[z] = history[j + 1]
    BY <2>1, <2>3 DEF LoopInv, HistoryIsChain
  <2>5. QED
    BY <2>3, <2>4
<1>4. applied[k] \in below
  BY <1>2, <1>3 DEF Lineage
<1>5. PICK j \in FoundAt + 1 .. Len(history) : applied[k] = history[j]
  BY <1>4
<1>6. /\ FoundAt + 1 - k \in 1 .. Len(history) /\ j \in 1 .. Len(history)
      /\ FoundAt + 1 - k # j
      /\ history[FoundAt + 1 - k] = history[j]
  BY <1>1, <1>5
<1>7. QED
  BY <1>6, NoRepetition

\* Neither loop of Rebase indexes outside the history, so it never panics there.
THEOREM NeverOutOfRange == Spec => []IndexInRange
<1>1. IInv => IndexInRange
  BY DEF IInv, LoopInv
<1>2. QED
  BY <1>1, RebaseInvariant, PTL

\* The graph, its files and the run's variables keep their types.
THEOREM RebaseTypes == Spec => []TypeOK
<1>1. IInv => TypeOK
  BY DEF IInv, LoopInv
<1>2. QED
  BY <1>1, RebaseInvariant, PTL

\* Layers are applied from just above the base, each on top of its parent's.
THEOREM InOrder == Spec => []AppliedIsStretch
<1>1. IInv => AppliedIsStretch
  BY LoopIsInOrder DEF IInv
<1>2. QED
  BY <1>1, RebaseInvariant, PTL

\* No layer between the base and the image is left out of the result.
THEOREM NoGap == Spec => []NoneLeftOut
<1>1. IInv => NoneLeftOut
  BY LoopLeavesNoGap DEF IInv
<1>2. QED
  BY <1>1, RebaseInvariant, PTL

\* The names mean what they say, whatever the archive held.
THEOREM NamesMean == Spec => []NameMeansItsImage
<1>1. IInv => NameMeansItsImage
  BY DEF IInv, LoopInv, ResultIsFinal, NamesExpanded, NameMeansItsImage
<1>2. QED
  BY <1>1, RebaseInvariant, PTL

\* What the base has already is not applied to it again, also where a run fails.
THEOREM BaseIsSkipped == Spec => []BaseNotRepeated
<1>1. Init => BaseNotRepeated
  BY DEF Init, BaseNotRepeated
<1>2. IInv' /\ BaseNotRepeated /\ [Next]_vars => BaseNotRepeated'
  <2> SUFFICES ASSUME IInv', BaseNotRepeated, [Next]_vars
               PROVE  BaseNotRepeated'
    OBVIOUS
  <2>1. CASE pc' \in {"apply", "save", "done"}
    <3>1. (LoopInv /\ pc \in {"apply", "save", "done"} => BaseNotRepeated)'
      BY LoopSkipsBase, PTL
    <3>2. QED
      BY <2>1, <3>1 DEF IInv
  <2>2. CASE pc' \in {"load", "expand", "expandBase", "history", "seek"}
    BY <2>2 DEF IInv, LoopInv, ResultIsFinal, BaseNotRepeated
  <2>3. CASE pc' = "failed"
    <3>1. UNCHANGED <<parent, base_id, applied>>
      BY <2>3 DEF Next, RunNext, ReadEntry, EndOfCopy, EndOfStream, LoadError, ExpandImage, ExpandBase,
                  WalkHistory, EndOfHistory, SkipBelowBase, BaseFound, ApplyLayer, ApplyError,
                  EndOfLayers, SaveLayer, AnotherRun, vars, runVars
    <3>2. QED
      BY <3>1 DEF BaseNotRepeated, Lineage
  <2>4. QED
    BY <2>1, <2>2, <2>3 DEF IInv, LoopInv, TypeOK, Phases
<1>3. QED
  BY <1>1, <1>2, RebaseInvariant, PTL DEF Spec

\* What the image is made of is what its archive brought, but where the archive
\* had no layer for an ID that other runs use too, or one of them had the tarball
\* open for writing when this run created it, or later.
THEOREM LayersAreKnown == Spec => []LayersFromArchive
<1>1. IInv => LayersFromArchive
  BY DEF IInv, LoopInv, ResultIsFinal, LayersKnown, ForeignIsExplained, LayersFromArchive
<1>2. QED
  BY <1>1, RebaseInvariant, PTL

-----------------------------------------------------------------------------
(* A run does what Rebase promises. *)

\* The result is of the promised form: its layers lead from the base to the
\* image, and an image that is its own base has none.
LEMMA ResultIsStretch ==
  ASSUME LoopInv, pc = "done"
  PROVE  Promise!IsStretch(base_id, applied, id)
<1> DEFINE path == <<base_id>> \o applied
<1>1. /\ applied \in Seq(Ids) /\ Len(applied) \in Nat
      /\ rimg # NoImage /\ rimg.id = id /\ rimg.parent = base_id /\ rimg.layers = applied
  BY ResultIsImage, RebaseAssumption DEF LoopInv, TypeOK, ResultIsFinal
<1>2. /\ Len(path) = Len(applied) + 1 /\ path[1] = base_id
      /\ \A k \in 1 .. Len(applied) : path[k + 1] = applied[k]
  BY <1>1
<1>3. ASSUME NEW k \in 1 .. Len(applied)
      PROVE  parent[path[k + 1]] = path[k]
  <2>1. parent[applied[k]] = IF k = 1 THEN base_id ELSE applied[k - 1]
    BY LoopIsInOrder DEF AppliedIsStretch
  <2>2. k # 1 => k - 1 \in 1 .. Len(applied) /\ (k - 1) + 1 = k
    BY <1>1
  <2>3. k # 1 => path[k] = applied[k - 1]
    BY <1>2, <2>2
  <2>4. path[k + 1] = applied[k]
    BY <1>2
  <2>5. QED
    BY <1>2, <2>1, <2>3, <2>4
<1>4. id # base_id => parent[id] = path[Len(path)]
  BY <1>1, LoopLeavesNoGap DEF NoneLeftOut
<1>5. id = base_id => applied = <<>>
  <2> SUFFICES ASSUME id = base_id PROVE applied = <<>>
    OBVIOUS
  <2>1. /\ history[1] = id /\ Len(history) \in Nat /\ Len(history) > 0 /\ i \in Int /\ i >= -1
        /\ FoundAt \in 0 .. Len(history) - 1 /\ FoundAt = i + 1 + Len(applied)
        /\ history[FoundAt + 1] = base_id
    BY DEF LoopInv, TypeOK, HistoryIsChain, AppliedFollowsHistory, FoundAt
  <2>2. 1 \in 1 .. Len(history) /\ FoundAt + 1 \in 1 .. Len(history)
    BY <2>1
  <2>3. FoundAt + 1 = 1
    BY <2>1, <2>2, NoRepetition
  <2>4. Len(applied) = 0
    BY <1>1, <2>1, <2>3
  <2>5. QED
    BY <1>1, <2>4
<1>6. QED
  BY <1>3, <1>4, <1>5 DEF Promise!IsStretch

LEMMA InitKeepsPromise == Init => Promise!Init
BY DEF Init, NewGraph, Promise!Init

\* Each step of a run is one of the promise, or none that it sees.
LEMMA NextKeepsPromise ==
  ASSUME LoopInv, LoopInv', NamesExpanded', [Next]_vars
  PROVE  [Promise!Next]_(Promise!vars)
<1> DEFINE Unseen == UNCHANGED <<parent, image, base, images, rimg>>
<1>1. pc \notin {"done", "failed"} => Promise!Open
  BY DEF LoopInv, ResultIsFinal, Promise!Open
<1>2. ASSUME Unseen, (pc' = "failed") = (pc = "failed")
      PROVE  UNCHANGED Promise!vars
  BY <1>2 DEF Promise!vars
<1>3. ASSUME Unseen, pc \notin {"done", "failed"}, pc' = "failed"
      PROVE  Promise!Refuse
  BY <1>1, <1>3 DEF Promise!Refuse
<1>4. CASE \E kind \in {"json", "layer.tar"}, x \in Ids : ReadEntry(kind, x)
  <2>1. PICK kind \in {"json", "layer.tar"}, x \in Ids : ReadEntry(kind, x)
    BY <1>4
  <2>2. CASE pc' = "failed"
    BY <1>3, <2>1, <2>2 DEF ReadEntry, LoadJson, CreateLayer, Promise!Next
  <2>3. CASE pc' # "failed" /\ kind = "json"
    <3>1. /\ pc = "load" /\ images' = images \cup {x} /\ pc' = pc
          /\ UNCHANGED <<parent, image, base, rimg>>
      BY <2>1, <2>3 DEF ReadEntry, LoadJson, Fail
    <3>2. Promise!Learn
      BY <1>1, <3>1 DEF Promise!Learn
    <3>3. QED
      BY <3>2 DEF Promise!Next
  <2>4. CASE pc' # "failed" /\ kind = "layer.tar"
    BY <1>2, <2>1, <2>4 DEF ReadEntry, CreateLayer
  <2>5. QED
    BY <2>2, <2>3, <2>4
<1>5. CASE SaveLayer /\ pc' = "done"
  <2>1. /\ pc = "save" /\ UNCHANGED <<parent, image, base, images, id, base_id, applied>>
        /\ rimg' = [id |-> id, parent |-> base_id, layers |-> applied]
    BY <1>5 DEF SaveLayer, Fail, graphVars
  <2>2. Promise!IsStretch(base_id, applied, id)
    <3>1. (LoopInv /\ pc = "done" => Promise!IsStretch(base_id, applied, id))'
      BY ResultIsStretch, PTL
    <3>2. QED
      BY <1>5, <2>1, <3>1 DEF Promise!IsStretch
  <2>3. id \in Promise!Named(image) /\ base_id \in Promise!Named(base)
    BY <1>5, <2>1 DEF NamesExpanded, Promise!Named
  <2>4. rimg' # NoImage
    BY <2>1, ResultIsImage, RebaseAssumption
  <2>5. Promise!Return
    BY <1>1, <1>5, <2>1, <2>2, <2>3, <2>4 DEF Promise!Return
  <2>6. QED
    BY <2>5 DEF Promise!Next
<1>6. CASE EndOfCopy \/ EndOfStream \/ LoadError \/ ExpandImage \/ ExpandBase \/ WalkHistory
           \/ EndOfHistory
  <2>1. Unseen /\ pc \notin {"done", "failed"}
    BY <1>6 DEF EndOfCopy, FinishLayer, EndOfStream, LoadError, LeaveLayer, ExpandImage, ExpandBase,
                WalkHistory, EndOfHistory, graphVars, runVars
  <2>2. QED
    BY <1>2, <1>3, <2>1 DEF Promise!Next
<1>7. CASE SkipBelowBase \/ BaseFound \/ ApplyLayer \/ ApplyError \/ EndOfLayers
           \/ (SaveLayer /\ pc' # "done")
  <2>1. Unseen /\ pc \notin {"done", "failed"}
    BY <1>7 DEF SkipBelowBase, BaseFound, ApplyLayer, ApplyError, EndOfLayers, SaveLayer, Fail,
                graphVars
  <2>2. QED
    BY <1>2, <1>3, <2>1 DEF Promise!Next
<1>8. CASE AnotherRun \/ UNCHANGED vars
  BY <1>2, <1>8 DEF AnotherRun, AnotherCreates, AnotherCloses, vars, runVars, graphVars
<1>9. QED
  BY <1>4, <1>5, <1>6, <1>7, <1>8 DEF Next, RunNext

\* Graph.Rebase, loops, map order and other runs included, implements its
\* promise: an error, or an image with exactly the layers between the two named.
THEOREM RebaseKeepsPromise == Spec => KeepsPromise
<1>1. IInv /\ IInv' /\ [Next]_vars => [Promise!Next]_(Promise!vars)
  BY NextKeepsPromise DEF IInv
<1>2. QED
  BY <1>1, InitKeepsPromise, RebaseInvariant, PTL DEF Spec, KeepsPromise, Promise!Spec
=============================================================================
