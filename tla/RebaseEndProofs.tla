-------------------------- MODULE RebaseEndProofs ---------------------------
(***************************************************************************)
(* Proofs that a run of Rebase has an end, for every finite set of images: *)
(* where no image is in the history of its own parent, the walk visits     *)
(* none twice, and every step of the run uses up one of a number of steps  *)
(* that is set when it starts.                                             *)
(***************************************************************************)
EXTENDS RebaseProofs

-----------------------------------------------------------------------------
(* The walk. *)

\* A chain of parents stays in the history of its second image, which the first
\* is not in; so it comes to no image twice.
LEMMA ChainHasNoRepetition ==
  ASSUME Acyclic, NEW h \in Seq(Ids),
         \A k \in 1 .. Len(h) - 1 : parent[h[k]] = h[k + 1],
         NEW m \in 1 .. Len(h), NEW n \in 1 .. Len(h), m < n
  PROVE  h[m] # h[n]
<1>1. Len(h) \in Nat /\ m + 1 \in 1 .. Len(h) /\ m \in 1 .. Len(h) - 1
  OBVIOUS
<1>2. h[m] \in Ids /\ h[n] \in Ids /\ parent[h[m]] = h[m + 1] /\ h[m + 1] \in Ids
  BY <1>1
<1>3. ASSUME NEW S \in SUBSET Ids, h[m + 1] \in S,
             \A z \in S : parent[z] \in Ids => parent[z] \in S
      PROVE  h[n] \in S
  <2> DEFINE Left == {k \in m + 1 .. Len(h) : h[k] \notin S}
  <2>1. Left \subseteq Nat
    BY <1>1
  <2>2. ASSUME Left # {}
        PROVE  FALSE
    <3>1. PICK k \in Left : \A j \in Left : k <= j
      <4> HIDE DEF Left
      <4>1. QED
        BY <2>1, <2>2, LeastOf
    <3>2. k \in m + 1 .. Len(h) /\ h[k] \notin S /\ k # m + 1
      BY <1>3
    <3>3. k - 1 \in m + 1 .. Len(h) /\ k - 1 \in 1 .. Len(h) - 1 /\ (k - 1) + 1 = k /\ ~(k <= k - 1)
      BY <1>1, <3>2
    <3>4. h[k - 1] \in S
      BY <3>1, <3>3
    <3>5. parent[h[k - 1]] = h[k] /\ h[k] \in Ids
      BY <1>1, <3>2, <3>3
    <3>6. QED
      BY <1>3, <3>2, <3>4, <3>5
  <2>3. n \in m + 1 .. Len(h)
    BY <1>1
  <2>4. QED
    BY <2>2, <2>3
<1>4. h[n] \in Lineage(parent[h[m]])
  BY <1>2, <1>3 DEF Lineage
<1>5. QED
  BY <1>2, <1>4 DEF Acyclic

\* A sequence without repetition is no longer than the set it is drawn from.
LEMMA NoLongerThanItsSet ==
  ASSUME NEW S, IsFiniteSet(S), NEW h, NEW n \in Nat, h \in [1 .. n -> S],
         \A k, j \in 1 .. n : k < j => h[k] # h[j]
  PROVE  n <= Cardinality(S)
<1>1. \A k, j \in 1 .. n : h[k] = h[j] => k = j
  <2> SUFFICES ASSUME NEW k \in 1 .. n, NEW j \in 1 .. n, h[k] = h[j], k # j
               PROVE  FALSE
    OBVIOUS
  <2>1. k < j \/ j < k
    OBVIOUS
  <2>2. QED
    BY <2>1
<1>2. h \in Injection(1 .. n, S)
  BY <1>1 DEF Injection, IsInjective
<1>3. Cardinality(1 .. n) <= Cardinality(S)
  BY <1>2, FS_Injection
<1>4. Cardinality(1 .. n) = n
  BY FS_Interval
<1>5. QED
  BY <1>3, <1>4

\* The walk, and the walk with one more parent, are such sequences.
LEMMA WalkFitsImages ==
  ASSUME LoopInv, HistoryIsLoaded
  PROVE  WalkEnds
<1> SUFFICES ASSUME Acyclic
             PROVE  /\ Len(history) <= Cardinality(images)
                    /\ pc = "history" /\ Oldest \in images => Len(history) < Cardinality(images)
  BY DEF WalkEnds
<1>1. /\ history \in Seq(Ids) /\ Len(history) \in Nat /\ images \subseteq Ids
      /\ IsFiniteSet(images) /\ Cardinality(images) \in Nat
      /\ \A k \in 1 .. Len(history) : history[k] \in images
      /\ \A k \in 1 .. Len(history) - 1 : parent[history[k]] = history[k + 1]
  BY FS_CardinalityType DEF LoopInv, TypeOK, GraphTypeOK, HistoryIsLoaded, HistoryIsChain
<1>2. Len(history) <= Cardinality(images)
  <2>1. history \in [1 .. Len(history) -> images]
    BY <1>1
  <2>2. \A k, j \in 1 .. Len(history) : k < j => history[k] # history[j]
    BY <1>1, ChainHasNoRepetition
  <2>3. QED
    BY <1>1, <2>1, <2>2, NoLongerThanItsSet
<1>3. ASSUME pc = "history", Oldest \in images
      PROVE  Len(history) < Cardinality(images)
  <2> DEFINE longer == Append(history, Oldest)
             n == Len(history) + 1
  <2>1. /\ longer \in Seq(Ids) /\ Len(longer) = n /\ n \in Nat
        /\ \A k \in 1 .. Len(history) : longer[k] = history[k]
        /\ longer[n] = Oldest
    BY <1>1, <1>3
  <2>2. ASSUME NEW k \in 1 .. n - 1
        PROVE  parent[longer[k]] = longer[k + 1]
    <3>1. CASE k = Len(history)
      BY <1>1, <2>1, <3>1 DEF Oldest
    <3>2. CASE k # Len(history)
      <4>1. k \in 1 .. Len(history) - 1 /\ k + 1 \in 1 .. Len(history)
        BY <1>1, <3>2
      <4>2. QED
        BY <1>1, <2>1, <4>1
    <3>3. QED
      BY <3>1, <3>2
  <2>3. \A k \in 1 .. n : longer[k] \in images
    <3>1. \A k \in 1 .. n : k \in 1 .. Len(history) \/ k = n
      BY <1>1
    <3>2. QED
      BY <1>1, <1>3, <2>1, <3>1
  <2> HIDE DEF longer
  <2>4. longer \in [1 .. n -> images]
    BY <2>1, <2>3
  <2>5. \A k, j \in 1 .. n : k < j => longer[k] # longer[j]
    BY <2>1, <2>2, ChainHasNoRepetition
  <2>6. n <= Cardinality(images)
    BY <1>1, <2>1, <2>4, <2>5, NoLongerThanItsSet
  <2>7. QED
    BY <1>1, <2>6
<1>4. QED
  BY <1>2, <1>3

\* The walk ends within the images that were loaded.
THEOREM WalkHasAnEnd == Spec => []WalkEnds
<1>1. IInv => WalkEnds
  BY WalkFitsImages DEF IInv
<1>2. QED
  BY <1>1, RebaseInvariant, PTL

-----------------------------------------------------------------------------
(* The steps that are left. *)

LEMMA StepsByPhase ==
  LET n == Cardinality(Ids)
  IN  /\ pc = "load" =>
           StepsLeft = 2 * Cardinality(unread) + Cardinality(writing) + 2 * n + 5
      /\ pc = "expand" => StepsLeft = 2 * n + 4
      /\ pc = "expandBase" => StepsLeft = 2 * n + 3
      /\ pc = "history" => StepsLeft = 2 * n + 3 - Len(history)
      /\ pc \in {"seek", "apply"} => StepsLeft = i + 3
      /\ pc = "save" => StepsLeft = 1
      /\ pc \in {"done", "failed"} => StepsLeft = 0
BY DEF StepsLeft

\* The history fits the images, what is unread is part of the archive, and what
\* is being written is one of its layers.
LEMMA Counts ==
  ASSUME LoopInv, HistoryIsLoaded
  PROVE  /\ Cardinality(Ids) \in Nat
         /\ Len(history) \in Nat
         /\ IsFiniteSet(unread) /\ Cardinality(unread) \in Nat
         /\ IsFiniteSet(writing) /\ Cardinality(writing) \in Nat
         /\ Acyclic => /\ Len(history) <= Cardinality(Ids)
                       /\ pc = "history" /\ Oldest \in images => Len(history) < Cardinality(Ids)
<1>1. Cardinality(Ids) \in Nat
  BY ArchiveAssumption, FS_CardinalityType
<1>2. IsFiniteSet(images) /\ Cardinality(images) \in Nat /\ Cardinality(images) <= Cardinality(Ids)
  <2>1. images \in SUBSET Ids
    BY DEF LoopInv, TypeOK, GraphTypeOK
  <2>2. QED
    BY <2>1, ArchiveAssumption, FS_Subset, FS_CardinalityType
<1>3. IsFiniteSet(unread) /\ Cardinality(unread) \in Nat
  <2>1. IsFiniteSet({"json", "layer.tar"})
    <3>1. IsFiniteSet({"json"}) /\ IsFiniteSet({"json"} \cup {"layer.tar"})
      BY FS_Singleton, FS_AddElement
    <3>2. {"json"} \cup {"layer.tar"} = {"json", "layer.tar"}
      OBVIOUS
    <3>3. QED
      BY <3>1, <3>2
  <2>2. IsFiniteSet(Archive)
    BY <2>1, ArchiveAssumption, FS_Product DEF Archive
  <2>3. unread \in SUBSET Archive
    BY DEF LoopInv, TypeOK
  <2>4. QED
    BY <2>2, <2>3, FS_Subset, FS_CardinalityType
<1>4. Len(history) \in Nat
  BY DEF LoopInv, TypeOK
<1>5. Acyclic => /\ Len(history) <= Cardinality(images)
                 /\ pc = "history" /\ Oldest \in images => Len(history) < Cardinality(images)
  BY WalkFitsImages DEF WalkEnds
<1>6. IsFiniteSet(writing) /\ Cardinality(writing) \in Nat
  <2>1. writing \in SUBSET Ids
    BY DEF LoopInv, TypeOK, GraphTypeOK
  <2>2. QED
    BY <2>1, ArchiveAssumption, FS_Subset, FS_CardinalityType
<1>7. QED
  BY <1>1, <1>2, <1>3, <1>4, <1>5, <1>6

\* An entry read is one fewer to read, a copy ended one fewer to end.
LEMMA ReadingCounts ==
  ASSUME LoopInv, HistoryIsLoaded,
         \/ \E kind \in {"json", "layer.tar"}, x \in Ids : ReadEntry(kind, x)
         \/ EndOfCopy \/ EndOfStream \/ LoadError
  PROVE  StepsLeft' \in Nat /\ StepsLeft' < StepsLeft
<1> DEFINE n == Cardinality(Ids)
<1>1. /\ n \in Nat
      /\ IsFiniteSet(unread) /\ Cardinality(unread) \in Nat
      /\ IsFiniteSet(writing) /\ Cardinality(writing) \in Nat
  BY Counts
<1>2. /\ pc = "load"
      /\ StepsLeft = 2 * Cardinality(unread) + Cardinality(writing) + 2 * n + 5
  BY StepsByPhase DEF ReadEntry, EndOfCopy, EndOfStream, LoadError
<1>3. pc' = "load" =>
        StepsLeft' = 2 * Cardinality(unread') + Cardinality(writing') + 2 * n + 5
  BY DEF StepsLeft
<1>4. ASSUME NEW kind \in {"json", "layer.tar"}, NEW x \in Ids, ReadEntry(kind, x)
      PROVE  StepsLeft' \in Nat /\ StepsLeft' < StepsLeft
  <2>1. /\ pc' = "load" /\ <<kind, x>> \in unread /\ unread' = unread \ {<<kind, x>>}
        /\ writing = {} /\ writing' \in {{}, {x}}
    BY <1>2, <1>4 DEF ReadEntry, LoadJson, CreateLayer
  <2>2. Cardinality(unread') = Cardinality(unread) - 1 /\ Cardinality(unread') \in Nat
    BY <1>1, <2>1, FS_RemoveElement, FS_CardinalityType
  <2>3. Cardinality(writing) = 0 /\ Cardinality(writing') \in {0, 1}
    BY <2>1, FS_EmptySet, FS_Singleton
  <2>4. QED
    BY <1>1, <1>2, <1>3, <2>1, <2>2, <2>3
<1>5. CASE EndOfCopy
  <2>1. PICK x \in writing : FinishLayer(x)
    BY <1>5 DEF EndOfCopy
  <2>2. pc' = "load" /\ unread' = unread /\ writing' = {}
    BY <1>2, <1>5, <2>1 DEF EndOfCopy, FinishLayer, runVars
  <2>3. Cardinality(writing) > 0 /\ Cardinality(writing') = 0
    BY <1>1, <2>1, <2>2, FS_EmptySet
  <2>4. QED
    BY <1>1, <1>2, <1>3, <2>2, <2>3
<1>6. CASE EndOfStream
  <2>1. pc' = "expand"
    BY <1>6 DEF EndOfStream
  <2>2. StepsLeft' = 2 * n + 4
    BY <2>1 DEF StepsLeft
  <2>3. QED
    BY <1>1, <1>2, <2>2
<1>7. CASE LoadError
  <2>1. StepsLeft' = 0
    BY <1>7 DEF LoadError, Fail, StepsLeft
  <2>2. QED
    BY <1>1, <1>2, <2>1
<1>8. QED
  BY <1>4, <1>5, <1>6, <1>7

\* A name expanded, an image walked.
LEMMA WalkingCounts ==
  ASSUME LoopInv, HistoryIsLoaded, Acyclic,
         ExpandImage \/ ExpandBase \/ WalkHistory \/ EndOfHistory
  PROVE  StepsLeft' \in Nat /\ StepsLeft' < StepsLeft
<1> DEFINE n == Cardinality(Ids)
<1>1. /\ n \in Nat /\ Len(history) \in Nat /\ Len(history) <= n
      /\ pc = "history" /\ Oldest \in images => Len(history) < n
  BY Counts
<1>2. /\ pc' = "failed" => StepsLeft' = 0
      /\ pc' = "expandBase" => StepsLeft' = 2 * n + 3
      /\ pc' = "history" => StepsLeft' = 2 * n + 3 - Len(history')
      /\ pc' = "seek" => StepsLeft' = i' + 3
  BY DEF StepsLeft
<1>3. CASE ExpandImage
  <2>1. pc = "expand" /\ pc' \in {"expandBase", "failed"}
    BY <1>3 DEF ExpandImage, Fail
  <2>2. QED
    BY <1>1, <1>2, <2>1, StepsByPhase
<1>4. CASE ExpandBase
  <2>1. /\ pc = "expandBase"
        /\ pc' = "failed" \/ (pc' = "history" /\ history' = <<id>>)
    BY <1>4 DEF ExpandBase, Fail
  <2>2. pc' = "history" => StepsLeft' = 2 * n + 2
    <3>1. history' = <<id>> => Len(history') = 1
      OBVIOUS
    <3>2. pc' = "history" => history' = <<id>>
      BY <2>1
    <3>3. pc' = "history" => StepsLeft' = 2 * n + 3 - 1
      BY <1>2, <3>1, <3>2
    <3>4. QED
      BY <1>1, <3>3
  <2>3. StepsLeft = 2 * n + 3
    BY <2>1, StepsByPhase
  <2>4. QED
    BY <1>1, <1>2, <2>1, <2>2, <2>3
<1>5. CASE WalkHistory
  <2>1. pc = "history" /\ pc' = pc /\ Oldest \in images /\ Len(history') = Len(history) + 1
    BY <1>5 DEF WalkHistory, LoopInv, TypeOK
  <2>2. QED
    BY <1>1, <1>2, <2>1, StepsByPhase
<1>6. CASE EndOfHistory
  <2>1. /\ pc = "history" /\ Len(history) > 0
        /\ pc' = "failed" \/ (pc' = "seek" /\ i' = Len(history) - 1)
    BY <1>6 DEF EndOfHistory, Fail, LoopInv, HistoryIsChain
  <2>2. QED
    BY <1>1, <1>2, <2>1, StepsByPhase
<1>7. QED
  BY <1>3, <1>4, <1>5, <1>6

\* An image skipped, a layer applied, and the end.
LEMMA LoopingCounts ==
  ASSUME LoopInv,
         \/ SkipBelowBase \/ BaseFound
         \/ ApplyLayer \/ ApplyError \/ EndOfLayers
         \/ SaveLayer
  PROVE  StepsLeft' \in Nat /\ StepsLeft' < StepsLeft
<1>1. /\ pc' \in {"failed", "done"} => StepsLeft' = 0
      /\ pc' \in {"seek", "apply"} => StepsLeft' = i' + 3
      /\ pc' = "save" => StepsLeft' = 1
  BY DEF StepsLeft
<1>2. i \in Int /\ (pc = "seek" => i >= 0) /\ (pc = "apply" => i >= -1)
  BY DEF LoopInv, TypeOK, IndexInRange, AppliedFollowsHistory
<1>3. CASE SkipBelowBase
  <2>1. pc = "seek" /\ i' = i - 1 /\ (IF i' < 0 THEN pc' = "failed" ELSE pc' = pc)
    BY <1>3 DEF SkipBelowBase, Fail
  <2>2. QED
    BY <1>1, <1>2, <2>1, StepsByPhase
<1>4. CASE BaseFound
  <2>1. pc = "seek" /\ i' = i - 1 /\ pc' \in {"apply", "failed"}
    BY <1>4 DEF BaseFound
  <2>2. QED
    BY <1>1, <1>2, <2>1, StepsByPhase
<1>5. CASE ApplyLayer
  <2>1. pc = "apply" /\ pc' = pc /\ i' = i - 1 /\ i > 0
    BY <1>5 DEF ApplyLayer, MoreLayers
  <2>2. QED
    BY <1>1, <1>2, <2>1, StepsByPhase
<1>6. CASE ApplyError \/ EndOfLayers
  <2>1. pc = "apply" /\ pc' \in {"failed", "save"}
    BY <1>6 DEF ApplyError, EndOfLayers, Fail
  <2>2. QED
    BY <1>1, <1>2, <2>1, StepsByPhase
<1>7. CASE SaveLayer
  <2>1. pc = "save" /\ pc' \in {"failed", "done"}
    BY <1>7 DEF SaveLayer, Fail
  <2>2. QED
    BY <1>1, <2>1, StepsByPhase
<1>8. QED
  BY <1>3, <1>4, <1>5, <1>6, <1>7

\* A run of an archive without cycles takes at most 6 * Cardinality(Ids) + 5 steps
\* of its own, whatever other runs do in between: there is none it could repeat
\* for ever.  (That it takes them is a matter of fairness: RunEnds.)
THEOREM RunIsFinite == Spec => EveryStepCounts
<1>1. IInv /\ [Next]_vars =>
        [Acyclic /\ <<runVars, writing>>' # <<runVars, writing>> =>
           StepsLeft' \in Nat /\ StepsLeft' < StepsLeft]_vars
  <2> SUFFICES ASSUME IInv, [Next]_vars, Acyclic, <<runVars, writing>>' # <<runVars, writing>>
               PROVE  StepsLeft' \in Nat /\ StepsLeft' < StepsLeft
    OBVIOUS
  <2>1. RunNext
    BY DEF Next, AnotherRun, AnotherCreates, AnotherCloses, vars, graphVars
  <2>2. QED
    BY <2>1, ReadingCounts, WalkingCounts, LoopingCounts DEF IInv, RunNext
<1>2. QED
  BY <1>1, RebaseInvariant, PTL DEF Spec, EveryStepCounts
=============================================================================
