------------------------------- MODULE Rebase -------------------------------
(***************************************************************************)
(* One run from loadGraph to the image that Graph.Rebase returns: load the *)
(* archive, expand the two names, walk the history of the image, find the  *)
(* base in it, apply the layers above the base and save their squash.      *)
(*                                                                         *)
(* Layer.Apply is one step here: applied lists the images whose layer it   *)
(* was given.  What it does with their entries is module Squash.           *)
(*                                                                         *)
(* history is indexed from 1 and the code's i from 0: history[i] of the    *)
(* source is history[i + 1].                                               *)
(***************************************************************************)
EXTENDS Graph, Integers, Sequences, FiniteSets

CONSTANTS
  NoParent,    \* the empty "parent" of a JSON document
  NoImage,     \* Rebase has not returned an image
  Parentages,  \* the parent fields an archive can have, functions on Ids
  MaxHistory   \* bound: a history that has grown to this length stops growing

Results == [id : Ids, parent : Ids, layers : Seq(Ids)]

ASSUME RebaseAssumption ==
  /\ NoParent \notin Ids
  /\ NoImage \notin Results
  /\ Parentages \subseteq [Ids -> Ids \cup {NoParent}]
  /\ MaxHistory \in Nat

\* An archive names finitely many images.
ASSUME ArchiveAssumption == IsFiniteSet(Ids)

VARIABLES
  parent,    \* parent[id]: the "parent" field of <id>/json in the archive
  image,     \* the names on the command line
  base,
  unread,    \* the entries of the archive that Load has not seen
  pc,        \* where the run is
  id,        \* the image, once its name is expanded
  base_id,   \* the base, once its name is expanded
  history,   \* img.History() so far, the image first
  i,         \* the index of Rebase's two loops
  applied,   \* the images whose layers lr has applied, in order
  reads,     \* history: the state of each one's tarball as it was read
  rimg       \* the image that Rebase returned

runVars == <<parent, image, base, unread, pc, id, base_id, history, i, applied, reads, rimg>>
vars == <<graphVars, runVars>>

Archive == {"json", "layer.tar"} \X Ids

Phases == {"load", "expand", "expandBase", "history", "seek", "apply", "save",
           "done", "failed"}

TypeOK ==
  /\ GraphTypeOK
  /\ parent \in Parentages
  /\ image \in Names /\ base \in Names
  /\ unread \subseteq Archive
  /\ pc \in Phases
  /\ id \in Names /\ base_id \in Names
  /\ history \in Seq(Ids)
  /\ i \in Int
  /\ applied \in Seq(Ids)
  /\ reads \in Seq(TarballStates)
  /\ rimg \in Results \cup {NoImage}

Init ==
  /\ NewGraph
  /\ parent \in Parentages
  /\ image \in Names /\ base \in Names
  /\ unread = Archive
  /\ pc = "load"
  /\ id = image /\ base_id = base
  /\ history = <<>>
  /\ i = 0
  /\ applied = <<>>
  /\ reads = <<>>
  /\ rimg = NoImage

Fail == pc' = "failed"

-----------------------------------------------------------------------------
(* Graph.Load *)

\* Only entries of an archive have names, and the archive has them in any order.
\* A layer is copied to its end before the next entry is asked for.
ReadEntry(kind, x) ==
  /\ pc = "load" /\ writing = {}
  /\ <<kind, x>> \in unread
  /\ unread' = unread \ {<<kind, x>>}
  /\ \/ kind = "json" /\ LoadJson(x)
     \/ kind = "layer.tar" /\ CreateLayer(x)
  /\ UNCHANGED <<parent, image, base, pc, id, base_id, history, i, applied, reads, rimg>>

EndOfCopy ==
  /\ pc = "load"
  /\ \E x \in writing : FinishLayer(x)
  /\ UNCHANGED runVars

\* tr.Next returns io.EOF: at the trailer, and also where an archive was cut
\* between two blocks, whatever was still to come.
EndOfStream ==
  /\ pc = "load" /\ writing = {}
  /\ pc' = "expand"
  /\ UNCHANGED <<graphVars, parent, image, base, unread, id, base_id, history, i, applied, reads, rimg>>

\* Any other error of the archive, of a JSON document in it, or of the copy.
LoadError ==
  /\ pc = "load"
  /\ Fail
  /\ LeaveLayer
  /\ UNCHANGED <<parent, image, base, unread, id, base_id, history, i, applied, reads, rimg>>

-----------------------------------------------------------------------------
(* Graph.Rebase *)

ExpandImage ==
  /\ pc = "expand"
  /\ \/ id' \in Expansions(image) /\ pc' = "expandBase"
     \/ Expansions(image) = {} /\ Fail /\ UNCHANGED id
  /\ UNCHANGED <<graphVars, parent, image, base, unread, base_id, history, i, applied, reads, rimg>>

ExpandBase ==
  /\ pc = "expandBase"
  /\ \/ base_id' \in Expansions(base) /\ pc' = "history" /\ history' = <<id>>
     \/ Expansions(base) = {} /\ Fail /\ UNCHANGED <<base_id, history>>
  /\ UNCHANGED <<graphVars, parent, image, base, unread, id, i, applied, reads, rimg>>

\* GetParent of the image at the end of the history.
Oldest == parent[history[Len(history)]]

\* Mutant: the parent is taken to be there.
WalkPastRoot ==
  /\ pc = "history"
  /\ Len(history) < MaxHistory
  /\ history' = Append(history, Oldest)
  /\ UNCHANGED <<graphVars, parent, image, base, unread, pc, id, base_id, i, applied, reads, rimg>>

WalkHistory ==
  /\ pc = "history"
  /\ Oldest \in images
  /\ Len(history) < MaxHistory
  /\ history' = Append(history, Oldest)
  /\ UNCHANGED <<graphVars, parent, image, base, unread, pc, id, base_id, i, applied, reads, rimg>>

\* Mutant: i starts one past the end.
EndOfHistoryPastEnd ==
  /\ pc = "history"
  /\ \/ Oldest = NoParent /\ pc' = "seek" /\ i' = Len(history)
     \/ Oldest \notin images \cup {NoParent} /\ Fail /\ UNCHANGED i
  /\ UNCHANGED <<graphVars, parent, image, base, unread, id, base_id, history, applied, reads, rimg>>

EndOfHistory ==
  /\ pc = "history"
  /\ \/ Oldest = NoParent /\ pc' = "seek" /\ i' = Len(history) - 1
     \/ Oldest \notin images \cup {NoParent} /\ Fail /\ UNCHANGED i
  /\ UNCHANGED <<graphVars, parent, image, base, unread, id, base_id, history, applied, reads, rimg>>

\* Mutant: i stays where it is.
SkipForgetsI ==
  /\ pc = "seek"
  /\ history[i + 1] # base_id
  /\ UNCHANGED vars

\* for history[i].ID != base_id, from the root of the history to the image.
SkipBelowBase ==
  /\ pc = "seek"
  /\ history[i + 1] # base_id
  /\ i' = i - 1
  /\ IF i' < 0 THEN Fail ELSE UNCHANGED pc
  /\ UNCHANGED <<graphVars, parent, image, base, unread, id, base_id, history, applied, reads, rimg>>

\* Mutant: the base is where the layers start.
BaseNotSkipped ==
  /\ pc = "seek"
  /\ history[i + 1] = base_id
  /\ pc' \in {"apply", "failed"}
  /\ UNCHANGED <<graphVars, parent, image, base, unread, id, base_id, history, i, applied, reads, rimg>>

\* The base is skipped too; creating the layer's directory may fail.
BaseFound ==
  /\ pc = "seek"
  /\ history[i + 1] = base_id
  /\ i' = i - 1
  /\ pc' \in {"apply", "failed"}
  /\ UNCHANGED <<graphVars, parent, image, base, unread, id, base_id, history, applied, reads, rimg>>

\* Mutant: one layer too few.
MoreThanOneLayer == i > 1

\* for i > 0 { lr.Apply ... i-- }
MoreLayers == i > 0

\* Mutant: every other layer is passed over.
ApplySecondLayer ==
  /\ pc = "apply"
  /\ MoreLayers
  /\ tarballs[history[i + 1]] # "missing"
  /\ applied' = Append(applied, history[i + 1])
  /\ reads' = Append(reads, tarballs[history[i + 1]])
  /\ i' = i - 2
  /\ UNCHANGED <<graphVars, parent, image, base, unread, pc, id, base_id, history, rimg>>

\* Apply opens the tarball of the ID, whoever wrote it, and reads it to its end.
\* A part of one can end between two entries or in blocks of zeros, as an archive
\* does.  reads tells what the file is when Apply is done with it: if another run
\* created it meanwhile, something of that run's or less was read.
ApplyLayer ==
  /\ pc = "apply"
  /\ MoreLayers
  /\ tarballs[history[i + 1]] # "missing"
  /\ applied' = Append(applied, history[i + 1])
  /\ reads' = Append(reads, tarballs[history[i + 1]])
  /\ i' = i - 1
  /\ UNCHANGED <<graphVars, parent, image, base, unread, pc, id, base_id, history, rimg>>

\* Apply fails: always on a missing file, on any other if it cannot be read or
\* ends in the middle of an entry.
ApplyError ==
  /\ pc = "apply"
  /\ MoreLayers
  /\ Fail
  /\ UNCHANGED <<graphVars, parent, image, base, unread, id, base_id, history, i, applied, reads, rimg>>

EndOfLayers ==
  /\ pc = "apply"
  /\ ~MoreLayers
  /\ pc' = "save"
  /\ UNCHANGED <<graphVars, parent, image, base, unread, id, base_id, history, i, applied, reads, rimg>>

\* Mutant: the clone keeps the parent it had.
SaveKeepsParent ==
  /\ pc = "save"
  /\ pc' = "done"
  /\ rimg' = [id |-> id, parent |-> parent[id], layers |-> applied]
  /\ UNCHANGED <<graphVars, parent, image, base, unread, id, base_id, history, i, applied, reads>>

\* The squashed layer is written and the clone of the image returned, or the
\* temporary file or lr.Save fails.
SaveLayer ==
  /\ pc = "save"
  /\ \/ /\ pc' = "done"
        /\ rimg' = [id |-> id, parent |-> base_id, layers |-> applied]
     \/ Fail /\ UNCHANGED rimg
  /\ UNCHANGED <<graphVars, parent, image, base, unread, id, base_id, history, i, applied, reads>>

RunNext ==
  \/ \E kind \in {"json", "layer.tar"}, x \in Ids : ReadEntry(kind, x)
  \/ EndOfCopy \/ EndOfStream \/ LoadError
  \/ ExpandImage \/ ExpandBase
  \/ WalkHistory \/ EndOfHistory
  \/ SkipBelowBase \/ BaseFound
  \/ ApplyLayer \/ ApplyError \/ EndOfLayers
  \/ SaveLayer

\* Another run in the same directory.
AnotherRun ==
  /\ \E x \in Ids : AnotherCreates(x) \/ AnotherCloses(x)
  /\ UNCHANGED runVars

Next == RunNext \/ AnotherRun

Spec == Init /\ [][Next]_vars

\* The run is one goroutine that nothing but its input can hold up, and the
\* archive is taken to end.  Of other runs nothing is assumed.
FairSpec == Spec /\ WF_vars(RunNext)

-----------------------------------------------------------------------------
(* What a rebase must be. *)

\* The images of the history of x, x included, whatever was loaded.
Lineage(x) ==
  {y \in Ids : \A S \in SUBSET Ids :
     (x \in S /\ \A z \in S : parent[z] \in Ids => parent[z] \in S) => y \in S}

\* The two loops index the history only where it has an image.
IndexInRange ==
  /\ pc = "seek" => i + 1 \in 1 .. Len(history)
  /\ pc = "apply" /\ MoreLayers => i + 1 \in 1 .. Len(history)

\* The layers are applied oldest first and without a gap, from just above the
\* base: each is the layer of a child of the one before.
AppliedIsStretch ==
  pc \in {"apply", "save", "done"} =>
    \A k \in 1 .. Len(applied) :
      parent[applied[k]] = IF k = 1 THEN base_id ELSE applied[k - 1]

\* ... and up to just below the image: none that lies between is left out.
NoneLeftOut ==
  rimg # NoImage /\ rimg.id # rimg.parent =>
    LET path == <<rimg.parent>> \o rimg.layers
    IN  parent[rimg.id] = path[Len(path)]

\* What the base already has is not applied over it again: neither its layer
\* nor one of its history.
BaseNotRepeated ==
  \A k \in 1 .. Len(applied) : applied[k] \notin Lineage(base_id)

\* A name that is an image's full ID means that image, whatever else has it for
\* a prefix; any other name means an image it is a prefix of.
NameMeansItsImage ==
  rimg # NoImage =>
    /\ rimg.id \in images /\ rimg.id \in Denotes[image]
    /\ image \in images => rimg.id = image
    /\ rimg.parent \in images /\ rimg.parent \in Denotes[base]
    /\ base \in images => rimg.parent = base

\* Every layer in the squash is the one this archive brought, all of it and
\* nothing else, whatever earlier runs left in the directory and wherever they
\* broke off.  Another layer takes its place only where runs share the directory,
\* and then only where the archive did not bring one, or where another run had
\* the file open for writing since this one created it.  Alone in its directory
\* a run fails rather than return an image that lacks a layer.
LayersFromArchive ==
  rimg # NoImage =>
    \A k \in 1 .. Len(rimg.layers) :
      \/ reads[k] = "whole"
      \/ /\ rimg.layers[k] \in Shared
         /\ \/ <<"layer.tar", rimg.layers[k]>> \in unread
            \/ rimg.layers[k] \in disturbed

\* The run ends, if no image is in the history of its own parent.
Acyclic == \A x \in Ids : parent[x] \in Ids => x \notin Lineage(parent[x])

RunEnds == Acyclic => <>(pc \in {"done", "failed"})

\* ... and before it could come to an image twice: the walk visits images that
\* were loaded, each at most once, and while there is another parent to go to
\* there is one that it has not visited.
WalkEnds ==
  Acyclic =>
    /\ Len(history) <= Cardinality(images)
    /\ pc = "history" /\ Oldest \in images => Len(history) < Cardinality(images)

\* The most steps that are left: two for an entry of the archive (its layer is
\* created and finished), of which the copy under way has one; three to expand
\* the names and find the root; one for each image walked, skipped or applied;
\* two to finish.
StepsLeft ==
  LET n == Cardinality(Ids)
  IN  CASE pc = "load"              -> 2 * Cardinality(unread) + Cardinality(writing) + 2 * n + 5
        [] pc = "expand"            -> 2 * n + 4
        [] pc = "expandBase"        -> 2 * n + 3
        [] pc = "history"           -> 2 * n + 3 - Len(history)
        [] pc \in {"seek", "apply"} -> i + 3
        [] pc = "save"              -> 1
        [] OTHER                    -> 0

\* Whatever the run does next, and other runs in between, uses up one of a
\* number of steps that the archive alone sets: no loop of it goes back.
EveryStepCounts ==
  [][Acyclic /\ <<runVars, writing>>' # <<runVars, writing>> =>
       StepsLeft' \in Nat /\ StepsLeft' < StepsLeft]_vars

\* What the run does as one step of its promise.
Promise == INSTANCE RebasePromise WITH failed <- pc = "failed"

KeepsPromise == Promise!Spec

-----------------------------------------------------------------------------
(* The inductive invariant of the two loops. *)

\* The history is a chain of parents that starts at the image, ...
HistoryIsChain ==
  /\ Len(history) > 0 => history[1] = id
  /\ \A k \in 1 .. Len(history) - 1 : parent[history[k]] = history[k + 1]
  /\ pc \in {"load", "expand", "expandBase"} => history = <<>>
  /\ pc \in {"history", "seek", "apply", "save", "done"} => Len(history) > 0

\* ... and ends at one without a parent once it was walked.
HistoryIsWhole ==
  pc \in {"seek", "apply", "save", "done"} => parent[history[Len(history)]] = NoParent

\* Where the base was found in the history: the code's i has since gone down
\* by one for the base and by one for each layer applied.
FoundAt == i + 1 + Len(applied)

AppliedFollowsHistory ==
  pc \in {"apply", "save", "done"} =>
    /\ FoundAt \in 0 .. Len(history) - 1
    /\ history[FoundAt + 1] = base_id
    /\ \A k \in 1 .. Len(applied) : applied[k] = history[FoundAt + 1 - k]
    /\ i = -1 => applied = <<>>
    /\ i >= -1

ResultIsFinal ==
  /\ rimg # NoImage => pc = "done"
  /\ pc = "done" => rimg = [id |-> id, parent |-> base_id, layers |-> applied]
  /\ pc \in {"save", "done"} => ~MoreLayers
  /\ pc \in {"load", "expand", "expandBase", "history", "seek"} => applied = <<>>

\* Once the image's name is expanded it is a key of gr.Images.
IdIsLoaded == pc \notin {"load", "expand", "failed"} => id \in images

LoopInv ==
  /\ TypeOK
  /\ IdIsLoaded
  /\ IndexInRange
  /\ HistoryIsChain
  /\ HistoryIsWhole
  /\ AppliedFollowsHistory
  /\ ResultIsFinal

\* Each name, once expanded, means what it says, and goes on meaning it: no
\* image is loaded after the first expansion.
NamesExpanded ==
  /\ pc \notin {"load", "expand", "failed"} =>
       id \in images /\ id \in Denotes[image] /\ (image \in images => id = image)
  /\ pc \notin {"load", "expand", "expandBase", "failed"} =>
       base_id \in images /\ base_id \in Denotes[base] /\ (base \in images => base_id = base)

\* What another run had a hand in is one of the files that runs share, and was
\* not created by this run, or was disturbed since.
ForeignIsExplained(x) ==
  x \in Shared /\ (<<"layer.tar", x>> \in unread \/ x \in disturbed)

\* While the run goes on, what it wrote is whole but for the one file that it is
\* writing, and anything else in the directory, and in what it applied, has an
\* explanation.
LayersKnown ==
  /\ pc # "failed" =>
       \A x \in Ids : /\ tarballs[x] = "part" => x \in writing
                      /\ tarballs[x] = "foreign" => ForeignIsExplained(x)
  /\ pc \notin {"load", "failed"} => writing = {}
  /\ \A x, y \in writing : x = y
  /\ Len(reads) = Len(applied)
  /\ \A k \in 1 .. Len(applied) : reads[k] = "whole" \/ ForeignIsExplained(applied[k])

\* The walk goes from one loaded image to another.
HistoryIsLoaded ==
  /\ IsFiniteSet(images)
  /\ \A k \in 1 .. Len(history) : history[k] \in images

IInv == LoopInv /\ NamesExpanded /\ LayersKnown /\ HistoryIsLoaded

-----------------------------------------------------------------------------
(* What the repository says and the code does not do. *)

\* "the image should add /etc/init.d/S20urandom" (kitchen-sink.feature:56): the
\* Dockerfile's last changes are in the rebased image, and they are in the
\* layer of the image itself.
TopLayerApplied ==
  rimg # NoImage /\ rimg.id # rimg.parent =>
    \E k \in 1 .. Len(rimg.layers) : rimg.layers[k] = rimg.id

\* "%s: ambiguous prefix" (graph.go:102): a name that two of the images start
\* with, and that is no image itself, is refused.
AmbiguityIsRefused ==
  \A name \in {image, base} :
    rimg # NoImage => name \in images \/ \A x, y \in Denotes[name] \cap images : x = y
=============================================================================
