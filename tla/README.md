# docker-rebase in TLA+

docker-rebase takes a Docker image and one of its ancestors, the *base*, and
makes an image that has the base as its parent and whose single layer stands for
the layers in between. These modules specify what the program does, from
reading the images to the exit status; TLC checks them on small instances and
TLAPS proves the invariants, the bounds on its steps and the refinements for
instances of any size.

Paths below are relative to the repository's `src/`. "Docker's library" is the
copy under `Godeps/_workspace/src/github.com/docker/docker`.

## 1. The system

| Component | State | Operations | Hard because |
|---|---|---|---|
| Layer (`layer.go`) | `lr.Files`: archive name to header and file | `Apply` once per layer archive, `Save`, `Size` | additions and deletions meet in any order across layers; a key stands for a tree |
| Graph (`graph.go`, `image.go`) | `gr.Images`, the tarballs `image.<id>.tar` in `gr.Workdir` | `Load`, `expandID`, `History` (Docker's library), `Rebase` | archives are cut short or come in any order; two index loops; map order |
| Image output (`image.go`, `tar.go`, `helpers.go`) | the tar writer's error, what the compressor holds, the file | `Image.Save`, `WithCreate`, `WithCreateZ` | some errors are dropped, writers fail late |
| Docker pipes (`docker.go`; library, `api/client`, `utils/jsonmessage.go`, `pkg/mflag`, `api/server`) | an `io.Pipe`, the goroutine of the command, the daemon's response | `ReadPipe`, `buildImage`, `getId`; the commands build, inspect and save | two goroutines, either can end the process; a daemon that fails after its first byte says so late or not at all |
| Workflow (`main.go`) | flags, working directory, exit status | `main`, `loadGraph`, `saveImage` | deferred clean-up that runs only on a return; a shadowed variable |
| Docker's unpacking (library, `archive/diff.go`) | a root file system | `ApplyLayer` | what the squashed layer must be equal to |
| Storage drivers (library, `archive/changes.go`, `aufs.go`) | - | which entries an archive can have | drivers differ in what they list |

`main` runs the commands and reads their output through pipes, gives the
archive of `docker save` (or a file) to `Graph.Load`, calls `Graph.Rebase`,
which calls `Layer.Apply` for the layers above the base in the order of the
history and `Layer.Save` once, and writes the returned image with `Image.Save`.
Components share the working directory: `Load` writes the tarballs that `Apply`
reads, and `Rebase` the tarball that `Image.Save` reads. The directory can be
one that other runs used before, or use at the same time: without `-workdir` it
is the system's temporary directory (section 4).

What makes each part correct:

* Layer: unpacked over the base, the squashed layer gives what the layers give
  one after another. This is not quite true of the code (section 4), and the
  invariants say how far it is. Saved, its keys in string order, it unpacks to
  what the keys say together.
* Graph: exactly the layers strictly between base and image, oldest first, each
  whole and as this archive brought it, as far as a run can see to that in a
  directory without locks; names mean what they say; no index out of range; an
  end.
* Pipes and workflow: no stage takes part of an output for the whole; the names
  of a build are those Docker printed; no one waits for ever; nothing is left
  behind.
* Output: success means that the file is whole. True only of the headers.

`PROJECT.json` lists the hazards behind these, each at its line.

## 2. Modules

```
Rootfs <- Layer <- Squash <- MCSquash, SquashProofs
                   Squash <- Repack <- RepackProofs
                   MCSquash, Repack <- MCRepack
Graph  <- Rebase <- MCRebase, RebaseProofs              Rebase => RebasePromise
          RebaseProofs <- RebaseEndProofs
Pipe <- DockerCli
        DockerCli, Output <- Workflow <- WorkflowProofs Workflow => WorkflowPromise
        WorkflowProofs <- WorkflowEndProofs, WorkflowPromiseProofs
```

(`A <- B`: B extends A. `=>`: implements.)

**Rootfs** is the reference: file systems as functions from paths to entries,
and what Docker does with an addition (`Extract`, `CreateTarFile`) and a
deletion (`RemoveAll`).
A path is opaque; `Beneath` is the only structure that `path.Dir`, `path.Base`
and the `name/` prefix tests see. Headers are opaque but for being directories.

**Layer** has `lr.Files` as two variables, the entries (`files`) and the paths
whose whiteout name is a key (`white`), and one action per branch of the switch
in `Apply`. A directory's key has no trailing slash, so a path has one key.
`Unpacked(fs)` is what unpacking the whole layer over `fs` should leave.

**Squash** runs `Apply` over one archive after another beside `rootfs`, the file
system Docker makes of the same archives. The archives are not enumerated: each
next entry is any that a driver can write, given the file system so far and the
paths this archive has mentioned (`Addable`, `Deletable`). `Shapes` allows two
looser forms: `"implicit"`, unlisted unchanged parents (the generic driver), and
`"retype"`, a path that changes between directory and file with one entry. Both
drivers write the second: the aufs driver packs its directory of the layer
(`Diff`), in which a file made in place of a directory is all that is left. So
`Shapes = {"retype"}` is aufs. `Apply` leaves the keys below a path that changed
so in place; the history variable `retyped` has these paths, and what holds only
away from them says so (`Steady`).

**Repack** is `Layer.Save` after the last `Apply`, and Docker unpacking each
entry as it is written: the directories it makes for a name whose own are
missing, its refusal of a name below a file, the metadata it skips. A
directory's key is a prefix of those in it; how any other two keys sort depends
on their spelling and is left open, so what holds here holds for every spelling.

**Graph** has `Load`'s effect per entry and `expandID`. The loop over a Go map
keeps the last match of an unspecified order, hence a choice; its test for a
second match never holds, since `err` is nil there. A layer is loaded in two
steps, the file's creation and the end of the copy into it (`writing` is the one
in between); a copy that breaks off leaves the file as it is. `tarballs` has a
state per ID: no file, part or all of what this run was given to write, or
`"foreign"`, anything that another run had a hand in. For the IDs in `Shared`,
other runs have left files, are in the middle of one (`copying`), and create or
close one at any time. An ID need not mean the same layer to two runs, since a
rebased image keeps the ID of the image it is made of (`graph.go:167-171`,
`image.go:70`). Nothing in the code locks or renames a file. The history variable
`disturbed` has the IDs whose file another run had open for writing when this run
last created it, or since.

**Rebase** is a run of the graph: entries in any order, an end of the stream at
any point (`tar.Reader` takes an archive cut between blocks for a whole one),
the history walk, the two loops with the code's index `i`, and every error
return. `Layer.Apply` is one step here; `applied` records its argument and
`reads` the state of the tarball when it is read to its end. One step is enough
beside other runs: if one of them creates the file while it is read, what was
read is foreign, and that run's step may come before this one.

**RebasePromise** is what `Graph.Rebase` promises, without how: an error, or an
image with the layers of the stretch between base and image. `Rebase`
implements it (`KeepsPromise`).

**Pipe** is `ReadPipe`: an unbuffered pipe, a command that writes, and ends in
success (the deferred `Close`) or failure (`log.Fatalln`, without it).

**DockerCli** has the three commands and the daemon. Build and save relay a
response as it arrives; inspect asks for a container, then for an image, and
prints when it has a whole body. The daemon can refuse, answer unit by unit, end
an archive short without a word (`TarWithOptions` logs its errors), put the
error of a build in the last message, or be lost. A command that is misused ends
the process itself, from the goroutine (`os.Exit(2)`).

**Output** is `Image.Save` over `WithCreate` and `WithCreateZ`, part by part, with
the sticky error of the tar writer, a compressor that holds parts back, and a
device that is full at times.

**Workflow** is `main` with all of these, and the end of the process from either
goroutine. Of a build's lines it tells apart what the two regular expressions
take them for and who printed them, Docker or a process of the build: the first
is Docker's first instruction and the last Docker's name for the image; any other
line is free. That order is Docker's builder's, which is assumed: the builder's
part of the library is not in the source tree.

**WorkflowPromise** is what a run promises to its caller: the stages that
`main` numbers in its comments, one after another, each over only when its input
has ended; nothing after a failure; an output only past all of them, and status 0
only when that was closed. `Workflow` implements it: `InputEnded` reads the end
of a stage's input off the counters of the pipe and of the response, `OutputSeen`
the state of the file off the parts written. Everything that the goroutine and
the daemon do is a stutter, or the one step in which the input ends.

Definitions commented *Mutant* are plausible mistakes in the code. Nothing uses
them; each shows that a property would notice.

## 3. Runs

| Run | Instance | Shows |
|---|---|---|
| `squash_aufs` | what the aufs driver writes: directories listed, files and directories in each other's place; a directory in a directory, a file below, an aufs marker; all bases; 4 archives; `Save` in every order | `NothingLost`, `WhiteoutsAreGone`, `NothingLeaks`, `OnlyBaseContentReturns`, `DeletionsKept`, `ParentsListed`, `MetadataIsKept`, `SavedUnpacks`, `RebasedImage`, and the proved `IInv` and `RepackIInv` |
| `squash_any` | 3 archives of any shape, with directories unlisted too | what holds whatever the driver: nothing is lost, no whiteout hits a path that came back, a saved layer that Docker takes has everything; `RepackIInv` |
| `rebase_any` | 3 images, every parentage, cycles too; one ID a prefix of another; a short name for all; other runs at one tarball, before, during and after this one's copy | indices in range, names, the provenance of every layer (`LayersFromArchive`), no image twice in the walk (`WalkEnds`) and a bound on the steps (`EveryStepCounts`) where the parents have no cycle, `IInv` |
| `rebase_chain` | 5 images in a history | exactly the right layers in order, the promise, the end |
| `workflow` | outputs of 3 units and 1 of padding | no stage on part of an output, the names of the build, no file from an archive that was cut, headers written, nobody waits for ever (`NoDeadlock`), a bound on the steps (`EveryProcessStepCounts`), the process ends, the promise (`ProcessKeepsPromise`), `IInv` |
| `squash_deleted`, `squash_removed`, `squash_overwrite`, `rebase_top`, `rebase_ambiguous`, `workflow_output`, `workflow_kept` | smallest that show it | section 4 |

Why these bounds. The three depths of `squash_aufs` are those that the code tells
apart: the path of a whiteout, a path between, and one below. Two versions of a
file make a change visible; they are alike, hence the symmetry. Four archives
allow a path to be listed, deleted, added and deleted again; no property names
more steps than that, and the proofs remove the bound. Five images make the loop
over layers run zero to three times. `MaxHistory` stops the walk along cyclic
parents, where the code would not stop; it exceeds the number of images, so no
acyclic history meets it. One shared tarball is enough, since what
happens to one does not touch another, and `b` can stand anywhere in a history.
Three units are the least with a line
before, between and after: Docker's first, a process's, Docker's last; and one of
padding is enough for a Write that nobody reads.

Deadlock is not checked where a run of the program simply ends. `Workflow` has
the invariant `NoDeadlock` in its place: while the process runs, `main`, the
goroutine or the daemon has a step. It is written with what each waits for and
not with `ENABLED`, so that it can be proved; the device, which always has a step,
is not counted.

`EveryStepCounts` of `Rebase` and `EveryProcessStepCounts` of `Workflow` are the
part of an end that is about steps: a number, set by the images or by the lengths
of the outputs, gets smaller with every step. With it, what is left of `RunEnds` and `ProcessEnds` is
that someone who can take a step takes it.

**Fairness.** `Rebase`: weak fairness of the run's own steps, since it is one
goroutine and its archive is taken to end; of other runs nothing is assumed.
`Workflow`: weak fairness of `main`, of the goroutine and of the daemon
separately, since Go's scheduler runs the first two and a request is taken to be
answered one way or the other. The device has none. `RunEnds`, `WalkEnds` and
`EveryStepCounts` assume acyclic parents; the code does not end on cyclic ones,
which these properties therefore say nothing of (section 6).

## 4. Where code and documentation disagree

| Run | The repository says | The code does |
|---|---|---|
| `squash_deleted` | deletions of base files are in the image (`kitchen-sink.feature:47`, fixture `Dockerfile:4`) | a file that one layer changes and a later one deletes comes back: the key goes, no whiteout is recorded (`layer.go:104-107`) |
| `squash_removed` | what was added and removed is not added (`kitchen-sink.feature:53`) | contents of a removed directory stay if the directory itself was never listed (`layer.go:91-94`) |
| `squash_overwrite` | "addition / overwrite" (`layer.go:72`) | a file replacing a directory leaves the keys below it; Docker refuses the saved layer (`loads` in `Repack`) |
| `rebase_top` | the last RUN's files are added (`kitchen-sink.feature:56`) | the loop ends at `i > 0`: the image's own layer is never applied (`graph.go:150`); the fixture's last instruction has an empty layer |
| `rebase_ambiguous` | "ambiguous prefix" (`graph.go:102`) | the error is never made |
| `workflow_output` | the file contains an image (`kitchen-sink.feature:33`) | errors of the layer's copy and of every `Close` are dropped |
| `workflow_kept` | a temporary directory, kept only with `-workdir` (`main.go:137`, `:100`) | `workdir, err :=` shadows; the graph works in the shared temporary directory and stays there |

`OnlyBaseContentReturns` and `DeletionsKept` bound the first: only content of the
base can return, and only below a path both listed and deleted. `Steady` bounds
the third: only at or below a path that changed between directory and file can
more than that be wrong, and only with such a path does Docker refuse the saved
layer. `NothingLeaks`, `ParentsListed`, `OnlyBaseContentReturns`, `SavedUnpacks`
and `RebasedImage` are of archives that list the directories above their entries;
`squash_removed` shows why.

`LayersFromArchive` bounds what a shared directory can do. A layer that the
archive brings is read whole and as it was brought, whatever earlier runs left
under its name and wherever they were killed. Something else takes its place
only if the archive was cut before it, or if another run had the file open for
writing since this one created it, against which the code does nothing.

## 5. Proofs

All for every value of the constants, from the named assumptions in the modules
(the tree order on `Beneath`, directories are entries, an ID is a prefix of
itself, the IDs of an archive are finite in number, an output has at least two
units).

* **SquashProofs**: `IInv` is inductive, and implies the invariants of
  `squash_aufs`. `NothingLost` alone is not inductive: it speaks of `Unpacked`,
  in which a whiteout or a file above a path hides it. `ListedOrBase` says it key
  by key (what exists is listed as it is, or comes from the base),
  `WhiteoutsAreGone` and the well-formedness of `rootfs` show nothing above an
  existing path hides it, and `SeenIsListed` carries the parents an archive has
  just listed. One lemma per branch of `Apply`.
* **RepackProofs**: `SavedSoFar` says that what Docker has after some keys is
  `UnpackedBy` of those keys alone at every steady path (above which all is
  steady, `SteadyAbove`), and needs `WrittenInOrder`, that no key is written
  before those of the directories above it. When none is left it is
  `SavedUnpacks`: the reading of a squashed layer that `Unpacked` gives, and that
  the properties of `Squash` are about, is that of the archive `Save` writes.
  With `OnlyBaseContentReturns` of `Squash` this gives `RebasedImage`, the purpose
  of the program in a formula: if no path changed between directory and file the
  archive is taken, and what is taken unpacks to the image, but for content of
  the base below what was both listed and deleted, and for what the layers
  removed at or below a path that did change (`LoadedIsWhole` has the rest).
  `LoadedLosesNothing` is about any driver, where a file may lie above a listed
  path, the unpacked tree differs from `UnpackedBy`, and Docker may refuse a key.
  `LoadedSoFar` follows it key by key: what has no key, or whose key is written,
  is as the layers left it. Another key keeps this so: a whiteout is never above
  a path that exists, and an entry above one is a directory that Docker merges
  into the directory there, which `WellFormed(out)` says it is.
* **RebaseProofs**: the history is a chain of parents from the image;
  `AppliedFollowsHistory` ties `i`, the place where the base was found and the
  layers applied, from which ranges, order and the absence of gaps follow.
  `BaseNotRepeated` follows because an ancestor of the base that was also above
  it in the history would make the history endless: take the last place of such
  an image, its parent is in the history once more. `LayersKnown` accounts for
  every tarball whatever other runs do: while the run goes on, the one it is
  writing is the only part, and what is foreign has an explanation
  (`ForeignIsExplained`) that other runs can only strengthen and that only a new
  creation of the file takes away. The same invariant shows that a step of
  `Rebase` is one of `RebasePromise` or a stutter, so the refinement is proved and
  not only checked.
* **RebaseEndProofs**: `HistoryIsLoaded` puts the history inside the images, a
  finite set. In a chain of parents without a cycle no place is taken twice, so
  the places map one to one to images and the walk ends at their number
  (`WalkEnds`). `StepsLeft` counts what can still be read, written, walked, skipped and
  applied, at most six steps per image and five more (`EveryStepCounts`).
* **WorkflowProofs**: `PipeIsExact` counts units written, read and in the pipe
  and says that the pipe is closed only by a command that has returned without
  an error; `CommandIsExact` that such a command has passed on all of a response
  that ended, and a build or inspect a whole one; hence no reader goes on from
  part of an output. `NamesFollowLines` follows the two names line by line.
  `FileFollowsSteps` follows the file through the parts up to the tar writer's
  first error.
* **WorkflowEndProofs**: `NoDeadlock`. A goroutine that writes has a unit in the
  pipe, which `main` can read; one that has ended has closed the pipe, which
  `main` sees; one that runs has a request to make, a unit to pass on, or a
  response that is over and that it can act on, since only a build's response can
  end with an error in it and only an archive's short (`CommandIsExact`).
  Otherwise the daemon owes an answer. `EveryProcessStepCounts`: `CommandLeft` is what
  the request, the response and the pipe can still do, `CommandsLeft` and
  `MainLeft` what comes after it; a lemma for the steps of a command, one for the
  stages of `main`, one for `Save`.
* **WorkflowPromiseProofs**: `ProcessKeepsPromise`, the refinement. A stage that goes on
  has an input that ended, by `EOFIsEnd`; an input that has ended stays so
  (`InputStaysEnded`), since no unit is in the pipe past it; a command's usage
  ends the process only in the stage of that command (`CommandFits`).

Every invariant and every action property that a run checks is proved, and both
refinements. Only model-checked are the liveness properties `RunEnds` and
`ProcessEnds`: fairness is beyond the prover, and the bounds on the steps and
`NoDeadlock` are proved of what lies beneath them. The statements that the code
does not keep (section 4) are refuted by TLC's counterexamples.

## 6. Not modelled

* Hard links. Their targets would matter to the order in which keys are saved,
  and to what a dropped key takes with it; the archive writer in Docker's library
  (`addTarFile`) writes every name as a file of its own.
* Names that are not clean (`./etc`), the root directory's own entry, header
  fields, ownership, times, special files, `Layer.Size` (a sum of header sizes
  that changes nothing).
* JSON fields besides `id` and `parent`; `Clone` keeps them.
* `-` for standard input and output, whose bytes no step reads back, and `-help`.
* Which image a name or tag denotes to the daemon, and whether it is a
  container's: `inspect` may resolve a name differently from the build before it.
  A base outside the history is refused, which `Rebase` has.
* The text of an error that the daemon appends to an archive of which part is
  out: it is part of the output that ends short.
* `DockerHost.Set` (its value receiver makes it lose the address, so `DOCKER_HOST`
  and `-docker-host` are without effect; a single assignment), flag plumbing, and
  the helpers without callers (`jsonPP`, `Counter`, `ensure`).
* A history that is a cycle, as an image rebased onto itself has when it is loaded
  again: `History` then goes on for ever. The cycles are among the parentages of
  `rebase_any`, up to `MaxHistory`, but no statement of the repository says what
  should become of them, and no property does.
* A failure of the deferred `tw.Close` of `Layer.Save`. It is assumed to be
  harmless: it writes padding and the trailer, and a tar reader ends at the end of
  the file too.
* A cut tarball of a shared directory is followed to `reads`, not into what
  `Squash` makes of its entries: any prefix of an archive is a shorter archive
  there.
* The rest of Docker's library, which is most of the source tree: storage drivers
  (devicemapper and others), the registry client, cgroups, the other commands and
  handlers. docker-rebase runs none of it. What it does run of the library, the
  image history, the three commands with their flags and streams, and what stands
  on the other side, the handlers that answer, the archives that drivers write
  and `ApplyLayer`, is in the modules above.

## 7. Plan

1. Standard output as a stream that the lines of a build and `-save -` share.
2. The drivers' listing of changes (`archive/changes.go`) as an algorithm on two
   trees, with `Addable` and `Deletable` of `Squash` shown to be what it writes.
3. `Rebase` inside `Workflow`, so that the images read and the units of the pipe
   are the same thing.
