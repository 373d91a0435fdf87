------------------------------ MODULE Workflow ------------------------------
(***************************************************************************)
(* main() of main.go with the goroutines of its Docker commands (DockerCli)*)
(* and the writing of its result (Output): build the image, resolve the two*)
(* names, make a working directory, load the graph, rebase, save.          *)
(*                                                                         *)
(* The process is over as soon as either side calls os.Exit or log.Fatalln *)
(* or main returns; exit is its status, and the deferred removal of the    *)
(* working directory happens on a return only.                             *)
(***************************************************************************)
EXTENDS DockerCli, Output

VARIABLES
  build,      \* -build
  fromFile,   \* -load or -zload
  keep,       \* -workdir names a directory
  toFile,     \* -save or -zsave
  pc,         \* where main is
  exit,       \* "none" while the process runs, else its exit status
  tempdir,    \* the directory of ioutil.TempDir: "none", "made" or "removed"
  holds,      \* the directories that hold files of the graph
  baseLine,   \* who printed the line of the build that base_id is from
  imageLine,  \* who printed the line of the build that image_id is from
  cutShort    \* history: an output was taken for whole and was not

names == <<baseLine, imageLine>>
mainVars == <<build, fromFile, keep, toFile, pc, exit, tempdir, holds, names, cutShort>>
vars == <<dockerVars, outputVars, mainVars>>

Directories == {"given", "temporary", "shared"}

\* A line of a build is Docker's own or from a process that a RUN started.
Printers == {"none", "docker", "process"}

TypeOK ==
  /\ PipeTypeOK /\ DaemonTypeOK /\ OutputTypeOK
  /\ build \in BOOLEAN /\ fromFile \in BOOLEAN /\ keep \in BOOLEAN /\ toFile \in BOOLEAN
  /\ cutShort \in BOOLEAN
  /\ pc \in {"flags", "build", "base", "image", "workdir", "load", "rebase", "save"}
  /\ exit \in {"none", "0", "1", "2"}
  /\ tempdir \in {"none", "made", "removed"}
  /\ holds \subseteq Directories
  /\ baseLine \in Printers /\ imageLine \in Printers

Init ==
  /\ NoCommand /\ NoOutput
  /\ build \in BOOLEAN /\ fromFile \in BOOLEAN /\ keep \in BOOLEAN /\ toFile \in BOOLEAN
  /\ pc = "flags"
  /\ exit = "none"
  /\ tempdir = "none"
  /\ holds = {}
  /\ baseLine = "none" /\ imageLine = "none"
  /\ cutShort = FALSE

Running == exit = "none"

At(label) == Running /\ pc = label

\* log.Fatalln, usageln: main is where it was, nothing deferred runs.
Fatal == exit' = "1" /\ UNCHANGED pc

Goto(label) == pc' = label /\ UNCHANGED exit

-----------------------------------------------------------------------------
(* The goroutine of a Docker command. *)

RunCli ==
  /\ Running /\ CommandStep
  /\ UNCHANGED <<outputVars, mainVars>>

\* log.Fatalln("Docker CLI", ...)
CliFatal ==
  /\ Running /\ cli = "failed"
  /\ Fatal
  /\ UNCHANGED <<dockerVars, outputVars, build, fromFile, keep, toFile, tempdir, holds, names, cutShort>>

\* A command's usage text, and the end of the process.
CliUsage ==
  /\ Running /\ BadArguments
  /\ exit' = "2"
  /\ UNCHANGED <<dockerVars, outputVars, build, fromFile, keep, toFile, pc, tempdir, holds, names, cutShort>>

DaemonRuns ==
  /\ Running /\ DaemonStep
  /\ UNCHANGED <<outputVars, mainVars>>

-----------------------------------------------------------------------------
(* main, up to the working directory. *)

\* The checks of flag combinations and of the number of names, which refuse more
\* than is told apart here, then on to the first Docker command, if any.
CheckFlags ==
  /\ At("flags")
  /\ \/ Fatal /\ UNCHANGED dockerVars
     \/ build /\ ~fromFile /\ Goto("build") /\ StartCommand("build")
     \/ ~build /\ fromFile /\ Goto("workdir") /\ UNCHANGED dockerVars
     \/ ~build /\ ~fromFile /\ Goto("base") /\ StartCommand("inspect")
  /\ UNCHANGED <<outputVars, build, fromFile, keep, toFile, tempdir, holds, names, cutShort>>

\* What the nth line of a build can be taken for: Docker prints its first
\* instruction first and the image it built last; in between come further
\* instructions and whatever the processes of the build print.
Matches(n) ==
  IF n = 1 THEN {<<"base", "docker">>}
  ELSE IF n = Whole THEN {<<"image", "docker">>}
  ELSE {<<"neither", "docker">>} \cup ({"base"} \X {"docker", "process"}) \cup {<<"image", "process">>}

\* Mutant: the first line that matches is kept.
ScanFirst ==
  /\ At("build") /\ ReadNext
  /\ \E m \in Matches(got + 1) :
       /\ baseLine' = IF m[1] = "base" /\ baseLine = "none" THEN m[2] ELSE baseLine
       /\ imageLine' = IF m[1] = "image" /\ imageLine = "none" THEN m[2] ELSE imageLine
  /\ UNCHANGED <<outputVars, build, fromFile, keep, toFile, pc, exit, tempdir, holds, cutShort>>

\* The loop of buildImage: the last line that matches is kept.
ScanLine ==
  /\ At("build") /\ ReadNext
  /\ \E m \in Matches(got + 1) :
       /\ baseLine' = IF m[1] = "base" THEN m[2] ELSE baseLine
       /\ imageLine' = IF m[1] = "image" THEN m[2] ELSE imageLine
  /\ UNCHANGED <<outputVars, build, fromFile, keep, toFile, pc, exit, tempdir, holds, cutShort>>

\* ioutil.ReadAll in getId.
ReadOutput ==
  /\ Running /\ pc \in {"base", "image"}
  /\ ReadNext
  /\ UNCHANGED <<outputVars, mainVars>>

\* bufio.Scanner gives up on a line that is too long.
LineTooLong ==
  /\ At("build") /\ inflight
  /\ Fatal
  /\ UNCHANGED <<dockerVars, outputVars, build, fromFile, keep, toFile, tempdir, holds, names, cutShort>>

\* The end of the output: the command is taken to have said everything.
EndOfOutput ==
  /\ Running /\ pc \in {"build", "base", "image"}
  /\ AtEOF
  /\ cutShort' = (cutShort \/ got < Whole)
  /\ \/ pc = "build" /\ Goto("base") /\ StartCommand("inspect")
     \/ pc = "base" /\ Goto("image") /\ StartCommand("inspect")
     \/ pc = "image" /\ Goto("workdir") /\ UNCHANGED dockerVars
  /\ UNCHANGED <<outputVars, build, fromFile, keep, toFile, tempdir, holds, names>>

\* workdir, err := ioutil.TempDir: a workdir of the block it is in.
MakeTempDir ==
  /\ At("workdir")
  /\ \/ keep /\ Goto("load") /\ UNCHANGED tempdir
     \/ ~keep /\ Goto("load") /\ tempdir' = "made"
     \/ ~keep /\ Fatal /\ UNCHANGED tempdir
  /\ IF pc' = "load" /\ ~fromFile THEN StartCommand("save") ELSE UNCHANGED dockerVars
  /\ UNCHANGED <<outputVars, build, fromFile, keep, toFile, holds, names, cutShort>>

\* NewGraph(workdir): main's own workdir, which is empty without the flag, and
\* then os.TempDir().
GraphDir == IF keep THEN "given" ELSE "shared"

-----------------------------------------------------------------------------
(* Loading. *)

\* Graph.Load reads some entries, and their layers are written to GraphDir.
LoadOutput ==
  /\ At("load") /\ ~fromFile /\ got < Whole
  /\ ReadNext
  /\ holds' = holds \cup {GraphDir}
  /\ UNCHANGED <<outputVars, build, fromFile, keep, toFile, pc, exit, tempdir, names, cutShort>>

\* The trailer, or the end of the stream where an entry could begin or in what
\* Load does not read of one: it returns nil, and CloseAfterReading closes the
\* pipe whatever comes after.
EndOfArchive ==
  /\ At("load") /\ ~fromFile
  /\ got = Whole \/ AtEOF
  /\ cutShort' = (cutShort \/ (got < Whole /\ ~(reply = "short" /\ got = sent)))
  /\ StopReading
  /\ Goto("rebase")
  /\ UNCHANGED <<outputVars, build, fromFile, keep, toFile, tempdir, holds, names>>

\* An archive, or a file, that Load cannot read.
LoadFails ==
  /\ At("load")
  /\ fromFile \/ inflight \/ AtEOF
  /\ Fatal
  /\ holds' \in {holds, holds \cup {GraphDir}}
  /\ UNCHANGED <<dockerVars, outputVars, build, fromFile, keep, toFile, tempdir, names, cutShort>>

LoadFile ==
  /\ At("load") /\ fromFile
  /\ holds' = holds \cup {GraphDir}
  /\ Goto("rebase")
  /\ UNCHANGED <<dockerVars, outputVars, build, fromFile, keep, toFile, tempdir, names, cutShort>>

-----------------------------------------------------------------------------
(* Rebasing and saving. *)

\* The files of the squashed layer are the graph's too.
Rebase ==
  /\ At("rebase")
  /\ \/ Fatal /\ holds' \in {holds, holds \cup {GraphDir}}
     \/ Goto("save") /\ holds' = holds \cup {GraphDir}
  /\ UNCHANGED <<dockerVars, outputVars, build, fromFile, keep, toFile, tempdir, names, cutShort>>

SaveImage ==
  /\ At("save") /\ toFile /\ saved = "pending"
  /\ CreateFile \/ SaveStep
  /\ UNCHANGED <<dockerVars, mainVars>>

\* Without -save and -zsave: "not implemented yet".
SaveFails ==
  /\ At("save")
  /\ ~toFile \/ saved = "error"
  /\ Fatal
  /\ UNCHANGED <<dockerVars, outputVars, build, fromFile, keep, toFile, tempdir, holds, names, cutShort>>

\* main returns: os.RemoveAll of the directory it made.
Return ==
  /\ At("save") /\ saved = "ok"
  /\ exit' = "0"
  /\ IF tempdir = "made"
       THEN tempdir' = "removed" /\ holds' = holds \ {"temporary"}
       ELSE UNCHANGED <<tempdir, holds>>
  /\ UNCHANGED <<dockerVars, outputVars, build, fromFile, keep, toFile, pc, names, cutShort>>

\* The device's free space changes under the run.
Device ==
  /\ At("save") /\ DeviceChanges
  /\ UNCHANGED <<dockerVars, mainVars>>

MainStep ==
  \/ CheckFlags \/ ScanLine \/ ReadOutput \/ LineTooLong \/ EndOfOutput
  \/ MakeTempDir
  \/ LoadOutput \/ EndOfArchive \/ LoadFails \/ LoadFile
  \/ Rebase \/ SaveImage \/ SaveFails \/ Return

GoroutineStep == RunCli \/ CliFatal \/ CliUsage

Next == MainStep \/ GoroutineStep \/ DaemonRuns \/ Device

Spec == Init /\ [][Next]_vars

\* The Go scheduler runs both goroutines, and the daemon answers.
FairSpec ==
  Spec /\ WF_vars(MainStep) /\ WF_vars(GoroutineStep) /\ WF_vars(DaemonRuns)

-----------------------------------------------------------------------------
(* What a run must be. *)

\* No step of main goes on from part of what a command has to say: a command
\* that fails ends the process before the pipe can show its reader an end.  Only
\* an archive that the daemon itself ended short is loaded as far as it goes.
NoStageEndsEarly == ~cutShort

\* After a build, image_id is from the line in which Docker names the image that
\* it built, whatever its processes print, and some line has set base_id.
BuildIsNamed ==
  build /\ pc \notin {"flags", "build"} => imageLine = "docker" /\ baseLine # "none"

\* A run that succeeds without gzip has written the headers of its image, also
\* the VERSION whose error Save drops: the tar writer's error stays and is met
\* again at the next entry.
HeadersReachFile ==
  exit = "0" /\ ~gzip => {"directory", "VERSION", "json", "layer header"} \subseteq file

\* Neither side waits for the other for ever: the process ends.
ProcessEnds == <>(exit # "none")

\* What each of the three is not waiting for.  main waits at the pipe only, for a
\* unit or its end; the goroutine for the daemon, or for main to read or close;
\* the daemon for a request.
MainCanStep ==
  \/ pc \in {"flags", "workdir", "rebase", "save"}
  \/ pc = "load" /\ (fromFile \/ got = Whole)
  \/ inflight \/ AtEOF

ReplyIsOver == reply \in {"refused", "whole", "short", "errors", "lost"}

GoroutineCanStep ==
  \/ cli = "running" /\ asked = "none"
  \/ cli = "running" /\ Relays /\ (written < sent \/ (written = sent /\ ReplyIsOver))
  \/ cli = "running" /\ cmd = "inspect" /\ reply = "whole" /\ written <= Whole
  \/ cli = "running" /\ asked \in {"containers", "images"} /\ reply \in {"refused", "lost"}
  \/ cli = "writing" /\ rclosed
  \/ cli \in {"succeeded", "failed"}

DaemonCanStep == asked # "none" /\ reply \in {"none", "sending"}

\* main, the goroutine and the daemon are never all waiting for each other.
NoDeadlock == Running => MainCanStep \/ GoroutineCanStep \/ DaemonCanStep

\* The most steps that are left of the current command, ...
RequestsLeft ==
  CASE asked = "none"       -> 2 * (Whole + Extra + 3)
    [] asked = "containers" -> Whole + Extra + 3
    [] OTHER                -> 0

ReplyLeft ==
  CASE reply = "none"    -> Whole + Extra - sent + 2
    [] reply = "sending" -> Whole + Extra - sent + 1
    [] OTHER             -> 0

CliLeft ==
  CASE cli = "running"   -> 3
    [] cli = "writing"   -> 4
    [] cli = "succeeded" -> 2
    [] cli = "failed"    -> 1
    [] OTHER             -> 0

CommandLeft == RequestsLeft + ReplyLeft + 2 * (Whole + Extra - written) + CliLeft

\* ... of a command that is yet to start, and of main.
WholeCommand == 5 * (Whole + Extra) + 12

CommandsLeft ==
  CASE pc = "flags"              -> 4 * WholeCommand
    [] pc = "build"              -> 3 * WholeCommand
    [] pc = "base"               -> 2 * WholeCommand
    [] pc \in {"image", "workdir"} -> WholeCommand
    [] OTHER                     -> 0

MainLeft ==
  CASE pc = "flags"   -> 8
    [] pc = "build"   -> 7
    [] pc = "base"    -> 6
    [] pc = "image"   -> 5
    [] pc = "workdir" -> 4
    [] pc = "load"    -> 3
    [] pc = "rebase"  -> 2
    [] pc = "save"    -> 1

OutputLeft == Len(Parts) + 1 - step + (IF saved = "pending" THEN 1 ELSE 0)

StepsLeft ==
  IF exit # "none" THEN 0 ELSE CommandsLeft + CommandLeft + MainLeft + OutputLeft

\* Whatever main, the goroutine and the daemon do, in any order, uses up one of
\* a number of steps that the lengths of the outputs set: none of them retries
\* for ever or goes back a stage.
Progress == <<dockerVars, step, gzip, broken, held, file, saved, mainVars>>

EveryProcessStepCounts ==
  [][Progress' # Progress => StepsLeft' \in Nat /\ StepsLeft' < StepsLeft]_vars

\* A file that was created is the result of an archive that was read to its
\* trailer, or to where the daemon ended it, whatever comes after the trailer:
\* never of one that a lost connection or a failed command cut.
OutputMeansEndedInput ==
  saved # "pending" /\ ~fromFile => got = Whole \/ (reply = "short" /\ got = sent)

-----------------------------------------------------------------------------
(* The promise. *)

\* What a command has to say was read, or what it can: the archive may be one that
\* the daemon ended short.
InputEnded ==
  CASE pc \in {"build", "base", "image"} -> got = Whole
    [] pc = "load" /\ ~fromFile -> got = Whole \/ (reply = "short" /\ got = sent)
    [] OTHER -> TRUE

OutputSeen ==
  CASE saved = "ok" -> "closed"
    [] saved # "ok" /\ step > 0 -> "begun"
    [] OTHER -> "none"

Promise ==
  INSTANCE WorkflowPromise WITH stage <- pc, ended <- InputEnded, output <- OutputSeen

\* For all its goroutines, pipes and a daemon that fails as it likes, a run goes
\* from stage to stage, each on an input that has ended, and succeeds past all.
ProcessKeepsPromise == Promise!Spec

-----------------------------------------------------------------------------
(* The inductive invariant. *)

\* What was written was read or waits, until a Write is refused; the pipe is
\* closed only by a command that returned without an error.
PipeIsExact ==
  /\ cmd = "none" <=> cli = "idle"
  /\ inflight <=> cli = "writing"
  /\ cli # "failed" => written = got + (IF inflight THEN 1 ELSE 0)
  /\ wclosed <=> cli = "ended"

\* A command has written no more than has arrived, or than it prints of a whole
\* body; it succeeds with all of a response that ended, and a build or inspect
\* only with a whole one.
CommandIsExact ==
  /\ asked = "none" => NothingAsked
  /\ sent <= Limit
  /\ Relays => written <= sent
  /\ cmd = "inspect" => written <= Whole /\ (written > 0 => reply = "whole")
  /\ reply = "whole" => sent >= Whole
  /\ reply = "short" => sent < Whole /\ cmd = "save"
  /\ asked = "get" => cmd = "save"
  /\ asked = "build" => cmd = "build"
  /\ reply = "errors" => asked = "build"
  /\ asked \in {"containers", "images"} => cmd = "inspect"
  /\ cli \in {"succeeded", "ended"} =>
       /\ reply \in {"whole", "short"}
       /\ IF Relays THEN written = sent ELSE written = Whole

\* Each stage reads its own command, and is over after it but for the archive's;
\* and Load stops at the trailer.
CommandFits ==
  /\ pc = "build" => cmd = "build"
  /\ pc \in {"base", "image"} => cmd = "inspect"
  /\ pc = "load" /\ ~fromFile => cmd = "save" /\ got <= Whole
  /\ cmd \in {"build", "inspect"} /\ cli # "ended" => pc \in {"build", "base", "image"}

LoadedToItsEnd ==
  /\ pc \in {"rebase", "save"} /\ ~fromFile => got = Whole \/ (reply = "short" /\ got = sent)
  /\ saved # "pending" => pc = "save"

\* The first line of a build sets base_id, and the last one image_id.
NamesFollowLines ==
  /\ pc = "build" => (got > 0 => baseLine # "none") /\ (got = Whole => imageLine = "docker")
  /\ BuildIsNamed

\* Without gzip what Save has passed is in the file, up to the first error; and
\* past an error Save gets only from the VERSION or from the layer on.
Headers == {"directory", "VERSION", "json", "layer header"}

FileFollowsSteps ==
  ~gzip =>
    /\ held = {}
    /\ ~broken => \A k \in 1 .. Len(Parts) : k < step => Parts[k] \in file
    /\ broken /\ saved # "error" => step = 3 \/ (step >= 6 /\ Headers \subseteq file)
    /\ saved = "ok" => step = Len(Parts) + 1

ZeroMeansSaved == exit = "0" => saved = "ok"

IInv ==
  /\ TypeOK
  /\ NoStageEndsEarly
  /\ PipeIsExact
  /\ CommandIsExact
  /\ CommandFits
  /\ LoadedToItsEnd
  /\ NamesFollowLines
  /\ FileFollowsSteps
  /\ ZeroMeansSaved

-----------------------------------------------------------------------------
(* What the repository says and the code does not do. *)

\* "Then file ... should contain an image" (kitchen-sink.feature:33): a run that
\* succeeds has written all of it.
OutputIsWhole == exit = "0" => file = PartNames

\* "Create graph with workspace in a temporary directory" (main.go:137), "Use
\* given working directory and keep it when finished" (main.go:100): nothing is
\* kept of a run that was given no directory and succeeded.
NothingIsKept == exit = "0" /\ ~keep => holds = {}
=============================================================================
