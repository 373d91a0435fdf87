--------------------------- MODULE WorkflowProofs ---------------------------
(***************************************************************************)
(* Proofs about Workflow for outputs of any length and any padding after   *)
(* the archive.                                                            *)
(***************************************************************************)
EXTENDS Workflow, TLAPS

-----------------------------------------------------------------------------
(* Facts about the pieces. *)

LEMMA NumberOfParts == Len(Parts) = 6
BY DEF Parts

LEMMA PartIs ==
  /\ Parts[1] = "directory" /\ Parts[2] = "VERSION" /\ Parts[3] = "json"
  /\ Parts[4] = "layer header" /\ Parts[5] = "layer" /\ Parts[6] = "trailer"
BY DEF Parts

LEMMA PartIsNamed == \A k \in 1 .. 6 : Parts[k] \in PartNames
BY NumberOfParts DEF PartNames

\* Save looks at the error of the first, the third and the fourth part.
LEMMA WhatIsChecked == \A k \in 1 .. 6 : Parts[k] \in Checked <=> k \in {1, 3, 4}
<1> SUFFICES ASSUME NEW k \in 1 .. 6
             PROVE  Parts[k] \in Checked <=> k \in {1, 3, 4}
  OBVIOUS
<1>1. k = 1 \/ k = 2 \/ k = 3 \/ k = 4 \/ k = 5 \/ k = 6
  OBVIOUS
<1>2. QED
  BY <1>1, PartIs DEF Checked

\* Where the first four parts were passed without an error, the headers are there.
LEMMA HeadersByStep ==
  ASSUME \A k \in 1 .. Len(Parts) : k < step => Parts[k] \in file, step \in Nat, step >= 5
  PROVE  Headers \subseteq file
<1>1. \A k \in {1, 2, 3, 4} : k \in 1 .. Len(Parts) /\ k < step
  BY NumberOfParts
<1>2. Parts[1] \in file /\ Parts[2] \in file /\ Parts[3] \in file /\ Parts[4] \in file
  BY <1>1
<1>3. QED
  BY <1>2, PartIs DEF Headers

LEMMA InitIInv == Init => IInv
<1> SUFFICES ASSUME Init PROVE IInv
  OBVIOUS
<1> USE DEF Init, NoCommand, NoPipe, NothingAsked, NoOutput
<1>1. TypeOK
  <2>1. 0 \in 0 .. Whole + Extra
    BY PipeAssumption
  <2>2. PipeTypeOK /\ DaemonTypeOK
    BY <2>1 DEF PipeTypeOK, DaemonTypeOK, Commands
  <2>3. OutputTypeOK
    <3>1. 0 \in 0 .. Len(Parts) + 1
      BY NumberOfParts
    <3>2. QED
      BY <3>1 DEF OutputTypeOK
  <2>4. QED
    BY <2>2, <2>3 DEF TypeOK, Printers
<1>2. PipeIsExact /\ CommandIsExact
  BY PipeAssumption DEF PipeIsExact, CommandIsExact, Relays, Limit
<1>3. NoStageEndsEarly /\ CommandFits /\ LoadedToItsEnd /\ NamesFollowLines /\ ZeroMeansSaved
  BY PipeAssumption DEF NoStageEndsEarly, CommandFits, LoadedToItsEnd, NamesFollowLines,
                        BuildIsNamed, ZeroMeansSaved
<1>4. FileFollowsSteps
  BY NumberOfParts DEF FileFollowsSteps
<1>5. QED
  BY <1>1, <1>2, <1>3, <1>4 DEF IInv

-----------------------------------------------------------------------------
(* The command, the daemon and the pipe. *)

DockerIsExact == PipeTypeOK /\ DaemonTypeOK /\ PipeIsExact /\ CommandIsExact

\* A Write counts one unit more, which waits or was refused.
LEMMA WriteKeepsExact ==
  ASSUME DockerIsExact, Write, UNCHANGED daemonVars, written < Whole + Extra,
         Relays => written < sent,
         ~Relays => written < Whole /\ (cmd = "inspect" => reply = "whole")
  PROVE  DockerIsExact' /\ got' = got
<1> USE PipeAssumption DEF DockerIsExact
<1>1. /\ cli = "running" /\ written' = written + 1
      /\ cli' \in {"writing", "failed"} /\ inflight' \in BOOLEAN
      /\ UNCHANGED <<cmd, wclosed, rclosed, got, asked, reply, sent>>
  BY DEF Write, daemonVars, PipeIsExact, PipeTypeOK
<1>2. PipeTypeOK' /\ DaemonTypeOK'
  <2>1. written' \in 0 .. Whole + Extra
    BY <1>1 DEF PipeTypeOK
  <2>2. QED
    BY <1>1, <2>1 DEF PipeTypeOK, DaemonTypeOK
<1>3. PipeIsExact'
  BY <1>1 DEF Write, PipeIsExact, PipeTypeOK
<1>4. CommandIsExact'
  BY <1>1 DEF CommandIsExact, NothingAsked, Relays, Limit, PipeTypeOK, DaemonTypeOK
<1>5. QED
  BY <1>1, <1>2, <1>3, <1>4

LEMMA CommandKeepsExact ==
  ASSUME DockerIsExact, CommandStep
  PROVE  /\ DockerIsExact'
         /\ UNCHANGED <<cmd, got>> /\ cli # "ended"
         /\ reply = "short" => UNCHANGED <<reply, sent>>
<1> USE PipeAssumption
<1>1. CASE Relay \/ PrintObject
  <2>1. Write /\ UNCHANGED daemonVars
    BY <1>1 DEF Relay, PrintObject
  <2>2. Relays => written < sent
    BY <1>1 DEF Relay, PrintObject, Relays
  <2>3. ~Relays => written < Whole /\ (cmd = "inspect" => reply = "whole")
    BY <1>1 DEF Relay, PrintObject, Relays
  <2>4. written < Whole + Extra
    BY <1>1, <2>2, <2>3 DEF DockerIsExact, PipeTypeOK, DaemonTypeOK
  <2>5. QED
    BY <2>1, <2>2, <2>3, <2>4, WriteKeepsExact DEF Write, daemonVars
<1>2. CASE Ask
  <2>1. /\ cli = "running" /\ asked = "none" /\ UNCHANGED <<pipeVars, reply, sent>>
        /\ asked' = FirstRequest(cmd)
    BY <1>2 DEF Ask
  <2>2. cmd \in {"build", "inspect", "save"}
    BY <2>1 DEF DockerIsExact, PipeTypeOK, PipeIsExact, Commands
  <2>3. /\ asked' \in {"build", "containers", "get"}
        /\ asked' = "get" => cmd = "save"
        /\ asked' = "build" => cmd = "build"
        /\ asked' = "containers" => cmd = "inspect"
    BY <2>1, <2>2 DEF FirstRequest
  <2>4. reply = "none" /\ sent = 0
    BY <2>1 DEF DockerIsExact, CommandIsExact, NothingAsked
  <2>5. UNCHANGED <<cmd, cli, written, inflight, wclosed, rclosed, got>>
    BY <2>1 DEF pipeVars
  <2>6. PipeTypeOK' /\ DaemonTypeOK' /\ PipeIsExact'
    BY <2>1, <2>3, <2>5 DEF DockerIsExact, PipeTypeOK, DaemonTypeOK, PipeIsExact
  <2>7. CommandIsExact'
    BY <2>1, <2>3, <2>4, <2>5 DEF DockerIsExact, PipeTypeOK, CommandIsExact, Relays, Limit
  <2>8. QED
    BY <2>1, <2>4, <2>5, <2>6, <2>7 DEF DockerIsExact
<1>3. CASE AskForImage
  <2>1. /\ cli = "running" /\ asked = "containers" /\ reply # "short"
        /\ asked' = "images" /\ reply' = "none" /\ sent' = 0 /\ UNCHANGED pipeVars
    BY <1>3 DEF AskForImage
  <2>2. /\ cmd = "inspect" /\ written = 0
        /\ UNCHANGED <<cmd, cli, written, inflight, wclosed, rclosed, got>>
    <3>1. cmd = "inspect" /\ reply # "whole"
      BY <1>3 DEF AskForImage, DockerIsExact, CommandIsExact
    <3>2. written = 0
      BY <3>1 DEF DockerIsExact, PipeTypeOK, CommandIsExact
    <3>3. QED
      BY <2>1, <3>1, <3>2 DEF pipeVars
  <2>3. PipeTypeOK' /\ PipeIsExact'
    BY <2>2 DEF DockerIsExact, PipeTypeOK, PipeIsExact
  <2>4. DaemonTypeOK' /\ CommandIsExact'
    BY <2>1, <2>2 DEF DockerIsExact, DaemonTypeOK, CommandIsExact, NothingAsked, Relays, Limit
  <2>5. QED
    BY <2>1, <2>2, <2>3, <2>4 DEF DockerIsExact
<1>4. CASE Succeed \/ FailWithError
  <2>1. /\ cli = "running" /\ cli' \in {"succeeded", "failed"}
        /\ cli' = "succeeded" =>
             /\ reply \in {"whole", "short"}
             /\ IF Relays THEN written = sent ELSE written = Whole
        /\ UNCHANGED <<cmd, written, inflight, wclosed, rclosed, got, asked, reply, sent>>
    BY <1>4 DEF Succeed, FailWithError, NoContext, StreamFails, InspectFails, CmdReturns, daemonVars, Relays
  <2>2. QED
    BY <2>1 DEF DockerIsExact, PipeTypeOK, DaemonTypeOK, PipeIsExact, CommandIsExact,
                NothingAsked, Relays, Limit
<1>5. CASE WriteRefused /\ UNCHANGED daemonVars
  BY <1>5 DEF WriteRefused, daemonVars, DockerIsExact, PipeTypeOK, DaemonTypeOK, PipeIsExact,
              CommandIsExact, NothingAsked, Relays, Limit
<1>6. CASE CloseWriter /\ UNCHANGED daemonVars
  BY <1>6 DEF CloseWriter, daemonVars, DockerIsExact, PipeTypeOK, DaemonTypeOK, PipeIsExact,
              CommandIsExact, NothingAsked, Relays, Limit
<1>7. QED
  BY <1>1, <1>2, <1>3, <1>4, <1>5, <1>6 DEF CommandStep

LEMMA DaemonKeepsExact ==
  ASSUME DockerIsExact, DaemonStep
  PROVE  /\ DockerIsExact'
         /\ UNCHANGED <<cmd, got>> /\ cli # "ended"
         /\ reply = "short" => UNCHANGED <<reply, sent>>
<1> USE PipeAssumption DEF DockerIsExact
<1>1. UNCHANGED <<pipeVars, asked>> /\ asked # "none" /\ reply \in {"none", "sending"}
  BY DEF DaemonStep, Refuse, Answer, Send, EndBody, ArchiveEndsShort, BuildSaysError, CommandIsExact, NothingAsked
<1>2. cli \notin {"succeeded", "ended"}
  BY <1>1 DEF CommandIsExact
<1>3. UNCHANGED <<cmd, cli, written, inflight, wclosed, rclosed, got>>
  BY <1>1 DEF pipeVars
<1>4. PipeTypeOK' /\ PipeIsExact'
  BY <1>3 DEF PipeTypeOK, PipeIsExact
<1>5. DaemonTypeOK' /\ CommandIsExact'
  <2>1. CASE Refuse \/ Answer
    BY <1>1, <1>2, <1>3, <2>1 DEF Refuse, Answer, DaemonTypeOK, CommandIsExact, NothingAsked, Relays, Limit
  <2>2. CASE Send
    <3>1. sent' = sent + 1 /\ sent < Limit /\ reply = "sending" /\ reply' = reply
      BY <2>2 DEF Send
    <3>2. sent' \in 0 .. Whole + Extra /\ sent' <= Limit
      BY <3>1 DEF DaemonTypeOK, Limit
    <3>3. QED
      BY <1>1, <1>2, <1>3, <3>1, <3>2 DEF PipeTypeOK, DaemonTypeOK, CommandIsExact, NothingAsked, Relays, Limit
  <2>3. CASE EndBody
    BY <1>1, <1>2, <1>3, <2>3 DEF EndBody, ArchiveEndsShort, BuildSaysError, DaemonTypeOK, CommandIsExact, NothingAsked, Relays, Limit
  <2>4. QED
    BY <2>1, <2>2, <2>3 DEF DaemonStep
<1>6. QED
  BY <1>1, <1>2, <1>3, <1>4, <1>5

\* A read, a new command and the closing of the reading end.
LEMMA ReaderKeepsExact ==
  ASSUME DockerIsExact,
         \/ ReadNext
         \/ \E c \in {"build", "inspect", "save"} : StartCommand(c)
         \/ StopReading
         \/ UNCHANGED dockerVars
  PROVE  DockerIsExact'
<1> USE PipeAssumption DEF DockerIsExact
<1>1. CASE ReadNext
  <2>1. /\ inflight /\ inflight' = FALSE /\ cli' = "running" /\ got' = got + 1
        /\ UNCHANGED <<cmd, written, wclosed, rclosed, asked, reply, sent>>
    BY <1>1 DEF ReadNext, ReadUnit, daemonVars
  <2>2. PipeTypeOK'
    <3>1. got' \in 0 .. Whole + Extra
      BY <2>1 DEF PipeTypeOK, PipeIsExact
    <3>2. QED
      BY <2>1, <3>1 DEF PipeTypeOK
  <2>3. DaemonTypeOK' /\ CommandIsExact'
    BY <2>1 DEF DaemonTypeOK, CommandIsExact, NothingAsked, Relays, Limit
  <2>4. PipeIsExact'
    BY <2>1 DEF PipeIsExact, PipeTypeOK
  <2>5. QED
    BY <2>2, <2>3, <2>4
<1>2. CASE \E c \in {"build", "inspect", "save"} : StartCommand(c)
  <2>1. PICK c \in {"build", "inspect", "save"} : StartCommand(c)
    BY <1>2
  <2>2. 0 \in 0 .. Whole + Extra
    OBVIOUS
  <2>3. PipeTypeOK' /\ DaemonTypeOK'
    BY <2>1, <2>2 DEF StartCommand, ReadPipe, PipeTypeOK, DaemonTypeOK, Commands
  <2>4. PipeIsExact' /\ CommandIsExact'
    BY <2>1 DEF StartCommand, ReadPipe, PipeIsExact, CommandIsExact, NothingAsked, Relays, Limit
  <2>5. QED
    BY <2>3, <2>4
<1>3. CASE StopReading
  BY <1>3 DEF StopReading, CloseReader, daemonVars, PipeTypeOK, DaemonTypeOK, PipeIsExact,
              CommandIsExact, NothingAsked, Relays, Limit
<1>4. CASE UNCHANGED dockerVars
  BY <1>4 DEF dockerVars, pipeVars, daemonVars, PipeTypeOK, DaemonTypeOK, PipeIsExact,
              CommandIsExact, NothingAsked, Relays, Limit
<1>5. QED
  BY <1>1, <1>2, <1>3, <1>4

\* Where the pipe shows an end, everything was read that the daemon sent, and of a
\* build and of inspect that is the whole.
LEMMA EOFIsEnd ==
  ASSUME DockerIsExact, AtEOF
  PROVE  /\ cmd \in {"build", "inspect"} => got = Whole
         /\ cmd = "save" => got = sent /\ (reply = "short" \/ got >= Whole)
BY PipeAssumption DEF DockerIsExact, AtEOF, PipeTypeOK, DaemonTypeOK, PipeIsExact, CommandIsExact,
                      Relays, Limit

LEMMA RunningKeepsIInv ==
  ASSUME IInv, RunCli \/ DaemonRuns
  PROVE  IInv'
<1>1. DockerIsExact
  BY DEF IInv, TypeOK, DockerIsExact
<1>2. UNCHANGED <<outputVars, mainVars>> /\ (CommandStep \/ DaemonStep)
  BY DEF RunCli, DaemonRuns
<1>3. /\ DockerIsExact'
      /\ UNCHANGED <<cmd, got>> /\ cli # "ended"
      /\ reply = "short" => UNCHANGED <<reply, sent>>
  BY <1>1, <1>2, CommandKeepsExact, DaemonKeepsExact
<1>4. TypeOK'
  BY <1>2, <1>3 DEF DockerIsExact, IInv, TypeOK, OutputTypeOK, outputVars, mainVars, names
<1>5. NoStageEndsEarly' /\ CommandFits' /\ LoadedToItsEnd' /\ NamesFollowLines'
        /\ FileFollowsSteps' /\ ZeroMeansSaved'
  BY <1>2, <1>3 DEF IInv, NoStageEndsEarly, CommandFits, LoadedToItsEnd, NamesFollowLines, BuildIsNamed,
                    FileFollowsSteps, ZeroMeansSaved, outputVars, mainVars, names
<1>6. QED
  BY <1>3, <1>4, <1>5 DEF IInv, DockerIsExact

-----------------------------------------------------------------------------
(* main. *)

\* A step that ends the process, or does nothing, and leaves the rest alone.
LEMMA EndingKeepsIInv ==
  ASSUME IInv,
         CliFatal \/ CliUsage \/ LineTooLong \/ LoadFails \/ SaveFails \/ UNCHANGED vars
  PROVE  IInv'
<1>1. /\ UNCHANGED <<dockerVars, outputVars, build, fromFile, keep, toFile, pc, tempdir, names, cutShort>>
      /\ exit' \in {exit, "1", "2"}
      /\ holds' \in {holds, holds \cup {GraphDir}}
  BY DEF CliFatal, CliUsage, LineTooLong, LoadFails, SaveFails, Fatal, vars, mainVars
<1>2. DockerIsExact'
  BY <1>1, ReaderKeepsExact DEF IInv, TypeOK, DockerIsExact
<1>3. TypeOK'
  BY <1>1, <1>2 DEF IInv, TypeOK, DockerIsExact, OutputTypeOK, outputVars, names, GraphDir, Directories
<1>4. NoStageEndsEarly' /\ CommandFits' /\ LoadedToItsEnd' /\ NamesFollowLines'
        /\ FileFollowsSteps' /\ ZeroMeansSaved'
  BY <1>1 DEF IInv, NoStageEndsEarly, CommandFits, LoadedToItsEnd, NamesFollowLines, BuildIsNamed,
              FileFollowsSteps, ZeroMeansSaved, dockerVars, pipeVars, daemonVars, outputVars, names
<1>5. QED
  BY <1>2, <1>3, <1>4 DEF IInv, DockerIsExact

\* The names after one more line.
LEMMA ScanningKeepsNames ==
  ASSUME IInv, ScanLine
  PROVE  NamesFollowLines' /\ baseLine' \in Printers /\ imageLine' \in Printers
<1> USE PipeAssumption DEF IInv, TypeOK, PipeTypeOK, NamesFollowLines
<1>1. /\ pc = "build" /\ pc' = "build" /\ got' = got + 1 /\ got \in Nat
      /\ (got > 0 => baseLine # "none")
      /\ baseLine \in Printers /\ imageLine \in Printers
  BY DEF ScanLine, At, ReadNext, ReadUnit
<1>2. PICK m \in Matches(got + 1) :
        /\ baseLine' = IF m[1] = "base" THEN m[2] ELSE baseLine
        /\ imageLine' = IF m[1] = "image" THEN m[2] ELSE imageLine
  BY DEF ScanLine
<1>3. BuildIsNamed'
  BY <1>1 DEF BuildIsNamed
<1>4. CASE got = 0
  <2>1. m = <<"base", "docker">>
    BY <1>2, <1>4 DEF Matches
  <2>2. QED
    BY <1>1, <1>2, <1>3, <1>4, <2>1 DEF Printers
<1>5. CASE got > 0 /\ got + 1 = Whole
  <2>1. m = <<"image", "docker">>
    BY <1>2, <1>5 DEF Matches
  <2>2. QED
    BY <1>1, <1>2, <1>3, <1>5, <2>1 DEF Printers
<1>6. CASE got > 0 /\ got + 1 # Whole
  <2>1. m \in {<<"neither", "docker">>, <<"base", "docker">>, <<"base", "process">>, <<"image", "process">>}
    BY <1>2, <1>6 DEF Matches
  <2>2. QED
    BY <1>1, <1>2, <1>3, <1>6, <2>1 DEF Printers
<1>7. QED
  BY <1>1, <1>4, <1>5, <1>6

LEMMA ReadingKeepsIInv ==
  ASSUME IInv,
         CheckFlags \/ ScanLine \/ ReadOutput \/ EndOfOutput \/ MakeTempDir \/ LoadOutput
           \/ EndOfArchive \/ LoadFile \/ Rebase
  PROVE  IInv'
<1> DEFINE Reads == CheckFlags \/ ScanLine \/ ReadOutput \/ EndOfOutput \/ MakeTempDir
                      \/ LoadOutput \/ EndOfArchive \/ LoadFile \/ Rebase
<1> Reads
  OBVIOUS
<1>1. /\ UNCHANGED <<outputVars, build, fromFile, keep, toFile>>
      /\ exit = "none" /\ exit' \in {"none", "1"}
      /\ tempdir' \in {tempdir, "made"} /\ holds' \in {holds, holds \cup {GraphDir}}
      /\ \/ ReadNext
         \/ \E c \in {"build", "inspect", "save"} : StartCommand(c)
         \/ StopReading
         \/ UNCHANGED dockerVars
  BY DEF CheckFlags, ScanLine, ReadOutput, EndOfOutput, MakeTempDir, LoadOutput, EndOfArchive,
         LoadFile, Rebase, At, Running, Fatal, Goto, mainVars
<1>2. DockerIsExact
  BY DEF IInv, TypeOK, DockerIsExact
<1>3. DockerIsExact'
  BY <1>1, <1>2, ReaderKeepsExact
<1>4. EndOfOutput => got = Whole
  <2>1. EndOfOutput => AtEOF /\ cmd \in {"build", "inspect"}
    BY DEF EndOfOutput, IInv, CommandFits
  <2>2. QED
    BY <1>2, <2>1, EOFIsEnd
<1>5. EndOfArchive => got = Whole \/ (reply = "short" /\ got = sent)
  <2>1. EndOfArchive => cmd = "save" /\ got <= Whole /\ (got = Whole \/ AtEOF)
    BY DEF EndOfArchive, At, IInv, CommandFits
  <2>2. QED
    BY <1>2, <2>1, EOFIsEnd, PipeAssumption DEF DockerIsExact, PipeTypeOK
<1>6. NoStageEndsEarly'
  <2>1. /\ EndOfOutput => ~(got < Whole)
        /\ EndOfArchive => ~(got < Whole /\ ~(reply = "short" /\ got = sent))
    BY <1>4, <1>5, PipeAssumption
  <2>2. CASE EndOfOutput
    BY <2>1, <2>2 DEF IInv, NoStageEndsEarly, EndOfOutput
  <2>3. CASE EndOfArchive
    BY <2>1, <2>3 DEF IInv, NoStageEndsEarly, EndOfArchive
  <2>4. CASE ~EndOfOutput /\ ~EndOfArchive
    BY <2>4 DEF IInv, NoStageEndsEarly, CheckFlags, ScanLine, ReadOutput, MakeTempDir,
                LoadOutput, LoadFile, Rebase, mainVars
  <2>5. QED
    BY <2>2, <2>3, <2>4
<1>7. pc' \in {"flags", "build", "base", "image", "workdir", "load", "rebase", "save"}
  BY DEF IInv, TypeOK, CheckFlags, ScanLine, ReadOutput, EndOfOutput, MakeTempDir, LoadOutput,
         EndOfArchive, LoadFile, Rebase, At, Fatal, Goto, mainVars
<1>8. ScanLine \/ UNCHANGED names
  BY DEF CheckFlags, ReadOutput, EndOfOutput, MakeTempDir, LoadOutput, EndOfArchive, LoadFile,
         Rebase, mainVars
<1>9. TypeOK'
  <2>1. OutputTypeOK'
    BY <1>1 DEF IInv, TypeOK, OutputTypeOK, outputVars
  <2>2. cutShort' \in BOOLEAN
    <3>1. \/ cutShort' = cutShort
          \/ cutShort' = (cutShort \/ got < Whole)
          \/ cutShort' = (cutShort \/ (got < Whole /\ ~(reply = "short" /\ got = sent)))
      BY DEF CheckFlags, ScanLine, ReadOutput, EndOfOutput, MakeTempDir, LoadOutput, EndOfArchive,
             LoadFile, Rebase, mainVars
    <3>2. QED
      BY <3>1 DEF IInv, TypeOK
  <2>3. /\ build' \in BOOLEAN /\ fromFile' \in BOOLEAN /\ keep' \in BOOLEAN /\ toFile' \in BOOLEAN
        /\ exit' \in {"none", "0", "1", "2"} /\ tempdir' \in {"none", "made", "removed"}
    BY <1>1 DEF IInv, TypeOK
  <2>4. holds' \subseteq Directories
    BY <1>1 DEF IInv, TypeOK, GraphDir, Directories
  <2>5. baseLine' \in Printers /\ imageLine' \in Printers
    BY <1>8, ScanningKeepsNames DEF IInv, TypeOK, names
  <2>6. QED
    BY <1>3, <1>7, <2>1, <2>2, <2>3, <2>4, <2>5 DEF TypeOK, DockerIsExact
<1>10. CommandFits' /\ LoadedToItsEnd'
  <2> USE PipeAssumption DEF IInv, TypeOK, PipeTypeOK, OutputTypeOK, CommandFits, LoadedToItsEnd,
                             At, Fatal, Goto, outputVars, mainVars, names, dockerVars, pipeVars, daemonVars
  <2>1. CASE CheckFlags
    BY <2>1 DEF CheckFlags, StartCommand, ReadPipe
  <2>2. CASE ScanLine
    BY <2>2 DEF ScanLine, ReadNext, ReadUnit
  <2>3. CASE ReadOutput
    BY <2>3 DEF ReadOutput, ReadNext, ReadUnit
  <2>4. CASE EndOfOutput
    BY <2>4 DEF EndOfOutput, StartCommand, ReadPipe, AtEOF, PipeIsExact
  <2>5. CASE MakeTempDir
    BY <2>5 DEF MakeTempDir, StartCommand, ReadPipe
  <2>6. CASE LoadOutput
    BY <2>6 DEF LoadOutput, ReadNext, ReadUnit
  <2>7. CASE EndOfArchive
    BY <1>5, <2>7 DEF EndOfArchive, StopReading, CloseReader
  <2>8. CASE LoadFile \/ Rebase
    BY <2>8 DEF LoadFile, Rebase
  <2>9. QED
    BY <2>1, <2>2, <2>3, <2>4, <2>5, <2>6, <2>7, <2>8
<1>11. NamesFollowLines'
  <2> USE PipeAssumption DEF IInv, NamesFollowLines, BuildIsNamed, At, Fatal, Goto, names
  <2>1. CASE ScanLine
    BY <2>1, ScanningKeepsNames
  <2>2. CASE CheckFlags
    BY <2>2 DEF CheckFlags, StartCommand, ReadPipe
  <2>3. CASE EndOfOutput
    BY <1>4, <2>3 DEF EndOfOutput
  <2>4. CASE ReadOutput
    BY <2>4 DEF ReadOutput, mainVars
  <2>5. CASE MakeTempDir \/ LoadOutput \/ EndOfArchive \/ LoadFile \/ Rebase
    BY <2>5 DEF MakeTempDir, LoadOutput, EndOfArchive, LoadFile, Rebase
  <2>6. QED
    BY <2>1, <2>2, <2>3, <2>4, <2>5
<1>12. FileFollowsSteps' /\ ZeroMeansSaved'
  BY <1>1 DEF IInv, FileFollowsSteps, ZeroMeansSaved, outputVars
<1>13. QED
  BY <1>3, <1>6, <1>9, <1>10, <1>11, <1>12 DEF IInv, DockerIsExact

\* Save: a part at a time, with or without an error.
LEMMA OutputKeepsFile ==
  ASSUME OutputTypeOK, FileFollowsSteps, CreateFile \/ SaveStep \/ DeviceChanges
  PROVE  OutputTypeOK' /\ FileFollowsSteps'
<1>1. step \in 0 .. 7 /\ (Writing => step \in 1 .. 6)
  BY NumberOfParts DEF OutputTypeOK, Writing
<1>2. CASE CreateFile \/ DeviceChanges \/ NoTarball
  <2>1. /\ UNCHANGED <<gzip, broken, held, file>>
        /\ full' = full \/ full' = ~full
        /\ saved' = saved \/ saved' = "error"
        /\ step' = step \/ (step = 0 /\ step' = 1)
    <3>1. CASE CreateFile
      BY <3>1 DEF CreateFile
    <3>2. CASE DeviceChanges
      BY <3>2 DEF DeviceChanges
    <3>3. CASE NoTarball
      BY <3>3 DEF NoTarball
    <3>4. QED
      BY <1>2, <3>1, <3>2, <3>3
  <2>2. OutputTypeOK'
    <3>1. step' \in 0 .. Len(Parts) + 1
      BY <1>1, <2>1, NumberOfParts
    <3>2. full' \in BOOLEAN
      BY <2>1 DEF OutputTypeOK
    <3>3. QED
      BY <2>1, <3>1, <3>2 DEF OutputTypeOK
  <2>3. FileFollowsSteps'
    BY <1>1, <2>1, NumberOfParts DEF FileFollowsSteps
  <2>4. QED
    BY <2>2, <2>3
<1>3. CASE PartWritten
  <2>1. /\ step \in 1 .. 6 /\ step' = step + 1 /\ saved = "pending" /\ ~broken
        /\ \/ file' = file \cup held \cup {Parts[step]} /\ held' = {}
           \/ gzip /\ held' = held \cup {Parts[step]} /\ file' = file
        /\ UNCHANGED <<gzip, full, broken, saved>>
    BY <1>1, <1>3 DEF PartWritten, Writing
  <2>2. Parts[step] \in PartNames
    BY <2>1, PartIsNamed
  <2>3. step' \in 0 .. Len(Parts) + 1
    BY <2>1, NumberOfParts
  <2>4. OutputTypeOK'
    BY <2>1, <2>2, <2>3 DEF OutputTypeOK
  <2>5. ASSUME ~gzip, NEW k \in 1 .. Len(Parts), k < step'
        PROVE  Parts[k] \in file'
    <3>1. k < step \/ k = step
      BY <2>1, <2>5, NumberOfParts
    <3>2. QED
      BY <2>1, <2>5, <3>1 DEF FileFollowsSteps
  <2>6. FileFollowsSteps'
    BY <2>1, <2>5 DEF FileFollowsSteps
  <2>7. QED
    BY <2>4, <2>6
<1>4. CASE PartFails
  <2>1. /\ step \in 1 .. 6 /\ saved = "pending" /\ broken'
        /\ \/ step \in {1, 3, 4} /\ saved' = "error" /\ step' = step
           \/ step \in {2, 5, 6} /\ saved' = "pending" /\ step' = step + 1
        /\ UNCHANGED <<gzip, full, held, file>>
    BY <1>1, <1>4, WhatIsChecked DEF PartFails, Writing
  <2>2. step' \in 0 .. Len(Parts) + 1 /\ broken' = TRUE
    BY <1>4, <2>1, NumberOfParts DEF PartFails
  <2>3. OutputTypeOK'
    BY <2>1, <2>2 DEF OutputTypeOK
  <2>4. ASSUME ~gzip, saved' # "error"
        PROVE  step' = 3 \/ (step' >= 6 /\ Headers \subseteq file)
    <3>1. CASE broken
      BY <2>1, <2>4, <3>1 DEF FileFollowsSteps
    <3>2. CASE ~broken
      <4>1. step \in {2, 5, 6} /\ step' = step + 1
        BY <2>1, <2>4
      <4>2. \A k \in 1 .. Len(Parts) : k < step => Parts[k] \in file
        BY <2>4, <3>2 DEF FileFollowsSteps
      <4>3. step >= 5 => Headers \subseteq file
        BY <2>1, <4>2, HeadersByStep
      <4>4. QED
        BY <4>1, <4>3
    <3>3. QED
      BY <3>1, <3>2
  <2>5. FileFollowsSteps'
    BY <2>1, <2>2, <2>4 DEF FileFollowsSteps, Headers
  <2>6. QED
    BY <2>3, <2>5
<1>5. CASE CloseFile
  <2>1. OutputTypeOK'
    BY <1>5 DEF CloseFile, OutputTypeOK
  <2>2. FileFollowsSteps'
    BY <1>5 DEF CloseFile, FileFollowsSteps
  <2>3. QED
    BY <2>1, <2>2
<1>6. QED
  BY <1>2, <1>3, <1>4, <1>5 DEF SaveStep

LEMMA SavingKeepsIInv ==
  ASSUME IInv, SaveImage \/ Device
  PROVE  IInv'
<1>1. /\ pc = "save" /\ exit = "none" /\ UNCHANGED <<dockerVars, mainVars>>
      /\ CreateFile \/ SaveStep \/ DeviceChanges
      /\ OutputTypeOK /\ FileFollowsSteps
  BY DEF SaveImage, Device, At, Running, IInv, TypeOK
<1>2. OutputTypeOK' /\ FileFollowsSteps'
  BY <1>1, OutputKeepsFile
<1>3. DockerIsExact'
  BY <1>1, ReaderKeepsExact DEF IInv, TypeOK, DockerIsExact
<1>4. TypeOK'
  BY <1>1, <1>2, <1>3 DEF IInv, TypeOK, DockerIsExact, mainVars, names
<1>5. NoStageEndsEarly' /\ CommandFits' /\ LoadedToItsEnd' /\ NamesFollowLines' /\ ZeroMeansSaved'
  BY <1>1 DEF IInv, NoStageEndsEarly, CommandFits, LoadedToItsEnd, NamesFollowLines, BuildIsNamed,
              ZeroMeansSaved, dockerVars, pipeVars, daemonVars, mainVars, names
<1>6. QED
  BY <1>2, <1>3, <1>4, <1>5 DEF IInv, DockerIsExact

LEMMA ReturnKeepsIInv ==
  ASSUME IInv, Return
  PROVE  IInv'
<1>1. /\ saved = "ok" /\ exit' = "0"
      /\ tempdir' \in {tempdir, "removed"} /\ holds' \subseteq holds
      /\ UNCHANGED <<dockerVars, outputVars, build, fromFile, keep, toFile, pc, names, cutShort>>
  BY DEF Return
<1>2. DockerIsExact'
  BY <1>1, ReaderKeepsExact DEF IInv, TypeOK, DockerIsExact
<1>3. TypeOK'
  BY <1>1, <1>2 DEF IInv, TypeOK, DockerIsExact, OutputTypeOK, outputVars, names
<1>4. NoStageEndsEarly' /\ CommandFits' /\ LoadedToItsEnd' /\ NamesFollowLines'
        /\ FileFollowsSteps' /\ ZeroMeansSaved'
  BY <1>1 DEF IInv, NoStageEndsEarly, CommandFits, LoadedToItsEnd, NamesFollowLines, BuildIsNamed,
              FileFollowsSteps, ZeroMeansSaved, dockerVars, pipeVars, daemonVars, outputVars, names
<1>5. QED
  BY <1>2, <1>3, <1>4 DEF IInv, DockerIsExact

\* Every reachable state of the process satisfies the inductive invariant.
THEOREM WorkflowInvariant == Spec => []IInv
<1>1. IInv /\ [Next]_vars => IInv'
  BY RunningKeepsIInv, EndingKeepsIInv, ReadingKeepsIInv, SavingKeepsIInv, ReturnKeepsIInv
     DEF Next, MainStep, GoroutineStep
<1>2. QED
  BY <1>1, InitIInv, PTL DEF Spec

-----------------------------------------------------------------------------
(* What follows about a run. *)

\* The process, the pipe, the daemon's response and the output keep their types.
THEOREM WorkflowTypes == Spec => []TypeOK
BY WorkflowInvariant, PTL DEF IInv

\* main never goes on from part of what a command has to say.
THEOREM StagesEndWhole == Spec => []NoStageEndsEarly
BY WorkflowInvariant, PTL DEF IInv

\* main never creates its output for an archive that a lost connection cut.
THEOREM InputIsEnded == Spec => []OutputMeansEndedInput
<1>1. IInv => OutputMeansEndedInput
  BY DEF IInv, LoadedToItsEnd, OutputMeansEndedInput
<1>2. QED
  BY <1>1, WorkflowInvariant, PTL

\* After a build, image_id is the image that Docker says it built, and base_id is
\* set, whatever the build printed in between.
THEOREM NamesFromBuild == Spec => []BuildIsNamed
<1>1. IInv => BuildIsNamed
  BY DEF IInv, NamesFollowLines
<1>2. QED
  BY <1>1, WorkflowInvariant, PTL

\* A run that succeeds without gzip has written every header of the image.
THEOREM HeadersWritten == Spec => []HeadersReachFile
<1>1. IInv => HeadersReachFile
  <2> SUFFICES ASSUME IInv, exit = "0", ~gzip
               PROVE  Headers \subseteq file
    BY DEF HeadersReachFile, Headers
  <2>1. saved = "ok" /\ step = 7 /\ FileFollowsSteps
    BY NumberOfParts DEF IInv, ZeroMeansSaved, FileFollowsSteps
  <2>2. CASE broken
    BY <2>1, <2>2 DEF FileFollowsSteps
  <2>3. CASE ~broken
    BY <2>1, <2>3, HeadersByStep DEF FileFollowsSteps
  <2>4. QED
    BY <2>2, <2>3
<1>2. QED
  BY <1>1, WorkflowInvariant, PTL
=============================================================================
