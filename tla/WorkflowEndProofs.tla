-------------------------- MODULE WorkflowEndProofs --------------------------
(***************************************************************************)
(* Why a run of Workflow comes to its end, as far as that is about states  *)
(* and steps: the three parties never wait for each other, and each step   *)
(* uses up one of as many as the lengths of the outputs leave.             *)
(***************************************************************************)
EXTENDS WorkflowProofs

-----------------------------------------------------------------------------
(* Nobody waits for ever. *)

\* A request whose response is over is followed by a step of the command.
LEMMA CommandGoesOn ==
  ASSUME DockerIsExact, cli = "running", ~DaemonCanStep
  PROVE  GoroutineCanStep
<1> USE DEF DockerIsExact
<1>1. CASE asked = "none"
  BY <1>1 DEF GoroutineCanStep
<1>2. CASE asked # "none"
  <2>1. ReplyIsOver
    BY <1>2 DEF DaemonCanStep, DaemonTypeOK, ReplyIsOver
  <2>2. CASE Relays
    <3>1. written < sent \/ written = sent
      BY <2>2 DEF CommandIsExact, PipeTypeOK, DaemonTypeOK
    <3>2. QED
      BY <2>1, <2>2, <3>1 DEF GoroutineCanStep
  <2>3. CASE ~Relays
    <3>1. cmd = "inspect" /\ asked \in {"containers", "images"}
      BY <1>2, <2>3 DEF PipeTypeOK, DaemonTypeOK, PipeIsExact, CommandIsExact, Commands, Relays
    <3>2. reply \in {"refused", "lost", "whole"}
      BY <2>1, <3>1 DEF CommandIsExact, ReplyIsOver
    <3>3. QED
      BY <3>1, <3>2 DEF CommandIsExact, GoroutineCanStep
  <2>4. QED
    BY <2>2, <2>3
<1>3. QED
  BY <1>1, <1>2

\* The goroutine of a command can go on, or main has a unit or the end to read, or
\* the daemon has to answer.
LEMMA CommandIsNeverStuck ==
  ASSUME DockerIsExact, cmd # "none"
  PROVE  inflight \/ AtEOF \/ GoroutineCanStep \/ DaemonCanStep
<1>1. cli \in {"running", "writing", "succeeded", "failed", "ended"}
  BY DEF DockerIsExact, PipeTypeOK, PipeIsExact
<1>2. CASE cli = "running"
  BY <1>2, CommandGoesOn
<1>3. CASE cli = "writing"
  BY <1>3 DEF DockerIsExact, PipeIsExact
<1>4. CASE cli \in {"succeeded", "failed"}
  BY <1>4 DEF GoroutineCanStep
<1>5. CASE cli = "ended"
  BY <1>5 DEF DockerIsExact, PipeTypeOK, PipeIsExact, AtEOF
<1>6. QED
  BY <1>1, <1>2, <1>3, <1>4, <1>5

\* While the process runs, main, the goroutine or the daemon is not waiting for
\* another of them.
THEOREM NobodyWaitsForEver == Spec => []NoDeadlock
<1>1. IInv => NoDeadlock
  <2> SUFFICES ASSUME IInv, Running, ~MainCanStep
               PROVE  GoroutineCanStep \/ DaemonCanStep
    BY DEF NoDeadlock
  <2>1. pc \in {"build", "base", "image"} \/ (pc = "load" /\ ~fromFile)
    BY DEF IInv, TypeOK, MainCanStep
  <2>2. cmd # "none"
    BY <2>1 DEF IInv, CommandFits
  <2>3. DockerIsExact
    BY DEF IInv, TypeOK, DockerIsExact
  <2>4. ~inflight /\ ~AtEOF
    BY DEF MainCanStep
  <2>5. QED
    BY <2>2, <2>3, <2>4, CommandIsNeverStuck
<1>2. QED
  BY <1>1, WorkflowInvariant, PTL

-----------------------------------------------------------------------------
(* Every step counts. *)

LEMMA LeftAreNat ==
  ASSUME TypeOK
  PROVE  /\ CommandLeft \in Nat /\ RequestsLeft \in Nat /\ ReplyLeft \in Nat /\ CliLeft \in Nat
         /\ MainLeft \in Nat \ {0} /\ CommandsLeft \in Nat /\ OutputLeft \in Nat
         /\ WholeCommand \in Nat
<1> USE PipeAssumption
<1>1. RequestsLeft \in Nat /\ CliLeft \in Nat
  BY DEF RequestsLeft, CliLeft
<1>2. ReplyLeft \in Nat
  BY DEF TypeOK, DaemonTypeOK, ReplyLeft
<1>3. CommandLeft \in Nat
  BY <1>1, <1>2 DEF TypeOK, PipeTypeOK, CommandLeft
<1>4. MainLeft \in Nat \ {0} /\ CommandsLeft \in Nat /\ WholeCommand \in Nat
  BY DEF TypeOK, MainLeft, CommandsLeft, WholeCommand
<1>5. OutputLeft \in Nat
  BY NumberOfParts DEF TypeOK, OutputTypeOK, OutputLeft
<1>6. QED
  BY <1>1, <1>2, <1>3, <1>4, <1>5

LEMMA LeftAreNatAfter ==
  TypeOK' => (CommandLeft \in Nat /\ MainLeft \in Nat /\ CommandsLeft \in Nat /\ OutputLeft \in Nat)'
<1>1. TypeOK => CommandLeft \in Nat /\ MainLeft \in Nat /\ CommandsLeft \in Nat /\ OutputLeft \in Nat
  BY LeftAreNat
<1>2. QED
  BY <1>1, PTL

\* A new command has one step less than a whole one.
LEMMA StartingCounts ==
  ASSUME NEW c, StartCommand(c)
  PROVE  CommandLeft' = WholeCommand - 1
BY PipeAssumption
   DEF StartCommand, ReadPipe, CommandLeft, RequestsLeft, ReplyLeft, CliLeft, WholeCommand

\* The steps of the command, of the daemon and of main at the pipe.
LEMMA CommandCounts ==
  ASSUME TypeOK, PipeIsExact, CommandIsExact, CommandStep \/ DaemonStep \/ ReadNext
  PROVE  CommandLeft' < CommandLeft
<1> USE PipeAssumption
<1>1. /\ written \in 0 .. Whole + Extra /\ sent \in 0 .. Whole + Extra
      /\ Whole \in Nat /\ Extra \in Nat
  BY DEF TypeOK, PipeTypeOK, DaemonTypeOK
<1> USE <1>1 DEF CommandLeft, RequestsLeft, ReplyLeft, CliLeft
<1>2. CASE Ask
  <2>1. cmd \in {"build", "inspect", "save"}
    BY <1>2 DEF Ask, TypeOK, PipeTypeOK, PipeIsExact, Commands
  <2>2. asked' \in {"build", "containers", "get"}
    BY <1>2, <2>1 DEF Ask, FirstRequest
  <2>3. QED
    BY <1>2, <2>2 DEF Ask, pipeVars
<1>3. CASE AskForImage
  BY <1>3 DEF AskForImage, pipeVars
<1>4. CASE Relay \/ PrintObject
  BY <1>4 DEF Relay, PrintObject, Write, daemonVars
<1>5. CASE Succeed \/ FailWithError
  BY <1>5 DEF Succeed, FailWithError, CmdReturns, daemonVars
<1>6. CASE (WriteRefused \/ CloseWriter) /\ UNCHANGED daemonVars
  BY <1>6 DEF WriteRefused, CloseWriter, daemonVars
<1>7. CASE Refuse \/ Answer
  BY <1>7 DEF Refuse, Answer, pipeVars
<1>8. CASE Send
  <2>1. sent' = sent + 1 /\ reply = "sending" /\ UNCHANGED <<asked, reply, cli, written>>
    BY <1>8 DEF Send, pipeVars
  <2>2. QED
    BY <2>1
<1>9. CASE EndBody
  <2>1. reply = "sending" /\ reply' \in {"whole", "short", "errors", "lost"}
        /\ UNCHANGED <<asked, sent, cli, written>>
    BY <1>9 DEF EndBody, ArchiveEndsShort, BuildSaysError, pipeVars
  <2>2. QED
    BY <2>1
<1>10. CASE ReadNext
  <2>1. cli = "writing" /\ cli' = "running" /\ UNCHANGED <<asked, reply, sent, written>>
    BY <1>10 DEF ReadNext, ReadUnit, PipeIsExact, daemonVars
  <2>2. QED
    BY <2>1
<1>11. QED
  BY <1>2, <1>3, <1>4, <1>5, <1>6, <1>7, <1>8, <1>9, <1>10 DEF CommandStep, DaemonStep

\* The steps of Save.
LEMMA SavingCounts ==
  ASSUME OutputTypeOK, CreateFile \/ SaveStep, saved = "pending"
  PROVE  OutputLeft' < OutputLeft
<1>1. step \in Nat
  BY NumberOfParts DEF OutputTypeOK
<1>2. \/ step' = step + 1 /\ saved' = saved
      \/ step' = step /\ saved' \in {"error", "ok"}
  <2>1. CASE CreateFile
    BY <1>1, <2>1 DEF CreateFile
  <2>2. CASE NoTarball
    BY <2>2 DEF NoTarball
  <2>3. CASE CloseFile
    BY <2>3 DEF CloseFile
  <2>4. CASE PartWritten
    BY <2>4 DEF PartWritten
  <2>5. CASE PartFails
    BY <2>5 DEF PartFails
  <2>6. QED
    BY <2>1, <2>2, <2>3, <2>4, <2>5 DEF SaveStep
<1>3. QED
  BY <1>1, <1>2, NumberOfParts DEF OutputLeft

\* What a step leaves alone leaves its counts alone.
LEMMA CountsByPart ==
  /\ UNCHANGED dockerVars => CommandLeft' = CommandLeft
  /\ UNCHANGED outputVars => OutputLeft' = OutputLeft
  /\ UNCHANGED pc => MainLeft' = MainLeft /\ CommandsLeft' = CommandsLeft
<1>1. UNCHANGED dockerVars => CommandLeft' = CommandLeft
  BY DEF dockerVars, pipeVars, daemonVars, CommandLeft, RequestsLeft, ReplyLeft, CliLeft
<1>2. UNCHANGED outputVars => OutputLeft' = OutputLeft
  BY DEF outputVars, OutputLeft
<1>3. UNCHANGED pc => MainLeft' = MainLeft /\ CommandsLeft' = CommandsLeft
  BY DEF MainLeft, CommandsLeft
<1>4. QED
  BY <1>1, <1>2, <1>3

\* A step that ends the process leaves none.
LEMMA EndingCounts ==
  ASSUME IInv, exit = "none", exit' # "none"
  PROVE  StepsLeft' \in Nat /\ StepsLeft' < StepsLeft
<1>1. CommandsLeft \in Nat /\ CommandLeft \in Nat /\ MainLeft \in Nat \ {0} /\ OutputLeft \in Nat
  BY LeftAreNat DEF IInv
<1>2. StepsLeft' = 0 /\ StepsLeft = CommandsLeft + CommandLeft + MainLeft + OutputLeft
  BY DEF StepsLeft
<1>3. QED
  BY <1>1, <1>2

\* A step to another stage of main, with a new command or without one.
LEMMA StageCounts ==
  ASSUME IInv, exit = "none", exit' = "none",
         CheckFlags \/ EndOfOutput \/ MakeTempDir \/ EndOfArchive \/ LoadFile \/ Rebase
  PROVE  CommandsLeft' + CommandLeft' + MainLeft' < CommandsLeft + CommandLeft + MainLeft
<1> DEFINE Started == CommandLeft' = WholeCommand - 1
           Kept == CommandLeft' = CommandLeft
<1>1. CommandLeft \in Nat /\ WholeCommand \in Nat /\ TypeOK
  BY LeftAreNat DEF IInv
<1>2. /\ UNCHANGED dockerVars => Kept
      /\ \A c \in {"build", "inspect", "save"} : StartCommand(c) => Started
      /\ StopReading => Kept
  <2>1. StopReading => Kept
    BY DEF StopReading, CloseReader, daemonVars, CommandLeft, RequestsLeft, ReplyLeft, CliLeft
  <2>2. QED
    BY <2>1, CountsByPart, StartingCounts
<1> HIDE DEF Started, Kept
<1>3. \/ pc = "flags" /\ pc' \in {"build", "base"} /\ Started
      \/ pc = "flags" /\ pc' = "workdir" /\ Kept
      \/ pc = "build" /\ pc' = "base" /\ Started
      \/ pc = "base" /\ pc' = "image" /\ Started
      \/ pc = "image" /\ pc' = "workdir" /\ Kept
      \/ pc = "workdir" /\ pc' = "load" /\ (Started \/ Kept)
      \/ pc = "load" /\ pc' = "rebase" /\ Kept
      \/ pc = "rebase" /\ pc' = "save" /\ Kept
  <2>1. CASE CheckFlags
    BY <1>2, <2>1 DEF CheckFlags, At, Fatal, Goto
  <2>2. CASE EndOfOutput
    BY <1>2, <2>2 DEF EndOfOutput, Goto
  <2>3. CASE MakeTempDir
    BY <1>2, <2>3 DEF MakeTempDir, At, Fatal, Goto
  <2>4. CASE EndOfArchive
    BY <1>2, <2>4 DEF EndOfArchive, At, Goto
  <2>5. CASE LoadFile \/ Rebase
    BY <1>2, <2>5 DEF LoadFile, Rebase, At, Fatal, Goto
  <2>6. QED
    BY <2>1, <2>2, <2>3, <2>4, <2>5
<1>4. QED
  <2>1. CASE pc = "flags" /\ pc' \in {"build", "base"} /\ Started
    BY <1>1, <2>1 DEF Started, CommandsLeft, MainLeft
  <2>2. CASE pc = "flags" /\ pc' = "workdir" /\ Kept
    BY <1>1, <2>2 DEF Kept, CommandsLeft, MainLeft
  <2>3. CASE pc = "build" /\ pc' = "base" /\ Started
    BY <1>1, <2>3 DEF Started, CommandsLeft, MainLeft
  <2>4. CASE pc = "base" /\ pc' = "image" /\ Started
    BY <1>1, <2>4 DEF Started, CommandsLeft, MainLeft
  <2>5. CASE pc = "image" /\ pc' = "workdir" /\ Kept
    BY <1>1, <2>5 DEF Kept, CommandsLeft, MainLeft
  <2>6. CASE pc = "workdir" /\ pc' = "load" /\ (Started \/ Kept)
    BY <1>1, <2>6 DEF Started, Kept, CommandsLeft, MainLeft
  <2>7. CASE pc = "load" /\ pc' = "rebase" /\ Kept
    BY <1>1, <2>7 DEF Kept, CommandsLeft, MainLeft
  <2>8. CASE pc = "rebase" /\ pc' = "save" /\ Kept
    BY <1>1, <2>8 DEF Kept, CommandsLeft, MainLeft
  <2>9. QED
    BY <1>3, <2>1, <2>2, <2>3, <2>4, <2>5, <2>6, <2>7, <2>8

\* A step that changes more than the free space of the device.
LEMMA StepCounts ==
  ASSUME IInv, IInv', Next, Progress' # Progress
  PROVE  StepsLeft' \in Nat /\ StepsLeft' < StepsLeft
<1>1. exit = "none"
  BY DEF Next, MainStep, GoroutineStep, CheckFlags, ScanLine, ReadOutput, LineTooLong, EndOfOutput,
         MakeTempDir, LoadOutput, EndOfArchive, LoadFails, LoadFile, Rebase, SaveImage, SaveFails,
         Return, RunCli, CliFatal, CliUsage, DaemonRuns, Device, At, Running
<1>2. PICK a \in Nat, b \in Nat, c \in Nat, d \in Nat :
        a = CommandsLeft /\ b = CommandLeft /\ c = MainLeft /\ d = OutputLeft
  BY LeftAreNat DEF IInv
<1>3. PICK aa \in Nat, bb \in Nat, cc \in Nat, dd \in Nat :
        aa = CommandsLeft' /\ bb = CommandLeft' /\ cc = MainLeft' /\ dd = OutputLeft'
  BY LeftAreNatAfter DEF IInv
<1>4. CASE exit' # "none"
  BY <1>1, <1>4, EndingCounts
<1>5. CASE exit' = "none"
  <2>1. StepsLeft = a + b + c + d /\ StepsLeft' = aa + bb + cc + dd
    BY <1>1, <1>2, <1>3, <1>5 DEF StepsLeft
  <2>2. CASE RunCli \/ DaemonRuns \/ ScanLine \/ ReadOutput \/ LoadOutput
    <3>1. CommandStep \/ DaemonStep \/ ReadNext
      BY <2>2 DEF RunCli, DaemonRuns, ScanLine, ReadOutput, LoadOutput
    <3>2. UNCHANGED outputVars /\ UNCHANGED pc
      BY <2>2 DEF RunCli, DaemonRuns, ScanLine, ReadOutput, LoadOutput, mainVars
    <3>3. bb < b
      BY <1>2, <1>3, <3>1, CommandCounts DEF IInv
    <3>4. aa = a /\ cc = c /\ dd = d
      BY <1>2, <1>3, <3>2, CountsByPart
    <3>5. QED
      BY <2>1, <3>3, <3>4
  <2>3. CASE CheckFlags \/ EndOfOutput \/ MakeTempDir \/ EndOfArchive \/ LoadFile \/ Rebase
    <3>1. UNCHANGED outputVars
      BY <2>3 DEF CheckFlags, EndOfOutput, MakeTempDir, EndOfArchive, LoadFile, Rebase
    <3>2. aa + bb + cc < a + b + c
      BY <1>1, <1>2, <1>3, <1>5, <2>3, StageCounts
    <3>3. dd = d
      BY <1>2, <1>3, <3>1, CountsByPart
    <3>4. QED
      BY <2>1, <3>2, <3>3
  <2>4. CASE SaveImage
    <3>1. OutputTypeOK /\ (CreateFile \/ SaveStep) /\ saved = "pending"
      BY <2>4 DEF SaveImage, IInv, TypeOK
    <3>2. UNCHANGED dockerVars /\ UNCHANGED pc
      BY <2>4 DEF SaveImage, mainVars
    <3>3. dd < d
      BY <1>2, <1>3, <3>1, SavingCounts
    <3>4. aa = a /\ bb = b /\ cc = c
      BY <1>2, <1>3, <3>2, CountsByPart
    <3>5. QED
      BY <2>1, <3>3, <3>4
  <2>5. CASE Device
    <3>1. Progress' = Progress
      BY <2>5 DEF Device, DeviceChanges, Progress
    <3>2. QED
      BY <3>1
  <2>6. CASE LineTooLong \/ LoadFails \/ SaveFails \/ Return \/ CliFatal \/ CliUsage
    BY <1>5, <2>6 DEF LineTooLong, LoadFails, SaveFails, Return, CliFatal, CliUsage, Fatal
  <2>7. QED
    BY <2>2, <2>3, <2>4, <2>5, <2>6 DEF Next, MainStep, GoroutineStep
<1>6. QED
  BY <1>4, <1>5

\* Each step of main, of a command or of the daemon leaves fewer to take, as many
\* as the lengths of the outputs set: nobody retries for ever or goes back a stage.
THEOREM ProcessIsFinite == Spec => EveryProcessStepCounts
<1>1. IInv /\ IInv' /\ [Next]_vars
        => [Progress' # Progress => StepsLeft' \in Nat /\ StepsLeft' < StepsLeft]_vars
  BY StepCounts
<1>2. QED
  BY <1>1, WorkflowInvariant, PTL DEF Spec, EveryProcessStepCounts
=============================================================================
