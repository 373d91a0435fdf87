------------------------ MODULE WorkflowPromiseProofs ------------------------
(***************************************************************************)
(* Workflow implements WorkflowPromise: what its caller sees of a run is   *)
(* stage after stage, each on an input that has ended.                     *)
(***************************************************************************)
EXTENDS WorkflowProofs

LEMMA InitKeepsPromise == Init => Promise!Init
<1> SUFFICES ASSUME Init PROVE Promise!Init
  OBVIOUS
<1>1. pc = "flags" /\ saved = "pending" /\ step = 0
  BY DEF Init, NoOutput
<1>2. InputEnded = TRUE /\ OutputSeen = "none"
  BY <1>1 DEF InputEnded, OutputSeen
<1>3. QED
  BY <1>2 DEF Init, Promise!Init

\* The input of a stage that has ended stays so while the stage lasts.
LEMMA InputStaysEnded ==
  ASSUME IInv, DockerIsExact', UNCHANGED <<pc, fromFile>>, InputEnded,
         \/ CommandStep \/ DaemonStep
         \/ ReadNext /\ (pc = "load" => got < Whole)
  PROVE  InputEnded'
<1> USE PipeAssumption DEF InputEnded
<1>1. CASE CommandStep \/ DaemonStep
  <2>1. UNCHANGED got /\ (reply = "short" => UNCHANGED <<reply, sent>>)
    BY <1>1, CommandKeepsExact, DaemonKeepsExact DEF IInv, TypeOK, DockerIsExact
  <2>2. QED
    BY <2>1
<1>2. CASE ReadNext /\ (pc = "load" => got < Whole)
  <2>1. /\ got' = got + 1 /\ inflight /\ UNCHANGED <<cmd, written, reply, sent>>
    BY <1>2 DEF ReadNext, ReadUnit, daemonVars
  <2>2. written = got + 1 /\ got \in Nat /\ cli = "writing"
    BY <2>1 DEF IInv, TypeOK, PipeTypeOK, PipeIsExact
  <2>3. CASE pc \in {"build", "base", "image"}
    <3>1. written <= Whole
      BY <2>3 DEF IInv, TypeOK, PipeTypeOK, DaemonTypeOK, CommandFits, CommandIsExact, Relays, Limit
    <3>2. QED
      BY <2>2, <2>3, <3>1
  <2>4. CASE pc = "load" /\ ~fromFile
    <3>1. cmd = "save" /\ written <= sent
      BY <2>4 DEF IInv, CommandFits, CommandIsExact, Relays
    <3>2. QED
      BY <1>2, <2>2, <2>4, <3>1 DEF IInv, TypeOK, DaemonTypeOK
  <2>5. CASE pc \notin {"build", "base", "image"} /\ ~(pc = "load" /\ ~fromFile)
    BY <2>5
  <2>6. QED
    BY <2>3, <2>4, <2>5
<1>3. QED
  BY <1>1, <1>2

\* What a step leaves alone looks the same to the caller.
LEMMA SeenByPart ==
  /\ InputEnded \in BOOLEAN
  /\ UNCHANGED <<dockerVars, fromFile, pc>> => InputEnded' = InputEnded
  /\ UNCHANGED outputVars => OutputSeen' = OutputSeen
<1>1. InputEnded \in BOOLEAN
  BY DEF InputEnded
<1>2. UNCHANGED <<dockerVars, fromFile, pc>> => InputEnded' = InputEnded
  BY DEF dockerVars, pipeVars, daemonVars, InputEnded
<1>3. UNCHANGED outputVars => OutputSeen' = OutputSeen
  BY DEF outputVars, OutputSeen
<1>4. QED
  BY <1>1, <1>2, <1>3

\* The command, the daemon and the reading of a unit: the input ends or nothing
\* is to be seen.
LEMMA ReadingIsPromised ==
  ASSUME IInv, IInv', RunCli \/ DaemonRuns \/ ScanLine \/ ReadOutput \/ LoadOutput
  PROVE  Promise!InputEnds \/ UNCHANGED Promise!vars
<1>1. /\ exit = "none"
      /\ UNCHANGED <<outputVars, build, fromFile, keep, toFile, pc, exit, tempdir>>
      /\ CommandStep \/ DaemonStep \/ (ReadNext /\ (pc = "load" => got < Whole))
  BY DEF RunCli, DaemonRuns, ScanLine, ReadOutput, LoadOutput, At, Running, mainVars
<1>2. OutputSeen' = OutputSeen
  BY <1>1, SeenByPart
<1>3. DockerIsExact'
  BY DEF IInv, TypeOK, DockerIsExact
<1>4. InputEnded \in BOOLEAN /\ InputEnded' \in BOOLEAN
  BY DEF InputEnded
<1>5. CASE InputEnded
  <2>1. InputEnded'
    BY <1>1, <1>3, <1>5, InputStaysEnded
  <2>2. QED
    BY <1>1, <1>2, <1>4, <1>5, <2>1 DEF Promise!vars, Promise!flags
<1>6. CASE ~InputEnded
  BY <1>1, <1>2, <1>4, <1>6 DEF Promise!InputEnds, Promise!Running, Promise!vars, Promise!flags
<1>7. QED
  BY <1>5, <1>6

\* A new command has said nothing yet.
LEMMA StartHasNotEnded ==
  ASSUME NEW c, StartCommand(c), pc' \in {"build", "base", "image"} \/ (pc' = "load" /\ ~fromFile')
  PROVE  InputEnded' = FALSE
BY PipeAssumption DEF StartCommand, ReadPipe, InputEnded

\* A step of main to its next stage, or its failure.
LEMMA StageIsPromised ==
  ASSUME IInv, exit' = "none",
         CheckFlags \/ EndOfOutput \/ MakeTempDir \/ EndOfArchive \/ LoadFile \/ Rebase
  PROVE  Promise!GoOn
<1> USE DEF At, Running, Fatal, Goto
<1>1. exit = "none" /\ UNCHANGED <<outputVars, build, fromFile, keep, toFile, exit>>
  BY DEF CheckFlags, EndOfOutput, MakeTempDir, EndOfArchive, LoadFile, Rebase
<1>2. DockerIsExact
  BY DEF IInv, TypeOK, DockerIsExact
<1>3. InputEnded = TRUE
  <2>1. CASE EndOfOutput
    BY <1>2, <2>1, EOFIsEnd DEF EndOfOutput, IInv, CommandFits, InputEnded
  <2>2. CASE EndOfArchive
    <3>1. pc = "load" /\ ~fromFile /\ cmd = "save" /\ got <= Whole /\ (got = Whole \/ AtEOF)
      BY <2>2 DEF EndOfArchive, IInv, CommandFits
    <3>2. got = Whole \/ (reply = "short" /\ got = sent)
      BY <1>2, <3>1, EOFIsEnd, PipeAssumption DEF DockerIsExact, PipeTypeOK
    <3>3. QED
      BY <3>1, <3>2 DEF InputEnded
  <2>3. CASE CheckFlags \/ MakeTempDir \/ LoadFile \/ Rebase
    BY <2>3 DEF CheckFlags, MakeTempDir, LoadFile, Rebase, InputEnded
  <2>4. QED
    BY <2>1, <2>2, <2>3
<1>4. /\ pc' = Promise!After(pc) /\ pc # "save"
      /\ pc = "flags" => ~(build /\ fromFile)
      /\ tempdir' = IF pc = "workdir" /\ ~keep THEN "made" ELSE tempdir
  BY DEF CheckFlags, EndOfOutput, MakeTempDir, EndOfArchive, LoadFile, Rebase,
         Promise!After, Promise!First
<1>5. InputEnded' = ~Promise!Reads(pc')
  <2>1. CASE Promise!Reads(pc')
    <3>1. \E c \in {"build", "inspect", "save"} : StartCommand(c)
      BY <2>1 DEF CheckFlags, EndOfOutput, MakeTempDir, EndOfArchive, LoadFile, Rebase, Promise!Reads
    <3>2. QED
      BY <1>1, <2>1, <3>1, StartHasNotEnded DEF Promise!Reads
  <2>2. CASE ~Promise!Reads(pc')
    BY <1>1, <2>2 DEF Promise!Reads, InputEnded
  <2>3. QED
    BY <2>1, <2>2
<1>6. OutputSeen' = OutputSeen
  BY <1>1, SeenByPart
<1>7. QED
  BY <1>1, <1>3, <1>4, <1>5, <1>6 DEF Promise!GoOn, Promise!Running, Promise!flags

\* The end of the process by an error, from main or from the goroutine.
LEMMA FailureIsPromised ==
  ASSUME IInv, exit = "none", exit' \in {"1", "2"}, Next
  PROVE  Promise!Fail
<1>1. /\ UNCHANGED <<dockerVars, outputVars, build, fromFile, keep, toFile, pc, tempdir>>
      /\ exit' = "2" => CliUsage
  BY DEF Next, MainStep, GoroutineStep, CheckFlags, ScanLine, ReadOutput, LineTooLong, EndOfOutput,
         MakeTempDir, LoadOutput, EndOfArchive, LoadFails, LoadFile, Rebase, SaveImage, SaveFails,
         Return, RunCli, CliFatal, CliUsage, DaemonRuns, Device, At, Running, Fatal, Goto, mainVars
<1>2. exit' = "2" => pc \in {"build", "base", "image"}
  BY <1>1 DEF CliUsage, BadArguments, IInv, CommandFits
<1>3. InputEnded' = InputEnded /\ OutputSeen' = OutputSeen
  BY <1>1, SeenByPart
<1>4. QED
  BY <1>1, <1>2, <1>3 DEF Promise!Fail, Promise!Running, Promise!flags

\* Save, from the creation of the file to its Close, and the device.
LEMMA SavingIsPromised ==
  ASSUME IInv, SaveImage \/ Device
  PROVE  Promise!WriteOutput \/ UNCHANGED Promise!vars
<1>1. /\ exit = "none" /\ pc = "save" /\ step \in Nat
      /\ UNCHANGED <<dockerVars, build, fromFile, keep, toFile, pc, exit, tempdir>>
  BY NumberOfParts DEF SaveImage, Device, At, Running, mainVars, IInv, TypeOK, OutputTypeOK
<1>2. InputEnded' = InputEnded
  BY <1>1, SeenByPart
<1>3. CASE SaveImage
  <2>1. toFile /\ saved = "pending"
    BY <1>3 DEF SaveImage
  <2>2. \/ step = 0 /\ step' = 1 /\ saved' = "pending"
        \/ step > 0 /\ step' = step /\ saved' = "ok"
        \/ step > 0 /\ step' = step + 1 /\ saved' = "pending"
        \/ step' = step /\ saved' = "error"
    <3>1. CASE CreateFile
      BY <2>1, <3>1 DEF CreateFile
    <3>2. CASE PartWritten
      BY <1>1, <2>1, <3>2 DEF PartWritten, Writing
    <3>3. CASE PartFails
      BY <1>1, <2>1, <3>3 DEF PartFails, Writing
    <3>4. CASE NoTarball
      BY <3>4 DEF NoTarball
    <3>5. CASE CloseFile
      BY <3>5, NumberOfParts DEF CloseFile
    <3>6. QED
      BY <1>3, <3>1, <3>2, <3>3, <3>4, <3>5 DEF SaveImage, SaveStep
  <2>3. \/ OutputSeen = "none" /\ OutputSeen' = "begun"
        \/ OutputSeen = "begun" /\ OutputSeen' = "closed"
        \/ OutputSeen' = OutputSeen
    BY <1>1, <2>1, <2>2 DEF OutputSeen
  <2>4. QED
    BY <1>1, <1>2, <2>1, <2>3
       DEF Promise!WriteOutput, Promise!Running, Promise!vars, Promise!flags
<1>4. CASE Device
  <2>1. OutputSeen' = OutputSeen
    BY <1>4 DEF Device, DeviceChanges, OutputSeen
  <2>2. QED
    BY <1>1, <1>2, <2>1 DEF Promise!vars, Promise!flags
<1>5. QED
  BY <1>3, <1>4

LEMMA ReturnIsPromised ==
  ASSUME IInv, Return
  PROVE  Promise!Succeed
<1>1. /\ exit = "none" /\ pc = "save" /\ saved = "ok" /\ exit' = "0"
      /\ UNCHANGED <<dockerVars, outputVars, build, fromFile, keep, toFile, pc>>
      /\ tempdir' = IF tempdir = "made" THEN "removed" ELSE tempdir
  BY DEF Return, At, Running
<1>2. OutputSeen = "closed"
  BY <1>1 DEF OutputSeen
<1>3. InputEnded' = InputEnded /\ OutputSeen' = OutputSeen
  BY <1>1, SeenByPart
<1>4. QED
  BY <1>1, <1>2, <1>3 DEF Promise!Succeed, Promise!Running, Promise!flags

\* A step of the process is one of the promise, or is not to be seen.
LEMMA NextKeepsPromise ==
  ASSUME IInv, IInv', [Next]_vars
  PROVE  [Promise!Next]_(Promise!vars)
<1>1. CASE UNCHANGED vars
  <2>1. InputEnded' = InputEnded /\ OutputSeen' = OutputSeen
    BY <1>1, SeenByPart DEF vars, mainVars
  <2>2. QED
    BY <1>1, <2>1 DEF vars, mainVars, Promise!vars, Promise!flags
<1>2. CASE RunCli \/ DaemonRuns \/ ScanLine \/ ReadOutput \/ LoadOutput
  BY <1>2, ReadingIsPromised DEF Promise!Next
<1>3. CASE SaveImage \/ Device
  BY <1>3, SavingIsPromised DEF Promise!Next
<1>4. CASE Return
  BY <1>4, ReturnIsPromised DEF Promise!Next
<1>5. CASE /\ CheckFlags \/ EndOfOutput \/ MakeTempDir \/ EndOfArchive \/ LoadFile \/ Rebase
           /\ exit' = "none"
  BY <1>5, StageIsPromised DEF Promise!Next
<1>6. CASE /\ CheckFlags \/ MakeTempDir \/ Rebase
           /\ exit' # "none"
  <2>1. exit = "none" /\ exit' = "1" /\ Next
    BY <1>6 DEF CheckFlags, MakeTempDir, Rebase, Fatal, Goto, At, Running, Next, MainStep
  <2>2. QED
    BY <2>1, FailureIsPromised DEF Promise!Next
<1>7. CASE LineTooLong \/ LoadFails \/ SaveFails \/ CliFatal \/ CliUsage
  <2>1. exit = "none" /\ exit' \in {"1", "2"} /\ Next
    BY <1>7 DEF LineTooLong, LoadFails, SaveFails, CliFatal, CliUsage, Fatal, At, Running,
                Next, MainStep, GoroutineStep
  <2>2. QED
    BY <2>1, FailureIsPromised DEF Promise!Next
<1>8. CASE /\ EndOfOutput \/ EndOfArchive \/ LoadFile
           /\ exit' # "none"
  BY <1>8 DEF EndOfOutput, EndOfArchive, LoadFile, Goto, At, Running
<1>9. QED
  BY <1>1, <1>2, <1>3, <1>4, <1>5, <1>6, <1>7, <1>8 DEF Next, MainStep, GoroutineStep

\* A run implements the promise: its stages come one after another, each on an
\* input that has ended, whatever the goroutines and the daemon do; it fails or
\* succeeds at the end of them all.
THEOREM WorkflowKeepsPromise == Spec => ProcessKeepsPromise
<1>1. IInv /\ IInv' /\ [Next]_vars => [Promise!Next]_(Promise!vars)
  BY NextKeepsPromise
<1>2. QED
  BY <1>1, InitKeepsPromise, WorkflowInvariant, PTL DEF Spec, ProcessKeepsPromise, Promise!Spec
=============================================================================
