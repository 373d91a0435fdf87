-------------------------------- MODULE Pipe --------------------------------
(***************************************************************************)
(* DockerHost.ReadPipe of docker.go: a goroutine runs a Docker command     *)
(* whose output main reads through an io.Pipe.                             *)
(*                                                                         *)
(* The pipe has no buffer: a Write returns when a Read has taken its bytes *)
(* or the reading end is closed, and then with an error.  Output is counted*)
(* in units; the first Whole are what the command has to say, the last of  *)
(* them the trailer of an archive, and Extra may follow it as padding.     *)
(***************************************************************************)
EXTENDS Naturals

CONSTANTS
  Whole,    \* the units of a whole output
  Extra     \* bound: the units after the trailer of an archive

ASSUME PipeAssumption == Whole \in Nat \ {0, 1} /\ Extra \in Nat

VARIABLES
  cmd,       \* the Docker command
  cli,       \* where its goroutine is
  written,   \* units it has begun to write
  inflight,  \* a unit waits in Write to be read
  wclosed,   \* stdout_w is closed
  rclosed,   \* stdout_r is closed
  got        \* units that were read

pipeVars == <<cmd, cli, written, inflight, wclosed, rclosed, got>>

Commands == {"none", "build", "inspect", "save"}

PipeTypeOK ==
  /\ cmd \in Commands
  /\ cli \in {"idle", "running", "writing", "succeeded", "failed", "ended"}
  /\ written \in 0 .. Whole + Extra
  /\ inflight \in BOOLEAN /\ wclosed \in BOOLEAN /\ rclosed \in BOOLEAN
  /\ got \in 0 .. Whole + Extra

NoPipe ==
  /\ cmd = "none" /\ cli = "idle"
  /\ written = 0 /\ got = 0
  /\ inflight = FALSE /\ wclosed = FALSE /\ rclosed = FALSE

\* io.Pipe() and go func(): a new pipe for each command.
ReadPipe(c) ==
  /\ cmd' = c /\ cli' = "running"
  /\ written' = 0 /\ got' = 0
  /\ inflight' = FALSE /\ wclosed' = FALSE /\ rclosed' = FALSE

-----------------------------------------------------------------------------
(* The goroutine. *)

\* A Write of the command begins; where nobody reads any more it has failed.
Write ==
  /\ cli = "running"
  /\ written' = written + 1
  /\ IF rclosed THEN cli' = "failed" /\ UNCHANGED inflight
                ELSE cli' = "writing" /\ inflight' = TRUE
  /\ UNCHANGED <<cmd, wclosed, rclosed, got>>

\* The reading end was closed under a Write.
WriteRefused ==
  /\ cli = "writing" /\ rclosed
  /\ cli' = "failed" /\ inflight' = FALSE
  /\ UNCHANGED <<cmd, written, wclosed, rclosed, got>>

\* cli.Cmd returns, without an error or with one.
CmdReturns(how) ==
  /\ cli = "running"
  /\ cli' = how
  /\ UNCHANGED <<cmd, written, inflight, wclosed, rclosed, got>>

\* Mutant: the pipe is closed before the error is looked at.
CloseInAnyCase ==
  /\ cli \in {"succeeded", "failed"} /\ ~wclosed
  /\ wclosed' = TRUE
  /\ cli' = IF cli = "succeeded" THEN "ended" ELSE cli
  /\ UNCHANGED <<cmd, written, inflight, rclosed, got>>

\* Mutant: there is no deferred Close.
NeverClose ==
  /\ cli = "succeeded"
  /\ cli' = "ended"
  /\ UNCHANGED <<cmd, written, inflight, wclosed, rclosed, got>>

\* The deferred Close runs on a return; log.Fatalln ends the process without it.
CloseWriter ==
  /\ cli = "succeeded"
  /\ wclosed' = TRUE
  /\ cli' = "ended"
  /\ UNCHANGED <<cmd, written, inflight, rclosed, got>>

-----------------------------------------------------------------------------
(* The reading end, for the steps of main. *)

\* Mutant: the unit stays to be read again.
ReadUnitAgain ==
  /\ inflight
  /\ cli' = "running"
  /\ got' = got + 1
  /\ UNCHANGED <<cmd, written, inflight, wclosed, rclosed>>

ReadUnit ==
  /\ inflight
  /\ inflight' = FALSE /\ cli' = "running"
  /\ got' = got + 1
  /\ UNCHANGED <<cmd, written, wclosed, rclosed>>

AtEOF == wclosed /\ ~inflight

CloseReader ==
  /\ rclosed' = TRUE
  /\ UNCHANGED <<cmd, cli, written, inflight, wclosed, got>>
=============================================================================
