----------------------------- MODULE DockerCli ------------------------------
(***************************************************************************)
(* The three Docker commands that ReadPipe runs, against a daemon: build   *)
(* and save relay the body of one response as it arrives, inspect reads a  *)
(* whole body and then prints.                                             *)
(*                                                                         *)
(* A daemon that fails says so by a status as long as no byte of the body  *)
(* is out.  After that a build has an error among its messages; an archive *)
(* just ends short of its trailer (TarWithOptions only logs its errors), or*)
(* with the text of an error, and the response ends like any other.  A lost*)
(* connection is an error to whoever reads the body, its length being      *)
(* known.                                                                  *)
(***************************************************************************)
EXTENDS Pipe

VARIABLES
  asked,   \* the request that was made
  reply,   \* how far its response is, and how it ended
  sent     \* units of the body that have arrived

daemonVars == <<asked, reply, sent>>
dockerVars == <<pipeVars, daemonVars>>

DaemonTypeOK ==
  /\ asked \in {"none", "build", "containers", "images", "get"}
  /\ reply \in {"none", "refused", "sending", "whole", "short", "errors", "lost"}
  /\ sent \in 0 .. Whole + Extra

NothingAsked == asked = "none" /\ reply = "none" /\ sent = 0

NoCommand == NoPipe /\ NothingAsked

StartCommand(c) ==
  /\ ReadPipe(c)
  /\ asked' = "none" /\ reply' = "none" /\ sent' = 0

-----------------------------------------------------------------------------
(* The daemon. *)

Limit == IF cmd = "save" THEN Whole + Extra ELSE Whole

\* No connection, or a status that is not one of success.
Refuse ==
  /\ asked # "none" /\ reply = "none"
  /\ reply' = "refused"
  /\ UNCHANGED <<pipeVars, asked, sent>>

Answer ==
  /\ asked # "none" /\ reply = "none"
  /\ reply' = "sending"
  /\ UNCHANGED <<pipeVars, asked, sent>>

Send ==
  /\ reply = "sending" /\ sent < Limit
  /\ sent' = sent + 1
  /\ UNCHANGED <<pipeVars, asked, reply>>

\* Who makes the archive logs its errors and closes it; the header of a response
\* of which something is out cannot change any more.
ArchiveEndsShort == asked = "get" /\ sent < Whole /\ reply' = "short"

\* The error of the build becomes the last message.
BuildSaysError == asked = "build" /\ reply' = "errors"

EndBody ==
  /\ reply = "sending"
  /\ \/ sent >= Whole /\ reply' = "whole"
     \/ ArchiveEndsShort
     \/ BuildSaysError
     \/ reply' = "lost"
  /\ UNCHANGED <<pipeVars, asked, sent>>

DaemonStep == Refuse \/ Answer \/ Send \/ EndBody

-----------------------------------------------------------------------------
(* The commands. *)

\* Flags or a number of arguments that a command refuses: os.Exit(2), whoever
\* called it.  save gets an ID, which is neither.
BadArguments == cli = "running" /\ asked = "none" /\ cmd \in {"build", "inspect"}

FirstRequest(c) ==
  CASE c = "build" -> "build" [] c = "inspect" -> "containers" [] c = "save" -> "get"

Ask ==
  /\ cli = "running" /\ asked = "none"
  /\ asked' = FirstRequest(cmd)
  /\ UNCHANGED <<pipeVars, reply, sent>>

\* Mutant: the request that was refused is made again.
AskAgain ==
  /\ cli = "running" /\ asked = "containers" /\ reply \in {"refused", "lost"}
  /\ reply' = "none" /\ sent' = 0
  /\ UNCHANGED <<pipeVars, asked>>

\* inspect takes a name for a container's first.
AskForImage ==
  /\ cli = "running" /\ asked = "containers" /\ reply \in {"refused", "lost"}
  /\ asked' = "images" /\ reply' = "none" /\ sent' = 0
  /\ UNCHANGED pipeVars

Relays == cmd \in {"build", "save"}

Relay ==
  /\ Relays /\ written < sent
  /\ Write
  /\ UNCHANGED daemonVars

PrintObject ==
  /\ cmd = "inspect" /\ reply = "whole" /\ written < Whole
  /\ Write
  /\ UNCHANGED daemonVars

\* Mutant: the error among the messages of a build is printed like the others.
ErrorIsAMessage ==
  /\ \/ Relays /\ reply \in {"whole", "short", "errors"} /\ written = sent
     \/ cmd = "inspect" /\ reply = "whole" /\ written = Whole
  /\ CmdReturns("succeeded")
  /\ UNCHANGED daemonVars

\* The body has ended and was passed on.
Succeed ==
  /\ \/ Relays /\ reply \in {"whole", "short"} /\ written = sent
     \/ cmd = "inspect" /\ reply = "whole" /\ written = Whole
  /\ CmdReturns("succeeded")
  /\ UNCHANGED daemonVars

\* Nothing to build from, or not readable, or a name that no image can have.
NoContext == cmd = "build" /\ asked = "none"

\* An error of the daemon or of the connection, after what was passed on.
StreamFails == Relays /\ reply \in {"refused", "errors", "lost"} /\ written = sent

\* No object of the name, or none that can be printed.
InspectFails ==
  \/ asked = "images" /\ reply \in {"refused", "lost"}
  \/ cmd = "inspect" /\ reply = "whole" /\ written = 0

FailWithError ==
  /\ NoContext \/ StreamFails \/ InspectFails
  /\ CmdReturns("failed")
  /\ UNCHANGED daemonVars

CommandStep ==
  \/ Ask \/ AskForImage \/ Relay \/ PrintObject \/ Succeed \/ FailWithError
  \/ (WriteRefused \/ CloseWriter) /\ UNCHANGED daemonVars

-----------------------------------------------------------------------------
(* The steps of main at the reading end. *)

ReadNext == ReadUnit /\ UNCHANGED daemonVars

StopReading == CloseReader /\ UNCHANGED daemonVars
=============================================================================
