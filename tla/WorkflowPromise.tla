--------------------------- MODULE WorkflowPromise ---------------------------
(***************************************************************************)
(* What a run of docker-rebase promises to whoever calls it: its stages,   *)
(* the numbered comments of main.go, come one after another and none is    *)
(* left out; a stage that reads is over only when its input has ended, and *)
(* with a failure nothing more happens; the output exists only past all of *)
(* them; and the status is 0 only when it was written.  How the input      *)
(* comes, through which pipes and from how many goroutines, is left open.  *)
(***************************************************************************)

VARIABLES
  build, fromFile, toFile, keep,   \* the flags
  stage,
  ended,     \* the input of the stage has come to its end
  output,    \* "none", "begun" or "closed"
  exit,      \* "none" while the process runs, else its exit status
  tempdir    \* "none", "made" or "removed"

flags == <<build, fromFile, toFile, keep>>
vars == <<flags, stage, ended, output, exit, tempdir>>

Init ==
  /\ build \in BOOLEAN /\ fromFile \in BOOLEAN /\ toFile \in BOOLEAN /\ keep \in BOOLEAN
  /\ stage = "flags" /\ ended = TRUE
  /\ output = "none"
  /\ exit = "none"
  /\ tempdir = "none"

Running == exit = "none"

\* The stages that read what a Docker command writes.
Reads(s) == s \in {"build", "base", "image"} \/ (s = "load" /\ ~fromFile)

\* A build needs the daemon's images, and a file needs no daemon for its names.
First ==
  IF build THEN "build" ELSE IF fromFile THEN "workdir" ELSE "base"

After(s) ==
  CASE s = "flags"   -> First
    [] s = "build"   -> "base"
    [] s = "base"    -> "image"
    [] s = "image"   -> "workdir"
    [] s = "workdir" -> "load"
    [] s = "load"    -> "rebase"
    [] s = "rebase"  -> "save"

InputEnds ==
  /\ Running /\ ~ended
  /\ ended' = TRUE
  /\ UNCHANGED <<flags, stage, output, exit, tempdir>>

\* The working directory that the run makes for itself is there from then on.
GoOn ==
  /\ Running /\ ended /\ stage # "save"
  /\ stage = "flags" => ~(build /\ fromFile)
  /\ stage' = After(stage)
  /\ ended' = ~Reads(stage')
  /\ tempdir' = IF stage = "workdir" /\ ~keep THEN "made" ELSE tempdir
  /\ UNCHANGED <<flags, output, exit>>

WriteOutput ==
  /\ Running /\ stage = "save" /\ toFile
  /\ \/ output = "none" /\ output' = "begun"
     \/ output = "begun" /\ output' = "closed"
  /\ UNCHANGED <<flags, stage, ended, exit, tempdir>>

\* Nothing is undone, not even the directory.  2 is a command's usage.
Fail ==
  /\ Running
  /\ exit' = "1" \/ (exit' = "2" /\ stage \in {"build", "base", "image"})
  /\ UNCHANGED <<flags, stage, ended, output, tempdir>>

Succeed ==
  /\ Running /\ stage = "save" /\ output = "closed"
  /\ exit' = "0"
  /\ tempdir' = IF tempdir = "made" THEN "removed" ELSE tempdir
  /\ UNCHANGED <<flags, stage, ended, output>>

Next == InputEnds \/ GoOn \/ WriteOutput \/ Fail \/ Succeed

Spec == Init /\ [][Next]_vars
==============================================================================
