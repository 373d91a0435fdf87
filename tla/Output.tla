------------------------------- MODULE Output -------------------------------
(***************************************************************************)
(* Image.Save of image.go under WithCreate and WithCreateZ of helpers.go:  *)
(* the parts of the image archive are written in turn, and the errors of   *)
(* some of the writes and of every Close are dropped.                      *)
(*                                                                         *)
(* The file's device may be out of space for a while.  With gzip a part    *)
(* can stay in the compressor until a later write or the Close.            *)
(***************************************************************************)
EXTENDS Naturals, Sequences

\* The tar entries of the image, the layer's header apart from its content.
Parts == <<"directory", "VERSION", "json", "layer header", "layer", "trailer">>

\* Whose errors Save returns: not those of VERSION, of io.Copy, of tw.Close.
Checked == {"directory", "json", "layer header"}

PartNames == {Parts[k] : k \in 1 .. Len(Parts)}

VARIABLES
  step,      \* the part to write next, or one past the last
  gzip,      \* the image goes through a gzip.Writer
  full,      \* the device has no space
  broken,    \* tw.err: an error of the tar writer stays
  held,      \* parts the compressor has taken and not passed on
  file,      \* parts in the file
  saved      \* what Save returned: "pending", "ok", "error"

outputVars == <<step, gzip, full, broken, held, file, saved>>

OutputTypeOK ==
  /\ step \in 0 .. Len(Parts) + 1
  /\ gzip \in BOOLEAN /\ full \in BOOLEAN /\ broken \in BOOLEAN
  /\ held \subseteq PartNames /\ file \subseteq PartNames
  /\ saved \in {"pending", "ok", "error"}

NoOutput ==
  /\ step = 0 /\ gzip \in BOOLEAN
  /\ full = FALSE /\ broken = FALSE
  /\ held = {} /\ file = {}
  /\ saved = "pending"

\* Space runs out and is freed by whatever else uses the device.
DeviceChanges ==
  /\ full' = ~full
  /\ UNCHANGED <<step, gzip, broken, held, file, saved>>

\* os.Create
CreateFile ==
  /\ step = 0
  /\ \/ step' = 1 /\ UNCHANGED saved
     \/ saved' = "error" /\ UNCHANGED step
  /\ UNCHANGED <<gzip, full, broken, held, file>>

Writing == saved = "pending" /\ step \in 1 .. Len(Parts)

\* The part, and what the compressor held, reaches the file; or the compressor
\* takes it.
PartWritten ==
  /\ Writing /\ ~broken
  /\ \/ ~full /\ file' = file \cup held \cup {Parts[step]} /\ held' = {}
     \/ gzip /\ held' = held \cup {Parts[step]} /\ UNCHANGED file
  /\ step' = step + 1
  /\ UNCHANGED <<gzip, full, broken, saved>>

\* Mutant: the tar writer does not remember its error.
PartFailsOnce ==
  /\ Writing /\ full
  /\ IF Parts[step] \in Checked THEN saved' = "error" /\ UNCHANGED step
                                ELSE step' = step + 1 /\ UNCHANGED saved
  /\ UNCHANGED <<gzip, full, broken, held, file>>

\* A write fails, or an earlier one has, or the layer's tarball cannot be read
\* to its end; Save goes on where it does not look.
PartFails ==
  /\ Writing
  /\ broken \/ full \/ Parts[step] = "layer"
  /\ broken' = TRUE
  /\ IF Parts[step] \in Checked THEN saved' = "error" /\ UNCHANGED step
                                ELSE step' = step + 1 /\ UNCHANGED saved
  /\ UNCHANGED <<gzip, full, held, file>>

\* The tarball is not there for os.Stat or os.Open.
NoTarball ==
  /\ Writing /\ Parts[step] \in {"layer header", "layer"}
  /\ saved' = "error"
  /\ UNCHANGED <<step, gzip, full, broken, held, file>>

\* The deferred Closes: what the compressor holds is written if it can be, and
\* Save has already returned nil.
CloseFile ==
  /\ saved = "pending" /\ step = Len(Parts) + 1
  /\ \/ ~full /\ file' = file \cup held
     \/ (full \/ broken) /\ UNCHANGED file
  /\ held' = {}
  /\ saved' = "ok"
  /\ UNCHANGED <<step, gzip, full, broken>>

SaveStep == PartWritten \/ PartFails \/ NoTarball \/ CloseFile
=============================================================================
