------------------------------ MODULE MCSquash ------------------------------
(***************************************************************************)
(* Two trees: a directory d with a directory x in it, x with a path y in   *)
(* it, and room for an aufs marker m in d; and a directory d with a path x *)
(* in it and a path e beside it.  The headers tell a directory and two     *)
(* versions of a file apart.                                               *)
(***************************************************************************)
EXTENDS Squash

CONSTANTS d, x, y, e, m, dir, f1, f2

DeepPaths   == {d, x, y, m}
DeepBeneath ==
  [p \in DeepPaths |-> IF p = d THEN {x, y, m} ELSE IF p = x THEN {y} ELSE {}]

FlatPaths   == {d, x, e}
FlatBeneath == [p \in FlatPaths |-> IF p = d THEN {x} ELSE {}]

MCEntries == {dir, f1, f2}
MCDirs    == {dir}
=============================================================================
