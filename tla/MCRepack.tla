------------------------------ MODULE MCRepack ------------------------------
(***************************************************************************)
(* The instances of MCSquash, saved and unpacked.  A directory Docker makes*)
(* itself is told apart from one an archive lists.                         *)
(***************************************************************************)
EXTENDS MCSquash, Repack, TLC

CONSTANT bare

AllEntries == MCEntries \cup {bare}
AllDirs    == MCDirs \cup {bare}

\* The two versions of a file differ in nothing else.
Versions == Permutations({f1, f2})
=============================================================================
