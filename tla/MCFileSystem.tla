--------------------------- MODULE MCFileSystem ---------------------------
(* The log and one other file, of up to three bytes each, and a block of   *)
(* two: a write of three bytes needs more room than one block, and one     *)
(* byte written two past the end of an empty file overruns it.             *)
EXTENDS FileSystem, TLC

CONSTANTS a, b

MCBytes == {a, b}
MCChunks == {<<a>>, <<b, a, b>>}
HandleSymmetry == Permutations(Handles)
=============================================================================
