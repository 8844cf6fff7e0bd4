---------------------------- MODULE MCFileStorage ----------------------------
(***************************************************************************)
(* FileStorage as TLC checks it: two goroutines of one process and one of  *)
(* another, each process with a File of its own for the path.              *)
(***************************************************************************)
EXTENDS FileStorage

CONSTANTS g3, f1, f2

FileOfTwo(g) == IF g = g3 THEN f2 ELSE f1
=============================================================================
