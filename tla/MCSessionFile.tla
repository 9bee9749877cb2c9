---------------------------- MODULE MCSessionFile ----------------------------
(* Two writers that append and rewrite.  Inodes are interchangeable, and so  *)
(* are the writers.                                                          *)
EXTENDS SessionFile, TLC

FileSymmetry == Permutations(Inodes) \cup Permutations(Writers)
=============================================================================
