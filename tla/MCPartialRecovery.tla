-------------------------- MODULE MCPartialRecovery --------------------------
(* Two runs of a session, the load of run_turn and other processes that open *)
(* the session.  Inodes are interchangeable.                                 *)
EXTENDS PartialRecovery, TLC

InodeSymmetry == Permutations(Inodes)
=============================================================================
