----------------------------- MODULE MCFileLock -----------------------------
(* Instances of FileLock for TLC. *)
EXTENDS FileLock, TLC

CONSTANTS p1, p2, p3

MCProcess == {p1, p2, p3}

Symmetry == Permutations(MCProcess)
=============================================================================
