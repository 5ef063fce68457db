---------------------------- MODULE MCRequester -----------------------------
(* A small instance of Requester for TLC. *)
EXTENDS Requester, TLC

CONSTANTS c1, c2

MCChunks == {c1, c2}

MCSymmetry == Permutations(MCChunks)
=============================================================================
