----------------------------- MODULE MCLinear -----------------------------
(* Two small devices; the range of an unsigned int is larger than both.    *)
EXTENDS LinearDevice, TLC

Small == <<2, 2>>

Contexts == Permutations(Submitter)
=============================================================================
