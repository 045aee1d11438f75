----------------------------- MODULE MCBackup -----------------------------
(* Writers are interchangeable.                                            *)
EXTENDS BackupQueue, TLC

WriterSymmetry == Permutations(Writer)
=============================================================================
