----------------------------- MODULE MCRamDisk -----------------------------
(* A RAM disk of two sectors, written whole, or beyond its end.           *)
EXTENDS RamDisk

SomeWrites == {<<0, 2>>, <<1, 2>>}
=============================================================================
