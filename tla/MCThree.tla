----------------------------- MODULE MCThree -----------------------------
(* A server_config with three entries.                                     *)
EXTENDS Controller

CONSTANTS a, b, d, c1

Hosts     == <<a, b, d>>
OneConfig == [n \in {a, b, d} |-> c1]
=============================================================================
