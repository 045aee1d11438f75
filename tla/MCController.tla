--------------------------- MODULE MCController ---------------------------
(* Two servers, each with a dmbd_config of its own, as in the sample       *)
(* server_config of the repository.                                        *)
EXTENDS Controller

CONSTANTS a, b, c1, c2

Hosts     == <<a, b>>
OwnConfig == [n \in {a, b} |-> IF n = a THEN c1 ELSE c2]
=============================================================================
