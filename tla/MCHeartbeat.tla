---------------------------- MODULE MCHeartbeat ----------------------------
(* Two peers; a round that may take longer than the limit, or not.         *)
EXTENDS Heartbeat
=============================================================================
