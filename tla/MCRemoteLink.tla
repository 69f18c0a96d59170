---------------------------- MODULE MCRemoteLink ----------------------------
(* The link to one server on small instances for TLC.                      *)
EXTENDS RemoteLink

CONSTANTS r1, r2

\* A name with a rig_id of its own and one for the server's default.
PairIds == ("hf" :> r1) @@ ("any" :> Wildcard)
=============================================================================
