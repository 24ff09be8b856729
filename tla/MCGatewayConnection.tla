------------------------ MODULE MCGatewayConnection ------------------------
(***************************************************************************)
(* GatewayConnection with two timer handles, three handlers of             *)
(* connection.update at once and five attempts.                            *)
(***************************************************************************)
EXTENDS GatewayConnection
=============================================================================
