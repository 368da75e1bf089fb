------------------------- MODULE MCBridgeTransport -------------------------
(* Small instances of BridgeTransport for TLC. *)
EXTENDS BridgeTransport

MCTargets == {0, 1}
=============================================================================
