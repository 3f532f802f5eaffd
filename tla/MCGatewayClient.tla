--------------------------- MODULE MCGatewayClient ---------------------------
(***************************************************************************)
(* Small instances of GatewayClient for TLC.                               *)
(***************************************************************************)
EXTENDS GatewayClient, TLC

CONSTANTS s1, s2, r1, r2

TwoSocks == {s1, s2}
TwoReceivers == {r1, r2}

=============================================================================
