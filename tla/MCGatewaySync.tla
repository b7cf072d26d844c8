--------------------------- MODULE MCGatewaySync ---------------------------
(* Small gateways for TLC.                                                  *)
EXTENDS GatewaySync, TLC

Symmetric == Permutations(Puller) \cup Permutations(Pusher) \cup Permutations(Code)

=============================================================================
