---------------------------- MODULE MCBridgeSync ----------------------------
(* One bridge of one set, for the convergence of its installs. *)
EXTENDS BridgeSync, TLC

CONSTANTS bridge, set

TheSetOf == bridge :> set
TheManifests == set :> {<<1, 0>>, <<2, 0>>}
=============================================================================
