---------------------------- MODULE MCBridgeTokens ----------------------------
(***************************************************************************)
(* Values for TLC of the constants of BridgeTokens.                        *)
(***************************************************************************)
EXTENDS BridgeTokens, TLC

CONSTANTS a1, a2, read, send

OneScopeEach == a1 :> {read} @@ a2 :> {send}
Both     == {a1, a2}
Either   == BOOLEAN
Symmetry == Permutations(Requests) \union Permutations(Calls)
=============================================================================
