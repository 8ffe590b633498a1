----------------------------- MODULE MCIdpTokens -----------------------------
(***************************************************************************)
(* Values for TLC of the constants of IdpTokens.                           *)
(***************************************************************************)
EXTENDS IdpTokens, TLC

Nothing    == {}
Everything == Grants
Symmetry   == Permutations(Requests)
=============================================================================
