------------------------- MODULE MCWorkDefinitions --------------------------
(***************************************************************************)
(* Values for TLC of the constants of WorkDefinitions.                     *)
(***************************************************************************)
EXTENDS WorkDefinitions, TLC

Symmetry ==
  Permutations(Texts) \union Permutations(Definitions)
    \union Permutations(Transactions) \union Permutations(Requests)
=============================================================================
