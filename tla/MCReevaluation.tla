--------------------------- MODULE MCReevaluation ---------------------------
(***************************************************************************)
(* Values for TLC of the constants of Reevaluation.                        *)
(***************************************************************************)
EXTENDS Reevaluation, TLC

CONSTANTS a, b

\* Work that may want everything.
Everything == [w \in Works |-> Capabilities]

Symmetry == Permutations(Handlers)
=============================================================================
