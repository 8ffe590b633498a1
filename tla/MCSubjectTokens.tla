--------------------------- MODULE MCSubjectTokens ---------------------------
(***************************************************************************)
(* Values for TLC of the constants of SubjectTokens.                       *)
(***************************************************************************)
EXTENDS SubjectTokens, TLC

Everyone == Grants
Nobody   == {}
Symmetry ==
  Permutations(Requests) \union Permutations(Consents)
    \union Permutations(Subjects) \union Permutations(Cleanups)
=============================================================================
