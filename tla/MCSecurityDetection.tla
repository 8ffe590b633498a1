------------------------- MODULE MCSecurityDetection -------------------------
(***************************************************************************)
(* Values for TLC of the constants of SecurityDetection: two lines of one  *)
(* window of one agent.                                                    *)
(***************************************************************************)
EXTENDS SecurityDetection, TLC

CONSTANTS l1, l2, f1, a1

OneWindow == l1 :> f1 @@ l2 :> f1
OneAgent  == f1 :> a1

GraveThenLow == l1 :> CRITICAL @@ l2 :> LOW

Answer(response, confident) == [response |-> response, confident |-> confident]
EveryKind == {NoAnswer, Answer("ACTIVE", TRUE), Answer("SUSPICIOUS", TRUE),
              Answer("QUARANTINED", TRUE), Answer("SUSPICIOUS", FALSE)}

Symmetry == Permutations(Reviewers)
=============================================================================
