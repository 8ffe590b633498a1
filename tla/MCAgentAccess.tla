--------------------------- MODULE MCAgentAccess ---------------------------
(***************************************************************************)
(* Values for TLC of the constants of AgentAccess.                         *)
(***************************************************************************)
EXTENDS AgentAccess, TLC

CONSTANTS a1, Expiry

OneLifetime == a1 :> Expiry
Symmetry == Permutations(Requests)

\* What no step and no property tells apart: an entry or a token past its
\* time and none at all, one revoked_at and another.
View ==
  <<now, status, stopped, running, cut, req, revoking, cleanup,
    [a \in Agents |-> IF held[a].until > now + Skew THEN held[a] ELSE NoToken],
    [a \in Agents |-> ledger[a] = Never],
    [p \in Processes |-> [a \in Agents |->
       IF Fresh(cache[p][a]) THEN cache[p][a] ELSE NoEntry]]>>
=============================================================================
