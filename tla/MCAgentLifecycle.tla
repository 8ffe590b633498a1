-------------------------- MODULE MCAgentLifecycle --------------------------
(***************************************************************************)
(* Values for TLC of the constants of AgentLifecycle.                      *)
(***************************************************************************)
EXTENDS AgentLifecycle

\* Calls that are answered or fail, and all that a call can come to.
Answered  == {"ok", "unavailable"}
AnyAnswer == AnswerKinds

\* What the detector asks the transition route for: the response ladder of
\* security-detection without its last rung, and with it.
Escalations    == {"SUSPICIOUS", "QUARANTINED", "REVOKED"}
FullLadder     == Escalations \union {"DESTROYED"}
DetectorReason == {"QUARANTINE"}
=============================================================================
