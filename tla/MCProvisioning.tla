---------------------------- MODULE MCProvisioning ----------------------------
(***************************************************************************)
(* Values for TLC of the constants of Provisioning.                        *)
(***************************************************************************)
EXTENDS Provisioning

Nobody   == {}
Everyone == Agents
=============================================================================
