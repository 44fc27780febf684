---------------------------- MODULE MCDeployment ----------------------------
(* One release of the small instances of Deployment for TLC. *)
EXTENDS Deployment
=============================================================================
