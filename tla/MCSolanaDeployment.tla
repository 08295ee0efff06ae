-------------------------- MODULE MCSolanaDeployment --------------------------
(***************************************************************************)
(* TLC instance of the deployment tasks.                                   *)
(***************************************************************************)
EXTENDS SolanaDeployment

CONSTANTS wallet, usds
=============================================================================
