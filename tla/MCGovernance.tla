----------------------------- MODULE MCGovernance -----------------------------
(***************************************************************************)
(* TLC instance of the governance calls: two callers, a contract, and a    *)
(* program whose instructions need a lookup table.                         *)
(***************************************************************************)
EXTENDS Governance

CONSTANTS pauseProxy, spell, contract, program
=============================================================================
