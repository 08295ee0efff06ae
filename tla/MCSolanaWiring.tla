---------------------------- MODULE MCSolanaWiring ----------------------------
(***************************************************************************)
(* TLC instance of the wiring: one remote, two operators, and an OFT that  *)
(* is handed over to a vault and moves to another peer.                    *)
(***************************************************************************)
EXTENDS SolanaWiring

CONSTANTS wallet, vault, a, b, d1, d2, opts, none

\* Two verifiers of which one must agree.
Uln(dvns) == [confirmations |-> 15, requiredDvns |-> {}, optionalDvns |-> dvns,
              optionalDvnThreshold |-> 1]

MCDefaultUln == [confirmations |-> 0, requiredDvns |-> {}, optionalDvns |-> {},
                 optionalDvnThreshold |-> 0]

MCUlnConfigs == {Uln({d1, d2})}

MCGoal(addr, key) ==
    [peer |-> [e \in Eids |-> addr], options |-> opts, uln |-> Uln({d1, d2}),
     delegate |-> key, owner |-> key]

MCGoals == [k \in {"OFT", "Governance"} |->
    IF k = "OFT" THEN <<MCGoal(a, wallet), MCGoal(b, vault)>>
                 ELSE <<MCGoal(a, wallet)>>]
=============================================================================
