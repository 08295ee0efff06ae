-------------------------- MODULE MCSkyOFTMeshLive --------------------------
(***************************************************************************)
(* TLC instance of the mesh under fairness: a hub and one mint-and-burn    *)
(* chain whose limit is larger than the hub's, so that it sends messages   *)
(* that use up part of the hub's limit, all of it, or do not fit it.       *)
(* There is no fee, which would take tokens out of the traffic.  The hub   *)
(* counts gross, so that traffic back does not free its inbound limit.     *)
(***************************************************************************)
EXTENDS SkyOFTMeshLive

CONSTANT A          \* the chain of Spokes

MCRate == [c \in Chains |-> 1]

MCInitialFeeBps == [c \in Chains |-> 0]

MCConfig == [c \in Chains |-> [limit |-> IF c = Hub THEN 2 ELSE 3, window |-> 2]]

MCAccounting == [c \in Chains |-> IF c = Hub THEN "Gross" ELSE "Net"]
=============================================================================
