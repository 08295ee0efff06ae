---------------------------- MODULE MCSkyOFTMesh ----------------------------
(***************************************************************************)
(* TLC instances of the mesh: a hub and two mint-and-burn chains whose     *)
(* tokens have different numbers of decimals.                              *)
(***************************************************************************)
EXTENDS SkyOFTMesh

CONSTANTS A, B      \* the chains of Spokes

MCRate == [c \in Chains |-> CASE c = Hub -> 2 [] c = A -> 1 [] c = B -> 3]

MCInitialFeeBps == [c \in Chains |-> IF c = A THEN 0 ELSE 1]

MCNet == [c \in Chains |-> "Net"]

\* A window of one second that never passes within the run: what is sent adds up.
MCInitialConfig == [c \in Chains |-> [limit |-> 20, window |-> 1]]

\* For the runs with an active owner: two units pass per two seconds, which the
\* owner may lift to a limit whose decay overflows within its window.
MCTightConfig == [c \in Chains |-> [limit |-> 2, window |-> 2]]

MCConfigs == {[limit |-> 6, window |-> 3]}
=============================================================================
