---------------------------- MODULE BridgeLedger ----------------------------
(***************************************************************************)
(* What a lock-and-mint bridge promises, in shared units: an amount leaves *)
(* one place and arrives in one other, once.  Hub is the place whose own   *)
(* tokens are locked; the other places issue claims on what is locked.     *)
(***************************************************************************)
EXTENDS Integers, Functions

CONSTANTS Hub, Spokes,
    MaxAmount   \* the largest amount that can be moved at once

VARIABLES
    locked,     \* locked at the hub
    issued,     \* issued at each other place
    moving,     \* departed and not yet arrived
    count       \* departures so far

vars == <<locked, issued, moving, count>>

Places == {Hub} \cup Spokes

Init ==
    /\ locked = 0
    /\ issued = [s \in Spokes |-> 0]
    /\ moving = {}
    /\ count = 0

Departed(to, amount) ==
    /\ count' = count + 1
    /\ moving' = moving \cup {[id |-> count + 1, dst |-> to, amount |-> amount]}

\* An amount departs from the hub: it is locked there.
Lock(to, amount) ==
    /\ locked' = locked + amount
    /\ Departed(to, amount)
    /\ UNCHANGED issued

\* An amount departs from another place: what was issued there is redeemed.
Redeem(from, to, amount) ==
    /\ amount <= issued[from]
    /\ issued' = [issued EXCEPT ![from] = @ - amount]
    /\ Departed(to, amount)
    /\ UNCHANGED locked

Unlock(m) ==
    /\ m.dst = Hub
    /\ locked' = locked - m.amount
    /\ moving' = moving \ {m}
    /\ UNCHANGED <<issued, count>>

Issue(m) ==
    /\ m.dst \in Spokes
    /\ issued' = [issued EXCEPT ![m.dst] = @ + m.amount]
    /\ moving' = moving \ {m}
    /\ UNCHANGED <<locked, count>>

Next ==
    \/ \E to \in Spokes, amount \in 0..MaxAmount : Lock(to, amount)
    \/ \E from \in Spokes, to \in Places, amount \in 0..MaxAmount : Redeem(from, to, amount)
    \/ \E m \in moving : Unlock(m) \/ Issue(m)

Spec == Init /\ [][Next]_vars

-----------------------------------------------------------------------------
(***************************************************************************)
(* Every issued claim and every amount on its way is backed by exactly one *)
(* locked unit.                                                            *)
(***************************************************************************)
Backed == locked = SumFunction(issued) + SumFunction([m \in moving |-> m.amount])
=============================================================================
