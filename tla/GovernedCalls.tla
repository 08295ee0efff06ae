---------------------------- MODULE GovernedCalls ----------------------------
(***************************************************************************)
(* What governance over LayerZero promises: a call that was issued by a    *)
(* caller while it was permitted to is performed at most once, on the      *)
(* target it names, with the authority of the one who issued it.           *)
(***************************************************************************)
EXTENDS Naturals, Sequences

CONSTANTS Callers, Targets

VARIABLES
    permitted,  \* who may call what
    issued,     \* the calls issued so far
    performed   \* the calls performed: which, with whose authority, on what, and
                \* for which time

vars == <<permitted, issued, performed>>

Init == permitted = {} /\ issued = <<>> /\ performed = {}

Permit ==
    /\ permitted' \subseteq Callers \X Targets
    /\ UNCHANGED <<issued, performed>>

Issue(caller, target) ==
    /\ <<caller, target>> \in permitted
    /\ issued' = Append(issued, [caller |-> caller, target |-> target])
    /\ UNCHANGED <<permitted, performed>>

Perform(m) ==
    /\ \A p \in performed : p.call # m
    /\ performed' = performed \cup {
        [call |-> m, as |-> issued[m].caller, on |-> issued[m].target, time |-> 1]}
    /\ UNCHANGED <<permitted, issued>>

Next ==
    \/ Permit
    \/ \E caller \in Callers, target \in Targets : Issue(caller, target)
    \/ \E m \in DOMAIN issued : Perform(m)

Spec == Init /\ [][Next]_vars
=============================================================================
