---------------------------- MODULE TokenBuckets ----------------------------
(***************************************************************************)
(* What the two rate limits of a peer promise: a textbook token bucket for *)
(* each direction, filled by its rate each second and never above its      *)
(* capacity.  What passes one bucket flows back into a Net bucket of the   *)
(* other direction.                                                        *)
(***************************************************************************)
EXTENDS Integers

CONSTANTS NoBucket, Amounts

Sides == {"outbound", "inbound"}
Other(s) == IF s = "outbound" THEN "inbound" ELSE "outbound"

VARIABLE buckets    \* of each side: [capacity, level, rate, type] or NoBucket

Init == buckets = [s \in Sides |-> NoBucket]

Raised(b, amount) ==
    [b EXCEPT !.level = IF @ + amount <= b.capacity THEN @ + amount ELSE b.capacity]

\* One second passes.
Second ==
    buckets' = [s \in Sides |-> IF buckets[s] = NoBucket THEN NoBucket
                                ELSE Raised(buckets[s], buckets[s].rate)]

Take(s, amount) ==
    /\ buckets[s] # NoBucket
    /\ amount <= buckets[s].level
    /\ LET back == buckets[Other(s)]
       IN  buckets' = [buckets EXCEPT
               ![s].level = @ - amount,
               ![Other(s)] = IF back = NoBucket \/ back.type # "Net" THEN back
                             ELSE Raised(back, amount)]

Remove(s) == buckets' = [buckets EXCEPT ![s] = NoBucket]

\* A bucket may be set up or changed.  It is full if its capacity is set, and
\* its level is as it was otherwise.
Setup(s) ==
    /\ buckets'[s] # NoBucket
    /\ buckets' = [buckets EXCEPT ![s] = buckets'[s]]
    /\ \/ buckets'[s].level = buckets'[s].capacity
       \/ /\ buckets[s] # NoBucket
          /\ buckets'[s].level = buckets[s].level
          /\ buckets'[s].capacity = buckets[s].capacity

Next ==
    \/ Second
    \/ \E s \in Sides :
        \/ Remove(s)
        \/ Setup(s)
        \/ \E amount \in Amounts : Take(s, amount)

Spec == Init /\ [][Next]_buckets
=============================================================================
