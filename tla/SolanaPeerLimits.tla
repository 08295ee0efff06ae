-------------------------- MODULE SolanaPeerLimits --------------------------
(***************************************************************************)
(* The two rate limiters of one PeerConfig account as a state machine.     *)
(* Clock::unix_timestamp never goes back (a property of the chain).        *)
(***************************************************************************)
EXTENDS SolanaRateLimits

CONSTANTS
    Amounts,        \* amounts (local decimals) that are sent or received
    LimitChoices,   \* parameters the admin chooses from
    MaxTime         \* bound on Clock::unix_timestamp

Bucket == [capacity : U64, level : U64, rate : U64, type : RateLimiterType]

ASSUME PeerLimitsAssumption ==
    /\ NONE \notin Bucket
    /\ Amounts \subseteq U64
    /\ LimitChoices \subseteq Option(RateLimitParams)
    /\ MaxTime \in U64

VARIABLES
    limiters,   \* outbound_rate_limiter and inbound_rate_limiter
    now         \* Clock::unix_timestamp

vars == <<limiters, now>>

Init ==
    /\ limiters = [d \in Flows |-> NONE]
    /\ now = 0

\* send (outbound) or lz_receive (inbound)
PassAmount(d, amount) ==
    /\ ~ PassFails(limiters, d, amount, now)
    /\ limiters' = Pass(limiters, d, amount, now)
    /\ UNCHANGED now

SetPeerConfig(d, params) ==
    /\ limiters' = [limiters EXCEPT ![d] = UpdateRateLimiter(@, params, now)]
    /\ UNCHANGED now

Tick ==
    /\ now < MaxTime
    /\ now' = now + 1
    /\ UNCHANGED limiters

Next ==
    \/ \E d \in Flows, amount \in Amounts : PassAmount(d, amount)
    \/ \E d \in Flows, params \in LimitChoices : SetPeerConfig(d, params)
    \/ Tick

Spec == Init /\ [][Next]_vars

-----------------------------------------------------------------------------
(***************************************************************************)
(* Types, and what keeps a bucket a bucket: it holds no more than its      *)
(* capacity and was refilled no later than now.                            *)
(***************************************************************************)
TypeOK ==
    /\ now \in 0..MaxTime
    /\ limiters \in [Flows -> Option(RateLimiter)]
    /\ \A d \in Flows : limiters[d] # NONE =>
        /\ limiters[d].available_capacity <= limiters[d].capacity
        /\ limiters[d].last_refill_time <= now

-----------------------------------------------------------------------------
\* The bucket a limiter stands for: one that is kept up to date all the time.
BucketOf(limiter, t) ==
    IF limiter = NONE THEN NONE
    ELSE [capacity |-> limiter.capacity, level |-> FetchAvailableCapacity(limiter, t),
          rate |-> limiter.refill_per_second, type |-> limiter.rate_limiter_type]

Buckets == INSTANCE TokenBuckets WITH
    NoBucket <- NONE,
    buckets <- [d \in Flows |-> BucketOf(limiters[d], now)]

(***************************************************************************)
(* Refilled only when they are touched, with saturating arithmetic, at any *)
(* intervals, in any order of sends, deliveries and changes of rate,       *)
(* capacity and type, the limiters of peer_config.rs behave as two buckets *)
(* that are filled every second.                                           *)
(***************************************************************************)
ImplementsBuckets == Buckets!Spec
=============================================================================
