-------------------------- MODULE SolanaRateLimits --------------------------
(***************************************************************************)
(* The token buckets of one peer of the Solana OFT: RateLimiter and what   *)
(* send, lz_receive and set_peer_config do with the two limiters of a      *)
(* PeerConfig.  Operators only.  Sources:                                  *)
(* programs/oft/src/state/peer_config.rs, instructions/set_peer_config.rs, *)
(* instructions/send.rs, instructions/lz_receive.rs.                       *)
(*                                                                         *)
(* A bucket is refilled lazily: available_capacity is what it held at      *)
(* last_refill_time.  All amounts are u64; the additions and the           *)
(* multiplication of a refill saturate.                                    *)
(***************************************************************************)
EXTENDS Integers

CONSTANTS
    NONE,       \* Option::None
    MaxU64      \* u64::MAX

Flows == {"outbound", "inbound"}
Reversed(d) == IF d = "outbound" THEN "inbound" ELSE "outbound"

U64 == 0..MaxU64
Option(S) == S \cup {NONE}

RateLimiterType == {"Net", "Gross"}

RateLimiter == [capacity : U64, available_capacity : U64,
                refill_per_second : U64, last_refill_time : U64,
                rate_limiter_type : RateLimiterType]

RateLimitParams == [refill_per_second : Option(U64), capacity : Option(U64),
                    rate_limiter_type : Option(RateLimiterType)]

ASSUME U64Assumption == MaxU64 \in Nat /\ NONE \notin RateLimiter \cup U64 \cup RateLimiterType

Least(a, b) == IF a <= b THEN a ELSE b
Saturated(n) == Least(n, MaxU64)

\* What the passing of time adds, whatever room there is.
Gained(rl, now) ==
    IF now > rl.last_refill_time
    THEN Saturated((now - rl.last_refill_time) * rl.refill_per_second)
    ELSE 0

\* Mutant: the capacity is no bound for what is given back.
RefillOverflowing(rl, extra, now) ==
    [rl EXCEPT !.available_capacity = Saturated(Least(@ + Gained(rl, now), rl.capacity) + extra),
               !.last_refill_time = now]

Refill(rl, extra, now) ==
    [rl EXCEPT !.available_capacity =
                   Least(rl.capacity, Saturated(@ + Saturated(extra + Gained(rl, now)))),
               !.last_refill_time = now]

FetchAvailableCapacity(rl, now) == Refill(rl, 0, now).available_capacity

TryConsumeFails(rl, amount, now) == amount > FetchAvailableCapacity(rl, now)

TryConsume(rl, amount, now) ==
    [Refill(rl, 0, now) EXCEPT !.available_capacity = @ - amount]

-----------------------------------------------------------------------------
(***************************************************************************)
(* An amount passes a peer in direction d: its limiter must exist and is   *)
(* consumed; the other one, if there is one and its own type is Net, gets  *)
(* the amount back.                                                        *)
(***************************************************************************)
PassFails(limiters, d, amount, now) ==
    \/ limiters[d] = NONE
    \/ TryConsumeFails(limiters[d], amount, now)

\* Mutant: the type of the limiter that is consumed decides about the other.
PassByOwnType(limiters, d, amount, now) ==
    LET back == limiters[Reversed(d)]
    IN  [limiters EXCEPT
            ![d] = TryConsume(@, amount, now),
            ![Reversed(d)] = IF back # NONE /\ limiters[d].rate_limiter_type = "Net"
                             THEN Refill(back, amount, now) ELSE @]

Pass(limiters, d, amount, now) ==
    LET back == limiters[Reversed(d)]
        isNet == back # NONE /\ back.rate_limiter_type = "Net"
    IN  [limiters EXCEPT
            ![d] = TryConsume(@, amount, now),
            ![Reversed(d)] = IF isNet THEN Refill(back, amount, now) ELSE @]

-----------------------------------------------------------------------------
(***************************************************************************)
(* update_rate_limiter of set_peer_config: None removes the limiter; the   *)
(* given parts of the parameters are set, the capacity first.              *)
(***************************************************************************)
DefaultRateLimiter ==
    [capacity |-> 0, available_capacity |-> 0, refill_per_second |-> 0,
     last_refill_time |-> 0, rate_limiter_type |-> "Net"]

SetCapacity(rl, capacity, now) ==
    [rl EXCEPT !.capacity = capacity, !.available_capacity = capacity,
               !.last_refill_time = now]

\* Mutant: the time since the last refill is left to count at the new rate.
SetRateRetroactive(rl, rate, now) == [rl EXCEPT !.refill_per_second = rate]

SetRate(rl, rate, now) == [Refill(rl, 0, now) EXCEPT !.refill_per_second = rate]

UpdateRateLimiter(limiter, params, now) ==
    LET old == IF limiter = NONE THEN DefaultRateLimiter ELSE limiter
        sized == IF params.capacity = NONE THEN old ELSE SetCapacity(old, params.capacity, now)
        rated == IF params.refill_per_second = NONE THEN sized
                 ELSE SetRate(sized, params.refill_per_second, now)
        typed == IF params.rate_limiter_type = NONE THEN rated
                 ELSE [rated EXCEPT !.rate_limiter_type = params.rate_limiter_type]
    IN  IF params = NONE THEN NONE ELSE typed
=============================================================================
