----------------------- MODULE SolanaPeerLimits_proofs -----------------------
(***************************************************************************)
(* The two limiters of a peer of the Solana OFT are token buckets, for     *)
(* every u64, every parameter the admin may choose and every amount.       *)
(***************************************************************************)
EXTENDS SolanaPeerLimits, Operators_proofs

-----------------------------------------------------------------------------
\* The two limiters of a peer.

\* TypeOK in terms of one limiter.
LEMMA TypeOKAsSound ==
    TypeOK <=> /\ now \in 0..MaxTime
               /\ limiters \in [Flows -> Option(RateLimiter)]
               /\ \A d \in Flows : limiters[d] # NONE => Sound(limiters[d], now)
  BY DEF TypeOK, Sound, Option

\* The same after a step.
LEMMA TypeOKAsSoundNext ==
    TypeOK' <=> /\ now' \in 0..MaxTime
                /\ limiters' \in [Flows -> Option(RateLimiter)]
                /\ \A d \in Flows : limiters'[d] # NONE => Sound(limiters'[d], now')
  BY DEF TypeOK, Sound, Option

\* The clock stays within u64.
LEMMA TimeInU64 == ASSUME NEW t \in 0..MaxTime PROVE t \in U64
  BY U64Assumption, PeerLimitsAssumption DEF U64

\* Types hold at the start.
LEMMA TypeOKInit == Init => TypeOK
  BY U64Assumption, PeerLimitsAssumption DEF Init, TypeOK, Option, U64

\* Types hold after each step.
LEMMA TypeOKStep == TypeOK /\ [Next]_vars => TypeOK'
<1> SUFFICES ASSUME TypeOK, [Next]_vars PROVE TypeOK'
  OBVIOUS
<1>1. /\ now \in 0..MaxTime /\ now \in U64
      /\ limiters \in [Flows -> Option(RateLimiter)]
      /\ \A d \in Flows : limiters[d] # NONE => Sound(limiters[d], now)
  BY TypeOKAsSound, TimeInU64
<1>2. ASSUME NEW d \in Flows, NEW amount \in Amounts, PassAmount(d, amount)
      PROVE  TypeOK'
  <2>1. amount \in U64 /\ ~ PassFails(limiters, d, amount, now)
    BY <1>2, PeerLimitsAssumption DEF PassAmount
  <2>2. limiters' = Pass(limiters, d, amount, now) /\ now' = now
    BY <1>2 DEF PassAmount
  <2>3. /\ limiters' \in [Flows -> Option(RateLimiter)]
        /\ \A e \in Flows : limiters'[e] # NONE => Sound(limiters'[e], now)
    BY <1>1, <2>1, <2>2, PassFacts
  <2> QED
    BY <1>1, <2>2, <2>3, TypeOKAsSoundNext
<1>3. ASSUME NEW d \in Flows, NEW params \in LimitChoices, SetPeerConfig(d, params)
      PROVE  TypeOK'
  <2> DEFINE new == UpdateRateLimiter(limiters[d], params, now)
  <2>1. limiters' = [limiters EXCEPT ![d] = new] /\ now' = now
    BY <1>3 DEF SetPeerConfig
  <2>2. new # NONE => Sound(new, now)
    <3>1. CASE params = NONE
      BY <3>1 DEF UpdateRateLimiter
    <3>2. CASE params # NONE
      <4>1. params \in RateLimitParams /\ limiters[d] \in Option(RateLimiter)
        BY <1>1, <3>2, PeerLimitsAssumption DEF Option
      <4> QED
        BY <1>1, <3>2, <4>1, UpdateFacts
    <3> QED
      BY <3>1, <3>2
  <2> HIDE DEF new
  <2>3. new \in Option(RateLimiter)
    BY <2>2 DEF Sound, Option
  <2>4. /\ limiters' \in [Flows -> Option(RateLimiter)]
        /\ \A e \in Flows : limiters'[e] # NONE => Sound(limiters'[e], now)
    BY <1>1, <2>1, <2>2, <2>3
  <2> QED
    BY <1>1, <2>1, <2>4, TypeOKAsSoundNext
<1>4. CASE Tick
  <2>1. now' = now + 1 /\ now' \in 0..MaxTime /\ limiters' = limiters /\ now' \in U64
    BY <1>1, <1>4, PeerLimitsAssumption, U64Assumption DEF Tick, U64
  <2>2. \A d \in Flows : limiters[d] # NONE => Sound(limiters[d], now + 1)
    BY <1>1, <2>1, SecondLevel
  <2> QED
    BY <1>1, <2>1, <2>2, TypeOKAsSoundNext
<1>5. CASE UNCHANGED vars
  BY <1>5 DEF vars, TypeOK
<1> QED
  BY <1>2, <1>3, <1>4, <1>5 DEF Next

(***************************************************************************)
(* A limiter never holds more than its capacity, has never been refilled   *)
(* in the future, and no amount leaves u64.                                *)
(***************************************************************************)
THEOREM TypeCorrect == Spec => []TypeOK
<1>1. Init => TypeOK
  BY TypeOKInit
<1>2. TypeOK /\ [Next]_vars => TypeOK'
  BY TypeOKStep
<1> QED
  BY <1>1, <1>2, PTL DEF Spec

-----------------------------------------------------------------------------
\* The refinement.  B is the pair of buckets that the limiters stand for.
B == [d \in Flows |-> BucketOf(limiters[d], now)]

\* The bucket of a limiter has the limiter's level and shape.
LEMMA BucketFacts ==
    ASSUME NEW rl, NEW t \in U64, Sound(rl, t)
    PROVE  LET b == BucketOf(rl, t)
           IN  /\ b = [capacity |-> rl.capacity, level |-> FetchAvailableCapacity(rl, t),
                       rate |-> rl.refill_per_second, type |-> rl.rate_limiter_type]
               /\ b # NONE => rl # NONE
               /\ rl # NONE
               /\ b.capacity \in Nat /\ b.level \in Nat /\ b.level <= b.capacity
               /\ b.rate \in Nat
<1>1. rl \in RateLimiter /\ rl # NONE
  BY U64Assumption DEF Sound
<1>2. rl.capacity \in Nat /\ rl.refill_per_second \in Nat
  BY <1>1, U64Assumption DEF RateLimiter, U64
<1>3. FetchAvailableCapacity(rl, t) \in Nat /\ FetchAvailableCapacity(rl, t) <= rl.capacity
  BY <1>2, LevelFacts
<1> QED
  BY <1>1, <1>2, <1>3 DEF BucketOf

\* A bucket is a record and never the absent one.
LEMMA BucketNotNone ==
    ASSUME NEW rl, NEW t \in U64, Sound(rl, t)
    PROVE  BucketOf(rl, t) # NONE
<1>1. /\ rl.capacity \in U64 /\ rl.refill_per_second \in U64
      /\ rl.rate_limiter_type \in RateLimiterType
  BY DEF Sound, RateLimiter
<1>2. FetchAvailableCapacity(rl, t) \in U64
  <2>1. FetchAvailableCapacity(rl, t) \in 0..rl.capacity
    BY LevelFacts
  <2> QED
    BY <1>1, <2>1, U64Assumption DEF U64
<1>3. BucketOf(rl, t) \in Bucket
  <2>1. BucketOf(rl, t) = [capacity |-> rl.capacity, level |-> FetchAvailableCapacity(rl, t),
                           rate |-> rl.refill_per_second, type |-> rl.rate_limiter_type]
    BY BucketFacts
  <2> QED
    BY <1>1, <1>2, <2>1 DEF Bucket
<1> QED
  BY <1>3, PeerLimitsAssumption

\* Giving an amount back raises the bucket.
LEMMA RefillRaises ==
    ASSUME NEW rl, NEW t \in U64, Sound(rl, t), NEW extra \in U64
    PROVE  BucketOf(Refill(rl, extra, t), t) = Buckets!Raised(BucketOf(rl, t), extra)
<1> DEFINE new == Refill(rl, extra, t)
           level == FetchAvailableCapacity(rl, t)
<1>1. /\ new.available_capacity = Least(rl.capacity, level + extra)
      /\ new.last_refill_time = t
      /\ new.capacity = rl.capacity
      /\ new.refill_per_second = rl.refill_per_second
      /\ new.rate_limiter_type = rl.rate_limiter_type
  BY RefillLevel
<1>2. Sound(new, t)
  BY RefillFacts
<1>3. FetchAvailableCapacity(new, t) = Least(rl.capacity, level + extra)
  BY <1>1, <1>2, FreshLevel
<1>4. BucketOf(rl, t) = [capacity |-> rl.capacity, level |-> level,
                         rate |-> rl.refill_per_second, type |-> rl.rate_limiter_type]
  BY BucketFacts
<1> HIDE DEF new, level
<1>5. BucketOf(new, t) = [capacity |-> rl.capacity,
                          level |-> Least(rl.capacity, level + extra),
                          rate |-> rl.refill_per_second, type |-> rl.rate_limiter_type]
  BY <1>1, <1>2, <1>3, BucketFacts
<1>6. level \in Nat /\ extra \in Nat /\ rl.capacity \in Nat
  BY LevelFacts, U64Assumption DEF Sound, RateLimiter, U64, level
<1>7. Least(rl.capacity, level + extra)
        = IF level + extra <= rl.capacity THEN level + extra ELSE rl.capacity
  BY <1>6 DEF Least
<1> QED
  BY <1>4, <1>5, <1>7 DEF Buckets!Raised, new

\* A second raises the bucket by its rate.
LEMMA SecondRaises ==
    ASSUME NEW rl, NEW t \in U64, Sound(rl, t), t + 1 \in U64
    PROVE  BucketOf(rl, t + 1) = Buckets!Raised(BucketOf(rl, t), BucketOf(rl, t).rate)
<1> DEFINE level == FetchAvailableCapacity(rl, t)
           rate == rl.refill_per_second
<1>1. Sound(rl, t + 1) /\ FetchAvailableCapacity(rl, t + 1) = Least(rl.capacity, level + rate)
  BY SecondLevel
<1>2. BucketOf(rl, t) = [capacity |-> rl.capacity, level |-> level,
                         rate |-> rate, type |-> rl.rate_limiter_type]
  BY BucketFacts
<1>3. BucketOf(rl, t + 1) = [capacity |-> rl.capacity, level |-> Least(rl.capacity, level + rate),
                             rate |-> rate, type |-> rl.rate_limiter_type]
  BY <1>1, BucketFacts
<1>4. level \in Nat /\ rate \in Nat /\ rl.capacity \in Nat
  BY LevelFacts, U64Assumption DEF Sound, RateLimiter, U64
<1> HIDE DEF level, rate
<1>5. Least(rl.capacity, level + rate)
        = IF level + rate <= rl.capacity THEN level + rate ELSE rl.capacity
  BY <1>4 DEF Least
<1> QED
  BY <1>2, <1>3, <1>5 DEF Buckets!Raised

\* No limiter, no bucket.
LEMMA InitBuckets == Init => Buckets!Init
  BY DEF Init, Buckets!Init, Buckets!Sides, Flows, BucketOf

\* An amount that passes is taken from one bucket and given to the other.
LEMMA PassTakes ==
    ASSUME TypeOK, NEW d \in Flows, NEW amount \in Amounts, PassAmount(d, amount)
    PROVE  Buckets!Take(d, amount)
<1> DEFINE o == Reversed(d)
           isNet == limiters[o] # NONE /\ limiters[o].rate_limiter_type = "Net"
<1>1. amount \in U64 /\ ~ PassFails(limiters, d, amount, now)
  BY PeerLimitsAssumption DEF PassAmount
<1>2. limiters' = Pass(limiters, d, amount, now) /\ now' = now
  BY DEF PassAmount
<1>3. /\ now \in U64 /\ limiters[d] # NONE
      /\ limiters \in [Flows -> Option(RateLimiter)]
      /\ \A e \in Flows : limiters[e] # NONE => Sound(limiters[e], now)
  BY <1>1, TypeOKAsSound, TimeInU64 DEF PassFails
<1>4. /\ o \in Flows /\ o # d /\ Flows = {d, o}
      /\ limiters'[d] = TryConsume(limiters[d], amount, now)
      /\ Sound(limiters'[d], now)
      /\ isNet => limiters'[o] = Refill(limiters[o], amount, now)
      /\ ~ isNet => limiters'[o] = limiters[o]
  BY <1>1, <1>2, <1>3, PassFacts
<1> DEFINE old == limiters[d]
           level == FetchAvailableCapacity(old, now)
<1>5. Sound(old, now) /\ ~ TryConsumeFails(old, amount, now)
  BY <1>1, <1>3 DEF PassFails
<1>6. amount <= level
  <2>1. level \in Nat /\ amount \in Nat
    BY <1>1, <1>3, <1>5, LevelFacts, U64Assumption DEF U64, Sound, RateLimiter
  <2> QED
    BY <1>5, <2>1 DEF TryConsumeFails
<1>7. /\ FetchAvailableCapacity(limiters'[d], now) = level - amount
      /\ limiters'[d].capacity = old.capacity
      /\ limiters'[d].refill_per_second = old.refill_per_second
      /\ limiters'[d].rate_limiter_type = old.rate_limiter_type
  BY <1>1, <1>3, <1>4, <1>5, ConsumeLevel
<1>8. /\ B[d] = [capacity |-> old.capacity, level |-> level,
                 rate |-> old.refill_per_second, type |-> old.rate_limiter_type]
      /\ B[d] # NONE
  <2>1. B[d] = BucketOf(old, now)
    BY DEF B
  <2>2. BucketOf(old, now) = [capacity |-> old.capacity, level |-> level,
                 rate |-> old.refill_per_second, type |-> old.rate_limiter_type]
    BY <1>3, <1>5, BucketFacts
  <2>3. BucketOf(old, now) # NONE
    BY <1>3, <1>5, BucketNotNone
  <2> QED
    BY <2>1, <2>2, <2>3
<1>9. BucketOf(limiters'[d], now) = [B[d] EXCEPT !.level = @ - amount]
  <2>1. BucketOf(limiters'[d], now) =
            [capacity |-> old.capacity, level |-> level - amount,
             rate |-> old.refill_per_second, type |-> old.rate_limiter_type]
    BY <1>3, <1>4, <1>7, BucketFacts
  <2> HIDE DEF old, level
  <2> QED
    BY <1>8, <2>1
<1>10. BucketOf(limiters'[o], now) =
          IF B[o] = NONE \/ B[o].type # "Net" THEN B[o] ELSE Buckets!Raised(B[o], amount)
  <2>1. B[o] = BucketOf(limiters[o], now)
    BY <1>4 DEF B
  <2>2. CASE limiters[o] = NONE
    BY <1>4, <2>1, <2>2 DEF BucketOf
  <2>3. CASE limiters[o] # NONE
    <3>1. Sound(limiters[o], now)
      BY <1>3, <1>4, <2>3
    <3>2. B[o].type = limiters[o].rate_limiter_type /\ B[o] # NONE
      BY <1>3, <2>1, <3>1, BucketFacts, BucketNotNone
    <3>3. isNet => BucketOf(limiters'[o], now) = Buckets!Raised(B[o], amount)
      BY <1>1, <1>3, <1>4, <2>1, <3>1, RefillRaises
    <3> QED
      BY <1>4, <2>1, <2>3, <3>2, <3>3
  <2> QED
    BY <2>2, <2>3
<1>11. B' = [B EXCEPT ![d].level = @ - amount,
                      ![o] = IF B[o] = NONE \/ B[o].type # "Net" THEN B[o]
                             ELSE Buckets!Raised(B[o], amount)]
  <2>1. B' = [e \in Flows |-> BucketOf(limiters'[e], now)]
    BY <1>2 DEF B
  <2>2. DOMAIN B = Flows
    BY DEF B
  <2> HIDE DEF o
  <2>3. B \in [Flows -> {B[e] : e \in Flows}]
    BY DEF B
  <2> QED
    BY <1>4, <1>9, <1>10, <2>1, <2>2, <2>3
<1>12. /\ d \in Buckets!Sides /\ Buckets!Other(d) = o
       /\ B[d].level = level
  BY <1>8 DEF Buckets!Sides, Buckets!Other, Reversed, Flows
<1> QED
  BY <1>6, <1>8, <1>11, <1>12 DEF Buckets!Take, B

\* A configuration call removes the bucket or sets it up.
LEMMA ConfigSetsUp ==
    ASSUME TypeOK, NEW d \in Flows, NEW params \in LimitChoices, SetPeerConfig(d, params)
    PROVE  Buckets!Remove(d) \/ Buckets!Setup(d)
<1> DEFINE old == limiters[d]
           new == UpdateRateLimiter(old, params, now)
<1>1. /\ limiters \in [Flows -> Option(RateLimiter)] /\ now \in U64
      /\ old \in Option(RateLimiter)
      /\ old # NONE => Sound(old, now)
  BY TypeOKAsSound, TimeInU64
<1>2. limiters' = [limiters EXCEPT ![d] = new] /\ now' = now
  BY DEF SetPeerConfig
<1>3. B' = [B EXCEPT ![d] = BucketOf(new, now)]
  <2> HIDE DEF new
  <2>1. \A e \in Flows : limiters'[e] = IF e = d THEN new ELSE limiters[e]
    BY <1>1, <1>2
  <2>2. B' = [e \in Flows |-> BucketOf(limiters'[e], now)]
    BY <1>2 DEF B
  <2> QED
    BY <2>1, <2>2 DEF B
<1>4. CASE params = NONE
  <2>1. BucketOf(new, now) = NONE
    BY <1>4 DEF UpdateRateLimiter, BucketOf
  <2> QED
    BY <1>3, <2>1 DEF Buckets!Remove, B
<1>5. CASE params # NONE
  <2>1. params \in RateLimitParams
    BY <1>5, PeerLimitsAssumption DEF Option
  <2>2. /\ new # NONE
        /\ Sound(new, now)
        /\ \/ FetchAvailableCapacity(new, now) = new.capacity
           \/ /\ old # NONE
              /\ new.capacity = old.capacity
              /\ FetchAvailableCapacity(new, now) = FetchAvailableCapacity(old, now)
    BY <1>1, <1>5, <2>1, UpdateFacts
  <2> HIDE DEF new
  <2>3. B[d] = BucketOf(old, now) /\ B'[d] = BucketOf(new, now)
    BY <1>3 DEF B
  <2>4. /\ BucketOf(new, now).level = FetchAvailableCapacity(new, now)
        /\ BucketOf(new, now).capacity = new.capacity
        /\ BucketOf(new, now) # NONE
    BY <1>1, <2>2, BucketFacts, BucketNotNone
  <2>5. old # NONE => /\ BucketOf(old, now).level = FetchAvailableCapacity(old, now)
                      /\ BucketOf(old, now).capacity = old.capacity
                      /\ BucketOf(old, now) # NONE
    BY <1>1, BucketFacts, BucketNotNone
  <2>6. B' = [B EXCEPT ![d] = B'[d]]
    BY <1>3, <2>3
  <2>7. B'[d] # NONE
    BY <2>3, <2>4
  <2>8. \/ B'[d].level = B'[d].capacity
        \/ B[d] # NONE /\ B'[d].level = B[d].level /\ B'[d].capacity = B[d].capacity
    BY <2>2, <2>3, <2>4, <2>5
  <2> QED
    BY <2>6, <2>7, <2>8 DEF Buckets!Setup, B
<1> QED
  BY <1>4, <1>5

\* A second passes for both buckets.
LEMMA TickIsSecond == ASSUME TypeOK, Tick PROVE Buckets!Second
<1>1. now' = now + 1 /\ limiters' = limiters /\ now \in U64 /\ now + 1 \in U64
  <2>1. now \in 0..MaxTime /\ now < MaxTime /\ now' = now + 1 /\ limiters' = limiters
    BY TypeOKAsSound DEF Tick
  <2> QED
    BY <2>1, U64Assumption, PeerLimitsAssumption DEF U64
<1>2. B' = [d \in Flows |-> BucketOf(limiters[d], now + 1)]
  BY <1>1 DEF B
<1>3. ASSUME NEW d \in Flows
      PROVE  BucketOf(limiters[d], now + 1) =
                IF B[d] = NONE THEN NONE ELSE Buckets!Raised(B[d], B[d].rate)
  <2>1. B[d] = BucketOf(limiters[d], now)
    BY DEF B
  <2>2. CASE limiters[d] = NONE
    BY <2>1, <2>2 DEF BucketOf
  <2>3. CASE limiters[d] # NONE
    <3>1. Sound(limiters[d], now)
      BY <2>3, TypeOKAsSound
    <3> QED
      BY <1>1, <2>1, <3>1, BucketNotNone, SecondRaises
  <2> QED
    BY <2>2, <2>3
<1>4. B' = [s \in Flows |-> IF B[s] = NONE THEN NONE ELSE Buckets!Raised(B[s], B[s].rate)]
  BY <1>2, <1>3
<1>5. Buckets!Sides = Flows
  BY DEF Buckets!Sides, Flows
<1> QED
  BY <1>4, <1>5 DEF Buckets!Second, B

\* Every step maps to a step of the buckets or changes nothing.
LEMMA BucketStep == TypeOK /\ [Next]_vars => [Buckets!Next]_B
<1> SUFFICES ASSUME TypeOK, [Next]_vars PROVE [Buckets!Next]_B
  OBVIOUS
<1>0. Buckets!Sides = Flows
  BY DEF Buckets!Sides, Flows
<1>1. ASSUME NEW d \in Flows, NEW amount \in Amounts, PassAmount(d, amount)
      PROVE  Buckets!Next
  <2>1. Buckets!Take(d, amount)
    BY <1>1, PassTakes
  <2> QED
    BY <1>0, <2>1 DEF Buckets!Next
<1>2. ASSUME NEW d \in Flows, NEW params \in LimitChoices, SetPeerConfig(d, params)
      PROVE  Buckets!Next
  <2>1. Buckets!Remove(d) \/ Buckets!Setup(d)
    BY <1>2, ConfigSetsUp
  <2> QED
    BY <1>0, <2>1 DEF Buckets!Next
<1>3. ASSUME Tick PROVE Buckets!Next
  <2>1. Buckets!Second
    BY <1>3, TickIsSecond
  <2> QED
    BY <2>1 DEF Buckets!Next
<1>4. CASE UNCHANGED vars
  BY <1>4 DEF vars, B
<1> QED
  BY <1>1, <1>2, <1>3, <1>4 DEF Next

(***************************************************************************)
(* The lazily refilled, saturating limiters implement buckets that are     *)
(* filled every second, for all capacities, rates, types and amounts.      *)
(***************************************************************************)
THEOREM LimitersImplementBuckets == Spec => ImplementsBuckets
<1>1. Init => TypeOK /\ Buckets!Init
  BY TypeOKInit, InitBuckets
<1>2. TypeOK /\ [Next]_vars => TypeOK'
  BY TypeOKStep
<1>3. TypeOK /\ [Next]_vars => [Buckets!Next]_B
  BY BucketStep
<1> QED
  BY <1>1, <1>2, <1>3, PTL DEF Spec, ImplementsBuckets, Buckets!Spec, B
=============================================================================
