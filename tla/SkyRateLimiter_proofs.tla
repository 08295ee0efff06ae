----------------------- MODULE SkyRateLimiter_proofs -----------------------
(***************************************************************************)
(* Theorems about the rate limiter: type correctness, the envelope, and    *)
(* the two action properties of SkyRateLimiter.                            *)
(***************************************************************************)
EXTENDS SkyRateLimiterEnvelope, Operators_proofs

-----------------------------------------------------------------------------
\* The accounting of the envelope, carried over a charge and over a relief.

\* What is in flight or has decayed since start never shrinks as time passes.
LEMMA ProgressOfAccount ==
    ASSUME NEW rl \in RateLimit, NEW t \in Nat, rl.lastUpdated <= t,
           NEW start \in Nat, start <= rl.lastUpdated,
           rl.window > 0, rl.amountInFlight <= rl.limit
    PROVE  rl.amountInFlight + Decay(rl.limit, rl.lastUpdated - start, rl.window)
             <= CurrentAmountInFlight(rl, t) + Decay(rl.limit, t - start, rl.window)
<1>1. rl.amountInFlight \in Nat /\ rl.limit \in Nat /\ rl.window \in Nat
      /\ rl.lastUpdated \in Nat
  BY MaxUintAssumption DEF RateLimit
<1>2. rl.lastUpdated - start \in Nat /\ t - rl.lastUpdated \in Nat /\ t - start \in Nat
      /\ (rl.lastUpdated - start) + (t - rl.lastUpdated) = t - start
  BY <1>1
<1>3. Decay(rl.limit, rl.lastUpdated - start, rl.window)
        + Decay(rl.limit, t - rl.lastUpdated, rl.window)
      <= Decay(rl.limit, t - start, rl.window)
  BY <1>1, <1>2, DecaySuperadditive
<1>4. rl.amountInFlight <= CurrentAmountInFlight(rl, t)
                             + Decay(rl.limit, t - rl.lastUpdated, rl.window)
  BY InFlightDecays DEF Elapsed
<1>5. /\ Decay(rl.limit, rl.lastUpdated - start, rl.window) \in Nat
      /\ Decay(rl.limit, t - rl.lastUpdated, rl.window) \in Nat
      /\ Decay(rl.limit, t - start, rl.window) \in Nat
      /\ CurrentAmountInFlight(rl, t) \in Nat
  BY <1>1, <1>2, DecayNat, CurrentBound
<1> QED
  BY <1>1, <1>3, <1>4, <1>5

\* A charge within the available capacity keeps the account.
LEMMA AccountedCharge ==
    ASSUME NEW rl \in RateLimit, NEW t \in Nat, rl.lastUpdated <= t,
           NEW start \in Nat, start <= t, NEW u \in Nat, NEW r \in Nat,
           NEW amount \in Nat, amount <= AvailableCapacity(rl, t),
           Accounted(rl, start, u, r)
    PROVE  Accounted(Charge(rl, amount, t), start, u + amount, r)
<1> DEFINE new == Charge(rl, amount, t)
<1>1. rl.amountInFlight \in Nat /\ rl.limit \in Nat /\ rl.window \in Nat
      /\ rl.lastUpdated \in Nat
  BY MaxUintAssumption DEF RateLimit
<1>2. /\ new \in RateLimit
      /\ new.amountInFlight = CurrentAmountInFlight(rl, t) + amount
      /\ new.lastUpdated = t /\ new.limit = rl.limit /\ new.window = rl.window
      /\ new.amountInFlight <= rl.limit \/ amount = 0
  BY ChargeFacts
<1>3. CurrentAmountInFlight(rl, t) \in Nat
      /\ CurrentAmountInFlight(rl, t) <= rl.amountInFlight
  BY CurrentBound
<1>4. t - start \in Nat
  OBVIOUS
<1> HIDE DEF new
<1>5. CASE u = 0
  <2>1. CASE amount = 0
    BY <1>5, <2>1 DEF Accounted, new
  <2>2. CASE amount # 0
    <3>1. rl.window > 0 => Decay(rl.limit, t - start, rl.window) \in Nat
      BY <1>1, <1>4, DecayNat
    <3>2. rl.window > 0 =>
            u + amount <= new.amountInFlight
                            + Decay(rl.limit, t - start, rl.window) + r
      BY <1>2, <1>3, <1>5, <3>1
    <3> QED
      BY <1>2, <2>2, <3>2 DEF Accounted, new
  <2> QED
    BY <2>1, <2>2
<1>6. CASE u # 0
  <2>1. /\ start <= rl.lastUpdated
        /\ rl.amountInFlight <= rl.limit
        /\ rl.window > 0 =>
              u <= rl.amountInFlight
                     + Decay(rl.limit, rl.lastUpdated - start, rl.window) + r
    BY <1>6 DEF Accounted
  <2>2. new.amountInFlight <= new.limit
    BY <1>1, <1>2, <1>3, <2>1
  <2>3. ASSUME rl.window > 0
        PROVE  u + amount <= new.amountInFlight
                               + Decay(rl.limit, t - start, rl.window) + r
    <3>1. rl.amountInFlight + Decay(rl.limit, rl.lastUpdated - start, rl.window)
            <= CurrentAmountInFlight(rl, t) + Decay(rl.limit, t - start, rl.window)
      BY <2>1, <2>3, ProgressOfAccount
    <3>2. rl.lastUpdated - start \in Nat
      BY <1>1, <2>1
    <3>3. /\ Decay(rl.limit, rl.lastUpdated - start, rl.window) \in Nat
          /\ Decay(rl.limit, t - start, rl.window) \in Nat
      BY <1>1, <1>4, <2>3, <3>2, DecayNat
    <3> QED
      BY <1>1, <1>2, <1>3, <2>1, <2>3, <3>1, <3>3
  <2> QED
    BY <1>2, <2>2, <2>3 DEF Accounted, new
<1> QED
  BY <1>5, <1>6

\* A relief keeps the account: what it takes from the flight it books as relieved.
LEMMA AccountedRelieve ==
    ASSUME NEW rl \in RateLimit, NEW t \in Nat, rl.lastUpdated <= t,
           NEW start \in Nat, start <= t, NEW u \in Nat, NEW r \in Nat,
           NEW amount \in Nat, Accounted(rl, start, u, r)
    PROVE  Accounted(Relieve(rl, amount, t), start, u, r + amount)
<1> DEFINE new == Relieve(rl, amount, t)
<1>1. rl.amountInFlight \in Nat /\ rl.limit \in Nat /\ rl.window \in Nat
      /\ rl.lastUpdated \in Nat
  BY MaxUintAssumption DEF RateLimit
<1>2. /\ new.amountInFlight = Monus(CurrentAmountInFlight(rl, t), amount)
      /\ new.lastUpdated = t /\ new.limit = rl.limit /\ new.window = rl.window
  BY RelieveFacts
<1>3. CurrentAmountInFlight(rl, t) \in Nat
      /\ CurrentAmountInFlight(rl, t) <= rl.amountInFlight
  BY CurrentBound
<1> HIDE DEF new
<1>4. CASE u = 0
  BY <1>4 DEF Accounted
<1>5. CASE u # 0
  <2>1. /\ start <= rl.lastUpdated
        /\ rl.amountInFlight <= rl.limit
        /\ rl.window > 0 =>
              u <= rl.amountInFlight
                     + Decay(rl.limit, rl.lastUpdated - start, rl.window) + r
    BY <1>5 DEF Accounted
  <2>2. new.amountInFlight <= new.limit
    BY <1>1, <1>2, <1>3, <2>1 DEF Monus
  <2>3. ASSUME rl.window > 0
        PROVE  u <= new.amountInFlight
                      + Decay(rl.limit, t - start, rl.window) + (r + amount)
    <3>1. rl.amountInFlight + Decay(rl.limit, rl.lastUpdated - start, rl.window)
            <= CurrentAmountInFlight(rl, t) + Decay(rl.limit, t - start, rl.window)
      BY <2>1, <2>3, ProgressOfAccount
    <3>2. rl.lastUpdated - start \in Nat /\ t - start \in Nat
      BY <1>1, <2>1
    <3>3. /\ Decay(rl.limit, rl.lastUpdated - start, rl.window) \in Nat
          /\ Decay(rl.limit, t - start, rl.window) \in Nat
      BY <1>1, <2>3, <3>2, DecayNat
    <3>4. CurrentAmountInFlight(rl, t) <= new.amountInFlight + amount
      BY <1>2, <1>3 DEF Monus
    <3>5. new.amountInFlight \in Nat
      BY <1>2, <1>3 DEF Monus
    <3> QED
      BY <1>1, <1>3, <2>1, <2>3, <3>1, <3>3, <3>4, <3>5
  <2> QED
    BY <1>2, <2>2, <2>3 DEF Accounted, new
<1> QED
  BY <1>4, <1>5

-----------------------------------------------------------------------------
\* The facts about one eid, for the arrays and the state of the limiter.

\* One iteration of _setRateLimits, on a listed or an unlisted eid.
LEMMA SetIfListedFacts ==
    ASSUME now \in Nat, NEW pair, PairOK(pair, now), NEW d \in Directions,
           NEW eid \in Eids, NEW configs \in ConfigArrays,
           ~SetIfListedReverts(pair, eid, d, configs, rateLimitAccountingType, now)
    PROVE  LET new == SetIfListed(pair, eid, d, configs, rateLimitAccountingType, now)
           IN /\ PairOK(new, now)
              /\ eid \notin DOMAIN configs => new = pair
              /\ eid \in DOMAIN configs =>
                    new[d] = Configured(Charge(pair[d], 0, now), configs[eid])
              /\ \/ new[Opposite(d)] = pair[Opposite(d)]
                 \/ new[Opposite(d)] = Relieve(pair[Opposite(d)], 0, now)
<1>1. ConfigsOK(configs)
  BY EidsAmountsAssumption DEF ConfigArrays, ConfigsOK
<1> QED
  BY <1>1, ListedFacts

\* One iteration of _resetRateLimits, on a listed or an unlisted eid.
LEMMA ResetIfListedFacts ==
    ASSUME now \in Nat, NEW pair, PairOK(pair, now), NEW d \in Directions,
           NEW eid \in Eids, NEW eids \in SUBSET Eids
    PROVE  LET new == ResetIfListed(pair, eid, d, eids, now)
           IN /\ PairOK(new, now)
              /\ eid \notin eids => new = pair
              /\ new[Opposite(d)] = pair[Opposite(d)]
  BY ResetListedFacts

-----------------------------------------------------------------------------
\* Type correctness of the limiter, step by step.

\* The type invariant, eid by eid.
LEMMA PairsOK ==
    LimiterTypeOK <=> /\ rateLimitAccountingType \in AccountingTypes
                      /\ now \in Nat
                      /\ rateLimits \in [Eids -> RateLimitPair]
                      /\ \A eid \in Eids : PairOK(rateLimits[eid], now)
  BY DEF LimiterTypeOK, PairOK

\* The initial state of the limiter is well-typed.
LEMMA LimiterTypeInit == LimiterInit => LimiterTypeOK
<1> SUFFICES ASSUME LimiterInit PROVE LimiterTypeOK
  OBVIOUS
<1>1. NoRateLimit \in RateLimit /\ NoRateLimit.lastUpdated = 0
  BY MaxUintAssumption DEF NoRateLimit, RateLimit
<1> QED
  BY <1>1 DEF LimiterInit, LimiterTypeOK, AccountingTypes, RateLimitPair

\* Every step of the limiter keeps it well-typed.
LEMMA LimiterTypeStep ==
    LimiterTypeOK /\ [LimiterNext]_limiterVars => LimiterTypeOK'
<1> SUFFICES ASSUME LimiterTypeOK, [LimiterNext]_limiterVars PROVE LimiterTypeOK'
  OBVIOUS
<1> USE PairsOK
<1>0. /\ rateLimitAccountingType \in AccountingTypes
      /\ now \in Nat
      /\ rateLimits \in [Eids -> RateLimitPair]
      /\ \A eid \in Eids : PairOK(rateLimits[eid], now)
  OBVIOUS
<1>1. ASSUME NEW eid \in Eids, NEW d \in Directions, NEW amount \in Amounts,
             UpdateRateLimit(eid, d, amount)
      PROVE  LimiterTypeOK'
  <2> DEFINE new == CheckAndUpdateRateLimit(rateLimits[eid], d, amount,
                                            rateLimitAccountingType, now)
  <2>1. amount \in Nat
    BY EidsAmountsAssumption
  <2>2. PairOK(new, now)
    BY <1>0, <1>1, <2>1, CheckAndUpdateFacts DEF UpdateRateLimit
  <2>3. rateLimits' = [rateLimits EXCEPT ![eid] = new] /\ UNCHANGED <<rateLimitAccountingType, now>>
    BY <1>1 DEF UpdateRateLimit
  <2> HIDE DEF new
  <2> QED
    BY <1>0, <2>2, <2>3 DEF LimiterTypeOK, PairOK
<1>2. ASSUME NEW inbound \in ConfigArrays, NEW outbound \in ConfigArrays,
             SetRateLimits(inbound, outbound)
      PROVE  LimiterTypeOK'
  <2>1. ASSUME NEW eid \in Eids
        PROVE  PairOK(rateLimits'[eid], now)
    <3> DEFINE mid == SetIfListed(rateLimits[eid], eid, "Inbound", inbound, rateLimitAccountingType, now)
    <3>1. /\ ~SetIfListedReverts(rateLimits[eid], eid, "Inbound", inbound, rateLimitAccountingType, now)
          /\ ~SetIfListedReverts(mid, eid, "Outbound", outbound, rateLimitAccountingType, now)
          /\ rateLimits'[eid] = SetIfListed(mid, eid, "Outbound", outbound, rateLimitAccountingType, now)
      BY <1>0, <1>2 DEF SetRateLimits, SetAll, SetReverts
    <3>2. PairOK(mid, now)
      BY <1>0, <3>1, SetIfListedFacts DEF Directions
    <3> HIDE DEF mid
    <3> QED
      BY <1>0, <3>1, <3>2, SetIfListedFacts DEF Directions
  <2>2. rateLimits' \in [Eids -> RateLimitPair]
    BY <1>0, <1>2, <2>1 DEF SetRateLimits, SetAll, PairOK
  <2> QED
    BY <1>0, <1>2, <2>1, <2>2 DEF LimiterTypeOK, PairOK, SetRateLimits
<1>3. ASSUME NEW inbound \in SUBSET Eids, NEW outbound \in SUBSET Eids,
             ResetRateLimits(inbound, outbound)
      PROVE  LimiterTypeOK'
  <2>1. ASSUME NEW eid \in Eids
        PROVE  PairOK(rateLimits'[eid], now)
    <3> DEFINE mid == ResetIfListed(rateLimits[eid], eid, "Inbound", inbound, now)
    <3>1. rateLimits'[eid] = ResetIfListed(mid, eid, "Outbound", outbound, now)
      BY <1>0, <1>3 DEF ResetRateLimits, ResetAll
    <3>2. PairOK(mid, now)
      BY <1>0, <3>1, ResetIfListedFacts DEF Directions
    <3> HIDE DEF mid
    <3> QED
      BY <1>0, <3>1, <3>2, ResetIfListedFacts DEF Directions
  <2>2. rateLimits' \in [Eids -> RateLimitPair]
    BY <1>0, <1>3, <2>1 DEF ResetRateLimits, ResetAll, PairOK
  <2> QED
    BY <1>0, <1>3, <2>1, <2>2 DEF LimiterTypeOK, PairOK, ResetRateLimits
<1>4. ASSUME NEW accounting \in AccountingTypes, SetRateLimitAccountingType(accounting)
      PROVE  LimiterTypeOK'
  BY <1>0, <1>4 DEF SetRateLimitAccountingType, LimiterTypeOK, PairOK
<1>5. CASE Tick
  <2>1. now' \in Nat /\ now <= now'
    BY <1>0, <1>5 DEF Tick
  <2>2. \A eid \in Eids : PairOK(rateLimits[eid], now')
    BY <1>0, <2>1, PairLater
  <2> QED
    BY <1>0, <1>5, <2>1, <2>2 DEF Tick, LimiterTypeOK, PairOK
<1>6. CASE UNCHANGED limiterVars
  BY <1>0, <1>6 DEF limiterVars, LimiterTypeOK, PairOK
<1> QED
  BY <1>1, <1>2, <1>3, <1>4, <1>5, <1>6 DEF LimiterNext, Configure

-----------------------------------------------------------------------------
(***************************************************************************)
(* The history variables only observe: every step of the measured limiter  *)
(* is a step of the limiter or leaves it alone.                            *)
(***************************************************************************)
LEMMA NextIsLimiterNext == [Next]_vars => [LimiterNext]_limiterVars
  BY DEF Next, vars, LimiterNext, Configure, limiterVars, Update, Set, Reset, SetType, Time, Remark

(***************************************************************************)
(* The state of the limiter is well typed: in particular no in-flight      *)
(* amount ever exceeds type(uint256).max, so the checked addition in       *)
(* _checkAndUpdateRateLimit cannot revert, and no timestamp lies in the    *)
(* future, so neither can the subtraction in _calculateDecay.              *)
(***************************************************************************)
THEOREM LimiterTypeCorrect == LimiterSpec => []LimiterTypeOK
  BY LimiterTypeInit, LimiterTypeStep, PTL DEF LimiterSpec

\* So is the initial state with the history variables.
LEMMA TypeInit == Init => TypeOK
  BY LimiterTypeInit DEF Init, TypeOK, LimiterTypeOK

\* Every step keeps the history variables well-typed too.
LEMMA TypeStep == TypeOK /\ [Next]_vars => TypeOK'
<1> SUFFICES ASSUME TypeOK, [Next]_vars PROVE TypeOK'
  OBVIOUS
<1>1. LimiterTypeOK'
  BY LimiterTypeStep, NextIsLimiterNext DEF TypeOK
<1>2. now \in Nat /\ now' \in Nat /\ now <= now'
  <2>1. now \in Nat /\ now' \in Nat
    BY <1>1 DEF TypeOK, LimiterTypeOK
  <2>2. now' = now \/ now' = now + 1
    BY DEF Next, vars, limiterVars, Update, Set, Reset, SetType, Time, Remark,
           UpdateRateLimit, SetRateLimits, ResetRateLimits,
           SetRateLimitAccountingType, Tick
  <2> QED
    BY <2>1, <2>2
<1>3. subject' = subject
  BY DEF Next, vars, historyVars, Update, Set, Reset, SetType, Time, Remark,
         RestartIfListed, Restart
<1>4. mark' \in {mark, now}
  BY DEF Next, vars, historyVars, Update, Set, Reset, SetType, Time, Remark,
         RestartIfListed, Restart
<1>5. used' \in Nat /\ relieved' \in Nat
  <2>1. ASSUME NEW eid \in Eids, NEW d \in Directions, NEW amount \in Amounts,
               Update(eid, d, amount)
        PROVE  used' \in Nat /\ relieved' \in Nat
    <3>1. amount \in Nat
      BY EidsAmountsAssumption
    <3> QED
      BY <2>1, <3>1 DEF Update, TypeOK
  <2>2. \/ \E eid \in Eids, d \in Directions, amount \in Amounts : Update(eid, d, amount)
        \/ UNCHANGED historyVars
        \/ Restart
    BY DEF Next, vars, historyVars, Set, Reset, SetType, Time, Remark, RestartIfListed
  <2> QED
    BY <2>1, <2>2 DEF TypeOK, historyVars, Restart
<1> QED
  BY <1>1, <1>2, <1>3, <1>4, <1>5 DEF TypeOK

(***************************************************************************)
(* Type correctness of the limiter with its history variables.             *)
(***************************************************************************)
THEOREM TypeCorrect == Spec => []TypeOK
  BY TypeInit, TypeStep, PTL DEF Spec

-----------------------------------------------------------------------------
\* The inductive invariant: one step per action.

\* Nothing is used at the start of an interval.
LEMMA AccountedInit == Init => UsageAccounted
  BY DEF Init, UsageAccounted, Accounted

\* A debit or a credit of any eid keeps the account of the subject.
LEMMA AccountedUpdate ==
    ASSUME TypeOK, UsageAccounted,
           NEW eid \in Eids, NEW d \in Directions, NEW amount \in Amounts,
           Update(eid, d, amount)
    PROVE  UsageAccounted'
<1> DEFINE new == CheckAndUpdateRateLimit(rateLimits[eid], d, amount,
                                          rateLimitAccountingType, now)
<1>1. /\ amount \in Nat /\ now \in Nat /\ mark \in Nat /\ mark <= now
      /\ used \in Nat /\ relieved \in Nat
      /\ subject.eid \in Eids /\ subject.dir \in Directions
      /\ rateLimits \in [Eids -> RateLimitPair]
      /\ \A e \in Eids : PairOK(rateLimits[e], now)
  BY EidsAmountsAssumption, PairsOK DEF TypeOK, Subjects
<1>2. /\ rateLimits' = [rateLimits EXCEPT ![eid] = new]
      /\ ~CheckAndUpdateReverts(rateLimits[eid], d, amount, rateLimitAccountingType, now)
      /\ UNCHANGED <<subject, mark>>
  BY DEF Update, UpdateRateLimit
<1>3. /\ PairOK(new, now)
      /\ new[d] = Charge(rateLimits[eid][d], amount, now)
      /\ new[Opposite(d)] = IF rateLimitAccountingType = "Net"
                             THEN Relieve(rateLimits[eid][Opposite(d)], amount, now)
                             ELSE rateLimits[eid][Opposite(d)]
  BY <1>1, <1>2, CheckAndUpdateFacts
<1> HIDE DEF new
<1>4. Accounted(measured, mark, used, relieved)
  BY DEF UsageAccounted
<1>5. measured \in RateLimit /\ measured.lastUpdated <= now
  BY <1>1 DEF measured, PairOK, RateLimitPair
<1>6. CASE eid # subject.eid
  <2>1. measured' = measured
    BY <1>1, <1>2, <1>6 DEF measured
  <2>2. used' = used /\ relieved' = relieved
    BY <1>1, <1>6 DEF Update
  <2> QED
    BY <1>2, <1>4, <2>1, <2>2 DEF UsageAccounted
<1>7. CASE eid = subject.eid /\ d = subject.dir
  <2>1. measured' = Charge(measured, amount, now)
    BY <1>1, <1>2, <1>3, <1>7 DEF measured
  <2>2. used' = used + amount /\ relieved' = relieved
    BY <1>1, <1>7, Opposites DEF Update
  <2>3. amount <= AvailableCapacity(measured, now)
    <3>1. AvailableCapacity(measured, now) \in Nat
      BY <1>1, <1>5, CurrentBound, MaxUintAssumption
         DEF AvailableCapacity, Monus, RateLimit
    <3> QED
      BY <1>1, <1>2, <1>7, <3>1 DEF CheckAndUpdateReverts, measured
  <2>4. Accounted(Charge(measured, amount, now), mark, used + amount, relieved)
    BY <1>1, <1>4, <1>5, <2>3, AccountedCharge
  <2> QED
    BY <1>2, <2>1, <2>2, <2>4 DEF UsageAccounted
<1>8. CASE eid = subject.eid /\ Opposite(d) = subject.dir /\ rateLimitAccountingType = "Net"
  <2>1. measured' = Relieve(measured, amount, now)
    BY <1>1, <1>2, <1>3, <1>8 DEF measured
  <2>2. used' = used /\ relieved' = relieved + amount
    BY <1>1, <1>8, Opposites DEF Update
  <2>3. Accounted(Relieve(measured, amount, now), mark, used, relieved + amount)
    BY <1>1, <1>4, <1>5, AccountedRelieve
  <2> QED
    BY <1>2, <2>1, <2>2, <2>3 DEF UsageAccounted
<1>9. CASE eid = subject.eid /\ Opposite(d) = subject.dir /\ rateLimitAccountingType # "Net"
  <2>1. measured' = measured
    BY <1>1, <1>2, <1>3, <1>9 DEF measured
  <2>2. used' = used /\ relieved' = relieved
    BY <1>1, <1>9, Opposites DEF Update
  <2> QED
    BY <1>2, <1>4, <2>1, <2>2 DEF UsageAccounted
<1> QED
  BY <1>1, <1>6, <1>7, <1>8, <1>9, Opposites

\* setRateLimits keeps it, or starts a new interval if it lists the subject.
LEMMA AccountedSet ==
    ASSUME TypeOK, UsageAccounted,
           NEW inbound \in ConfigArrays, NEW outbound \in ConfigArrays,
           Set(inbound, outbound)
    PROVE  UsageAccounted'
<1>1. /\ now \in Nat /\ mark \in Nat /\ mark <= now
      /\ used \in Nat /\ relieved \in Nat
      /\ subject.eid \in Eids /\ subject.dir \in Directions
      /\ PairOK(rateLimits[subject.eid], now)
  BY PairsOK DEF TypeOK, Subjects
<1>2. CASE SubjectListed(DOMAIN inbound, DOMAIN outbound)
  BY <1>2 DEF Set, RestartIfListed, Restart, UsageAccounted, Accounted
<1>3. CASE ~SubjectListed(DOMAIN inbound, DOMAIN outbound)
  <2> DEFINE old == rateLimits[subject.eid]
             mid == SetIfListed(old, subject.eid, "Inbound", inbound, rateLimitAccountingType, now)
             new == SetIfListed(mid, subject.eid, "Outbound", outbound, rateLimitAccountingType, now)
  <2>1. /\ ~SetIfListedReverts(old, subject.eid, "Inbound", inbound, rateLimitAccountingType, now)
        /\ ~SetIfListedReverts(mid, subject.eid, "Outbound", outbound, rateLimitAccountingType, now)
        /\ rateLimits'[subject.eid] = new
    BY <1>1 DEF Set, SetRateLimits, SetAll, SetReverts, TypeOK, LimiterTypeOK
  <2>2. UNCHANGED historyVars
    BY <1>3 DEF Set, RestartIfListed
  <2>3. /\ PairOK(mid, now)
        /\ subject.eid \notin DOMAIN inbound => mid = old
        /\ \/ mid["Outbound"] = old["Outbound"]
           \/ mid["Outbound"] = Relieve(old["Outbound"], 0, now)
    BY <1>1, <2>1, SetIfListedFacts DEF Directions, Opposite
  <2> HIDE DEF mid
  <2>4. /\ subject.eid \notin DOMAIN outbound => new = mid
        /\ \/ new["Inbound"] = mid["Inbound"]
           \/ new["Inbound"] = Relieve(mid["Inbound"], 0, now)
    BY <1>1, <2>1, <2>3, SetIfListedFacts DEF Directions, Opposite
  <2> HIDE DEF new
  <2>5. measured = old[subject.dir] /\ measured' = new[subject.dir]
    BY <2>1, <2>2 DEF measured, historyVars
  <2>6. measured' \in {measured, Relieve(measured, 0, now)}
    <3>1. CASE subject.dir = "Inbound"
      BY <1>3, <2>3, <2>4, <2>5, <3>1 DEF SubjectListed
    <3>2. CASE subject.dir = "Outbound"
      BY <1>3, <2>3, <2>4, <2>5, <3>2 DEF SubjectListed
    <3> QED
      BY <1>1, <3>1, <3>2 DEF Directions
  <2>7. measured \in RateLimit /\ measured.lastUpdated <= now
    BY <1>1 DEF measured, PairOK, RateLimitPair
  <2>8. Accounted(measured, mark, used, relieved)
    BY DEF UsageAccounted
  <2>9. Accounted(Relieve(measured, 0, now), mark, used, relieved)
    BY <1>1, <2>7, <2>8, AccountedRelieve
  <2> QED
    BY <2>2, <2>6, <2>8, <2>9 DEF UsageAccounted, historyVars
<1> QED
  BY <1>2, <1>3

\* resetRateLimits keeps it, or starts a new interval if it lists the subject.
LEMMA AccountedReset ==
    ASSUME TypeOK, UsageAccounted,
           NEW inbound \in SUBSET Eids, NEW outbound \in SUBSET Eids,
           Reset(inbound, outbound)
    PROVE  UsageAccounted'
<1>1. /\ now \in Nat
      /\ subject.eid \in Eids /\ subject.dir \in Directions
      /\ PairOK(rateLimits[subject.eid], now)
  BY PairsOK DEF TypeOK, Subjects
<1>2. CASE SubjectListed(inbound, outbound)
  BY <1>2 DEF Reset, RestartIfListed, Restart, UsageAccounted, Accounted
<1>3. CASE ~SubjectListed(inbound, outbound)
  <2> DEFINE old == rateLimits[subject.eid]
             mid == ResetIfListed(old, subject.eid, "Inbound", inbound, now)
             new == ResetIfListed(mid, subject.eid, "Outbound", outbound, now)
  <2>1. rateLimits'[subject.eid] = new /\ UNCHANGED historyVars
    BY <1>1, <1>3 DEF Reset, ResetRateLimits, ResetAll, TypeOK, LimiterTypeOK, RestartIfListed
  <2>0. /\ "Inbound" \in Directions /\ Opposite("Inbound") = "Outbound"
        /\ "Outbound" \in Directions /\ Opposite("Outbound") = "Inbound"
    BY DEF Directions, Opposite
  <2>2. /\ PairOK(mid, now)
        /\ subject.eid \notin inbound => mid = old
        /\ mid["Outbound"] = old["Outbound"]
    BY <1>1, <2>0, ResetIfListedFacts
  <2> HIDE DEF mid, old
  <2>3. /\ subject.eid \notin outbound => new = mid
        /\ new["Inbound"] = mid["Inbound"]
    BY <1>1, <2>0, <2>2, ResetIfListedFacts
  <2> HIDE DEF new
  <2>4. measured' = measured
    BY <1>1, <1>3, <2>1, <2>2, <2>3
       DEF measured, historyVars, SubjectListed, Directions, old
  <2> QED
    BY <2>1, <2>4 DEF UsageAccounted, historyVars
<1> QED
  BY <1>2, <1>3

\* Every step keeps the account.
LEMMA AccountedStep == TypeOK /\ UsageAccounted /\ [Next]_vars => UsageAccounted'
<1> SUFFICES ASSUME TypeOK, UsageAccounted, [Next]_vars PROVE UsageAccounted'
  OBVIOUS
<1>1. CASE UNCHANGED historyVars /\ UNCHANGED rateLimits
  BY <1>1 DEF UsageAccounted, measured, historyVars
<1>2. CASE Restart
  BY <1>2 DEF Restart, UsageAccounted, Accounted
<1>3. ASSUME NEW accounting \in AccountingTypes, SetType(accounting)
      PROVE  UsageAccounted'
  BY <1>1, <1>3 DEF SetType, SetRateLimitAccountingType
<1>4. CASE Time
  BY <1>1, <1>4 DEF Time, Tick
<1>5. CASE Remark
  BY <1>2, <1>5 DEF Remark
<1>6. CASE UNCHANGED vars
  BY <1>1, <1>6 DEF vars, historyVars
<1> QED
  BY <1>3, <1>4, <1>5, <1>6, AccountedUpdate, AccountedSet, AccountedReset DEF Next

(***************************************************************************)
(* Everything that was used in the measured interval is in flight, has     *)
(* decayed since, or was relieved (the inductive invariant).               *)
(***************************************************************************)
THEOREM UsageIsAccounted == Spec => []UsageAccounted
  BY TypeInit, TypeStep, AccountedInit, AccountedStep, PTL DEF Spec

\* The account bounds what was used: what is in flight is at most the limit.
LEMMA AccountedImpliesEnvelope == TypeOK /\ UsageAccounted => Envelope
<1> SUFFICES ASSUME TypeOK, UsageAccounted, measured.window > 0
             PROVE  used <= measured.limit
                              + Decay(measured.limit, now - mark, measured.window)
                              + relieved
  BY DEF Envelope
<1>1. /\ now \in Nat /\ mark \in Nat /\ mark <= now
      /\ used \in Nat /\ relieved \in Nat
      /\ subject.eid \in Eids /\ subject.dir \in Directions
      /\ PairOK(rateLimits[subject.eid], now)
  BY PairsOK DEF TypeOK, Subjects
<1>2. measured \in RateLimit /\ measured.lastUpdated <= now
  BY <1>1 DEF measured, PairOK, RateLimitPair
<1>3. measured.limit \in Nat /\ measured.window \in Nat /\ measured.lastUpdated \in Nat
      /\ measured.amountInFlight \in Nat
  BY <1>2, MaxUintAssumption DEF RateLimit
<1>4. now - mark \in Nat /\ Decay(measured.limit, now - mark, measured.window) \in Nat
  <2>1. now - mark \in Nat
    BY <1>1
  <2> QED
    BY <1>3, <2>1, DecayNat
<1>5. CASE used = 0
  BY <1>1, <1>3, <1>4, <1>5
<1>6. CASE used # 0
  <2>1. /\ mark <= measured.lastUpdated
        /\ measured.amountInFlight <= measured.limit
        /\ used <= measured.amountInFlight
                     + Decay(measured.limit, measured.lastUpdated - mark, measured.window)
                     + relieved
    BY <1>6 DEF UsageAccounted, Accounted
  <2>2. /\ measured.lastUpdated - mark \in Nat
        /\ now - mark \in Nat
        /\ measured.lastUpdated - mark <= now - mark
    BY <1>1, <1>2, <1>3, <2>1
  <2>3. Decay(measured.limit, measured.lastUpdated - mark, measured.window)
          <= Decay(measured.limit, now - mark, measured.window)
    BY <1>3, <2>2, DecayMonotone
  <2>4. Decay(measured.limit, measured.lastUpdated - mark, measured.window) \in Nat
    BY <1>3, <2>2, DecayNat
  <2> QED
    BY <1>1, <1>3, <1>4, <2>1, <2>3, <2>4
<1> QED
  BY <1>5, <1>6

(***************************************************************************)
(* The envelope: for every rate limit and every interval in which it was   *)
(* neither reconfigured nor reset, no more passes than the limit, plus the *)
(* decay of the interval, plus what the opposite direction gave back.      *)
(***************************************************************************)
THEOREM EnvelopeHolds == Spec => []Envelope
  BY TypeInit, TypeStep, AccountedInit, AccountedStep, AccountedImpliesEnvelope,
     PTL DEF Spec

-----------------------------------------------------------------------------
(***************************************************************************)
(* The passing of time only frees capacity.                                *)
(***************************************************************************)
THEOREM TimeFreesCapacity == LimiterSpec => TimeOnlyFreesCapacity
<1> DEFINE Frees ==
        \A eid \in Eids, d \in Directions :
          /\ UNCHANGED rateLimits
          /\ ~DecayReverts(rateLimits[eid][d], now')
          => AvailableCapacity(rateLimits[eid][d], now')
                 >= AvailableCapacity(rateLimits[eid][d], now)
<1>1. LimiterTypeOK /\ [LimiterNext]_limiterVars => Frees
  <2> SUFFICES ASSUME LimiterTypeOK, [LimiterNext]_limiterVars,
                      NEW eid \in Eids, NEW d \in Directions
               PROVE  AvailableCapacity(rateLimits[eid][d], now')
                        >= AvailableCapacity(rateLimits[eid][d], now)
    OBVIOUS
  <2> DEFINE rl == rateLimits[eid][d]
  <2>1. rl \in RateLimit /\ rl.lastUpdated <= now /\ now \in Nat
    BY DEF LimiterTypeOK, RateLimitPair
  <2>2. now' = now \/ now' = now + 1
    BY DEF LimiterNext, Configure, limiterVars, UpdateRateLimit, SetRateLimits, ResetRateLimits,
           SetRateLimitAccountingType, Tick
  <2>3. now' \in Nat /\ now <= now' /\ rl.lastUpdated <= now'
    BY <2>1, <2>2 DEF RateLimit
  <2> HIDE DEF rl
  <2>4. /\ CurrentAmountInFlight(rl, now') <= CurrentAmountInFlight(rl, now)
        /\ CurrentAmountInFlight(rl, now') \in Nat
        /\ CurrentAmountInFlight(rl, now) \in Nat
    BY <2>1, <2>3, CurrentFalls, CurrentBound
  <2>5. rl.limit \in Nat
    BY <2>1, MaxUintAssumption DEF RateLimit
  <2>6. AvailableCapacity(rl, now') >= AvailableCapacity(rl, now)
    BY <2>4, <2>5 DEF AvailableCapacity, Monus
  <2> QED
    BY <2>6 DEF rl
<1>2. LimiterTypeOK /\ [LimiterNext]_limiterVars => [Frees]_limiterVars
  BY <1>1
<1> QED
  BY <1>2, LimiterTypeInit, LimiterTypeStep, PTL DEF LimiterSpec, TimeOnlyFreesCapacity

-----------------------------------------------------------------------------
(***************************************************************************)
(* A new configuration is not applied retroactively.                       *)
(***************************************************************************)
LEMMA SetKeepsCurrent ==
    ASSUME LimiterTypeOK,
           NEW inbound \in ConfigArrays, NEW outbound \in ConfigArrays,
           SetRateLimits(inbound, outbound),
           NEW eid \in Eids, NEW d \in Directions,
           ~SameConfig(rateLimits[eid][d], rateLimits'[eid][d]),
           rateLimits'[eid][d].window > 0
    PROVE  CurrentAmountInFlight(rateLimits'[eid][d], now)
             = CurrentAmountInFlight(rateLimits[eid][d], now)
<1> DEFINE old == rateLimits[eid]
           mid == SetIfListed(old, eid, "Inbound", inbound, rateLimitAccountingType, now)
           new == SetIfListed(mid, eid, "Outbound", outbound, rateLimitAccountingType, now)
<1>1. now \in Nat /\ PairOK(old, now)
  BY PairsOK
<1>2. /\ ~SetIfListedReverts(old, eid, "Inbound", inbound, rateLimitAccountingType, now)
      /\ ~SetIfListedReverts(mid, eid, "Outbound", outbound, rateLimitAccountingType, now)
      /\ rateLimits'[eid] = new
  BY DEF SetRateLimits, SetAll, SetReverts, LimiterTypeOK
<1>3. /\ PairOK(mid, now)
      /\ eid \notin DOMAIN inbound => mid = old
      /\ eid \in DOMAIN inbound =>
            mid["Inbound"] = Configured(Charge(old["Inbound"], 0, now), inbound[eid])
      /\ \/ mid["Outbound"] = old["Outbound"]
         \/ mid["Outbound"] = Relieve(old["Outbound"], 0, now)
  BY <1>1, <1>2, SetIfListedFacts DEF Directions, Opposite
<1> HIDE DEF mid
<1>4. /\ PairOK(new, now)
      /\ eid \notin DOMAIN outbound => new = mid
      /\ eid \in DOMAIN outbound =>
            new["Outbound"] = Configured(Charge(mid["Outbound"], 0, now), outbound[eid])
      /\ \/ new["Inbound"] = mid["Inbound"]
         \/ new["Inbound"] = Relieve(mid["Inbound"], 0, now)
  BY <1>1, <1>2, <1>3, SetIfListedFacts DEF Directions, Opposite
<1> HIDE DEF new, old
<1>5. /\ old["Inbound"] \in RateLimit /\ old["Inbound"].lastUpdated <= now
      /\ old["Outbound"] \in RateLimit /\ old["Outbound"].lastUpdated <= now
      /\ mid["Inbound"] \in RateLimit /\ mid["Inbound"].lastUpdated <= now
      /\ mid["Outbound"] \in RateLimit /\ mid["Outbound"].lastUpdated <= now
  BY <1>1, <1>3 DEF PairOK, RateLimitPair, Directions
<1>6. ~SameConfig(old[d], new[d]) /\ new[d].window > 0
  BY <1>2 DEF old
<1>7. \A c \in ConfigArrays : eid \in DOMAIN c =>
          c[eid] \in [limit : 0..MaxUint, window : Nat]
  BY EidsAmountsAssumption DEF ConfigArrays
<1>8. CASE d = "Inbound"
  <2>1. new["Inbound"].window = mid["Inbound"].window
        /\ new["Inbound"].limit = mid["Inbound"].limit
    BY <1>1, <1>4, <1>5, RelieveFacts
  <2>2. eid \in DOMAIN inbound
    BY <1>3, <1>6, <1>8, <2>1 DEF SameConfig
  <2>3. inbound[eid] \in [limit : 0..MaxUint, window : Nat]
    BY <1>7, <2>2
  <2>4. mid["Inbound"].window = inbound[eid].window
    BY <1>3, <2>2, <1>5, <1>1, <2>3 DEF Configured, Charge, RateLimit
  <2>5. CurrentAmountInFlight(mid["Inbound"], now) = CurrentAmountInFlight(old["Inbound"], now)
    BY <1>1, <1>3, <1>5, <1>6, <1>8, <2>1, <2>2, <2>3, <2>4, ConfiguredKeepsCurrent
  <2>6. CurrentAmountInFlight(new["Inbound"], now) = CurrentAmountInFlight(mid["Inbound"], now)
    BY <1>1, <1>4, <1>5, CheckpointKeepsCurrent
  <2> QED
    BY <1>2, <1>8, <2>5, <2>6 DEF old
<1>9. CASE d = "Outbound"
  <2>1. mid["Outbound"].window = old["Outbound"].window
        /\ mid["Outbound"].limit = old["Outbound"].limit
    BY <1>1, <1>3, <1>5, RelieveFacts
  <2>2. eid \in DOMAIN outbound
    BY <1>4, <1>6, <1>9, <2>1 DEF SameConfig
  <2>3. outbound[eid] \in [limit : 0..MaxUint, window : Nat]
    BY <1>7, <2>2
  <2>4. new["Outbound"].window = outbound[eid].window
    BY <1>4, <2>2, <1>5, <1>1, <2>3 DEF Configured, Charge, RateLimit
  <2>5. CurrentAmountInFlight(new["Outbound"], now) = CurrentAmountInFlight(mid["Outbound"], now)
    BY <1>1, <1>4, <1>5, <1>6, <1>9, <2>2, <2>3, <2>4, ConfiguredKeepsCurrent
  <2>6. CurrentAmountInFlight(mid["Outbound"], now) = CurrentAmountInFlight(old["Outbound"], now)
    BY <1>1, <1>3, <1>5, CheckpointKeepsCurrent
  <2> QED
    BY <1>2, <1>9, <2>5, <2>6 DEF old
<1> QED
  BY <1>8, <1>9 DEF Directions

\* Only _setRateLimits writes a configuration.
LEMMA ConfigKept ==
    ASSUME LimiterTypeOK, [LimiterNext]_limiterVars,
           ~(\E inbound, outbound \in ConfigArrays : SetRateLimits(inbound, outbound)),
           NEW eid \in Eids, NEW d \in Directions
    PROVE  SameConfig(rateLimits[eid][d], rateLimits'[eid][d])
<1>1. /\ now \in Nat /\ rateLimits \in [Eids -> RateLimitPair]
      /\ \A e \in Eids : PairOK(rateLimits[e], now)
  BY PairsOK
<1>2. /\ rateLimits[eid] \in [Directions -> RateLimit]
      /\ \A e \in Directions : rateLimits[eid][e] \in RateLimit
                              /\ rateLimits[eid][e].lastUpdated <= now
  BY <1>1 DEF PairOK, RateLimitPair
<1>3. ASSUME NEW eid2 \in Eids, NEW d2 \in Directions, NEW amount \in Amounts,
             UpdateRateLimit(eid2, d2, amount)
      PROVE  SameConfig(rateLimits[eid][d], rateLimits'[eid][d])
  <2> DEFINE new == CheckAndUpdateRateLimit(rateLimits[eid2], d2, amount,
                                            rateLimitAccountingType, now)
  <2>1. /\ rateLimits' = [rateLimits EXCEPT ![eid2] = new]
        /\ ~CheckAndUpdateReverts(rateLimits[eid2], d2, amount, rateLimitAccountingType, now)
    BY <1>3 DEF UpdateRateLimit
  <2>2. CASE eid = eid2
    <3>1. amount \in Nat
      BY EidsAmountsAssumption
    <3>2. /\ new[d2] = Charge(rateLimits[eid][d2], amount, now)
          /\ new[Opposite(d2)] = IF rateLimitAccountingType = "Net"
                                 THEN Relieve(rateLimits[eid][Opposite(d2)], amount, now)
                                 ELSE rateLimits[eid][Opposite(d2)]
      BY <1>1, <2>1, <2>2, <3>1, CheckAndUpdateFacts
    <3> HIDE DEF new
    <3>3. SameConfig(rateLimits[eid][d2], new[d2])
      BY <1>2, <3>2 DEF SameConfig, Charge, RateLimit
    <3>4. SameConfig(rateLimits[eid][Opposite(d2)], new[Opposite(d2)])
      BY <1>2, <3>2, Opposites DEF SameConfig, Relieve, RateLimit
    <3>5. rateLimits'[eid] = new
      BY <1>1, <2>1, <2>2
    <3> QED
      BY <3>3, <3>4, <3>5, Opposites
  <2>3. CASE eid # eid2
    BY <1>1, <2>1, <2>3 DEF SameConfig
  <2> QED
    BY <2>2, <2>3
<1>4. ASSUME NEW inbound \in SUBSET Eids, NEW outbound \in SUBSET Eids,
             ResetRateLimits(inbound, outbound)
      PROVE  SameConfig(rateLimits[eid][d], rateLimits'[eid][d])
  <2>1. ASSUME NEW pair \in [Directions -> RateLimit], NEW d2 \in Directions, NEW eids
        PROVE  /\ ResetIfListed(pair, eid, d2, eids, now)[d].limit = pair[d].limit
               /\ ResetIfListed(pair, eid, d2, eids, now)[d].window = pair[d].window
    BY DEF ResetIfListed, ResetRateLimit, RateLimit
  <2> DEFINE mid == ResetIfListed(rateLimits[eid], eid, "Inbound", inbound, now)
  <2>2. mid \in [Directions -> RateLimit]
    BY <1>1, ResetIfListedFacts DEF PairOK, RateLimitPair, Directions
  <2>3. rateLimits'[eid] = ResetIfListed(mid, eid, "Outbound", outbound, now)
    BY <1>1, <1>4 DEF ResetRateLimits, ResetAll
  <2>4. mid[d].limit = rateLimits[eid][d].limit /\ mid[d].window = rateLimits[eid][d].window
    BY <1>2, <2>1 DEF Directions
  <2> HIDE DEF mid
  <2>5. rateLimits'[eid][d].limit = mid[d].limit /\ rateLimits'[eid][d].window = mid[d].window
    BY <2>1, <2>2, <2>3 DEF Directions
  <2> QED
    BY <2>4, <2>5 DEF SameConfig
<1>5. CASE UNCHANGED rateLimits
  BY <1>5 DEF SameConfig
<1> QED
  BY <1>3, <1>4, <1>5 DEF LimiterNext, Configure, limiterVars, SetRateLimitAccountingType, Tick

(***************************************************************************)
(* Replacing a limit or a window leaves the current in-flight amount as it *)
(* was: the new decay rate does not apply to time that already passed.     *)
(***************************************************************************)
THEOREM ConfigNotRetroactive == LimiterSpec => NoRetroactiveDecay
<1> DEFINE Keeps ==
        \A eid \in Eids, d \in Directions :
          /\ ~SameConfig(rateLimits[eid][d], rateLimits'[eid][d])
          /\ rateLimits'[eid][d].window > 0
          => CurrentAmountInFlight(rateLimits'[eid][d], now')
                 = CurrentAmountInFlight(rateLimits[eid][d], now)
<1>1. LimiterTypeOK /\ [LimiterNext]_limiterVars => Keeps
  <2> SUFFICES ASSUME LimiterTypeOK, [LimiterNext]_limiterVars,
                      NEW eid \in Eids, NEW d \in Directions,
                      ~SameConfig(rateLimits[eid][d], rateLimits'[eid][d]),
                      rateLimits'[eid][d].window > 0
               PROVE  CurrentAmountInFlight(rateLimits'[eid][d], now')
                        = CurrentAmountInFlight(rateLimits[eid][d], now)
    OBVIOUS
  <2>1. PICK inbound \in ConfigArrays, outbound \in ConfigArrays :
               SetRateLimits(inbound, outbound)
    BY ConfigKept
  <2>2. now' = now
    BY <2>1 DEF SetRateLimits
  <2> QED
    BY <2>1, <2>2, SetKeepsCurrent
<1>2. LimiterTypeOK /\ [LimiterNext]_limiterVars => [Keeps]_limiterVars
  BY <1>1
<1> QED
  BY <1>2, LimiterTypeInit, LimiterTypeStep, PTL DEF LimiterSpec, NoRetroactiveDecay
-----------------------------------------------------------------------------
\* A rate limit that was just reset lets any amount up to its limit pass.
LEMMA ResetIsFree ==
    ASSUME NEW pair, NEW t \in Nat, PairOK(pair, t), NEW new,
           new = ResetRateLimit(ResetRateLimit(pair, "Inbound", t), "Outbound", t),
           NEW d \in Directions
    PROVE  /\ ~DecayReverts(new[d], t)
           /\ AvailableCapacity(new[d], t) = pair[d].limit
<1>1. pair \in [Directions -> RateLimit]
  BY DEF PairOK, RateLimitPair
<1>2. PICK old \in RateLimit : old = pair[d]
  BY <1>1
<1>3. new[d] = [old EXCEPT !.amountInFlight = 0, !.lastUpdated = t]
  BY <1>1, <1>2 DEF ResetRateLimit, Directions
<1>4. PICK rl : rl = new[d]
  OBVIOUS
<1>5. /\ rl.amountInFlight = 0 /\ rl.lastUpdated = t
      /\ rl.limit = old.limit /\ rl.window = old.window
  BY <1>3, <1>4 DEF RateLimit
<1>6. old.limit \in Nat /\ old.window \in Nat /\ MaxUint \in Nat
  BY MaxUintAssumption DEF RateLimit
<1>7. Elapsed(rl, t) = 0
  BY <1>5 DEF Elapsed
<1>8. ~DecayReverts(rl, t)
  BY <1>5, <1>6, <1>7 DEF DecayReverts
<1>9. CurrentAmountInFlight(rl, t) = 0
  <2>1. CASE rl.window = 0
    BY <1>5, <1>6, <1>7, <2>1 DEF CurrentAmountInFlight
  <2>2. CASE rl.window # 0
    <3>1. rl.limit \in Nat /\ rl.window \in Nat /\ rl.window > 0 /\ 0 \in Nat
      BY <1>5, <1>6, <2>2
    <3>2. \A l \in Nat, e \in Nat, w \in Nat : w > 0 => Decay(l, e, w) \in Nat
      BY DecayNat, Zenon
    <3>3. Decay(rl.limit, 0, rl.window) \in Nat
      BY <3>1, <3>2
    <3> QED
      BY <1>5, <1>6, <1>7, <2>2, <3>3 DEF CurrentAmountInFlight, Monus
  <2> QED
    BY <2>1, <2>2
<1>10. AvailableCapacity(rl, t) = old.limit
  BY <1>5, <1>6, <1>9 DEF AvailableCapacity, Monus
<1> QED
  BY <1>2, <1>4, <1>8, <1>10

(***************************************************************************)
(* Resetting both directions of an eid always unblocks it, whatever limit  *)
(* and window made its decay overflow.                                     *)
(***************************************************************************)
THEOREM ResetsUnblock == LimiterSpec => ResetUnblocks
<1> DEFINE Unblocks ==
        \A eid \in Eids, d \in Directions, amount \in Amounts :
          /\ ResetRateLimits({eid}, {eid})
          /\ amount <= rateLimits[eid][d].limit
          => ~CheckAndUpdateReverts(rateLimits'[eid], d, amount,
                                    rateLimitAccountingType', now')
<1>1. LimiterTypeOK => Unblocks
  <2> SUFFICES ASSUME LimiterTypeOK, NEW eid \in Eids, NEW d \in Directions,
                      NEW amount \in Amounts, ResetRateLimits({eid}, {eid}),
                      amount <= rateLimits[eid][d].limit
               PROVE  ~CheckAndUpdateReverts(rateLimits'[eid], d, amount,
                                             rateLimitAccountingType', now')
    OBVIOUS
  <2>1. /\ now \in Nat /\ now' = now /\ PairOK(rateLimits[eid], now)
        /\ rateLimits \in [Eids -> RateLimitPair]
    BY PairsOK DEF LimiterTypeOK, ResetRateLimits
  <2>2. PICK pair : pair = rateLimits[eid]
    OBVIOUS
  <2>3. PICK new : new = ResetRateLimit(ResetRateLimit(pair, "Inbound", now), "Outbound", now)
    OBVIOUS
  <2>4. rateLimits'[eid] = new
    BY <2>1, <2>2, <2>3 DEF ResetRateLimits, ResetAll, ResetIfListed
  <2>5. \A e \in Directions :
          ~DecayReverts(new[e], now) /\ AvailableCapacity(new[e], now) = pair[e].limit
    BY <2>1, <2>2, <2>3, ResetIsFree
  <2>6. Opposite(d) \in Directions
    BY Opposites
  <2>7. amount \in Nat /\ pair[d].limit \in Nat /\ amount <= pair[d].limit
    <3>1. amount \in Nat
      BY EidsAmountsAssumption
    <3>2. pair[d] \in RateLimit
      BY <2>1, <2>2 DEF RateLimitPair
    <3> QED
      BY <2>2, <3>1, <3>2, MaxUintAssumption DEF RateLimit
  <2>8. ~CheckAndUpdateReverts(new, d, amount, rateLimitAccountingType', now)
    BY <2>5, <2>6, <2>7 DEF CheckAndUpdateReverts
  <2> QED
    BY <2>1, <2>4, <2>8
<1>2. LimiterTypeOK /\ [LimiterNext]_limiterVars => [Unblocks]_limiterVars
  BY <1>1
<1> QED
  BY <1>2, LimiterTypeInit, LimiterTypeStep, PTL DEF LimiterSpec, ResetUnblocks
=============================================================================
