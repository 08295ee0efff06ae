--------------------------- MODULE SkyRateLimits ---------------------------
(***************************************************************************)
(* The arithmetic of contracts/SkyRateLimiter.sol, as operators on the     *)
(* pair of rate limits (inbound and outbound) that one endpoint id owns.   *)
(* A rate limit only ever interacts with the rate limit of the opposite    *)
(* direction of the same eid, so that pair is the unit of every operator.  *)
(*                                                                         *)
(* Solidity 0.8 arithmetic is checked: a uint256 product that overflows    *)
(* reverts the whole transaction.  MaxUint stands for type(uint256).max    *)
(* and "...Reverts" operators say when a call reverts.                     *)
(***************************************************************************)
EXTENDS Integers

CONSTANT MaxUint

ASSUME MaxUintAssumption == MaxUint \in Nat

Directions == {"Inbound", "Outbound"}
AccountingTypes == {"Net", "Gross"}

Opposite(d) == IF d = "Outbound" THEN "Inbound" ELSE "Outbound"

RateLimit == [amountInFlight : 0..MaxUint, lastUpdated : Nat,
              limit : 0..MaxUint, window : Nat]

RateLimitPair == [Directions -> RateLimit]

\* A mapping entry that was never written.
NoRateLimit == [amountInFlight |-> 0, lastUpdated |-> 0, limit |-> 0, window |-> 0]

\* Mutant: the subtraction is unchecked and wraps around.
MonusWrapping(a, b) == IF a >= b THEN a - b ELSE MaxUint + 1 + a - b

\* a - b, cut off at zero (the "x > y ? x - y : 0" of the source).
Monus(a, b) == IF a > b THEN a - b ELSE 0

-----------------------------------------------------------------------------
(***************************************************************************)
(* _calculateDecay at time t.                                              *)
(***************************************************************************)
Decay(limit, elapsed, window) == (limit * elapsed) \div window

Elapsed(rl, t) == t - rl.lastUpdated

DecayReverts(rl, t) ==
    /\ Elapsed(rl, t) < rl.window
    /\ rl.limit * Elapsed(rl, t) > MaxUint

\* Mutant: what is stored is taken for what is in flight.
CurrentAmountInFlightUndecayed(rl, t) == rl.amountInFlight

CurrentAmountInFlight(rl, t) ==
    IF Elapsed(rl, t) >= rl.window
    THEN 0
    ELSE Monus(rl.amountInFlight, Decay(rl.limit, Elapsed(rl, t), rl.window))

\* getAmountCanBeSent and getAmountCanBeReceived return this.
AvailableCapacity(rl, t) == Monus(rl.limit, CurrentAmountInFlight(rl, t))

-----------------------------------------------------------------------------
(***************************************************************************)
(* _checkAndUpdateRateLimit: the direction used is charged; under Net      *)
(* accounting the opposite direction is relieved by the same amount.       *)
(***************************************************************************)
\* Mutant: the time of the update is not stored.
ChargeUndated(rl, amount, t) ==
    [rl EXCEPT !.amountInFlight = CurrentAmountInFlight(rl, t) + amount]

Charge(rl, amount, t) ==
    [rl EXCEPT !.amountInFlight = CurrentAmountInFlight(rl, t) + amount,
               !.lastUpdated = t]

\* Mutant: the relief is not cut off at zero.
RelieveBelowZero(rl, amount, t) ==
    [rl EXCEPT !.amountInFlight = CurrentAmountInFlight(rl, t) - amount,
               !.lastUpdated = t]

Relieve(rl, amount, t) ==
    [rl EXCEPT !.amountInFlight = Monus(CurrentAmountInFlight(rl, t), amount),
               !.lastUpdated = t]

\* Mutant: each amount is compared with the limit, not with what is left of it.
CheckAndUpdateRevertsByLimit(pair, d, amount, accounting, t) ==
    \/ DecayReverts(pair[d], t)
    \/ amount > pair[d].limit
    \/ accounting = "Net" /\ DecayReverts(pair[Opposite(d)], t)

CheckAndUpdateReverts(pair, d, amount, accounting, t) ==
    \/ DecayReverts(pair[d], t)
    \/ amount > AvailableCapacity(pair[d], t)
    \/ accounting = "Net" /\ DecayReverts(pair[Opposite(d)], t)

CheckAndUpdateRateLimit(pair, d, amount, accounting, t) ==
    [pair EXCEPT
        ![d] = Charge(@, amount, t),
        ![Opposite(d)] = IF accounting = "Net" THEN Relieve(@, amount, t) ELSE @]

-----------------------------------------------------------------------------
(***************************************************************************)
(* One iteration of _setRateLimits and of _resetRateLimits.  Setting first *)
(* checkpoints the rate limit by a zero-amount check, so that the new      *)
(* decay rate does not apply to the time that already passed.              *)
(***************************************************************************)
Configured(rl, config) == [rl EXCEPT !.limit = config.limit, !.window = config.window]

\* Mutant: no checkpoint.
SetRateLimitAtOnce(pair, d, config, accounting, t) ==
    [pair EXCEPT ![d] = Configured(@, config)]

SetRateLimit(pair, d, config, accounting, t) ==
    [CheckAndUpdateRateLimit(pair, d, 0, accounting, t) EXCEPT
        ![d] = Configured(@, config)]

\* Mutant: a reset leaves the time of the last update.
ResetRateLimitUndated(pair, d, t) ==
    [pair EXCEPT ![d] = [@ EXCEPT !.amountInFlight = 0]]

ResetRateLimit(pair, d, t) ==
    [pair EXCEPT ![d] = [@ EXCEPT !.amountInFlight = 0, !.lastUpdated = t]]

-----------------------------------------------------------------------------
(***************************************************************************)
(* setRateLimits and resetRateLimits on all the limits of one contract, a  *)
(* function from eids to pairs.  "inbound" and "outbound" are the arrays   *)
(* of the call: functions from the listed eids to configurations (no eid   *)
(* listed twice), and sets of eids.  The inbound array is worked off first.*)
(***************************************************************************)
SetIfListed(pair, eid, d, configs, accounting, t) ==
    IF eid \in DOMAIN configs
    THEN SetRateLimit(pair, d, configs[eid], accounting, t)
    ELSE pair

SetIfListedReverts(pair, eid, d, configs, accounting, t) ==
    /\ eid \in DOMAIN configs
    /\ CheckAndUpdateReverts(pair, d, 0, accounting, t)

SetReverts(limits, inbound, outbound, accounting, t) ==
    \E eid \in DOMAIN limits :
        \/ SetIfListedReverts(limits[eid], eid, "Inbound", inbound, accounting, t)
        \/ SetIfListedReverts(
               SetIfListed(limits[eid], eid, "Inbound", inbound, accounting, t),
               eid, "Outbound", outbound, accounting, t)

SetAll(limits, inbound, outbound, accounting, t) ==
    [eid \in DOMAIN limits |->
        SetIfListed(SetIfListed(limits[eid], eid, "Inbound", inbound, accounting, t),
                    eid, "Outbound", outbound, accounting, t)]

ResetIfListed(pair, eid, d, eids, t) ==
    IF eid \in eids THEN ResetRateLimit(pair, d, t) ELSE pair

ResetAll(limits, inbound, outbound, t) ==
    [eid \in DOMAIN limits |->
        ResetIfListed(ResetIfListed(limits[eid], eid, "Inbound", inbound, t),
                      eid, "Outbound", outbound, t)]
=============================================================================
