--------------------------- MODULE SkyRateLimiter ---------------------------
(***************************************************************************)
(* The rate limiter of one OFT contract (contracts/SkyRateLimiter.sol and  *)
(* the owner's entry points in contracts/SkyOFTCore.sol) as a state        *)
(* machine.  Each action is one transaction; a transaction that reverts    *)
(* changes nothing, so its revert conditions are the action's guard.       *)
(***************************************************************************)
EXTENDS SkyRateLimits

CONSTANTS
    Eids,           \* remote endpoint ids
    Amounts,        \* amounts (local decimals) of debits and credits
    Configs,        \* [limit, window] records the owner chooses from
    MaxTime         \* bound on block.timestamp

ASSUME EidsAmountsAssumption ==
    /\ Amounts \subseteq Nat
    /\ Configs \subseteq [limit : 0..MaxUint, window : Nat]
    /\ MaxTime \in Nat

VARIABLES
    rateLimitAccountingType,
    rateLimits,     \* inboundRateLimits and outboundRateLimits, by eid
    now             \* block.timestamp

limiterVars == <<rateLimitAccountingType, rateLimits, now>>

\* Arrays of configurations without a repeated eid.
ConfigArrays == UNION {[S -> Configs] : S \in SUBSET Eids}

LimiterTypeOK ==
    /\ rateLimitAccountingType \in AccountingTypes
    /\ rateLimits \in [Eids -> RateLimitPair]
    /\ now \in Nat
    /\ \A eid \in Eids, d \in Directions : rateLimits[eid][d].lastUpdated <= now

LimiterInit ==
    /\ rateLimitAccountingType = "Net"
    /\ rateLimits = [eid \in Eids |-> [d \in Directions |-> NoRateLimit]]
    /\ now = 1

-----------------------------------------------------------------------------
\* A debit charges Outbound, a credit charges Inbound.
UpdateRateLimit(eid, d, amount) ==
    /\ ~CheckAndUpdateReverts(rateLimits[eid], d, amount, rateLimitAccountingType, now)
    /\ rateLimits' = [rateLimits EXCEPT
           ![eid] = CheckAndUpdateRateLimit(@, d, amount, rateLimitAccountingType, now)]
    /\ UNCHANGED <<rateLimitAccountingType, now>>

SetRateLimits(inbound, outbound) ==
    /\ ~SetReverts(rateLimits, inbound, outbound, rateLimitAccountingType, now)
    /\ rateLimits' = SetAll(rateLimits, inbound, outbound, rateLimitAccountingType, now)
    /\ UNCHANGED <<rateLimitAccountingType, now>>

ResetRateLimits(inbound, outbound) ==
    /\ rateLimits' = ResetAll(rateLimits, inbound, outbound, now)
    /\ UNCHANGED <<rateLimitAccountingType, now>>

SetRateLimitAccountingType(accounting) ==
    /\ rateLimitAccountingType' = accounting
    /\ UNCHANGED <<rateLimits, now>>

Tick ==
    /\ now < MaxTime
    /\ now' = now + 1
    /\ UNCHANGED <<rateLimitAccountingType, rateLimits>>

\* What the owner does.
Configure ==
    \/ \E inbound, outbound \in ConfigArrays : SetRateLimits(inbound, outbound)
    \/ \E inbound, outbound \in SUBSET Eids : ResetRateLimits(inbound, outbound)
    \/ \E accounting \in AccountingTypes : SetRateLimitAccountingType(accounting)

LimiterNext ==
    \/ \E eid \in Eids, d \in Directions, amount \in Amounts :
          UpdateRateLimit(eid, d, amount)
    \/ Configure
    \/ Tick

LimiterSpec == LimiterInit /\ [][LimiterNext]_limiterVars

-----------------------------------------------------------------------------
(***************************************************************************)
(* "Checkpoint the existing rate limit to not retroactively apply the new  *)
(* decay rate": replacing the limit or the window of a rate limit leaves   *)
(* its current in-flight amount as it was under the old configuration,     *)
(* under both accounting types and whatever the other direction of the     *)
(* same transaction does.  (A window of 0 means no decay at all: there the *)
(* current in-flight amount is 0 by definition.)                           *)
(***************************************************************************)
SameConfig(rl1, rl2) == rl1.limit = rl2.limit /\ rl1.window = rl2.window

NoRetroactiveDecay ==
    [][\A eid \in Eids, d \in Directions :
          /\ ~SameConfig(rateLimits[eid][d], rateLimits'[eid][d])
          /\ rateLimits'[eid][d].window > 0
          => CurrentAmountInFlight(rateLimits'[eid][d], now')
                 = CurrentAmountInFlight(rateLimits[eid][d], now)]_limiterVars

(***************************************************************************)
(* A quote taken from getAmountCanBeSent stays good while nobody uses the  *)
(* limiter: the passing of time never lowers the available capacity, also  *)
(* across the rounding of the decay, the end of the window, and when more  *)
(* is in flight than a lowered limit allows.  The one exception is a limit *)
(* so large that the decay of the later call overflows.                    *)
(***************************************************************************)
TimeOnlyFreesCapacity ==
    [][\A eid \in Eids, d \in Directions :
          /\ UNCHANGED rateLimits
          /\ ~DecayReverts(rateLimits[eid][d], now')
          => AvailableCapacity(rateLimits[eid][d], now')
                 >= AvailableCapacity(rateLimits[eid][d], now)]_limiterVars

(***************************************************************************)
(* A limit near type(uint256).max ("no limit") makes limit * elapsed       *)
(* overflow, and then debits, credits and setRateLimits itself revert      *)
(* until the window has passed.  Resetting both directions of the eid      *)
(* always clears that: right after it, any amount up to the limit passes.  *)
(***************************************************************************)
ResetUnblocks ==
    [][\A eid \in Eids, d \in Directions, amount \in Amounts :
          /\ ResetRateLimits({eid}, {eid})
          /\ amount <= rateLimits[eid][d].limit
          => ~CheckAndUpdateReverts(rateLimits'[eid], d, amount,
                                    rateLimitAccountingType', now')]_limiterVars
=============================================================================
