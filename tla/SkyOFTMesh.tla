---------------------------- MODULE SkyOFTMesh ----------------------------
(***************************************************************************)
(* One SkyOFTAdapter (the lockbox of the mesh, on the chain Hub) and any   *)
(* number of SkyOFTAdapterMintBurn contracts (one per chain of Spokes),    *)
(* connected by LayerZero.  Sources: contracts/SkyOFTCore.sol,             *)
(* contracts/SkyOFTAdapter.sol, contracts/SkyOFTAdapterMintBurn.sol.       *)
(*                                                                         *)
(* External, modelled from how these contracts use it: the token (an ERC20 *)
(* that refuses transfers to the zero address and to itself), OFTCore's    *)
(* conversion between local and shared decimals, Fee.getFee, and the       *)
(* LayerZero endpoint, which delivers a verified packet in any order, any  *)
(* time later, at most once, and keeps a packet whose execution reverted.  *)
(*                                                                         *)
(* Each action is one transaction: a revert leaves the state as it was, so *)
(* the revert conditions of a call are the guard of its action.            *)
(***************************************************************************)
EXTENDS SkyRateLimits, FiniteSets

CONSTANTS
    Hub, Spokes,        \* chains; a chain's name is its endpoint id
    Rate,               \* decimalConversionRate of the OFT of each chain
    MaxSD,              \* type(uint64).max, the largest amount in a message
    BPS_DENOMINATOR,
    InitialFeeBps,      \* fee rate of each chain at the start
    FeeChoices,         \* fee rates the owner chooses from
    InitialConfig,      \* [limit, window] of every rate limit of each chain
    InitialAccounting,  \* accounting type of each chain at the start
    InitialPausers,     \* pausers of every chain at the start
    Configs,            \* [limit, window] records the owner chooses from
    AccountingChoices,  \* accounting types the owner chooses from
    ListedEids,         \* eids the owner configures
    Pausers,            \* accounts that may be made pausers
    SendAmounts, MinAmounts,    \* amounts (local decimals) users ask for
    SendTo,             \* kinds of recipients users name
    WithdrawAmounts, GiftAmounts,
    InitialTokens,      \* tokens that exist on the Hub at the start
    MaxGuid,            \* bound on the number of packets
    MaxSurplus,         \* bound on what is given to the OFT of the Hub
    MaxTime             \* bound on block.timestamp

Chains == {Hub} \cup Spokes

\* The recipient of a message, as far as a token transfer can tell.
Recipients == {"user", "zeroAddress", "tokenContract", "oft"}

ASSUME MeshAssumption ==
    /\ Hub \notin Spokes /\ IsFiniteSet(Spokes)
    /\ Rate \in [Chains -> Nat \ {0}]
    /\ MaxSD \in Nat
    /\ BPS_DENOMINATOR \in Nat \ {0}
    /\ InitialFeeBps \in [Chains -> 0..BPS_DENOMINATOR]
    /\ FeeChoices \subseteq 0..BPS_DENOMINATOR
    /\ InitialConfig \in [Chains -> [limit : 0..MaxUint, window : Nat]]
    /\ InitialAccounting \in [Chains -> AccountingTypes]
    /\ InitialPausers \subseteq Pausers
    /\ Configs \subseteq [limit : 0..MaxUint, window : Nat]
    /\ AccountingChoices \subseteq AccountingTypes
    /\ ListedEids \subseteq Chains
    /\ SendTo \subseteq Recipients
    /\ SendAmounts \subseteq Nat /\ MinAmounts \subseteq Nat
    /\ WithdrawAmounts \subseteq Nat /\ GiftAmounts \subseteq Nat
    /\ InitialTokens \in Nat
    /\ MaxGuid \in Nat
    /\ MaxSurplus \in Nat
    /\ MaxTime \in Nat

VARIABLES
    held,           \* tokens of each chain held by anyone but the OFT contract
    oftBalance,     \* tokens of each chain held by the OFT contract
    feeBalance,     \* SkyOFTAdapter.feeBalance
    feeBps,         \* feeBps[c][d]: fee rate of the OFT of c for destination d
    accounting,     \* rateLimitAccountingType of each chain
    rateLimits,     \* rateLimits[c][eid][direction]
    paused, pausers,
    packets,        \* verified messages not yet executed
    guid,           \* number of messages sent so far
    now,            \* block.timestamp (the chains' clocks are one)
    surplus,        \* history: hub tokens that reached the OFT outside a send
    migrated        \* history: hub tokens taken by migrateLockedTokens

tokenVars == <<held, oftBalance, feeBalance>>
adminVars == <<feeBps, accounting, paused, pausers>>
channelVars == <<packets, guid>>
historyVars == <<surplus, migrated>>
vars == <<held, oftBalance, feeBalance, feeBps, accounting, rateLimits, paused,
          pausers, packets, guid, now, surplus, migrated>>

Packet == [guid : Nat, src : Chains, dst : Chains, sd : Nat, to : Recipients]

Init ==
    /\ held = [c \in Chains |-> IF c = Hub THEN InitialTokens ELSE 0]
    /\ oftBalance = [c \in Chains |-> 0]
    /\ feeBalance = 0
    /\ feeBps = [c \in Chains |-> [d \in Chains |-> InitialFeeBps[c]]]
    /\ accounting = InitialAccounting
    /\ rateLimits = [c \in Chains |-> [eid \in Chains |-> [d \in Directions |->
           [amountInFlight |-> 0, lastUpdated |-> 0,
            limit |-> InitialConfig[c].limit, window |-> InitialConfig[c].window]]]]
    /\ paused = [c \in Chains |-> FALSE]
    /\ pausers = [c \in Chains |-> InitialPausers]
    /\ packets = {}
    /\ guid = 0
    /\ now = 0
    /\ surplus = 0
    /\ migrated = 0

-----------------------------------------------------------------------------
(***************************************************************************)
(* Amounts.  _debitView: the fee is taken first, then the dust is removed; *)
(* what the OFT keeps is the fee and the dust.                             *)
(***************************************************************************)
GetFee(c, d, amount) == (amount * feeBps[c][d]) \div BPS_DENOMINATOR

ToSD(c, amount) == amount \div Rate[c]
ToLD(c, sd) == sd * Rate[c]

\* Mutant: the dust stays in the amount.
RemoveDustNever(c, amount) == amount

RemoveDust(c, amount) == ToLD(c, ToSD(c, amount))

AmountReceived(c, d, amount) == RemoveDust(c, amount - GetFee(c, d, amount))

\* The ERC20 reverts on a transfer or mint to these recipients.
TokenRefuses(to) == to \in {"zeroAddress", "tokenContract"}

\* Mutant: no recipient is rerouted.
CreditedToAsNamed(to) == to

\* _credit sends what the token would refuse to the dead address.
CreditedTo(to) == IF to \in {"zeroAddress", "tokenContract"} THEN "dead" ELSE to

-----------------------------------------------------------------------------
(***************************************************************************)
(* _debit of the two contracts.                                            *)
(***************************************************************************)
AdapterDebit(sent, received) ==
    /\ held' = [held EXCEPT ![Hub] = @ - sent]
    /\ oftBalance' = [oftBalance EXCEPT ![Hub] = @ + sent]
    /\ feeBalance' = feeBalance + (sent - received)

\* Mutant: only what is received elsewhere is burned, and the fee still minted.
MintBurnDebitLess(c, sent, received) ==
    /\ held' = [held EXCEPT ![c] = @ - received]
    /\ oftBalance' = [oftBalance EXCEPT ![c] = @ + (sent - received)]
    /\ UNCHANGED feeBalance

MintBurnDebit(c, sent, received) ==
    /\ held' = [held EXCEPT ![c] = @ - sent]
    /\ oftBalance' = [oftBalance EXCEPT ![c] = @ + (sent - received)]
    /\ UNCHANGED feeBalance

\* Mutant: the rate limit is not checked.
DebitRevertsUnlimited(c, d, amount, minAmount, received) ==
    \/ paused[c]
    \/ received < minAmount
    \/ amount > held[c]

DebitReverts(c, d, amount, minAmount, received) ==
    \/ paused[c]
    \/ received < minAmount
    \/ CheckAndUpdateReverts(rateLimits[c][d], "Outbound", received, accounting[c], now)
    \/ amount > held[c]

\* _debit, then the message (its amount must fit 64 bits), which the endpoint
\* numbers, and _lzSend.
SendAs(number, c, d, amount, minAmount, to) ==
    LET received == AmountReceived(c, d, amount)
    IN /\ c # d
       /\ ~DebitReverts(c, d, amount, minAmount, received)
       /\ ToSD(c, received) <= MaxSD
       /\ rateLimits' = [rateLimits EXCEPT ![c][d] =
              CheckAndUpdateRateLimit(@, "Outbound", received, accounting[c], now)]
       /\ IF c = Hub THEN AdapterDebit(amount, received)
                     ELSE MintBurnDebit(c, amount, received)
       /\ packets' = packets \cup {[guid |-> number, src |-> c, dst |-> d,
                                   sd |-> ToSD(c, received), to |-> to]}
       /\ UNCHANGED <<adminVars, now, surplus, migrated>>

Send(c, d, amount, minAmount, to) ==
    /\ guid < MaxGuid
    /\ SendAs(guid + 1, c, d, amount, minAmount, to)
    /\ guid' = guid + 1

(***************************************************************************)
(* lzReceive: the endpoint clears the packet, then _credit.                *)
(***************************************************************************)
AdapterCredit(to, amount) ==
    /\ amount <= oftBalance[Hub]
    /\ IF to = "oft"
       THEN /\ surplus' = surplus + amount
            /\ UNCHANGED <<held, oftBalance>>
       ELSE /\ held' = [held EXCEPT ![Hub] = @ + amount]
            /\ oftBalance' = [oftBalance EXCEPT ![Hub] = @ - amount]
            /\ UNCHANGED surplus
    /\ UNCHANGED feeBalance

MintBurnCredit(c, to, amount) ==
    /\ IF to = "oft"
       THEN oftBalance' = [oftBalance EXCEPT ![c] = @ + amount] /\ UNCHANGED held
       ELSE held' = [held EXCEPT ![c] = @ + amount] /\ UNCHANGED oftBalance
    /\ UNCHANGED <<feeBalance, surplus>>

\* Mutant: no whenNotPaused.
CreditRevertsUnpaused(c, src, amount) ==
    CheckAndUpdateReverts(rateLimits[c][src], "Inbound", amount, accounting[c], now)

CreditReverts(c, src, amount) ==
    \/ paused[c]
    \/ CheckAndUpdateReverts(rateLimits[c][src], "Inbound", amount, accounting[c], now)

\* Mutant: a message that was executed may be executed again.
ClearedNever(p) == packets

Cleared(p) == packets \ {p}

Receive(p) ==
    LET c == p.dst
        amount == ToLD(c, p.sd)
        to == CreditedTo(p.to)
    IN /\ ~CreditReverts(c, p.src, amount)
       /\ ~TokenRefuses(to)
       /\ rateLimits' = [rateLimits EXCEPT ![c][p.src] =
              CheckAndUpdateRateLimit(@, "Inbound", amount, accounting[c], now)]
       /\ IF c = Hub THEN AdapterCredit(to, amount) ELSE MintBurnCredit(c, to, amount)
       /\ packets' = Cleared(p)
       /\ UNCHANGED <<adminVars, guid, now, migrated>>

-----------------------------------------------------------------------------
(***************************************************************************)
(* withdrawFees, migrateLockedTokens, and tokens given to the contract.    *)
(***************************************************************************)
\* Mutant: the accounted fees are not checked.
AdapterWithdrawFeesUnchecked(to, amount) ==
    /\ amount <= oftBalance[Hub]
    /\ ~TokenRefuses(to)
    /\ feeBalance' = feeBalance - amount
    /\ held' = [held EXCEPT ![Hub] = @ + amount]
    /\ oftBalance' = [oftBalance EXCEPT ![Hub] = @ - amount]
    /\ UNCHANGED <<adminVars, rateLimits, channelVars, now, historyVars>>

\* Mutant: the fees withdrawn are not deducted.
AdapterWithdrawFeesAgain(to, amount) ==
    /\ amount <= feeBalance
    /\ amount <= oftBalance[Hub]
    /\ ~TokenRefuses(to)
    /\ held' = [held EXCEPT ![Hub] = @ + amount]
    /\ oftBalance' = [oftBalance EXCEPT ![Hub] = @ - amount]
    /\ UNCHANGED <<feeBalance, adminVars, rateLimits, channelVars, now, historyVars>>

AdapterWithdrawFees(to, amount) ==
    /\ amount <= feeBalance
    /\ amount <= oftBalance[Hub]
    /\ ~TokenRefuses(to)
    /\ feeBalance' = feeBalance - amount
    /\ IF to = "oft"
       THEN /\ surplus' = surplus + amount
            /\ UNCHANGED <<held, oftBalance>>
       ELSE /\ held' = [held EXCEPT ![Hub] = @ + amount]
            /\ oftBalance' = [oftBalance EXCEPT ![Hub] = @ - amount]
            /\ UNCHANGED surplus
    /\ UNCHANGED <<adminVars, rateLimits, channelVars, now, migrated>>

MintBurnWithdrawFees(c, amount) ==
    /\ amount <= oftBalance[c]
    /\ held' = [held EXCEPT ![c] = @ + amount]
    /\ oftBalance' = [oftBalance EXCEPT ![c] = @ - amount]
    /\ UNCHANGED <<feeBalance, adminVars, rateLimits, channelVars, now, historyVars>>

\* To another address than the contract itself.
MigrateLockedTokens ==
    LET balance == oftBalance[Hub] - feeBalance
    IN /\ balance >= 0
       /\ held' = [held EXCEPT ![Hub] = @ + balance]
       /\ oftBalance' = [oftBalance EXCEPT ![Hub] = @ - balance]
       /\ migrated' = migrated + balance
       /\ UNCHANGED <<feeBalance, adminVars, rateLimits, channelVars, now, surplus>>

\* A plain ERC20 transfer to the OFT contract.
Gift(c, amount) ==
    /\ amount <= held[c]
    /\ held' = [held EXCEPT ![c] = @ - amount]
    /\ oftBalance' = [oftBalance EXCEPT ![c] = @ + amount]
    /\ surplus' = IF c = Hub THEN surplus + amount ELSE surplus
    /\ c = Hub => surplus' <= MaxSurplus
    /\ UNCHANGED <<feeBalance, adminVars, rateLimits, channelVars, now, migrated>>

-----------------------------------------------------------------------------
(***************************************************************************)
(* Administration.                                                         *)
(***************************************************************************)
SetPauser(c, account, canPause) ==
    /\ (account \in pausers[c]) # canPause
    /\ pausers' = [pausers EXCEPT
           ![c] = IF canPause THEN @ \cup {account} ELSE @ \ {account}]
    /\ UNCHANGED <<tokenVars, feeBps, accounting, paused, rateLimits, channelVars,
                   now, historyVars>>

Pause(c, account) ==
    /\ account \in pausers[c]
    /\ ~paused[c]
    /\ paused' = [paused EXCEPT ![c] = TRUE]
    /\ UNCHANGED <<tokenVars, feeBps, accounting, pausers, rateLimits, channelVars,
                   now, historyVars>>

Unpause(c) ==
    /\ paused[c]
    /\ paused' = [paused EXCEPT ![c] = FALSE]
    /\ UNCHANGED <<tokenVars, feeBps, accounting, pausers, rateLimits, channelVars,
                   now, historyVars>>

SetFeeBps(c, d, bps) ==
    /\ feeBps' = [feeBps EXCEPT ![c][d] = bps]
    /\ UNCHANGED <<tokenVars, accounting, paused, pausers, rateLimits, channelVars,
                   now, historyVars>>

SetRateLimits(c, inbound, outbound) ==
    /\ ~SetReverts(rateLimits[c], inbound, outbound, accounting[c], now)
    /\ rateLimits' = [rateLimits EXCEPT
           ![c] = SetAll(@, inbound, outbound, accounting[c], now)]
    /\ UNCHANGED <<tokenVars, adminVars, channelVars, now, historyVars>>

ResetRateLimits(c, inbound, outbound) ==
    /\ rateLimits' = [rateLimits EXCEPT ![c] = ResetAll(@, inbound, outbound, now)]
    /\ UNCHANGED <<tokenVars, adminVars, channelVars, now, historyVars>>

SetRateLimitAccountingType(c, type) ==
    /\ accounting' = [accounting EXCEPT ![c] = type]
    /\ UNCHANGED <<tokenVars, feeBps, paused, pausers, rateLimits, channelVars,
                   now, historyVars>>

Tick ==
    /\ now < MaxTime
    /\ now' = now + 1
    /\ UNCHANGED <<tokenVars, adminVars, rateLimits, channelVars, historyVars>>

-----------------------------------------------------------------------------
\* Arrays that list at most one eid, of another chain than the contract's.
ConfigArrays(c) == {<<>>} \cup UNION {[{eid} -> Configs] : eid \in ListedEids \ {c}}
EidArrays(c) == {{}} \cup {{eid} : eid \in ListedEids \ {c}}

Transfers ==
    \/ \E c, d \in Chains, amount \in SendAmounts, minAmount \in MinAmounts,
          to \in SendTo : Send(c, d, amount, minAmount, to)
    \/ \E p \in packets : Receive(p)

Owner ==
    \/ \E to \in SendTo, amount \in WithdrawAmounts : AdapterWithdrawFees(to, amount)
    \/ \E c \in Spokes, amount \in WithdrawAmounts : MintBurnWithdrawFees(c, amount)
    \/ MigrateLockedTokens
    \/ \E c \in Chains, account \in Pausers, canPause \in BOOLEAN :
          SetPauser(c, account, canPause)
    \/ \E c \in Chains : Unpause(c)
    \/ \E c \in Chains : \E d \in ListedEids \ {c}, bps \in FeeChoices : SetFeeBps(c, d, bps)
    \/ \E c \in Chains : \E inbound, outbound \in ConfigArrays(c) :
          SetRateLimits(c, inbound, outbound)
    \/ \E c \in Chains : \E inbound, outbound \in EidArrays(c) :
          ResetRateLimits(c, inbound, outbound)
    \/ \E c \in Chains, type \in AccountingChoices :
          SetRateLimitAccountingType(c, type)

Environment ==
    \/ \E c \in Chains, amount \in GiftAmounts : Gift(c, amount)
    \/ \E c \in Chains, account \in Pausers : Pause(c, account)
    \/ Tick

Next == Transfers \/ Owner \/ Environment

Spec == Init /\ [][Next]_vars

-----------------------------------------------------------------------------
TokensTypeOK ==
    /\ held \in [Chains -> Nat]
    /\ oftBalance \in [Chains -> Nat]
    /\ feeBalance \in Nat
    /\ surplus \in Nat
    /\ migrated \in Nat

AdminTypeOK ==
    /\ feeBps \in [Chains -> [Chains -> 0..BPS_DENOMINATOR]]
    /\ accounting \in [Chains -> AccountingTypes]
    /\ paused \in [Chains -> BOOLEAN]
    /\ pausers \in [Chains -> SUBSET Pausers]

LimitsTypeOK ==
    /\ now \in Nat
    /\ rateLimits \in [Chains -> [Chains -> RateLimitPair]]
    /\ \A c, eid \in Chains, d \in Directions : rateLimits[c][eid][d].lastUpdated <= now

\* A guid names one packet.
ChannelTypeOK ==
    /\ guid \in Nat
    /\ packets \subseteq Packet
    /\ \A p \in packets : p.guid <= guid /\ p.sd <= MaxSD
    /\ \A p, q \in packets : p.guid = q.guid => p = q

TypeOK == TokensTypeOK /\ AdminTypeOK /\ LimitsTypeOK /\ ChannelTypeOK

-----------------------------------------------------------------------------
(***************************************************************************)
(* The books of the bridge.  What the lockbox locked for the other chains: *)
(* all it holds, plus what was migrated away, less the fees and what       *)
(* reached it outside a send.                                              *)
(***************************************************************************)
Supply(c) == held[c] + oftBalance[c]

Locked == oftBalance[Hub] + migrated - feeBalance - surplus

\* Local amounts that the bridge accounts for are whole shared units.
WholeUnits ==
    /\ Locked % Rate[Hub] = 0
    /\ \A c \in Spokes : Supply(c) % Rate[c] = 0

(***************************************************************************)
(* The mesh implements the abstract ledger of a lock-and-mint bridge: what *)
(* the lockbox locked, what each mint-and-burn token issued and what is on *)
(* its way change only as a send or a single delivery of each message      *)
(* allows, exactly, in shared units, whatever fees, dust, decimals, rate   *)
(* limits, pauses, withdrawals, gifts and migrations do meanwhile.         *)
(***************************************************************************)
Ledger == INSTANCE BridgeLedger WITH
    MaxAmount <- MaxSD,
    locked <- Locked \div Rate[Hub],
    issued <- [c \in Spokes |-> Supply(c) \div Rate[c]],
    moving <- {[id |-> p.guid, dst |-> p.dst, amount |-> p.sd] : p \in packets},
    count <- guid

ImplementsLedger == Ledger!Spec

(***************************************************************************)
(* The books of the whole mesh balance: what is locked is what the other   *)
(* chains' tokens and the messages on their way amount to.                 *)
(***************************************************************************)
Balanced == Ledger!Backed

Limiter(c) == INSTANCE SkyRateLimiter WITH
    Eids <- Chains,
    Amounts <- 0..MaxUint,
    rateLimitAccountingType <- accounting[c],
    rateLimits <- rateLimits[c]

\* What a step takes from the chain for the other chains, in local decimals
\* (negative: what it gives to it): the lockbox locks, the others burn.
Taken(c) == IF c = Hub THEN Locked' - Locked ELSE Supply(c) - Supply(c)'

\* What a step of the mesh is to the limiter of one of its chains.
MovedAsMetered(c) ==
    LET sent == {p \in packets' \ packets : p.src = c}
        executed == {p \in packets \ packets' : p.dst = c}
    IN /\ \A p \in sent :
             /\ Taken(c) = ToLD(c, p.sd)
             /\ Limiter(c)!UpdateRateLimit(p.dst, "Outbound", Taken(c))
       /\ \A p \in executed :
             /\ Taken(c) = -ToLD(c, p.sd)
             /\ Limiter(c)!UpdateRateLimit(p.src, "Inbound", -Taken(c))
       /\ sent \cup executed = {} =>
             /\ Taken(c) = 0
             /\ [Limiter(c)!Configure \/ Limiter(c)!Tick]_(Limiter(c)!limiterVars)
       /\ [Limiter(c)!LimiterNext]_(Limiter(c)!limiterVars)

(***************************************************************************)
(* No value crosses the bridge past a rate limiter.  What a step takes     *)
(* from a chain with a message it sends is, to the unit, what that step    *)
(* charges to the Outbound limit of the message's destination; what it     *)
(* gives to a chain with a message it executes is what it charges to the   *)
(* Inbound limit of the message's source, and both are the message's       *)
(* amount.  A step that does neither takes nothing, gives nothing and      *)
(* changes the limiter only as its owner or the passing of time does.      *)
(* Hence a step of the mesh is for each chain's limiter one step of        *)
(* SkyRateLimiter or none, and what is shown of the limiter alone, the     *)
(* envelope above all, bounds the value that moves.                        *)
(***************************************************************************)
LimitersFollowed == [][\A c \in Chains : MovedAsMetered(c)]_vars

(***************************************************************************)
(* As long as locked tokens were not migrated, the lockbox holds the fees  *)
(* it accounts for next to every token that is locked, so that             *)
(* withdrawFees pays from fees only and each delivery to the hub finds its *)
(* tokens.                                                                 *)
(***************************************************************************)
DeliveriesFunded ==
    migrated = 0 =>
        \A p \in packets : p.dst = Hub =>
            oftBalance[Hub] >= feeBalance + ToLD(Hub, p.sd)

(***************************************************************************)
(* "Doesn't allow owner to pull from the locked assets of the contract,    *)
(* only from accumulated fees": the fees that may be withdrawn are there.  *)
(***************************************************************************)
FeesAreHeld == feeBalance <= oftBalance[Hub]

(***************************************************************************)
(* A paused OFT moves no value: while it is paused on both sides of a step *)
(* the step neither sends from the chain nor executes a message to it.     *)
(***************************************************************************)
PausedMovesNothing ==
    [][\A c \in Chains : paused[c] /\ paused'[c] =>
          /\ \A p \in packets' \ packets : p.src # c
          /\ \A p \in packets \ packets' : p.dst # c
          /\ c \in Spokes => Supply(c)' = Supply(c)]_vars
=============================================================================
