----------------------------- MODULE SolanaOFT -----------------------------
(***************************************************************************)
(* The OFT program on Solana: one OFTStore with its escrow and its peers.  *)
(* Source: programs/oft/src.  An instruction is atomic and an error undoes *)
(* it, so its errors, and the overflow panics of the build                 *)
(* (overflow-checks in Cargo.toml), are the guard of its action.           *)
(*                                                                         *)
(* External, modelled from their use: the Token-2022 program with its      *)
(* transfer fees, the LayerZero endpoint (a packet is cleared at most      *)
(* once, in any order), and the OFTs of the other chains, which together   *)
(* hold what was sent to them and may send any of it.                      *)
(***************************************************************************)
EXTENDS SolanaRateLimits, SolanaFees, Functions

CONSTANTS
    OFTTypes,           \* "Adapter" (lock and unlock), "Native" (burn and mint)
    Eids,               \* the peers
    TransferFees,       \* transfer fees the mint may have, by epoch
    FeeChoices,         \* fees (basis points, or None) the admin asks for
    InitialLimiter,     \* both limiters of each peer when the model starts
    LimitChoices,       \* rate limit parameters the admin chooses from
    SendAmounts, MinAmounts,    \* amount_ld and min_amount_ld users ask for
    RemoteAmounts,      \* shared-decimals amounts sent from other chains
    WithdrawAmounts,
    InitialTokens,      \* tokens held by users at the start
    InitialRemote,      \* shared units on other chains at the start (Native)
    MaxPackets,         \* bound on the packets sent from other chains
    MaxTime             \* bound on Clock::unix_timestamp

ASSUME OFTAssumption ==
    /\ OFTTypes \subseteq {"Adapter", "Native"}
    /\ TransferFees \subseteq TransferFee /\ TransferFees # {}
    /\ FeeChoices \subseteq Option(Nat)
    /\ InitialLimiter \in Option(RateLimiter)
    /\ InitialLimiter # NONE =>
        /\ InitialLimiter.available_capacity <= InitialLimiter.capacity
        /\ InitialLimiter.last_refill_time = 0
    /\ LimitChoices \subseteq Option(RateLimitParams)
    /\ SendAmounts \subseteq U64 /\ MinAmounts \subseteq U64
    /\ RemoteAmounts \subseteq U64 /\ WithdrawAmounts \subseteq U64
    /\ InitialTokens \in U64 /\ InitialRemote \in Nat
    /\ MaxPackets \in Nat /\ MaxTime \in U64

VARIABLES
    oft_type, default_fee_bps, paused, tvl_ld,  \* of OFTStore
    peers,          \* PeerConfig of each eid: fee_bps and the limiters
    transferFee,    \* the mint's fee in this epoch
    escrow,         \* amount of token_escrow
    held,           \* tokens of everyone else
    supply,         \* supply of the mint
    remote,         \* shared units on other chains or on their way there
    packets,        \* verified messages not yet cleared
    nonce,          \* number of messages sent from other chains
    composed,       \* compose messages stored at the endpoint
    now,            \* Clock::unix_timestamp
    feesDue         \* history: oft_fee_ld of all sends, less what was withdrawn

storeVars == <<oft_type, default_fee_bps, paused>>
tokenVars == <<escrow, held, supply, tvl_ld>>
channelVars == <<remote, packets, nonce, composed>>
vars == <<oft_type, default_fee_bps, paused, tvl_ld, peers, transferFee, escrow,
          held, supply, remote, packets, nonce, composed, now, feesDue>>

Packet == [nonce : Nat, src_eid : Eids, amount_sd : U64, compose : BOOLEAN]

Init ==
    /\ oft_type \in OFTTypes
    /\ default_fee_bps = 0
    /\ paused = FALSE
    /\ tvl_ld = 0
    /\ peers = [e \in Eids |-> [fee_bps |-> NONE,
                                limiters |-> [d \in Flows |-> InitialLimiter]]]
    /\ transferFee \in TransferFees
    /\ escrow = 0
    /\ held = InitialTokens
    /\ supply = InitialTokens
    /\ remote = IF oft_type = "Native" THEN InitialRemote ELSE 0
    /\ packets = {}
    /\ nonce = 0
    /\ composed = {}
    /\ now = 0
    /\ feesDue = 0

-----------------------------------------------------------------------------
FeeBpsOf(e) == IF peers[e].fee_bps = NONE THEN default_fee_bps ELSE peers[e].fee_bps

ComputeFeeAndAdjustAmount(e, amount) ==
    IF oft_type = "Adapter"
    THEN AdjustAdapter(transferFee, FeeBpsOf(e), amount)
    ELSE AdjustNative(FeeBpsOf(e), amount)

\* Mutant: the limiters are charged in shared units.
MeteredInSharedUnits(e, d, amount) ==
    /\ ~ PassFails(peers[e].limiters, d, Ld2Sd(amount), now)
    /\ peers' = [peers EXCEPT ![e].limiters = Pass(@, d, Ld2Sd(amount), now)]

\* The rate limits of peer e let the amount pass.
Metered(e, d, amount) ==
    /\ ~ PassFails(peers[e].limiters, d, amount, now)
    /\ peers' = [peers EXCEPT ![e].limiters = Pass(@, d, amount, now)]

\* Adapter: everything goes to the escrow.
Lock(view) ==
    /\ tvl_ld + view.received <= MaxU64
    /\ tvl_ld' = tvl_ld + view.received
    /\ held' = held - view.sent
    /\ escrow' = escrow + PostFeeAmount(transferFee, view.sent)
    /\ UNCHANGED supply

\* Mutant: the fee is burned, too.
BurnAll(view) ==
    /\ supply' = supply - view.sent
    /\ held' = held - view.sent
    /\ escrow' = escrow + PostFeeAmount(transferFee, view.fee)
    /\ UNCHANGED tvl_ld

\* Native: burned, but for the fee, which goes to the escrow.
Burn(view) ==
    /\ supply' = supply - (view.sent - view.fee)
    /\ held' = held - view.sent
    /\ escrow' = escrow + PostFeeAmount(transferFee, view.fee)
    /\ UNCHANGED tvl_ld

Send(e, amount, minAmount) ==
    LET view == ComputeFeeAndAdjustAmount(e, amount)
    IN  /\ ~ paused
        /\ view.received >= minAmount
        /\ Metered(e, "outbound", view.received)
        /\ view.sent <= held
        /\ IF oft_type = "Adapter" THEN Lock(view) ELSE Burn(view)
        /\ remote' = remote + Ld2Sd(view.received)
        /\ feesDue' = feesDue + view.fee
        /\ UNCHANGED <<storeVars, transferFee, packets, nonce, composed, now>>

-----------------------------------------------------------------------------
\* What arrives at the recipient of an amount that was unlocked or minted.
Credited(amount) ==
    IF oft_type = "Adapter" THEN PostFeeAmount(transferFee, amount) ELSE amount

\* Mutant: the escrow pays the transfer fee on top, so that all arrives.
UnlockPlusFee(amount) ==
    LET paid == PreFeeAmount(transferFee, amount)
    IN  /\ amount <= tvl_ld
        /\ paid <= escrow
        /\ tvl_ld' = tvl_ld - amount
        /\ escrow' = escrow - paid
        /\ UNCHANGED supply

Unlock(amount) ==
    /\ amount <= tvl_ld
    /\ amount <= escrow
    /\ tvl_ld' = tvl_ld - amount
    /\ escrow' = escrow - amount
    /\ UNCHANGED supply

Mint(amount) ==
    /\ supply + amount <= MaxU64
    /\ supply' = supply + amount
    /\ UNCHANGED <<tvl_ld, escrow>>

\* Mutant: the composer is told what left the escrow.
ComposeGross(p) ==
    IF p.compose THEN {[nonce |-> p.nonce, amount_ld |-> Sd2Ld(p.amount_sd)]} ELSE {}

\* The compose message that lz_receive stores for a composed packet.
Compose(p) ==
    IF p.compose THEN {[nonce |-> p.nonce, amount_ld |-> Credited(Sd2Ld(p.amount_sd))]}
    ELSE {}

LzReceive(p) ==
    LET amount == Sd2Ld(p.amount_sd)
    IN  /\ ~ paused
        /\ amount <= MaxU64
        /\ packets' = packets \ {p}
        /\ Metered(p.src_eid, "inbound", amount)
        /\ IF oft_type = "Adapter" THEN Unlock(amount) ELSE Mint(amount)
        /\ held' = held + Credited(amount)
        /\ composed' = composed \cup Compose(p)
        /\ UNCHANGED <<storeVars, transferFee, remote, nonce, now, feesDue>>

\* The other chains send to this one.
RemoteSend(e, amount_sd, compose) ==
    /\ nonce < MaxPackets
    /\ amount_sd <= remote
    /\ remote' = remote - amount_sd
    /\ nonce' = nonce + 1
    /\ packets' = packets \cup {[nonce |-> nonce', src_eid |-> e,
                                 amount_sd |-> amount_sd, compose |-> compose]}
    /\ UNCHANGED <<storeVars, tokenVars, peers, transferFee, composed, now, feesDue>>

-----------------------------------------------------------------------------
\* Mutant: the locked tokens count as fees.
WithdrawableAll == escrow

Withdrawable == escrow - tvl_ld

WithdrawFee(fee_ld) ==
    /\ fee_ld <= Withdrawable
    /\ escrow' = escrow - fee_ld
    /\ held' = held + PostFeeAmount(transferFee, fee_ld)
    /\ feesDue' = feesDue - fee_ld
    /\ UNCHANGED <<storeVars, tvl_ld, supply, peers, transferFee, channelVars, now>>

SetPeerFee(e, fee_bps) ==
    /\ fee_bps # NONE => fee_bps < ONE_IN_BASIS_POINTS
    /\ peers' = [peers EXCEPT ![e].fee_bps = fee_bps]
    /\ UNCHANGED <<storeVars, tokenVars, transferFee, channelVars, now, feesDue>>

SetPeerRateLimit(e, d, params) ==
    /\ peers' = [peers EXCEPT ![e].limiters[d] = UpdateRateLimiter(@, params, now)]
    /\ UNCHANGED <<storeVars, tokenVars, transferFee, channelVars, now, feesDue>>

SetDefaultFee(fee_bps) ==
    /\ fee_bps # NONE /\ fee_bps < ONE_IN_BASIS_POINTS
    /\ default_fee_bps' = fee_bps
    /\ UNCHANGED <<oft_type, paused, tokenVars, peers, transferFee, channelVars, now, feesDue>>

\* By the admin, by the pauser (TRUE) or by the unpauser (FALSE).
SetPause(value) ==
    /\ paused' = value
    /\ UNCHANGED <<oft_type, default_fee_bps, tokenVars, peers, transferFee, channelVars,
                   now, feesDue>>

\* A new epoch may bring a new transfer fee of the mint.
NewEpoch(fee) ==
    /\ transferFee' = fee
    /\ UNCHANGED <<storeVars, tokenVars, peers, channelVars, now, feesDue>>

Tick ==
    /\ now < MaxTime
    /\ now' = now + 1
    /\ UNCHANGED <<storeVars, tokenVars, peers, transferFee, channelVars, feesDue>>

Next ==
    \/ \E e \in Eids, amount \in SendAmounts, min \in MinAmounts : Send(e, amount, min)
    \/ \E p \in packets : LzReceive(p)
    \/ \E e \in Eids, sd \in RemoteAmounts, compose \in BOOLEAN : RemoteSend(e, sd, compose)
    \/ \E fee \in WithdrawAmounts : WithdrawFee(fee)
    \/ \E e \in Eids, fee \in FeeChoices : SetPeerFee(e, fee)
    \/ \E e \in Eids, d \in Flows, params \in LimitChoices : SetPeerRateLimit(e, d, params)
    \/ \E fee \in FeeChoices : SetDefaultFee(fee)
    \/ \E value \in BOOLEAN : SetPause(value)
    \/ \E fee \in TransferFees : NewEpoch(fee)
    \/ Tick

Spec == Init /\ [][Next]_vars

-----------------------------------------------------------------------------
(***************************************************************************)
(* Types; that balances are in Nat says that nothing underflows.           *)
(***************************************************************************)
TypeOK ==
    /\ oft_type \in OFTTypes
    /\ default_fee_bps \in 0..(ONE_IN_BASIS_POINTS - 1)
    /\ paused \in BOOLEAN
    /\ peers \in [Eids -> [fee_bps : Option(0..(ONE_IN_BASIS_POINTS - 1)),
                           limiters : [Flows -> Option(RateLimiter)]]]
    /\ transferFee \in TransferFees
    /\ tvl_ld \in U64 /\ escrow \in U64 /\ held \in U64 /\ supply \in U64
    /\ remote \in Nat
    /\ packets \subseteq Packet
    /\ \A p, q \in packets : p.nonce = q.nonce => p = q
    /\ \A p \in packets : p.nonce \in 1..nonce
    /\ nonce \in 0..MaxPackets
    /\ composed \subseteq [nonce : 1..nonce, amount_ld : U64]
    /\ now \in 0..MaxTime
    /\ feesDue \in Nat

(***************************************************************************)
(* The escrow holds what is locked and the fees: all of oft_fee_ld for an  *)
(* Adapter ("reflects both the intended and the actual received fee",      *)
(* compute_fee_and_adjust_amount), at most that for a Native OFT.  So      *)
(* withdraw_fee never touches what is locked, whatever the transfer fee    *)
(* of the mint was in each epoch.                                          *)
(***************************************************************************)
FeesAreHeld ==
    IF oft_type = "Adapter" THEN escrow = tvl_ld + feesDue
    ELSE tvl_ld = 0 /\ escrow <= feesDue

\* What this OFT owes the other chains (Adapter) or has issued (Native).
Outstanding == IF oft_type = "Adapter" THEN tvl_ld ELSE -supply

(***************************************************************************)
(* Nothing is created or lost between the chains: what the others hold     *)
(* and what is on its way here is what send locked or burned and           *)
(* lz_receive has not unlocked or minted.                                  *)
(***************************************************************************)
ClaimsBacked ==
    LET arriving == SumFunction([p \in packets |-> p.amount_sd])
        initially == IF oft_type = "Adapter" THEN 0
                     ELSE Sd2Ld(InitialRemote) + InitialTokens
    IN  Sd2Ld(remote + arriving) = Outstanding + initially

(***************************************************************************)
(* The quote of compute_fee_and_adjust_amount, for any amount: the sender  *)
(* pays no more than asked, whole shared units are split between the       *)
(* recipient and the fee, and, for an Adapter, exactly these reach the     *)
(* escrow, of which a smaller payment would fall short.                    *)
(***************************************************************************)
QuoteIsSound ==
    \A e \in Eids, amount \in U64 :
        LET view == ComputeFeeAndAdjustAmount(e, amount)
            net == view.received + view.fee
        IN  /\ view.sent <= amount
            /\ view.received \in Nat /\ view.received % Ld2sdRate = 0
            /\ view.fee \in Nat /\ view.fee % Ld2sdRate = 0
            /\ oft_type = "Adapter" =>
                /\ PostFeeAmount(transferFee, view.sent) = net
                /\ PostFeeAmount(transferFee, amount) < net + Ld2sdRate
                /\ \A less \in 0..(view.sent - 1) : PostFeeAmount(transferFee, less) < net

-----------------------------------------------------------------------------
\* What the limiters let pass at time t in direction d.
Level(limiters, d, t) ==
    IF limiters[d] = NONE THEN 0 ELSE FetchAvailableCapacity(limiters[d], t)

(***************************************************************************)
(* Value leaves or enters only through the rate limit of one peer, which   *)
(* it uses up by exactly its amount in local decimals (send.rs:68,         *)
(* lz_receive.rs:101); the limits of the other peers are not touched.      *)
(***************************************************************************)
ValueIsMetered ==
    [][ LET moved == Outstanding' - Outstanding
            d == IF moved > 0 THEN "outbound" ELSE "inbound"
            amount == IF moved > 0 THEN moved ELSE -moved
        IN  moved # 0 =>
                \E e \in Eids :
                    /\ Level(peers'[e].limiters, d, now') = Level(peers[e].limiters, d, now) - amount
                    /\ \A f \in Eids \ {e} : peers'[f] = peers[f] ]_vars

(***************************************************************************)
(* A composer is told the amount that its recipient really got, after the  *)
(* transfer fee of the mint (lz_receive.rs:131).                           *)
(***************************************************************************)
ComposeTellsCredit ==
    [][\A c \in composed' \ composed : c.amount_ld = held' - held]_vars
=============================================================================
