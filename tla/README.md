# Sky OApp and OFT: TLA+ models and proofs

This directory models the cross-chain contracts of the repository in TLA+,
checks them with TLC on small instances and proves the most important
properties with TLAPS for all values of the parameters. `PROJECT.json` lists
the components, the runs, the mutants that show each property can fail, the
source lines behind every definition, the findings, the hazards and the
theorems.

Contents: [the system](#1-the-system), [modules](#2-modules-and-the-code),
[runs](#3-runs), [findings](#4-findings), [proofs](#5-proofs),
[what is left out](#6-what-is-not-modelled), [plan](#7-plan).

## 1. The system

Tokens of Sky (USDS, sUSDS, SKY, ...) move between chains over LayerZero. On
one chain of a mesh, here the *hub*, an adapter locks the token; on every
other chain a mint-and-burn contract issues it. Governance messages travel
over a second pair of applications. Solana has a program for each of the two,
and TypeScript code wires everything up.

| Component | State | Operations | Talks to | Hard behaviour | Correct when |
|---|---|---|---|---|---|
| EVM rate limiter (`contracts/SkyRateLimiter.sol`) | per eid and direction: amountInFlight, lastUpdated, limit, window; the accounting type | charge (with Net relief), set, reset, switch accounting, the two capacity views | inherited by the OFTs | rounding of the decay, checkpoints, Net relief of the other direction, overflow, switching types in flight | no interval lets more pass than limit + decay + relief; a new configuration is not retroactive; time only frees capacity; a reset unblocks |
| EVM OFT adapter (`SkyOFTAdapter.sol`, `SkyOFTCore.sol`) | locked tokens, feeBalance, paused, pausers, fee rates, limits | send (`_debit`), receive (`_credit`), withdrawFees, migrateLockedTokens, pause, unpause, setters | token, LayerZero endpoint, the other OFTs | one balance for fees and locked tokens, dust, out-of-order and retried deliveries, migration with messages in flight | every claim is backed once; deliveries are funded; fees come from fees; a paused contract moves nothing |
| EVM OFT mint-burn (`SkyOFTAdapterMintBurn.sol`) | the token's supply, the contract's balance (its fees) | the same, by mint and burn | as above | burn and mint of the fee are two calls; tokens sent to the contract become fees | the supply changes by exactly what messages say |
| LayerZero endpoint and executor (external) | verified packets | deliver, retry | all contracts | any order, any delay, retries | each packet is executed at most once |
| EVM governance (`GovernanceOAppSender.sol`, `GovernanceOAppReceiver.sol`) | canCallTarget; messageOrigin, peers | sendTx, setCanCallTarget; lzReceive with an external call | endpoint, governed targets | callbacks during the call, stale permissions, reverts and retries | a target sees the origin of exactly the message that calls it; one execution per message |
| Solana OFT (`programs/oft`) | tvl_ld, escrow, per-peer fees, paused | send, lz_receive, withdraw_fee, set_peer_config, set_oft_config, set_pause, the two quotes | token program, endpoint | transfer fees of the mint that change between epochs, and their inverse; one escrow for locked tokens and fees | the escrow holds what is locked and the fees; claims are backed; quotes and composers are told what arrives |
| Solana OFT rate limits (`state/peer_config.rs`) | per peer and direction: capacity, available_capacity, refill_per_second, last_refill_time, type | consume, refill, set_capacity, set_rate | send, lz_receive, set_peer_config | lazy refill, saturating u64, limiters of mixed types, partial parameters | two token buckets that are filled every second; value crosses only through them |
| Solana governance (`programs/governance`) | governance and remote accounts | lz_receive (clear, governed instruction, checks), set_remote, set_oapp_config | endpoint, any program | an arbitrary instruction signed by the CPI authority, atomic rollback | an authority acts only for its origin and stays usable |
| Wiring (`src/`, `scripts/`, `tasks/common/wire.ts`, some of `tasks/solana/`) | the configuration file and the run in progress; what it reads from the chain | init-config, wire, transfer-ownership, the script's steps, rate limits, pausers | Solana nodes | read, compare, act without a lock; interrupted runs, transactions that land late; comparisons that look at less than they should | peers are never set without their accounts; success means done; repeated runs converge |
| Deployment tasks (`createOFT.ts`, `createOFTAdapter.ts`, `setAuthority.ts`, `multisig.ts`) | `OFT.json` | create, create an adapter, replace authorities | token program, OFT program | chains of transactions that stop in between or overlap | the store keeps its right to mint; the wallet is not left with one authority of two; the file names what is deployed |
| Delivery tasks (`clearPayloadV2.ts`, `alt.ts`, `setALTs.ts`) | lookup tables, those the program names | deliver by hand, create a table, name tables | message explorer, Solana nodes | status and plan are read before the transaction is sent | a message can be delivered without the executor, and once |
| Other tasks, deployment scripts, configuration, tests | none | one transaction each, or only reading | the above | none of their own | not modelled |

The contracts interact by messages only. A contract is atomic: a transaction
runs alone and a revert undoes all of it. What is concurrent is the mesh: users,
owners, pausers and executors on several chains, with messages of any age
between them.

## 2. Modules and the code

    SkyRateLimits            operators: the arithmetic of one eid's two limits
      SkyRateLimiter         the limiter as a state machine
        SkyRateLimiterEnvelope   + history variables: what passes an interval
      SkyOFTMesh             hub adapter + mint-burn contracts + endpoint
        SkyOFTMeshLive       the mesh under fairness
    BridgeLedger             abstract specification of the mesh
    SolanaRateLimits         operators: the two token buckets of one Solana peer
      SolanaPeerLimits       the buckets as a state machine
      SolanaOFT              the Solana program: store, escrow, peers
    SolanaFees               operators: shared decimals, fees, transfer fees
      SolanaOFT
    TokenBuckets             abstract specification of SolanaPeerLimits
    GovernedCalls            abstract specification of the governance calls
    Governance               sender, EVM receiver, Solana program, delivery tasks
    SolanaOAppChain          operators and state: the accounts of an application on
                             Solana and the transactions that change them
      SolanaWiring           operators at work on them: tasks, script, faults
    SolanaDeployment         the tasks that create an OFT and move its authorities
    Operators_proofs         lemmas about the operators of SkyRateLimits and
                             SolanaRateLimits, and about sums
    *_proofs                 theorems about the module of that name
    MC*                      TLC instances

**SkyRateLimits** has no state. Its unit is the pair of inbound and outbound
limit of one eid, because a charge of one relieves the other under Net.
`CurrentAmountInFlight`, `AvailableCapacity` are `_calculateDecay`; `Charge` and
`Relieve` the two halves of `_checkAndUpdateRateLimit`; `...Reverts` operators
say when a call reverts: the capacity is exceeded, or `limit * elapsed` leaves
uint256. `MaxUint` stands for type(uint256).max. `SetAll` and `ResetAll` are the
owner's calls on two arrays, inbound first.

**SkyRateLimiter** has `rateLimits` (both mappings), `rateLimitAccountingType`
and `now`. One action per transaction: `UpdateRateLimit` (what a debit or
credit does to it), `SetRateLimits`, `ResetRateLimits`,
`SetRateLimitAccountingType` (together `Configure`, the owner's), and `Tick`
for block.timestamp.

**SkyRateLimiterEnvelope** adds history variables that measure how much was
charged to one limit since some moment and how much the other direction gave
back. The measured limit is arbitrary and the moment may be chosen again at any
time, so what holds of it holds of every limit and every interval.

**SkyOFTMesh** has the tokens of each chain (`held` by anyone, `oftBalance` by
the contract), `feeBalance` of the adapter, the administration (`feeBps`,
`accounting`, `paused`, `pausers`), `rateLimits`, and the `packets` that are
verified and not executed. `Send` is a whole `send` transaction: `_debitView`
(pause, fee, dust, slippage), the outbound limit, lock or burn, the message.
`Receive` is a whole `lzReceive`: the packet is cleared and `_credit` runs
(pause, inbound limit, rerouting, unlock or mint). Reverts are guards, so a
packet whose delivery reverts stays. Only two things matter about a
recipient: whether the token refuses it and whether it is the contract itself;
there are four kinds. `surplus` and `migrated` are history: hub tokens that
reached the adapter outside a send, and tokens that the owner migrated.

**BridgeLedger** is what users are promised: an amount is locked at the hub or
redeemed elsewhere when it departs, and unlocked or issued once when it
arrives. The mesh implements it in shared units: what is locked is the
adapter's balance plus what was migrated, less fees and surplus; what is issued
is the supply of each other token. Its invariant `Backed` is the conservation
law of the bridge.

**SkyOFTMeshLive** is the mesh without configuration changes and with fairness.
Neither traffic nor time ends there. `SendNext` is `SendAs`, the send of the
mesh, with the smallest number that no message in transit has, so that `MaxGuid`
bounds the messages in transit at one time and not those ever sent. Since a limit
looks only at the time since its last update, and treats all of it past the
window alike, one more second at the horizon is modelled by moving all updates
one second back (`ShiftTime`).

**SolanaRateLimits** and **SolanaPeerLimits** are the limiters of one
PeerConfig account. `Refill`, `TryConsume`, `SetCapacity`, `SetRate` are the
methods of `RateLimiter`; `Pass` is what `send` and `lz_receive` do with both
limiters (consume one; give the amount back to the other if that one's own type
is Net); `UpdateRateLimiter` is `update_rate_limiter`, where every part of the
parameters may be missing. Additions and the multiplication saturate at
`MaxU64`. A direction whose limiter was never set is closed.

**TokenBuckets** is what the limiters promise: buckets that are filled by their
rate every second, up to their capacity. A limiter that was last touched long
ago stands for the bucket with `fetch_available_capacity` in it.

**SolanaFees** has the amounts: `Ld2Sd`, `Sd2Ld`, `RemoveDust` of `OFTStore`,
`CalculateFee`, and `PreFeeAmount`, the inverse of a transfer fee that
`quote_send.rs` copies from the token program. `AdjustAdapter` and
`AdjustNative` are the two branches of `compute_fee_and_adjust_amount`.

**SolanaOFT** is one program account of either type with its peers. `Send` and
`LzReceive` are the whole instructions: pause, quote, slippage, the limits of
the peer, lock or burn, unlock or mint, the stored compose message.
`WithdrawFee` takes what exceeds `tvl_ld`. An instruction that returns an error
or panics (the build has overflow checks) undoes everything, so errors are
guards; only the subtraction of `withdraw_fee` is not guarded in the model, for
the type invariant to show that it never underflows. All other chains together
are `remote`, the shared units they hold or that are on the way to them, of
which they may send any part (`RemoteSend`). `feesDue` is history: the fees of
all sends, less what was withdrawn.

**Governance** has the permissions and messages of `GovernanceOAppSender`, the
`verified` and `cleared` messages of the endpoints, `messageOrigin`, and for
Solana the owner of each caller's CPI authority account, the lookup tables and
those the program names. A transaction of the EVM is several steps here:
`LzReceiveEvm` enters `_lzReceive` and publishes the origin, `GovernedCall` is
the target reading it and acting on it, then the call returns or fails. Between
these steps only what the target may do happens: read the origin, or call back
to deliver another message, which `NotEntered` (the `nonReentrant` guard)
refuses. `frames` is the call stack with what a revert restores. A transaction
on Solana (`LzReceiveSolana`) is one step: clear, compare the program, invoke
it with the authority as a signer, check the authority's account afterwards. Of
that account the model keeps whether it is as both checks want it, owned by the
system program (`lz_receive.rs:115`) and empty (`lz_receive.rs:119`); which of the
two it fails makes no difference. The
three tasks (`Look`, `Plan`, `ClearV2`, `CreateLookupTable`, `SetAlts`) read the
status and the execution plan, and send later. `done` is history: which call
was made, with whose authority, on what target, and for which time.

**GovernedCalls** is what governance is promised: a call issued by a caller
while it was permitted to is performed at most once, on the target it names,
with that caller's authority. A revoked permission does not recall what was
issued: `sendTx` is the only place that looks at `canCallTarget`.

**SolanaOAppChain** is what the wiring changes: the pathway accounts that exist,
owner and delegate, peers, enforced options, ULN configurations, rate limits,
pausers, of the OFT or of the governance OApp (`kind`). A transaction (`Tx`)
names what it does, the keys that must have signed, the accounts it creates and
those it needs; it succeeds as a whole or does nothing, and creating an account
that exists fails.

**SolanaWiring** has a `run` per operator: the task, its queue of transactions
and where it stands. `Start` reads the chain and loads the configuration of
the moment (`Wanted`); `wire` reads twice (`CollectPeers`, then `CollectRest`),
as the peers are collected first; the script looks before each of its steps
(`ScriptLooks`). Transactions are built from what was read and executed later:
`Confirm`, `Reject` (a task stops there; the script, which does not look at the
error of a confirmation, goes on), `GiveUp` (an interruption or a timeout) and
`LandLate`, the transaction that lands although nobody waits for it any more,
which also stands for a proposal of a multisig that is executed later. Which
transactions are built is translated operator by operator from the SDKs
(`OFTSetPeer`, `OAppSetPeer`, ...) and the script (`Script...`). The loop of
`wire-testnet.ts` and `wire-mainnet.ts` over its steps is commented out in the
repository; the model runs the steps in the order in which they stand.

**SolanaDeployment** has the tasks started so far, each with the steps it has
left and the transaction it waits for, the authorities of each mint, the
multisigs and stores that exist, and `OFT.json` (`file`). `Send` reads and
sends, `Confirm` is the chain's execution, `Proceed` the checks after it
(`assertAccountInitialized`, `checkMultisigSigners`), `Save` writes the file.
A task may stop anywhere and what it sent may still land. Each task is given its
mint and `setauthority` its escrow as they come: any mint that exists, the mint of
a deployment that is still under way included, and any escrow. The code
compares neither with the other nor with `OFT.json` (`setAuthority.ts:92-95`,
`createOFT.ts:167`, `createOFTAdapter.ts:63`), and neither does the model. A task
does not look at the result of a transaction (`createOFT.ts:292,322`), so the model
has runs whose hand-over fails on chain and that report success. What makes a
transaction fail there, after a node took it, is what other tasks did; nobody else
can touch a store, so that the creation of a store does not fail unnoticed.

### External behaviour

Not in this repository, modelled from its use: the ERC20 token (refuses
the zero address and itself as recipients, lossless transfers), OFTCore
(decimal conversion, 64-bit amounts), `Fee.getFee`, and the LayerZero endpoint
(each packet executed at most once, any order, kept after a revert).
For Solana: a Token-2022 mint with a transfer fee (a share in basis points,
rounded up, at most a maximum), the same within an instruction and possibly
another one in the next epoch (`NewEpoch`); the recipient gets what is left, and
what is withheld stays in the supply. For the wiring: the order in which
`configureOApp` of the devtools collects (peers, ULN configuration, options,
delegate) and that its signer stops at the first transaction that fails; the
endpoint's and the ULN's accounts, created once by the delegate. For
governance: the endpoint clears a verified message once; the model lets it do so
in any order, which includes the endpoint's own order; only the owner of a Solana
account gives it away. For the deployment: SPL authorities and 1-of-n
multisigs, and a node that refuses a transaction that would fail when it is
sent. A withdrawal whose destination is the
escrow itself moves nothing and is a stuttering step. `Clock::unix_timestamp`
does not go back. Tokens that someone gives to the escrow would only add to
what can be withdrawn, and are left out, so that the escrow of an Adapter can
be stated exactly.

## 3. Runs

| Run | Instance and bounds | Shows |
|---|---|---|
| `limiter` | one eid; amounts 1, 3; limits 2/3 s, 5/3 s; uint of 8; 4 s; at most 4 used and 4 relieved | `TypeOK`, `UsageAccounted`, `Envelope`, `NoRetroactiveDecay`, `TimeOnlyFreesCapacity`, `ResetUnblocks` |
| `limit_per_window` | the same | violation, see findings |
| `mesh` | hub and two chains, rates 2, 1, 3; fee rates 1/4, 0, 1/4; 7 tokens; 3 messages | `TypeOK`, `WholeUnits`, `Balanced`, `ImplementsLedger` |
| `custody` | hub and one chain; 5 tokens; 2 messages; fee changes, gifts, withdrawals, pauses, migration, three kinds of recipients | `DeliveriesFunded`, `PausedMovesNothing` |
| `fees` | the same | violation, see findings |
| `limits` | hub and one chain; limit 2 per 2 s, may become 6 per 3 s, uint of 6; 2 messages; 2 s; Net and Gross | `LimitersFollowed` |
| `solana_buckets` | amounts of 3; u64 of 7; capacities 3, 5, 7; rates 1, 2, 4; complete, partial and no parameters; 3 s | `TypeOK`, `ImplementsBuckets` |
| `solana_oft` | one peer, both types; u64 of 20; rate 2; a transfer fee of a quarter, at most 2, or of all, at most 1; fees of 2/4; limiters of 6 with 1/s, may become 9 and Gross or be removed; 10 tokens; 2 messages; 1 s | `TypeOK`, `FeesAreHeld`, `ClaimsBacked`, `QuoteIsSound`, `ComposeTellsCredit`, `ValueIsMetered` |
| `live` | hub with limit 2 per 2 s, Gross, and one chain with 3 per 2 s, Net; 3 tokens; any number of messages of 1, 2 or 3, two in transit at a time; pauses; recipients the token refuses | `FittingMessagesArrive`, `CapacityReturns` |
| `wiring` | one remote; an OFT handed from wallet to vault while its peer changes, and the governance OApp; two operators, one run by the other or administrative task of the first | `TypeOK`, `PeersAreUsable`, `ReadyBeforeHandover`, `SuccessMeansDone`, `Converges` |
| `deploy` | three tasks, two at a time, one of them with a mint of its own; an existing token without authorities; one possible additional minter, the wallet | `TypeOK`, `StoreKeepsMinting`, `HandedOverTogether`, `FileIsDeployed`, `AuthoritiesMoved` |
| `governance` | two callers, one EVM contract, one Solana program that needs a lookup table; 2 messages | `TypeOK`, `OriginClearOutside`, `ImplementsCalls`, `Delivered` |

Why the bounds are enough. Limits of different eids do not touch each
other, so one eid with both directions is the whole interaction of a limiter;
the configurations are chosen so that the decay of one second rounds to 0, is
exact, and exceeds what is in flight, so that a limit is lowered below what is
in flight, and so that `limit * elapsed` overflows. Three messages
over three chains with rates 2, 1 and 3 give every direction (hub to spoke,
spoke to spoke, spoke to hub), amounts with and without dust and fees, and two
messages in flight while a third is sent. In `custody` two messages are enough
for a send, its return and a migration in between. In `live` a message of 2
towards the hub needs its whole limit, one of 1 leaves too little for it, and one
of 3 never fits; two in transit are enough for one to get ahead of the other for
ever, since numbers are used again. In `solana_buckets` a rate of 4 leaves u64 within two seconds, an amount needs the
refill of a partly used bucket, and three seconds separate a change of rate
from what it must not affect. In `solana_oft` `QuoteIsSound` looks at every
amount of u64 in every state, and the two transfer fees reach all cases of their
inverse but that of no fee: below and at the maximum, and the share of 100%; one
message can be sent in one epoch and delivered in another. A limiter of 6
passes one amount of 4 and not two, so that refills and Net relief decide about
the second; that the limits of several peers are separate is proved for any
number of them (`AllValueIsMetered`). In `wiring` pathways of different remotes
touch no common account but those of the application, so one remote with a
second, changing peer is the whole interaction; the second operator reads
before, between and after any transaction of the first and leaves one behind;
the safety properties of the wiring are proved for any number of both.
In `deploy` three tasks, two of them at a time, are enough for an OFT, a change
of its authorities while it is made and another one after that, or an adapter or a
second OFT over the same mint, also with the escrow of the wrong one. Mints of
different deployments meet only through an escrow named for the wrong one, which
the stores of other tasks over the same mint give as well, so one new mint is
enough (`MaxMints`); the theorems speak of any number of tasks and mints at
once. The existing token has no authorities in the run, which makes `setauthority`
fail on it; that it belongs to the wallet was checked apart, and takes more than
twice the time. In `governance` two messages give the nested delivery, the race of
executor and operator, and a caller whose authority the first call may spoil for
the second. Bounds are constants of the modules: `MaxTime`, `MaxGuid`, `MaxUsed`,
`MaxSurplus`, `MaxPackets`, `MaxExtraRuns`, `MaxTasks`, `MaxMints`, `MaxRunning`,
`MaxMessages` and the sets of amounts; nothing else limits the state space. Deadlock is not checked, because at its
bounds (no message left to send, time at its end) each instance may really stop.

Fairness (`FairSpec`). Time passes (weak fairness of `PassTime`): blocks are
produced. An owner ends every pause in the end (weak fairness of `Unpause`); a
contract paused for ever delivers nothing, by design. A message that is
executable again and again is executed (strong fairness of `Execute` for each
message): executions are permissionless and retryable, so a delivery that lost
the race for the window's capacity is tried again, and pauses and used-up
limits make it executable only now and then, which weak fairness would not
cover. Nothing is assumed about users or pausers; users may send for ever.

That is why both liveness properties have an alternative. A full-limit message
starves while small ones of its path keep being executed before the capacity
has returned: the contracts have no queue, and executors choose. And a sender of
the full limit waits as long as others keep sending to that destination. Stated
without the alternatives, both are violated in this instance. What
`FittingMessagesArrive` and `CapacityReturns` say is that nothing else keeps a
message or the capacity back for ever: no pause, no traffic of other paths or of
the other direction, no recipient, no message that does not fit, and not that a
limit was used up.

`wiring`: `Main` keeps running the tasks, which are made to be repeated: each
reads the chain again and does what is left (strong fairness of starting each
task, because a task can be started only when no other is in progress and when
the chain meets its conditions); a run that is not interrupted makes its steps
(weak fairness), and of the transactions it sends again and again, some are
confirmed before it gives up (strong fairness of `Confirm`). Nothing is assumed
of the other operator, of interruptions or of late transactions. `governance`:
messages are verified (weak fairness); the operator repeats the delivery tasks
(strong fairness of `Look` and `SetAlts`, weak of the steps in between), and of
the repeated transactions some land and their governed instruction succeeds
(strong). Nothing is assumed of the executor, of owners and callers, or of the
EVM targets.

Every property of a passing run has a mutant: an operator next to the
original, marked "Mutant", that differs as a plausible bug would, and breaks
the property.

## 4. Findings

Both are differences between a comment and the code, each with a
counterexample of its own run.

* **Migration does not protect fees from messages in flight** (`fees`).
  `migrateLockedTokens` leaves exactly `feeBalance` tokens, but messages to the
  hub that are still on their way are then paid from them; `feeBalance` ends up
  larger than what the contract holds. Comments: `SkyOFTAdapter.sol:43,62`.
* **The limit is not a maximum per window** (`limit_per_window`). What has
  decayed can be used again within the window, so that just under twice the
  limit fits one window. Comments: `ISkyRateLimiter.sol:9`,
  `SkyRateLimiter.sol:115`. `Envelope` is the bound that does hold.

What follows needs no run of its own; the models say it, and it is worth
knowing when the tools are used.

* A `wire` run that changes the peer of an OFT, while the enforced options on
  chain are those wanted, ends with empty options: `setPeer` clears them in its
  transaction (`oft/sdk.ts:204`), after the comparison found nothing to set.
  Another run repairs it, which is why `SuccessMeansDone` allows empty options
  and `Converges` does not.
* `setPeer` of the governance OApp always creates the nonce account
  (`wiring/sdk.ts:157`), so returning to an earlier peer fails every time; the
  script, which looks first, can do it.
* The script takes ULN configurations with as many verifiers for equal
  (`wire-utils.ts:277`); it does not look at a confirmation's error
  (`wire-utils.ts:244`), so it goes on after a step that failed on chain. Of a
  script that reports success, while somebody else worked on the same accounts,
  `SuccessMeansDone` therefore promises only the store, the receive library and
  the ULN accounts. Not the nonce account: when the delegate was handed over
  in the meantime, `initOAppNonce` is rejected and skipped like any other step,
  and the script still prints that it is done. Of an undisturbed script it
  promises also the peer, the nonce account, the pinned library and a ULN
  configuration that the script takes for equal.
* The wallet's transactions create no account once the delegate is another key:
  a script that was stopped between `setPeers` and `initOAppNonce` must be
  finished first. The governance instance therefore keeps the wallet as
  delegate. Ownership is transferred after the delegate, the README's order.
* `setauthority` takes `--mint` and `--escrow` as they are given
  (`setAuthority.ts:92-95,122,134`). With the escrow of another OFT it takes the
  right to mint from the mint's own store and reports success;
  `StoreKeepsMinting` has the condition that every `setauthority` on the mint is
  given its escrow. Run on a mint that `create` has not handed over, to
  recover from an interruption or by mistake, it moves the authorities one by
  one; the hand-over of a `create` that still runs then fails, unnoticed, and `create`
  reports success while the wallet still has the freeze authority until the
  `setauthority` goes on. `HandedOverTogether` says who is to blame when the
  wallet can freeze and not mint: a `setauthority` that has not ended well.
* `create` with additional minters and `--only-oft-store` gives the minters
  their right although the prompt (`createOFT.ts:190`) says that only the store
  can mint. `setauthority` leaves the mint authority in `OFT.json` as it was, and
  a mint without freeze authority makes it stop after it has moved the mint
  authority; it can be repeated only by a wallet that is a signer of the new
  multisig.
* Two Solana programs that each need a lookup table of their own: `alt-prepare`
  makes a table only while the plan has none (`alt.ts:80`), so the second would
  need one made by hand, and all must be named together, since `set-alts`
  replaces the list. The instance of `governance` has one such program.

## 5. Proofs

`tlapm` checks every step of the proof modules. They assume only the
named assumptions on the constants: amounts are natural numbers within
`MaxUint` or `MaxU64`, conversion rates are positive, fee rates are at most
`BPS_DENOMINATOR`, the hub is not one of the other chains, chains, remotes and
peers are finitely many, and `NONE` is none of the values it stands beside. The
number of chains, eids, operators and tasks, amounts, limits, windows, decimals,
fees and all bounds are arbitrary.

* `Operators_proofs` speaks of operators only and serves all state machines.
  * Of finite sets: `SubsetInduction`, from the least cardinality of a
    counterexample, which needs no theorem with an operator parameter. From it
    the sums: `SumRecursion` (what the fold of `SumFunction` computes), `SumSplit`
    (any element taken out), that a sum changes by what its terms change by,
    and that a part is at most the total.
  * Of the EVM limiter: division and decay (`DecaySuperadditive`: rounding at
    checkpoints in between never adds decay), one limit (`ChargeFacts`,
    `RelieveFacts`, `InFlightDecays`, `CheckpointKeepsCurrent`), a pair, and the
    owner's arrays.
  * Of the Solana buckets: that every operation leaves a limiter `Sound`, and
    what saturates.
* `SkyRateLimiter_proofs`
  * `LimiterTypeCorrect`, `TypeCorrect`: amounts stay within uint256 and no
    update lies in the future, so that no subtraction of the source reverts.
  * `UsageIsAccounted`, `EnvelopeHolds`: the envelope is not inductive: it says
    nothing about what is in flight. `UsageAccounted` is: either nothing was
    used, or the limit was updated since the interval began, is not over its
    limit, and what was used is at most what is in flight, plus the decay up to
    that update, plus the relief. A charge keeps it because it fits the
    capacity; a relief because what it removes is booked; time because the
    decay that has not been applied yet is still to come; and it implies the
    envelope because in flight is at most the limit.
  * `TimeFreesCapacity`, `ConfigNotRetroactive`, `ResetsUnblock`: action
    properties from the type invariant. After a reset both directions of the eids
    it names have their whole limit, because a reset leaves nothing in flight,
    whatever the windows and the time since are.
* `SkyOFTMesh_proofs`
  * `TypeCorrect`: no balance, fee or history goes below zero, a guid names at
    most one packet.
  * `WholeUnitsHold`, `MeshImplementsLedger`: the refinement. The map divides
    by the conversion rates, so a step maps to a step of the ledger only if
    what is locked and issued are whole shared units; `WholeUnits` is that
    strengthening and, with the type invariant, is inductive. Each send and
    receive is computed first in local units (`...Books`), then in shared
    units (`...Ledger`), then as an action of the ledger (`...Refines`); all
    other actions are shown to leave books and messages alone
    (`QuietActions`). That a cleared packet removes exactly one amount on its
    way rests on guids being unique.
  * `BooksAreBalanced`: `Balanced` is a sum over the chains and the messages, and
    inductive with the two above: a step of the mesh is one of the ledger or
    none, and each action of the ledger takes from one place what it puts in
    another; the lemmas on sums turn this into the equation.
  * `DeliveriesAreFunded`: follows from `Balanced` and `WholeUnits`: what a
    message to the hub carries is a part of what all messages and all other
    chains together claim.
  * `LimitersAreFollowed`: for each chain, a send or a delivery is the
    `UpdateRateLimit` of its path and direction, with the amount that the books
    of the chain (`Locked`, `Supply`) change by, and no stuttering step is allowed
    for it; any other step leaves the books and is a step of the owner or of time.
    `TransferFollowed` has the two charges, the lemmas on the books of the
    refinement give the amounts, and a message is new or gone exactly in the
    step that is charged for it.
  * `PauseStopsTransfers`: from the type invariant.

* `SolanaPeerLimits_proofs`
  * `TypeCorrect`: a limiter is `Sound`: it holds no more than its capacity and
    was not refilled in the future. This makes saturation harmless: the
    capacity is a u64 itself, so what saturates is cut off anyway.
  * `LimitersImplementBuckets`: the refinement. `LevelFacts` gives the level of
    a bucket as its contents plus the time times the rate, cut at the capacity;
    `SecondLevel`, `RefillLevel` and `ConsumeLevel` say that a second, a refill
    and a consumption do to this level what they do to an eager bucket.
* `SolanaOFT_proofs`
  * Of the fees (`SolanaFees`): `PreFeeIsInverse` and `PreFeeIsLeast` say that
    `calculate_pre_fee_amount` is the exact and the least inverse of the transfer
    fee (rounded up both ways, with its maximum and a share of 100%);
    `AdapterViewIsSound` follows: escrow receipts are what the quote says.
  * Of the program: the invariant is `Inv`: types, `TokensCovered` (all
    tokens are within the supply, which bounds what a sender can have and so all
    sums by u64), sound limiters and `FeesAreHeld`. Each of its parts has its
    lemma for each instruction that touches it (`...Books` for tokens, `...Keeps`
    for messages and peers), and `Untouched` covers the others.
  * `TypeCorrect`, `FeesStayHeld`: from `Inv`. With `FeesAreHeld` the escrow is
    at least `tvl_ld`, so that `withdraw_fee` does not underflow.
  * `QuotesAreSound`: `AdapterViewIsSound` in every reachable state.
  * `ClaimsStayBacked`: inductive with `Inv`. A send adds the same whole shared
    units to what the other chains may claim and to what is locked or burned, a
    delivery takes those of its message from both, and a message that leaves
    another chain only moves from one term of the sum to the other.
  * `ComposersToldTheCredit`, `AllValueIsMetered`: action properties from `Inv`.

* `Governance_proofs`
  * `Invariance`: neither `OriginClearOutside` nor the refinement is inductive.
    `OneDelivery` adds what is true inside a delivery: there is one, of a cleared
    message, the origin published is its caller, and it has acted if and only if
    its call is in `done`; `DoneAsAsked` that every call in `done` is of a cleared
    message and is exactly the one asked for. Then a revert removes what the
    delivery did and nothing else, and a message that can be cleared has not
    been performed.
  * `TypeCorrect`, `OriginIsClear`: from the invariant.
  * `Implements`: the refinement. A call counts as performed when its delivery
    has returned, so `GovernedCallReturns` and `LzReceiveSolana` are the abstract
    `Perform`, `SendTx` is `Issue`, `SetCanCallTarget` is `Permit`, and everything
    else, a delivery that acts and then reverts included, is a stuttering step.
    The assumptions are those on the constants: EVM and Solana targets are
    distinct, `NONE` is no caller.

* `SolanaWiring_proofs`, for any number of operators, remotes and configurations
  * `Invariance`: `PeersAreUsable` and `ReadyBeforeHandover` say nothing of the
    transactions that were built from an old reading and are still to come, in a
    queue or given up. `RunsSafe` does: each that sets a peer of the OFT
    creates what was missing of its pathway (`Carried`; accounts are never
    removed, so this stays true), and each that sets the delegate has, for every
    remote that is not ready, one that makes it ready before it in its queue
    (`Prepared`). A queue is executed in order and dropped at its first failure,
    so when the delegate's turn comes everything is ready, and what is given up
    is always the head of a queue. `Typed` types every transaction.
  * One lemma for each list a task collects (`...Collected`) and for each action
    (`...Keeps`); `RunReplaced` and `ChainMoves` do what these have in common.
  * `TypeCorrect`, `PeersUsable`, `HandedOverReady`: from the invariant. They
    assume finitely many remotes and configurations that name a peer for each.
  * `SuccessIsTrue`: `SuccessMeansDone` speaks of the moment a run ends; `Serving`
    says for every moment before what it still has to do. A `wire` run that
    is clean (nobody else changed the chain since it read it) has in its queue
    only transactions that fit the configuration it loaded, and whatever the chain
    lacks of that configuration is in its queue or not collected yet
    (`WireRun`). A script has whatever the steps before its present one leave
    (`ScriptRun`); a step whose transaction is rejected leaves nothing, but what
    a clean script has sent succeeds, so the run is not clean then. `ChainSound`
    and `SoundTx` are what both need of the chain and of all other transactions:
    a library is pinned only where its account exists, and no options are set on
    the governance OApp.

* `SolanaDeployment_proofs`, for any number of tasks
  * The properties speak of finished tasks, of authorities and of the file, and
    say nothing of a task on its way. `Inv` does, per task: what it is about
    (`Purpose`), how far it is (`Progress`: beyond the multisig step, the
    authority it hands over to lets the store mint), that the transaction it waits for
    is still valid or has had its effect (`Pending`), and what it leaves
    (`Finished`); `LateMade` says that what may land late was made by a step
    of a task that failed, `FileSaved` that the file is from a task that finished,
    and `MintsFine` what is true of each mint at any time. As any task may be
    about any mint, little of this can speak of a task alone: an authority
    that has left the wallet never returns to it (`Released`), because no
    transaction of any task gives it back, and a store that can mint
    keeps that as long as the escrows named for its mint are its own
    (`NamedBefore`: a name once given stays given).
  * `TypesHold`, `StoresKeepMinting`, `AuthoritiesLeaveTogether`,
    `FilesAreDeployed`: from `Inv`. `SettingMovesBoth`: a `setauthority` that
    nobody disturbed (`alone`) ends with both authorities moved, because `Pending`
    keeps the first moved while the second is under way.

Every invariant and every action property of the passing runs is a theorem, and
so are the three refinements. Only model-checked are the liveness properties
`Converges`, `Delivered`, `FittingMessagesArrive` and `CapacityReturns`: liveness
under fairness and ENABLED are out of the prover's reach. So is induction with an
arbitrary operator, which is why recursive definitions are avoided and sums are
reasoned about as above. The findings are counterexamples and have no proof.

## 6. What is not modelled

* Of the EVM OFTs: changing peers (they are set once), enforced options,
  compose messages and the messaging fee (inherited from OFTCore), ownership,
  events, permits and approvals. Limits with the same eid twice in one array.
  The clocks of the chains are one clock: limits use only differences of the
  time of their own chain.
* Tokens with transfer fees on EVM: the contracts document that they are not
  supported (`SkyOFTAdapter.sol:85`).
* Of the Solana OFT: changing a peer's address, enforced options, the accounts
  of `lz_receive_types`; who is admin, pauser or unpauser (the model's calls are
  made by whoever may make them); harvesting withheld transfer fees. A program
  without mint authority cannot deliver; the model's Native OFT has one.
* Of governance: what the LayerZero base contracts add (peers, delegates,
  enforced options, fees), the value sent with a call, the account lists of
  `lz_receive_types_v2` beyond the tables they name, and the first version of the
  clear task (`clearPayload.ts`), which sends one instruction without a plan.
* Of the wiring: the fee that `setPeer` resets, send-side functions of
  `wire-utils.ts` that no script calls, the EVM side of `wire` (the devtools'
  own code), retries of single reads, address derivation.
* Of the deployment: Token-2022 in `setauthority` (which does not support it),
  metadata, the lookup table and compute price a transaction is sent with. The
  Squads pause task prints a transaction and sends none.
* Tasks that only read and print, single-transaction tasks (`sendOFT`, the EVM
  ones, metadata), the deploy scripts and the configuration have no state or
  control of their own.
* The byte layout of messages.

## 7. Plan

Modules were written in this order: the EVM limiter, the mesh and its ledger,
the mesh with limiters and under fairness, the Solana limits, fees and program,
the wiring, the deployment, governance. What would come next:

1. Wiring with two sets of verifiers of one size, so that what the script takes
   for equal differs, and `Converges` with several remotes.
2. The safety part of the liveness arguments: that a message which fits stays
   deliverable until it is delivered, as an invariant of the mesh.
