------------------------- MODULE SkyOFTMesh_proofs -------------------------
(***************************************************************************)
(* Theorems about the mesh, for any number of spokes, any decimals, fees   *)
(* and limits: type correctness, and that the mesh implements the ledger   *)
(* of a lock-and-mint bridge.                                              *)
(***************************************************************************)
EXTENDS SkyOFTMesh, Operators_proofs

-----------------------------------------------------------------------------
\* Whole units: division and remainder by a conversion rate.

\* A multiple of r divides by r without a remainder (what toLD yields).
LEMMA WholeDiv ==
    ASSUME NEW r \in Nat \ {0}, NEW q \in Int
    PROVE  (q * r) \div r = q /\ (q * r) % r = 0
  BY Z3

\* A number without a remainder is its quotient times r.
LEMMA WholeIsProduct ==
    ASSUME NEW r \in Nat \ {0}, NEW x \in Int, x % r = 0
    PROVE  x \div r \in Int /\ x = (x \div r) * r
  BY Z3

\* Moving k whole units moves the quotient by k and leaves no remainder.
LEMMA WholeShift ==
    ASSUME NEW r \in Nat \ {0}, NEW x \in Int, x % r = 0, NEW k \in Int
    PROVE  /\ (x + k * r) % r = 0
           /\ (x + k * r) \div r = (x \div r) + k
<1> DEFINE q == x \div r
<1>1. q \in Int /\ x = q * r
  BY WholeIsProduct
<1> HIDE DEF q
<1>2. x + k * r = (q + k) * r
  BY <1>1
<1>3. ((q + k) * r) \div r = q + k /\ ((q + k) * r) % r = 0
  BY <1>1, WholeDiv
<1> QED
  BY <1>2, <1>3 DEF q

\* A quotient is at most any q whose product with w reaches n.
LEMMA DivUpper ==
    ASSUME NEW n \in Nat, NEW w \in Nat, w > 0, NEW q \in Nat, n <= w * q
    PROVE  n \div w <= q
<1> DEFINE d == n \div w
<1>1. d \in Nat /\ w * d <= n
  BY DivFacts
<1> HIDE DEF d
<1>2. SUFFICES ASSUME q + 1 <= d PROVE FALSE
  BY <1>1 DEF d
<1>3. w * (q + 1) <= w * d
  BY <1>1, <1>2, Z3
<1>4. w * (q + 1) = w * q + w
  OBVIOUS
<1>5. w * q \in Nat /\ w * d \in Nat
  BY <1>1
<1> QED
  BY <1>1, <1>3, <1>4, <1>5

-----------------------------------------------------------------------------
\* What a send takes and what it delivers.

\* decimalConversionRate is never zero.
LEMMA ChainRate == ASSUME NEW c \in Chains PROVE Rate[c] \in Nat \ {0}
  BY MeshAssumption

\* Fee.getFee never takes more than the amount.
LEMMA FeeFacts ==
    ASSUME TypeOK, NEW c \in Chains, NEW d \in Chains, NEW amount \in Nat
    PROVE  GetFee(c, d, amount) \in 0..amount
<1> DEFINE bps == feeBps[c][d]
<1>1. bps \in Nat /\ bps <= BPS_DENOMINATOR
      /\ BPS_DENOMINATOR \in Nat /\ BPS_DENOMINATOR > 0
  BY MeshAssumption DEF TypeOK, AdminTypeOK
<1> HIDE DEF bps
<1>2. amount * bps \in Nat /\ amount * bps <= BPS_DENOMINATOR * amount
  BY <1>1, Z3
<1>3. (amount * bps) \div BPS_DENOMINATOR \in Nat
      /\ (amount * bps) \div BPS_DENOMINATOR <= amount
  BY <1>1, <1>2, DivFacts, DivUpper
<1> QED
  BY <1>3 DEF GetFee, bps

(***************************************************************************)
(* What the remote chain is told is a whole number of shared units, and no *)
(* more than what was sent.                                                *)
(***************************************************************************)
LEMMA ReceivedFacts ==
    ASSUME TypeOK, NEW c \in Chains, NEW d \in Chains, NEW amount \in Nat
    PROVE  LET received == AmountReceived(c, d, amount)
           IN /\ received \in Nat
              /\ received <= amount
              /\ ToSD(c, received) \in Nat
              /\ received = ToSD(c, received) * Rate[c]
<1> DEFINE r == Rate[c]
           net == amount - GetFee(c, d, amount)
           sd == net \div r
<1>1. r \in Nat /\ r > 0 /\ r \in Nat \ {0}
  BY ChainRate
<1>2. net \in Nat /\ net <= amount
  BY FeeFacts
<1> HIDE DEF r, net
<1>3. sd \in Nat /\ r * sd <= net
  BY <1>1, <1>2, DivFacts
<1> HIDE DEF sd
<1>4. sd * r \in Nat /\ sd * r <= amount
  BY <1>1, <1>2, <1>3
<1>5. AmountReceived(c, d, amount) = sd * r
  BY DEF AmountReceived, RemoveDust, ToLD, ToSD, net, r, sd
<1>6. ToSD(c, sd * r) = sd
  BY <1>1, <1>3, WholeDiv DEF ToSD, r
<1> QED
  BY <1>1, <1>3, <1>4, <1>5, <1>6 DEF r

\* A packet credits a whole number of shared units of its destination.
LEMMA CreditFacts ==
    ASSUME TypeOK, NEW p \in packets
    PROVE  /\ p \in Packet
           /\ ToLD(p.dst, p.sd) \in Nat
           /\ p.dst \in Chains /\ p.src \in Chains /\ p.sd \in Nat
           /\ Rate[p.dst] \in Nat \ {0}
           /\ ToLD(p.dst, p.sd) = p.sd * Rate[p.dst]
<1>1. p \in Packet
  BY DEF TypeOK, ChannelTypeOK
<1>2. p.dst \in Chains /\ p.src \in Chains /\ p.sd \in Nat
  BY <1>1 DEF Packet
<1>3. Rate[p.dst] \in Nat \ {0}
  BY <1>2, ChainRate
<1> QED
  BY <1>1, <1>2, <1>3 DEF ToLD

-----------------------------------------------------------------------------
\* Type correctness, part by part.

\* The rate limits of every chain are what the lemmas on pairs ask for.
LEMMA PairsOK ==
    LimitsTypeOK <=> /\ now \in Nat
                     /\ rateLimits \in [Chains -> [Chains -> RateLimitPair]]
                     /\ \A c, eid \in Chains : PairOK(rateLimits[c][eid], now)
  BY DEF LimitsTypeOK, PairOK

\* _checkAndUpdateRateLimit, in Send and Receive, keeps the limits well-typed.
LEMMA PairUpdate ==
    ASSUME TypeOK, NEW c \in Chains, NEW eid \in Chains, NEW d \in Directions,
           NEW amount \in Nat, now' = now,
           ~CheckAndUpdateReverts(rateLimits[c][eid], d, amount, accounting[c], now),
           rateLimits' = [rateLimits EXCEPT ![c][eid] =
               CheckAndUpdateRateLimit(@, d, amount, accounting[c], now)]
    PROVE  LimitsTypeOK'
<1> DEFINE new == CheckAndUpdateRateLimit(rateLimits[c][eid], d, amount, accounting[c], now)
<1>1. /\ now \in Nat
      /\ rateLimits \in [Chains -> [Chains -> RateLimitPair]]
      /\ \A b, e \in Chains : PairOK(rateLimits[b][e], now)
  BY PairsOK DEF TypeOK
<1>2. PairOK(new, now)
  BY <1>1, CheckAndUpdateFacts
<1>3. new \in RateLimitPair
  BY <1>2 DEF PairOK
<1> HIDE DEF new
<1>4. rateLimits' = [rateLimits EXCEPT ![c][eid] = new]
  BY DEF new
<1>5. rateLimits' \in [Chains -> [Chains -> RateLimitPair]]
  BY <1>1, <1>3, <1>4
<1>6. \A b, e \in Chains : PairOK(rateLimits'[b][e], now)
  BY <1>1, <1>2, <1>4
<1> QED
  BY <1>1, <1>5, <1>6 DEF LimitsTypeOK, PairOK

\* So does replacing all the limits of one chain by well-typed ones.
LEMMA LimitsUpdate ==
    ASSUME TypeOK, NEW c \in Chains, NEW new \in [Chains -> RateLimitPair],
           \A eid \in Chains : PairOK(new[eid], now),
           now' = now, rateLimits' = [rateLimits EXCEPT ![c] = new]
    PROVE  LimitsTypeOK'
  BY DEF TypeOK, LimitsTypeOK, PairOK

\* What setRateLimits is called with is what the lemmas on pairs ask for.
LEMMA ConfigArraysOK ==
    ASSUME NEW c, NEW configs \in ConfigArrays(c)
    PROVE  ConfigsOK(configs)
<1>1. Configs \subseteq [limit : 0..MaxUint, window : Nat]
  BY MeshAssumption
<1>2. CASE configs = <<>>
  BY <1>2 DEF ConfigsOK
<1>3. CASE \E eid \in ListedEids \ {c} : configs \in [{eid} -> Configs]
  BY <1>1, <1>3 DEF ConfigsOK
<1> QED
  BY <1>2, <1>3 DEF ConfigArrays

\* Every initial state is well-typed.
LEMMA TypeOKInit == Init => TypeOK
<1> SUFFICES ASSUME Init PROVE TypeOK
  OBVIOUS
<1> USE MeshAssumption
<1>1. TokensTypeOK
  BY DEF Init, TokensTypeOK
<1>2. AdminTypeOK
  BY DEF Init, AdminTypeOK, AccountingTypes
<1>3. LimitsTypeOK
  <2>1. \A c \in Chains : InitialConfig[c].limit \in 0..MaxUint
                          /\ InitialConfig[c].window \in Nat
    OBVIOUS
  <2>2. 0 \in 0..MaxUint
    BY MaxUintAssumption
  <2> QED
    BY <2>1, <2>2 DEF Init, LimitsTypeOK, RateLimitPair, RateLimit
<1>4. ChannelTypeOK
  BY DEF Init, ChannelTypeOK
<1> QED
  BY <1>1, <1>2, <1>3, <1>4 DEF TypeOK

\* _debit and _lzSend keep the types: nothing is debited that is not there.
LEMMA SendType ==
    ASSUME TypeOK, NEW c \in Chains, NEW d \in Chains, NEW amount \in Nat,
           NEW minAmount \in Nat, NEW to \in Recipients,
           Send(c, d, amount, minAmount, to)
    PROVE  TypeOK'
<1> DEFINE received == AmountReceived(c, d, amount)
<1>1. /\ received \in Nat /\ received <= amount
      /\ ToSD(c, received) \in Nat /\ ToSD(c, received) <= MaxSD
  BY ReceivedFacts DEF Send, SendAs
<1> HIDE DEF received
<1>2. Hub \in Chains
  BY DEF Chains
<1>3. TokensTypeOK'
  BY <1>1, <1>2 DEF TypeOK, TokensTypeOK, Send, SendAs, DebitReverts, AdapterDebit, MintBurnDebit, received
<1>4. AdminTypeOK'
  BY DEF TypeOK, AdminTypeOK, Send, SendAs, adminVars
<1>5. LimitsTypeOK'
  BY <1>1, PairUpdate DEF Send, SendAs, DebitReverts, Directions, received
<1>6. ChannelTypeOK'
  BY <1>1 DEF TypeOK, ChannelTypeOK, Packet, Send, SendAs, received
<1> QED
  BY <1>3, <1>4, <1>5, <1>6 DEF TypeOK

\* lzReceive keeps the types: the lockbox never pays out what it lacks.
LEMMA ReceiveType ==
    ASSUME TypeOK, NEW p \in packets, Receive(p)
    PROVE  TypeOK'
<1>1. /\ p.dst \in Chains /\ p.src \in Chains
      /\ ToLD(p.dst, p.sd) \in Nat
  BY CreditFacts
<1>2. Hub \in Chains
  BY DEF Chains
<1>3. TokensTypeOK'
  BY <1>1, <1>2 DEF TypeOK, TokensTypeOK, Receive, AdapterCredit, MintBurnCredit
<1>4. AdminTypeOK'
  BY DEF TypeOK, AdminTypeOK, Receive, adminVars
<1>5. LimitsTypeOK'
  BY <1>1, PairUpdate DEF Receive, CreditReverts, Directions
<1>6. ChannelTypeOK'
  BY DEF TypeOK, ChannelTypeOK, Receive, Cleared
<1> QED
  BY <1>3, <1>4, <1>5, <1>6 DEF TypeOK

\* So do withdrawFees, migrateLockedTokens and a gift.
LEMMA WithdrawType ==
    ASSUME TypeOK,
           \/ \E to \in SendTo, amount \in WithdrawAmounts : AdapterWithdrawFees(to, amount)
           \/ \E c \in Spokes, amount \in WithdrawAmounts : MintBurnWithdrawFees(c, amount)
           \/ MigrateLockedTokens
           \/ \E c \in Chains, amount \in GiftAmounts : Gift(c, amount)
    PROVE  TypeOK'
<1>1. WithdrawAmounts \subseteq Nat /\ GiftAmounts \subseteq Nat
  BY MeshAssumption
<1>2. Hub \in Chains /\ Spokes \subseteq Chains
  BY DEF Chains
<1>3. UNCHANGED <<adminVars, rateLimits, channelVars, now>>
  BY DEF AdapterWithdrawFees, MintBurnWithdrawFees, MigrateLockedTokens, Gift
<1>4. AdminTypeOK' /\ LimitsTypeOK' /\ ChannelTypeOK'
  BY <1>3 DEF TypeOK, AdminTypeOK, LimitsTypeOK, ChannelTypeOK, adminVars, channelVars
<1>5. TokensTypeOK'
  <2> USE <1>1, <1>2 DEF TypeOK, TokensTypeOK
  <2>1. ASSUME NEW to \in SendTo, NEW amount \in WithdrawAmounts,
               AdapterWithdrawFees(to, amount)
        PROVE  TokensTypeOK'
    BY <2>1 DEF AdapterWithdrawFees
  <2>2. ASSUME NEW c \in Spokes, NEW amount \in WithdrawAmounts,
               MintBurnWithdrawFees(c, amount)
        PROVE  TokensTypeOK'
    BY <2>2 DEF MintBurnWithdrawFees, historyVars
  <2>3. CASE MigrateLockedTokens
    BY <2>3 DEF MigrateLockedTokens
  <2>4. ASSUME NEW c \in Chains, NEW amount \in GiftAmounts, Gift(c, amount)
        PROVE  TokensTypeOK'
    BY <2>4 DEF Gift
  <2> QED
    BY <2>1, <2>2, <2>3, <2>4
<1> QED
  BY <1>4, <1>5 DEF TypeOK

\* The actions that move no token and no packet.
Administration ==
    \/ \E c \in Chains, account \in Pausers, canPause \in BOOLEAN :
          SetPauser(c, account, canPause)
    \/ \E c \in Chains, account \in Pausers : Pause(c, account)
    \/ \E c \in Chains : Unpause(c)
    \/ \E c \in Chains : \E d \in ListedEids \ {c}, bps \in FeeChoices : SetFeeBps(c, d, bps)
    \/ \E c \in Chains : \E inbound, outbound \in ConfigArrays(c) :
          SetRateLimits(c, inbound, outbound)
    \/ \E c \in Chains : \E inbound, outbound \in EidArrays(c) :
          ResetRateLimits(c, inbound, outbound)
    \/ \E c \in Chains, type \in AccountingChoices :
          SetRateLimitAccountingType(c, type)
    \/ Tick

\* No setter touches tokens, messages or the history.
LEMMA AdministrationMovesNothing ==
    Administration => UNCHANGED <<tokenVars, channelVars, historyVars>>
  BY DEF Administration, SetPauser, Pause, Unpause, SetFeeBps, SetRateLimits,
         ResetRateLimits, SetRateLimitAccountingType, Tick

\* The setters keep the types.
LEMMA AdministrationType ==
    ASSUME TypeOK, Administration
    PROVE  TypeOK'
<1>1. TokensTypeOK' /\ ChannelTypeOK'
  BY AdministrationMovesNothing
  DEF TypeOK, TokensTypeOK, ChannelTypeOK, tokenVars, channelVars, historyVars
<1>2. ASSUME NEW c \in Chains, NEW account \in Pausers, NEW canPause \in BOOLEAN,
             SetPauser(c, account, canPause)
      PROVE  AdminTypeOK' /\ LimitsTypeOK'
  BY <1>2 DEF TypeOK, AdminTypeOK, LimitsTypeOK, SetPauser
<1>3. ASSUME NEW c \in Chains, NEW account \in Pausers, Pause(c, account)
      PROVE  AdminTypeOK' /\ LimitsTypeOK'
  BY <1>3 DEF TypeOK, AdminTypeOK, LimitsTypeOK, Pause
<1>4. ASSUME NEW c \in Chains, Unpause(c)
      PROVE  AdminTypeOK' /\ LimitsTypeOK'
  BY <1>4 DEF TypeOK, AdminTypeOK, LimitsTypeOK, Unpause
<1>5. ASSUME NEW c \in Chains, NEW d \in ListedEids \ {c}, NEW bps \in FeeChoices,
             SetFeeBps(c, d, bps)
      PROVE  AdminTypeOK' /\ LimitsTypeOK'
  <2>1. d \in Chains /\ bps \in 0..BPS_DENOMINATOR
    BY MeshAssumption
  <2> QED
    BY <1>5, <2>1 DEF TypeOK, AdminTypeOK, LimitsTypeOK, SetFeeBps
<1>6. ASSUME NEW c \in Chains, NEW inbound \in ConfigArrays(c),
             NEW outbound \in ConfigArrays(c), SetRateLimits(c, inbound, outbound)
      PROVE  AdminTypeOK' /\ LimitsTypeOK'
  <2> DEFINE new == SetAll(rateLimits[c], inbound, outbound, accounting[c], now)
  <2>1. /\ now \in Nat
        /\ rateLimits[c] \in [Chains -> RateLimitPair]
        /\ \A eid \in Chains : PairOK(rateLimits[c][eid], now)
    BY PairsOK DEF TypeOK
  <2>2. ConfigsOK(inbound) /\ ConfigsOK(outbound)
    BY ConfigArraysOK
  <2>3. new \in [Chains -> RateLimitPair] /\ \A eid \in Chains : PairOK(new[eid], now)
    BY <1>6, <2>1, <2>2, SetAllFacts DEF SetRateLimits
  <2>4. rateLimits' = [rateLimits EXCEPT ![c] = new] /\ now' = now
    BY <1>6 DEF SetRateLimits
  <2> HIDE DEF new
  <2>5. LimitsTypeOK'
    BY <2>3, <2>4, LimitsUpdate
  <2> QED
    BY <1>6, <2>5 DEF TypeOK, AdminTypeOK, SetRateLimits, adminVars
<1>7. ASSUME NEW c \in Chains, NEW inbound \in EidArrays(c), NEW outbound \in EidArrays(c),
             ResetRateLimits(c, inbound, outbound)
      PROVE  AdminTypeOK' /\ LimitsTypeOK'
  <2> DEFINE new == ResetAll(rateLimits[c], inbound, outbound, now)
  <2>1. /\ now \in Nat
        /\ rateLimits[c] \in [Chains -> RateLimitPair]
        /\ \A eid \in Chains : PairOK(rateLimits[c][eid], now)
    BY PairsOK DEF TypeOK
  <2>2. new \in [Chains -> RateLimitPair] /\ \A eid \in Chains : PairOK(new[eid], now)
    BY <2>1, ResetAllFacts
  <2>3. rateLimits' = [rateLimits EXCEPT ![c] = new] /\ now' = now
    BY <1>7 DEF ResetRateLimits
  <2> HIDE DEF new
  <2>4. LimitsTypeOK'
    BY <2>2, <2>3, LimitsUpdate
  <2> QED
    BY <1>7, <2>4 DEF TypeOK, AdminTypeOK, ResetRateLimits, adminVars
<1>8. ASSUME NEW c \in Chains, NEW type \in AccountingChoices,
             SetRateLimitAccountingType(c, type)
      PROVE  AdminTypeOK' /\ LimitsTypeOK'
  <2>1. type \in AccountingTypes
    BY MeshAssumption
  <2> QED
    BY <1>8, <2>1
    DEF TypeOK, AdminTypeOK, LimitsTypeOK, SetRateLimitAccountingType
<1>9. ASSUME Tick PROVE AdminTypeOK' /\ LimitsTypeOK'
  <2>1. AdminTypeOK'
    BY <1>9 DEF TypeOK, AdminTypeOK, Tick, adminVars
  <2>2. LimitsTypeOK'
    <3>1. /\ now \in Nat /\ now' = now + 1 /\ rateLimits' = rateLimits
          /\ rateLimits \in [Chains -> [Chains -> RateLimitPair]]
          /\ \A c, eid \in Chains : PairOK(rateLimits[c][eid], now)
      BY <1>9, PairsOK DEF TypeOK, Tick
    <3>2. \A c, eid \in Chains : PairOK(rateLimits[c][eid], now + 1)
      BY <3>1, PairLater
    <3> QED
      BY <3>1, <3>2 DEF LimitsTypeOK, PairOK
  <2> QED
    BY <2>1, <2>2
<1> QED
  BY <1>1, <1>2, <1>3, <1>4, <1>5, <1>6, <1>7, <1>8, <1>9 DEF Administration, TypeOK

\* What users ask for is a number and a recipient.
LEMMA InputsOK ==
    /\ SendAmounts \subseteq Nat /\ MinAmounts \subseteq Nat
    /\ SendTo \subseteq Recipients
  BY MeshAssumption

\* The next-state relation by what an action does to the books.
LEMMA NextCases ==
    Next <=> \/ \E c, d \in Chains, amount \in SendAmounts, minAmount \in MinAmounts,
                   to \in SendTo : Send(c, d, amount, minAmount, to)
             \/ \E p \in packets : Receive(p)
             \/ \E to \in SendTo, amount \in WithdrawAmounts : AdapterWithdrawFees(to, amount)
             \/ \E c \in Spokes, amount \in WithdrawAmounts : MintBurnWithdrawFees(c, amount)
             \/ MigrateLockedTokens
             \/ \E c \in Chains, amount \in GiftAmounts : Gift(c, amount)
             \/ Administration
  BY DEF Next, Transfers, Owner, Environment, Administration

\* Every step keeps the types.
LEMMA TypeOKStep == TypeOK /\ [Next]_vars => TypeOK'
<1> SUFFICES ASSUME TypeOK, [Next]_vars PROVE TypeOK'
  OBVIOUS
<1>1. ASSUME NEW c \in Chains, NEW d \in Chains, NEW amount \in SendAmounts,
             NEW minAmount \in MinAmounts, NEW to \in SendTo,
             Send(c, d, amount, minAmount, to)
      PROVE  TypeOK'
  BY <1>1, InputsOK, SendType
<1>2. ASSUME NEW p \in packets, Receive(p) PROVE TypeOK'
  BY <1>2, ReceiveType
<1>3. CASE UNCHANGED vars
  BY <1>3 DEF vars, TypeOK, TokensTypeOK, AdminTypeOK, LimitsTypeOK, ChannelTypeOK
<1> QED
  BY <1>1, <1>2, <1>3, NextCases, WithdrawType, AdministrationType

(***************************************************************************)
(* Type correctness of the whole mesh.  It carries that no balance, fee or *)
(* history ever goes below zero and that a guid names at most one packet.  *)
(***************************************************************************)
THEOREM TypeCorrect == Spec => []TypeOK
<1>1. Init => TypeOK
  BY TypeOKInit
<1>2. TypeOK /\ [Next]_vars => TypeOK'
  BY TypeOKStep
<1> QED
  BY <1>1, <1>2, PTL DEF Spec

-----------------------------------------------------------------------------
\* What each kind of step does to the books of the bridge.

Quiet ==
    /\ Locked' = Locked
    /\ \A c \in Spokes : Supply(c)' = Supply(c)
    /\ UNCHANGED <<packets, guid>>

\* The books are numbers, and the hub is not one of the other chains.
LEMMA BooksType ==
    TypeOK => /\ Locked \in Int
              /\ \A c \in Chains : /\ held[c] \in Nat /\ oftBalance[c] \in Nat
                                   /\ Supply(c) \in Nat
              /\ feeBalance \in Nat /\ surplus \in Nat /\ migrated \in Nat
              /\ Hub \in Chains /\ Spokes \subseteq Chains /\ Hub \notin Spokes
  BY MeshAssumption DEF TypeOK, TokensTypeOK, Locked, Supply, Chains

\* A send from the hub locks exactly what is received elsewhere.
LEMMA SendFromHubBooks ==
    ASSUME TypeOK, NEW d \in Chains, NEW amount \in Nat, NEW minAmount \in Nat,
           NEW to \in Recipients, Send(Hub, d, amount, minAmount, to)
    PROVE  /\ Locked' = Locked + AmountReceived(Hub, d, amount)
           /\ \A c \in Spokes : Supply(c)' = Supply(c)
<1> DEFINE received == AmountReceived(Hub, d, amount)
<1>1. received \in Nat
  BY ReceivedFacts, BooksType
<1>2. /\ held' = [held EXCEPT ![Hub] = @ - amount]
      /\ oftBalance' = [oftBalance EXCEPT ![Hub] = @ + amount]
      /\ feeBalance' = feeBalance + (amount - received)
      /\ surplus' = surplus /\ migrated' = migrated
  BY DEF Send, SendAs, AdapterDebit
<1> HIDE DEF received
<1>3. Locked' = Locked + received
  BY <1>1, <1>2, BooksType DEF Locked, TypeOK, TokensTypeOK
<1>4. \A c \in Spokes : Supply(c)' = Supply(c)
  BY <1>2, BooksType DEF Supply, TypeOK, TokensTypeOK
<1> QED
  BY <1>3, <1>4 DEF received

\* A send from another chain redeems exactly what is received elsewhere.
LEMMA SendFromSpokeBooks ==
    ASSUME TypeOK, NEW c \in Spokes, NEW d \in Chains, NEW amount \in Nat,
           NEW minAmount \in Nat, NEW to \in Recipients,
           Send(c, d, amount, minAmount, to)
    PROVE  /\ Locked' = Locked
           /\ Supply(c)' = Supply(c) - AmountReceived(c, d, amount)
           /\ AmountReceived(c, d, amount) <= Supply(c)
           /\ \A s \in Spokes \ {c} : Supply(s)' = Supply(s)
<1> DEFINE received == AmountReceived(c, d, amount)
<1>1. c \in Chains /\ c # Hub
  BY BooksType
<1>2. received \in Nat /\ received <= amount
  BY <1>1, ReceivedFacts
<1>3. /\ held' = [held EXCEPT ![c] = @ - amount]
      /\ oftBalance' = [oftBalance EXCEPT ![c] = @ + (amount - received)]
      /\ feeBalance' = feeBalance
      /\ surplus' = surplus /\ migrated' = migrated
      /\ ~(amount > held[c])
  BY <1>1 DEF Send, SendAs, DebitReverts, MintBurnDebit
<1> HIDE DEF received
<1>4. Locked' = Locked
  BY <1>1, <1>3 DEF Locked, TypeOK, TokensTypeOK, Chains
<1>5. Supply(c)' = Supply(c) - received /\ received <= Supply(c)
  BY <1>1, <1>2, <1>3, BooksType DEF Supply, TypeOK, TokensTypeOK
<1>6. \A s \in Spokes \ {c} : Supply(s)' = Supply(s)
  BY <1>1, <1>3, BooksType DEF Supply, TypeOK, TokensTypeOK
<1> QED
  BY <1>4, <1>5, <1>6 DEF received

\* A delivery unlocks or issues exactly the amount of its message.
LEMMA ReceiveBooks ==
    ASSUME TypeOK, NEW p \in packets, Receive(p)
    PROVE  /\ p.dst = Hub =>
                 /\ Locked' = Locked - ToLD(Hub, p.sd)
                 /\ \A c \in Spokes : Supply(c)' = Supply(c)
           /\ p.dst # Hub =>
                 /\ p.dst \in Spokes
                 /\ Locked' = Locked
                 /\ Supply(p.dst)' = Supply(p.dst) + ToLD(p.dst, p.sd)
                 /\ \A s \in Spokes \ {p.dst} : Supply(s)' = Supply(s)
<1> DEFINE amount == ToLD(p.dst, p.sd)
<1>1. p.dst \in Chains /\ amount \in Nat
  BY CreditFacts
<1>2. migrated' = migrated /\ feeBalance' = feeBalance
  BY DEF Receive, AdapterCredit, MintBurnCredit
<1>3. CASE p.dst = Hub
  <2>1. \/ /\ surplus' = surplus + amount
           /\ held' = held /\ oftBalance' = oftBalance
        \/ /\ held' = [held EXCEPT ![Hub] = @ + amount]
           /\ oftBalance' = [oftBalance EXCEPT ![Hub] = @ - amount]
           /\ surplus' = surplus
    BY <1>3 DEF Receive, AdapterCredit
  <2> HIDE DEF amount
  <2>2. Locked' = Locked - amount
    BY <1>1, <1>2, <2>1, BooksType DEF Locked, TypeOK, TokensTypeOK
  <2>3. \A c \in Spokes : Supply(c)' = Supply(c)
    BY <2>1, BooksType DEF Supply, TypeOK, TokensTypeOK
  <2> QED
    BY <1>3, <2>2, <2>3 DEF amount
<1>4. CASE p.dst # Hub
  <2>1. /\ \/ oftBalance' = [oftBalance EXCEPT ![p.dst] = @ + amount] /\ held' = held
           \/ held' = [held EXCEPT ![p.dst] = @ + amount] /\ oftBalance' = oftBalance
        /\ surplus' = surplus
    BY <1>4 DEF Receive, MintBurnCredit
  <2>2. p.dst \in Spokes
    BY <1>1, <1>4 DEF Chains
  <2> HIDE DEF amount
  <2>3. Locked' = Locked
    BY <1>2, <1>4, <2>1, BooksType DEF Locked, TypeOK, TokensTypeOK
  <2>4. Supply(p.dst)' = Supply(p.dst) + amount
    BY <1>1, <2>1, BooksType DEF Supply, TypeOK, TokensTypeOK
  <2>5. \A s \in Spokes \ {p.dst} : Supply(s)' = Supply(s)
    BY <1>1, <2>1, BooksType DEF Supply, TypeOK, TokensTypeOK
  <2> QED
    BY <1>4, <2>2, <2>3, <2>4, <2>5 DEF amount
<1> QED
  BY <1>3, <1>4

\* No other action moves the books or the messages.
LEMMA QuietActions ==
    ASSUME TypeOK,
           \/ \E to \in SendTo, amount \in WithdrawAmounts : AdapterWithdrawFees(to, amount)
           \/ \E c \in Spokes, amount \in WithdrawAmounts : MintBurnWithdrawFees(c, amount)
           \/ MigrateLockedTokens
           \/ \E c \in Chains, amount \in GiftAmounts : Gift(c, amount)
           \/ Administration
           \/ UNCHANGED vars
    PROVE  Quiet
<1>1. WithdrawAmounts \subseteq Nat /\ GiftAmounts \subseteq Nat
  BY MeshAssumption
<1> USE BooksType DEF Quiet, Locked, Supply, TypeOK, TokensTypeOK
<1>2. ASSUME NEW to \in SendTo, NEW amount \in WithdrawAmounts,
             AdapterWithdrawFees(to, amount)
      PROVE  Quiet
  BY <1>1, <1>2 DEF AdapterWithdrawFees, channelVars
<1>3. ASSUME NEW c \in Spokes, NEW amount \in WithdrawAmounts,
             MintBurnWithdrawFees(c, amount)
      PROVE  Quiet
  BY <1>1, <1>3 DEF MintBurnWithdrawFees, channelVars, historyVars
<1>4. CASE MigrateLockedTokens
  BY <1>4 DEF MigrateLockedTokens, channelVars
<1>5. ASSUME NEW c \in Chains, NEW amount \in GiftAmounts, Gift(c, amount)
      PROVE  Quiet
  BY <1>1, <1>5 DEF Gift, channelVars
<1>6. CASE Administration
  BY <1>6, AdministrationMovesNothing DEF tokenVars, channelVars, historyVars
<1>7. CASE UNCHANGED vars
  BY <1>7 DEF vars
<1> QED
  BY <1>2, <1>3, <1>4, <1>5, <1>6, <1>7

-----------------------------------------------------------------------------
\* The books stay in whole shared units.

\* Nothing is locked or issued at the start.
LEMMA WholeInit == Init => WholeUnits
<1> SUFFICES ASSUME Init PROVE WholeUnits
  OBVIOUS
<1>1. Locked = 0 /\ \A c \in Spokes : Supply(c) = 0
  BY MeshAssumption DEF Init, Locked, Supply, Chains
<1>2. \A c \in Chains : 0 % Rate[c] = 0
  BY ChainRate
<1> QED
  BY <1>1, <1>2, BooksType, TypeOKInit DEF WholeUnits

\* The same in shared units: a send from the hub locks what its message says.
LEMMA SendFromHubLedger ==
    ASSUME TypeOK, WholeUnits, NEW d \in Chains, NEW amount \in Nat,
           NEW minAmount \in Nat, NEW to \in Recipients,
           Send(Hub, d, amount, minAmount, to)
    PROVE  LET sd == ToSD(Hub, AmountReceived(Hub, d, amount))
           IN /\ WholeUnits'
              /\ sd \in 0..MaxSD
              /\ Locked' \div Rate[Hub] = (Locked \div Rate[Hub]) + sd
              /\ \A c \in Spokes : Supply(c)' = Supply(c)
<1> DEFINE received == AmountReceived(Hub, d, amount)
           sd == ToSD(Hub, received)
<1>1. /\ received \in Nat /\ sd \in Nat /\ received = sd * Rate[Hub]
      /\ Rate[Hub] \in Nat \ {0}
  BY ReceivedFacts, ChainRate, BooksType
<1>2. sd <= MaxSD /\ MaxSD \in Nat
  BY MeshAssumption DEF Send, SendAs
<1>3. Locked' = Locked + received /\ \A c \in Spokes : Supply(c)' = Supply(c)
  BY SendFromHubBooks
<1> HIDE DEF received, sd
<1>4. /\ (Locked + sd * Rate[Hub]) % Rate[Hub] = 0
      /\ (Locked + sd * Rate[Hub]) \div Rate[Hub] = (Locked \div Rate[Hub]) + sd
  <2>1. Locked \in Int /\ Locked % Rate[Hub] = 0 /\ sd \in Int
    BY <1>1, BooksType DEF WholeUnits
  <2> QED
    BY <1>1, <2>1, WholeShift
<1>5. Locked' = Locked + sd * Rate[Hub]
  BY <1>1, <1>3
<1>6. Locked' % Rate[Hub] = 0 /\ Locked' \div Rate[Hub] = (Locked \div Rate[Hub]) + sd
  BY <1>4, <1>5
<1>7. WholeUnits'
  BY <1>3, <1>6 DEF WholeUnits
<1>8. sd \in 0..MaxSD
  BY <1>1, <1>2
<1> QED
  BY <1>3, <1>6, <1>7, <1>8 DEF received, sd

\* A send from another chain redeems what its message says, and it is there.
LEMMA SendFromSpokeLedger ==
    ASSUME TypeOK, WholeUnits, NEW c \in Spokes, NEW d \in Chains, NEW amount \in Nat,
           NEW minAmount \in Nat, NEW to \in Recipients,
           Send(c, d, amount, minAmount, to)
    PROVE  LET sd == ToSD(c, AmountReceived(c, d, amount))
           IN /\ WholeUnits'
              /\ sd \in 0..MaxSD
              /\ sd <= Supply(c) \div Rate[c]
              /\ Supply(c)' \div Rate[c] = (Supply(c) \div Rate[c]) - sd
              /\ \A s \in Spokes \ {c} : Supply(s)' = Supply(s)
              /\ Locked' = Locked
<1> DEFINE received == AmountReceived(c, d, amount)
           sd == ToSD(c, received)
<1>1. /\ c \in Chains
      /\ received \in Nat /\ sd \in Nat /\ received = sd * Rate[c]
      /\ Rate[c] \in Nat \ {0}
  BY ReceivedFacts, ChainRate, BooksType
<1>2. sd <= MaxSD /\ MaxSD \in Nat
  BY MeshAssumption DEF Send, SendAs
<1>3. /\ Locked' = Locked
      /\ Supply(c)' = Supply(c) - received /\ received <= Supply(c)
      /\ \A s \in Spokes \ {c} : Supply(s)' = Supply(s)
  BY SendFromSpokeBooks
<1> HIDE DEF received, sd
<1>4. Supply(c) \in Nat /\ Supply(c) % Rate[c] = 0
  BY <1>1, BooksType DEF WholeUnits
<1>5. /\ (Supply(c) + (0 - sd) * Rate[c]) % Rate[c] = 0
      /\ (Supply(c) + (0 - sd) * Rate[c]) \div Rate[c]
            = (Supply(c) \div Rate[c]) + (0 - sd)
  <2>1. Supply(c) \in Int /\ 0 - sd \in Int
    BY <1>1, <1>4
  <2> QED
    BY <1>1, <1>4, <2>1, WholeShift
<1>6. Supply(c) + (0 - sd) * Rate[c] = Supply(c) - received
  BY <1>1, <1>4
<1>7. /\ Supply(c)' % Rate[c] = 0
      /\ Supply(c)' \div Rate[c] = (Supply(c) \div Rate[c]) - sd
  <2>1. Supply(c) \div Rate[c] \in Nat
    BY <1>1, <1>4, DivFacts
  <2> QED
    BY <1>1, <1>3, <1>5, <1>6, <2>1
<1>8. sd <= Supply(c) \div Rate[c]
  <2>1. Rate[c] * sd <= Supply(c)
    BY <1>1, <1>3
  <2> QED
    BY <1>1, <1>4, <2>1, DivLower
<1>9. WholeUnits'
  BY <1>3, <1>7 DEF WholeUnits
<1>10. sd \in 0..MaxSD
  BY <1>1, <1>2
<1> QED
  BY <1>3, <1>7, <1>8, <1>9, <1>10 DEF received, sd

\* A delivery unlocks or issues what its message says.
LEMMA ReceiveLedger ==
    ASSUME TypeOK, WholeUnits, NEW p \in packets, Receive(p)
    PROVE  /\ WholeUnits'
           /\ p.dst = Hub =>
                 /\ Locked' \div Rate[Hub] = (Locked \div Rate[Hub]) - p.sd
                 /\ \A c \in Spokes : Supply(c)' = Supply(c)
           /\ p.dst # Hub =>
                 /\ p.dst \in Spokes
                 /\ Locked' = Locked
                 /\ Supply(p.dst)' \div Rate[p.dst]
                       = (Supply(p.dst) \div Rate[p.dst]) + p.sd
                 /\ \A s \in Spokes \ {p.dst} : Supply(s)' = Supply(s)
<1>1. /\ p.dst \in Chains /\ p.sd \in Nat /\ Rate[p.dst] \in Nat \ {0}
      /\ ToLD(p.dst, p.sd) = p.sd * Rate[p.dst]
  BY CreditFacts
<1>2. CASE p.dst = Hub
  <2>1. /\ Locked' = Locked - p.sd * Rate[Hub]
        /\ \A c \in Spokes : Supply(c)' = Supply(c)
    BY <1>1, <1>2, ReceiveBooks
  <2>2. /\ (Locked + (0 - p.sd) * Rate[Hub]) % Rate[Hub] = 0
        /\ (Locked + (0 - p.sd) * Rate[Hub]) \div Rate[Hub]
              = (Locked \div Rate[Hub]) + (0 - p.sd)
    <3>1. /\ Locked \in Int /\ Locked % Rate[Hub] = 0
          /\ 0 - p.sd \in Int /\ Rate[Hub] \in Nat \ {0}
      BY <1>1, <1>2, BooksType DEF WholeUnits
    <3> QED
      BY <3>1, WholeShift
  <2>3. Locked + (0 - p.sd) * Rate[Hub] = Locked - p.sd * Rate[Hub]
    BY <1>1, <1>2, BooksType
  <2>4. Locked \div Rate[Hub] \in Int
    BY <1>1, <1>2, BooksType, WholeIsProduct DEF WholeUnits
  <2>5. Locked' % Rate[Hub] = 0
        /\ Locked' \div Rate[Hub] = (Locked \div Rate[Hub]) + (0 - p.sd)
    BY <2>1, <2>2, <2>3
  <2>6. Locked' \div Rate[Hub] = (Locked \div Rate[Hub]) - p.sd
    BY <1>1, <2>4, <2>5
  <2>7. WholeUnits'
    BY <2>1, <2>5 DEF WholeUnits
  <2> QED
    BY <1>2, <2>1, <2>6, <2>7
<1>3. CASE p.dst # Hub
  <2> DEFINE c == p.dst
  <2>1. /\ c \in Spokes /\ Locked' = Locked
        /\ Supply(c)' = Supply(c) + p.sd * Rate[c]
        /\ \A s \in Spokes \ {c} : Supply(s)' = Supply(s)
    BY <1>1, <1>3, ReceiveBooks
  <2>2. /\ (Supply(c) + p.sd * Rate[c]) % Rate[c] = 0
        /\ (Supply(c) + p.sd * Rate[c]) \div Rate[c] = (Supply(c) \div Rate[c]) + p.sd
    <3>1. /\ Supply(c) \in Int /\ Supply(c) % Rate[c] = 0
          /\ p.sd \in Int /\ Rate[c] \in Nat \ {0}
      BY <1>1, <2>1, BooksType DEF WholeUnits
    <3> QED
      BY <3>1, WholeShift
  <2> HIDE DEF c
  <2>3. /\ Supply(c)' % Rate[c] = 0
        /\ Supply(c)' \div Rate[c] = (Supply(c) \div Rate[c]) + p.sd
    BY <2>1, <2>2
  <2>4. WholeUnits'
    BY <2>1, <2>3 DEF WholeUnits
  <2> QED
    BY <1>3, <2>1, <2>3, <2>4 DEF c
<1> QED
  BY <1>2, <1>3

\* Every step keeps the books in whole units.
LEMMA WholeStep == TypeOK /\ WholeUnits /\ [Next]_vars => WholeUnits'
<1> SUFFICES ASSUME TypeOK, WholeUnits, [Next]_vars PROVE WholeUnits'
  OBVIOUS
<1>1. ASSUME NEW c \in Chains, NEW d \in Chains, NEW amount \in SendAmounts,
             NEW minAmount \in MinAmounts, NEW to \in SendTo,
             Send(c, d, amount, minAmount, to)
      PROVE  WholeUnits'
  <2>1. amount \in Nat /\ minAmount \in Nat /\ to \in Recipients
    BY InputsOK
  <2>2. CASE c = Hub
    BY <1>1, <2>1, <2>2, SendFromHubLedger
  <2>3. CASE c \in Spokes
    BY <1>1, <2>1, <2>3, SendFromSpokeLedger
  <2> QED
    BY <2>2, <2>3 DEF Chains
<1>2. ASSUME NEW p \in packets, Receive(p) PROVE WholeUnits'
  BY <1>2, ReceiveLedger
<1>3. CASE Quiet
  BY <1>3 DEF Quiet, WholeUnits
<1> QED
  BY <1>1, <1>2, <1>3, NextCases, QuietActions

(***************************************************************************)
(* All that the bridge accounts for is a whole number of shared units, on  *)
(* every chain, whatever dust and fees the sends leave behind.             *)
(***************************************************************************)
THEOREM WholeUnitsHold == Spec => []WholeUnits
<1>1. Init => TypeOK /\ WholeUnits
  BY TypeOKInit, WholeInit
<1>2. TypeOK /\ WholeUnits /\ [Next]_vars => (TypeOK /\ WholeUnits)'
  BY TypeOKStep, WholeStep
<1> QED
  BY <1>1, <1>2, PTL DEF Spec

-----------------------------------------------------------------------------
\* The refinement: every step of the mesh is a step of the ledger, or none.

\* The ledger's view of packets; a guid keeps two of them apart.
Message(p) == [id |-> p.guid, dst |-> p.dst, amount |-> p.sd]

Moving == {Message(p) : p \in packets}

\* A packet that is sent is one more amount on its way.
LEMMA MovingDeparts ==
    ASSUME NEW q, packets' = packets \cup {q}
    PROVE  Moving' = Moving \cup {Message(q)}
  BY DEF Moving, Message

\* A packet that is cleared is one amount less: no other packet stands for it.
LEMMA MovingArrives ==
    ASSUME TypeOK, NEW p \in packets, packets' = packets \ {p}
    PROVE  Message(p) \in Moving /\ Moving' = Moving \ {Message(p)}
<1>1. \A q \in packets : Message(q) = Message(p) => q = p
  BY DEF TypeOK, ChannelTypeOK, Message
<1>2. Message(p) \in Moving
  BY DEF Moving
<1> HIDE DEF Message
<1>3. Moving' = {Message(q) : q \in packets \ {p}}
  BY DEF Moving, Message
<1> QED
  BY <1>1, <1>2, <1>3 DEF Moving

\* The initial states of the mesh are initial states of the ledger.
LEMMA LedgerInit == Init => Ledger!Init
<1> SUFFICES ASSUME Init PROVE Ledger!Init
  OBVIOUS
<1>1. Locked = 0 /\ \A c \in Spokes : Supply(c) = 0
  BY MeshAssumption DEF Init, Locked, Supply, Chains
<1>2. \A c \in Chains : 0 \div Rate[c] = 0
  BY ChainRate
<1>3. Hub \in Chains /\ Spokes \subseteq Chains
  BY DEF Chains
<1> QED
  BY <1>1, <1>2, <1>3 DEF Init, Ledger!Init

\* An amount redeemed at one of Spokes is a step of the ledger.
LEMMA RedeemIsNext ==
    ASSUME NEW from \in Spokes, NEW d \in Chains, NEW a \in 0..MaxSD,
           Ledger!Redeem(from, d, a)
    PROVE  Ledger!Next
  BY DEF Ledger!Next, Ledger!Places, Chains

\* A send is a lock at the hub or a redemption elsewhere.
LEMMA SendRefines ==
    ASSUME TypeOK, WholeUnits, NEW c \in Chains, NEW d \in Chains, NEW amount \in Nat,
           NEW minAmount \in Nat, NEW to \in Recipients,
           Send(c, d, amount, minAmount, to)
    PROVE  Ledger!Next
<1> DEFINE sd == ToSD(c, AmountReceived(c, d, amount))
           q == [guid |-> guid + 1, src |-> c, dst |-> d, sd |-> sd, to |-> to]
<1>1. c # d /\ guid' = guid + 1 /\ packets' = packets \cup {q}
  BY DEF Send, SendAs
<1>2. Message(q) = [id |-> guid + 1, dst |-> d, amount |-> sd]
  BY DEF Message
<1>3. Moving' = Moving \cup {[id |-> guid + 1, dst |-> d, amount |-> sd]}
  BY <1>1, <1>2, MovingDeparts
<1>4. CASE c = Hub
  <2>1. /\ sd \in 0..MaxSD
        /\ Locked' \div Rate[Hub] = (Locked \div Rate[Hub]) + sd
        /\ \A s \in Spokes : Supply(s)' = Supply(s)
    BY <1>4, SendFromHubLedger
  <2>2. d \in Spokes
    BY <1>1, <1>4 DEF Chains
  <2> HIDE DEF sd
  <2>3. Ledger!Lock(d, sd)
    BY <1>1, <1>3, <2>1 DEF Ledger!Lock, Ledger!Departed, Moving, Message
  <2> QED
    BY <2>1, <2>2, <2>3 DEF Ledger!Next
<1>5. CASE c \in Spokes
  <2>1. /\ sd \in 0..MaxSD
        /\ sd <= Supply(c) \div Rate[c]
        /\ Supply(c)' \div Rate[c] = (Supply(c) \div Rate[c]) - sd
        /\ \A s \in Spokes \ {c} : Supply(s)' = Supply(s)
        /\ Locked' = Locked
    BY <1>5, SendFromSpokeLedger
  <2> HIDE DEF sd
  <2>2. PICK a \in 0..MaxSD : a = sd
    BY <2>1
  <2>3. Ledger!Redeem(c, d, a)
    BY <1>1, <1>3, <1>5, <2>1, <2>2 DEF Ledger!Redeem, Ledger!Departed, Moving, Message
  <2> QED
    BY <1>5, <2>3, RedeemIsNext
<1> QED
  BY <1>4, <1>5 DEF Chains

\* A delivery is an unlock at the hub or an issue elsewhere.
LEMMA ReceiveRefines ==
    ASSUME TypeOK, WholeUnits, NEW p \in packets, Receive(p)
    PROVE  Ledger!Next
<1> DEFINE m == Message(p)
<1>1. guid' = guid /\ packets' = packets \ {p}
  BY DEF Receive, Cleared
<1>2. m \in Moving /\ Moving' = Moving \ {m}
  BY <1>1, MovingArrives
<1>3. m.dst = p.dst /\ m.amount = p.sd
  BY DEF Message
<1> HIDE DEF m
<1>4. CASE p.dst = Hub
  <2>1. /\ Locked' \div Rate[Hub] = (Locked \div Rate[Hub]) - p.sd
        /\ \A c \in Spokes : Supply(c)' = Supply(c)
    BY <1>4, ReceiveLedger
  <2>2. Ledger!Unlock(m)
    BY <1>1, <1>2, <1>3, <1>4, <2>1 DEF Ledger!Unlock, Moving, Message
  <2> QED
    BY <1>2, <2>2 DEF Ledger!Next, Moving, Message
<1>5. CASE p.dst # Hub
  <2>1. /\ p.dst \in Spokes /\ Locked' = Locked
        /\ Supply(p.dst)' \div Rate[p.dst] = (Supply(p.dst) \div Rate[p.dst]) + p.sd
        /\ \A s \in Spokes \ {p.dst} : Supply(s)' = Supply(s)
    BY <1>5, ReceiveLedger
  <2>2. Ledger!Issue(m)
    BY <1>1, <1>2, <1>3, <2>1 DEF Ledger!Issue, Moving, Message
  <2> QED
    BY <1>2, <2>2 DEF Ledger!Next, Moving, Message
<1> QED
  BY <1>4, <1>5

\* Every step of the mesh is a step of the ledger or leaves it alone.
LEMMA LedgerStep == TypeOK /\ WholeUnits /\ [Next]_vars => [Ledger!Next]_(Ledger!vars)
<1> SUFFICES ASSUME TypeOK, WholeUnits, [Next]_vars PROVE [Ledger!Next]_(Ledger!vars)
  OBVIOUS
<1>1. ASSUME NEW c \in Chains, NEW d \in Chains, NEW amount \in SendAmounts,
             NEW minAmount \in MinAmounts, NEW to \in SendTo,
             Send(c, d, amount, minAmount, to)
      PROVE  Ledger!Next
  BY <1>1, InputsOK, SendRefines
<1>2. ASSUME NEW p \in packets, Receive(p) PROVE Ledger!Next
  BY <1>2, ReceiveRefines
<1>3. CASE Quiet
  BY <1>3 DEF Quiet, Ledger!vars
<1> QED
  BY <1>1, <1>2, <1>3, NextCases, QuietActions

(***************************************************************************)
(* The mesh implements the ledger of a lock-and-mint bridge: an amount     *)
(* leaves one chain when it is sent and reaches the destination of its     *)
(* message once, in full, and nothing else moves what is locked or issued. *)
(***************************************************************************)
THEOREM MeshImplementsLedger == Spec => ImplementsLedger
<1>1. Init => TypeOK /\ WholeUnits /\ Ledger!Init
  BY TypeOKInit, WholeInit, LedgerInit
<1>2. TypeOK /\ WholeUnits /\ [Next]_vars => (TypeOK /\ WholeUnits)'
  BY TypeOKStep, WholeStep
<1>3. TypeOK /\ WholeUnits /\ [Next]_vars => [Ledger!Next]_(Ledger!vars)
  BY LedgerStep
<1> QED
  BY <1>1, <1>2, <1>3, PTL DEF Spec, ImplementsLedger, Ledger!Spec

-----------------------------------------------------------------------------
\* The balance of the ledger, first for any three books.

BooksBalance(l, i, m) == l = SumFunction(i) + SumFunction([x \in m |-> x.amount])

\* Messages whose amounts are counted.
Counted(m) == IsFiniteSet(m) /\ \A x \in m : x.amount \in Nat

\* A message more is its amount more on its way.
LEMMA OneMoreMoves ==
    ASSUME NEW m, Counted(m), NEW e, e \notin m, e.amount \in Nat
    PROVE  /\ Counted(m \cup {e})
           /\ SumFunction([x \in m \cup {e} |-> x.amount])
                 = SumFunction([x \in m |-> x.amount]) + e.amount
           /\ SumFunction([x \in m |-> x.amount]) \in Int
<1> DEFINE f == [x \in m |-> x.amount]
           g == [x \in m \cup {e} |-> x.amount]
<1>1. Counted(m \cup {e})
  BY FS_AddElement DEF Counted
<1>2. /\ IsFiniteSet(m)
      /\ f \in [m -> Int] /\ g \in [m \cup {e} -> Int]
      /\ \A y \in m : g[y] = f[y]
      /\ g[e] = e.amount
  BY DEF Counted
<1> HIDE DEF f, g
<1>3. SumFunction(g) = SumFunction(f) + g[e]
  BY <1>2, TotalJoined
<1>4. SumFunction(f) \in Int
  BY <1>2, TotalInt
<1> QED
  BY <1>1, <1>2, <1>3, <1>4 DEF f, g

\* A message less is its amount less on its way.
LEMMA OneLessMoves ==
    ASSUME NEW m, Counted(m), NEW e \in m
    PROVE  /\ Counted(m \ {e}) /\ e.amount \in Nat
           /\ SumFunction([x \in m \ {e} |-> x.amount])
                 = SumFunction([x \in m |-> x.amount]) - e.amount
           /\ SumFunction([x \in m |-> x.amount]) \in Int
<1> DEFINE rest == m \ {e}
<1>1. Counted(rest) /\ e \notin rest /\ e.amount \in Nat
  BY FS_Subset DEF Counted
<1>2. rest \cup {e} = m
  OBVIOUS
<1> HIDE DEF rest
<1>3. /\ SumFunction([x \in rest \cup {e} |-> x.amount])
           = SumFunction([x \in rest |-> x.amount]) + e.amount
      /\ SumFunction([x \in rest |-> x.amount]) \in Int
  BY <1>1, OneMoreMoves
<1>4. /\ SumFunction([x \in m |-> x.amount])
           = SumFunction([x \in rest |-> x.amount]) + e.amount
      /\ SumFunction([x \in rest |-> x.amount]) \in Int
  BY <1>2, <1>3
<1>5. \A a, b \in Int : \A c : c = a + b => c \in Int /\ a = c - b
  OBVIOUS
<1>6. e.amount \in Int
  BY <1>1
<1>7. /\ SumFunction([x \in m |-> x.amount]) \in Int
      /\ SumFunction([x \in rest |-> x.amount])
           = SumFunction([x \in m |-> x.amount]) - e.amount
  BY <1>4, <1>5, <1>6
<1> QED
  BY <1>1, <1>7 DEF rest

\* What is issued at one place changes by a.
LEMMA OnePlaceChanges ==
    ASSUME NEW i \in [Spokes -> Int], NEW j \in [Spokes -> Int], NEW c \in Spokes,
           NEW a \in Int, \A s \in Spokes : s # c => j[s] = i[s], j[c] = i[c] + a
    PROVE  SumFunction(j) = SumFunction(i) + a
<1>1. SumFunction(j) = SumFunction(i) + (j[c] - i[c])
  <2>1. IsFiniteSet(Spokes)
    BY MeshAssumption
  <2> QED
    BY <2>1, TotalUpdated, Zenon
<1>2. \A n \in Int : (n + a) - n = a
  OBVIOUS
<1>3. j[c] - i[c] = a
  BY <1>2
<1> QED
  BY <1>1, <1>3

\* The books of the mesh, as the ledger sees them.
LockedUnits == Locked \div Rate[Hub]
IssuedUnits == [c \in Spokes |-> Supply(c) \div Rate[c]]

\* What the ledger's books are whenever the mesh is well-typed.
LEMMA UnitsType ==
    ASSUME TypeOK
    PROVE  /\ LockedUnits \in Int
           /\ IssuedUnits \in [Spokes -> Nat]
           /\ IsFiniteSet(Spokes)
           /\ \A m \in Moving : m.amount \in Nat /\ m.id \in Nat /\ m.id <= guid
<1>1. LockedUnits \in Int
  <2>1. \A n \in Int, w \in Nat \ {0} : n \div w \in Int
    OBVIOUS
  <2>2. Locked \in Int /\ Rate[Hub] \in Nat \ {0}
    BY BooksType, ChainRate
  <2> QED
    BY <2>1, <2>2 DEF LockedUnits
<1>2. ASSUME NEW c \in Spokes PROVE Supply(c) \div Rate[c] \in Nat
  <2>1. c \in Chains /\ Supply(c) \in Nat
    BY BooksType
  <2>2. Rate[c] \in Nat /\ Rate[c] > 0
    BY <2>1, ChainRate
  <2> QED
    BY <2>1, <2>2, DivFacts
<1>3. \A m \in Moving : m.amount \in Nat /\ m.id \in Nat /\ m.id <= guid
  BY DEF TypeOK, ChannelTypeOK, Packet, Moving, Message
<1> QED
  BY <1>1, <1>2, <1>3, MeshAssumption DEF IssuedUnits

\* The invariant: finitely many messages, and the books balance.
BalanceInv == IsFiniteSet(Moving) /\ BooksBalance(LockedUnits, IssuedUnits, Moving)

\* It is the balance the runs check.
LEMMA BalancedIsBalance == Balanced <=> BooksBalance(LockedUnits, IssuedUnits, Moving)
<1>1. \A f : Ledger!SumFunction(f) = SumFunction(f)
  BY DEF Ledger!SumFunction, Ledger!SumFunctionOnSet, Ledger!FoldFunctionOnSet,
         Ledger!MapThenFoldSet, SumFunction, SumFunctionOnSet, FoldFunctionOnSet,
         MapThenFoldSet
<1>2. Moving = {[id |-> p.guid, dst |-> p.dst, amount |-> p.sd] : p \in packets}
  BY DEF Moving, Message
<1> QED
  BY <1>1, <1>2 DEF Balanced, Ledger!Backed, BooksBalance, LockedUnits, IssuedUnits

\* Nothing is locked, issued or moving at the start.
LEMMA BalanceInit == Init => BalanceInv
<1> SUFFICES ASSUME Init PROVE BalanceInv
  OBVIOUS
<1>1. /\ LockedUnits = 0 /\ IssuedUnits = [c \in Spokes |-> 0] /\ Moving = {}
  BY LedgerInit DEF Ledger!Init, LockedUnits, IssuedUnits, Moving, Message
<1>2. SumFunction(IssuedUnits) = 0
  <2>1. IsFiniteSet(Spokes) /\ IssuedUnits \in [Spokes -> {0}]
    BY <1>1, MeshAssumption
  <2> QED
    BY <2>1, TotalOfNothing
<1>3. SumFunction([x \in {} |-> x.amount]) = 0 /\ IsFiniteSet({})
  <2>1. IsFiniteSet({}) /\ [x \in {} |-> x.amount] \in [{} -> {0}]
    BY FS_EmptySet
  <2> QED
    BY <2>1, TotalOfNothing
<1> QED
  BY <1>1, <1>2, <1>3 DEF BalanceInv, BooksBalance

\* Every step of the ledger keeps its balance.
LEMMA LedgerKeepsBalance ==
    ASSUME TypeOK, BalanceInv, [Ledger!Next]_(Ledger!vars)
    PROVE  BalanceInv'
<1> DEFINE departure(to, amount) == [id |-> guid + 1, dst |-> to, amount |-> amount]
<1>1. Counted(Moving) /\ SumFunction(IssuedUnits) \in Int /\ IssuedUnits \in [Spokes -> Int]
  <2>1. IssuedUnits \in [Spokes -> Int] /\ IsFiniteSet(Spokes)
    BY UnitsType
  <2>2. SumFunction(IssuedUnits) \in Int
    BY <2>1, TotalInt
  <2> QED
    BY <2>1, <2>2, UnitsType DEF Counted, BalanceInv
<1>2. ASSUME NEW to, NEW amount \in 0..MaxSD, Moving' = Moving \cup {departure(to, amount)}
      PROVE  /\ IsFiniteSet(Moving')
             /\ SumFunction([x \in Moving' |-> x.amount])
                   = SumFunction([x \in Moving |-> x.amount]) + amount
             /\ SumFunction([x \in Moving |-> x.amount]) \in Int
  <2> DEFINE e == departure(to, amount)
  <2>1. amount \in Nat /\ guid \in Nat
    BY MeshAssumption DEF TypeOK, ChannelTypeOK
  <2>2. e.amount = amount /\ e.id = guid + 1
    OBVIOUS
  <2> HIDE DEF departure
  <2>3. e \notin Moving /\ e.amount \in Nat
    BY <2>1, <2>2, UnitsType
  <2> HIDE DEF e
  <2>4. /\ Counted(Moving \cup {e})
        /\ SumFunction([x \in Moving \cup {e} |-> x.amount])
              = SumFunction([x \in Moving |-> x.amount]) + e.amount
        /\ SumFunction([x \in Moving |-> x.amount]) \in Int
    BY <1>1, <2>3, OneMoreMoves
  <2>5. Moving' = Moving \cup {e}
    BY <1>2 DEF e
  <2> QED
    BY <2>2, <2>4, <2>5 DEF Counted
<1>3. ASSUME NEW m \in Moving, Moving' = Moving \ {m}
      PROVE  /\ IsFiniteSet(Moving')
             /\ SumFunction([x \in Moving' |-> x.amount])
                   = SumFunction([x \in Moving |-> x.amount]) - m.amount
             /\ SumFunction([x \in Moving |-> x.amount]) \in Int
             /\ m.amount \in Nat
  <2>1. /\ Counted(Moving \ {m}) /\ m.amount \in Nat
        /\ SumFunction([x \in Moving \ {m} |-> x.amount])
              = SumFunction([x \in Moving |-> x.amount]) - m.amount
        /\ SumFunction([x \in Moving |-> x.amount]) \in Int
    BY <1>1, OneLessMoves
  <2> QED
    BY <1>3, <2>1 DEF Counted
<1>4. LockedUnits = SumFunction(IssuedUnits) + SumFunction([x \in Moving |-> x.amount])
  BY DEF BalanceInv, BooksBalance
<1>5. SUFFICES /\ IsFiniteSet(Moving')
               /\ LockedUnits' = SumFunction(IssuedUnits')
                                    + SumFunction([x \in Moving' |-> x.amount])
  BY DEF BalanceInv, BooksBalance
<1>6. ASSUME NEW to \in Spokes, NEW amount \in 0..MaxSD, Ledger!Lock(to, amount)
      PROVE  /\ IsFiniteSet(Moving')
             /\ LockedUnits' = SumFunction(IssuedUnits')
                                  + SumFunction([x \in Moving' |-> x.amount])
  <2>1. /\ LockedUnits' = LockedUnits + amount
        /\ IssuedUnits' = IssuedUnits
        /\ Moving' = Moving \cup {departure(to, amount)}
    BY <1>6 DEF Ledger!Lock, Ledger!Departed, LockedUnits, IssuedUnits, Moving, Message
  <2>2. /\ IsFiniteSet(Moving')
        /\ SumFunction([x \in Moving' |-> x.amount])
              = SumFunction([x \in Moving |-> x.amount]) + amount
        /\ SumFunction([x \in Moving |-> x.amount]) \in Int
    BY <1>2, <2>1
  <2>3. amount \in Int
    OBVIOUS
  <2> QED
    BY <1>1, <1>4, <2>1, <2>2, <2>3
<1>7. ASSUME NEW from \in Spokes, NEW to \in Chains, NEW amount \in 0..MaxSD,
             Ledger!Redeem(from, to, amount)
      PROVE  /\ IsFiniteSet(Moving')
             /\ LockedUnits' = SumFunction(IssuedUnits')
                                  + SumFunction([x \in Moving' |-> x.amount])
  <2>1. /\ LockedUnits' = LockedUnits
        /\ IssuedUnits' = [IssuedUnits EXCEPT ![from] = @ - amount]
        /\ Moving' = Moving \cup {departure(to, amount)}
    BY <1>7 DEF Ledger!Redeem, Ledger!Departed, LockedUnits, IssuedUnits, Moving, Message
  <2>2. /\ IsFiniteSet(Moving')
        /\ SumFunction([x \in Moving' |-> x.amount])
              = SumFunction([x \in Moving |-> x.amount]) + amount
        /\ SumFunction([x \in Moving |-> x.amount]) \in Int
    BY <1>2, <2>1
  <2>3. amount \in Int /\ 0 - amount \in Int
    OBVIOUS
  <2>4. SumFunction(IssuedUnits') = SumFunction(IssuedUnits) + (0 - amount)
    <3>1. PICK i \in [Spokes -> Int] : i = IssuedUnits
      BY <1>1
    <3>2. PICK j \in [Spokes -> Int] : j = IssuedUnits'
      BY <2>1, <2>3, <3>1
    <3>3. /\ \A s \in Spokes : s # from => j[s] = i[s]
          /\ j[from] = i[from] + (0 - amount)
      BY <2>1, <2>3, <3>1, <3>2
    <3> QED
      BY <2>3, <3>1, <3>2, <3>3, OnePlaceChanges
  <2> QED
    BY <1>1, <1>4, <2>1, <2>2, <2>3, <2>4
<1>8. ASSUME NEW m \in Moving, Ledger!Unlock(m)
      PROVE  /\ IsFiniteSet(Moving')
             /\ LockedUnits' = SumFunction(IssuedUnits')
                                  + SumFunction([x \in Moving' |-> x.amount])
  <2>1. /\ LockedUnits' = LockedUnits - m.amount
        /\ IssuedUnits' = IssuedUnits
        /\ Moving' = Moving \ {m}
    BY <1>8 DEF Ledger!Unlock, LockedUnits, IssuedUnits, Moving, Message
  <2>2. /\ IsFiniteSet(Moving')
        /\ SumFunction([x \in Moving' |-> x.amount])
              = SumFunction([x \in Moving |-> x.amount]) - m.amount
        /\ SumFunction([x \in Moving |-> x.amount]) \in Int
        /\ m.amount \in Nat
    BY <1>3, <2>1
  <2> QED
    BY <1>1, <1>4, <2>1, <2>2
<1>9. ASSUME NEW m \in Moving, Ledger!Issue(m)
      PROVE  /\ IsFiniteSet(Moving')
             /\ LockedUnits' = SumFunction(IssuedUnits')
                                  + SumFunction([x \in Moving' |-> x.amount])
  <2>1. /\ LockedUnits' = LockedUnits
        /\ m.dst \in Spokes
        /\ IssuedUnits' = [IssuedUnits EXCEPT ![m.dst] = @ + m.amount]
        /\ Moving' = Moving \ {m}
    BY <1>9 DEF Ledger!Issue, LockedUnits, IssuedUnits, Moving, Message
  <2>2. /\ IsFiniteSet(Moving')
        /\ SumFunction([x \in Moving' |-> x.amount])
              = SumFunction([x \in Moving |-> x.amount]) - m.amount
        /\ SumFunction([x \in Moving |-> x.amount]) \in Int
        /\ m.amount \in Nat
    BY <1>3, <2>1
  <2>3. SumFunction(IssuedUnits') = SumFunction(IssuedUnits) + m.amount
    <3>1. PICK i \in [Spokes -> Int] : i = IssuedUnits
      BY <1>1
    <3>2. PICK j \in [Spokes -> Int] : j = IssuedUnits'
      BY <2>1, <2>2, <3>1
    <3>3. /\ \A s \in Spokes : s # m.dst => j[s] = i[s]
          /\ j[m.dst] = i[m.dst] + m.amount
      BY <2>1, <2>2, <3>1, <3>2
    <3>4. PICK a \in Int : a = m.amount
      BY <2>2
    <3>5. PICK c \in Spokes : c = m.dst
      BY <2>1
    <3>6. SumFunction(j) = SumFunction(i) + a
      BY <3>3, <3>4, <3>5, OnePlaceChanges
    <3> QED
      BY <3>1, <3>2, <3>4, <3>6
  <2> QED
    BY <1>1, <1>4, <2>1, <2>2, <2>3
<1>10. CASE UNCHANGED Ledger!vars
  <2>1. LockedUnits' = LockedUnits /\ IssuedUnits' = IssuedUnits /\ Moving' = Moving
    BY <1>10 DEF Ledger!vars, LockedUnits, IssuedUnits, Moving, Message
  <2> QED
    BY <1>4, <2>1 DEF BalanceInv
<1> QED
  <2>1. CASE Ledger!Next
    <3>1. \/ \E to \in Spokes, amount \in 0..MaxSD : Ledger!Lock(to, amount)
          \/ \E from \in Spokes, to \in Chains, amount \in 0..MaxSD :
                Ledger!Redeem(from, to, amount)
          \/ \E m \in Moving : Ledger!Unlock(m) \/ Ledger!Issue(m)
      BY <2>1 DEF Ledger!Next, Ledger!Places, Chains, Moving, Message
    <3> QED
      BY <1>6, <1>7, <1>8, <1>9, <3>1
  <2> QED
    BY <1>10, <2>1

(***************************************************************************)
(* The books of the whole mesh balance, for any number of chains: what the *)
(* lockbox locked is what all the others issued and what is on its way.    *)
(***************************************************************************)
THEOREM BooksAreBalanced == Spec => []Balanced
<1>1. Init => TypeOK /\ WholeUnits /\ BalanceInv
  BY TypeOKInit, WholeInit, BalanceInit
<1>2. TypeOK /\ WholeUnits /\ BalanceInv /\ [Next]_vars => (TypeOK /\ WholeUnits /\ BalanceInv)'
  BY TypeOKStep, WholeStep, LedgerStep, LedgerKeepsBalance
<1>3. BalanceInv => Balanced
  BY BalancedIsBalance DEF BalanceInv
<1> QED
  BY <1>1, <1>2, <1>3, PTL DEF Spec

\* A part of what is locked for a message to the hub.
LEMMA MessageIsLocked ==
    ASSUME TypeOK, WholeUnits, BalanceInv, NEW p \in packets
    PROVE  p.sd <= LockedUnits
<1> DEFINE amounts == [x \in Moving |-> x.amount]
<1>1. Message(p) \in Moving /\ Message(p).amount = p.sd
  BY DEF Moving, Message
<1>2. IsFiniteSet(Moving) /\ amounts \in [Moving -> Nat] /\ amounts[Message(p)] = p.sd
  BY <1>1, UnitsType DEF BalanceInv
<1>3. IsFiniteSet(Spokes) /\ IssuedUnits \in [Spokes -> Nat]
  BY UnitsType
<1>4. SumFunction(IssuedUnits) \in Nat
  BY <1>3, TotalNat
<1>5. LockedUnits = SumFunction(IssuedUnits) + SumFunction(amounts)
  BY DEF BalanceInv, BooksBalance
<1> HIDE DEF amounts
<1>6. SumFunction(amounts) \in Nat
  BY <1>2, TotalNat
<1>7. p.sd <= SumFunction(amounts)
  BY <1>1, <1>2, PartOfTotal
<1>8. p.sd \in Nat
  BY DEF TypeOK, ChannelTypeOK, Packet
<1> QED
  BY <1>4, <1>5, <1>6, <1>7, <1>8

(***************************************************************************)
(* As long as locked tokens were not migrated, the lockbox can pay every   *)
(* message that is on its way to it, next to the fees it accounts for.     *)
(***************************************************************************)
THEOREM DeliveriesAreFunded == Spec => []DeliveriesFunded
<1>1. Init => TypeOK /\ WholeUnits /\ BalanceInv
  BY TypeOKInit, WholeInit, BalanceInit
<1>2. TypeOK /\ WholeUnits /\ BalanceInv /\ [Next]_vars => (TypeOK /\ WholeUnits /\ BalanceInv)'
  BY TypeOKStep, WholeStep, LedgerStep, LedgerKeepsBalance
<1>3. ASSUME TypeOK, WholeUnits, BalanceInv PROVE DeliveriesFunded
  <2> SUFFICES ASSUME migrated = 0, NEW p \in packets, p.dst = Hub
               PROVE  oftBalance[Hub] >= feeBalance + ToLD(Hub, p.sd)
    BY DEF DeliveriesFunded
  <2> DEFINE r == Rate[Hub]
  <2>1. r \in Nat \ {0} /\ Locked \in Int /\ Locked % r = 0 /\ p.sd \in Nat
    <3>1. r \in Nat \ {0} /\ Locked \in Int
      BY <1>3, BooksType, ChainRate
    <3>2. Locked % r = 0
      BY <1>3 DEF WholeUnits
    <3>3. p.sd \in Nat
      BY <1>3 DEF TypeOK, ChannelTypeOK, Packet
    <3> QED
      BY <3>1, <3>2, <3>3
  <2>2. LockedUnits \in Int /\ Locked = LockedUnits * r
    <3>1. Locked \div r \in Int /\ Locked = (Locked \div r) * r
      <4> HIDE DEF r
      <4> QED
        BY <2>1, WholeIsProduct
    <3> QED
      BY <3>1 DEF LockedUnits
  <2>3. p.sd <= LockedUnits
    BY <1>3, MessageIsLocked
  <2> HIDE DEF r
  <2>4. p.sd * r <= LockedUnits * r
    <3>1. \A a, b \in Int, w \in Nat : a <= b => a * w <= b * w
      BY Z3
    <3>2. PICK k \in Int : k = LockedUnits
      BY <2>2
    <3>3. PICK s \in Int : s = p.sd
      BY <2>1
    <3> QED
      BY <2>1, <2>3, <3>1, <3>2, <3>3
  <2>5. ToLD(Hub, p.sd) <= Locked /\ ToLD(Hub, p.sd) \in Nat
    <3>1. ToLD(Hub, p.sd) = p.sd * r
      BY DEF ToLD, r
    <3>2. p.sd * r \in Nat
      BY <2>1
    <3> QED
      BY <2>2, <2>4, <3>1, <3>2
  <2>6. /\ Locked = oftBalance[Hub] + migrated - feeBalance - surplus
        /\ oftBalance[Hub] \in Nat /\ feeBalance \in Nat /\ surplus \in Nat
    BY <1>3, BooksType DEF Locked
  <2> QED
    BY <2>5, <2>6
<1> QED
  BY <1>1, <1>2, <1>3, PTL DEF Spec

(***************************************************************************)
(* A paused OFT moves no value, in either direction.                       *)
(***************************************************************************)
THEOREM PauseStopsTransfers == Spec => PausedMovesNothing
<1> DEFINE Halts ==
        \A c \in Chains : paused[c] /\ paused'[c] =>
          /\ \A p \in packets' \ packets : p.src # c
          /\ \A p \in packets \ packets' : p.dst # c
          /\ c \in Spokes => Supply(c)' = Supply(c)
<1>1. ASSUME TypeOK, [Next]_vars PROVE Halts
  <2>1. ASSUME NEW c \in Chains, NEW d \in Chains, NEW amount \in SendAmounts,
               NEW minAmount \in MinAmounts, NEW to \in SendTo,
               Send(c, d, amount, minAmount, to)
        PROVE  Halts
    <3>1. amount \in Nat /\ minAmount \in Nat /\ to \in Recipients
      BY InputsOK
    <3>2. /\ ~paused[c]
          /\ \A p \in packets' \ packets : p.src = c
          /\ packets \ packets' = {}
      BY <2>1 DEF Send, SendAs, DebitReverts
    <3>3. \A s \in Spokes \ {c} : Supply(s)' = Supply(s)
      <4>1. CASE c = Hub
        BY <1>1, <2>1, <3>1, <4>1, SendFromHubBooks
      <4>2. CASE c \in Spokes
        BY <1>1, <2>1, <3>1, <4>2, SendFromSpokeBooks
      <4> QED
        BY <4>1, <4>2 DEF Chains
    <3> QED
      BY <3>2, <3>3
  <2>2. ASSUME NEW p \in packets, Receive(p) PROVE Halts
    <3>1. /\ ~paused[p.dst]
          /\ packets' \ packets = {}
          /\ \A q \in packets \ packets' : q = p
      BY <2>2 DEF Receive, CreditReverts, Cleared
    <3>2. \A s \in Spokes \ {p.dst} : Supply(s)' = Supply(s)
      BY <1>1, <2>2, ReceiveBooks
    <3> QED
      BY <3>1, <3>2
  <2>3. CASE Quiet
    BY <2>3 DEF Quiet
  <2> QED
    BY <1>1, <2>1, <2>2, <2>3, NextCases, QuietActions
<1> QED
  BY <1>1, TypeCorrect, PTL DEF Spec, PausedMovesNothing
-----------------------------------------------------------------------------
(***************************************************************************)
(* The limiter of each chain, as the component on its own states it.  Its  *)
(* operators are those of the mesh: both are the arithmetic of one         *)
(* contract.                                                               *)
(***************************************************************************)
LEMMA SameUpdate ==
    ASSUME NEW c, NEW pair, NEW d, NEW amount, NEW type, NEW t
    PROVE  /\ Limiter(c)!CheckAndUpdateRateLimit(pair, d, amount, type, t)
                = CheckAndUpdateRateLimit(pair, d, amount, type, t)
           /\ Limiter(c)!CheckAndUpdateReverts(pair, d, amount, type, t)
                <=> CheckAndUpdateReverts(pair, d, amount, type, t)
<1>1. \A rl : Limiter(c)!CurrentAmountInFlight(rl, t) = CurrentAmountInFlight(rl, t)
  BY DEF Limiter!CurrentAmountInFlight, CurrentAmountInFlight, Limiter!Elapsed, Elapsed,
     Limiter!Monus, Monus, Limiter!Decay, Decay
<1>2. \A rl : Limiter(c)!DecayReverts(rl, t) <=> DecayReverts(rl, t)
  BY DEF Limiter!DecayReverts, DecayReverts, Limiter!Elapsed, Elapsed
<1>3. Limiter(c)!Opposite(d) = Opposite(d)
  BY DEF Limiter!Opposite, Opposite
<1>4. ASSUME NEW rl
      PROVE  /\ Limiter(c)!Charge(rl, amount, t) = Charge(rl, amount, t)
             /\ Limiter(c)!Relieve(rl, amount, t) = Relieve(rl, amount, t)
  <2>1. Limiter(c)!CurrentAmountInFlight(rl, t) = CurrentAmountInFlight(rl, t)
    BY <1>1
  <2>2. Limiter(c)!Charge(rl, amount, t) = Charge(rl, amount, t)
    BY <2>1 DEF Limiter!Charge, Charge
  <2>3. Limiter(c)!Monus(CurrentAmountInFlight(rl, t), amount)
          = Monus(CurrentAmountInFlight(rl, t), amount)
    BY DEF Limiter!Monus, Monus
  <2>4. Limiter(c)!Relieve(rl, amount, t) = Relieve(rl, amount, t)
    BY <2>1, <2>3 DEF Limiter!Relieve, Relieve
  <2> QED
    BY <2>2, <2>4
<1>5. \A rl : Limiter(c)!AvailableCapacity(rl, t) = AvailableCapacity(rl, t)
  BY <1>1 DEF Limiter!AvailableCapacity, AvailableCapacity, Limiter!Monus, Monus
<1>6. Limiter(c)!CheckAndUpdateRateLimit(pair, d, amount, type, t)
        = CheckAndUpdateRateLimit(pair, d, amount, type, t)
  BY <1>3, <1>4 DEF Limiter!CheckAndUpdateRateLimit, CheckAndUpdateRateLimit
<1>7. Limiter(c)!CheckAndUpdateReverts(pair, d, amount, type, t)
        <=> CheckAndUpdateReverts(pair, d, amount, type, t)
  BY <1>2, <1>3, <1>5 DEF Limiter!CheckAndUpdateReverts, CheckAndUpdateReverts
<1> QED
  BY <1>6, <1>7

LEMMA SameSet ==
    ASSUME NEW c, NEW limits, NEW inbound, NEW outbound, NEW type, NEW t
    PROVE  /\ Limiter(c)!SetAll(limits, inbound, outbound, type, t)
                = SetAll(limits, inbound, outbound, type, t)
           /\ Limiter(c)!SetReverts(limits, inbound, outbound, type, t)
                <=> SetReverts(limits, inbound, outbound, type, t)
<1>1. ASSUME NEW pair, NEW d, NEW config
      PROVE  Limiter(c)!SetRateLimit(pair, d, config, type, t)
                = SetRateLimit(pair, d, config, type, t)
  <2>1. Limiter(c)!CheckAndUpdateRateLimit(pair, d, 0, type, t)
          = CheckAndUpdateRateLimit(pair, d, 0, type, t)
    BY SameUpdate
  <2>2. \A rl : Limiter(c)!Configured(rl, config) = Configured(rl, config)
    BY DEF Limiter!Configured, Configured
  <2> QED
    BY <2>1, <2>2 DEF Limiter!SetRateLimit, SetRateLimit
<1>2. \A pair, eid, d, configs :
        Limiter(c)!SetIfListed(pair, eid, d, configs, type, t)
            = SetIfListed(pair, eid, d, configs, type, t)
  BY <1>1 DEF Limiter!SetIfListed, SetIfListed
<1>3. \A pair, eid, d, configs :
        Limiter(c)!SetIfListedReverts(pair, eid, d, configs, type, t)
            <=> SetIfListedReverts(pair, eid, d, configs, type, t)
  BY SameUpdate DEF Limiter!SetIfListedReverts, SetIfListedReverts
<1>4. Limiter(c)!SetAll(limits, inbound, outbound, type, t)
        = SetAll(limits, inbound, outbound, type, t)
  BY <1>2 DEF Limiter!SetAll, SetAll
<1>5. Limiter(c)!SetReverts(limits, inbound, outbound, type, t)
        <=> SetReverts(limits, inbound, outbound, type, t)
  BY <1>2, <1>3 DEF Limiter!SetReverts, SetReverts
<1> QED
  BY <1>4, <1>5

LEMMA SameReset ==
    ASSUME NEW c, NEW limits, NEW inbound, NEW outbound, NEW t
    PROVE  Limiter(c)!ResetAll(limits, inbound, outbound, t)
                = ResetAll(limits, inbound, outbound, t)
<1>1. \A pair, d : Limiter(c)!ResetRateLimit(pair, d, t) = ResetRateLimit(pair, d, t)
  BY DEF Limiter!ResetRateLimit, ResetRateLimit
<1>2. \A pair, eid, d, eids :
        Limiter(c)!ResetIfListed(pair, eid, d, eids, t) = ResetIfListed(pair, eid, d, eids, t)
  BY <1>1 DEF Limiter!ResetIfListed, ResetIfListed
<1> QED
  BY <1>2 DEF Limiter!ResetAll, ResetAll

\* What the limiter does without a transfer.
ConfiguredOnly(c) ==
    [Limiter(c)!Configure \/ Limiter(c)!Tick]_(Limiter(c)!limiterVars)

\* The limits of the other chains, and of all chains in most steps, stay.
LEMMA LimiterAlone ==
    ASSUME NEW c \in Chains, rateLimits'[c] = rateLimits[c], accounting'[c] = accounting[c],
           now' = now
    PROVE  ConfiguredOnly(c)
  BY DEF ConfiguredOnly, Limiter!limiterVars

\* The owner's calls and the passing of time are steps of the limiter.
LEMMA ConfiguredIsStep ==
    ASSUME NEW c, ConfiguredOnly(c)
    PROVE  [Limiter(c)!LimiterNext]_(Limiter(c)!limiterVars)
  BY DEF ConfiguredOnly, Limiter!LimiterNext

\* A debit and a credit charge the limiter of their chain, with an amount that
\* fits a uint256, and no other.
LEMMA TransferFollowed ==
    ASSUME TypeOK, NEW e \in Chains, NEW eid \in Chains, NEW d \in Directions,
           NEW amount \in Nat,
           ~CheckAndUpdateReverts(rateLimits[e][eid], d, amount, accounting[e], now),
           rateLimits' = [rateLimits EXCEPT ![e][eid] =
               CheckAndUpdateRateLimit(@, d, amount, accounting[e], now)],
           accounting' = accounting, now' = now, NEW c \in Chains
    PROVE  /\ c = e => /\ Limiter(c)!UpdateRateLimit(eid, d, amount)
                       /\ Limiter(c)!LimiterNext
           /\ c # e => ConfiguredOnly(c)
<1>1. /\ rateLimits \in [Chains -> [Chains -> RateLimitPair]]
      /\ now \in Nat /\ PairOK(rateLimits[e][eid], now)
  BY PairsOK DEF TypeOK
<1> DEFINE new == CheckAndUpdateRateLimit(rateLimits[e][eid], d, amount, accounting[e], now)
<1>2. rateLimits' = [rateLimits EXCEPT ![e][eid] = new]
  OBVIOUS
<1>3. amount \in 0..MaxUint
  <2>1. /\ rateLimits[e][eid][d] \in RateLimit
        /\ amount <= AvailableCapacity(rateLimits[e][eid][d], now)
        /\ ~DecayReverts(rateLimits[e][eid][d], now)
    <3>1. rateLimits[e][eid] \in RateLimitPair
      BY <1>1
    <3>2. rateLimits[e][eid][d] \in RateLimit
      BY <3>1 DEF RateLimitPair
    <3>3. /\ ~(amount > AvailableCapacity(rateLimits[e][eid][d], now))
          /\ ~DecayReverts(rateLimits[e][eid][d], now)
      BY DEF CheckAndUpdateReverts
    <3>4. AvailableCapacity(rateLimits[e][eid][d], now) \in Int
      <4> PICK rl \in RateLimit : rl = rateLimits[e][eid][d]
        BY <3>2
      <4>1. CurrentAmountInFlight(rl, now) \in Nat
        BY <1>1, CurrentBound DEF PairOK
      <4>2. rl.limit \in Int
        BY MaxUintAssumption DEF RateLimit
      <4> QED
        BY <4>1, <4>2 DEF AvailableCapacity, Monus
    <3> QED
      BY <3>2, <3>3, <3>4
  <2> PICK rl \in RateLimit : rl = rateLimits[e][eid][d]
    BY <2>1
  <2>2. rl.limit \in 0..MaxUint /\ amount <= AvailableCapacity(rl, now) /\ MaxUint \in Nat
    BY <2>1, MaxUintAssumption DEF RateLimit
  <2>3. CurrentAmountInFlight(rl, now) \in Nat
    BY <1>1, <2>1, CurrentBound DEF PairOK
  <2> QED
    BY <2>2, <2>3 DEF AvailableCapacity, Monus
<1>4. CASE c = e
  <2>1. rateLimits'[c] = [rateLimits[c] EXCEPT ![eid] = new]
    BY <1>1, <1>2, <1>4
  <2>2. Limiter(c)!UpdateRateLimit(eid, d, amount)
    BY <1>4, <2>1, SameUpdate DEF Limiter!UpdateRateLimit
  <2>3. Limiter(c)!LimiterNext
    BY <1>3, <2>2 DEF Limiter!LimiterNext, Limiter!Directions, Directions
  <2> QED
    BY <1>4, <2>2, <2>3
<1>5. CASE c # e
  <2>1. rateLimits'[c] = rateLimits[c]
    BY <1>1, <1>2, <1>5
  <2> QED
    BY <1>5, <2>1, LimiterAlone
<1> QED
  BY <1>4, <1>5

\* The owner's calls are those of the limiter.
LEMMA AdministrationFollowed ==
    ASSUME TypeOK, Administration, NEW c \in Chains
    PROVE  ConfiguredOnly(c)
<1>1. /\ rateLimits \in [Chains -> [Chains -> RateLimitPair]]
      /\ accounting \in [Chains -> AccountingTypes]
  BY DEF TypeOK, LimitsTypeOK, AdminTypeOK
<1>2. CASE UNCHANGED <<rateLimits, accounting, now>>
  BY <1>2, LimiterAlone
<1>3. ASSUME NEW e \in Chains, NEW inbound \in ConfigArrays(e),
             NEW outbound \in ConfigArrays(e), SetRateLimits(e, inbound, outbound)
      PROVE  ConfiguredOnly(c)
  <2> DEFINE new == SetAll(rateLimits[e], inbound, outbound, accounting[e], now)
  <2>1. /\ rateLimits' = [rateLimits EXCEPT ![e] = new] /\ UNCHANGED <<accounting, now>>
        /\ ~SetReverts(rateLimits[e], inbound, outbound, accounting[e], now)
    BY <1>3 DEF SetRateLimits, adminVars
  <2>2. CASE c = e
    <3>1. rateLimits'[c] = new
      BY <1>1, <2>1, <2>2
    <3>2. Limiter(c)!SetRateLimits(inbound, outbound)
      BY <2>1, <2>2, <3>1, SameSet DEF Limiter!SetRateLimits
    <3>3. \A configs \in ConfigArrays(e) : configs \in Limiter(c)!ConfigArrays
      <4>1. ListedEids \subseteq Chains
        BY MeshAssumption
      <4> SUFFICES ASSUME NEW configs \in ConfigArrays(e)
                   PROVE  configs \in UNION {[S -> Configs] : S \in SUBSET Chains}
        BY DEF Limiter!ConfigArrays
      <4>2. CASE configs = <<>>
        <5>1. <<>> \in [{} -> Configs] /\ {} \in SUBSET Chains
          OBVIOUS
        <5> QED
          BY <4>2, <5>1
      <4>3. CASE \E x \in ListedEids \ {e} : configs \in [{x} -> Configs]
        <5>1. PICK x \in ListedEids \ {e} : configs \in [{x} -> Configs]
          BY <4>3
        <5>2. {x} \in SUBSET Chains
          BY <4>1
        <5> QED
          BY <5>1, <5>2
      <4> QED
        BY <4>2, <4>3 DEF ConfigArrays
    <3> QED
      BY <3>2, <3>3 DEF ConfiguredOnly, Limiter!Configure
  <2>3. CASE c # e
    <3>1. rateLimits'[c] = rateLimits[c]
      BY <1>1, <2>1, <2>3
    <3> QED
      BY <2>1, <3>1, LimiterAlone
  <2> QED
    BY <2>2, <2>3
<1>4. ASSUME NEW e \in Chains, NEW inbound \in EidArrays(e), NEW outbound \in EidArrays(e),
             ResetRateLimits(e, inbound, outbound)
      PROVE  ConfiguredOnly(c)
  <2> DEFINE new == ResetAll(rateLimits[e], inbound, outbound, now)
  <2>1. rateLimits' = [rateLimits EXCEPT ![e] = new] /\ UNCHANGED <<accounting, now>>
    BY <1>4 DEF ResetRateLimits, adminVars
  <2>2. CASE c = e
    <3>1. rateLimits'[c] = new
      BY <1>1, <2>1, <2>2
    <3>2. Limiter(c)!ResetRateLimits(inbound, outbound)
      BY <2>1, <2>2, <3>1, SameReset DEF Limiter!ResetRateLimits
    <3>3. inbound \in SUBSET Chains /\ outbound \in SUBSET Chains
      BY MeshAssumption DEF EidArrays
    <3> QED
      BY <3>2, <3>3 DEF ConfiguredOnly, Limiter!Configure
  <2>3. CASE c # e
    <3>1. rateLimits'[c] = rateLimits[c]
      BY <1>1, <2>1, <2>3
    <3> QED
      BY <2>1, <3>1, LimiterAlone
  <2> QED
    BY <2>2, <2>3
<1>5. ASSUME NEW e \in Chains, NEW type \in AccountingChoices,
             SetRateLimitAccountingType(e, type)
      PROVE  ConfiguredOnly(c)
  <2>1. /\ accounting' = [accounting EXCEPT ![e] = type] /\ UNCHANGED <<rateLimits, now>>
        /\ type \in AccountingTypes
    BY <1>5, MeshAssumption DEF SetRateLimitAccountingType
  <2>2. CASE c = e
    <3>1. accounting'[c] = type
      BY <1>1, <2>1, <2>2
    <3>2. Limiter(c)!SetRateLimitAccountingType(type)
      BY <2>1, <3>1 DEF Limiter!SetRateLimitAccountingType
    <3> QED
      BY <2>1, <3>2 DEF ConfiguredOnly, Limiter!Configure, Limiter!AccountingTypes, AccountingTypes
  <2>3. CASE c # e
    <3>1. accounting'[c] = accounting[c]
      BY <1>1, <2>1, <2>3
    <3> QED
      BY <2>1, <3>1, LimiterAlone
  <2> QED
    BY <2>2, <2>3
<1>6. CASE Tick
  <2>1. Limiter(c)!Tick
    BY <1>6 DEF Tick, Limiter!Tick, adminVars
  <2> QED
    BY <2>1 DEF ConfiguredOnly
<1>7. \/ UNCHANGED <<rateLimits, accounting, now>>
      \/ \E e \in Chains : \E inbound, outbound \in ConfigArrays(e) :
            SetRateLimits(e, inbound, outbound)
      \/ \E e \in Chains : \E inbound, outbound \in EidArrays(e) :
            ResetRateLimits(e, inbound, outbound)
      \/ \E e \in Chains, type \in AccountingChoices : SetRateLimitAccountingType(e, type)
      \/ Tick
  BY DEF Administration, SetPauser, Pause, Unpause, SetFeeBps
<1> QED
  BY <1>2, <1>3, <1>4, <1>5, <1>6, <1>7

-----------------------------------------------------------------------------
\* A send takes from its chain, and charges to its limiter, what it sends.
LEMMA SendIsMetered ==
    ASSUME TypeOK, NEW e \in Chains, NEW d \in Chains, NEW amount \in Nat,
           NEW minAmount \in Nat, NEW to \in Recipients,
           Send(e, d, amount, minAmount, to), NEW c \in Chains
    PROVE  MovedAsMetered(c)
<1> DEFINE received == AmountReceived(e, d, amount)
           q == [guid |-> guid + 1, src |-> e, dst |-> d, sd |-> ToSD(e, received),
                 to |-> to]
<1>1. received \in Nat /\ received = ToLD(e, q.sd)
  BY ReceivedFacts DEF ToLD
<1>2. /\ ~CheckAndUpdateReverts(rateLimits[e][d], "Outbound", received, accounting[e], now)
      /\ rateLimits' = [rateLimits EXCEPT ![e][d] =
            CheckAndUpdateRateLimit(@, "Outbound", received, accounting[e], now)]
      /\ accounting' = accounting /\ now' = now
      /\ packets' = packets \cup {q}
  BY DEF Send, SendAs, DebitReverts, adminVars
<1>3. q \notin packets
  BY DEF TypeOK, ChannelTypeOK
<1>4. q.src = e /\ q.dst = d
  OBVIOUS
<1>5. /\ e = Hub => Locked' = Locked + received /\ \A s \in Spokes : Supply(s)' = Supply(s)
      /\ e # Hub => /\ Locked' = Locked /\ Supply(e)' = Supply(e) - received
                    /\ \A s \in Spokes \ {e} : Supply(s)' = Supply(s)
  BY SendFromHubBooks, SendFromSpokeBooks DEF Chains
<1> HIDE DEF received, q
<1>6. Locked \in Int /\ Supply(c) \in Int /\ (c # Hub => c \in Spokes)
  BY BooksType DEF Chains
<1>7. "Outbound" \in Directions
  BY DEF Directions
<1>8. packets' \ packets = {q} /\ packets \ packets' = {}
  BY <1>2, <1>3
<1>9. CASE c = e
  <2>1. Taken(c) = received
    BY <1>1, <1>5, <1>6, <1>9 DEF Taken
  <2>2. Limiter(c)!UpdateRateLimit(d, "Outbound", received) /\ Limiter(c)!LimiterNext
    BY <1>1, <1>2, <1>7, <1>9, TransferFollowed
  <2> QED
    BY <1>1, <1>4, <1>8, <1>9, <2>1, <2>2 DEF MovedAsMetered
<1>10. CASE c # e
  <2>1. Taken(c) = 0
    BY <1>5, <1>6, <1>10 DEF Taken
  <2>2. ConfiguredOnly(c)
    BY <1>1, <1>2, <1>7, <1>10, TransferFollowed
  <2> QED
    BY <1>4, <1>8, <1>10, <2>1, <2>2, ConfiguredIsStep DEF MovedAsMetered, ConfiguredOnly
<1> QED
  BY <1>9, <1>10

\* A delivery gives to its chain, and charges to its limiter, its message's amount.
LEMMA ReceiveIsMetered ==
    ASSUME TypeOK, NEW p \in packets, Receive(p), NEW c \in Chains
    PROVE  MovedAsMetered(c)
<1> DEFINE amount == ToLD(p.dst, p.sd)
<1>1. p.dst \in Chains /\ p.src \in Chains /\ p.sd \in Nat
  BY DEF TypeOK, ChannelTypeOK, Packet
<1>2. amount \in Nat
  BY <1>1, CreditFacts
<1>3. /\ ~CheckAndUpdateReverts(rateLimits[p.dst][p.src], "Inbound", amount,
                                accounting[p.dst], now)
      /\ rateLimits' = [rateLimits EXCEPT ![p.dst][p.src] =
            CheckAndUpdateRateLimit(@, "Inbound", amount, accounting[p.dst], now)]
      /\ accounting' = accounting /\ now' = now
      /\ packets' = packets \ {p}
  BY DEF Receive, CreditReverts, adminVars, Cleared
<1>4. /\ p.dst = Hub => Locked' = Locked - amount /\ \A s \in Spokes : Supply(s)' = Supply(s)
      /\ p.dst # Hub => /\ Locked' = Locked /\ Supply(p.dst)' = Supply(p.dst) + amount
                        /\ \A s \in Spokes \ {p.dst} : Supply(s)' = Supply(s)
  BY ReceiveBooks
<1>5. Locked \in Int /\ Supply(c) \in Int /\ (c # Hub => c \in Spokes)
  BY BooksType DEF Chains
<1>6. "Inbound" \in Directions
  BY DEF Directions
<1>7. packets' \ packets = {} /\ packets \ packets' = {p}
  BY <1>3
<1>8. CASE c = p.dst
  <2> HIDE DEF amount
  <2>1. Taken(c) = -amount /\ -Taken(c) = amount
    BY <1>2, <1>4, <1>5, <1>8 DEF Taken
  <2>2. Limiter(c)!UpdateRateLimit(p.src, "Inbound", amount) /\ Limiter(c)!LimiterNext
    BY <1>1, <1>2, <1>3, <1>6, <1>8, TransferFollowed
  <2>3. amount = ToLD(c, p.sd)
    BY <1>8 DEF amount
  <2> QED
    BY <1>7, <1>8, <2>1, <2>2, <2>3 DEF MovedAsMetered
<1>9. CASE c # p.dst
  <2> HIDE DEF amount
  <2>1. Taken(c) = 0
    BY <1>4, <1>5, <1>9 DEF Taken
  <2>2. ConfiguredOnly(c)
    BY <1>1, <1>2, <1>3, <1>6, <1>9, TransferFollowed
  <2> QED
    BY <1>7, <1>9, <2>1, <2>2, ConfiguredIsStep DEF MovedAsMetered, ConfiguredOnly
<1> QED
  BY <1>8, <1>9

\* A step that moves neither the books nor the messages charges nothing.
LEMMA QuietIsMetered ==
    ASSUME TypeOK, Quiet, NEW c \in Chains, ConfiguredOnly(c)
    PROVE  MovedAsMetered(c)
<1>1. Taken(c) = 0
  BY BooksType DEF Taken, Quiet, Chains
<1>2. packets' = packets
  BY DEF Quiet
<1> QED
  BY <1>1, <1>2, ConfiguredIsStep DEF MovedAsMetered, ConfiguredOnly

\* Every step of the mesh is metered by the limiter of each chain.
LEMMA LimiterStep ==
    ASSUME TypeOK, [Next]_vars, NEW c \in Chains
    PROVE  MovedAsMetered(c)
<1>1. ASSUME NEW e \in Chains, NEW d \in Chains, NEW amount \in SendAmounts,
             NEW minAmount \in MinAmounts, NEW to \in SendTo, Send(e, d, amount, minAmount, to)
      PROVE  MovedAsMetered(c)
  BY <1>1, InputsOK, SendIsMetered
<1>2. ASSUME NEW p \in packets, Receive(p) PROVE MovedAsMetered(c)
  BY <1>2, ReceiveIsMetered
<1>3. CASE Administration
  BY <1>3, AdministrationFollowed, QuietActions, QuietIsMetered
<1>4. CASE Quiet /\ UNCHANGED <<rateLimits, accounting, now>>
  BY <1>4, LimiterAlone, QuietIsMetered
<1>5. \/ \E e, d \in Chains, amount \in SendAmounts, minAmount \in MinAmounts,
            to \in SendTo : Send(e, d, amount, minAmount, to)
      \/ \E p \in packets : Receive(p)
      \/ Administration
      \/ Quiet /\ UNCHANGED <<rateLimits, accounting, now>>
  <2>1. CASE \/ \E to \in SendTo, amount \in WithdrawAmounts : AdapterWithdrawFees(to, amount)
             \/ \E e \in Spokes, amount \in WithdrawAmounts : MintBurnWithdrawFees(e, amount)
             \/ MigrateLockedTokens
             \/ \E e \in Chains, amount \in GiftAmounts : Gift(e, amount)
             \/ UNCHANGED vars
    <3>1. Quiet
      BY <2>1, QuietActions
    <3>2. UNCHANGED <<rateLimits, accounting, now>>
      BY <2>1 DEF vars, adminVars, AdapterWithdrawFees, MintBurnWithdrawFees,
         MigrateLockedTokens, Gift
    <3> QED
      BY <3>1, <3>2
  <2> QED
    BY <2>1, NextCases
<1> QED
  BY <1>1, <1>2, <1>3, <1>4, <1>5

(***************************************************************************)
(* Whatever moves through an OFT of the mesh is charged, to the unit, to   *)
(* its rate limiter as the limiter's own specification allows, and nothing *)
(* else is: what is proved of the limiter bounds the value of each chain.  *)
(***************************************************************************)
THEOREM LimitersAreFollowed == Spec => LimitersFollowed
<1>1. TypeOK /\ [Next]_vars => [\A c \in Chains : MovedAsMetered(c)]_vars
  BY LimiterStep
<1> QED
  BY <1>1, TypeCorrect, PTL DEF Spec, LimitersFollowed
=============================================================================
