------------------------- MODULE SolanaWiring_proofs -------------------------
(***************************************************************************)
(* The wiring of the OFT is safe for any number of operators and of        *)
(* remotes, and for any sequence of configurations: a peer is never set    *)
(* without its accounts, and the delegate is given away last.  A run that  *)
(* reports success, undisturbed, has done what its configuration says.     *)
(***************************************************************************)
EXTENDS SolanaWiring, FiniteSetTheorems, SequenceTheorems, TLAPS

(***************************************************************************)
(* Every transaction that is queued or late is of one of these forms.      *)
(***************************************************************************)
KeyOrNone == Keys \cup {NONE}

TxsOf(whats, values) ==
    [what : whats, value : values, admin : KeyOrNone, delegate : KeyOrNone,
     creates : SUBSET Accounts, uses : SUBSET Accounts]

Txs ==
    TxsOf({"setPeer"}, [eid : Eids, addr : Addrs])
        \cup TxsOf({"setUln"}, [eid : Eids, config : UlnConfigs])
        \cup TxsOf({"setLimit"}, [direction : Directions, eid : Eids, limit : Limits])
        \cup TxsOf({"setOptions"}, UNION {[S -> OptionSets] : S \in SUBSET Eids})
        \cup TxsOf({"setReceiveLibrary"}, Eids)
        \cup TxsOf({"init", "initGovernance", "setOwner", "setDelegate", "setPauser",
                    "setUnpauser"}, KeyOrNone)

TaskPcs == {"done", "failed", "peers", "rest", "send"}

ScriptPcs ==
    {"initGovernance", "setPeers", "initReceiveLibrary", "initOAppNonce",
     "setReceiveLibrary", "initReceiveConfig", "setReceiveConfig"}

Runs ==
    [pc : TaskPcs \cup ScriptPcs, task : WiringTasks \cup AdminTasks \cup {NONE},
     signer : KeyOrNone, goal : Nat, queue : Seq(Txs), sent : BOOLEAN, clean : BOOLEAN]

LateTxs == [tx : Txs, signer : KeyOrNone]

RunTyped(r) ==
    /\ r.goal <= goalNo
    /\ r.pc \notin {"done", "failed"} => r.goal >= 1
    /\ IF r.task = "script" THEN kind = "Governance" /\ r.pc \in ScriptPcs
                            ELSE r.pc \in TaskPcs

Typed ==
    /\ ChainTypeOK
    /\ goalNo \in 1..Len(Goals[kind])
    /\ run \in [Operators -> Runs]
    /\ \A o \in Operators : RunTyped(run[o])
    /\ late \in [Operators -> {NONE} \cup LateTxs]
    /\ extraRuns \in 0..MaxExtraRuns

(***************************************************************************)
(* A transaction that sets a peer of the OFT creates the accounts of the   *)
(* pathway that did not exist when it was built.                           *)
(***************************************************************************)
Carried(tx) ==
    /\ tx.what # "initGovernance"
    /\ tx.what = "setPeer" =>
          {Nonce(tx.value.eid, tx.value.addr), SendLibrary(tx.value.eid),
           ReceiveLibrary(tx.value.eid)} \subseteq accounts \cup tx.creates

(***************************************************************************)
(* Before a transaction that sets the delegate is executed, each pathway   *)
(* is ready or an earlier transaction of the same run makes it so.         *)
(***************************************************************************)
SetsPeerBefore(queue, i, e) ==
    \E j \in 1..(i - 1) : queue[j].what = "setPeer" /\ queue[j].value.eid = e

Prepared(queue, i) == \A e \in Eids : PathwayReady(e) \/ SetsPeerBefore(queue, i, e)

QueueSafe(queue) ==
    \A i \in 1..Len(queue) :
        /\ Carried(queue[i])
        /\ queue[i].what = "setDelegate" => Prepared(queue, i)

LateSafe(tx) ==
    /\ Carried(tx)
    /\ tx.what = "setDelegate" => \A e \in Eids : PathwayReady(e)

RunsSafe ==
    \A o \in Operators :
        /\ QueueSafe(run[o].queue)
        /\ run[o].pc = "rest" => Prepared(run[o].queue, Len(run[o].queue) + 1)
        /\ late[o] # NONE => LateSafe(late[o].tx)

\* The inductive invariant.
Inv ==
    /\ Typed
    /\ kind = "OFT" => RunsSafe
    /\ PeersAreUsable
    /\ ReadyBeforeHandover
-----------------------------------------------------------------------------
(***************************************************************************)
(* SetToSeq of a finite set is a sequence that has every member.           *)
(***************************************************************************)
LEMMA SetToSeqHasAll ==
    ASSUME NEW S, IsFiniteSet(S)
    PROVE  /\ Len(SetToSeq(S)) \in Nat
           /\ \A i \in 1..Len(SetToSeq(S)) : SetToSeq(S)[i] \in S
           /\ \A x \in S : \E i \in 1..Len(SetToSeq(S)) : SetToSeq(S)[i] = x
<1> DEFINE n == Cardinality(S)
           seq == SetToSeq(S)
<1>1. n \in Nat /\ ExistsBijection(1..n, S)
    BY FS_CardinalityType
<1>2. \E f \in [1..n -> S] : IsInjective(f)
    BY <1>1 DEF ExistsBijection, Bijection, Injection
<1>3. seq \in [1..n -> S] /\ IsInjective(seq)
    BY <1>2 DEF SetToSeq
<1>4. seq \in Injection(1..n, S)
    BY <1>3 DEF Injection
<1>5. IsFiniteSet(1..n) /\ Cardinality(1..n) = n
    BY <1>1, FS_Interval
<1>6. seq \in Surjection(1..n, S)
    <2> HIDE DEF seq, n
    <2>1. Cardinality(1..n) = Cardinality(S) <=> seq \in Surjection(1..n, S)
        BY <1>4, FS_Injection
    <2> QED
        BY <2>1, <1>5 DEF n
<1>7. Len(seq) = n
    <2> HIDE DEF seq, n
    <2>1. seq \in Seq(S)
        BY <1>1, <1>3, SeqDef
    <2>2. DOMAIN seq = 1..Len(seq) /\ Len(seq) \in Nat
        BY <2>1, LenProperties
    <2>3. 1..n = 1..Len(seq)
        BY <2>2, <1>3
    <2>4. \A k, m \in Nat : 1..k = 1..m => k = m
        OBVIOUS
    <2> QED
        BY <2>2, <2>3, <2>4, <1>1
<1> HIDE DEF seq, n
<1>8. \A x \in S : \E i \in 1..n : seq[i] = x
    BY <1>6 DEF Surjection
<1>9. \A i \in 1..n : seq[i] \in S
    BY <1>3
<1> QED
    BY <1>1, <1>7, <1>8, <1>9 DEF seq

(***************************************************************************)
(* What membership in Txs says of a transaction.                           *)
(***************************************************************************)
LEMMA TxFacts ==
    ASSUME NEW tx \in Txs
    PROVE  /\ tx.admin \in KeyOrNone /\ tx.delegate \in KeyOrNone
           /\ tx.creates \subseteq Accounts
           /\ tx.what = "setPeer" => tx.value.eid \in Eids /\ tx.value.addr \in Addrs
           /\ tx.what = "setUln" => tx.value.eid \in Eids /\ tx.value.config \in UlnConfigs
           /\ tx.what = "setLimit" => /\ tx.value.direction \in Directions
                                      /\ tx.value.eid \in Eids
                                      /\ tx.value.limit \in Limits
           /\ tx.what = "setReceiveLibrary" => tx.value \in Eids
           /\ tx.what \in {"init", "initGovernance", "setOwner", "setDelegate", "setPauser",
                           "setUnpauser"} => tx.value \in KeyOrNone
    BY DEF Txs, TxsOf

LEMMA OptionsFacts ==
    ASSUME NEW tx \in Txs, tx.what = "setOptions"
    PROVE  \A e \in DOMAIN tx.value : tx.value[e] \in OptionSets
<1>1. PICK S \in SUBSET Eids : tx.value \in [S -> OptionSets]
    BY DEF Txs, TxsOf
<1> QED
    BY <1>1
-----------------------------------------------------------------------------
(***************************************************************************)
(* A transaction keeps the types; one of the OFT whose accounts are        *)
(* carried along keeps every pathway ready, and makes its own so.          *)
(***************************************************************************)
LEMMA ExecuteTyped ==
    ASSUME ChainTypeOK, NEW tx \in Txs, Execute(tx)
    PROVE  ChainTypeOK'
<1> USE TxFacts
<1>1. accounts' \subseteq Accounts /\ kind' \in {"OFT", "Governance"}
    BY DEF ChainTypeOK, Execute
<1>2. owner' \in KeyOrNone /\ delegate' \in KeyOrNone
    BY DEF ChainTypeOK, Execute, KeyOrNone
<1>3. peer' \in [Eids -> Addrs \cup {NONE}]
    BY DEF ChainTypeOK, Execute, PeerSet
<1>4. options' \in [Eids -> OptionSets \cup {EmptyOptions}]
    <2>1. CASE tx.what = "setOptions"
        <3>1. \A e \in DOMAIN tx.value : tx.value[e] \in OptionSets
            BY <2>1, OptionsFacts
        <3> QED
            BY <2>1, <3>1 DEF ChainTypeOK, Execute, OptionsOf
    <2> QED
        BY <2>1 DEF ChainTypeOK, Execute, OptionsOf
<1>5. uln' \in [Eids -> UlnConfigs \cup {DefaultUln}]
    BY DEF ChainTypeOK, Execute
<1>6. pinned' \subseteq Eids
    BY DEF ChainTypeOK, Execute
<1>7. limits' \in [Directions -> [Eids -> Limits \cup {NONE}]]
    BY DEF ChainTypeOK, Execute
<1>8. pauser' \in KeyOrNone /\ unpauser' \in KeyOrNone
    BY DEF ChainTypeOK, Execute, KeyOrNone
<1> QED
    BY <1>1, <1>2, <1>3, <1>4, <1>5, <1>6, <1>7, <1>8 DEF ChainTypeOK, KeyOrNone

LEMMA ExecuteKeepsPathways ==
    ASSUME ChainTypeOK, PeersAreUsable, kind = "OFT",
           NEW tx \in Txs, Carried(tx), Execute(tx)
    PROVE  /\ PeersAreUsable'
           /\ \A e \in Eids : PathwayReady(e) => PathwayReady(e)'
           /\ tx.what = "setPeer" => PathwayReady(tx.value.eid)'
<1>1. accounts' = accounts \cup tx.creates /\ kind' = kind
    BY DEF Execute
<1>2. CASE tx.what = "setPeer"
    <2> DEFINE e == tx.value.eid
               addr == tx.value.addr
    <2>1. e \in Eids /\ addr \in Addrs /\ addr # NONE
        BY <1>2, TxFacts, ChainAssumption
    <2>2. \A f \in Eids : peer'[f] = IF f = e THEN addr ELSE peer[f]
        BY <1>2, <2>1 DEF Execute, PeerSet, ChainTypeOK
    <2>3. {Nonce(e, addr), SendLibrary(e), ReceiveLibrary(e)} \subseteq accounts'
        BY <1>1, <1>2 DEF Carried
    <2> HIDE DEF e, addr
    <2>4. PathwayReady(e)'
        BY <1>1, <2>1, <2>2, <2>3 DEF PathwayReady
    <2>5. \A f \in Eids : f # e /\ PathwayReady(f) => PathwayReady(f)'
        BY <1>1, <2>2 DEF PathwayReady
    <2>6. \A f \in Eids : peer'[f] # NONE => f = e \/ peer[f] # NONE
        BY <2>2
    <2>7. PeersAreUsable'
        BY <1>1, <2>4, <2>5, <2>6 DEF PeersAreUsable
    <2> QED
        BY <2>1, <2>4, <2>5, <2>7 DEF e
<1>3. CASE tx.what # "setPeer"
    <2>1. peer' = peer
        BY <1>3 DEF Execute
    <2>2. \A e \in Eids : PathwayReady(e) => PathwayReady(e)'
        BY <1>1, <2>1 DEF PathwayReady
    <2> QED
        BY <1>1, <1>3, <2>1, <2>2 DEF PeersAreUsable
<1> QED
    BY <1>2, <1>3

LEMMA CarriedStays ==
    ASSUME NEW tx, Carried(tx), accounts \subseteq accounts'
    PROVE  Carried(tx)'
    BY DEF Carried
-----------------------------------------------------------------------------
(***************************************************************************)
(* What the builders return.                                               *)
(***************************************************************************)
LEMMA AccountFacts ==
    /\ Store \in Accounts
    /\ \A e \in Eids : {SendLibrary(e), ReceiveLibrary(e), UlnAccounts(e)} \subseteq Accounts
    /\ \A e \in Eids, a \in Addrs : Nonce(e, a) \in Accounts
    BY DEF Accounts

LEMMA SetPeerBuilt ==
    ASSUME ChainTypeOK, NEW e \in Eids, NEW addr \in Addrs
    PROVE  /\ OFTSetPeer(e, addr) \in Txs
           /\ OFTSetPeer(e, addr).what = "setPeer"
           /\ OFTSetPeer(e, addr).value.eid = e
           /\ Carried(OFTSetPeer(e, addr))
           /\ OAppSetPeer(e, addr) \in Txs
<1> USE AccountFacts DEF KeyOrNone
<1>1. owner \in KeyOrNone /\ delegate \in KeyOrNone /\ NONE \in KeyOrNone
    BY DEF ChainTypeOK
<1> DEFINE oft == OFTSetPeer(e, addr)
           oapp == OAppSetPeer(e, addr)
<1>2. /\ oft.what = "setPeer" /\ oft.value = [eid |-> e, addr |-> addr]
      /\ oft.creates = {SendLibrary(e), ReceiveLibrary(e), Nonce(e, addr)} \ accounts
    BY DEF OFTSetPeer, SetPeerConfig, Tx, Missing
<1>3. oft \in TxsOf({"setPeer"}, [eid : Eids, addr : Addrs])
    BY <1>1 DEF OFTSetPeer, SetPeerConfig, Tx, Missing, TxsOf
<1>4. oapp \in TxsOf({"setPeer"}, [eid : Eids, addr : Addrs])
    BY <1>1 DEF OAppSetPeer, SetRemote, Tx, OAppMissing, InitOAppNonce, InitSendLibrary,
                InitReceiveLibrary, TxsOf
<1>5. oft \in Txs /\ oapp \in Txs
    BY <1>3, <1>4 DEF Txs
<1>6. Carried(oft)
    BY <1>2 DEF Carried
<1> QED
    BY <1>2, <1>5, <1>6

LEMMA ConfigBuilt ==
    ASSUME ChainTypeOK, NEW e \in Eids
    PROVE  /\ OFTInitConfig(e) \in Txs /\ OFTInitConfig(e).what = "init"
           /\ OAppInitConfig(e) \in Txs
           /\ \A config \in UlnConfigs :
                 SetUln(e, config) \in Txs /\ SetUln(e, config).what = "setUln"
<1> USE AccountFacts DEF KeyOrNone
<1>1. owner \in KeyOrNone /\ delegate \in KeyOrNone /\ NONE \in KeyOrNone
    BY DEF ChainTypeOK
<1> DEFINE Init0 == TxsOf({"init", "initGovernance", "setOwner", "setDelegate", "setPauser",
                           "setUnpauser"}, KeyOrNone)
<1>2. OFTInitConfig(e) \in Init0 /\ OFTInitConfig(e).what = "init"
    BY <1>1 DEF OFTInitConfig, Tx, Missing, TxsOf
<1>3. OAppInitConfig(e) \in Init0
    BY <1>1 DEF OAppInitConfig, Tx, InitConfig, TxsOf
<1>4. ASSUME NEW config \in UlnConfigs
      PROVE  /\ SetUln(e, config) \in TxsOf({"setUln"}, [eid : Eids, config : UlnConfigs])
             /\ SetUln(e, config).what = "setUln"
    BY <1>1 DEF SetUln, Tx, TxsOf
<1> QED
    BY <1>2, <1>3, <1>4 DEF Txs

\* The transactions with a key for a value.
LEMMA KeyBuilt ==
    ASSUME NEW what \in {"init", "initGovernance", "setOwner", "setDelegate", "setPauser",
                         "setUnpauser"},
           NEW key \in KeyOrNone, NEW admin \in KeyOrNone, NEW del \in KeyOrNone,
           NEW creates \in SUBSET Accounts, NEW uses \in SUBSET Accounts
    PROVE  Tx(what, key, admin, del, creates, uses) \in Txs
    BY DEF Tx, Txs, TxsOf

LEMMA LimitBuilt ==
    ASSUME NEW d \in Directions, NEW key \in Keys, NEW e \in Eids, NEW l \in Limits
    PROVE  SetLimit(d, key, e, l) \in Txs /\ SetLimit(d, key, e, l).what = "setLimit"
    BY AccountFacts DEF SetLimit, Tx, Txs, TxsOf, KeyOrNone

LEMMA OptionsBuilt ==
    ASSUME ChainTypeOK, NEW S \in SUBSET Eids, NEW opts \in [S -> OptionSets]
    PROVE  /\ OFTSetEnforcedOptions(opts) \in Txs
           /\ OFTSetEnforcedOptions(opts).what = "setOptions"
<1>1. owner \in KeyOrNone /\ NONE \in KeyOrNone
    BY DEF ChainTypeOK, KeyOrNone
<1>2. opts \in UNION {[T -> OptionSets] : T \in SUBSET Eids}
    OBVIOUS
<1>3. /\ OFTSetEnforcedOptions(opts)
             \in TxsOf({"setOptions"}, UNION {[T -> OptionSets] : T \in SUBSET Eids})
      /\ OFTSetEnforcedOptions(opts).what = "setOptions"
    BY <1>1, <1>2, AccountFacts DEF OFTSetEnforcedOptions, SetPeerConfig, Tx, TxsOf
<1> QED
    BY <1>3 DEF Txs
-----------------------------------------------------------------------------
(***************************************************************************)
(* What the tasks collect.                                                 *)
(***************************************************************************)
LEMMA ListedTxs ==
    ASSUME NEW n \in Nat, NEW f \in [1..n -> Txs]
    PROVE  f \in Seq(Txs) /\ Len(f) = n
<1>1. f \in Seq(Txs)
    BY SeqDef
<1>2. DOMAIN f = 1..Len(f) /\ Len(f) \in Nat
    BY <1>1, LenProperties
<1>3. \A k, m \in Nat : 1..k = 1..m => k = m
    OBVIOUS
<1> QED
    BY <1>1, <1>2, <1>3

LEMMA OneIfFacts ==
    ASSUME NEW test \in BOOLEAN, NEW tx, test => tx \in Txs
    PROVE  /\ OneIf(test, tx) \in Seq(Txs)
           /\ \A i \in 1..Len(OneIf(test, tx)) : OneIf(test, tx)[i] = tx
<1>1. CASE test
    <2>1. <<tx>> \in Seq(Txs) /\ Len(<<tx>>) = 1 /\ <<tx>>[1] = tx
        BY <1>1
    <2>2. \A i \in 1..1 : i = 1
        OBVIOUS
    <2> QED
        BY <1>1, <2>1, <2>2 DEF OneIf
<1>2. CASE ~ test
    <2>1. OneIf(test, tx) = <<>>
        BY <1>2 DEF OneIf
    <2>2. <<>> \in Seq(Txs) /\ Len(<<>>) = 0 /\ 1..0 = {}
        BY EmptySeq
    <2> QED
        BY <2>1, <2>2
<1> QED
    BY <1>1, <1>2

LEMMA SubsetOfEids ==
    ASSUME NEW S \in SUBSET Eids
    PROVE  IsFiniteSet(S)
    BY FS_Subset, WiringAssumption

LEMMA PeersCollected ==
    ASSUME ChainTypeOK, NEW wanted \in Configurations
    PROVE  LET queue == PeerTransactions(wanted)
           IN  /\ queue \in Seq(Txs)
               /\ kind = "OFT" =>
                     \A i \in 1..Len(queue) : Carried(queue[i]) /\ queue[i].what = "setPeer"
               /\ kind = "OFT" /\ PeersAreUsable => Prepared(queue, Len(queue) + 1)
<1> DEFINE queue == PeerTransactions(wanted)
           wrong == {e \in Eids : ~ HasPeer(e, wanted.peer[e])}
           eids == SetToSeq(wrong)
           Make(e) == BySdk(OFTSetPeer(e, wanted.peer[e]), OAppSetPeer(e, wanted.peer[e]))
<1>1. IsFiniteSet(wrong)
    BY SubsetOfEids
<1>2. /\ Len(eids) \in Nat
      /\ \A i \in 1..Len(eids) : eids[i] \in wrong
      /\ \A x \in wrong : \E i \in 1..Len(eids) : eids[i] = x
    BY <1>1, SetToSeqHasAll
<1>3. queue = [i \in 1..Len(eids) |-> Make(eids[i])]
    BY DEF PeerTransactions, Select
<1>4. \A e \in Eids : wanted.peer[e] \in Addrs
    BY DEF Configurations
<1>5. ASSUME NEW e \in Eids
      PROVE  /\ Make(e) \in Txs
             /\ kind = "OFT" => /\ Make(e).what = "setPeer" /\ Make(e).value.eid = e
                                /\ Carried(Make(e))
    BY <1>4, SetPeerBuilt DEF BySdk
<1>6. ASSUME NEW e \in Eids, e \notin wrong, kind = "OFT", PeersAreUsable
      PROVE  PathwayReady(e)
    <2>1. peer[e] = wanted.peer[e] /\ peer[e] # NONE
        BY <1>4, <1>6, ChainAssumption DEF HasPeer, BySdk, OFTHasPeer
    <2> QED
        BY <1>6, <2>1 DEF PeersAreUsable
<1> HIDE DEF Make, queue
<1>7. \A e \in wrong : e \in Eids
    OBVIOUS
<1> HIDE DEF eids, wrong
<1>8. [i \in 1..Len(eids) |-> Make(eids[i])] \in [1..Len(eids) -> Txs]
    BY <1>2, <1>5, <1>7
<1>9. queue \in Seq(Txs) /\ Len(queue) = Len(eids)
    BY <1>2, <1>3, <1>8, ListedTxs
<1>10. \A i \in 1..Len(queue) : queue[i] = Make(eids[i]) /\ eids[i] \in Eids
    BY <1>2, <1>3, <1>7, <1>9
<1>11. ASSUME kind = "OFT", NEW e \in wrong
       PROVE  SetsPeerBefore(queue, Len(queue) + 1, e)
    <2>1. PICK i \in 1..Len(queue) : eids[i] = e
        BY <1>2, <1>9, <1>11
    <2>2. queue[i].what = "setPeer" /\ queue[i].value.eid = e
        BY <1>5, <1>10, <1>11, <2>1
    <2>3. i \in 1..((Len(queue) + 1) - 1)
        BY <1>2, <1>9
    <2> QED
        BY <2>2, <2>3 DEF SetsPeerBefore
<1>12. kind = "OFT" /\ PeersAreUsable => Prepared(queue, Len(queue) + 1)
    BY <1>6, <1>11 DEF Prepared
<1>13. kind = "OFT" =>
          \A i \in 1..Len(queue) : Carried(queue[i]) /\ queue[i].what = "setPeer"
    BY <1>5, <1>10
<1> QED
    BY <1>9, <1>12, <1>13 DEF queue
\* The others neither set a peer nor, but for one list, the delegate.
Harmless(queue) ==
    \A i \in 1..Len(queue) :
        queue[i].what \notin {"setPeer", "setDelegate", "initGovernance"}

LEMMA InitConfigCollected ==
    ASSUME ChainTypeOK
    PROVE  /\ InitConfigTransactions \in Seq(Txs)
           /\ kind = "OFT" => Harmless(InitConfigTransactions)
<1> DEFINE queue == InitConfigTransactions
           oft == {e \in Eids : ~ OFTConfigIsInitialized(e)}
           oapp == {e \in Eids : ~ OAppConfigIsInitialized(e)}
<1>1. CASE kind = "OFT"
    <2> DEFINE eids == SetToSeq(oft)
    <2>1. Len(eids) \in Nat /\ \A i \in 1..Len(eids) : eids[i] \in Eids
        BY SubsetOfEids, SetToSeqHasAll
    <2>2. queue = [i \in 1..Len(eids) |-> OFTInitConfig(eids[i])]
        BY <1>1 DEF InitConfigTransactions, BySdk, Select
    <2> HIDE DEF eids, oft, queue
    <2>3. [i \in 1..Len(eids) |-> OFTInitConfig(eids[i])] \in [1..Len(eids) -> Txs]
        BY <2>1, ConfigBuilt
    <2>4. queue \in Seq(Txs) /\ Len(queue) = Len(eids)
        BY <2>1, <2>2, <2>3, ListedTxs
    <2>5. \A i \in 1..Len(queue) : queue[i].what = "init"
        BY <2>1, <2>2, <2>4, ConfigBuilt
    <2> QED
        BY <2>4, <2>5 DEF queue, Harmless
<1>2. CASE kind # "OFT"
    <2> DEFINE eids == SetToSeq(oapp)
    <2>1. Len(eids) \in Nat /\ \A i \in 1..Len(eids) : eids[i] \in Eids
        BY SubsetOfEids, SetToSeqHasAll
    <2>2. queue = [i \in 1..Len(eids) |-> OAppInitConfig(eids[i])]
        BY <1>2 DEF InitConfigTransactions, BySdk, Select
    <2> HIDE DEF eids, oapp, queue
    <2>3. [i \in 1..Len(eids) |-> OAppInitConfig(eids[i])] \in [1..Len(eids) -> Txs]
        BY <2>1, ConfigBuilt
    <2> QED
        BY <1>2, <2>1, <2>2, <2>3, ListedTxs DEF queue
<1> QED
    BY <1>1, <1>2

LEMMA UlnCollected ==
    ASSUME ChainTypeOK, NEW wanted \in Configurations
    PROVE  UlnTransactions(wanted) \in Seq(Txs) /\ Harmless(UlnTransactions(wanted))
<1> DEFINE queue == UlnTransactions(wanted)
           eids == SetToSeq({e \in Eids : uln[e] # wanted.uln})
<1>1. wanted.uln \in UlnConfigs
    BY DEF Configurations
<1>2. Len(eids) \in Nat /\ \A i \in 1..Len(eids) : eids[i] \in Eids
    BY SubsetOfEids, SetToSeqHasAll
<1>3. queue = [i \in 1..Len(eids) |-> SetUln(eids[i], wanted.uln)]
    BY DEF UlnTransactions, Select
<1> HIDE DEF eids, queue
<1>4. [i \in 1..Len(eids) |-> SetUln(eids[i], wanted.uln)] \in [1..Len(eids) -> Txs]
    BY <1>1, <1>2, ConfigBuilt
<1>5. queue \in Seq(Txs) /\ Len(queue) = Len(eids)
    BY <1>2, <1>3, <1>4, ListedTxs
<1>6. \A i \in 1..Len(queue) : queue[i].what = "setUln"
    BY <1>1, <1>2, <1>3, <1>5, ConfigBuilt
<1> QED
    BY <1>5, <1>6 DEF queue, Harmless

LEMMA OptionsCollected ==
    ASSUME ChainTypeOK, NEW wanted \in Configurations
    PROVE  OptionTransactions(wanted) \in Seq(Txs) /\ Harmless(OptionTransactions(wanted))
<1> DEFINE differing == {e \in Eids : ~ OFTHasEnforcedOptions(e, wanted.options)}
           tx == OFTSetEnforcedOptions([e \in differing |-> wanted.options])
           test == kind = "OFT" /\ differing # {}
<1>1. OptionTransactions(wanted) = OneIf(test, tx)
    BY DEF OptionTransactions
<1>2. [e \in differing |-> wanted.options] \in [differing -> OptionSets]
    BY DEF Configurations
<1>3. differing \in SUBSET Eids
    OBVIOUS
<1>4. tx \in Txs /\ tx.what = "setOptions"
    <2> HIDE DEF differing
    <2> QED
        BY <1>2, <1>3, OptionsBuilt
<1>5. test \in BOOLEAN
    OBVIOUS
<1> HIDE DEF tx, test
<1>6. /\ OneIf(test, tx) \in Seq(Txs)
      /\ \A i \in 1..Len(OneIf(test, tx)) : OneIf(test, tx)[i] = tx
    BY <1>4, <1>5, OneIfFacts
<1> QED
    BY <1>1, <1>4, <1>6 DEF Harmless

LEMMA DelegateCollected ==
    ASSUME ChainTypeOK, NEW wanted \in Configurations
    PROVE  /\ DelegateTransactions(wanted) \in Seq(Txs)
           /\ \A i \in 1..Len(DelegateTransactions(wanted)) :
                 DelegateTransactions(wanted)[i].what = "setDelegate"
<1> DEFINE key == wanted.delegate
           tx == BySdk(OFTSetDelegate(key), OAppSetDelegate(key))
           test == ~ IsDelegate(key)
<1>1. DelegateTransactions(wanted) = OneIf(test, tx)
    BY DEF DelegateTransactions
<1>2. key \in KeyOrNone /\ owner \in KeyOrNone /\ NONE \in KeyOrNone
    BY DEF Configurations, KeyOrNone, ChainTypeOK
<1>3. tx = Tx("setDelegate", key, owner, NONE, {}, {Store})
    BY DEF BySdk, OFTSetDelegate, OAppSetDelegate, SetOFTConfig, SetDelegate
<1> HIDE DEF key
<1>4. tx \in Txs
    <2> HIDE DEF tx
    <2> QED
        BY <1>2, <1>3, KeyBuilt, AccountFacts
<1>5. tx.what = "setDelegate"
    BY <1>3 DEF Tx
<1>6. test \in BOOLEAN
    BY DEF IsDelegate, BySdk, OFTIsDelegate, OAppIsDelegate
<1> HIDE DEF tx, test
<1>7. /\ OneIf(test, tx) \in Seq(Txs)
      /\ \A i \in 1..Len(OneIf(test, tx)) : OneIf(test, tx)[i] = tx
    BY <1>4, <1>6, OneIfFacts
<1> QED
    BY <1>1, <1>5, <1>7

LEMMA OwnerCollected ==
    ASSUME ChainTypeOK, NEW wanted \in Configurations
    PROVE  OwnerTransactions(wanted) \in Seq(Txs) /\ Harmless(OwnerTransactions(wanted))
<1> DEFINE key == wanted.owner
           tx == BySdk(OFTSetOwner(key), OAppSetOwner(key))
           test == ~ HasOwner(key)
<1>1. OwnerTransactions(wanted) = OneIf(test, tx)
    BY DEF OwnerTransactions
<1>2. key \in KeyOrNone /\ owner \in KeyOrNone /\ NONE \in KeyOrNone
    BY DEF Configurations, KeyOrNone, ChainTypeOK
<1>3. tx = Tx("setOwner", key, owner, NONE, {}, {Store})
    BY DEF BySdk, OFTSetOwner, OAppSetOwner, SetOFTConfig, SetAdmin
<1> HIDE DEF key
<1>4. tx \in Txs
    <2> HIDE DEF tx
    <2> QED
        BY <1>2, <1>3, KeyBuilt, AccountFacts
<1>5. tx.what = "setOwner"
    BY <1>3 DEF Tx
<1>6. test \in BOOLEAN
    BY DEF HasOwner, BySdk, OFTHasOwner, OAppHasOwner
<1> HIDE DEF tx, test
<1>7. /\ OneIf(test, tx) \in Seq(Txs)
      /\ \A i \in 1..Len(OneIf(test, tx)) : OneIf(test, tx)[i] = tx
    BY <1>4, <1>6, OneIfFacts
<1> QED
    BY <1>1, <1>5, <1>7 DEF Harmless

LEMMA AdminCollected ==
    ASSUME ChainTypeOK, NEW task \in AdminTasks, NEW key \in Keys,
           NEW tx \in AdminTransactions(task, key)
    PROVE  /\ <<tx>> \in Seq(Txs)
           /\ Harmless(<<tx>>)
<1>1. tx \in Txs /\ tx.what \in {"setLimit", "setPauser", "setUnpauser"}
    <2>1. CASE task \in {"inbound-rate-limit", "outbound-rate-limit"}
        BY <2>1, LimitBuilt DEF AdminTransactions, SetInboundRateLimit, SetOutboundRateLimit,
                                Directions
    <2>2. CASE task = "set-pauser"
        <3>1. PICK k \in {key, NONE} : tx = SetPauser(key, k)
            BY <2>2 DEF AdminTransactions
        <3> QED
            BY <3>1, KeyBuilt, AccountFacts DEF SetPauser, KeyOrNone, Tx
    <2>3. CASE task = "set-unpauser"
        <3>1. PICK k \in {key, NONE} : tx = SetUnpauser(key, k)
            BY <2>3 DEF AdminTransactions
        <3> QED
            BY <3>1, KeyBuilt, AccountFacts DEF SetUnpauser, KeyOrNone, Tx
    <2> QED
        BY <2>1, <2>2, <2>3 DEF AdminTasks
<1>2. <<tx>> \in Seq(Txs) /\ Len(<<tx>>) = 1 /\ <<tx>>[1] = tx
    BY <1>1
<1>3. \A i \in 1..1 : i = 1
    OBVIOUS
<1> QED
    BY <1>1, <1>2, <1>3 DEF Harmless
-----------------------------------------------------------------------------
(***************************************************************************)
(* Safe queues: put together, kept while the chain moves on, and after     *)
(* their first transaction is executed.                                    *)
(***************************************************************************)
LEMMA Appended ==
    ASSUME NEW q \in Seq(Txs), NEW t \in Seq(Txs), QueueSafe(q), Prepared(q, Len(q) + 1),
           \A i \in 1..Len(t) : t[i].what \notin {"setPeer", "initGovernance"}
    PROVE  QueueSafe(q \o t) /\ Prepared(q \o t, Len(q \o t) + 1)
<1> DEFINE s == q \o t
<1>1. Len(q) \in Nat /\ Len(t) \in Nat
    BY LenProperties
<1>2. /\ Len(s) = Len(q) + Len(t)
      /\ \A i \in 1..Len(q) + Len(t) : s[i] = IF i <= Len(q) THEN q[i] ELSE t[i - Len(q)]
    BY ConcatProperties
<1> HIDE DEF s
<1>3. \A i \in 1..Len(q) : s[i] = q[i]
    BY <1>1, <1>2
<1>4. \A i \in 1..Len(s) : i > Len(q) => \E j \in 1..Len(t) : s[i] = t[j]
    <2> TAKE i \in 1..Len(s)
    <2> HAVE i > Len(q)
    <2>1. i - Len(q) \in 1..Len(t) /\ s[i] = t[i - Len(q)]
        BY <1>1, <1>2
    <2> QED
        BY <2>1
<1>5. ASSUME NEW i \in Nat, i > Len(q)
      PROVE  Prepared(s, i)
    <2> SUFFICES ASSUME NEW e \in Eids, ~ PathwayReady(e)
                 PROVE  SetsPeerBefore(s, i, e)
        BY DEF Prepared
    <2>1. PICK j \in 1..((Len(q) + 1) - 1) : q[j].what = "setPeer" /\ q[j].value.eid = e
        BY DEF Prepared, SetsPeerBefore
    <2>2. j \in 1..(i - 1) /\ s[j] = q[j]
        BY <1>1, <1>3, <1>5
    <2> QED
        BY <2>1, <2>2 DEF SetsPeerBefore
<1>6. ASSUME NEW i \in 1..Len(s)
      PROVE  Carried(s[i]) /\ (s[i].what = "setDelegate" => Prepared(s, i))
    <2>1. CASE i <= Len(q)
        <3>1. i \in 1..Len(q) /\ s[i] = q[i]
            BY <1>1, <1>3, <2>1
        <3>2. ASSUME q[i].what = "setDelegate"
              PROVE  Prepared(s, i)
            <4> SUFFICES ASSUME NEW e \in Eids, ~ PathwayReady(e)
                         PROVE  SetsPeerBefore(s, i, e)
                BY DEF Prepared
            <4>1. PICK j \in 1..(i - 1) : q[j].what = "setPeer" /\ q[j].value.eid = e
                BY <3>1, <3>2 DEF QueueSafe, Prepared, SetsPeerBefore
            <4>2. s[j] = q[j]
                BY <1>1, <1>3, <3>1
            <4> QED
                BY <4>1, <4>2 DEF SetsPeerBefore
        <3> QED
            BY <3>1, <3>2 DEF QueueSafe
    <2>2. CASE i > Len(q)
        <3>1. i \in Nat
            OBVIOUS
        <3>2. Prepared(s, i)
            BY <1>5, <2>2, <3>1
        <3>3. s[i].what \notin {"setPeer", "initGovernance"}
            BY <1>4, <2>2
        <3> QED
            BY <3>2, <3>3 DEF Carried
    <2> QED
        BY <1>1, <2>1, <2>2
<1>7. Len(s) + 1 \in Nat /\ Len(s) + 1 > Len(q)
    BY <1>1, <1>2
<1> QED
    BY <1>5, <1>6, <1>7 DEF QueueSafe, s

PathwaysKept ==
    /\ accounts \subseteq accounts'
    /\ \A e \in Eids : PathwayReady(e) => PathwayReady(e)'

LEMMA QueueStaysSafe ==
    ASSUME NEW q, PathwaysKept
    PROVE  /\ QueueSafe(q) => QueueSafe(q)'
           /\ Prepared(q, Len(q) + 1) => Prepared(q, Len(q) + 1)'
           /\ \A tx : LateSafe(tx) => LateSafe(tx)'
<1>1. \A i : Prepared(q, i) => Prepared(q, i)'
    BY DEF PathwaysKept, Prepared, SetsPeerBefore
<1>2. \A tx : Carried(tx) => Carried(tx)'
    BY DEF Carried, PathwaysKept
<1>3. QueueSafe(q) => QueueSafe(q)'
    BY <1>1, <1>2 DEF QueueSafe
<1>4. \A tx : LateSafe(tx) => LateSafe(tx)'
    BY <1>2 DEF LateSafe, PathwaysKept
<1> QED
    BY <1>1, <1>3, <1>4

LEMMA TailStaysSafe ==
    ASSUME NEW q \in Seq(Txs), q # <<>>, QueueSafe(q), PathwaysKept,
           Head(q).what = "setPeer" => PathwayReady(Head(q).value.eid)'
    PROVE  QueueSafe(Tail(q))'
<1>1. /\ Len(q) \in Nat /\ Len(q) >= 1 /\ Len(Tail(q)) = Len(q) - 1
      /\ \A i \in 1..Len(Tail(q)) : Tail(q)[i] = q[i + 1]
    BY HeadTailProperties, LenProperties, EmptySeq
<1>2. Head(q) = q[1]
    OBVIOUS
<1> DEFINE t == Tail(q)
<1> HIDE DEF t
<1>3. ASSUME NEW i \in 1..Len(t)
      PROVE  Carried(t[i])' /\ (t[i].what = "setDelegate" => Prepared(t, i)')
    <2>1. i + 1 \in 1..Len(q) /\ t[i] = q[i + 1]
        BY <1>1 DEF t
    <2>2. Carried(t[i])'
        <3>1. Carried(q[i + 1])
            BY <2>1 DEF QueueSafe
        <3> QED
            BY <2>1, <3>1 DEF Carried, PathwaysKept
    <2>3. ASSUME t[i].what = "setDelegate"
          PROVE  Prepared(t, i)'
        <3> SUFFICES ASSUME NEW e \in Eids, ~ PathwayReady(e)'
                     PROVE  SetsPeerBefore(t, i, e)
            BY DEF Prepared, SetsPeerBefore
        <3>1. PICK j \in 1..((i + 1) - 1) : q[j].what = "setPeer" /\ q[j].value.eid = e
            BY <2>1, <2>3 DEF QueueSafe, Prepared, SetsPeerBefore, PathwaysKept
        <3>2. j # 1
            BY <1>2, <3>1
        <3>3. j - 1 \in 1..(i - 1) /\ t[j - 1] = q[j]
            <4>1. j - 1 \in 1..(i - 1) /\ j - 1 \in 1..Len(Tail(q)) /\ (j - 1) + 1 = j
                BY <1>1, <3>2 DEF t
            <4> QED
                BY <1>1, <4>1 DEF t
        <3> QED
            BY <3>1, <3>3 DEF SetsPeerBefore
    <2> QED
        BY <2>2, <2>3
<1> QED
    BY <1>3 DEF QueueSafe, t
-----------------------------------------------------------------------------
(***************************************************************************)
(* The runs: what they become, and steps that change one run only.         *)
(***************************************************************************)
LEMMA AfterIsAStep ==
    \A pc \in ScriptPcs : After(pc) \in ScriptPcs \cup {"done"}
<1> SUFFICES ASSUME NEW pc \in ScriptPcs
             PROVE  After(pc) \in ScriptPcs \cup {"done"}
    OBVIOUS
<1>1. Len(ScriptSteps) = 8
    BY DEF ScriptSteps
<1>2. \A n \in 2..8 : ScriptSteps[n] \in ScriptPcs \cup {"done"}
    BY DEF ScriptSteps, ScriptPcs
<1>3. \E n \in 2..8 : ScriptSteps[n - 1] = pc
    BY DEF ScriptSteps, ScriptPcs
<1> HIDE DEF ScriptSteps
<1>4. (CHOOSE n \in 2..8 : ScriptSteps[n - 1] = pc) \in 2..8
    BY <1>3
<1> QED
    BY <1>1, <1>2, <1>4 DEF After

LEMMA EndedTyped ==
    ASSUME Typed, NEW how \in {"done", "failed"}
    PROVE  Ended(how) \in Runs /\ RunTyped(Ended(how)) /\ Ended(how).queue = <<>>
           /\ Ended(how).pc = how
<1>1. <<>> \in Seq(Txs)
    BY EmptySeq
<1>2. goalNo \in Nat
    BY DEF Typed
<1> QED
    BY <1>1, <1>2, ChainAssumption DEF Ended, Runs, RunTyped, TaskPcs, KeyOrNone

LEMMA AdvancedTyped ==
    ASSUME Typed, NEW r \in Runs, RunTyped(r), r.task = "script" \/ r.queue # <<>>
    PROVE  Advanced(r) \in Runs /\ RunTyped(Advanced(r))
<1>1. <<>> \in Seq(Txs)
    BY EmptySeq
<1>2. CASE r.task = "script" /\ After(r.pc) # "done"
    <2>1. r.pc \in ScriptPcs
        BY <1>2 DEF RunTyped
    <2>2. After(r.pc) \in ScriptPcs
        BY <1>2, <2>1, AfterIsAStep
    <2>3. Advanced(r) = [r EXCEPT !.pc = After(@), !.queue = <<>>, !.sent = FALSE]
        BY <1>2 DEF Advanced
    <2>4. Advanced(r) \in Runs
        BY <1>1, <2>2, <2>3 DEF Runs
    <2>5. /\ Advanced(r).pc = After(r.pc) /\ Advanced(r).task = r.task
          /\ Advanced(r).goal = r.goal
        BY <2>3 DEF Runs
    <2>6. r.goal >= 1 /\ r.goal <= goalNo /\ kind = "Governance"
        BY <1>2, <2>1 DEF RunTyped, ScriptPcs
    <2> QED
        BY <1>2, <2>2, <2>4, <2>5, <2>6 DEF RunTyped
<1>3. CASE ~ (r.task = "script" /\ After(r.pc) # "done")
           /\ (r.task = "script" \/ Len(r.queue) = 1)
    BY <1>3, EndedTyped DEF Advanced
<1>4. CASE r.task # "script" /\ Len(r.queue) # 1
    <2>1. Advanced(r) = [r EXCEPT !.queue = Tail(@)]
        BY <1>4 DEF Advanced
    <2>2. r.queue \in Seq(Txs) /\ r.queue # <<>>
        BY <1>4 DEF Runs
    <2>3. Tail(r.queue) \in Seq(Txs)
        BY <2>2, HeadTailProperties
    <2>4. Advanced(r) \in Runs
        BY <2>1, <2>3 DEF Runs
    <2>5. /\ Advanced(r).pc = r.pc /\ Advanced(r).task = r.task
          /\ Advanced(r).goal = r.goal
        BY <2>1 DEF Runs
    <2> QED
        BY <2>4, <2>5 DEF RunTyped
<1> QED
    BY <1>2, <1>3, <1>4

RunSafe(r) ==
    kind = "OFT" =>
        /\ QueueSafe(r.queue)
        /\ r.pc = "rest" => Prepared(r.queue, Len(r.queue) + 1)

LEMMA RunAndLateReplaced ==
    ASSUME Inv, NEW o \in Operators, NEW r \in Runs, RunTyped(r), RunSafe(r),
           run' = [run EXCEPT ![o] = r], extraRuns' \in 0..MaxExtraRuns,
           late' \in [Operators -> {NONE} \cup LateTxs],
           kind = "OFT" =>
               \A p \in Operators : late'[p] # NONE => LateSafe(late'[p].tx),
           UNCHANGED <<chainVars, goalNo>>
    PROVE  Inv'
<1> USE DEF chainVars
<1>1. run \in [Operators -> Runs]
    BY DEF Inv, Typed
<1>2. \A p \in Operators : run'[p] = IF p = o THEN r ELSE run[p]
    BY <1>1
<1>3. Typed'
    <2>1. run' \in [Operators -> Runs]
        BY <1>1
    <2>2. ASSUME NEW p \in Operators
          PROVE  RunTyped(run[p])'
        BY <1>2 DEF Inv, Typed, RunTyped
    <2> QED
        BY <2>1, <2>2 DEF Inv, Typed, ChainTypeOK
<1>4. kind' = "OFT" => RunsSafe'
    <2> SUFFICES ASSUME kind = "OFT", NEW p \in Operators
                 PROVE  /\ QueueSafe(run[p].queue)'
                        /\ run'[p].pc = "rest" =>
                              Prepared(run[p].queue, Len(run[p].queue) + 1)'
                        /\ late'[p] # NONE => LateSafe(late[p].tx)'
        BY DEF RunsSafe
    <2>1. RunsSafe /\ RunSafe(run[p])
        BY DEF Inv, RunsSafe, RunSafe
    <2>2. QueueSafe(run'[p].queue)
          /\ (run'[p].pc = "rest" => Prepared(run'[p].queue, Len(run'[p].queue) + 1))
        BY <1>2, <2>1 DEF RunSafe
    <2>3. QueueSafe(run[p].queue)'
        BY <2>2 DEF QueueSafe, Carried, Prepared, SetsPeerBefore, PathwayReady
    <2>4. run'[p].pc = "rest" => Prepared(run[p].queue, Len(run[p].queue) + 1)'
        BY <2>2 DEF Prepared, SetsPeerBefore, PathwayReady
    <2>5. late'[p] # NONE => LateSafe(late[p].tx)'
        BY DEF LateSafe, Carried, PathwayReady
    <2> QED
        BY <2>3, <2>4, <2>5
<1>5. PeersAreUsable' /\ ReadyBeforeHandover'
    BY DEF Inv, PeersAreUsable, ReadyBeforeHandover, PathwayReady
<1> QED
    BY <1>3, <1>4, <1>5 DEF Inv
LEMMA RunReplaced ==
    ASSUME Inv, NEW o \in Operators, NEW r \in Runs, RunTyped(r), RunSafe(r),
           run' = [run EXCEPT ![o] = r], extraRuns' \in 0..MaxExtraRuns,
           UNCHANGED <<chainVars, goalNo, late>>
    PROVE  Inv'
<1>1. late' \in [Operators -> {NONE} \cup LateTxs]
    BY DEF Inv, Typed
<1>2. kind = "OFT" => \A p \in Operators : late'[p] # NONE => LateSafe(late'[p].tx)
    BY DEF Inv, RunsSafe
<1> QED
    BY <1>1, <1>2, RunAndLateReplaced

\* What is known of the run of an operator.
LEMMA RunFacts ==
    ASSUME Inv, NEW o \in Operators
    PROVE  /\ run[o] \in Runs /\ RunTyped(run[o]) /\ RunSafe(run[o])
           /\ run[o].queue \in Seq(Txs)
           /\ extraRuns \in 0..MaxExtraRuns
           /\ ChainTypeOK
           /\ run[o].pc \notin {"done", "failed"} => Wanted(run[o]) \in Configurations
<1>1. run[o] \in Runs /\ RunTyped(run[o])
    BY DEF Inv, Typed
<1>2. RunSafe(run[o])
    BY DEF Inv, RunSafe, RunsSafe
<1>3. run[o].queue \in Seq(Txs) /\ run[o].goal \in Nat
    BY <1>1 DEF Runs
<1>4. ASSUME run[o].pc \notin {"done", "failed"}
      PROVE  Wanted(run[o]) \in Configurations
    <2>1. kind \in {"OFT", "Governance"} /\ goalNo \in 1..Len(Goals[kind])
        BY DEF Inv, Typed, ChainTypeOK
    <2>2. Goals[kind] \in Seq(Configurations)
        BY <2>1, WiringAssumption
    <2>3. run[o].goal \in 1..goalNo
        BY <1>1, <1>3, <1>4, <2>1 DEF RunTyped
    <2>4. Len(Goals[kind]) \in Nat
        BY <2>2, LenProperties
    <2>5. run[o].goal \in 1..Len(Goals[kind])
        BY <2>1, <2>3, <2>4
    <2> QED
        BY <2>2, <2>5, ElementOfSeq DEF Wanted
<1> QED
    BY <1>1, <1>2, <1>3, <1>4 DEF Inv, Typed

LEMMA EndedSafe ==
    ASSUME NEW how \in {"done", "failed"}
    PROVE  RunSafe(Ended(how))
<1>1. Len(<<>>) = 0 /\ 1..0 = {}
    OBVIOUS
<1> QED
    BY <1>1 DEF RunSafe, Ended, QueueSafe

-----------------------------------------------------------------------------
(***************************************************************************)
(* The actions, one by one.                                                *)
(***************************************************************************)
LEMMA CollectPeersKeeps ==
    ASSUME Inv, NEW o \in Operators, CollectPeers(o)
    PROVE  Inv'
<1> DEFINE queue == PeerTransactions(Wanted(run[o]))
           r == [run[o] EXCEPT !.pc = "rest", !.queue = queue]
<1>1. /\ run[o] \in Runs /\ RunTyped(run[o]) /\ run[o].pc = "peers" /\ ChainTypeOK
      /\ Wanted(run[o]) \in Configurations /\ extraRuns' \in 0..MaxExtraRuns
    BY RunFacts DEF CollectPeers
<1>2. /\ queue \in Seq(Txs)
      /\ kind = "OFT" =>
            \A i \in 1..Len(queue) : Carried(queue[i]) /\ queue[i].what = "setPeer"
      /\ kind = "OFT" => Prepared(queue, Len(queue) + 1)
    BY <1>1, PeersCollected DEF Inv
<1>3. run' = [run EXCEPT ![o] = r] /\ UNCHANGED <<chainVars, goalNo, late>>
    BY DEF CollectPeers, Inv, Typed
<1> HIDE DEF queue
<1>4. r \in Runs
    BY <1>1, <1>2 DEF Runs, TaskPcs
<1>5. /\ r.pc = "rest" /\ r.queue = queue /\ r.task = run[o].task
      /\ r.goal = run[o].goal
    BY <1>1 DEF Runs
<1>6. RunTyped(r)
    BY <1>1, <1>5 DEF RunTyped, TaskPcs, ScriptPcs
<1>7. RunSafe(r)
    BY <1>2, <1>5 DEF RunSafe, QueueSafe
<1> HIDE DEF r
<1> QED
    BY <1>1, <1>3, <1>4, <1>6, <1>7, RunReplaced
LEMMA CollectRestKeeps ==
    ASSUME Inv, NEW o \in Operators, CollectRest(o)
    PROVE  Inv'
<1> DEFINE q == run[o].queue
           wanted == Wanted(run[o])
           queue == q \o UlnTransactions(wanted) \o OptionTransactions(wanted)
                        \o DelegateTransactions(wanted)
           r == IF queue = <<>> THEN Ended("done")
                ELSE [run[o] EXCEPT !.pc = "send", !.queue = queue]
<1>1. /\ run[o] \in Runs /\ RunTyped(run[o]) /\ run[o].pc = "rest" /\ ChainTypeOK
      /\ wanted \in Configurations /\ extraRuns' \in 0..MaxExtraRuns /\ q \in Seq(Txs)
      /\ RunSafe(run[o])
    BY RunFacts DEF CollectRest
<1>2. run' = [run EXCEPT ![o] = r] /\ UNCHANGED <<chainVars, goalNo, late>>
    BY DEF CollectRest, Inv, Typed
<1> DEFINE u == UlnTransactions(wanted)
           p == OptionTransactions(wanted)
           d == DelegateTransactions(wanted)
<1>3. u \in Seq(Txs) /\ Harmless(u)
    BY <1>1, UlnCollected
<1>4. p \in Seq(Txs) /\ Harmless(p)
    BY <1>1, OptionsCollected
<1>5. d \in Seq(Txs) /\ \A i \in 1..Len(d) : d[i].what = "setDelegate"
    BY <1>1, DelegateCollected
<1>6. queue = ((q \o u) \o p) \o d
    OBVIOUS
<1> HIDE DEF queue, u, p, d
<1>7. q \o u \in Seq(Txs)
    BY <1>1, <1>3, ConcatProperties
<1>8. (q \o u) \o p \in Seq(Txs)
    BY <1>4, <1>7, ConcatProperties
<1>9. queue \in Seq(Txs)
    BY <1>5, <1>6, <1>8, ConcatProperties
<1>10. ASSUME kind = "OFT"
       PROVE  QueueSafe(queue)
    <2>1. QueueSafe(q) /\ Prepared(q, Len(q) + 1)
        BY <1>1, <1>10 DEF RunSafe
    <2>2. QueueSafe(q \o u) /\ Prepared(q \o u, Len(q \o u) + 1)
        BY <1>1, <1>3, <2>1, Appended DEF Harmless
    <2>3. QueueSafe((q \o u) \o p) /\ Prepared((q \o u) \o p, Len((q \o u) \o p) + 1)
        BY <1>4, <1>7, <2>2, Appended DEF Harmless
    <2>4. QueueSafe(((q \o u) \o p) \o d)
        BY <1>5, <1>8, <2>3, Appended
    <2> QED
        BY <1>6, <2>4
<1>11. CASE queue = <<>>
    <2>1. r = Ended("done")
        BY <1>11
    <2>2. r \in Runs /\ RunTyped(r) /\ RunSafe(r)
        BY <2>1, EndedTyped, EndedSafe DEF Inv
    <2> HIDE DEF r
    <2> QED
        BY <1>1, <1>2, <2>2, RunReplaced
<1>12. CASE queue # <<>>
    <2>1. r = [run[o] EXCEPT !.pc = "send", !.queue = queue]
        BY <1>12
    <2>2. r \in Runs
        BY <1>1, <1>9, <2>1 DEF Runs, TaskPcs
    <2>3. /\ r.pc = "send" /\ r.queue = queue /\ r.task = run[o].task
          /\ r.goal = run[o].goal
        BY <1>1, <2>1 DEF Runs
    <2>4. RunTyped(r)
        BY <1>1, <2>3 DEF RunTyped, TaskPcs, ScriptPcs
    <2>5. RunSafe(r)
        BY <1>10, <2>3 DEF RunSafe
    <2> HIDE DEF r
    <2> QED
        BY <1>1, <1>2, <2>2, <2>4, <2>5, RunReplaced
<1> QED
    BY <1>11, <1>12

LEMMA PreflightKeeps ==
    ASSUME Inv, NEW o \in Operators, Preflight(o)
    PROVE  Inv'
<1> DEFINE r == IF Succeeds(Head(run[o].queue), run[o].signer)
                THEN [run[o] EXCEPT !.sent = TRUE] ELSE Ended("failed")
<1>1. /\ run[o] \in Runs /\ RunTyped(run[o]) /\ RunSafe(run[o])
      /\ extraRuns' \in 0..MaxExtraRuns
    BY RunFacts DEF Preflight
<1>2. run' = [run EXCEPT ![o] = r] /\ UNCHANGED <<chainVars, goalNo, late>>
    BY DEF Preflight, Inv, Typed
<1>3. CASE r = [run[o] EXCEPT !.sent = TRUE]
    <2> HIDE DEF r
    <2>1. r \in Runs /\ r.pc = run[o].pc /\ r.queue = run[o].queue
          /\ r.task = run[o].task /\ r.goal = run[o].goal
        BY <1>1, <1>3 DEF Runs
    <2>2. RunTyped(r) /\ RunSafe(r)
        BY <1>1, <2>1 DEF RunTyped, RunSafe
    <2> QED
        BY <1>1, <1>2, <2>1, <2>2, RunReplaced
<1>4. CASE r = Ended("failed")
    <2>1. r \in Runs /\ RunTyped(r) /\ RunSafe(r)
        BY <1>4, EndedTyped, EndedSafe DEF Inv
    <2> HIDE DEF r
    <2> QED
        BY <1>1, <1>2, <2>1, RunReplaced
<1> QED
    BY <1>3, <1>4

\* A run of the script is one of the governance OApp.
LEMMA ScriptRunSafe ==
    ASSUME Inv, NEW o \in Operators, run[o].task = "script", NEW r
    PROVE  RunSafe(r)
    BY RunFacts DEF RunTyped, RunSafe

LEMMA RejectKeeps ==
    ASSUME Inv, NEW o \in Operators, Reject(o)
    PROVE  Inv'
<1> DEFINE r == IF run[o].task = "script" THEN Advanced(run[o]) ELSE Ended("failed")
<1>1. /\ run[o] \in Runs /\ RunTyped(run[o]) /\ run[o].queue # <<>>
      /\ extraRuns' \in 0..MaxExtraRuns
    BY RunFacts DEF Reject, InFlight, Waiting
<1>2. run' = [run EXCEPT ![o] = r] /\ UNCHANGED <<chainVars, goalNo, late>>
    BY DEF Reject, Inv, Typed
<1>3. r \in Runs /\ RunTyped(r)
    BY <1>1, AdvancedTyped, EndedTyped DEF Inv
<1>4. RunSafe(r)
    BY ScriptRunSafe, EndedSafe
<1> HIDE DEF r
<1> QED
    BY <1>1, <1>2, <1>3, <1>4, RunReplaced
LEMMA ScriptBuilt ==
    ASSUME NEW step \in ScriptPcs, NEW key \in KeyOrNone, NEW wanted \in Configurations
    PROVE  ScriptStep(step, key, wanted).tx \in Txs
<1>1. /\ ScriptEid \in Eids /\ wanted.peer[ScriptEid] \in Addrs
      /\ wanted.uln \in UlnConfigs /\ NONE \in KeyOrNone
    BY WiringAssumption DEF Configurations, KeyOrNone
<1> DEFINE addr == wanted.peer[ScriptEid]
<1> HIDE DEF addr
<1>2. ScriptInitGovernance(key).tx \in Txs
    BY <1>1, KeyBuilt, AccountFacts DEF ScriptInitGovernance, InitGovernance
<1>3. ScriptSetPeers(key, addr).tx \in Txs
    <2>1. ScriptSetPeers(key, addr).tx \in TxsOf({"setPeer"}, [eid : Eids, addr : Addrs])
        BY <1>1, AccountFacts DEF ScriptSetPeers, SetRemote, Tx, TxsOf, addr
    <2> QED
        BY <2>1 DEF Txs
<1>4. \A id \in Accounts : ScriptCreate(key, id).tx \in Txs
    BY <1>1, KeyBuilt, AccountFacts DEF ScriptCreate
<1>5. ScriptSetReceiveLibrary(key).tx \in Txs
    <2>1. ScriptSetReceiveLibrary(key).tx \in TxsOf({"setReceiveLibrary"}, Eids)
        BY <1>1, AccountFacts DEF ScriptSetReceiveLibrary, Tx, TxsOf
    <2> QED
        BY <2>1 DEF Txs
<1>6. ScriptSetReceiveConfig(key, wanted.uln).tx \in Txs
    <2>1. ScriptSetReceiveConfig(key, wanted.uln).tx
              \in TxsOf({"setUln"}, [eid : Eids, config : UlnConfigs])
        BY <1>1, AccountFacts DEF ScriptSetReceiveConfig, Tx, TxsOf
    <2> QED
        BY <2>1 DEF Txs
<1>7. {ReceiveLibrary(ScriptEid), UlnAccounts(ScriptEid), Nonce(ScriptEid, addr)}
          \subseteq Accounts
    BY <1>1, AccountFacts DEF addr
<1>8. /\ ScriptInitReceiveLibrary(key).tx \in Txs
      /\ ScriptInitReceiveConfig(key).tx \in Txs
      /\ ScriptInitOAppNonce(key, addr).tx \in Txs
    BY <1>4, <1>7 DEF ScriptInitReceiveLibrary, ScriptInitReceiveConfig, ScriptInitOAppNonce
<1> QED
    BY <1>2, <1>3, <1>5, <1>6, <1>8 DEF ScriptStep, ScriptPcs, addr

LEMMA ScriptLooksKeeps ==
    ASSUME Inv, NEW o \in Operators, ScriptLooks(o)
    PROVE  Inv'
<1> DEFINE step == ScriptStep(run[o].pc, run[o].signer, Wanted(run[o]))
           waits == [run[o] EXCEPT !.queue = <<step.tx>>]
           throws == run[o].pc = "setReceiveConfig" /\ UlnAccounts(ScriptEid) \notin accounts
           r == CASE throws -> Ended("failed")
                  [] ~ throws /\ step.holds -> Advanced(run[o])
                  [] OTHER -> waits
<1>1. /\ run[o] \in Runs /\ RunTyped(run[o]) /\ run[o].task = "script"
      /\ extraRuns' \in 0..MaxExtraRuns
    BY RunFacts DEF ScriptLooks
<1>2. run[o].pc \in ScriptPcs /\ run[o].signer \in KeyOrNone
    BY <1>1 DEF RunTyped, Runs
<1>3. run' = [run EXCEPT ![o] = r] /\ UNCHANGED <<chainVars, goalNo, late>>
    BY DEF ScriptLooks, Inv, Typed
<1>4. Wanted(run[o]) \in Configurations
    BY <1>2, RunFacts DEF ScriptPcs
<1>5. step.tx \in Txs
    BY <1>2, <1>4, ScriptBuilt
<1> HIDE DEF step
<1>6. <<step.tx>> \in Seq(Txs)
    BY <1>5
<1>7. waits \in Runs /\ waits.pc = run[o].pc /\ waits.task = run[o].task
      /\ waits.goal = run[o].goal
    BY <1>1, <1>6 DEF Runs
<1>8. RunTyped(waits)
    BY <1>1, <1>7 DEF RunTyped
<1> HIDE DEF waits
<1>9. r \in {Ended("failed"), Advanced(run[o]), waits}
    OBVIOUS
<1> HIDE DEF r
<1>10. r \in Runs /\ RunTyped(r)
    BY <1>1, <1>7, <1>8, <1>9, AdvancedTyped, EndedTyped DEF Inv
<1>11. RunSafe(r)
    BY <1>1, ScriptRunSafe
<1> QED
    BY <1>1, <1>3, <1>10, <1>11, RunReplaced

LEMMA GiveUpKeeps ==
    ASSUME Inv, NEW o \in Operators, GiveUp(o)
    PROVE  Inv'
<1> DEFINE r == Ended("failed")
<1>1. /\ r \in Runs /\ RunTyped(r) /\ RunSafe(r) /\ run' = [run EXCEPT ![o] = r]
      /\ extraRuns' \in 0..MaxExtraRuns /\ UNCHANGED <<chainVars, goalNo>>
    BY EndedTyped, EndedSafe, RunFacts DEF GiveUp, Inv
<1> HIDE DEF r
<1>2. CASE UNCHANGED late
    BY <1>1, <1>2, RunReplaced
<1>3. CASE InFlight(o) /\ late' = [late EXCEPT ![o] = [tx |-> Head(run[o].queue),
                                                      signer |-> run[o].signer]]
    <2> DEFINE q == run[o].queue
    <2>1. q \in Seq(Txs) /\ q # <<>> /\ run[o].signer \in KeyOrNone /\ RunSafe(run[o])
        BY <1>3, RunFacts DEF InFlight, Waiting, Runs
    <2>2. Head(q) \in Txs /\ Head(q) = q[1] /\ 1 \in 1..Len(q)
        BY <2>1, HeadTailProperties, EmptySeq
    <2>3. late \in [Operators -> {NONE} \cup LateTxs]
        BY DEF Inv, Typed
    <2>4. late' \in [Operators -> {NONE} \cup LateTxs]
        BY <1>3, <2>1, <2>2, <2>3 DEF LateTxs
    <2>5. ASSUME kind = "OFT"
          PROVE  LateSafe(Head(q))
        <3>1. Carried(q[1]) /\ (q[1].what = "setDelegate" => Prepared(q, 1))
            BY <2>1, <2>2, <2>5 DEF RunSafe, QueueSafe
        <3>2. 1..(1 - 1) = {}
            OBVIOUS
        <3> QED
            BY <2>2, <3>1, <3>2 DEF LateSafe, Prepared, SetsPeerBefore
    <2>6. \A p \in Operators : IF p = o THEN late'[p].tx = Head(q) ELSE late'[p] = late[p]
        BY <1>3, <2>3
    <2>7. kind = "OFT" => \A p \in Operators : late'[p] # NONE => LateSafe(late'[p].tx)
        BY <2>5, <2>6 DEF Inv, RunsSafe
    <2> QED
        BY <1>1, <2>4, <2>7, RunAndLateReplaced
<1> QED
    BY <1>2, <1>3 DEF GiveUp

LEMMA NextGoalKeeps ==
    ASSUME Inv, NextGoal
    PROVE  Inv'
<1>1. goalNo \in Nat /\ kind \in {"OFT", "Governance"} /\ UNCHANGED <<chainVars, run, late>>
    BY DEF Inv, Typed, ChainTypeOK, NextGoal
<1>2. goalNo' \in 1..Len(Goals[kind])
    <2>1. Goals[kind] \in Seq(Configurations)
        BY <1>1, WiringAssumption
    <2>2. DOMAIN Goals[kind] = 1..Len(Goals[kind])
        BY <2>1, LenProperties
    <2> QED
        BY <2>2 DEF NextGoal
<1>3. goalNo' = goalNo + 1
    BY DEF NextGoal
<1>4. \A o \in Operators : RunTyped(run[o])'
    <2> TAKE o \in Operators
    <2>1. RunTyped(run[o]) /\ run[o].goal \in Nat
        BY DEF Inv, Typed, Runs
    <2> QED
        BY <1>1, <1>3, <2>1 DEF RunTyped, chainVars
<1>5. Typed'
    BY <1>1, <1>2, <1>4 DEF Inv, Typed, ChainTypeOK, chainVars, NextGoal
<1>6. kind' = "OFT" => RunsSafe'
    BY <1>1 DEF Inv, RunsSafe, QueueSafe, LateSafe, Carried, Prepared, SetsPeerBefore,
                PathwayReady, chainVars
<1>7. PeersAreUsable' /\ ReadyBeforeHandover'
    BY <1>1 DEF Inv, PeersAreUsable, ReadyBeforeHandover, PathwayReady, chainVars
<1> QED
    BY <1>5, <1>6, <1>7 DEF Inv
LEMMA ExecuteKeepsChain ==
    ASSUME Inv, NEW tx \in Txs, Execute(tx), kind = "OFT" => LateSafe(tx)
    PROVE  /\ ChainTypeOK' /\ kind' = kind
           /\ PeersAreUsable' /\ ReadyBeforeHandover'
           /\ kind = "OFT" => /\ PathwaysKept
                              /\ tx.what = "setPeer" => PathwayReady(tx.value.eid)'
<1>1. ChainTypeOK /\ ChainTypeOK' /\ kind' = kind /\ accounts \subseteq accounts'
    BY ExecuteTyped DEF Inv, Typed, Execute
<1>2. CASE kind = "OFT"
    <2>1. /\ PeersAreUsable' /\ \A e \in Eids : PathwayReady(e) => PathwayReady(e)'
          /\ tx.what = "setPeer" => PathwayReady(tx.value.eid)'
        BY <1>1, <1>2, ExecuteKeepsPathways DEF Inv, LateSafe
    <2>2. ReadyBeforeHandover'
        <3>1. CASE tx.what = "setDelegate"
            BY <1>2, <2>1, <3>1 DEF LateSafe, ReadyBeforeHandover
        <3>2. CASE tx.what # "setDelegate"
            <4>1. delegate' = delegate
                BY <1>2, <3>2 DEF Execute, LateSafe, Carried
            <4> QED
                BY <1>1, <2>1, <4>1 DEF Inv, ReadyBeforeHandover
        <3> QED
            BY <3>1, <3>2
    <2> QED
        BY <1>1, <2>1, <2>2 DEF PathwaysKept
<1>3. CASE kind # "OFT"
    BY <1>1, <1>3 DEF PeersAreUsable, ReadyBeforeHandover
<1> QED
    BY <1>2, <1>3

LEMMA DisturbedRun ==
    ASSUME NEW r \in Runs, NEW c \in BOOLEAN
    PROVE  LET d == [r EXCEPT !.clean = c]
           IN  /\ d \in Runs /\ d.pc = r.pc /\ d.task = r.task /\ d.goal = r.goal
               /\ d.queue = r.queue
               /\ RunTyped(r) => RunTyped(d)
    BY DEF Runs, RunTyped

\* The chain has executed a transaction: every run goes on or stays as it is.
LEMMA ChainMoves ==
    ASSUME Inv, NEW tx \in Txs, Execute(tx), kind = "OFT" => LateSafe(tx),
           run' \in [Operators -> Runs],
           \A p \in Operators : RunTyped(run'[p]),
           \A p \in Operators : kind = "OFT" =>
               /\ QueueSafe(run[p].queue)'
               /\ run'[p].pc = "rest" => /\ run[p].pc = "rest"
                                         /\ run'[p].queue = run[p].queue,
           late' \in [Operators -> {NONE} \cup LateTxs],
           \A p \in Operators : late'[p] \in {NONE, late[p]},
           UNCHANGED <<goalNo, extraRuns>>
    PROVE  Inv'
<1>1. /\ ChainTypeOK' /\ kind' = kind /\ PeersAreUsable' /\ ReadyBeforeHandover'
      /\ kind = "OFT" => PathwaysKept
    BY ExecuteKeepsChain
<1>2. Typed'
    <2>1. \A p \in Operators : RunTyped(run[p])'
        BY <1>1 DEF RunTyped
    <2> QED
        BY <1>1, <2>1 DEF Inv, Typed
<1>3. kind' = "OFT" => RunsSafe'
    <2> SUFFICES ASSUME kind = "OFT", NEW p \in Operators
                 PROVE  /\ QueueSafe(run[p].queue)'
                        /\ run'[p].pc = "rest" =>
                              Prepared(run[p].queue, Len(run[p].queue) + 1)'
                        /\ late'[p] # NONE => LateSafe(late[p].tx)'
        BY <1>1 DEF RunsSafe
    <2>1. PathwaysKept /\ RunsSafe
        BY <1>1 DEF Inv
    <2>2. QueueSafe(run[p].queue)'
        OBVIOUS
    <2>3. ASSUME run'[p].pc = "rest"
          PROVE  Prepared(run[p].queue, Len(run[p].queue) + 1)'
        <3>1. run[p].pc = "rest" /\ run'[p].queue = run[p].queue
            BY <2>3
        <3>2. Prepared(run[p].queue, Len(run[p].queue) + 1)
            BY <2>1, <3>1 DEF RunsSafe
        <3> QED
            BY <2>1, <3>1, <3>2 DEF Prepared, SetsPeerBefore, PathwaysKept
    <2>4. ASSUME late'[p] # NONE
          PROVE  LateSafe(late[p].tx)'
        <3>1. late'[p] = late[p] /\ LateSafe(late[p].tx)
            BY <2>1, <2>4 DEF RunsSafe
        <3> QED
            BY <2>1, <3>1 DEF LateSafe, Carried, PathwaysKept
    <2> QED
        BY <2>2, <2>3, <2>4
<1> QED
    BY <1>1, <1>2, <1>3 DEF Inv
LEMMA ConfirmKeeps ==
    ASSUME Inv, NEW o \in Operators, Confirm(o)
    PROVE  Inv'
<1>0. PICK q : q = run[o].queue
    OBVIOUS
<1> DEFINE tx == Head(q)
           mine == [run[o] EXCEPT !.clean = run[o].clean /\ o = o]
<1>1. /\ run \in [Operators -> Runs] /\ late' = late
      /\ late \in [Operators -> {NONE} \cup LateTxs]
      /\ \A p \in Operators : RunTyped(run[p]) /\ RunSafe(run[p]) /\ run[p].queue \in Seq(Txs)
      /\ UNCHANGED <<goalNo, extraRuns>>
    BY RunFacts DEF Inv, Typed, Confirm
<1>2. q # <<>> /\ run[o].pc # "rest" /\ Execute(tx) /\ q \in Seq(Txs)
    BY <1>0, <1>1 DEF Confirm, InFlight, Waiting
<1>3. tx \in Txs /\ tx = q[1] /\ 1 \in 1..Len(q)
    BY <1>1, <1>2, HeadTailProperties, EmptySeq
<1>4. kind = "OFT" => LateSafe(tx)
    <2>1. 1..(1 - 1) = {}
        OBVIOUS
    <2> QED
        BY <1>0, <1>1, <1>3, <2>1 DEF RunSafe, QueueSafe, LateSafe, Prepared, SetsPeerBefore
<1>5. kind = "OFT" => PathwaysKept /\ (tx.what = "setPeer" => PathwayReady(tx.value.eid)')
    BY <1>2, <1>3, <1>4, ExecuteKeepsChain
<1>6. mine \in Runs /\ mine.pc = run[o].pc /\ mine.task = run[o].task
      /\ mine.queue = q /\ RunTyped(mine)
    BY <1>0, <1>1, DisturbedRun
<1>7. Advanced(mine) \in Runs /\ RunTyped(Advanced(mine))
    BY <1>2, <1>6, AdvancedTyped DEF Inv
<1> HIDE DEF mine
<1>8. ASSUME NEW p \in Operators
      PROVE  run'[p] = IF p = o THEN Advanced(mine)
                                ELSE [run[p] EXCEPT !.clean = run[p].clean /\ p = o]
    <2> DEFINE d == Disturbed(o)
    <2>1. DOMAIN d = Operators /\ d[p] = [run[p] EXCEPT !.clean = run[p].clean /\ p = o]
        BY DEF Disturbed
    <2>2. d[o] = mine
        BY DEF Disturbed, mine
    <2>3. run' = [d EXCEPT ![o] = Advanced(d[o])]
        BY DEF Confirm
    <2> HIDE DEF d
    <2> QED
        BY <2>1, <2>2, <2>3
<1>9. ASSUME NEW p \in Operators, p # o
      PROVE  /\ run'[p] \in Runs /\ RunTyped(run'[p]) /\ run'[p].pc = run[p].pc
             /\ run'[p].queue = run[p].queue
    <2>1. run[p] \in Runs /\ (run[p].clean /\ p = o) \in BOOLEAN
        BY <1>1
    <2> QED
        BY <1>1, <1>8, <1>9, <2>1, DisturbedRun
<1>10. run' \in [Operators -> Runs] /\ \A p \in Operators : RunTyped(run'[p])
    <2>1. DOMAIN run' = Operators /\ run' = [p \in Operators |-> run'[p]]
        BY DEF Confirm, Disturbed
    <2>2. \A p \in Operators : run'[p] \in Runs /\ RunTyped(run'[p])
        BY <1>7, <1>8, <1>9
    <2> QED
        BY <2>1, <2>2
<1>11. ASSUME kind = "OFT", NEW p \in Operators
       PROVE  /\ QueueSafe(run[p].queue)'
              /\ run'[p].pc = "rest" => run[p].pc = "rest" /\ run'[p].queue = run[p].queue
    <2>1. CASE p # o
        <3>1. QueueSafe(run[p].queue)
            BY <1>1, <1>11 DEF RunSafe
        <3>2. PathwaysKept
            BY <1>5, <1>11
        <3>3. QueueSafe(run[p].queue)'
            <4>1. run'[p].queue = run[p].queue
                BY <1>9, <2>1
            <4> QED
                BY <3>1, <3>2, <4>1 DEF QueueSafe, Carried, Prepared, SetsPeerBefore,
                                        PathwaysKept
        <3> QED
            BY <1>9, <2>1, <3>3
    <2>2. CASE p = o
        <3>1. mine.task # "script"
            BY <1>6, <1>11 DEF RunTyped
        <3>2. CASE Len(q) = 1
            <4>1. run'[o] = Ended("done")
                BY <1>6, <1>8, <3>1, <3>2 DEF Advanced
            <4>2. run'[o].queue = <<>> /\ run'[o].pc = "done" /\ Len(<<>>) = 0 /\ 1..0 = {}
                BY <4>1 DEF Ended
            <4> QED
                BY <2>2, <4>2 DEF QueueSafe
        <3>3. CASE Len(q) # 1
            <4>1. run'[o] = [mine EXCEPT !.queue = Tail(@)]
                BY <1>6, <1>8, <3>1, <3>3 DEF Advanced
            <4>2. run'[o].queue = Tail(q) /\ run'[o].pc # "rest"
                BY <1>2, <1>6, <4>1 DEF Runs
            <4>3. QueueSafe(q)
                BY <1>0, <1>1, <1>11 DEF RunSafe
            <4>4. QueueSafe(Tail(q))'
                BY <1>2, <1>5, <1>11, <4>3, TailStaysSafe
            <4> QED
                BY <2>2, <4>2, <4>4 DEF QueueSafe
        <3> QED
            BY <3>2, <3>3
    <2> QED
        BY <2>1, <2>2
<1> HIDE DEF tx
<1> QED
    BY <1>1, <1>2, <1>3, <1>4, <1>10, <1>11, ChainMoves
LEMMA LandLateKeeps ==
    ASSUME Inv, NEW o \in Operators, LandLate(o)
    PROVE  Inv'
<1>1. /\ run \in [Operators -> Runs] /\ late \in [Operators -> {NONE} \cup LateTxs]
      /\ \A p \in Operators : run[p] \in Runs /\ RunTyped(run[p]) /\ RunSafe(run[p])
      /\ UNCHANGED <<goalNo, extraRuns>> /\ extraRuns' \in 0..MaxExtraRuns
    BY RunFacts DEF Inv, Typed, LandLate
<1>2. late' = [late EXCEPT ![o] = NONE] /\ late[o] # NONE
    BY DEF LandLate
<1>3. /\ late' \in [Operators -> {NONE} \cup LateTxs]
      /\ \A p \in Operators : late'[p] \in {NONE, late[p]}
    BY <1>1, <1>2
<1> DEFINE tx == late[o].tx
<1>4. tx \in Txs /\ (kind = "OFT" => LateSafe(tx))
    <2>1. late[o] \in LateTxs
        BY <1>1, <1>2
    <2> QED
        BY <1>2, <2>1 DEF LateTxs, Inv, RunsSafe
<1>5. CASE UNCHANGED <<chainVars, run>>
    <2>1. run' = [run EXCEPT ![o] = run[o]]
        BY <1>1, <1>5
    <2>2. kind = "OFT" => \A p \in Operators : late'[p] # NONE => LateSafe(late'[p].tx)
        BY <1>3 DEF Inv, RunsSafe
    <2> QED
        BY <1>1, <1>3, <1>5, <2>1, <2>2, RunAndLateReplaced
<1>6. CASE Execute(tx) /\ run' = [p \in Operators |-> [run[p] EXCEPT !.clean = FALSE]]
    <2>1. ASSUME NEW p \in Operators
          PROVE  /\ run'[p] \in Runs /\ RunTyped(run'[p]) /\ run'[p].pc = run[p].pc
                 /\ run'[p].queue = run[p].queue
        <3>1. run'[p] = [run[p] EXCEPT !.clean = FALSE]
            BY <1>6
        <3> QED
            BY <1>1, <3>1, DisturbedRun
    <2>2. run' \in [Operators -> Runs] /\ \A p \in Operators : RunTyped(run'[p])
        BY <1>6, <2>1
    <2>3. ASSUME kind = "OFT", NEW p \in Operators
          PROVE  /\ QueueSafe(run[p].queue)'
                 /\ run'[p].pc = "rest" => run[p].pc = "rest" /\ run'[p].queue = run[p].queue
        <3>1. PathwaysKept
            BY <1>4, <1>6, <2>3, ExecuteKeepsChain
        <3>2. QueueSafe(run[p].queue)
            BY <1>1, <2>3 DEF RunSafe
        <3>3. QueueSafe(run[p].queue)'
            BY <2>1, <3>1, <3>2 DEF QueueSafe, Carried, Prepared, SetsPeerBefore,
                                    PathwaysKept
        <3> QED
            BY <2>1, <3>3
    <2> HIDE DEF tx
    <2> QED
        BY <1>1, <1>3, <1>4, <1>6, <2>2, <2>3, ChainMoves
<1> QED
    BY <1>5, <1>6 DEF LandLate

LEMMA QueueCollected ==
    ASSUME Inv, NEW task \in WiringTasks \cup AdminTasks, NEW key \in Keys,
           NEW queue \in Collected(task, key)
    PROVE  queue \in Seq(Txs) /\ (kind = "OFT" => Harmless(queue))
<1>1. ChainTypeOK /\ Goal \in Configurations
    <2>1. kind \in {"OFT", "Governance"} /\ goalNo \in 1..Len(Goals[kind])
        BY DEF Inv, Typed, ChainTypeOK
    <2>2. Goals[kind] \in Seq(Configurations)
        BY <2>1, WiringAssumption
    <2> QED
        BY <2>1, <2>2, ElementOfSeq DEF Goal, Inv, Typed
<1>2. CASE task = "init-config"
    <2>1. queue = InitConfigTransactions
        BY <1>2 DEF Collected, AdminTasks
    <2> QED
        BY <1>1, <2>1, InitConfigCollected
<1>3. CASE task = "transfer"
    <2>1. queue = OwnerTransactions(Goal)
        BY <1>3 DEF Collected, AdminTasks
    <2> QED
        BY <1>1, <2>1, OwnerCollected
<1>4. CASE task \in AdminTasks
    <2>1. PICK tx \in AdminTransactions(task, key) : queue = <<tx>>
        BY <1>4 DEF Collected, AdminTasks
    <2> QED
        BY <1>1, <1>4, <2>1, AdminCollected
<1>5. CASE task \in {"wire", "script"}
    <2>1. queue = <<>> /\ Len(<<>>) = 0 /\ 1..0 = {}
        BY <1>5 DEF Collected, AdminTasks
    <2> QED
        BY <2>1, EmptySeq DEF Harmless
<1> QED
    BY <1>2, <1>3, <1>4, <1>5 DEF WiringTasks

LEMMA StartKeeps ==
    ASSUME Inv, NEW o \in Operators, NEW task \in WiringTasks \cup AdminTasks,
           NEW key \in Keys, Start(o, task, key)
    PROVE  Inv'
<1>1. PICK queue \in Collected(task, key) :
          run' = [run EXCEPT ![o] =
                IF FirstPc(task, queue) = "done" THEN Ended("done")
                ELSE [pc |-> FirstPc(task, queue), task |-> task, signer |-> key,
                      goal |-> goalNo, queue |-> queue, sent |-> FALSE, clean |-> TRUE]]
    BY DEF Start
<1> DEFINE pc == FirstPc(task, queue)
           started == [pc |-> pc, task |-> task, signer |-> key, goal |-> goalNo,
                       queue |-> queue, sent |-> FALSE, clean |-> TRUE]
           r == IF pc = "done" THEN Ended("done") ELSE started
<1>2. run' = [run EXCEPT ![o] = r]
    BY <1>1
<1>3. UNCHANGED <<chainVars, goalNo, late>> /\ goalNo \in Nat /\ goalNo >= 1
    BY DEF Start, Inv, Typed
<1>4. extraRuns' \in 0..MaxExtraRuns
    BY WiringAssumption DEF Start, MayStart, Inv, Typed
<1>5. queue \in Seq(Txs) /\ (kind = "OFT" => Harmless(queue))
    BY QueueCollected
<1>6. /\ task = "script" => pc \in ScriptPcs /\ kind = "Governance"
      /\ task # "script" => pc \in {"peers", "done", "send"}
    BY DEF FirstPc, ScriptPcs, Start, Applies
<1> HIDE DEF pc
<1>7. started \in Runs /\ RunTyped(started)
    BY <1>3, <1>5, <1>6 DEF Runs, RunTyped, TaskPcs, ScriptPcs, KeyOrNone
<1>8. RunSafe(started)
    <2>1. started.pc # "rest" /\ started.queue = queue
        BY <1>6 DEF ScriptPcs
    <2> QED
        BY <1>5, <2>1 DEF RunSafe, QueueSafe, Carried, Harmless
<1> HIDE DEF started
<1>9. r \in Runs /\ RunTyped(r) /\ RunSafe(r)
    BY <1>7, <1>8, EndedTyped, EndedSafe DEF Inv
<1> HIDE DEF r
<1> QED
    BY <1>2, <1>3, <1>4, <1>9, RunReplaced

-----------------------------------------------------------------------------
LEMMA InitInv ==
    ASSUME Init
    PROVE  Inv
<1>1. kind \in {"OFT", "Governance"} /\ goalNo = 1
    BY DEF Init, ChainInit
<1>2. ChainTypeOK
    BY WiringAssumption, AccountFacts DEF Init, ChainInit, ChainTypeOK
<1>3. Goals[kind] \in Seq(Configurations) /\ Goals[kind] # <<>>
    BY <1>1, WiringAssumption
<1>4. 1 \in 1..Len(Goals[kind])
    BY <1>3, EmptySeq
<1>5. <<>> \in Seq(Txs) /\ Len(<<>>) = 0 /\ 1..0 = {}
    BY EmptySeq
<1>6. ASSUME NEW o \in Operators
      PROVE  run[o] = Ended("done") /\ run[o] \in Runs /\ RunTyped(run[o]) /\ late[o] = NONE
    BY <1>1, <1>5, ChainAssumption DEF Init, Ended, Runs, RunTyped, TaskPcs, KeyOrNone
<1>7. Typed
    <2>1. run \in [Operators -> Runs] /\ late \in [Operators -> {NONE} \cup LateTxs]
        BY <1>6 DEF Init
    <2> QED
        BY <1>1, <1>2, <1>4, <1>6, <2>1, WiringAssumption DEF Typed, Init
<1>8. RunsSafe
    BY <1>5, <1>6 DEF RunsSafe, QueueSafe, Ended
<1>9. PeersAreUsable /\ ReadyBeforeHandover
    BY DEF Init, ChainInit, PeersAreUsable, ReadyBeforeHandover
<1> QED
    BY <1>7, <1>8, <1>9 DEF Inv

LEMMA NextInv ==
    ASSUME Inv, [Next]_vars
    PROVE  Inv'
<1>1. CASE NextGoal
    BY <1>1, NextGoalKeeps
<1>2. ASSUME NEW o \in Operators, NEW task \in WiringTasks \cup AdminTasks, NEW key \in Keys,
             Start(o, task, key)
      PROVE  Inv'
    BY <1>2, StartKeeps
<1>3. ASSUME NEW o \in Operators, CollectPeers(o)
      PROVE  Inv'
    BY <1>3, CollectPeersKeeps
<1>4. ASSUME NEW o \in Operators, CollectRest(o)
      PROVE  Inv'
    BY <1>4, CollectRestKeeps
<1>5. ASSUME NEW o \in Operators, ScriptLooks(o)
      PROVE  Inv'
    BY <1>5, ScriptLooksKeeps
<1>6. ASSUME NEW o \in Operators, Preflight(o)
      PROVE  Inv'
    BY <1>6, PreflightKeeps
<1>7. ASSUME NEW o \in Operators, Confirm(o)
      PROVE  Inv'
    BY <1>7, ConfirmKeeps
<1>8. ASSUME NEW o \in Operators, Reject(o)
      PROVE  Inv'
    BY <1>8, RejectKeeps
<1>9. ASSUME NEW o \in Operators, GiveUp(o)
      PROVE  Inv'
    BY <1>9, GiveUpKeeps
<1>10. ASSUME NEW o \in Operators, LandLate(o)
       PROVE  Inv'
    BY <1>10, LandLateKeeps
<1>11. CASE UNCHANGED vars
    BY <1>11 DEF vars, chainVars, Inv, Typed, ChainTypeOK, RunTyped, RunsSafe, QueueSafe,
                 LateSafe, Carried, Prepared, SetsPeerBefore, PeersAreUsable,
                 ReadyBeforeHandover, PathwayReady
<1> QED
    BY <1>1, <1>2, <1>3, <1>4, <1>5, <1>6, <1>7, <1>8, <1>9, <1>10, <1>11 DEF Next
LEMMA InvImplies ==
    Inv => TypeOK /\ PeersAreUsable /\ ReadyBeforeHandover
<1> SUFFICES ASSUME Inv
             PROVE  TypeOK
    BY DEF Inv
<1>1. ChainTypeOK /\ extraRuns \in 0..MaxExtraRuns
    BY DEF Inv, Typed
<1>2. goalNo \in DOMAIN Goals[kind] /\ goalNo \in Nat
    <2>1. Goals[kind] \in Seq(Configurations)
        BY <1>1, WiringAssumption DEF ChainTypeOK
    <2> QED
        BY <2>1, LenProperties DEF Inv, Typed
<1>3. TaskPcs \cup ScriptPcs \subseteq Pcs
    <2>1. \A pc \in ScriptPcs \cup {"done"} : \E n \in 1..8 : pc = ScriptSteps[n]
        BY DEF ScriptSteps, ScriptPcs
    <2>2. DOMAIN ScriptSteps = 1..8
        BY DEF ScriptSteps
    <2> HIDE DEF ScriptSteps
    <2>3. ScriptPcs \cup {"done"} \subseteq Range(ScriptSteps)
        BY <2>1, <2>2 DEF Range
    <2> QED
        BY <2>3 DEF Pcs, TaskPcs
<1>4. ASSUME NEW o \in Operators
      PROVE  /\ run[o].pc \in Pcs
             /\ run[o].task \in WiringTasks \cup AdminTasks \cup {NONE}
             /\ run[o].signer \in Keys \cup {NONE}
             /\ \A i \in 1..Len(run[o].queue) : run[o].queue[i].creates \subseteq Accounts
             /\ run[o].goal \in 0..goalNo
             /\ run[o].sent \in BOOLEAN /\ run[o].clean \in BOOLEAN
             /\ late[o] = NONE \/ late[o].tx.creates \subseteq Accounts
    <2>1. run[o] \in Runs /\ run[o].goal <= goalNo /\ late[o] \in {NONE} \cup LateTxs
        BY RunFacts DEF RunTyped, Inv, Typed
    <2>2. \A i \in 1..Len(run[o].queue) : run[o].queue[i] \in Txs
        BY <2>1, ElementOfSeq DEF Runs
    <2>3. late[o] # NONE => late[o].tx \in Txs
        BY <2>1 DEF LateTxs
    <2>4. /\ run[o].pc \in TaskPcs \cup ScriptPcs
          /\ run[o].task \in WiringTasks \cup AdminTasks \cup {NONE}
          /\ run[o].signer \in Keys \cup {NONE}
          /\ run[o].goal \in Nat /\ run[o].sent \in BOOLEAN /\ run[o].clean \in BOOLEAN
        BY <2>1 DEF Runs, KeyOrNone
    <2> QED
        BY <1>2, <1>3, <2>1, <2>2, <2>3, <2>4, TxFacts
<1> QED
    BY <1>1, <1>2, <1>4 DEF TypeOK

LEMMA Invariance == Spec => []Inv
<1> QED
    BY InitInv, NextInv, PTL DEF Spec

(***************************************************************************)
(* Types: every run works on transactions that the programs understand,    *)
(* whatever was read, given up or landed late.                             *)
(***************************************************************************)
THEOREM TypeCorrect == Spec => []TypeOK
<1> QED
    BY Invariance, InvImplies, PTL

(***************************************************************************)
(* No peer of the OFT without the accounts its messages need, although     *)
(* setPeer builds its transaction from accounts that were read long ago.   *)
(***************************************************************************)
THEOREM PeersUsable == Spec => []PeersAreUsable
<1> QED
    BY Invariance, InvImplies, PTL

(***************************************************************************)
(* Nobody but the wallet is the delegate of an OFT before all its pathways *)
(* are ready: the delegate comes last in every run of the wire task.       *)
(***************************************************************************)
THEOREM HandedOverReady == Spec => []ReadyBeforeHandover
<1> QED
    BY Invariance, InvImplies, PTL
-----------------------------------------------------------------------------
(***************************************************************************)
(* What a run still has to do.  Every transaction of a clean wire run fits *)
(* the configuration it wants, and whatever the chain does not have yet is *)
(* in its queue; a script has what its earlier steps leave behind.         *)
(***************************************************************************)
Fitting(tx, wanted) ==
    /\ tx.what \in {"setPeer", "setUln", "setOptions", "setDelegate"}
    /\ tx.what = "setPeer" => tx.value.addr = wanted.peer[tx.value.eid]
    /\ tx.what = "setUln" => tx.value.config = wanted.uln
    /\ tx.what = "setOptions" => \A e \in DOMAIN tx.value : tx.value[e] = wanted.options
    /\ tx.what = "setDelegate" => tx.value = wanted.delegate

PeersLead(queue, wanted) ==
    \A e \in Eids :
        \/ peer[e] = wanted.peer[e]
        \/ \E tx \in Range(queue) : tx.what = "setPeer" /\ tx.value.eid = e

UlnsLead(queue, wanted) ==
    \A e \in Eids :
        \/ uln[e] = wanted.uln
        \/ \E tx \in Range(queue) : tx.what = "setUln" /\ tx.value.eid = e

OptionsLead(queue, wanted) ==
    \A e \in Eids :
        \/ options[e] \in {wanted.options, EmptyOptions}
        \/ \E tx \in Range(queue) : tx.what = "setOptions" /\ e \in DOMAIN tx.value

DelegateLeads(queue, wanted) ==
    delegate = wanted.delegate \/ \E tx \in Range(queue) : tx.what = "setDelegate"

Leads(queue, wanted) ==
    /\ \A tx \in Range(queue) : Fitting(tx, wanted)
    /\ PeersLead(queue, wanted)
    /\ UlnsLead(queue, wanted)
    /\ OptionsLead(queue, wanted)
    /\ DelegateLeads(queue, wanted)

WireRun(r, wanted) ==
    r.task = "wire" =>
        /\ r.pc \in {"peers", "rest", "send"}
        /\ r.pc = "peers" => r.queue = <<>>
        /\ r.clean /\ r.pc = "rest" => /\ \A tx \in Range(r.queue) : Fitting(tx, wanted)
                                       /\ PeersLead(r.queue, wanted)
        /\ r.clean /\ r.pc = "send" => Leads(r.queue, wanted)

\* What the steps of the script before the one at r.pc have left.
Reached(r, wanted) ==
    /\ r.pc # "initGovernance" => Store \in accounts
    /\ r.pc \in {"initReceiveConfig", "setReceiveConfig"} =>
          ReceiveLibrary(ScriptEid) \in accounts
    /\ r.clean =>
          /\ r.pc \notin {"initGovernance", "setPeers"} =>
                peer[ScriptEid] = wanted.peer[ScriptEid]
          /\ r.pc \in {"setReceiveLibrary", "initReceiveConfig", "setReceiveConfig"} =>
                Nonce(ScriptEid, wanted.peer[ScriptEid]) \in accounts
          /\ r.pc \in {"initReceiveConfig", "setReceiveConfig"} => ScriptEid \in pinned

\* The transaction of a step, which does not depend on the chain.
ScriptTx(step, key, wanted) ==
    CASE step = "initGovernance" -> InitGovernance(key)
      [] step = "setPeers" -> SetRemote(key, ScriptEid, wanted.peer[ScriptEid])
      [] step = "initReceiveLibrary" ->
            Tx("init", NONE, NONE, key, {ReceiveLibrary(ScriptEid)}, {Store})
      [] step = "initOAppNonce" ->
            Tx("init", NONE, NONE, key, {Nonce(ScriptEid, wanted.peer[ScriptEid])}, {Store})
      [] step = "setReceiveLibrary" ->
            Tx("setReceiveLibrary", ScriptEid, NONE, key, {}, {ReceiveLibrary(ScriptEid)})
      [] step = "initReceiveConfig" ->
            Tx("init", NONE, NONE, key, {UlnAccounts(ScriptEid)}, {Store})
      [] step = "setReceiveConfig" ->
            Tx("setUln", [eid |-> ScriptEid, config |-> wanted.uln], NONE, key, {},
               {UlnAccounts(ScriptEid)})

\* What is known of the transaction it is about to send, or has sent.
Pending(r, wanted) ==
    /\ r.queue # <<>> => /\ r.queue = <<ScriptTx(r.pc, r.signer, wanted)>>
                         /\ r.pc = "setReceiveConfig" => UlnAccounts(ScriptEid) \in accounts
    /\ r.sent => r.queue # <<>> /\ Head(r.queue).uses \subseteq accounts
    /\ r.clean /\ r.sent => Succeeds(Head(r.queue), r.signer)

ScriptRun(r, wanted) == r.task = "script" => Reached(r, wanted) /\ Pending(r, wanted)

\* A receive library is set where there is one; no options on the governance OApp.
SoundTx(tx) ==
    /\ tx.what = "setReceiveLibrary" => ReceiveLibrary(tx.value) \in tx.uses
    /\ kind = "Governance" => tx.what # "setOptions"

ChainSound ==
    /\ \A e \in pinned : ReceiveLibrary(e) \in accounts
    /\ kind = "Governance" => \A e \in Eids : options[e] = EmptyOptions

RunServes(r) ==
    /\ \A tx \in Range(r.queue) : SoundTx(tx)
    /\ WireRun(r, Wanted(r))
    /\ ScriptRun(r, Wanted(r))

\* Inductive together with Inv.
Serving ==
    /\ ChainSound
    /\ \A o \in Operators : RunServes(run[o]) /\ (late[o] # NONE => SoundTx(late[o].tx))

\* What a run that reports success has achieved.
Achieved(r, wanted) ==
    /\ r.task = "wire" /\ r.clean => WiredAs(wanted)
    /\ r.task = "script" => /\ ScriptAccounts \subseteq accounts
                            /\ r.clean => ScriptedAs(wanted)

Reports(o) ==
    \A r, wanted :
        r = run[o] /\ wanted = Wanted(r) /\ run'[o].pc = "done" => Achieved(r, wanted)'
-----------------------------------------------------------------------------
\* The members of a queue.
LEMMA RangeEmpty == Range(<<>>) = {}
<1>1. DOMAIN <<>> = {}
    OBVIOUS
<1> QED
    BY <1>1 DEF Range

LEMMA RangeOne ==
    ASSUME NEW tx
    PROVE  Range(<<tx>>) = {tx}
<1>1. DOMAIN <<tx>> = 1..1 /\ <<tx>>[1] = tx
    OBVIOUS
<1>2. 1..1 = {1}
    OBVIOUS
<1> QED
    BY <1>1, <1>2 DEF Range

LEMMA RangeConcat ==
    ASSUME NEW s \in Seq(Txs), NEW t \in Seq(Txs)
    PROVE  /\ s \o t \in Seq(Txs)
           /\ Range(s \o t) = Range(s) \cup Range(t)
<1>1. /\ s \o t \in Seq(Txs) /\ Len(s \o t) = Len(s) + Len(t)
      /\ \A i \in 1..(Len(s) + Len(t)) :
            (s \o t)[i] = IF i <= Len(s) THEN s[i] ELSE t[i - Len(s)]
    BY ConcatProperties
<1>2. /\ Len(s) \in Nat /\ Len(t) \in Nat
      /\ DOMAIN s = 1..Len(s) /\ DOMAIN t = 1..Len(t) /\ DOMAIN (s \o t) = 1..Len(s \o t)
    BY <1>1, LenProperties
<1>3. ASSUME NEW x \in Range(s \o t)
      PROVE  x \in Range(s) \cup Range(t)
    <2>1. PICK i \in 1..(Len(s) + Len(t)) : x = (s \o t)[i]
        BY <1>1, <1>2, <1>3 DEF Range
    <2>2. CASE i <= Len(s)
        <3>1. i \in DOMAIN s /\ x = s[i]
            BY <1>1, <1>2, <2>1, <2>2
        <3> QED
            BY <3>1 DEF Range
    <2>3. CASE i > Len(s)
        <3>1. i - Len(s) \in DOMAIN t /\ x = t[i - Len(s)]
            BY <1>1, <1>2, <2>1, <2>3
        <3> QED
            BY <3>1 DEF Range
    <2> QED
        BY <1>2, <2>1, <2>2, <2>3
<1>4. ASSUME NEW x \in Range(s)
      PROVE  x \in Range(s \o t)
    <2>1. PICK i \in 1..Len(s) : x = s[i]
        BY <1>2, <1>4 DEF Range
    <2>2. i \in 1..(Len(s) + Len(t)) /\ i <= Len(s)
        BY <1>2
    <2>3. i \in DOMAIN (s \o t) /\ x = (s \o t)[i]
        BY <1>1, <1>2, <2>1, <2>2
    <2> QED
        BY <2>3 DEF Range
<1>5. ASSUME NEW x \in Range(t)
      PROVE  x \in Range(s \o t)
    <2>1. PICK i \in 1..Len(t) : x = t[i]
        BY <1>2, <1>5 DEF Range
    <2>2. Len(s) + i \in 1..(Len(s) + Len(t)) /\ ~(Len(s) + i <= Len(s))
          /\ (Len(s) + i) - Len(s) = i
        BY <1>2
    <2>3. Len(s) + i \in DOMAIN (s \o t) /\ x = (s \o t)[Len(s) + i]
        BY <1>1, <1>2, <2>1, <2>2
    <2> QED
        BY <2>3 DEF Range
<1> QED
    BY <1>1, <1>3, <1>4, <1>5

LEMMA RangeHeadTail ==
    ASSUME NEW q \in Seq(Txs), q # <<>>
    PROVE  /\ Head(q) \in Txs /\ Head(q) \in Range(q)
           /\ Tail(q) \in Seq(Txs)
           /\ Range(q) = {Head(q)} \cup Range(Tail(q))
           /\ Len(q) = 1 => Tail(q) = <<>>
<1>1. /\ Len(q) \in Nat /\ Len(q) >= 1 /\ Len(Tail(q)) = Len(q) - 1
      /\ Tail(q) \in Seq(Txs) /\ Head(q) = q[1]
      /\ \A i \in 1..Len(Tail(q)) : Tail(q)[i] = q[i + 1]
    BY HeadTailProperties, LenProperties, EmptySeq
<1>2. DOMAIN q = 1..Len(q) /\ DOMAIN Tail(q) = 1..(Len(q) - 1)
    BY <1>1, LenProperties
<1>3. 1 \in DOMAIN q /\ q[1] \in Txs
    BY <1>1, <1>2, ElementOfSeq
<1>4. ASSUME NEW x \in Range(q), x # Head(q)
      PROVE  x \in Range(Tail(q))
    <2>1. PICK i \in 1..Len(q) : x = q[i]
        BY <1>2, <1>4 DEF Range
    <2>2. i # 1
        BY <1>1, <1>4, <2>1
    <2>3. i - 1 \in 1..(Len(q) - 1) /\ (i - 1) + 1 = i
        BY <1>1, <2>2
    <2>4. Tail(q)[i - 1] = x
        BY <1>1, <2>1, <2>3
    <2> QED
        BY <1>2, <2>3, <2>4 DEF Range
<1>5. ASSUME NEW x \in Range(Tail(q))
      PROVE  x \in Range(q)
    <2>1. PICK i \in 1..(Len(q) - 1) : x = Tail(q)[i]
        BY <1>2, <1>5 DEF Range
    <2>2. i + 1 \in DOMAIN q /\ x = q[i + 1]
        BY <1>1, <1>2, <2>1
    <2> QED
        BY <2>2 DEF Range
<1>6. Head(q) \in Range(q)
    BY <1>1, <1>3 DEF Range
<1>7. Len(q) = 1 => Tail(q) = <<>>
    <2>1. Len(q) = 1 => Len(Tail(q)) = 0
        BY <1>1
    <2> QED
        BY <1>1, <2>1, EmptySeq
<1> QED
    BY <1>1, <1>3, <1>4, <1>5, <1>6, <1>7
-----------------------------------------------------------------------------
(***************************************************************************)
(* What the builders of the wire task put into a queue.                    *)
(***************************************************************************)
LEMMA PeersFit ==
    ASSUME ChainTypeOK, NEW wanted \in Configurations
    PROVE  LET queue == PeerTransactions(wanted)
           IN  /\ queue \in Seq(Txs)
               /\ \A tx \in Range(queue) : Fitting(tx, wanted) /\ tx.what = "setPeer"
               /\ PeersLead(queue, wanted)
<1> DEFINE queue == PeerTransactions(wanted)
           wrong == {e \in Eids : ~ HasPeer(e, wanted.peer[e])}
           eids == SetToSeq(wrong)
           Make(e) == BySdk(OFTSetPeer(e, wanted.peer[e]), OAppSetPeer(e, wanted.peer[e]))
<1>1. IsFiniteSet(wrong)
    BY SubsetOfEids
<1>2. /\ Len(eids) \in Nat
      /\ \A i \in 1..Len(eids) : eids[i] \in wrong
      /\ \A x \in wrong : \E i \in 1..Len(eids) : eids[i] = x
    BY <1>1, SetToSeqHasAll
<1>3. queue = [i \in 1..Len(eids) |-> Make(eids[i])] /\ queue \in Seq(Txs)
    BY PeersCollected DEF PeerTransactions, Select
<1>4. ASSUME NEW e \in Eids
      PROVE  /\ Make(e).what = "setPeer" /\ Make(e).value.eid = e
             /\ Make(e).value.addr = wanted.peer[e]
    BY DEF BySdk, OFTSetPeer, OAppSetPeer, SetPeerConfig, SetRemote, Tx
<1>5. ASSUME NEW e \in Eids, e \notin wrong
      PROVE  peer[e] = wanted.peer[e]
    BY <1>5 DEF HasPeer, BySdk, OFTHasPeer, OAppHasPeer, GetPeer
<1>6. \A e \in wrong : e \in Eids
    OBVIOUS
<1> HIDE DEF Make, queue, eids, wrong
<1>7. DOMAIN queue = 1..Len(eids) /\ \A i \in 1..Len(eids) : queue[i] = Make(eids[i])
    BY <1>3
<1>8. ASSUME NEW tx \in Range(queue)
      PROVE  Fitting(tx, wanted) /\ tx.what = "setPeer"
    <2>1. PICK i \in 1..Len(eids) : tx = Make(eids[i])
        BY <1>7 DEF Range
    <2>2. PICK e \in Eids : e = eids[i]
        BY <1>2, <1>6
    <2> QED
        BY <1>4, <2>1, <2>2 DEF Fitting
<1>9. ASSUME NEW e \in Eids, peer[e] # wanted.peer[e]
      PROVE  \E tx \in Range(queue) : tx.what = "setPeer" /\ tx.value.eid = e
    <2>1. PICK i \in 1..Len(eids) : eids[i] = e
        BY <1>2, <1>5, <1>9
    <2>2. Make(e) \in Range(queue)
        BY <1>7, <2>1 DEF Range
    <2> QED
        BY <1>4, <2>2
<1> QED
    BY <1>3, <1>8, <1>9 DEF PeersLead, queue

LEMMA UlnsFit ==
    ASSUME ChainTypeOK, NEW wanted \in Configurations
    PROVE  LET queue == UlnTransactions(wanted)
           IN  /\ queue \in Seq(Txs)
               /\ \A tx \in Range(queue) : Fitting(tx, wanted) /\ tx.what = "setUln"
               /\ UlnsLead(queue, wanted)
<1> DEFINE queue == UlnTransactions(wanted)
           wrong == {e \in Eids : uln[e] # wanted.uln}
           eids == SetToSeq(wrong)
<1>1. IsFiniteSet(wrong)
    BY SubsetOfEids
<1>2. /\ Len(eids) \in Nat
      /\ \A i \in 1..Len(eids) : eids[i] \in wrong
      /\ \A x \in wrong : \E i \in 1..Len(eids) : eids[i] = x
    BY <1>1, SetToSeqHasAll
<1>3. queue = [i \in 1..Len(eids) |-> SetUln(eids[i], wanted.uln)] /\ queue \in Seq(Txs)
    BY UlnCollected DEF UlnTransactions, Select
<1>4. ASSUME NEW e \in Eids
      PROVE  /\ SetUln(e, wanted.uln).what = "setUln" /\ SetUln(e, wanted.uln).value.eid = e
             /\ SetUln(e, wanted.uln).value.config = wanted.uln
    BY DEF SetUln, Tx
<1>5. \A e \in wrong : e \in Eids
    OBVIOUS
<1>6. \A e \in Eids : e \notin wrong => uln[e] = wanted.uln
    OBVIOUS
<1> HIDE DEF queue, eids, wrong
<1>7. /\ DOMAIN queue = 1..Len(eids)
      /\ \A i \in 1..Len(eids) : queue[i] = SetUln(eids[i], wanted.uln)
    BY <1>3
<1>8. ASSUME NEW tx \in Range(queue)
      PROVE  Fitting(tx, wanted) /\ tx.what = "setUln"
    <2>1. PICK i \in 1..Len(eids) : tx = SetUln(eids[i], wanted.uln)
        BY <1>7 DEF Range
    <2>2. PICK e \in Eids : e = eids[i]
        BY <1>2, <1>5
    <2> QED
        BY <1>4, <2>1, <2>2 DEF Fitting
<1>9. ASSUME NEW e \in Eids, uln[e] # wanted.uln
      PROVE  \E tx \in Range(queue) : tx.what = "setUln" /\ tx.value.eid = e
    <2>1. PICK i \in 1..Len(eids) : eids[i] = e
        BY <1>2, <1>6, <1>9
    <2>2. SetUln(e, wanted.uln) \in Range(queue)
        BY <1>7, <2>1 DEF Range
    <2> QED
        BY <1>4, <2>2
<1> QED
    BY <1>3, <1>8, <1>9 DEF UlnsLead, queue

LEMMA OptionsFit ==
    ASSUME ChainTypeOK, kind = "Governance" => \A e \in Eids : options[e] = EmptyOptions,
           NEW wanted \in Configurations
    PROVE  LET queue == OptionTransactions(wanted)
           IN  /\ queue \in Seq(Txs)
               /\ \A tx \in Range(queue) :
                     Fitting(tx, wanted) /\ tx.what = "setOptions" /\ kind = "OFT"
               /\ OptionsLead(queue, wanted)
<1> DEFINE queue == OptionTransactions(wanted)
           differing == {e \in Eids : ~ OFTHasEnforcedOptions(e, wanted.options)}
           value == [e \in differing |-> wanted.options]
           tx == OFTSetEnforcedOptions(value)
           test == kind = "OFT" /\ differing # {}
<1>1. queue = (IF test THEN <<tx>> ELSE <<>>) /\ queue \in Seq(Txs)
    BY OptionsCollected DEF OptionTransactions, OneIf
<1>2. \A e \in Eids : e \notin differing => options[e] = wanted.options
    BY DEF OFTHasEnforcedOptions
<1>3. DOMAIN value = differing /\ \A e \in differing : value[e] = wanted.options
    OBVIOUS
<1> HIDE DEF value, differing
<1>4. tx.what = "setOptions" /\ tx.value = value
    BY DEF OFTSetEnforcedOptions, SetPeerConfig, Tx
<1>5. Fitting(tx, wanted)
    BY <1>3, <1>4 DEF Fitting
<1> HIDE DEF tx, queue
<1>6. CASE test
    <2>1. Range(queue) = {tx}
        BY <1>1, <1>6, RangeOne
    <2>2. OptionsLead(queue, wanted)
        BY <1>2, <1>3, <1>4, <2>1 DEF OptionsLead
    <2> QED
        BY <1>1, <1>4, <1>5, <1>6, <2>1, <2>2 DEF queue
<1>7. CASE ~ test
    <2>1. Range(queue) = {}
        BY <1>1, <1>7, RangeEmpty
    <2>2. kind \in {"OFT", "Governance"}
        BY DEF ChainTypeOK
    <2>3. OptionsLead(queue, wanted)
        BY <1>2, <1>7, <2>1, <2>2 DEF OptionsLead
    <2> QED
        BY <1>1, <2>1, <2>3 DEF queue
<1> QED
    BY <1>6, <1>7

LEMMA DelegateFits ==
    ASSUME ChainTypeOK, NEW wanted \in Configurations
    PROVE  LET queue == DelegateTransactions(wanted)
           IN  /\ queue \in Seq(Txs)
               /\ \A tx \in Range(queue) : Fitting(tx, wanted) /\ tx.what = "setDelegate"
               /\ DelegateLeads(queue, wanted)
<1> DEFINE queue == DelegateTransactions(wanted)
           tx == Tx("setDelegate", wanted.delegate, owner, NONE, {}, {Store})
           test == delegate # wanted.delegate
<1>1. queue = (IF test THEN <<tx>> ELSE <<>>) /\ queue \in Seq(Txs)
    BY DelegateCollected DEF DelegateTransactions, OneIf, IsDelegate, BySdk, OFTIsDelegate,
           OAppIsDelegate, OFTSetDelegate, OAppSetDelegate, SetOFTConfig, SetDelegate
<1>2. tx.what = "setDelegate" /\ tx.value = wanted.delegate
    BY DEF Tx
<1>3. Fitting(tx, wanted)
    BY <1>2 DEF Fitting
<1> HIDE DEF tx, queue
<1>4. CASE test
    <2>1. Range(queue) = {tx}
        BY <1>1, <1>4, RangeOne
    <2> QED
        BY <1>1, <1>2, <1>3, <2>1 DEF DelegateLeads, queue
<1>5. CASE ~ test
    <2>1. Range(queue) = {}
        BY <1>1, <1>5, RangeEmpty
    <2> QED
        BY <1>1, <1>5, <2>1 DEF DelegateLeads, queue
<1> QED
    BY <1>4, <1>5
-----------------------------------------------------------------------------
(***************************************************************************)
(* A clean run of the wire task on its way.                                *)
(***************************************************************************)
LEMMA Collects ==
    ASSUME ChainTypeOK, ChainSound, NEW wanted \in Configurations, NEW q \in Seq(Txs)
    PROVE  LET queue == q \o UlnTransactions(wanted) \o OptionTransactions(wanted)
                          \o DelegateTransactions(wanted)
           IN  /\ (\A tx \in Range(q) : SoundTx(tx)) => \A tx \in Range(queue) : SoundTx(tx)
               /\ (\A tx \in Range(q) : Fitting(tx, wanted)) /\ PeersLead(q, wanted)
                     => Leads(queue, wanted)
<1>1. PICK u \in Seq(Txs) :
          /\ u = UlnTransactions(wanted) /\ UlnsLead(u, wanted)
          /\ \A tx \in Range(u) : Fitting(tx, wanted) /\ tx.what = "setUln"
    BY UlnsFit
<1>2. PICK p \in Seq(Txs) :
          /\ p = OptionTransactions(wanted) /\ OptionsLead(p, wanted)
          /\ \A tx \in Range(p) : Fitting(tx, wanted) /\ tx.what = "setOptions" /\ kind = "OFT"
    BY OptionsFit DEF ChainSound
<1>3. PICK d \in Seq(Txs) :
          /\ d = DelegateTransactions(wanted) /\ DelegateLeads(d, wanted)
          /\ \A tx \in Range(d) : Fitting(tx, wanted) /\ tx.what = "setDelegate"
    BY DelegateFits
<1>4. q \o u \in Seq(Txs) /\ Range(q \o u) = Range(q) \cup Range(u)
    BY RangeConcat
<1>5. q \o u \o p \in Seq(Txs) /\ Range(q \o u \o p) = Range(q \o u) \cup Range(p)
    BY <1>4, RangeConcat
<1>6. Range(q \o u \o p \o d) = Range(q \o u \o p) \cup Range(d)
    BY <1>5, RangeConcat
<1>7. PICK queue : queue = q \o u \o p \o d
    OBVIOUS
<1>8. Range(queue) = Range(q) \cup Range(u) \cup Range(p) \cup Range(d)
    BY <1>4, <1>5, <1>6, <1>7
<1>9. (\A tx \in Range(q) : SoundTx(tx)) => \A tx \in Range(queue) : SoundTx(tx)
    BY <1>1, <1>2, <1>3, <1>8 DEF SoundTx
<1>10. ASSUME \A tx \in Range(q) : Fitting(tx, wanted), PeersLead(q, wanted)
       PROVE  Leads(queue, wanted)
    <2>1. \A tx \in Range(queue) : Fitting(tx, wanted)
        BY <1>1, <1>2, <1>3, <1>8, <1>10
    <2>2. PeersLead(queue, wanted)
        BY <1>8, <1>10 DEF PeersLead
    <2>3. UlnsLead(queue, wanted)
        BY <1>1, <1>8 DEF UlnsLead
    <2>4. OptionsLead(queue, wanted)
        BY <1>2, <1>8 DEF OptionsLead
    <2>5. DelegateLeads(queue, wanted)
        BY <1>3, <1>8 DEF DelegateLeads
    <2> QED
        BY <2>1, <2>2, <2>3, <2>4, <2>5 DEF Leads
<1> QED
    BY <1>1, <1>2, <1>3, <1>7, <1>9, <1>10

\* Once its first transaction is executed, the rest of the queue leads on.
LEMMA LeadsOn ==
    ASSUME ChainTypeOK, NEW wanted, NEW q \in Seq(Txs), q # <<>>, Leads(q, wanted),
           Execute(Head(q))
    PROVE  Leads(Tail(q), wanted)'
<1>1. PICK tx : tx = Head(q)
    OBVIOUS
<1>2. tx \in Txs /\ tx \in Range(q) /\ Range(q) = {tx} \cup Range(Tail(q))
    BY <1>1, RangeHeadTail
<1>3. Fitting(tx, wanted) /\ Execute(tx)
    BY <1>1, <1>2 DEF Leads
<1>4. PICK rest : rest = Range(Tail(q))
    OBVIOUS
<1>5. /\ tx.what = "setPeer" => tx.value.eid \in Eids
      /\ tx.what = "setUln" => tx.value.eid \in Eids
    BY <1>2, TxFacts
<1>6. \A t \in rest : Fitting(t, wanted)
    BY <1>2, <1>4 DEF Leads
<1>7. ASSUME NEW e \in Eids
      PROVE  \/ peer'[e] = wanted.peer[e]
             \/ \E t \in rest : t.what = "setPeer" /\ t.value.eid = e
    <2>1. \/ peer[e] = wanted.peer[e]
          \/ tx.what = "setPeer" /\ tx.value.eid = e
          \/ \E t \in rest : t.what = "setPeer" /\ t.value.eid = e
        BY <1>2, <1>4 DEF Leads, PeersLead
    <2>2. CASE tx.what = "setPeer"
        <3>1. /\ peer' = [peer EXCEPT ![tx.value.eid] = tx.value.addr]
              /\ tx.value.addr = wanted.peer[tx.value.eid]
            BY <1>3, <2>2 DEF Execute, PeerSet, Fitting
        <3>2. peer'[e] = IF e = tx.value.eid THEN tx.value.addr ELSE peer[e]
            BY <3>1 DEF ChainTypeOK
        <3> QED
            BY <2>1, <3>1, <3>2
    <2>3. CASE tx.what # "setPeer"
        BY <1>3, <2>1, <2>3 DEF Execute
    <2> QED
        BY <2>2, <2>3
<1>8. ASSUME NEW e \in Eids
      PROVE  \/ uln'[e] = wanted.uln
             \/ \E t \in rest : t.what = "setUln" /\ t.value.eid = e
    <2>1. \/ uln[e] = wanted.uln
          \/ tx.what = "setUln" /\ tx.value.eid = e
          \/ \E t \in rest : t.what = "setUln" /\ t.value.eid = e
        BY <1>2, <1>4 DEF Leads, UlnsLead
    <2>2. CASE tx.what = "setUln"
        <3>1. /\ uln' = [uln EXCEPT ![tx.value.eid] = tx.value.config]
              /\ tx.value.config = wanted.uln
            BY <1>3, <2>2 DEF Execute, Fitting
        <3>2. uln'[e] = IF e = tx.value.eid THEN tx.value.config ELSE uln[e]
            BY <3>1 DEF ChainTypeOK
        <3> QED
            BY <2>1, <3>1, <3>2
    <2>3. CASE tx.what # "setUln"
        BY <1>3, <2>1, <2>3 DEF Execute
    <2> QED
        BY <2>2, <2>3
<1>9. ASSUME NEW e \in Eids
      PROVE  \/ options'[e] \in {wanted.options, EmptyOptions}
             \/ \E t \in rest : t.what = "setOptions" /\ e \in DOMAIN t.value
    <2>1. \/ options[e] \in {wanted.options, EmptyOptions}
          \/ tx.what = "setOptions" /\ e \in DOMAIN tx.value
          \/ \E t \in rest : t.what = "setOptions" /\ e \in DOMAIN t.value
        BY <1>2, <1>4 DEF Leads, OptionsLead
    <2>2. options' = OptionsOf(tx)
        BY <1>3 DEF Execute
    <2>3. CASE tx.what = "setPeer" /\ kind = "OFT"
        <3>1. options' = [options EXCEPT ![tx.value.eid] = EmptyOptions]
            BY <2>2, <2>3 DEF OptionsOf
        <3>2. options'[e] = IF e = tx.value.eid THEN EmptyOptions ELSE options[e]
            BY <3>1 DEF ChainTypeOK
        <3> QED
            BY <2>1, <2>3, <3>2
    <2>4. CASE tx.what = "setOptions"
        <3>1. options' = [x \in Eids |-> IF x \in DOMAIN tx.value THEN tx.value[x]
                                                                    ELSE options[x]]
            BY <2>2, <2>4 DEF OptionsOf
        <3>2. \A x \in DOMAIN tx.value : tx.value[x] = wanted.options
            BY <1>3, <2>4 DEF Fitting
        <3>3. options'[e] = IF e \in DOMAIN tx.value THEN wanted.options ELSE options[e]
            BY <3>1, <3>2
        <3> QED
            BY <2>1, <3>3
    <2>5. CASE ~ (tx.what = "setPeer" /\ kind = "OFT") /\ tx.what # "setOptions"
        BY <2>1, <2>2, <2>5 DEF OptionsOf
    <2> QED
        BY <2>3, <2>4, <2>5
<1>10. delegate' = wanted.delegate \/ \E t \in rest : t.what = "setDelegate"
    <2>1. \/ delegate = wanted.delegate
          \/ tx.what = "setDelegate"
          \/ \E t \in rest : t.what = "setDelegate"
        BY <1>2, <1>4 DEF Leads, DelegateLeads
    <2>2. tx.what = "setDelegate" => delegate' = wanted.delegate
        BY <1>3 DEF Execute, Fitting
    <2>3. tx.what # "setDelegate" => delegate' = delegate
        BY <1>3 DEF Execute, Fitting
    <2> QED
        BY <2>1, <2>2, <2>3
<1> QED
    BY <1>4, <1>6, <1>7, <1>8, <1>9, <1>10
       DEF Leads, PeersLead, UlnsLead, OptionsLead, DelegateLeads

\* With nothing left to send, the chain is as wanted.
LEMMA LeadsDone ==
    ASSUME NEW wanted, NEW q, q = <<>>
    PROVE  /\ Leads(q, wanted) => WiredAs(wanted)
           /\ Leads(q, wanted)' => WiredAs(wanted)'
<1>1. Range(q) = {}
    BY RangeEmpty
<1>2. Leads(q, wanted) => WiredAs(wanted)
    BY <1>1 DEF Leads, PeersLead, UlnsLead, OptionsLead, DelegateLeads, WiredAs, IsDelegate,
                OFTIsDelegate, OAppIsDelegate, BySdk
<1>3. Leads(q, wanted)' => WiredAs(wanted)'
    BY <1>1 DEF Leads, PeersLead, UlnsLead, OptionsLead, DelegateLeads, WiredAs, IsDelegate,
                OFTIsDelegate, OAppIsDelegate, BySdk
<1> QED
    BY <1>2, <1>3
-----------------------------------------------------------------------------
(***************************************************************************)
(* The script's steps.                                                     *)
(***************************************************************************)
LEMMA AfterValues ==
    /\ After("initGovernance") = "setPeers"
    /\ After("setPeers") = "initReceiveLibrary"
    /\ After("initReceiveLibrary") = "initOAppNonce"
    /\ After("initOAppNonce") = "setReceiveLibrary"
    /\ After("setReceiveLibrary") = "initReceiveConfig"
    /\ After("initReceiveConfig") = "setReceiveConfig"
    /\ After("setReceiveConfig") = "done"
<1>1. Len(ScriptSteps) = 8
    BY DEF ScriptSteps
<1>2. /\ ScriptSteps[1] = "initGovernance" /\ ScriptSteps[2] = "setPeers"
      /\ ScriptSteps[3] = "initReceiveLibrary" /\ ScriptSteps[4] = "initOAppNonce"
      /\ ScriptSteps[5] = "setReceiveLibrary" /\ ScriptSteps[6] = "initReceiveConfig"
      /\ ScriptSteps[7] = "setReceiveConfig" /\ ScriptSteps[8] = "done"
    BY DEF ScriptSteps
<1> HIDE DEF ScriptSteps
<1>3. \A n \in 2..8 : n = 2 \/ n = 3 \/ n = 4 \/ n = 5 \/ n = 6 \/ n = 7 \/ n = 8
    OBVIOUS
<1>4. ASSUME NEW step, NEW k \in 2..8, \A n \in 2..8 : ScriptSteps[n - 1] = step <=> n = k
      PROVE  After(step) = ScriptSteps[k]
    <2>1. (CHOOSE n \in 2..8 : ScriptSteps[n - 1] = step) = k
        BY <1>4
    <2> QED
        BY <1>1, <2>1 DEF After
<1>5. After("initGovernance") = ScriptSteps[2]
    <2>1. \A n \in 2..8 : ScriptSteps[n - 1] = "initGovernance" <=> n = 2
        BY <1>2, <1>3
    <2> QED
        BY <1>4, <2>1
<1>6. After("setPeers") = ScriptSteps[3]
    <2>1. \A n \in 2..8 : ScriptSteps[n - 1] = "setPeers" <=> n = 3
        BY <1>2, <1>3
    <2> QED
        BY <1>4, <2>1
<1>7. After("initReceiveLibrary") = ScriptSteps[4]
    <2>1. \A n \in 2..8 : ScriptSteps[n - 1] = "initReceiveLibrary" <=> n = 4
        BY <1>2, <1>3
    <2> QED
        BY <1>4, <2>1
<1>8. After("initOAppNonce") = ScriptSteps[5]
    <2>1. \A n \in 2..8 : ScriptSteps[n - 1] = "initOAppNonce" <=> n = 5
        BY <1>2, <1>3
    <2> QED
        BY <1>4, <2>1
<1>9. After("setReceiveLibrary") = ScriptSteps[6]
    <2>1. \A n \in 2..8 : ScriptSteps[n - 1] = "setReceiveLibrary" <=> n = 6
        BY <1>2, <1>3
    <2> QED
        BY <1>4, <2>1
<1>10. After("initReceiveConfig") = ScriptSteps[7]
    <2>1. \A n \in 2..8 : ScriptSteps[n - 1] = "initReceiveConfig" <=> n = 7
        BY <1>2, <1>3
    <2> QED
        BY <1>4, <2>1
<1>11. After("setReceiveConfig") = ScriptSteps[8]
    <2>1. \A n \in 2..8 : ScriptSteps[n - 1] = "setReceiveConfig" <=> n = 8
        BY <1>2, <1>3
    <2> QED
        BY <1>4, <2>1
<1> QED
    BY <1>2, <1>5, <1>6, <1>7, <1>8, <1>9, <1>10, <1>11

\* What a step of the script leaves, once it is done or left behind.
Left(r, wanted) ==
    /\ r.pc = "initGovernance" => Store \in accounts
    /\ r.pc = "setReceiveLibrary" => ReceiveLibrary(ScriptEid) \in accounts
    /\ r.pc = "setReceiveConfig" => UlnAccounts(ScriptEid) \in accounts
    /\ r.clean =>
          /\ r.pc = "setPeers" => peer[ScriptEid] = wanted.peer[ScriptEid]
          /\ r.pc = "initOAppNonce" => Nonce(ScriptEid, wanted.peer[ScriptEid]) \in accounts
          /\ r.pc = "setReceiveLibrary" => ScriptEid \in pinned
          /\ r.pc = "setReceiveConfig" => EqualULNConfig(uln[ScriptEid], wanted.uln)

LEMMA ScriptStepTx ==
    ASSUME NEW step \in ScriptPcs, NEW key, NEW wanted
    PROVE  ScriptStep(step, key, wanted).tx = ScriptTx(step, key, wanted)
    BY DEF ScriptPcs, ScriptStep, ScriptTx, ScriptInitGovernance, ScriptSetPeers, ScriptCreate,
           ScriptInitReceiveLibrary, ScriptInitOAppNonce, ScriptInitReceiveConfig,
           ScriptSetReceiveLibrary, ScriptSetReceiveConfig

LEMMA StepHolds ==
    ASSUME ChainSound, NEW r, r.pc \in ScriptPcs, NEW wanted,
           ScriptStep(r.pc, r.signer, wanted).holds,
           r.pc = "setReceiveConfig" => UlnAccounts(ScriptEid) \in accounts
    PROVE  Left(r, wanted)
<1>1. r.pc = "initGovernance" => Store \in accounts
    BY DEF ScriptStep, ScriptInitGovernance
<1>2. r.pc = "setReceiveLibrary" => ScriptEid \in pinned
    BY DEF ScriptStep, ScriptSetReceiveLibrary
<1>3. r.pc = "setPeers" => peer[ScriptEid] = wanted.peer[ScriptEid]
    BY DEF ScriptStep, ScriptSetPeers
<1>4. r.pc = "initOAppNonce" => Nonce(ScriptEid, wanted.peer[ScriptEid]) \in accounts
    BY DEF ScriptStep, ScriptInitOAppNonce, ScriptCreate
<1>5. r.pc = "setReceiveConfig" => EqualULNConfig(uln[ScriptEid], wanted.uln)
    BY DEF ScriptStep, ScriptSetReceiveConfig
<1>6. ScriptEid \in pinned => ReceiveLibrary(ScriptEid) \in accounts
    BY DEF ChainSound
<1> QED
    BY <1>1, <1>2, <1>3, <1>4, <1>5, <1>6 DEF Left

LEMMA StepExecuted ==
    ASSUME ChainTypeOK, NEW r, r.pc \in ScriptPcs, NEW wanted, NEW tx,
           tx = ScriptTx(r.pc, r.signer, wanted), tx.uses \subseteq accounts, Execute(tx)
    PROVE  Left(r, wanted)'
<1>1. accounts' = accounts \cup tx.creates
    BY DEF Execute
<1>2. ScriptEid \in Eids
    BY WiringAssumption
<1>3. r.pc = "initGovernance" => Store \in accounts'
    BY <1>1 DEF ScriptTx, InitGovernance, Tx
<1>4. r.pc = "setReceiveLibrary" => ReceiveLibrary(ScriptEid) \in accounts'
    BY <1>1 DEF ScriptTx, Tx
<1>5. r.pc = "setReceiveConfig" => UlnAccounts(ScriptEid) \in accounts'
    BY <1>1 DEF ScriptTx, Tx
<1>6. ASSUME r.pc = "setPeers"
      PROVE  peer'[ScriptEid] = wanted.peer[ScriptEid]
    <2>1. /\ tx.what = "setPeer" /\ tx.value.eid = ScriptEid
          /\ tx.value.addr = wanted.peer[ScriptEid]
        BY <1>6 DEF ScriptTx, SetRemote, Tx
    <2> QED
        BY <1>2, <2>1 DEF Execute, PeerSet, ChainTypeOK
<1>7. r.pc = "initOAppNonce" => Nonce(ScriptEid, wanted.peer[ScriptEid]) \in accounts'
    BY <1>1 DEF ScriptTx, Tx
<1>8. ASSUME r.pc = "setReceiveLibrary"
      PROVE  ScriptEid \in pinned'
    <2>1. tx.what = "setReceiveLibrary" /\ tx.value = ScriptEid
        BY <1>8 DEF ScriptTx, Tx
    <2> QED
        BY <2>1 DEF Execute
<1>9. ASSUME r.pc = "setReceiveConfig"
      PROVE  EqualULNConfig(uln'[ScriptEid], wanted.uln)
    <2>1. tx.what = "setUln" /\ tx.value.eid = ScriptEid /\ tx.value.config = wanted.uln
        BY <1>9 DEF ScriptTx, Tx
    <2>2. uln'[ScriptEid] = wanted.uln
        BY <1>2, <2>1 DEF Execute, ChainTypeOK
    <2> QED
        BY <2>2 DEF EqualULNConfig
<1> QED
    BY <1>3, <1>4, <1>5, <1>6, <1>7, <1>8, <1>9 DEF Left

\* A clean script sees none of its transactions fail on chain.
LEMMA StepRejected ==
    ASSUME NEW r, r.pc \in ScriptPcs, NEW wanted, Pending(r, wanted), r.sent = TRUE,
           ~ Succeeds(Head(r.queue), r.signer)
    PROVE  Left(r, wanted)
<1>1. PICK tx : tx = ScriptTx(r.pc, r.signer, wanted)
    OBVIOUS
<1>2. r.queue # <<>> /\ r.queue = <<tx>> /\ Head(r.queue).uses \subseteq accounts
    BY <1>1 DEF Pending
<1>3. Head(r.queue) = tx
    BY <1>2
<1>4. tx.uses \subseteq accounts /\ ~ Succeeds(tx, r.signer) /\ ~ r.clean
    BY <1>2, <1>3 DEF Pending
<1>5. ASSUME r.pc = "initGovernance"
      PROVE  Store \in accounts
    <2>1. tx.admin = NONE /\ tx.delegate = NONE /\ tx.creates = {Store} /\ tx.uses = {}
        BY <1>1, <1>5 DEF ScriptTx, InitGovernance, Tx
    <2>2. Signed(tx, r.signer) /\ Authorized(tx)
        BY <2>1 DEF Signed, Authorized
    <2> QED
        BY <1>4, <2>1, <2>2 DEF Succeeds
<1>6. r.pc = "setReceiveLibrary" => ReceiveLibrary(ScriptEid) \in accounts
    BY <1>1, <1>4 DEF ScriptTx, Tx
<1>7. r.pc = "setReceiveConfig" => UlnAccounts(ScriptEid) \in accounts
    BY <1>2 DEF Pending
<1> QED
    BY <1>4, <1>5, <1>6, <1>7 DEF Left

\* What earlier steps left stays when the step's own transaction is executed.
LEMMA ReachedStays ==
    ASSUME NEW r, r.pc \in ScriptPcs, NEW wanted, Reached(r, wanted), NEW tx,
           tx = ScriptTx(r.pc, r.signer, wanted), Execute(tx)
    PROVE  Reached(r, wanted)'
<1>1. accounts \subseteq accounts' /\ pinned \subseteq pinned'
    BY DEF Execute
<1>2. r.pc \notin {"initGovernance", "setPeers"} => tx.what # "setPeer"
    BY DEF ScriptTx, Tx, ScriptPcs
<1>3. r.pc \notin {"initGovernance", "setPeers"} => peer' = peer
    BY <1>2 DEF Execute
<1> QED
    BY <1>1, <1>3 DEF Reached

\* The script moves on to its next step, or reports.
LEMMA Advances ==
    ASSUME NEW r, r \in Runs, r.task = "script", r.pc \in ScriptPcs, NEW wanted,
           Reached(r, wanted)', Left(r, wanted)'
    PROVE  /\ After(r.pc) # "done" =>
                 /\ Advanced(r) = [r EXCEPT !.pc = After(@), !.queue = <<>>, !.sent = FALSE]
                 /\ ScriptRun(Advanced(r), wanted)'
           /\ After(r.pc) = "done" => Advanced(r) = Ended("done")
           /\ Advanced(r).pc = "done" => Achieved(r, wanted)'
<1>1. CASE After(r.pc) # "done"
    <2>1. Advanced(r) = [r EXCEPT !.pc = After(@), !.queue = <<>>, !.sent = FALSE]
        BY <1>1 DEF Advanced
    <2>2. PICK s : s = Advanced(r)
        OBVIOUS
    <2>3. /\ s.pc = After(r.pc) /\ s.queue = <<>> /\ s.sent = FALSE /\ s.clean = r.clean
        BY <2>1, <2>2 DEF Runs
    <2>4. Reached(s, wanted)'
        BY <1>1, <2>3, AfterValues DEF Reached, Left, ScriptPcs
    <2>5. Pending(s, wanted)'
        BY <2>3 DEF Pending
    <2> QED
        BY <1>1, <2>1, <2>2, <2>3, <2>4, <2>5 DEF ScriptRun
<1>2. CASE After(r.pc) = "done"
    <2>1. Advanced(r) = Ended("done")
        BY <1>2 DEF Advanced
    <2>2. r.pc = "setReceiveConfig"
        BY <1>2, AfterValues DEF ScriptPcs
    <2>3. Achieved(r, wanted)'
        BY <2>2 DEF Achieved, ScriptAccounts, ScriptedAs, Reached, Left
    <2> QED
        BY <1>2, <2>1, <2>3
<1> QED
    BY <1>1, <1>2
-----------------------------------------------------------------------------
(***************************************************************************)
(* Frames: a chain that stays as it is, and one that others have changed.  *)
(***************************************************************************)
LEMMA WantedStays ==
    ASSUME kind' = kind, NEW r
    PROVE  Wanted(r)' = Wanted(r)
    BY DEF Wanted

LEMMA SameChain ==
    ASSUME UNCHANGED chainVars, NEW r
    PROVE  RunServes(r) => RunServes(r)'
<1>1. PICK wanted : wanted = Wanted(r) /\ wanted = Wanted(r)'
    BY WantedStays DEF chainVars
<1>2. \A tx : SoundTx(tx) => SoundTx(tx)'
    BY DEF SoundTx, chainVars
<1>3. WireRun(r, wanted) => WireRun(r, wanted)'
    BY DEF WireRun, Leads, PeersLead, UlnsLead, OptionsLead, DelegateLeads, chainVars
<1>4. Reached(r, wanted) => Reached(r, wanted)'
    BY DEF Reached, chainVars
<1>5. Pending(r, wanted) => Pending(r, wanted)'
    BY DEF Pending, Succeeds, Authorized, chainVars
<1> QED
    BY <1>1, <1>2, <1>3, <1>4, <1>5 DEF RunServes, ScriptRun

LEMMA Disturbs ==
    ASSUME kind' = kind, accounts \subseteq accounts', NEW r \in Runs, RunServes(r), NEW d,
           d = [r EXCEPT !.clean = FALSE]
    PROVE  RunServes(d)'
<1>1. PICK wanted : wanted = Wanted(r) /\ wanted = Wanted(d)'
    <2>1. d.goal = r.goal
        BY DEF Runs
    <2> QED
        BY <2>1 DEF Wanted
<1>2. /\ d.clean = FALSE /\ d.pc = r.pc /\ d.task = r.task /\ d.queue = r.queue
      /\ d.sent = r.sent /\ d.signer = r.signer
    BY DEF Runs
<1>3. \A tx : SoundTx(tx) => SoundTx(tx)'
    BY DEF SoundTx
<1>4. WireRun(d, wanted)'
    BY <1>1, <1>2 DEF RunServes, WireRun
<1>5. ScriptRun(d, wanted)'
    BY <1>1, <1>2 DEF RunServes, ScriptRun, Reached, Pending
<1> QED
    BY <1>1, <1>2, <1>3, <1>4, <1>5 DEF RunServes

LEMMA ChainStaysSound ==
    ASSUME ChainTypeOK, ChainSound, NEW tx, SoundTx(tx), tx.uses \subseteq accounts,
           Execute(tx)
    PROVE  ChainSound'
<1>1. accounts \subseteq accounts' /\ kind' = kind
    BY DEF Execute
<1>2. \A e \in pinned' : ReceiveLibrary(e) \in accounts'
    BY <1>1 DEF ChainSound, SoundTx, Execute
<1>3. ASSUME kind = "Governance"
      PROVE  options' = options
    BY <1>3 DEF SoundTx, Execute, OptionsOf
<1> QED
    BY <1>1, <1>2, <1>3 DEF ChainSound
-----------------------------------------------------------------------------
(***************************************************************************)
(* Steps that change one run, and leave the chain as it is.                *)
(***************************************************************************)
LEMMA OneRunServes ==
    ASSUME Inv, Serving, NEW o \in Operators, NEW r, RunServes(r),
           run' = [run EXCEPT ![o] = r], UNCHANGED chainVars,
           \A p \in Operators :
               late'[p] # NONE => late'[p] = late[p] \/ SoundTx(late'[p].tx)
    PROVE  Serving'
<1>1. \A p \in Operators : run'[p] = IF p = o THEN r ELSE run[p]
    BY DEF Inv, Typed
<1>2. ASSUME NEW p \in Operators
      PROVE  RunServes(run[p])'
    <2>1. PICK s : s = run'[p]
        OBVIOUS
    <2>2. RunServes(s)
        BY <1>1, <2>1 DEF Serving
    <2>3. RunServes(s)'
        BY <2>2, SameChain
    <2> QED
        BY <2>1, <2>3 DEF RunServes, WireRun, ScriptRun, Wanted, Leads, PeersLead, UlnsLead,
                          OptionsLead, DelegateLeads, Reached, Pending
<1>3. \A tx : SoundTx(tx) => SoundTx(tx)'
    BY DEF SoundTx, chainVars
<1>4. ASSUME NEW p \in Operators, late'[p] # NONE
      PROVE  SoundTx(late[p].tx)'
    <2>1. SoundTx(late'[p].tx)
        BY <1>4 DEF Serving
    <2> QED
        BY <2>1 DEF SoundTx, chainVars
<1>5. ChainSound'
    BY DEF Serving, ChainSound, chainVars
<1> QED
    BY <1>2, <1>4, <1>5 DEF Serving

\* A run of the wire task or of the script in progress has not reported yet.
LEMMA StillBusy ==
    ASSUME Inv, Serving, NEW o \in Operators
    PROVE  /\ run[o].task \in {"wire", "script"} => run[o].pc \notin {"done", "failed"}
           /\ run'[o].pc \in {run[o].pc, "failed"} => Reports(o)
<1>1. /\ run[o].task = "script" => run[o].pc \in ScriptPcs
      /\ run[o].task = "wire" => run[o].pc \in {"peers", "rest", "send"}
    BY RunFacts DEF RunTyped, Serving, RunServes, WireRun
<1>2. run[o].task \in {"wire", "script"} => run[o].pc \notin {"done", "failed"}
    BY <1>1 DEF ScriptPcs
<1>3. ASSUME run'[o].pc \in {run[o].pc, "failed"}, run'[o].pc = "done", NEW r, r = run[o],
             NEW wanted
      PROVE  Achieved(r, wanted)'
    <2>1. r.task \notin {"wire", "script"}
        BY <1>2, <1>3
    <2> QED
        BY <2>1 DEF Achieved
<1> QED
    BY <1>2, <1>3 DEF Reports

LEMMA EndedServes ==
    ASSUME NEW how
    PROVE  /\ RunServes(Ended(how)) /\ RunServes(Ended(how))'
           /\ Ended(how).pc = how
<1>1. PICK r : r = Ended(how)
    OBVIOUS
<1>2. r.queue = <<>> /\ r.task \notin {"wire", "script"} /\ r.pc = how
    BY <1>1, ChainAssumption DEF Ended
<1>3. Range(r.queue) = {}
    BY <1>2, RangeEmpty
<1>4. RunServes(r) /\ RunServes(r)'
    BY <1>2, <1>3 DEF RunServes, WireRun, ScriptRun
<1>5. RunServes(Ended(how)) /\ RunServes(Ended(how))'
    BY <1>1, <1>4 DEF Ended, RunServes, WireRun, ScriptRun
<1> QED
    BY <1>1, <1>2, <1>5

LEMMA QueueSound ==
    ASSUME Inv, NEW task \in WiringTasks \cup AdminTasks, NEW key \in Keys,
           NEW queue \in Collected(task, key)
    PROVE  \A tx \in Range(queue) : SoundTx(tx)
<1>1. CASE task = "init-config"
    <2>1. queue = InitConfigTransactions
        BY <1>1 DEF Collected, AdminTasks
    <2> DEFINE oft == SetToSeq({e \in Eids : ~ OFTConfigIsInitialized(e)})
               oapp == SetToSeq({e \in Eids : ~ OAppConfigIsInitialized(e)})
    <2>2. \/ queue = [i \in 1..Len(oft) |-> OFTInitConfig(oft[i])]
          \/ queue = [i \in 1..Len(oapp) |-> OAppInitConfig(oapp[i])]
        BY <2>1 DEF InitConfigTransactions, BySdk, Select
    <2>3. \A e : OFTInitConfig(e).what = "init" /\ OAppInitConfig(e).what = "init"
        BY DEF OFTInitConfig, OAppInitConfig, Tx
    <2> HIDE DEF oft, oapp
    <2>4. \A tx \in Range(queue) : tx.what = "init"
        BY <2>2, <2>3 DEF Range
    <2> QED
        BY <2>4 DEF SoundTx
<1>2. CASE task = "transfer"
    <2>1. queue = OwnerTransactions(Goal)
        BY <1>2 DEF Collected, AdminTasks
    <2>2. PICK tx : tx.what = "setOwner" /\ queue \in {<<>>, <<tx>>}
        BY <2>1 DEF OwnerTransactions, OneIf, BySdk, OFTSetOwner, OAppSetOwner, SetOFTConfig,
                    SetAdmin, Tx
    <2>3. Range(queue) \subseteq {tx}
        BY <2>2, RangeEmpty, RangeOne
    <2> QED
        BY <2>2, <2>3 DEF SoundTx
<1>3. CASE task \in AdminTasks
    <2>1. PICK tx \in AdminTransactions(task, key) : queue = <<tx>>
        BY <1>3 DEF Collected, AdminTasks
    <2>2. tx.what \in {"setLimit", "setPauser", "setUnpauser"}
        <3>1. CASE task \in {"inbound-rate-limit", "outbound-rate-limit"}
            BY <3>1 DEF AdminTransactions, SetInboundRateLimit, SetOutboundRateLimit, SetLimit,
                        Tx
        <3>2. CASE task \in {"set-pauser", "set-unpauser"}
            BY <3>2 DEF AdminTransactions, SetPauser, SetUnpauser, Tx
        <3> QED
            BY <1>3, <3>1, <3>2 DEF AdminTasks
    <2>3. Range(queue) = {tx}
        BY <2>1, RangeOne
    <2> QED
        BY <2>2, <2>3 DEF SoundTx
<1>4. CASE task \in {"wire", "script"}
    <2>1. queue = <<>>
        BY <1>4 DEF Collected, AdminTasks
    <2> QED
        BY <2>1, RangeEmpty
<1> QED
    BY <1>1, <1>2, <1>3, <1>4 DEF WiringTasks

LEMMA StartServes ==
    ASSUME Inv, Serving, NEW o \in Operators, NEW task \in WiringTasks \cup AdminTasks,
           NEW key \in Keys, Start(o, task, key)
    PROVE  Serving' /\ Reports(o)
<1>1. PICK queue \in Collected(task, key) :
          run' = [run EXCEPT ![o] =
                IF FirstPc(task, queue) = "done" THEN Ended("done")
                ELSE [pc |-> FirstPc(task, queue), task |-> task, signer |-> key,
                      goal |-> goalNo, queue |-> queue, sent |-> FALSE, clean |-> TRUE]]
    BY DEF Start
<1>2. PICK started : started =
          [pc |-> FirstPc(task, queue), task |-> task, signer |-> key, goal |-> goalNo,
           queue |-> queue, sent |-> FALSE, clean |-> TRUE]
    OBVIOUS
<1>3. PICK r : r = IF FirstPc(task, queue) = "done" THEN Ended("done") ELSE started
    OBVIOUS
<1>4. run' = [run EXCEPT ![o] = r]
    BY <1>1, <1>2, <1>3
<1>5. \A tx \in Range(queue) : SoundTx(tx)
    BY QueueSound
<1>6. RunServes(started)
    <2>1. /\ started.pc = FirstPc(task, queue) /\ started.task = task
          /\ started.queue = queue /\ started.sent = FALSE
        BY <1>2
    <2>2. task \in {"wire", "script"} => queue = <<>>
        BY DEF Collected, AdminTasks
    <2>3. WireRun(started, Wanted(started))
        BY <2>1, <2>2 DEF WireRun, FirstPc
    <2>4. ScriptRun(started, Wanted(started))
        BY <2>1, <2>2 DEF ScriptRun, Reached, Pending, FirstPc
    <2> QED
        BY <1>5, <2>1, <2>3, <2>4 DEF RunServes
<1>7. RunServes(r)
    BY <1>3, <1>6, EndedServes
<1>8. UNCHANGED <<chainVars, late>>
    BY DEF Start
<1>9. Serving'
    BY <1>4, <1>7, <1>8, OneRunServes
<1>10. Reports(o)
    <2>1. run[o].task \notin {"wire", "script"}
        BY StillBusy DEF Start
    <2> QED
        BY <2>1 DEF Reports, Achieved
<1> QED
    BY <1>9, <1>10

LEMMA CollectPeersServes ==
    ASSUME Inv, Serving, NEW o \in Operators, CollectPeers(o)
    PROVE  Serving' /\ Reports(o)
<1>1. PICK wanted \in Configurations : wanted = Wanted(run[o])
    BY RunFacts DEF CollectPeers
<1>2. PICK old \in Runs : old = run[o] /\ old.pc = "peers" /\ RunTyped(old) /\ RunServes(old)
    BY RunFacts DEF CollectPeers, Serving
<1>3. PICK queue : queue = PeerTransactions(wanted)
    OBVIOUS
<1>4. PICK r : r = [old EXCEPT !.pc = "rest", !.queue = queue]
    OBVIOUS
<1>5. run' = [run EXCEPT ![o] = r] /\ UNCHANGED <<chainVars, late>>
    BY <1>1, <1>2, <1>3, <1>4 DEF CollectPeers, Inv, Typed
<1>6. /\ r.pc = "rest" /\ r.queue = queue /\ r.task = old.task /\ r.goal = old.goal
      /\ r.task # "script"
    BY <1>2, <1>4 DEF Runs, RunTyped, ScriptPcs
<1>7. Wanted(r) = wanted
    BY <1>1, <1>2, <1>6 DEF Wanted
<1>8. ChainTypeOK
    BY DEF Inv, Typed
<1>9. /\ \A tx \in Range(queue) : Fitting(tx, wanted) /\ tx.what = "setPeer"
      /\ PeersLead(queue, wanted)
    BY <1>3, <1>8, PeersFit
<1>10. RunServes(r)
    BY <1>6, <1>7, <1>9 DEF RunServes, WireRun, ScriptRun, SoundTx
<1>11. Serving'
    BY <1>5, <1>10, OneRunServes
<1>12. Reports(o)
    <2>1. run'[o].pc = "rest"
        BY <1>5, <1>6 DEF Inv, Typed
    <2> QED
        BY <2>1 DEF Reports
<1> QED
    BY <1>11, <1>12

LEMMA CollectRestServes ==
    ASSUME Inv, Serving, NEW o \in Operators, CollectRest(o)
    PROVE  Serving' /\ Reports(o)
<1>1. PICK wanted \in Configurations : wanted = Wanted(run[o])
    BY RunFacts DEF CollectRest
<1>2. PICK old \in Runs : old = run[o] /\ old.pc = "rest" /\ RunTyped(old) /\ RunServes(old)
    BY RunFacts DEF CollectRest, Serving
<1>3. old.queue \in Seq(Txs) /\ old.task # "script"
    BY <1>2 DEF Runs, RunTyped, ScriptPcs
<1>4. PICK queue : queue = old.queue \o UlnTransactions(wanted) \o OptionTransactions(wanted)
                             \o DelegateTransactions(wanted)
    OBVIOUS
<1>5. PICK r : r = IF queue = <<>> THEN Ended("done")
                                   ELSE [old EXCEPT !.pc = "send", !.queue = queue]
    OBVIOUS
<1>6. run' = [run EXCEPT ![o] = r] /\ UNCHANGED <<chainVars, late>>
    BY <1>1, <1>2, <1>4, <1>5 DEF CollectRest, Inv, Typed
<1>7. ChainTypeOK /\ ChainSound
    BY DEF Inv, Typed, Serving
<1>8. /\ \A tx \in Range(queue) : SoundTx(tx)
      /\ old.task = "wire" /\ old.clean => Leads(queue, wanted)
    <2>1. /\ \A tx \in Range(old.queue) : SoundTx(tx)
          /\ old.task = "wire" /\ old.clean =>
                /\ \A tx \in Range(old.queue) : Fitting(tx, wanted)
                /\ PeersLead(old.queue, wanted)
        BY <1>1, <1>2 DEF RunServes, WireRun
    <2> QED
        BY <1>3, <1>4, <1>7, <2>1, Collects
<1>9. RunServes(r)
    <2>1. CASE queue = <<>>
        BY <1>5, <2>1, EndedServes
    <2>2. CASE queue # <<>>
        <3>1. /\ r.pc = "send" /\ r.queue = queue /\ r.task = old.task /\ r.goal = old.goal
              /\ r.clean = old.clean
            BY <1>5, <2>2 DEF Runs
        <3>2. Wanted(r) = wanted
            BY <1>1, <1>2, <3>1 DEF Wanted
        <3> QED
            BY <1>3, <1>8, <3>1, <3>2 DEF RunServes, WireRun, ScriptRun
    <2> QED
        BY <2>1, <2>2
<1>10. Serving'
    BY <1>6, <1>9, OneRunServes
<1>11. Reports(o)
    <2> SUFFICES ASSUME run'[o].pc = "done"
                 PROVE  Achieved(old, wanted)'
        BY <1>1, <1>2 DEF Reports
    <2>1. run'[o] = r
        BY <1>6 DEF Inv, Typed
    <2>2. queue = <<>>
        BY <1>5, <2>1 DEF Runs
    <2>3. old.task = "wire" /\ old.clean => WiredAs(wanted)
        BY <1>8, <2>2, LeadsDone
    <2>4. old.task = "wire" /\ old.clean => WiredAs(wanted)'
        BY <1>6, <2>3 DEF WiredAs, IsDelegate, BySdk, OFTIsDelegate, OAppIsDelegate, chainVars
    <2> QED
        BY <1>3, <2>4 DEF Achieved
<1> QED
    BY <1>10, <1>11

\* A script that moves on, or reports, without a change of the chain.
LEMMA MovesOn ==
    ASSUME Inv, Serving, NEW o \in Operators, run[o].task = "script",
           Left(run[o], Wanted(run[o])), run' = [run EXCEPT ![o] = Advanced(run[o])],
           UNCHANGED <<chainVars, late>>
    PROVE  Serving' /\ Reports(o)
<1>1. PICK r \in Runs : r = run[o] /\ RunTyped(r) /\ RunServes(r)
    BY RunFacts DEF Serving
<1>2. PICK wanted : wanted = Wanted(r)
    OBVIOUS
<1>3. r.pc \in ScriptPcs /\ r.task = "script" /\ Reached(r, wanted) /\ Left(r, wanted)
    BY <1>1, <1>2 DEF RunTyped, RunServes, ScriptRun
<1>4. Reached(r, wanted)' /\ Left(r, wanted)'
    BY <1>3 DEF Reached, Left, chainVars
<1>5. PICK new : new = Advanced(r)
    OBVIOUS
<1>6. /\ After(r.pc) # "done" =>
            /\ new = [r EXCEPT !.pc = After(@), !.queue = <<>>, !.sent = FALSE]
            /\ ScriptRun(new, wanted)'
      /\ After(r.pc) = "done" => new = Ended("done")
      /\ new.pc = "done" => Achieved(r, wanted)'
    BY <1>1, <1>3, <1>4, <1>5, Advances, Zenon
<1>7. RunServes(new)
    <2>1. CASE After(r.pc) # "done"
        <3>1. /\ new.queue = <<>> /\ new.task = "script" /\ new.goal = r.goal
            BY <1>1, <1>3, <1>6, <2>1 DEF Runs
        <3>2. ScriptRun(new, wanted)
            BY <1>6, <2>1 DEF ScriptRun, Reached, Pending, Succeeds, Authorized, chainVars
        <3>3. Wanted(new) = wanted
            BY <1>2, <3>1 DEF Wanted
        <3> QED
            BY <3>1, <3>2, <3>3, RangeEmpty DEF RunServes, WireRun
    <2>2. CASE After(r.pc) = "done"
        BY <1>6, <2>2, EndedServes
    <2> QED
        BY <2>1, <2>2
<1>8. run' = [run EXCEPT ![o] = new]
    BY <1>1, <1>5
<1>9. Serving'
    BY <1>7, <1>8, OneRunServes
<1>10. Reports(o)
    <2>1. run'[o] = new
        BY <1>8 DEF Inv, Typed
    <2> QED
        BY <1>1, <1>2, <1>6, <2>1 DEF Reports
<1> QED
    BY <1>9, <1>10

\* A run that fails has nothing to report.
LEMMA FailureServes ==
    ASSUME Inv, Serving, NEW o \in Operators, run' = [run EXCEPT ![o] = Ended("failed")],
           UNCHANGED chainVars,
           \A p \in Operators :
               late'[p] # NONE => late'[p] = late[p] \/ SoundTx(late'[p].tx)
    PROVE  Serving' /\ Reports(o)
<1>1. PICK r : r = Ended("failed")
    OBVIOUS
<1>2. RunServes(r) /\ r.pc = "failed" /\ run' = [run EXCEPT ![o] = r]
    BY <1>1, EndedServes
<1>3. Serving'
    BY <1>2, OneRunServes
<1>4. run'[o].pc = "failed"
    BY <1>2 DEF Inv, Typed
<1> QED
    BY <1>3, <1>4, StillBusy

LEMMA ScriptLooksServes ==
    ASSUME Inv, Serving, NEW o \in Operators, ScriptLooks(o)
    PROVE  Serving' /\ Reports(o)
<1>1. PICK r \in Runs : r = run[o] /\ RunTyped(r) /\ RunServes(r)
    BY RunFacts DEF Serving
<1>2. PICK wanted : wanted = Wanted(r)
    OBVIOUS
<1>3. /\ r.task = "script" /\ r.queue = <<>> /\ r.pc \in ScriptPcs
      /\ UNCHANGED <<chainVars, late>>
    BY <1>1 DEF ScriptLooks, RunTyped
<1>4. PICK step : step = ScriptStep(r.pc, r.signer, wanted)
    OBVIOUS
<1> DEFINE throws == r.pc = "setReceiveConfig" /\ UlnAccounts(ScriptEid) \notin accounts
<1>5. PICK new : new = CASE throws -> Ended("failed")
                         [] ~ throws /\ step.holds -> Advanced(r)
                         [] OTHER -> [r EXCEPT !.queue = <<step.tx>>]
    OBVIOUS
<1>6. run' = [run EXCEPT ![o] = new]
    BY <1>1, <1>2, <1>4, <1>5 DEF ScriptLooks, Inv, Typed
<1>7. CASE throws
    <2>1. run' = [run EXCEPT ![o] = Ended("failed")]
        BY <1>5, <1>6, <1>7
    <2> QED
        BY <1>3, <2>1, FailureServes
<1>8. CASE ~ throws /\ step.holds
    <2>1. Left(r, wanted)
        BY <1>3, <1>4, <1>8, StepHolds DEF Serving
    <2>2. run' = [run EXCEPT ![o] = Advanced(run[o])]
        BY <1>1, <1>5, <1>6, <1>8
    <2> QED
        BY <1>1, <1>2, <1>3, <2>1, <2>2, MovesOn
<1>9. CASE ~ throws /\ ~ step.holds
    <2>1. PICK tx : tx = step.tx
        OBVIOUS
    <2>2. tx = ScriptTx(r.pc, r.signer, wanted)
        BY <1>3, <1>4, <2>1, ScriptStepTx
    <2>3. new = [r EXCEPT !.queue = <<tx>>]
        BY <1>5, <1>9, <2>1
    <2>4. /\ new.queue = <<tx>> /\ new.pc = r.pc /\ new.task = "script" /\ new.goal = r.goal
          /\ new.sent = r.sent /\ new.signer = r.signer /\ new.clean = r.clean
        BY <1>3, <2>3 DEF Runs
    <2>5. Wanted(new) = wanted
        BY <1>2, <2>4 DEF Wanted
    <2>6. Reached(r, wanted) /\ ~ r.sent
        BY <1>1, <1>2, <1>3 DEF RunServes, ScriptRun, Pending
    <2>7. ScriptRun(new, wanted)
        BY <1>9, <2>2, <2>4, <2>6 DEF ScriptRun, Reached, Pending
    <2>8. SoundTx(tx)
        BY <1>3, <2>2 DEF SoundTx, ScriptTx, InitGovernance, SetRemote, Tx, ScriptPcs
    <2>9. Range(new.queue) = {tx}
        BY <2>4, RangeOne
    <2>10. RunServes(new)
        BY <2>4, <2>5, <2>7, <2>8, <2>9 DEF RunServes, WireRun
    <2>11. Serving'
        BY <1>3, <1>6, <2>10, OneRunServes
    <2>12. run'[o].pc = run[o].pc
        BY <1>1, <1>6, <2>4 DEF Inv, Typed
    <2> QED
        BY <2>11, <2>12, StillBusy
<1> QED
    BY <1>7, <1>8, <1>9

LEMMA PreflightServes ==
    ASSUME Inv, Serving, NEW o \in Operators, Preflight(o)
    PROVE  Serving' /\ Reports(o)
<1>1. PICK r \in Runs : r = run[o] /\ RunTyped(r) /\ RunServes(r)
    BY RunFacts DEF Serving
<1>2. r.task = "script" /\ r.queue # <<>> /\ UNCHANGED <<chainVars, late>>
    BY <1>1 DEF Preflight, Waiting
<1>3. CASE ~ Succeeds(Head(r.queue), r.signer)
    <2>1. run' = [run EXCEPT ![o] = Ended("failed")]
        BY <1>1, <1>3 DEF Preflight, Inv, Typed
    <2> QED
        BY <1>2, <2>1, FailureServes
<1>4. CASE Succeeds(Head(r.queue), r.signer)
    <2>1. PICK new : new = [r EXCEPT !.sent = TRUE]
        OBVIOUS
    <2>2. run' = [run EXCEPT ![o] = new]
        BY <1>1, <1>4, <2>1 DEF Preflight, Inv, Typed
    <2>3. /\ new.queue = r.queue /\ new.pc = r.pc /\ new.task = "script"
          /\ new.goal = r.goal /\ new.signer = r.signer /\ new.clean = r.clean
        BY <1>2, <2>1 DEF Runs
    <2>4. Wanted(new) = Wanted(r)
        BY <2>3 DEF Wanted
    <2>5. ScriptRun(new, Wanted(r))
        <3>1. Reached(r, Wanted(r)) /\ Pending(r, Wanted(r))
            BY <1>1, <1>2 DEF RunServes, ScriptRun
        <3>2. Head(r.queue).uses \subseteq accounts
            BY <1>4 DEF Succeeds
        <3> QED
            BY <1>2, <1>4, <2>3, <3>1, <3>2 DEF ScriptRun, Reached, Pending
    <2>6. RunServes(new)
        BY <1>1, <2>3, <2>4, <2>5 DEF RunServes, WireRun
    <2>7. Serving'
        BY <1>2, <2>2, <2>6, OneRunServes
    <2>8. run'[o].pc = run[o].pc
        BY <1>1, <2>2, <2>3 DEF Inv, Typed
    <2> QED
        BY <2>7, <2>8, StillBusy
<1> QED
    BY <1>3, <1>4

LEMMA RejectServes ==
    ASSUME Inv, Serving, NEW o \in Operators, Reject(o)
    PROVE  Serving' /\ Reports(o)
<1>1. PICK r \in Runs : r = run[o] /\ RunTyped(r) /\ RunServes(r)
    BY RunFacts DEF Serving
<1>2. /\ UNCHANGED <<chainVars, late>> /\ ~ Succeeds(Head(r.queue), r.signer)
      /\ r.task = "script" => r.sent
      /\ run' = [run EXCEPT ![o] = IF r.task = "script" THEN Advanced(r) ELSE Ended("failed")]
    BY <1>1 DEF Reject, InFlight, Inv, Typed
<1>3. CASE r.task # "script"
    <2>1. run' = [run EXCEPT ![o] = Ended("failed")]
        BY <1>2, <1>3
    <2> QED
        BY <1>2, <2>1, FailureServes
<1>4. CASE r.task = "script"
    <2>1. r.pc \in ScriptPcs /\ Pending(r, Wanted(r)) /\ r.sent = TRUE
        BY <1>1, <1>2, <1>4 DEF RunTyped, RunServes, ScriptRun, Runs
    <2>2. Left(r, Wanted(r))
        BY <1>2, <2>1, StepRejected
    <2>3. run' = [run EXCEPT ![o] = Advanced(run[o])]
        BY <1>1, <1>2, <1>4
    <2> QED
        BY <1>1, <1>2, <1>4, <2>2, <2>3, MovesOn
<1> QED
    BY <1>3, <1>4

LEMMA GiveUpServes ==
    ASSUME Inv, Serving, NEW o \in Operators, GiveUp(o)
    PROVE  Serving' /\ Reports(o)
<1>1. PICK r \in Runs : r = run[o] /\ RunServes(r) /\ r.queue \in Seq(Txs)
    BY RunFacts DEF Serving
<1>2. run' = [run EXCEPT ![o] = Ended("failed")] /\ UNCHANGED chainVars
    BY DEF GiveUp
<1>3. ASSUME NEW p \in Operators, late'[p] # NONE
      PROVE  late'[p] = late[p] \/ SoundTx(late'[p].tx)
    <2>1. CASE UNCHANGED late
        BY <2>1
    <2>2. CASE InFlight(o)
               /\ late' = [late EXCEPT ![o] = [tx |-> Head(run[o].queue),
                                               signer |-> run[o].signer]]
        <3>1. SoundTx(Head(r.queue))
            <4>1. r.queue # <<>>
                BY <1>1, <2>2 DEF InFlight, Waiting
            <4>2. Head(r.queue) \in Range(r.queue)
                BY <1>1, <4>1, RangeHeadTail
            <4> QED
                BY <1>1, <4>2 DEF RunServes
        <3>2. CASE p = o
            <4>1. late'[p].tx = Head(r.queue)
                BY <1>1, <2>2, <3>2 DEF Inv, Typed
            <4> QED
                BY <3>1, <4>1
        <3>3. CASE p # o
            BY <2>2, <3>3 DEF Inv, Typed
        <3> QED
            BY <3>2, <3>3
    <2> QED
        BY <2>1, <2>2 DEF GiveUp
<1> QED
    BY <1>2, <1>3, FailureServes
-----------------------------------------------------------------------------
(***************************************************************************)
(* Steps that change the chain.                                            *)
(***************************************************************************)

\* The chain has executed a sound transaction, and all runs serve.
LEMMA ChainMovesSoundly ==
    ASSUME Inv, Serving, NEW tx, SoundTx(tx), tx.uses \subseteq accounts, Execute(tx),
           \A p \in Operators : \E d : run'[p] = d /\ RunServes(d)',
           \A p \in Operators : late'[p] \in {NONE, late[p]}
    PROVE  Serving'
<1>1. ChainSound'
    BY ChainStaysSound DEF Inv, Typed, Serving
<1>2. kind' = kind
    BY DEF Execute
<1>3. ASSUME NEW p \in Operators
      PROVE  RunServes(run[p])'
    <2>1. PICK d : run'[p] = d /\ RunServes(d)'
        OBVIOUS
    <2> QED
        BY <2>1 DEF RunServes, WireRun, ScriptRun, Wanted, Leads, PeersLead, UlnsLead,
                    OptionsLead, DelegateLeads, Reached, Pending
<1>4. ASSUME NEW p \in Operators, late'[p] # NONE
      PROVE  SoundTx(late[p].tx)'
    <2>1. late'[p] = late[p] /\ SoundTx(late[p].tx)
        BY <1>4 DEF Serving
    <2> QED
        BY <1>2, <2>1 DEF SoundTx
<1> QED
    BY <1>1, <1>3, <1>4 DEF Serving

LEMMA LandLateServes ==
    ASSUME Inv, Serving, NEW o \in Operators, LandLate(o)
    PROVE  Serving' /\ \A p \in Operators : Reports(p)
<1>1. /\ run \in [Operators -> Runs] /\ late \in [Operators -> {NONE} \cup LateTxs]
      /\ late[o] # NONE /\ late' = [late EXCEPT ![o] = NONE]
    BY DEF Inv, Typed, LandLate
<1>2. \A p \in Operators : late'[p] \in {NONE, late[p]}
    BY <1>1
<1>3. CASE UNCHANGED <<chainVars, run>>
    <2>1. PICK r : r = run[o]
        OBVIOUS
    <2>2. run' = [run EXCEPT ![o] = r] /\ RunServes(r)
        BY <1>1, <1>3, <2>1 DEF Serving
    <2>3. Serving'
        BY <1>2, <1>3, <2>2, OneRunServes
    <2>4. \A p \in Operators : run'[p].pc = run[p].pc
        BY <1>3
    <2> QED
        BY <2>3, <2>4, StillBusy
<1>4. CASE /\ Succeeds(late[o].tx, late[o].signer) /\ Execute(late[o].tx)
           /\ run' = [p \in Operators |-> [run[p] EXCEPT !.clean = FALSE]]
    <2>1. PICK tx : tx = late[o].tx
        OBVIOUS
    <2>2. /\ SoundTx(tx) /\ tx.uses \subseteq accounts /\ Execute(tx)
          /\ kind' = kind /\ accounts \subseteq accounts'
        BY <1>1, <1>4, <2>1 DEF Serving, Succeeds, Execute
    <2>3. ASSUME NEW p \in Operators
          PROVE  (\E d : run'[p] = d /\ RunServes(d)') /\ run'[p].pc = run[p].pc
        <3>1. PICK r \in Runs : r = run[p] /\ RunServes(r)
            BY <1>1 DEF Serving
        <3>2. PICK d : d = [r EXCEPT !.clean = FALSE]
            OBVIOUS
        <3>3. run'[p] = d
            BY <1>4, <3>1, <3>2
        <3>4. RunServes(d)'
            BY <2>2, <3>1, <3>2, Disturbs
        <3>5. d.pc = r.pc
            BY <3>2 DEF Runs
        <3> QED
            BY <3>1, <3>3, <3>4, <3>5
    <2>4. Serving'
        BY <1>2, <2>2, <2>3, ChainMovesSoundly
    <2> QED
        BY <2>3, <2>4, StillBusy
<1> QED
    BY <1>3, <1>4 DEF LandLate

\* What becomes of the run whose transaction is executed.
LEMMA ConfirmedRun ==
    ASSUME ChainTypeOK, ChainSound, NEW r \in Runs, RunTyped(r), RunServes(r), r.queue # <<>>,
           r.pc # "rest", NEW tx, tx = Head(r.queue), tx.uses \subseteq accounts, Execute(tx),
           r.pc \notin {"done", "failed"} => Wanted(r) \in Configurations,
           NEW wanted, wanted = Wanted(r)
    PROVE  /\ RunServes(Advanced(r))'
           /\ Advanced(r).pc = "done" => Achieved(r, wanted)'
<1>1. PICK q \in Seq(Txs) : q = r.queue /\ q # <<>>
    BY DEF Runs
<1>2. /\ Range(Tail(q)) \subseteq Range(q) /\ tx \in Range(q)
      /\ Tail(q) \in Seq(Txs) /\ (Len(q) = 1 => Tail(q) = <<>>)
    BY <1>1, RangeHeadTail
<1>3. kind' = kind /\ accounts \subseteq accounts'
    BY DEF Execute
<1>4. PICK new : new = Advanced(r)
    OBVIOUS
<1>5. CASE r.task = "script"
    <2>1. r.pc \in ScriptPcs /\ Reached(r, wanted) /\ Pending(r, wanted)
        BY <1>5 DEF RunTyped, RunServes, ScriptRun
    <2>2. PICK t : t = ScriptTx(r.pc, r.signer, wanted)
        OBVIOUS
    <2>3. r.queue = <<t>>
        BY <2>1, <2>2 DEF Pending
    <2>4. tx = t
        BY <2>3
    <2>5. Reached(r, wanted)' /\ Left(r, wanted)'
        BY <2>1, <2>2, <2>4, ReachedStays, StepExecuted
    <2>6. /\ After(r.pc) # "done" =>
                /\ new = [r EXCEPT !.pc = After(@), !.queue = <<>>, !.sent = FALSE]
                /\ ScriptRun(new, wanted)'
          /\ After(r.pc) = "done" => new = Ended("done")
          /\ new.pc = "done" => Achieved(r, wanted)'
        BY <1>4, <1>5, <2>1, <2>5, Advances, Zenon
    <2>7. RunServes(new)'
        <3>1. CASE After(r.pc) # "done"
            <4>1. /\ new.queue = <<>> /\ new.task = "script" /\ new.goal = r.goal
                BY <1>5, <2>6, <3>1 DEF Runs
            <4>2. Wanted(new)' = wanted
                BY <1>3, <4>1 DEF Wanted
            <4>3. new.task = "script" => Reached(new, wanted)' /\ Pending(new, wanted)'
                BY <2>6, <3>1 DEF ScriptRun
            <4>4. \A s \in Range(new.queue) : SoundTx(s)'
                BY <4>1, RangeEmpty
            <4>5. WireRun(new, Wanted(new))'
                BY <4>1 DEF WireRun
            <4>6. ScriptRun(new, Wanted(new))'
                BY <4>2, <4>3 DEF ScriptRun
            <4> QED
                BY <4>4, <4>5, <4>6 DEF RunServes
        <3>2. CASE After(r.pc) = "done"
            <4>1. RunServes(Ended("done"))'
                BY EndedServes
            <4>2. new = Ended("done")
                BY <2>6, <3>2
            <4> QED
                BY <4>1, <4>2 DEF Ended, RunServes, WireRun, ScriptRun
        <3> QED
            BY <3>1, <3>2
    <2> QED
        BY <1>4, <2>6, <2>7 DEF RunServes, WireRun, ScriptRun, Wanted, Leads, PeersLead,
                                UlnsLead, OptionsLead, DelegateLeads, Reached, Pending
<1>6. CASE r.task # "script"
    <2>1. \A t \in Range(q) : SoundTx(t) /\ SoundTx(t)'
        BY <1>1, <1>3 DEF RunServes, SoundTx
    <2>2. ASSUME r.task = "wire", r.clean
          PROVE  Leads(Tail(q), wanted)'
        <3>1. r.pc = "send"
            BY <1>1, <2>2 DEF RunServes, WireRun
        <3>2. Leads(q, wanted)
            BY <1>1, <2>2, <3>1 DEF RunServes, WireRun
        <3>3. Execute(Head(q))
            BY <1>1
        <3> QED
            BY <1>1, <3>2, <3>3, LeadsOn
    <2>3. CASE Len(q) = 1
        <3>1. new = Ended("done")
            BY <1>1, <1>4, <1>6, <2>3 DEF Advanced
        <3>2. RunServes(Ended("done"))'
            BY EndedServes
        <3>3. RunServes(Advanced(r))'
            BY <1>4, <3>1, <3>2 DEF Ended, RunServes, WireRun, ScriptRun
        <3>4. r.task = "wire" /\ r.clean => WiredAs(wanted)'
            <4>1. Tail(q) = <<>>
                BY <1>2, <2>3
            <4> QED
                BY <2>2, <4>1, LeadsDone
        <3> QED
            BY <1>6, <3>3, <3>4 DEF Achieved
    <2>4. CASE Len(q) # 1
        <3>1. new = [r EXCEPT !.queue = Tail(q)]
            BY <1>1, <1>4, <1>6, <2>4 DEF Advanced
        <3>2. /\ new.queue = Tail(q) /\ new.pc = r.pc /\ new.task = r.task
              /\ new.clean = r.clean /\ new.goal = r.goal
            BY <3>1 DEF Runs
        <3>3. Wanted(new)' = wanted
            BY <1>3, <3>2 DEF Wanted
        <3>4. WireRun(new, wanted)'
            BY <2>2, <3>2 DEF RunServes, WireRun
        <3>5. RunServes(new)'
            BY <1>2, <1>6, <2>1, <3>2, <3>3, <3>4 DEF RunServes, ScriptRun
        <3>6. ASSUME new.pc = "done"
              PROVE  Achieved(r, wanted)'
            <4>1. r.task # "wire"
                BY <3>2, <3>6 DEF RunServes, WireRun
            <4> QED
                BY <1>6, <4>1 DEF Achieved
        <3> QED
            BY <1>4, <3>5, <3>6 DEF RunServes, WireRun, ScriptRun, Wanted, Leads, PeersLead,
                                    UlnsLead, OptionsLead, DelegateLeads, Reached, Pending
    <2> QED
        BY <2>3, <2>4
<1> QED
    BY <1>5, <1>6

LEMMA ConfirmServes ==
    ASSUME Inv, Serving, NEW o \in Operators, Confirm(o)
    PROVE  Serving' /\ \A p \in Operators : Reports(p)
<1>1. PICK r \in Runs : r = run[o] /\ RunTyped(r) /\ RunServes(r)
    BY RunFacts DEF Serving
<1>2. PICK tx : tx = Head(r.queue)
    OBVIOUS
<1>3. /\ r.queue # <<>> /\ r.pc # "rest" /\ Succeeds(tx, r.signer) /\ Execute(tx)
      /\ late' = late
    BY <1>1, <1>2 DEF Confirm, InFlight, Waiting
<1>4. /\ tx.uses \subseteq accounts /\ SoundTx(tx)
      /\ kind' = kind /\ accounts \subseteq accounts'
    <2>1. r.queue \in Seq(Txs)
        BY DEF Runs
    <2>2. tx \in Range(r.queue)
        BY <1>2, <1>3, <2>1, RangeHeadTail
    <2> QED
        BY <1>1, <1>3, <2>2 DEF Succeeds, RunServes, Execute
<1>5. PICK wanted : wanted = Wanted(r)
    OBVIOUS
<1>6. r.pc \notin {"done", "failed"} => Wanted(r) \in Configurations
    BY <1>1, RunFacts
<1>7. ChainTypeOK /\ ChainSound
    BY DEF Inv, Typed, Serving
<1>8. PICK new : new = Advanced(r)
    OBVIOUS
<1>9. RunServes(Advanced(r))' /\ (Advanced(r).pc = "done" => Achieved(r, wanted)')
    BY <1>1, <1>2, <1>3, <1>4, <1>5, <1>6, <1>7, ConfirmedRun
<1>10. RunServes(new)' /\ (new.pc = "done" => Achieved(r, wanted)')
    BY <1>8, <1>9 DEF RunServes, WireRun, ScriptRun, Wanted, Leads, PeersLead, UlnsLead,
                      OptionsLead, DelegateLeads, Reached, Pending
<1>11. ASSUME NEW p \in Operators
       PROVE  run'[p] = IF p = o THEN new ELSE [run[p] EXCEPT !.clean = FALSE]
    <2> DEFINE d == Disturbed(o)
    <2>1. DOMAIN d = Operators /\ d[p] = [run[p] EXCEPT !.clean = run[p].clean /\ p = o]
        BY DEF Disturbed
    <2>2. d[o] = [r EXCEPT !.clean = r.clean /\ TRUE]
        BY <1>1 DEF Disturbed
    <2>3. d[o] = r
        BY <2>2 DEF Runs
    <2>4. run' = [d EXCEPT ![o] = Advanced(d[o])]
        BY DEF Confirm
    <2>5. p # o => (run[p].clean /\ p = o) = FALSE
        OBVIOUS
    <2> HIDE DEF d
    <2> QED
        BY <1>8, <2>1, <2>3, <2>4, <2>5
<1>12. ASSUME NEW p \in Operators, p # o
       PROVE  (\E d : run'[p] = d /\ RunServes(d)') /\ run'[p].pc = run[p].pc
    <2>1. PICK s \in Runs : s = run[p] /\ RunServes(s)
        BY RunFacts DEF Serving
    <2>2. PICK d : d = [s EXCEPT !.clean = FALSE]
        OBVIOUS
    <2>3. run'[p] = d
        BY <1>11, <1>12, <2>1, <2>2
    <2>4. RunServes(d)'
        BY <1>4, <2>1, <2>2, Disturbs
    <2>5. d.pc = s.pc
        BY <2>2 DEF Runs
    <2> QED
        BY <2>1, <2>3, <2>4, <2>5
<1>13. \A p \in Operators : \E d : run'[p] = d /\ RunServes(d)'
    <2> TAKE p \in Operators
    <2>1. CASE p = o
        BY <1>10, <1>11, <2>1
    <2>2. CASE p # o
        BY <1>12, <2>2
    <2> QED
        BY <2>1, <2>2
<1>14. Serving'
    BY <1>3, <1>4, <1>13, ChainMovesSoundly
<1>15. Reports(o)
    <2>1. run'[o] = new
        BY <1>11
    <2> QED
        BY <1>1, <1>5, <1>10, <2>1 DEF Reports
<1>16. \A p \in Operators : p # o => Reports(p)
    BY <1>12, StillBusy
<1> QED
    BY <1>14, <1>15, <1>16

\* Nothing that the runs rest on changes.
LEMMA NothingMoves ==
    ASSUME Inv, Serving, UNCHANGED <<chainVars, run, late>>
    PROVE  Serving' /\ \A p \in Operators : Reports(p)
<1>1. ASSUME NEW p \in Operators
      PROVE  RunServes(run[p])'
    <2>1. PICK s : s = run[p] /\ s = run'[p]
        OBVIOUS
    <2>2. RunServes(s)'
        BY <2>1, SameChain DEF Serving
    <2> QED
        BY <2>1, <2>2 DEF RunServes, WireRun, ScriptRun, Wanted, Leads, PeersLead, UlnsLead,
                          OptionsLead, DelegateLeads, Reached, Pending
<1>2. Serving'
    BY <1>1 DEF Serving, ChainSound, SoundTx, chainVars
<1>3. \A p \in Operators : Reports(p)
    BY StillBusy
<1> QED
    BY <1>2, <1>3

\* A step of one operator that touches no other run.
LEMMA OthersKeep ==
    ASSUME Inv, Serving, NEW o \in Operators, NEW p \in Operators, p # o,
           \E r : run' = [run EXCEPT ![o] = r]
    PROVE  Reports(p)
<1>1. run'[p] = run[p]
    BY DEF Inv, Typed
<1> QED
    BY <1>1, StillBusy

LEMMA NextServes ==
    ASSUME Inv, Serving, [Next]_vars
    PROVE  Serving' /\ \A p \in Operators : Reports(p)
<1>1. CASE NextGoal \/ UNCHANGED vars
    BY <1>1, NothingMoves DEF NextGoal, vars
<1>2. ASSUME NEW o \in Operators, NEW task \in WiringTasks \cup AdminTasks, NEW key \in Keys,
             Start(o, task, key)
      PROVE  Serving' /\ \A p \in Operators : Reports(p)
    BY <1>2, StartServes, OthersKeep DEF Start
<1>3. ASSUME NEW o \in Operators, CollectPeers(o)
      PROVE  Serving' /\ \A p \in Operators : Reports(p)
    <2>1. \E r : run' = [run EXCEPT ![o] = r]
        BY <1>3 DEF CollectPeers, Inv, Typed
    <2> QED
        BY <1>3, <2>1, CollectPeersServes, OthersKeep
<1>4. ASSUME NEW o \in Operators, CollectRest(o)
      PROVE  Serving' /\ \A p \in Operators : Reports(p)
    BY <1>4, CollectRestServes, OthersKeep DEF CollectRest
<1>5. ASSUME NEW o \in Operators, ScriptLooks(o)
      PROVE  Serving' /\ \A p \in Operators : Reports(p)
    BY <1>5, ScriptLooksServes, OthersKeep DEF ScriptLooks
<1>6. ASSUME NEW o \in Operators, Preflight(o)
      PROVE  Serving' /\ \A p \in Operators : Reports(p)
    BY <1>6, PreflightServes, OthersKeep DEF Preflight
<1>7. ASSUME NEW o \in Operators, Confirm(o)
      PROVE  Serving' /\ \A p \in Operators : Reports(p)
    BY <1>7, ConfirmServes
<1>8. ASSUME NEW o \in Operators, Reject(o)
      PROVE  Serving' /\ \A p \in Operators : Reports(p)
    BY <1>8, RejectServes, OthersKeep DEF Reject
<1>9. ASSUME NEW o \in Operators, GiveUp(o)
      PROVE  Serving' /\ \A p \in Operators : Reports(p)
    BY <1>9, GiveUpServes, OthersKeep DEF GiveUp
<1>10. ASSUME NEW o \in Operators, LandLate(o)
       PROVE  Serving' /\ \A p \in Operators : Reports(p)
    BY <1>10, LandLateServes
<1> QED
    BY <1>1, <1>2, <1>3, <1>4, <1>5, <1>6, <1>7, <1>8, <1>9, <1>10 DEF Next

LEMMA InitServes ==
    ASSUME Init
    PROVE  Serving
<1>1. \A o \in Operators : run[o] = Ended("done") /\ late[o] = NONE
    BY DEF Init
<1>2. ChainSound
    BY DEF Init, ChainInit, ChainSound
<1> QED
    BY <1>1, <1>2, EndedServes DEF Serving

(***************************************************************************)
(* A run of the wire task that ends without an error, and was not          *)
(* disturbed, has brought the chain to the configuration it had loaded;    *)
(* and so has the script, which even disturbed leaves the store, the       *)
(* receive library and the ULN accounts behind.                            *)
(***************************************************************************)
THEOREM SuccessIsTrue == Spec => SuccessMeansDone
<1> DEFINE Told ==
        \A o \in Operators, g \in DOMAIN Goals[kind] :
            /\ Completes(o, "wire", g) /\ run[o].clean => WiredAs(Goals[kind][g])'
            /\ Completes(o, "script", g) => ScriptAccounts \subseteq accounts'
            /\ Completes(o, "script", g) /\ run[o].clean => ScriptedAs(Goals[kind][g])'
<1>1. Inv /\ Serving /\ [Next]_vars => Told
    <2> SUFFICES ASSUME Inv, Serving, [Next]_vars, NEW o \in Operators,
                        NEW g \in DOMAIN Goals[kind]
                 PROVE  /\ Completes(o, "wire", g) /\ run[o].clean => WiredAs(Goals[kind][g])'
                        /\ Completes(o, "script", g) => ScriptAccounts \subseteq accounts'
                        /\ Completes(o, "script", g) /\ run[o].clean =>
                              ScriptedAs(Goals[kind][g])'
        OBVIOUS
    <2>1. PICK r : r = run[o]
        OBVIOUS
    <2>2. PICK wanted : wanted = Goals[kind][g]
        OBVIOUS
    <2>3. kind' = kind
        BY DEF Next, vars, chainVars, Start, CollectPeers, CollectRest, ScriptLooks, Preflight,
               Confirm, Reject, GiveUp, LandLate, NextGoal, Execute
    <2>4. ASSUME r.goal = g, run'[o].pc = "done"
          PROVE  Achieved(r, wanted)'
        <3>1. Reports(o) /\ wanted = Wanted(r)
            BY <2>2, <2>4, NextServes DEF Wanted
        <3> QED
            BY <2>1, <2>4, <3>1 DEF Reports
    <2>5. /\ Completes(o, "wire", g) /\ run[o].clean => WiredAs(wanted)'
          /\ Completes(o, "script", g) => ScriptAccounts \subseteq accounts'
          /\ Completes(o, "script", g) /\ run[o].clean => ScriptedAs(wanted)'
        BY <2>1, <2>4 DEF Completes, Achieved, ScriptAccounts
    <2>6. wanted = Goals[kind'][g]
        BY <2>2, <2>3
    <2> QED
        BY <2>5, <2>6 DEF WiredAs, ScriptedAs, IsDelegate, BySdk, OFTIsDelegate, OAppIsDelegate
<1>2. Inv /\ Serving /\ [Next]_vars => Inv' /\ Serving'
    BY NextInv, NextServes
<1>3. Init => Inv /\ Serving
    BY InitInv, InitServes
<1>4. Inv /\ Serving /\ [Next]_vars => [Told]_vars
    BY <1>1
<1> QED
    BY <1>2, <1>3, <1>4, PTL DEF Spec, SuccessMeansDone
=============================================================================
