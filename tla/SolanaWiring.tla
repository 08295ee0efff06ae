----------------------------- MODULE SolanaWiring -----------------------------
(***************************************************************************)
(* Operators wire a Solana application: they run hardhat tasks and scripts *)
(* from their machines, several at a time, each with a key of its own.     *)
(*                                                                         *)
(* A task first reads the chain and builds the transactions that lead from *)
(* what it read to what the configuration file (`Goal`) asks for, then     *)
(* signs and sends them one by one, waiting for each, and stops at the     *)
(* first that fails.  It reads the peers before everything else, so what   *)
(* it knows may be old, and of different ages, when it sends.  A run may   *)
(* be interrupted anywhere; a transaction it has given up, because the     *)
(* confirmation timed out, may still land, during a later run too.         *)
(***************************************************************************)
EXTENDS SolanaOAppChain, FiniteSets, Integers, Sequences, SequencesExt

CONSTANTS
    Operators,      \* who runs tasks
    Main,           \* the operator who keeps trying
    Wallet,         \* the key in SOLANA_PRIVATE_KEY, creator of the application
    Goals,          \* for each kind, the configurations asked for in turn
    ScriptEid,      \* the one remote in the script's list
    MaxExtraRuns    \* bound on the runs of the others, and on Main's other tasks

\* What the configuration files say; verifiers and options are the same for all
\* remotes in them.
Configurations ==
    [peer : [Eids -> Addrs], options : OptionSets, uln : UlnConfigs, delegate : Keys,
     owner : Keys]

ASSUME WiringAssumption ==
    /\ Main \in Operators
    /\ Wallet \in Keys
    /\ ScriptEid \in Eids
    /\ IsFiniteSet(Eids)
    /\ MaxExtraRuns \in Nat
    /\ Goals \in [{"OFT", "Governance"} -> Seq(Configurations) \ {<<>>}]

VARIABLES
    goalNo,     \* which of the configurations holds
    run,        \* for each operator, the run in progress
    late,       \* for each operator, the last transaction given up, or NONE
    extraRuns   \* how many bounded runs were started

vars == <<chainVars, goalNo, run, late, extraRuns>>

Goal == Goals[kind][goalNo]

\* The configuration a run has loaded.
Wanted(r) == Goals[kind][r.goal]

WiringTasks == {"init-config", "wire", "transfer", "script"}
AdminTasks == {"inbound-rate-limit", "outbound-rate-limit", "set-pauser", "set-unpauser"}

Ended(how) ==
    [pc |-> how, task |-> NONE, signer |-> NONE, goal |-> 0, queue |-> <<>>, sent |-> FALSE,
     clean |-> FALSE]

\* The steps of the script for its remote, and what follows each.
ScriptSteps ==
    <<"initGovernance", "setPeers", "initReceiveLibrary", "initOAppNonce",
      "setReceiveLibrary", "initReceiveConfig", "setReceiveConfig", "done">>

After(step) == ScriptSteps[CHOOSE n \in 2..Len(ScriptSteps) : ScriptSteps[n - 1] = step]

Pcs == {"failed", "peers", "rest", "send"} \cup Range(ScriptSteps)

TypeOK ==
    /\ ChainTypeOK
    /\ goalNo \in DOMAIN Goals[kind]
    /\ \A o \in Operators :
        /\ run[o].pc \in Pcs
        /\ run[o].task \in WiringTasks \cup AdminTasks \cup {NONE}
        /\ run[o].signer \in Keys \cup {NONE}
        /\ \A i \in 1..Len(run[o].queue) : run[o].queue[i].creates \subseteq Accounts
        /\ run[o].goal \in 0..goalNo
        /\ run[o].sent \in BOOLEAN /\ run[o].clean \in BOOLEAN
        /\ late[o] = NONE \/ late[o].tx.creates \subseteq Accounts
    /\ extraRuns \in 0..MaxExtraRuns

Init ==
    /\ ChainInit(Wallet)
    /\ goalNo = 1
    /\ run = [o \in Operators |-> Ended("done")]
    /\ late = [o \in Operators |-> NONE]
    /\ extraRuns = 0

-----------------------------------------------------------------------------
(***************************************************************************)
(* The instructions of the OFT program: its settings and those of a peer,  *)
(* which the admin that is read from the chain signs.                      *)
(***************************************************************************)
SetOFTConfig(what, key) == Tx(what, key, owner, NONE, {}, {Store})
SetPeerConfig(what, value) == Tx(what, value, owner, NONE, {}, {Store})

(***************************************************************************)
(* The instructions of the governance program.                             *)
(***************************************************************************)
InitGovernance(key) == Tx("initGovernance", key, NONE, NONE, {Store}, {})
SetRemote(admin, e, addr) ==
    Tx("setPeer", [eid |-> e, addr |-> addr], admin, NONE, {}, {Store})
SetAdmin(admin, key) == Tx("setOwner", key, admin, NONE, {}, {Store})
SetDelegate(admin, key) == Tx("setDelegate", key, admin, NONE, {}, {Store})

(***************************************************************************)
(* The accounts that the instructions of the endpoint create.              *)
(***************************************************************************)
InitOAppNonce(e, addr) == {Nonce(e, addr)}
InitSendLibrary(e) == {SendLibrary(e)}
InitReceiveLibrary(e) == {ReceiveLibrary(e)}
InitConfig(e) == {UlnAccounts(e)}

(***************************************************************************)
(* The transactions the SDKs build, from the chain as it is read.  setPeer *)
(* of the OFT creates the accounts that are missing; that of the           *)
(* governance OApp always creates the nonce account.                       *)
(***************************************************************************)
Missing(ids) == ids \ accounts
OAppMissing(ids) == ids \ accounts

\* Mutant: looks for the nonce of the peer in place.
OFTSetPeerNonceOfPeer(e, addr) ==
    LET creates == Missing({SendLibrary(e), ReceiveLibrary(e)}
                       \cup IF peer[e] = NONE THEN {Nonce(e, addr)} ELSE {Nonce(e, peer[e])})
    IN [SetPeerConfig("setPeer", [eid |-> e, addr |-> addr]) EXCEPT
           !.delegate = IF creates = {} THEN NONE ELSE delegate, !.creates = creates]

OFTSetPeer(e, addr) ==
    LET creates == Missing({SendLibrary(e), ReceiveLibrary(e), Nonce(e, addr)})
    IN [SetPeerConfig("setPeer", [eid |-> e, addr |-> addr]) EXCEPT
           !.delegate = IF creates = {} THEN NONE ELSE delegate, !.creates = creates]

OAppSetPeer(e, addr) ==
    [SetRemote(owner, e, addr) EXCEPT
        !.delegate = delegate,
        !.creates = InitOAppNonce(e, addr)
                        \cup OAppMissing(InitSendLibrary(e) \cup InitReceiveLibrary(e))]

OFTInitConfig(e) ==
    Tx("init", NONE, NONE, delegate,
       Missing({UlnAccounts(e), SendLibrary(e), ReceiveLibrary(e)}), {Store})

OAppInitConfig(e) == Tx("init", NONE, NONE, delegate, InitConfig(e), {Store})

\* The last of the options given for an endpoint counts.
OFTSetEnforcedOptions(wanted) == SetPeerConfig("setOptions", wanted)

OFTSetOwner(key) == SetOFTConfig("setOwner", key)
OFTSetDelegate(key) == SetOFTConfig("setDelegate", key)
OAppSetOwner(key) == SetAdmin(owner, key)
OAppSetDelegate(key) == SetDelegate(owner, key)

\* The endpoint SDK's transaction that sets the ULN configuration.
SetUln(e, config) ==
    Tx("setUln", [eid |-> e, config |-> config], NONE, delegate, {}, {UlnAccounts(e)})

(***************************************************************************)
(* Whether a pathway is initialised: the OFT's SDK looks at the library    *)
(* accounts too, the governance OApp's at the ULN configuration only.      *)
(***************************************************************************)
OFTConfigIsInitialized(e) ==
    {Store, SendLibrary(e), ReceiveLibrary(e), UlnAccounts(e)} \subseteq accounts

OAppConfigIsInitialized(e) == UlnAccounts(e) \in accounts

\* Mutant: any peer will do.
OFTHasPeerAny(e, addr) == peer[e] # NONE

OFTHasPeer(e, addr) == peer[e] = addr

\* The remote account of the governance OApp.
GetPeer(e) == peer[e]

OAppHasPeer(e, addr) == GetPeer(e) = addr
OFTHasOwner(key) == owner = key
OAppHasOwner(key) == owner = key
OFTIsDelegate(key) == delegate = key
OAppIsDelegate(key) == delegate = key

\* Mutant: an account that exists is taken for one with options.
OFTHasEnforcedOptionsAny(e, wanted) == peer[e] # NONE

OFTHasEnforcedOptions(e, wanted) == options[e] = wanted

\* The SDK of the application answers.
BySdk(oft, oapp) == IF kind = "OFT" THEN oft ELSE oapp

HasPeer(e, addr) == BySdk(OFTHasPeer(e, addr), OAppHasPeer(e, addr))
HasOwner(key) == BySdk(OFTHasOwner(key), OAppHasOwner(key))
IsDelegate(key) == BySdk(OFTIsDelegate(key), OAppIsDelegate(key))

(***************************************************************************)
(* What each task collects.                                                *)
(***************************************************************************)
Select(Test(_), Make(_)) ==
    LET eids == SetToSeq({e \in Eids : Test(e)}) IN [i \in 1..Len(eids) |-> Make(eids[i])]

OneIf(test, tx) == IF test THEN <<tx>> ELSE <<>>

InitConfigTransactions ==
    BySdk(Select(LAMBDA e : ~ OFTConfigIsInitialized(e), OFTInitConfig),
          Select(LAMBDA e : ~ OAppConfigIsInitialized(e), OAppInitConfig))

PeerTransactions(wanted) ==
    LET SetPeer(e) == BySdk(OFTSetPeer(e, wanted.peer[e]), OAppSetPeer(e, wanted.peer[e]))
    IN Select(LAMBDA e : ~ HasPeer(e, wanted.peer[e]), SetPeer)

UlnTransactions(wanted) ==
    Select(LAMBDA e : uln[e] # wanted.uln, LAMBDA e : SetUln(e, wanted.uln))

OptionTransactions(wanted) ==
    LET differing == {e \in Eids : ~ OFTHasEnforcedOptions(e, wanted.options)}
    IN OneIf(kind = "OFT" /\ differing # {},
             OFTSetEnforcedOptions([e \in differing |-> wanted.options]))

DelegateTransactions(wanted) ==
    OneIf(~ IsDelegate(wanted.delegate),
          BySdk(OFTSetDelegate(wanted.delegate), OAppSetDelegate(wanted.delegate)))

OwnerTransactions(wanted) ==
    OneIf(~ HasOwner(wanted.owner),
          BySdk(OFTSetOwner(wanted.owner), OAppSetOwner(wanted.owner)))

SetLimit(d, signer, e, limit) ==
    Tx("setLimit", [direction |-> d, eid |-> e, limit |-> limit], signer, NONE, {}, {Store})

SetInboundRateLimit(signer, e, limit) == SetLimit("inbound", signer, e, limit)
SetOutboundRateLimit(signer, e, limit) == SetLimit("outbound", signer, e, limit)

\* An empty argument removes the role.
SetPauser(signer, key) == Tx("setPauser", key, signer, NONE, {}, {Store})
SetUnpauser(signer, key) == Tx("setUnpauser", key, signer, NONE, {}, {Store})

AdminTransactions(task, signer) ==
    CASE task = "inbound-rate-limit" ->
            {SetInboundRateLimit(signer, e, l) : e \in Eids, l \in Limits}
      [] task = "outbound-rate-limit" ->
            {SetOutboundRateLimit(signer, e, l) : e \in Eids, l \in Limits}
      [] task = "set-pauser" -> {SetPauser(signer, key) : key \in {signer, NONE}}
      [] task = "set-unpauser" -> {SetUnpauser(signer, key) : key \in {signer, NONE}}

(***************************************************************************)
(* Two ULN configurations are the same to the script when the confirmations*)
(* and the numbers of verifiers are.                                       *)
(***************************************************************************)
EqualULNConfig(c, d) ==
    /\ c.confirmations = d.confirmations
    /\ c.optionalDvnThreshold = d.optionalDvnThreshold
    /\ Cardinality(c.requiredDvns) = Cardinality(d.requiredDvns)
    /\ Cardinality(c.optionalDvns) = Cardinality(d.optionalDvns)

(***************************************************************************)
(* The script's steps for its remote, in their order: each holds already,  *)
(* or sends one transaction, which the script's key signs as the admin or  *)
(* as the delegate whoever these are.                                      *)
(***************************************************************************)
ScriptInitGovernance(key) ==
    [holds |-> Store \in accounts, tx |-> InitGovernance(key)]

ScriptSetPeers(key, addr) ==
    [holds |-> peer[ScriptEid] = addr, tx |-> SetRemote(key, ScriptEid, addr)]

ScriptCreate(key, id) ==
    [holds |-> id \in accounts, tx |-> Tx("init", NONE, NONE, key, {id}, {Store})]

ScriptInitReceiveLibrary(key) == ScriptCreate(key, ReceiveLibrary(ScriptEid))
ScriptInitOAppNonce(key, addr) == ScriptCreate(key, Nonce(ScriptEid, addr))
ScriptInitReceiveConfig(key) == ScriptCreate(key, UlnAccounts(ScriptEid))

ScriptSetReceiveLibrary(key) ==
    [holds |-> ScriptEid \in pinned,
     tx |-> Tx("setReceiveLibrary", ScriptEid, NONE, key, {}, {ReceiveLibrary(ScriptEid)})]

ScriptSetReceiveConfig(key, config) ==
    [holds |-> EqualULNConfig(uln[ScriptEid], config),
     tx |-> Tx("setUln", [eid |-> ScriptEid, config |-> config], NONE, key, {},
               {UlnAccounts(ScriptEid)})]

ScriptStep(step, key, wanted) ==
    CASE step = "initGovernance" -> ScriptInitGovernance(key)
      [] step = "setPeers" -> ScriptSetPeers(key, wanted.peer[ScriptEid])
      [] step = "initReceiveLibrary" -> ScriptInitReceiveLibrary(key)
      [] step = "initOAppNonce" -> ScriptInitOAppNonce(key, wanted.peer[ScriptEid])
      [] step = "setReceiveLibrary" -> ScriptSetReceiveLibrary(key)
      [] step = "initReceiveConfig" -> ScriptInitReceiveConfig(key)
      [] step = "setReceiveConfig" -> ScriptSetReceiveConfig(key, wanted.uln)

-----------------------------------------------------------------------------
(***************************************************************************)
(* Starting a run.  Main may run the wiring tasks as often as it likes and *)
(* signs with the key the chain asks for; everything else is bounded.      *)
(* The owner is transferred once the delegate is, as the README tells.     *)
(***************************************************************************)
KeyFor(task) == CASE task = "script" -> Wallet
                  [] task = "init-config" -> delegate
                  [] OTHER -> owner

MayStart(o, task, key) ==
    \/ o = Main /\ task \in WiringTasks /\ key = KeyFor(task) /\ UNCHANGED extraRuns
    \/ /\ o # Main \/ task \in AdminTasks
       /\ extraRuns < MaxExtraRuns
       /\ extraRuns' = extraRuns + 1

UlnConfigExists(e) == UlnAccounts(e) \in accounts

\* What the wire task checks before it collects anything.
PathwaysInitialized == \A e \in Eids : UlnConfigExists(e)

Applies(task, key) ==
    CASE task = "script" -> kind = "Governance" /\ key = Wallet
      [] task = "init-config" -> Store \in accounts
      [] task = "wire" -> Store \in accounts /\ PathwaysInitialized
      [] task = "transfer" ->
            Store \in accounts /\ PathwaysInitialized /\ IsDelegate(Goal.delegate)
      [] OTHER -> kind = "OFT"

Collected(task, key) ==
    CASE task = "init-config" -> {InitConfigTransactions}
      [] task = "transfer" -> {OwnerTransactions(Goal)}
      [] task \in AdminTasks -> {<<tx>> : tx \in AdminTransactions(task, key)}
      [] OTHER -> {<<>>}

FirstPc(task, queue) ==
    CASE task = "wire" -> "peers"
      [] task = "script" -> "initGovernance"
      [] OTHER -> IF queue = <<>> THEN "done" ELSE "send"

Start(o, task, key) ==
    /\ run[o].pc \in {"done", "failed"}
    /\ MayStart(o, task, key)
    /\ Applies(task, key)
    /\ \E queue \in Collected(task, key) :
          LET pc == FirstPc(task, queue)
          IN run' = [run EXCEPT ![o] =
                IF pc = "done" THEN Ended("done")
                ELSE [pc |-> pc, task |-> task, signer |-> key, goal |-> goalNo,
                      queue |-> queue, sent |-> FALSE, clean |-> TRUE]]
    /\ UNCHANGED <<chainVars, goalNo, late>>

(***************************************************************************)
(* The wire task reads the peers, then the rest.                           *)
(***************************************************************************)
CollectPeers(o) ==
    /\ run[o].pc = "peers"
    /\ run' = [run EXCEPT ![o].pc = "rest", ![o].queue = PeerTransactions(Wanted(run[o]))]
    /\ UNCHANGED <<chainVars, goalNo, late, extraRuns>>

\* Mutant: the delegate goes first.
CollectRestDelegateFirst(o) ==
    /\ run[o].pc = "rest"
    /\ LET wanted == Wanted(run[o])
           queue == DelegateTransactions(wanted) \o run[o].queue \o UlnTransactions(wanted)
                        \o OptionTransactions(wanted)
       IN run' = [run EXCEPT ![o] = IF queue = <<>> THEN Ended("done")
                                    ELSE [@ EXCEPT !.pc = "send", !.queue = queue]]
    /\ UNCHANGED <<chainVars, goalNo, late, extraRuns>>

CollectRest(o) ==
    /\ run[o].pc = "rest"
    /\ LET wanted == Wanted(run[o])
           queue == run[o].queue \o UlnTransactions(wanted) \o OptionTransactions(wanted)
                        \o DelegateTransactions(wanted)
       IN run' = [run EXCEPT ![o] = IF queue = <<>> THEN Ended("done")
                                    ELSE [@ EXCEPT !.pc = "send", !.queue = queue]]
    /\ UNCHANGED <<chainVars, goalNo, late, extraRuns>>

\* The run o has done with the first transaction of its queue.
Advanced(r) ==
    IF r.task = "script" /\ After(r.pc) # "done"
    THEN [r EXCEPT !.pc = After(@), !.queue = <<>>, !.sent = FALSE]
    ELSE IF r.task = "script" \/ Len(r.queue) = 1 THEN Ended("done")
                                                 ELSE [r EXCEPT !.queue = Tail(@)]

(***************************************************************************)
(* The script looks at its next step; the last one throws when the         *)
(* configuration account does not exist.                                   *)
(***************************************************************************)
ScriptLooks(o) ==
    /\ run[o].task = "script" /\ run[o].queue = <<>>
    /\ LET step == ScriptStep(run[o].pc, run[o].signer, Wanted(run[o]))
           throws == run[o].pc = "setReceiveConfig" /\ UlnAccounts(ScriptEid) \notin accounts
       IN run' = [run EXCEPT ![o] =
             CASE throws -> Ended("failed")
               [] ~ throws /\ step.holds -> Advanced(@)
               [] OTHER -> [@ EXCEPT !.queue = <<step.tx>>]]
    /\ UNCHANGED <<chainVars, goalNo, late, extraRuns>>

(***************************************************************************)
(* The chain executes a transaction, the ones in flight included.  A run   *)
(* is clean while nobody else has changed the chain under it.              *)
(***************************************************************************)
Waiting(o) == run[o].queue # <<>> /\ run[o].pc # "rest"

Disturbed(o) ==
    [p \in Operators |-> [run[p] EXCEPT !.clean = @ /\ p = o]]

\* The script's node simulates a transaction before it sends it.
Preflight(o) ==
    /\ Waiting(o) /\ run[o].task = "script" /\ ~ run[o].sent
    /\ run' = [run EXCEPT ![o] =
          IF Succeeds(Head(@.queue), @.signer) THEN [@ EXCEPT !.sent = TRUE] ELSE Ended("failed")]
    /\ UNCHANGED <<chainVars, goalNo, late, extraRuns>>

InFlight(o) == Waiting(o) /\ (run[o].task = "script" => run[o].sent)

Confirm(o) ==
    /\ InFlight(o)
    /\ Succeeds(Head(run[o].queue), run[o].signer)
    /\ Execute(Head(run[o].queue))
    /\ run' = [Disturbed(o) EXCEPT ![o] = Advanced(@)]
    /\ UNCHANGED <<goalNo, late, extraRuns>>

\* A task stops at a transaction that fails; the script only waits for the
\* end of a transaction, not for its success, and goes on.
Reject(o) ==
    /\ InFlight(o)
    /\ ~ Succeeds(Head(run[o].queue), run[o].signer)
    /\ run' = [run EXCEPT ![o] = IF @.task = "script" THEN Advanced(@) ELSE Ended("failed")]
    /\ UNCHANGED <<chainVars, goalNo, late, extraRuns>>

(***************************************************************************)
(* A run ends early: interrupted, or tired of waiting for a confirmation.  *)
(* What it sent has either expired or may still land.  Main interrupts a   *)
(* run only once it has sent something: before, nothing has changed.       *)
(***************************************************************************)
GiveUp(o) ==
    /\ run[o].pc \notin {"done", "failed"}
    /\ InFlight(o) \/ o # Main
    /\ run' = [run EXCEPT ![o] = Ended("failed")]
    /\ \/ UNCHANGED late
       \/ /\ InFlight(o)
          /\ late' = [late EXCEPT ![o] = [tx |-> Head(run[o].queue), signer |-> run[o].signer]]
    /\ UNCHANGED <<chainVars, goalNo, extraRuns>>

LandLate(o) ==
    /\ late[o] # NONE
    /\ late' = [late EXCEPT ![o] = NONE]
    /\ IF Succeeds(late[o].tx, late[o].signer)
       THEN Execute(late[o].tx) /\ run' = [p \in Operators |-> [run[p] EXCEPT !.clean = FALSE]]
       ELSE UNCHANGED <<chainVars, run>>
    /\ UNCHANGED <<goalNo, extraRuns>>

\* The configuration file is edited.
NextGoal ==
    /\ goalNo + 1 \in DOMAIN Goals[kind]
    /\ goalNo' = goalNo + 1
    /\ UNCHANGED <<chainVars, run, late, extraRuns>>

Next ==
    \/ \E o \in Operators :
        \/ \E task \in WiringTasks \cup AdminTasks, key \in Keys : Start(o, task, key)
        \/ CollectPeers(o) \/ CollectRest(o) \/ ScriptLooks(o)
        \/ Preflight(o) \/ Confirm(o) \/ Reject(o) \/ GiveUp(o) \/ LandLate(o)
    \/ NextGoal

Spec == Init /\ [][Next]_vars

(***************************************************************************)
(* Main keeps trying: it runs each task again and again, a task that is    *)
(* not interrupted goes on, and of the transactions it waits for, some are *)
(* confirmed in time.                                                      *)
(***************************************************************************)
MainRuns(task) == \E key \in Keys : Start(Main, task, key)

FairSpec ==
    /\ Spec
    /\ \A task \in WiringTasks : SF_vars(MainRuns(task))
    /\ WF_vars(\/ CollectPeers(Main) \/ CollectRest(Main) \/ ScriptLooks(Main)
               \/ Preflight(Main) \/ Reject(Main))
    /\ SF_vars(Confirm(Main))

-----------------------------------------------------------------------------
(***************************************************************************)
(* A pathway can carry messages: the nonce account is the current peer's,  *)
(* and the libraries are there.  The governance OApp only receives.        *)
(***************************************************************************)
PathwayReady(e) ==
    /\ peer[e] # NONE
    /\ {Nonce(e, peer[e]), ReceiveLibrary(e)} \subseteq accounts
    /\ kind = "OFT" => SendLibrary(e) \in accounts

(***************************************************************************)
(* A peer of the OFT is never set without the accounts its messages need,  *)
(* whatever the runs read and when: setPeer creates what is missing in the *)
(* transaction that sets the peer, and a stale one fails as a whole.       *)
(***************************************************************************)
PeersAreUsable == kind = "OFT" => \A e \in Eids : peer[e] # NONE => PathwayReady(e)

(***************************************************************************)
(* The wallet gives the delegate away only when every pathway of the OFT   *)
(* is ready, since its own transactions can create no account afterwards:  *)
(* the delegate is set last, and a run stops at the first failure.         *)
(***************************************************************************)
ReadyBeforeHandover ==
    kind = "OFT" /\ delegate # Wallet => \A e \in Eids : PathwayReady(e)

(***************************************************************************)
(* A run that reports success, with no one else's transaction in between,  *)
(* has brought the chain to what it wanted.  The enforced options are the  *)
(* exception: they may be empty, see the README; and the script takes ULN  *)
(* configurations with as many verifiers for equal.  Even when others      *)
(* interfere the script, which goes on after a transaction that failed on  *)
(* chain, leaves the accounts behind that its later steps need; not the    *)
(* nonce account, which none of them does.                                 *)
(***************************************************************************)
Completes(o, task, g) ==
    run[o].task = task /\ run[o].goal = g /\ run'[o].pc = "done"

WiredAs(wanted) ==
    /\ \A e \in Eids : peer[e] = wanted.peer[e] /\ uln[e] = wanted.uln
    /\ \A e \in Eids : options[e] \in {wanted.options, EmptyOptions}
    /\ IsDelegate(wanted.delegate)

ScriptedAs(wanted) ==
    /\ peer[ScriptEid] = wanted.peer[ScriptEid]
    /\ Nonce(ScriptEid, wanted.peer[ScriptEid]) \in accounts
    /\ ScriptEid \in pinned
    /\ EqualULNConfig(uln[ScriptEid], wanted.uln)

ScriptAccounts == {Store, ReceiveLibrary(ScriptEid), UlnAccounts(ScriptEid)}

SuccessMeansDone ==
    [][\A o \in Operators, g \in DOMAIN Goals[kind] :
        /\ Completes(o, "wire", g) /\ run[o].clean => WiredAs(Goals[kind][g])'
        /\ Completes(o, "script", g) => ScriptAccounts \subseteq accounts'
        /\ Completes(o, "script", g) /\ run[o].clean => ScriptedAs(Goals[kind][g])'
      ]_vars

(***************************************************************************)
(* Running the tasks again and again leads to the configuration asked for, *)
(* and stays there, whatever was interrupted, landed late or was done by   *)
(* others meanwhile: no task undoes another's work for good, and none gets *)
(* stuck on what an unfinished run left behind.                            *)
(***************************************************************************)
Configured ==
    /\ \A e \in Eids : PathwayReady(e) /\ peer[e] = Goal.peer[e] /\ uln[e] = Goal.uln
    /\ kind = "OFT" => \A e \in Eids : options[e] = Goal.options
    /\ IsDelegate(Goal.delegate) /\ HasOwner(Goal.owner)

Converges == <>[]Configured
=============================================================================
