--------------------------- MODULE SolanaDeployment ---------------------------
(***************************************************************************)
(* The hardhat tasks that put an OFT on Solana: creating it with a token   *)
(* of its own, over an existing token that it mints and burns, or as an    *)
(* adapter that locks an existing token; and replacing the authorities of  *)
(* a token afterwards.                                                     *)
(*                                                                         *)
(* A task is a chain of transactions, all signed by the operator's wallet. *)
(* Task number n owns everything it makes: its keys are generated for it,  *)
(* so store, multisig and mint are named by n.  Several tasks may run at a *)
(* time, each may stop anywhere, and a transaction it sent may land after  *)
(* it stopped.  A node refuses a transaction that would fail when it is    *)
(* sent; one that fails later, on chain, is not noticed by the task.  What *)
(* makes it fail then are the transactions of other tasks: fees, compute   *)
(* units and expiry are not modelled beyond a transaction that is lost, so *)
(* that the creation of a store, which nobody else touches, does not fail  *)
(* unnoticed here.  Nobody uses the authorities outside these tasks.       *)
(*                                                                         *)
(* A mint or an escrow that a task is given is any that exists.  One that  *)
(* does not exist makes a task fail before it changes anything that is     *)
(* there, except that setAuthority never looks at its escrow: there an     *)
(* escrow that no deployment made is among the choices.                    *)
(***************************************************************************)
EXTENDS FiniteSets, Integers, Sequences

CONSTANTS
    NONE,           \* nobody, nothing
    Minters,        \* keys that may mint besides the store; the wallet may be one
    Wallet,         \* the operator's key
    Token,          \* a token that exists already
    TokenAuthority, \* who may mint and freeze it at first
    MaxTasks,       \* bound on the tasks
    MaxMints,       \* bound on the mints they make
    MaxRunning      \* bound on the tasks that run at a time

ASSUME DeploymentAssumption ==
    /\ Wallet \in Minters
    /\ TokenAuthority \in {Wallet, NONE}
    /\ MaxTasks \in Nat \ {0} /\ MaxMints \in Nat /\ MaxRunning \in Nat

VARIABLES
    task,       \* the tasks started so far, in order
    token,      \* the authorities of each mint that exists
    multisig,   \* the signers of the multisig a task created, or NONE
    store,      \* the mint of the OFT store a task created, or NONE
    late,       \* for each task, a transaction that may land though it stopped, or NONE
    file        \* what OFT.json says, or NONE

vars == <<task, token, multisig, store, late, file>>

Numbers == 1..MaxTasks

\* The keys a task generates.
OwnMint(n) == <<"mint", n>>
OwnStore(n) == <<"store", n>>
OwnMultisig(n) == <<"multisig", n>>

Existing == <<"token", Token>>
WalletKey == <<"key", Wallet>>
KeyOf(m) == <<"key", m>>

Mints == {OwnMint(n) : n \in Numbers} \cup {Existing}
Signers == {KeyOf(m) : m \in Minters} \cup {OwnStore(n) : n \in Numbers}
Authorities == Signers \cup {OwnMultisig(n) : n \in Numbers} \cup {NONE}

\* NONE is nobody's key and no mint.
ASSUME NothingAssumption ==
    NONE \notin Mints \cup Signers \cup {OwnMultisig(n) : n \in Numbers}

Kinds == {"create", "adapter", "setAuthority"}
Stops == {"done", "failed"}
Steps == {"multisig", "token", "store", "handOver", "mintAuthority", "freezeAuthority", "save"}

TypeOK ==
    /\ Len(task) <= MaxTasks
    /\ \A n \in DOMAIN task :
        /\ task[n].kind \in Kinds
        /\ task[n].mint \in Mints
        /\ task[n].store \in {OwnStore(m) : m \in Numbers}
        /\ task[n].steps \in Seq(Steps)
        /\ task[n].stopped \in {"done", "failed", "no"}
        /\ task[n].authority \in Authorities
        /\ task[n].confirmed \in BOOLEAN /\ task[n].alone \in BOOLEAN
    /\ DOMAIN token \subseteq Mints
    /\ \A m \in DOMAIN token : {token[m].mint, token[m].freeze} \subseteq Authorities
    /\ \A n \in Numbers : multisig[n] = NONE \/ multisig[n] \subseteq Signers
    /\ \A n \in Numbers : store[n] = NONE \/ store[n] \in DOMAIN token
    /\ file = NONE \/ /\ file.mint \in Mints
                      /\ file.store \in {OwnStore(m) : m \in Numbers}
                      /\ file.mintAuthority \in Authorities

InitialAuthority == IF TokenAuthority = NONE THEN NONE ELSE WalletKey

Init ==
    /\ task = <<>>
    /\ token = [m \in {Existing} |-> [mint |-> InitialAuthority, freeze |-> InitialAuthority]]
    /\ multisig = [n \in Numbers |-> NONE]
    /\ store = [n \in Numbers |-> NONE]
    /\ late = [n \in Numbers |-> NONE]
    /\ file = NONE

-----------------------------------------------------------------------------
(***************************************************************************)
(* The chain: who an authority's signature can come from, and what each    *)
(* transaction needs and does.                                             *)
(***************************************************************************)
SignersOf(authority) ==
    {authority} \cup
        UNION {multisig[n] : n \in {m \in Numbers : authority = OwnMultisig(m) /\ multisig[m] # NONE}}

Controls(key, authority) == key \in SignersOf(authority)

\* The token program lets the wallet replace the authority it is shown.
MayReplace(current, shown) == current = shown /\ Controls(WalletKey, current)

Valid(tx) ==
    CASE tx.what = "multisig" -> multisig[tx.of] = NONE
      [] tx.what = "token" -> tx.mint \notin DOMAIN token
      [] tx.what = "store" -> store[tx.of] = NONE /\ tx.mint \in DOMAIN token
      [] OTHER ->
            /\ tx.mint \in DOMAIN token
            /\ \A a \in DOMAIN tx.new : MayReplace(token[tx.mint][a], tx.shown[a])

Apply(tx) ==
    /\ multisig' = IF tx.what = "multisig" THEN [multisig EXCEPT ![tx.of] = tx.signers]
                                           ELSE multisig
    /\ store' = IF tx.what = "store" THEN [store EXCEPT ![tx.of] = tx.mint] ELSE store
    /\ token' = CASE tx.what = "token" ->
                        [m \in DOMAIN token \cup {tx.mint} |->
                            IF m = tx.mint THEN [mint |-> WalletKey, freeze |-> WalletKey]
                                           ELSE token[m]]
                  [] tx.what = "authority" ->
                        [token EXCEPT ![tx.mint] =
                            [a \in DOMAIN @ |-> IF a \in DOMAIN tx.new THEN tx.new[a] ELSE @[a]]]
                  [] OTHER -> token

-----------------------------------------------------------------------------
(***************************************************************************)
(* The transactions of the tasks.                                          *)
(***************************************************************************)
\* Mutant: the store is not among the signers.
MintSignersNoStore(n) == {KeyOf(m) : m \in task[n].minters}

\* The store and the additional minters.
MintSigners(n) == {task[n].store} \cup {KeyOf(m) : m \in task[n].minters}

\* Any one signer of the multisig suffices.
CreateMultisig(n) == [what |-> "multisig", of |-> n, signers |-> MintSigners(n)]

\* A new mint belongs to the wallet; its authorities move last.
CreateToken(n) == [what |-> "token", of |-> n, mint |-> task[n].mint]

InitOft(n) == [what |-> "store", of |-> n, mint |-> task[n].mint]

\* Mutant: the freeze authority stays behind.
HandOverMint(n) ==
    [what |-> "authority", of |-> n, mint |-> task[n].mint,
     shown |-> [x \in {"mint"} |-> WalletKey], new |-> [x \in {"mint"} |-> task[n].authority]]

\* Both authorities of the new mint in one transaction.
HandOver(n) ==
    [what |-> "authority", of |-> n, mint |-> task[n].mint,
     shown |-> [mint |-> WalletKey, freeze |-> WalletKey],
     new |-> [mint |-> task[n].authority,
              freeze |-> IF task[n].onlyOftStore THEN NONE ELSE task[n].authority]]

\* Mutant: whichever authority is asked for, the mint authority is set.
SetAuthorityMint(n, a) ==
    [what |-> "authority", of |-> n, mint |-> task[n].mint,
     shown |-> [x \in {"mint"} |-> token[task[n].mint][x]],
     new |-> [x \in {"mint"} |-> task[n].authority]]

\* One authority, taken from whom the mint says has it.
SetAuthority(n, a) ==
    [what |-> "authority", of |-> n, mint |-> task[n].mint,
     shown |-> [x \in {a} |-> token[task[n].mint][x]],
     new |-> [x \in {a} |-> task[n].authority]]

TxOf(n) ==
    CASE Head(task[n].steps) = "multisig" -> CreateMultisig(n)
      [] Head(task[n].steps) = "token" -> CreateToken(n)
      [] Head(task[n].steps) = "store" -> InitOft(n)
      [] Head(task[n].steps) = "handOver" -> HandOver(n)
      [] Head(task[n].steps) = "mintAuthority" -> SetAuthority(n, "mint")
      [] Head(task[n].steps) = "freezeAuthority" -> SetAuthority(n, "freeze")

-----------------------------------------------------------------------------
(***************************************************************************)
(* Starting a task.  Without additional minters it must be told that only  *)
(* the store will mint; `minters` is NONE when there are none.             *)
(***************************************************************************)
ArgumentsAccepted(minters, onlyOftStore) == minters = NONE => onlyOftStore

Running(n) == task[n].stopped = "no"

Begin(t) ==
    /\ Len(task) < MaxTasks
    /\ Cardinality({n \in DOMAIN task : Running(n)}) < MaxRunning
    /\ task' = Append(task, t)
    /\ UNCHANGED <<token, multisig, store, late, file>>

\* Tasks with a mint of their own, whether it came to exist or not.
MintsMade == Cardinality({n \in DOMAIN task : task[n].mint = OwnMint(n)})

NewTask(kind, mint, minters, onlyOftStore, steps, authority, itsStore) ==
    [kind |-> kind, mint |-> mint, minters |-> IF minters = NONE THEN {} ELSE minters,
     onlyOftStore |-> onlyOftStore, steps |-> steps, authority |-> authority,
     store |-> itsStore, tx |-> NONE, confirmed |-> FALSE, stopped |-> "no", alone |-> TRUE]

\* Mutant: generates no mint.
CreateOFTWithoutMint(mint, minters, onlyOftStore) ==
    LET n == Len(task) + 1
        shared == minters # NONE
        steps == (IF shared THEN <<"multisig">> ELSE <<>>)
                 \o (IF mint = NONE THEN <<"token", "store", "handOver", "save">>
                                    ELSE <<"store", "save">>)
    IN /\ ArgumentsAccepted(minters, onlyOftStore)
       /\ mint = NONE => MintsMade < MaxMints
       /\ Begin(NewTask("create", mint, minters, mint = NONE /\ onlyOftStore,
                        steps, IF shared THEN OwnMultisig(n) ELSE OwnStore(n), OwnStore(n)))

\* The store itself mints unless others may too.  That it is to be alone matters
\* later to a new mint only: an existing one keeps its authorities.
CreateOFT(mint, minters, onlyOftStore) ==
    LET n == Len(task) + 1
        shared == minters # NONE
        steps == (IF shared THEN <<"multisig">> ELSE <<>>)
                 \o (IF mint = NONE THEN <<"token", "store", "handOver", "save">>
                                    ELSE <<"store", "save">>)
    IN /\ ArgumentsAccepted(minters, onlyOftStore)
       /\ mint = NONE => MintsMade < MaxMints
       /\ Begin(NewTask("create", IF mint = NONE THEN OwnMint(n) ELSE mint, minters,
                        mint = NONE /\ onlyOftStore,
                        steps, IF shared THEN OwnMultisig(n) ELSE OwnStore(n), OwnStore(n)))

\* An adapter changes no authority: it notes the one it finds.
CreateOFTAdapter(mint) ==
    Begin(NewTask("adapter", mint, NONE, FALSE, <<"store", "save">>, token[mint].mint,
                  OwnStore(Len(task) + 1)))

\* Mint and escrow are arguments, each taken as it comes: neither is compared
\* with the other, with OFT.json or with what the mint's own deployment has done.
\* That only the store is to mint is asked for and has no other effect.
SetAuthorities(mint, itsStore, minters, onlyOftStore) ==
    /\ ArgumentsAccepted(minters, onlyOftStore)
    /\ Begin(NewTask("setAuthority", mint, minters, FALSE,
                     <<"multisig", "mintAuthority", "freezeAuthority">>,
                     OwnMultisig(Len(task) + 1), itsStore))

\* The stores of the tasks so far, and one that no task makes.
NamedStores == {OwnStore(m) : m \in 1..(Len(task) + 1)}

Start ==
    \/ \E minters \in ((SUBSET Minters) \ {{}}) \cup {NONE}, only \in BOOLEAN :
        \/ \E mint \in DOMAIN token \cup {NONE} : CreateOFT(mint, minters, only)
        \/ \E mint \in DOMAIN token, itsStore \in NamedStores :
              SetAuthorities(mint, itsStore, minters, only)
    \/ \E mint \in DOMAIN token : CreateOFTAdapter(mint)

-----------------------------------------------------------------------------
\* What a stopped task was told is forgotten.
Stopped(n, how) ==
    [task EXCEPT ![n].stopped = how, ![n].steps = <<>>, ![n].tx = NONE, ![n].confirmed = FALSE,
                 ![n].alone = FALSE, ![n].onlyOftStore = FALSE]

(***************************************************************************)
(* The compute units of a transaction come from a simulation, or, after    *)
(* three that failed, from an estimate if the operator accepts it.         *)
(***************************************************************************)
ComputeUnitsKnown(simulated, accepted) == simulated \/ accepted

\* The authority to be replaced must be there.
HasAuthority(n) ==
    /\ Head(task[n].steps) = "mintAuthority" => token[task[n].mint].mint # NONE
    /\ Head(task[n].steps) = "freezeAuthority" => token[task[n].mint].freeze # NONE

Send(n) ==
    /\ Running(n) /\ task[n].tx = NONE /\ Head(task[n].steps) # "save"
    /\ \E simulated \in {TRUE, HasAuthority(n) /\ Valid(TxOf(n))}, accepted \in BOOLEAN :
          task' = IF /\ HasAuthority(n)
                     /\ ComputeUnitsKnown(simulated, accepted)
                     /\ Valid(TxOf(n))
                  THEN [task EXCEPT ![n].tx = TxOf(n)]
                  ELSE Stopped(n, "failed")
    /\ UNCHANGED <<token, multisig, store, late, file>>

\* Others that work on the same mint are no longer alone with it.
Noted(tx, tasks) ==
    [n \in DOMAIN tasks |->
        [tasks[n] EXCEPT !.alone = @ /\ (n = tx.of \/ tx.what # "authority" \/ tasks[n].mint # tx.mint)]]

AfterStep(n) ==
    IF Len(task[n].steps) = 1 THEN Stopped(n, "done")
    ELSE [task EXCEPT ![n].steps = Tail(@), ![n].tx = NONE, ![n].confirmed = FALSE]

\* The accounts a task has created are looked for, and the signers compared.
AccountInitialized(n) ==
    /\ task[n].tx.what = "multisig" => multisig[n] # NONE
    /\ task[n].tx.what = "token" => task[n].mint \in DOMAIN token

SignersChecked(n) == task[n].tx.what = "multisig" => MintSigners(n) \subseteq multisig[n]

Confirm(n) ==
    /\ Running(n) /\ task[n].tx # NONE /\ ~ task[n].confirmed
    /\ LET confirmed == [task EXCEPT ![n].confirmed = TRUE]
       IN IF Valid(task[n].tx)
          THEN Apply(task[n].tx) /\ task' = Noted(task[n].tx, confirmed)
          ELSE task' = confirmed /\ UNCHANGED <<token, multisig, store>>
    /\ UNCHANGED <<late, file>>

\* Whether the transaction succeeded is not asked.
Proceed(n) ==
    /\ Running(n) /\ task[n].tx # NONE /\ task[n].confirmed
    /\ task' = IF AccountInitialized(n) /\ SignersChecked(n) THEN AfterStep(n)
                                                           ELSE Stopped(n, "failed")
    /\ UNCHANGED <<token, multisig, store, late, file>>

\* Mutant: saves as soon as the keys are known.
MaySaveAtOnce(n) == Head(task[n].steps) \in {"store", "save"}

MaySave(n) == Head(task[n].steps) = "save"

Save(n) ==
    /\ Running(n) /\ MaySave(n)
    /\ file' = [mint |-> task[n].mint, mintAuthority |-> task[n].authority, store |-> task[n].store]
    /\ task' = Stopped(n, "done")
    /\ UNCHANGED <<token, multisig, store, late>>

GiveUp(n) ==
    /\ Running(n)
    /\ task' = Stopped(n, "failed")
    /\ late' \in {late, [late EXCEPT ![n] = IF task[n].confirmed THEN NONE ELSE task[n].tx]}
    /\ UNCHANGED <<token, multisig, store, file>>

LandLate(n) ==
    /\ late[n] # NONE
    /\ late' = [late EXCEPT ![n] = NONE]
    /\ IF Valid(late[n]) THEN Apply(late[n]) /\ task' = Noted(late[n], task)
                         ELSE UNCHANGED <<task, token, multisig, store>>
    /\ UNCHANGED file

Next ==
    \/ Start
    \/ \E n \in DOMAIN task : Send(n) \/ Confirm(n) \/ Proceed(n) \/ Save(n) \/ GiveUp(n) \/ LandLate(n)

Spec == Init /\ [][Next]_vars

-----------------------------------------------------------------------------
Created(n) == n \in DOMAIN task /\ task[n].kind = "create" /\ task[n].mint = OwnMint(n)

\* setAuthority is run on the mint.
Sets(n, mint) == n \in DOMAIN task /\ task[n].kind = "setAuthority" /\ task[n].mint = mint

\* Whoever replaces the authorities of task n's own mint names its own store.
StoreNamed(n) == \A m \in DOMAIN task : Sets(m, OwnMint(n)) => task[m].store = OwnStore(n)

(***************************************************************************)
(* An OFT with a mint of its own can mint from the moment its deployment   *)
(* is saved, and as long as every setAuthority on that mint is given its   *)
(* escrow nothing takes that from it: not one that starts before the       *)
(* deployment has handed the mint over, two at once, one that stops        *)
(* between its transactions, or a transaction that lands late.             *)
(***************************************************************************)
StoreKeepsMinting ==
    \A n \in Numbers :
        Created(n) /\ task[n].stopped = "done" /\ StoreNamed(n)
        => Controls(OwnStore(n), token[OwnMint(n)].mint)

(***************************************************************************)
(* The wallet never gives up freezing before minting, and what leaves it   *)
(* able to freeze the accounts of a token it can no longer mint is only a  *)
(* setAuthority that has not ended well: a deployment hands over both, and *)
(* when a setAuthority ends well neither is left, whatever others run on   *)
(* the same mint at the same time.                                         *)
(***************************************************************************)
HandedOverTogether ==
    \A m \in DOMAIN token :
        /\ token[m].mint = WalletKey => token[m].freeze = WalletKey
        /\ token[m].freeze = WalletKey /\ token[m].mint # WalletKey =>
              \E n \in DOMAIN task : Sets(n, m) /\ task[n].stopped # "done"
        /\ \A n \in DOMAIN task :
              Sets(n, m) /\ task[n].stopped = "done" => token[m].freeze # WalletKey

(***************************************************************************)
(* What the file names is deployed: the store exists, over that mint, and  *)
(* a multisig it names exists with the store among its signers.            *)
(***************************************************************************)
FileIsDeployed ==
    file # NONE =>
        \E n \in Numbers :
            /\ file.store = OwnStore(n) /\ store[n] = file.mint
            /\ task[n].kind = "create" => Controls(OwnStore(n), file.mintAuthority)

Moved(n) ==
    LET t == token[task[n].mint]
    IN /\ t.mint = task[n].authority /\ t.freeze = task[n].authority
       /\ MintSigners(n) \subseteq SignersOf(t.mint)

(***************************************************************************)
(* setAuthority that ends well, alone with its mint, has moved both        *)
(* authorities to its multisig, in which the store and every additional    *)
(* minter can sign.                                                        *)
(***************************************************************************)
AuthoritiesMoved ==
    [][\A n \in DOMAIN task :
        /\ task[n].kind = "setAuthority" /\ task[n].alone
        /\ Running(n) /\ task'[n].stopped = "done"
        => Moved(n)']_vars
=============================================================================
