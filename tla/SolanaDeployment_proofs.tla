----------------------- MODULE SolanaDeployment_proofs -----------------------
(***************************************************************************)
(* The deployment tasks, for any minters, any number of tasks and any      *)
(* interleaving of them: an OFT keeps its right to mint while setAuthority *)
(* is given its escrow, only a setAuthority that has not ended well splits *)
(* the authorities of a mint, the file names what is deployed, and an      *)
(* undisturbed setAuthority moves both authorities.                        *)
(***************************************************************************)
EXTENDS SolanaDeployment, SequenceTheorems, TLAPS

Deploys(n) == task[n].kind \in {"create", "adapter"}
Owns(n) == task[n].kind = "create" /\ task[n].mint = OwnMint(n)

\* A deployment that ended well.
Saved(n) == n \in DOMAIN task /\ Deploys(n) /\ task[n].stopped = "done"

-----------------------------------------------------------------------------
(***************************************************************************)
(* Types.  A task that runs has the rest of its plan before it.            *)
(***************************************************************************)
OwnStores == {OwnStore(m) : m \in Numbers}
Roles == {"mint", "freeze"}

Transactions ==
    [what : {"multisig"}, of : Numbers, signers : SUBSET Signers]
        \cup [what : {"token", "store"}, of : Numbers, mint : Mints]
        \cup [what : {"authority"}, of : Numbers, mint : Mints,
              shown : UNION {[R -> Authorities] : R \in SUBSET Roles},
              new : UNION {[R -> Authorities] : R \in SUBSET Roles}]

TaskRecords ==
    [kind : Kinds, mint : Mints, minters : SUBSET Minters, onlyOftStore : BOOLEAN,
     steps : Seq(Steps), authority : Authorities, store : OwnStores,
     tx : Transactions \cup {NONE}, confirmed : BOOLEAN,
     stopped : {"done", "failed", "no"}, alone : BOOLEAN]

OwnPlan ==
    {<<"multisig", "token", "store", "handOver", "save">>,
     <<"token", "store", "handOver", "save">>,
     <<"store", "handOver", "save">>, <<"handOver", "save">>, <<"save">>}

ExistingPlan == {<<"multisig", "store", "save">>, <<"store", "save">>, <<"save">>}

AuthorityPlan ==
    {<<"multisig", "mintAuthority", "freezeAuthority">>,
     <<"mintAuthority", "freezeAuthority">>, <<"freezeAuthority">>}

PlanOf(n) ==
    IF task[n].kind = "setAuthority" THEN AuthorityPlan
    ELSE IF Owns(n) THEN OwnPlan ELSE ExistingPlan

TasksTyped == task \in Seq(TaskRecords) /\ Len(task) <= MaxTasks

ChainTyped ==
    /\ Existing \in DOMAIN token /\ DOMAIN token \subseteq Mints
    /\ token \in [DOMAIN token -> [mint : Authorities, freeze : Authorities]]
    /\ multisig \in [Numbers -> (SUBSET Signers) \cup {NONE}]
    /\ store \in [Numbers -> Mints \cup {NONE}]
    /\ \A n \in Numbers : store[n] # NONE => store[n] \in DOMAIN token

-----------------------------------------------------------------------------
(***************************************************************************)
(* The inductive invariant.                                                *)
(***************************************************************************)
\* The multisig a task hands the mint to exists, with all who are to mint.
MinterReady(n) ==
    task[n].authority = OwnMultisig(n) =>
        multisig[n] # NONE /\ MintSigners(n) \subseteq multisig[n]

\* The wallet can no longer mint the token task n made.  No transaction of any
\* task can undo this.
HandedOver(n) == OwnMint(n) \in DOMAIN token /\ token[OwnMint(n)].mint # WalletKey

WalletHas(n) ==
    /\ OwnMint(n) \in DOMAIN token
    /\ token[OwnMint(n)].mint = WalletKey /\ token[OwnMint(n)].freeze = WalletKey

\* The wallet does not have that authority over the mint of task n.  No
\* transaction of any task gives it back.
Released(n, role) == task[n].mint \in DOMAIN token /\ token[task[n].mint][role] # WalletKey

SetSteps == {"mintAuthority", "freezeAuthority"}
RoleOf(step) == IF step = "mintAuthority" THEN "mint" ELSE "freeze"

\* The transactions task n may make in a step.
HandOverTx(n, freezer) ==
    [what |-> "authority", of |-> n, mint |-> task[n].mint,
     shown |-> [mint |-> WalletKey, freeze |-> WalletKey],
     new |-> [mint |-> task[n].authority, freeze |-> freezer]]

SetTx(n, role, current) ==
    [what |-> "authority", of |-> n, mint |-> task[n].mint,
     shown |-> [x \in {role} |-> current], new |-> [x \in {role} |-> task[n].authority]]

MadeBy(n, step, tx) ==
    \/ /\ step = "multisig" /\ task[n].kind # "adapter" /\ task[n].authority = OwnMultisig(n)
       /\ tx = CreateMultisig(n)
    \/ step = "token" /\ Owns(n) /\ tx = CreateToken(n)
    \/ step = "store" /\ Deploys(n) /\ tx = InitOft(n)
    \/ /\ step = "handOver" /\ Owns(n) /\ MinterReady(n)
       /\ \E freezer \in {NONE, task[n].authority} : tx = HandOverTx(n, freezer)
    \/ /\ step \in SetSteps /\ task[n].kind = "setAuthority" /\ MinterReady(n)
       /\ step = "freezeAuthority" => Released(n, "mint")
       /\ \E current \in Authorities : tx = SetTx(n, RoleOf(step), current)

\* What a task is about, from its start: unless it makes the mint, that exists.
Purpose(n) ==
    /\ Deploys(n) => task[n].store = OwnStore(n)
    /\ task[n].kind = "create" => task[n].authority \in {OwnStore(n), OwnMultisig(n)}
    /\ task[n].kind = "setAuthority" => task[n].authority = OwnMultisig(n)
    /\ ~ Owns(n) => task[n].mint \in DOMAIN token

\* How far it has come.
Progress(n) ==
    LET next == Head(task[n].steps)
    IN  /\ Running(n) => task[n].steps \in PlanOf(n)
        /\ Running(n) /\ task[n].confirmed => task[n].tx # NONE
        /\ Running(n) /\ next = "multisig" =>
            task[n].kind # "adapter" /\ task[n].authority = OwnMultisig(n)
        /\ Running(n) /\ next # "multisig" /\ task[n].kind # "adapter" => MinterReady(n)
        /\ Running(n) /\ next \in {"handOver", "save"} => store[n] = task[n].mint
        /\ Running(n) /\ next = "save" /\ Owns(n) => HandedOver(n)
        /\ Running(n) /\ next = "freezeAuthority" => Released(n, "mint")
        /\ Running(n) /\ next = "freezeAuthority" /\ task[n].alone =>
            token[task[n].mint].mint = task[n].authority

\* The authority a setAuthority task is to move, and where it is.
Replaced(n, role) == token[task[n].mint][role] = task[n].authority
Replaceable(n, role) == MayReplace(token[task[n].mint][role], task[n].tx.shown[role])

\* What it waits for: its transaction is still valid, or has had its effect.
Pending(n) ==
    LET next == Head(task[n].steps)
    IN  Running(n) /\ task[n].tx # NONE =>
            /\ MadeBy(n, next, task[n].tx)
            /\ next = "store" =>
                IF task[n].confirmed THEN store[n] = task[n].mint
                ELSE store[n] = NONE /\ task[n].mint \in DOMAIN token
            /\ next = "handOver" =>
                IF task[n].confirmed THEN HandedOver(n) ELSE OwnMint(n) \in DOMAIN token
            /\ next \in SetSteps /\ task[n].alone =>
                IF task[n].confirmed THEN Replaced(n, RoleOf(next))
                ELSE Replaceable(n, RoleOf(next))
            /\ next \in SetSteps =>
                \/ Released(n, RoleOf(next))
                \/ ~ task[n].confirmed /\ task[n].tx.shown[RoleOf(next)] = WalletKey

\* What it has left behind.
Finished(n) ==
    /\ Saved(n) =>
        /\ store[n] = task[n].mint
        /\ task[n].kind = "create" => MinterReady(n)
        /\ Owns(n) => HandedOver(n)
    /\ task[n].kind = "setAuthority" /\ task[n].stopped = "done" => Released(n, "freeze")

\* A transaction that may land late was made by a task that failed.
LateMade(n) ==
    late[n] # NONE =>
        /\ n \in DOMAIN task /\ task[n].stopped = "failed"
        /\ \E step \in Steps : MadeBy(n, step, late[n])

FileSaved ==
    file # NONE =>
        \E n \in DOMAIN task :
            /\ Saved(n)
            /\ file = [mint |-> task[n].mint, mintAuthority |-> task[n].authority,
                       store |-> task[n].store]

TaskInv(n) == Purpose(n) /\ Progress(n) /\ Pending(n) /\ Finished(n)

\* The authorities of a mint: minting leaves the wallet first, without freezing
\* only where setAuthority is run, and goes to the store of the task that made
\* the mint while whoever replaces it names that store.
MintFine(m) ==
    /\ token[m].mint = WalletKey => token[m].freeze = WalletKey
    /\ token[m].freeze = WalletKey /\ token[m].mint # WalletKey =>
        \E k \in DOMAIN task : Sets(k, m)
    /\ \A k \in Numbers : m = OwnMint(k) =>
        /\ k \in DOMAIN task /\ Owns(k)
        /\ token[m].mint # WalletKey /\ StoreNamed(k) =>
            Controls(OwnStore(k), token[m].mint)

MintsFine == \A m \in DOMAIN token : MintFine(m)

Inv ==
    /\ TasksTyped /\ ChainTyped
    /\ \A n \in DOMAIN task : TaskInv(n)
    /\ late \in [Numbers -> Transactions \cup {NONE}]
    /\ \A n \in Numbers : LateMade(n)
    /\ FileSaved
    /\ MintsFine

-----------------------------------------------------------------------------
\* Names and plans.

\* Generated keys are told apart by their kind and the number of their task.
LEMMA KeyFacts ==
    /\ MaxTasks \in Nat \ {0}
    /\ \A n, m \in Numbers :
        /\ OwnMint(n) = OwnMint(m) => n = m
        /\ OwnStore(n) = OwnStore(m) => n = m
        /\ OwnMultisig(n) = OwnMultisig(m) => n = m
        /\ OwnMultisig(n) # OwnStore(m)
    /\ \A n \in Numbers :
        /\ OwnMint(n) # Existing
        /\ WalletKey \notin {OwnStore(n), OwnMultisig(n), NONE}
        /\ OwnMint(n) \in Mints
        /\ OwnStore(n) \in Signers /\ OwnStore(n) \in OwnStores
        /\ {OwnStore(n), OwnMultisig(n)} \subseteq Authorities
    /\ Existing \in Mints
    /\ {WalletKey, NONE} \subseteq Authorities
    /\ NONE \notin Mints
<1>1. MaxTasks \in Nat \ {0} /\ Wallet \in Minters
  BY DeploymentAssumption
<1>2. \A n, m \in Numbers :
        /\ OwnMint(n) = OwnMint(m) => n = m
        /\ OwnStore(n) = OwnStore(m) => n = m
        /\ OwnMultisig(n) = OwnMultisig(m) => n = m
        /\ OwnMultisig(n) # OwnStore(m)
  BY DEF OwnMint, OwnStore, OwnMultisig
<1>3. \A n \in Numbers :
        OwnMint(n) # Existing /\ WalletKey \notin {OwnStore(n), OwnMultisig(n)}
  BY DEF OwnMint, OwnStore, OwnMultisig, Existing, WalletKey
<1>4. WalletKey \in Signers
  BY <1>1 DEF Signers, KeyOf, WalletKey
<1>5. NONE \notin Mints /\ WalletKey # NONE
  BY <1>4, NothingAssumption
<1>6. \A n \in Numbers :
        /\ OwnMint(n) \in Mints /\ OwnStore(n) \in Signers /\ OwnStore(n) \in OwnStores
        /\ {OwnStore(n), OwnMultisig(n)} \subseteq Authorities
  BY DEF Mints, Signers, OwnStores, Authorities
<1>7. Existing \in Mints /\ {WalletKey, NONE} \subseteq Authorities
  BY <1>4 DEF Mints, Authorities
<1> QED
  BY <1>1, <1>2, <1>3, <1>5, <1>6, <1>7

\* The plan of a deployment over a mint of its own.
LEMMA OwnPlanFacts ==
    ASSUME NEW s \in OwnPlan
    PROVE  /\ s \in Seq(Steps) /\ s # <<>>
           /\ Head(s) \in {"multisig", "token", "store", "handOver", "save"}
           /\ Len(s) = 1 <=> Head(s) = "save"
           /\ Head(s) # "save" => Tail(s) \in OwnPlan
           /\ Head(s) = "multisig" => Head(Tail(s)) = "token"
           /\ Head(s) = "token" => Head(Tail(s)) = "store"
           /\ Head(s) = "store" => Head(Tail(s)) = "handOver"
           /\ Head(s) = "handOver" => Head(Tail(s)) = "save"
<1>1. CASE s = <<"multisig", "token", "store", "handOver", "save">>
  BY <1>1 DEF OwnPlan, Steps
<1>2. CASE s = <<"token", "store", "handOver", "save">>
  BY <1>2 DEF OwnPlan, Steps
<1>3. CASE s = <<"store", "handOver", "save">>
  BY <1>3 DEF OwnPlan, Steps
<1>4. CASE s = <<"handOver", "save">>
  BY <1>4 DEF OwnPlan, Steps
<1>5. CASE s = <<"save">>
  BY <1>5 DEF OwnPlan, Steps
<1> QED
  BY <1>1, <1>2, <1>3, <1>4, <1>5 DEF OwnPlan

\* The plan of a deployment over a token that exists.
LEMMA ExistingPlanFacts ==
    ASSUME NEW s \in ExistingPlan
    PROVE  /\ s \in Seq(Steps) /\ s # <<>>
           /\ Head(s) \in {"multisig", "store", "save"}
           /\ Len(s) = 1 <=> Head(s) = "save"
           /\ Head(s) # "save" => Tail(s) \in ExistingPlan
           /\ Head(s) = "multisig" => Head(Tail(s)) = "store"
           /\ Head(s) = "store" => Head(Tail(s)) = "save"
<1>1. CASE s = <<"multisig", "store", "save">>
  BY <1>1 DEF ExistingPlan, Steps
<1>2. CASE s = <<"store", "save">>
  BY <1>2 DEF ExistingPlan, Steps
<1>3. CASE s = <<"save">>
  BY <1>3 DEF ExistingPlan, Steps
<1> QED
  BY <1>1, <1>2, <1>3 DEF ExistingPlan

\* The plan of setAuthority.
LEMMA AuthorityPlanFacts ==
    ASSUME NEW s \in AuthorityPlan
    PROVE  /\ s \in Seq(Steps) /\ s # <<>>
           /\ Head(s) \in {"multisig", "mintAuthority", "freezeAuthority"}
           /\ Len(s) = 1 <=> Head(s) = "freezeAuthority"
           /\ Head(s) # "freezeAuthority" => Tail(s) \in AuthorityPlan
           /\ Head(s) = "multisig" => Head(Tail(s)) = "mintAuthority"
           /\ Head(s) = "mintAuthority" => Head(Tail(s)) = "freezeAuthority"
<1>1. CASE s = <<"multisig", "mintAuthority", "freezeAuthority">>
  BY <1>1 DEF AuthorityPlan, Steps
<1>2. CASE s = <<"mintAuthority", "freezeAuthority">>
  BY <1>2 DEF AuthorityPlan, Steps
<1>3. CASE s = <<"freezeAuthority">>
  BY <1>3 DEF AuthorityPlan, Steps
<1> QED
  BY <1>1, <1>2, <1>3 DEF AuthorityPlan

\* The plans as createOFT puts them together.
LEMMA SharedPlans ==
    /\ <<"multisig">> \o <<"store", "save">> = <<"multisig", "store", "save">>
    /\ <<"multisig">> \o <<"token", "store", "handOver", "save">>
            = <<"multisig", "token", "store", "handOver", "save">>
    /\ <<>> \o <<"store", "save">> = <<"store", "save">>
    /\ <<>> \o <<"token", "store", "handOver", "save">>
            = <<"token", "store", "handOver", "save">>
<1> DEFINE first == <<"multisig">>
<1>1. first \o <<"store", "save">> = <<"multisig", "store", "save">>
  <2> DEFINE rest == <<"store", "save">>
             s == first \o rest
             t == <<"multisig", "store", "save">>
  <2>1. /\ first \in Seq(Steps) /\ rest \in Seq(Steps) /\ t \in Seq(Steps)
        /\ Len(first) = 1 /\ Len(rest) = 2 /\ Len(t) = 3
        /\ t[1] = first[1] /\ t[2] = rest[1] /\ t[3] = rest[2]
    <3>1. first \in Seq(Steps) /\ rest \in Seq(Steps) /\ t \in Seq(Steps)
      BY DEF Steps
    <3>2. Len(first) = 1 /\ Len(rest) = 2 /\ Len(t) = 3
      OBVIOUS
    <3>3. t[1] = first[1] /\ t[2] = rest[1] /\ t[3] = rest[2]
      OBVIOUS
    <3> QED
      BY <3>1, <3>2, <3>3
  <2> HIDE DEF first, rest, t
  <2>2. /\ s \in Seq(Steps) /\ Len(s) = 3
        /\ \A i \in 1..3 : s[i] = IF i <= 1 THEN first[i] ELSE rest[i - 1]
    <3>1. /\ s \in Seq(Steps)
          /\ Len(s) = Len(first) + Len(rest)
          /\ \A i \in 1..Len(first) + Len(rest) :
                s[i] = IF i <= Len(first) THEN first[i] ELSE rest[i - Len(first)]
      BY <2>1, ConcatProperties, Zenon
    <3> HIDE DEF s
    <3> QED
      BY <2>1, <3>1
  <2>3. \A i \in 1..3 : i = 1 \/ i = 2 \/ i = 3
    OBVIOUS
  <2>4. \A i \in 1..3 : s[i] = t[i]
    BY <2>1, <2>2, <2>3
  <2> HIDE DEF s
  <2>5. s = t
    BY <2>1, <2>2, <2>4, SeqEqual
  <2> QED
    BY <2>5 DEF s, rest, t
<1>2. first \o <<"token", "store", "handOver", "save">>
        = <<"multisig", "token", "store", "handOver", "save">>
  <2> DEFINE rest == <<"token", "store", "handOver", "save">>
             s == first \o rest
             t == <<"multisig", "token", "store", "handOver", "save">>
  <2>1. /\ first \in Seq(Steps) /\ rest \in Seq(Steps) /\ t \in Seq(Steps)
        /\ Len(first) = 1 /\ Len(rest) = 4 /\ Len(t) = 5
        /\ t[1] = first[1] /\ t[2] = rest[1] /\ t[3] = rest[2] /\ t[4] = rest[3]
        /\ t[5] = rest[4]
    <3>1. first \in Seq(Steps) /\ rest \in Seq(Steps) /\ t \in Seq(Steps)
      BY DEF Steps
    <3>2. Len(first) = 1 /\ Len(rest) = 4 /\ Len(t) = 5
      OBVIOUS
    <3>3. /\ t[1] = first[1] /\ t[2] = rest[1] /\ t[3] = rest[2] /\ t[4] = rest[3]
          /\ t[5] = rest[4]
      OBVIOUS
    <3> QED
      BY <3>1, <3>2, <3>3
  <2> HIDE DEF first, rest, t
  <2>2. /\ s \in Seq(Steps) /\ Len(s) = 5
        /\ \A i \in 1..5 : s[i] = IF i <= 1 THEN first[i] ELSE rest[i - 1]
    <3>1. /\ s \in Seq(Steps)
          /\ Len(s) = Len(first) + Len(rest)
          /\ \A i \in 1..Len(first) + Len(rest) :
                s[i] = IF i <= Len(first) THEN first[i] ELSE rest[i - Len(first)]
      BY <2>1, ConcatProperties, Zenon
    <3> HIDE DEF s
    <3> QED
      BY <2>1, <3>1
  <2>3. \A i \in 1..5 : i = 1 \/ i = 2 \/ i = 3 \/ i = 4 \/ i = 5
    OBVIOUS
  <2>4. \A i \in 1..5 : s[i] = t[i]
    BY <2>1, <2>2, <2>3
  <2> HIDE DEF s
  <2>5. s = t
    BY <2>1, <2>2, <2>4, SeqEqual
  <2> QED
    BY <2>5 DEF s, rest, t
<1>3. /\ <<>> \o <<"store", "save">> = <<"store", "save">>
      /\ <<>> \o <<"token", "store", "handOver", "save">>
            = <<"token", "store", "handOver", "save">>
  OBVIOUS
<1> QED
  BY <1>1, <1>2, <1>3

\* What a plan tells of a running task.
LEMMA PlanFacts ==
    ASSUME NEW n, task[n].steps \in PlanOf(n), NEW h, h = Head(task[n].steps),
           task[n].kind \in Kinds
    PROVE  /\ task[n].steps \in Seq(Steps) /\ task[n].steps # <<>> /\ h \in Steps
           /\ h \in SetSteps => task[n].kind = "setAuthority"
           /\ h \in {"store", "save"} => Deploys(n)
           /\ h \in {"token", "handOver"} => Owns(n)
           /\ Len(task[n].steps) = 1 <=> h \in {"save", "freezeAuthority"}
           /\ Len(task[n].steps) # 1 =>
                LET t == Head(Tail(task[n].steps))
                IN  /\ Tail(task[n].steps) \in PlanOf(n)
                    /\ t # "multisig"
                    /\ t \in {"handOver", "save"} => h \in {"store", "handOver"}
                    /\ t = "save" /\ Owns(n) => h = "handOver"
                    /\ t = "freezeAuthority" => h = "mintAuthority"
<1> DEFINE s == task[n].steps
<1>1. CASE task[n].kind = "setAuthority"
  <2>1. s \in AuthorityPlan
    BY <1>1 DEF PlanOf
  <2>2. PlanOf(n) = AuthorityPlan /\ ~ Owns(n) /\ ~ Deploys(n)
    BY <1>1 DEF PlanOf, Owns, Deploys
  <2> HIDE DEF s
  <2> QED
    BY <1>1, <2>1, <2>2, AuthorityPlanFacts DEF SetSteps, Steps, s
<1>2. CASE task[n].kind # "setAuthority" /\ Owns(n)
  <2>1. s \in OwnPlan
    BY <1>2 DEF PlanOf
  <2>2. PlanOf(n) = OwnPlan /\ Deploys(n)
    BY <1>2 DEF PlanOf, Owns, Deploys
  <2> HIDE DEF s
  <2> QED
    BY <1>2, <2>1, <2>2, OwnPlanFacts DEF SetSteps, Steps, s
<1>3. CASE task[n].kind # "setAuthority" /\ ~ Owns(n)
  <2>1. s \in ExistingPlan
    BY <1>3 DEF PlanOf
  <2>2. PlanOf(n) = ExistingPlan /\ Deploys(n)
    BY <1>3 DEF PlanOf, Deploys, Kinds
  <2> HIDE DEF s
  <2> QED
    BY <1>3, <2>1, <2>2, ExistingPlanFacts DEF SetSteps, Steps, s
<1> QED
  BY <1>1, <1>2, <1>3
-----------------------------------------------------------------------------
\* The chain.

\* The tasks before and after a step of task n.
SameTask(k) ==
    /\ task'[k].kind = task[k].kind /\ task'[k].mint = task[k].mint
    /\ task'[k].minters = task[k].minters
    /\ task'[k].authority = task[k].authority /\ task'[k].store = task[k].store

SameStage(k) ==
    /\ task'[k].steps = task[k].steps /\ task'[k].tx = task[k].tx
    /\ task'[k].confirmed = task[k].confirmed /\ task'[k].stopped = task[k].stopped

TasksFollow(n) ==
    /\ DOMAIN task \subseteq DOMAIN task'
    /\ \A k \in DOMAIN task : SameTask(k) /\ (Saved(k) => Saved(k)')
    /\ \A k \in DOMAIN task : k # n => SameStage(k) /\ (task'[k].alone => task[k].alone)

\* What no transaction of a task undoes.
ChainGrows ==
    /\ \A k \in Numbers : multisig[k] # NONE => multisig'[k] = multisig[k]
    /\ \A k \in Numbers : store[k] # NONE => store'[k] = store[k]
    /\ DOMAIN token \subseteq DOMAIN token'
    /\ \A m \in DOMAIN token :
        /\ token[m].mint # WalletKey => token'[m].mint # WalletKey
        /\ token[m].freeze # WalletKey => token'[m].freeze # WalletKey
    /\ \A k \in Numbers : HandedOver(k) => HandedOver(k)'

\* What a transaction of task n leaves alone.
OthersUntouched(n) == \A k \in Numbers : k # n => store'[k] = store[k]

OtherMints(tx) ==
    \A m \in DOMAIN token : (tx.what = "authority" => tx.mint # m) => token'[m] = token[m]

Landed(n, tx) ==
    ChainTyped' /\ MintsFine' /\ ChainGrows /\ OthersUntouched(n) /\ OtherMints(tx)

\* A task is a record of its fields.
LEMMA TaskFacts ==
    ASSUME TasksTyped, NEW n \in DOMAIN task
    PROVE  /\ n \in Numbers
           /\ task[n] \in TaskRecords
           /\ task[n].kind \in Kinds /\ task[n].mint \in Mints
           /\ task[n].minters \subseteq Minters
           /\ task[n].authority \in Authorities /\ task[n].store \in OwnStores
           /\ task[n].tx \in Transactions \cup {NONE}
           /\ task[n].stopped \in {"done", "failed", "no"}
           /\ MintSigners(n) \subseteq Signers
<1>1. n \in 1..Len(task) /\ Len(task) \in Nat /\ Len(task) <= MaxTasks
  BY LenProperties DEF TasksTyped
<1>2. n \in Numbers
  BY <1>1, KeyFacts DEF Numbers
<1>3. task[n] \in TaskRecords
  BY <1>1, ElementOfSeq DEF TasksTyped
<1>4. /\ task[n].kind \in Kinds /\ task[n].mint \in Mints
      /\ task[n].minters \subseteq Minters
      /\ task[n].authority \in Authorities /\ task[n].store \in OwnStores
      /\ task[n].tx \in Transactions \cup {NONE}
      /\ task[n].stopped \in {"done", "failed", "no"}
  BY <1>3 DEF TaskRecords
<1>5. MintSigners(n) \subseteq Signers
  BY <1>4 DEF MintSigners, Signers, OwnStores
<1> QED
  BY <1>2, <1>3, <1>4, <1>5

\* Multisigs that stay keep all who can sign for an authority.
LEMMA SignersStay ==
    ASSUME \A k \in Numbers : multisig[k] # NONE => multisig'[k] = multisig[k],
           NEW key, NEW a, Controls(key, a)
    PROVE  Controls(key, a)'
  BY DEF Controls, SignersOf

\* Tasks are only added: where they all name one store after a step, they all
\* named it before.
LEMMA NamedBefore ==
    ASSUME NEW n, TasksFollow(n), NEW k, StoreNamed(k)'
    PROVE  StoreNamed(k)
<1>1. \A m \in DOMAIN task : m \in DOMAIN task' /\ SameTask(m)
  BY DEF TasksFollow
<1> QED
  BY <1>1 DEF StoreNamed, Sets, SameTask, OwnMint, OwnStore

\* The authorities of a mint that is left alone stay as they should be.
LEMMA MintStaysFine ==
    ASSUME \A k \in Numbers : multisig[k] # NONE => multisig'[k] = multisig[k],
           NEW n, TasksFollow(n), NEW m \in DOMAIN token, MintFine(m), token'[m] = token[m]
    PROVE  MintFine(m)'
<1>1. \A k \in DOMAIN task : k \in DOMAIN task' /\ SameTask(k)
  BY DEF TasksFollow
<1>2. \A k \in DOMAIN task : (Sets(k, m) => Sets(k, m)') /\ (Owns(k) => Owns(k)')
  BY <1>1 DEF Sets, Owns, SameTask
<1>3. ASSUME NEW k \in Numbers, m = OwnMint(k)
      PROVE  /\ k \in DOMAIN task' /\ Owns(k)'
             /\ token'[m].mint # WalletKey /\ StoreNamed(k)' =>
                  Controls(OwnStore(k), token[m].mint)'
  <2>1. k \in DOMAIN task /\ Owns(k)
    BY <1>3 DEF MintFine
  <2>2. ASSUME token'[m].mint # WalletKey, StoreNamed(k)'
        PROVE  Controls(OwnStore(k), token[m].mint)'
    <3>1. Controls(OwnStore(k), token[m].mint)
      BY <1>3, <2>2, NamedBefore DEF MintFine
    <3>2. PICK a : a = token[m].mint
      OBVIOUS
    <3>3. Controls(OwnStore(k), a)'
      BY <3>1, <3>2, SignersStay
    <3> QED
      BY <3>2, <3>3
  <2> QED
    BY <1>1, <1>2, <2>1, <2>2
<1> QED
  BY <1>1, <1>2, <1>3 DEF MintFine

\* A chain on which no authority changes and no mint appears.
LEMMA MintsAlone ==
    ASSUME \A k \in Numbers : multisig[k] # NONE => multisig'[k] = multisig[k],
           NEW n, TasksFollow(n), MintsFine, token' = token
    PROVE  MintsFine'
  BY MintStaysFine DEF MintsFine

\* A new multisig.
LEMMA MultisigLands ==
    ASSUME TasksTyped, ChainTyped, MintsFine, NEW n \in DOMAIN task, TasksFollow(n), NEW tx,
           tx = CreateMultisig(n), Valid(tx), Apply(tx)
    PROVE  Landed(n, tx)
<1>1. tx.what = "multisig" /\ tx.of = n /\ tx.signers = MintSigners(n)
  BY DEF CreateMultisig
<1>2. n \in Numbers /\ MintSigners(n) \subseteq Signers
  BY TaskFacts
<1>3. /\ multisig[n] = NONE
      /\ multisig' = [multisig EXCEPT ![n] = MintSigners(n)]
      /\ store' = store /\ token' = token
  BY <1>1 DEF Valid, Apply
<1>4. \A k \in Numbers : multisig[k] # NONE => multisig'[k] = multisig[k]
  BY <1>3 DEF ChainTyped
<1>5. ChainTyped'
  BY <1>2, <1>3 DEF ChainTyped
<1>6. MintsFine'
  BY <1>3, <1>4, MintsAlone
<1>7. ChainGrows
  BY <1>3, <1>4 DEF ChainGrows, HandedOver
<1>8. OthersUntouched(n) /\ OtherMints(tx)
  BY <1>3 DEF OthersUntouched, OtherMints
<1> QED
  BY <1>5, <1>6, <1>7, <1>8 DEF Landed

\* A new mint is the wallet's.
LEMMA TokenLands ==
    ASSUME TasksTyped, ChainTyped, MintsFine, NEW n \in DOMAIN task, TasksFollow(n), NEW tx,
           Owns(n), tx = CreateToken(n), Valid(tx), Apply(tx)
    PROVE  Landed(n, tx)
<1> DEFINE new == [mint |-> WalletKey, freeze |-> WalletKey]
<1> PICK m : m = task[n].mint
  OBVIOUS
<1>1. tx.what = "token" /\ tx.mint = m
  BY DEF CreateToken
<1>2. m \in Mints
  BY TaskFacts
<1>3. /\ m \notin DOMAIN token
      /\ multisig' = multisig /\ store' = store
      /\ token' = [x \in DOMAIN token \cup {m} |-> IF x = m THEN new ELSE token[x]]
  BY <1>1 DEF Valid, Apply
<1>4. WalletKey \in Authorities
  BY KeyFacts
<1>5. /\ new \in [mint : Authorities, freeze : Authorities]
      /\ new.mint = WalletKey /\ new.freeze = WalletKey
  BY <1>4
<1> HIDE DEF new
<1>6. /\ DOMAIN token' = DOMAIN token \cup {m}
      /\ \A x \in DOMAIN token : token'[x] = token[x]
      /\ token'[m] = new
  BY <1>3
<1>7. ChainTyped'
  <2>1. token' \in [DOMAIN token' -> [mint : Authorities, freeze : Authorities]]
    BY <1>3, <1>5, <1>6 DEF ChainTyped
  <2>2. Existing \in DOMAIN token' /\ DOMAIN token' \subseteq Mints
    BY <1>2, <1>6 DEF ChainTyped
  <2>3. \A k \in Numbers : store'[k] # NONE => store'[k] \in DOMAIN token'
    BY <1>3, <1>6 DEF ChainTyped
  <2> QED
    BY <1>3, <2>1, <2>2, <2>3 DEF ChainTyped
<1>8. MintsFine'
  <2>1. \A x \in DOMAIN token : MintFine(x)'
    BY <1>3, <1>6, MintStaysFine DEF MintsFine
  <2>2. MintFine(m)'
    <3>1. ASSUME NEW k \in Numbers, m = OwnMint(k) PROVE k \in DOMAIN task' /\ Owns(k)'
      <4>1. k = n
        BY <3>1, TaskFacts, KeyFacts DEF Owns
      <4> QED
        BY <4>1 DEF TasksFollow, SameTask, Owns
    <3> QED
      BY <1>5, <1>6, <3>1 DEF MintFine
  <2> QED
    BY <1>6, <2>1, <2>2 DEF MintsFine
<1>9. ChainGrows
  BY <1>3, <1>6 DEF ChainGrows, HandedOver
<1>10. OthersUntouched(n) /\ OtherMints(tx)
  BY <1>3, <1>6 DEF OthersUntouched, OtherMints
<1> QED
  BY <1>7, <1>8, <1>9, <1>10 DEF Landed

\* A new store is over the mint of its task.
LEMMA StoreLands ==
    ASSUME TasksTyped, ChainTyped, MintsFine, NEW n \in DOMAIN task, TasksFollow(n), NEW tx,
           tx = InitOft(n), Valid(tx), Apply(tx)
    PROVE  Landed(n, tx) /\ store'[n] = task[n].mint
<1>1. tx.what = "store" /\ tx.mint = task[n].mint /\ tx.of = n
  BY DEF InitOft
<1>2. n \in Numbers /\ task[n].mint \in Mints
  BY TaskFacts
<1>3. /\ store[n] = NONE /\ task[n].mint \in DOMAIN token
      /\ multisig' = multisig /\ token' = token
      /\ store' = [store EXCEPT ![n] = task[n].mint]
  BY <1>1 DEF Valid, Apply
<1>4. store'[n] = task[n].mint /\ \A k \in Numbers : k # n => store'[k] = store[k]
  BY <1>2, <1>3 DEF ChainTyped
<1>5. ChainTyped'
  BY <1>2, <1>3, <1>4 DEF ChainTyped
<1>6. MintsFine'
  BY <1>3, MintsAlone
<1>7. ChainGrows
  BY <1>3, <1>4 DEF ChainGrows, HandedOver
<1>8. OthersUntouched(n) /\ OtherMints(tx)
  BY <1>3, <1>4 DEF OthersUntouched, OtherMints
<1> QED
  BY <1>4, <1>5, <1>6, <1>7, <1>8 DEF Landed
\* Authorities that are replaced, and those that are not.
LEMMA AuthoritiesReplaced ==
    ASSUME ChainTyped, NEW tx, tx.what = "authority", Valid(tx), Apply(tx),
           NEW R \in SUBSET Roles, tx.new \in [R -> Authorities]
    PROVE  /\ tx.mint \in DOMAIN token
           /\ \A a \in R : MayReplace(token[tx.mint][a], tx.shown[a])
           /\ ChainTyped' /\ multisig' = multisig /\ store' = store
           /\ DOMAIN token' = DOMAIN token
           /\ \A m \in DOMAIN token : m # tx.mint => token'[m] = token[m]
           /\ \A a \in Roles : token'[tx.mint][a] = IF a \in R THEN tx.new[a] ELSE token[tx.mint][a]
<1> DEFINE m == tx.mint
           old == token[m]
           new == [a \in DOMAIN old |-> IF a \in DOMAIN tx.new THEN tx.new[a] ELSE old[a]]
<1>1. /\ m \in DOMAIN token
      /\ \A a \in DOMAIN tx.new : MayReplace(old[a], tx.shown[a])
  BY DEF Valid
<1>2. multisig' = multisig /\ store' = store /\ token' = [token EXCEPT ![m] = new]
  BY DEF Apply
<1>3. old \in [mint : Authorities, freeze : Authorities]
  BY <1>1 DEF ChainTyped
<1>4. DOMAIN old = Roles /\ \A a \in Roles : old[a] \in Authorities
  BY <1>3 DEF Roles
<1>5. DOMAIN tx.new = R /\ \A a \in R : tx.new[a] \in Authorities
  OBVIOUS
<1>6. /\ \A a \in Roles : new[a] = IF a \in R THEN tx.new[a] ELSE old[a]
      /\ DOMAIN new = Roles /\ \A a \in Roles : new[a] \in Authorities
  BY <1>4, <1>5
<1>7. new \in [mint : Authorities, freeze : Authorities]
  <2>1. new \in [Roles -> Authorities]
    BY <1>4, <1>5
  <2> HIDE DEF new
  <2> QED
    BY <2>1 DEF Roles
<1> HIDE DEF new, old, m
<1>8. /\ DOMAIN token' = DOMAIN token
      /\ token'[m] = new
      /\ \A x \in DOMAIN token : x # m => token'[x] = token[x]
  BY <1>1, <1>2 DEF ChainTyped
<1>9. ChainTyped'
  <2>1. token' \in [DOMAIN token' -> [mint : Authorities, freeze : Authorities]]
    BY <1>2, <1>7, <1>8 DEF ChainTyped
  <2> QED
    BY <1>2, <1>8, <2>1 DEF ChainTyped
<1> QED
  BY <1>1, <1>2, <1>5, <1>6, <1>8, <1>9 DEF m, old

\* Whoever gets the mint of a task lets its store mint.
LEMMA StoreControls ==
    ASSUME NEW n \in DOMAIN task, n \in Numbers, MinterReady(n),
           task[n].authority \in {task[n].store, OwnMultisig(n)}
    PROVE  Controls(task[n].store, task[n].authority)
<1>1. CASE task[n].authority = task[n].store
  BY <1>1 DEF Controls, SignersOf
<1>2. CASE task[n].authority = OwnMultisig(n)
  <2>1. multisig[n] # NONE /\ task[n].store \in multisig[n]
    BY <1>2 DEF MinterReady, MintSigners
  <2> QED
    BY <1>2, <2>1 DEF Controls, SignersOf
<1> QED
  BY <1>1, <1>2

\* Both authorities of a new mint leave the wallet.
LEMMA HandOverLands ==
    ASSUME TasksTyped, ChainTyped, MintsFine, NEW n \in DOMAIN task, TasksFollow(n), NEW tx,
           Owns(n), Purpose(n), MinterReady(n),
           NEW freezer \in {NONE, task[n].authority}, tx = HandOverTx(n, freezer),
           Valid(tx), Apply(tx)
    PROVE  Landed(n, tx) /\ HandedOver(n)'
<1> DEFINE m == OwnMint(n)
           to == task[n].authority
<1>1. n \in Numbers /\ to \in Authorities
  BY TaskFacts
<1>2. task[n].mint = m /\ task[n].store = OwnStore(n) /\ to \in {OwnStore(n), OwnMultisig(n)}
  BY DEF Owns, Purpose, Deploys
<1>3. /\ tx.what = "authority" /\ tx.mint = m
      /\ tx.new = [mint |-> to, freeze |-> freezer]
      /\ tx.shown = [mint |-> WalletKey, freeze |-> WalletKey]
  BY <1>2 DEF HandOverTx
<1>4. freezer \in Authorities /\ WalletKey \notin {to, freezer}
  BY <1>1, <1>2, KeyFacts
<1>5. tx.new \in [Roles -> Authorities] /\ tx.new["mint"] = to /\ tx.new["freeze"] = freezer
  BY <1>1, <1>3, <1>4 DEF Roles
<1> HIDE DEF to, m
<1>6. /\ m \in DOMAIN token
      /\ \A a \in Roles : MayReplace(token[m][a], tx.shown[a])
      /\ ChainTyped' /\ multisig' = multisig /\ store' = store
      /\ DOMAIN token' = DOMAIN token
      /\ \A x \in DOMAIN token : x # m => token'[x] = token[x]
      /\ \A a \in Roles : token'[m][a] = tx.new[a]
  BY <1>3, <1>5, AuthoritiesReplaced
<1>7. token[m].mint = WalletKey /\ token[m].freeze = WalletKey
  BY <1>3, <1>6 DEF Roles, MayReplace
<1>8. token'[m].mint = to /\ token'[m].freeze = freezer
  BY <1>5, <1>6 DEF Roles
<1>9. HandedOver(n)'
  BY <1>4, <1>6, <1>8 DEF HandedOver, m
<1>10. \A k \in Numbers : OwnMint(k) = m => k = n
  BY <1>1, KeyFacts DEF m
<1>11. MintFine(m)'
  <2>1. PICK t : t = to
    OBVIOUS
  <2>2. Controls(OwnStore(n), t)
    BY <1>1, <1>2, <2>1, StoreControls DEF to
  <2>3. Controls(OwnStore(n), t)'
    BY <1>6, <2>2, SignersStay
  <2>4. n \in DOMAIN task' /\ Owns(n)'
    BY DEF TasksFollow, SameTask, Owns
  <2>5. token'[m].mint = t /\ WalletKey \notin {token'[m].mint, token'[m].freeze}
    BY <1>4, <1>8, <2>1
  <2>6. ASSUME NEW k \in Numbers, m = OwnMint(k)
        PROVE  k \in DOMAIN task' /\ Owns(k)' /\ Controls(OwnStore(k), token[m].mint)'
    BY <1>10, <2>3, <2>4, <2>5, <2>6
  <2> QED
    BY <2>5, <2>6 DEF MintFine
<1>12. MintsFine'
  BY <1>6, <1>11, MintStaysFine DEF MintsFine
<1>13. ChainGrows
  <2>1. \A x \in DOMAIN token :
          /\ token[x].mint # WalletKey => token'[x].mint # WalletKey
          /\ token[x].freeze # WalletKey => token'[x].freeze # WalletKey
    BY <1>4, <1>6, <1>8
  <2> QED
    BY <1>6, <2>1 DEF ChainGrows, HandedOver
<1>14. OthersUntouched(n) /\ OtherMints(tx)
  BY <1>3, <1>6 DEF OthersUntouched, OtherMints
<1> QED
  BY <1>6, <1>9, <1>12, <1>13, <1>14 DEF Landed

\* setAuthority moves one authority to a multisig in which the store it is
\* given signs.
LEMMA SetLands ==
    ASSUME TasksTyped, ChainTyped, MintsFine, NEW n \in DOMAIN task, TasksFollow(n), NEW tx,
           Purpose(n), task[n].kind = "setAuthority", MinterReady(n),
           NEW role \in Roles, role = "freeze" => Released(n, "mint"),
           NEW current \in Authorities, tx = SetTx(n, role, current),
           Valid(tx), Apply(tx)
    PROVE  /\ Landed(n, tx)
           /\ \A a \in Roles : token'[task[n].mint][a] =
                IF a = role THEN task[n].authority ELSE token[task[n].mint][a]
<1> PICK x, to : x = task[n].mint /\ to = task[n].authority
  OBVIOUS
<1>1. n \in Numbers /\ to \in Authorities
  BY TaskFacts
<1>2. to = OwnMultisig(n) /\ to # WalletKey
  BY <1>1, KeyFacts DEF Purpose
<1>3. Sets(n, x)
  BY DEF Sets
<1>4. /\ tx.what = "authority" /\ tx.mint = x
      /\ tx.new = [a \in {role} |-> to] /\ tx.shown = [a \in {role} |-> current]
  BY DEF SetTx
<1>5. tx.new \in [{role} -> Authorities] /\ tx.new[role] = to /\ {role} \in SUBSET Roles
  BY <1>1, <1>4
<1>6. Controls(task[n].store, to)
  BY <1>1, <1>2, StoreControls
<1>7. /\ x \in DOMAIN token
      /\ ChainTyped' /\ multisig' = multisig /\ store' = store
      /\ DOMAIN token' = DOMAIN token
      /\ \A y \in DOMAIN token : y # x => token'[y] = token[y]
      /\ \A a \in Roles : token'[x][a] = IF a = role THEN to ELSE token[x][a]
  BY <1>4, <1>5, AuthoritiesReplaced
<1>8. /\ token'[x].mint = IF role = "mint" THEN to ELSE token[x].mint
      /\ token'[x].freeze = IF role = "freeze" THEN to ELSE token[x].freeze
      /\ role \in {"mint", "freeze"}
  BY <1>7 DEF Roles
<1>9. token'[x].mint # WalletKey
  <2>1. role = "freeze" => token[x].mint # WalletKey
    BY DEF Released
  <2> QED
    BY <1>2, <1>8, <2>1
<1>10. MintFine(x)'
  <2>1. Sets(n, x)' /\ n \in DOMAIN task'
    BY <1>3 DEF TasksFollow, SameTask, Sets
  <2>2. MintFine(x)
    BY <1>7 DEF MintsFine
  <2>3. ASSUME NEW k \in Numbers, x = OwnMint(k)
        PROVE  /\ k \in DOMAIN task' /\ Owns(k)'
               /\ StoreNamed(k)' => Controls(OwnStore(k), token[x].mint)'
    <3>1. k \in DOMAIN task /\ Owns(k)
      BY <2>2, <2>3 DEF MintFine
    <3>2. k \in DOMAIN task' /\ Owns(k)'
      BY <3>1 DEF TasksFollow, SameTask, Owns
    <3>3. ASSUME StoreNamed(k)' PROVE Controls(OwnStore(k), token[x].mint)'
      <4>1. StoreNamed(k)
        BY <3>3, NamedBefore
      <4>2. task[n].store = OwnStore(k)
        BY <1>3, <2>3, <4>1 DEF StoreNamed
      <4>3. PICK a : a = token'[x].mint
        OBVIOUS
      <4>4. Controls(OwnStore(k), a)
        <5>1. CASE role = "mint"
          BY <1>6, <1>8, <4>2, <4>3, <5>1
        <5>2. CASE role # "mint"
          <6>1. a = token[x].mint /\ a # WalletKey
            BY <1>8, <1>9, <4>3, <5>2
          <6> QED
            BY <2>2, <2>3, <4>1, <6>1 DEF MintFine
        <5> QED
          BY <5>1, <5>2
      <4>5. Controls(OwnStore(k), a)'
        BY <1>7, <4>4, SignersStay
      <4> QED
        BY <4>3, <4>5
    <3> QED
      BY <3>2, <3>3
  <2> QED
    BY <1>9, <2>1, <2>3 DEF MintFine
<1>11. MintsFine'
  BY <1>7, <1>10, MintStaysFine DEF MintsFine
<1>12. ChainGrows
  <2>1. \A y \in DOMAIN token :
          /\ token[y].mint # WalletKey => token'[y].mint # WalletKey
          /\ token[y].freeze # WalletKey => token'[y].freeze # WalletKey
    BY <1>2, <1>7, <1>8
  <2> QED
    BY <1>7, <2>1 DEF ChainGrows, HandedOver
<1>13. OthersUntouched(n) /\ OtherMints(tx)
  BY <1>4, <1>7 DEF OthersUntouched, OtherMints
<1> QED
  BY <1>7, <1>11, <1>12, <1>13 DEF Landed

-----------------------------------------------------------------------------
\* Any transaction of a task, and what it is for.
Effect(n, step) ==
    /\ step = "store" => store'[n] = task[n].mint
    /\ step = "handOver" => HandedOver(n)'
    /\ step \in SetSteps =>
        \A a \in Roles : token'[task[n].mint][a] =
            IF a = RoleOf(step) THEN task[n].authority ELSE token[task[n].mint][a]

\* Whatever a task made, landing does what its step is for and harms nobody.
LEMMA Lands ==
    ASSUME TasksTyped, ChainTyped, MintsFine, NEW n \in DOMAIN task, TasksFollow(n), Purpose(n),
           NEW step, NEW tx, MadeBy(n, step, tx), Valid(tx), Apply(tx)
    PROVE  Landed(n, tx) /\ Effect(n, step)
<1>1. CASE step = "multisig" /\ tx = CreateMultisig(n)
  BY <1>1, MultisigLands DEF Effect, SetSteps
<1>2. CASE step = "token" /\ Owns(n) /\ tx = CreateToken(n)
  BY <1>2, TokenLands DEF Effect, SetSteps
<1>3. CASE step = "store" /\ tx = InitOft(n)
  BY <1>3, StoreLands DEF Effect, SetSteps
<1>4. ASSUME step = "handOver", Owns(n), MinterReady(n),
             NEW freezer \in {NONE, task[n].authority}, tx = HandOverTx(n, freezer)
      PROVE  Landed(n, tx) /\ Effect(n, step)
  BY <1>4, HandOverLands DEF Effect, SetSteps
<1>5. ASSUME step \in SetSteps, task[n].kind = "setAuthority", MinterReady(n),
             step = "freezeAuthority" => Released(n, "mint"),
             NEW current \in Authorities, tx = SetTx(n, RoleOf(step), current)
      PROVE  Landed(n, tx) /\ Effect(n, step)
  <2>1. /\ RoleOf(step) \in Roles
        /\ RoleOf(step) = "freeze" => Released(n, "mint")
    BY <1>5 DEF RoleOf, Roles, SetSteps
  <2>2. PICK role \in Roles : role = RoleOf(step)
    BY <2>1
  <2>3. tx = SetTx(n, role, current)
    BY <1>5, <2>2
  <2>4. /\ Landed(n, tx)
        /\ \A a \in Roles : token'[task[n].mint][a] =
             IF a = role THEN task[n].authority ELSE token[task[n].mint][a]
    BY <1>5, <2>1, <2>2, <2>3, SetLands
  <2> QED
    BY <1>5, <2>2, <2>4 DEF Effect, SetSteps
<1> QED
  BY <1>1, <1>2, <1>3, <1>4, <1>5 DEF MadeBy

\* A transaction names its task, and only the mint of its task.
LEMMA TxFacts ==
    ASSUME TasksTyped, ChainTyped, NEW n \in DOMAIN task, NEW step, NEW tx, MadeBy(n, step, tx)
    PROVE  /\ tx \in Transactions /\ tx.of = n
           /\ step = "multisig" <=> tx.what = "multisig"
           /\ step = "token" <=> tx.what = "token"
           /\ step = "store" <=> tx.what = "store"
           /\ step \in SetSteps \cup {"handOver"} <=> tx.what = "authority"
           /\ tx.what = "authority" => tx.mint = task[n].mint
<1>1. /\ n \in Numbers /\ task[n].mint \in Mints /\ task[n].authority \in Authorities
      /\ MintSigners(n) \subseteq Signers
  BY TaskFacts
<1>2. {WalletKey, NONE} \subseteq Authorities
  BY KeyFacts
<1>3. CASE step = "multisig" /\ tx = CreateMultisig(n)
  BY <1>1, <1>3 DEF CreateMultisig, Transactions, SetSteps
<1>4. CASE step = "token" /\ tx = CreateToken(n)
  BY <1>1, <1>4 DEF CreateToken, Transactions, SetSteps
<1>5. CASE step = "store" /\ tx = InitOft(n)
  BY <1>1, <1>5 DEF InitOft, Transactions, SetSteps
<1>6. ASSUME step = "handOver", NEW freezer \in {NONE, task[n].authority},
             tx = HandOverTx(n, freezer)
      PROVE  /\ tx \in Transactions /\ tx.of = n
             /\ tx.what = "authority" /\ tx.mint = task[n].mint
  <2>1. [mint |-> WalletKey, freeze |-> WalletKey] \in [Roles -> Authorities]
    BY <1>2 DEF Roles
  <2>2. [mint |-> task[n].authority, freeze |-> freezer] \in [Roles -> Authorities]
    BY <1>1, <1>2 DEF Roles
  <2>3. Roles \in SUBSET Roles
    OBVIOUS
  <2> QED
    BY <1>1, <1>6, <2>1, <2>2, <2>3 DEF HandOverTx, Transactions
<1>7. ASSUME step \in SetSteps, NEW current \in Authorities, tx = SetTx(n, RoleOf(step), current)
      PROVE  /\ tx \in Transactions /\ tx.of = n
             /\ tx.what = "authority" /\ tx.mint = task[n].mint
  <2>1. PICK role \in Roles : role = RoleOf(step)
    BY DEF RoleOf, Roles
  <2>2. /\ {role} \in SUBSET Roles
        /\ [x \in {role} |-> current] \in [{role} -> Authorities]
        /\ [x \in {role} |-> task[n].authority] \in [{role} -> Authorities]
    BY <1>1
  <2> QED
    BY <1>1, <1>7, <2>1, <2>2 DEF SetTx, Transactions
<1> QED
  BY <1>3, <1>4, <1>5, <1>6, <1>7 DEF MadeBy, SetSteps

-----------------------------------------------------------------------------
(***************************************************************************)
(* What the tasks that do not act see of a step of task n: the chain grows *)
(* and theirs is left alone.                                               *)
(***************************************************************************)
Undisturbed(k) ==
    task'[k].alone /\ task[k].mint \in DOMAIN token => token'[task[k].mint] = token[task[k].mint]

ChainFollows(n) ==
    /\ ChainTyped' /\ MintsFine' /\ ChainGrows /\ OthersUntouched(n)
    /\ \A k \in DOMAIN task : k # n => Undisturbed(k)

\* A multisig that is ready stays so.
LEMMA ReadyKept ==
    ASSUME ChainGrows, NEW k \in Numbers, SameTask(k), MinterReady(k)
    PROVE  MinterReady(k)'
  BY DEF ChainGrows, SameTask, MinterReady, MintSigners

\* What the wallet has given up stays so.
LEMMA ReleasedKept ==
    ASSUME ChainGrows, NEW k, SameTask(k), NEW role \in Roles, Released(k, role)
    PROVE  Released(k, role)'
  BY DEF ChainGrows, SameTask, Released, Roles

\* What a task made stays its transaction.
LEMMA MadeByKept ==
    ASSUME ChainGrows, NEW k \in Numbers, SameTask(k), NEW step, NEW tx, MadeBy(k, step, tx)
    PROVE  MadeBy(k, step, tx)'
<1>1. /\ (Owns(k) <=> Owns(k)') /\ (Deploys(k) <=> Deploys(k)')
      /\ task'[k].kind = task[k].kind /\ task'[k].authority = task[k].authority
  BY DEF SameTask, Owns, Deploys
<1>2. MinterReady(k) => MinterReady(k)'
  BY ReadyKept
<1>3. /\ CreateMultisig(k)' = CreateMultisig(k) /\ CreateToken(k)' = CreateToken(k)
      /\ InitOft(k)' = InitOft(k)
  BY DEF SameTask, CreateMultisig, CreateToken, InitOft, MintSigners
<1>4. \A f : HandOverTx(k, f)' = HandOverTx(k, f)
  BY DEF SameTask, HandOverTx
<1>5. \A r, c : SetTx(k, r, c)' = SetTx(k, r, c)
  BY DEF SameTask, SetTx
<1>6. Released(k, "mint") => Released(k, "mint")'
  BY ReleasedKept DEF Roles
<1> QED
  BY <1>1, <1>2, <1>3, <1>4, <1>5, <1>6 DEF MadeBy

\* The purpose of a task stands.
LEMMA PurposeKept ==
    ASSUME ChainGrows, NEW k, SameTask(k), Purpose(k)
    PROVE  Purpose(k)'
  BY DEF ChainGrows, SameTask, Purpose, Deploys, Owns

\* What a task that has stopped has left behind stays.
LEMMA FinishedKept ==
    ASSUME TasksTyped, ChainGrows, NEW k \in DOMAIN task, SameTask(k), SameStage(k), Finished(k)
    PROVE  Finished(k)'
<1>1. k \in Numbers /\ task[k].mint \in Mints
  BY TaskFacts
<1>2. /\ Owns(k)' <=> Owns(k)
      /\ Saved(k)' => Saved(k)
      /\ task'[k].kind = task[k].kind /\ task'[k].stopped = task[k].stopped
  BY DEF SameTask, SameStage, Owns, Saved, Deploys
<1>3. Saved(k) => store'[k] = task'[k].mint
  BY <1>1, KeyFacts DEF ChainGrows, SameTask, Finished
<1>4. MinterReady(k) => MinterReady(k)'
  BY <1>1, ReadyKept
<1>5. HandedOver(k) => HandedOver(k)'
  BY <1>1 DEF ChainGrows
<1>6. Released(k, "freeze") => Released(k, "freeze")'
  BY ReleasedKept DEF Roles
<1> QED
  BY <1>2, <1>3, <1>4, <1>5, <1>6 DEF Finished

\* The mint of setAuthority exists.
LEMMA TargetExists ==
    ASSUME NEW k, task[k].kind = "setAuthority", Purpose(k)
    PROVE  task[k].mint \in DOMAIN token
  BY DEF Purpose, Owns

\* How far another task has come is not changed.
LEMMA ProgressKept ==
    ASSUME TasksTyped, ChainTyped, NEW n, TasksFollow(n), ChainFollows(n),
           NEW k \in DOMAIN task, k # n, Purpose(k), Progress(k)
    PROVE  Progress(k)'
<1> DEFINE next == Head(task[k].steps)
<1>1. k \in Numbers /\ SameTask(k) /\ SameStage(k) /\ task[k].mint \in Mints /\ task[k].kind \in Kinds
  BY TaskFacts DEF TasksFollow
<1>2. (Running(k)' <=> Running(k)) /\ PlanOf(k)' = PlanOf(k) /\ (Owns(k)' <=> Owns(k))
  BY <1>1 DEF SameTask, SameStage, Running, PlanOf, Owns
<1>3. /\ Running(k) => task[k].steps \in PlanOf(k)
      /\ Running(k) /\ task[k].confirmed => task[k].tx # NONE
      /\ Running(k) /\ next = "multisig" =>
            task[k].kind # "adapter" /\ task[k].authority = OwnMultisig(k)
      /\ Running(k) /\ next # "multisig" /\ task[k].kind # "adapter" => MinterReady(k)
      /\ Running(k) /\ next \in {"handOver", "save"} => store[k] = task[k].mint
      /\ Running(k) /\ next = "save" /\ Owns(k) => HandedOver(k)
      /\ Running(k) /\ next = "freezeAuthority" => Released(k, "mint")
      /\ Running(k) /\ next = "freezeAuthority" /\ task[k].alone =>
            token[task[k].mint].mint = task[k].authority
  BY DEF Progress
<1>4. ChainGrows /\ Undisturbed(k)
  BY DEF ChainFollows
<1>5. MinterReady(k) => MinterReady(k)'
  BY <1>1, <1>4, ReadyKept
<1>6. Running(k) /\ next \in {"handOver", "save"} => store'[k] = task[k].mint
  BY <1>1, <1>3, <1>4, KeyFacts DEF ChainGrows
<1>7. HandedOver(k) => HandedOver(k)'
  BY <1>1, <1>4 DEF ChainGrows
<1>8. Running(k) /\ next = "freezeAuthority" /\ task'[k].alone =>
        token'[task[k].mint].mint = task[k].authority
  <2>1. SUFFICES ASSUME Running(k), next = "freezeAuthority", task'[k].alone
                 PROVE  token'[task[k].mint].mint = task[k].authority
    OBVIOUS
  <2>2. task[k].kind = "setAuthority"
    BY <1>1, <1>3, <2>1, PlanFacts DEF SetSteps
  <2>3. task[k].mint \in DOMAIN token
    BY <2>2, TargetExists
  <2>4. task[k].alone
    BY <2>1 DEF TasksFollow
  <2> QED
    BY <1>3, <1>4, <2>1, <2>3, <2>4 DEF Undisturbed
<1>9. next' = next
  BY <1>1 DEF SameStage
<1>10. Released(k, "mint") => Released(k, "mint")'
  BY <1>1, <1>4, ReleasedKept DEF Roles
<1> QED
  BY <1>1, <1>2, <1>3, <1>5, <1>6, <1>7, <1>8, <1>9, <1>10 DEF Progress, SameTask, SameStage
\* What another task waits for is not taken from it.
LEMMA PendingKept ==
    ASSUME TasksTyped, ChainTyped, NEW n, TasksFollow(n), ChainFollows(n),
           NEW k \in DOMAIN task, k # n, Purpose(k), Pending(k)
    PROVE  Pending(k)'
<1> DEFINE next == Head(task[k].steps)
           role == RoleOf(next)
<1>1. k \in Numbers /\ SameTask(k) /\ SameStage(k) /\ task[k].mint \in Mints
  BY TaskFacts DEF TasksFollow
<1>2. ChainGrows /\ OthersUntouched(n) /\ Undisturbed(k)
  BY DEF ChainFollows
<1>3. SUFFICES ASSUME Running(k), task[k].tx # NONE PROVE Pending(k)'
  BY <1>1 DEF Pending, SameStage, Running
<1>4. /\ MadeBy(k, next, task[k].tx)
      /\ next = "store" =>
            IF task[k].confirmed THEN store[k] = task[k].mint
            ELSE store[k] = NONE /\ task[k].mint \in DOMAIN token
      /\ next = "handOver" =>
            IF task[k].confirmed THEN HandedOver(k) ELSE OwnMint(k) \in DOMAIN token
      /\ next \in SetSteps /\ task[k].alone =>
            IF task[k].confirmed THEN Replaced(k, role) ELSE Replaceable(k, role)
      /\ next \in SetSteps =>
            \/ Released(k, role)
            \/ ~ task[k].confirmed /\ task[k].tx.shown[role] = WalletKey
  BY <1>3 DEF Pending
<1>5. role \in Roles
  BY DEF RoleOf, Roles
<1>6. MadeBy(k, next, task[k].tx)'
  <2>1. PICK h, t : h = next /\ t = task[k].tx
    OBVIOUS
  <2>2. MadeBy(k, h, t)'
    BY <1>1, <1>2, <1>4, <2>1, MadeByKept
  <2>3. next' = h /\ task'[k].tx = t
    BY <1>1, <2>1 DEF SameStage
  <2> QED
    BY <2>2, <2>3 DEF MadeBy
<1>7. next = "store" =>
        IF task'[k].confirmed THEN store'[k] = task'[k].mint
        ELSE store'[k] = NONE /\ task'[k].mint \in DOMAIN token'
  BY <1>1, <1>2, <1>4, KeyFacts DEF SameTask, SameStage, ChainGrows, OthersUntouched
<1>8. next = "handOver" =>
        IF task'[k].confirmed THEN HandedOver(k)' ELSE OwnMint(k) \in DOMAIN token'
  BY <1>1, <1>2, <1>4 DEF SameStage, ChainGrows
<1>9. PICK r \in Roles : r = role
  BY <1>5
<1>10. next \in SetSteps /\ task'[k].alone =>
        IF task'[k].confirmed THEN Replaced(k, r)' ELSE Replaceable(k, r)'
  <2> SUFFICES ASSUME next \in SetSteps, task'[k].alone
               PROVE  IF task'[k].confirmed THEN Replaced(k, r)' ELSE Replaceable(k, r)'
    OBVIOUS
  <2>1. task[k].kind = "setAuthority"
    BY <1>4 DEF MadeBy, SetSteps
  <2>2. task[k].mint \in DOMAIN token
    BY <2>1, TargetExists
  <2>3. task[k].alone
    BY DEF TasksFollow
  <2>4. token'[task'[k].mint] = token[task[k].mint]
    BY <1>1, <1>2, <2>2 DEF Undisturbed, SameTask
  <2>5. IF task[k].confirmed THEN Replaced(k, r) ELSE Replaceable(k, r)
    BY <1>4, <1>9, <2>3
  <2>6. CASE task[k].confirmed
    BY <1>1, <2>4, <2>5, <2>6 DEF SameTask, SameStage, Replaced
  <2>7. CASE ~ task[k].confirmed
    <3>1. PICK h, c : h = token[task[k].mint][r] /\ c = task[k].tx.shown[r]
      OBVIOUS
    <3>2. h = c /\ Controls(WalletKey, h)
      BY <2>5, <2>7, <3>1 DEF Replaceable, MayReplace
    <3>3. Controls(WalletKey, h)'
      BY <1>2, <3>2, SignersStay DEF ChainGrows
    <3>4. /\ token'[task'[k].mint][r] = h /\ task'[k].tx.shown[r] = c
          /\ task'[k].confirmed = task[k].confirmed
      BY <1>1, <2>4, <3>1 DEF SameStage
    <3>5. MayReplace(h, c)'
      BY <3>2, <3>3 DEF MayReplace
    <3>6. Replaceable(k, r)'
      BY <3>4, <3>5 DEF Replaceable
    <3> QED
      BY <2>7, <3>4, <3>6
  <2> QED
    BY <2>6, <2>7
<1>11. next' = next /\ RoleOf(next') = r
  BY <1>1, <1>9 DEF SameStage
<1>12. next \in SetSteps =>
        \/ Released(k, r)'
        \/ ~ task'[k].confirmed /\ task'[k].tx.shown[r] = WalletKey
  <2>1. Released(k, r) => Released(k, r)'
    BY <1>1, <1>2, ReleasedKept
  <2> QED
    BY <1>1, <1>4, <1>9, <2>1 DEF SameStage
<1> HIDE DEF next
<1> QED
  BY <1>6, <1>7, <1>8, <1>10, <1>11, <1>12 DEF Pending, next

\* Nor is a transaction that may land late.
LEMMA LateKept ==
    ASSUME TasksTyped, NEW n, TasksFollow(n), ChainFollows(n), NEW k \in Numbers, k # n,
           late'[k] = late[k], LateMade(k)
    PROVE  LateMade(k)'
<1>1. SUFFICES ASSUME late[k] # NONE PROVE LateMade(k)'
  BY DEF LateMade
<1>2. PICK step \in Steps : k \in DOMAIN task /\ task[k].stopped = "failed" /\ MadeBy(k, step, late[k])
  BY <1>1 DEF LateMade
<1>3. k \in DOMAIN task' /\ SameTask(k) /\ task'[k].stopped = "failed" /\ ChainGrows
  BY <1>2 DEF TasksFollow, SameStage, ChainFollows
<1>4. PICK t : t = late[k]
  OBVIOUS
<1>5. MadeBy(k, step, t)'
  BY <1>2, <1>3, <1>4, MadeByKept
<1>6. late'[k] = t
  BY <1>4
<1> QED
  BY <1>3, <1>5, <1>6 DEF LateMade, MadeBy

\* What the file names stays saved.
LEMMA FileKept ==
    ASSUME NEW n, TasksFollow(n), FileSaved, file' = file
    PROVE  FileSaved'
<1>1. \A k \in DOMAIN task : k \in DOMAIN task' /\ SameTask(k) /\ (Saved(k) => Saved(k)')
  BY DEF TasksFollow
<1> QED
  BY <1>1 DEF FileSaved, SameTask

\* So a step of task n keeps the invariant if it keeps that of task n.
LEMMA OthersKeep ==
    ASSUME Inv, NEW n \in Numbers, TasksTyped', DOMAIN task' \subseteq DOMAIN task \cup {n},
           TasksFollow(n), ChainFollows(n), TaskInv(n)',
           late' \in [Numbers -> Transactions \cup {NONE}], LateMade(n)',
           \A k \in Numbers : k # n => late'[k] = late[k], FileSaved'
    PROVE  Inv'
<1>1. TasksTyped /\ ChainTyped /\ \A k \in DOMAIN task : TaskInv(k)
  BY DEF Inv
<1>2. ASSUME NEW k \in DOMAIN task' PROVE TaskInv(k)'
  <2>1. CASE k = n
    BY <2>1
  <2>2. CASE k # n
    <3>1. k \in DOMAIN task
      BY <1>2, <2>2
    <3>2. TaskInv(k) /\ ChainGrows /\ SameTask(k) /\ SameStage(k)
      BY <1>1, <2>2, <3>1 DEF ChainFollows, TasksFollow
    <3>3. Purpose(k)' /\ Progress(k)' /\ Pending(k)'
      BY <1>1, <2>2, <3>1, <3>2, PurposeKept, ProgressKept, PendingKept DEF TaskInv
    <3>4. Finished(k)'
      BY <1>1, <3>1, <3>2, FinishedKept DEF TaskInv
    <3> QED
      BY <3>3, <3>4 DEF TaskInv
  <2> QED
    BY <2>1, <2>2
<1>3. ASSUME NEW k \in Numbers PROVE LateMade(k)'
  <2>1. CASE k = n
    BY <2>1
  <2>2. CASE k # n
    BY <1>1, <1>3, <2>2, LateKept DEF Inv
  <2> QED
    BY <2>1, <2>2
<1>4. ChainTyped' /\ MintsFine'
  BY DEF ChainFollows
<1> QED
  BY <1>2, <1>3, <1>4 DEF Inv

-----------------------------------------------------------------------------
\* The steps of a task.

\* A step that leaves the chain alone.
LEMMA ChainAlone ==
    ASSUME UNCHANGED <<token, multisig, store>>
    PROVE  ChainGrows
  BY DEF ChainGrows, HandedOver

\* And as the other tasks see it.
LEMMA AloneFollows ==
    ASSUME ChainTyped, MintsFine, UNCHANGED <<token, multisig, store>>, NEW n, TasksFollow(n)
    PROVE  ChainFollows(n) /\ ChainGrows
<1>1. ChainTyped'
  BY DEF ChainTyped
<1>2. MintsFine'
  BY MintsAlone
<1>3. OthersUntouched(n) /\ \A k \in DOMAIN task : Undisturbed(k)
  BY DEF OthersUntouched, Undisturbed
<1> QED
  BY <1>1, <1>2, <1>3, ChainAlone DEF ChainFollows

\* One task's record is replaced.
LEMMA RecordReplaced ==
    ASSUME TasksTyped, NEW n \in DOMAIN task, NEW r \in TaskRecords,
           task' = [task EXCEPT ![n] = r],
           r.kind = task[n].kind, r.mint = task[n].mint, r.minters = task[n].minters,
           r.authority = task[n].authority, r.store = task[n].store,
           Running(n)
    PROVE  /\ TasksTyped' /\ DOMAIN task' = DOMAIN task
           /\ task'[n] = r /\ \A k \in DOMAIN task : k # n => task'[k] = task[k]
           /\ TasksFollow(n) /\ SameTask(n)
<1>1. DOMAIN task = 1..Len(task) /\ Len(task) <= MaxTasks
  BY LenProperties DEF TasksTyped
<1>2. task' \in Seq(TaskRecords) /\ Len(task') = Len(task)
  BY <1>1, ExceptSeq DEF TasksTyped
<1>3. /\ DOMAIN task' = DOMAIN task /\ task'[n] = r
      /\ \A k \in DOMAIN task : k # n => task'[k] = task[k]
  OBVIOUS
<1>4. TasksTyped'
  BY <1>1, <1>2 DEF TasksTyped
<1>5. SameTask(n)
  BY <1>3 DEF SameTask
<1>6. ~ Saved(n)
  BY DEF Saved, Running
<1>7. \A k \in DOMAIN task : k # n =>
        /\ SameTask(k) /\ SameStage(k) /\ (Saved(k) => Saved(k)')
        /\ (task'[k].alone => task[k].alone)
  BY <1>3 DEF SameTask, SameStage, Saved, Deploys
<1>8. TasksFollow(n)
  BY <1>3, <1>5, <1>6, <1>7 DEF TasksFollow
<1> QED
  BY <1>3, <1>4, <1>5, <1>8

\* A task that stops.
LEMMA StoppedFacts ==
    ASSUME TasksTyped, NEW n \in DOMAIN task, Running(n), NEW how \in Stops,
           task' = Stopped(n, how)
    PROVE  /\ TasksTyped' /\ DOMAIN task' = DOMAIN task /\ TasksFollow(n) /\ SameTask(n)
           /\ task'[n].stopped = how /\ ~ Running(n)'
<1> DEFINE r == [task[n] EXCEPT !.stopped = how, !.steps = <<>>, !.tx = NONE,
                                !.confirmed = FALSE, !.alone = FALSE, !.onlyOftStore = FALSE]
<1>1. task[n] \in TaskRecords
  BY TaskFacts
<1>2. <<>> \in Seq(Steps) /\ how \in {"done", "failed", "no"}
  BY EmptySeq DEF Stops
<1>3. r \in TaskRecords
  BY <1>1, <1>2 DEF TaskRecords
<1>4. /\ r.kind = task[n].kind /\ r.mint = task[n].mint /\ r.minters = task[n].minters
      /\ r.authority = task[n].authority /\ r.store = task[n].store /\ r.stopped = how
  BY <1>1 DEF TaskRecords
<1>5. task' = [task EXCEPT ![n] = r]
  BY DEF Stopped
<1> HIDE DEF r
<1>6. /\ TasksTyped' /\ DOMAIN task' = DOMAIN task
      /\ task'[n] = r /\ TasksFollow(n) /\ SameTask(n)
  BY <1>3, <1>4, <1>5, RecordReplaced
<1>7. how # "no"
  BY DEF Stops
<1> QED
  BY <1>4, <1>6, <1>7 DEF Running

\* A task that stops keeps its part of the invariant, if what it did is finished.
LEMMA StopKeeps ==
    ASSUME Inv, NEW n \in DOMAIN task, Running(n), NEW how \in Stops, task' = Stopped(n, how),
           UNCHANGED <<token, multisig, store>>, Finished(n)'
    PROVE  TaskInv(n)'
<1>1. TasksTyped /\ Purpose(n)
  BY DEF Inv, TaskInv
<1>2. SameTask(n) /\ ~ Running(n)'
  BY <1>1, StoppedFacts
<1>3. Purpose(n)'
  BY <1>1, <1>2, ChainAlone, PurposeKept
<1>4. Progress(n)' /\ Pending(n)'
  BY <1>2 DEF Progress, Pending
<1> QED
  BY <1>3, <1>4 DEF TaskInv

\* A task that fails, whatever it had in hand.
LEMMA FailKeeps ==
    ASSUME Inv, NEW n \in DOMAIN task, Running(n), task' = Stopped(n, "failed"),
           UNCHANGED <<token, multisig, store, file>>,
           late' \in [Numbers -> Transactions \cup {NONE}], LateMade(n)',
           \A k \in Numbers : k # n => late'[k] = late[k]
    PROVE  Inv'
<1>1. TasksTyped /\ ChainTyped /\ MintsFine /\ FileSaved /\ "failed" \in Stops
  BY DEF Inv, Stops
<1>2. /\ TasksTyped' /\ DOMAIN task' = DOMAIN task /\ TasksFollow(n)
      /\ task'[n].stopped = "failed"
  BY <1>1, StoppedFacts
<1>3. Finished(n)'
  BY <1>2 DEF Finished, Saved
<1>4. TaskInv(n)'
  BY <1>1, <1>3, StopKeeps
<1>5. ChainFollows(n) /\ n \in Numbers
  BY <1>1, <1>2, AloneFollows, TaskFacts
<1>6. FileSaved'
  BY <1>1, <1>2, FileKept
<1> QED
  BY <1>2, <1>4, <1>5, <1>6, OthersKeep

\* A task that runs has nothing that may land late.
LEMMA RunningLate ==
    ASSUME NEW n \in Numbers, LateMade(n), Running(n), n \in DOMAIN task
    PROVE  late[n] = NONE
  BY DEF LateMade, Running
\* The operator stops a task; what it had sent may land later.
LEMMA GiveUpKeeps ==
    ASSUME Inv, NEW n \in DOMAIN task, GiveUp(n)
    PROVE  Inv'
<1>1. /\ TasksTyped /\ TaskInv(n) /\ late \in [Numbers -> Transactions \cup {NONE}]
      /\ \A k \in Numbers : LateMade(k)
  BY DEF Inv
<1>2. n \in Numbers /\ task[n].tx \in Transactions \cup {NONE} /\ task[n].kind \in Kinds
  BY <1>1, TaskFacts
<1>3. /\ Running(n) /\ task' = Stopped(n, "failed")
      /\ UNCHANGED <<token, multisig, store, file>>
      /\ \/ late' = late
         \/ late' = [late EXCEPT ![n] = IF task[n].confirmed THEN NONE ELSE task[n].tx]
  BY DEF GiveUp
<1>4. /\ late' \in [Numbers -> Transactions \cup {NONE}]
      /\ \A k \in Numbers : k # n => late'[k] = late[k]
      /\ late'[n] \in {late[n], NONE, task[n].tx}
  BY <1>1, <1>2, <1>3
<1>5. late[n] = NONE
  BY <1>1, <1>2, <1>3, RunningLate
<1>6. LateMade(n)'
  <2>1. SUFFICES ASSUME late'[n] # NONE PROVE LateMade(n)'
    BY DEF LateMade
  <2>2. late'[n] = task[n].tx /\ task[n].tx # NONE
    BY <1>4, <1>5, <2>1
  <2>3. MadeBy(n, Head(task[n].steps), task[n].tx)
    BY <1>1, <1>3, <2>2 DEF TaskInv, Pending
  <2>4. task[n].steps \in PlanOf(n)
    BY <1>1, <1>3 DEF TaskInv, Progress
  <2>5. PICK h, t : h = Head(task[n].steps) /\ t = task[n].tx
    OBVIOUS
  <2>6. h \in Steps
    BY <1>2, <2>4, <2>5, PlanFacts
  <2>7. /\ DOMAIN task' = DOMAIN task /\ SameTask(n) /\ task'[n].stopped = "failed"
    BY <1>1, <1>3, StoppedFacts DEF Stops
  <2>8. ChainGrows
    BY <1>3, ChainAlone
  <2>9. MadeBy(n, h, t)'
    BY <1>2, <2>3, <2>5, <2>7, <2>8, MadeByKept
  <2>10. late'[n] = t
    BY <2>2, <2>5
  <2> QED
    BY <2>6, <2>7, <2>9, <2>10 DEF LateMade, MadeBy
<1> QED
  BY <1>3, <1>4, <1>6, FailKeeps

\* The transaction of its next step is what a task may make.
LEMMA NextTxMade ==
    ASSUME Inv, NEW n \in DOMAIN task, Running(n), MaySave(n) = FALSE
    PROVE  MadeBy(n, Head(task[n].steps), TxOf(n))
<1> DEFINE h == Head(task[n].steps)
<1>1. TasksTyped /\ ChainTyped /\ TaskInv(n)
  BY DEF Inv, TaskInv
<1>2. task[n].steps \in PlanOf(n) /\ task[n].kind \in Kinds
  BY <1>1, TaskFacts DEF TaskInv, Progress
<1>3. /\ h \in Steps
      /\ h \in SetSteps => task[n].kind = "setAuthority"
      /\ h = "store" => Deploys(n)
      /\ h \in {"token", "handOver"} => Owns(n)
  BY <1>2, PlanFacts
<1>4. /\ h = "multisig" => task[n].kind # "adapter" /\ task[n].authority = OwnMultisig(n)
      /\ h # "multisig" /\ task[n].kind # "adapter" => MinterReady(n)
      /\ h = "freezeAuthority" => Released(n, "mint")
  BY <1>1 DEF TaskInv, Progress
<1> HIDE DEF h
<1>5. CASE h = "multisig"
  BY <1>4, <1>5 DEF MadeBy, TxOf, h
<1>6. CASE h = "token"
  BY <1>3, <1>6 DEF MadeBy, TxOf, h
<1>7. CASE h = "store"
  BY <1>3, <1>7 DEF MadeBy, TxOf, h
<1>8. CASE h = "handOver"
  <2>1. Owns(n) /\ MinterReady(n)
    BY <1>3, <1>4, <1>8 DEF Owns
  <2>2. TxOf(n) = HandOver(n)
    BY <1>8 DEF TxOf, h
  <2>3. \E freezer \in {NONE, task[n].authority} : HandOver(n) = HandOverTx(n, freezer)
    BY DEF HandOver, HandOverTx
  <2> QED
    BY <1>8, <2>1, <2>2, <2>3 DEF MadeBy, h
<1>9. CASE h \in SetSteps
  <2>1. task[n].kind = "setAuthority" /\ MinterReady(n)
    BY <1>3, <1>4, <1>9 DEF SetSteps
  <2>2. task[n].mint \in DOMAIN token
    BY <1>1, <2>1, TargetExists DEF TaskInv
  <2>3. token[task[n].mint][RoleOf(h)] \in Authorities
    BY <1>1, <2>2 DEF ChainTyped, RoleOf
  <2>4. TxOf(n) = SetAuthority(n, RoleOf(h))
    BY <1>9 DEF TxOf, h, SetSteps, RoleOf
  <2>5. SetAuthority(n, RoleOf(h)) = SetTx(n, RoleOf(h), token[task[n].mint][RoleOf(h)])
    BY DEF SetAuthority, SetTx
  <2> QED
    BY <1>4, <1>9, <2>1, <2>3, <2>4, <2>5 DEF MadeBy, h
<1>10. h # "save"
  BY DEF MaySave, h
<1> QED
  BY <1>3, <1>5, <1>6, <1>7, <1>8, <1>9, <1>10 DEF Steps, SetSteps

\* What a task waits for is valid when it was checked, and stays so.
LEMMA PendingFromValid ==
    ASSUME NEW n \in DOMAIN task, NEW step, NEW tx, MadeBy(n, step, tx), Valid(tx)
    PROVE  /\ step = "store" => store[n] = NONE /\ task[n].mint \in DOMAIN token
           /\ step = "handOver" => WalletHas(n)
           /\ step \in SetSteps =>
                MayReplace(token[task[n].mint][RoleOf(step)], tx.shown[RoleOf(step)])
<1>1. step = "store" => store[n] = NONE /\ task[n].mint \in DOMAIN token
  BY DEF MadeBy, Valid, InitOft, SetSteps
<1>2. ASSUME step = "handOver" PROVE WalletHas(n)
  <2>1. PICK freezer \in {NONE, task[n].authority} : tx = HandOverTx(n, freezer)
    BY <1>2 DEF MadeBy, SetSteps
  <2>2. Owns(n)
    BY <1>2 DEF MadeBy, SetSteps
  <2>3. /\ tx.what = "authority" /\ tx.mint = OwnMint(n)
        /\ DOMAIN tx.new = {"mint", "freeze"}
        /\ tx.shown["mint"] = WalletKey /\ tx.shown["freeze"] = WalletKey
    BY <2>1, <2>2 DEF HandOverTx, Owns
  <2>4. /\ tx.mint \in DOMAIN token
        /\ \A a \in DOMAIN tx.new : MayReplace(token[tx.mint][a], tx.shown[a])
    BY <2>3 DEF Valid
  <2> QED
    BY <2>3, <2>4 DEF WalletHas, MayReplace
<1>3. ASSUME step \in SetSteps
      PROVE  MayReplace(token[task[n].mint][RoleOf(step)], tx.shown[RoleOf(step)])
  <2>1. PICK current \in Authorities : tx = SetTx(n, RoleOf(step), current)
    BY <1>3 DEF MadeBy, SetSteps
  <2>2. PICK role : role = RoleOf(step)
    OBVIOUS
  <2>3. tx.what = "authority" /\ tx.mint = task[n].mint /\ DOMAIN tx.new = {role}
    BY <2>1, <2>2 DEF SetTx
  <2>4. \A a \in DOMAIN tx.new : MayReplace(token[tx.mint][a], tx.shown[a])
    BY <2>3 DEF Valid
  <2> QED
    BY <2>2, <2>3, <2>4
<1> QED
  BY <1>1, <1>2, <1>3

\* And what is valid in that way is valid.
LEMMA ValidFromPending ==
    ASSUME ChainTyped, NEW n \in DOMAIN task, NEW step, NEW tx, MadeBy(n, step, tx),
           \/ step = "store" /\ store[n] = NONE /\ task[n].mint \in DOMAIN token
           \/ step = "handOver" /\ WalletHas(n)
           \/ /\ step \in SetSteps /\ task[n].mint \in DOMAIN token
              /\ MayReplace(token[task[n].mint][RoleOf(step)], tx.shown[RoleOf(step)])
    PROVE  Valid(tx)
<1>1. CASE step = "store" /\ store[n] = NONE /\ task[n].mint \in DOMAIN token
  BY <1>1 DEF MadeBy, Valid, InitOft, SetSteps
<1>2. CASE step = "handOver" /\ WalletHas(n)
  <2>1. PICK freezer \in {NONE, task[n].authority} : tx = HandOverTx(n, freezer)
    BY <1>2 DEF MadeBy, SetSteps
  <2>2. Owns(n)
    BY <1>2 DEF MadeBy, SetSteps
  <2>3. /\ tx.what = "authority" /\ tx.mint = OwnMint(n)
        /\ DOMAIN tx.new = {"mint", "freeze"}
        /\ tx.shown["mint"] = WalletKey /\ tx.shown["freeze"] = WalletKey
    BY <2>1, <2>2 DEF HandOverTx, Owns
  <2>4. /\ OwnMint(n) \in DOMAIN token
        /\ token[OwnMint(n)]["mint"] = WalletKey /\ token[OwnMint(n)]["freeze"] = WalletKey
    BY <1>2 DEF WalletHas
  <2>5. MayReplace(WalletKey, WalletKey)
    BY DEF MayReplace, Controls, SignersOf
  <2> QED
    BY <2>3, <2>4, <2>5 DEF Valid
<1>3. CASE /\ step \in SetSteps /\ task[n].mint \in DOMAIN token
           /\ MayReplace(token[task[n].mint][RoleOf(step)], tx.shown[RoleOf(step)])
  <2>1. PICK current \in Authorities : tx = SetTx(n, RoleOf(step), current)
    BY <1>3 DEF MadeBy, SetSteps
  <2>2. PICK role : role = RoleOf(step)
    OBVIOUS
  <2>3. tx.what = "authority" /\ tx.mint = task[n].mint /\ DOMAIN tx.new = {role}
    BY <2>1, <2>2 DEF SetTx
  <2>4. MayReplace(token[tx.mint][role], tx.shown[role]) /\ tx.mint \in DOMAIN token
    BY <1>3, <2>2, <2>3
  <2> QED
    BY <2>3, <2>4 DEF Valid
<1> QED
  BY <1>1, <1>2, <1>3
\* A task that goes on, on an unchanged chain.
LEMMA GoOnKeeps ==
    ASSUME Inv, NEW n \in DOMAIN task, Running(n), TasksTyped', DOMAIN task' = DOMAIN task,
           TasksFollow(n), UNCHANGED <<token, multisig, store, late, file>>,
           Progress(n)', Pending(n)', Finished(n)'
    PROVE  Inv'
<1>1. /\ TasksTyped /\ ChainTyped /\ MintsFine /\ TaskInv(n) /\ FileSaved
      /\ late \in [Numbers -> Transactions \cup {NONE}] /\ \A k \in Numbers : LateMade(k)
  BY DEF Inv
<1>2. n \in Numbers
  BY <1>1, TaskFacts
<1>3. Purpose(n)'
  BY <1>1, ChainAlone, PurposeKept DEF TaskInv, TasksFollow
<1>4. late'[n] = NONE
  BY <1>1, <1>2, RunningLate
<1>5. TaskInv(n)' /\ LateMade(n)'
  BY <1>3, <1>4 DEF TaskInv, LateMade
<1>6. FileSaved' /\ ChainFollows(n)
  BY <1>1, FileKept, AloneFollows
<1> QED
  BY <1>1, <1>2, <1>5, <1>6, OthersKeep

\* A task that fails before it has sent anything, or after it has landed.
LEMMA FailsKeeps ==
    ASSUME Inv, NEW n \in DOMAIN task, Running(n), task' = Stopped(n, "failed"),
           UNCHANGED <<token, multisig, store, late, file>>
    PROVE  Inv'
<1>1. /\ TasksTyped /\ late \in [Numbers -> Transactions \cup {NONE}]
      /\ \A k \in Numbers : LateMade(k)
  BY DEF Inv
<1>2. n \in Numbers
  BY <1>1, TaskFacts
<1>3. late'[n] = NONE
  BY <1>1, <1>2, RunningLate
<1>4. LateMade(n)'
  BY <1>3 DEF LateMade
<1> QED
  BY <1>1, <1>4, FailKeeps

\* A transaction is sent once the node has found it valid.
LEMMA SendKeeps ==
    ASSUME Inv, NEW n \in DOMAIN task, Send(n)
    PROVE  Inv'
<1> DEFINE h == Head(task[n].steps)
           t == TxOf(n)
           r == [task[n] EXCEPT !.tx = t]
<1>1. /\ Running(n) /\ task[n].tx = NONE /\ MaySave(n) = FALSE
      /\ UNCHANGED <<token, multisig, store, late, file>>
      /\ \/ task' = Stopped(n, "failed")
         \/ Valid(t) /\ task' = [task EXCEPT ![n] = r]
  BY DEF Send, MaySave
<1>2. CASE task' = Stopped(n, "failed")
  BY <1>1, <1>2, FailsKeeps
<1>3. CASE Valid(t) /\ task' = [task EXCEPT ![n] = r]
  <2>1. TasksTyped /\ ChainTyped /\ MintsFine /\ TaskInv(n)
    BY DEF Inv
  <2>2. MadeBy(n, h, t)
    BY <1>1, NextTxMade
  <2>3. n \in Numbers /\ task[n] \in TaskRecords
    BY <2>1, TaskFacts
  <2>4. t \in Transactions
    BY <2>1, <2>2, TxFacts
  <2> HIDE DEF t
  <2>5. r \in TaskRecords
    BY <2>3, <2>4 DEF TaskRecords
  <2>6. /\ r.kind = task[n].kind /\ r.mint = task[n].mint /\ r.minters = task[n].minters
        /\ r.authority = task[n].authority /\ r.store = task[n].store
        /\ r.steps = task[n].steps /\ r.tx = t /\ r.confirmed = task[n].confirmed
        /\ r.stopped = task[n].stopped /\ r.alone = task[n].alone
    BY <2>3 DEF TaskRecords
  <2> HIDE DEF r
  <2>7. /\ TasksTyped' /\ DOMAIN task' = DOMAIN task /\ task'[n] = r
        /\ TasksFollow(n) /\ SameTask(n)
    BY <1>1, <1>3, <2>1, <2>5, <2>6, RecordReplaced
  <2>8. /\ task'[n].steps = task[n].steps /\ task'[n].tx = t /\ ~ task'[n].confirmed
        /\ task'[n].alone = task[n].alone /\ Running(n)'
    BY <1>1, <2>1, <2>6, <2>7 DEF TaskInv, Progress, Running
  <2>9. ChainGrows
    BY <1>1, <2>1, ChainAlone
  <2>10. PICK step, tx : step = h /\ tx = t
    OBVIOUS
  <2>11. MadeBy(n, step, tx)'
    BY <2>2, <2>3, <2>7, <2>9, <2>10, MadeByKept
  <2>12. Head(task'[n].steps) = step /\ task'[n].tx = tx
    BY <2>8, <2>10
  <2>13. /\ step = "store" => store[n] = NONE /\ task[n].mint \in DOMAIN token
         /\ step = "handOver" => WalletHas(n)
         /\ step \in SetSteps =>
              MayReplace(token[task[n].mint][RoleOf(step)], tx.shown[RoleOf(step)])
    BY <1>3, <2>2, <2>10, PendingFromValid
  <2>14. Pending(n)'
    <3>1. step = "store" => store'[n] = NONE /\ task'[n].mint \in DOMAIN token'
      BY <1>1, <2>7, <2>13 DEF SameTask
    <3>2. step = "handOver" => OwnMint(n) \in DOMAIN token'
      BY <1>1, <2>13 DEF WalletHas
    <3>3. step \in SetSteps => Replaceable(n, RoleOf(step))'
      BY <1>1, <2>7, <2>12, <2>13 DEF SameTask, Replaceable, MayReplace, Controls, SignersOf
    <3>4. step \in SetSteps =>
            \/ Released(n, RoleOf(step))'
            \/ ~ task'[n].confirmed /\ tx.shown[RoleOf(step)] = WalletKey
      <4> SUFFICES ASSUME step \in SetSteps, tx.shown[RoleOf(step)] # WalletKey
                   PROVE  Released(n, RoleOf(step))'
        BY <2>8
      <4>1. task[n].mint \in DOMAIN token
        BY <2>1, <2>2, <2>10, TargetExists DEF TaskInv, MadeBy, SetSteps
      <4>2. token[task[n].mint][RoleOf(step)] # WalletKey
        BY <2>13 DEF MayReplace
      <4> QED
        BY <1>1, <2>7, <4>1, <4>2 DEF SameTask, Released
    <3> QED
      BY <2>8, <2>11, <2>12, <3>1, <3>2, <3>3, <3>4 DEF Pending
  <2>15. Progress(n)'
    <3>1. Progress(n)
      BY <2>1 DEF TaskInv
    <3>2. /\ PlanOf(n)' = PlanOf(n) /\ (Owns(n)' <=> Owns(n))
          /\ (MinterReady(n) => MinterReady(n)') /\ (HandedOver(n) => HandedOver(n)')
          /\ (Released(n, "mint") => Released(n, "mint")')
      BY <2>3, <2>7, <2>9, ReadyKept, ReleasedKept DEF SameTask, PlanOf, Owns, ChainGrows, Roles
    <3> QED
      BY <1>1, <2>7, <2>8, <3>1, <3>2 DEF Progress, SameTask
  <2>16. Finished(n)'
    BY <2>8 DEF Finished, Saved, Running
  <2> QED
    BY <1>1, <2>7, <2>14, <2>15, <2>16, GoOnKeeps
<1> QED
  BY <1>1, <1>2, <1>3

\* A task that goes on to its next step has done the one before.
LEMMA AdvanceKeeps ==
    ASSUME Inv, NEW n \in DOMAIN task, Running(n), task[n].tx # NONE, task[n].confirmed,
           AccountInitialized(n), SignersChecked(n), Len(task[n].steps) # 1,
           task' = [task EXCEPT ![n].steps = Tail(@), ![n].tx = NONE, ![n].confirmed = FALSE],
           UNCHANGED <<token, multisig, store, late, file>>
    PROVE  Inv'
<1> DEFINE s == task[n].steps
           h == Head(s)
           t == Head(Tail(s))
           r == [task[n] EXCEPT !.steps = Tail(s), !.tx = NONE, !.confirmed = FALSE]
<1>1. /\ TasksTyped /\ ChainTyped /\ MintsFine
      /\ Purpose(n) /\ Progress(n) /\ Pending(n)
  BY DEF Inv, TaskInv
<1>2. n \in Numbers /\ task[n] \in TaskRecords /\ task[n].kind \in Kinds
  BY <1>1, TaskFacts
<1>3. s \in PlanOf(n)
  BY <1>1 DEF Progress
<1>4. /\ s \in Seq(Steps) /\ s # <<>> /\ Tail(s) \in PlanOf(n)
      /\ t # "multisig"
      /\ t \in {"handOver", "save"} => h \in {"store", "handOver"}
      /\ t = "save" /\ Owns(n) => h = "handOver"
      /\ t = "freezeAuthority" => h = "mintAuthority"
  BY <1>2, <1>3, PlanFacts
<1>5. Tail(s) \in Seq(Steps)
  BY <1>4, HeadTailProperties
<1>6. task' = [task EXCEPT ![n] = r]
  OBVIOUS
<1>7. r \in TaskRecords
  BY <1>2, <1>5 DEF TaskRecords
<1>8. /\ r.kind = task[n].kind /\ r.mint = task[n].mint /\ r.minters = task[n].minters
      /\ r.authority = task[n].authority /\ r.store = task[n].store
      /\ r.steps = Tail(s) /\ r.tx = NONE /\ r.confirmed = FALSE
      /\ r.stopped = task[n].stopped /\ r.alone = task[n].alone
  BY <1>2 DEF TaskRecords
<1>9. MadeBy(n, h, task[n].tx)
  BY <1>1 DEF Pending
<1>10. task[n].tx.what = "multisig" <=> h = "multisig"
  BY <1>1, <1>9, TxFacts
<1>11. /\ h = "store" => store[n] = task[n].mint
       /\ h = "handOver" => HandedOver(n)
       /\ h = "mintAuthority" /\ task[n].alone => Replaced(n, "mint")
       /\ h = "mintAuthority" => Released(n, "mint")
  BY <1>1 DEF Pending, SetSteps, RoleOf
<1>12. task[n].kind # "adapter" => MinterReady(n)
  <2>1. CASE h = "multisig"
    BY <1>10, <2>1 DEF AccountInitialized, SignersChecked, MinterReady
  <2>2. CASE h # "multisig"
    BY <1>1, <2>2 DEF Progress
  <2> QED
    BY <2>1, <2>2
<1>13. t \in {"handOver", "save"} => store[n] = task[n].mint
  <2>1. h = "handOver" => store[n] = task[n].mint
    BY <1>1 DEF Progress
  <2> QED
    BY <1>4, <1>11, <2>1
<1> HIDE DEF r, s, h, t
<1>14. /\ TasksTyped' /\ DOMAIN task' = DOMAIN task /\ task'[n] = r
       /\ TasksFollow(n) /\ SameTask(n)
  BY <1>1, <1>6, <1>7, <1>8, RecordReplaced
<1>15. /\ task'[n].steps = Tail(s) /\ task'[n].tx = NONE /\ task'[n].confirmed = FALSE
       /\ task'[n].alone = task[n].alone /\ Running(n)' /\ Head(task'[n].steps) = t
  BY <1>8, <1>14 DEF Running, t
<1>16. ChainGrows
  BY ChainAlone
<1>17. /\ PlanOf(n)' = PlanOf(n) /\ (Owns(n)' <=> Owns(n))
       /\ (MinterReady(n) => MinterReady(n)') /\ (HandedOver(n) => HandedOver(n)')
       /\ (Released(n, "mint") => Released(n, "mint")')
  BY <1>2, <1>14, <1>16, ReadyKept, ReleasedKept DEF SameTask, PlanOf, Owns, ChainGrows, Roles
<1>18. Progress(n)'
  <2>1. /\ task'[n].kind # "adapter" => MinterReady(n)'
        /\ t \in {"handOver", "save"} => store'[n] = task'[n].mint
        /\ t = "save" /\ Owns(n)' => HandedOver(n)'
        /\ t = "freezeAuthority" => Released(n, "mint")'
        /\ t = "freezeAuthority" /\ task'[n].alone =>
              token'[task'[n].mint].mint = task'[n].authority
    BY <1>4, <1>11, <1>12, <1>13, <1>14, <1>15, <1>17 DEF SameTask, Replaced
  <2> QED
    BY <1>4, <1>15, <1>17, <2>1 DEF Progress
<1>19. Pending(n)' /\ Finished(n)'
  BY <1>15 DEF Pending, Finished, Saved, Running
<1> QED
  BY <1>14, <1>18, <1>19, GoOnKeeps

\* setAuthority ends when its last transaction is confirmed.
LEMMA LastStep ==
    ASSUME Inv, NEW n \in DOMAIN task, Running(n), task[n].tx # NONE, Len(task[n].steps) = 1
    PROVE  task[n].kind = "setAuthority" /\ Head(task[n].steps) = "freezeAuthority"
<1> DEFINE h == Head(task[n].steps)
<1>1. TasksTyped /\ Progress(n) /\ Pending(n)
  BY DEF Inv, TaskInv
<1>2. task[n].kind \in Kinds /\ task[n].steps \in PlanOf(n)
  BY <1>1, TaskFacts DEF Progress
<1>3. h \in {"save", "freezeAuthority"} /\ (h \in SetSteps => task[n].kind = "setAuthority")
  BY <1>2, PlanFacts
<1>4. MadeBy(n, h, task[n].tx)
  BY <1>1 DEF Pending
<1>5. h # "save"
  BY <1>4 DEF MadeBy, SetSteps
<1> QED
  BY <1>3, <1>5 DEF SetSteps

\* A task looks at what it has made and goes on, ends, or fails.
LEMMA ProceedKeeps ==
    ASSUME Inv, NEW n \in DOMAIN task, Proceed(n)
    PROVE  Inv'
<1>1. /\ Running(n) /\ task[n].tx # NONE /\ task[n].confirmed
      /\ task' = IF AccountInitialized(n) /\ SignersChecked(n) THEN AfterStep(n)
                 ELSE Stopped(n, "failed")
      /\ UNCHANGED <<token, multisig, store, late, file>>
  BY DEF Proceed
<1>2. CASE task' = Stopped(n, "failed")
  BY <1>1, <1>2, FailsKeeps
<1>3. CASE AccountInitialized(n) /\ SignersChecked(n) /\ Len(task[n].steps) = 1
  <2>1. /\ task' = Stopped(n, "done") /\ task[n].kind = "setAuthority"
        /\ Head(task[n].steps) = "freezeAuthority"
    BY <1>1, <1>3, LastStep DEF AfterStep
  <2>2. TasksTyped /\ Pending(n) /\ "done" \in Stops
    BY DEF Inv, TaskInv, Stops
  <2>3. /\ TasksTyped' /\ DOMAIN task' = DOMAIN task /\ TasksFollow(n) /\ SameTask(n)
        /\ ~ Running(n)'
    BY <1>1, <2>1, <2>2, StoppedFacts
  <2>4. Progress(n)' /\ Pending(n)'
    BY <2>3 DEF Progress, Pending
  <2>5. Released(n, "freeze")
    BY <1>1, <2>1, <2>2 DEF Pending, SetSteps, RoleOf
  <2>6. Released(n, "freeze")'
    BY <1>1, <2>3, <2>5, ChainAlone, ReleasedKept DEF Roles
  <2>7. Finished(n)'
    BY <2>1, <2>3, <2>6 DEF Finished, Saved, Deploys, SameTask
  <2> QED
    BY <1>1, <2>3, <2>4, <2>7, GoOnKeeps
<1>4. CASE AccountInitialized(n) /\ SignersChecked(n) /\ Len(task[n].steps) # 1
  <2>1. task' = [task EXCEPT ![n].steps = Tail(@), ![n].tx = NONE, ![n].confirmed = FALSE]
    BY <1>1, <1>4 DEF AfterStep
  <2> QED
    BY <1>1, <1>4, <2>1, AdvanceKeeps
<1> QED
  BY <1>1, <1>2, <1>3, <1>4

\* A deployment saves its file when all is done.
LEMMA SaveKeeps ==
    ASSUME Inv, NEW n \in DOMAIN task, Save(n)
    PROVE  Inv'
<1>1. /\ Running(n) /\ Head(task[n].steps) = "save" /\ task' = Stopped(n, "done")
      /\ file' = [mint |-> task[n].mint, mintAuthority |-> task[n].authority,
                  store |-> task[n].store]
      /\ UNCHANGED <<token, multisig, store, late>>
  BY DEF Save, MaySave
<1>2. /\ TasksTyped /\ ChainTyped /\ MintsFine /\ TaskInv(n) /\ Progress(n)
      /\ late \in [Numbers -> Transactions \cup {NONE}] /\ \A k \in Numbers : LateMade(k)
      /\ "done" \in Stops
  BY DEF Inv, TaskInv, Stops
<1>3. n \in Numbers /\ task[n].kind \in Kinds
  BY <1>2, TaskFacts
<1>4. task[n].steps \in PlanOf(n)
  BY <1>1, <1>2 DEF Progress
<1>5. Deploys(n)
  BY <1>1, <1>3, <1>4, PlanFacts
<1>6. /\ store[n] = task[n].mint
      /\ task[n].kind # "adapter" => MinterReady(n)
      /\ Owns(n) => HandedOver(n)
  BY <1>1, <1>2 DEF Progress
<1>7. /\ TasksTyped' /\ DOMAIN task' = DOMAIN task /\ TasksFollow(n) /\ SameTask(n)
      /\ task'[n].stopped = "done"
  BY <1>1, <1>2, StoppedFacts
<1>8. ChainFollows(n) /\ ChainGrows
  BY <1>1, <1>2, <1>7, AloneFollows
<1>9. Finished(n)'
  <2>1. MinterReady(n) => MinterReady(n)'
    BY <1>3, <1>7, <1>8, ReadyKept
  <2>2. Owns(n)' => HandedOver(n)'
    BY <1>3, <1>6, <1>7, <1>8 DEF SameTask, Owns, ChainGrows
  <2>3. task'[n].kind # "setAuthority"
    BY <1>5, <1>7 DEF Deploys, SameTask
  <2> QED
    BY <1>1, <1>6, <1>7, <2>1, <2>2, <2>3 DEF Finished, SameTask
<1>10. TaskInv(n)'
  BY <1>1, <1>2, <1>9, StopKeeps
<1>11. late'[n] = NONE
  BY <1>1, <1>2, <1>3, RunningLate
<1>12. LateMade(n)'
  BY <1>11 DEF LateMade
<1>13. FileSaved'
  <2>1. Saved(n)'
    BY <1>5, <1>7 DEF Saved, Deploys, SameTask
  <2> QED
    BY <1>1, <1>7, <2>1 DEF FileSaved, SameTask
<1> QED
  BY <1>1, <1>2, <1>3, <1>7, <1>8, <1>10, <1>12, <1>13, OthersKeep

\* The tasks when a transaction of task n has landed: r is what n is then.
Marked(n, tx, r) ==
    /\ TasksTyped' /\ DOMAIN task' = DOMAIN task
    /\ TasksFollow(n) /\ SameTask(n)
    /\ task'[n].steps = r.steps /\ task'[n].tx = r.tx
    /\ task'[n].confirmed = r.confirmed /\ task'[n].stopped = r.stopped
    /\ task'[n].alone = r.alone
    /\ \A k \in DOMAIN task : k # n /\ task'[k].alone /\ tx.what = "authority" =>
         tx.mint # task[k].mint

\* Every record but that of n keeps all but, perhaps, being alone with its mint.
LEMMA NotedFacts ==
    ASSUME TasksTyped, NEW n \in DOMAIN task, NEW tx, tx.of = n, NEW r \in TaskRecords,
           r.kind = task[n].kind, r.mint = task[n].mint, r.minters = task[n].minters,
           r.authority = task[n].authority, r.store = task[n].store,
           r.stopped = task[n].stopped,
           task' = Noted(tx, [task EXCEPT ![n] = r])
    PROVE  Marked(n, tx, r)
<1> DEFINE base == [task EXCEPT ![n] = r]
           mark(k) == base[k].alone /\ (k = tx.of \/ tx.what # "authority" \/ base[k].mint # tx.mint)
<1>1. /\ DOMAIN task = 1..Len(task) /\ Len(task) \in Nat /\ Len(task) <= MaxTasks
      /\ \A k \in DOMAIN task : task[k] \in TaskRecords
  BY LenProperties, TaskFacts DEF TasksTyped
<1>2. /\ DOMAIN base = DOMAIN task /\ base[n] = r
      /\ \A k \in DOMAIN task : k # n => base[k] = task[k]
      /\ \A k \in DOMAIN task : base[k] \in TaskRecords
  BY <1>1
<1>3. task' = [k \in DOMAIN base |-> [base[k] EXCEPT !.alone = mark(k)]]
  BY DEF Noted
<1> HIDE DEF base
<1>4. \A k \in DOMAIN task : base[k].alone \in BOOLEAN
  BY <1>2 DEF TaskRecords
<1>5. \A k \in DOMAIN task : mark(k) \in BOOLEAN /\ (mark(k) => base[k].alone)
  BY <1>4
<1>6. mark(n) <=> base[n].alone
  OBVIOUS
<1>7. \A k \in DOMAIN task : k # n /\ mark(k) /\ tx.what = "authority" => base[k].mint # tx.mint
  OBVIOUS
<1> HIDE DEF mark
<1>8. DOMAIN task' = DOMAIN task
  BY <1>2, <1>3
<1>9. ASSUME NEW k \in DOMAIN task
      PROVE  /\ task'[k] \in TaskRecords
             /\ task'[k].kind = base[k].kind /\ task'[k].mint = base[k].mint
             /\ task'[k].minters = base[k].minters /\ task'[k].authority = base[k].authority
             /\ task'[k].store = base[k].store /\ task'[k].steps = base[k].steps
             /\ task'[k].tx = base[k].tx /\ task'[k].confirmed = base[k].confirmed
             /\ task'[k].stopped = base[k].stopped /\ task'[k].alone = mark(k)
  <2>1. task'[k] = [base[k] EXCEPT !.alone = mark(k)]
    BY <1>2, <1>3, <1>9
  <2>2. base[k] \in TaskRecords /\ mark(k) \in BOOLEAN
    BY <1>2, <1>5, <1>9
  <2> QED
    BY <2>1, <2>2 DEF TaskRecords
<1>10. TasksTyped'
  <2>1. task' \in [1..Len(task) -> TaskRecords]
    <3>1. DOMAIN base = 1..Len(task)
      BY <1>1, <1>2
    <3>2. \A k \in 1..Len(task) : [base[k] EXCEPT !.alone = mark(k)] \in TaskRecords
      BY <1>1, <1>3, <1>8, <1>9
    <3> QED
      BY <1>3, <3>1, <3>2
  <2>2. task' \in Seq(TaskRecords)
    BY <1>1, <2>1, SeqDef
  <2>3. Len(task') = Len(task)
    <3>1. Len(task') \in Nat /\ DOMAIN task' = 1..Len(task')
      BY <2>2, LenProperties
    <3>2. \A i, j \in Nat : 1..i = 1..j => i = j
      OBVIOUS
    <3> QED
      BY <1>1, <1>8, <3>1, <3>2
  <2> QED
    BY <1>1, <2>2, <2>3 DEF TasksTyped
<1>11. SameTask(n)
  BY <1>2, <1>9 DEF SameTask
<1>12. ASSUME NEW k \in DOMAIN task, k # n
       PROVE  SameTask(k) /\ SameStage(k)
  <2>1. base[k] = task[k]
    BY <1>2, <1>12
  <2>2. /\ task'[k].kind = base[k].kind /\ task'[k].mint = base[k].mint
        /\ task'[k].minters = base[k].minters /\ task'[k].authority = base[k].authority
        /\ task'[k].store = base[k].store /\ task'[k].steps = base[k].steps
        /\ task'[k].tx = base[k].tx /\ task'[k].confirmed = base[k].confirmed
        /\ task'[k].stopped = base[k].stopped
    BY <1>9, <1>12, Zenon
  <2> QED
    BY <2>1, <2>2, Zenon DEF SameTask, SameStage
<1>13. ASSUME NEW k \in DOMAIN task
       PROVE  task'[k].stopped = task[k].stopped /\ task'[k].kind = task[k].kind
  <2>1. CASE k = n
    BY <1>2, <1>9, <2>1
  <2>2. CASE k # n
    BY <1>12, <2>2 DEF SameTask, SameStage
  <2> QED
    BY <2>1, <2>2
<1>14. \A k \in DOMAIN task : Saved(k) => Saved(k)'
  BY <1>8, <1>13 DEF Saved, Deploys
<1>15. ASSUME NEW k \in DOMAIN task, k # n, task'[k].alone
       PROVE  task[k].alone /\ (tx.what = "authority" => tx.mint # task[k].mint)
  <2>1. base[k] = task[k]
    BY <1>2, <1>15
  <2>2. mark(k)
    BY <1>9, <1>15
  <2> QED
    BY <1>5, <1>7, <1>15, <2>1, <2>2
<1>16. TasksFollow(n)
  BY <1>8, <1>11, <1>12, <1>14, <1>15 DEF TasksFollow
<1>17. task'[n].alone = r.alone
  <2>1. mark(n) \in BOOLEAN /\ base[n].alone \in BOOLEAN
    BY <1>4, <1>5
  <2>2. mark(n) = base[n].alone
    BY <1>6, <2>1, Zenon
  <2>3. task'[n].alone = mark(n)
    BY <1>9, Zenon
  <2> QED
    BY <1>2, <2>2, <2>3, Zenon
<1> QED
  BY <1>2, <1>8, <1>9, <1>10, <1>11, <1>15, <1>16, <1>17 DEF Marked

\* The chain, as the others see it, when a transaction of task n has landed.
LEMMA LandsAndFollows ==
    ASSUME Inv, NEW n \in DOMAIN task, NEW step, NEW tx, MadeBy(n, step, tx),
           Valid(tx), Apply(tx), TasksFollow(n),
           \A k \in DOMAIN task : k # n /\ task'[k].alone /\ tx.what = "authority" =>
                tx.mint # task[k].mint
    PROVE  ChainFollows(n) /\ ChainGrows /\ Effect(n, step)
<1>1. TasksTyped /\ ChainTyped /\ MintsFine /\ Purpose(n)
  BY DEF Inv, TaskInv
<1>2. Landed(n, tx) /\ Effect(n, step)
  BY <1>1, Lands
<1>3. \A k \in DOMAIN task : k # n => Undisturbed(k)
  BY <1>2 DEF Landed, OtherMints, Undisturbed
<1> QED
  BY <1>2, <1>3 DEF Landed, ChainFollows

\* A transaction of a task that failed lands late.
LEMMA LandLateKeeps ==
    ASSUME Inv, NEW n \in DOMAIN task, LandLate(n)
    PROVE  Inv'
<1>1. /\ TasksTyped /\ ChainTyped /\ MintsFine /\ FileSaved /\ TaskInv(n)
      /\ late \in [Numbers -> Transactions \cup {NONE}] /\ \A k \in Numbers : LateMade(k)
  BY DEF Inv
<1>2. n \in Numbers /\ task[n] \in TaskRecords
  BY <1>1, TaskFacts
<1>3. /\ late[n] # NONE /\ late' = [late EXCEPT ![n] = NONE] /\ file' = file
      /\ \/ Valid(late[n]) /\ Apply(late[n]) /\ task' = Noted(late[n], task)
         \/ UNCHANGED <<task, token, multisig, store>>
  BY DEF LandLate
<1>4. /\ late' \in [Numbers -> Transactions \cup {NONE}] /\ late'[n] = NONE
      /\ \A k \in Numbers : k # n => late'[k] = late[k]
  BY <1>1, <1>2, <1>3
<1>5. LateMade(n)'
  BY <1>4 DEF LateMade
<1>6. PICK step \in Steps : task[n].stopped = "failed" /\ MadeBy(n, step, late[n])
  BY <1>1, <1>2, <1>3 DEF LateMade
<1>7. ASSUME TasksTyped', DOMAIN task' = DOMAIN task, TasksFollow(n), ChainFollows(n),
             task'[n].stopped = "failed"
      PROVE  Inv'
  <2>1. Purpose(n)'
    BY <1>1, <1>7, PurposeKept DEF TaskInv, TasksFollow, ChainFollows
  <2>2. Progress(n)' /\ Pending(n)' /\ Finished(n)'
    BY <1>7 DEF Progress, Pending, Finished, Saved, Running
  <2>3. FileSaved'
    BY <1>1, <1>3, <1>7, FileKept
  <2> QED
    BY <1>2, <1>4, <1>5, <1>7, <2>1, <2>2, <2>3, OthersKeep DEF TaskInv
<1>8. CASE UNCHANGED <<task, token, multisig, store>>
  <2>1. TasksFollow(n)
    BY <1>8 DEF TasksFollow, SameTask, SameStage, Saved, Deploys
  <2>2. ChainFollows(n)
    BY <1>1, <1>8, <2>1, AloneFollows
  <2>3. TasksTyped'
    BY <1>1, <1>8 DEF TasksTyped
  <2> QED
    BY <1>6, <1>7, <1>8, <2>1, <2>2, <2>3
<1>9. CASE Valid(late[n]) /\ Apply(late[n]) /\ task' = Noted(late[n], task)
  <2>1. PICK tx : tx = late[n]
    OBVIOUS
  <2>2. MadeBy(n, step, tx) /\ tx.of = n
    BY <1>1, <1>6, <2>1, TxFacts
  <2>3. PICK r : r = task[n]
    OBVIOUS
  <2>4. task' = Noted(tx, [task EXCEPT ![n] = r])
    <3>1. [task EXCEPT ![n] = r] = task
      BY <1>1, <2>3 DEF TasksTyped
    <3> QED
      BY <1>9, <2>1, <3>1
  <2>5. /\ TasksTyped' /\ DOMAIN task' = DOMAIN task /\ TasksFollow(n)
        /\ task'[n].stopped = "failed"
        /\ \A k \in DOMAIN task : k # n /\ task'[k].alone /\ tx.what = "authority" =>
             tx.mint # task[k].mint
    BY <1>1, <1>2, <1>6, <2>2, <2>3, <2>4, NotedFacts DEF Marked
  <2>6. Valid(tx) /\ Apply(tx)
    BY <1>9, <2>1 DEF Apply
  <2>7. ChainFollows(n)
    BY <2>2, <2>5, <2>6, LandsAndFollows
  <2> QED
    BY <1>7, <2>5, <2>7
<1> QED
  BY <1>3, <1>8, <1>9

\* The transaction a task waits for lands, or fails.
LEMMA ConfirmKeeps ==
    ASSUME Inv, NEW n \in DOMAIN task, Confirm(n)
    PROVE  Inv'
<1> DEFINE h == Head(task[n].steps)
           r == [task[n] EXCEPT !.confirmed = TRUE]
<1>1. /\ TasksTyped /\ ChainTyped /\ MintsFine /\ FileSaved
      /\ Purpose(n) /\ Progress(n) /\ Pending(n)
      /\ late \in [Numbers -> Transactions \cup {NONE}] /\ \A k \in Numbers : LateMade(k)
  BY DEF Inv, TaskInv
<1>2. n \in Numbers /\ task[n] \in TaskRecords
  BY <1>1, TaskFacts
<1>3. PICK tx : tx = task[n].tx
  OBVIOUS
<1>4. PICK step : step = h
  OBVIOUS
<1>5. /\ Running(n) /\ tx # NONE /\ ~ task[n].confirmed
      /\ UNCHANGED <<late, file>>
      /\ \/ /\ Valid(tx) /\ Apply(tx)
            /\ task' = Noted(tx, [task EXCEPT ![n] = r])
         \/ /\ ~ Valid(tx) /\ task' = [task EXCEPT ![n] = r]
            /\ UNCHANGED <<token, multisig, store>>
  BY <1>3 DEF Confirm, Apply
<1>6. /\ r \in TaskRecords
      /\ r.kind = task[n].kind /\ r.mint = task[n].mint /\ r.minters = task[n].minters
      /\ r.authority = task[n].authority /\ r.store = task[n].store
      /\ r.steps = task[n].steps /\ r.tx = tx /\ r.confirmed = TRUE
      /\ r.stopped = task[n].stopped /\ r.alone = task[n].alone
  BY <1>2, <1>3 DEF TaskRecords
<1> HIDE DEF r
<1>7. MadeBy(n, step, tx) /\ tx.of = n
  <2>1. MadeBy(n, step, tx)
    BY <1>1, <1>3, <1>4, <1>5 DEF Pending
  <2> QED
    BY <1>1, <2>1, TxFacts
<1>8. step \in SetSteps => task[n].kind = "setAuthority" /\ task[n].mint \in DOMAIN token
  <2>1. step \in SetSteps => task[n].kind = "setAuthority"
    BY <1>7 DEF MadeBy, SetSteps
  <2> QED
    BY <1>1, <2>1, TargetExists
<1>9. /\ TasksTyped' /\ DOMAIN task' = DOMAIN task /\ TasksFollow(n) /\ SameTask(n)
      /\ task'[n].steps = task[n].steps /\ task'[n].tx = tx
      /\ task'[n].confirmed /\ Running(n)' /\ task'[n].alone = task[n].alone
      /\ ChainFollows(n) /\ ChainGrows
      /\ \/ Effect(n, step)
         \/ ~ Valid(tx) /\ UNCHANGED <<token, multisig, store>>
  <2>1. CASE Valid(tx) /\ Apply(tx) /\ task' = Noted(tx, [task EXCEPT ![n] = r])
    <3>1. /\ TasksTyped' /\ DOMAIN task' = DOMAIN task /\ TasksFollow(n) /\ SameTask(n)
          /\ task'[n].steps = r.steps /\ task'[n].tx = r.tx
          /\ task'[n].confirmed = r.confirmed /\ task'[n].stopped = r.stopped
          /\ task'[n].alone = r.alone
          /\ \A k \in DOMAIN task : k # n /\ task'[k].alone /\ tx.what = "authority" =>
               tx.mint # task[k].mint
      <4>1. PICK q \in TaskRecords : q = r
        BY <1>6
      <4>2. task' = Noted(tx, [task EXCEPT ![n] = q])
        BY <2>1, <4>1
      <4>3. /\ q.kind = task[n].kind /\ q.mint = task[n].mint /\ q.minters = task[n].minters
            /\ q.authority = task[n].authority /\ q.store = task[n].store
            /\ q.stopped = task[n].stopped
        BY <1>6, <4>1
      <4>4. TasksTyped /\ tx.of = n
        BY <1>1, <1>7
      <4>5. Marked(n, tx, q)
        BY <4>1, <4>2, <4>3, <4>4, NotedFacts, Zenon
      <4> QED
        BY <4>1, <4>5 DEF Marked
    <3>2. ChainFollows(n) /\ ChainGrows /\ Effect(n, step)
      BY <1>7, <2>1, <3>1, LandsAndFollows
    <3> QED
      BY <1>5, <1>6, <3>1, <3>2 DEF Running
  <2>2. CASE /\ ~ Valid(tx) /\ task' = [task EXCEPT ![n] = r]
             /\ UNCHANGED <<token, multisig, store>>
    <3>1. /\ TasksTyped' /\ DOMAIN task' = DOMAIN task
          /\ task'[n] = r /\ TasksFollow(n) /\ SameTask(n)
      BY <1>1, <1>5, <1>6, <2>2, RecordReplaced
    <3>2. ChainFollows(n) /\ ChainGrows
      BY <1>1, <2>2, <3>1, AloneFollows
    <3> QED
      BY <1>5, <1>6, <2>2, <3>1, <3>2 DEF Running
  <2> QED
    BY <1>5, <2>1, <2>2
<1>10. /\ step = "store" => Valid(tx)
       /\ step \in SetSteps /\ task[n].alone => Valid(tx)
       /\ step = "handOver" => Valid(tx) \/ HandedOver(n)
       /\ step \in SetSteps => Valid(tx) \/ Released(n, RoleOf(step))
  <2>1. /\ step = "store" => store[n] = NONE /\ task[n].mint \in DOMAIN token
        /\ step \in SetSteps /\ task[n].alone =>
             MayReplace(token[task[n].mint][RoleOf(step)], tx.shown[RoleOf(step)])
        /\ step = "handOver" => OwnMint(n) \in DOMAIN token
        /\ step \in SetSteps =>
             Released(n, RoleOf(step)) \/ tx.shown[RoleOf(step)] = WalletKey
    BY <1>1, <1>3, <1>4, <1>5 DEF Pending, Replaceable
  <2>2. step = "handOver" => WalletHas(n) \/ HandedOver(n)
    <3>1. OwnMint(n) \in DOMAIN token => MintFine(OwnMint(n))
      BY <1>1 DEF MintsFine
    <3> QED
      BY <2>1, <3>1 DEF MintFine, WalletHas, HandedOver
  <2>3. step \in SetSteps /\ ~ Released(n, RoleOf(step)) =>
          MayReplace(token[task[n].mint][RoleOf(step)], tx.shown[RoleOf(step)])
    BY <1>8, <2>1 DEF Released, MayReplace, Controls, SignersOf
  <2> QED
    BY <1>1, <1>7, <1>8, <2>1, <2>2, <2>3, ValidFromPending
<1>11. MadeBy(n, step, tx)'
  BY <1>2, <1>7, <1>9, MadeByKept
<1>12. Head(task'[n].steps) = step
  BY <1>4, <1>9
<1>13. Pending(n)'
  <2>1. step = "store" => store'[n] = task'[n].mint
    BY <1>9, <1>10 DEF Effect, SameTask
  <2>2. step = "handOver" => HandedOver(n)'
    BY <1>2, <1>9, <1>10 DEF Effect, ChainGrows
  <2>3. RoleOf(step) \in Roles
    BY DEF RoleOf, Roles
  <2>4. step \in SetSteps /\ task'[n].alone => Replaced(n, RoleOf(step))'
    BY <1>9, <1>10, <2>3 DEF Effect, SameTask, Replaced
  <2>5. step \in SetSteps => Released(n, RoleOf(step))'
    <3> SUFFICES ASSUME step \in SetSteps PROVE Released(n, RoleOf(step))'
      OBVIOUS
    <3>1. CASE Effect(n, step)
      <4>1. token'[task[n].mint][RoleOf(step)] = task[n].authority
        BY <2>3, <3>1 DEF Effect
      <4>2. task[n].authority # WalletKey /\ task[n].mint \in DOMAIN token'
        BY <1>1, <1>2, <1>8, <1>9, KeyFacts DEF Purpose, ChainGrows
      <4> QED
        BY <1>9, <4>1, <4>2 DEF Released, SameTask
    <3>2. CASE Released(n, RoleOf(step))
      <4>1. PICK role \in Roles : role = RoleOf(step)
        BY <2>3
      <4>2. Released(n, role)'
        BY <1>9, <3>2, <4>1, ReleasedKept
      <4> QED
        BY <4>1, <4>2 DEF Released
    <3> QED
      BY <1>9, <1>10, <3>1, <3>2
  <2> QED
    BY <1>9, <1>11, <1>12, <2>1, <2>2, <2>4, <2>5 DEF Pending
<1>14. Progress(n)'
  <2>1. /\ PlanOf(n)' = PlanOf(n) /\ (Owns(n)' <=> Owns(n))
        /\ (MinterReady(n) => MinterReady(n)') /\ (HandedOver(n) => HandedOver(n)')
        /\ (Released(n, "mint") => Released(n, "mint")')
    BY <1>2, <1>9, ReadyKept, ReleasedKept DEF SameTask, PlanOf, Owns, ChainGrows, Roles
  <2>2. /\ task[n].steps \in PlanOf(n)
        /\ step = "multisig" => task[n].kind # "adapter" /\ task[n].authority = OwnMultisig(n)
        /\ step # "multisig" /\ task[n].kind # "adapter" => MinterReady(n)
        /\ step \in {"handOver", "save"} => store[n] = task[n].mint
        /\ step = "save" /\ Owns(n) => HandedOver(n)
        /\ step = "freezeAuthority" => Released(n, "mint")
        /\ step = "freezeAuthority" /\ task[n].alone =>
             token[task[n].mint].mint = task[n].authority
    BY <1>1, <1>4, <1>5 DEF Progress
  <2>3. step \in {"handOver", "save"} => store'[n] = task'[n].mint
    <3>1. task[n].mint # NONE
      BY <1>1, TaskFacts, KeyFacts
    <3> QED
      BY <1>2, <1>9, <2>2, <3>1 DEF ChainGrows, SameTask
  <2>4. step = "freezeAuthority" /\ task'[n].alone =>
          token'[task'[n].mint].mint = task'[n].authority
    <3>1. step = "freezeAuthority" => RoleOf(step) = "freeze" /\ step \in SetSteps
      BY DEF RoleOf, SetSteps
    <3> QED
      BY <1>9, <2>2, <3>1 DEF Effect, SameTask, Roles
  <2> QED
    BY <1>5, <1>9, <1>12, <2>1, <2>2, <2>3, <2>4 DEF Progress, SameTask
<1>15. Finished(n)'
  BY <1>9 DEF Finished, Saved, Running
<1>16. Purpose(n)'
  BY <1>1, <1>9, PurposeKept
<1>17. late'[n] = NONE
  BY <1>1, <1>2, <1>5, RunningLate
<1>18. LateMade(n)' /\ FileSaved'
  BY <1>1, <1>5, <1>9, <1>17, FileKept DEF LateMade
<1> QED
  BY <1>1, <1>2, <1>5, <1>9, <1>13, <1>14, <1>15, <1>16, <1>18, OthersKeep DEF TaskInv
\* A task that begins is the next one.
LEMMA BeginKeeps ==
    ASSUME Inv, NEW r \in TaskRecords, Begin(r), NEW n, n = Len(task) + 1,
           r.stopped = "no", r.tx = NONE, r.confirmed = FALSE,
           r.kind \in {"create", "adapter"} => r.store = OwnStore(n),
           r.kind = "create" => r.authority \in {OwnStore(n), OwnMultisig(n)},
           r.kind = "setAuthority" => r.authority = OwnMultisig(n),
           (r.kind = "create" /\ r.mint = OwnMint(n)) \/ r.mint \in DOMAIN token,
           r.steps \in IF r.kind = "setAuthority" THEN AuthorityPlan
                       ELSE IF r.kind = "create" /\ r.mint = OwnMint(n) THEN OwnPlan
                       ELSE ExistingPlan,
           Head(r.steps) \notin {"handOver", "save", "freezeAuthority"},
           Head(r.steps) = "multisig" => r.kind # "adapter" /\ r.authority = OwnMultisig(n),
           Head(r.steps) # "multisig" /\ r.kind # "adapter" => r.authority # OwnMultisig(n)
    PROVE  Inv'
<1>1. /\ TasksTyped /\ ChainTyped /\ MintsFine /\ FileSaved
      /\ late \in [Numbers -> Transactions \cup {NONE}] /\ \A k \in Numbers : LateMade(k)
  BY DEF Inv
<1>2. /\ DOMAIN task = 1..Len(task) /\ Len(task) \in Nat /\ Len(task) < MaxTasks
      /\ task' = Append(task, r) /\ UNCHANGED <<token, multisig, store, late, file>>
  BY <1>1, LenProperties DEF Begin, TasksTyped
<1>3. n \in Numbers /\ n \notin DOMAIN task /\ 1..n = DOMAIN task \cup {n}
  BY <1>2, KeyFacts DEF Numbers
<1>4. /\ task' \in Seq(TaskRecords) /\ Len(task') = Len(task) + 1
      /\ \A k \in 1..Len(task) : task'[k] = task[k]
      /\ task'[Len(task) + 1] = r
  <2>1. task \in Seq(TaskRecords)
    BY <1>1 DEF TasksTyped
  <2> QED
    BY <1>2, <2>1, AppendProperties
<1>5. /\ TasksTyped' /\ DOMAIN task' = DOMAIN task \cup {n} /\ task'[n] = r
      /\ \A k \in DOMAIN task : task'[k] = task[k]
  <2>1. Len(task') <= MaxTasks
    BY <1>2, <1>4, KeyFacts
  <2>2. DOMAIN task' = 1..n
    BY <1>4, LenProperties
  <2> QED
    BY <1>2, <1>3, <1>4, <2>1, <2>2 DEF TasksTyped
<1>6. TasksFollow(n)
  BY <1>3, <1>5 DEF TasksFollow, SameTask, SameStage, Saved, Deploys
<1>7. ChainFollows(n)
  BY <1>1, <1>2, <1>6, AloneFollows
<1>9. Purpose(n)'
  BY <1>2, <1>5 DEF Purpose, Deploys, Owns
<1>10. /\ (PlanOf(n) = IF r.kind = "setAuthority" THEN AuthorityPlan
                       ELSE IF r.kind = "create" /\ r.mint = OwnMint(n) THEN OwnPlan
                       ELSE ExistingPlan)'
       /\ task'[n].steps = r.steps /\ task'[n].tx = NONE /\ task'[n].confirmed = FALSE
       /\ Running(n)'
  BY <1>5 DEF PlanOf, Owns, Running
<1>11. Progress(n)'
  <2>1. Head(r.steps) # "multisig" /\ r.kind # "adapter" => MinterReady(n)'
    BY <1>5 DEF MinterReady
  <2> QED
    BY <1>5, <1>10, <2>1 DEF Progress
<1>12. Pending(n)' /\ Finished(n)'
  BY <1>10 DEF Pending, Finished, Saved, Running
<1>13. late[n] = NONE
  BY <1>1, <1>3 DEF LateMade
<1>14. LateMade(n)'
  BY <1>2, <1>13 DEF LateMade
<1>15. FileSaved'
  BY <1>1, <1>2, <1>6, FileKept
<1> QED
  BY <1>1, <1>2, <1>3, <1>5, <1>6, <1>7, <1>9, <1>11, <1>12, <1>14, <1>15, OthersKeep DEF TaskInv
\* What createOFT plans.
LEMMA CreatePlans ==
    ASSUME NEW shared \in BOOLEAN, NEW fresh \in BOOLEAN, NEW steps,
           steps = (IF shared THEN <<"multisig">> ELSE <<>>)
                   \o (IF fresh THEN <<"token", "store", "handOver", "save">>
                                ELSE <<"store", "save">>)
    PROVE  /\ steps \in IF fresh THEN OwnPlan ELSE ExistingPlan
           /\ Head(steps) \notin {"handOver", "save", "freezeAuthority"}
           /\ Head(steps) = "multisig" <=> shared
<1>1. CASE shared /\ fresh
  <2>1. steps = <<"multisig", "token", "store", "handOver", "save">>
    BY <1>1, SharedPlans
  <2>2. Head(steps) = "multisig"
    BY <2>1
  <2>3. steps \in OwnPlan
    BY <2>1 DEF OwnPlan
  <2> QED
    BY <1>1, <2>2, <2>3
<1>2. CASE shared /\ ~ fresh
  <2>1. steps = <<"multisig", "store", "save">>
    BY <1>2, SharedPlans
  <2>2. Head(steps) = "multisig"
    BY <2>1
  <2>3. steps \in ExistingPlan
    BY <2>1 DEF ExistingPlan
  <2> QED
    BY <1>2, <2>2, <2>3
<1>3. CASE ~ shared /\ fresh
  <2>1. steps = <<"token", "store", "handOver", "save">>
    BY <1>3, SharedPlans
  <2> QED
    BY <1>3, <2>1 DEF OwnPlan
<1>4. CASE ~ shared /\ ~ fresh
  <2>1. steps = <<"store", "save">>
    BY <1>4, SharedPlans
  <2> QED
    BY <1>4, <2>1 DEF ExistingPlan
<1> QED
  BY <1>1, <1>2, <1>3, <1>4

\* createOFT starts.
LEMMA CreateKeeps ==
    ASSUME Inv, NEW mint \in DOMAIN token \cup {NONE},
           NEW minters \in ((SUBSET Minters) \ {{}}) \cup {NONE}, NEW only \in BOOLEAN,
           CreateOFT(mint, minters, only)
    PROVE  Inv'
<1>1. PICK n : n = Len(task) + 1
  OBVIOUS
<1> DEFINE shared == minters # NONE
           fresh == mint = NONE
           itsMint == IF fresh THEN OwnMint(n) ELSE mint
           authority == IF shared THEN OwnMultisig(n) ELSE OwnStore(n)
           steps == (IF shared THEN <<"multisig">> ELSE <<>>)
                    \o (IF fresh THEN <<"token", "store", "handOver", "save">>
                                 ELSE <<"store", "save">>)
<1>2. PICK r : r = NewTask("create", itsMint, minters, fresh /\ only, steps, authority, OwnStore(n))
  OBVIOUS
<1>3. Begin(r)
  BY <1>1, <1>2 DEF CreateOFT
<1>4. n \in Numbers
  <2>1. Len(task) \in Nat /\ Len(task) < MaxTasks
    BY <1>3, LenProperties DEF Begin, Inv, TasksTyped
  <2> QED
    BY <1>1, <2>1, KeyFacts DEF Numbers
<1>5. /\ itsMint \in Mints /\ authority \in Authorities /\ OwnStore(n) \in OwnStores
      /\ "create" \in Kinds
      /\ itsMint = OwnMint(n) <=> fresh
      /\ fresh \/ itsMint \in DOMAIN token
  <2>1. DOMAIN token \subseteq Mints /\ n \notin DOMAIN task
    BY <1>1, LenProperties DEF Inv, TasksTyped, ChainTyped
  <2>2. OwnMint(n) \notin DOMAIN token
    BY <1>4, <2>1 DEF Inv, MintsFine, MintFine
  <2> QED
    BY <1>4, <2>1, <2>2, KeyFacts DEF Kinds
<1>6. /\ steps \in IF fresh THEN OwnPlan ELSE ExistingPlan
      /\ Head(steps) \notin {"handOver", "save", "freezeAuthority"}
      /\ Head(steps) = "multisig" <=> shared
  <2>1. shared \in BOOLEAN /\ fresh \in BOOLEAN
    OBVIOUS
  <2> QED
    BY <2>1, CreatePlans
<1> HIDE DEF steps
<1>7. steps \in Seq(Steps)
  BY <1>6, OwnPlanFacts, ExistingPlanFacts
<1>8. authority = OwnMultisig(n) <=> shared
  BY <1>4, KeyFacts
<1>9. authority \in {OwnStore(n), OwnMultisig(n)}
  OBVIOUS
<1> HIDE DEF itsMint, authority, shared, fresh
<1>10. /\ r \in TaskRecords
       /\ r.kind = "create" /\ r.mint = itsMint /\ r.steps = steps /\ r.authority = authority
       /\ r.store = OwnStore(n) /\ r.tx = NONE /\ r.confirmed = FALSE /\ r.stopped = "no"
  BY <1>2, <1>5, <1>7 DEF NewTask, TaskRecords
<1> QED
  BY <1>1, <1>3, <1>5, <1>6, <1>8, <1>9, <1>10, BeginKeeps

\* createOFTAdapter starts.
LEMMA AdapterKeeps ==
    ASSUME Inv, NEW mint \in DOMAIN token, CreateOFTAdapter(mint)
    PROVE  Inv'
<1>1. PICK n : n = Len(task) + 1
  OBVIOUS
<1> DEFINE authority == token[mint].mint
           steps == <<"store", "save">>
<1>2. PICK r : r = NewTask("adapter", mint, NONE, FALSE, steps, authority, OwnStore(n))
  OBVIOUS
<1>3. Begin(r)
  BY <1>1, <1>2 DEF CreateOFTAdapter
<1>4. n \in Numbers
  <2>1. Len(task) \in Nat /\ Len(task) < MaxTasks
    BY <1>3, LenProperties DEF Begin, Inv, TasksTyped
  <2> QED
    BY <1>1, <2>1, KeyFacts DEF Numbers
<1>5. /\ steps \in Seq(Steps) /\ steps \in ExistingPlan
      /\ Head(steps) = "store" /\ "adapter" \in Kinds
  BY DEF Steps, ExistingPlan, Kinds
<1>6. authority \in Authorities /\ mint \in Mints /\ OwnStore(n) \in OwnStores
  BY <1>4, KeyFacts DEF Inv, ChainTyped
<1> HIDE DEF steps, authority
<1>7. /\ r \in TaskRecords
      /\ r.kind = "adapter" /\ r.mint = mint /\ r.steps = steps
      /\ r.store = OwnStore(n) /\ r.tx = NONE /\ r.confirmed = FALSE /\ r.stopped = "no"
  BY <1>2, <1>5, <1>6 DEF NewTask, TaskRecords
<1> QED
  BY <1>1, <1>3, <1>5, <1>7, BeginKeeps

\* setAuthority starts, over any mint and for any store.
LEMMA SetAuthoritiesKeeps ==
    ASSUME Inv, NEW minters \in ((SUBSET Minters) \ {{}}) \cup {NONE}, NEW only \in BOOLEAN,
           NEW mint \in DOMAIN token, NEW itsStore \in NamedStores,
           SetAuthorities(mint, itsStore, minters, only)
    PROVE  Inv'
<1>1. PICK n : n = Len(task) + 1
  OBVIOUS
<1> DEFINE steps == <<"multisig", "mintAuthority", "freezeAuthority">>
<1>2. PICK r : r = NewTask("setAuthority", mint, minters, FALSE, steps, OwnMultisig(n), itsStore)
  OBVIOUS
<1>3. Begin(r)
  BY <1>1, <1>2 DEF SetAuthorities
<1>4. n \in Numbers /\ 1..n \subseteq Numbers
  <2>1. Len(task) \in Nat /\ Len(task) < MaxTasks
    BY <1>3, LenProperties DEF Begin, Inv, TasksTyped
  <2> QED
    BY <1>1, <2>1, KeyFacts DEF Numbers
<1>5. /\ steps \in Seq(Steps) /\ steps \in AuthorityPlan
      /\ Head(steps) = "multisig" /\ "setAuthority" \in Kinds
  BY DEF Steps, AuthorityPlan, Kinds
<1>6. mint \in Mints /\ itsStore \in OwnStores /\ OwnMultisig(n) \in Authorities
  BY <1>1, <1>4, KeyFacts DEF Inv, ChainTyped, NamedStores, OwnStores
<1> HIDE DEF steps
<1>7. /\ r \in TaskRecords
      /\ r.kind = "setAuthority" /\ r.mint = mint /\ r.steps = steps
      /\ r.authority = OwnMultisig(n)
      /\ r.store = itsStore /\ r.tx = NONE /\ r.confirmed = FALSE /\ r.stopped = "no"
  BY <1>2, <1>5, <1>6 DEF NewTask, TaskRecords
<1> QED
  BY <1>1, <1>3, <1>5, <1>7, BeginKeeps

-----------------------------------------------------------------------------
\* The invariant holds from the start and is kept by every step.
LEMMA InitInv == Init => Inv
<1> SUFFICES ASSUME Init PROVE Inv
  OBVIOUS
<1>1. task = <<>> /\ DOMAIN task = {}
  BY DEF Init
<1>2. TasksTyped
  BY <1>1, KeyFacts DEF TasksTyped
<1>3. InitialAuthority \in Authorities
  BY KeyFacts DEF InitialAuthority
<1>4. token = [m \in {Existing} |-> [mint |-> InitialAuthority, freeze |-> InitialAuthority]]
  BY DEF Init
<1>5. /\ DOMAIN token = {Existing}
      /\ token \in [DOMAIN token -> [mint : Authorities, freeze : Authorities]]
  BY <1>3, <1>4
<1>6. ChainTyped
  BY <1>5, KeyFacts DEF Init, ChainTyped
<1>7. MintsFine
  BY <1>4, <1>5, KeyFacts DEF MintsFine, MintFine
<1>8. /\ late \in [Numbers -> Transactions \cup {NONE}] /\ \A n \in Numbers : LateMade(n)
      /\ FileSaved
  BY DEF Init, LateMade, FileSaved
<1> QED
  BY <1>1, <1>2, <1>6, <1>7, <1>8 DEF Inv

LEMMA NextInv == Inv /\ [Next]_vars => Inv'
<1> SUFFICES ASSUME Inv, [Next]_vars PROVE Inv'
  OBVIOUS
<1>1. CASE Start
  <2>1. ASSUME NEW minters \in ((SUBSET Minters) \ {{}}) \cup {NONE}, NEW only \in BOOLEAN,
               NEW mint \in DOMAIN token \cup {NONE}, CreateOFT(mint, minters, only)
        PROVE  Inv'
    BY <2>1, CreateKeeps
  <2>2. ASSUME NEW minters \in ((SUBSET Minters) \ {{}}) \cup {NONE}, NEW only \in BOOLEAN,
               NEW mint \in DOMAIN token, NEW itsStore \in NamedStores,
               SetAuthorities(mint, itsStore, minters, only)
        PROVE  Inv'
    BY <2>2, SetAuthoritiesKeeps
  <2> QED
    BY <1>1, <2>1, <2>2, AdapterKeeps DEF Start
<1>2. ASSUME NEW n \in DOMAIN task,
             Send(n) \/ Confirm(n) \/ Proceed(n) \/ Save(n) \/ GiveUp(n) \/ LandLate(n)
      PROVE  Inv'
  BY <1>2, SendKeeps, ConfirmKeeps, ProceedKeeps, SaveKeeps, GiveUpKeeps, LandLateKeeps
<1>3. CASE UNCHANGED vars
  <2>1. UNCHANGED <<task, token, multisig, store, late, file>>
    BY <1>3 DEF vars
  <2>2. TasksTyped' /\ ChainTyped'
    BY <2>1 DEF Inv, TasksTyped, ChainTyped
  <2>6. MintsFine'
    <3>1. PICK n : TasksFollow(n)
      BY <2>1 DEF TasksFollow, SameTask, SameStage, Saved, Deploys
    <3> QED
      BY <2>1, <3>1, MintsAlone DEF Inv
  <2>3. late' \in [Numbers -> Transactions \cup {NONE}] /\ FileSaved'
    BY <2>1 DEF Inv, FileSaved, Saved, Deploys
  <2>4. \A n \in Numbers : LateMade(n)'
    <3> SUFFICES ASSUME NEW n \in Numbers PROVE LateMade(n)'
      OBVIOUS
    <3>1. LateMade(n)
      BY DEF Inv
    <3>2. ChainGrows /\ (n \in DOMAIN task => SameTask(n))
      BY <2>1, ChainAlone DEF SameTask
    <3>3. \A step, tx : MadeBy(n, step, tx) /\ SameTask(n) => MadeBy(n, step, tx)'
      BY <3>2, MadeByKept
    <3> QED
      BY <2>1, <3>1, <3>2, <3>3 DEF LateMade
  <2>5. ASSUME NEW n \in DOMAIN task' PROVE TaskInv(n)'
    <3>1. n \in DOMAIN task /\ TaskInv(n) /\ n \in Numbers
      BY <2>1, <2>5, TaskFacts DEF Inv
    <3>2. /\ PlanOf(n)' = PlanOf(n) /\ (Owns(n)' <=> Owns(n)) /\ (Running(n)' <=> Running(n))
          /\ (Saved(n)' <=> Saved(n)) /\ (MinterReady(n)' <=> MinterReady(n))
          /\ (HandedOver(n)' <=> HandedOver(n))
          /\ \A role : Released(n, role)' <=> Released(n, role)
      BY <2>1 DEF PlanOf, Owns, Running, Saved, Deploys, MinterReady, MintSigners, HandedOver,
         Released
    <3>3. Purpose(n)'
      BY <2>1, <3>1 DEF TaskInv, Purpose, Deploys, Owns
    <3>4. Progress(n)'
      BY <2>1, <3>1, <3>2 DEF TaskInv, Progress
    <3>5. Pending(n)'
      <4> DEFINE h == Head(task[n].steps)
      <4>1. MadeBy(n, h, task[n].tx) => MadeBy(n, h, task[n].tx)'
        <5>1. PICK step : step = h
          OBVIOUS
        <5>2. PICK tx : tx = task[n].tx
          OBVIOUS
        <5>3. ChainGrows /\ SameTask(n)
          BY <2>1, ChainAlone DEF SameTask
        <5>4. MadeBy(n, step, tx) => MadeBy(n, step, tx)'
          BY <3>1, <5>3, MadeByKept
        <5>5. h' = step /\ task'[n].tx = tx
          BY <2>1, <5>1, <5>2
        <5> QED
          BY <5>1, <5>2, <5>4, <5>5
      <4>2. \A role : (Replaced(n, role)' <=> Replaced(n, role))
                /\ (Replaceable(n, role)' <=> Replaceable(n, role))
        BY <2>1 DEF Replaced, Replaceable, MayReplace, Controls, SignersOf
      <4> QED
        BY <2>1, <3>1, <3>2, <4>1, <4>2 DEF TaskInv, Pending
    <3>6. Finished(n)'
      BY <2>1, <3>1, <3>2 DEF TaskInv, Finished
    <3> QED
      BY <3>3, <3>4, <3>5, <3>6 DEF TaskInv
  <2> QED
    BY <2>2, <2>3, <2>4, <2>5, <2>6 DEF Inv
<1> QED
  BY <1>1, <1>2, <1>3 DEF Next
LEMMA SpecInv == Spec => []Inv
  BY InitInv, NextInv, PTL DEF Spec

-----------------------------------------------------------------------------
(***************************************************************************)
(* Every task, mint, multisig, store and the file are what their types say *)
(* at all times, for any minters and any number of tasks.                  *)
(***************************************************************************)
THEOREM TypesHold == Spec => []TypeOK
<1>1. Inv => TypeOK
  <2> SUFFICES ASSUME Inv PROVE TypeOK
    OBVIOUS
  <2>1. TasksTyped /\ ChainTyped /\ FileSaved
    BY DEF Inv
  <2>2. \A n \in DOMAIN task : task[n] \in TaskRecords
    BY <2>1, TaskFacts
  <2>3. \A m \in DOMAIN token : token[m] \in [mint : Authorities, freeze : Authorities]
    BY <2>1 DEF ChainTyped
  <2>4. \A n \in Numbers : multisig[n] \in (SUBSET Signers) \cup {NONE}
    BY <2>1 DEF ChainTyped
  <2>5. file = NONE \/ /\ file.mint \in Mints
                       /\ file.store \in {OwnStore(m) : m \in Numbers}
                       /\ file.mintAuthority \in Authorities
    <3> SUFFICES ASSUME file # NONE
                 PROVE  /\ file.mint \in Mints /\ file.store \in OwnStores
                        /\ file.mintAuthority \in Authorities
      BY DEF OwnStores
    <3>1. PICK n \in DOMAIN task :
            file = [mint |-> task[n].mint, mintAuthority |-> task[n].authority,
                    store |-> task[n].store]
      BY <2>1 DEF FileSaved
    <3> QED
      BY <2>2, <3>1 DEF TaskRecords
  <2>6. \A n \in DOMAIN task :
          /\ task[n].kind \in Kinds
          /\ task[n].mint \in Mints
          /\ task[n].store \in {OwnStore(m) : m \in Numbers}
          /\ task[n].steps \in Seq(Steps)
          /\ task[n].stopped \in {"done", "failed", "no"}
          /\ task[n].authority \in Authorities
          /\ task[n].confirmed \in BOOLEAN /\ task[n].alone \in BOOLEAN
    BY <2>2 DEF TaskRecords, OwnStores
  <2> QED
    BY <2>1, <2>3, <2>4, <2>5, <2>6 DEF TypeOK, TasksTyped, ChainTyped
<1> QED
  BY <1>1, SpecInv, PTL

(***************************************************************************)
(* An OFT with a mint of its own can mint from the moment its deployment   *)
(* is saved, and as long as every setAuthority on that mint is given its   *)
(* escrow nothing takes that from it, whatever else runs at once, stops    *)
(* anywhere or has transactions that land late.                            *)
(***************************************************************************)
THEOREM StoresKeepMinting == Spec => []StoreKeepsMinting
<1>1. Inv => StoreKeepsMinting
  <2> SUFFICES ASSUME Inv, NEW n \in Numbers, Created(n), task[n].stopped = "done",
                      StoreNamed(n)
               PROVE  Controls(OwnStore(n), token[OwnMint(n)].mint)
    BY DEF StoreKeepsMinting
  <2>1. Saved(n) /\ Owns(n) /\ Finished(n)
    BY DEF Created, Saved, Deploys, Owns, Inv, TaskInv
  <2>2. OwnMint(n) \in DOMAIN token /\ token[OwnMint(n)].mint # WalletKey
    BY <2>1 DEF Finished, HandedOver
  <2>3. MintFine(OwnMint(n))
    BY <2>2 DEF Inv, MintsFine
  <2> QED
    BY <2>2, <2>3 DEF MintFine
<1> QED
  BY <1>1, SpecInv, PTL

(***************************************************************************)
(* The wallet never gives up freezing before minting; only a setAuthority  *)
(* that has not ended well leaves it freezing without minting, and one     *)
(* that ends well leaves it neither.                                       *)
(***************************************************************************)
THEOREM AuthoritiesLeaveTogether == Spec => []HandedOverTogether
<1>1. Inv => HandedOverTogether
  <2> SUFFICES ASSUME Inv, NEW m \in DOMAIN token
               PROVE  /\ token[m].mint = WalletKey => token[m].freeze = WalletKey
                      /\ token[m].freeze = WalletKey /\ token[m].mint # WalletKey =>
                            \E n \in DOMAIN task : Sets(n, m) /\ task[n].stopped # "done"
                      /\ \A n \in DOMAIN task :
                            Sets(n, m) /\ task[n].stopped = "done" =>
                                token[m].freeze # WalletKey
    BY DEF HandedOverTogether
  <2>1. MintFine(m)
    BY DEF Inv, MintsFine
  <2>2. ASSUME NEW n \in DOMAIN task, Sets(n, m), task[n].stopped = "done"
        PROVE  token[m].freeze # WalletKey
    BY <2>2 DEF Inv, TaskInv, Finished, Sets, Released
  <2> QED
    BY <2>1, <2>2 DEF MintFine
<1> QED
  BY <1>1, SpecInv, PTL

(***************************************************************************)
(* What OFT.json names is deployed: its store is over its mint, and can    *)
(* sign for the authority of an OFT that was created.                      *)
(***************************************************************************)
THEOREM FilesAreDeployed == Spec => []FileIsDeployed
<1>1. Inv => FileIsDeployed
  <2> SUFFICES ASSUME Inv, file # NONE
               PROVE  \E n \in Numbers :
                        /\ file.store = OwnStore(n) /\ store[n] = file.mint
                        /\ task[n].kind = "create" =>
                             Controls(OwnStore(n), file.mintAuthority)
    BY DEF FileIsDeployed
  <2>1. PICK n \in DOMAIN task :
          /\ Saved(n)
          /\ file = [mint |-> task[n].mint, mintAuthority |-> task[n].authority,
                     store |-> task[n].store]
    BY DEF Inv, FileSaved
  <2>2. /\ file.mint = task[n].mint /\ file.mintAuthority = task[n].authority
        /\ file.store = task[n].store
    BY <2>1
  <2>3. n \in Numbers /\ Purpose(n) /\ Finished(n)
    BY <2>1, TaskFacts DEF Inv, TaskInv
  <2>4. task[n].store = OwnStore(n) /\ store[n] = task[n].mint
    BY <2>1, <2>3 DEF Purpose, Finished, Saved
  <2>5. task[n].kind = "create" => Controls(task[n].store, task[n].authority)
    <3> SUFFICES ASSUME task[n].kind = "create"
                 PROVE  Controls(task[n].store, task[n].authority)
      OBVIOUS
    <3>1. MinterReady(n) /\ task[n].authority \in {task[n].store, OwnMultisig(n)}
      BY <2>1, <2>3, <2>4 DEF Purpose, Finished
    <3> QED
      BY <2>3, <3>1, StoreControls
  <2> QED
    BY <2>2, <2>3, <2>4, <2>5
<1> QED
  BY <1>1, SpecInv, PTL

-----------------------------------------------------------------------------
\* Landing ends no task.
LEMMA NotedStops ==
    ASSUME NEW tx, NEW tasks, NEW n \in DOMAIN tasks, tasks[n] \in TaskRecords
    PROVE  Noted(tx, tasks)[n].stopped = tasks[n].stopped
  BY DEF Noted, TaskRecords

\* A task that runs ends well by its own step, the last one.
LEMMA EndsItself ==
    ASSUME Inv, [Next]_vars, NEW n \in DOMAIN task, Running(n), task'[n].stopped = "done"
    PROVE  \/ Save(n)
           \/ Proceed(n) /\ task' = Stopped(n, "done") /\ Len(task[n].steps) = 1
<1>1. TasksTyped /\ \A k \in DOMAIN task : task[k] \in TaskRecords
  BY TaskFacts DEF Inv
<1>2. task[n].stopped = "no"
  BY DEF Running
<1>3. ASSUME Start PROVE FALSE
  <2>1. PICK r : task' = Append(task, r)
    BY <1>3 DEF Start, CreateOFT, SetAuthorities, CreateOFTAdapter, Begin
  <2>2. task'[n] = task[n]
    BY <1>1, <2>1, LenProperties DEF TasksTyped
  <2> QED
    BY <1>2, <2>2
<1>4. ASSUME NEW k \in DOMAIN task, Send(k) \/ GiveUp(k) PROVE FALSE
  <2>1. task' = [task EXCEPT ![k].tx = TxOf(k)] \/ task' = Stopped(k, "failed")
    BY <1>4 DEF Send, GiveUp
  <2>2. CASE task' = [task EXCEPT ![k].tx = TxOf(k)]
    <3>1. task'[n].stopped = task[n].stopped
      <4> DEFINE tx == TxOf(k)
      <4>1. task' = [task EXCEPT ![k].tx = tx]
        BY <2>2
      <4> HIDE DEF tx
      <4> QED
        BY <1>1, <4>1 DEF TaskRecords
    <3> QED
      BY <1>2, <3>1
  <2>3. CASE task' = Stopped(k, "failed")
    <3>1. CASE k = n
      BY <1>1, <2>3, <3>1 DEF Stopped, TaskRecords
    <3>2. CASE k # n
      BY <1>2, <2>3, <3>2 DEF Stopped
    <3> QED
      BY <3>1, <3>2
  <2> QED
    BY <2>1, <2>2, <2>3
<1>5. ASSUME NEW k \in DOMAIN task, Confirm(k) PROVE FALSE
  <2> DEFINE confirmed == [task EXCEPT ![k].confirmed = TRUE]
  <2>1. n \in DOMAIN confirmed /\ confirmed[n] \in TaskRecords /\ confirmed[n].stopped = "no"
    BY <1>1, <1>2 DEF TaskRecords
  <2>2. task' = Noted(task[k].tx, confirmed) \/ task' = confirmed
    BY <1>5 DEF Confirm
  <2>3. PICK tx, tasks : tx = task[k].tx /\ tasks = confirmed
    OBVIOUS
  <2>4. Noted(tx, tasks)[n].stopped = tasks[n].stopped
    <3>1. n \in DOMAIN tasks /\ tasks[n] \in TaskRecords
      BY <2>1, <2>3
    <3> QED
      BY <3>1, NotedStops
  <2> QED
    BY <2>1, <2>2, <2>3, <2>4
<1>6. ASSUME NEW k \in DOMAIN task, LandLate(k) PROVE FALSE
  <2>1. task' = Noted(late[k], task) \/ task' = task
    BY <1>6 DEF LandLate
  <2> QED
    BY <1>1, <1>2, <2>1, NotedStops
<1>7. ASSUME NEW k \in DOMAIN task, Proceed(k) \/ Save(k), k # n PROVE FALSE
  <2>1. \/ task' = Stopped(k, "failed") \/ task' = Stopped(k, "done")
        \/ task' = [task EXCEPT ![k].steps = Tail(@), ![k].tx = NONE, ![k].confirmed = FALSE]
    BY <1>7 DEF Proceed, AfterStep, Save
  <2>2. task'[n] = task[n]
    BY <1>7, <2>1 DEF Stopped
  <2> QED
    BY <1>2, <2>2
<1>8. CASE Proceed(n)
  <2>1. \/ task' = Stopped(n, "failed")
        \/ task' = Stopped(n, "done") /\ Len(task[n].steps) = 1
        \/ task' = [task EXCEPT ![n].steps = Tail(@), ![n].tx = NONE, ![n].confirmed = FALSE]
    BY <1>8 DEF Proceed, AfterStep
  <2>2. task' # Stopped(n, "failed")
    BY <1>1 DEF Stopped, TaskRecords
  <2>3. task' # [task EXCEPT ![n].steps = Tail(@), ![n].tx = NONE, ![n].confirmed = FALSE]
    BY <1>1, <1>2 DEF TaskRecords
  <2> QED
    BY <1>8, <2>1, <2>2, <2>3
<1>9. CASE UNCHANGED vars
  BY <1>2, <1>9 DEF vars
<1> QED
  BY <1>3, <1>4, <1>5, <1>6, <1>7, <1>8, <1>9 DEF Next

(***************************************************************************)
(* setAuthority that ends well, alone with its mint, has moved both        *)
(* authorities to a multisig in which the store and every minter sign.     *)
(***************************************************************************)
THEOREM SettingMovesBoth == Spec => AuthoritiesMoved
<1>1. ASSUME Inv, [Next]_vars, NEW n \in DOMAIN task, task[n].kind = "setAuthority",
             task[n].alone, Running(n), task'[n].stopped = "done"
      PROVE  Moved(n)'
  <2>1. /\ TasksTyped /\ Progress(n) /\ Pending(n)
        /\ n \in Numbers /\ task[n].kind \in Kinds
    BY <1>1, TaskFacts DEF Inv, TaskInv
  <2>2. /\ Proceed(n) /\ task' = Stopped(n, "done")
        /\ Len(task[n].steps) = 1 /\ Head(task[n].steps) = "freezeAuthority"
    <3>1. ~ Save(n)
      BY <1>1, <2>1, PlanFacts DEF Save, MaySave, Progress, Deploys
    <3>2. Proceed(n) /\ task' = Stopped(n, "done") /\ Len(task[n].steps) = 1
      BY <1>1, <3>1, EndsItself
    <3> QED
      BY <1>1, <3>2, LastStep DEF Proceed
  <2>3. /\ task[n].tx # NONE /\ task[n].confirmed
        /\ UNCHANGED <<token, multisig>>
    BY <2>2 DEF Proceed
  <2>4. /\ token[task[n].mint].mint = task[n].authority
        /\ token[task[n].mint].freeze = task[n].authority
    BY <1>1, <2>1, <2>2, <2>3 DEF Progress, Pending, Replaced, SetSteps, RoleOf
  <2>5. task[n].authority = OwnMultisig(n) /\ MinterReady(n)
    BY <1>1, <2>1, <2>2 DEF Inv, TaskInv, Purpose, Progress
  <2>6. MintSigners(n) \subseteq SignersOf(task[n].authority)
    BY <2>1, <2>5 DEF MinterReady, SignersOf
  <2>7. SameTask(n)
    BY <1>1, <2>1, <2>2, StoppedFacts DEF Stops
  <2>8. /\ MintSigners(n)' = MintSigners(n)
        /\ \A a : SignersOf(a)' = SignersOf(a)
    BY <2>3, <2>7 DEF SameTask, MintSigners, SignersOf
  <2>9. token'[task'[n].mint] = token[task[n].mint]
    BY <2>3, <2>7 DEF SameTask
  <2>10. PICK to : to = task[n].authority
    OBVIOUS
  <2>11. MintSigners(n)' \subseteq SignersOf(to)'
    BY <2>6, <2>8, <2>10
  <2>12. /\ token'[task'[n].mint].mint = to /\ token'[task'[n].mint].freeze = to
         /\ task'[n].authority = to
    BY <2>4, <2>7, <2>9, <2>10 DEF SameTask
  <2>13. SignersOf(token[task[n].mint].mint)' = SignersOf(to)'
    BY <2>12 DEF SignersOf
  <2> QED
    BY <2>11, <2>12, <2>13 DEF Moved
<1>2. Inv /\ [Next]_vars =>
        [\A n \in DOMAIN task :
            /\ task[n].kind = "setAuthority" /\ task[n].alone
            /\ Running(n) /\ task'[n].stopped = "done"
            => Moved(n)']_vars
  BY <1>1
<1> QED
  BY <1>2, SpecInv, PTL DEF Spec, AuthoritiesMoved
=============================================================================
