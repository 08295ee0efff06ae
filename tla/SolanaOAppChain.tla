--------------------------- MODULE SolanaOAppChain ---------------------------
(***************************************************************************)
(* What the wiring tools change on Solana: the accounts of one LayerZero   *)
(* application there - the OFT or the governance OApp, as `kind` says -,   *)
(* and the transactions that change them.  A transaction is signed by one  *)
(* key, is atomic, and either has all of its effects or none.              *)
(*                                                                         *)
(* The accounts the endpoint and the message library keep for a pathway    *)
(* (nonce, send and receive library, ULN configuration) are created once   *)
(* and never removed; creating one that exists fails.  Who may create them *)
(* is the delegate, who may change the application's own settings is its   *)
(* admin (`owner`).                                                        *)
(***************************************************************************)
CONSTANTS
    NONE,           \* no value: an unset peer, nobody
    Eids,           \* the remote endpoints
    Addrs,          \* the addresses a remote application may have
    Keys,           \* the keys that may own the application
    OptionSets,     \* enforced options
    EmptyOptions,   \* the options [0, 3], type 3 with no option
    UlnConfigs,     \* configurations of the message library
    DefaultUln,     \* the one a new account starts with
    Limits          \* rate limits

ASSUME ChainAssumption ==
    /\ EmptyOptions \notin OptionSets
    /\ DefaultUln \notin UlnConfigs
    /\ NONE \notin Addrs \cup Keys \cup Limits
    /\ NONE \notin {"wire", "script"}

VARIABLES
    kind,       \* "OFT" or "Governance", fixed from the start
    accounts,   \* the pathway accounts that exist
    owner,      \* the admin of the OFT store or of the governance account
    delegate,   \* the delegate the endpoint has on record
    peer,       \* the remote application of each endpoint
    options,    \* the enforced options of each endpoint
    uln,        \* the ULN configuration of each endpoint
    pinned,     \* the endpoints whose receive library is set explicitly
    limits,     \* the rate limits of each endpoint, by direction
    pauser,     \* who may pause
    unpauser    \* who may unpause

chainVars ==
    <<kind, accounts, owner, delegate, peer, options, uln, pinned, limits, pauser,
      unpauser>>

Store == <<"store">>
Nonce(e, a) == <<"nonce", e, a>>
SendLibrary(e) == <<"sendLibrary", e>>
ReceiveLibrary(e) == <<"receiveLibrary", e>>
UlnAccounts(e) == <<"uln", e>>

Accounts ==
    {Store} \cup {Nonce(e, a) : e \in Eids, a \in Addrs} \cup {SendLibrary(e) : e \in Eids}
        \cup {ReceiveLibrary(e) : e \in Eids} \cup {UlnAccounts(e) : e \in Eids}

Directions == {"inbound", "outbound"}

ChainTypeOK ==
    /\ kind \in {"OFT", "Governance"}
    /\ accounts \subseteq Accounts
    /\ owner \in Keys \cup {NONE}
    /\ delegate \in Keys \cup {NONE}
    /\ peer \in [Eids -> Addrs \cup {NONE}]
    /\ options \in [Eids -> OptionSets \cup {EmptyOptions}]
    /\ uln \in [Eids -> UlnConfigs \cup {DefaultUln}]
    /\ pinned \subseteq Eids
    /\ limits \in [Directions -> [Eids -> Limits \cup {NONE}]]
    /\ {pauser, unpauser} \subseteq Keys \cup {NONE}

(***************************************************************************)
(* The OFT is wired once its store exists and its creator administers it;  *)
(* the governance account is created by the first step of its script.      *)
(***************************************************************************)
ChainInit(creator) ==
    /\ kind \in {"OFT", "Governance"}
    /\ accounts = IF kind = "OFT" THEN {Store} ELSE {}
    /\ owner = IF kind = "OFT" THEN creator ELSE NONE
    /\ delegate = owner
    /\ peer = [e \in Eids |-> NONE]
    /\ options = [e \in Eids |-> EmptyOptions]
    /\ uln = [e \in Eids |-> DefaultUln]
    /\ pinned = {}
    /\ limits = [d \in Directions |-> [e \in Eids |-> NONE]]
    /\ pauser = NONE
    /\ unpauser = NONE

-----------------------------------------------------------------------------
(***************************************************************************)
(* A transaction: what it does, the keys it names as admin and as          *)
(* delegate, the accounts it creates and those it cannot do without.       *)
(***************************************************************************)
Tx(what, value, admin, endpointDelegate, creates, uses) ==
    [what |-> what, value |-> value, admin |-> admin, delegate |-> endpointDelegate,
     creates |-> creates, uses |-> uses]

(***************************************************************************)
(* Every key the transaction names must have signed it, the program checks *)
(* the admin against the account and the endpoint the delegate against its *)
(* record, and `init` fails on an account that exists.                     *)
(***************************************************************************)
Signed(tx, signer) == {tx.admin, tx.delegate} \subseteq {signer, NONE}

Authorized(tx) == tx.admin \in {owner, NONE} /\ tx.delegate \in {delegate, NONE}

Succeeds(tx, signer) ==
    /\ Signed(tx, signer)
    /\ Authorized(tx)
    /\ tx.creates \cap accounts = {}
    /\ tx.uses \subseteq accounts

(***************************************************************************)
(* set_peer_config with an address, then the options and the fee; the OFT  *)
(* SDK's transaction clears the options with it.                           *)
(***************************************************************************)
PeerSet(tx) == peer' = [peer EXCEPT ![tx.value.eid] = tx.value.addr]

\* Mutant: the options are forgotten with the peer.
OptionsOfForgotten(tx) ==
    CASE tx.what = "setPeer" /\ kind = "OFT" -> [options EXCEPT ![tx.value.eid] = NONE]
      [] tx.what = "setOptions" -> [e \in Eids |-> IF e \in DOMAIN tx.value THEN tx.value[e]
                                                                          ELSE options[e]]
      [] OTHER -> options

OptionsOf(tx) ==
    CASE tx.what = "setPeer" /\ kind = "OFT" -> [options EXCEPT ![tx.value.eid] = EmptyOptions]
      [] tx.what = "setOptions" -> [e \in Eids |-> IF e \in DOMAIN tx.value THEN tx.value[e]
                                                                          ELSE options[e]]
      [] OTHER -> options

(***************************************************************************)
(* The effects of a transaction that succeeds.                             *)
(***************************************************************************)
Execute(tx) ==
    /\ accounts' = accounts \cup tx.creates
    /\ options' = OptionsOf(tx)
    /\ IF tx.what = "setPeer" THEN PeerSet(tx) ELSE UNCHANGED peer
    /\ owner' = IF tx.what \in {"setOwner", "initGovernance"} THEN tx.value ELSE owner
    /\ delegate' = IF tx.what \in {"setDelegate", "initGovernance"} THEN tx.value ELSE delegate
    /\ uln' = IF tx.what = "setUln" THEN [uln EXCEPT ![tx.value.eid] = tx.value.config] ELSE uln
    /\ pinned' = IF tx.what = "setReceiveLibrary" THEN pinned \cup {tx.value} ELSE pinned
    /\ limits' = IF tx.what = "setLimit"
                 THEN [limits EXCEPT ![tx.value.direction][tx.value.eid] = tx.value.limit]
                 ELSE limits
    /\ pauser' = IF tx.what = "setPauser" THEN tx.value ELSE pauser
    /\ unpauser' = IF tx.what = "setUnpauser" THEN tx.value ELSE unpauser
    /\ UNCHANGED kind
=============================================================================
