------------------------------ MODULE Governance ------------------------------
(***************************************************************************)
(* Governance calls from Ethereum to the other chains: the sender contract *)
(* and its permissions, the messages on their way, the receiver contract   *)
(* of an EVM chain, the governance program of Solana, and the hardhat      *)
(* tasks that deliver a message on Solana by hand.                         *)
(*                                                                         *)
(* A transaction of the EVM is a sequence of steps here, since the         *)
(* governed call may call back, to deliver another message too; nothing    *)
(* else happens on that chain meanwhile, and a revert undoes the delivery. *)
(* A transaction on Solana is one step.                                    *)
(***************************************************************************)
EXTENDS FiniteSets, Integers, Sequences

CONSTANTS
    NONE,           \* no origin, no task, no message
    Callers,        \* addresses on Ethereum that may be allowed to call
    EvmTargets,     \* contracts on the EVM chain
    SolanaTargets,  \* programs on Solana
    Wide,           \* the programs whose instruction names too many accounts
                    \* for a transaction without an address lookup table
    MaxMessages     \* bound on the messages sent

Targets == EvmTargets \cup SolanaTargets

ASSUME GovernanceAssumption ==
    /\ EvmTargets \cap SolanaTargets = {}
    /\ Wide \subseteq SolanaTargets
    /\ MaxMessages \in Nat
    /\ NONE \notin Callers

VARIABLES
    canCallTarget,  \* the permissions, pairs of caller and target
    messages,       \* the messages sent, with their fields
    verified,       \* which of them the endpoints have verified
    cleared,        \* which of them the endpoints have cleared
    done,           \* the governed calls made: message, authority, target
    messageOrigin,  \* what the receiver contract tells, NONE when zero
    frames,         \* the deliveries in progress on the EVM chain
    authority,      \* for each caller, whose its CPI authority account is
    tables,         \* the programs whose accounts a lookup table holds
    alts,           \* those of the tables the governance program names
    task            \* the task the operator runs, or NONE

senderVars == <<canCallTarget, messages>>
evmVars == <<messageOrigin, frames>>
solanaVars == <<authority, tables, alts>>
vars == <<senderVars, verified, cleared, done, evmVars, solanaVars, task>>

\* Owned by the system program and without data; or anything else.
System == "system"
Owners == {System, "other"}

Calls == [call : 1..MaxMessages, as : Callers \cup {NONE}, on : Targets, time : {1}]

\* The record of a call of message m, which counts the calls of m.
Made(m, as, on) ==
    [call |-> m, as |-> as, on |-> on, time |-> Cardinality({d \in done : d.call = m}) + 1]

TypeOK ==
    /\ canCallTarget \subseteq Callers \X Targets
    /\ messages \in Seq([caller : Callers, target : Targets])
    /\ Len(messages) <= MaxMessages
    /\ verified \subseteq DOMAIN messages
    /\ cleared \subseteq verified
    /\ done \subseteq Calls
    /\ messageOrigin \in Callers \cup {NONE}
    /\ frames \in Seq([call : DOMAIN messages, acted : BOOLEAN, origin : Callers \cup {NONE}])
    /\ authority \in [Callers -> Owners]
    /\ tables \subseteq Wide
    /\ alts \subseteq tables
    /\ task = NONE \/ task.call \in DOMAIN messages

Init ==
    /\ canCallTarget = {}
    /\ messages = <<>>
    /\ verified = {} /\ cleared = {} /\ done = {}
    /\ messageOrigin = NONE /\ frames = <<>>
    /\ authority = [c \in Callers |-> System]
    /\ tables = {} /\ alts = {}
    /\ task = NONE

-----------------------------------------------------------------------------
(***************************************************************************)
(* The sender: the owner gives and takes permissions; a call is checked    *)
(* against them when it is sent and carries its caller.                    *)
(***************************************************************************)
SetCanCallTarget(caller, target, canCall) ==
    /\ canCall # (<<caller, target>> \in canCallTarget)
    /\ canCallTarget' = IF canCall THEN canCallTarget \cup {<<caller, target>>}
                                   ELSE canCallTarget \ {<<caller, target>>}
    /\ UNCHANGED <<messages, verified, cleared, done, evmVars, solanaVars, task>>

SendTx(caller, target) ==
    /\ Len(messages) < MaxMessages
    /\ <<caller, target>> \in canCallTarget
    /\ messages' = Append(messages, [caller |-> caller, target |-> target])
    /\ UNCHANGED <<canCallTarget, verified, cleared, done, evmVars, solanaVars, task>>

\* The endpoint: its verifiers commit a message, in any order.
Verify(m) ==
    /\ m \notin verified
    /\ verified' = verified \cup {m}
    /\ UNCHANGED <<senderVars, cleared, done, evmVars, solanaVars, task>>

\* It clears a message that is verified, once.
DeliverableUnverified(m) == m \notin cleared

Deliverable(m) == m \in verified \ cleared

-----------------------------------------------------------------------------
(***************************************************************************)
(* The receiver contract.  The endpoint clears the message, then the       *)
(* receiver publishes whose call it is, and calls the target.              *)
(***************************************************************************)
NotEnteredTwice == Len(frames) < 2

NotEntered == frames = <<>>

Frame(m) == [call |-> m, acted |-> FALSE, origin |-> messageOrigin]

LzReceiveEvm(m) ==
    /\ messages[m].target \in EvmTargets
    /\ Deliverable(m)
    /\ NotEntered
    /\ frames' = <<Frame(m)>> \o frames
    /\ cleared' = cleared \cup {m}
    /\ messageOrigin' = messages[m].caller
    /\ UNCHANGED <<senderVars, verified, done, solanaVars, task>>

\* The target asks the receiver whose call it is, and acts on the answer.
GovernedCall ==
    /\ frames # <<>> /\ ~ Head(frames).acted
    /\ LET m == Head(frames).call
       IN done' = done \cup {Made(m, messageOrigin, messages[m].target)}
    /\ frames' = [frames EXCEPT ![1].acted = TRUE]
    /\ UNCHANGED <<senderVars, verified, cleared, messageOrigin, solanaVars, task>>

GovernedCallReturnsUncleared ==
    /\ frames # <<>> /\ Head(frames).acted
    /\ frames' = Tail(frames)
    /\ UNCHANGED <<senderVars, verified, cleared, done, messageOrigin, solanaVars, task>>

GovernedCallReturns ==
    /\ frames # <<>> /\ Head(frames).acted
    /\ messageOrigin' = NONE
    /\ frames' = Tail(frames)
    /\ UNCHANGED <<senderVars, verified, cleared, done, solanaVars, task>>

\* The call fails, and the delivery with it.
GovernedCallFails ==
    /\ frames # <<>>
    /\ cleared' = cleared \ {Head(frames).call}
    /\ done' = {d \in done : d.call # Head(frames).call}
    /\ messageOrigin' = Head(frames).origin
    /\ frames' = Tail(frames)
    /\ UNCHANGED <<senderVars, verified, solanaVars, task>>

-----------------------------------------------------------------------------
(***************************************************************************)
(* The governance program.  It clears the message, checks that the program *)
(* it was given is the one the message names, and invokes it, signed by    *)
(* the authority account of the caller; whatever the instruction did with  *)
(* that account, it must still belong to the system program and be empty.  *)
(* An account that fails either check counts as another's: whether it was  *)
(* assigned to a program or given data, the message is refused alike.      *)
(***************************************************************************)
GovernedProgramMatches(m, program) == messages[m].target = program

AuthorityIntactBefore(m, owner) == authority[messages[m].caller] = System

AuthorityIntact(m, owner) == owner = System

\* The instruction may give the account away, but nobody gives it back.
OwnersAfter(m) == IF authority[messages[m].caller] = System THEN Owners
                  ELSE {authority[messages[m].caller]}

LzReceiveSolana(m, program, owner) ==
    /\ Deliverable(m)
    /\ GovernedProgramMatches(m, program)
    /\ owner \in OwnersAfter(m)
    /\ AuthorityIntact(m, owner)
    /\ cleared' = cleared \cup {m}
    /\ done' = done \cup {Made(m, messages[m].caller, program)}
    /\ authority' = [authority EXCEPT ![messages[m].caller] = owner]
    /\ UNCHANGED <<senderVars, verified, evmVars, tables, alts>>

\* The execution plan names the lookup tables; without one for it, a wide
\* instruction does not fit.
Fits(m, plan) == messages[m].target \in Wide => messages[m].target \in plan

Executor(m) ==
    /\ Fits(m, alts)
    /\ \E program \in SolanaTargets, owner \in Owners : LzReceiveSolana(m, program, owner)
    /\ UNCHANGED task

-----------------------------------------------------------------------------
(***************************************************************************)
(* The tasks.  They ask the message explorer for the status of a message,  *)
(* which may have changed when they act on it.                             *)
(***************************************************************************)
Idle == task = NONE

TaskNames == {"clear-v2", "alt"}

ScanStatus(m) == IF m \in cleared THEN "SUCCEEDED"
                 ELSE IF m \in verified THEN "SEALED" ELSE "WAITING"

Look(name, m) ==
    /\ Idle
    /\ messages[m].target \in SolanaTargets
    /\ ScanStatus(m) \notin {"SUCCEEDED", "WAITING"}
    /\ task' = [name |-> name, call |-> m, plan |-> NONE]
    /\ UNCHANGED <<senderVars, verified, cleared, done, evmVars, solanaVars>>

Plan ==
    /\ ~ Idle /\ task.plan = NONE
    /\ task' = [task EXCEPT !.plan = alts]
    /\ UNCHANGED <<senderVars, verified, cleared, done, evmVars, solanaVars>>

\* Sends the plan of a message, if it fits, and does not wait.
Planned(name) == ~ Idle /\ task.name = name /\ task.plan # NONE

ClearV2 ==
    /\ Planned("clear-v2")
    /\ task' = NONE
    /\ \/ /\ Fits(task.call, task.plan)
          /\ \E program \in SolanaTargets, owner \in Owners :
                LzReceiveSolana(task.call, program, owner)
       \/ UNCHANGED <<senderVars, verified, cleared, done, evmVars, solanaVars>>

\* Creates a table for the accounts of a message when the plan has none.
CreateLookupTable ==
    /\ Planned("alt")
    /\ task' = NONE
    /\ \/ task.plan = {} /\ tables' = tables \cup ({messages[task.call].target} \cap Wide)
       \/ UNCHANGED tables
    /\ UNCHANGED <<senderVars, verified, cleared, done, evmVars, authority, alts>>

\* The admin names the tables to use, in place of those named before.
SetAlts(named) ==
    /\ named # {} /\ named \subseteq tables
    /\ named # alts
    /\ alts' = named
    /\ UNCHANGED <<senderVars, verified, cleared, done, evmVars, authority, tables, task>>

-----------------------------------------------------------------------------
Next ==
    \/ \E caller \in Callers, target \in Targets :
        SendTx(caller, target) \/ \E canCall \in BOOLEAN : SetCanCallTarget(caller, target, canCall)
    \/ \E m \in DOMAIN messages :
        \/ Verify(m) \/ LzReceiveEvm(m) \/ Executor(m)
        \/ \E name \in TaskNames : Look(name, m)
    \/ GovernedCall \/ GovernedCallReturns \/ GovernedCallFails
    \/ Plan \/ ClearV2 \/ CreateLookupTable
    \/ \E named \in SUBSET Wide : SetAlts(named)

Spec == Init /\ [][Next]_vars

(***************************************************************************)
(* Messages are verified, and the operator keeps running the tasks: of the *)
(* transactions it sends some land, and of the governed instructions some  *)
(* succeed.  Nothing is assumed of the executor.                           *)
(***************************************************************************)
FairSpec ==
    /\ Spec
    /\ \A m \in 1..MaxMessages :
        /\ WF_vars(m \in DOMAIN messages /\ Verify(m))
        /\ \A name \in TaskNames : SF_vars(m \in DOMAIN messages /\ Look(name, m))
    /\ WF_vars(Plan \/ ClearV2 \/ CreateLookupTable)
    /\ SF_vars(ClearV2 /\ cleared' # cleared)
    /\ SF_vars(CreateLookupTable /\ tables' # tables)
    /\ \A named \in SUBSET Wide : SF_vars(SetAlts(named))

-----------------------------------------------------------------------------
(***************************************************************************)
(* A call is performed at most once, on its target, by a caller that was   *)
(* permitted when it was issued, whatever calls back, reverts, is retried  *)
(* or is delivered by several at once.  A delivery in progress counts when *)
(* it has returned.                                                        *)
(***************************************************************************)
InProgress == {frames[i].call : i \in DOMAIN frames}
Performed == {d \in done : d.call \notin InProgress}

GovernedCalls == INSTANCE GovernedCalls WITH
    permitted <- canCallTarget, issued <- messages, performed <- Performed

ImplementsCalls == GovernedCalls!Spec

(***************************************************************************)
(* Outside a delivery the receiver names no origin, after a delivery that  *)
(* reverted too: nobody can act on one that is left over.                  *)
(***************************************************************************)
OriginClearOutside == NotEntered => messageOrigin = NONE

(***************************************************************************)
(* What is sent to Solana can be delivered without the executor's help,    *)
(* by the tasks alone: no delivery, planned on old lookup tables or raced  *)
(* by another, makes a later one impossible.                               *)
(***************************************************************************)
Delivered ==
    \A m \in 1..MaxMessages :
        (m \in DOMAIN messages /\ messages[m].target \in SolanaTargets) ~> m \in cleared
=============================================================================
