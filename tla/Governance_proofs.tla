-------------------------- MODULE Governance_proofs --------------------------
(***************************************************************************)
(* Proofs about the governance calls, for any callers, targets and number  *)
(* of messages.                                                            *)
(***************************************************************************)
EXTENDS Governance, FiniteSetTheorems, SequenceTheorems, TLAPS

Messages == [caller : Callers, target : Targets]
Frames == [call : DOMAIN messages, acted : BOOLEAN, origin : Callers \cup {NONE}]

\* The call of message m, as it should be made.
Call(m) == [call |-> m, as |-> messages[m].caller, on |-> messages[m].target, time |-> 1]

\* There is at most one delivery in progress, and it is published as its
\* own caller's.
OneDelivery ==
    /\ frames = <<>> => messageOrigin = NONE
    /\ frames # <<>> =>
        /\ Len(frames) = 1
        /\ frames[1].call \in cleared
        /\ frames[1].origin = NONE
        /\ messageOrigin = messages[frames[1].call].caller
        /\ frames[1].acted <=> Call(frames[1].call) \in done

\* What was done is what was asked for, and it cannot be asked for again.
DoneAsAsked == \A d \in done : d.call \in cleared /\ d = Call(d.call)

IInv == TypeOK /\ OneDelivery /\ DoneAsAsked

-----------------------------------------------------------------------------
(***************************************************************************)
(* What is made of a message that was not made before is its call.         *)
(***************************************************************************)
LEMMA MadeOnce ==
    ASSUME NEW m, \A d \in done : d.call # m
    PROVE  Made(m, messages[m].caller, messages[m].target) = Call(m)
<1>1. {d \in done : d.call = m} = {}
    OBVIOUS
<1>2. Cardinality({d \in done : d.call = m}) = 0
    BY <1>1, FS_EmptySet, Zenon
<1>3. QED
    BY <1>2 DEF Made, Call

LEMMA CallIsCall ==
    ASSUME TypeOK, NEW m \in DOMAIN messages
    PROVE  /\ Call(m) \in Calls
           /\ Call(m).call = m
           /\ messages[m].caller \in Callers
           /\ messages[m].target \in Targets
<1>a. messages \in Seq(Messages) /\ Len(messages) <= MaxMessages
    BY DEF TypeOK, Messages
<1>b. Len(messages) \in Nat /\ DOMAIN messages = 1..Len(messages)
    BY <1>a
<1>1. messages[m] \in Messages /\ m \in 1..MaxMessages
    <2>1. m \in 1..Len(messages)
        BY <1>b
    <2>2. messages[m] \in Messages
        BY <1>a, <2>1, ElementOfSeq, Zenon
    <2>3. QED
        BY <1>a, <1>b, <2>1, <2>2, GovernanceAssumption
<1>2. QED
    BY <1>1 DEF Call, Calls, Messages

\* A first delivery in progress is the only one.
LEMMA OneFrame ==
    ASSUME IInv, frames # <<>>
    PROVE  /\ Head(frames) = frames[1]
           /\ frames[1] \in Frames
           /\ Tail(frames) = <<>>
           /\ InProgress = {frames[1].call}
<1>1. frames \in Seq(Frames) /\ Len(frames) = 1
    BY DEF IInv, TypeOK, OneDelivery, Frames
<1>2. DOMAIN frames = {1}
    BY <1>1
<1>3. Head(frames) = frames[1] /\ frames[1] \in Frames
    BY <1>1
<1>4. Tail(frames) = <<>>
    <2>1. Tail(frames) \in Seq(Frames) /\ Len(Tail(frames)) = 0
        BY <1>1, HeadTailProperties
    <2>2. QED
        BY <2>1, EmptySeq
<1>5. InProgress = {frames[1].call}
    BY <1>2 DEF InProgress
<1>6. QED
    BY <1>3, <1>4, <1>5

-----------------------------------------------------------------------------
LEMMA InitInv == Init => IInv
BY GovernanceAssumption DEF Init, IInv, TypeOK, OneDelivery, DoneAsAsked, System, Owners

\* A step that sends no message and leaves the deliveries alone.
LEMMA QuietStep ==
    ASSUME IInv, TypeOK', cleared \subseteq cleared',
           UNCHANGED <<messages, done, evmVars>>
    PROVE  IInv'
BY DEF IInv, OneDelivery, DoneAsAsked, Call, evmVars

LEMMA StepInv == ASSUME IInv, [Next]_vars PROVE IInv'
<1> USE GovernanceAssumption
<1>t. TypeOK /\ OneDelivery /\ DoneAsAsked
    BY DEF IInv
<1>1. ASSUME NEW c \in Callers, NEW t \in Targets, NEW b \in BOOLEAN, SetCanCallTarget(c, t, b)
      PROVE  IInv'
    <2>1. TypeOK'
        BY <1>t, <1>1 DEF SetCanCallTarget, TypeOK, evmVars, solanaVars
    <2>2. QED
        BY <2>1, <1>1, QuietStep DEF SetCanCallTarget, evmVars
<1>2. ASSUME NEW c \in Callers, NEW t \in Targets, SendTx(c, t)
      PROVE  IInv'
    <2> DEFINE msg == [caller |-> c, target |-> t]
    <2>1. messages \in Seq(Messages) /\ msg \in Messages /\ messages' = Append(messages, msg)
        BY <1>t, <1>2 DEF TypeOK, SendTx, Messages
    <2>2. /\ messages' \in Seq(Messages) /\ Len(messages') = Len(messages) + 1
          /\ DOMAIN messages \subseteq DOMAIN messages'
          /\ \A m \in DOMAIN messages : messages'[m] = messages[m]
        BY <2>1
    <2>3. /\ UNCHANGED <<canCallTarget, verified, cleared, done, messageOrigin, frames,
                         authority, tables, alts, task>>
          /\ Len(messages) < MaxMessages
        BY <1>2 DEF SendTx, evmVars, solanaVars
    <2>4. frames' \in Seq([call : DOMAIN messages', acted : BOOLEAN, origin : Callers \cup {NONE}])
        <3> DEFINE F == [call : DOMAIN messages', acted : BOOLEAN, origin : Callers \cup {NONE}]
        <3>1. Frames \subseteq F
            BY <2>2 DEF Frames
        <3>2. frames \in Seq(Frames)
            BY <1>t DEF TypeOK, Frames
        <3>3. frames \in Seq(F)
            BY <3>1, <3>2, SeqMonotonic, Zenon
        <3>4. QED
            BY <3>3, <2>3
    <2>5. TypeOK'
        <3>1. messages' \in Seq([caller : Callers, target : Targets]) /\ Len(messages') <= MaxMessages
            BY <2>1, <2>2, <2>3 DEF Messages
        <3>2. verified' \subseteq DOMAIN messages' /\ cleared' \subseteq verified'
            BY <1>t, <2>2, <2>3 DEF TypeOK
        <3>3. (task = NONE \/ task.call \in DOMAIN messages)'
            BY <1>t, <2>2, <2>3 DEF TypeOK
        <3>4. QED
            BY <1>t, <2>3, <2>4, <3>1, <3>2, <3>3 DEF TypeOK, Calls
    <2>6. \A m \in cleared : Call(m)' = Call(m)
        BY <1>t, <2>2 DEF Call, TypeOK
    <2>7. DoneAsAsked'
        BY <1>t, <2>3, <2>6 DEF DoneAsAsked
    <2>8. OneDelivery'
        <3>1. CASE frames = <<>>
            BY <1>t, <2>3, <3>1 DEF OneDelivery
        <3>2. CASE frames # <<>>
            <4>1. frames[1].call \in cleared /\ frames[1].call \in DOMAIN messages
                BY <1>t, <3>2 DEF OneDelivery, TypeOK
            <4>2. Call(frames[1].call)' = Call(frames[1].call)
                BY <2>6, <2>3, <4>1 DEF Call
            <4>3. QED
                BY <1>t, <2>2, <2>3, <3>2, <4>1, <4>2 DEF OneDelivery
        <3>3. QED
            BY <3>1, <3>2
    <2>9. QED
        BY <2>5, <2>7, <2>8 DEF IInv
<1>3. ASSUME NEW m \in DOMAIN messages, Verify(m)
      PROVE  IInv'
    <2>1. TypeOK'
        BY <1>t, <1>3 DEF Verify, TypeOK, senderVars, evmVars, solanaVars
    <2>2. QED
        BY <2>1, <1>3, QuietStep DEF Verify, senderVars, evmVars
<1>4. ASSUME NEW m \in DOMAIN messages, LzReceiveEvm(m)
      PROVE  IInv'
    <2>1. /\ m \in verified /\ m \notin cleared /\ frames = <<>> /\ messageOrigin = NONE
          /\ cleared' = cleared \cup {m}
          /\ messageOrigin' = messages[m].caller
          /\ UNCHANGED <<canCallTarget, messages, verified, done, authority, tables, alts, task>>
        BY <1>t, <1>4 DEF LzReceiveEvm, Deliverable, NotEntered, OneDelivery, senderVars, solanaVars
    <2>2. /\ Frame(m) \in Frames
          /\ Frame(m).call = m /\ Frame(m).acted = FALSE /\ Frame(m).origin = NONE
        BY <2>1 DEF Frame, Frames
    <2>3. frames' = <<Frame(m)>>
        <3>1. frames' = <<Frame(m)>> \o <<>>
            BY <1>4, <2>1 DEF LzReceiveEvm
        <3>2. QED
            BY <2>2, <3>1
    <2>4. frames' \in Seq(Frames) /\ frames' # <<>> /\ Len(frames') = 1 /\ frames'[1] = Frame(m)
        BY <2>2, <2>3
    <2>5. messages[m].caller \in Callers
        BY <1>t, CallIsCall
    <2>6. TypeOK'
        BY <1>t, <2>1, <2>4, <2>5 DEF TypeOK, Frames
    <2>7. Call(m) \notin done
        BY <1>t, <2>1, CallIsCall DEF DoneAsAsked
    <2>8. OneDelivery'
        BY <2>1, <2>2, <2>4, <2>7 DEF OneDelivery, Call
    <2>9. DoneAsAsked'
        BY <1>t, <2>1 DEF DoneAsAsked, Call
    <2>10. QED
        BY <2>6, <2>8, <2>9 DEF IInv
<1>5. CASE GovernedCall
    <2> DEFINE m == frames[1].call
    <2>1. /\ frames # <<>> /\ Head(frames) = frames[1] /\ frames[1] \in Frames
          /\ Len(frames) = 1 /\ frames \in Seq(Frames) /\ ~ frames[1].acted
        BY <1>t, <1>5, OneFrame DEF GovernedCall, OneDelivery, TypeOK, Frames
    <2>2. /\ m \in cleared /\ m \in DOMAIN messages /\ frames[1].origin = NONE
          /\ messageOrigin = messages[m].caller /\ Call(m) \notin done
        BY <1>t, <2>1 DEF OneDelivery, TypeOK
    <2>3. \A d \in done : d.call # m
        BY <1>t, <2>2 DEF DoneAsAsked
    <2>4. Made(m, messages[m].caller, messages[m].target) = Call(m)
        BY <2>3, MadeOnce
    <2>5. /\ done' = done \cup {Call(m)}
          /\ frames' = [frames EXCEPT ![1].acted = TRUE]
          /\ UNCHANGED <<canCallTarget, messages, verified, cleared, messageOrigin,
                         authority, tables, alts, task>>
        BY <1>5, <2>1, <2>2, <2>4 DEF GovernedCall, senderVars, solanaVars
    <2>6. /\ Len(frames') = 1 /\ frames' \in Seq(Frames) /\ frames' # <<>>
          /\ frames'[1].call = m /\ frames'[1].acted = TRUE /\ frames'[1].origin = NONE
        <3> DEFINE f == [frames[1] EXCEPT !.acted = TRUE]
        <3>1. f \in Frames /\ f.call = m /\ f.acted = TRUE /\ f.origin = NONE
            BY <2>1, <2>2 DEF Frames
        <3>2. frames' = [frames EXCEPT ![1] = f]
            BY <2>5
        <3> HIDE DEF f
        <3>3. QED
            BY <2>1, <3>1, <3>2
    <2>7. Call(m) \in Calls /\ Call(m).call = m
        BY <1>t, <2>2, CallIsCall
    <2>8. TypeOK'
        BY <1>t, <2>5, <2>6, <2>7 DEF TypeOK, Frames, Calls
    <2>9. OneDelivery'
        BY <2>2, <2>5, <2>6 DEF OneDelivery, Call
    <2>10. DoneAsAsked'
        BY <1>t, <2>2, <2>5, <2>7 DEF DoneAsAsked, Call
    <2>11. QED
        BY <2>8, <2>9, <2>10 DEF IInv
<1>6. CASE GovernedCallReturns
    <2>1. frames # <<>> /\ Tail(frames) = <<>>
        BY <1>6, OneFrame DEF GovernedCallReturns
    <2>2. /\ frames' = <<>> /\ messageOrigin' = NONE
          /\ UNCHANGED <<canCallTarget, messages, verified, cleared, done,
                         authority, tables, alts, task>>
        BY <1>6, <2>1 DEF GovernedCallReturns, senderVars, solanaVars
    <2>3. QED
        BY <1>t, <2>2 DEF IInv, TypeOK, OneDelivery, DoneAsAsked, Call
<1>7. CASE GovernedCallFails
    <2> DEFINE m == frames[1].call
    <2>1. /\ frames # <<>> /\ Tail(frames) = <<>> /\ Head(frames) = frames[1]
          /\ frames[1].origin = NONE
        BY <1>t, <1>7, OneFrame DEF GovernedCallFails, OneDelivery
    <2>2. /\ frames' = <<>> /\ messageOrigin' = NONE
          /\ cleared' = cleared \ {m} /\ done' = {d \in done : d.call # m}
          /\ UNCHANGED <<canCallTarget, messages, verified, authority, tables, alts, task>>
        BY <1>7, <2>1 DEF GovernedCallFails, senderVars, solanaVars
    <2>3. QED
        BY <1>t, <2>2 DEF IInv, TypeOK, OneDelivery, DoneAsAsked, Call
<1>8. ASSUME NEW m \in DOMAIN messages, NEW p \in SolanaTargets, NEW o \in Owners,
             LzReceiveSolana(m, p, o), UNCHANGED task \/ task' = NONE
      PROVE  IInv'
    <2>1. /\ m \in verified /\ m \notin cleared /\ p = messages[m].target
          /\ cleared' = cleared \cup {m}
          /\ done' = done \cup {Made(m, messages[m].caller, p)}
          /\ authority' = [authority EXCEPT ![messages[m].caller] = o]
          /\ UNCHANGED <<canCallTarget, messages, verified, messageOrigin, frames, tables, alts>>
        BY <1>8 DEF LzReceiveSolana, Deliverable, GovernedProgramMatches, senderVars, evmVars
    <2>2. \A d \in done : d.call # m
        BY <1>t, <2>1 DEF DoneAsAsked
    <2>3. done' = done \cup {Call(m)}
        BY <2>1, <2>2, MadeOnce
    <2>4. Call(m) \in Calls /\ Call(m).call = m
        BY <1>t, CallIsCall
    <2>5. TypeOK'
        <3>1. done' \subseteq Calls
            BY <1>t, <2>3, <2>4 DEF TypeOK
        <3>2. authority' \in [Callers -> Owners]
            BY <1>t, <2>1 DEF TypeOK
        <3>3. QED
            BY <1>t, <1>8, <2>1, <3>1, <3>2 DEF TypeOK, Calls
    <2>6. DoneAsAsked'
        BY <1>t, <2>1, <2>3, <2>4 DEF DoneAsAsked, Call
    <2>7. OneDelivery'
        <3>1. CASE frames = <<>>
            BY <1>t, <2>1, <3>1 DEF OneDelivery
        <3>2. CASE frames # <<>>
            <4>1. frames[1].call \in cleared
                BY <1>t, <3>2 DEF OneDelivery
            <4>2. Call(frames[1].call) # Call(m)
                BY <2>1, <4>1 DEF Call
            <4>3. QED
                BY <1>t, <2>1, <2>3, <3>2, <4>1, <4>2 DEF OneDelivery, Call
        <3>3. QED
            BY <3>1, <3>2
    <2>8. QED
        BY <2>5, <2>6, <2>7 DEF IInv
<1>9. ASSUME NEW m \in DOMAIN messages, Executor(m)
      PROVE  IInv'
    BY <1>8, <1>9 DEF Executor
<1>10. ASSUME NEW name \in TaskNames, NEW m \in DOMAIN messages, Look(name, m)
      PROVE  IInv'
    <2>1. TypeOK'
        BY <1>t, <1>10 DEF Look, TypeOK, senderVars, evmVars, solanaVars
    <2>2. QED
        BY <2>1, <1>10, QuietStep DEF Look, senderVars, evmVars
<1>11. CASE Plan
    <2>1. TypeOK'
        BY <1>t, <1>11 DEF Plan, Idle, TypeOK, senderVars, evmVars, solanaVars
    <2>2. QED
        BY <2>1, <1>11, QuietStep DEF Plan, senderVars, evmVars
<1>12. CASE ClearV2
    <2>1. task' = NONE /\ task.call \in DOMAIN messages
        BY <1>t, <1>12 DEF ClearV2, Planned, Idle, TypeOK
    <2>2. CASE UNCHANGED <<senderVars, verified, cleared, done, evmVars, solanaVars>>
        <3>1. TypeOK'
            BY <1>t, <2>1, <2>2 DEF TypeOK, senderVars, evmVars, solanaVars
        <3>2. QED
            BY <3>1, <2>2, QuietStep DEF senderVars, evmVars
    <2>3. CASE \E program \in SolanaTargets, owner \in Owners :
                    LzReceiveSolana(task.call, program, owner)
        BY <1>8, <2>1, <2>3
    <2>4. QED
        BY <1>12, <2>2, <2>3 DEF ClearV2
<1>13. CASE CreateLookupTable
    <2>1. TypeOK'
        BY <1>t, <1>13 DEF CreateLookupTable, TypeOK, senderVars, evmVars
    <2>2. QED
        BY <2>1, <1>13, QuietStep DEF CreateLookupTable, senderVars, evmVars
<1>14. ASSUME NEW named \in SUBSET Wide, SetAlts(named)
      PROVE  IInv'
    <2>1. TypeOK'
        BY <1>t, <1>14 DEF SetAlts, TypeOK, senderVars, evmVars
    <2>2. QED
        BY <2>1, <1>14, QuietStep DEF SetAlts, senderVars, evmVars
<1>15. CASE UNCHANGED vars
    <2>1. TypeOK'
        BY <1>t, <1>15 DEF TypeOK, vars, senderVars, evmVars, solanaVars
    <2>2. QED
        BY <2>1, <1>15, QuietStep DEF vars, senderVars
<1>16. QED
    BY <1>1, <1>2, <1>3, <1>4, <1>5, <1>6, <1>7, <1>9, <1>10, <1>11, <1>12, <1>13, <1>14, <1>15
    DEF Next

(***************************************************************************)
(* The inductive invariant of the governance calls.                        *)
(***************************************************************************)
THEOREM Invariance == Spec => []IInv
<1>1. Init => IInv
    BY InitInv
<1>2. IInv /\ [Next]_vars => IInv'
    BY StepInv
<1>3. QED
    BY <1>1, <1>2, PTL DEF Spec

(***************************************************************************)
(* Type correctness of the governance calls.                               *)
(***************************************************************************)
THEOREM TypeCorrect == Spec => []TypeOK
BY Invariance, PTL DEF IInv

(***************************************************************************)
(* Outside a delivery GovernanceOAppReceiver names no origin.              *)
(***************************************************************************)
THEOREM OriginIsClear == Spec => []OriginClearOutside
<1>1. IInv => OriginClearOutside
    BY DEF IInv, OneDelivery, OriginClearOutside, NotEntered
<1>2. QED
    BY <1>1, Invariance, PTL

-----------------------------------------------------------------------------
\* A step that leaves the permissions, the messages and the calls performed
\* alone is none of the abstract specification.
LEMMA Stutter ==
    ASSUME UNCHANGED <<senderVars, Performed>>
    PROVE  [GovernedCalls!Next]_(GovernedCalls!vars)
BY DEF senderVars, GovernedCalls!vars

LEMMA PerformStep ==
    ASSUME IInv, NEW m \in DOMAIN messages, UNCHANGED senderVars,
           \A d \in Performed : d.call # m, Performed' = Performed \cup {Call(m)}
    PROVE  [GovernedCalls!Next]_(GovernedCalls!vars)
<1>1. GovernedCalls!Perform(m)
    BY DEF GovernedCalls!Perform, Call, senderVars
<1>2. QED
    BY <1>1 DEF GovernedCalls!Next

(***************************************************************************)
(* A step of the governance calls is one of the abstract specification.    *)
(***************************************************************************)
LEMMA StepImplements ==
    ASSUME IInv, [Next]_vars
    PROVE  [GovernedCalls!Next]_(GovernedCalls!vars)
<1>t. TypeOK /\ OneDelivery /\ DoneAsAsked
    BY DEF IInv
<1>q. ASSUME UNCHANGED <<senderVars, done, frames>>
      PROVE  [GovernedCalls!Next]_(GovernedCalls!vars)
    <2>1. UNCHANGED Performed
        BY <1>q DEF Performed, InProgress
    <2>2. QED
        BY <2>1, <1>q, Stutter
<1>1. ASSUME NEW c \in Callers, NEW t \in Targets, NEW b \in BOOLEAN, SetCanCallTarget(c, t, b)
      PROVE  [GovernedCalls!Next]_(GovernedCalls!vars)
    <2>1. canCallTarget' \subseteq Callers \X Targets
        BY <1>t, <1>1 DEF SetCanCallTarget, TypeOK
    <2>2. UNCHANGED <<messages, Performed>>
        BY <1>1 DEF SetCanCallTarget, evmVars, Performed, InProgress
    <2>3. GovernedCalls!Permit
        BY <2>1, <2>2 DEF GovernedCalls!Permit
    <2>4. QED
        BY <2>3 DEF GovernedCalls!Next
<1>2. ASSUME NEW c \in Callers, NEW t \in Targets, SendTx(c, t)
      PROVE  [GovernedCalls!Next]_(GovernedCalls!vars)
    <2>1. UNCHANGED <<canCallTarget, Performed>>
        BY <1>2 DEF SendTx, evmVars, Performed, InProgress
    <2>2. GovernedCalls!Issue(c, t)
        BY <1>2, <2>1 DEF SendTx, GovernedCalls!Issue
    <2>3. QED
        BY <2>2 DEF GovernedCalls!Next
<1>3. ASSUME NEW m \in DOMAIN messages, Verify(m)
      PROVE  [GovernedCalls!Next]_(GovernedCalls!vars)
    BY <1>3, <1>q DEF Verify, evmVars
<1>4. ASSUME NEW m \in DOMAIN messages, LzReceiveEvm(m)
      PROVE  [GovernedCalls!Next]_(GovernedCalls!vars)
    <2>1. /\ m \notin cleared /\ frames = <<>> /\ frames' = <<Frame(m)>> \o <<>>
          /\ UNCHANGED <<senderVars, done>>
        BY <1>4 DEF LzReceiveEvm, Deliverable, NotEntered
    <2>2. InProgress = {}
        BY <2>1 DEF InProgress
    <2>3. frames' = <<Frame(m)>> /\ Frame(m).call = m
        BY <2>1 DEF Frame
    <2>4. InProgress' = {m}
        BY <2>3 DEF InProgress
    <2>5. \A d \in done : d.call # m
        BY <1>t, <2>1 DEF DoneAsAsked
    <2>6. UNCHANGED Performed
        BY <2>1, <2>2, <2>4, <2>5 DEF Performed
    <2>7. QED
        BY <2>1, <2>6, Stutter
<1>5. CASE GovernedCall
    <2> DEFINE m == frames[1].call
    <2>1. /\ frames # <<>> /\ Head(frames) = frames[1] /\ frames[1] \in Frames
          /\ Len(frames) = 1 /\ frames \in Seq(Frames) /\ InProgress = {m}
        BY <1>t, <1>5, OneFrame DEF GovernedCall, OneDelivery, TypeOK, Frames
    <2>2. /\ frames' = [frames EXCEPT ![1].acted = TRUE]
          /\ UNCHANGED senderVars
          /\ done' = done \cup {Made(m, messageOrigin, messages[m].target)}
        BY <1>5, <2>1 DEF GovernedCall
    <2>3. DOMAIN frames' = {1} /\ frames'[1].call = m
        BY <2>1, <2>2 DEF Frames
    <2>4. InProgress' = {m}
        BY <2>3 DEF InProgress
    <2>5. Made(m, messageOrigin, messages[m].target).call = m
        BY DEF Made
    <2>6. UNCHANGED Performed
        BY <2>1, <2>2, <2>4, <2>5 DEF Performed
    <2>7. QED
        BY <2>2, <2>6, Stutter
<1>6. CASE GovernedCallReturns
    <2> DEFINE m == frames[1].call
    <2>1. /\ frames # <<>> /\ Tail(frames) = <<>> /\ Head(frames) = frames[1]
          /\ frames[1] \in Frames /\ InProgress = {m}
        BY <1>6, OneFrame DEF GovernedCallReturns
    <2>2. frames' = <<>> /\ frames[1].acted /\ UNCHANGED <<senderVars, done>>
        BY <1>6, <2>1 DEF GovernedCallReturns
    <2>3. InProgress' = {} /\ m \in DOMAIN messages
        BY <2>1, <2>2 DEF InProgress, Frames
    <2>4. Call(m) \in done /\ Call(m).call = m
        BY <1>t, <2>1, <2>2, <2>3 DEF OneDelivery, Call
    <2>5. \A d \in done : d.call = m => d = Call(m)
        BY <1>t DEF DoneAsAsked
    <2>6. Performed' = Performed \cup {Call(m)} /\ \A d \in Performed : d.call # m
        BY <2>1, <2>2, <2>3, <2>4, <2>5 DEF Performed
    <2>7. QED
        BY <2>2, <2>3, <2>6, PerformStep
<1>7. CASE GovernedCallFails
    <2> DEFINE m == frames[1].call
    <2>1. /\ frames # <<>> /\ Tail(frames) = <<>> /\ Head(frames) = frames[1]
          /\ InProgress = {m}
        BY <1>7, OneFrame DEF GovernedCallFails
    <2>2. frames' = <<>> /\ done' = {d \in done : d.call # m} /\ UNCHANGED senderVars
        BY <1>7, <2>1 DEF GovernedCallFails
    <2>3. InProgress' = {}
        BY <2>2 DEF InProgress
    <2>4. UNCHANGED Performed
        BY <2>1, <2>2, <2>3 DEF Performed
    <2>5. QED
        BY <2>2, <2>4, Stutter
<1>8. ASSUME NEW m \in DOMAIN messages, NEW p \in SolanaTargets, NEW o \in Owners,
             LzReceiveSolana(m, p, o)
      PROVE  [GovernedCalls!Next]_(GovernedCalls!vars)
    <2>1. /\ m \notin cleared /\ p = messages[m].target
          /\ done' = done \cup {Made(m, messages[m].caller, p)}
          /\ UNCHANGED <<senderVars, frames>>
        BY <1>8 DEF LzReceiveSolana, Deliverable, GovernedProgramMatches, evmVars
    <2>2. \A d \in done : d.call # m
        BY <1>t, <2>1 DEF DoneAsAsked
    <2>3. done' = done \cup {Call(m)} /\ Call(m).call = m
        BY <2>1, <2>2, MadeOnce DEF Call
    <2>4. m \notin InProgress
        <3>1. CASE frames = <<>>
            BY <3>1 DEF InProgress
        <3>2. CASE frames # <<>>
            BY <1>t, <2>1, <3>2, OneFrame DEF OneDelivery
        <3>3. QED
            BY <3>1, <3>2
    <2>5. UNCHANGED InProgress
        BY <2>1 DEF InProgress
    <2>6. Performed' = Performed \cup {Call(m)} /\ \A d \in Performed : d.call # m
        BY <2>2, <2>3, <2>4, <2>5 DEF Performed
    <2>7. QED
        BY <2>1, <2>6, PerformStep
<1>9. ASSUME NEW m \in DOMAIN messages, Executor(m)
      PROVE  [GovernedCalls!Next]_(GovernedCalls!vars)
    BY <1>8, <1>9 DEF Executor
<1>10. ASSUME NEW name \in TaskNames, NEW m \in DOMAIN messages, Look(name, m)
      PROVE  [GovernedCalls!Next]_(GovernedCalls!vars)
    BY <1>10, <1>q DEF Look, evmVars
<1>11. CASE Plan
    BY <1>11, <1>q DEF Plan, evmVars
<1>12. CASE ClearV2
    <2>1. task.call \in DOMAIN messages
        BY <1>t, <1>12 DEF ClearV2, Planned, Idle, TypeOK
    <2>2. CASE UNCHANGED <<senderVars, verified, cleared, done, evmVars, solanaVars>>
        BY <2>2, <1>q DEF evmVars
    <2>3. CASE \E program \in SolanaTargets, owner \in Owners :
                    LzReceiveSolana(task.call, program, owner)
        BY <1>8, <2>1, <2>3
    <2>4. QED
        BY <1>12, <2>2, <2>3 DEF ClearV2
<1>13. CASE CreateLookupTable
    BY <1>13, <1>q DEF CreateLookupTable, evmVars
<1>14. ASSUME NEW named \in SUBSET Wide, SetAlts(named)
      PROVE  [GovernedCalls!Next]_(GovernedCalls!vars)
    BY <1>14, <1>q DEF SetAlts, evmVars
<1>15. CASE UNCHANGED vars
    BY <1>15, <1>q DEF vars, evmVars
<1>16. QED
    BY <1>1, <1>2, <1>3, <1>4, <1>5, <1>6, <1>7, <1>9, <1>10, <1>11, <1>12, <1>13, <1>14, <1>15
    DEF Next

(***************************************************************************)
(* Sender, receivers and tasks together implement what governance over     *)
(* LayerZero promises: each call at most once, on its target, with the     *)
(* authority of a caller permitted when it was issued.                     *)
(***************************************************************************)
THEOREM Implements == Spec => ImplementsCalls
<1>1. Init => GovernedCalls!Init
    BY DEF Init, GovernedCalls!Init, Performed
<1>2. IInv /\ [Next]_vars => [GovernedCalls!Next]_(GovernedCalls!vars)
    BY StepImplements
<1>3. QED
    BY <1>1, <1>2, Invariance, PTL DEF Spec, ImplementsCalls, GovernedCalls!Spec
=============================================================================
