----------------------- MODULE SkyRateLimiterEnvelope -----------------------
(***************************************************************************)
(* What the rate limiter promises about the total amount that passes it.   *)
(* History variables measure one interval of one rate limit:               *)
(*   subject   the eid and direction that is measured, any but fixed       *)
(*   mark      when the measured interval began                            *)
(*   used      how much was charged to the subject since then              *)
(*   relieved  how much the opposite direction gave back under Net         *)
(* Changing the configuration of the subject, or resetting it, starts a    *)
(* new interval; so does Remark, which may happen at any moment.  What     *)
(* holds of the measured interval therefore holds of every rate limit and  *)
(* every interval in which it was neither reconfigured nor reset.          *)
(***************************************************************************)
EXTENDS SkyRateLimiter

CONSTANT MaxUsed    \* bound on the measured amounts

ASSUME MaxUsedAssumption == MaxUsed \in Nat

VARIABLES subject, mark, used, relieved

historyVars == <<subject, mark, used, relieved>>
vars == <<rateLimitAccountingType, rateLimits, now, subject, mark, used, relieved>>

Subjects == [eid : Eids, dir : Directions]

measured == rateLimits[subject.eid][subject.dir]

Restart == mark' = now /\ used' = 0 /\ relieved' = 0 /\ UNCHANGED subject

Init ==
    /\ LimiterInit
    /\ subject \in Subjects
    /\ mark = now
    /\ used = 0
    /\ relieved = 0

-----------------------------------------------------------------------------
Update(eid, d, amount) ==
    /\ UpdateRateLimit(eid, d, amount)
    /\ used' = used + (IF eid = subject.eid /\ d = subject.dir THEN amount ELSE 0)
    /\ relieved' = relieved + (IF /\ eid = subject.eid
                                  /\ Opposite(d) = subject.dir
                                  /\ rateLimitAccountingType = "Net"
                               THEN amount ELSE 0)
    /\ used' <= MaxUsed /\ relieved' <= MaxUsed
    /\ UNCHANGED <<subject, mark>>

\* Is the subject among the eids listed for inbound and for outbound?
SubjectListed(inbound, outbound) ==
    subject.eid \in (IF subject.dir = "Inbound" THEN inbound ELSE outbound)

RestartIfListed(inbound, outbound) ==
    IF SubjectListed(inbound, outbound) THEN Restart ELSE UNCHANGED historyVars

Set(inbound, outbound) ==
    /\ SetRateLimits(inbound, outbound)
    /\ RestartIfListed(DOMAIN inbound, DOMAIN outbound)

Reset(inbound, outbound) ==
    /\ ResetRateLimits(inbound, outbound)
    /\ RestartIfListed(inbound, outbound)

SetType(accounting) ==
    /\ SetRateLimitAccountingType(accounting)
    /\ UNCHANGED historyVars

Time == Tick /\ UNCHANGED historyVars

Remark == Restart /\ UNCHANGED limiterVars

Next ==
    \/ \E eid \in Eids, d \in Directions, amount \in Amounts : Update(eid, d, amount)
    \/ \E inbound, outbound \in ConfigArrays : Set(inbound, outbound)
    \/ \E inbound, outbound \in SUBSET Eids : Reset(inbound, outbound)
    \/ \E accounting \in AccountingTypes : SetType(accounting)
    \/ Time
    \/ Remark

Spec == Init /\ [][Next]_vars

-----------------------------------------------------------------------------
TypeOK ==
    /\ LimiterTypeOK
    /\ subject \in Subjects
    /\ mark \in Nat /\ mark <= now
    /\ used \in Nat
    /\ relieved \in Nat

(***************************************************************************)
(* The envelope: in any interval, no more passes a rate limit than its     *)
(* limit, plus what decayed during the interval, plus what the opposite    *)
(* direction gave back.  It holds through every switch between Net and     *)
(* Gross accounting, with other rate limits being set and reset, and       *)
(* whatever was in flight when the interval began.  (A window of 0 lets    *)
(* the limit pass in every transaction.)                                   *)
(***************************************************************************)
Envelope ==
    measured.window > 0 =>
        used <= measured.limit
                  + Decay(measured.limit, now - mark, measured.window)
                  + relieved

(***************************************************************************)
(* The inductive strengthening: an interval in which something was used    *)
(* has been checkpointed since it began, is not over its limit, and has    *)
(* all of what was used either in flight, decayed or relieved.             *)
(***************************************************************************)
Accounted(rl, start, amount, offset) ==
    \/ amount = 0
    \/ /\ start <= rl.lastUpdated
       /\ rl.amountInFlight <= rl.limit
       /\ rl.window > 0 =>
             amount <= rl.amountInFlight
                         + Decay(rl.limit, rl.lastUpdated - start, rl.window)
                         + offset

UsageAccounted == Accounted(measured, mark, used, relieved)

(***************************************************************************)
(* The interface documents limit as "the maximum allowed amount within a   *)
(* given window".  Read literally: with nothing relieved, what is used in  *)
(* an interval shorter than the window is at most the limit.               *)
(***************************************************************************)
LimitIsMaximumPerWindow ==
    relieved = 0 /\ now - mark < measured.window => used <= measured.limit
=============================================================================
