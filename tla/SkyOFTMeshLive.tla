--------------------------- MODULE SkyOFTMeshLive ---------------------------
(***************************************************************************)
(* What eventually happens to a message of the mesh.  A delivery that      *)
(* reverts (the OFT is paused, the inbound rate limit is used up) leaves   *)
(* the verified message at the endpoint, where anybody may execute it      *)
(* again.                                                                  *)
(*                                                                         *)
(* Neither traffic nor time ends here.  A message takes the smallest       *)
(* number that no message in transit has, so that MaxGuid bounds what is   *)
(* in transit at one time and users may go on sending for ever.  A rate    *)
(* limit only looks at the time since its last update and treats all of it *)
(* past the window alike, so that once MaxTime is reached, one more second *)
(* moves the origin of time instead: what was updated at t was updated at  *)
(* t - 1.                                                                  *)
(***************************************************************************)
EXTENDS SkyOFTMesh

\* A time of 0 is a window ago for every limit.
ASSUME HorizonAssumption == \A c \in Chains : InitialConfig[c].window <= MaxTime

InTransit(g) == \E p \in packets : p.guid = g

SendNext(c, d, amount, minAmount, to) ==
    \E number \in 1..MaxGuid :
        /\ ~InTransit(number)
        /\ \A g \in 1..(number - 1) : InTransit(g)
        /\ SendAs(number, c, d, amount, minAmount, to)
        /\ UNCHANGED guid

\* The rate limit in the new time; at a time of 0 nothing of it is left.
Earlier(rl) ==
    LET moved == [rl EXCEPT !.lastUpdated = Monus(@, 1)]
    IN IF moved.lastUpdated > 0 THEN moved
       ELSE [moved EXCEPT !.amountInFlight = CurrentAmountInFlight(moved, now)]

ShiftTime ==
    /\ now = MaxTime
    /\ rateLimits' = [c \in Chains |-> [eid \in Chains |-> [d \in Directions |->
           Earlier(rateLimits[c][eid][d])]]]
    /\ UNCHANGED <<tokenVars, adminVars, channelVars, now, historyVars>>

PassTime == Tick \/ ShiftTime

\* Users, pausers and an owner that ends every pause; nothing is reconfigured.
LiveNext ==
    \/ \E c, d \in Chains, amount \in SendAmounts, minAmount \in MinAmounts,
          to \in SendTo : SendNext(c, d, amount, minAmount, to)
    \/ \E p \in packets : Receive(p)
    \/ \E c \in Chains, account \in Pausers : Pause(c, account)
    \/ \E c \in Chains : Unpause(c)
    \/ PassTime

Execute(g) == \E p \in packets : p.guid = g /\ Receive(p)

(***************************************************************************)
(* Time passes, an owner unpauses in the end, and a message that is        *)
(* executable again and again is executed (executors retry).               *)
(***************************************************************************)
FairSpec ==
    /\ Init /\ [][LiveNext]_vars
    /\ WF_vars(PassTime)
    /\ \A c \in Chains : WF_vars(Unpause(c))
    /\ \A g \in 1..MaxGuid : SF_vars(Execute(g))

-----------------------------------------------------------------------------
\* The amount fits the inbound limit of its destination.
Fits(p) == ToLD(p.dst, p.sd) <= rateLimits[p.dst][p.src]["Inbound"].limit

FittingFrom(src, c, g) ==
    \E p \in packets : p.guid = g /\ p.src = src /\ p.dst = c /\ Fits(p)

\* A message from src to c other than g is executed.
OtherExecuted(src, c, g) ==
    \E p \in packets \ packets' : p.src = src /\ p.dst = c /\ p.guid # g

Leaves(c, eid) == \E p \in packets' \ packets : p.src = c /\ p.dst = eid

(***************************************************************************)
(* No message is stuck behind a pause, behind what the rate limit has let  *)
(* pass, or because of who its recipient is: one whose amount fits the     *)
(* inbound limit of its destination is credited in the end, unless other   *)
(* messages of the same path are credited for ever.  (Then small ones may  *)
(* take the capacity each time before a large one finds enough.)           *)
(***************************************************************************)
FittingMessagesArrive ==
    \A c \in Chains : \A src \in Chains \ {c} : \A g \in 1..MaxGuid :
        \/ []<><<OtherExecuted(src, c, g)>>_vars
        \/ FittingFrom(src, c, g) ~> ~InTransit(g)

(***************************************************************************)
(* What was sent does not stay charged: unless messages leave an OFT for   *)
(* an eid for ever, its outbound limit for the eid is available in full    *)
(* again and again, with the OFT not paused, whatever is still in transit. *)
(***************************************************************************)
CapacityReturns ==
    \A c \in Chains : \A eid \in Chains \ {c} :
        \/ []<><<Leaves(c, eid)>>_vars
        \/ []<>(~paused[c] /\ AvailableCapacity(rateLimits[c][eid]["Outbound"], now)
                                = rateLimits[c][eid]["Outbound"].limit)
=============================================================================
