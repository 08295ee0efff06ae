---------------------- MODULE MCSkyRateLimiterEnvelope ----------------------
(***************************************************************************)
(* TLC instances of the rate limiter with its history variables.           *)
(***************************************************************************)
EXTENDS SkyRateLimiterEnvelope

\* limit < window (the decay of one second rounds to 0); limit > window, where
\* the decay of two seconds leaves the word; and the first lower than what may
\* be in flight under the second.  The entry that was never set has window 0.
MCConfigs == {[limit |-> 2, window |-> 3], [limit |-> 5, window |-> 3]}
=============================================================================
