------------------------- MODULE MCSolanaPeerLimits -------------------------
(***************************************************************************)
(* TLC instance: complete and partial parameters, removal, and a rate that *)
(* leaves u64 within two seconds.                                          *)
(***************************************************************************)
EXTENDS SolanaPeerLimits

Params(capacity, rate, type) ==
    [capacity |-> capacity, refill_per_second |-> rate, rate_limiter_type |-> type]

MCLimitChoices ==
    {NONE, Params(5, 1, "Net"), Params(7, 4, "Gross"), Params(3, NONE, NONE),
     Params(NONE, 2, NONE), Params(NONE, NONE, "Net")}
=============================================================================
