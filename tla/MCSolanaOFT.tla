---------------------------- MODULE MCSolanaOFT ----------------------------
(***************************************************************************)
(* TLC instance of the Solana OFT, as an Adapter and as a Native.          *)
(***************************************************************************)
EXTENDS SolanaOFT

\* A quarter of a transfer but at most 2; in other epochs all but at most 1.
MCTransferFees ==
    {[transfer_fee_basis_points |-> 1, maximum_fee |-> 2],
     [transfer_fee_basis_points |-> 4, maximum_fee |-> 1]}

Bucket(capacity, rate, type) ==
    [capacity |-> capacity, available_capacity |-> capacity, refill_per_second |-> rate,
     last_refill_time |-> 0, rate_limiter_type |-> type]

MCTightLimiter == Bucket(6, 1, "Net")

\* Turned off, or made large and Gross.
MCLimitChoices ==
    {NONE,
     [capacity |-> 9, refill_per_second |-> NONE, rate_limiter_type |-> "Gross"]}
=============================================================================
