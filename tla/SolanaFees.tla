----------------------------- MODULE SolanaFees -----------------------------
(***************************************************************************)
(* Amounts and fees of the Solana OFT.  Operators only.  Sources:          *)
(* programs/oft/src/instructions/quote_send.rs, programs/oft/src/state/    *)
(* oft.rs.                                                                 *)
(*                                                                         *)
(* A Token-2022 mint may take a fee of every transfer: a share of it in    *)
(* basis points, rounded up, and at most a maximum.  A mint without the    *)
(* TransferFeeConfig extension is one whose share is 0.                    *)
(***************************************************************************)
EXTENDS Integers

CONSTANTS
    ONE_IN_BASIS_POINTS,    \* MAX_FEE_BASIS_POINTS
    Ld2sdRate               \* OFTStore.ld2sd_rate

ASSUME FeesAssumption ==
    /\ ONE_IN_BASIS_POINTS \in Nat \ {0}
    /\ Ld2sdRate \in Nat \ {0}

TransferFee == [transfer_fee_basis_points : 0..ONE_IN_BASIS_POINTS, maximum_fee : Nat]

Ld2Sd(amount_ld) == amount_ld \div Ld2sdRate
Sd2Ld(amount_sd) == amount_sd * Ld2sdRate
RemoveDust(amount_ld) == amount_ld - (amount_ld % Ld2sdRate)

CeilDiv(numerator, denominator) == (numerator + denominator - 1) \div denominator

Smaller(a, b) == IF a <= b THEN a ELSE b

\* TransferFee::calculate_fee of Token-2022.
TransferFeeOf(fee, amount) ==
    Smaller(CeilDiv(amount * fee.transfer_fee_basis_points, ONE_IN_BASIS_POINTS),
            fee.maximum_fee)

PostFeeAmount(fee, amount) == amount - TransferFeeOf(fee, amount)

\* Mutant: the share is rounded down.
PreFeeAmountFloor(fee, post) ==
    LET share == fee.transfer_fee_basis_points
        raw == (post * ONE_IN_BASIS_POINTS) \div (ONE_IN_BASIS_POINTS - share)
    IN  IF share = ONE_IN_BASIS_POINTS \/ raw - post >= fee.maximum_fee
        THEN post + fee.maximum_fee ELSE raw

\* Mutant: the maximum is looked at for a share of 100% only.
PreFeeAmountUncapped(fee, post) ==
    LET share == fee.transfer_fee_basis_points
    IN  IF share = ONE_IN_BASIS_POINTS /\ post # 0 THEN post + fee.maximum_fee
        ELSE CeilDiv(post * ONE_IN_BASIS_POINTS, ONE_IN_BASIS_POINTS - share)

\* calculate_pre_fee_amount: what to send for an amount to arrive.
PreFeeAmount(fee, post) ==
    LET share == fee.transfer_fee_basis_points
        raw == CeilDiv(post * ONE_IN_BASIS_POINTS, ONE_IN_BASIS_POINTS - share)
    IN  IF share = 0 \/ post = 0 THEN post
        ELSE IF share = ONE_IN_BASIS_POINTS \/ raw - post >= fee.maximum_fee
        THEN post + fee.maximum_fee
        ELSE raw

\* calculate_fee: the fee of the OFT itself.
CalculateFee(amount, bps) == (amount * bps) \div ONE_IN_BASIS_POINTS

(***************************************************************************)
(* compute_fee_and_adjust_amount of an Adapter, whose tokens are           *)
(* transferred, and of a Native OFT, whose tokens are burned.              *)
(***************************************************************************)
AdjustAdapter(fee, bps, amount) ==
    LET net == RemoveDust(PostFeeAmount(fee, amount))
        oftFee == RemoveDust(CalculateFee(net, bps))
    IN  [sent |-> PreFeeAmount(fee, net), received |-> net - oftFee, fee |-> oftFee]

AdjustNative(bps, amount) ==
    LET net == RemoveDust(amount)
        oftFee == RemoveDust(CalculateFee(net, bps))
    IN  [sent |-> net, received |-> net - oftFee, fee |-> oftFee]
=============================================================================
