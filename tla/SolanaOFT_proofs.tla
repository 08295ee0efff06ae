-------------------------- MODULE SolanaOFT_proofs --------------------------
(***************************************************************************)
(* Facts about the fees of the Solana OFT, for every amount, share,        *)
(* maximum and conversion rate; then: its escrow holds what is locked and  *)
(* the fees, and no instruction underflows, for every transfer fee, fee,   *)
(* limit and amount.                                                       *)
(***************************************************************************)
EXTENDS SolanaOFT, Operators_proofs

-----------------------------------------------------------------------------
\* Arithmetic.

\* A remainder is what the whole divisors leave.
LEMMA ModFacts ==
    ASSUME NEW n \in Nat, NEW w \in Nat \ {0}
    PROVE  n % w = n - w * (n \div w)
  BY Z3

\* A common positive factor can be cancelled from an inequality.
LEMMA Cancel ==
    ASSUME NEW a \in Int, NEW c \in Int, NEW w \in Nat \ {0}, w * a < w * c
    PROVE  a < c
<1>1. SUFFICES ASSUME a >= c PROVE FALSE
  OBVIOUS
<1> DEFINE k == a - c
<1>2. k \in Nat /\ a = c + k
  BY <1>1
<1>3. w * (c + k) = w * c + w * k
  BY <1>2
<1>4. w * k \in Nat
  <2>1. \A i, j \in Nat : i * j \in Nat
    OBVIOUS
  <2> QED
    BY <1>2, <2>1
<1>5. w * c \in Int /\ w * a = w * c + w * k
  BY <1>2, <1>3
<1> QED
  BY <1>4, <1>5

\* Products of natural numbers are natural numbers and grow with each factor.
LEMMA ProductFacts ==
    ASSUME NEW a \in Nat, NEW b \in Nat, NEW c \in Nat, b <= c
    PROVE  a * b \in Nat /\ a * c \in Nat /\ a * b <= a * c
<1> DEFINE k == c - b
<1>1. k \in Nat /\ c = b + k
  OBVIOUS
<1>2. a * (b + k) = a * b + a * k
  BY <1>1
<1>3. \A i, j \in Nat : i * j \in Nat
  OBVIOUS
<1>4. a * b \in Nat /\ a * k \in Nat
  BY <1>1, <1>3
<1> HIDE DEF k
<1> QED
  BY <1>1, <1>2, <1>4

\* A division rounded up.
LEMMA CeilDivFacts ==
    ASSUME NEW n \in Nat, NEW d \in Nat \ {0}
    PROVE  /\ CeilDiv(n, d) \in Nat
           /\ n <= d * CeilDiv(n, d)
           /\ d * CeilDiv(n, d) < n + d
<1>1. n + d - 1 \in Nat
  OBVIOUS
<1> DEFINE q == (n + d - 1) \div d
<1>2. q \in Nat /\ d * q <= n + d - 1 /\ n + d - 1 < d * q + d
  BY <1>1, DivFacts
<1> HIDE DEF q
<1>3. d * q \in Nat
  BY <1>2, ProductFacts
<1> QED
  BY <1>2, <1>3 DEF CeilDiv, q

-----------------------------------------------------------------------------
\* The transfer fee of the mint.

\* A transfer fee takes no more than the amount.
LEMMA TransferFeeFacts ==
    ASSUME NEW fee \in TransferFee, NEW amount \in Nat
    PROVE  /\ TransferFeeOf(fee, amount) \in 0..amount
           /\ TransferFeeOf(fee, amount) <= fee.maximum_fee
           /\ PostFeeAmount(fee, amount) \in 0..amount
<1> DEFINE o == ONE_IN_BASIS_POINTS
           share == fee.transfer_fee_basis_points
           k == CeilDiv(amount * share, o)
<1>1. o \in Nat \ {0} /\ share \in Nat /\ share <= o /\ fee.maximum_fee \in Nat
  BY FeesAssumption DEF TransferFee
<1>2. amount * share \in Nat /\ amount * o \in Nat /\ amount * share <= amount * o
  BY <1>1, ProductFacts
<1>3. k \in Nat /\ o * k < amount * share + o
  BY <1>1, <1>2, CeilDivFacts
<1>4. o * (amount + 1) = amount * o + o
  BY <1>1
<1> HIDE DEF k, o
<1>5. o * k < o * (amount + 1)
  <2>1. o * k \in Nat
    BY <1>1, <1>3, ProductFacts
  <2> QED
    BY <1>1, <1>2, <1>3, <1>4, <2>1
<1>6. k < amount + 1
  BY <1>1, <1>3, <1>5, Cancel
<1>7. TransferFeeOf(fee, amount) = Smaller(k, fee.maximum_fee)
  BY DEF TransferFeeOf, k, o
<1> QED
  BY <1>1, <1>3, <1>6, <1>7 DEF Smaller, PostFeeAmount

\* A mint whose share is 0 takes nothing.
LEMMA NoShareNoFee ==
    ASSUME NEW fee \in TransferFee, NEW amount \in Nat,
           fee.transfer_fee_basis_points = 0 \/ amount = 0
    PROVE  PostFeeAmount(fee, amount) = amount
<1> DEFINE o == ONE_IN_BASIS_POINTS
           k == CeilDiv(amount * fee.transfer_fee_basis_points, o)
<1>1. /\ o \in Nat \ {0} /\ fee.maximum_fee \in Nat
      /\ fee.transfer_fee_basis_points \in Nat
  BY FeesAssumption DEF TransferFee
<1>2. amount * fee.transfer_fee_basis_points = 0
  BY <1>1
<1>3. k \in Nat /\ o * k < 0 + o
  BY <1>1, <1>2, CeilDivFacts
<1> HIDE DEF o, k
<1>4. o * k < o * 1
  BY <1>1, <1>3
<1>5. k < 1
  BY <1>1, <1>3, <1>4, Cancel
<1>6. k = 0
  BY <1>3, <1>5
<1> QED
  BY <1>1, <1>6 DEF PostFeeAmount, TransferFeeOf, Smaller, k, o

\* The share of an amount, rounded up.
Share(fee, amount) ==
    CeilDiv(amount * fee.transfer_fee_basis_points, ONE_IN_BASIS_POINTS)

\* What to send for an amount to arrive if there were no maximum.
Raw(fee, post) ==
    CeilDiv(post * ONE_IN_BASIS_POINTS, ONE_IN_BASIS_POINTS - fee.transfer_fee_basis_points)

\* Bounds of the share.
LEMMA ShareFacts ==
    ASSUME NEW fee \in TransferFee, NEW amount \in Nat
    PROVE  LET o == ONE_IN_BASIS_POINTS
               share == fee.transfer_fee_basis_points
           IN  /\ Share(fee, amount) \in Nat
               /\ amount * share \in Nat /\ o * Share(fee, amount) \in Nat
               /\ amount * share <= o * Share(fee, amount)
               /\ o * Share(fee, amount) < amount * share + o
               /\ TransferFeeOf(fee, amount) = Smaller(Share(fee, amount), fee.maximum_fee)
<1> DEFINE o == ONE_IN_BASIS_POINTS
           share == fee.transfer_fee_basis_points
<1>1. o \in Nat \ {0} /\ share \in Nat
  BY FeesAssumption DEF TransferFee
<1>2. amount * share \in Nat
  BY <1>1, ProductFacts
<1>3. /\ Share(fee, amount) \in Nat
      /\ amount * share <= o * Share(fee, amount)
      /\ o * Share(fee, amount) < amount * share + o
  BY <1>1, <1>2, CeilDivFacts DEF Share
<1>4. o * Share(fee, amount) \in Nat
  BY <1>1, <1>3, ProductFacts
<1> QED
  BY <1>2, <1>3, <1>4 DEF Share, TransferFeeOf

\* Raw(x) is the least amount of which x is left after the share.
LEMMA RawFacts ==
    ASSUME NEW fee \in TransferFee, NEW x \in Nat,
           fee.transfer_fee_basis_points # 0,
           fee.transfer_fee_basis_points # ONE_IN_BASIS_POINTS
    PROVE  LET o == ONE_IN_BASIS_POINTS
               share == fee.transfer_fee_basis_points
               raw == Raw(fee, x)
           IN  /\ raw \in Nat
               /\ o * x \in Nat /\ o * raw \in Nat /\ raw * share \in Nat
               /\ o * x <= o * raw - raw * share
               /\ o * raw - raw * share < o * x + (o - share)
               /\ \A a \in Nat : a < raw => o * a - a * share < o * x
<1> DEFINE o == ONE_IN_BASIS_POINTS
           share == fee.transfer_fee_basis_points
           d == o - share
           raw == Raw(fee, x)
<1>1. o \in Nat \ {0} /\ share \in Nat /\ share <= o /\ share # 0 /\ share # o
  BY FeesAssumption DEF TransferFee
<1>2. d \in Nat \ {0}
  BY <1>1
<1>3. x * o \in Nat
  BY <1>1, ProductFacts
<1>4. raw \in Nat /\ x * o <= d * raw /\ d * raw < x * o + d
  BY <1>2, <1>3, CeilDivFacts DEF Raw
<1>5. o * x \in Nat /\ o * raw \in Nat /\ raw * share \in Nat
  BY <1>1, <1>4, ProductFacts
<1> HIDE DEF raw, o, share
<1>6. \A a \in Nat : d * a = o * a - a * share
  BY <1>1
<1>7. x * o = o * x
  BY <1>1
<1>8. ASSUME NEW a \in Nat, a < raw PROVE o * a - a * share < o * x
  <2>1. a <= raw - 1 /\ raw - 1 \in Nat
    BY <1>4, <1>8
  <2>2. d * a <= d * (raw - 1) /\ d * a \in Nat
    BY <1>2, <2>1, ProductFacts
  <2>3. d * (raw - 1) = d * raw - d
    BY <1>2, <1>4
  <2>4. d * raw \in Nat
    BY <1>2, <1>4, ProductFacts
  <2>5. d * a < o * x
    BY <1>2, <1>4, <1>5, <1>7, <2>2, <2>3, <2>4
  <2> QED
    BY <1>6, <2>5
<1>9. o * x <= d * raw /\ d * raw < o * x + d /\ d * raw = o * raw - raw * share
  BY <1>4, <1>6, <1>7
<1> HIDE DEF d
<1>10. /\ o * x <= o * raw - raw * share
       /\ o * raw - raw * share < o * x + (o - share)
  BY <1>9 DEF d
<1> QED
  BY <1>4, <1>5, <1>8, <1>10 DEF raw, o, share

\* The inverse below the maximum: the share of Raw(x) is what exceeds x.
LEMMA RawShare ==
    ASSUME NEW fee \in TransferFee, NEW x \in Nat,
           fee.transfer_fee_basis_points # 0,
           fee.transfer_fee_basis_points # ONE_IN_BASIS_POINTS
    PROVE  Share(fee, Raw(fee, x)) = Raw(fee, x) - x
<1> DEFINE o == ONE_IN_BASIS_POINTS
           share == fee.transfer_fee_basis_points
           raw == Raw(fee, x)
           k == Share(fee, raw)
<1>1. o \in Nat \ {0} /\ share \in Nat /\ share <= o /\ share # 0
  BY FeesAssumption DEF TransferFee
<1>2. /\ raw \in Nat
      /\ o * x \in Nat /\ o * raw \in Nat /\ raw * share \in Nat
      /\ o * x <= o * raw - raw * share
      /\ o * raw - raw * share < o * x + (o - share)
  BY RawFacts
<1>3. /\ k \in Nat /\ o * k \in Nat
      /\ raw * share <= o * k
      /\ o * k < raw * share + o
  BY <1>2, ShareFacts
<1> HIDE DEF o, share, raw, k
<1>4. o * (raw - x) = o * raw - o * x /\ raw - x \in Int
  BY <1>1, <1>2
<1>5. o * (k + 1) = o * k + o
  BY <1>1, <1>3
<1>6. o * (raw - x + 1) = o * (raw - x) + o
  BY <1>1, <1>2
<1>7. o * k < o * (raw - x + 1)
  BY <1>1, <1>2, <1>3, <1>4, <1>6
<1>8. o * (raw - x) < o * (k + 1)
  BY <1>1, <1>2, <1>3, <1>4, <1>5
<1>9. k < raw - x + 1
  BY <1>1, <1>3, <1>4, <1>7, Cancel
<1>10. raw - x < k + 1
  BY <1>1, <1>3, <1>4, <1>8, Cancel
<1> QED
  BY <1>3, <1>4, <1>9, <1>10 DEF raw, k

\* If x + maximum_fee is not more than Raw(x), its share reaches the maximum.
LEMMA CappedShare ==
    ASSUME NEW fee \in TransferFee, NEW x \in Nat,
           fee.transfer_fee_basis_points # 0,
           \/ fee.transfer_fee_basis_points = ONE_IN_BASIS_POINTS
           \/ Raw(fee, x) - x >= fee.maximum_fee
    PROVE  Share(fee, x + fee.maximum_fee) >= fee.maximum_fee
<1> DEFINE o == ONE_IN_BASIS_POINTS
           share == fee.transfer_fee_basis_points
           m == fee.maximum_fee
           a == x + m
           k == Share(fee, a)
<1>1. o \in Nat \ {0} /\ share \in Nat /\ share <= o /\ share # 0 /\ m \in Nat /\ a \in Nat
  BY FeesAssumption DEF TransferFee
<1>2. k \in Nat /\ o * k \in Nat /\ a * share \in Nat /\ a * share <= o * k
  BY <1>1, ShareFacts
<1>3. o * a \in Nat /\ o * x \in Nat /\ o * m \in Nat
  BY <1>1, ProductFacts
<1>4. o * a - a * share < o * x + o
  <2>1. CASE share = o
    BY <1>1, <1>3, <2>1
  <2>2. CASE share # o
    <3> DEFINE raw == Raw(fee, x)
    <3>1. /\ raw \in Nat /\ o * raw \in Nat /\ raw * share \in Nat
          /\ o * raw - raw * share < o * x + (o - share)
          /\ \A b \in Nat : b < raw => o * b - b * share < o * x
      BY <2>2, RawFacts
    <3>2. a <= raw
      BY <1>1, <2>2, <3>1
    <3> HIDE DEF raw, a, o, share
    <3>3. CASE a = raw
      BY <1>1, <1>3, <3>1, <3>3
    <3>4. CASE a < raw
      BY <1>1, <1>2, <1>3, <3>1, <3>4
    <3> QED
      BY <1>1, <3>1, <3>2, <3>3, <3>4
  <2> QED
    BY <2>1, <2>2
<1>5. o * a = o * x + o * m
  BY <1>1
<1> HIDE DEF o, share, m, a, k
<1>6. o * (k + 1) = o * k + o
  BY <1>1, <1>2
<1>7. o * m < o * (k + 1)
  BY <1>1, <1>2, <1>3, <1>4, <1>5, <1>6
<1>8. m < k + 1
  BY <1>1, <1>2, <1>7, Cancel
<1> QED
  BY <1>1, <1>2, <1>8 DEF m, a, k

(***************************************************************************)
(* calculate_pre_fee_amount (quote_send.rs:180) inverts the transfer fee   *)
(* exactly: of the amount it returns, the wanted amount arrives.           *)
(***************************************************************************)
THEOREM PreFeeIsInverse ==
    ASSUME NEW fee \in TransferFee, NEW x \in Nat
    PROVE  /\ PreFeeAmount(fee, x) \in Nat
           /\ PostFeeAmount(fee, PreFeeAmount(fee, x)) = x
<1> DEFINE o == ONE_IN_BASIS_POINTS
           share == fee.transfer_fee_basis_points
           m == fee.maximum_fee
           raw == Raw(fee, x)
<1>1. m \in Nat
  BY DEF TransferFee
<1>2. CASE share = 0 \/ x = 0
  BY <1>2, NoShareNoFee DEF PreFeeAmount
<1>3. CASE share # 0 /\ x # 0 /\ (share = o \/ raw - x >= m)
  <2>1. PreFeeAmount(fee, x) = x + m /\ x + m \in Nat
    BY <1>1, <1>3 DEF PreFeeAmount, Raw
  <2>2. Share(fee, x + m) >= m
    BY <1>3, CappedShare
  <2>3. TransferFeeOf(fee, x + m) = Smaller(Share(fee, x + m), m) /\ Share(fee, x + m) \in Nat
    BY <2>1, ShareFacts
  <2>4. TransferFeeOf(fee, x + m) = m
    BY <1>1, <2>2, <2>3 DEF Smaller
  <2> QED
    BY <1>1, <2>1, <2>4 DEF PostFeeAmount
<1>4. CASE share # 0 /\ x # 0 /\ share # o /\ ~ (raw - x >= m)
  <2>1. PreFeeAmount(fee, x) = raw
    BY <1>4 DEF PreFeeAmount, Raw
  <2>2. raw \in Nat
    BY <1>4, RawFacts
  <2>3. Share(fee, raw) = raw - x
    BY <1>4, RawShare
  <2>4. TransferFeeOf(fee, raw) = Smaller(Share(fee, raw), m)
    BY <2>2, ShareFacts
  <2> HIDE DEF raw
  <2>5. TransferFeeOf(fee, raw) = raw - x
    BY <1>1, <1>4, <2>2, <2>3, <2>4 DEF Smaller
  <2> QED
    BY <2>1, <2>2, <2>5 DEF PostFeeAmount
<1> QED
  BY <1>2, <1>3, <1>4

(***************************************************************************)
(* And it asks for no more than needed: of any smaller amount, less than   *)
(* the wanted amount arrives.                                              *)
(***************************************************************************)
THEOREM PreFeeIsLeast ==
    ASSUME NEW fee \in TransferFee, NEW x \in Nat, NEW a \in Nat, a < PreFeeAmount(fee, x)
    PROVE  PostFeeAmount(fee, a) < x
<1> DEFINE o == ONE_IN_BASIS_POINTS
           share == fee.transfer_fee_basis_points
           m == fee.maximum_fee
           raw == Raw(fee, x)
           k == Share(fee, a)
<1>1. o \in Nat \ {0} /\ share \in Nat /\ share <= o /\ m \in Nat
  BY FeesAssumption DEF TransferFee
<1>2. PostFeeAmount(fee, a) \in 0..a
  BY TransferFeeFacts
<1>3. CASE share = 0 \/ x = 0
  <2>1. PreFeeAmount(fee, x) = x
    BY <1>3 DEF PreFeeAmount
  <2> QED
    BY <1>2, <2>1
<1>4. CASE share # 0 /\ x # 0
  <2>1. /\ k \in Nat /\ o * k \in Nat /\ a * share \in Nat /\ a * share <= o * k
        /\ TransferFeeOf(fee, a) = Smaller(k, m)
    BY ShareFacts
  <2>2. /\ a < x + m
        /\ o * a - a * share < o * x
    <3>1. CASE share = o
      <4>1. PreFeeAmount(fee, x) = x + m
        BY <1>4, <3>1 DEF PreFeeAmount
      <4>2. o * a - a * share = 0
        BY <1>1, <3>1
      <4>3. o * x > 0
        <5>1. o * 1 <= o * x /\ o * x \in Nat
          BY <1>1, <1>4, ProductFacts
        <5> QED
          BY <1>1, <5>1
      <4> QED
        BY <4>1, <4>2, <4>3
    <3>2. CASE share # o
      <4>1. raw \in Nat /\ \A b \in Nat : b < raw => o * b - b * share < o * x
        BY <1>4, <3>2, RawFacts
      <4>2. PreFeeAmount(fee, x) = IF raw - x >= m THEN x + m ELSE raw
        BY <1>4, <3>2 DEF PreFeeAmount, Raw
      <4> HIDE DEF raw
      <4>3. a < raw /\ a < x + m
        BY <1>1, <4>1, <4>2
      <4> QED
        BY <4>1, <4>3
    <3> QED
      BY <3>1, <3>2
  <2>3. o * (a - x) = o * a - o * x /\ a - x \in Int
    BY <1>1
  <2>4. o * a \in Nat /\ o * x \in Nat
    BY <1>1, ProductFacts
  <2> HIDE DEF o, share, m, k
  <2>5. o * (a - x) < o * k
    BY <2>1, <2>2, <2>3, <2>4
  <2>6. a - x < k
    BY <1>1, <2>1, <2>3, <2>5, Cancel
  <2>7. a - x < Smaller(k, m)
    BY <1>1, <2>1, <2>2, <2>6 DEF Smaller
  <2>8. Smaller(k, m) \in Nat
    BY <1>1, <2>1 DEF Smaller
  <2> QED
    BY <2>1, <2>7, <2>8 DEF PostFeeAmount
<1> QED
  BY <1>3, <1>4

-----------------------------------------------------------------------------
\* Dust, the fee of the OFT, and the views.

\* A multiple leaves no remainder.
LEMMA MultipleMod ==
    ASSUME NEW w \in Nat \ {0}, NEW q \in Nat
    PROVE  w * q \in Nat /\ (w * q) % w = 0 /\ (w * q) \div w = q
<1> DEFINE n == w * q
           p == n \div w
<1>1. n \in Nat
  BY ProductFacts
<1>2. p \in Nat /\ w * p <= n /\ n < w * p + w /\ n % w = n - w * p
  <2>1. w \in Nat /\ w > 0
    OBVIOUS
  <2> QED
    BY <1>1, <2>1, DivFacts, ModFacts
<1>3. w * (p + 1) = w * p + w /\ w * p \in Nat /\ w * (q + 1) = w * q + w
  BY <1>2, ProductFacts
<1> HIDE DEF p
<1>4. w * p < w * (q + 1) /\ w * q < w * (p + 1)
  BY <1>1, <1>2, <1>3
<1>5. p < q + 1 /\ q < p + 1
  BY <1>2, <1>4, Cancel
<1>6. p = q
  BY <1>2, <1>5
<1> QED
  BY <1>1, <1>2, <1>6 DEF p

\* Without dust an amount is the multiple of the rate below it.
LEMMA DustFacts ==
    ASSUME NEW a \in Nat
    PROVE  /\ RemoveDust(a) \in 0..a
           /\ RemoveDust(a) = Ld2sdRate * (a \div Ld2sdRate) /\ a \div Ld2sdRate \in Nat
           /\ a < RemoveDust(a) + Ld2sdRate
<1> DEFINE w == Ld2sdRate
<1>1. w \in Nat \ {0} /\ w > 0
  BY FeesAssumption
<1>2. /\ a \div w \in Nat /\ w * (a \div w) <= a /\ a < w * (a \div w) + w
      /\ a % w = a - w * (a \div w)
  BY <1>1, DivFacts, ModFacts
<1>3. w * (a \div w) \in Nat
  BY <1>1, <1>2, ProductFacts
<1> DEFINE q == a \div w
<1>4. RemoveDust(a) = a - (a % w)
  BY DEF RemoveDust
<1> HIDE DEF w
<1>5. RemoveDust(a) = w * (a \div w)
  BY <1>2, <1>3, <1>4
<1> QED
  BY <1>2, <1>3, <1>5 DEF w

\* The OFT's fee is at most the amount.
LEMMA OftFeeFacts ==
    ASSUME NEW net \in Nat, NEW bps \in 0..ONE_IN_BASIS_POINTS
    PROVE  CalculateFee(net, bps) \in 0..net
<1> DEFINE o == ONE_IN_BASIS_POINTS
           q == (net * bps) \div o
<1>1. o \in Nat \ {0} /\ bps \in Nat /\ bps <= o
  BY FeesAssumption
<1>2. net * bps \in Nat /\ net * o \in Nat /\ net * bps <= net * o
  BY <1>1, ProductFacts
<1>3. q \in Nat /\ o * q <= net * bps
  BY <1>1, <1>2, DivFacts
<1>4. o * (net + 1) = net * o + o
  BY <1>1
<1>5. o * q \in Nat
  BY <1>1, <1>3, ProductFacts
<1> HIDE DEF q, o
<1>6. o * q < o * (net + 1)
  BY <1>1, <1>2, <1>3, <1>4, <1>5
<1>7. q < net + 1
  BY <1>1, <1>3, <1>6, Cancel
<1> QED
  BY <1>3, <1>7 DEF CalculateFee, q, o

\* Whole units are split between recipient and fee.
LEMMA SplitFacts ==
    ASSUME NEW a \in Nat, NEW bps \in 0..ONE_IN_BASIS_POINTS
    PROVE  LET net == RemoveDust(a)
               fee == RemoveDust(CalculateFee(net, bps))
           IN  /\ net \in 0..a /\ a < net + Ld2sdRate
               /\ fee \in 0..net /\ net - fee \in Nat
               /\ fee % Ld2sdRate = 0 /\ (net - fee) % Ld2sdRate = 0
               /\ Ld2sdRate * Ld2Sd(net - fee) = net - fee
<1> DEFINE w == Ld2sdRate
           net == RemoveDust(a)
           gross == CalculateFee(net, bps)
           fee == RemoveDust(gross)
           p == a \div w
           q == gross \div w
<1>1. w \in Nat \ {0}
  BY FeesAssumption
<1>2. net \in 0..a /\ net = w * p /\ p \in Nat /\ a < net + w
  BY DustFacts
<1>3. gross \in 0..net
  BY <1>2, OftFeeFacts
<1>4. fee \in 0..gross /\ fee = w * q /\ q \in Nat
  BY <1>3, DustFacts
<1> HIDE DEF w, net, gross, fee, p, q
<1>5. fee \in 0..net /\ net - fee \in Nat
  BY <1>2, <1>3, <1>4
<1>6. w * (p - q) = w * p - w * q
  BY <1>1, <1>2, <1>4
<1>7. p - q \in Nat
  <2>1. SUFFICES ASSUME p < q PROVE FALSE
    BY <1>2, <1>4
  <2>2. w * (p + 1) <= w * q /\ w * (p + 1) = w * p + w
    BY <1>1, <1>2, <1>4, <2>1, ProductFacts
  <2> QED
    BY <1>1, <1>2, <1>4, <1>5, <2>2
<1>8. net - fee = w * (p - q)
  BY <1>2, <1>4, <1>6
<1>9. /\ (w * (p - q)) % w = 0 /\ (w * (p - q)) \div w = p - q
      /\ (w * q) % w = 0
  BY <1>1, <1>4, <1>7, MultipleMod
<1>10. Ld2Sd(net - fee) = p - q
  BY <1>8, <1>9 DEF Ld2Sd, w
<1> QED
  BY <1>2, <1>4, <1>5, <1>8, <1>9, <1>10 DEF net, gross, fee, w

(***************************************************************************)
(* The view of an Adapter (quote_send.rs:106): the sender pays at most     *)
(* what was asked, exactly the received amount and the fee reach the       *)
(* escrow, in whole shared units.                                          *)
(***************************************************************************)
THEOREM AdapterViewIsSound ==
    ASSUME NEW fee \in TransferFee, NEW bps \in 0..ONE_IN_BASIS_POINTS, NEW amount \in Nat
    PROVE  LET view == AdjustAdapter(fee, bps, amount)
               net == view.received + view.fee
           IN  /\ view.sent \in 0..amount
               /\ view.received \in Nat /\ view.received % Ld2sdRate = 0
               /\ view.fee \in Nat /\ view.fee % Ld2sdRate = 0
               /\ Ld2sdRate * Ld2Sd(view.received) = view.received
               /\ PostFeeAmount(fee, view.sent) = net
               /\ PostFeeAmount(fee, amount) < net + Ld2sdRate
               /\ \A less \in 0..(view.sent - 1) : PostFeeAmount(fee, less) < net
<1> DEFINE post == PostFeeAmount(fee, amount)
           net == RemoveDust(post)
           oftFee == RemoveDust(CalculateFee(net, bps))
           sent == PreFeeAmount(fee, net)
           view == AdjustAdapter(fee, bps, amount)
<1>1. post \in 0..amount
  BY TransferFeeFacts
<1> HIDE DEF post
<1>2. /\ net \in 0..post /\ post < net + Ld2sdRate
      /\ oftFee \in 0..net /\ net - oftFee \in Nat
      /\ oftFee % Ld2sdRate = 0 /\ (net - oftFee) % Ld2sdRate = 0
      /\ Ld2sdRate * Ld2Sd(net - oftFee) = net - oftFee
  BY <1>1, SplitFacts
<1>3. /\ view.sent = sent /\ view.received = net - oftFee /\ view.fee = oftFee
      /\ view.received + view.fee = net
  BY <1>2 DEF AdjustAdapter, post
<1>4. sent \in Nat /\ PostFeeAmount(fee, sent) = net
  BY <1>2, PreFeeIsInverse
<1>5. sent <= amount
  <2>1. SUFFICES ASSUME amount < sent PROVE FALSE
    BY <1>4
  <2>2. PostFeeAmount(fee, amount) < net
    BY <1>2, <2>1, PreFeeIsLeast
  <2> QED
    BY <1>1, <1>2, <2>2 DEF post
<1>6. \A less \in 0..(sent - 1) : PostFeeAmount(fee, less) < net
  BY <1>2, <1>4, PreFeeIsLeast
<1> HIDE DEF net, oftFee, sent, view
<1> QED
  BY <1>2, <1>3, <1>4, <1>5, <1>6 DEF view, post

\* The view of a Native OFT: no transfer fee, whole shared units.
LEMMA NativeViewFacts ==
    ASSUME NEW bps \in 0..ONE_IN_BASIS_POINTS, NEW amount \in Nat
    PROVE  LET view == AdjustNative(bps, amount)
           IN  /\ view.sent \in 0..amount
               /\ view.received \in Nat /\ view.received % Ld2sdRate = 0
               /\ view.fee \in Nat /\ view.fee % Ld2sdRate = 0
               /\ Ld2sdRate * Ld2Sd(view.received) = view.received
               /\ view.sent = view.received + view.fee
<1> DEFINE net == RemoveDust(amount)
           oftFee == RemoveDust(CalculateFee(net, bps))
           view == AdjustNative(bps, amount)
<1>1. /\ net \in 0..amount
      /\ oftFee \in 0..net /\ net - oftFee \in Nat
      /\ oftFee % Ld2sdRate = 0 /\ (net - oftFee) % Ld2sdRate = 0
      /\ Ld2sdRate * Ld2Sd(net - oftFee) = net - oftFee
  BY SplitFacts
<1>2. view.sent = net /\ view.received = net - oftFee /\ view.fee = oftFee
  BY DEF AdjustNative
<1> HIDE DEF net, oftFee, view
<1> QED
  BY <1>1, <1>2 DEF view

-----------------------------------------------------------------------------
(***************************************************************************)
(* The inductive invariant.  A send is bounded by the tokens of its sender *)
(* only because all tokens together are within the supply, and the fee and *)
(* lock books rest on the exact inverse of the transfer fee.               *)
(***************************************************************************)
TokensCovered == held + escrow <= supply

LimitersSound ==
    \A e \in Eids, d \in Flows :
        peers[e].limiters[d] # NONE => Sound(peers[e].limiters[d], now)

Inv == TypeOK /\ TokensCovered /\ LimitersSound /\ FeesAreHeld

PeerConfigs == [fee_bps : Option(0..(ONE_IN_BASIS_POINTS - 1)),
                limiters : [Flows -> Option(RateLimiter)]]

\* TypeOK without what concerns peers and messages, to be shown for most steps.
TokenTypes ==
    /\ tvl_ld \in U64 /\ escrow \in U64 /\ held \in U64 /\ supply \in U64
    /\ feesDue \in Nat

StoreTypes ==
    /\ oft_type \in OFTTypes
    /\ default_fee_bps \in 0..(ONE_IN_BASIS_POINTS - 1)
    /\ paused \in BOOLEAN
    /\ transferFee \in TransferFees
    /\ now \in 0..MaxTime

ChannelTypes ==
    /\ remote \in Nat
    /\ packets \subseteq Packet
    /\ \A p, q \in packets : p.nonce = q.nonce => p = q
    /\ \A p \in packets : p.nonce \in 1..nonce
    /\ nonce \in 0..MaxPackets
    /\ composed \subseteq [nonce : 1..nonce, amount_ld : U64]

PeerTypes == peers \in [Eids -> PeerConfigs] /\ LimitersSound

Books == TokenTypes /\ TokensCovered /\ FeesAreHeld

\* The parts of the invariant.
LEMMA InvParts == Inv <=> StoreTypes /\ ChannelTypes /\ PeerTypes /\ Books
  BY DEF Inv, TypeOK, StoreTypes, ChannelTypes, PeerTypes, Books, TokenTypes, PeerConfigs

\* The parts after a step.
LEMMA InvPartsNext == Inv' <=> StoreTypes' /\ ChannelTypes' /\ PeerTypes' /\ Books'
  BY DEF Inv, TypeOK, StoreTypes, ChannelTypes, PeerTypes, Books, TokenTypes, PeerConfigs

\* Plain facts of every state that satisfies the invariant.
LEMMA StateFacts ==
    ASSUME Inv
    PROVE  /\ transferFee \in TransferFee
           /\ oft_type \in {"Adapter", "Native"}
           /\ tvl_ld \in Nat /\ escrow \in Nat /\ held \in Nat /\ supply \in Nat
           /\ supply <= MaxU64 /\ MaxU64 \in Nat
           /\ held + escrow <= supply
           /\ feesDue \in Nat
           /\ now \in U64
           /\ peers \in [Eids -> PeerConfigs]
<1>1. now \in 0..MaxTime /\ MaxTime \in U64
  BY InvParts, OFTAssumption DEF StoreTypes
<1>2. now \in U64
  BY <1>1, U64Assumption DEF U64
<1>3. transferFee \in TransferFee /\ oft_type \in {"Adapter", "Native"}
  BY InvParts, OFTAssumption DEF StoreTypes
<1>4. TokenTypes /\ TokensCovered /\ peers \in [Eids -> PeerConfigs]
  BY InvParts DEF Books, PeerTypes
<1>5. /\ tvl_ld \in 0..MaxU64 /\ escrow \in 0..MaxU64
      /\ held \in 0..MaxU64 /\ supply \in 0..MaxU64
      /\ feesDue \in Nat /\ MaxU64 \in Nat
  BY <1>4, U64Assumption DEF TokenTypes, U64
<1> QED
  BY <1>2, <1>3, <1>4, <1>5 DEF TokensCovered

\* What a quote promises, in every such state.
LEMMA ViewFacts ==
    ASSUME Inv, NEW e \in Eids, NEW amount \in Nat
    PROVE  LET view == ComputeFeeAndAdjustAmount(e, amount)
               net == view.received + view.fee
           IN  /\ view.sent \in 0..amount
               /\ view.received \in Nat /\ view.received % Ld2sdRate = 0
               /\ view.fee \in Nat /\ view.fee % Ld2sdRate = 0
               /\ Ld2sdRate * Ld2Sd(view.received) = view.received
               /\ oft_type = "Adapter" =>
                    /\ PostFeeAmount(transferFee, view.sent) = net
                    /\ PostFeeAmount(transferFee, amount) < net + Ld2sdRate
                    /\ \A less \in 0..(view.sent - 1) :
                         PostFeeAmount(transferFee, less) < net
               /\ oft_type # "Adapter" => view.sent = net
<1> DEFINE bps == FeeBpsOf(e)
           view == ComputeFeeAndAdjustAmount(e, amount)
<1>1. bps \in 0..ONE_IN_BASIS_POINTS
  <2>1. /\ peers[e].fee_bps \in Option(0..(ONE_IN_BASIS_POINTS - 1))
        /\ default_fee_bps \in 0..(ONE_IN_BASIS_POINTS - 1)
    BY StateFacts, InvParts DEF StoreTypes, PeerConfigs
  <2>2. ONE_IN_BASIS_POINTS \in Nat
    BY FeesAssumption
  <2> QED
    BY <2>1, <2>2 DEF FeeBpsOf, Option
<1>2. transferFee \in TransferFee
  BY StateFacts
<1>3. CASE oft_type = "Adapter"
  <2>1. view = AdjustAdapter(transferFee, bps, amount)
    BY <1>3 DEF ComputeFeeAndAdjustAmount
  <2> HIDE DEF view, bps
  <2> QED
    BY <1>1, <1>2, <1>3, <2>1, AdapterViewIsSound DEF view
<1>4. CASE oft_type # "Adapter"
  <2>1. view = AdjustNative(bps, amount)
    BY <1>4 DEF ComputeFeeAndAdjustAmount
  <2> HIDE DEF view, bps
  <2> QED
    BY <1>1, <1>4, <2>1, NativeViewFacts DEF view
<1> QED
  BY <1>3, <1>4

(***************************************************************************)
(* Every quote is sound, whatever the fees are at the time.                *)
(***************************************************************************)
LEMMA QuoteFromInv == Inv => QuoteIsSound
<1> SUFFICES ASSUME Inv, NEW e \in Eids, NEW amount \in U64
             PROVE  LET view == ComputeFeeAndAdjustAmount(e, amount)
                        net == view.received + view.fee
                    IN  /\ view.sent <= amount
                        /\ view.received \in Nat /\ view.received % Ld2sdRate = 0
                        /\ view.fee \in Nat /\ view.fee % Ld2sdRate = 0
                        /\ oft_type = "Adapter" =>
                            /\ PostFeeAmount(transferFee, view.sent) = net
                            /\ PostFeeAmount(transferFee, amount) < net + Ld2sdRate
                            /\ \A less \in 0..(view.sent - 1) :
                                 PostFeeAmount(transferFee, less) < net
  BY DEF QuoteIsSound
<1>1. amount \in Nat
  BY U64Assumption DEF U64
<1> QED
  BY <1>1, ViewFacts

-----------------------------------------------------------------------------
\* Peers.

\* An amount that passes the limits of a peer leaves sound limiters.
LEMMA MeteredKeeps ==
    ASSUME Inv, NEW e \in Eids, NEW d \in Flows, NEW amount \in U64,
           Metered(e, d, amount), now' = now
    PROVE  PeerTypes'
<1> DEFINE old == peers[e].limiters
           new == Pass(old, d, amount, now)
<1>1. /\ peers \in [Eids -> PeerConfigs] /\ LimitersSound /\ now \in U64
      /\ old \in [Flows -> Option(RateLimiter)]
      /\ \A f \in Flows : old[f] # NONE => Sound(old[f], now)
  BY StateFacts, InvParts DEF PeerTypes, PeerConfigs, LimitersSound
<1>2. ~ PassFails(old, d, amount, now) /\ peers' = [peers EXCEPT ![e].limiters = new]
  BY DEF Metered
<1> HIDE DEF old
<1>3. LET o == Reversed(d)
          isNet == old[o] # NONE /\ old[o].rate_limiter_type = "Net"
      IN  /\ o \in Flows /\ Flows = {d, o}
          /\ new \in [Flows -> Option(RateLimiter)]
          /\ Sound(new[d], now)
          /\ isNet => Sound(new[o], now)
          /\ ~ isNet => new[o] = old[o]
  BY <1>1, <1>2, PassFacts
<1>4. \A f \in Flows : new[f] # NONE => Sound(new[f], now)
  BY <1>1, <1>3
<1>5. new \in [Flows -> Option(RateLimiter)]
  BY <1>3
<1> HIDE DEF new
<1>6. peers' \in [Eids -> PeerConfigs]
  BY <1>1, <1>2, <1>5 DEF PeerConfigs
<1>7. \A f \in Eids : peers'[f].limiters = IF f = e THEN new ELSE peers[f].limiters
  BY <1>1, <1>2 DEF PeerConfigs
<1>8. LimitersSound'
  BY <1>1, <1>4, <1>7 DEF LimitersSound
<1> QED
  BY <1>6, <1>8 DEF PeerTypes

\* So does a change of a limit.
LEMMA RateLimitKeeps ==
    ASSUME Inv, NEW e \in Eids, NEW d \in Flows, NEW params \in LimitChoices,
           SetPeerRateLimit(e, d, params)
    PROVE  PeerTypes'
<1> DEFINE old == peers[e].limiters[d]
           new == UpdateRateLimiter(old, params, now)
<1>1. /\ peers \in [Eids -> PeerConfigs] /\ LimitersSound /\ now \in U64 /\ now' = now
      /\ old \in Option(RateLimiter) /\ (old # NONE => Sound(old, now))
  BY StateFacts, InvParts DEF PeerTypes, PeerConfigs, LimitersSound, SetPeerRateLimit
<1>2. peers' = [peers EXCEPT ![e].limiters[d] = new]
  BY DEF SetPeerRateLimit
<1>3. new # NONE => Sound(new, now)
  <2>1. CASE params = NONE
    BY <2>1 DEF UpdateRateLimiter
  <2>2. CASE params # NONE
    <3>1. params \in RateLimitParams
      BY <2>2, OFTAssumption DEF Option
    <3> HIDE DEF old
    <3> QED
      BY <1>1, <2>2, <3>1, UpdateFacts
  <2> QED
    BY <2>1, <2>2
<1> HIDE DEF new
<1>4. new \in Option(RateLimiter)
  BY <1>3 DEF Sound, Option
<1>5. peers' \in [Eids -> PeerConfigs]
  BY <1>1, <1>2, <1>4 DEF PeerConfigs
<1>6. \A f \in Eids, g \in Flows :
        peers'[f].limiters[g] = IF f = e /\ g = d THEN new ELSE peers[f].limiters[g]
  BY <1>1, <1>2 DEF PeerConfigs
<1>7. LimitersSound'
  BY <1>1, <1>3, <1>6 DEF LimitersSound
<1> QED
  BY <1>5, <1>7 DEF PeerTypes

\* So does a change of the fee.
LEMMA PeerFeeKeeps ==
    ASSUME Inv, NEW e \in Eids, NEW fee_bps \in FeeChoices, SetPeerFee(e, fee_bps)
    PROVE  PeerTypes'
<1>1. peers \in [Eids -> PeerConfigs] /\ LimitersSound /\ now' = now
  BY InvParts DEF PeerTypes, SetPeerFee
<1>2. fee_bps \in Option(0..(ONE_IN_BASIS_POINTS - 1))
  BY OFTAssumption, FeesAssumption DEF SetPeerFee, Option
<1>3. peers' = [peers EXCEPT ![e].fee_bps = fee_bps]
  BY DEF SetPeerFee
<1>4. peers' \in [Eids -> PeerConfigs]
  BY <1>1, <1>2, <1>3 DEF PeerConfigs
<1>5. \A f \in Eids : peers'[f].limiters = peers[f].limiters
  BY <1>1, <1>3 DEF PeerConfigs
<1> QED
  BY <1>1, <1>4, <1>5 DEF PeerTypes, LimitersSound

\* And time.
LEMMA TickKeeps == ASSUME Inv, Tick PROVE PeerTypes' /\ StoreTypes'
<1>1. now \in 0..MaxTime /\ now' = now + 1 /\ now' \in 0..MaxTime /\ peers' = peers
  BY InvParts, OFTAssumption, U64Assumption DEF StoreTypes, Tick, U64
<1>2. now \in U64 /\ now + 1 \in U64
  BY <1>1, OFTAssumption, U64Assumption DEF U64
<1>3. \A e \in Eids, d \in Flows :
        peers[e].limiters[d] # NONE => Sound(peers[e].limiters[d], now + 1)
  BY <1>2, InvParts, SecondLevel DEF PeerTypes, LimitersSound
<1>4. PeerTypes'
  BY <1>1, <1>3, InvParts DEF PeerTypes, LimitersSound
<1> QED
  BY <1>1, <1>4, InvParts DEF StoreTypes, Tick, storeVars

-----------------------------------------------------------------------------
\* Tokens.

\* The books after a step, in plain arithmetic.
LEMMA BooksNext ==
    ASSUME oft_type' = oft_type,
           tvl_ld' \in Nat, escrow' \in Nat, held' \in Nat, supply' \in Nat, feesDue' \in Nat,
           tvl_ld' <= MaxU64, supply' <= MaxU64,
           held' + escrow' <= supply',
           oft_type = "Adapter" => escrow' = tvl_ld' + feesDue',
           oft_type # "Adapter" => tvl_ld' = 0 /\ escrow' <= feesDue'
    PROVE  Books'
<1>1. MaxU64 \in Nat
  BY U64Assumption
<1>2. \A x, y, z \in Nat : x + y <= z /\ z <= MaxU64 => x <= MaxU64 /\ y <= MaxU64
  BY <1>1
<1>3. escrow' <= MaxU64 /\ held' <= MaxU64
  BY <1>2
<1>4. TokenTypes'
  BY <1>1, <1>3 DEF TokenTypes, U64
<1> QED
  BY <1>4 DEF Books, TokensCovered, FeesAreHeld

\* The books of a send: an Adapter's escrow gets exactly what is locked and the
\* fee; a Native OFT burns what leaves and the escrow gets no more than the fee.
LEMMA SendBooks ==
    ASSUME Inv, NEW e \in Eids, NEW amount \in SendAmounts, NEW minAmount \in MinAmounts,
           Send(e, amount, minAmount)
    PROVE  Books'
<1> DEFINE view == ComputeFeeAndAdjustAmount(e, amount)
           net == view.received + view.fee
<1>1. amount \in Nat
  BY OFTAssumption, U64Assumption DEF U64
<1>2. /\ transferFee \in TransferFee
      /\ tvl_ld \in Nat /\ escrow \in Nat /\ held \in Nat /\ supply \in Nat
      /\ supply <= MaxU64 /\ MaxU64 \in Nat
      /\ held + escrow <= supply
      /\ feesDue \in Nat
  BY StateFacts
<1>3. /\ view.sent \in Nat /\ view.received \in Nat /\ view.fee \in Nat
      /\ oft_type = "Adapter" => PostFeeAmount(transferFee, view.sent) = net
      /\ oft_type # "Adapter" => view.sent = net
  BY <1>1, ViewFacts
<1>4. PostFeeAmount(transferFee, view.sent) \in 0..view.sent
  BY <1>2, <1>3, TransferFeeFacts
<1>5. PostFeeAmount(transferFee, view.fee) \in 0..view.fee
  BY <1>2, <1>3, TransferFeeFacts
<1>6. /\ view.sent <= held
      /\ IF oft_type = "Adapter" THEN Lock(view) ELSE Burn(view)
      /\ feesDue' = feesDue + view.fee
      /\ oft_type' = oft_type
  BY DEF Send, storeVars
<1>7. FeesAreHeld
  BY InvParts DEF Books
<1> HIDE DEF view
<1>8. CASE oft_type = "Adapter"
  <2>1. /\ tvl_ld' = tvl_ld + view.received /\ tvl_ld + view.received <= MaxU64
        /\ held' = held - view.sent
        /\ escrow' = escrow + net
        /\ supply' = supply
    BY <1>3, <1>6, <1>8 DEF Lock
  <2>2. escrow = tvl_ld + feesDue /\ net <= view.sent
    BY <1>3, <1>4, <1>7, <1>8 DEF FeesAreHeld
  <2> QED
    BY <1>2, <1>3, <1>6, <1>8, <2>1, <2>2, BooksNext
<1>9. CASE oft_type # "Adapter"
  <2>1. /\ supply' = supply - (view.sent - view.fee)
        /\ held' = held - view.sent
        /\ escrow' = escrow + PostFeeAmount(transferFee, view.fee)
        /\ tvl_ld' = tvl_ld
    BY <1>6, <1>9 DEF Burn
  <2>2. tvl_ld = 0 /\ escrow <= feesDue
    BY <1>7, <1>9 DEF FeesAreHeld
  <2> DEFINE gain == PostFeeAmount(transferFee, view.fee)
  <2>3. gain \in Nat /\ gain <= view.fee /\ escrow' = escrow + gain
    BY <1>3, <1>5, <2>1
  <2> HIDE DEF gain
  <2>4. /\ tvl_ld' \in Nat /\ escrow' \in Nat /\ held' \in Nat /\ supply' \in Nat
        /\ feesDue' \in Nat /\ tvl_ld' <= MaxU64 /\ supply' <= MaxU64
        /\ held' + escrow' <= supply'
        /\ tvl_ld' = 0 /\ escrow' <= feesDue'
    BY <1>2, <1>3, <1>6, <1>9, <2>1, <2>2, <2>3
  <2> QED
    BY <1>6, <1>9, <2>4, BooksNext
<1> QED
  BY <1>8, <1>9

\* The books of a delivery: what is unlocked leaves tvl_ld and the escrow
\* alike; what is minted was not there before.
LEMMA ReceiveBooks ==
    ASSUME Inv, NEW p \in packets, LzReceive(p)
    PROVE  /\ Books'
           /\ Sd2Ld(p.amount_sd) \in U64
           /\ Credited(Sd2Ld(p.amount_sd)) \in U64
<1> DEFINE amount == Sd2Ld(p.amount_sd)
<1>1. p.amount_sd \in Nat
  <2>1. p.amount_sd \in 0..MaxU64
    BY InvParts DEF ChannelTypes, Packet, U64
  <2> QED
    BY <2>1, U64Assumption
<1>2. amount \in Nat
  BY <1>1, FeesAssumption, ProductFacts DEF Sd2Ld
<1>3. /\ amount <= MaxU64
      /\ IF oft_type = "Adapter" THEN Unlock(amount) ELSE Mint(amount)
      /\ held' = held + Credited(amount)
      /\ oft_type' = oft_type /\ feesDue' = feesDue
  BY DEF LzReceive, storeVars
<1>4. /\ transferFee \in TransferFee
      /\ tvl_ld \in Nat /\ escrow \in Nat /\ held \in Nat /\ supply \in Nat
      /\ supply <= MaxU64 /\ MaxU64 \in Nat
      /\ held + escrow <= supply
      /\ feesDue \in Nat
  BY StateFacts
<1>5. FeesAreHeld
  BY InvParts DEF Books
<1> HIDE DEF amount
<1>6. Credited(amount) \in 0..amount
  BY <1>2, <1>4, TransferFeeFacts DEF Credited
<1>7. amount \in U64 /\ Credited(amount) \in U64
  BY <1>2, <1>3, <1>4, <1>6 DEF U64
<1>8. CASE oft_type = "Adapter"
  <2>1. /\ amount <= tvl_ld /\ amount <= escrow
        /\ tvl_ld' = tvl_ld - amount /\ escrow' = escrow - amount /\ supply' = supply
    BY <1>3, <1>8 DEF Unlock
  <2>2. escrow = tvl_ld + feesDue
    BY <1>5, <1>8 DEF FeesAreHeld
  <2> DEFINE credit == Credited(amount)
  <2>3. credit \in Nat /\ credit <= amount /\ held' = held + credit
    BY <1>2, <1>3, <1>6
  <2> HIDE DEF credit
  <2> QED
    BY <1>2, <1>3, <1>4, <1>7, <1>8, <2>1, <2>2, <2>3, BooksNext DEF amount
<1>9. CASE oft_type # "Adapter"
  <2>1. /\ supply + amount <= MaxU64 /\ supply' = supply + amount
        /\ tvl_ld' = tvl_ld /\ escrow' = escrow
    BY <1>3, <1>9 DEF Mint
  <2>2. tvl_ld = 0 /\ escrow <= feesDue
    BY <1>5, <1>9 DEF FeesAreHeld
  <2> DEFINE credit == Credited(amount)
  <2>3. credit \in Nat /\ credit <= amount /\ held' = held + credit
    BY <1>2, <1>3, <1>6
  <2> HIDE DEF credit
  <2> QED
    BY <1>2, <1>3, <1>4, <1>7, <1>9, <2>1, <2>2, <2>3, BooksNext DEF amount
<1> QED
  BY <1>8, <1>9, <1>7 DEF amount

\* The books of a withdrawal: only what exceeds tvl_ld is there to take.
LEMMA WithdrawBooks ==
    ASSUME Inv, NEW fee_ld \in WithdrawAmounts, WithdrawFee(fee_ld)
    PROVE  Books'
<1>1. fee_ld \in Nat
  BY OFTAssumption, U64Assumption DEF U64
<1>2. /\ transferFee \in TransferFee
      /\ tvl_ld \in Nat /\ escrow \in Nat /\ held \in Nat /\ supply \in Nat
      /\ supply <= MaxU64 /\ MaxU64 \in Nat
      /\ held + escrow <= supply
      /\ feesDue \in Nat /\ TokenTypes
  BY StateFacts, InvParts DEF Books
<1>3. tvl_ld <= MaxU64
  BY <1>2 DEF TokenTypes, U64
<1> DEFINE credit == PostFeeAmount(transferFee, fee_ld)
<1>4. credit \in 0..fee_ld
  BY <1>1, <1>2, TransferFeeFacts
<1>5. /\ fee_ld <= escrow - tvl_ld
      /\ escrow' = escrow - fee_ld /\ held' = held + credit /\ feesDue' = feesDue - fee_ld
      /\ oft_type' = oft_type /\ tvl_ld' = tvl_ld /\ supply' = supply
  BY DEF WithdrawFee, Withdrawable, storeVars
<1>6. IF oft_type = "Adapter" THEN escrow = tvl_ld + feesDue
      ELSE tvl_ld = 0 /\ escrow <= feesDue
  BY InvParts DEF Books, FeesAreHeld
<1> HIDE DEF credit
<1>7. /\ credit \in Nat /\ credit <= fee_ld
      /\ escrow' \in Nat /\ held' \in Nat
      /\ held' + escrow' <= supply'
  BY <1>1, <1>2, <1>4, <1>5
<1>8. /\ feesDue' \in Nat
      /\ oft_type = "Adapter" => escrow' = tvl_ld' + feesDue'
      /\ oft_type # "Adapter" => tvl_ld' = 0 /\ escrow' <= feesDue'
  BY <1>1, <1>2, <1>5, <1>6
<1> QED
  BY <1>2, <1>3, <1>5, <1>7, <1>8, BooksNext
-----------------------------------------------------------------------------
\* Messages.

\* A message from another chain has a nonce of its own and is covered.
LEMMA RemoteSendKeeps ==
    ASSUME Inv, NEW e \in Eids, NEW amount_sd \in RemoteAmounts, NEW compose \in BOOLEAN,
           RemoteSend(e, amount_sd, compose)
    PROVE  ChannelTypes'
<1> DEFINE p == [nonce |-> nonce + 1, src_eid |-> e, amount_sd |-> amount_sd,
                 compose |-> compose]
<1>1. /\ remote \in Nat /\ packets \subseteq Packet /\ nonce \in 0..MaxPackets
      /\ \A q, r \in packets : q.nonce = r.nonce => q = r
      /\ \A q \in packets : q.nonce \in 1..nonce
      /\ composed \subseteq [nonce : 1..nonce, amount_ld : U64]
  BY InvParts DEF ChannelTypes
<1>2. /\ nonce' = nonce + 1 /\ nonce < MaxPackets
      /\ remote' = remote - amount_sd /\ amount_sd <= remote
      /\ packets' = packets \cup {p} /\ composed' = composed
  BY DEF RemoteSend
<1>3. amount_sd \in U64 /\ amount_sd \in Nat /\ MaxPackets \in Nat
  BY OFTAssumption, U64Assumption DEF U64
<1>4. remote' \in Nat /\ nonce' \in 0..MaxPackets
  BY <1>1, <1>2, <1>3
<1>5. p \in Packet /\ p.nonce = nonce'
  BY <1>1, <1>2, <1>3 DEF Packet
<1> HIDE DEF p
<1>6. nonce' \notin 1..nonce /\ nonce' \in 1..nonce' /\ 1..nonce \subseteq 1..nonce'
  BY <1>1, <1>2, <1>3
<1>7. /\ packets' \subseteq Packet
      /\ \A q, r \in packets' : q.nonce = r.nonce => q = r
      /\ \A q \in packets' : q.nonce \in 1..nonce'
      /\ composed' \subseteq [nonce : 1..nonce', amount_ld : U64]
  BY <1>1, <1>2, <1>5, <1>6
<1> QED
  BY <1>4, <1>7 DEF ChannelTypes

\* A delivery takes its message away and stores at most the one for the composer.
LEMMA ReceiveKeeps ==
    ASSUME Inv, NEW p \in packets, LzReceive(p)
    PROVE  ChannelTypes'
<1>1. /\ remote \in Nat /\ packets \subseteq Packet /\ nonce \in 0..MaxPackets
      /\ \A q, r \in packets : q.nonce = r.nonce => q = r
      /\ \A q \in packets : q.nonce \in 1..nonce
      /\ composed \subseteq [nonce : 1..nonce, amount_ld : U64]
  BY InvParts DEF ChannelTypes
<1>2. /\ packets' = packets \ {p} /\ composed' = composed \cup Compose(p)
      /\ remote' = remote /\ nonce' = nonce
  BY DEF LzReceive
<1>3. Credited(Sd2Ld(p.amount_sd)) \in U64
  BY ReceiveBooks
<1>4. Compose(p) \subseteq [nonce : 1..nonce, amount_ld : U64]
  BY <1>1, <1>3 DEF Compose
<1> QED
  BY <1>1, <1>2, <1>4 DEF ChannelTypes

\* A send adds whole shared units to what is elsewhere.
LEMMA SendKeeps ==
    ASSUME Inv, NEW e \in Eids, NEW amount \in SendAmounts, NEW minAmount \in MinAmounts,
           Send(e, amount, minAmount)
    PROVE  ChannelTypes' /\ PeerTypes'
<1> DEFINE view == ComputeFeeAndAdjustAmount(e, amount)
<1>1. amount \in 0..MaxU64 /\ amount \in Nat /\ MaxU64 \in Nat
  BY OFTAssumption, U64Assumption DEF U64
<1>2. /\ view.sent \in 0..amount /\ view.received \in Nat /\ view.fee \in Nat
      /\ oft_type = "Adapter" => PostFeeAmount(transferFee, view.sent) = view.received + view.fee
      /\ oft_type # "Adapter" => view.sent = view.received + view.fee
      /\ Ld2sdRate * Ld2Sd(view.received) = view.received
  BY <1>1, ViewFacts
<1>3. /\ Metered(e, "outbound", view.received)
      /\ remote' = remote + Ld2Sd(view.received)
      /\ packets' = packets /\ nonce' = nonce /\ composed' = composed /\ now' = now
  BY DEF Send
<1>4. PostFeeAmount(transferFee, view.sent) \in 0..view.sent
  BY <1>2, StateFacts, TransferFeeFacts
<1> HIDE DEF view
<1>5. view.received <= view.sent /\ view.received \in U64
  BY <1>1, <1>2, <1>4 DEF U64
<1>6. Ld2Sd(view.received) \in Nat
  BY <1>2, FeesAssumption, DivFacts DEF Ld2Sd
<1>7. ChannelTypes'
  BY <1>3, <1>6, InvParts DEF ChannelTypes
<1>8. PeerTypes'
  BY <1>3, <1>5, MeteredKeeps DEF Flows
<1> QED
  BY <1>7, <1>8

-----------------------------------------------------------------------------
\* The steps together.

\* An initial limiter holds no more than its capacity and was filled at time 0.
LEMMA InvInit == Init => Inv
<1> SUFFICES ASSUME Init PROVE Inv
  OBVIOUS
<1>1. /\ InitialLimiter \in Option(RateLimiter)
      /\ InitialLimiter # NONE =>
            /\ InitialLimiter.available_capacity <= InitialLimiter.capacity
            /\ InitialLimiter.last_refill_time = 0
      /\ InitialTokens \in Nat /\ InitialTokens <= MaxU64 /\ InitialRemote \in Nat
      /\ MaxPackets \in Nat /\ MaxTime \in Nat /\ MaxU64 \in Nat
      /\ ONE_IN_BASIS_POINTS \in Nat \ {0}
  BY OFTAssumption, U64Assumption, FeesAssumption DEF U64
<1>2. StoreTypes
  <2>1. /\ oft_type \in OFTTypes /\ paused = FALSE /\ transferFee \in TransferFees
        /\ default_fee_bps = 0 /\ now = 0
    BY DEF Init
  <2>2. 0 \in 0..(ONE_IN_BASIS_POINTS - 1) /\ 0 \in 0..MaxTime
    BY <1>1
  <2> QED
    BY <2>1, <2>2 DEF StoreTypes
<1>3. ChannelTypes
  BY <1>1 DEF Init, ChannelTypes
<1>4. InitialLimiter # NONE => Sound(InitialLimiter, now)
  BY <1>1 DEF Init, Sound, Option
<1>5. PeerTypes
  BY <1>1, <1>4 DEF Init, PeerTypes, LimitersSound, PeerConfigs, Option
<1>6. Books
  <2>1. /\ tvl_ld = 0 /\ escrow = 0 /\ feesDue = 0
        /\ held = InitialTokens /\ supply = InitialTokens
    BY DEF Init
  <2>2. TokenTypes /\ TokensCovered
    BY <1>1, <2>1 DEF TokenTypes, TokensCovered, U64
  <2>3. FeesAreHeld
    BY <2>1 DEF FeesAreHeld
  <2> QED
    BY <2>2, <2>3 DEF Books
<1> QED
  BY <1>2, <1>3, <1>5, <1>6, InvParts

\* What an instruction leaves alone stays well-typed.
LEMMA Untouched ==
    ASSUME Inv
    PROVE  /\ UNCHANGED <<storeVars, transferFee, now>> => StoreTypes'
           /\ UNCHANGED channelVars => ChannelTypes'
           /\ UNCHANGED <<peers, now>> => PeerTypes'
           /\ UNCHANGED <<oft_type, tokenVars, feesDue>> => Books'
<1>1. StoreTypes /\ ChannelTypes /\ PeerTypes /\ Books
  BY InvParts
<1>2. UNCHANGED <<storeVars, transferFee, now>> => StoreTypes'
  BY <1>1 DEF StoreTypes, storeVars
<1>3. UNCHANGED channelVars => ChannelTypes'
  BY <1>1 DEF ChannelTypes, channelVars
<1>4. UNCHANGED <<peers, now>> => PeerTypes'
  BY <1>1 DEF PeerTypes, LimitersSound
<1>5. UNCHANGED <<oft_type, tokenVars, feesDue>> => Books'
  BY <1>1 DEF Books, TokenTypes, TokensCovered, FeesAreHeld, tokenVars
<1> QED
  BY <1>2, <1>3, <1>4, <1>5

\* The invariant is kept by every instruction, by the clock and by a new epoch.
LEMMA InvStep == Inv /\ [Next]_vars => Inv'
<1> SUFFICES ASSUME Inv, [Next]_vars PROVE Inv'
  OBVIOUS
<1>1. ASSUME NEW e \in Eids, NEW amount \in SendAmounts, NEW min \in MinAmounts,
             Send(e, amount, min)
      PROVE  Inv'
  <2>1. UNCHANGED <<storeVars, transferFee, now>>
    BY <1>1 DEF Send
  <2> QED
    BY <1>1, <2>1, Untouched, SendBooks, SendKeeps, InvPartsNext
<1>2. ASSUME NEW p \in packets, LzReceive(p) PROVE Inv'
  <2>1. /\ UNCHANGED <<storeVars, transferFee, now>>
        /\ Metered(p.src_eid, "inbound", Sd2Ld(p.amount_sd))
    BY <1>2 DEF LzReceive
  <2>2. p.src_eid \in Eids
    BY InvParts DEF ChannelTypes, Packet
  <2>3. Books' /\ Sd2Ld(p.amount_sd) \in U64
    BY <1>2, ReceiveBooks
  <2>4. PeerTypes'
    BY <2>1, <2>2, <2>3, MeteredKeeps DEF Flows
  <2> QED
    BY <1>2, <2>1, <2>3, <2>4, Untouched, ReceiveKeeps, InvPartsNext
<1>3. ASSUME NEW e \in Eids, NEW sd \in RemoteAmounts, NEW compose \in BOOLEAN,
             RemoteSend(e, sd, compose)
      PROVE  Inv'
  <2>1. UNCHANGED <<storeVars, tokenVars, peers, transferFee, now, feesDue>>
    BY <1>3 DEF RemoteSend
  <2> QED
    BY <1>3, <2>1, Untouched, RemoteSendKeeps, InvPartsNext DEF storeVars
<1>4. ASSUME NEW fee \in WithdrawAmounts, WithdrawFee(fee) PROVE Inv'
  <2>1. UNCHANGED <<storeVars, peers, transferFee, channelVars, now>>
    BY <1>4 DEF WithdrawFee
  <2> QED
    BY <1>4, <2>1, Untouched, WithdrawBooks, InvPartsNext
<1>5. ASSUME NEW e \in Eids, NEW fee \in FeeChoices, SetPeerFee(e, fee) PROVE Inv'
  <2>1. UNCHANGED <<storeVars, tokenVars, transferFee, channelVars, now, feesDue>>
    BY <1>5 DEF SetPeerFee
  <2> QED
    BY <1>5, <2>1, Untouched, PeerFeeKeeps, InvPartsNext DEF storeVars
<1>6. ASSUME NEW e \in Eids, NEW d \in Flows, NEW params \in LimitChoices,
             SetPeerRateLimit(e, d, params)
      PROVE  Inv'
  <2>1. UNCHANGED <<storeVars, tokenVars, transferFee, channelVars, now, feesDue>>
    BY <1>6 DEF SetPeerRateLimit
  <2> QED
    BY <1>6, <2>1, Untouched, RateLimitKeeps, InvPartsNext DEF storeVars
<1>7. ASSUME NEW fee \in FeeChoices, SetDefaultFee(fee) PROVE Inv'
  <2>1. /\ UNCHANGED <<oft_type, paused, tokenVars, peers, transferFee, channelVars, now, feesDue>>
        /\ fee # NONE /\ fee < ONE_IN_BASIS_POINTS /\ default_fee_bps' = fee
    BY <1>7 DEF SetDefaultFee
  <2>2. default_fee_bps' \in 0..(ONE_IN_BASIS_POINTS - 1)
    BY <2>1, OFTAssumption, FeesAssumption DEF Option
  <2>3. StoreTypes'
    BY <2>1, <2>2, InvParts DEF StoreTypes
  <2> QED
    BY <2>1, <2>3, Untouched, InvPartsNext
<1>8. ASSUME NEW value \in BOOLEAN, SetPause(value) PROVE Inv'
  <2>1. /\ UNCHANGED <<oft_type, default_fee_bps, tokenVars, peers, transferFee,
                       channelVars, now, feesDue>>
        /\ paused' = value
    BY <1>8 DEF SetPause
  <2>2. StoreTypes'
    BY <2>1, InvParts DEF StoreTypes
  <2> QED
    BY <2>1, <2>2, Untouched, InvPartsNext
<1>9. ASSUME NEW fee \in TransferFees, NewEpoch(fee) PROVE Inv'
  <2>1. /\ UNCHANGED <<storeVars, tokenVars, peers, channelVars, now, feesDue>>
        /\ transferFee' = fee
    BY <1>9 DEF NewEpoch
  <2>2. StoreTypes'
    BY <2>1, InvParts DEF StoreTypes, storeVars
  <2> QED
    BY <2>1, <2>2, Untouched, InvPartsNext DEF storeVars
<1>10. CASE Tick
  <2>1. UNCHANGED <<storeVars, tokenVars, channelVars, feesDue>>
    BY <1>10 DEF Tick
  <2> QED
    BY <1>10, <2>1, Untouched, TickKeeps, InvPartsNext DEF storeVars
<1>11. CASE UNCHANGED vars
  BY <1>11, Untouched, InvPartsNext DEF vars, storeVars, tokenVars, channelVars
<1> QED
  BY <1>1, <1>2, <1>3, <1>4, <1>5, <1>6, <1>7, <1>8, <1>9, <1>10, <1>11 DEF Next

(***************************************************************************)
(* Types, for every transfer fee, fee, limit and amount: no instruction    *)
(* takes more than a balance holds (the subtractions of send.rs,           *)
(* lz_receive.rs and withdraw_fee.rs), no packet is cleared twice.         *)
(***************************************************************************)
THEOREM TypeCorrect == Spec => []TypeOK
<1>1. Inv => TypeOK
  BY DEF Inv
<1> QED
  BY <1>1, InvInit, InvStep, PTL DEF Spec

(***************************************************************************)
(* The escrow holds what is locked and the fees, through every change of   *)
(* the mint's transfer fee: withdraw_fee never touches what is locked.     *)
(***************************************************************************)
THEOREM FeesStayHeld == Spec => []FeesAreHeld
<1>1. Inv => FeesAreHeld
  BY DEF Inv
<1> QED
  BY <1>1, InvInit, InvStep, PTL DEF Spec

(***************************************************************************)
(* compute_fee_and_adjust_amount quotes what really arrives, in every      *)
(* state and for every amount.                                             *)
(***************************************************************************)
THEOREM QuotesAreSound == Spec => []QuoteIsSound
  BY QuoteFromInv, InvInit, InvStep, PTL DEF Spec

(***************************************************************************)
(* The amount stored for the composer is what its recipient got.           *)
(***************************************************************************)
THEOREM ComposersToldTheCredit == Spec => ComposeTellsCredit
<1> DEFINE Told == \A c \in composed' \ composed : c.amount_ld = held' - held
<1>1. ASSUME Inv, [Next]_vars PROVE Told
  <2>1. CASE composed' = composed
    BY <2>1
  <2>2. ASSUME NEW p \in packets, LzReceive(p) PROVE Told
    <3> DEFINE credit == Credited(Sd2Ld(p.amount_sd))
    <3>1. held \in Nat /\ credit \in Nat
      <4>1. credit \in 0..MaxU64
        BY <1>1, <2>2, ReceiveBooks DEF U64
      <4> QED
        BY <1>1, <4>1, StateFacts
    <3>2. held' = held + credit /\ composed' = composed \cup Compose(p)
      BY <2>2 DEF LzReceive
    <3>3. \A c \in Compose(p) : c.amount_ld = credit
      BY DEF Compose
    <3> HIDE DEF credit
    <3> QED
      BY <3>1, <3>2, <3>3
  <2>3. composed' = composed \/ \E p \in packets : LzReceive(p)
    BY <1>1 DEF Next, vars, channelVars, Send, RemoteSend, WithdrawFee, SetPeerFee,
            SetPeerRateLimit, SetDefaultFee, SetPause, NewEpoch, Tick
  <2> QED
    BY <2>1, <2>2, <2>3
<1>2. Inv /\ [Next]_vars => [Told]_vars
  BY <1>1
<1> QED
  BY <1>2, InvInit, InvStep, PTL DEF Spec, ComposeTellsCredit

-----------------------------------------------------------------------------
\* Metering.

\* An amount that passes uses up the limit of its peer and of no other.
LEMMA MeteredLevel ==
    ASSUME Inv, NEW e \in Eids, NEW d \in Flows, NEW amount \in U64,
           Metered(e, d, amount), now' = now
    PROVE  /\ Level(peers'[e].limiters, d, now') = Level(peers[e].limiters, d, now) - amount
           /\ \A f \in Eids \ {e} : peers'[f] = peers[f]
<1> DEFINE old == peers[e].limiters
           new == Pass(old, d, amount, now)
<1>1. /\ peers \in [Eids -> PeerConfigs] /\ now \in U64
      /\ old \in [Flows -> Option(RateLimiter)]
      /\ \A f \in Flows : old[f] # NONE => Sound(old[f], now)
  BY StateFacts, InvParts DEF PeerTypes, PeerConfigs, LimitersSound
<1>2. ~ PassFails(old, d, amount, now) /\ peers' = [peers EXCEPT ![e].limiters = new]
  BY DEF Metered
<1>3. peers'[e].limiters = new /\ \A f \in Eids \ {e} : peers'[f] = peers[f]
  BY <1>1, <1>2 DEF PeerConfigs
<1> HIDE DEF old
<1>4. /\ old[d] # NONE /\ new[d] = TryConsume(old[d], amount, now)
      /\ Sound(new[d], now)
  <2> DEFINE o == Reversed(d)
             isNet == old[o] # NONE /\ old[o].rate_limiter_type = "Net"
  <2>1. /\ o \in Flows /\ o # d /\ Flows = {d, o}
        /\ new \in [Flows -> Option(RateLimiter)]
        /\ old[d] # NONE /\ new[d] = TryConsume(old[d], amount, now)
        /\ Sound(new[d], now)
        /\ isNet => new[o] = Refill(old[o], amount, now) /\ Sound(new[o], now)
        /\ ~ isNet => new[o] = old[o]
    BY <1>1, <1>2, PassFacts
  <2> QED
    BY <2>1
<1>5. ~ TryConsumeFails(old[d], amount, now) /\ Sound(old[d], now)
  BY <1>1, <1>2, <1>4 DEF PassFails
<1>6. FetchAvailableCapacity(new[d], now) = FetchAvailableCapacity(old[d], now) - amount
  BY <1>1, <1>4, <1>5, ConsumeLevel
<1>7. new[d] # NONE
  BY <1>4, U64Assumption DEF Sound
<1> HIDE DEF new
<1>8. Level(new, d, now) = Level(old, d, now) - amount
  BY <1>4, <1>6, <1>7 DEF Level
<1> QED
  BY <1>3, <1>8 DEF old

\* Only sends and deliveries move what is outstanding.
LEMMA MoversOnly ==
    ASSUME [Next]_vars
    PROVE  \/ \E e \in Eids, amount \in SendAmounts, min \in MinAmounts : Send(e, amount, min)
           \/ \E p \in packets : LzReceive(p)
           \/ oft_type' = oft_type /\ tvl_ld' = tvl_ld /\ supply' = supply
  BY DEF Next, vars, storeVars, tokenVars, RemoteSend, WithdrawFee, SetPeerFee,
         SetPeerRateLimit, SetDefaultFee, SetPause, NewEpoch, Tick

(***************************************************************************)
(* No value leaves or enters but through the limit of one peer, which it   *)
(* uses up by its amount, whatever the limits and however they change.     *)
(***************************************************************************)
THEOREM AllValueIsMetered == Spec => ValueIsMetered
<1> DEFINE moved == Outstanding' - Outstanding
           way == IF moved > 0 THEN "outbound" ELSE "inbound"
           size == IF moved > 0 THEN moved ELSE -moved
           Through == moved # 0 =>
             \E e \in Eids :
               /\ Level(peers'[e].limiters, way, now')
                    = Level(peers[e].limiters, way, now) - size
               /\ \A f \in Eids \ {e} : peers'[f] = peers[f]
<1>1. ASSUME Inv, [Next]_vars PROVE Through
  <2>1. tvl_ld \in Nat /\ supply \in Nat
    BY <1>1, StateFacts
  <2>2. ASSUME NEW e \in Eids, NEW amount \in SendAmounts, NEW min \in MinAmounts,
               Send(e, amount, min)
        PROVE  Through
    <3> DEFINE view == ComputeFeeAndAdjustAmount(e, amount)
    <3>1. amount \in 0..MaxU64 /\ amount \in Nat /\ MaxU64 \in Nat
      BY OFTAssumption, U64Assumption DEF U64
    <3>2. /\ view.sent \in 0..amount /\ view.received \in Nat /\ view.fee \in Nat
          /\ oft_type = "Adapter" => PostFeeAmount(transferFee, view.sent) = view.received + view.fee
          /\ oft_type # "Adapter" => view.sent = view.received + view.fee
      BY <1>1, <3>1, ViewFacts
    <3>3. PostFeeAmount(transferFee, view.sent) \in 0..view.sent
      BY <1>1, <3>2, StateFacts, TransferFeeFacts
    <3>4. /\ Metered(e, "outbound", view.received) /\ now' = now /\ oft_type' = oft_type
          /\ oft_type = "Adapter" => tvl_ld' = tvl_ld + view.received
          /\ oft_type # "Adapter" => supply' = supply - (view.sent - view.fee)
      BY <2>2 DEF Send, Lock, Burn, storeVars
    <3> HIDE DEF view
    <3>5. view.received \in U64
      BY <3>1, <3>2, <3>3 DEF U64
    <3>6. Outstanding' - Outstanding = view.received
      BY <2>1, <3>2, <3>4 DEF Outstanding
    <3>7. /\ Level(peers'[e].limiters, "outbound", now')
               = Level(peers[e].limiters, "outbound", now) - view.received
          /\ \A f \in Eids \ {e} : peers'[f] = peers[f]
      BY <1>1, <3>4, <3>5, MeteredLevel DEF Flows
    <3>8. moved # 0 => way = "outbound" /\ size = view.received
      BY <3>2, <3>6
    <3> QED
      BY <3>7, <3>8
  <2>3. ASSUME NEW p \in packets, LzReceive(p) PROVE Through
    <3> DEFINE amount == Sd2Ld(p.amount_sd)
    <3>1. amount \in U64 /\ p.src_eid \in Eids
      BY <1>1, <2>3, ReceiveBooks, InvParts DEF ChannelTypes, Packet
    <3>2. /\ Metered(p.src_eid, "inbound", amount) /\ now' = now /\ oft_type' = oft_type
          /\ oft_type = "Adapter" => tvl_ld' = tvl_ld - amount
          /\ oft_type # "Adapter" => supply' = supply + amount
      BY <2>3 DEF LzReceive, Unlock, Mint, storeVars
    <3> HIDE DEF amount
    <3>3. amount \in Nat
      BY <3>1, U64Assumption DEF U64
    <3>4. Outstanding' - Outstanding = -amount
      BY <2>1, <3>2, <3>3 DEF Outstanding
    <3>5. /\ Level(peers'[p.src_eid].limiters, "inbound", now')
               = Level(peers[p.src_eid].limiters, "inbound", now) - amount
          /\ \A f \in Eids \ {p.src_eid} : peers'[f] = peers[f]
      BY <1>1, <3>1, <3>2, MeteredLevel DEF Flows
    <3>6. way = "inbound" /\ size = amount
      BY <3>3, <3>4
    <3> QED
      BY <3>1, <3>5, <3>6
  <2>4. CASE oft_type' = oft_type /\ tvl_ld' = tvl_ld /\ supply' = supply
    <3>1. Outstanding \in Int /\ Outstanding' = Outstanding
      BY <2>1, <2>4 DEF Outstanding
    <3> QED
      BY <3>1
  <2> QED
    BY <1>1, <2>2, <2>3, <2>4, MoversOnly
<1>2. Inv /\ [Next]_vars => [Through]_vars
  BY <1>1
<1> QED
  BY <1>2, InvInit, InvStep, PTL DEF Spec, ValueIsMetered
-----------------------------------------------------------------------------
(***************************************************************************)
(* What the other chains hold.  The claims are counted in shared units and *)
(* the books of this chain in local ones: a send adds to the claims        *)
(* exactly what it locks or burns because what it lets through is a whole  *)
(* number of shared units.                                                 *)
(***************************************************************************)
Carried(messages) == SumFunction([p \in messages |-> p.amount_sd])

ClaimsInv == IsFiniteSet(packets) /\ ClaimsBacked

\* Messages that can be counted.
Countable(messages) == IsFiniteSet(messages) /\ \A p \in messages : p.amount_sd \in Nat

\* A message more.
LEMMA CarriesMore ==
    ASSUME NEW S, Countable(S), NEW e, e \notin S, e.amount_sd \in Nat
    PROVE  /\ Countable(S \cup {e})
           /\ Carried(S \cup {e}) = Carried(S) + e.amount_sd
           /\ Carried(S) \in Int
<1> DEFINE f == [x \in S |-> x.amount_sd]
           g == [x \in S \cup {e} |-> x.amount_sd]
<1>1. Countable(S \cup {e})
  BY FS_AddElement DEF Countable
<1>2. /\ IsFiniteSet(S)
      /\ f \in [S -> Int] /\ g \in [S \cup {e} -> Int]
      /\ \A y \in S : g[y] = f[y]
      /\ g[e] = e.amount_sd
  BY DEF Countable
<1> HIDE DEF f, g
<1>3. SumFunction(g) = SumFunction(f) + g[e]
  BY <1>2, TotalJoined
<1>4. SumFunction(f) \in Int
  BY <1>2, TotalInt
<1> QED
  BY <1>1, <1>2, <1>3, <1>4 DEF f, g, Carried

\* A message less.
LEMMA CarriesLess ==
    ASSUME NEW S, Countable(S), NEW e \in S
    PROVE  /\ Countable(S \ {e}) /\ e.amount_sd \in Nat
           /\ Carried(S \ {e}) = Carried(S) - e.amount_sd
           /\ Carried(S) \in Int
<1> DEFINE rest == S \ {e}
<1>1. Countable(rest) /\ e \notin rest /\ e.amount_sd \in Nat
  BY FS_Subset DEF Countable
<1>2. rest \cup {e} = S
  OBVIOUS
<1> HIDE DEF rest
<1>3. /\ Carried(rest \cup {e}) = Carried(rest) + e.amount_sd
      /\ Carried(rest) \in Int
  BY <1>1, CarriesMore
<1>4. \A a, b \in Int : \A c : c = a + b => c \in Int /\ a = c - b
  OBVIOUS
<1>5. Carried(S) = Carried(rest) + e.amount_sd /\ Carried(rest) \in Int
  BY <1>2, <1>3
<1>6. e.amount_sd \in Int
  BY <1>1
<1>7. Carried(S) \in Int /\ Carried(rest) = Carried(S) - e.amount_sd
  BY <1>4, <1>5, <1>6
<1> QED
  BY <1>1, <1>7 DEF rest

\* Conversion to local decimals distributes over sums and differences.
LEMMA Sd2LdAdds ==
    ASSUME NEW a \in Int, NEW b \in Int
    PROVE  /\ Sd2Ld(a) \in Int
           /\ Sd2Ld(a + b) = Sd2Ld(a) + Sd2Ld(b)
           /\ Sd2Ld(a - b) = Sd2Ld(a) - Sd2Ld(b)
<1>1. Ld2sdRate \in Int
  BY FeesAssumption
<1> QED
  BY <1>1 DEF Sd2Ld

\* Plain facts of every state that satisfies both invariants.
LEMMA ClaimFacts ==
    ASSUME Inv, ClaimsInv
    PROVE  /\ Countable(packets) /\ Carried(packets) \in Int
           /\ remote \in Nat /\ Outstanding \in Int
<1>1. packets \subseteq Packet /\ IsFiniteSet(packets) /\ remote \in Nat
  BY InvParts DEF ChannelTypes, ClaimsInv
<1>2. \A p \in packets : p.amount_sd \in Nat
  BY <1>1, U64Assumption DEF Packet, U64
<1>3. [p \in packets |-> p.amount_sd] \in [packets -> Int]
  BY <1>2
<1>4. Carried(packets) \in Int
  BY <1>1, <1>3, TotalInt DEF Carried
<1>5. Outstanding \in Int
  BY StateFacts DEF Outstanding
<1> QED
  BY <1>1, <1>2, <1>4, <1>5 DEF Countable

\* What is outstanding grows with the claims, so the books stay balanced.
LEMMA ClaimsFollow ==
    ASSUME Inv, ClaimsInv, oft_type' = oft_type, IsFiniteSet(packets'),
           NEW units \in Int,
           remote' + Carried(packets') = remote + Carried(packets) + units,
           Outstanding' = Outstanding + Sd2Ld(units)
    PROVE  ClaimsInv'
<1> DEFINE initially == IF oft_type = "Adapter" THEN 0
                        ELSE Sd2Ld(InitialRemote) + InitialTokens
           claims == remote + Carried(packets)
<1>1. claims \in Int /\ Outstanding \in Int
  BY ClaimFacts
<1>2. InitialRemote \in Nat /\ InitialTokens \in Nat
  BY OFTAssumption, U64Assumption DEF U64
<1>3. Sd2Ld(InitialRemote) \in Int
  BY <1>2, Sd2LdAdds
<1>4. initially \in Int
  BY <1>2, <1>3
<1>5. Sd2Ld(claims) = Outstanding + initially
  BY DEF ClaimsInv, ClaimsBacked, Carried
<1> HIDE DEF claims
<1>6. Sd2Ld(claims + units) = Sd2Ld(claims) + Sd2Ld(units) /\ Sd2Ld(units) \in Int
  BY <1>1, Sd2LdAdds
<1>7. remote' + Carried(packets') = claims + units
  BY DEF claims
<1>8. Sd2Ld(remote' + Carried(packets')) = Outstanding' + initially
  BY <1>1, <1>4, <1>5, <1>6, <1>7
<1> QED
  BY <1>8 DEF ClaimsInv, ClaimsBacked, Carried

\* Nobody holds anything but what is set at the start.
LEMMA ClaimsInit == Init => ClaimsInv
<1> SUFFICES ASSUME Init PROVE ClaimsInv
  OBVIOUS
<1>1. /\ packets = {} /\ tvl_ld = 0 /\ supply = InitialTokens
      /\ remote = IF oft_type = "Native" THEN InitialRemote ELSE 0
      /\ oft_type \in {"Adapter", "Native"}
      /\ InitialTokens \in Nat /\ InitialRemote \in Nat
  BY OFTAssumption, U64Assumption DEF Init, U64
<1>2. IsFiniteSet(packets)
  BY <1>1, FS_EmptySet
<1>3. [p \in packets |-> p.amount_sd] \in [packets -> {0}]
  BY <1>1
<1>4. Carried(packets) = 0
  BY <1>2, <1>3, TotalOfNothing DEF Carried
<1>5. Sd2Ld(0) = 0 /\ Sd2Ld(InitialRemote) \in Int
  BY <1>1, FeesAssumption, Sd2LdAdds DEF Sd2Ld
<1>6. Sd2Ld(remote + Carried(packets))
        = Outstanding + (IF oft_type = "Adapter" THEN 0 ELSE Sd2Ld(InitialRemote) + InitialTokens)
  <2>1. remote + Carried(packets) = remote
    BY <1>1, <1>4
  <2>2. CASE oft_type = "Adapter"
    BY <1>1, <1>5, <2>1, <2>2 DEF Outstanding
  <2>3. CASE oft_type = "Native"
    BY <1>1, <1>5, <2>1, <2>3 DEF Outstanding
  <2> QED
    BY <1>1, <2>2, <2>3
<1> QED
  BY <1>2, <1>6 DEF ClaimsInv, ClaimsBacked, Carried

\* A send adds to the claims what it locks or burns.
LEMMA SendClaims ==
    ASSUME Inv, ClaimsInv, NEW e \in Eids, NEW amount \in SendAmounts, NEW min \in MinAmounts,
           Send(e, amount, min)
    PROVE  ClaimsInv'
<1> DEFINE view == ComputeFeeAndAdjustAmount(e, amount)
           units == Ld2Sd(view.received)
<1>1. amount \in Nat
  BY OFTAssumption, U64Assumption DEF U64
<1>2. /\ view.sent \in 0..amount /\ view.received \in Nat /\ view.fee \in Nat
      /\ Ld2sdRate * Ld2Sd(view.received) = view.received
      /\ oft_type # "Adapter" => view.sent = view.received + view.fee
  BY <1>1, ViewFacts
<1>3. /\ remote' = remote + units
      /\ packets' = packets /\ oft_type' = oft_type
      /\ oft_type = "Adapter" => tvl_ld' = tvl_ld + view.received
      /\ oft_type # "Adapter" => supply' = supply - (view.sent - view.fee)
  BY DEF Send, Lock, Burn, storeVars
<1> HIDE DEF view
<1>4. units \in Nat /\ Ld2sdRate \in Nat
  BY <1>2, FeesAssumption, DivFacts DEF Ld2Sd
<1>5. Sd2Ld(units) = view.received
  <2>1. units * Ld2sdRate = Ld2sdRate * units
    BY <1>4
  <2> QED
    BY <1>2, <2>1 DEF Sd2Ld
<1>6. tvl_ld \in Nat /\ supply \in Nat
  BY StateFacts
<1>7. Outstanding' = Outstanding + Sd2Ld(units)
  BY <1>2, <1>3, <1>5, <1>6 DEF Outstanding
<1>8. Carried(packets) \in Int /\ remote \in Nat
  BY ClaimFacts
<1> HIDE DEF units
<1>9. remote' + Carried(packets') = remote + Carried(packets) + units
  BY <1>3, <1>4, <1>8
<1>10. IsFiniteSet(packets')
  BY <1>3 DEF ClaimsInv
<1> QED
  BY <1>3, <1>4, <1>7, <1>9, <1>10, ClaimsFollow

\* A delivery takes from the claims what it unlocks or mints.
LEMMA ReceiveClaims ==
    ASSUME Inv, ClaimsInv, NEW p \in packets, LzReceive(p)
    PROVE  ClaimsInv'
<1>1. Countable(packets) /\ Carried(packets) \in Int /\ remote \in Nat
  BY ClaimFacts
<1>2. /\ Countable(packets \ {p}) /\ p.amount_sd \in Nat
      /\ Carried(packets \ {p}) = Carried(packets) - p.amount_sd
  BY <1>1, CarriesLess
<1>3. /\ packets' = packets \ {p} /\ remote' = remote /\ oft_type' = oft_type
      /\ oft_type = "Adapter" => tvl_ld' = tvl_ld - Sd2Ld(p.amount_sd)
      /\ oft_type # "Adapter" => supply' = supply + Sd2Ld(p.amount_sd)
  BY DEF LzReceive, Unlock, Mint, storeVars
<1>4. PICK a \in Nat : a = p.amount_sd
  BY <1>2
<1> DEFINE units == -a
<1>5. units \in Int /\ Sd2Ld(a) \in Int /\ Sd2Ld(units) = -Sd2Ld(a)
  <2>1. Sd2Ld(0 - a) = Sd2Ld(0) - Sd2Ld(a) /\ Sd2Ld(a) \in Int
    BY Sd2LdAdds
  <2>2. Sd2Ld(0) = 0 /\ 0 - a = -a
    BY FeesAssumption DEF Sd2Ld
  <2> QED
    BY <2>1, <2>2
<1>6. tvl_ld \in Nat /\ supply \in Nat
  BY StateFacts
<1>7. Outstanding' = Outstanding + Sd2Ld(units)
  BY <1>3, <1>4, <1>5, <1>6 DEF Outstanding
<1>8. remote' + Carried(packets') = remote + Carried(packets) + units
  BY <1>1, <1>2, <1>3, <1>4
<1>9. IsFiniteSet(packets')
  BY <1>2, <1>3 DEF Countable
<1> HIDE DEF units
<1> QED
  BY <1>3, <1>5, <1>7, <1>8, <1>9, ClaimsFollow

\* A message from another chain carries what its sender held; its nonce is new.
LEMMA RemoteSendClaims ==
    ASSUME Inv, ClaimsInv, NEW e \in Eids, NEW sd \in RemoteAmounts, NEW compose \in BOOLEAN,
           RemoteSend(e, sd, compose)
    PROVE  ClaimsInv'
<1>1. Countable(packets) /\ Carried(packets) \in Int /\ remote \in Nat /\ Outstanding \in Int
  BY ClaimFacts
<1>2. sd \in Nat
  BY OFTAssumption, U64Assumption DEF U64
<1>3. PICK new : /\ new = [nonce |-> nonce + 1, src_eid |-> e, amount_sd |-> sd,
                           compose |-> compose]
                 /\ packets' = packets \cup {new}
                 /\ remote' = remote - sd
                 /\ oft_type' = oft_type /\ tvl_ld' = tvl_ld /\ supply' = supply
  BY DEF RemoteSend, storeVars, tokenVars
<1>4. new \notin packets
  <2>1. nonce \in Nat /\ \A p \in packets : p.nonce \in 1..nonce
    BY InvParts, OFTAssumption DEF ChannelTypes
  <2>2. new.nonce = nonce + 1
    BY <1>3
  <2>3. nonce + 1 \notin 1..nonce
    BY <2>1
  <2> QED
    BY <2>1, <2>2, <2>3
<1>5. new.amount_sd = sd
  BY <1>3
<1>6. /\ Countable(packets \cup {new})
      /\ Carried(packets \cup {new}) = Carried(packets) + sd
  BY <1>1, <1>2, <1>4, <1>5, CarriesMore
<1>7. remote' + Carried(packets') = remote + Carried(packets) + 0
  BY <1>1, <1>2, <1>3, <1>6
<1>8. Outstanding' = Outstanding + Sd2Ld(0)
  <2>1. Sd2Ld(0) = 0
    BY FeesAssumption DEF Sd2Ld
  <2>2. Outstanding' = Outstanding
    BY <1>3 DEF Outstanding
  <2> QED
    BY <1>1, <2>1, <2>2
<1>9. IsFiniteSet(packets')
  BY <1>3, <1>6 DEF Countable
<1>10. 0 \in Int /\ oft_type' = oft_type
  BY <1>3
<1> QED
  BY <1>7, <1>8, <1>9, <1>10, ClaimsFollow

\* Nothing else touches the claims or what they are claims on.
LEMMA ClaimsMoversOnly ==
    ASSUME [Next]_vars
    PROVE  \/ \E e \in Eids, amount \in SendAmounts, min \in MinAmounts : Send(e, amount, min)
           \/ \E p \in packets : LzReceive(p)
           \/ \E e \in Eids, sd \in RemoteAmounts, compose \in BOOLEAN : RemoteSend(e, sd, compose)
           \/ UNCHANGED <<oft_type, tvl_ld, supply, remote, packets>>
  BY DEF Next, vars, storeVars, tokenVars, channelVars, WithdrawFee, SetPeerFee,
         SetPeerRateLimit, SetDefaultFee, SetPause, NewEpoch, Tick

\* The claims stay backed in every step.
LEMMA ClaimsStep == Inv /\ ClaimsInv /\ [Next]_vars => ClaimsInv'
<1> SUFFICES ASSUME Inv, ClaimsInv, [Next]_vars PROVE ClaimsInv'
  OBVIOUS
<1>1. CASE UNCHANGED <<oft_type, tvl_ld, supply, remote, packets>>
  BY <1>1 DEF ClaimsInv, ClaimsBacked, Outstanding
<1> QED
  BY <1>1, SendClaims, ReceiveClaims, RemoteSendClaims, ClaimsMoversOnly

(***************************************************************************)
(* Nothing is created or lost between the chains, for every fee, limit and *)
(* amount and however the packets are ordered: what the other chains hold  *)
(* and what is on its way here is locked here or was burned here.          *)
(***************************************************************************)
THEOREM ClaimsStayBacked == Spec => []ClaimsBacked
<1>1. ClaimsInv => ClaimsBacked
  BY DEF ClaimsInv
<1>2. (Inv /\ ClaimsInv) /\ [Next]_vars => (Inv /\ ClaimsInv)'
  BY InvStep, ClaimsStep
<1> QED
  BY <1>1, <1>2, InvInit, ClaimsInit, PTL DEF Spec
=============================================================================
