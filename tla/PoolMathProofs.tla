--------------------------- MODULE PoolMathProofs ---------------------------
(***************************************************************************)
(* Lemmas about the mathematics of PoolMath, for every width, fee, table   *)
(* of ratios and window of ticks: what its divisions round, that a step of *)
(* a swap ends between its two prices, and what a swap returns.            *)
(***************************************************************************)
EXTENDS PoolMath, FiniteSetTheorems, WellFoundedInduction, TLAPS

-----------------------------------------------------------------------------
(* Rounding *)

Positive == Nat \ {0}

LEMMA DivBound ==
    ASSUME NEW a \in Int, NEW b \in Positive
    PROVE  a \div b \in Int /\ b * (a \div b) <= a /\ a < b * (a \div b) + b
BY DEF Positive

LEMMA ModBound ==
    ASSUME NEW a \in Int, NEW b \in Positive
    PROVE  a % b \in 0..(b - 1) /\ a = b * (a \div b) + (a % b)
BY DEF Positive

LEMMA Product == ASSUME NEW a \in Positive, NEW b \in Positive PROVE a * b \in Positive
BY DEF Positive

LEMMA Factors == ASSUME NEW a \in Nat, NEW b \in Nat PROVE a * b \in Nat
OBVIOUS

\* Multiplying by a positive number keeps and reflects the order.
LEMMA Scale ==
    ASSUME NEW a \in Int, NEW b \in Int, NEW k \in Positive
    PROVE  a <= b <=> k * a <= k * b
BY DEF Positive

LEMMA ScaleStrict ==
    ASSUME NEW a \in Int, NEW b \in Int, NEW k \in Positive
    PROVE  a < b <=> k * a < k * b
BY Scale DEF Positive

\* A quotient is the largest number whose product fits.
LEMMA DivLargest ==
    ASSUME NEW a \in Int, NEW b \in Positive, NEW k \in Int
    PROVE  b * k <= a <=> k <= a \div b
<1> DEFINE q == a \div b
<1>1. q \in Int /\ b * q <= a /\ a < b * q + b /\ b \in Int
  BY DivBound DEF Positive
<1> HIDE DEF q
<1>2. ASSUME k <= q PROVE b * k <= a
  <2>1. b * k <= b * q
    BY <1>1, <1>2, Scale
  <2>2. b * k \in Int /\ b * q \in Int
    BY <1>1
  <2> QED
    BY <1>1, <2>1, <2>2
<1>3. ASSUME q < k PROVE a < b * k
  <2>1. q + 1 <= k /\ q + 1 \in Int
    BY <1>1, <1>3
  <2>2. b * (q + 1) <= b * k
    BY <1>1, <2>1, Scale
  <2>3. b * (q + 1) = b * q + b /\ b * k \in Int /\ b * q \in Int
    BY <1>1
  <2> QED
    BY <1>1, <2>2, <2>3
<1>4. b * k \in Int
  BY <1>1
<1> QED
  BY <1>1, <1>2, <1>3, <1>4 DEF q

LEMMA DivNat == ASSUME NEW a \in Nat, NEW b \in Positive PROVE a \div b \in Nat
BY DEF Positive

\* A quotient rounded up is the smallest number whose product suffices.
LEMMA CeilSmallest ==
    ASSUME NEW a \in Int, NEW b \in Positive, NEW k \in Int
    PROVE  DivRoundingUp(a, b) \in Int /\ (DivRoundingUp(a, b) <= k <=> a <= b * k)
<1> DEFINE q == (-a) \div b
<1>1. q \in Int /\ -a \in Int /\ -k \in Int /\ b \in Int
  BY DivBound DEF Positive
<1>2. b * (-k) <= -a <=> -k <= q
  BY <1>1, DivLargest
<1> HIDE DEF q
<1>3. b * (-k) = -(b * k) /\ b * k \in Int
  BY <1>1
<1> QED
  BY <1>1, <1>2, <1>3 DEF q, DivRoundingUp

LEMMA RoundedUp ==
    ASSUME NEW d \in Positive, NEW q \in Int, NEW m \in 0..(d - 1), NEW r \in Int,
           r = IF m = 0 THEN q ELSE q + 1
    PROVE  d * q + m <= d * r /\ d * (r - 1) < d * q + m
<1>1. d \in Int /\ d > 0 /\ m \in Int
  BY DEF Positive
<1>2. CASE m = 0
  BY <1>1, <1>2
<1>3. CASE m # 0
  <2>1. d * r = d * q + d /\ r - 1 = q /\ d * q \in Int
    BY <1>1, <1>3
  <2> QED
    BY <1>1, <1>3, <2>1
<1> QED
  BY <1>2, <1>3

LEMMA RoundingUpIsCeil ==
    ASSUME NEW a \in Int, NEW b \in Int, NEW d \in Positive
    PROVE  MulDivRoundingUp(a, b, d) = DivRoundingUp(a * b, d)
<1> DEFINE p == a * b
           q == p \div d
           m == p % d
           r == IF m = 0 THEN q ELSE q + 1
<1>1. p \in Int
  OBVIOUS
<1> HIDE DEF p
<1>2. q \in Int /\ m \in 0..(d - 1) /\ p = d * q + m
  BY <1>1, ModBound, DivBound
<1>3. MulDivRoundingUp(a, b, d) = r
  <2>1. MulDivRoundingUp(a, b, d) = q + (IF m = 0 THEN 0 ELSE 1)
    BY DEF MulDivRoundingUp, p
  <2> HIDE DEF q, m
  <2> QED
    BY <1>2, <2>1
<1> HIDE DEF q, m
<1>4. r \in Int
  BY <1>2
<1> HIDE DEF r
<1>5. p <= d * r /\ d * (r - 1) < p
  BY <1>2, <1>4, RoundedUp DEF r
<1>6. d * (r - 1) \in Int /\ r - 1 \in Int
  BY <1>4 DEF Positive
<1>7. DivRoundingUp(p, d) \in Int /\ DivRoundingUp(p, d) <= r /\ ~(DivRoundingUp(p, d) <= r - 1)
  BY <1>1, <1>4, <1>5, <1>6, CeilSmallest
<1>8. DivRoundingUp(p, d) = r
  BY <1>4, <1>7
<1> QED
  BY <1>3, <1>8 DEF p

\* q is n / d, rounded up or down.
CeilOf(q, n, d) == \A k \in Int : q <= k <=> n <= d * k
FloorOf(q, n, d) == \A k \in Int : k <= q <=> d * k <= n

LEMMA Ceil ==
    ASSUME NEW n \in Int, NEW d \in Positive
    PROVE  DivRoundingUp(n, d) \in Int /\ CeilOf(DivRoundingUp(n, d), n, d)
BY CeilSmallest DEF CeilOf

LEMMA FloorBound ==
    ASSUME NEW n \in Int, NEW d \in Positive
    PROVE  n \div d \in Int /\ FloorOf(n \div d, n, d)
BY DivLargest, DivBound DEF FloorOf

LEMMA CeilNat ==
    ASSUME NEW q \in Int, NEW n \in Nat, NEW d \in Positive, CeilOf(q, n, d)
    PROVE  q \in Nat
<1>1. ~(n <= d * (-1)) /\ -1 \in Int
  BY DEF Positive
<1>2. ~(q <= -1)
  BY <1>1 DEF CeilOf
<1> QED
  BY <1>2

\* Rounding twice is rounding once.
LEMMA CeilTwice ==
    ASSUME NEW n \in Int, NEW a \in Positive, NEW b \in Positive
    PROVE  /\ DivRoundingUp(DivRoundingUp(n, b), a) \in Int
           /\ CeilOf(DivRoundingUp(DivRoundingUp(n, b), a), n, b * a)
<1> DEFINE p == DivRoundingUp(n, b)
           q == DivRoundingUp(p, a)
<1>1. p \in Int /\ CeilOf(p, n, b)
  BY Ceil
<1> HIDE DEF p
<1>2. q \in Int /\ CeilOf(q, p, a)
  BY <1>1, Ceil
<1> HIDE DEF q
<1>3. ASSUME NEW k \in Int PROVE q <= k <=> n <= (b * a) * k
  <2>1. a * k \in Int /\ b * (a * k) = (b * a) * k
    BY DEF Positive
  <2> QED
    BY <1>1, <1>2, <2>1 DEF CeilOf
<1> QED
  BY <1>2, <1>3 DEF p, q, CeilOf

LEMMA FloorTwice ==
    ASSUME NEW n \in Int, NEW a \in Positive, NEW b \in Positive
    PROVE  (n \div b) \div a \in Int /\ FloorOf((n \div b) \div a, n, b * a)
<1> DEFINE p == n \div b
           q == p \div a
<1>1. p \in Int /\ FloorOf(p, n, b)
  BY FloorBound
<1> HIDE DEF p
<1>2. q \in Int /\ FloorOf(q, p, a)
  BY <1>1, FloorBound
<1> HIDE DEF q
<1>3. ASSUME NEW k \in Int PROVE k <= q <=> (b * a) * k <= n
  <2>1. a * k \in Int /\ b * (a * k) = (b * a) * k
    BY DEF Positive
  <2> QED
    BY <1>1, <1>2, <2>1 DEF FloorOf
<1> QED
  BY <1>2, <1>3 DEF p, q, FloorOf

\* What is rounded up and what is rounded down differ by one at most.
LEMMA UpAndDown ==
    ASSUME NEW up \in Int, NEW down \in Int, NEW n \in Int, NEW d \in Positive,
           CeilOf(up, n, d), FloorOf(down, n, d)
    PROVE  down <= up /\ up <= down + 1
<1>1. d * down <= n /\ n <= d * up /\ d * down \in Int /\ d * up \in Int
  BY DEF Positive, CeilOf, FloorOf
<1>2. d * down <= d * up
  BY <1>1
<1>3. down <= up
  BY <1>2, Scale
<1>4. ~(d * (down + 1) <= n) /\ down + 1 \in Int
  BY DEF FloorOf
<1>5. n <= d * (down + 1)
  BY <1>4 DEF Positive
<1> QED
  BY <1>3, <1>4, <1>5 DEF CeilOf

-----------------------------------------------------------------------------
(* The amounts of a position *)

LEMMA MathWidths ==
    /\ Q32 \in Positive /\ Q96 \in Positive /\ Q128 \in Positive /\ U256 \in Positive
    /\ WordBits \in Positive /\ MaxTick \in Nat
<1>1. Q32 \in Positive
  BY MathConstants DEF Positive
<1>2. Q32 * Q32 \in Positive
  BY <1>1, Product
<1>3. Q96 \in Positive
  BY <1>1, <1>2, Product DEF Q96
<1>4. Q128 \in Positive
  BY <1>1, <1>3, Product DEF Q128
<1>5. U256 \in Positive
  BY <1>4, Product DEF U256
<1> QED
  BY <1>1, <1>3, <1>4, <1>5, MathConstants DEF Positive

\* The amount of token 0 in a range, before it is divided.
Numerator0(low, high, liquidity) == (liquidity * Q96) * (high - low)

Up0(low, high, liquidity) == GetAmount0Delta(low, high, liquidity, TRUE)
Down0(low, high, liquidity) == GetAmount0Delta(low, high, liquidity, FALSE)
Up1(low, high, liquidity) == GetAmount1Delta(low, high, liquidity, TRUE)
Down1(low, high, liquidity) == GetAmount1Delta(low, high, liquidity, FALSE)

LEMMA Amount0 ==
    ASSUME NEW low \in Positive, NEW high \in Positive, low <= high, NEW liquidity \in Nat
    PROVE  /\ Numerator0(low, high, liquidity) \in Nat /\ high * low \in Positive
           /\ Up0(low, high, liquidity) \in Nat
           /\ CeilOf(Up0(low, high, liquidity), Numerator0(low, high, liquidity), high * low)
           /\ Down0(low, high, liquidity) \in Nat
           /\ FloorOf(Down0(low, high, liquidity), Numerator0(low, high, liquidity), high * low)
<1> DEFINE n == Numerator0(low, high, liquidity)
<1>1. Q96 \in Nat
  BY MathWidths DEF Positive
<1>2. liquidity * Q96 \in Nat /\ high - low \in Nat
  BY <1>1, Factors DEF Positive
<1>3. n \in Nat
  BY <1>2, Factors DEF Numerator0
<1>4. MinOf(low, high) = low /\ MaxOf(low, high) = high
  BY DEF MinOf, MaxOf, Positive
<1>5. MulDivRoundingUp(liquidity * Q96, high - low, high)
        = DivRoundingUp((liquidity * Q96) * (high - low), high)
  BY <1>2, RoundingUpIsCeil
<1>6. Up0(low, high, liquidity) = DivRoundingUp(DivRoundingUp(n, high), low)
  BY <1>4, <1>5 DEF Up0, GetAmount0Delta, Amount0Between, Numerator0
<1>7. Down0(low, high, liquidity) = (n \div high) \div low
  BY <1>4 DEF Down0, GetAmount0Delta, Amount0Between, Numerator0, MulDiv
<1> HIDE DEF n
<1>8. high * low \in Positive
  BY Product
<1>9. /\ Up0(low, high, liquidity) \in Int
      /\ CeilOf(Up0(low, high, liquidity), n, high * low)
      /\ Down0(low, high, liquidity) \in Int
      /\ FloorOf(Down0(low, high, liquidity), n, high * low)
  BY <1>3, <1>6, <1>7, CeilTwice, FloorTwice
<1>10. Up0(low, high, liquidity) \in Nat
  BY <1>3, <1>8, <1>9, CeilNat
<1>11. Down0(low, high, liquidity) \in Nat
  BY <1>3, <1>7, DivNat
<1> QED
  BY <1>3, <1>8, <1>9, <1>10, <1>11 DEF n

LEMMA Amount1 ==
    ASSUME NEW low \in Positive, NEW high \in Positive, low <= high, NEW liquidity \in Nat
    PROVE  /\ liquidity * (high - low) \in Nat
           /\ Up1(low, high, liquidity) \in Nat
           /\ CeilOf(Up1(low, high, liquidity), liquidity * (high - low), Q96)
           /\ Down1(low, high, liquidity) \in Nat
           /\ FloorOf(Down1(low, high, liquidity), liquidity * (high - low), Q96)
<1> DEFINE n == liquidity * (high - low)
<1>1. high - low \in Nat /\ Abs(high - low) = high - low
  BY DEF Positive, Abs
<1>2. n \in Nat
  BY <1>1, Factors
<1>3. Up1(low, high, liquidity) = DivRoundingUp(n, Q96)
  BY <1>1, RoundingUpIsCeil, MathWidths DEF Up1, GetAmount1Delta
<1>4. Down1(low, high, liquidity) = n \div Q96
  BY <1>1 DEF Down1, GetAmount1Delta, MulDiv
<1> HIDE DEF n
<1>5. /\ Up1(low, high, liquidity) \in Int
      /\ CeilOf(Up1(low, high, liquidity), n, Q96)
  BY <1>2, <1>3, Ceil, MathWidths
<1>6. /\ Down1(low, high, liquidity) \in Nat
      /\ FloorOf(Down1(low, high, liquidity), n, Q96)
  BY <1>2, <1>4, FloorBound, DivNat, MathWidths
<1>7. Up1(low, high, liquidity) \in Nat
  BY <1>2, <1>5, CeilNat, MathWidths
<1> QED
  BY <1>2, <1>5, <1>6, <1>7 DEF n

LEMMA Dust ==
    ASSUME NEW low \in Positive, NEW high \in Positive, low <= high, NEW liquidity \in Nat
    PROVE  /\ Down0(low, high, liquidity) <= Up0(low, high, liquidity)
           /\ Up0(low, high, liquidity) <= Down0(low, high, liquidity) + 1
           /\ Down1(low, high, liquidity) <= Up1(low, high, liquidity)
           /\ Up1(low, high, liquidity) <= Down1(low, high, liquidity) + 1
BY Amount0, Amount1, UpAndDown, MathWidths

\* What can be minted fits: liquidity for an amount needs no more than it.
LEMMA Fit0 ==
    ASSUME NEW low \in Positive, NEW high \in Positive, low < high, NEW amount \in Nat,
           NEW liquidity \in Nat
    PROVE  /\ GetLiquidityForAmount0(low, high, amount) \in Nat
           /\ liquidity <= GetLiquidityForAmount0(low, high, amount)
                => Up0(low, high, liquidity) <= amount
<1> DEFINE w == high - low
           i == (low * high) \div Q96
           m == (amount * i) \div w
<1>1. w \in Positive /\ Abs(high - low) = w
  BY DEF Positive, Abs
<1>2. low * high \in Positive /\ low * high \in Nat
  BY Product DEF Positive
<1>3. i \in Nat /\ Q96 * i <= low * high
  <2> DEFINE p == low * high
  <2>1. p \in Nat /\ p \in Int
    BY <1>2
  <2> HIDE DEF p
  <2>2. p \div Q96 \in Nat /\ Q96 * (p \div Q96) <= p
    BY <2>1, DivBound, DivNat, MathWidths
  <2> QED
    BY <2>2 DEF p
<1> HIDE DEF i
<1>4. amount * i \in Nat
  BY <1>3, Factors
<1>5. m \in Nat /\ w * m <= amount * i
  <2> DEFINE p == amount * i
  <2>1. p \in Nat /\ p \in Int
    BY <1>4
  <2> HIDE DEF p, w
  <2>2. p \div w \in Nat /\ w * (p \div w) <= p
    BY <2>1, <1>1, DivBound, DivNat
  <2> QED
    BY <2>2 DEF p
<1>6. GetLiquidityForAmount0(low, high, amount) = MinOf(m, Q128 - 1)
  BY <1>1 DEF GetLiquidityForAmount0, MulDiv, i
<1> HIDE DEF m, w
<1>7. Q128 - 1 \in Nat
  BY MathWidths DEF Positive
<1>8. GetLiquidityForAmount0(low, high, amount) \in Nat
      /\ GetLiquidityForAmount0(low, high, amount) <= m
  BY <1>5, <1>6, <1>7 DEF MinOf
<1>9. ASSUME liquidity <= m PROVE Up0(low, high, liquidity) <= amount
  <2>1. w * liquidity <= w * m
    BY <1>1, <1>5, <1>9, Scale
  <2>2. w * liquidity <= amount * i /\ w * liquidity \in Int /\ amount * i \in Int
    BY <1>1, <1>4, <1>5, <2>1 DEF Positive
  <2>3. Q96 * (w * liquidity) <= Q96 * (amount * i)
    BY <2>2, Scale, MathWidths
  <2>4. Q96 * (amount * i) = amount * (Q96 * i) /\ Q96 * i \in Int /\ low * high \in Int
    BY <1>2, <1>3, MathWidths DEF Positive
  <2>5. amount * (Q96 * i) <= amount * (low * high)
    <3>1. CASE amount = 0
      BY <2>4, <3>1
    <3>2. CASE amount # 0
      BY <1>3, <2>4, <3>2, Scale DEF Positive
    <3> QED
      BY <3>1, <3>2
  <2>6. Numerator0(low, high, liquidity) = Q96 * (w * liquidity)
    BY <1>1, MathWidths DEF Numerator0, Positive, w
  <2>7. amount * (low * high) = (high * low) * amount
    BY DEF Positive
  <2>8. Q96 * (w * liquidity) \in Int /\ Q96 * (amount * i) \in Int /\ amount * (low * high) \in Int
    BY <2>2, <2>4, MathWidths DEF Positive
  <2>9. Numerator0(low, high, liquidity) <= (high * low) * amount
    BY <2>3, <2>4, <2>5, <2>6, <2>7, <2>8
  <2>10. low <= high
    BY DEF Positive
  <2>11. CeilOf(Up0(low, high, liquidity), Numerator0(low, high, liquidity), high * low)
    BY <2>10, Amount0
  <2> QED
    BY <2>9, <2>11 DEF CeilOf
<1> QED
  BY <1>5, <1>8, <1>9

LEMMA Fit1 ==
    ASSUME NEW low \in Positive, NEW high \in Positive, low < high, NEW amount \in Nat,
           NEW liquidity \in Nat
    PROVE  /\ GetLiquidityForAmount1(low, high, amount) \in Nat
           /\ liquidity <= GetLiquidityForAmount1(low, high, amount)
                => Up1(low, high, liquidity) <= amount
<1> DEFINE w == high - low
           p == amount * Q96
           m == p \div w
<1>1. w \in Positive /\ Abs(high - low) = w
  BY DEF Positive, Abs
<1>2. p \in Nat /\ p \in Int
  BY MathWidths, Factors DEF Positive
<1>3. GetLiquidityForAmount1(low, high, amount) = MinOf(m, Q128 - 1)
  BY <1>1 DEF GetLiquidityForAmount1, MulDiv
<1> HIDE DEF p, w
<1>4. m \in Nat /\ w * m <= p
  BY <1>1, <1>2, DivBound, DivNat
<1> HIDE DEF m
<1>5. Q128 - 1 \in Nat
  BY MathWidths DEF Positive
<1>6. GetLiquidityForAmount1(low, high, amount) \in Nat
      /\ GetLiquidityForAmount1(low, high, amount) <= m
  BY <1>3, <1>4, <1>5 DEF MinOf
<1>7. ASSUME liquidity <= m PROVE Up1(low, high, liquidity) <= amount
  <2>1. w * liquidity <= w * m
    BY <1>1, <1>4, <1>7, Scale
  <2>2. w * liquidity <= p
    BY <1>1, <1>2, <1>4, <2>1 DEF Positive
  <2>3. w * liquidity = liquidity * (high - low) /\ p = Q96 * amount
    BY MathWidths DEF Positive, w, p
  <2>4. low <= high
    BY DEF Positive
  <2>5. CeilOf(Up1(low, high, liquidity), liquidity * (high - low), Q96)
    BY <2>4, Amount1
  <2> QED
    BY <2>2, <2>3, <2>5 DEF CeilOf
<1> QED
  BY <1>4, <1>6, <1>7

\* The amounts of a position, for a mint and for a burn.
MintAmounts(price, a, b, liquidity) == GetAmountsForLiquidity(price, a, b, liquidity, TRUE)
BurnAmounts(price, a, b, liquidity) == GetAmountsForLiquidity(price, a, b, liquidity, FALSE)

LEMMA AmountCases ==
    ASSUME NEW price \in Positive, NEW a \in Positive, NEW b \in Positive, a <= b,
           NEW liquidity \in Nat
    PROVE  /\ liquidity = 0 => /\ MintAmounts(price, a, b, liquidity) = <<0, 0>>
                               /\ BurnAmounts(price, a, b, liquidity) = <<0, 0>>
           /\ liquidity > 0 /\ price <= a =>
                /\ MintAmounts(price, a, b, liquidity) = <<Up0(a, b, liquidity), 0>>
                /\ BurnAmounts(price, a, b, liquidity) = <<Down0(a, b, liquidity), 0>>
           /\ liquidity > 0 /\ a < price /\ price < b =>
                /\ MintAmounts(price, a, b, liquidity)
                     = <<Up0(price, b, liquidity), Up1(a, price, liquidity)>>
                /\ BurnAmounts(price, a, b, liquidity)
                     = <<Down0(price, b, liquidity), Down1(a, price, liquidity)>>
           /\ liquidity > 0 /\ a < price /\ b <= price =>
                /\ MintAmounts(price, a, b, liquidity) = <<0, Up1(a, b, liquidity)>>
                /\ BurnAmounts(price, a, b, liquidity) = <<0, Down1(a, b, liquidity)>>
<1> USE DEF MintAmounts, BurnAmounts, GetAmountsForLiquidity, Up0, Up1, Down0, Down1
<1>1. ASSUME liquidity = 0
      PROVE  /\ MintAmounts(price, a, b, liquidity) = <<0, 0>>
             /\ BurnAmounts(price, a, b, liquidity) = <<0, 0>>
  <2>1. liquidity <= 0 /\ ~(liquidity > 0)
    BY <1>1
  <2> QED
    BY <2>1
<1>2. ASSUME liquidity > 0, price <= a
      PROVE  /\ MintAmounts(price, a, b, liquidity) = <<Up0(a, b, liquidity), 0>>
             /\ BurnAmounts(price, a, b, liquidity) = <<Down0(a, b, liquidity), 0>>
  <2>1. ~(liquidity <= 0) /\ ~(a < price)
    BY <1>2 DEF Positive
  <2> QED
    BY <1>2, <2>1
<1>3. ASSUME liquidity > 0, a < price, price < b
      PROVE  /\ MintAmounts(price, a, b, liquidity)
                  = <<Up0(price, b, liquidity), Up1(a, price, liquidity)>>
             /\ BurnAmounts(price, a, b, liquidity)
                  = <<Down0(price, b, liquidity), Down1(a, price, liquidity)>>
  <2>1. ~(liquidity <= 0) /\ ~(price <= a)
    BY <1>3 DEF Positive
  <2> QED
    BY <1>3, <2>1
<1>4. ASSUME liquidity > 0, a < price, b <= price
      PROVE  /\ MintAmounts(price, a, b, liquidity) = <<0, Up1(a, b, liquidity)>>
             /\ BurnAmounts(price, a, b, liquidity) = <<0, Down1(a, b, liquidity)>>
  <2>1. ~(liquidity <= 0) /\ ~(price <= a) /\ ~(price < b)
    BY <1>4 DEF Positive
  <2> QED
    BY <2>1
<1> QED
  BY <1>1, <1>2, <1>3, <1>4

LEMMA AmountsAreNatural ==
    ASSUME NEW price \in Positive, NEW a \in Positive, NEW b \in Positive, a <= b,
           NEW liquidity \in Nat
    PROVE  LET up == MintAmounts(price, a, b, liquidity)
               down == BurnAmounts(price, a, b, liquidity)
           IN  /\ up \in Nat \X Nat /\ down \in Nat \X Nat
               /\ down[1] <= up[1] /\ up[1] <= down[1] + 1
               /\ down[2] <= up[2] /\ up[2] <= down[2] + 1
               /\ a = b => up = <<0, 0>>
<1>1. CASE liquidity = 0
  BY <1>1, AmountCases
<1>2. CASE liquidity > 0 /\ price <= a
  <2>1. a = b => Up0(a, b, liquidity) = 0
    <3>1. SUFFICES ASSUME a = b PROVE Up0(a, b, liquidity) = 0
      OBVIOUS
    <3>2. Numerator0(a, b, liquidity) = 0
      BY <3>1, MathWidths DEF Numerator0, Positive
    <3>3. Up0(a, b, liquidity) \in Nat /\ CeilOf(Up0(a, b, liquidity), 0, b * a)
      BY <3>2, Amount0
    <3>4. 0 <= (b * a) * 0
      BY DEF Positive
    <3> QED
      BY <3>3, <3>4 DEF CeilOf
  <2>2. Up0(a, b, liquidity) \in Nat /\ Down0(a, b, liquidity) \in Nat
    BY Amount0
  <2>3. /\ Down0(a, b, liquidity) <= Up0(a, b, liquidity)
        /\ Up0(a, b, liquidity) <= Down0(a, b, liquidity) + 1
    BY Dust
  <2> QED
    BY <1>2, <2>1, <2>2, <2>3, AmountCases
<1>3. CASE liquidity > 0 /\ a < price /\ price < b
  <2>1. a <= price /\ price <= b /\ a # b
    BY <1>3 DEF Positive
  <2>2. Up0(price, b, liquidity) \in Nat /\ Down0(price, b, liquidity) \in Nat
    BY <2>1, Amount0
  <2>3. Up1(a, price, liquidity) \in Nat /\ Down1(a, price, liquidity) \in Nat
    BY <2>1, Amount1
  <2>4. /\ Down0(price, b, liquidity) <= Up0(price, b, liquidity)
        /\ Up0(price, b, liquidity) <= Down0(price, b, liquidity) + 1
    BY <2>1, Dust
  <2>5. /\ Down1(a, price, liquidity) <= Up1(a, price, liquidity)
        /\ Up1(a, price, liquidity) <= Down1(a, price, liquidity) + 1
    BY <2>1, Dust
  <2> QED
    BY <1>3, <2>1, <2>2, <2>3, <2>4, <2>5, AmountCases
<1>4. CASE liquidity > 0 /\ a < price /\ b <= price
  <2>1. a = b => Up1(a, b, liquidity) = 0
    <3>1. SUFFICES ASSUME a = b PROVE Up1(a, b, liquidity) = 0
      OBVIOUS
    <3>2. liquidity * (b - a) = 0
      BY <3>1 DEF Positive
    <3>3. Up1(a, b, liquidity) \in Nat /\ CeilOf(Up1(a, b, liquidity), 0, Q96)
      BY <3>2, Amount1
    <3>4. 0 <= Q96 * 0
      BY MathWidths DEF Positive
    <3> QED
      BY <3>3, <3>4 DEF CeilOf
  <2>2. Up1(a, b, liquidity) \in Nat /\ Down1(a, b, liquidity) \in Nat
    BY Amount1
  <2>3. /\ Down1(a, b, liquidity) <= Up1(a, b, liquidity)
        /\ Up1(a, b, liquidity) <= Down1(a, b, liquidity) + 1
    BY Dust
  <2> QED
    BY <1>4, <2>1, <2>2, <2>3, AmountCases
<1> QED
  BY <1>1, <1>2, <1>3, <1>4 DEF Positive

\* The first attempt to mint fits what is in hand.
LEMMA MostFits ==
    ASSUME NEW price \in Positive, NEW a \in Positive, NEW b \in Positive, a < b,
           NEW x \in Nat, NEW y \in Nat
    PROVE  LET most == GetLiquidityForAmounts(price, a, b, x, y)
               need == MintAmounts(price, a, b, most)
           IN  /\ most \in Nat /\ need \in Nat \X Nat
               /\ need[1] <= x /\ need[2] <= y
<1> DEFINE most == GetLiquidityForAmounts(price, a, b, x, y)
           need == MintAmounts(price, a, b, most)
<1>1. a <= b
  BY DEF Positive
<1>2. CASE price <= a
  <2>1. most = GetLiquidityForAmount0(a, b, x)
    <3>1. ~(a < price)
      BY <1>2 DEF Positive
    <3> QED
      BY <1>2, <3>1 DEF GetLiquidityForAmounts
  <2>2. most \in Nat
    BY <2>1, Fit0
  <2> HIDE DEF most
  <2>3. Up0(a, b, most) <= x
    BY <2>1, <2>2, Fit0
  <2>4. need \in Nat \X Nat /\ (need = <<0, 0>> \/ need = <<Up0(a, b, most), 0>>)
    BY <1>1, <1>2, <2>2, AmountsAreNatural, AmountCases
  <2> HIDE DEF need
  <2> QED
    BY <2>2, <2>3, <2>4 DEF most, need
<1>3. CASE a < price /\ price < b
  <2>1. most = MinOf(GetLiquidityForAmount0(price, b, x), GetLiquidityForAmount1(a, price, y))
    <3>1. ~(price <= a)
      BY <1>3 DEF Positive
    <3> QED
      BY <1>3, <3>1 DEF GetLiquidityForAmounts
  <2>2. GetLiquidityForAmount0(price, b, x) \in Nat /\ GetLiquidityForAmount1(a, price, y) \in Nat
    BY <1>3, Fit0, Fit1
  <2>3. /\ most \in Nat /\ most <= GetLiquidityForAmount0(price, b, x)
        /\ most <= GetLiquidityForAmount1(a, price, y)
    BY <2>1, <2>2 DEF MinOf
  <2> HIDE DEF most
  <2>4. Up0(price, b, most) <= x
    BY <1>3, <2>3, Fit0
  <2>5. Up1(a, price, most) <= y
    BY <1>3, <2>3, Fit1
  <2>6. need \in Nat \X Nat /\ (need = <<0, 0>> \/ need = <<Up0(price, b, most), Up1(a, price, most)>>)
    <3>1. need \in Nat \X Nat
      BY <1>1, <2>3, AmountsAreNatural
    <3>2. most = 0 \/ most > 0
      BY <2>3
    <3>3. need = <<0, 0>> \/ need = <<Up0(price, b, most), Up1(a, price, most)>>
      BY <1>1, <1>3, <2>3, <3>2, AmountCases
    <3> QED
      BY <3>1, <3>3
  <2> HIDE DEF need
  <2> QED
    BY <2>3, <2>4, <2>5, <2>6 DEF most, need
<1>4. CASE b <= price
  <2>1. a < price
    BY <1>4 DEF Positive
  <2>2. most = GetLiquidityForAmount1(a, b, y)
    <3>1. ~(price <= a) /\ ~(price < b)
      BY <1>4, <2>1 DEF Positive
    <3> QED
      BY <3>1 DEF GetLiquidityForAmounts
  <2>3. most \in Nat
    BY <2>2, Fit1
  <2> HIDE DEF most
  <2>4. Up1(a, b, most) <= y
    BY <2>2, <2>3, Fit1
  <2>5. need \in Nat \X Nat /\ (need = <<0, 0>> \/ need = <<0, Up1(a, b, most)>>)
    BY <1>1, <1>4, <2>1, <2>3, AmountsAreNatural, AmountCases
  <2> HIDE DEF need
  <2> QED
    BY <2>3, <2>4, <2>5 DEF most, need
<1> QED
  BY <1>2, <1>3, <1>4 DEF Positive

-----------------------------------------------------------------------------
(* Ticks and their prices *)

LEMMA LeastNatural ==
    ASSUME NEW S \in SUBSET Nat, S # {}
    PROVE  \E x \in S : \A y \in S : x <= y
<1>1. \E x \in S : \A y \in S : ~(<<y, x>> \in OpToRel(<, Nat))
  BY NatLessThanWellFounded, WFMin
<1>2. \A x, y \in S : ~(<<y, x>> \in OpToRel(<, Nat)) => x <= y
  BY DEF OpToRel
<1> QED
  BY <1>1, <1>2

LEMMA GreatestBelow ==
    ASSUME NEW n \in Int, NEW S \in SUBSET Int, S # {}, \A x \in S : x <= n
    PROVE  \E x \in S : \A y \in S : y <= x
<1> DEFINE T == {k \in Nat : n - k \in S}
<1>1. PICK x \in S : TRUE
  OBVIOUS
<1>2. n - x \in Nat /\ n - (n - x) = x
  BY <1>1
<1>3. T \in SUBSET Nat /\ T # {}
  BY <1>1, <1>2
<1> HIDE DEF T
<1>4. PICK k \in T : \A j \in T : k <= j
  BY <1>3, LeastNatural
<1>5. n - k \in S /\ k \in Nat
  BY <1>4 DEF T
<1>6. ASSUME NEW y \in S PROVE y <= n - k
  <2>1. n - y \in Nat /\ n - (n - y) = y
    BY <1>6
  <2>2. n - y \in T
    BY <1>6, <2>1 DEF T
  <2>3. k <= n - y
    BY <1>4, <2>2
  <2> QED
    BY <1>5, <1>6, <2>1, <2>3
<1> QED
  BY <1>5, <1>6

LEMMA LeastAbove ==
    ASSUME NEW n \in Int, NEW S \in SUBSET Int, S # {}, \A x \in S : n <= x
    PROVE  \E x \in S : \A y \in S : x <= y
<1> DEFINE T == {k \in Nat : n + k \in S}
<1>1. \A x \in S : x - n \in Nat /\ n + (x - n) = x /\ x \in Int
  OBVIOUS
<1>2. T \in SUBSET Nat /\ T # {} /\ \A x \in S : x - n \in T
  BY <1>1
<1>3. \A k \in T : k \in Nat /\ n + k \in S
  OBVIOUS
<1> HIDE DEF T
<1>4. PICK k \in T : \A j \in T : k <= j
  BY <1>2, LeastNatural
<1>5. ASSUME NEW y \in S PROVE n + k <= y
  <2>1. y \in Int /\ y - n \in T /\ k <= y - n /\ k \in Nat
    BY <1>1, <1>2, <1>3, <1>4
  <2> QED
    BY <2>1
<1> QED
  BY <1>3, <1>4, <1>5

LEMMA MaxBelow ==
    ASSUME NEW n \in Int, NEW S \in SUBSET Int, S # {}, \A x \in S : x <= n
    PROVE  Max(S) \in S /\ \A y \in S : y <= Max(S)
<1>1. \E x \in S : \A y \in S : x >= y
  <2>1. PICK x \in S : \A y \in S : y <= x
    BY GreatestBelow
  <2> QED
    BY <2>1
<1>2. Max(S) \in S /\ \A y \in S : Max(S) >= y
  BY <1>1 DEF Max
<1> QED
  BY <1>2

Ticks == MinTick..MaxTick

LEMMA TickFacts ==
    /\ MinTick \in Int /\ MaxTick \in Nat /\ MinTick \in Ticks /\ MaxTick \in Ticks /\ 0 \in Ticks
    /\ \A t \in Ticks : t \in Int /\ SqrtRatio[t] \in Positive
    /\ MinSqrtRatio \in Positive /\ MaxSqrtRatio \in Positive
<1>1. MinTick \in Int /\ MaxTick \in Nat /\ MinTick \in Ticks /\ MaxTick \in Ticks /\ 0 \in Ticks
  BY MathWidths DEF MinTick, Ticks
<1>2. \A t \in Ticks : t \in Int /\ SqrtRatio[t] \in Positive
  BY <1>1, RatiosArePrices DEF Ticks, Positive
<1> QED
  BY <1>1, <1>2 DEF MinSqrtRatio, MaxSqrtRatio

\* The ratios of any two ticks are in the order of the ticks.
LEMMA RatiosOrdered ==
    ASSUME NEW t \in Ticks, NEW u \in Ticks, t < u
    PROVE  SqrtRatio[t] < SqrtRatio[u]
<1> DEFINE T == {k \in Nat : t + k \in Ticks /\ k > 0 /\ ~(SqrtRatio[t] < SqrtRatio[t + k])}
<1>1. t \in Int /\ u \in Int /\ u - t \in Nat /\ t + (u - t) = u
  BY TickFacts
<1>2. SUFFICES ASSUME ~(SqrtRatio[t] < SqrtRatio[u]) PROVE FALSE
  OBVIOUS
<1>3. u - t \in T
  BY <1>1, <1>2
<1>4. PICK k \in T : \A j \in T : k <= j
  <2>1. T \in SUBSET Nat /\ T # {}
    BY <1>3
  <2> HIDE DEF T
  <2> QED
    BY <2>1, LeastNatural
<1>5. k \in Nat /\ t + k \in Ticks /\ k > 0 /\ ~(SqrtRatio[t] < SqrtRatio[t + k])
  BY <1>4
<1>6. t + (k - 1) \in MinTick..(MaxTick - 1) /\ k - 1 \in Nat /\ (t + (k - 1)) + 1 = t + k
  BY <1>1, <1>5, TickFacts DEF Ticks
<1>7. SqrtRatio[t + (k - 1)] < SqrtRatio[t + k]
  BY <1>6, RatiosGrow
<1>8. t + (k - 1) \in Ticks
  BY <1>6, TickFacts DEF Ticks
<1>9. CASE k - 1 = 0
  BY <1>1, <1>5, <1>7, <1>9
<1>10. CASE k - 1 > 0
  <2>1. k - 1 \notin T
    BY <1>4, <1>5
  <2>2. SqrtRatio[t] < SqrtRatio[t + (k - 1)]
    BY <1>6, <1>8, <1>10, <2>1
  <2> DEFINE p == SqrtRatio[t]
             q == SqrtRatio[t + (k - 1)]
             r == SqrtRatio[t + k]
  <2>3. p \in Int /\ q \in Int /\ r \in Int
    BY <1>5, <1>8, TickFacts DEF Positive
  <2>4. p < q /\ q < r /\ ~(p < r)
    BY <1>5, <1>7, <2>2
  <2> HIDE DEF p, q, r
  <2> QED
    BY <2>3, <2>4
<1> QED
  BY <1>6, <1>9, <1>10

LEMMA RatioBounds ==
    ASSUME NEW t \in Ticks
    PROVE  MinSqrtRatio <= SqrtRatio[t] /\ SqrtRatio[t] <= MaxSqrtRatio
<1>1. t \in Int /\ SqrtRatio[t] \in Int /\ MinSqrtRatio \in Int /\ MaxSqrtRatio \in Int
      /\ MinTick \in Int /\ MaxTick \in Int /\ MinTick <= t /\ t <= MaxTick
  BY TickFacts DEF Positive, Ticks
<1>2. t = MinTick \/ MinTick < t
  BY <1>1
<1>3. t = MaxTick \/ t < MaxTick
  BY <1>1
<1>4. MinSqrtRatio <= SqrtRatio[t]
  BY <1>1, <1>2, RatiosOrdered, TickFacts DEF MinSqrtRatio
<1>5. SqrtRatio[t] <= MaxSqrtRatio
  BY <1>1, <1>3, RatiosOrdered, TickFacts DEF MaxSqrtRatio
<1> QED
  BY <1>4, <1>5

\* A price in the pool's range has a tick.
LEMMA TickOfPrice ==
    ASSUME NEW s \in Int, MinSqrtRatio <= s
    PROVE  GetTickAtSqrtRatio(s) \in Ticks
<1> DEFINE S == {t \in Ticks : SqrtRatio[t] <= s}
<1>1. S \in SUBSET Int /\ S # {} /\ \A t \in S : t <= MaxTick
  BY TickFacts DEF MinSqrtRatio, Ticks
<1> HIDE DEF S
<1>2. PICK t \in S : \A y \in S : y <= t
  <2>1. MaxTick \in Int
    BY TickFacts
  <2> QED
    BY <1>1, <2>1, GreatestBelow
<1>3. t \in Ticks /\ SqrtRatio[t] <= s /\ t \in Int
  BY <1>1, <1>2 DEF S
<1>4. t = MaxTick \/ s < SqrtRatio[t + 1]
  <2>1. SUFFICES ASSUME t # MaxTick PROVE s < SqrtRatio[t + 1]
    OBVIOUS
  <2>2. t + 1 \in Ticks /\ t + 1 \in Int
    BY <1>3, <2>1, TickFacts DEF Ticks
  <2>3. t + 1 \notin S
    BY <1>2, <1>3, <2>2
  <2>4. ~(SqrtRatio[t + 1] <= s) /\ SqrtRatio[t + 1] \in Int
    BY <2>2, <2>3, TickFacts DEF S, Positive
  <2> QED
    BY <2>4
<1> QED
  BY <1>3, <1>4 DEF GetTickAtSqrtRatio, Ticks

-----------------------------------------------------------------------------
(* A step of a swap ends between the price it starts at and its target. *)

PriceIn0(c, liquidity, amount) == NextPriceFromAmount0(c, liquidity, amount, TRUE).price
PriceOut0(c, liquidity, amount) == NextPriceFromAmount0(c, liquidity, amount, FALSE).price
PriceIn1(c, liquidity, amount) == NextPriceFromAmount1(c, liquidity, amount, TRUE).price
PriceOut1(c, liquidity, amount) == NextPriceFromAmount1(c, liquidity, amount, FALSE).price

LEMMA PricedFields == \A p : Priced(p).price = p /\ Unpriced(p).price = p
BY DEF Priced, Unpriced

\* Token 0 in, the price falls.
LEMMA NextDown0 ==
    ASSUME NEW c \in Positive, NEW t \in Positive, t <= c, NEW liquidity \in Positive,
           NEW amount \in Nat, amount < Up0(t, c, liquidity)
    PROVE  PriceIn0(c, liquidity, amount) \in t..c
<1> DEFINE N == liquidity * Q96
           ac == amount * c
<1>1. N \in Positive /\ ac \in Nat /\ c \in Nat /\ t \in Nat /\ liquidity \in Nat
  BY Product, Factors, MathWidths DEF Positive
<1>2. (c * t) * amount < N * (c - t)
  <2>1. Numerator0(t, c, liquidity) \in Nat /\ Up0(t, c, liquidity) \in Nat
        /\ CeilOf(Up0(t, c, liquidity), Numerator0(t, c, liquidity), c * t)
    BY <1>1, Amount0
  <2>2. ~(Numerator0(t, c, liquidity) <= (c * t) * amount)
    BY <2>1 DEF CeilOf
  <2>3. (c * t) * amount \in Int /\ Numerator0(t, c, liquidity) = N * (c - t)
    BY DEF Positive, Numerator0
  <2> QED
    BY <2>1, <2>2, <2>3
<1> HIDE DEF N
<1>3. (N + ac) * t < N * c
  <2>1. N * (c - t) = N * c - N * t /\ (c * t) * amount = ac * t /\ (N + ac) * t = N * t + ac * t
    BY <1>1 DEF Positive
  <2>2. N * c \in Int /\ N * t \in Int /\ ac * t \in Int
    BY <1>1 DEF Positive
  <2> QED
    BY <1>2, <2>1, <2>2
<1>4. CASE amount = 0
  <2>1. PriceIn0(c, liquidity, amount) = c
    BY <1>4, PricedFields DEF PriceIn0, NextPriceFromAmount0, Price0
  <2> QED
    BY <1>1, <2>1
<1>5. CASE amount # 0
  <2> DEFINE q == N \div c
             d == q + amount
             first == DivRoundingUp(N, d)
             second == MulDivRoundingUp(N, c, N + ac)
  <2>1. PriceIn0(c, liquidity, amount) \in {first, second}
    BY <1>5, PricedFields DEF PriceIn0, NextPriceFromAmount0, Price0, N
  <2>2. N + ac \in Positive /\ N + ac \in Int /\ N \in Int /\ ac \in Int
    BY <1>1 DEF Positive
  <2> HIDE DEF ac
  <2>3. second \in t..c
    <3>1. second = DivRoundingUp(N * c, N + ac) /\ N * c \in Int
      BY <1>1, <2>2, RoundingUpIsCeil
    <3>2. second \in Int /\ CeilOf(second, N * c, N + ac)
      BY <2>2, <3>1, Ceil
    <3>3. N * c <= (N + ac) * c
      BY <1>1, <2>2 DEF Positive
    <3>4. (N + ac) * (t - 1) = (N + ac) * t - (N + ac) /\ (N + ac) * t \in Int
      BY <1>1, <2>2
    <3>5. ~(N * c <= (N + ac) * (t - 1))
      BY <1>3, <2>2, <3>1, <3>4 DEF Positive
    <3> HIDE DEF second
    <3>6. second <= c /\ ~(second <= t - 1) /\ t - 1 \in Int
      BY <1>1, <3>2, <3>3, <3>5 DEF CeilOf
    <3> QED
      BY <1>1, <3>2, <3>6
  <2>4. first \in t..c
    <3>1. q \in Nat /\ c * q <= N /\ N < c * q + c
      BY <1>1, <2>2, DivBound, DivNat DEF Positive
    <3> HIDE DEF q
    <3>2. d \in Positive /\ d \in Int
      BY <1>5, <3>1 DEF Positive
    <3>3. d * c = c * q + amount * c /\ c * q \in Int
      BY <1>1, <3>1
    <3>4. d * c <= N + ac /\ N <= d * c
      <4>1. amount * c >= c
        BY <1>1, <1>5
      <4>2. amount * c = ac
        BY DEF ac
      <4> HIDE DEF d
      <4> QED
        BY <1>1, <2>2, <3>1, <3>3, <4>1, <4>2
    <3> HIDE DEF d
    <3>5. first \in Int /\ CeilOf(first, N, d)
      BY <2>2, <3>2, Ceil
    <3>6. d * t < N
      <4>1. (d * c) * t <= (N + ac) * t
        BY <1>1, <2>2, <3>2, <3>4
      <4>2. (d * c) * t = c * (d * t) /\ N * c = c * N /\ d * t \in Int /\ c * (d * t) \in Int
            /\ (N + ac) * t \in Int /\ N * c \in Int
        BY <1>1, <2>2, <3>2
      <4>3. c * (d * t) < c * N
        BY <1>3, <4>1, <4>2
      <4> QED
        BY <2>2, <4>2, <4>3, ScaleStrict
    <3>7. ~(N <= d * (t - 1))
      <4>1. d * (t - 1) = d * t - d /\ d * t \in Int
        BY <1>1, <3>2
      <4> QED
        BY <2>2, <3>2, <3>6, <4>1 DEF Positive
    <3> HIDE DEF first
    <3>8. first <= c /\ ~(first <= t - 1) /\ t - 1 \in Int
      BY <1>1, <3>4, <3>5, <3>7 DEF CeilOf
    <3> QED
      BY <1>1, <3>5, <3>8
  <2> QED
    BY <2>1, <2>3, <2>4
<1> QED
  BY <1>4, <1>5

\* Token 0 out, the price rises.
LEMMA NextUp0 ==
    ASSUME NEW c \in Positive, NEW t \in Positive, c <= t, NEW liquidity \in Positive,
           NEW amount \in Nat, amount < Down0(c, t, liquidity)
    PROVE  PriceOut0(c, liquidity, amount) \in c..t
<1> DEFINE N == liquidity * Q96
           ac == amount * c
<1>1. N \in Positive /\ ac \in Nat /\ c \in Nat /\ t \in Nat /\ liquidity \in Nat
  BY Product, Factors, MathWidths DEF Positive
<1>2. (t * c) * amount <= N * (t - c)
  <2>1. Numerator0(c, t, liquidity) \in Nat /\ Down0(c, t, liquidity) \in Nat
        /\ FloorOf(Down0(c, t, liquidity), Numerator0(c, t, liquidity), t * c)
    BY <1>1, Amount0
  <2>2. (t * c) * amount <= Numerator0(c, t, liquidity)
    BY <2>1 DEF FloorOf
  <2> QED
    BY <2>2 DEF Numerator0
<1>3. PriceOut0(c, liquidity, amount)
        \in {c, IF N <= ac THEN c ELSE MulDivRoundingUp(N, c, N - ac)}
  <2>1. CASE amount = 0
    BY <2>1, PricedFields DEF PriceOut0, NextPriceFromAmount0, Price0
  <2>2. CASE amount # 0
    <3>1. PriceOut0(c, liquidity, amount)
            = (IF ac >= U256 \/ N <= ac THEN Unpriced(c)
               ELSE Priced(MulDivRoundingUp(N, c, N - ac))).price
      BY <2>2 DEF PriceOut0, NextPriceFromAmount0, Price0
    <3>2. CASE N <= ac
      BY <3>1, <3>2, PricedFields
    <3>3. CASE ~(N <= ac)
      BY <3>1, <3>3, PricedFields
    <3> QED
      BY <3>2, <3>3
  <2> QED
    BY <2>1, <2>2
<1> HIDE DEF N
<1>4. CASE N <= ac
  BY <1>1, <1>3, <1>4
<1>5. CASE ~(N <= ac)
  <2> DEFINE d == N - ac
             next == MulDivRoundingUp(N, c, d)
  <2>1. d \in Positive /\ d \in Int /\ N \in Int
    BY <1>1, <1>5 DEF Positive
  <2>2. N * c <= d * t
    <3>1. N * (t - c) = N * t - N * c /\ (t * c) * amount = ac * t /\ d * t = N * t - ac * t
      BY <1>1, <2>1
    <3>2. N * c \in Int /\ N * t \in Int /\ ac * t \in Int
      BY <1>1, <2>1
    <3> QED
      BY <1>2, <3>1, <3>2
  <2>3. d * c <= N * c /\ d * c \in Int /\ N * c \in Int
    BY <1>1, <2>1
  <2>4. d * (c - 1) = d * c - d
    BY <1>1, <2>1
  <2> HIDE DEF d
  <2>5. next = DivRoundingUp(N * c, d)
    BY <1>1, <2>1, RoundingUpIsCeil
  <2>6. next \in Int /\ CeilOf(next, N * c, d)
    BY <2>1, <2>3, <2>5, Ceil
  <2> HIDE DEF next
  <2>7. ~(N * c <= d * (c - 1))
    BY <2>1, <2>3, <2>4 DEF Positive
  <2>8. next <= t /\ ~(next <= c - 1) /\ c - 1 \in Int
    BY <1>1, <2>2, <2>6, <2>7 DEF CeilOf
  <2>9. next \in c..t
    BY <1>1, <2>6, <2>8
  <2> QED
    BY <1>1, <1>3, <1>5, <2>9 DEF next, d
<1> QED
  BY <1>4, <1>5

\* Token 1 in, the price rises; token 1 out, it falls.
LEMMA NextUp1 ==
    ASSUME NEW c \in Positive, NEW t \in Positive, c <= t, NEW liquidity \in Positive,
           NEW amount \in Nat, amount < Up1(c, t, liquidity)
    PROVE  PriceIn1(c, liquidity, amount) \in c..t
<1> DEFINE p == amount * Q96
           q == p \div liquidity
           w == t - c
<1>1. p \in Nat /\ c \in Nat /\ t \in Nat /\ liquidity \in Nat /\ w \in Nat
  BY Factors, MathWidths DEF Positive
<1>2. p < liquidity * w
  <2>1. Up1(c, t, liquidity) \in Nat /\ CeilOf(Up1(c, t, liquidity), liquidity * (t - c), Q96)
    BY <1>1, Amount1
  <2>2. ~(liquidity * (t - c) <= Q96 * amount)
    BY <2>1 DEF CeilOf
  <2>3. Q96 * amount = p /\ liquidity * (t - c) \in Int
    BY <1>1, MathWidths DEF Positive
  <2> QED
    BY <1>1, <2>2, <2>3
<1> HIDE DEF p, w
<1>3. q \in Nat /\ liquidity * q <= p
  BY <1>1, DivBound, DivNat
<1>4. PriceIn1(c, liquidity, amount) \in {c, c + q}
  BY PricedFields DEF PriceIn1, NextPriceFromAmount1, Price1, p
<1> HIDE DEF q
<1>5. liquidity * q < liquidity * w
  BY <1>1, <1>2, <1>3
<1>6. q < w
  BY <1>1, <1>3, <1>5, ScaleStrict
<1>7. c + q \in c..t
  BY <1>1, <1>3, <1>6 DEF w
<1> QED
  BY <1>1, <1>4, <1>7

LEMMA NextDown1 ==
    ASSUME NEW c \in Positive, NEW t \in Positive, t <= c, NEW liquidity \in Positive,
           NEW amount \in Nat, amount < Down1(t, c, liquidity)
    PROVE  PriceOut1(c, liquidity, amount) \in t..c
<1> DEFINE p == amount * Q96
           r == DivRoundingUp(p, liquidity)
           w == c - t
<1>1. p \in Nat /\ c \in Nat /\ t \in Nat /\ liquidity \in Nat /\ w \in Nat
  BY Factors, MathWidths DEF Positive
<1>2. p <= liquidity * w
  <2>1. Down1(t, c, liquidity) \in Nat /\ FloorOf(Down1(t, c, liquidity), liquidity * (c - t), Q96)
    BY <1>1, Amount1
  <2>2. Q96 * amount <= liquidity * (c - t)
    BY <2>1 DEF FloorOf
  <2>3. Q96 * amount = p
    BY MathWidths DEF Positive
  <2> QED
    BY <2>2, <2>3
<1> HIDE DEF p, w
<1>3. r \in Int /\ CeilOf(r, p, liquidity)
  <2>1. p \in Int
    BY <1>1
  <2> QED
    BY <2>1, Ceil
<1>4. PriceOut1(c, liquidity, amount) \in {c, c - r}
  BY PricedFields DEF PriceOut1, NextPriceFromAmount1, Price1, p
<1> HIDE DEF r
<1>5. r \in Nat
  BY <1>1, <1>3, CeilNat
<1>6. r <= w
  BY <1>1, <1>2, <1>3 DEF CeilOf
<1>7. c - r \in t..c
  BY <1>1, <1>5, <1>6 DEF w
<1> QED
  BY <1>1, <1>4, <1>7

SqrtPrices == MinSqrtRatio..MaxSqrtRatio

LEMMA SqrtPriceFacts == \A s \in SqrtPrices : s \in Positive /\ s \in Int
BY TickFacts DEF SqrtPrices, Positive

\* Between two prices, whichever is the lower one.
Between(p, c, t) == p \in Int /\ MinOf(c, t) <= p /\ p <= MaxOf(c, t)

PriceOfStep(zeroForOne, c, t, liquidity, remaining, lessFee) ==
    StepPrice(zeroForOne, c, t, liquidity, remaining, lessFee).price

\* The amounts of a step by its direction.
StepIn(c, t, liquidity) == IF c >= t THEN Up0(t, c, liquidity) ELSE Up1(c, t, liquidity)
StepOut(c, t, liquidity) == IF c >= t THEN Down1(t, c, liquidity) ELSE Down0(c, t, liquidity)
NextIn(c, t, liquidity, amount) ==
    IF c >= t THEN PriceIn0(c, liquidity, amount) ELSE PriceIn1(c, liquidity, amount)
NextOut(c, t, liquidity, amount) ==
    IF c >= t THEN PriceOut1(c, liquidity, amount) ELSE PriceOut0(c, liquidity, amount)

LEMMA StepPriceCases ==
    ASSUME NEW c \in Positive, NEW t \in Positive, NEW liquidity \in Nat, NEW remaining \in Int,
           NEW lessFee \in Int
    PROVE  PriceOfStep(c >= t, c, t, liquidity, remaining, lessFee) =
             IF remaining >= 0
             THEN IF lessFee >= StepIn(c, t, liquidity) THEN t
                  ELSE IF liquidity <= 0 THEN c ELSE NextIn(c, t, liquidity, lessFee)
             ELSE IF -remaining >= StepOut(c, t, liquidity) THEN t
                  ELSE IF liquidity <= 0 THEN c ELSE NextOut(c, t, liquidity, -remaining)
<1>1. ~(c <= 0)
  BY DEF Positive
<1>2. CASE c >= t
  BY <1>1, <1>2, PricedFields
     DEF PriceOfStep, StepPrice, AmountIn, AmountOut, StepIn, StepOut, NextIn, NextOut, Up0, Down1,
         PriceIn0, PriceOut1, GetNextSqrtPriceFromInput, GetNextSqrtPriceFromOutput
<1>3. CASE ~(c >= t)
  BY <1>1, <1>3, PricedFields
     DEF PriceOfStep, StepPrice, AmountIn, AmountOut, StepIn, StepOut, NextIn, NextOut, Up1, Down0,
         PriceIn1, PriceOut0, GetNextSqrtPriceFromInput, GetNextSqrtPriceFromOutput
<1> QED
  BY <1>2, <1>3

LEMMA StepPriceBetween ==
    ASSUME NEW c \in Positive, NEW t \in Positive, NEW liquidity \in Nat, NEW remaining \in Int,
           NEW lessFee \in Int, remaining >= 0 => lessFee >= 0
    PROVE  Between(PriceOfStep(c >= t, c, t, liquidity, remaining, lessFee), c, t)
<1>1. Between(c, c, t) /\ Between(t, c, t) /\ c \in Int /\ t \in Int
  BY DEF Between, MinOf, MaxOf, Positive
<1>2. ASSUME NEW amount \in Nat, liquidity \in Positive, amount < StepIn(c, t, liquidity)
      PROVE  Between(NextIn(c, t, liquidity, amount), c, t)
  <2>1. CASE c >= t
    <3>1. t <= c /\ amount < Up0(t, c, liquidity)
      BY <1>1, <1>2, <2>1 DEF StepIn
    <3>2. PriceIn0(c, liquidity, amount) \in t..c
      BY <1>2, <3>1, NextDown0
    <3> QED
      BY <1>1, <2>1, <3>1, <3>2 DEF NextIn, Between, MinOf, MaxOf
  <2>2. CASE ~(c >= t)
    <3>1. c <= t /\ amount < Up1(c, t, liquidity)
      BY <1>1, <1>2, <2>2 DEF StepIn
    <3>2. PriceIn1(c, liquidity, amount) \in c..t
      BY <1>2, <3>1, NextUp1
    <3> QED
      BY <1>1, <2>2, <3>1, <3>2 DEF NextIn, Between, MinOf, MaxOf
  <2> QED
    BY <2>1, <2>2
<1>3. ASSUME NEW amount \in Nat, liquidity \in Positive, amount < StepOut(c, t, liquidity)
      PROVE  Between(NextOut(c, t, liquidity, amount), c, t)
  <2>1. CASE c >= t
    <3>1. t <= c /\ amount < Down1(t, c, liquidity)
      BY <1>1, <1>3, <2>1 DEF StepOut
    <3>2. PriceOut1(c, liquidity, amount) \in t..c
      BY <1>3, <3>1, NextDown1
    <3> QED
      BY <1>1, <2>1, <3>1, <3>2 DEF NextOut, Between, MinOf, MaxOf
  <2>2. CASE ~(c >= t)
    <3>1. c <= t /\ amount < Down0(c, t, liquidity)
      BY <1>1, <1>3, <2>2 DEF StepOut
    <3>2. PriceOut0(c, liquidity, amount) \in c..t
      BY <1>3, <3>1, NextUp0
    <3> QED
      BY <1>1, <2>2, <3>1, <3>2 DEF NextOut, Between, MinOf, MaxOf
  <2> QED
    BY <2>1, <2>2
<1>4. StepIn(c, t, liquidity) \in Nat /\ StepOut(c, t, liquidity) \in Nat
  <2>1. CASE c >= t
    <3>1. t <= c
      BY <1>1, <2>1
    <3> QED
      BY <2>1, <3>1, Amount0, Amount1 DEF StepIn, StepOut
  <2>2. CASE ~(c >= t)
    <3>1. c <= t
      BY <1>1, <2>2
    <3> QED
      BY <2>2, <3>1, Amount0, Amount1 DEF StepIn, StepOut
  <2> QED
    BY <2>1, <2>2
<1>5. liquidity <= 0 \/ liquidity \in Positive
  BY DEF Positive
<1> DEFINE p == PriceOfStep(c >= t, c, t, liquidity, remaining, lessFee)
           in == StepIn(c, t, liquidity)
           out == StepOut(c, t, liquidity)
<1>6. p = IF remaining >= 0
          THEN IF lessFee >= in THEN t
               ELSE IF liquidity <= 0 THEN c ELSE NextIn(c, t, liquidity, lessFee)
          ELSE IF -remaining >= out THEN t
               ELSE IF liquidity <= 0 THEN c ELSE NextOut(c, t, liquidity, -remaining)
  BY StepPriceCases
<1>7. in \in Nat /\ out \in Nat
  BY <1>4
<1>8. ASSUME remaining >= 0, ~(lessFee >= in), ~(liquidity <= 0)
      PROVE  Between(NextIn(c, t, liquidity, lessFee), c, t)
  <2>1. lessFee \in Nat /\ lessFee < in
    BY <1>7, <1>8
  <2> QED
    BY <1>2, <1>5, <1>8, <2>1
<1>9. ASSUME ~(remaining >= 0), ~(-remaining >= out), ~(liquidity <= 0)
      PROVE  Between(NextOut(c, t, liquidity, -remaining), c, t)
  <2>1. -remaining \in Nat /\ -remaining < out
    BY <1>7, <1>9
  <2> QED
    BY <1>3, <1>5, <1>9, <2>1
<1> HIDE DEF p, in, out
<1>10. Between(p, c, t)
  BY <1>1, <1>6, <1>8, <1>9
<1> QED
  BY <1>10 DEF p

-----------------------------------------------------------------------------
(* The swap loop *)

LessFee(remaining, feePips) == MulDiv(remaining, FeeDen - feePips, FeeDen)

LEMMA StepFields ==
    ASSUME NEW c, NEW t, NEW liquidity, NEW remaining, NEW feePips
    PROVE  LET step == ComputeSwapStep(c, t, liquidity, remaining, feePips)
               p == PriceOfStep(c >= t, c, t, liquidity, remaining, LessFee(remaining, feePips))
               in == IF c >= t THEN Up0(p, c, liquidity) ELSE Up1(c, p, liquidity)
               out == IF c >= t THEN Down1(p, c, liquidity) ELSE Down0(c, p, liquidity)
           IN  /\ step.price = p /\ step.in = in
               /\ step.out = IF remaining >= 0 THEN out ELSE MinOf(out, -remaining)
               /\ step.fee = IF remaining >= 0 /\ p # t THEN remaining - in
                             ELSE MulDivRoundingUp(in, feePips, FeeDen - feePips)
<1>1. CASE c >= t
  BY <1>1 DEF ComputeSwapStep, StepTo, PriceOfStep, LessFee, AmountIn, AmountOut, Up0, Down1
<1>2. CASE ~(c >= t)
  BY <1>2 DEF ComputeSwapStep, StepTo, PriceOfStep, LessFee, AmountIn, AmountOut, Up1, Down0
<1> QED
  BY <1>1, <1>2

FeeOK(feePips) == feePips \in Nat /\ FeeDen \in Positive /\ FeeDen - feePips \in Positive

StepOK(step, c, t) ==
    /\ Between(step.price, c, t)
    /\ step.in \in Nat /\ step.out \in Nat /\ step.fee \in Int

\* A step of a swap stays between its ends, and takes and gives natural amounts.
LEMMA SwapStep ==
    ASSUME NEW c \in Positive, NEW t \in Positive, NEW liquidity \in Nat, NEW remaining \in Int,
           NEW feePips, FeeOK(feePips)
    PROVE  StepOK(ComputeSwapStep(c, t, liquidity, remaining, feePips), c, t)
<1> DEFINE step == ComputeSwapStep(c, t, liquidity, remaining, feePips)
           p == PriceOfStep(c >= t, c, t, liquidity, remaining, LessFee(remaining, feePips))
           in == IF c >= t THEN Up0(p, c, liquidity) ELSE Up1(c, p, liquidity)
           out == IF c >= t THEN Down1(p, c, liquidity) ELSE Down0(c, p, liquidity)
<1>1. /\ step.price = p /\ step.in = in
      /\ step.out = IF remaining >= 0 THEN out ELSE MinOf(out, -remaining)
      /\ step.fee = IF remaining >= 0 /\ p # t THEN remaining - in
                    ELSE MulDivRoundingUp(in, feePips, FeeDen - feePips)
  BY StepFields
<1>2. LessFee(remaining, feePips) \in Int /\ (remaining >= 0 => LessFee(remaining, feePips) >= 0)
  <2> DEFINE n == remaining * (FeeDen - feePips)
  <2>1. n \in Int /\ (remaining >= 0 => n \in Nat)
    BY Factors DEF FeeOK, Positive
  <2>2. LessFee(remaining, feePips) = n \div FeeDen
    BY DEF LessFee, MulDiv
  <2> HIDE DEF n
  <2> QED
    BY <2>1, <2>2, DivBound, DivNat DEF FeeOK
<1>3. Between(p, c, t)
  BY <1>2, StepPriceBetween
<1>4. c \in Int /\ t \in Int /\ c > 0 /\ t > 0
  BY DEF Positive
<1> HIDE DEF step, p
<1>5. p \in Positive /\ (c >= t => p <= c) /\ (~(c >= t) => c <= p)
  BY <1>3, <1>4 DEF Between, MinOf, MaxOf, Positive
<1>6. in \in Nat /\ out \in Nat
  BY <1>5, Amount0, Amount1
<1> HIDE DEF in, out
<1>7. MulDivRoundingUp(in, feePips, FeeDen - feePips) \in Int
  <2>1. in * feePips \in Int /\ in \in Int /\ feePips \in Int
    BY <1>6 DEF FeeOK
  <2> QED
    BY <2>1, RoundingUpIsCeil, Ceil DEF FeeOK
<1>8. step.fee \in Int /\ step.out \in Nat /\ step.in \in Nat
  BY <1>1, <1>6, <1>7 DEF MinOf
<1> QED
  BY <1>1, <1>3, <1>8 DEF StepOK, step

\* A window of ticks with their net liquidity.
WindowOK(w) ==
    /\ w.spacing \in Positive /\ w.minWord \in Int /\ w.maxWord \in Int
    /\ w.ticks \in SUBSET Int /\ DOMAIN w.infos \in SUBSET Int
    /\ \A t \in DOMAIN w.infos : w.infos[t] \in Int

SwapState ==
    [price : SqrtPrices, tick : Int, liquidity : Nat, remaining : Int, in : Int, out : Nat,
     fee : Int, crossed : Nat, reason : {"none", "raised", "window_exhausted", "price_limit"}]

LEMMA NextTickType ==
    ASSUME NEW window, WindowOK(window), NEW tick \in Int, NEW lte \in BOOLEAN
    PROVE  NextInitializedTickWithinOneWord(window, tick, lte).tick \in Int
<1> DEFINE from == IF lte THEN Compress(tick, window.spacing) ELSE Compress(tick, window.spacing) + 1
           word == WordOf(from)
           found == {d \in word * WordBits .. (word + 1) * WordBits - 1 :
                       /\ d * window.spacing \in window.ticks
                       /\ IF lte THEN d <= from ELSE d >= from}
           best == CHOOSE x \in found : \A y \in found : IF lte THEN y <= x ELSE x <= y
<1>1. from \in Int
  <2>1. tick \div window.spacing \in Int
    BY DivBound DEF WindowOK
  <2> QED
    BY <2>1 DEF Compress
<1> HIDE DEF from
<1>2. word \in Int
  BY <1>1, DivBound, MathWidths DEF WordOf
<1> HIDE DEF word
<1>3. word * WordBits \in Int /\ (word + 1) * WordBits - 1 \in Int
  BY <1>2, MathWidths DEF Positive
<1>4. /\ found \in SUBSET Int
      /\ \A x \in found : word * WordBits <= x /\ x <= (word + 1) * WordBits - 1
  BY <1>3
<1>5. NextInitializedTickWithinOneWord(window, tick, lte).tick
        = window.spacing *
            (IF found = {} THEN IF lte THEN word * WordBits ELSE (word + 1) * WordBits - 1
             ELSE best)
  BY DEF NextInitializedTickWithinOneWord, NextInWord, from, word
<1> HIDE DEF found
<1>6. found # {} => best \in Int
  <2>1. SUFFICES ASSUME found # {}
                 PROVE  \E x \in found : \A y \in found : IF lte THEN y <= x ELSE x <= y
    BY <1>4
  <2>2. CASE lte
    <3>1. PICK x \in found : \A y \in found : y <= x
      BY <1>3, <1>4, <2>1, GreatestBelow
    <3> QED
      BY <2>2, <3>1
  <2>3. CASE ~lte
    <3>1. PICK x \in found : \A y \in found : x <= y
      BY <1>3, <1>4, <2>1, LeastAbove
    <3> QED
      BY <2>3, <3>1
  <2> QED
    BY <2>2, <2>3
<1> HIDE DEF best
<1>7. (IF found = {} THEN IF lte THEN word * WordBits ELSE (word + 1) * WordBits - 1 ELSE best) \in Int
  BY <1>3, <1>6
<1>8. window.spacing \in Int
  BY DEF WindowOK, Positive
<1> QED
  BY <1>5, <1>7, <1>8

LEMMA SteppedOK ==
    ASSUME NEW st \in SwapState, NEW step, NEW t \in SqrtPrices, StepOK(step, st.price, t),
           NEW tickNext \in Ticks, NEW ratioNext, NEW zeroForOne \in BOOLEAN, NEW exactIn \in BOOLEAN
    PROVE  Stepped(st, step, tickNext, ratioNext, zeroForOne, exactIn) \in SwapState
<1>1. step.price \in SqrtPrices /\ step.price \in Int /\ MinSqrtRatio <= step.price
  BY TickFacts DEF StepOK, Between, MinOf, MaxOf, SqrtPrices, SwapState, Positive
<1>2. GetTickAtSqrtRatio(step.price) \in Int /\ tickNext \in Int
  BY <1>1, TickOfPrice, TickFacts
<1> DEFINE remaining == IF exactIn THEN st.remaining - (step.in + step.fee) ELSE st.remaining + step.out
           in == st.in + step.in + step.fee
           tick == IF step.price = ratioNext THEN IF zeroForOne THEN tickNext - 1 ELSE tickNext
                   ELSE IF step.price # st.price THEN GetTickAtSqrtRatio(step.price)
                   ELSE st.tick
<1>3. Stepped(st, step, tickNext, ratioNext, zeroForOne, exactIn)
        = [st EXCEPT !.price = step.price, !.remaining = remaining, !.in = in,
                     !.out = st.out + step.out, !.fee = st.fee + step.fee, !.tick = tick]
  BY DEF Stepped
<1>4. st.remaining \in Int /\ st.in \in Int /\ st.out \in Nat /\ st.fee \in Int /\ st.tick \in Int
      /\ step.in \in Nat /\ step.out \in Nat /\ step.fee \in Int
  BY DEF SwapState, StepOK
<1>5. remaining \in Int /\ in \in Int /\ tick \in Int /\ st.out + step.out \in Nat
      /\ st.fee + step.fee \in Int
  BY <1>2, <1>4
<1> HIDE DEF remaining, in, tick
<1> QED
  BY <1>1, <1>3, <1>5 DEF SwapState

LEMMA CrossTickOK ==
    ASSUME NEW moved \in SwapState, NEW window, WindowOK(window), NEW tickNext,
           NEW zeroForOne \in BOOLEAN
    PROVE  CrossTick(moved, window, tickNext, zeroForOne) \in SwapState
<1>1. ASSUME NEW net \in Int PROVE Crossed(moved, net) \in SwapState
  <2>1. moved.liquidity \in Nat /\ moved.crossed \in Nat
    BY DEF SwapState
  <2>2. CASE moved.liquidity + net < 0
    BY <2>2 DEF Crossed, SwapState
  <2>3. CASE ~(moved.liquidity + net < 0)
    <3>1. moved.liquidity + net \in Nat /\ moved.crossed + 1 \in Nat
      BY <2>1, <2>3
    <3>2. Crossed(moved, net) = [moved EXCEPT !.liquidity = moved.liquidity + net,
                                              !.crossed = moved.crossed + 1]
      BY <2>3 DEF Crossed
    <3> QED
      BY <3>1, <3>2 DEF SwapState
  <2> QED
    BY <2>2, <2>3
<1>2. CASE tickNext \notin DOMAIN window.infos
  BY <1>2 DEF CrossTick, SwapState
<1>3. CASE tickNext \in DOMAIN window.infos
  <2> DEFINE net == IF zeroForOne THEN -window.infos[tickNext] ELSE window.infos[tickNext]
  <2>1. net \in Int
    BY <1>3 DEF WindowOK
  <2>2. CrossTick(moved, window, tickNext, zeroForOne) = Crossed(moved, net)
    BY <1>3 DEF CrossTick
  <2> HIDE DEF net
  <2> QED
    BY <1>1, <2>1, <2>2
<1> QED
  BY <1>2, <1>3

LEMMA SwapIterationOK ==
    ASSUME NEW st \in SwapState, NEW window, WindowOK(window), NEW zeroForOne \in BOOLEAN,
           NEW limit \in SqrtPrices, NEW feePips, FeeOK(feePips), NEW exactIn \in BOOLEAN
    PROVE  SwapIteration(st, window, zeroForOne, limit, feePips, exactIn) \in SwapState
<1> DEFINE next == NextInitializedTickWithinOneWord(window, st.tick, zeroForOne)
           tickNext == MaxOf(MinTick, MinOf(MaxTick, next.tick))
           ratioNext == SqrtRatio[tickNext]
           target == IF zeroForOne THEN MaxOf(ratioNext, limit) ELSE MinOf(ratioNext, limit)
           step == ComputeSwapStep(st.price, target, st.liquidity, st.remaining, feePips)
           moved == Stepped(st, step, tickNext, ratioNext, zeroForOne, exactIn)
<1>1. st.tick \in Int /\ st.price \in SqrtPrices /\ st.liquidity \in Nat /\ st.remaining \in Int
  BY DEF SwapState
<1>2. next.tick \in Int
  BY <1>1, NextTickType
<1> HIDE DEF next
<1>3. tickNext \in Ticks
  BY <1>2, TickFacts DEF MaxOf, MinOf, Ticks
<1> HIDE DEF tickNext
<1>4. ratioNext \in SqrtPrices
  <2>1. SqrtRatio[tickNext] \in Int /\ MinSqrtRatio \in Int /\ MaxSqrtRatio \in Int
    BY <1>3, TickFacts DEF Positive
  <2> QED
    BY <1>3, <2>1, RatioBounds DEF SqrtPrices
<1> HIDE DEF ratioNext
<1>5. target \in SqrtPrices
  BY <1>4 DEF MaxOf, MinOf
<1> HIDE DEF target
<1>6. StepOK(step, st.price, target)
  BY <1>1, <1>5, SwapStep, SqrtPriceFacts
<1> HIDE DEF step
<1>7. moved \in SwapState
  BY <1>3, <1>5, <1>6, SteppedOK
<1> HIDE DEF moved
<1>8. CrossTick(moved, window, tickNext, zeroForOne) \in SwapState
  BY <1>7, CrossTickOK
<1>9. [st EXCEPT !.reason = "raised"] \in SwapState
      /\ [st EXCEPT !.reason = "window_exhausted"] \in SwapState
  BY DEF SwapState
<1>10. SwapIteration(st, window, zeroForOne, limit, feePips, exactIn)
         \in {st, [st EXCEPT !.reason = "raised"], [st EXCEPT !.reason = "window_exhausted"], moved,
              CrossTick(moved, window, tickNext, zeroForOne)}
  BY DEF SwapIteration, SwapFrom, SwapToward, next, tickNext, ratioNext, target, step, moved
<1> QED
  BY <1>7, <1>8, <1>9, <1>10

\* The loop is a sequence of iterations.
LEMMA SwapLoopUnfolds ==
    ASSUME NEW start, NEW window, NEW zeroForOne, NEW limit, NEW feePips, NEW exactIn
    PROVE  \E f : /\ f[0] = start
                  /\ \A n \in 1..MaxIterations :
                       f[n] = SwapIteration(f[n - 1], window, zeroForOne, limit, feePips, exactIn)
                  /\ SwapLoop(start, window, zeroForOne, limit, feePips, exactIn)
                       = f[MaxIterations]
<1> DEFINE Run(st) == SwapIteration(st, window, zeroForOne, limit, feePips, exactIn)
           Is(f, m) == f = [n \in 0..m |-> IF n = 0 THEN start ELSE Run(f[n - 1])]
           T == {m \in Nat : ~\E f : Is(f, m)}
           f == CHOOSE g : Is(g, MaxIterations)
<1>1. MaxIterations \in Nat
  BY MathConstants
<1>2. SwapLoop(start, window, zeroForOne, limit, feePips, exactIn) = f[MaxIterations]
  BY DEF SwapLoop
<1>3. \A st : SwapIteration(st, window, zeroForOne, limit, feePips, exactIn) = Run(st)
  OBVIOUS
<1> HIDE DEF Run
<1>4. T = {}
  <2>1. SUFFICES ASSUME T # {} PROVE FALSE
    OBVIOUS
  <2>2. PICK m \in T : \A j \in T : m <= j
    <3>1. T \in SUBSET Nat
      OBVIOUS
    <3> HIDE DEF T
    <3> QED
      BY <2>1, <3>1, LeastNatural
  <2>3. m \in Nat /\ ~\E g : Is(g, m)
    BY <2>2
  <2>4. CASE m = 0
    <3>1. Is([n \in 0..0 |-> start], 0)
      OBVIOUS
    <3> QED
      BY <2>3, <2>4, <3>1
  <2>5. CASE m # 0
    <3>1. m - 1 \in Nat /\ m - 1 \notin T
      BY <2>2, <2>3, <2>5
    <3>2. PICK g : Is(g, m - 1)
      BY <3>1
    <3> DEFINE h == [n \in 0..m |-> IF n = m THEN Run(g[m - 1]) ELSE g[n]]
    <3>3. ASSUME NEW n \in 0..m PROVE h[n] = IF n = 0 THEN start ELSE Run(h[n - 1])
      BY <2>3, <2>5, <3>1, <3>2
    <3>4. Is(h, m)
      BY <3>3
    <3> QED
      BY <2>3, <3>4
  <2> QED
    BY <2>4, <2>5
<1>5. Is(f, MaxIterations)
  <2>1. \E g : Is(g, MaxIterations)
    BY <1>1, <1>4
  <2> QED
    BY <2>1
<1> HIDE DEF f
<1>6. f[0] = start /\ \A n \in 1..MaxIterations : f[n] = Run(f[n - 1])
  BY <1>1, <1>5
<1> QED
  BY <1>2, <1>3, <1>6

LEMMA SwapLoopOK ==
    ASSUME NEW start \in SwapState, NEW window, WindowOK(window), NEW zeroForOne \in BOOLEAN,
           NEW limit \in SqrtPrices, NEW feePips, FeeOK(feePips), NEW exactIn \in BOOLEAN
    PROVE  SwapLoop(start, window, zeroForOne, limit, feePips, exactIn) \in SwapState
<1> DEFINE Run(st) == SwapIteration(st, window, zeroForOne, limit, feePips, exactIn)
<1>1. MaxIterations \in Nat
  BY MathConstants
<1>2. PICK f : /\ f[0] = start /\ \A n \in 1..MaxIterations : f[n] = Run(f[n - 1])
               /\ SwapLoop(start, window, zeroForOne, limit, feePips, exactIn) = f[MaxIterations]
  BY SwapLoopUnfolds
<1>3. ASSUME NEW st \in SwapState PROVE Run(st) \in SwapState
  BY SwapIterationOK
<1> HIDE DEF Run
<1> DEFINE U == {n \in Nat : n <= MaxIterations /\ f[n] \notin SwapState}
<1>4. U = {}
  <2>1. SUFFICES ASSUME U # {} PROVE FALSE
    OBVIOUS
  <2>2. PICK n \in U : \A j \in U : n <= j
    <3>1. U \in SUBSET Nat
      OBVIOUS
    <3> HIDE DEF U
    <3> QED
      BY <2>1, <3>1, LeastNatural
  <2>3. n \in Nat /\ n <= MaxIterations /\ f[n] \notin SwapState
    BY <2>2
  <2>4. n # 0
    BY <1>2, <2>3
  <2>5. n - 1 \in Nat /\ n - 1 <= MaxIterations /\ n \in 1..MaxIterations /\ n - 1 \notin U
    BY <1>1, <2>2, <2>3, <2>4
  <2>6. f[n - 1] \in SwapState
    BY <2>5
  <2> QED
    BY <1>2, <1>3, <2>3, <2>5, <2>6
<1> QED
  BY <1>1, <1>2, <1>4

\* What a swap starts from and where it may not go.
SwapStart(state, amount) ==
    [price |-> state.price, tick |-> state.tick, liquidity |-> state.liquidity,
     remaining |-> amount, in |-> 0, out |-> 0, fee |-> 0, crossed |-> 0, reason |-> "none"]

BadLimit(state, zeroForOne) ==
    LET limit == SwapLimit(zeroForOne)
    IN  IF zeroForOne THEN ~(MinSqrtRatio < limit /\ limit < state.price)
                      ELSE ~(state.price < limit /\ limit < MaxSqrtRatio)

SwapEnd(end) ==
    IF end.reason = "none" /\ end.remaining # 0 THEN [end EXCEPT !.reason = "price_limit"] ELSE end

LEMMA SimulateCases ==
    ASSUME NEW state, NEW window, NEW zeroForOne, NEW amount
    PROVE  SimulateExactInput(state, window, zeroForOne, amount)
             = IF BadLimit(state, zeroForOne)
               THEN [SwapStart(state, amount) EXCEPT !.reason = "raised"]
               ELSE SwapEnd(SwapLoop(SwapStart(state, amount), window, zeroForOne,
                                     SwapLimit(zeroForOne), state.fee, amount > 0))
BY DEF SimulateExactInput, Simulate, SwapStart, BadLimit, SwapEnd

\* A state of the pool in which a swap can be simulated.
StateOK(state) ==
    /\ state.price \in SqrtPrices /\ state.tick \in Int /\ state.liquidity \in Nat
    /\ FeeOK(state.fee)

LEMMA SwapStartOK ==
    ASSUME NEW state, StateOK(state), NEW amount \in Int, NEW zeroForOne \in BOOLEAN
    PROVE  /\ SwapStart(state, amount) \in SwapState
           /\ ~BadLimit(state, zeroForOne) => SwapLimit(zeroForOne) \in SqrtPrices
<1>1. SwapStart(state, amount) \in SwapState
  BY DEF SwapStart, SwapState, StateOK
<1>2. SwapLimit(zeroForOne) \in Int
  BY TickFacts DEF SwapLimit, Positive
<1>3. ~BadLimit(state, zeroForOne) => SwapLimit(zeroForOne) \in SqrtPrices
  BY <1>2, SqrtPriceFacts, TickFacts DEF SqrtPrices, Positive, BadLimit, StateOK
<1> QED
  BY <1>1, <1>3

\* A swap simulated on a good snapshot and window ends at a price and a tick, with a
\* natural amount out.
LEMMA SwapResult ==
    ASSUME NEW state, StateOK(state), NEW window, WindowOK(window), NEW zeroForOne \in BOOLEAN,
           NEW amount \in Int
    PROVE  SimulateExactInput(state, window, zeroForOne, amount) \in SwapState
<1> DEFINE start == SwapStart(state, amount)
           limit == SwapLimit(zeroForOne)
           exactIn == amount > 0
           feePips == state.fee
           end == SwapLoop(start, window, zeroForOne, limit, feePips, exactIn)
<1>1. SimulateExactInput(state, window, zeroForOne, amount)
        = IF BadLimit(state, zeroForOne) THEN [start EXCEPT !.reason = "raised"] ELSE SwapEnd(end)
  BY SimulateCases
<1>2. start \in SwapState /\ (~BadLimit(state, zeroForOne) => limit \in SqrtPrices)
  BY SwapStartOK
<1>3. FeeOK(feePips) /\ exactIn \in BOOLEAN
  BY DEF StateOK
<1> HIDE DEF start, limit, feePips, exactIn
<1>4. CASE BadLimit(state, zeroForOne)
  <2>1. [start EXCEPT !.reason = "raised"] \in SwapState
    BY <1>2 DEF SwapState
  <2> QED
    BY <1>1, <1>4, <2>1
<1>5. CASE ~BadLimit(state, zeroForOne)
  <2>1. end \in SwapState
    BY <1>2, <1>3, <1>5, SwapLoopOK
  <2> HIDE DEF end
  <2>2. SwapEnd(end) \in SwapState
    BY <2>1 DEF SwapEnd, SwapState
  <2> QED
    BY <1>1, <1>5, <2>2
<1> QED
  BY <1>4, <1>5

LEMMA SwapOutIsNatural ==
    ASSUME NEW state, state.price \in SqrtPrices, state.tick \in Int, state.liquidity \in Nat,
           FeeOK(state.fee), NEW window, WindowOK(window), NEW zeroForOne \in BOOLEAN,
           NEW amount \in Int
    PROVE  SimulateExactInput(state, window, zeroForOne, amount).out \in Nat
<1>1. StateOK(state)
  BY DEF StateOK
<1>2. SimulateExactInput(state, window, zeroForOne, amount) \in SwapState
  BY <1>1, SwapResult
<1> QED
  BY <1>2 DEF SwapState

-----------------------------------------------------------------------------
(* A swap that stays inside a window ends as it would over a wider one *)

\* `big' holds what `small' does, and they agree on the words of `small'.
Within(small, big) ==
    /\ big.spacing = small.spacing
    /\ big.minWord <= small.minWord /\ small.maxWord <= big.maxWord
    /\ \A c \in Int : small.minWord <= WordOf(c) /\ WordOf(c) <= small.maxWord =>
                        (c * small.spacing \in small.ticks <=> c * small.spacing \in big.ticks)
    /\ \A t \in DOMAIN small.infos : t \in DOMAIN big.infos /\ big.infos[t] = small.infos[t]

InWindow(next) == ~next.outside

LEMMA WordIs ==
    ASSUME NEW word \in Int, NEW c \in word * WordBits .. (word + 1) * WordBits - 1
    PROVE  c \in Int /\ WordOf(c) = word
<1>0. WordBits \in Positive /\ WordBits \in Int
  BY MathWidths DEF Positive
<1>1. word * WordBits \in Int /\ (word + 1) * WordBits - 1 \in Int
      /\ word * WordBits = WordBits * word /\ (word + 1) * WordBits = WordBits * (word + 1)
      /\ WordBits * word \in Int /\ WordBits * (word + 1) \in Int
  BY <1>0
<1>2. c \in Int /\ WordBits * word <= c /\ c < WordBits * (word + 1)
  BY <1>1
<1>3. word <= c \div WordBits /\ ~(word + 1 <= c \div WordBits)
  BY <1>0, <1>1, <1>2, DivLargest
<1>4. c \div WordBits \in Int
  BY <1>0, <1>2, DivBound
<1> QED
  BY <1>2, <1>3, <1>4 DEF WordOf

\* The next tick is the same in both.
LEMMA NextAgrees ==
    ASSUME NEW small, NEW big, WindowOK(small), WindowOK(big), Within(small, big),
           NEW tick \in Int, NEW lte \in BOOLEAN,
           InWindow(NextInitializedTickWithinOneWord(small, tick, lte))
    PROVE  LET n == NextInitializedTickWithinOneWord(small, tick, lte)
               m == NextInitializedTickWithinOneWord(big, tick, lte)
           IN  InWindow(m) /\ m.tick = n.tick /\ (m.initialized <=> n.initialized)
<1> DEFINE from == IF lte THEN Compress(tick, small.spacing) ELSE Compress(tick, small.spacing) + 1
           word == WordOf(from)
           Found(w) == {c \in word * WordBits .. (word + 1) * WordBits - 1 :
                          /\ c * small.spacing \in w.ticks
                          /\ IF lte THEN c <= from ELSE c >= from}
           Result(w) == NextInWord(w, from, word, lte)
<1>1. from \in Int
  <2>1. tick \div small.spacing \in Int
    BY DivBound DEF WindowOK
  <2> QED
    BY <2>1 DEF Compress
<1>2. /\ NextInitializedTickWithinOneWord(small, tick, lte) = Result(small)
      /\ NextInitializedTickWithinOneWord(big, tick, lte) = Result(big)
  BY DEF NextInitializedTickWithinOneWord, Within
<1> HIDE DEF from
<1>3. word \in Int
  BY <1>1, DivBound, MathWidths DEF WordOf
<1> HIDE DEF word
<1>4. small.minWord <= word /\ word <= small.maxWord
  <2>1. InWindow(Result(small)) <=> ~(word < small.minWord \/ word > small.maxWord)
    BY DEF NextInWord, InWindow
  <2> QED
    BY <1>2, <1>3, <2>1 DEF WindowOK
<1>5. Found(big) = Found(small)
  <2>1. ASSUME NEW c \in word * WordBits .. (word + 1) * WordBits - 1
        PROVE  c * small.spacing \in small.ticks <=> c * small.spacing \in big.ticks
    <3>1. c \in Int /\ WordOf(c) = word
      BY <1>3, WordIs
    <3> QED
      BY <1>4, <3>1 DEF Within
  <2> QED
    BY <2>1
<1>6. ASSUME NEW w, w.spacing = small.spacing
      PROVE  /\ Result(w).tick = small.spacing *
                  (IF Found(w) = {} THEN IF lte THEN word * WordBits ELSE (word + 1) * WordBits - 1
                   ELSE CHOOSE c \in Found(w) : \A d \in Found(w) : IF lte THEN d <= c ELSE c <= d)
             /\ Result(w).initialized <=> Found(w) # {}
             /\ InWindow(Result(w)) <=> ~(word < w.minWord \/ word > w.maxWord)
  <2>1. InWindow(Result(w)) <=> ~(word < w.minWord \/ word > w.maxWord)
    BY DEF NextInWord, InWindow
  <2>2. Result(w).initialized <=> Found(w) # {}
    BY <1>6 DEF NextInWord
  <2>3. Result(w).tick = small.spacing *
          (IF Found(w) = {} THEN IF lte THEN word * WordBits ELSE (word + 1) * WordBits - 1
           ELSE CHOOSE c \in Found(w) : \A d \in Found(w) : IF lte THEN d <= c ELSE c <= d)
    BY <1>6 DEF NextInWord
  <2> QED
    BY <2>1, <2>2, <2>3
<1> HIDE DEF Found, Result
<1>7. Result(big).tick = Result(small).tick /\ (Result(big).initialized <=> Result(small).initialized)
  BY <1>5, <1>6 DEF Within
<1>8. InWindow(Result(big))
  <2>1. ~(word < big.minWord \/ word > big.maxWord)
    BY <1>3, <1>4 DEF Within, WindowOK
  <2> QED
    BY <1>6, <2>1 DEF Within
<1> QED
  BY <1>2, <1>7, <1>8

\* A step of the loop, when the tick ahead is in the window.
LEMMA TowardAgrees ==
    ASSUME NEW small, NEW big, Within(small, big), NEW st, NEW n, NEW m,
           m.initialized <=> n.initialized, NEW tickNext \in Ticks, NEW ratioNext \in SqrtPrices,
           NEW zeroForOne \in BOOLEAN, NEW limit \in SqrtPrices, NEW feePips, FeeOK(feePips),
           NEW exactIn \in BOOLEAN, st \in SwapState,
           SwapToward(st, n, tickNext, ratioNext, small, zeroForOne, limit, feePips, exactIn).reason
             = "none"
    PROVE  SwapToward(st, m, tickNext, ratioNext, big, zeroForOne, limit, feePips, exactIn)
             = SwapToward(st, n, tickNext, ratioNext, small, zeroForOne, limit, feePips, exactIn)
<1> DEFINE target == IF zeroForOne THEN MaxOf(ratioNext, limit) ELSE MinOf(ratioNext, limit)
           step == ComputeSwapStep(st.price, target, st.liquidity, st.remaining, feePips)
           moved == Stepped(st, step, tickNext, ratioNext, zeroForOne, exactIn)
           Crosses(next) == moved.price = ratioNext /\ next.initialized
           Toward(next, window) ==
             SwapToward(st, next, tickNext, ratioNext, window, zeroForOne, limit, feePips, exactIn)
<1>1. target \in SqrtPrices /\ st.price \in SqrtPrices /\ st.liquidity \in Nat /\ st.remaining \in Int
  BY DEF MaxOf, MinOf, SwapState
<1>2. \A next, window : Toward(next, window) =
        IF step.error THEN [st EXCEPT !.reason = "raised"]
        ELSE IF Crosses(next) THEN CrossTick(moved, window, tickNext, zeroForOne) ELSE moved
  BY DEF SwapToward
<1> HIDE DEF target
<1>3. StepOK(step, st.price, target)
  BY <1>1, SwapStep, SqrtPriceFacts
<1> HIDE DEF step
<1>4. moved \in SwapState
  BY <1>1, <1>3, SteppedOK
<1> HIDE DEF moved
<1>5. Crosses(m) <=> Crosses(n)
  OBVIOUS
<1>6. Toward(n, small).reason = "none"
  OBVIOUS
<1> HIDE DEF Toward, Crosses
<1>7. CASE ~step.error /\ Crosses(n)
  <2>1. Toward(n, small) = CrossTick(moved, small, tickNext, zeroForOne)
        /\ Toward(m, big) = CrossTick(moved, big, tickNext, zeroForOne)
    BY <1>2, <1>5, <1>7
  <2>2. tickNext \in DOMAIN small.infos
    <3>1. SUFFICES ASSUME tickNext \notin DOMAIN small.infos PROVE FALSE
      OBVIOUS
    <3>2. Toward(n, small) = [moved EXCEPT !.reason = "window_exhausted"]
      BY <2>1, <3>1 DEF CrossTick
    <3>3. [moved EXCEPT !.reason = "window_exhausted"].reason = "window_exhausted"
      BY <1>4 DEF SwapState
    <3> QED
      BY <1>6, <3>2, <3>3
  <2>3. tickNext \in DOMAIN big.infos /\ big.infos[tickNext] = small.infos[tickNext]
    BY <2>2 DEF Within
  <2>4. CrossTick(moved, small, tickNext, zeroForOne) = CrossTick(moved, big, tickNext, zeroForOne)
    BY <2>2, <2>3 DEF CrossTick
  <2> QED
    BY <2>1, <2>4 DEF Toward
<1>8. CASE step.error \/ ~Crosses(n)
  <2>1. Toward(n, small) = Toward(m, big)
    BY <1>2, <1>5, <1>8
  <2> QED
    BY <2>1 DEF Toward
<1> QED
  BY <1>7, <1>8

LEMMA IterationAgrees ==
    ASSUME NEW small, NEW big, WindowOK(small), WindowOK(big), Within(small, big),
           NEW st \in SwapState, NEW zeroForOne \in BOOLEAN, NEW limit \in SqrtPrices,
           NEW feePips, FeeOK(feePips), NEW exactIn \in BOOLEAN,
           SwapIteration(st, small, zeroForOne, limit, feePips, exactIn).reason = "none"
    PROVE  /\ st.reason = "none"
           /\ SwapIteration(st, big, zeroForOne, limit, feePips, exactIn)
                = SwapIteration(st, small, zeroForOne, limit, feePips, exactIn)
<1> DEFINE n == NextInitializedTickWithinOneWord(small, st.tick, zeroForOne)
           m == NextInitializedTickWithinOneWord(big, st.tick, zeroForOne)
           tickNext == MaxOf(MinTick, MinOf(MaxTick, n.tick))
           ratioNext == SqrtRatio[tickNext]
           Toward(next, window) ==
             SwapToward(st, next, tickNext, ratioNext, window, zeroForOne, limit, feePips, exactIn)
           Iterate(window) == SwapIteration(st, window, zeroForOne, limit, feePips, exactIn)
<1>0. Iterate(small).reason = "none"
  OBVIOUS
<1>1. CASE st.remaining = 0 \/ st.price = limit \/ st.reason # "none"
  <2>1. Iterate(small) = st /\ Iterate(big) = st
    BY <1>1 DEF SwapIteration
  <2> QED
    BY <1>0, <2>1
<1>2. CASE ~(st.remaining = 0 \/ st.price = limit \/ st.reason # "none")
  <2>1. /\ Iterate(small) = SwapFrom(st, n, small, zeroForOne, limit, feePips, exactIn)
        /\ Iterate(big) = SwapFrom(st, m, big, zeroForOne, limit, feePips, exactIn)
    BY <1>2 DEF SwapIteration
  <2>2. st.tick \in Int
    BY DEF SwapState
  <2>3. InWindow(n)
    <3>1. SUFFICES ASSUME ~InWindow(n) PROVE FALSE
      OBVIOUS
    <3> HIDE DEF n
    <3>2. Iterate(small) = [st EXCEPT !.reason = "window_exhausted"]
      BY <2>1, <3>1 DEF SwapFrom, InWindow
    <3>3. [st EXCEPT !.reason = "window_exhausted"].reason = "window_exhausted"
      BY DEF SwapState
    <3> HIDE DEF Iterate
    <3> QED
      BY <1>0, <3>2, <3>3
  <2>4. InWindow(m) /\ m.tick = n.tick /\ (m.initialized <=> n.initialized)
    BY <2>2, <2>3, NextAgrees
  <2>5. n.tick \in Int
    BY <2>2, NextTickType
  <2> HIDE DEF n, m
  <2>6. tickNext \in Ticks
    BY <2>5, TickFacts DEF MaxOf, MinOf, Ticks
  <2>7. Iterate(small) = Toward(n, small) /\ Iterate(big) = Toward(m, big)
    BY <2>1, <2>3, <2>4 DEF SwapFrom, InWindow
  <2> HIDE DEF tickNext, Iterate
  <2>8. ratioNext \in SqrtPrices
    <3>1. SqrtRatio[tickNext] \in Int /\ MinSqrtRatio \in Int /\ MaxSqrtRatio \in Int
      BY <2>6, TickFacts DEF Positive
    <3> QED
      BY <2>6, <3>1, RatioBounds DEF SqrtPrices
  <2> HIDE DEF ratioNext
  <2>9. Toward(m, big) = Toward(n, small)
    BY <1>0, <2>4, <2>6, <2>7, <2>8, TowardAgrees
  <2> QED
    BY <1>2, <2>7, <2>9 DEF Iterate
<1> QED
  BY <1>1, <1>2

LEMMA LoopAgrees ==
    ASSUME NEW small, NEW big, WindowOK(small), WindowOK(big), Within(small, big),
           NEW start \in SwapState, NEW zeroForOne \in BOOLEAN, NEW limit \in SqrtPrices,
           NEW feePips, FeeOK(feePips), NEW exactIn \in BOOLEAN,
           SwapLoop(start, small, zeroForOne, limit, feePips, exactIn).reason = "none"
    PROVE  SwapLoop(start, big, zeroForOne, limit, feePips, exactIn)
             = SwapLoop(start, small, zeroForOne, limit, feePips, exactIn)
<1> DEFINE Run(st, window) == SwapIteration(st, window, zeroForOne, limit, feePips, exactIn)
<1>1. MaxIterations \in Nat
  BY MathConstants
<1>2. PICK f : /\ f[0] = start /\ \A n \in 1..MaxIterations : f[n] = Run(f[n - 1], small)
               /\ SwapLoop(start, small, zeroForOne, limit, feePips, exactIn) = f[MaxIterations]
  BY SwapLoopUnfolds
<1>3. PICK g : /\ g[0] = start /\ \A n \in 1..MaxIterations : g[n] = Run(g[n - 1], big)
               /\ SwapLoop(start, big, zeroForOne, limit, feePips, exactIn) = g[MaxIterations]
  BY SwapLoopUnfolds
<1>4. ASSUME NEW st \in SwapState
      PROVE  /\ Run(st, small) \in SwapState
             /\ Run(st, small).reason = "none" => st.reason = "none" /\ Run(st, big) = Run(st, small)
  BY SwapIterationOK, IterationAgrees
<1> HIDE DEF Run
<1> DEFINE U == {n \in Nat : n <= MaxIterations
                             /\ ~(f[n] \in SwapState /\ (f[n].reason = "none" => g[n] = f[n]))}
<1>5. U = {}
  <2>1. SUFFICES ASSUME U # {} PROVE FALSE
    OBVIOUS
  <2>2. PICK n \in U : \A j \in U : n <= j
    <3>1. U \in SUBSET Nat
      OBVIOUS
    <3> HIDE DEF U
    <3> QED
      BY <2>1, <3>1, LeastNatural
  <2>3. n \in Nat /\ n <= MaxIterations
        /\ ~(f[n] \in SwapState /\ (f[n].reason = "none" => g[n] = f[n]))
    BY <2>2
  <2>4. n # 0
    BY <1>2, <1>3, <2>3
  <2>5. n - 1 \in Nat /\ n - 1 <= MaxIterations /\ n \in 1..MaxIterations /\ n - 1 \notin U
    BY <1>1, <2>2, <2>3, <2>4
  <2>6. f[n - 1] \in SwapState /\ (f[n - 1].reason = "none" => g[n - 1] = f[n - 1])
    BY <2>5
  <2>7. f[n] = Run(f[n - 1], small) /\ g[n] = Run(g[n - 1], big)
    BY <1>2, <1>3, <2>5
  <2> QED
    BY <1>4, <2>3, <2>6, <2>7
<1>6. f[MaxIterations].reason = "none" => g[MaxIterations] = f[MaxIterations]
  BY <1>1, <1>5
<1> QED
  BY <1>2, <1>3, <1>6

\* A swap simulated inside a window ends as over a wider one.
LEMMA SimulateAgrees ==
    ASSUME NEW state, StateOK(state), NEW small, NEW big, WindowOK(small), WindowOK(big),
           Within(small, big), NEW zeroForOne \in BOOLEAN, NEW amount \in Int,
           SimulateExactInput(state, small, zeroForOne, amount).reason = "none"
    PROVE  SimulateExactInput(state, big, zeroForOne, amount)
             = SimulateExactInput(state, small, zeroForOne, amount)
<1> DEFINE start == SwapStart(state, amount)
           limit == SwapLimit(zeroForOne)
           exactIn == amount > 0
           feePips == state.fee
           End(window) == SwapLoop(start, window, zeroForOne, limit, feePips, exactIn)
           Result(window) == SimulateExactInput(state, window, zeroForOne, amount)
<1>1. \A window : Result(window) = IF BadLimit(state, zeroForOne)
                                   THEN [start EXCEPT !.reason = "raised"]
                                   ELSE SwapEnd(End(window))
  BY SimulateCases
<1>2. start \in SwapState /\ (~BadLimit(state, zeroForOne) => limit \in SqrtPrices)
  BY SwapStartOK
<1>3. FeeOK(feePips) /\ exactIn \in BOOLEAN
  BY DEF StateOK
<1>4. Result(small).reason = "none"
  OBVIOUS
<1> HIDE DEF start, limit, feePips, exactIn, Result
<1>5. CASE BadLimit(state, zeroForOne)
  BY <1>1, <1>5 DEF Result
<1>6. CASE ~BadLimit(state, zeroForOne)
  <2>1. End(small) \in SwapState
    BY <1>2, <1>3, <1>6, SwapLoopOK
  <2>2. Result(small) = SwapEnd(End(small)) /\ Result(big) = SwapEnd(End(big))
    BY <1>1, <1>6
  <2>3. End(small).reason = "none"
    <3> DEFINE end == End(small)
    <3>1. end \in SwapState /\ SwapEnd(end).reason = "none"
      BY <1>4, <2>1, <2>2
    <3> HIDE DEF end
    <3>2. end.reason = "none"
      BY <3>1 DEF SwapEnd, SwapState
    <3> QED
      BY <3>2 DEF end
  <2>4. End(big) = End(small)
    BY <1>2, <1>3, <1>6, <2>3, LoopAgrees
  <2> QED
    BY <2>2, <2>4 DEF Result
<1> QED
  BY <1>5, <1>6

-----------------------------------------------------------------------------
(* Sums over a set, as the pool's liquidity is *)

LEMMA SumType ==
    ASSUME NEW S, IsFiniteSet(S), NEW v, \A x \in S : v[x] \in Int
    PROVE  /\ SumFunctionOnSet(v, S) \in Int
           /\ (\A x \in S : v[x] >= 0) => SumFunctionOnSet(v, S) >= 0
<1> DEFINE One(s) == CHOOSE x \in s : TRUE
           Small(m) == {s \in SUBSET S : Cardinality(s) <= m}
           Body(g, s) == IF s = {} THEN 0 ELSE v[One(s)] + g[s \ {One(s)}]
           T == {m \in Nat : ~\E g : g = [s \in Small(m) |-> Body(g, s)]}
           sum == CHOOSE g : g = [s \in SUBSET S |-> Body(g, s)]
           U == {m \in Nat : \E s \in SUBSET S : Cardinality(s) = m /\ sum[s] \notin Int}
           W == {m \in Nat : \E s \in SUBSET S : Cardinality(s) = m /\ ~(sum[s] >= 0)}
<1>1. ASSUME NEW s \in SUBSET S
      PROVE  /\ Cardinality(s) \in Nat /\ Cardinality(s) <= Cardinality(S)
             /\ s # {} => /\ One(s) \in s /\ s \ {One(s)} \in SUBSET S
                          /\ Cardinality(s \ {One(s)}) = Cardinality(s) - 1
             /\ Cardinality(s) = 0 => s = {}
  <2>1. IsFiniteSet(s) /\ Cardinality(s) <= Cardinality(S)
    BY FS_Subset
  <2>2. s # {} => One(s) \in s
    OBVIOUS
  <2> HIDE DEF One
  <2>3. s # {} => Cardinality(s \ {One(s)}) = Cardinality(s) - 1
    BY <2>1, <2>2, FS_RemoveElement
  <2> QED
    BY <2>1, <2>2, <2>3, FS_CardinalityType, FS_EmptySet
<1>2. SumFunctionOnSet(v, S) = sum[S]
  BY DEF SumFunctionOnSet, FoldFunctionOnSet, MapThenFoldSet
<1> HIDE DEF One
<1>3. T = {}
  <2>1. SUFFICES ASSUME T # {} PROVE FALSE
    OBVIOUS
  <2>2. PICK m \in T : \A j \in T : m <= j
    <3>1. T \in SUBSET Nat
      OBVIOUS
    <3> HIDE DEF T
    <3> QED
      BY <2>1, <3>1, LeastNatural
  <2>3. m \in Nat /\ ~\E g : g = [s \in Small(m) |-> Body(g, s)]
    BY <2>2
  <2>4. CASE m = 0
    <3> DEFINE h == [s \in Small(0) |-> 0]
    <3>1. ASSUME NEW s \in Small(0) PROVE s = {}
      <4>1. s \in SUBSET S /\ Cardinality(s) <= 0
        BY <3>1
      <4>2. Cardinality(s) \in Nat /\ (Cardinality(s) = 0 => s = {})
        BY <1>1, <4>1
      <4> QED
        BY <4>1, <4>2
    <3>2. \A s \in Small(0) : h[s] = Body(h, s)
      BY <3>1
    <3>3. h = [s \in Small(0) |-> Body(h, s)]
      BY <3>2
    <3> QED
      BY <2>3, <2>4, <3>3
  <2>5. CASE m # 0
    <3>1. m - 1 \in Nat /\ m - 1 \notin T
      <4>1. m - 1 \in Nat /\ ~(m <= m - 1)
        BY <2>3, <2>5
      <4> HIDE DEF T
      <4> QED
        BY <2>2, <4>1
    <3>2. PICK g : g = [s \in Small(m - 1) |-> Body(g, s)]
      BY <3>1
    <3> DEFINE h == [s \in Small(m) |-> IF Cardinality(s) = m THEN Body(g, s) ELSE g[s]]
    <3>3. ASSUME NEW s \in Small(m) PROVE h[s] = Body(h, s)
      <4>1. s \in SUBSET S /\ Cardinality(s) \in Nat /\ Cardinality(s) <= m
        BY <1>1, <3>3
      <4>2. CASE s = {}
        <5>1. Cardinality(s) # m => s \in Small(m - 1)
          BY <2>3, <4>1
        <5> QED
          BY <3>2, <4>2, <5>1
      <4>3. CASE s # {}
        <5>1. /\ s \ {One(s)} \in Small(m - 1) /\ s \ {One(s)} \in Small(m)
              /\ Cardinality(s \ {One(s)}) # m
          BY <1>1, <2>3, <4>1, <4>3
        <5>2. h[s \ {One(s)}] = g[s \ {One(s)}]
          BY <5>1
        <5>3. Body(h, s) = Body(g, s)
          BY <4>3, <5>2
        <5>4. Cardinality(s) # m => s \in Small(m - 1)
          BY <2>3, <4>1
        <5>5. h[s] = Body(g, s)
          <6> HIDE DEF Body
          <6>1. CASE Cardinality(s) = m
            BY <3>3, <6>1
          <6>2. CASE Cardinality(s) # m
            <7>1. h[s] = g[s]
              BY <3>3, <6>2
            <7>2. s \in Small(m - 1)
              BY <5>4, <6>2
            <7> HIDE DEF Small, h
            <7> QED
              BY <3>2, <7>1, <7>2
          <6> QED
            BY <6>1, <6>2
        <5> QED
          BY <5>3, <5>5
      <4> QED
        BY <4>2, <4>3
    <3>4. h = [s \in Small(m) |-> Body(h, s)]
      BY <3>3
    <3> QED
      BY <2>3, <3>4
  <2> QED
    BY <2>4, <2>5
<1>4. \E g : g = [s \in SUBSET S |-> Body(g, s)]
  <2>1. Small(Cardinality(S)) = SUBSET S
    BY <1>1
  <2>2. Cardinality(S) \in Nat
    BY FS_CardinalityType
  <2> HIDE DEF Body
  <2>3. \E g : g = [s \in Small(Cardinality(S)) |-> Body(g, s)]
    BY <1>3, <2>2
  <2> HIDE DEF Small
  <2> QED
    BY <2>1, <2>3
<1>5. sum = [s \in SUBSET S |-> Body(sum, s)]
  BY <1>4
<1> HIDE DEF sum
<1>6. \A s \in SUBSET S : sum[s] = Body(sum, s)
  BY <1>5
<1>e. sum[{}] = 0
  BY <1>6
<1>7. U = {}
  <2>1. SUFFICES ASSUME U # {} PROVE FALSE
    OBVIOUS
  <2>2. PICK m \in U : \A j \in U : m <= j
    <3>1. U \in SUBSET Nat
      OBVIOUS
    <3> HIDE DEF U
    <3> QED
      BY <2>1, <3>1, LeastNatural
  <2>3. PICK s \in SUBSET S : Cardinality(s) = m /\ sum[s] \notin Int /\ m \in Nat
    BY <2>2
  <2>4. s # {}
    BY <1>e, <2>3
  <2>5. /\ One(s) \in s /\ s \ {One(s)} \in SUBSET S /\ Cardinality(s \ {One(s)}) \in Nat
        /\ Cardinality(s \ {One(s)}) < m
    BY <1>1, <2>3, <2>4
  <2>6. sum[s \ {One(s)}] \in Int
    BY <2>2, <2>3, <2>5
  <2>7. sum[s] = v[One(s)] + sum[s \ {One(s)}] /\ v[One(s)] \in Int
    BY <1>6, <2>4, <2>5
  <2> QED
    BY <2>3, <2>6, <2>7
<1>8. \A s \in SUBSET S : sum[s] \in Int
  BY <1>1, <1>7
<1>9. ASSUME \A x \in S : v[x] >= 0 PROVE sum[S] >= 0
  <2>1. SUFFICES ASSUME W # {} PROVE FALSE
    <3>1. S \in SUBSET S /\ Cardinality(S) \in Nat
      BY FS_CardinalityType
    <3> QED
      BY <3>1
  <2>2. PICK m \in W : \A j \in W : m <= j
    <3>1. W \in SUBSET Nat
      OBVIOUS
    <3> HIDE DEF W
    <3> QED
      BY <2>1, <3>1, LeastNatural
  <2>3. PICK s \in SUBSET S : Cardinality(s) = m /\ ~(sum[s] >= 0) /\ m \in Nat
    BY <2>2
  <2>4. s # {}
    BY <1>e, <2>3
  <2>5. /\ One(s) \in s /\ s \ {One(s)} \in SUBSET S /\ Cardinality(s \ {One(s)}) \in Nat
        /\ Cardinality(s \ {One(s)}) < m
    BY <1>1, <2>3, <2>4
  <2>6. sum[s \ {One(s)}] >= 0 /\ sum[s \ {One(s)}] \in Int
    BY <1>8, <2>2, <2>3, <2>5
  <2>7. sum[s] = v[One(s)] + sum[s \ {One(s)}] /\ v[One(s)] \in Int /\ v[One(s)] >= 0
    BY <1>6, <1>9, <2>4, <2>5
  <2> QED
    BY <2>3, <2>6, <2>7
<1> QED
  BY <1>2, <1>8, <1>9
=============================================================================
