--------------------------- MODULE WasmArithProofs ---------------------------
(***************************************************************************)
(* The checked helpers are exact at every width: a result that fits is the *)
(* result, and only one that does not fit traps.                           *)
(***************************************************************************)
EXTENDS WasmArith, TLAPS

(* Division with remainder, as % and \div define it. *)
LEMMA DivMod ==
  ASSUME NEW a \in Int, NEW b \in Nat \ {0}
  PROVE  /\ a \div b \in Int
         /\ a % b \in Int
         /\ a = b * (a \div b) + (a % b)
         /\ 0 <= a % b
         /\ a % b < b
  OBVIOUS

(* A wrapped result is a word, and differs from the exact one by a multiple  *)
(* of the modulus.                                                           *)
LEMMA WrapWord ==
  ASSUME NEW n \in Int
  PROVE  wrap(n) \in I64
<1> DEFINE b == 2 * Half
           r == (n + Half) % b
<1>1. Half \in Nat \ {0} /\ b \in Nat \ {0} /\ n + Half \in Int
  BY WidthAssumption
<1>2. r \in Int /\ 0 <= r /\ r < b
  BY <1>1, DivMod
<1>3. wrap(n) = r - Half
  BY DEF wrap
<1> QED
  BY <1>1, <1>2, <1>3 DEF I64

LEMMA WrapCongruent ==
  ASSUME NEW n \in Int
  PROVE  \E k \in Int : n = wrap(n) + k * (2 * Half)
<1> DEFINE b == 2 * Half
           q == (n + Half) \div b
           r == (n + Half) % b
<1>1. Half \in Nat \ {0} /\ b \in Nat \ {0} /\ n + Half \in Int
  BY WidthAssumption
<1>2. q \in Int /\ r \in Int /\ n + Half = b * q + r
  BY <1>1, DivMod
<1>3. wrap(n) = r - Half
  BY DEF wrap
<1>4. b * q = q * b
  BY <1>1, <1>2
<1>5. n = wrap(n) + q * b
  BY <1>1, <1>2, <1>3, <1>4
<1> QED
  BY <1>2, <1>5

(* The only multiple of b closer to zero than b is zero. *)
LEMMA SmallMultiple ==
  ASSUME NEW d \in Int, NEW b \in Nat \ {0}, d * b < b, -b < d * b
  PROVE  d = 0
<1>1. CASE d >= 1
  <2>1. d * b >= b
    BY <1>1
  <2> QED
    BY <2>1
<1>2. CASE d <= -1
  <2>1. d * b <= -b
    BY <1>2
  <2> QED
    BY <2>1
<1> QED
  BY <1>1, <1>2

(* Only one word differs from n by a multiple of the modulus. *)
LEMMA WrapUnique ==
  ASSUME NEW n \in Int, NEW r \in I64, NEW k \in Int, n = r + k * (2 * Half)
  PROVE  wrap(n) = r
<1>1. PICK j \in Int : n = wrap(n) + j * (2 * Half)
  BY WrapCongruent
<1>2. Half \in Nat \ {0} /\ wrap(n) \in I64
  BY WidthAssumption, WrapWord
<1> DEFINE w == wrap(n)
           b == 2 * Half
<1>3. w \in Int /\ r \in Int /\ b \in Nat \ {0} /\ w - r < b /\ -b < w - r
  BY <1>2 DEF I64
<1>4. n = w + j * b /\ n = r + k * b
  BY <1>1
<1> HIDE DEF w, b
<1>5. (k - j) * b = k * b - j * b
  BY <1>3
<1>6. k * b \in Int /\ j * b \in Int
  BY <1>3
<1>7. w - r = (k - j) * b
  BY <1>3, <1>4, <1>5, <1>6
<1>8. k - j = 0
  BY <1>3, <1>7, SmallMultiple
<1>9. k * b = j * b
  BY <1>8
<1>10. w = r
  BY <1>3, <1>4, <1>6, <1>9
<1> QED
  BY <1>10 DEF w

LEMMA WrapFits ==
  ASSUME NEW n \in I64
  PROVE  wrap(n) = n
<1>1. n \in Int /\ 0 \in Int /\ n = n + 0 * (2 * Half)
  BY WidthAssumption DEF I64
<1> QED
  BY <1>1, WrapUnique

(* A sum or difference of two words is at most one modulus off. *)
LEMMA WrapOnce ==
  ASSUME NEW n \in Int, -(2 * Half) <= n, n < 2 * Half
  PROVE  wrap(n) = IF n \in I64 THEN n ELSE IF n < 0 THEN n + 2 * Half ELSE n - 2 * Half
<1>1. Half \in Nat \ {0}
  BY WidthAssumption
<1>2. CASE n \in I64
  BY <1>2, WrapFits
<1>3. CASE n \notin I64 /\ n < 0
  <2>1. n + 2 * Half \in I64 /\ -1 \in Int /\ n = (n + 2 * Half) + (-1) * (2 * Half)
    BY <1>1, <1>3 DEF I64
  <2> QED
    BY <1>3, <2>1, WrapUnique
<1>4. CASE n \notin I64 /\ ~ (n < 0)
  <2>1. n - 2 * Half \in I64 /\ 1 \in Int /\ n = (n - 2 * Half) + 1 * (2 * Half)
    BY <1>1, <1>4 DEF I64
  <2> QED
    BY <1>4, <2>1, WrapUnique
<1> QED
  BY <1>2, <1>3, <1>4

-----------------------------------------------------------------------------
(* x + y traps just when the sum of two words is not a word, and is the sum  *)
(* otherwise (ADD_HELPER).                                                   *)
THEOREM AddExact ==
  ASSUME NEW x \in I64, NEW y \in I64
  PROVE  add_i64(x, y) = IF x + y \in I64 THEN {x + y} ELSE {}
<1> DEFINE n == x + y
           r == wrap(n)
<1>1. Half \in Nat \ {0} /\ x \in Int /\ y \in Int
  BY WidthAssumption DEF I64
<1>2. n \in Int /\ -(2 * Half) <= n /\ n < 2 * Half
  BY <1>1 DEF I64
<1> HIDE DEF n
<1>3. r = IF n \in I64 THEN n ELSE IF n < 0 THEN n + 2 * Half ELSE n - 2 * Half
  BY <1>2, WrapOnce
<1> HIDE DEF r
<1>4. ((x < 0) # (r < 0) /\ (y < 0) # (r < 0)) <=> n \notin I64
  BY <1>1, <1>2, <1>3 DEF n, I64
<1>5. n \in I64 => r = n
  BY <1>3
<1> QED
  BY <1>4, <1>5 DEF add_i64, n, r

(* The same of x - y (SUB_HELPER). *)
THEOREM SubExact ==
  ASSUME NEW x \in I64, NEW y \in I64
  PROVE  sub_i64(x, y) = IF x - y \in I64 THEN {x - y} ELSE {}
<1> DEFINE n == x - y
           r == wrap(n)
<1>1. Half \in Nat \ {0} /\ x \in Int /\ y \in Int
  BY WidthAssumption DEF I64
<1>2. n \in Int /\ -(2 * Half) <= n /\ n < 2 * Half
  BY <1>1 DEF I64
<1> HIDE DEF n
<1>3. r = IF n \in I64 THEN n ELSE IF n < 0 THEN n + 2 * Half ELSE n - 2 * Half
  BY <1>2, WrapOnce
<1> HIDE DEF r
<1>4. ((x < 0) # (y < 0) /\ (x < 0) # (r < 0)) <=> n \notin I64
  BY <1>1, <1>2, <1>3 DEF n, I64
<1>5. n \in I64 => r = n
  BY <1>3
<1> QED
  BY <1>4, <1>5 DEF sub_i64, n, r

-----------------------------------------------------------------------------
(* Division towards zero leaves a remainder smaller than the divisor, with   *)
(* the sign of the dividend.                                                 *)
LEMMA TruncSpec ==
  ASSUME NEW a \in Int, NEW b \in Int, b # 0
  PROVE  /\ Trunc(a, b) \in Int
         /\ a - b * Trunc(a, b) \in Int
         /\ Magnitude(a - b * Trunc(a, b)) < Magnitude(b)
         /\ a >= 0 => a - b * Trunc(a, b) >= 0
         /\ a <= 0 => a - b * Trunc(a, b) <= 0
<1> DEFINE ma == Magnitude(a)
           mb == Magnitude(b)
           q == ma \div mb
           m == ma % mb
           t == Trunc(a, b)
<1>1. /\ ma \in Nat /\ ma = IF a < 0 THEN -a ELSE a
      /\ mb \in Nat \ {0} /\ mb = IF b < 0 THEN -b ELSE b
  BY DEF Magnitude
<1>2. t = IF (a < 0) = (b < 0) THEN q ELSE -q
  BY DEF Trunc
<1> HIDE DEF ma, mb, t
<1>3. q \in Int /\ m \in Int /\ ma = mb * q + m /\ 0 <= m /\ m < mb
  <2>1. ma \in Int /\ mb \in Nat /\ mb > 0
    BY <1>1
  <2> QED
    BY <2>1, DivMod
<1> HIDE DEF q, m
<1>4. t \in Int /\ (-q) \in Int /\ mb * q \in Int
  BY <1>1, <1>2, <1>3
<1>5. b * t = IF a < 0 THEN -(mb * q) ELSE mb * q
  <2>1. CASE b < 0
    <3>1. mb = -b
      BY <1>1, <2>1
    <3>2. (-b) * q = -(b * q) /\ b * (-q) = -(b * q) /\ b * q \in Int
      BY <1>3
    <3>3. CASE a < 0
      BY <1>2, <2>1, <3>1, <3>2, <3>3
    <3>4. CASE ~ (a < 0)
      BY <1>2, <2>1, <3>1, <3>2, <3>4
    <3> QED
      BY <3>3, <3>4
  <2>2. CASE ~ (b < 0)
    <3>1. mb = b
      BY <1>1, <2>2
    <3>2. b * (-q) = -(b * q) /\ b * q \in Int
      BY <1>3
    <3>3. CASE a < 0
      BY <1>2, <2>2, <3>1, <3>2, <3>3
    <3>4. CASE ~ (a < 0)
      BY <1>2, <2>2, <3>1, <3>2, <3>4
    <3> QED
      BY <3>3, <3>4
  <2> QED
    BY <2>1, <2>2
<1>6. a - b * t = IF a < 0 THEN -m ELSE m
  BY <1>1, <1>3, <1>4, <1>5
<1>7. a = 0 => m = 0
  <2>1. SUFFICES ASSUME a = 0 PROVE m = 0
    OBVIOUS
  <2>2. mb * q + m = 0
    BY <1>1, <1>3, <2>1
  <2>3. mb * q = q * mb
    BY <1>1, <1>3
  <2>4. q * mb < mb /\ -mb < q * mb
    BY <1>1, <1>3, <1>4, <2>2, <2>3
  <2>5. q = 0
    BY <1>1, <1>3, <2>4, SmallMultiple
  <2> QED
    BY <1>1, <1>3, <2>2, <2>5
<1>8. Magnitude(a - b * t) = m
  BY <1>3, <1>6 DEF Magnitude
<1> QED
  BY <1>1, <1>3, <1>4, <1>6, <1>7, <1>8 DEF mb, t

(* A multiple of b smaller in magnitude than b is zero. *)
LEMMA SmallProduct ==
  ASSUME NEW d \in Int, NEW b \in Int, b # 0, Magnitude(b * d) < Magnitude(b)
  PROVE  d = 0
<1>1. CASE b > 0
  <2>1. b * d \in Int /\ d * b = b * d /\ b \in Nat \ {0}
    BY <1>1
  <2> DEFINE p == d * b
  <2>2. p \in Int /\ p < b /\ -b < p
    BY <1>1, <2>1 DEF Magnitude
  <2> HIDE DEF p
  <2> QED
    BY <2>1, <2>2, SmallMultiple DEF p
<1>2. CASE b < 0
  <2>1. b * d \in Int /\ d * (-b) = -(b * d) /\ -b \in Nat \ {0}
    BY <1>2
  <2> DEFINE p == b * d
             c == -b
  <2>2. p \in Int /\ c \in Nat \ {0} /\ d * c = -p /\ -p < c /\ -c < -p
    BY <1>2, <2>1 DEF Magnitude
  <2> HIDE DEF p, c
  <2> QED
    BY <2>2, SmallMultiple
<1> QED
  BY <1>1, <1>2

(* The division test of the checked multiply decides overflow, MIN * -1 and  *)
(* -1 * MIN included (MUL_HELPER).                                           *)
THEOREM MulExact ==
  ASSUME NEW x \in I64, NEW y \in I64
  PROVE  mul_i64(x, y) = IF x * y \in I64 THEN {x * y} ELSE {}
<1> DEFINE n == x * y
           r == wrap(n)
           t == Trunc(r, x)
<1>1. Half \in Nat \ {0} /\ x \in Int /\ y \in Int
  BY WidthAssumption DEF I64
<1>2. CASE x = 0
  <2>1. x * y = 0 /\ 0 \in I64
    BY <1>1, <1>2 DEF I64
  <2> QED
    BY <1>2, <2>1 DEF mul_i64
<1>3. CASE x # 0
  <2>1. n \in Int
    BY <1>1
  <2>2. n = x * y
    OBVIOUS
  <2> HIDE DEF n
  <2>3. r \in I64 /\ r \in Int
    BY <1>1, <2>1, WrapWord DEF I64
  <2>4. PICK k \in Int : n = r + k * (2 * Half)
    BY <2>1, WrapCongruent
  <2>5. n \in I64 => r = n
    BY <2>1, WrapFits
  <2> HIDE DEF r
  <2>6. t \in Int /\ r - x * t \in Int /\ Magnitude(r - x * t) < Magnitude(x)
    BY <1>1, <1>3, <2>3, TruncSpec
  <2> HIDE DEF t
  <2>7. div_s(r, x) = IF r = -Half /\ x = -1 THEN {} ELSE {t}
    BY <1>3 DEF div_s, t
  <2>8. mul_i64(x, y) = IF div_s(r, x) = {y} THEN {r} ELSE {}
    BY <1>3 DEF mul_i64, r, n
  <2>9. CASE n \in I64
    <3>1. ~ (r = -Half /\ x = -1)
      <4>1. x = -1 => n = -y
        BY <1>1, <2>2
      <4> QED
        BY <1>1, <2>5, <2>9, <4>1 DEF I64
    <3>2. r - x * t = x * (y - t) /\ y - t \in Int
      <4>1. x * (y - t) = x * y - x * t
        BY <1>1, <2>6
      <4> QED
        BY <1>1, <2>2, <2>5, <2>6, <2>9, <4>1
    <3>3. y - t = 0
      BY <1>1, <1>3, <2>6, <3>2, SmallProduct
    <3>4. t = y
      BY <1>1, <2>6, <3>3
    <3> QED
      BY <2>2, <2>5, <2>7, <2>8, <2>9, <3>1, <3>4
  <2>10. CASE n \notin I64
    <3>1. SUFFICES ASSUME div_s(r, x) = {y} PROVE FALSE
      BY <2>2, <2>8, <2>10
    <3>2. t = y
      BY <2>7, <3>1
    <3>3. r - n \in Int /\ Magnitude(r - n) < Magnitude(x)
      BY <2>2, <2>6, <3>2
    <3>4. Magnitude(x) <= Half
      BY <1>1 DEF Magnitude, I64
    <3> DEFINE p == k * (2 * Half)
    <3>5. p \in Int /\ r - n = -p
      BY <1>1, <2>1, <2>3, <2>4
    <3>6. p < 2 * Half /\ -(2 * Half) < p /\ 2 * Half \in Nat \ {0}
      <4> HIDE DEF p
      <4> QED
        BY <1>1, <3>3, <3>4, <3>5 DEF Magnitude
    <3>7. k = 0
      BY <1>1, <3>6, SmallMultiple
    <3> QED
      BY <1>1, <2>1, <2>3, <2>4, <2>10, <3>7
  <2> QED
    BY <2>9, <2>10
<1> QED
  BY <1>2, <1>3

(* Rounding down leaves a remainder with the sign of the divisor, and only   *)
(* one quotient does.                                                        *)
LEMMA FloorSpec ==
  ASSUME NEW a \in Int, NEW b \in Int, b # 0
  PROVE  /\ FloorDiv(a, b) \in Int
         /\ IF b > 0 THEN 0 <= a - b * FloorDiv(a, b) /\ a - b * FloorDiv(a, b) < b
                     ELSE b < a - b * FloorDiv(a, b) /\ a - b * FloorDiv(a, b) <= 0
<1> DEFINE f == FloorDiv(a, b)
<1>1. CASE b > 0
  <2>1. f = a \div b /\ b \in Nat \ {0}
    BY <1>1 DEF FloorDiv
  <2> HIDE DEF f
  <2>2. f \in Int /\ a % b \in Int /\ a = b * f + (a % b) /\ 0 <= a % b /\ a % b < b
    BY <2>1, DivMod
  <2>3. a - b * f = a % b
    BY <1>1, <2>2
  <2> QED
    BY <1>1, <2>2, <2>3 DEF f
<1>2. CASE b < 0
  <2> DEFINE c == -b
             d == -a
  <2>1. c \in Nat \ {0} /\ d \in Int /\ f = d \div c
    BY <1>2 DEF FloorDiv
  <2> HIDE DEF f, c, d
  <2>2. f \in Int /\ d % c \in Int /\ d = c * f + (d % c) /\ 0 <= d % c /\ d % c < c
    BY <2>1, DivMod
  <2>3. c * f = -(b * f)
    BY <2>2 DEF c
  <2>4. a - b * f = -(d % c)
    BY <2>2, <2>3 DEF d
  <2> QED
    BY <1>2, <2>2, <2>4 DEF f, c
<1> QED
  BY <1>1, <1>2

LEMMA FloorUnique ==
  ASSUME NEW a \in Int, NEW b \in Int, b # 0, NEW q \in Int,
         IF b > 0 THEN 0 <= a - b * q /\ a - b * q < b
                  ELSE b < a - b * q /\ a - b * q <= 0
  PROVE  q = FloorDiv(a, b)
<1> DEFINE f == FloorDiv(a, b)
<1>1. f \in Int /\ IF b > 0 THEN 0 <= a - b * f /\ a - b * f < b
                            ELSE b < a - b * f /\ a - b * f <= 0
  BY FloorSpec
<1> HIDE DEF f
<1>2. b * (q - f) = (a - b * f) - (a - b * q) /\ q - f \in Int
  BY <1>1
<1> DEFINE m == a - b * f
           n == a - b * q
<1>3. m \in Int /\ n \in Int
  BY <1>1
<1>4. Magnitude(m - n) < Magnitude(b)
  <2>1. IF b > 0 THEN 0 <= m /\ m < b /\ 0 <= n /\ n < b ELSE b < m /\ m <= 0 /\ b < n /\ n <= 0
    BY <1>1
  <2> HIDE DEF m, n
  <2> QED
    BY <1>3, <2>1 DEF Magnitude
<1>5. q - f = 0
  BY <1>2, <1>4, SmallProduct
<1> QED
  BY <1>1, <1>5 DEF f

(* The quotient of two words is a word, but for MIN // -1. *)
LEMMA FloorFits ==
  ASSUME NEW a \in I64, NEW b \in I64, b # 0
  PROVE  FloorDiv(a, b) \in I64 <=> ~ (a = -Half /\ b = -1)
<1> DEFINE f == FloorDiv(a, b)
           m == a - b * f
<1>1. Half \in Nat \ {0} /\ a \in Int /\ b \in Int
  BY WidthAssumption DEF I64
<1>2. f \in Int /\ m \in Int /\ IF b > 0 THEN 0 <= m /\ m < b ELSE b < m /\ m <= 0
  <2>1. f \in Int
    BY <1>1, FloorSpec
  <2> QED
    BY <1>1, <2>1, FloorSpec
<1>3. a = b * f + m
  BY <1>1, <1>2
<1> HIDE DEF f, m
<1>4. b * f \in Int
  BY <1>1, <1>2
<1>5. CASE b > 0
  <2>1. f >= Half => b * f >= Half
    BY <1>1, <1>2, <1>5
  <2>2. f <= -Half - 1 => b * f <= b * (-Half - 1)
    BY <1>1, <1>2, <1>5
  <2>3. b * (-Half - 1) = -(b * Half) - b /\ b * Half >= Half /\ b * Half \in Int
    BY <1>1, <1>5
  <2>4. -Half <= a /\ a < Half
    BY <1>1 DEF I64
  <2>5. ~ (f >= Half)
    BY <1>1, <1>2, <1>3, <1>4, <1>5, <2>1, <2>4
  <2>6. ~ (f <= -Half - 1)
    BY <1>1, <1>2, <1>3, <1>4, <1>5, <2>2, <2>3, <2>4
  <2> QED
    BY <1>1, <1>2, <1>5, <2>5, <2>6 DEF f, I64
<1>6. CASE b = -1
  <2>1. m = 0 /\ f = -a
    BY <1>1, <1>2, <1>3, <1>6
  <2> QED
    BY <1>1, <1>6, <2>1 DEF f, I64
<1>7. CASE b < -1
  <2> DEFINE c == -b
  <2>1. c \in Int /\ c >= 2 /\ c * f \in Int /\ c * f = -(b * f) /\ c * Half \in Int
    BY <1>1, <1>2, <1>7
  <2>2. -a = c * f - m /\ 0 <= -m /\ -m < c
    <3>1. -a = -(b * f) - m
      BY <1>1, <1>2, <1>3, <1>4
    <3> QED
      BY <1>1, <1>2, <1>7, <2>1, <3>1
  <2> HIDE DEF c
  <2>3. f >= Half => c * f >= c * Half
    BY <1>1, <1>2, <2>1
  <2>4. f <= -Half - 1 => c * f <= c * (-Half - 1)
    BY <1>1, <1>2, <2>1
  <2>5. c * (-Half - 1) = -(c * Half) - c /\ c * Half >= 2 * Half
    BY <1>1, <2>1
  <2>6. -Half < -a + 1 /\ -a <= Half
    BY <1>1 DEF I64
  <2>7. ~ (f >= Half)
    BY <1>1, <1>2, <2>1, <2>2, <2>3, <2>5, <2>6
  <2>8. ~ (f <= -Half - 1)
    BY <1>1, <1>2, <2>1, <2>2, <2>4, <2>5, <2>6
  <2> QED
    BY <1>1, <1>2, <1>7, <2>7, <2>8 DEF f, I64
<1> QED
  BY <1>1, <1>5, <1>6, <1>7

(* Floor division returns Python's quotient, and traps only on a zero        *)
(* divisor and on the one quotient that is no word (FLOOR_HELPERS).          *)
THEOREM FloorDivExact ==
  ASSUME NEW a \in I64, NEW b \in I64
  PROVE  floordiv_i64(a, b) =
           IF b # 0 /\ FloorDiv(a, b) \in I64 THEN {FloorDiv(a, b)} ELSE {}
<1>1. Half \in Nat \ {0} /\ a \in Int /\ b \in Int
  BY WidthAssumption DEF I64
<1>2. CASE b = 0
  <2>1. rem_s(a, b) = {}
    BY <1>2 DEF rem_s
  <2> QED
    BY <1>2, <2>1 DEF floordiv_i64
<1>3. CASE b # 0
  <2> DEFINE t == Trunc(a, b)
             r == a - b * t
             v == IF r # 0 /\ (r < 0) # (b < 0) THEN t - 1 ELSE t
  <2>1. /\ t \in Int /\ r \in Int /\ Magnitude(r) < Magnitude(b)
    BY <1>1, <1>3, TruncSpec
  <2>2. rem_s(a, b) = {r}
    BY <1>3 DEF rem_s
  <2>3. div_s(a, b) = IF a = -Half /\ b = -1 THEN {} ELSE {t}
    BY <1>3 DEF div_s
  <2>4. v \in Int /\ a - b * v = IF r # 0 /\ (r < 0) # (b < 0) THEN r + b ELSE r
    <3> HIDE DEF t
    <3>1. b * (t - 1) = b * t - b
      BY <1>1, <2>1
    <3>2. a - b * (t - 1) = r + b
      BY <1>1, <2>1, <3>1
    <3> QED
      BY <1>1, <2>1, <3>2
  <2>5. v = FloorDiv(a, b)
    <3> DEFINE w == a - b * v
    <3>1. w = IF r # 0 /\ (r < 0) # (b < 0) THEN r + b ELSE r
      BY <2>4
    <3> HIDE DEF r, v
    <3>2. IF b > 0 THEN 0 <= w /\ w < b ELSE b < w /\ w <= 0
      <4> HIDE DEF w
      <4> QED
        BY <1>1, <1>3, <2>1, <3>1 DEF Magnitude
    <3> QED
      BY <1>1, <1>3, <2>4, <3>2, FloorUnique
  <2>6. floordiv_i64(a, b) = UNION {{v : q \in div_s(a, b)} : s \in {r}}
    BY <2>2, <2>3 DEF floordiv_i64
  <2> HIDE DEF v, r, t
  <2>7. floordiv_i64(a, b) = IF a = -Half /\ b = -1 THEN {} ELSE {v}
    BY <2>3, <2>6
  <2> QED
    BY <1>3, <2>5, <2>7, FloorFits
<1> QED
  BY <1>2, <1>3

(* The remainder is Python's wherever the quotient is a word, although the   *)
(* product b * (a // b) may wrap on the way.                                 *)
THEOREM FloorModExact ==
  ASSUME NEW a \in I64, NEW b \in I64
  PROVE  floormod_i64(a, b) =
           IF b # 0 /\ FloorDiv(a, b) \in I64 THEN {a - b * FloorDiv(a, b)} ELSE {}
<1> DEFINE f == FloorDiv(a, b)
           p == b * f
           m == a - p
<1>1. Half \in Nat \ {0} /\ a \in Int /\ b \in Int /\ -Half <= b /\ b < Half
  BY WidthAssumption DEF I64
<1>2. CASE ~ (b # 0 /\ f \in I64)
  <2>1. floordiv_i64(a, b) = {}
    BY <1>2, FloorDivExact
  <2> QED
    BY <1>2, <2>1 DEF floormod_i64
<1>3. CASE b # 0 /\ f \in I64
  <2>1. floordiv_i64(a, b) = {f}
    BY <1>3, FloorDivExact
  <2>2. f \in Int /\ p \in Int /\ m \in Int
        /\ IF b > 0 THEN 0 <= m /\ m < b ELSE b < m /\ m <= 0
    <3>1. f \in Int
      BY <1>1, <1>3, FloorSpec
    <3> QED
      BY <1>1, <1>3, <3>1, FloorSpec
  <2>3. floormod_i64(a, b) = {wrap(a - wrap(p))}
    BY <2>1 DEF floormod_i64
  <2>4. m = a - p
    OBVIOUS
  <2> HIDE DEF m, p, f
  <2>5. m \in I64
    BY <1>1, <2>2 DEF I64
  <2>6. PICK k \in Int : p = wrap(p) + k * (2 * Half)
    BY <2>2, WrapCongruent
  <2>7. wrap(p) \in Int
    BY <1>1, <2>2, WrapWord DEF I64
  <2> DEFINE w == wrap(p)
             n == a - w
             j == k * (2 * Half)
  <2>8. w \in Int /\ n \in Int /\ j \in Int /\ n = m + j
    BY <1>1, <2>2, <2>4, <2>6, <2>7
  <2> HIDE DEF w, n
  <2>9. wrap(n) = m
    BY <2>5, <2>6, <2>8, WrapUnique
  <2>10. floormod_i64(a, b) = {m}
    BY <2>3, <2>9 DEF n, w
  <2> QED
    BY <1>3, <2>10 DEF m, p, f
<1> QED
  BY <1>2, <1>3
=============================================================================
