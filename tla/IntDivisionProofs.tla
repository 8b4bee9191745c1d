-------------------------- MODULE IntDivisionProofs --------------------------
(***************************************************************************)
(* Division is right for every width of a word and every precision of a    *)
(* float: the loop of the helpers returns the quotient, and so does the    *)
(* division through floats the compiler expands / and % to.                *)
(*                                                                         *)
(* The argument about floats is one about powers of two.  The library      *)
(* proves the order of the naturals well founded; from there come          *)
(* induction over a set of naturals, what the recursive function Power     *)
(* computes, division and rounding, and that a rounded quotient stays      *)
(* between the two integers around the quotient.                           *)
(***************************************************************************)
EXTENDS IntDivision, TLAPS, WellFoundedInduction

-----------------------------------------------------------------------------
(* Induction over the naturals, from the library's theorem that their      *)
(* order is well founded.                                                  *)
IsLess(R) == \A x, y \in Nat : <<y, x>> \in R <=> y < x

(* The order of the naturals is well founded.                              *)
LEMMA LessRelation == \E R : IsWellFoundedOn(R, Nat) /\ IsLess(R)
<1>1. IsLess(OpToRel(<, Nat))
  BY DEF OpToRel, IsLess
<1> QED BY <1>1, NatLessThanWellFounded

(* A set of naturals that is not empty has a least element.                *)
LEMMA LeastNatural ==
  ASSUME NEW T \in SUBSET Nat, T # {}
  PROVE  \E x \in T : \A y \in T : x <= y
<1>1. PICK R : IsWellFoundedOn(R, Nat) /\ IsLess(R)
  BY LessRelation
<1>2. PICK x \in T : \A y \in T : ~ (<<y, x>> \in R)
  BY <1>1, WFMin
<1>3. \A y \in T : ~ (y < x)
  BY <1>1, <1>2 DEF IsLess
<1> QED BY <1>3

(* Induction over a set of naturals.                                       *)
LEMMA SetInduction ==
  ASSUME NEW T \in SUBSET Nat, 0 \in T, \A n \in T : n + 1 \in T
  PROVE  T = Nat
<1> SUFFICES ASSUME Nat \ T # {} PROVE FALSE
  OBVIOUS
<1>1. PICK x \in Nat \ T : \A y \in Nat \ T : x <= y
  BY LeastNatural
<1>2. x - 1 \in Nat /\ x - 1 \notin Nat \ T
  BY <1>1
<1> QED BY <1>1, <1>2

-----------------------------------------------------------------------------
(* h is the table of powers up to n. *)
IsTable(h, n) ==
  /\ h \in [0 .. n -> Nat \ {0}]
  /\ h[0] = 1
  /\ \A i \in 1 .. n : h[i] = 2 * h[i - 1]

HasTable == {n \in Nat : \E h : IsTable(h, n)}

(* The first n powers of two can be listed.                                *)
LEMMA TablesExist == \A n \in Nat : \E h : IsTable(h, n)
<1>1. 0 \in HasTable
  <2>1. IsTable([i \in 0 .. 0 |-> 1], 0)
    BY DEF IsTable
  <2> QED BY <2>1 DEF HasTable
<1>2. ASSUME NEW n \in HasTable PROVE n + 1 \in HasTable
  <2>1. n \in Nat
    BY DEF HasTable
  <2>2. PICK h : IsTable(h, n)
    BY DEF HasTable
  <2> DEFINE g == [i \in 0 .. n + 1 |-> IF i = n + 1 THEN 2 * h[n] ELSE h[i]]
  <2>3. IsTable(g, n + 1)
    BY <2>1, <2>2 DEF IsTable
  <2> QED BY <2>1, <2>3 DEF HasTable
<1>3. HasTable = Nat
  BY <1>1, <1>2, SetInduction DEF HasTable
<1> QED BY <1>3 DEF HasTable

(* Two tables agree as far as both reach. *)
LEMMA TablesAgree ==
  ASSUME NEW m \in Nat, NEW n \in Nat, NEW g, NEW h, IsTable(g, m), IsTable(h, n)
  PROVE  \A i \in Nat : i <= m /\ i <= n => g[i] = h[i]
<1> DEFINE T == {i \in Nat : i <= m /\ i <= n => g[i] = h[i]}
<1>1. 0 \in T
  BY DEF IsTable
<1>2. ASSUME NEW i \in T PROVE i + 1 \in T
  <2> SUFFICES ASSUME i + 1 <= m, i + 1 <= n PROVE g[i + 1] = h[i + 1]
    OBVIOUS
  <2>1. g[i] = h[i]
    OBVIOUS
  <2>2. i + 1 \in 1 .. m /\ i + 1 \in 1 .. n /\ (i + 1) - 1 = i
    OBVIOUS
  <2> QED BY <2>1, <2>2 DEF IsTable
<1> HIDE DEF T
<1>3. T = Nat
  BY <1>1, <1>2, SetInduction DEF T
<1> QED BY <1>3 DEF T

Table(n) == CHOOSE h : IsTable(h, n)

(* Table is such a list.                                                   *)
LEMMA TableIsTable == \A n \in Nat : IsTable(Table(n), n)
  BY TablesExist DEF Table

(* What the recursion defines. *)
LEMMA PowerRecursion ==
  /\ Power \in [Nat -> Nat \ {0}]
  /\ Power[0] = 1
  /\ \A n \in Nat : Power[n + 1] = 2 * Power[n]
<1> DEFINE g == [n \in Nat |-> Table(n)[n]]
<1>1. \A n \in Nat : IsTable(Table(n), n)
  BY TableIsTable
<1>2. g[0] = 1
  BY <1>1 DEF IsTable
<1>3. ASSUME NEW n \in Nat PROVE g[n + 1] = 2 * g[n]
  <2>1. IsTable(Table(n), n) /\ IsTable(Table(n + 1), n + 1)
    BY <1>1
  <2>2. Table(n)[n] = Table(n + 1)[n]
    BY <2>1, TablesAgree
  <2>3. n + 1 \in 1 .. n + 1 /\ (n + 1) - 1 = n
    OBVIOUS
  <2>4. Table(n + 1)[n + 1] = 2 * Table(n + 1)[n]
    BY <2>1, <2>3 DEF IsTable
  <2> QED BY <2>2, <2>4
<1>4. g \in [Nat -> Nat \ {0}]
  BY <1>1 DEF IsTable
<1>5. ASSUME NEW n \in Nat PROVE g[n] = IF n = 0 THEN 1 ELSE 2 * g[n - 1]
  <2>1. CASE n = 0
    BY <2>1, <1>2
  <2>2. CASE n # 0
    <3>1. n - 1 \in Nat /\ (n - 1) + 1 = n
      BY <2>2
    <3> HIDE DEF g
    <3> QED BY <3>1, <2>2, <1>3
  <2> QED BY <2>1, <2>2
<1>6. g = [n \in Nat |-> IF n = 0 THEN 1 ELSE 2 * g[n - 1]]
  <2> HIDE DEF g
  <2> QED BY <1>4, <1>5
<1>7. Power = [n \in Nat |-> IF n = 0 THEN 1 ELSE 2 * Power[n - 1]]
  <2> HIDE DEF g
  <2> QED BY <1>6 DEF Power
<1> HIDE DEF g
<1>8. \A n \in Nat : Power[n] = g[n]
  <2> DEFINE T == {n \in Nat : Power[n] = g[n]}
  <2>1. 0 \in T
    BY <1>7, <1>2
  <2>2. ASSUME NEW n \in T PROVE n + 1 \in T
    <3>1. Power[n + 1] = 2 * Power[n]
      BY <1>7
    <3> QED BY <3>1, <1>3
  <2> HIDE DEF T
  <2>3. T = Nat
    BY <2>1, <2>2, SetInduction DEF T
  <2> QED BY <2>3 DEF T
<1>9. Power \in [Nat -> Nat \ {0}]
  <2>1. Power = [n \in Nat |-> Power[n]]
    BY <1>7
  <2> QED BY <2>1, <1>8, <1>4
<1> QED BY <1>8, <1>9, <1>2, <1>3

-----------------------------------------------------------------------------
(* Products of naturals are naturals.                                      *)
LEMMA ProductType == ASSUME NEW a \in Nat, NEW b \in Nat PROVE a * b \in Nat
  OBVIOUS

(* Powers of two are positive naturals.                                    *)
LEMMA PowerType == ASSUME NEW n \in Nat PROVE Power[n] \in Nat /\ Power[n] > 0
  BY PowerRecursion

(* A positive factor may be cancelled.                                     *)
LEMMA ProductLess ==
  ASSUME NEW a \in Nat, NEW b \in Nat, NEW c \in Nat, c > 0
  PROVE  /\ a <= b <=> a * c <= b * c
         /\ a < b <=> a * c < b * c
         /\ a = b <=> a * c = b * c
<1>1. \A x, y \in Nat : x < y => x * c < y * c
  <2> TAKE x, y \in Nat
  <2> HAVE x < y
  <2>1. PICK d \in Nat : y = x + d /\ d > 0
    <3> WITNESS y - x \in Nat
    <3> QED OBVIOUS
  <2>2. y * c = x * c + d * c
    BY <2>1
  <2>3. d * c > 0
    <3>1. d * c = (d - 1) * c + c
      BY <2>1
    <3>2. (d - 1) * c \in Nat
      BY <2>1, ProductType
    <3> QED BY <3>1, <3>2
  <2>4. x * c \in Nat /\ d * c \in Nat
    BY ProductType
  <2> QED BY <2>2, <2>3, <2>4
<1>2. a * c \in Nat /\ b * c \in Nat
  BY ProductType
<1>3. a < b => a * c < b * c
  BY <1>1
<1>4. b < a => b * c < a * c
  BY <1>1
<1>5. a = b => a * c = b * c
  OBVIOUS
<1> QED BY <1>2, <1>3, <1>4, <1>5

(* A positive factor does not make a number smaller.                       *)
LEMMA ProductLeast == ASSUME NEW a \in Nat, NEW b \in Nat, b > 0 PROVE a <= a * b
<1>1. a * b = a * (b - 1) + a
  OBVIOUS
<1>2. a * (b - 1) \in Nat
  <2>1. b - 1 \in Nat
    OBVIOUS
  <2> QED BY <2>1, ProductType
<1> QED BY <1>1, <1>2

(* The power of a sum is the product of the powers.                        *)
LEMMA PowerSum ==
  ASSUME NEW m \in Nat, NEW n \in Nat
  PROVE  Power[m + n] = Power[m] * Power[n]
<1> DEFINE T == {i \in Nat : Power[m + i] = Power[m] * Power[i]}
<1>1. 0 \in T
  <2>1. Power[m] * 1 = Power[m]
    BY PowerType
  <2> QED BY <2>1, PowerRecursion
<1>2. ASSUME NEW i \in T PROVE i + 1 \in T
  <2>1. Power[m + (i + 1)] = 2 * Power[m + i]
    <3>1. m + (i + 1) = (m + i) + 1 /\ m + i \in Nat
      OBVIOUS
    <3> QED BY <3>1, PowerRecursion
  <2>2. Power[i + 1] = 2 * Power[i]
    BY PowerRecursion
  <2>3. 2 * (Power[m] * Power[i]) = Power[m] * (2 * Power[i])
    BY PowerType
  <2> QED BY <2>1, <2>2, <2>3
<1> HIDE DEF T
<1>3. T = Nat
  BY <1>1, <1>2, SetInduction DEF T
<1> QED BY <1>3 DEF T

(* Powers grow with their exponents, by a factor of two at least.          *)
LEMMA PowerMonotone ==
  ASSUME NEW m \in Nat, NEW n \in Nat
  PROVE  /\ m <= n <=> Power[m] <= Power[n]
         /\ m < n => 2 * Power[m] <= Power[n]
<1>1. ASSUME NEW i \in Nat, NEW j \in Nat, i <= j PROVE Power[i] <= Power[j]
  <2>1. j - i \in Nat /\ i + (j - i) = j
    BY <1>1
  <2>2. Power[j] = Power[i] * Power[j - i]
    BY <2>1, PowerSum
  <2> QED BY <2>1, <2>2, PowerType, ProductLeast
<1>2. ASSUME NEW i \in Nat, NEW j \in Nat, i < j PROVE 2 * Power[i] <= Power[j]
  <2>1. Power[i + 1] <= Power[j]
    BY <1>1, <1>2
  <2> QED BY <2>1, PowerRecursion
<1>3. n < m => Power[n] < Power[m]
  <2>1. n < m => 2 * Power[n] <= Power[m]
    BY <1>2
  <2> QED BY <2>1, PowerType
<1> QED BY <1>1, <1>2, <1>3, PowerType

(* A number is less than its power.                                        *)
LEMMA PowerGrows == ASSUME NEW n \in Nat PROVE n < Power[n]
<1> DEFINE T == {i \in Nat : i < Power[i]}
<1>1. 0 \in T
  BY PowerRecursion
<1>2. ASSUME NEW i \in T PROVE i + 1 \in T
  BY PowerRecursion
<1> HIDE DEF T
<1>3. T = Nat
  BY <1>1, <1>2, SetInduction DEF T
<1> QED BY <1>3 DEF T

-----------------------------------------------------------------------------
(* Division of naturals. *)
LEMMA Division ==
  ASSUME NEW a \in Nat, NEW b \in Nat, b > 0
  PROVE  /\ a \div b \in Nat /\ a % b \in Nat
         /\ a % b < b
         /\ a = (a \div b) * b + (a % b)
  OBVIOUS

(* Quotient and remainder are the only ones.                               *)
LEMMA DivisionUnique ==
  ASSUME NEW a \in Nat, NEW b \in Nat, b > 0, NEW q \in Nat, NEW r \in Nat,
         r < b, a = q * b + r
  PROVE  a \div b = q /\ a % b = r
<1> DEFINE p == a \div b
           s == a % b
<1>1. p \in Nat /\ s \in Nat /\ s < b /\ a = p * b + s
  BY Division
<1> HIDE DEF p, s
<1>2. p * b \in Nat /\ q * b \in Nat
  BY <1>1, ProductType
<1>3. ~ (p < q)
  <2> SUFFICES ASSUME p < q PROVE FALSE
    OBVIOUS
  <2>1. (p + 1) * b <= q * b
    BY <1>1, ProductLess
  <2>2. (p + 1) * b = p * b + b
    BY <1>1
  <2> QED BY <2>1, <2>2, <1>1, <1>2
<1>4. ~ (q < p)
  <2> SUFFICES ASSUME q < p PROVE FALSE
    OBVIOUS
  <2>1. (q + 1) * b <= p * b
    BY <1>1, ProductLess
  <2>2. (q + 1) * b = q * b + b
    OBVIOUS
  <2> QED BY <2>1, <2>2, <1>1, <1>2
<1>5. p = q
  BY <1>1, <1>3, <1>4
<1>6. s = r
  BY <1>1, <1>2, <1>5
<1> QED BY <1>5, <1>6 DEF p, s

(* The nearest integer is next to the quotient, and half a divisor away at *)
(* most.                                                                   *)
LEMMA NearestBounds ==
  ASSUME NEW n \in Nat, NEW d \in Nat, d > 0
  PROVE  /\ Nearest(n, d) \in Nat
         /\ n \div d <= Nearest(n, d)
         /\ 2 * (Nearest(n, d) * d) <= 2 * n + d
<1> DEFINE q == n \div d
           r == n % d
<1>1. q \in Nat /\ r \in Nat /\ r < d /\ n = q * d + r
  BY Division
<1>2. Nearest(n, d) = IF 2 * r > d \/ (2 * r = d /\ q % 2 = 1) THEN q + 1 ELSE q
  BY DEF Nearest
<1> HIDE DEF q, r
<1>3. q * d \in Nat /\ (q + 1) * d = q * d + d
  BY <1>1, ProductType
<1>4. CASE 2 * r >= d /\ Nearest(n, d) = q + 1
  BY <1>1, <1>3, <1>4 DEF q
<1>5. CASE Nearest(n, d) = q
  BY <1>1, <1>3, <1>5 DEF q
<1> QED BY <1>1, <1>2, <1>4, <1>5

(* A multiple is its own nearest multiple.                                 *)
LEMMA NearestExact ==
  ASSUME NEW q \in Nat, NEW d \in Nat, d > 0
  PROVE  Nearest(q * d, d) = q
<1> DEFINE n == q * d
<1>1. n \in Nat
  BY ProductType
<1>2. n = q * d + 0
  BY <1>1
<1> HIDE DEF n
<1>3. n \div d = q /\ n % d = 0
  BY <1>1, <1>2, DivisionUnique
<1>4. Nearest(n, d) = q
  BY <1>3 DEF Nearest
<1> QED BY <1>4 DEF n

(* A common factor does not matter. *)
LEMMA NearestScaled ==
  ASSUME NEW n \in Nat, NEW d \in Nat, NEW c \in Nat, d > 0, c > 0
  PROVE  Nearest(n * c, d * c) = Nearest(n, d)
<1> DEFINE q == n \div d
           r == n % d
           x == n * c
           y == d * c
           s == r * c
<1>1. q \in Nat /\ r \in Nat /\ r < d /\ n = q * d + r
  BY Division
<1>2. Nearest(n, d) = IF 2 * r > d \/ (2 * r = d /\ q % 2 = 1) THEN q + 1 ELSE q
  BY DEF Nearest
<1> HIDE DEF q, r
<1>3. x \in Nat /\ y \in Nat /\ s \in Nat
  BY <1>1, ProductType
<1>4. s < y
  BY <1>1, ProductLess
<1>5. x = q * y + s
  <2>1. (q * d + r) * c = q * (d * c) + r * c
    BY <1>1
  <2> QED BY <2>1, <1>1
<1>6. y > 0
  BY <1>3, <1>4
<1>7. 2 * r \in Nat /\ (2 * r) * c = 2 * s
  BY <1>1
<1>8. /\ 2 * r > d <=> 2 * s > y
      /\ 2 * r = d <=> 2 * s = y
  <2>1. d < 2 * r <=> d * c < (2 * r) * c
    BY <1>7, ProductLess
  <2>2. d = 2 * r <=> d * c = (2 * r) * c
    BY <1>7, ProductLess
  <2>3. d * c = y
    OBVIOUS
  <2> HIDE DEF y, s
  <2>4. d * c < (2 * r) * c <=> y < 2 * s
    BY <2>3, <1>7
  <2>5. d * c = (2 * r) * c <=> y = 2 * s
    BY <2>3, <1>7
  <2> QED BY <2>1, <2>2, <2>4, <2>5, <1>1, <1>3
<1> HIDE DEF x, y, s
<1>9. x \div y = q /\ x % y = s
  BY <1>1, <1>3, <1>4, <1>5, <1>6, DivisionUnique
<1>10. Nearest(x, y) = Nearest(n, d)
  BY <1>2, <1>8, <1>9 DEF Nearest
<1> QED BY <1>10 DEF x, y

-----------------------------------------------------------------------------
(* k scales n / d to a significand. *)
Scales(k, n, d) ==
  /\ n < d * Power[Precision + k]
  /\ k = 0 \/ n >= d * Power[Precision + k - 1]

(* A float scales its mantissa by a power that makes it fit.               *)
LEMMA RoundScales ==
  ASSUME NEW n \in Nat, NEW d \in Nat, d > 0,
         NEW j \in Exponents, n < d * Power[Precision + j]
  PROVE  \E k \in Exponents :
           /\ Scales(k, n, d)
           /\ Round(n, d) = Nearest(n, d * Power[k]) * Power[k]
<1> DEFINE T == {i \in Exponents : n < d * Power[Precision + i]}
<1>1. Exponents \subseteq Nat /\ \A k \in Exponents, i \in Nat : i <= k => i \in Exponents
  <2>1. Modulus \in Nat
    BY PowerType, WidthAssumption DEF Modulus
  <2> QED BY <2>1, PrecisionAssumption DEF Exponents
<1>2. T \in SUBSET Nat /\ T # {}
  BY <1>1
<1>3. PICK k \in T : \A i \in T : k <= i
  <2> HIDE DEF T
  <2> QED BY <1>2, LeastNatural
<1>4. k = 0 \/ n >= d * Power[Precision + k - 1]
  <2> SUFFICES ASSUME k # 0 PROVE n >= d * Power[Precision + k - 1]
    OBVIOUS
  <2>1. k \in Nat /\ k - 1 \in Nat
    BY <1>1
  <2>2. k - 1 \in Exponents /\ k - 1 \notin T
    BY <1>1, <1>3, <2>1
  <2>3. Precision + (k - 1) = Precision + k - 1
    BY <2>1, PrecisionAssumption
  <2>4. ~ (n < d * Power[Precision + k - 1])
    BY <2>2, <2>3
  <2>5. Precision + k - 1 \in Nat
    BY <2>1, PrecisionAssumption
  <2>6. Power[Precision + k - 1] \in Nat
    BY <2>5, PowerType
  <2>7. d * Power[Precision + k - 1] \in Nat
    BY <2>6, ProductType
  <2> QED BY <2>4, <2>7
<1>5. k \in Exponents /\ Scales(k, n, d)
  BY <1>4 DEF Scales
<1> DEFINE c == CHOOSE i \in Exponents : Scales(i, n, d)
<1>6. c \in Exponents /\ Scales(c, n, d)
  BY <1>5
<1>7. Round(n, d) = Nearest(n, d * Power[c]) * Power[c]
  <2>1. ~ (n < 0)
    OBVIOUS
  <2>2. c = CHOOSE i \in Exponents :
             /\ n < d * Power[Precision + i]
             /\ i = 0 \/ n >= d * Power[Precision + i - 1]
    BY DEF Scales
  <2> HIDE DEF c
  <2> QED BY <2>1, <2>2 DEF Round
<1> QED BY <1>6, <1>7

(* Rounding does not see the sign. *)
LEMMA RoundNegative ==
  ASSUME NEW n \in Nat, NEW d \in Nat, Round(n, d) \in Nat
  PROVE  n > 0 => Round(-n, d) = -Round(n, d)
<1> SUFFICES ASSUME n > 0 PROVE Round(-n, d) = -Round(n, d)
  OBVIOUS
<1> DEFINE K(m) == CHOOSE k \in Exponents :
                      /\ m < d * Power[Precision + k]
                      /\ k = 0 \/ m >= d * Power[Precision + k - 1]
           F(m) == Nearest(m, d * Power[K(m)]) * Power[K(m)]
<1>1. \A m : Round(m, d) = IF m < 0 THEN -F(-m) ELSE F(m)
  BY DEF Round
<1> HIDE DEF F
<1>2. -n < 0 /\ -(-n) = n /\ ~ (n < 0)
  OBVIOUS
<1> QED BY <1>1, <1>2

(* The bits behind the point. *)
Point == Width + Precision

(* What one is in fixed point.                                             *)
LEMMA OneIsAPower ==
  /\ Point \in Nat /\ Point >= Precision
  /\ One = Power[Point] /\ One \in Nat /\ One > 0
  /\ Modulus \in Nat /\ Modulus > 0
<1>1. Modulus \in Nat /\ Modulus > 0
  BY PowerType, WidthAssumption DEF Modulus
<1>2. Point \in Nat /\ Point >= Precision
  BY WidthAssumption, PrecisionAssumption DEF Point
<1>3. One = Power[Point]
  BY PowerSum, WidthAssumption, PrecisionAssumption DEF One, Point, Modulus
<1> QED BY <1>1, <1>2, <1>3, PowerType

(* There is an exponent for every number that has to be scaled. *)
LEMMA EnoughExponents == Point + 1 \in Exponents
<1>1. Width < Modulus
  BY PowerGrows, WidthAssumption DEF Modulus
<1> QED BY <1>1, OneIsAPower, WidthAssumption, PrecisionAssumption DEF Exponents, Point

(* Products grow with their factors.                                       *)
LEMMA ProductMonotone ==
  ASSUME NEW a \in Nat, NEW b \in Nat, NEW c \in Nat, a <= b
  PROVE  a * c <= b * c
<1>1. CASE c = 0
  BY <1>1
<1>2. CASE c > 0
  BY <1>2, ProductLess
<1> QED BY <1>1, <1>2

(* A number of few enough bits is a float. *)
LEMMA RoundExact ==
  ASSUME NEW a \in Nat, a <= Power[Precision]
  PROVE  Round(a * One, 1) = a * One
<1> DEFINE n == a * Power[Point]
<1>1. /\ Precision \in Nat /\ Precision > 0 /\ Point \in Nat
      /\ Power[Precision] \in Nat /\ Power[Point] \in Nat /\ Power[Point] > 0
  BY PrecisionAssumption, OneIsAPower, PowerType
<1>2. n \in Nat
  BY <1>1, ProductType
<1>3. n <= Power[Precision + Point]
  BY <1>1, ProductMonotone, PowerSum
<1> HIDE DEF n
<1>4. PICK k \in Exponents : Scales(k, n, 1) /\ Round(n, 1) = Nearest(n, 1 * Power[k]) * Power[k]
  <2>1. Power[Precision + (Point + 1)] = 2 * Power[Precision + Point]
    <3>1. Precision + (Point + 1) = (Precision + Point) + 1 /\ Precision + Point \in Nat
      BY <1>1
    <3> QED BY <3>1, PowerRecursion
  <2>2. Power[Precision + Point] \in Nat /\ Power[Precision + Point] > 0
    BY <1>1, PowerType
  <2>3. n < 1 * Power[Precision + (Point + 1)]
    BY <2>1, <2>2, <1>2, <1>3
  <2> QED BY <2>3, <1>2, EnoughExponents, RoundScales
<1>5. k \in Nat
  <2>1. Exponents \subseteq Nat
    BY OneIsAPower, PrecisionAssumption DEF Exponents
  <2> QED BY <2>1
<1>6. Power[k] \in Nat /\ Power[k] > 0 /\ 1 * Power[k] = Power[k]
  BY <1>5, PowerType
<1>7. SUFFICES \E q \in Nat : n = q * Power[k]
  <2>1. (\E q \in Nat : n = q * Power[k]) => Round(n, 1) = n
    BY <1>4, <1>6, NearestExact
  <2>2. n = a * One
    BY OneIsAPower DEF n
  <2> QED BY <2>1, <2>2
<1>8. CASE k <= Point
  <2>1. Point - k \in Nat /\ k + (Point - k) = Point
    BY <1>1, <1>5, <1>8
  <2>2. Power[Point] = Power[k] * Power[Point - k] /\ Power[Point - k] \in Nat
    BY <2>1, <1>5, PowerSum, PowerType
  <2>3. a * Power[Point - k] \in Nat
    BY <2>2, ProductType
  <2>4. n = (a * Power[Point - k]) * Power[k]
    BY <2>2, <1>6 DEF n
  <2> QED BY <2>3, <2>4
<1>9. CASE k > Point
  <2>1. k # 0 /\ Precision + k - 1 \in Nat
    BY <1>9, <1>1, <1>5
  <2>2. n >= 1 * Power[Precision + k - 1]
    BY <1>4, <2>1 DEF Scales
  <2>3. Power[Precision + k - 1] \in Nat /\ Power[Precision + Point] \in Nat
    BY <2>1, <1>1, PowerType
  <2>4. Power[Precision + k - 1] <= Power[Precision + Point]
    BY <2>2, <2>3, <1>2, <1>3
  <2>5. Precision + k - 1 <= Precision + Point
    BY <2>4, <2>1, <1>1, PowerMonotone
  <2>6. k = Point + 1
    BY <2>5, <1>9, <1>1, <1>5
  <2>7. Precision + k - 1 = Precision + Point
    BY <2>6, <1>1
  <2>8. n = Power[Precision + Point]
    BY <2>2, <2>3, <2>7, <1>2, <1>3
  <2>9. Precision - 1 \in Nat /\ (Precision - 1) + k = Precision + Point
    BY <2>6, <1>1
  <2>10. n = Power[Precision - 1] * Power[k] /\ Power[Precision - 1] \in Nat
    BY <2>8, <2>9, <1>5, PowerSum, PowerType
  <2> QED BY <2>10
<1> QED BY <1>1, <1>5, <1>8, <1>9

(* A multiple and one time more.                                           *)
LEMMA OneMoreTime == ASSUME NEW x \in Nat, NEW y \in Nat PROVE (x + 1) * y = x * y + y
  OBVIOUS

(* The quotient of two floats that are numbers a and b stays between the   *)
(* integers the quotient of a and b is between.                            *)
LEMMA RoundedQuotient ==
  ASSUME NEW a \in Nat, NEW b \in Nat, b > 0, a <= Power[Precision], b <= Power[Precision]
  PROVE  /\ Round((a * One) * One, b * One) \in Nat
         /\ (a \div b) * One <= Round((a * One) * One, b * One)
         /\ Round((a * One) * One, b * One) < (a \div b + 1) * One
<1> DEFINE n == (a * One) * One
           d == b * One
           q == a \div b
           P == Power[Precision]
<1>1. /\ Precision \in Nat /\ Precision > 0 /\ Point \in Nat /\ Point >= Precision
      /\ P \in Nat /\ P > 0 /\ One \in Nat /\ One > 0 /\ One = Power[Point]
  BY PrecisionAssumption, OneIsAPower, PowerType
<1>2. a * One \in Nat /\ n \in Nat /\ d \in Nat /\ d > 0
  <2>1. a * One \in Nat /\ b * One \in Nat
    BY <1>1, ProductType
  <2>2. (a * One) * One \in Nat
    BY <2>1, <1>1, ProductType
  <2>3. One <= One * b
    BY <1>1, ProductLeast
  <2>4. One * b = b * One
    BY <1>1
  <2> QED BY <2>1, <2>2, <2>3, <2>4, <1>1
<1>3. q \in Nat /\ q * b <= a /\ a < (q + 1) * b
  <2>1. q \in Nat /\ a % b \in Nat /\ a % b < b /\ a = q * b + (a % b)
    BY Division
  <2> HIDE DEF q
  <2>2. q * b \in Nat /\ (q + 1) * b = q * b + b
    BY <2>1, ProductType
  <2> QED BY <2>1, <2>2
<1>4. Power[Precision + Point] = P * One
  BY <1>1, PowerSum
<1>5. PICK k \in Exponents : Scales(k, n, d) /\ Round(n, d) = Nearest(n, d * Power[k]) * Power[k]
  <2>1. a * One <= P * One
    BY <1>1, ProductMonotone
  <2>2. n <= (P * One) * One
    <3>1. P * One \in Nat
      BY <1>1, ProductType
    <3> QED BY <2>1, <3>1, <1>1, <1>2, ProductMonotone
  <2>3. Power[Precision + (Point + 1)] = 2 * (P * One)
    <3>1. Precision + (Point + 1) = (Precision + Point) + 1 /\ Precision + Point \in Nat
      BY <1>1
    <3> QED BY <3>1, <1>4, PowerRecursion
  <2>4. n < One * (2 * (P * One))
    <3> DEFINE x == P * One
    <3>1. x \in Nat /\ x > 0
      BY <1>4, <1>1, PowerType
    <3>2. n <= x * One
      BY <2>2
    <3> HIDE DEF x
    <3>3. One * (2 * x) = x * One + x * One /\ x * One \in Nat
      BY <3>1, <1>1
    <3>4. x * One > 0
      BY <3>1, <1>1, ProductLeast
    <3> HIDE DEF n
    <3>5. n < One * (2 * x)
      BY <3>2, <3>3, <3>4, <1>2
    <3> QED BY <3>5 DEF x
  <2>5. One * (2 * (P * One)) <= d * (2 * (P * One))
    <3>1. 2 * (P * One) \in Nat
      BY <1>1
    <3>2. One <= d
      <4>1. One <= One * b /\ One * b = b * One
        BY <1>1, ProductLeast
      <4> QED BY <4>1
    <3> HIDE DEF d
    <3> QED BY <3>1, <3>2, <1>1, <1>2, ProductMonotone
  <2>6. n < d * Power[Precision + (Point + 1)]
    <3>1. Power[Precision + (Point + 1)] \in Nat
      BY <1>1, PowerType
    <3>2. d * Power[Precision + (Point + 1)] \in Nat
      BY <3>1, <1>2, ProductType
    <3>3. One * (2 * (P * One)) \in Nat
      <4>1. 2 * (P * One) \in Nat
        BY <1>1
      <4> QED BY <4>1, <1>1, ProductType
    <3> HIDE DEF n, d, P
    <3> QED BY <2>3, <2>4, <2>5, <3>2, <3>3, <1>2
  <2> HIDE DEF n, d
  <2> QED BY <2>6, <1>2, EnoughExponents, RoundScales
<1> DEFINE U == Power[k]
<1>6. k \in Nat /\ U \in Nat /\ U > 0
  <2>1. Exponents \subseteq Nat
    BY OneIsAPower, PrecisionAssumption DEF Exponents
  <2> QED BY <2>1, PowerType
(* A factor One drops out of the scaled quotient. *)
<1>7. Round(n, d) = Nearest(a * One, b * U) * U
  <2>1. b * U \in Nat /\ b * U > 0
    <3>1. U <= U * b /\ U * b = b * U
      BY <1>6, ProductLeast
    <3>2. b * U \in Nat
      BY <1>6, ProductType
    <3> QED BY <3>1, <3>2, <1>6
  <2>2. d * U = (b * U) * One
    BY <1>1, <1>6
  <2>3. Nearest((a * One) * One, (b * U) * One) = Nearest(a * One, b * U)
    <3> DEFINE x == a * One
               y == b * U
    <3>1. x \in Nat /\ y \in Nat /\ y > 0
      BY <2>1, <1>2
    <3> HIDE DEF x, y
    <3>2. Nearest(x * One, y * One) = Nearest(x, y)
      BY <3>1, <1>1, NearestScaled
    <3> QED BY <3>2 DEF x, y
  <2> QED BY <2>2, <2>3, <1>5
(* The significand has all its bits. *)
<1>8. k # 0 => a * One >= b * Power[Precision + k - 1]
  <2> SUFFICES ASSUME k # 0 PROVE a * One >= b * Power[Precision + k - 1]
    OBVIOUS
  <2> DEFINE w == Power[Precision + k - 1]
  <2>1. w \in Nat
    <3>1. Precision + k - 1 \in Nat
      BY <1>1, <1>6
    <3> QED BY <3>1, PowerType
  <2>2. n >= d * w
    BY <1>5 DEF Scales
  <2> HIDE DEF w
  <2>3. d * w = (b * w) * One /\ b * w \in Nat
    BY <2>1, <1>1
  <2>4. ~ ((a * One) * One < (b * w) * One)
    <3>1. (b * w) * One \in Nat
      BY <2>3, <1>1, ProductType
    <3> HIDE DEF d
    <3> QED BY <2>2, <2>3, <3>1, <1>2
  <2>5. ~ (a * One < b * w)
    BY <2>4, <2>3, <1>1, <1>2, ProductLess
  <2>6. a * One >= b * w
    BY <2>5, <2>3, <1>2
  <2> QED BY <2>6 DEF w
<1> HIDE DEF n, d, q, P, U
<1>9. CASE k <= Point
  <2> DEFINE V == Power[Point - k]
             N == Nearest(a * V, b)
             T == (q + 1) * V
  <2>1. Point - k \in Nat /\ V \in Nat /\ V > 0
    BY <1>9, <1>1, <1>6, PowerType
  <2>2. One = V * U
    <3>1. (Point - k) + k = Point
      BY <1>1, <1>6
    <3> QED BY <3>1, <2>1, <1>1, <1>6, PowerSum DEF U
  <2>3. Round(n, d) = N * U
    <3>1. a * One = (a * V) * U /\ a * V \in Nat
      BY <2>1, <2>2, <1>6
    <3>2. Nearest((a * V) * U, b * U) = Nearest(a * V, b)
      BY <3>1, <1>6, NearestScaled
    <3> QED BY <3>1, <3>2, <1>7
  <2>4. a * V \in Nat /\ q * V \in Nat /\ T \in Nat
    BY <2>1, <1>3, ProductType
  <2>5. N \in Nat /\ (a * V) \div b <= N /\ 2 * (N * b) <= 2 * (a * V) + b
    BY <2>4, NearestBounds
  <2> HIDE DEF V, N
  <2>6. q * V <= (a * V) \div b
    <3> DEFINE m == (a * V) \div b
    <3>1. m \in Nat /\ a * V < (m + 1) * b
      <4> DEFINE s == (a * V) % b
      <4>1. m \in Nat /\ s \in Nat /\ s < b /\ a * V = m * b + s
        BY <2>4, Division
      <4> HIDE DEF m, s
      <4>2. m * b \in Nat /\ (m + 1) * b = m * b + b
        BY <4>1, ProductType
      <4> QED BY <4>1, <4>2
    <3> HIDE DEF m
    <3>2. (q * b) * V <= a * V
      <4>1. q * b \in Nat
        BY <1>3, ProductType
      <4> QED BY <4>1, <1>3, <2>1, ProductMonotone
    <3>3. (q * b) * V = (q * V) * b
      BY <1>3, <2>1
    <3>4. (q * V) * b < (m + 1) * b
      <4>1. (q * V) * b \in Nat /\ (m + 1) * b \in Nat
        BY <2>4, <3>1, ProductType
      <4> QED BY <3>1, <3>2, <3>3, <4>1, <2>4
    <3>5. q * V < m + 1
      BY <3>1, <3>4, <2>4, ProductLess
    <3> QED BY <3>1, <3>5, <2>4 DEF m
  <2>7. q * V <= N
    <3> DEFINE m == (a * V) \div b
    <3>1. m \in Nat
      BY <2>4, Division
    <3> HIDE DEF m
    <3> QED BY <3>1, <2>4, <2>5, <2>6 DEF m
  <2>8. N < T
    <3> SUFFICES ASSUME T <= N PROVE FALSE
      BY <2>4, <2>5
    <3>1. T * b <= N * b
      BY <2>4, <2>5, ProductMonotone
    <3>2. a * V + V <= T * b
      <4>1. a + 1 <= (q + 1) * b /\ (q + 1) * b \in Nat
        <5>1. (q + 1) * b \in Nat
          BY <1>3, ProductType
        <5> QED BY <5>1, <1>3
      <4>2. (a + 1) * V <= ((q + 1) * b) * V
        BY <4>1, <2>1, ProductMonotone
      <4>3. (a + 1) * V = a * V + V /\ ((q + 1) * b) * V = T * b
        BY <1>3, <2>1
      <4> QED BY <4>2, <4>3
    <3>3. T * b \in Nat /\ N * b \in Nat
      BY <2>4, <2>5, ProductType
    <3> HIDE DEF T
    <3>4. 2 * V <= b
      BY <3>1, <3>2, <3>3, <2>1, <2>4, <2>5
    <3>5. CASE k = 0
      <4>1. V = One
        <5>1. Point - k = Point
          BY <3>5, <1>1
        <5> QED BY <5>1, <1>1 DEF V
      <4>2. P <= One
        BY <1>1, PowerMonotone DEF P
      <4> QED BY <4>1, <4>2, <3>4, <1>1 DEF P
    <3>6. CASE k # 0
      <4> DEFINE w == Power[Precision + k - 1]
      <4>1. Precision + k - 1 \in Nat /\ w \in Nat /\ w > 0
        BY <3>6, <1>1, <1>6, PowerType
      <4>2. (2 * V) * w = P * One
        <5>1. (Point - k) + 1 \in Nat /\ Power[(Point - k) + 1] = 2 * V
          BY <2>1, PowerRecursion DEF V
        <5>2. ((Point - k) + 1) + (Precision + k - 1) = Precision + Point
          BY <1>1, <1>6
        <5>3. Power[((Point - k) + 1) + (Precision + k - 1)] = (2 * V) * w
          BY <5>1, <4>1, PowerSum
        <5> QED BY <5>2, <5>3, <1>4
      <4>3. b * w <= a * One
        BY <3>6, <1>8
      <4> HIDE DEF w
      <4>4. (2 * V) * w <= b * w
        <5>1. 2 * V \in Nat
          BY <2>1
        <5> QED BY <5>1, <3>4, <4>1, ProductMonotone
      <4>5. a * One <= P * One
        BY <1>1, ProductMonotone DEF P
      <4>6. P * One = a * One /\ (2 * V) * w = b * w
        <5>1. b * w \in Nat /\ P * One \in Nat /\ a * One \in Nat
          BY <4>1, <1>1, <1>2, ProductType
        <5> QED BY <5>1, <4>2, <4>3, <4>4, <4>5
      <4>7. a = P /\ b = 2 * V
        <5>1. 2 * V \in Nat
          BY <2>1
        <5> QED BY <5>1, <4>6, <4>1, <1>1, ProductLess
      <4> DEFINE h == Power[Precision - 1]
      <4>8. h \in Nat /\ P = 2 * h
        <5>1. Precision - 1 \in Nat /\ (Precision - 1) + 1 = Precision
          BY <1>1
        <5> QED BY <5>1, PowerType, PowerRecursion DEF P
      <4> HIDE DEF h
      <4>9. a * V = h * b
        BY <4>7, <4>8, <2>1
      <4>10. N = h
        BY <4>8, <4>9, NearestExact DEF N
      <4> QED BY <4>9, <4>10, <3>1, <3>2, <3>3, <2>1, <2>4
    <3> QED BY <3>5, <3>6
  <2>9. (q * V) * U <= N * U /\ N * U < T * U
    BY <2>4, <2>5, <2>7, <2>8, <1>6, ProductMonotone, ProductLess
  <2>10. (q * V) * U = q * One /\ T * U = (q + 1) * One
    BY <2>1, <2>2, <1>3, <1>6
  <2>11. N * U \in Nat
    BY <2>5, <1>6, ProductType
  <2> QED BY <2>3, <2>9, <2>10, <2>11 DEF n, d, q
<1>10. CASE k > Point
  <2> DEFINE w == Power[Precision + k - 1]
  <2>1. k # 0 /\ Precision + k - 1 \in Nat /\ w \in Nat /\ w > 0
    BY <1>10, <1>1, <1>6, PowerType
  <2>2. b * w <= a * One
    BY <2>1, <1>8
  <2>3. w <= b * w
    <3>1. w <= w * b /\ w * b = b * w
      BY <2>1, ProductLeast
    <3> QED BY <3>1
  <2>4. a * One <= P * One
    BY <1>1, ProductMonotone DEF P
  <2>5. P * One <= w
    <3>1. Precision + Point \in Nat /\ Precision + Point <= Precision + k - 1
      BY <1>10, <1>1, <1>6
    <3> QED BY <3>1, <2>1, <1>4, PowerMonotone
  <2>6. a * One = P * One /\ P * One = w /\ b * w = w
    <3>1. b * w \in Nat /\ P * One \in Nat
      BY <2>1, <1>1, ProductType
    <3> HIDE DEF w
    <3> QED BY <3>1, <2>1, <2>2, <2>3, <2>4, <2>5, <1>2
  <2>7. b = 1
    <3>1. b * w = 1 * w
      BY <2>1, <2>6
    <3> HIDE DEF w
    <3> QED BY <3>1, <2>1, ProductLess
  <2>8. k = Point + 1
    <3>1. Precision + Point \in Nat /\ Power[Precision + k - 1] <= Power[Precision + Point]
      BY <2>6, <2>1, <1>1, <1>4
    <3>2. Precision + k - 1 <= Precision + Point
      BY <3>1, <2>1, PowerMonotone
    <3> QED BY <3>2, <1>10, <1>1, <1>6
  <2>9. PICK h \in Nat : a * One = h * U
    <3>1. Precision - 1 \in Nat /\ (Precision - 1) + k = Precision + Point
      BY <2>8, <1>1
    <3>2. P * One = Power[Precision - 1] * U /\ Power[Precision - 1] \in Nat
      BY <3>1, <1>4, <1>6, PowerSum, PowerType DEF U
    <3> QED BY <3>2, <2>6
  <2>10. Round(n, d) = a * One
    <3>1. b * U = U
      BY <2>7, <1>6
    <3>2. Nearest(h * U, U) = h
      BY <1>6, NearestExact
    <3> QED BY <3>1, <3>2, <2>9, <1>7
  <2>11. q = a
    <3>1. a = a * 1 + 0
      OBVIOUS
    <3> QED BY <3>1, <2>7, DivisionUnique DEF q
  <2>12. (a + 1) * One = a * One + One
    BY <1>1, OneMoreTime
  <2> QED BY <2>10, <2>11, <2>12, <1>1, <1>2 DEF n, d, q
<1> QED BY <1>1, <1>6, <1>9, <1>10

(* Half of the words are not negative.                                     *)
LEMMA HalfPositive == Half \in Nat \ {0} /\ Modulus = 2 * Half
<1>1. Width - 1 \in Nat /\ (Width - 1) + 1 = Width
  BY WidthAssumption
<1> QED BY <1>1, PowerType, PowerRecursion DEF Half, Modulus

(* The magnitude and the value of a word.                                  *)
LEMMA WordValues ==
  ASSUME NEW x \in Word
  PROVE  /\ x \in Nat /\ x < Modulus
         /\ Magnitude(x) \in Nat /\ Value(x) \in Int
         /\ Negative(x) => Magnitude(x) <= Half /\ Magnitude(x) > 0 /\ Value(x) = -Magnitude(x)
         /\ ~Negative(x) => x < Half /\ Magnitude(x) = x /\ Value(x) = x
  BY HalfPositive DEF Word, Negative, Magnitude, Value

(* A word is negative or not.                                              *)
LEMMA SignsAreTruthValues == \A x \in Word : Negative(x) \in BOOLEAN
  BY DEF Negative

(* Zero is its own negation.                                               *)
LEMMA Negation == -0 = 0
<1>1. \A x \in Int : -x = 0 - x
  OBVIOUS
<1>2. 0 \in Int /\ 0 - 0 = 0
  OBVIOUS
<1> QED BY <1>1, <1>2

(* A sign goes out of a product.                                           *)
LEMMA NegativeProduct == ASSUME NEW x \in Int, NEW y \in Int PROVE (-x) * y = -(x * y)
  OBVIOUS

(* A small negative integer is a float.                                    *)
LEMMA RoundExactNegative ==
  ASSUME NEW a \in Nat, a > 0, a <= Power[Precision]
  PROVE  Round((-a) * One, 1) = (-a) * One
<1> DEFINE n == a * One
<1>1. n \in Nat /\ n > 0
  <2>1. One \in Nat /\ One > 0
    BY OneIsAPower
  <2> QED BY <2>1, ProductType, ProductLeast
<1>2. Round(n, 1) = n
  BY RoundExact
<1>3. (-a) * One = -n
  <2>1. One \in Int /\ a \in Int
    BY OneIsAPower
  <2> QED BY <2>1, NegativeProduct
<1> HIDE DEF n
<1>4. Round(-n, 1) = -n
  BY <1>1, <1>2, RoundNegative
<1> QED BY <1>3, <1>4

(* Words of few enough bits are converted exactly. *)
LEMMA SignedFloat ==
  ASSUME NEW x \in Word, Magnitude(x) <= Power[Precision]
  PROVE  SINT_TO_FP[x] = Value(x) * One
<1>1. SINT_TO_FP[x] = Round(Value(x) * One, 1)
  BY DEF SINT_TO_FP
<1>2. CASE Negative(x)
  BY <1>1, <1>2, WordValues, RoundExactNegative
<1>3. CASE ~Negative(x)
  BY <1>1, <1>3, WordValues, RoundExact
<1> QED BY <1>2, <1>3

(* A small unsigned word is a float.                                       *)
LEMMA UnsignedFloat ==
  ASSUME NEW x \in Word, x <= Power[Precision]
  PROVE  UINT_TO_FP[x] = x * One
<1>1. UINT_TO_FP[x] =
        IF Negative(x) THEN Round(SINT_TO_FP[x] + Modulus * One, 1) ELSE SINT_TO_FP[x]
  BY DEF UINT_TO_FP
<1>2. CASE Negative(x)
  <2>1. Magnitude(x) <= Power[Precision]
    <3>1. Half <= x
      BY <1>2 DEF Negative
    <3>2. Power[Precision] \in Nat
      BY PrecisionAssumption, PowerType
    <3> QED BY <3>1, <3>2, <1>2, WordValues, HalfPositive
  <2>2. SINT_TO_FP[x] = Value(x) * One
    BY <2>1, SignedFloat
  <2>3. Value(x) = x - Modulus
    BY <1>2 DEF Value
  <2>4. (x - Modulus) * One + Modulus * One = x * One
    BY WordValues, OneIsAPower
  <2> QED BY <1>1, <1>2, <2>2, <2>3, <2>4, WordValues, RoundExact
<1>3. CASE ~Negative(x)
  BY <1>1, <1>3, WordValues, SignedFloat
<1> QED BY <1>2, <1>3

-----------------------------------------------------------------------------
Rounded(a, b) == Round((a * One) * One, b * One)

(* What is divided is positive where the operands are.                     *)
LEMMA FloatProducts ==
  ASSUME NEW a \in Nat, a > 0
  PROVE  a * One \in Nat /\ a * One > 0 /\ (a * One) * One \in Nat /\ (a * One) * One > 0
<1>1. One \in Nat /\ One > 0
  BY OneIsAPower
<1>2. a * One \in Nat /\ a * One > 0
  BY <1>1, ProductType, ProductLeast
<1> DEFINE x == a * One
<1> HIDE DEF x
<1>3. x \in Nat /\ x > 0
  BY <1>2 DEF x
<1>4. x * One \in Nat /\ x * One > 0
  BY <1>1, <1>3, ProductType, ProductLeast
<1> QED BY <1>2, <1>4 DEF x

(* The truncated quotient, with either sign. *)
LEMMA TruncatedQuotient ==
  ASSUME NEW a \in Nat, NEW b \in Nat, b > 0, a <= Power[Precision], b <= Power[Precision]
  PROVE  /\ Truncate(Rounded(a, b)) = a \div b
         /\ Truncate(-Rounded(a, b)) = -(a \div b)
<1> DEFINE q == a \div b
           f == Rounded(a, b)
<1>1. q \in Nat
  BY Division
<1>2. f \in Nat /\ q * One <= f /\ f < (q + 1) * One
  BY RoundedQuotient DEF Rounded
<1>3. One \in Nat /\ One > 0
  BY OneIsAPower
<1> HIDE DEF q, f
<1>4. f \div One = q
  <2>1. q * One \in Nat /\ (q + 1) * One = q * One + One
    BY <1>1, <1>3, ProductType, OneMoreTime
  <2> DEFINE p == q * One
  <2>2. p \in Nat /\ f - p \in Nat /\ f - p < One /\ f = q * One + (f - p)
    BY <2>1, <1>2, <1>3
  <2> QED BY <2>2, <1>1, <1>2, <1>3, DivisionUnique
<1>5. Truncate(f) = q
  BY <1>2, <1>4 DEF Truncate
<1>6. Truncate(-f) = -q
  <2>1. CASE f = 0
    <3>1. -f = 0 /\ ~(0 < 0)
      BY <2>1, Negation
    <3>2. q = 0 \div One
      BY <2>1, <1>4
    <3>3. q = 0
      BY <2>1, <3>2, <1>1, <1>2, <1>3, ProductLeast
    <3>4. Truncate(0) = 0 \div One
      BY DEF Truncate
    <3> QED BY <3>1, <3>2, <3>3, <3>4
  <2>2. CASE f # 0
    <3>1. -f < 0 /\ -(-f) = f
      BY <2>2, <1>2
    <3> QED BY <3>1, <1>4 DEF Truncate
  <2> QED BY <2>1, <2>2
<1> QED BY <1>5, <1>6 DEF q, f

(* The division of two floats, by the signs of its operands. *)
LEMMA DividedFloats ==
  ASSUME NEW a \in Nat, NEW b \in Nat, b > 0, a <= Power[Precision], b <= Power[Precision]
  PROVE  /\ FDIV(a * One, b * One) = Rounded(a, b)
         /\ FDIV((-a) * One, (-b) * One) = Rounded(a, b)
         /\ a > 0 => FDIV((-a) * One, b * One) = -Rounded(a, b)
         /\ a > 0 => FDIV(a * One, (-b) * One) = -Rounded(a, b)
<1> DEFINE x == a * One
           y == b * One
           n == x * One
<1>1. x \in Nat /\ n \in Nat /\ y \in Nat /\ y > 0 /\ One \in Nat /\ (a > 0 => n > 0)
  <2>1. CASE a = 0
    <3>1. x = 0 /\ n = 0
      BY <2>1, OneIsAPower
    <3> QED BY <3>1, <2>1, OneIsAPower, FloatProducts
  <2>2. CASE a > 0
    BY <2>2, OneIsAPower, FloatProducts
  <2> QED BY <2>1, <2>2
<1>2. (-a) * One = -x /\ (-b) * One = -y
  BY OneIsAPower, NegativeProduct
<1>3. Rounded(a, b) = Round(n, y)
  BY DEF Rounded
<1>4. Round(n, y) \in Nat
  BY RoundedQuotient
<1> HIDE DEF x, y
<1>5. /\ x * One = n /\ (-x) * One = -n /\ -(x * One) = -n
      /\ (-(-x)) * One = n /\ -((-x) * One) = n
      /\ -(-y) = y /\ -y < 0 /\ ~(y < 0)
  BY <1>1, NegativeProduct
<1> HIDE DEF n
<1>6. n > 0 => Round(-n, y) = -Round(n, y)
  BY <1>1, <1>4, RoundNegative
<1>7. FDIV(x, y) = Round(n, y)
  BY <1>5 DEF FDIV
<1>8. FDIV(-x, -y) = Round(n, y)
  BY <1>5 DEF FDIV
<1>9. FDIV(-x, y) = Round(-n, y)
  BY <1>5 DEF FDIV
<1>10. FDIV(x, -y) = Round(-n, y)
  BY <1>5 DEF FDIV
<1> QED BY <1>1, <1>2, <1>3, <1>6, <1>7, <1>8, <1>9, <1>10 DEF x, y

(* The expanded divisions. *)
LEMMA UnsignedDivision ==
  ASSUME NEW x \in Word, NEW y \in Word \ {0}, x <= Power[Precision], y <= Power[Precision]
  PROVE  UDIV[x][y] = x \div y
<1>1. UDIV[x][y] = Truncate(FDIV(UINT_TO_FP[x], UINT_TO_FP[y]))
  BY DEF UDIV
<1>2. UINT_TO_FP[x] = x * One /\ UINT_TO_FP[y] = y * One
  BY UnsignedFloat
<1>3. x \in Nat /\ y \in Nat /\ y > 0
  BY WordValues
<1> QED BY <1>1, <1>2, <1>3, DividedFloats, TruncatedQuotient

(* Dividing signed words through floats gives the quotient of their        *)
(* magnitudes with the sign of the quotient.                               *)
LEMMA SignedDivision ==
  ASSUME NEW x \in Word, NEW y \in Word \ {0},
         Magnitude(x) <= Power[Precision], Magnitude(y) <= Power[Precision]
  PROVE  SDIV[x][y] = IF Negative(x) = Negative(y)
                      THEN Magnitude(x) \div Magnitude(y)
                      ELSE -(Magnitude(x) \div Magnitude(y))
<1> DEFINE a == Magnitude(x)
           b == Magnitude(y)
<1>1. SDIV[x][y] = Truncate(FDIV(Value(x) * One, Value(y) * One))
  BY SignedFloat DEF SDIV
<1>2. a \in Nat /\ b \in Nat /\ b > 0
  BY WordValues
<1>3. /\ Negative(x) => Value(x) = -a /\ a > 0
      /\ ~Negative(x) => Value(x) = a
      /\ Negative(y) => Value(y) = -b
      /\ ~Negative(y) => Value(y) = b
  BY WordValues
<1>4. /\ FDIV(a * One, b * One) = Rounded(a, b)
      /\ FDIV((-a) * One, (-b) * One) = Rounded(a, b)
      /\ a > 0 => FDIV((-a) * One, b * One) = -Rounded(a, b)
      /\ a > 0 => FDIV(a * One, (-b) * One) = -Rounded(a, b)
  BY <1>2, DividedFloats
<1>5. Truncate(Rounded(a, b)) = a \div b /\ Truncate(-Rounded(a, b)) = -(a \div b)
  BY <1>2, TruncatedQuotient
<1>6. a = 0 => (-b) * One < 0
  BY <1>2, OneIsAPower, FloatProducts, NegativeProduct
<1> HIDE DEF a, b
<1>7. CASE a > 0
  <2>1. /\ Negative(x) /\ Negative(y) => SDIV[x][y] = a \div b
        /\ ~Negative(x) /\ ~Negative(y) => SDIV[x][y] = a \div b
    BY <1>1, <1>3, <1>4, <1>5
  <2>2. /\ Negative(x) /\ ~Negative(y) => SDIV[x][y] = -(a \div b)
        /\ ~Negative(x) /\ Negative(y) => SDIV[x][y] = -(a \div b)
    BY <1>1, <1>3, <1>4, <1>5, <1>7
  <2> QED BY <2>1, <2>2, SignsAreTruthValues DEF a, b
<1>8. CASE a = 0
  <2>1. a \div b = 0 /\ -(a \div b) = 0
    <3>1. a = 0 * b + 0
      BY <1>8, <1>2
    <3>2. a \div b = 0
      BY <3>1, <1>2, DivisionUnique
    <3> QED BY <3>2, Negation
  <2>2. ~Negative(x) /\ -a = a
    <3>1. -a = a
      BY <1>2, <1>8, Negation
    <3> QED BY <3>1, <1>3, <1>8
  <2>3. Negative(y) => SDIV[x][y] = 0
    BY <2>1, <2>2, <1>1, <1>3, <1>4, <1>5
  <2>4. ~Negative(y) => SDIV[x][y] = 0
    BY <2>1, <2>2, <1>1, <1>3, <1>4, <1>5
  <2> QED BY <2>1, <2>3, <2>4 DEF a, b
<1> QED BY <1>2, <1>7, <1>8

(* The remainder is the only one, for a dividend below zero too. *)
LEMMA RemainderUnique ==
  ASSUME NEW a \in Int, NEW b \in Nat, b > 0, NEW q \in Int, NEW r \in Nat,
         r < b, a = q * b + r
  PROVE  a % b = r
<1> DEFINE p == a \div b
           s == a % b
<1>1. p \in Int /\ s \in Nat /\ s < b /\ a = p * b + s
  OBVIOUS
<1> HIDE DEF p, s
<1>2. ASSUME NEW x \in Int, NEW y \in Int, x < y PROVE x * b + b <= y * b
  <2>1. PICK d \in Nat : d > 0 /\ y = x + d
    <3> WITNESS y - x \in Nat
    <3> QED BY <1>2
  <2>2. b <= b * d
    BY <2>1, ProductLeast
  <2>3. y * b = x * b + b * d
    BY <2>1
  <2> QED BY <2>2, <2>3, <1>2
<1>3. p * b \in Int /\ q * b \in Int
  BY <1>1
<1>4. ~(p < q)
  <2> SUFFICES ASSUME p < q PROVE FALSE
    OBVIOUS
  <2>1. p * b + b <= q * b
    BY <1>1, <1>2
  <2> QED BY <2>1, <1>1, <1>3
<1>5. ~(q < p)
  <2> SUFFICES ASSUME q < p PROVE FALSE
    OBVIOUS
  <2>1. q * b + b <= p * b
    BY <1>1, <1>2
  <2> QED BY <2>1, <1>1, <1>3
<1>6. p = q
  BY <1>1, <1>4, <1>5
<1> QED BY <1>1, <1>3, <1>6 DEF s

(* Whole turns do not change a word.                                       *)
LEMMA WrapShift ==
  ASSUME NEW z \in Int, NEW k \in Int
  PROVE  Wrap(z + k * Modulus) = Wrap(z)
<1>1. Modulus \in Nat /\ Modulus > 0
  BY HalfPositive
<1> DEFINE p == z \div Modulus
           s == z % Modulus
<1>2. p \in Int /\ s \in Nat /\ s < Modulus /\ z = p * Modulus + s
  BY <1>1
<1> HIDE DEF p, s
<1>3. z + k * Modulus = (p + k) * Modulus + s /\ z + k * Modulus \in Int
  BY <1>1, <1>2
<1>4. (z + k * Modulus) % Modulus = s
  <2> DEFINE y == z + k * Modulus
  <2>1. y = (p + k) * Modulus + s /\ y \in Int
    BY <1>3
  <2> HIDE DEF y
  <2>2. y % Modulus = s
    BY <2>1, <1>1, <1>2, RemainderUnique
  <2> QED BY <2>2 DEF y
<1> QED BY <1>4 DEF Wrap, s

(* A word has the value it was made of, when that is one of a word. *)
LEMMA ValueOfWrap ==
  ASSUME NEW z \in Int, -Half <= z, z < Half
  PROVE  Value(Wrap(z)) = z
<1>1. Half \in Nat /\ Half > 0 /\ Modulus \in Nat /\ Modulus = 2 * Half
  BY HalfPositive
<1>2. CASE z >= 0
  <2>1. z % Modulus = z
    BY <1>1, <1>2
  <2> QED BY <2>1, <1>1, <1>2 DEF Wrap, Value, Negative
<1>3. CASE z < 0
  <2>1. z = (-1) * Modulus + (z + Modulus) /\ z + Modulus \in Nat /\ z + Modulus < Modulus
    BY <1>1, <1>3
  <2>2. z % Modulus = z + Modulus
    BY <2>1, <1>1, RemainderUnique
  <2>3. z + Modulus >= Half /\ (z + Modulus) - Modulus = z
    BY <1>1, <1>3
  <2> QED BY <2>2, <2>3 DEF Wrap, Value, Negative
<1> QED BY <1>2, <1>3

(* A word differs from its value by a multiple of the modulus. *)
LEMMA WordOfValue == ASSUME NEW x \in Word PROVE \E k \in Int : x = Value(x) + k * Modulus
<1>1. x \in Nat /\ Modulus \in Nat
  BY WordValues, HalfPositive
<1>2. CASE Negative(x)
  <2>1. x = Value(x) + 1 * Modulus
    BY <1>1, <1>2 DEF Value
  <2> QED BY <2>1
<1>3. CASE ~Negative(x)
  <2>1. x = Value(x) + 0 * Modulus
    BY <1>1, <1>3 DEF Value
  <2> QED BY <2>1
<1> QED BY <1>2, <1>3

(* Subtraction and multiplication of words are those of their values. *)
LEMMA WrappedValues ==
  ASSUME NEW x \in Word, NEW y \in Word, NEW q \in Word
  PROVE  Wrap(x - q * y) = Wrap(Value(x) - Value(q) * Value(y))
<1>1. PICK i \in Int : x = Value(x) + i * Modulus
  BY WordOfValue
<1>2. PICK j \in Int : y = Value(y) + j * Modulus
  BY WordOfValue
<1>3. PICK k \in Int : q = Value(q) + k * Modulus
  BY WordOfValue
<1> DEFINE u == Value(x)
           v == Value(y)
           w == Value(q)
           m == Modulus
           z == i - (w * j + k * v + k * (j * m))
<1>4. u \in Int /\ v \in Int /\ w \in Int /\ m \in Int
  BY WordValues, HalfPositive
<1> HIDE DEF u, v, w, m
<1>5. z \in Int
  BY <1>4
<1>6. (w + k * m) * (v + j * m) = w * v + (w * j + k * v + k * (j * m)) * m
  <2>1. (w + k * m) * (v + j * m) = w * (v + j * m) + (k * m) * (v + j * m)
    BY <1>4
  <2>2. w * (v + j * m) = w * v + (w * j) * m
    BY <1>4
  <2>3. (k * m) * (v + j * m) = (k * v) * m + (k * (j * m)) * m
    BY <1>4
  <2>4. (w * j + k * v + k * (j * m)) * m = (w * j) * m + (k * v) * m + (k * (j * m)) * m
    BY <1>4
  <2>5. w * v \in Int /\ (w * j) * m \in Int /\ (k * v) * m \in Int /\ (k * (j * m)) * m \in Int
    BY <1>4
  <2> QED BY <2>1, <2>2, <2>3, <2>4, <2>5
<1>7. x - q * y = (u - w * v) + z * m
  <2>1. x = u + i * m /\ y = v + j * m /\ q = w + k * m
    BY <1>1, <1>2, <1>3 DEF u, v, w, m
  <2> DEFINE t == w * j + k * v + k * (j * m)
  <2>2. t \in Int /\ z = i - t
    BY <1>4
  <2>3. q * y = w * v + t * m
    BY <2>1, <1>6
  <2> HIDE DEF t, z
  <2>4. z * m = i * m - t * m
    BY <2>2, <1>4
  <2>5. w * v \in Int /\ i * m \in Int /\ t * m \in Int
    BY <2>2, <1>4
  <2> QED BY <2>1, <2>3, <2>4, <2>5, <1>4
<1>8. u - w * v \in Int
  BY <1>4
<1> HIDE DEF z
<1>9. Wrap((u - w * v) + z * m) = Wrap(u - w * v)
  BY <1>5, <1>8, WrapShift DEF m
<1> QED BY <1>7, <1>9 DEF u, v, w

-----------------------------------------------------------------------------

(* q is the quotient of a by b. *)
IsQuotient(q, a, b) == q * b <= a /\ a < (q + 1) * b

(* What the call has established at each point of the code. *)
EntryInv == pc = "entry" => sign1 = 0

(* The expanded operations never enter a helper. *)
HelperInv == pc \in {"udiv", "loop", "quotient"} => call.fn \notin FloatFns

UdivInv ==
  pc = "udiv" /\ Plain =>
    dividend = call.value1 /\ divisor = call.value2 /\ sign1 = 0

(* The loop takes away what it counts. *)
LoopInv ==
  pc \in {"loop", "quotient"} /\ Plain =>
    /\ divisor = call.value2 /\ sign1 = 0
    /\ dividend + res * divisor = call.value1

NonzeroInv == pc = "loop" => divisor # 0

RestInv == pc = "quotient" /\ divisor # 0 => dividend < divisor

RemainderInv ==
  pc = "remainder" =>
    /\ call.fn \in RemainderFns
    /\ Plain /\ call.value2 # 0 /\ call.fn \notin FloatFns =>
         IsQuotient(res, call.value1, call.value2)

(* The floats gave the quotient, with the sign C gives it. *)
FloatQuotient ==
  (IF Signed THEN Value(res) ELSE res) =
    IF Flipped THEN -(Size(call.value1) \div Size(call.value2))
               ELSE Size(call.value1) \div Size(call.value2)

(* ... and what the multiplication made of it is the remainder. *)
FloatRemainder ==
  (IF Signed THEN Value(res) ELSE res) =
    IF Signed /\ Negative(call.value1) THEN -(Size(call.value1) % Size(call.value2))
                                       ELSE Size(call.value1) % Size(call.value2)

FloatInv == pc = "remainder" /\ FloatOperands => FloatQuotient

(* What the variables range over. *)
TypeOK ==
  /\ call \in [fn : Functions, value1 : Word, value2 : Word]
  /\ pc \in Pc
  /\ dividend \in Word /\ divisor \in Word /\ res \in Word
  /\ sign1 \in {0, 1}

Inv ==
  /\ TypeOK
  /\ EntryInv /\ HelperInv /\ UdivInv /\ LoopInv /\ NonzeroInv /\ RestInv /\ RemainderInv
  /\ QuotientRight /\ RemainderRight
  /\ FloatInv /\ FloatDivisionRight

-----------------------------------------------------------------------------
(* Arithmetic *)
LEMMA WordsAreIntegers == /\ Modulus \in Nat /\ Modulus > 0
                          /\ Word \subseteq Nat
                          /\ \A x \in Word : x < Modulus
  BY HalfPositive DEF Word

(* A word does not change when it is brought into a word. *)
LEMMA WrapIdentity == ASSUME NEW x \in Word PROVE Wrap(x) = x
  BY HalfPositive DEF Wrap, Word

(* Wrapping gives a word.                                                  *)
LEMMA WrapType == ASSUME NEW x \in Int PROVE Wrap(x) \in Word
  BY HalfPositive DEF Wrap, Word

(* Applying a sign gives a word.                                           *)
LEMMA ApplySignType ==
  ASSUME NEW x \in Word, NEW s \in {0, 1} PROVE ApplySign(x, s) \in Word
<1>1. Flip(x, s) \in Int
  BY WordsAreIntegers DEF Flip
<1>2. Flip(x, s) - s \in Int
  BY <1>1
<1> QED BY <1>2, WrapType DEF ApplySign

(* Applying the sign of a positive number changes nothing.                 *)
LEMMA ApplyNoSign == ASSUME NEW x \in Word PROVE ApplySign(x, 0) = x
<1>1. Flip(x, 0) - 0 = x
  BY WordsAreIntegers DEF Flip
<1> QED BY <1>1, WrapIdentity DEF ApplySign

(* One more divisor taken away. *)
LEMMA OneMore ==
  ASSUME NEW d \in Nat, NEW b \in Nat, NEW q \in Nat
  PROVE  (d - b) + (q + 1) * b = d + q * b
  OBVIOUS

(* A count of divisors stays below the number they are taken from. *)
LEMMA CountBelow ==
  ASSUME NEW d \in Nat, NEW b \in Nat, NEW q \in Nat, NEW a \in Nat,
         d >= b, b # 0, d + q * b = a
  PROVE  q + 1 <= a
<1>1. q * b >= q
  <2>1. q * b = q + q * (b - 1)
    OBVIOUS
  <2>2. q * (b - 1) \in Nat
    <3>1. b - 1 \in Nat
      OBVIOUS
    <3> QED BY <3>1, ProductType
  <2> QED BY <2>1, <2>2
<1>2. q * b \in Nat
  BY ProductType
<1> QED BY <1>1, <1>2

(* What the loop leaves is what the quotient leaves. *)
LEMMA LoopQuotient ==
  ASSUME NEW d \in Nat, NEW b \in Nat, NEW q \in Nat, NEW a \in Nat,
         d < b, d + q * b = a
  PROVE  IsQuotient(q, a, b)
<1>1. q * b \in Nat
  BY ProductType
<1>2. (q + 1) * b = q * b + b
  OBVIOUS
<1> QED BY <1>1, <1>2 DEF IsQuotient

(* The remainder computed from a quotient is below the divisor. *)
LEMMA RemainderOfQuotient ==
  ASSUME NEW a \in Word, NEW b \in Word, NEW q \in Word, IsQuotient(q, a, b)
  PROVE  /\ Wrap(a - q * b) = a - q * b
         /\ Wrap(a - q * b) < b
<1> DEFINE m == q * b
<1>1. m \in Nat
  BY WordsAreIntegers, ProductType
<1>2. m <= a
  BY DEF IsQuotient
<1>3. a < m + b
  <2>1. (q + 1) * b = m + b
    BY WordsAreIntegers
  <2> QED BY <2>1 DEF IsQuotient
<1>4. a - m \in Word
  BY <1>1, <1>2, WordsAreIntegers DEF Word
<1>5. a - m < b
  BY <1>1, <1>3, WordsAreIntegers
<1> QED BY <1>4, <1>5, WrapIdentity

-----------------------------------------------------------------------------
(* The invariant holds at the call. *)
LEMMA InitInv == Init => Inv
<1> SUFFICES ASSUME Init PROVE Inv
  OBVIOUS
<1>1. 0 \in Word
  BY HalfPositive DEF Word
<1>2. TypeOK
  BY <1>1 DEF Init, TypeOK, Pc
<1> QED
  BY <1>2 DEF Init, Inv, EntryInv, HelperInv, UdivInv, LoopInv, NonzeroInv, RestInv, RemainderInv,
              QuotientRight, RemainderRight, Done, FloatInv, FloatDivisionRight

(* Plain is about the call alone. *)
LEMMA PlainKept == call' = call => Plain' = Plain
  BY DEF Plain, Negative, SignedFns

(* A plain call has no sign. *)
LEMMA PlainSigns ==
  ASSUME Plain, call.fn \in SignedFns
  PROVE  SignOf(call.value1) = 0 /\ SignOf(call.value2) = 0
  BY DEF Plain, SignOf

(* What is said of a call is kept while the call and its result are.       *)
LEMMA FloatsKept ==
  ASSUME call' = call
  PROVE  /\ FloatOperands' <=> FloatOperands
         /\ res' = res => (FloatQuotient' <=> FloatQuotient) /\ (FloatRemainder' <=> FloatRemainder)
<1>1. /\ Signed' <=> Signed
      /\ Flipped' <=> Flipped
      /\ Size(call.value1)' = Size(call.value1) /\ Size(call.value2)' = Size(call.value2)
  BY DEF Signed, Flipped, Size, Magnitude, Negative
<1>2. FloatOperands' <=> FloatOperands
  BY <1>1 DEF FloatOperands
<1> QED BY <1>1, <1>2 DEF FloatQuotient, FloatRemainder, Value, Negative

(* The operands of a division of floats. *)
LEMMA FloatSizes ==
  ASSUME TypeOK, FloatOperands
  PROVE  /\ call.value1 \in Word /\ call.value2 \in Word \ {0}
         /\ Size(call.value1) \in Nat /\ Size(call.value2) \in Nat /\ Size(call.value2) > 0
         /\ Size(call.value1) \div Size(call.value2) \in Nat
         /\ Size(call.value1) \div Size(call.value2) <= Size(call.value1)
         /\ Signed => Size(call.value1) <= Half /\ Size(call.value2) <= Half
<1>1. call.value1 \in Word /\ call.value2 \in Word \ {0}
  BY DEF TypeOK, FloatOperands
<1> DEFINE a == Size(call.value1)
           b == Size(call.value2)
           q == a \div b
<1>2. a \in Nat /\ b \in Nat /\ b > 0 /\ (Signed => a <= Half /\ b <= Half)
  BY <1>1, WordValues, HalfPositive DEF Size
<1>3. q \in Nat /\ q <= a
  <2>1. q \in Nat /\ a % b \in Nat /\ a = q * b + (a % b)
    BY <1>2, Division
  <2> HIDE DEF q, a, b
  <2>2. q <= q * b /\ q * b \in Nat
    BY <1>2, <2>1, ProductLeast, ProductType
  <2> DEFINE s == a % b
  <2>3. s \in Nat /\ a = q * b + s
    BY <2>1
  <2> HIDE DEF s
  <2> QED BY <1>2, <2>1, <2>2, <2>3
<1> QED BY <1>1, <1>2, <1>3

(* The division through floats leaves the quotient.                        *)
LEMMA DivideFloatsQuotient ==
  ASSUME TypeOK, DivideFloats, FloatOperands
  PROVE  FloatQuotient'
<1> DEFINE a == Size(call.value1)
           b == Size(call.value2)
           q == a \div b
<1>1. /\ call.value1 \in Word /\ call.value2 \in Word \ {0}
      /\ a \in Nat /\ b \in Nat /\ b > 0 /\ q \in Nat /\ q <= a
      /\ Signed => a <= Half
  BY FloatSizes
<1>2. a <= Power[Precision] /\ b <= Power[Precision] /\ (Signed /\ ~Flipped => q < Half)
  BY DEF FloatOperands
<1>3. /\ Signed' <=> Signed
      /\ Flipped' <=> Flipped
      /\ Size(call.value1)' = a /\ Size(call.value2)' = b
  BY DEF DivideFloats, Signed, Flipped, Size, Magnitude, Negative
<1>4. CASE Signed
  <2> DEFINE d == SDIV[call.value1][call.value2]
  <2>1. a = Magnitude(call.value1) /\ b = Magnitude(call.value2)
    BY <1>4 DEF Size
  <2>2. d = IF Flipped THEN -q ELSE q
    <3>1. d = IF Negative(call.value1) = Negative(call.value2)
              THEN Magnitude(call.value1) \div Magnitude(call.value2)
              ELSE -(Magnitude(call.value1) \div Magnitude(call.value2))
      BY <1>1, <1>2, <2>1, SignedDivision
    <3> HIDE DEF d
    <3>2. Flipped <=> Negative(call.value1) # Negative(call.value2)
      BY <1>4 DEF Flipped
    <3> QED BY <3>1, <3>2, <2>1
  <2>3. -Half <= d /\ d < Half
    <3> HIDE DEF d, q, a
    <3>1. Half \in Nat /\ Half > 0
      BY HalfPositive
    <3>2. CASE Flipped
      BY <3>1, <3>2, <2>2, <1>1, <1>4
    <3>3. CASE ~Flipped
      BY <3>1, <3>3, <2>2, <1>1, <1>2, <1>4
    <3> QED BY <3>2, <3>3
  <2>4. -Half <= d /\ d < Half => Value(res') = d
    BY <1>4 DEF DivideFloats, FloatOperands, Signed
  <2>5. Value(res') = d
    BY <2>3, <2>4
  <2> HIDE DEF d, a, b
  <2> QED BY <1>3, <1>4, <2>2, <2>5 DEF FloatQuotient, Value, Negative
<1>5. CASE ~Signed
  <2> DEFINE d == UDIV[call.value1][call.value2]
  <2>1. a = call.value1 /\ b = call.value2 /\ ~Flipped
    BY <1>5 DEF Size, Flipped
  <2>2. d = q
    BY <1>1, <1>2, <2>1, UnsignedDivision
  <2>3. q \in Word
    <3>1. a < Modulus /\ Modulus \in Nat
      BY <1>1, <2>1, WordValues, HalfPositive
    <3> HIDE DEF q, a
    <3> QED BY <3>1, <1>1 DEF Word
  <2>4. d \in Word => res' = d
    BY <1>5 DEF DivideFloats, FloatOperands, Signed
  <2>5. res' = q
    BY <2>2, <2>3, <2>4
  <2> HIDE DEF a, b
  <2> QED BY <1>3, <1>5, <2>1, <2>5 DEF FloatQuotient
<1> QED BY <1>4, <1>5

(* Multiplying back leaves the remainder.                                  *)
LEMMA MultiplyBackRemainder ==
  ASSUME TypeOK, Remainder, FloatOperands, FloatQuotient
  PROVE  FloatRemainder'
<1> DEFINE x == call.value1
           y == call.value2
           a == Size(x)
           b == Size(y)
           q == a \div b
           r == a % b
<1>1. /\ x \in Word /\ y \in Word /\ res \in Word
      /\ a \in Nat /\ b \in Nat /\ b > 0 /\ q \in Nat
      /\ Signed => a <= Half /\ b <= Half
  BY FloatSizes DEF TypeOK
<1>2. r \in Nat /\ r < b /\ a = q * b + r
  BY <1>1, Division
<1>3. /\ Signed' <=> Signed
      /\ Negative(x)' <=> Negative(x)
      /\ Size(x)' = a /\ Size(y)' = b
      /\ res' = Wrap(x - res * y)
  BY DEF Remainder, Signed, Size, Magnitude, Negative
<1>4. CASE Signed
  <2> DEFINE u == Value(x)
             v == Value(y)
             w == Value(res)
             z == u - w * v
  <2>1. /\ Negative(x) => u = -a
        /\ ~Negative(x) => u = a
        /\ Negative(y) => v = -b
        /\ ~Negative(y) => v = b
        /\ u \in Int /\ v \in Int /\ w \in Int
    BY <1>1, <1>4, WordValues DEF Size
  <2>2. w = IF Flipped THEN -q ELSE q
    BY <1>4 DEF FloatQuotient
  <2>3. Flipped <=> (Negative(x) /\ ~Negative(y)) \/ (~Negative(x) /\ Negative(y))
    BY <1>1, <1>4, SignsAreTruthValues DEF Flipped
  <2>4. Half \in Nat /\ Half > 0
    BY HalfPositive
  <2> HIDE DEF u, v, w, q, r, a, b
  <2>5. q * b \in Nat /\ (-q) * b = -(q * b) /\ q * (-b) = -(q * b) /\ (-q) * (-b) = q * b
    BY <1>1, ProductType
  <2>6. Negative(x) => z = -r
    <3> SUFFICES ASSUME Negative(x) PROVE z = -r
      OBVIOUS
    <3>1. w * v = -(q * b)
      <4>1. CASE Negative(y)
        BY <4>1, <2>1, <2>2, <2>3, <2>5
      <4>2. CASE ~Negative(y)
        BY <4>2, <2>1, <2>2, <2>3, <2>5
      <4> QED BY <4>1, <4>2
    <3> QED BY <3>1, <2>1, <2>5, <1>1, <1>2
  <2>7. ~Negative(x) => z = r
    <3> SUFFICES ASSUME ~Negative(x) PROVE z = r
      OBVIOUS
    <3>1. w * v = q * b
      <4>1. CASE Negative(y)
        BY <4>1, <2>1, <2>2, <2>3, <2>5
      <4>2. CASE ~Negative(y)
        BY <4>2, <2>1, <2>2, <2>3, <2>5
      <4> QED BY <4>1, <4>2
    <3> QED BY <3>1, <2>1, <2>5, <1>1, <1>2
  <2>8. z \in Int /\ -Half <= z /\ z < Half
    <3>1. z \in Int
      BY <2>1
    <3> HIDE DEF z
    <3>2. CASE Negative(x)
      BY <3>1, <3>2, <2>4, <2>6, <1>1, <1>2, <1>4
    <3>3. CASE ~Negative(x)
      BY <3>1, <3>3, <2>4, <2>7, <1>1, <1>2, <1>4
    <3> QED BY <3>1, <3>2, <3>3
  <2>9. res' = Wrap(z)
    BY <1>1, <1>3, WrappedValues DEF u, v, w
  <2>10. Value(res') = z
    BY <2>8, <2>9, ValueOfWrap
  <2> HIDE DEF z
  <2>11. Value(res)' = z
    BY <2>10 DEF Value, Negative
  <2> QED BY <2>6, <2>7, <2>11, <1>3, <1>4 DEF FloatRemainder, r
<1>5. CASE ~Signed
  <2>1. a = x /\ b = y /\ res = q
    BY <1>5 DEF Size, FloatQuotient, Flipped
  <2>2. q * b \in Nat
    BY <1>1, ProductType
  <2> HIDE DEF q, r, a, b
  <2>3. x - res * y = r
    BY <2>1, <2>2, <1>1, <1>2
  <2>4. r \in Word
    BY <1>1, <1>2, <2>1, WordValues, HalfPositive DEF Word
  <2>5. res' = r
    BY <1>3, <2>3, <2>4, WrapIdentity
  <2> QED BY <2>5, <1>3, <1>5 DEF FloatRemainder, r
<1> QED BY <1>4, <1>5

(* The steps one by one keep the invariant: the division through floats,   *)
LEMMA DivideFloatsInv == Inv /\ DivideFloats => Inv'
<1> SUFFICES ASSUME Inv, DivideFloats PROVE Inv'
  OBVIOUS
<1>1. /\ call' = call /\ dividend' = dividend /\ divisor' = divisor /\ sign1' = sign1
      /\ call.fn \in FloatFns
      /\ res' \in Word
      /\ pc' = IF call.fn \in RemainderFns THEN "remainder" ELSE "done"
  BY DEF DivideFloats
<1>2. TypeOK'
  BY <1>1 DEF Inv, TypeOK, Pc
<1>3. RemainderInv'
  BY <1>1 DEF RemainderInv
<1>4. FloatOperands' => FloatQuotient'
  BY <1>1, FloatsKept, DivideFloatsQuotient DEF Inv
<1>5. FloatInv'
  BY <1>4 DEF FloatInv
<1>6. FloatDivisionRight'
  <2>1. FloatDivisionRight' <=>
          (pc' = "done" /\ FloatOperands' =>
             /\ call'.fn \in RemainderFns => FloatRemainder'
             /\ call'.fn \notin RemainderFns => FloatQuotient')
    BY DEF FloatDivisionRight, FloatRemainder, FloatQuotient
  <2> QED BY <2>1, <1>1, <1>4
<1> QED
  BY <1>1, <1>2, <1>3, <1>5, <1>6 DEF Inv, EntryInv, HelperInv, UdivInv, LoopInv, NonzeroInv, RestInv,
                                      QuotientRight, RemainderRight, Done

(* the call of an unsigned helper,                                         *)
LEMMA EnterUnsignedInv == Inv /\ EnterUnsigned => Inv'
<1> SUFFICES ASSUME Inv, EnterUnsigned PROVE Inv'
  OBVIOUS
<1> USE DEF EnterUnsigned
<1>1. TypeOK'
  BY DEF Inv, TypeOK, Pc
<1>2. UdivInv'
  BY DEF UdivInv, Inv, EntryInv
<1> QED
  BY <1>1, <1>2 DEF Inv, EntryInv, HelperInv, LoopInv, NonzeroInv, RestInv, RemainderInv,
                    QuotientRight, RemainderRight, Done, FloatInv, FloatDivisionRight, FloatOperands

(* the call of a signed helper,                                            *)
LEMMA EnterSignedInv == Inv /\ EnterSigned => Inv'
<1> SUFFICES ASSUME Inv, EnterSigned PROVE Inv'
  OBVIOUS
<1> DEFINE s1 == SignOf(call.value1)
           s2 == SignOf(call.value2)
<1>1. call.value1 \in Word /\ call.value2 \in Word
  BY DEF Inv, TypeOK
<1>2. s1 \in {0, 1} /\ s2 \in {0, 1}
  BY DEF SignOf
<1>3. dividend' = ApplySign(call.value1, s1) /\ divisor' = ApplySign(call.value2, s2)
  BY DEF EnterSigned
<1>4. dividend' \in Word /\ divisor' \in Word
  BY <1>1, <1>2, <1>3, ApplySignType
<1>5. TypeOK'
  BY <1>4 DEF Inv, TypeOK, EnterSigned, Pc
<1>6. UdivInv'
  <2> SUFFICES ASSUME Plain'
               PROVE  dividend' = call'.value1 /\ divisor' = call'.value2 /\ sign1' = 0
    BY DEF UdivInv
  <2>1. s1 = 0 /\ s2 = 0
    BY PlainKept, PlainSigns DEF EnterSigned
  <2>2. sign1' = 0
    BY <2>1 DEF EnterSigned
  <2> QED BY <1>1, <1>3, <2>1, <2>2, ApplyNoSign DEF EnterSigned
<1> QED
  BY <1>5, <1>6 DEF EnterSigned, Inv, EntryInv, HelperInv, LoopInv, NonzeroInv, RestInv, RemainderInv,
                    QuotientRight, RemainderRight, Done, FloatInv, FloatDivisionRight, FloatOperands

(* the look at the operands,                                               *)
LEMMA CheckOperandsInv == Inv /\ CheckOperands => Inv'
<1> SUFFICES ASSUME Inv, CheckOperands PROVE Inv'
  OBVIOUS
<1>1. TypeOK'
  BY HalfPositive DEF Inv, TypeOK, CheckOperands, Pc, Word
<1>2. LoopInv'
  <2>1. divisor \in Nat /\ dividend \in Nat
    BY WordsAreIntegers DEF Inv, TypeOK
  <2>2. dividend + 0 * divisor = dividend
    BY <2>1
  <2> QED BY <2>2, PlainKept DEF Inv, UdivInv, LoopInv, CheckOperands
<1>3. NonzeroInv' /\ RestInv'
  BY DEF NonzeroInv, RestInv, CheckOperands
<1> QED
  BY <1>1, <1>2, <1>3 DEF CheckOperands, Inv, EntryInv, HelperInv, UdivInv, RemainderInv,
                          QuotientRight, RemainderRight, Done, FloatInv, FloatDivisionRight, FloatOperands

(* one turn of the loop,                                                   *)
LEMMA SubtractInv == Inv /\ Subtract => Inv'
<1> SUFFICES ASSUME Inv, Subtract PROVE Inv'
  OBVIOUS
<1>1. /\ dividend \in Word /\ divisor \in Word /\ res \in Word
      /\ dividend \in Nat /\ divisor \in Nat /\ res \in Nat
      /\ call.value1 \in Word /\ call.value1 \in Nat
  BY WordsAreIntegers DEF Inv, TypeOK
<1>2. divisor # 0 /\ dividend >= divisor
  BY DEF Inv, NonzeroInv, Subtract
<1>3. dividend' = dividend - divisor
  <2>1. dividend - divisor \in Word
    BY <1>1, <1>2, WordsAreIntegers DEF Word
  <2> QED BY <2>1, WrapIdentity DEF Subtract
<1>4. dividend' \in Word /\ res' \in Word
  BY <1>1, WrapType DEF Subtract
<1>5. TypeOK'
  BY <1>4 DEF Inv, TypeOK, Subtract
<1>6. LoopInv'
  <2> SUFFICES ASSUME Plain'
               PROVE  /\ divisor' = call'.value2 /\ sign1' = 0
                      /\ dividend' + res' * divisor' = call'.value1
    BY DEF LoopInv
  <2>1. /\ divisor = call.value2 /\ sign1 = 0
        /\ dividend + res * divisor = call.value1
    BY PlainKept DEF Inv, LoopInv, Subtract
  <2>2. res + 1 <= call.value1
    BY <1>1, <1>2, <2>1, CountBelow
  <2>3. res + 1 \in Word
    BY <1>1, <2>2, WordsAreIntegers DEF Word
  <2>4. res' = res + 1
    BY <2>3, WrapIdentity DEF Subtract
  <2>5. (dividend - divisor) + (res + 1) * divisor = dividend + res * divisor
    BY <1>1, OneMore
  <2> QED BY <1>3, <2>1, <2>4, <2>5 DEF Subtract
<1> QED
  BY <1>2, <1>5, <1>6 DEF Subtract, Inv, EntryInv, HelperInv, UdivInv, NonzeroInv, RestInv, RemainderInv,
                    QuotientRight, RemainderRight, Done, FloatInv, FloatDivisionRight, FloatOperands

(* its end,                                                                *)
LEMMA LeaveLoopInv == Inv /\ LeaveLoop => Inv'
<1> SUFFICES ASSUME Inv, LeaveLoop PROVE Inv'
  OBVIOUS
<1>1. TypeOK'
  BY DEF Inv, TypeOK, LeaveLoop, Pc
<1>2. LoopInv'
  BY PlainKept DEF Inv, LoopInv, LeaveLoop
<1> QED
  BY <1>1, <1>2 DEF LeaveLoop, Inv, EntryInv, HelperInv, UdivInv, NonzeroInv, RestInv, RemainderInv,
                    QuotientRight, RemainderRight, Done, FloatInv, FloatDivisionRight, FloatOperands

(* the return of a quotient,                                               *)
LEMMA QuotientInv == Inv /\ Quotient => Inv'
<1> SUFFICES ASSUME Inv, Quotient PROVE Inv'
  OBVIOUS
<1>1. /\ res \in Word /\ sign1 \in {0, 1} /\ call.fn \in Functions
      /\ dividend \in Nat /\ divisor \in Nat /\ res \in Nat
      /\ call.value1 \in Nat /\ call.value2 \in Nat
  BY WordsAreIntegers DEF Inv, TypeOK
<1>2. res' \in Word
  BY <1>1, ApplySignType DEF Quotient
<1>3. TypeOK'
  BY <1>2 DEF Inv, TypeOK, Quotient, Pc
<1>4. Plain /\ call.value2 # 0 => IsQuotient(res', call.value1, call.value2)
  <2> SUFFICES ASSUME Plain, call.value2 # 0
               PROVE  IsQuotient(res', call.value1, call.value2)
    OBVIOUS
  <2>1. /\ divisor = call.value2 /\ sign1 = 0
        /\ dividend + res * divisor = call.value1
        /\ dividend < divisor
    BY DEF Inv, LoopInv, RestInv, Quotient
  <2>2. res' = res
    BY <1>1, <2>1, ApplyNoSign DEF Quotient
  <2> QED BY <1>1, <2>1, <2>2, LoopQuotient
<1>5. RemainderInv'
  BY <1>4, PlainKept DEF RemainderInv, Quotient
<1>6. QuotientRight'
  BY <1>4, PlainKept DEF QuotientRight, Quotient, Done, IsQuotient
<1>7. RemainderRight'
  BY DEF RemainderRight, Quotient, Done
<1> QED
  BY <1>3, <1>5, <1>6, <1>7 DEF Quotient, Inv, EntryInv, HelperInv, UdivInv, LoopInv, NonzeroInv, RestInv,
                                  FloatInv, FloatDivisionRight, FloatOperands

(* the return of a remainder                                               *)
LEMMA RemainderStepInv == Inv /\ Remainder => Inv'
<1> SUFFICES ASSUME Inv, Remainder PROVE Inv'
  OBVIOUS
<1>1. /\ res \in Word /\ call.value1 \in Word /\ call.value2 \in Word
      /\ res \in Nat /\ call.value1 \in Nat /\ call.value2 \in Nat
      /\ call.fn \in RemainderFns
  BY WordsAreIntegers DEF Inv, TypeOK, RemainderInv, Remainder
<1>2. res * call.value2 \in Nat
  BY <1>1, ProductType
<1>3. call.value1 - res * call.value2 \in Int
  BY <1>1, <1>2
<1>4. res' \in Word
  BY <1>3, WrapType DEF Remainder
<1>5. TypeOK'
  BY <1>4 DEF Inv, TypeOK, Remainder, Pc
<1>6. RemainderRight'
  <2> SUFFICES ASSUME Plain, call.value2 # 0, call.fn \notin FloatFns
               PROVE  /\ res' < call.value2
                      /\ \E k \in Word : call.value1 = k * call.value2 + res'
    BY PlainKept DEF RemainderRight, Done, Remainder
  <2>1. IsQuotient(res, call.value1, call.value2)
    BY DEF Inv, RemainderInv, Remainder
  <2>2. res' = call.value1 - res * call.value2 /\ res' < call.value2
    BY <1>1, <2>1, RemainderOfQuotient DEF Remainder
  <2>3. call.value1 = res * call.value2 + res'
    BY <1>1, <1>2, <2>2
  <2> QED BY <1>1, <2>2, <2>3
<1>7. QuotientRight'
  BY <1>1 DEF QuotientRight, Remainder, Done
<1>8. FloatDivisionRight'
  <2>1. FloatDivisionRight' <=>
          (pc' = "done" /\ FloatOperands' =>
             /\ call'.fn \in RemainderFns => FloatRemainder'
             /\ call'.fn \notin RemainderFns => FloatQuotient')
    BY DEF FloatDivisionRight, FloatRemainder, FloatQuotient
  <2>2. FloatOperands' => FloatRemainder'
    BY FloatsKept, MultiplyBackRemainder DEF Inv, FloatInv, Remainder
  <2> QED BY <2>1, <2>2, <1>1 DEF Remainder
<1> QED
  BY <1>5, <1>6, <1>7, <1>8 DEF Remainder, Inv, EntryInv, HelperInv, UdivInv, LoopInv, NonzeroInv, RestInv,
                                RemainderInv, FloatInv

(* and a step that changes nothing.                                        *)
LEMMA StutterInv == Inv /\ UNCHANGED vars => Inv'
<1> SUFFICES ASSUME Inv, UNCHANGED vars PROVE Inv'
  OBVIOUS
<1>1. FloatInv'
  BY FloatsKept DEF vars, Inv, FloatInv
<1>2. FloatDivisionRight'
  BY DEF vars, Inv, FloatDivisionRight, FloatOperands, Signed, Size, Flipped, Magnitude, Value, Negative
<1> QED
  BY <1>1, <1>2, PlainKept DEF vars, Inv, TypeOK, EntryInv, HelperInv, UdivInv, LoopInv, NonzeroInv,
                               RestInv, RemainderInv, QuotientRight, RemainderRight, Done

(* The invariant holds in every state of a call. *)
LEMMA InvHolds == Spec => []Inv
<1>1. Inv /\ [Next]_vars => Inv'
  BY DivideFloatsInv, EnterUnsignedInv, EnterSignedInv, CheckOperandsInv, SubtractInv, LeaveLoopInv,
     QuotientInv, RemainderStepInv, StutterInv
     DEF Next, Step, Returned
<1> QED BY InitInv, <1>1, PTL DEF Spec

(* The loop of __udivsi3 counts the quotient, for words of every width. *)
THEOREM QuotientIsRight == Spec => []QuotientRight
<1>1. Inv => QuotientRight
  BY DEF Inv
<1> QED BY InvHolds, <1>1, PTL

(* / and % go through floats and are right, for words and floats of every  *)
(* width, whenever the operands are floats and the quotient is a word.     *)
THEOREM FloatDivisionIsRight == Spec => []FloatDivisionRight
<1>1. Inv => FloatDivisionRight
  BY DEF Inv
<1> QED BY InvHolds, <1>1, PTL

(* What __umodsi3 and __modsi3 make of the quotient is the remainder. *)
THEOREM RemainderIsRight == Spec => []RemainderRight
<1>1. Inv => RemainderRight
  BY DEF Inv
<1> QED BY InvHolds, <1>1, PTL
=============================================================================
