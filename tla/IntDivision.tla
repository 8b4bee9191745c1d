----------------------------- MODULE IntDivision -----------------------------
(***************************************************************************)
(* Integer division on a machine without an integer divider.               *)
(*                                                                         *)
(* The helpers of libs/libcompiler/src: the loop of __udivsi3, the sign    *)
(* handling of __divsi3 around it, and __umodsi3 and __modsi3 on top of    *)
(* the two.  The 64 bit functions (udivdi3.c and the others) are the same  *)
(* code over a wider word.                                                 *)
(*                                                                         *)
(* What NaplesPUISelLowering.cpp makes of / and % of 32 bit integers,      *)
(* scalar or vector: the operands become floats, the floats are divided,   *)
(* the quotient becomes an integer again (LowerXDIV, LowerXDIV_VV), and a  *)
(* remainder is the dividend less quotient times divisor.                  *)
(***************************************************************************)
EXTENDS Integers

CONSTANTS
  Width,      \* the bits of a word, 32
  Precision   \* the bits of a float's significand, 24

ASSUME WidthAssumption == Width \in Nat \ {0}
ASSUME PrecisionAssumption == Precision \in Nat \ {0}

(* 2^n, as a function that recursion defines. *)
Power[n \in Nat] == IF n = 0 THEN 1 ELSE 2 * Power[n - 1]

Half     == Power[Width - 1]   \* from here on a word is negative
Modulus  == Power[Width]
Word     == 0 .. Modulus - 1
Wrap(x)  == x % Modulus
Negative(x) == x >= Half

Functions    == {"__udivsi3", "__umodsi3", "__divsi3", "__modsi3", "UDIV", "UREM", "SDIV", "SREM"}
SignedFns    == {"__divsi3", "__modsi3", "SDIV", "SREM"}
RemainderFns == {"__umodsi3", "__modsi3", "UREM", "SREM"}
FloatFns     == {"UDIV", "UREM", "SDIV", "SREM"}   \* operations the compiler expands

VARIABLES
  call,       \* the call: [fn, value1, value2]
  pc,
  dividend,   \* what is left of __udivsi3's first argument
  divisor,
  res,
  sign1       \* __divsi3's sign of the result

vars == <<call, pc, dividend, divisor, res, sign1>>

Pc == {"entry", "udiv", "loop", "quotient", "remainder", "done"}

Init ==
  /\ call \in [fn : Functions, value1 : Word, value2 : Word]
  /\ pc = "entry"
  /\ dividend = 0 /\ divisor = 0 /\ res = 0 /\ sign1 = 0

(* x ^ sign for a sign of 0 or 1: the last bit flips. *)
Flip(x, sign) == IF sign = 0 THEN x ELSE IF x % 2 = 0 THEN x + 1 ELSE x - 1

(* (x ^ sign) - sign *)
ApplySign(x, sign) == Wrap(Flip(x, sign) - sign)

(* (value >> 31) && 1: the truth value of the shifted word, 0 or 1. *)
SignOf(x) == IF Negative(x) THEN 1 ELSE 0

-----------------------------------------------------------------------------
(* Floats.  A float is written as a multiple of 1 / One, which the least   *)
(* quotient of two words needs no finer.                                   *)
One == Modulus * Power[Precision]

(* Enough powers of two to scale a significand with. *)
Exponents == 0 .. 3 * Modulus + 2 * Precision

(* The integer nearest to n / d, the even one of two. *)
Nearest(n, d) ==
  LET q == n \div d
      r == n % d
  IN IF 2 * r > d \/ (2 * r = d /\ q % 2 = 1) THEN q + 1 ELSE q

(* The float nearest to n / d. *)
Round(n, d) ==
  LET m == IF n < 0 THEN -n ELSE n
      k == CHOOSE k \in Exponents :
             /\ m < d * Power[Precision + k]
             /\ k = 0 \/ m >= d * Power[Precision + k - 1]
      f == Nearest(m, d * Power[k]) * Power[k]
  IN IF n < 0 THEN -f ELSE f

(* The signed value of a word, and its size. *)
Value(x)     == IF Negative(x) THEN x - Modulus ELSE x
Magnitude(x) == IF Negative(x) THEN Modulus - x ELSE x

(* The machine converts signed words only.  For an unsigned word that is   *)
(* negative as a signed one, 2^width is added to the rounded float, and    *)
(* the sum is rounded again (LowerUINT_TO_FP).                             *)
SINT_TO_FP == [x \in Word |-> Round(Value(x) * One, 1)]

(* Fault: a word that looks negative is not made unsigned again. *)
UINT_TO_FPSigned == SINT_TO_FP

UINT_TO_FP ==
  [x \in Word |-> IF Negative(x) THEN Round(SINT_TO_FP[x] + Modulus * One, 1) ELSE SINT_TO_FP[x]]

FDIV(f, g) == IF g < 0 THEN Round(-f * One, -g) ELSE Round(f * One, g)

(* Fault: the nearest integer is taken. *)
ToNearest(f) == IF f < 0 THEN -Nearest(-f, One) ELSE Nearest(f, One)

(* A float towards zero. *)
Truncate(f) == IF f < 0 THEN -((-f) \div One) ELSE f \div One

(* LowerXDIV, before the quotient becomes a word. *)
SDIV == [x \in Word |-> [y \in Word \ {0} |-> Truncate(FDIV(SINT_TO_FP[x], SINT_TO_FP[y]))]]
UDIV == [x \in Word |-> [y \in Word \ {0} |-> Truncate(FDIV(UINT_TO_FP[x], UINT_TO_FP[y]))]]

-----------------------------------------------------------------------------
(* The quotient as a word.  One that does not fit the type of the result,  *)
(* and what comes of a division by zero, may become any word.              *)
DivideFloats ==
  /\ pc = "entry" /\ call.fn \in FloatFns
  /\ res' \in Word
  /\ call.value2 # 0 =>
       IF call.fn \in SignedFns
       THEN LET q == SDIV[call.value1][call.value2] IN -Half <= q /\ q < Half => Value(res') = q
       ELSE LET q == UDIV[call.value1][call.value2] IN q \in Word => res' = q
  /\ pc' = IF call.fn \in RemainderFns THEN "remainder" ELSE "done"
  /\ UNCHANGED <<call, dividend, divisor, sign1>>

(* __udivsi3 and __umodsi3 pass their arguments on. *)
EnterUnsigned ==
  /\ pc = "entry" /\ call.fn \notin SignedFns \cup FloatFns
  /\ dividend' = call.value1
  /\ divisor' = call.value2
  /\ pc' = "udiv"
  /\ UNCHANGED <<call, res, sign1>>

(* __divsi3, for __modsi3 too, up to the call of __udivsi3. *)
EnterSigned ==
  /\ pc = "entry" /\ call.fn \in SignedFns \ FloatFns
  /\ LET s1 == SignOf(call.value1)
         s2 == SignOf(call.value2)
     IN /\ dividend' = ApplySign(call.value1, s1)
        /\ divisor' = ApplySign(call.value2, s2)
        /\ sign1' = IF s1 = s2 THEN 0 ELSE 1
  /\ pc' = "udiv"
  /\ UNCHANGED <<call, res>>

(* Fault: only a small dividend returns early. *)
CheckOperandsNoZero ==
  /\ pc = "udiv"
  /\ res' = 0
  /\ pc' = IF dividend < divisor THEN "quotient" ELSE "loop"
  /\ UNCHANGED <<call, dividend, divisor, sign1>>

CheckOperands ==
  /\ pc = "udiv"
  /\ res' = 0
  /\ pc' = IF dividend < divisor \/ divisor = 0 THEN "quotient" ELSE "loop"
  /\ UNCHANGED <<call, dividend, divisor, sign1>>

Subtract ==
  /\ pc = "loop" /\ dividend >= divisor
  /\ dividend' = Wrap(dividend - divisor)
  /\ res' = Wrap(res + 1)     \* int in the code; the machine's addition wraps
  /\ UNCHANGED <<call, pc, divisor, sign1>>

(* Fault: the loop stops when one divisor is left. *)
LeaveLoopEarly ==
  /\ pc = "loop" /\ dividend <= divisor
  /\ pc' = "quotient"
  /\ UNCHANGED <<call, dividend, divisor, res, sign1>>

LeaveLoop ==
  /\ pc = "loop" /\ dividend < divisor
  /\ pc' = "quotient"
  /\ UNCHANGED <<call, dividend, divisor, res, sign1>>

(* Back in __divsi3: the sign is put back.  The others take the quotient. *)
Quotient ==
  /\ pc = "quotient"
  /\ res' = IF call.fn \in SignedFns THEN ApplySign(res, sign1) ELSE res
  /\ pc' = IF call.fn \in RemainderFns THEN "remainder" ELSE "done"
  /\ UNCHANGED <<call, dividend, divisor, sign1>>

(* Fault: the quotient is multiplied with what the loop left. *)
RemainderOfRest ==
  /\ pc = "remainder"
  /\ res' = Wrap(call.value1 - res * dividend)
  /\ pc' = "done"
  /\ UNCHANGED <<call, dividend, divisor, sign1>>

(* val1 - quotient * val2, in the helpers and in the expansion of UREM and *)
(* SREM.                                                                   *)
Remainder ==
  /\ pc = "remainder"
  /\ res' = Wrap(call.value1 - res * call.value2)
  /\ pc' = "done"
  /\ UNCHANGED <<call, dividend, divisor, sign1>>

Step ==
  \/ DivideFloats \/ EnterUnsigned \/ EnterSigned \/ CheckOperands
  \/ Subtract \/ LeaveLoop \/ Quotient \/ Remainder

(* The caller goes on with res. *)
Returned == pc = "done" /\ UNCHANGED vars

Next == Step \/ Returned
Spec == Init /\ [][Next]_vars
(* The calling thread keeps executing. *)
FairSpec == Spec /\ WF_vars(Step)

-----------------------------------------------------------------------------
(* The calls whose operands the functions take as they are: unsigned ones, *)
(* and signed ones without a negative operand.                             *)
Plain ==
  call.fn \in SignedFns => ~Negative(call.value1) /\ ~Negative(call.value2)

(* A helper has divided by something. *)
Done == pc = "done" /\ call.value2 # 0 /\ call.fn \notin FloatFns

(* A division by a divisor that is not zero returns the largest q with     *)
(* q * value2 <= value1, for every pair of words up to the largest, where  *)
(* the counter res passes the largest int.                                 *)
QuotientRight ==
  Done /\ Plain /\ call.fn \notin RemainderFns =>
    /\ res * call.value2 <= call.value1
    /\ call.value1 < (res + 1) * call.value2

(* A remainder is below the divisor and differs from the dividend by a     *)
(* multiple of it: the multiplication of umodsi3.c and modsi3.c undoes     *)
(* exactly what the loop took away.                                        *)
RemainderRight ==
  Done /\ Plain /\ call.fn \in RemainderFns =>
    /\ res < call.value2
    /\ \E k \in Word : call.value1 = k * call.value2 + res

(* What the comments of divsi3.c promise: absolute values are taken, and   *)
(* the sign is put back, so __divsi3 returns the quotient of C, rounded    *)
(* towards zero, unless it is the one that does not fit.                   *)
SignedQuotientRight ==
  Done /\ call.fn = "__divsi3" /\ ~(call.value1 = Half /\ call.value2 = Modulus - 1) =>
    LET q == Magnitude(call.value1) \div Magnitude(call.value2)
    IN Value(res) = IF Negative(call.value1) = Negative(call.value2) THEN q ELSE -q

(* The operands of / and % by their sizes, and the sign C gives a quotient. *)
Signed  == call.fn \in SignedFns
Size(x) == IF Signed THEN Magnitude(x) ELSE x
Flipped == Signed /\ (Negative(call.value1) # Negative(call.value2))

(* Both operands are floats, and the quotient is a word. *)
FloatOperands ==
  /\ call.fn \in FloatFns /\ call.value2 # 0
  /\ Size(call.value1) <= Power[Precision] /\ Size(call.value2) <= Power[Precision]
  /\ Signed /\ ~Flipped => Size(call.value1) \div Size(call.value2) < Half

(* / and % are right although they go through floats of fewer bits than a  *)
(* word, as long as both operands are floats and the quotient is a word:   *)
(* the rounded quotient never reaches the next integer.  C rounds towards  *)
(* zero and gives a remainder the sign of the dividend.                    *)
FloatDivisionRight ==
  pc = "done" /\ FloatOperands =>
    LET a      == Size(call.value1)
        b      == Size(call.value2)
        result == IF Signed THEN Value(res) ELSE res
    IN IF call.fn \in RemainderFns
       THEN result = IF Signed /\ Negative(call.value1) THEN -(a % b) ELSE a % b
       ELSE result = IF Flipped THEN -(a \div b) ELSE a \div b

(* Operands that are no floats are rounded first, unsigned ones twice, and *)
(* so is the quotient.  By a divisor of at least two it still comes out a  *)
(* word of the right sign, and misses the quotient of C by no more than    *)
(* one and four parts in 2^Precision.                                      *)
FloatDivisionClose ==
  pc = "done" /\ call.fn \in FloatFns \ RemainderFns /\ Size(call.value2) >= 2 =>
    LET q      == Size(call.value1) \div Size(call.value2)
        result == Size(res)
        miss   == IF result > q THEN result - q ELSE q - result
    IN /\ (miss - 1) * Power[Precision] <= 4 * q
       /\ Signed /\ res # 0 => (Negative(res) <=> Flipped)

(* Every call returns, a division by zero too. *)
DivisionReturns == <>(pc = "done")
=============================================================================
