------------------------------ MODULE CompilerRt ------------------------------
(***************************************************************************)
(* The 128-bit arithmetic that the compiler calls out of line, on words of *)
(* W bits (64 in the code): a wide number is two words.  Signed numbers    *)
(* are represented by their bit patterns 0..Wide-1; -fwrapv makes their    *)
(* negation wrap.  The quotient and the remainder are built one branch, or *)
(* one round of the shift-and-subtract loop, at a time.                    *)
(***************************************************************************)
EXTENDS Integers

CONSTANT W      \* bits of a machine word

ASSUME WordAssumption == W \in Nat \ {0}

VARIABLES
    fn, a, b,   \* the function called and its arguments
    stage,      \* where the call is
    q, r,       \* the quotient and the remainder
    d_shifted,  \* the divisor of this round of the loop
    left,       \* rounds the loop still makes
    result      \* what the function returns
arithVars == <<fn, a, b, stage, q, r, d_shifted, left, result>>

(* The powers of two up to that of a word, by which shifts multiply.       *)
Pow2[k \in 0..W] == IF k = 0 THEN 1 ELSE 2 * Pow2[k - 1]
Word == Pow2[W]
Wide == Word * Word
Lo(v) == v % Word
Hi(v) == v \div Word
Join(hi, lo) == hi * Word + lo

Unsigned == {"__udivti3", "__umodti3", "__udivmodti4"}
Divisions == Unsigned \cup {"__divti3", "__modti3"}
Functions == Divisions \cup {"__multi3"}

Negative(v) == v >= Wide \div 2
Negate(v) == (Wide - v) % Wide
Magnitude(v) == IF Negative(v) THEN Negate(v) ELSE v

(* What UDivMod128 is called with.                                         *)
n == IF fn \in Unsigned THEN a ELSE Magnitude(a)
d == IF fn \in Unsigned THEN b ELSE Magnitude(b)

ArithInit ==
    /\ fn = "none" /\ a = 0 /\ b = 0 /\ stage = "out"
    /\ q = 0 /\ r = 0 /\ d_shifted = 0 /\ left = 0 /\ result = 0

(* A call; FK_BUG_ON stops the kernel when the divisor is zero.            *)
Call ==
    /\ stage = "out"
    /\ \E f \in Functions, x, y \in 0..(Wide - 1) :
          /\ fn' = f /\ a' = x /\ b' = y
          /\ stage' = CASE f = "__multi3" -> "multiply"
                        [] f # "__multi3" /\ y = 0 -> "bug"
                        [] OTHER -> "divide"
    /\ UNCHANGED <<q, r, d_shifted, left, result>>

(* The divq instruction divides hi:lo by x; it raises a divide error when  *)
(* the quotient does not fit in a word.                                    *)
Quotient(hi, lo, x) == Join(hi, lo) \div x
Remainder(hi, lo, x) == Join(hi, lo) % x
Divides(hi, lo, x) == IF Quotient(hi, lo, x) < Word THEN "return" ELSE "fault"

(* Fast path 1: both fit in a word.                                        *)
DivideWords ==
    /\ stage = "divide" /\ Hi(n) = 0 /\ Hi(d) = 0
    /\ q' = Lo(n) \div Lo(d) /\ r' = Lo(n) % Lo(d) /\ stage' = "return"
    /\ UNCHANGED <<fn, a, b, d_shifted, left, result>>

(* Fast path 2: the divisor and the quotient fit in a word.                *)
DivideByWord ==
    /\ stage = "divide" /\ Hi(n) # 0 /\ Hi(d) = 0 /\ Hi(n) < Lo(d)
    /\ q' = Quotient(Hi(n), Lo(n), Lo(d)) /\ r' = Remainder(Hi(n), Lo(n), Lo(d))
    /\ stage' = Divides(Hi(n), Lo(n), Lo(d))
    /\ UNCHANGED <<fn, a, b, d_shifted, left, result>>

(* Fast path 3: two divisions, the second with the remainder of the first. *)
DivideTwice ==
    /\ stage = "divide" /\ Hi(n) # 0 /\ Hi(d) = 0 /\ Hi(n) >= Lo(d)
    /\ LET r_hi == Remainder(0, Hi(n), Lo(d))
       IN  /\ q' = Join(Quotient(0, Hi(n), Lo(d)), Quotient(r_hi, Lo(n), Lo(d)))
           /\ r' = Remainder(r_hi, Lo(n), Lo(d))
           /\ stage' = Divides(r_hi, Lo(n), Lo(d))
    /\ UNCHANGED <<fn, a, b, d_shifted, left, result>>

(* The general case, a divisor of more than a word.  clz is the number of  *)
(* leading zeros of its high word.                                         *)
DivideSmaller ==
    /\ stage = "divide" /\ Hi(d) # 0 /\ n < d
    /\ q' = 0 /\ r' = n /\ stage' = "return"
    /\ UNCHANGED <<fn, a, b, d_shifted, left, result>>

clz(v) == CHOOSE k \in 0..(W - 1) : Pow2[W - 1 - k] <= v /\ v < Pow2[W - k]

Normalise ==
    /\ stage = "divide" /\ Hi(d) # 0 /\ n >= d
    /\ q' = 0 /\ r' = n
    /\ d_shifted' = (d * Pow2[clz(Hi(d))]) % Wide
    /\ left' = clz(Hi(d)) + 1
    /\ stage' = "loop"
    /\ UNCHANGED <<fn, a, b, result>>

(* One round.                                                              *)
(* Faulty: a remainder equal to the divisor is not reduced.                *)
SubtractStrict ==
    /\ stage = "loop"
    /\ IF r > d_shifted THEN q' = 2 * q + 1 /\ r' = r - d_shifted
                        ELSE q' = 2 * q /\ r' = r
    /\ d_shifted' = d_shifted \div 2 /\ left' = left - 1
    /\ stage' = IF left = 1 THEN "return" ELSE "loop"
    /\ UNCHANGED <<fn, a, b, result>>
Subtract ==
    /\ stage = "loop"
    /\ IF r >= d_shifted THEN q' = ((2 * q) % Wide) + 1 /\ r' = r - d_shifted
                         ELSE q' = (2 * q) % Wide /\ r' = r
    /\ d_shifted' = d_shifted \div 2 /\ left' = left - 1
    /\ stage' = IF left = 1 THEN "return" ELSE "loop"
    /\ UNCHANGED <<fn, a, b, result>>

(* The six functions, once the quotient and the remainder are known.       *)
Return ==
    /\ stage = "return"
    /\ result' = CASE fn = "__udivti3" -> q
                   [] fn = "__umodti3" -> r
                   [] fn = "__udivmodti4" -> <<q, r>>
                   [] fn = "__divti3" -> IF Negative(a) # Negative(b) THEN Negate(q) ELSE q
                   [] fn = "__modti3" -> IF Negative(a) THEN Negate(r) ELSE r
    /\ stage' = "returned"
    /\ UNCHANGED <<fn, a, b, q, r, d_shifted, left>>

(* mulq gives two words; the cross products are added modulo a word.       *)
Multiply ==
    /\ stage = "multiply"
    /\ LET low == Lo(a) * Lo(b)
           high == (Hi(low) + Lo(a) * Hi(b) + Hi(a) * Lo(b)) % Word
       IN  result' = Join(high, Lo(low))
    /\ stage' = "returned"
    /\ UNCHANGED <<fn, a, b, q, r, d_shifted, left>>

(* The caller goes on.                                                     *)
CallerGoesOn ==
    /\ stage = "returned"
    /\ fn' = "none" /\ a' = 0 /\ b' = 0 /\ stage' = "out"
    /\ q' = 0 /\ r' = 0 /\ d_shifted' = 0 /\ left' = 0 /\ result' = 0

ArithNext ==
    \/ Call
    \/ DivideWords
    \/ DivideByWord
    \/ DivideTwice
    \/ DivideSmaller
    \/ Normalise
    \/ Subtract
    \/ Return
    \/ Multiply
    \/ CallerGoesOn

ArithSpec == ArithInit /\ [][ArithNext]_arithVars

-----------------------------------------------------------------------------
(* C's integer division, on the numbers the bit patterns stand for: the    *)
(* quotient is cut towards zero and the remainder has the dividend's sign. *)
ValueOf(v) == IF Negative(v) THEN v - Wide ELSE v
Abs(x) == IF x < 0 THEN -x ELSE x
CQuotient(x, y) ==
    IF (x < 0) # (y < 0) THEN -(Abs(x) \div Abs(y)) ELSE Abs(x) \div Abs(y)
CRemainder(x, y) == x - y * CQuotient(x, y)

(* Every function of the runtime returns what C's operator means, modulo   *)
(* 2^128, whichever of the four paths of UDivMod128 it takes, and no path  *)
(* makes the divq instruction fault, which would kill the kernel.          *)
ArithmeticRight ==
    /\ stage # "fault"
    /\ stage = "returned" =>
         result = CASE fn = "__udivti3" -> a \div b
                    [] fn = "__umodti3" -> a % b
                    [] fn = "__udivmodti4" -> <<a \div b, a % b>>
                    [] fn = "__divti3" -> CQuotient(ValueOf(a), ValueOf(b)) % Wide
                    [] fn = "__modti3" -> CRemainder(ValueOf(a), ValueOf(b)) % Wide
                    [] fn = "__multi3" -> (ValueOf(a) * ValueOf(b)) % Wide
=============================================================================
