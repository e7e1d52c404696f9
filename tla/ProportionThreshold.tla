------------------------- MODULE ProportionThreshold -------------------------
(***************************************************************************)
(* The minimum of extant passages that the option -p stands for,           *)
(* (int) ceil(proportion_extant * vu_labels.size())                        *)
(* (scripts/find_relatives.cpp:384 and the same line of four other tools). *)
(*                                                                         *)
(* The proportion is a float, the nearest one to the decimal number that   *)
(* the user gives, and its product with the number of variation units is   *)
(* rounded to a float before ceil is taken.  A float is modelled by its    *)
(* integer significand and the power of two that divides it.  Numbers are  *)
(* given with two decimals, as hundredths.                                 *)
(***************************************************************************)
EXTENDS Integers

(* Single precision: significands have 24 bits. *)

MaxSignificand == 16777216

\* x / unit rounded to the nearest integer, ties to even.
Nearest(x, unit) ==
    LET q == x \div unit
        r == x % unit
    IN  IF 2 * r < unit \/ (2 * r = unit /\ q % 2 = 0) THEN q ELSE q + 1

\* The smallest integer that is not below x / unit.
Ceil(x, unit) == -((-x) \div unit)

\* 2^23 .. 2^30: a hundredth is at least 2^-7, one is 2^0.
Scales == {8388608, 16777216, 33554432, 67108864,
           134217728, 268435456, 536870912, 1073741824}

\* The scale at which h hundredths have a significand of 24 bits.
Scale(h) == CHOOSE s \in Scales : 838860800 <= h * s /\ h * s < 1677721600

\* The significand of the float nearest to h / 100; its value is that / Scale(h).
Significand(h) == Nearest(h * Scale(h), 100)

\* What the last bit of a product below 2^41 is worth.
LastBits == {1, 2, 4, 8, 16, 32, 64, 128, 256, 512, 1024, 2048, 4096, 8192,
             16384, 32768, 65536, 131072}

LastBit(x) == CHOOSE b \in LastBits : x \div b < MaxSignificand /\ (b = 1 \/ x \div b >= 8388608)

\* The float nearest to x; x is an integer multiple of the scale's unit.
Rounded(x) == Nearest(x, LastBit(x)) * LastBit(x)

\* Mutant: the product is truncated instead of rounded up.
MinExtantTruncated(h, n) == Rounded(Significand(h) * n) \div Scale(h)

\* Mutant: one more than the product.
MinExtantPlusOne(h, n) == Ceil(Rounded(Significand(h) * n), Scale(h)) + 1

\* (int) ceil(proportion_extant * vu_labels.size())
MinExtant(h, n) == Ceil(Rounded(Significand(h) * n), Scale(h))
==============================================================================
