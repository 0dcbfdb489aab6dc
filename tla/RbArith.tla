------------------------------- MODULE RbArith -------------------------------
(***************************************************************************)
(* The arithmetic rb.c does on its 32-bit position counters, at a word     *)
(* size W: 2^32 in the code, a small number in a model.  The operators are *)
(* kept free of % wherever a comparison is enough, so that both TLC and    *)
(* the provers handle them.                                                *)
(***************************************************************************)
EXTENDS Integers

CONSTANT W              \* number of values of a uint32_t

ASSUME WordAssumption == W \in Nat \ {0, 1}

Word == 0 .. W - 1

(* x + 1u *)
Inc(x) == IF x = W - 1 THEN 0 ELSE x + 1

(* a - b on uint32_t *)
Sub(a, b) == IF b <= a THEN a - b ELSE a - b + W

(* a + b on uint32_t, for b a valid Word *)
Add(a, b) == IF a + b < W THEN a + b ELSE a + b - W

(* Positions a, b, c lie in this order around the ring: b between a and c. *)
Ordered(a, b, c) == Sub(b, a) + Sub(c, b) = Sub(c, a)

(* below_low(): the 64-bit product never overflows, percent = 0 disables. *)
below_low(count, limit, percent) ==
    percent # 0 /\ count * 100 < limit * percent

=============================================================================
