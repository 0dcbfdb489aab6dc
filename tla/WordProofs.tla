----------------------------- MODULE WordProofs -----------------------------
(***************************************************************************)
(* Facts about positions that wrap and about the slot a position uses, for *)
(* every word size.                                                        *)
(***************************************************************************)
EXTENDS RbArith, TLAPS

(* Division with remainder, for the index computations pos % slots and     *)
(* pos % capacity.                                                         *)
LEMMA DivMod ==
  ASSUME NEW p \in Nat, NEW n \in Nat \ {0}
  PROVE  /\ p \div n \in Nat
         /\ p % n \in 0 .. n - 1
         /\ p = n * (p \div n) + (p % n)
OBVIOUS

(* Multiples of n differ by at least n. *)
LEMMA Multiples ==
  ASSUME NEW a \in Int, NEW b \in Int, NEW n \in Nat \ {0}, n * a > n * b
  PROVE  n * a >= n * b + n
<1>1. a > b
  <2>1. SUFFICES ASSUME a <= b PROVE n * a <= n * b
    OBVIOUS
  <2>2. n * (b - a) >= 0
    BY <2>1
  <2>3. n * (b - a) = n * b - n * a
    OBVIOUS
  <2> QED BY <2>2, <2>3
<1>2. a - b >= 1
  BY <1>1
<1>3. n * (a - b) >= n
  BY <1>2
<1>4. n * (a - b) = n * a - n * b
  OBVIOUS
<1> QED BY <1>3, <1>4

(* Two positions with the same remainder modulo a divisor of W are at      *)
(* least that divisor apart around the ring, wrapped or not.               *)
LEMMA SameIndexIsFar ==
  ASSUME NEW n \in Nat \ {0}, W % n = 0,
         NEW p \in Word, NEW r \in Word, p # r, p % n = r % n
  PROVE  Sub(p, r) >= n
<1> DEFINE a == p \div n
           b == r \div n
           k == W \div n
           c == p % n
<1>0. p \in Nat /\ r \in Nat /\ W \in Nat
  BY WordAssumption DEF Word
<1>1. a \in Nat /\ c \in 0 .. n - 1 /\ p = n * a + c
  BY <1>0, DivMod
<1>2. b \in Nat /\ r = n * b + c
  <2>1. b \in Nat /\ r % n \in 0 .. n - 1 /\ r = n * b + (r % n)
    BY <1>0, DivMod
  <2> QED BY <2>1
<1>3. k \in Nat /\ W = n * k
  <2>1. k \in Nat /\ W % n \in 0 .. n - 1 /\ W = n * k + (W % n)
    BY <1>0, DivMod
  <2> QED BY <2>1
<1> HIDE DEF a, b, c, k
<1>4. CASE r < p
  <2>1. n * a > n * b
    BY <1>1, <1>2, <1>4
  <2>2. n * a >= n * b + n
    BY <2>1, <1>1, <1>2, Multiples
  <2> QED BY <2>2, <1>0, <1>1, <1>2, <1>4 DEF Sub
<1>5. CASE p < r
  <2>1. n * (a + k) = n * a + n * k
    BY <1>1, <1>3
  <2>2. n * (a + k) > n * b
    BY <2>1, <1>0, <1>1, <1>2, <1>3 DEF Word
  <2>3. n * (a + k) >= n * b + n
    BY <2>2, <1>1, <1>2, <1>3, Multiples
  <2> QED BY <2>1, <2>3, <1>0, <1>1, <1>2, <1>3, <1>5 DEF Sub
<1> QED BY <1>0, <1>4, <1>5

(* The operations on words give words. *)
LEMMA WordOps ==
  ASSUME NEW a \in Word, NEW b \in Word
  PROVE  Inc(a) \in Word /\ Sub(a, b) \in Word
BY WordAssumption DEF Word, Inc, Sub

(* The distance between two positions when one of them advances. *)
LEMMA AheadAdvances ==
  ASSUME NEW a \in Word, NEW b \in Word, Sub(a, b) < W - 1
  PROVE  Sub(Inc(a), b) = Sub(a, b) + 1
BY WordAssumption DEF Word, Inc, Sub

LEMMA BehindAdvances ==
  ASSUME NEW a \in Word, NEW b \in Word, a # b
  PROVE  Sub(a, Inc(b)) = Sub(a, b) - 1
BY WordAssumption DEF Word, Inc, Sub

(* Equal positions, and only those, are no distance apart. *)
LEMMA NoDistance ==
  ASSUME NEW a \in Word, NEW b \in Word
  PROVE  Sub(a, b) = 0 <=> a = b
BY WordAssumption DEF Word, Sub

=============================================================================
