---------------------------- MODULE BudgetProofs ----------------------------
(***************************************************************************)
(* What every reader of a budget may count on, for every value of the four *)
(* numeric constants: its arithmetic, and the types of what it computes.   *)
(***************************************************************************)
EXTENDS Budget, SequenceTheorems, WellFoundedInduction, TLAPS

(***************************************************************************)
(* The fee's arithmetic: the ways in which the readers round a total up to *)
(* whole lamports come to the same.                                        *)
(***************************************************************************)
(* A quotient rounded down, by its bounds. *)
LEMMA DivBounds ==
  ASSUME NEW a \in Nat, NEW b \in Nat \ {0}
  PROVE  /\ a \div b \in Nat
         /\ b * (a \div b) <= a
         /\ a < b * (a \div b) + b
         /\ a = b * (a \div b) + (a % b)
OBVIOUS

(* There is one number with these bounds. *)
LEMMA DivUnique ==
  ASSUME NEW a \in Nat, NEW b \in Nat \ {0}, NEW q \in Nat, b * q <= a, a < b * q + b
  PROVE  a \div b = q
<1> DEFINE p == a \div b
<1>1. p \in Nat /\ b * p <= a /\ a < b * p + b
  BY DivBounds
<1> HIDE DEF p
<1>2. ASSUME p < q PROVE FALSE
  <2>1. p + 1 <= q BY <1>1, <1>2
  <2>2. b * (p + 1) <= b * q BY <1>1, <2>1
  <2>3. b * (p + 1) = b * p + b BY <1>1
  <2> QED BY <1>1, <2>2, <2>3
<1>3. ASSUME q < p PROVE FALSE
  <2>1. q + 1 <= p BY <1>1, <1>3
  <2>2. b * (q + 1) <= b * p BY <1>1, <2>1
  <2>3. b * (q + 1) = b * q + b BY <1>1
  <2> QED BY <1>1, <2>2, <2>3
<1>4. p = q BY <1>1, <1>2, <1>3
<1> QED BY <1>4 DEF p

(* A set of natural numbers has a least one. *)
LEMMA LeastOf ==
  ASSUME NEW S \in SUBSET Nat, S # {}
  PROVE  \E x \in S : \A y \in S : x <= y
<1> DEFINE R == {ss \in Nat \X Nat : ss[1] < ss[2]}
<1>1. IsWellFoundedOn(R, Nat)
  BY NatLessThanWellFounded, Zenon DEF OpToRel
<1> HIDE DEF R
<1>2. PICK x \in S : \A y \in S : <<y, x>> \notin R
  BY <1>1, WFMin, Zenon
<1>3. x \in Nat /\ \A y \in S : y \in Nat
  OBVIOUS
<1>4. \A y \in S : ~(y < x)
  BY <1>2, <1>3 DEF R
<1> QED BY <1>3, <1>4

(* A set of natural numbers with a bound has a greatest one. *)
LEMMA GreatestOf ==
  ASSUME NEW b \in Nat, NEW S \in SUBSET (0..b), S # {}
  PROVE  Max(S) \in S /\ \A y \in S : y <= Max(S)
<1>1. {b - x : x \in S} \in SUBSET Nat
  OBVIOUS
<1>2. PICK d \in {b - x : x \in S} : \A e \in {b - x : x \in S} : d <= e
  <2> DEFINE D == {b - x : x \in S}
  <2>1. D # {} /\ D \in SUBSET Nat
    BY <1>1
  <2> HIDE DEF D
  <2>2. \E d \in D : \A e \in D : d <= e
    BY <2>1, LeastOf
  <2> QED BY <2>2 DEF D
<1>3. PICK x \in S : d = b - x
  BY <1>2
<1>4. \A y \in S : x >= y
  BY <1>2, <1>3
<1> QED BY <1>4 DEF Max

(* Induction, stated of the set of the numbers that have the property. *)
LEMMA InductionBySets ==
  ASSUME NEW T \in SUBSET Nat, 0 \in T, \A n \in T : n + 1 \in T
  PROVE  T = Nat
<1> SUFFICES ASSUME Nat \ T # {} PROVE FALSE
  OBVIOUS
<1>1. PICK x \in Nat \ T : \A y \in Nat \ T : x <= y
  BY LeastOf
<1>2. x # 0 /\ x - 1 \in Nat /\ x - 1 \notin Nat \ T
  BY <1>1
<1> QED BY <1>2

(* The product of two natural numbers is one. *)
LEMMA ProductNat == ASSUME NEW a \in Nat, NEW b \in Nat PROVE a * b \in Nat
OBVIOUS

(* Reducing a number before adding to it makes no difference. *)
LEMMA ModOnce ==
  ASSUME NEW a \in Nat, NEW b \in Nat, NEW d \in Nat \ {0}
  PROVE  ((a % d) + b) % d = (a + b) % d
<1>1. ASSUME NEW x \in Nat, NEW q \in Nat, NEW r \in 0..(d - 1), x = d * q + r
      PROVE  x % d = r
  <2>1. d * q <= x /\ x < d * q + d
    BY <1>1
  <2>2. x \div d = q
    BY <2>1, DivUnique
  <2>3. x = d * (x \div d) + (x % d)
    BY DivBounds
  <2> QED BY <1>1, <2>2, <2>3
<1> DEFINE c == (a % d) + b
           p == a \div d
           q == c \div d
           r == c % d
<1>2. p \in Nat /\ a % d \in 0..(d - 1) /\ a = d * p + (a % d)
  BY DivBounds
<1>3. c \in Nat
  BY <1>2
<1>4. q \in Nat /\ r \in 0..(d - 1) /\ c = d * q + r
  BY <1>3, DivBounds
<1>5. a + b = d * p + (d * q + r) /\ a + b \in Nat
  BY <1>2, <1>4
<1> HIDE DEF p, q, r, c
<1>6. d * (p + q) = d * p + d * q /\ p + q \in Nat
  BY <1>2, <1>4
<1>7. a + b = d * (p + q) + r
  <2>1. d * p \in Nat /\ d * q \in Nat /\ r \in Nat
    BY <1>2, <1>4, ProductNat
  <2> QED BY <1>5, <1>6, <2>1
<1>8. (a + b) % d = r
  BY <1>1, <1>4, <1>5, <1>6, <1>7
<1> QED BY <1>8 DEF r, c

(* TypeScript adds the divisor less one and divides; Go and Rust divide and look
   at the remainder. *)
LEMMA RoundingUpTwoWays ==
  ASSUME NEW a \in Nat, NEW b \in Nat \ {0}
  PROVE  (a + (b - 1)) \div b = DivCeil(a, b)
<1> DEFINE q == a \div b
           r == a % b
<1>1. q \in Nat /\ r \in 0..(b - 1) /\ a = b * q + r /\ a + (b - 1) \in Nat
  BY DivBounds
<1>2. CASE r = 0
  <2>1. b * q <= a + (b - 1) /\ a + (b - 1) < b * q + b
    BY <1>1, <1>2
  <2>2. (a + (b - 1)) \div b = q
    BY <1>1, <2>1, DivUnique
  <2> QED BY <1>2, <2>2 DEF DivCeil
<1>3. CASE r # 0
  <2> DEFINE up == q + 1
             sum == a + (b - 1)
  <2>1. b * up = b * q + b
    BY <1>1
  <2>2. up \in Nat /\ sum \in Nat /\ b * up <= sum /\ sum < b * up + b
    BY <1>1, <1>3, <2>1
  <2> HIDE DEF up, sum
  <2>3. sum \div b = up
    BY <2>2, DivUnique
  <2> QED BY <1>3, <2>3 DEF DivCeil, up, sum
<1> QED BY <1>2, <1>3

(* A product that fits 64 bits has the same total in every language. *)
LEMMA TotalsAgree ==
  ASSUME NEW r, NEW s, NEW limit \in Nat, NEW price \in Nat, limit * price <= MaxU64
  PROVE  Total(r, limit, price) = Total(s, limit, price)
<1>1. limit * price \in Nat
  OBVIOUS
<1>2. SaturatingMul(limit, price) = limit * price
  BY <1>1, BudgetAssumption DEF SaturatingMul
<1>3. (limit * price + (MicroLamportsPerLamport - 1)) \div MicroLamportsPerLamport
        = DivCeil(limit * price, MicroLamportsPerLamport)
  BY <1>1, RoundingUpTwoWays, BudgetAssumption
<1> QED BY <1>2, <1>3 DEF Total

(* A total in lamports is its product in micro-lamports rounded up. *)
LEMMA TotalRoundsUp ==
  ASSUME NEW r, NEW limit \in Nat, NEW price \in Nat,
         r \in TypeScript \/ limit * price <= MaxU64
  PROVE  LET total == Total(r, limit, price)
         IN /\ total \in Nat
            /\ total * MicroLamportsPerLamport >= limit * price
            /\ total * MicroLamportsPerLamport < limit * price + MicroLamportsPerLamport
<1> DEFINE a == limit * price
           d == MicroLamportsPerLamport
           total == DivCeil(a, d)
<1>1. a \in Nat /\ d \in Nat \ {0}
  BY BudgetAssumption
<1>2. Total(r, limit, price) = total
  BY <1>1, RoundingUpTwoWays, BudgetAssumption DEF Total, SaturatingMul
<1> HIDE DEF a, d
<1>3. total \in Nat /\ total * d >= a /\ total * d < a + d
  <2> DEFINE q == a \div d
             m == a % d
  <2>1. q \in Nat /\ m \in 0..(d - 1) /\ a = d * q + m
    BY <1>1, DivBounds
  <2>2. total = IF m # 0 THEN q + 1 ELSE q
    BY DEF DivCeil
  <2>3. (q + 1) * d = d * q + d /\ q * d = d * q
    BY <1>1, <2>1
  <2> HIDE DEF q, m, total
  <2>4. CASE m = 0 BY <1>1, <2>1, <2>2, <2>3, <2>4
  <2>5. CASE m # 0 BY <1>1, <2>1, <2>2, <2>3, <2>5
  <2> QED BY <2>4, <2>5
<1> QED BY <1>2, <1>3 DEF a, d

(* So is the quotient of a natural number by a positive one. *)
LEMMA QuotientNat ==
  ASSUME NEW a \in Nat, NEW d \in Nat \ {0} PROVE a \div d \in Nat
OBVIOUS

(* Rounding up to whole lamports yields a natural number. *)
LEMMA DivCeilNat ==
  ASSUME NEW a \in Nat, NEW d \in Nat \ {0} PROVE DivCeil(a, d) \in Nat
BY QuotientNat DEF DivCeil

(* Whatever the reader and its arithmetic, a fee is a natural number. *)
LEMMA TotalNat ==
  ASSUME NEW r, NEW limit \in Nat, NEW price \in Nat
  PROVE  Total(r, limit, price) \in Nat
<1>1. limit * price \in Nat
  BY ProductNat
<1>2. SaturatingMul(limit, price) \in Nat
  BY <1>1, BudgetAssumption DEF SaturatingMul
<1>3. DivCeil(SaturatingMul(limit, price), MicroLamportsPerLamport) \in Nat
  BY <1>2, DivCeilNat, BudgetAssumption
<1>4. limit * price + (MicroLamportsPerLamport - 1) \in Nat
  BY <1>1, BudgetAssumption
<1>5. (limit * price + (MicroLamportsPerLamport - 1)) \div MicroLamportsPerLamport \in Nat
  BY <1>4, QuotientNat, BudgetAssumption
<1>6. QED
  BY <1>3, <1>5 DEF Total

(* The budget built from the collected settings is a budget. *)
LEMMA BudgetFromSettingsType ==
  ASSUME NEW r, NEW s \in [Settings -> Optional(Nat)], NEW count \in Nat
  PROVE  BudgetFromSettings(r, s, count) \in ComputeBudget
<1>1. /\ s["SetComputeUnitLimit"] \in Optional(Nat)
      /\ s["RequestHeapFrame"] \in Optional(Nat)
      /\ s["SetLoadedAccountsDataSizeLimit"] \in Optional(Nat)
      /\ s["SetComputeUnitPrice"] \in Optional(Nat)
  BY DEF Settings
<1>2. DefaultComputeUnitLimit(count) \in Nat
  BY ProductNat, BudgetAssumption DEF DefaultComputeUnitLimit
<1>3. ComputeUnitLimitOrDefault(s["SetComputeUnitLimit"], count) \in Nat
  BY <1>1, <1>2 DEF ComputeUnitLimitOrDefault, Optional
<1>4. ASSUME s["SetComputeUnitPrice"] # Nil
      PROVE  Total(r, ComputeUnitLimitOrDefault(s["SetComputeUnitLimit"], count),
                   s["SetComputeUnitPrice"]) \in Nat
  BY <1>1, <1>3, <1>4, TotalNat DEF Optional
<1>5. QED
  BY <1>1, <1>4 DEF BudgetFromSettings, ComputeBudget, Optional
-----------------------------------------------------------------------------
(* The operand of the last assignment is absent or a natural number. *)
LEMMA SettingsAfterType ==
  ASSUME NEW m \in Message
  PROVE  SettingsAfter(m, Len(m.instructions)) \in [Settings -> Optional(Nat)]
<1> DEFINE n == Len(m.instructions)
<1>1. m.instructions \in Seq(Instruction) /\ n \in Nat
  BY DEF Message
<1>2. ASSUME NEW s \in Settings, LastAssignment(m, n, s) # 0
      PROVE  m.instructions[LastAssignment(m, n, s)].operand \in Optional(Nat)
  <2> DEFINE A == {k \in 1..n : Sets(m, k, s)}
  <2>1. A # {} /\ LastAssignment(m, n, s) = Max(A)
    BY <1>2 DEF LastAssignment
  <2>2. A \in SUBSET (0..n)
    BY <1>1
  <2>3. Max(A) \in A
    BY <1>1, <2>1, <2>2, GreatestOf
  <2>4. m.instructions[Max(A)] \in Instruction
    <3>1. \A k \in 1..n : m.instructions[k] \in Instruction
      BY <1>1
    <3> HIDE DEF n
    <3> QED BY <2>3, <3>1
  <2> QED BY <2>1, <2>4 DEF Instruction
<1> QED BY <1>2 DEF SettingsAfter, Optional

(* A message's fee, however a reader states it. *)
LEMMA BudgetOfMessageType ==
  ASSUME NEW r, NEW m \in Message, m.version = "v1" => m.config # Nil
  PROVE  BudgetOfMessage(r, m) \in ComputeBudget
<1>1. CASE m.version = "v1"
  <2>1. m.config \in ComputeBudget
    BY <1>1 DEF Message, Optional
  <2> QED BY <1>1, <2>1 DEF BudgetOfMessage, BudgetFromConfig, ComputeBudget
<1>2. CASE m.version # "v1"
  <2>1. Len(m.instructions) \in Nat
    BY DEF Message
  <2> QED BY <1>2, <2>1, SettingsAfterType, BudgetFromSettingsType DEF BudgetOfMessage
<1> QED BY <1>1, <1>2

(* Readers state the same budget where limit times price fits 64 bits. *)
LEMMA BudgetsAgree ==
  ASSUME NEW r, NEW s, NEW m \in Message, Fits(m)
  PROVE  BudgetOfMessage(r, m) = BudgetOfMessage(s, m)
<1> DEFINE settings == SettingsAfter(m, Len(m.instructions))
           limit == ComputeUnitLimitOrDefault(settings["SetComputeUnitLimit"],
                                              Len(m.instructions))
           price == settings["SetComputeUnitPrice"]
<1>1. CASE m.version = "v1" \/ price = Nil
  BY <1>1 DEF BudgetOfMessage, BudgetFromSettings
<1>2. CASE m.version # "v1" /\ price # Nil
  <2>1. Len(m.instructions) \in Nat
    BY DEF Message
  <2>2. DefaultComputeUnitLimit(Len(m.instructions)) \in Nat
    BY <2>1, ProductNat, BudgetAssumption DEF DefaultComputeUnitLimit
  <2>3. limit \in Nat /\ price \in Nat
    BY <1>2, <2>2, SettingsAfterType DEF ComputeUnitLimitOrDefault, Optional, Settings
  <2>4. price * limit <= MaxU64
    BY <1>2 DEF Fits
  <2> HIDE DEF limit, price
  <2>5. limit * price <= MaxU64
    BY <2>3, <2>4
  <2>6. Total(r, limit, price) = Total(s, limit, price)
    BY <2>3, <2>5, TotalsAgree
  <2> QED BY <1>2, <2>6 DEF BudgetOfMessage, BudgetFromSettings, limit, price
<1> QED BY <1>1, <1>2
=============================================================================
