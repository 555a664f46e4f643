----------------------------- MODULE PlanProofs -----------------------------
(***************************************************************************)
(* What the split rule guarantees for every integer width, every limit on  *)
(* the number of parts and every legal file and part size.                 *)
(***************************************************************************)
EXTENDS Plan, TLAPS

Sizes == 0 .. MaxInt

\* In range, wrapping does nothing.
LEMMA WrapInRange == \A x \in Sizes : Wrap(x) = x
<1> SUFFICES ASSUME NEW x \in Sizes PROVE Wrap(x) = x
  OBVIOUS
<1> DEFINE m == 2 * (MaxInt + 1)
<1>1. m \in Nat \ {0} /\ x + MaxInt + 1 \in 0 .. m - 1
  BY PlanAssumption DEF Sizes
<1> HIDE DEF m
<1>2. (x + MaxInt + 1) % m = x + MaxInt + 1
  BY <1>1, SMT
<1> QED
  BY <1>2, PlanAssumption DEF Wrap, m, Sizes

\* Division with remainder, in the form the steps below use.
LEMMA Division ==
  ASSUME NEW f \in Nat, NEW p \in Nat \ {0}
  PROVE  /\ f \div p \in Nat
         /\ f % p \in 0 .. p - 1
         /\ f = p * (f \div p) + (f % p)
  BY SMT

LEMMA QuotientBelow ==
  ASSUME NEW f \in Nat, NEW p \in Nat \ {0}
  PROVE  f \div p <= f
<1> DEFINE q == f \div p
<1>1. q \in Nat /\ p * q <= f
  BY Division
<1> HIDE DEF q
<1>2. q <= p * q
  BY <1>1, SMT
<1> QED
  BY <1>1, <1>2 DEF q

\* countParts never overflows, and counts the quotient rounded up, or one.
LEMMA CountIsRoundedUp ==
  ASSUME NEW f \in Sizes, NEW p \in Sizes \ {0}
  PROVE  CountParts(f, p) = IF f \div p = 0 \/ f % p # 0 THEN f \div p + 1 ELSE f \div p
<1>1. f \in Nat /\ p \in Nat \ {0}
  BY PlanAssumption DEF Sizes
<1>2. f \div p \in Nat /\ f \div p <= f /\ f = p * (f \div p) + (f % p) /\ f % p \in 0 .. p - 1
  BY <1>1, Division, QuotientBelow
<1> DEFINE q == f \div p
           r == f % p
<1>3. q = 0 \/ r # 0 => q + 1 \in Sizes
  <2>1. CASE q = 0
    BY <2>1, PlanAssumption DEF Sizes
  <2>2. CASE q # 0 /\ r # 0
    <3>1. q \in Nat /\ r \in Nat \ {0} /\ f = p * q + r
      BY <1>2, <2>2
    <3> HIDE DEF q, r
    <3>2. p * q >= q
      BY <1>1, <3>1, SMT
    <3>3. q + 1 <= f
      BY <1>1, <3>1, <3>2
    <3> QED
      BY <3>1, <3>3, PlanAssumption DEF Sizes
  <2> QED
    BY <2>1, <2>2
<1> QED
  BY <1>2, <1>3, WrapInRange DEF CountParts

\* A file has at least one part.
LEMMA CountIsPositive ==
  ASSUME NEW f \in Sizes, NEW p \in Sizes \ {0}
  PROVE  CountParts(f, p) \in Nat \ {0}
<1>1. f \in Nat /\ p \in Nat \ {0} /\ f \div p \in Nat
  BY Division, PlanAssumption DEF Sizes
<1> QED
  BY <1>1, CountIsRoundedUp

\* The offset of every part lies in the file, so computing it cannot
\* overflow, and no part is longer than the part size.
LEMMA PartInFile ==
  ASSUME NEW f \in Sizes, NEW p \in Sizes \ {0}, NEW i \in 0 .. CountParts(f, p) - 1
  PROVE  /\ i * p \in 0 .. f
         /\ PartAt(f, p, i) = [offset |-> i * p, size |-> LesserOf(p, f - i * p)]
         /\ PartAt(f, p, i).size \in 0 .. p
<1> DEFINE q == f \div p
           r == f % p
<1>1. f \in Nat /\ p \in Nat \ {0}
  BY PlanAssumption DEF Sizes
<1>2. q \in Nat /\ r \in 0 .. p - 1 /\ f = p * q + r
  BY <1>1, Division
<1>3. i \in Nat /\ i <= q
  BY <1>2, CountIsRoundedUp
<1> HIDE DEF q, r
<1>4. i * p <= p * q /\ i * p \in Nat
  BY <1>1, <1>2, <1>3, SMT
<1>5. i * p \in 0 .. f
  BY <1>1, <1>2, <1>4
<1>6. i * p \in Sizes /\ f - i * p \in Sizes
  BY <1>5, <1>1, PlanAssumption DEF Sizes
<1>7. Wrap(i * p) = i * p /\ Wrap(f - i * p) = f - i * p
  BY <1>6, WrapInRange
<1>8. LesserOf(p, f - i * p) \in 0 .. p
  BY <1>1, <1>6, PlanAssumption DEF LesserOf, Sizes
<1> QED
  BY <1>5, <1>7, <1>8 DEF PartAt

\* Every part but the last is full and ends where the next one begins; the
\* last ends where the file does, and is empty only if the file is.
LEMMA PartsTile ==
  ASSUME NEW f \in Sizes, NEW p \in Sizes \ {0}, NEW i \in 0 .. CountParts(f, p) - 1
  PROVE  LET part == PartAt(f, p, i)
         IN  /\ part.size = 0 => f = 0
             /\ i + 1 < CountParts(f, p) => part.offset + part.size = PartAt(f, p, i + 1).offset
             /\ i + 1 = CountParts(f, p) => part.offset + part.size = f
<1> DEFINE q == f \div p
           r == f % p
           n == CountParts(f, p)
<1>1. f \in Nat /\ p \in Nat \ {0}
  BY PlanAssumption DEF Sizes
<1>2. q \in Nat /\ r \in 0 .. p - 1 /\ f = p * q + r
  BY <1>1, Division
<1>3. n = (IF q = 0 \/ r # 0 THEN q + 1 ELSE q) /\ n \in Nat \ {0}
  BY CountIsRoundedUp, CountIsPositive
<1>4. /\ i \in 0 .. n - 1
      /\ i * p \in 0 .. f
      /\ PartAt(f, p, i) = [offset |-> i * p, size |-> LesserOf(p, f - i * p)]
  BY PartInFile
<1>5. i + 1 < n => /\ PartAt(f, p, i + 1).offset = (i + 1) * p
                   /\ (i + 1) * p \in 0 .. f
  <2>1. SUFFICES ASSUME i + 1 < n
                 PROVE  PartAt(f, p, i + 1).offset = (i + 1) * p /\ (i + 1) * p \in 0 .. f
    OBVIOUS
  <2>2. i + 1 \in 0 .. CountParts(f, p) - 1
    BY <1>3, <1>4, <2>1
  <2> QED
    BY <2>2, PartInFile
<1>6. i * p \in Nat /\ (i + 1) * p = i * p + p
  BY <1>1, <1>3, <1>4, SMT
<1>7. i + 1 < n => LesserOf(p, f - i * p) = p
  BY <1>1, <1>5, <1>6 DEF LesserOf
<1>8. i + 1 = n => LesserOf(p, f - i * p) = f - i * p
  <2>1. SUFFICES ASSUME i + 1 = n PROVE f - i * p <= p
    BY <1>1, <1>6 DEF LesserOf
  <2>2. n * p = i * p + p
    BY <1>6, <2>1
  <2>3. CASE q = 0 \/ r # 0
    <3>1. n = q + 1
      BY <1>3, <2>3
    <3> HIDE DEF q, r, n
    <3>2. n * p = p * q + p
      BY <1>1, <1>2, <3>1, SMT
    <3> QED
      BY <1>1, <1>2, <1>6, <2>2, <3>2
  <2>4. CASE ~(q = 0 \/ r # 0)
    <3>1. n = q /\ r = 0
      BY <1>3, <2>4
    <3> HIDE DEF q, r, n
    <3>2. n * p = p * q
      BY <1>1, <1>2, <3>1, SMT
    <3> QED
      BY <1>1, <1>2, <1>6, <2>2, <3>1, <3>2
  <2> QED
    BY <2>3, <2>4
<1>9. LesserOf(p, f - i * p) = 0 => f = 0
  <2>1. SUFFICES ASSUME LesserOf(p, f - i * p) = 0 PROVE f = 0
    OBVIOUS
  <2>2. f = i * p
    BY <1>1, <1>6, <2>1 DEF LesserOf
  <2>3. i + 1 = n
    BY <1>1, <1>3, <1>4, <1>7, <2>1
  <2>4. CASE q = 0 \/ r # 0
    <3>1. i = q
      BY <1>2, <1>3, <2>3, <2>4
    <3>2. r = 0
      <4> HIDE DEF q, r, n
      <4> QED
        BY <1>1, <1>2, <2>2, <3>1, SMT
    <3>3. q = 0
      BY <2>4, <3>2
    <3> QED
      BY <1>1, <1>2, <3>2, <3>3
  <2>5. CASE ~(q = 0 \/ r # 0)
    <3>1. i = q - 1 /\ r = 0
      BY <1>2, <1>3, <2>3, <2>5
    <3> HIDE DEF q, r, n
    <3>2. i * p = p * q - p
      BY <1>1, <1>2, <1>4, <3>1, SMT
    <3> QED
      BY <1>1, <1>2, <2>2, <3>1, <3>2
  <2> QED
    BY <2>4, <2>5
<1>10. PartAt(f, p, i).offset = i * p /\ PartAt(f, p, i).size = LesserOf(p, f - i * p)
  BY <1>4
<1> HIDE DEF q, r
<1>11. i + 1 < n => PartAt(f, p, i).offset + PartAt(f, p, i).size = PartAt(f, p, i + 1).offset
  BY <1>5, <1>6, <1>7, <1>10
<1>12. i + 1 = n => PartAt(f, p, i).offset + PartAt(f, p, i).size = f
  BY <1>1, <1>6, <1>8, <1>10
<1> QED
  BY <1>9, <1>10, <1>11, <1>12

\* A plan that is not refused has between one part and the limit.
LEMMA PlanHasParts ==
  ASSUME NEW f \in Sizes, NEW p \in Sizes \ {0}, NewPlan(f, p).err = "none"
  PROVE  /\ NewPlan(f, p).numParts = CountParts(f, p)
         /\ NewPlan(f, p).numParts \in 1 .. MaxParts
<1>1. f >= 0 /\ p > 0
  BY PlanAssumption DEF Sizes
<1>2. NewPlan(f, p).numParts = CountParts(f, p) /\ ~(CountParts(f, p) > MaxParts)
  BY <1>1 DEF NewPlan
<1> QED
  BY <1>2, CountIsPositive, PlanAssumption

-----------------------------------------------------------------------------
(* The advice a refused split gives. *)

LEMMA ProductsOrdered ==
  ASSUME NEW a \in Nat, NEW b \in Nat, NEW k \in Nat, a <= b
  PROVE  k * a \in Nat /\ k * b \in Nat /\ k * a <= k * b
<1>1. PICK d \in Nat : b = a + d
  <2>1. b - a \in Nat /\ b = a + (b - a)
    OBVIOUS
  <2> QED BY <2>1
<1>2. k * b = k * a + k * d /\ k * d \in Nat /\ k * a \in Nat
  BY <1>1, SMT
<1> QED BY <1>2

\* A file divided by n with the remainder's one added: the least size n of
\* which hold it.
LEMMA RoundedUp ==
  ASSUME NEW f \in Nat, NEW n \in Nat \ {0}, NEW s \in Nat,
         s = IF f % n # 0 THEN f \div n + 1 ELSE f \div n
  PROVE  /\ f <= n * s
         /\ f # 0 => s # 0 /\ n * (s - 1) < f
<1> DEFINE q == f \div n
           r == f % n
<1>1. q \in Nat /\ r \in 0 .. n - 1 /\ f = n * q + r
  BY Division
<1>2. s = IF r # 0 THEN q + 1 ELSE q
  OBVIOUS
<1> HIDE DEF q, r
<1>3. CASE r # 0
  <2>1. s = q + 1 /\ n * s = n * q + n /\ s - 1 = q
    BY <1>1, <1>2, <1>3, SMT
  <2> QED BY <1>1, <1>3, <2>1
<1>4. CASE r = 0
  <2>1. s = q /\ n * q = f
    BY <1>1, <1>2, <1>4
  <2>2. ASSUME f # 0 PROVE q # 0
    BY <1>1, <1>4, <2>2, SMT
  <2>3. n * (q - 1) = n * q - n
    BY <1>1, SMT
  <2> QED BY <2>1, <2>2, <2>3
<1> QED BY <1>3, <1>4

\* A split stays within m parts exactly when m of them hold the file.
LEMMA FitsIn ==
  ASSUME NEW f \in Sizes, NEW p \in Sizes \ {0}, NEW m \in Nat \ {0}
  PROVE  CountParts(f, p) <= m <=> f <= p * m
<1> DEFINE n == CountParts(f, p)
           up == IF f % p # 0 THEN f \div p + 1 ELSE f \div p
<1>1. f \in Nat /\ p \in Nat \ {0}
  BY PlanAssumption DEF Sizes
<1>2. /\ n \in Nat \ {0}
      /\ n = IF f \div p = 0 \/ f % p # 0 THEN f \div p + 1 ELSE f \div p
  BY CountIsPositive, CountIsRoundedUp
<1>3. up \in Nat /\ (up = n \/ (up = 0 /\ n = 1))
  <2>1. f \div p \in Nat /\ f % p \in 0 .. p - 1
    BY <1>1, Division
  <2> HIDE DEF n
  <2> QED BY <1>2, <2>1
<1>4. f <= p * up /\ (f # 0 => up # 0 /\ p * (up - 1) < f)
  <2>1. up \in Nat /\ up = (IF f % p # 0 THEN f \div p + 1 ELSE f \div p)
    BY <1>3
  <2> HIDE DEF up
  <2> QED BY <1>1, <2>1, RoundedUp
<1> HIDE DEF up, n
<1>5. f <= p * n
  BY <1>1, <1>3, <1>4, SMT
<1>6. n <= m => f <= p * m
  BY <1>1, <1>2, <1>5, ProductsOrdered
<1>7. ASSUME ~(n <= m) PROVE ~(f <= p * m)
  <2>1. up = n /\ n - 1 \in Nat /\ m <= n - 1
    BY <1>2, <1>3, <1>7
  <2>2. f # 0
    <3>1. SUFFICES ASSUME f = 0 PROVE FALSE
      OBVIOUS
    <3>2. f \div p = 0 /\ f % p = 0
      BY <1>1, <3>1, SMT
    <3> QED BY <1>2, <2>1, <3>2
  <2>3. p * m \in Nat /\ p * m <= p * (n - 1)
    BY <1>1, <2>1, ProductsOrdered
  <2>4. p * (n - 1) < f /\ p * (n - 1) \in Nat
    BY <1>1, <1>4, <2>1, <2>2, ProductsOrdered
  <2> QED BY <1>1, <2>3, <2>4
<1> QED BY <1>6, <1>7 DEF n

\* The part size the error names is accepted, and no smaller one is.
LEMMA AdviceIsLeast ==
  ASSUME NEW f \in Sizes, NEW p \in Sizes \ {0}, CountParts(f, p) > MaxParts
  PROVE  LET s == SmallestPartSize(f)
         IN  /\ s \in Sizes \ {0} /\ CountParts(f, s) <= MaxParts
             /\ s - 1 \in Sizes \ {0} /\ CountParts(f, s - 1) > MaxParts
<1> DEFINE s == IF f % MaxParts # 0 THEN f \div MaxParts + 1 ELSE f \div MaxParts
<1>1. f \in Nat /\ p \in Nat \ {0} /\ MaxParts \in Nat \ {0} /\ MaxInt \in Nat
  BY PlanAssumption DEF Sizes
<1>2. f \div MaxParts \in Nat /\ s \in Nat
  <2>1. f \div MaxParts \in Nat
    BY <1>1, Division
  <2> QED BY <2>1
<1>3. f <= MaxParts * s /\ (f # 0 => s # 0 /\ MaxParts * (s - 1) < f)
  BY <1>1, <1>2, RoundedUp
<1>4. p * MaxParts < f
  <2>1. CountParts(f, p) \in Nat /\ p * MaxParts \in Nat
    BY <1>1, CountIsPositive, SMT
  <2>2. ~(CountParts(f, p) <= MaxParts)
    BY <1>1, <2>1
  <2> QED BY <1>1, <2>1, <2>2, FitsIn
<1>5. MaxParts < f /\ f # 0
  <2>1. MaxParts * 1 <= MaxParts * p /\ MaxParts * p = p * MaxParts /\ MaxParts * 1 = MaxParts
    BY <1>1, ProductsOrdered, SMT
  <2> QED BY <1>1, <1>4, <2>1
<1>6. s \in Sizes
  <2>1. f \div MaxParts <= f
    BY <1>1, QuotientBelow
  <2>2. CASE f % MaxParts = 0
    BY <1>1, <1>2, <2>1, <2>2 DEF Sizes
  <2>3. CASE f % MaxParts # 0
    <3>1. s = f \div MaxParts + 1
      BY <2>3
    <3>2. MaxParts * (s - 1) < f /\ s - 1 \in Nat
      BY <1>2, <1>3, <1>5, <3>1
    <3> HIDE DEF s
    <3>3. s - 1 <= MaxParts * (s - 1)
      BY <1>1, <3>2, SMT
    <3> QED BY <1>1, <1>2, <3>2, <3>3, PlanAssumption DEF Sizes
  <2> QED BY <2>2, <2>3
<1>7. SmallestPartSize(f) = s
  <2>1. f % MaxParts # 0 => f \div MaxParts + 1 \in Sizes
    BY <1>6
  <2> QED BY <2>1, WrapInRange DEF SmallestPartSize
<1> HIDE DEF s
<1>8. s # 1
  BY <1>1, <1>3, <1>5
<1>9. s \in Sizes \ {0} /\ s - 1 \in Sizes \ {0}
  BY <1>1, <1>2, <1>3, <1>5, <1>6, <1>8 DEF Sizes
<1>10. /\ s * MaxParts = MaxParts * s /\ (s - 1) * MaxParts = MaxParts * (s - 1)
       /\ MaxParts * (s - 1) \in Nat
  BY <1>1, <1>9, SMT DEF Sizes
<1>11. CountParts(f, s) <= MaxParts
  BY <1>1, <1>3, <1>9, <1>10, FitsIn
<1>12. ~(CountParts(f, s - 1) <= MaxParts)
  BY <1>1, <1>3, <1>5, <1>9, <1>10, FitsIn
<1>13. CountParts(f, s - 1) > MaxParts
  BY <1>1, <1>9, <1>12, CountIsPositive
<1> QED BY <1>7, <1>9, <1>11, <1>13
=============================================================================
