--------------------------- MODULE Builtins_proofs ---------------------------
(***************************************************************************)
(* Proofs about Builtins, for every width of a word and any operands.      *)
(*                                                                         *)
(* The arithmetic comes first.  What is said of every number is proved by  *)
(* the least number that it would not hold of; powers of two are the       *)
(* numbers of subsets.                                                     *)
(***************************************************************************)
EXTENDS Builtins, FiniteSetTheorems, WellFoundedInduction, TLAPS

-----------------------------------------------------------------------------
(***************************************************************************)
(* Induction.                                                              *)
(***************************************************************************)
Below == {pair \in Nat \X Nat : pair[1] < pair[2]}

\* A set of numbers has a least one.
LEMMA Least ==
  ASSUME NEW T \in SUBSET Nat, T # {}
  PROVE  \E m \in T : \A k \in T : m <= k
<1>1. IsWellFoundedOn(Below, Nat)
  BY NatLessThanWellFounded DEF OpToRel, Below
<1>2. PICK m \in T : \A k \in T : ~(<<k, m>> \in Below)
  BY <1>1, WFMin
<1>3. ASSUME NEW k \in T PROVE m <= k
  <2>1. k \in Nat /\ m \in Nat /\ ~(k < m)
    BY <1>2 DEF Below
  <2> QED BY <2>1
<1> QED BY <1>3

\* A set that has 0, and with every number the next, has all.
LEMMA EveryNumber ==
  ASSUME NEW S, 0 \in S, \A n \in Nat : n \in S => n + 1 \in S
  PROVE  \A n \in Nat : n \in S
<1> SUFFICES ASSUME Nat \ S # {} PROVE FALSE
  OBVIOUS
<1>1. PICK m \in Nat \ S : \A k \in Nat \ S : m <= k
  BY Least
<1>2. m - 1 \in Nat /\ m - 1 \in S /\ m = (m - 1) + 1
  BY <1>1
<1> QED BY <1>1, <1>2

-----------------------------------------------------------------------------
(***************************************************************************)
(* Powers of two.                                                          *)
(***************************************************************************)
\* The subsets of n elements are 2^n.
LEMMA SubsetsOf ==
  ASSUME NEW n \in Nat
  PROVE  IsFiniteSet(SUBSET (1 .. n)) /\ Cardinality(SUBSET (1 .. n)) = 2 ^ n /\ 2 ^ n \in Nat
<1>1. IsFiniteSet(1 .. n) /\ Cardinality(1 .. n) = n
  BY FS_Interval
<1>2. IsFiniteSet(SUBSET (1 .. n)) /\ Cardinality(SUBSET (1 .. n)) = 2 ^ n
  BY <1>1, FS_SUBSET
<1> QED BY <1>2, FS_CardinalityType

\* Every element doubles the subsets.
LEMMA PowerStep ==
  ASSUME NEW n \in Nat
  PROVE  2 ^ (n + 1) = 2 * 2 ^ n
<1> DEFINE Old == SUBSET (1 .. n)
           New == {X \cup {n + 1} : X \in Old}
           f == [X \in Old |-> X \cup {n + 1}]
<1>1. SUBSET (1 .. n + 1) = Old \cup New
  <2>1. ASSUME NEW Y \in SUBSET (1 .. n + 1), Y \notin Old PROVE Y \in New
    <3>1. n + 1 \in Y
      BY <2>1
    <3>2. Y \ {n + 1} \in Old /\ Y = (Y \ {n + 1}) \cup {n + 1}
      BY <2>1, <3>1
    <3> QED BY <3>2
  <2>2. Old \subseteq SUBSET (1 .. n + 1) /\ New \subseteq SUBSET (1 .. n + 1)
    <3>1. 1 .. n \subseteq 1 .. n + 1 /\ n + 1 \in 1 .. n + 1
      OBVIOUS
    <3> QED BY <3>1
  <2> HIDE DEF Old, New
  <2> QED BY <2>1, <2>2
<1>2. Old \cap New = {}
  OBVIOUS
<1>3. f \in Bijection(Old, New)
  <2>1. \A X, Y \in Old : f[X] = f[Y] => X = Y
    <3> SUFFICES ASSUME NEW X \in Old, NEW Y \in Old, X \cup {n + 1} = Y \cup {n + 1} PROVE X = Y
      OBVIOUS
    <3>1. n + 1 \notin X /\ n + 1 \notin Y
      OBVIOUS
    <3> QED BY <3>1
  <2>2. f \in [Old -> New] /\ \A Z \in New : \E X \in Old : f[X] = Z
    OBVIOUS
  <2> HIDE DEF f, New
  <2> QED BY <2>1, <2>2 DEF Bijection, Injection, Surjection, IsInjective
<1>4. IsFiniteSet(Old) /\ Cardinality(Old) = 2 ^ n /\ 2 ^ n \in Nat
  BY SubsetsOf
<1> HIDE DEF f, New, Old
<1>5. IsFiniteSet(New) /\ Cardinality(New) = 2 ^ n
  <2>1. ExistsBijection(Old, New)
    BY <1>3 DEF ExistsBijection
  <2> QED BY <1>4, <2>1, FS_Bijection
<1>6. Cardinality(Old \cup New) = Cardinality(Old) + Cardinality(New) - Cardinality(Old \cap New)
  BY <1>4, <1>5, FS_Union
<1>7. Cardinality(Old \cap New) = 0
  BY <1>2, FS_EmptySet
<1>8. Cardinality(Old \cup New) = 2 ^ (n + 1)
  <2>1. n + 1 \in Nat
    OBVIOUS
  <2>2. Cardinality(SUBSET (1 .. n + 1)) = 2 ^ (n + 1)
    BY <2>1, SubsetsOf
  <2> QED BY <1>1, <2>2
<1>9. \A p \in Nat : p + p - 0 = 2 * p
  OBVIOUS
<1>10. Cardinality(Old \cup New) = 2 ^ n + 2 ^ n - 0
  BY <1>4, <1>5, <1>6, <1>7
<1> QED BY <1>4, <1>8, <1>9, <1>10

\* Powers of two are positive.
LEMMA PowerType == \A n \in Nat : 2 ^ n \in Nat \ {0}
<1> DEFINE S == {n \in Nat : 2 ^ n \in Nat \ {0}}
<1>1. 0 \in S
  OBVIOUS
<1>2. ASSUME NEW n \in Nat, n \in S PROVE n + 1 \in S
  BY <1>2, PowerStep
<1> QED BY <1>1, <1>2, EveryNumber

\* The exponents add up.
LEMMA PowerSum == \A a, b \in Nat : 2 ^ (a + b) = 2 ^ a * 2 ^ b
<1> SUFFICES ASSUME NEW a \in Nat PROVE \A b \in Nat : 2 ^ (a + b) = 2 ^ a * 2 ^ b
  OBVIOUS
<1> DEFINE S == {b \in Nat : 2 ^ (a + b) = 2 ^ a * 2 ^ b}
<1>1. 0 \in S
  BY PowerType
<1>2. ASSUME NEW b \in Nat, b \in S PROVE b + 1 \in S
  <2>1. 2 ^ (b + 1) = 2 * 2 ^ b /\ 2 ^ ((a + b) + 1) = 2 * 2 ^ (a + b)
    BY PowerStep
  <2>2. (a + b) + 1 = a + (b + 1) /\ 2 ^ a \in Nat /\ 2 ^ b \in Nat
    BY PowerType
  <2>3. \A p, q \in Nat : 2 * (p * q) = p * (2 * q)
    OBVIOUS
  <2> QED BY <1>2, <2>1, <2>2, <2>3
<1>3. \A b \in Nat : b \in S
  <2> HIDE DEF S
  <2> QED BY <1>1, <1>2, EveryNumber
<1> QED BY <1>3

\* The next power is at least twice as large.
LEMMA PowerMonotone ==
  ASSUME NEW a \in Nat, NEW b \in Nat, a < b
  PROVE  2 * 2 ^ a <= 2 ^ b
<1>1. b - a - 1 \in Nat /\ (a + 1) + (b - a - 1) = b
  OBVIOUS
<1>2. 2 ^ b = 2 ^ (a + 1) * 2 ^ (b - a - 1) /\ 2 ^ (a + 1) = 2 * 2 ^ a
  BY <1>1, PowerSum, PowerStep
<1>3. 2 ^ a \in Nat /\ 2 ^ (b - a - 1) \in Nat \ {0}
  BY <1>1, PowerType
<1>4. \A p \in Nat, q \in Nat \ {0} : p <= p * q
  OBVIOUS
<1> QED BY <1>2, <1>3, <1>4

-----------------------------------------------------------------------------
(***************************************************************************)
(* Division, and the bits of a number.                                     *)
(***************************************************************************)
\* A number is its quotient and its remainder.
LEMMA Division ==
  ASSUME NEW v \in Int, NEW d \in Nat \ {0}
  PROVE  /\ v \div d \in Int /\ v % d \in Nat
         /\ v % d < d
         /\ v = (v \div d) * d + (v % d)
OBVIOUS

\* Both are unique.
LEMMA Quotient ==
  ASSUME NEW v \in Int, NEW d \in Nat \ {0}, NEW q \in Int, NEW r \in Nat, r < d, v = q * d + r
  PROVE  v \div d = q /\ v % d = r
<1> DEFINE p == v \div d
           s == v % d
<1>1. p \in Int /\ s \in Nat /\ s < d /\ v = p * d + s
  BY Division
<1> HIDE DEF p, s
<1>2. \A a, b \in Int : a < b => (b - a) * d >= d
  <2> SUFFICES ASSUME NEW c \in Nat \ {0} PROVE c * d >= d
    <3>1. \A a, b \in Int : a < b => b - a \in Nat \ {0}
      OBVIOUS
    <3> QED BY <3>1
  <2> QED OBVIOUS
<1>3. \A a, b \in Int : (b - a) * d = b * d - a * d
  OBVIOUS
<1>4. p * d \in Int /\ q * d \in Int
  BY <1>1
<1>5. ~(p < q)
  BY <1>1, <1>2, <1>3, <1>4
<1>6. ~(q < p)
  BY <1>1, <1>2, <1>3, <1>4
<1>7. p = q
  BY <1>1, <1>5, <1>6
<1>8. s = r
  BY <1>1, <1>4, <1>7
<1> QED BY <1>7, <1>8 DEF p, s

\* Multiples of the divisor.
LEMMA AddMultiple ==
  ASSUME NEW v \in Int, NEW d \in Nat \ {0}, NEW q \in Int
  PROVE  (v + q * d) \div d = (v \div d) + q /\ (v + q * d) % d = v % d
<1> DEFINE p == v \div d
           s == v % d
<1>1. p \in Int /\ s \in Nat /\ s < d /\ v = p * d + s
  BY Division
<1> HIDE DEF p, s
<1>2. v + q * d = (p + q) * d + s /\ v + q * d \in Int /\ p + q \in Int
  BY <1>1
<1>3. (v + q * d) \div d = p + q /\ (v + q * d) % d = s
  BY <1>1, <1>2, Quotient
<1> QED BY <1>3 DEF p, s

\* Bit k of v.
Bit(v, k) == (v \div 2 ^ k) % 2

\* What is added above a bit does not change it.
LEMMA LowBits ==
  ASSUME NEW m \in Nat, NEW h \in Nat, NEW b \in Int, NEW k \in Nat, k < m
  PROVE  Bit(h + b * 2 ^ m, k) = Bit(h, k)
<1> DEFINE d == 2 ^ k
           e == 2 ^ (m - k - 1)
<1>1. d \in Nat \ {0} /\ e \in Nat \ {0} /\ 2 ^ m = (2 * d) * e
  <2>1. m - k - 1 \in Nat /\ (k + 1) + (m - k - 1) = m /\ k + 1 \in Nat
    OBVIOUS
  <2>2. 2 ^ (k + 1) = 2 * d /\ 2 ^ ((k + 1) + (m - k - 1)) = 2 ^ (k + 1) * e
    BY <2>1, PowerStep, PowerSum
  <2>3. d \in Nat \ {0} /\ e \in Nat \ {0}
    BY <2>1, PowerType
  <2> QED BY <2>1, <2>2, <2>3
<1> HIDE DEF d, e
<1> DEFINE q == 2 * (b * e)
<1>2. b * ((2 * d) * e) = q * d /\ b * e \in Int
  BY <1>1
<1>3. q \in Int /\ q = 2 * (b * e)
  BY <1>2
<1> HIDE DEF q
<1>4. (h + q * d) \div d = (h \div d) + q
  <2>1. h \in Int
    OBVIOUS
  <2> QED BY <1>1, <1>3, <2>1, AddMultiple, Zenon
<1>5. h \div d \in Int
  BY <1>1, Division
<1>6. \A p, a \in Int : (p + 2 * a) % 2 = p % 2
  OBVIOUS
<1>7. ((h + q * d) \div d) % 2 = (h \div d) % 2
  BY <1>2, <1>3, <1>4, <1>5, <1>6
<1>8. h + b * 2 ^ m = h + q * d
  BY <1>1, <1>2
<1> QED BY <1>7, <1>8 DEF Bit, d

\* The bit itself, and those above it.
LEMMA HighBits ==
  ASSUME NEW m \in Nat, NEW h \in Nat, h < 2 ^ m
  PROVE  /\ \A b \in {0, 1} : Bit(h + b * 2 ^ m, m) = b
         /\ \A k \in Nat : k >= m => Bit(h, k) = 0
<1>1. 2 ^ m \in Nat \ {0}
  BY PowerType
<1>2. ASSUME NEW b \in {0, 1} PROVE Bit(h + b * 2 ^ m, m) = b
  <2>1. h + b * 2 ^ m \in Int /\ h + b * 2 ^ m = b * 2 ^ m + h /\ b \in Int
    BY <1>1
  <2>2. (h + b * 2 ^ m) \div 2 ^ m = b
    BY <1>1, <2>1, Quotient
  <2> QED BY <2>2 DEF Bit
<1>3. ASSUME NEW k \in Nat, k >= m PROVE Bit(h, k) = 0
  <2>1. 2 ^ k \in Nat \ {0} /\ h < 2 ^ k
    <3>1. CASE k = m
      BY <1>1, <3>1
    <3>2. CASE m < k
      BY <1>1, <3>2, PowerMonotone, PowerType
    <3> QED BY <1>3, <3>1, <3>2
  <2>2. h = 0 * 2 ^ k + h
    BY <2>1
  <2>3. h \div 2 ^ k = 0
    BY <2>1, <2>2, Quotient
  <2>4. 0 % 2 = 0
    OBVIOUS
  <2> QED BY <2>3, <2>4 DEF Bit
<1> QED BY <1>2, <1>3

\* A number below 2^(m+1) is its bit m and a number below 2^m.
LEMMA TopBit ==
  ASSUME NEW m \in Nat, NEW v \in Nat, v < 2 ^ (m + 1)
  PROVE  \E h \in Nat, b \in {0, 1} : h < 2 ^ m /\ v = h + b * 2 ^ m
<1>1. 2 ^ m \in Nat \ {0} /\ 2 ^ (m + 1) = 2 * 2 ^ m
  BY PowerType, PowerStep
<1>2. CASE v < 2 ^ m
  <2>1. v = v + 0 * 2 ^ m
    BY <1>1
  <2> QED BY <1>2, <2>1
<1>3. CASE ~(v < 2 ^ m)
  <2>1. v - 2 ^ m \in Nat /\ v - 2 ^ m < 2 ^ m /\ v = (v - 2 ^ m) + 1 * 2 ^ m
    BY <1>1, <1>3
  <2> QED BY <2>1
<1> QED BY <1>2, <1>3

\* The first n bits that are set.
Low(v, n) == {k \in 0 .. n - 1 : Bit(v, k) = 1}

\* The bits of a number below 2^n, and bit n.
LEMMA LowSplits ==
  ASSUME NEW n \in Nat, NEW h \in Nat, h < 2 ^ n, NEW b \in {0, 1}
  PROVE  /\ Low(h + b * 2 ^ n, n + 1) \ {n} = Low(h, n)
         /\ n \in Low(h + b * 2 ^ n, n + 1) <=> b = 1
<1> DEFINE v == h + b * 2 ^ n
<1>1. \A k \in 0 .. n - 1 : k \in Nat /\ Bit(v, k) = Bit(h, k)
  BY LowBits
<1>2. Bit(v, n) = b
  BY HighBits
<1>3. 0 .. (n + 1) - 1 = (0 .. n - 1) \cup {n} /\ n \notin 0 .. n - 1
  OBVIOUS
<1> HIDE DEF v
<1>4. Low(v, n + 1) \ {n} = Low(h, n) /\ (n \in Low(v, n + 1) <=> b = 1)
  BY <1>1, <1>2, <1>3 DEF Low
<1> QED BY <1>4 DEF v

\* Two numbers of n bits with the same bits are the same.
LEMMA BitsDetermine ==
  \A n \in Nat : \A u, v \in Nat : u < 2 ^ n /\ v < 2 ^ n /\ Low(u, n) = Low(v, n) => u = v
<1> DEFINE Same(n) == \A u, v \in Nat : u < 2 ^ n /\ v < 2 ^ n /\ Low(u, n) = Low(v, n) => u = v
           S == {n \in Nat : Same(n)}
<1>1. 0 \in S
  <2>1. \A u \in Nat : u < 1 => u = 0
    OBVIOUS
  <2>2. 2 ^ 0 = 1
    OBVIOUS
  <2> QED BY <2>1, <2>2
<1>2. ASSUME NEW n \in Nat, n \in S PROVE n + 1 \in S
  <2> SUFFICES ASSUME NEW u \in Nat, NEW v \in Nat, u < 2 ^ (n + 1), v < 2 ^ (n + 1),
                      Low(u, n + 1) = Low(v, n + 1)
               PROVE  u = v
    OBVIOUS
  <2>1. PICK h \in Nat, b \in {0, 1} : h < 2 ^ n /\ u = h + b * 2 ^ n
    BY TopBit
  <2>2. PICK g \in Nat, a \in {0, 1} : g < 2 ^ n /\ v = g + a * 2 ^ n
    BY TopBit
  <2>3. Low(u, n + 1) \ {n} = Low(h, n) /\ (n \in Low(u, n + 1) <=> b = 1)
    BY <2>1, LowSplits
  <2>4. Low(v, n + 1) \ {n} = Low(g, n) /\ (n \in Low(v, n + 1) <=> a = 1)
    BY <2>2, LowSplits
  <2>6. Low(h, n) = Low(g, n) /\ (b = 1 <=> a = 1)
    BY <2>3, <2>4
  <2>7. h = g
    BY <1>2, <2>1, <2>2, <2>6
  <2>8. b = a
    BY <2>6
  <2> QED BY <2>1, <2>2, <2>7, <2>8
<1>3. \A n \in Nat : n \in S
  <2> HIDE DEF S
  <2> QED BY <1>1, <1>2, EveryNumber
<1> QED BY <1>3

\* Any n bits are those of a number.
LEMMA BitsExist ==
  \A n \in Nat : \A B \in SUBSET (0 .. n - 1) : \E v \in Nat : v < 2 ^ n /\ Low(v, n) = B
<1> DEFINE Exist(n) == \A B \in SUBSET (0 .. n - 1) : \E v \in Nat : v < 2 ^ n /\ Low(v, n) = B
           S == {n \in Nat : Exist(n)}
<1>1. 0 \in S
  <2>1. 0 .. 0 - 1 = {} /\ 0 < 2 ^ 0
    OBVIOUS
  <2>2. Low(0, 0) = {}
    BY <2>1 DEF Low
  <2> QED BY <2>1, <2>2
<1>2. ASSUME NEW n \in Nat, n \in S PROVE n + 1 \in S
  <2> SUFFICES ASSUME NEW B \in SUBSET (0 .. (n + 1) - 1)
               PROVE  \E v \in Nat : v < 2 ^ (n + 1) /\ Low(v, n + 1) = B
    OBVIOUS
  <2>1. B \ {n} \in SUBSET (0 .. n - 1)
    OBVIOUS
  <2>2. PICK h \in Nat : h < 2 ^ n /\ Low(h, n) = B \ {n}
    BY <1>2, <2>1
  <2>3. PICK b \in {0, 1} : b = 1 <=> n \in B
    OBVIOUS
  <2> DEFINE v == h + b * 2 ^ n
  <2>4. Low(v, n + 1) = B
    <3>1. Low(v, n + 1) \ {n} = B \ {n} /\ (n \in Low(v, n + 1) <=> b = 1)
      <4>1. Low(v, n + 1) \ {n} = Low(h, n) /\ (n \in Low(v, n + 1) <=> b = 1)
        BY <2>2, LowSplits, Zenon
      <4> QED BY <2>2, <4>1
    <3>2. Low(v, n + 1) \in SUBSET (0 .. (n + 1) - 1)
      BY DEF Low
    <3> HIDE DEF v
    <3> QED BY <2>3, <3>1, <3>2
  <2>5. v \in Nat /\ v < 2 ^ (n + 1)
    <3>1. 2 ^ n \in Nat /\ 2 ^ (n + 1) = 2 * 2 ^ n
      BY PowerType, PowerStep
    <3>2. b * 2 ^ n = 0 \/ b * 2 ^ n = 2 ^ n
      BY <3>1
    <3> QED BY <2>2, <3>1, <3>2
  <2> QED BY <2>4, <2>5
<1>3. \A n \in Nat : n \in S
  <2> HIDE DEF S
  <2> QED BY <1>1, <1>2, EveryNumber
<1> QED BY <1>3

-----------------------------------------------------------------------------
(***************************************************************************)
(* Words.                                                                  *)
(***************************************************************************)
\* A word has at least four bits, and as many in either half.
LEMMA WidthType ==
  /\ LogWidth \in Nat /\ Width \in Nat /\ Half \in Nat \ {0, 1}
  /\ Width = 2 * Half
  /\ 2 ^ Width \in Nat \ {0} /\ 2 ^ Half \in Nat \ {0}
<1>1. LogWidth \in Nat /\ LogWidth - 1 \in Nat /\ (LogWidth - 1) + 1 = LogWidth /\ 1 < LogWidth
  BY BuiltinsAssumption
<1>2. Width = 2 * 2 ^ (LogWidth - 1) /\ 2 ^ (LogWidth - 1) \in Nat
  BY <1>1, PowerStep, PowerType DEF Width
<1>3. Half = 2 ^ (LogWidth - 1)
  BY <1>2 DEF Half
<1>4. 2 ^ (LogWidth - 1) >= 2
  <2>1. LogWidth - 2 \in Nat /\ (LogWidth - 2) + 1 = LogWidth - 1
    BY <1>1
  <2>2. 2 ^ (LogWidth - 1) = 2 * 2 ^ (LogWidth - 2) /\ 2 ^ (LogWidth - 2) \in Nat \ {0}
    BY <2>1, PowerStep, PowerType
  <2> QED BY <2>2
<1> QED BY <1>1, <1>2, <1>3, <1>4, PowerType

\* Words and sets of bits are the same thing.
LEMMA WordBits ==
  /\ \A v \in Words : Bits(v) \in SUBSET All /\ WordOf(Bits(v)) = v
  /\ \A B \in SUBSET All : WordOf(B) \in Words /\ Bits(WordOf(B)) = B
<1>1. \A v : Bits(v) = Low(v, Width)
  BY DEF Bits, All, Low, Bit
<1>2. Width \in Nat /\ 2 ^ Width \in Nat \ {0}
  BY WidthType
<1>3. \A v : v \in Words <=> v \in Nat /\ v < 2 ^ Width
  BY <1>2 DEF Words
<1>4. \A B \in SUBSET All : \E v \in Words : Bits(v) = B
  BY <1>1, <1>2, <1>3, BitsExist DEF All
<1>5. \A B \in SUBSET All : WordOf(B) \in Words /\ Bits(WordOf(B)) = B
  BY <1>4 DEF WordOf
<1>6. \A u, v \in Words : Bits(u) = Bits(v) => u = v
  BY <1>1, <1>2, <1>3, BitsDetermine
<1>7. \A v : Bits(v) \in SUBSET All
  BY DEF Bits
<1> QED BY <1>5, <1>6, <1>7

\* What the definitions say of a word.
LEMMA WordType ==
  ASSUME NEW v \in Words
  PROVE  v \in Nat /\ v < 2 ^ Width
BY WidthType DEF Words

\* An unsigned cast is in range.
LEMMA UnsignedType ==
  ASSUME NEW v \in Int, NEW w \in Nat
  PROVE  Unsigned(v, w) \in Nat /\ Unsigned(v, w) < 2 ^ w
<1>1. 2 ^ w \in Nat \ {0}
  BY PowerType
<1> QED BY <1>1, Division DEF Unsigned

\* A cast that changes nothing.
LEMMA SmallUnsigned ==
  ASSUME NEW v \in Nat, NEW w \in Nat, v < 2 ^ w
  PROVE  Unsigned(v, w) = v
<1>1. 2 ^ w \in Nat \ {0} /\ v = 0 * 2 ^ w + v
  BY PowerType
<1> QED BY <1>1, Quotient DEF Unsigned

\* A signed number that is not negative is also unsigned.
LEMMA NotNegative ==
  ASSUME NEW v \in Int, NEW w \in Nat, ~(Signed(v, w) < 0)
  PROVE  Cast("s", v, w) = Cast("u", v, w)
<1>1. Unsigned(v, w) \in Nat /\ Unsigned(v, w) < 2 ^ w /\ 2 ^ w \in Nat
  BY UnsignedType, PowerType
<1> QED BY <1>1 DEF Cast, Signed

\* A cast yields a number.
LEMMA CastType ==
  ASSUME NEW type, NEW v \in Int, NEW w \in Nat
  PROVE  Cast(type, v, w) \in Int
<1>1. Unsigned(v, w) \in Nat /\ 2 ^ w \in Nat
  BY UnsignedType, PowerType
<1> QED BY <1>1 DEF Cast, Signed

-----------------------------------------------------------------------------
(***************************************************************************)
(* Products that are shifted.                                              *)
(***************************************************************************)
\* A word fits into an int if its sign bit is clear.
LEMMA Fits ==
  ASSUME NEW v \in Nat, v < 2 ^ Width
  PROVE  /\ FitsInt(v) <=> v < 2 ^ (Width - 1)
         /\ Signed(v, Width) = IF v < 2 ^ (Width - 1) THEN v ELSE v - 2 ^ Width
<1>1. Unsigned(v, Width) = v /\ 2 ^ Width \in Nat \ {0}
  BY WidthType, SmallUnsigned
<1> QED BY <1>1 DEF FitsInt, Signed

\* The quotient of a number and that of the number less p * d.
LEMMA Quotients ==
  ASSUME NEW v \in Nat, NEW d \in Nat \ {0}, NEW p \in Nat, v < p * d
  PROVE  /\ v \div d \in Nat /\ v \div d < p
         /\ (v - p * d) \div d = (v \div d) - p
<1> DEFINE q == v \div d
           r == v % d
<1>1. q \in Int /\ r \in Nat /\ r < d /\ v = q * d + r
  BY Division
<1> HIDE DEF q, r
<1>2. q >= 0
  <2>1. \A a \in Int : a < 0 => a * d <= - d
    OBVIOUS
  <2> QED BY <1>1, <2>1
<1>3. q < p
  <2>1. \A a \in Nat : a * d >= 0
    OBVIOUS
  <2>2. q >= p => (q - p) * d >= 0
    BY <1>1, <2>1
  <2>3. (q - p) * d = q * d - p * d /\ q * d \in Int /\ p * d \in Int
    BY <1>1
  <2> QED BY <1>1, <2>2, <2>3
<1>4. v - p * d = (q - p) * d + r /\ v - p * d \in Int /\ q - p \in Int
  BY <1>1
<1>5. (v - p * d) \div d = q - p
  BY <1>1, <1>4, Quotient
<1> QED BY <1>1, <1>2, <1>3, <1>5 DEF q

\* What a negative number wraps to.
LEMMA Wrap ==
  ASSUME NEW v \in Int, NEW m \in Nat \ {0}, v < 0, - m <= v
  PROVE  v % m = v + m
<1>1. v = (- 1) * m + (v + m) /\ v + m \in Nat /\ v + m < m /\ - 1 \in Int
  OBVIOUS
<1> QED BY <1>1, Quotient

\* The arithmetic and the logical shift of a word whose sign bit is set are the
\* same only if nothing is shifted.
LEMMA ShiftsDiffer ==
  ASSUME NEW v \in Nat, v < 2 ^ Width, ~FitsInt(v), NEW n \in 0 .. Width
  PROVE  Shift("s", v, n) = Shift("u", v, n) <=> n = 0
<1> DEFINE p == 2 ^ (Width - n)
           d == 2 ^ n
           q == v \div d
           m == 2 ^ Width
<1>1. Width \in Nat /\ n \in Nat /\ Width - n \in Nat /\ m \in Nat \ {0}
      /\ d \in Nat \ {0} /\ p \in Nat \ {0}
  BY WidthType, PowerType
<1>2. m = p * d
  <2>1. (Width - n) + n = Width
    BY <1>1
  <2> QED BY <1>1, <2>1, PowerSum
<1>3. Cast("s", v, Width) = v - m /\ Cast("u", v, Width) = v
  <2>1. Unsigned(v, Width) = v
    BY <1>1, SmallUnsigned
  <2> QED BY <2>1, Fits DEF Cast
<1>4. n = 0 => p = m
  BY <1>1
<1>5. n # 0 => p < m
  <2>1. n # 0 => Width - n < Width
    BY <1>1
  <2>2. n # 0 => 2 * p <= m
    BY <1>1, <2>1, PowerMonotone
  <2> HIDE DEF p, m
  <2> QED BY <1>1, <2>2
<1>6. Shift("u", v, n) = q % m /\ Shift("s", v, n) = ((v - m) \div d) % m
  BY <1>3 DEF Shift, ToWord, Unsigned
<1>7. v < m
  OBVIOUS
<1> HIDE DEF p, d, m
<1>8. q \in Nat /\ q < p /\ (v - m) \div d = q - p
  BY <1>1, <1>2, <1>7, Quotients
<1> HIDE DEF q
<1>9. p <= m
  BY <1>1, <1>4, <1>5
<1>10. q % m = q
  <2>1. q = 0 * m + q /\ q < m
    BY <1>1, <1>8, <1>9
  <2> QED BY <1>1, <1>8, <2>1, Quotient
<1>11. (q - p) % m = q - p + m
  <2>1. q - p \in Int /\ q - p < 0 /\ - m <= q - p
    BY <1>1, <1>8, <1>9
  <2> QED BY <1>1, <2>1, Wrap
<1> QED BY <1>1, <1>4, <1>5, <1>6, <1>8, <1>10, <1>11


-----------------------------------------------------------------------------
(***************************************************************************)
(* Each family of macros.                                                  *)
(***************************************************************************)
\* Elements of a vector that no cast makes negative.
LEMMA SameElem ==
  ASSUME NEW v \in Words, NEW k \in Nat, ~(Elem("s", v, 4, k) < 0)
  PROVE  Elem("s", v, 4, k) = Elem("u", v, 4, k)
<1>1. ElemWidth(4) \in Nat
  BY WidthType DEF ElemWidth
<1>2. k * ElemWidth(4) \in Nat
  BY <1>1
<1>3. v \div 2 ^ (k * ElemWidth(4)) \in Int
  BY <1>2, PowerType, WordType, Division
<1> QED BY <1>1, <1>3, NotNegative DEF Elem, Cast

\* Sums of products, where char is signed or no byte is negative.
LEMMA SameDot ==
  ASSUME NEW c \in DotCalls, charSigned \/ ~NegativeByte(c)
  PROVE  Dot(c, c.types) = Dot(c, [k \in 1 .. 2 |-> CType(c.types[k], c.lanes)])
<1> DEFINE t == [k \in 1 .. 2 |-> CType(c.types[k], c.lanes)]
           Product(types) == [k \in 0 .. c.lanes - 1 |->
                                Elem(types[1], c.x, c.lanes, k)
                                * Elem(types[2], c.y, c.lanes, IF c.scalar THEN 0 ELSE k)]
<1>1. c.lanes \in {2, 4} /\ c.x \in Words /\ c.y \in Words
      /\ c.types[1] \in {"s", "u"} /\ c.types[2] \in {"s", "u"}
  BY BuiltinsAssumption DEF DotCalls
<1>2. t[1] = CType(c.types[1], c.lanes) /\ t[2] = CType(c.types[2], c.lanes)
  OBVIOUS
<1>3. ASSUME NEW k \in 0 .. c.lanes - 1
      PROVE  /\ Elem(c.types[1], c.x, c.lanes, k) = Elem(t[1], c.x, c.lanes, k)
             /\ Elem(c.types[2], c.y, c.lanes, k) = Elem(t[2], c.y, c.lanes, k)
  <2>1. CASE charSigned \/ c.lanes = 2
    BY <1>2, <2>1 DEF CType
  <2>2. CASE ~charSigned /\ c.lanes = 4
    <3>1. k \in Nat /\ k \in 0 .. 3
      BY <1>1, <2>2
    <3>2. c.types[1] = "s" => ~(Elem("s", c.x, 4, k) < 0)
      BY <2>2, <3>1 DEF NegativeByte
    <3>3. c.types[2] = "s" => ~(Elem("s", c.y, 4, k) < 0)
      BY <2>2, <3>1 DEF NegativeByte
    <3>4. c.types[1] = "s" => Elem("s", c.x, 4, k) = Elem("u", c.x, 4, k)
      BY <1>1, <3>1, <3>2, SameElem
    <3>5. c.types[2] = "s" => Elem("s", c.y, 4, k) = Elem("u", c.y, 4, k)
      BY <1>1, <3>1, <3>3, SameElem
    <3>6. t[1] = "u" /\ t[2] = "u"
      BY <1>1, <1>2, <2>2 DEF CType
    <3> QED BY <1>1, <2>2, <3>4, <3>5, <3>6
  <2> QED BY <1>1, <2>1, <2>2
<1>4. 0 \in 0 .. c.lanes - 1
  BY <1>1
<1> HIDE DEF t
<1>5. Product(c.types) = Product(t)
  BY <1>3, <1>4
<1> HIDE DEF Product
<1>6. SumFunction(Product(c.types)) = SumFunction(Product(t))
  BY <1>5
<1> QED BY <1>6 DEF Dot, Product, t

\* The product of two unsigned halves, rounded or not, is a word.
LEMMA ProductIsWord ==
  ASSUME NEW c, c.type = "u", ~c.acc, c.x \in Words, c.y \in Words, NEW n \in 1 .. Half
  PROVE  /\ Sum(c) \in Nat /\ Sum(c) < 2 ^ Width
         /\ Sum(c) + 2 ^ (n - 1) \in Nat /\ Sum(c) + 2 ^ (n - 1) < 2 ^ Width
<1> DEFINE h == 2 ^ Half
           r == 2 ^ (n - 1)
           a == Factor(c, c.x)
           b == Factor(c, c.y)
<1>1. Half \in Nat \ {0, 1} /\ h \in Nat \ {0} /\ Width = Half + Half
  BY WidthType
<1>2. 2 ^ Width = h * h
  BY <1>1, PowerSum
<1>3. r \in Nat /\ 2 * r <= h
  <2>1. n - 1 \in Nat /\ n - 1 < Half
    BY <1>1
  <2> QED BY <1>1, <2>1, PowerType, PowerMonotone
<1>4. ASSUME NEW v \in Words PROVE Factor(c, v) \in Nat /\ Factor(c, v) < h
  <2>1. v \in Int /\ v \div 2 ^ Half \in Int
    BY <1>1, WordType, Division
  <2> QED BY <1>1, <2>1, UnsignedType DEF Factor, Cast
<1>5. a \in Nat /\ a < h /\ b \in Nat /\ b < h
  BY <1>4
<1>6. Sum(c) = 0 + a * b
  BY DEF Sum
<1> HIDE DEF a, b, h, r
<1>7. a * b <= (h - 1) * (h - 1)
  <2>1. \A p, q, m \in Nat : p <= m /\ q <= m => p * q <= m * m
    OBVIOUS
  <2>2. h - 1 \in Nat /\ a <= h - 1 /\ b <= h - 1
    BY <1>1, <1>5
  <2> QED BY <1>5, <2>1, <2>2
<1>8. (h - 1) * (h - 1) = h * h - 2 * h + 1 /\ h * h \in Nat /\ a * b \in Nat
  BY <1>1, <1>5
<1>9. Sum(c) \in Nat /\ Sum(c) < 2 ^ Width /\ Sum(c) + r \in Nat /\ Sum(c) + r < 2 ^ Width
  BY <1>1, <1>2, <1>3, <1>6, <1>7, <1>8
<1> QED BY <1>9 DEF r

\* Where the shift of a product is not the same in both forms.
LEMMA SameShift ==
  ASSUME NEW c, NEW v \in Nat, v < 2 ^ Width, c.type = "u", ~c.acc, c.n \in 0 .. Half
  PROVE  ShiftsOf(c, v) # {Shift(c.type, v, c.n)} <=> ~FitsInt(v) /\ c.n > 0
<1>1. c.n \in 0 .. Width /\ c.n \in Nat
  BY WidthType
<1>2. CASE FitsInt(v)
  BY <1>2 DEF ShiftsOf
<1>3. CASE ~FitsInt(v)
  <2>1. Shift("s", v, c.n) = Shift("u", v, c.n) <=> c.n = 0
    BY <1>1, <1>3, ShiftsDiffer
  <2>2. ShiftsOf(c, v) = {Shift("s", v, c.n), Shift("u", v, c.n)}
    BY <1>3 DEF ShiftsOf
  <2> QED BY <1>1, <1>3, <2>1, <2>2
<1> QED BY <1>2, <1>3

\* Products: exactly where they differ.
LEMMA SameMul ==
  ASSUME NEW c \in MulCalls
  PROVE  (IF PulpRefuses(c) THEN {} ELSE PulpMul(c)) # EmuMul(c) <=>
           \/ PulpRefuses(c)
           \/ /\ c.type = "u" /\ ~c.acc /\ c.post # "" /\ c.n > 0
              /\ ~FitsInt(Sum(c) + IF c.post = "RN" THEN 2 ^ (c.n - 1) ELSE 0)
<1>1. /\ c.fam = "mul" /\ c.acc \in BOOLEAN /\ c.high \in BOOLEAN /\ c.type \in {"s", "u"}
      /\ c.post \in {"", "N", "RN"} /\ c.x \in Words /\ c.y \in Words /\ c.n \in 0 .. Half
      /\ (c.post = "RN" => c.n > 0)
  BY BuiltinsAssumption DEF MulCalls
<1>2. Half \in Nat \ {0, 1}
  BY WidthType
<1>3. EmuMul(c) # {}
  BY <1>1 DEF EmuMul, ShiftsOf
<1>4. CASE PulpRefuses(c)
  BY <1>3, <1>4
<1>5. CASE ~PulpRefuses(c) /\ c.post = ""
  BY <1>5 DEF PulpMul, EmuMul
<1>6. CASE ~PulpRefuses(c) /\ c.post = "N"
  <2>1. PulpMul(c) = {Shift(c.type, Sum(c), c.n)} /\ EmuMul(c) = ShiftsOf(c, Sum(c))
    BY <1>6 DEF PulpMul, EmuMul
  <2>2. CASE c.type = "u" /\ ~c.acc
    <3>1. Sum(c) \in Nat /\ Sum(c) < 2 ^ Width
      <4>1. 1 \in 1 .. Half
        BY <1>2
      <4> QED BY <1>1, <2>2, <4>1, ProductIsWord
    <3>2. Sum(c) + 0 = Sum(c)
      BY <3>1
    <3> QED BY <1>1, <1>6, <2>1, <2>2, <3>1, <3>2, SameShift
  <2>3. CASE ~(c.type = "u" /\ ~c.acc)
    BY <1>6, <2>1, <2>3 DEF ShiftsOf
  <2> QED BY <2>2, <2>3
<1>7. CASE ~PulpRefuses(c) /\ c.post = "RN"
  <2> DEFINE v == Sum(c) + 2 ^ (c.n - 1)
  <2>1. PulpMul(c) = {Shift(c.type, v, c.n)} /\ EmuMul(c) = ShiftsOf(c, v)
    BY <1>1, <1>7 DEF PulpMul, EmuMul, PulpRefuses, Round
  <2>2. CASE c.type = "u" /\ ~c.acc
    <3>1. v \in Nat /\ v < 2 ^ Width
      <4>1. c.n \in 1 .. Half
        BY <1>1, <1>2, <1>7
      <4> QED BY <1>1, <2>2, <4>1, ProductIsWord
    <3> HIDE DEF v
    <3>2. ShiftsOf(c, v) # {Shift(c.type, v, c.n)} <=> ~FitsInt(v) /\ c.n > 0
      BY <1>1, <2>2, <3>1, SameShift
    <3> QED BY <1>1, <1>7, <2>1, <2>2, <3>2 DEF v
  <2>3. CASE ~(c.type = "u" /\ ~c.acc)
    BY <1>7, <2>1, <2>3 DEF ShiftsOf
  <2> QED BY <2>2, <2>3
<1> QED BY <1>1, <1>4, <1>5, <1>6, <1>7

\* Normalised sums are always the same.
LEMMA SameNorm ==
  ASSUME NEW c PROVE PulpNorm(c) = EmuNorm(c)
BY DEF PulpNorm, EmuNorm, Round

\* A clipped value is the same, but for CLIPU behind an addend.
LEMMA SameClip ==
  ASSUME NEW c \in ClipCalls, c.op # "CLIPU" \/ c.z = 0
  PROVE  PulpClip(c) = EmuClip(c)
<1>1. /\ c.op \in {"CLIP", "CLIPU", "CLIP_R", "CLIPU_R"} /\ c.x \in Words /\ c.z \in Words
      /\ c.n \in 1 .. Width - 2
  BY BuiltinsAssumption DEF ClipCalls
<1>2. CASE c.op # "CLIPU"
  BY <1>1, <1>2 DEF PulpClip, EmuClip, Lower, Upper
<1>3. CASE c.op = "CLIPU" /\ c.z = 0
  <2> DEFINE v == Signed(c.x, Width)
             u == Upper(c)
  <2>1. Width \in Nat /\ c.n \in Nat
    BY <1>1, WidthType
  <2>2. v \in Int
    <3>1. c.x \in Int
      BY <1>1, WordType
    <3> QED BY <2>1, <3>1, CastType DEF Cast
  <2>3. u \in Nat
    BY <1>3, <2>1, PowerType DEF Upper
  <2>4. Lower(c) = 0
    BY <1>3 DEF Lower
  <2> HIDE DEF v, u
  <2>5. ToWord(0) = 0 /\ ToWord(1) = 1
    <3>1. 2 ^ Width \in Nat /\ 0 < 2 ^ Width /\ 1 < 2 ^ Width
      <4>1. 2 * 2 ^ 0 <= 2 ^ Width
        BY WidthType, PowerMonotone
      <4> QED BY <4>1, WidthType
    <3> QED BY <2>1, <3>1, SmallUnsigned DEF ToWord
  <2>6. PulpClip(c) = {ToWord(0 + Within(v, 0, u))}
    BY <1>3, <2>4 DEF PulpClip, v, u
  <2>7. EmuClip(c) = {IF ToWord(0 + (IF v < 0 THEN 1 ELSE 0)) # 0 THEN 0 ELSE ToWord(Within(v, v, u))}
    BY <1>3 DEF EmuClip, v, u
  <2>8. CASE v < 0
    <3>1. Within(v, 0, u) = 0
      BY <2>8 DEF Within
    <3>2. 0 + (IF v < 0 THEN 1 ELSE 0) = 1 /\ 0 + 0 = 0
      BY <2>8
    <3> QED BY <2>5, <2>6, <2>7, <3>1, <3>2
  <2>9. CASE ~(v < 0)
    <3>1. Within(v, 0, u) = Within(v, v, u) /\ Within(v, v, u) \in Int
      BY <2>2, <2>3, <2>9 DEF Within
    <3>2. 0 + (IF v < 0 THEN 1 ELSE 0) = 0 /\ 0 + Within(v, 0, u) = Within(v, v, u)
      BY <2>9, <3>1
    <3> QED BY <2>5, <2>6, <2>7, <3>2
  <2> QED BY <2>8, <2>9
<1> QED BY <1>2, <1>3

\* The most significant bit of a number of n bits that is not 0.
LEMMA FirstBit ==
  ASSUME NEW n \in Nat, NEW v \in Nat \ {0}, v < 2 ^ n
  PROVE  \E m \in 0 .. n - 1 : 2 ^ m <= v /\ v < 2 ^ (m + 1)
<1> DEFINE S == {m \in Nat : v < 2 ^ m}
<1>1. S \in SUBSET Nat /\ S # {}
  OBVIOUS
<1>2. PICK k \in S : \A m \in S : k <= m
  BY <1>1, Least
<1>3. k # 0
  <2>1. k = 0 => 2 ^ k = 1
    OBVIOUS
  <2>2. v < 2 ^ k /\ ~(v < 1)
    BY <1>2
  <2> QED BY <2>1, <2>2
<1>4. k - 1 \in Nat /\ (k - 1) + 1 = k /\ k <= n /\ ~(v < 2 ^ (k - 1)) /\ 2 ^ (k - 1) \in Nat
  <2>1. k - 1 \in Nat
    BY <1>2, <1>3
  <2> QED BY <1>2, <1>3, <2>1, PowerType
<1>5. k - 1 \in 0 .. n - 1 /\ 2 ^ (k - 1) <= v /\ v < 2 ^ ((k - 1) + 1)
  BY <1>2, <1>4
<1> QED BY <1>5

\* The first bit, counted from either end.
LEMMA SameFirstBit ==
  ASSUME NEW v \in Words \ {0}
  PROVE  Max(Bits(v)) = Width - 1 - LeadingZeros(v)
<1>1. v \in Nat \ {0} /\ v < 2 ^ Width /\ Width \in Nat
  BY WordType, WidthType
<1>2. PICK m \in 0 .. Width - 1 : 2 ^ m <= v /\ v < 2 ^ (m + 1)
  BY <1>1, FirstBit
<1>3. m \in Nat /\ m + 1 \in Nat /\ 2 ^ m \in Nat /\ 2 ^ (m + 1) = 2 * 2 ^ m
  BY <1>1, PowerType, PowerStep
<1>4. Max(Bits(v)) = m
  <2>1. m \in Bits(v)
    <3>1. v = 1 * 2 ^ m + (v - 2 ^ m) /\ v - 2 ^ m \in Nat /\ v - 2 ^ m < 2 ^ m
      BY <1>1, <1>2, <1>3
    <3>2. v \div 2 ^ m = 1
      BY <1>1, <1>3, <3>1, Quotient
    <3>3. 1 % 2 = 1
      OBVIOUS
    <3> QED BY <3>2, <3>3 DEF Bits, All
  <2>2. ASSUME NEW k \in Bits(v) PROVE m >= k
    <3>1. k \in Nat /\ Bit(v, k) = 1
      BY <1>1 DEF Bits, All, Bit
    <3>2. k >= m + 1 => Bit(v, k) = 0
      BY <1>1, <1>2, <1>3, <3>1, HighBits
    <3> QED BY <1>3, <3>1, <3>2
  <2>3. Bits(v) \in SUBSET Int
    BY <1>1 DEF Bits, All
  <2>4. \A k \in Bits(v) : (\A i \in Bits(v) : k >= i) => k = m
    BY <1>3, <2>1, <2>2, <2>3
  <2> QED BY <2>1, <2>2, <2>4 DEF Max
<1>5. LeadingZeros(v) = Width - 1 - m
  <2> DEFINE First(n) == 2 ^ (Width - n) > v /\ 2 ^ (Width - n - 1) <= v
  <2>1. Width - 1 - m \in 0 .. Width /\ First(Width - 1 - m)
    <3>1. Width - (Width - 1 - m) = m + 1 /\ Width - (Width - 1 - m) - 1 = m /\ Width - 1 - m \in 0 .. Width
      BY <1>1
    <3> QED BY <1>1, <1>2, <1>3, <3>1
  <2>2. ASSUME NEW n \in 0 .. Width, First(n) PROVE n = Width - 1 - m
    <3>1. n \in Nat /\ Width - n \in Nat
      BY <1>1
    <3>2. Width - n # 0
      <4>1. \A i \in Nat : i = 0 => 2 ^ i = 1
        OBVIOUS
      <4>2. 2 ^ (Width - n) > v /\ ~(1 > v)
        BY <1>1, <2>2
      <4> QED BY <3>1, <4>1, <4>2
    <3>3. Width - n - 1 \in Nat
      BY <3>1, <3>2
    <3>4. 2 ^ (Width - n) \in Nat /\ 2 ^ (Width - n - 1) \in Nat
      BY <3>1, <3>3, PowerType
    <3>5. ~(m + 1 < Width - n)
      <4>1. m + 1 < Width - n => m + 1 < Width - n - 1 \/ m + 1 = Width - n - 1
        BY <1>1, <1>3, <3>1
      <4>2. m + 1 < Width - n - 1 => 2 * 2 ^ (m + 1) <= 2 ^ (Width - n - 1)
        BY <1>3, <3>3, PowerMonotone
      <4> QED BY <1>1, <1>2, <1>3, <2>2, <3>4, <4>1, <4>2
    <3>6. ~(Width - n < m + 1)
      <4>1. Width - n < m + 1 => Width - n < m \/ Width - n = m
        BY <1>3, <3>1
      <4>2. Width - n < m => 2 * 2 ^ (Width - n) <= 2 ^ m
        BY <1>3, <3>1, PowerMonotone
      <4> QED BY <1>1, <1>2, <1>3, <2>2, <3>4, <4>1, <4>2
    <3> QED BY <1>1, <1>3, <3>1, <3>5, <3>6
  <2> QED BY <2>1, <2>2 DEF LeadingZeros
<1> QED BY <1>1, <1>3, <1>4, <1>5

\* The sign bit that an arithmetic shift by one bit leaves.
LEMMA ShiftedByOne ==
  ASSUME NEW v \in Words
  PROVE  /\ Width - 1 \in Nat /\ v \div 2 \in Nat /\ v \div 2 < 2 ^ (Width - 1)
         /\ \E b \in {0, 1} : Shift("s", v, 1) = (v \div 2) + b * 2 ^ (Width - 1)
<1> DEFINE h == 2 ^ (Width - 1)
           m == 2 ^ Width
           q == v \div 2
<1>1. Width \in Nat /\ Width - 1 \in Nat /\ h \in Nat \ {0} /\ v \in Nat /\ v < m /\ m = 2 * h
  <2>1. Width - 1 \in Nat /\ (Width - 1) + 1 = Width
    BY WidthType
  <2> QED BY <2>1, WidthType, WordType, PowerType, PowerStep
<1>2. Signed(v, Width) = IF v < h THEN v ELSE v - m
  BY <1>1, Fits
<1>3. Shift("s", v, 1) = (Signed(v, Width) \div 2) % m
  <2>1. 2 ^ 1 = 2
    OBVIOUS
  <2> QED BY <2>1 DEF Shift, ToWord, Unsigned, Cast
<1> HIDE DEF h, m
<1>4. q \in Nat /\ q < h /\ (v - h * 2) \div 2 = q - h
  <2>1. v < h * 2
    BY <1>1
  <2> QED BY <1>1, <2>1, Quotients
<1>5. v - m = v - h * 2
  BY <1>1
<1> HIDE DEF q
<1>6. Shift("s", v, 1) = q \/ Shift("s", v, 1) = q + h
  <2>1. q % m = q
    <3>1. q = 0 * m + q /\ q < m /\ m \in Nat \ {0}
      BY <1>1, <1>4
    <3> QED BY <1>4, <3>1, Quotient
  <2>2. (q - h) % m = q - h + m
    <3>1. q - h \in Int /\ q - h < 0 /\ - m <= q - h /\ m \in Nat \ {0}
      BY <1>1, <1>4
    <3> QED BY <3>1, Wrap
  <2>3. q - h + m = q + h
    BY <1>1, <1>4
  <2>4. CASE v < h
    BY <1>2, <1>3, <2>1, <2>4 DEF q
  <2>5. CASE ~(v < h)
    BY <1>2, <1>3, <1>4, <1>5, <2>2, <2>3, <2>5
  <2> QED BY <2>4, <2>5
<1>7. q + 0 * h = q /\ q + 1 * h = q + h
  BY <1>1, <1>4
<1>8. \E b \in {0, 1} : Shift("s", v, 1) = q + b * h
  BY <1>6, <1>7
<1> QED BY <1>1, <1>4, <1>8 DEF q, h

\* Rotated by one bit.
LEMMA SameRotation ==
  ASSUME NEW v \in Words
  PROVE  (v \div 2) + (v % 2) * 2 ^ (Width - 1)
         = WordOf((Bits(Shift("s", v, 1)) \ {Width - 1}) \cup Up(Bits(v), Width - 1))
<1> DEFINE t == Width - 1
           q == v \div 2
           r == v % 2
           w == q + r * 2 ^ t
<1>1. t \in Nat /\ q \in Nat /\ q < 2 ^ t /\ Width = t + 1 /\ All = 0 .. t
  BY ShiftedByOne, WidthType DEF All
<1>2. PICK b \in {0, 1} : Shift("s", v, 1) = q + b * 2 ^ t
  BY ShiftedByOne
<1>3. v \in Nat /\ r \in {0, 1}
  BY WordType
<1>4. 2 ^ t \in Nat /\ 2 ^ Width = 2 * 2 ^ t
  BY <1>1, PowerType, PowerStep
<1>5. \A n : Bits(n) = Low(n, t + 1)
  BY <1>1 DEF Bits, Low, Bit, All
<1>6. t \in Up(Bits(v), t) <=> r = 1
  <2>1. 0 \in Bits(v) <=> r = 1
    <3>1. 2 ^ 0 = 1 /\ v \div 1 = v
      BY <1>3
    <3> QED BY <1>1, <3>1 DEF Bits
  <2> HIDE DEF r
  <2>2. Bits(v) \in SUBSET (0 .. t)
    BY <1>1 DEF Bits
  <2>3. \A k \in Bits(v) : k + t = t <=> k = 0
    BY <1>1, <2>2
  <2> QED BY <1>1, <2>1, <2>3 DEF Up
<1>7. Up(Bits(v), t) \subseteq {t}
  <2>1. \A k \in 0 .. t : k + t \in 0 .. t => k + t = t
    BY <1>1
  <2>2. Bits(v) \in SUBSET (0 .. t)
    BY <1>1 DEF Bits
  <2> QED BY <1>1, <2>1, <2>2 DEF Up
<1> HIDE DEF t, q, r
<1>8. Low(w, t + 1) \ {t} = Low(q, t) /\ (t \in Low(w, t + 1) <=> r = 1)
  BY <1>1, <1>3, LowSplits
<1>9. Low(q + b * 2 ^ t, t + 1) \ {t} = Low(q, t)
  BY <1>1, LowSplits
<1>10. w \in Words
  <2>1. r * 2 ^ t \in Nat /\ r * 2 ^ t <= 2 ^ t
    BY <1>3, <1>4
  <2> QED BY <1>1, <1>4, <2>1 DEF Words
<1> HIDE DEF w
<1>11. Bits(w) = (Bits(Shift("s", v, 1)) \ {t}) \cup Up(Bits(v), t)
  BY <1>2, <1>5, <1>6, <1>7, <1>8, <1>9
<1>12. w = WordOf((Bits(Shift("s", v, 1)) \ {t}) \cup Up(Bits(v), t))
  BY <1>10, <1>11, WordBits
<1> QED BY <1>12 DEF w, q, r, t

-----------------------------------------------------------------------------
(***************************************************************************)
(* Bit fields.                                                             *)
(***************************************************************************)
\* Which bits of a shifted word are set.
LEMMA UpDown ==
  ASSUME NEW B \in SUBSET All, NEW o \in All
  PROVE  /\ Up(B, o) \in SUBSET All /\ \A k \in All : k \in Up(B, o) <=> k - o \in B
         /\ \A k \in All : k \in Down(B, o) <=> k + o \in B
<1>1. Width \in Nat /\ o \in Nat /\ \A k \in B : k \in Nat
  BY WidthType DEF All
<1>2. ASSUME NEW k \in All PROVE k \in Up(B, o) <=> k - o \in B
  <2>1. k \in Nat /\ (k - o) + o = k
    BY <1>1 DEF All
  <2>2. \A i \in B : i + o = k => i = k - o
    BY <1>1, <2>1
  <2> QED BY <1>2, <2>1, <2>2 DEF Up
<1>3. ASSUME NEW k \in All PROVE k \in Down(B, o) <=> k + o \in B
  <2>1. k \in Nat /\ (k + o) - o = k
    BY <1>1 DEF All
  <2>2. \A i \in B : i - o = k => i = k + o
    BY <1>1, <2>1
  <2> QED BY <1>3, <2>1, <2>2 DEF Down
<1> QED BY <1>2, <1>3 DEF Up

\* Bits that are not shifted out stay in the word.
LEMMA DownType ==
  ASSUME NEW B \in SUBSET All, NEW o \in All, \A k \in B : k >= o
  PROVE  Down(B, o) \in SUBSET All
<1>1. Width \in Nat /\ o \in 0 .. Width - 1 /\ B \in SUBSET (0 .. Width - 1)
  BY WidthType DEF All
<1>2. \A k \in B : k - o \in 0 .. Width - 1
  BY <1>1
<1> QED BY <1>2 DEF Down, All

\* Words are the same as their bits are.
LEMMA SameWord ==
  ASSUME NEW A \in SUBSET All, NEW B \in SUBSET All
  PROVE  WordOf(A) = WordOf(B) <=> A = B
BY WordBits

Field(c) == c.o .. c.o + c.n - 1

\* What is the same in all macros: the types, and what the register operand names.
LEMMA FieldIs ==
  ASSUME NEW c \in FieldCalls
  PROVE  /\ c.fam = "field" /\ c.op \in {"SET", "CLR", "EXTRACT", "EXTRACTU", "INSERT"}
         /\ c.form \in {"imm", "R", "SAFE"}
         /\ c.x \in Words /\ c.y \in Words
         /\ Width \in Nat \ {0} /\ c.n \in Nat \ {0} /\ c.o \in Nat /\ c.o \in All /\ c.o + c.n <= Width
         /\ Field(c) \in SUBSET All
         /\ Max(Field(c)) = c.o + c.n - 1
         /\ FieldOf(ExtInsMask(c)) = Field(c)
<1>1. /\ c.fam = "field" /\ c.op \in {"SET", "CLR", "EXTRACT", "EXTRACTU", "INSERT"}
      /\ c.form \in {"imm", "R", "SAFE"} /\ c.x \in Words
      /\ c.n \in 1 .. Width /\ c.o \in All /\ c.o + c.n <= Width
  BY BuiltinsAssumption DEF FieldCalls
<1>2. c.y \in Words
  <2>1. 0 \in Words
    BY WidthType DEF Words
  <2> QED BY <2>1, BuiltinsAssumption DEF FieldCalls
<1>3. Width \in Nat \ {0}
  BY WidthType
<1>4. c.n \in Nat \ {0} /\ c.o \in Nat
  BY <1>1, <1>3 DEF All
<1>5. Field(c) \in SUBSET All
  BY <1>1, <1>3, <1>4 DEF Field, All
<1>6. Max(Field(c)) = c.o + c.n - 1
  <2> DEFINE m == c.o + c.n - 1
  <2>1. m \in Field(c) /\ \A k \in Field(c) : m >= k
    BY <1>4 DEF Field
  <2>2. \A k \in Field(c) : (\A i \in Field(c) : k >= i) => k = m
    BY <1>4, <2>1 DEF Field
  <2> QED BY <2>1, <2>2 DEF Max
<1>7. FieldOf(ExtInsMask(c)) = Field(c)
  <2> DEFINE mask == (c.n - 1) * Width + c.o
  <2>1. c.n - 1 \in Nat /\ c.n - 1 < Width /\ c.o < Width /\ mask \in Int
       /\ mask = (c.n - 1) * Width + c.o
    BY <1>1, <1>3, <1>4 DEF All
  <2>2. mask \div Width = c.n - 1 /\ mask % Width = c.o
    <3> HIDE DEF mask
    <3>1. c.n - 1 \in Int
      BY <2>1
    <3> QED BY <1>3, <1>4, <2>1, <3>1, Quotient, Zenon
  <2>3. \A k \in Nat : k < Width => k % Width = k
    BY <1>3
  <2>4. ExtInsMask(c) = mask
    BY <1>4, <2>1, <2>3 DEF ExtInsMask
  <2> HIDE DEF mask
  <2>5. FieldOf(mask) = c.o .. c.o + (c.n - 1)
    BY <2>1, <2>2, <2>3 DEF FieldOf
  <2>6. c.o + (c.n - 1) = c.o + c.n - 1
    BY <1>4
  <2> QED BY <2>4, <2>5, <2>6 DEF Field
<1> QED BY <1>1, <1>2, <1>3, <1>4, <1>5, <1>6, <1>7

\* What the C header makes of a mask.
InC(c, m) ==
  CASE c.op = "SET" -> Bits(c.x) \cup Up(m, c.o)
    [] c.op = "CLR" -> Bits(c.x) \ Up(m, c.o)
    [] c.op \in {"EXTRACT", "EXTRACTU"} -> Down(Bits(c.x), c.o) \cap m
    [] c.op = "INSERT" -> (Bits(c.x) \ Up(m, c.o)) \cup Up(Bits(c.y) \cap m, c.o)

\* The result of the C header, by the mask it evaluates.
LEMMA EmuFieldIs ==
  ASSUME NEW c
  PROVE  EmuField(c) = {WordOf(InC(c, m)) :
                          m \in IF c.form = "SAFE" /\ c.op \in {"SET", "CLR"} THEN CMask(c.n % Width)
                                ELSE CMask(c.n)}
BY DEF EmuField, InC

\* A field that is not the whole word: the mask is its bits.
LEMMA PartOfWord ==
  ASSUME NEW c \in FieldCalls, c.n < Width
  PROVE  /\ PulpField(c) = {WordOf(Operate(c, Field(c)))}
         /\ EmuField(c) = {WordOf(InC(c, 0 .. c.n - 1))}
<1>1. Width \in Nat \ {0} /\ c.n \in Nat \ {0} /\ c.o \in Nat /\ c.o \in All /\ c.o + c.n <= Width
      /\ FieldOf(ExtInsMask(c)) = Field(c) /\ Field(c) \in SUBSET All
  BY FieldIs
<1>2. CMask(c.n) = {0 .. c.n - 1}
  BY DEF CMask
<1>3. c.n % Width = c.n
  BY <1>1
<1>4. Up(0 .. c.n - 1, c.o) = Field(c)
  <2>1. 0 .. c.n - 1 \in SUBSET All
    BY <1>1 DEF All
  <2>2. \A k \in All : k \in Up(0 .. c.n - 1, c.o) <=> k - c.o \in 0 .. c.n - 1
    BY <1>1, <2>1, UpDown
  <2>3. \A k \in All : k - c.o \in 0 .. c.n - 1 <=> k \in Field(c)
    BY <1>1 DEF All, Field
  <2>4. Up(0 .. c.n - 1, c.o) \in SUBSET All
    BY DEF Up
  <2> QED BY <1>1, <2>2, <2>3, <2>4
<1>5. PulpField(c) = {WordOf(Operate(c, Field(c)))}
  BY <1>1, <1>2, <1>4 DEF PulpField, Field
<1>6. EmuField(c) = {WordOf(InC(c, 0 .. c.n - 1))}
  BY <1>2, <1>3, EmuFieldIs
<1> QED BY <1>5, <1>6

\* There both forms are the same, but for an extracted sign.
LEMMA PartOfWordSame ==
  ASSUME NEW c \in FieldCalls, c.n < Width
  PROVE  PulpField(c) # EmuField(c) <=> c.op = "EXTRACT" /\ c.o + c.n - 1 \in Bits(c.x)
<1> DEFINE L == 0 .. c.n - 1
           F == Field(c)
           X == Bits(c.x)
           Y == Bits(c.y)
           top == c.o + c.n - 1
<1>1. /\ c.op \in {"SET", "CLR", "EXTRACT", "EXTRACTU", "INSERT"}
      /\ Width \in Nat \ {0} /\ c.n \in Nat \ {0} /\ c.o \in Nat /\ c.o \in All /\ c.o + c.n <= Width
      /\ F \in SUBSET All /\ Max(F) = top
      /\ c.x \in Words /\ c.y \in Words
  BY FieldIs
<1>2. X \in SUBSET All /\ Y \in SUBSET All /\ L \in SUBSET All /\ top \in All
  <2>1. L \in SUBSET All /\ top \in All
    BY <1>1 DEF All
  <2> QED BY <1>1, <2>1, WordBits
<1>3. \A k \in All : k \in F <=> k - c.o \in L
  BY <1>1 DEF All, Field
<1>4. Up(L, c.o) = F
  <2>1. \A k \in All : k \in Up(L, c.o) <=> k - c.o \in L
    BY <1>1, <1>2, UpDown
  <2>2. Up(L, c.o) \in SUBSET All
    BY DEF Up
  <2> QED BY <1>1, <1>3, <2>1, <2>2
<1>5. Up(Y \cap L, c.o) = Up(Y, c.o) \cap F
  <2>1. \A k \in All : k \in Up(Y, c.o) <=> k - c.o \in Y
    BY <1>1, <1>2, UpDown
  <2>2. Y \cap L \in SUBSET All
    BY <1>2
  <2>3. \A k \in All : k \in Up(Y \cap L, c.o) <=> k - c.o \in Y \cap L
    BY <1>1, <2>2, UpDown
  <2>4. Up(Y \cap L, c.o) \in SUBSET All /\ Up(Y, c.o) \in SUBSET All
    BY DEF Up
  <2> QED BY <1>3, <2>1, <2>3, <2>4
<1>6. Down(X \cap F, c.o) = Down(X, c.o) \cap L
  <2>1. X \cap F \in SUBSET All /\ \A k \in X \cap F : k >= c.o
    BY <1>1, <1>2 DEF Field
  <2>2. Down(X \cap F, c.o) \in SUBSET All
    BY <1>1, <2>1, DownType
  <2>3. \A k \in All : k \in Down(X \cap F, c.o) <=> k + c.o \in X \cap F
    BY <1>1, <2>1, UpDown
  <2>4. \A k \in All : k \in Down(X, c.o) <=> k + c.o \in X
    BY <1>1, <1>2, UpDown
  <2>5. \A k \in All : k + c.o \in F <=> k \in L
    BY <1>1 DEF All, Field
  <2> QED BY <1>2, <2>2, <2>3, <2>4, <2>5
<1>7. PulpField(c) = {WordOf(Operate(c, F))} /\ EmuField(c) = {WordOf(InC(c, L))}
  BY PartOfWord
<1> HIDE DEF F, L, X, Y, top
<1>8. CASE c.op \in {"SET", "CLR", "INSERT", "EXTRACTU"}
  <2>1. Operate(c, F) = InC(c, L)
    BY <1>4, <1>5, <1>6, <1>8 DEF Operate, InC, X, Y
  <2> QED BY <1>7, <1>8, <2>1
<1>9. CASE c.op = "EXTRACT"
  <2> DEFINE low == Down(X \cap F, c.o)
             sign == {k \in All : Max(F) \in X /\ c.o + k > Max(F)}
  <2>1. Operate(c, F) = low \cup sign /\ InC(c, L) = low
    BY <1>6, <1>9 DEF Operate, InC, X
  <2>2. low \in SUBSET All /\ low \subseteq L
    BY <1>2, <1>6
  <2>3. c.n \in All /\ c.n \notin L /\ c.o + c.n > top
    BY <1>1 DEF All, L, top
  <2>4. top \in X => c.n \in sign
    BY <1>1, <2>3
  <2>5. top \notin X => sign = {}
    BY <1>1
  <2>6. sign \in SUBSET All
    OBVIOUS
  <2> HIDE DEF low, sign
  <2>7. low \cup sign = low <=> top \notin X
    BY <2>2, <2>3, <2>4, <2>5
  <2>8. WordOf(low \cup sign) = WordOf(low) <=> low \cup sign = low
    <3>1. low \cup sign \in SUBSET All
      BY <2>2, <2>6
    <3> QED BY <2>2, <3>1, SameWord
  <2>9. top \notin X <=> PulpField(c) = EmuField(c)
    BY <1>7, <2>1, <2>7, <2>8
  <2> QED BY <1>9, <2>9 DEF X, top
<1> QED BY <1>1, <1>8, <1>9

\* A field of the whole word: C's mask has all bits or none.
LEMMA WholeWord ==
  ASSUME NEW c \in FieldCalls, c.n = Width
  PROVE  /\ c.o = 0 /\ Field(c) = All /\ CMask(c.n) = {{}, All} /\ CMask(c.n % Width) = {{}}
         /\ \A B \in SUBSET All : Up(B, 0) = B /\ Down(B, 0) = B
         /\ {k \in All : Max(All) \in Bits(c.x) /\ c.o + k > Max(All)} = {}
<1>1. /\ Width \in Nat \ {0} /\ c.o \in Nat /\ c.o + c.n <= Width
      /\ Max(Field(c)) = c.o + c.n - 1
  BY FieldIs
<1>2. c.o = 0
  BY <1>1
<1>3. Field(c) = All
  BY <1>1, <1>2 DEF Field, All
<1>4. CMask(c.n) = {{}, All}
  BY <1>1 DEF CMask
<1>5. CMask(c.n % Width) = {{}}
  <2>1. c.n % Width = 0 /\ 0 .. 0 - 1 = {} /\ 0 < Width
    BY <1>1
  <2> QED BY <2>1 DEF CMask
<1>6. ASSUME NEW B \in SUBSET All PROVE Up(B, 0) = B /\ Down(B, 0) = B
  <2>1. \A k \in B : k + 0 = k /\ k - 0 = k
    BY <1>1 DEF All
  <2> QED BY <2>1 DEF Up, Down
<1>7. {k \in All : Max(All) \in Bits(c.x) /\ c.o + k > Max(All)} = {}
  <2>1. Max(All) = Width - 1
    BY <1>1, <1>2, <1>3
  <2>2. \A k \in All : ~(c.o + k > Width - 1)
    BY <1>1, <1>2 DEF All
  <2> QED BY <2>1, <2>2
<1> QED BY <1>2, <1>3, <1>4, <1>5, <1>6, <1>7

\* There the forms differ whenever the mask matters.
LEMMA WholeWordSame ==
  ASSUME NEW c \in FieldCalls, c.n = Width
  PROVE  PulpField(c) # EmuField(c) <=>
           /\ c.form = "imm" => c.op \in {"EXTRACT", "EXTRACTU"}
           /\ CASE c.op = "SET" -> c.x # WordOf(All)
                [] c.op = "INSERT" -> c.x # c.y
                [] OTHER -> c.x # 0
<1> DEFINE X == Bits(c.x)
           Y == Bits(c.y)
<1>1. /\ c.op \in {"SET", "CLR", "EXTRACT", "EXTRACTU", "INSERT"} /\ c.form \in {"imm", "R", "SAFE"}
      /\ FieldOf(ExtInsMask(c)) = Field(c)
      /\ c.x \in Words /\ c.y \in Words
  BY FieldIs
<1>2. X \in SUBSET All /\ Y \in SUBSET All
  BY <1>1, WordBits
<1>3. /\ c.o = 0 /\ Field(c) = All /\ CMask(c.n) = {{}, All} /\ CMask(c.n % Width) = {{}}
      /\ \A B \in SUBSET All : Up(B, 0) = B /\ Down(B, 0) = B
      /\ {k \in All : Max(All) \in Bits(c.x) /\ c.o + k > Max(All)} = {}
  BY WholeWord
<1>4. Up({}, 0) = {} /\ Up(All, 0) = All /\ Up(Y, 0) = Y /\ Down(X, 0) = X
  BY <1>2, <1>3
<1>5. WordOf(X) = c.x /\ WordOf(Y) = c.y /\ WordOf({}) = 0
  <2>1. 0 \in Words /\ Bits(0) = {}
    <3>1. \A k \in All : (0 \div 2 ^ k) % 2 = 0
      <4>1. \A d \in Nat \ {0} : (0 \div d) % 2 = 0
        OBVIOUS
      <4>2. \A k \in All : 2 ^ k \in Nat \ {0}
        BY WidthType, PowerType DEF All
      <4> QED BY <4>1, <4>2
    <3>2. 0 \in Words
      BY WidthType DEF Words
    <3> QED BY <3>1, <3>2 DEF Bits
  <2> QED BY <1>1, <2>1, WordBits
<1>6. EmuField(c) = IF c.form = "SAFE" /\ c.op \in {"SET", "CLR"} THEN {WordOf(InC(c, {}))}
                    ELSE {WordOf(InC(c, {})), WordOf(InC(c, All))}
  <2>1. EmuField(c) = {WordOf(InC(c, m)) :
                         m \in IF c.form = "SAFE" /\ c.op \in {"SET", "CLR"} THEN {{}} ELSE {{}, All}}
    BY <1>3, EmuFieldIs
  <2>2. {WordOf(InC(c, m)) : m \in {{}}} = {WordOf(InC(c, {}))}
    OBVIOUS
  <2>3. {WordOf(InC(c, m)) : m \in {{}, All}} = {WordOf(InC(c, {})), WordOf(InC(c, All))}
    OBVIOUS
  <2> QED BY <2>1, <2>2, <2>3
<1>7. PulpField(c) = IF c.form = "imm" /\ c.op \notin {"EXTRACT", "EXTRACTU"}
                     THEN {WordOf(Operate(c, {})), WordOf(Operate(c, All))}
                     ELSE {WordOf(Operate(c, All))}
  <2>1. c.form = "imm" => c.o .. c.o + c.n - 1 = All
    BY <1>3 DEF Field
  <2>2. CASE c.form = "imm" /\ c.op \notin {"EXTRACT", "EXTRACTU"}
    <3>1. PulpField(c) = {WordOf(Operate(c, Up(m, 0))) : m \in {{}, All}}
      BY <1>3, <2>2 DEF PulpField
    <3>2. {WordOf(Operate(c, Up(m, 0))) : m \in {{}, All}}
          = {WordOf(Operate(c, Up({}, 0))), WordOf(Operate(c, Up(All, 0)))}
      OBVIOUS
    <3> QED BY <1>4, <2>2, <3>1, <3>2
  <2>3. CASE ~(c.form = "imm" /\ c.op \notin {"EXTRACT", "EXTRACTU"})
    BY <1>1, <1>3, <2>1, <2>3 DEF PulpField
  <2> QED BY <2>2, <2>3
<1> HIDE DEF X, Y
<1>8. CASE c.op = "SET"
  <2>1. Operate(c, All) = All /\ Operate(c, {}) = X /\ InC(c, {}) = X /\ InC(c, All) = All
    BY <1>2, <1>3, <1>4, <1>8 DEF Operate, InC, X
  <2> QED BY <1>1, <1>5, <1>6, <1>7, <1>8, <2>1
<1>9. CASE c.op = "CLR"
  <2>1. Operate(c, All) = {} /\ Operate(c, {}) = X /\ InC(c, {}) = X /\ InC(c, All) = {}
    BY <1>2, <1>3, <1>4, <1>9 DEF Operate, InC, X
  <2> QED BY <1>1, <1>5, <1>6, <1>7, <1>9, <2>1
<1>10. CASE c.op = "INSERT"
  <2>1. Operate(c, All) = Y /\ Operate(c, {}) = X
    BY <1>2, <1>3, <1>4, <1>10 DEF Operate, X, Y
  <2>2. InC(c, {}) = X /\ InC(c, All) = Y
    <3>1. Y \cap {} = {} /\ Y \cap All = Y
      BY <1>2
    <3> QED BY <1>2, <1>3, <1>4, <1>10, <3>1 DEF InC, X, Y
  <2> QED BY <1>1, <1>5, <1>6, <1>7, <1>10, <2>1, <2>2
<1>11. CASE c.op \in {"EXTRACT", "EXTRACTU"}
  <2>1. X \cap All = X
    BY <1>2
  <2>2. Operate(c, All) = X
    <3> DEFINE sign == {k \in All : Max(All) \in Bits(c.x) /\ c.o + k > Max(All)}
    <3>1. CASE c.op = "EXTRACT"
      <4>1. Operate(c, All) = Down(X \cap All, c.o) \cup sign
        BY <3>1 DEF Operate, X
      <4>2. sign = {}
        BY <1>3
      <4> QED BY <1>3, <1>4, <2>1, <4>1, <4>2
    <3>2. CASE c.op = "EXTRACTU"
      <4>1. Operate(c, All) = Down(X \cap All, c.o)
        BY <3>2 DEF Operate, X
      <4> QED BY <1>3, <1>4, <2>1, <4>1
    <3> QED BY <1>11, <3>1, <3>2
  <2>3. InC(c, {}) = {} /\ InC(c, All) = X
    BY <1>3, <1>4, <1>11, <2>1 DEF InC, X
  <2> QED BY <1>1, <1>5, <1>6, <1>7, <1>11, <2>2, <2>3
<1> QED BY <1>1, <1>8, <1>9, <1>10, <1>11

-----------------------------------------------------------------------------
(***************************************************************************)
(* The invariant: what either build computed is what its header says of    *)
(* the call.                                                               *)
(***************************************************************************)
Computed ==
  \/ call = None /\ pulp = {} /\ emu = {}
  \/ call \in LaneCalls /\ pulp = {Lanewise(call, call.type)} /\ emu = {Lanewise(call, LaneType(call))}
  \/ /\ call \in DotCalls
     /\ pulp = {Dot(call, call.types)}
     /\ emu = {Dot(call, [k \in 1 .. 2 |-> CType(call.types[k], call.lanes)])}
  \/ /\ call \in MulCalls
     /\ pulp = IF PulpRefuses(call) THEN {} ELSE PulpMul(call)
     /\ emu = EmuMul(call)
  \/ call \in NormCalls /\ pulp = PulpNorm(call) /\ emu = EmuNorm(call)
  \/ call \in ClipCalls /\ pulp = PulpClip(call) /\ emu = EmuClip(call)
  \/ call \in FieldCalls /\ pulp = PulpField(call) /\ emu = EmuField(call)
  \/ call \in BitCalls /\ pulp = PulpBit(call) /\ emu = EmuBit(call)

\* A call tells its family.
LEMMA FamilyOf ==
  /\ None.fam = "none"
  /\ \A c \in LaneCalls : c.fam = "lane"
  /\ \A c \in DotCalls : c.fam = "dot"
  /\ \A c \in MulCalls : c.fam = "mul"
  /\ \A c \in NormCalls : c.fam = "norm"
  /\ \A c \in ClipCalls : c.fam = "clip"
  /\ \A c \in FieldCalls : c.fam = "field"
  /\ \A c \in BitCalls : c.fam = "bit"
BY DEF None, LaneCalls, DotCalls, MulCalls, NormCalls, ClipCalls, FieldCalls, BitCalls

\* It holds at first.
LEMMA ComputedInit == Init => Computed
BY DEF Init, Computed

\* Every call keeps it.
LEMMA ComputedNext ==
  ASSUME Computed, [Next]_vars
  PROVE  Computed'
<1>1. CASE CallLane
  BY <1>1 DEF CallLane, Call, Computed
<1>2. CASE CallDot
  <2>1. PICK c \in DotCalls : Call(c, {Dot(c, c.types)}, {Dot(c, [k \in 1 .. 2 |-> CType(c.types[k], c.lanes)])})
    BY <1>2 DEF CallDot
  <2>2. \A type, lanes : CType(type, lanes)' = CType(type, lanes)
    BY <2>1 DEF Call, CType
  <2>3. call' = c /\ pulp' = {Dot(c, c.types)}
        /\ emu' = {Dot(c, [k \in 1 .. 2 |-> CType(c.types[k], c.lanes)])}
    BY <2>1 DEF Call
  <2>4. [k \in 1 .. 2 |-> CType(c.types[k], c.lanes)] = [k \in 1 .. 2 |-> CType(call.types[k], call.lanes)]'
    BY <2>2, <2>3
  <2> QED BY <2>1, <2>3, <2>4 DEF Computed
<1>3. CASE CallMul
  BY <1>3 DEF CallMul, Call, Computed
<1>4. CASE CallNorm
  BY <1>4 DEF CallNorm, Call, Computed
<1>5. CASE CallClip
  BY <1>5 DEF CallClip, Call, Computed
<1>6. CASE CallField
  BY <1>6 DEF CallField, Call, Computed
<1>7. CASE CallBit
  BY <1>7 DEF CallBit, Call, Computed
<1>8. CASE UNCHANGED vars
  BY <1>8 DEF vars, Computed, Dot, CType
<1> QED BY <1>1, <1>2, <1>3, <1>4, <1>5, <1>6, <1>7, <1>8 DEF Next

-----------------------------------------------------------------------------
(***************************************************************************)
(* Theorems.                                                               *)
(***************************************************************************)
\* What either build has in the result register is what its header computes of
\* the call's operands, in every state.
THEOREM ResultsComputed == Spec => []Computed
<1>1. Computed /\ [Next]_vars => Computed'
  BY ComputedNext
<1> QED BY ComputedInit, <1>1, PTL DEF Spec

\* Vector macros: MAX, MIN and ABS always, sums of products if char is signed or no
\* byte is negative (builtins_v2_emu.h:41-81, 165-204).
THEOREM VectorsSame == Spec => []VectorsAgree
<1>1. Computed => VectorsAgree
  <2> SUFFICES ASSUME Computed PROVE VectorsAgree
    OBVIOUS
  <2>1. ASSUME call.fam = "lane" PROVE pulp = emu
    <3>1. call \in LaneCalls /\ pulp = {Lanewise(call, call.type)} /\ emu = {Lanewise(call, LaneType(call))}
      BY <2>1, FamilyOf DEF Computed
    <3> QED BY <3>1 DEF LaneType
  <2>2. ASSUME call.fam = "dot", charSigned \/ ~NegativeByte(call) PROVE pulp = emu
    <3>1. /\ call \in DotCalls /\ pulp = {Dot(call, call.types)}
          /\ emu = {Dot(call, [k \in 1 .. 2 |-> CType(call.types[k], call.lanes)])}
      BY <2>2, FamilyOf DEF Computed
    <3>2. Dot(call, call.types) = Dot(call, [k \in 1 .. 2 |-> CType(call.types[k], call.lanes)])
      BY <2>2, <3>1, SameDot
    <3> QED BY <3>1, <3>2
  <2> QED BY <2>1, <2>2 DEF VectorsAgree
<1> QED BY <1>1, ResultsComputed, PTL

\* Products, sums, clipped values, first bits and rotations: where the headers
\* differ and, for products, that they do (builtins_v2_emu.h:71-76, 134-163, 245-307).
THEOREM ScalarsSame == Spec => []ScalarsAgree
<1>1. Computed => ScalarsAgree
  <2> SUFFICES ASSUME Computed PROVE ScalarsAgree
    OBVIOUS
  <2>1. ASSUME call.fam = "mul"
        PROVE  pulp # emu <=>
                 \/ PulpRefuses(call)
                 \/ /\ call.type = "u" /\ ~call.acc /\ call.post # "" /\ call.n > 0
                    /\ ~FitsInt(Sum(call) + IF call.post = "RN" THEN 2 ^ (call.n - 1) ELSE 0)
    <3>1. /\ call \in MulCalls /\ emu = EmuMul(call)
          /\ pulp = IF PulpRefuses(call) THEN {} ELSE PulpMul(call)
      BY <2>1, FamilyOf DEF Computed
    <3> QED BY <3>1, SameMul
  <2>2. ASSUME call.fam = "clip" PROVE pulp = emu \/ (call.op = "CLIPU" /\ call.z # 0)
    <3>1. call \in ClipCalls /\ pulp = PulpClip(call) /\ emu = EmuClip(call)
      BY <2>2, FamilyOf DEF Computed
    <3> QED BY <3>1, SameClip
  <2>3. ASSUME call.fam = "norm" PROVE pulp = emu
    <3>1. pulp = PulpNorm(call) /\ emu = EmuNorm(call)
      BY <2>3, FamilyOf DEF Computed
    <3> QED BY <3>1, SameNorm
  <2>4. ASSUME call.fam = "bit" PROVE pulp = emu
    <3>1. call \in BitCalls /\ pulp = PulpBit(call) /\ emu = EmuBit(call)
      BY <2>4, FamilyOf DEF Computed
    <3>2. call.x \in Words \ {0}
      BY <3>1, BuiltinsAssumption DEF BitCalls
    <3>3. Max(Bits(call.x)) = Width - 1 - LeadingZeros(call.x)
      BY <3>2, SameFirstBit
    <3>4. (call.x \div 2) + (call.x % 2) * 2 ^ (Width - 1)
          = WordOf((Bits(Shift("s", call.x, 1)) \ {Width - 1}) \cup Up(Bits(call.x), Width - 1))
      BY <3>2, SameRotation
    <3> QED BY <3>1, <3>3, <3>4 DEF PulpBit, EmuBit
  <2> QED BY <2>1, <2>2, <2>3, <2>4 DEF ScalarsAgree
<1> QED BY <1>1, ResultsComputed, PTL

\* Bit fields differ in exactly two cases (builtins_v2_emu.h:251-274).
THEOREM FieldsSame == Spec => []FieldsAgree
<1>1. Computed => FieldsAgree
  <2> SUFFICES ASSUME Computed, call.fam = "field"
               PROVE  pulp # emu <=>
                        \/ call.op = "EXTRACT" /\ call.n < Width /\ call.o + call.n - 1 \in Bits(call.x)
                        \/ /\ call.n = Width
                           /\ call.form = "imm" => call.op \in {"EXTRACT", "EXTRACTU"}
                           /\ CASE call.op = "SET" -> call.x # WordOf(All)
                                [] call.op = "INSERT" -> call.x # call.y
                                [] OTHER -> call.x # 0
    BY DEF FieldsAgree
  <2>1. call \in FieldCalls /\ pulp = PulpField(call) /\ emu = EmuField(call)
    BY FamilyOf DEF Computed
  <2>2. Width \in Nat \ {0} /\ call.n \in Nat \ {0} /\ call.o \in Nat /\ call.o + call.n <= Width
    BY <2>1, FieldIs
  <2>3. CASE call.n < Width
    BY <2>1, <2>2, <2>3, PartOfWordSame
  <2>4. CASE call.n = Width
    BY <2>1, <2>2, <2>4, WholeWordSame
  <2> QED BY <2>2, <2>3, <2>4
<1> QED BY <1>1, ResultsComputed, PTL
=============================================================================
