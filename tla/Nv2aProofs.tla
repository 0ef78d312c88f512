----------------------------- MODULE Nv2aProofs -----------------------------
(***************************************************************************)
(* The graphics processor under a driver, a handler that preempts it, other *)
(* code of the guest and a frontend that presents frames: for every mode,  *)
(* every content of the memory before, and every two channels.             *)
(***************************************************************************)
EXTENDS Nv2aGuests, SequenceTheorems, WellFoundedInduction, TLAPS

-----------------------------------------------------------------------------
(* Words.                                                                  *)

\* A set that holds zero and with each number the next holds them all.
LEMMA NumberByNumber ==
  ASSUME NEW S, 0 \in S, \A n \in Nat : n \in S => n + 1 \in S
  PROVE  Nat \subseteq S
<1> DEFINE R == OpToRel(<, Nat)
           T == Nat \ S
<1>0. \A x, y \in Nat : x < y => <<x, y>> \in R
  BY DEF OpToRel
<1>1. IsWellFoundedOn(R, Nat)
  BY NatLessThanWellFounded
<1> HIDE DEF R
<1>2. ASSUME T # {} PROVE FALSE
  <2>1. PICK n \in T : \A m \in T : <<m, n>> \notin R
    BY <1>1, <1>2, WFMin
  <2>2. n # 0 /\ n \in Nat
    OBVIOUS
  <2>3. n - 1 \in Nat /\ n - 1 < n /\ (n - 1) + 1 = n
    BY <2>2
  <2>4. n - 1 \notin T
    BY <1>0, <2>1, <2>2, <2>3
  <2>5. n \in S
    BY <2>3, <2>4
  <2> QED BY <2>5
<1> QED BY <1>2

LEMMA WordsAreNumbers ==
  ASSUME NEW word \in Words
  PROVE  /\ word \in Nat
         /\ \A n \in 0 .. word : n \in Words
<1> DEFINE top == 2 ^ 27 - 1
<1>1. top \in Nat
  BY SMT
<1>2. Words = 0 .. top
  BY DEF Words
<1> HIDE DEF top
<1> QED BY <1>1, <1>2

LEMMA WordsModulo == \A word \in Words : word % 2 ^ 27 = word
<1> DEFINE top == 2 ^ 27 - 1
<1>1. top \in Nat /\ \A word \in Nat : word <= top => word % 2 ^ 27 = word
  BY SMT
<1>2. Words = 0 .. top
  BY DEF Words
<1> HIDE DEF top
<1> QED BY <1>1, <1>2

\* Each power of two is twice the one before.
LEMMA NextPower ==
  ASSUME NEW n \in 0 .. 26
  PROVE  2 ^ n \in Nat \ {0} /\ 2 ^ (n + 1) = 2 * 2 ^ n
<1>0. CASE n = 0
  BY <1>0
<1>1. CASE n = 1
  BY <1>1
<1>2. CASE n = 2
  BY <1>2
<1>3. CASE n = 3
  BY <1>3
<1>4. CASE n = 4
  BY <1>4
<1>5. CASE n = 5
  BY <1>5
<1>6. CASE n = 6
  BY <1>6
<1>7. CASE n = 7
  BY <1>7
<1>8. CASE n = 8
  BY <1>8
<1>9. CASE n = 9
  BY <1>9
<1>10. CASE n = 10
  BY <1>10
<1>11. CASE n = 11
  BY <1>11
<1>12. CASE n = 12
  BY <1>12
<1>13. CASE n = 13
  BY <1>13
<1>14. CASE n = 14
  BY <1>14
<1>15. CASE n = 15
  BY <1>15
<1>16. CASE n = 16
  BY <1>16
<1>17. CASE n = 17
  BY <1>17
<1>18. CASE n = 18
  BY <1>18
<1>19. CASE n = 19
  BY <1>19
<1>20. CASE n = 20
  BY <1>20
<1>21. CASE n = 21
  BY <1>21
<1>22. CASE n = 22
  BY <1>22
<1>23. CASE n = 23
  BY <1>23
<1>24. CASE n = 24
  BY <1>24
<1>25. CASE n = 25
  BY <1>25
<1>26. CASE n = 26
  BY <1>26
<1> QED BY <1>0, <1>1, <1>2, <1>3, <1>4, <1>5, <1>6, <1>7, <1>8, <1>9,
           <1>10, <1>11, <1>12, <1>13, <1>14, <1>15, <1>16, <1>17, <1>18, <1>19,
           <1>20, <1>21, <1>22, <1>23, <1>24, <1>25, <1>26

\* A word is the number its lowest bits make, and the next bit above them.
LEMMA NextBit ==
  ASSUME NEW a \in Nat, NEW n \in 0 .. MaskBits - 1
  PROVE  /\ a % (2 ^ (n + 1)) = (a % (2 ^ n)) + Bit(a, n) * 2 ^ n
         /\ Bit(a, n) \in {0, 1}
         /\ 2 ^ n \in Nat \ {0}
<1> USE DEF Bit, MaskBits
<1>0. CASE n = 0
  BY <1>0
<1>1. CASE n = 1
  BY <1>1
<1>2. CASE n = 2
  BY <1>2
<1>3. CASE n = 3
  BY <1>3
<1>4. CASE n = 4
  BY <1>4
<1>5. CASE n = 5
  BY <1>5
<1>6. CASE n = 6
  BY <1>6
<1>7. CASE n = 7
  BY <1>7
<1>8. CASE n = 8
  BY <1>8
<1>9. CASE n = 9
  BY <1>9
<1>10. CASE n = 10
  BY <1>10
<1>11. CASE n = 11
  BY <1>11
<1> QED BY <1>0, <1>1, <1>2, <1>3, <1>4, <1>5, <1>6, <1>7, <1>8, <1>9, <1>10, <1>11

\* f holds the bits a and b have in common, number by number of their first n.
CommonUpTo(f, n, a, b) ==
  /\ f \in [0 .. n -> Int]
  /\ f[0] = 0
  /\ \A i \in 1 .. n : f[i] = f[i - 1] + Bit(a, i - 1) * Bit(b, i - 1) * 2 ^ (i - 1)

LEMMA CommonExists ==
  ASSUME NEW a \in Nat, NEW b \in Nat
  PROVE  \E f : CommonUpTo(f, MaskBits, a, b)
<1> DEFINE T == {n \in Nat : n <= MaskBits => \E f : CommonUpTo(f, n, a, b)}
           Common(i) == Bit(a, i - 1) * Bit(b, i - 1) * 2 ^ (i - 1)
<1>1. 0 \in T
  <2>1. CommonUpTo([i \in 0 .. 0 |-> 0], 0, a, b)
    BY DEF CommonUpTo
  <2> QED BY <2>1
<1>2. ASSUME NEW n \in Nat, n \in T PROVE n + 1 \in T
  <2> SUFFICES ASSUME n + 1 <= MaskBits PROVE \E f : CommonUpTo(f, n + 1, a, b)
    OBVIOUS
  <2>1. PICK f : CommonUpTo(f, n, a, b)
    BY <1>2 DEF MaskBits
  <2>2. Common(n + 1) \in Int
    <3>1. n \in 0 .. MaskBits - 1 /\ (n + 1) - 1 = n
      BY DEF MaskBits
    <3>2. Bit(a, n) \in {0, 1} /\ Bit(b, n) \in {0, 1} /\ 2 ^ n \in Nat
      BY <3>1, NextBit
    <3> QED BY <3>1, <3>2
  <2> DEFINE g == [i \in 0 .. n + 1 |-> IF i = n + 1 THEN f[n] + Common(n + 1) ELSE f[i]]
  <2>3. f \in [0 .. n -> Int] /\ f[0] = 0 /\ \A i \in 1 .. n : f[i] = f[i - 1] + Common(i)
    BY <2>1 DEF CommonUpTo
  <2> HIDE DEF Common
  <2>4. g \in [0 .. n + 1 -> Int]
    <3>1. ASSUME NEW i \in 0 .. n + 1
          PROVE  (IF i = n + 1 THEN f[n] + Common(n + 1) ELSE f[i]) \in Int
      BY <2>2, <2>3
    <3> QED BY <3>1
  <2>5. g[0] = 0
    BY <2>3
  <2>6. ASSUME NEW i \in 1 .. n + 1 PROVE g[i] = g[i - 1] + Common(i)
    <3>1. i - 1 \in 0 .. n /\ g[i - 1] = f[i - 1]
      OBVIOUS
    <3>2. CASE i = n + 1
      BY <3>1, <3>2
    <3>3. CASE i # n + 1
      <4>1. i \in 1 .. n /\ g[i] = f[i]
        BY <3>3
      <4> HIDE DEF g
      <4> QED BY <2>3, <3>1, <4>1
    <3> QED BY <3>2, <3>3
  <2> HIDE DEF g
  <2>7. CommonUpTo(g, n + 1, a, b)
    BY <2>4, <2>5, <2>6 DEF CommonUpTo, Common
  <2> QED BY <2>7
<1>3. Nat \subseteq T
  <2> HIDE DEF T
  <2> QED BY <1>1, <1>2, NumberByNumber
<1> QED BY <1>3 DEF MaskBits

\* The bits two words have in common make no more than the first.
LEMMA AndIsPart ==
  ASSUME NEW a \in Nat, NEW b \in Nat
  PROVE  And(a, b) \in Nat /\ And(a, b) <= a
<1> DEFINE Common(i) == Bit(a, i - 1) * Bit(b, i - 1) * 2 ^ (i - 1)
           Low == CHOOSE low : low = [n \in 0 .. MaskBits |->
                    IF n = 0 THEN 0
                    ELSE low[n - 1] + Bit(a, n - 1) * Bit(b, n - 1) * 2 ^ (n - 1)]
<1>1. PICK f : CommonUpTo(f, MaskBits, a, b)
  BY CommonExists
<1>2. f = [n \in 0 .. MaskBits |-> IF n = 0 THEN 0 ELSE f[n - 1] + Common(n)]
  <2>1. f \in [0 .. MaskBits -> Int]
    BY <1>1 DEF CommonUpTo
  <2>2. \A n \in 0 .. MaskBits : f[n] = IF n = 0 THEN 0 ELSE f[n - 1] + Common(n)
    <3>1. f[0] = 0 /\ \A n \in 1 .. MaskBits : f[n] = f[n - 1] + Common(n)
      BY <1>1 DEF CommonUpTo
    <3> HIDE DEF Common
    <3> QED BY <3>1 DEF MaskBits
  <2> HIDE DEF Common
  <2> QED BY <2>1, <2>2
<1>3. Low = [n \in 0 .. MaskBits |-> IF n = 0 THEN 0 ELSE Low[n - 1] + Common(n)]
  BY <1>2
<1>4. And(a, b) = Low[MaskBits]
  BY DEF And
<1> HIDE DEF Low
<1>5. Low[0] = 0 /\ \A n \in 1 .. MaskBits : Low[n] = Low[n - 1] + Common(n)
  <2> HIDE DEF Common
  <2> QED BY <1>3 DEF MaskBits
<1> DEFINE T == {n \in Nat : n <= MaskBits => Low[n] \in 0 .. a % (2 ^ n)}
<1>6. 0 \in T
  BY <1>5
<1>7. ASSUME NEW n \in Nat, n \in T PROVE n + 1 \in T
  <2> SUFFICES ASSUME n + 1 <= MaskBits PROVE Low[n + 1] \in 0 .. a % (2 ^ (n + 1))
    OBVIOUS
  <2>1. n \in 0 .. MaskBits - 1 /\ n + 1 \in 1 .. MaskBits /\ (n + 1) - 1 = n
    BY DEF MaskBits
  <2>2. /\ a % (2 ^ (n + 1)) = (a % (2 ^ n)) + Bit(a, n) * 2 ^ n
        /\ Bit(a, n) \in {0, 1} /\ Bit(b, n) \in {0, 1}
        /\ 2 ^ n \in Nat \ {0}
    BY <2>1, NextBit
  <2>3. Low[n + 1] = Low[n] + Bit(a, n) * Bit(b, n) * 2 ^ n
    BY <1>5, <2>1
  <2>4. Low[n] \in 0 .. a % (2 ^ n)
    BY <1>7, <2>1 DEF MaskBits
  <2>5. Bit(a, n) * Bit(b, n) * 2 ^ n \in 0 .. Bit(a, n) * 2 ^ n
    BY <2>2
  <2>6. a % (2 ^ n) \in Nat
    BY <2>2
  <2>7. Bit(a, n) * 2 ^ n \in Nat
    BY <2>2
  <2> QED BY <2>2, <2>3, <2>4, <2>5, <2>6, <2>7
<1>8. Nat \subseteq T
  <2> HIDE DEF T
  <2> QED BY <1>6, <1>7, NumberByNumber
<1>9. Low[12] \in 0 .. a % 4096
  <2>1. MaskBits = 12 /\ 2 ^ 12 = 4096
    BY DEF MaskBits
  <2>2. MaskBits \in T
    <3> HIDE DEF T
    <3> QED BY <1>8, <2>1
  <2> QED BY <2>1, <2>2
<1> QED BY <1>4, <1>9 DEF MaskBits

LEMMA OrIsSum ==
  ASSUME NEW a \in Nat, NEW b \in Nat
  PROVE  Or(a, b) \in Nat /\ Or(a, b) <= a + b
<1>1. And(a, b) \in Nat /\ And(a, b) <= a
  BY AndIsPart
<1> QED BY <1>1 DEF Or

\* A larger power of two is a multiple of twice a smaller one.
LEMMA PowerDivides ==
  ASSUME NEW m \in 0 .. 26, NEW n \in m + 1 .. 26
  PROVE  \E k \in Nat \ {0} : 2 ^ n = 2 ^ m * (2 * k)
<1> DEFINE T == {i \in Nat : m + 1 + i <= 26 =>
                    \E k \in Nat \ {0} : 2 ^ (m + 1 + i) = 2 ^ m * (2 * k)}
<1>1. 0 \in T
  <2> SUFFICES ASSUME m + 1 <= 26 PROVE \E k \in Nat \ {0} : 2 ^ (m + 1) = 2 ^ m * (2 * k)
    OBVIOUS
  <2>1. 2 ^ m \in Nat \ {0} /\ 2 ^ (m + 1) = 2 * 2 ^ m
    BY NextPower
  <2>2. 2 ^ m * (2 * 1) = 2 * 2 ^ m
    BY <2>1
  <2> QED BY <2>1, <2>2
<1>2. ASSUME NEW i \in Nat, i \in T PROVE i + 1 \in T
  <2> DEFINE j == m + 1 + i
  <2> SUFFICES ASSUME j + 1 <= 26 PROVE \E k \in Nat \ {0} : 2 ^ (j + 1) = 2 ^ m * (2 * k)
    <3>1. m + 1 + (i + 1) = j + 1
      OBVIOUS
    <3> HIDE DEF j
    <3> QED BY <3>1
  <2>1. PICK k \in Nat \ {0} : 2 ^ j = 2 ^ m * (2 * k)
    BY <1>2
  <2>2. j \in 0 .. 26
    OBVIOUS
  <2> HIDE DEF j
  <2>3. 2 ^ (j + 1) = 2 * 2 ^ j /\ 2 ^ m \in Nat \ {0}
    BY <2>2, NextPower
  <2>4. 2 * (2 ^ m * (2 * k)) = 2 ^ m * (2 * (2 * k)) /\ 2 * k \in Nat \ {0}
    BY <2>3
  <2> QED BY <2>1, <2>3, <2>4
<1>3. Nat \subseteq T
  <2> HIDE DEF T
  <2> QED BY <1>1, <1>2, NumberByNumber
<1>4. n - (m + 1) \in Nat /\ m + 1 + (n - (m + 1)) = n
  OBVIOUS
<1>5. n - (m + 1) \in T
  BY <1>3, <1>4
<1> QED BY <1>4, <1>5

\* A word of p times q, shifted back by p.
LEMMA Shifted ==
  ASSUME NEW p \in Nat \ {0}, NEW q \in Nat
  PROVE  (p * q) \div p = q
<1> DEFINE k == (p * q) \div p
           r == (p * q) % p
<1>1. p * q = p * k + r /\ r \in 0 .. p - 1 /\ k \in Nat
  OBVIOUS
<1> HIDE DEF k, r
<1>2. p * (q - k) = r
  BY <1>1
<1>3. ASSUME q > k PROVE FALSE
  <2>1. q - k - 1 \in Nat /\ p * (q - k) = p * (q - k - 1) + p
    BY <1>1, <1>3
  <2>2. p * (q - k - 1) >= 0
    BY <2>1
  <2> QED BY <1>1, <1>2, <2>1, <2>2
<1>4. ASSUME q < k PROVE FALSE
  <2>1. k - q - 1 \in Nat /\ p * (q - k) = 0 - (p * (k - q - 1) + p)
    BY <1>1, <1>4
  <2>2. p * (k - q - 1) >= 0
    BY <2>1
  <2> QED BY <1>1, <1>2, <2>1, <2>2
<1>5. q = k
  BY <1>1, <1>3, <1>4
<1> QED BY <1>5 DEF k

\* In the mode word of one channel no other channel's bit is set.
LEMMA OneModeBit ==
  ASSUME NEW n \in 0 .. 26, NEW m \in 0 .. 26
  PROVE  Bit(2 ^ n, m) = IF n = m THEN 1 ELSE 0
<1>1. 2 ^ n \in Nat \ {0} /\ 2 ^ m \in Nat \ {0}
  BY NextPower
<1>2. CASE n = m
  <2>1. (2 ^ m * 1) \div (2 ^ m) = 1
    BY <1>1, Shifted
  <2> QED BY <1>1, <1>2, <2>1 DEF Bit
<1>3. CASE n > m
  <2>1. PICK k \in Nat \ {0} : 2 ^ n = 2 ^ m * (2 * k)
    <3>1. n \in m + 1 .. 26
      BY <1>3
    <3> QED BY <3>1, PowerDivides
  <2>2. (2 ^ m * (2 * k)) \div (2 ^ m) = 2 * k
    BY <1>1, Shifted
  <2>3. (2 * k) % 2 = 0
    OBVIOUS
  <2>4. n # m
    BY <1>3
  <2> QED BY <2>1, <2>2, <2>3, <2>4 DEF Bit
<1>4. CASE n < m
  <2>1. PICK k \in Nat \ {0} : 2 ^ m = 2 ^ n * (2 * k)
    <3>1. m \in n + 1 .. 26
      BY <1>4
    <3> QED BY <3>1, PowerDivides
  <2>2. 2 ^ n * (2 * k) > 2 ^ n
    BY <1>1
  <2>3. (2 ^ n) \div (2 ^ m) = 0 /\ 0 % 2 = 0
    BY <1>1, <2>1, <2>2
  <2>4. n # m
    BY <1>4
  <2> QED BY <2>3, <2>4 DEF Bit
<1> QED BY <1>2, <1>3, <1>4

\* A nonempty set of numbers up to n has a largest.
LEMMA LargestOf ==
  ASSUME NEW n \in Nat, NEW S, S \subseteq 1 .. n, S # {}
  PROVE  Max(S) \in S /\ \A j \in S : j <= Max(S)
<1> DEFINE T == {k \in Nat : (\E j \in S : j >= n - k) => \E i \in S : \A j \in S : j <= i}
<1>1. 0 \in T
  OBVIOUS
<1>2. ASSUME NEW k \in Nat, k \in T PROVE k + 1 \in T
  <2>1. ASSUME NEW j \in S, j >= n - (k + 1)
        PROVE  \E i \in S : \A m \in S : m <= i
    <3>1. CASE \E m \in S : m >= n - k
      BY <1>2, <3>1
    <3>2. CASE ~ \E m \in S : m >= n - k
      <4>1. \A m \in S : m <= j
        BY <2>1, <3>2
      <4> QED BY <4>1
    <3> QED BY <3>1, <3>2
  <2> QED BY <2>1
<1>3. Nat \subseteq T
  <2> HIDE DEF T
  <2> QED BY <1>1, <1>2, NumberByNumber
<1>4. n \in T /\ \A j \in S : j >= n - n
  BY <1>3
<1>5. PICK i \in S : \A j \in S : j <= i
  BY <1>4
<1>6. \E x \in S : \A y \in S : x >= y
  BY <1>5
<1>7. Max(S) \in S /\ \A y \in S : Max(S) >= y
  <2> DEFINE m == CHOOSE x \in S : \A y \in S : x >= y
  <2>1. m \in S /\ \A y \in S : m >= y
    BY <1>6
  <2> QED BY <2>1 DEF Max
<1> QED BY <1>7

-----------------------------------------------------------------------------
(* Where an access ends.                                                   *)

\* The regions of the units do not overlap, so that the order they are searched
\* in does not matter.
LEMMA RegionsAreDisjoint ==
  ASSUME NEW addr \in Nat, NEW i \in 1 .. 20,
         addr >= m_MemoryRegions[i][1][1],
         addr < m_MemoryRegions[i][1][1] + m_MemoryRegions[i][1][2]
  PROVE  /\ GetMemoryRegion(addr).unit = m_MemoryRegions[i][2]
         /\ GetMemoryRegion(addr).addr = addr - m_MemoryRegions[i][1][1]
<1> DEFINE inside(j) == /\ addr >= m_MemoryRegions[j][1][1]
                        /\ addr < m_MemoryRegions[j][1][1] + m_MemoryRegions[j][1][2]
           found == {j \in DOMAIN m_MemoryRegions : inside(j)}
<1>1. DOMAIN m_MemoryRegions = 1 .. 20
  BY DEF m_MemoryRegions
<1>2. ASSUME NEW j \in 1 .. 20, inside(j) PROVE i = j
  BY <1>2 DEF m_MemoryRegions, NV_REGION, PfifoRegion, PcrtcRegion, PrmcioRegion, UserRegion
<1>3. found = {i}
  <2>1. inside(i)
    OBVIOUS
  <2> HIDE DEF inside
  <2> QED BY <1>1, <1>2, <2>1
<1>4. Min({i}) = i
  BY DEF Min
<1>5. GetMemoryRegion(addr) =
        IF found = {} THEN [unit |-> Nowhere, addr |-> addr]
        ELSE [unit |-> m_MemoryRegions[Min(found)][2],
              addr |-> addr - m_MemoryRegions[Min(found)][1][1]]
  BY SMT DEF GetMemoryRegion
<1> HIDE DEF found
<1> QED BY <1>3, <1>4, <1>5

LEMMA UnitsDiffer ==
  /\ Pfifo # User /\ Pfifo # Pcrtc /\ Pfifo # Prmcio /\ Pfifo # Pramin
  /\ User # Pcrtc /\ User # Prmcio /\ User # Pramin
  /\ Pcrtc # Prmcio /\ Pcrtc # Pramin /\ Prmcio # Pramin
  /\ \A unit \in {Pfifo, User, Pcrtc, Prmcio, Pramin} : unit.registers
BY DEF Pfifo, User, Pcrtc, Prmcio, Pramin, Implemented

\* The registers of the units the guests use are theirs.
LEMMA PfifoLands ==
  ASSUME NEW reg \in Nat, reg < \h2000
  PROVE  /\ GetMemoryRegion(PfifoRegion[1] + reg).unit = Pfifo
         /\ GetMemoryRegion(PfifoRegion[1] + reg).addr = reg
<1> DEFINE addr == PfifoRegion[1] + reg
<1>1. /\ m_MemoryRegions[3][1][1] = \h002000 /\ m_MemoryRegions[3][1][2] = \h2000
      /\ m_MemoryRegions[3][2] = Pfifo /\ PfifoRegion[1] = \h002000
  BY SMT DEF m_MemoryRegions, PfifoRegion
<1>2. addr \in Nat /\ addr >= \h002000 /\ addr < \h002000 + \h2000 /\ addr - \h002000 = reg
  BY <1>1, SMT
<1>3. 3 \in 1 .. 20
  OBVIOUS
<1> HIDE DEF addr
<1>4. /\ GetMemoryRegion(addr).unit = m_MemoryRegions[3][2]
      /\ GetMemoryRegion(addr).addr = addr - m_MemoryRegions[3][1][1]
  BY <1>1, <1>2, <1>3, RegionsAreDisjoint, SMT
<1> QED BY <1>1, <1>2, <1>4, SMT DEF addr

LEMMA PcrtcLands ==
  ASSUME NEW reg \in Nat, reg < \h1000
  PROVE  /\ GetMemoryRegion(PcrtcRegion[1] + reg).unit = Pcrtc
         /\ GetMemoryRegion(PcrtcRegion[1] + reg).addr = reg
<1> DEFINE addr == PcrtcRegion[1] + reg
<1>1. /\ m_MemoryRegions[15][1][1] = \h600000 /\ m_MemoryRegions[15][1][2] = \h1000
      /\ m_MemoryRegions[15][2] = Pcrtc /\ PcrtcRegion[1] = \h600000
  BY SMT DEF m_MemoryRegions, PcrtcRegion
<1>2. addr \in Nat /\ addr >= \h600000 /\ addr < \h600000 + \h1000 /\ addr - \h600000 = reg
  BY <1>1, SMT
<1>3. 15 \in 1 .. 20
  OBVIOUS
<1> HIDE DEF addr
<1>4. /\ GetMemoryRegion(addr).unit = m_MemoryRegions[15][2]
      /\ GetMemoryRegion(addr).addr = addr - m_MemoryRegions[15][1][1]
  BY <1>1, <1>2, <1>3, RegionsAreDisjoint, SMT
<1> QED BY <1>1, <1>2, <1>4, SMT DEF addr

LEMMA PrmcioLands ==
  ASSUME NEW reg \in Nat, reg < \h1000
  PROVE  /\ GetMemoryRegion(PrmcioRegion[1] + reg).unit = Prmcio
         /\ GetMemoryRegion(PrmcioRegion[1] + reg).addr = reg
<1> DEFINE addr == PrmcioRegion[1] + reg
<1>1. /\ m_MemoryRegions[16][1][1] = \h601000 /\ m_MemoryRegions[16][1][2] = \h1000
      /\ m_MemoryRegions[16][2] = Prmcio /\ PrmcioRegion[1] = \h601000
  BY SMT DEF m_MemoryRegions, PrmcioRegion
<1>2. addr \in Nat /\ addr >= \h601000 /\ addr < \h601000 + \h1000 /\ addr - \h601000 = reg
  BY <1>1, SMT
<1>3. 16 \in 1 .. 20
  OBVIOUS
<1> HIDE DEF addr
<1>4. /\ GetMemoryRegion(addr).unit = m_MemoryRegions[16][2]
      /\ GetMemoryRegion(addr).addr = addr - m_MemoryRegions[16][1][1]
  BY <1>1, <1>2, <1>3, RegionsAreDisjoint, SMT
<1> QED BY <1>1, <1>2, <1>4, SMT DEF addr

LEMMA UserLands ==
  ASSUME NEW reg \in Nat, reg < \h800000
  PROVE  /\ GetMemoryRegion(UserRegion[1] + reg).unit = User
         /\ GetMemoryRegion(UserRegion[1] + reg).addr = reg
<1> DEFINE addr == UserRegion[1] + reg
<1>1. /\ m_MemoryRegions[20][1][1] = \h800000 /\ m_MemoryRegions[20][1][2] = \h800000
      /\ m_MemoryRegions[20][2] = User /\ UserRegion[1] = \h800000
  BY SMT DEF m_MemoryRegions, UserRegion
<1>2. addr \in Nat /\ addr >= \h800000 /\ addr < \h800000 + \h800000 /\ addr - \h800000 = reg
  BY <1>1, SMT
<1>3. 20 \in 1 .. 20
  OBVIOUS
<1> HIDE DEF addr
<1>4. /\ GetMemoryRegion(addr).unit = m_MemoryRegions[20][2]
      /\ GetMemoryRegion(addr).addr = addr - m_MemoryRegions[20][1][1]
  BY <1>1, <1>2, <1>3, RegionsAreDisjoint, SMT
<1> QED BY <1>1, <1>2, <1>4, SMT DEF addr

-----------------------------------------------------------------------------
(* What a write changes.                                                   *)

\* A port of PRMCIO and its alias in BAR 0 lead to the same register.
LEMMA VgaWritten ==
  ASSUME NEW port \in {NV_PRMCIO.CRX__COLOR, NV_PRMCIO.CR__COLOR},
         NEW place \in Aliases(Place("port", port)), NEW value, Write(place, value)
  PROVE  PrmcioWrite(port, value)
<1>1. port \in \h3d4 .. \h3d5
  BY SMT DEF NV_PRMCIO
<1>2. PortOwner(port) = "prmcio"
  BY <1>1, SMT DEF PortOwner, PORT_PIC, PORT_PIT
<1>3. CASE place = Place("port", port)
  <2>1. place.space = "port" /\ place.addr = port
    BY <1>3 DEF Place
  <2>2. IOWrite(port, value)
    BY <2>1 DEF Write
  <2> QED BY <1>2, <2>2 DEF IOWrite
<1>4. CASE place = Place("registers", PrmcioRegion[1] + port)
  <2>1. place.space = "registers" /\ place.addr = PrmcioRegion[1] + port
    BY <1>4 DEF Place
  <2>2. MMIOWrite(0, PrmcioRegion[1] + port, value)
    BY <2>1 DEF Write
  <2>3. /\ GetMemoryRegion(PrmcioRegion[1] + port).unit = Prmcio
        /\ GetMemoryRegion(PrmcioRegion[1] + port).addr = port
    <3>1. port \in Nat /\ port < \h1000
      BY <1>1, SMT
    <3> QED BY <3>1, PrmcioLands, SMT
  <2> QED BY <2>2, <2>3, UnitsDiffer DEF MMIOWrite
<1> QED BY <1>3, <1>4 DEF Aliases, Place

LEMMA IndexWritten ==
  ASSUME NEW place \in Aliases(Index), NEW value, Write(place, value)
  PROVE  index' = value % 65536 /\ UNCHANGED <<pfifo, user, crtc, cio, pramin, ram>>
<1>1. PrmcioWrite(NV_PRMCIO.CRX__COLOR, value)
  BY VgaWritten DEF Index
<1>2. NV_PRMCIO.CRX__COLOR # NV_PRMCIO.CR__COLOR
  BY SMT DEF NV_PRMCIO
<1> QED BY <1>1, <1>2, SMT DEF PrmcioWrite

LEMMA DataWritten ==
  ASSUME NEW place \in Aliases(Data), NEW value, Write(place, value)
  PROVE  cio' = [cio EXCEPT ![index] = value] /\ UNCHANGED <<pfifo, user, crtc, index, pramin, ram>>
<1>1. PrmcioWrite(NV_PRMCIO.CR__COLOR, value)
  BY VgaWritten DEF Data
<1>2. NV_PRMCIO.CRX__COLOR # NV_PRMCIO.CR__COLOR
  BY SMT DEF NV_PRMCIO
<1> QED BY <1>1, <1>2, SMT DEF PrmcioWrite

LEMMA PfifoRegisterWritten ==
  ASSUME NEW reg \in PfifoRegisters, NEW value, Write(PfifoPlace(reg), value)
  PROVE  /\ pfifo' = PfifoWritten(pfifo, reg, value)
         /\ UNCHANGED <<user, crtc, cio, index, pramin, ram>>
<1>1. reg \in Nat /\ reg < \h2000
  BY SMT DEF PfifoRegisters, NV_PFIFO_INTR_0, NV_PFIFO_MODE, NV_PFIFO_CACHE1_PUSH1,
             NV_PFIFO_CACHE1_DMA_PUT, NV_PFIFO_CACHE1_DMA_GET, NV_PFIFO_CACHE1_REF
<1>2. MMIOWrite(0, PfifoRegion[1] + reg, value)
  BY DEF Write, PfifoPlace, Place
<1>3. /\ GetMemoryRegion(PfifoRegion[1] + reg).unit = Pfifo
      /\ GetMemoryRegion(PfifoRegion[1] + reg).addr = reg
  BY <1>1, PfifoLands
<1> QED BY <1>2, <1>3, UnitsDiffer DEF MMIOWrite

LEMMA PfifoSelected ==
  ASSUME NEW reg \in {NV_PFIFO_MODE, NV_PFIFO_CACHE1_PUSH1}, NEW value,
         Write(PfifoPlace(reg), value)
  PROVE  /\ pfifo' = [pfifo EXCEPT ![reg] = value]
         /\ UNCHANGED <<user, crtc, cio, index, pramin, ram>>
<1>1. reg \in PfifoRegisters
  BY DEF PfifoRegisters
<1>2. reg # NV_PFIFO_INTR_0
  BY SMT DEF NV_PFIFO_INTR_0, NV_PFIFO_MODE, NV_PFIFO_CACHE1_PUSH1
<1> QED BY <1>1, <1>2, PfifoRegisterWritten DEF PfifoWritten

LEMMA AreaIsChannel ==
  ASSUME NEW channel \in 0 .. 26, NEW reg \in Nat, reg < \h10000
  PROVE  /\ Channel(channel * \h10000 + reg) = channel
         /\ (channel * \h10000 + reg) % \h10000 = reg
         /\ channel * \h10000 + reg \in Nat
         /\ channel * \h10000 + reg < \h800000
<1>1. channel \in Nat /\ channel <= 26
  OBVIOUS
<1>2. (channel * \h10000 + reg) \div \h10000 = channel
  BY <1>1, SMT
<1>3. (channel * \h10000 + reg) % \h10000 = reg
  BY <1>1, SMT
<1>4. channel % \h100 = channel
  BY <1>1, SMT
<1>5. channel * \h10000 + reg \in Nat /\ channel * \h10000 + reg < \h800000
  BY <1>1, SMT
<1> QED BY <1>2, <1>3, <1>4, <1>5, SMT DEF Channel

LEMMA UserAreaWritten ==
  ASSUME NEW channel \in 0 .. 26, NEW reg \in Nat, reg < \h10000, NEW value,
         Write(UserPlace(channel, reg), value)
  PROVE  UserWrite(channel * \h10000 + reg, value)
<1> DEFINE addr == channel * \h10000 + reg
<1>1. addr \in Nat /\ addr < \h800000
  BY AreaIsChannel
<1>2. UserRegion[1] + channel * \h10000 + reg = UserRegion[1] + addr
  BY SMT DEF UserRegion
<1> HIDE DEF addr
<1>3. MMIOWrite(0, UserRegion[1] + addr, value)
  BY <1>2 DEF Write, UserPlace, Place
<1>4. /\ GetMemoryRegion(UserRegion[1] + addr).unit = User
      /\ GetMemoryRegion(UserRegion[1] + addr).addr = addr
  BY <1>1, UserLands
<1>5. UserWrite(addr, value)
  BY <1>3, <1>4, UnitsDiffer DEF MMIOWrite
<1> QED BY <1>5 DEF addr

LEMMA StartWritten ==
  ASSUME NEW value, Write(Place("registers", PcrtcRegion[1] + NV_PCRTC_START), value)
  PROVE  /\ crtc' = [crtc EXCEPT ![NV_PCRTC_START] = value]
         /\ UNCHANGED <<pfifo, user, cio, index, pramin, ram>>
<1>1. MMIOWrite(0, PcrtcRegion[1] + NV_PCRTC_START, value)
  BY DEF Write, Place
<1>2. NV_PCRTC_START \in Nat /\ NV_PCRTC_START < \h1000
  BY SMT DEF NV_PCRTC_START
<1>3. /\ GetMemoryRegion(PcrtcRegion[1] + NV_PCRTC_START).unit = Pcrtc
      /\ GetMemoryRegion(PcrtcRegion[1] + NV_PCRTC_START).addr = NV_PCRTC_START
  BY <1>2, PcrtcLands
<1> QED BY <1>1, <1>3, UnitsDiffer DEF MMIOWrite

LEMMA RamWritten ==
  ASSUME NEW addr, NEW value, Write(Place("ram", addr), value)
  PROVE  /\ ram' = [ram EXCEPT ![addr] = value]
         /\ UNCHANGED <<pfifo, user, crtc, cio, index, pramin>>
<1>1. MMIOWrite(1, addr, value)
  BY DEF Write, Place
<1> QED BY <1>1 DEF MMIOWrite

\* Other code leaves the display and the channel's registers as they are; the
\* pointers too, while the driver's channel is current.
LEMMA UnrelatedWritten ==
  ASSUME GpuTypeOK, NEW place, Unrelated(place), NEW value, Write(place, value)
  PROVE  /\ UNCHANGED <<crtc, cio, index>>
         /\ \A a \in Garbage \cup {Start} : ram'[a] = ram[a]
         /\ pfifo'[NV_PFIFO_MODE] = pfifo[NV_PFIFO_MODE]
         /\ pfifo'[NV_PFIFO_CACHE1_PUSH1] = pfifo[NV_PFIFO_CACHE1_PUSH1]
         /\ GetCurrentChannelId = Own =>
              /\ pfifo'[NV_PFIFO_CACHE1_DMA_PUT] = pfifo[NV_PFIFO_CACHE1_DMA_PUT]
              /\ pfifo'[NV_PFIFO_CACHE1_DMA_GET] = pfifo[NV_PFIFO_CACHE1_DMA_GET]
<1> DEFINE at == GetMemoryRegion(place.addr)
<1>1. CASE UNCHANGED gpuVars
  BY <1>1 DEF gpuVars
<1>2. CASE place.space \in {"bar2", "apu", "ac97", "ata", "host"}
  BY <1>1, <1>2 DEF Write, MMIOWrite, ApuWrite, Ac97Write, AtaWrite, HostBridgeWrite
<1>3. CASE place.space = "port" /\ PortOwner(place.addr) \in {"i8254", "pci"}
  BY <1>1, <1>3 DEF Write, IOWrite, I8254Write
<1>4. CASE place.space = "ram" /\ place.addr \notin Garbage \cup {Start}
  <2>1. MMIOWrite(1, place.addr, value)
    BY <1>4 DEF Write
  <2>2. /\ ram' = [ram EXCEPT ![place.addr] = value]
        /\ UNCHANGED <<pfifo, user, crtc, cio, index, pramin>>
    BY <2>1 DEF MMIOWrite
  <2> QED BY <1>4, <2>2 DEF GpuTypeOK
<1>5. CASE place.space = "registers"
  <2> HIDE DEF at
  <2>1. MMIOWrite(0, place.addr, value)
    BY <1>5 DEF Write
  <2>2. CASE ~ at.unit.registers
    BY <1>1, <2>1, <2>2, UnitsDiffer DEF MMIOWrite, at
  <2>3. CASE at.unit = Pramin
    BY <2>1, <2>3, UnitsDiffer DEF MMIOWrite, at
  <2>4. CASE at.unit = Pfifo /\ at.addr = NV_PFIFO_INTR_0
    <3>1. /\ pfifo' = PfifoWritten(pfifo, NV_PFIFO_INTR_0, value)
          /\ UNCHANGED <<crtc, cio, index, ram>>
      BY <2>1, <2>4, UnitsDiffer DEF MMIOWrite, at
    <3>2. NV_PFIFO_INTR_0 \notin {NV_PFIFO_MODE, NV_PFIFO_CACHE1_PUSH1,
                                   NV_PFIFO_CACHE1_DMA_PUT, NV_PFIFO_CACHE1_DMA_GET}
      BY SMT DEF NV_PFIFO_INTR_0, NV_PFIFO_MODE, NV_PFIFO_CACHE1_PUSH1,
                 NV_PFIFO_CACHE1_DMA_PUT, NV_PFIFO_CACHE1_DMA_GET
    <3> QED BY <3>1, <3>2 DEF PfifoWritten, GpuTypeOK
  <2>5. CASE at.unit = User /\ Channel(at.addr) \notin {Own, Other}
    <3>1. UserWrite(at.addr, value)
      BY <2>1, <2>5, UnitsDiffer DEF MMIOWrite, at
    <3>2. \A r \in {NV_PFIFO_MODE, NV_PFIFO_CACHE1_PUSH1} :
            r \notin Forwarded(at.addr % \h10000)
      BY SMT DEF Forwarded, NV_PFIFO_MODE, NV_PFIFO_CACHE1_PUSH1, NV_PFIFO_CACHE1_REF,
                 NV_PFIFO_CACHE1_DMA_PUT, NV_PFIFO_CACHE1_DMA_GET
    <3>3. UNCHANGED <<crtc, cio, index, ram>>
      BY <3>1 DEF UserWrite
    <3>4. CASE ~ Active(at.addr)
      <4>1. UNCHANGED pfifo
        BY <3>1, <3>4 DEF UserWrite
      <4> QED BY <3>3, <4>1
    <3>5. CASE Active(at.addr)
      <4>1. pfifo' = [r \in PfifoRegisters |->
                        IF r \in Forwarded(at.addr % \h10000) THEN value ELSE pfifo[r]]
        BY <3>1, <3>5 DEF UserWrite
      <4>2. ASSUME NEW r \in {NV_PFIFO_MODE, NV_PFIFO_CACHE1_PUSH1} PROVE pfifo'[r] = pfifo[r]
        <5>1. r \in PfifoRegisters
          BY DEF PfifoRegisters
        <5> QED BY <3>2, <4>1, <5>1
      <4>3. pfifo'[NV_PFIFO_MODE] = pfifo[NV_PFIFO_MODE]
        BY <4>2
      <4>4. pfifo'[NV_PFIFO_CACHE1_PUSH1] = pfifo[NV_PFIFO_CACHE1_PUSH1]
        BY <4>2
      <4>5. GetCurrentChannelId # Own
        BY <2>5, <3>5 DEF Active
      <4> QED BY <3>3, <4>3, <4>4, <4>5
    <3> QED BY <3>4, <3>5
  <2> QED BY <1>5, <2>2, <2>3, <2>4, <2>5 DEF Unrelated, at
<1> QED BY <1>2, <1>3, <1>4, <1>5 DEF Unrelated

\* A word stays a word, whatever is written where.
LEMMA WriteTyped ==
  ASSUME GpuTypeOK, NEW place, NEW value \in Words, Write(place, value)
  PROVE  /\ pfifo' \in [PfifoRegisters -> Words]
         /\ user' \in [UserAddresses -> Words]
         /\ crtc' \in [CrtcAddresses -> Words]
         /\ cio' \in [CioIndexes -> Words]
         /\ pramin' \in [PraminAddresses -> Words]
         /\ ram' \in [RamAddresses -> Words]
<1> USE DEF GpuTypeOK
<1>1. CASE UNCHANGED gpuVars
  BY <1>1 DEF gpuVars
<1>2. ASSUME NEW addr, PrmcioWrite(addr, value) PROVE cio' \in [CioIndexes -> Words]
  BY <1>2 DEF PrmcioWrite
<1>3. ASSUME NEW addr, UserWrite(addr, value)
      PROVE  pfifo' \in [PfifoRegisters -> Words] /\ user' \in [UserAddresses -> Words]
  BY <1>3 DEF UserWrite
<1>4. ASSUME NEW reg PROVE PfifoWritten(pfifo, reg, value) \in [PfifoRegisters -> Words]
  <2>1. ASSUME NEW r \in PfifoRegisters PROVE pfifo[r] - And(pfifo[r], value) \in Words
    <3>1. pfifo[r] \in Words
      OBVIOUS
    <3>2. pfifo[r] \in Nat /\ value \in Nat
      BY <3>1, WordsAreNumbers
    <3>3. And(pfifo[r], value) \in Nat /\ And(pfifo[r], value) <= pfifo[r]
      BY <3>2, AndIsPart
    <3>4. pfifo[r] - And(pfifo[r], value) \in 0 .. pfifo[r]
      BY <3>2, <3>3
    <3> QED BY <3>1, <3>4, WordsAreNumbers
  <2> QED BY <2>1 DEF PfifoWritten
<1>5. ASSUME NEW bar, NEW addr, MMIOWrite(bar, addr, value)
      PROVE  /\ pfifo' \in [PfifoRegisters -> Words]
             /\ user' \in [UserAddresses -> Words]
             /\ crtc' \in [CrtcAddresses -> Words]
             /\ cio' \in [CioIndexes -> Words]
             /\ pramin' \in [PraminAddresses -> Words]
             /\ ram' \in [RamAddresses -> Words]
  <2> DEFINE at == GetMemoryRegion(addr)
  <2>1. CASE UNCHANGED gpuVars
    BY <1>1, <2>1
  <2>2. CASE UserWrite(at.addr, value)
    BY <1>3, <2>2 DEF UserWrite
  <2>3. CASE PrmcioWrite(at.addr, value)
    BY <1>2, <2>3 DEF PrmcioWrite
  <2>4. CASE /\ pfifo' = PfifoWritten(pfifo, at.addr, value)
            /\ UNCHANGED <<user, crtc, cio, index, pramin, ram>>
    BY <1>4, <2>4
  <2> HIDE DEF at
  <2>5. CASE /\ crtc' = [crtc EXCEPT ![at.addr] = value]
            /\ UNCHANGED <<pfifo, user, cio, index, pramin, ram>>
    BY <2>5
  <2>6. CASE /\ pramin' = [pramin EXCEPT ![at.addr] = value]
            /\ UNCHANGED <<pfifo, user, crtc, cio, index, ram>>
    BY <2>6
  <2>7. CASE /\ ram' = [ram EXCEPT ![addr] = value]
            /\ UNCHANGED <<pfifo, user, crtc, cio, index, pramin>>
    BY <2>7
  <2> QED BY <1>5, <2>1, <2>2, <2>3, <2>4, <2>5, <2>6, <2>7 DEF MMIOWrite, at
<1>6. CASE IOWrite(place.addr, value)
  BY <1>1, <1>2, <1>6 DEF IOWrite, I8254Write, PrmcioWrite
<1> QED BY <1>1, <1>5, <1>6 DEF Write, ApuWrite, Ac97Write, AtaWrite, HostBridgeWrite

-----------------------------------------------------------------------------
(* The accesses of the driver.                                             *)

\* Of two sequences in a row each keeps its elements in their order.
LEMMA Joined ==
  ASSUME NEW S, NEW s \in Seq(S), NEW t \in Seq(S)
  PROVE  /\ s \o t \in Seq(S) /\ Len(s \o t) = Len(s) + Len(t)
         /\ \A i \in 1 .. Len(s) : (s \o t)[i] = s[i]
         /\ \A i \in 1 .. Len(t) : (s \o t)[Len(s) + i] = t[i]
<1> DEFINE u == s \o t
           m == Len(s)
           n == Len(t)
<1>0. m \in Nat /\ n \in Nat
  BY LenProperties
<1>1. /\ u \in Seq(S) /\ Len(u) = m + n
      /\ \A i \in 1 .. m + n : u[i] = IF i <= m THEN s[i] ELSE t[i - m]
  BY ConcatProperties
<1> HIDE DEF u, m, n
<1>2. ASSUME NEW i \in 1 .. m PROVE u[i] = s[i]
  <2>1. i \in 1 .. m + n /\ i <= m
    BY <1>0
  <2> QED BY <1>1, <2>1
<1>3. ASSUME NEW i \in 1 .. n PROVE u[m + i] = t[i]
  <2>1. m + i \in 1 .. m + n /\ ~ m + i <= m /\ (m + i) - m = i
    BY <1>0
  <2> QED BY <1>1, <2>1
<1> QED BY <1>1, <1>2, <1>3 DEF u, m, n

\* The driver waits twice, sets the mode in two accesses a setting, draws with
\* two and submits with four.
LEMMA ProgramIs ==
  LET settings == Len(Mode)
  IN  /\ settings \in Nat
      /\ Len(Waits) = 2 /\ Len(SetMode) = 2 * settings /\ Len(Draw) = 2
      /\ Len(Program) = 2 * settings + 8
      /\ Program[1] = Waits[1]
      /\ Program[2] = Waits[2]
      /\ \A i \in 1 .. 2 * settings : Program[2 + i] = SetMode[i]
      /\ \A i \in 1 .. 2 : Program[2 * settings + 2 + i] = Draw[i]
      /\ \A i \in 1 .. 4 : Program[2 * settings + 4 + i] = Submit[i]
<1> DEFINE M == Len(Mode)
           S == {Waits[1], Waits[2], Draw[1], Draw[2], Submit[1], Submit[2], Submit[3], Submit[4]}
                  \cup {SetMode[i] : i \in 1 .. 2 * M}
<1>1. M \in Nat
  BY GuestsAssumption, LenProperties
<1> HIDE DEF M
<1>2. Waits \in Seq(S) /\ Len(Waits) = 2
  BY DEF Waits
<1>3. SetMode \in Seq(S) /\ Len(SetMode) = 2 * M
  <2>1. SetMode = [i \in 1 .. 2 * M |-> SetMode[i]]
    BY DEF SetMode, M
  <2>2. \A i \in 1 .. 2 * M : SetMode[i] \in S
    OBVIOUS
  <2> HIDE DEF S
  <2>3. 2 * M \in Nat
    BY <1>1
  <2>4. SetMode \in [1 .. 2 * M -> S]
    BY <2>1, <2>2
  <2>5. SetMode \in Seq(S)
    BY <2>3, <2>4, SeqDef
  <2> QED BY <2>3, <2>4, <2>5, LenProperties
<1>4. Draw \in Seq(S) /\ Len(Draw) = 2
  BY DEF Draw
<1>5. Submit \in Seq(S) /\ Len(Submit) = 4
  BY DEF Submit
<1> HIDE DEF S
<1> DEFINE A == Waits \o SetMode
           B == A \o Draw
           P == B \o Submit
<1>6. /\ A \in Seq(S) /\ Len(A) = 2 + 2 * M
      /\ \A i \in 1 .. 2 : A[i] = Waits[i]
      /\ \A i \in 1 .. 2 * M : A[2 + i] = SetMode[i]
  <2>1. /\ A \in Seq(S) /\ Len(A) = Len(Waits) + Len(SetMode)
        /\ \A i \in 1 .. Len(Waits) : A[i] = Waits[i]
        /\ \A i \in 1 .. Len(SetMode) : A[Len(Waits) + i] = SetMode[i]
    <3>1. Waits \in Seq(S)
      BY <1>2
    <3>2. SetMode \in Seq(S)
      BY <1>3
    <3> QED BY <3>1, <3>2, Joined
  <2> QED BY <1>2, <1>3, <2>1
<1> HIDE DEF A
<1>7. /\ B \in Seq(S) /\ Len(B) = (2 + 2 * M) + 2
      /\ \A i \in 1 .. 2 + 2 * M : B[i] = A[i]
      /\ \A i \in 1 .. 2 : B[(2 + 2 * M) + i] = Draw[i]
  <2>1. /\ B \in Seq(S) /\ Len(B) = Len(A) + Len(Draw)
        /\ \A i \in 1 .. Len(A) : B[i] = A[i]
        /\ \A i \in 1 .. Len(Draw) : B[Len(A) + i] = Draw[i]
    <3>1. A \in Seq(S)
      BY <1>6
    <3>2. Draw \in Seq(S)
      BY <1>4
    <3> QED BY <3>1, <3>2, Joined
  <2> QED BY <1>4, <1>6, <2>1
<1> HIDE DEF B
<1>8. /\ Len(P) = ((2 + 2 * M) + 2) + 4
      /\ \A i \in 1 .. (2 + 2 * M) + 2 : P[i] = B[i]
      /\ \A i \in 1 .. 4 : P[((2 + 2 * M) + 2) + i] = Submit[i]
  <2>1. /\ Len(P) = Len(B) + Len(Submit)
        /\ \A i \in 1 .. Len(B) : P[i] = B[i]
        /\ \A i \in 1 .. Len(Submit) : P[Len(B) + i] = Submit[i]
    <3>1. B \in Seq(S)
      BY <1>7
    <3>2. Submit \in Seq(S)
      BY <1>5
    <3> QED BY <3>1, <3>2, Joined
  <2> QED BY <1>5, <1>7, <2>1
<1>9. Program = P
  BY DEF Program, A, B
<1> HIDE DEF P
<1>10. ASSUME NEW i \in 1 .. 2 + 2 * M PROVE P[i] = A[i]
  <2>1. i \in 1 .. (2 + 2 * M) + 2
    BY <1>1
  <2> QED BY <1>7, <1>8, <2>1
<1>11. P[1] = Waits[1] /\ P[2] = Waits[2]
  <2>1. 1 \in 1 .. 2 + 2 * M /\ 2 \in 1 .. 2 + 2 * M
    BY <1>1
  <2> QED BY <1>6, <1>10, <2>1
<1>12. ASSUME NEW i \in 1 .. 2 * M PROVE P[2 + i] = SetMode[i]
  <2>1. 2 + i \in 1 .. 2 + 2 * M
    BY <1>1
  <2> QED BY <1>6, <1>10, <2>1
<1>13. ASSUME NEW i \in 1 .. 2 PROVE P[2 * M + 2 + i] = Draw[i]
  <2>1. /\ (2 + 2 * M) + i \in 1 .. (2 + 2 * M) + 2
        /\ (2 + 2 * M) + i = 2 * M + 2 + i
    BY <1>1
  <2> QED BY <1>7, <1>8, <2>1
<1>14. ASSUME NEW i \in 1 .. 4 PROVE P[2 * M + 4 + i] = Submit[i]
  <2>1. ((2 + 2 * M) + 2) + i = 2 * M + 4 + i
    BY <1>1
  <2> QED BY <1>8, <2>1
<1>15. Len(P) = 2 * M + 8
  BY <1>1, <1>8
<1> QED BY <1>1, <1>2, <1>3, <1>4, <1>9, <1>11, <1>12, <1>13, <1>14, <1>15 DEF M

-----------------------------------------------------------------------------
(* The steps of driver and handler.                                        *)

Settings == Len(Mode)

Polls ==
  pc \in {1, 2, 2 * Settings + 8} /\ pc' \in {pc, pc + 1} /\ UNCHANGED gpuVars

PicksRegister(i) ==
  /\ pc = 2 * i + 1 /\ pc' = pc + 1
  /\ index' = Mode[i][1]
  /\ UNCHANGED <<pfifo, user, crtc, cio, pramin, ram>>

SetsRegister(i) ==
  /\ pc = 2 * i + 2 /\ pc' = pc + 1
  /\ cio' = [cio EXCEPT ![index] = Mode[i][2]]
  /\ UNCHANGED <<pfifo, user, crtc, index, pramin, ram>>

SetsStart ==
  /\ pc = 2 * Settings + 3 /\ pc' = pc + 1
  /\ crtc' = [crtc EXCEPT ![NV_PCRTC_START] = Start]
  /\ UNCHANGED <<pfifo, user, cio, index, pramin, ram>>

Draws ==
  /\ pc = 2 * Settings + 4 /\ pc' = pc + 1
  /\ ram' = [ram EXCEPT ![Start] = Pixel]
  /\ UNCHANGED <<pfifo, user, crtc, cio, index, pramin>>

SetsChannelMode ==
  /\ pc = 2 * Settings + 5 /\ pc' = pc + 1
  /\ pfifo' = [pfifo EXCEPT ![NV_PFIFO_MODE] = 2 ^ Own]
  /\ UNCHANGED <<user, crtc, cio, index, pramin, ram>>

SetsChannel ==
  /\ pc = 2 * Settings + 6 /\ pc' = pc + 1
  /\ pfifo' = [pfifo EXCEPT ![NV_PFIFO_CACHE1_PUSH1] = Own]
  /\ UNCHANGED <<user, crtc, cio, index, pramin, ram>>

Submits ==
  /\ pc = 2 * Settings + 7 /\ pc' = pc + 1
  /\ UserWrite(Own * \h10000 + \h40, Put)

\* Every index of the CRTC registers fits the index register.
LEMMA IndexFits == \A i \in CioIndexes : i \in Nat /\ i % 65536 = i
<1> DEFINE top == 2 ^ 16 - 1
<1>1. top \in Nat /\ \A i \in Nat : i <= top => i % 65536 = i
  BY SMT
<1>2. CioIndexes \subseteq 0 .. top
  BY GuestsAssumption
<1> HIDE DEF top
<1> QED BY <1>1, <1>2

LEMMA ChannelsAre == Own \in 0 .. 26 /\ Other \in 0 .. 26 /\ Own # Other
BY GuestsAssumption

LEMMA ModeIs ==
  /\ Settings \in Nat
  /\ \A i \in 1 .. Settings :
       Mode[i][1] \in CioIndexes /\ Mode[i][1] % 65536 = Mode[i][1] /\ Mode[i][2] \in Words
<1>1. Mode \in Seq(CioIndexes \X Words)
  BY GuestsAssumption
<1>2. Settings \in Nat
  BY <1>1, LenProperties DEF Settings
<1>3. ASSUME NEW i \in 1 .. Settings
      PROVE  Mode[i][1] \in CioIndexes /\ Mode[i][1] % 65536 = Mode[i][1] /\ Mode[i][2] \in Words
  <2>1. Mode[i] \in CioIndexes \X Words
    BY <1>1, ElementOfSeq DEF Settings
  <2>2. Mode[i][1] \in CioIndexes /\ Mode[i][2] \in Words
    BY <2>1
  <2> QED BY <2>2, IndexFits
<1> QED BY <1>2, <1>3

LEMMA DriverStep ==
  ASSUME Driver, pc \in Nat \ {0}
  PROVE  /\ handler = 0 /\ UNCHANGED <<handler, saved, expected, frame>>
         /\ \/ Polls
            \/ \E i \in 1 .. Settings : PicksRegister(i) \/ SetsRegister(i)
            \/ SetsStart \/ Draws \/ SetsChannelMode \/ SetsChannel \/ Submits
<1> DEFINE M == Settings
           Effect == \/ Polls
                     \/ \E i \in 1 .. M : PicksRegister(i) \/ SetsRegister(i)
                     \/ SetsStart \/ Draws \/ SetsChannelMode \/ SetsChannel \/ Submits
<1>1. M \in Nat
  BY ModeIs
<1>2. handler = 0 /\ pc <= Len(Program) /\ UNCHANGED <<handler, saved, expected, frame>>
  BY DEF Driver
<1>3. ASSUME Program[pc].poll PROVE pc' \in {pc, pc + 1} /\ UNCHANGED gpuVars
  BY <1>3 DEF Driver
<1>4. ASSUME NEW place, NEW value, Program[pc] = Store(place, value)
      PROVE  pc' = pc + 1 /\ \E p \in Aliases(place) : Write(p, value)
  BY <1>4 DEF Driver, Store
<1>5. ASSUME NEW place, NEW value, Program[pc] = Store(place, value), place \notin {Index, Data}
      PROVE  pc' = pc + 1 /\ Write(place, value)
  BY <1>4, <1>5 DEF Aliases
<1>6. /\ \A addr : Place("registers", addr) \notin {Index, Data}
      /\ \A addr : Place("ram", addr) \notin {Index, Data}
  BY DEF Index, Data, Place
<1> HIDE DEF M
<1>7. \/ pc \in {1, 2, 2 * M + 3, 2 * M + 4, 2 * M + 5, 2 * M + 6, 2 * M + 7, 2 * M + 8}
      \/ \E i \in 1 .. M : pc = 2 * i + 1 \/ pc = 2 * i + 2
  <2>1. pc <= 2 * M + 8
    BY <1>2, ProgramIs DEF M, Settings
  <2>2. CASE pc > 2 /\ pc <= 2 * M + 2
    <3>1. (pc - 1) \div 2 \in 1 .. M
      BY <1>1, <2>2
    <3>2. pc = 2 * ((pc - 1) \div 2) + 1 \/ pc = 2 * ((pc - 1) \div 2) + 2
      BY <2>2
    <3> QED BY <3>1, <3>2
  <2> QED BY <1>1, <2>1, <2>2
<1>8. CASE pc \in {1, 2, 2 * M + 8}
  <2>1. Program[pc] \in {Waits[1], Waits[2], Submit[4]}
    <3>1. 2 * M + 8 = 2 * M + 4 + 4 /\ 4 \in 1 .. 4
      BY <1>1
    <3> QED BY <1>8, <3>1, ProgramIs DEF M, Settings
  <2>2. Program[pc].poll
    BY <2>1 DEF Waits, Submit, Await
  <2> QED BY <1>2, <1>3, <1>8, <2>2 DEF Polls, M
<1>9. ASSUME NEW i \in 1 .. M, pc = 2 * i + 1 PROVE PicksRegister(i)
  <2>1. /\ 2 * i - 1 \in 1 .. 2 * M /\ pc = 2 + (2 * i - 1)
        /\ (2 * i - 1) % 2 = 1 /\ ((2 * i - 1) + 1) \div 2 = i
    BY <1>1, <1>9
  <2>2. Program[pc] = SetMode[2 * i - 1]
    BY <2>1, ProgramIs DEF M, Settings
  <2>3. SetMode[2 * i - 1] = Store(Index, Mode[i][1])
    BY <2>1 DEF SetMode, M, Settings
  <2>4. PICK p \in Aliases(Index) : Write(p, Mode[i][1])
    BY <1>4, <2>2, <2>3
  <2>5. pc' = pc + 1
    BY <1>4, <2>2, <2>3
  <2>6. i \in 1 .. Settings
    BY DEF M
  <2> QED BY <1>9, <2>4, <2>5, <2>6, IndexWritten, ModeIs DEF PicksRegister
<1>10. ASSUME NEW i \in 1 .. M, pc = 2 * i + 2 PROVE SetsRegister(i)
  <2>1. /\ 2 * i \in 1 .. 2 * M /\ pc = 2 + 2 * i
        /\ (2 * i) % 2 = 0 /\ (2 * i) \div 2 = i
    BY <1>1, <1>10
  <2>2. Program[pc] = SetMode[2 * i]
    BY <2>1, ProgramIs DEF M, Settings
  <2>3. SetMode[2 * i] = Store(Data, Mode[i][2])
    BY <2>1 DEF SetMode, M, Settings
  <2>4. PICK p \in Aliases(Data) : Write(p, Mode[i][2])
    BY <1>4, <2>2, <2>3
  <2>5. pc' = pc + 1
    BY <1>4, <2>2, <2>3
  <2> QED BY <1>10, <2>4, <2>5, DataWritten DEF SetsRegister
<1>11. CASE pc = 2 * M + 3
  <2>1. Program[pc] = Draw[1]
    <3>1. 2 * M + 3 = 2 * M + 2 + 1 /\ 1 \in 1 .. 2
      BY <1>1
    <3> QED BY <1>11, <3>1, ProgramIs DEF M, Settings
  <2>2. Program[pc] = Store(Place("registers", PcrtcRegion[1] + NV_PCRTC_START), Start)
    BY <2>1 DEF Draw
  <2>3. pc' = pc + 1 /\ Write(Place("registers", PcrtcRegion[1] + NV_PCRTC_START), Start)
    BY <1>5, <1>6, <2>2
  <2> QED BY <1>2, <1>11, <2>3, StartWritten DEF SetsStart, M
<1>12. CASE pc = 2 * M + 4
  <2>1. Program[pc] = Draw[2]
    <3>1. 2 * M + 4 = 2 * M + 2 + 2 /\ 2 \in 1 .. 2
      BY <1>1
    <3> QED BY <1>12, <3>1, ProgramIs DEF M, Settings
  <2>2. Program[pc] = Store(Place("ram", Start), Pixel)
    BY <2>1 DEF Draw
  <2>3. pc' = pc + 1 /\ Write(Place("ram", Start), Pixel)
    BY <1>5, <1>6, <2>2
  <2> QED BY <1>2, <1>12, <2>3, RamWritten DEF Draws, M
<1>13. ASSUME NEW k \in 1 .. 4, pc = 2 * M + 4 + k PROVE Program[pc] = Submit[k]
  BY <1>13, ProgramIs DEF M, Settings
<1>14. \A reg : PfifoPlace(reg) \notin {Index, Data}
  BY <1>6 DEF PfifoPlace
<1>15. CASE pc = 2 * M + 5
  <2>1. pc = 2 * M + 4 + 1 /\ 1 \in 1 .. 4
    BY <1>1, <1>15
  <2>2. Program[pc] = Store(PfifoPlace(NV_PFIFO_MODE), 2 ^ Own)
    BY <1>13, <2>1 DEF Submit
  <2>3. pc' = pc + 1 /\ Write(PfifoPlace(NV_PFIFO_MODE), 2 ^ Own)
    BY <1>5, <1>14, <2>2
  <2> QED BY <1>2, <1>15, <2>3, PfifoSelected DEF SetsChannelMode, M
<1>16. CASE pc = 2 * M + 6
  <2>1. pc = 2 * M + 4 + 2 /\ 2 \in 1 .. 4
    BY <1>1, <1>16
  <2>2. Program[pc] = Store(PfifoPlace(NV_PFIFO_CACHE1_PUSH1), Own)
    BY <1>13, <2>1 DEF Submit
  <2>3. pc' = pc + 1 /\ Write(PfifoPlace(NV_PFIFO_CACHE1_PUSH1), Own)
    BY <1>5, <1>14, <2>2
  <2> QED BY <1>2, <1>16, <2>3, PfifoSelected DEF SetsChannel, M
<1>17. CASE pc = 2 * M + 7
  <2>1. pc = 2 * M + 4 + 3 /\ 3 \in 1 .. 4
    BY <1>1, <1>17
  <2>2. Program[pc] = Store(UserPlace(Own, \h40), Put)
    BY <1>13, <2>1 DEF Submit, NV_USER
  <2>3. pc' = pc + 1 /\ Write(UserPlace(Own, \h40), Put)
    BY <1>5, <1>6, <2>2 DEF UserPlace
  <2>4. UserWrite(Own * \h10000 + \h40, Put)
    <3>1. \h40 \in Nat /\ \h40 < \h10000
      BY SMT
    <3> QED BY <2>3, <3>1, ChannelsAre, UserAreaWritten
  <2> QED BY <1>2, <1>17, <2>3, <2>4 DEF Submits, M
<1> QED BY <1>2, <1>7, <1>8, <1>9, <1>10, <1>11, <1>12, <1>15, <1>16, <1>17 DEF M

\* The handler uses the index register and makes its channel current, and puts
\* both back in the reverse order.
HandlerSets(n, v) ==
  CASE n = 1 -> index' = OtherIndex /\ UNCHANGED <<pfifo, user, crtc, cio, pramin, ram>>
    [] n = 2 -> /\ pfifo' = [pfifo EXCEPT ![NV_PFIFO_CACHE1_PUSH1] = Other]
                /\ UNCHANGED <<user, crtc, cio, index, pramin, ram>>
    [] n = 3 -> UserWrite(Other * \h10000 + \h40, 0)
    [] n = 4 -> /\ pfifo' = [pfifo EXCEPT ![NV_PFIFO_CACHE1_PUSH1] = v.channel]
                /\ UNCHANGED <<user, crtc, cio, index, pramin, ram>>
    [] n = 5 -> index' = v.index % 65536 /\ UNCHANGED <<pfifo, user, crtc, cio, pramin, ram>>

LEMMA HandlerStep ==
  ASSUME Handler, handler \in 0 .. 5
  PROVE  /\ handler \in 1 .. 5 /\ handler' = IF handler = 5 THEN 0 ELSE handler + 1
         /\ HandlerSets(handler, saved)
         /\ UNCHANGED <<pc, saved, expected, frame>>
<1>1. /\ handler \in 1 .. 5 /\ UNCHANGED <<pc, saved, expected, frame>>
      /\ Write(HandlerProgram[handler].place, HandlerProgram[handler].value)
      /\ handler' = IF handler = 5 THEN 0 ELSE handler + 1
  BY DEF Handler, HandlerProgram
<1>2. ASSUME NEW place, NEW value, HandlerProgram[handler] = Store(place, value)
      PROVE  Write(place, value)
  BY <1>1, <1>2 DEF Store
<1>3. CASE handler = 1
  <2>1. HandlerProgram[handler] = Store(Index, OtherIndex)
    BY <1>3 DEF HandlerProgram
  <2>2. Write(Index, OtherIndex) /\ Index \in Aliases(Index)
    BY <1>2, <2>1 DEF Aliases
  <2>3. OtherIndex % 65536 = OtherIndex
    <3>1. OtherIndex \in CioIndexes
      BY GuestsAssumption
    <3> QED BY <3>1, IndexFits
  <2> QED BY <1>1, <1>3, <2>2, <2>3, IndexWritten DEF HandlerSets
<1>4. CASE handler = 2
  <2>1. HandlerProgram[handler] = Store(PfifoPlace(NV_PFIFO_CACHE1_PUSH1), Other)
    BY <1>4 DEF HandlerProgram
  <2>2. Write(PfifoPlace(NV_PFIFO_CACHE1_PUSH1), Other)
    BY <1>2, <2>1
  <2> QED BY <1>1, <1>4, <2>2, PfifoSelected DEF HandlerSets
<1>5. CASE handler = 3
  <2>1. HandlerProgram[handler] = Store(UserPlace(Other, \h40), 0)
    BY <1>5 DEF HandlerProgram, NV_USER
  <2>2. Write(UserPlace(Other, \h40), 0)
    BY <1>2, <2>1
  <2>3. \h40 \in Nat /\ \h40 < \h10000
    BY SMT
  <2>4. UserWrite(Other * \h10000 + \h40, 0)
    BY <2>2, <2>3, ChannelsAre, UserAreaWritten
  <2> QED BY <1>1, <1>5, <2>4 DEF HandlerSets
<1>6. CASE handler = 4
  <2>1. HandlerProgram[handler] = Store(PfifoPlace(NV_PFIFO_CACHE1_PUSH1), saved.channel)
    BY <1>6 DEF HandlerProgram
  <2>2. Write(PfifoPlace(NV_PFIFO_CACHE1_PUSH1), saved.channel)
    BY <1>2, <2>1
  <2> QED BY <1>1, <1>6, <2>2, PfifoSelected DEF HandlerSets
<1>7. CASE handler = 5
  <2>1. HandlerProgram[handler] = Store(Index, saved.index)
    BY <1>7 DEF HandlerProgram
  <2>2. Write(Index, saved.index) /\ Index \in Aliases(Index)
    BY <1>2, <2>1 DEF Aliases
  <2> QED BY <1>1, <1>7, <2>2, IndexWritten DEF HandlerSets
<1> QED BY <1>1, <1>3, <1>4, <1>5, <1>6, <1>7

LEMMA InterruptStep ==
  ASSUME Interrupt
  PROVE  /\ handler = 0 /\ handler' = 1
         /\ saved'.index = index /\ saved'.channel = pfifo[NV_PFIFO_CACHE1_PUSH1]
         /\ UNCHANGED <<gpuVars, pc, expected, frame>>
<1>1. Read(Index) = index
  <2>1. PortOwner(NV_PRMCIO.CRX__COLOR) = "prmcio"
    BY SMT DEF PortOwner, PORT_PIC, PORT_PIT, NV_PRMCIO
  <2>2. IORead(NV_PRMCIO.CRX__COLOR) = PrmcioRead(NV_PRMCIO.CRX__COLOR)
    BY <2>1 DEF IORead
  <2>3. PrmcioRead(NV_PRMCIO.CRX__COLOR) = index
    BY SMT DEF PrmcioRead, NV_PRMCIO
  <2> QED BY <2>2, <2>3 DEF Read, Index, Place
<1>2. Read(PfifoPlace(NV_PFIFO_CACHE1_PUSH1)) = pfifo[NV_PFIFO_CACHE1_PUSH1]
  <2> DEFINE addr == PfifoRegion[1] + NV_PFIFO_CACHE1_PUSH1
  <2>1. NV_PFIFO_CACHE1_PUSH1 \in Nat /\ NV_PFIFO_CACHE1_PUSH1 < \h2000
    BY SMT DEF NV_PFIFO_CACHE1_PUSH1
  <2>2. /\ GetMemoryRegion(addr).unit = Pfifo
        /\ GetMemoryRegion(addr).addr = NV_PFIFO_CACHE1_PUSH1
    BY <2>1, PfifoLands
  <2> HIDE DEF addr
  <2>3. MMIORead(0, addr) = PfifoRead(NV_PFIFO_CACHE1_PUSH1)
    BY <2>2, UnitsDiffer DEF MMIORead
  <2>4. PfifoRead(NV_PFIFO_CACHE1_PUSH1) = pfifo[NV_PFIFO_CACHE1_PUSH1]
    BY SMT DEF PfifoRead, NV_PFIFO_CACHE1_PUSH1, NV_PFIFO_RUNOUT_STATUS
  <2>5. Read(PfifoPlace(NV_PFIFO_CACHE1_PUSH1)) = MMIORead(0, addr)
    BY DEF Read, PfifoPlace, Place, addr
  <2> QED BY <2>3, <2>4, <2>5
<1> QED BY <1>1, <1>2 DEF Interrupt

-----------------------------------------------------------------------------
(* Types.                                                                  *)

\* Whatever the registers hold, a display has a width and a height.
LEMMA DisplayTyped ==
  ASSUME cio \in [CioIndexes -> Words]
  PROVE  /\ Line(cio) \in Nat /\ Line(cio) <= cio[NV_CIO.OFFSET] + \hf00
         /\ GetDisplayBpp(cio) \in {1, 2, 4}
         /\ GetDisplayWidth(cio) \in 0 .. 2 ^ 16 - 1
         /\ GetDisplayHeight(cio) \in 1 .. 2 ^ 16
<1>1. \A r \in {NV_CIO.OFFSET, NV_CIO.RPC0, NV_CIO.LSR, NV_CIO.VDE, NV_CIO.OVL, NV_CIO.PIXEL} :
        cio[r] \in Nat
  BY GuestsAssumption, WordsAreNumbers
<1> DEFINE high == And(\h700, cio[NV_CIO.RPC0] * 2 ^ 3)
           top  == And(\h800, cio[NV_CIO.LSR] * 2 ^ 6)
<1>2. /\ high \in Nat /\ high <= \h700
      /\ top \in Nat /\ top <= \h800
      /\ Line(cio) \in Nat /\ Line(cio) <= cio[NV_CIO.OFFSET] + high + top
  <2> DEFINE rpc0 == cio[NV_CIO.RPC0] * 2 ^ 3
             lsr == cio[NV_CIO.LSR] * 2 ^ 6
             offset == cio[NV_CIO.OFFSET]
  <2>1. rpc0 \in Nat /\ lsr \in Nat /\ offset \in Nat
    BY <1>1
  <2> HIDE DEF rpc0, lsr, offset
  <2>2. high \in Nat /\ high <= \h700
    <3>1. \h700 \in Nat
      OBVIOUS
    <3>2. And(\h700, rpc0) \in Nat /\ And(\h700, rpc0) <= \h700
      BY <2>1, <3>1, AndIsPart
    <3>3. high = And(\h700, rpc0)
      BY DEF rpc0
    <3> QED BY <3>2, <3>3
  <2>3. top \in Nat /\ top <= \h800
    <3>1. \h800 \in Nat
      OBVIOUS
    <3>2. And(\h800, lsr) \in Nat /\ And(\h800, lsr) <= \h800
      BY <2>1, <3>1, AndIsPart
    <3>3. top = And(\h800, lsr)
      BY DEF lsr
    <3> QED BY <3>2, <3>3
  <2>4. Line(cio) = Or(Or(offset, high), top)
    BY DEF Line, offset
  <2> HIDE DEF high, top
  <2>5. Or(offset, high) \in Nat /\ Or(offset, high) <= offset + high
    BY <2>1, <2>2, OrIsSum
  <2>6. Line(cio) \in Nat /\ Line(cio) <= Or(offset, high) + top
    BY <2>3, <2>4, <2>5, OrIsSum
  <2> QED BY <2>1, <2>2, <2>3, <2>5, <2>6 DEF offset
<1> HIDE DEF high, top
<1>3. GetDisplayBpp(cio) \in {1, 2, 4}
  <2>1. cio[NV_CIO.PIXEL] % 4 \in 0 .. 3
    BY <1>1
  <2> QED BY <2>1 DEF GetDisplayBpp
<1>4. \A n \in Nat : n % (2 ^ 16) \in 0 .. 2 ^ 16 - 1
  BY SMT
<1>5. GetDisplayWidth(cio) \in 0 .. 2 ^ 16 - 1
  <2>1. (Line(cio) * 8) \div GetDisplayBpp(cio) \in Nat
    BY <1>2, <1>3
  <2> QED BY <1>4, <2>1 DEF GetDisplayWidth
<1>6. LastLine(cio) \in Nat
  <2>1. Bit(cio[NV_CIO.OVL], 1) * 2 ^ 8 + Bit(cio[NV_CIO.OVL], 6) * 2 ^ 9
          + Bit(cio[NV_CIO.LSR], 1) * 2 ^ 10 \in Nat
    <3>1. 1 \in 0 .. MaskBits - 1 /\ 6 \in 0 .. MaskBits - 1
      BY DEF MaskBits
    <3>2. \A word \in Nat : Bit(word, 1) \in {0, 1} /\ Bit(word, 6) \in {0, 1}
      BY <3>1, NextBit
    <3>3. /\ Bit(cio[NV_CIO.OVL], 1) \in {0, 1} /\ Bit(cio[NV_CIO.OVL], 6) \in {0, 1}
          /\ Bit(cio[NV_CIO.LSR], 1) \in {0, 1}
      BY <1>1, <3>2
    <3> QED BY <3>3
  <2> QED BY <1>1, <2>1, OrIsSum DEF LastLine
<1>7. GetDisplayHeight(cio) \in 1 .. 2 ^ 16
  <2>1. \A n \in Nat : (n % (2 ^ 16)) + 1 \in 1 .. 2 ^ 16
    BY SMT
  <2> QED BY <1>6, <2>1 DEF GetDisplayHeight
<1>8. Line(cio) <= cio[NV_CIO.OFFSET] + \hf00
  BY <1>1, <1>2
<1> QED BY <1>2, <1>3, <1>5, <1>7, <1>8

\* The pitch of the display is the line the guest has set, whatever the format.
LEMMA PitchIs ==
  ASSUME cio \in [CioIndexes -> Words]
  PROVE  PitchIsStride
<1> SUFFICES ASSUME \A r \in CioIndexes : cio[r] < 256
             PROVE  GetDisplayWidth(cio) * GetDisplayBpp(cio) = 8 * Line(cio)
  BY DEF PitchIsStride
<1> DEFINE line == Line(cio)
           bpp == GetDisplayBpp(cio)
<1>1. NV_CIO.OFFSET \in CioIndexes
  BY GuestsAssumption
<1>2. cio[NV_CIO.OFFSET] \in Nat /\ cio[NV_CIO.OFFSET] < 256
  BY <1>1, WordsAreNumbers
<1>3. line \in Nat /\ line <= 4095 /\ bpp \in {1, 2, 4}
  BY <1>2, DisplayTyped
<1>4. GetDisplayWidth(cio) = ((line * 8) \div bpp) % 65536
  BY SMT DEF GetDisplayWidth
<1> HIDE DEF line, bpp
<1>5. (((line * 8) \div bpp) % 65536) * bpp = 8 * line
  <2>1. CASE bpp = 1
    BY <1>3, <2>1, SMT
  <2>2. CASE bpp = 2
    BY <1>3, <2>2, SMT
  <2>3. CASE bpp = 4
    BY <1>3, <2>3, SMT
  <2> QED BY <1>3, <2>1, <2>2, <2>3
<1> QED BY <1>4, <1>5 DEF line, bpp

LEMMA PowersAreWords == \A n \in 0 .. 26 : 2 ^ n \in Words
<1> SUFFICES ASSUME NEW n \in 0 .. 26 PROVE 2 ^ n \in Words
  OBVIOUS
<1>1. 2 ^ 26 \in Words
  BY SMT DEF Words
<1>2. CASE n = 26
  BY <1>1, <1>2
<1>3. CASE n # 26
  <2>1. 26 \in n + 1 .. 26
    BY <1>3
  <2>2. PICK k \in Nat \ {0} : 2 ^ 26 = 2 ^ n * (2 * k)
    BY <2>1, PowerDivides
  <2>3. 2 ^ n \in Nat
    BY NextPower
  <2>4. 2 ^ n \in 0 .. 2 ^ n * (2 * k)
    BY <2>3
  <2> QED BY <1>1, <2>2, <2>4, WordsAreNumbers
<1> QED BY <1>2, <1>3

\* The values the guests write are words.
LEMMA ValuesAreWords ==
  /\ {Start, Pixel, Put, Own, Other, 0} \subseteq Words
  /\ 2 ^ Own \in Words
<1>1. {Start, Pixel, Put} \subseteq Words
  BY GuestsAssumption
<1>2. \A n \in 0 .. 26 : n \in Words
  BY SMT DEF Words
<1>3. {Own, Other, 0} \subseteq Words
  BY <1>2, ChannelsAre
<1> QED BY <1>1, <1>3, ChannelsAre, PowersAreWords

LEMMA UserTyped ==
  ASSUME GpuTypeOK, NEW addr, NEW value \in Words, UserWrite(addr, value)
  PROVE  GpuTypeOK'
BY DEF UserWrite, GpuTypeOK

\* The registers are words, and so is what the handler has to put back.
TypeInv ==
  /\ TypeOK
  /\ handler \in 0 .. 5
  /\ saved.index \in CioIndexes \cup {0} /\ saved.channel \in Words

LEMMA TypeStep ==
  ASSUME TypeInv, [Next]_vars
  PROVE  TypeInv'
<1> USE DEF TypeInv, TypeOK
<1>1. ASSUME Driver PROVE TypeInv'
  <2>1. /\ pc \in Nat \ {0} /\ pc <= Len(Program) /\ Len(Program) \in Nat
        /\ UNCHANGED <<handler, saved, expected, frame>>
    BY <1>1, ProgramIs DEF Driver
  <2>2. pc' \in {pc, pc + 1} /\ GpuTypeOK'
    <3> USE DEF GpuTypeOK
    <3>1. CASE Polls
      BY <3>1 DEF Polls, gpuVars
    <3>2. ASSUME NEW i \in 1 .. Settings, PicksRegister(i) \/ SetsRegister(i)
          PROVE  pc' \in {pc, pc + 1} /\ GpuTypeOK'
      BY <3>2, ModeIs DEF PicksRegister, SetsRegister
    <3>3. CASE SetsStart
      BY <3>3, ValuesAreWords DEF SetsStart
    <3>4. CASE Draws
      BY <3>4, ValuesAreWords DEF Draws
    <3>5. CASE SetsChannelMode
      BY <3>5, ValuesAreWords DEF SetsChannelMode
    <3>6. CASE SetsChannel
      BY <3>6, ValuesAreWords DEF SetsChannel
    <3>7. CASE Submits
      BY <3>7, ValuesAreWords, UserTyped DEF Submits
    <3> QED BY <1>1, <2>1, <3>1, <3>2, <3>3, <3>4, <3>5, <3>6, <3>7, DriverStep
  <2>3. pc' \in 1 .. Len(Program) + 1
    BY <2>1, <2>2
  <2> QED BY <2>1, <2>2, <2>3
<1>2. ASSUME Handler PROVE TypeInv'
  <2>1. /\ handler \in 1 .. 5 /\ handler' = IF handler = 5 THEN 0 ELSE handler + 1
        /\ HandlerSets(handler, saved)
        /\ UNCHANGED <<pc, saved, expected, frame>>
    BY <1>2, HandlerStep
  <2>2. GpuTypeOK'
    <3> USE DEF GpuTypeOK
    <3>1. CASE handler = 1
      <4>1. OtherIndex \in CioIndexes
        BY GuestsAssumption
      <4> QED BY <2>1, <3>1, <4>1 DEF HandlerSets
    <3>2. CASE handler = 2
      BY <2>1, <3>2, ValuesAreWords DEF HandlerSets
    <3>3. CASE handler = 3
      <4>1. UserWrite(Other * \h10000 + \h40, 0) /\ 0 \in Words
        BY <2>1, <3>3, ValuesAreWords DEF HandlerSets
      <4> QED BY <4>1, UserTyped
    <3>4. CASE handler = 4
      BY <2>1, <3>4 DEF HandlerSets
    <3>5. CASE handler = 5
      <4>1. saved.index % 65536 = saved.index
        BY IndexFits
      <4> QED BY <2>1, <3>5, <4>1 DEF HandlerSets
    <3> QED BY <2>1, <3>1, <3>2, <3>3, <3>4, <3>5
  <2>3. handler' \in 0 .. 5
    BY <2>1
  <2> QED BY <2>1, <2>2, <2>3
<1>3. ASSUME Interrupt PROVE TypeInv'
  <2>1. NV_PFIFO_CACHE1_PUSH1 \in PfifoRegisters
    BY DEF PfifoRegisters
  <2>2. /\ handler' = 1 /\ UNCHANGED <<gpuVars, pc, expected, frame>>
        /\ saved'.index = index /\ saved'.channel = pfifo[NV_PFIFO_CACHE1_PUSH1]
    BY <1>3, InterruptStep
  <2> QED BY <2>1, <2>2 DEF GpuTypeOK, gpuVars
<1>4. ASSUME Bystander PROVE TypeInv'
  <2>1. PICK access \in Elsewhere : Write(access.place, access.value)
    BY <1>4 DEF Bystander
  <2>2. Unrelated(access.place) /\ access.value \in Words
    BY GuestsAssumption
  <2>3. index' = index
    BY <2>1, <2>2, UnrelatedWritten
  <2>4. GpuTypeOK'
    BY <2>1, <2>2, <2>3, WriteTyped DEF GpuTypeOK
  <2>5. UNCHANGED <<pc, handler, saved, expected, frame>>
    BY <1>4 DEF Bystander
  <2> QED BY <2>4, <2>5
<1>5. ASSUME retro_run PROVE TypeInv'
  <2>1. UNCHANGED <<gpuVars, pc, handler, saved, expected>>
    BY <1>5 DEF retro_run
  <2>2. cio \in [CioIndexes -> Words]
    BY DEF GpuTypeOK
  <2>3. frame'.width = GetDisplayWidth(cio) /\ frame'.height = GetDisplayHeight(cio)
    BY <1>5 DEF retro_run, Picture
  <2> QED BY <2>1, <2>2, <2>3, DisplayTyped DEF GpuTypeOK, gpuVars
<1>6. CASE UNCHANGED vars
  BY <1>6 DEF vars, GpuTypeOK
<1> QED BY <1>1, <1>2, <1>3, <1>4, <1>5, <1>6 DEF Next

LEMMA TypeInit == Init => TypeInv
<1> SUFFICES ASSUME Init PROVE TypeInv
  OBVIOUS
<1>1. Garbage \subseteq Words
  BY GuestsAssumption
<1>2. GpuTypeOK
  BY <1>1 DEF Init, GpuInit, GpuTypeOK, Filled
<1>3. pc = 1 /\ handler = 0 /\ saved = [index |-> 0, channel |-> 0] /\ frame = NoFrame
  BY DEF Init
<1>4. 1 \in 1 .. Len(Program) + 1
  BY ProgramIs
<1> QED BY <1>2, <1>3, <1>4, ValuesAreWords DEF TypeInv, TypeOK

\* Every register is a word, and every frame has a width and a height that
\* retro_run can pass on, whatever the registers hold.
THEOREM TypeCorrect == Spec => []TypeOK
<1>1. TypeInv => TypeOK
  BY DEF TypeInv
<1> QED BY <1>1, TypeInit, TypeStep, PTL DEF Spec

\* The rows of a frame never skew: the pitch handed to the frontend is the line
\* the guest has set, for every content of the registers.
THEOREM PitchIsTheLine == Spec => []PitchIsStride
<1>1. TypeInv => PitchIsStride
  BY PitchIs DEF TypeInv, TypeOK, GpuTypeOK
<1> QED BY <1>1, TypeInit, TypeStep, PTL DEF Spec

-----------------------------------------------------------------------------
(* The submission.                                                         *)

\* The channel the driver sees when it runs.
DriverChannel ==
  IF handler = 0 THEN pfifo[NV_PFIFO_CACHE1_PUSH1] ELSE saved.channel

\* Once set, the mode word and the driver's channel stay; the handler's channel
\* is current only while the handler runs, and its area is dead then.
ChannelInv ==
  /\ pc >= 2 * Settings + 6 => pfifo[NV_PFIFO_MODE] = 2 ^ Own
  /\ pc >= 2 * Settings + 7 => DriverChannel = Own
  /\ handler = 3 => pfifo[NV_PFIFO_CACHE1_PUSH1] = Other
  /\ handler = 5 => pfifo[NV_PFIFO_CACHE1_PUSH1] = saved.channel
  /\ pc >= 2 * Settings + 8 => /\ pfifo[NV_PFIFO_CACHE1_DMA_PUT] = Put
                               /\ pfifo[NV_PFIFO_CACHE1_DMA_GET] = Put

LEMMA RegistersDiffer ==
  LET registers == <<NV_PFIFO_MODE, NV_PFIFO_CACHE1_PUSH1, NV_PFIFO_CACHE1_DMA_PUT,
                     NV_PFIFO_CACHE1_DMA_GET>>
  IN  /\ \A i \in 1 .. 4 : registers[i] \in PfifoRegisters
      /\ \A i, j \in 1 .. 4 : registers[i] = registers[j] => i = j
BY SMT DEF PfifoRegisters, NV_PFIFO_MODE, NV_PFIFO_CACHE1_PUSH1, NV_PFIFO_CACHE1_DMA_PUT,
           NV_PFIFO_CACHE1_DMA_GET

\* The area of a channel is active exactly when the channel is current and the
\* mode word is its own.
LEMMA AreaOf ==
  ASSUME NEW channel \in 0 .. 26, pfifo[NV_PFIFO_CACHE1_PUSH1] = channel,
         pfifo[NV_PFIFO_MODE] = 2 ^ Own
  PROVE  Active(channel * \h10000 + \h40) <=> channel = Own
<1>1. channel \in Nat /\ channel <= 26
  OBVIOUS
<1>2. Channel(channel * \h10000 + \h40) = channel
  <2>1. (channel * \h10000 + \h40) \div \h10000 = channel
    BY <1>1, SMT
  <2>2. channel % \h100 = channel
    BY <1>1, SMT
  <2> QED BY <2>1, <2>2 DEF Channel
<1>3. channel % 32 = channel
  BY <1>1, SMT
<1>4. GetCurrentChannelId = channel
  BY <1>3, SMT DEF GetCurrentChannelId, LowBits
<1>5. GetChannelMode(channel) <=> channel = Own
  <2>1. Bit(2 ^ Own, channel) = IF Own = channel THEN 1 ELSE 0
    BY ChannelsAre, OneModeBit
  <2> QED BY <2>1 DEF GetChannelMode
<1> QED BY <1>2, <1>4, <1>5 DEF Active

LEMMA ChannelStep ==
  ASSUME TypeInv, ChannelInv, [Next]_vars
  PROVE  ChannelInv'
<1> USE DEF ChannelInv, DriverChannel
<1>0. pfifo \in [PfifoRegisters -> Words] /\ pc \in Nat /\ Settings \in Nat /\ handler \in 0 .. 5
  <2>1. Len(Program) \in Nat /\ Settings \in Nat
    BY ProgramIs, ModeIs
  <2> QED BY <2>1 DEF TypeInv, TypeOK, GpuTypeOK
<1>1. ASSUME Driver PROVE ChannelInv'
  <2>1. handler = 0 /\ UNCHANGED <<handler, saved>>
    BY <1>1 DEF Driver
  <2>2. CASE Polls
    BY <1>0, <2>1, <2>2 DEF Polls, gpuVars
  <2>3. ASSUME NEW i \in 1 .. Settings, PicksRegister(i) \/ SetsRegister(i) PROVE ChannelInv'
    BY <1>0, <2>1, <2>3 DEF PicksRegister, SetsRegister
  <2>4. CASE SetsStart \/ Draws
    BY <1>0, <2>1, <2>4 DEF SetsStart, Draws
  <2>5. CASE SetsChannelMode
    <3>1. pfifo'[NV_PFIFO_MODE] = 2 ^ Own
      BY <1>0, <2>5, RegistersDiffer DEF SetsChannelMode
    <3> QED BY <1>0, <2>1, <2>5, <3>1 DEF SetsChannelMode
  <2>6. CASE SetsChannel
    <3>1. /\ pfifo'[NV_PFIFO_CACHE1_PUSH1] = Own
          /\ pfifo'[NV_PFIFO_MODE] = pfifo[NV_PFIFO_MODE]
      BY <1>0, <2>6, RegistersDiffer DEF SetsChannel
    <3> QED BY <1>0, <2>1, <2>6, <3>1 DEF SetsChannel
  <2>7. CASE Submits
    <3>1. pfifo[NV_PFIFO_CACHE1_PUSH1] = Own /\ pfifo[NV_PFIFO_MODE] = 2 ^ Own
      BY <1>0, <2>1, <2>7 DEF Submits
    <3>2. Active(Own * \h10000 + \h40)
      BY <3>1, ChannelsAre, AreaOf
    <3>3. (Own * \h10000 + \h40) % \h10000 = NV_USER.DMA_PUT
      BY ChannelsAre, AreaIsChannel, SMT DEF NV_USER
    <3>4. pfifo' = [r \in PfifoRegisters |->
                      IF r \in Forwarded(NV_USER.DMA_PUT) THEN Put ELSE pfifo[r]]
      BY <2>7, <3>2, <3>3 DEF Submits, UserWrite
    <3>5. Forwarded(NV_USER.DMA_PUT) = {NV_PFIFO_CACHE1_DMA_PUT, NV_PFIFO_CACHE1_DMA_GET,
                                        NV_PFIFO_CACHE1_REF}
      BY SMT DEF Forwarded, NV_USER
    <3>6. /\ NV_PFIFO_MODE \notin Forwarded(NV_USER.DMA_PUT)
          /\ NV_PFIFO_CACHE1_PUSH1 \notin Forwarded(NV_USER.DMA_PUT)
      BY <3>5, SMT DEF NV_PFIFO_MODE, NV_PFIFO_CACHE1_PUSH1, NV_PFIFO_CACHE1_DMA_PUT,
                 NV_PFIFO_CACHE1_DMA_GET, NV_PFIFO_CACHE1_REF
    <3>7. /\ pfifo'[NV_PFIFO_MODE] = 2 ^ Own /\ pfifo'[NV_PFIFO_CACHE1_PUSH1] = Own
          /\ pfifo'[NV_PFIFO_CACHE1_DMA_PUT] = Put /\ pfifo'[NV_PFIFO_CACHE1_DMA_GET] = Put
      BY <3>1, <3>4, <3>5, <3>6 DEF PfifoRegisters
    <3> QED BY <2>1, <3>7
  <2> QED BY <1>0, <1>1, <2>2, <2>3, <2>4, <2>5, <2>6, <2>7, DriverStep DEF TypeInv, TypeOK
<1>2. ASSUME Handler PROVE ChannelInv'
  <2>1. /\ handler \in 1 .. 5 /\ handler' = IF handler = 5 THEN 0 ELSE handler + 1
        /\ HandlerSets(handler, saved)
        /\ UNCHANGED <<pc, saved>>
    BY <1>0, <1>2, HandlerStep
  <2>2. CASE handler = 1
    BY <2>1, <2>2 DEF HandlerSets
  <2>3. CASE handler = 2
    <3>1. /\ pfifo' = [pfifo EXCEPT ![NV_PFIFO_CACHE1_PUSH1] = Other]
      BY <2>1, <2>3 DEF HandlerSets
    <3>2. /\ pfifo'[NV_PFIFO_CACHE1_PUSH1] = Other
          /\ pfifo'[NV_PFIFO_MODE] = pfifo[NV_PFIFO_MODE]
          /\ pfifo'[NV_PFIFO_CACHE1_DMA_PUT] = pfifo[NV_PFIFO_CACHE1_DMA_PUT]
          /\ pfifo'[NV_PFIFO_CACHE1_DMA_GET] = pfifo[NV_PFIFO_CACHE1_DMA_GET]
      BY <1>0, <3>1, RegistersDiffer
    <3> QED BY <2>1, <2>3, <3>2
  <2>4. CASE handler = 3
    <3>1. UserWrite(Other * \h10000 + \h40, 0)
      BY <2>1, <2>4 DEF HandlerSets
    <3>2. pc >= 2 * Settings + 6 => UNCHANGED pfifo
      <4>1. pc >= 2 * Settings + 6 => ~ Active(Other * \h10000 + \h40)
        BY <2>4, ChannelsAre, AreaOf
      <4> QED BY <3>1, <4>1 DEF UserWrite
    <3> QED BY <1>0, <2>1, <2>4, <3>2
  <2>5. CASE handler = 4
    <3>1. /\ pfifo' = [pfifo EXCEPT ![NV_PFIFO_CACHE1_PUSH1] = saved.channel]
      BY <2>1, <2>5 DEF HandlerSets
    <3>2. /\ pfifo'[NV_PFIFO_CACHE1_PUSH1] = saved.channel
          /\ pfifo'[NV_PFIFO_MODE] = pfifo[NV_PFIFO_MODE]
          /\ pfifo'[NV_PFIFO_CACHE1_DMA_PUT] = pfifo[NV_PFIFO_CACHE1_DMA_PUT]
          /\ pfifo'[NV_PFIFO_CACHE1_DMA_GET] = pfifo[NV_PFIFO_CACHE1_DMA_GET]
      BY <1>0, <3>1, RegistersDiffer
    <3> QED BY <2>1, <2>5, <3>2
  <2>6. CASE handler = 5
    BY <2>1, <2>6 DEF HandlerSets
  <2> QED BY <2>1, <2>2, <2>3, <2>4, <2>5, <2>6
<1>3. ASSUME Interrupt PROVE ChannelInv'
  <2>1. /\ handler = 0 /\ handler' = 1
        /\ saved'.channel = pfifo[NV_PFIFO_CACHE1_PUSH1]
        /\ UNCHANGED <<pfifo, pc>>
    BY <1>3, InterruptStep DEF gpuVars
  <2> QED BY <2>1
<1>4. ASSUME Bystander PROVE ChannelInv'
  <2>1. PICK access \in Elsewhere : Write(access.place, access.value)
    BY <1>4 DEF Bystander
  <2>2. Unrelated(access.place) /\ GpuTypeOK
    BY GuestsAssumption DEF TypeInv, TypeOK
  <2>3. /\ pfifo'[NV_PFIFO_MODE] = pfifo[NV_PFIFO_MODE]
        /\ pfifo'[NV_PFIFO_CACHE1_PUSH1] = pfifo[NV_PFIFO_CACHE1_PUSH1]
        /\ GetCurrentChannelId = Own =>
              /\ pfifo'[NV_PFIFO_CACHE1_DMA_PUT] = pfifo[NV_PFIFO_CACHE1_DMA_PUT]
              /\ pfifo'[NV_PFIFO_CACHE1_DMA_GET] = pfifo[NV_PFIFO_CACHE1_DMA_GET]
    BY <2>1, <2>2, UnrelatedWritten
  <2>4. handler = 0 /\ UNCHANGED <<pc, handler, saved>>
    BY <1>4 DEF Bystander
  <2>5. pc >= 2 * Settings + 8 => GetCurrentChannelId = Own
    <3>1. Own % 32 = Own
      BY ChannelsAre, SMT
    <3>2. pc >= 2 * Settings + 8 => pfifo[NV_PFIFO_CACHE1_PUSH1] = Own
      BY <1>0, <2>4
    <3> QED BY <3>1, <3>2, SMT DEF GetCurrentChannelId, LowBits
  <2> QED BY <2>3, <2>4, <2>5
<1>5. CASE retro_run \/ UNCHANGED vars
  BY <1>5 DEF retro_run, vars, gpuVars
<1> QED BY <1>1, <1>2, <1>3, <1>4, <1>5 DEF Next

LEMMA ChannelInit == Init => ChannelInv
<1> SUFFICES ASSUME Init PROVE ChannelInv
  OBVIOUS
<1>1. pc = 1 /\ handler = 0 /\ Settings \in Nat
  BY ModeIs DEF Init
<1> QED BY <1>1 DEF ChannelInv

\* The driver's submission stays in the pointers while the driver waits for it,
\* whichever two channels driver and handler use.
THEOREM SubmissionIsKept == Spec => []SubmissionKept
<1>1. TypeInv /\ ChannelInv => SubmissionKept
  <2> SUFFICES ASSUME TypeInv, ChannelInv, pc > Submitted
               PROVE  {pfifo[NV_PFIFO_CACHE1_DMA_PUT], pfifo[NV_PFIFO_CACHE1_DMA_GET]} = {Put}
    BY DEF SubmissionKept
  <2>1. Submitted = 2 * Settings + 7 /\ pc \in Nat /\ Settings \in Nat
    BY ProgramIs, ModeIs DEF Submitted, Settings, TypeInv, TypeOK
  <2>2. pc >= 2 * Settings + 8
    BY <2>1
  <2> QED BY <2>2 DEF ChannelInv
<1> QED BY <1>1, TypeInit, TypeStep, ChannelInit, ChannelStep, PTL DEF Spec

-----------------------------------------------------------------------------
(* The frames.                                                             *)

\* The settings of register r among the accesses after the first k and up to n.
SettingsOf(r, k, n) ==
  {i \in 1 .. Settings : Mode[i][1] = r /\ k < 2 * i + 2 /\ 2 * i + 2 <= n}

RegistersThen(regs, k, n) ==
  [r \in CioIndexes |-> IF SettingsOf(r, k, n) = {} THEN regs[r]
                        ELSE Mode[Max(SettingsOf(r, k, n))][2]]

StartThen(start, k, n) ==
  IF k <= 2 * Settings + 2 /\ n > 2 * Settings + 2 THEN Start ELSE start

MemoryThen(memory, k, n) ==
  IF k <= 2 * Settings + 3 /\ n > 2 * Settings + 3 THEN [memory EXCEPT ![Start] = Pixel]
  ELSE memory

\* The display that the accesses after the first k and up to n make of these
\* registers and memory, were they the only ones to come.
DisplayThen(regs, start, memory, k, n) ==
  Picture(RegistersThen(regs, k, n), StartThen(start, k, n), MemoryThen(memory, k, n))

LEMMA AfterIsThen ==
  ASSUME NEW n \in Nat
  PROVE  After(n) = DisplayThen(cio, crtc[NV_PCRTC_START], ram, 0, n)
<1> DEFINE settings(r) == {i \in 1 .. Len(Mode) : Mode[i][1] = r /\ Len(Waits) + 2 * i <= n}
           drawn == Len(Waits) + Len(SetMode)
<1>1. Settings \in Nat /\ Len(Mode) = Settings /\ Len(Waits) = 2 /\ drawn = 2 * Settings + 2
  BY ProgramIs, ModeIs DEF Settings
<1>2. ASSUME NEW r PROVE settings(r) = SettingsOf(r, 0, n)
  <2>1. ASSUME NEW i \in 1 .. Settings PROVE Len(Waits) + 2 * i = 2 * i + 2 /\ 0 < 2 * i + 2
    BY <1>1
  <2> QED BY <1>1, <2>1 DEF SettingsOf
<1>3. After(n) = Picture([r \in CioIndexes |-> IF settings(r) = {} THEN cio[r]
                                               ELSE Mode[Max(settings(r))][2]],
                         IF n > drawn THEN Start ELSE crtc[NV_PCRTC_START],
                         IF n > drawn + 1 THEN [ram EXCEPT ![Start] = Pixel] ELSE ram)
  BY DEF After
<1> HIDE DEF settings, drawn
<1>4. [r \in CioIndexes |-> IF settings(r) = {} THEN cio[r] ELSE Mode[Max(settings(r))][2]]
        = RegistersThen(cio, 0, n)
  BY <1>2 DEF RegistersThen
<1>5. (IF n > drawn THEN Start ELSE crtc[NV_PCRTC_START]) = StartThen(crtc[NV_PCRTC_START], 0, n)
  BY <1>1 DEF StartThen
<1>6. (IF n > drawn + 1 THEN [ram EXCEPT ![Start] = Pixel] ELSE ram) = MemoryThen(ram, 0, n)
  <2>1. n > drawn + 1 <=> 0 <= 2 * Settings + 3 /\ n > 2 * Settings + 3
    BY <1>1
  <2> QED BY <2>1 DEF MemoryThen
<1> QED BY <1>3, <1>4, <1>5, <1>6 DEF DisplayThen

\* Of the memory a display shows the start of the frame buffer only.
LEMMA SamePixel ==
  ASSUME NEW regs, NEW k, NEW n, NEW start \in Garbage \cup {Start},
         NEW m1 \in [RamAddresses -> Words], NEW m2 \in [RamAddresses -> Words],
         \A a \in Garbage \cup {Start} : m1[a] = m2[a]
  PROVE  DisplayThen(regs, start, m1, k, n) = DisplayThen(regs, start, m2, k, n)
<1> DEFINE s == StartThen(start, k, n)
<1>1. s \in Garbage \cup {Start}
  BY DEF StartThen
<1>2. s % 2 ^ 27 = s
  <2>1. s \in Words
    BY <1>1, GuestsAssumption
  <2>2. \A word \in Words : word % 2 ^ 27 = word
    BY WordsModulo
  <2> QED BY <2>1, <2>2
<1> HIDE DEF s
<1>3. MemoryThen(m1, k, n)[s] = MemoryThen(m2, k, n)[s]
  BY <1>1 DEF MemoryThen
<1> QED BY <1>2, <1>3 DEF DisplayThen, Picture, s

\* An access that stores nothing the display depends on makes no difference.
LEMMA NothingStored ==
  ASSUME NEW regs, NEW start, NEW memory, NEW k \in Nat, NEW n \in Nat, k < n,
         \A i \in 1 .. Settings : k + 1 # 2 * i + 2,
         k + 1 # 2 * Settings + 3, k + 1 # 2 * Settings + 4
  PROVE  DisplayThen(regs, start, memory, k, n) = DisplayThen(regs, start, memory, k + 1, n)
<1>1. Settings \in Nat
  BY ModeIs
<1>2. ASSUME NEW r PROVE SettingsOf(r, k, n) = SettingsOf(r, k + 1, n)
  <2>1. ASSUME NEW i \in 1 .. Settings PROVE k < 2 * i + 2 <=> k + 1 < 2 * i + 2
    <3>1. k + 1 # 2 * i + 2
      OBVIOUS
    <3> QED BY <1>1, <3>1
  <2> QED BY <2>1 DEF SettingsOf
<1>3. RegistersThen(regs, k, n) = RegistersThen(regs, k + 1, n)
  BY <1>2 DEF RegistersThen
<1>4. StartThen(start, k, n) = StartThen(start, k + 1, n)
  BY <1>1 DEF StartThen
<1>5. MemoryThen(memory, k, n) = MemoryThen(memory, k + 1, n)
  <2>1. k <= 2 * Settings + 3 <=> k + 1 <= 2 * Settings + 3
    BY <1>1
  <2> QED BY <2>1 DEF MemoryThen
<1> QED BY <1>3, <1>4, <1>5 DEF DisplayThen

\* A setting made is the setting still to come.
LEMMA RegisterStored ==
  ASSUME NEW regs \in [CioIndexes -> Words], NEW start, NEW memory,
         NEW i \in 1 .. Settings, NEW k, k = 2 * i + 1, NEW n \in Nat, k < n,
         NEW l, l = k + 1, NEW stored,
         \A r \in CioIndexes : stored[r] = IF r = Mode[i][1] THEN Mode[i][2] ELSE regs[r]
  PROVE  DisplayThen(regs, start, memory, k, n) = DisplayThen(stored, start, memory, l, n)
<1> DEFINE now(r) == SettingsOf(r, k, n)
           later(r) == SettingsOf(r, l, n)
<1>1. /\ Settings \in Nat /\ Mode[i][1] \in CioIndexes
      /\ i \in Nat /\ k = 2 * i + 1 /\ l = 2 * i + 2
  BY ModeIs
<1>2. ASSUME NEW r PROVE now(r) = later(r) \cup {j \in {i} : Mode[j][1] = r}
  <2>1. ASSUME NEW j \in 1 .. Settings
        PROVE  k < 2 * j + 2 <=> l < 2 * j + 2 \/ j = i
    BY <1>1
  <2>2. 2 * i + 2 <= n
    BY <1>1
  <2> QED BY <2>1, <2>2 DEF SettingsOf
<1>3. ASSUME NEW r, NEW j \in later(r) PROVE j > i /\ j \in 1 .. Settings /\ j \in Nat
  BY <1>1 DEF SettingsOf
<1>4. ASSUME NEW r PROVE later(r) \subseteq 1 .. Settings /\ now(r) \subseteq 1 .. Settings
  BY DEF SettingsOf
<1> HIDE DEF now, later
<1>5. ASSUME NEW r \in CioIndexes
      PROVE  (IF now(r) = {} THEN regs[r] ELSE Mode[Max(now(r))][2])
               = IF later(r) = {} THEN stored[r] ELSE Mode[Max(later(r))][2]
  <2>1. CASE Mode[i][1] # r
    <3>1. now(r) = later(r) /\ stored[r] = regs[r]
      BY <1>2, <2>1
    <3> QED BY <3>1
  <2>2. CASE Mode[i][1] = r /\ later(r) = {}
    <3>1. now(r) = {i}
      BY <1>2, <2>2
    <3>2. Max({i}) = i
      BY DEF Max
    <3>3. stored[r] = Mode[i][2]
      BY <2>2
    <3> QED BY <2>2, <3>1, <3>2, <3>3
  <2>3. CASE Mode[i][1] = r /\ later(r) # {}
    <3>1. now(r) = later(r) \cup {i}
      BY <1>2, <2>3
    <3>2. Max(later(r)) \in later(r) /\ \A j \in later(r) : j <= Max(later(r))
      BY <1>1, <1>4, <2>3, LargestOf
    <3>3. now(r) # {}
      BY <3>1
    <3>4. Max(now(r)) \in now(r) /\ \A j \in now(r) : j <= Max(now(r))
      BY <1>1, <1>4, <3>3, LargestOf
    <3>5. Max(now(r)) = Max(later(r))
      <4> DEFINE a == Max(now(r))
                 b == Max(later(r))
      <4>1. b > i /\ b \in Nat /\ b \in now(r) /\ i \in now(r) /\ i \in Nat
        BY <1>3, <3>1, <3>2
      <4>2. a \in Nat
        BY <1>1, <1>4, <3>4
      <4>3. b <= a
        BY <3>4, <4>1
      <4>4. a # i
        BY <4>1, <4>2, <4>3
      <4>5. a <= b
        BY <3>1, <3>2, <3>4, <4>4
      <4> QED BY <4>1, <4>2, <4>3, <4>5
    <3> QED BY <2>3, <3>3, <3>5
  <2> QED BY <2>1, <2>2, <2>3
<1>6. RegistersThen(regs, k, n) = RegistersThen(stored, l, n)
  BY <1>5 DEF RegistersThen, now, later
<1>7. StartThen(start, k, n) = StartThen(start, l, n)
  <2>1. k <= 2 * Settings + 2 /\ l <= 2 * Settings + 2
    BY <1>1
  <2> QED BY <2>1 DEF StartThen
<1>8. MemoryThen(memory, k, n) = MemoryThen(memory, l, n)
  <2>1. k <= 2 * Settings + 3 /\ l <= 2 * Settings + 3
    BY <1>1
  <2> QED BY <2>1 DEF MemoryThen
<1> QED BY <1>6, <1>7, <1>8 DEF DisplayThen

LEMMA StartStored ==
  ASSUME NEW regs, NEW start, NEW memory, NEW n \in Nat, 2 * Settings + 2 < n
  PROVE  DisplayThen(regs, start, memory, 2 * Settings + 2, n) =
           DisplayThen(regs, Start, memory, 2 * Settings + 3, n)
<1>1. Settings \in Nat
  BY ModeIs
<1>2. ASSUME NEW r PROVE SettingsOf(r, 2 * Settings + 2, n) = SettingsOf(r, 2 * Settings + 3, n)
  <2>1. ASSUME NEW i \in 1 .. Settings
        PROVE  ~ 2 * Settings + 2 < 2 * i + 2 /\ ~ 2 * Settings + 3 < 2 * i + 2
    BY <1>1
  <2> QED BY <2>1 DEF SettingsOf
<1>3. RegistersThen(regs, 2 * Settings + 2, n) = RegistersThen(regs, 2 * Settings + 3, n)
  BY <1>2 DEF RegistersThen
<1>4. StartThen(start, 2 * Settings + 2, n) = StartThen(Start, 2 * Settings + 3, n)
  BY <1>1 DEF StartThen
<1>5. MemoryThen(memory, 2 * Settings + 2, n) = MemoryThen(memory, 2 * Settings + 3, n)
  <2>1. 2 * Settings + 2 <= 2 * Settings + 3 /\ 2 * Settings + 3 <= 2 * Settings + 3
    BY <1>1
  <2> QED BY <2>1 DEF MemoryThen
<1> QED BY <1>3, <1>4, <1>5 DEF DisplayThen

LEMMA PixelStored ==
  ASSUME NEW regs, NEW start, NEW memory, NEW n \in Nat, 2 * Settings + 3 < n
  PROVE  DisplayThen(regs, start, memory, 2 * Settings + 3, n) =
           DisplayThen(regs, start, [memory EXCEPT ![Start] = Pixel], 2 * Settings + 4, n)
<1>1. Settings \in Nat
  BY ModeIs
<1>2. ASSUME NEW r PROVE SettingsOf(r, 2 * Settings + 3, n) = SettingsOf(r, 2 * Settings + 4, n)
  <2>1. ASSUME NEW i \in 1 .. Settings
        PROVE  ~ 2 * Settings + 3 < 2 * i + 2 /\ ~ 2 * Settings + 4 < 2 * i + 2
    BY <1>1
  <2> QED BY <2>1 DEF SettingsOf
<1>3. RegistersThen(regs, 2 * Settings + 3, n) = RegistersThen(regs, 2 * Settings + 4, n)
  BY <1>2 DEF RegistersThen
<1>4. StartThen(start, 2 * Settings + 3, n) = StartThen(start, 2 * Settings + 4, n)
  <2>1. ~ 2 * Settings + 3 <= 2 * Settings + 2 /\ ~ 2 * Settings + 4 <= 2 * Settings + 2
    BY <1>1
  <2> QED BY <2>1 DEF StartThen
<1>5. MemoryThen(memory, 2 * Settings + 3, n)
        = MemoryThen([memory EXCEPT ![Start] = Pixel], 2 * Settings + 4, n)
  <2>1. 2 * Settings + 3 <= 2 * Settings + 3 /\ ~ 2 * Settings + 4 <= 2 * Settings + 3
    BY <1>1
  <2> QED BY <2>1 DEF MemoryThen
<1> QED BY <1>3, <1>4, <1>5 DEF DisplayThen

\* With nothing to come, the display is the present one.
LEMMA NothingToCome ==
  ASSUME NEW regs \in [CioIndexes -> Words], NEW start, NEW memory, NEW k \in Nat
  PROVE  DisplayThen(regs, start, memory, k, k) = Picture(regs, start, memory)
<1>1. Settings \in Nat
  BY ModeIs
<1>2. ASSUME NEW r PROVE SettingsOf(r, k, k) = {}
  <2>1. ASSUME NEW i \in 1 .. Settings PROVE ~ (k < 2 * i + 2 /\ 2 * i + 2 <= k)
    BY <1>1
  <2> QED BY <2>1 DEF SettingsOf
<1>3. RegistersThen(regs, k, k) = regs
  BY <1>2 DEF RegistersThen
<1>4. StartThen(start, k, k) = start
  BY <1>1 DEF StartThen
<1>5. MemoryThen(memory, k, k) = memory
  <2>1. ~ (k <= 2 * Settings + 3 /\ k > 2 * Settings + 3)
    BY <1>1
  <2> QED BY <2>1 DEF MemoryThen
<1> QED BY <1>3, <1>4, <1>5 DEF DisplayThen

\* The index register as the driver's code knows it.
DriverIndex == IF handler = 0 THEN index ELSE saved.index

\* What is expected after each of the accesses still to come is what they make
\* of the present display, and the driver's data goes to the register it has
\* picked.
DisplayInv ==
  /\ crtc[NV_PCRTC_START] \in Garbage \cup {Start}
  /\ \A i \in 1 .. Settings : pc = 2 * i + 2 => DriverIndex = Mode[i][1]
  /\ \A n \in Nat : pc - 1 <= n /\ n <= Len(Program) =>
       expected[n] = DisplayThen(cio, crtc[NV_PCRTC_START], ram, pc - 1, n)

FrameInv == frame # NoFrame => \E n \in 0 .. pc - 1 : frame = expected[n]

\* A driver's access leaves fewer accesses to come.
LEMMA DisplayDriver ==
  ASSUME TypeInv, DisplayInv, Driver
  PROVE  DisplayInv'
<1>1. /\ pc \in Nat /\ pc - 1 \in Nat /\ pc # 0 /\ (pc - 1) + 1 = pc /\ Settings \in Nat
  BY ProgramIs, ModeIs DEF TypeInv, TypeOK
<1>2. /\ handler = 0 /\ UNCHANGED <<handler, saved, expected, frame>>
      /\ \/ Polls
         \/ \E i \in 1 .. Settings : PicksRegister(i) \/ SetsRegister(i)
         \/ SetsStart \/ Draws \/ SetsChannelMode \/ SetsChannel \/ Submits
  BY <1>1, DriverStep
<1>3. DriverIndex = index /\ DriverIndex' = index'
  BY <1>2 DEF DriverIndex
<1>4. CASE pc' = pc /\ UNCHANGED gpuVars
  BY <1>2, <1>3, <1>4 DEF DisplayInv, gpuVars
<1>5. ASSUME pc' = pc + 1, NEW n \in Nat, pc' - 1 <= n, n <= Len(Program)
      PROVE  /\ pc - 1 < n
             /\ expected'[n] = DisplayThen(cio, crtc[NV_PCRTC_START], ram, pc - 1, n)
  <2>1. pc - 1 < n /\ pc - 1 <= n
    BY <1>1, <1>5
  <2> QED BY <1>2, <1>5, <2>1 DEF DisplayInv
<1>6. ASSUME pc' = pc + 1, UNCHANGED <<cio, crtc, ram>>,
             \A i \in 1 .. Settings : pc # 2 * i + 2,
             pc # 2 * Settings + 3, pc # 2 * Settings + 4,
             \A i \in 1 .. Settings : pc' = 2 * i + 2 => index' = Mode[i][1]
      PROVE  DisplayInv'
  <2>1. ASSUME NEW n \in Nat, pc' - 1 <= n, n <= Len(Program)
        PROVE  expected'[n] = DisplayThen(cio', crtc'[NV_PCRTC_START], ram', pc' - 1, n)
    <3>1. pc - 1 < n /\ expected'[n] = DisplayThen(cio, crtc[NV_PCRTC_START], ram, pc - 1, n)
      BY <1>5, <1>6, <2>1
    <3>2. DisplayThen(cio, crtc[NV_PCRTC_START], ram, pc - 1, n)
            = DisplayThen(cio, crtc[NV_PCRTC_START], ram, (pc - 1) + 1, n)
      BY <1>1, <1>6, <3>1, NothingStored
    <3>3. (pc - 1) + 1 = pc' - 1
      BY <1>1, <1>6
    <3> QED BY <1>6, <3>1, <3>2, <3>3
  <2>2. crtc'[NV_PCRTC_START] \in Garbage \cup {Start}
    BY <1>6 DEF DisplayInv
  <2> QED BY <1>3, <1>6, <2>1, <2>2 DEF DisplayInv
<1>7. CASE Polls
  <2>1. CASE pc' = pc
    BY <1>4, <1>7, <2>1 DEF Polls
  <2>2. CASE pc' = pc + 1
    <3>1. pc \in {1, 2, 2 * Settings + 8} /\ UNCHANGED <<cio, crtc, ram>>
      BY <1>7 DEF Polls, gpuVars
    <3>2. \A i \in 1 .. Settings : pc # 2 * i + 2 /\ pc' # 2 * i + 2
      BY <1>1, <2>2, <3>1
    <3>3. pc # 2 * Settings + 3 /\ pc # 2 * Settings + 4
      BY <1>1, <3>1
    <3> QED BY <1>6, <2>2, <3>1, <3>2, <3>3
  <2> QED BY <1>7, <2>1, <2>2 DEF Polls
<1>8. ASSUME NEW i \in 1 .. Settings, PicksRegister(i) PROVE DisplayInv'
  <2>1. /\ pc = 2 * i + 1 /\ pc' = pc + 1 /\ index' = Mode[i][1]
        /\ UNCHANGED <<cio, crtc, ram>>
    BY <1>8 DEF PicksRegister
  <2>2. \A j \in 1 .. Settings : pc # 2 * j + 2 /\ (pc' = 2 * j + 2 => j = i)
    BY <1>1, <2>1
  <2>3. pc # 2 * Settings + 3 /\ pc # 2 * Settings + 4
    BY <1>1, <2>1
  <2> QED BY <1>6, <2>1, <2>2, <2>3
<1>9. ASSUME NEW i \in 1 .. Settings, SetsRegister(i) PROVE DisplayInv'
  <2>1. /\ pc = 2 * i + 2 /\ pc' = pc + 1 /\ pc - 1 = 2 * i + 1 /\ pc' - 1 = 2 * i + 2
        /\ cio' = [cio EXCEPT ![index] = Mode[i][2]]
        /\ UNCHANGED <<crtc, index, ram>>
    BY <1>1, <1>9 DEF SetsRegister
  <2>2. index = Mode[i][1] /\ crtc'[NV_PCRTC_START] \in Garbage \cup {Start}
    BY <1>3, <2>1 DEF DisplayInv
  <2>3. \A j \in 1 .. Settings : pc' # 2 * j + 2
    BY <1>1, <2>1
  <2>4. cio \in [CioIndexes -> Words]
    BY DEF TypeInv, TypeOK, GpuTypeOK
  <2>5. ASSUME NEW n \in Nat, pc' - 1 <= n, n <= Len(Program)
        PROVE  expected'[n] = DisplayThen(cio', crtc'[NV_PCRTC_START], ram', pc' - 1, n)
    <3>1. pc - 1 < n /\ expected'[n] = DisplayThen(cio, crtc[NV_PCRTC_START], ram, pc - 1, n)
      BY <1>5, <2>1, <2>5
    <3>2. \A r \in CioIndexes : cio'[r] = IF r = Mode[i][1] THEN Mode[i][2] ELSE cio[r]
      BY <2>1, <2>2, <2>4
    <3>3. pc - 1 = 2 * i + 1 /\ pc - 1 < n /\ pc' - 1 = (pc - 1) + 1
      BY <1>1, <2>1, <3>1
    <3>4. DisplayThen(cio, crtc[NV_PCRTC_START], ram, pc - 1, n)
            = DisplayThen(cio', crtc[NV_PCRTC_START], ram, pc' - 1, n)
      BY <2>4, <3>2, <3>3, RegisterStored
    <3> QED BY <2>1, <3>1, <3>4
  <2> QED BY <2>2, <2>3, <2>5 DEF DisplayInv
<1>10. CASE SetsStart
  <2>1. /\ pc = 2 * Settings + 3 /\ pc' = pc + 1
        /\ pc - 1 = 2 * Settings + 2 /\ pc' - 1 = 2 * Settings + 3
        /\ crtc' = [crtc EXCEPT ![NV_PCRTC_START] = Start]
        /\ UNCHANGED <<cio, ram>>
    BY <1>1, <1>10 DEF SetsStart
  <2>2. crtc'[NV_PCRTC_START] = Start
    <3>1. NV_PCRTC_START \in CrtcAddresses
      BY GuestsAssumption
    <3> QED BY <2>1, <3>1 DEF TypeInv, TypeOK, GpuTypeOK
  <2>3. \A j \in 1 .. Settings : pc' # 2 * j + 2
    BY <1>1, <2>1
  <2>4. ASSUME NEW n \in Nat, pc' - 1 <= n, n <= Len(Program)
        PROVE  expected'[n] = DisplayThen(cio', crtc'[NV_PCRTC_START], ram', pc' - 1, n)
    <3>1. pc - 1 < n /\ expected'[n] = DisplayThen(cio, crtc[NV_PCRTC_START], ram, pc - 1, n)
      BY <1>5, <2>1, <2>4
    <3>2. 2 * Settings + 2 < n
      BY <2>1, <3>1
    <3>3. DisplayThen(cio, crtc[NV_PCRTC_START], ram, 2 * Settings + 2, n)
            = DisplayThen(cio, Start, ram, 2 * Settings + 3, n)
      BY <3>2, StartStored
    <3> QED BY <2>1, <2>2, <3>1, <3>3
  <2> QED BY <2>2, <2>3, <2>4 DEF DisplayInv
<1>11. CASE Draws
  <2>1. /\ pc = 2 * Settings + 4 /\ pc' = pc + 1
        /\ pc - 1 = 2 * Settings + 3 /\ pc' - 1 = 2 * Settings + 4
        /\ ram' = [ram EXCEPT ![Start] = Pixel]
        /\ UNCHANGED <<cio, crtc>>
    BY <1>1, <1>11 DEF Draws
  <2>2. crtc'[NV_PCRTC_START] \in Garbage \cup {Start}
    BY <2>1 DEF DisplayInv
  <2>3. \A j \in 1 .. Settings : pc' # 2 * j + 2
    BY <1>1, <2>1
  <2>4. ASSUME NEW n \in Nat, pc' - 1 <= n, n <= Len(Program)
        PROVE  expected'[n] = DisplayThen(cio', crtc'[NV_PCRTC_START], ram', pc' - 1, n)
    <3>1. pc - 1 < n /\ expected'[n] = DisplayThen(cio, crtc[NV_PCRTC_START], ram, pc - 1, n)
      BY <1>5, <2>1, <2>4
    <3>2. 2 * Settings + 3 < n
      BY <2>1, <3>1
    <3>3. DisplayThen(cio, crtc[NV_PCRTC_START], ram, 2 * Settings + 3, n)
            = DisplayThen(cio, crtc[NV_PCRTC_START], [ram EXCEPT ![Start] = Pixel],
                          2 * Settings + 4, n)
      BY <3>2, PixelStored
    <3> QED BY <2>1, <3>1, <3>3
  <2> QED BY <2>2, <2>3, <2>4 DEF DisplayInv
<1>12. CASE SetsChannelMode \/ SetsChannel \/ Submits
  <2>1. /\ pc \in {2 * Settings + 5, 2 * Settings + 6, 2 * Settings + 7} /\ pc' = pc + 1
        /\ UNCHANGED <<cio, crtc, ram>>
    BY <1>12 DEF SetsChannelMode, SetsChannel, Submits, UserWrite
  <2>2. \A j \in 1 .. Settings : pc # 2 * j + 2 /\ pc' # 2 * j + 2
    BY <1>1, <2>1
  <2>3. pc # 2 * Settings + 3 /\ pc # 2 * Settings + 4
    BY <1>1, <2>1
  <2> QED BY <1>6, <2>1, <2>2, <2>3
<1> QED BY <1>2, <1>7, <1>8, <1>9, <1>10, <1>11, <1>12

LEMMA DisplayStep ==
  ASSUME TypeInv, DisplayInv, [Next]_vars
  PROVE  DisplayInv'
<1>1. ASSUME UNCHANGED <<pc, cio, crtc, ram, expected>>, DriverIndex' = DriverIndex
      PROVE  DisplayInv'
  BY <1>1 DEF DisplayInv
<1>2. CASE Driver
  BY <1>2, DisplayDriver
<1>3. CASE Handler
  <2>1. /\ handler \in 1 .. 5 /\ handler' = IF handler = 5 THEN 0 ELSE handler + 1
        /\ HandlerSets(handler, saved)
        /\ UNCHANGED <<pc, saved, expected>>
    BY <1>3, HandlerStep DEF TypeInv
  <2>2. UNCHANGED <<cio, crtc, ram>>
    <3>1. CASE handler = 3
      <4>1. UserWrite(Other * \h10000 + \h40, 0)
        BY <2>1, <3>1 DEF HandlerSets
      <4> QED BY <4>1 DEF UserWrite
    <3>2. CASE handler = 1
      BY <2>1, <3>2 DEF HandlerSets
    <3>3. CASE handler = 2
      BY <2>1, <3>3 DEF HandlerSets
    <3>4. CASE handler = 4
      BY <2>1, <3>4 DEF HandlerSets
    <3>5. CASE handler = 5
      BY <2>1, <3>5 DEF HandlerSets
    <3> QED BY <2>1, <3>1, <3>2, <3>3, <3>4, <3>5
  <2>3. CASE handler = 5
    <3>1. saved.index % 65536 = saved.index
      BY IndexFits, 0 % 65536 = 0 DEF TypeInv
    <3>2. index' = saved.index /\ handler' = 0
      BY <2>1, <2>3, <3>1 DEF HandlerSets
    <3> QED BY <1>1, <2>1, <2>2, <2>3, <3>2 DEF DriverIndex
  <2>4. CASE handler # 5
    <3>1. handler # 0 /\ handler' # 0
      BY <2>1, <2>4
    <3> QED BY <1>1, <2>1, <2>2, <3>1 DEF DriverIndex
  <2> QED BY <2>3, <2>4
<1>4. CASE Interrupt
  <2>1. /\ handler = 0 /\ handler' = 1 /\ saved'.index = index
        /\ UNCHANGED <<pc, cio, crtc, ram, expected>>
    BY <1>4, InterruptStep DEF gpuVars
  <2> QED BY <1>1, <2>1 DEF DriverIndex
<1>5. CASE Bystander
  <2>1. PICK access \in Elsewhere : Write(access.place, access.value)
    BY <1>5 DEF Bystander
  <2>2. Unrelated(access.place) /\ GpuTypeOK
    BY GuestsAssumption DEF TypeInv, TypeOK
  <2>3. UNCHANGED <<crtc, cio, index>> /\ \A a \in Garbage \cup {Start} : ram'[a] = ram[a]
    BY <2>1, <2>2, UnrelatedWritten
  <2>4. UNCHANGED <<pc, handler, saved, expected>>
    BY <1>5 DEF Bystander
  <2>5. ram \in [RamAddresses -> Words] /\ ram' \in [RamAddresses -> Words]
    BY TypeStep DEF TypeInv, TypeOK, GpuTypeOK
  <2>6. crtc[NV_PCRTC_START] \in Garbage \cup {Start}
    BY DEF DisplayInv
  <2>7. ASSUME NEW n
        PROVE  DisplayThen(cio, crtc[NV_PCRTC_START], ram, pc - 1, n)
                 = DisplayThen(cio, crtc[NV_PCRTC_START], ram', pc - 1, n)
    BY <2>3, <2>5, <2>6, SamePixel
  <2> QED BY <2>3, <2>4, <2>6, <2>7 DEF DisplayInv, DriverIndex
<1>6. CASE retro_run \/ UNCHANGED vars
  BY <1>1, <1>6 DEF retro_run, vars, gpuVars, DriverIndex
<1> QED BY <1>2, <1>3, <1>4, <1>5, <1>6 DEF Next

LEMMA DisplayInit == Init => DisplayInv
<1> SUFFICES ASSUME Init PROVE DisplayInv
  OBVIOUS
<1>1. pc = 1 /\ pc - 1 = 0 /\ Settings \in Nat /\ Len(Program) \in Nat
  BY ProgramIs, ModeIs DEF Init
<1>2. crtc[NV_PCRTC_START] \in Garbage
  <2>1. NV_PCRTC_START \in CrtcAddresses
    BY GuestsAssumption
  <2> QED BY <2>1 DEF Init, GpuInit, Filled
<1>3. \A i \in 1 .. Settings : pc # 2 * i + 2
  BY <1>1
<1>4. ASSUME NEW n \in Nat, n <= Len(Program)
      PROVE  expected[n] = DisplayThen(cio, crtc[NV_PCRTC_START], ram, pc - 1, n)
  <2>1. expected[n] = After(n)
    <3>1. n \in 0 .. Len(Program)
      BY <1>1, <1>4
    <3> QED BY <3>1 DEF Init
  <2> QED BY <1>1, <2>1, AfterIsThen
<1> QED BY <1>2, <1>3, <1>4 DEF DisplayInv

LEMMA FrameStep ==
  ASSUME TypeInv, DisplayInv, FrameInv, [Next]_vars
  PROVE  FrameInv'
<1>1. pc \in Nat /\ pc - 1 \in 0 .. pc - 1 /\ pc - 1 \in Nat /\ pc - 1 <= Len(Program)
  BY ProgramIs DEF TypeInv, TypeOK
<1>2. CASE retro_run
  <2>1. frame' = Picture(cio, crtc[NV_PCRTC_START], ram) /\ UNCHANGED <<pc, expected>>
    BY <1>2 DEF retro_run
  <2>2. expected[pc - 1] = DisplayThen(cio, crtc[NV_PCRTC_START], ram, pc - 1, pc - 1)
    BY <1>1 DEF DisplayInv
  <2>3. DisplayThen(cio, crtc[NV_PCRTC_START], ram, pc - 1, pc - 1)
          = Picture(cio, crtc[NV_PCRTC_START], ram)
    BY <1>1, NothingToCome DEF TypeInv, TypeOK, GpuTypeOK
  <2> QED BY <1>1, <2>1, <2>2, <2>3 DEF FrameInv
<1>3. CASE ~ retro_run
  <2>1. UNCHANGED <<expected, frame>>
    BY <1>3 DEF Next, Driver, Interrupt, Handler, Bystander, vars
  <2>2. pc' \in Nat /\ pc <= pc'
    <3>1. CASE Driver
      BY <1>1, <3>1, pc' \in {pc, pc + 1} DEF Driver
    <3>2. CASE ~ Driver
      BY <1>1, <1>3, <3>2 DEF Next, Interrupt, Handler, Bystander, vars
    <3> QED BY <3>1, <3>2
  <2>3. ASSUME NEW n \in 0 .. pc - 1 PROVE n \in 0 .. pc' - 1
    <3>1. \A a, b \in Nat : a <= b => \A m \in 0 .. a - 1 : m \in 0 .. b - 1
      OBVIOUS
    <3>2. pc \in Nat /\ pc' \in Nat /\ pc <= pc'
      BY <1>1, <2>2
    <3> QED BY <3>1, <3>2
  <2> QED BY <2>1, <2>3 DEF FrameInv
<1> QED BY <1>2, <1>3

\* A frame, whenever retro_run presents it, shows the display as it was after
\* some number of the driver's accesses, for every mode, whatever the memory
\* held and whatever handler and other code do between any two accesses.
THEOREM FramesShowPrefixes == Spec => []FrameOfPrefix
<1>1. Init => FrameInv
  BY DEF Init, FrameInv
<1>2. FrameInv => FrameOfPrefix
  BY DEF FrameInv, FrameOfPrefix
<1> QED BY <1>1, <1>2, TypeInit, TypeStep, DisplayInit, DisplayStep, FrameStep, PTL DEF Spec

-----------------------------------------------------------------------------
(* The mode.                                                               *)

\* The picture depends on the registers it is made of only.
LEMMA PictureOf ==
  ASSUME NEW regs, NEW others, \A r \in PictureRegisters : regs[r] = others[r]
  PROVE  /\ GetDisplayWidth(regs) = GetDisplayWidth(others)
         /\ GetDisplayHeight(regs) = GetDisplayHeight(others)
         /\ GetDisplayBpp(regs) = GetDisplayBpp(others)
<1>1. /\ regs[NV_CIO.OFFSET] = others[NV_CIO.OFFSET] /\ regs[NV_CIO.RPC0] = others[NV_CIO.RPC0]
      /\ regs[NV_CIO.LSR] = others[NV_CIO.LSR] /\ regs[NV_CIO.VDE] = others[NV_CIO.VDE]
      /\ regs[NV_CIO.OVL] = others[NV_CIO.OVL] /\ regs[NV_CIO.PIXEL] = others[NV_CIO.PIXEL]
  BY DEF PictureRegisters
<1>2. Line(regs) = Line(others)
  BY <1>1 DEF Line
<1>3. LastLine(regs) = LastLine(others)
  BY <1>1 DEF LastLine
<1>4. GetDisplayBpp(regs) = GetDisplayBpp(others)
  BY <1>1, Zenon DEF GetDisplayBpp
<1> QED BY <1>2, <1>3, <1>4, Zenon DEF GetDisplayWidth, GetDisplayHeight

\* Whatever the registers and the memory held, all accesses until the mode is
\* set and drawn make the frame of that mode of them.
LEMMA ModeMakesFrame ==
  ASSUME Sets640by480, NEW memory \in [RamAddresses -> Words], NEW start,
         NEW n \in Nat, 2 * Settings + 4 <= n
  PROVE  DisplayThen(cio, start, memory, 0, n) = Frame640by480
<1> DEFINE regs == RegistersThen(cio, 0, n)
           set  == [r \in PictureRegisters |-> LastSetting(r)]
<1>1. Settings \in Nat
  BY ModeIs
<1>2. ASSUME NEW r \in PictureRegisters
      PROVE  regs[r] = set[r]
  <2>1. r \in CioIndexes
    BY GuestsAssumption DEF PictureRegisters
  <2>2. PICK j \in 1 .. Settings : r = Mode[j][1]
    BY DEF Sets640by480, Settings
  <2>3. ASSUME NEW i \in 1 .. Settings PROVE 0 < 2 * i + 2 /\ 2 * i + 2 <= n
    BY <1>1
  <2>4. SettingsOf(r, 0, n) = {i \in 1 .. Settings : Mode[i][1] = r}
    BY <2>3 DEF SettingsOf
  <2>5. SettingsOf(r, 0, n) # {}
    BY <2>2, <2>4
  <2>6. regs[r] = LastSetting(r)
    BY <2>1, <2>4, <2>5 DEF RegistersThen, LastSetting, Settings
  <2> QED BY <2>6
<1>3. /\ GetDisplayWidth(regs) = 640 /\ GetDisplayHeight(regs) = 480
      /\ GetDisplayBpp(regs) = 4
  <2>1. /\ GetDisplayWidth(set) = 640 /\ GetDisplayHeight(set) = 480
        /\ GetDisplayBpp(set) = 4
    BY DEF Sets640by480
  <2> HIDE DEF regs, set
  <2> QED BY <1>2, <2>1, PictureOf
<1>4. StartThen(start, 0, n) = Start
  <2>1. 0 <= 2 * Settings + 2 /\ n > 2 * Settings + 2
    BY <1>1
  <2> QED BY <2>1 DEF StartThen
<1>5. MemoryThen(memory, 0, n)[Start] = Pixel
  <2>1. 0 <= 2 * Settings + 3 /\ n > 2 * Settings + 3
    BY <1>1
  <2> QED BY <2>1, DrawingAssumption DEF MemoryThen
<1>6. Start % 2 ^ 27 = Start
  <2>1. \A word \in Words : word % 2 ^ 27 = word
    BY WordsModulo
  <2> QED BY <2>1, GuestsAssumption
<1> HIDE DEF regs
<1>7. GetDisplayWidth(regs) * GetDisplayBpp(regs) = 2560
  BY <1>3
<1>8. Picture(regs, Start, MemoryThen(memory, 0, n)) = Frame640by480
  BY <1>3, <1>5, <1>6, <1>7 DEF Picture, Frame640by480
<1> QED BY <1>4, <1>8 DEF DisplayThen, regs

\* What is expected once the mode is set and drawn.
ModeInv ==
  \A n \in Nat : ModeSet <= n /\ n <= Len(Program) => expected[n] = Frame640by480

LEMMA ModeSetIs == ModeSet = 2 * Settings + 4
  BY ProgramIs, ModeIs DEF ModeSet, Settings

\* A driver that sets a mode of 640 by 480 pixels of 4 bytes, by any number of
\* settings in any order, is shown that mode from then on, whatever the
\* registers held and whoever else runs before retro_run presents the display.
THEOREM ModeIsShown ==
  ASSUME Sets640by480
  PROVE  Spec => ModeShown
<1>1. Init => ModeInv
  <2> SUFFICES ASSUME Init, NEW n \in Nat, ModeSet <= n, n <= Len(Program)
               PROVE  expected[n] = Frame640by480
    BY DEF ModeInv
  <2>1. expected[n] = After(n)
    <3>1. Len(Program) \in Nat
      BY ProgramIs
    <3>2. n \in 0 .. Len(Program)
      BY <3>1
    <3> QED BY <3>2 DEF Init
  <2>2. ram \in [RamAddresses -> Words]
    BY TypeInit DEF TypeInv, TypeOK, GpuTypeOK
  <2> QED BY <2>1, <2>2, AfterIsThen, ModeSetIs, ModeMakesFrame
<1>2. ModeInv /\ [Next]_vars => ModeInv'
  <2>1. [Next]_vars => UNCHANGED expected
    BY DEF Next, Driver, Interrupt, Handler, Bystander, retro_run, vars
  <2> QED BY <2>1 DEF ModeInv
<1>3. TypeInv /\ DisplayInv /\ ModeInv =>
        [retro_run /\ pc > ModeSet => frame' = Frame640by480]_vars
  <2> SUFFICES ASSUME TypeInv, DisplayInv, ModeInv, retro_run, pc > ModeSet
               PROVE  frame' = Frame640by480
    OBVIOUS
  <2>1. pc - 1 \in Nat /\ pc - 1 <= Len(Program) /\ ModeSet <= pc - 1
    BY ProgramIs, ModeSetIs, ModeIs DEF TypeInv, TypeOK
  <2>2. expected[pc - 1] = DisplayThen(cio, crtc[NV_PCRTC_START], ram, pc - 1, pc - 1)
    BY <2>1 DEF DisplayInv
  <2>3. DisplayThen(cio, crtc[NV_PCRTC_START], ram, pc - 1, pc - 1)
          = Picture(cio, crtc[NV_PCRTC_START], ram)
    BY <2>1, NothingToCome DEF TypeInv, TypeOK, GpuTypeOK
  <2>4. expected[pc - 1] = Frame640by480
    BY <2>1 DEF ModeInv
  <2> QED BY <2>2, <2>3, <2>4 DEF retro_run
<1> QED BY <1>1, <1>2, <1>3, TypeInit, TypeStep, DisplayInit, DisplayStep, PTL
        DEF Spec, ModeShown

=============================================================================
