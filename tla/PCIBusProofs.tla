---------------------------- MODULE PCIBusProofs ----------------------------
(***************************************************************************)
(* Routing for every set of BARs, whatever their number and sizes: what    *)
(* the firmware has assigned is decoded by its owner alone.                *)
(***************************************************************************)
EXTENDS PCIBus, Integers, TLAPS

Reset(b) == Bars[b].initial .. Bars[b].initial + Bars[b].size - 1

\* A BAR that is not in use has its address after reset, or the one that writing
\* all ones has left.
Parked == \A b \in BarIds \ InUse : address[b] \in {Bars[b].initial, Top - Bars[b].size}

\* One in use has the base it was given, in a range of the pool.
Placed == \A b \in InUse : address[b] = assigned[b] /\ Range(b) \subseteq Pool

\* It shares no address of its space with another, nor with the fixed ports.
Apart ==
  /\ \A b, c \in InUse :
       b # c /\ Bars[b].space = Bars[c].space => Range(b) \cap Range(c) = {}
  /\ \A b \in InUse : Bars[b].space = "IO" => Range(b) \cap FixedPorts = {}

Inv == TypeOK /\ Parked /\ Placed /\ Apart

-----------------------------------------------------------------------------
(* Remainders.                                                             *)

LEMMA ModSmall ==
  ASSUME NEW n \in Nat, NEW m \in Nat, n < m
  PROVE  n % m = n
OBVIOUS

LEMMA ModLe ==
  ASSUME NEW n \in Nat, NEW m \in Nat \ {0}
  PROVE  n % m \in 0 .. n
OBVIOUS

\* The number before a multiple has the greatest remainder.
LEMMA ModLast ==
  ASSUME NEW t \in Nat \ {0}, NEW s \in Nat \ {0}, t % s = 0
  PROVE  (t - 1) % s = s - 1
<1> DEFINE q == t \div s
           x == t - 1
           p == x \div s
           r == x % s
<1>1. q \in Nat /\ t = s * q
  OBVIOUS
<1>2. x \in Nat /\ p \in Nat /\ r \in 0 .. s - 1 /\ x = s * p + r
  OBVIOUS
<1> HIDE DEF q, p, r
<1>3. s * (q - p) = r + 1
  BY <1>1, <1>2
<1>4. q - p \in Int /\ q - p >= 1
  <2>1. SUFFICES ASSUME q - p <= 0 PROVE FALSE
    BY <1>1, <1>2
  <2>2. s * (q - p) <= 0
    BY <2>1, <1>1, <1>2
  <2> QED BY <2>2, <1>3, <1>2
<1>5. q - p < 2
  <2>1. SUFFICES ASSUME q - p >= 2 PROVE FALSE
    BY <1>1, <1>2
  <2>2. s * (q - p) >= s * 2
    BY <2>1, <1>1, <1>2
  <2> QED BY <2>2, <1>3, <1>2
<1>6. r = s - 1
  <2>1. q - p = 1
    BY <1>4, <1>5
  <2> QED BY <2>1, <1>3, <1>2
<1> QED BY <1>6 DEF r

\* A multiple of s below its multiple t leaves room for s.
LEMMA Room ==
  ASSUME NEW t \in Nat \ {0}, NEW s \in Nat \ {0}, t % s = 0
  PROVE  s <= t
OBVIOUS

-----------------------------------------------------------------------------
(* The BARs.                                                               *)

LEMMA BarFacts ==
  ASSUME NEW b \in BarIds
  PROVE  /\ Bars[b].space \in {"IO", "Memory"}
         /\ Bars[b].size \in Nat \ {0} /\ Bars[b].initial \in Nat
         /\ Bars[b].initial < Top /\ Top \in Nat \ {0}
         /\ Top % Bars[b].size = 0
         /\ Bars[b].size <= Top
         /\ Reset(b) \cap Pool = {}
<1> DEFINE BarType == [space : {"IO", "Memory"}, size : Nat \ {0}, initial : Nat]
<1>1. Bars[b] \in BarType
  <2>1. Bars \in Seq(BarType)
    BY PCIBusAssumption
  <2> HIDE DEF BarType
  <2> QED BY <2>1 DEF BarIds
<1>2. /\ Bars[b].initial < Top /\ Top \in Nat /\ Top % Bars[b].size = 0
      /\ Reset(b) \cap Pool = {}
  BY PCIBusAssumption, PoolAssumption DEF Reset
<1> QED BY <1>1, <1>2, Room

\* Writing all ones leaves the address that tells the size.
LEMMA AllOnes ==
  ASSUME NEW b \in BarIds
  PROVE  (Top - 1) - ((Top - 1) % Bars[b].size) = Top - Bars[b].size
<1>1. (Top - 1) % Bars[b].size = Bars[b].size - 1
  BY BarFacts, ModLast
<1> QED BY <1>1, BarFacts

\* A BAR in use claims its range and no more.
LEMMA ClaimsRange ==
  ASSUME Inv, NEW b \in InUse, NEW a \in Nat
  PROVE  Claims(b, a) <=> a \in Range(b)
<1> DEFINE base == address[b]
           size == Bars[b].size
<1>1. b \in BarIds /\ base \in Nat /\ size \in Nat \ {0} /\ Top \in Nat
  <2>1. b \in BarIds
    BY DEF InUse
  <2>2. address[b] \in 0 .. Top - 1
    BY <2>1 DEF Inv, TypeOK
  <2> QED BY <2>1, <2>2, BarFacts
<1>2. base + size - 1 \in Pool
  <2>1. Range(b) = base .. base + size - 1
    BY DEF Inv, Placed, Range
  <2>2. base + size - 1 \in Range(b)
    BY <1>1, <2>1
  <2> QED BY <2>2 DEF Inv, Placed
<1>3. base + size < Top
  <2>1. base + size - 1 \in 0 .. Top - 1 /\ base + size - 1 # Top - 1
    BY <1>2, PCIBusAssumption, PoolAssumption
  <2> HIDE DEF base, size
  <2> QED BY <1>1, <2>1
<1>4. (base + size) % Top = base + size
  <2> HIDE DEF base, size
  <2>1. base + size \in Nat
    BY <1>1
  <2> QED BY <1>1, <1>3, <2>1, ModSmall
<1>5. Range(b) = base .. base + size - 1
  BY DEF Inv, Placed, Range
<1> QED BY <1>1, <1>4, <1>5 DEF Claims

\* One that is not in use claims nothing of the pool.
LEMMA ParkedClaimsNothing ==
  ASSUME Inv, NEW b \in BarIds \ InUse, NEW a \in Pool
  PROVE  ~ Claims(b, a)
<1> SUFFICES ASSUME Claims(b, a) PROVE FALSE
  OBVIOUS
<1>1. a \in Nat
  BY PCIBusAssumption
<1>2. CASE address[b] = Bars[b].initial
  <2> DEFINE end == Bars[b].initial + Bars[b].size
  <2>1. end \in Nat /\ end % Top \in 0 .. end
    BY BarFacts, ModLe
  <2> HIDE DEF end
  <2>2. a >= Bars[b].initial /\ a < end % Top
    BY <1>2 DEF Claims, end
  <2>3. a < end
    BY <1>1, <2>1, <2>2
  <2>4. a \in Reset(b)
    BY <1>1, <2>2, <2>3, BarFacts DEF Reset, end
  <2> QED BY <2>4, BarFacts
<1>3. CASE address[b] = Top - Bars[b].size
  <2>1. address[b] + Bars[b].size = Top
    BY <1>3, BarFacts
  <2>2. Top % Top = 0
    BY BarFacts
  <2> QED BY <1>1, <2>1, <2>2 DEF Claims
<1> QED BY <1>2, <1>3 DEF Inv, Parked

\* So the search of the bus finds the owner of an assigned range.
LEMMA InvRoutes == Inv => RoutedToOwner
<1> SUFFICES ASSUME Inv, NEW b \in InUse, NEW a \in Range(b)
             PROVE  Route(Bars[b].space, a) = b
  BY DEF RoutedToOwner
<1> DEFINE claiming == {c \in BarIds : Bars[c].space = Bars[b].space /\ Claims(c, a)}
<1>1. a \in Pool /\ a \in Nat /\ b \in BarIds
  <2>1. a \in Pool
    BY DEF Inv, Placed
  <2>2. b \in BarIds
    BY DEF InUse
  <2> QED BY <2>1, <2>2, PCIBusAssumption
<1>2. ~ (Bars[b].space = "IO" /\ a \in FixedPorts)
  BY DEF Inv, Apart
<1>3. b \in claiming
  BY <1>1, ClaimsRange
<1>4. ASSUME NEW c \in claiming PROVE c = b
  <2>1. c \in InUse
    BY <1>1, ParkedClaimsNothing
  <2>2. a \in Range(c)
    BY <1>1, <2>1, ClaimsRange
  <2> QED BY <2>1, <2>2 DEF Inv, Apart
<1>5. claiming = {b}
  BY <1>3, <1>4
<1>6. (CHOOSE c \in claiming : \A d \in claiming : c <= d) = b
  BY <1>1, <1>5 DEF BarIds
<1> QED BY <1>2, <1>5, <1>6 DEF Route

\* And the firmware reads the size that was registered.
LEMMA InvSizes == Inv => SizesRight
<1> SUFFICES ASSUME Inv, NEW b \in BarIds \ InUse, address[b] # Bars[b].initial
             PROVE  SizeRead(b) = Bars[b].size
  BY DEF SizesRight
<1>1. address[b] = Top - Bars[b].size
  BY DEF Inv, Parked
<1> QED BY <1>1, BarFacts DEF SizeRead

-----------------------------------------------------------------------------
\* Sizing a BAR parks it.
LEMMA SizingKeeps == Inv /\ SizeBar => Inv'
<1> SUFFICES ASSUME Inv, SizeBar PROVE Inv'
  OBVIOUS
<1> DEFINE s == selected
<1>1. s \in BarIds /\ selected' = s
  BY DEF SizeBar
<1>2. address' = [address EXCEPT ![s] = Top - Bars[s].size]
  BY <1>1, AllOnes DEF SizeBar, IOWriteConfigData, WriteConfig
<1>3. assigned' = [assigned EXCEPT ![s] = Unassigned]
  BY DEF SizeBar
<1>4. InUse' = InUse \ {s}
  BY <1>1, <1>3 DEF Inv, TypeOK, InUse
<1>5. \A b \in InUse' : /\ b \in InUse /\ address'[b] = address[b]
                       /\ assigned'[b] = assigned[b] /\ Range(b)' = Range(b)
  <2> SUFFICES ASSUME NEW b \in InUse'
               PROVE  /\ b \in InUse /\ address'[b] = address[b]
                      /\ assigned'[b] = assigned[b] /\ Range(b)' = Range(b)
    OBVIOUS
  <2>1. b \in InUse /\ b # s /\ b \in BarIds
    BY <1>4 DEF InUse
  <2>2. address'[b] = address[b] /\ assigned'[b] = assigned[b]
    BY <1>2, <1>3, <2>1 DEF Inv, TypeOK
  <2> QED BY <2>1, <2>2 DEF Range
<1>6. TypeOK'
  <2>1. Top - Bars[s].size \in 0 .. Top - 1
    BY <1>1, BarFacts
  <2> QED BY <1>1, <1>2, <1>3, <2>1 DEF Inv, TypeOK
<1>7. Parked'
  <2> SUFFICES ASSUME NEW b \in BarIds, b \notin InUse'
               PROVE  address'[b] \in {Bars[b].initial, Top - Bars[b].size}
    BY DEF Parked
  <2>1. CASE b = s
    BY <1>2, <2>1 DEF Inv, TypeOK
  <2>2. CASE b # s
    BY <1>2, <1>4, <2>2 DEF Inv, TypeOK, Parked
  <2> QED BY <2>1, <2>2
<1>8. Placed'
  BY <1>5 DEF Inv, Placed
<1>9. Apart'
  BY <1>5 DEF Inv, Apart
<1> QED BY <1>6, <1>7, <1>8, <1>9 DEF Inv

\* Assigning one places it in a free range.
LEMMA AssigningKeeps ==
  ASSUME Inv, NEW base \in Pool, AssignBar(base)
  PROVE  Inv'
<1> PICK s \in BarIds : s = selected
  BY DEF AssignBar
<1> DEFINE range == base .. base + Bars[s].size - 1
<1>1. s \in BarIds /\ selected' = s /\ s \notin InUse
  BY DEF AssignBar, InUse
<1>2. SizeRead(s) = Bars[s].size
  BY <1>1, InvSizes DEF AssignBar, SizesRight
<1>3. /\ base % Bars[s].size = 0 /\ range \subseteq Pool
      /\ Bars[s].space = "IO" => range \cap FixedPorts = {}
      /\ \A b \in InUse : Bars[b].space = Bars[s].space => range \cap Range(b) = {}
  BY <1>2 DEF AssignBar
<1>4. address' = [address EXCEPT ![s] = base]
  <2>1. base - (base % Bars[s].size) = base
    BY <1>3, PCIBusAssumption
  <2> QED BY <1>1, <2>1 DEF AssignBar, IOWriteConfigData, WriteConfig
<1>5. assigned' = [assigned EXCEPT ![s] = base]
  BY DEF AssignBar
<1>6. base \in 0 .. Top - 1 /\ base # Unassigned
  BY PCIBusAssumption DEF Unassigned
<1>7. InUse' = InUse \cup {s}
  BY <1>1, <1>5, <1>6 DEF Inv, TypeOK, InUse
<1>8. Range(s)' = range /\ address'[s] = base /\ assigned'[s] = base
  BY <1>1, <1>4, <1>5 DEF Inv, TypeOK, Range
<1>9. \A b \in InUse : /\ b # s /\ b \in BarIds /\ address'[b] = address[b]
                      /\ assigned'[b] = assigned[b] /\ Range(b)' = Range(b)
  <2> SUFFICES ASSUME NEW b \in InUse
               PROVE  /\ b # s /\ b \in BarIds /\ address'[b] = address[b]
                      /\ assigned'[b] = assigned[b] /\ Range(b)' = Range(b)
    OBVIOUS
  <2>1. b # s /\ b \in BarIds
    BY <1>1 DEF InUse
  <2>2. address'[b] = address[b] /\ assigned'[b] = assigned[b]
    BY <1>4, <1>5, <2>1 DEF Inv, TypeOK
  <2> QED BY <2>1, <2>2 DEF Range
<1> HIDE DEF range
<1>10. TypeOK'
  BY <1>1, <1>4, <1>5, <1>6 DEF Inv, TypeOK
<1>11. Parked'
  BY <1>4, <1>7 DEF Inv, TypeOK, Parked
<1>12. Placed'
  BY <1>3, <1>7, <1>8, <1>9 DEF Inv, Placed
<1>13. Apart'
  <2>1. ASSUME NEW b \in InUse', NEW c \in InUse', b # c, Bars[b].space = Bars[c].space
        PROVE  Range(b)' \cap Range(c)' = {}
    <3>1. CASE b # s /\ c # s
      BY <1>7, <1>9, <2>1, <3>1 DEF Inv, Apart
    <3>2. CASE b = s
      BY <1>3, <1>7, <1>8, <1>9, <2>1, <3>2
    <3>3. CASE c = s
      BY <1>3, <1>7, <1>8, <1>9, <2>1, <3>3
    <3> QED BY <3>1, <3>2, <3>3
  <2>2. ASSUME NEW b \in InUse', Bars[b].space = "IO"
        PROVE  Range(b)' \cap FixedPorts = {}
    BY <1>3, <1>7, <1>8, <1>9, <2>2 DEF Inv, Apart
  <2> QED BY <2>1, <2>2 DEF Apart
<1> QED BY <1>10, <1>11, <1>12, <1>13 DEF Inv

LEMMA InvariantHolds == Spec => []Inv
<1>1. Init => Inv
  <2> SUFFICES ASSUME Init PROVE Inv
    OBVIOUS
  <2>1. InUse = {}
    BY DEF Init, InUse
  <2>2. TypeOK
    BY BarFacts DEF Init, TypeOK
  <2> QED BY <2>1, <2>2 DEF Init, Inv, Parked, Placed, Apart
<1>2. Inv /\ [Next]_vars => Inv'
  <2> SUFFICES ASSUME Inv, [Next]_vars PROVE Inv'
    OBVIOUS
  <2>1. ASSUME UNCHANGED <<address, assigned>>, selected' \in BarIds \cup {0} PROVE Inv'
    BY <2>1 DEF Inv, TypeOK, Parked, Placed, Apart, InUse, Range
  <2>2. ASSUME NEW b \in BarIds \cup {0}, IOWriteConfigAddress(b) PROVE Inv'
    BY <2>1, <2>2 DEF IOWriteConfigAddress
  <2>3. CASE UNCHANGED vars
    BY <2>1, <2>3 DEF vars, Inv, TypeOK
  <2> QED BY <2>2, <2>3, SizingKeeps, AssigningKeeps DEF Next
<1> QED BY <1>1, <1>2, PTL DEF Spec

\* Every access to an assigned range reaches its owner, for any number of BARs
\* and wherever the others are parked, sized or moved.
THEOREM AccessesReachTheirBAR == Spec => []RoutedToOwner
BY InvariantHolds, InvRoutes, PTL

\* A BAR that reads back all ones tells the size it was registered with.
THEOREM SizesAreRight == Spec => []SizesRight
BY InvariantHolds, InvSizes, PTL
=============================================================================
