--------------------------- MODULE AddrMap_proofs ---------------------------
(***************************************************************************)
(* The memory map for all parameters that do not make it collide: what     *)
(* each decoder finds, and from that where an access arrives.              *)
(***************************************************************************)
EXTENDS ArchiMap, SequenceTheorems, TLAPS

-----------------------------------------------------------------------------
(***************************************************************************)
(* The decoder.                                                            *)
(***************************************************************************)
\* No rule matches: the default.
LEMMA DecodeDefault ==
  ASSUME NEW map, NEW default, NEW a, Matches(map, a) = {}
  PROVE  AddrDecode(map, default, a) = default
BY DEF AddrDecode

\* One rule matches: its index.
LEMMA DecodeOne ==
  ASSUME NEW map, NEW default, NEW a, NEW k \in Nat, Matches(map, a) = {k}
  PROVE  AddrDecode(map, default, a) = map[k].idx
<1>1. (CHOOSE m \in {k} : \A l \in {k} : l <= m) = k
  OBVIOUS
<1> QED  BY <1>1 DEF AddrDecode

\* Two banks do not overlap.
LEMMA BankOrder ==
  ASSUME NEW i \in Nat, NEW j \in Nat, i < j
  PROVE  (i + 1) * BankNumBytes <= j * BankNumBytes
BY AddrMapAssumption

\* A bank lies in the memory.
LEMMA BankEnd ==
  ASSUME NEW i \in 0 .. NumBanks - 1
  PROVE  /\ i * BankNumBytes \in Nat
         /\ (i + 1) * BankNumBytes \in Nat
         /\ (i + 1) * BankNumBytes = i * BankNumBytes + BankNumBytes
         /\ (i + 1) * BankNumBytes <= NumBanks * BankNumBytes
<1>1. i \in Nat /\ i + 1 \in Nat /\ i + 1 <= NumBanks
  BY AddrMapAssumption
<1>2. CASE i + 1 = NumBanks
  BY <1>1, <1>2, AddrMapAssumption
<1>3. CASE i + 1 < NumBanks
  <2>1. (i + 2) * BankNumBytes <= NumBanks * BankNumBytes
    BY <1>1, <1>3, AddrMapAssumption, BankOrder
  <2> QED  BY <1>1, <2>1, AddrMapAssumption
<1> QED  BY <1>1, <1>2, <1>3, AddrMapAssumption

\* Types of what is computed from the parameters.
LEMMA MemTypes ==
  /\ MemEnd \in Nat /\ MemOffset <= MemEnd /\ MemEnd < AddrRange
  /\ PeriphBaseAddr \in Nat
  /\ NumRules \in Nat /\ NumSubordinates \in Nat
<1>1. NumBanks * BankNumBytes \in Nat
  BY AddrMapAssumption
<1> QED  BY <1>1, AddrMapAssumption DEF MemEnd, PeriphBaseAddr, NumRules, NumSubordinates

\* The banks fill the memory.
LEMMA BanksFill ==
  ASSUME NEW a \in Nat, InMem(a)
  PROVE  \E i \in 0 .. NumBanks - 1 : InBank(a, i)
<1> DEFINE x == a - BaseAddr - MemOffset
           i == x \div BankNumBytes
<1>1. x \in Nat /\ x < NumBanks * BankNumBytes
  BY AddrMapAssumption DEF InMem, Between, MemEnd
<1>2. i \in Nat /\ i * BankNumBytes <= x /\ x < (i + 1) * BankNumBytes
  BY <1>1, AddrMapAssumption
<1>3. i < NumBanks
  <2>1. CASE NumBanks <= i
    <3>1. NumBanks * BankNumBytes <= i * BankNumBytes
      BY <1>2, <2>1, AddrMapAssumption
    <3>2. i * BankNumBytes \in Nat /\ NumBanks * BankNumBytes \in Nat
      BY <1>2, AddrMapAssumption
    <3> HIDE DEF x, i
    <3> QED  BY <1>1, <1>2, <3>1, <3>2
  <2> QED  BY <2>1, <1>2, AddrMapAssumption
<1>4. i * BankNumBytes \in Nat /\ (i + 1) * BankNumBytes \in Nat
  BY <1>2, AddrMapAssumption
<1>5. InBank(a, i)
  <2>1. a = BaseAddr + MemOffset + x
    BY AddrMapAssumption
  <2> HIDE DEF x, i
  <2> QED  BY <1>1, <1>2, <1>4, <2>1, AddrMapAssumption DEF InBank, Between
<1> QED  BY <1>2, <1>3, <1>5, AddrMapAssumption

-----------------------------------------------------------------------------
(***************************************************************************)
(* The main crossbar.                                                      *)
(***************************************************************************)
LEMMA MainRules ==
  /\ DOMAIN MainAddrMap = 0 .. NumRules - 1
  /\ \A k \in 0 .. NumBanks - 1 :
       k \in DOMAIN MainAddrMap /\ MainAddrMap[k] = BankRule(k)
  /\ MemOffset # 0 =>
       /\ NumBanks \in DOMAIN MainAddrMap
       /\ MainAddrMap[NumBanks] =
            Rule(NumSubordinates - 1, BaseAddr, BaseAddr + MemOffset)
       /\ NumRules - 1 = NumBanks + 1
  /\ MemOffset = 0 => NumRules - 1 = NumBanks
  /\ NumRules - 1 \in DOMAIN MainAddrMap
  /\ MainAddrMap[NumRules - 1] =
       Rule(NumSubordinates - 1, BaseAddr + MemEnd, BaseAddr + AddrRange)
BY AddrMapAssumption, MemTypes DEF MainAddrMap, NumRules

\* Which rules match, by region.
LEMMA MainMatches ==
  ASSUME NEW a \in Nat
  PROVE  \A k \in DOMAIN MainAddrMap :
           k \in Matches(MainAddrMap, a) <=>
             \/ k \in 0 .. NumBanks - 1 /\ InBank(a, k)
             \/ MemOffset # 0 /\ k = NumBanks /\ Between(a, BaseAddr, BaseAddr + MemOffset)
             \/ k = NumRules - 1 /\ Between(a, BaseAddr + MemEnd, BaseAddr + AddrRange)
<1> SUFFICES ASSUME NEW k \in DOMAIN MainAddrMap
             PROVE  k \in Matches(MainAddrMap, a) <=>
               \/ k \in 0 .. NumBanks - 1 /\ InBank(a, k)
               \/ MemOffset # 0 /\ k = NumBanks /\ Between(a, BaseAddr, BaseAddr + MemOffset)
               \/ k = NumRules - 1 /\ Between(a, BaseAddr + MemEnd, BaseAddr + AddrRange)
  OBVIOUS
<1>0. k \in Nat /\ NumBanks \in Nat /\ NumRules \in Nat /\ k <= NumRules - 1
  BY MainRules, MemTypes, AddrMapAssumption
<1>1. k \in Matches(MainAddrMap, a) <=>
        Between(a, MainAddrMap[k].start_addr, MainAddrMap[k].end_addr)
  BY DEF Matches, Between
<1>2. CASE k \in 0 .. NumBanks - 1
  <2>1. MainAddrMap[k] = BankRule(k)
    BY <1>2, MainRules
  <2>2. k # NumBanks /\ k # NumRules - 1
    BY <1>0, <1>2, MainRules
  <2> QED  BY <1>1, <1>2, <2>1, <2>2 DEF InBank, BankRule, Rule
<1>3. CASE MemOffset # 0 /\ k = NumBanks
  <2>1. MainAddrMap[k] = Rule(NumSubordinates - 1, BaseAddr, BaseAddr + MemOffset)
    BY <1>3, MainRules
  <2>2. k \notin 0 .. NumBanks - 1 /\ k # NumRules - 1
    BY <1>0, <1>3, MainRules
  <2> QED  BY <1>1, <1>3, <2>1, <2>2 DEF Rule
<1>4. CASE k = NumRules - 1
  <2>1. MainAddrMap[k] =
          Rule(NumSubordinates - 1, BaseAddr + MemEnd, BaseAddr + AddrRange)
    BY <1>4, MainRules
  <2>2. k \notin 0 .. NumBanks - 1 /\ ~(MemOffset # 0 /\ k = NumBanks)
    BY <1>0, <1>4, MainRules
  <2> QED  BY <1>1, <1>4, <2>1, <2>2 DEF Rule
<1>5. k \in 0 .. NumBanks - 1 \/ (MemOffset # 0 /\ k = NumBanks) \/ k = NumRules - 1
  BY <1>0, MainRules
<1> QED  BY <1>2, <1>3, <1>4, <1>5

\* Where the main crossbar sends an access.
LEMMA MainDecode ==
  ASSUME NEW a \in Nat
  PROVE  /\ ~InIsland(a) => AddrDecode(MainAddrMap, 0, a) = 0
         /\ \A i \in 0 .. NumBanks - 1 :
              InBank(a, i) => AddrDecode(MainAddrMap, 0, a) = i + 1
         /\ InIsland(a) /\ ~InMem(a) =>
              AddrDecode(MainAddrMap, 0, a) = NumSubordinates - 1
<1> DEFINE M == Matches(MainAddrMap, a)
<1>0. /\ M \subseteq DOMAIN MainAddrMap
      /\ BaseAddr \in Nat /\ MemOffset \in Nat /\ AddrRange \in Nat /\ NumBanks \in Nat
  BY AddrMapAssumption DEF Matches
<1>1. \A i \in 0 .. NumBanks - 1 : InBank(a, i) => InMem(a)
  BY <1>0, BankEnd, MemTypes DEF InBank, InMem, Between, MemEnd
<1>2. ASSUME ~InIsland(a)
      PROVE  AddrDecode(MainAddrMap, 0, a) = 0
  <2>1. ~InMem(a) /\ ~Between(a, BaseAddr, BaseAddr + MemOffset)
        /\ ~Between(a, BaseAddr + MemEnd, BaseAddr + AddrRange)
    BY <1>0, <1>2, MemTypes DEF InIsland, InMem, Between
  <2>2. M = {}
    BY <1>0, <1>1, <2>1, MainMatches
  <2> QED  BY <2>2, DecodeDefault
<1>3. ASSUME NEW i \in 0 .. NumBanks - 1, InBank(a, i)
      PROVE  AddrDecode(MainAddrMap, 0, a) = i + 1
  <2>1. InMem(a)
    BY <1>1, <1>3
  <2>2. ~Between(a, BaseAddr, BaseAddr + MemOffset)
        /\ ~Between(a, BaseAddr + MemEnd, BaseAddr + AddrRange)
    BY <1>0, <2>1, MemTypes DEF InMem, Between
  <2>3. ASSUME NEW j \in 0 .. NumBanks - 1, InBank(a, j)
        PROVE  j = i
    <3>1. CASE i < j
      <4>1. (i + 1) * BankNumBytes <= j * BankNumBytes
        BY <3>1, <1>0, BankOrder
      <4> QED  BY <1>0, <1>3, <2>3, <4>1, BankEnd DEF InBank, Between
    <3>2. CASE j < i
      <4>1. (j + 1) * BankNumBytes <= i * BankNumBytes
        BY <3>2, <1>0, BankOrder
      <4> QED  BY <1>0, <1>3, <2>3, <4>1, BankEnd DEF InBank, Between
    <3> QED  BY <1>0, <3>1, <3>2
  <2>4. i \in DOMAIN MainAddrMap /\ MainAddrMap[i] = BankRule(i)
    BY MainRules
  <2>5. M = {i}
    <3>1. i \in M
      BY <1>3, <2>4, MainMatches
    <3>2. ASSUME NEW k \in M PROVE k = i
      BY <1>0, <2>2, <2>3, <3>2, MainMatches
    <3> QED  BY <3>1, <3>2
  <2>6. AddrDecode(MainAddrMap, 0, a) = MainAddrMap[i].idx
    BY <2>5, <1>0, DecodeOne
  <2> QED  BY <2>4, <2>6 DEF BankRule, Rule
<1>4. ASSUME InIsland(a), ~InMem(a)
      PROVE  AddrDecode(MainAddrMap, 0, a) = NumSubordinates - 1
  <2>1. \A i \in 0 .. NumBanks - 1 : ~InBank(a, i)
    BY <1>1, <1>4
  <2>2. CASE Between(a, BaseAddr, BaseAddr + MemOffset)
    <3>1. MemOffset # 0 /\ ~Between(a, BaseAddr + MemEnd, BaseAddr + AddrRange)
      BY <1>0, <2>2, MemTypes DEF Between
    <3>2. NumBanks \in M
      BY <2>2, <3>1, MainMatches, MainRules
    <3>3. ASSUME NEW k \in M PROVE k = NumBanks
      BY <1>0, <2>1, <3>1, <3>3, MainMatches
    <3>4. M = {NumBanks}
      BY <3>2, <3>3
    <3>5. AddrDecode(MainAddrMap, 0, a) = MainAddrMap[NumBanks].idx
      BY <3>4, <1>0, DecodeOne
    <3> QED  BY <3>1, <3>5, MainRules DEF Rule
  <2>3. CASE Between(a, BaseAddr + MemEnd, BaseAddr + AddrRange)
    <3>1. ~Between(a, BaseAddr, BaseAddr + MemOffset)
      BY <1>0, <2>3, MemTypes DEF Between
    <3>2. NumRules - 1 \in M
      BY <2>3, MainMatches, MainRules
    <3>3. ASSUME NEW k \in M PROVE k = NumRules - 1
      BY <1>0, <2>1, <3>1, <3>3, MainMatches
    <3>4. M = {NumRules - 1}
      BY <3>2, <3>3
    <3>5. AddrDecode(MainAddrMap, 0, a) = MainAddrMap[NumRules - 1].idx
      BY <3>4, MainRules, DecodeOne
    <3> QED  BY <3>5, MainRules DEF Rule
  <2> QED  BY <1>0, <1>4, <2>2, <2>3, MemTypes DEF InIsland, InMem, Between
<1> QED  BY <1>2, <1>3, <1>4
-----------------------------------------------------------------------------
(***************************************************************************)
(* The demuxes of the peripherals and of the core-local registers.         *)
(***************************************************************************)
\* The rules of the peripherals, by index.
LEMMA PeriphTable ==
  LET s == IF Simulation THEN 1 ELSE 0 IN
  /\ DOMAIN PeriphAddrMap = 0 .. 6 + s
  /\ Simulation => PeriphAddrMap[0] = Window(8, 24576, 4096)
  /\ PeriphAddrMap[s] = Window(7, 53248, 143360)
  /\ PeriphAddrMap[s + 1] = Window(6, 32768, 20480)
  /\ PeriphAddrMap[s + 2] = Window(5, 16384, 64)
  /\ PeriphAddrMap[s + 3] = Window(4, 12288, 4096)
  /\ PeriphAddrMap[s + 4] = Window(3, 8192, 4096)
  /\ PeriphAddrMap[s + 5] = Window(2, 4096, 4096)
  /\ PeriphAddrMap[s + 6] = Window(1, 0, 4096)
<1>1. /\ Len(PeriphRules) = 7
      /\ PeriphRules[1] = Window(1, 0, 4096)
      /\ PeriphRules[2] = Window(2, 4096, 4096)
      /\ PeriphRules[3] = Window(3, 8192, 4096)
      /\ PeriphRules[4] = Window(4, 12288, 4096)
      /\ PeriphRules[5] = Window(5, 16384, 64)
      /\ PeriphRules[6] = Window(6, 32768, 20480)
      /\ PeriphRules[7] = Window(7, 53248, 143360)
  BY DEF PeriphRules, CoreLocalAddrOffset, CoreLocalAddrRange
<1>2. CASE Simulation
  <2> DEFINE q == Append(PeriphRules, Window(8, 24576, 4096))
  <2>1. /\ Len(q) = 8 /\ q[8] = Window(8, 24576, 4096)
        /\ \A k \in 1 .. 7 : q[k] = PeriphRules[k]
    <3> DEFINE S == [idx : Nat, start_addr : Nat, end_addr : Nat]
    <3>1. PeriphBaseAddr \in Nat
      BY AddrMapAssumption DEF PeriphBaseAddr
    <3>2. \A i \in Nat, o \in Nat, r \in Nat : Window(i, o, r) \in S
      BY <3>1 DEF Window, Rule
    <3> HIDE DEF S
    <3>3. PeriphRules \in Seq(S)
      BY <3>2 DEF PeriphRules, CoreLocalAddrOffset, CoreLocalAddrRange
    <3>4. Window(8, 24576, 4096) \in S
      BY <3>2
    <3>5. /\ Len(q) = Len(PeriphRules) + 1
          /\ \A k \in 1 .. Len(PeriphRules) + 1 :
               q[k] = IF k <= Len(PeriphRules) THEN PeriphRules[k] ELSE Window(8, 24576, 4096)
      BY <3>3, <3>4, AppendProperties
    <3> HIDE DEF q
    <3> QED  BY <1>1, <3>5
  <2>2. PeriphAddrMap = [k \in 0 .. 7 |-> q[8 - k]]
    <3>1. PeriphAddrMap = Literal(q)
      BY <1>2 DEF PeriphAddrMap
    <3>2. Len(q) = 8
      BY <2>1
    <3> HIDE DEF q
    <3> QED  BY <3>2, <3>1 DEF Literal
  <2> HIDE DEF q
  <2> QED  BY <1>1, <1>2, <2>1, <2>2
<1>3. CASE ~Simulation
  <2>1. PeriphAddrMap = [k \in 0 .. 6 |-> PeriphRules[7 - k]]
    <3>1. PeriphAddrMap = Literal(PeriphRules)
      BY <1>3 DEF PeriphAddrMap
    <3> QED  BY <1>1, <3>1 DEF Literal
  <2> QED  BY <1>1, <1>3, <2>1
<1> QED BY <1>2, <1>3

\* The rules of the core-local registers.
LEMMA ClTable ==
  /\ DOMAIN ClRegbusAddrMapRule = 0 .. 4
  /\ ClRegbusAddrMapRule[4] = Window(0, 53248, 4096)
  /\ ClRegbusAddrMapRule[3] = Window(1, 65536, 65536)
  /\ ClRegbusAddrMapRule[2] = Window(2, 131072, 16)
  /\ ClRegbusAddrMapRule[1] = Window(3, 131088, 32)
  /\ ClRegbusAddrMapRule[0] = Window(4, 131104, 48)
BY DEF ClRegbusAddrMapRule, Literal, CoreLocalAddrOffset

\* The decoder finds the rule that alone holds the address.
LEMMA DecodeOnly ==
  ASSUME NEW map, NEW default, NEW a, DOMAIN map \subseteq Nat, NEW k \in DOMAIN map,
         Between(a, map[k].start_addr, map[k].end_addr),
         \A l \in DOMAIN map : Between(a, map[l].start_addr, map[l].end_addr) => l = k
  PROVE  AddrDecode(map, default, a) = map[k].idx
<1>1. Matches(map, a) = {k}
  BY DEF Matches, Between
<1> QED  BY <1>1, DecodeOne

\* The decoder finds nothing: the default.
LEMMA DecodeNone ==
  ASSUME NEW map, NEW default, NEW a,
         \A l \in DOMAIN map : ~Between(a, map[l].start_addr, map[l].end_addr)
  PROVE  AddrDecode(map, default, a) = default
<1>1. Matches(map, a) = {}
  BY DEF Matches, Between
<1> QED  BY <1>1, DecodeDefault

\* What the demux of the peripherals selects.
PeriphIdx(a) ==
  IF InPeriph(a, 0, 4096) THEN 1
  ELSE IF InPeriph(a, 4096, 8192) THEN 2
  ELSE IF InPeriph(a, 8192, 12288) THEN 3
  ELSE IF InPeriph(a, 12288, 16384) THEN 4
  ELSE IF InPeriph(a, 16384, 16448) THEN 5
  ELSE IF InPeriph(a, 32768, 53248) THEN 6
  ELSE IF InPeriph(a, 53248, 196608) THEN 7
  ELSE IF Simulation /\ InPeriph(a, 24576, 28672) THEN 8
  ELSE 0

\* The demux of the peripherals, rule by rule.
LEMMA PeriphDecode ==
  ASSUME NEW a \in Nat
  PROVE  AddrDecode(PeriphAddrMap, 0, a) = PeriphIdx(a)
<1> DEFINE s == IF Simulation THEN 1 ELSE 0
           P == PeriphBaseAddr
           In(k) == Between(a, PeriphAddrMap[k].start_addr, PeriphAddrMap[k].end_addr)
<1>0. P \in Nat /\ s \in {0, 1} /\ (s = 1 <=> Simulation)
  BY MemTypes, AddrMapAssumption
<1>1. /\ DOMAIN PeriphAddrMap = 0 .. 6 + s
      /\ Simulation => PeriphAddrMap[0].idx = 8 /\ (In(0) <=> InPeriph(a, 24576, 28672))
      /\ PeriphAddrMap[s].idx = 7 /\ (In(s) <=> InPeriph(a, 53248, 196608))
      /\ PeriphAddrMap[s + 1].idx = 6 /\ (In(s + 1) <=> InPeriph(a, 32768, 53248))
      /\ PeriphAddrMap[s + 2].idx = 5 /\ (In(s + 2) <=> InPeriph(a, 16384, 16448))
      /\ PeriphAddrMap[s + 3].idx = 4 /\ (In(s + 3) <=> InPeriph(a, 12288, 16384))
      /\ PeriphAddrMap[s + 4].idx = 3 /\ (In(s + 4) <=> InPeriph(a, 8192, 12288))
      /\ PeriphAddrMap[s + 5].idx = 2 /\ (In(s + 5) <=> InPeriph(a, 4096, 8192))
      /\ PeriphAddrMap[s + 6].idx = 1 /\ (In(s + 6) <=> InPeriph(a, 0, 4096))
  BY <1>0, PeriphTable DEF Window, Rule, Between, InPeriph
<1>2. \A k \in DOMAIN PeriphAddrMap :
        \/ k = s \/ k = s + 1 \/ k = s + 2 \/ k = s + 3 \/ k = s + 4 \/ k = s + 5
        \/ k = s + 6 \/ (Simulation /\ k = 0)
  BY <1>0, <1>1
<1>3. {s, s + 1, s + 2, s + 3, s + 4, s + 5, s + 6} \subseteq DOMAIN PeriphAddrMap
  BY <1>0, <1>1
<1>4. DOMAIN PeriphAddrMap \subseteq Nat
  BY <1>0, <1>1
<1>5. \A k \in DOMAIN PeriphAddrMap, l \in DOMAIN PeriphAddrMap : In(k) /\ In(l) => k = l
  <2> SUFFICES ASSUME NEW k \in DOMAIN PeriphAddrMap, NEW l \in DOMAIN PeriphAddrMap,
                      In(k), In(l)
               PROVE  k = l
    OBVIOUS
  <2> HIDE DEF s, In
  <2>1. CASE k = s
    BY <1>0, <1>1, <1>2, <2>1 DEF InPeriph, Between
  <2>2. CASE k = s + 1
    BY <1>0, <1>1, <1>2, <2>2 DEF InPeriph, Between
  <2>3. CASE k = s + 2
    BY <1>0, <1>1, <1>2, <2>3 DEF InPeriph, Between
  <2>4. CASE k = s + 3
    BY <1>0, <1>1, <1>2, <2>4 DEF InPeriph, Between
  <2>5. CASE k = s + 4
    BY <1>0, <1>1, <1>2, <2>5 DEF InPeriph, Between
  <2>6. CASE k = s + 5
    BY <1>0, <1>1, <1>2, <2>6 DEF InPeriph, Between
  <2>7. CASE k = s + 6
    BY <1>0, <1>1, <1>2, <2>7 DEF InPeriph, Between
  <2>8. CASE Simulation /\ k = 0
    BY <1>0, <1>1, <1>2, <2>8 DEF InPeriph, Between
  <2> QED  BY <1>2, <2>1, <2>2, <2>3, <2>4, <2>5, <2>6, <2>7, <2>8
<1>6. \A k \in DOMAIN PeriphAddrMap :
        In(k) => AddrDecode(PeriphAddrMap, 0, a) = PeriphAddrMap[k].idx
  BY <1>4, <1>5, DecodeOnly
<1>7. (\A k \in DOMAIN PeriphAddrMap : ~In(k)) => AddrDecode(PeriphAddrMap, 0, a) = 0
  BY DecodeNone
<1>8. \A k \in DOMAIN PeriphAddrMap : In(k) => PeriphAddrMap[k].idx = PeriphIdx(a)
  <2> SUFFICES ASSUME NEW k \in DOMAIN PeriphAddrMap, In(k)
               PROVE  PeriphAddrMap[k].idx = PeriphIdx(a)
    OBVIOUS
  <2> HIDE DEF s, In
  <2> QED  BY <1>0, <1>1, <1>2 DEF PeriphIdx, InPeriph, Between
<1>9. (\A k \in DOMAIN PeriphAddrMap : ~In(k)) => PeriphIdx(a) = 0
  <2> HAVE \A k \in DOMAIN PeriphAddrMap : ~In(k)
  <2>1. Simulation => 0 \in DOMAIN PeriphAddrMap
    BY <1>0, <1>1
  <2> HIDE DEF s, In
  <2>2. /\ ~In(s) /\ ~In(s + 1) /\ ~In(s + 2) /\ ~In(s + 3) /\ ~In(s + 4) /\ ~In(s + 5)
        /\ ~In(s + 6) /\ (Simulation => ~In(0))
    BY <1>3, <2>1
  <2>3. /\ ~InPeriph(a, 53248, 196608) /\ ~InPeriph(a, 32768, 53248)
        /\ ~InPeriph(a, 16384, 16448) /\ ~InPeriph(a, 12288, 16384)
        /\ ~InPeriph(a, 8192, 12288) /\ ~InPeriph(a, 4096, 8192) /\ ~InPeriph(a, 0, 4096)
    BY <1>1, <2>2
  <2>4. ~(Simulation /\ InPeriph(a, 24576, 28672))
    BY <1>1, <2>2
  <2> QED  BY <2>3, <2>4 DEF PeriphIdx
<1> QED  BY <1>6, <1>7, <1>8, <1>9

\* What the demux of the core-local registers selects.
ClIdx(a) ==
  IF InPeriph(a, 65536, 131072) THEN 1
  ELSE IF InPeriph(a, 131072, 131088) THEN 2
  ELSE IF InPeriph(a, 131088, 131120) THEN 3
  ELSE IF InPeriph(a, 131120, 131152) THEN 4
  ELSE 0

\* The demux of the core-local registers: the data bus registers win over the first
\* half of the shadow bus registers.
LEMMA ClDecode ==
  ASSUME NEW a \in Nat
  PROVE  AddrDecode(ClRegbusAddrMapRule, 0, a) = ClIdx(a)
<1> DEFINE R == ClRegbusAddrMapRule
           In(k) == Between(a, R[k].start_addr, R[k].end_addr)
<1>0. PeriphBaseAddr \in Nat
  BY MemTypes
<1>1. /\ DOMAIN R = {0, 1, 2, 3, 4}
      /\ R[4].idx = 0 /\ (In(4) <=> InPeriph(a, 53248, 57344))
      /\ R[3].idx = 1 /\ (In(3) <=> InPeriph(a, 65536, 131072))
      /\ R[2].idx = 2 /\ (In(2) <=> InPeriph(a, 131072, 131088))
      /\ R[1].idx = 3 /\ (In(1) <=> InPeriph(a, 131088, 131120))
      /\ R[0].idx = 4 /\ (In(0) <=> InPeriph(a, 131104, 131152))
  BY <1>0, ClTable DEF Window, Rule, Between, InPeriph
<1> HIDE DEF R
<1>2. \A k \in DOMAIN R : In(k) /\ (\A l \in DOMAIN R : In(l) => l = k) =>
        AddrDecode(R, 0, a) = R[k].idx
  BY <1>1, DecodeOnly
<1>3. CASE InPeriph(a, 131104, 131120)
  <2>1. Matches(R, a) = {0, 1}
    BY <1>0, <1>1, <1>3 DEF Matches, InPeriph, Between
  <2>2. (CHOOSE k \in {0, 1} : \A l \in {0, 1} : l <= k) = 1
    OBVIOUS
  <2>3. AddrDecode(R, 0, a) = R[1].idx
    BY <2>1, <2>2 DEF AddrDecode
  <2> QED  BY <1>0, <1>1, <1>3, <2>3 DEF R, ClIdx, InPeriph, Between
<1>4. CASE ~InPeriph(a, 131104, 131120) /\ \E k \in DOMAIN R : In(k)
  <2> PICK k \in DOMAIN R : In(k)
    BY <1>4
  <2>1. \A l \in DOMAIN R : In(l) => l = k
    BY <1>0, <1>1, <1>4 DEF InPeriph, Between
  <2>2. AddrDecode(R, 0, a) = R[k].idx
    BY <1>2, <2>1
  <2>3. R[k].idx = ClIdx(a)
    BY <1>0, <1>1, <1>4 DEF ClIdx, InPeriph, Between
  <2> QED  BY <2>2, <2>3 DEF R
<1>5. CASE \A k \in DOMAIN R : ~In(k)
  <2>1. AddrDecode(R, 0, a) = 0
    BY <1>5, DecodeNone
  <2>2. ClIdx(a) = 0
    BY <1>0, <1>1, <1>5 DEF ClIdx, InPeriph, Between
  <2> QED  BY <2>1, <2>2 DEF R
<1> QED  BY <1>3, <1>4, <1>5

-----------------------------------------------------------------------------
(***************************************************************************)
(* The walk of an access through the decoders.                             *)
(***************************************************************************)
\* The subordinate behind the demux of the peripherals.
PeriphUnit(a) ==
  LET name == Periphs[PeriphIdx(a) + 1] IN
  Unit(IF name = "global_prepend" THEN "error" ELSE name)

\* Beyond its type: which addresses a decoder sees, and where an access ends.
OnItsWay ==
  /\ at = Unit("periph") => InIsland(addr) /\ ~InMem(addr)
  /\ at = Unit("core_local") => InPeriph(addr, 53248, 196608)
AtItsEnd ==
  Arrived =>
    /\ ~InIsland(addr) => at = Unit("axi_output")
    /\ \A i \in 0 .. NumBanks - 1 : InBank(addr, i) => at = Bank(i)
    /\ InIsland(addr) /\ ~InMem(addr) /\ ~InPeriph(addr, 53248, 196608) =>
         at = PeriphUnit(addr)
    /\ InPeriph(addr, 53248, 196608) => at = ClPeriph(ClIdx(addr))
Inv == TypeOK /\ OnItsWay /\ AtItsEnd

\* The peripherals lie in the island and beside the memory.
LEMMA PeriphsInside ==
  ASSUME NEW a \in Nat, InPeriph(a, 0, 196608)
  PROVE  InIsland(a) /\ ~InMem(a)
BY MemTypes, AddrMapAssumption
DEF InPeriph, InIsland, InMem, Between, PeriphSpan, CoreLocalAddrOffset,
    CoreLocalAddrRange, PeriphBaseAddr

\* A bank lies in the island.
LEMMA BankInside ==
  ASSUME NEW a \in Nat, NEW i \in 0 .. NumBanks - 1, InBank(a, i)
  PROVE  InMem(a) /\ InIsland(a)
BY BankEnd, MemTypes, AddrMapAssumption DEF InBank, InMem, InIsland, Between, MemEnd

\* The units are told apart by their names.
LEMMA UnitsDiffer ==
  /\ \A i : Bank(i) \notin Decoders
  /\ \A i : Bank(i) # Unit("axi_output")
  /\ Unit("axi_output") \notin Decoders /\ Unit("error") \notin Decoders
  /\ \A k \in 1 .. 5 : Unit(ClPeriphs[k]) \notin Decoders
  /\ \A k \in 1 .. 5 : Unit(ClPeriphs[k]) # Unit("axi_output")
BY DEF Bank, Unit, Decoders, ClPeriphs

\* What ClIdx and PeriphIdx range over.
LEMMA IdxTypes ==
  ASSUME NEW a
  PROVE  ClIdx(a) \in 0 .. 4 /\ PeriphIdx(a) \in 0 .. 8
BY DEF ClIdx, PeriphIdx

\* The invariant holds in the initial states.
LEMMA InvInit == Init => Inv
BY DEF Init, Inv, TypeOK, OnItsWay, AtItsEnd, Arrived, Decoders, Unit

\* The main crossbar keeps the invariant.
LEMMA InvMainXbar ==
  ASSUME Inv, MainXbar
  PROVE  Inv'
<1>0. addr \in Addrs /\ addr \in Nat /\ addr' = addr /\ NumBanks \in Nat
  BY AddrMapAssumption DEF Inv, TypeOK, MainXbar
<1>1. at' = Subordinate(AddrDecode(MainAddrMap, 0, addr))
  BY DEF MainXbar
<1>2. CASE ~InIsland(addr)
  <2>1. at' = Unit("axi_output")
    BY <1>0, <1>1, <1>2, MainDecode DEF Subordinate
  <2>2. \A i \in 0 .. NumBanks - 1 : ~InBank(addr, i)
    BY <1>0, <1>2, BankInside
  <2>3. ~InPeriph(addr, 53248, 196608)
    BY <1>0, <1>2, PeriphsInside, MemTypes DEF InPeriph, Between
  <2>4. at' # Unit("periph") /\ at' # Unit("core_local")
    BY <2>1 DEF Unit
  <2>5. TypeOK'
    BY <1>0, <2>1 DEF TypeOK
  <2>6. OnItsWay'
    BY <2>4 DEF OnItsWay
  <2>7. AtItsEnd'
    BY <1>0, <1>2, <2>1, <2>2, <2>3 DEF AtItsEnd, InIsland, InBank, InPeriph, InMem
  <2> QED  BY <2>5, <2>6, <2>7 DEF Inv
<1>3. CASE InMem(addr)
  <2>1. PICK i \in 0 .. NumBanks - 1 : InBank(addr, i)
    BY <1>0, <1>3, BanksFill
  <2>2. AddrDecode(MainAddrMap, 0, addr) = i + 1
    BY <1>0, <2>1, MainDecode
  <2>3. at' = Bank(i)
    BY <1>0, <1>1, <2>2 DEF Subordinate, NumSubordinates
  <2>4. \A j \in 0 .. NumBanks - 1 : InBank(addr, j) => j = i
    BY <1>0, <2>2, MainDecode
  <2>5. InIsland(addr) /\ ~InPeriph(addr, 53248, 196608)
    BY <1>0, <1>3, <2>1, BankInside, PeriphsInside, MemTypes DEF InPeriph, Between
  <2>6. at' # Unit("periph") /\ at' # Unit("core_local")
    BY <2>3 DEF Unit, Bank
  <2>7. TypeOK'
    BY <1>0, <2>3 DEF TypeOK
  <2>8. OnItsWay'
    BY <2>6 DEF OnItsWay
  <2>9. AtItsEnd'
    BY <1>0, <1>3, <2>3, <2>4, <2>5 DEF AtItsEnd, InIsland, InBank, InPeriph, InMem
  <2> QED  BY <2>7, <2>8, <2>9 DEF Inv
<1>4. CASE InIsland(addr) /\ ~InMem(addr)
  <2>1. AddrDecode(MainAddrMap, 0, addr) = NumSubordinates - 1
    BY <1>0, <1>4, MainDecode
  <2>2. at' = Unit("periph")
    BY <1>0, <1>1, <2>1 DEF Subordinate, NumSubordinates
  <2>3. at' \in Decoders /\ at' # Unit("core_local")
    BY <2>2 DEF Decoders, Unit
  <2>4. TypeOK'
    BY <1>0, <2>3 DEF TypeOK, Decoders
  <2>5. OnItsWay'
    BY <1>0, <1>4, <2>3 DEF OnItsWay, InIsland, InMem
  <2>6. AtItsEnd'
    BY <2>3 DEF AtItsEnd, Arrived, Decoders
  <2> QED  BY <2>4, <2>5, <2>6 DEF Inv
<1> QED  BY <1>2, <1>3, <1>4

\* The demux of the peripherals keeps the invariant.
LEMMA InvPeriphDemux ==
  ASSUME Inv, PeriphDemux
  PROVE  Inv'
<1>0. addr \in Addrs /\ addr \in Nat /\ addr' = addr /\ InIsland(addr) /\ ~InMem(addr)
  BY AddrMapAssumption DEF Inv, TypeOK, OnItsWay, PeriphDemux
<1>1. at' = PeriphUnit(addr)
  BY <1>0, PeriphDecode DEF PeriphDemux, PeriphUnit
<1>2. \A i \in 0 .. NumBanks - 1 : ~InBank(addr, i)
  BY <1>0, BankInside
<1>3. PeriphIdx(addr) \in 0 .. 8 /\ (PeriphIdx(addr) = 7 <=> InPeriph(addr, 53248, 196608))
  BY <1>0, MemTypes DEF PeriphIdx, InPeriph, Between
<1>4. at' \in {Unit("error"), Unit("soc_ctrl"), Unit("boot_rom"), Unit("debug"),
               Unit("ecc_manager"), Unit("timer"), Unit("core_local"), Unit("tb_printf")}
      /\ (at' = Unit("core_local") <=> PeriphIdx(addr) = 7)
  BY <1>1, <1>3 DEF PeriphUnit, Periphs, Unit
<1>5. TypeOK'
  BY <1>0, <1>4 DEF TypeOK, Decoders
<1>6. at' # Unit("periph")
  BY <1>4 DEF Unit
<1>7. OnItsWay'
  BY <1>0, <1>3, <1>4, <1>6 DEF OnItsWay, InPeriph
<1>8. AtItsEnd'
  <2>1. CASE PeriphIdx(addr) = 7
    BY <1>4, <2>1 DEF AtItsEnd, Arrived, Decoders
  <2>2. CASE PeriphIdx(addr) # 7
    BY <1>0, <1>1, <1>2, <1>3, <2>2
    DEF AtItsEnd, InIsland, InBank, InPeriph, InMem, PeriphUnit, PeriphIdx
  <2> QED  BY <2>1, <2>2
<1> QED  BY <1>5, <1>7, <1>8 DEF Inv

\* The demux of the core-local registers keeps the invariant.
LEMMA InvClPeriphDemux ==
  ASSUME Inv, ClPeriphDemux
  PROVE  Inv'
<1>0. addr \in Addrs /\ addr \in Nat /\ addr' = addr /\ InPeriph(addr, 53248, 196608)
  BY AddrMapAssumption DEF Inv, TypeOK, OnItsWay, ClPeriphDemux
<1>1. at' = ClPeriph(ClIdx(addr))
  BY <1>0, ClDecode DEF ClPeriphDemux
<1>2. InIsland(addr) /\ ~InMem(addr)
  BY <1>0, PeriphsInside, MemTypes DEF InPeriph, Between
<1>3. \A i \in 0 .. NumBanks - 1 : ~InBank(addr, i)
  BY <1>0, <1>2, BankInside
<1>4. ClIdx(addr) \in 0 .. 4
  BY IdxTypes
<1>5. at' \in {Unit("error")} \cup {Unit(ClPeriphs[k]) : k \in 1 .. 5}
  BY <1>1, <1>4 DEF ClPeriph
<1>6. TypeOK'
  BY <1>0, <1>5 DEF TypeOK
<1>7. at' \notin Decoders
  BY <1>5, UnitsDiffer
<1>8. OnItsWay'
  BY <1>7 DEF OnItsWay, Decoders
<1>9. AtItsEnd'
  BY <1>0, <1>1, <1>2, <1>3
  DEF AtItsEnd, InIsland, InBank, InPeriph, InMem, ClPeriph, ClIdx
<1> QED  BY <1>6, <1>8, <1>9 DEF Inv

\* Inv is an invariant.
THEOREM Invariant == Spec => []Inv
<1>1. ASSUME Inv, [Next]_vars PROVE Inv'
  <2>1. CASE MainXbar
    BY <1>1, <2>1, InvMainXbar
  <2>2. CASE PeriphDemux
    BY <1>1, <2>2, InvPeriphDemux
  <2>3. CASE ClPeriphDemux
    BY <1>1, <2>3, InvClPeriphDemux
  <2>4. CASE Answer
    BY <1>1, <2>4 DEF Answer, Inv, TypeOK, OnItsWay, AtItsEnd, Arrived, Decoders, Unit
  <2>5. CASE UNCHANGED vars
    BY <1>1, <2>5
    DEF vars, Inv, TypeOK, OnItsWay, AtItsEnd, Arrived, InIsland, InMem, InBank, InPeriph,
        PeriphUnit, PeriphIdx, ClPeriph, ClIdx
  <2> QED  BY <1>1, <2>1, <2>2, <2>3, <2>4, <2>5 DEF Next
<1> QED  BY InvInit, <1>1, PTL DEF Spec

-----------------------------------------------------------------------------
(***************************************************************************)
(* The properties.                                                         *)
(***************************************************************************)
\* Where an access can end is what TypeOK lists.
LEMMA Ends ==
  ASSUME Inv, Arrived
  PROVE  /\ addr \in Nat
         /\ at \in {Unit("axi_output")} \cup {Bank(i) : i \in 0 .. NumBanks - 1} =>
              ~InIsland(addr) \/ InMem(addr)
<1>0. addr \in Nat /\ NumBanks \in Nat
  BY AddrMapAssumption DEF Inv, TypeOK
<1>1. SUFFICES ASSUME InIsland(addr), ~InMem(addr)
      PROVE  at # Unit("axi_output") /\ \A i : at # Bank(i)
  BY <1>0
<1>2. CASE InPeriph(addr, 53248, 196608)
  BY <1>2, IdxTypes DEF Inv, AtItsEnd, ClPeriph, ClPeriphs, Unit, Bank
<1>3. CASE ~InPeriph(addr, 53248, 196608)
  BY <1>1, <1>3, IdxTypes DEF Inv, AtItsEnd, PeriphUnit, Periphs, Unit, Bank
<1> QED  BY <1>2, <1>3

\* The type invariant, for every memory map that does not collide.
THEOREM TypeCorrect == Spec => []TypeOK
<1>1. Inv => TypeOK
  BY DEF Inv
<1> QED  BY Invariant, <1>1, PTL

\* Nothing leaves the island that belongs into it, and the other way round.
THEOREM Closed == Spec => []IslandClosed
<1>1. Inv => IslandClosed
  <2> SUFFICES ASSUME Inv, Arrived
               PROVE  at = Unit("axi_output") <=> ~InIsland(addr)
    BY DEF IslandClosed
  <2>1. addr \in Nat
    BY Ends
  <2>2. ~InIsland(addr) => at = Unit("axi_output")
    BY DEF Inv, AtItsEnd
  <2>3. ASSUME InMem(addr) PROVE at # Unit("axi_output")
    <3> PICK i \in 0 .. NumBanks - 1 : InBank(addr, i)
      BY <2>1, <2>3, BanksFill
    <3>1. at = Bank(i)
      BY DEF Inv, AtItsEnd
    <3> QED  BY <3>1, UnitsDiffer
  <2> QED  BY <2>2, <2>3, Ends
<1> QED  BY Invariant, <1>1, PTL

\* A bank answers what lies in it and nothing else.
LEMMA InvBanksApart ==
  ASSUME Inv
  PROVE  BanksApart
<1> SUFFICES ASSUME Arrived, NEW i \in 0 .. NumBanks - 1
             PROVE  at = Bank(i) <=> InBank(addr, i)
  BY DEF BanksApart
<1>1. addr \in Nat
  BY Ends
<1>2. InBank(addr, i) => at = Bank(i)
  BY DEF Inv, AtItsEnd
<1>3. ASSUME at = Bank(i) PROVE InBank(addr, i)
  <2>1. InIsland(addr)
    BY <1>3, UnitsDiffer DEF Inv, AtItsEnd
  <2>2. InMem(addr)
    BY <1>3, <2>1, Ends
  <2> PICK j \in 0 .. NumBanks - 1 : InBank(addr, j)
    BY <1>1, <2>2, BanksFill
  <2>3. at = Bank(j)
    BY DEF Inv, AtItsEnd
  <2> QED  BY <1>3, <2>3 DEF Bank
<1> QED  BY <1>2, <1>3

\* Each bank answers exactly its own addresses.
THEOREM BanksDisjoint == Spec => []BanksApart
<1>1. Inv => BanksApart
  BY InvBanksApart
<1> QED  BY Invariant, <1>1, PTL

\* Outside of the addresses the two findings are about, the memory map holds.
THEOREM MapHolds == Spec => []RoutedAsDocumented
<1>1. Inv => RoutedAsDocumented
  <2> SUFFICES ASSUME Inv, Arrived, InIsland(addr), ~InMem(addr),
                      ~ShadowRegisters(addr), ~Gap(addr)
               PROVE  /\ \A row \in MemoryMap :
                           InPeriph(addr, row[1], row[2]) => at = Unit(row[3])
                      /\ (\A row \in MemoryMap : ~InPeriph(addr, row[1], row[2])) =>
                           at = Unit("error")
    BY DEF RoutedAsDocumented, AsDocumented
  <2>0. addr \in Nat /\ PeriphBaseAddr \in Nat /\ Simulation \in BOOLEAN /\ UseTCLS \in BOOLEAN
    BY Ends, MemTypes, AddrMapAssumption
  <2>1. CASE InPeriph(addr, 53248, 196608)
    <3>1. at = ClPeriph(ClIdx(addr))
      BY <2>1 DEF Inv, AtItsEnd
    <3>2. \/ InPeriph(addr, 53248, 57344) /\ at = Unit(IF UseTCLS THEN "tcls" ELSE "error")
          \/ InPeriph(addr, 65536, 131072) /\ at = Unit("clic")
          \/ InPeriph(addr, 131072, 131088) /\ at = Unit("instr_err")
          \/ InPeriph(addr, 131088, 131104) /\ at = Unit("data_err")
      BY <2>0, <2>1, <3>1
      DEF ClIdx, ClPeriph, ClPeriphs, InPeriph, Between, ShadowRegisters, Gap, PeriphSpan,
          CoreLocalAddrOffset, CoreLocalAddrRange
    <3> QED  BY <2>0, <3>2 DEF MemoryMap, InPeriph, Between
  <2>2. CASE ~InPeriph(addr, 53248, 196608)
    <3>1. at = PeriphUnit(addr)
      BY <2>2 DEF Inv, AtItsEnd
    <3> QED  BY <2>0, <2>2, <3>1 DEF MemoryMap, PeriphUnit, PeriphIdx, Periphs, InPeriph, Between
  <2> QED  BY <2>1, <2>2
<1> QED  BY Invariant, <1>1, PTL

\* An address of the headers, but for the memories: where it ends.
LEMMA ArchiRegion ==
  ASSUME HeadersFit, NEW o \in Nat, o < PeriphSpan,
         NEW a, a = ARCHI_SAFETY_ISLAND_PERIPHERALS_ADDR + o
  PROVE  /\ a \in Nat /\ a = PeriphBaseAddr + o
         /\ InIsland(a) /\ ~InMem(a)
<1>1. PeriphBaseAddr = ARCHI_SAFETY_ISLAND_PERIPHERALS_ADDR /\ PeriphBaseAddr \in Nat
  BY MemTypes DEF HeadersFit, ARCHI_SAFETY_ISLAND_PERIPHERALS_ADDR, PeriphBaseAddr
<1>2. a \in Nat /\ a = PeriphBaseAddr + o
  BY <1>1
<1>3. PeriphSpan = 196608
  BY DEF PeriphSpan, CoreLocalAddrOffset, CoreLocalAddrRange
<1>4. InPeriph(a, 0, 196608)
  BY <1>1, <1>2, <1>3 DEF InPeriph, Between
<1> QED  BY <1>2, <1>4, PeriphsInside

\* The headers name the units that the decoders find, in every island they fit.
THEOREM SoftwareAgrees == Spec => []SoftwareFindsUnits
<1>1. Inv => SoftwareFindsUnits
  <2> SUFFICES ASSUME Inv, HeadersFit, Arrived
               PROVE  SoftwareFindsUnits
    BY DEF SoftwareFindsUnits
  <2> DEFINE P == ARCHI_SAFETY_ISLAND_PERIPHERALS_ADDR
  <2>0. addr \in Nat /\ PeriphBaseAddr \in Nat /\ Simulation \in BOOLEAN
    BY Ends, MemTypes, AddrMapAssumption
  <2>1. ASSUME NEW i \in 0..1
        PROVE  Between(addr, ARCHI_LOCAL_PRIV_ADDR(i),
                             ARCHI_LOCAL_PRIV_ADDR(i) + ARCHI_LOCAL_PRIV_SIZE) <=> at = Bank(i)
    <3>1. i \in 0 .. NumBanks - 1
      BY DEF HeadersFit
    <3>2. at = Bank(i) <=> InBank(addr, i)
      BY <3>1, InvBanksApart DEF BanksApart
    <3>3. /\ BaseAddr = ARCHI_SAFETY_ISLAND_BASE_ADDR /\ BaseAddr \in Nat
          /\ MemOffset = 0 /\ BankNumBytes = 65536
      BY AddrMapAssumption DEF HeadersFit, ARCHI_SAFETY_ISLAND_MEM_OFFSET
    <3>4. InBank(addr, i) <=> Between(addr, ARCHI_LOCAL_PRIV_ADDR(i),
                                ARCHI_LOCAL_PRIV_ADDR(i) + ARCHI_LOCAL_PRIV_SIZE)
      BY <2>0, <3>3 DEF InBank, Between, ARCHI_LOCAL_PRIV_ADDR, ARCHI_LOCAL_PRIV_SIZE,
                        ARCHI_SAFETY_ISLAND_MEM_OFFSET
    <3> QED  BY <3>2, <3>4
  <2>2. ASSUME NEW o \in Nat, o < 131072, addr = P + o
        PROVE  /\ addr = PeriphBaseAddr + o
               /\ o < 53248 => at = PeriphUnit(addr)
               /\ o >= 53248 => at = ClPeriph(ClIdx(addr))
    <3>0. o < PeriphSpan
      BY <2>2 DEF PeriphSpan, CoreLocalAddrOffset, CoreLocalAddrRange
    <3>1. addr = PeriphBaseAddr + o /\ InIsland(addr) /\ ~InMem(addr)
      BY <2>2, <3>0, ArchiRegion
    <3>2. InPeriph(addr, 53248, 196608) <=> o >= 53248
      BY <2>0, <2>2, <3>1 DEF InPeriph, Between
    <3> QED  BY <3>1, <3>2 DEF Inv, AtItsEnd
  <2>3. \A o \in Nat : o < 4096 /\ addr = P + o => at = Unit("soc_ctrl")
    BY <2>0, <2>2 DEF PeriphUnit, PeriphIdx, Periphs, InPeriph, Between
  <2>4. addr = P + 4096 => at = Unit("boot_rom")
    BY <2>0, <2>2 DEF PeriphUnit, PeriphIdx, Periphs, InPeriph, Between
  <2>5. addr = P + 8192 => at = Unit("error")
    BY <2>0, <2>2 DEF PeriphUnit, PeriphIdx, Periphs, InPeriph, Between
  <2>6. addr = P + 12288 => at = Unit("debug")
    BY <2>0, <2>2 DEF PeriphUnit, PeriphIdx, Periphs, InPeriph, Between
  <2>7. addr = P + 65536 => at = Unit("clic")
    BY <2>0, <2>2 DEF ClPeriph, ClPeriphs, ClIdx, InPeriph, Between
  <2>8. Simulation /\ addr = P + 24576 => at = Unit("tb_printf")
    BY <2>0, <2>2 DEF PeriphUnit, PeriphIdx, Periphs, InPeriph, Between
  <2>9. ASSUME NEW row \in MeantFor, addr = ArchiAddr(row[1])
        PROVE  at = Unit(row[2])
    <3>1. addr = P + ArchiOffset[row[1]]
      BY <2>9 DEF ArchiAddr
    <3> HIDE DEF P
    <3> QED  BY <2>9, <3>1, <2>3, <2>4, <2>5, <2>6, <2>7, <2>8 DEF MeantFor, ArchiOffset
  <2>10. ASSUME NEW reg \in DOMAIN SocCtrlRegOffset,
                addr = ArchiAddr("SOC_CTRL") + SocCtrlRegOffset[reg]
         PROVE  at = Unit("soc_ctrl") /\ AddrHit(addr) = {reg}
    <3>1. SocCtrlRegOffset[reg] \in {0, 4, 8, 12}
      BY DEF SocCtrlRegOffset
    <3>2. P \in Nat /\ P % 16 = 0
      BY DEF ARCHI_SAFETY_ISLAND_PERIPHERALS_ADDR, ARCHI_SAFETY_ISLAND_BASE_ADDR,
             ARCHI_SAFETY_ISLAND_PERIPH_OFFSET
    <3>3. addr = P + SocCtrlRegOffset[reg]
      BY <2>10, <3>1, <3>2 DEF ArchiAddr, ArchiOffset
    <3> HIDE DEF P
    <3>4. addr % 16 = SocCtrlRegOffset[reg]
      BY <3>1, <3>2, <3>3
    <3>5. AddrHit(addr) = {reg}
      BY <3>4 DEF AddrHit, SocCtrlRegOffset
    <3> QED  BY <2>3, <3>1, <3>3, <3>5
  <2> QED  BY <2>1, <2>9, <2>10 DEF SoftwareFindsUnits
<1> QED  BY Invariant, <1>1, PTL
=============================================================================
