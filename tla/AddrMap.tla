------------------------------ MODULE AddrMap -------------------------------
(***************************************************************************)
(* How an access of one of the five managers (AXI input, instruction, data *)
(* and shadow bus of the core, debug module) finds its subordinate.  Three *)
(* decoders stand one behind the other: the main crossbar, the demux of    *)
(* the peripherals and the demux of the core-local registers.  Each is an  *)
(* action; an access that has arrived is answered and a new one begins.    *)
(*                                                                         *)
(* Addresses are those of 32 bits; parameters are assumed not to wrap.     *)
(***************************************************************************)
EXTENDS Naturals, Sequences, FiniteSets

CONSTANTS
  BaseAddr, AddrRange,      \* the island's window
  MemOffset, PeriphOffset,  \* where memory and peripherals begin in it
  BankNumBytes, NumBanks,
  Simulation,               \* TARGET_SIMULATION
  UseTCLS,                  \* three cores in lockstep
  Addrs                     \* addresses the managers use

MemEnd == MemOffset + NumBanks * BankNumBytes
PeriphBaseAddr == BaseAddr + PeriphOffset

\* Bytes from PeriphBaseAddr up to the end of the core-local registers.
CoreLocalAddrOffset == 53248  \* D000
CoreLocalAddrRange == 143360  \* 2_3000
PeriphSpan == CoreLocalAddrOffset + CoreLocalAddrRange

\* "Note that the parameters can be set to collide, but this will not work".
ASSUME AddrMapAssumption ==
  /\ BaseAddr \in Nat /\ AddrRange \in Nat \ {0}
  /\ MemOffset \in Nat /\ PeriphOffset \in Nat
  /\ BankNumBytes \in Nat \ {0} /\ NumBanks \in Nat \ {0}
  /\ Simulation \in BOOLEAN /\ UseTCLS \in BOOLEAN
  /\ Addrs \subseteq Nat
  /\ MemEnd < AddrRange
  /\ PeriphOffset + PeriphSpan <= AddrRange
  /\ PeriphOffset >= MemEnd \/ PeriphOffset + PeriphSpan <= MemOffset

VARIABLES
  addr,  \* the address of the access
  at     \* where the access is: a decoder or a subordinate

vars == <<addr, at>>

-----------------------------------------------------------------------------
(***************************************************************************)
(* Rules and their decoder.                                                *)
(***************************************************************************)
Rule(idx, start, end) == [idx |-> idx, start_addr |-> start, end_addr |-> end]
\* The rule for range bytes at an offset from PeriphBaseAddr.
Window(idx, offset, range) ==
  Rule(idx, PeriphBaseAddr + offset, PeriphBaseAddr + offset + range)
\* An array literal lists the rule of the highest index first.
Literal(rules) == [k \in 0 .. Len(rules) - 1 |-> rules[Len(rules) - k]]

Matches(map, a) ==
  {k \in DOMAIN map : map[k].start_addr <= a /\ a < map[k].end_addr}

\* addr_decode: of several rules that match, the one of the highest index.
AddrDecode(map, default, a) ==
  LET M == Matches(map, a) IN
  IF M = {} THEN default ELSE map[CHOOSE k \in M : \A l \in M : l <= k].idx

Bank(i) == <<"bank", i>>
Unit(name) == <<name, 0>>

-----------------------------------------------------------------------------
(***************************************************************************)
(* gen_xbar_addr_rules: each bank, what lies before them and what lies     *)
(* after them.                                                             *)
(***************************************************************************)
NumSubordinates == 2 + NumBanks
NumRules == IF MemOffset # 0 THEN 2 + NumBanks ELSE 1 + NumBanks

\* Mutant: a bank begins one bank too late.
BankRule_shifted(i) ==
  Rule(i + 1, BaseAddr + MemOffset + (i + 1) * BankNumBytes,
              BaseAddr + MemOffset + (i + 2) * BankNumBytes)

BankRule(i) ==
  Rule(i + 1, BaseAddr + MemOffset + i * BankNumBytes,
              BaseAddr + MemOffset + (i + 1) * BankNumBytes)

\* Mutant: the rule for what lies behind the banks has the range before them.
MainAddrMap_onlyLower ==
  [k \in 0 .. NumRules - 1 |->
     IF k < NumBanks THEN BankRule(k)
     ELSE Rule(NumSubordinates - 1, BaseAddr, BaseAddr + MemOffset)]

MainAddrMap ==
  [k \in 0 .. NumRules - 1 |->
     IF k < NumBanks THEN BankRule(k)
     ELSE IF MemOffset # 0 /\ k = NumRules - 2
     THEN Rule(NumSubordinates - 1, BaseAddr, BaseAddr + MemOffset)
     ELSE Rule(NumSubordinates - 1, BaseAddr + MemEnd, BaseAddr + AddrRange)]

\* The subordinates of the crossbar, by index.
Subordinate(idx) ==
  IF idx = 0 THEN Unit("axi_output")
  ELSE IF idx = NumSubordinates - 1 THEN Unit("periph") ELSE Bank(idx - 1)

\* The peripherals, by index: periph_outputs_e.
Periphs ==
  <<"error", "soc_ctrl", "boot_rom", "global_prepend", "debug", "ecc_manager",
    "timer", "core_local", "tb_printf">>

PeriphRules ==
  <<Window(1, 0, 4096), Window(2, 4096, 4096), Window(3, 8192, 4096),
    Window(4, 12288, 4096), Window(5, 16384, 64), Window(6, 32768, 20480),
    Window(7, CoreLocalAddrOffset, CoreLocalAddrRange)>>

PeriphAddrMap ==
  Literal(IF Simulation THEN Append(PeriphRules, Window(8, 24576, 4096)) ELSE PeriphRules)

\* The core-local registers, by index: cl_regbus_outputs_e.
ClPeriphs == <<"tcls", "clic", "instr_err", "data_err", "shadow_err">>

\* Mutant: the window of the lockstep registers reaches up to the last register, and
\* its rule, of the highest index, wins.
ClRegbusAddrMapRule_wide ==
  Literal(<<Window(0, CoreLocalAddrOffset, CoreLocalAddrRange), Window(1, 65536, 65536),
            Window(2, 131072, 16), Window(3, 131088, 32), Window(4, 131104, 48)>>)

ClRegbusAddrMapRule ==
  Literal(<<Window(0, CoreLocalAddrOffset, 4096), Window(1, 65536, 65536),
            Window(2, 131072, 16), Window(3, 131088, 32), Window(4, 131104, 48)>>)

\* Without lockstep an error subordinate has the place of its registers.
ClPeriph(idx) ==
  IF idx = 0 /\ ~UseTCLS THEN Unit("error") ELSE Unit(ClPeriphs[idx + 1])

-----------------------------------------------------------------------------
Decoders == {Unit("xbar"), Unit("periph"), Unit("core_local")}

Init == addr \in Addrs /\ at = Unit("xbar")

\* i_main_xbar; port 0 is the default.
MainXbar ==
  /\ at = Unit("xbar")
  /\ at' = Subordinate(AddrDecode(MainAddrMap, 0, addr))
  /\ UNCHANGED addr

\* i_addr_decode_periphs and i_obi_demux; the error subordinate is the default, and
\* the reserved window has one of its own.
PeriphDemux ==
  /\ at = Unit("periph")
  /\ LET name == Periphs[AddrDecode(PeriphAddrMap, 0, addr) + 1] IN
     at' = Unit(IF name = "global_prepend" THEN "error" ELSE name)
  /\ UNCHANGED addr

\* i_addr_decode_regbus and i_reg_demux; there is no default, the index stays 0.
ClPeriphDemux ==
  /\ at = Unit("core_local")
  /\ at' = ClPeriph(AddrDecode(ClRegbusAddrMapRule, 0, addr))
  /\ UNCHANGED addr

\* The subordinate answers; the next access begins.
Answer ==
  /\ at \notin Decoders
  /\ addr' \in Addrs
  /\ at' = Unit("xbar")

Next == MainXbar \/ PeriphDemux \/ ClPeriphDemux \/ Answer

Spec == Init /\ [][Next]_vars

-----------------------------------------------------------------------------
(***************************************************************************)
(* Properties.                                                             *)
(***************************************************************************)
Between(a, lo, hi) == lo <= a /\ a < hi
InIsland(a) == Between(a, BaseAddr, BaseAddr + AddrRange)
InMem(a) == Between(a, BaseAddr + MemOffset, BaseAddr + MemEnd)
InBank(a, i) == Between(a, BaseAddr + MemOffset + i * BankNumBytes,
                           BaseAddr + MemOffset + (i + 1) * BankNumBytes)
InPeriph(a, lo, hi) == Between(a, PeriphBaseAddr + lo, PeriphBaseAddr + hi)
Arrived == at \notin Decoders

\* The memory map of the project's README, from SoC control on.  Other addresses
\* of the island that are not memory respond with an error.
MemoryMap ==
  {<<0, 4096, "soc_ctrl">>, <<4096, 8192, "boot_rom">>, <<12288, 16384, "debug">>,
   <<16384, 16448, "ecc_manager">>,
   <<24576, 28672, IF Simulation THEN "tb_printf" ELSE "error">>,
   <<32768, 53248, "timer">>, <<53248, 57344, IF UseTCLS THEN "tcls" ELSE "error">>,
   <<65536, 131072, "clic">>, <<131072, 131088, "instr_err">>,
   <<131088, 131104, "data_err">>, <<131104, 131120, "shadow_err">>}
ShadowRegisters(a) == InPeriph(a, 131104, 131120)
\* Between the core-local registers, and behind them.
Gap(a) == InPeriph(a, 57344, 65536) \/ InPeriph(a, 131120, PeriphSpan)

\* The access is in the tree of decoders or at a subordinate.
TypeOK ==
  /\ addr \in Addrs
  /\ at \in Decoders \cup
            {Unit(u) : u \in {"axi_output", "error", "soc_ctrl", "boot_rom", "debug",
                              "ecc_manager", "timer", "tb_printf"} \cup
                             {ClPeriphs[k] : k \in 1..5}} \cup
            {Bank(i) : i \in 0 .. NumBanks - 1}

\* The island is closed: what lies outside of its window leaves through the AXI
\* output, and nothing inside does, wherever memory and peripherals begin.
IslandClosed == Arrived => (at = Unit("axi_output") <=> ~InIsland(addr))

\* Every bank answers its own addresses and no others.
BanksApart ==
  Arrived => \A i \in 0 .. NumBanks - 1 : at = Bank(i) <=> InBank(addr, i)

AsDocumented ==
  /\ \A row \in MemoryMap : InPeriph(addr, row[1], row[2]) => at = Unit(row[3])
  /\ (\A row \in MemoryMap : ~InPeriph(addr, row[1], row[2])) => at = Unit("error")

\* Save for the shadow bus registers and the gaps between the core-local
\* registers, every address is answered by the unit the memory map names.
RoutedAsDocumented ==
  Arrived /\ InIsland(addr) /\ ~InMem(addr) /\ ~ShadowRegisters(addr) /\ ~Gap(addr) =>
    AsDocumented

\* Every address of the island that is not memory is answered by the unit the memory
\* map names, the shadow bus registers and the gaps included.
MemoryMapKept == Arrived /\ InIsland(addr) /\ ~InMem(addr) => AsDocumented
=============================================================================
