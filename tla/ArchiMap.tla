------------------------------ MODULE ArchiMap ------------------------------
(***************************************************************************)
(* The addresses the software is built with: memories, peripherals and the *)
(* SoC control registers, as the archi headers have them, against where    *)
(* the decoders of AddrMap take an access to them.                         *)
(*                                                                         *)
(* The headers are constants of a build: they fit one set of parameters of *)
(* the island, HeadersFit, and the property is about an island built so.   *)
(***************************************************************************)
EXTENDS AddrMap

CONSTANT CARFIELD  \* the headers' switch: the island is part of the Carfield SoC

ASSUME ArchiAssumption == CARFIELD \in BOOLEAN

-----------------------------------------------------------------------------
(***************************************************************************)
(* memory_map.h; properties.h repeats its first half.                      *)
(***************************************************************************)
ARCHI_SAFETY_ISLAND_BASE_ADDR == IF CARFIELD THEN 24576 * 65536 ELSE 0  \* 6000_0000
ARCHI_SAFETY_ISLAND_PERIPH_OFFSET == 32 * 65536  \* 20_0000
ARCHI_SAFETY_ISLAND_MEM_OFFSET == 0

\* ARCHI_LOCAL_PRIV0 and ARCHI_LOCAL_PRIV1; ARCHI_L2_PRIV0 and PRIV1 are the same.
ARCHI_LOCAL_PRIV_SIZE == 65536

\* Mutant: the size of the second memory is half of that of the first.
ARCHI_LOCAL_PRIV_ADDR_half(i) ==
  ARCHI_SAFETY_ISLAND_BASE_ADDR + ARCHI_SAFETY_ISLAND_MEM_OFFSET + i * 32768

ARCHI_LOCAL_PRIV_ADDR(i) ==
  ARCHI_SAFETY_ISLAND_BASE_ADDR + ARCHI_SAFETY_ISLAND_MEM_OFFSET + i * ARCHI_LOCAL_PRIV_SIZE

ARCHI_SAFETY_ISLAND_PERIPHERALS_ADDR ==
  ARCHI_SAFETY_ISLAND_BASE_ADDR + ARCHI_SAFETY_ISLAND_PERIPH_OFFSET

\* ARCHI_<unit>_OFFSET: the global prepend and the HMR have no unit at their offset.
ArchiOffset ==
  [SOC_CTRL |-> 0, BOOT_ROM |-> 4096, GLOBAL_PREPEND |-> 8192, DEBUG |-> 12288,
   CLIC |-> 65536, HMR |-> 20480, STDOUT |-> 24576]

ArchiAddr(unit) == ARCHI_SAFETY_ISLAND_PERIPHERALS_ADDR + ArchiOffset[unit]

-----------------------------------------------------------------------------
(***************************************************************************)
(* safety_soc_ctrl.h and the decoder of the registers.                     *)
(***************************************************************************)
SocCtrlRegOffset == [BOOTADDR |-> 0, FETCHEN |-> 4, CORESTATUS |-> 8, BOOTMODE |-> 12]

\* Four bits of the address count.
AddrHit(a) == {r \in DOMAIN SocCtrlRegOffset : SocCtrlRegOffset[r] = a % 16}

-----------------------------------------------------------------------------
(***************************************************************************)
(* Properties.                                                             *)
(***************************************************************************)
\* The island that the headers describe.
HeadersFit ==
  /\ BaseAddr = ARCHI_SAFETY_ISLAND_BASE_ADDR
  /\ MemOffset = ARCHI_SAFETY_ISLAND_MEM_OFFSET
  /\ PeriphOffset = ARCHI_SAFETY_ISLAND_PERIPH_OFFSET
  /\ NumBanks = 2 /\ BankNumBytes = 65536

\* The unit each address of the headers is meant for; no unit has the global prepend's
\* addresses, and the HMR's address is of a layout this island no longer has.
MeantFor ==
  {<<"SOC_CTRL", "soc_ctrl">>, <<"BOOT_ROM", "boot_rom">>, <<"GLOBAL_PREPEND", "error">>,
   <<"DEBUG", "debug">>, <<"CLIC", "clic">>} \cup
  IF Simulation THEN {<<"STDOUT", "tb_printf">>} ELSE {}

\* Software and hardware have the same map, which is written down in four places (the
\* README aside): the two private memories are the two banks, every address of the
\* headers reaches the unit it is meant for, and the offsets of the SoC control
\* registers each select one register, their own.
SoftwareFindsUnits ==
  HeadersFit /\ Arrived =>
    /\ \A i \in 0..1 :
         Between(addr, ARCHI_LOCAL_PRIV_ADDR(i),
                       ARCHI_LOCAL_PRIV_ADDR(i) + ARCHI_LOCAL_PRIV_SIZE) <=> at = Bank(i)
    /\ \A row \in MeantFor : addr = ArchiAddr(row[1]) => at = Unit(row[2])
    /\ \A reg \in DOMAIN SocCtrlRegOffset :
         addr = ArchiAddr("SOC_CTRL") + SocCtrlRegOffset[reg] =>
           at = Unit("soc_ctrl") /\ AddrHit(addr) = {reg}
=============================================================================
