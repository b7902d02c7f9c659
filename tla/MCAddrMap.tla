----------------------------- MODULE MCAddrMap ------------------------------
(***************************************************************************)
(* The addresses at and around every boundary of the memory map.           *)
(***************************************************************************)
EXTENDS ArchiMap

\* Offsets from PeriphBaseAddr at which a unit or a gap begins.
PeriphBounds ==
  {0, 4096, 8192, 12288, 16384, 16448, 24576, 28672, 32768, 53248, 57344, 65536,
   131072, 131088, 131104, 131120, 131136, 131152, PeriphSpan}
Bounds ==
  {BaseAddr, BaseAddr + MemOffset, BaseAddr + AddrRange, BaseAddr + 2 * PeriphOffset} \cup
  {BaseAddr + MemOffset + i * BankNumBytes : i \in 1 .. NumBanks} \cup
  {PeriphBaseAddr + o : o \in PeriphBounds}
\* What software addresses: the registers and units of the headers.
SoftwareAddrs ==
  {ArchiAddr(u) : u \in DOMAIN ArchiOffset} \cup
  {ArchiAddr("SOC_CTRL") + SocCtrlRegOffset[r] : r \in DOMAIN SocCtrlRegOffset} \cup
  {ARCHI_LOCAL_PRIV_ADDR(i) : i \in 0..2}
\* The last byte before a boundary and the first two words from it on.
BoundaryAddrs == {b + d - 1 : b \in Bounds \ {0}, d \in {0, 1, 5}} \cup {0} \cup SoftwareAddrs
=============================================================================
