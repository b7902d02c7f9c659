----------------------------- MODULE MCAxiToMem -----------------------------
(***************************************************************************)
(* Instances of AxiToMem for TLC: two banks of four bytes, as between the  *)
(* island's 64-bit AXI and its 32-bit OBI.                                 *)
(***************************************************************************)
EXTENDS AxiToMem

Shape(len, addr, size, qos, atop) ==
  [len |-> len, addr |-> addr, size |-> size, qos |-> qos, atop |-> atop]
None == [err |-> {}, exok |-> {}, ecc |-> {}]
NoShapes == {}

\* Arbitration: single beats and bursts, two QoS values, fault-free memory.
ArbReads  == {Shape(0, 0, 3, 0, FALSE), Shape(2, 2, 2, 0, FALSE)}
ArbWrites ==
  {Shape(0, 0, 3, 0, FALSE), Shape(0, 8, 3, 1, FALSE), Shape(1, 5, 1, 0, FALSE), Shape(0, 0, 3, 0, TRUE)}
AnyStrobe == {Banks}
Quiet == {None}

\* Reads as wide as the AXI data.
WideReads == {Shape(0, 0, 3, 0, FALSE), Shape(1, 8, 3, 0, FALSE)}
\* Reads of one word and of two words, around multiples of 32 bytes.
AllReads ==
  {Shape(0, a, 2, 0, FALSE) : a \in {0, 4, 28, 32, 36, 60, 64}} \cup
  {Shape(0, a, 3, 0, FALSE) : a \in {0, 24, 32, 56, 64}}
\* Writes, single, in bursts and atomic, and faults of some banks.
SomeWrites == {Shape(0, 0, 3, 0, FALSE), Shape(1, 0, 3, 0, FALSE), Shape(0, 0, 3, 0, TRUE)}
SomeStrobes == {{}, {1}, Banks}
FaultAnswers ==
  {None, [err |-> {1}, exok |-> {}, ecc |-> {}], [err |-> {}, exok |-> Banks, ecc |-> {0}],
   [err |-> {0}, exok |-> {1}, ecc |-> {1}]}
\* The write of the least run in which B is kept waiting.
OneWrite == {Shape(0, 0, 3, 0, FALSE)}
=============================================================================
