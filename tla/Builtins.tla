------------------------------ MODULE Builtins ------------------------------
(***************************************************************************)
(* The arithmetic macros of the boot headers in their two forms: as        *)
(* instructions of the PULP core (builtins_v2.h), and in plain C for cores *)
(* without them (builtins_v2_emu.h).  A program calls a macro with the     *)
(* same operands in a build of either form; what either build may leave in *)
(* the result register is a set of words, empty where it does not compile. *)
(*                                                                         *)
(* Words are numbers below 2^Width; halves and bytes are a half and a      *)
(* quarter of a word.  What the instructions do is external, their         *)
(* operands are those that the header hands them.                          *)
(***************************************************************************)
EXTENDS Integers, FiniteSetsExt

CONSTANTS
  LogWidth,    \* a register field for a position or a size is as wide
  Operands,    \* words that the program uses as operands
  Addends      \* words that it accumulates into

Width == 2 ^ LogWidth
Half == Width \div 2

Words == 0 .. 2 ^ Width - 1

ASSUME BuiltinsAssumption ==
  LogWidth \in Nat \ {0, 1} /\ Operands \subseteq Words /\ Addends \subseteq Words

VARIABLES
  charSigned, \* plain char is signed, as on most hosts, or unsigned, as on RISC-V
  call,       \* the macro and its operands
  pulp,       \* what the build with instructions may compute
  emu         \* what the build in C may compute

vars == <<charSigned, call, pulp, emu>>

Unsigned(v, w) == v % 2 ^ w

\* Two's complement.
Signed(v, w) == IF Unsigned(v, w) < 2 ^ (w - 1) THEN Unsigned(v, w) ELSE Unsigned(v, w) - 2 ^ w

\* The type a cast names: "s" signed, "u" unsigned.
Cast(type, v, w) == IF type = "s" THEN Signed(v, w) ELSE Unsigned(v, w)

ToWord(v) == Unsigned(v, Width)

\* v >> n: of an int arithmetic, of an unsigned int logical.
Shift(type, v, n) == ToWord(Cast(type, v, Width) \div 2 ^ n)

FitsInt(v) == Signed(v, Width) = v

-----------------------------------------------------------------------------
(***************************************************************************)
(* Vectors.                                                                *)
(***************************************************************************)
ElemWidth(lanes) == Width \div lanes

\* Element k of vector v.
Elem(type, v, lanes, k) == Cast(type, v \div 2 ^ (k * ElemWidth(lanes)), ElemWidth(lanes))

Packed(elem(_), lanes) ==
  SumFunction([k \in 0 .. lanes - 1 |-> Unsigned(elem(k), ElemWidth(lanes)) * 2 ^ (k * ElemWidth(lanes))])

LaneCalls ==
  [fam : {"lane"}, op : {"MAX", "MIN"}, type : {"s", "u"}, lanes : {2, 4}, x : Operands, y : Operands]
  \cup [fam : {"lane"}, op : {"ABS"}, type : {"s"}, lanes : {2, 4}, x : Operands, y : Operands]

\* Every element by itself.
Lanewise(c, type) ==
  LET a(k) == Elem(type, c.x, c.lanes, k)
      b(k) == Elem(type, c.y, c.lanes, k)
  IN  Packed(LAMBDA k : CASE c.op = "MAX" -> IF a(k) > b(k) THEN a(k) ELSE b(k)
                          [] c.op = "MIN" -> IF a(k) < b(k) THEN a(k) ELSE b(k)
                          [] c.op = "ABS" -> IF a(k) < 0 THEN - a(k) ELSE a(k), c.lanes)

\* DOTP, DOTPU, DOTPUS, and with a scalar as second operand ("SC"), without and
\* with an addend (SUMDOTP).
DotCalls ==
  [fam : {"dot"}, types : {<<"s", "s">>, <<"u", "u">>, <<"u", "s">>},
   scalar : BOOLEAN, sum : BOOLEAN, lanes : {2, 4}, x : Operands, y : Operands, z : Addends]

Dot(c, types) ==
  ToWord((IF c.sum THEN c.z ELSE 0)
         + SumFunction([k \in 0 .. c.lanes - 1 |->
                          Elem(types[1], c.x, c.lanes, k)
                          * Elem(types[2], c.y, c.lanes, IF c.scalar THEN 0 ELSE k)]))

\* The C type of an element: bytes that are meant to be signed are plain char.
CType(type, lanes) == IF type = "s" /\ lanes = 4 /\ ~charSigned THEN "u" ELSE type

\* Mutant: plain char in MAX, MIN and ABS, too.
LaneType_plain(c) == CType(c.type, c.lanes)

\* MAX and MIN spell out "signed char".
LaneType(c) == c.type

-----------------------------------------------------------------------------
(***************************************************************************)
(* Scalars.                                                                *)
(***************************************************************************)
\* MUL and MAC of low or high ("HH") halves, plain, normalised ("N"), or rounded
\* and normalised ("RN"): the factors x and y, the addend z, the scale n.
Factor(c, v) == Cast(c.type, IF c.high THEN v \div 2 ^ Half ELSE v, Half)

Sum(c) == (IF c.acc THEN Cast(c.type, c.z, Width) ELSE 0) + Factor(c, c.x) * Factor(c, c.y)

\* Mutant: the rounding constant is one bit too high.
Round_high(n) == 2 ^ n

\* 1 << (n - 1): half of the last bit that is kept.
Round(n) == 2 ^ (n - 1)

PulpMul(c) ==
  CASE c.post = "" -> {ToWord(Sum(c))}
    [] c.post = "N" -> {Shift(c.type, Sum(c), c.n)}
    [] c.post = "RN" -> {Shift(c.type, Sum(c) + 2 ^ (c.n - 1), c.n)}

\* MACHHSRN and MACHHURN hand five operands to the instruction that takes four.
PulpRefuses(c) == c.fam = "mul" /\ c.acc /\ c.high /\ c.post = "RN"

\* The product of two unsigned halves is an int: where it does not fit, the shift
\* may be arithmetic or logical.
ShiftsOf(c, v) ==
  IF c.type = "u" /\ ~c.acc /\ ~FitsInt(v) THEN {Shift("s", v, c.n), Shift("u", v, c.n)}
  ELSE {Shift(c.type, v, c.n)}

\* MACHHURN adds the number of bits and does not shift.
EmuMul(c) ==
  CASE c.post = "" -> {ToWord(Sum(c))}
    [] c.post = "N" -> ShiftsOf(c, Sum(c))
    [] c.post = "RN" -> IF c.acc /\ c.high /\ c.type = "u" THEN {ToWord(Sum(c) + c.n)}
                        ELSE ShiftsOf(c, Sum(c) + Round(c.n))

\* What is rounded away is at least a bit; signed sums do not overflow an int.
MulCalls ==
  {c \in [fam : {"mul"}, acc : BOOLEAN, high : BOOLEAN, type : {"s", "u"}, post : {"", "N", "RN"},
          x : Operands, y : Operands, z : Addends, n : 0 .. Half] :
     /\ c.post = "" => c.n = 0
     /\ c.post = "RN" => c.n > 0
     /\ c.type = "s" => FitsInt(Sum(c) + IF c.post = "RN" THEN Round(c.n) ELSE 0)}

\* ADDNORM and SUBNORM, rounded or not; ROUNDNORM is the sum with 0.
NormSum(c) ==
  LET a == Cast(c.type, c.x, Width)
      b == Cast(c.type, c.y, Width)
  IN  (IF c.minus THEN a - b ELSE a + b)

PulpNorm(c) == {Shift(c.type, NormSum(c) + (IF c.round THEN 2 ^ (c.n - 1) ELSE 0), c.n)}
EmuNorm(c) == {Shift(c.type, NormSum(c) + (IF c.round THEN Round(c.n) ELSE 0), c.n)}

NormCalls ==
  {c \in [fam : {"norm"}, minus : BOOLEAN, round : BOOLEAN, type : {"s", "u"},
          x : Operands, y : Operands, n : 1 .. Half] :
     c.type = "s" => FitsInt(NormSum(c) + IF c.round THEN Round(c.n) ELSE 0)}

\* The program adds what is clipped to z; n is the precision, or the bound (_R).
ClipCalls ==
  [fam : {"clip"}, op : {"CLIP", "CLIPU", "CLIP_R", "CLIPU_R"},
   x : Operands, z : Addends, n : 1 .. Width - 2]

Within(v, lo, hi) == IF v < lo THEN lo ELSE IF v > hi THEN hi ELSE v

Upper(c) == IF c.op \in {"CLIP", "CLIPU"} THEN 2 ^ c.n - 1 ELSE c.n
Lower(c) == IF c.op \in {"CLIP", "CLIP_R"} THEN - Upper(c) - 1 ELSE 0

PulpClip(c) == {ToWord(c.z + Within(Signed(c.x, Width), Lower(c), Upper(c)))}

\* CLIPU has no parentheses: the sum becomes part of its condition.
EmuClip(c) ==
  LET v == Signed(c.x, Width)
      Negative == IF v < 0 THEN 1 ELSE 0
  IN  IF c.op = "CLIPU"
      THEN {IF ToWord(c.z + Negative) # 0 THEN 0 ELSE ToWord(Within(v, v, Upper(c)))}
      ELSE {ToWord(c.z + Within(v, Lower(c), Upper(c)))}

-----------------------------------------------------------------------------
(***************************************************************************)
(* Bit fields, on words as sets of bits.                                   *)
(***************************************************************************)
All == 0 .. Width - 1

\* form: operands as immediates, in a register, in a register and masked (SAFE).
\* Fields of n bits from bit o that are inside the word; an empty or a longer one
\* has no meaning in either form.  y is what is inserted.
FieldCalls ==
  {c \in [fam : {"field"}, op : {"SET", "CLR", "EXTRACT", "EXTRACTU", "INSERT"}, form : {"imm", "R", "SAFE"},
          x : Operands, y : Operands \cup {0}, n : 1 .. Width, o : All] :
     /\ c.o + c.n <= Width
     /\ IF c.op = "INSERT" THEN c.y \in Operands ELSE c.y = 0}

Bits(v) == {k \in All : (v \div 2 ^ k) % 2 = 1}

WordOf(bits) == CHOOSE v \in Words : Bits(v) = bits

\* Shifted by o; bits fall out at the ends.
Up(bits, o) == {k + o : k \in bits} \cap All
Down(bits, o) == {k - o : k \in bits} \cap All

\* (1 << size) - 1.  A shift by the width of a word is undefined in C: the
\* shifter leaves 1, a compiler that evaluates it 0.
CMask(size) == IF size < Width THEN {0 .. size - 1} ELSE {{}, All}

\* What becomes of x when the instruction is told a field by its bits.
Operate(c, field) ==
  LET x == Bits(c.x)
      low == Down(x \cap field, c.o)
  IN  CASE c.op = "SET" -> x \cup field
        [] c.op = "CLR" -> x \ field
        [] c.op = "EXTRACTU" -> low
        [] c.op = "EXTRACT" -> low \cup {k \in All : Max(field) \in x /\ c.o + k > Max(field)}
        [] c.op = "INSERT" -> (x \ field) \cup (Up(Bits(c.y), c.o) \cap field)

\* Mutant: the size is stored as it is.
ExtInsMask_size(c) == (c.n % Width) * Width + (c.o % Width)

\* The operand of the register forms: size - 1 above the offset.
ExtInsMask(c) ==
  IF c.form = "SAFE" THEN ((c.n - 1) % Width) * Width + (c.o % Width) ELSE (c.n - 1) * Width + c.o

\* How the instruction reads it.
FieldOf(mask) == LET o == mask % Width IN o .. o + ((mask \div Width) % Width)

\* As immediates the instructions get a mask from C, but for extraction.
PulpField(c) ==
  IF c.form = "imm" /\ c.op \notin {"EXTRACT", "EXTRACTU"}
  THEN {WordOf(Operate(c, Up(m, c.o))) : m \in CMask(c.n)}
  ELSE {WordOf(Operate(c, IF c.form = "imm" THEN c.o .. c.o + c.n - 1 ELSE FieldOf(ExtInsMask(c))))}

\* In C the mask comes first, and an extracted field is not extended by its sign:
\* the mask made it unsigned.  The safe forms of set and clear cut the size off.
EmuField(c) ==
  LET Mask == IF c.form = "SAFE" /\ c.op \in {"SET", "CLR"} THEN CMask(c.n % Width) ELSE CMask(c.n)
      Result(m) == CASE c.op = "SET" -> Bits(c.x) \cup Up(m, c.o)
                     [] c.op = "CLR" -> Bits(c.x) \ Up(m, c.o)
                     [] c.op \in {"EXTRACT", "EXTRACTU"} -> Down(Bits(c.x), c.o) \cap m
                     [] c.op = "INSERT" -> (Bits(c.x) \ Up(m, c.o)) \cup Up(Bits(c.y) \cap m, c.o)
  IN  {WordOf(Result(m)) : m \in Mask}

\* The position of a bit in 0 is undefined.
BitCalls == [fam : {"bit"}, op : {"FL1", "ROTR"}, x : Operands \ {0}]

\* Position of the most significant bit of x; rotation by one bit.
PulpBit(c) ==
  {IF c.op = "FL1" THEN Max(Bits(c.x)) ELSE c.x \div 2 + (c.x % 2) * 2 ^ (Width - 1)}

LeadingZeros(v) == CHOOSE n \in 0 .. Width : 2 ^ (Width - n) > v /\ 2 ^ (Width - n - 1) <= v

\* The arithmetic shift's sign bit is masked.
EmuBit(c) ==
  {IF c.op = "FL1" THEN Width - 1 - LeadingZeros(c.x)
   ELSE WordOf((Bits(Shift("s", c.x, 1)) \ {Width - 1}) \cup Up(Bits(c.x), Width - 1))}

-----------------------------------------------------------------------------
(***************************************************************************)
(* A call of the program.                                                  *)
(***************************************************************************)
None == [fam |-> "none"]

Init ==
  /\ charSigned \in BOOLEAN
  /\ call = None /\ pulp = {} /\ emu = {}

\* The program calls macro c: what the two builds make of it.
Call(c, byPulp, byEmu) ==
  /\ call' = c /\ pulp' = byPulp /\ emu' = byEmu
  /\ UNCHANGED charSigned

CallLane == call = None /\ \E c \in LaneCalls : Call(c, {Lanewise(c, c.type)}, {Lanewise(c, LaneType(c))})

CallDot ==
  /\ call = None
  /\ \E c \in DotCalls :
       Call(c, {Dot(c, c.types)}, {Dot(c, [k \in 1 .. 2 |-> CType(c.types[k], c.lanes)])})

CallMul == call = None /\ \E c \in MulCalls : Call(c, IF PulpRefuses(c) THEN {} ELSE PulpMul(c), EmuMul(c))

CallNorm == call = None /\ \E c \in NormCalls : Call(c, PulpNorm(c), EmuNorm(c))

CallClip == call = None /\ \E c \in ClipCalls : Call(c, PulpClip(c), EmuClip(c))

CallField == call = None /\ \E c \in FieldCalls : Call(c, PulpField(c), EmuField(c))

CallBit == call = None /\ \E c \in BitCalls : Call(c, PulpBit(c), EmuBit(c))

Next ==
  \/ CallLane \/ CallDot \/ CallMul \/ CallNorm \/ CallClip \/ CallField \/ CallBit

Spec == Init /\ [][Next]_vars

-----------------------------------------------------------------------------
(***************************************************************************)
(* Properties.                                                             *)
(***************************************************************************)
\* An element of either vector that is meant to be signed and is negative.
NegativeByte(c) ==
  /\ c.lanes = 4
  /\ \E k \in 0 .. 3 : \/ c.types[1] = "s" /\ Elem("s", c.x, 4, k) < 0
                       \/ c.types[2] = "s" /\ Elem("s", c.y, 4, k) < 0

\* Vectors are the same in both builds, but for sums of products with negative
\* bytes where plain char is unsigned: MAX, MIN and ABS spell out signed char.
VectorsAgree ==
  /\ call.fam = "lane" => pulp = emu
  /\ call.fam = "dot" /\ (charSigned \/ ~NegativeByte(call)) => pulp = emu

\* Products, sums and clipped values are the same, unless the instructions' header
\* calls them wrongly, a product of unsigned halves that does not fit into an int
\* is shifted, the C form adds the scale (MACHHURN is both), or a CLIPU is not
\* the first operand of an expression; the first two are always different.
ScalarsAgree ==
  /\ call.fam = "mul" =>
       (pulp # emu <=>
          \/ PulpRefuses(call)
          \/ /\ call.type = "u" /\ ~call.acc /\ call.post # "" /\ call.n > 0
             /\ ~FitsInt(Sum(call) + IF call.post = "RN" THEN 2 ^ (call.n - 1) ELSE 0))
  /\ call.fam = "clip" => pulp = emu \/ (call.op = "CLIPU" /\ call.z # 0)
  /\ call.fam \in {"norm", "bit"} => pulp = emu

\* Bit fields are the same but in two cases, where they are not: a signed field
\* whose sign bit is set, and a field of the whole word, which C's masks cannot
\* express, unless nothing changes by it or both headers use such a mask.
FieldsAgree ==
  call.fam = "field" =>
    (pulp # emu <=>
       \/ call.op = "EXTRACT" /\ call.n < Width /\ call.o + call.n - 1 \in Bits(call.x)
       \/ /\ call.n = Width
          /\ call.form = "imm" => call.op \in {"EXTRACT", "EXTRACTU"}
          /\ CASE call.op = "SET" -> call.x # WordOf(All)
               [] call.op = "INSERT" -> call.x # call.y
               [] OTHER -> call.x # 0)
=============================================================================
