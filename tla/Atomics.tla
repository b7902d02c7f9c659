------------------------------ MODULE Atomics ------------------------------
(***************************************************************************)
(* Atomic operations on their way through the island's two AXI ports: an   *)
(* OBI request leaves through obi_to_axi as an AXI transaction, and an AXI *)
(* transaction, that one or another manager's, enters through axi_to_obi   *)
(* as an OBI request, which the atomics unit in front of a memory bank     *)
(* carries out.  The two protocols do not have the same operations (AXI    *)
(* clears bits where OBI does an AND) nor the same names for them.         *)
(*                                                                         *)
(* Memory is one word and its reservation; a word is the set of its bits   *)
(* that are one.  Beside memory we keep what it would be had each request  *)
(* been carried out as its own protocol means it.                          *)
(***************************************************************************)
EXTENDS Naturals

CONSTANTS
  Width,       \* bits of a word
  MaxInFlight  \* bound: requests on their way

ASSUME AtomicsAssumption == Width \in Nat \ {0} /\ MaxInFlight \in Nat \ {0}

VARIABLES
  obi,    \* the request at obi_to_axi: {} or {it}
  axi,    \* the transaction at axi_to_obi
  bank,   \* the request at the memory
  cell,   \* memory
  meant   \* history: what memory should be

vars == <<obi, axi, bank, cell, meant>>

Bits == 0 .. Width - 1
Word == SUBSET Bits
Not(w) == Bits \ w

-----------------------------------------------------------------------------
(***************************************************************************)
(* The protocols.                                                          *)
(***************************************************************************)
\* obi_pkg: operations that write, besides ATOPSC; "none" is a plain access.
Amo == {"swap", "add", "xor", "and", "or", "min", "max", "minu", "maxu"}
ObiReq == [atop : Amo \cup {"none", "lr", "sc"}, we : BOOLEAN, wdata : Word]
\* A read may be plain or load-reserved, all else writes.
ObiLegal == {r \in ObiReq : IF r.we THEN r.atop # "lr" ELSE r.atop \in {"none", "lr"}}

\* axi_pkg: atop is a class, here "none", "store", "load" or "swap", and, in its lower
\* bits, an operation.
AxiOp == {"add", "clr", "eor", "set", "smax", "smin", "umax", "umin"}
Atop(class, op) == [class |-> class, op |-> op]
AtopNone == Atop("none", "add")
AtomicSwap == Atop("swap", "add")
AtomicLoads == {Atop("load", op) : op \in AxiOp}
AtomicStores == {Atop("store", op) : op \in AxiOp}
AxiReq ==
  [lock : BOOLEAN, atop : AtomicLoads \cup AtomicStores \cup {AtopNone, AtomicSwap},
   write : BOOLEAN, wdata : Word]
\* Atomics are writes, and not exclusive; big-endian ones and compare-and-swap are not sent.
AxiLegal == {r \in AxiReq : r.atop # AtopNone => r.write /\ ~r.lock}

-----------------------------------------------------------------------------
(***************************************************************************)
(* Arithmetic on words.                                                    *)
(***************************************************************************)
Xor(a, b) == (a \ b) \cup (b \ a)

CarryInto(i, a, b) ==
  \E j \in 0 .. i - 1 : j \in a \cap b /\ \A k \in j + 1 .. i - 1 : k \in a \cup b
Add(a, b) == Xor(Xor(a, b), {i \in Bits : CarryInto(i, a, b)})

Below(a, b) == \E i \in b \ a : \A j \in Bits : j > i => (j \in a <=> j \in b)
BelowSigned(a, b) == Below(Xor(a, {Width - 1}), Xor(b, {Width - 1}))
Least(less, a, b) == IF less THEN a ELSE b

Cell == [word : Word, reserved : BOOLEAN]
Store(w) == [word |-> w, reserved |-> FALSE]
Reserve(c) == [c EXCEPT !.reserved = TRUE]
StoreIfReserved(c, w) == IF c.reserved THEN Store(w) ELSE c

\* Memory after an OBI request.
ObiValue(atop, m, d) ==
  CASE atop = "add"  -> Add(m, d)
    [] atop = "xor"  -> Xor(m, d)
    [] atop = "and"  -> m \cap d
    [] atop = "or"   -> m \cup d
    [] atop = "min"  -> Least(BelowSigned(m, d), m, d)
    [] atop = "max"  -> Least(BelowSigned(m, d), d, m)
    [] atop = "minu" -> Least(Below(m, d), m, d)
    [] atop = "maxu" -> Least(Below(m, d), d, m)
    [] OTHER         -> d
ObiDo(r, c) ==
  CASE r.atop = "lr" -> Reserve(c)
    [] r.atop = "sc" -> StoreIfReserved(c, r.wdata)
    [] r.atop = "none" /\ ~r.we -> c
    [] OTHER -> Store(ObiValue(r.atop, c.word, r.wdata))

\* Memory after an AXI transaction.
AxiValue(atop, m, d) ==
  IF atop.class \notin {"load", "store"} THEN d
  ELSE CASE atop.op = "add"  -> Add(m, d)
         [] atop.op = "clr"  -> m \ d
         [] atop.op = "eor"  -> Xor(m, d)
         [] atop.op = "set"  -> m \cup d
         [] atop.op = "smax" -> Least(BelowSigned(m, d), d, m)
         [] atop.op = "smin" -> Least(BelowSigned(m, d), m, d)
         [] atop.op = "umax" -> Least(Below(m, d), d, m)
         [] atop.op = "umin" -> Least(Below(m, d), m, d)
AxiDo(r, c) ==
  CASE r.lock /\ r.write  -> StoreIfReserved(c, r.wdata)
    [] r.lock /\ ~r.write -> Reserve(c)
    [] ~r.lock /\ ~r.write -> c
    [] OTHER -> Store(AxiValue(r.atop, c.word, r.wdata))

-----------------------------------------------------------------------------
(***************************************************************************)
(* The translations.                                                       *)
(***************************************************************************)
\* Mutant: the operand of the AND is not inverted.
ToAxiData_plain(r) == r.wdata

\* obi_to_axi: the data of an AND is inverted, AXI clears the bits that are one.
ToAxiData(r) == IF r.atop = "and" THEN Not(r.wdata) ELSE r.wdata

ToAxiAtop(r) ==
  CASE r.atop = "swap" -> AtomicSwap
    [] r.atop = "add"  -> Atop("load", "add")
    [] r.atop = "xor"  -> Atop("load", "eor")
    [] r.atop = "and"  -> Atop("load", "clr")
    [] r.atop = "or"   -> Atop("load", "set")
    [] r.atop = "min"  -> Atop("load", "smin")
    [] r.atop = "max"  -> Atop("load", "smax")
    [] r.atop = "minu" -> Atop("load", "umin")
    [] r.atop = "maxu" -> Atop("load", "umax")
    [] OTHER -> AtopNone

ToAxi(r) ==
  [lock |-> r.atop \in {"lr", "sc"}, atop |-> ToAxiAtop(r), write |-> r.we, wdata |-> ToAxiData(r)]

\* Mutant: only atomic loads are taken for atomics.
ToObiAtop_loads(r) ==
  IF r.lock THEN (IF r.write THEN "sc" ELSE "lr")
  ELSE IF r.atop = AtomicSwap \/ r.atop.class # "load" THEN "none"
  ELSE CASE r.atop.op = "add" -> "add" [] r.atop.op = "clr" -> "and" [] r.atop.op = "eor" -> "xor"
         [] r.atop.op = "set" -> "or" [] r.atop.op = "smin" -> "min" [] r.atop.op = "smax" -> "max"
         [] r.atop.op = "umin" -> "minu" [] r.atop.op = "umax" -> "maxu"

\* axi_to_obi: the swap is recognised as a whole, other atomics by their operation, be they
\* loads or stores.
ToObiAtop(r) ==
  IF r.lock THEN (IF r.write THEN "sc" ELSE "lr")
  ELSE IF r.atop = AtomicSwap THEN "swap"
  ELSE IF r.atop = AtopNone THEN "none"
  ELSE CASE r.atop.op = "add"  -> "add"
         [] r.atop.op = "eor"  -> "xor"
         [] r.atop.op = "clr"  -> "and"
         [] r.atop.op = "set"  -> "or"
         [] r.atop.op = "smin" -> "min"
         [] r.atop.op = "smax" -> "max"
         [] r.atop.op = "umin" -> "minu"
         [] r.atop.op = "umax" -> "maxu"

\* Mutant: both adapters write.
ToObi_writes(r) ==
  [atop |-> ToObiAtop(r), we |-> TRUE,
   wdata |-> IF ToObiAtop(r) = "and" THEN Not(r.wdata) ELSE r.wdata]

\* The OBI port of a bank; we says which of the two adapters the request comes from.
ToObi(r) ==
  [atop |-> ToObiAtop(r), we |-> r.write,
   wdata |-> IF ToObiAtop(r) = "and" THEN Not(r.wdata) ELSE r.wdata]

-----------------------------------------------------------------------------
Init ==
  /\ obi = {} /\ axi = {} /\ bank = {}
  /\ cell \in {Store(w) : w \in Word}
  /\ meant = cell

Size(slot) == IF slot = {} THEN 0 ELSE 1
HasRoom == Size(obi) + Size(axi) + Size(bank) < MaxInFlight

\* An OBI manager of the island sends a request out.
CoreRequest(r) ==
  /\ obi = {} /\ HasRoom
  /\ obi' = {r}
  /\ UNCHANGED <<axi, bank, cell, meant>>

\* obi_to_axi, and an interconnect that leads back in.  The first request goes along.
Leave ==
  /\ axi = {}
  /\ \E r \in obi : axi' = {[from |-> "obi", first |-> r, now |-> ToAxi(r)]}
  /\ obi' = {}
  /\ UNCHANGED <<bank, cell, meant>>

\* An AXI manager elsewhere sends a transaction in.
ManagerRequest(r) ==
  /\ axi = {} /\ HasRoom
  /\ axi' = {[from |-> "axi", first |-> r, now |-> r]}
  /\ UNCHANGED <<obi, bank, cell, meant>>

\* axi_to_obi.
Enter ==
  /\ bank = {}
  /\ \E x \in axi : bank' = {[from |-> x.from, first |-> x.first, now |-> ToObi(x.now)]}
  /\ axi' = {}
  /\ UNCHANGED <<obi, cell, meant>>

\* The memory's atomics unit.
Execute ==
  /\ \E x \in bank :
       /\ cell' = ObiDo(x.now, cell)
       /\ meant' = IF x.from = "obi" THEN ObiDo(x.first, meant) ELSE AxiDo(x.first, meant)
  /\ bank' = {}
  /\ UNCHANGED <<obi, axi>>

Next ==
  \/ \E r \in ObiLegal : CoreRequest(r)
  \/ Leave
  \/ \E r \in AxiLegal : ManagerRequest(r)
  \/ Enter
  \/ Execute

Spec == Init /\ [][Next]_vars

-----------------------------------------------------------------------------
(***************************************************************************)
(* Properties.                                                             *)
(***************************************************************************)
Sent(now) ==
  [from : {"obi"}, first : ObiLegal, now : now] \cup [from : {"axi"}, first : AxiLegal, now : now]

\* Every variable has its type.
TypeOK ==
  /\ obi \subseteq ObiLegal
  /\ axi \subseteq Sent(AxiLegal)
  /\ bank \subseteq Sent(ObiLegal)
  /\ cell \in Cell /\ meant \in Cell

\* Memory is what the protocol of each request's own manager means it to be: the
\* translations of operations, operands and exclusives of the two ports agree.
EffectKept == cell = meant

\* A request that left through obi_to_axi and entered through axi_to_obi is again what it was.
RoundTrip == \A x \in bank : x.from = "obi" => x.now = x.first

\* An AXI atomic reaches memory as an atomic, and nothing else does: a swap and a plain
\* write have the same effect, but not between two accesses of others.
AtomicsStayAtomic ==
  \A x \in bank : x.from = "axi" => (x.now.atop \in Amo <=> x.first.atop # AtopNone)
=============================================================================
