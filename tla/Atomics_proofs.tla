--------------------------- MODULE Atomics_proofs ---------------------------
(***************************************************************************)
(* Proofs about Atomics, for words of any width and any number of requests *)
(* on their way.  Each translation is shown to mean the same; memory then  *)
(* agrees because every request on its way is the translation of what its  *)
(* manager sent (OnTheWay).                                                *)
(***************************************************************************)
EXTENDS Atomics, TLAPS

\* What a request has become so far.
OnTheWay ==
  /\ \A x \in axi : x.now = IF x.from = "obi" THEN ToAxi(x.first) ELSE x.first
  /\ \A x \in bank : x.now = IF x.from = "obi" THEN x.first ELSE ToObi(x.first)

Inv == TypeOK /\ EffectKept /\ OnTheWay

-----------------------------------------------------------------------------
(***************************************************************************)
(* The translations.                                                       *)
(***************************************************************************)
\* The complement of the complement.
LEMMA NotNot == \A w \in Word : Not(w) \in Word /\ Not(Not(w)) = w
  BY DEF Not, Word

\* What obi_to_axi sends is legal.
LEMMA ToAxiLegal ==
  ASSUME NEW r \in ObiLegal
  PROVE  ToAxi(r) \in AxiLegal
<1>1. r \in ObiReq /\ (IF r.we THEN r.atop # "lr" ELSE r.atop \in {"none", "lr"})
  BY DEF ObiLegal
<1>2. ToAxiData(r) \in Word
  BY <1>1, NotNot DEF ToAxiData, ObiReq
<1>3. ToAxiAtop(r) \in AtomicLoads \cup AtomicStores \cup {AtopNone, AtomicSwap}
  BY DEF ToAxiAtop, AtomicLoads, AxiOp
<1>4. ToAxiAtop(r) # AtopNone => r.atop \in Amo
  BY <1>1 DEF ToAxiAtop, ObiReq, Amo
<1>5. ToAxi(r) \in AxiReq
  BY <1>1, <1>2, <1>3 DEF ToAxi, AxiReq, ObiReq
<1> QED BY <1>1, <1>4, <1>5 DEF AxiLegal, ToAxi, Amo, ObiReq

\* What axi_to_obi sends is legal.
LEMMA ToObiLegal ==
  ASSUME NEW r \in AxiLegal
  PROVE  ToObi(r) \in ObiLegal
<1>1. r \in AxiReq /\ (r.atop # AtopNone => r.write /\ ~r.lock)
  BY DEF AxiLegal
<1>2. ToObiAtop(r) \in Amo \cup {"none", "lr", "sc"}
  BY <1>1 DEF ToObiAtop, Amo, AxiReq, AtomicLoads, AtomicStores, Atop, AxiOp, AtopNone, AtomicSwap
<1>3. IF r.write THEN ToObiAtop(r) # "lr" ELSE ToObiAtop(r) \in {"none", "lr"}
  BY <1>1 DEF ToObiAtop, AxiReq, AtomicLoads, AtomicStores, Atop, AxiOp, AtopNone, AtomicSwap
<1>4. r.wdata \in Word /\ Not(r.wdata) \in Word /\ r.write \in BOOLEAN
  BY <1>1, NotNot DEF AxiReq
<1> QED BY <1>2, <1>3, <1>4 DEF ToObi, ObiLegal, ObiReq

\* Out through one port and in through the other, a request is what it was.
LEMMA ThereAndBack ==
  ASSUME NEW r \in ObiLegal
  PROVE  ToObi(ToAxi(r)) = r
<1>1. r \in ObiReq /\ (IF r.we THEN r.atop # "lr" ELSE r.atop \in {"none", "lr"})
  BY DEF ObiLegal
<1> DEFINE x == ToAxi(r)
<1>2. /\ x.lock <=> r.atop \in {"lr", "sc"}
      /\ x.write = r.we
      /\ x.atop = ToAxiAtop(r) /\ x.wdata = ToAxiData(r)
  BY DEF ToAxi
<1>3. ToObiAtop(x) = r.atop
  <2> HIDE DEF x
  <2>1. CASE r.atop \in {"lr", "sc"}
    BY <1>1, <1>2, <2>1 DEF ToObiAtop
  <2>2. CASE r.atop = "none"
    <3>1. ~x.lock /\ x.atop = AtopNone /\ AtopNone # AtomicSwap
      BY <1>2, <2>2 DEF ToAxiAtop, AtopNone, AtomicSwap, Atop
    <3> QED BY <2>2, <3>1 DEF ToObiAtop
  <2>3. CASE r.atop = "swap"
    <3>1. ~x.lock /\ x.atop = AtomicSwap
      BY <1>2, <2>3 DEF ToAxiAtop
    <3> QED BY <2>3, <3>1 DEF ToObiAtop
  <2>4. CASE r.atop \in Amo \ {"swap"}
    <3>1. ~x.lock
      BY <1>2, <2>4 DEF Amo
    <3>2. /\ x.atop.class = "load"
          /\ x.atop.op = CASE r.atop = "add" -> "add" [] r.atop = "xor" -> "eor"
                           [] r.atop = "and" -> "clr" [] r.atop = "or" -> "set"
                           [] r.atop = "min" -> "smin" [] r.atop = "max" -> "smax"
                           [] r.atop = "minu" -> "umin" [] r.atop = "maxu" -> "umax"
      BY <1>2, <2>4 DEF ToAxiAtop, Atop, Amo
    <3>3. x.atop # AtopNone /\ x.atop # AtomicSwap
      BY <3>2 DEF AtopNone, AtomicSwap, Atop
    <3> QED BY <2>4, <3>1, <3>2, <3>3 DEF ToObiAtop, Amo
  <2> QED BY <1>1, <2>1, <2>2, <2>3, <2>4 DEF ObiReq
<1>4. (IF r.atop = "and" THEN Not(x.wdata) ELSE x.wdata) = r.wdata
  BY <1>1, <1>2, NotNot DEF ToAxiData, ObiReq
<1>5. ToObi(x) = [atop |-> r.atop, we |-> r.we, wdata |-> r.wdata]
  BY <1>2, <1>3, <1>4 DEF ToObi
<1>6. r = [atop |-> r.atop, we |-> r.we, wdata |-> r.wdata]
  BY <1>1 DEF ObiReq
<1> QED BY <1>5, <1>6

\* Clearing the bits of d is the AND with its complement.
LEMMA ClearIsAnd == \A m, d \in Word : m \cap Not(d) = m \ d
  BY DEF Not, Word

\* A transaction has the effect that AXI gives it.
LEMMA SameEffect ==
  ASSUME NEW r \in AxiLegal, NEW c \in Cell
  PROVE  ObiDo(ToObi(r), c) = AxiDo(r, c)
<1>1. r \in AxiReq /\ (r.atop # AtopNone => r.write /\ ~r.lock)
  BY DEF AxiLegal
<1> DEFINE x == ToObi(r)
<1>2. /\ x.atop = ToObiAtop(r) /\ x.we = r.write
      /\ x.wdata = IF ToObiAtop(r) = "and" THEN Not(r.wdata) ELSE r.wdata
  BY DEF ToObi
<1>3. r.lock \in BOOLEAN /\ r.write \in BOOLEAN /\ r.wdata \in Word /\ c.word \in Word
  BY <1>1 DEF AxiReq, Cell
<1>4. CASE r.lock
  <2>1. CASE r.write
    <3>1. ToObiAtop(r) = "sc"
      BY <1>4, <2>1 DEF ToObiAtop
    <3>2. x.atop = "sc" /\ x.wdata = r.wdata
      BY <1>2, <3>1
    <3>3. ObiDo(x, c) = StoreIfReserved(c, r.wdata)
      <4> HIDE DEF x
      <4> QED BY <3>2 DEF ObiDo
    <3>4. AxiDo(r, c) = StoreIfReserved(c, r.wdata)
      BY <1>4, <2>1 DEF AxiDo
    <3> QED BY <3>3, <3>4
  <2>2. CASE ~r.write
    <3>1. ToObiAtop(r) = "lr"
      BY <1>4, <2>2 DEF ToObiAtop
    <3>2. x.atop = "lr" /\ x.wdata = r.wdata
      BY <1>2, <3>1
    <3>3. ObiDo(x, c) = Reserve(c)
      <4> HIDE DEF x
      <4> QED BY <3>2 DEF ObiDo
    <3>4. AxiDo(r, c) = Reserve(c)
      BY <1>4, <2>2 DEF AxiDo
    <3> QED BY <3>3, <3>4
  <2> QED BY <2>1, <2>2
<1>5. CASE ~r.lock /\ r.atop \in {AtopNone, AtomicSwap}
  <2>1. /\ ToObiAtop(r) = IF r.atop = AtomicSwap THEN "swap" ELSE "none"
        /\ r.atop.class \notin {"load", "store"}
    BY <1>5 DEF ToObiAtop, AtopNone, AtomicSwap, Atop
  <2>2. r.atop = AtomicSwap => r.write
    BY <1>1 DEF AtopNone, AtomicSwap, Atop
  <2>3. x.wdata = r.wdata /\ x.atop \in {"swap", "none"} /\ (x.we <=> r.write)
    BY <1>2, <2>1
  <2>4. AxiValue(r.atop, c.word, r.wdata) = r.wdata
    BY <2>1 DEF AxiValue
  <2>5. ObiValue(x.atop, c.word, x.wdata) = r.wdata
    <3> HIDE DEF x
    <3> QED BY <2>3 DEF ObiValue
  <2>6. CASE r.write
    <3>1. AxiDo(r, c) = Store(r.wdata)
      BY <1>5, <2>4, <2>6 DEF AxiDo
    <3>2. ObiDo(x, c) = Store(r.wdata)
      <4> HIDE DEF x
      <4> QED BY <2>3, <2>5, <2>6 DEF ObiDo
    <3> QED BY <3>1, <3>2
  <2>7. CASE ~r.write
    <3>1. AxiDo(r, c) = c
      BY <1>5, <2>7 DEF AxiDo
    <3>2. x.atop = "none"
      BY <1>2, <2>1, <2>2, <2>7
    <3>3. ObiDo(x, c) = c
      <4> HIDE DEF x
      <4> QED BY <2>3, <2>7, <3>2 DEF ObiDo
    <3> QED BY <3>1, <3>3
  <2> QED BY <2>6, <2>7
<1>6. CASE ~r.lock /\ r.atop \in AtomicLoads \cup AtomicStores
  <2>1. PICK op \in AxiOp : r.atop.op = op /\ r.atop.class \in {"load", "store"}
    BY <1>6 DEF AtomicLoads, AtomicStores, Atop
  <2>2. r.atop # AtomicSwap /\ r.atop # AtopNone /\ r.write
    BY <1>1, <2>1 DEF AtomicSwap, AtopNone, Atop
  <2>3. AxiDo(r, c) = Store(AxiValue(r.atop, c.word, r.wdata))
    BY <1>6, <2>2 DEF AxiDo
  <2>4. ToObiAtop(r) \in Amo
    BY <1>6, <2>1, <2>2 DEF ToObiAtop, AxiOp, Amo
  <2>5. ObiDo(x, c) = Store(ObiValue(ToObiAtop(r), c.word, x.wdata))
    <3> HIDE DEF x
    <3> QED BY <1>2, <2>4 DEF ObiDo, Amo
  <2>6. ObiValue(ToObiAtop(r), c.word, x.wdata) = AxiValue(r.atop, c.word, r.wdata)
    <3>1. c.word \cap Not(r.wdata) = c.word \ r.wdata
      BY <1>3, ClearIsAnd
    <3> HIDE DEF x
    <3> QED BY <1>2, <1>6, <2>1, <2>2, <3>1 DEF ToObiAtop, ObiValue, AxiValue, AxiOp
  <2> QED BY <2>3, <2>5, <2>6
<1> QED BY <1>1, <1>4, <1>5, <1>6 DEF AxiReq

\* What comes out of axi_to_obi is an atomic where an atomic went in.
LEMMA AtomicIsAtomic ==
  ASSUME NEW r \in AxiLegal
  PROVE  ToObiAtop(r) \in Amo <=> r.atop # AtopNone
<1>1. r \in AxiReq /\ (r.atop # AtopNone => ~r.lock)
  BY DEF AxiLegal
<1>2. CASE r.atop = AtopNone
  <2>1. ToObiAtop(r) \in {"sc", "lr", "none"}
    BY <1>2 DEF ToObiAtop, AtopNone, AtomicSwap, Atop
  <2> QED BY <1>2, <2>1 DEF Amo
<1>3. CASE r.atop = AtomicSwap /\ r.atop # AtopNone
  BY <1>1, <1>3 DEF ToObiAtop, Amo
<1>4. CASE r.atop \notin {AtopNone, AtomicSwap}
  <2>1. r.atop.op \in AxiOp /\ ~r.lock
    BY <1>1, <1>4 DEF AxiReq, AtomicLoads, AtomicStores, Atop
  <2> QED BY <1>4, <2>1 DEF ToObiAtop, AxiOp, Amo
<1> QED BY <1>2, <1>3, <1>4

\* Requests leave memory a word and a reservation.
LEMMA ObiDoType ==
  ASSUME NEW r \in ObiLegal, NEW c \in Cell
  PROVE  ObiDo(r, c) \in Cell
<1>1. r.wdata \in Word /\ c.word \in Word
  BY DEF ObiLegal, ObiReq, Cell
<1>2. ObiValue(r.atop, c.word, r.wdata) \in Word
  <2>1. \A a, b \in Word : Xor(a, b) \in Word /\ a \cap b \in Word /\ a \cup b \in Word
    BY DEF Xor, Word
  <2>2. Add(c.word, r.wdata) \in Word
    <3>1. {i \in Bits : CarryInto(i, c.word, r.wdata)} \in Word
      BY DEF Word
    <3> QED BY <1>1, <2>1, <3>1 DEF Add
  <2>3. \A less : Least(less, c.word, r.wdata) \in Word /\ Least(less, r.wdata, c.word) \in Word
    BY <1>1 DEF Least
  <2> QED BY <1>1, <2>1, <2>2, <2>3 DEF ObiValue
<1>3. /\ Store(ObiValue(r.atop, c.word, r.wdata)) \in Cell
      /\ StoreIfReserved(c, r.wdata) \in Cell /\ Reserve(c) \in Cell
  BY <1>1, <1>2 DEF Store, StoreIfReserved, Reserve, Cell
<1> QED BY <1>3 DEF ObiDo

-----------------------------------------------------------------------------
(***************************************************************************)
(* The invariant.                                                          *)
(***************************************************************************)
\* The initial state satisfies it.
LEMMA InitInv == Init => Inv
<1> SUFFICES ASSUME Init PROVE Inv
  OBVIOUS
<1>1. \A w \in Word : Store(w) \in Cell
  BY DEF Store, Cell
<1>2. TypeOK
  BY <1>1 DEF Init, TypeOK
<1>3. EffectKept /\ OnTheWay
  BY DEF Init, EffectKept, OnTheWay
<1> QED BY <1>2, <1>3 DEF Inv

\* A request leaves.
LEMMA LeaveStep ==
  ASSUME Inv, Leave
  PROVE  Inv'
<1>1. PICK r \in obi : axi' = {[from |-> "obi", first |-> r, now |-> ToAxi(r)]}
  BY DEF Leave
<1>2. r \in ObiLegal /\ ToAxi(r) \in AxiLegal
  BY <1>1, ToAxiLegal DEF Inv, TypeOK
<1>3. TypeOK'
  <2>1. [from |-> "obi", first |-> r, now |-> ToAxi(r)] \in Sent(AxiLegal)
    BY <1>2 DEF Sent
  <2> QED BY <1>1, <2>1 DEF Inv, TypeOK, Leave
<1>4. OnTheWay'
  BY <1>1 DEF Inv, OnTheWay, Leave
<1> QED BY <1>3, <1>4 DEF Inv, EffectKept, Leave

\* A transaction enters.
LEMMA EnterStep ==
  ASSUME Inv, Enter
  PROVE  Inv'
<1>1. PICK x \in axi : bank' = {[from |-> x.from, first |-> x.first, now |-> ToObi(x.now)]}
  BY DEF Enter
<1>2. x \in Sent(AxiLegal) /\ x.now \in AxiLegal
  BY <1>1 DEF Inv, TypeOK, Sent
<1>3. ToObi(x.now) \in ObiLegal
  BY <1>2, ToObiLegal
<1>4. TypeOK'
  <2>1. [from |-> x.from, first |-> x.first, now |-> ToObi(x.now)] \in Sent(ObiLegal)
    BY <1>2, <1>3 DEF Sent
  <2> QED BY <1>1, <2>1 DEF Inv, TypeOK, Enter
<1>5. ToObi(x.now) = IF x.from = "obi" THEN x.first ELSE ToObi(x.first)
  <2>1. x.now = IF x.from = "obi" THEN ToAxi(x.first) ELSE x.first
    BY <1>1 DEF Inv, OnTheWay
  <2>2. CASE x.from = "obi"
    <3>1. x.first \in ObiLegal
      BY <1>2, <2>2 DEF Sent
    <3> QED BY <2>1, <2>2, <3>1, ThereAndBack
  <2>3. CASE x.from # "obi"
    BY <2>1, <2>3
  <2> QED BY <2>2, <2>3
<1>6. OnTheWay'
  <2>1. axi' = {}
    BY DEF Enter
  <2>2. \A y \in bank' : y.from = x.from /\ y.first = x.first /\ y.now = ToObi(x.now)
    BY <1>1
  <2> QED BY <1>5, <2>1, <2>2 DEF OnTheWay
<1> QED BY <1>4, <1>6 DEF Inv, EffectKept, Enter

\* Memory carries a request out, as its manager meant it.
LEMMA ExecuteStep ==
  ASSUME Inv, Execute
  PROVE  Inv'
<1>1. PICK x \in bank :
        /\ cell' = ObiDo(x.now, cell)
        /\ meant' = IF x.from = "obi" THEN ObiDo(x.first, meant) ELSE AxiDo(x.first, meant)
  BY DEF Execute
<1>2. /\ x \in Sent(ObiLegal) /\ cell \in Cell /\ meant = cell
      /\ x.now = IF x.from = "obi" THEN x.first ELSE ToObi(x.first)
  BY <1>1 DEF Inv, TypeOK, OnTheWay, EffectKept
<1>3. meant' = cell'
  <2>1. CASE x.from = "obi"
    BY <1>1, <1>2, <2>1
  <2>2. CASE x.from # "obi"
    <3>1. x.first \in AxiLegal
      BY <1>2, <2>2 DEF Sent
    <3> QED BY <1>1, <1>2, <2>2, <3>1, SameEffect
  <2> QED BY <2>1, <2>2
<1>4. cell' \in Cell
  <2>1. x.now \in ObiLegal
    BY <1>2 DEF Sent
  <2> QED BY <1>1, <1>2, <2>1, ObiDoType
<1>5. obi' = obi /\ axi' = axi /\ bank' = {}
  BY DEF Execute
<1>6. TypeOK'
  BY <1>3, <1>4, <1>5 DEF Inv, TypeOK
<1>7. OnTheWay'
  BY <1>5 DEF Inv, OnTheWay
<1> QED BY <1>3, <1>6, <1>7 DEF Inv, EffectKept

\* Every step keeps the invariant.
LEMMA StepInv == Inv /\ [Next]_vars => Inv'
<1> SUFFICES ASSUME Inv, [Next]_vars PROVE Inv'
  OBVIOUS
<1>1. CASE \E r \in ObiLegal : CoreRequest(r)
  BY <1>1 DEF CoreRequest, Inv, TypeOK, EffectKept, OnTheWay
<1>2. CASE Leave
  BY <1>2, LeaveStep
<1>3. CASE \E r \in AxiLegal : ManagerRequest(r)
  <2>1. PICK r \in AxiLegal : ManagerRequest(r)
    BY <1>3
  <2>2. [from |-> "axi", first |-> r, now |-> r] \in Sent(AxiLegal)
    BY DEF Sent
  <2>3. TypeOK'
    BY <2>1, <2>2 DEF Inv, TypeOK, ManagerRequest
  <2>4. OnTheWay'
    BY <2>1 DEF Inv, OnTheWay, ManagerRequest
  <2> QED BY <2>1, <2>3, <2>4 DEF Inv, EffectKept, ManagerRequest
<1>4. CASE Enter
  BY <1>4, EnterStep
<1>5. CASE Execute
  BY <1>5, ExecuteStep
<1>6. CASE UNCHANGED vars
  BY <1>6 DEF vars, Inv, TypeOK, EffectKept, OnTheWay
<1> QED BY <1>1, <1>2, <1>3, <1>4, <1>5, <1>6 DEF Next

\* The invariant holds.
LEMMA Invariant == Spec => []Inv
  BY InitInv, StepInv, PTL DEF Spec

-----------------------------------------------------------------------------
\* What the ports carry and the bank serves are requests of the two protocols.
THEOREM TypeCorrect == Spec => []TypeOK
<1>1. Inv => TypeOK
  BY DEF Inv
<1> QED BY <1>1, Invariant, PTL

\* Whatever the width and operands that obi_to_axi and axi_to_obi send have
\* the effect that the manager's own protocol gives them.
THEOREM EffectsAgree == Spec => []EffectKept
<1>1. Inv => EffectKept
  BY DEF Inv
<1> QED BY <1>1, Invariant, PTL

\* The two translations are inverse on OBI requests.
THEOREM Inverse == Spec => []RoundTrip
<1>1. Inv => RoundTrip
  BY DEF Inv, OnTheWay, RoundTrip
<1> QED BY <1>1, Invariant, PTL

\* An AXI atomic, load, store or swap, is an atomic at the memory's port.
THEOREM AtomicsKept == Spec => []AtomicsStayAtomic
<1>1. Inv => AtomicsStayAtomic
  <2> SUFFICES ASSUME Inv, NEW x \in bank, x.from = "axi"
               PROVE  x.now.atop \in Amo <=> x.first.atop # AtopNone
    BY DEF AtomicsStayAtomic
  <2>1. x.first \in AxiLegal /\ x.now = ToObi(x.first)
    BY DEF Inv, TypeOK, OnTheWay, Sent
  <2>2. x.now.atop = ToObiAtop(x.first)
    BY <2>1 DEF ToObi
  <2> QED BY <2>1, <2>2, AtomicIsAtomic
<1> QED BY <1>1, Invariant, PTL
=============================================================================
