--------------------------- MODULE AxiToMem_proofs --------------------------
(***************************************************************************)
(* Proofs about axi_to_detailed_mem_user for every number and width of     *)
(* banks, every depth of its buffers, every shape of bursts and every      *)
(* behaviour of the memory, whether or not reads and writes share it.      *)
(***************************************************************************)
EXTENDS AxiToMem, SequenceTheorems, FiniteSetTheorems, TLAPS

-----------------------------------------------------------------------------
(***************************************************************************)
(* The inductive invariant.                                                *)
(***************************************************************************)
\* The memory never has more beats in flight than it may have.
Room == Len(ans) + Len(mem) <= BufDepth

\* The arbiter is locked while a beat is stalled in the fork.
LockHolds == lock <=> forked # {}

\* The address of the i-th beat of burst b.
AddrOf(b, i) ==
  IF i = 0 THEN b.addr ELSE Aligned(b.addr, b.size) + i * NumBytes(b.size)
Sound(e) == e.i <= e.of.len /\ (e.last <=> e.i = e.of.len) /\ e.addr = AddrOf(e.of, e.i)
Before(e, f) == e.of.n < f.of.n \/ (e.of = f.of /\ e.i < f.i)

\* A direction with c beats left of its burst, the latest being m, the burst o on
\* its address channel and n bursts offered so far.
Going(c, m, o, n, wr) ==
  /\ o # NoBurst => o.write = wr /\ o.n = n
  /\ c > 0 => /\ m \in BeatType /\ m.of.write = wr /\ m.i + c = m.of.len
              /\ m.addr = Aligned(m.of.addr, m.of.size) + m.i * NumBytes(m.of.size)
              /\ IF o # NoBurst THEN m.of.n < n ELSE m.of.n <= n
\* The beat e left it before.
Older(e, c, m, o, n) ==
  /\ IF o # NoBurst THEN e.of.n < n ELSE e.of.n <= n
  /\ c > 0 => e.of.n < m.of.n \/ (e.of = m.of /\ e.i <= m.i)

ReadsGo == Going(rcnt, rmeta, ar, nr, FALSE)
WritesGo == Going(wcnt, wmeta, aw, nw, TRUE)

OlderThanNext(e) ==
  IF e.of.write THEN Older(e, wcnt, wmeta, aw, nw) ELSE Older(e, rcnt, rmeta, ar, nr)
BeatsOlder == \A k \in 1 .. Left : OlderThanNext(buf[k])

BeatsSound == \A k \in 1 .. Len(buf) : Sound(buf[k])
BeatsOrdered ==
  \A k, l \in 1 .. Len(buf) :
    k < l /\ buf[k].of.write = buf[l].of.write => Before(buf[k], buf[l])

\* After a single write has passed the read, another one cannot be selected.
ReadIsNext ==
  overtaken = 1 => /\ ar # NoBurst /\ rcnt = 0
                   /\ IF lock THEN sel => WrValid /\ ~Passed ELSE sel

IInv ==
  /\ TypeOK /\ ForkInStep /\ ForkedBeatHeld /\ SingleReadPassedOnce
  /\ Room /\ LockHolds /\ ReadsGo /\ WritesGo
  /\ BeatsOlder /\ BeatsSound /\ BeatsOrdered /\ ReadIsNext

-----------------------------------------------------------------------------
(***************************************************************************)
(* Lemmas about numbers and bursts.                                        *)
(***************************************************************************)
\* Two to the size is a number: that of the sets of size things.
LEMMA NumBytesType == \A size \in Nat : NumBytes(size) \in Nat \ {0}
<1> SUFFICES ASSUME NEW size \in Nat PROVE 2 ^ size \in Nat \ {0}
  BY DEF NumBytes
<1>1. IsFiniteSet(1 .. size) /\ Cardinality(1 .. size) = size
  BY FS_Interval
<1>2. IsFiniteSet(SUBSET (1 .. size)) /\ Cardinality(SUBSET (1 .. size)) = 2 ^ size
  BY <1>1, FS_SUBSET
<1>3. SUBSET (1 .. size) # {}
  OBVIOUS
<1>4. QED
  BY <1>2, <1>3, FS_CardinalityType, FS_EmptySet

LEMMA AlignedType == \A addr, size \in Nat : Aligned(addr, size) \in Nat
<1> SUFFICES ASSUME NEW addr \in Nat, NEW size \in Nat PROVE Aligned(addr, size) \in Nat
  OBVIOUS
<1>1. NumBytes(size) \in Nat \ {0}
  BY NumBytesType
<1>2. \A n \in Nat \ {0} : addr \div n \in Nat
  OBVIOUS
<1>3. \A q, n \in Nat : q * n \in Nat
  OBVIOUS
<1>4. QED
  BY <1>1, <1>2, <1>3 DEF Aligned

\* The next beat of a burst.
LEMMA NextBeatType ==
  ASSUME NEW m \in BeatType, NEW c \in Nat, NEW strb \in SUBSET Banks
  PROVE  /\ NextBeat(m, c, strb) \in BeatType
         /\ NextBeat(m, c, strb).of = m.of /\ NextBeat(m, c, strb).i = m.i + 1
         /\ NextBeat(m, c, strb).last = (c = 1)
         /\ NextBeat(m, c, strb).addr = m.addr + NumBytes(m.of.size)
<1>1. m.of \in Burst /\ m.of.size \in Nat /\ m.i \in Nat /\ m.addr \in Nat
  BY DEF BeatType, Burst
<1>2. m.addr + NumBytes(m.of.size) \in Nat /\ m.i + 1 \in Nat
  BY <1>1, NumBytesType
<1>3. QED
  BY <1>1, <1>2 DEF NextBeat, BeatType

LEMMA FirstBeatType ==
  ASSUME NEW b \in Burst, NEW strb \in SUBSET Banks
  PROVE  FirstBeat(b, strb) \in BeatType
BY DEF FirstBeat, BeatType, Burst

\* A burst that is numbered is a burst.
LEMMA NumberedType ==
  ASSUME NEW s \in Reads \cup Writes, NEW k \in Nat \ {0}, NEW wr \in BOOLEAN
  PROVE  /\ Numbered(s, k, wr) \in Burst /\ Numbered(s, k, wr) # NoBurst
         /\ Numbered(s, k, wr).n = k /\ Numbered(s, k, wr).write = wr
<1>1. s \in [len : Nat, addr : Nat, size : Nat, qos : Nat, atop : BOOLEAN]
  BY AxiToMemAssumption
<1>2. QED
  BY <1>1 DEF Numbered, Burst, NoBurst

LEMMA BeatFields ==
  ASSUME NEW e \in BeatType
  PROVE  e.i \in Nat /\ e.of.n \in Nat /\ e.of.len \in Nat /\ e.of \in Burst
BY DEF BeatType, Burst

LEMMA NotBeforeItself ==
  \A e, f \in BeatType : ~Before(e, e) /\ (Before(e, f) => ~Before(f, e) /\ e # f)
BY BeatFields DEF Before

\* The register keeps the place of the beat.
LEMMA KeptPlace ==
  ASSUME NEW x \in BeatType
  PROVE  Kept(x).of = x.of /\ Kept(x).i = x.i
BY DEF Kept, BeatType

\* What is on the channels.
LEMMA OnChannels ==
  ASSUME TypeOK
  PROVE  /\ ar # NoBurst => ar \in Burst
         /\ aw # NoBurst => aw \in Burst
         /\ w # <<>> => Head(w) \in SUBSET Banks
         /\ rcnt \in Nat /\ wcnt \in Nat /\ nr \in Nat /\ nw \in Nat
<1>1. w # <<>> => Head(w) \in Strobes
  BY DEF TypeOK
<1>2. QED
  BY <1>1, AxiToMemAssumption DEF TypeOK

-----------------------------------------------------------------------------
(***************************************************************************)
(* The beat in the arbiter.                                                *)
(***************************************************************************)
\* The next beat of a direction, for either of them.
InTurn(c, m, o, strb) == IF c > 0 THEN NextBeat(m, c, strb) ELSE FirstBeat(o, strb)

LEMMA BeatInTurn ==
  ASSUME NEW c \in Nat, NEW m, NEW o, NEW n \in Nat, NEW wr \in BOOLEAN, NEW strb \in SUBSET Banks,
         Going(c, m, o, n, wr), o # NoBurst => o \in Burst, c > 0 \/ o # NoBurst,
         NEW x, x = InTurn(c, m, o, strb)
  PROVE  /\ x \in BeatType /\ Sound(x) /\ x.of.write = wr
         /\ \A e \in BeatType : Older(e, c, m, o, n) => Before(e, x)
<1> USE DEF InTurn
<1>1. CASE c > 0
  <2>1. /\ m \in BeatType /\ m.of.write = wr /\ m.i + c = m.of.len
        /\ m.addr = Aligned(m.of.addr, m.of.size) + m.i * NumBytes(m.of.size)
    BY <1>1 DEF Going
  <2>2. /\ x \in BeatType /\ x.of = m.of /\ x.i = m.i + 1 /\ x.last = (c = 1)
        /\ x.addr = m.addr + NumBytes(m.of.size)
    BY <1>1, <2>1, NextBeatType
  <2>3. /\ m.i \in Nat /\ m.of.len \in Nat /\ m.of.size \in Nat /\ m.of.addr \in Nat /\ m.of.n \in Nat
    BY <2>1 DEF BeatType, Burst
  <2>4. x.i <= x.of.len /\ (x.last <=> x.i = x.of.len)
    <3>1. x.of.len = m.i + c /\ x.i = m.i + 1
      BY <2>1, <2>2
    <3>2. x.i = x.of.len <=> c = 1
      BY <2>3, <3>1
    <3>3. x.i <= x.of.len
      BY <1>1, <2>3, <3>1
    <3>4. QED  BY <2>2, <3>2, <3>3
  <2>5. x.addr = AddrOf(x.of, x.i)
    <3>1. Aligned(m.of.addr, m.of.size) \in Nat /\ NumBytes(m.of.size) \in Nat
      BY <2>3, AlignedType, NumBytesType
    <3>2. m.i * NumBytes(m.of.size) + NumBytes(m.of.size) = (m.i + 1) * NumBytes(m.of.size)
          /\ m.i * NumBytes(m.of.size) \in Nat
      BY <2>3, <3>1
    <3>3. x.i # 0
      BY <2>2, <2>3
    <3>4. QED  BY <2>1, <2>2, <3>1, <3>2, <3>3 DEF AddrOf
  <2>6. ASSUME NEW e \in BeatType, Older(e, c, m, o, n) PROVE Before(e, x)
    <3>1. e.i \in Nat
      BY DEF BeatType
    <3>2. QED  BY <1>1, <2>2, <2>3, <2>6, <3>1 DEF Older, Before
  <2>7. QED  BY <2>1, <2>2, <2>4, <2>5, <2>6 DEF Sound
<1>2. CASE ~(c > 0)
  <2>1. o \in Burst /\ o # NoBurst /\ x = FirstBeat(o, strb) /\ o.write = wr /\ o.n = n
    BY <1>2 DEF Going
  <2>2. x \in BeatType /\ x.of = o /\ x.i = 0 /\ x.last = (o.len = 0) /\ x.addr = o.addr
    BY <2>1, FirstBeatType DEF FirstBeat
  <2>3. o.len \in Nat
    BY <2>1 DEF Burst
  <2>4. Sound(x)
    <3>1. x.i <= x.of.len
      BY <2>2, <2>3
    <3>2. x.last <=> x.i = x.of.len
      BY <2>2
    <3>3. QED  BY <2>2, <3>1, <3>2 DEF Sound, AddrOf
  <2>5. \A e \in BeatType : Older(e, c, m, o, n) => Before(e, x)
    BY <2>1, <2>2 DEF Older, Before
  <2>6. QED  BY <2>1, <2>2, <2>4, <2>5
<1>3. QED
  BY <1>1, <1>2

\* The beats that ask for the arbiter, each the next one of its direction.
LEMMA BeatsOffered ==
  ASSUME TypeOK, ReadsGo, WritesGo
  PROVE  /\ WrValid =>
              /\ WrBeat \in BeatType /\ Sound(WrBeat) /\ WrBeat.of.write = TRUE
              /\ \A e \in BeatType : Older(e, wcnt, wmeta, aw, nw) => Before(e, WrBeat)
              /\ Head(w) \in SUBSET Banks /\ WrBeat = InTurn(wcnt, wmeta, aw, Head(w))
         /\ RdValid =>
              /\ RdBeat \in BeatType /\ Sound(RdBeat) /\ RdBeat.of.write = FALSE
              /\ \A e \in BeatType : Older(e, rcnt, rmeta, ar, nr) => Before(e, RdBeat)
              /\ RdBeat = InTurn(rcnt, rmeta, ar, {})
<1>1. ASSUME WrValid
      PROVE  /\ WrBeat \in BeatType /\ Sound(WrBeat) /\ WrBeat.of.write = TRUE
             /\ \A e \in BeatType : Older(e, wcnt, wmeta, aw, nw) => Before(e, WrBeat)
             /\ Head(w) \in SUBSET Banks /\ WrBeat = InTurn(wcnt, wmeta, aw, Head(w))
  <2>1. /\ Head(w) \in SUBSET Banks /\ (wcnt > 0 \/ aw # NoBurst)
        /\ WrBeat = InTurn(wcnt, wmeta, aw, Head(w))
        /\ wcnt \in Nat /\ nw \in Nat /\ (aw # NoBurst => aw \in Burst)
    BY <1>1, OnChannels DEF WrValid, WrBeat, InTurn
  <2>2. QED  BY <2>1, BeatInTurn DEF WritesGo
<1>2. ASSUME RdValid
      PROVE  /\ RdBeat \in BeatType /\ Sound(RdBeat) /\ RdBeat.of.write = FALSE
             /\ \A e \in BeatType : Older(e, rcnt, rmeta, ar, nr) => Before(e, RdBeat)
             /\ RdBeat = InTurn(rcnt, rmeta, ar, {})
  <2>1. /\ {} \in SUBSET Banks /\ (rcnt > 0 \/ ar # NoBurst)
        /\ RdBeat = InTurn(rcnt, rmeta, ar, {})
        /\ rcnt \in Nat /\ nr \in Nat /\ (ar # NoBurst => ar \in Burst)
    BY <1>2, OnChannels DEF RdValid, RdBeat, InTurn
  <2>2. QED  BY <2>1, BeatInTurn DEF ReadsGo
<1>3. QED
  BY <1>1, <1>2

\* The beat the arbiter selects is younger than all of its direction that left.
LEMMA SelectedBeat ==
  ASSUME IInv, ArbValid
  PROVE  /\ Meta \in BeatType /\ Sound(Meta) /\ Meta.of.write = Select /\ Select \in BOOLEAN
         /\ \A e \in BeatType : e.of.write = Select /\ OlderThanNext(e) => Before(e, Meta)
<1>1. TypeOK /\ ReadsGo /\ WritesGo /\ sel \in BOOLEAN
  BY DEF IInv, TypeOK
<1>2. Select \in BOOLEAN
  <2>1. WrValid /\ RdValid => WrBeat.of.qos \in Nat /\ RdBeat.of.qos \in Nat
    BY <1>1, BeatsOffered DEF BeatType, Burst
  <2>2. WrValid /\ RdValid => Contend \in BOOLEAN
    <3>1. ASSUME NEW a \in Nat, NEW b \in Nat PROVE (a > b) \in BOOLEAN
      OBVIOUS
    <3>2. WrValid /\ RdValid => (WrBeat.of.qos > RdBeat.of.qos) \in BOOLEAN
      BY <2>1, <3>1
    <3>3. (~sel) \in BOOLEAN
      OBVIOUS
    <3>4. QED  BY <3>2, <3>3, Zenon DEF Contend
  <2>3. WrValid \in BOOLEAN
    BY DEF WrValid
  <2>4. QED  BY <1>1, <2>2, <2>3 DEF Select
<1>3. CASE Select
  BY <1>1, <1>3, BeatsOffered DEF ArbValid, Meta, OlderThanNext
<1>4. CASE ~Select
  BY <1>1, <1>2, <1>4, BeatsOffered DEF ArbValid, Meta, OlderThanNext
<1>5. QED
  BY <1>2, <1>3, <1>4

\* A direction whose beat was accepted: the burst goes on behind it.
LEMMA BurstMoves ==
  ASSUME NEW c \in Nat, NEW m, NEW o, NEW n \in Nat, NEW wr \in BOOLEAN, NEW strb \in SUBSET Banks,
         Going(c, m, o, n, wr), o # NoBurst => o \in Burst, c > 0 \/ o # NoBurst,
         NEW x \in BeatType, x = InTurn(c, m, o, strb), Sound(x), x.of.write = wr,
         \A e \in BeatType : Older(e, c, m, o, n) => Before(e, x),
         NEW p, p = (IF c > 0 THEN o ELSE NoBurst)
  PROVE  /\ LeftAfter(c, o) \in Nat /\ Kept(x) \in BeatType
         /\ Going(LeftAfter(c, o), Kept(x), p, n, wr)
         /\ Older(x, LeftAfter(c, o), Kept(x), p, n)
         /\ \A e \in BeatType : Older(e, c, m, o, n) => Older(e, LeftAfter(c, o), Kept(x), p, n)
<1>1. /\ x \in BeatType /\ Sound(x) /\ x.of.write = wr
      /\ \A e \in BeatType : Older(e, c, m, o, n) => Before(e, x)
  OBVIOUS
<1>2. /\ x.of \in Burst /\ x.i \in Nat /\ x.addr \in Nat /\ x.of.addr \in Nat /\ x.of.size \in Nat
      /\ x.of.len \in Nat /\ x.of.n \in Nat
  BY <1>1 DEF BeatType, Burst
<1>3. /\ Kept(x) \in BeatType /\ Kept(x).of = x.of /\ Kept(x).i = x.i
      /\ Kept(x).addr = Aligned(x.of.addr, x.of.size) + x.i * NumBytes(x.of.size)
  <2>1. /\ Aligned(x.of.addr, x.of.size) \in Nat /\ NumBytes(x.of.size) \in Nat
    BY <1>2, AlignedType, NumBytesType
  <2>2. CASE x.i = 0
    <3>1. x.addr = x.of.addr
      BY <1>1, <2>2 DEF Sound, AddrOf
    <3>2. Kept(x) = [x EXCEPT !.addr = Aligned(x.of.addr, x.of.size)]
      BY <2>2, <3>1 DEF Kept
    <3>3. Kept(x) \in BeatType /\ Kept(x).of = x.of /\ Kept(x).i = x.i
          /\ Kept(x).addr = Aligned(x.of.addr, x.of.size)
      BY <1>1, <2>1, <3>2 DEF BeatType
    <3>4. Aligned(x.of.addr, x.of.size) + 0 * NumBytes(x.of.size) = Aligned(x.of.addr, x.of.size)
      BY <2>1
    <3>5. QED  BY <2>2, <3>3, <3>4
  <2>3. CASE x.i # 0
    BY <1>1, <2>3 DEF Kept, Sound, AddrOf
  <2>4. QED  BY <2>2, <2>3
<1>4. LeftAfter(c, o) \in Nat /\ (LeftAfter(c, o) > 0 => x.i + LeftAfter(c, o) = x.of.len)
  <2>1. CASE c > 0
    <3>1. m \in BeatType /\ m.i + c = m.of.len /\ x.of = m.of /\ x.i = m.i + 1 /\ m.i \in Nat
      BY <2>1, NextBeatType DEF Going, BeatType, InTurn
    <3>2. QED  BY <2>1, <3>1 DEF LeftAfter
  <2>2. CASE ~(c > 0)
    <3>1. o \in Burst /\ x.of = o /\ x.i = 0 /\ o.len \in Nat
      BY <2>2 DEF FirstBeat, Burst, InTurn
    <3>2. QED  BY <2>2, <3>1 DEF LeftAfter
  <2>3. QED  BY <2>1, <2>2
<1>5. IF p # NoBurst THEN x.of.n < n ELSE x.of.n <= n
  <2>1. CASE c > 0
    <3>1. m \in BeatType /\ x.of = m.of /\ p = o
      BY <2>1, NextBeatType DEF Going, InTurn
    <3>2. QED  BY <1>2, <2>1, <3>1 DEF Going
  <2>2. CASE ~(c > 0)
    BY <2>2 DEF FirstBeat, Going, InTurn
  <2>3. QED  BY <2>1, <2>2
<1>6. p # NoBurst => p.write = wr /\ p.n = n
  BY DEF Going
<1>7. Going(LeftAfter(c, o), Kept(x), p, n, wr)
  BY <1>1, <1>3, <1>4, <1>5, <1>6 DEF Going
<1>8. Older(x, LeftAfter(c, o), Kept(x), p, n)
  BY <1>2, <1>3, <1>5 DEF Older
<1>9. ASSUME NEW e \in BeatType, Older(e, c, m, o, n)
      PROVE  Older(e, LeftAfter(c, o), Kept(x), p, n)
  <2>1. Before(e, x) /\ e.i \in Nat /\ e.of.n \in Nat
    BY <1>1, <1>9 DEF BeatType, Burst
  <2>2. IF p # NoBurst THEN e.of.n < n ELSE e.of.n <= n
    BY <1>9, <2>1 DEF Older
  <2>3. e.of.n < x.of.n \/ (e.of = x.of /\ e.i <= x.i)
    BY <1>2, <2>1 DEF Before
  <2>4. QED  BY <1>3, <2>2, <2>3 DEF Older
<1>10. QED
  BY <1>3, <1>4, <1>7, <1>8, <1>9

\* The selected beat leaves: its burst goes on behind it, the other direction waits.
LEMMA AcceptMoves ==
  ASSUME IInv, ArbValid, Accept, UNCHANGED <<nr, nw>>, NEW x, x = Meta
  PROVE  /\ ReadsGo' /\ WritesGo'
         /\ {ar, aw}' \subseteq Burst \cup {NoBurst} /\ w' \in {w, <<>>}
         /\ rcnt' \in Nat /\ wcnt' \in Nat
         /\ {rmeta, wmeta}' \subseteq BeatType \cup {NoBurst}
         /\ OlderThanNext(x)'
         /\ \A e \in BeatType : OlderThanNext(e) => OlderThanNext(e)'
<1>1. /\ TypeOK /\ ReadsGo /\ WritesGo /\ rcnt \in Nat /\ wcnt \in Nat /\ nr \in Nat /\ nw \in Nat
      /\ (ar # NoBurst => ar \in Burst) /\ (aw # NoBurst => aw \in Burst)
      /\ ar \in Burst \cup {NoBurst} /\ aw \in Burst \cup {NoBurst}
      /\ rmeta \in BeatType \cup {NoBurst} /\ wmeta \in BeatType \cup {NoBurst}
  BY OnChannels DEF IInv, TypeOK
<1>2. Meta \in BeatType /\ Meta.of.write = Select /\ Select \in BOOLEAN
  BY SelectedBeat
<1>3. x \in BeatType /\ x.of.write = Select
  BY <1>2
<1>4. CASE Select
  <2>1. /\ x = WrBeat /\ WrValid /\ x.of.write = TRUE
        /\ wcnt' = LeftAfter(wcnt, aw) /\ wmeta' = Kept(x) /\ w' = <<>>
        /\ aw' = (IF wcnt > 0 THEN aw ELSE NoBurst)
        /\ UNCHANGED <<ar, rcnt, rmeta>>
    BY <1>2, <1>3, <1>4 DEF ArbValid, Meta, Accept
  <2>2. /\ x \in BeatType /\ Sound(x) /\ Head(w) \in SUBSET Banks /\ x = InTurn(wcnt, wmeta, aw, Head(w))
        /\ \A e \in BeatType : Older(e, wcnt, wmeta, aw, nw) => Before(e, x)
        /\ (wcnt > 0 \/ aw # NoBurst) /\ Going(wcnt, wmeta, aw, nw, TRUE)
    BY <1>1, <2>1, BeatsOffered DEF WrValid, WritesGo
  <2>3. /\ wcnt' \in Nat /\ wmeta' \in BeatType
        /\ Going(wcnt', wmeta', aw', nw, TRUE) /\ Older(x, wcnt', wmeta', aw', nw)
        /\ \A e \in BeatType : Older(e, wcnt, wmeta, aw, nw) => Older(e, wcnt', wmeta', aw', nw)
    BY <1>1, <2>1, <2>2, BurstMoves
  <2>4. ReadsGo' /\ WritesGo'
    BY <1>1, <2>1, <2>3 DEF ReadsGo, WritesGo
  <2>5. OlderThanNext(x)'
    BY <2>1, <2>3 DEF OlderThanNext
  <2>6. QED
    BY <1>1, <2>1, <2>3, <2>4, <2>5 DEF OlderThanNext
<1>5. CASE ~Select
  <2>1. /\ x = RdBeat /\ RdValid /\ x.of.write = FALSE
        /\ rcnt' = LeftAfter(rcnt, ar) /\ rmeta' = Kept(x)
        /\ ar' = (IF rcnt > 0 THEN ar ELSE NoBurst)
        /\ UNCHANGED <<aw, w, wcnt, wmeta>>
    BY <1>2, <1>3, <1>5 DEF ArbValid, Meta, Accept
  <2>2. /\ x \in BeatType /\ Sound(x) /\ {} \in SUBSET Banks /\ x = InTurn(rcnt, rmeta, ar, {})
        /\ \A e \in BeatType : Older(e, rcnt, rmeta, ar, nr) => Before(e, x)
        /\ (rcnt > 0 \/ ar # NoBurst) /\ Going(rcnt, rmeta, ar, nr, FALSE)
    BY <1>1, <2>1, BeatsOffered DEF RdValid, ReadsGo
  <2>3. /\ rcnt' \in Nat /\ rmeta' \in BeatType
        /\ Going(rcnt', rmeta', ar', nr, FALSE) /\ Older(x, rcnt', rmeta', ar', nr)
        /\ \A e \in BeatType : Older(e, rcnt, rmeta, ar, nr) => Older(e, rcnt', rmeta', ar', nr)
    BY <1>1, <2>1, <2>2, BurstMoves
  <2>4. ReadsGo' /\ WritesGo'
    BY <1>1, <2>1, <2>3 DEF ReadsGo, WritesGo
  <2>5. OlderThanNext(x)'
    BY <2>1, <2>3 DEF OlderThanNext
  <2>6. QED
    BY <1>1, <2>1, <2>3, <2>4, <2>5 DEF OlderThanNext
<1>6. QED
  BY <1>2, <1>4, <1>5

-----------------------------------------------------------------------------
(***************************************************************************)
(* The request side.                                                       *)
(***************************************************************************)
\* The queues, and how long they are.
LEMMA QueueLengths ==
  ASSUME IInv
  PROVE  /\ buf \in Seq(BeatType) /\ mem \in Seq(BeatType) /\ ans \in Seq(Answers)
         /\ Len(buf) \in Nat /\ Len(mem) \in Nat /\ Len(ans) \in Nat /\ BufDepth \in Nat \ {0}
         /\ forked = {} \/ forked = {"buf"}
         /\ forked = {} => Len(buf) = Left
         /\ forked = {"buf"} => Len(buf) = Left + 1
         /\ Left \in Nat /\ Left <= BufDepth
         /\ \A k \in 1 .. Len(buf) : buf[k] \in BeatType
<1>1. buf \in Seq(BeatType) /\ mem \in Seq(BeatType) /\ ans \in Seq(Answers)
  BY DEF IInv, TypeOK
<1>2. Len(buf) \in Nat /\ Len(mem) \in Nat /\ Len(ans) \in Nat /\ \A k \in 1 .. Len(buf) : buf[k] \in BeatType
  BY <1>1, LenProperties, ElementOfSeq
<1>3. forked = {} \/ forked = {"buf"}
  BY DEF IInv, ForkInStep
<1>4. Cardinality({}) = 0 /\ Cardinality({"buf"}) = 1
  BY FS_EmptySet, FS_Singleton
<1>5. Len(buf) = Left + Cardinality(forked) /\ Left \in Nat /\ Left <= BufDepth
  BY <1>2 DEF IInv, ForkInStep, Left, Room
<1>6. (forked = {} => Len(buf) = Left) /\ (forked = {"buf"} => Len(buf) = Left + 1)
  <2>1. (forked = {} => Cardinality(forked) = 0) /\ (forked = {"buf"} => Cardinality(forked) = 1)
    BY <1>4, Zenon
  <2>2. QED  BY <1>5, <2>1
<1>7. QED
  BY <1>1, <1>2, <1>3, <1>5, <1>6, AxiToMemAssumption

\* The fork never waits for the buffer: a cycle starts a beat or resumes it, and
\* the memory takes it or does not.
LEMMA RequestCases ==
  ASSUME IInv, NEW g \in BOOLEAN, RequestCycle(g)
  PROVE  /\ ArbValid /\ sel' = Select
         /\ UNCHANGED <<nr, nw, ans, done, collect, eccq, ready, rsp, told>>
         /\ buf' = (IF forked = {} THEN Append(buf, Meta) ELSE buf)
         /\ \/ /\ lock' = FALSE /\ forked' = {} /\ mem' = Append(mem, Meta) /\ Accept
               /\ Left < BufDepth
            \/ /\ lock' = TRUE /\ forked' = {"buf"} /\ mem' = mem
               /\ UNCHANGED <<ar, aw, w, rcnt, wcnt, rmeta, wmeta, overtaken>>
<1> DEFINE taken == Taken(g) \ forked
<1>1. forked = {} => BufFree
  BY QueueLengths DEF BufFree
<1>2. "buf" \in taken <=> forked = {}
  BY <1>1, QueueLengths DEF Taken
<1>3. "mem" \in taken <=> g /\ MemFree
  BY QueueLengths DEF Taken
<1>4. taken \subseteq {"buf", "mem"}
  BY DEF Taken
<1>5. MemFree <=> Left < BufDepth
  BY QueueLengths DEF MemFree, Left
<1>6. /\ ArbValid /\ sel' = Select
      /\ UNCHANGED <<nr, nw, ans, done, collect, eccq, ready, rsp, told>>
      /\ buf' = (IF "buf" \in taken THEN Append(buf, Meta) ELSE buf)
      /\ mem' = (IF "mem" \in taken THEN Append(mem, Meta) ELSE mem)
      /\ IF forked \cup taken = Outputs
         THEN lock' = FALSE /\ forked' = {} /\ Accept
         ELSE /\ lock' = TRUE /\ forked' = forked \cup taken
              /\ UNCHANGED <<ar, aw, w, rcnt, wcnt, rmeta, wmeta, overtaken>>
  BY DEF RequestCycle, respond
<1> HIDE DEF taken
<1>7. CASE "mem" \in taken
  <2>1. forked \cup taken = Outputs
    BY <1>2, <1>4, <1>7, QueueLengths DEF Outputs
  <2>2. QED  BY <1>2, <1>3, <1>5, <1>6, <1>7, <2>1
<1>8. CASE "mem" \notin taken
  <2>1. forked \cup taken = {"buf"}
    BY <1>2, <1>4, <1>8, QueueLengths
  <2>2. {"buf"} # Outputs
    BY DEF Outputs
  <2>3. QED  BY <1>2, <1>6, <1>8, <2>1, <2>2
<1>9. QED
  BY <1>7, <1>8

\* The beat in the arbiter, seen from the buffer.
LEMMA RequestBuffer ==
  ASSUME IInv, NEW g \in BOOLEAN, RequestCycle(g)
  PROVE  /\ buf' \in Seq(BeatType) /\ Len(buf') = Left + 1 /\ buf'[Left + 1] = Meta
         /\ \A k \in 1 .. Left : buf'[k] = buf[k] /\ buf[k] \in BeatType
         /\ BeatsSound' /\ BeatsOrdered'
<1>1. /\ Meta \in BeatType /\ Sound(Meta) /\ Meta.of.write = Select
      /\ \A e \in BeatType : e.of.write = Select /\ OlderThanNext(e) => Before(e, Meta)
  BY RequestCases, SelectedBeat
<1>2. PICK x : x = Meta
  OBVIOUS
<1>3. /\ buf' \in Seq(BeatType) /\ Len(buf') = Left + 1 /\ buf'[Left + 1] = x
      /\ \A k \in 1 .. Left : buf'[k] = buf[k] /\ buf[k] \in BeatType
  <2>1. CASE forked = {}
    <3>1. buf' = Append(buf, x) /\ Len(buf) = Left /\ buf \in Seq(BeatType) /\ x \in BeatType
      BY <1>1, <1>2, <2>1, RequestCases, QueueLengths
    <3>2. QED  BY <3>1, AppendProperties, ElementOfSeq
  <2>2. CASE forked = {"buf"}
    <3>1. buf' = buf /\ Len(buf) = Left + 1 /\ buf \in Seq(BeatType) /\ Left \in Nat
      BY <2>2, RequestCases, QueueLengths
    <3>2. buf[Len(buf)] = x
      BY <1>2, <2>2 DEF IInv, ForkedBeatHeld
    <3>3. QED  BY <3>1, <3>2, QueueLengths
  <2>3. QED  BY <2>1, <2>2, QueueLengths
<1>4. Left \in Nat /\ Left <= Len(buf) /\ Len(buf) \in Nat
  BY QueueLengths
<1>5. \A k \in 1 .. Len(buf') : k \in 1 .. Left \/ k = Left + 1
  BY <1>3, <1>4
<1>6. BeatsSound'
  <2>1. \A k \in 1 .. Len(buf') : Sound(buf'[k])
    BY <1>1, <1>2, <1>3, <1>4, <1>5 DEF IInv, BeatsSound
  <2>2. QED  BY <2>1 DEF BeatsSound, Sound, AddrOf
<1>7. ASSUME NEW k \in 1 .. Len(buf'), NEW l \in 1 .. Len(buf'), k < l,
             buf'[k].of.write = buf'[l].of.write
      PROVE  Before(buf'[k], buf'[l])
  <2>1. k \in 1 .. Left /\ k \in 1 .. Len(buf)
    BY <1>3, <1>4, <1>5, <1>7
  <2>2. CASE l \in 1 .. Left
    <3>1. l \in 1 .. Len(buf)
      BY <1>4, <2>2
    <3>2. QED  BY <1>3, <1>7, <2>1, <2>2, <3>1 DEF IInv, BeatsOrdered
  <2>3. CASE l = Left + 1
    <3>1. OlderThanNext(buf[k]) /\ buf[k].of.write = Select
      BY <1>1, <1>2, <1>3, <1>7, <2>1, <2>3 DEF IInv, BeatsOlder
    <3>2. QED  BY <1>1, <1>2, <1>3, <2>1, <2>3, <3>1
  <2>4. QED  BY <1>5, <2>2, <2>3
<1>8. BeatsOrdered'
  BY <1>7 DEF BeatsOrdered, Before
<1>9. QED
  BY <1>2, <1>3, <1>6, <1>8

\* After one write has passed the read, round robin gives the read its turn.
LEMMA NotTwice ==
  ASSUME IInv, ArbValid, overtaken = 1, Select
  PROVE  ~Passed /\ WrValid /\ ar # NoBurst /\ rcnt = 0
<1>1. ar # NoBurst /\ rcnt = 0 /\ (IF lock THEN sel => WrValid /\ ~Passed ELSE sel)
  BY DEF IInv, ReadIsNext
<1>2. WrValid
  BY DEF ArbValid
<1>3. CASE lock
  BY <1>1, <1>2, <1>3 DEF Select
<1>4. CASE ~lock
  <2>1. RdValid /\ Contend
    BY <1>1, <1>2, <1>4 DEF RdValid, Select
  <2>2. ASSUME Passed PROVE FALSE
    <3>1. wcnt = 0 /\ aw # NoBurst /\ ar.len = 0 /\ aw.len = 0 /\ ar.qos = aw.qos
      BY <1>2, <2>2, OnChannels DEF Passed, WrValid, IInv
    <3>2. RdBeat = FirstBeat(ar, {}) /\ WrBeat = FirstBeat(aw, Head(w))
      BY <1>1, <3>1 DEF RdBeat, WrBeat
    <3>3. RdBeat.last /\ WrBeat.of.qos = RdBeat.of.qos
      BY <3>1, <3>2 DEF FirstBeat
    <3>4. ~(wcnt > 0) /\ ~(rcnt > 0)
      BY <1>1, <3>1
    <3>5. QED  BY <1>1, <1>4, <2>1, <3>3, <3>4 DEF Contend
  <2>3. QED  BY <1>1, <1>2, <2>2
<1>5. QED
  BY <1>3, <1>4

\* The beat leaves the arbiter.
LEMMA RequestAccepts ==
  ASSUME IInv, NEW g \in BOOLEAN, RequestCycle(g), lock' = FALSE, forked' = {},
         mem' = Append(mem, Meta), Accept, Left < BufDepth
  PROVE  IInv'
<1>0. PICK x : x = Meta
  OBVIOUS
<1>1. /\ ArbValid /\ sel' = Select /\ UNCHANGED <<nr, nw, ans, done, collect, eccq, ready>>
      /\ buf' \in Seq(BeatType) /\ Len(buf') = Left + 1 /\ buf'[Left + 1] = x
      /\ \A k \in 1 .. Left : buf'[k] = buf[k] /\ buf[k] \in BeatType
      /\ BeatsSound' /\ BeatsOrdered' /\ Select \in BOOLEAN /\ x \in BeatType
  BY <1>0, RequestCases, RequestBuffer, SelectedBeat
<1>2. /\ ReadsGo' /\ WritesGo'
      /\ {ar, aw}' \subseteq Burst \cup {NoBurst} /\ w' \in {w, <<>>}
      /\ rcnt' \in Nat /\ wcnt' \in Nat
      /\ {rmeta, wmeta}' \subseteq BeatType \cup {NoBurst}
      /\ OlderThanNext(x)'
      /\ \A e \in BeatType : OlderThanNext(e) => OlderThanNext(e)'
  BY <1>0, <1>1, AcceptMoves
<1>3. /\ mem' \in Seq(BeatType) /\ Len(mem') = Len(mem) + 1 /\ mem'[Len(mem) + 1] = x
      /\ \A k \in 1 .. Len(mem) : mem'[k] = mem[k]
  <2>1. mem' = Append(mem, x)
    BY <1>0
  <2>2. QED  BY <1>1, <2>1, QueueLengths, AppendProperties
<1>4. Left' = Left + 1 /\ Left = Len(ans) + Len(mem) /\ Left \in Nat /\ Len(ans) \in Nat /\ Len(mem) \in Nat
  BY <1>1, <1>3, QueueLengths DEF Left
<1>5. overtaken' \in Nat /\ SingleReadPassedOnce' /\ ReadIsNext'
  <2>1. overtaken \in Nat /\ overtaken <= 1
    BY DEF IInv, TypeOK, SingleReadPassedOnce
  <2>2. CASE Select /\ Passed
    <3>1. overtaken = 0
      BY <1>1, <2>1, <2>2, NotTwice
    <3>2. overtaken' = 1 /\ sel' /\ ~lock' /\ ar' = ar /\ rcnt' = rcnt /\ ar # NoBurst /\ rcnt = 0
      BY <1>1, <2>2, <3>1 DEF Accept, Passed
    <3>3. QED  BY <3>2 DEF SingleReadPassedOnce, ReadIsNext
  <2>3. CASE Select /\ ~Passed
    <3>1. overtaken' = overtaken /\ sel' /\ ~lock' /\ ar' = ar /\ rcnt' = rcnt
      BY <1>1, <2>3 DEF Accept
    <3>2. QED  BY <1>1, <2>1, <2>3, <3>1, NotTwice DEF SingleReadPassedOnce, ReadIsNext
  <2>4. CASE ~Select
    <3>1. overtaken' = (IF rcnt > 0 THEN overtaken ELSE 0)
      BY <2>4 DEF Accept
    <3>2. overtaken = 1 => ~(rcnt > 0)
      BY DEF IInv, ReadIsNext
    <3>3. overtaken' = 0
      BY <2>1, <3>1, <3>2
    <3>4. QED  BY <3>3 DEF SingleReadPassedOnce, ReadIsNext
  <2>5. QED  BY <2>2, <2>3, <2>4
<1>6. TypeOK'
  <2>1. w' \in {<<>>} \cup {<<strb>> : strb \in Strobes}
    BY <1>2 DEF IInv, TypeOK
  <2>2. {nr, nw, rcnt, wcnt, overtaken}' \subseteq Nat
    BY <1>1, <1>2, <1>5 DEF IInv, TypeOK
  <2>3. {sel, lock, eccq}' \subseteq BOOLEAN /\ forked' \subseteq Outputs /\ forked' # Outputs
    BY <1>1 DEF IInv, TypeOK, Outputs
  <2>4. QED
    BY <1>1, <1>2, <1>3, <2>1, <2>2, <2>3 DEF IInv, TypeOK
<1>7. ForkInStep'
  <2>1. Len(buf') = Len(ans') + Len(mem') + Cardinality(forked')
    <3>1. Cardinality(forked') = 0
      BY FS_EmptySet
    <3>2. QED  BY <1>1, <1>3, <1>4, <3>1
  <2>2. ASSUME NEW k \in 1 .. Len(mem') PROVE mem'[k] = buf'[Len(ans') + k]
    <3>1. CASE k \in 1 .. Len(mem)
      <4>1. mem[k] = buf[Len(ans) + k] /\ Len(ans) + k \in 1 .. Left
        BY <1>4, <3>1 DEF IInv, ForkInStep
      <4>2. QED  BY <1>1, <1>3, <3>1, <4>1
    <3>2. CASE k = Len(mem) + 1
      BY <1>1, <1>3, <1>4, <3>2
    <3>3. QED  BY <1>3, <1>4, <3>1, <3>2
  <2>3. QED  BY <2>1, <2>2 DEF ForkInStep
<1>8. BeatsOlder'
  <2>1. ASSUME NEW k \in 1 .. Left' PROVE OlderThanNext(buf[k])'
    <3>1. CASE k \in 1 .. Left
      <4>1. PICK e \in BeatType : e = buf[k] /\ e = buf'[k]
        BY <1>1, <3>1
      <4>2. OlderThanNext(e)'
        BY <1>2, <3>1, <4>1 DEF IInv, BeatsOlder
      <4>3. QED  BY <4>1, <4>2
    <3>2. CASE k = Left + 1
      <4>1. x = buf'[k]
        BY <1>1, <3>2
      <4>2. QED  BY <1>2, <4>1
    <3>3. QED  BY <1>4, <3>1, <3>2
  <2>2. QED  BY <2>1 DEF BeatsOlder
<1>9. Room' /\ LockHolds' /\ ForkedBeatHeld'
  BY <1>1, <1>3, <1>4, AxiToMemAssumption DEF Room, LockHolds, ForkedBeatHeld
<1>10. QED
  BY <1>1, <1>2, <1>5, <1>6, <1>7, <1>8, <1>9 DEF IInv

\* The beat is stalled: it is in the buffer, and the arbiter is locked.
LEMMA RequestStalls ==
  ASSUME IInv, NEW g \in BOOLEAN, RequestCycle(g), lock' = TRUE, forked' = {"buf"}, mem' = mem,
         UNCHANGED <<ar, aw, w, rcnt, wcnt, rmeta, wmeta, overtaken>>
  PROVE  IInv'
<1>1. /\ ArbValid /\ sel' = Select /\ UNCHANGED <<nr, nw, ans, done, collect, eccq, ready>>
      /\ buf' \in Seq(BeatType) /\ Len(buf') = Left + 1 /\ buf'[Left + 1] = Meta
      /\ \A k \in 1 .. Left : buf'[k] = buf[k] /\ buf[k] \in BeatType
      /\ BeatsSound' /\ BeatsOrdered' /\ Select \in BOOLEAN
  BY RequestCases, RequestBuffer, SelectedBeat
<1>2. Left' = Left /\ Left = Len(ans) + Len(mem) /\ Left \in Nat /\ Len(ans) \in Nat /\ Len(mem) \in Nat
  BY <1>1, QueueLengths DEF Left
<1>3. TypeOK'
  <2>1. {sel, lock, eccq}' \subseteq BOOLEAN /\ forked' \subseteq Outputs /\ forked' # Outputs
    BY <1>1 DEF IInv, TypeOK, Outputs
  <2>2. QED
    BY <1>1, <2>1 DEF IInv, TypeOK
<1>4. ForkInStep'
  <2>1. Len(buf') = Len(ans') + Len(mem') + Cardinality(forked')
    <3>1. Cardinality(forked') = 1
      BY FS_Singleton
    <3>2. QED  BY <1>1, <1>2, <3>1
  <2>2. ASSUME NEW k \in 1 .. Len(mem') PROVE mem'[k] = buf'[Len(ans') + k]
    <3>1. mem[k] = buf[Len(ans) + k] /\ Len(ans) + k \in 1 .. Left
      BY <1>2 DEF IInv, ForkInStep
    <3>2. QED  BY <1>1, <3>1
  <2>3. QED  BY <2>1, <2>2 DEF ForkInStep
<1>5. ForkedBeatHeld'
  <2>1. /\ WrValid' = WrValid /\ RdValid' = RdValid /\ WrBeat' = WrBeat /\ RdBeat' = RdBeat
    BY DEF WrValid, RdValid, WrBeat, RdBeat, NextBeat, FirstBeat
  <2>2. Select' = Select
    BY <1>1 DEF Select
  <2>3. ArbValid' /\ Meta' = Meta
    BY <1>1, <2>1, <2>2 DEF ArbValid, Meta
  <2>4. QED  BY <1>1, <2>3 DEF ForkedBeatHeld
<1>6. ReadsGo' /\ WritesGo' /\ BeatsOlder'
  <2>1. ReadsGo' /\ WritesGo'
    BY <1>1 DEF IInv, ReadsGo, WritesGo, Going
  <2>2. \A k \in 1 .. Left : OlderThanNext(buf[k])'
    BY <1>1 DEF IInv, BeatsOlder, OlderThanNext, Older
  <2>3. QED  BY <1>2, <2>1, <2>2 DEF BeatsOlder
<1>7. SingleReadPassedOnce' /\ ReadIsNext'
  <2>1. WrValid' = WrValid /\ Passed' = Passed
    BY DEF WrValid, Passed
  <2>2. overtaken = 1 => (Select => ~Passed /\ WrValid) /\ ar # NoBurst /\ rcnt = 0
    BY <1>1, NotTwice DEF IInv, ReadIsNext
  <2>3. QED  BY <1>1, <2>1, <2>2 DEF IInv, SingleReadPassedOnce, ReadIsNext
<1>8. Room' /\ LockHolds'
  BY <1>1, <1>2 DEF IInv, Room, LockHolds
<1>9. QED
  BY <1>1, <1>3, <1>4, <1>5, <1>6, <1>7, <1>8 DEF IInv

LEMMA RequestStep ==
  ASSUME IInv, NEW g \in BOOLEAN, RequestCycle(g)
  PROVE  IInv'
BY RequestCases, RequestAccepts, RequestStalls

-----------------------------------------------------------------------------
(***************************************************************************)
(* The manager, the memory and the response side.                          *)
(***************************************************************************)
\* While a beat is stalled, its direction does not need what is offered now.
LEMMA OfferReadStep ==
  ASSUME IInv, NEW s \in Reads, OfferRead(s)
  PROVE  IInv'
<1>1. /\ ar = NoBurst /\ nr' = nr + 1 /\ overtaken' = 0 /\ nr \in Nat
      /\ ar' \in Burst /\ ar' # NoBurst /\ ar'.n = nr' /\ ar'.write = FALSE
      /\ UNCHANGED <<aw, w, nw, rcnt, wcnt, rmeta, wmeta, sel, lock, forked, buf, mem, ans,
                     done, collect, eccq, ready>>
  <2>1. nr + 1 \in Nat \ {0} /\ nr \in Nat
    BY OnChannels DEF IInv
  <2>2. QED  BY <2>1, NumberedType DEF OfferRead, request, respond
<1>2. TypeOK'
  BY <1>1 DEF IInv, TypeOK
<1>3. ForkInStep' /\ Room' /\ LockHolds' /\ BeatsSound' /\ BeatsOrdered'
  BY <1>1 DEF IInv, ForkInStep, Room, LockHolds, BeatsSound, Sound, AddrOf, BeatsOrdered, Before
<1>4. ForkedBeatHeld'
  <2>1. ASSUME forked # {} PROVE ArbValid' /\ Meta' = buf[Len(buf)]
    <3>1. lock /\ ArbValid /\ Meta = buf[Len(buf)] /\ Select = sel /\ Select' = sel
      BY <1>1, <2>1 DEF IInv, LockHolds, ForkedBeatHeld, Select
    <3>2. WrValid' = WrValid /\ WrBeat' = WrBeat
      BY <1>1 DEF WrValid, WrBeat, NextBeat, FirstBeat
    <3>3. rcnt > 0 => RdValid' /\ RdBeat' = RdBeat
      BY <1>1 DEF RdValid, RdBeat, NextBeat
    <3>4. RdValid => rcnt > 0
      BY <1>1 DEF RdValid
    <3>5. QED  BY <3>1, <3>2, <3>3, <3>4 DEF ArbValid, Meta
  <2>2. QED  BY <1>1, <2>1 DEF ForkedBeatHeld
<1>5. ReadsGo' /\ WritesGo'
  <2>1. rcnt > 0 => rmeta.of.n \in Nat
    BY DEF IInv, ReadsGo, Going, BeatType, Burst
  <2>2. QED  BY <1>1, <2>1 DEF IInv, ReadsGo, WritesGo, Going
<1>6. BeatsOlder'
  <2>1. ASSUME NEW k \in 1 .. Left PROVE OlderThanNext(buf[k])'
    <3>1. buf[k] \in BeatType /\ OlderThanNext(buf[k])
      BY QueueLengths DEF IInv, BeatsOlder
    <3>2. buf[k].of.n \in Nat
      BY <3>1 DEF BeatType, Burst
    <3>3. QED  BY <1>1, <3>1, <3>2 DEF OlderThanNext, Older
  <2>2. QED  BY <1>1, <2>1 DEF BeatsOlder, Left
<1>7. SingleReadPassedOnce' /\ ReadIsNext'
  BY <1>1 DEF SingleReadPassedOnce, ReadIsNext
<1>8. QED
  BY <1>2, <1>3, <1>4, <1>5, <1>6, <1>7 DEF IInv

LEMMA OfferWriteStep ==
  ASSUME IInv, NEW s \in Writes, OfferWrite(s)
  PROVE  IInv'
<1>1. /\ aw = NoBurst /\ nw' = nw + 1 /\ nw \in Nat
      /\ aw' \in Burst /\ aw' # NoBurst /\ aw'.n = nw' /\ aw'.write = TRUE
      /\ UNCHANGED <<ar, w, nr, rcnt, wcnt, rmeta, wmeta, sel, lock, forked, buf, mem, ans,
                     done, collect, eccq, ready, overtaken>>
  <2>1. nw + 1 \in Nat \ {0} /\ nw \in Nat
    BY OnChannels DEF IInv
  <2>2. QED  BY <2>1, NumberedType DEF OfferWrite, request, respond
<1>2. TypeOK'
  BY <1>1 DEF IInv, TypeOK
<1>3. ForkInStep' /\ Room' /\ LockHolds' /\ BeatsSound' /\ BeatsOrdered'
  BY <1>1 DEF IInv, ForkInStep, Room, LockHolds, BeatsSound, Sound, AddrOf, BeatsOrdered, Before
<1>4. ForkedBeatHeld'
  <2>1. ASSUME forked # {} PROVE ArbValid' /\ Meta' = buf[Len(buf)]
    <3>1. lock /\ ArbValid /\ Meta = buf[Len(buf)] /\ Select = sel /\ Select' = sel
      BY <1>1, <2>1 DEF IInv, LockHolds, ForkedBeatHeld, Select
    <3>2. RdValid' = RdValid /\ RdBeat' = RdBeat
      BY <1>1 DEF RdValid, RdBeat, NextBeat, FirstBeat
    <3>3. WrValid => WrValid' /\ WrBeat' = WrBeat
      BY <1>1 DEF WrValid, WrBeat, NextBeat
    <3>4. QED  BY <3>1, <3>2, <3>3 DEF ArbValid, Meta
  <2>2. QED  BY <1>1, <2>1 DEF ForkedBeatHeld
<1>5. ReadsGo' /\ WritesGo'
  <2>1. wcnt > 0 => wmeta.of.n \in Nat
    BY DEF IInv, WritesGo, Going, BeatType, Burst
  <2>2. QED  BY <1>1, <2>1 DEF IInv, ReadsGo, WritesGo, Going
<1>6. BeatsOlder'
  <2>1. ASSUME NEW k \in 1 .. Left PROVE OlderThanNext(buf[k])'
    <3>1. buf[k] \in BeatType /\ OlderThanNext(buf[k])
      BY QueueLengths DEF IInv, BeatsOlder
    <3>2. buf[k].of.n \in Nat
      BY <3>1 DEF BeatType, Burst
    <3>3. QED  BY <1>1, <3>1, <3>2 DEF OlderThanNext, Older
  <2>2. QED  BY <1>1, <2>1 DEF BeatsOlder, Left
<1>7. SingleReadPassedOnce' /\ ReadIsNext'
  <2>1. WrValid => WrValid' /\ wcnt > 0 /\ ~Passed'
    BY <1>1 DEF WrValid, Passed
  <2>2. QED  BY <1>1, <2>1 DEF IInv, SingleReadPassedOnce, ReadIsNext
<1>8. QED
  BY <1>2, <1>3, <1>4, <1>5, <1>6, <1>7 DEF IInv

LEMMA OfferDataStep ==
  ASSUME IInv, NEW strb \in Strobes, OfferData(strb)
  PROVE  IInv'
<1>1. /\ w = <<>> /\ w' = <<strb>>
      /\ UNCHANGED <<ar, aw, nr, nw, rcnt, wcnt, rmeta, wmeta, sel, lock, forked, buf, mem, ans,
                     done, collect, eccq, ready, overtaken>>
  BY DEF OfferData, request, respond
<1>2. TypeOK'
  BY <1>1 DEF IInv, TypeOK
<1>3. ForkInStep' /\ Room' /\ LockHolds' /\ BeatsSound' /\ BeatsOrdered'
  BY <1>1 DEF IInv, ForkInStep, Room, LockHolds, BeatsSound, Sound, AddrOf, BeatsOrdered, Before
<1>4. ~WrValid
  BY <1>1 DEF WrValid
<1>5. ForkedBeatHeld'
  <2>1. ASSUME forked # {} PROVE ArbValid' /\ Meta' = buf[Len(buf)]
    <3>1. lock /\ ArbValid /\ Meta = buf[Len(buf)] /\ Select = sel /\ Select' = sel
      BY <1>1, <2>1 DEF IInv, LockHolds, ForkedBeatHeld, Select
    <3>2. RdValid' = RdValid /\ RdBeat' = RdBeat
      BY <1>1 DEF RdValid, RdBeat, NextBeat, FirstBeat
    <3>3. QED  BY <1>4, <3>1, <3>2 DEF ArbValid, Meta
  <2>2. QED  BY <1>1, <2>1 DEF ForkedBeatHeld
<1>6. ReadsGo' /\ WritesGo' /\ BeatsOlder'
  BY <1>1 DEF IInv, ReadsGo, WritesGo, Going, BeatsOlder, OlderThanNext, Older, Left
<1>7. SingleReadPassedOnce' /\ ReadIsNext'
  BY <1>1, <1>4 DEF IInv, SingleReadPassedOnce, ReadIsNext
<1>8. QED
  BY <1>2, <1>3, <1>5, <1>6, <1>7 DEF IInv

\* A beat that is answered moves from one queue to the other.
LEMMA MemAnswerStep ==
  ASSUME IInv, NEW a \in Answers, MemAnswer(a)
  PROVE  IInv'
<1>1. /\ mem # <<>> /\ ans' = Append(ans, a) /\ mem' = Tail(mem)
      /\ UNCHANGED <<ar, aw, w, nr, nw, rcnt, wcnt, rmeta, wmeta, sel, lock, forked, buf,
                     done, collect, eccq, ready, overtaken>>
  BY DEF MemAnswer, offer, request, respond
<1>2. /\ mem' \in Seq(BeatType) /\ ans' \in Seq(Answers)
      /\ Len(mem') = Len(mem) - 1 /\ Len(ans') = Len(ans) + 1 /\ Len(mem) \in Nat \ {0}
      /\ \A k \in 1 .. Len(mem') : mem'[k] = mem[k + 1]
  BY <1>1, QueueLengths, HeadTailProperties, AppendProperties, EmptySeq, LenProperties
<1>3. Left' = Left
  BY <1>2, QueueLengths DEF Left
<1>4. TypeOK'
  BY <1>1, <1>2 DEF IInv, TypeOK
<1>5. ForkInStep'
  <2>1. \A k \in 1 .. Len(mem') : k + 1 \in 1 .. Len(mem) /\ Len(ans) + (k + 1) = Len(ans') + k
    BY <1>2, QueueLengths
  <2>2. \A k \in 1 .. Len(mem') : mem'[k] = buf'[Len(ans') + k]
    BY <1>1, <1>2, <2>1 DEF IInv, ForkInStep
  <2>3. Len(buf') = Len(ans') + Len(mem') + Cardinality(forked')
    <3>1. Len(ans') + Len(mem') = Len(ans) + Len(mem)
      BY <1>2, QueueLengths
    <3>2. QED  BY <1>1, <3>1 DEF IInv, ForkInStep
  <2>4. QED  BY <1>1, <2>2, <2>3 DEF IInv, ForkInStep
<1>6. Room' /\ LockHolds' /\ BeatsSound' /\ BeatsOrdered'
  BY <1>1, <1>3 DEF IInv, Room, Left, LockHolds, BeatsSound, Sound, AddrOf, BeatsOrdered, Before
<1>7. ForkedBeatHeld'
  BY <1>1 DEF IInv, ForkedBeatHeld, ArbValid, Meta, Select, Contend, WrValid, RdValid, WrBeat, RdBeat,
     NextBeat, FirstBeat
<1>8. ReadsGo' /\ WritesGo' /\ BeatsOlder'
  BY <1>1, <1>3 DEF IInv, ReadsGo, WritesGo, Going, BeatsOlder, OlderThanNext, Older
<1>9. SingleReadPassedOnce' /\ ReadIsNext'
  BY <1>1 DEF IInv, SingleReadPassedOnce, ReadIsNext, Passed, WrValid
<1>10. QED
  BY <1>4, <1>5, <1>6, <1>7, <1>8, <1>9 DEF IInv

\* The oldest response leaves its buffers, and what is behind it moves up.
LEMMA ResponseStep ==
  ASSUME IInv, ResponseCycle
  PROVE  IInv'
<1>1. /\ UNCHANGED <<ar, aw, w, nr, nw, rcnt, wcnt, rmeta, wmeta, sel, lock, forked, mem, overtaken>>
      /\ ready' \subseteq Channels
  BY DEF ResponseCycle, offer, request
<1>2. WrValid' = WrValid /\ RdValid' = RdValid /\ Passed' = Passed /\ ArbValid' = ArbValid /\ Meta' = Meta
  BY <1>1 DEF WrValid, RdValid, Passed, ArbValid, Meta, Select, Contend, WrBeat, RdBeat, NextBeat, FirstBeat
<1>3. ReadsGo' /\ WritesGo' /\ LockHolds' /\ SingleReadPassedOnce' /\ ReadIsNext'
  BY <1>1, <1>2 DEF IInv, ReadsGo, WritesGo, Going, LockHolds, SingleReadPassedOnce, ReadIsNext
<1>4. \A e : OlderThanNext(e)' = OlderThanNext(e)
  BY <1>1 DEF OlderThanNext, Older
<1>5. CASE Handshake
  <2>1. /\ buf # <<>> /\ ans # <<>> /\ buf' = Tail(buf) /\ ans' = Tail(ans) /\ done' = {}
        /\ collect' = NextCollect
        /\ eccq' = (IF Head(buf).of.write /\ Head(buf).last THEN FALSE ELSE BEcc)
    BY <1>5 DEF ResponseCycle, Handshake, Joined
  <2>2. /\ buf' \in Seq(BeatType) /\ Len(buf') = Len(buf) - 1 /\ Len(buf) \in Nat \ {0}
        /\ \A k \in 1 .. Len(buf') : buf'[k] = buf[k + 1]
    BY <2>1, QueueLengths, HeadTailProperties, EmptySeq
  <2>3. ans' \in Seq(Answers) /\ Len(ans') = Len(ans) - 1 /\ Len(ans) \in Nat \ {0}
    BY <2>1, QueueLengths, HeadTailProperties, EmptySeq
  <2>4. collect' \in [err : BOOLEAN, exok : BOOLEAN] /\ eccq' \in BOOLEAN
    <3>1. collect \in [err : BOOLEAN, exok : BOOLEAN] /\ eccq \in BOOLEAN
      BY DEF IInv, TypeOK
    <3>2. BErr \in BOOLEAN /\ BExok \in BOOLEAN /\ BEcc \in BOOLEAN
      BY <3>1 DEF BErr, BExok, BEcc
    <3>3. QED  BY <2>1, <3>1, <3>2 DEF NextCollect
  <2>5. TypeOK'
    <3>1. {sel, lock, eccq}' \subseteq BOOLEAN /\ done' \subseteq Channels
      BY <1>1, <2>1, <2>4 DEF IInv, TypeOK
    <3>2. QED  BY <1>1, <2>2, <2>3, <2>4, <3>1 DEF IInv, TypeOK
  <2>6. ForkInStep'
    <3>1. Len(buf') = Len(ans') + Len(mem') + Cardinality(forked')
      <4>1. PICK c : c = Cardinality(forked) /\ c = Cardinality(forked')
        BY <1>1
      <4>2. Len(buf) = Len(ans) + Len(mem) + c
        BY <4>1 DEF IInv, ForkInStep
      <4>3. c \in Nat
        <5>1. IsFiniteSet(forked)
          <6>1. IsFiniteSet({}) /\ IsFiniteSet({"buf"})
            BY FS_EmptySet, FS_Singleton
          <6>2. forked = {} \/ forked = {"buf"}
            BY QueueLengths
          <6>3. QED  BY <6>1, <6>2, Zenon
        <5>2. QED  BY <4>1, <5>1, FS_CardinalityType
      <4>4. Len(mem') = Len(mem) /\ Len(mem) \in Nat
        BY <1>1, QueueLengths
      <4>5. Len(buf') = Len(ans') + Len(mem') + c
        BY <2>2, <2>3, <4>2, <4>3, <4>4
      <4>6. QED  BY <4>1, <4>5
    <3>2. ASSUME NEW k \in 1 .. Len(mem') PROVE mem'[k] = buf'[Len(ans') + k]
      <4>1. k \in 1 .. Len(mem) /\ mem[k] = buf[Len(ans) + k]
        BY <1>1 DEF IInv, ForkInStep
      <4>2. Len(mem) \in Nat /\ Left = Len(ans) + Len(mem) /\ Left <= Len(buf)
        BY QueueLengths DEF Left
      <4>3. Len(ans') + k \in 1 .. Len(buf') /\ Len(ans') + k + 1 = Len(ans) + k
        BY <2>2, <2>3, <4>1, <4>2
      <4>4. QED  BY <1>1, <2>2, <4>1, <4>3
    <3>3. QED  BY <1>1, <3>1, <3>2 DEF IInv, ForkInStep
  <2>7. Left' = Left - 1 /\ Left \in Nat \ {0}
    BY <1>1, <2>3, QueueLengths DEF Left
  <2>8. ForkedBeatHeld'
    <3>1. ASSUME forked # {} PROVE buf'[Len(buf')] = buf[Len(buf)]
      <4>1. Len(buf) = Left + 1
        BY <3>1, QueueLengths
      <4>2. Len(buf') \in 1 .. Len(buf') /\ Len(buf') + 1 = Len(buf)
        BY <2>2, <2>7, <4>1
      <4>3. QED  BY <2>2, <4>2
    <3>2. QED  BY <1>1, <1>2, <3>1 DEF IInv, ForkedBeatHeld
  <2>9. Room'
    <3>1. Len(ans) + Len(mem) <= BufDepth /\ Len(mem) \in Nat /\ BufDepth \in Nat
      BY QueueLengths DEF IInv, Room
    <3>2. QED  BY <1>1, <2>3, <3>1 DEF Room
  <2>10. BeatsOlder'
    <3>1. ASSUME NEW k \in 1 .. Left' PROVE OlderThanNext(buf[k])'
      <4>1. k + 1 \in 1 .. Left /\ k \in 1 .. Len(buf')
        BY <2>2, <2>7, QueueLengths
      <4>2. PICK e : e = buf[k + 1] /\ e = buf'[k]
        BY <2>2, <4>1
      <4>3. OlderThanNext(e)'
        BY <1>4, <4>1, <4>2 DEF IInv, BeatsOlder
      <4>4. QED  BY <4>2, <4>3
    <3>2. QED  BY <3>1 DEF BeatsOlder
  <2>11. BeatsSound' /\ BeatsOrdered'
    <3>1. \A k \in 1 .. Len(buf') : k + 1 \in 1 .. Len(buf)
      BY <2>2
    <3>2. BeatsSound'
      BY <2>2, <3>1 DEF IInv, BeatsSound, Sound, AddrOf
    <3>3. ASSUME NEW k \in 1 .. Len(buf'), NEW l \in 1 .. Len(buf'), k < l
          PROVE  buf'[k].of.write = buf'[l].of.write => Before(buf'[k], buf'[l])
      <4>1. k + 1 < l + 1 /\ k + 1 \in 1 .. Len(buf) /\ l + 1 \in 1 .. Len(buf)
        BY <3>1, <3>3
      <4>2. QED  BY <2>2, <4>1 DEF IInv, BeatsOrdered
    <3>4. BeatsOrdered'
      BY <3>3 DEF BeatsOrdered, Before
    <3>5. QED  BY <3>2, <3>4
  <2>12. QED
    BY <1>3, <2>5, <2>6, <2>8, <2>9, <2>10, <2>11 DEF IInv
<1>6. CASE ~Handshake
  <2>1. UNCHANGED <<buf, ans, collect, eccq>> /\ done' = done \cup (Offered \cap ready)
    BY <1>6 DEF ResponseCycle
  <2>2. TypeOK'
    BY <1>1, <2>1 DEF IInv, TypeOK
  <2>3. ForkInStep' /\ ForkedBeatHeld' /\ Room' /\ BeatsSound' /\ BeatsOrdered'
    BY <1>1, <1>2, <2>1 DEF IInv, ForkInStep, ForkedBeatHeld, Room, BeatsSound, Sound, AddrOf,
       BeatsOrdered, Before
  <2>4. BeatsOlder'
    BY <1>1, <1>4, <2>1 DEF IInv, BeatsOlder, Left
  <2>5. QED  BY <1>3, <2>2, <2>3, <2>4 DEF IInv
<1>7. QED
  BY <1>5, <1>6

\* The buffers after a response has left them.
LEMMA Pops ==
  ASSUME IInv, ResponseCycle, Handshake
  PROVE  /\ buf' = Tail(buf) /\ ans' = Tail(ans)
         /\ Len(buf) \in Nat \ {0} /\ Len(buf') = Len(buf) - 1 /\ Head(buf) = buf[1]
         /\ \A k \in 1 .. Len(buf') : buf'[k] = buf[k + 1]
         /\ Len(ans) \in Nat \ {0} /\ Len(ans') = Len(ans) - 1 /\ Head(ans) = ans[1]
         /\ \A k \in 1 .. Len(ans') : ans'[k] = ans[k + 1]
         /\ Left \in Nat \ {0} /\ Left' = Left - 1 /\ Left <= Len(buf) /\ Len(ans) <= Left
         /\ \A k \in 1 .. Len(buf) : buf[k] \in BeatType
<1>1. buf # <<>> /\ ans # <<>> /\ buf' = Tail(buf) /\ ans' = Tail(ans) /\ mem' = mem
  BY DEF ResponseCycle, Handshake, Joined
<1>2. /\ Len(buf) \in Nat \ {0} /\ Len(buf') = Len(buf) - 1 /\ Head(buf) = buf[1]
      /\ \A k \in 1 .. Len(buf') : buf'[k] = buf[k + 1]
  BY <1>1, QueueLengths, HeadTailProperties, EmptySeq
<1>3. /\ Len(ans) \in Nat \ {0} /\ Len(ans') = Len(ans) - 1 /\ Head(ans) = ans[1]
      /\ \A k \in 1 .. Len(ans') : ans'[k] = ans[k + 1]
  BY <1>1, QueueLengths, HeadTailProperties, EmptySeq
<1>4. Left \in Nat /\ Left <= Len(buf)
  BY <1>2, QueueLengths
<1>5. /\ Left # 0 /\ Left' = Left - 1 /\ Len(ans) <= Left
  <2>1. Len(mem) \in Nat /\ Left = Len(ans) + Len(mem) /\ Left' = Len(ans') + Len(mem)
    BY <1>1, QueueLengths DEF Left
  <2>2. QED  BY <1>3, <2>1
<1>6. QED
  BY <1>1, <1>2, <1>3, <1>4, <1>5, QueueLengths

-----------------------------------------------------------------------------
(***************************************************************************)
(* The invariant is inductive.                                             *)
(***************************************************************************)
LEMMA InitIInv == Init => IInv
<1> SUFFICES ASSUME Init PROVE IInv
  OBVIOUS
<1>1. /\ ar = NoBurst /\ aw = NoBurst /\ w = <<>> /\ nr = 0 /\ nw = 0 /\ rcnt = 0 /\ wcnt = 0
      /\ rmeta = NoBurst /\ wmeta = NoBurst /\ sel = FALSE /\ lock = FALSE /\ forked = {}
      /\ buf = <<>> /\ mem = <<>> /\ ans = <<>> /\ done = {} /\ eccq = FALSE /\ overtaken = 0
      /\ collect = [err |-> FALSE, exok |-> TRUE] /\ ready \in SUBSET Channels
  BY DEF Init
<1>2. Len(buf) = 0 /\ Len(mem) = 0 /\ Len(ans) = 0 /\ Cardinality(forked) = 0 /\ BufDepth \in Nat
  BY <1>1, EmptySeq, FS_EmptySet, AxiToMemAssumption
<1>3. TypeOK
  <2>1. buf \in Seq(BeatType) /\ mem \in Seq(BeatType) /\ ans \in Seq(Answers)
    BY <1>1, EmptySeq
  <2>2. {sel, lock, eccq} \subseteq BOOLEAN /\ forked \subseteq Outputs /\ forked # Outputs
    BY <1>1 DEF Outputs
  <2>3. QED  BY <1>1, <2>1, <2>2 DEF TypeOK
<1>4. ForkInStep /\ Room
  BY <1>1, <1>2 DEF ForkInStep, Room
<1>5. ForkedBeatHeld /\ SingleReadPassedOnce /\ LockHolds /\ ReadIsNext /\ ReadsGo /\ WritesGo
  BY <1>1 DEF ForkedBeatHeld, SingleReadPassedOnce, LockHolds, ReadIsNext, ReadsGo, WritesGo, Going
<1>6. BeatsOlder /\ BeatsSound /\ BeatsOrdered
  BY <1>2 DEF BeatsOlder, BeatsSound, BeatsOrdered, Left
<1>7. QED
  BY <1>3, <1>4, <1>5, <1>6 DEF IInv

LEMMA StutterIInv == IInv /\ UNCHANGED vars => IInv'
<1> SUFFICES ASSUME IInv, UNCHANGED vars PROVE IInv'
  OBVIOUS
<1>1. TypeOK' /\ ForkInStep' /\ SingleReadPassedOnce' /\ Room' /\ LockHolds'
  BY DEF vars, IInv, TypeOK, ForkInStep, SingleReadPassedOnce, Room, LockHolds
<1>2. ForkedBeatHeld' /\ ReadIsNext'
  BY DEF vars, IInv, ForkedBeatHeld, ReadIsNext, ArbValid, Meta, Select, Contend, WrValid, RdValid,
     WrBeat, RdBeat, NextBeat, FirstBeat, Passed
<1>3. ReadsGo' /\ WritesGo' /\ BeatsOlder' /\ BeatsSound' /\ BeatsOrdered'
  BY DEF vars, IInv, ReadsGo, WritesGo, Going, BeatsOlder, BeatsSound, BeatsOrdered, Left,
     OlderThanNext, Older, Sound, AddrOf, Before
<1>4. QED
  BY <1>1, <1>2, <1>3 DEF IInv

LEMMA NextIInv == IInv /\ [Next]_vars => IInv'
<1> SUFFICES ASSUME IInv, [Next]_vars PROVE IInv'
  OBVIOUS
<1>1. CASE \E s \in Reads : OfferRead(s)
  BY <1>1, OfferReadStep
<1>2. CASE \E s \in Writes : OfferWrite(s)
  BY <1>2, OfferWriteStep
<1>3. CASE \E strb \in Strobes : OfferData(strb)
  BY <1>3, OfferDataStep
<1>4. CASE \E gnt \in BOOLEAN : RequestCycle(gnt)
  BY <1>4, RequestStep
<1>5. CASE \E a \in Answers : MemAnswer(a)
  BY <1>5, MemAnswerStep
<1>6. CASE ResponseCycle
  BY <1>6, ResponseStep
<1>7. CASE UNCHANGED vars
  BY <1>7, StutterIInv
<1>8. QED
  BY <1>1, <1>2, <1>3, <1>4, <1>5, <1>6, <1>7 DEF Next

\* The invariant holds in every state the adapter reaches.
THEOREM Inductive == Spec => []IInv
<1>1. QED
  BY InitIInv, NextIInv, PTL DEF Spec

-----------------------------------------------------------------------------
(***************************************************************************)
(* What follows for the adapter.                                           *)
(***************************************************************************)
\* Every register of the adapter keeps its type.
THEOREM TypeCorrect == Spec => []TypeOK
<1>1. IInv => TypeOK
  BY DEF IInv
<1>2. QED
  BY <1>1, Inductive, PTL

\* The memory's answers meet the descriptions of their own beats, and the fork
\* waits for the memory only.
THEOREM ForkKeepsStep == Spec => []ForkInStep
<1>1. IInv => ForkInStep
  BY DEF IInv
<1>2. QED
  BY <1>1, Inductive, PTL

\* The arbiter stays with a beat that is stalled in the fork.
THEOREM ForkedHeld == Spec => []ForkedBeatHeld
<1>1. IInv => ForkedBeatHeld
  BY DEF IInv
<1>2. QED
  BY <1>1, Inductive, PTL

\* Bursts are cut into beats at their addresses, in order and the last one flagged,
\* and the bursts of a direction follow each other.
THEOREM BeatsInOrder == Spec => []BurstBeats
<1>1. IInv => BurstBeats
  <2> SUFFICES ASSUME IInv PROVE BurstBeats
    OBVIOUS
  <2>1. \A k \in 1 .. Len(buf) :
          /\ buf[k].last <=> buf[k].i = buf[k].of.len
          /\ buf[k].addr = IF buf[k].i = 0 THEN buf[k].of.addr
                           ELSE Aligned(buf[k].of.addr, buf[k].of.size) + buf[k].i * NumBytes(buf[k].of.size)
    BY DEF IInv, BeatsSound, Sound, AddrOf
  <2>2. \A k, l \in 1 .. Len(buf) : k < l /\ buf[k].of.write = buf[l].of.write =>
          buf[k].of.n < buf[l].of.n \/ (buf[k].of = buf[l].of /\ buf[k].i < buf[l].i)
    BY DEF IInv, BeatsOrdered, Before
  <2>3. QED  BY <2>1, <2>2 DEF BurstBeats
<1>2. QED
  BY <1>1, Inductive, PTL

\* A single read is passed by no more than one single write of its priority.
THEOREM PassedOnce == Spec => []SingleReadPassedOnce
<1>1. IInv => SingleReadPassedOnce
  BY DEF IInv
<1>2. QED
  BY <1>1, Inductive, PTL

\* A queue that is extended keeps its head.
LEMMA HeadStays ==
  ASSUME NEW S, NEW s \in Seq(S), s # <<>>, NEW e \in S
  PROVE  Append(s, e) # <<>> /\ Head(Append(s, e)) = Head(s)
<1>1. 1 \in 1 .. Len(s)
  BY EmptySeq
<1>2. Append(s, e) # <<>> /\ Append(s, e)[1] = s[1]
  BY <1>1, AppendProperties
<1>3. \A t : Head(t) = t[1]
  OBVIOUS
<1>4. QED
  BY <1>2, <1>3

\* No step withdraws or changes a response that a channel did not take yet.
LEMMA WaitingStays ==
  ASSUME IInv, [Next]_vars, Joined, ~Handshake
  PROVE  /\ Joined' /\ Head(buf') = Head(buf) /\ Head(ans') = Head(ans)
         /\ collect' = collect /\ (done' = done \/ done' = done \cup (Offered \cap ready))
<1>1. buf # <<>> /\ ans # <<>>
  BY DEF Joined
<1>2. CASE \E gnt \in BOOLEAN : RequestCycle(gnt)
  <2>1. ArbValid /\ UNCHANGED <<ans, done, collect>> /\ buf' = (IF forked = {} THEN Append(buf, Meta) ELSE buf)
    BY <1>2, RequestCases
  <2>2. Meta \in BeatType /\ buf \in Seq(BeatType)
    BY <2>1, SelectedBeat, QueueLengths
  <2>3. Append(buf, Meta) # <<>> /\ Head(Append(buf, Meta)) = Head(buf)
    BY <1>1, <2>2, HeadStays
  <2>4. QED  BY <1>1, <2>1, <2>3 DEF Joined
<1>3. CASE \E a \in Answers : MemAnswer(a)
  <2>1. PICK a \in Answers : ans' = Append(ans, a) /\ UNCHANGED <<buf, done, collect>>
    BY <1>3 DEF MemAnswer, respond
  <2>2. ans' # <<>> /\ Head(ans') = Head(ans)
    BY <1>1, <2>1, QueueLengths, HeadStays
  <2>3. QED  BY <1>1, <2>1, <2>2 DEF Joined
<1>4. CASE ResponseCycle
  <2>1. UNCHANGED <<buf, ans, collect>> /\ done' = done \cup (Offered \cap ready)
    BY <1>4 DEF ResponseCycle
  <2>2. QED  BY <1>1, <2>1 DEF Joined
<1>5. CASE \/ \E s \in Reads : OfferRead(s)
           \/ \E s \in Writes : OfferWrite(s)
           \/ \E strb \in Strobes : OfferData(strb)
           \/ UNCHANGED vars
  <2>1. UNCHANGED <<buf, ans, collect, done>>
    BY <1>5 DEF OfferRead, OfferWrite, OfferData, respond, vars
  <2>2. QED  BY <1>1, <2>1 DEF Joined
<1>6. QED
  BY <1>2, <1>3, <1>4, <1>5 DEF Next

\* A response that is offered stays offered, with its resp field, until it is taken.
THEOREM ResponsesStay == Spec => ResponsesHeld
<1> DEFINE Held == /\ Waits("b") => "b" \in Offered' /\ B'.resp = B.resp
                   /\ Waits("r") => "r" \in Offered' /\ R'.resp = R.resp
<1>1. ASSUME IInv, [Next]_vars PROVE Held
  <2> SUFFICES ASSUME NEW chan \in Channels, Waits(chan)
               PROVE  chan \in Offered' /\ B'.resp = B.resp /\ R'.resp = R.resp
    BY DEF Channels
  <2>1. Joined /\ ~Handshake /\ chan \in Owed(Head(buf)) \ done /\ chan \notin ready
    BY DEF Waits, Offered, Handshake
  <2>2. /\ Joined' /\ Head(buf') = Head(buf) /\ Head(ans') = Head(ans) /\ collect' = collect
        /\ (done' = done \/ done' = done \cup (Offered \cap ready))
    BY <1>1, <2>1, WaitingStays
  <2>3. chan \in Offered'
    <3>1. Owed(Head(buf)) = Owed(Head(buf'))
      BY <2>2
    <3>2. chan \notin done'
      BY <2>1, <2>2
    <3>3. QED  BY <2>1, <2>2, <3>1, <3>2 DEF Offered
  <2>4. B'.resp = B.resp
    BY <2>2 DEF B, BErr, BExok
  <2>5. R'.resp = R.resp
    BY <2>2 DEF R
  <2>6. QED  BY <2>3, <2>4, <2>5
<1>2. Spec => [][Held]_vars
  BY <1>1, Inductive, PTL DEF Spec
<1>3. QED
  BY <1>2 DEF ResponsesHeld

-----------------------------------------------------------------------------
(***************************************************************************)
(* The adapter implements AxiService.  Place for place, the beats to be    *)
(* answered are those in buf and those of the bursts in progress that are  *)
(* still to go; accepting a beat moves it from the second to the first.    *)
(***************************************************************************)
\* The beat that is accepted is the first of those to go, and the first of its burst
\* when none was.
LEMMA FirstToGo ==
  ASSUME NEW c \in Nat, NEW m, NEW o, NEW strb \in SUBSET Banks,
         c > 0 => m \in BeatType /\ m.i + c = m.of.len, c = 0 => o \in Burst,
         NEW x \in BeatType, x = InTurn(c, m, o, strb), Sound(x),
         NEW rest, rest = ToGo(LeftAfter(c, o), Kept(x))
  PROVE  /\ IF c > 0 THEN ToGo(c, m) = {Place(x)} \cup rest
            ELSE x.of = o /\ Place(x) = Service!Beat(o, 0) /\ Service!Beats(o) = {Place(x)} \cup rest
         /\ \A y \in rest : y.of = x.of /\ y.i \in Nat /\ x.i < y.i
<1>1. x \in BeatType /\ Sound(x)
  OBVIOUS
<1>2. x.i \in Nat /\ x.of.len \in Nat /\ x.i <= x.of.len /\ (x.last <=> x.i = x.of.len) /\ x.last \in BOOLEAN
  BY <1>1 DEF BeatType, Burst, Sound
<1>3. Kept(x).of = x.of /\ Kept(x).i = x.i
  BY <1>1, KeptPlace
<1>4. x.i + LeftAfter(c, o) = x.of.len /\ LeftAfter(c, o) \in Nat
  <2>1. CASE c > 0
    <3>1. m \in BeatType /\ m.i + c = m.of.len /\ x.of = m.of /\ x.i = m.i + 1 /\ m.i \in Nat
      BY <2>1, NextBeatType DEF BeatType, InTurn
    <3>2. QED  BY <2>1, <3>1 DEF LeftAfter
  <2>2. CASE ~(c > 0)
    <3>1. o \in Burst /\ x.of = o /\ x.i = 0 /\ o.len \in Nat
      BY <2>2 DEF FirstBeat, Burst, InTurn
    <3>2. QED  BY <2>2, <3>1 DEF LeftAfter
  <2>3. QED  BY <2>1, <2>2
<1>5. rest = {[of |-> x.of, i |-> i, last |-> i = x.of.len] : i \in x.i + 1 .. x.of.len}
  <2>1. CASE LeftAfter(c, o) = 0
    <3>1. x.i + 1 .. x.of.len = {}
      BY <1>2, <1>4, <2>1
    <3>2. QED  BY <2>1, <3>1 DEF ToGo
  <2>2. CASE LeftAfter(c, o) # 0
    BY <1>3, <2>2 DEF ToGo
  <2>3. QED  BY <2>1, <2>2
<1>6. Place(x) = [of |-> x.of, i |-> x.i, last |-> x.i = x.of.len]
  BY <1>2 DEF Place
<1>7. x.i .. x.of.len = {x.i} \cup (x.i + 1 .. x.of.len)
  BY <1>2
<1>8. {[of |-> x.of, i |-> i, last |-> i = x.of.len] : i \in x.i .. x.of.len} = {Place(x)} \cup rest
  BY <1>5, <1>6, <1>7
<1>9. CASE c > 0
  <2>1. m \in BeatType /\ x.of = m.of /\ x.i = m.i + 1
    BY <1>9, NextBeatType DEF InTurn
  <2>2. ToGo(c, m) = {Place(x)} \cup rest
    BY <1>8, <1>9, <2>1 DEF ToGo
  <2>3. QED  BY <1>2, <1>5, <1>9, <2>2
<1>10. CASE ~(c > 0)
  <2>1. x.of = o /\ x.i = 0
    BY <1>10 DEF FirstBeat, InTurn
  <2>2. Place(x) = Service!Beat(o, 0) /\ Service!Beats(o) = {Place(x)} \cup rest
    BY <1>6, <1>8, <2>1 DEF Service!Beat, Service!Beats
  <2>3. QED  BY <1>2, <1>5, <1>10, <2>1, <2>2
<1>11. QED
  BY <1>9, <1>10

\* What is to be answered after the oldest beat in buf.
Later == {Place(buf[k]) : k \in 2 .. Left} \cup ToGo(rcnt, rmeta) \cup ToGo(wcnt, wmeta)

\* The beats to go are younger than what left the arbiter.
LEMMA ToGoIsYounger ==
  ASSUME NEW c \in Nat, NEW m, NEW o, NEW n, NEW wr \in BOOLEAN, Going(c, m, o, n, wr), NEW y \in ToGo(c, m)
  PROVE  /\ y.of \in Burst /\ y.i \in Nat /\ y.of.write = wr
         /\ \A e \in BeatType : Older(e, c, m, o, n) => Before(e, y)
<1>1. c > 0 /\ m \in BeatType /\ m.of.write = wr
  BY DEF ToGo, Going
<1>2. m.of \in Burst /\ m.i \in Nat /\ m.of.len \in Nat
  BY <1>1 DEF BeatType, Burst
<1>3. PICK i \in m.i + 1 .. m.of.len : y = [of |-> m.of, i |-> i, last |-> i = m.of.len]
  BY <1>1 DEF ToGo
<1>4. y.of = m.of /\ y.i = i /\ i \in Nat /\ m.i < i
  BY <1>2, <1>3
<1>5. ASSUME NEW e \in BeatType, Older(e, c, m, o, n) PROVE Before(e, y)
  <2>1. e.i \in Nat
    BY BeatFields
  <2>2. e.of.n < m.of.n \/ (e.of = m.of /\ e.i <= m.i)
    BY <1>1, <1>5 DEF Older
  <2>3. QED  BY <1>2, <1>4, <2>1, <2>2 DEF Before
<1>6. QED
  BY <1>1, <1>2, <1>4, <1>5

\* What is to be answered belongs to bursts.
LEMMA UnansweredType ==
  ASSUME IInv, NEW e \in Unanswered
  PROVE  e.of.n \in Nat
<1>1. /\ rcnt \in Nat /\ wcnt \in Nat
      /\ Going(rcnt, rmeta, ar, nr, FALSE) /\ Going(wcnt, wmeta, aw, nw, TRUE)
  BY OnChannels DEF IInv, ReadsGo, WritesGo
<1>2. ASSUME NEW k \in 1 .. Left PROVE Place(buf[k]).of \in Burst
  <2>1. buf[k] \in BeatType
    BY QueueLengths
  <2>2. QED  BY <2>1, BeatFields DEF Place
<1>3. e.of \in Burst
  BY <1>1, <1>2, ToGoIsYounger DEF Unanswered
<1>4. QED
  BY <1>3 DEF Burst

\* The oldest beat in buf comes before all others of its direction that are to be answered.
LEMMA HeadFirst ==
  ASSUME IInv, Left # 0, NEW h, h = Head(buf)
  PROVE  /\ h = buf[1] /\ h \in BeatType /\ Left \in Nat /\ Left <= Len(buf)
         /\ Unanswered = {Place(h)} \cup Later
         /\ \A y \in Later : y.i \in Nat /\ (y.of.write = h.of.write => Before(h, y))
<1>1. /\ Left \in Nat \ {0} /\ Left <= Len(buf) /\ Len(buf) \in Nat /\ h = buf[1]
      /\ \A k \in 1 .. Len(buf) : buf[k] \in BeatType
  BY QueueLengths
<1>2. h \in BeatType /\ 1 \in 1 .. Left /\ 1 \in 1 .. Len(buf)
  BY <1>1
<1>3. 1 .. Left = {1} \cup (2 .. Left)
  BY <1>1
<1>4. Unanswered = {Place(h)} \cup Later
  BY <1>1, <1>3 DEF Unanswered, Later
<1>5. ASSUME NEW k \in 2 .. Left
      PROVE  Place(buf[k]).i \in Nat /\ (Place(buf[k]).of.write = h.of.write => Before(h, Place(buf[k])))
  <2>1. k \in 1 .. Len(buf) /\ 1 < k
    BY <1>1
  <2>2. buf[k].i \in Nat /\ Place(buf[k]).i = buf[k].i /\ Place(buf[k]).of = buf[k].of
    BY <1>1, <2>1, BeatFields DEF Place
  <2>3. buf[k].of.write = h.of.write => Before(h, buf[k])
    BY <1>1, <1>2, <2>1 DEF IInv, BeatsOrdered
  <2>4. QED  BY <2>2, <2>3 DEF Before
<1>6. OlderThanNext(h)
  BY <1>1, <1>2 DEF IInv, BeatsOlder
<1>7. h.of.write \in BOOLEAN
  BY <1>2 DEF BeatType, Burst
<1>8. ASSUME NEW y \in ToGo(rcnt, rmeta)
      PROVE  y.i \in Nat /\ (y.of.write = h.of.write => Before(h, y))
  <2>1. rcnt \in Nat /\ Going(rcnt, rmeta, ar, nr, FALSE)
    BY OnChannels DEF IInv, ReadsGo
  <2>2. y.i \in Nat /\ y.of.write = FALSE /\ (Older(h, rcnt, rmeta, ar, nr) => Before(h, y))
    BY <1>2, <1>8, <2>1, ToGoIsYounger
  <2>3. QED  BY <1>6, <1>7, <2>2 DEF OlderThanNext
<1>9. ASSUME NEW y \in ToGo(wcnt, wmeta)
      PROVE  y.i \in Nat /\ (y.of.write = h.of.write => Before(h, y))
  <2>1. wcnt \in Nat /\ Going(wcnt, wmeta, aw, nw, TRUE)
    BY OnChannels DEF IInv, WritesGo
  <2>2. y.i \in Nat /\ y.of.write = TRUE /\ (Older(h, wcnt, wmeta, aw, nw) => Before(h, y))
    BY <1>2, <1>9, <2>1, ToGoIsYounger
  <2>3. QED  BY <1>6, <1>7, <2>2 DEF OlderThanNext
<1>10. QED
  BY <1>1, <1>2, <1>4, <1>5, <1>8, <1>9 DEF Later

-----------------------------------------------------------------------------
(***************************************************************************)
(* The response side: the oldest beat of its direction is answered.        *)
(***************************************************************************)
\* A channel has taken a response only while there is one.
ServiceInv == IInv /\ (done # {} => Joined)

LEMMA NextServiceInv == ServiceInv /\ [Next]_vars => ServiceInv'
<1> SUFFICES ASSUME ServiceInv, [Next]_vars PROVE ServiceInv'
  OBVIOUS
<1>1. IInv /\ IInv' /\ (done # {} => Joined)
  BY NextIInv DEF ServiceInv
<1>2. CASE \E gnt \in BOOLEAN : RequestCycle(gnt)
  <2>1. ArbValid /\ UNCHANGED <<ans, done>> /\ buf' = (IF forked = {} THEN Append(buf, Meta) ELSE buf)
    BY <1>1, <1>2, RequestCases
  <2>2. Append(buf, Meta) # <<>>
    BY <1>1, <2>1, SelectedBeat, QueueLengths, AppendProperties
  <2>3. QED  BY <1>1, <2>1, <2>2 DEF ServiceInv, Joined
<1>3. CASE \E a \in Answers : MemAnswer(a)
  <2>1. PICK a \in Answers : ans' = Append(ans, a) /\ UNCHANGED <<buf, done>>
    BY <1>3 DEF MemAnswer, respond
  <2>2. ans' # <<>>
    BY <1>1, <2>1, QueueLengths, AppendProperties
  <2>3. QED  BY <1>1, <2>1, <2>2 DEF ServiceInv, Joined
<1>4. CASE ResponseCycle
  BY <1>1, <1>4 DEF ResponseCycle, ServiceInv, Joined, Offered
<1>5. CASE \/ \E s \in Reads : OfferRead(s)
           \/ \E s \in Writes : OfferWrite(s)
           \/ \E strb \in Strobes : OfferData(strb)
           \/ UNCHANGED vars
  <2>1. UNCHANGED <<buf, ans, done>>
    BY <1>5 DEF OfferRead, OfferWrite, OfferData, respond, vars
  <2>2. QED  BY <1>1, <2>1 DEF ServiceInv, Joined
<1>6. QED
  BY <1>2, <1>3, <1>4, <1>5 DEF Next

\* The responses a beat is owed are told apart by their channels, and from those of others.
LEMMA ResponsesApart ==
  ASSUME NEW h, NEW c, NEW d
  PROVE  /\ Response(c, h) = Response(d, h) => c = d
         /\ Response(c, h).chan = c /\ Response(c, h).of = h.of /\ Response(c, h).i = h.i
         /\ Response(c, Place(h)) = Response(c, h)
BY DEF Response, Place

\* A response cycle takes responses to the oldest beat, and no others, off what is owed.
LEMMA ResponseTakes ==
  ASSUME ServiceInv, ResponseCycle,
         NEW given, given = {Response(c, Head(buf)) : c \in Offered \cap ready}
  PROVE  /\ {Response(x.chan, x.beat) : x \in rsp'} = given
         /\ given \subseteq Outstanding /\ Outstanding' = Outstanding \ given
<1>1. IInv /\ (done # {} => Joined)
  BY DEF ServiceInv
<1>2. {Response(x.chan, x.beat) : x \in rsp'} = given
  <2>1. rsp' = (IF "b" \in Offered \cap ready THEN {B} ELSE {}) \cup
               (IF "r" \in Offered \cap ready THEN {R} ELSE {})
    BY DEF ResponseCycle
  <2>2. B.chan = "b" /\ B.beat = Head(buf) /\ R.chan = "r" /\ R.beat = Head(buf)
    BY DEF B, R
  <2>3. Offered \subseteq {"b", "r"}
    BY DEF Offered, Owed
  <2>4. QED  BY <2>1, <2>2, <2>3
<1>3. CASE ~Joined
  <2>1. Offered = {} /\ done = {} /\ UNCHANGED <<buf, ans, mem, rcnt, wcnt, rmeta, wmeta>> /\ done' = {}
    BY <1>1, <1>3 DEF Offered, ResponseCycle, Handshake, request
  <2>2. given = {} /\ Outstanding' = Outstanding
    BY <2>1 DEF Outstanding, Unanswered, Left
  <2>3. QED  BY <1>2, <2>2
<1>4. CASE Joined
  <2> DEFINE h == Head(buf)
             Rest == UNION {OwedFor(e) : e \in Later}
  <2>1. Left # 0
    <3>1. Len(ans) \in Nat \ {0} /\ Len(mem) \in Nat
      BY <1>1, <1>4, QueueLengths, EmptySeq DEF Joined
    <3>2. QED  BY <3>1 DEF Left
  <2>2. /\ h = buf[1] /\ h \in BeatType /\ Left \in Nat /\ Left <= Len(buf)
        /\ Unanswered = {Place(h)} \cup Later
        /\ \A y \in Later : y.i \in Nat /\ (y.of.write = h.of.write => Before(h, y))
    BY <1>1, <2>1, HeadFirst
  <2>3. OwedFor(Place(h)) = {Response(c, h) : c \in Owed(h)}
    BY DEF OwedFor, Owed, Place, Response
  <2>4. ASSUME NEW c PROVE Response(c, h) \notin Rest
    <3> SUFFICES ASSUME NEW y \in Later, NEW d, Response(c, h) = Response(d, y) PROVE FALSE
      BY DEF OwedFor
    <3>1. h.of = y.of /\ h.i = y.i
      BY ResponsesApart
    <3>2. h.i < y.i
      BY <2>2, <3>1, BeatFields DEF Before
    <3>3. QED  BY <2>2, <3>1, <3>2, BeatFields
  <2>5. Outstanding = ({Response(c, h) : c \in Owed(h)} \cup Rest) \ {Response(c, h) : c \in done}
    BY <2>2, <2>3 DEF Outstanding
  <2>6. given = {Response(c, h) : c \in (Owed(h) \ done) \cap ready}
    BY <1>4 DEF Offered
  <2>7. given \subseteq Outstanding
    BY <2>5, <2>6, ResponsesApart
  <2>8. CASE Handshake
    <3>1. given = {Response(c, h) : c \in Owed(h) \ done}
      BY <1>4, <2>6, <2>8 DEF Handshake, Offered
    <3>2. /\ done' = {} /\ Left' = Left - 1 /\ UNCHANGED <<rcnt, wcnt, rmeta, wmeta>>
          /\ \A k \in 1 .. Len(buf') : buf'[k] = buf[k + 1]
          /\ Len(buf') = Len(buf) - 1 /\ Len(buf) \in Nat
      BY <1>1, <2>8, Pops DEF ResponseCycle, request
    <3>3. {Place(buf'[k]) : k \in 1 .. Left'} = {Place(buf[k]) : k \in 2 .. Left}
      <4>1. \A k \in 1 .. Left' : k + 1 \in 2 .. Left /\ buf'[k] = buf[k + 1]
        BY <2>2, <3>2
      <4>2. \A k \in 2 .. Left : k - 1 \in 1 .. Left' /\ buf'[k - 1] = buf[k]
        BY <2>2, <3>2
      <4>3. QED  BY <4>1, <4>2
    <3>4. Unanswered' = Later
      BY <3>2, <3>3 DEF Unanswered, Later
    <3>5. Outstanding' = Rest
      BY <3>2, <3>4 DEF Outstanding
    <3>6. Outstanding \ given = Rest
      BY <2>4, <2>5, <3>1
    <3>7. QED  BY <1>2, <2>7, <3>5, <3>6
  <2>9. CASE ~Handshake
    <3>1. UNCHANGED <<buf, ans, mem, rcnt, wcnt, rmeta, wmeta>> /\ done' = done \cup (Offered \cap ready)
      BY <2>9 DEF ResponseCycle, request
    <3>2. Unanswered' = Unanswered
      BY <3>1 DEF Unanswered, Left
    <3>3. {Response(c, h) : c \in done'} = {Response(c, h) : c \in done} \cup given
      BY <3>1
    <3>4. Outstanding' = Outstanding \ given
      BY <3>1, <3>2, <3>3 DEF Outstanding
    <3>5. QED  BY <1>2, <2>7, <3>4
  <2>10. QED
    BY <2>8, <2>9
<1>5. QED
  BY <1>3, <1>4

-----------------------------------------------------------------------------
(***************************************************************************)
(* The request side: a burst is owed its responses from its first beat on. *)
(***************************************************************************)
\* What is owed changes only with the beats to be answered and the channels that are done.
LEMMA OwedTheSame ==
  ASSUME Unanswered' = Unanswered, done' = done, done # {} => Head(buf') = Head(buf)
  PROVE  Outstanding' = Outstanding
<1>1. {Response(c, Head(buf')) : c \in done} = {Response(c, Head(buf)) : c \in done}
  OBVIOUS
<1>2. QED
  BY <1>1 DEF Outstanding

\* The request side does not touch the response that is being taken.
LEMMA RequestKeepsHead ==
  ASSUME ServiceInv, NEW g \in BOOLEAN, RequestCycle(g)
  PROVE  /\ UNCHANGED <<nr, nw, done, rsp>>
         /\ done # {} => Head(buf') = Head(buf) /\ Left # 0
<1>1. /\ IInv /\ ArbValid /\ UNCHANGED <<nr, nw, done, rsp>> /\ (done # {} => buf # <<>> /\ ans # <<>>)
      /\ buf' = (IF forked = {} THEN Append(buf, Meta) ELSE buf)
  BY RequestCases DEF ServiceInv, Joined
<1>2. Meta \in BeatType /\ buf \in Seq(BeatType)
  BY <1>1, SelectedBeat, QueueLengths
<1>3. buf # <<>> => Head(Append(buf, Meta)) = Head(buf)
  BY <1>2, HeadStays
<1>4. ans # <<>> => Left # 0
  <2>1. Len(mem) \in Nat /\ (ans # <<>> => Len(ans) \in Nat \ {0})
    BY <1>1, QueueLengths, EmptySeq
  <2>2. QED  BY <2>1 DEF Left
<1>5. QED
  BY <1>1, <1>3, <1>4

\* A beat that is stalled is not accepted.
LEMMA StallServes ==
  ASSUME ServiceInv, NEW g \in BOOLEAN, RequestCycle(g), forked' = {"buf"}, mem' = mem,
         UNCHANGED <<ar, aw, w, rcnt, wcnt, rmeta, wmeta>>
  PROVE  UNCHANGED Service!serviceVars
<1>1. IInv /\ UNCHANGED <<nr, nw, done, rsp>> /\ (done # {} => Head(buf') = Head(buf))
  BY RequestKeepsHead DEF ServiceInv
<1>2. ans' = ans /\ \A k \in 1 .. Left : buf'[k] = buf[k]
  BY <1>1, RequestCases, RequestBuffer
<1>3. Unanswered' = Unanswered
  BY <1>2 DEF Unanswered, Left
<1>4. Outstanding' = Outstanding
  BY <1>1, <1>3, OwedTheSame
<1>5. QED
  BY <1>1, <1>4 DEF Service!serviceVars

\* A beat that is accepted has left for buf.
LEMMA AcceptedBuffer ==
  ASSUME IInv, NEW g \in BOOLEAN, RequestCycle(g), mem' = Append(mem, Meta), NEW x, x = Meta
  PROVE  {Place(buf'[k]) : k \in 1 .. Left'} = {Place(buf[k]) : k \in 1 .. Left} \cup {Place(x)}
<1>1. /\ ans' = ans /\ Left \in Nat /\ mem \in Seq(BeatType) /\ x \in BeatType
      /\ buf'[Left + 1] = x /\ \A k \in 1 .. Left : buf'[k] = buf[k]
  BY RequestCases, RequestBuffer, QueueLengths, SelectedBeat
<1>2. Left' = Left + 1
  <2>1. Len(mem') = Len(mem) + 1 /\ Len(mem) \in Nat /\ Len(ans) \in Nat
    BY <1>1, QueueLengths, AppendProperties
  <2>2. QED  BY <1>1, <2>1 DEF Left
<1>3. 1 .. Left' = (1 .. Left) \cup {Left + 1}
  BY <1>1, <1>2
<1>4. QED
  BY <1>1, <1>3

\* A burst whose first beat is accepted is not the one that is being answered.
LEMMA NewIsNotAnswered ==
  ASSUME ServiceInv, NEW g \in BOOLEAN, RequestCycle(g), NEW b, Meta.of = b, Meta.i = 0
  PROVE  (UNION {OwedFor(y) : y \in Service!Beats(b)}) \cap {Response(c, Head(buf)) : c \in done} = {}
<1> SUFFICES ASSUME NEW y \in Service!Beats(b), NEW d, NEW c \in done,
                    Response(d, y) = Response(c, Head(buf))
             PROVE  FALSE
  BY DEF OwedFor
<1>0. PICK h : h = Head(buf)
  OBVIOUS
<1>1. y.of = b
  BY DEF Service!Beats, Service!Beat
<1>2. h.of = b
  <2>1. Response(d, y).of = y.of /\ Response(c, h).of = h.of
    BY ResponsesApart
  <2>2. QED  BY <1>0, <1>1, <2>1
<1>3. IInv /\ Left # 0 /\ ArbValid
  BY RequestKeepsHead, RequestCases DEF ServiceInv
<1>4. h = buf[1] /\ h \in BeatType /\ 1 \in 1 .. Left
  <2>1. h = buf[1] /\ h \in BeatType /\ Left \in Nat
    BY <1>0, <1>3, HeadFirst
  <2>2. QED  BY <1>3, <2>1
<1>5. OlderThanNext(h)
  BY <1>3, <1>4 DEF IInv, BeatsOlder
<1>6. PICK x : x = Meta
  OBVIOUS
<1>7. x \in BeatType /\ x.of = b /\ x.i = 0 /\ x.of.write = Select
      /\ (h.of.write = Select => Before(h, x))
  BY <1>3, <1>4, <1>5, <1>6, SelectedBeat
<1>8. h.i \in Nat /\ h.of.n \in Nat /\ h.of = x.of
  BY <1>2, <1>4, <1>7, BeatFields
<1>9. Before(h, x)
  BY <1>7, <1>8
<1>10. QED
  BY <1>7, <1>8, <1>9 DEF Before

\* The owed responses of a burst, in the terms of both specifications.
LEMMA OwedToBurst ==
  ASSUME NEW b
  PROVE  UNION {OwedFor(y) : y \in Service!Beats(b)} = Service!ResponsesTo(b)
<1>1. \A y : OwedFor(y) = Service!Responses(y)
  BY DEF OwedFor, Owed, Response, Service!Responses, Service!Channels, Service!Response
<1>2. QED
  BY <1>1 DEF Service!ResponsesTo

\* A burst that is accepted is owed from then on.
LEMMA OwedMore ==
  ASSUME ServiceInv, NEW g \in BOOLEAN, RequestCycle(g), NEW b, Meta.of = b, Meta.i = 0,
         Unanswered' = Unanswered \cup Service!Beats(b)
  PROVE  Outstanding' = Outstanding \cup Service!ResponsesTo(b)
<1> DEFINE D == {Response(c, Head(buf)) : c \in done}
           New == UNION {OwedFor(y) : y \in Service!Beats(b)}
           Old == UNION {OwedFor(y) : y \in Unanswered}
<1>1. New \cap D = {}
  BY NewIsNotAnswered
<1>2. {Response(c, Head(buf')) : c \in done'} = D
  BY RequestKeepsHead
<1>3. UNION {OwedFor(y) : y \in Unanswered'} = Old \cup New
  OBVIOUS
<1>4. Outstanding' = (Old \cup New) \ D /\ Outstanding = Old \ D
  BY <1>2, <1>3 DEF Outstanding
<1>5. Outstanding' = Outstanding \cup New
  BY <1>1, <1>4
<1>6. QED
  BY <1>5, OwedToBurst

\* The write side accepts a beat: the first of a burst, or the next one.
LEMMA WriteServes ==
  ASSUME ServiceInv, NEW g \in BOOLEAN, RequestCycle(g), mem' = Append(mem, Meta), Accept, Select
  PROVE  Service!AcceptWrite \/ Service!AcceptData
<1>0. PICK x : x = Meta
  OBVIOUS
<1>1. /\ IInv /\ ArbValid /\ UNCHANGED <<nr, nw, done, rsp>> /\ (done # {} => Head(buf') = Head(buf))
      /\ wcnt \in Nat /\ nw \in Nat /\ (aw # NoBurst => aw \in Burst)
  BY RequestCases, RequestKeepsHead, OnChannels DEF ServiceInv, IInv
<1>2. /\ x = WrBeat /\ WrValid
      /\ wcnt' = LeftAfter(wcnt, aw) /\ wmeta' = Kept(x) /\ w' = <<>>
      /\ aw' = (IF wcnt > 0 THEN aw ELSE NoBurst)
      /\ UNCHANGED <<ar, rcnt, rmeta>>
  BY <1>0, <1>1 DEF ArbValid, Meta, Accept
<1>3. /\ x \in BeatType /\ Sound(x) /\ Head(w) \in SUBSET Banks /\ x = InTurn(wcnt, wmeta, aw, Head(w))
      /\ w # <<>> /\ (wcnt > 0 \/ aw # NoBurst)
      /\ (wcnt > 0 => wmeta \in BeatType /\ wmeta.i + wcnt = wmeta.of.len)
  BY <1>1, <1>2, BeatsOffered DEF WrValid, WritesGo, Going, IInv
<1>4. PICK rest : rest = ToGo(wcnt', wmeta') /\ rest = ToGo(LeftAfter(wcnt, aw), Kept(x))
  BY <1>2
<1>5. /\ IF wcnt > 0 THEN ToGo(wcnt, wmeta) = {Place(x)} \cup rest
         ELSE x.of = aw /\ Place(x) = Service!Beat(aw, 0) /\ Service!Beats(aw) = {Place(x)} \cup rest
      /\ \A y \in rest : y.of = x.of /\ y.i \in Nat /\ x.i < y.i
  BY <1>1, <1>2, <1>3, <1>4, FirstToGo
<1>6. Place(x).i = x.i /\ x.i \in Nat /\ Place(x) \notin rest
  <2>1. Place(x).i = x.i /\ x.i \in Nat
    BY <1>3, BeatFields DEF Place
  <2>2. QED  BY <1>5, <2>1
<1>7. {Place(buf'[k]) : k \in 1 .. Left'} = {Place(buf[k]) : k \in 1 .. Left} \cup {Place(x)}
  BY <1>0, <1>1, AcceptedBuffer
<1>8. Unanswered' = {Place(buf[k]) : k \in 1 .. Left} \cup {Place(x)} \cup ToGo(rcnt, rmeta) \cup rest
  BY <1>2, <1>4, <1>7 DEF Unanswered
<1>9. CASE wcnt > 0
  <2>1. Unanswered' = Unanswered
    BY <1>5, <1>8, <1>9 DEF Unanswered
  <2>2. Outstanding' = Outstanding
    BY <1>1, <2>1, OwedTheSame
  <2>3. /\ Place(x) \in ToGo(wcnt, wmeta) /\ rest = ToGo(wcnt, wmeta) \ {Place(x)}
        /\ \A y \in ToGo(wcnt, wmeta) : Place(x).i <= y.i
    BY <1>5, <1>6, <1>9
  <2>4. aw' = aw /\ w # <<>> /\ w' = <<>>
    BY <1>2, <1>3, <1>9
  <2>5. Service!AcceptData
    BY <1>1, <1>2, <1>4, <2>2, <2>3, <2>4 DEF Service!AcceptData
  <2>6. QED  BY <2>5
<1>10. CASE ~(wcnt > 0)
  <2>1. ToGo(wcnt, wmeta) = {}
    BY <1>1, <1>10 DEF ToGo
  <2>2. Unanswered' = Unanswered \cup Service!Beats(aw)
    BY <1>5, <1>8, <1>10, <2>1 DEF Unanswered
  <2>3. Meta.of = aw /\ Meta.i = 0
    BY <1>0, <1>2, <1>3, <1>5, <1>10 DEF FirstBeat, InTurn
  <2>4. Outstanding' = Outstanding \cup Service!ResponsesTo(aw)
    BY <2>2, <2>3, OwedMore
  <2>5. rest = Service!Beats(aw) \ {Service!Beat(aw, 0)}
    BY <1>5, <1>6, <1>10
  <2>6. aw # NoBurst /\ aw' = NoBurst /\ w # <<>> /\ w' = <<>>
    BY <1>2, <1>3, <1>10
  <2>7. Service!AcceptWrite
    BY <1>1, <1>2, <1>4, <2>1, <2>4, <2>5, <2>6 DEF Service!AcceptWrite
  <2>8. QED  BY <2>7
<1>11. QED
  BY <1>9, <1>10

\* The read side accepts a burst with its first beat, and cuts it into beats alone.
LEMMA ReadServes ==
  ASSUME ServiceInv, NEW g \in BOOLEAN, RequestCycle(g), mem' = Append(mem, Meta), Accept, ~Select
  PROVE  Service!AcceptRead \/ UNCHANGED Service!serviceVars
<1>0. PICK x : x = Meta
  OBVIOUS
<1>1. /\ IInv /\ ArbValid /\ UNCHANGED <<nr, nw, done, rsp>> /\ (done # {} => Head(buf') = Head(buf))
      /\ rcnt \in Nat /\ nr \in Nat /\ (ar # NoBurst => ar \in Burst)
  BY RequestCases, RequestKeepsHead, OnChannels DEF ServiceInv, IInv
<1>2. /\ x = RdBeat /\ RdValid
      /\ rcnt' = LeftAfter(rcnt, ar) /\ rmeta' = Kept(x)
      /\ ar' = (IF rcnt > 0 THEN ar ELSE NoBurst)
      /\ UNCHANGED <<aw, w, wcnt, wmeta>>
  BY <1>0, <1>1 DEF ArbValid, Meta, Accept
<1>3. /\ x \in BeatType /\ Sound(x) /\ {} \in SUBSET Banks /\ x = InTurn(rcnt, rmeta, ar, {})
      /\ (rcnt > 0 \/ ar # NoBurst)
      /\ (rcnt > 0 => rmeta \in BeatType /\ rmeta.i + rcnt = rmeta.of.len)
  BY <1>1, <1>2, BeatsOffered DEF RdValid, ReadsGo, Going, IInv
<1>4. PICK rest : rest = ToGo(rcnt', rmeta') /\ rest = ToGo(LeftAfter(rcnt, ar), Kept(x))
  BY <1>2
<1>5. IF rcnt > 0 THEN ToGo(rcnt, rmeta) = {Place(x)} \cup rest
      ELSE x.of = ar /\ Place(x) = Service!Beat(ar, 0) /\ Service!Beats(ar) = {Place(x)} \cup rest
  BY <1>1, <1>2, <1>3, <1>4, FirstToGo
<1>6. {Place(buf'[k]) : k \in 1 .. Left'} = {Place(buf[k]) : k \in 1 .. Left} \cup {Place(x)}
  BY <1>0, <1>1, AcceptedBuffer
<1>7. Unanswered' = {Place(buf[k]) : k \in 1 .. Left} \cup {Place(x)} \cup rest \cup ToGo(wcnt, wmeta)
  BY <1>2, <1>4, <1>6 DEF Unanswered
<1>8. CASE rcnt > 0
  <2>1. Unanswered' = Unanswered
    BY <1>5, <1>7, <1>8 DEF Unanswered
  <2>2. Outstanding' = Outstanding
    BY <1>1, <2>1, OwedTheSame
  <2>3. UNCHANGED Service!serviceVars
    BY <1>1, <1>2, <1>8, <2>2 DEF Service!serviceVars
  <2>4. QED  BY <2>3
<1>9. CASE ~(rcnt > 0)
  <2>1. ToGo(rcnt, rmeta) = {}
    BY <1>1, <1>9 DEF ToGo
  <2>2. Unanswered' = Unanswered \cup Service!Beats(ar)
    BY <1>5, <1>7, <1>9, <2>1 DEF Unanswered
  <2>3. Meta.of = ar /\ Meta.i = 0
    BY <1>0, <1>2, <1>3, <1>5, <1>9 DEF FirstBeat, InTurn
  <2>4. Outstanding' = Outstanding \cup Service!ResponsesTo(ar)
    BY <2>2, <2>3, OwedMore
  <2>5. ar # NoBurst /\ ar' = NoBurst
    BY <1>2, <1>3, <1>9
  <2>6. Service!AcceptRead
    BY <1>1, <1>2, <2>4, <2>5 DEF Service!AcceptRead
  <2>7. QED  BY <2>6
<1>10. QED
  BY <1>8, <1>9

-----------------------------------------------------------------------------
(***************************************************************************)
(* Every step serves.                                                      *)
(***************************************************************************)
\* A response cycle gives what may be given: the oldest of their direction, whose data is in.
LEMMA ResponseServes ==
  ASSUME ServiceInv, ResponseCycle
  PROVE  Service!Respond
<1>0. PICK given, h : given = {Response(c, Head(buf)) : c \in Offered \cap ready} /\ h = Head(buf)
  OBVIOUS
<1>1. /\ {Response(x.chan, x.beat) : x \in rsp'} = given
      /\ given \subseteq Outstanding /\ Outstanding' = Outstanding \ given
  BY <1>0, ResponseTakes
<1>2. IInv
  BY DEF ServiceInv
<1>3. ASSUME NEW x \in given PROVE Service!MayGive(x)
  <2>1. PICK c \in Offered \cap ready : x = Response(c, h)
    BY <1>0
  <2>2. x.of = h.of /\ x.i = h.i /\ x.chan = c
    BY <2>1, ResponsesApart
  <2>3. Left # 0
    <3>1. buf # <<>> /\ ans # <<>>
      BY <2>1 DEF Offered, Joined
    <3>2. Len(ans) \in Nat \ {0} /\ Len(mem) \in Nat
      BY <1>2, <3>1, QueueLengths, EmptySeq
    <3>3. QED  BY <3>2 DEF Left
  <2>4. /\ h \in BeatType /\ Unanswered = {Place(h)} \cup Later
        /\ \A y \in Later : y.i \in Nat /\ (y.of.write = h.of.write => Before(h, y))
    BY <1>0, <1>2, <2>3, HeadFirst
  <2>5. h.i \in Nat /\ h.of.n \in Nat
    BY <2>4, BeatFields
  <2>6. ASSUME NEW y \in ToGo(wcnt, wmeta), y.of = x.of PROVE x.i < y.i
    <3>1. y \in Later /\ y.of.write = h.of.write
      BY <2>2, <2>6 DEF Later
    <3>2. QED  BY <2>2, <2>4, <2>5, <2>6, <3>1 DEF Before
  <2>7. ASSUME NEW y \in Outstanding, y.of.write = x.of.write PROVE ~Service!Older(y, x)
    <3>1. PICK e \in Unanswered : \E d \in Owed(e) : y = Response(d, e)
      BY DEF Outstanding, OwedFor
    <3>2. y.of = e.of /\ y.i = e.i
      BY <3>1, ResponsesApart
    <3>3. CASE e = Place(h)
      BY <2>2, <2>5, <3>2, <3>3 DEF Place, Service!Older
    <3>4. CASE e \in Later
      <4>1. e.i \in Nat /\ Before(h, e)
        BY <2>2, <2>4, <2>7, <3>2, <3>4
      <4>2. e.of.n \in Nat
        BY <1>2, <3>1, UnansweredType
      <4>3. QED  BY <2>2, <2>5, <3>2, <4>1, <4>2 DEF Before, Service!Older
    <3>5. QED  BY <2>4, <3>1, <3>3, <3>4
  <2>8. QED  BY <2>6, <2>7 DEF Service!MayGive
<1>4. ASSUME NEW x \in given, NEW y \in given, x.chan = y.chan PROVE x = y
  <2>1. PICK c, d : x = Response(c, h) /\ y = Response(d, h)
    BY <1>0
  <2>2. x.chan = c /\ y.chan = d
    BY <2>1, ResponsesApart
  <2>3. QED  BY <1>4, <2>1, <2>2
<1>5. UNCHANGED <<ar, aw, w, nr, nw, wcnt, wmeta>>
  BY DEF ResponseCycle, offer, request
<1>6. QED
  BY <1>1, <1>3, <1>4, <1>5 DEF Service!Respond

\* The manager sends, and the memory answers unseen.
LEMMA OthersServe ==
  ASSUME ServiceInv,
         \/ \E s \in Reads : OfferRead(s)
         \/ \E s \in Writes : OfferWrite(s)
         \/ \E strb \in Strobes : OfferData(strb)
         \/ \E a \in Answers : MemAnswer(a)
         \/ UNCHANGED vars
  PROVE  [Service!ServiceNext]_(Service!serviceVars)
<1>1. IInv /\ UNCHANGED <<rcnt, rmeta, wcnt, wmeta, buf, done, rsp>>
  BY DEF ServiceInv, OfferRead, OfferWrite, OfferData, MemAnswer, request, respond, vars
<1>2. Left' = Left
  <2>1. CASE \E a \in Answers : MemAnswer(a)
    <3>1. PICK a \in Answers : ans' = Append(ans, a) /\ mem # <<>> /\ mem' = Tail(mem)
      BY <2>1 DEF MemAnswer
    <3>2. Len(ans') = Len(ans) + 1 /\ Len(mem') = Len(mem) - 1 /\ Len(ans) \in Nat /\ Len(mem) \in Nat
      BY <1>1, <3>1, QueueLengths, AppendProperties, HeadTailProperties
    <3>3. QED  BY <3>2 DEF Left
  <2>2. CASE ~(\E a \in Answers : MemAnswer(a))
    BY <2>2 DEF OfferRead, OfferWrite, OfferData, vars, Left
  <2>3. QED  BY <2>1, <2>2
<1>3. Unanswered' = Unanswered
  BY <1>1, <1>2 DEF Unanswered
<1>4. Outstanding' = Outstanding
  BY <1>1, <1>3, OwedTheSame
<1>5. nr \in Nat /\ nw \in Nat /\ wcnt \in Nat
  BY <1>1, OnChannels DEF IInv
<1>6. ASSUME NEW s \in Reads, OfferRead(s) PROVE Service!SendRead
  <2>1. /\ ar = NoBurst /\ nr' = nr + 1 /\ ar' = Numbered(s, nr + 1, FALSE)
        /\ UNCHANGED <<aw, w, nw>>
    BY <1>6 DEF OfferRead
  <2>2. ar' \in Burst /\ ar'.n = nr + 1 /\ ar'.write = FALSE
    <3>1. nr + 1 \in Nat \ {0}
      BY <1>5
    <3>2. QED  BY <2>1, <3>1, NumberedType
  <2>3. QED  BY <1>1, <1>4, <2>1, <2>2 DEF Service!SendRead
<1>7. ASSUME NEW s \in Writes, OfferWrite(s) PROVE Service!SendWrite
  <2>1. /\ aw = NoBurst /\ nw' = nw + 1 /\ aw' = Numbered(s, nw + 1, TRUE)
        /\ UNCHANGED <<ar, w, nr>>
    BY <1>7 DEF OfferWrite
  <2>2. aw' \in Burst /\ aw'.n = nw + 1 /\ aw'.write = TRUE
    <3>1. nw + 1 \in Nat \ {0}
      BY <1>5
    <3>2. QED  BY <2>1, <3>1, NumberedType
  <2>3. QED  BY <1>1, <1>4, <2>1, <2>2 DEF Service!SendWrite
<1>8. ASSUME NEW strb \in Strobes, OfferData(strb) PROVE Service!SendData
  <2>1. w = <<>> /\ w' = <<strb>> /\ (wcnt > 0 \/ aw # NoBurst) /\ UNCHANGED <<ar, aw, nr, nw>>
    BY <1>8 DEF OfferData
  <2>2. w' # <<>>
    BY <2>1
  <2>3. ASSUME wcnt > 0 PROVE ToGo(wcnt, wmeta) # {}
    <3>1. wmeta \in BeatType /\ wmeta.i + wcnt = wmeta.of.len /\ wmeta.i \in Nat
      BY <1>1, <2>3, BeatFields DEF IInv, WritesGo, Going
    <3>2. wmeta.i + 1 \in wmeta.i + 1 .. wmeta.of.len
      BY <1>5, <2>3, <3>1
    <3>3. PICK i \in wmeta.i + 1 .. wmeta.of.len : TRUE
      BY <3>2
    <3>4. [of |-> wmeta.of, i |-> i, last |-> i = wmeta.of.len] \in ToGo(wcnt, wmeta)
      BY <1>5, <2>3 DEF ToGo
    <3>5. QED  BY <3>4
  <2>4. QED  BY <1>1, <1>4, <2>1, <2>2, <2>3 DEF Service!SendData
<1>9. CASE (\E a \in Answers : MemAnswer(a)) \/ UNCHANGED vars
  <2>1. UNCHANGED <<ar, aw, w, nr, nw>>
    BY <1>9 DEF MemAnswer, offer, vars
  <2>2. QED  BY <1>1, <1>4, <2>1 DEF Service!serviceVars
<1>10. QED
  BY <1>6, <1>7, <1>8, <1>9 DEF Service!ServiceNext

\* The adapter serves its port as AXI has it: whatever the banks, the bursts, the depth of
\* the buffers, the arbitration and the memory's delays, each step is one of an AXI
\* subordinate, or is not seen at the port.
THEOREM AxiServed == Spec => ServesAxi
<1>1. Init => ServiceInv /\ Service!ServiceInit
  <2> SUFFICES ASSUME Init PROVE ServiceInv /\ Service!ServiceInit
    OBVIOUS
  <2>1. /\ ar = NoBurst /\ aw = NoBurst /\ w = <<>> /\ nr = 0 /\ nw = 0 /\ rcnt = 0 /\ wcnt = 0
        /\ mem = <<>> /\ ans = <<>> /\ done = {} /\ rsp = {}
    BY DEF Init
  <2>2. Left = 0
    BY <2>1, EmptySeq DEF Left
  <2>3. Unanswered = {} /\ ToGo(wcnt, wmeta) = {}
    BY <2>1, <2>2 DEF Unanswered, ToGo
  <2>4. Outstanding = {}
    BY <2>3 DEF Outstanding
  <2>5. QED  BY <2>1, <2>3, <2>4, InitIInv DEF ServiceInv, Service!ServiceInit
<1>2. ASSUME ServiceInv, [Next]_vars PROVE [Service!ServiceNext]_(Service!serviceVars)
  <2>1. CASE \E gnt \in BOOLEAN : RequestCycle(gnt)
    <3>1. PICK g \in BOOLEAN : RequestCycle(g)
      BY <2>1
    <3>2. \/ mem' = Append(mem, Meta) /\ Accept
          \/ forked' = {"buf"} /\ mem' = mem /\ UNCHANGED <<ar, aw, w, rcnt, wcnt, rmeta, wmeta>>
      BY <1>2, <3>1, RequestCases DEF ServiceInv
    <3>3. QED
      BY <1>2, <3>1, <3>2, WriteServes, ReadServes, StallServes DEF Service!ServiceNext
  <2>2. CASE ResponseCycle
    BY <1>2, <2>2, ResponseServes DEF Service!ServiceNext
  <2>3. CASE ~(\E gnt \in BOOLEAN : RequestCycle(gnt)) /\ ~ResponseCycle
    BY <1>2, <2>3, OthersServe DEF Next
  <2>4. QED  BY <2>1, <2>2, <2>3
<1>3. QED
  BY <1>1, <1>2, NextServiceInv, PTL DEF Spec, ServesAxi, Service!ServiceSpec
=============================================================================
