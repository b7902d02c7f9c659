--------------------------- MODULE AxiToMem_faults --------------------------
(***************************************************************************)
(* Proofs that axi_to_detailed_mem_user and the ECC collection around it   *)
(* report the faults of a burst's own beats, all of them and no others.    *)
(***************************************************************************)
EXTENDS AxiToMem_proofs

-----------------------------------------------------------------------------
(***************************************************************************)
(* The inductive invariant.  The beats that ever left the arbiter are      *)
(* totally ordered and without a gap; the memory's answers to them wait in *)
(* ans or are popped; what is collected is what was popped of the write    *)
(* burst that has not ended.                                               *)
(***************************************************************************)
Seen == {t.beat : t \in told} \cup {buf[k] : k \in 1 .. Left}

SeenSound == \A e \in Seen : e \in BeatType /\ Sound(e) /\ OlderThanNext(e)
SeenOrdered ==
  \A e, f \in Seen : e.of.write = f.of.write => e = f \/ Before(e, f) \/ Before(f, e)

\* Of the writes, all beats before one were there before it.
SeenGapless ==
  \A e \in Seen : e.of.write =>
    \A j \in 0 .. e.i - 1 : \E f \in Seen : f.of = e.of /\ f.i = j
Ended(b) == \E g \in Seen : g.of = b /\ g.i = b.len
SeenEnded ==
  \A e, f \in Seen : e.of.write /\ f.of.write /\ f.of.n < e.of.n => Ended(f.of)

\* The burst that wcnt and wmeta speak of is the only one that has not ended.
InProgress ==
  /\ wcnt > 0 => \E f \in Seen : f.of = wmeta.of /\ f.i = wmeta.i
  /\ \A e \in Seen : e.of.write => Ended(e.of) \/ (wcnt > 0 /\ e.of = wmeta.of)

Told == [beat : BeatType, a : Answers]
Waiting(t) == \E k \in 1 .. Len(ans) : t.beat = buf[k] /\ t.a = ans[k]
Popped(e) == \A k \in 1 .. Len(buf) : buf[k].of.write = e.of.write => Before(e, buf[k])

ToldPlaced ==
  /\ \A t \in told : t \in Told /\ (Waiting(t) \/ Popped(t.beat))
  /\ \A k \in 1 .. Len(ans) : [beat |-> buf[k], a |-> ans[k]] \in told
ToldOnce == \A t, u \in told : t.beat = u.beat => t = u

SeenInv == SeenSound /\ SeenOrdered /\ SeenGapless /\ SeenEnded /\ InProgress
HInv == IInv /\ SeenInv /\ ToldPlaced /\ ToldOnce

\* The answers to writes that were popped, and those of them whose burst goes on.
Gone == {t \in told : t.beat.of.write /\ Popped(t.beat)}
GoneEnded(b) == \E u \in Gone : u.beat.of = b /\ u.beat.last
Open == {t \in Gone : ~GoneEnded(t.beat.of)}

AnyErr(T) == \E t \in T : t.a.err \cap t.beat.strb # {}
AllExok(T) == \A t \in T : t.beat.strb \subseteq t.a.exok
AnyEcc(T) == \E t \in T : t.a.ecc \cap t.beat.strb # {}
Collected ==
  /\ collect.err <=> AnyErr(Open)
  /\ collect.exok <=> AllExok(Open)
  /\ eccq <=> AnyEcc(Open)

RspTold ==
  \A x \in rsp : /\ x.chan \in Channels
                 /\ \E t \in told : t.beat = x.beat
                 /\ x.chan = "b" => x.beat.of.write /\ x.beat.last

FInv == HInv /\ Collected /\ RspTold /\ WriteFaultsReported

-----------------------------------------------------------------------------
(***************************************************************************)
(* The beats that left the arbiter.                                        *)
(***************************************************************************)
\* Nothing left the arbiter.
LEMMA SeenStays ==
  ASSUME SeenInv, Seen' = Seen, UNCHANGED <<wcnt, wmeta>>,
         \A e \in BeatType : OlderThanNext(e) => OlderThanNext(e)'
  PROVE  SeenInv'
<1>1. SeenSound'
  BY DEF SeenInv, SeenSound, Sound, AddrOf
<1>2. SeenOrdered'
  BY DEF SeenInv, SeenOrdered, Before
<1>3. \A b : Ended(b)' = Ended(b)
  BY DEF Ended
<1>4. SeenGapless' /\ SeenEnded' /\ InProgress'
  BY <1>3 DEF SeenInv, SeenGapless, SeenEnded, InProgress
<1>5. QED
  BY <1>1, <1>2, <1>4 DEF SeenInv

\* Beat x left the arbiter.
LEMMA SeenGrows ==
  ASSUME IInv, SeenInv, ArbValid, Accept, UNCHANGED <<nr, nw>>, NEW x, x = Meta,
         Seen' = Seen \cup {x}
  PROVE  SeenInv'
<1>1. /\ x \in BeatType /\ Sound(x) /\ x.of.write = Select /\ Select \in BOOLEAN
      /\ \A e \in BeatType : e.of.write = Select /\ OlderThanNext(e) => Before(e, x)
  BY SelectedBeat
<1>2. /\ OlderThanNext(x)' /\ \A e \in BeatType : OlderThanNext(e) => OlderThanNext(e)'
      /\ wcnt' \in Nat
  BY AcceptMoves
<1>3. \A e \in Seen : e \in BeatType /\ Sound(e) /\ OlderThanNext(e)
  BY DEF SeenInv, SeenSound
<1>4. \A e \in Seen : e.of.write = x.of.write => Before(e, x)
  BY <1>1, <1>3
<1>5. SeenSound'
  BY <1>1, <1>2, <1>3 DEF SeenSound, Sound, AddrOf
<1>6. SeenOrdered'
  BY <1>4 DEF SeenInv, SeenOrdered, Before
<1>7. \A b : Ended(b) => Ended(b)'
  BY DEF Ended
<1>8. CASE ~Select
  <2>1. ~x.of.write /\ UNCHANGED <<wcnt, wmeta>>
    BY <1>1, <1>8 DEF Accept
  <2>2. SeenGapless'
    BY <2>1 DEF SeenInv, SeenGapless
  <2>3. SeenEnded'
    BY <1>7, <2>1 DEF SeenInv, SeenEnded
  <2>4. InProgress'
    BY <1>7, <2>1 DEF SeenInv, InProgress
  <2>5. QED  BY <1>5, <1>6, <2>2, <2>3, <2>4 DEF SeenInv
<1>9. CASE Select
  <2>1. /\ x.of.write /\ WrValid /\ x = InTurn(wcnt, wmeta, aw, Head(w)) /\ wcnt \in Nat
        /\ wcnt' = LeftAfter(wcnt, aw) /\ wmeta' = Kept(x)
        /\ Head(w) \in SUBSET Banks /\ (aw # NoBurst => aw \in Burst)
    <3>1. WrValid /\ x = WrBeat
      BY <1>9 DEF ArbValid, Meta
    <3>2. TypeOK /\ ReadsGo /\ WritesGo
      BY DEF IInv
    <3>3. QED  BY <1>1, <1>9, <3>1, <3>2, BeatsOffered, OnChannels DEF Accept, Meta
  <2>2. wmeta'.of = x.of /\ wmeta'.i = x.i
    BY <1>1, <2>1, KeptPlace
  <2>3. x.i \in Nat /\ x.of.len \in Nat /\ x.of.n \in Nat
    BY <1>1, BeatFields
  <2>4. \* The place of x in its burst.
        \/ /\ wcnt > 0 /\ x.of = wmeta.of /\ x.i = wmeta.i + 1 /\ wmeta.i \in Nat
           /\ x.i + wcnt' = x.of.len
        \/ wcnt = 0 /\ x.i = 0 /\ wcnt' = x.of.len
    <3>1. CASE wcnt > 0
      <4>1. wmeta \in BeatType /\ wmeta.i + wcnt = wmeta.of.len /\ wmeta.i \in Nat
        BY <3>1, BeatFields DEF IInv, WritesGo, Going
      <4>2. x.of = wmeta.of /\ x.i = wmeta.i + 1
        BY <2>1, <3>1, <4>1, NextBeatType DEF InTurn
      <4>3. wcnt' = wcnt - 1
        BY <2>1, <3>1 DEF LeftAfter
      <4>4. QED  BY <2>1, <2>3, <3>1, <4>1, <4>2, <4>3
    <3>2. CASE ~(wcnt > 0)
      BY <2>1, <3>2 DEF InTurn, FirstBeat, LeftAfter
    <3>3. QED  BY <3>1, <3>2
  <2>5. \A e \in Seen : e.of.write => Ended(e.of) \/ e.of = x.of
    BY <2>1, <2>4 DEF SeenInv, InProgress
  <2>6. \A j \in 0 .. x.i - 1 : \E f \in Seen : f.of = x.of /\ f.i = j
    <3>1. CASE wcnt > 0
      <4>1. PICK f \in Seen : f.of = wmeta.of /\ f.i = wmeta.i
        BY <3>1 DEF SeenInv, InProgress
      <4>2. f.of = x.of /\ x.i = f.i + 1 /\ f.i \in Nat
        BY <2>1, <2>4, <3>1, <4>1
      <4>3. \A j \in 0 .. f.i - 1 : \E g \in Seen : g.of = x.of /\ g.i = j
        BY <2>1, <4>2 DEF SeenInv, SeenGapless
      <4>4. \A j \in 0 .. x.i - 1 : j = f.i \/ j \in 0 .. f.i - 1
        BY <2>3, <4>2
      <4>5. QED  BY <4>2, <4>3, <4>4
    <3>2. CASE ~(wcnt > 0)
      BY <2>1, <2>4, <3>2
    <3>3. QED  BY <3>1, <3>2
  <2>7. SeenGapless'
    BY <2>6 DEF SeenInv, SeenGapless
  <2>8. SeenEnded'
    <3>1. ASSUME NEW e \in Seen', NEW f \in Seen', e.of.write, f.of.write, f.of.n < e.of.n
          PROVE  Ended(f.of)'
      <4>1. CASE e \in Seen /\ f \in Seen
        BY <1>7, <3>1, <4>1 DEF SeenInv, SeenEnded
      <4>2. CASE e = x /\ f \in Seen
        BY <1>7, <2>3, <2>5, <3>1, <4>2
      <4>3. CASE f = x
        <5>1. e \in Seen => Before(e, x) /\ e.of.n \in Nat
          BY <1>3, <1>4, <2>1, <3>1, BeatFields
        <5>2. QED  BY <2>3, <3>1, <4>3, <5>1 DEF Before
      <4>4. QED  BY <4>1, <4>2, <4>3
    <3>2. QED  BY <3>1 DEF SeenEnded
  <2>9. InProgress'
    <3>1. wcnt' > 0 => \E f \in Seen' : f.of = wmeta'.of /\ f.i = wmeta'.i
      BY <2>2
    <3>2. Ended(x.of)' \/ wcnt' > 0
      <4>1. ASSUME ~(wcnt' > 0) PROVE x.i = x.of.len
        BY <1>2, <2>3, <2>4, <4>1
      <4>2. QED  BY <4>1 DEF Ended
    <3>3. \A e \in Seen' : e.of.write => Ended(e.of)' \/ (wcnt' > 0 /\ e.of = wmeta'.of)
      BY <1>7, <2>2, <2>5, <3>2
    <3>4. QED  BY <3>1, <3>3 DEF InProgress
  <2>10. QED  BY <1>5, <1>6, <2>7, <2>8, <2>9 DEF SeenInv
<1>10. QED
  BY <1>1, <1>8, <1>9

-----------------------------------------------------------------------------
(***************************************************************************)
(* The memory's answers.                                                   *)
(***************************************************************************)
\* What a step leaves as it is while it neither moves a beat nor answers one.
LEMMA QuietStep ==
  ASSUME HInv, IInv', UNCHANGED <<wcnt, wmeta, told, buf, ans, mem>>,
         \A e \in BeatType : OlderThanNext(e) => OlderThanNext(e)'
  PROVE  HInv'
<1>1. Seen' = Seen
  BY DEF Seen, Left
<1>2. SeenInv'
  BY <1>1, SeenStays DEF HInv
<1>3. ToldPlaced' /\ ToldOnce'
  BY DEF HInv, ToldPlaced, ToldOnce, Waiting, Popped, Before
<1>4. QED
  BY <1>2, <1>3 DEF HInv

LEMMA OfferReadHistory ==
  ASSUME HInv, NEW s \in Reads, OfferRead(s)
  PROVE  HInv'
<1>1. /\ ar = NoBurst /\ nr' = nr + 1 /\ nr \in Nat /\ nr' \in Nat
      /\ UNCHANGED <<aw, nw, rcnt, wcnt, rmeta, wmeta, told, buf, ans, mem>>
  BY OnChannels DEF OfferRead, request, HInv, IInv
<1>2. ASSUME NEW e \in BeatType, OlderThanNext(e) PROVE OlderThanNext(e)'
  BY <1>1, <1>2, BeatFields DEF OlderThanNext, Older
<1>3. IInv'
  BY OfferReadStep DEF HInv
<1>4. QED
  BY <1>1, <1>2, <1>3, QuietStep

LEMMA OfferWriteHistory ==
  ASSUME HInv, NEW s \in Writes, OfferWrite(s)
  PROVE  HInv'
<1>1. /\ aw = NoBurst /\ nw' = nw + 1 /\ nw \in Nat /\ nw' \in Nat
      /\ UNCHANGED <<ar, nr, rcnt, wcnt, rmeta, wmeta, told, buf, ans, mem>>
  BY OnChannels DEF OfferWrite, request, HInv, IInv
<1>2. ASSUME NEW e \in BeatType, OlderThanNext(e) PROVE OlderThanNext(e)'
  BY <1>1, <1>2, BeatFields DEF OlderThanNext, Older
<1>3. IInv'
  BY OfferWriteStep DEF HInv
<1>4. QED
  BY <1>1, <1>2, <1>3, QuietStep

LEMMA OfferDataHistory ==
  ASSUME HInv, NEW strb \in Strobes, OfferData(strb)
  PROVE  HInv'
<1>1. UNCHANGED <<ar, aw, nr, nw, rcnt, wcnt, rmeta, wmeta, told, buf, ans, mem>>
  BY DEF OfferData, request
<1>2. \A e \in BeatType : OlderThanNext(e) => OlderThanNext(e)'
  BY <1>1 DEF OlderThanNext, Older
<1>3. IInv'
  BY OfferDataStep DEF HInv
<1>4. QED
  BY <1>1, <1>2, <1>3, QuietStep

\* An answer that was popped stays so: it is older than the beat that comes in.
LEMMA RequestKeepsPlaces ==
  ASSUME HInv, NEW g \in BOOLEAN, RequestCycle(g)
  PROVE  /\ UNCHANGED <<told, ans>>
         /\ \A t \in told : (Waiting(t) => Waiting(t)') /\ (Popped(t.beat) => Popped(t.beat)')
         /\ \A e : Popped(e)' => Popped(e)
<1>1. /\ IInv /\ ArbValid /\ UNCHANGED <<told, ans>> /\ Len(buf') = Left + 1 /\ buf'[Left + 1] = Meta
      /\ \A k \in 1 .. Left : buf'[k] = buf[k]
  BY RequestCases, RequestBuffer DEF HInv
<1>2. /\ Left = Len(ans) + Len(mem) /\ Left \in Nat /\ Len(ans) \in Nat /\ Len(mem) \in Nat
      /\ (Len(buf) = Left \/ Len(buf) = Left + 1)
  BY <1>1, QueueLengths DEF Left
<1>3. Len(buf) = Left + 1 => buf[Left + 1] = Meta
  BY <1>1, <1>2, QueueLengths DEF IInv, ForkedBeatHeld
<1>4. ASSUME NEW t \in told, Waiting(t) PROVE Waiting(t)'
  BY <1>1, <1>2, <1>4 DEF Waiting
<1>5. ASSUME NEW t \in told, Popped(t.beat) PROVE Popped(t.beat)'
  <2>1. t.beat \in BeatType /\ OlderThanNext(t.beat)
    BY DEF HInv, SeenInv, SeenSound, Seen
  <2>2. Meta.of.write = t.beat.of.write => Before(t.beat, Meta)
    BY <1>1, <2>1, SelectedBeat
  <2>3. ASSUME NEW k \in 1 .. Len(buf'), buf'[k].of.write = t.beat.of.write PROVE Before(t.beat, buf'[k])
    <3>1. CASE k = Left + 1
      BY <1>1, <2>2, <2>3, <3>1
    <3>2. CASE k \in 1 .. Left
      <4>1. k \in 1 .. Len(buf) /\ buf'[k] = buf[k]
        BY <1>1, <1>2, <3>2
      <4>2. QED  BY <1>5, <2>3, <4>1 DEF Popped
    <3>3. QED  BY <1>1, <1>2, <3>1, <3>2
  <2>4. QED  BY <2>3 DEF Popped, Before
<1>6. ASSUME NEW e, Popped(e)' PROVE Popped(e)
  <2>1. \A k \in 1 .. Len(buf) : k \in 1 .. Len(buf') /\ buf'[k] = buf[k]
    BY <1>1, <1>2, <1>3
  <2>2. QED  BY <1>6, <2>1 DEF Popped, Before
<1>7. QED
  BY <1>1, <1>4, <1>5, <1>6

LEMMA RequestHistory ==
  ASSUME HInv, NEW g \in BOOLEAN, RequestCycle(g)
  PROVE  HInv'
<1>0. PICK x : x = Meta
  OBVIOUS
<1>1. /\ IInv /\ ArbValid /\ UNCHANGED <<nr, nw, told, ans>> /\ Len(buf') = Left + 1 /\ buf'[Left + 1] = x
      /\ \A k \in 1 .. Left : buf'[k] = buf[k]
  BY <1>0, RequestCases, RequestBuffer DEF HInv
<1>2. /\ Left = Len(ans) + Len(mem) /\ Left \in Nat /\ Len(ans) \in Nat /\ Len(mem) \in Nat
  BY <1>1, QueueLengths DEF Left
<1>3. IInv'
  BY <1>1, RequestStep
<1>4. ToldPlaced' /\ ToldOnce'
  <2>1. \A t \in told : t \in Told /\ (Waiting(t) \/ Popped(t.beat))' /\ UNCHANGED told
    BY RequestKeepsPlaces DEF HInv, ToldPlaced
  <2>2. \A k \in 1 .. Len(ans) : [beat |-> buf'[k], a |-> ans[k]] \in told
    BY <1>1, <1>2 DEF HInv, ToldPlaced
  <2>3. QED  BY <1>1, <2>1, <2>2 DEF HInv, ToldPlaced, ToldOnce
<1>5. CASE /\ mem' = Append(mem, Meta) /\ Accept
  <2>1. Left' = Left + 1
    <3>1. mem \in Seq(BeatType) /\ x \in BeatType
      BY <1>0, <1>1, QueueLengths, SelectedBeat
    <3>2. Len(mem') = Len(mem) + 1
      BY <1>0, <1>5, <3>1, AppendProperties
    <3>3. QED  BY <1>1, <1>2, <3>2 DEF Left
  <2>2. Seen' = Seen \cup {x}
    <3>1. \A k \in 1 .. Left' : k \in 1 .. Left \/ k = Left + 1
      BY <1>2, <2>1
    <3>2. \A k \in 1 .. Left : k \in 1 .. Left'
      BY <1>2, <2>1
    <3>3. Left + 1 \in 1 .. Left'
      BY <1>2, <2>1
    <3>4. QED  BY <1>1, <3>1, <3>2, <3>3 DEF Seen
  <2>3. QED  BY <1>0, <1>1, <1>3, <1>4, <1>5, <2>2, SeenGrows DEF HInv
<1>6. CASE mem' = mem /\ UNCHANGED <<ar, aw, w, rcnt, wcnt, rmeta, wmeta, overtaken>>
  <2>1. Seen' = Seen
    BY <1>1, <1>6 DEF Seen, Left
  <2>2. \A e \in BeatType : OlderThanNext(e) => OlderThanNext(e)'
    BY <1>1, <1>6 DEF OlderThanNext, Older
  <2>3. QED  BY <1>3, <1>4, <1>6, <2>1, <2>2, SeenStays DEF HInv
<1>7. QED
  BY <1>1, <1>5, <1>6, RequestCases

\* The beat that the memory answers next is behind all that it answered.
LEMMA NewBeat ==
  ASSUME HInv, mem # <<>>
  PROVE  /\ Head(mem) \in BeatType /\ Head(mem) = buf[Len(ans) + 1] /\ Len(ans) + 1 \in 1 .. Left
         /\ Left \in Nat /\ Left <= Len(buf) /\ Len(ans) \in Nat
         /\ ~Popped(Head(mem))
         /\ \A t \in told : /\ t.beat # Head(mem)
                            /\ t.beat.of.write = Head(mem).of.write => Before(t.beat, Head(mem))
<1>1. /\ IInv /\ Len(mem) \in Nat \ {0} /\ Head(mem) = mem[1] /\ Len(ans) \in Nat
      /\ Left = Len(ans) + Len(mem) /\ Left <= Len(buf) /\ Len(buf) \in Nat
      /\ \A k \in 1 .. Len(buf) : buf[k] \in BeatType
  BY QueueLengths, EmptySeq DEF HInv, Left
<1>2. mem[1] = buf[Len(ans) + 1] /\ Len(ans) + 1 \in 1 .. Left
  BY <1>1 DEF IInv, ForkInStep
<1>3. PICK b : b = Head(mem) /\ b = buf[Len(ans) + 1]
  BY <1>1, <1>2
<1>4. b \in BeatType /\ Len(ans) + 1 \in 1 .. Len(buf)
  BY <1>1, <1>2, <1>3
<1>5. ~Popped(b)
  BY <1>3, <1>4, NotBeforeItself DEF Popped
<1>6. ASSUME NEW t \in told
      PROVE  t.beat # b /\ (t.beat.of.write = b.of.write => Before(t.beat, b))
  <2>1. CASE Waiting(t)
    <3>1. PICK k \in 1 .. Len(ans) : t.beat = buf[k]
      BY <2>1 DEF Waiting
    <3>2. k \in 1 .. Len(buf) /\ k < Len(ans) + 1
      BY <1>1, <1>4
    <3>3. buf[k].of.write = b.of.write => Before(buf[k], b)
      BY <1>1, <1>3, <1>4, <3>2 DEF IInv, BeatsOrdered
    <3>4. QED  BY <1>1, <1>4, <3>1, <3>2, <3>3, NotBeforeItself
  <2>2. CASE Popped(t.beat)
    BY <1>3, <1>4, <1>5, <2>2 DEF Popped
  <2>3. QED  BY <2>1, <2>2 DEF HInv, ToldPlaced
<1>7. QED
  BY <1>1, <1>2, <1>3, <1>4, <1>5, <1>6

LEMMA MemAnswerHistory ==
  ASSUME HInv, NEW a \in Answers, MemAnswer(a)
  PROVE  HInv'
<1>1. /\ mem # <<>> /\ ans' = Append(ans, a) /\ mem' = Tail(mem)
      /\ told' = told \cup {[beat |-> Head(mem), a |-> a]}
      /\ UNCHANGED <<ar, aw, nr, nw, rcnt, wcnt, rmeta, wmeta, buf>>
  BY DEF MemAnswer, offer, request
<1>2. PICK b : b = Head(mem)
  OBVIOUS
<1>3. PICK t0 : t0 = [beat |-> b, a |-> a]
  OBVIOUS
<1>4. /\ b \in BeatType /\ b = buf[Len(ans) + 1] /\ Len(ans) + 1 \in 1 .. Left /\ Left \in Nat
      /\ Len(ans) \in Nat /\ \A t \in told : t.beat # b
  BY <1>1, <1>2, NewBeat
<1>5. t0 \in Told /\ t0.beat = b /\ t0.a = a /\ told' = told \cup {t0}
  BY <1>1, <1>2, <1>3, <1>4 DEF Told
<1>6. IInv /\ IInv'
  BY MemAnswerStep DEF HInv
<1>7. /\ Len(ans') = Len(ans) + 1 /\ ans'[Len(ans) + 1] = a /\ \A k \in 1 .. Len(ans) : ans'[k] = ans[k]
  BY <1>1, <1>6, QueueLengths, AppendProperties
<1>8. Left' = Left
  <2>1. Len(mem') = Len(mem) - 1 /\ Len(mem) \in Nat
    BY <1>1, <1>6, QueueLengths, HeadTailProperties
  <2>2. QED  BY <1>4, <1>7, <2>1 DEF Left
<1>9. Seen' = Seen
  BY <1>1, <1>4, <1>5, <1>8 DEF Seen
<1>10. SeenInv'
  <2>1. \A e \in BeatType : OlderThanNext(e) => OlderThanNext(e)'
    BY <1>1 DEF OlderThanNext, Older
  <2>2. QED  BY <1>1, <1>9, <2>1, SeenStays DEF HInv
<1>11. ToldPlaced'
  <2>1. \A k \in 1 .. Len(ans') : k \in 1 .. Len(ans) \/ k = Len(ans) + 1
    BY <1>4, <1>7
  <2>2. \A k \in 1 .. Len(ans) : k \in 1 .. Len(ans')
    BY <1>4, <1>7
  <2>3. ASSUME NEW t \in told PROVE t \in Told /\ (Waiting(t) \/ Popped(t.beat))'
    <3>1. t \in Told /\ (Waiting(t) \/ Popped(t.beat))
      BY DEF HInv, ToldPlaced
    <3>2. Waiting(t) => Waiting(t)'
      BY <1>1, <1>7, <2>2 DEF Waiting
    <3>3. Popped(t.beat) => Popped(t.beat)'
      BY <1>1 DEF Popped, Before
    <3>4. QED  BY <3>1, <3>2, <3>3
  <2>4. Waiting(t0)'
    <3>1. Len(ans) + 1 \in 1 .. Len(ans')
      BY <1>4, <1>7
    <3>2. QED  BY <1>1, <1>4, <1>5, <1>7, <3>1 DEF Waiting
  <2>5. \A k \in 1 .. Len(ans') : [beat |-> buf'[k], a |-> ans'[k]] \in told'
    BY <1>1, <1>3, <1>4, <1>5, <1>7, <2>1 DEF HInv, ToldPlaced
  <2>6. QED  BY <1>5, <2>3, <2>4, <2>5 DEF ToldPlaced
<1>12. ToldOnce'
  BY <1>4, <1>5 DEF HInv, ToldOnce
<1>13. QED
  BY <1>6, <1>10, <1>11, <1>12 DEF HInv

\* The answer to the head is popped, all others stay what they are.
LEMMA PopsOne ==
  ASSUME HInv, ResponseCycle, Handshake, NEW e, e = Head(buf), NEW t0, t0 = [beat |-> e, a |-> Head(ans)]
  PROVE  /\ t0 \in told /\ e \in BeatType /\ Popped(e)' /\ ~Popped(e)
         /\ \A t \in told : /\ Popped(t.beat) => Popped(t.beat)'
                            /\ Waiting(t) => Waiting(t)' \/ t = t0
                            /\ Popped(t.beat)' => Popped(t.beat) \/ t = t0
<1>1. IInv
  BY DEF HInv
<1>2. /\ Len(buf) \in Nat \ {0} /\ Len(buf') = Len(buf) - 1 /\ e = buf[1]
      /\ \A k \in 1 .. Len(buf') : buf'[k] = buf[k + 1]
      /\ Len(ans) \in Nat \ {0} /\ Len(ans') = Len(ans) - 1 /\ Head(ans) = ans[1]
      /\ \A k \in 1 .. Len(ans') : ans'[k] = ans[k + 1]
      /\ Len(ans) <= Len(buf) /\ \A k \in 1 .. Len(buf) : buf[k] \in BeatType
  BY <1>1, Pops
<1>3. t0 \in told /\ e \in BeatType
  BY <1>2 DEF HInv, ToldPlaced
<1>4. Popped(e)'
  <2>1. \A k \in 1 .. Len(buf') : k + 1 \in 1 .. Len(buf) /\ 1 < k + 1 /\ 1 \in 1 .. Len(buf)
    BY <1>2
  <2>2. \A k \in 1 .. Len(buf') : buf'[k].of.write = e.of.write => Before(e, buf'[k])
    BY <1>1, <1>2, <2>1 DEF IInv, BeatsOrdered
  <2>3. QED  BY <2>2 DEF Popped, Before
<1>5. ~Popped(e)
  <2>1. 1 \in 1 .. Len(buf)
    BY <1>2
  <2>2. QED  BY <1>2, <1>3, <2>1, NotBeforeItself DEF Popped
<1>6. ASSUME NEW t \in told, Popped(t.beat) PROVE Popped(t.beat)'
  <2>1. \A k \in 1 .. Len(buf') : k + 1 \in 1 .. Len(buf)
    BY <1>2
  <2>2. \A k \in 1 .. Len(buf') : buf'[k].of.write = t.beat.of.write => Before(t.beat, buf'[k])
    BY <1>2, <1>6, <2>1 DEF Popped
  <2>3. QED  BY <2>2 DEF Popped, Before
<1>7. ASSUME NEW t \in told, Waiting(t), t # t0
      PROVE  Waiting(t)' /\ ~Popped(t.beat)'
  <2>1. t = [beat |-> t.beat, a |-> t.a]
    BY DEF HInv, ToldPlaced, Told
  <2>2. PICK k \in 1 .. Len(ans) : t.beat = buf[k] /\ t.a = ans[k]
    BY <1>7 DEF Waiting
  <2>3. k # 1
    BY <1>2, <1>7, <2>1, <2>2
  <2>4. PICK l \in 1 .. Len(ans') : l \in 1 .. Len(buf') /\ k = l + 1
    BY <1>2, <2>3
  <2>5. t.beat = buf'[l] /\ t.a = ans'[l]
    BY <1>2, <2>2, <2>4
  <2>6. Waiting(t)'
    BY <2>5 DEF Waiting
  <2>7. ~Before(t.beat, t.beat)
    BY NotBeforeItself DEF HInv, ToldPlaced, Told
  <2>8. ~Popped(t.beat)'
    BY <2>4, <2>5, <2>7 DEF Popped, Before
  <2>9. QED  BY <2>6, <2>8
<1>8. \A t \in told : Waiting(t) \/ Popped(t.beat)
  BY DEF HInv, ToldPlaced
<1>9. QED
  BY <1>3, <1>4, <1>5, <1>6, <1>7, <1>8

LEMMA ResponseHistory ==
  ASSUME HInv, ResponseCycle
  PROVE  HInv'
<1>1. /\ IInv /\ IInv' /\ told' = told
      /\ UNCHANGED <<ar, aw, nr, nw, rcnt, wcnt, rmeta, wmeta, mem>>
  BY ResponseStep DEF ResponseCycle, offer, request, HInv
<1>2. \A e \in BeatType : OlderThanNext(e) => OlderThanNext(e)'
  BY <1>1 DEF OlderThanNext, Older
<1>3. CASE ~Handshake
  <2>1. UNCHANGED <<buf, ans>>
    BY <1>3 DEF ResponseCycle
  <2>2. QED  BY <1>1, <1>2, <2>1, QuietStep
<1>4. CASE Handshake
  <2>0. PICK e, t0 : e = Head(buf) /\ t0 = [beat |-> e, a |-> Head(ans)]
    OBVIOUS
  <2>1. /\ Len(buf) \in Nat \ {0} /\ Len(buf') = Len(buf) - 1 /\ e = buf[1]
        /\ \A k \in 1 .. Len(buf') : buf'[k] = buf[k + 1]
        /\ Len(ans) \in Nat \ {0} /\ Len(ans') = Len(ans) - 1
        /\ \A k \in 1 .. Len(ans') : ans'[k] = ans[k + 1]
        /\ Left \in Nat \ {0} /\ Left' = Left - 1 /\ Left <= Len(buf) /\ Len(ans) <= Left
    BY <1>1, <1>4, <2>0, Pops
  <2>2. /\ t0 \in told /\ t0.beat = e /\ Popped(e)'
        /\ \A t \in told : (Popped(t.beat) => Popped(t.beat)') /\ (Waiting(t) => Waiting(t)' \/ t = t0)
    BY <1>4, <2>0, PopsOne
  <2>3. Seen' = Seen
    <3>1. \A k \in 1 .. Left' : k + 1 \in 1 .. Left /\ buf'[k] = buf[k + 1]
      BY <2>1
    <3>2. \A k \in 1 .. Left : k = 1 \/ \E l \in 1 .. Left' : k = l + 1
      <4>1. ASSUME NEW k \in 1 .. Left, k # 1 PROVE k - 1 \in 1 .. Left' /\ k = (k - 1) + 1
        BY <2>1, <4>1
      <4>2. QED  BY <4>1
    <3>3. buf[1] \in {t.beat : t \in told}
      BY <2>1, <2>2
    <3>4. Seen' \subseteq Seen
      BY <1>1, <3>1 DEF Seen
    <3>5. Seen \subseteq Seen'
      <4>1. ASSUME NEW k \in 1 .. Left PROVE buf[k] \in Seen'
        BY <1>1, <3>1, <3>2, <3>3 DEF Seen
      <4>2. QED  BY <1>1, <4>1 DEF Seen
    <3>6. QED  BY <3>4, <3>5
  <2>4. SeenInv'
    BY <1>1, <1>2, <2>3, SeenStays DEF HInv
  <2>5. ToldPlaced'
    <3>1. ASSUME NEW t \in told PROVE t \in Told /\ (Waiting(t) \/ Popped(t.beat))'
      <4>1. t \in Told /\ (Waiting(t) \/ Popped(t.beat))
        BY DEF HInv, ToldPlaced
      <4>2. t = t0 => Popped(t.beat)'
        BY <2>2
      <4>3. QED  BY <2>2, <4>1, <4>2
    <3>2. \A k \in 1 .. Len(ans') : /\ k + 1 \in 1 .. Len(ans) /\ buf'[k] = buf[k + 1]
                                    /\ ans'[k] = ans[k + 1]
      BY <2>1
    <3>3. \A k \in 1 .. Len(ans') : [beat |-> buf'[k], a |-> ans'[k]] \in told
      BY <3>2 DEF HInv, ToldPlaced
    <3>4. QED  BY <1>1, <3>1, <3>3 DEF ToldPlaced
  <2>6. ToldOnce'
    BY <1>1 DEF HInv, ToldOnce
  <2>7. QED  BY <1>1, <2>4, <2>5, <2>6 DEF HInv
<1>5. QED
  BY <1>3, <1>4

-----------------------------------------------------------------------------
(***************************************************************************)
(* What is collected.                                                      *)
(***************************************************************************)
\* As long as no answer is popped, nothing is collected.
LEMMA OpenStays ==
  ASSUME Collected, UNCHANGED <<collect, eccq>>, told \subseteq told',
         \A t \in told : Popped(t.beat)' <=> Popped(t.beat),
         \A t \in told' : t \in told \/ ~Popped(t.beat)'
  PROVE  Collected'
<1>1. Gone' = Gone
  BY DEF Gone
<1>2. Open' = Open
  BY <1>1 DEF Open, GoneEnded
<1>3. QED
  BY <1>2 DEF Collected, AnyErr, AllExok, AnyEcc

\* The head of the buffer, which has its answer, and the beats before it.
LEMMA HeadTold ==
  ASSUME HInv, Joined, NEW e, e = Head(buf), NEW t0, t0 = [beat |-> e, a |-> Head(ans)]
  PROVE  /\ e \in BeatType /\ e \in Seen /\ Sound(e) /\ t0 \in told /\ ~Popped(e)
         /\ \A t \in told : Popped(t.beat) /\ t.beat.of.write = e.of.write => Before(t.beat, e)
         /\ \A f \in Seen : f.of.write = e.of.write => Before(e, f) \/ f = e \/ Popped(f)
         /\ \A f \in Seen : Popped(f) \/ f = e => \E t \in told : t.beat = f
         /\ \A t \in told : Popped(t.beat) \/ t = t0 \/ (t.beat.of.write = e.of.write => Before(e, t.beat))
<1>1. /\ buf # <<>> /\ ans # <<>> /\ IInv
  BY DEF Joined, HInv
<1>2. /\ Len(buf) \in Nat \ {0} /\ e = buf[1] /\ Len(ans) \in Nat \ {0} /\ Head(ans) = ans[1]
      /\ Left \in Nat /\ Left <= Len(buf) /\ Len(ans) <= Left
      /\ \A k \in 1 .. Len(buf) : buf[k] \in BeatType
  <2>1. Len(buf) \in Nat \ {0} /\ Len(ans) \in Nat \ {0} /\ Left \in Nat /\ Left <= Len(buf)
    BY <1>1, QueueLengths, EmptySeq
  <2>2. Len(ans) <= Left
    BY <1>1, <2>1, QueueLengths DEF Left
  <2>3. QED  BY <1>1, <2>1, <2>2, QueueLengths
<1>3. t0 \in told /\ e \in BeatType
  BY <1>2 DEF HInv, ToldPlaced
<1>4. t0.beat = e
  OBVIOUS
<1>5. e \in Seen /\ Sound(e)
  BY <1>3, <1>4 DEF Seen, HInv, SeenInv, SeenSound
<1>6. \A f : Popped(f) /\ f.of.write = e.of.write => Before(f, e)
  BY <1>2 DEF Popped
<1>7. ~Popped(e)
  BY <1>3, <1>6, NotBeforeItself
<1>8. \A k \in 1 .. Len(buf) : buf[k].of.write = e.of.write => k = 1 \/ Before(e, buf[k])
  BY <1>1, <1>2 DEF IInv, BeatsOrdered
<1>9. ASSUME NEW t \in told
      PROVE  Popped(t.beat) \/ t = t0 \/ (t.beat.of.write = e.of.write => Before(e, t.beat))
  <2>1. CASE Waiting(t)
    <3>1. PICK k \in 1 .. Len(ans) : t.beat = buf[k] /\ t.a = ans[k]
      BY <2>1 DEF Waiting
    <3>2. t = [beat |-> t.beat, a |-> t.a] /\ k \in 1 .. Len(buf)
      BY <1>2 DEF HInv, ToldPlaced, Told
    <3>3. k = 1 => t = t0
      BY <1>2, <3>1, <3>2
    <3>4. QED  BY <1>8, <3>1, <3>2, <3>3
  <2>2. QED  BY <2>1 DEF HInv, ToldPlaced
<1>10. ASSUME NEW f \in Seen, f.of.write = e.of.write
       PROVE  Before(e, f) \/ f = e \/ Popped(f)
  <2>1. CASE \E k \in 1 .. Left : f = buf[k]
    <3>1. PICK k \in 1 .. Left : f = buf[k]
      BY <2>1
    <3>2. k \in 1 .. Len(buf)
      BY <1>2
    <3>3. QED  BY <1>2, <1>8, <1>10, <3>1, <3>2
  <2>2. CASE \E t \in told : f = t.beat
    BY <1>4, <1>9, <1>10, <2>2
  <2>3. QED  BY <2>1, <2>2 DEF Seen
<1>11. ASSUME NEW f \in Seen, Popped(f) \/ f = e PROVE \E t \in told : t.beat = f
  <2>1. ASSUME NEW k \in 1 .. Left, f = buf[k] PROVE f = e
    <3>1. k \in 1 .. Len(buf)
      BY <1>2
    <3>2. ~Popped(f)
      BY <1>2, <2>1, <3>1, NotBeforeItself DEF Popped
    <3>3. QED  BY <1>11, <3>2
  <2>2. QED  BY <1>3, <1>4, <2>1 DEF Seen
<1>12. QED
  BY <1>3, <1>5, <1>6, <1>7, <1>9, <1>10, <1>11

\* When a write is at the head, what is collected is of its burst.
LEMMA OpenOfHead ==
  ASSUME HInv, Joined, NEW e, e = Head(buf), e.of.write
  PROVE  /\ \A t \in Gone : t.beat.of # e.of => GoneEnded(t.beat.of)
         /\ ~GoneEnded(e.of)
         /\ Open = {t \in Gone : t.beat.of = e.of}
<1>0. PICK t0 : t0 = [beat |-> e, a |-> Head(ans)]
  OBVIOUS
<1>1. /\ e \in BeatType /\ e \in Seen /\ Sound(e)
      /\ \A t \in told : Popped(t.beat) /\ t.beat.of.write = e.of.write => Before(t.beat, e)
      /\ \A f \in Seen : f.of.write = e.of.write => Before(e, f) \/ f = e \/ Popped(f)
      /\ \A f \in Seen : Popped(f) \/ f = e => \E t \in told : t.beat = f
  BY <1>0, HeadTold
<1>2. \A t \in told : t.beat \in Seen /\ t.beat \in BeatType /\ Sound(t.beat)
  BY DEF HInv, SeenInv, SeenSound, Seen
<1>3. \A t \in Gone : t \in told /\ t.beat.of.write = e.of.write
  <2>1. \A f \in BeatType : f.of.write \in BOOLEAN
    BY DEF BeatType, Burst
  <2>2. QED  BY <1>1, <1>2, <2>1 DEF Gone
<1>4. ASSUME NEW t \in Gone, t.beat.of # e.of PROVE GoneEnded(t.beat.of)
  <2>1. Before(t.beat, e) /\ t.beat \in Seen /\ t.beat.of.write
    BY <1>1, <1>2, <1>3 DEF Gone
  <2>2. t.beat.of.n < e.of.n
    BY <1>4, <2>1 DEF Before
  <2>3. PICK g \in Seen : g.of = t.beat.of /\ g.i = t.beat.of.len
    BY <1>1, <2>1, <2>2 DEF HInv, SeenInv, SeenEnded, Ended
  <2>4. g \in BeatType /\ Sound(g)
    BY DEF HInv, SeenInv, SeenSound
  <2>5. ~Before(e, g) /\ g # e
    BY <1>1, <2>2, <2>3, <2>4, BeatFields DEF Before
  <2>6. Popped(g)
    BY <1>1, <1>3, <2>3, <2>5
  <2>7. PICK u \in told : u.beat = g
    BY <1>1, <2>6
  <2>8. u \in Gone /\ u.beat.of = t.beat.of /\ u.beat.last
    BY <2>1, <2>3, <2>4, <2>6, <2>7 DEF Gone, Sound
  <2>9. QED  BY <2>8 DEF GoneEnded
<1>5. ~GoneEnded(e.of)
  <2>1. ASSUME NEW u \in Gone, u.beat.of = e.of, u.beat.last PROVE FALSE
    <3>1. Before(u.beat, e) /\ Sound(u.beat) /\ u.beat \in BeatType
      BY <1>1, <1>2, <1>3 DEF Gone
    <3>2. u.beat.i = e.of.len /\ e.i <= e.of.len
      BY <1>1, <2>1, <3>1 DEF Sound
    <3>3. QED  BY <1>1, <2>1, <3>1, <3>2, BeatFields DEF Before
  <2>2. QED  BY <2>1 DEF GoneEnded
<1>6. QED
  BY <1>4, <1>5 DEF Open

LEMMA CollectedPops ==
  ASSUME HInv, Collected, ResponseCycle, Handshake
  PROVE  Collected'
<1>1. PICK e : e = Head(buf)
  OBVIOUS
<1>2. PICK t0 : t0 = [beat |-> e, a |-> Head(ans)]
  OBVIOUS
<1>3. t0.beat = e /\ t0.a = Head(ans)
  BY <1>2
<1>4. told' = told /\ Joined
  BY DEF ResponseCycle, Handshake
<1>5. /\ t0 \in told /\ e \in BeatType /\ Popped(e)' /\ ~Popped(e)
      /\ \A t \in told : /\ Popped(t.beat) => Popped(t.beat)'
                         /\ Popped(t.beat)' => Popped(t.beat) \/ t = t0
  BY <1>1, <1>2, PopsOne
<1>6. collect' = NextCollect /\ eccq' = (IF e.of.write /\ e.last THEN FALSE ELSE BEcc)
  BY <1>1 DEF ResponseCycle
<1>7. CASE ~e.of.write
  <2>1. Gone' = Gone
    BY <1>3, <1>4, <1>5, <1>7 DEF Gone
  <2>2. Open' = Open
    BY <2>1 DEF Open, GoneEnded
  <2>3. collect' = collect /\ eccq' = BEcc
    BY <1>1, <1>6, <1>7 DEF NextCollect
  <2>4. BEcc <=> eccq
    BY <1>1, <1>7 DEF BEcc
  <2>5. QED  BY <2>2, <2>3, <2>4 DEF Collected, AnyErr, AllExok, AnyEcc
<1>8. CASE e.of.write
  <2>1. Gone' = Gone \cup {t0}
    BY <1>3, <1>4, <1>5, <1>8 DEF Gone
  <2>2. /\ \A t \in Gone : t.beat.of # e.of => GoneEnded(t.beat.of)
        /\ ~GoneEnded(e.of) /\ Open = {t \in Gone : t.beat.of = e.of}
    BY <1>1, <1>4, <1>8, OpenOfHead
  <2>3. CASE e.last
    <3>1. Open' = {}
      <4>1. \A b : GoneEnded(b) => GoneEnded(b)'
        BY <2>1 DEF GoneEnded
      <4>2. GoneEnded(e.of)'
        BY <1>3, <2>1, <2>3 DEF GoneEnded
      <4>3. \A t \in Gone' : GoneEnded(t.beat.of)'
        BY <1>3, <2>1, <2>2, <4>1, <4>2
      <4>4. QED  BY <4>3 DEF Open
    <3>2. collect' = [err |-> FALSE, exok |-> TRUE] /\ eccq' = FALSE
      BY <1>1, <1>6, <1>8, <2>3 DEF NextCollect
    <3>3. QED  BY <3>1, <3>2 DEF Collected, AnyErr, AllExok, AnyEcc
  <2>4. CASE ~e.last
    <3>1. Open' = Open \cup {t0}
      <4>1. \A b : GoneEnded(b)' <=> GoneEnded(b)
        BY <1>3, <2>1, <2>4 DEF GoneEnded
      <4>2. QED  BY <1>3, <2>1, <2>2, <4>1 DEF Open
    <3>2. collect' = [err |-> BErr, exok |-> BExok] /\ eccq' = BEcc
      BY <1>1, <1>6, <1>8, <2>4 DEF NextCollect
    <3>3. collect'.err = BErr /\ collect'.exok = BExok
      BY <3>2
    <3>4. BErr <=> AnyErr(Open) \/ t0.a.err \cap t0.beat.strb # {}
      BY <1>1, <1>3 DEF BErr, Collected
    <3>5. BExok <=> AllExok(Open) /\ t0.beat.strb \subseteq t0.a.exok
      BY <1>1, <1>3 DEF BExok, Collected
    <3>6. BEcc <=> AnyEcc(Open) \/ t0.a.ecc \cap t0.beat.strb # {}
      BY <1>1, <1>3, <1>8 DEF BEcc, Collected
    <3>7. AnyErr(Open') <=> BErr
      BY <3>1, <3>4 DEF AnyErr
    <3>8. AllExok(Open') <=> BExok
      BY <3>1, <3>5 DEF AllExok
    <3>9. AnyEcc(Open') <=> BEcc
      BY <3>1, <3>6 DEF AnyEcc
    <3>10. QED  BY <3>2, <3>3, <3>7, <3>8, <3>9 DEF Collected, AnyErr, AllExok, AnyEcc
  <2>5. QED  BY <2>3, <2>4
<1>9. QED
  BY <1>7, <1>8

\* When the last beat of a write is at the head, all beats of its burst are told.
LEMMA BurstOfHead ==
  ASSUME HInv, Joined, NEW e, e = Head(buf), e.of.write, e.last,
         NEW t0, t0 = [beat |-> e, a |-> Head(ans)],
         NEW T, T = {t \in told : t.beat.of = e.of}
  PROVE  T = Open \cup {t0} /\ Cardinality(T) = e.of.len + 1
<1>1. /\ e \in BeatType /\ e \in Seen /\ Sound(e) /\ t0 \in told
      /\ \A f \in Seen : f.of.write = e.of.write => Before(e, f) \/ f = e \/ Popped(f)
      /\ \A f \in Seen : Popped(f) \/ f = e => \E t \in told : t.beat = f
      /\ \A t \in told : Popped(t.beat) \/ t = t0 \/ (t.beat.of.write = e.of.write => Before(e, t.beat))
  BY HeadTold
<1>2. e.i = e.of.len /\ e.i \in Nat /\ e.of.n \in Nat /\ t0.beat = e
  BY <1>1, BeatFields DEF Sound
<1>3. \A f \in Seen : /\ f \in BeatType /\ f.i \in Nat
                      /\ f.of = e.of => f.i <= e.i /\ ~Before(e, f)
  <2>1. ASSUME NEW f \in Seen PROVE f \in BeatType /\ Sound(f)
    BY DEF HInv, SeenInv, SeenSound
  <2>2. ASSUME NEW f \in Seen, f.of = e.of PROVE f.i <= e.i /\ ~Before(e, f)
    BY <1>2, <2>1, <2>2, BeatFields DEF Sound, Before
  <2>3. QED  BY <2>1, <2>2, BeatFields
<1>4. \A t \in told : t.beat \in Seen
  BY DEF Seen
<1>5. T = Open \cup {t0}
  <2>1. Open = {t \in Gone : t.beat.of = e.of}
    BY OpenOfHead
  <2>2. ASSUME NEW t \in T, t # t0 PROVE t \in Open
    BY <1>1, <1>3, <1>4, <2>1, <2>2 DEF Gone
  <2>3. QED  BY <1>1, <1>2, <2>1, <2>2 DEF Gone
<1>6. \A j \in 0 .. e.i : \E t \in T : t.beat.i = j
  <2>1. ASSUME NEW j \in 0 .. e.i - 1 PROVE \E t \in T : t.beat.i = j
    <3>1. PICK f \in Seen : f.of = e.of /\ f.i = j
      BY <1>1 DEF HInv, SeenInv, SeenGapless
    <3>2. \E t \in told : t.beat = f
      BY <1>1, <1>3, <3>1
    <3>3. QED  BY <3>1, <3>2
  <2>2. t0 \in T
    BY <1>1, <1>2
  <2>3. \A j \in 0 .. e.i : j \in 0 .. e.i - 1 \/ j = e.i
    BY <1>2
  <2>4. QED  BY <1>2, <2>1, <2>2, <2>3
<1>7. \A t, u \in T : t.beat.i = u.beat.i => t = u
  <2>1. ASSUME NEW t \in T, NEW u \in T, t.beat.i = u.beat.i PROVE t.beat = u.beat
    <3>1. t.beat \in Seen /\ u.beat \in Seen /\ t.beat.of = e.of /\ u.beat.of = e.of
      BY <1>4
    <3>2. ~Before(t.beat, u.beat) /\ ~Before(u.beat, t.beat)
      BY <1>2, <1>3, <2>1, <3>1 DEF Before
    <3>3. QED  BY <3>1, <3>2 DEF HInv, SeenInv, SeenOrdered
  <2>2. QED  BY <2>1 DEF HInv, ToldOnce
<1>8. \A t \in T : t.beat.i \in 0 .. e.i
  BY <1>2, <1>3, <1>4
<1>9. Cardinality(T) = e.i + 1
  <2> DEFINE nth == [k \in 1 .. e.i + 1 |-> CHOOSE t \in T : t.beat.i = k - 1]
  <2>1. \A k \in 1 .. e.i + 1 : k - 1 \in 0 .. e.i /\ nth[k] \in T /\ nth[k].beat.i = k - 1
    BY <1>2, <1>6
  <2>2. \A t \in T : \E k \in 1 .. e.i + 1 : nth[k] = t
    <3>1. ASSUME NEW t \in T PROVE t.beat.i + 1 \in 1 .. e.i + 1 /\ nth[t.beat.i + 1] = t
      <4>1. t.beat.i \in Nat /\ t.beat.i + 1 \in 1 .. e.i + 1 /\ (t.beat.i + 1) - 1 = t.beat.i
        BY <1>2, <1>8
      <4>2. nth[t.beat.i + 1] \in T /\ nth[t.beat.i + 1].beat.i = t.beat.i
        BY <2>1, <4>1
      <4>3. QED  BY <1>7, <4>1, <4>2
    <3>2. QED  BY <3>1
  <2>3. nth \in Bijection(1 .. e.i + 1, T)
    <3>1. nth \in [1 .. e.i + 1 -> T]
      BY <2>1
    <3>2. \A k, l \in 1 .. e.i + 1 : nth[k] = nth[l] => k = l
      <4> HIDE DEF nth
      <4>1. ASSUME NEW k \in 1 .. e.i + 1, NEW l \in 1 .. e.i + 1, nth[k] = nth[l] PROVE k - 1 = l - 1
        BY <2>1, <4>1
      <4>2. QED  BY <1>2, <4>1
    <3>3. QED
      <4> HIDE DEF nth
      <4>1. QED  BY <2>2, <3>1, <3>2 DEF Bijection, Injection, Surjection, IsInjective
  <2>4. ExistsBijection(1 .. e.i + 1, T)
    <3> HIDE DEF nth
    <3>1. QED  BY <2>3 DEF ExistsBijection
  <2>5. e.i + 1 \in Nat
    BY <1>2
  <2>6. QED  BY <2>4, <2>5, FS_CountingElements
<1>10. QED
  BY <1>2, <1>5, <1>9

-----------------------------------------------------------------------------
(***************************************************************************)
(* What is reported.                                                       *)
(***************************************************************************)
\* WriteFaultsReported for one response.
Reported(x) ==
  /\ x.chan = "b" => /\ Cardinality(ToldOf(x)) = x.beat.of.len + 1
                     /\ x.resp = RespOf(AnyErr(ToldOf(x)), AllExok(ToldOf(x)))
  /\ x.beat.last /\ done = {} => x.ecc = AnyEcc(ToldOf(x))

LEMMA ReportedAll == WriteFaultsReported <=> \A x \in rsp : x.beat.of.write => Reported(x)
BY DEF WriteFaultsReported, Reported, AnyErr, AllExok, AnyEcc

\* The responses of a cycle are the head's.
LEMMA Responses ==
  ASSUME ResponseCycle, NEW e, e = Head(buf), NEW x \in rsp'
  PROVE  /\ x.beat = e /\ Joined /\ x.chan \in Owed(e) /\ (done' = {} => Handshake)
         /\ x.chan = "b" => x.resp = RespOf(BErr, BExok)
         /\ e.of.write => x.ecc = BEcc
<1>1. /\ (x = B /\ "b" \in Offered \cap ready) \/ (x = R /\ "r" \in Offered \cap ready)
      /\ ~Handshake => done' = done \cup (Offered \cap ready)
  BY DEF ResponseCycle
<1>2. B.chan = "b" /\ B.beat = e /\ B.resp = RespOf(BErr, BExok) /\ B.ecc = BEcc
  BY DEF B
<1>3. R.chan = "r" /\ R.beat = e /\ (e.of.write => R.ecc = BEcc)
  BY DEF R
<1>4. Joined /\ Offered \subseteq Owed(e)
  BY <1>1 DEF Offered
<1>5. "b" # "r"
  OBVIOUS
<1>6. QED
  BY <1>1, <1>2, <1>3, <1>4, <1>5

LEMMA ResponseReported ==
  ASSUME HInv, Collected, ResponseCycle
  PROVE  RspTold' /\ WriteFaultsReported'
<1>1. PICK e : e = Head(buf)
  OBVIOUS
<1>2. PICK t0 : t0 = [beat |-> e, a |-> Head(ans)]
  OBVIOUS
<1>3. t0.beat = e /\ t0.a = Head(ans) /\ told' = told
  BY <1>2 DEF ResponseCycle
<1>4. ASSUME NEW x \in rsp'
      PROVE  /\ x.chan \in Channels /\ (\E t \in told' : t.beat = x.beat)
             /\ x.chan = "b" => x.beat.of.write /\ x.beat.last
  <2>1. x.beat = e /\ Joined /\ x.chan \in Owed(e)
    BY <1>1, Responses
  <2>2. t0 \in told
    BY <1>1, <1>2, <2>1, HeadTold
  <2>3. QED  BY <1>3, <2>1, <2>2 DEF Owed, Channels
<1>5. ASSUME NEW x \in rsp', x.beat.of.write PROVE Reported(x)'
  <2>1. /\ x.beat = e /\ Joined /\ e.of.write /\ (done' = {} => Handshake)
        /\ x.chan = "b" => x.resp = RespOf(BErr, BExok)
        /\ x.ecc = BEcc
    BY <1>1, <1>5, Responses
  <2>2. x.chan = "b" => e.last
    BY <1>4, <2>1
  <2>3. PICK T : T = {t \in told : t.beat.of = e.of}
    OBVIOUS
  <2>4. ToldOf(x)' = T
    BY <1>3, <2>1, <2>3 DEF ToldOf
  <2>5. CASE e.last
    <3>1. T = Open \cup {t0} /\ Cardinality(T) = e.of.len + 1
      BY <1>1, <1>2, <2>1, <2>3, <2>5, BurstOfHead
    <3>2. BErr = AnyErr(T)
      <4>1. BErr <=> AnyErr(Open) \/ t0.a.err \cap t0.beat.strb # {}
        BY <1>1, <1>3 DEF BErr, Collected
      <4>2. BErr <=> AnyErr(T)
        BY <3>1, <4>1 DEF AnyErr
      <4>3. QED  BY <4>2 DEF BErr, AnyErr
    <3>3. BExok = AllExok(T)
      <4>1. BExok <=> AllExok(Open) /\ t0.beat.strb \subseteq t0.a.exok
        BY <1>1, <1>3 DEF BExok, Collected
      <4>2. BExok <=> AllExok(T)
        BY <3>1, <4>1 DEF AllExok
      <4>3. QED  BY <4>2 DEF BExok, AllExok
    <3>4. Handshake => BEcc = AnyEcc(T)
      <4>1. Handshake => (BEcc <=> AnyEcc(Open) \/ t0.a.ecc \cap t0.beat.strb # {})
        BY <1>1, <1>3, <2>1 DEF BEcc, Collected
      <4>2. Handshake => (BEcc <=> AnyEcc(T))
        BY <3>1, <4>1 DEF AnyEcc
      <4>3. QED  BY <4>2 DEF BEcc, AnyEcc
    <3>5. x.chan = "b" => x.resp = RespOf(AnyErr(T), AllExok(T))
      BY <2>1, <3>2, <3>3
    <3>6. done' = {} => x.ecc = AnyEcc(T)
      BY <2>1, <3>4
    <3>7. x.chan = "b" => Cardinality(ToldOf(x)') = x.beat.of.len + 1
      BY <2>1, <2>4, <3>1, Zenon
    <3>8. QED
      BY <2>4, <3>5, <3>6, <3>7 DEF Reported, AnyErr, AllExok, AnyEcc, RespOf
  <2>6. CASE ~e.last
    BY <2>1, <2>2, <2>6 DEF Reported
  <2>7. QED  BY <2>5, <2>6
<1>6. RspTold'
  BY <1>4 DEF RspTold
<1>7. WriteFaultsReported'
  BY <1>5 DEF WriteFaultsReported, Reported, AnyErr, AllExok, AnyEcc
<1>8. QED
  BY <1>6, <1>7

LEMMA ResponseFaults ==
  ASSUME FInv, ResponseCycle
  PROVE  FInv'
<1>1. HInv /\ Collected /\ told' = told
  BY DEF FInv, ResponseCycle
<1>2. CASE Handshake
  BY <1>1, <1>2, CollectedPops, ResponseHistory, ResponseReported DEF FInv
<1>3. CASE ~Handshake
  <2>1. UNCHANGED <<buf, ans, collect, eccq>>
    BY <1>3 DEF ResponseCycle
  <2>2. \A t \in told : Popped(t.beat)' <=> Popped(t.beat)
    BY <2>1 DEF Popped, Before
  <2>3. Collected'
    BY <1>1, <2>1, <2>2, OpenStays
  <2>4. QED  BY <1>1, <2>3, ResponseHistory, ResponseReported DEF FInv
<1>4. QED
  BY <1>2, <1>3

\* The beats that are answered after a response are of other bursts.
LEMMA MemAnswerFaults ==
  ASSUME FInv, NEW a \in Answers, MemAnswer(a)
  PROVE  FInv'
<1>1. /\ HInv /\ Collected /\ RspTold /\ mem # <<>> /\ UNCHANGED <<buf, done, collect, eccq, rsp>>
      /\ told' = told \cup {[beat |-> Head(mem), a |-> a]}
  BY DEF FInv, MemAnswer, respond
<1>2. PICK g : g = Head(mem)
  OBVIOUS
<1>3. PICK t0 : t0 = [beat |-> g, a |-> a]
  OBVIOUS
<1>4. t0.beat = g /\ told' = told \cup {t0}
  BY <1>1, <1>2, <1>3
<1>5. /\ g \in BeatType /\ Sound(g) /\ ~Popped(g)
      /\ \A t \in told : t.beat.of.write = g.of.write => Before(t.beat, g)
  <2>1. \A k \in 1 .. Left : k \in 1 .. Len(buf)
    <3>1. Left \in Nat /\ Left <= Len(buf) /\ Len(buf) \in Nat
      BY <1>1, QueueLengths DEF HInv
    <3>2. QED  BY <3>1
  <2>2. QED  BY <1>1, <1>2, <2>1, NewBeat DEF HInv, IInv, BeatsSound
<1>6. Collected'
  <2>1. \A f : Popped(f)' <=> Popped(f)
    BY <1>1 DEF Popped, Before
  <2>2. QED  BY <1>1, <1>4, <1>5, <2>1, OpenStays
<1>7. ASSUME NEW x \in rsp, x.beat.of.write, x.beat.last PROVE ToldOf(x)' = ToldOf(x)
  <2>1. PICK t \in told : t.beat = x.beat
    BY <1>1 DEF RspTold
  <2>2. x.beat \in BeatType /\ Sound(x.beat)
    BY <1>1, <2>1 DEF HInv, SeenInv, SeenSound, Seen
  <2>3. g.of # x.beat.of
    <3>1. ASSUME g.of = x.beat.of PROVE FALSE
      <4>1. Before(x.beat, g)
        BY <1>5, <2>1, <3>1
      <4>2. x.beat.i < g.i
        BY <2>2, <3>1, <4>1, BeatFields DEF Before
      <4>3. x.beat.i = g.of.len /\ g.i <= g.of.len
        BY <1>5, <1>7, <2>2, <3>1 DEF Sound
      <4>4. QED  BY <1>5, <4>2, <4>3, BeatFields
    <3>2. QED  BY <3>1
  <2>4. QED  BY <1>4, <2>3 DEF ToldOf
<1>8. WriteFaultsReported'
  <2>1. ASSUME NEW x \in rsp, x.beat.of.write PROVE Reported(x)'
    <3>1. Reported(x) /\ (x.chan = "b" => x.beat.last)
      BY <1>1, <2>1, ReportedAll DEF FInv, RspTold
    <3>2. CASE x.beat.last
      BY <1>1, <1>7, <2>1, <3>1, <3>2 DEF Reported, AnyErr, AllExok, AnyEcc
    <3>3. CASE ~x.beat.last
      BY <3>1, <3>3 DEF Reported
    <3>4. QED  BY <3>2, <3>3
  <2>2. QED  BY <1>1, <2>1 DEF WriteFaultsReported, Reported, AnyErr, AllExok, AnyEcc
<1>9. RspTold'
  BY <1>1 DEF RspTold
<1>10. QED
  BY <1>1, <1>6, <1>8, <1>9, MemAnswerHistory DEF FInv

\* The other steps neither answer a beat nor take a response.
LEMMA OtherFaults ==
  ASSUME FInv, HInv', UNCHANGED <<told, ans, respond>>,
         \A t \in told : Popped(t.beat)' <=> Popped(t.beat)
  PROVE  FInv'
<1>1. UNCHANGED <<done, collect, eccq, rsp>>
  BY DEF respond
<1>2. Collected'
  BY <1>1, OpenStays DEF FInv
<1>3. RspTold'
  BY <1>1 DEF FInv, RspTold
<1>4. WriteFaultsReported'
  <2>1. \A x : ToldOf(x)' = ToldOf(x)
    BY DEF ToldOf
  <2>2. \A x : Reported(x)' <=> Reported(x)
    BY <1>1, <2>1 DEF Reported
  <2>3. \A x \in rsp : x.beat.of.write => Reported(x)'
    BY <2>2, ReportedAll DEF FInv
  <2>4. QED  BY <1>1, <2>3 DEF WriteFaultsReported, Reported, AnyErr, AllExok, AnyEcc
<1>5. QED
  BY <1>2, <1>3, <1>4 DEF FInv

LEMMA InitFInv == Init => FInv
<1> SUFFICES ASSUME Init PROVE FInv
  OBVIOUS
<1>1. /\ buf = <<>> /\ mem = <<>> /\ ans = <<>> /\ told = {} /\ rsp = {} /\ wcnt = 0 /\ eccq = FALSE
      /\ collect = [err |-> FALSE, exok |-> TRUE]
  BY DEF Init
<1>2. Len(ans) = 0 /\ Left = 0 /\ Seen = {}
  <2>1. Len(ans) = 0 /\ Left = 0
    BY <1>1, EmptySeq DEF Left
  <2>2. QED  BY <1>1, <2>1 DEF Seen
<1>3. SeenInv
  BY <1>1, <1>2 DEF SeenInv, SeenSound, SeenOrdered, SeenGapless, SeenEnded, InProgress
<1>4. ToldPlaced /\ ToldOnce
  BY <1>1, <1>2 DEF ToldPlaced, ToldOnce
<1>5. HInv
  BY <1>3, <1>4, InitIInv DEF HInv
<1>6. Open = {}
  BY <1>1 DEF Open, Gone
<1>7. Collected
  BY <1>1, <1>6 DEF Collected, AnyErr, AllExok, AnyEcc
<1>8. RspTold /\ WriteFaultsReported
  BY <1>1 DEF RspTold, WriteFaultsReported
<1>9. QED
  BY <1>5, <1>7, <1>8 DEF FInv

LEMMA NextFInv == FInv /\ [Next]_vars => FInv'
<1> SUFFICES ASSUME FInv, [Next]_vars PROVE FInv'
  OBVIOUS
<1>1. HInv /\ IInv
  BY DEF FInv, HInv
<1>2. ASSUME NEW s \in Reads, OfferRead(s) PROVE FInv'
  <2>1. UNCHANGED <<told, ans, buf, respond>>
    BY <1>2 DEF OfferRead
  <2>2. \A t \in told : Popped(t.beat)' <=> Popped(t.beat)
    BY <2>1 DEF Popped, Before
  <2>3. QED  BY <1>1, <1>2, <2>1, <2>2, OfferReadHistory, OtherFaults
<1>3. ASSUME NEW s \in Writes, OfferWrite(s) PROVE FInv'
  <2>1. UNCHANGED <<told, ans, buf, respond>>
    BY <1>3 DEF OfferWrite
  <2>2. \A t \in told : Popped(t.beat)' <=> Popped(t.beat)
    BY <2>1 DEF Popped, Before
  <2>3. QED  BY <1>1, <1>3, <2>1, <2>2, OfferWriteHistory, OtherFaults
<1>4. ASSUME NEW strb \in Strobes, OfferData(strb) PROVE FInv'
  <2>1. UNCHANGED <<told, ans, buf, respond>>
    BY <1>4 DEF OfferData
  <2>2. \A t \in told : Popped(t.beat)' <=> Popped(t.beat)
    BY <2>1 DEF Popped, Before
  <2>3. QED  BY <1>1, <1>4, <2>1, <2>2, OfferDataHistory, OtherFaults
<1>5. ASSUME NEW gnt \in BOOLEAN, RequestCycle(gnt) PROVE FInv'
  <2>1. UNCHANGED <<told, ans, respond>>
    BY <1>5 DEF RequestCycle
  <2>2. \A t \in told : Popped(t.beat)' <=> Popped(t.beat)
    BY <1>1, <1>5, RequestKeepsPlaces
  <2>3. QED  BY <1>1, <1>5, <2>1, <2>2, RequestHistory, OtherFaults
<1>6. ASSUME NEW a \in Answers, MemAnswer(a) PROVE FInv'
  BY <1>6, MemAnswerFaults
<1>7. CASE ResponseCycle
  BY <1>7, ResponseFaults
<1>8. CASE UNCHANGED vars
  <2>1. /\ UNCHANGED <<told, ans, buf, respond>> /\ UNCHANGED <<wcnt, wmeta, mem, ar, aw, nr, nw, rcnt, rmeta>>
    BY <1>8 DEF vars, respond
  <2>2. \A e \in BeatType : OlderThanNext(e) => OlderThanNext(e)'
    BY <2>1 DEF OlderThanNext, Older
  <2>3. HInv'
    BY <1>1, <1>8, <2>1, <2>2, StutterIInv, QuietStep
  <2>4. \A t \in told : Popped(t.beat)' <=> Popped(t.beat)
    BY <2>1 DEF Popped, Before
  <2>5. QED  BY <2>1, <2>3, <2>4, OtherFaults
<1>9. QED
  BY <1>2, <1>3, <1>4, <1>5, <1>6, <1>7, <1>8 DEF Next

\* A write is answered once the memory answered all its beats, with an error iff one
\* of the banks it wrote had one, exclusive success iff all did, and the ECC faults
\* of all its beats come with the answer that ends it; no other burst's faults do.
THEOREM WriteFaults == Spec => []WriteFaultsReported
<1>1. FInv => WriteFaultsReported
  BY DEF FInv
<1>2. QED
  BY <1>1, InitFInv, NextFInv, PTL DEF Spec

-----------------------------------------------------------------------------
(***************************************************************************)
(* The reads.  The banks whose errors count are computed from the beat's   *)
(* address; they are the ones it touches for some shapes of bursts only.   *)
(***************************************************************************)
ShapeOf(b) == [len |-> b.len, addr |-> b.addr, size |-> b.size, qos |-> b.qos, atop |-> b.atop]
Shaped(b) == ShapeOf(b) \in (IF b.write THEN Writes ELSE Reads)

ShapesKept ==
  /\ ar # NoBurst => Shaped(ar)
  /\ aw # NoBurst => Shaped(aw)
  /\ rcnt > 0 => Shaped(rmeta.of)
  /\ wcnt > 0 => Shaped(wmeta.of)
  /\ \A k \in 1 .. Len(buf) : Shaped(buf[k].of)

RInv == FInv /\ ShapesKept /\ ReadFaultsReported

\* Of every shape that is answered on R, the expression yields the banks touched.
ReadsSpan ==
  \A s \in Reads \cup {t \in Writes : t.atop} : \A i \in 0 .. s.len :
    LET e == [of |-> s, addr |-> AddrOf(s, i)] IN SizeEnable(e) = ActiveBanks(e)

LEMMA NumberedShape ==
  ASSUME NEW s \in Reads \cup Writes, NEW k, NEW wr
  PROVE  ShapeOf(Numbered(s, k, wr)) = s
<1>1. s \in [len : Nat, addr : Nat, size : Nat, qos : Nat, atop : BOOLEAN]
  BY AxiToMemAssumption
<1>2. QED
  BY <1>1 DEF Numbered, ShapeOf

LEMMA ShapeSpans ==
  ASSUME ReadsSpan, NEW e \in BeatType, Sound(e), Shaped(e.of), "r" \in Owed(e)
  PROVE  SizeEnable(e) = ActiveBanks(e)
<1>1. PICK s : s = ShapeOf(e.of)
  OBVIOUS
<1>2. s \in Reads \cup {t \in Writes : t.atop}
  <2>1. ~e.of.write \/ e.of.atop
    BY DEF Owed
  <2>2. s.atop = e.of.atop
    BY <1>1 DEF ShapeOf
  <2>3. QED  BY <1>1, <2>1, <2>2 DEF Shaped
<1>3. s.len = e.of.len /\ s.size = e.of.size /\ s.addr = e.of.addr
  BY <1>1 DEF ShapeOf
<1>4. e.i \in 0 .. s.len /\ AddrOf(s, e.i) = e.addr
  <2>1. e.i \in Nat /\ e.i <= e.of.len /\ e.of.len \in Nat
    BY BeatFields DEF Sound
  <2>2. AddrOf(s, e.i) = AddrOf(e.of, e.i)
    BY <1>3 DEF AddrOf
  <2>3. QED  BY <1>3, <2>1, <2>2 DEF Sound
<1>5. PICK f : f = [of |-> s, addr |-> AddrOf(s, e.i)]
  OBVIOUS
<1>6. SizeEnable(f) = ActiveBanks(f)
  BY <1>2, <1>4, <1>5 DEF ReadsSpan
<1>7. f.addr = e.addr /\ f.of.size = e.of.size
  BY <1>3, <1>4, <1>5
<1>8. QED
  BY <1>6, <1>7 DEF SizeEnable, ActiveBanks

\* The selected beat is of a burst on the channels or in progress.
LEMMA SelectedShape ==
  ASSUME IInv, ShapesKept, ArbValid
  PROVE  Shaped(Meta.of)
<1>1. TypeOK /\ ReadsGo /\ WritesGo /\ rcnt \in Nat /\ wcnt \in Nat
  BY OnChannels DEF IInv
<1>2. CASE Select
  <2>1. /\ WrValid /\ Meta = InTurn(wcnt, wmeta, aw, Head(w)) /\ Head(w) \in SUBSET Banks
    BY <1>1, <1>2, BeatsOffered DEF ArbValid, Meta
  <2>2. CASE wcnt > 0
    <3>1. Meta.of = wmeta.of
      BY <1>1, <2>1, <2>2, NextBeatType DEF InTurn, WritesGo, Going
    <3>2. QED  BY <2>2, <3>1 DEF ShapesKept
  <2>3. CASE ~(wcnt > 0)
    <3>1. Meta.of = aw /\ aw # NoBurst
      BY <2>1, <2>3 DEF InTurn, FirstBeat, WrValid
    <3>2. QED  BY <3>1 DEF ShapesKept
  <2>4. QED  BY <2>2, <2>3
<1>3. CASE ~Select
  <2>1. RdValid /\ Meta = InTurn(rcnt, rmeta, ar, {}) /\ {} \in SUBSET Banks
    BY <1>1, <1>3, BeatsOffered DEF ArbValid, Meta
  <2>2. CASE rcnt > 0
    <3>1. Meta.of = rmeta.of
      BY <1>1, <2>1, <2>2, NextBeatType DEF InTurn, ReadsGo, Going
    <3>2. QED  BY <2>2, <3>1 DEF ShapesKept
  <2>3. CASE ~(rcnt > 0)
    <3>1. Meta.of = ar /\ ar # NoBurst
      BY <2>1, <2>3 DEF InTurn, FirstBeat, RdValid
    <3>2. QED  BY <3>1 DEF ShapesKept
  <2>4. QED  BY <2>2, <2>3
<1>4. QED
  BY <1>2, <1>3

LEMMA RequestShapes ==
  ASSUME IInv, ShapesKept, NEW g \in BOOLEAN, RequestCycle(g)
  PROVE  ShapesKept'
<1>1. PICK x : x = Meta
  OBVIOUS
<1>2. /\ ArbValid /\ Len(buf') = Left + 1 /\ buf'[Left + 1] = x
      /\ \A k \in 1 .. Left : buf'[k] = buf[k]
  BY <1>1, RequestCases, RequestBuffer
<1>3. x \in BeatType /\ Shaped(x.of) /\ Kept(x).of = x.of
  BY <1>1, <1>2, SelectedBeat, SelectedShape, KeptPlace
<1>4. \A k \in 1 .. Len(buf') : Shaped(buf'[k].of)
  <2>1. Left \in Nat /\ Left <= Len(buf) /\ Len(buf) \in Nat
    BY QueueLengths
  <2>2. \A k \in 1 .. Len(buf') : k = Left + 1 \/ (k \in 1 .. Left /\ k \in 1 .. Len(buf))
    BY <1>2, <2>1
  <2>3. QED  BY <1>2, <1>3, <2>2 DEF ShapesKept
<1>5. CASE Accept
  <2>1. CASE Select
    BY <1>1, <1>3, <1>4, <1>5, <2>1 DEF Accept, ShapesKept, Shaped, ShapeOf
  <2>2. CASE ~Select
    BY <1>1, <1>3, <1>4, <1>5, <2>2 DEF Accept, ShapesKept, Shaped, ShapeOf
  <2>3. QED  BY <2>1, <2>2
<1>6. CASE UNCHANGED <<ar, aw, w, rcnt, wcnt, rmeta, wmeta, overtaken>>
  BY <1>4, <1>6 DEF ShapesKept, Shaped, ShapeOf
<1>7. QED
  BY <1>5, <1>6, RequestCases

\* All other steps leave the bursts in progress as they are.
LEMMA ShapesStay ==
  ASSUME IInv, ShapesKept, [Next]_vars, \A g \in BOOLEAN : ~RequestCycle(g)
  PROVE  ShapesKept'
<1>1. ASSUME NEW s \in Reads, OfferRead(s) PROVE ShapesKept'
  <2>1. ar' = Numbered(s, nr + 1, FALSE) /\ UNCHANGED <<aw, rcnt, wcnt, rmeta, wmeta, buf>>
    BY <1>1 DEF OfferRead, request
  <2>2. ShapeOf(ar') = s /\ ar'.write = FALSE
    BY <2>1, NumberedShape DEF Numbered
  <2>3. QED  BY <2>1, <2>2 DEF ShapesKept, Shaped
<1>2. ASSUME NEW s \in Writes, OfferWrite(s) PROVE ShapesKept'
  <2>1. aw' = Numbered(s, nw + 1, TRUE) /\ UNCHANGED <<ar, rcnt, wcnt, rmeta, wmeta, buf>>
    BY <1>2 DEF OfferWrite, request
  <2>2. ShapeOf(aw') = s /\ aw'.write = TRUE
    BY <2>1, NumberedShape DEF Numbered
  <2>3. QED  BY <2>1, <2>2 DEF ShapesKept, Shaped
<1>3. CASE \/ \E strb \in Strobes : OfferData(strb)
           \/ \E a \in Answers : MemAnswer(a)
           \/ UNCHANGED vars
  <2>1. UNCHANGED <<ar, aw, rcnt, wcnt, rmeta, wmeta, buf>>
    BY <1>3 DEF OfferData, MemAnswer, request, offer, vars
  <2>2. QED  BY <2>1 DEF ShapesKept
<1>4. CASE ResponseCycle
  <2>1. UNCHANGED <<ar, aw, rcnt, wcnt, rmeta, wmeta>>
    BY <1>4 DEF ResponseCycle, request, offer
  <2>2. \A k \in 1 .. Len(buf') : Shaped(buf'[k].of)
    <3>1. CASE Handshake
      <4>1. /\ Len(buf) \in Nat /\ Len(buf') = Len(buf) - 1
            /\ \A k \in 1 .. Len(buf') : buf'[k] = buf[k + 1]
        BY <1>4, <3>1, Pops
      <4>2. \A k \in 1 .. Len(buf') : k + 1 \in 1 .. Len(buf)
        BY <4>1
      <4>3. QED  BY <4>1, <4>2 DEF ShapesKept
    <3>2. CASE ~Handshake
      BY <1>4, <3>2 DEF ResponseCycle, ShapesKept
    <3>3. QED  BY <3>1, <3>2
  <2>3. QED  BY <2>1, <2>2 DEF ShapesKept
<1>5. QED
  BY <1>1, <1>2, <1>3, <1>4 DEF Next

\* ReadFaultsReported for one response.
Read(x) ==
  \A t \in ToldBeat(x) :
    /\ x.resp = RespOf(t.a.err \cap ActiveBanks(x.beat) # {}, ActiveBanks(x.beat) \subseteq t.a.exok)
    /\ ~x.beat.of.write => x.ecc = (t.a.ecc \cap ActiveBanks(x.beat) # {})

LEMMA ReadAll == ReadFaultsReported <=> \A x \in rsp : x.chan = "r" => Read(x)
BY DEF ReadFaultsReported, Read

LEMMA ResponseRead ==
  ASSUME ReadsSpan, RInv, ResponseCycle
  PROVE  ReadFaultsReported'
<1>1. PICK e : e = Head(buf)
  OBVIOUS
<1>2. PICK t0 : t0 = [beat |-> e, a |-> Head(ans)]
  OBVIOUS
<1>3. t0.beat = e /\ t0.a = Head(ans) /\ told' = told /\ HInv /\ IInv
  BY <1>2 DEF ResponseCycle, RInv, FInv, HInv
<1>4. ASSUME NEW x \in rsp', x.chan = "r" PROVE Read(x)'
  <2>1. x.beat = e /\ Joined /\ "r" \in Owed(e) /\ x = R
    <3>1. x = B \/ x = R
      BY DEF ResponseCycle
    <3>2. B.chan = "b" /\ "b" # "r"
      BY DEF B
    <3>3. QED  BY <1>1, <1>4, <3>1, <3>2, Responses
  <2>2. e \in BeatType /\ Sound(e) /\ t0 \in told
    BY <1>1, <1>2, <1>3, <2>1, HeadTold
  <2>3. Shaped(e.of)
    <3>1. buf # <<>> /\ 1 \in 1 .. Len(buf) /\ e = buf[1]
      BY <1>1, <1>3, <2>1, QueueLengths, EmptySeq DEF Joined
    <3>2. QED  BY <3>1 DEF RInv, ShapesKept
  <2>4. SizeEnable(e) = ActiveBanks(e)
    BY <2>1, <2>2, <2>3, ShapeSpans
  <2>5. ToldBeat(x)' = {t0}
    BY <1>3, <2>1, <2>2 DEF ToldBeat, HInv, ToldOnce
  <2>6. x.resp = RespOf(t0.a.err \cap ActiveBanks(e) # {}, ActiveBanks(e) \subseteq t0.a.exok)
    BY <1>1, <1>3, <2>1, <2>4 DEF R
  <2>7. ~e.of.write => x.ecc = (t0.a.ecc \cap ActiveBanks(e) # {})
    BY <1>1, <1>3, <2>1, <2>4 DEF R
  <2>8. QED  BY <2>1, <2>5, <2>6, <2>7 DEF Read
<1>5. QED
  BY <1>4 DEF ReadFaultsReported, Read

LEMMA MemAnswerRead ==
  ASSUME RInv, NEW a \in Answers, MemAnswer(a)
  PROVE  ReadFaultsReported'
<1>1. /\ HInv /\ RspTold /\ mem # <<>> /\ rsp' = rsp
      /\ told' = told \cup {[beat |-> Head(mem), a |-> a]}
  BY DEF RInv, FInv, MemAnswer, respond
<1>2. \A t \in told : t.beat # Head(mem)
  BY <1>1, NewBeat
<1>3. ASSUME NEW x \in rsp PROVE ToldBeat(x)' = ToldBeat(x)
  <2>1. x.beat # Head(mem)
    BY <1>1, <1>2 DEF RspTold
  <2>2. QED  BY <1>1, <2>1 DEF ToldBeat
<1>4. \A x \in rsp : x.chan = "r" => Read(x)'
  BY <1>3, ReadAll DEF RInv, Read
<1>5. QED
  BY <1>1, <1>4 DEF ReadFaultsReported, Read

LEMMA NextRInv ==
  ASSUME ReadsSpan
  PROVE  RInv /\ [Next]_vars => RInv'
<1> SUFFICES ASSUME RInv, [Next]_vars PROVE RInv'
  OBVIOUS
<1>1. IInv /\ ShapesKept /\ FInv'
  BY NextFInv DEF RInv, FInv, HInv
<1>2. ShapesKept'
  BY <1>1, RequestShapes, ShapesStay
<1>3. ReadFaultsReported'
  <2>1. CASE ResponseCycle
    BY <2>1, ResponseRead
  <2>2. CASE \E a \in Answers : MemAnswer(a)
    BY <2>2, MemAnswerRead
  <2>3. CASE \/ \E s \in Reads : OfferRead(s)
             \/ \E s \in Writes : OfferWrite(s)
             \/ \E strb \in Strobes : OfferData(strb)
             \/ \E gnt \in BOOLEAN : RequestCycle(gnt)
             \/ UNCHANGED vars
    <3>1. UNCHANGED <<rsp, told>>
      BY <2>3 DEF OfferRead, OfferWrite, OfferData, RequestCycle, respond, vars
    <3>2. \A x : ToldBeat(x)' = ToldBeat(x)
      BY <3>1 DEF ToldBeat
    <3>3. \A x \in rsp : x.chan = "r" => Read(x)'
      BY <3>2, ReadAll DEF RInv, Read
    <3>4. QED  BY <3>1, <3>3 DEF ReadFaultsReported, Read
  <2>4. QED  BY <2>1, <2>2, <2>3 DEF Next
<1>4. QED
  BY <1>1, <1>2, <1>3 DEF RInv

LEMMA InitRInv == Init => RInv
<1> SUFFICES ASSUME Init PROVE RInv
  OBVIOUS
<1>1. FInv
  BY InitFInv
<1>2. ShapesKept
  <2>1. ar = NoBurst /\ aw = NoBurst /\ rcnt = 0 /\ wcnt = 0 /\ buf = <<>> /\ Len(buf) = 0
    BY EmptySeq DEF Init
  <2>2. QED  BY <2>1 DEF ShapesKept
<1>3. ReadFaultsReported
  BY DEF Init, ReadFaultsReported
<1>4. QED
  BY <1>1, <1>2, <1>3 DEF RInv

\* An R beat reports the errors and ECC faults of the banks it is read from, and of no
\* others, where the shapes of the bursts are such that the code finds these banks.
THEOREM ReadFaults ==
  ASSUME ReadsSpan
  PROVE  Spec => []ReadFaultsReported
<1>1. RInv => ReadFaultsReported
  BY DEF RInv
<1>2. RInv /\ [Next]_vars => RInv'
  BY NextRInv
<1>3. QED
  BY <1>1, <1>2, InitRInv, PTL DEF Spec
=============================================================================
