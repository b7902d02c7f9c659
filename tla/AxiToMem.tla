------------------------------ MODULE AxiToMem ------------------------------
(***************************************************************************)
(* axi_to_detailed_mem_user: the adapter behind the AXI input port.  AXI   *)
(* bursts are cut into beats; reads and writes compete for one stream of   *)
(* beats, which is forked to the memory and to a buffer of what the        *)
(* response will need; the memory's answers are joined with that buffer    *)
(* and handed out on the B and R channels.  The collection of ECC faults   *)
(* for B, which safety_island_top adds around the adapter, is included.    *)
(*                                                                         *)
(* RequestCycle is a clock edge of the request side, ResponseCycle one of  *)
(* the response side; the two sides meet only in FIFOs, so that the edges  *)
(* of one cycle are taken in either order.  The AXI manager and the memory *)
(* are the environment.  Data is left out; addresses are numbers of bytes. *)
(***************************************************************************)
EXTENDS Naturals, Sequences, FiniteSets

CONSTANTS
  NumBanks,   \* memory banks side by side in an AXI beat
  BankBytes,  \* bytes of a bank's word
  BufDepth,   \* beats the memory may have in flight
  Reads,      \* shapes of the read bursts: [len, addr, size, qos, atop]
  Writes,     \* shapes of the write bursts, atop set for atomics
  Strobes,    \* sets of banks a W beat may write
  Answers,    \* answers of the memory: the banks that set [err, exok, ecc]
  OneDirection,  \* axi_to_obi: an adapter is sent reads only, or writes only
  MaxReads, MaxWrites  \* bounds: bursts of a behaviour

Banks == 0 .. NumBanks - 1

ASSUME AxiToMemAssumption ==
  /\ NumBanks \in Nat \ {0} /\ BankBytes \in Nat \ {0} /\ BufDepth \in Nat \ {0}
  /\ \A s \in Reads \cup Writes :
       s \in [len : Nat, addr : Nat, size : Nat, qos : Nat, atop : BOOLEAN]
  /\ \A s \in Reads : ~s.atop
  /\ Strobes \subseteq SUBSET Banks
  /\ Answers \subseteq [err : SUBSET Banks, exok : SUBSET Banks, ecc : SUBSET Banks]
  /\ OneDirection \in BOOLEAN
  /\ MaxReads \in Nat /\ MaxWrites \in Nat

VARIABLES
  ar, aw,      \* the bursts on the AR and AW channels, or NoBurst
  w,           \* the beat on the W channel: <<>> or <<its strobe>>
  nr, nw,      \* numbers of the latest read and write burst offered
  rcnt, wcnt,  \* r_cnt_q, w_cnt_q: beats left of the bursts in progress
  rmeta, wmeta,  \* rd_meta_q, wr_meta_q: the latest beats of these bursts
  sel, lock,   \* meta_sel_q (TRUE: write) and sel_lock_q
  forked,      \* outputs of i_fork that took the beat already
  buf,         \* i_sel_buf and i_meta_buf, which move as one
  mem,         \* beats the memory accepted and has not answered
  ans,         \* the response buffer of i_stream_to_mem
  done,        \* channels of i_fork_dynamic that took the response already
  collect,     \* collect_b_err_q, collect_b_exokay_q
  eccq,        \* axi_b_ecc_err_q
  ready,       \* b_ready and r_ready of the manager in this cycle
  rsp,         \* the responses taken in the latest response cycle
  told,        \* history: every beat with the memory's answer to it
  overtaken    \* history: single writes that passed the single read on AR

offer   == <<ar, aw, w, nr, nw>>
request == <<rcnt, wcnt, rmeta, wmeta, sel, lock, forked>>
respond == <<done, collect, eccq, ready, rsp>>
vars == <<ar, aw, w, nr, nw, rcnt, wcnt, rmeta, wmeta, sel, lock, forked, buf, mem,
          ans, done, collect, eccq, ready, rsp, told, overtaken>>

NoBurst == [n |-> 0]
Channels == {"b", "r"}
Outputs == {"buf", "mem"}

Numbered(s, k, isWrite) ==
  [n |-> k, write |-> isWrite, len |-> s.len, addr |-> s.addr, size |-> s.size,
   qos |-> s.qos, atop |-> s.atop]

-----------------------------------------------------------------------------
(***************************************************************************)
(* Cutting bursts into beats.                                              *)
(***************************************************************************)
NumBytes(size) == 2 ^ size
Aligned(addr, size) == (addr \div NumBytes(size)) * NumBytes(size)

\* A beat: its burst (meta_t copies most of it), its place in the burst (not in
\* the code) and the fields that change from beat to beat.
FirstBeat(b, strb) ==
  [of |-> b, i |-> 0, addr |-> b.addr, last |-> b.len = 0, strb |-> strb]

\* Mutant: the last beat is flagged when no beat is left.
NextBeat_lastLate(meta, cnt, strb) ==
  [meta EXCEPT !.i = @ + 1, !.addr = @ + NumBytes(meta.of.size),
               !.last = cnt = 0, !.strb = strb]

\* The beat after meta when cnt beats of the burst are left.
NextBeat(meta, cnt, strb) ==
  [meta EXCEPT !.i = @ + 1, !.addr = @ + NumBytes(meta.of.size),
               !.last = cnt = 1, !.strb = strb]

\* The register once the beat was accepted: a burst goes on from the aligned
\* address.
Kept(beat) ==
  IF beat.i = 0 THEN [beat EXCEPT !.addr = Aligned(@, beat.of.size)] ELSE beat

\* Mutant: the first beat is counted as left, and a single one underflows.
LeftAfter_first(cnt, b) == (IF cnt > 0 THEN cnt ELSE b.len) - 1

\* The beats left once a beat was accepted; the first one takes burst b off its channel.
LeftAfter(cnt, b) == IF cnt > 0 THEN cnt - 1 ELSE b.len

RdValid == rcnt > 0 \/ ar # NoBurst
RdBeat == IF rcnt > 0 THEN NextBeat(rmeta, rcnt, {}) ELSE FirstBeat(ar, {})
WrValid == w # <<>> /\ (wcnt > 0 \/ aw # NoBurst)
WrBeat == IF wcnt > 0 THEN NextBeat(wmeta, wcnt, Head(w)) ELSE FirstBeat(aw, Head(w))

-----------------------------------------------------------------------------
(***************************************************************************)
(* Arbitration: meta_sel_d.                                                *)
(***************************************************************************)
\* Mutant: writes win where round robin should decide.
Contend_writesFirst ==
  IF WrBeat.of.qos # RdBeat.of.qos THEN WrBeat.of.qos > RdBeat.of.qos
  ELSE IF WrBeat.last /\ ~RdBeat.last THEN TRUE
  ELSE wcnt > 0 \/ rcnt = 0

\* Both are valid: QoS, then single writes before read bursts, then the burst
\* in progress, then round robin.
Contend ==
  IF WrBeat.of.qos # RdBeat.of.qos THEN WrBeat.of.qos > RdBeat.of.qos
  ELSE IF WrBeat.last /\ ~RdBeat.last THEN TRUE
  ELSE IF wcnt > 0 THEN TRUE
  ELSE IF rcnt > 0 THEN FALSE
  ELSE ~sel

\* Mutant: the arbiter looks again while a beat is stalled.
Select_unlocked ==
  IF WrValid /\ RdValid THEN Contend
  ELSE IF WrValid \/ RdValid THEN WrValid ELSE sel

Select ==
  IF lock THEN sel
  ELSE IF WrValid /\ RdValid THEN Contend
  ELSE IF WrValid \/ RdValid THEN WrValid ELSE sel

ArbValid == IF Select THEN WrValid ELSE RdValid
Meta == IF Select THEN WrBeat ELSE RdBeat

-----------------------------------------------------------------------------
(***************************************************************************)
(* Responses.                                                              *)
(***************************************************************************)
\* Mutant: the size is added, not two to the size.
SizeEnable_noShift(beat) ==
  LET offset == (beat.addr % (8 * NumBanks * BankBytes)) \div 8 IN
  {k \in Banks : (k + 1) * BankBytes > offset /\ k * BankBytes < offset + beat.of.size}

\* Banks whose error counts for a read, as the expression is parsed: the
\* offset is addr % DataWidth / 8 and the sum is formed before the shift.
SizeEnable(beat) ==
  LET offset == (beat.addr % (8 * NumBanks * BankBytes)) \div 8 IN
  {k \in Banks : /\ (k + 1) * BankBytes > offset
                 /\ k * BankBytes < (offset + 1) * NumBytes(beat.of.size)}

\* sel_b, sel_r: the channels a beat is answered on.
Owed(beat) ==
  (IF beat.of.write /\ beat.last THEN {"b"} ELSE {}) \cup
  (IF ~beat.of.write \/ beat.of.atop THEN {"r"} ELSE {})

Joined == buf # <<>> /\ ans # <<>>

\* Mutant: what the manager took already is offered again.
Offered_again == IF Joined THEN Owed(Head(buf)) ELSE {}

\* Mutant: valid waits for ready.
Offered_waiting == IF Joined /\ ready # {} THEN Owed(Head(buf)) \ done ELSE {}

\* The channels that are valid.
Offered == IF Joined THEN Owed(Head(buf)) \ done ELSE {}
\* sel_buf_valid && sel_buf_ready: the response leaves the buffers.
Handshake == Joined /\ Offered \subseteq ready

BErr == collect.err \/ Head(ans).err \cap Head(buf).strb # {}
BExok == collect.exok /\ Head(buf).strb \subseteq Head(ans).exok
\* axi_b_ecc_err_incr, behind the instance that carries the writes.
BEcc ==
  \/ eccq
  \/ Handshake /\ Head(buf).of.write /\ Head(ans).ecc \cap Head(buf).strb # {}

RespOf(err, exok) == IF err THEN "slverr" ELSE IF exok THEN "exokay" ELSE "okay"

B == [chan |-> "b", beat |-> Head(buf), resp |-> RespOf(BErr, BExok), ecc |-> BEcc]
R ==
  LET on == SizeEnable(Head(buf)) IN
  [chan |-> "r", beat |-> Head(buf),
   resp |-> RespOf(Head(ans).err \cap on # {}, on \subseteq Head(ans).exok),
   ecc |-> IF Head(buf).of.write THEN BEcc ELSE Head(ans).ecc \cap on # {}]

\* Mutant: the collected error survives the last beat.
NextCollect_kept == [err |-> BErr, exok |-> BExok]

NextCollect ==
  IF ~Head(buf).of.write THEN collect
  ELSE IF Head(buf).last THEN [err |-> FALSE, exok |-> TRUE]
  ELSE [err |-> BErr, exok |-> BExok]

-----------------------------------------------------------------------------
Init ==
  /\ ar = NoBurst /\ aw = NoBurst /\ w = <<>> /\ nr = 0 /\ nw = 0
  /\ rcnt = 0 /\ wcnt = 0 /\ rmeta = NoBurst /\ wmeta = NoBurst
  /\ sel = FALSE /\ lock = FALSE /\ forked = {}
  /\ buf = <<>> /\ mem = <<>> /\ ans = <<>>
  /\ done = {} /\ collect = [err |-> FALSE, exok |-> TRUE] /\ eccq = FALSE
  /\ ready \in SUBSET Channels /\ rsp = {} /\ told = {} /\ overtaken = 0

(***************************************************************************)
(* The AXI manager offers bursts and holds them until they are accepted.   *)
(* axi_to_obi has two adapters and sends one the reads, one the writes.    *)
(***************************************************************************)
OfferRead(s) ==
  /\ ar = NoBurst /\ nr < MaxReads
  /\ OneDirection => nw = 0
  /\ nr' = nr + 1
  /\ ar' = Numbered(s, nr + 1, FALSE)
  /\ overtaken' = 0
  /\ UNCHANGED <<aw, w, nw, request, buf, mem, ans, respond, told>>

OfferWrite(s) ==
  /\ aw = NoBurst /\ nw < MaxWrites
  /\ OneDirection => nr = 0
  /\ nw' = nw + 1
  /\ aw' = Numbered(s, nw + 1, TRUE)
  /\ UNCHANGED <<ar, w, nr, request, buf, mem, ans, respond, told, overtaken>>

OfferData(strb) ==
  /\ w = <<>> /\ (wcnt > 0 \/ aw # NoBurst)
  /\ wcnt = 0 /\ aw.atop => strb # {}
  /\ w' = <<strb>>
  /\ UNCHANGED <<ar, aw, nr, nw, request, buf, mem, ans, respond, told, overtaken>>

(***************************************************************************)
(* The request side.                                                       *)
(***************************************************************************)
\* Mutant: the buffer has no place for the beat that waits for the memory.
BufFree_one == buf = <<>>

\* The FIFOs behind the fork have BufDepth + 1 places.
BufFree == Len(buf) < BufDepth + 1
\* i_stream_to_mem has a place for the answer.
MemFree == Len(mem) + Len(ans) < BufDepth

\* The outputs of the fork that take the beat at this edge.
Taken(memGnt) ==
  (IF BufFree THEN {"buf"} ELSE {}) \cup (IF memGnt /\ MemFree THEN {"mem"} ELSE {})

\* A single write passes a single read that is its equal and ready to go.
Passed ==
  /\ rcnt = 0 /\ ar # NoBurst /\ wcnt = 0
  /\ ar.len = 0 /\ aw.len = 0 /\ ar.qos = aw.qos

\* The beat has gone to all outputs: its burst moves on.
Accept ==
  IF Select
  THEN /\ wcnt' = LeftAfter(wcnt, aw)
       /\ aw' = IF wcnt > 0 THEN aw ELSE NoBurst
       /\ wmeta' = Kept(Meta)
       /\ w' = <<>>
       /\ overtaken' = IF Passed THEN overtaken + 1 ELSE overtaken
       /\ UNCHANGED <<ar, rcnt, rmeta>>
  ELSE /\ rcnt' = LeftAfter(rcnt, ar)
       /\ ar' = IF rcnt > 0 THEN ar ELSE NoBurst
       /\ rmeta' = Kept(Meta)
       /\ overtaken' = IF rcnt > 0 THEN overtaken ELSE 0
       /\ UNCHANGED <<aw, w, wcnt, wmeta>>

RequestCycle(memGnt) ==
  LET taken == Taken(memGnt) \ forked IN
  /\ ArbValid
  /\ sel' = Select
  /\ buf' = IF "buf" \in taken THEN Append(buf, Meta) ELSE buf
  /\ mem' = IF "mem" \in taken THEN Append(mem, Meta) ELSE mem
  /\ IF forked \cup taken = Outputs
     THEN lock' = FALSE /\ forked' = {} /\ Accept
     ELSE /\ lock' = TRUE /\ forked' = forked \cup taken
          /\ UNCHANGED <<ar, aw, w, rcnt, wcnt, rmeta, wmeta, overtaken>>
  /\ UNCHANGED <<nr, nw, ans, respond, told>>

\* The memory answers its oldest beat.
MemAnswer(a) ==
  /\ mem # <<>>
  /\ ans' = Append(ans, a)
  /\ mem' = Tail(mem)
  /\ told' = told \cup {[beat |-> Head(mem), a |-> a]}
  /\ UNCHANGED <<offer, request, buf, respond, overtaken>>

(***************************************************************************)
(* The response side.                                                      *)
(***************************************************************************)
ResponseCycle ==
  /\ IF Handshake
     THEN /\ buf' = Tail(buf)
          /\ ans' = Tail(ans)
          /\ done' = {}
          /\ collect' = NextCollect
          /\ eccq' = IF Head(buf).of.write /\ Head(buf).last THEN FALSE ELSE BEcc
     ELSE /\ done' = done \cup (Offered \cap ready)
          /\ UNCHANGED <<buf, ans, collect, eccq>>
  /\ rsp' = (IF "b" \in Offered \cap ready THEN {B} ELSE {}) \cup
            (IF "r" \in Offered \cap ready THEN {R} ELSE {})
  /\ ready' \in SUBSET Channels
  /\ UNCHANGED <<offer, request, mem, told, overtaken>>

Next ==
  \/ \E s \in Reads : OfferRead(s)
  \/ \E s \in Writes : OfferWrite(s)
  \/ \E strb \in Strobes : OfferData(strb)
  \/ \E gnt \in BOOLEAN : RequestCycle(gnt)
  \/ \E a \in Answers : MemAnswer(a)
  \/ ResponseCycle

Spec == Init /\ [][Next]_vars

\* The adapter is clocked.  The manager sends the data of the writes it sent and
\* raises each ready again and again; the memory grants and answers.
Fairness ==
  /\ WF_vars(\E strb \in Strobes : OfferData(strb))
  /\ WF_vars(RequestCycle(TRUE))
  /\ WF_vars(\E a \in Answers : MemAnswer(a))
  /\ WF_vars(ResponseCycle /\ "b" \in ready')
  /\ WF_vars(ResponseCycle /\ "r" \in ready')
FairSpec == Spec /\ Fairness

-----------------------------------------------------------------------------
(***************************************************************************)
(* Properties.                                                             *)
(***************************************************************************)
Burst == [n : Nat \ {0}, write : BOOLEAN, len : Nat, addr : Nat, size : Nat,
          qos : Nat, atop : BOOLEAN]
BeatType == [of : Burst, i : Nat, addr : Nat, last : BOOLEAN, strb : SUBSET Banks]

\* Every variable has its type.
TypeOK ==
  /\ {ar, aw} \subseteq Burst \cup {NoBurst}
  /\ w \in {<<>>} \cup {<<strb>> : strb \in Strobes}
  /\ {nr, nw, rcnt, wcnt, overtaken} \subseteq Nat
  /\ {rmeta, wmeta} \subseteq BeatType \cup {NoBurst}
  /\ {sel, lock, eccq} \subseteq BOOLEAN
  /\ forked \subseteq Outputs /\ forked # Outputs
  /\ buf \in Seq(BeatType) /\ mem \in Seq(BeatType) /\ ans \in Seq(Answers)
  /\ done \subseteq Channels /\ ready \subseteq Channels
  /\ collect \in [err : BOOLEAN, exok : BOOLEAN]

\* Every answer of the memory meets the description of its own beat: the buffer
\* holds exactly the beats the memory has answered or still has, in order, and
\* at most the one beat that the memory has yet to take.  The fork never waits
\* for the buffer, which is what its one place more than BufDepth is for.
ForkInStep ==
  /\ forked \subseteq {"buf"}
  /\ Len(buf) = Len(ans) + Len(mem) + Cardinality(forked)
  /\ \A k \in 1..Len(mem) : mem[k] = buf[Len(ans) + k]

\* A beat that has gone into the buffer but not to the memory is still the one
\* the arbiter selects, whatever arrives on the other channel meanwhile.
ForkedBeatHeld == forked # {} => ArbValid /\ Meta = buf[Len(buf)]

\* The beats of a burst leave in order, at the burst's addresses, the last one
\* flagged; the next burst of the direction starts after that.
BurstBeats ==
  /\ \A k \in 1..Len(buf) :
       LET e == buf[k] IN
       /\ e.last <=> e.i = e.of.len
       /\ e.addr = IF e.i = 0 THEN e.of.addr
                   ELSE Aligned(e.of.addr, e.of.size) + e.i * NumBytes(e.of.size)
  /\ \A k \in 1..Len(buf), l \in 1..Len(buf) :
       LET e == buf[k]
           f == buf[l] IN
       k < l /\ e.of.write = f.of.write =>
         e.of.n < f.of.n \/ (e.of = f.of /\ e.i < f.i)

\* Round robin: of equal single requests, no more than one write passes a
\* waiting read.
SingleReadPassedOnce == overtaken <= 1

\* The banks a beat touches: those that overlap size bytes from addr on.
ActiveBanks(beat) ==
  LET addr == beat.addr % (NumBanks * BankBytes) IN
  {k \in Banks : /\ (k + 1) * BankBytes > addr
                 /\ k * BankBytes < addr + NumBytes(beat.of.size)}

ToldOf(x) == {t \in told : t.beat.of = x.beat.of}
ToldBeat(x) == {t \in told : t.beat = x.beat}

\* B comes once all beats of its burst were answered, and it reports an error
\* iff a bank that some beat wrote had one, exclusive success iff all had it.
\* The ECC faults of all beats are in the answer that ends the burst.
WriteFaultsReported ==
  \A x \in rsp : x.beat.of.write =>
    LET T == ToldOf(x)
        err == \E t \in T : t.a.err \cap t.beat.strb # {}
        exok == \A t \in T : t.beat.strb \subseteq t.a.exok
        ecc == \E t \in T : t.a.ecc \cap t.beat.strb # {} IN
    /\ x.chan = "b" => /\ Cardinality(T) = x.beat.of.len + 1
                       /\ x.resp = RespOf(err, exok)
    /\ x.beat.last /\ done = {} => x.ecc = ecc

\* An R beat reports the errors and ECC faults of the banks it is read from.
ReadFaultsReported ==
  \A x \in rsp : x.chan = "r" =>
    \A t \in ToldBeat(x) :
      LET on == ActiveBanks(x.beat) IN
      /\ x.resp = RespOf(t.a.err \cap on # {}, on \subseteq t.a.exok)
      /\ ~x.beat.of.write => x.ecc = (t.a.ecc \cap on # {})

\* A response that is offered stays until it is taken, with its resp field.
Waits(chan) == chan \in Offered /\ chan \notin ready
ResponsesHeld ==
  [][/\ Waits("b") => "b" \in Offered' /\ B'.resp = B.resp
     /\ Waits("r") => "r" \in Offered' /\ R'.resp = R.resp]_vars

\* B must remain stable until the handshake has happened, its user bits too.
BStable == [][Waits("b") => "b" \in Offered' /\ B' = B]_vars

\* The beats of accepted bursts that are not answered to their end: those that left the
\* arbiter for buf, and those that a burst in progress has yet to send there.
Left == Len(ans) + Len(mem)
Place(e) == [of |-> e.of, i |-> e.i, last |-> e.last]
ToGo(c, m) ==
  IF c = 0 THEN {}
  ELSE {[of |-> m.of, i |-> i, last |-> i = m.of.len] : i \in m.i + 1 .. m.of.len}
Unanswered ==
  {Place(buf[k]) : k \in 1 .. Left} \cup ToGo(rcnt, rmeta) \cup ToGo(wcnt, wmeta)

\* What the manager is owed for them.
Response(chan, e) == [chan |-> chan, of |-> e.of, i |-> e.i, last |-> e.last]
OwedFor(e) == {Response(c, e) : c \in Owed(e)}
Outstanding ==
  (UNION {OwedFor(e) : e \in Unanswered}) \ {Response(c, Head(buf)) : c \in done}

\* The adapter serves its port as AXI has it: every beat is answered once, in the order
\* of its direction, and a write only when its data is there.
Service == INSTANCE AxiService WITH
  Bursts <- Burst, data <- w # <<>>, unsent <- ToGo(wcnt, wmeta), owed <- Outstanding,
  rsp <- {Response(x.chan, x.beat) : x \in rsp}
ServesAxi == Service!ServiceSpec

\* Every burst that is offered is answered to its end.
EveryBurstAnswered ==
  /\ \A k \in 1..MaxReads : (ar # NoBurst /\ ar.n = k) ~>
       (\E x \in rsp : ~x.beat.of.write /\ x.beat.of.n = k /\ x.beat.last)
  /\ \A k \in 1..MaxWrites : (aw # NoBurst /\ aw.n = k) ~>
       (\E x \in rsp : x.beat.of.write /\ x.beat.of.n = k /\ x.chan = "b")
=============================================================================
