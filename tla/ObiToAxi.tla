------------------------------ MODULE ObiToAxi ------------------------------
(***************************************************************************)
(* obi_to_axi: the bridge through which the island reaches the AXI output  *)
(* port.  One OBI request becomes one AR beat, or one AW and one W beat    *)
(* that are handshaken independently; a FIFO of MaxRequests tags says      *)
(* which AXI response channels the oldest granted request waits for.       *)
(*                                                                         *)
(* One action is one handshake.  The bridge's FIFOs are not fall-through   *)
(* and their full and empty flags are registers, so a push and a pop of    *)
(* the same cycle are the two actions in either order.  The AXI            *)
(* subordinate is the environment: it keeps what it accepted, produces     *)
(* each response beat whenever it likes and holds it until it is taken.    *)
(***************************************************************************)
EXTENDS ObiService

CONSTANT
  OrderedR  \* the subordinate keeps atomics' R beats in order with reads'

AllMarks == {"err", "ecc", "exok"}

\* What the two beats of an atomic report can be reported together.
ASSUME ObiToAxiAssumption ==
  /\ OrderedR \in BOOLEAN
  /\ MarkSets \subseteq SUBSET AllMarks
  /\ \A b, r \in MarkSets : "exok" \notin b \cup r => b \cup r \in MarkSets

VARIABLES
  sent,     \* aw_sent_q, w_sent_q: the channels already handshaken
  fifo,     \* i_fifo_rsp_mux, i_fifo_rid and i_fifo_size, which move as one
  awq, wq, arq,  \* beats the subordinate accepted and has not finished
  half,     \* response channels the AMO at the head of awq was answered on
  bq, rq,   \* response beats on offer on the B and R channels
  verdict   \* history: <<n, mark>> of every mark put on a beat for request n

bridgeVars == <<sent, fifo>>
slaveVars  == <<awq, wq, arq, half, bq, rq, verdict>>
vars == <<req, count, granted, rsp, sent, fifo, awq, wq, arq, half, bq, rq, verdict>>

WriteChannels == {"aw", "w"}

-----------------------------------------------------------------------------
(***************************************************************************)
(* Combinational signals.                                                  *)
(***************************************************************************)
\* Mutant: one entry too many.
FifoFull_late == Len(fifo) > MaxRequests

FifoFull == Len(fifo) >= MaxRequests

\* Mutant: reads step aside while a B response is on offer.
ArValid_behindB == req # NoReq /\ ~We(req) /\ ~FifoFull /\ bq = <<>>

\* The AXI address and data valids of the request on the A channel.
ArValid == req # NoReq /\ ~We(req) /\ ~FifoFull
\* Mutant: a channel that was handshaken stays valid.
WriteValid_again ==
  IF req # NoReq /\ ~FifoFull /\ We(req) THEN WriteChannels ELSE {}

WriteValid ==
  IF req = NoReq \/ FifoFull THEN {}
  ELSE IF We(req) /\ sent # WriteChannels THEN WriteChannels \ sent ELSE {}

\* Mutant: the ID FIFO is fed from another field.
Tag_wrongId(r) == [atop |-> r.kind = "amo", we |-> We(r), rid |-> r.n, lane |-> r.lane]

\* The tag pushed on a grant: {|atop, we}, aid and the data offset.
Tag(r) == [atop |-> r.kind = "amo", we |-> We(r), rid |-> r.aid, lane |-> r.lane]

\* Mutant: an atomic's B is taken without waiting for its R.
BReady_alone == fifo # <<>> /\ Head(fifo).we

BReady ==
  /\ fifo # <<>>
  /\ IF Head(fifo).atop THEN rq # <<>> ELSE Head(fifo).we
\* Mutant: polarity of the selector.
RReady_onWrites == fifo # <<>> /\ Head(fifo).we

RReady ==
  /\ fifo # <<>>
  /\ IF Head(fifo).atop THEN bq # <<>> ELSE ~Head(fifo).we
TakesB == bq # <<>> /\ BReady
TakesR == rq # <<>> /\ RReady
RValid == TakesB \/ TakesR

\* Mutant: an atomic reports its B beat only.
RspMarks_bOnly(tag, b, r) == IF tag.we THEN b ELSE r

\* err and the ECC user bit of an atomic are those of either beat, its exokay
\* is B's; any other response takes all three from its own channel.
RspMarks(tag, b, r) ==
  IF tag.atop THEN ((b \cup r) \ {"exok"}) \cup (b \cap {"exok"})
  ELSE IF tag.we THEN b ELSE r

-----------------------------------------------------------------------------
Init ==
  /\ ServiceInit
  /\ sent = {} /\ fifo = <<>>
  /\ awq = <<>> /\ wq = <<>> /\ arq = <<>> /\ half = {}
  /\ bq = <<>> /\ rq = <<>> /\ verdict = {}

\* A manager raises req; the bridge's inputs stay as they are until gnt.
ObiRequest(k, a, l) ==
  /\ Present(k, a, l)
  /\ UNCHANGED bridgeVars
  /\ UNCHANGED slaveVars

\* gnt: the request leaves the A channel and its tag enters the FIFOs.
Grant ==
  /\ fifo' = Append(fifo, Tag(req))
  /\ granted' = Append(granted, req)
  /\ req' = NoReq

\* The AR handshake, which is also the grant.
SendRead ==
  /\ ArValid
  /\ arq' = Append(arq, req)
  /\ Grant
  /\ UNCHANGED <<count, rsp, sent, awq, wq, half, bq, rq, verdict>>

\* Mutant: the flags are not cleared by the grant.
NextSent_kept(done) == done

\* sent_d once the channels in done have been handshaken; the last arm of the
\* case statement (both flags set) falls back to idle as well.
NextSent(done) == IF done = WriteChannels THEN {} ELSE done

\* A cycle in which the subordinate's ready channels take what is valid.
SendWrite(ready) ==
  LET taken == WriteValid \cap ready IN
  /\ req # NoReq /\ We(req) /\ ~FifoFull
  /\ taken # {} \/ sent = WriteChannels
  /\ awq' = IF "aw" \in taken THEN Append(awq, req) ELSE awq
  /\ wq'  = IF "w" \in taken THEN Append(wq, req) ELSE wq
  /\ sent' = NextSent(sent \cup taken)
  /\ IF taken # {} /\ sent \cup taken = WriteChannels
     THEN Grant
     ELSE UNCHANGED <<fifo, granted, req>>
  /\ UNCHANGED <<count, rsp, arq, half, bq, rq, verdict>>

\* rvalid: the response goes out with the oldest tag, which is popped.
Respond ==
  LET tag == Head(fifo) IN
  /\ RValid
  /\ rsp' = [rid |-> tag.rid, lane |-> tag.lane,
             b |-> IF TakesB THEN Head(bq).n ELSE 0,
             r |-> IF TakesR THEN Head(rq).n ELSE 0,
             marks |-> RspMarks(tag, IF TakesB THEN Head(bq).marks ELSE {},
                                     IF TakesR THEN Head(rq).marks ELSE {})]
  /\ fifo' = Tail(fifo)
  /\ granted' = Tail(granted)
  /\ bq' = IF TakesB THEN Tail(bq) ELSE bq
  /\ rq' = IF TakesR THEN Tail(rq) ELSE rq
  /\ UNCHANGED <<req, count, sent, awq, wq, arq, half, verdict>>

-----------------------------------------------------------------------------
(***************************************************************************)
(* The AXI subordinate.  All beats carry the one ID the bridge uses, so B  *)
(* beats follow the AW order and reads' R beats the AR order.              *)
(***************************************************************************)
Beat(r, m) == [n |-> r.n, marks |-> m]
Verdicts(r, m) == {<<r.n, x>> : x \in m}

\* Only an exclusive access may be answered EXOKAY.
MarksFor(r) ==
  IF r.kind \in {"lr", "sc"} THEN MarkSets ELSE {m \in MarkSets : "exok" \notin m}

\* The accepted AMOs that still owe their R beat.
AmosOwingR ==
  {awq[i] : i \in {j \in 1..Len(awq) :
      awq[j].kind = "amo" /\ ~(j = 1 /\ "r" \in half)}}
OlderThan(r, S) == {s \in S : s.n < r.n}

SlaveRead(m) ==
  /\ arq # <<>>
  /\ LET r == Head(arq) IN
     /\ m \in MarksFor(r)
     /\ OrderedR => OlderThan(r, AmosOwingR) = {}
     /\ rq' = Append(rq, Beat(r, m))
     /\ verdict' = verdict \cup Verdicts(r, m)
  /\ arq' = Tail(arq)
  /\ UNCHANGED <<req, count, granted, rsp, sent, fifo, awq, wq, half, bq>>

SlaveWrite(m) ==
  /\ awq # <<>> /\ wq # <<>>
  /\ LET r == Head(awq) IN
     /\ r.kind # "amo"
     /\ m \in MarksFor(r)
     /\ bq' = Append(bq, Beat(r, m))
     /\ verdict' = verdict \cup Verdicts(r, m)
  /\ awq' = Tail(awq)
  /\ wq' = Tail(wq)
  /\ UNCHANGED <<req, count, granted, rsp, sent, fifo, arq, half, rq>>

\* An AMO is answered on B and on R, in either order.
SlaveAmo(c, m) ==
  /\ awq # <<>> /\ wq # <<>>
  /\ c \notin half
  /\ LET r == Head(awq) IN
     /\ r.kind = "amo"
     /\ m \in MarksFor(r)
     /\ OrderedR /\ c = "r" => OlderThan(r, {arq[i] : i \in 1..Len(arq)}) = {}
     /\ bq' = IF c = "b" THEN Append(bq, Beat(r, m)) ELSE bq
     /\ rq' = IF c = "r" THEN Append(rq, Beat(r, m)) ELSE rq
     /\ verdict' = verdict \cup Verdicts(r, m)
  /\ IF half = {}
     THEN half' = {c} /\ UNCHANGED <<awq, wq>>
     ELSE half' = {} /\ awq' = Tail(awq) /\ wq' = Tail(wq)
  /\ UNCHANGED <<req, count, granted, rsp, sent, fifo, arq>>

Slave ==
  \E m \in MarkSets :
    SlaveRead(m) \/ SlaveWrite(m) \/ \E c \in {"b", "r"} : SlaveAmo(c, m)

Write == \E ready \in SUBSET WriteChannels : SendWrite(ready)

Next ==
  \/ \E k \in Kinds, a \in Aids, l \in Lanes : ObiRequest(k, a, l)
  \/ SendRead
  \/ Write
  \/ Respond
  \/ \E m \in MarkSets : SlaveRead(m)
  \/ \E m \in MarkSets : SlaveWrite(m)
  \/ \E m \in MarkSets, c \in {"b", "r"} : SlaveAmo(c, m)

Spec == Init /\ [][Next]_vars

\* An AXI subordinate takes what it is offered and answers what it took in
\* bounded time; the bridge is clocked.  The managers may stop at any time.
Fairness == WF_vars(SendRead) /\ WF_vars(Write) /\ WF_vars(Respond) /\ WF_vars(Slave)
FairSpec == Spec /\ Fairness

-----------------------------------------------------------------------------
(***************************************************************************)
(* Properties.                                                             *)
(***************************************************************************)
BeatType == [n : Nat, marks : MarkSets]

\* Every variable has its type.
TypeOK ==
  /\ count \in Nat
  /\ req \in Request \cup {NoReq}
  /\ sent \subseteq WriteChannels
  /\ fifo \in Seq([atop : BOOLEAN, we : BOOLEAN, rid : Aids, lane : Lanes])
  /\ granted \in Seq(Request)
  /\ awq \in Seq(Request) /\ wq \in Seq(Request) /\ arq \in Seq(Request)
  /\ half \subseteq {"b", "r"}
  /\ bq \in Seq(BeatType) /\ rq \in Seq(BeatType)

\* Never more than MaxRequests granted requests wait for their answer, and the
\* tags in the FIFOs are those of exactly these requests, in order: obi_to_axi
\* pushes and pops its FIFOs without looking at two of the three full flags.
TagsMatchGrants ==
  /\ Len(granted) = Len(fifo)
  /\ Len(fifo) <= MaxRequests
  /\ \A i \in 1..Len(fifo) : fifo[i] = Tag(granted[i])

\* The address and the data of a write pair up however the two channels are
\* delayed: the beats the subordinate holds belong to the same requests, but
\* for the one beat that is ahead while a write is half sent.
WriteBeatsPair ==
  /\ sent = {} => awq = wq
  /\ sent = {"aw"} => awq = Append(wq, req)
  /\ sent = {"w"} => wq = Append(awq, req)

\* A half-sent write is still on the A channel and has a place in the response
\* FIFO, so that its missing beat stays valid and its grant cannot be lost; the
\* "both sent" state of the case statement is never entered.
HalfSentHoldsPlace ==
  sent # {} => req # NoReq /\ We(req) /\ ~FifoFull /\ sent # WriteChannels

\* AXI valids are not withdrawn, nor their payload changed, before the
\* handshake: AR, AW and W stay offered until the beat is accepted.
Held(valid, queue) == valid => queue' = Append(queue, req) \/ (valid' /\ req' = req)
ValidsStable ==
  [][/\ Held(ArValid, arq)
     /\ Held("aw" \in WriteValid, awq)
     /\ Held("w" \in WriteValid, wq)]_vars

\* A response reports exactly the errors, the ECC faults and the exclusive
\* success that the subordinate put on the beats of the request it answers.
\* For an atomic this needs both of its beats.
FaultsReported ==
  [][rsp' # rsp =>
       LET n == IF rsp'.b # 0 THEN rsp'.b ELSE rsp'.r IN
       rsp'.marks = {x \in AllMarks : <<n, x>> \in verdict}]_vars

\* The bridge implements an in-order OBI subordinate: one grant and one answer
\* per request, with its own ID, lane and beats.
Service == INSTANCE ObiService WITH req <- req, count <- count, granted <- granted, rsp <- rsp
InOrderService == Service!ServiceSpec

\* Every request on the A channel is eventually granted and answered.
Answered(n) == n \in {rsp.b, rsp.r}
EveryRequestAnswered ==
  \A n \in 1..MaxPresented : (req # NoReq /\ req.n = n) ~> Answered(n)
=============================================================================
