--------------------------- MODULE ObiToAxi_proofs --------------------------
(***************************************************************************)
(* Proofs about obi_to_axi for every depth of its response FIFO, every set *)
(* of kinds, IDs, lanes and marks, and every number of requests.           *)
(*                                                                         *)
(* First its registers and handshakes, whatever the subordinate does; then *)
(* that it is an in-order OBI subordinate, and reports the faults of the   *)
(* request it answers and no others, if the AXI subordinate keeps the read *)
(* data of atomics and of reads in the order of their requests.            *)
(***************************************************************************)
EXTENDS ObiToAxi, SequenceTheorems, TLAPS

TagType == [atop : BOOLEAN, we : BOOLEAN, rid : Aids, lane : Lanes]

\* The inductive invariant of the bridge and its subordinate.
IInv == TypeOK /\ TagsMatchGrants /\ WriteBeatsPair /\ HalfSentHoldsPlace

-----------------------------------------------------------------------------
(***************************************************************************)
(* Lemmas about queues, requests and tags.                                 *)
(***************************************************************************)

\* Queues keep their type when an element enters or leaves.
LEMMA QueueType ==
  ASSUME NEW S, NEW s \in Seq(S)
  PROVE  /\ Len(s) \in Nat
         /\ <<>> \in Seq(S)
         /\ \A e \in S : Append(s, e) \in Seq(S)
         /\ s # <<>> => Head(s) \in S /\ Tail(s) \in Seq(S)
BY EmptySeq, LenProperties, AppendProperties, HeadTailProperties

\* The tag of a request has the type of the FIFO entries, and a presented
\* request is a request.
LEMMA TagOfRequest == \A r \in Request : Tag(r) \in TagType
BY DEF Request, Tag, We, TagType

LEMMA PresentedRequest ==
  ASSUME TypeOK, req # NoReq
  PROVE  req \in Request
BY DEF TypeOK

\* Only one beat of a write is missing when it is half sent.
LEMMA SentCases ==
  ASSUME sent \subseteq WriteChannels
  PROVE  sent \in {{}, {"aw"}, {"w"}, WriteChannels}
BY DEF WriteChannels

-----------------------------------------------------------------------------
(***************************************************************************)
(* The initial states.                                                     *)
(***************************************************************************)
LEMMA InitIInv == Init => IInv
<1> SUFFICES ASSUME Init PROVE IInv
  OBVIOUS
<1> USE DEF Init, ServiceInit
<1>1. TypeOK
  BY EmptySeq DEF TypeOK, NoReq
<1>2. TagsMatchGrants
  BY EmptySeq, ObiServiceAssumption DEF TagsMatchGrants
<1>3. WriteBeatsPair /\ HalfSentHoldsPlace
  BY DEF WriteBeatsPair, HalfSentHoldsPlace
<1>4. QED
  BY <1>1, <1>2, <1>3 DEF IInv

-----------------------------------------------------------------------------
(***************************************************************************)
(* One lemma per action.                                                   *)
(***************************************************************************)
LEMMA RequestStep ==
  ASSUME IInv, NEW k \in Kinds, NEW a \in Aids, NEW l \in Lanes, ObiRequest(k, a, l)
  PROVE  IInv'
<1> USE DEF ObiRequest, Present, bridgeVars, slaveVars
<1>1. sent = {}
  BY DEF IInv, HalfSentHoldsPlace
<1>2. TypeOK'
  BY DEF IInv, TypeOK, Request
<1>3. TagsMatchGrants'
  BY DEF IInv, TagsMatchGrants
<1>4. WriteBeatsPair' /\ HalfSentHoldsPlace'
  BY <1>1 DEF IInv, WriteBeatsPair, HalfSentHoldsPlace
<1>5. QED
  BY <1>2, <1>3, <1>4 DEF IInv

\* A grant moves the request from the A channel to the end of the FIFOs.
LEMMA GrantStep ==
  ASSUME IInv, req # NoReq, ~FifoFull, Grant
  PROVE  /\ TagsMatchGrants'
         /\ fifo' \in Seq(TagType) /\ granted' \in Seq(Request)
         /\ req' \in Request \cup {NoReq}
<1>1. req \in Request /\ Tag(req) \in TagType
  BY PresentedRequest, TagOfRequest DEF IInv
<1>2. fifo \in Seq(TagType) /\ granted \in Seq(Request)
  BY DEF IInv, TypeOK, TagType
<1>3. fifo' \in Seq(TagType) /\ granted' \in Seq(Request) /\ req' \in Request \cup {NoReq}
  BY <1>1, <1>2, AppendProperties DEF Grant
<1>4. Len(fifo') = Len(fifo) + 1 /\ Len(granted') = Len(granted) + 1
  BY <1>1, <1>2, AppendProperties DEF Grant
<1>5. Len(fifo) \in Nat /\ Len(granted) = Len(fifo) /\ Len(fifo) < MaxRequests
  BY <1>2, LenProperties, ObiServiceAssumption DEF IInv, TagsMatchGrants, FifoFull
<1>6. ASSUME NEW i \in 1..Len(fifo')
      PROVE  fifo'[i] = Tag(granted'[i])
  <2>1. CASE i \in 1..Len(fifo)
    <3>1. fifo'[i] = fifo[i] /\ granted'[i] = granted[i]
      BY <1>1, <1>2, <1>5, <2>1, AppendProperties DEF Grant
    <3>2. QED  BY <3>1, <2>1 DEF IInv, TagsMatchGrants
  <2>2. CASE i = Len(fifo) + 1
    BY <1>1, <1>2, <1>5, <2>2, AppendProperties DEF Grant
  <2>3. QED
    BY <1>4, <1>5, <1>6, <2>1, <2>2
<1>7. TagsMatchGrants'
  BY <1>4, <1>5, <1>6, ObiServiceAssumption DEF TagsMatchGrants, Tag, We
<1>8. QED
  BY <1>3, <1>7

LEMMA SendReadStep ==
  ASSUME IInv, SendRead
  PROVE  IInv'
<1>1. req \in Request /\ ~FifoFull /\ ~We(req) /\ req # NoReq
  BY PresentedRequest DEF IInv, SendRead, ArValid
<1>2. sent = {}
  BY <1>1 DEF IInv, HalfSentHoldsPlace
<1>3. Grant
  BY DEF SendRead
<1>4. TypeOK'
  <2>1. arq' \in Seq(Request)
    BY <1>1, AppendProperties DEF IInv, TypeOK, SendRead
  <2>2. QED
    BY <2>1, <1>1, <1>3, GrantStep DEF IInv, TypeOK, SendRead, TagType
<1>5. TagsMatchGrants'
  BY <1>1, <1>3, GrantStep
<1>6. WriteBeatsPair' /\ HalfSentHoldsPlace'
  BY <1>2 DEF IInv, WriteBeatsPair, HalfSentHoldsPlace, SendRead
<1>7. QED
  BY <1>4, <1>5, <1>6 DEF IInv

\* The beats that leave in one cycle, by the beats that have left before it.
LEMMA WriteTaken ==
  ASSUME IInv, NEW ready \in SUBSET WriteChannels, SendWrite(ready)
  PROVE  /\ req \in Request /\ req # NoReq /\ We(req) /\ ~FifoFull
         /\ WriteValid = WriteChannels \ sent
         /\ sent \in {{}, {"aw"}, {"w"}}
         /\ WriteValid \cap ready # {}
<1>1. req \in Request /\ req # NoReq /\ We(req) /\ ~FifoFull
  BY PresentedRequest DEF IInv, SendWrite
<1>2. sent \in {{}, {"aw"}, {"w"}}
  BY SentCases DEF IInv, TypeOK, HalfSentHoldsPlace
<1>3. sent # WriteChannels
  BY <1>2 DEF WriteChannels
<1>4. QED
  BY <1>1, <1>2, <1>3 DEF WriteValid, SendWrite

LEMMA SendWriteStep ==
  ASSUME IInv, NEW ready \in SUBSET WriteChannels, SendWrite(ready)
  PROVE  IInv'
<1> DEFINE taken == WriteValid \cap ready
           done == sent \cup taken
<1>1. /\ req \in Request /\ req # NoReq /\ We(req) /\ ~FifoFull
      /\ sent \in {{}, {"aw"}, {"w"}}
      /\ taken # {} /\ taken \subseteq WriteChannels \ sent
  BY WriteTaken
<1>2. /\ awq' = (IF "aw" \in taken THEN Append(awq, req) ELSE awq)
      /\ wq' = (IF "w" \in taken THEN Append(wq, req) ELSE wq)
      /\ sent' = (IF done = WriteChannels THEN {} ELSE done)
      /\ IF done = WriteChannels THEN Grant ELSE UNCHANGED <<fifo, granted, req>>
      /\ UNCHANGED <<count, rsp, arq, half, bq, rq, verdict>>
  BY <1>1 DEF SendWrite, NextSent
<1>3. done \in {{"aw"}, {"w"}, WriteChannels}
  BY <1>1 DEF WriteChannels
<1>4. awq' \in Seq(Request) /\ wq' \in Seq(Request)
  BY <1>1, <1>2, AppendProperties DEF IInv, TypeOK
<1>5. TagsMatchGrants' /\ fifo' \in Seq(TagType) /\ granted' \in Seq(Request)
      /\ req' \in Request \cup {NoReq}
  <2>1. CASE done = WriteChannels
    BY <1>1, <1>2, <2>1, GrantStep
  <2>2. CASE done # WriteChannels
    BY <1>1, <1>2, <2>2 DEF IInv, TypeOK, TagsMatchGrants, TagType
  <2>3. QED  BY <2>1, <2>2
<1>6. TypeOK'
  BY <1>2, <1>3, <1>4, <1>5 DEF IInv, TypeOK, TagType, WriteChannels
<1>7. WriteBeatsPair'
  <2>1. CASE sent = {}
    BY <1>1, <1>2, <2>1 DEF IInv, WriteBeatsPair, WriteChannels
  <2>2. CASE sent = {"aw"}
    BY <1>1, <1>2, <2>2 DEF IInv, WriteBeatsPair, WriteChannels
  <2>3. CASE sent = {"w"}
    BY <1>1, <1>2, <2>3 DEF IInv, WriteBeatsPair, WriteChannels
  <2>4. QED  BY <1>1, <2>1, <2>2, <2>3
<1>8. HalfSentHoldsPlace'
  <2>1. CASE done = WriteChannels
    BY <1>2, <2>1 DEF HalfSentHoldsPlace
  <2>2. CASE done # WriteChannels
    BY <1>1, <1>2, <1>3, <2>2 DEF HalfSentHoldsPlace, FifoFull, We
  <2>3. QED  BY <2>1, <2>2
<1>9. QED
  BY <1>5, <1>6, <1>7, <1>8 DEF IInv

\* A response pops the tag and the grant it belongs to.
LEMMA RespondStep ==
  ASSUME IInv, Respond
  PROVE  IInv'
<1>1. fifo # <<>>
  BY DEF Respond, RValid, TakesB, TakesR, BReady, RReady
<1>2. fifo \in Seq(TagType) /\ granted \in Seq(Request) /\ Len(granted) = Len(fifo)
  BY DEF IInv, TypeOK, TagsMatchGrants, TagType
<1>3. granted # <<>>
  BY <1>1, <1>2, EmptySeq
<1>4. fifo' = Tail(fifo) /\ granted' = Tail(granted)
  BY DEF Respond
<1>5. fifo' \in Seq(TagType) /\ granted' \in Seq(Request)
  BY <1>1, <1>2, <1>3, <1>4, QueueType
<1>6. Len(fifo') = Len(fifo) - 1 /\ Len(granted') = Len(granted) - 1
  BY <1>1, <1>2, <1>3, <1>4, HeadTailProperties
<1>7. bq' \in Seq(BeatType) /\ rq' \in Seq(BeatType)
  BY QueueType DEF IInv, TypeOK, Respond, TakesB, TakesR
<1>8. TypeOK'
  BY <1>5, <1>7 DEF IInv, TypeOK, Respond, TagType
<1>9. TagsMatchGrants'
  <2>1. Len(fifo) \in Nat /\ Len(fifo) <= MaxRequests
    BY <1>2, LenProperties DEF IInv, TagsMatchGrants
  <2>2. ASSUME NEW i \in 1..Len(fifo')
        PROVE  fifo'[i] = Tag(granted'[i])
    <3>1. fifo'[i] = fifo[i + 1] /\ granted'[i] = granted[i + 1]
      BY <1>1, <1>2, <1>3, <1>4, <1>6, HeadTailProperties
    <3>2. i + 1 \in 1..Len(fifo)
      BY <1>6, <2>1
    <3>3. QED  BY <3>1, <3>2 DEF IInv, TagsMatchGrants
  <2>3. Len(granted') = Len(fifo') /\ Len(fifo') <= MaxRequests
    BY <1>2, <1>6, <2>1, ObiServiceAssumption
  <2>4. \A i \in 1..Len(fifo') : fifo'[i] = Tag(granted'[i])
    BY <2>2
  <2>5. QED
    BY <2>3, <2>4 DEF TagsMatchGrants, Tag, We
<1>10. WriteBeatsPair'
  BY DEF IInv, WriteBeatsPair, Respond
<1>11. HalfSentHoldsPlace'
  BY <1>2, <1>6, LenProperties, ObiServiceAssumption
     DEF IInv, HalfSentHoldsPlace, Respond, FifoFull, We
<1>12. QED
  BY <1>8, <1>9, <1>10, <1>11 DEF IInv

-----------------------------------------------------------------------------
(***************************************************************************)
(* The subordinate's steps.                                                *)
(***************************************************************************)

\* Taking the AW and the W beat of the oldest write leaves the pairing alone.
LEMMA PopPair ==
  ASSUME IInv, awq # <<>>, wq # <<>>,
         awq' = Tail(awq), wq' = Tail(wq), UNCHANGED <<sent, req>>
  PROVE  WriteBeatsPair' /\ awq' \in Seq(Request) /\ wq' \in Seq(Request)
<1>1. awq \in Seq(Request) /\ wq \in Seq(Request)
  BY DEF IInv, TypeOK
<1>2. awq' \in Seq(Request) /\ wq' \in Seq(Request)
  BY <1>1, QueueType
<1>3. \A q \in Seq(Request) : q # <<>> => Tail(Append(q, req)) = Append(Tail(q), req)
  BY HeadTailAppend
<1>4. QED
  BY <1>1, <1>2, <1>3 DEF IInv, WriteBeatsPair

\* Steps that touch neither the bridge nor the A channel keep the other parts.
LEMMA SlaveFrame ==
  ASSUME IInv, UNCHANGED <<req, granted, sent, fifo>>
  PROVE  TagsMatchGrants' /\ HalfSentHoldsPlace'
BY DEF IInv, TagsMatchGrants, HalfSentHoldsPlace, FifoFull, We, Tag

LEMMA BeatOfRequest == \A r \in Request, m \in MarkSets : Beat(r, m) \in BeatType
BY DEF Request, Beat, BeatType

LEMMA SlaveReadStep ==
  ASSUME IInv, NEW m \in MarkSets, SlaveRead(m)
  PROVE  IInv'
<1>1. Head(arq) \in Request /\ arq' \in Seq(Request)
  BY QueueType DEF IInv, TypeOK, SlaveRead
<1>2. rq' \in Seq(BeatType)
  BY <1>1, BeatOfRequest, QueueType DEF IInv, TypeOK, SlaveRead
<1>3. TypeOK'
  BY <1>1, <1>2 DEF IInv, TypeOK, SlaveRead
<1>4. WriteBeatsPair'
  BY DEF IInv, WriteBeatsPair, SlaveRead
<1>5. QED
  BY <1>3, <1>4, SlaveFrame DEF IInv, SlaveRead

LEMMA SlaveWriteStep ==
  ASSUME IInv, NEW m \in MarkSets, SlaveWrite(m)
  PROVE  IInv'
<1>1. Head(awq) \in Request
  BY QueueType DEF IInv, TypeOK, SlaveWrite
<1>2. bq' \in Seq(BeatType)
  BY <1>1, BeatOfRequest, QueueType DEF IInv, TypeOK, SlaveWrite
<1>3. WriteBeatsPair' /\ awq' \in Seq(Request) /\ wq' \in Seq(Request)
  BY PopPair DEF SlaveWrite
<1>4. TypeOK'
  BY <1>2, <1>3 DEF IInv, TypeOK, SlaveWrite
<1>5. QED
  BY <1>3, <1>4, SlaveFrame DEF IInv, SlaveWrite

LEMMA SlaveAmoStep ==
  ASSUME IInv, NEW m \in MarkSets, NEW c \in {"b", "r"}, SlaveAmo(c, m)
  PROVE  IInv'
<1>1. Head(awq) \in Request
  BY QueueType DEF IInv, TypeOK, SlaveAmo
<1>2. bq' \in Seq(BeatType) /\ rq' \in Seq(BeatType)
  BY <1>1, BeatOfRequest, QueueType DEF IInv, TypeOK, SlaveAmo
<1>3. WriteBeatsPair' /\ awq' \in Seq(Request) /\ wq' \in Seq(Request)
  <2>1. CASE half = {}
    BY <2>1 DEF IInv, TypeOK, WriteBeatsPair, SlaveAmo
  <2>2. CASE half # {}
    BY <2>2, PopPair DEF SlaveAmo
  <2>3. QED  BY <2>1, <2>2
<1>4. TypeOK'
  BY <1>2, <1>3 DEF IInv, TypeOK, SlaveAmo
<1>5. QED
  BY <1>3, <1>4, SlaveFrame DEF IInv, SlaveAmo

-----------------------------------------------------------------------------
LEMMA StutterStep ==
  ASSUME IInv, UNCHANGED vars
  PROVE  IInv'
BY DEF IInv, vars, TypeOK, TagsMatchGrants, WriteBeatsPair, HalfSentHoldsPlace,
       FifoFull, We, Tag

LEMMA NextIInv == IInv /\ [Next]_vars => IInv'
<1> SUFFICES ASSUME IInv, [Next]_vars PROVE IInv'
  OBVIOUS
<1>1. CASE \E k \in Kinds, a \in Aids, l \in Lanes : ObiRequest(k, a, l)
  BY <1>1, RequestStep
<1>2. CASE SendRead
  BY <1>2, SendReadStep
<1>3. CASE Write
  BY <1>3, SendWriteStep DEF Write
<1>4. CASE Respond
  BY <1>4, RespondStep
<1>5. CASE \E m \in MarkSets : SlaveRead(m)
  BY <1>5, SlaveReadStep
<1>6. CASE \E m \in MarkSets : SlaveWrite(m)
  BY <1>6, SlaveWriteStep
<1>7. CASE \E m \in MarkSets, c \in {"b", "r"} : SlaveAmo(c, m)
  BY <1>7, SlaveAmoStep
<1>8. CASE UNCHANGED vars
  BY <1>8, StutterStep
<1>9. QED
  BY <1>1, <1>2, <1>3, <1>4, <1>5, <1>6, <1>7, <1>8 DEF Next

-----------------------------------------------------------------------------
(***************************************************************************)
(* The theorems.                                                           *)
(***************************************************************************)

\* The inductive invariant holds in every reachable state.
THEOREM Inductive == Spec => []IInv
BY InitIInv, NextIInv, PTL DEF Spec

\* Type correctness of the bridge, its FIFOs and its subordinate.
THEOREM TypeCorrect == Spec => []TypeOK
<1>1. IInv => TypeOK
  BY DEF IInv
<1>2. QED
  BY <1>1, Inductive, PTL

\* The tags in the response FIFOs are those of the granted and unanswered
\* requests, of which there are never more than MaxRequests.
THEOREM OutstandingBounded == Spec => []TagsMatchGrants
<1>1. IInv => TagsMatchGrants
  BY DEF IInv
<1>2. QED
  BY <1>1, Inductive, PTL

\* The address and the data beat of every write leave exactly once and in the
\* same order, however the two channels are delayed.
THEOREM WriteBeatsStayPaired == Spec => []WriteBeatsPair
<1>1. IInv => WriteBeatsPair
  BY DEF IInv
<1>2. QED
  BY <1>1, Inductive, PTL

\* A half-sent write keeps its request and its place in the response FIFO.
THEOREM HalfSentSafe == Spec => []HalfSentHoldsPlace
<1>1. IInv => HalfSentHoldsPlace
  BY DEF IInv
<1>2. QED
  BY <1>1, Inductive, PTL

\* The bridge never withdraws or changes an AXI beat it offers.
THEOREM HandshakesStable == Spec => ValidsStable
<1> DEFINE Stable == /\ Held(ArValid, arq)
                     /\ Held("aw" \in WriteValid, awq)
                     /\ Held("w" \in WriteValid, wq)
<1>1. IInv /\ [Next]_vars => [Stable]_vars
  <2> SUFFICES ASSUME IInv, Next PROVE Stable
    OBVIOUS
  <2>1. CASE \E k \in Kinds, a \in Aids, l \in Lanes : ObiRequest(k, a, l)
    BY <2>1 DEF ObiRequest, Present, ArValid, WriteValid, Held
  <2>2. CASE SendRead
    BY <2>2 DEF SendRead, ArValid, WriteValid, Held
  <2>3. CASE Write
    <3>1. PICK ready \in SUBSET WriteChannels : SendWrite(ready)
      BY <2>3 DEF Write
    <3> DEFINE taken == WriteValid \cap ready
    <3>2. /\ req # NoReq /\ We(req) /\ ~FifoFull /\ taken # {}
          /\ WriteValid = WriteChannels \ sent
          /\ sent \in {{}, {"aw"}, {"w"}}
      BY <3>1, WriteTaken
    <3>3. "aw" \in taken => awq' = Append(awq, req)
      BY <3>1 DEF SendWrite
    <3>4. "w" \in taken => wq' = Append(wq, req)
      BY <3>1 DEF SendWrite
    <3>5. sent \cup taken # WriteChannels =>
            req' = req /\ fifo' = fifo /\ sent' = sent \cup taken
      BY <3>1, <3>2 DEF SendWrite, NextSent
    <3>6. ~ArValid
      BY <3>2 DEF ArValid
    <3>7. ASSUME NEW c \in WriteValid, c \notin taken, sent \cup taken # WriteChannels
          PROVE  c \in WriteValid' /\ req' = req
      BY <3>2, <3>5, <3>7 DEF WriteValid, FifoFull, We, WriteChannels
    <3>8. ASSUME NEW c \in WriteValid, c \notin taken
          PROVE  sent \cup taken # WriteChannels
      BY <3>2, <3>8 DEF WriteChannels
    <3>9. QED
      BY <3>3, <3>4, <3>6, <3>7, <3>8 DEF Held
  <2>4. CASE Respond
    <3>1. fifo # <<>> /\ fifo' = Tail(fifo) /\ UNCHANGED <<req, sent>>
      BY <2>4 DEF Respond, RValid, TakesB, TakesR, BReady, RReady
    <3>2. ~FifoFull => ~FifoFull'
      BY <3>1, HeadTailProperties, LenProperties, ObiServiceAssumption
         DEF IInv, TypeOK, FifoFull
    <3>3. QED
      BY <3>1, <3>2 DEF ArValid, WriteValid, Held, We
  <2>5. CASE \E m \in MarkSets : SlaveRead(m)
    BY <2>5 DEF SlaveRead, ArValid, WriteValid, Held, FifoFull, We
  <2>6. CASE \E m \in MarkSets : SlaveWrite(m)
    BY <2>6 DEF SlaveWrite, ArValid, WriteValid, Held, FifoFull, We
  <2>7. CASE \E m \in MarkSets, c \in {"b", "r"} : SlaveAmo(c, m)
    BY <2>7 DEF SlaveAmo, ArValid, WriteValid, Held, FifoFull, We
  <2>8. QED
    BY <2>1, <2>2, <2>3, <2>4, <2>5, <2>6, <2>7 DEF Next
<1>2. QED
  BY <1>1, Inductive, PTL DEF Spec, ValidsStable

-----------------------------------------------------------------------------
(***************************************************************************)
(* Queues that are sorted by serial numbers, as sets of their elements.    *)
(***************************************************************************)
Elements(q) == {q[i] : i \in 1 .. Len(q)}
Sorted(q) == \A i, j \in 1 .. Len(q) : i < j => q[i].n < q[j].n

\* A younger element enters at the end.
LEMMA ElementsAppend ==
  ASSUME NEW S, NEW q \in Seq(S), NEW e \in S, \A x \in S : x.n \in Nat,
         Sorted(q), \A x \in Elements(q) : x.n < e.n
  PROVE  Sorted(Append(q, e)) /\ Elements(Append(q, e)) = Elements(q) \cup {e}
<1> DEFINE p == Append(q, e)
<1>1. /\ Len(q) \in Nat /\ Len(p) = Len(q) + 1
      /\ \A i \in 1 .. Len(q) : p[i] = q[i]
      /\ p[Len(q) + 1] = e
  BY AppendProperties, LenProperties
<1> HIDE DEF p
<1>2. \A i \in 1 .. Len(p) : i \in 1 .. Len(q) \/ i = Len(q) + 1
  BY <1>1
<1>3. Elements(p) = Elements(q) \cup {e}
  BY <1>1, <1>2 DEF Elements
<1>4. ASSUME NEW i \in 1 .. Len(p), NEW j \in 1 .. Len(p), i < j
      PROVE  p[i].n < p[j].n
  <2>1. i \in 1 .. Len(q) /\ p[i] = q[i]
    BY <1>1, <1>2, <1>4
  <2>2. CASE j \in 1 .. Len(q)
    BY <1>1, <1>4, <2>1, <2>2 DEF Sorted
  <2>3. CASE j = Len(q) + 1
    BY <1>1, <2>1, <2>3 DEF Elements
  <2>4. QED  BY <1>2, <2>2, <2>3
<1>5. QED
  BY <1>3, <1>4 DEF Sorted, p

\* The oldest element leaves.
LEMMA ElementsTail ==
  ASSUME NEW S, NEW q \in Seq(S), \A x \in S : x.n \in Nat, Sorted(q), q # <<>>
  PROVE  /\ Head(q) \in Elements(q) /\ Head(q) \in S
         /\ Sorted(Tail(q)) /\ Elements(Tail(q)) = Elements(q) \ {Head(q)}
         /\ \A x \in Elements(q) \ {Head(q)} : Head(q).n < x.n
<1> DEFINE t == Tail(q)
<1>1. /\ Len(q) \in Nat \ {0} /\ Len(t) = Len(q) - 1
      /\ \A i \in 1 .. Len(t) : t[i] = q[i + 1]
      /\ Head(q) = q[1] /\ q[1] \in S
      /\ \A i \in 1 .. Len(q) : q[i] \in S
  BY HeadTailProperties, LenProperties, EmptySeq, ElementOfSeq
<1> HIDE DEF t
<1>2. Head(q) \in Elements(q)
  BY <1>1 DEF Elements
<1>3. \A i \in 2 .. Len(q) : q[1].n < q[i].n
  BY <1>1 DEF Sorted
<1>4. \A i \in 2 .. Len(q) : q[i] # q[1]
  BY <1>1, <1>3
<1>5. \A i \in 1 .. Len(t) : i + 1 \in 2 .. Len(q)
  BY <1>1
<1>6. \A i \in 2 .. Len(q) : i - 1 \in 1 .. Len(t) /\ t[i - 1] = q[i]
  BY <1>1
<1>7. Elements(t) = Elements(q) \ {Head(q)}
  <2>1. ASSUME NEW x \in Elements(t) PROVE x \in Elements(q) \ {Head(q)}
    BY <1>1, <1>4, <1>5 DEF Elements
  <2>2. ASSUME NEW x \in Elements(q), x # Head(q) PROVE x \in Elements(t)
    <3>1. PICK i \in 1 .. Len(q) : x = q[i]
      BY DEF Elements
    <3>2. i \in 2 .. Len(q)
      BY <1>1, <2>2, <3>1
    <3>3. QED  BY <1>6, <3>1, <3>2 DEF Elements
  <2>3. QED  BY <2>1, <2>2
<1>8. Sorted(t)
  BY <1>1 DEF Sorted
<1>9. \A x \in Elements(q) \ {Head(q)} : Head(q).n < x.n
  BY <1>1, <1>3 DEF Elements
<1>10. QED
  BY <1>1, <1>2, <1>7, <1>8, <1>9 DEF t

LEMMA ElementsOfQueue ==
  ASSUME NEW S, NEW q \in Seq(S)
  PROVE  Elements(q) \subseteq S /\ (q = <<>> => Elements(q) = {} /\ Sorted(q))
<1>1. Len(q) \in Nat /\ \A i \in 1 .. Len(q) : q[i] \in S
  BY LenProperties, ElementOfSeq
<1>2. q = <<>> => Len(q) = 0
  BY EmptySeq
<1>3. QED
  BY <1>1, <1>2 DEF Elements, Sorted

-----------------------------------------------------------------------------
(***************************************************************************)
(* The responses of a channel: of the requests that are owed one, some are *)
(* still to be answered, and beats are waiting for the others.             *)
(***************************************************************************)
Covers(beats, still, owed) ==
  /\ still \subseteq owed
  /\ \A r \in owed : r \in still \/ \E b \in beats : b.n = r.n
  /\ \A b \in beats : \E r \in owed : r.n = b.n
  /\ \A b \in beats, r \in still : b.n < r.n

\* Serial numbers are numbers, and tell requests apart.
Numbers(S) == \A x \in S : x.n \in Nat
Distinct(S) == \A r, s \in S : r.n = s.n => r = s

\* A younger request is sent.
LEMMA CoversSent ==
  ASSUME NEW beats, NEW still, NEW owed, NEW r, Covers(beats, still, owed),
         Numbers(owed \cup {r}), \A s \in owed : s.n < r.n
  PROVE  Covers(beats, still \cup {r}, owed \cup {r})
BY DEF Covers, Numbers

\* The oldest of those that are still to be answered is answered.
LEMMA CoversProduced ==
  ASSUME NEW beats, NEW still, NEW owed, NEW r \in still, NEW b, b.n = r.n,
         Covers(beats, still, owed), Numbers(owed),
         \A s \in still : s # r => r.n < s.n
  PROVE  Covers(beats \cup {b}, still \ {r}, owed)
BY DEF Covers, Numbers

\* The oldest beat is that of the oldest request.
LEMMA CoversOldest ==
  ASSUME NEW beats, NEW still, NEW owed, Covers(beats, still, owed),
         Numbers(owed), Distinct(owed),
         NEW g \in owed, \A s \in owed : s # g => g.n < s.n,
         NEW b \in beats, \A c \in beats \ {b} : b.n < c.n
  PROVE  b.n = g.n /\ g \notin still
<1>1. PICK r \in owed : r.n = b.n
  BY DEF Covers
<1>2. g.n \in Nat /\ r.n \in Nat
  BY DEF Numbers
<1>3. \A c \in beats : c.n \in Nat /\ b.n <= c.n
  BY <1>1, <1>2 DEF Covers, Numbers
<1>4. CASE g \in still
  <2>1. b.n < g.n
    BY <1>4 DEF Covers
  <2>2. QED  BY <1>1, <1>2, <2>1
<1>5. CASE g \notin still
  <2>1. PICK c \in beats : c.n = g.n
    BY <1>5 DEF Covers
  <2>2. b.n <= g.n
    BY <1>3, <2>1
  <2>3. QED  BY <1>1, <1>2, <1>5, <2>2
<1>6. QED
  BY <1>4, <1>5

\* It is taken.
LEMMA CoversTaken ==
  ASSUME NEW beats, NEW still, NEW owed, Covers(beats, still, owed),
         Numbers(owed), Distinct(owed),
         NEW g \in owed, \A s \in owed : s # g => g.n < s.n,
         NEW b \in beats, \A c \in beats \ {b} : b.n < c.n
  PROVE  Covers(beats \ {b}, still, owed \ {g})
<1>1. b.n = g.n /\ g \notin still
  BY CoversOldest
<1>2. \A c \in beats \ {b} : c.n # g.n
  <2>1. ASSUME NEW c \in beats \ {b} PROVE c.n # g.n
    <3>1. PICK r \in owed : r.n = c.n
      BY DEF Covers
    <3>2. b.n < c.n /\ c.n \in Nat /\ b.n \in Nat
      BY <1>1, <3>1 DEF Numbers
    <3>3. QED  BY <1>1, <3>2
  <2>2. QED  BY <2>1
<1>3. QED
  BY <1>1, <1>2 DEF Covers, Distinct

\* Another channel's request leaves.
LEMMA CoversOther ==
  ASSUME NEW beats, NEW still, NEW owed, NEW g, g \notin owed, Covers(beats, still, owed)
  PROVE  Covers(beats, still, owed \ {g})
BY DEF Covers

-----------------------------------------------------------------------------
(***************************************************************************)
(* The invariant.                                                          *)
(***************************************************************************)
\* The requests whose read or write address was accepted and that are unanswered.
Open == Elements(granted) \cup (IF "aw" \in sent THEN {req} ELSE {})

OpenB == {r \in Open : We(r)}
OpenR == {r \in Open : OwesR(r)}

\* Those the subordinate still has to answer on B, and on R.
HalfDone(c) == IF c \in half THEN {Head(awq)} ELSE {}
Amos == {r \in Elements(awq) : r.kind = "amo"}
StillB == Elements(awq) \ HalfDone("b")
StillR == Elements(arq) \cup (Amos \ HalfDone("r"))

QueuesSorted == Sorted(granted) /\ Sorted(bq) /\ Sorted(rq) /\ Sorted(awq) /\ Sorted(arq)

Numbered ==
  /\ \A r \in Elements(granted) : 0 < r.n /\ r.n <= count
  /\ req # NoReq => req.n = count /\ 0 < count /\ \A r \in Elements(granted) : r.n < req.n

\* Only the atomic at the head can be half answered.
HalfAmo ==
  /\ half # {} => awq # <<>> /\ Head(awq).kind = "amo"
  /\ half # {"b", "r"}

Accepted == Elements(awq) \subseteq OpenB /\ \A r \in Elements(arq) : r \in OpenR /\ ~We(r)

Beats == Elements(bq) \cup Elements(rq)

\* The verdicts about an open request are the marks of the beats that wait for it.
Reported ==
  /\ \A r \in Open, x \in AllMarks :
       <<r.n, x>> \in verdict <=> \E b \in Beats : b.n = r.n /\ x \in b.marks
  /\ \A n \in Nat, x \in AllMarks : <<n, x>> \in verdict => n <= count
  /\ req # NoReq /\ "aw" \notin sent => \A x \in AllMarks : <<req.n, x>> \notin verdict
  /\ \A r \in Open, b \in Beats : b.n = r.n /\ r.kind = "amo" => "exok" \notin b.marks

Order ==
  /\ QueuesSorted /\ Numbered /\ HalfAmo /\ Accepted
  /\ Covers(Elements(bq), StillB, OpenB)
  /\ Covers(Elements(rq), StillR, OpenR)

SInv == IInv /\ Order /\ Reported

-----------------------------------------------------------------------------
(***************************************************************************)
(* What the invariant says of the open requests and their beats.           *)
(***************************************************************************)
LEMMA Queues ==
  ASSUME TypeOK
  PROVE  /\ granted \in Seq(Request) /\ awq \in Seq(Request) /\ arq \in Seq(Request)
         /\ bq \in Seq(BeatType) /\ rq \in Seq(BeatType)
         /\ Elements(granted) \subseteq Request /\ Elements(awq) \subseteq Request
         /\ Elements(arq) \subseteq Request
         /\ Elements(bq) \subseteq BeatType /\ Elements(rq) \subseteq BeatType
         /\ \A r \in Request : r.n \in Nat
         /\ \A b \in BeatType : b.n \in Nat /\ b.marks \in MarkSets
<1>1. /\ granted \in Seq(Request) /\ awq \in Seq(Request) /\ arq \in Seq(Request)
      /\ bq \in Seq(BeatType) /\ rq \in Seq(BeatType)
  BY DEF TypeOK
<1>2. QED
  BY <1>1, ElementsOfQueue DEF Request, BeatType

LEMMA OpenFacts ==
  ASSUME IInv, Order
  PROVE  /\ Open \subseteq Request /\ Numbers(Open) /\ Distinct(Open)
         /\ \A r \in Open : 0 < r.n /\ r.n <= count
         /\ "aw" \in sent => req \in Request /\ req # NoReq /\ We(req)
<1>1. "aw" \in sent => req \in Request /\ req # NoReq /\ We(req)
  BY PresentedRequest DEF IInv, HalfSentHoldsPlace
<1>2. Open \subseteq Request
  BY <1>1, Queues DEF IInv, Open
<1>3. Numbers(Open)
  BY <1>2, Queues DEF IInv, Numbers
<1>4. ASSUME NEW r \in Elements(granted), NEW s \in Elements(granted), r.n = s.n
      PROVE  r = s
  <2>1. PICK i \in 1 .. Len(granted), j \in 1 .. Len(granted) : r = granted[i] /\ s = granted[j]
    BY DEF Elements
  <2>2. Len(granted) \in Nat /\ granted[i].n \in Nat /\ granted[j].n \in Nat
    BY <2>1, Queues, LenProperties DEF IInv
  <2>3. ~(i < j) /\ ~(j < i)
    BY <1>4, <2>1, <2>2 DEF Order, QueuesSorted, Sorted
  <2>4. QED  BY <2>1, <2>2, <2>3
<1>5. Distinct(Open)
  <2>1. \A r \in Elements(granted) : "aw" \in sent => r.n < req.n /\ r.n \in Nat
    BY <1>1, Queues DEF Order, Numbered, IInv
  <2>2. \A r \in Elements(granted) : "aw" \in sent => r.n # req.n
    BY <2>1, <1>1, Queues DEF IInv
  <2>3. QED  BY <1>4, <2>2 DEF Distinct, Open
<1>6. \A r \in Open : 0 < r.n /\ r.n <= count
  BY <1>1 DEF Open, Order, Numbered, IInv, TypeOK
<1>7. QED
  BY <1>1, <1>2, <1>3, <1>5, <1>6

\* The oldest grant is the oldest open request.
LEMMA OldestOpen ==
  ASSUME IInv, Order, granted # <<>>
  PROVE  /\ Head(granted) \in Open /\ Head(granted) \in Request
         /\ \A s \in Open : s # Head(granted) => Head(granted).n < s.n
         /\ Elements(Tail(granted)) = Elements(granted) \ {Head(granted)} /\ Sorted(Tail(granted))
<1>1. /\ Head(granted) \in Elements(granted) /\ Head(granted) \in Request
      /\ Elements(Tail(granted)) = Elements(granted) \ {Head(granted)} /\ Sorted(Tail(granted))
      /\ \A x \in Elements(granted) \ {Head(granted)} : Head(granted).n < x.n
  BY Queues, ElementsTail DEF IInv, Order, QueuesSorted
<1>2. "aw" \in sent => Head(granted).n < req.n
  BY <1>1, OpenFacts DEF Order, Numbered
<1>3. QED
  BY <1>1, <1>2 DEF Open

\* Beats wait only for open requests.
LEMMA BeatFacts ==
  ASSUME IInv, Order
  PROVE  /\ Beats \subseteq BeatType
         /\ \A b \in Elements(bq) : \E r \in OpenB : r.n = b.n
         /\ \A b \in Elements(rq) : \E r \in OpenR : r.n = b.n
         /\ \A b \in Beats : 0 < b.n /\ b.n <= count
<1>1. /\ \A b \in Elements(bq) : \E r \in OpenB : r.n = b.n
      /\ \A b \in Elements(rq) : \E r \in OpenR : r.n = b.n
  BY DEF Order, Covers
<1>2. \A b \in Beats : 0 < b.n /\ b.n <= count
  BY <1>1, OpenFacts DEF Beats, OpenB, OpenR
<1>3. QED
  BY <1>1, <1>2, Queues DEF IInv, Beats

-----------------------------------------------------------------------------
(***************************************************************************)
(* The initial states, and the steps of the managers and the bridge.       *)
(***************************************************************************)
LEMMA InitSInv == Init => SInv
<1> SUFFICES ASSUME Init PROVE SInv
  OBVIOUS
<1> USE DEF Init, ServiceInit
<1>1. IInv
  BY InitIInv
<1>2. /\ Elements(granted) = {} /\ Elements(awq) = {} /\ Elements(arq) = {}
      /\ Elements(bq) = {} /\ Elements(rq) = {} /\ QueuesSorted
  BY <1>1, Queues, ElementsOfQueue DEF IInv, QueuesSorted
<1>3. Open = {}
  BY <1>2 DEF Open
<1>4. Order
  BY <1>2, <1>3 DEF Order, Numbered, HalfAmo, Accepted, Covers, StillB, StillR, OpenB, OpenR,
     HalfDone, Amos, NoReq
<1>5. Reported
  BY <1>2, <1>3 DEF Reported, Beats
<1>6. QED
  BY <1>1, <1>4, <1>5 DEF SInv

LEMMA RequestKeeps ==
  ASSUME SInv, NEW k \in Kinds, NEW a \in Aids, NEW l \in Lanes, ObiRequest(k, a, l)
  PROVE  Order' /\ Reported'
<1> USE DEF ObiRequest, Present, bridgeVars, slaveVars
<1>1. sent = {} /\ count \in Nat /\ req = NoReq
  BY DEF SInv, IInv, TypeOK, HalfSentHoldsPlace
<1>2. /\ UNCHANGED <<Elements(granted), Elements(awq), Elements(arq), Elements(bq), Elements(rq),
                     QueuesSorted, Amos, StillB, StillR, HalfAmo, Beats, verdict>>
      /\ Open' = Open /\ OpenB' = OpenB /\ OpenR' = OpenR
  BY <1>1 DEF Elements, QueuesSorted, Sorted, StillB, StillR, HalfDone, Amos, HalfAmo, Open, OpenB,
     OpenR, We, OwesR, Beats
<1>3. Numbered'
  <2>1. \A r \in Elements(granted) : r.n \in Nat
    BY Queues DEF SInv, IInv
  <2>2. QED  BY <1>1, <1>2, <2>1 DEF SInv, Order, Numbered
<1>4. Accepted'
  BY <1>2 DEF SInv, Order, Accepted, We
<1>5. Order'
  BY <1>2, <1>3, <1>4 DEF SInv, Order
<1>6. Reported'
  <2>1. \A n \in Nat, x \in AllMarks : <<n, x>> \in verdict => n <= count
    BY DEF SInv, Reported
  <2>2. \A x \in AllMarks : <<count + 1, x>> \notin verdict
    BY <1>1, <2>1
  <2>3. \A n \in Nat, x \in AllMarks : <<n, x>> \in verdict' => n <= count'
    BY <1>1, <2>1
  <2>4. req'.n = count + 1
    OBVIOUS
  <2>5. QED  BY <1>1, <1>2, <2>2, <2>3, <2>4 DEF SInv, Reported
<1>7. QED
  BY <1>5, <1>6

\* The request on the A channel is younger than all that was accepted.
LEMMA Youngest ==
  ASSUME SInv, req # NoReq
  PROVE  /\ req \in Request /\ req.n \in Nat
         /\ \A r \in Elements(granted) : r.n < req.n
         /\ Sorted(Append(granted, req)) /\ Elements(Append(granted, req)) = Elements(granted) \cup {req}
         /\ "aw" \notin sent =>
              /\ Open = Elements(granted)
              /\ \A b \in Beats : b.n # req.n
              /\ \A x \in AllMarks : <<req.n, x>> \notin verdict
<1>1. req \in Request /\ req.n \in Nat
  BY PresentedRequest, Queues DEF SInv, IInv
<1>2. \A r \in Elements(granted) : r.n < req.n
  BY DEF SInv, Order, Numbered
<1>3. Sorted(Append(granted, req)) /\ Elements(Append(granted, req)) = Elements(granted) \cup {req}
  BY <1>1, <1>2, Queues, ElementsAppend DEF SInv, IInv, Order, QueuesSorted
<1>4. ASSUME "aw" \notin sent
      PROVE  /\ Open = Elements(granted)
             /\ \A b \in Beats : b.n # req.n
             /\ \A x \in AllMarks : <<req.n, x>> \notin verdict
  <2>1. Open = Elements(granted)
    BY <1>4 DEF Open
  <2>2. \A b \in Beats : \E r \in Open : r.n = b.n
    BY BeatFacts DEF SInv, Beats, OpenB, OpenR
  <2>3. \A r \in Open : r.n # req.n
    BY <1>1, <1>2, <2>1, OpenFacts DEF SInv, Numbers
  <2>4. QED
    BY <1>4, <2>1, <2>2, <2>3 DEF SInv, Reported
<1>5. QED
  BY <1>1, <1>2, <1>3, <1>4

\* It opens, and has neither beats nor verdicts.
LEMMA OpensUnreported ==
  ASSUME SInv, req # NoReq, "aw" \notin sent, Open' = Open \cup {req},
         UNCHANGED <<count, bq, rq, verdict>>,
         req' = NoReq \/ "aw" \in sent'
  PROVE  Reported'
<1>1. Beats' = Beats
  BY DEF Beats, Elements
<1>2. QED
  BY <1>1, Youngest DEF SInv, Reported

LEMMA SendReadKeeps ==
  ASSUME SInv, SendRead
  PROVE  Order' /\ Reported'
<1>1. req # NoReq /\ ~We(req) /\ req \in Request /\ sent = {}
  BY Youngest DEF SendRead, ArValid, SInv, IInv, HalfSentHoldsPlace
<1>2. /\ granted' = Append(granted, req) /\ arq' = Append(arq, req) /\ req' = NoReq
      /\ UNCHANGED <<count, sent, awq, half, bq, rq, verdict>>
  BY DEF SendRead, Grant
<1>3. OwesR(req) /\ ~We(req)
  BY <1>1, ObiServiceAssumption DEF Request, We, OwesR, AllKinds
<1>4. Sorted(granted') /\ Elements(granted') = Elements(granted) \cup {req}
  BY <1>1, <1>2, Youngest
<1>5. Open = Elements(granted) /\ Open' = Open \cup {req}
  BY <1>1, <1>2, <1>4 DEF Open
<1>6. \A r \in Open : r.n < req.n
  BY <1>1, <1>5, Youngest
<1>7. Sorted(arq') /\ Elements(arq') = Elements(arq) \cup {req}
  <2>1. \A r \in Elements(arq) : r.n < req.n
    BY <1>6 DEF SInv, Order, Accepted, OpenR
  <2>2. arq \in Seq(Request) /\ Sorted(arq) /\ \A x \in Request : x.n \in Nat
    BY Queues DEF SInv, IInv, Order, QueuesSorted
  <2>3. Sorted(Append(arq, req)) /\ Elements(Append(arq, req)) = Elements(arq) \cup {req}
    BY <1>1, <2>1, <2>2, ElementsAppend
  <2>4. QED  BY <1>2, <2>3 DEF Sorted, Elements
<1>8. OpenB' = OpenB /\ OpenR' = OpenR \cup {req}
  BY <1>3, <1>5 DEF OpenB, OpenR, We, OwesR
<1>9. /\ UNCHANGED <<Elements(awq), Elements(bq), Elements(rq), Amos, StillB, HalfAmo>>
      /\ StillR' = StillR \cup {req}
  BY <1>2, <1>7 DEF Elements, Amos, StillB, StillR, HalfDone, HalfAmo
<1>10. Covers(Elements(rq), StillR, OpenR)'
  <2>1. Numbers(OpenR \cup {req}) /\ \A s \in OpenR : s.n < req.n
    BY <1>1, <1>6, OpenFacts, Youngest DEF SInv, OpenR, Numbers
  <2>2. QED  BY <1>8, <1>9, <2>1, CoversSent DEF SInv, Order
<1>11. Numbered'
  <2>1. \A r \in Elements(granted') : 0 < r.n /\ r.n <= count
    BY <1>1, <1>4, Youngest DEF SInv, Order, Numbered, IInv, TypeOK
  <2>2. QED  BY <1>2, <2>1 DEF Numbered
<1>12. Accepted'
  BY <1>3, <1>7, <1>8, <1>9 DEF SInv, Order, Accepted, We
<1>13. QueuesSorted'
  BY <1>2, <1>4, <1>7 DEF SInv, Order, QueuesSorted, Sorted
<1>14. Order'
  BY <1>8, <1>9, <1>10, <1>11, <1>12, <1>13 DEF SInv, Order
<1>15. Reported'
  BY <1>1, <1>2, <1>5, OpensUnreported
<1>16. QED
  BY <1>14, <1>15

\* AW or W or both leave.  Without AW nothing opens.
LEMMA SendWriteKeeps ==
  ASSUME SInv, NEW ready \in SUBSET WriteChannels, SendWrite(ready)
  PROVE  Order' /\ Reported'
<1> DEFINE taken == WriteValid \cap ready
           done == sent \cup taken
<1>1. /\ req \in Request /\ req # NoReq /\ We(req)
      /\ sent \in {{}, {"aw"}, {"w"}} /\ taken # {} /\ taken \subseteq WriteChannels \ sent
  BY WriteTaken DEF SInv
<1>2. /\ awq' = (IF "aw" \in taken THEN Append(awq, req) ELSE awq)
      /\ sent' = (IF done = WriteChannels THEN {} ELSE done)
      /\ IF done = WriteChannels THEN granted' = Append(granted, req) /\ req' = NoReq
         ELSE granted' = granted /\ req' = req
      /\ UNCHANGED <<count, arq, half, bq, rq, verdict>>
  BY <1>1 DEF SendWrite, NextSent, Grant
<1> HIDE DEF taken, done
<1>3. /\ Sorted(granted')
      /\ Elements(granted') = Elements(granted) \cup (IF done = WriteChannels THEN {req} ELSE {})
  <2>1. CASE done = WriteChannels  BY <1>1, <1>2, <2>1, Youngest
  <2>2. CASE done # WriteChannels  BY <1>2, <2>2 DEF SInv, Order, QueuesSorted, Sorted, Elements
  <2>3. QED  BY <2>1, <2>2
<1>4. Open' = Open \cup (IF "aw" \in taken THEN {req} ELSE {})
  <2>1. done = WriteChannels \/ done = {"aw"} \/ done = {"w"}
    BY <1>1 DEF done, WriteChannels
  <2>2. "aw" \in done <=> "aw" \in sent \/ "aw" \in taken
    BY DEF done
  <2>3. QED  BY <1>1, <1>2, <1>3, <2>1, <2>2 DEF Open, WriteChannels
<1>5. Numbered'
  <2>1. \A r \in Elements(granted') : 0 < r.n /\ r.n <= count
    BY <1>1, <1>3, Youngest DEF SInv, Order, Numbered, IInv, TypeOK
  <2>2. CASE done = WriteChannels  BY <1>2, <2>1, <2>2 DEF Numbered
  <2>3. CASE done # WriteChannels  BY <1>2, <1>3, <2>1, <2>3 DEF SInv, Order, Numbered
  <2>4. QED  BY <2>2, <2>3
<1>6. CASE "aw" \in taken
  <2>1. "aw" \notin sent /\ Open = Elements(granted) /\ Open' = Open \cup {req}
    BY <1>1, <1>4, <1>6, Youngest
  <2>2. \A r \in Open : r.n < req.n
    BY <1>1, <2>1, Youngest
  <2>3. Sorted(awq') /\ Elements(awq') = Elements(awq) \cup {req}
    <3>1. \A r \in Elements(awq) : r.n < req.n
      BY <2>2 DEF SInv, Order, Accepted, OpenB
    <3>2. awq \in Seq(Request) /\ Sorted(awq) /\ \A x \in Request : x.n \in Nat
      BY Queues DEF SInv, IInv, Order, QueuesSorted
    <3>3. Sorted(Append(awq, req)) /\ Elements(Append(awq, req)) = Elements(awq) \cup {req}
      BY <1>1, <3>1, <3>2, ElementsAppend
    <3>4. QED  BY <1>2, <1>6, <3>3 DEF Sorted, Elements
  <2>4. OpenB' = OpenB \cup {req} /\ OpenR' = OpenR \cup (IF req.kind = "amo" THEN {req} ELSE {})
    BY <1>1, <2>1 DEF OpenB, OpenR, We, OwesR
  <2>5. half # {} => Head(awq') = Head(awq) /\ awq' # <<>>
    <3>1. half # {} => awq # <<>> /\ awq \in Seq(Request)
      BY Queues DEF SInv, IInv, Order, HalfAmo
    <3>2. QED  BY <1>1, <1>2, <1>6, <3>1, HeadTailAppend, AppendProperties
  <2>6. HalfAmo'
    BY <1>2, <2>5 DEF SInv, Order, HalfAmo
  <2>7. req \notin HalfDone("b") /\ req \notin HalfDone("r") /\ UNCHANGED <<HalfDone("b"), HalfDone("r")>>
    <3>1. half # {} => Head(awq) \in Open
      BY Queues, ElementsTail DEF SInv, IInv, Order, QueuesSorted, HalfAmo, Accepted, OpenB
    <3>2. half # {} => Head(awq) # req
      BY <2>2, <3>1, OpenFacts DEF SInv, Numbers
    <3>3. QED  BY <1>2, <2>5, <3>2 DEF HalfDone
  <2>8. StillB' = StillB \cup {req} /\ StillR' = StillR \cup (IF req.kind = "amo" THEN {req} ELSE {})
    <3>1. UNCHANGED Elements(arq)
      BY <1>2 DEF Elements
    <3>2. QED  BY <2>3, <2>7, <3>1 DEF StillB, StillR, Amos
  <2>9. Numbers(Open \cup {req}) /\ Numbers(OpenB \cup {req}) /\ Numbers(OpenR \cup {req})
    BY <1>1, OpenFacts, Youngest DEF SInv, OpenB, OpenR, Numbers
  <2>10. UNCHANGED <<Elements(bq), Elements(rq), Elements(arq)>>
    BY <1>2 DEF Elements
  <2>11. Covers(Elements(bq), StillB, OpenB)'
    BY <2>2, <2>4, <2>8, <2>9, <2>10, CoversSent DEF SInv, Order, OpenB
  <2>12. Covers(Elements(rq), StillR, OpenR)'
    <3>1. CASE req.kind = "amo"
      <4>1. OpenR' = OpenR \cup {req} /\ StillR' = StillR \cup {req}
        BY <2>4, <2>8, <3>1
      <4>2. \A s \in OpenR : s.n < req.n
        BY <2>2 DEF OpenR
      <4>3. Covers(Elements(rq), StillR \cup {req}, OpenR \cup {req})
        BY <2>9, <4>2, CoversSent DEF SInv, Order
      <4>4. QED  BY <2>10, <4>1, <4>3
    <3>2. CASE req.kind # "amo"
      <4>1. OpenR' = OpenR /\ StillR' = StillR
        BY <2>4, <2>8, <3>2
      <4>2. QED  BY <2>10, <4>1 DEF SInv, Order
    <3>3. QED  BY <3>1, <3>2
  <2>13. Accepted'
    BY <2>3, <2>4, <2>10 DEF SInv, Order, Accepted, We
  <2>14. QueuesSorted'
    BY <1>2, <1>3, <2>3 DEF SInv, Order, QueuesSorted, Sorted
  <2>15. Order'
    BY <1>5, <2>6, <2>11, <2>12, <2>13, <2>14 DEF Order
  <2>16. req' = NoReq \/ "aw" \in sent'
    BY <1>2, <1>6 DEF done
  <2>17. QED
    BY <1>1, <1>2, <2>1, <2>15, <2>16, OpensUnreported
<1>7. CASE "aw" \notin taken
  <2>1. Open' = Open /\ awq' = awq
    BY <1>2, <1>4, <1>7
  <2>2. /\ OpenB' = OpenB /\ OpenR' = OpenR
        /\ UNCHANGED <<Elements(bq), Elements(rq), Elements(arq), Elements(awq), Beats, Amos, StillB, StillR, HalfAmo>>
    BY <1>2, <2>1 DEF OpenB, OpenR, We, OwesR, Elements, Beats, Amos, StillB, StillR, HalfAmo, HalfDone
  <2>3. Accepted'
    BY <2>2 DEF SInv, Order, Accepted, We
  <2>4. QueuesSorted'
    BY <1>2, <1>3, <2>1 DEF SInv, Order, QueuesSorted, Sorted
  <2>5. Order'
    BY <1>5, <2>2, <2>3, <2>4 DEF SInv, Order
  <2>6. req' # NoReq /\ "aw" \notin sent' => req' = req /\ req # NoReq /\ "aw" \notin sent
    BY <1>1, <1>2 DEF done
  <2>7. Reported'
    BY <1>2, <2>1, <2>2, <2>6 DEF SInv, Reported
  <2>8. QED  BY <2>5, <2>7
<1>8. QED
  BY <1>6, <1>7

-----------------------------------------------------------------------------
(***************************************************************************)
(* The response.                                                           *)
(***************************************************************************)
\* The channels a response takes its beats from are those the oldest request
\* is owed a beat on.
LEMMA RespondTakes ==
  ASSUME SInv, Respond
  PROVE  /\ granted # <<>> /\ fifo # <<>> /\ Head(fifo) = Tag(Head(granted))
         /\ Head(granted) \in Request
         /\ TakesB <=> We(Head(granted))
         /\ TakesR <=> OwesR(Head(granted))
<1> DEFINE g == Head(granted)
<1>1. fifo # <<>>
  BY DEF Respond, RValid, TakesB, TakesR, BReady, RReady
<1>2. fifo \in Seq(TagType) /\ granted \in Seq(Request) /\ Len(granted) = Len(fifo)
  BY DEF SInv, IInv, TypeOK, TagsMatchGrants, TagType
<1>3. granted # <<>> /\ Len(fifo) \in Nat \ {0}
  BY <1>1, <1>2, EmptySeq, LenProperties
<1>4. Head(fifo) = fifo[1] /\ g = granted[1] /\ g \in Request
  BY <1>1, <1>2, <1>3, HeadTailProperties
<1>5. Head(fifo) = Tag(g)
  BY <1>2, <1>3, <1>4 DEF SInv, IInv, TagsMatchGrants
<1>6. Head(fifo).we = We(g) /\ Head(fifo).atop = (g.kind = "amo")
  BY <1>5 DEF Tag
<1>7. g.kind \in AllKinds
  BY <1>4, ObiServiceAssumption DEF Request
<1> HIDE DEF g
<1>8. CASE g.kind = "amo"
  <2>1. TakesB /\ TakesR
    BY <1>6, <1>8 DEF Respond, RValid, TakesB, TakesR, BReady, RReady
  <2>2. We(g) /\ OwesR(g)
    BY <1>8 DEF We, OwesR
  <2>3. QED  BY <1>1, <1>3, <1>4, <1>5, <2>1, <2>2 DEF g
<1>9. CASE g.kind # "amo"
  <2>1. (TakesB <=> bq # <<>> /\ We(g)) /\ (TakesR <=> rq # <<>> /\ ~We(g))
    BY <1>1, <1>6, <1>9 DEF TakesB, TakesR, BReady, RReady
  <2>2. OwesR(g) <=> ~We(g)
    BY <1>7, <1>9 DEF We, OwesR, AllKinds
  <2>3. QED  BY <1>1, <1>3, <1>4, <1>5, <2>1, <2>2 DEF g, Respond, RValid
<1>10. QED
  BY <1>8, <1>9

\* Its beats are those of the oldest request.
LEMMA RespondBeats ==
  ASSUME SInv, Respond, NEW g, g = Head(granted)
  PROVE  /\ We(g) => /\ Head(bq) \in Elements(bq) /\ Head(bq).n = g.n /\ g \notin StillB
                     /\ Elements(Tail(bq)) = Elements(bq) \ {Head(bq)} /\ Sorted(Tail(bq))
                     /\ Covers(Elements(Tail(bq)), StillB, OpenB \ {g})
                     /\ \A b \in Elements(Tail(bq)) : b.n # g.n
         /\ OwesR(g) => /\ Head(rq) \in Elements(rq) /\ Head(rq).n = g.n /\ g \notin StillR
                        /\ Elements(Tail(rq)) = Elements(rq) \ {Head(rq)} /\ Sorted(Tail(rq))
                        /\ Covers(Elements(Tail(rq)), StillR, OpenR \ {g})
                        /\ \A b \in Elements(Tail(rq)) : b.n # g.n
<1>1. /\ g \in Open /\ \A s \in Open : s # g => g.n < s.n
      /\ Numbers(Open) /\ Distinct(Open)
  BY RespondTakes, OldestOpen, OpenFacts DEF SInv
<1>2. /\ bq \in Seq(BeatType) /\ rq \in Seq(BeatType) /\ Sorted(bq) /\ Sorted(rq)
      /\ \A x \in BeatType : x.n \in Nat
  BY Queues DEF SInv, IInv, Order, QueuesSorted
<1>3. ASSUME We(g)
      PROVE  /\ Head(bq) \in Elements(bq) /\ Head(bq).n = g.n /\ g \notin StillB
             /\ Elements(Tail(bq)) = Elements(bq) \ {Head(bq)} /\ Sorted(Tail(bq))
             /\ Covers(Elements(Tail(bq)), StillB, OpenB \ {g})
             /\ \A b \in Elements(Tail(bq)) : b.n # g.n
  <2>1. bq # <<>>
    BY <1>3, RespondTakes DEF TakesB
  <2>2. /\ Head(bq) \in Elements(bq) /\ Head(bq) \in BeatType
        /\ Elements(Tail(bq)) = Elements(bq) \ {Head(bq)} /\ Sorted(Tail(bq))
        /\ \A x \in Elements(bq) \ {Head(bq)} : Head(bq).n < x.n
    BY <1>2, <2>1, ElementsTail
  <2>3. /\ g \in OpenB /\ \A s \in OpenB : s # g => g.n < s.n
        /\ Numbers(OpenB) /\ Distinct(OpenB) /\ Covers(Elements(bq), StillB, OpenB)
    BY <1>1, <1>3 DEF OpenB, Numbers, Distinct, SInv, Order
  <2>4. Head(bq).n = g.n /\ g \notin StillB
    BY <2>2, <2>3, CoversOldest
  <2>5. Covers(Elements(bq) \ {Head(bq)}, StillB, OpenB \ {g})
    BY <2>2, <2>3, CoversTaken
  <2>6. \A b \in Elements(Tail(bq)) : b.n # g.n
    BY <2>2, <2>4, <1>2, ElementsOfQueue
  <2>7. QED  BY <2>2, <2>4, <2>5, <2>6
<1>4. ASSUME OwesR(g)
      PROVE  /\ Head(rq) \in Elements(rq) /\ Head(rq).n = g.n /\ g \notin StillR
             /\ Elements(Tail(rq)) = Elements(rq) \ {Head(rq)} /\ Sorted(Tail(rq))
             /\ Covers(Elements(Tail(rq)), StillR, OpenR \ {g})
             /\ \A b \in Elements(Tail(rq)) : b.n # g.n
  <2>1. rq # <<>>
    BY <1>4, RespondTakes DEF TakesR
  <2>2. /\ Head(rq) \in Elements(rq) /\ Head(rq) \in BeatType
        /\ Elements(Tail(rq)) = Elements(rq) \ {Head(rq)} /\ Sorted(Tail(rq))
        /\ \A x \in Elements(rq) \ {Head(rq)} : Head(rq).n < x.n
    BY <1>2, <2>1, ElementsTail
  <2>3. /\ g \in OpenR /\ \A s \in OpenR : s # g => g.n < s.n
        /\ Numbers(OpenR) /\ Distinct(OpenR) /\ Covers(Elements(rq), StillR, OpenR)
    BY <1>1, <1>4 DEF OpenR, Numbers, Distinct, SInv, Order
  <2>4. Head(rq).n = g.n /\ g \notin StillR
    BY <2>2, <2>3, CoversOldest
  <2>5. Covers(Elements(rq) \ {Head(rq)}, StillR, OpenR \ {g})
    BY <2>2, <2>3, CoversTaken
  <2>6. \A b \in Elements(Tail(rq)) : b.n # g.n
    BY <2>2, <2>4, <1>2, ElementsOfQueue
  <2>7. QED  BY <2>2, <2>4, <2>5, <2>6
<1>5. QED
  BY <1>3, <1>4

\* The beats of the oldest request are at the heads of their queues.
LEMMA BeatsOfOldest ==
  ASSUME SInv, Respond, NEW g, g = Head(granted), NEW x
  PROVE  (\E b \in Beats : b.n = g.n /\ x \in b.marks)
           <=> (We(g) /\ x \in Head(bq).marks) \/ (OwesR(g) /\ x \in Head(rq).marks)
<1>1. g \in Open /\ Distinct(Open)
  BY RespondTakes, OldestOpen, OpenFacts DEF SInv
<1>2. ASSUME NEW b \in Elements(bq), b.n = g.n PROVE We(g) /\ b = Head(bq)
  <2>1. We(g)
    BY <1>1, <1>2, BeatFacts DEF SInv, OpenB, Distinct
  <2>2. QED  BY <1>2, <2>1, RespondBeats
<1>3. ASSUME NEW b \in Elements(rq), b.n = g.n PROVE OwesR(g) /\ b = Head(rq)
  <2>1. OwesR(g)
    BY <1>1, <1>3, BeatFacts DEF SInv, OpenR, Distinct
  <2>2. QED  BY <1>3, <2>1, RespondBeats
<1>4. /\ We(g) => Head(bq) \in Elements(bq) /\ Head(bq).n = g.n
      /\ OwesR(g) => Head(rq) \in Elements(rq) /\ Head(rq).n = g.n
  BY RespondBeats
<1>5. QED
  BY <1>2, <1>3, <1>4 DEF Beats

\* What goes out is the answer to the oldest request.
LEMMA RespondAnswers ==
  ASSUME SInv, Respond, NEW g, g = Head(granted)
  PROVE  /\ rsp' = [rid |-> g.aid, lane |-> g.lane, b |-> BeatOf(g, We(g)),
                    r |-> BeatOf(g, OwesR(g)), marks |-> rsp'.marks]
         /\ rsp'.marks \in MarkSets
         /\ rsp'.marks = {x \in AllMarks : <<g.n, x>> \in verdict}
<1> DEFINE b == IF TakesB THEN Head(bq).marks ELSE {}
           r == IF TakesR THEN Head(rq).marks ELSE {}
<1>1. /\ Head(fifo) = Tag(g) /\ g \in Request /\ g \in Open
      /\ TakesB <=> We(g)
      /\ TakesR <=> OwesR(g)
  BY RespondTakes, OldestOpen DEF SInv
<1>2. rsp' = [rid |-> g.aid, lane |-> g.lane,
              b |-> IF TakesB THEN Head(bq).n ELSE 0, r |-> IF TakesR THEN Head(rq).n ELSE 0,
              marks |-> RspMarks(Tag(g), b, r)]
  BY <1>1 DEF Respond, Tag
<1>3. /\ We(g) => Head(bq) \in BeatType /\ Head(bq) \in Beats /\ Head(bq).n = g.n
      /\ OwesR(g) => Head(rq) \in BeatType /\ Head(rq) \in Beats /\ Head(rq).n = g.n
  BY RespondBeats, BeatFacts DEF SInv, Beats
<1>4. /\ We(g) => b = Head(bq).marks /\ b \in MarkSets
      /\ OwesR(g) => r = Head(rq).marks /\ r \in MarkSets
      /\ ~We(g) => b = {}
      /\ ~OwesR(g) => r = {}
  BY <1>1, <1>3 DEF BeatType
<1>5. g.kind = "amo" => "exok" \notin b /\ "exok" \notin r
  BY <1>1, <1>3, <1>4 DEF SInv, Reported, We, OwesR
<1> HIDE DEF b, r
<1>6. We(g) \/ OwesR(g)
  BY <1>1, ObiServiceAssumption DEF Request, We, OwesR, AllKinds
<1>7. We(g) /\ g.kind # "amo" => ~OwesR(g)
  BY DEF We, OwesR
<1>8. Tag(g).atop = (g.kind = "amo") /\ Tag(g).we = We(g)
  BY DEF Tag
<1>9. RspMarks(Tag(g), b, r) = b \cup r /\ b \cup r \in MarkSets
  <2>1. CASE g.kind = "amo"
    <3>1. We(g) /\ OwesR(g)
      BY <2>1 DEF We, OwesR
    <3>2. b \cup r \in MarkSets
      BY <1>4, <1>5, <2>1, <3>1, ObiToAxiAssumption
    <3>3. RspMarks(Tag(g), b, r) = ((b \cup r) \ {"exok"}) \cup (b \cap {"exok"})
      BY <1>8, <2>1 DEF RspMarks
    <3>4. QED  BY <1>5, <2>1, <3>2, <3>3
  <2>2. CASE g.kind # "amo" /\ We(g)
    <3>1. RspMarks(Tag(g), b, r) = b
      BY <1>8, <2>2 DEF RspMarks
    <3>2. QED  BY <1>4, <1>7, <2>2, <3>1
  <2>3. CASE g.kind # "amo" /\ ~We(g)
    <3>1. RspMarks(Tag(g), b, r) = r
      BY <1>8, <2>3 DEF RspMarks
    <3>2. QED  BY <1>4, <1>6, <2>3, <3>1
  <2>4. QED  BY <2>1, <2>2, <2>3
<1>10. b \cup r \subseteq AllMarks
  BY <1>9, ObiToAxiAssumption
<1>11. \A x \in AllMarks : <<g.n, x>> \in verdict <=> x \in b \cup r
  <2>1. ASSUME NEW x \in AllMarks PROVE <<g.n, x>> \in verdict <=> x \in b \cup r
    <3>1. <<g.n, x>> \in verdict <=> \E e \in Beats : e.n = g.n /\ x \in e.marks
      BY <1>1 DEF SInv, Reported
    <3>2. (x \in b <=> We(g) /\ x \in Head(bq).marks) /\ (x \in r <=> OwesR(g) /\ x \in Head(rq).marks)
      BY <1>4
    <3>3. QED  BY <3>1, <3>2, BeatsOfOldest
  <2>2. QED  BY <2>1
<1>12. rsp'.marks = b \cup r
  BY <1>2, <1>9
<1>13. rsp'.marks = {x \in AllMarks : <<g.n, x>> \in verdict}
  BY <1>10, <1>11, <1>12
<1>14. rsp' = [rid |-> g.aid, lane |-> g.lane, b |-> BeatOf(g, We(g)),
               r |-> BeatOf(g, OwesR(g)), marks |-> rsp'.marks]
  <2>1. (IF TakesB THEN Head(bq).n ELSE 0) = BeatOf(g, We(g))
    BY <1>1, <1>3 DEF BeatOf
  <2>2. (IF TakesR THEN Head(rq).n ELSE 0) = BeatOf(g, OwesR(g))
    BY <1>1, <1>3 DEF BeatOf
  <2>3. QED  BY <1>2, <2>1, <2>2
<1>15. QED
  BY <1>9, <1>12, <1>13, <1>14

\* Nothing of the answered request is left at the subordinate.
LEMMA RespondLeaves ==
  ASSUME SInv, Respond, NEW g, g = Head(granted)
  PROVE  g \notin Elements(awq) /\ g \notin Elements(arq)
<1>1. g \notin Elements(arq)
  BY RespondBeats DEF SInv, Order, Accepted, OpenR, StillR
<1>2. ASSUME g \in Elements(awq) PROVE FALSE
  <2>1. We(g)
    BY <1>2 DEF SInv, Order, Accepted, OpenB
  <2>2. g \in HalfDone("b")
    BY <1>2, <2>1, RespondBeats DEF StillB
  <2>3. "b" \in half /\ g.kind = "amo"
    BY <2>2 DEF HalfDone, SInv, Order, HalfAmo
  <2>4. g \in Amos /\ OwesR(g)
    BY <1>2, <2>3 DEF Amos, OwesR
  <2>5. g \in HalfDone("r")
    BY <2>4, RespondBeats DEF StillR
  <2>6. "r" \in half
    BY <2>5 DEF HalfDone
  <2>7. half \subseteq {"b", "r"} /\ half # {"b", "r"}
    BY DEF SInv, IInv, TypeOK, Order, HalfAmo
  <2>8. QED  BY <2>3, <2>6, <2>7
<1>3. QED
  BY <1>1, <1>2

LEMMA RespondKeeps ==
  ASSUME SInv, Respond
  PROVE  Order' /\ Reported'
<1> DEFINE g == Head(granted)
<1>1. /\ granted' = Tail(granted)
      /\ bq' = (IF We(g) THEN Tail(bq) ELSE bq)
      /\ rq' = (IF OwesR(g) THEN Tail(rq) ELSE rq)
      /\ UNCHANGED <<req, count, sent, awq, arq, half, verdict>>
  BY RespondTakes DEF Respond
<1>2. /\ g \in Open /\ \A s \in Open : s # g => g.n < s.n
      /\ Elements(granted') = Elements(granted) \ {g} /\ Sorted(granted')
  BY <1>1, RespondTakes, OldestOpen DEF SInv
<1>3. "aw" \in sent => req # g
  <2>1. ASSUME "aw" \in sent PROVE req # g
    <3>1. req # NoReq /\ req.n \in Nat
      BY <2>1, OpenFacts, Youngest DEF SInv
    <3>2. g \in Elements(granted)
      BY RespondTakes, ElementsTail, Queues DEF SInv, IInv, Order, QueuesSorted
    <3>3. g.n < req.n
      BY <3>1, <3>2, Youngest
    <3>4. QED  BY <3>1, <3>3
  <2>2. QED  BY <2>1
<1>4. Open' = Open \ {g}
  BY <1>1, <1>2, <1>3 DEF Open
<1>5. OpenB' = OpenB \ {g} /\ OpenR' = OpenR \ {g}
  BY <1>4 DEF OpenB, OpenR, We, OwesR
<1>6. UNCHANGED <<Elements(awq), Elements(arq), Amos, StillB, StillR, HalfAmo>>
  BY <1>1 DEF Elements, Amos, StillB, StillR, HalfDone, HalfAmo
<1> HIDE DEF g
<1>7. Covers(Elements(bq), StillB, OpenB)'
  <2>1. Covers(Elements(bq'), StillB, OpenB \ {g})
    <3>1. CASE We(g)
      BY <1>1, <3>1, RespondBeats DEF g
    <3>2. CASE ~We(g)
      BY <1>1, <3>2, CoversOther DEF OpenB, SInv, Order
    <3>3. QED  BY <3>1, <3>2
  <2>2. QED  BY <1>5, <1>6, <2>1 DEF Elements
<1>8. Covers(Elements(rq), StillR, OpenR)'
  <2>1. Covers(Elements(rq'), StillR, OpenR \ {g})
    <3>1. CASE OwesR(g)
      BY <1>1, <3>1, RespondBeats DEF g
    <3>2. CASE ~OwesR(g)
      BY <1>1, <3>2, CoversOther DEF OpenR, SInv, Order
    <3>3. QED  BY <3>1, <3>2
  <2>2. QED  BY <1>5, <1>6, <2>1 DEF Elements
<1>9. Numbered'
  BY <1>1, <1>2 DEF SInv, Order, Numbered
<1>10. Accepted'
  <2>1. g \notin Elements(awq) /\ g \notin Elements(arq)
    BY RespondLeaves DEF g
  <2>2. QED  BY <1>5, <1>6, <2>1 DEF SInv, Order, Accepted, We
<1>11. QueuesSorted'
  <2>1. Sorted(bq') /\ Sorted(rq')
    BY <1>1, RespondBeats DEF g, SInv, Order, QueuesSorted
  <2>2. QED  BY <1>1, <1>2, <2>1 DEF SInv, Order, QueuesSorted, Sorted
<1>12. Order'
  BY <1>6, <1>7, <1>8, <1>9, <1>10, <1>11 DEF SInv, Order
<1>13. Reported'
  <2>1. /\ We(g) => Elements(bq') = Elements(bq) \ {Head(bq)} /\ Head(bq).n = g.n
        /\ OwesR(g) => Elements(rq') = Elements(rq) \ {Head(rq)} /\ Head(rq).n = g.n
        /\ ~We(g) => Elements(bq') = Elements(bq)
        /\ ~OwesR(g) => Elements(rq') = Elements(rq)
    BY <1>1, RespondBeats DEF g
  <2>2. Beats' = Elements(bq') \cup Elements(rq')
    BY DEF Beats, Elements
  <2>3. Beats' \subseteq Beats /\ \A b \in Beats : b.n # g.n => b \in Beats'
    BY <2>1, <2>2 DEF Beats
  <2>4. \A r \in Open' : r \in Open /\ r.n # g.n
    BY <1>2, <1>4, OpenFacts DEF SInv, Distinct
  <2>5. QED
    BY <1>1, <2>3, <2>4 DEF SInv, Reported
<1>14. QED
  BY <1>12, <1>13

-----------------------------------------------------------------------------
(***************************************************************************)
(* The subordinate's steps.                                                *)
(***************************************************************************)
\* A beat for the oldest of those that are still to be answered on a channel.
LEMMA Produced ==
  ASSUME TypeOK, NEW q \in Seq(BeatType), Sorted(q), NEW still, NEW owed,
         Covers(Elements(q), still, owed), owed \subseteq Request,
         NEW r \in still, \A s \in still : s # r => r.n < s.n, NEW m \in MarkSets
  PROVE  /\ Sorted(Append(q, Beat(r, m)))
         /\ Elements(Append(q, Beat(r, m))) = Elements(q) \cup {Beat(r, m)}
         /\ Covers(Elements(Append(q, Beat(r, m))), still \ {r}, owed)
<1>1. r \in Request /\ Numbers(owed) /\ \A x \in BeatType : x.n \in Nat
  BY Queues DEF Covers, Numbers
<1>2. Beat(r, m) \in BeatType /\ Beat(r, m).n = r.n
  BY <1>1, BeatOfRequest DEF Beat
<1>3. \A b \in Elements(q) : b.n < Beat(r, m).n
  BY <1>2 DEF Covers
<1>4. /\ Sorted(Append(q, Beat(r, m)))
      /\ Elements(Append(q, Beat(r, m))) = Elements(q) \cup {Beat(r, m)}
  BY <1>1, <1>2, <1>3, ElementsAppend
<1>5. Covers(Elements(q) \cup {Beat(r, m)}, still \ {r}, owed)
  BY <1>1, <1>2, CoversProduced
<1>6. QED
  BY <1>4, <1>5

\* It is reported as what it is.
LEMMA ProducedReported ==
  ASSUME SInv, NEW r \in Open, NEW m \in MarkSets, r.kind = "amo" => "exok" \notin m,
         Beats' = Beats \cup {Beat(r, m)}, verdict' = verdict \cup Verdicts(r, m),
         UNCHANGED <<req, count, granted, sent>>
  PROVE  Reported'
<1>1. Open' = Open /\ Distinct(Open) /\ r.n <= count /\ Numbers(Open)
  BY OpenFacts DEF SInv, Open, Elements
<1>2. Beat(r, m).n = r.n /\ Beat(r, m).marks = m
  BY DEF Beat
<1>3. \A n, x : <<n, x>> \in Verdicts(r, m) <=> n = r.n /\ x \in m
  BY DEF Verdicts
<1>4. \A s \in Open, x \in AllMarks :
        <<s.n, x>> \in verdict' <=> \E b \in Beats' : b.n = s.n /\ x \in b.marks
  <2>1. ASSUME NEW s \in Open, NEW x \in AllMarks
        PROVE  <<s.n, x>> \in verdict' <=> \E b \in Beats' : b.n = s.n /\ x \in b.marks
    <3>1. <<s.n, x>> \in verdict <=> \E b \in Beats : b.n = s.n /\ x \in b.marks
      BY DEF SInv, Reported
    <3>2. <<s.n, x>> \in verdict' <=> <<s.n, x>> \in verdict \/ (s.n = r.n /\ x \in m)
      BY <1>3
    <3>3. (\E b \in Beats' : b.n = s.n /\ x \in b.marks)
            <=> (\E b \in Beats : b.n = s.n /\ x \in b.marks) \/ (s.n = r.n /\ x \in m)
      BY <1>2
    <3>4. QED  BY <3>1, <3>2, <3>3
  <2>2. QED  BY <2>1
<1>5. \A n \in Nat, x \in AllMarks : <<n, x>> \in verdict' => n <= count
  BY <1>1, <1>3 DEF SInv, Reported
<1>6. ASSUME req # NoReq, "aw" \notin sent, NEW x \in AllMarks
      PROVE  <<req.n, x>> \notin verdict'
  <2>1. <<req.n, x>> \notin verdict /\ r.n < req.n /\ req.n \in Nat
    BY <1>6, Youngest
  <2>2. r.n # req.n
    BY <1>1, <2>1 DEF Numbers
  <2>3. QED  BY <1>3, <2>1, <2>2
<1>7. ASSUME NEW s \in Open, NEW b \in Beats', b.n = s.n, s.kind = "amo"
      PROVE  "exok" \notin b.marks
  <2>1. CASE b \in Beats
    BY <1>7, <2>1 DEF SInv, Reported
  <2>2. CASE b = Beat(r, m)
    <3>1. s = r
      BY <1>1, <1>2, <1>7, <2>2 DEF Distinct
    <3>2. QED  BY <1>2, <1>7, <2>2, <3>1
  <2>3. QED  BY <1>7, <2>1, <2>2
<1>8. QED
  BY <1>1, <1>4, <1>5, <1>6, <1>7 DEF Reported

\* What a step of the subordinate leaves alone.
LEMMA SlaveLeaves ==
  ASSUME SInv, UNCHANGED <<req, count, granted, sent>>
  PROVE  /\ Open' = Open /\ OpenB' = OpenB /\ OpenR' = OpenR
         /\ Numbered' /\ Sorted(granted)' /\ OpenB \subseteq Request /\ OpenR \subseteq Request
BY OpenFacts DEF SInv, Order, Numbered, QueuesSorted, Sorted, Open, OpenB, OpenR, Elements, We, OwesR

LEMMA SlaveReadKeeps ==
  ASSUME OrderedR, SInv, NEW m \in MarkSets, SlaveRead(m)
  PROVE  Order' /\ Reported'
<1> DEFINE r == Head(arq)
<1>1. /\ arq # <<>> /\ arq' = Tail(arq) /\ rq' = Append(rq, Beat(r, m))
      /\ verdict' = verdict \cup Verdicts(r, m) /\ OlderThan(r, AmosOwingR) = {}
      /\ UNCHANGED <<req, count, granted, sent, awq, half, bq>>
  BY DEF SlaveRead
<1>2. /\ r \in Elements(arq) /\ Sorted(arq') /\ Elements(arq') = Elements(arq) \ {r}
      /\ \A x \in Elements(arq) \ {r} : r.n < x.n
  BY <1>1, Queues, ElementsTail DEF SInv, IInv, Order, QueuesSorted
<1>3. r \in OpenR /\ r \in Open /\ ~We(r)
  BY <1>2 DEF SInv, Order, Accepted, OpenR
<1>4. /\ Open' = Open /\ OpenB' = OpenB /\ OpenR' = OpenR
      /\ Numbered' /\ Sorted(granted)' /\ OpenR \subseteq Request
  BY <1>1, SlaveLeaves
<1>5. ASSUME NEW s \in Amos, s \notin HalfDone("r") PROVE r.n < s.n
  <2>1. s \in AmosOwingR
    <3>1. PICK i \in 1 .. Len(awq) : s = awq[i]
      BY DEF Amos, Elements
    <3>2. awq \in Seq(Request) /\ (i = 1 => awq # <<>> /\ s = Head(awq))
      BY <3>1, Queues, EmptySeq, HeadTailProperties DEF SInv, IInv
    <3>3. ~(i = 1 /\ "r" \in half)
      BY <1>5, <3>2 DEF HalfDone
    <3>4. QED  BY <3>1, <3>3 DEF Amos, AmosOwingR
  <2>2. s \in OpenB /\ s \in Open
    BY DEF Amos, SInv, Order, Accepted, OpenB
  <2>3. s # r
    BY <1>3, <2>2 DEF OpenB
  <2>4. s.n # r.n /\ s.n \in Nat /\ r.n \in Nat
    BY <1>3, <2>2, <2>3, OpenFacts DEF SInv, Distinct, Numbers
  <2>5. QED  BY <1>1, <2>1, <2>4 DEF OlderThan
<1>6. r \in StillR /\ \A s \in StillR : s # r => r.n < s.n
  BY <1>2, <1>5 DEF StillR
<1>7. /\ UNCHANGED <<Elements(awq), Elements(bq), Amos, StillB, HalfAmo, HalfDone("r")>>
      /\ StillR' = StillR \ {r}
  <2>1. r \notin Amos
    BY <1>3 DEF Amos, We
  <2>2. UNCHANGED <<Elements(awq), Elements(bq), Amos, StillB, HalfAmo, HalfDone("r")>>
    BY <1>1 DEF Elements, Amos, StillB, HalfAmo, HalfDone
  <2>3. QED  BY <1>2, <2>1, <2>2 DEF StillR, Elements
<1> HIDE DEF r
<1>8. /\ Sorted(rq') /\ Elements(rq') = Elements(rq) \cup {Beat(r, m)}
      /\ Covers(Elements(rq'), StillR \ {r}, OpenR)
  <2>1. rq \in Seq(BeatType) /\ Sorted(rq) /\ Covers(Elements(rq), StillR, OpenR) /\ TypeOK
    BY Queues DEF SInv, IInv, Order, QueuesSorted
  <2>2. /\ Sorted(Append(rq, Beat(r, m)))
        /\ Elements(Append(rq, Beat(r, m))) = Elements(rq) \cup {Beat(r, m)}
        /\ Covers(Elements(Append(rq, Beat(r, m))), StillR \ {r}, OpenR)
    BY <1>4, <1>6, <2>1, Produced
  <2>3. QED  BY <1>1, <2>2
<1>9. Covers(Elements(rq), StillR, OpenR)' /\ Covers(Elements(bq), StillB, OpenB)'
  BY <1>4, <1>7, <1>8 DEF SInv, Order, Elements
<1>10. Accepted'
  BY <1>2, <1>4, <1>7 DEF SInv, Order, Accepted, We, Elements
<1>11. QueuesSorted'
  BY <1>1, <1>2, <1>4, <1>8 DEF SInv, Order, QueuesSorted, Sorted
<1>12. Order'
  BY <1>4, <1>7, <1>9, <1>10, <1>11 DEF SInv, Order
<1>13. Beats' = Beats \cup {Beat(r, m)}
  BY <1>7, <1>8 DEF Beats, Elements
<1>14. r.kind # "amo"
  BY <1>3 DEF We
<1>15. QED
  BY <1>1, <1>3, <1>12, <1>13, <1>14, ProducedReported

\* The oldest accepted write or atomic.
LEMMA OldestWrite ==
  ASSUME SInv, awq # <<>>, NEW r, r = Head(awq)
  PROVE  /\ r \in Elements(awq) /\ Sorted(Tail(awq)) /\ Elements(Tail(awq)) = Elements(awq) \ {r}
         /\ \A x \in Elements(awq) \ {r} : r.n < x.n
         /\ r \in OpenB /\ r \in Open /\ We(r) /\ r \notin Elements(arq)
         /\ bq \in Seq(BeatType) /\ Sorted(bq) /\ rq \in Seq(BeatType) /\ Sorted(rq) /\ TypeOK
<1>1. /\ r \in Elements(awq) /\ Sorted(Tail(awq)) /\ Elements(Tail(awq)) = Elements(awq) \ {r}
      /\ \A x \in Elements(awq) \ {r} : r.n < x.n
  BY Queues, ElementsTail DEF SInv, IInv, Order, QueuesSorted
<1>2. r \in OpenB /\ r \in Open /\ We(r)
  BY <1>1 DEF SInv, Order, Accepted, OpenB
<1>3. QED
  BY <1>1, <1>2, Queues DEF SInv, IInv, Order, QueuesSorted, Accepted

LEMMA SlaveWriteKeeps ==
  ASSUME SInv, NEW m \in MarkSets, SlaveWrite(m)
  PROVE  Order' /\ Reported'
<1> DEFINE r == Head(awq)
<1>1. /\ awq # <<>> /\ awq' = Tail(awq) /\ bq' = Append(bq, Beat(r, m)) /\ r.kind # "amo"
      /\ verdict' = verdict \cup Verdicts(r, m)
      /\ UNCHANGED <<req, count, granted, sent, arq, half, rq>>
  BY DEF SlaveWrite
<1>2. half = {}
  BY <1>1 DEF SInv, Order, HalfAmo
<1>3. /\ Open' = Open /\ OpenB' = OpenB /\ OpenR' = OpenR
      /\ Numbered' /\ Sorted(granted)' /\ OpenB \subseteq Request
  BY <1>1, SlaveLeaves
<1>4. /\ StillB = Elements(awq) /\ UNCHANGED <<Elements(arq), Elements(rq), Amos, StillR, HalfAmo>>
      /\ Elements(awq)' = Elements(awq) \ {r} /\ StillB' = StillB \ {r}
  <2>1. UNCHANGED <<Elements(arq), Elements(rq)>> /\ Elements(awq)' = Elements(awq) \ {r}
    BY <1>1, OldestWrite DEF Elements
  <2>2. HalfDone("b") = {} /\ HalfDone("r") = {} /\ (HalfDone("b"))' = {} /\ (HalfDone("r"))' = {}
    BY <1>1, <1>2 DEF HalfDone
  <2>3. Amos' = Amos
    BY <1>1, <2>1 DEF Amos
  <2>4. QED  BY <1>1, <1>2, <2>1, <2>2, <2>3 DEF StillB, StillR, HalfAmo
<1>5. /\ Sorted(Append(bq, Beat(r, m)))
      /\ Elements(Append(bq, Beat(r, m))) = Elements(bq) \cup {Beat(r, m)}
      /\ Covers(Elements(Append(bq, Beat(r, m))), StillB \ {r}, OpenB)
  <2>1. r \in StillB /\ \A s \in StillB : s # r => r.n < s.n
    BY <1>1, <1>4, OldestWrite
  <2>2. bq \in Seq(BeatType) /\ Sorted(bq) /\ TypeOK /\ Covers(Elements(bq), StillB, OpenB)
    BY <1>1, OldestWrite DEF SInv, Order
  <2>3. QED  BY <1>3, <2>1, <2>2, Produced
<1>6. r \in Open /\ Sorted(awq')
  BY <1>1, OldestWrite
<1> HIDE DEF r
<1>7. Sorted(bq') /\ Elements(bq)' = Elements(bq) \cup {Beat(r, m)}
  BY <1>1, <1>5 DEF Elements
<1>8. Covers(Elements(rq), StillR, OpenR)' /\ Covers(Elements(bq), StillB, OpenB)'
  <2>1. Elements(bq)' = Elements(Append(bq, Beat(r, m)))
    BY <1>5, <1>7
  <2>2. QED  BY <1>3, <1>4, <1>5, <2>1 DEF SInv, Order
<1>9. Accepted'
  BY <1>3, <1>4 DEF SInv, Order, Accepted, We
<1>10. QueuesSorted'
  BY <1>1, <1>3, <1>6, <1>7 DEF SInv, Order, QueuesSorted, Sorted
<1>11. Order'
  BY <1>3, <1>4, <1>8, <1>9, <1>10 DEF SInv, Order
<1>12. Beats' = Beats \cup {Beat(r, m)}
  BY <1>4, <1>7 DEF Beats
<1>13. QED
  BY <1>1, <1>6, <1>11, <1>12, ProducedReported

\* Whichever beat of an atomic comes first, it is owed no longer, and the other is.
LEMMA AmoOwed ==
  ASSUME SInv, NEW m \in MarkSets, NEW c \in {"b", "r"}, SlaveAmo(c, m), NEW r, r = Head(awq)
  PROVE  /\ StillB' = (IF c = "b" THEN StillB \ {r} ELSE StillB)
         /\ StillR' = (IF c = "r" THEN StillR \ {r} ELSE StillR)
         /\ c = "b" => r \in StillB
         /\ c = "r" => r \in StillR
         /\ HalfAmo' /\ Sorted(awq') /\ Elements(awq)' \subseteq Elements(awq)
<1>1. /\ awq # <<>> /\ r.kind = "amo" /\ c \notin half /\ arq' = arq
      /\ IF half = {} THEN half' = {c} /\ awq' = awq ELSE half' = {} /\ awq' = Tail(awq)
  BY DEF SlaveAmo
<1>2. /\ r \in Elements(awq) /\ Sorted(Tail(awq)) /\ Elements(Tail(awq)) = Elements(awq) \ {r}
      /\ r \notin Elements(arq)
  BY <1>1, OldestWrite
<1>3. Elements(arq)' = Elements(arq)
  BY <1>1 DEF Elements
<1>4. r \in Amos
  BY <1>1, <1>2 DEF Amos
<1>5. half \subseteq {"b", "r"}
  BY DEF SInv, IInv, TypeOK
<1>6. (c = "b" => r \in StillB) /\ (c = "r" => r \in StillR)
  BY <1>1, <1>2, <1>4 DEF StillB, StillR, HalfDone
<1>7. CASE half = {}
  <2>1. awq' = awq /\ Elements(awq)' = Elements(awq) /\ Amos' = Amos /\ half' = {c}
    BY <1>1, <1>7 DEF Elements, Amos
  <2>2. HalfDone("b") = {} /\ HalfDone("r") = {}
    BY <1>7 DEF HalfDone
  <2>3. (HalfDone("b"))' = (IF c = "b" THEN {r} ELSE {}) /\ (HalfDone("r"))' = (IF c = "r" THEN {r} ELSE {})
    BY <2>1 DEF HalfDone
  <2>4. HalfAmo'
    <3>1. awq' # <<>> /\ Head(awq') = r
      BY <1>1, <2>1
    <3>2. {c} # {"b", "r"}
      OBVIOUS
    <3>3. QED  BY <1>1, <2>1, <3>1, <3>2 DEF HalfAmo
  <2>5. Sorted(awq')
    BY <2>1 DEF SInv, Order, QueuesSorted
  <2>6. StillB' = (IF c = "b" THEN StillB \ {r} ELSE StillB)
    BY <2>1, <2>2, <2>3 DEF StillB
  <2>7. StillR' = (IF c = "r" THEN StillR \ {r} ELSE StillR)
    BY <1>2, <1>3, <2>1, <2>2, <2>3 DEF StillR
  <2>8. QED  BY <1>6, <2>1, <2>4, <2>5, <2>6, <2>7
<1>8. CASE half # {}
  <2>1. awq' = Tail(awq) /\ Elements(awq)' = Elements(awq) \ {r} /\ Amos' = Amos \ {r} /\ half' = {}
    <3>1. awq' = Tail(awq) /\ half' = {}
      BY <1>1, <1>8
    <3>2. Elements(awq)' = Elements(awq) \ {r}
      BY <1>2, <3>1 DEF Elements
    <3>3. QED  BY <3>1, <3>2 DEF Amos
  <2>2. /\ HalfDone("b") = (IF c = "b" THEN {} ELSE {r})
        /\ HalfDone("r") = (IF c = "r" THEN {} ELSE {r})
    BY <1>1, <1>5, <1>8 DEF HalfDone
  <2>3. (HalfDone("b"))' = {} /\ (HalfDone("r"))' = {}
    BY <2>1 DEF HalfDone
  <2>4. HalfAmo'
    BY <2>1 DEF HalfAmo
  <2>5. Sorted(awq')
    BY <1>2, <2>1
  <2>6. StillB' = (IF c = "b" THEN StillB \ {r} ELSE StillB)
    BY <2>1, <2>2, <2>3 DEF StillB
  <2>7. StillR' = (IF c = "r" THEN StillR \ {r} ELSE StillR)
    BY <1>2, <1>3, <2>1, <2>2, <2>3 DEF StillR
  <2>8. QED  BY <1>6, <2>1, <2>4, <2>5, <2>6, <2>7
<1>9. QED
  BY <1>7, <1>8

LEMMA SlaveAmoKeeps ==
  ASSUME OrderedR, SInv, NEW m \in MarkSets, NEW c \in {"b", "r"}, SlaveAmo(c, m)
  PROVE  Order' /\ Reported'
<1> DEFINE r == Head(awq)
<1>1. /\ awq # <<>> /\ r.kind = "amo" /\ m \in MarksFor(r)
      /\ c = "r" => OlderThan(r, Elements(arq)) = {}
      /\ bq' = (IF c = "b" THEN Append(bq, Beat(r, m)) ELSE bq)
      /\ rq' = (IF c = "r" THEN Append(rq, Beat(r, m)) ELSE rq)
      /\ verdict' = verdict \cup Verdicts(r, m)
      /\ UNCHANGED <<req, count, granted, sent, arq>>
  BY DEF SlaveAmo, Elements
<1>2. /\ r \in Elements(awq) /\ r \in Open /\ \A x \in Elements(awq) \ {r} : r.n < x.n
      /\ r \notin Elements(arq)
      /\ bq \in Seq(BeatType) /\ Sorted(bq) /\ rq \in Seq(BeatType) /\ Sorted(rq) /\ TypeOK
  BY <1>1, OldestWrite
<1>3. /\ Open' = Open /\ OpenB' = OpenB /\ OpenR' = OpenR
      /\ Numbered' /\ Sorted(granted)' /\ OpenB \subseteq Request /\ OpenR \subseteq Request
  BY <1>1, SlaveLeaves
<1>4. /\ StillB' = (IF c = "b" THEN StillB \ {r} ELSE StillB)
      /\ StillR' = (IF c = "r" THEN StillR \ {r} ELSE StillR)
      /\ c = "b" => r \in StillB
      /\ c = "r" => r \in StillR
      /\ HalfAmo' /\ Sorted(awq') /\ Elements(awq)' \subseteq Elements(awq)
  BY AmoOwed
<1>5. \A s \in StillB : s # r => r.n < s.n
  BY <1>2 DEF StillB
<1>6. c = "r" => \A s \in StillR : s # r => r.n < s.n
  <2>1. ASSUME c = "r", NEW s \in Elements(arq) PROVE r.n < s.n
    <3>1. s \in Open /\ s # r
      BY <1>2, <2>1 DEF SInv, Order, Accepted, OpenR
    <3>2. s.n # r.n /\ s.n \in Nat /\ r.n \in Nat
      BY <1>2, <3>1, OpenFacts DEF SInv, Distinct, Numbers
    <3>3. QED  BY <1>1, <2>1, <3>2 DEF OlderThan
  <2>2. QED  BY <1>2, <2>1 DEF StillR, Amos
<1>7. "exok" \notin m
  BY <1>1 DEF MarksFor
<1> HIDE DEF r
<1>8. c = "b" => /\ Sorted(Append(bq, Beat(r, m)))
                 /\ Elements(Append(bq, Beat(r, m))) = Elements(bq) \cup {Beat(r, m)}
                 /\ Covers(Elements(Append(bq, Beat(r, m))), StillB \ {r}, OpenB)
  BY <1>2, <1>3, <1>4, <1>5, Produced DEF SInv, Order
<1>9. c = "r" => /\ Sorted(Append(rq, Beat(r, m)))
                 /\ Elements(Append(rq, Beat(r, m))) = Elements(rq) \cup {Beat(r, m)}
                 /\ Covers(Elements(Append(rq, Beat(r, m))), StillR \ {r}, OpenR)
  BY <1>2, <1>3, <1>4, <1>6, Produced DEF SInv, Order
<1>10. /\ Sorted(bq') /\ Sorted(rq') /\ Elements(arq)' = Elements(arq)
       /\ Elements(bq)' = Elements(bq) \cup (IF c = "b" THEN {Beat(r, m)} ELSE {})
       /\ Elements(rq)' = Elements(rq) \cup (IF c = "r" THEN {Beat(r, m)} ELSE {})
  BY <1>1, <1>2, <1>8, <1>9 DEF Elements
<1>11. Covers(Elements(bq), StillB, OpenB)' /\ Covers(Elements(rq), StillR, OpenR)'
  <2>1. CASE c = "b"
    <3>1. /\ Elements(bq)' = Elements(Append(bq, Beat(r, m))) /\ Elements(rq)' = Elements(rq)
          /\ StillB' = StillB \ {r} /\ StillR' = StillR
      BY <1>1, <1>4, <2>1 DEF Elements
    <3>2. QED  BY <1>3, <1>8, <2>1, <3>1 DEF SInv, Order
  <2>2. CASE c = "r"
    <3>1. /\ Elements(rq)' = Elements(Append(rq, Beat(r, m))) /\ Elements(bq)' = Elements(bq)
          /\ StillR' = StillR \ {r} /\ StillB' = StillB
      BY <1>1, <1>4, <2>2 DEF Elements
    <3>2. QED  BY <1>3, <1>9, <2>2, <3>1 DEF SInv, Order
  <2>3. QED  BY <2>1, <2>2
<1>12. Accepted'
  BY <1>3, <1>4, <1>10 DEF SInv, Order, Accepted, We
<1>13. QueuesSorted'
  BY <1>1, <1>3, <1>4, <1>10 DEF SInv, Order, QueuesSorted, Sorted
<1>14. Order'
  BY <1>3, <1>4, <1>11, <1>12, <1>13 DEF Order
<1>15. Beats' = Beats \cup {Beat(r, m)}
  BY <1>10 DEF Beats
<1>16. QED
  BY <1>1, <1>2, <1>7, <1>14, <1>15, ProducedReported

-----------------------------------------------------------------------------
(***************************************************************************)
(* The invariant holds if the subordinate keeps read data in order.        *)
(***************************************************************************)
LEMMA StutterKeeps ==
  ASSUME SInv, UNCHANGED vars
  PROVE  Order' /\ Reported'
<1> USE DEF vars
<1>1. /\ UNCHANGED <<Elements(granted), Elements(awq), Elements(arq), Elements(bq), Elements(rq),
                     QueuesSorted, Amos, StillB, StillR, HalfAmo, Beats>>
      /\ Open' = Open /\ OpenB' = OpenB /\ OpenR' = OpenR
  BY DEF Elements, QueuesSorted, Sorted, StillB, StillR, HalfDone, Amos, HalfAmo, Open, OpenB,
     OpenR, We, OwesR, Beats
<1>2. Numbered' /\ Accepted'
  BY <1>1 DEF SInv, Order, Numbered, Accepted, We
<1>3. Reported'
  BY <1>1 DEF SInv, Reported
<1>4. QED
  BY <1>1, <1>2, <1>3 DEF SInv, Order

LEMMA NextSInv == OrderedR /\ SInv /\ [Next]_vars => SInv'
<1> SUFFICES ASSUME OrderedR, SInv, [Next]_vars PROVE Order' /\ Reported'
  BY NextIInv DEF SInv
<1>1. CASE \E k \in Kinds, a \in Aids, l \in Lanes : ObiRequest(k, a, l)
  BY <1>1, RequestKeeps
<1>2. CASE SendRead
  BY <1>2, SendReadKeeps
<1>3. CASE Write
  BY <1>3, SendWriteKeeps DEF Write
<1>4. CASE Respond
  BY <1>4, RespondKeeps
<1>5. CASE \E m \in MarkSets : SlaveRead(m)
  BY <1>5, SlaveReadKeeps
<1>6. CASE \E m \in MarkSets : SlaveWrite(m)
  BY <1>6, SlaveWriteKeeps
<1>7. CASE \E m \in MarkSets, c \in {"b", "r"} : SlaveAmo(c, m)
  BY <1>7, SlaveAmoKeeps
<1>8. CASE UNCHANGED vars
  BY <1>8, StutterKeeps
<1>9. QED
  BY <1>1, <1>2, <1>3, <1>4, <1>5, <1>6, <1>7, <1>8 DEF Next

LEMMA SInductive == ASSUME OrderedR PROVE Spec => []SInv
<1>1. SInv /\ [Next]_vars => SInv'
  BY NextSInv
<1>2. QED
  BY InitSInv, <1>1, PTL DEF Spec

-----------------------------------------------------------------------------
(***************************************************************************)
(* The theorems.                                                           *)
(***************************************************************************)
\* A grant of the bridge is a grant of the service.
LEMMA GrantServed ==
  ASSUME SInv, req # NoReq, ~FifoFull, Grant, UNCHANGED <<count, rsp>>
  PROVE  Service!GrantOne
BY ObiServiceAssumption, LenProperties
   DEF SInv, IInv, TypeOK, TagsMatchGrants, FifoFull, Grant, Service!GrantOne, Service!NoReq, NoReq

\* Every step of the bridge and its subordinate is one of the service or none.
LEMMA NextServed == SInv /\ [Next]_vars => [Service!ServiceNext]_(Service!serviceVars)
<1> SUFFICES ASSUME SInv, [Next]_vars
             PROVE  Service!ServiceNext \/ UNCHANGED <<req, count, granted, rsp>>
  BY DEF Service!serviceVars
<1>1. CASE \E k \in Kinds, a \in Aids, l \in Lanes : ObiRequest(k, a, l)
  BY <1>1 DEF ObiRequest, Present, NoReq, Service!ServiceNext, Service!Present, Service!NoReq
<1>2. CASE SendRead
  BY <1>2, GrantServed DEF SendRead, ArValid, Service!ServiceNext
<1>3. CASE Write
  <2>1. PICK ready \in SUBSET WriteChannels : SendWrite(ready)
    BY <1>3 DEF Write
  <2>2. req # NoReq /\ ~FifoFull /\ UNCHANGED <<count, rsp>>
    BY <2>1 DEF SendWrite
  <2>3. Grant \/ UNCHANGED <<granted, req>>
    BY <2>1 DEF SendWrite
  <2>4. QED  BY <2>2, <2>3, GrantServed DEF Service!ServiceNext
<1>4. CASE Respond
  <2>1. PICK g : g = Head(granted)
    OBVIOUS
  <2>2. /\ granted # <<>> /\ granted' = Tail(granted) /\ UNCHANGED <<req, count>>
        /\ rsp'.marks \in MarkSets
        /\ rsp' = [rid |-> g.aid, lane |-> g.lane, b |-> BeatOf(g, We(g)),
                   r |-> BeatOf(g, OwesR(g)), marks |-> rsp'.marks]
    BY <1>4, <2>1, RespondTakes, RespondAnswers DEF Respond
  <2>3. Service!AnswerOldest
    BY <2>1, <2>2 DEF Service!AnswerOldest, Service!BeatOf, Service!We, Service!OwesR, BeatOf, We, OwesR
  <2>4. QED  BY <2>3 DEF Service!ServiceNext
<1>5. CASE \E m \in MarkSets : SlaveRead(m)
  BY <1>5 DEF SlaveRead
<1>6. CASE \E m \in MarkSets : SlaveWrite(m)
  BY <1>6 DEF SlaveWrite
<1>7. CASE \E m \in MarkSets, c \in {"b", "r"} : SlaveAmo(c, m)
  BY <1>7 DEF SlaveAmo
<1>8. CASE UNCHANGED vars
  BY <1>8 DEF vars
<1>9. QED
  BY <1>1, <1>2, <1>3, <1>4, <1>5, <1>6, <1>7, <1>8 DEF Next

\* obi_to_axi implements an in-order OBI subordinate: whatever the depth of its
\* FIFO and whenever AW, W, AR, B and R are handshaken, it grants a request
\* once and answers the grants in order, each with its own ID, lane and beats.
THEOREM InOrder == ASSUME OrderedR PROVE Spec => InOrderService
<1>1. Init => Service!ServiceInit
  BY DEF Init, ServiceInit, NoReq, NoRsp, Service!ServiceInit, Service!NoReq, Service!NoRsp
<1>2. QED
  BY <1>1, NextServed, SInductive, PTL DEF Spec, InOrderService, Service!ServiceSpec

\* A response reports exactly the errors, the ECC faults and the exclusive
\* success of the beats of its own request, of both for an atomic.
THEOREM FaultsOwn == ASSUME OrderedR PROVE Spec => FaultsReported
<1> DEFINE Own == rsp' # rsp =>
             LET n == IF rsp'.b # 0 THEN rsp'.b ELSE rsp'.r IN
             rsp'.marks = {x \in AllMarks : <<n, x>> \in verdict}
<1>1. SInv /\ [Next]_vars => [Own]_vars
  <2> SUFFICES ASSUME SInv, Next, rsp' # rsp PROVE Own
    OBVIOUS
  <2>1. Respond
    BY DEF Next, ObiRequest, Present, SendRead, Write, SendWrite, SlaveRead, SlaveWrite, SlaveAmo
  <2>2. PICK g : g = Head(granted)
    OBVIOUS
  <2>3. /\ rsp' = [rid |-> g.aid, lane |-> g.lane, b |-> BeatOf(g, We(g)),
                   r |-> BeatOf(g, OwesR(g)), marks |-> rsp'.marks]
        /\ rsp'.marks = {x \in AllMarks : <<g.n, x>> \in verdict}
    BY <2>1, <2>2, RespondAnswers
  <2>4. g \in Open /\ 0 < g.n /\ g.n \in Nat /\ (We(g) \/ OwesR(g))
    <3>1. g \in Open /\ 0 < g.n /\ g.n \in Nat /\ g \in Request
      BY <2>1, <2>2, RespondTakes, OldestOpen, OpenFacts DEF SInv, Numbers
    <3>2. QED  BY <3>1, ObiServiceAssumption DEF Request, We, OwesR, AllKinds
  <2>5. (IF rsp'.b # 0 THEN rsp'.b ELSE rsp'.r) = g.n
    BY <2>3, <2>4 DEF BeatOf
  <2>6. QED  BY <2>3, <2>5
<1>2. QED
  BY <1>1, SInductive, PTL DEF Spec, FaultsReported
=============================================================================
