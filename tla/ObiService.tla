----------------------------- MODULE ObiService -----------------------------
(***************************************************************************)
(* What an OBI subordinate promises its manager: a request is held until   *)
(* it is granted, at most MaxRequests granted requests are unanswered, and *)
(* they are answered one by one in the order of their grants, each with    *)
(* the ID and the data lane of its own request and with the beats that     *)
(* were produced for it.  How the answer comes about is not said.          *)
(***************************************************************************)
EXTENDS Naturals, Sequences

CONSTANTS
  MaxRequests,  \* granted requests that may be unanswered
  Kinds,        \* the kinds of requests the managers send
  Aids,         \* OBI address-phase IDs
  Lanes,        \* positions of an OBI word in an AXI beat
  MarkSets,     \* sets of marks an AXI response beat may carry
  MaxPresented  \* bound: number of requests presented in a behaviour

VARIABLES
  req,      \* the request on the OBI A channel, or NoReq
  count,    \* number of requests presented so far
  granted,  \* the granted and unanswered requests, oldest first
  rsp       \* the latest response on the OBI R channel

AllKinds == {"read", "lr", "write", "sc", "amo"}

ASSUME ObiServiceAssumption ==
  /\ MaxRequests \in Nat \ {0}
  /\ Kinds \subseteq AllKinds
  /\ MaxPresented \in Nat

\* OBI a.we of a request; atomics are presented with we set.
We(r) == r.kind \in {"write", "sc", "amo"}
\* The request owes read data.
OwesR(r) == r.kind \in {"read", "lr", "amo"}

Request == [n : Nat, kind : Kinds, aid : Aids, lane : Lanes]
NoReq == [n |-> 0, kind |-> "none"]
NoRsp == [rid |-> 0, lane |-> 0, b |-> 0, r |-> 0, marks |-> {}]

\* Serial numbers of the beats an answer to g is made of (0: no such beat).
BeatOf(g, owed) == IF owed THEN g.n ELSE 0

serviceVars == <<req, count, granted, rsp>>

ServiceInit == req = NoReq /\ count = 0 /\ granted = <<>> /\ rsp = NoRsp

\* A manager raises req with a new request.
Present(k, a, l) ==
  /\ req = NoReq
  /\ count < MaxPresented
  /\ count' = count + 1
  /\ req' = [n |-> count + 1, kind |-> k, aid |-> a, lane |-> l]
  /\ UNCHANGED <<granted, rsp>>

\* The subordinate grants the request on the A channel.
GrantOne ==
  /\ req # NoReq
  /\ Len(granted) < MaxRequests
  /\ granted' = Append(granted, req)
  /\ req' = NoReq
  /\ UNCHANGED <<count, rsp>>

\* The subordinate answers the oldest granted request.
AnswerOldest ==
  /\ granted # <<>>
  /\ \E m \in MarkSets :
       LET g == Head(granted) IN
       rsp' = [rid |-> g.aid, lane |-> g.lane, b |-> BeatOf(g, We(g)),
               r |-> BeatOf(g, OwesR(g)), marks |-> m]
  /\ granted' = Tail(granted)
  /\ UNCHANGED <<req, count>>

ServiceNext ==
  \/ \E k \in Kinds, a \in Aids, l \in Lanes : Present(k, a, l)
  \/ GrantOne
  \/ AnswerOldest

ServiceSpec == ServiceInit /\ [][ServiceNext]_serviceVars
=============================================================================
