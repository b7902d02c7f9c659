----------------------------- MODULE AxiService -----------------------------
(***************************************************************************)
(* What an AXI subordinate promises the manager of its port: every beat of *)
(* an accepted read or atomic is answered by one R beat, in order and with *)
(* the last one flagged; every accepted write, once all its data has been  *)
(* accepted, by one B; in each direction the bursts are answered in the    *)
(* order in which they were sent.  How and when is not said, nor how reads *)
(* and writes mix.                                                         *)
(***************************************************************************)
EXTENDS Naturals

CONSTANTS
  Bursts,  \* bursts: n, their number in their direction, write, len and atop, at least
  NoBurst  \* there is no burst on the channel

VARIABLES
  ar, aw,  \* the bursts on the AR and AW channels
  data,    \* there is a beat on the W channel
  nr, nw,  \* numbers of the latest read and write sent
  unsent,  \* the beats of the write in progress whose data is still to be accepted
  owed,    \* the responses that are owed for accepted bursts
  rsp      \* the responses given in the latest cycle

serviceVars == <<ar, aw, data, nr, nw, unsent, owed, rsp>>

Beat(b, i) == [of |-> b, i |-> i, last |-> i = b.len]
Beats(b) == {Beat(b, i) : i \in 0 .. b.len}

\* A write owes B for its last beat; a read, and an atomic, R for each one.
Channels(x) ==
  (IF x.of.write /\ x.last THEN {"b"} ELSE {}) \cup
  (IF ~x.of.write \/ x.of.atop THEN {"r"} ELSE {})
Response(chan, x) == [chan |-> chan, of |-> x.of, i |-> x.i, last |-> x.last]
Responses(x) == {Response(c, x) : c \in Channels(x)}
ResponsesTo(b) == UNION {Responses(x) : x \in Beats(b)}

Older(x, y) == x.of.n < y.of.n \/ (x.of = y.of /\ x.i < y.i)

ServiceInit ==
  /\ ar = NoBurst /\ aw = NoBurst /\ ~data /\ nr = 0 /\ nw = 0
  /\ unsent = {} /\ owed = {} /\ rsp = {}

\* The manager sends the next read.
SendRead ==
  /\ ar = NoBurst
  /\ ar' \in Bursts /\ ~ar'.write /\ ar'.n = nr' /\ nr' = nr + 1
  /\ UNCHANGED <<aw, data, nw, unsent, owed, rsp>>

SendWrite ==
  /\ aw = NoBurst
  /\ aw' \in Bursts /\ aw'.write /\ aw'.n = nw' /\ nw' = nw + 1
  /\ UNCHANGED <<ar, data, nr, unsent, owed, rsp>>

\* It sends the next beat of the write in progress, or the first of the next one.
SendData ==
  /\ ~data /\ (unsent # {} \/ aw # NoBurst)
  /\ data'
  /\ UNCHANGED <<ar, aw, nr, nw, unsent, owed, rsp>>

\* The subordinate accepts a read.
AcceptRead ==
  /\ ar # NoBurst
  /\ ar' = NoBurst
  /\ owed' = owed \cup ResponsesTo(ar)
  /\ UNCHANGED <<aw, data, nr, nw, unsent, rsp>>

\* A write is accepted together with its first beat, once the one before has ended.
AcceptWrite ==
  /\ aw # NoBurst /\ data /\ unsent = {}
  /\ aw' = NoBurst /\ ~data'
  /\ unsent' = Beats(aw) \ {Beat(aw, 0)}
  /\ owed' = owed \cup ResponsesTo(aw)
  /\ UNCHANGED <<ar, nr, nw, rsp>>

AcceptData ==
  /\ data /\ ~data'
  /\ \E x \in unsent :
       /\ \A y \in unsent : x.i <= y.i
       /\ unsent' = unsent \ {x}
  /\ UNCHANGED <<ar, aw, nr, nw, owed, rsp>>

\* A response may be given when its own data is in and no older one is owed on its
\* channel to the same direction.
MayGive(x) ==
  /\ \A y \in unsent : y.of = x.of => x.i < y.i
  /\ \A y \in owed : y.chan = x.chan /\ y.of.write = x.of.write => ~Older(y, x)

\* A cycle of the response channels: one response on each at most.
Respond ==
  \E given \in SUBSET owed :
    /\ \A x \in given : MayGive(x)
    /\ \A x, y \in given : x.chan = y.chan => x = y
    /\ owed' = owed \ given
    /\ rsp' = given
    /\ UNCHANGED <<ar, aw, data, nr, nw, unsent>>

ServiceNext ==
  \/ SendRead \/ SendWrite \/ SendData
  \/ AcceptRead \/ AcceptWrite \/ AcceptData
  \/ Respond

ServiceSpec == ServiceInit /\ [][ServiceNext]_serviceVars
=============================================================================
