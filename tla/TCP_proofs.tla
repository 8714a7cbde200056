------------------------------ MODULE TCP_proofs ------------------------------
(***************************************************************************)
(* Proofs about TCP, for any initial sequence numbers, window, segment     *)
(* size, numbers of attempts and of bytes, and any network: the two        *)
(* agreements between the ends that a connection rests on, and the order   *)
(* of what is delivered.  No end takes itself for connected before the     *)
(* other has its initial sequence number (HandshakeAgreed), nor the        *)
(* other's side for closed before the other's FIN (FinWasSent).  When only *)
(* the client writes, the server's observer is notified of each byte once  *)
(* and in order (InOrder), and of one for each number of a buffer whose    *)
(* write() returned size (WriteMeansReceived), if the client connected at  *)
(* its first attempt.                                                      *)
(*                                                                         *)
(* The first invariant, CInv, has a part for each end by itself (EndOK),   *)
(* one for each segment on its way, which says what its sender must have   *)
(* done (SegmentOK), and one that relates the two ends (Agreement).  The   *)
(* second, DInv, relates the server's end to what it delivered             *)
(* (Receiving) and says that a segment with data was sent by a client that *)
(* has the server's number (DataOK): that is what makes established()      *)
(* acknowledge every byte it lets update() deliver.  The third, WInv,      *)
(* counts the bytes: the server's acknowledgment is the client's first     *)
(* number and the bytes delivered, no segment and no count of write()'s is *)
(* ahead of it, and a SYN has the client's initial number.                 *)
(***************************************************************************)
EXTENDS TCP, TLAPS

Label == {"connect", "syn", "sent_syn", "in_connect", "listen", "listening", "in_listen", "answer",
          "answered", "received", "in_received", "attach", "open", "write", "sent", "full", "in_stream",
          "resumed", "delete", "close", "to_fin_wait1", "to_last_ack", "fin", "sent_fin", "in_close",
          "deleted", "gone"}
Body == [flags : SUBSET Flag, seq : Nat, ack : Nat, data : Seq(Nat)]
Segment == [to : Peers, flags : SUBSET Flag, seq : Nat, ack : Nat, data : Seq(Nat)]
Conn ==
    [state : State, sequence : Nat, acknowledgment : Nat, next : Nat, unacknowledged : Nat, initial : Nat,
     current : Nat, valid : BOOLEAN, streaming : BOOLEAN, retransmiting : BOOLEAN, alarm : BOOLEAN, tries : Nat,
     observer : BOOLEAN, bound : {"any", "peer", "none"}, pc : Label, out : SUBSET Body]
Stream ==
    [allowed : Int, left : Int, acknowledged : Int, initial_seq : Nat, tries : Nat, data : Int, old_ack : Nat,
     result : {"none", "size", "error"}, connects : Nat]

(* Labels of the thread: with no SYN to be sent again, while it waits to be    *)
(* connected to, in write(), before and after close() sends the FIN        *)
Unsynced  == {"connect", "syn", "listen", "listening", "in_listen", "answer", "gone"}
Passive   == {"listen", "listening", "in_listen"}
InWrite   == {"write", "sent", "full", "in_stream", "resumed"}
Answering == {"answer", "answered"}
Leaving   == {"close", "to_fin_wait1", "to_last_ack"}
Finned    == {"sent_fin", "in_close", "deleted", "gone"}

(* States: not connected, after the own close(), after the other's FIN     *)
Apart    == {"CLOSED", "LISTENING", "SYN_SENT"}
Closers  == {"FIN_WAIT1", "FIN_WAIT2", "CLOSING", "LAST_ACK", "TIME_WAIT"}
PeerGone == {"CLOSE_WAIT", "LAST_ACK", "CLOSING", "TIME_WAIT"}

(* End p has taken the other's initial sequence number.                    *)
Synced(p, c) == c.acknowledgment > ISN(Other(p))

(* What holds of one end by itself                                         *)
EndOK(p, c) ==
    /\ c.next >= ISN(p)
    /\ c.alarm \/ c.pc \notin Unsynced => c.next > ISN(p)
    /\ c.retransmiting => c.pc \in InWrite
    /\ c.state = "SYN_SENT" => c.pc \in {"syn", "sent_syn", "in_connect"}
    /\ c.state \in Closers => c.pc \in {"fin", "sent_fin", "in_close", "deleted"}
    /\ c.state \notin Apart \/ c.pc \in Answering \cup (Leaving \ {"close"}) \cup {"fin"} => Synced(p, c)
    /\ c.pc \in Passive => ~c.alarm /\ c.state \in {"CLOSED", "LISTENING"}
    /\ c.pc \in Leaving => ~c.alarm
    /\ c.pc = "fin" /\ c.alarm => c.state \in {"CLOSED", "TIME_WAIT"}

(* What a segment from end p with connection c tells                       *)
SegmentOK(p, c, m) ==
    /\ "ACK" \in m.flags => Synced(p, c)
    /\ m.flags \cap {"SYN", "FIN"} # {} => m.seq >= ISN(p)
    /\ "FIN" \in m.flags => c.pc \in Finned

(* What the states of the two ends say of each other                       *)
Agreement(p, c, d) ==
    /\ c.state = "ESTABLISHED" => Synced(Other(p), d)
    /\ c.state \in PeerGone \/ c.pc = "to_last_ack" => d.pc \in Finned

Types == /\ conn \in [Peers -> Conn] /\ \A p \in Peers : conn[p].out = {} /\ conn[p].initial = ISN(p)
         /\ strm \in [Peers -> Stream]
         /\ net \subseteq Segment

CInv == /\ Types
        /\ \A p \in Peers : EndOK(p, conn[p]) /\ Agreement(p, conn[p], conn[Other(p)])
        /\ \A m \in net : SegmentOK(Other(m.to), conn[Other(m.to)], m)
-----------------------------------------------------------------------------
(* The fields the invariant depends on, of a connection d made from c      *)
Fields(c, d, state, ack, next, alarm, pc, out) ==
    /\ d \in Conn /\ d.initial = c.initial /\ d.retransmiting = c.retransmiting
    /\ d.state = state /\ d.acknowledgment = ack /\ d.next = next
    /\ d.alarm = alarm /\ d.pc = pc /\ d.out = out

(* The segment that fsend() makes                                          *)
Bare(c, flags) ==
    [flags |-> flags, seq |-> IF c.retransmiting THEN c.sequence ELSE c.next, ack |-> c.acknowledgment, data |-> <<>>]
Number(flags) == IF flags \cap {"SYN", "FIN"} # {} THEN 1 ELSE 0

LEMMA Constants == /\ Client # Server /\ Peers = {Client, Server}
                   /\ \A p \in Peers : Other(p) \in Peers /\ Other(p) # p /\ Other(Other(p)) = p /\ ISN(p) \in Nat
  BY TCPAssumption DEF Peers, Other, ISN

(* fsend() adds one segment and takes a number for SYN and FIN.            *)
LEMMA FSendFields ==
    ASSUME NEW c \in Conn, NEW flags \in SUBSET Flag
    PROVE  /\ Fields(c, FSend(c, flags), c.state, c.acknowledgment, c.next + Number(flags), c.alarm, c.pc,
                     c.out \cup {Bare(c, flags)})
           /\ Bare(c, flags).flags = flags
           /\ Bare(c, flags).seq = IF c.retransmiting THEN c.sequence ELSE c.next
  <1> DEFINE q == IF c.retransmiting THEN c.sequence ELSE c.next
             n == c.next + Number(flags)
             o == c.out \cup {Bare(c, flags)}
             d == [c EXCEPT !.sequence = q, !.next = n, !.out = o]
  <1>1. q \in Nat /\ n \in Nat /\ n = IF flags \cap {"SYN", "FIN"} # {} THEN c.next + 1 ELSE c.next
    BY DEF Conn, Number
  <1>2. o \in SUBSET Body
    <2>1. c.acknowledgment \in Nat /\ <<>> \in Seq(Nat) /\ c.out \in SUBSET Body
      BY DEF Conn
    <2>2. Bare(c, flags) = [flags |-> flags, seq |-> q, ack |-> c.acknowledgment, data |-> <<>>]
      BY DEF Bare
    <2> HIDE DEF q
    <2>3. [flags |-> flags, seq |-> q, ack |-> c.acknowledgment, data |-> <<>>] \in Body
      BY <1>1, <2>1 DEF Body
    <2> QED
      BY <2>1, <2>2, <2>3
  <1>3. FSend(c, flags) = d
    BY <1>1 DEF FSend, Bare
  <1> HIDE DEF q, n, o
  <1>4. d \in Conn
    BY <1>1, <1>2 DEF Conn
  <1>5. /\ d.initial = c.initial /\ d.retransmiting = c.retransmiting /\ d.state = c.state
        /\ d.acknowledgment = c.acknowledgment /\ d.next = n /\ d.alarm = c.alarm /\ d.pc = c.pc /\ d.out = o
    BY DEF Conn
  <1> QED
    BY <1>3, <1>4, <1>5 DEF Fields, n, o, Bare

(* The helpers that change one field                                       *)
LEMMA MovedFields ==
    ASSUME NEW c \in Conn, NEW x \in State
    PROVE  Fields(c, Moved(c, x), x, c.acknowledgment, c.next, c.alarm, c.pc, c.out)
  BY DEF Conn, Moved, Fields

LEMMA InvalidFields ==
    ASSUME NEW c \in Conn
    PROVE  Fields(c, Invalid(c), c.state, c.acknowledgment, c.next, c.alarm, c.pc, c.out)
  BY DEF Conn, Invalid, Fields

LEMMA ValidFields ==
    ASSUME NEW c \in Conn, NEW v \in BOOLEAN
    PROVE  Fields(c, [c EXCEPT !.valid = v], c.state, c.acknowledgment, c.next, c.alarm, c.pc, c.out)
  BY DEF Conn, Fields

LEMMA ArmedFields ==
    ASSUME NEW c \in Conn
    PROVE  Fields(c, Armed(c), c.state, c.acknowledgment, c.next, TRUE, c.pc, c.out)
  BY DEF Conn, Armed, Fields

LEMMA ForgivenFields ==
    ASSUME NEW c \in Conn
    PROVE  Fields(c, Forgiven(c), c.state, c.acknowledgment, c.next, c.alarm, c.pc, c.out)
  BY DEF Conn, Forgiven, Fields

LEMMA GotoFields ==
    ASSUME NEW c \in Conn, NEW l \in Label
    PROVE  Fields(c, Goto(c, l), c.state, c.acknowledgment, c.next, c.alarm, l, c.out)
  BY DEF Conn, Goto, Fields

LEMMA AckFields ==
    ASSUME NEW c \in Conn, NEW a \in Nat
    PROVE  Fields(c, [c EXCEPT !.acknowledgment = a], c.state, a, c.next, c.alarm, c.pc, c.out)
  BY DEF Conn, Fields

LEMMA UnaFields ==
    ASSUME NEW c \in Conn, NEW a \in Nat
    PROVE  Fields(c, [c EXCEPT !.unacknowledged = a], c.state, c.acknowledgment, c.next, c.alarm, c.pc, c.out)
  BY DEF Conn, Fields

(* Where _transition.signal() and _stream.signal() let the thread go on    *)
Roused(l) == CASE l = "in_listen" -> "answer"
               [] l \in {"in_connect", "in_received"} -> "attach"
               [] l = "in_close" -> "deleted"
               [] OTHER -> l

LEMMA SignalFields ==
    ASSUME NEW c \in Conn
    PROVE  Fields(c, Signal(c), c.state, c.acknowledgment, c.next, c.alarm, Roused(c.pc), c.out)
  <1> DEFINE l == Roused(c.pc)
  <1>1. l \in Label
    BY DEF Conn, Label, Roused
  <1>2. Signal(c) = [c EXCEPT !.pc = l]
    BY DEF Signal, Roused
  <1> HIDE DEF l
  <1> QED
    BY <1>1, <1>2 DEF Fields, Conn, l

LEMMA SignalStreamFields ==
    ASSUME NEW c \in Conn
    PROVE  Fields(c, SignalStream(c), c.state, c.acknowledgment, c.next, c.alarm,
                  IF c.pc = "in_stream" THEN "resumed" ELSE c.pc, c.out)
  <1> DEFINE l == IF c.pc = "in_stream" THEN "resumed" ELSE c.pc
  <1>1. l \in Label
    BY DEF Conn, Label
  <1>2. SignalStream(c) = [c EXCEPT !.pc = l]
    BY DEF SignalStream
  <1> HIDE DEF l
  <1> QED
    BY <1>1, <1>2 DEF Fields, Conn, l

(* What update() does before the handler of the state                      *)
LEMMA ArrivedFields ==
    ASSUME NEW c \in Conn, NEW m \in Segment
    PROVE  /\ Fields(c, Current(c, m), c.state, c.acknowledgment, c.next, c.alarm, c.pc, c.out)
           /\ Fields(c, Slide(c, m), c.state, c.acknowledgment, c.next, c.alarm, c.pc, c.out)
           /\ Fields(c, [c EXCEPT !.valid = CheckSequence(c, m)],
                     c.state, c.acknowledgment, c.next, c.alarm, c.pc, c.out)
  <1>1. m.ack \in Nat
    BY DEF Segment
  <1>2. Fields(c, Current(c, m), c.state, c.acknowledgment, c.next, c.alarm, c.pc, c.out)
    <2> DEFINE b == IF c.state = "LISTENING" THEN "peer" ELSE c.bound
    <2>1. b \in {"any", "peer", "none"} /\ Current(c, m) = [c EXCEPT !.current = m.ack, !.bound = b]
      BY DEF Current, Conn
    <2> HIDE DEF b
    <2> QED
      BY <1>1, <2>1 DEF Fields, Conn
  <1>3. Fields(c, Slide(c, m), c.state, c.acknowledgment, c.next, c.alarm, c.pc, c.out)
    <2> DEFINE q == IF m.ack > c.sequence THEN m.ack ELSE c.sequence
    <2>1. q \in Nat
      BY <1>1 DEF Conn
    <2>2. Slide(c, m) = c \/ Slide(c, m) = [c EXCEPT !.unacknowledged = m.ack, !.sequence = q]
      BY DEF Slide
    <2> HIDE DEF q
    <2> QED
      BY <1>1, <2>1, <2>2 DEF Fields, Conn
  <1>4. Fields(c, [c EXCEPT !.valid = CheckSequence(c, m)],
               c.state, c.acknowledgment, c.next, c.alarm, c.pc, c.out)
    <2> DEFINE v == CheckSequence(c, m)
    <2>1. v \in BOOLEAN
      BY Zenon DEF CheckSequence, InWindow
    <2> QED
      BY <2>1, ValidFields
  <1> QED
    BY <1>2, <1>3, <1>4

(* Only bare acknowledgments are sent on the way from c to d.              *)
OnlyACKs(c, d) == \A b \in d.out : b \in c.out \/ b.flags = {"ACK"}

LEMMA SendACK ==
    ASSUME NEW c \in Conn
    PROVE  LET d == FSend(c, {"ACK"})
           IN  Fields(c, d, c.state, c.acknowledgment, c.next, c.alarm, c.pc, d.out) /\ OnlyACKs(c, d)
  <1>1. {"ACK"} \in SUBSET Flag /\ c.next + Number({"ACK"}) = c.next
    BY DEF Flag, Number, Conn
  <1> QED
    BY <1>1, FSendFields DEF Fields, OnlyACKs

LEMMA SendRST ==
    ASSUME NEW c \in Conn
    PROVE  LET d == FSend(c, {"RST"})
           IN  /\ Fields(c, d, c.state, c.acknowledgment, c.next, c.alarm, c.pc, d.out)
               /\ \A b \in d.out : b \in c.out \/ b.flags = {"RST"}
  <1>1. {"RST"} \in SUBSET Flag /\ c.next + Number({"RST"}) = c.next
    BY DEF Flag, Number, Conn
  <1> QED
    BY <1>1, FSendFields DEF Fields

LEMMA ProcessFinFields ==
    ASSUME NEW c \in Conn, NEW m \in Segment
    PROVE  LET d == ProcessFin(c, m)
           IN  Fields(c, d, c.state, m.seq + 1, c.next, c.alarm, c.pc, d.out) /\ OnlyACKs(c, d)
  <1> DEFINE e == [c EXCEPT !.acknowledgment = m.seq + 1]
  <1>1. m.seq + 1 \in Nat
    BY DEF Segment
  <1>2. Fields(c, e, c.state, m.seq + 1, c.next, c.alarm, c.pc, c.out)
    BY <1>1, AckFields
  <1>3. ProcessFin(c, m) = FSend(e, {"ACK"})
    BY DEF ProcessFin
  <1> HIDE DEF e
  <1> QED
    BY <1>2, <1>3, SendACK DEF Fields, OnlyACKs

LEMMA AcknowledgeFields ==
    ASSUME NEW c \in Conn, NEW m \in Segment
    PROVE  LET d == Acknowledge(c, m)
           IN  /\ Fields(c, d, c.state, d.acknowledgment, c.next, c.alarm, c.pc, d.out) /\ OnlyACKs(c, d)
               /\ d.acknowledgment >= c.acknowledgment
  <1> DEFINE a == c.acknowledgment + Len(m.data)
             e == [c EXCEPT !.acknowledgment = a]
  <1>1. a \in Nat /\ c.acknowledgment \in Nat /\ a >= c.acknowledgment
    BY DEF Segment, Conn
  <1>2. Fields(c, e, c.state, a, c.next, c.alarm, c.pc, c.out)
    BY <1>1, AckFields
  <1>3. Acknowledge(c, m) = IF m.data = <<>> THEN c ELSE FSend(e, {"ACK"})
    BY DEF Acknowledge
  <1>4. CASE m.data = <<>>
    BY <1>1, <1>3, <1>4 DEF Fields, OnlyACKs
  <1>5. CASE m.data # <<>>
    <2> HIDE DEF e, a
    <2> QED
      BY <1>1, <1>2, <1>3, <1>5, SendACK DEF Fields, OnlyACKs
  <1> QED
    BY <1>4, <1>5
-----------------------------------------------------------------------------
(* What a handler may do to a connection: the rules of every state.        *)
OutOK(p, c) == \A b \in c.out : SegmentOK(p, c, b)

PcStep(l, k) == k = l \/ k = Roused(l) \/ (l = "in_stream" /\ k = "resumed")

Handled(p, c, m, d) ==
    /\ d \in Conn /\ d.initial = c.initial /\ d.retransmiting = c.retransmiting
    /\ d.next >= c.next
    /\ Synced(p, c) => Synced(p, d)
    /\ d.alarm => c.alarm \/ (d.state = "TIME_WAIT" /\ c.state \in Closers)
    /\ PcStep(c.pc, d.pc)
    /\ d.pc = "answer" => c.pc = "answer" \/ Synced(p, d)
    /\ d.state \notin Apart => Synced(p, d)
    /\ d.state = "SYN_SENT" => c.state = "SYN_SENT" /\ (c.pc = "in_stream" \/ d.pc = c.pc)
    /\ d.state \in Closers => c.state \in Closers
    /\ c.state = "CLOSED" => d.state = "CLOSED"
    /\ c.state = "LISTENING" => d.state \in {"LISTENING", "CLOSED"}
    /\ c.state = "TIME_WAIT" => d.state \in {"TIME_WAIT", "CLOSED"}
    /\ d.state = "LISTENING" => c.state = "LISTENING"
    /\ d.state = "ESTABLISHED" => c.state = "ESTABLISHED" \/ "ACK" \in m.flags
    /\ d.state \in PeerGone => c.state \in PeerGone \/ "FIN" \in m.flags
    /\ OutOK(p, d)

(* What is known of a connection and of a segment that is for it           *)
Arriving(p, c, m) ==
    /\ p \in Peers /\ c \in Conn /\ c.out = {} /\ EndOK(p, c) /\ m \in Segment
    /\ m.flags \cap {"SYN", "FIN"} # {} => m.seq >= ISN(Other(p))

(* A handler that changes nothing but sends ACKs or RSTs, or closes        *)
LEMMA QuietHandled ==
    ASSUME NEW p, NEW c, NEW m, NEW d, NEW x, Arriving(p, c, m),
           Fields(c, d, x, c.acknowledgment, c.next, c.alarm, c.pc, d.out), x \in {c.state, "CLOSED"},
           \A b \in d.out : b.flags = {"RST"} \/ (b.flags = {"ACK"} /\ c.state \notin Apart)
    PROVE  Handled(p, c, m, d)
  <1>1. c.next \in Nat /\ (c.state \notin Apart => Synced(p, c))
    BY DEF Arriving, EndOK, Conn
  <1>2. OutOK(p, d)
    <2> SUFFICES ASSUME NEW b \in d.out PROVE SegmentOK(p, d, b)
      BY DEF OutOK
    <2>1. b.flags \cap {"SYN", "FIN"} = {} /\ "FIN" \notin b.flags /\ ("ACK" \in b.flags => c.state \notin Apart)
      OBVIOUS
    <2>2. Synced(p, c) => Synced(p, d)
      BY DEF Fields, Synced
    <2> QED
      BY <1>1, <2>1, <2>2 DEF SegmentOK
  <1>3. d.next >= c.next
    BY <1>1 DEF Fields
  <1> QED
    BY <1>1, <1>2, <1>3 DEF Handled, Fields, Synced, PcStep, Apart, Closers, PeerGone

(* A handler of a synchronized state sends bare ACKs, and moves to states  *)
(* the segment allows.                                                     *)
LEMMA SyncedHandled ==
    ASSUME NEW p, NEW c, NEW m, NEW d, Arriving(p, c, m), c.state \notin Apart,
           Fields(c, d, d.state, d.acknowledgment, c.next, d.alarm, d.pc, d.out), OnlyACKs(c, d),
           Synced(p, d), d.pc \in {c.pc, Roused(c.pc)}, d.state \notin {"LISTENING", "SYN_SENT"},
           d.alarm => c.alarm \/ (d.state = "TIME_WAIT" /\ c.state \in Closers),
           d.state \in Closers => c.state \in Closers,
           c.state = "TIME_WAIT" => d.state \in {"TIME_WAIT", "CLOSED"},
           d.state = "ESTABLISHED" => c.state = "ESTABLISHED" \/ "ACK" \in m.flags,
           d.state \in PeerGone => c.state \in PeerGone \/ "FIN" \in m.flags
    PROVE  Handled(p, c, m, d)
  <1>1. c.next \in Nat /\ d.next >= c.next
    BY DEF Fields, Arriving, Conn
  <1>2. OutOK(p, d)
    <2> SUFFICES ASSUME NEW b \in d.out PROVE SegmentOK(p, d, b)
      BY DEF OutOK
    <2>1. b.flags = {"ACK"}
      BY DEF OnlyACKs, Arriving
    <2> QED
      BY <2>1 DEF SegmentOK
  <1> QED
    BY <1>1, <1>2 DEF Handled, Fields, PcStep, Apart

(* The data and the FIN of a segment leave the connection synchronized.    *)
LEMMA TakenSynced ==
    ASSUME NEW p, NEW c, NEW m, Arriving(p, c, m), c.state \notin Apart
    PROVE  LET t == Acknowledge(c, m)
               f == ProcessFin(t, m)
               g == ProcessFin(c, m)
           IN  /\ Fields(c, t, c.state, t.acknowledgment, c.next, c.alarm, c.pc, t.out)
               /\ OnlyACKs(c, t) /\ Synced(p, t)
               /\ "FIN" \in m.flags =>
                    /\ Fields(c, f, c.state, f.acknowledgment, c.next, c.alarm, c.pc, f.out)
                    /\ OnlyACKs(c, f) /\ Synced(p, f)
                    /\ Fields(c, g, c.state, g.acknowledgment, c.next, c.alarm, c.pc, g.out)
                    /\ OnlyACKs(c, g) /\ Synced(p, g)
  <1> DEFINE t == Acknowledge(c, m)
             f == ProcessFin(t, m)
             g == ProcessFin(c, m)
  <1>0. c \in Conn /\ m \in Segment /\ Synced(p, c) /\ c.acknowledgment \in Nat /\ m.seq \in Nat
        /\ ISN(Other(p)) \in Nat /\ ("FIN" \in m.flags => m.seq >= ISN(Other(p)))
    BY Constants DEF Arriving, EndOK, Conn, Segment
  <1>1. /\ Fields(c, t, c.state, t.acknowledgment, c.next, c.alarm, c.pc, t.out)
        /\ OnlyACKs(c, t) /\ t.acknowledgment >= c.acknowledgment
    BY <1>0, AcknowledgeFields
  <1> HIDE DEF t
  <1>2. t \in Conn /\ t.acknowledgment \in Nat /\ Synced(p, t)
    BY <1>0, <1>1 DEF Fields, Conn, Synced
  <1>3. Fields(t, f, t.state, m.seq + 1, t.next, t.alarm, t.pc, f.out) /\ OnlyACKs(t, f)
    BY <1>0, <1>2, ProcessFinFields
  <1>4. Fields(c, g, c.state, m.seq + 1, c.next, c.alarm, c.pc, g.out) /\ OnlyACKs(c, g)
    BY <1>0, ProcessFinFields
  <1> HIDE DEF f, g
  <1>5. "FIN" \in m.flags => Synced(p, f) /\ Synced(p, g)
    BY <1>0, <1>3, <1>4 DEF Fields, Synced
  <1>6. Fields(c, f, c.state, f.acknowledgment, c.next, c.alarm, c.pc, f.out) /\ OnlyACKs(c, f)
    BY <1>1, <1>3 DEF Fields, OnlyACKs
  <1> QED
    BY <1>1, <1>2, <1>4, <1>5, <1>6 DEF Fields, t, f, g

(* From there the handlers move to another state, and may arm the alarm of *)
(* TIME_WAIT or signal _transition.                                        *)
LEMMA MovedHandled ==
    ASSUME NEW p, NEW c, NEW m, NEW x, NEW S \in State, Arriving(p, c, m), c.state \notin Apart,
           Fields(c, x, c.state, x.acknowledgment, c.next, c.alarm, c.pc, x.out), OnlyACKs(c, x), Synced(p, x),
           S \notin {"LISTENING", "SYN_SENT"}, S \in Closers => c.state \in Closers,
           c.state = "TIME_WAIT" => S \in {"TIME_WAIT", "CLOSED"},
           S = "ESTABLISHED" => c.state = "ESTABLISHED" \/ "ACK" \in m.flags,
           S \in PeerGone => c.state \in PeerGone \/ "FIN" \in m.flags
    PROVE  /\ Handled(p, c, m, Moved(x, S))
           /\ Handled(p, c, m, Signal(Forgiven(Moved(x, S))))
           /\ S = "TIME_WAIT" => Handled(p, c, m, Armed(Moved(x, S)))
  <1> DEFINE d == Moved(x, S)
             a == Armed(d)
             f == Forgiven(d)
             g == Signal(f)
  <1>1. Fields(x, d, S, x.acknowledgment, x.next, x.alarm, x.pc, x.out)
    BY MovedFields DEF Fields
  <1>2. d \in Conn
    BY <1>1 DEF Fields
  <1> HIDE DEF d
  <1>3. Fields(d, a, d.state, d.acknowledgment, d.next, TRUE, d.pc, d.out)
    BY <1>2, ArmedFields
  <1>4. Fields(d, f, d.state, d.acknowledgment, d.next, d.alarm, d.pc, d.out) /\ f \in Conn
    BY <1>2, ForgivenFields DEF Fields
  <1> HIDE DEF f
  <1>5. Fields(f, g, f.state, f.acknowledgment, f.next, f.alarm, Roused(f.pc), f.out)
    BY <1>4, SignalFields
  <1> HIDE DEF a, g
  <1>6. /\ Fields(c, d, d.state, d.acknowledgment, c.next, c.alarm, c.pc, d.out)
        /\ OnlyACKs(c, d) /\ Synced(p, d) /\ d.state = S
    BY <1>1 DEF Fields, OnlyACKs, Synced
  <1>7. /\ Fields(c, a, a.state, a.acknowledgment, c.next, TRUE, c.pc, a.out)
        /\ OnlyACKs(c, a) /\ Synced(p, a) /\ a.state = S
    BY <1>3, <1>6 DEF Fields, OnlyACKs, Synced
  <1>8. /\ Fields(c, g, g.state, g.acknowledgment, c.next, c.alarm, Roused(c.pc), g.out)
        /\ OnlyACKs(c, g) /\ Synced(p, g) /\ g.state = S
    BY <1>4, <1>5, <1>6 DEF Fields, OnlyACKs, Synced
  <1>9. Handled(p, c, m, d)
    BY <1>6, SyncedHandled DEF Fields
  <1>10. Handled(p, c, m, g)
    BY <1>8, SyncedHandled DEF Fields
  <1>11. S = "TIME_WAIT" => Handled(p, c, m, a)
    BY <1>7, SyncedHandled DEF Fields, Closers
  <1> QED
    BY <1>9, <1>10, <1>11 DEF d, a, f, g

(* established(): data is acknowledged, and a FIN too.                     *)
LEMMA EstablishedHandled ==
    ASSUME NEW p, NEW c, NEW m, Arriving(p, c, m), c.state = "ESTABLISHED"
    PROVE  Handled(p, c, m, Established(c, m))
  <1> DEFINE t == Acknowledge(c, m)
             f == ProcessFin(t, m)
  <1>0. c \in Conn /\ c.state \notin Apart /\ Synced(p, c) /\ c.out = {}
    BY DEF Arriving, EndOK, Apart
  <1>1. /\ Fields(c, t, c.state, t.acknowledgment, c.next, c.alarm, c.pc, t.out)
        /\ OnlyACKs(c, t) /\ Synced(p, t)
        /\ "FIN" \in m.flags => /\ Fields(c, f, c.state, f.acknowledgment, c.next, c.alarm, c.pc, f.out)
                                /\ OnlyACKs(c, f) /\ Synced(p, f)
    BY <1>0, TakenSynced
  <1>2. Handled(p, c, m, c)
    BY <1>0, QuietHandled DEF Fields
  <1>3. Established(c, m) \in {c, t} \/ (Established(c, m) = Moved(f, "CLOSE_WAIT") /\ "FIN" \in m.flags)
    BY DEF Established
  <1> HIDE DEF t, f
  <1>4. Handled(p, c, m, t)
    BY <1>0, <1>1, SyncedHandled DEF Fields, Apart, Closers, PeerGone
  <1>5. "FIN" \in m.flags => Handled(p, c, m, Moved(f, "CLOSE_WAIT"))
    BY <1>0, <1>1, MovedHandled DEF State, Closers, PeerGone
  <1> QED
    BY <1>2, <1>3, <1>4, <1>5

(* fin_wait1(): TIME_WAIT and CLOSING only on a FIN.                       *)
LEMMA FinWait1Handled ==
    ASSUME NEW p, NEW c, NEW m, Arriving(p, c, m), c.state = "FIN_WAIT1"
    PROVE  Handled(p, c, m, FinWait1(c, m))
  <1> DEFINE t == Acknowledge(c, m)
             f == ProcessFin(t, m)
  <1>0. c \in Conn /\ c.state \notin Apart /\ Synced(p, c) /\ c.out = {}
    BY DEF Arriving, EndOK, Apart
  <1>1. /\ Fields(c, t, c.state, t.acknowledgment, c.next, c.alarm, c.pc, t.out)
        /\ OnlyACKs(c, t) /\ Synced(p, t)
        /\ "FIN" \in m.flags => /\ Fields(c, f, c.state, f.acknowledgment, c.next, c.alarm, c.pc, f.out)
                                /\ OnlyACKs(c, f) /\ Synced(p, f)
    BY <1>0, TakenSynced
  <1>2. Handled(p, c, m, c)
    BY <1>0, QuietHandled DEF Fields
  <1>3. \/ FinWait1(c, m) \in {c, t, Moved(t, "FIN_WAIT2")}
        \/ "FIN" \in m.flags /\ FinWait1(c, m) \in {Armed(Moved(f, "TIME_WAIT")), Moved(f, "CLOSING")}
    BY DEF FinWait1
  <1> HIDE DEF t, f
  <1>4. Handled(p, c, m, t)
    BY <1>0, <1>1, SyncedHandled DEF Fields, Apart, Closers, PeerGone
  <1>5. Handled(p, c, m, Moved(t, "FIN_WAIT2"))
    BY <1>0, <1>1, MovedHandled DEF State, Closers, PeerGone
  <1>6. "FIN" \in m.flags => Handled(p, c, m, Moved(f, "CLOSING"))
    BY <1>0, <1>1, MovedHandled DEF State, Closers, PeerGone
  <1>7. "FIN" \in m.flags => Handled(p, c, m, Armed(Moved(f, "TIME_WAIT")))
    BY <1>0, <1>1, MovedHandled DEF State, Closers, PeerGone
  <1> QED
    BY <1>2, <1>3, <1>4, <1>5, <1>6, <1>7

(* fin_wait2(): TIME_WAIT only on a FIN.                                   *)
LEMMA FinWait2Handled ==
    ASSUME NEW p, NEW c, NEW m, Arriving(p, c, m), c.state = "FIN_WAIT2"
    PROVE  Handled(p, c, m, FinWait2(c, m))
  <1> DEFINE t == Acknowledge(c, m)
             f == ProcessFin(t, m)
  <1>0. c \in Conn /\ c.state \notin Apart /\ Synced(p, c) /\ c.out = {}
    BY DEF Arriving, EndOK, Apart
  <1>1. /\ Fields(c, t, c.state, t.acknowledgment, c.next, c.alarm, c.pc, t.out)
        /\ OnlyACKs(c, t) /\ Synced(p, t)
        /\ "FIN" \in m.flags => /\ Fields(c, f, c.state, f.acknowledgment, c.next, c.alarm, c.pc, f.out)
                                /\ OnlyACKs(c, f) /\ Synced(p, f)
    BY <1>0, TakenSynced
  <1>2. Handled(p, c, m, c)
    BY <1>0, QuietHandled DEF Fields
  <1>3. FinWait2(c, m) \in {c, t} \/ ("FIN" \in m.flags /\ FinWait2(c, m) = Armed(Moved(f, "TIME_WAIT")))
    BY DEF FinWait2
  <1> HIDE DEF t, f
  <1>4. Handled(p, c, m, t)
    BY <1>0, <1>1, SyncedHandled DEF Fields, Apart, Closers, PeerGone
  <1>5. "FIN" \in m.flags => Handled(p, c, m, Armed(Moved(f, "TIME_WAIT")))
    BY <1>0, <1>1, MovedHandled DEF State, Closers, PeerGone
  <1> QED
    BY <1>2, <1>3, <1>4, <1>5

(* close_wait() stays where it is.                                         *)
LEMMA CloseWaitHandled ==
    ASSUME NEW p, NEW c, NEW m, Arriving(p, c, m), c.state = "CLOSE_WAIT"
    PROVE  Handled(p, c, m, CloseWait(c, m))
  <1> DEFINE a == [c EXCEPT !.unacknowledged = m.ack]
             f == ProcessFin(a, m)
  <1>0. c \in Conn /\ c.state \notin Apart /\ Synced(p, c) /\ c.out = {}
    BY DEF Arriving, EndOK, Apart
  <1>2. Handled(p, c, m, c)
    BY <1>0, QuietHandled DEF Fields
  <1>1. CloseWait(c, m) \in {c, a} \/ ("FIN" \in m.flags /\ CloseWait(c, m) = f)
    BY DEF CloseWait
  <1>3. Fields(c, a, c.state, c.acknowledgment, c.next, c.alarm, c.pc, c.out)
    BY UnaFields DEF Arriving, Segment
  <1> HIDE DEF a
  <1>4. Fields(a, f, a.state, m.seq + 1, a.next, a.alarm, a.pc, f.out) /\ OnlyACKs(a, f)
    BY <1>3, ProcessFinFields DEF Fields, Arriving
  <1> HIDE DEF f
  <1>5. Handled(p, c, m, a)
    BY <1>0, <1>3, QuietHandled DEF Fields
  <1>6. "FIN" \in m.flags => Handled(p, c, m, f)
    <2>1. "FIN" \in m.flags => Synced(p, f)
      BY <1>4, Constants DEF Fields, Synced, Arriving, Segment
    <2>2. Fields(c, f, c.state, f.acknowledgment, c.next, c.alarm, c.pc, f.out) /\ OnlyACKs(c, f)
      BY <1>3, <1>4 DEF Fields, OnlyACKs
    <2> QED
      BY <1>0, <2>1, <2>2, SyncedHandled DEF Fields, Closers
  <1> QED
    BY <1>1, <1>2, <1>5, <1>6

(* closing() goes on to TIME_WAIT.                                         *)
LEMMA ClosingHandled ==
    ASSUME NEW p, NEW c, NEW m, Arriving(p, c, m), c.state = "CLOSING"
    PROVE  Handled(p, c, m, Closing(c, m))
  <1>0. c \in Conn /\ c.state \notin Apart /\ Synced(p, c) /\ c.out = {}
    BY DEF Arriving, EndOK, Apart
  <1>2. Handled(p, c, m, c)
    BY <1>0, QuietHandled DEF Fields
  <1>3. Closing(c, m) \in {c, Armed(Moved(c, "TIME_WAIT"))}
    BY DEF Closing
  <1>4. Fields(c, c, c.state, c.acknowledgment, c.next, c.alarm, c.pc, c.out) /\ OnlyACKs(c, c)
    BY <1>0 DEF Fields, OnlyACKs
  <1>5. Handled(p, c, m, Armed(Moved(c, "TIME_WAIT")))
    BY <1>0, <1>4, MovedHandled DEF State, Closers, PeerGone
  <1> QED
    BY <1>2, <1>3, <1>5

(* last_ack() ends the connection.                                         *)
LEMMA LastAckHandled ==
    ASSUME NEW p, NEW c, NEW m, Arriving(p, c, m), c.state = "LAST_ACK"
    PROVE  Handled(p, c, m, LastAck(c, m))
  <1>0. c \in Conn /\ c.state \notin Apart /\ Synced(p, c) /\ c.out = {}
    BY DEF Arriving, EndOK, Apart
  <1>2. Handled(p, c, m, c)
    BY <1>0, QuietHandled DEF Fields
  <1>3. LastAck(c, m) \in {c, Signal(Forgiven(Moved(c, "CLOSED")))}
    BY DEF LastAck
  <1>4. Fields(c, c, c.state, c.acknowledgment, c.next, c.alarm, c.pc, c.out) /\ OnlyACKs(c, c)
    BY <1>0 DEF Fields, OnlyACKs
  <1>5. Handled(p, c, m, Signal(Forgiven(Moved(c, "CLOSED"))))
    BY <1>0, <1>4, MovedHandled DEF State, Closers, PeerGone
  <1> QED
    BY <1>2, <1>3, <1>5

(* time_wait() answers a FIN that is sent again.                           *)
LEMMA TimeWaitHandled ==
    ASSUME NEW p, NEW c, NEW m, Arriving(p, c, m), c.state = "TIME_WAIT"
    PROVE  Handled(p, c, m, TimeWait(c, m))
  <1> DEFINE g == ProcessFin(c, m)
             a == Armed(g)
  <1>0. c \in Conn /\ c.state \notin Apart /\ Synced(p, c) /\ c.out = {}
    BY DEF Arriving, EndOK, Apart
  <1>2. Handled(p, c, m, c)
    BY <1>0, QuietHandled DEF Fields
  <1>3. TimeWait(c, m) = c \/ ("FIN" \in m.flags /\ TimeWait(c, m) = a)
    BY DEF TimeWait, News
  <1>4. "FIN" \in m.flags => /\ Fields(c, g, c.state, g.acknowledgment, c.next, c.alarm, c.pc, g.out)
                             /\ OnlyACKs(c, g) /\ Synced(p, g)
    BY <1>0, TakenSynced
  <1> HIDE DEF g
  <1>5. "FIN" \in m.flags => Handled(p, c, m, a)
    <2> SUFFICES ASSUME "FIN" \in m.flags PROVE Handled(p, c, m, a)
      OBVIOUS
    <2>1. Fields(g, a, g.state, g.acknowledgment, g.next, TRUE, g.pc, g.out)
      BY <1>4, ArmedFields DEF Fields
    <2> HIDE DEF a
    <2>2. Fields(c, a, c.state, a.acknowledgment, c.next, TRUE, c.pc, a.out) /\ OnlyACKs(c, a) /\ Synced(p, a)
      BY <1>4, <2>1 DEF Fields, OnlyACKs, Synced
    <2> QED
      BY <1>0, <2>2, SyncedHandled DEF Fields, Closers
  <1> QED
    BY <1>2, <1>3, <1>5

(* A segment that is refused is answered with an RST or an ACK, or closes  *)
(* the connection.                                                         *)
LEMMA RefusedHandled ==
    ASSUME NEW p, NEW c, NEW m, NEW r, Arriving(p, c, m),
           Fields(c, r, c.state, c.acknowledgment, c.next, c.alarm, c.pc, c.out)
    PROVE  /\ Handled(p, c, m, r)
           /\ Handled(p, c, m, FSend(r, {"RST"}))
           /\ Handled(p, c, m, Moved(r, "CLOSED"))
           /\ Handled(p, c, m, Moved(FSend(r, {"RST"}), "CLOSED"))
           /\ c.state \notin Apart => Handled(p, c, m, FSend(r, {"ACK"}))
  <1> DEFINE s == FSend(r, {"RST"})
             a == FSend(r, {"ACK"})
             x == Moved(r, "CLOSED")
             y == Moved(s, "CLOSED")
  <1>0. r \in Conn /\ r.out = {} /\ "CLOSED" \in State
    BY DEF Fields, Arriving, State
  <1>1. /\ Fields(r, s, r.state, r.acknowledgment, r.next, r.alarm, r.pc, s.out)
        /\ \A b \in s.out : b.flags = {"RST"}
    BY <1>0, SendRST
  <1>2. /\ Fields(r, a, r.state, r.acknowledgment, r.next, r.alarm, r.pc, a.out)
        /\ \A b \in a.out : b.flags = {"ACK"}
    BY <1>0, SendACK DEF OnlyACKs
  <1>3. Fields(r, x, "CLOSED", r.acknowledgment, r.next, r.alarm, r.pc, r.out)
    BY <1>0, MovedFields
  <1>4. Fields(s, y, "CLOSED", s.acknowledgment, s.next, s.alarm, s.pc, s.out)
    BY <1>0, <1>1, MovedFields DEF Fields
  <1> HIDE DEF s, a, x, y
  <1>5. Handled(p, c, m, r)
    BY <1>0, QuietHandled DEF Fields
  <1>6. Handled(p, c, m, s)
    BY <1>1, QuietHandled DEF Fields
  <1>7. Handled(p, c, m, x)
    BY <1>0, <1>3, QuietHandled DEF Fields
  <1>8. Handled(p, c, m, y)
    BY <1>1, <1>4, QuietHandled DEF Fields
  <1>9. c.state \notin Apart => Handled(p, c, m, a)
    BY <1>2, QuietHandled DEF Fields
  <1> QED
    BY <1>5, <1>6, <1>7, <1>8, <1>9 DEF s, a, x, y

(* listening(): a SYN gives the other's number and wakes listen() up.      *)
LEMMA ListeningHandled ==
    ASSUME NEW p, NEW c, NEW m, Arriving(p, c, m), c.state = "LISTENING"
    PROVE  Handled(p, c, m, Listening(c, m))
  <1> DEFINE r == Invalid(c)
             a == [c EXCEPT !.acknowledgment = m.seq + 1]
             d == Signal(a)
  <1>0. c \in Conn /\ c.out = {} /\ m.seq + 1 \in Nat
    BY DEF Arriving, Segment
  <1>1. Listening(c, m) \in {r, FSend(r, {"RST"}), c} \/ (Listening(c, m) = d /\ m.flags = {"SYN"})
    BY DEF Listening
  <1>2. /\ Fields(c, r, c.state, c.acknowledgment, c.next, c.alarm, c.pc, c.out)
        /\ Fields(c, c, c.state, c.acknowledgment, c.next, c.alarm, c.pc, c.out)
    BY <1>0, InvalidFields DEF Fields
  <1>3. Fields(c, a, c.state, m.seq + 1, c.next, c.alarm, c.pc, c.out)
    BY <1>0, AckFields
  <1>4. Handled(p, c, m, r) /\ Handled(p, c, m, FSend(r, {"RST"})) /\ Handled(p, c, m, c)
    BY <1>2, RefusedHandled
  <1> HIDE DEF r, a
  <1>5. Fields(a, d, a.state, a.acknowledgment, a.next, a.alarm, Roused(a.pc), a.out)
    BY <1>3, SignalFields DEF Fields
  <1> HIDE DEF d
  <1>6. m.flags = {"SYN"} => Handled(p, c, m, d)
    <2> SUFFICES ASSUME m.flags = {"SYN"} PROVE Handled(p, c, m, d)
      OBVIOUS
    <2>1. m.flags \cap {"SYN", "FIN"} # {}
      OBVIOUS
    <2>2. Synced(p, d)
      BY <1>3, <1>5, <2>1, Constants DEF Fields, Synced, Arriving, Segment
    <2>3. d.next >= c.next /\ OutOK(p, d)
      BY <1>0, <1>3, <1>5 DEF Fields, OutOK, Conn
    <2> QED
      BY <1>3, <1>5, <2>2, <2>3 DEF Handled, Fields, PcStep, Closers, PeerGone
  <1> QED
    BY <1>1, <1>4, <1>6

(* syn_sent(): a SYN gives the other's number, an ACK opens.               *)
LEMMA SynSentHandled ==
    ASSUME NEW p, NEW c, NEW m, Arriving(p, c, m), c.state = "SYN_SENT"
    PROVE  Handled(p, c, m, SynSent(c, m))
  <1> DEFINE r == Invalid(c)
             b == [c EXCEPT !.acknowledgment = m.seq + 1]
             a == [b EXCEPT !.unacknowledged = m.ack]
             f == FSend(a, {"ACK"})
             e == Moved(f, "ESTABLISHED")
             h == Forgiven(e)
             d == Signal(h)
             g == FSend(b, {"SYN", "ACK"})
             y == Moved(g, "SYN_RECEIVED")
  <1>0. c \in Conn /\ c.out = {} /\ m.seq + 1 \in Nat /\ m.ack \in Nat /\ ~c.retransmiting /\ c.next \in Nat
        /\ c.next >= ISN(p) /\ c.pc \in {"syn", "sent_syn", "in_connect"} /\ {"SYN", "ACK"} \in SUBSET Flag
    BY DEF Arriving, Segment, EndOK, InWrite, Conn, Flag
  <1>1. \/ SynSent(c, m) \in {FSend(r, {"RST"}), Moved(r, "CLOSED"), Moved(c, "CLOSED"), c}
        \/ SynSent(c, m) = d /\ {"SYN", "ACK"} \subseteq m.flags
        \/ SynSent(c, m) = y /\ "SYN" \in m.flags
    <2> DEFINE good == m.ack > c.initial /\ m.ack \in c.unacknowledged .. c.next
               kind == m.flags \cap {"ACK", "RST", "SYN"}
    <2>1. SynSent(c, m) = CASE "ACK" \in kind /\ ~good -> FSend(r, {"RST"})
                            [] {"ACK", "RST"} \subseteq kind /\ good -> Moved(r, "CLOSED")
                            [] kind = {"ACK", "SYN"} /\ good -> d
                            [] kind = {"ACK"} /\ good -> c
                            [] kind = {"SYN"} -> y
                            [] OTHER -> Moved(c, "CLOSED")
      BY DEF SynSent
    <2>2. /\ kind = {"ACK", "SYN"} => {"SYN", "ACK"} \subseteq m.flags
          /\ kind = {"SYN"} => "SYN" \in m.flags
      OBVIOUS
    <2> HIDE DEF good, kind, d, y, r
    <2> QED
      BY <2>1, <2>2
  <1>2. /\ Fields(c, r, c.state, c.acknowledgment, c.next, c.alarm, c.pc, c.out)
        /\ Fields(c, c, c.state, c.acknowledgment, c.next, c.alarm, c.pc, c.out)
    BY <1>0, InvalidFields DEF Fields
  <1>3. /\ Handled(p, c, m, FSend(r, {"RST"})) /\ Handled(p, c, m, Moved(r, "CLOSED"))
        /\ Handled(p, c, m, Moved(c, "CLOSED")) /\ Handled(p, c, m, c)
    BY <1>2, RefusedHandled
  <1>4. Fields(c, b, c.state, m.seq + 1, c.next, c.alarm, c.pc, c.out) /\ b \in Conn
    BY <1>0, AckFields DEF Fields
  <1> HIDE DEF r, b
  <1>5. Fields(b, a, b.state, b.acknowledgment, b.next, b.alarm, b.pc, b.out) /\ a \in Conn
    BY <1>0, <1>4, UnaFields DEF Fields
  <1> HIDE DEF a
  <1>6. Fields(a, f, a.state, a.acknowledgment, a.next, a.alarm, a.pc, f.out) /\ OnlyACKs(a, f) /\ f \in Conn
    BY <1>5, SendACK DEF Fields
  <1> HIDE DEF f
  <1>7. Fields(f, e, "ESTABLISHED", f.acknowledgment, f.next, f.alarm, f.pc, f.out) /\ e \in Conn
    BY <1>6, MovedFields DEF Fields, State
  <1> HIDE DEF e
  <1>8. Fields(e, h, e.state, e.acknowledgment, e.next, e.alarm, e.pc, e.out) /\ h \in Conn
    BY <1>7, ForgivenFields DEF Fields
  <1> HIDE DEF h
  <1>9. Fields(h, d, h.state, h.acknowledgment, h.next, h.alarm, Roused(h.pc), h.out)
    BY <1>8, SignalFields DEF Fields
  <1> HIDE DEF d
  <1>10. /\ Fields(b, g, b.state, b.acknowledgment, b.next + 1, b.alarm, b.pc, b.out \cup {Bare(b, {"SYN", "ACK"})})
         /\ Bare(b, {"SYN", "ACK"}).flags = {"SYN", "ACK"} /\ Bare(b, {"SYN", "ACK"}).seq = b.next /\ g \in Conn
    <2>1. Number({"SYN", "ACK"}) = 1
      BY DEF Number
    <2>2. ~b.retransmiting
      BY <1>0, <1>4 DEF Fields
    <2> QED
      BY <1>0, <1>4, <2>1, <2>2, FSendFields DEF Fields
  <1> HIDE DEF g
  <1>11. Fields(g, y, "SYN_RECEIVED", g.acknowledgment, g.next, g.alarm, g.pc, g.out)
    BY <1>10, MovedFields DEF Fields, State
  <1> HIDE DEF y
  <1>12. "SYN" \in m.flags => m.seq + 1 > ISN(Other(p))
    BY Constants DEF Arriving, Segment
  <1>13. {"SYN", "ACK"} \subseteq m.flags => Handled(p, c, m, d)
    <2> SUFFICES ASSUME "SYN" \in m.flags, "ACK" \in m.flags PROVE Handled(p, c, m, d)
      OBVIOUS
    <2>1. Fields(c, d, "ESTABLISHED", m.seq + 1, c.next, c.alarm, Roused(c.pc), d.out)
      BY <1>4, <1>5, <1>6, <1>7, <1>8, <1>9 DEF Fields
    <2>2. \A x \in d.out : x.flags = {"ACK"}
      BY <1>0, <1>4, <1>5, <1>6, <1>7, <1>8, <1>9 DEF Fields, OnlyACKs
    <2>3. Synced(p, d)
      BY <1>12, <2>1 DEF Fields, Synced
    <2>4. OutOK(p, d)
      BY <2>2, <2>3 DEF OutOK, SegmentOK
    <2>5. d.next >= c.next
      BY <1>0, <2>1 DEF Fields
    <2> QED
      BY <2>1, <2>3, <2>4, <2>5 DEF Handled, Fields, PcStep, Closers, PeerGone
  <1>14. "SYN" \in m.flags => Handled(p, c, m, y)
    <2> SUFFICES ASSUME "SYN" \in m.flags PROVE Handled(p, c, m, y)
      OBVIOUS
    <2>1. Fields(c, y, "SYN_RECEIVED", m.seq + 1, c.next + 1, c.alarm, c.pc, y.out)
      BY <1>4, <1>10, <1>11 DEF Fields
    <2>2. \A x \in y.out : x.flags = {"SYN", "ACK"} /\ x.seq = c.next
      BY <1>0, <1>4, <1>10, <1>11 DEF Fields
    <2>3. Synced(p, y)
      BY <1>12, <2>1 DEF Fields, Synced
    <2>4. OutOK(p, y)
      BY <1>0, <2>2, <2>3 DEF OutOK, SegmentOK
    <2>5. y.next >= c.next
      BY <1>0, <2>1 DEF Fields
    <2> QED
      BY <2>1, <2>3, <2>4, <2>5 DEF Handled, Fields, PcStep, Closers, PeerGone
  <1> QED
    BY <1>1, <1>3, <1>13, <1>14

(* syn_received(): an ACK opens.                                           *)
LEMMA SynReceivedHandled ==
    ASSUME NEW p, NEW c, NEW m, Arriving(p, c, m), c.state = "SYN_RECEIVED"
    PROVE  Handled(p, c, m, SynReceived(c, m))
  <1> DEFINE r == Invalid(c)
             e == Moved(c, "ESTABLISHED")
             h == Forgiven(e)
             t == Acknowledge(h, m)
             d == Signal(t)
             g == ProcessFin(c, m)
  <1>0. c \in Conn /\ c.state \notin Apart /\ Synced(p, c) /\ c.out = {} /\ m \in Segment
        /\ ISN(Other(p)) \in Nat /\ c.acknowledgment \in Nat
    BY Constants DEF Arriving, EndOK, Apart, Conn
  <1>1. \/ SynReceived(c, m) = c
        \/ SynReceived(c, m) = d /\ "ACK" \in m.flags
        \/ SynReceived(c, m) = Moved(g, "CLOSE_WAIT") /\ "FIN" \in m.flags
        \/ SynReceived(c, m) = Moved(FSend(r, {"RST"}), "CLOSED")
    BY DEF SynReceived
  <1>2. /\ Fields(c, r, c.state, c.acknowledgment, c.next, c.alarm, c.pc, c.out)
        /\ Fields(c, c, c.state, c.acknowledgment, c.next, c.alarm, c.pc, c.out)
    BY <1>0, InvalidFields DEF Fields
  <1>3. Handled(p, c, m, c) /\ Handled(p, c, m, Moved(FSend(r, {"RST"}), "CLOSED"))
    BY <1>2, RefusedHandled
  <1>4. "FIN" \in m.flags => Handled(p, c, m, Moved(g, "CLOSE_WAIT"))
    <2>1. "FIN" \in m.flags => /\ Fields(c, g, c.state, g.acknowledgment, c.next, c.alarm, c.pc, g.out)
                               /\ OnlyACKs(c, g) /\ Synced(p, g)
      BY <1>0, TakenSynced
    <2> HIDE DEF g
    <2> QED
      BY <1>0, <2>1, MovedHandled DEF State, Closers, PeerGone
  <1>5. Fields(c, e, "ESTABLISHED", c.acknowledgment, c.next, c.alarm, c.pc, c.out) /\ e \in Conn
    BY <1>0, MovedFields DEF Fields, State
  <1> HIDE DEF e
  <1>6. Fields(e, h, e.state, e.acknowledgment, e.next, e.alarm, e.pc, e.out) /\ h \in Conn
    BY <1>5, ForgivenFields DEF Fields
  <1> HIDE DEF h
  <1>7. /\ Fields(h, t, h.state, t.acknowledgment, h.next, h.alarm, h.pc, t.out) /\ OnlyACKs(h, t)
        /\ t.acknowledgment >= h.acknowledgment /\ t \in Conn
    BY <1>0, <1>6, AcknowledgeFields DEF Fields
  <1> HIDE DEF t
  <1>8. Fields(t, d, t.state, t.acknowledgment, t.next, t.alarm, Roused(t.pc), t.out)
    BY <1>7, SignalFields DEF Fields
  <1> HIDE DEF d
  <1>9. "ACK" \in m.flags => Handled(p, c, m, d)
    <2>1. /\ Fields(c, d, "ESTABLISHED", d.acknowledgment, c.next, c.alarm, Roused(c.pc), d.out)
          /\ d.acknowledgment >= c.acknowledgment /\ d.acknowledgment \in Nat
      BY <1>5, <1>6, <1>7, <1>8 DEF Fields, Conn
    <2>2. OnlyACKs(c, d)
      BY <1>5, <1>6, <1>7, <1>8 DEF Fields, OnlyACKs
    <2>3. Synced(p, d)
      BY <1>0, <2>1 DEF Synced
    <2> QED
      BY <1>0, <2>1, <2>2, <2>3, SyncedHandled DEF Fields, Closers, PeerGone
  <1> QED
    BY <1>1, <1>3, <1>4, <1>9
-----------------------------------------------------------------------------
(* The handler of the state, after the tests that all synchronized states  *)
(* make first                                                              *)
LEMMA SameHandled ==
    ASSUME NEW p, NEW c, NEW v, NEW m, NEW d, Handled(p, v, m, d),
           Fields(c, v, c.state, c.acknowledgment, c.next, c.alarm, c.pc, c.out)
    PROVE  Handled(p, c, m, d)
  BY DEF Handled, Fields, Synced

LEMMA SameArriving ==
    ASSUME NEW p, NEW c, NEW v, NEW m, Arriving(p, c, m),
           Fields(c, v, c.state, c.acknowledgment, c.next, c.alarm, c.pc, c.out)
    PROVE  Arriving(p, v, m)
  BY DEF Arriving, EndOK, Fields, Synced

LEMMA HandlerHandled ==
    ASSUME NEW p, NEW c, NEW m, Arriving(p, c, m)
    PROVE  Handled(p, c, m, Handler(c, m))
  <1> DEFINE v == [c EXCEPT !.valid = CheckSequence(c, m)]
             i == Invalid(v)
             Refusals == {v, FSend(v, {"ACK"}), Moved(v, "CLOSED"), Moved(i, "CLOSED"),
                          Moved(FSend(v, {"RST"}), "CLOSED"), Moved(FSend(i, {"RST"}), "CLOSED")}
  <1>0. c \in Conn /\ m \in Segment
    BY DEF Arriving
  <1>1. /\ Fields(c, v, c.state, c.acknowledgment, c.next, c.alarm, c.pc, c.out) /\ v.state = c.state
        /\ Fields(c, c, c.state, c.acknowledgment, c.next, c.alarm, c.pc, c.out)
    BY <1>0, ArrivedFields DEF Fields
  <1>2. Arriving(p, v, m)
    BY <1>1, SameArriving
  <1>3. c.state \notin Apart => \A d \in Refusals : Handled(p, c, m, d)
    <2>1. Fields(c, i, c.state, c.acknowledgment, c.next, c.alarm, c.pc, c.out)
      BY <1>1, InvalidFields DEF Fields
    <2> HIDE DEF i, v
    <2>2. /\ Handled(p, c, m, v) /\ Handled(p, c, m, Moved(v, "CLOSED"))
          /\ Handled(p, c, m, Moved(FSend(v, {"RST"}), "CLOSED"))
          /\ c.state \notin Apart => Handled(p, c, m, FSend(v, {"ACK"}))
      BY <1>1, RefusedHandled
    <2>3. /\ Handled(p, c, m, Moved(i, "CLOSED")) /\ Handled(p, c, m, Moved(FSend(i, {"RST"}), "CLOSED"))
      BY <2>1, RefusedHandled
    <2> QED
      BY <2>2, <2>3
  <1>4. CASE c.state = "SYN_RECEIVED"
    <2>1. Handler(c, m) \in Refusals \cup {SynReceived(v, m)}
      BY <1>4, Zenon DEF Handler, Checked
    <2>2. Handled(p, v, m, SynReceived(v, m))
      BY <1>1, <1>2, <1>4, SynReceivedHandled DEF Fields
    <2> QED
      BY <1>1, <1>3, <1>4, <2>1, <2>2, SameHandled DEF Apart
  <1>5. CASE c.state = "ESTABLISHED"
    <2>1. Handler(c, m) \in Refusals \cup {Established(v, m)}
      BY <1>5, Zenon DEF Handler, Checked
    <2>2. Handled(p, v, m, Established(v, m))
      BY <1>1, <1>2, <1>5, EstablishedHandled DEF Fields
    <2> QED
      BY <1>1, <1>3, <1>5, <2>1, <2>2, SameHandled DEF Apart
  <1>6. CASE c.state = "FIN_WAIT1"
    <2>1. Handler(c, m) \in Refusals \cup {FinWait1(v, m)}
      BY <1>6, Zenon DEF Handler, Checked
    <2>2. Handled(p, v, m, FinWait1(v, m))
      BY <1>1, <1>2, <1>6, FinWait1Handled DEF Fields
    <2> QED
      BY <1>1, <1>3, <1>6, <2>1, <2>2, SameHandled DEF Apart
  <1>7. CASE c.state = "FIN_WAIT2"
    <2>1. Handler(c, m) \in Refusals \cup {FinWait2(v, m)}
      BY <1>7, Zenon DEF Handler, Checked
    <2>2. Handled(p, v, m, FinWait2(v, m))
      BY <1>1, <1>2, <1>7, FinWait2Handled DEF Fields
    <2> QED
      BY <1>1, <1>3, <1>7, <2>1, <2>2, SameHandled DEF Apart
  <1>8. CASE c.state = "CLOSE_WAIT"
    <2>1. Handler(c, m) \in Refusals \cup {CloseWait(v, m)}
      BY <1>8, Zenon DEF Handler, Checked
    <2>2. Handled(p, v, m, CloseWait(v, m))
      BY <1>1, <1>2, <1>8, CloseWaitHandled DEF Fields
    <2> QED
      BY <1>1, <1>3, <1>8, <2>1, <2>2, SameHandled DEF Apart
  <1>9. CASE c.state = "CLOSING"
    <2>1. Handler(c, m) \in Refusals \cup {Closing(v, m)}
      BY <1>9, Zenon DEF Handler, Checked
    <2>2. Handled(p, v, m, Closing(v, m))
      BY <1>1, <1>2, <1>9, ClosingHandled DEF Fields
    <2> QED
      BY <1>1, <1>3, <1>9, <2>1, <2>2, SameHandled DEF Apart
  <1>10. CASE c.state = "LAST_ACK"
    <2>1. Handler(c, m) \in Refusals \cup {LastAck(v, m)}
      BY <1>10, Zenon DEF Handler, Checked
    <2>2. Handled(p, v, m, LastAck(v, m))
      BY <1>1, <1>2, <1>10, LastAckHandled DEF Fields
    <2> QED
      BY <1>1, <1>3, <1>10, <2>1, <2>2, SameHandled DEF Apart
  <1>11. CASE c.state = "TIME_WAIT"
    <2>1. Handler(c, m) \in Refusals \cup {TimeWait(v, m)}
      BY <1>11, Zenon DEF Handler, Checked
    <2>2. Handled(p, v, m, TimeWait(v, m))
      BY <1>1, <1>2, <1>11, TimeWaitHandled DEF Fields
    <2> QED
      BY <1>1, <1>3, <1>11, <2>1, <2>2, SameHandled DEF Apart
  <1>12. CASE c.state = "LISTENING"
    BY <1>12, ListeningHandled DEF Handler
  <1>13. CASE c.state = "SYN_SENT"
    BY <1>13, SynSentHandled DEF Handler
  <1>14. CASE c.state = "CLOSED"
    <2>1. Handler(c, m) = c
      BY <1>14 DEF Handler
    <2> QED
      BY <1>1, <2>1, RefusedHandled
  <1>15. c.state \in State
    BY <1>0 DEF Conn
  <1> QED
    BY <1>4, <1>5, <1>6, <1>7, <1>8, <1>9, <1>10, <1>11, <1>12, <1>13, <1>14, <1>15 DEF State

(* update(): the whole of it                                               *)
LEMMA UpdateHandled ==
    ASSUME NEW p, NEW c, NEW m, Arriving(p, c, m)
    PROVE  Handled(p, c, m, Update(c, m))
  <1> DEFINE cur == Current(c, m)
             sl  == Slide(cur, m)
             a   == Handler(sl, m)
  <1>0. c \in Conn /\ m \in Segment
    BY DEF Arriving
  <1>1. Fields(c, cur, c.state, c.acknowledgment, c.next, c.alarm, c.pc, c.out)
    BY <1>0, ArrivedFields
  <1>2. Update(c, m) \in {cur, Moved(FSend(cur, {"RST"}), "CLOSED"), a, SignalStream(a)}
    BY DEF Update
  <1> HIDE DEF cur
  <1>3. Fields(c, sl, c.state, c.acknowledgment, c.next, c.alarm, c.pc, c.out)
    BY <1>0, <1>1, ArrivedFields DEF Fields
  <1> HIDE DEF sl
  <1>4. Handled(p, c, m, cur) /\ Handled(p, c, m, Moved(FSend(cur, {"RST"}), "CLOSED"))
    BY <1>1, RefusedHandled
  <1>5. Handled(p, sl, m, a)
    BY <1>3, SameArriving, HandlerHandled
  <1> HIDE DEF a
  <1>6. Handled(p, c, m, a)
    BY <1>3, <1>5, SameHandled
  <1>7. Handled(p, c, m, SignalStream(a))
    <2> DEFINE d == SignalStream(a)
    <2>1. Fields(a, d, a.state, a.acknowledgment, a.next, a.alarm,
                 IF a.pc = "in_stream" THEN "resumed" ELSE a.pc, a.out)
      BY <1>6, SignalStreamFields DEF Handled
    <2> HIDE DEF d
    <2>2. d.pc # a.pc => a.pc = "in_stream" /\ c.pc = "in_stream" /\ d.pc = "resumed"
      BY <1>0, <1>6, <2>1 DEF Fields, Handled, PcStep, Roused
    <2>3. OutOK(p, d)
      BY <1>6, <2>1, <2>2 DEF Handled, Fields, OutOK, SegmentOK, Synced, Finned
    <2>4. PcStep(c.pc, d.pc) /\ (d.pc = "answer" => a.pc = "answer") /\ (d.pc = c.pc \/ c.pc = "in_stream" \/ d.pc = a.pc)
      BY <1>6, <2>1, <2>2 DEF Handled, PcStep
    <2> QED
      BY <1>6, <2>1, <2>3, <2>4 DEF Handled, Fields, Synced, d
  <1> QED
    BY <1>2, <1>4, <1>6, <1>7
-----------------------------------------------------------------------------
(* What a step of end p may do to its connection: it keeps what holds of   *)
(* the end by itself, sends what a segment may say, and takes back neither *)
(* the other's sequence number nor its own FIN.                            *)
Kept(p, c, d) ==
    /\ d \in Conn /\ d.initial = c.initial
    /\ EndOK(p, d) /\ OutOK(p, d)
    /\ Synced(p, c) => Synced(p, d)
    /\ c.pc \in Finned => d.pc \in Finned

LEMMA HandledKept ==
    ASSUME NEW p, NEW c, NEW m, NEW d, Arriving(p, c, m), Handled(p, c, m, d)
    PROVE  Kept(p, c, d) /\ (d.pc = "to_last_ack" => c.pc = "to_last_ack")
  <1>0. c \in Conn /\ EndOK(p, c) /\ p \in Peers /\ ISN(p) \in Nat /\ c.next \in Nat /\ d \in Conn /\ d.next \in Nat
    BY Constants DEF Arriving, Handled, Conn
  <1>1. PcStep(c.pc, d.pc)
    BY DEF Handled
  <1>2. c.pc \in Finned => d.pc \in Finned
    BY <1>1 DEF PcStep, Roused, Finned
  <1>3. d.pc = "to_last_ack" => c.pc = "to_last_ack"
    BY <1>1 DEF PcStep, Roused
  <1>4. d.next >= ISN(p)
    BY <1>0 DEF Handled, EndOK
  <1>5. d.alarm \/ d.pc \notin Unsynced => d.next > ISN(p)
    <2>1. d.pc \notin Unsynced => c.pc \notin Unsynced
      BY <1>1 DEF PcStep, Roused, Unsynced
    <2>2. d.alarm => c.alarm \/ c.pc \notin Unsynced
      BY <1>0 DEF Handled, EndOK, Unsynced
    <2>3. c.alarm \/ c.pc \notin Unsynced => c.next > ISN(p)
      BY <1>0 DEF EndOK
    <2>4. d.next >= c.next
      BY DEF Handled
    <2> QED
      BY <1>0, <2>1, <2>2, <2>3, <2>4
  <1>6. d.retransmiting => d.pc \in InWrite
    BY <1>0, <1>1 DEF Handled, EndOK, PcStep, Roused, InWrite
  <1>7. d.state = "SYN_SENT" => d.pc \in {"syn", "sent_syn", "in_connect"}
    BY <1>0 DEF Handled, EndOK
  <1>8. d.state \in Closers => d.pc \in {"fin", "sent_fin", "in_close", "deleted"}
    BY <1>0, <1>1 DEF Handled, EndOK, PcStep, Roused
  <1>9. d.state \notin Apart \/ d.pc \in Answering \cup (Leaving \ {"close"}) \cup {"fin"} => Synced(p, d)
    <2>1. d.pc \in (Answering \ {"answer"}) \cup (Leaving \ {"close"}) \cup {"fin"} => d.pc = c.pc
      BY <1>1 DEF PcStep, Roused, Answering, Leaving
    <2>2. d.pc \in Answering \cup (Leaving \ {"close"}) \cup {"fin"} => Synced(p, c) \/ Synced(p, d)
      BY <1>0, <2>1 DEF Handled, EndOK, Answering
    <2> QED
      BY <2>2 DEF Handled
  <1>10. d.pc \in Passive \cup Leaving \cup {"fin"} => d.pc = c.pc
    BY <1>1 DEF PcStep, Roused, Passive, Leaving
  <1>11. d.pc \in Passive => ~d.alarm /\ d.state \in {"CLOSED", "LISTENING"}
    BY <1>0, <1>10 DEF Handled, EndOK, Passive, Closers
  <1>12. d.pc \in Leaving => ~d.alarm
    BY <1>0, <1>10 DEF Handled, EndOK, Leaving
  <1>13. d.pc = "fin" /\ d.alarm => d.state \in {"CLOSED", "TIME_WAIT"}
    BY <1>0, <1>10 DEF Handled, EndOK
  <1>14. EndOK(p, d)
    BY <1>4, <1>5, <1>6, <1>7, <1>8, <1>9, <1>11, <1>12, <1>13 DEF EndOK
  <1> QED
    BY <1>2, <1>3, <1>14 DEF Handled, Kept

(* What is stored of a connection, and what of its segments is posted      *)
LEMMA StoredFields ==
    ASSUME NEW p, NEW d \in Conn
    PROVE  Fields(d, Stored(p, d), d.state, d.acknowledgment, d.next, d.alarm, d.pc, {})
  <1> DEFINE v == d.valid /\ d.streaming
             u == IF p \in Writers /\ strm[p].result = "none" THEN d.current ELSE 0
  <1>1. v \in BOOLEAN
    BY Zenon
  <1>2. u \in Nat
    BY DEF Conn
  <1>3. Stored(p, d) = [d EXCEPT !.out = {}, !.valid = v, !.current = u]
    BY DEF Stored
  <1> HIDE DEF v, u
  <1>4. [d EXCEPT !.out = {}, !.valid = v, !.current = u] \in Conn
    BY <1>1, <1>2 DEF Conn
  <1>5. LET e == [d EXCEPT !.out = {}, !.valid = v, !.current = u]
        IN  /\ e.initial = d.initial /\ e.retransmiting = d.retransmiting /\ e.state = d.state
            /\ e.acknowledgment = d.acknowledgment /\ e.next = d.next /\ e.alarm = d.alarm /\ e.pc = d.pc /\ e.out = {}
    BY DEF Conn
  <1> QED
    BY <1>3, <1>4, <1>5 DEF Fields

LEMMA PostedOK ==
    ASSUME NEW p \in Peers, NEW d \in Conn, OutOK(p, d), NEW m \in Posted(p, d)
    PROVE  m \in Segment /\ m.to = Other(p) /\ SegmentOK(p, d, m)
  <1>1. PICK b \in d.out : m = [to |-> Other(p), flags |-> b.flags, seq |-> b.seq, ack |-> b.ack, data |-> b.data]
    BY DEF Posted
  <1>2. b \in Body /\ Other(p) \in Peers
    BY Constants DEF Conn
  <1>3. b.flags \in SUBSET Flag /\ b.seq \in Nat /\ b.ack \in Nat /\ b.data \in Seq(Nat)
    BY <1>2 DEF Body
  <1>4. m \in Segment /\ m.to = Other(p) /\ m.flags = b.flags /\ m.seq = b.seq
    BY <1>1, <1>2, <1>3 DEF Segment
  <1> QED
    BY <1>4 DEF OutOK, SegmentOK

(* A step of one end keeps the invariant when it keeps the end's part and  *)
(* agrees with the other end.                                              *)
LEMMA EndStepKeeps ==
    ASSUME CInv, NEW p \in Peers, NEW d, Kept(p, conn[p], d), Agreement(p, d, conn[Other(p)]),
           conn' = [conn EXCEPT ![p] = Stored(p, d)], net' \subseteq net \cup Posted(p, d),
           strm' \in [Peers -> Stream]
    PROVE  CInv'
  <1> DEFINE s == Stored(p, d)
             o == Other(p)
  <1>1. /\ conn \in [Peers -> Conn] /\ net \subseteq Segment /\ d \in Conn /\ d.initial = ISN(p)
        /\ o \in Peers /\ o # p /\ Other(o) = p /\ \A q \in Peers : q = p \/ q = o
    BY Constants DEF CInv, Types, Kept, Peers
  <1>2. Fields(d, s, d.state, d.acknowledgment, d.next, d.alarm, d.pc, {})
    BY <1>1, StoredFields
  <1>3. conn'[p] = s /\ conn'[o] = conn[o]
    BY <1>1
  <1> HIDE DEF s
  <1>4. Types'
    <2>1. s \in Conn /\ s.out = {} /\ s.initial = ISN(p)
      BY <1>1, <1>2 DEF Fields
    <2>2. conn' \in [Peers -> Conn]
      BY <1>1, <2>1 DEF s
    <2>3. \A q \in Peers : conn'[q].out = {} /\ conn'[q].initial = ISN(q)
      BY <1>1, <1>3, <2>1 DEF CInv, Types
    <2>4. net' \subseteq Segment
      BY <1>1, PostedOK DEF Kept
    <2> QED
      BY <2>2, <2>3, <2>4 DEF Types
  <1>5. EndOK(p, s) /\ EndOK(o, conn[o])
    BY <1>1, <1>2 DEF CInv, EndOK, Fields, Kept, Synced
  <1>6. Agreement(p, s, conn[o])
    BY <1>2 DEF Agreement, Fields
  <1>7. Synced(p, conn[p]) => Synced(p, s)
    BY <1>2 DEF Kept, Fields, Synced
  <1>8. conn[p].pc \in Finned => s.pc \in Finned
    BY <1>2 DEF Kept, Fields
  <1>9. Agreement(o, conn[o], s)
    BY <1>1, <1>7, <1>8 DEF CInv, Agreement
  <1>10. ASSUME NEW m \in net'
         PROVE  SegmentOK(Other(m.to), conn'[Other(m.to)], m)
    <2>1. CASE m \in Posted(p, d)
      <3>1. m.to = o /\ SegmentOK(p, d, m)
        BY <1>1, <2>1, PostedOK DEF Kept
      <3>2. SegmentOK(p, s, m)
        BY <1>2, <3>1 DEF SegmentOK, Fields, Synced
      <3> QED
        BY <1>1, <1>3, <3>1, <3>2
    <2>2. CASE m \in net
      <3>1. m.to \in Peers /\ SegmentOK(Other(m.to), conn[Other(m.to)], m)
        BY <1>1, <2>2 DEF CInv, Segment
      <3>2. CASE m.to = p
        BY <1>1, <1>3, <3>1, <3>2
      <3>3. CASE m.to = o
        <4>1. SegmentOK(p, conn[p], m)
          BY <1>1, <3>1, <3>3
        <4>2. SegmentOK(p, s, m)
          BY <1>7, <1>8, <4>1 DEF SegmentOK
        <4> QED
          BY <1>1, <1>3, <3>3, <4>2
      <3> QED
        BY <1>1, <3>1, <3>2, <3>3
    <2> QED
      BY <2>1, <2>2
  <1>11. \A q \in Peers : EndOK(q, conn'[q]) /\ Agreement(q, conn'[q], conn'[Other(q)])
    BY <1>1, <1>3, <1>5, <1>6, <1>9
  <1> QED
    BY <1>4, <1>10, <1>11 DEF CInv
-----------------------------------------------------------------------------
(* What is known of an end in a state of the invariant                     *)
LEMMA EndFacts ==
    ASSUME CInv, NEW p \in Peers
    PROVE  /\ conn[p] \in Conn /\ conn[p].out = {} /\ conn[p].initial = ISN(p) /\ EndOK(p, conn[p])
           /\ conn[p].next \in Nat /\ ISN(p) \in Nat /\ conn[p].state \in State /\ conn[p].pc \in Label
           /\ strm \in [Peers -> Stream] /\ strm[p] \in Stream
           /\ Other(p) \in Peers /\ Agreement(p, conn[p], conn[Other(p)])
  BY Constants DEF CInv, Types, Conn

LEMMA CarriedSome ==
    ASSUME NEW S, NEW T
    PROVE  Carried(S, T) \subseteq S \cup T
  BY DEF Carried

(* A segment arrives: what it says of the other end makes the agreement.   *)
LEMMA ReceiveKeeps ==
    ASSUME CInv, NEW p \in Peers, Receive(p)
    PROVE  CInv'
  <1>1. PICK m \in net, duplicate \in BOOLEAN :
             /\ m.to = p
             /\ conn' = [conn EXCEPT ![p] = Stored(p, Update(conn[p], m))]
             /\ net' = Carried(IF duplicate THEN net ELSE net \ {m}, Posted(p, Update(conn[p], m)))
             /\ strm' = strm
    BY DEF Receive, Observed
  <1> DEFINE d == Update(conn[p], m)
  <1>2. m \in Segment /\ SegmentOK(Other(p), conn[Other(p)], m)
    BY <1>1 DEF CInv, Types
  <1>3. Arriving(p, conn[p], m)
    BY <1>2, EndFacts DEF Arriving, SegmentOK
  <1>4. Handled(p, conn[p], m, d)
    BY <1>3, UpdateHandled
  <1> HIDE DEF d
  <1>5. Kept(p, conn[p], d) /\ (d.pc = "to_last_ack" => conn[p].pc = "to_last_ack")
    BY <1>3, <1>4, HandledKept
  <1>6. Agreement(p, d, conn[Other(p)])
    BY <1>2, <1>4, <1>5, EndFacts DEF Agreement, Handled, SegmentOK
  <1>7. net' \subseteq net \cup Posted(p, d)
    BY <1>1, CarriedSome DEF d
  <1> QED
    BY <1>1, <1>5, <1>6, <1>7, EndFacts, EndStepKeeps DEF d

LEMMA LoseKeeps ==
    ASSUME CInv, Lose
    PROVE  CInv'
  BY DEF CInv, Types, Lose

(* The alarm goes off: SYN and FIN are sent again with their old number.   *)
LEMMA ExpiredKept ==
    ASSUME NEW p \in Peers, NEW c \in Conn, c.out = {}, EndOK(p, c), c.alarm, c.pc \notin {"deleted", "gone"}
    PROVE  /\ Kept(p, c, Expired(c)) /\ Expired(c).state \in {c.state, "CLOSED"}
           /\ Expired(c).pc = "to_last_ack" => c.pc = "to_last_ack"
  <1> DEFINE off   == [c EXCEPT !.alarm = FALSE]
             again == [off EXCEPT !.tries = @ + 1, !.next = @ - 1]
             d     == Expired(c)
  <1>0. ISN(p) \in Nat /\ c.next \in Nat /\ c.next > ISN(p) /\ c.tries \in Nat
    BY Constants DEF EndOK, Conn
  <1>1. Fields(c, off, c.state, c.acknowledgment, c.next, FALSE, c.pc, {})
    BY DEF Fields, Conn
  <1>2. CASE d \in {off, Signal(Moved(off, "CLOSED")), Signal(Forgiven(Moved(off, "CLOSED")))}
    <2> DEFINE g == Moved(off, "CLOSED")
               f == Forgiven(g)
    <2>1. "CLOSED" \in State
      BY DEF State
    <2> HIDE DEF off
    <2>2. Fields(c, g, "CLOSED", c.acknowledgment, c.next, FALSE, c.pc, {})
      BY <1>1, <2>1, MovedFields DEF Fields
    <2> HIDE DEF g
    <2>3. Fields(c, f, "CLOSED", c.acknowledgment, c.next, FALSE, c.pc, {})
      BY <2>2, ForgivenFields DEF Fields
    <2> HIDE DEF f
    <2>4. /\ Fields(c, Signal(g), "CLOSED", c.acknowledgment, c.next, FALSE, Roused(c.pc), {})
          /\ Fields(c, Signal(f), "CLOSED", c.acknowledgment, c.next, FALSE, Roused(c.pc), {})
      BY <2>2, <2>3, SignalFields DEF Fields
    <2>5. PICK S \in {c.state, "CLOSED"}, k \in {c.pc, Roused(c.pc)} :
              Fields(c, d, S, c.acknowledgment, c.next, FALSE, k, {}) /\ (k = c.pc \/ S = "CLOSED")
      BY <1>1, <1>2, <2>2, <2>3, <2>4 DEF f, g
    <2> HIDE DEF d
    <2>6. EndOK(p, d)
      <3>1. c.pc \notin Passive
        BY DEF EndOK
      <3>2. k \in Passive \cup Answering \cup Leaving \cup {"fin"} => k = c.pc
        BY <2>5, <3>1 DEF Roused, Passive, Answering, Leaving
      <3>3. c.pc \in InWrite => k \in InWrite
        BY <2>5 DEF Roused, InWrite
      <3>4. Synced(p, c) <=> Synced(p, d)
        BY <2>5 DEF Fields, Synced
      <3>5. d.state = S /\ d.pc = k /\ d.next = c.next /\ d.alarm = FALSE /\ d.retransmiting = c.retransmiting
        BY <2>5 DEF Fields
      <3>6. "CLOSED" \notin Closers /\ "CLOSED" \in Apart
        BY DEF Closers, Apart
      <3> QED
        BY <1>0, <2>5, <3>1, <3>2, <3>3, <3>4, <3>5, <3>6 DEF EndOK
    <2>7. c.pc \in Finned => k \in Finned
      BY <2>5 DEF Roused, Finned
    <2>8. k = "to_last_ack" => c.pc = "to_last_ack"
      BY <2>5 DEF Roused
    <2> QED
      BY <2>5, <2>6, <2>7, <2>8 DEF Kept, Fields, OutOK, Synced, d
  <1>3. Fields(c, again, c.state, c.acknowledgment, c.next - 1, FALSE, c.pc, {}) /\ c.next - 1 \in Nat
    <2>1. c.next - 1 \in Nat /\ c.tries + 1 \in Nat /\ off.tries = c.tries /\ off.next = c.next
      BY <1>0 DEF Conn
    <2>2. again = [off EXCEPT !.tries = c.tries + 1, !.next = c.next - 1]
      BY <2>1
    <2> HIDE DEF off, again
    <2> QED
      BY <1>1, <2>1, <2>2 DEF Fields, Conn
  <1>4. ASSUME NEW flags \in {{"FIN", "ACK"}, {"SYN"}}, d = Armed(FSend(again, flags)),
               c.state \in IF flags = {"SYN"} THEN {"SYN_SENT"} ELSE {"FIN_WAIT1", "LAST_ACK", "CLOSING"}
        PROVE  Kept(p, c, d) /\ d.state = c.state /\ d.pc = c.pc
    <2> DEFINE e == FSend(again, flags)
    <2> HIDE DEF again
    <2>1. flags \in SUBSET Flag /\ Number(flags) = 1
      BY DEF Flag, Number
    <2>2. ~c.retransmiting /\ again.next = c.next - 1 /\ again.retransmiting = c.retransmiting /\ again \in Conn
      BY <1>3, <1>4 DEF EndOK, InWrite, Closers, Fields
    <2>3. /\ Fields(again, e, again.state, again.acknowledgment, again.next + Number(flags), again.alarm, again.pc,
                    again.out \cup {Bare(again, flags)})
          /\ Bare(again, flags).flags = flags /\ Bare(again, flags).seq = c.next - 1
      BY <2>1, <2>2, FSendFields
    <2> HIDE DEF e
    <2>4. Fields(c, e, c.state, c.acknowledgment, c.next, FALSE, c.pc, {Bare(again, flags)})
      BY <1>0, <1>3, <2>1, <2>3 DEF Fields
    <2>5. Fields(c, d, c.state, c.acknowledgment, c.next, TRUE, c.pc, {Bare(again, flags)})
      BY <1>4, <2>4, ArmedFields DEF Fields, e
    <2> HIDE DEF d
    <2>6. EndOK(p, d)
      BY <2>5 DEF Fields, EndOK, Synced
    <2>7. "FIN" \in flags => Synced(p, c) /\ c.pc \in Finned
      BY <1>4 DEF EndOK, Closers, Apart, Finned
    <2>8. "ACK" \in flags => "FIN" \in flags
      OBVIOUS
    <2>9. SegmentOK(p, d, Bare(again, flags))
      BY <1>0, <2>3, <2>5, <2>7, <2>8 DEF SegmentOK, Fields, Synced
    <2> QED
      BY <2>5, <2>6, <2>9 DEF Kept, Fields, OutOK, Synced
  <1>5. \/ d \in {off, Signal(Moved(off, "CLOSED")), Signal(Forgiven(Moved(off, "CLOSED")))}
        \/ d = Armed(FSend(again, {"FIN", "ACK"})) /\ c.state \in {"FIN_WAIT1", "LAST_ACK", "CLOSING"}
        \/ d = Armed(FSend(again, {"SYN"})) /\ c.state = "SYN_SENT"
    BY DEF Expired
  <1> HIDE DEF off, again
  <1>6. CASE d = Armed(FSend(again, {"FIN", "ACK"})) /\ c.state \in {"FIN_WAIT1", "LAST_ACK", "CLOSING"}
    <2>1. {"FIN", "ACK"} # {"SYN"}
      OBVIOUS
    <2> QED
      BY <1>4, <1>6, <2>1
  <1>7. CASE d = Armed(FSend(again, {"SYN"})) /\ c.state = "SYN_SENT"
    BY <1>4, <1>7
  <1> QED
    BY <1>2, <1>5, <1>6, <1>7
LEMMA TimeoutKeeps ==
    ASSUME CInv, NEW p \in Peers, Timeout(p)
    PROVE  CInv'
  <1> DEFINE d == Expired(conn[p])
  <1>1. /\ conn' = [conn EXCEPT ![p] = Stored(p, d)] /\ net' = Carried(net, Posted(p, d)) /\ strm' = strm
        /\ conn[p].alarm /\ conn[p].pc \notin {"deleted", "gone"}
    BY DEF Timeout, Become
  <1>2. /\ Kept(p, conn[p], d) /\ d.state \in {conn[p].state, "CLOSED"}
        /\ d.pc = "to_last_ack" => conn[p].pc = "to_last_ack"
    BY <1>1, EndFacts, ExpiredKept
  <1> HIDE DEF d
  <1>3. Agreement(p, d, conn[Other(p)])
    BY <1>2, EndFacts DEF Agreement, PeerGone
  <1> QED
    BY <1>1, <1>2, <1>3, CarriedSome, EndFacts, EndStepKeeps

LEMMA StreamTimeoutKeeps ==
    ASSUME CInv, NEW p \in Peers, StreamTimeout(p)
    PROVE  CInv'
  <1> DEFINE c == conn[p]
             d == SignalStream(c)
  <1>1. conn' = [conn EXCEPT ![p] = Stored(p, d)] /\ net' = Carried(net, Posted(p, d)) /\ strm' = strm /\ c.pc = "in_stream"
    BY DEF StreamTimeout, Become, At
  <1>2. Fields(c, d, c.state, c.acknowledgment, c.next, c.alarm, "resumed", {})
    BY <1>1, EndFacts, SignalStreamFields
  <1> HIDE DEF d
  <1>3. EndOK(p, d)
    BY <1>1, <1>2, EndFacts DEF EndOK, Fields, Synced, Unsynced, InWrite, Answering, Leaving, Passive
  <1>4. Kept(p, c, d)
    BY <1>1, <1>2, <1>3 DEF Kept, Fields, OutOK, Synced, Finned
  <1>5. Agreement(p, d, conn[Other(p)])
    BY <1>2, EndFacts DEF Agreement, Fields
  <1> QED
    BY <1>1, <1>4, <1>5, CarriedSome, EndFacts, EndStepKeeps
-----------------------------------------------------------------------------
(* A step of the thread changes no acknowledgment number, and brings the   *)
(* connection to no state that says something new of the other end.        *)
LEMMA ThreadKeeps ==
    ASSUME CInv, NEW p \in Peers, NEW l, NEW k \in Label, NEW x \in Conn, Step(p, l, x, k), strm' \in [Peers -> Stream],
           x.initial = conn[p].initial, x.acknowledgment = conn[p].acknowledgment,
           EndOK(p, Goto(x, k)), OutOK(p, Goto(x, k)), l \in Finned => k \in Finned,
           x.state = "ESTABLISHED" => conn[p].state = "ESTABLISHED",
           x.state \in PeerGone \/ k = "to_last_ack" => conn[p].state \in PeerGone \/ l = "to_last_ack"
    PROVE  CInv'
  <1> DEFINE d == Goto(x, k)
  <1>1. /\ conn' = [conn EXCEPT ![p] = Stored(p, d)] /\ net' = Carried(net, Posted(p, d)) /\ conn[p].pc = l
    BY DEF Step, Become, At
  <1>2. Fields(x, d, x.state, x.acknowledgment, x.next, x.alarm, k, x.out)
    BY GotoFields
  <1>3. Kept(p, conn[p], d)
    BY <1>1, <1>2 DEF Kept, Fields, Synced
  <1>4. Agreement(p, d, conn[Other(p)])
    BY <1>1, <1>2, EndFacts DEF Agreement, Fields
  <1> HIDE DEF d
  <1> QED
    BY <1>1, <1>3, <1>4, CarriedSome, EndStepKeeps

(* The labels that a step goes between, and what it needs of them.         *)
LEMMA ConnectStateKeeps ==
    ASSUME CInv, NEW p \in Peers, ConnectState(p)
    PROVE  CInv'
  <1> DEFINE c == conn[p]
             x == Moved(c, "SYN_SENT")
             d == Goto(x, "syn")
  <1>1. Step(p, "connect", x, "syn") /\ c.pc = "connect"
    BY DEF ConnectState, Step, At
  <1>2. Fields(c, x, "SYN_SENT", c.acknowledgment, c.next, c.alarm, "connect", {})
    BY <1>1, EndFacts, MovedFields DEF State
  <1>3. strm' \in [Peers -> Stream] /\ "syn" \in Label
    BY EndFacts DEF ConnectState, Label
  <1> HIDE DEF x
  <1>4. Fields(x, d, x.state, x.acknowledgment, x.next, x.alarm, "syn", x.out)
    BY <1>2, <1>3, GotoFields DEF Fields
  <1> HIDE DEF d
  <1>5. EndOK(p, d)
    BY <1>1, <1>2, <1>4, EndFacts DEF Fields, EndOK, Synced, Unsynced, InWrite, Answering, Leaving, Passive, Closers, Apart
  <1>6. OutOK(p, d)
    BY <1>2, <1>4 DEF Fields, OutOK
  <1> QED
    BY <1>1, <1>2, <1>3, <1>5, <1>6, ThreadKeeps DEF Fields, Finned, PeerGone, d

LEMMA ListenStateKeeps ==
    ASSUME CInv, NEW p \in Peers, ListenState(p)
    PROVE  CInv'
  <1> DEFINE c == conn[p]
             x == Moved(c, "LISTENING")
             d == Goto(x, "listening")
  <1>1. Step(p, "listen", x, "listening") /\ c.pc = "listen"
    BY DEF ListenState, Step, At
  <1>2. Fields(c, x, "LISTENING", c.acknowledgment, c.next, c.alarm, "listen", {})
    BY <1>1, EndFacts, MovedFields DEF State
  <1>3. strm' \in [Peers -> Stream] /\ "listening" \in Label
    BY EndFacts DEF ListenState, Label
  <1> HIDE DEF x
  <1>4. Fields(x, d, x.state, x.acknowledgment, x.next, x.alarm, "listening", x.out)
    BY <1>2, <1>3, GotoFields DEF Fields
  <1> HIDE DEF d
  <1>5. EndOK(p, d)
    BY <1>1, <1>2, <1>4, EndFacts DEF Fields, EndOK, Synced, Unsynced, InWrite, Answering, Leaving, Passive, Closers, Apart
  <1>6. OutOK(p, d)
    BY <1>2, <1>4 DEF Fields, OutOK
  <1> QED
    BY <1>1, <1>2, <1>3, <1>5, <1>6, ThreadKeeps DEF Fields, Finned, PeerGone, d

LEMMA ListenWaitKeeps ==
    ASSUME CInv, NEW p \in Peers, ListenWait(p)
    PROVE  CInv'
  <1> DEFINE c == conn[p]
             x == c
             d == Goto(x, "in_listen")
  <1>1. Step(p, "listening", x, "in_listen") /\ c.pc = "listening"
    BY DEF ListenWait, Step, At
  <1>2. Fields(c, x, c.state, c.acknowledgment, c.next, c.alarm, "listening", {})
    BY <1>1, EndFacts, EndFacts DEF Fields
  <1>3. strm' \in [Peers -> Stream] /\ "in_listen" \in Label
    BY EndFacts DEF ListenWait, Label
  <1> HIDE DEF x
  <1>4. Fields(x, d, x.state, x.acknowledgment, x.next, x.alarm, "in_listen", x.out)
    BY <1>2, <1>3, GotoFields DEF Fields
  <1> HIDE DEF d
  <1>5. EndOK(p, d)
    BY <1>1, <1>2, <1>4, EndFacts DEF Fields, EndOK, Synced, Unsynced, InWrite, Answering, Leaving, Passive, Closers, Apart
  <1>6. OutOK(p, d)
    BY <1>2, <1>4 DEF Fields, OutOK
  <1> QED
    BY <1>1, <1>2, <1>3, <1>5, <1>6, ThreadKeeps DEF Fields, Finned, PeerGone, d

LEMMA ListenReceivedWaitKeeps ==
    ASSUME CInv, NEW p \in Peers, ListenReceivedWait(p)
    PROVE  CInv'
  <1> DEFINE c == conn[p]
             x == c
             d == Goto(x, "in_received")
  <1>1. Step(p, "received", x, "in_received") /\ c.pc = "received"
    BY DEF ListenReceivedWait, Step, At
  <1>2. Fields(c, x, c.state, c.acknowledgment, c.next, c.alarm, "received", {})
    BY <1>1, EndFacts, EndFacts DEF Fields
  <1>3. strm' \in [Peers -> Stream] /\ "in_received" \in Label
    BY EndFacts DEF ListenReceivedWait, Label
  <1> HIDE DEF x
  <1>4. Fields(x, d, x.state, x.acknowledgment, x.next, x.alarm, "in_received", x.out)
    BY <1>2, <1>3, GotoFields DEF Fields
  <1> HIDE DEF d
  <1>5. EndOK(p, d)
    BY <1>1, <1>2, <1>4, EndFacts DEF Fields, EndOK, Synced, Unsynced, InWrite, Answering, Leaving, Passive, Closers, Apart
  <1>6. OutOK(p, d)
    BY <1>2, <1>4 DEF Fields, OutOK
  <1> QED
    BY <1>1, <1>2, <1>3, <1>5, <1>6, ThreadKeeps DEF Fields, Finned, PeerGone, d

LEMMA FirstSent ==
    ASSUME NEW c \in Conn, c.out = {}, ~c.retransmiting, NEW flags \in SUBSET Flag, flags \cap {"SYN", "FIN"} # {}
    PROVE  /\ Fields(c, FSend(c, flags), c.state, c.acknowledgment, c.next + 1, c.alarm, c.pc, {Bare(c, flags)})
           /\ Bare(c, flags).flags = flags /\ Bare(c, flags).seq = c.next
  <1>1. Number(flags) = 1
    BY DEF Number
  <1> QED
    BY <1>1, FSendFields DEF Fields

LEMMA ConnectSendKeeps ==
    ASSUME CInv, NEW p \in Peers, ConnectSend(p)
    PROVE  CInv'
  <1> DEFINE c == conn[p]
             x == FSend(c, {"SYN"})
             d == Goto(x, "sent_syn")
  <1>1. Step(p, "syn", x, "sent_syn") /\ c.pc = "syn"
    BY DEF ConnectSend, Step, At
  <1>0. /\ Fields(c, FSend(c, {"SYN"}), c.state, c.acknowledgment, c.next + 1, c.alarm, c.pc, {Bare(c, {"SYN"})})
        /\ Bare(c, {"SYN"}).flags = {"SYN"} /\ Bare(c, {"SYN"}).seq = c.next
    <2>1. ~c.retransmiting
      BY <1>1, EndFacts DEF EndOK, InWrite
    <2> QED
      BY <2>1, EndFacts, FirstSent DEF Flag
  <1>2. Fields(c, x, c.state, c.acknowledgment, c.next + 1, c.alarm, "syn", {Bare(c, {"SYN"})})
    BY <1>1, EndFacts, <1>0
  <1>3. strm' \in [Peers -> Stream] /\ "sent_syn" \in Label
    BY EndFacts DEF ConnectSend, Label
  <1> HIDE DEF x
  <1>4. Fields(x, d, x.state, x.acknowledgment, x.next, x.alarm, "sent_syn", x.out)
    BY <1>2, <1>3, GotoFields DEF Fields
  <1> HIDE DEF d
  <1>5. EndOK(p, d)
    BY <1>1, <1>2, <1>4, EndFacts DEF Fields, EndOK, Synced, Unsynced, InWrite, Answering, Leaving, Passive, Closers, Apart
  <1>6. OutOK(p, d)
    <2>1. SegmentOK(p, d, Bare(c, {"SYN"}))
      BY <1>0, <1>1, <1>2, <1>4, EndFacts DEF SegmentOK, Fields, Synced, EndOK
    <2> QED
      BY <1>2, <1>4, <2>1 DEF Fields, OutOK
  <1> QED
    BY <1>1, <1>2, <1>3, <1>5, <1>6, ThreadKeeps DEF Fields, Finned, PeerGone, d

LEMMA ListenSendKeeps ==
    ASSUME CInv, NEW p \in Peers, ListenSend(p)
    PROVE  CInv'
  <1> DEFINE c == conn[p]
             x == FSend(c, {"SYN", "ACK"})
             d == Goto(x, "answered")
  <1>1. Step(p, "answer", x, "answered") /\ c.pc = "answer"
    BY DEF ListenSend, Step, At
  <1>0. /\ Fields(c, FSend(c, {"SYN", "ACK"}), c.state, c.acknowledgment, c.next + 1, c.alarm, c.pc, {Bare(c, {"SYN", "ACK"})})
        /\ Bare(c, {"SYN", "ACK"}).flags = {"SYN", "ACK"} /\ Bare(c, {"SYN", "ACK"}).seq = c.next
    <2>1. ~c.retransmiting
      BY <1>1, EndFacts DEF EndOK, InWrite
    <2> QED
      BY <2>1, EndFacts, FirstSent DEF Flag
  <1>2. Fields(c, x, c.state, c.acknowledgment, c.next + 1, c.alarm, "answer", {Bare(c, {"SYN", "ACK"})})
    BY <1>1, EndFacts, <1>0
  <1>3. strm' \in [Peers -> Stream] /\ "answered" \in Label
    BY EndFacts DEF ListenSend, Label
  <1> HIDE DEF x
  <1>4. Fields(x, d, x.state, x.acknowledgment, x.next, x.alarm, "answered", x.out)
    BY <1>2, <1>3, GotoFields DEF Fields
  <1> HIDE DEF d
  <1>5. EndOK(p, d)
    BY <1>1, <1>2, <1>4, EndFacts DEF Fields, EndOK, Synced, Unsynced, InWrite, Answering, Leaving, Passive, Closers, Apart
  <1>6. OutOK(p, d)
    <2>1. SegmentOK(p, d, Bare(c, {"SYN", "ACK"}))
      BY <1>0, <1>1, <1>2, <1>4, EndFacts DEF SegmentOK, Fields, Synced, EndOK, Answering
    <2> QED
      BY <1>2, <1>4, <2>1 DEF Fields, OutOK
  <1> QED
    BY <1>1, <1>2, <1>3, <1>5, <1>6, ThreadKeeps DEF Fields, Finned, PeerGone, d

LEMMA CloseSendKeeps ==
    ASSUME CInv, NEW p \in Peers, CloseSend(p)
    PROVE  CInv'
  <1> DEFINE c == conn[p]
             x == FSend(c, {"ACK", "FIN"})
             d == Goto(x, "sent_fin")
  <1>1. Step(p, "fin", x, "sent_fin") /\ c.pc = "fin"
    BY DEF CloseSend, Step, At
  <1>0. /\ Fields(c, FSend(c, {"ACK", "FIN"}), c.state, c.acknowledgment, c.next + 1, c.alarm, c.pc, {Bare(c, {"ACK", "FIN"})})
        /\ Bare(c, {"ACK", "FIN"}).flags = {"ACK", "FIN"} /\ Bare(c, {"ACK", "FIN"}).seq = c.next
    <2>1. ~c.retransmiting
      BY <1>1, EndFacts DEF EndOK, InWrite
    <2> QED
      BY <2>1, EndFacts, FirstSent DEF Flag
  <1>2. Fields(c, x, c.state, c.acknowledgment, c.next + 1, c.alarm, "fin", {Bare(c, {"ACK", "FIN"})})
    BY <1>1, EndFacts, <1>0
  <1>3. strm' \in [Peers -> Stream] /\ "sent_fin" \in Label
    BY EndFacts DEF CloseSend, Label
  <1> HIDE DEF x
  <1>4. Fields(x, d, x.state, x.acknowledgment, x.next, x.alarm, "sent_fin", x.out)
    BY <1>2, <1>3, GotoFields DEF Fields
  <1> HIDE DEF d
  <1>5. EndOK(p, d)
    BY <1>1, <1>2, <1>4, EndFacts DEF Fields, EndOK, Synced, Unsynced, InWrite, Answering, Leaving, Passive, Closers, Apart
  <1>6. OutOK(p, d)
    <2>1. SegmentOK(p, d, Bare(c, {"ACK", "FIN"}))
      BY <1>0, <1>1, <1>2, <1>4, EndFacts DEF SegmentOK, Fields, Synced, EndOK, Finned
    <2> QED
      BY <1>2, <1>4, <2>1 DEF Fields, OutOK
  <1> QED
    BY <1>1, <1>2, <1>3, <1>5, <1>6, ThreadKeeps DEF Fields, Finned, PeerGone, d

LEMMA ConnectWaitKeeps ==
    ASSUME CInv, NEW p \in Peers, ConnectWait(p)
    PROVE  CInv'
  <1> DEFINE c == conn[p]
             x == Armed([c EXCEPT !.unacknowledged = c.sequence])
             d == Goto(x, "in_connect")
  <1>1. Step(p, "sent_syn", x, "in_connect") /\ c.pc = "sent_syn"
    BY DEF ConnectWait, Step, At
  <1>0. Fields(c, x, c.state, c.acknowledgment, c.next, TRUE, c.pc, {})
    <2> DEFINE u == [c EXCEPT !.unacknowledged = c.sequence]
    <2>1. c.sequence \in Nat
      BY EndFacts DEF Conn
    <2>2. Fields(c, u, c.state, c.acknowledgment, c.next, c.alarm, c.pc, {})
      BY <2>1, EndFacts, UnaFields
    <2> HIDE DEF u
    <2>3. Fields(c, Armed(u), c.state, c.acknowledgment, c.next, TRUE, c.pc, {})
      BY <2>2, ArmedFields DEF Fields
    <2> QED
      BY <2>3 DEF u
  <1>2. Fields(c, x, c.state, c.acknowledgment, c.next, TRUE, "sent_syn", {})
    BY <1>1, EndFacts, <1>0
  <1>3. strm' \in [Peers -> Stream] /\ "in_connect" \in Label
    <2> DEFINE w == [strm[p] EXCEPT !.connects = @ + 1]
    <2>1. w \in Stream
      <3>1. strm[p] \in Stream /\ strm[p].connects + 1 \in Nat
        BY EndFacts DEF Stream
      <3> QED
        BY <3>1 DEF Stream
    <2>2. strm' = [strm EXCEPT ![p] = w]
      BY DEF ConnectWait
    <2> HIDE DEF w
    <2> QED
      BY <2>1, <2>2, EndFacts DEF Label
  <1> HIDE DEF x
  <1>4. Fields(x, d, x.state, x.acknowledgment, x.next, x.alarm, "in_connect", x.out)
    BY <1>2, <1>3, GotoFields DEF Fields
  <1> HIDE DEF d
  <1>5. EndOK(p, d)
    BY <1>1, <1>2, <1>4, EndFacts DEF Fields, EndOK, Synced, Unsynced, InWrite, Answering, Leaving, Passive, Closers, Apart
  <1>6. OutOK(p, d)
    BY <1>2, <1>4 DEF Fields, OutOK
  <1> QED
    BY <1>1, <1>2, <1>3, <1>5, <1>6, ThreadKeeps DEF Fields, Finned, PeerGone, d

LEMMA ListenReceivedKeeps ==
    ASSUME CInv, NEW p \in Peers, ListenReceived(p)
    PROVE  CInv'
  <1> DEFINE c == conn[p]
             x == Moved([c EXCEPT !.unacknowledged = c.initial], "SYN_RECEIVED")
             d == Goto(x, "received")
  <1>1. Step(p, "answered", x, "received") /\ c.pc = "answered"
    BY DEF ListenReceived, Step, At
  <1>0. Fields(c, x, "SYN_RECEIVED", c.acknowledgment, c.next, c.alarm, c.pc, {})
    <2> DEFINE u == [c EXCEPT !.unacknowledged = c.initial]
    <2>1. c.initial \in Nat /\ "SYN_RECEIVED" \in State
      BY EndFacts DEF Conn, State
    <2>2. Fields(c, u, c.state, c.acknowledgment, c.next, c.alarm, c.pc, {})
      BY <2>1, EndFacts, UnaFields
    <2> HIDE DEF u
    <2>3. Fields(c, Moved(u, "SYN_RECEIVED"), "SYN_RECEIVED", c.acknowledgment, c.next, c.alarm, c.pc, {})
      BY <2>1, <2>2, MovedFields DEF Fields
    <2> QED
      BY <2>3 DEF u
  <1>2. Fields(c, x, "SYN_RECEIVED", c.acknowledgment, c.next, c.alarm, "answered", {})
    BY <1>1, EndFacts, <1>0
  <1>3. strm' \in [Peers -> Stream] /\ "received" \in Label
    BY EndFacts DEF ListenReceived, Label
  <1> HIDE DEF x
  <1>4. Fields(x, d, x.state, x.acknowledgment, x.next, x.alarm, "received", x.out)
    BY <1>2, <1>3, GotoFields DEF Fields
  <1> HIDE DEF d
  <1>5. EndOK(p, d)
    BY <1>1, <1>2, <1>4, EndFacts DEF Fields, EndOK, Synced, Unsynced, InWrite, Answering, Leaving, Passive, Closers, Apart
  <1>6. OutOK(p, d)
    BY <1>2, <1>4 DEF Fields, OutOK
  <1> QED
    BY <1>1, <1>2, <1>3, <1>5, <1>6, ThreadKeeps DEF Fields, Finned, PeerGone, d

(* attach() ends at "open", or tries again, or deletes the connection.     *)
LEMMA AttachKeeps ==
    ASSUME CInv, NEW p \in Peers, Attach(p)
    PROVE  CInv'
  <1> DEFINE c == conn[p]
  <1>1. PICK k \in {"open", "connect", "delete"} : Step(p, "attach", c, k) /\ c.pc = "attach" /\ strm' = strm
    BY DEF Attach, Step, At
  <1> DEFINE d == Goto(c, k)
  <1>2. k \in Label
    BY DEF Label
  <1>3. Fields(c, d, c.state, c.acknowledgment, c.next, c.alarm, k, {})
    BY <1>2, EndFacts, GotoFields
  <1> HIDE DEF d
  <1>4. EndOK(p, d)
    BY <1>1, <1>3, EndFacts DEF Fields, EndOK, Synced, Unsynced, InWrite, Answering, Leaving, Passive, Closers, Apart
  <1>5. OutOK(p, d)
    BY <1>3 DEF Fields, OutOK
  <1> QED
    BY <1>1, <1>2, <1>4, <1>5, EndFacts, ThreadKeeps DEF Finned, d

LEMMA OffFields ==
    ASSUME NEW c \in Conn
    PROVE  /\ Fields(c, [c EXCEPT !.alarm = FALSE], c.state, c.acknowledgment, c.next, FALSE, c.pc, c.out)
           /\ Fields(c, [c EXCEPT !.observer = FALSE, !.alarm = FALSE],
                     c.state, c.acknowledgment, c.next, FALSE, c.pc, c.out)
  BY DEF Fields, Conn

LEMMA DestroyKeeps ==
    ASSUME CInv, NEW p \in Peers, Destroy(p)
    PROVE  CInv'
  <1> DEFINE c == conn[p]
             x == [c EXCEPT !.alarm = FALSE]
             d == Goto(x, "close")
  <1>1. Step(p, "delete", x, "close") /\ c.pc = "delete"
    BY DEF Destroy, Step, At
  <1>2. Fields(c, x, c.state, c.acknowledgment, c.next, FALSE, "delete", {})
    BY <1>1, EndFacts, OffFields
  <1>3. strm' \in [Peers -> Stream] /\ "close" \in Label
    BY EndFacts DEF Destroy, Label
  <1> HIDE DEF x
  <1>4. Fields(x, d, x.state, x.acknowledgment, x.next, x.alarm, "close", x.out)
    BY <1>2, <1>3, GotoFields DEF Fields
  <1> HIDE DEF d
  <1>5. EndOK(p, d)
    BY <1>1, <1>2, <1>4, EndFacts DEF Fields, EndOK, Synced, Unsynced, InWrite, Answering, Leaving, Passive, Closers, Apart
  <1>6. OutOK(p, d)
    BY <1>2, <1>4 DEF Fields, OutOK
  <1> QED
    BY <1>1, <1>2, <1>3, <1>5, <1>6, ThreadKeeps DEF Fields, Finned, PeerGone, d

LEMMA DetachKeeps ==
    ASSUME CInv, NEW p \in Peers, Detach(p)
    PROVE  CInv'
  <1> DEFINE c == conn[p]
             x == [c EXCEPT !.observer = FALSE, !.alarm = FALSE]
             d == Goto(x, "close")
  <1>1. Step(p, "open", x, "close") /\ c.pc = "open"
    BY DEF Detach, Step, At
  <1>2. Fields(c, x, c.state, c.acknowledgment, c.next, FALSE, "open", {})
    BY <1>1, EndFacts, OffFields
  <1>3. strm' \in [Peers -> Stream] /\ "close" \in Label
    BY EndFacts DEF Detach, Label
  <1> HIDE DEF x
  <1>4. Fields(x, d, x.state, x.acknowledgment, x.next, x.alarm, "close", x.out)
    BY <1>2, <1>3, GotoFields DEF Fields
  <1> HIDE DEF d
  <1>5. EndOK(p, d)
    BY <1>1, <1>2, <1>4, EndFacts DEF Fields, EndOK, Synced, Unsynced, InWrite, Answering, Leaving, Passive, Closers, Apart
  <1>6. OutOK(p, d)
    BY <1>2, <1>4 DEF Fields, OutOK
  <1> QED
    BY <1>1, <1>2, <1>3, <1>5, <1>6, ThreadKeeps DEF Fields, Finned, PeerGone, d

LEMMA CloseAtOnceKeeps ==
    ASSUME CInv, NEW p \in Peers, CloseAtOnce(p)
    PROVE  CInv'
  <1> DEFINE c == conn[p]
             x == Moved(c, "CLOSED")
             d == Goto(x, "deleted")
  <1>1. Step(p, "close", x, "deleted") /\ c.pc = "close"
    BY DEF CloseAtOnce, Step, At
  <1>2. Fields(c, x, "CLOSED", c.acknowledgment, c.next, c.alarm, "close", {})
    BY <1>1, EndFacts, MovedFields DEF State
  <1>3. strm' \in [Peers -> Stream] /\ "deleted" \in Label
    BY EndFacts DEF CloseAtOnce, Label
  <1> HIDE DEF x
  <1>4. Fields(x, d, x.state, x.acknowledgment, x.next, x.alarm, "deleted", x.out)
    BY <1>2, <1>3, GotoFields DEF Fields
  <1> HIDE DEF d
  <1>5. EndOK(p, d)
    BY <1>1, <1>2, <1>4, EndFacts DEF Fields, EndOK, Synced, Unsynced, InWrite, Answering, Leaving, Passive, Closers, Apart
  <1>6. OutOK(p, d)
    BY <1>2, <1>4 DEF Fields, OutOK
  <1> QED
    BY <1>1, <1>2, <1>3, <1>5, <1>6, ThreadKeeps DEF Fields, Finned, PeerGone, d

LEMMA CloseWaitsKeeps ==
    ASSUME CInv, NEW p \in Peers, CloseWaits(p)
    PROVE  CInv'
  <1> DEFINE c == conn[p]
             x == Armed(c)
             d == Goto(x, "in_close")
  <1>1. Step(p, "sent_fin", x, "in_close") /\ c.pc = "sent_fin"
    BY DEF CloseWaits, Step, At
  <1>2. Fields(c, x, c.state, c.acknowledgment, c.next, TRUE, "sent_fin", {})
    BY <1>1, EndFacts, ArmedFields
  <1>3. strm' \in [Peers -> Stream] /\ "in_close" \in Label
    BY EndFacts DEF CloseWaits, Label
  <1> HIDE DEF x
  <1>4. Fields(x, d, x.state, x.acknowledgment, x.next, x.alarm, "in_close", x.out)
    BY <1>2, <1>3, GotoFields DEF Fields
  <1> HIDE DEF d
  <1>5. EndOK(p, d)
    BY <1>1, <1>2, <1>4, EndFacts DEF Fields, EndOK, Synced, Unsynced, InWrite, Answering, Leaving, Passive, Closers, Apart
  <1>6. OutOK(p, d)
    BY <1>2, <1>4 DEF Fields, OutOK
  <1> QED
    BY <1>1, <1>2, <1>3, <1>5, <1>6, ThreadKeeps DEF Fields, Finned, PeerGone, d

(* close() tests the state and goes on with what it saw.                   *)
LEMMA CloseTestKeeps ==
    ASSUME CInv, NEW p \in Peers, CloseTest(p)
    PROVE  CInv'
  <1> DEFINE c == conn[p]
  <1>1. PICK k \in {"to_fin_wait1", "to_last_ack", "fin"} :
             /\ Step(p, "close", c, k) /\ c.pc = "close" /\ strm' = strm
             /\ c.state \notin Apart
             /\ k = "to_last_ack" => c.state = "CLOSE_WAIT"
    <2> DEFINE k == CASE c.state \in {"ESTABLISHED", "SYN_RECEIVED"} -> "to_fin_wait1"
                      [] c.state = "CLOSE_WAIT" -> "to_last_ack"
                      [] OTHER -> "fin"
    <2>1. k \in {"to_fin_wait1", "to_last_ack", "fin"} /\ (k = "to_last_ack" => c.state = "CLOSE_WAIT")
      OBVIOUS
    <2>2. Step(p, "close", c, k) /\ c.pc = "close" /\ strm' = strm /\ c.state \notin Apart
      BY DEF CloseTest, Step, At, Apart
    <2> QED
      BY <2>1, <2>2
  <1> DEFINE d == Goto(c, k)
  <1>2. k \in Label
    BY DEF Label
  <1>3. Fields(c, d, c.state, c.acknowledgment, c.next, c.alarm, k, {})
    BY <1>2, EndFacts, GotoFields
  <1> HIDE DEF d
  <1>4. EndOK(p, d)
    BY <1>1, <1>3, EndFacts DEF Fields, EndOK, Synced, Unsynced, InWrite, Leaving, Passive, Closers, Apart
  <1>5. OutOK(p, d)
    BY <1>3 DEF Fields, OutOK
  <1>6. k = "to_last_ack" => c.state \in PeerGone
    BY <1>1 DEF PeerGone
  <1> QED
    BY <1>1, <1>2, <1>4, <1>5, <1>6, EndFacts, ThreadKeeps DEF Finned, d

LEMMA CloseStateKeeps ==
    ASSUME CInv, NEW p \in Peers, CloseState(p)
    PROVE  CInv'
  <1> DEFINE c == conn[p]
  <1>1. PICK l \in {"to_fin_wait1", "to_last_ack"}, S \in {"FIN_WAIT1", "LAST_ACK"} :
             /\ Step(p, l, Moved(c, S), "fin") /\ c.pc = l /\ strm' = strm
             /\ S = "LAST_ACK" => l = "to_last_ack"
    BY DEF CloseState, Step, At
  <1> DEFINE x == Moved(c, S)
             d == Goto(x, "fin")
  <1>2. S \in State /\ "fin" \in Label
    BY DEF Label, State
  <1>3. Fields(c, x, S, c.acknowledgment, c.next, c.alarm, c.pc, {})
    BY <1>2, EndFacts, MovedFields
  <1> HIDE DEF x
  <1>4. Fields(x, d, x.state, x.acknowledgment, x.next, x.alarm, "fin", x.out)
    BY <1>2, <1>3, GotoFields DEF Fields
  <1> HIDE DEF d
  <1>5. EndOK(p, d)
    BY <1>1, <1>3, <1>4, EndFacts DEF Fields, EndOK, Synced, Unsynced, InWrite, Leaving, Passive, Closers, Apart
  <1>6. OutOK(p, d)
    BY <1>3, <1>4 DEF Fields, OutOK
  <1>7. S \in PeerGone => l = "to_last_ack"
    BY <1>1 DEF PeerGone
  <1> QED
    BY <1>1, <1>2, <1>3, <1>5, <1>6, <1>7, EndFacts, ThreadKeeps DEF Fields, Finned, d, x

(* A Connection as it is constructed and as detach() leaves it             *)
LEMMA NewConnection ==
    ASSUME NEW p \in Peers, NEW a \in Nat
    PROVE  /\ Connection(p) \in Conn
           /\ [Connection(p) EXCEPT !.acknowledgment = a, !.bound = "none", !.pc = "gone"] \in Conn
  <1> DEFINE b == IF p = Client THEN "peer" ELSE "any"
             k == IF p = Client THEN "connect" ELSE "listen"
             n == ISN(p)
  <1>1. b \in {"any", "peer", "none"} /\ k \in Label /\ "gone" \in Label /\ "CLOSED" \in State /\ n \in Nat
    BY Constants DEF Label, State
  <1>2. Connection(p) =
          [state |-> "CLOSED", sequence |-> n, acknowledgment |-> 0, next |-> n,
           unacknowledged |-> n, initial |-> n, current |-> 0, valid |-> FALSE,
           streaming |-> FALSE, retransmiting |-> FALSE, alarm |-> FALSE, tries |-> 0,
           observer |-> TRUE, bound |-> b, pc |-> k, out |-> {}]
    BY DEF Connection
  <1> HIDE DEF b, k, n
  <1>3. Connection(p) \in Conn
    BY <1>1, <1>2 DEF Conn
  <1> QED
    BY <1>1, <1>3 DEF Conn

(* A detached end is as new, but for what it acknowledged; nothing finds it. *)
LEMMA DetachedKeeps ==
    ASSUME CInv, NEW p \in Peers, Detached(p)
    PROVE  CInv'
  <1> DEFINE c == conn[p]
             e == [Connection(p) EXCEPT !.acknowledgment = c.acknowledgment, !.bound = "none", !.pc = "gone"]
             o == Other(p)
  <1>1. /\ conn' = [conn EXCEPT ![p] = e] /\ net' = {m \in net : m.to # p} /\ strm' = strm /\ c.pc = "deleted"
    BY DEF Detached, At
  <1>2. /\ conn \in [Peers -> Conn] /\ net \subseteq Segment /\ o \in Peers /\ o # p /\ Other(o) = p
        /\ \A q \in Peers : q = p \/ q = o
    BY Constants DEF CInv, Types, Peers
  <1>3. /\ e.state = "CLOSED" /\ e.acknowledgment = c.acknowledgment /\ e.next = ISN(p) /\ e.initial = ISN(p)
        /\ e.alarm = FALSE /\ e.retransmiting = FALSE /\ e.pc = "gone" /\ e.out = {}
    BY DEF Connection
  <1>4. e \in Conn
    <2>1. c.acknowledgment \in Nat /\ ISN(p) \in Nat
      BY EndFacts DEF Conn
    <2> QED
      BY <2>1, NewConnection
  <1> HIDE DEF e
  <1>5. conn'[p] = e /\ conn'[o] = conn[o] /\ conn' \in [Peers -> Conn]
    BY <1>1, <1>2, <1>4
  <1>6. Types'
    BY <1>1, <1>2, <1>3, <1>5 DEF CInv, Types
  <1>7. EndOK(p, e) /\ Agreement(p, e, conn[o])
    BY <1>3, EndFacts DEF EndOK, Agreement, Unsynced, Closers, Apart, Answering, Leaving, Passive, PeerGone
  <1>8. EndOK(o, conn[o]) /\ Agreement(o, conn[o], e)
    BY <1>1, <1>2, <1>3 DEF CInv, Agreement, Synced, Finned
  <1>9. ASSUME NEW m \in net'
        PROVE  SegmentOK(Other(m.to), conn'[Other(m.to)], m)
    <2>1. m \in net /\ m.to = o
      BY <1>1, <1>2 DEF Segment
    <2>2. SegmentOK(p, c, m)
      BY <1>2, <2>1 DEF CInv
    <2>3. SegmentOK(p, e, m)
      BY <1>1, <1>3, <2>2 DEF SegmentOK, Synced, Finned
    <2> QED
      BY <1>2, <1>5, <2>1, <2>3
  <1>10. \A q \in Peers : EndOK(q, conn'[q]) /\ Agreement(q, conn'[q], conn'[Other(q)])
    BY <1>2, <1>5, <1>7, <1>8
  <1> QED
    BY <1>6, <1>9, <1>10 DEF CInv

(* The steps of write() leave the state as it is, and send only data.      *)
LEMMA WriteStepKeeps ==
    ASSUME CInv, NEW p \in Peers, NEW l \in InWrite \cup {"open"}, NEW k \in InWrite \cup {"open"}, NEW x \in Conn,
           Step(p, l, x, k), strm' \in [Peers -> Stream], x.state = conn[p].state, x.initial = conn[p].initial,
           x.acknowledgment = conn[p].acknowledgment, x.alarm = conn[p].alarm, x.next >= conn[p].next,
           x.retransmiting => k \in InWrite,
           \A b \in x.out : b.flags = {"ACK"} /\ conn[p].state \notin Apart
    PROVE  CInv'
  <1> DEFINE c == conn[p]
             d == Goto(x, k)
  <1>1. k \in Label /\ x.next \in Nat /\ c.pc = l
    BY DEF Label, InWrite, Conn, Step, At
  <1>2. Fields(x, d, x.state, x.acknowledgment, x.next, x.alarm, k, x.out)
    BY <1>1, GotoFields
  <1> HIDE DEF d
  <1>3. EndOK(p, d)
    <2>1. /\ c.next > ISN(p) /\ c.state \notin Closers /\ c.state # "SYN_SENT"
          /\ k \notin Passive \cup Leaving \cup Answering \cup {"fin"}
      BY <1>1, EndFacts DEF EndOK, InWrite, Unsynced, Passive, Leaving, Answering
    <2>2. d.next > ISN(p) /\ d.next >= ISN(p)
      BY <1>1, <1>2, <2>1, EndFacts DEF Fields
    <2>3. d.state \notin Apart => Synced(p, d)
      BY <1>2, EndFacts DEF EndOK, Fields, Synced
    <2> QED
      BY <1>2, <2>1, <2>2, <2>3 DEF EndOK, Fields
  <1>4. OutOK(p, d)
    <2> SUFFICES ASSUME NEW b \in d.out PROVE SegmentOK(p, d, b)
      BY DEF OutOK
    <2>1. b.flags = {"ACK"} /\ Synced(p, d)
      BY <1>2, EndFacts DEF EndOK, Fields, Synced
    <2> QED
      BY <2>1 DEF SegmentOK
  <1>5. l \notin Finned /\ k # "to_last_ack"
    BY DEF Finned, InWrite
  <1> QED
    BY <1>1, <1>3, <1>4, <1>5, ThreadKeeps DEF d

LEMMA StreamUpdated ==
    ASSUME CInv, NEW p \in Peers, NEW w \in Stream, strm' = [strm EXCEPT ![p] = w]
    PROVE  strm' \in [Peers -> Stream]
  BY EndFacts

LEMMA StreamMade ==
    ASSUME NEW w \in Stream, NEW a \in Int, NEW b \in Int, NEW e \in Int, NEW f \in Int, NEW q \in Nat, NEW n \in Nat
    PROVE  [w EXCEPT !.allowed = a, !.left = b, !.acknowledged = e, !.initial_seq = q, !.tries = n, !.data = f] \in Stream
  BY DEF Stream

LEMMA StreamEnded ==
    ASSUME NEW q \in Nat, NEW n \in Nat, NEW r \in {"error", "size"}
    PROVE  [NoWrite EXCEPT !.connects = n, !.initial_seq = q, !.result = r] \in Stream
  <1>1. NoWrite \in Stream /\ r \in {"none", "size", "error"}
    BY DEF NoWrite, Stream
  <1>2. \A v \in Stream : [v EXCEPT !.connects = n, !.initial_seq = q, !.result = r] \in Stream
    BY <1>1 DEF Stream
  <1> QED
    BY <1>1, <1>2

LEMMA WriteCallKeeps ==
    ASSUME CInv, NEW p \in Peers, WriteCall(p)
    PROVE  CInv'
  <1> DEFINE w == [strm[p] EXCEPT !.allowed = WINDOW, !.left = Size, !.acknowledged = 0,
                                  !.initial_seq = conn[p].sequence, !.tries = 0, !.data = 0]
  <1>1. Step(p, "open", conn[p], "write") /\ conn[p].pc = "open" /\ strm' = [strm EXCEPT ![p] = w]
    BY DEF WriteCall, Step, At
  <1>2. w \in Stream
    <2>1. strm[p] \in Stream /\ WINDOW \in Int /\ Size \in Int /\ conn[p].sequence \in Nat /\ 0 \in Nat /\ 0 \in Int
      BY EndFacts, TCPAssumption DEF Conn
    <2> QED
      BY <2>1, StreamMade
  <1> HIDE DEF w
  <1>3. strm' \in [Peers -> Stream]
    BY <1>1, <1>2, StreamUpdated
  <1>4. ~conn[p].retransmiting
    BY <1>1, EndFacts DEF EndOK, InWrite
  <1> QED
    BY <1>1, <1>3, <1>4, EndFacts, WriteStepKeeps DEF InWrite

(* The sizes of what is sent are natural numbers.                          *)
LEMMA PayloadNat ==
    ASSUME CInv, NEW p \in Peers
    PROVE  Payload(p) \in Nat /\ Allowed(p) \in Nat
  <1>1. strm[p].allowed \in Int /\ strm[p].left \in Int /\ MSS \in Nat
    BY EndFacts, TCPAssumption DEF Stream
  <1>2. Allowed(p) \in Nat
    BY <1>1 DEF Allowed
  <1> QED
    BY <1>1, <1>2 DEF Payload

LEMMA DSendFields ==
    ASSUME NEW c \in Conn, c.out = {}, NEW data \in Seq(Nat)
    PROVE  LET x == DSend(c, data)
           IN  /\ x \in Conn /\ x.state = c.state /\ x.initial = c.initial /\ x.acknowledgment = c.acknowledgment
               /\ x.alarm = c.alarm /\ x.next >= c.next /\ x.retransmiting = c.retransmiting
               /\ \A b \in x.out : b.flags = {"ACK"}
  <1> DEFINE q == IF c.retransmiting THEN c.sequence ELSE c.next
             r == IF c.retransmiting THEN q + Len(data) ELSE q
             n == IF c.retransmiting THEN c.next ELSE c.next + Len(data)
             b == [flags |-> {"ACK"}, seq |-> q, ack |-> c.acknowledgment, data |-> data]
             x == [c EXCEPT !.sequence = r, !.next = n, !.out = {b}]
  <1>1. q \in Nat /\ r \in Nat /\ n \in Nat /\ n >= c.next
    BY DEF Conn
  <1>2. DSend(c, data) = x
    BY DEF DSend
  <1> HIDE DEF q, r, n
  <1>3. {b} \in SUBSET Body /\ b.flags = {"ACK"}
    BY <1>1 DEF Body, Conn, Flag
  <1> HIDE DEF b
  <1>4. x \in Conn
    BY <1>1, <1>3 DEF Conn
  <1>5. /\ x.state = c.state /\ x.initial = c.initial /\ x.acknowledgment = c.acknowledgment /\ x.alarm = c.alarm
        /\ x.next = n /\ x.retransmiting = c.retransmiting /\ x.out = {b}
    BY DEF Conn
  <1> HIDE DEF x
  <1> QED
    BY <1>1, <1>2, <1>3, <1>4, <1>5

LEMMA StreamingFields ==
    ASSUME NEW c \in Conn, NEW v \in BOOLEAN, NEW r \in BOOLEAN, NEW q \in Nat, NEW u \in Nat
    PROVE  LET x == [c EXCEPT !.streaming = v, !.retransmiting = r, !.sequence = q, !.unacknowledged = u]
           IN  /\ x \in Conn /\ x.state = c.state /\ x.initial = c.initial /\ x.acknowledgment = c.acknowledgment
               /\ x.alarm = c.alarm /\ x.next = c.next /\ x.retransmiting = r /\ x.out = c.out
               /\ x.sequence = q /\ x.current = c.current
  BY DEF Conn

LEMMA WriteSendKeeps ==
    ASSUME CInv, NEW p \in Peers, WriteSend(p)
    PROVE  CInv'
  <1> DEFINE c == conn[p]
             n == Payload(p)
             data == [i \in 1 .. n |-> Byte(strm[p].data + i)]
             y == [c EXCEPT !.streaming = TRUE]
             x == DSend(y, data)
             w == [strm[p] EXCEPT !.data = @ + n, !.left = @ - n]
  <1>1. Step(p, "write", x, "sent") /\ c.pc = "write" /\ strm' = [strm EXCEPT ![p] = w] /\ c.state \notin Apart
    BY DEF WriteSend, Writing, Step, At, Apart
  <1>2. n \in Nat
    BY PayloadNat
  <1> HIDE DEF n
  <1>3. data \in Seq(Nat)
    <2>1. ASSUME NEW i PROVE Byte(i) \in Nat
      BY DEF Byte
    <2> QED
      BY <1>2, <2>1
  <1> HIDE DEF data
  <1>4. /\ y \in Conn /\ y.out = {} /\ y.state = c.state /\ y.initial = c.initial /\ y.acknowledgment = c.acknowledgment
        /\ y.alarm = c.alarm /\ y.next = c.next /\ y.retransmiting = c.retransmiting
    <2>1. c \in Conn /\ c.out = {}
      BY EndFacts
    <2> QED
      BY <2>1 DEF Conn
  <1> HIDE DEF y
  <1>5. /\ x \in Conn /\ x.state = y.state /\ x.initial = y.initial /\ x.acknowledgment = y.acknowledgment
        /\ x.alarm = y.alarm /\ x.next >= y.next /\ x.retransmiting = y.retransmiting
        /\ \A b \in x.out : b.flags = {"ACK"}
    BY <1>3, <1>4, DSendFields
  <1> HIDE DEF x
  <1>6. w \in Stream
    <2>1. strm[p] \in Stream /\ strm[p].data + n \in Int /\ strm[p].left - n \in Int
      BY <1>2, EndFacts DEF Stream
    <2> QED
      BY <2>1 DEF Stream
  <1> HIDE DEF w
  <1>7. strm' \in [Peers -> Stream]
    BY <1>1, <1>6, StreamUpdated
  <1> QED
    BY <1>1, <1>4, <1>5, <1>7, WriteStepKeeps DEF InWrite

(* The third part of write()'s for statement                               *)
LEMMA AdvancedType ==
    ASSUME NEW w \in Stream, NEW c \in Conn
    PROVE  Advanced(w, c) \in Stream
  <1>1. c.current - w.initial_seq \in Int /\ WINDOW - (c.sequence - c.current) \in Int
    BY TCPAssumption DEF Stream, Conn
  <1> QED
    BY <1>1 DEF Advanced, Stream

LEMMA WriteSentKeeps ==
    ASSUME CInv, NEW p \in Peers, WriteSent(p)
    PROVE  CInv'
  <1> DEFINE c == conn[p]
             r == c.retransmiting /\ c.sequence # c.next
             x == [c EXCEPT !.retransmiting = r]
  <1>1. Step(p, "sent", x, "write") /\ strm' = [strm EXCEPT ![p] = Advanced(strm[p], x)]
    BY DEF WriteSent
  <1>2. r \in BOOLEAN
    BY Zenon
  <1> HIDE DEF r
  <1>3. /\ x \in Conn /\ x.out = {} /\ x.state = c.state /\ x.initial = c.initial /\ x.acknowledgment = c.acknowledgment
        /\ x.alarm = c.alarm /\ x.next = c.next
    <2>1. c \in Conn /\ c.out = {}
      BY EndFacts
    <2> QED
      BY <1>2, <2>1 DEF Conn
  <1> HIDE DEF x
  <1>4. Advanced(strm[p], x) \in Stream
    BY <1>3, EndFacts, AdvancedType
  <1>5. strm' \in [Peers -> Stream]
    BY <1>1, <1>4, StreamUpdated
  <1>6. x.next >= c.next /\ "sent" \in InWrite /\ "write" \in InWrite
    BY <1>3, EndFacts DEF InWrite
  <1> QED
    BY <1>1, <1>3, <1>5, <1>6, WriteStepKeeps

LEMMA WriteFullKeeps ==
    ASSUME CInv, NEW p \in Peers, WriteFull(p)
    PROVE  CInv'
  <1> DEFINE c == conn[p]
             x == [c EXCEPT !.streaming = TRUE]
             w == [strm[p] EXCEPT !.old_ack = c.current]
  <1>1. Step(p, "write", x, "full") /\ strm' = [strm EXCEPT ![p] = w]
    BY DEF WriteFull
  <1>2. c \in Conn /\ c.out = {} /\ strm[p] \in Stream
    BY EndFacts
  <1>3. /\ x \in Conn /\ x.out = {} /\ x.state = c.state /\ x.initial = c.initial /\ x.acknowledgment = c.acknowledgment
        /\ x.alarm = c.alarm /\ x.next = c.next
    BY <1>2 DEF Conn
  <1> HIDE DEF x
  <1>4. w \in Stream
    <2>1. c.current \in Nat
      BY <1>2 DEF Conn
    <2> QED
      BY <1>2, <2>1 DEF Stream
  <1> HIDE DEF w
  <1>5. strm' \in [Peers -> Stream]
    BY <1>1, <1>4, StreamUpdated
  <1> QED
    BY <1>1, <1>3, <1>5, EndFacts, WriteStepKeeps DEF InWrite

LEMMA WriteWaitKeeps ==
    ASSUME CInv, NEW p \in Peers, WriteWait(p)
    PROVE  CInv'
  BY EndFacts, WriteStepKeeps DEF WriteWait, InWrite

LEMMA WriteResumedKeeps ==
    ASSUME CInv, NEW p \in Peers, WriteResumed(p)
    PROVE  CInv'
  <1> DEFINE c == conn[p]
             y == [c EXCEPT !.retransmiting = TRUE, !.sequence = c.current, !.unacknowledged = c.current]
             w == strm[p]
             v == [w EXCEPT !.data = w.acknowledged, !.left = Size - w.acknowledged, !.tries = @ + 1]
             u == [w EXCEPT !.tries = 0]
  <1>1. PICK x \in {c, y}, z \in {v, u} :
             Step(p, "resumed", x, "write") /\ strm' = [strm EXCEPT ![p] = Advanced(z, x)]
    BY DEF WriteResumed
  <1>2. c \in Conn /\ c.out = {} /\ w \in Stream /\ c.next \in Nat
    BY EndFacts
  <1>3. /\ y \in Conn /\ y.out = {} /\ y.state = c.state /\ y.initial = c.initial /\ y.acknowledgment = c.acknowledgment
        /\ y.alarm = c.alarm /\ y.next = c.next
    <2>1. c.current \in Nat
      BY <1>2 DEF Conn
    <2> QED
      BY <1>2, <2>1 DEF Conn
  <1> HIDE DEF y
  <1>4. v \in Stream
    <2>1. w.acknowledged \in Int /\ Size - w.acknowledged \in Int /\ w.tries + 1 \in Nat
      BY <1>2, TCPAssumption DEF Stream
    <2> QED
      BY <1>2, <2>1 DEF Stream
  <1>5. u \in Stream
    BY <1>2 DEF Stream
  <1> HIDE DEF u, v
  <1>6. x \in Conn /\ x.out = {} /\ x.state = c.state /\ x.initial = c.initial /\ x.acknowledgment = c.acknowledgment
        /\ x.alarm = c.alarm /\ x.next = c.next
    BY <1>1, <1>2, <1>3
  <1>7. Advanced(z, x) \in Stream
    BY <1>1, <1>4, <1>5, <1>6, AdvancedType
  <1>8. strm' \in [Peers -> Stream]
    BY <1>1, <1>7, StreamUpdated
  <1> QED
    BY <1>1, <1>2, <1>6, <1>8, WriteStepKeeps DEF InWrite

LEMMA WriteReturnKeeps ==
    ASSUME CInv, NEW p \in Peers, WriteReturn(p)
    PROVE  CInv'
  <1> DEFINE c == conn[p]
             x == [c EXCEPT !.streaming = FALSE, !.retransmiting = FALSE]
  <1>1. PICK r \in {"error", "size"} :
             /\ Step(p, "write", x, "open")
             /\ strm' = [strm EXCEPT ![p] = [NoWrite EXCEPT !.connects = strm[p].connects,
                                                            !.initial_seq = strm[p].initial_seq, !.result = r]]
    BY DEF WriteReturn
  <1>2. c \in Conn /\ c.out = {} /\ c.next \in Nat
    BY EndFacts
  <1>3. /\ x \in Conn /\ x.out = {} /\ x.state = c.state /\ x.initial = c.initial /\ x.acknowledgment = c.acknowledgment
        /\ x.alarm = c.alarm /\ x.next = c.next /\ x.retransmiting = FALSE
    BY <1>2 DEF Conn
  <1> HIDE DEF x
  <1>4. [NoWrite EXCEPT !.connects = strm[p].connects, !.initial_seq = strm[p].initial_seq, !.result = r] \in Stream
    <2>1. strm[p] \in Stream /\ strm[p].connects \in Nat /\ strm[p].initial_seq \in Nat
      BY EndFacts DEF Stream
    <2> QED
      BY <2>1, StreamEnded
  <1>5. strm' \in [Peers -> Stream]
    BY <1>1, <1>4, StreamUpdated
  <1> QED
    BY <1>1, <1>2, <1>3, <1>5, WriteStepKeeps DEF InWrite
-----------------------------------------------------------------------------
LEMMA InitKeeps ==
    ASSUME Init
    PROVE  CInv
  <1>1. ASSUME NEW p \in Peers
        PROVE  /\ conn[p] \in Conn /\ conn[p].out = {} /\ conn[p].initial = ISN(p) /\ conn[p].state = "CLOSED"
               /\ conn[p].next = ISN(p) /\ ~conn[p].alarm /\ ~conn[p].retransmiting
               /\ conn[p].pc \in {"connect", "listen"}
    <2>1. conn[p] = Connection(p)
      BY DEF Init
    <2>2. Connection(p) \in Conn
      BY NewConnection
    <2> QED
      BY <2>1, <2>2 DEF Connection
  <1>2. NoWrite \in Stream
    BY DEF NoWrite, Stream
  <1>3. Types
    <2>1. conn \in [Peers -> Conn]
      BY <1>1 DEF Init
    <2> QED
      BY <1>1, <1>2, <2>1 DEF Init, Types
  <1>4. ASSUME NEW p \in Peers
        PROVE  EndOK(p, conn[p]) /\ Agreement(p, conn[p], conn[Other(p)])
    BY <1>1, Constants DEF EndOK, Agreement, Unsynced, Closers, Apart, Answering, Leaving, Passive, PeerGone
  <1> QED
    BY <1>3, <1>4 DEF Init, CInv

LEMMA NextKeeps ==
    ASSUME CInv, [Next]_vars
    PROVE  CInv'
  <1>1. CASE UNCHANGED vars
    BY <1>1 DEF vars, CInv, Types
  <1>2. CASE Lose
    BY <1>2, LoseKeeps
  <1>3. ASSUME NEW p \in Peers, Thread(p)
        PROVE  CInv'
    <2>1. CASE Connect(p)
      BY <2>1, ConnectStateKeeps, ConnectSendKeeps, ConnectWaitKeeps DEF Connect
    <2>2. CASE Listen(p)
      BY <2>2, ListenStateKeeps, ListenWaitKeeps, ListenSendKeeps, ListenReceivedKeeps, ListenReceivedWaitKeeps DEF Listen
    <2>3. CASE Write(p)
      BY <2>3, WriteCallKeeps, WriteSendKeeps, WriteSentKeeps, WriteFullKeeps, WriteWaitKeeps, WriteResumedKeeps,
         WriteReturnKeeps DEF Write
    <2>4. CASE Close(p)
      BY <2>4, DestroyKeeps, CloseAtOnceKeeps, CloseTestKeeps, CloseStateKeeps, CloseSendKeeps, CloseWaitsKeeps,
         DetachedKeeps DEF Close
    <2> QED
      BY <1>3, <2>1, <2>2, <2>3, <2>4, AttachKeeps, DetachKeeps DEF Thread
  <1>4. ASSUME NEW p \in Peers, Receive(p) \/ Timeout(p) \/ StreamTimeout(p)
        PROVE  CInv'
    BY <1>4, ReceiveKeeps, TimeoutKeeps, StreamTimeoutKeeps
  <1> QED
    BY <1>1, <1>2, <1>3, <1>4 DEF Next

(* The invariant holds of every connection of two ends, whatever the       *)
(* network does to their segments.                                         *)
THEOREM ConnectionInvariant == Spec => []CInv
  <1>1. Init => CInv
    BY InitKeeps
  <1>2. CInv /\ [Next]_vars => CInv'
    BY NextKeeps
  <1> QED
    BY <1>1, <1>2, PTL DEF Spec

(* No end is ESTABLISHED before the other has its initial sequence number, *)
(* however often the handlers, the timeouts and the network send, lose,    *)
(* repeat or delay a SYN: only an ACK makes a connection, and an end sends *)
(* one only when it has taken the other's number.                          *)
THEOREM HandshakeIsAgreed == Spec => []HandshakeAgreed
  <1>1. CInv => HandshakeAgreed
    <2> SUFFICES ASSUME CInv, NEW p \in Peers, conn[p].state = "ESTABLISHED"
                 PROVE  conn[Other(p)].acknowledgment > ISN(p)
      BY DEF HandshakeAgreed
    <2> QED
      BY Constants DEF CInv, Agreement, Synced
  <1> QED
    BY <1>1, ConnectionInvariant, PTL

(* An end takes the other's side as closed only after the other's close()  *)
(* sent its FIN, retransmitted or not: also while close() is between the   *)
(* test of the state and the change of it.                                 *)
THEOREM FinsAreSent == Spec => []FinWasSent
  <1>1. CInv => FinWasSent
    BY DEF CInv, Agreement, FinWasSent, PeerGone, Finned
  <1> QED
    BY <1>1, ConnectionInvariant, PTL
-----------------------------------------------------------------------------
(* Only the client's application writes, as in the run tcp.                *)
OneWay == Writers \subseteq {Client}

(* The server's labels before it is synchronized and after attach() failed *)
(* or detach() began, and the states in which it takes data and in which   *)
(* the other end is done                                                   *)
Listens == {"listen", "listening", "in_listen", "answer", "answered"}
Ends    == {"delete", "close", "to_fin_wait1", "to_last_ack", "fin", "sent_fin", "in_close", "deleted", "gone"}
Serving == Listens \cup Ends \cup {"received", "in_received", "attach", "open"}
Taking  == {"SYN_RECEIVED", "ESTABLISHED", "FIN_WAIT1", "FIN_WAIT2"}
Opening == {"SYN_RECEIVED", "ESTABLISHED"}
Done    == PeerGone \cup {"CLOSED"}

(* What holds of the server's end s and of the bytes D it delivered        *)
Receiving(s, D) ==
    /\ s.streaming = FALSE /\ s.pc \in Serving
    /\ s.pc \in Listens => D = <<>> /\ s.state \in {"LISTENING", "CLOSED"}
    /\ s.state = "LISTENING" => s.pc \in Listens
    /\ s.pc = "attach" => s.state \in Done \cup {"ESTABLISHED"}
    /\ s.observer /\ s.pc \in Ends => s.state \in Done
    /\ s.pc = "to_fin_wait1" => ~s.observer
    /\ s.state \in Opening => s.unacknowledged <= ServerISN
    /\ D # <<>> /\ s.observer /\ s.state \in Taking => s.acknowledgment = D[Len(D)].seq + 1

(* A segment with data                                                     *)
DataOK(m) == m.data # <<>> => m.to = Server /\ m.flags = {"ACK"} /\ m.ack > ServerISN

Successive(D) == \A i \in 1 .. Len(D) - 1 : D[i + 1].seq = D[i].seq + 1

DInv == /\ delivered \in [Peers -> Seq([seq : Nat, byte : Nat])] /\ delivered[Client] = <<>>
        /\ conn[Server].valid = FALSE /\ Receiving(conn[Server], delivered[Server])
        /\ Successive(delivered[Server])
        /\ \A m \in net : DataOK(m)
-----------------------------------------------------------------------------
(* A connection with all its fields, and what the handlers keep of it      *)
Names == {"state", "sequence", "acknowledgment", "next", "unacknowledged", "initial", "current", "valid",
          "streaming", "retransmiting", "alarm", "tries", "observer", "bound", "pc", "out"}
Whole(c) == DOMAIN c = Names

(* d is c in another state, with other numbers or at another label.        *)
Line(c, d, state, ack, valid, pc) ==
    /\ Whole(d) /\ d.streaming = c.streaming /\ d.observer = c.observer /\ d.unacknowledged = c.unacknowledged
    /\ d.state = state /\ d.acknowledgment = ack /\ d.valid = valid /\ d.pc = pc

(* A connection that has no segment with data to send                      *)
Silent(c) == Whole(c) /\ \A b \in c.out : b.data = <<>>

LEMMA WholeConn == ASSUME NEW c \in Conn PROVE Whole(c)
  BY DEF Conn, Whole, Names

LEMMA Lines ==
    ASSUME NEW c, Whole(c)
    PROVE  /\ \A x : Line(c, Moved(c, x), x, c.acknowledgment, c.valid, c.pc)
           /\ Line(c, Invalid(c), c.state, c.acknowledgment, FALSE, c.pc)
           /\ Line(c, Armed(c), c.state, c.acknowledgment, c.valid, c.pc)
           /\ Line(c, Forgiven(c), c.state, c.acknowledgment, c.valid, c.pc)
           /\ \A k : Line(c, Goto(c, k), c.state, c.acknowledgment, c.valid, k)
           /\ \A a : Line(c, [c EXCEPT !.acknowledgment = a], c.state, a, c.valid, c.pc)
           /\ \A v : Line(c, [c EXCEPT !.valid = v], c.state, c.acknowledgment, v, c.pc)
  BY DEF Whole, Names, Line, Moved, Invalid, Armed, Forgiven, Goto

LEMMA SendLine ==
    ASSUME NEW c, Whole(c), NEW flags
    PROVE  Line(c, FSend(c, flags), c.state, c.acknowledgment, c.valid, c.pc)
  BY DEF Whole, Names, Line, FSend

LEMMA SignalLine ==
    ASSUME NEW c, Whole(c)
    PROVE  Line(c, Signal(c), c.state, c.acknowledgment, c.valid, Roused(c.pc))
  BY DEF Whole, Names, Line, Signal, Roused

LEMMA FinLine ==
    ASSUME NEW c, Whole(c), NEW m
    PROVE  Line(c, ProcessFin(c, m), c.state, m.seq + 1, c.valid, c.pc)
  <1> DEFINE e == [c EXCEPT !.acknowledgment = m.seq + 1]
  <1>1. Line(c, e, c.state, m.seq + 1, c.valid, c.pc)
    BY Lines
  <1> HIDE DEF e
  <1>2. Line(e, FSend(e, {"ACK"}), e.state, e.acknowledgment, e.valid, e.pc)
    BY <1>1, SendLine DEF Line
  <1> QED
    BY <1>1, <1>2 DEF Line, ProcessFin, e

LEMMA TakenLine ==
    ASSUME NEW c, Whole(c), NEW m, c.acknowledgment \in Nat, m.data \in Seq(Nat)
    PROVE  Line(c, Acknowledge(c, m), c.state, c.acknowledgment + Len(m.data), c.valid, c.pc)
  <1> DEFINE e == [c EXCEPT !.acknowledgment = c.acknowledgment + Len(m.data)]
  <1>1. Line(c, e, c.state, c.acknowledgment + Len(m.data), c.valid, c.pc)
    BY Lines
  <1>2. Acknowledge(c, m) = IF m.data = <<>> THEN c ELSE FSend(e, {"ACK"})
    BY DEF Acknowledge
  <1> HIDE DEF e
  <1>3. Line(e, FSend(e, {"ACK"}), e.state, e.acknowledgment, e.valid, e.pc)
    BY <1>1, SendLine DEF Line
  <1>4. m.data = <<>> => c.acknowledgment + Len(m.data) = c.acknowledgment
    OBVIOUS
  <1> QED
    BY <1>1, <1>2, <1>3, <1>4 DEF Line

(* Only dsend() sends data.                                                *)
LEMMA Silents ==
    ASSUME NEW c, Silent(c)
    PROVE  /\ \A x : Silent(Moved(c, x))
           /\ Silent(Invalid(c)) /\ Silent(Armed(c)) /\ Silent(Forgiven(c)) /\ Silent(Signal(c)) /\ Silent(SignalStream(c))
           /\ \A k : Silent(Goto(c, k))
           /\ \A a : Silent([c EXCEPT !.acknowledgment = a])
           /\ \A v : Silent([c EXCEPT !.valid = v])
           /\ \A u : Silent([c EXCEPT !.unacknowledged = u])
  BY DEF Whole, Names, Silent, Moved, Invalid, Armed, Forgiven, Signal, SignalStream, Goto

LEMMA SendSilent ==
    ASSUME NEW c, Silent(c), NEW flags
    PROVE  Silent(FSend(c, flags))
  BY DEF Whole, Names, Silent, FSend

LEMMA TakenSilent ==
    ASSUME NEW c, Silent(c), NEW m
    PROVE  Silent(ProcessFin(c, m)) /\ Silent(Acknowledge(c, m))
  BY Silents, SendSilent DEF ProcessFin, Acknowledge

LEMMA ArrivedSilent ==
    ASSUME NEW c, Silent(c), NEW m
    PROVE  Silent(Current(c, m)) /\ Silent(Slide(c, m))
  BY DEF Whole, Names, Silent, Current, Slide

LEMMA HandlersSilent ==
    ASSUME NEW c, Silent(c), NEW m
    PROVE  /\ Silent(Listening(c, m)) /\ Silent(SynSent(c, m)) /\ Silent(SynReceived(c, m))
           /\ Silent(Established(c, m)) /\ Silent(FinWait1(c, m)) /\ Silent(FinWait2(c, m))
           /\ Silent(CloseWait(c, m)) /\ Silent(Closing(c, m)) /\ Silent(LastAck(c, m)) /\ Silent(TimeWait(c, m))
  <1>1. Silent(Listening(c, m))
    BY Silents, SendSilent DEF Listening
  <1>2. Silent(SynSent(c, m))
    BY Silents, SendSilent DEF SynSent
  <1>3. Silent(SynReceived(c, m))
    BY Silents, SendSilent, TakenSilent DEF SynReceived
  <1>4. Silent(Established(c, m))
    BY Silents, TakenSilent DEF Established
  <1>5. Silent(FinWait1(c, m))
    BY Silents, TakenSilent DEF FinWait1
  <1>6. Silent(FinWait2(c, m))
    BY Silents, TakenSilent DEF FinWait2
  <1>7. Silent(CloseWait(c, m))
    BY Silents, TakenSilent DEF CloseWait
  <1>8. Silent(Closing(c, m)) /\ Silent(LastAck(c, m)) /\ Silent(TimeWait(c, m))
    BY Silents, TakenSilent DEF Closing, LastAck, TimeWait
  <1> QED
    BY <1>1, <1>2, <1>3, <1>4, <1>5, <1>6, <1>7, <1>8

LEMMA UpdateSilent ==
    ASSUME NEW c, Silent(c), c.state \in State, NEW m
    PROVE  Silent(Update(c, m))
  <1> DEFINE cur == Current(c, m)
             sl  == Slide(cur, m)
             v   == [sl EXCEPT !.valid = CheckSequence(sl, m)]
             i   == Invalid(v)
             a   == Handler(sl, m)
             Refusals == {v, FSend(v, {"ACK"}), Moved(v, "CLOSED"), Moved(i, "CLOSED"),
                          Moved(FSend(v, {"RST"}), "CLOSED"), Moved(FSend(i, {"RST"}), "CLOSED")}
             Handlings == {Listening(sl, m), SynSent(sl, m), SynReceived(v, m), Established(v, m), FinWait1(v, m),
                           FinWait2(v, m), CloseWait(v, m), Closing(v, m), LastAck(v, m), TimeWait(v, m), sl}
  <1>1. Update(c, m) \in {cur, Moved(FSend(cur, {"RST"}), "CLOSED"), a, SignalStream(a)}
    BY DEF Update
  <1>2. Silent(cur) /\ Silent(sl)
    BY ArrivedSilent
  <1>3. sl.state = c.state
    BY DEF Silent, Whole, Names, Current, Slide
  <1> HIDE DEF cur, sl
  <1>4. Silent(v) /\ Silent(i)
    BY <1>2, Silents
  <1>5. a \in Refusals \cup Handlings
    <2>1. sl.state = "SYN_RECEIVED" => a \in Refusals \cup {SynReceived(v, m)}
      BY Zenon DEF Handler, Checked
    <2>2. sl.state = "ESTABLISHED" => a \in Refusals \cup {Established(v, m)}
      BY Zenon DEF Handler, Checked
    <2>3. sl.state = "FIN_WAIT1" => a \in Refusals \cup {FinWait1(v, m)}
      BY Zenon DEF Handler, Checked
    <2>4. sl.state = "FIN_WAIT2" => a \in Refusals \cup {FinWait2(v, m)}
      BY Zenon DEF Handler, Checked
    <2>5. sl.state = "CLOSE_WAIT" => a \in Refusals \cup {CloseWait(v, m)}
      BY Zenon DEF Handler, Checked
    <2>6. sl.state = "CLOSING" => a \in Refusals \cup {Closing(v, m)}
      BY Zenon DEF Handler, Checked
    <2>7. sl.state = "LAST_ACK" => a \in Refusals \cup {LastAck(v, m)}
      BY Zenon DEF Handler, Checked
    <2>8. sl.state = "TIME_WAIT" => a \in Refusals \cup {TimeWait(v, m)}
      BY Zenon DEF Handler, Checked
    <2>9. sl.state \in {"LISTENING", "SYN_SENT", "CLOSED"} => a \in {Listening(sl, m), SynSent(sl, m), sl}
      BY DEF Handler
    <2> HIDE DEF a, v, i
    <2>10. sl.state \in State
      BY <1>3
    <2> QED
      BY <2>1, <2>2, <2>3, <2>4, <2>5, <2>6, <2>7, <2>8, <2>9, <2>10 DEF State
  <1> HIDE DEF v, i, a
  <1>6. Silent(a)
    <2>1. /\ Silent(FSend(v, {"ACK"})) /\ Silent(FSend(v, {"RST"})) /\ Silent(FSend(i, {"RST"}))
          /\ Silent(Moved(v, "CLOSED")) /\ Silent(Moved(i, "CLOSED"))
      BY <1>4, Silents, SendSilent
    <2>2. Silent(Moved(FSend(v, {"RST"}), "CLOSED")) /\ Silent(Moved(FSend(i, {"RST"}), "CLOSED"))
      BY <2>1, Silents
    <2>3. \A d \in Refusals : Silent(d)
      BY <1>4, <2>1, <2>2
    <2>4. \A d \in Handlings : Silent(d)
      BY <1>2, <1>4, HandlersSilent
    <2> QED
      BY <1>5, <2>3, <2>4
  <1> QED
    BY <1>1, <1>2, <1>6, Silents, SendSilent

(* What an arriving segment may make of the server's connection c          *)
Took(c, m, d) ==
    /\ Whole(d) /\ d.streaming = c.streaming /\ d.observer = c.observer
    /\ d.state \in Opening => c.state \in Opening /\ d.unacknowledged = c.unacknowledged
    /\ c.state \in Done => d.state \in Done
    /\ c.state = "ESTABLISHED" => d.state \in Done \cup {"ESTABLISHED"}
    /\ d.state \in Taking => c.state \in Taking
    /\ d.state = "LISTENING" => c.state = "LISTENING"
    /\ c.state = "LISTENING" => d.state \in {"LISTENING", "CLOSED"}
    /\ d.pc = c.pc \/ (d.pc = Roused(c.pc) /\ (d.state \in {"ESTABLISHED", "CLOSED"} \/ c.state = "LISTENING"))
    /\ c.state \in Taking =>
         IF d.valid THEN /\ m.seq = c.acknowledgment
                         /\ d.state \in Taking => d.acknowledgment = c.acknowledgment + Len(m.data)
         ELSE d.state \in Taking => d.acknowledgment = c.acknowledgment

(* A segment that a handler is called with                                 *)
Numbers(c, m) ==
    /\ Whole(c) /\ c.acknowledgment \in Nat /\ c.next \in Nat /\ c.unacknowledged \in Nat
    /\ m.seq \in Nat /\ m.ack \in Nat /\ m.data \in Seq(Nat)
Incoming(c, m) ==
    /\ Numbers(c, m) /\ c.valid = TRUE /\ m.seq = c.acknowledgment /\ m.ack <= c.next
    /\ m.data # <<>> => m.flags = {"ACK"} /\ (c.state \in Opening => c.unacknowledged <= m.ack)

LEMMA TakenLines ==
    ASSUME NEW c, NEW m, Incoming(c, m)
    PROVE  LET t == Acknowledge(c, m)
               f == ProcessFin(t, m)
               g == ProcessFin(c, m)
           IN  /\ Line(c, t, c.state, c.acknowledgment + Len(m.data), TRUE, c.pc)
               /\ Line(c, f, c.state, m.seq + 1, TRUE, c.pc)
               /\ Line(c, g, c.state, m.seq + 1, TRUE, c.pc)
               /\ m.data = <<>> => Len(m.data) = 0 /\ t = c
               /\ Len(m.data) \in Nat
  <1> DEFINE t == Acknowledge(c, m)
             f == ProcessFin(t, m)
             g == ProcessFin(c, m)
  <1>1. Whole(c) /\ c.valid = TRUE /\ c.acknowledgment \in Nat /\ m.data \in Seq(Nat)
    BY DEF Incoming, Numbers
  <1>2. Line(c, t, c.state, c.acknowledgment + Len(m.data), TRUE, c.pc)
    BY <1>1, TakenLine
  <1>3. Line(c, g, c.state, m.seq + 1, TRUE, c.pc)
    BY <1>1, FinLine
  <1>4. m.data = <<>> => t = c
    BY DEF Acknowledge
  <1> HIDE DEF t
  <1>5. Line(t, f, t.state, m.seq + 1, t.valid, t.pc)
    BY <1>2, FinLine DEF Line
  <1> QED
    BY <1>1, <1>2, <1>3, <1>4, <1>5 DEF Line, t

(* Moving on from a connection that has only taken data or a FIN           *)
LEMMA MovedTook ==
    ASSUME NEW c, NEW m, Incoming(c, m), NEW x, NEW a, Line(c, x, c.state, a, TRUE, c.pc), NEW S,
           S \in Opening => c.state \in Opening, S \in Taking => c.state \in Taking,
           c.state \in Done => S \in Done, c.state = "ESTABLISHED" => S \in Done \cup {"ESTABLISHED"},
           S # "LISTENING", c.state # "LISTENING",
           S \in Taking => a = c.acknowledgment + Len(m.data)
    PROVE  /\ Took(c, m, Moved(x, S))
           /\ Took(c, m, Armed(Moved(x, S)))
           /\ S \in {"ESTABLISHED", "CLOSED"} => Took(c, m, Signal(Forgiven(Moved(x, S))))
  <1> DEFINE d == Moved(x, S)
             r == Armed(d)
             f == Forgiven(d)
             g == Signal(f)
  <1>1. Line(x, d, S, x.acknowledgment, x.valid, x.pc)
    BY Lines DEF Line
  <1> HIDE DEF d
  <1>2. Line(d, r, d.state, d.acknowledgment, d.valid, d.pc) /\ Line(d, f, d.state, d.acknowledgment, d.valid, d.pc)
    BY <1>1, Lines DEF Line
  <1> HIDE DEF r, f
  <1>3. Line(f, g, f.state, f.acknowledgment, f.valid, Roused(f.pc))
    BY <1>2, SignalLine DEF Line
  <1> HIDE DEF g
  <1>4. m.seq = c.acknowledgment
    BY DEF Incoming
  <1>5. Took(c, m, d)
    BY <1>1, <1>4 DEF Took, Line
  <1>6. Took(c, m, r)
    BY <1>1, <1>2, <1>4 DEF Took, Line
  <1>7. S \in {"ESTABLISHED", "CLOSED"} => Took(c, m, g)
    BY <1>1, <1>2, <1>3, <1>4 DEF Took, Line
  <1> QED
    BY <1>5, <1>6, <1>7 DEF d, r, f, g

LEMMA StayedTook ==
    ASSUME NEW c, NEW m, Incoming(c, m), NEW x, NEW a, Line(c, x, c.state, a, TRUE, c.pc),
           c.state \in Taking => a = c.acknowledgment + Len(m.data)
    PROVE  Took(c, m, x)
  BY DEF Took, Line, Incoming, Taking, Opening

LEMMA EstablishedTook ==
    ASSUME NEW c, NEW m, Incoming(c, m), c.state = "ESTABLISHED"
    PROVE  Took(c, m, Established(c, m))
  <1> DEFINE t == Acknowledge(c, m)
             f == ProcessFin(t, m)
  <1>1. /\ Line(c, t, c.state, c.acknowledgment + Len(m.data), TRUE, c.pc)
        /\ Line(c, f, c.state, m.seq + 1, TRUE, c.pc)
        /\ m.data = <<>> => Len(m.data) = 0 /\ t = c
    BY TakenLines
  <1>2. \/ Established(c, m) = c /\ m.data = <<>>
        \/ Established(c, m) = Moved(f, "CLOSE_WAIT")
        \/ Established(c, m) = t
    <2>1. m.data # <<>> => "ACK" \in m.flags /\ m.ack \in c.unacknowledged .. c.next
      BY DEF Incoming, Numbers, Opening
    <2> QED
      BY <2>1 DEF Established
  <1> HIDE DEF t, f
  <1>3. Took(c, m, t)
    BY <1>1, StayedTook
  <1>4. Took(c, m, Moved(f, "CLOSE_WAIT"))
    BY <1>1, MovedTook DEF Opening, Taking, Done, PeerGone
  <1> QED
    BY <1>1, <1>2, <1>3, <1>4

LEMMA SynReceivedTook ==
    ASSUME NEW c, NEW m, Incoming(c, m), c.state = "SYN_RECEIVED"
    PROVE  Took(c, m, SynReceived(c, m))
  <1> DEFINE e == Moved(c, "ESTABLISHED")
             h == Forgiven(e)
             t == Acknowledge(h, m)
             d == Signal(t)
             g == ProcessFin(c, m)
             i == Invalid(c)
             r == FSend(i, {"RST"})
             x == Moved(r, "CLOSED")
  <1>0. Whole(c) /\ c.valid = TRUE /\ c.acknowledgment \in Nat /\ m.data \in Seq(Nat)
    BY DEF Incoming, Numbers
  <1>1. /\ SynReceived(c, m) \in {c, d, Moved(g, "CLOSE_WAIT"), x}
        /\ m.data # <<>> => SynReceived(c, m) \in {d, x}
    BY DEF SynReceived, Incoming, Numbers, Opening
  <1>2. Line(c, g, c.state, m.seq + 1, TRUE, c.pc) /\ (m.data = <<>> => Len(m.data) = 0)
    BY TakenLines
  <1> HIDE DEF g
  <1>3. Took(c, m, Moved(g, "CLOSE_WAIT"))
    BY <1>2, MovedTook DEF Opening, Taking, Done, PeerGone
  <1>4. Line(c, e, "ESTABLISHED", c.acknowledgment, TRUE, c.pc)
    BY <1>0, Lines
  <1> HIDE DEF e
  <1>5. Line(e, h, e.state, e.acknowledgment, e.valid, e.pc)
    BY <1>4, Lines DEF Line
  <1> HIDE DEF h
  <1>6. Line(h, t, h.state, h.acknowledgment + Len(m.data), h.valid, h.pc)
    BY <1>0, <1>4, <1>5, TakenLine DEF Line
  <1> HIDE DEF t
  <1>7. Line(t, d, t.state, t.acknowledgment, t.valid, Roused(t.pc))
    BY <1>6, SignalLine DEF Line
  <1> HIDE DEF d
  <1>8. Took(c, m, d)
    <2>1. Line(c, d, "ESTABLISHED", c.acknowledgment + Len(m.data), TRUE, Roused(c.pc))
      BY <1>4, <1>5, <1>6, <1>7 DEF Line
    <2> QED
      BY <2>1 DEF Took, Line, Incoming, Taking, Opening, Done, PeerGone
  <1>9. Line(c, i, c.state, c.acknowledgment, FALSE, c.pc)
    BY <1>0, Lines
  <1> HIDE DEF i
  <1>10. Line(i, r, i.state, i.acknowledgment, i.valid, i.pc)
    BY <1>9, SendLine DEF Line
  <1> HIDE DEF r
  <1>11. Line(r, x, "CLOSED", r.acknowledgment, r.valid, r.pc)
    <2>1. Whole(r)
      BY <1>10 DEF Line
    <2> QED
      BY <2>1, Lines
  <1> HIDE DEF x
  <1>12. Took(c, m, x)
    <2>1. Line(c, x, "CLOSED", c.acknowledgment, FALSE, c.pc)
      BY <1>9, <1>10, <1>11 DEF Line
    <2> QED
      BY <2>1 DEF Took, Line, Taking, Opening, Done, PeerGone
  <1>13. m.data = <<>> => Took(c, m, c)
    <2>1. Line(c, c, c.state, c.acknowledgment, TRUE, c.pc)
      BY <1>0 DEF Line
    <2>2. SUFFICES ASSUME m.data = <<>> PROVE Took(c, m, c)
      OBVIOUS
    <2>3. c.acknowledgment = c.acknowledgment + Len(m.data)
      BY <1>0, <1>2, <2>2
    <2> QED
      BY <2>1, <2>3, StayedTook
  <1> QED
    <2>1. m.data # <<>> => SynReceived(c, m) = d \/ SynReceived(c, m) = x
      BY <1>1 DEF d, x, r, i, t, h, e
    <2>2. \/ SynReceived(c, m) = c \/ SynReceived(c, m) = d
          \/ SynReceived(c, m) = Moved(g, "CLOSE_WAIT") \/ SynReceived(c, m) = x
      BY <1>1 DEF d, x, r, i, t, h, e, g
    <2> QED
      BY <2>1, <2>2, <1>3, <1>8, <1>12, <1>13

LEMMA FinWait1Took ==
    ASSUME NEW c, NEW m, Incoming(c, m), c.state = "FIN_WAIT1"
    PROVE  Took(c, m, FinWait1(c, m))
  <1> DEFINE t == Acknowledge(c, m)
             f == ProcessFin(t, m)
  <1>1. /\ Line(c, t, c.state, c.acknowledgment + Len(m.data), TRUE, c.pc)
        /\ Line(c, f, c.state, m.seq + 1, TRUE, c.pc)
        /\ m.data = <<>> => Len(m.data) = 0 /\ t = c
    BY TakenLines
  <1>2. \/ FinWait1(c, m) = c /\ m.data = <<>>
        \/ FinWait1(c, m) = Armed(Moved(f, "TIME_WAIT"))
        \/ FinWait1(c, m) = Moved(t, "FIN_WAIT2")
        \/ FinWait1(c, m) = Moved(f, "CLOSING")
        \/ FinWait1(c, m) = t
    <2>1. m.data # <<>> => "ACK" \in m.flags
      BY DEF Incoming
    <2> QED
      BY <2>1 DEF FinWait1
  <1> HIDE DEF t, f
  <1>3. Took(c, m, t)
    BY <1>1, StayedTook
  <1>4. Took(c, m, Armed(Moved(f, "TIME_WAIT"))) /\ Took(c, m, Moved(f, "CLOSING"))
    BY <1>1, MovedTook DEF Opening, Taking, Done, PeerGone
  <1>5. Took(c, m, Moved(t, "FIN_WAIT2"))
    BY <1>1, MovedTook DEF Opening, Taking, Done, PeerGone
  <1> QED
    BY <1>1, <1>2, <1>3, <1>4, <1>5

LEMMA FinWait2Took ==
    ASSUME NEW c, NEW m, Incoming(c, m), c.state = "FIN_WAIT2"
    PROVE  Took(c, m, FinWait2(c, m))
  <1> DEFINE t == Acknowledge(c, m)
             f == ProcessFin(t, m)
  <1>1. /\ Line(c, t, c.state, c.acknowledgment + Len(m.data), TRUE, c.pc)
        /\ Line(c, f, c.state, m.seq + 1, TRUE, c.pc)
        /\ m.data = <<>> => Len(m.data) = 0 /\ t = c
    BY TakenLines
  <1>2. \/ FinWait2(c, m) = c /\ m.data = <<>>
        \/ FinWait2(c, m) = Armed(Moved(f, "TIME_WAIT"))
        \/ FinWait2(c, m) = t
    <2>1. m.data # <<>> => "ACK" \in m.flags
      BY DEF Incoming
    <2> QED
      BY <2>1 DEF FinWait2
  <1> HIDE DEF t, f
  <1>3. Took(c, m, t)
    BY <1>1, StayedTook
  <1>4. Took(c, m, Armed(Moved(f, "TIME_WAIT")))
    BY <1>1, MovedTook DEF Opening, Taking, Done, PeerGone
  <1> QED
    BY <1>1, <1>2, <1>3, <1>4

(* The states in which the other end is done take nothing more.            *)
LEMMA DoneTook ==
    ASSUME NEW c, NEW d, NEW m, Whole(d), d.streaming = c.streaming, d.observer = c.observer, c.state \in Done, d.state \in Done,
           d.pc = c.pc \/ (d.pc = Roused(c.pc) /\ d.state = "CLOSED")
    PROVE  Took(c, m, d)
  BY DEF Took, Done, PeerGone, Taking, Opening

LEMMA CloseWaitTook ==
    ASSUME NEW c, NEW m, Incoming(c, m), c.state = "CLOSE_WAIT"
    PROVE  Took(c, m, CloseWait(c, m))
  <1> DEFINE a == [c EXCEPT !.unacknowledged = m.ack]
             f == ProcessFin(a, m)
  <1>0. Whole(c)
    BY DEF Incoming, Numbers
  <1>1. CloseWait(c, m) \in {c, a, f}
    BY DEF CloseWait
  <1>2. Whole(a) /\ a.streaming = c.streaming /\ a.observer = c.observer /\ a.state = c.state /\ a.pc = c.pc
    BY <1>0 DEF Whole, Names
  <1> HIDE DEF a
  <1>3. Line(a, f, a.state, m.seq + 1, a.valid, a.pc)
    BY <1>2, FinLine
  <1> HIDE DEF f
  <1>4. Whole(f) /\ f.streaming = c.streaming /\ f.observer = c.observer /\ f.state = c.state /\ f.pc = c.pc
    BY <1>2, <1>3 DEF Line
  <1>5. c.state \in Done
    BY DEF Done, PeerGone
  <1> QED
    BY <1>0, <1>1, <1>2, <1>4, <1>5, DoneTook

LEMMA ClosingTook ==
    ASSUME NEW c, NEW m, Incoming(c, m), c.state = "CLOSING"
    PROVE  Took(c, m, Closing(c, m))
  <1>0. Line(c, c, c.state, c.acknowledgment, TRUE, c.pc)
    BY DEF Incoming, Numbers, Line
  <1>1. Closing(c, m) \in {c, Armed(Moved(c, "TIME_WAIT"))}
    BY DEF Closing
  <1>2. Took(c, m, c) /\ Took(c, m, Armed(Moved(c, "TIME_WAIT")))
    BY <1>0, MovedTook, StayedTook DEF Opening, Taking, Done, PeerGone
  <1> QED
    BY <1>1, <1>2

LEMMA LastAckTook ==
    ASSUME NEW c, NEW m, Incoming(c, m), c.state = "LAST_ACK"
    PROVE  Took(c, m, LastAck(c, m))
  <1>0. Line(c, c, c.state, c.acknowledgment, TRUE, c.pc)
    BY DEF Incoming, Numbers, Line
  <1>1. LastAck(c, m) \in {c, Signal(Forgiven(Moved(c, "CLOSED")))}
    BY DEF LastAck
  <1>2. Took(c, m, c) /\ Took(c, m, Signal(Forgiven(Moved(c, "CLOSED"))))
    BY <1>0, MovedTook, StayedTook DEF Opening, Taking, Done, PeerGone
  <1> QED
    BY <1>1, <1>2

LEMMA TimeWaitTook ==
    ASSUME NEW c, NEW m, Incoming(c, m), c.state = "TIME_WAIT"
    PROVE  Took(c, m, TimeWait(c, m))
  <1> DEFINE f == ProcessFin(c, m)
  <1>0. Line(c, c, c.state, c.acknowledgment, TRUE, c.pc)
    BY DEF Incoming, Numbers, Line
  <1>1. TimeWait(c, m) \in {c, Armed(f)}
    BY DEF TimeWait
  <1>2. Line(c, f, c.state, m.seq + 1, TRUE, c.pc)
    BY TakenLines
  <1> HIDE DEF f
  <1>3. Line(f, Armed(f), f.state, f.acknowledgment, f.valid, f.pc)
    BY <1>2, Lines DEF Line
  <1>4. Line(c, Armed(f), c.state, m.seq + 1, TRUE, c.pc)
    BY <1>2, <1>3 DEF Line
  <1>5. Took(c, m, c) /\ Took(c, m, Armed(f))
    BY <1>0, <1>4, StayedTook DEF Opening, Taking
  <1> QED
    BY <1>1, <1>5 DEF f

LEMMA ListeningTook ==
    ASSUME NEW c, NEW m, Whole(c), c.state = "LISTENING"
    PROVE  Took(c, m, Listening(c, m))
  <1> DEFINE i == Invalid(c)
             r == FSend(i, {"RST"})
             a == [c EXCEPT !.acknowledgment = m.seq + 1]
             d == Signal(a)
  <1>1. Listening(c, m) \in {i, r, d, c}
    BY DEF Listening
  <1>2. Line(c, i, c.state, c.acknowledgment, FALSE, c.pc) /\ Line(c, a, c.state, m.seq + 1, c.valid, c.pc)
    BY Lines
  <1> HIDE DEF i, a
  <1>3. Line(i, r, i.state, i.acknowledgment, i.valid, i.pc)
    BY <1>2, SendLine DEF Line
  <1>4. Line(a, d, a.state, a.acknowledgment, a.valid, Roused(a.pc))
    BY <1>2, SignalLine DEF Line
  <1> HIDE DEF r, d
  <1>5. Took(c, m, i) /\ Took(c, m, r) /\ Took(c, m, d) /\ Took(c, m, c)
    BY <1>2, <1>3, <1>4 DEF Took, Line, Opening, Taking, Done, PeerGone
  <1> QED
    BY <1>1, <1>5

(* Took() does not tell apart what differs in other fields.                *)
Alike(c, v) ==
    /\ Whole(v) /\ v.streaming = c.streaming /\ v.observer = c.observer /\ v.unacknowledged = c.unacknowledged
    /\ v.state = c.state /\ v.acknowledgment = c.acknowledgment /\ v.pc = c.pc

LEMMA AlikeTook ==
    ASSUME NEW c, NEW v, NEW m, NEW d, Alike(c, v), Took(v, m, d)
    PROVE  Took(c, m, d)
  BY DEF Alike, Took

(* What a handler is not called for changes the state at most to CLOSED.   *)
LEMMA RefusedTook ==
    ASSUME NEW c, NEW m, NEW v, Alike(c, v), v.valid = FALSE, NEW flags
    PROVE  /\ Took(c, m, v) /\ Took(c, m, FSend(v, flags))
           /\ Took(c, m, Moved(FSend(v, flags), "CLOSED"))
  <1> DEFINE s == FSend(v, flags)
             x == Moved(s, "CLOSED")
  <1>1. Line(v, s, v.state, v.acknowledgment, v.valid, v.pc)
    BY SendLine DEF Alike
  <1> HIDE DEF s
  <1>2. Whole(s)
    BY <1>1 DEF Line
  <1>3. Line(s, x, "CLOSED", s.acknowledgment, s.valid, s.pc)
    BY <1>2, Lines
  <1> HIDE DEF x
  <1>4. Line(v, x, "CLOSED", v.acknowledgment, v.valid, v.pc)
    BY <1>1, <1>3 DEF Line
  <1>5. Took(c, m, v)
    BY DEF Alike, Took, Opening, Taking, Done, PeerGone
  <1>6. Took(c, m, s)
    BY <1>1 DEF Alike, Line, Took, Opening, Taking, Done, PeerGone
  <1>7. Took(c, m, x)
    BY <1>4 DEF Alike, Line, Took, Opening, Taking, Done, PeerGone
  <1> QED
    BY <1>5, <1>6, <1>7 DEF s, x

LEMMA ClosedTook ==
    ASSUME NEW c, NEW m, NEW v, Alike(c, v), m.seq = c.acknowledgment, NEW flags
    PROVE  Took(c, m, Moved(v, "CLOSED")) /\ Took(c, m, Moved(FSend(v, flags), "CLOSED"))
  <1> DEFINE s == FSend(v, flags)
             x == Moved(v, "CLOSED")
             y == Moved(s, "CLOSED")
  <1>1. Line(v, s, v.state, v.acknowledgment, v.valid, v.pc)
    BY SendLine DEF Alike
  <1> HIDE DEF s
  <1>2. Whole(s) /\ Whole(v)
    BY <1>1 DEF Line, Alike
  <1>3. Line(s, y, "CLOSED", s.acknowledgment, s.valid, s.pc)
    BY <1>2, Lines
  <1>4. Line(v, x, "CLOSED", v.acknowledgment, v.valid, v.pc)
    BY <1>2, Lines
  <1> HIDE DEF x, y
  <1>5. Line(v, y, "CLOSED", v.acknowledgment, v.valid, v.pc)
    BY <1>1, <1>3 DEF Line
  <1>6. Took(c, m, x)
    BY <1>4 DEF Alike, Line, Took, Opening, Taking, Done, PeerGone
  <1>7. Took(c, m, y)
    BY <1>5 DEF Alike, Line, Took, Opening, Taking, Done, PeerGone
  <1> QED
    BY <1>6, <1>7 DEF s, x, y

(* A segment that is not ahead and in the window is the next one.          *)
LEMMA CheckedIsNext ==
    ASSUME NEW c, NEW m, Numbers(c, m), m.seq <= c.acknowledgment, CheckSequence(c, m)
    PROVE  m.seq = c.acknowledgment
  <1>1. WINDOW \in Nat
    BY TCPAssumption
  <1> QED
    BY <1>1 DEF Numbers, CheckSequence, InWindow

LEMMA HandlerTook ==
    ASSUME NEW c, NEW m, Numbers(c, m), c.state \in State \ {"SYN_SENT"}, m.seq <= c.acknowledgment \/ c.state = "LISTENING",
           m.ack <= c.next, m.data # <<>> => m.flags = {"ACK"} /\ (c.state \in Opening => c.unacknowledged <= m.ack)
    PROVE  Took(c, m, Handler(c, m)) /\ (c.state = "CLOSED" => Handler(c, m) = c)
  <1> DEFINE ok == CheckSequence(c, m)
             v == [c EXCEPT !.valid = ok]
             i == Invalid(v)
             Closings == {Moved(v, "CLOSED"), Moved(i, "CLOSED"),
                          Moved(FSend(v, {"RST"}), "CLOSED"), Moved(FSend(i, {"RST"}), "CLOSED")}
             Refusals == {v, FSend(v, {"ACK"})}
             Past == c.state \notin {"LISTENING", "SYN_SENT", "CLOSED"}
  <1>0. Whole(c)
    BY DEF Numbers
  <1>1. Alike(c, v) /\ v.valid = ok
    <2> HIDE DEF ok
    <2>1. Line(c, v, c.state, c.acknowledgment, ok, c.pc)
      BY <1>0, Lines
    <2> QED
      BY <2>1 DEF Line, Alike
  <1>2. Alike(c, i)
    <2>1. Line(v, i, v.state, v.acknowledgment, FALSE, v.pc)
      BY <1>1, Lines DEF Alike
    <2> QED
      BY <1>1, <2>1 DEF Line, Alike
  <1>3. Past /\ ok => m.seq = c.acknowledgment
    BY CheckedIsNext
  <1>4. Past /\ ok => Incoming(v, m)
    <2>1. SUFFICES ASSUME Past, ok PROVE Incoming(v, m)
      OBVIOUS
    <2>2. v.valid = TRUE /\ v.next = c.next
      BY <1>0, <2>1 DEF Whole, Names
    <2>3. m.seq = v.acknowledgment
      BY <1>1, <1>3, <2>1 DEF Alike
    <2> HIDE DEF v
    <2>4. Numbers(v, m)
      BY <1>1, <2>2 DEF Numbers, Alike
    <2> QED
      BY <1>1, <2>2, <2>3, <2>4 DEF Incoming, Alike
  <1>5. Past /\ ok => \A d \in Closings : Took(c, m, d)
    <2> HIDE DEF v, i, ok
    <2>1. SUFFICES ASSUME Past, ok PROVE \A d \in Closings : Took(c, m, d)
      OBVIOUS
    <2>2. \A flags : Took(c, m, Moved(v, "CLOSED")) /\ Took(c, m, Moved(FSend(v, flags), "CLOSED"))
      BY <1>1, <1>3, <2>1, ClosedTook
    <2>3. \A flags : Took(c, m, Moved(i, "CLOSED")) /\ Took(c, m, Moved(FSend(i, flags), "CLOSED"))
      BY <1>2, <1>3, <2>1, ClosedTook
    <2> QED
      BY <2>2, <2>3
  <1>6. ~ok => \A d \in Refusals : Took(c, m, d)
    <2>1. ~ok => v.valid = FALSE
      BY <1>1
    <2> HIDE DEF v, i, ok
    <2> QED
      BY <1>1, <2>1, RefusedTook
  <1>7. CASE c.state = "SYN_RECEIVED"
    <2>1. \/ ~ok /\ Handler(c, m) \in Refusals
          \/ ok /\ Handler(c, m) \in Closings \cup {SynReceived(v, m)}
      BY <1>1, <1>7, Zenon DEF Handler, Checked
    <2> HIDE DEF v, i, ok
    <2>2. ok => Took(v, m, SynReceived(v, m))
      BY <1>1, <1>4, <1>7, SynReceivedTook DEF Alike
    <2> QED
      BY <1>1, <1>5, <1>6, <1>7, <2>1, <2>2, AlikeTook
  <1>8. CASE c.state = "ESTABLISHED"
    <2>1. \/ ~ok /\ Handler(c, m) \in Refusals
          \/ ok /\ Handler(c, m) \in Closings \cup {Established(v, m)}
      BY <1>1, <1>8, Zenon DEF Handler, Checked
    <2> HIDE DEF v, i, ok
    <2>2. ok => Took(v, m, Established(v, m))
      BY <1>1, <1>4, <1>8, EstablishedTook DEF Alike
    <2> QED
      BY <1>1, <1>5, <1>6, <1>8, <2>1, <2>2, AlikeTook
  <1>9. CASE c.state = "FIN_WAIT1"
    <2>1. \/ ~ok /\ Handler(c, m) \in Refusals
          \/ ok /\ Handler(c, m) \in Closings \cup {FinWait1(v, m)}
      BY <1>1, <1>9, Zenon DEF Handler, Checked
    <2> HIDE DEF v, i, ok
    <2>2. ok => Took(v, m, FinWait1(v, m))
      BY <1>1, <1>4, <1>9, FinWait1Took DEF Alike
    <2> QED
      BY <1>1, <1>5, <1>6, <1>9, <2>1, <2>2, AlikeTook
  <1>10. CASE c.state = "FIN_WAIT2"
    <2>1. \/ ~ok /\ Handler(c, m) \in Refusals
          \/ ok /\ Handler(c, m) \in Closings \cup {FinWait2(v, m)}
      BY <1>1, <1>10, Zenon DEF Handler, Checked
    <2> HIDE DEF v, i, ok
    <2>2. ok => Took(v, m, FinWait2(v, m))
      BY <1>1, <1>4, <1>10, FinWait2Took DEF Alike
    <2> QED
      BY <1>1, <1>5, <1>6, <1>10, <2>1, <2>2, AlikeTook
  <1>11. CASE c.state = "CLOSE_WAIT"
    <2>1. \/ ~ok /\ Handler(c, m) \in Refusals
          \/ ok /\ Handler(c, m) \in Closings \cup {CloseWait(v, m)}
      BY <1>1, <1>11, Zenon DEF Handler, Checked
    <2> HIDE DEF v, i, ok
    <2>2. ok => Took(v, m, CloseWait(v, m))
      BY <1>1, <1>4, <1>11, CloseWaitTook DEF Alike
    <2> QED
      BY <1>1, <1>5, <1>6, <1>11, <2>1, <2>2, AlikeTook
  <1>12. CASE c.state = "CLOSING"
    <2>1. \/ ~ok /\ Handler(c, m) \in Refusals
          \/ ok /\ Handler(c, m) \in Closings \cup {Closing(v, m)}
      BY <1>1, <1>12, Zenon DEF Handler, Checked
    <2> HIDE DEF v, i, ok
    <2>2. ok => Took(v, m, Closing(v, m))
      BY <1>1, <1>4, <1>12, ClosingTook DEF Alike
    <2> QED
      BY <1>1, <1>5, <1>6, <1>12, <2>1, <2>2, AlikeTook
  <1>13. CASE c.state = "LAST_ACK"
    <2>1. \/ ~ok /\ Handler(c, m) \in Refusals
          \/ ok /\ Handler(c, m) \in Closings \cup {LastAck(v, m)}
      BY <1>1, <1>13, Zenon DEF Handler, Checked
    <2> HIDE DEF v, i, ok
    <2>2. ok => Took(v, m, LastAck(v, m))
      BY <1>1, <1>4, <1>13, LastAckTook DEF Alike
    <2> QED
      BY <1>1, <1>5, <1>6, <1>13, <2>1, <2>2, AlikeTook
  <1>14. CASE c.state = "TIME_WAIT"
    <2>1. \/ ~ok /\ Handler(c, m) \in Refusals
          \/ ok /\ Handler(c, m) \in Closings \cup {TimeWait(v, m)}
      BY <1>1, <1>14, Zenon DEF Handler, Checked
    <2> HIDE DEF v, i, ok
    <2>2. ok => Took(v, m, TimeWait(v, m))
      BY <1>1, <1>4, <1>14, TimeWaitTook DEF Alike
    <2> QED
      BY <1>1, <1>5, <1>6, <1>14, <2>1, <2>2, AlikeTook
  <1>15. CASE c.state = "LISTENING"
    BY <1>0, <1>15, ListeningTook DEF Handler
  <1>16. CASE c.state = "CLOSED"
    <2>1. Handler(c, m) = c
      BY <1>16 DEF Handler
    <2>2. Took(c, m, c)
      BY <1>0, <1>16, DoneTook DEF Done
    <2> QED
      BY <2>1, <2>2
  <1> QED
    BY <1>7, <1>8, <1>9, <1>10, <1>11, <1>12, <1>13, <1>14, <1>15, <1>16 DEF State

(* update(), of an end that does not write                                 *)
LEMMA UpdateTook ==
    ASSUME NEW c, NEW m, Numbers(c, m), c.state \in State \ {"SYN_SENT"}, c.streaming = FALSE, c.valid = FALSE,
           m.data # <<>> => m.flags = {"ACK"} /\ (c.state \in Opening => c.unacknowledged <= m.ack)
    PROVE  /\ Took(c, m, Update(c, m))
           /\ c.state = "CLOSED" => Update(c, m).state = "CLOSED"
           /\ Update(c, m).valid = TRUE => ~OutOfOrder(c, m) /\ ~Unsent(c, m)
  <1> DEFINE cur == Current(c, m)
             s == FSend(cur, {"RST"})
             x == Moved(s, "CLOSED")
             a == Handler(cur, m)
  <1>0. Whole(c)
    BY DEF Numbers
  <1>1. Alike(c, cur) /\ cur.valid = FALSE /\ cur.next = c.next
    BY <1>0 DEF Current, Alike, Whole, Names
  <1>2. Slide(cur, m) = cur /\ ~Relevant(c, m)
    BY <1>1 DEF Slide, Relevant, Alike
  <1>3. /\ OutOfOrder(c, m) => Update(c, m) = cur
        /\ ~OutOfOrder(c, m) /\ Unsent(c, m) => Update(c, m) = x
        /\ ~OutOfOrder(c, m) /\ ~Unsent(c, m) => Update(c, m) = a
    BY <1>2 DEF Update
  <1> HIDE DEF cur
  <1>4. Took(c, m, cur) /\ Took(c, m, x)
    BY <1>1, RefusedTook
  <1>5. x.state = "CLOSED" /\ x.valid = FALSE
    <2>1. Line(cur, s, cur.state, cur.acknowledgment, cur.valid, cur.pc)
      BY <1>1, SendLine DEF Alike
    <2> HIDE DEF s
    <2>2. Whole(s)
      BY <2>1 DEF Line
    <2>3. Line(s, x, "CLOSED", s.acknowledgment, s.valid, s.pc)
      BY <2>2, Lines
    <2> QED
      BY <1>1, <2>1, <2>3 DEF Line
  <1> HIDE DEF s, x
  <1>6. ASSUME ~OutOfOrder(c, m), ~Unsent(c, m)
        PROVE  Took(c, m, a) /\ (c.state = "CLOSED" => a.state = "CLOSED")
    <2>1. Numbers(cur, m)
      BY <1>1 DEF Numbers, Alike
    <2>2. m.seq <= cur.acknowledgment \/ cur.state = "LISTENING"
      BY <1>1, <1>6 DEF OutOfOrder, Numbers, Alike
    <2>3. m.ack <= cur.next
      BY <1>1, <1>6 DEF Unsent, Numbers, Alike
    <2>4. cur.state = c.state /\ cur.unacknowledged = c.unacknowledged
      BY <1>1 DEF Alike
    <2>5. Took(cur, m, a) /\ (cur.state = "CLOSED" => a = cur)
      BY <2>1, <2>2, <2>3, <2>4, HandlerTook
    <2> HIDE DEF a
    <2> QED
      BY <1>1, <2>4, <2>5, AlikeTook
  <1> HIDE DEF a
  <1>7. c.state = "CLOSED" => cur.state = "CLOSED"
    BY <1>1 DEF Alike
  <1>8. Took(c, m, Update(c, m))
    BY <1>3, <1>4, <1>6
  <1>9. c.state = "CLOSED" => Update(c, m).state = "CLOSED"
    BY <1>3, <1>5, <1>6, <1>7
  <1> QED
    BY <1>1, <1>3, <1>5, <1>8, <1>9

(* The bytes of a segment follow those delivered before it.                *)
LEMMA NextBytes ==
    ASSUME NEW D \in Seq([seq : Nat, byte : Nat]), Successive(D), NEW n \in Nat,
           NEW N \in Seq([seq : Nat, byte : Nat]), \A i \in 1 .. Len(N) : N[i].seq = n + i - 1,
           D # <<>> => n = D[Len(D)].seq + 1
    PROVE  /\ D \o N \in Seq([seq : Nat, byte : Nat]) /\ Successive(D \o N)
           /\ D \o N # <<>> => n + Len(N) = (D \o N)[Len(D \o N)].seq + 1
  <1> DEFINE Rec == [seq : Nat, byte : Nat]
             E == D \o N
  <1>1. Len(N) \in Nat /\ Len(D) \in Nat /\ D \in Seq(Rec) /\ N \in Seq(Rec)
    OBVIOUS
  <1> HIDE DEF Rec
  <1>2. /\ E \in Seq(Rec) /\ Len(E) = Len(D) + Len(N)
        /\ \A i \in 1 .. Len(D) : E[i] = D[i]
        /\ \A i \in 1 .. Len(N) : E[Len(D) + i] = N[i]
    <2>1. E \in Seq(Rec)
      BY <1>1
    <2>2. Len(E) = Len(D) + Len(N)
      BY <1>1
    <2>3. \A i \in 1 .. Len(D) : E[i] = D[i]
      BY <1>1
    <2>4. \A i \in 1 .. Len(N) : E[Len(D) + i] = N[i]
      BY <1>1
    <2> QED
      BY <2>1, <2>2, <2>3, <2>4
  <1> HIDE DEF E
  <1>3. \A i \in 1 .. Len(N) : E[Len(D) + i].seq = n + i - 1
    BY <1>2
  <1>4. Len(D) > 0 => E[Len(D)].seq = n - 1
    <2>1. SUFFICES ASSUME Len(D) > 0 PROVE E[Len(D)].seq = n - 1
      OBVIOUS
    <2>2. Len(D) \in 1 .. Len(D) /\ D # <<>> /\ D[Len(D)] \in Rec
      BY <1>1, <2>1
    <2>3. D[Len(D)].seq \in Nat
      BY <2>2 DEF Rec
    <2>4. n = D[Len(D)].seq + 1
      BY <2>2
    <2>5. E[Len(D)].seq = D[Len(D)].seq
      BY <1>2, <2>2
    <2> QED
      BY <2>3, <2>4, <2>5
  <1>5. ASSUME NEW i \in 1 .. Len(E) - 1
        PROVE  E[i + 1].seq = E[i].seq + 1
    <2>1. CASE i + 1 <= Len(D)
      <3>1. i \in 1 .. Len(D) - 1 /\ i \in 1 .. Len(D) /\ i + 1 \in 1 .. Len(D)
        BY <1>1, <2>1
      <3> QED
        BY <1>2, <3>1 DEF Successive
    <2>2. CASE i = Len(D)
      <3>1. Len(D) > 0 /\ 1 \in 1 .. Len(N) /\ i + 1 = Len(D) + 1
        BY <1>1, <1>2, <2>2
      <3>2. E[Len(D) + 1].seq = n + 1 - 1 /\ E[Len(D)].seq = n - 1
        BY <1>3, <1>4, <3>1
      <3>3. E[i + 1].seq = n + 1 - 1 /\ E[i].seq = n - 1
        BY <2>2, <3>1, <3>2
      <3> QED
        BY <3>3
    <2>3. CASE i > Len(D)
      <3> DEFINE k == i - Len(D)
      <3>1. k \in 1 .. Len(N) /\ k + 1 \in 1 .. Len(N) /\ i = Len(D) + k /\ i + 1 = Len(D) + (k + 1)
        <4>1. Len(E) = Len(D) + Len(N) /\ i \in Int /\ i <= Len(E) - 1 /\ i > Len(D)
          BY <1>1, <1>2, <2>3
        <4>2. Len(D) \in Int /\ Len(N) \in Int
          BY <1>1
        <4>3. k \in Int /\ k >= 1
          BY <4>1, <4>2
        <4>4. i = Len(D) + k
          BY <4>1, <4>2
        <4>5. k + 1 <= Len(N)
          BY <4>1, <4>2
        <4> HIDE DEF k
        <4> QED
          BY <4>2, <4>3, <4>4, <4>5
      <3> HIDE DEF k
      <3>2. E[i].seq = n + k - 1 /\ E[i + 1].seq = n + (k + 1) - 1
        BY <1>3, <3>1
      <3> QED
        BY <3>1, <3>2
    <2> QED
      BY <1>1, <1>2, <2>1, <2>2, <2>3
  <1>6. Successive(E)
    BY <1>5 DEF Successive
  <1>7. E # <<>> => n + Len(N) = E[Len(E)].seq + 1
    <2>1. SUFFICES ASSUME E # <<>> PROVE n + Len(N) = E[Len(E)].seq + 1
      OBVIOUS
    <2>2. Len(E) > 0
      BY <1>2, <2>1
    <2>3. CASE Len(N) > 0
      <3>1. Len(N) \in 1 .. Len(N)
        BY <1>1, <2>3
      <3> QED
        <4>1. E[Len(D) + Len(N)].seq = n + Len(N) - 1 /\ Len(E) = Len(D) + Len(N)
          BY <1>2, <1>3, <3>1
        <4>2. E[Len(E)].seq = n + Len(N) - 1
          BY <4>1
        <4> QED
          BY <1>1, <4>2
    <2>4. CASE Len(N) = 0
      BY <1>1, <1>2, <1>4, <2>2, <2>4
    <2> QED
      BY <1>1, <2>3, <2>4
  <1> QED
    BY <1>2, <1>6, <1>7 DEF E, Rec

(* What the server's end and the bytes it delivered are after a segment    *)
(* arrived                                                                 *)
LEMMA ReceivingTakes ==
    ASSUME NEW c, NEW D \in Seq([seq : Nat, byte : Nat]), Receiving(c, D), Successive(D),
           NEW m, NEW d, Numbers(c, m), Took(c, m, d), d.valid \in BOOLEAN, d.pc \in Label,
           c.state = "CLOSED" => d.state = "CLOSED",
           NEW N, N = IF d.valid /\ c.state \in Taking /\ c.observer
                      THEN [i \in 1 .. Len(m.data) |-> [seq |-> m.seq + i - 1, byte |-> m.data[i]]] ELSE <<>>
    PROVE  D \o N \in Seq([seq : Nat, byte : Nat]) /\ Successive(D \o N) /\ Receiving(d, D \o N)
  <1> DEFINE Bytes == [i \in 1 .. Len(m.data) |-> [seq |-> m.seq + i - 1, byte |-> m.data[i]]]
             Takes == d.valid /\ c.state \in Taking /\ c.observer
             E == D \o N
  <1>1. m.seq \in Nat /\ m.data \in Seq(Nat) /\ c.acknowledgment \in Nat
    BY DEF Numbers
  <1>2. ~Takes => E = D
    OBVIOUS
  <1>3. Takes => m.seq = c.acknowledgment /\ (D # <<>> => m.seq = D[Len(D)].seq + 1)
    BY DEF Took, Receiving
  <1>4. Takes => /\ E \in Seq([seq : Nat, byte : Nat]) /\ Successive(E)
                 /\ E # <<>> => m.seq + Len(m.data) = E[Len(E)].seq + 1
    <2>1. SUFFICES ASSUME Takes
                   PROVE  /\ E \in Seq([seq : Nat, byte : Nat]) /\ Successive(E)
                          /\ E # <<>> => m.seq + Len(m.data) = E[Len(E)].seq + 1
      OBVIOUS
    <2>2. N = Bytes
      BY <2>1
    <2>3. \A i \in 1 .. Len(m.data) : [seq |-> m.seq + i - 1, byte |-> m.data[i]] \in [seq : Nat, byte : Nat]
      BY <1>1
    <2>4. Bytes \in Seq([seq : Nat, byte : Nat]) /\ Len(Bytes) = Len(m.data)
      <3> DEFINE Rec == [seq : Nat, byte : Nat]
      <3>1. \A i \in 1 .. Len(m.data) : [seq |-> m.seq + i - 1, byte |-> m.data[i]] \in Rec
        BY <2>3
      <3> HIDE DEF Rec
      <3>2. Bytes \in Seq(Rec) /\ Len(Bytes) = Len(m.data)
        BY <1>1, <3>1
      <3> QED
        BY <3>2 DEF Rec
    <2>5. \A i \in 1 .. Len(Bytes) : Bytes[i].seq = m.seq + i - 1
      BY <1>1, <2>4
    <2> HIDE DEF Takes, Bytes
    <2>6. D # <<>> => m.seq = D[Len(D)].seq + 1
      BY <1>3, <2>1
    <2>7. /\ N \in Seq([seq : Nat, byte : Nat]) /\ Len(N) = Len(m.data)
          /\ \A i \in 1 .. Len(N) : N[i].seq = m.seq + i - 1
      BY <2>2, <2>4, <2>5
    <2>8. /\ D \o N \in Seq([seq : Nat, byte : Nat]) /\ Successive(D \o N)
          /\ D \o N # <<>> => m.seq + Len(N) = (D \o N)[Len(D \o N)].seq + 1
      BY <1>1, <2>6, <2>7, NextBytes
    <2> QED
      BY <2>7, <2>8
  <1>5. E \in Seq([seq : Nat, byte : Nat]) /\ Successive(E)
    BY <1>2, <1>4
  <1> HIDE DEF Bytes, E
  <1>6. d.streaming = c.streaming /\ d.observer = c.observer
    BY DEF Took
  <1>7. d.streaming = FALSE /\ c.pc \in Serving
    BY <1>6 DEF Receiving
  <1>8. d.pc = c.pc \/ d.pc = Roused(c.pc)
    BY DEF Took
  <1>9. d.pc \in Serving /\ (d.pc \in Listens <=> c.pc \in Listens) /\ (d.pc \in Ends <=> c.pc \in Ends)
    BY <1>6, <1>7, <1>8 DEF Roused, Serving, Listens, Ends
  <1>10. d.pc \in Listens => E = <<>> /\ d.state \in {"LISTENING", "CLOSED"}
    <2>1. c.pc \in Listens => D = <<>> /\ c.state \in {"LISTENING", "CLOSED"}
      BY DEF Receiving
    <2>2. c.state \in {"LISTENING", "CLOSED"} => ~Takes /\ d.state \in {"LISTENING", "CLOSED"}
      BY <1>6 DEF Took, Taking
    <2> QED
      BY <1>2, <1>9, <2>1, <2>2
  <1>11. d.state = "LISTENING" => d.pc \in Listens
    BY <1>6, <1>9 DEF Took, Receiving
  <1>12. d.pc = "attach" => d.state \in Done \cup {"ESTABLISHED"}
    <2>1. CASE c.pc = "attach"
      BY <1>6, <2>1 DEF Receiving, Took
    <2>2. CASE c.pc # "attach"
      <3>1. d.pc = "attach" => d.state \in {"ESTABLISHED", "CLOSED"} \/ c.state = "LISTENING"
        BY <1>6, <2>2 DEF Took
      <3>2. c.state = "LISTENING" => d.pc \in Listens
        BY <1>9 DEF Receiving
      <3> QED
        BY <1>6, <3>1, <3>2 DEF Done, Listens
    <2> QED
      BY <2>1, <2>2
  <1>13. d.observer /\ d.pc \in Ends => d.state \in Done
    BY <1>6, <1>9 DEF Receiving, Took
  <1>14. d.pc = "to_fin_wait1" => ~d.observer
    <2>1. d.pc = "to_fin_wait1" => c.pc = "to_fin_wait1"
      BY <1>6, <1>8 DEF Roused
    <2> QED
      BY <1>6, <2>1 DEF Receiving
  <1>15. d.state \in Opening => d.unacknowledged <= ServerISN
    BY <1>6 DEF Receiving, Took
  <1>16. E # <<>> /\ d.observer /\ d.state \in Taking => d.acknowledgment = E[Len(E)].seq + 1
    <2>1. SUFFICES ASSUME E # <<>>, d.observer, d.state \in Taking
                   PROVE  d.acknowledgment = E[Len(E)].seq + 1
      OBVIOUS
    <2>2. c.state \in Taking /\ c.observer
      BY <1>6, <2>1 DEF Took
    <2>3. CASE d.valid
      <3>1. Takes /\ m.seq = c.acknowledgment /\ d.acknowledgment = c.acknowledgment + Len(m.data)
        BY <1>6, <2>1, <2>2, <2>3 DEF Took
      <3> HIDE DEF Takes
      <3> QED
        BY <1>4, <1>6, <2>1, <3>1
    <2>4. CASE ~d.valid
      <3>1. E = D /\ d.acknowledgment = c.acknowledgment
        BY <1>2, <1>6, <2>1, <2>2, <2>4 DEF Took
      <3> QED
        BY <1>6, <2>1, <2>2, <3>1 DEF Receiving
    <2> QED
      BY <2>3, <2>4
  <1>17. Receiving(d, E)
    BY <1>7, <1>9, <1>10, <1>11, <1>12, <1>13, <1>14, <1>15, <1>16 DEF Receiving
  <1> QED
    BY <1>5, <1>17 DEF E

(* A connection that only its sequence numbers and its alarm tell from c   *)
LEMMA AlikeReceiving ==
    ASSUME NEW c, NEW d, NEW D, Alike(c, d), Receiving(c, D)
    PROVE  Receiving(d, D)
  BY DEF Alike, Receiving

LEMMA StoredAlike ==
    ASSUME NEW p, NEW d, Whole(d)
    PROVE  Alike(d, Stored(p, d)) /\ (d.streaming = FALSE => Stored(p, d).valid = FALSE)
  <1> DEFINE v == d.valid /\ d.streaming
             u == IF p \in Writers /\ strm[p].result = "none" THEN d.current ELSE 0
  <1>1. Stored(p, d) = [d EXCEPT !.out = {}, !.valid = v, !.current = u]
    BY DEF Stored
  <1>2. d.streaming = FALSE => v = FALSE
    BY Zenon
  <1> HIDE DEF v, u
  <1>3. Alike(d, [d EXCEPT !.out = {}, !.valid = v, !.current = u])
        /\ [d EXCEPT !.out = {}, !.valid = v, !.current = u].valid = v
    BY DEF Alike, Whole, Names
  <1> QED
    BY <1>1, <1>2, <1>3

LEMMA PostedSilent ==
    ASSUME NEW p, NEW d, Silent(d), NEW m \in Posted(p, d)
    PROVE  m.data = <<>>
  BY DEF Silent, Posted

(* What is known of both ends                                              *)
LEMMA DataFacts ==
    ASSUME CInv, DInv, NEW p \in Peers
    PROVE  /\ Whole(conn[p]) /\ Silent(conn[p]) /\ conn[p] \in Conn /\ conn[p].initial = ISN(p)
           /\ Server \in Peers /\ Client \in Peers /\ Client # Server /\ \A q \in Peers : q = Client \/ q = Server
           /\ Other(Client) = Server /\ ISN(Server) = ServerISN /\ Other(Server) = Client
           /\ conn[Server].pc \in Serving
           /\ conn \in [Peers -> Conn]
  <1>1. conn[p] \in Conn /\ conn[p].out = {} /\ conn[p].initial = ISN(p)
    BY EndFacts
  <1>2. Whole(conn[p])
    BY <1>1, WholeConn
  <1>3. Silent(conn[p])
    BY <1>1, <1>2 DEF Silent
  <1> QED
    BY <1>1, <1>2, <1>3, Constants DEF DInv, Receiving, Peers, Other, ISN, CInv, Types

(* A step of the server's end                                              *)
LEMMA ServerStep ==
    ASSUME CInv, DInv, NEW d, Silent(d), NEW D \in Seq([seq : Nat, byte : Nat]), Successive(D), Receiving(d, D),
           conn' = [conn EXCEPT ![Server] = Stored(Server, d)], net' \subseteq net \cup Posted(Server, d),
           delivered' = [delivered EXCEPT ![Server] = D]
    PROVE  DInv'
  <1> DEFINE s == Stored(Server, d)
  <1>1. Server \in Peers /\ Client \in Peers /\ Client # Server /\ conn \in [Peers -> Conn]
    BY Constants DEF CInv, Types
  <1>2. Alike(d, s) /\ s.valid = FALSE
    BY StoredAlike DEF Receiving, Silent
  <1> HIDE DEF s
  <1>3. conn'[Server] = s
    BY <1>1 DEF s
  <1>4. Receiving(s, D)
    BY <1>2, AlikeReceiving
  <1>5. delivered'[Server] = D /\ delivered'[Client] = <<>> /\ delivered' \in [Peers -> Seq([seq : Nat, byte : Nat])]
    <2> DEFINE T == Seq([seq : Nat, byte : Nat])
    <2>1. delivered \in [Peers -> T] /\ delivered[Client] = <<>> /\ D \in T
      BY DEF DInv
    <2> HIDE DEF T
    <2>2. delivered' \in [Peers -> T] /\ delivered'[Server] = D /\ delivered'[Client] = <<>>
      BY <1>1, <2>1
    <2> QED
      BY <2>2 DEF T
  <1>6. \A m \in net' : DataOK(m)
    BY PostedSilent DEF DInv, DataOK
  <1> QED
    BY <1>2, <1>3, <1>4, <1>5, <1>6 DEF DInv

(* A step of the client's                                                  *)
LEMMA ClientStep ==
    ASSUME CInv, DInv, NEW d, conn' = [conn EXCEPT ![Client] = d], \A m \in net' : m \in net \/ DataOK(m),
           delivered' = delivered
    PROVE  DInv'
  <1>1. conn'[Server] = conn[Server]
    BY Constants DEF CInv, Types
  <1>2. \A m \in net' : DataOK(m)
    BY DEF DInv
  <1> QED
    BY <1>1, <1>2 DEF DInv

(* A step of either that delivers nothing and sends no data                *)
LEMMA SilentStep ==
    ASSUME CInv, DInv, NEW p \in Peers, NEW d, Silent(d), Become(p, d), delivered' = delivered,
           p = Server => Receiving(d, delivered[Server])
    PROVE  DInv'
  <1>1. conn' = [conn EXCEPT ![p] = Stored(p, d)] /\ net' \subseteq net \cup Posted(p, d)
    BY CarriedSome DEF Become
  <1>2. CASE p = Server
    <2>1. delivered' = [delivered EXCEPT ![Server] = delivered[Server]]
      <3> DEFINE T == Seq([seq : Nat, byte : Nat])
      <3>1. delivered \in [Peers -> T]
        BY DEF DInv
      <3> HIDE DEF T
      <3> QED
        BY <3>1
    <2>2. delivered[Server] \in Seq([seq : Nat, byte : Nat]) /\ Successive(delivered[Server])
      BY Constants DEF DInv
    <2> QED
      BY <1>1, <1>2, <2>1, <2>2, ServerStep
  <1>3. CASE p = Client
    <2>1. \A m \in net' : m \in net \/ DataOK(m)
      BY <1>1, PostedSilent DEF DataOK
    <2> QED
      BY <1>1, <1>3, <2>1, ClientStep
  <1> QED
    BY <1>2, <1>3 DEF Peers
-----------------------------------------------------------------------------
LEMMA ServerReceives ==
    ASSUME CInv, DInv, Receive(Server)
    PROVE  DInv'
  <1> DEFINE c == conn[Server]
             D == delivered[Server]
  <1>1. PICK m \in net, duplicate \in BOOLEAN :
             /\ m.to = Server
             /\ conn' = [conn EXCEPT ![Server] = Stored(Server, Update(c, m))]
             /\ net' = Carried(IF duplicate THEN net ELSE net \ {m}, Posted(Server, Update(c, m)))
             /\ delivered' = [delivered EXCEPT ![Server] = D \o Notified(c, m)]
    BY DEF Receive, Observed
  <1> DEFINE d == Update(c, m)
             N == Notified(c, m)
  <1>2. /\ c \in Conn /\ Silent(c) /\ Server \in Peers /\ c.valid = FALSE /\ Receiving(c, D)
        /\ D \in Seq([seq : Nat, byte : Nat]) /\ Successive(D) /\ EndOK(Server, c)
    <2>1. Server \in Peers
      BY Constants
    <2>2. c \in Conn /\ Silent(c) /\ EndOK(Server, c)
      BY <2>1, DataFacts, EndFacts
    <2> QED
      BY <2>1, <2>2 DEF DInv
  <1>3. m \in Segment /\ DataOK(m)
    BY <1>1 DEF CInv, Types, DInv
  <1>4. Arriving(Server, c, m)
    BY <1>1, <1>2, <1>3, EndFacts DEF Arriving, SegmentOK, CInv
  <1>5. d \in Conn
    BY <1>4, UpdateHandled DEF Handled
  <1> HIDE DEF c, D
  <1>6. Numbers(c, m)
    BY <1>2, <1>3, WholeConn DEF Numbers, Conn, Segment
  <1>7. c.state \in State \ {"SYN_SENT"} /\ c.streaming = FALSE
    BY <1>2 DEF Receiving, Conn, EndOK, Serving, Listens, Ends
  <1>8. m.data # <<>> => m.flags = {"ACK"} /\ (c.state \in Opening => c.unacknowledged <= m.ack)
    <2>1. ServerISN \in Nat /\ m.ack \in Nat /\ c.unacknowledged \in Nat
      BY <1>2, <1>3, TCPAssumption DEF Segment, Conn
    <2> QED
      BY <1>2, <1>3, <2>1 DEF DataOK, Receiving
  <1>9. /\ Took(c, m, d) /\ (c.state = "CLOSED" => d.state = "CLOSED")
        /\ d.valid = TRUE => ~OutOfOrder(c, m) /\ ~Unsent(c, m)
    BY <1>2, <1>6, <1>7, <1>8, UpdateTook
  <1>10. Silent(d)
    BY <1>2, <1>7, UpdateSilent
  <1>11. d.valid \in BOOLEAN /\ d.pc \in Label
    BY <1>5 DEF Conn
  <1>12. N = IF d.valid /\ c.state \in Taking /\ c.observer
             THEN [i \in 1 .. Len(m.data) |-> [seq |-> m.seq + i - 1, byte |-> m.data[i]]] ELSE <<>>
    BY <1>9, <1>11, Zenon DEF Notified, Taking
  <1> HIDE DEF d, N
  <1>13. D \o N \in Seq([seq : Nat, byte : Nat]) /\ Successive(D \o N) /\ Receiving(d, D \o N)
    BY <1>2, <1>6, <1>9, <1>11, <1>12, ReceivingTakes
  <1>14. net' \subseteq net \cup Posted(Server, d)
    BY <1>1, CarriedSome DEF d
  <1> QED
    BY <1>1, <1>5, <1>10, <1>13, <1>14, ServerStep DEF d, N

LEMMA ClientReceives ==
    ASSUME CInv, DInv, Receive(Client)
    PROVE  DInv'
  <1> DEFINE c == conn[Client]
  <1>1. PICK m \in net, duplicate \in BOOLEAN :
             /\ m.to = Client
             /\ conn' = [conn EXCEPT ![Client] = Stored(Client, Update(c, m))]
             /\ net' = Carried(IF duplicate THEN net ELSE net \ {m}, Posted(Client, Update(c, m)))
             /\ delivered' = [delivered EXCEPT ![Client] = @ \o Notified(c, m)]
    BY DEF Receive, Observed
  <1>2. Silent(c) /\ c.state \in State /\ Client \in Peers /\ Client # Server
    BY DataFacts, EndFacts, Constants
  <1>3. m.data = <<>>
    BY <1>1, <1>2 DEF DInv, DataOK
  <1>4. Notified(c, m) = <<>>
    <2>1. Len(m.data) = 0
      BY <1>3
    <2> QED
      BY <2>1 DEF Notified
  <1>5. delivered' = delivered
    <2>1. delivered[Client] \o Notified(c, m) = delivered[Client]
      BY <1>4 DEF DInv
    <2> QED
      <3> DEFINE T == Seq([seq : Nat, byte : Nat])
      <3>1. delivered \in [Peers -> T]
        BY DEF DInv
      <3> HIDE DEF T
      <3> QED
        BY <1>1, <2>1, <3>1
  <1>6. Silent(Update(c, m))
    BY <1>2, UpdateSilent
  <1>7. \A x \in net' : x \in net \/ DataOK(x)
    BY <1>1, <1>6, CarriedSome, PostedSilent DEF DataOK
  <1> QED
    BY <1>1, <1>5, <1>7, ClientStep

(* timeout(): an end keeps its state or is closed.                         *)
LEMMA ExpiredSilent ==
    ASSUME NEW c, Silent(c)
    PROVE  LET d == Expired(c)
           IN  /\ Silent(d) /\ d.streaming = c.streaming /\ d.observer = c.observer
               /\ d.unacknowledged = c.unacknowledged /\ d.acknowledgment = c.acknowledgment
               /\ \/ d.state = c.state /\ d.pc = c.pc
                  \/ d.state = "CLOSED" /\ d.pc \in {c.pc, Roused(c.pc)}
  <1> DEFINE off   == [c EXCEPT !.alarm = FALSE]
             again == [off EXCEPT !.tries = @ + 1, !.next = @ - 1]
             g     == Moved(off, "CLOSED")
             f     == Forgiven(g)
             d     == Expired(c)
  <1>1. \/ d \in {off, Signal(g), Signal(f)}
        \/ \E flags : d = Armed(FSend(again, flags))
    BY DEF Expired
  <1>2. Silent(off) /\ Alike(c, off) /\ Silent(again) /\ Alike(c, again)
    <2>1. Silent(off) /\ Alike(c, off)
      BY DEF Silent, Whole, Names, Alike
    <2> HIDE DEF off
    <2>2. Silent(again) /\ Alike(off, again)
      BY <2>1 DEF Silent, Whole, Names, Alike
    <2> QED
      BY <2>1, <2>2 DEF Alike
  <1> HIDE DEF off, again, d
  <1>3. Whole(off) /\ Whole(again)
    BY <1>2 DEF Silent
  <1>4. Line(off, g, "CLOSED", off.acknowledgment, off.valid, off.pc) /\ Silent(g)
    BY <1>2, <1>3, Lines, Silents
  <1> HIDE DEF g
  <1>5. Line(g, f, g.state, g.acknowledgment, g.valid, g.pc) /\ Silent(f)
    BY <1>4, Lines, Silents DEF Line
  <1> HIDE DEF f
  <1>6. /\ Line(g, Signal(g), g.state, g.acknowledgment, g.valid, Roused(g.pc)) /\ Silent(Signal(g))
        /\ Line(f, Signal(f), f.state, f.acknowledgment, f.valid, Roused(f.pc)) /\ Silent(Signal(f))
    BY <1>4, <1>5, SignalLine, Silents DEF Line
  <1>7. ASSUME NEW flags
        PROVE  LET e == Armed(FSend(again, flags))
               IN  Line(again, e, again.state, again.acknowledgment, again.valid, again.pc) /\ Silent(e)
    <2> DEFINE s == FSend(again, flags)
               e == Armed(s)
    <2>1. Line(again, s, again.state, again.acknowledgment, again.valid, again.pc) /\ Silent(s)
      BY <1>2, <1>3, SendLine, SendSilent
    <2> HIDE DEF s
    <2>2. Line(s, e, s.state, s.acknowledgment, s.valid, s.pc) /\ Silent(e)
      BY <2>1, Lines, Silents DEF Line
    <2> QED
      BY <2>1, <2>2 DEF Line, s
  <1>8. CASE d \in {off, Signal(g), Signal(f)}
    BY <1>2, <1>4, <1>5, <1>6, <1>8 DEF Line, Alike, d
  <1>9. ASSUME NEW flags, d = Armed(FSend(again, flags))
        PROVE  /\ Silent(d) /\ d.streaming = c.streaming /\ d.observer = c.observer
               /\ d.unacknowledged = c.unacknowledged /\ d.acknowledgment = c.acknowledgment
               /\ d.state = c.state /\ d.pc = c.pc
    BY <1>2, <1>7, <1>9 DEF Line, Alike
  <1> QED
    BY <1>1, <1>8, <1>9 DEF d

LEMMA ServerExpires ==
    ASSUME NEW c, NEW D, Silent(c), Receiving(c, D)
    PROVE  Receiving(Expired(c), D)
  <1> DEFINE d == Expired(c)
  <1>1. /\ d.streaming = c.streaming /\ d.observer = c.observer
        /\ d.unacknowledged = c.unacknowledged /\ d.acknowledgment = c.acknowledgment
        /\ \/ d.state = c.state /\ d.pc = c.pc
           \/ d.state = "CLOSED" /\ d.pc \in {c.pc, Roused(c.pc)}
    BY ExpiredSilent
  <1> HIDE DEF d
  <1>2. CASE d.state = c.state /\ d.pc = c.pc
    BY <1>1, <1>2 DEF Receiving, d
  <1>3. CASE d.state = "CLOSED" /\ d.pc \in {c.pc, Roused(c.pc)}
    <2>1. d.pc \in Serving /\ (d.pc \in Listens => c.pc \in Listens) /\ (d.pc = "to_fin_wait1" => c.pc = "to_fin_wait1")
      BY <1>3 DEF Receiving, Roused, Serving, Listens, Ends
    <2> QED
      BY <1>1, <1>3, <2>1 DEF Receiving, Done, Opening, Taking, d
  <1> QED
    BY <1>1, <1>2, <1>3

LEMMA TimeoutDelivers ==
    ASSUME CInv, DInv, NEW p \in Peers, Timeout(p) \/ StreamTimeout(p)
    PROVE  DInv'
  <1>1. CASE Timeout(p)
    <2>1. Become(p, Expired(conn[p])) /\ delivered' = delivered
      BY <1>1 DEF Timeout
    <2>2. Silent(Expired(conn[p]))
      BY DataFacts, ExpiredSilent
    <2>3. p = Server => Receiving(Expired(conn[p]), delivered[Server])
      BY DataFacts, ServerExpires DEF DInv
    <2> QED
      BY <2>1, <2>2, <2>3, SilentStep
  <1>2. CASE StreamTimeout(p)
    <2>1. Become(p, SignalStream(conn[p])) /\ delivered' = delivered /\ conn[p].pc = "in_stream"
      BY <1>2 DEF StreamTimeout, At
    <2>2. Silent(SignalStream(conn[p]))
      BY DataFacts, Silents
    <2>3. p # Server
      BY <2>1, DataFacts DEF Serving, Listens, Ends
    <2> QED
      BY <2>1, <2>2, <2>3, SilentStep
  <1> QED
    BY <1>1, <1>2

LEMMA LoseDelivers ==
    ASSUME DInv, Lose
    PROVE  DInv'
  BY DEF DInv, Lose
-----------------------------------------------------------------------------
(* A step of the thread: of either end, and of the server's                *)
LEMMA StepDelivers ==
    ASSUME CInv, DInv, NEW p \in Peers, NEW l, NEW c, NEW k, Step(p, l, c, k), Silent(c),
           p = Server => Receiving(Goto(c, k), delivered[Server])
    PROVE  DInv'
  <1>1. Become(p, Goto(c, k)) /\ delivered' = delivered
    BY DEF Step
  <1>2. Silent(Goto(c, k))
    BY Silents
  <1> QED
    BY <1>1, <1>2, SilentStep

(* The labels of connect() and write() are not the server's.               *)
LEMMA OtherDelivers ==
    ASSUME CInv, DInv, NEW p \in Peers, NEW l, l \notin Serving, NEW c, NEW k, Step(p, l, c, k), Silent(c)
    PROVE  DInv'
  <1>1. p # Server
    BY DataFacts DEF Step, At
  <1> QED
    BY <1>1, StepDelivers

(* The server's end at another label or in another state                   *)
Turned(c, d, state, pc) == Line(c, d, state, c.acknowledgment, c.valid, pc)

LEMMA TurnedLines ==
    ASSUME NEW c, Whole(c), NEW k
    PROVE  /\ Turned(c, Goto(c, k), c.state, k)
           /\ \A x : Turned(c, Goto(Moved(c, x), k), x, k)
           /\ \A flags : Turned(c, Goto(FSend(c, flags), k), c.state, k)
           /\ Turned(c, Goto(Armed(c), k), c.state, k)
           /\ Turned(c, Goto([c EXCEPT !.alarm = FALSE], k), c.state, k)
  <1>1. Turned(c, Goto(c, k), c.state, k)
    BY Lines DEF Turned
  <1>2. ASSUME NEW e, NEW x, Line(c, e, x, c.acknowledgment, c.valid, c.pc)
        PROVE  Turned(c, Goto(e, k), x, k)
    <2>1. Line(e, Goto(e, k), e.state, e.acknowledgment, e.valid, k)
      <3>1. Whole(e)
        BY <1>2 DEF Line
      <3> QED
        BY <3>1, Lines
    <2> QED
      BY <1>2, <2>1 DEF Line, Turned
  <1>3. \A x : Turned(c, Goto(Moved(c, x), k), x, k)
    BY <1>2, Lines
  <1>4. \A flags : Turned(c, Goto(FSend(c, flags), k), c.state, k)
    BY <1>2, SendLine
  <1>5. Turned(c, Goto(Armed(c), k), c.state, k)
    BY <1>2, Lines
  <1>6. Turned(c, Goto([c EXCEPT !.alarm = FALSE], k), c.state, k)
    <2>1. Line(c, [c EXCEPT !.alarm = FALSE], c.state, c.acknowledgment, c.valid, c.pc)
      BY DEF Whole, Names, Line
    <2> QED
      BY <1>2, <2>1
  <1> QED
    BY <1>1, <1>3, <1>4, <1>5, <1>6

LEMMA ConnectDelivers ==
    ASSUME CInv, DInv, NEW p \in Peers, Connect(p)
    PROVE  DInv'
  <1> DEFINE c == conn[p]
             u == [c EXCEPT !.unacknowledged = c.sequence]
  <1>1. Silent(c)
    BY DataFacts
  <1>2. "connect" \notin Serving /\ "syn" \notin Serving /\ "sent_syn" \notin Serving
    BY DEF Serving, Listens, Ends
  <1>3. CASE ConnectState(p)
    <2>1. Step(p, "connect", Moved(c, "SYN_SENT"), "syn") /\ Silent(Moved(c, "SYN_SENT"))
      BY <1>1, <1>3, Silents DEF ConnectState
    <2> QED
      BY <1>2, <2>1, OtherDelivers
  <1>4. CASE ConnectSend(p)
    <2>1. Step(p, "syn", FSend(c, {"SYN"}), "sent_syn") /\ Silent(FSend(c, {"SYN"}))
      BY <1>1, <1>4, SendSilent DEF ConnectSend
    <2> QED
      BY <1>2, <2>1, OtherDelivers
  <1>5. CASE ConnectWait(p)
    <2>1. Step(p, "sent_syn", Armed(u), "in_connect")
      BY <1>5 DEF ConnectWait
    <2>2. Silent(u)
      BY <1>1, Silents
    <2> HIDE DEF u
    <2>3. Silent(Armed(u))
      BY <2>2, Silents
    <2> QED
      BY <1>2, <2>1, <2>3, OtherDelivers
  <1> QED
    BY <1>3, <1>4, <1>5 DEF Connect

LEMMA ListenDelivers ==
    ASSUME CInv, DInv, NEW p \in Peers, Listen(p)
    PROVE  DInv'
  <1> DEFINE c == conn[p]
             D == delivered[Server]
             u == [c EXCEPT !.unacknowledged = c.initial]
  <1>1. Whole(c) /\ Silent(c) /\ c.initial = ISN(p) /\ (p = Server => Receiving(c, D) /\ c.initial = ServerISN)
    BY DataFacts DEF DInv
  <1>2. CASE ListenState(p)
    <2>1. Step(p, "listen", Moved(c, "LISTENING"), "listening") /\ c.pc = "listen"
      BY <1>2 DEF ListenState, Step, At
    <2>2. Silent(Moved(c, "LISTENING")) /\ Turned(c, Goto(Moved(c, "LISTENING"), "listening"), "LISTENING", "listening")
      BY <1>1, Silents, TurnedLines
    <2>3. p = Server => Receiving(Goto(Moved(c, "LISTENING"), "listening"), D)
      BY <1>1, <2>1, <2>2 DEF Turned, Line, Receiving, Serving, Listens, Ends, Done, PeerGone, Opening, Taking
    <2> QED
      BY <2>1, <2>2, <2>3, StepDelivers
  <1>3. CASE ListenWait(p)
    <2>1. Step(p, "listening", c, "in_listen") /\ c.pc = "listening"
      BY <1>3 DEF ListenWait, Step, At
    <2>2. Turned(c, Goto(c, "in_listen"), c.state, "in_listen")
      BY <1>1, TurnedLines
    <2>3. p = Server => Receiving(Goto(c, "in_listen"), D)
      BY <1>1, <2>1, <2>2 DEF Turned, Line, Receiving, Serving, Listens, Ends, Done, PeerGone, Opening, Taking
    <2> QED
      BY <1>1, <2>1, <2>3, StepDelivers
  <1>4. CASE ListenSend(p)
    <2> DEFINE s == FSend(c, {"SYN", "ACK"})
    <2>1. Step(p, "answer", s, "answered") /\ c.pc = "answer"
      BY <1>4 DEF ListenSend, Step, At
    <2>2. Silent(s) /\ Turned(c, Goto(s, "answered"), c.state, "answered")
      BY <1>1, SendSilent, TurnedLines
    <2> HIDE DEF s
    <2>3. p = Server => Receiving(Goto(s, "answered"), D)
      BY <1>1, <2>1, <2>2 DEF Turned, Line, Receiving, Serving, Listens, Ends, Done, PeerGone, Opening, Taking
    <2> QED
      BY <2>1, <2>2, <2>3, StepDelivers
  <1>5. CASE ListenReceived(p)
    <2> DEFINE s == Moved(u, "SYN_RECEIVED")
               d == Goto(s, "received")
    <2>1. Step(p, "answered", s, "received") /\ c.pc = "answered"
      BY <1>5 DEF ListenReceived, Step, At
    <2>2. /\ Silent(u) /\ Whole(u) /\ u.streaming = c.streaming /\ u.observer = c.observer
          /\ u.unacknowledged = c.initial
      BY <1>1, Silents DEF Whole, Names
    <2> HIDE DEF u
    <2>3. Silent(s) /\ Turned(u, d, "SYN_RECEIVED", "received")
      BY <2>2, Silents, TurnedLines
    <2> HIDE DEF s, d
    <2>4. ServerISN <= ServerISN
      BY TCPAssumption
    <2>5. p = Server => Receiving(d, D)
      BY <1>1, <2>1, <2>2, <2>3, <2>4
         DEF Turned, Line, Receiving, Serving, Listens, Ends, Done, PeerGone, Opening, Taking
    <2> QED
      BY <2>1, <2>3, <2>5, StepDelivers DEF d
  <1>6. CASE ListenReceivedWait(p)
    <2>1. Step(p, "received", c, "in_received") /\ c.pc = "received"
      BY <1>6 DEF ListenReceivedWait, Step, At
    <2>2. Turned(c, Goto(c, "in_received"), c.state, "in_received")
      BY <1>1, TurnedLines
    <2>3. p = Server => Receiving(Goto(c, "in_received"), D)
      BY <1>1, <2>1, <2>2 DEF Turned, Line, Receiving, Serving, Listens, Ends, Done, PeerGone, Opening, Taking
    <2> QED
      BY <1>1, <2>1, <2>3, StepDelivers
  <1> QED
    BY <1>2, <1>3, <1>4, <1>5, <1>6 DEF Listen

LEMMA AttachDelivers ==
    ASSUME CInv, DInv, NEW p \in Peers, Attach(p)
    PROVE  DInv'
  <1> DEFINE c == conn[p]
             D == delivered[Server]
  <1>1. Whole(c) /\ Silent(c) /\ (p = Server => Receiving(c, D) /\ p # Client)
    BY DataFacts DEF DInv
  <1>2. PICK k \in {"open", "connect", "delete"} :
            /\ Step(p, "attach", c, k) /\ c.pc = "attach"
            /\ k = "open" => c.state = "ESTABLISHED"
            /\ k # "open" => c.state # "ESTABLISHED"
            /\ k = "connect" => p = Client
    BY DEF Attach, Step, At
  <1>3. Turned(c, Goto(c, k), c.state, k)
    BY <1>1, TurnedLines
  <1>4. p = Server => Receiving(Goto(c, k), D)
    BY <1>1, <1>2, <1>3 DEF Turned, Line, Receiving, Serving, Listens, Ends, Done, PeerGone, Opening, Taking
  <1> QED
    BY <1>1, <1>2, <1>4, StepDelivers

LEMMA DetachDelivers ==
    ASSUME CInv, DInv, NEW p \in Peers, Detach(p)
    PROVE  DInv'
  <1> DEFINE c == conn[p]
             D == delivered[Server]
             e == [c EXCEPT !.observer = FALSE, !.alarm = FALSE]
             d == Goto(e, "close")
  <1>1. Whole(c) /\ Silent(c) /\ (p = Server => Receiving(c, D))
    BY DataFacts DEF DInv
  <1>2. Step(p, "open", e, "close") /\ c.pc = "open"
    BY DEF Detach, Step, At
  <1>3. /\ Silent(e) /\ Whole(e) /\ e.streaming = c.streaming /\ e.observer = FALSE /\ e.state = c.state
        /\ e.unacknowledged = c.unacknowledged
    BY <1>1 DEF Silent, Whole, Names
  <1> HIDE DEF e
  <1>4. Turned(e, d, e.state, "close")
    BY <1>3, TurnedLines
  <1> HIDE DEF d
  <1>5. p = Server => Receiving(d, D)
    BY <1>1, <1>2, <1>3, <1>4 DEF Turned, Line, Receiving, Serving, Listens, Ends, Done, PeerGone, Opening, Taking
  <1> QED
    BY <1>2, <1>3, <1>5, StepDelivers DEF d

LEMMA CloseDelivers ==
    ASSUME CInv, DInv, NEW p \in Peers, Close(p), ~Detached(p)
    PROVE  DInv'
  <1> DEFINE c == conn[p]
             D == delivered[Server]
  <1>1. Whole(c) /\ Silent(c) /\ (p = Server => Receiving(c, D))
    BY DataFacts DEF DInv
  <1>2. CASE Destroy(p)
    <2> DEFINE e == [c EXCEPT !.alarm = FALSE]
    <2>1. Step(p, "delete", e, "close") /\ c.pc = "delete"
      BY <1>2 DEF Destroy, Step, At
    <2>2. Silent(e) /\ Turned(c, Goto(e, "close"), c.state, "close")
      BY <1>1, TurnedLines DEF Silent, Whole, Names
    <2> HIDE DEF e
    <2>3. p = Server => Receiving(Goto(e, "close"), D)
      BY <1>1, <2>1, <2>2 DEF Turned, Line, Receiving, Serving, Listens, Ends, Done, PeerGone, Opening, Taking
    <2> QED
      BY <2>1, <2>2, <2>3, StepDelivers
  <1>3. CASE CloseAtOnce(p)
    <2>1. Step(p, "close", Moved(c, "CLOSED"), "deleted") /\ c.pc = "close"
      BY <1>3 DEF CloseAtOnce, Step, At
    <2>2. Silent(Moved(c, "CLOSED")) /\ Turned(c, Goto(Moved(c, "CLOSED"), "deleted"), "CLOSED", "deleted")
      BY <1>1, Silents, TurnedLines
    <2>3. p = Server => Receiving(Goto(Moved(c, "CLOSED"), "deleted"), D)
      BY <1>1, <2>1, <2>2 DEF Turned, Line, Receiving, Serving, Listens, Ends, Done, PeerGone, Opening, Taking
    <2> QED
      BY <2>1, <2>2, <2>3, StepDelivers
  <1>4. CASE CloseTest(p)
    <2>1. PICK k \in {"to_fin_wait1", "to_last_ack", "fin"} :
              /\ Step(p, "close", c, k) /\ c.pc = "close"
              /\ k = "to_fin_wait1" => c.state \in {"ESTABLISHED", "SYN_RECEIVED"}
      BY <1>4 DEF CloseTest, Step, At
    <2>2. Turned(c, Goto(c, k), c.state, k)
      BY <1>1, TurnedLines
    <2>3. p = Server => Receiving(Goto(c, k), D)
      BY <1>1, <2>1, <2>2 DEF Turned, Line, Receiving, Serving, Listens, Ends, Done, PeerGone, Opening, Taking
    <2> QED
      BY <1>1, <2>1, <2>3, StepDelivers
  <1>5. CASE CloseState(p)
    <2>1. PICK l, S : /\ <<l, S>> \in {<<"to_fin_wait1", "FIN_WAIT1">>, <<"to_last_ack", "LAST_ACK">>}
                      /\ Step(p, l, Moved(c, S), "fin") /\ c.pc = l
      BY <1>5 DEF CloseState, Step, At
    <2>2. Silent(Moved(c, S)) /\ Turned(c, Goto(Moved(c, S), "fin"), S, "fin")
      BY <1>1, Silents, TurnedLines
    <2>3. p = Server => Receiving(Goto(Moved(c, S), "fin"), D)
      BY <1>1, <2>1, <2>2 DEF Turned, Line, Receiving, Serving, Listens, Ends, Done, PeerGone, Opening, Taking
    <2> QED
      BY <2>1, <2>2, <2>3, StepDelivers
  <1>6. CASE CloseSend(p)
    <2> DEFINE s == FSend(c, {"ACK", "FIN"})
    <2>1. Step(p, "fin", s, "sent_fin") /\ c.pc = "fin"
      BY <1>6 DEF CloseSend, Step, At
    <2>2. Silent(s) /\ Turned(c, Goto(s, "sent_fin"), c.state, "sent_fin")
      BY <1>1, SendSilent, TurnedLines
    <2> HIDE DEF s
    <2>3. p = Server => Receiving(Goto(s, "sent_fin"), D)
      BY <1>1, <2>1, <2>2 DEF Turned, Line, Receiving, Serving, Listens, Ends, Done, PeerGone, Opening, Taking
    <2> QED
      BY <2>1, <2>2, <2>3, StepDelivers
  <1>7. CASE CloseWaits(p)
    <2>1. Step(p, "sent_fin", Armed(c), "in_close") /\ c.pc = "sent_fin"
      BY <1>7 DEF CloseWaits, Step, At
    <2>2. Silent(Armed(c)) /\ Turned(c, Goto(Armed(c), "in_close"), c.state, "in_close")
      BY <1>1, Silents, TurnedLines
    <2>3. p = Server => Receiving(Goto(Armed(c), "in_close"), D)
      BY <1>1, <2>1, <2>2 DEF Turned, Line, Receiving, Serving, Listens, Ends, Done, PeerGone, Opening, Taking
    <2> QED
      BY <2>1, <2>2, <2>3, StepDelivers
  <1> QED
    BY <1>2, <1>3, <1>4, <1>5, <1>6, <1>7 DEF Close

LEMMA DetachedDelivers ==
    ASSUME CInv, DInv, NEW p \in Peers, Detached(p)
    PROVE  DInv'
  <1> DEFINE a == conn[p].acknowledgment
             d == [Connection(p) EXCEPT !.acknowledgment = a, !.bound = "none", !.pc = "gone"]
  <1>1. /\ conn' = [conn EXCEPT ![p] = d] /\ net' \subseteq net /\ delivered' = delivered
    BY DEF Detached
  <1>2. d.streaming = FALSE /\ d.valid = FALSE /\ d.pc = "gone" /\ d.state = "CLOSED"
    BY DEF Connection
  <1> HIDE DEF d
  <1>3. CASE p = Client
    BY <1>1, <1>3, ClientStep
  <1>4. CASE p = Server
    <2>1. conn'[Server] = d
      BY <1>1, <1>4 DEF CInv, Types
    <2>2. Receiving(d, delivered[Server])
      BY <1>2 DEF Receiving, Serving, Listens, Ends, Done, PeerGone, Opening, Taking
    <2> QED
      BY <1>1, <1>2, <2>1, <2>2 DEF DInv
  <1> QED
    BY <1>3, <1>4 DEF Peers

(* The client's data says that the server is synchronized.                 *)
LEMMA WriteSendDelivers ==
    ASSUME CInv, DInv, NEW p \in Peers, WriteSend(p)
    PROVE  DInv'
  <1> DEFINE c == conn[p]
             e == [c EXCEPT !.streaming = TRUE]
             data == [i \in 1 .. Payload(p) |-> Byte(strm[p].data + i)]
             s == DSend(e, data)
             d == Goto(s, "sent")
  <1>1. /\ c.pc = "write" /\ conn' = [conn EXCEPT ![p] = Stored(p, d)] /\ net' = Carried(net, Posted(p, d))
        /\ delivered' = delivered /\ c.state \in {"ESTABLISHED", "CLOSE_WAIT"}
    BY DEF WriteSend, Writing, Step, At, Become
  <1> HIDE DEF data
  <1>2. p = Client
    BY <1>1, DataFacts DEF Serving, Listens, Ends, Peers
  <1>3. Whole(c) /\ c.out = {} /\ c.acknowledgment > ServerISN
    <2>1. EndOK(p, c) /\ c.out = {}
      BY EndFacts
    <2>2. Synced(p, c)
      BY <1>1, <2>1 DEF EndOK, Apart
    <2> QED
      BY <1>2, <2>1, <2>2, DataFacts DEF Synced
  <1>4. Whole(e) /\ e.out = {} /\ e.acknowledgment = c.acknowledgment
    BY <1>3 DEF Whole, Names
  <1> HIDE DEF e
  <1>5. \A b \in s.out : b.flags = {"ACK"} /\ b.ack = c.acknowledgment
    BY <1>4 DEF DSend, Whole, Names
  <1>6. Whole(s)
    BY <1>4 DEF DSend, Whole, Names
  <1> HIDE DEF s
  <1>7. d.out = s.out
    BY <1>6 DEF Goto, Whole, Names
  <1> HIDE DEF d
  <1>8. \A m \in Posted(p, d) : m.to = Server /\ m.flags = {"ACK"} /\ m.ack = c.acknowledgment
    BY <1>2, <1>5, <1>7, DataFacts DEF Posted
  <1>9. \A m \in net' : m \in net \/ DataOK(m)
    BY <1>1, <1>3, <1>8, CarriedSome DEF DataOK
  <1> QED
    BY <1>1, <1>2, <1>9, ClientStep

LEMMA WriteDelivers ==
    ASSUME OneWay, CInv, DInv, NEW p \in Peers, Write(p)
    PROVE  DInv'
  <1> DEFINE c == conn[p]
  <1>1. Silent(c) /\ Whole(c)
    BY DataFacts
  <1>2. \A l \in {"write", "sent", "full", "in_stream", "resumed"} : l \notin Serving
    BY DEF Serving, Listens, Ends
  <1>3. CASE WriteCall(p)
    <2>1. Step(p, "open", c, "write") /\ p # Server
      BY <1>3, Constants DEF WriteCall, OneWay
    <2> QED
      BY <1>1, <2>1, StepDelivers
  <1>4. CASE WriteSent(p)
    <2>1. PICK v : Step(p, "sent", [c EXCEPT !.retransmiting = v], "write")
      BY <1>4, Zenon DEF WriteSent
    <2>2. Silent([c EXCEPT !.retransmiting = v])
      BY <1>1 DEF Silent, Whole, Names
    <2> QED
      BY <1>2, <2>1, <2>2, OtherDelivers
  <1>5. CASE WriteFull(p)
    <2>1. Step(p, "write", [c EXCEPT !.streaming = TRUE], "full")
      BY <1>5 DEF WriteFull
    <2>2. Silent([c EXCEPT !.streaming = TRUE])
      BY <1>1 DEF Silent, Whole, Names
    <2> QED
      BY <1>2, <2>1, <2>2, OtherDelivers
  <1>6. CASE WriteWait(p)
    <2>1. Step(p, "full", c, "in_stream")
      BY <1>6 DEF WriteWait
    <2> QED
      BY <1>1, <1>2, <2>1, OtherDelivers
  <1>7. CASE WriteResumed(p)
    <2> DEFINE e == [c EXCEPT !.retransmiting = TRUE, !.sequence = c.current, !.unacknowledged = c.current]
    <2>1. Silent(e)
      BY <1>1 DEF Silent, Whole, Names
    <2>2. Step(p, "resumed", c, "write") \/ Step(p, "resumed", e, "write")
      BY <1>7 DEF WriteResumed
    <2> HIDE DEF e
    <2> QED
      BY <1>1, <1>2, <2>1, <2>2, OtherDelivers
  <1>8. CASE WriteReturn(p)
    <2> DEFINE e == [c EXCEPT !.streaming = FALSE, !.retransmiting = FALSE]
    <2>1. Step(p, "write", e, "open")
      BY <1>8 DEF WriteReturn
    <2>2. Silent(e)
      BY <1>1 DEF Silent, Whole, Names
    <2> HIDE DEF e
    <2> QED
      BY <1>2, <2>1, <2>2, OtherDelivers
  <1> QED
    BY <1>3, <1>4, <1>5, <1>6, <1>7, <1>8, WriteSendDelivers DEF Write

LEMMA InitDelivers ==
    ASSUME Init
    PROVE  DInv
  <1>1. Server \in Peers /\ Client \in Peers /\ Client # Server
    BY Constants
  <1>2. conn[Server] = Connection(Server) /\ delivered[Server] = <<>> /\ delivered[Client] = <<>> /\ net = {}
    BY <1>1 DEF Init
  <1>3. /\ Connection(Server).pc = "listen" /\ Connection(Server).state = "CLOSED"
        /\ Connection(Server).streaming = FALSE /\ Connection(Server).valid = FALSE
    BY <1>1 DEF Connection
  <1>4. Receiving(conn[Server], delivered[Server])
    BY <1>2, <1>3 DEF Receiving, Serving, Listens, Ends, Done, PeerGone, Opening, Taking
  <1>5. Successive(delivered[Server])
    BY <1>2 DEF Successive
  <1>6. delivered \in [Peers -> Seq([seq : Nat, byte : Nat])]
    BY DEF Init
  <1> QED
    BY <1>2, <1>3, <1>4, <1>5, <1>6 DEF DInv

LEMMA NextDelivers ==
    ASSUME OneWay, CInv, DInv, [Next]_vars
    PROVE  DInv'
  <1>1. CASE Lose
    BY <1>1, LoseDelivers
  <1>2. ASSUME NEW p \in Peers, Thread(p)
        PROVE  DInv'
    BY <1>2, ConnectDelivers, ListenDelivers, AttachDelivers, WriteDelivers, DetachDelivers, CloseDelivers,
       DetachedDelivers DEF Thread
  <1>3. ASSUME NEW p \in Peers, Receive(p)
        PROVE  DInv'
    BY <1>3, ServerReceives, ClientReceives DEF Peers
  <1>4. ASSUME NEW p \in Peers, Timeout(p) \/ StreamTimeout(p)
        PROVE  DInv'
    BY <1>4, TimeoutDelivers
  <1>5. CASE UNCHANGED vars
    BY <1>5 DEF vars, DInv
  <1> QED
    BY <1>1, <1>2, <1>3, <1>4, <1>5 DEF Next

(* "this forces segments to be accepted in order" (update()): when one end *)
(* writes, the bytes the other's observer is notified of have consecutive  *)
(* sequence numbers, whatever the network loses, repeats or reorders and   *)
(* write() sends again.                                                    *)
THEOREM DeliveryIsInOrder == ASSUME OneWay PROVE Spec => []InOrder
  <1>1. DInv => InOrder
    <2>1. SUFFICES ASSUME DInv, NEW p \in Peers, NEW i \in 1 .. Len(delivered[p]) - 1
                   PROVE  delivered[p][i + 1].seq = delivered[p][i].seq + 1
      BY DEF InOrder
    <2>2. CASE p = Client
      <3>1. Len(delivered[p]) = 0
        BY <2>1, <2>2 DEF DInv
      <3> QED
        BY <2>1, <3>1
    <2>3. CASE p = Server
      BY <2>1, <2>3 DEF DInv, Successive
    <2> QED
      BY <2>1, <2>2, <2>3 DEF Peers
  <1>2. Spec => []CInv
    BY ConnectionInvariant
  <1> QED
    BY <1>1, <1>2, InitDelivers, NextDelivers, PTL DEF Spec

(* What update() may do to the client's connection c on the way to d: its  *)
(* sequence numbers stay or meet, and it sends nothing with a SYN.         *)
Calm(c, d) ==
    /\ Whole(d) /\ d.next = c.next /\ d.current = c.current /\ d.retransmiting = c.retransmiting /\ d.retransmiting \in BOOLEAN
    /\ d.streaming = c.streaming
    /\ d.sequence = c.sequence \/ (c.retransmiting = FALSE /\ d.sequence = c.next)
    /\ \A b \in d.out : b \in c.out \/ "SYN" \notin b.flags

LEMMA Calms ==
    ASSUME NEW c, NEW d, Calm(c, d)
    PROVE  /\ \A x : Calm(c, Moved(d, x))
           /\ Calm(c, Invalid(d)) /\ Calm(c, Armed(d)) /\ Calm(c, Forgiven(d)) /\ Calm(c, Signal(d)) /\ Calm(c, SignalStream(d))
           /\ \A a : Calm(c, [d EXCEPT !.acknowledgment = a])
           /\ \A v : Calm(c, [d EXCEPT !.valid = v])
           /\ \A u : Calm(c, [d EXCEPT !.unacknowledged = u])
  BY DEF Whole, Names, Calm, Moved, Invalid, Armed, Forgiven, Signal, SignalStream

LEMMA SendCalm ==
    ASSUME NEW c, NEW d, Calm(c, d), NEW flags, flags \in {{"ACK"}, {"RST"}}
    PROVE  Calm(c, FSend(d, flags))
  <1> DEFINE s == IF d.retransmiting THEN d.sequence ELSE d.next
             b == [flags |-> flags, seq |-> s, ack |-> d.acknowledgment, data |-> <<>>]
             e == [d EXCEPT !.sequence = s, !.next = d.next, !.out = d.out \cup {b}]
  <1>1. FSend(d, flags) = e
    <2>1. flags \cap {"SYN", "FIN"} = {}
      OBVIOUS
    <2> QED
      BY <2>1 DEF FSend
  <1>2. s = d.sequence \/ (d.retransmiting = FALSE /\ s = d.next)
    OBVIOUS
  <1>3. b.flags = flags /\ "SYN" \notin flags
    OBVIOUS
  <1> HIDE DEF s, b
  <1>4. /\ Whole(e) /\ e.next = d.next /\ e.current = d.current /\ e.retransmiting = d.retransmiting
        /\ e.streaming = d.streaming /\ e.sequence = s /\ e.out = d.out \cup {b}
    BY DEF Whole, Names, Calm
  <1> HIDE DEF e
  <1> QED
    BY <1>1, <1>2, <1>3, <1>4 DEF Calm

LEMMA TakenCalm ==
    ASSUME NEW c, NEW d, Calm(c, d), NEW m
    PROVE  Calm(c, ProcessFin(d, m)) /\ Calm(c, Acknowledge(d, m))
  <1>1. ASSUME NEW a
        PROVE  Calm(c, FSend([d EXCEPT !.acknowledgment = a], {"ACK"}))
    <2> DEFINE e == [d EXCEPT !.acknowledgment = a]
    <2>1. Calm(c, e)
      BY Calms
    <2> HIDE DEF e
    <2>2. Calm(c, FSend(e, {"ACK"}))
      BY <2>1, SendCalm
    <2> QED
      BY <2>2 DEF e
  <1> QED
    BY <1>1, Zenon DEF ProcessFin, Acknowledge

LEMMA HandlersCalm ==
    ASSUME NEW c, NEW d, Calm(c, d), NEW m
    PROVE  /\ Calm(c, SynReceived(d, m))
           /\ Calm(c, Established(d, m)) /\ Calm(c, FinWait1(d, m)) /\ Calm(c, FinWait2(d, m))
           /\ Calm(c, CloseWait(d, m)) /\ Calm(c, Closing(d, m)) /\ Calm(c, LastAck(d, m)) /\ Calm(c, TimeWait(d, m))
  <1>1. Calm(c, SynReceived(d, m))
    BY Calms, SendCalm, TakenCalm DEF SynReceived
  <1>2. Calm(c, Established(d, m))
    BY Calms, TakenCalm DEF Established
  <1>3. Calm(c, FinWait1(d, m))
    BY Calms, TakenCalm DEF FinWait1
  <1>4. Calm(c, FinWait2(d, m))
    BY Calms, TakenCalm DEF FinWait2
  <1>5. Calm(c, CloseWait(d, m))
    BY Calms, TakenCalm DEF CloseWait
  <1>6. Calm(c, Closing(d, m)) /\ Calm(c, LastAck(d, m)) /\ Calm(c, TimeWait(d, m))
    BY Calms, TakenCalm DEF Closing, LastAck, TimeWait
  <1> QED
    BY <1>1, <1>2, <1>3, <1>4, <1>5, <1>6
LEMMA ListeningCalm ==
    ASSUME NEW c, NEW d, Calm(c, d), NEW m
    PROVE  Calm(c, Listening(d, m))
  BY Calms, SendCalm DEF Listening

(* A segment with a SYN is a SYN by itself, or one with an ACK.            *)
Greeting(m) == "SYN" \in m.flags => m.flags \in {{"SYN"}, {"SYN", "ACK"}}

(* syn_sent() opens the connection by an answer to its SYN only, and says  *)
(* so with its next number.                                                *)
LEMMA SynSentCalm ==
    ASSUME NEW c, NEW d, Calm(c, d), NEW m, Greeting(m), m.flags # {"SYN"}
    PROVE  LET e == SynSent(d, m)
           IN  /\ Calm(c, e)
               /\ \/ e.state \in {d.state, "CLOSED"}
                  \/ /\ c.retransmiting = FALSE => e.sequence = c.next
                     /\ m.ack > d.initial /\ m.ack \in d.unacknowledged .. d.next
  <1> DEFINE synced == [d EXCEPT !.acknowledgment = m.seq + 1]
             acked == [synced EXCEPT !.unacknowledged = m.ack]
             good == m.ack > d.initial /\ m.ack \in d.unacknowledged .. d.next
             kind == m.flags \cap {"ACK", "RST", "SYN"}
             s == FSend(acked, {"ACK"})
             x == Moved(s, "ESTABLISHED")
             f == Forgiven(x)
             e == SynSent(d, m)
             r == FSend(Invalid(d), {"RST"})
             q == Moved(Invalid(d), "CLOSED")
  <1>1. kind # {"SYN"}
    <2>1. CASE "SYN" \in m.flags
      BY <2>1 DEF Greeting
    <2>2. CASE "SYN" \notin m.flags
      BY <2>2
    <2> QED
      BY <2>1, <2>2
  <1>2. \/ e \in {r, q, d, Moved(d, "CLOSED")}
        \/ e = Signal(f) /\ good
    BY <1>1 DEF SynSent
  <1> HIDE DEF kind, good, e
  <1>3. Whole(d)
    BY DEF Calm
  <1>4. Calm(c, synced)
    BY Calms
  <1>5. Calm(c, acked)
    BY <1>4, Calms
  <1>6. Calm(c, s)
    <2> HIDE DEF acked
    <2> QED
      BY <1>5, SendCalm
  <1>7. c.retransmiting = FALSE => s.sequence = c.next
    <2>1. Whole(acked) /\ acked.next = c.next /\ acked.retransmiting = c.retransmiting
      BY <1>5 DEF Calm
    <2> HIDE DEF acked
    <2>2. s.sequence = IF acked.retransmiting THEN acked.sequence ELSE acked.next
      BY <2>1 DEF FSend, Whole, Names
    <2> QED
      BY <2>1, <2>2
  <1> HIDE DEF s
  <1>8. Calm(c, x) /\ x.sequence = s.sequence
    BY <1>6, Calms DEF Moved, Calm, Whole, Names
  <1> HIDE DEF x
  <1>9. Calm(c, f) /\ f.sequence = x.sequence
    BY <1>8, Calms DEF Forgiven, Calm, Whole, Names
  <1> HIDE DEF f
  <1>10. Calm(c, Signal(f)) /\ Signal(f).sequence = f.sequence
    BY <1>9, Calms DEF Signal, Calm, Whole, Names
  <1>11. Calm(c, Invalid(d)) /\ Invalid(d).state = d.state /\ Whole(Invalid(d))
    BY <1>3, Calms DEF Invalid, Whole, Names
  <1>12. Calm(c, r) /\ r.state = d.state
    BY <1>11, SendCalm, SendLine DEF Line
  <1>13. Calm(c, q) /\ q.state = "CLOSED"
    <2> DEFINE i == Invalid(d)
    <2> HIDE DEF i
    <2>1. Calm(c, i) /\ Whole(i)
      BY <1>11 DEF i
    <2>2. Calm(c, Moved(i, "CLOSED"))
      BY <2>1, Calms
    <2>3. Moved(i, "CLOSED").state = "CLOSED"
      BY <2>1 DEF Moved, Whole, Names
    <2> QED
      BY <2>2, <2>3 DEF i
  <1>14. Calm(c, Moved(d, "CLOSED")) /\ Moved(d, "CLOSED").state = "CLOSED"
    <2>1. Calm(c, Moved(d, "CLOSED"))
      BY Calms
    <2>2. Moved(d, "CLOSED").state = "CLOSED"
      BY <1>3 DEF Moved, Whole, Names
    <2> QED
      BY <2>1, <2>2
  <1> HIDE DEF r, q
  <1>15. CASE e = Signal(f) /\ good
    BY <1>7, <1>8, <1>9, <1>10, <1>15 DEF e, good
  <1>16. CASE e \in {r, q, d, Moved(d, "CLOSED")}
    BY <1>12, <1>13, <1>14, <1>16 DEF e
  <1> QED
    BY <1>2, <1>15, <1>16

(* The state's handler, and what comes before it                           *)
LEMMA HandlerCalm ==
    ASSUME NEW c, NEW sl, Calm(c, sl), sl.state \in State, NEW m, Greeting(m),
           sl.state = "SYN_SENT" => m.flags # {"SYN"}
    PROVE  LET a == Handler(sl, m)
           IN  /\ Calm(c, a)
               /\ sl.state = "SYN_SENT" =>
                    \/ a.state \in {"SYN_SENT", "CLOSED"}
                    \/ /\ c.retransmiting = FALSE => a.sequence = c.next
                       /\ m.ack > sl.initial /\ m.ack \in sl.unacknowledged .. sl.next
               /\ sl.state = "CLOSED" => a = sl
  <1> DEFINE v == [sl EXCEPT !.valid = CheckSequence(sl, m)]
             i == Invalid(v)
             a == Handler(sl, m)
             Refusals == {v, FSend(v, {"ACK"}), Moved(v, "CLOSED"), Moved(i, "CLOSED"),
                          Moved(FSend(v, {"RST"}), "CLOSED"), Moved(FSend(i, {"RST"}), "CLOSED")}
             Handlings == {Listening(sl, m), SynReceived(v, m), Established(v, m), FinWait1(v, m),
                           FinWait2(v, m), CloseWait(v, m), Closing(v, m), LastAck(v, m), TimeWait(v, m), sl}
  <1>1. Calm(c, v)
    BY Calms
  <1> HIDE DEF v
  <1>2. Calm(c, i)
    BY <1>1, Calms
  <1> HIDE DEF i
  <1>3. /\ Calm(c, FSend(v, {"ACK"})) /\ Calm(c, FSend(v, {"RST"})) /\ Calm(c, FSend(i, {"RST"}))
        /\ Calm(c, Moved(v, "CLOSED")) /\ Calm(c, Moved(i, "CLOSED"))
    BY <1>1, <1>2, Calms, SendCalm
  <1>4. Calm(c, Moved(FSend(v, {"RST"}), "CLOSED")) /\ Calm(c, Moved(FSend(i, {"RST"}), "CLOSED"))
    BY <1>3, Calms
  <1>5. \A d \in Refusals : Calm(c, d)
    BY <1>1, <1>3, <1>4
  <1>6. \A d \in Handlings : Calm(c, d)
    BY <1>1, HandlersCalm, ListeningCalm
  <1>7. sl.state # "SYN_SENT" => a \in Refusals \cup Handlings
    <2>1. sl.state = "SYN_RECEIVED" => a \in Refusals \cup {SynReceived(v, m)}
      BY Zenon DEF Handler, Checked, v, i
    <2>2. sl.state = "ESTABLISHED" => a \in Refusals \cup {Established(v, m)}
      BY Zenon DEF Handler, Checked, v, i
    <2>3. sl.state = "FIN_WAIT1" => a \in Refusals \cup {FinWait1(v, m)}
      BY Zenon DEF Handler, Checked, v, i
    <2>4. sl.state = "FIN_WAIT2" => a \in Refusals \cup {FinWait2(v, m)}
      BY Zenon DEF Handler, Checked, v, i
    <2>5. sl.state = "CLOSE_WAIT" => a \in Refusals \cup {CloseWait(v, m)}
      BY Zenon DEF Handler, Checked, v, i
    <2>6. sl.state = "CLOSING" => a \in Refusals \cup {Closing(v, m)}
      BY Zenon DEF Handler, Checked, v, i
    <2>7. sl.state = "LAST_ACK" => a \in Refusals \cup {LastAck(v, m)}
      BY Zenon DEF Handler, Checked, v, i
    <2>8. sl.state = "TIME_WAIT" => a \in Refusals \cup {TimeWait(v, m)}
      BY Zenon DEF Handler, Checked, v, i
    <2>9. sl.state \in {"LISTENING", "CLOSED"} => a \in {Listening(sl, m), sl}
      BY DEF Handler
    <2> HIDE DEF a
    <2> QED
      BY <2>1, <2>2, <2>3, <2>4, <2>5, <2>6, <2>7, <2>8, <2>9 DEF State
  <1>8. sl.state = "SYN_SENT" => a = SynSent(sl, m)
    BY DEF Handler
  <1>9. sl.state = "CLOSED" => a = sl
    BY DEF Handler
  <1> HIDE DEF a, Refusals, Handlings
  <1>10. CASE sl.state = "SYN_SENT"
    <2> DEFINE e == SynSent(sl, m)
    <2>1. /\ Calm(c, e)
          /\ \/ e.state \in {sl.state, "CLOSED"}
             \/ /\ c.retransmiting = FALSE => e.sequence = c.next
                /\ m.ack > sl.initial /\ m.ack \in sl.unacknowledged .. sl.next
      BY <1>10, SynSentCalm
    <2> HIDE DEF e
    <2>2. a = e
      BY <1>8, <1>10 DEF e
    <2> QED
      BY <1>10, <2>1, <2>2 DEF a
  <1>11. CASE sl.state # "SYN_SENT"
    BY <1>5, <1>6, <1>7, <1>9, <1>11 DEF a
  <1> QED
    BY <1>10, <1>11

(* update()                                                                *)
LEMMA UpdateCalm ==
    ASSUME NEW c, Whole(c), c.state \in State, c.retransmiting \in BOOLEAN, NEW m, Greeting(m),
           c.state = "SYN_SENT" => m.flags # {"SYN"}
    PROVE  LET d == Update(c, m)
           IN  /\ Whole(d) /\ d.next = c.next /\ d.current = m.ack /\ d.retransmiting = c.retransmiting
               /\ d.streaming = c.streaming
               /\ c.streaming = FALSE /\ c.retransmiting = FALSE => d.sequence \in {c.sequence, c.next}
               /\ \A b \in d.out : b \in c.out \/ "SYN" \notin b.flags
               /\ c.state = "CLOSED" => d.state = "CLOSED"
               /\ c.state = "SYN_SENT" /\ c.streaming = FALSE /\ c.retransmiting = FALSE =>
                    \/ d.state \in {"SYN_SENT", "CLOSED"}
                    \/ d.sequence = c.next /\ m.ack > c.initial /\ m.ack \in c.unacknowledged .. c.next
  <1> DEFINE cur == Current(c, m)
             sl  == Slide(cur, m)
             a   == Handler(sl, m)
             s   == FSend(cur, {"RST"})
             x   == Moved(s, "CLOSED")
             d   == Update(c, m)
  <1>1. d \in {cur, x, a, SignalStream(a)}
    BY DEF Update
  <1>2. /\ Whole(cur) /\ cur.next = c.next /\ cur.current = m.ack /\ cur.retransmiting = c.retransmiting
        /\ cur.streaming = c.streaming /\ cur.sequence = c.sequence /\ cur.out = c.out /\ cur.state = c.state
        /\ cur.initial = c.initial /\ cur.unacknowledged = c.unacknowledged
    BY DEF Whole, Names, Current
  <1> HIDE DEF cur
  <1>3. /\ Whole(sl) /\ sl.next = c.next /\ sl.current = m.ack /\ sl.retransmiting = c.retransmiting
        /\ sl.streaming = c.streaming /\ sl.out = c.out /\ sl.state = c.state /\ sl.initial = c.initial
        /\ c.streaming = FALSE => sl = cur
    BY <1>2 DEF Whole, Names, Slide
  <1> HIDE DEF sl
  <1>4. Calm(sl, sl) /\ Calm(cur, cur)
    BY <1>2, <1>3 DEF Calm
  <1>5. /\ Calm(sl, a)
        /\ sl.state = "SYN_SENT" =>
             \/ a.state \in {"SYN_SENT", "CLOSED"}
             \/ /\ sl.retransmiting = FALSE => a.sequence = sl.next
                /\ m.ack > sl.initial /\ m.ack \in sl.unacknowledged .. sl.next
        /\ sl.state = "CLOSED" => a = sl
    BY <1>3, <1>4, HandlerCalm
  <1> HIDE DEF a
  <1>6. Calm(sl, SignalStream(a)) /\ SignalStream(a).state = a.state /\ SignalStream(a).sequence = a.sequence
    BY <1>5, Calms DEF SignalStream, Calm, Whole, Names
  <1>7. Calm(cur, s)
    BY <1>4, SendCalm
  <1> HIDE DEF s
  <1>8. Calm(cur, x) /\ x.state = "CLOSED"
    BY <1>7, Calms DEF Moved, Calm, Whole, Names
  <1> HIDE DEF x, d
  <1>9. CASE d \in {cur, x}
    BY <1>2, <1>4, <1>8, <1>9 DEF Calm, d
  <1>10. CASE d \in {a, SignalStream(a)}
    <2>1. Calm(sl, d) /\ d.state = a.state /\ d.sequence = a.sequence
      BY <1>5, <1>6, <1>10
    <2> QED
      BY <1>2, <1>3, <1>5, <2>1 DEF Calm, d
  <1> QED
    BY <1>1, <1>9, <1>10

(* No acknowledgment sent is ahead of the connection's.                    *)
Plain(a, d) ==
    /\ Whole(d) /\ d.acknowledgment = a /\ a \in Nat
    /\ \A b \in d.out : b.ack \in Nat /\ b.ack <= a

(* Nor does the connection's advance, but by the bytes it takes or a FIN.  *)
Said(a, m, takes, d) ==
    /\ Plain(d.acknowledgment, d)
    /\ \/ d.acknowledgment = a
       \/ takes /\ d.valid = TRUE /\ d.acknowledgment = a + Len(m.data)
       \/ "FIN" \in m.flags /\ d.acknowledgment = a + 1

LEMMA Plains ==
    ASSUME NEW a, NEW d, Plain(a, d)
    PROVE  /\ \A x : Plain(a, Moved(d, x))
           /\ Plain(a, Invalid(d)) /\ Plain(a, Armed(d)) /\ Plain(a, Forgiven(d)) /\ Plain(a, Signal(d))
           /\ Plain(a, SignalStream(d))
           /\ \A v : Plain(a, [d EXCEPT !.valid = v])
           /\ \A u : Plain(a, [d EXCEPT !.unacknowledged = u])
           /\ \A k : Plain(a, Goto(d, k))
           /\ \A k \in Nat : k >= a => Plain(k, [d EXCEPT !.acknowledgment = k])
  <1>1. /\ \A x : Plain(a, Moved(d, x))
        /\ Plain(a, Invalid(d)) /\ Plain(a, Armed(d)) /\ Plain(a, Forgiven(d)) /\ Plain(a, Signal(d))
        /\ Plain(a, SignalStream(d))
        /\ \A v : Plain(a, [d EXCEPT !.valid = v])
        /\ \A u : Plain(a, [d EXCEPT !.unacknowledged = u])
        /\ \A k : Plain(a, Goto(d, k))
    BY DEF Whole, Names, Plain, Moved, Invalid, Armed, Forgiven, Signal, SignalStream, Goto
  <1>2. ASSUME NEW k \in Nat, k >= a PROVE Plain(k, [d EXCEPT !.acknowledgment = k])
    <2>1. a \in Nat
      BY DEF Plain
    <2> DEFINE e == [d EXCEPT !.acknowledgment = k]
    <2>2. Whole(e) /\ e.acknowledgment = k /\ e.out = d.out
      BY DEF Plain, Whole, Names
    <2> HIDE DEF e
    <2>3. Plain(k, e)
      BY <1>2, <2>1, <2>2 DEF Plain
    <2> QED
      BY <2>3 DEF e
  <1> QED
    BY <1>1, <1>2

LEMMA SendPlain ==
    ASSUME NEW a, NEW d, Plain(a, d), NEW flags
    PROVE  Plain(a, FSend(d, flags)) /\ FSend(d, flags).valid = d.valid
  <1> DEFINE s == IF d.retransmiting THEN d.sequence ELSE d.next
             n == IF flags \cap {"SYN", "FIN"} # {} THEN d.next + 1 ELSE d.next
             b == [flags |-> flags, seq |-> s, ack |-> d.acknowledgment, data |-> <<>>]
             e == [d EXCEPT !.sequence = s, !.next = n, !.out = d.out \cup {b}]
  <1>1. FSend(d, flags) = e
    BY DEF FSend
  <1>2. b.ack = a
    BY DEF Plain
  <1> HIDE DEF s, b, n
  <1>3. Whole(e) /\ e.acknowledgment = d.acknowledgment /\ e.out = d.out \cup {b} /\ e.valid = d.valid
    BY DEF Whole, Names, Plain
  <1> HIDE DEF e
  <1> QED
    BY <1>1, <1>2, <1>3 DEF Plain

LEMMA Saids ==
    ASSUME NEW a, NEW m, NEW takes, NEW d, Said(a, m, takes, d)
    PROVE  /\ \A x : Said(a, m, takes, Moved(d, x))
           /\ Said(a, m, takes, Armed(d)) /\ Said(a, m, takes, Forgiven(d)) /\ Said(a, m, takes, Signal(d))
           /\ Said(a, m, takes, SignalStream(d))
           /\ \A flags : Said(a, m, takes, FSend(d, flags))
  <1> DEFINE k == d.acknowledgment
  <1>0. Plain(k, d) /\ Whole(d)
    BY DEF Said, Plain
  <1>1. ASSUME NEW e, Plain(k, e), e.valid = d.valid
        PROVE  Said(a, m, takes, e)
    BY <1>1 DEF Said, Plain
  <1> HIDE DEF k
  <1>2. /\ \A x : Moved(d, x).valid = d.valid
        /\ Armed(d).valid = d.valid /\ Forgiven(d).valid = d.valid /\ Signal(d).valid = d.valid
        /\ SignalStream(d).valid = d.valid
    BY <1>0 DEF Moved, Armed, Forgiven, Signal, SignalStream, Whole, Names
  <1>3. \A flags : Plain(k, FSend(d, flags)) /\ FSend(d, flags).valid = d.valid
    BY <1>0, SendPlain
  <1>4. /\ \A x : Plain(k, Moved(d, x))
        /\ Plain(k, Armed(d)) /\ Plain(k, Forgiven(d)) /\ Plain(k, Signal(d)) /\ Plain(k, SignalStream(d))
    BY <1>0, Plains
  <1> QED
    BY <1>1, <1>2, <1>3, <1>4

LEMMA PlainSaid ==
    ASSUME NEW a, NEW d, Plain(a, d), NEW m, NEW takes
    PROVE  Said(a, m, takes, d)
  BY DEF Said, Plain

(* A segment that is the next one, and the valid connection it is for      *)
Meeting(a, m, v) ==
    /\ Plain(a, v) /\ v.valid = TRUE /\ m.seq = a /\ m.data \in Seq(Nat)
    /\ m.data # <<>> => m.flags = {"ACK"}

LEMMA TakenSaid ==
    ASSUME NEW a, NEW m, NEW v, Meeting(a, m, v), NEW takes
    PROVE  /\ takes = TRUE => Said(a, m, takes, Acknowledge(v, m))
           /\ "FIN" \in m.flags => Said(a, m, takes, ProcessFin(v, m)) /\ Acknowledge(v, m) = v
  <1>0. a \in Nat /\ Len(m.data) \in Nat /\ Plain(a, v) /\ v.acknowledgment = a
    BY DEF Meeting, Plain
  <1>1. ASSUME NEW k \in Nat, k >= a
        PROVE  LET e == FSend([v EXCEPT !.acknowledgment = k], {"ACK"})
               IN  Plain(k, e) /\ e.valid = TRUE /\ e.acknowledgment = k
    <2> DEFINE x == [v EXCEPT !.acknowledgment = k]
    <2>1. Plain(k, x)
      BY <1>0, <1>1, Plains
    <2>2. x.valid = TRUE
      BY <1>0 DEF Meeting, Plain, Whole, Names
    <2> HIDE DEF x
    <2>3. Plain(k, FSend(x, {"ACK"})) /\ FSend(x, {"ACK"}).valid = TRUE
      BY <2>1, <2>2, SendPlain
    <2> QED
      BY <2>3 DEF Plain, x
  <1>2. ASSUME takes = TRUE PROVE Said(a, m, takes, Acknowledge(v, m))
    <2>1. CASE m.data = <<>>
      <3>1. Acknowledge(v, m) = v
        BY <2>1 DEF Acknowledge
      <3> QED
        BY <1>0, <3>1, PlainSaid
    <2>2. CASE m.data # <<>>
      <3> DEFINE k == a + Len(m.data)
                 e == FSend([v EXCEPT !.acknowledgment = k], {"ACK"})
      <3>1. k \in Nat /\ k >= a /\ k = a + Len(m.data)
        BY <1>0
      <3>2. Acknowledge(v, m) = e
        BY <1>0, <2>2 DEF Acknowledge
      <3> HIDE DEF k
      <3>3. Plain(k, e) /\ e.valid = TRUE /\ e.acknowledgment = k
        BY <1>1, <3>1
      <3> HIDE DEF e
      <3> QED
        BY <1>2, <3>1, <3>2, <3>3 DEF Said
    <2> QED
      BY <2>1, <2>2
  <1>3. ASSUME "FIN" \in m.flags
        PROVE  Said(a, m, takes, ProcessFin(v, m)) /\ Acknowledge(v, m) = v
    <2>1. m.data = <<>>
      BY <1>3 DEF Meeting
    <2> DEFINE k == a + 1
               e == FSend([v EXCEPT !.acknowledgment = k], {"ACK"})
    <2>2. k \in Nat /\ k >= a /\ k = a + 1
      BY <1>0
    <2>3. ProcessFin(v, m) = e
      BY DEF ProcessFin, Meeting
    <2> HIDE DEF k
    <2>4. Plain(k, e) /\ e.acknowledgment = k
      BY <1>1, <2>2
    <2> HIDE DEF e
    <2>5. Said(a, m, takes, ProcessFin(v, m))
      BY <1>3, <2>2, <2>3, <2>4 DEF Said
    <2> QED
      BY <2>1, <2>5 DEF Acknowledge
  <1> QED
    BY <1>2, <1>3

LEMMA HandlersSaid ==
    ASSUME NEW a, NEW m, NEW v, Meeting(a, m, v), NEW takes
    PROVE  /\ takes = TRUE => /\ Said(a, m, takes, SynReceived(v, m)) /\ Said(a, m, takes, Established(v, m))
                              /\ Said(a, m, takes, FinWait1(v, m)) /\ Said(a, m, takes, FinWait2(v, m))
           /\ Said(a, m, takes, CloseWait(v, m)) /\ Said(a, m, takes, Closing(v, m))
           /\ Said(a, m, takes, LastAck(v, m)) /\ Said(a, m, takes, TimeWait(v, m))
  <1>0. Plain(a, v) /\ Said(a, m, takes, v)
    BY PlainSaid DEF Meeting
  <1> DEFINE t == Acknowledge(v, m)
             p == ProcessFin(v, m)
             fin == "FIN" \in m.flags
  <1>1. (takes = TRUE => Said(a, m, takes, t)) /\ (fin => Said(a, m, takes, p) /\ ProcessFin(t, m) = p)
    BY TakenSaid
  <1>2. ASSUME takes = TRUE PROVE Said(a, m, takes, SynReceived(v, m))
    <2> DEFINE f == Forgiven(Moved(v, "ESTABLISHED"))
               r == Moved(FSend(Invalid(v), {"RST"}), "CLOSED")
    <2>1. Plain(a, Moved(v, "ESTABLISHED")) /\ Moved(v, "ESTABLISHED").valid = TRUE
      BY <1>0, Plains DEF Meeting, Moved, Plain, Whole, Names
    <2>2. Plain(a, f) /\ f.valid = TRUE
      <3> DEFINE x == Moved(v, "ESTABLISHED")
      <3>1. Plain(a, x) /\ x.valid = TRUE
        BY <2>1
      <3> HIDE DEF x
      <3>2. Plain(a, Forgiven(x)) /\ Forgiven(x).valid = TRUE
        BY <3>1, Plains DEF Forgiven, Plain, Whole, Names
      <3> QED
        BY <3>2 DEF x
    <2> HIDE DEF f
    <2>3. Meeting(a, m, f)
      BY <2>2 DEF Meeting
    <2>4. Said(a, m, takes, Acknowledge(f, m))
      BY <1>2, <2>3, TakenSaid
    <2>5. Said(a, m, takes, Signal(Acknowledge(f, m)))
      BY <2>4, Saids
    <2>6. Plain(a, Invalid(v))
      BY <1>0, Plains
    <2>7. Plain(a, FSend(Invalid(v), {"RST"}))
      BY <2>6, SendPlain
    <2>8. Said(a, m, takes, r)
      BY <2>7, Plains, PlainSaid
    <2> HIDE DEF r
    <2>9. fin => Said(a, m, takes, Moved(p, "CLOSE_WAIT"))
      BY <1>1, Saids
    <2>10. \/ SynReceived(v, m) \in {v, Signal(Acknowledge(f, m)), r}
           \/ fin /\ SynReceived(v, m) = Moved(p, "CLOSE_WAIT")
      BY DEF SynReceived, f, r
    <2> QED
      BY <1>0, <2>5, <2>8, <2>9, <2>10
  <1> HIDE DEF t, p
  <1>3. ASSUME takes = TRUE
        PROVE  /\ Said(a, m, takes, Established(v, m)) /\ Said(a, m, takes, FinWait1(v, m))
               /\ Said(a, m, takes, FinWait2(v, m))
    <2>1. \/ Established(v, m) \in {v, t}
          \/ fin /\ Established(v, m) = Moved(p, "CLOSE_WAIT")
      BY <1>1 DEF Established, t
    <2>2. \/ FinWait1(v, m) \in {v, t, Moved(t, "FIN_WAIT2")}
          \/ fin /\ FinWait1(v, m) \in {Armed(Moved(p, "TIME_WAIT")), Moved(p, "CLOSING")}
      BY <1>1 DEF FinWait1, t
    <2>3. \/ FinWait2(v, m) \in {v, t}
          \/ fin /\ FinWait2(v, m) = Armed(Moved(p, "TIME_WAIT"))
      BY <1>1 DEF FinWait2, t
    <2>4. Said(a, m, takes, v) /\ Said(a, m, takes, t) /\ Said(a, m, takes, Moved(t, "FIN_WAIT2"))
      BY <1>0, <1>1, <1>3, Saids
    <2>5. fin => \A x : Said(a, m, takes, Moved(p, x)) /\ Said(a, m, takes, Armed(Moved(p, x)))
      BY <1>1, Saids
    <2> QED
      BY <2>1, <2>2, <2>3, <2>4, <2>5
  <1>4. Said(a, m, takes, CloseWait(v, m))
    <2> DEFINE u == [v EXCEPT !.unacknowledged = m.ack]
    <2>1. Plain(a, u) /\ u.valid = TRUE
      BY <1>0, Plains DEF Meeting, Plain, Whole, Names
    <2>2. CloseWait(v, m) \in {v, u} \/ (fin /\ CloseWait(v, m) = ProcessFin(u, m))
      BY DEF CloseWait
    <2> HIDE DEF u
    <2>3. Meeting(a, m, u)
      BY <2>1 DEF Meeting
    <2>4. Said(a, m, takes, u) /\ (fin => Said(a, m, takes, ProcessFin(u, m)))
      BY <2>1, <2>3, TakenSaid, PlainSaid
    <2> QED
      BY <1>0, <2>2, <2>4
  <1>5. Said(a, m, takes, Closing(v, m)) /\ Said(a, m, takes, LastAck(v, m))
    BY <1>0, Saids DEF Closing, LastAck
  <1>6. Said(a, m, takes, TimeWait(v, m))
    BY <1>0, <1>1, Saids DEF TimeWait, p
  <1> QED
    BY <1>2, <1>3, <1>4, <1>5, <1>6

(* A listener is synchronized by a SYN.                                    *)
LEMMA ListeningSaid ==
    ASSUME NEW a, NEW c, Plain(a, c), c.out = {}, NEW m, m.seq \in Nat
    PROVE  LET d == Listening(c, m)
           IN  Plain(a, d) \/ (m.flags = {"SYN"} /\ d.acknowledgment = m.seq + 1 /\ Plain(m.seq + 1, d))
  <1> DEFINE i == Invalid(c)
             r == FSend(i, {"RST"})
             x == [c EXCEPT !.acknowledgment = m.seq + 1]
             d == Signal(x)
  <1>1. Listening(c, m) \in {i, r, c} \/ (m.flags = {"SYN"} /\ Listening(c, m) = d)
    BY DEF Listening
  <1>2. Plain(a, i)
    BY Plains
  <1> HIDE DEF i
  <1>3. Plain(a, r)
    BY <1>2, SendPlain
  <1>4. Plain(m.seq + 1, x)
    <2>1. m.seq + 1 \in Nat
      OBVIOUS
    <2> DEFINE k == m.seq + 1
    <2> HIDE DEF k
    <2>2. Whole(x) /\ x.acknowledgment = k /\ x.out = {}
      BY DEF Plain, Whole, Names, k
    <2> HIDE DEF x
    <2>3. Plain(k, x)
      BY <2>1, <2>2 DEF Plain, k
    <2> QED
      BY <2>3 DEF k
  <1> HIDE DEF x, r
  <1>5. Plain(m.seq + 1, d)
    BY <1>4, Plains
  <1> HIDE DEF d
  <1>6. d.acknowledgment = m.seq + 1
    BY <1>5 DEF Plain
  <1> QED
    BY <1>1, <1>2, <1>3, <1>5, <1>6

LEMMA HandlerSaid ==
    ASSUME NEW a, NEW c, Plain(a, c), c.out = {}, c.state \in State \ {"SYN_SENT"}, NEW m, Numbers(c, m),
           m.seq <= a \/ c.state = "LISTENING", m.data # <<>> => m.flags = {"ACK"}
    PROVE  LET d == Handler(c, m)
           IN  \/ Said(a, m, c.state \in Taking, d) /\ (c.state \in {"LISTENING", "CLOSED"} => Plain(a, d))
               \/ /\ c.state = "LISTENING" /\ m.flags = {"SYN"}
                  /\ d.acknowledgment = m.seq + 1 /\ Plain(m.seq + 1, d)
  <1> DEFINE ok == CheckSequence(c, m)
             v == [c EXCEPT !.valid = ok]
             i == Invalid(v)
             d == Handler(c, m)
             Refusals == {c, v, FSend(v, {"ACK"}), Moved(v, "CLOSED"), Moved(i, "CLOSED"),
                          Moved(FSend(v, {"RST"}), "CLOSED"), Moved(FSend(i, {"RST"}), "CLOSED")}
             takes == c.state \in Taking
  <1>0. takes \in BOOLEAN /\ ok \in BOOLEAN /\ c.acknowledgment = a /\ m.seq \in Nat /\ m.data \in Seq(Nat)
    <2>1. ok \in BOOLEAN
      BY Zenon DEF CheckSequence, InWindow
    <2>2. c.acknowledgment = a /\ m.seq \in Nat /\ m.data \in Seq(Nat)
      BY DEF Plain, Numbers
    <2> QED
      BY <2>1, <2>2
  <1>1. Plain(a, v) /\ v.valid = ok
    <2> HIDE DEF ok
    <2> QED
      BY Plains DEF Plain, Whole, Names
  <1>2. ok /\ c.state # "LISTENING" => Meeting(a, m, v)
    <2>1. ok /\ c.state # "LISTENING" => m.seq = a
      BY <1>0, CheckedIsNext
    <2> HIDE DEF ok, v
    <2> QED
      BY <1>0, <1>1, <2>1 DEF Meeting
  <1>3. /\ c.state = "SYN_RECEIVED" => d \in Refusals \/ (ok /\ d = SynReceived(v, m))
        /\ c.state = "ESTABLISHED" => d \in Refusals \/ (ok /\ d = Established(v, m))
        /\ c.state = "FIN_WAIT1" => d \in Refusals \/ (ok /\ d = FinWait1(v, m))
        /\ c.state = "FIN_WAIT2" => d \in Refusals \/ (ok /\ d = FinWait2(v, m))
        /\ c.state = "CLOSE_WAIT" => d \in Refusals \/ (ok /\ d = CloseWait(v, m))
        /\ c.state = "CLOSING" => d \in Refusals \/ (ok /\ d = Closing(v, m))
        /\ c.state = "LAST_ACK" => d \in Refusals \/ (ok /\ d = LastAck(v, m))
        /\ c.state = "TIME_WAIT" => d \in Refusals \/ (ok /\ d = TimeWait(v, m))
    <2>1. c.state = "SYN_RECEIVED" => d \in Refusals \/ (ok /\ d = SynReceived(v, m))
      BY <1>1, Zenon DEF Handler, Checked
    <2>2. c.state = "ESTABLISHED" => d \in Refusals \/ (ok /\ d = Established(v, m))
      BY <1>1, Zenon DEF Handler, Checked
    <2>3. c.state = "FIN_WAIT1" => d \in Refusals \/ (ok /\ d = FinWait1(v, m))
      BY <1>1, Zenon DEF Handler, Checked
    <2>4. c.state = "FIN_WAIT2" => d \in Refusals \/ (ok /\ d = FinWait2(v, m))
      BY <1>1, Zenon DEF Handler, Checked
    <2>5. c.state = "CLOSE_WAIT" => d \in Refusals \/ (ok /\ d = CloseWait(v, m))
      BY <1>1, Zenon DEF Handler, Checked
    <2>6. c.state = "CLOSING" => d \in Refusals \/ (ok /\ d = Closing(v, m))
      BY <1>1, Zenon DEF Handler, Checked
    <2>7. c.state = "LAST_ACK" => d \in Refusals \/ (ok /\ d = LastAck(v, m))
      BY <1>1, Zenon DEF Handler, Checked
    <2>8. c.state = "TIME_WAIT" => d \in Refusals \/ (ok /\ d = TimeWait(v, m))
      BY <1>1, Zenon DEF Handler, Checked
    <2> HIDE DEF d, ok, v, i, Refusals
    <2> QED
      BY <2>1, <2>2, <2>3, <2>4, <2>5, <2>6, <2>7, <2>8
  <1>4. (c.state = "CLOSED" => d = c) /\ (c.state = "LISTENING" => d = Listening(c, m))
    BY DEF Handler
  <1> HIDE DEF ok, v, d
  <1>5. Plain(a, i)
    BY <1>1, Plains
  <1> HIDE DEF i
  <1>6. /\ Plain(a, FSend(v, {"ACK"})) /\ Plain(a, Moved(v, "CLOSED")) /\ Plain(a, Moved(i, "CLOSED"))
        /\ Plain(a, Moved(FSend(v, {"RST"}), "CLOSED")) /\ Plain(a, Moved(FSend(i, {"RST"}), "CLOSED"))
    BY <1>1, <1>5, SendPlain, Plains
  <1>7. ASSUME NEW e \in Refusals PROVE Said(a, m, takes, e)
    BY <1>1, <1>6, PlainSaid
  <1> HIDE DEF Refusals
  <1>8. ASSUME ok, c.state # "LISTENING"
        PROVE  /\ takes => /\ Said(a, m, takes, SynReceived(v, m)) /\ Said(a, m, takes, Established(v, m))
                           /\ Said(a, m, takes, FinWait1(v, m)) /\ Said(a, m, takes, FinWait2(v, m))
               /\ Said(a, m, takes, CloseWait(v, m)) /\ Said(a, m, takes, Closing(v, m))
               /\ Said(a, m, takes, LastAck(v, m)) /\ Said(a, m, takes, TimeWait(v, m))
    <2>1. Meeting(a, m, v)
      BY <1>2, <1>8
    <2>2. takes => takes = TRUE
      BY <1>0
    <2> HIDE DEF takes
    <2> QED
      BY <2>1, <2>2, HandlersSaid
  <1>9. c.state \in {"SYN_RECEIVED", "ESTABLISHED", "FIN_WAIT1", "FIN_WAIT2"} => takes
    BY DEF Taking
  <1>10. CASE c.state = "LISTENING"
    <2>1. Plain(a, d) \/ (m.flags = {"SYN"} /\ d.acknowledgment = m.seq + 1 /\ Plain(m.seq + 1, d))
      BY <1>0, <1>4, <1>10, ListeningSaid
    <2> QED
      BY <1>10, <2>1, PlainSaid DEF d
  <1>11. CASE c.state # "LISTENING"
    <2>1. c.state = "CLOSED" => Said(a, m, takes, d)
      BY <1>4, PlainSaid
    <2> HIDE DEF takes
    <2>2. Said(a, m, takes, d)
      BY <1>3, <1>7, <1>8, <1>9, <1>11, <2>1 DEF State
    <2> QED
      BY <1>4, <1>11, <2>2 DEF takes, d
  <1> QED
    BY <1>10, <1>11

(* update(), of an end that does not write                                 *)
LEMMA UpdateSaid ==
    ASSUME NEW c, NEW m, Numbers(c, m), c.out = {}, c.state \in State \ {"SYN_SENT"},
           m.data # <<>> => m.flags = {"ACK"}
    PROVE  LET d == Update(c, m)
           IN  \/ /\ Said(c.acknowledgment, m, c.state \in Taking, d)
                  /\ c.state \in {"LISTENING", "CLOSED"} => Plain(c.acknowledgment, d)
               \/ /\ c.state = "LISTENING" /\ m.flags = {"SYN"}
                  /\ d.acknowledgment = m.seq + 1 /\ Plain(m.seq + 1, d)
  <1> DEFINE cur == Current(c, m)
             sl  == Slide(cur, m)
             x   == Moved(FSend(cur, {"RST"}), "CLOSED")
             h   == Handler(sl, m)
             a   == c.acknowledgment
             d   == Update(c, m)
  <1>1. \/ d \in {cur, x}
        \/ ~OutOfOrder(c, m) /\ d \in {h, SignalStream(h)}
    BY DEF Update
  <1>0. Whole(c) /\ a \in Nat /\ m.seq \in Nat
    BY DEF Numbers
  <1>2. Plain(a, cur) /\ cur.out = {} /\ cur.state = c.state /\ cur.next = c.next /\ cur.unacknowledged = c.unacknowledged
    BY <1>0 DEF Plain, Whole, Names, Current
  <1> HIDE DEF cur, d
  <1>3. Plain(a, x)
    BY <1>2, SendPlain, Plains
  <1>4. /\ Plain(a, sl) /\ sl.out = {} /\ sl.state = c.state /\ sl.next = c.next
        /\ sl.unacknowledged \in {c.unacknowledged, m.ack}
    BY <1>0, <1>2 DEF Plain, Whole, Names, Slide
  <1> HIDE DEF sl, x
  <1>5. Numbers(sl, m)
    BY <1>4 DEF Numbers, Plain
  <1>6. ~OutOfOrder(c, m) => m.seq <= a \/ c.state = "LISTENING"
    BY <1>0 DEF OutOfOrder
  <1>7. ~OutOfOrder(c, m) => \/ /\ Said(a, m, c.state \in Taking, h)
                                /\ c.state \in {"LISTENING", "CLOSED"} => Plain(a, h)
                             \/ /\ c.state = "LISTENING" /\ m.flags = {"SYN"}
                                /\ h.acknowledgment = m.seq + 1 /\ Plain(m.seq + 1, h)
    BY <1>4, <1>5, <1>6, HandlerSaid
  <1> HIDE DEF h
  <1>8. Said(a, m, c.state \in Taking, h) => Said(a, m, c.state \in Taking, SignalStream(h))
    BY Saids
  <1>9. /\ Plain(m.seq + 1, h) => Plain(m.seq + 1, SignalStream(h))
        /\ Plain(a, h) => Plain(a, SignalStream(h))
    BY Plains
  <1>10. \A e : Plain(m.seq + 1, e) => e.acknowledgment = m.seq + 1
    BY DEF Plain
  <1>11. CASE d \in {cur, x}
    BY <1>2, <1>3, <1>11, PlainSaid DEF d
  <1>12. CASE ~OutOfOrder(c, m) /\ d \in {h, SignalStream(h)}
    BY <1>7, <1>8, <1>9, <1>10, <1>12 DEF d
  <1> QED
    BY <1>1, <1>11, <1>12

-----------------------------------------------------------------------------
(* What write() returns size for.  Only the client writes; First is the    *)
(* number of its first byte.                                               *)
OneWriter == Writers = {Client}
First == ClientISN + 1

(* The labels of connect(), before and after its SYN is numbered           *)
Trying == {"connect", "syn", "sent_syn"}
Opened == {"sent_syn", "in_connect", "attach"}
Early  == {"connect", "syn"} \cup Opened

(* The bytes D delivered to the server's observer: enough for the buffer,  *)
(* and numbered from the client's first.                                   *)
Ample(D) == Len(D) >= Size
Numbered(D) == \A i \in 1 .. Len(D) : D[i].seq = ClientISN + i

(* The server's end has acknowledged just the bytes it delivered, as long  *)
(* as it takes any, and does not detach before it has those of the buffer. *)
Counted(s, D) ==
    /\ s.pc \in Listens => s.acknowledgment \in {0, First}
    /\ s.observer /\ s.state \in Taking => s.acknowledgment = First + Len(D)
    /\ ~s.observer => Ample(D)

(* The client's one attempt to connect                                     *)
Once(c, w) == \/ w.connects = 0 /\ c.pc \in Trying
              \/ w.connects = 1 /\ c.pc \notin Trying

(* The client numbers its SYN with its initial number and starts to write  *)
(* at the next one, where no signal of _stream has been asked for.         *)
Calling(c, w) ==
    /\ c.pc \in Early \cup {"open"} \cup InWrite \cup Ends
    /\ c.pc \in Early \/ (c.pc = "open" /\ w.result = "none") => ~c.streaming
    /\ c.pc \in {"connect", "syn"} => c.next = ClientISN /\ c.state \in {"SYN_SENT", "CLOSED"}
    /\ c.pc \in Opened => c.next = First /\ (c.state \in {"SYN_SENT", "CLOSED"} \/ c.sequence = First)
    /\ c.pc = "open" /\ w.result = "none" => c.next = First /\ c.sequence = First
    /\ c.pc \notin Trying => w.connects >= 1

(* write() counts an acknowledgment of the whole buffer only when it was   *)
(* delivered, and returns before it has tried too often.                   *)
Streaming(c, w, D) ==
    /\ c.pc \in InWrite => w.initial_seq = First /\ (w.acknowledged = Size => Ample(D)) /\ w.tries <= RETRIES
    /\ c.pc \in {"full", "in_stream", "resumed"} => w.tries < RETRIES
    /\ w.result = "size" => w.initial_seq = First /\ Ample(D)

(* The client has not heard more than the server acknowledged, which is no *)
(* more than it delivered, but for the client's FIN.                       *)
Heard(c, s, D) ==
    /\ c.current <= s.acknowledgment
    /\ c.pc \in Ends \/ s.acknowledgment <= First + Len(D) \/ Ample(D)

(* The segments on their way: no acknowledgment is ahead of the server's,  *)
(* and the client's SYN has its initial number.                            *)
Asks(b) == "SYN" \in b.flags => b.flags = {"SYN"} /\ b.seq = ClientISN
Sent(s, m) ==
    /\ m.to = Client => m.ack <= s.acknowledgment
    /\ "SYN" \in m.flags => m.flags = {"SYN", "ACK"} \/ (m.to = Server /\ Asks(m))

(* The third invariant                                                     *)
WInv == /\ Numbered(delivered[Server]) /\ Counted(conn[Server], delivered[Server])
        /\ Calling(conn[Client], strm[Client]) /\ Streaming(conn[Client], strm[Client], delivered[Server])
        /\ Heard(conn[Client], conn[Server], delivered[Server])
        /\ \A m \in net : Sent(conn[Server], m)

LEMMA WriteFacts ==
    ASSUME CInv, DInv
    PROVE  /\ Client \in Peers /\ Server \in Peers /\ Client # Server /\ Other(Client) = Server /\ Other(Server) = Client
           /\ conn \in [Peers -> Conn] /\ strm \in [Peers -> Stream] /\ net \subseteq Segment
           /\ conn[Client] \in Conn /\ conn[Server] \in Conn /\ conn[Client].out = {} /\ conn[Server].out = {}
           /\ EndOK(Client, conn[Client]) /\ EndOK(Server, conn[Server])
           /\ Receiving(conn[Server], delivered[Server])
           /\ delivered[Server] \in Seq([seq : Nat, byte : Nat]) /\ Len(delivered[Server]) \in Nat
           /\ ClientISN \in Nat /\ First \in Nat /\ Size \in Nat /\ Size > 0
           /\ conn[Client].initial = ClientISN /\ strm[Client] \in Stream
           /\ ISN(Client) = ClientISN
  <1>1. /\ Client \in Peers /\ Server \in Peers /\ Client # Server /\ Other(Client) = Server /\ Other(Server) = Client
    BY Constants DEF Other, Peers
  <1>2. /\ conn \in [Peers -> Conn] /\ strm \in [Peers -> Stream] /\ net \subseteq Segment
    BY DEF CInv, Types
  <1>3. /\ conn[Client].out = {} /\ conn[Server].out = {} /\ EndOK(Client, conn[Client]) /\ EndOK(Server, conn[Server])
        /\ conn[Client].initial = ISN(Client)
    BY <1>1, EndFacts
  <1>4. delivered[Server] \in Seq([seq : Nat, byte : Nat]) /\ Receiving(conn[Server], delivered[Server])
    BY <1>1 DEF DInv
  <1>5. ClientISN \in Nat /\ First \in Nat /\ Size \in Nat /\ Size > 0
    BY TCPAssumption DEF First
  <1>6. ISN(Client) = ClientISN
    BY DEF ISN
  <1> QED
    BY <1>1, <1>2, <1>3, <1>4, <1>5, <1>6

(* A step of the server's end                                              *)
Advances(s, D, d, E) ==
    /\ Plain(d.acknowledgment, d) /\ (\A b \in d.out : "SYN" \in b.flags => b.flags = {"SYN", "ACK"})
    /\ s.acknowledgment <= d.acknowledgment /\ Len(D) <= Len(E)
    /\ Numbered(E) /\ Counted(d, E)
    /\ E \in Seq([seq : Nat, byte : Nat])

LEMMA ServerMoves ==
    ASSUME CInv, DInv, WInv, NEW d, NEW E, Advances(conn[Server], delivered[Server], d, E),
           conn[Client].pc \in Ends \/ d.acknowledgment <= First + Len(E) \/ Ample(E),
           conn' = [conn EXCEPT ![Server] = Stored(Server, d)], net' \subseteq net \cup Posted(Server, d),
           strm' = strm, delivered'[Server] = E
    PROVE  WInv'
  <1> DEFINE s == Stored(Server, d)
             D == delivered[Server]
  <1>0. Whole(d) /\ d.acknowledgment \in Nat
    BY DEF Advances, Plain
  <1>1. Alike(d, s)
    BY <1>0, StoredAlike
  <1> HIDE DEF s
  <1>2. conn'[Server] = s /\ conn'[Client] = conn[Client] /\ strm'[Client] = strm[Client]
    BY WriteFacts DEF s
  <1>3. /\ Client # Server /\ Other(Server) = Client /\ Size \in Nat /\ Len(D) \in Nat /\ Len(E) \in Nat
        /\ conn[Client].current \in Nat /\ conn[Server].acknowledgment \in Nat /\ net \subseteq Segment
    BY WriteFacts DEF Conn, Advances
  <1>4. Counted(s, E) /\ Numbered(E)
    BY <1>1 DEF Counted, Alike, Advances
  <1>5. Ample(D) => Ample(E)
    BY <1>3 DEF Ample, Advances
  <1>6. Streaming(conn[Client], strm[Client], E)
    BY <1>5 DEF WInv, Streaming
  <1>7. Heard(conn[Client], s, E)
    BY <1>0, <1>1, <1>3 DEF WInv, Heard, Alike, Advances
  <1>8. ASSUME NEW m \in net' PROVE Sent(s, m)
    <2>1. CASE m \in net
      <3>1. m.ack \in Nat /\ Sent(conn[Server], m)
        BY <1>3, <2>1 DEF WInv, Segment
      <3> QED
        BY <1>0, <1>1, <1>3, <3>1 DEF Sent, Alike, Advances
    <2>2. CASE m \in Posted(Server, d)
      <3>1. PICK b \in d.out : m = [to |-> Client, flags |-> b.flags, seq |-> b.seq, ack |-> b.ack, data |-> b.data]
        BY <1>3, <2>2 DEF Posted
      <3>2. m.ack = b.ack /\ m.flags = b.flags
        BY <3>1
      <3> QED
        BY <1>1, <3>2 DEF Sent, Alike, Advances, Plain
    <2> QED
      BY <2>1, <2>2
  <1>9. Calling(conn[Client], strm[Client])
    BY DEF WInv
  <1> QED
    BY <1>2, <1>4, <1>6, <1>7, <1>8, <1>9 DEF WInv

(* A step of the client's                                                  *)
LEMMA ClientMoves ==
    ASSUME CInv, DInv, WInv, NEW d, Whole(d),
           Calling(d, strm'[Client]), Streaming(d, strm'[Client], delivered[Server]),
           d.current <= conn[Server].acknowledgment, conn[Client].pc \in Ends => d.pc \in Ends,
           \A b \in d.out : Asks(b),
           conn' = [conn EXCEPT ![Client] = Stored(Client, d)], net' \subseteq net \cup Posted(Client, d),
           delivered'[Server] = delivered[Server]
    PROVE  WInv'
  <1> DEFINE c == Stored(Client, d)
             u == IF Client \in Writers /\ strm[Client].result = "none" THEN d.current ELSE 0
             v == d.valid /\ d.streaming
             D == delivered[Server]
  <1>1. /\ c.pc = d.pc /\ c.next = d.next /\ c.sequence = d.sequence /\ c.state = d.state
        /\ c.streaming = d.streaming /\ c.current \in {d.current, 0}
    <2>1. c = [d EXCEPT !.out = {}, !.valid = v, !.current = u]
      BY DEF Stored
    <2>2. u \in {d.current, 0}
      OBVIOUS
    <2> HIDE DEF u, v, c
    <2> QED
      BY <2>1, <2>2 DEF Whole, Names
  <1> HIDE DEF c
  <1>2. conn'[Client] = c /\ conn'[Server] = conn[Server]
    BY WriteFacts DEF c
  <1>3. /\ Client # Server /\ Other(Client) = Server /\ conn[Server].acknowledgment \in Nat
    BY WriteFacts DEF Conn
  <1>4. Calling(c, strm'[Client])
    BY <1>1 DEF Calling
  <1>5. Streaming(c, strm'[Client], D)
    BY <1>1 DEF Streaming
  <1>6. Heard(c, conn[Server], D)
    BY <1>1, <1>3 DEF WInv, Heard
  <1>7. ASSUME NEW m \in net' PROVE Sent(conn[Server], m)
    <2>1. CASE m \in net
      BY <2>1 DEF WInv
    <2>2. CASE m \in Posted(Client, d)
      <3>1. PICK b \in d.out : m = [to |-> Server, flags |-> b.flags, seq |-> b.seq, ack |-> b.ack, data |-> b.data]
        BY <1>3, <2>2 DEF Posted
      <3>2. m.to = Server /\ m.flags = b.flags /\ m.seq = b.seq
        BY <3>1
      <3> QED
        BY <1>3, <3>2 DEF Sent, Asks
    <2> QED
      BY <2>1, <2>2
  <1>8. Numbered(D) /\ Counted(conn[Server], D)
    BY DEF WInv
  <1> QED
    BY <1>2, <1>4, <1>5, <1>6, <1>7, <1>8 DEF WInv

-----------------------------------------------------------------------------
(* The bytes of a segment that is the next one                             *)
LEMMA NumberedTakes ==
    ASSUME NEW D \in Seq([seq : Nat, byte : Nat]), Numbered(D), NEW m, m.seq = First + Len(D), m.data \in Seq(Nat),
           NEW N, N = [i \in 1 .. Len(m.data) |-> [seq |-> m.seq + i - 1, byte |-> m.data[i]]]
    PROVE  /\ Numbered(D \o N) /\ Len(D \o N) = Len(D) + Len(m.data)
           /\ D \o N \in Seq([seq : Nat, byte : Nat])
  <1> DEFINE Rec == [seq : Nat, byte : Nat]
  <1>0. ClientISN \in Nat /\ First = ClientISN + 1 /\ Len(D) \in Nat /\ Len(m.data) \in Nat /\ m.seq \in Nat
    BY TCPAssumption DEF First
  <1>1. N \in Seq(Rec) /\ Len(N) = Len(m.data)
    <2>1. \A i \in 1 .. Len(m.data) : [seq |-> m.seq + i - 1, byte |-> m.data[i]] \in Rec
      <3>1. SUFFICES ASSUME NEW i \in 1 .. Len(m.data) PROVE [seq |-> m.seq + i - 1, byte |-> m.data[i]] \in Rec
        OBVIOUS
      <3>2. m.seq + i - 1 \in Nat /\ m.data[i] \in Nat
        BY <1>0
      <3> QED
        BY <3>2
    <2> HIDE DEF Rec
    <2> QED
      BY <1>0, <2>1
  <1>2. \A i \in 1 .. Len(N) : N[i].seq = m.seq + i - 1
    BY <1>1
  <1> HIDE DEF Rec
  <1>3. D \in Seq(Rec)
    BY DEF Rec
  <1>4. D \o N \in Seq(Rec) /\ Len(D \o N) = Len(D) + Len(N)
    BY <1>1, <1>3
  <1>5. ASSUME NEW i \in 1 .. Len(D \o N) PROVE (D \o N)[i].seq = ClientISN + i
    <2>1. CASE i <= Len(D)
      <3>1. (D \o N)[i] = D[i] /\ i \in 1 .. Len(D)
        BY <1>0, <1>1, <1>3, <1>4, <2>1
      <3> QED
        BY <3>1 DEF Numbered
    <2>2. CASE i > Len(D)
      <3>1. (D \o N)[i] = N[i - Len(D)] /\ i - Len(D) \in 1 .. Len(N)
        BY <1>0, <1>1, <1>3, <1>4, <2>2
      <3> QED
        BY <1>0, <1>2, <3>1
    <2> QED
      BY <1>0, <1>4, <2>1, <2>2
  <1> QED
    BY <1>1, <1>4, <1>5 DEF Numbered, Rec

(* What a segment that arrives makes of the server's end and of the bytes  *)
(* it delivered.                                                           *)
LEMMA ArrivalAdvances ==
    ASSUME NEW s, NEW D \in Seq([seq : Nat, byte : Nat]), Receiving(s, D), Numbered(D), Counted(s, D),
           EndOK(Server, s), s.state \in State, s.observer \in BOOLEAN, s.out = {},
           NEW m, Numbers(s, m), m.flags = {"SYN"} => m.seq = ClientISN,
           NEW d, Took(s, m, d), d.valid \in BOOLEAN,
           \A b \in d.out : "SYN" \notin b.flags,
           \/ /\ Said(s.acknowledgment, m, s.state \in Taking, d)
              /\ s.state \in {"LISTENING", "CLOSED"} => Plain(s.acknowledgment, d)
           \/ /\ s.state = "LISTENING" /\ m.flags = {"SYN"}
              /\ d.acknowledgment = m.seq + 1 /\ Plain(m.seq + 1, d),
           NEW N, N = IF d.valid /\ s.state \in Taking /\ s.observer
                      THEN [i \in 1 .. Len(m.data) |-> [seq |-> m.seq + i - 1, byte |-> m.data[i]]] ELSE <<>>,
           NEW fin, "FIN" \in m.flags => fin,
           fin \/ s.acknowledgment <= First + Len(D) \/ Ample(D)
    PROVE  /\ Advances(s, D, d, D \o N)
           /\ fin \/ d.acknowledgment <= First + Len(D \o N) \/ Ample(D \o N)
  <1> DEFINE E == D \o N
             a == s.acknowledgment
             takes == d.valid /\ s.state \in Taking /\ s.observer
  <1>0. /\ First \in Nat /\ First = ClientISN + 1 /\ Len(D) \in Nat /\ a \in Nat /\ m.data \in Seq(Nat) /\ Len(m.data) \in Nat
        /\ m.seq \in Nat /\ Size \in Nat
    <2>1. ClientISN \in Nat /\ Size \in Nat
      BY TCPAssumption
    <2>2. a \in Nat /\ m.data \in Seq(Nat) /\ m.seq \in Nat
      BY DEF Numbers
    <2> QED
      BY <2>1, <2>2 DEF First
  <1>1. takes => m.seq = a /\ a = First + Len(D)
    BY DEF Took, Counted
  <1>2. Numbered(E) /\ E \in Seq([seq : Nat, byte : Nat]) /\ Len(E) = IF takes THEN Len(D) + Len(m.data) ELSE Len(D)
    <2>1. CASE takes
      <3>1. N = [i \in 1 .. Len(m.data) |-> [seq |-> m.seq + i - 1, byte |-> m.data[i]]]
        BY <2>1
      <3> QED
        BY <1>0, <1>1, <2>1, <3>1, NumberedTakes
    <2>2. CASE ~takes
      <3>1. N = <<>>
        BY <2>2
      <3>2. E = D
        <4> DEFINE T == [seq : Nat, byte : Nat]
        <4>1. D \in Seq(T)
          OBVIOUS
        <4> HIDE DEF T
        <4>2. D \o <<>> = D
          BY <4>1
        <4> QED
          BY <3>1, <4>2
      <3> QED
        BY <2>2, <3>2
    <2> QED
      BY <2>1, <2>2
  <1> HIDE DEF E
  <1>3. Len(D) <= Len(E) /\ (Ample(D) => Ample(E)) /\ Len(E) \in Nat
    <2>1. Len(E) = Len(D) + Len(m.data) \/ Len(E) = Len(D)
      BY <1>2
    <2> QED
      BY <1>0, <2>1 DEF Ample
  <1>4. Plain(d.acknowledgment, d)
    BY DEF Said
  <1>5. d.acknowledgment \in Nat
    BY <1>4 DEF Plain
  <1>6. s.state = "LISTENING" => s.pc \in Listens /\ a \in {0, First}
    BY DEF Receiving, Counted
  <1>7. \/ d.acknowledgment = a
        \/ s.state \in Taking /\ d.valid = TRUE /\ d.acknowledgment = a + Len(m.data)
        \/ "FIN" \in m.flags /\ d.acknowledgment = a + 1
        \/ s.state = "LISTENING" /\ d.acknowledgment = First
    BY <1>0 DEF Said
  <1>8. s.state \in {"LISTENING", "CLOSED"} => d.acknowledgment \in {a, First} /\ (s.state = "CLOSED" => d.acknowledgment = a)
    BY <1>0 DEF Plain
  <1>9. a <= d.acknowledgment
    BY <1>0, <1>6, <1>7
  <1>10. Counted(d, E)
    <2>1. ASSUME d.pc \in Listens PROVE d.acknowledgment \in {0, First}
      <3>1. s.pc \in Listens
        BY <2>1 DEF Took, Roused, Listens
      <3>2. s.state \in {"LISTENING", "CLOSED"} /\ a \in {0, First}
        BY <3>1 DEF Receiving, Counted
      <3> QED
        BY <1>8, <3>2
    <2>2. ASSUME d.observer, d.state \in Taking PROVE d.acknowledgment = First + Len(E)
      <3>1. s.observer /\ s.state \in Taking /\ a = First + Len(D)
        BY <2>2 DEF Took, Counted
      <3>2. CASE d.valid
        BY <1>0, <1>2, <2>2, <3>1, <3>2 DEF Took
      <3>3. CASE ~d.valid
        BY <1>0, <1>2, <2>2, <3>1, <3>3 DEF Took
      <3> QED
        BY <3>2, <3>3
    <2>3. ~d.observer => Ample(E)
      BY <1>3 DEF Took, Counted
    <2> QED
      BY <2>1, <2>2, <2>3 DEF Counted
  <1>11. fin \/ d.acknowledgment <= First + Len(E) \/ Ample(E)
    <2>1. CASE fin \/ Ample(D)
      BY <1>3, <2>1
    <2>2. CASE ~fin /\ ~Ample(D)
      <3>1. a <= First + Len(D) /\ s.observer = TRUE /\ "FIN" \notin m.flags
        BY <2>2 DEF Counted
      <3> QED
        BY <1>0, <1>2, <1>3, <1>7, <3>1
    <2> QED
      BY <2>1, <2>2
  <1>12. Advances(s, D, d, E)
    BY <1>2, <1>3, <1>4, <1>9, <1>10 DEF Advances
  <1> QED
    BY <1>11, <1>12 DEF E

LEMMA ServerReceivesWrites ==
    ASSUME CInv, DInv, WInv, Receive(Server)
    PROVE  WInv'
  <1> DEFINE c == conn[Server]
             D == delivered[Server]
             fin == conn[Client].pc \in Ends
  <1>1. PICK m \in net, duplicate \in BOOLEAN :
             /\ m.to = Server
             /\ conn' = [conn EXCEPT ![Server] = Stored(Server, Update(c, m))]
             /\ net' = Carried(IF duplicate THEN net ELSE net \ {m}, Posted(Server, Update(c, m)))
             /\ delivered' = [delivered EXCEPT ![Server] = D \o Notified(c, m)]
             /\ strm' = strm
    BY DEF Receive, Observed
  <1> DEFINE d == Update(c, m)
             N == Notified(c, m)
  <1>2. /\ c \in Conn /\ c.out = {} /\ c.valid = FALSE /\ Receiving(c, D) /\ c.retransmiting \in BOOLEAN
        /\ D \in Seq([seq : Nat, byte : Nat]) /\ EndOK(Server, c) /\ c.observer \in BOOLEAN
        /\ Numbered(D) /\ Counted(c, D) /\ Whole(c) /\ c.state \in State /\ Server \in Peers
    BY WriteFacts, WholeConn DEF DInv, WInv, Conn
  <1>3. m \in Segment /\ DataOK(m) /\ Sent(c, m)
    BY <1>1, WriteFacts DEF DInv, WInv
  <1>4. Arriving(Server, c, m)
    BY <1>1, <1>2, <1>3, EndFacts DEF Arriving, SegmentOK, CInv
  <1>5. d \in Conn
    BY <1>4, UpdateHandled DEF Handled
  <1>6. "FIN" \in m.flags => fin
    <2>1. SegmentOK(Client, conn[Client], m)
      BY <1>1, WriteFacts DEF CInv
    <2> QED
      BY <2>1 DEF SegmentOK, Finned, Ends
  <1>7. fin \/ c.acknowledgment <= First + Len(D) \/ Ample(D)
    BY DEF WInv, Heard
  <1> HIDE DEF c, D, fin
  <1>8. Numbers(c, m)
    BY <1>2, <1>3, WholeConn DEF Numbers, Conn, Segment
  <1>9. c.state \in State \ {"SYN_SENT"} /\ c.streaming = FALSE
    BY <1>2 DEF Receiving, Conn, EndOK, Serving, Listens, Ends
  <1>10. m.data # <<>> => m.flags = {"ACK"} /\ (c.state \in Opening => c.unacknowledged <= m.ack)
    <2>1. ServerISN \in Nat /\ m.ack \in Nat /\ c.unacknowledged \in Nat
      BY <1>2, <1>3, TCPAssumption DEF Segment, Conn
    <2> QED
      BY <1>2, <1>3, <2>1 DEF DataOK, Receiving
  <1>11. /\ Took(c, m, d) /\ (d.valid = TRUE => ~OutOfOrder(c, m) /\ ~Unsent(c, m))
    BY <1>2, <1>8, <1>9, <1>10, UpdateTook
  <1>12. \/ /\ Said(c.acknowledgment, m, c.state \in Taking, d)
            /\ c.state \in {"LISTENING", "CLOSED"} => Plain(c.acknowledgment, d)
         \/ /\ c.state = "LISTENING" /\ m.flags = {"SYN"}
            /\ d.acknowledgment = m.seq + 1 /\ Plain(m.seq + 1, d)
    BY <1>2, <1>8, <1>9, <1>10, UpdateSaid
  <1>13. Greeting(m) /\ (m.flags = {"SYN"} => m.seq = ClientISN)
    BY <1>3 DEF Greeting, Sent, Asks
  <1>14. \A b \in d.out : "SYN" \notin b.flags
    <2>1. \A b \in d.out : b \in c.out \/ "SYN" \notin b.flags
      BY <1>2, <1>9, <1>13, UpdateCalm
    <2> QED
      BY <1>2, <2>1
  <1>15. d.valid \in BOOLEAN
    BY <1>5 DEF Conn
  <1>16. N = IF d.valid /\ c.state \in Taking /\ c.observer
             THEN [i \in 1 .. Len(m.data) |-> [seq |-> m.seq + i - 1, byte |-> m.data[i]]] ELSE <<>>
    BY <1>11, <1>15, Zenon DEF Notified, Taking
  <1> HIDE DEF d, N
  <1>17. /\ Advances(c, D, d, D \o N)
         /\ fin \/ d.acknowledgment <= First + Len(D \o N) \/ Ample(D \o N)
    BY <1>2, <1>6, <1>7, <1>8, <1>11, <1>12, <1>13, <1>14, <1>15, <1>16, ArrivalAdvances
  <1>18. net' \subseteq net \cup Posted(Server, d)
    BY <1>1, CarriedSome DEF d
  <1>19. delivered'[Server] = D \o N
    <2>1. delivered \in [Peers -> Seq([seq : Nat, byte : Nat])]
      BY DEF DInv
    <2> DEFINE T == Seq([seq : Nat, byte : Nat])
    <2> HIDE DEF T
    <2>2. delivered \in [Peers -> T]
      BY <2>1 DEF T
    <2> QED
      BY <1>1, <1>2, <2>2 DEF N, d
  <1> QED
    BY <1>1, <1>17, <1>18, <1>19, ServerMoves DEF c, D, d, fin

(* A step of the server's end that delivers nothing                        *)
Answers(c) == \A b \in c.out : "SYN" \in b.flags => b.flags = {"SYN", "ACK"}

LEMMA ServerStays ==
    ASSUME CInv, DInv, WInv, NEW d, Plain(conn[Server].acknowledgment, d), Answers(d), Counted(d, delivered[Server]),
           Become(Server, d), strm' = strm, delivered' = delivered
    PROVE  WInv'
  <1> DEFINE D == delivered[Server]
             s == conn[Server]
  <1>1. conn' = [conn EXCEPT ![Server] = Stored(Server, d)] /\ net' \subseteq net \cup Posted(Server, d)
    BY CarriedSome DEF Become
  <1>2. D \in Seq([seq : Nat, byte : Nat]) /\ Len(D) \in Nat /\ Numbered(D) /\ s.acknowledgment \in Nat
    BY WriteFacts DEF WInv, Conn
  <1>3. d.acknowledgment = s.acknowledgment
    BY DEF Plain
  <1>4. Advances(s, D, d, D)
    BY <1>2, <1>3 DEF Advances, Answers
  <1>5. conn[Client].pc \in Ends \/ d.acknowledgment <= First + Len(D) \/ Ample(D)
    BY <1>3 DEF WInv, Heard
  <1> QED
    BY <1>1, <1>4, <1>5, ServerMoves

LEMMA ServerExpiresWrites ==
    ASSUME CInv, DInv, WInv, Timeout(Server)
    PROVE  WInv'
  <1> DEFINE c == conn[Server]
             D == delivered[Server]
             a == c.acknowledgment
             off   == [c EXCEPT !.alarm = FALSE]
             again == [off EXCEPT !.tries = @ + 1, !.next = @ - 1]
             g     == Moved(off, "CLOSED")
             f     == Forgiven(g)
             e     == FSend(again, {"FIN", "ACK"})
             d     == Expired(c)
  <1>1. Become(Server, d) /\ strm' = strm /\ delivered' = delivered
    BY DEF Timeout
  <1>2. Whole(c) /\ c.out = {} /\ a \in Nat /\ c.state # "SYN_SENT" /\ Silent(c)
    BY WriteFacts, WholeConn DEF Receiving, EndOK, Serving, Listens, Ends, Conn, Silent
  <1>3. d \in {off, Signal(g), Signal(f), Armed(e)}
    BY <1>2 DEF Expired
  <1>4. Plain(a, off) /\ Whole(off) /\ off.out = {}
    BY <1>2 DEF Plain, Whole, Names
  <1>5. Plain(a, again) /\ Whole(again) /\ again.out = {}
    <2> HIDE DEF off
    <2> QED
      BY <1>2, <1>4 DEF Plain, Whole, Names
  <1> HIDE DEF off, again
  <1>6. Plain(a, g) /\ g.out = {}
    BY <1>4, Plains DEF Moved, Whole, Names
  <1> HIDE DEF g
  <1>7. Plain(a, f) /\ f.out = {}
    BY <1>6, Plains DEF Forgiven, Plain, Whole, Names
  <1> HIDE DEF f
  <1>8. Plain(a, e) /\ \A b \in e.out : b.flags = {"FIN", "ACK"}
    <2>1. Plain(a, e)
      BY <1>5, SendPlain
    <2>2. \A b \in e.out : b.flags = {"FIN", "ACK"}
      BY <1>5 DEF FSend, Whole, Names
    <2> QED
      BY <2>1, <2>2
  <1> HIDE DEF e
  <1>9. /\ Plain(a, Signal(g)) /\ Signal(g).out = {} /\ Plain(a, Signal(f)) /\ Signal(f).out = {}
        /\ Plain(a, Armed(e)) /\ Armed(e).out = e.out
    BY <1>6, <1>7, <1>8, Plains DEF Signal, Armed, Plain, Whole, Names
  <1> HIDE DEF d
  <1>10. Plain(a, d) /\ Answers(d)
    BY <1>3, <1>4, <1>8, <1>9 DEF Answers
  <1>11. /\ d.observer = c.observer /\ d.acknowledgment = a
         /\ \/ d.state = c.state /\ d.pc = c.pc
            \/ d.state = "CLOSED" /\ d.pc \in {c.pc, Roused(c.pc)}
    BY <1>2, ExpiredSilent DEF d
  <1>12. d.pc \in Listens => c.pc \in Listens
    BY <1>11 DEF Roused, Listens
  <1>13. Counted(d, D)
    BY <1>11, <1>12 DEF WInv, Counted, Taking
  <1> QED
    BY <1>1, <1>10, <1>13, ServerStays DEF c, D

(* A step of the server's thread                                           *)
LEMMA ServerSteps ==
    ASSUME CInv, DInv, WInv, NEW l, NEW x, NEW k, Step(Server, l, x, k), strm' = strm,
           Plain(conn[Server].acknowledgment, x), Answers(x),
           x.observer = conn[Server].observer \/ (~x.observer /\ Ample(delivered[Server])),
           k \in Listens => conn[Server].pc \in Listens,
           \/ x.state \notin Taking \/ x.state = conn[Server].state \/ ~conn[Server].observer
           \/ conn[Server].acknowledgment = First + Len(delivered[Server])
    PROVE  WInv'
  <1> DEFINE d == Goto(x, k)
             c == conn[Server]
             D == delivered[Server]
  <1>1. Become(Server, d) /\ delivered' = delivered
    BY DEF Step
  <1>2. Plain(c.acknowledgment, d)
    BY Plains
  <1>3. d.out = x.out /\ d.observer = x.observer /\ d.state = x.state /\ d.pc = k /\ d.acknowledgment = c.acknowledgment
    BY DEF Plain, Goto, Whole, Names
  <1> HIDE DEF d
  <1>4. Answers(d)
    BY <1>3 DEF Answers
  <1>5. Counted(c, D)
    BY DEF WInv
  <1>6. Counted(d, D)
    BY <1>3, <1>5 DEF Counted
  <1> QED
    BY <1>1, <1>2, <1>4, <1>6, ServerStays

LEMMA ServerEnd ==
    ASSUME CInv, DInv, WInv
    PROVE  /\ Whole(conn[Server]) /\ conn[Server].out = {} /\ Plain(conn[Server].acknowledgment, conn[Server])
           /\ Answers(conn[Server]) /\ conn[Server].pc \in Serving
  <1>1. Whole(conn[Server]) /\ conn[Server].out = {} /\ conn[Server].acknowledgment \in Nat
    BY WriteFacts, WholeConn DEF Conn
  <1> QED
    BY <1>1, WriteFacts DEF Plain, Answers, Receiving

LEMMA ServerListens ==
    ASSUME CInv, DInv, WInv, Listen(Server)
    PROVE  WInv'
  <1> DEFINE c == conn[Server]
             D == delivered[Server]
             a == c.acknowledgment
  <1>1. Whole(c) /\ c.out = {} /\ Plain(a, c) /\ Answers(c)
    BY ServerEnd
  <1>2. CASE ListenState(Server)
    <2> DEFINE x == Moved(c, "LISTENING")
    <2>1. Step(Server, "listen", x, "listening") /\ c.pc = "listen" /\ strm' = strm
      BY <1>2 DEF ListenState, Step, At
    <2>2. Plain(a, x)
      BY <1>1, Plains
    <2>3. x.out = {} /\ x.observer = c.observer /\ x.state = "LISTENING"
      BY <1>1 DEF Moved, Whole, Names
    <2> HIDE DEF x
    <2>4. Answers(x) /\ x.state \notin Taking /\ c.pc \in Listens
      BY <2>1, <2>3 DEF Answers, Taking, Listens
    <2> QED
      BY <2>1, <2>2, <2>3, <2>4, ServerSteps
  <1>3. CASE ListenWait(Server)
    <2>1. Step(Server, "listening", c, "in_listen") /\ c.pc = "listening" /\ strm' = strm
      BY <1>3 DEF ListenWait, Step, At
    <2>2. c.pc \in Listens
      BY <2>1 DEF Listens
    <2> QED
      BY <1>1, <2>1, <2>2, ServerSteps
  <1>4. CASE ListenSend(Server)
    <2> DEFINE x == FSend(c, {"SYN", "ACK"})
    <2>1. Step(Server, "answer", x, "answered") /\ c.pc = "answer" /\ strm' = strm
      BY <1>4 DEF ListenSend, Step, At
    <2>2. Plain(a, x)
      BY <1>1, SendPlain
    <2>3. x.observer = c.observer /\ x.state = c.state
      BY <1>1, SendLine DEF Line
    <2>4. \A b \in x.out : b.flags = {"SYN", "ACK"}
      BY <1>1 DEF FSend, Whole, Names
    <2> HIDE DEF x
    <2>5. Answers(x) /\ c.pc \in Listens
      BY <2>1, <2>4 DEF Answers, Listens
    <2> QED
      BY <2>1, <2>2, <2>3, <2>5, ServerSteps
  <1>5. CASE ListenReceived(Server)
    <2> DEFINE u == [c EXCEPT !.unacknowledged = c.initial]
               x == Moved(u, "SYN_RECEIVED")
    <2>1. Step(Server, "answered", x, "received") /\ c.pc = "answered" /\ strm' = strm
      BY <1>5 DEF ListenReceived, Step, At
    <2>2. Plain(a, u) /\ Whole(u) /\ u.out = {} /\ u.observer = c.observer
      BY <1>1, Plains DEF Whole, Names
    <2> HIDE DEF u
    <2>3. Plain(a, x)
      BY <2>2, Plains
    <2>4. x.out = {} /\ x.observer = c.observer
      BY <2>2 DEF Moved, Whole, Names
    <2> HIDE DEF x
    <2>5. "received" \notin Listens /\ Answers(x)
      BY <2>4 DEF Listens, Answers
    <2>6. a = First + Len(D)
      <3>1. D = <<>> /\ a \in {0, First}
        BY <2>1, WriteFacts DEF Receiving, Listens, WInv, Counted
      <3>2. a > ClientISN
        BY <2>1, WriteFacts DEF EndOK, Answering, Synced
      <3> QED
        BY <3>1, <3>2, WriteFacts
    <2> QED
      BY <2>1, <2>3, <2>4, <2>5, <2>6, ServerSteps
  <1>6. CASE ListenReceivedWait(Server)
    <2>1. Step(Server, "received", c, "in_received") /\ c.pc = "received" /\ strm' = strm
      BY <1>6 DEF ListenReceivedWait, Step, At
    <2>2. "in_received" \notin Listens
      BY DEF Listens
    <2> QED
      BY <1>1, <2>1, <2>2, ServerSteps
  <1> QED
    BY <1>2, <1>3, <1>4, <1>5, <1>6 DEF Listen

LEMMA ServerLeaves ==
    ASSUME OneWriter, CInv, DInv, WInv, Attach(Server) \/ Detach(Server) \/ (Close(Server) /\ ~Detached(Server))
    PROVE  WInv'
  <1> DEFINE c == conn[Server]
             D == delivered[Server]
             a == c.acknowledgment
  <1>1. Whole(c) /\ c.out = {} /\ Plain(a, c) /\ Answers(c)
    BY ServerEnd
  <1>2. CASE Attach(Server)
    <2>1. PICK k \in {"open", "connect", "delete"} : Step(Server, "attach", c, k) /\ strm' = strm
      BY <1>2 DEF Attach
    <2>2. k \notin Listens
      BY DEF Listens
    <2> QED
      BY <1>1, <2>1, <2>2, ServerSteps
  <1>3. CASE Detach(Server)
    <2> DEFINE x == [c EXCEPT !.observer = FALSE, !.alarm = FALSE]
    <2>1. Step(Server, "open", x, "close") /\ strm' = strm /\ Finished(Server)
      BY <1>3 DEF Detach
    <2>2. Plain(a, x) /\ x.out = {} /\ x.observer = FALSE /\ x.state = c.state
      BY <1>1 DEF Plain, Whole, Names
    <2> HIDE DEF x
    <2>3. Ample(D)
      BY <2>1, WriteFacts DEF Finished, OneWriter, Ample
    <2>4. "close" \notin Listens /\ Answers(x)
      BY <2>2 DEF Listens, Answers
    <2> QED
      BY <2>1, <2>2, <2>3, <2>4, ServerSteps
  <1>4. CASE Destroy(Server)
    <2> DEFINE x == [c EXCEPT !.alarm = FALSE]
    <2>1. Step(Server, "delete", x, "close") /\ strm' = strm
      BY <1>4 DEF Destroy
    <2>2. Plain(a, x) /\ x.out = {} /\ x.observer = c.observer /\ x.state = c.state
      BY <1>1 DEF Plain, Whole, Names
    <2> HIDE DEF x
    <2>3. "close" \notin Listens /\ Answers(x)
      BY <2>2 DEF Listens, Answers
    <2> QED
      BY <2>1, <2>2, <2>3, ServerSteps
  <1>5. CASE CloseAtOnce(Server)
    <2> DEFINE x == Moved(c, "CLOSED")
    <2>1. Step(Server, "close", x, "deleted") /\ strm' = strm
      BY <1>5 DEF CloseAtOnce
    <2>2. Plain(a, x)
      BY <1>1, Plains
    <2>3. x.out = {} /\ x.observer = c.observer /\ x.state = "CLOSED"
      BY <1>1 DEF Moved, Whole, Names
    <2> HIDE DEF x
    <2>4. "deleted" \notin Listens /\ Answers(x) /\ x.state \notin Taking
      BY <2>3 DEF Listens, Answers, Taking
    <2> QED
      BY <2>1, <2>2, <2>3, <2>4, ServerSteps
  <1>6. CASE CloseTest(Server)
    <2>1. PICK k \in {"to_fin_wait1", "to_last_ack", "fin"} : Step(Server, "close", c, k) /\ strm' = strm
      BY <1>6 DEF CloseTest
    <2>2. k \notin Listens
      BY DEF Listens
    <2> QED
      BY <1>1, <2>1, <2>2, ServerSteps
  <1>7. CASE CloseState(Server)
    <2>1. PICK l, S : /\ <<l, S>> \in {<<"to_fin_wait1", "FIN_WAIT1">>, <<"to_last_ack", "LAST_ACK">>}
                      /\ Step(Server, l, Moved(c, S), "fin") /\ c.pc = l /\ strm' = strm
      BY <1>7 DEF CloseState, Step, At
    <2> DEFINE x == Moved(c, S)
    <2>2. Plain(a, x)
      BY <1>1, Plains
    <2>3. x.out = {} /\ x.observer = c.observer /\ x.state = S
      BY <1>1 DEF Moved, Whole, Names
    <2> HIDE DEF x
    <2>4. "fin" \notin Listens /\ Answers(x) /\ (x.state \notin Taking \/ ~c.observer)
      BY <2>1, <2>3, WriteFacts DEF Listens, Answers, Taking, Receiving
    <2> QED
      BY <2>1, <2>2, <2>3, <2>4, ServerSteps DEF x
  <1>8. CASE CloseSend(Server)
    <2> DEFINE x == FSend(c, {"ACK", "FIN"})
    <2>1. Step(Server, "fin", x, "sent_fin") /\ strm' = strm
      BY <1>8 DEF CloseSend
    <2>2. Plain(a, x)
      BY <1>1, SendPlain
    <2>3. x.observer = c.observer /\ x.state = c.state
      BY <1>1, SendLine DEF Line
    <2>4. \A b \in x.out : b.flags = {"ACK", "FIN"}
      BY <1>1 DEF FSend, Whole, Names
    <2> HIDE DEF x
    <2>5. Answers(x) /\ "sent_fin" \notin Listens
      BY <2>4 DEF Answers, Listens
    <2> QED
      BY <2>1, <2>2, <2>3, <2>5, ServerSteps
  <1>9. CASE CloseWaits(Server)
    <2> DEFINE x == Armed(c)
    <2>1. Step(Server, "sent_fin", x, "in_close") /\ strm' = strm
      BY <1>9 DEF CloseWaits
    <2>2. Plain(a, x)
      BY <1>1, Plains
    <2>3. x.out = {} /\ x.observer = c.observer /\ x.state = c.state
      BY <1>1 DEF Armed, Whole, Names
    <2> HIDE DEF x
    <2>4. "in_close" \notin Listens /\ Answers(x)
      BY <2>3 DEF Listens, Answers
    <2> QED
      BY <2>1, <2>2, <2>3, <2>4, ServerSteps
  <1> QED
    BY <1>2, <1>3, <1>4, <1>5, <1>6, <1>7, <1>8, <1>9 DEF Close

LEMMA ServerDetached ==
    ASSUME CInv, DInv, WInv, Detached(Server)
    PROVE  WInv'
  <1> DEFINE a == conn[Server].acknowledgment
             d == [Connection(Server) EXCEPT !.acknowledgment = a, !.bound = "none", !.pc = "gone"]
             D == delivered[Server]
  <1>1. /\ conn' = [conn EXCEPT ![Server] = d] /\ net' \subseteq net /\ delivered' = delivered /\ strm' = strm
    BY DEF Detached
  <1>2. d.acknowledgment = a /\ d.pc = "gone" /\ d.state = "CLOSED" /\ d.observer = TRUE
    BY DEF Connection
  <1> HIDE DEF d
  <1>3. conn'[Server] = d /\ conn'[Client] = conn[Client]
    BY <1>1, WriteFacts
  <1>4. Counted(d, D)
    BY <1>2 DEF Counted, Listens, Taking
  <1>5. Heard(conn[Client], d, D)
    BY <1>2 DEF WInv, Heard
  <1>6. \A m \in net' : Sent(d, m)
    BY <1>1, <1>2 DEF WInv, Sent
  <1> QED
    BY <1>1, <1>3, <1>4, <1>5, <1>6 DEF WInv

(* The labels of connect() and write() are not the server's.               *)
LEMMA ServerOnly ==
    ASSUME OneWriter, CInv, DInv, Thread(Server)
    PROVE  Listen(Server) \/ Attach(Server) \/ Detach(Server) \/ Close(Server)
  <1>1. conn[Server].pc \in Serving /\ Server \notin Writers
    BY WriteFacts DEF Receiving, OneWriter
  <1>2. \A l \in {"connect", "syn", "sent_syn"} \cup InWrite : l \notin Serving
    BY DEF Serving, Listens, Ends, InWrite
  <1>3. ~Connect(Server)
    BY <1>1, <1>2 DEF Connect, ConnectState, ConnectSend, ConnectWait, Step, At
  <1>4. ~Write(Server)
    <2>1. Write(Server) => conn[Server].pc \in InWrite \/ Server \in Writers
      BY DEF Write, WriteCall, WriteSend, WriteSent, WriteFull, WriteWait, WriteResumed, WriteReturn, Step, At, InWrite
    <2> QED
      BY <1>1, <1>2, <2>1
  <1> QED
    BY <1>3, <1>4 DEF Thread

-----------------------------------------------------------------------------
(* A step of the client's end that changes no byte delivered               *)
Asking(c) == \A b \in c.out : Asks(b)

LEMMA ClientStays ==
    ASSUME CInv, DInv, WInv, NEW d, Whole(d), Become(Client, d), delivered' = delivered,
           Calling(d, strm'[Client]), Streaming(d, strm'[Client], delivered[Server]),
           d.current = conn[Client].current, conn[Client].pc \in Ends => d.pc \in Ends, Asking(d)
    PROVE  WInv'
  <1>1. conn' = [conn EXCEPT ![Client] = Stored(Client, d)] /\ net' \subseteq net \cup Posted(Client, d)
    BY CarriedSome DEF Become
  <1>2. d.current <= conn[Server].acknowledgment
    BY DEF WInv, Heard
  <1> QED
    BY <1>1, <1>2, ClientMoves DEF Asking

LEMMA ClientEnd ==
    ASSUME CInv, DInv, WInv
    PROVE  /\ Whole(conn[Client]) /\ conn[Client].out = {} /\ Asking(conn[Client])
           /\ Calling(conn[Client], strm[Client]) /\ Streaming(conn[Client], strm[Client], delivered[Server])
           /\ conn[Client].next \in Nat /\ conn[Client].current \in Nat /\ conn[Client].retransmiting \in BOOLEAN
           /\ conn[Client].streaming \in BOOLEAN /\ conn[Client].state \in State
           /\ (conn[Client].pc \notin InWrite => conn[Client].retransmiting = FALSE)
           /\ strm[Client].connects \in Nat /\ strm[Client].tries \in Nat
  <1>1. Whole(conn[Client]) /\ conn[Client].out = {}
    BY WriteFacts, WholeConn
  <1>2. Calling(conn[Client], strm[Client]) /\ Streaming(conn[Client], strm[Client], delivered[Server])
    BY DEF WInv
  <1>3. /\ conn[Client].next \in Nat /\ conn[Client].current \in Nat /\ conn[Client].retransmiting \in BOOLEAN
        /\ conn[Client].streaming \in BOOLEAN /\ conn[Client].state \in State
    BY WriteFacts DEF Conn
  <1>4. conn[Client].pc \notin InWrite => conn[Client].retransmiting = FALSE
    BY <1>3, WriteFacts DEF EndOK
  <1>5. strm[Client].connects \in Nat /\ strm[Client].tries \in Nat
    BY WriteFacts DEF Stream
  <1> QED
    BY <1>1, <1>2, <1>3, <1>4, <1>5 DEF Asking

LEMMA ClientReceivesWrites ==
    ASSUME CInv, DInv, WInv, Receive(Client)
    PROVE  WInv'
  <1> DEFINE c == conn[Client]
             w == strm[Client]
             D == delivered[Server]
  <1>1. PICK m \in net, duplicate \in BOOLEAN :
             /\ m.to = Client
             /\ conn' = [conn EXCEPT ![Client] = Stored(Client, Update(c, m))]
             /\ net' = Carried(IF duplicate THEN net ELSE net \ {m}, Posted(Client, Update(c, m)))
             /\ delivered' = [delivered EXCEPT ![Client] = @ \o Notified(c, m)]
             /\ strm' = strm
    BY DEF Receive, Observed
  <1> DEFINE d == Update(c, m)
  <1>2. /\ Whole(c) /\ c.out = {} /\ Calling(c, w) /\ Streaming(c, w, D) /\ c.next \in Nat
        /\ c.retransmiting \in BOOLEAN /\ c.streaming \in BOOLEAN /\ c.state \in State
        /\ (c.pc \notin InWrite => c.retransmiting = FALSE)
    BY ClientEnd
  <1>3. m \in Segment /\ Sent(conn[Server], m) /\ c \in Conn /\ c.initial = ClientISN /\ ClientISN \in Nat
    BY <1>1, WriteFacts DEF WInv
  <1>4. Greeting(m) /\ m.flags # {"SYN"}
    <2>1. "SYN" \in m.flags => m.flags = {"SYN", "ACK"}
      BY <1>1, <1>3, WriteFacts DEF Sent
    <2>2. m.flags # {"SYN"}
      BY <2>1
    <2> QED
      BY <2>1, <2>2 DEF Greeting
  <1>5. Arriving(Client, c, m)
    BY <1>1, <1>3, EndFacts, WriteFacts DEF Arriving, SegmentOK, CInv
  <1>6. PcStep(c.pc, d.pc)
    BY <1>5, UpdateHandled DEF Handled
  <1>7. m.ack <= conn[Server].acknowledgment /\ m.ack \in Nat
    BY <1>1, <1>3 DEF Sent, Segment
  <1> HIDE DEF c, w, D
  <1>8. /\ Whole(d) /\ d.next = c.next /\ d.current = m.ack /\ d.streaming = c.streaming
        /\ c.streaming = FALSE /\ c.retransmiting = FALSE => d.sequence \in {c.sequence, c.next}
        /\ \A b \in d.out : b \in c.out \/ "SYN" \notin b.flags
        /\ c.state = "CLOSED" => d.state = "CLOSED"
        /\ c.state = "SYN_SENT" /\ c.streaming = FALSE /\ c.retransmiting = FALSE =>
             \/ d.state \in {"SYN_SENT", "CLOSED"}
             \/ d.sequence = c.next /\ m.ack > c.initial /\ m.ack \in c.unacknowledged .. c.next
    BY <1>2, <1>4, UpdateCalm
  <1> HIDE DEF d
  <1>9. /\ d.pc \in Early => c.pc \in Early
        /\ d.pc \in Trying \cup {"open"} => d.pc = c.pc
        /\ c.pc \in Trying => d.pc = c.pc
        /\ d.pc \in {"connect", "syn"} => d.pc = c.pc
        /\ d.pc \in Opened <=> c.pc \in Opened
        /\ d.pc \in InWrite => c.pc \in InWrite
        /\ d.pc \in {"full", "in_stream", "resumed"} => c.pc \in {"full", "in_stream", "resumed"}
        /\ c.pc \in Ends => d.pc \in Ends
        /\ d.pc \in Early \cup {"open"} \cup InWrite \cup Ends
    <2>1. c.pc \in Early \cup {"open"} \cup InWrite \cup Ends
      BY <1>2 DEF Calling
    <2> QED
      BY <1>6, <2>1 DEF PcStep, Roused, Early, Trying, Opened, InWrite, Ends
  <1>10. c.pc \in Early \cup {"open"} => c.retransmiting = FALSE
    BY <1>2 DEF Early, Opened, InWrite
  <1>11. Calling(d, w)
    <2>1. d.pc \in Early \/ (d.pc = "open" /\ w.result = "none") => ~d.streaming
      BY <1>2, <1>8, <1>9 DEF Calling
    <2>2. ASSUME d.pc \in {"connect", "syn"} PROVE d.next = ClientISN /\ d.state \in {"SYN_SENT", "CLOSED"}
      <3>1. c.pc = d.pc /\ c.pc \in Early
        BY <1>9, <2>2 DEF Early
      <3>2. c.next = ClientISN /\ c.state \in {"SYN_SENT", "CLOSED"} /\ c.streaming = FALSE /\ c.retransmiting = FALSE
        BY <1>2, <1>10, <2>2, <3>1 DEF Calling
      <3>3. ~(m.ack > c.initial /\ m.ack \in c.unacknowledged .. c.next)
        BY <1>3, <1>7, <3>2
      <3> QED
        BY <1>8, <3>2, <3>3
    <2>3. ASSUME d.pc \in Opened PROVE d.next = First /\ (d.state \in {"SYN_SENT", "CLOSED"} \/ d.sequence = First)
      <3>1. c.pc \in Opened /\ c.pc \in Early
        BY <1>9, <2>3 DEF Early
      <3>2. /\ c.next = First /\ (c.state \in {"SYN_SENT", "CLOSED"} \/ c.sequence = First)
            /\ c.streaming = FALSE /\ c.retransmiting = FALSE
        BY <1>2, <1>10, <3>1 DEF Calling
      <3> QED
        BY <1>8, <3>2
    <2>4. ASSUME d.pc = "open", w.result = "none" PROVE d.next = First /\ d.sequence = First
      <3>1. /\ c.pc = "open" /\ c.next = First /\ c.sequence = First
            /\ c.streaming = FALSE /\ c.retransmiting = FALSE
        BY <1>2, <1>9, <1>10, <2>4 DEF Calling
      <3> QED
        BY <1>8, <3>1
    <2>5. d.pc \notin Trying => w.connects >= 1
      BY <1>2, <1>9 DEF Calling
    <2> QED
      BY <1>9, <2>1, <2>2, <2>3, <2>4, <2>5 DEF Calling
  <1>12. Streaming(d, w, D)
    BY <1>2, <1>9 DEF Streaming
  <1>13. \A b \in d.out : Asks(b)
    BY <1>2, <1>8 DEF Asks
  <1>14. net' \subseteq net \cup Posted(Client, d)
    BY <1>1, CarriedSome DEF d
  <1>15. delivered'[Server] = delivered[Server]
    <2> DEFINE T == Seq([seq : Nat, byte : Nat])
    <2>1. delivered \in [Peers -> T]
      BY DEF DInv
    <2> HIDE DEF T
    <2> QED
      BY <1>1, <2>1, WriteFacts
  <1> QED
    BY <1>1, <1>7, <1>8, <1>9, <1>11, <1>12, <1>13, <1>14, <1>15, ClientMoves DEF c, w, D, d

(* The client's alarm: a SYN is sent again with its number.                *)
LEMMA ClientExpiresWrites ==
    ASSUME CInv, DInv, WInv, Timeout(Client)
    PROVE  WInv'
  <1> DEFINE c == conn[Client]
             w == strm[Client]
             D == delivered[Server]
             off   == [c EXCEPT !.alarm = FALSE]
             again == [off EXCEPT !.tries = @ + 1, !.next = @ - 1]
             g     == Moved(off, "CLOSED")
             f     == Forgiven(g)
             d     == Expired(c)
  <1>1. Become(Client, d) /\ strm' = strm /\ delivered' = delivered /\ c.alarm
    BY DEF Timeout
  <1>2. /\ Whole(c) /\ c.out = {} /\ Calling(c, w) /\ Streaming(c, w, D) /\ c.next \in Nat
        /\ (c.pc \notin InWrite => c.retransmiting = FALSE)
    BY ClientEnd
  <1>3. EndOK(Client, c) /\ ClientISN \in Nat /\ c.next > ClientISN
    BY <1>1, WriteFacts DEF EndOK
  <1>4. \/ d \in {off, Signal(g), Signal(f)}
        \/ d = Armed(FSend(again, {"FIN", "ACK"})) /\ c.state \in {"FIN_WAIT1", "LAST_ACK", "CLOSING"}
        \/ d = Armed(FSend(again, {"SYN"})) /\ c.state = "SYN_SENT"
    BY DEF Expired
  <1> HIDE DEF c, w, D
  <1> DEFINE Same(x) == Whole(x) /\ x.current = c.current /\ x.next = c.next /\ x.sequence = c.sequence
                        /\ x.streaming = c.streaming /\ x.out = {}
  <1>5. Same(off) /\ off.state = c.state /\ off.pc = c.pc
    BY <1>2 DEF Whole, Names
  <1>6. /\ Whole(again) /\ again.current = c.current /\ again.next = c.next - 1 /\ again.sequence = c.sequence
        /\ again.streaming = c.streaming /\ again.out = {} /\ again.pc = c.pc /\ again.state = c.state
        /\ again.retransmiting = c.retransmiting
    <2>1. Whole(off) /\ off.next = c.next /\ off.current = c.current /\ off.sequence = c.sequence
          /\ off.streaming = c.streaming /\ off.out = {} /\ off.pc = c.pc /\ off.state = c.state
          /\ off.retransmiting = c.retransmiting
      BY <1>2 DEF Whole, Names
    <2> HIDE DEF off
    <2> QED
      BY <2>1 DEF Whole, Names
  <1> HIDE DEF off, again
  <1>7. Same(g) /\ g.state = "CLOSED" /\ g.pc = c.pc
    BY <1>5 DEF Moved, Whole, Names
  <1> HIDE DEF g
  <1>8. Same(f) /\ f.state = "CLOSED" /\ f.pc = c.pc
    BY <1>7 DEF Forgiven, Whole, Names
  <1> HIDE DEF f
  <1>9. /\ Same(Signal(g)) /\ Signal(g).state = "CLOSED" /\ Signal(g).pc = Roused(c.pc)
        /\ Same(Signal(f)) /\ Signal(f).state = "CLOSED" /\ Signal(f).pc = Roused(c.pc)
    BY <1>7, <1>8 DEF Signal, Roused, Whole, Names
  <1>10. ASSUME NEW flags, flags \in {{"FIN", "ACK"}, {"SYN"}}, c.retransmiting = FALSE, d = Armed(FSend(again, flags))
         PROVE  /\ Whole(d) /\ d.current = c.current /\ d.next = c.next /\ d.sequence = c.next - 1
                /\ d.streaming = c.streaming /\ d.pc = c.pc /\ d.state = c.state
                /\ \A b \in d.out : b.flags = flags /\ b.seq = c.next - 1
    <2> DEFINE s == again.next
               b == [flags |-> flags, seq |-> s, ack |-> again.acknowledgment, data |-> <<>>]
               e == [again EXCEPT !.sequence = s, !.next = again.next + 1, !.out = again.out \cup {b}]
    <2>1. flags \cap {"SYN", "FIN"} # {}
      BY <1>10
    <2>2. FSend(again, flags) = e
      BY <1>6, <1>10, <2>1 DEF FSend
    <2>3. /\ Whole(e) /\ e.current = c.current /\ e.next = c.next /\ e.sequence = c.next - 1
          /\ e.streaming = c.streaming /\ e.pc = c.pc /\ e.state = c.state /\ e.out = {b}
      <3>1. again.next + 1 = c.next /\ s = c.next - 1 /\ again.out \cup {b} = {b}
        BY <1>2, <1>6
      <3> HIDE DEF b, s
      <3> QED
        BY <1>6, <3>1 DEF Whole, Names
    <2>4. b.flags = flags /\ b.seq = c.next - 1
      BY <1>6
    <2> HIDE DEF e, b
    <2>5. d = Armed(e)
      BY <1>10, <2>2
    <2> HIDE DEF d
    <2> QED
      BY <2>3, <2>4, <2>5 DEF Armed, Whole, Names
  <1> HIDE DEF d
  <1>11. c.pc \in Early \cup {"open"} \cup InWrite \cup Ends
    BY <1>2 DEF Calling
  <1>12. ASSUME d \in {off, Signal(g), Signal(f)}
         PROVE  Whole(d) /\ d.current = c.current /\ (c.pc \in Ends => d.pc \in Ends) /\ Asking(d)
                /\ Calling(d, w) /\ Streaming(d, w, D)
    <2>1. /\ Same(d)
          /\ \/ d.state = c.state /\ d.pc = c.pc
             \/ d.state = "CLOSED" /\ d.pc = Roused(c.pc)
      BY <1>5, <1>9, <1>12
    <2>2. d.pc = c.pc \/ (d.pc = "attach" /\ c.pc = "in_connect") \/ (d.pc = "deleted" /\ c.pc = "in_close")
      BY <1>11, <2>1 DEF Roused, Early, Trying, Opened, InWrite, Ends
    <2>3. Calling(d, w)
      BY <1>2, <2>1, <2>2 DEF Calling, Early, Trying, Opened, InWrite, Ends
    <2>4. Streaming(d, w, D)
      BY <1>2, <2>2 DEF Streaming, InWrite
    <2>5. c.pc \in Ends => d.pc \in Ends
      BY <2>2 DEF Ends
    <2>6. Asking(d)
      BY <2>1 DEF Asking
    <2> QED
      BY <2>1, <2>3, <2>4, <2>5, <2>6
  <1>13. ASSUME d = Armed(FSend(again, {"FIN", "ACK"})), c.state \in {"FIN_WAIT1", "LAST_ACK", "CLOSING"}
         PROVE  Whole(d) /\ d.current = c.current /\ (c.pc \in Ends => d.pc \in Ends) /\ Asking(d)
                /\ Calling(d, w) /\ Streaming(d, w, D)
    <2>1. c.pc \in Ends /\ c.pc \notin InWrite
      BY <1>3, <1>13 DEF EndOK, Closers, Ends, InWrite
    <2>2. /\ Whole(d) /\ d.current = c.current /\ d.pc = c.pc
          /\ \A b \in d.out : b.flags = {"FIN", "ACK"}
      BY <1>2, <1>10, <1>13, <2>1
    <2>3. Calling(d, w) /\ Streaming(d, w, D)
      BY <1>2, <2>1, <2>2 DEF Calling, Streaming, Early, Trying, Opened, InWrite, Ends
    <2>4. Asking(d)
      BY <2>2 DEF Asking, Asks
    <2> QED
      BY <2>2, <2>3, <2>4
  <1>14. ASSUME d = Armed(FSend(again, {"SYN"})), c.state = "SYN_SENT"
         PROVE  Whole(d) /\ d.current = c.current /\ (c.pc \in Ends => d.pc \in Ends) /\ Asking(d)
                /\ Calling(d, w) /\ Streaming(d, w, D)
    <2>1. c.pc \in {"syn", "sent_syn", "in_connect"}
      BY <1>3, <1>14 DEF EndOK
    <2>2. c.pc \in {"sent_syn", "in_connect"} /\ c.pc \in Opened /\ c.next = First /\ c.pc \notin InWrite
      BY <1>2, <1>3, <2>1 DEF Calling, Opened, InWrite
    <2>3. /\ Whole(d) /\ d.current = c.current /\ d.pc = c.pc /\ d.next = c.next /\ d.state = c.state /\ d.streaming = c.streaming
          /\ \A b \in d.out : b.flags = {"SYN"} /\ b.seq = c.next - 1
      BY <1>2, <1>10, <1>14, <2>2
    <2>4. Calling(d, w) /\ Streaming(d, w, D)
      BY <1>2, <1>14, <2>2, <2>3 DEF Calling, Streaming, Early, Trying, Opened, InWrite, Ends
    <2>5. Asking(d)
      BY <1>3, <2>2, <2>3 DEF Asking, Asks, First
    <2> QED
      BY <2>3, <2>4, <2>5
  <1>15. Whole(d) /\ d.current = c.current /\ (c.pc \in Ends => d.pc \in Ends) /\ Asking(d)
                /\ Calling(d, w) /\ Streaming(d, w, D)
    BY <1>4, <1>12, <1>13, <1>14
  <1> QED
    BY <1>1, <1>15, ClientStays DEF c, w, D

LEMMA ClientResumes ==
    ASSUME CInv, DInv, WInv, StreamTimeout(Client)
    PROVE  WInv'
  <1> DEFINE c == conn[Client]
             d == SignalStream(c)
  <1>1. Become(Client, d) /\ strm' = strm /\ delivered' = delivered /\ c.pc = "in_stream"
    BY DEF StreamTimeout, At
  <1>2. /\ Whole(d) /\ d.current = c.current /\ d.pc = "resumed" /\ d.out = {}
    BY <1>1, ClientEnd DEF SignalStream, Whole, Names
  <1> HIDE DEF d
  <1>3. Calling(d, strm[Client]) /\ Streaming(d, strm[Client], delivered[Server])
    BY <1>1, <1>2, ClientEnd DEF Calling, Streaming, Early, Trying, Opened, InWrite, Ends
  <1>4. Asking(d) /\ c.pc \notin Ends
    BY <1>1, <1>2 DEF Asking, Ends
  <1> QED
    BY <1>1, <1>2, <1>3, <1>4, ClientStays

(* A step of the client's thread                                           *)
Likewise(c, d, k) ==
    Whole(d) /\ d.current = c.current /\ d.next = c.next /\ d.sequence = c.sequence /\ d.streaming = c.streaming
    /\ d.state = c.state /\ d.pc = k /\ d.out = c.out

LEMMA GotoLikewise ==
    ASSUME NEW x, Whole(x), NEW k
    PROVE  Likewise(x, Goto(x, k), k)
  BY DEF Likewise, Goto, Whole, Names

LEMMA ClientSteps ==
    ASSUME CInv, DInv, WInv, NEW l, NEW x, NEW k, Step(Client, l, x, k), Whole(x), Asking(x),
           x.current = conn[Client].current, conn[Client].pc \in Ends => k \in Ends,
           \A d : Likewise(x, d, k) => /\ Calling(d, strm'[Client])
                                       /\ Streaming(d, strm'[Client], delivered[Server])
    PROVE  WInv'
  <1> DEFINE d == Goto(x, k)
  <1>1. Become(Client, d) /\ delivered' = delivered
    BY DEF Step
  <1>2. Likewise(x, d, k)
    BY GotoLikewise
  <1> HIDE DEF d
  <1>3. Calling(d, strm'[Client]) /\ Streaming(d, strm'[Client], delivered[Server])
    BY <1>2
  <1>4. Whole(d) /\ d.current = conn[Client].current /\ Asking(d) /\ d.pc = k
    BY <1>2 DEF Likewise, Asking
  <1> QED
    BY <1>1, <1>3, <1>4, ClientStays

LEMMA StepLabel ==
    ASSUME CInv, DInv, NEW l, NEW x, NEW k, Step(Client, l, x, k), Whole(x)
    PROVE  conn[Client].pc = l /\ conn'[Client].pc = k /\ conn'[Server] = conn[Server]
  <1> DEFINE d == Goto(x, k)
  <1>1. conn' = [conn EXCEPT ![Client] = Stored(Client, d)] /\ conn[Client].pc = l
    BY DEF Step, At, Become
  <1>2. Whole(d) /\ d.pc = k
    BY GotoLikewise DEF Likewise
  <1> HIDE DEF d
  <1>3. Stored(Client, d).pc = k
    BY <1>2, StoredAlike DEF Alike
  <1> QED
    BY <1>1, <1>3, WriteFacts

LEMMA ClientConnects ==
    ASSUME CInv, DInv, WInv, Connect(Client)
    PROVE  WInv'
  <1> DEFINE c == conn[Client]
             w == strm[Client]
             D == delivered[Server]
  <1>0. /\ Whole(c) /\ c.out = {} /\ Asking(c) /\ Calling(c, w) /\ Streaming(c, w, D) /\ c.next \in Nat
        /\ (c.pc \notin InWrite => c.retransmiting = FALSE) /\ w.connects \in Nat /\ w \in Stream
    BY ClientEnd, WriteFacts
  <1>1. "syn" \notin Ends \cup InWrite /\ "connect" \notin Ends \cup InWrite /\ "sent_syn" \notin Ends \cup InWrite
    BY DEF Ends, InWrite
  <1>2. CASE ConnectState(Client)
    <2> DEFINE x == Moved(c, "SYN_SENT")
    <2>1. Step(Client, "connect", x, "syn") /\ c.pc = "connect" /\ strm' = strm
      BY <1>2 DEF ConnectState, Step, At
    <2>2. /\ Whole(x) /\ x.current = c.current /\ x.out = {} /\ x.state = "SYN_SENT" /\ x.next = c.next
          /\ x.streaming = c.streaming
      BY <1>0 DEF Moved, Whole, Names
    <2> HIDE DEF x, c
    <2>3. Asking(x)
      BY <2>2 DEF Asking
    <2>4. ASSUME NEW d, Likewise(x, d, "syn") PROVE Calling(d, w) /\ Streaming(d, w, D)
      BY <1>0, <2>1, <2>2, <2>4 DEF Likewise, Calling, Streaming, Early, Trying, Opened, InWrite, Ends
    <2> QED
      BY <1>1, <2>1, <2>2, <2>3, <2>4, ClientSteps DEF c
  <1>3. CASE ConnectSend(Client)
    <2> DEFINE n == c.next + 1
               b == [flags |-> {"SYN"}, seq |-> c.next, ack |-> c.acknowledgment, data |-> <<>>]
               e == [c EXCEPT !.sequence = c.next, !.next = n, !.out = c.out \cup {b}]
               x == FSend(c, {"SYN"})
    <2>1. Step(Client, "syn", x, "sent_syn") /\ c.pc = "syn" /\ strm' = strm
      BY <1>3 DEF ConnectSend, Step, At
    <2>2. x = e
      <3>1. c.retransmiting = FALSE /\ {"SYN"} \cap {"SYN", "FIN"} # {}
        BY <1>0, <1>1, <2>1
      <3> QED
        BY <3>1 DEF FSend
    <2>3. c.next = ClientISN /\ c.state \in {"SYN_SENT", "CLOSED"}
      BY <1>0, <2>1 DEF Calling
    <2>4. Asks(b)
      BY <2>3 DEF Asks
    <2> HIDE DEF b, x, c, n
    <2>5. /\ Whole(e) /\ e.current = c.current /\ e.out = {b} /\ e.state = c.state /\ e.next = n
          /\ e.streaming = c.streaming
      BY <1>0 DEF Whole, Names
    <2> HIDE DEF e
    <2>6. n = First
      BY <2>3 DEF n, First
    <2>7. Asking(x)
      BY <2>2, <2>4, <2>5 DEF Asking
    <2>8. ASSUME NEW d, Likewise(x, d, "sent_syn") PROVE Calling(d, w) /\ Streaming(d, w, D)
      BY <1>0, <2>1, <2>2, <2>3, <2>5, <2>6, <2>8 DEF Likewise, Calling, Streaming, Early, Trying, Opened, InWrite, Ends
    <2> QED
      BY <1>1, <2>1, <2>2, <2>5, <2>7, <2>8, ClientSteps DEF c
  <1>4. CASE ConnectWait(Client)
    <2> DEFINE u == [c EXCEPT !.unacknowledged = c.sequence]
               x == Armed(u)
               v == strm'[Client]
    <2>1. /\ Step(Client, "sent_syn", x, "in_connect") /\ c.pc = "sent_syn"
          /\ strm' = [strm EXCEPT ![Client].connects = @ + 1]
      BY <1>4 DEF ConnectWait, Step, At
    <2>2. Likewise(c, u, c.pc)
      BY <1>0 DEF Likewise, Whole, Names
    <2> HIDE DEF u
    <2>3. Likewise(c, x, c.pc)
      BY <2>2 DEF Armed, Likewise, Whole, Names
    <2> HIDE DEF x
    <2>4. v = [w EXCEPT !.connects = w.connects + 1]
      BY <2>1, WriteFacts
    <2>5. v.connects = w.connects + 1 /\ v.result = w.result /\ v.initial_seq = w.initial_seq
      BY <1>0, <2>4 DEF Stream
    <2> HIDE DEF v, w, c
    <2>6. Asking(x)
      BY <1>0, <2>3 DEF Asking, Likewise
    <2>7. ASSUME NEW d, Likewise(x, d, "in_connect") PROVE Calling(d, v) /\ Streaming(d, v, D)
      BY <1>0, <2>1, <2>3, <2>5, <2>7 DEF Likewise, Calling, Streaming, Early, Trying, Opened, InWrite, Ends
    <2> QED
      BY <1>1, <2>1, <2>3, <2>6, <2>7, ClientSteps DEF c, v, Likewise
  <1> QED
    BY <1>2, <1>3, <1>4 DEF Connect

LEMMA ClientAttaches ==
    ASSUME CInv, DInv, WInv, Attach(Client), Once(conn'[Client], strm'[Client])
    PROVE  WInv'
  <1> DEFINE c == conn[Client]
             w == strm[Client]
             D == delivered[Server]
  <1>0. /\ Whole(c) /\ c.out = {} /\ Asking(c) /\ Calling(c, w) /\ Streaming(c, w, D) /\ w.connects \in Nat
    BY ClientEnd
  <1>1. c.pc = "attach" /\ strm' = strm
    BY DEF Attach, Step, At
  <1>2. w.connects >= 1
    BY <1>0, <1>1 DEF Calling, Trying
  <1>3. PICK k \in {"open", "delete", "connect"} :
            Step(Client, "attach", c, k) /\ (k = "open" => c.state = "ESTABLISHED") /\ k # "connect"
    <2>1. PICK k \in {"open", "delete", "connect"} :
              Step(Client, "attach", c, k) /\ (k = "open" => c.state = "ESTABLISHED")
      BY DEF Attach
    <2>2. conn'[Client].pc = k
      BY <1>0, <2>1, StepLabel
    <2>3. k # "connect"
      BY <1>0, <1>1, <1>2, <2>2 DEF Once, Trying
    <2> QED
      BY <2>1, <2>3
  <1> HIDE DEF c, w, D
  <1>4. ASSUME NEW d, Likewise(c, d, k) PROVE Calling(d, w) /\ Streaming(d, w, D)
    BY <1>0, <1>1, <1>2, <1>3, <1>4 DEF Likewise, Calling, Streaming, Early, Trying, Opened, InWrite, Ends
  <1>5. c.pc \notin Ends
    BY <1>1 DEF Ends
  <1> QED
    BY <1>0, <1>1, <1>3, <1>4, <1>5, ClientSteps DEF c, w, D

(* detach() and close()                                                    *)
LEMMA ClientLeaves ==
    ASSUME CInv, DInv, WInv, Detach(Client) \/ (Close(Client) /\ ~Detached(Client))
    PROVE  WInv'
  <1> DEFINE c == conn[Client]
             w == strm[Client]
             D == delivered[Server]
  <1>0. /\ Whole(c) /\ c.out = {} /\ Asking(c) /\ Calling(c, w) /\ Streaming(c, w, D) /\ w.connects \in Nat
        /\ (c.pc \notin InWrite => c.retransmiting = FALSE)
    BY ClientEnd
  <1>1. ASSUME NEW l, NEW x, NEW k \in Ends, Step(Client, l, x, k), strm' = strm, l \in Ends \cup {"open"},
               Whole(x), x.current = c.current, Asking(x)
        PROVE  WInv'
    <2>1. c.pc \in Ends \cup {"open"}
      BY <1>1 DEF Step, At
    <2>2. w.connects >= 1
      BY <1>0, <2>1 DEF Calling, Trying, Ends
    <2> HIDE DEF c, w, D
    <2>3. k \notin Early \cup {"open"} \cup InWrite /\ k \notin Trying
      BY <1>1 DEF Ends, Early, Trying, Opened, InWrite
    <2>4. ASSUME NEW d, Likewise(x, d, k) PROVE Calling(d, w) /\ Streaming(d, w, D)
      <3>1. d.pc = k
        BY <2>4 DEF Likewise
      <3>2. Calling(d, w)
        BY <1>1, <2>2, <2>3, <3>1 DEF Calling, Early
      <3>3. Streaming(d, w, D)
        BY <1>0, <2>3, <3>1 DEF Streaming, InWrite
      <3> QED
        BY <3>2, <3>3
    <2> QED
      BY <1>1, <2>4, ClientSteps DEF c, w, D
  <1>2. {"delete", "close", "to_fin_wait1", "to_last_ack", "fin", "sent_fin", "in_close", "deleted"} \subseteq Ends
    BY DEF Ends
  <1>3. CASE Detach(Client)
    <2> DEFINE x == [c EXCEPT !.observer = FALSE, !.alarm = FALSE]
    <2>1. Step(Client, "open", x, "close") /\ strm' = strm
      BY <1>3 DEF Detach
    <2>2. Whole(x) /\ x.current = c.current /\ x.out = {}
      BY <1>0 DEF Whole, Names
    <2> HIDE DEF x
    <2>3. Asking(x)
      BY <2>2 DEF Asking
    <2> QED
      BY <1>1, <1>2, <2>1, <2>2, <2>3
  <1>4. CASE Destroy(Client)
    <2> DEFINE x == [c EXCEPT !.alarm = FALSE]
    <2>1. Step(Client, "delete", x, "close") /\ strm' = strm
      BY <1>4 DEF Destroy
    <2>2. Whole(x) /\ x.current = c.current /\ x.out = {}
      BY <1>0 DEF Whole, Names
    <2> HIDE DEF x
    <2>3. Asking(x)
      BY <2>2 DEF Asking
    <2> QED
      BY <1>1, <1>2, <2>1, <2>2, <2>3
  <1>5. ASSUME NEW S
        PROVE  Whole(Moved(c, S)) /\ Moved(c, S).current = c.current /\ Asking(Moved(c, S))
    <2>1. Whole(Moved(c, S)) /\ Moved(c, S).current = c.current /\ Moved(c, S).out = {}
      BY <1>0 DEF Moved, Whole, Names
    <2> QED
      BY <2>1 DEF Asking
  <1>6. CASE CloseAtOnce(Client)
    <2>1. Step(Client, "close", Moved(c, "CLOSED"), "deleted") /\ strm' = strm
      BY <1>6 DEF CloseAtOnce
    <2> QED
      BY <1>1, <1>2, <1>5, <2>1
  <1>7. CASE CloseTest(Client)
    <2>1. PICK k \in {"to_fin_wait1", "to_last_ack", "fin"} : Step(Client, "close", c, k) /\ strm' = strm
      BY <1>7 DEF CloseTest
    <2> QED
      BY <1>0, <1>1, <1>2, <2>1
  <1>8. CASE CloseState(Client)
    <2>1. PICK l \in {"to_fin_wait1", "to_last_ack"}, S \in {"FIN_WAIT1", "LAST_ACK"} :
             Step(Client, l, Moved(c, S), "fin") /\ strm' = strm
      BY <1>8 DEF CloseState
    <2> QED
      BY <1>1, <1>2, <1>5, <2>1
  <1>9. CASE CloseSend(Client)
    <2> DEFINE x == FSend(c, {"ACK", "FIN"})
    <2>1. Step(Client, "fin", x, "sent_fin") /\ strm' = strm
      BY <1>9 DEF CloseSend
    <2>2. Whole(x) /\ x.current = c.current /\ \A b \in x.out : b.flags = {"ACK", "FIN"}
      BY <1>0 DEF FSend, Whole, Names
    <2> HIDE DEF x
    <2>3. Asking(x)
      BY <2>2 DEF Asking, Asks
    <2> QED
      BY <1>1, <1>2, <2>1, <2>2, <2>3
  <1>10. CASE CloseWaits(Client)
    <2> DEFINE x == Armed(c)
    <2>1. Step(Client, "sent_fin", x, "in_close") /\ strm' = strm
      BY <1>10 DEF CloseWaits
    <2>2. Whole(x) /\ x.current = c.current /\ x.out = {}
      BY <1>0 DEF Armed, Whole, Names
    <2> HIDE DEF x
    <2>3. Asking(x)
      BY <2>2 DEF Asking
    <2> QED
      BY <1>1, <1>2, <2>1, <2>2, <2>3
  <1> QED
    BY <1>3, <1>4, <1>6, <1>7, <1>8, <1>9, <1>10 DEF Close

LEMMA ClientDetached ==
    ASSUME CInv, DInv, WInv, Detached(Client)
    PROVE  WInv'
  <1> DEFINE a == conn[Client].acknowledgment
             d == [Connection(Client) EXCEPT !.acknowledgment = a, !.bound = "none", !.pc = "gone"]
             D == delivered[Server]
             w == strm[Client]
  <1>1. /\ conn' = [conn EXCEPT ![Client] = d] /\ net' \subseteq net /\ delivered' = delivered /\ strm' = strm
        /\ conn[Client].pc = "deleted"
    BY DEF Detached, At
  <1>2. d.pc = "gone" /\ d.current = 0
    BY DEF Connection
  <1> HIDE DEF d
  <1>3. conn'[Client] = d /\ conn'[Server] = conn[Server]
    BY <1>1, WriteFacts
  <1>4. w.connects >= 1
    BY <1>1, ClientEnd DEF Calling, Trying
  <1>5. Calling(d, w) /\ Streaming(d, w, D)
    BY <1>2, <1>4, ClientEnd DEF Calling, Streaming, Early, Trying, Opened, InWrite, Ends
  <1>6. Heard(d, conn[Server], D)
    <2>1. conn[Server].acknowledgment \in Nat
      BY WriteFacts DEF Conn
    <2> QED
      BY <1>2, <2>1 DEF Heard, Ends
  <1>7. \A m \in net' : Sent(conn[Server], m)
    BY <1>1 DEF WInv
  <1>8. Numbered(D) /\ Counted(conn[Server], D)
    BY DEF WInv
  <1> QED
    BY <1>1, <1>3, <1>5, <1>6, <1>7, <1>8 DEF WInv

(* The client does not listen.                                             *)
LEMMA ClientOnly ==
    ASSUME CInv, DInv, WInv
    PROVE  ~Listen(Client)
  <1>1. conn[Client].pc \in Early \cup {"open"} \cup InWrite \cup Ends
    BY ClientEnd DEF Calling
  <1>2. \A l \in {"listen", "listening", "answer", "answered", "received"} :
            l \notin Early \cup {"open"} \cup InWrite \cup Ends
    BY DEF Early, Trying, Opened, InWrite, Ends
  <1> QED
    BY <1>1, <1>2 DEF Listen, ListenState, ListenWait, ListenSend, ListenReceived, ListenReceivedWait, Step, At

(* What the third part of the for statement counts was delivered.          *)
LEMMA CountedBytes ==
    ASSUME CInv, DInv, WInv, conn[Client].pc \in InWrite, conn[Client].current - First = Size
    PROVE  Ample(delivered[Server])
  <1> DEFINE a == conn[Server].acknowledgment
             n == Len(delivered[Server])
             u == conn[Client].current
  <1>1. a \in Nat /\ n \in Nat /\ u \in Nat /\ First \in Nat /\ Size \in Nat
    BY WriteFacts DEF Conn
  <1>2. conn[Client].pc \notin Ends
    BY DEF InWrite, Ends
  <1>3. u <= a /\ (a <= First + n \/ Ample(delivered[Server]))
    BY <1>2 DEF WInv, Heard
  <1>4. CASE a <= First + n
    BY <1>1, <1>3, <1>4 DEF Ample
  <1> QED
    BY <1>3, <1>4

(* A step of write() that keeps the connection's label in it               *)
LEMMA WriteSteps ==
    ASSUME CInv, DInv, WInv, NEW l, NEW x, NEW k \in InWrite, Step(Client, l, x, k), l \in InWrite \cup {"open"},
           Whole(x), Asking(x), x.current = conn[Client].current,
           strm'[Client].initial_seq = First, strm'[Client].tries <= RETRIES,
           strm'[Client].acknowledged = Size => Ample(delivered[Server]),
           strm'[Client].connects = strm[Client].connects, strm'[Client].result = strm[Client].result,
           k \in {"full", "in_stream", "resumed"} => strm'[Client].tries < RETRIES
    PROVE  WInv'
  <1> DEFINE c == conn[Client]
             w == strm[Client]
             v == strm'[Client]
             D == delivered[Server]
  <1>1. c.pc = l /\ Calling(c, w) /\ Streaming(c, w, D)
    BY ClientEnd DEF Step, At
  <1>2. c.pc \notin Trying /\ c.pc \notin Ends
    BY <1>1 DEF InWrite, Trying, Ends
  <1>3. k \notin Early \cup {"open"} \cup Ends /\ k \notin Trying
    BY DEF InWrite, Early, Trying, Opened, Ends
  <1>4. ASSUME NEW d, Likewise(x, d, k) PROVE Calling(d, v) /\ Streaming(d, v, D)
    <2>1. d.pc = k
      BY <1>4 DEF Likewise
    <2> HIDE DEF v, w, D, c
    <2>2. Calling(d, v)
      BY <1>1, <1>2, <1>3, <2>1 DEF Calling, Early, v, w
    <2>3. Streaming(d, v, D)
      BY <1>1, <1>3, <2>1 DEF Streaming, v, w, D
    <2> QED
      BY <2>2, <2>3
  <1> QED
    BY <1>2, <1>4, ClientSteps

LEMMA ClientWrites ==
    ASSUME CInv, DInv, WInv, Write(Client)
    PROVE  WInv'
  <1> DEFINE c == conn[Client]
             w == strm[Client]
             v == strm'[Client]
             D == delivered[Server]
  <1>0. /\ Whole(c) /\ c.out = {} /\ Asking(c) /\ Calling(c, w) /\ Streaming(c, w, D) /\ w.tries \in Nat
        /\ w \in Stream /\ Client \in Peers /\ strm \in [Peers -> Stream] /\ c \in Conn
        /\ Size \in Nat /\ Size > 0 /\ RETRIES \in Nat /\ RETRIES > 0
    BY ClientEnd, WriteFacts, TCPAssumption
  <1>1. c.pc \in InWrite => /\ w.initial_seq = First /\ w.tries <= RETRIES /\ (w.acknowledged = Size => Ample(D))
                            /\ c.pc \in {"full", "in_stream", "resumed"} => w.tries < RETRIES
    BY <1>0 DEF Streaming
  <1>2. {"write", "sent", "full", "in_stream", "resumed"} \subseteq InWrite
    BY DEF InWrite
  <1>3. ASSUME NEW x, x \in Stream, NEW e
        PROVE  /\ Advanced(x, e).initial_seq = x.initial_seq /\ Advanced(x, e).tries = x.tries
               /\ Advanced(x, e).connects = x.connects /\ Advanced(x, e).result = x.result
               /\ Advanced(x, e).acknowledged = e.current - x.initial_seq
    BY <1>3 DEF Advanced, Stream
  <1>4. CASE WriteCall(Client)
    <2>1. Step(Client, "open", c, "write") /\ c.pc = "open" /\ w.result = "none"
      BY <1>4 DEF WriteCall, Step, At
    <2>2. v = [w EXCEPT !.allowed = WINDOW, !.left = Size, !.acknowledged = 0,
                        !.initial_seq = c.sequence, !.tries = 0, !.data = 0]
      BY <1>0, <1>4 DEF WriteCall
    <2>3. /\ v.initial_seq = c.sequence /\ v.tries = 0 /\ v.acknowledged = 0 /\ v.connects = w.connects
          /\ v.result = w.result
      BY <1>0, <2>2 DEF Stream
    <2>4. c.sequence = First
      BY <1>0, <2>1 DEF Calling
    <2> HIDE DEF v
    <2>5. v.initial_seq = First /\ v.tries <= RETRIES /\ v.acknowledged # Size
      BY <1>0, <2>3, <2>4
    <2> QED
      BY <1>0, <1>2, <2>1, <2>3, <2>5, WriteSteps DEF v
  <1>5. CASE WriteSend(Client)
    <2> DEFINE data == [i \in 1 .. Payload(Client) |-> Byte(strm[Client].data + i)]
               e == [c EXCEPT !.streaming = TRUE]
               x == DSend(e, data)
    <2>1. Step(Client, "write", x, "sent") /\ c.pc = "write"
      BY <1>5 DEF WriteSend, Step, At
    <2>2. v = [w EXCEPT !.data = w.data + Payload(Client), !.left = w.left - Payload(Client)]
      BY <1>0, <1>5 DEF WriteSend
    <2>3. /\ v.initial_seq = w.initial_seq /\ v.tries = w.tries /\ v.acknowledged = w.acknowledged
          /\ v.connects = w.connects /\ v.result = w.result
      BY <1>0, <2>2 DEF Stream
    <2> HIDE DEF v, data
    <2>4. Whole(e) /\ e.out = {} /\ e.current = c.current
      BY <1>0 DEF Whole, Names
    <2> HIDE DEF e
    <2>5. Whole(x) /\ x.current = c.current /\ \A b \in x.out : b.flags = {"ACK"}
      BY <2>4 DEF DSend, Whole, Names
    <2> HIDE DEF x
    <2>6. Asking(x)
      BY <2>5 DEF Asking, Asks
    <2>7. "sent" \notin {"full", "in_stream", "resumed"}
      OBVIOUS
    <2> QED
      BY <1>1, <1>2, <2>1, <2>3, <2>5, <2>6, <2>7, WriteSteps DEF v
  <1>6. CASE WriteSent(Client)
    <2>1. PICK r : LET x == [c EXCEPT !.retransmiting = r]
                   IN  /\ Step(Client, "sent", x, "write")
                       /\ strm' = [strm EXCEPT ![Client] = Advanced(@, x)]
      BY <1>6, Zenon DEF WriteSent
    <2> DEFINE x == [c EXCEPT !.retransmiting = r]
    <2>2. Step(Client, "sent", x, "write") /\ c.pc = "sent" /\ v = Advanced(w, x)
      BY <1>0, <2>1 DEF Step, At
    <2>3. Whole(x) /\ x.current = c.current /\ x.out = {}
      BY <1>0 DEF Whole, Names
    <2> HIDE DEF x
    <2>4. /\ v.initial_seq = w.initial_seq /\ v.tries = w.tries /\ v.acknowledged = x.current - w.initial_seq
          /\ v.connects = w.connects /\ v.result = w.result
      BY <1>0, <1>3, <2>2
    <2> HIDE DEF v
    <2>5. v.acknowledged = Size => Ample(D)
      BY <1>1, <1>2, <2>2, <2>3, <2>4, CountedBytes
    <2>6. Asking(x)
      BY <2>3 DEF Asking
    <2>7. "write" \notin {"full", "in_stream", "resumed"}
      OBVIOUS
    <2> QED
      BY <1>1, <1>2, <2>2, <2>3, <2>4, <2>5, <2>6, <2>7, WriteSteps DEF v
  <1>7. CASE WriteFull(Client)
    <2> DEFINE x == [c EXCEPT !.streaming = TRUE]
    <2>1. Step(Client, "write", x, "full") /\ c.pc = "write" /\ w.tries < RETRIES
      BY <1>7 DEF WriteFull, Writing, Step, At
    <2>2. v = [w EXCEPT !.old_ack = c.current]
      BY <1>0, <1>7 DEF WriteFull
    <2>3. /\ v.initial_seq = w.initial_seq /\ v.tries = w.tries /\ v.acknowledged = w.acknowledged
          /\ v.connects = w.connects /\ v.result = w.result
      BY <1>0, <2>2 DEF Stream
    <2> HIDE DEF v
    <2>4. Whole(x) /\ x.current = c.current /\ x.out = {}
      BY <1>0 DEF Whole, Names
    <2> HIDE DEF x
    <2>5. Asking(x)
      BY <2>4 DEF Asking
    <2> QED
      BY <1>1, <1>2, <2>1, <2>3, <2>4, <2>5, WriteSteps DEF v
  <1>8. CASE WriteWait(Client)
    <2>1. Step(Client, "full", c, "in_stream") /\ c.pc = "full" /\ v = w
      BY <1>8 DEF WriteWait, Step, At
    <2> QED
      BY <1>0, <1>1, <1>2, <2>1, WriteSteps
  <1>9. CASE WriteResumed(Client)
    <2> DEFINE again == c.current = w.old_ack
               f == [c EXCEPT !.retransmiting = TRUE, !.sequence = c.current, !.unacknowledged = c.current]
               x == IF again THEN f ELSE c
               g == [w EXCEPT !.data = w.acknowledged, !.left = Size - w.acknowledged, !.tries = w.tries + 1]
               h == [w EXCEPT !.tries = 0]
               y == IF again THEN g ELSE h
    <2>1. Step(Client, "resumed", x, "write") /\ c.pc = "resumed" /\ v = Advanced(y, x)
      BY <1>0, <1>9 DEF WriteResumed, Step, At
    <2>2. Whole(f) /\ f.current = c.current /\ f.out = {}
      BY <1>0 DEF Whole, Names
    <2> HIDE DEF f
    <2>3. Whole(x) /\ x.current = c.current /\ x.out = {}
      BY <1>0, <2>2
    <2>4. g \in Stream /\ g.initial_seq = w.initial_seq /\ g.tries = w.tries + 1 /\ g.connects = w.connects /\ g.result = w.result
      <3>1. w.acknowledged \in Int /\ Size - w.acknowledged \in Int /\ w.tries + 1 \in Nat
        BY <1>0 DEF Stream
      <3> QED
        BY <1>0, <3>1 DEF Stream
    <2>5. h \in Stream /\ h.initial_seq = w.initial_seq /\ h.tries = 0 /\ h.connects = w.connects /\ h.result = w.result
      BY <1>0 DEF Stream
    <2> HIDE DEF g, h
    <2>6. /\ y \in Stream /\ y.initial_seq = w.initial_seq /\ y.tries \in {w.tries + 1, 0} /\ y.connects = w.connects
          /\ y.result = w.result
      BY <2>4, <2>5
    <2> HIDE DEF x, y
    <2>7. /\ v.initial_seq = w.initial_seq /\ v.tries = y.tries /\ v.acknowledged = x.current - w.initial_seq
          /\ v.connects = w.connects /\ v.result = w.result
      BY <1>3, <2>1, <2>6
    <2> HIDE DEF v
    <2>8. v.acknowledged = Size => Ample(D)
      BY <1>1, <1>2, <2>1, <2>3, <2>7, CountedBytes
    <2>9. v.tries <= RETRIES /\ v.initial_seq = First
      BY <1>0, <1>1, <1>2, <2>1, <2>6, <2>7
    <2>10. Asking(x)
      BY <2>3 DEF Asking
    <2>11. "write" \notin {"full", "in_stream", "resumed"}
      OBVIOUS
    <2> QED
      BY <1>2, <2>1, <2>3, <2>7, <2>8, <2>9, <2>10, <2>11, WriteSteps DEF v
  <1>10. CASE WriteReturn(Client)
    <2> DEFINE x == [c EXCEPT !.streaming = FALSE, !.retransmiting = FALSE]
               r == IF w.tries = RETRIES \/ c.state \notin {"ESTABLISHED", "CLOSE_WAIT"} THEN "error" ELSE "size"
    <2>1. Step(Client, "write", x, "open") /\ c.pc = "write" /\ ~Writing(Client)
      BY <1>10 DEF WriteReturn, Step, At
    <2>2. v = [NoWrite EXCEPT !.connects = w.connects, !.initial_seq = w.initial_seq, !.result = r]
      BY <1>0, <1>10 DEF WriteReturn
    <2>3. v.connects = w.connects /\ v.initial_seq = w.initial_seq /\ v.result = r
      BY <2>2 DEF NoWrite
    <2>4. w.initial_seq = First /\ w.tries <= RETRIES /\ (w.acknowledged = Size => Ample(D)) /\ w.connects >= 1
      BY <1>0, <1>1, <1>2, <2>1 DEF Calling, Trying, InWrite
    <2>5. r = "size" => Ample(D)
      BY <1>0, <2>1, <2>4 DEF Writing
    <2>6. r # "none"
      OBVIOUS
    <2> HIDE DEF v, r
    <2>7. Whole(x) /\ x.current = c.current /\ x.out = {}
      BY <1>0 DEF Whole, Names
    <2> HIDE DEF x
    <2>8. Asking(x) /\ c.pc \notin Ends
      BY <2>1, <2>7 DEF Asking, Ends
    <2>9. ASSUME NEW d, Likewise(x, d, "open") PROVE Calling(d, v) /\ Streaming(d, v, D)
      BY <2>3, <2>4, <2>5, <2>6, <2>9 DEF Likewise, Calling, Streaming, Early, Trying, Opened, InWrite, Ends
    <2> QED
      BY <2>1, <2>7, <2>8, <2>9, ClientSteps DEF v
  <1> QED
    BY <1>4, <1>5, <1>6, <1>7, <1>8, <1>9, <1>10 DEF Write

LEMMA InitWrites ==
    ASSUME Init
    PROVE  WInv
  <1>1. Server \in Peers /\ Client \in Peers /\ Client # Server /\ First \in Nat
    BY Constants, TCPAssumption DEF First
  <1>2. /\ conn[Server] = Connection(Server) /\ conn[Client] = Connection(Client) /\ delivered[Server] = <<>>
        /\ strm[Client] = NoWrite /\ net = {}
    BY <1>1 DEF Init
  <1>3. /\ Connection(Server).pc = "listen" /\ Connection(Server).state = "CLOSED" /\ Connection(Server).observer = TRUE
        /\ Connection(Server).acknowledgment = 0
    BY <1>1 DEF Connection
  <1>4. /\ Connection(Client).pc = "connect" /\ Connection(Client).state = "CLOSED" /\ Connection(Client).streaming = FALSE
        /\ Connection(Client).next = ClientISN /\ Connection(Client).current = 0
    BY <1>1 DEF Connection, ISN
  <1>5. NoWrite.result = "none"
    BY DEF NoWrite
  <1>6. Numbered(<<>>) /\ Counted(Connection(Server), <<>>)
    BY <1>3 DEF Numbered, Counted, Taking
  <1>7. Calling(Connection(Client), NoWrite) /\ Streaming(Connection(Client), NoWrite, <<>>)
    BY <1>4, <1>5 DEF Calling, Streaming, Early, Trying, Opened, InWrite, Ends
  <1>8. Heard(Connection(Client), Connection(Server), <<>>)
    BY <1>1, <1>3, <1>4 DEF Heard
  <1> QED
    BY <1>2, <1>6, <1>7, <1>8 DEF WInv

LEMMA NextWrites ==
    ASSUME OneWriter, CInv, DInv, WInv, [Next]_vars, Once(conn'[Client], strm'[Client])
    PROVE  WInv'
  <1>1. CASE Lose
    BY <1>1 DEF Lose, WInv
  <1>2. CASE Thread(Server)
    BY <1>2, ServerOnly, ServerListens, ServerLeaves, ServerDetached
  <1>3. CASE Thread(Client)
    BY <1>3, ClientOnly, ClientConnects, ClientAttaches, ClientWrites, ClientLeaves, ClientDetached DEF Thread
  <1>4. ASSUME NEW p \in Peers, Receive(p)
        PROVE  WInv'
    BY <1>4, ServerReceivesWrites, ClientReceivesWrites DEF Peers
  <1>5. ASSUME NEW p \in Peers, Timeout(p)
        PROVE  WInv'
    BY <1>5, ServerExpiresWrites, ClientExpiresWrites DEF Peers
  <1>6. CASE StreamTimeout(Server)
    BY <1>6, ServerEnd DEF StreamTimeout, At, Serving, Listens, Ends
  <1>7. CASE StreamTimeout(Client)
    BY <1>7, ClientResumes
  <1>8. CASE UNCHANGED vars
    BY <1>8 DEF vars, WInv
  <1> QED
    BY <1>1, <1>2, <1>3, <1>4, <1>5, <1>6, <1>7, <1>8 DEF Next, Peers

-----------------------------------------------------------------------------
(* Where the client's thread is, how often it has tried and what write()   *)
(* returned, whatever the attempt                                          *)
Tried(c, w) ==
    /\ c.pc \in Early \cup {"open"} \cup InWrite \cup Ends
    /\ c.pc \notin Trying => w.connects >= 1
    /\ c.pc \in Early => w.result = "none"
    /\ w.connects \in Nat /\ w.connects <= Attempts
    /\ c.pc \in Trying => w.connects < Attempts

(* How a step of the client's thread or a signal changes these three       *)
Went(c, w, d, v) ==
    \/ /\ v.connects = w.connects /\ v.result = w.result
       /\ \/ d.pc = c.pc
          \/ c.pc \notin Early /\ d.pc \in {"open"} \cup InWrite \cup Ends
          \/ c.pc \in Trying /\ d.pc \in Trying
          \/ c.pc = "in_connect" /\ d.pc = "attach"
          \/ c.pc = "attach" /\ d.pc \in {"open", "delete"}
          \/ c.pc = "attach" /\ d.pc = "connect" /\ w.connects < Attempts
    \/ v.connects = w.connects + 1 /\ v.result = w.result /\ c.pc = "sent_syn" /\ d.pc = "in_connect"
    \/ v.connects = w.connects /\ c.pc \in InWrite /\ d.pc = "open"

LEMMA WentTried ==
    ASSUME NEW c, NEW w, NEW d, NEW v, Tried(c, w), Went(c, w, d, v)
    PROVE  Tried(d, v) /\ (Once(d, v) => Once(c, w))
  <1>0. Attempts \in Nat /\ w.connects \in Nat
    BY TCPAssumption DEF Tried
  <1>1. CASE /\ v.connects = w.connects /\ v.result = w.result
             /\ \/ d.pc = c.pc
                \/ c.pc \notin Early /\ d.pc \in {"open"} \cup InWrite \cup Ends
                \/ c.pc \in Trying /\ d.pc \in Trying
                \/ c.pc = "in_connect" /\ d.pc = "attach"
                \/ c.pc = "attach" /\ d.pc \in {"open", "delete"}
    BY <1>0, <1>1 DEF Tried, Once, Early, Trying, Opened, InWrite, Ends
  <1>2. CASE /\ v.connects = w.connects /\ v.result = w.result
             /\ c.pc = "attach" /\ d.pc = "connect" /\ w.connects < Attempts
    BY <1>0, <1>2 DEF Tried, Once, Early, Trying, Opened
  <1>3. CASE v.connects = w.connects + 1 /\ v.result = w.result /\ c.pc = "sent_syn" /\ d.pc = "in_connect"
    BY <1>0, <1>3 DEF Tried, Once, Early, Trying, Opened
  <1>4. CASE v.connects = w.connects /\ c.pc \in InWrite /\ d.pc = "open"
    BY <1>0, <1>4 DEF Tried, Once, Early, Trying, Opened, InWrite
  <1> QED
    BY <1>1, <1>2, <1>3, <1>4 DEF Went

LEMMA ThreadWent ==
    ASSUME CInv, DInv, Tried(conn[Client], strm[Client]), Thread(Client)
    PROVE  Went(conn[Client], strm[Client], conn'[Client], strm'[Client])
  <1> DEFINE c == conn[Client]
             w == strm[Client]
             d == conn'[Client]
             v == strm'[Client]
  <1>0. Whole(c) /\ c \in Conn /\ w \in Stream /\ strm \in [Peers -> Stream] /\ Client \in Peers
    BY WriteFacts, WholeConn
  <1>1. /\ \A S : Whole(Moved(c, S)) /\ Whole(Armed(c)) /\ \A flags : Whole(FSend(c, flags))
        /\ Whole([c EXCEPT !.observer = FALSE, !.alarm = FALSE]) /\ Whole([c EXCEPT !.alarm = FALSE])
        /\ Whole([c EXCEPT !.streaming = TRUE]) /\ \A r : Whole([c EXCEPT !.retransmiting = r])
        /\ Whole([c EXCEPT !.streaming = FALSE, !.retransmiting = FALSE])
        /\ Whole([c EXCEPT !.retransmiting = TRUE, !.sequence = c.current, !.unacknowledged = c.current])
    BY <1>0 DEF Whole, Names, Moved, Armed, FSend
  <1>2. {"write", "sent", "full", "in_stream", "resumed"} \subseteq InWrite /\ InWrite \cap Early = {}
        /\ Ends \cap Early = {} /\ "open" \notin Early
        /\ {"delete", "close", "to_fin_wait1", "to_last_ack", "fin", "sent_fin", "in_close", "deleted", "gone"} \subseteq Ends
    BY DEF InWrite, Early, Opened, Ends
  <1>3. ASSUME Connect(Client) PROVE Went(c, w, d, v)
    <2>1. CASE ConnectState(Client)
      BY <1>1, <2>1, StepLabel DEF ConnectState, Went, Trying
    <2>2. CASE ConnectSend(Client)
      BY <1>1, <2>2, StepLabel DEF ConnectSend, Went, Trying
    <2>3. CASE ConnectWait(Client)
      <3> DEFINE u == [c EXCEPT !.unacknowledged = c.sequence]
      <3>1. Step(Client, "sent_syn", Armed(u), "in_connect") /\ strm' = [strm EXCEPT ![Client].connects = @ + 1]
        BY <2>3 DEF ConnectWait
      <3>2. Whole(u)
        BY <1>0 DEF Whole, Names
      <3> HIDE DEF u
      <3>3. Whole(Armed(u))
        BY <3>2 DEF Armed, Whole, Names
      <3>4. c.pc = "sent_syn" /\ d.pc = "in_connect"
        BY <3>1, <3>3, StepLabel
      <3>5. v = [w EXCEPT !.connects = w.connects + 1]
        BY <1>0, <3>1
      <3>6. v.connects = w.connects + 1 /\ v.result = w.result
        BY <1>0, <3>5 DEF Stream
      <3> QED
        BY <3>4, <3>6 DEF Went
    <2> QED
      BY <1>3, <2>1, <2>2, <2>3 DEF Connect
  <1>4. ASSUME Listen(Client) PROVE FALSE
    <2>1. c.pc \in {"listen", "listening", "answer", "answered", "received"}
      BY <1>4 DEF Listen, ListenState, ListenWait, ListenSend, ListenReceived, ListenReceivedWait, Step, At
    <2> QED
      BY <2>1 DEF Tried, Early, Opened, InWrite, Ends
  <1>5. ASSUME Attach(Client) PROVE Went(c, w, d, v)
    <2>1. PICK k \in {"open", "delete", "connect"} :
              Step(Client, "attach", c, k) /\ (k = "connect" => w.connects < Attempts) /\ v = w
      BY <1>5 DEF Attach
    <2>2. c.pc = "attach" /\ d.pc = k
      BY <1>0, <2>1, StepLabel
    <2> QED
      BY <2>1, <2>2 DEF Went
  <1>6. ASSUME NEW l \in InWrite \cup Ends \cup {"open"}, NEW k \in InWrite \cup Ends \cup {"open"}, NEW x, Whole(x),
               Step(Client, l, x, k), v.connects = w.connects, v.result = w.result
        PROVE  Went(c, w, d, v)
    <2>1. c.pc = l /\ d.pc = k
      BY <1>6, StepLabel
    <2> QED
      BY <1>2, <1>6, <2>1 DEF Went
  <1>7. ASSUME Detach(Client) \/ Close(Client) PROVE Went(c, w, d, v)
    <2>1. strm' = strm
      BY <1>7 DEF Detach, Close, Destroy, CloseAtOnce, CloseTest, CloseState, CloseSend, CloseWaits, Detached
    <2>2. CASE Detached(Client)
      <3> DEFINE e == [Connection(Client) EXCEPT !.acknowledgment = c.acknowledgment, !.bound = "none", !.pc = "gone"]
      <3>1. conn' = [conn EXCEPT ![Client] = e] /\ c.pc = "deleted"
        BY <2>2 DEF Detached, At
      <3>2. e.pc = "gone"
        BY DEF Connection
      <3> HIDE DEF e
      <3>3. d = e
        BY <3>1, WriteFacts
      <3> QED
        BY <1>2, <2>1, <3>1, <3>2, <3>3 DEF Went
    <2>3. CASE Detach(Client)
      <3>1. Step(Client, "open", [c EXCEPT !.observer = FALSE, !.alarm = FALSE], "close")
        BY <2>3 DEF Detach
      <3> QED
        BY <1>1, <1>2, <1>6, <2>1, <3>1
    <2>4. CASE Destroy(Client)
      <3>1. Step(Client, "delete", [c EXCEPT !.alarm = FALSE], "close")
        BY <2>4 DEF Destroy
      <3> QED
        BY <1>1, <1>2, <1>6, <2>1, <3>1
    <2>5. CASE CloseAtOnce(Client)
      <3>1. Step(Client, "close", Moved(c, "CLOSED"), "deleted")
        BY <2>5 DEF CloseAtOnce
      <3> QED
        BY <1>1, <1>2, <1>6, <2>1, <3>1
    <2>6. CASE CloseTest(Client)
      <3>1. PICK k \in {"to_fin_wait1", "to_last_ack", "fin"} : Step(Client, "close", c, k)
        BY <2>6 DEF CloseTest
      <3> QED
        BY <1>0, <1>2, <1>6, <2>1, <3>1
    <2>7. CASE CloseState(Client)
      <3>1. PICK l \in {"to_fin_wait1", "to_last_ack"}, S \in {"FIN_WAIT1", "LAST_ACK"} : Step(Client, l, Moved(c, S), "fin")
        BY <2>7 DEF CloseState
      <3> QED
        BY <1>1, <1>2, <1>6, <2>1, <3>1
    <2>8. CASE CloseSend(Client)
      <3>1. Step(Client, "fin", FSend(c, {"ACK", "FIN"}), "sent_fin")
        BY <2>8 DEF CloseSend
      <3> QED
        BY <1>1, <1>2, <1>6, <2>1, <3>1
    <2>9. CASE CloseWaits(Client)
      <3>1. Step(Client, "sent_fin", Armed(c), "in_close")
        BY <2>9 DEF CloseWaits
      <3> QED
        BY <1>1, <1>2, <1>6, <2>1, <3>1
    <2> QED
      BY <1>7, <2>2, <2>3, <2>4, <2>5, <2>6, <2>7, <2>8, <2>9 DEF Close
  <1>8. ASSUME NEW x, x \in Stream, NEW e
        PROVE  Advanced(x, e).connects = x.connects /\ Advanced(x, e).result = x.result
    BY <1>8 DEF Advanced, Stream
  <1>9. ASSUME Write(Client) PROVE Went(c, w, d, v)
    <2>1. CASE WriteCall(Client)
      <3>1. /\ Step(Client, "open", c, "write")
            /\ v = [w EXCEPT !.allowed = WINDOW, !.left = Size, !.acknowledged = 0,
                             !.initial_seq = c.sequence, !.tries = 0, !.data = 0]
        BY <1>0, <2>1 DEF WriteCall
      <3>2. v.connects = w.connects /\ v.result = w.result
        BY <1>0, <3>1 DEF Stream
      <3> QED
        BY <1>0, <1>2, <1>6, <3>1, <3>2
    <2>2. CASE WriteSend(Client)
      <3> DEFINE data == [i \in 1 .. Payload(Client) |-> Byte(strm[Client].data + i)]
                 e == [c EXCEPT !.streaming = TRUE]
      <3>1. /\ Step(Client, "write", DSend(e, data), "sent")
            /\ v = [w EXCEPT !.data = w.data + Payload(Client), !.left = w.left - Payload(Client)]
        BY <1>0, <2>2 DEF WriteSend
      <3>2. v.connects = w.connects /\ v.result = w.result
        BY <1>0, <3>1 DEF Stream
      <3>3. Whole(e)
        BY <1>1
      <3> HIDE DEF e, data
      <3>4. Whole(DSend(e, data))
        BY <3>3 DEF DSend, Whole, Names
      <3> QED
        BY <1>2, <1>6, <3>1, <3>2, <3>4
    <2>3. CASE WriteSent(Client)
      <3>1. PICK r : LET x == [c EXCEPT !.retransmiting = r]
                     IN  /\ Step(Client, "sent", x, "write")
                         /\ strm' = [strm EXCEPT ![Client] = Advanced(@, x)]
        BY <2>3, Zenon DEF WriteSent
      <3> DEFINE x == [c EXCEPT !.retransmiting = r]
      <3>2. Step(Client, "sent", x, "write") /\ v = Advanced(w, x) /\ Whole(x)
        BY <1>0, <1>1, <3>1
      <3> HIDE DEF x
      <3>3. v.connects = w.connects /\ v.result = w.result
        BY <1>0, <1>8, <3>2
      <3> QED
        BY <1>2, <1>6, <3>2, <3>3
    <2>4. CASE WriteFull(Client)
      <3>1. /\ Step(Client, "write", [c EXCEPT !.streaming = TRUE], "full")
            /\ v = [w EXCEPT !.old_ack = c.current]
        BY <1>0, <2>4 DEF WriteFull
      <3>2. v.connects = w.connects /\ v.result = w.result
        BY <1>0, <3>1 DEF Stream
      <3> QED
        BY <1>1, <1>2, <1>6, <3>1, <3>2
    <2>5. CASE WriteWait(Client)
      <3>1. Step(Client, "full", c, "in_stream") /\ v = w
        BY <2>5 DEF WriteWait
      <3> QED
        BY <1>0, <1>2, <1>6, <3>1
    <2>6. CASE WriteResumed(Client)
      <3> DEFINE again == c.current = w.old_ack
                 x == IF again THEN [c EXCEPT !.retransmiting = TRUE, !.sequence = c.current, !.unacknowledged = c.current]
                      ELSE c
                 g == [w EXCEPT !.data = w.acknowledged, !.left = Size - w.acknowledged, !.tries = w.tries + 1]
                 h == [w EXCEPT !.tries = 0]
                 y == IF again THEN g ELSE h
      <3>1. Step(Client, "resumed", x, "write") /\ v = Advanced(y, x)
        BY <1>0, <2>6 DEF WriteResumed
      <3>2. Whole(x)
        BY <1>0, <1>1
      <3>3. g \in Stream /\ g.connects = w.connects /\ g.result = w.result
        <4>1. w.acknowledged \in Int /\ w.tries \in Nat
          BY <1>0 DEF Stream
        <4>2. Size \in Nat
          BY TCPAssumption
        <4>3. Size - w.acknowledged \in Int /\ w.tries + 1 \in Nat
          BY <4>1, <4>2
        <4> QED
          BY <1>0, <4>1, <4>3 DEF Stream
      <3>4. h \in Stream /\ h.connects = w.connects /\ h.result = w.result
        BY <1>0 DEF Stream
      <3> HIDE DEF g, h, x
      <3>5. y \in Stream /\ y.connects = w.connects /\ y.result = w.result
        BY <3>3, <3>4
      <3> HIDE DEF y
      <3>6. v.connects = w.connects /\ v.result = w.result
        BY <1>8, <3>1, <3>5
      <3> QED
        BY <1>2, <1>6, <3>1, <3>2, <3>6
    <2>7. CASE WriteReturn(Client)
      <3> DEFINE r == IF w.tries = RETRIES \/ c.state \notin {"ESTABLISHED", "CLOSE_WAIT"} THEN "error" ELSE "size"
      <3>1. /\ Step(Client, "write", [c EXCEPT !.streaming = FALSE, !.retransmiting = FALSE], "open")
            /\ v = [NoWrite EXCEPT !.connects = w.connects, !.initial_seq = w.initial_seq, !.result = r]
        BY <1>0, <2>7 DEF WriteReturn
      <3>2. v.connects = w.connects
        BY <3>1 DEF NoWrite
      <3>3. c.pc = "write" /\ d.pc = "open"
        BY <1>1, <3>1, StepLabel
      <3> QED
        BY <1>2, <3>2, <3>3 DEF Went
    <2> QED
      BY <1>9, <2>1, <2>2, <2>3, <2>4, <2>5, <2>6, <2>7 DEF Write
  <1> QED
    BY <1>3, <1>4, <1>5, <1>7, <1>9 DEF Thread

(* A handler finds the client's thread waiting or leaves it where it is.   *)
LEMMA WokenWent ==
    ASSUME NEW c, NEW w, NEW d, NEW v, Tried(c, w), PcStep(c.pc, d.pc), v = w
    PROVE  Went(c, w, d, v)
  <1>1. c.pc \in Early \cup {"open"} \cup InWrite \cup Ends
    BY DEF Tried
  <1>2. c.pc \notin {"in_listen", "in_received"}
    BY <1>1 DEF Early, Opened, InWrite, Ends
  <1>3. \/ d.pc = c.pc
        \/ c.pc = "in_connect" /\ d.pc = "attach"
        \/ c.pc = "in_close" /\ d.pc = "deleted"
        \/ c.pc = "in_stream" /\ d.pc = "resumed"
    BY <1>2 DEF PcStep, Roused
  <1>4. {"in_close", "deleted"} \subseteq Ends /\ {"in_stream", "resumed"} \subseteq InWrite
        /\ "in_close" \notin Early /\ "in_stream" \notin Early
    BY DEF Ends, InWrite, Early, Opened
  <1> QED
    BY <1>3, <1>4 DEF Went

LEMMA ReceiveWent ==
    ASSUME CInv, DInv, Tried(conn[Client], strm[Client]), Receive(Client)
    PROVE  Went(conn[Client], strm[Client], conn'[Client], strm'[Client])
  <1> DEFINE c == conn[Client]
  <1>1. PICK m \in net : m.to = Client /\ conn' = [conn EXCEPT ![Client] = Stored(Client, Update(c, m))] /\ strm' = strm
    BY DEF Receive, Observed
  <1> DEFINE d == Update(c, m)
  <1>2. Client \in Peers /\ conn \in [Peers -> Conn]
    BY WriteFacts
  <1>3. m \in Segment /\ SegmentOK(Other(Client), conn[Other(Client)], m)
    BY <1>1 DEF CInv, Types
  <1>4. Arriving(Client, c, m)
    BY <1>2, <1>3, EndFacts DEF Arriving, SegmentOK
  <1>5. Handled(Client, c, m, d)
    BY <1>4, UpdateHandled
  <1> HIDE DEF d
  <1>6. d \in Conn /\ PcStep(c.pc, d.pc)
    BY <1>5 DEF Handled
  <1>7. Stored(Client, d).pc = d.pc
    BY <1>6, StoredFields DEF Fields
  <1>8. conn'[Client] = Stored(Client, d)
    BY <1>1, <1>2 DEF d
  <1>9. strm'[Client] = strm[Client]
    BY <1>1
  <1> HIDE DEF c
  <1>10. PcStep(c.pc, conn'[Client].pc)
    BY <1>6, <1>7, <1>8
  <1> QED
    BY <1>9, <1>10, WokenWent DEF c

LEMMA ExpiredWent ==
    ASSUME CInv, DInv, Tried(conn[Client], strm[Client]), Timeout(Client) \/ StreamTimeout(Client)
    PROVE  Went(conn[Client], strm[Client], conn'[Client], strm'[Client])
  <1> DEFINE c == conn[Client]
  <1>1. Silent(c) /\ Whole(c) /\ Client \in Peers /\ conn \in [Peers -> Conn]
    BY WriteFacts, WholeConn DEF Silent
  <1>2. strm' = strm
    BY DEF Timeout, StreamTimeout
  <1>3. ASSUME NEW d, Whole(d), PcStep(c.pc, d.pc), Become(Client, d)
        PROVE  PcStep(c.pc, conn'[Client].pc)
    <2>1. conn'[Client] = Stored(Client, d)
      BY <1>1, <1>3 DEF Become
    <2>2. Stored(Client, d).pc = d.pc
      BY <1>3, StoredAlike DEF Alike
    <2> QED
      BY <1>3, <2>1, <2>2
  <1>4. CASE Timeout(Client)
    <2> DEFINE d == Expired(c)
    <2>1. Silent(d) /\ d.pc \in {c.pc, Roused(c.pc)}
      BY <1>1, ExpiredSilent
    <2>2. Become(Client, d)
      BY <1>4 DEF Timeout
    <2> HIDE DEF d
    <2>3. Whole(d) /\ PcStep(c.pc, d.pc)
      BY <2>1 DEF Silent, PcStep
    <2> QED
      BY <1>2, <1>3, <2>2, <2>3, WokenWent
  <1>5. CASE StreamTimeout(Client)
    <2> DEFINE d == SignalStream(c)
    <2>1. c.pc = "in_stream" /\ Become(Client, d)
      BY <1>5 DEF StreamTimeout, At
    <2>2. Whole(d) /\ d.pc \in {c.pc, "resumed"}
      BY <1>1 DEF SignalStream, Goto, Whole, Names
    <2> HIDE DEF d
    <2>3. PcStep(c.pc, d.pc)
      BY <2>1, <2>2 DEF PcStep
    <2> QED
      BY <1>2, <1>3, <2>1, <2>2, <2>3, WokenWent
  <1> QED
    BY <1>4, <1>5

(* The server's end does not touch the client's.                           *)
LEMMA ServerWent ==
    ASSUME OneWriter, CInv, DInv, Tried(conn[Client], strm[Client]),
           Thread(Server) \/ Receive(Server) \/ Timeout(Server) \/ StreamTimeout(Server)
    PROVE  Went(conn[Client], strm[Client], conn'[Client], strm'[Client])
  <1>1. Client # Server /\ conn \in [Peers -> Conn] /\ Client \in Peers
    BY WriteFacts
  <1>2. CASE Thread(Server)
    <2>1. CASE Listen(Server)
      BY <1>1, <2>1 DEF Listen, ListenState, ListenWait, ListenSend, ListenReceived, ListenReceivedWait, Step, Become, Went
    <2>2. CASE Attach(Server)
      <3>1. strm' = strm
        BY <2>2 DEF Attach
      <3>2. conn'[Client] = conn[Client]
        BY <1>1, <2>2 DEF Attach, Step, Become
      <3> QED
        BY <3>1, <3>2 DEF Went
    <2>3. CASE Detach(Server)
      BY <1>1, <2>3 DEF Detach, Step, Become, Went
    <2>4. CASE Close(Server)
      <3>1. strm' = strm
        BY <2>4 DEF Close, Destroy, CloseAtOnce, CloseTest, CloseState, CloseSend, CloseWaits, Detached
      <3>2. conn'[Client] = conn[Client]
        BY <1>1, <2>4 DEF Close, Destroy, CloseAtOnce, CloseTest, CloseState, CloseSend, CloseWaits, Detached, Step, Become
      <3> QED
        BY <3>1, <3>2 DEF Went
    <2> QED
      BY <1>2, <2>1, <2>2, <2>3, <2>4, ServerOnly
  <1>3. CASE Receive(Server)
    BY <1>1, <1>3 DEF Receive, Went
  <1>4. CASE Timeout(Server) \/ StreamTimeout(Server)
    BY <1>1, <1>4 DEF Timeout, StreamTimeout, Become, Went
  <1> QED
    BY <1>2, <1>3, <1>4

LEMMA NextWent ==
    ASSUME OneWriter, CInv, DInv, Tried(conn[Client], strm[Client]), [Next]_vars
    PROVE  /\ Tried(conn'[Client], strm'[Client])
           /\ Once(conn'[Client], strm'[Client]) => Once(conn[Client], strm[Client])
  <1>1. ASSUME Went(conn[Client], strm[Client], conn'[Client], strm'[Client])
        PROVE  /\ Tried(conn'[Client], strm'[Client])
               /\ Once(conn'[Client], strm'[Client]) => Once(conn[Client], strm[Client])
    BY <1>1, WentTried
  <1>2. CASE Lose \/ UNCHANGED vars
    BY <1>1, <1>2 DEF Lose, vars, Went
  <1>3. CASE \E p \in Peers : Thread(p) \/ Receive(p) \/ Timeout(p) \/ StreamTimeout(p)
    BY <1>1, <1>3, ThreadWent, ReceiveWent, ExpiredWent, ServerWent DEF Peers
  <1> QED
    BY <1>2, <1>3 DEF Next

LEMMA InitTried ==
    ASSUME Init
    PROVE  Tried(conn[Client], strm[Client])
  <1>1. Client \in Peers /\ Attempts \in Nat /\ 0 < Attempts
    BY Constants, TCPAssumption
  <1>2. conn[Client] = Connection(Client) /\ strm[Client] = NoWrite
    BY <1>1 DEF Init
  <1>3. Connection(Client).pc = "connect" /\ NoWrite.connects = 0 /\ NoWrite.result = "none"
    BY DEF Connection, NoWrite
  <1> QED
    BY <1>1, <1>2, <1>3 DEF Tried, Early, Trying

(* What the invariant says of a write() that returned size                 *)
LEMMA WrittenIsReceived ==
    ASSUME DInv, WInv
    PROVE  WriteMeansReceived
  <1> DEFINE D == delivered[Server]
             n == Len(D)
  <1> SUFFICES ASSUME NEW k \in 0 .. Size - 1, strm[Client].result = "size"
               PROVE  \E i \in 1 .. n : D[i].seq = strm[Client].initial_seq + k
    BY DEF WriteMeansReceived
  <1>1. strm[Client].initial_seq = First /\ Ample(D) /\ Numbered(D)
    BY DEF WInv, Streaming
  <1>2. n \in Nat /\ Size \in Nat /\ ClientISN \in Nat
    BY Constants, TCPAssumption DEF DInv
  <1> HIDE DEF D
  <1>3. k + 1 \in 1 .. n
    BY <1>1, <1>2 DEF Ample
  <1>4. D[k + 1].seq = ClientISN + (k + 1)
    BY <1>1, <1>3 DEF Numbered
  <1>5. D[k + 1].seq = strm[Client].initial_seq + k
    BY <1>1, <1>2, <1>4 DEF First
  <1> QED
    BY <1>3, <1>5

(* The invariant of the client's first attempt                             *)
FirstTry == /\ DInv
            /\ Tried(conn[Client], strm[Client])
            /\ Once(conn[Client], strm[Client]) => WInv

LEMMA FirstTryIsInvariant == ASSUME OneWriter PROVE Spec => []FirstTry
  <1>1. Init => FirstTry
    BY InitDelivers, InitTried, InitWrites DEF FirstTry
  <1>2. CInv /\ FirstTry /\ [Next]_vars => FirstTry'
    <2> SUFFICES ASSUME CInv, FirstTry, [Next]_vars
                 PROVE  FirstTry'
      OBVIOUS
    <2>1. DInv /\ Tried(conn[Client], strm[Client]) /\ (Once(conn[Client], strm[Client]) => WInv)
      BY DEF FirstTry
    <2>2. OneWay
      BY DEF OneWriter, OneWay
    <2>3. DInv'
      BY <2>1, <2>2, NextDelivers
    <2>4. Tried(conn'[Client], strm'[Client])
          /\ (Once(conn'[Client], strm'[Client]) => Once(conn[Client], strm[Client]))
      BY <2>1, NextWent
    <2>5. Once(conn'[Client], strm'[Client]) => WInv'
      BY <2>1, <2>4, NextWrites
    <2> QED
      BY <2>3, <2>4, <2>5 DEF FirstTry, Tried, Once
  <1>3. Spec => []CInv
    BY ConnectionInvariant
  <1> QED
    BY <1>1, <1>2, <1>3, PTL DEF Spec

(* write() of a client that connected at its first attempt: when it        *)
(* returns size, the server's observer was passed a byte for each sequence *)
(* number of the buffer.  The attempt must be the first: a later one       *)
(* numbers its SYN after those before it, which the server may answer.     *)
THEOREM FirstTryIsReceived ==
    ASSUME OneWriter
    PROVE  Spec => [](strm[Client].connects <= 1 => WriteMeansReceived)
  <1>1. FirstTry => (strm[Client].connects <= 1 => WriteMeansReceived)
    <2> SUFFICES ASSUME FirstTry, strm[Client].connects <= 1
                 PROVE  WriteMeansReceived
      OBVIOUS
    <2> DEFINE c == conn[Client]
               w == strm[Client]
    <2>1. DInv /\ Tried(c, w) /\ (Once(c, w) => WInv)
      BY DEF FirstTry
    <2>2. CASE w.result = "size"
      <3>1. c.pc \notin Trying /\ w.connects \in Nat /\ w.connects >= 1
        BY <2>1, <2>2 DEF Tried, Early, Trying, Opened
      <3>2. Once(c, w)
        BY <3>1 DEF Once
      <3> QED
        BY <2>1, <3>2, WrittenIsReceived
    <2>3. CASE w.result # "size"
      BY <2>3 DEF WriteMeansReceived
    <2> QED
      BY <2>2, <2>3
  <1> QED
    BY <1>1, FirstTryIsInvariant, PTL

(* With one attempt to connect, whenever write() returns size a byte was   *)
(* passed to the server's observer for each number of the buffer.          *)
THEOREM WritesAreReceived ==
    ASSUME OneWriter, Attempts = 1
    PROVE  Spec => []WriteMeansReceived
  <1>1. FirstTry => strm[Client].connects <= 1
    BY DEF FirstTry, Tried
  <1> QED
    BY <1>1, FirstTryIsInvariant, FirstTryIsReceived, PTL
=============================================================================
