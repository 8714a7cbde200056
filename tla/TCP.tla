-------------------------------- MODULE TCP --------------------------------
(***************************************************************************)
(* Two TCP connections of EPOS (network/ipv4/tcp.cc), the one that         *)
(* connects and the one that listens, over a network that loses, delays,   *)
(* reorders and duplicates segments.  Each end is one application thread   *)
(* (attach, at most one write, detach) interrupted at any point by the     *)
(* network interface (update) and by the alarm (timeout).  The two         *)
(* handlers run with interrupts disabled, so each is one action; the       *)
(* thread is broken at every access to what a handler changes.             *)
(*                                                                         *)
(* Sequence numbers are natural numbers: an initial one has 24 bits and    *)
(* the counters have 32, so they wrap only after 4 gigabytes, which is out *)
(* of this model.  The window every header announces is WINDOW, so         *)
(* _peer_window is WINDOW after the first segment.                         *)
(***************************************************************************)
EXTENDS Integers, Sequences, FiniteSets

CONSTANTS
    Client, Server,         \* attach() with and without a peer
    ClientISN, ServerISN,   \* Random::random() & 0x00ffffff
    WINDOW, MSS, RETRIES,   \* Traits<TCP>::WINDOW, TCP::MSS, Traits<TCP>::RETRIES
    Tries,                  \* the 3 of Connection::timeout()
    Writers,                \* the ends whose application writes
    Leavers,                \* the ends whose application detaches
    Size,                   \* bytes of the one write()
    Attempts,               \* RETRIES again, as attach() uses it for connect()
    Copies,                 \* bound: segments the network duplicates
    Capacity,               \* bound: segments the network holds, any more are lost
    MaxSequence             \* bound: no data is sent from here on

ASSUME TCPAssumption ==
    /\ Client # Server
    /\ {ClientISN, ServerISN, WINDOW, Copies, Capacity, MaxSequence} \subseteq Nat
    /\ {MSS, RETRIES, Attempts, Tries, Size} \subseteq Nat \ {0}
    /\ Writers \subseteq {Client, Server} /\ Leavers \subseteq {Client, Server}

VARIABLES
    conn,        \* the Connection of each end
    strm,        \* the locals of its write()
    net,         \* the segments on their way
    copies,      \* how many more the network may duplicate
    delivered    \* what each end's observer was notified of, byte by byte

vars == <<conn, strm, net, copies, delivered>>

Peers == {Client, Server}
Other(p) == IF p = Client THEN Server ELSE Client
ISN(p) == IF p = Client THEN ClientISN ELSE ServerISN
Flag == {"SYN", "ACK", "FIN", "RST"}
State == {"LISTENING", "SYN_SENT", "SYN_RECEIVED", "ESTABLISHED", "FIN_WAIT1", "FIN_WAIT2",
          "CLOSE_WAIT", "CLOSING", "LAST_ACK", "TIME_WAIT", "CLOSED"}

(* The i-th byte of the buffer write() was given; what lies beyond it is 0. *)
Byte(i) == IF i \in 1 .. Size THEN i ELSE 0

-----------------------------------------------------------------------------
(* A Connection as its constructor makes it, attached to TCP's observed.     *)
Connection(p) ==
    [state |-> "CLOSED", sequence |-> ISN(p), acknowledgment |-> 0, next |-> ISN(p),
     unacknowledged |-> ISN(p), initial |-> ISN(p), current |-> 0, valid |-> FALSE,
     streaming |-> FALSE, retransmiting |-> FALSE, alarm |-> FALSE, tries |-> 0,
     observer |-> TRUE, bound |-> IF p = Client THEN "peer" ELSE "any",
     pc |-> IF p = Client THEN "connect" ELSE "listen", out |-> {}]

(* A segment without data: fsend().  The sequence number is SND.NXT unless a *)
(* retransmission has moved it back; SYN and FIN take one number.  out and   *)
(* sig collect what a handler sends and whether it signals _transition.      *)
FSend(c, flags) ==
    LET s == IF c.retransmiting THEN c.sequence ELSE c.next
    IN  [c EXCEPT !.sequence = s,
                  !.next = IF flags \cap {"SYN", "FIN"} # {} THEN @ + 1 ELSE @,
                  !.out = @ \cup {[flags |-> flags, seq |-> s, ack |-> c.acknowledgment, data |-> <<>>]}]

(* A segment with data: dsend().  A retransmission moves the header's        *)
(* sequence number, a first transmission SND.NXT.                            *)
DSend(c, data) ==
    LET s == IF c.retransmiting THEN c.sequence ELSE c.next
    IN  [c EXCEPT !.sequence = IF c.retransmiting THEN s + Len(data) ELSE s,
                  !.next = IF c.retransmiting THEN @ ELSE @ + Len(data),
                  !.out = @ \cup {[flags |-> {"ACK"}, seq |-> s, ack |-> c.acknowledgment, data |-> data]}]

Moved(c, s) == [c EXCEPT !.state = s]
Invalid(c) == [c EXCEPT !.valid = FALSE]
Armed(c) == [c EXCEPT !.alarm = TRUE]
Forgiven(c) == [c EXCEPT !.tries = 0]

(* _transition.signal(): wakes the thread up if it waits; else it is lost.   *)
Signal(c) ==
    [c EXCEPT !.pc = CASE @ = "in_listen" -> "answer"
                       [] @ \in {"in_connect", "in_received"} -> "attach"
                       [] @ = "in_close" -> "deleted"
                       [] OTHER -> @]

(* process_fin() *)
ProcessFin(c, m) == FSend([c EXCEPT !.acknowledgment = m.seq + 1], {"ACK"})

(* The data of a segment is acknowledged by the handlers that take it.       *)
Acknowledge(c, m) ==
    IF m.data = <<>> THEN c ELSE FSend([c EXCEPT !.acknowledgment = @ + Len(m.data)], {"ACK"})

(* check_sequence().  The second alternative of a segment without data is    *)
(* about SEG.SEQ - 1, an unsigned number.                                    *)
InWindow(c, s) == c.acknowledgment <= s /\ s < c.acknowledgment + WINDOW
CheckSequence(c, m) ==
    IF WINDOW = 0
    THEN m.data = <<>> /\ m.seq = c.acknowledgment
    ELSE InWindow(c, m.seq) \/ (m.data = <<>> /\ m.seq > 0 /\ InWindow(c, m.seq - 1))

-----------------------------------------------------------------------------
(* The handlers of the states: what becomes of connection c on segment m.    *)

Listening(c, m) ==
    CASE m.flags \cap {"RST", "FIN"} # {} -> Invalid(c)
      [] m.flags \cap {"RST", "FIN", "ACK"} = {"ACK"} -> FSend(Invalid(c), {"RST"})
      [] m.flags = {"SYN"} -> Signal([c EXCEPT !.acknowledgment = m.seq + 1])
      [] OTHER -> c

SynSent(c, m) ==
    LET synced == [c EXCEPT !.acknowledgment = m.seq + 1]
        acked == [synced EXCEPT !.unacknowledged = m.ack]
        good == m.ack > c.initial /\ m.ack \in c.unacknowledged .. c.next
        kind == m.flags \cap {"ACK", "RST", "SYN"}
    IN  CASE "ACK" \in kind /\ ~good -> FSend(Invalid(c), {"RST"})
          [] {"ACK", "RST"} \subseteq kind /\ good -> Moved(Invalid(c), "CLOSED")
          [] kind = {"ACK", "SYN"} /\ good -> Signal(Forgiven(Moved(FSend(acked, {"ACK"}), "ESTABLISHED")))
          [] kind = {"ACK"} /\ good -> c
          [] kind = {"SYN"} -> Moved(FSend(synced, {"SYN", "ACK"}), "SYN_RECEIVED")
          [] OTHER -> Moved(c, "CLOSED")

SynReceived(c, m) ==
    CASE "ACK" \notin m.flags -> c
      [] "ACK" \in m.flags /\ m.ack \in c.unacknowledged .. c.next ->
           Signal(Acknowledge(Forgiven(Moved(c, "ESTABLISHED")), m))
      [] {"ACK", "FIN"} \subseteq m.flags /\ m.ack \notin c.unacknowledged .. c.next ->
           Moved(ProcessFin(c, m), "CLOSE_WAIT")
      [] OTHER -> Moved(FSend(Invalid(c), {"RST"}), "CLOSED")

Established(c, m) ==
    LET taken == Acknowledge(c, m)
    IN  CASE "ACK" \notin m.flags \/ m.ack \notin c.unacknowledged .. c.next -> c
          [] "FIN" \in m.flags /\ "ACK" \in m.flags /\ m.ack \in c.unacknowledged .. c.next ->
               Moved(ProcessFin(taken, m), "CLOSE_WAIT")
          [] OTHER -> taken

(* A slip: an acknowledged FIN is taken for the other's FIN.                 *)
FinWait1Hasty(c, m) ==
    IF "ACK" \in m.flags /\ m.ack >= c.next THEN Armed(Moved(Acknowledge(c, m), "TIME_WAIT")) ELSE c

FinWait1(c, m) ==
    LET taken == Acknowledge(c, m)
        fin == "FIN" \in m.flags
    IN  CASE "ACK" \notin m.flags -> c
          [] "ACK" \in m.flags /\ m.ack >= c.next /\ fin -> Armed(Moved(ProcessFin(taken, m), "TIME_WAIT"))
          [] "ACK" \in m.flags /\ m.ack >= c.next /\ ~fin -> Moved(taken, "FIN_WAIT2")
          [] "ACK" \in m.flags /\ m.ack < c.next /\ fin -> Moved(ProcessFin(taken, m), "CLOSING")
          [] OTHER -> taken

FinWait2(c, m) ==
    CASE "ACK" \notin m.flags -> c
      [] {"ACK", "FIN"} \subseteq m.flags -> Armed(Moved(ProcessFin(Acknowledge(c, m), m), "TIME_WAIT"))
      [] OTHER -> Acknowledge(c, m)

(* In these states an acknowledgment counts when it is new and sent.         *)
News(c, m) == "ACK" \in m.flags /\ c.unacknowledged < m.ack /\ m.ack <= c.next

CloseWait(c, m) ==
    LET acked == [c EXCEPT !.unacknowledged = m.ack]
    IN  CASE ~News(c, m) -> c
          [] News(c, m) /\ "FIN" \in m.flags -> ProcessFin(acked, m)
          [] OTHER -> acked

Closing(c, m) == IF News(c, m) /\ c.next <= m.ack THEN Armed(Moved(c, "TIME_WAIT")) ELSE c

LastAck(c, m) == IF News(c, m) /\ c.next <= m.ack THEN Signal(Forgiven(Moved(c, "CLOSED"))) ELSE c

TimeWait(c, m) == IF News(c, m) /\ "FIN" \in m.flags THEN Armed(ProcessFin(c, m)) ELSE c

(* What every synchronized state does first: a segment out of the window is  *)
(* answered with an ACK, RST and SYN close the connection.                   *)
Checked(c, m, Then(_, _)) ==
    LET v == [c EXCEPT !.valid = CheckSequence(c, m)]
        refused == IF c.state \in {"LAST_ACK", "TIME_WAIT"} THEN v ELSE Invalid(v)
    IN  CASE ~v.valid -> IF "RST" \in m.flags THEN v ELSE FSend(v, {"ACK"})
          [] v.valid /\ "RST" \in m.flags -> Moved(refused, "CLOSED")
          [] v.valid /\ "RST" \notin m.flags /\ "SYN" \in m.flags -> Moved(FSend(refused, {"RST"}), "CLOSED")
          [] OTHER -> Then(v, m)

Handler(c, m) ==
    CASE c.state = "LISTENING" -> Listening(c, m)
      [] c.state = "SYN_SENT" -> SynSent(c, m)
      [] c.state = "SYN_RECEIVED" -> Checked(c, m, SynReceived)
      [] c.state = "ESTABLISHED" -> Checked(c, m, Established)
      [] c.state = "FIN_WAIT1" -> Checked(c, m, FinWait1)
      [] c.state = "FIN_WAIT2" -> Checked(c, m, FinWait2)
      [] c.state = "CLOSE_WAIT" -> Checked(c, m, CloseWait)
      [] c.state = "CLOSING" -> Checked(c, m, Closing)
      [] c.state = "LAST_ACK" -> Checked(c, m, LastAck)
      [] c.state = "TIME_WAIT" -> Checked(c, m, TimeWait)
      [] c.state = "CLOSED" -> c

-----------------------------------------------------------------------------
(* Connection::update(): what a segment does to the connection it is for.    *)

(* A listener takes the address of whoever answers it and is looked up by    *)
(* that from then on; of the segment only what it acknowledges is kept.      *)
Current(c, m) ==
    [c EXCEPT !.current = m.ack, !.bound = IF c.state = "LISTENING" THEN "peer" ELSE @]

(* A slip: a segment after a gap is taken.                                   *)
OutOfOrderTaken(c, m) == FALSE

(* SEG.SEQ may not be beyond RCV.NXT, nor SEG.ACK beyond SND.NXT.            *)
OutOfOrder(c, m) == c.state \notin {"LISTENING", "SYN_SENT"} /\ m.seq > c.acknowledgment
Unsent(c, m) == m.ack > c.next

(* While write() is streaming, an acknowledgment moves SND.UNA and, when it  *)
(* is ahead of the header's sequence number, that too.                       *)
Relevant(c, m) == c.streaming /\ (m.ack > c.unacknowledged \/ m.ack > c.sequence)
Slide(c, m) ==
    IF c.streaming
    THEN [c EXCEPT !.unacknowledged = m.ack, !.sequence = IF m.ack > @ THEN m.ack ELSE @]
    ELSE c

(* _stream.signal(): wakes write() up if it waits.                           *)
SignalStream(c) == [c EXCEPT !.pc = IF @ = "in_stream" THEN "resumed" ELSE @]

Update(c, m) ==
    LET cur == Current(c, m)
        after == Handler(Slide(cur, m), m)
    IN  CASE OutOfOrder(c, m) -> cur
          [] ~OutOfOrder(c, m) /\ Unsent(c, m) -> Moved(FSend(cur, {"RST"}), "CLOSED")
          [] OTHER -> IF after.valid /\ Relevant(c, m) THEN SignalStream(after) ELSE after

(* The bytes the observer is notified of.                                    *)
Notified(c, m) ==
    IF /\ ~OutOfOrder(c, m) /\ ~Unsent(c, m)
       /\ Update(c, m).valid
       /\ c.state \in {"ESTABLISHED", "SYN_RECEIVED", "FIN_WAIT1", "FIN_WAIT2"}
       /\ c.observer
    THEN [i \in 1 .. Len(m.data) |-> [seq |-> m.seq + i - 1, byte |-> m.data[i]]]
    ELSE <<>>

-----------------------------------------------------------------------------
(* The connection between two actions, without what nothing reads again:     *)
(* _valid matters only to a stream, _current to a write() yet to return.     *)
Stored(p, c) ==
    [c EXCEPT !.out = {},
              !.valid = @ /\ c.streaming,
              !.current = IF p \in Writers /\ strm[p].result = "none" THEN @ ELSE 0]
Posted(p, c) ==
    IF conn[Other(p)].bound = "none" THEN {}
    ELSE {[to |-> Other(p), flags |-> s.flags, seq |-> s.seq, ack |-> s.ack, data |-> s.data] : s \in c.out}

(* The network takes what fits and loses the rest.                           *)
Carried(old, new) == IF Cardinality(old \cup new) <= Capacity THEN old \cup new ELSE old

Become(p, c) ==
    /\ conn' = [conn EXCEPT ![p] = Stored(p, c)]
    /\ net' = Carried(net, Posted(p, c))

At(p, l) == conn[p].pc = l
Goto(c, l) == [c EXCEPT !.pc = l]

(* TCP::update(): a bare SYN is for whoever listens, any other segment for   *)
(* the connection with its two ends; without one it is dropped.  A deleted   *)
(* connection ("deleted") is still looked up until it is detached: what      *)
(* update() does to freed memory is not modelled.                            *)
Observed(p, m) == m.to = p /\ conn[p].bound = (IF m.flags = {"SYN"} THEN "any" ELSE "peer")

Receive(p) ==
    \E m \in net, duplicate \in BOOLEAN :
        /\ Observed(p, m)
        /\ ~At(p, "deleted")
        /\ duplicate => copies > 0
        /\ copies' = IF duplicate THEN copies - 1 ELSE copies
        /\ conn' = [conn EXCEPT ![p] = Stored(p, Update(@, m))]
        /\ net' = Carried(IF duplicate THEN net ELSE net \ {m}, Posted(p, Update(conn[p], m)))
        /\ delivered' = [delivered EXCEPT ![p] = @ \o Notified(conn[p], m)]
        /\ UNCHANGED strm

Lose ==
    /\ \E m \in net : net' = net \ {m}
    /\ UNCHANGED <<conn, strm, copies, delivered>>

(* A slip: the attempts are not counted.                                     *)
ExpiredEndless(c) ==
    IF c.state = "TIME_WAIT" THEN Signal(Forgiven(Moved([c EXCEPT !.alarm = FALSE], "CLOSED")))
    ELSE Armed(FSend([c EXCEPT !.next = @ - 1], {"FIN", "ACK"}))

(* Connection::timeout(): the alarm is gone; TIME_WAIT and a connection that *)
(* has tried enough end, SYN and FIN are sent again.                         *)
Expired(c) ==
    LET off == [c EXCEPT !.alarm = FALSE]
        again == [off EXCEPT !.tries = @ + 1, !.next = @ - 1]
    IN  CASE c.state = "TIME_WAIT" -> Signal(Forgiven(Moved(off, "CLOSED")))
          [] c.state # "TIME_WAIT" /\ c.tries = Tries -> Signal(Moved(off, "CLOSED"))
          [] c.state \in {"FIN_WAIT1", "LAST_ACK", "CLOSING"} /\ c.tries # Tries ->
               Armed(FSend(again, {"FIN", "ACK"}))
          [] c.state = "SYN_SENT" /\ c.tries # Tries -> Armed(FSend(again, {"SYN"}))
          [] OTHER -> off

Timeout(p) ==
    /\ conn[p].alarm
    /\ conn[p].pc \notin {"deleted", "gone"}
    /\ Become(p, Expired(conn[p]))
    /\ UNCHANGED <<strm, copies, delivered>>

(* The alarm of write(): its handler signals _stream.                        *)
StreamTimeout(p) ==
    /\ At(p, "in_stream")
    /\ Become(p, SignalStream(conn[p]))
    /\ UNCHANGED <<strm, copies, delivered>>

-----------------------------------------------------------------------------
(* The application's thread: attach().                                       *)

(* One step of the thread from label l to label k.                           *)
Step(p, l, c, k) ==
    /\ At(p, l)
    /\ Become(p, Goto(c, k))
    /\ UNCHANGED <<copies, delivered>>

(* connect() *)
ConnectState(p) == Step(p, "connect", Moved(conn[p], "SYN_SENT"), "syn") /\ UNCHANGED strm
ConnectSend(p) == Step(p, "syn", FSend(conn[p], {"SYN"}), "sent_syn") /\ UNCHANGED strm
ConnectWait(p) ==
    /\ Step(p, "sent_syn", Armed([conn[p] EXCEPT !.unacknowledged = conn[p].sequence]), "in_connect")
    /\ strm' = [strm EXCEPT ![p].connects = @ + 1]

(* listen() *)
ListenState(p) == Step(p, "listen", Moved(conn[p], "LISTENING"), "listening") /\ UNCHANGED strm
ListenWait(p) == Step(p, "listening", conn[p], "in_listen") /\ UNCHANGED strm
ListenSend(p) == Step(p, "answer", FSend(conn[p], {"SYN", "ACK"}), "answered") /\ UNCHANGED strm
(* A slip: the listener does not wait for the answer to its SYN.             *)
ListenReceivedHasty(p) ==
    /\ Step(p, "answered", Moved(conn[p], "ESTABLISHED"), "attach")
    /\ UNCHANGED strm

ListenReceived(p) ==
    /\ Step(p, "answered", Moved([conn[p] EXCEPT !.unacknowledged = conn[p].initial], "SYN_RECEIVED"), "received")
    /\ UNCHANGED strm
ListenReceivedWait(p) == Step(p, "received", conn[p], "in_received") /\ UNCHANGED strm

(* attach(), after connect() or listen(): the client may try again, and an   *)
(* end that is not established is deleted.                                   *)
Attach(p) ==
    /\ Step(p, "attach", conn[p],
            IF conn[p].state = "ESTABLISHED" THEN "open"
            ELSE IF p = Client /\ strm[p].connects < Attempts THEN "connect" ELSE "delete")
    /\ UNCHANGED strm

-----------------------------------------------------------------------------
(* write(), once.  A difference below zero is an unsigned number larger than *)
(* any other.                                                                *)

NoWrite == [allowed |-> 0, left |-> 0, acknowledged |-> 0, initial_seq |-> 0, tries |-> 0,
            data |-> 0, old_ack |-> 0, result |-> "none", connects |-> 0]

WriteCall(p) ==
    /\ p \in Writers
    /\ strm[p].result = "none"
    /\ Step(p, "open", conn[p], "write")
    /\ strm' = [strm EXCEPT ![p] = [@ EXCEPT !.allowed = WINDOW, !.left = Size, !.acknowledged = 0,
                                             !.initial_seq = conn[p].sequence, !.tries = 0, !.data = 0]]

Writing(p) ==
    /\ strm[p].tries < RETRIES
    /\ strm[p].acknowledged # Size
    /\ conn[p].state \in {"ESTABLISHED", "CLOSE_WAIT"}

Allowed(p) == IF strm[p].allowed \in 0 .. MSS THEN strm[p].allowed ELSE MSS
Payload(p) == IF strm[p].left \in 0 .. Allowed(p) THEN strm[p].left ELSE Allowed(p)

(* The window is open and there is data: one segment is sent.                *)
WriteSend(p) ==
    LET data == [i \in 1 .. Payload(p) |-> Byte(strm[p].data + i)]
    IN  /\ Writing(p)
        /\ Payload(p) # 0
        /\ (IF conn[p].retransmiting THEN conn[p].sequence ELSE conn[p].next) < MaxSequence
        /\ Step(p, "write", DSend([conn[p] EXCEPT !.streaming = TRUE], data), "sent")
        /\ strm' = [strm EXCEPT ![p].data = @ + Payload(p), ![p].left = @ - Payload(p)]

(* A slip: the acknowledgment number itself is counted.                      *)
AdvancedOne(w, c) ==
    [w EXCEPT !.acknowledged = c.current - w.initial_seq + 1, !.allowed = WINDOW - (c.sequence - c.current)]

(* The third part of the for statement.                                      *)
Advanced(w, c) ==
    [w EXCEPT !.acknowledged = c.current - w.initial_seq, !.allowed = WINDOW - (c.sequence - c.current)]

WriteSent(p) ==
    LET c == [conn[p] EXCEPT !.retransmiting = @ /\ conn[p].sequence # conn[p].next]
    IN  /\ Step(p, "sent", c, "write")
        /\ strm' = [strm EXCEPT ![p] = Advanced(@, c)]

(* The window is full or all was sent: write() waits for a relevant segment  *)
(* or for its alarm.                                                         *)
WriteFull(p) ==
    /\ Writing(p)
    /\ Payload(p) = 0
    /\ Step(p, "write", [conn[p] EXCEPT !.streaming = TRUE], "full")
    /\ strm' = [strm EXCEPT ![p].old_ack = conn[p].current]
WriteWait(p) == Step(p, "full", conn[p], "in_stream") /\ UNCHANGED strm

(* Nothing new was acknowledged: go back to what is not.                     *)
WriteResumed(p) ==
    LET w == strm[p]
        again == conn[p].current = w.old_ack
        c == IF again THEN [conn[p] EXCEPT !.retransmiting = TRUE, !.sequence = conn[p].current,
                                           !.unacknowledged = conn[p].current]
             ELSE conn[p]
        v == IF again THEN [w EXCEPT !.data = w.acknowledged, !.left = Size - w.acknowledged, !.tries = @ + 1]
             ELSE [w EXCEPT !.tries = 0]
    IN  /\ Step(p, "resumed", c, "write")
        /\ strm' = [strm EXCEPT ![p] = Advanced(v, c)]

WriteReturn(p) ==
    /\ ~Writing(p)
    /\ Step(p, "write", [conn[p] EXCEPT !.streaming = FALSE, !.retransmiting = FALSE], "open")
    /\ strm' = [strm EXCEPT ![p] =
                  [NoWrite EXCEPT !.connects = strm[p].connects, !.initial_seq = strm[p].initial_seq, !.result =
                     IF strm[p].tries = RETRIES \/ conn[p].state \notin {"ESTABLISHED", "CLOSE_WAIT"}
                     THEN "error" ELSE "size"]]

-----------------------------------------------------------------------------
(* detach() and the end of a failed attach(): the destructor and close().    *)

(* The application detaches when it has written and read all: the Link's     *)
(* read_all() blocks until it has every byte, whatever becomes of the peer.  *)
Finished(p) ==
    /\ p \in Writers => strm[p].result # "none"
    /\ Other(p) \in Writers => Len(delivered[p]) >= Size

Detach(p) ==
    /\ p \in Leavers /\ Finished(p)
    /\ Step(p, "open", [conn[p] EXCEPT !.observer = FALSE, !.alarm = FALSE], "close")
    /\ UNCHANGED strm

(* ~Connection(): the pending alarm is deleted, then the connection closed.  *)
Destroy(p) == Step(p, "delete", [conn[p] EXCEPT !.alarm = FALSE], "close") /\ UNCHANGED strm

(* close() tests the state, then changes it; in between a segment may.       *)
CloseAtOnce(p) ==
    /\ conn[p].state \in {"CLOSED", "LISTENING", "SYN_SENT"}
    /\ Step(p, "close", Moved(conn[p], "CLOSED"), "deleted")
    /\ UNCHANGED strm
CloseTest(p) ==
    /\ conn[p].state \notin {"CLOSED", "LISTENING", "SYN_SENT"}
    /\ Step(p, "close", conn[p],
            CASE conn[p].state \in {"ESTABLISHED", "SYN_RECEIVED"} -> "to_fin_wait1"
              [] conn[p].state = "CLOSE_WAIT" -> "to_last_ack"
              [] OTHER -> "fin")
    /\ UNCHANGED strm
CloseState(p) ==
    /\ \/ Step(p, "to_fin_wait1", Moved(conn[p], "FIN_WAIT1"), "fin")
       \/ Step(p, "to_last_ack", Moved(conn[p], "LAST_ACK"), "fin")
    /\ UNCHANGED strm
CloseSend(p) == Step(p, "fin", FSend(conn[p], {"ACK", "FIN"}), "sent_fin") /\ UNCHANGED strm
CloseWaits(p) == Step(p, "sent_fin", Armed(conn[p]), "in_close") /\ UNCHANGED strm

(* The last statement of detach(), after the connection was deleted; a       *)
(* failed attach() has none.                                                 *)
Detached(p) ==
    /\ ~conn[p].observer
    /\ At(p, "deleted")
    /\ conn' = [conn EXCEPT ![p] = [Connection(p) EXCEPT !.acknowledgment = conn[p].acknowledgment,
                                                         !.bound = "none", !.pc = "gone"]]
    /\ net' = {m \in net : m.to # p}
    /\ UNCHANGED <<strm, copies, delivered>>

-----------------------------------------------------------------------------
Init ==
    /\ conn = [p \in Peers |-> Connection(p)]
    /\ strm = [p \in Peers |-> NoWrite]
    /\ net = {}
    /\ copies = Copies
    /\ delivered = [p \in Peers |-> <<>>]

Connect(p) == ConnectState(p) \/ ConnectSend(p) \/ ConnectWait(p)
Listen(p) == ListenState(p) \/ ListenWait(p) \/ ListenSend(p) \/ ListenReceived(p) \/ ListenReceivedWait(p)
Write(p) == WriteCall(p) \/ WriteSend(p) \/ WriteSent(p) \/ WriteFull(p) \/ WriteWait(p) \/ WriteResumed(p) \/ WriteReturn(p)
Close(p) == Destroy(p) \/ CloseAtOnce(p) \/ CloseTest(p) \/ CloseState(p) \/ CloseSend(p) \/ CloseWaits(p) \/ Detached(p)
Thread(p) == Connect(p) \/ Listen(p) \/ Attach(p) \/ Write(p) \/ Detach(p) \/ Close(p)

Next == Lose \/ \E p \in Peers : Thread(p) \/ Receive(p) \/ Timeout(p) \/ StreamTimeout(p)

Spec == Init /\ [][Next]_vars

(* An armed alarm goes off and a thread that can run does; whether a segment *)
(* ever arrives is up to the network.                                        *)
FairSpec == Spec /\ \A p \in Peers : WF_vars(Timeout(p)) /\ WF_vars(Close(p))

-----------------------------------------------------------------------------
(* Type invariant. *)
TypeOK ==
    /\ \A p \in Peers :
         /\ conn[p].state \in State
         /\ {conn[p].sequence, conn[p].acknowledgment, conn[p].next, conn[p].unacknowledged,
             conn[p].current, conn[p].tries} \subseteq Nat
         /\ conn[p].initial = ISN(p)
         /\ {conn[p].valid, conn[p].streaming, conn[p].retransmiting, conn[p].alarm, conn[p].observer} \subseteq BOOLEAN
         /\ conn[p].bound \in {"any", "peer", "none"}
         /\ conn[p].out = {}
         /\ strm[p].result \in {"none", "size", "error"}
         /\ delivered[p] \in Seq([seq : Nat, byte : 0 .. Size])
    /\ \A m \in net : m.to \in Peers /\ m.flags \subseteq Flag /\ m.seq \in Nat /\ m.ack \in Nat
    /\ copies \in 0 .. Copies

(* "this forces segments to be accepted in order" (update()): the bytes the  *)
(* observer is notified of have consecutive sequence numbers, whatever the   *)
(* network and the retransmissions do: no gap, no repetition.                *)
InOrder ==
    \A p \in Peers : \A i \in 1 .. Len(delivered[p]) - 1 : delivered[p][i + 1].seq = delivered[p][i].seq + 1

(* When the client's write() returns size, a byte was delivered to the       *)
(* server's observer for each sequence number of the buffer.                 *)
WriteMeansReceived ==
    \A k \in 0 .. Size - 1 : strm[Client].result = "size" =>
        \E i \in 1 .. Len(delivered[Server]) : delivered[Server][i].seq = strm[Client].initial_seq + k

(* No end takes itself for connected before the other has its initial        *)
(* sequence number: a SYN, however old or often repeated, opens nothing by   *)
(* itself.                                                                   *)
HandshakeAgreed ==
    \A p \in Peers : conn[p].state = "ESTABLISHED" => conn[Other(p)].acknowledgment > ISN(p)

(* An end takes the other's side as closed only after the other's close()    *)
(* sent its FIN.                                                             *)
FinWasSent ==
    \A p \in Peers : conn[p].state \in {"CLOSE_WAIT", "LAST_ACK", "CLOSING", "TIME_WAIT"} =>
        conn[Other(p)].pc \in {"sent_fin", "in_close", "deleted", "gone"}

(* close() comes back: a thread that waits in close() leaves the states in   *)
(* which it waits for the peer's answer or for time to pass, even if the     *)
(* network loses every segment.  (FIN_WAIT2 has no alarm in the code.)       *)
Ending == {"FIN_WAIT1", "CLOSING", "LAST_ACK", "TIME_WAIT"}
CloseTerminates ==
    \A p \in Peers : At(p, "in_close") /\ conn[p].state \in Ending ~> conn[p].state \notin Ending
=============================================================================
