--------------------------------- MODULE Tcp ---------------------------------
(***************************************************************************)
(* The TCP sockets of the kernel's network stack (dependency/smoltcp,      *)
(* socket/tcp.rs), as two endpoints of one connection and the network      *)
(* between them.  A socket is changed by the system calls the kernel makes *)
(* on it (connect, listen, send_slice, recv_slice, close, abort), by       *)
(* process() when a segment arrives, and by dispatch() when the poll loop  *)
(* asks it for a segment.  The network loses, delays, reorders and         *)
(* duplicates segments.                                                    *)
(*                                                                         *)
(* Byte i of a stream is the number i, so a byte in the wrong place shows. *)
(* Sequence numbers wrap at SeqSpace as the code's i32 does.  Time is left *)
(* out: a timer is what it is armed for, and each poll is told which armed *)
(* timers it finds expired.  Window scaling, MSS negotiation, SACK (which  *)
(* the sender ignores) and the round-trip estimate are left out, and so is *)
(* the user timeout, which the kernel never sets.                          *)
(***************************************************************************)
EXTENDS Integers, Sequences, FiniteSets, RingBuffer, Assembler

CONSTANTS Active, Passive,  \* the socket that connects, the one that listens
          RxCap, TxCap,     \* capacities of the receive and transmit rings
          Mss,              \* the effective maximum segment size
          SeqSpace,         \* how many sequence numbers there are
          InitialSeq,       \* the initial sequence number each socket draws
          Scenarios,        \* socket options, workloads and fault budgets considered
          DupAcks,          \* how many duplicate ACKs start a fast retransmit
          MaxInFlight       \* how many segments the devices and the wire hold

Sockets == {Active, Passive}

ASSUME TcpAssumption ==
    /\ Active # Passive
    /\ RxCap \in Nat \ {0} /\ TxCap \in Nat \ {0} /\ Mss \in Nat \ {0}
    /\ MaxInFlight \in Nat \ {0}
    /\ DupAcks \in Nat \ {0}
    /\ InitialSeq \in [Sockets -> 0 .. SeqSpace - 1]
    /\ \A o \in Scenarios :
         /\ o.keep_alive \in BOOLEAN /\ o.nagle \in BOOLEAN /\ o.ack_delay \in BOOLEAN
         /\ o.payload \in [Sockets -> Nat]  \* how many bytes each owner sends
         /\ o.closes \subseteq Sockets      \* the owners that close at all
         /\ o.hasty \in BOOLEAN             \* may an owner close or abort early
         /\ o.faults \in Nat                \* segments lost, repeated or late
         /\ SeqSpace > 4 * (RxCap + o.payload[Active] + o.payload[Passive] + 2)

VARIABLES sk,      \* the sockets
          net,     \* the segments in flight
          app,     \* what the owners did: opened, sent, got, closed, early, aborted
          faults,  \* how many segments were lost, repeated or late
          opts     \* the scenario, fixed at the start

vars == <<sk, net, app, faults, opts>>

Peer(s) == IF s = Active THEN Passive ELSE Active

(***************************************************************************)
(* Sequence numbers (wire/tcp.rs).  Comparison is by the sign of the       *)
(* wrapped difference; a difference the code takes as usize must not be    *)
(* negative, or it panics.                                                 *)
(***************************************************************************)
NoSeq == -1
Plus(a, n) == (a + n) % SeqSpace
Minus(a, b) == (a - b) % SeqSpace
Precedes(a, b) == Minus(a, b) >= SeqSpace \div 2
AtMost(a, b) == ~Precedes(b, a)
SeqMax(a, b) == IF Precedes(b, a) THEN a ELSE b
SeqMin(a, b) == IF Precedes(a, b) THEN a ELSE b

SegmentLen(m) == Len(m.payload) + (IF m.control \in {"syn", "fin"} THEN 1 ELSE 0)
IsEmpty(m) == m.payload = <<>> /\ m.control \in {"none", "psh"}

(***************************************************************************)
(* A socket as Socket::new leaves it, and as reset leaves it: reset does   *)
(* not touch the duplicate-ACK bookkeeping, nor the storage of the rings.  *)
(***************************************************************************)
NewSocket ==
    [state |-> "Closed", timer |-> "idle", assembler |-> <<>>,
     rx_buffer |-> NewRing(RxCap), tx_buffer |-> NewRing(TxCap),
     rx_fin_received |-> FALSE, tuple |-> FALSE,
     local_seq_no |-> 0, remote_seq_no |-> 0, remote_last_seq |-> 0,
     remote_last_ack |-> NoSeq, remote_last_win |-> 0, remote_win_len |-> 0,
     local_rx_last_ack |-> NoSeq, local_rx_dup_acks |-> 0,
     ack_delay_timer |-> "Idle", challenged |-> FALSE]

Reset(k) ==
    [NewSocket EXCEPT !.rx_buffer = ClearRing(k.rx_buffer),
                      !.tx_buffer = ClearRing(k.tx_buffer),
                      !.local_rx_last_ack = k.local_rx_last_ack,
                      !.local_rx_dup_acks = k.local_rx_dup_acks]

IsOpen(k) == k.state \notin {"Closed", "TimeWait"}
MaySend(k) == k.state \in {"Established", "CloseWait"}
MayRecv(k) == k.state \in {"Established", "FinWait1", "FinWait2"} \/ k.rx_buffer.length > 0

SentSyn(k) == k.state \in {"SynSent", "SynReceived"}
SentFin(k) == k.state \in {"FinWait1", "LastAck", "Closing"}

\* The next sequence number expected, and the end of the receive window.
WindowStart(k) == Plus(k.remote_seq_no, k.rx_buffer.length)
WindowEnd(k) == Plus(k.remote_seq_no, RxCap)

\* Timer::set_for_idle arms the keep-alive when the option is on.
IdleTimer == IF opts.keep_alive THEN "alive" ELSE "idle"

\* Timer::set_for_retransmit leaves a running timer alone.
ForRetransmit(timer) == IF timer = "close" THEN "close" ELSE "retransmit"

(***************************************************************************)
(* Replies.                                                                *)
(***************************************************************************)
\* rst_reply: an RST|ACK answers a bare SYN, a plain RST anything else.
RstReply(s, m) ==
    [to |-> Peer(s), control |-> "rst",
     seq |-> IF m.ack = NoSeq THEN 0 ELSE m.ack,
     ack |-> IF m.control = "syn" /\ m.ack = NoSeq THEN Plus(m.seq, SegmentLen(m)) ELSE NoSeq,
     win |-> 0, payload |-> <<>>]

\* A plausible slip: the ACK covers what the assembler holds behind a gap.
AckReplyOverGap(s, k) ==
    [k |-> [k EXCEPT !.remote_last_ack = WindowStart(k),
                     !.remote_last_win = Window(k.rx_buffer)],
     out |-> {[to |-> Peer(s), control |-> "none", seq |-> k.remote_last_seq,
               ack |-> Plus(WindowStart(k), Start(k.assembler, Len(k.assembler) + 1)),
               win |-> Window(k.rx_buffer), payload |-> <<>>]}]

\* ack_reply: an empty ACK, after which the socket remembers what it told.
AckReply(s, k) ==
    [k |-> [k EXCEPT !.remote_last_ack = WindowStart(k),
                     !.remote_last_win = Window(k.rx_buffer)],
     out |-> {[to |-> Peer(s), control |-> "none", seq |-> k.remote_last_seq,
               ack |-> WindowStart(k), win |-> Window(k.rx_buffer), payload |-> <<>>]}]

Silent(k) == [k |-> k, out |-> {}]

\* challenge_ack_reply: at most one a second.
ChallengeAckReply(s, k) ==
    IF k.challenged THEN Silent(k) ELSE AckReply(s, [k EXCEPT !.challenged = TRUE])

(***************************************************************************)
(* process(), in the order of the code: is the acknowledgement acceptable, *)
(* is the segment in the window, what does it acknowledge, how does the    *)
(* state change, and then the payload.                                     *)
(***************************************************************************)
Accepts(k, m) ==
    /\ k.state # "Closed"
    /\ k.state = "Listen" => m.ack = NoSeq

AckVerdict(k, m) ==
    LET acksSyn == m.ack = Plus(k.local_seq_no, 1)
        unacknowledged == k.tx_buffer.length + (IF SentFin(k) THEN 1 ELSE 0)
    IN  CASE m.control = "rst" ->
               IF k.state = "SynSent" /\ ~acksSyn THEN "drop" ELSE "accept"
          [] m.control # "rst" /\ k.state = "Listen" -> "accept"
          [] m.control # "rst" /\ k.state # "Listen" /\ m.ack = NoSeq -> "drop"
          [] m.control # "rst" /\ k.state = "SynSent" /\ m.ack # NoSeq ->
               (CASE m.control = "syn" -> IF acksSyn THEN "accept" ELSE "reset"
                  [] m.control = "none" -> IF acksSyn THEN "drop" ELSE "reset"
                  [] OTHER -> "drop")
          [] m.control # "rst" /\ k.state = "SynReceived" /\ m.ack # NoSeq ->
               IF acksSyn THEN "accept" ELSE "reset"
          [] OTHER ->
               IF Precedes(m.ack, k.local_seq_no) THEN "drop"
               ELSE IF Precedes(Plus(k.local_seq_no, unacknowledged), m.ack) THEN "challenge"
               ELSE "accept"

\* The acceptability tests of RFC 9293 as the code makes them.
SegmentInWindow(k, m) ==
    LET first == m.seq
        end == Plus(m.seq, SegmentLen(m))
        ws == WindowStart(k)
        we == WindowEnd(k)
        Inside(n) == AtMost(ws, n) /\ Precedes(n, we)
    IN  IF first = end
        THEN /\ end # Minus(ws, 1)
             /\ IF ws = we THEN first = ws ELSE Inside(first)
        ELSE /\ ws # we
             /\ Inside(first) \/ (Precedes(ws, end) /\ AtMost(end, we))

\* The part of the payload that lies in the window, and its offset there.
OverlapStart(k, m) == SeqMax(WindowStart(k), m.seq)
OverlapEnd(k, m) == SeqMin(WindowEnd(k), Plus(m.seq, Len(m.payload)))
PayloadOf(k, m) ==
    IF k.state \in {"Listen", "SynSent"} THEN <<>>
    ELSE SubSeq(m.payload, Minus(OverlapStart(k, m), m.seq) + 1,
                Minus(OverlapEnd(k, m), m.seq))
PayloadOffset(k, m) == Minus(OverlapStart(k, m), WindowStart(k))

\* What the segment acknowledges: how many bytes, our FIN, all that was sent.
AckOf(k, m) ==
    LET base == Plus(k.local_seq_no, IF SentSyn(k) THEN 1 ELSE 0)
        counts == m.control # "rst" /\ m.ack # NoSeq /\ AtMost(base, m.ack)
        raw == IF counts THEN Minus(m.ack, base) ELSE 0
        fin == counts /\ SentFin(k) /\ raw = k.tx_buffer.length + 1
    IN  [len |-> IF fin THEN raw - 1 ELSE raw, fin |-> fin,
         all |-> counts /\ k.remote_last_seq = m.ack]

\* A plausible slip: a FIN behind a gap counts.
ControlOfAnyFin(k, m) == IF m.control = "psh" THEN "none" ELSE m.control

\* A FIN behind a gap is disregarded.
ControlOf(k, m) ==
    IF m.control = "psh" \/ (m.control = "fin" /\ m.seq # WindowStart(k)) THEN "none"
    ELSE m.control

\* The state change: the socket after it, and whether processing goes on.
Transition(s, k, m, a, c) ==
    LET st == k.state
        Go(state, timer) == [go |-> TRUE, k |-> [k EXCEPT !.state = state, !.timer = timer]]
        Keep(timer) == Go(st, timer)
        Fin(state, timer) ==
            [go |-> TRUE, k |-> [k EXCEPT !.state = state, !.timer = timer,
                                          !.remote_seq_no = Plus(@, 1),
                                          !.rx_fin_received = TRUE]]
        Drop(state) == [go |-> FALSE, k |-> [k EXCEPT !.state = state, !.tuple = FALSE]]
    IN  CASE c = "rst" /\ st = "Listen" -> [go |-> FALSE, k |-> k]
          [] c = "rst" /\ st = "SynReceived" -> Drop("Listen")
          [] c = "rst" /\ st \notin {"Listen", "SynReceived"} -> Drop("Closed")
          [] c = "syn" /\ st = "Listen" ->
               [go |-> TRUE,
                k |-> [k EXCEPT !.tuple = TRUE, !.state = "SynReceived", !.timer = IdleTimer,
                                !.local_seq_no = InitialSeq[s],
                                !.remote_seq_no = Plus(m.seq, 1),
                                !.remote_last_seq = InitialSeq[s]]]
          [] c = "syn" /\ st = "SynSent" ->
               [go |-> TRUE,
                k |-> [k EXCEPT !.state = "Established", !.timer = IdleTimer,
                                !.remote_seq_no = Plus(m.seq, 1),
                                !.remote_last_seq = Plus(k.local_seq_no, 1),
                                !.remote_last_ack = m.seq]]
          [] c = "none" /\ st = "SynReceived" -> Go("Established", IdleTimer)
          [] c = "none" /\ st = "Established" ->
               Keep(IF k.timer \notin {"retransmit", "fast"} \/ a.all THEN IdleTimer ELSE k.timer)
          [] c = "none" /\ st = "FinWait1" ->
               Go(IF a.fin THEN "FinWait2" ELSE st, IF a.all THEN IdleTimer ELSE k.timer)
          [] c = "none" /\ st \in {"FinWait2", "CloseWait"} -> Keep(IdleTimer)
          [] c = "none" /\ st = "Closing" ->
               IF a.fin THEN Go("TimeWait", "close") ELSE Keep(IdleTimer)
          [] c = "none" /\ st = "LastAck" ->
               IF a.fin THEN [Go("Closed", k.timer) EXCEPT !.k.tuple = FALSE]
                        ELSE Keep(IdleTimer)
          [] c = "fin" /\ st \in {"SynReceived", "Established"} -> Fin("CloseWait", IdleTimer)
          [] c = "fin" /\ st = "FinWait1" ->
               IF a.fin THEN Fin("TimeWait", "close") ELSE Fin("Closing", IdleTimer)
          [] c = "fin" /\ st = "FinWait2" -> Fin("TimeWait", "close")
          [] OTHER -> [go |-> FALSE, k |-> k]

\* A plausible slip: an ACK past what was sent since rewinding is not
\* followed.
AcknowledgeBehind(k, m, a) ==
    LET freed == IF a.len > 0 THEN DequeueAllocated(k.tx_buffer, a.len) ELSE k.tx_buffer
        q == [k EXCEPT !.remote_win_len = m.win, !.tx_buffer = freed]
    IN  IF m.ack = NoSeq THEN q
        ELSE [q EXCEPT !.local_rx_dup_acks = 0, !.local_rx_last_ack = m.ack,
                       !.local_seq_no = m.ack]

\* The sender's side of an accepted segment: the window, the acknowledged
\* bytes, duplicate ACKs (the third starts a fast retransmit), local_seq_no.
Acknowledge(k, m, a) ==
    LET freed == IF a.len > 0 THEN DequeueAllocated(k.tx_buffer, a.len) ELSE k.tx_buffer
        dup == /\ k.local_rx_last_ack # NoSeq
               /\ m.payload = <<>>
               /\ k.local_rx_last_ack = m.ack
               /\ Precedes(m.ack, k.remote_last_seq)
               /\ m.win = k.remote_win_len
        third == dup /\ k.local_rx_dup_acks = DupAcks - 1
        q == [k EXCEPT !.remote_win_len = m.win, !.tx_buffer = freed]
    IN  IF m.ack = NoSeq THEN q
        ELSE [q EXCEPT !.local_rx_dup_acks = IF dup THEN Least(@ + 1, DupAcks) ELSE 0,
                       !.timer = IF third THEN "fast" ELSE @,
                       !.local_rx_last_ack = IF dup THEN @ ELSE m.ack,
                       !.local_seq_no = m.ack,
                       !.remote_last_seq = SeqMax(@, m.ack)]

AckToTransmit(k) ==
    k.remote_last_ack # NoSeq /\ Precedes(k.remote_last_ack, WindowStart(k))

WindowToUpdate(k) ==
    /\ k.state \in {"SynSent", "SynReceived", "Established", "FinWait1", "FinWait2"}
    /\ Window(k.rx_buffer) > k.remote_last_win

\* The receiver's side: the bytes go to their place in the ring and the ones
\* that became contiguous count (Stored); news starts the delayed-ACK timer,
\* more news makes it immediate (Delayed); a gap is answered at once.
Stored(k, payload, offset, added) ==
    [k EXCEPT !.assembler = added.contigs,
              !.rx_buffer = EnqueueUnallocated(WriteUnallocated(@, offset, payload), added.len)]

Delayed(k) ==
    IF opts.ack_delay /\ (AckToTransmit(k) \/ WindowToUpdate(k))
    THEN [k EXCEPT !.ack_delay_timer = IF @ = "Idle" THEN "Waiting" ELSE "Immediate"]
    ELSE k

Answered(s, before, k) ==
    IF k.assembler # <<>> \/ before.assembler # <<>> THEN AckReply(s, k) ELSE Silent(k)

ReceiveInto(s, k, payload, offset, added) ==
    IF ~added.ok THEN Silent(k)
    ELSE Answered(s, k, Delayed(Stored(k, payload, offset, added)))

Receive(s, k, payload, offset) ==
    IF payload = <<>> THEN Silent(k)
    ELSE ReceiveInto(s, k, payload, offset,
                     AddThenRemoveFront(k.assembler, offset, Len(payload)))

\* An acceptable segment, given the state change it causes.
Continue(s, k, m, a, step) ==
    IF ~step.go THEN Silent(step.k)
    ELSE Receive(s, Acknowledge(step.k, m, a), PayloadOf(k, m),
                 IF k.state \in {"Listen", "SynSent"} THEN 0 ELSE PayloadOffset(k, m))

AcceptedAck(s, k, m, a) ==
    IF k.state \notin {"Listen", "SynSent"} /\ ~SegmentInWindow(k, m)
    THEN ChallengeAckReply(s, k)
    ELSE Continue(s, k, m, a, Transition(s, k, m, a, ControlOf(k, m)))

Process(s, k, m) ==
    LET verdict == AckVerdict(k, m)
    IN  CASE verdict = "drop" -> Silent(k)
          [] verdict = "reset" -> [k |-> k, out |-> {RstReply(s, m)}]
          [] verdict = "challenge" -> ChallengeAckReply(s, k)
          [] verdict = "accept" -> AcceptedAck(s, k, m, AckOf(k, m))

(***************************************************************************)
(* dispatch().                                                             *)
(***************************************************************************)
SeqToTransmit(k) ==
    LET inFlight == k.remote_last_seq # k.local_seq_no
        edge == Plus(k.local_seq_no, Least(k.remote_win_len, k.tx_buffer.length))
        maxSend == IF AtMost(k.remote_last_seq, edge) THEN Minus(edge, k.remote_last_seq) ELSE 0
        nagled == opts.nagle /\ inFlight /\ maxSend < Mss /\ ~SentFin(k)
    IN  \/ SentSyn(k) /\ ~inFlight
        \/ maxSend # 0 /\ ~nagled
        \/ SentFin(k) /\ k.remote_last_seq = Plus(k.local_seq_no, k.tx_buffer.length)

\* An expired (or fast) retransmit timer takes the socket back to the last
\* acknowledged byte, unless there is something new to send anyway.
Rewound(k, due) ==
    IF /\ ~SeqToTransmit(k)
       /\ k.timer = "fast" \/ (k.timer = "retransmit" /\ "timer" \in due)
    THEN [k EXCEPT !.remote_last_seq = k.local_seq_no, !.timer = IdleTimer]
    ELSE k

MustSend(k, due) ==
    \/ SeqToTransmit(k)
    \/ /\ AckToTransmit(k) \/ WindowToUpdate(k)
       /\ k.ack_delay_timer # "Waiting" \/ "ack" \in due
    \/ k.state = "Closed"

\* The segment the socket sends in its state.
Outgoing(s, k) ==
    LET offset == Minus(k.remote_last_seq, k.local_seq_no)
        edge == Plus(k.local_seq_no, k.remote_win_len)
        limit == IF AtMost(k.remote_last_seq, edge) THEN Minus(edge, k.remote_last_seq) ELSE 0
        sends == k.state \in {"Established", "FinWait1", "Closing", "CloseWait", "LastAck"}
        payload == IF sends THEN GetAllocated(k.tx_buffer, offset, Least(limit, Mss)) ELSE <<>>
        all == sends /\ offset + Len(payload) = k.tx_buffer.length
        control == CASE k.state = "Closed" -> "rst"
                     [] SentSyn(k) -> "syn"
                     [] SentFin(k) /\ all -> "fin"
                     [] MaySend(k) /\ all /\ payload # <<>> -> "psh"
                     [] OTHER -> "none"
    IN  [to |-> Peer(s), control |-> control, seq |-> k.remote_last_seq,
         ack |-> IF k.state = "SynSent" THEN NoSeq ELSE WindowStart(k),
         win |-> Window(k.rx_buffer), payload |-> payload]

\* A plausible slip: a segment that carries only a flag arms no timer.
SentFlagUntimed(k, m) ==
    LET q == [k EXCEPT !.remote_last_seq = Plus(m.seq, SegmentLen(m)),
                       !.remote_last_ack = m.ack,
                       !.remote_last_win = m.win,
                       !.ack_delay_timer = "Idle",
                       !.timer = IF @ = "idle" THEN IdleTimer ELSE @,
                       !.tuple = k.state # "Closed"]
    IN  IF m.payload # <<>> /\ ~SeqToTransmit(q)
        THEN [q EXCEPT !.timer = ForRetransmit(@)] ELSE q

\* The socket once the segment is in the device's buffer.
Sent(k, m) ==
    LET q == [k EXCEPT !.remote_last_seq = Plus(m.seq, SegmentLen(m)),
                       !.remote_last_ack = m.ack,
                       !.remote_last_win = m.win,
                       !.ack_delay_timer = "Idle",
                       !.timer = IF @ = "idle" THEN IdleTimer ELSE @,
                       !.tuple = k.state # "Closed"]
    IN  IF SegmentLen(m) > 0 /\ ~SeqToTransmit(q)
        THEN [q EXCEPT !.timer = ForRetransmit(@)] ELSE q

\* A keep-alive carries a byte from before the window and changes no state
\* but the timers.
KeepAlive(m) == [m EXCEPT !.seq = Minus(@, 1), !.payload = <<0>>]

\* Emission of segment m by the socket k that dispatch decided on.
Emitted(s, k, m, alive) ==
    IF alive /\ IsEmpty(m)
    THEN [k |-> [k EXCEPT !.ack_delay_timer = "Idle"], out |-> {KeepAlive(m)}]
    ELSE [k |-> Sent(k, m), out |-> {m}]

Decided(s, k, due) ==
    LET alive == k.timer = "alive" /\ "timer" \in due
    IN  IF MustSend(k, due) \/ alive THEN Emitted(s, k, Outgoing(s, k), alive)
        ELSE IF k.timer = "close" /\ "timer" \in due THEN Silent(Reset(k))
        ELSE Silent(k)

Poll(s, k, due) == IF ~k.tuple THEN Silent(k) ELSE Decided(s, Rewound(k, due), due)

-----------------------------------------------------------------------------
(***************************************************************************)
(* The behaviours of the two sockets, their owners and the network.        *)
(***************************************************************************)
Init ==
    /\ sk = [s \in Sockets |-> NewSocket]
    /\ net = {}
    /\ app = [s \in Sockets |-> [opened |-> FALSE, sent |-> 0, got |-> <<>>,
                                 closed |-> FALSE, early |-> FALSE, aborted |-> FALSE]]
    /\ faults = 0
    /\ opts \in Scenarios

Listen(s) ==
    /\ s = Passive /\ ~app[s].opened /\ ~IsOpen(sk[s])
    /\ sk' = [sk EXCEPT ![s] = [Reset(@) EXCEPT !.state = "Listen"]]
    /\ app' = [app EXCEPT ![s].opened = TRUE]
    /\ UNCHANGED <<net, faults, opts>>

Connect(s) ==
    /\ s = Active /\ ~app[s].opened /\ ~IsOpen(sk[s])
    /\ sk' = [sk EXCEPT ![s] = [Reset(@) EXCEPT !.state = "SynSent", !.tuple = TRUE,
                                                !.local_seq_no = InitialSeq[s],
                                                !.remote_last_seq = InitialSeq[s]]]
    /\ app' = [app EXCEPT ![s].opened = TRUE]
    /\ UNCHANGED <<net, faults, opts>>

\* send_slice with the next n bytes; as many as fit are taken.
Send(s, n) ==
    /\ MaySend(sk[s]) /\ Window(sk[s].tx_buffer) > 0
    /\ app[s].sent + n <= opts.payload[s]
    /\ sk' = [sk EXCEPT ![s].tx_buffer = EnqueueSlice(@, [i \in 1 .. n |-> app[s].sent + i])]
    /\ app' = [app EXCEPT ![s].sent = @ + Least(n, Window(sk[s].tx_buffer))]
    /\ UNCHANGED <<net, faults, opts>>

\* recv_slice into a buffer of n bytes.
Recv(s, n) ==
    /\ MayRecv(sk[s]) /\ n <= sk[s].rx_buffer.length
    /\ app' = [app EXCEPT ![s].got = @ \o Front(sk[s].rx_buffer, n)]
    /\ sk' = [sk EXCEPT ![s].rx_buffer = DequeueAllocated(@, n),
                        ![s].remote_seq_no = Plus(@, n)]
    /\ UNCHANGED <<net, faults, opts>>

CloseOf(state) ==
    CASE state \in {"Listen", "SynSent"} -> "Closed"
      [] state \in {"SynReceived", "Established"} -> "FinWait1"
      [] state = "CloseWait" -> "LastAck"
      [] OTHER -> state

Close(s) ==
    /\ app[s].opened /\ ~app[s].closed /\ s \in opts.closes
    /\ opts.hasty \/ (sk[s].state \notin {"Listen", "SynSent", "SynReceived"}
                       /\ app[s].sent = opts.payload[s])
    /\ sk' = [sk EXCEPT ![s].state = CloseOf(@)]
    /\ app' = [app EXCEPT ![s].closed = TRUE, ![s].early = sk[s].state = "SynReceived"]
    /\ UNCHANGED <<net, faults, opts>>

Abort(s) ==
    /\ opts.hasty /\ ~app[s].aborted /\ sk[s].state # "Closed"
    /\ sk' = [sk EXCEPT ![s].state = "Closed"]
    /\ app' = [app EXCEPT ![s].aborted = TRUE]
    /\ UNCHANGED <<net, faults, opts>>

\* The timers that can be found expired at all.
Running(k) ==
    (IF k.timer \in {"alive", "retransmit", "close"} THEN {"timer"} ELSE {})
    \cup (IF k.ack_delay_timer = "Waiting" THEN {"ack"} ELSE {})

\* The timers are long for the network: one that expires with segments still
\* on the way means they are late, which counts as a fault.
OnTime(due) ==
    /\ "timer" \in due /\ net # {} => faults < opts.faults
    /\ faults' = faults + (IF "timer" \in due /\ net # {} THEN 1 ELSE 0)

\* One call of dispatch with the timers in `due` found expired.
Emit(s, r) ==
    /\ r.out # {} => Cardinality(net) < MaxInFlight
    /\ sk' = [sk EXCEPT ![s] = r.k]
    /\ net' = net \cup r.out

Dispatch(s, due) ==
    /\ due \subseteq Running(sk[s])
    /\ OnTime(due)
    /\ Emit(s, Poll(s, sk[s], due))
    /\ UNCHANGED <<app, opts>>

\* The device has no room: emit fails, and only the rewinding stays done.
DispatchRefused(s, due) ==
    /\ sk[s].tuple
    /\ due \subseteq Running(sk[s])
    /\ OnTime(due)
    /\ Rewound(sk[s], due) # sk[s]
    /\ sk' = [sk EXCEPT ![s] = Rewound(@, due)]
    /\ UNCHANGED <<net, app, opts>>

\* process_tcp: a segment no socket accepts is answered with an RST, unless
\* it is one.
Handle(s, m) ==
    IF Accepts(sk[s], m) THEN Process(s, sk[s], m)
    ELSE [k |-> sk[s], out |-> IF m.control = "rst" THEN {} ELSE {RstReply(s, m)}]

Absorb(s, r, rest) ==
    /\ sk' = [sk EXCEPT ![s] = r.k]
    /\ net' = rest \cup r.out

Deliver(m) ==
    /\ Absorb(m.to, Handle(m.to, m), net \ {m})
    /\ UNCHANGED <<app, faults, opts>>

\* The network's faults: a segment is delivered and a copy of it stays on the
\* way, or it is lost.
DeliverCopy(m) ==
    /\ faults < opts.faults
    /\ faults' = faults + 1
    /\ Absorb(m.to, Handle(m.to, m), net)
    /\ UNCHANGED <<app, opts>>

Lose(m) ==
    /\ faults < opts.faults
    /\ faults' = faults + 1
    /\ net' = net \ {m}
    /\ UNCHANGED <<sk, app, opts>>

\* A second has passed since the last challenge ACK.
ChallengeAgain(s) ==
    /\ sk[s].challenged
    /\ OnTime({"timer"})
    /\ sk' = [sk EXCEPT ![s].challenged = FALSE]
    /\ UNCHANGED <<net, app, opts>>

Next ==
    \/ \E s \in Sockets : Listen(s)
    \/ \E s \in Sockets : Connect(s)
    \/ \E s \in Sockets : \E n \in 1 .. opts.payload[s] : Send(s, n)
    \/ \E s \in Sockets : \E n \in 1 .. RxCap : Recv(s, n)
    \/ \E s \in Sockets : Close(s)
    \/ \E s \in Sockets : Abort(s)
    \/ \E s \in Sockets : \E due \in SUBSET {"timer", "ack"} : Dispatch(s, due)
    \/ \E s \in Sockets : \E due \in SUBSET {"timer", "ack"} : DispatchRefused(s, due)
    \/ \E m \in net : Deliver(m)
    \/ \E m \in net : DeliverCopy(m)
    \/ \E m \in net : Lose(m)
    \/ \E s \in Sockets : ChallengeAgain(s)

Spec == Init /\ [][Next]_vars

-----------------------------------------------------------------------------
(***************************************************************************)
(* Properties.                                                             *)
(***************************************************************************)
States == {"Closed", "Listen", "SynSent", "SynReceived", "Established", "FinWait1",
           "FinWait2", "CloseWait", "Closing", "LastAck", "TimeWait"}

\* The fields of a socket have their types and the rings never overfill.
TypeOK ==
    /\ opts \in Scenarios /\ faults \in 0 .. opts.faults
    /\ \A s \in Sockets :
         /\ sk[s].state \in States
         /\ sk[s].timer \in {"idle", "alive", "retransmit", "fast", "close"}
         /\ sk[s].ack_delay_timer \in {"Idle", "Waiting", "Immediate"}
         /\ sk[s].rx_buffer.length \in 0 .. RxCap
         /\ sk[s].tx_buffer.length \in 0 .. TxCap
         /\ Len(sk[s].assembler) <= MaxSegments
    /\ \A m \in net : m.to \in Sockets /\ m.seq \in 0 .. SeqSpace - 1

Arrived(s) == Len(app[s].got) + sk[s].rx_buffer.length

\* What recv_slice handed out, and what it is going to hand out, is the
\* peer's stream from its beginning: nothing missing, doubled or swapped,
\* however segments were lost, repeated, reordered, cut or overlapped.  Every
\* byte the assembler calls held lies in the ring where it will be read once
\* the gap before it closes: assembler offsets, ring indices and the moving
\* window agree.  One thing breaks it: with keep-alive on, a FIN of the peer
\* turns the retransmit timer into the keep-alive timer although data is in
\* flight, and if that data was lost the filler byte of the keep-alive, which
\* carries the number before the next one, is taken for it.
StreamInOrder ==
    \A s \in Sockets :
        /\ app[s].got \o Front(sk[s].rx_buffer, RxCap) = [i \in 1 .. Arrived(s) |-> i]
        /\ Arrived(s) <= app[Peer(s)].sent
        /\ \A o \in Held(sk[s].assembler) :
             /\ o < Window(sk[s].rx_buffer)
             /\ sk[s].rx_buffer.storage[GetIdx(sk[s].rx_buffer, sk[s].rx_buffer.length + o)]
                  = Arrived(s) + o + 1

\* recv's promise: once it reports Finished, the peer closed and everything
\* the peer sent was handed out.
FinishedIsComplete ==
    \A s \in Sockets :
        sk[s].rx_fin_received =>
            app[Peer(s)].closed /\ Arrived(s) = app[Peer(s)].sent

\* Bytes leave the transmit ring only when the peer holds them: a socket
\* that is still open never forgets a byte it may have to send again.  It
\* believes its FIN acknowledged only when the peer has it, unless it was
\* closed in SYN-RECEIVED, where process takes the acknowledgement of the SYN
\* for the one of the FIN.
AckedIsHeld ==
    \A s \in Sockets :
        sk[Peer(s)].state # "Closed" =>
            /\ app[s].sent - sk[s].tx_buffer.length <= Arrived(Peer(s))
            /\ sk[s].state \in {"FinWait2", "TimeWait"} /\ ~app[s].early =>
                 sk[Peer(s)].rx_fin_received

\* The differences the code takes as usize are not negative and its asserts
\* hold, whichever segment comes next: sent is not behind acknowledged, the
\* overlap with the window is ordered, an ACK frees no more than is there.
NoPanic ==
    /\ \A s \in Sockets :
         sk[s].tuple => AtMost(sk[s].local_seq_no, sk[s].remote_last_seq)
    /\ \A m \in net :
         LET k == sk[m.to]
         IN  /\ Accepts(k, m)
             /\ AckVerdict(k, m) = "accept"
             /\ k.state \notin {"Listen", "SynSent"} /\ SegmentInWindow(k, m)
             => /\ AtMost(OverlapStart(k, m), OverlapEnd(k, m))
                /\ AckOf(k, m).len <= k.tx_buffer.length

\* Nothing is on the way, no timer runs and no poll would do anything: only
\* the owners can move the connection again.
Quiet ==
    /\ net = {}
    /\ \A s \in Sockets : Running(sk[s]) = {} /\ Poll(s, sk[s], {}) = Silent(sk[s])

Undone(s) ==
    sk[s].tuple /\ (SentSyn(sk[s]) \/ SentFin(sk[s]) \/ sk[s].tx_buffer.length > 0)

\* The stack never falls quiet with a SYN, data or a FIN unacknowledged, though a
\* segment is lost, repeated or late: a timer always remains to send it
\* again.  Excepted are a window too narrow for the queued data (the code
\* does not probe it, and arms the timer only with the last byte that fits)
\* and what is in flight when the peer's own FIN has arrived, which makes
\* process drop the retransmit timer.
NoStall ==
    Quiet => \A s \in Sockets :
                 Undone(s) => \/ sk[s].remote_win_len < sk[s].tx_buffer.length
                              \/ sk[s].rx_fin_received
=============================================================================
