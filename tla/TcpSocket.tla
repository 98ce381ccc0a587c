------------------------------ MODULE TcpSocket ------------------------------
(***************************************************************************)
(* A connected socket of FreeRTOS+TCP, as the functions that the IP-task   *)
(* calls on it: the sliding windows (FreeRTOS_TCP_WIN.c), the handling of  *)
(* a received packet and of the socket's timer (FreeRTOS_TCP_IP.c,         *)
(* _Reception.c, _State_Handling.c, _Transmission.c).                      *)
(*                                                                         *)
(* A socket is a record s, see NewSocket.  A function that changes it      *)
(* gives the changed record; what it transmits is appended to s.out.       *)
(* Sequence numbers count the bytes of a direction from 0.  Received bytes *)
(* are numbered, so that byte k is the number k.                           *)
(*                                                                         *)
(* Left out, as nothing in this program leads there: an active shutdown,   *)
(* call-backs, select() and signals; ulTxWindowLength, which shrinks to    *)
(* two segments, is never larger here.  A network buffer that cannot be    *)
(* had is a packet that is lost.                                           *)
(***************************************************************************)
EXTENDS StreamBuffer, FiniteSets, SequencesExt

CONSTANTS
    MSS,         \* usMSS
    Segments,    \* ipconfigTCP_RX_BUFFER_LENGTH and _TX_ in MSS, at most 4
    Pool,        \* ipconfigTCP_WIN_SEG_COUNT: segments for both directions
    StartAt,     \* the place in the buffers that earlier traffic has reached
    SeqRange,    \* 2^32: raw sequence numbers are smaller
    KeepAlives,  \* 3: keep-alive packets that may go unanswered
    DupAcks      \* 3: DUPLICATE_ACKS_BEFORE_FAST_RETRANSMIT

ASSUME SocketAssumption ==
    /\ MSS \in Nat \ {0, 1} /\ Segments \in 2 .. 4 /\ Pool \in Nat
    /\ StartAt \in 0 .. MSS * Segments
    /\ SeqRange \in Nat \ {0} /\ KeepAlives \in Nat /\ DupAcks \in Nat \ {0}

StreamSize == MSS * Segments
LENGTH == StreamSize + 1             \* prvTCPCreateStream adds sizeof( size_t )
Window == MSS * (Segments \div 2)    \* ulRxWindowLength and ulTxWindowLength
LittleSpace == StreamSize \div Segments
EnoughSpace == StreamSize
SendRepeatedCount == 8               \* SEND_REPEATED_COUNT
None == -1
Bytes(q, n) == [i \in 1 .. n |-> q + i - 1]    \* the n bytes from byte q on

NewStream == [LENGTH |-> LENGTH, head |-> StartAt, tail |-> StartAt, mid |-> StartAt,
              front |-> StartAt, bytes |-> [i \in 0 .. LENGTH - 1 |-> None]]

\* A connection just established, by a peer with the window win; first is the raw
\* sequence number of our byte 0.
NewSocket(win, first) ==
    [state |-> "ESTABLISHED",
     \* rx: ulCurrentSequenceNumber, ulHighestSequenceNumber, ulFINSequenceNumber,
     \* xRxSegments, the block of the SACK option, ulHighestRxAllowed, rxStream
     cur |-> 0, highest |-> 0, fin |-> None, stored |-> {}, sack |-> <<>>,
     allowed |-> Window, rx |-> NewStream,
     \* tx: the same, ulNextTxSequenceNumber, xTxSegments and the three queues,
     \* pxHeadSegment, ulWindowSize, txStream
     txCur |-> 0, txHighest |-> 0, txNext |-> 0, txFin |-> None, segs |-> <<>>,
     txQueue |-> <<>>, waitQueue |-> <<>>, prioQueue |-> <<>>, head |-> None,
     window |-> win, tx |-> NewStream, first |-> first,
     \* bits; ucKeepRepCount; pxAckMessage; the timers: how many segments at the head
     \* of the wait queue are due, and whether the peer has been quiet for too long
     bits |-> [LowWater |-> FALSE, WinChange |-> FALSE, SendKeepAlive |-> FALSE,
               FinAccepted |-> FALSE, FinSent |-> FALSE, FinRecv |-> FALSE,
               FinAcked |-> FALSE, FinLast |-> FALSE],
     keepRep |-> 0, ackMessage |-> FALSE, late |-> 0, quiet |-> FALSE,
     out |-> <<>>]

\* prvTCPTouchSocket
TouchSocket(s) == [s EXCEPT !.bits.SendKeepAlive = FALSE, !.keepRep = 0, !.quiet = FALSE]

\* vTCPStateChange
StateChange(s, state) == TouchSocket([s EXCEPT !.state = state])

----------------------------------------------------------------------------
\* The transmission window.

Free(s) == Pool - Len(s.segs) - Cardinality(s.stored)
Without(queue, seqs) == SelectSeq(queue, LAMBDA q : q \notin seqs)
Segment(s, q) == s.segs[CHOOSE i \in DOMAIN s.segs : s.segs[i].seq = q]
Update(s, q, g) == [s EXCEPT !.segs = [i \in DOMAIN @ |-> IF @[i].seq = q THEN g ELSE @[i]]]

\* lTCPWindowTxAdd and prvTCPAddTxData: the bytes between mid and head go to the
\* last segment, if it has room and was not sent, and to new ones while there are.
FillHead(s) ==
    LET n == Least(MidSpace(s.tx), MSS - Segment(s, s.head).len)
        g == [Segment(s, s.head) EXCEPT !.len = @ + n]
    IN  IF s.head = None THEN s
        ELSE [Update(s, s.head, g) EXCEPT !.txNext = @ + n, !.tx = MoveMid(@, n),
                                          !.head = IF g.len < MSS THEN @ ELSE None]
AddSegment(s, n) ==
    [s EXCEPT
        !.segs = Append(@, [seq |-> s.txNext, len |-> n, pos |-> s.tx.mid, acked |-> FALSE, dup |-> 0]),
        !.txQueue = Append(@, s.txNext), !.txNext = @ + n, !.tx = MoveMid(@, n),
        !.head = IF n < MSS THEN s.txNext ELSE None]
AddTxData(s) ==
    FoldLeft(LAMBDA t, i : IF MidSpace(t.tx) = 0 \/ Free(t) = 0 THEN t
                           ELSE AddSegment(t, Least(MSS, MidSpace(t.tx))),
             FillHead(s), Bytes(1, Segments))

\* xTCPWindowTxDone
TxDone(s) == s.segs = <<>>

\* prvTCPWindowTxHasSpace; the two sequence numbers are compared as raw numbers.
Raw(s, q) == (s.first + q) % SeqRange
TxHasSpace(s) ==
    LET len == Segment(s, Head(s.txQueue)).len
        outstanding == IF Raw(s, s.txHighest) >= Raw(s, s.txCur) THEN s.txHighest - s.txCur ELSE 0
    IN  /\ s.window - Least(s.window, outstanding) >= len
        /\ outstanding = 0 \/ outstanding + len <= Window

\* xTCPWindowTxHasData, for something that is to be sent now.
TxHasData(s) ==
    \/ s.prioQueue # <<>>
    \/ s.waitQueue # <<>> /\ s.late > 0
    \/ s.waitQueue = <<>> /\ s.txQueue # <<>> /\ TxHasSpace(s)

\* Faulty: nothing is sent again when its timer expires.
TxNextOnce(s) ==
    CASE s.prioQueue # <<>> -> Head(s.prioQueue)
      [] s.prioQueue = <<>> -> IF s.txQueue # <<>> /\ TxHasSpace(s) THEN Head(s.txQueue) ELSE None

\* ulTCPWindowTxGet chooses a fast retransmission, one whose timer expired, or a
\* new segment that the peer has room for ...
TxNext(s) ==
    CASE s.prioQueue # <<>> -> Head(s.prioQueue)
      [] s.prioQueue = <<>> /\ s.waitQueue # <<>> /\ s.late > 0 -> Head(s.waitQueue)
      [] OTHER -> IF s.txQueue # <<>> /\ TxHasSpace(s) THEN Head(s.txQueue) ELSE None

\* Faulty: a segment that is sent again stays where it was in the wait queue, too.
TxMoveTwice(s, q) ==
    [s EXCEPT !.prioQueue = Without(@, {q}), !.txQueue = Without(@, {q}),
              !.waitQueue = Append(@, q), !.head = IF @ = q THEN None ELSE @,
              !.late = IF @ > 0 THEN @ - 1 ELSE @,
              !.txHighest = IF Contains(s.txQueue, q) THEN q + Segment(s, q).len ELSE @]

\* ... and moves it to the end of the wait queue (a segment is in one queue only).
TxMove(s, q) ==
    LET g == Segment(s, q)
        due == s.prioQueue = <<>> /\ Contains(s.waitQueue, q)
    IN  [Update(s, q, [g EXCEPT !.dup = IF due THEN 0 ELSE @]) EXCEPT
            !.prioQueue = Without(@, {q}), !.txQueue = Without(@, {q}),
            !.waitQueue = Append(Without(@, {q}), q),
            !.late = IF due THEN @ - 1 ELSE @,
            !.head = IF @ = q THEN None ELSE @,
            !.txHighest = IF Contains(s.txQueue, q) THEN q + g.len ELSE @]
TxGet(s) == IF TxNext(s) = None THEN s ELSE TxMove(s, TxNext(s))

\* Faulty: the bytes are read from the tail of the buffer.
TxDataTail(s, q) == IF q = None THEN <<>> ELSE Peek(s.tx, 0, Segment(s, q).len)

\* The bytes of segment q, read from the buffer at the segment's place.
TxData(s, q) ==
    IF q = None THEN <<>>
    ELSE Peek(s.tx, Distance(s.tx, s.tx.tail, Segment(s, q).pos), Segment(s, q).len)

\* prvTCPWindowTxCheckAck: the segments from first on that end at last or before are
\* acknowledged; those at the left side of the window are freed, and their bytes
\* leave the buffer (FreeRTOS_TCP_State_Handling.c, prvReadSackOption).
TxCheckAck(s, first, last) ==
    LET Step(a, g) ==
            CASE a.stop \/ a.at >= last \/ a.at > g.seq -> a
              [] a.at < g.seq -> [a EXCEPT !.stop = TRUE]
              [] a.at = g.seq ->
                   IF ~g.acked /\ g.seq + g.len > last THEN [a EXCEPT !.stop = TRUE]
                   ELSE [a EXCEPT !.at = @ + g.len, !.acked = @ \cup {g.seq},
                                  !.cur = IF @ = g.seq THEN @ + g.len ELSE @]
        end == FoldLeft(Step, [at |-> first, stop |-> FALSE, acked |-> {}, cur |-> s.txCur], s.segs)
        marked == [i \in DOMAIN s.segs |->
                     [s.segs[i] EXCEPT !.acked = @ \/ s.segs[i].seq \in end.acked]]
    IN  [s EXCEPT
            !.segs = SelectSeq(marked, LAMBDA g : g.seq >= end.cur),
            !.txQueue = Without(@, end.acked), !.waitQueue = Without(@, end.acked),
            !.prioQueue = Without(@, end.acked),
            !.tx = Drop(@, end.cur - s.txCur), !.txCur = end.cur]

\* ulTCPWindowTxAck
TxAck(s, ack) == IF ack <= s.txCur THEN s ELSE TxCheckAck(s, s.txCur, ack)

\* prvTCPWindowFastRetransmit: a later segment was acknowledged, for the third time.
FastRetransmit(s, first) ==
    LET passed(g) == Contains(s.waitQueue, g.seq) /\ ~g.acked /\ g.seq < first
        counted == [i \in DOMAIN s.segs |->
                      IF passed(s.segs[i])
                      THEN [s.segs[i] EXCEPT !.dup = Least(@ + 1, DupAcks + 1)]
                      ELSE s.segs[i]]
        again == {s.segs[i].seq : i \in {j \in DOMAIN s.segs :
                                           passed(s.segs[j]) /\ s.segs[j].dup + 1 = DupAcks}}
    IN  [s EXCEPT !.segs = counted,
                  !.waitQueue = Without(@, again),
                  !.prioQueue = @ \o SelectSeq(s.waitQueue, LAMBDA q : q \in again)]

\* ulTCPWindowTxSack and prvReadSackOption
TxSack(s, block) ==
    IF block = <<>> THEN s ELSE FastRetransmit(TxCheckAck(s, block[1], block[2]), block[1])

----------------------------------------------------------------------------
\* Transmission (FreeRTOS_TCP_Transmission.c).

\* Faulty: the whole window is offered until little space is left.
RxSpaceWhole(s) ==
    IF s.bits.LowWater THEN (IF FrontSpace(s.rx) >= MSS THEN MSS ELSE 0) ELSE Window

\* prvTCPReturn_CheckTCPWindow: the window that is advertised.
RxSpace(s) ==
    LET front == FrontSpace(s.rx)
        space == IF s.bits.LowWater THEN 0 ELSE Least(Window, front)
    IN  IF space < MSS /\ front >= MSS THEN MSS ELSE space

\* prvTCPReturnPacket
ReturnPacket(s, seq, data, fin, sack) ==
    [s EXCEPT !.bits.WinChange = FALSE, !.bits.SendKeepAlive = FALSE,
              !.allowed = s.cur + RxSpace(s),
              !.out = Append(@, [seq |-> seq, data |-> data, fin |-> fin, ack |-> s.cur,
                                 win |-> RxSpace(s), sack |-> sack,
                                 probe |-> s.bits.SendKeepAlive])]

\* Faulty: the peer is never given up.
PrepareSendForEver(t, q) ==
    IF t.state = "ESTABLISHED" /\ q = None /\ ~t.bits.WinChange /\ t.quiet
    THEN [t EXCEPT !.bits.SendKeepAlive = TRUE, !.keepRep = @ + 1, !.quiet = FALSE]
    ELSE t

\* prvTCPPrepareSend, where the window gave segment q and left the socket t: give the
\* peer up, send the segment, or see if the peer is alive.
PrepareSend(t, q) ==
    CASE t.state # "ESTABLISHED" -> t
      [] t.state = "ESTABLISHED" /\ t.keepRep > KeepAlives -> StateChange(t, "CLOSE_WAIT")
      [] t.state = "ESTABLISHED" /\ t.keepRep <= KeepAlives ->
           IF q = None /\ ~t.bits.WinChange /\ t.quiet
           THEN [t EXCEPT !.bits.SendKeepAlive = TRUE, !.keepRep = @ + 1, !.quiet = FALSE]
           ELSE t

\* There is something to be sent, when PrepareSend has made t of a socket in state.
Prepared(t, q, state) ==
    /\ t.state = state
    /\ q # None \/ t.bits.WinChange \/ t.bits.SendKeepAlive

\* prvTCPSendRepeated, with n packets to go.
RECURSIVE Repeat(_, _)
SendPrepared(t, q, state, n) ==
    IF Prepared(t, q, state) THEN Repeat(ReturnPacket(t, q, TxData(t, q), FALSE, <<>>), n - 1)
    ELSE t
Repeat(s, n) ==
    IF n = 0 THEN s ELSE SendPrepared(PrepareSend(TxGet(s), TxNext(s)), TxNext(s), s.state, n)
SendRepeated(s) == Repeat(s, SendRepeatedCount)

----------------------------------------------------------------------------
\* Reception (FreeRTOS_TCP_WIN.c, FreeRTOS_TCP_Reception.c, FreeRTOS_Sockets.c).

\* xTCPWindowRxFind: the stored segment that begins at byte q, if there is one.
RxFind(stored, q) == {g \in stored : g.seq = q}

\* Where stored segments that follow on from byte q, without a gap, begin and end.
RECURSIVE Chain(_, _)
Chain(stored, q) == {q} \cup UNION {Chain(stored, q + g.len) : g \in RxFind(stored, q)}

\* xTCPWindowRxEmpty
RxEmpty(s) == s.stored = {} /\ s.cur + 1 >= s.highest

\* lTCPAddRxdata and vTCPAddRxdata_Stored: little space left closes the window.
AddRxdata(s, offset, data, n) ==
    LET t == [s EXCEPT !.rx = Add(@, offset, data, n)]
        little == offset = 0 /\ ~s.bits.LowWater /\ FrontSpace(t.rx) <= LittleSpace
    IN  IF little THEN [t EXCEPT !.bits.LowWater = TRUE, !.bits.WinChange = TRUE] ELSE t

\* Faulty: what was stored and follows on is counted, and not made readable.
ExpectedRXNoMove(s, n) ==
    LET chain == Chain(s.stored, s.cur + n) IN
    [AddRxdata(s, 0, Bytes(s.cur, n), n) EXCEPT
        !.stored = {g \in s.stored : g.seq > Max(chain)}, !.cur = Max(chain)]

\* prvTCPWindowRx_ExpectedRX: the next n bytes.  Stored segments that begin in them
\* are forgotten, those that follow on become readable as well.
ExpectedRX(s, n) ==
    LET end == s.cur + n
        kept == {g \in s.stored : g.seq \notin s.cur .. end - 1}
        chain == Chain(kept, end)
        t == [AddRxdata(s, 0, Bytes(s.cur, n), n) EXCEPT
                !.stored = {g \in kept : g.seq \notin chain}, !.cur = Max(chain)]
    IN  IF t.cur = end THEN t ELSE AddRxdata(t, 0, <<>>, t.cur - end)

\* prvTCPWindowRx_UnexpectedRX: n bytes from q on, which is ahead; they are stored in
\* front of head, unless a segment that begins there is stored or none is free.
UnexpectedRX(s, q, n) ==
    LET block == <<q, Max(Chain(s.stored, q + n))>> IN
    IF RxFind(s.stored, q) # {} THEN [s EXCEPT !.sack = block]
    ELSE IF Free(s) = 0 THEN s
    ELSE AddRxdata([s EXCEPT !.sack = block, !.stored = @ \cup {[seq |-> q, len |-> n]}],
                   q - s.cur, Bytes(q, n), n)

\* lTCPWindowRxCheck and prvStoreRxData: bytes that were received before are skipped.
StoreRxData(s, p) ==
    LET end == p.seq + p.len
        q == IF p.seq < s.cur /\ end > s.cur THEN s.cur ELSE p.seq
        clean == [s EXCEPT !.sack = <<>>]
    IN  CASE p.len = 0 \/ end - s.cur > GetSpace(s.rx) -> clean
          [] p.len > 0 /\ end - s.cur <= GetSpace(s.rx) ->
               IF q = s.cur THEN ExpectedRX(clean, end - q)
               ELSE IF q + 1 = s.cur \/ end <= s.cur THEN clean
               ELSE UnexpectedRX(clean, q, end - q)

----------------------------------------------------------------------------
\* The states (FreeRTOS_TCP_State_Handling.c).

\* prvSendData: a bare acknowledgement waits while the peer has room for two segments.
SendData(s, p, seq, data, fin) ==
    LET delay == /\ p.len > 0 /\ s.allowed - s.cur >= 2 * MSS /\ ~s.bits.FinSent
                 /\ data = <<>> /\ s.sack = <<>> /\ ~fin /\ s.state = "ESTABLISHED"
    IN  IF delay THEN [s EXCEPT !.ackMessage = TRUE]
        ELSE SendRepeated(ReturnPacket([s EXCEPT !.ackMessage = FALSE], seq, data, fin, s.sack))

\* prvTCPHandleFin: the peer closes; so do we, and wait for its last ACK.
HandleFin(s, p) ==
    LET t == [s EXCEPT !.cur = IF p.fin THEN s.fin + 1 ELSE @,
                       !.txFin = IF s.bits.FinSent THEN @ ELSE s.txCur,
                       !.bits.FinSent = TRUE,
                       !.bits.FinAcked = @ \/ (s.bits.FinSent /\ p.ack = s.txFin + 1)]
        acked == [t EXCEPT !.txCur = t.txFin + 1]
    IN  IF ~t.bits.FinAcked
        THEN SendData(StateChange([t EXCEPT !.txCur = t.txFin], "LAST_ACK"), p, t.txFin, <<>>, TRUE)
        ELSE IF ~t.bits.FinRecv THEN acked
        ELSE IF t.bits.FinLast THEN StateChange(acked, "CLOSE_WAIT")
        ELSE SendData(StateChange(acked, "CLOSE_WAIT"), p, None, <<>>, FALSE)

\* prvHandleEstablished.  Nothing is sent with the answer when it has a SACK option.
Established(t, p) ==
    LET closing == t.bits.FinAccepted \/ p.fin
        ahead == p.seq + p.len - t.cur    \* lDistance
        complete == RxEmpty(t) /\ TxDone(t)
        mayClose == closing /\ (t.bits.FinSent \/ (complete /\ ahead <= 1))
        refused == closing /\ ~t.bits.FinSent /\ ~complete /\ ahead <= 1
        q == IF t.sack = <<>> THEN TxNext(t) ELSE None
        u == [TxGet(t) EXCEPT !.cur = IF refused THEN t.fin + 1 ELSE @]
        Answer(v) == IF p.len > 0 \/ Prepared(v, q, t.state)
                     THEN SendData(v, p, q, TxData(v, q), FALSE) ELSE v
    IN  IF mayClose THEN HandleFin([t EXCEPT !.bits.FinAccepted = TRUE], p)
        ELSE IF t.sack = <<>> THEN Answer(PrepareSend(u, q))
        ELSE SendData([t EXCEPT !.cur = IF refused THEN t.fin + 1 ELSE @], p, None, <<>>, FALSE)
HandleEstablished(s, p) == Established(AddTxData(TxAck([s EXCEPT !.window = p.win], p.ack)), p)

\* prvTCPHandleState
HandleState(s, p) ==
    LET alive == [s EXCEPT !.bits.WinChange = @ \/ s.cur = p.seq + 1,
                           !.highest = IF p.seq + p.len > @ THEN p.seq + p.len ELSE @]
        stored == StoreRxData(alive, p)
        t == IF p.fin /\ ~stored.bits.FinRecv
             THEN [stored EXCEPT !.fin = p.seq + p.len, !.bits.FinRecv = TRUE,
                                 !.bits.FinLast = @ \/ ~stored.bits.FinSent]
             ELSE stored
    IN  IF t.state = "ESTABLISHED" THEN HandleEstablished(t, p) ELSE HandleFin(t, p)

\* xProcessReceivedTCPPacket, in a state in which the socket is active.
ProcessReceived(s, p) ==
    IF p.rst THEN IF p.seq = s.cur THEN StateChange(s, "CLOSED") ELSE s
    ELSE HandleState([TxSack(TouchSocket(s), p.sack) EXCEPT !.window = p.win], p)

\* Faulty: a socket that waits for the last ACK is not closed after a time.
SocketCheckWaits(s) ==
    LET t == AddTxData(s)
        acked == ReturnPacket([t EXCEPT !.ackMessage = FALSE], None, <<>>, FALSE, <<>>)
    IN  IF s.state = "CLOSED" THEN [s EXCEPT !.ackMessage = FALSE]
        ELSE IF s.ackMessage /\ ~TxHasData(acked) THEN acked
        ELSE SendRepeated(IF s.ackMessage THEN acked ELSE t)

\* xTCPSocketCheck with prvTCPStatusAgeCheck: the socket's time-out has expired.
SocketCheck(s) ==
    LET t == AddTxData(s)
        acked == ReturnPacket([t EXCEPT !.ackMessage = FALSE], None, <<>>, FALSE, <<>>)
        sent == SendRepeated(IF s.ackMessage THEN acked ELSE t)
    IN  IF s.state = "CLOSED" THEN [s EXCEPT !.ackMessage = FALSE]
        ELSE IF s.ackMessage /\ ~TxHasData(acked) THEN acked
        ELSE IF sent.state = "LAST_ACK" /\ sent.quiet THEN StateChange(sent, "CLOSE_WAIT")
        ELSE sent
=============================================================================
