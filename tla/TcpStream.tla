------------------------------ MODULE TcpStream ------------------------------
(***************************************************************************)
(* The pool connection: stratum_task, which sends and receives lines, the  *)
(* IP-task, which works on the socket, and the pool, over a network that   *)
(* loses, duplicates, delays and reorders packets.                         *)
(*                                                                         *)
(* The peer is any correct TCP: what it once was allowed to send may       *)
(* arrive at any time and as often as it likes, cut into segments anyhow,  *)
(* with any earlier acknowledgement.  A packet of ours is heard when it is *)
(* sent, or lost; an answer to it may come at any later time.              *)
(***************************************************************************)
EXTENDS TcpSocket

CONSTANTS
    Scenarios,   \* records: say, the lengths of our lines; tell, the bytes of the
                 \* peer; newlines, which of those are '\n'; cuts, where its
                 \* segments may begin and end; edges, how far the peer lets us
                 \* send, at first and later; first, our first raw sequence
                 \* number; ends: "no", "fin" or "dies"
    LineBytes    \* STRATUM_LINE_BUFFER_BYTES - 1

ASSUME StreamAssumption ==
    /\ LineBytes \in Nat \ {0}
    /\ \A c \in Scenarios :
         /\ c.say \in Seq(Nat \ {0}) /\ c.tell \in Nat /\ c.newlines \subseteq 0 .. c.tell - 1
         /\ c.cuts \subseteq 0 .. c.tell /\ c.first \in 0 .. SeqRange - 1
         /\ Len(c.edges) = 2 /\ c.edges[1] <= c.edges[2] /\ c.ends \in {"no", "fin", "dies"}

VARIABLES
    plan,    \* the scenario
    sock,    \* the socket, see NewSocket
    app,     \* stratum_task: pc; bits, the word that prvRecvData is changing;
             \* line, left: the line being sent and its bytes that are left; said,
             \* the bytes the stack took; read, the bytes it gave; text, the line
             \* buffer; handled, what handle_stratum_line was given last
    peer     \* mode; heard, our bytes that arrived; fin, where ours ends; una and
             \* edge, what we acknowledged and how far we let it send; opened, it
             \* has moved its own edge; owes, an answer is due; wrong, a byte
             \* that arrived was not the one that was sent

vars == <<plan, sock, app, peer>>

Init ==
    /\ plan \in Scenarios
    /\ sock = NewSocket(plan.edges[1], plan.first)
    /\ app = [pc |-> "idle", bits |-> sock.bits, line |-> 0, left |-> 0, said |-> 0,
              read |-> 0, text |-> <<>>, handled |-> <<>>]
    /\ peer = [mode |-> "up", heard |-> {}, fin |-> None, una |-> 0, edge |-> Window,
               opened |-> FALSE, owes |-> FALSE, wrong |-> FALSE]

----------------------------------------------------------------------------
\* The peer.

Edge == plan.edges[IF peer.opened THEN 2 ELSE 1]
Sendable == Least(plan.tell, peer.edge)
Closes == plan.ends = "fin" /\ plan.tell <= peer.edge

\* The bytes heard without a gap, and the acknowledgement of our FIN behind them.
Cum == CHOOSE n \in 0 .. Cardinality(peer.heard) : n \notin peer.heard /\ 0 .. n - 1 \subseteq peer.heard
Ack == IF peer.fin = Cum THEN Cum + 1 ELSE Cum

\* The blocks a SACK option can name.
Blocks == {<<m, n>> \in peer.heard \X {k + 1 : k \in peer.heard} :
             m < n /\ m - 1 \notin peer.heard /\ n \notin peer.heard /\ m .. n - 1 \subseteq peer.heard}
SackOptions == {<<>>} \cup {b \in Blocks : b[1] > Cum}

Packet(seq, len, fin, ack, edge, sack) ==
    [seq |-> seq, len |-> len, fin |-> fin, rst |-> FALSE, ack |-> ack,
     win |-> IF edge > ack THEN edge - ack ELSE 0, sack |-> sack]

\* The peer p hears the packets of out whose index is in some.
Hear(p0, out, some) ==
    LET New(p, o) ==
            {n \in o.seq .. o.seq + Len(o.data) - 1 : n < Edge /\ (p.fin = None \/ n < p.fin)}
        Step(p, o) ==
            [p EXCEPT
                !.heard = @ \cup New(p, o),
                !.wrong = @ \/ \E i \in DOMAIN o.data : o.data[i] # o.seq + i - 1,
                !.fin = IF o.fin THEN o.seq ELSE @,
                !.una = IF o.ack > @ THEN o.ack ELSE @,
                !.edge = IF o.ack + o.win > @ THEN o.ack + o.win ELSE @,
                !.owes = @ \/ o.data # <<>> \/ o.probe \/ o.fin]
        Known(p, i) ==
            CASE i \notin some \/ p.mode = "gone" -> p
              [] i \in some /\ p.mode = "up" -> Step(p, out[i])
              [] i \in some /\ p.mode = "reset" -> [p EXCEPT !.una = out[i].ack, !.owes = TRUE]
    IN  FoldLeft(Known, p0, [i \in DOMAIN out |-> i])

\* It answers: an acknowledgement, or a RST when it knows nothing of the connection.
Answers ==
    IF peer.mode = "reset"
    THEN {[Packet(peer.una, 0, FALSE, 0, 0, <<>>) EXCEPT !.rst = TRUE]}
    ELSE {Packet(IF Closes THEN plan.tell + 1 ELSE Sendable, 0, FALSE, Ack, Edge, b) :
            b \in IF Blocks = {} THEN {<<>>} ELSE SackOptions}

\* It repeats what was not acknowledged, or asks whether the window is still closed.
Repeats ==
    LET n == Least(MSS, Sendable - peer.una)
        fin == Closes /\ peer.una + n = plan.tell
    IN  IF peer.una > plan.tell \/ (peer.una = plan.tell /\ ~Closes) THEN {}
        ELSE IF n = 0 /\ ~fin THEN {Packet(peer.una - 1, 0, FALSE, Ack, Edge, <<>>)}
        ELSE {Packet(peer.una, n, fin, Ack, Edge, <<>>)}

\* Anything that it may have sent by now: any piece of its text, and any earlier
\* acknowledgement and window.
Strays ==
    LET texts == {<<q, n>> \in plan.cuts \X (0 .. MSS) : q + n \in plan.cuts /\ q + n <= Sendable}
        ends == {t \in texts : Closes /\ t[1] + t[2] = plan.tell}
        last == IF Closes THEN plan.tell + 1 ELSE Sendable
    IN  {Packet(t[1], t[2], FALSE, Ack, Edge, <<>>) : t \in texts}
        \cup {Packet(t[1], t[2], TRUE, Ack, Edge, <<>>) : t \in ends}
        \cup {Packet(last, 0, FALSE, a, Edge, b) : a \in 0 .. Ack, b \in SackOptions}
        \cup {Packet(last, 0, FALSE, a, plan.edges[1], <<>>) : a \in 0 .. Least(Ack, plan.edges[1])}

----------------------------------------------------------------------------
\* The IP-task.  In each of its steps some of the timers of the wait queue have
\* expired, and some of the packets it sends are lost.

Open == app.pc # "told"
Active == Open /\ sock.state \in {"ESTABLISHED", "LAST_ACK"}
Timers == {[sock EXCEPT !.late = n] : n \in 0 .. Len(sock.waitQueue)}
Clean(t) == [t EXCEPT !.out = <<>>, !.late = 0, !.sack = <<>>]

\* A packet that may have been on its way for long.
Stray ==
    /\ Active /\ peer.mode = "up"
    /\ \E t \in {ProcessReceived(s, p) : s \in Timers, p \in Strays} :
         /\ sock' = Clean(t)
         /\ \E some \in SUBSET DOMAIN t.out : peer' = Hear(peer, t.out, some)
    /\ UNCHANGED <<plan, app>>

Check ==
    /\ Open
    /\ \E t \in {SocketCheck(s) : s \in Timers} :
         /\ sock' = Clean(t)
         /\ \E some \in SUBSET DOMAIN t.out : peer' = Hear(peer, t.out, some)
    /\ UNCHANGED <<plan, app>>

\* The steps of a link that loses nothing, as the values of sock and peer after them:
\* the peer's answer to what it heard, what it repeats, and a check of all timers.
Delivered(p, T) == {<<Clean(t), Hear(p, t.out, DOMAIN t.out)>> : t \in T}
AnswerSteps ==
    IF Active /\ peer.owes
    THEN Delivered([peer EXCEPT !.owes = FALSE],
                   {ProcessReceived(sock, p) : p \in Answers})
    ELSE {}
RepeatSteps ==
    IF Active /\ peer.mode = "up"
    THEN Delivered(peer, {ProcessReceived(sock, p) : p \in Repeats})
    ELSE {}
CheckSteps ==
    IF Open THEN Delivered(peer, {SocketCheck([sock EXCEPT !.late = Len(sock.waitQueue)])})
    ELSE {}

Answered == UNCHANGED <<plan, app>> /\ \E r \in AnswerSteps : sock' = r[1] /\ peer' = r[2]
Repeated == UNCHANGED <<plan, app>> /\ \E r \in RepeatSteps : sock' = r[1] /\ peer' = r[2]
Checked == UNCHANGED <<plan, app>> /\ \E r \in CheckSteps : sock' = r[1] /\ peer' = r[2]

\* Nothing has been received for longer than the keep-alive or hang-protection time.
Quiet ==
    /\ Active /\ ~sock.quiet
    /\ sock' = [sock EXCEPT !.quiet = TRUE]
    /\ UNCHANGED <<plan, app, peer>>

----------------------------------------------------------------------------
\* stratum_task.

Closed == sock.state \in {"CLOSED", "CLOSE_WAIT"}
Total == FoldLeft(LAMBDA m, n : m + n, 0, plan.say)

\* send_line begins: FreeRTOS_send, which puts into txStream what it has room for.
Put(pc) ==
    LET n == Least(app.left, GetSpace(sock.tx)) IN
    /\ sock' = [sock EXCEPT !.tx = Add(@, 0, Bytes(app.said, n), n)]
    /\ app' = [app EXCEPT !.said = @ + n, !.left = @ - n,
                          !.pc = IF app.left = n THEN "idle" ELSE pc]

SendLine ==
    /\ app.pc = "idle" /\ app.line < Len(plan.say)
    /\ app' = [app EXCEPT !.pc = "send", !.line = @ + 1, !.left = plan.say[app.line + 1]]
    /\ UNCHANGED <<plan, sock, peer>>

Send ==
    /\ \/ app.pc = "send" /\ ~Closed /\ ~sock.bits.FinSent
       \/ app.pc = "blocked" /\ ~Closed /\ GetSpace(sock.tx) > 0
    /\ Put("blocked")
    /\ UNCHANGED <<plan, peer>>

\* rc <= 0: closed or closing, or no room until the time-out.  The rest of the line
\* is never sent.
SendFails ==
    /\ \/ app.pc = "send" /\ (Closed \/ sock.bits.FinSent)
       \/ app.pc = "blocked" /\ (Closed \/ GetSpace(sock.tx) = 0)
    /\ app' = [app EXCEPT !.pc = "idle", !.left = 0]
    /\ UNCHANGED <<plan, sock, peer>>

\* Faulty: a line that does not fit keeps its beginning.
TakeBeginning(c) ==
    IF c \in plan.newlines THEN [app EXCEPT !.read = @ + 1, !.text = <<>>, !.handled = app.text]
    ELSE IF Len(app.text) < LineBytes THEN [app EXCEPT !.read = @ + 1, !.text = Append(@, c)]
    ELSE [app EXCEPT !.read = @ + 1]

\* One byte is received, and what stratum_task does with it.
Take(c) ==
    IF c \in plan.newlines THEN [app EXCEPT !.read = @ + 1, !.text = <<>>, !.handled = app.text]
    ELSE IF Len(app.text) < LineBytes THEN [app EXCEPT !.read = @ + 1, !.text = Append(@, c)]
    ELSE [app EXCEPT !.read = @ + 1, !.text = <<>>]

\* prvRecvData reads the byte and, when there is enough space again, loads the word
\* that holds bLowWater; the IP-task may run before the changed word is stored.
Recv ==
    /\ app.pc = "idle" /\ GetSize(sock.rx) > 0
    /\ sock' = [sock EXCEPT !.rx = Drop(@, 1)]
    /\ app' = [Take(Peek(sock.rx, 0, 1)[1]) EXCEPT
                  !.pc = IF sock.bits.LowWater /\ FrontSpace(sock'.rx) >= EnoughSpace
                         THEN "low" ELSE "idle",
                  !.bits = sock.bits]
    /\ UNCHANGED <<plan, peer>>

StoreLow ==
    /\ app.pc = "low"
    /\ sock' = [sock EXCEPT !.bits = [app.bits EXCEPT !.LowWater = FALSE]]
    /\ app' = [app EXCEPT !.pc = "load"]
    /\ UNCHANGED <<plan, peer>>

LoadWin ==
    /\ app.pc = "load"
    /\ app' = [app EXCEPT !.pc = "win", !.bits = sock.bits]
    /\ UNCHANGED <<plan, sock, peer>>

StoreWin ==
    /\ app.pc = "win"
    /\ sock' = [sock EXCEPT !.bits = [app.bits EXCEPT !.WinChange = TRUE]]
    /\ app' = [app EXCEPT !.pc = "idle"]
    /\ UNCHANGED <<plan, peer>>

\* recv returns -ENOTCONN, and the connection is given up.
Told ==
    /\ app.pc = "idle" /\ Closed /\ GetSize(sock.rx) = 0
    /\ app' = [app EXCEPT !.pc = "told"]
    /\ UNCHANGED <<plan, sock, peer>>

----------------------------------------------------------------------------
\* The peer makes room for more, forgets a connection it has closed, or fails.
Opens ==
    /\ Open /\ peer.mode = "up" /\ ~peer.opened /\ plan.edges[1] < plan.edges[2]
    /\ peer' = [peer EXCEPT !.opened = TRUE]
    /\ UNCHANGED <<plan, sock, app>>

Forgets ==
    /\ Open /\ peer.mode = "up" /\ plan.ends = "fin" /\ peer.una > plan.tell
    /\ peer' = [peer EXCEPT !.mode = "reset", !.owes = FALSE]
    /\ UNCHANGED <<plan, sock, app>>

Dies ==
    /\ Open /\ peer.mode = "up" /\ plan.ends = "dies"
    /\ \E m \in {"gone", "reset"} : peer' = [peer EXCEPT !.mode = m, !.owes = FALSE]
    /\ UNCHANGED <<plan, sock, app>>

Task == SendLine \/ Send \/ SendFails \/ Recv \/ StoreLow \/ LoadWin \/ StoreWin \/ Told
Next == Stray \/ Check \/ Answered \/ Repeated \/ Quiet \/ Task \/ Opens \/ Forgets \/ Dies
Spec == Init /\ [][Next]_vars

\* The link is lossy but not dead: what is sent again and again gets through in the
\* end, and old packets do not come back for ever.  (Strong fairness of the first
\* three, with ENABLED written as the steps there are.)
Moves(steps) == steps \ {<<sock, peer>>} # {}
FairSpec ==
    /\ Spec
    /\ <>[]~Moves(AnswerSteps) \/ []<><<Answered>>_vars
    /\ <>[]~Moves(RepeatSteps) \/ []<><<Repeated>>_vars
    /\ <>[]~(sock.quiet /\ Moves(CheckSteps)) \/ []<><<sock.quiet /\ Checked>>_vars
    /\ WF_vars(Quiet) /\ WF_vars(Send \/ SendFails \/ Recv \/ StoreLow \/ LoadWin \/ StoreWin \/ Told)
    /\ WF_vars(Opens) /\ WF_vars(Forgets)

----------------------------------------------------------------------------
(* Properties                                                               *)

\* The indices stay in the buffers, the sequence numbers within what was sent, and
\* the socket uses no more segments than there are.
TypeOK ==
    /\ sock.state \in {"ESTABLISHED", "LAST_ACK", "CLOSE_WAIT", "CLOSED"}
    /\ sock.rx.head \in 0 .. LENGTH - 1 /\ sock.rx.tail \in 0 .. LENGTH - 1
    /\ sock.tx.head \in 0 .. LENGTH - 1 /\ sock.tx.tail \in 0 .. LENGTH - 1
    /\ sock.cur \in 0 .. plan.tell + 1 /\ sock.keepRep \in 0 .. KeepAlives + 1
    /\ app.said \in 0 .. Total /\ app.read \in 0 .. plan.tell
    /\ peer.heard \subseteq 0 .. app.said - 1 /\ Free(sock) \in 0 .. Pool

Unread == GetSize(sock.rx)

\* What is ready to be read are the bytes that follow the ones read, in order and
\* once, and, until the FIN takes a sequence number too, all that was acknowledged.
RxInOrder ==
    /\ Peek(sock.rx, 0, Unread) = Bytes(app.read, Unread)
    /\ sock.cur <= plan.tell => sock.cur = app.read + Unread

\* "It will accept the closure of the connection if [...] the highest Rx sequence
\* number has been ACK'ed" (FreeRTOS_TCP_WIN.c:605): a FIN is accepted when every
\* byte before it has been received, none is lost.
FinAfterAll == sock.bits.FinAccepted => app.read + Unread = plan.tell

\* A promise of the window is kept: every byte the peer was allowed to send has room.
WindowKept == peer.edge <= sock.cur + GetSpace(sock.rx)

\* Each segment that was not acknowledged is in one queue; the segments follow each
\* other and cover the bytes between tail and mid.
SegmentsAccounted ==
    sock.state = "ESTABLISHED" =>
    LET queued == sock.txQueue \o sock.waitQueue \o sock.prioQueue
        open == {g \in Range(sock.segs) : ~g.acked}
    IN  /\ IsInjective(queued) /\ Range(queued) = {g.seq : g \in open}
        /\ \A i \in DOMAIN sock.segs :
             LET g == sock.segs[i] IN
             /\ g.seq = IF i = 1 THEN sock.txCur ELSE sock.segs[i - 1].seq + sock.segs[i - 1].len
             /\ g.pos = Wrap(sock.tx, sock.tx.tail + g.seq - sock.txCur)
        /\ sock.txNext - sock.txCur = Distance(sock.tx, sock.tx.tail, sock.tx.mid)
        /\ app.said - sock.txCur = GetSize(sock.tx)

\* The peer gets our bytes as they were sent, and no byte leaves txStream unheard.
HeardAsSent ==
    /\ ~peer.wrong
    /\ sock.state = "ESTABLISHED" => 0 .. sock.txCur - 1 \subseteq peer.heard

\* handle_stratum_line gets whole lines of the peer; of one that does not fit, the
\* end, behind the last full buffer.
LinesWhole ==
    app.handled # <<>> =>
    LET end == Last(app.handled) + 1
        start == Max({0} \cup {n + 1 : n \in {m \in plan.newlines : m < end}})
        n == (end - start) % (LineBytes + 1)
    IN  end \in plan.newlines /\ app.handled = Bytes(end - n, n)

\* What FreeRTOS_send took is heard by the peer and what the peer sends is read, or
\* stratum_task is told.
StreamsArrive ==
    /\ []<>(0 .. app.said - 1 \subseteq peer.heard \/ ~Open)
    /\ []<>(app.read = plan.tell \/ ~Open)
\* A peer that closes or fails is noticed.
EndIsTold == []<>((plan.ends # "fin" /\ peer.mode = "up") \/ ~Open)
=============================================================================
