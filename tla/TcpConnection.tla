---------------------------- MODULE TcpConnection ----------------------------
(***************************************************************************)
(* src/net/tcp_connection.cpp: one connection after InformConnected, the   *)
(* bytes it sends, and how it notices the peer.  Send is called by other   *)
(* threads and by handlers on the connection's loop; everything else runs  *)
(* on that loop.  TcpServer models what follows HandleClose.               *)
(*                                                                         *)
(* The stream is made of units, Size of them per message.  The kernel is   *)
(* external: a send buffer that takes what fits, and an edge-triggered     *)
(* epoll, which reports the channel once per edge, with all that is ready  *)
(* at that moment.  A write that does not fit asks for an edge when there  *)
(* is space again; a write that fits asks for none.                        *)
(***************************************************************************)
EXTENDS Naturals, Sequences, SequencesExt

CONSTANTS
  Msgs,        (* messages, each sent at most once                        *)
  Size,        (* units in a message                                      *)
  SendBuffer,  (* units the kernel's send buffer holds                    *)
  Capacity,    (* units a new MsgBuffer holds (kDefaultBufferSize)        *)
  MaxUnread    (* bound: units of the peer not yet read                   *)

ASSUME ConnectionAssumption ==
  /\ Size \in Nat \ {0} /\ SendBuffer \in Nat \ {0}
  /\ Capacity \in Nat \ {0} /\ MaxUnread \in Nat \ {0}

VARIABLES
  conn,     (* state_, the channel's enabled events, write_buffer_        *)
  sock,     (* external: the socket and its epoll entry                   *)
  queue,    (* functors of this connection pending in its loop            *)
  sends,    (* send_count_                                                *)
  called,   (* history: messages in the order Send was called             *)
  lost,     (* history: units that were discarded                         *)
  phase,    (* where the loop is: "select", "handle" or "functors"        *)
  event,    (* occurred_events_ of the channel                            *)
  peer,     (* external: "open", "shut" (sends no more) or "gone"         *)
  threw,    (* Socket::Shutdown has thrown; the process is terminating    *)
  spent     (* history: the edge of a reset was used up by a read of data  *)

vars == <<conn, sock, queue, sends, called, lost, phase, event, peer, threw, spent>>

(* What a handler reads and writes as a whole. *)
Now == [conn |-> conn, sock |-> sock, queue |-> queue, sends |-> sends, called |-> called,
        lost |-> lost, threw |-> threw]

Become(s) ==
  /\ conn' = s.conn /\ sock' = s.sock /\ queue' = s.queue /\ sends' = s.sends
  /\ called' = s.called /\ lost' = s.lost /\ threw' = s.threw

Units == Msgs \X (1 .. Size)

Body(m) == [i \in 1 .. Size |-> <<m, i>>]

None == [in |-> FALSE, out |-> FALSE, err |-> FALSE]

TypeOK ==
  /\ conn \in [state : {"kConnected", "kDisconnecting", "kDisconnected"},
               reading : BOOLEAN, writing : BOOLEAN,
               buffered : BOOLEAN, buffer : Seq(Units), capacity : Nat]
  /\ sock \in [wire : Seq(Units), room : 0 .. SendBuffer, wanted : BOOLEAN,
               unread : 0 .. MaxUnread, eof : BOOLEAN, reset : BOOLEAN, error : BOOLEAN,
               shut : BOOLEAN, edge : BOOLEAN]
  /\ queue \in Seq([op : {"Send", "Shutdown", "ForceClose", "Complete"}, data : Seq(Units)])
  /\ sends \in Nat
  /\ called \in Seq(Msgs) /\ lost \in SUBSET Units
  /\ phase \in {"select", "handle", "functors"}
  /\ event \in [in : BOOLEAN, out : BOOLEAN, err : BOOLEAN]
  /\ peer \in {"open", "shut", "gone"}
  /\ threw \in BOOLEAN /\ spent \in BOOLEAN

Init ==
  /\ conn = [state |-> "kConnected", reading |-> TRUE, writing |-> FALSE,
             buffered |-> FALSE, buffer |-> <<>>, capacity |-> Capacity]
  /\ sock = [wire |-> <<>>, room |-> SendBuffer, wanted |-> FALSE,
             unread |-> 0, eof |-> FALSE, reset |-> FALSE, error |-> FALSE,
             shut |-> FALSE, edge |-> FALSE]
  /\ queue = <<>> /\ sends = 0
  /\ called = <<>> /\ lost = {}
  /\ phase = "select" /\ event = None /\ peer = "open"
  /\ threw = FALSE /\ spent = FALSE

-----------------------------------------------------------------------------
(* External: what epoll finds ready for the enabled events. *)
Readable(s) == s.conn.reading /\ (s.sock.unread > 0 \/ s.sock.eof \/ s.sock.reset)
Writable(s) == s.conn.writing /\ (s.sock.room > 0 \/ s.sock.reset)

(* Channel::Update of an added channel: EPOLL_CTL_MOD looks at it again. *)
Update(s) == [s EXCEPT !.sock.edge = @ \/ Readable(s) \/ Writable(s)]

EnableWriting(s) == Update([s EXCEPT !.conn.writing = TRUE])

(* Mutant of DisableWriting: the channel goes on asking for EPOLLOUT. *)
StayWriting(s) == s

DisableWriting(s) == Update([s EXCEPT !.conn.writing = FALSE])

(* EPOLL_CTL_DEL: no more events. *)
DisableAll(s) == [s EXCEPT !.conn.reading = FALSE, !.conn.writing = FALSE, !.sock.edge = FALSE]

(* External: write() takes what fits. *)
Accepted(s, data) == IF Len(data) <= s.sock.room THEN Len(data) ELSE s.sock.room

Written(s, data) ==
  LET n == Accepted(s, data)
  IN [s EXCEPT !.sock.wire = @ \o SubSeq(data, 1, n),
               !.sock.room = @ - n,
               !.sock.wanted = @ \/ n < Len(data)]

(* Queue a functor of this connection on its loop. *)
QueueInLoop(s, op, data) == [s EXCEPT !.queue = Append(@, [op |-> op, data |-> data])]

-----------------------------------------------------------------------------
(* MsgBuffer::Write: data that does not fit makes the buffer grow, and what  *)
(* it held is not carried over (see MsgBuffer).                              *)
Store(s, data) ==
  LET used == Len(s.conn.buffer)
      size == s.conn.capacity
  IN IF used + Len(data) <= size
     THEN [s EXCEPT !.conn.buffer = @ \o data]
     ELSE [s EXCEPT !.conn.buffer = data,
                    !.conn.capacity = IF 2 * size > used + Len(data) THEN 2 * size
                                      ELSE used + Len(data),
                    !.lost = @ \cup ToSet(s.conn.buffer)]

(* Mutant of Keep: EPOLLOUT is not asked for. *)
KeepUnwatched(s, rest) ==
  IF rest = <<>> THEN s
  ELSE Store(IF s.conn.buffered THEN s
             ELSE [s EXCEPT !.conn.buffered = TRUE, !.conn.buffer = <<>>,
                            !.conn.capacity = Capacity], rest)

(* The end of SendInLoop: keep what was not written and ask for EPOLLOUT. *)
Keep(s, rest) ==
  IF rest = <<>> THEN s
  ELSE LET fresh == IF s.conn.buffered THEN s
                    ELSE [s EXCEPT !.conn.buffered = TRUE, !.conn.buffer = <<>>,
                                   !.conn.capacity = Capacity]
           stored == Store(fresh, rest)
       IN IF stored.conn.writing THEN stored ELSE EnableWriting(stored)

(* Mutant of Direct: the data waiting in write_buffer_ is not looked at. *)
DirectAlways(s) == TRUE

(* SendInLoop writes at once only when nothing waits. *)
Direct(s) == ~s.conn.writing /\ ~s.conn.buffered

SendInLoop(s, data) ==
  CASE s.conn.state # "kConnected" -> [s EXCEPT !.lost = @ \cup ToSet(data)]
    [] s.conn.state = "kConnected" /\ ~Direct(s) -> Keep(s, data)
    [] s.conn.state = "kConnected" /\ Direct(s) /\ s.sock.reset ->
         [s EXCEPT !.sock.error = FALSE, !.lost = @ \cup ToSet(data)]
    [] s.conn.state = "kConnected" /\ Direct(s) /\ ~s.sock.reset ->
         LET n == Accepted(s, data)
             w == Written(s, data)
         IN IF n = Len(data) THEN QueueInLoop(w, "Complete", <<>>)
            ELSE Keep(w, SubSeq(data, n + 1, Len(data)))

(* Send on the loop's thread queues behind sends of other threads. *)
MustQueue(s) == s.sends > 0

Calls(s, m) == [s EXCEPT !.called = Append(@, m)]

(* Send on the loop's thread of data that stays unchanged. *)
Send(s, m) ==
  IF MustQueue(s) THEN QueueInLoop([Calls(s, m) EXCEPT !.sends = @ + 1], "Send", Body(m))
  ELSE SendInLoop(Calls(s, m), Body(m))

(* Mutant of Echo: send_count_ is not incremented. *)
EchoUncounted(s, m) ==
  IF MustQueue(s)
  THEN QueueInLoop([Calls(s, m) EXCEPT !.lost = @ \cup ToSet(Body(m))], "Send", <<>>)
  ELSE SendInLoop(Calls(s, m), Body(m))

(* The default handler of TcpServer: Send(msg), then msg.RetrieveAll().  When *)
(* it is queued, the functor finds the buffer empty.                          *)
Echo(s, m) ==
  IF MustQueue(s)
  THEN QueueInLoop([Calls(s, m) EXCEPT !.sends = @ + 1, !.lost = @ \cup ToSet(Body(m))],
                   "Send", <<>>)
  ELSE SendInLoop(Calls(s, m), Body(m))

-----------------------------------------------------------------------------
(* Mutant of Shutdown: what is still to be written is not looked at. *)
ShutdownNow(s) ==
  IF s.conn.state # "kConnected" THEN s
  ELSE [s EXCEPT !.conn.state = "kDisconnecting",
                 !.sock.shut = ~s.sock.reset, !.threw = @ \/ s.sock.reset]

(* The functor of Shutdown.  Socket::Shutdown throws on a socket that was     *)
(* reset.                                                                     *)
Shutdown(s) ==
  IF s.conn.state # "kConnected" THEN s
  ELSE IF s.conn.writing THEN [s EXCEPT !.conn.state = "kDisconnecting"]
  ELSE [s EXCEPT !.conn.state = "kDisconnecting",
                 !.sock.shut = ~s.sock.reset, !.threw = @ \/ s.sock.reset]

HandleClose(s) == [DisableAll(s) EXCEPT !.conn.state = "kDisconnected"]

(* The functor of ForceClose. *)
ForceClose(s) == IF s.conn.state = "kDisconnected" THEN s ELSE HandleClose(s)

(* What a handler of the application does, once: nothing, send, shut, close. *)
AppOnce(s) ==
  {s, Shutdown(s), ForceClose(s)}
  \cup {Send(s, m) : m \in Msgs \ ToSet(s.called)}
  \cup {Echo(s, m) : m \in Msgs \ ToSet(s.called)}

(* A handler sends or shuts twice at most. *)
AppCode(s) == UNION {AppOnce(t) : t \in AppOnce(s)}

(* Mutant of HandleRead: the end of the stream is taken for EAGAIN. *)
HandleReadNoEof(s) ==
  IF s.sock.unread > 0
  THEN UNION {AppCode([s EXCEPT !.sock.unread = @ - n]) : n \in 1 .. s.sock.unread}
  ELSE {s}

(* HandleRead: one ReadFile, which may leave something unread.  ECONNRESET   *)
(* and EAGAIN end it without a close.                                        *)
HandleRead(s) ==
  IF s.sock.unread > 0
  THEN UNION {AppCode([s EXCEPT !.sock.unread = @ - n]) : n \in 1 .. s.sock.unread}
  ELSE IF s.sock.eof THEN {HandleClose(s)}
  ELSE IF s.sock.error THEN {[s EXCEPT !.sock.error = FALSE]}
  ELSE IF s.sock.reset THEN {HandleClose(s)}
  ELSE {s}

(* HandleWrite: an empty buffer is taken off the list, writing disabled and  *)
(* the application told; a buffer with data is written once.  The Shutdown   *)
(* it calls when kDisconnecting does nothing in that state.                  *)
HandleWrite(s) ==
  IF ~s.conn.writing THEN {s}
  ELSE IF s.conn.buffer = <<>>
       THEN {IF t.conn.state = "kDisconnecting" THEN Shutdown(t) ELSE t :
               t \in AppCode(DisableWriting([s EXCEPT !.conn.buffered = FALSE]))}
       ELSE IF s.sock.reset THEN {[s EXCEPT !.sock.error = FALSE]}
       ELSE LET w == Written(s, s.conn.buffer)
            IN {[w EXCEPT !.conn.buffer =
                   SubSeq(@, Accepted(s, @) + 1, Len(@))]}

-----------------------------------------------------------------------------
(* Epoll::Select: the edge is consumed, with all that is ready now. *)
Select ==
  /\ ~threw /\ phase = "select"
  /\ IF sock.edge
     THEN /\ event' = [in |-> Readable(Now), out |-> Writable(Now), err |-> sock.error]
          /\ sock' = [sock EXCEPT !.edge = FALSE]
     ELSE event' = None /\ UNCHANGED sock
  /\ phase' = "handle"
  /\ UNCHANGED <<conn, queue, sends, called, lost, peer, threw, spent>>

(* Channel::HandleEvent: error (HandleError fetches it), then read, then write. *)
HandleEvent ==
  /\ ~threw /\ phase = "handle"
  /\ LET cleared == [Now EXCEPT !.sock.error = @ /\ ~event.err]
     IN \E t \in (IF event.in THEN HandleRead(cleared) ELSE {cleared}) :
          \E u \in (IF event.out THEN HandleWrite(t) ELSE {t}) :
            /\ Become(u)
            /\ spent' = (spent \/ (event.in /\ sock.reset /\ sock.unread > 0 /\ ~u.sock.edge))
  /\ event' = None
  /\ phase' = "functors"
  /\ UNCHANGED peer

(* InvokeRunInLoopFuncs. *)
RunFunctor ==
  /\ ~threw /\ phase = "functors" /\ queue # <<>>
  /\ LET f == Head(queue)
         s == [Now EXCEPT !.queue = Tail(@)]
     IN \/ f.op = "Send" /\ Become([SendInLoop(s, f.data) EXCEPT !.sends = @ - 1])
        \/ f.op = "Shutdown" /\ Become(Shutdown(s))
        \/ f.op = "ForceClose" /\ Become(ForceClose(s))
        \/ f.op = "Complete" /\ \E t \in AppCode(s) : Become(t)
  /\ UNCHANGED <<phase, event, peer, spent>>

FunctorsDone ==
  /\ ~threw /\ phase = "functors" /\ queue = <<>>
  /\ phase' = "select"
  /\ UNCHANGED <<conn, sock, queue, sends, called, lost, event, peer, threw, spent>>

(* Another thread calls Send, Shutdown or ForceClose; Send counts and queues  *)
(* under send_mutex_.  A close is called only while it can still do something *)
(* (bound: a thread that never stops calling keeps the loop in its functors). *)
OtherSends(m) ==
  /\ ~threw /\ m \notin ToSet(called)
  /\ Become(QueueInLoop([Calls(Now, m) EXCEPT !.sends = @ + 1], "Send", Body(m)))
  /\ UNCHANGED <<phase, event, peer, spent>>

OtherCloses(op) ==
  /\ ~threw /\ \A i \in DOMAIN queue : queue[i].op # op
  /\ conn.state = "kConnected" \/ (op = "ForceClose" /\ conn.state = "kDisconnecting")
  /\ Become(QueueInLoop(Now, op, <<>>))
  /\ UNCHANGED <<phase, event, peer, spent>>

-----------------------------------------------------------------------------
(* External: the peer and the network.  Each makes an edge. *)
PeerStep(k, p) ==
  /\ ~threw /\ ~sock.reset
  /\ sock' = [k EXCEPT !.edge = conn.reading]
  /\ peer' = p
  /\ UNCHANGED <<conn, queue, sends, called, lost, phase, event, threw, spent>>

PeerSends ==
  /\ peer = "open" /\ sock.unread < MaxUnread
  /\ PeerStep([sock EXCEPT !.unread = @ + 1], peer)

(* The peer stops sending, or closes its socket altogether. *)
PeerShuts ==
  /\ peer = "open"
  /\ \E p \in {"shut", "gone"} : PeerStep([sock EXCEPT !.eof = TRUE], p)

PeerCloses ==
  /\ peer = "shut" /\ ~threw /\ ~sock.reset
  /\ peer' = "gone"
  /\ UNCHANGED <<conn, sock, queue, sends, called, lost, phase, event, threw, spent>>

(* A reset; a peer that is gone answers the keep-alive probe with one. *)
Reset == PeerStep([sock EXCEPT !.reset = TRUE, !.error = TRUE], "gone")

KeepAlive == peer = "gone" /\ Reset

(* The peer takes a unit; the edge comes when a write was short. *)
PeerReads ==
  /\ ~threw /\ ~sock.reset /\ peer # "gone" /\ sock.room < SendBuffer
  /\ sock' = [sock EXCEPT !.room = @ + 1, !.wanted = FALSE,
                          !.edge = @ \/ (sock.wanted /\ conn.writing)]
  /\ UNCHANGED <<conn, queue, sends, called, lost, phase, event, peer, threw, spent>>

-----------------------------------------------------------------------------
LoopStep == Select \/ HandleEvent \/ RunFunctor \/ FunctorsDone

OtherStep == \/ \E m \in Msgs : OtherSends(m)
             \/ \E op \in {"Shutdown", "ForceClose"} : OtherCloses(op)

Environment == PeerSends \/ PeerShuts \/ PeerCloses \/ Reset \/ KeepAlive \/ PeerReads

Next == LoopStep \/ OtherStep \/ Environment

(* The loop runs, the peer reads while it is there, and keep-alive probes a   *)
(* peer that is not.                                                          *)
Fairness == WF_vars(LoopStep) /\ WF_vars(PeerReads) /\ WF_vars(KeepAlive)

SafeSpec == Init /\ [][Next]_vars

Spec == SafeSpec /\ Fairness

-----------------------------------------------------------------------------
Queued == FlattenSeq([i \in DOMAIN queue |-> queue[i].data])

(* The order in which Send was given units u and v. *)
Before(calls, u, v) ==
  \E a, b \in DOMAIN calls :
    /\ calls[a] = u[1] /\ calls[b] = v[1]
    /\ a < b \/ (a = b /\ u[2] < v[2])

InOrder(calls, stream) ==
  \A i, j \in DOMAIN stream : i < j => Before(calls, stream[i], stream[j])

(* What is on the wire, then what is buffered, then what functors hold, is    *)
(* what Send was given, in the order of the calls of all threads, without     *)
(* what was discarded: nothing is repeated, overtakes or vanishes.            *)
StreamIntact ==
  LET stream == sock.wire \o conn.buffer \o Queued
  IN /\ ToSet(stream) = (ToSet(called) \X (1 .. Size)) \ lost
     /\ InOrder(called, stream)

(* EPOLLOUT is asked for only with a buffer on the list, so HandleWrite's     *)
(* front() exists.                                                            *)
WritingHasBuffer == conn.writing => conn.buffered

(* The FIN follows all data that was accepted: none is left to be written.    *)
FinIsLast == sock.shut => conn.state # "kConnected" /\ ~conn.writing /\ conn.buffer = <<>>

(* A connection whose peer is gone is closed, unless the event that told of   *)
(* the reset brought data too: HandleRead reads once per edge, and there is   *)
(* no edge after a reset.  EOF behind data is missed too, but then the        *)
(* keep-alive probe makes another edge.                                       *)
PeerGoneIsClosed == (peer = "gone") ~> (conn.state = "kDisconnected" \/ spent \/ threw)

(* Buffered data is written while the peer keeps sending.  Without the peer's *)
(* events it may wait for ever: the write that empties the buffer leaves      *)
(* EPOLLOUT enabled with no edge to come, and a later Send only appends.      *)
FlushedWithEvents ==
  []<><<PeerSends>>_vars =>
    ((conn.buffer # <<>>) ~> (conn.buffer = <<>> \/ conn.state = "kDisconnected"))
=============================================================================
