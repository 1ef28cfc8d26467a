------------------------------ MODULE TcpServer ------------------------------
(***************************************************************************)
(* src/net/tcp_server.cpp with the parts of tcp_connection.cpp, channel    *)
(* and epoll.cpp that decide how long a connection lives.  The base loop   *)
(* accepts; each connection lives on one loop, the base loop or one of the *)
(* group's.  connections_ belongs to the base loop, a connection's channel *)
(* to its own, so opening and closing one goes back and forth in functors. *)
(*                                                                         *)
(* A handler runs until it calls the application: calls has, for each     *)
(* loop, the calls of application code that have not returned.  That code  *)
(* is any sequence of the operations of a connection (its own or one it    *)
(* keeps a pointer to), each a step, and may close connections and so be   *)
(* called again before it returns.  Bytes are left to TcpConnection: here  *)
(* an event of a connection is a message (or the end of a write that had   *)
(* to wait), an end (EOF or an error) or nothing.                          *)
(*                                                                         *)
(* Undefined behaviour is recorded in ub, and nothing is said of what the  *)
(* program does after it.                                                  *)
(***************************************************************************)
EXTENDS Naturals, Sequences, FiniteSets, SequencesExt

CONSTANTS
  Base,        (* the loop of the server                                  *)
  IoLoops,     (* the loops a group may have, in its order                *)
  Nums,        (* sizes the application gives SetEventLoopGroupNum         *)
  Conns,       (* connections, each accepted at most once                 *)
  Acceptor,    (* the acceptor's channel                                  *)
  Keepable,    (* bound: those the application may keep a pointer to       *)
  MaxRequests  (* bound: what it may have pending in the queue of a loop   *)

ASSUME ServerAssumption ==
  /\ IoLoops \in Seq(Range(IoLoops)) /\ Base \notin Range(IoLoops)
  /\ Nums \subseteq 1 .. Len(IoLoops)
  /\ Acceptor \notin Conns /\ Keepable \subseteq Conns /\ MaxRequests \in Nat

Loops == {Base} \cup Range(IoLoops)

VARIABLES
  conn,          (* the TcpConnection and its Channel                     *)
  connections,   (* connections_                                          *)
  queue,         (* pending functors of each loop                         *)
  calls,         (* calls of application code on each loop, last one first *)
  phase,         (* where each loop is in an iteration of Start           *)
  active,        (* active_channels_ not yet handled                      *)
  acceptor,      (* acceptor_: "idle", "listening" or "reset"             *)
  threads,       (* the size of event_loop_group_, 0 when there is none   *)
  turn,          (* next_event_loop_                                      *)
  held,          (* connections the application keeps a pointer to        *)
  stop,          (* where Stop is: who called it and how far it got       *)
  quit,          (* loops whose quit_ is set                              *)
  ub             (* undefined behaviour met                               *)

vars == <<conn, connections, queue, calls, phase, active, acceptor, threads, turn, held, stop, quit, ub>>

(* event_loop_group_. *)
Group == SubSeq(IoLoops, 1, threads)

(* What a handler reads and writes as a whole. *)
Now == [conn |-> conn, connections |-> connections, queue |-> queue, calls |-> calls]

(* A step left s behind.  QueueInLoop on a destroyed loop is undefined, and so *)
(* is a handler's call through a function that has the server, once it is gone. *)
Become(s, undefined) ==
  /\ conn' = s.conn /\ connections' = s.connections /\ queue' = s.queue /\ calls' = s.calls
  /\ ub' = ub \cup undefined
            \cup {u \in {"loop"} : \E l \in Loops : phase[l] = "dead" /\ s.queue[l] # <<>>}
            \cup {u \in {"server"} : stop.at = "gone" /\ s.calls # calls}

Requests == {"ForceClose", "Shutdown", "Send", "Complete"}

Ops == Requests \cup {"Listen", "StopAll", "Inform", "Remove", "Destroy"}

States == {"kDisconnected", "kConnected", "kDisconnecting"}

ChannelStates == {"kNew", "kAdded", "kDeleted"}

Functor(op, c) == [op |-> op, conn |-> c]

(* Application code is called because a connection went up or down, or because *)
(* of its data: a message, or the end of a write.                              *)
Call(kind, c) == [kind |-> kind, conn |-> c]

TypeOK ==
  /\ conn \in [Conns -> [state : States, channel : ChannelStates, reading : BOOLEAN,
                         loop : Loops, accepted : BOOLEAN,
                         ups : Nat, downs : Nat, destroyed : Nat]]
  /\ connections \in SUBSET Conns
  /\ queue \in [Loops -> Seq([op : Ops, conn : Conns \cup {Acceptor}])]
  /\ calls \in [Loops -> Seq([kind : {"up", "down", "data"}, conn : Conns])]
  /\ phase \in [Loops -> {"select", "busy", "off", "dead"}]
  /\ active \in [Loops -> SUBSET (Conns \cup {Acceptor})]
  /\ acceptor \in {"idle", "listening", "reset"}
  /\ threads \in {0} \cup Nums
  /\ turn \in {0} \cup 0 .. threads - 1
  /\ held \in SUBSET Conns
  /\ stop \in [by : {"nobody", "outside", "base"},
               at : {"no", "queued", "closing", "join", "done", "gone"},
               todo : SUBSET Conns, loop : 1 .. threads + 1, depth : Nat]
  /\ quit \in SUBSET Loops
  /\ ub \in SUBSET {"iterator", "loop", "acceptor", "server"}

Init ==
  /\ conn = [c \in Conns |-> [state |-> "kDisconnected", channel |-> "kNew", reading |-> FALSE,
                              loop |-> Base, accepted |-> FALSE,
                              ups |-> 0, downs |-> 0, destroyed |-> 0]]
  /\ connections = {} /\ held = {} /\ quit = {} /\ ub = {}
  /\ queue = [l \in Loops |-> <<>>] /\ calls = [l \in Loops |-> <<>>]
  /\ phase = [l \in Loops |-> IF l = Base THEN "select" ELSE "off"]
  /\ active = [l \in Loops |-> {}]
  /\ acceptor = "idle" /\ threads = 0 /\ turn = 0
  /\ stop = [by |-> "nobody", at |-> "no", todo |-> {}, loop |-> 1, depth |-> 0]

-----------------------------------------------------------------------------
(* EventLoop::QueueInLoop of loop l; s stands for Now or what follows it. *)
QueueInLoop(s, l, f) == [s EXCEPT !.queue[l] = Append(@, f)]

(* The application is called on loop l. *)
Calling(s, l, kind, c) == [s EXCEPT !.calls[l] = <<Call(kind, c)>> \o @]

(* Channel::Update through Epoll::UpdateChannel: a channel that is added and *)
(* has no events is deleted, any other is added (or modified).               *)
Update(r) ==
  [r EXCEPT !.channel = IF @ = "kAdded" /\ ~r.reading THEN "kDeleted" ELSE "kAdded"]

EnableReading(r) == Update([r EXCEPT !.reading = TRUE])

DisableAll(r) == Update([r EXCEPT !.reading = FALSE])

(* Mutant of HandleConnectionClosed: the connection is dropped at once. *)
ClosedDropsAtOnce(s, l, c) == [s EXCEPT !.connections = @ \ {c}]

(* TcpServer::HandleConnectionClosed on loop l. *)
HandleConnectionClosed(s, l, c) ==
  IF l = Base
  THEN QueueInLoop([s EXCEPT !.connections = @ \ {c}], s.conn[c].loop, Functor("Destroy", c))
  ELSE QueueInLoop(s, Base, Functor("Remove", c))

(* A connection goes down or up: its state, its channel, and how often its    *)
(* connection handler was told.                                               *)
Closed(r) == [DisableAll(r) EXCEPT !.state = "kDisconnected", !.downs = @ + 1]

Opened(r) == [EnableReading(r) EXCEPT !.state = "kConnected", !.ups = @ + 1]

(* TcpConnection::HandleClose on loop l, up to the call of the connection     *)
(* handler; HandleConnectionClosed follows when that returns.                 *)
HandleClose(s, l, c) == Calling([s EXCEPT !.conn[c] = Closed(@)], l, "down", c)

(* Mutant of ForceCloseInLoop: the state is not tested. *)
ForceCloseAlways(s, l, c) == HandleClose(s, l, c)

(* The functor of ForceClose. *)
ForceCloseInLoop(s, l, c) ==
  IF s.conn[c].state \in {"kConnected", "kDisconnecting"} THEN HandleClose(s, l, c) ELSE s

(* ForceClose called on loop l, or from outside when l is no loop. *)
ForceClose(s, l, c) ==
  IF l = s.conn[c].loop THEN ForceCloseInLoop(s, l, c)
  ELSE QueueInLoop(s, s.conn[c].loop, Functor("ForceClose", c))

(* The functor of Shutdown: a connected connection becomes kDisconnecting. *)
ShutdownInLoop(s, c) ==
  [s EXCEPT !.conn[c].state = IF @ = "kConnected" THEN "kDisconnecting" ELSE @]

Shutdown(s, l, c) ==
  IF l = s.conn[c].loop THEN ShutdownInLoop(s, c)
  ELSE QueueInLoop(s, s.conn[c].loop, Functor("Shutdown", c))

(* Mutant of SendInLoop: the state is not tested. *)
SendsAlways(s, c) == {s, QueueInLoop(s, s.conn[c].loop, Functor("Complete", c))}

(* SendInLoop of a connected connection may write everything at once, and     *)
(* then queues the call of its write_complete_handler_.                       *)
SendInLoop(s, c) ==
  {s} \cup {t \in {QueueInLoop(s, s.conn[c].loop, Functor("Complete", c))} :
              s.conn[c].state = "kConnected"}

IsQueued(op, l, c) == \E i \in DOMAIN queue[l] : queue[l][i] = Functor(op, c)

(* Send: while sends are pending (send_count_) it waits behind them. *)
Send(s, l, c) ==
  IF l = s.conn[c].loop /\ ~IsQueued("Send", l, c) THEN SendInLoop(s, c)
  ELSE {QueueInLoop(s, s.conn[c].loop, Functor("Send", c))}

(* The functor of InformConnected. *)
InformInLoop(s, l, c) == Calling([s EXCEPT !.conn[c] = Opened(@)], l, "up", c)

(* TcpConnection::ConnectionDestroyed, with Epoll::RemoveChannel. *)
ConnectionDestroyed(s, c) ==
  LET quiet == IF s.conn[c].state = "kConnected" THEN Closed(s.conn[c]) ELSE s.conn[c]
      removed == [quiet EXCEPT !.channel = "kNew", !.destroyed = @ + 1]
  IN [s EXCEPT !.conn[c] = removed]

-----------------------------------------------------------------------------
(* Base is inside Stop, and not in a call that Stop's loop made: while Stop   *)
(* closes connections, and while a Stop called on it joins the group.         *)
Stopping ==
  /\ stop.at = "closing" \/ (stop.by = "base" /\ stop.at = "join")
  /\ Len(calls[Base]) = stop.depth

(* Loop l runs, and is not inside application code. *)
Runs(l, p) ==
  /\ ub = {} /\ phase[l] = p /\ calls[l] = <<>>
  /\ ~(l = Base /\ Stopping)

(* Epoll::Select of loop l: any of the channels it watches, or none (timeout). *)
Watched(l) == {c \in Conns : conn[c].channel = "kAdded" /\ conn[c].loop = l}
              \cup {a \in {Acceptor} : l = Base /\ acceptor = "listening"}

Select(l) ==
  /\ Runs(l, "select")
  /\ \E ready \in SUBSET Watched(l) : active' = [active EXCEPT ![l] = ready]
  /\ phase' = [phase EXCEPT ![l] = "busy"]
  /\ UNCHANGED <<conn, connections, queue, calls, acceptor, threads, turn, held, stop, quit, ub>>

(* Channel::HandleEvent is called for c. *)
Handles(l, c) ==
  /\ Runs(l, "busy") /\ c \in active[l]
  /\ active' = [active EXCEPT ![l] = @ \ {c}]

(* GetNextEventLoop, or the base loop when there is no group. *)
NextLoop == IF threads = 0 THEN Base ELSE Group[turn + 1]

(* Mutant of NextTurn: the counter is not reduced. *)
NextTurnUnreduced == turn + 1

NextTurn == IF threads = 0 THEN 0 ELSE (turn + 1) % threads

(* The acceptor's handler: accept, then TcpServer::HandleNewConnection. *)
HandleNewConnection(c) ==
  /\ Handles(Base, Acceptor)
  /\ ~conn[c].accepted
  /\ turn' = NextTurn
  /\ LET r == [conn[c] EXCEPT !.accepted = TRUE, !.loop = NextLoop]
         s == [Now EXCEPT !.conn[c] = r, !.connections = @ \cup {c}]
     IN Become(IF NextLoop = Base THEN InformInLoop(s, Base, c)
               ELSE QueueInLoop(s, NextLoop, Functor("Inform", c)), {})
  /\ UNCHANGED <<phase, acceptor, threads, held, stop, quit>>

(* accept() fails, or a channel without events is handled, or an event brings *)
(* neither a message nor an end.                                              *)
HandleNothing(l) ==
  /\ \E c \in active[l] : Handles(l, c)
  /\ UNCHANGED <<conn, connections, queue, calls, phase, acceptor, threads, turn, held, stop, quit, ub>>

(* HandleRead finds a message, or HandleWrite has written what had to wait    *)
(* (or the one and then the other: the calls follow each other).              *)
HandleMessage(l, c) ==
  /\ Handles(l, c) /\ conn[c].reading
  /\ Become(Calling(Now, l, "data", c), {})
  /\ UNCHANGED <<phase, acceptor, threads, turn, held, stop, quit>>

(* HandleRead finds the end of the stream or an error and calls HandleClose. *)
HandleEnd(l, c) ==
  /\ Handles(l, c) /\ conn[c].reading
  /\ Become(HandleClose(Now, l, c), {})
  /\ UNCHANGED <<phase, acceptor, threads, turn, held, stop, quit>>

-----------------------------------------------------------------------------
(* The application's code on loop l, called for the connection Called(l). *)
AppRuns(l) == ub = {} /\ calls[l] # <<>> /\ ~(l = Base /\ Stopping)

Called(l) == Head(calls[l]).conn

(* Bound: what the application may have pending in the queue of a loop. *)
Bounded(q) == \A l \in Loops :
  Cardinality({i \in DOMAIN q[l] : q[l][i].op \in Requests}) <= MaxRequests

(* It uses the connection it was called for, or one it keeps. *)
AppUses(l, c) ==
  /\ AppRuns(l) /\ c \in held \cup {Called(l)}
  /\ \E s \in {ForceClose(Now, l, c), Shutdown(Now, l, c)} \cup Send(Now, l, c) :
       Bounded(s.queue) /\ Become(s, {})
  /\ UNCHANGED <<phase, active, acceptor, threads, turn, held, stop, quit>>

(* It keeps a pointer. *)
AppKeeps(l) ==
  /\ AppRuns(l) /\ Called(l) \in Keepable
  /\ held' = held \cup {Called(l)}
  /\ UNCHANGED <<conn, connections, queue, calls, phase, active, acceptor, threads, turn, stop, quit, ub>>

(* It returns, and HandleClose goes on.  Stop's loop over connections_ then   *)
(* goes on from a connection that was erased, if it called HandleClose.       *)
Return(l) ==
  /\ AppRuns(l)
  /\ LET s == [Now EXCEPT !.calls[l] = Tail(@)]
         inStop == l = Base /\ stop.at = "closing" /\ Len(s.calls[l]) = stop.depth
     IN IF Head(calls[l]).kind = "down"
        THEN Become(HandleConnectionClosed(s, l, Called(l)), {u \in {"iterator"} : inStop})
        ELSE Become(s, {})
  /\ UNCHANGED <<phase, active, acceptor, threads, turn, held, stop, quit>>

-----------------------------------------------------------------------------
(* InvokeRunInLoopFuncs of loop l, when the active channels are handled. *)
InvokeRunInLoopFuncs(l) == Runs(l, "busy") /\ active[l] = {}

(* It comes to a functor. *)
Calls(l, op) ==
  /\ InvokeRunInLoopFuncs(l)
  /\ queue[l] # <<>> /\ Head(queue[l]).op = op

Popped(l) == [Now EXCEPT !.queue[l] = Tail(@)]

First(l) == Head(queue[l]).conn

RunInform(l) ==
  /\ Calls(l, "Inform")
  /\ Become(InformInLoop(Popped(l), l, First(l)), {})
  /\ UNCHANGED <<phase, active, acceptor, threads, turn, held, stop, quit>>

RunForceClose(l) ==
  /\ Calls(l, "ForceClose")
  /\ Become(ForceCloseInLoop(Popped(l), l, First(l)), {})
  /\ UNCHANGED <<phase, active, acceptor, threads, turn, held, stop, quit>>

RunShutdown(l) ==
  /\ Calls(l, "Shutdown")
  /\ Become(ShutdownInLoop(Popped(l), First(l)), {})
  /\ UNCHANGED <<phase, active, acceptor, threads, turn, held, stop, quit>>

RunSend(l) ==
  /\ Calls(l, "Send")
  /\ \E s \in SendInLoop(Popped(l), First(l)) : Become(s, {})
  /\ UNCHANGED <<phase, active, acceptor, threads, turn, held, stop, quit>>

(* The functor SendInLoop queues: write_complete_handler_ is a function of    *)
(* the server, which may be gone.                                             *)
RunComplete(l) ==
  /\ Calls(l, "Complete")
  /\ Become(Calling(Popped(l), l, "data", First(l)), {})
  /\ UNCHANGED <<phase, active, acceptor, threads, turn, held, stop, quit>>

(* The functor HandleConnectionClosed queues on the base loop: it has this,   *)
(* the server, which may be gone.                                             *)
RunRemove ==
  /\ Calls(Base, "Remove")
  /\ Become(HandleConnectionClosed(Popped(Base), Base, First(Base)),
            {u \in {"server"} : stop.at = "gone"})
  /\ UNCHANGED <<phase, active, acceptor, threads, turn, held, stop, quit>>

RunDestroy(l) ==
  /\ Calls(l, "Destroy")
  /\ Become(ConnectionDestroyed(Popped(l), First(l)), {})
  /\ UNCHANGED <<phase, active, acceptor, threads, turn, held, stop, quit>>

(* Acceptor::Listen on acceptor_, which must not have been reset. *)
RunListen ==
  /\ Calls(Base, "Listen")
  /\ acceptor' = IF acceptor = "reset" THEN acceptor ELSE "listening"
  /\ Become(Popped(Base), {u \in {"acceptor"} : acceptor = "reset"})
  /\ UNCHANGED <<phase, active, threads, turn, held, stop, quit>>

(* The queue is found empty, and quit_ is tested. *)
FunctorsDone(l) ==
  /\ InvokeRunInLoopFuncs(l) /\ queue[l] = <<>>
  /\ phase' = [phase EXCEPT ![l] = IF l \in quit THEN "off" ELSE "select"]
  /\ UNCHANGED <<conn, connections, queue, calls, active, acceptor, threads, turn, held, stop, quit, ub>>

-----------------------------------------------------------------------------
(* SetEventLoopGroupNum, before Start: the threads are made, and run. *)
SetEventLoopGroupNum(num) ==
  /\ ub = {} /\ threads = 0 /\ acceptor = "idle" /\ stop.at = "no"
  /\ queue[Base] = <<>>
  /\ threads' = num
  /\ phase' = [l \in Loops |-> IF l \in Range(SubSeq(IoLoops, 1, num)) THEN "select" ELSE phase[l]]
  /\ UNCHANGED <<conn, connections, queue, calls, active, acceptor, turn, held, stop, quit, ub>>

(* TcpServer::Start, on the base loop's thread or (queued) on another. *)
Start ==
  /\ ub = {} /\ acceptor = "idle" /\ stop.at = "no"
  /\ \A i \in DOMAIN queue[Base] : queue[Base][i].op # "Listen"
  /\ \/ acceptor' = "listening" /\ UNCHANGED queue
     \/ /\ queue' = [queue EXCEPT ![Base] = Append(@, Functor("Listen", Acceptor))]
        /\ UNCHANGED acceptor
  /\ UNCHANGED <<conn, connections, calls, phase, active, threads, turn, held, stop, quit, ub>>

(* The application, on a thread of its own, uses a connection it keeps. *)
AppCalls(c) ==
  /\ ub = {} /\ c \in held /\ stop.at = "no"
  /\ \E op \in {"ForceClose", "Shutdown", "Send"} :
       queue' = [queue EXCEPT ![conn[c].loop] = Append(@, Functor(op, c))]
  /\ Bounded(queue')
  /\ UNCHANGED <<conn, connections, calls, phase, active, acceptor, threads, turn, held, stop, quit, ub>>

AppDrops(c) ==
  /\ ub = {} /\ c \in held
  /\ held' = held \ {c}
  /\ UNCHANGED <<conn, connections, queue, calls, phase, active, acceptor, threads, turn, stop, quit, ub>>

-----------------------------------------------------------------------------
(* event_loop_group_.reset() begins, with the first thread. *)
Joining == IF threads = 0 THEN "done" ELSE "join"

(* The acceptor goes, and the loop over connections_ is to come. *)
CloseAll(by) ==
  /\ acceptor' = "reset"
  /\ stop' = [by |-> by, at |-> "closing", todo |-> connections, loop |-> 1,
              depth |-> Len(calls[Base])]

(* Stop on another thread queues the work on the base loop and waits. *)
StopOutside ==
  /\ ub = {} /\ stop.at = "no"
  /\ stop' = [by |-> "outside", at |-> "queued", todo |-> {}, loop |-> 1, depth |-> 0]
  /\ queue' = [queue EXCEPT ![Base] = Append(@, Functor("StopAll", Acceptor))]
  /\ UNCHANGED <<conn, connections, calls, phase, active, acceptor, threads, turn, held, quit, ub>>

RunStopAll ==
  /\ Calls(Base, "StopAll")
  /\ CloseAll("outside")
  /\ Become(Popped(Base), {})
  /\ UNCHANGED <<phase, active, threads, turn, held, quit>>

(* The acceptor's event is being handled on the base loop, or is yet to come: *)
(* only its handler takes a connection up there.                              *)
AcceptorInUse ==
  \/ Acceptor \in active[Base]
  \/ \E i \in DOMAIN calls[Base] : calls[Base][i].kind = "up"

(* Stop on the base loop, from a functor of the application or from its code  *)
(* in a handler, while active channels may follow.                            *)
StopInLoop ==
  /\ stop.at = "no"
  /\ InvokeRunInLoopFuncs(Base) \/ AppRuns(Base)
  /\ CloseAll("base")
  /\ Become(Now, {u \in {"acceptor"} : AcceptorInUse})
  /\ UNCHANGED <<phase, active, threads, turn, held, quit>>

(* One turn of the loop over what is still in connections_, in any order. *)
CloseNext(c) ==
  /\ ub = {} /\ stop.at = "closing" /\ Stopping /\ c \in stop.todo \cap connections
  /\ stop' = [stop EXCEPT !.todo = @ \ {c}]
  /\ Become(ForceClose(Now, Base, c), {})
  /\ UNCHANGED <<phase, active, acceptor, threads, turn, held, quit>>

ClosedAll ==
  /\ ub = {} /\ stop.at = "closing" /\ Stopping /\ stop.todo \cap connections = {}
  /\ stop' = [stop EXCEPT !.at = Joining, !.todo = {}]
  /\ UNCHANGED <<conn, connections, queue, calls, phase, active, acceptor, threads, turn, held, quit, ub>>

(* Mutant of StopLoop: as EventLoopGroup::Stop, which only waits. *)
StopLoopNever == UNCHANGED vars

(* The destructor of a group's EventLoopThread stops its loop, ...            *)
StopLoop ==
  /\ ub = {} /\ stop.at = "join"
  /\ Group[stop.loop] \notin quit
  /\ quit' = quit \cup {Group[stop.loop]}
  /\ UNCHANGED <<conn, connections, queue, calls, phase, active, acceptor, threads, turn, held, stop, ub>>

(* ... joins the thread and destroys the loop, with the functors left in it.  *)
JoinLoop ==
  /\ ub = {} /\ stop.at = "join"
  /\ LET l == Group[stop.loop] IN
       /\ phase[l] = "off"
       /\ phase' = [phase EXCEPT ![l] = "dead"]
       /\ queue' = [queue EXCEPT ![l] = <<>>]
  /\ stop' = [stop EXCEPT !.loop = @ + 1, !.at = IF stop.loop = threads THEN "done" ELSE @]
  /\ UNCHANGED <<conn, connections, calls, active, acceptor, threads, turn, held, quit, ub>>

(* ~TcpServer after Stop, on the thread that called it, not in a handler of   *)
(* the server's.  A call of the base loop's that has not returned is one of   *)
(* write_complete_handler_, which goes with the server.                       *)
DestroyServer ==
  /\ ub = {} /\ stop.at = "done"
  /\ stop.by = "base" => InvokeRunInLoopFuncs(Base)
  /\ stop' = [stop EXCEPT !.at = "gone"]
  /\ connections' = {}
  /\ ub' = {u \in {"server"} : calls[Base] # <<>>}
  /\ UNCHANGED <<conn, queue, calls, phase, active, acceptor, threads, turn, held, quit>>

-----------------------------------------------------------------------------
Handle(l) == HandleNothing(l) \/ \E c \in Conns : HandleMessage(l, c) \/ HandleEnd(l, c)

RunFunctor(l) ==
  \/ RunInform(l) \/ RunForceClose(l) \/ RunShutdown(l) \/ RunSend(l)
  \/ RunComplete(l) \/ RunDestroy(l)

LoopStep(l) ==
  \/ Select(l) \/ Handle(l) \/ Return(l)
  \/ RunFunctor(l) \/ FunctorsDone(l)

BaseStep ==
  \/ RunRemove \/ RunListen \/ RunStopAll \/ ClosedAll
  \/ \E c \in Conns : HandleNewConnection(c) \/ CloseNext(c)

AppStep ==
  \/ \E num \in Nums : SetEventLoopGroupNum(num)
  \/ Start \/ StopOutside \/ StopInLoop \/ DestroyServer
  \/ \E c \in Conns : AppCalls(c) \/ AppDrops(c) \/ \E l \in Loops : AppUses(l, c)
  \/ \E l \in Loops : AppKeeps(l)

Next == (\E l \in Loops : LoopStep(l)) \/ BaseStep \/ AppStep \/ StopLoop \/ JoinLoop

(* Every loop's thread runs (Select comes back after 500 ms, and the base loop *)
(* is not stopped), and so does the thread inside Stop.                        *)
Fairness ==
  /\ \A l \in Loops : WF_vars(LoopStep(l) \/ (l = Base /\ BaseStep))
  /\ WF_vars(StopLoop) /\ WF_vars(JoinLoop)

SafeSpec == Init /\ [][Next]_vars

Spec == SafeSpec /\ Fairness

-----------------------------------------------------------------------------
(* Somebody holds a shared_ptr to c. *)
Referenced(c) ==
  \/ c \in connections \cup held
  \/ \E l \in Loops : \E i \in DOMAIN queue[l] : queue[l][i].conn = c

(* A loop never calls a channel of a connection that is gone, nor comes back  *)
(* to one from application code: connections may be closed by other handlers  *)
(* of the same iteration, and by their own, but die in functors.              *)
ActiveAreAlive == \A l \in Loops : \A c \in Conns :
  c \in active[l] \/ (\E i \in DOMAIN calls[l] : calls[l][i].conn = c) => Referenced(c)

(* Where a connection is in its life; a handler that is called twice, or in  *)
(* the wrong order, makes it one that ConnectionLife does not know.           *)
Life(c) ==
  LET r == conn[c]
      told == <<r.ups, r.downs, r.destroyed>>
  IN CASE told = <<0, 0, 0>> -> IF r.accepted THEN "accepted" ELSE "new"
       [] told = <<1, 0, 0>> -> "up"
       [] told = <<1, 1, 0>> -> IF c \in connections THEN "down" ELSE "forgotten"
       [] told = <<1, 1, 1>> -> "destroyed"
       [] OTHER -> "broken"

Promise == INSTANCE ConnectionLife WITH
  life <- [c \in Conns |-> Life(c)],
  kept <- connections,
  open <- {c \in Conns : conn[c].state # "kDisconnected"},
  watched <- {c \in Conns : conn[c].channel = "kAdded"},
  gone <- (stop.at = "gone")

(* The server does what ConnectionLife promises: however many of EOF, error,  *)
(* ForceClose and Stop compete to close a connection, the handler hears of it *)
(* up once and down once; an open or watched connection is kept; it is        *)
(* destroyed once, after it was forgotten, and never while a handler runs.    *)
ImplementsConnectionLife == Promise!Spec

(* Undefined behaviour takes a Stop, and has four forms only: without a       *)
(* group, the iterator of Stop's loop; with one, a call on the destroyed loop *)
(* of a connection that was closed there and waits to be destroyed, or that   *)
(* the application still uses; the acceptor, reset on the base loop while its *)
(* event, its handler or a queued Listen is to come; and the server, when it  *)
(* is destroyed while a closed connection waits to be destroyed: the base     *)
(* loop then has a functor of it that uses the server, to remove the          *)
(* connection (with a group) or to tell of the end of a write (also without). *)
UndefinedOnlyInStop ==
  /\ ub # {} => stop.at # "no"
  /\ "iterator" \in ub => threads = 0
  /\ "loop" \in ub => \E c \in Conns :
       /\ phase[conn[c].loop] = "dead"
       /\ conn[c].downs > conn[c].destroyed \/ c \in held
  /\ "acceptor" \in ub => stop.by = "base"
  /\ "server" \in ub => stop.at = "gone" /\ \E c \in Conns : conn[c].downs > conn[c].destroyed

(* A closed connection is never lost on its way from loop to loop: until it   *)
(* is destroyed, its connection handler has yet to return, the base loop to   *)
(* remove it or its own loop to destroy it, unless that loop was destroyed    *)
(* before, functors and all.                                                  *)
ClosedIsAwaited == \A c \in Conns : conn[c].downs > conn[c].destroyed =>
  \/ \E i \in DOMAIN calls[conn[c].loop] : calls[conn[c].loop][i] = Call("down", c)
  \/ IsQueued("Remove", Base, c)
  \/ IsQueued("Destroy", conn[c].loop, c)
  \/ phase[conn[c].loop] = "dead"

(* A connection that is closed is destroyed, unless Stop takes its loop away. *)
ClosedIsDestroyed == \A c \in Conns :
  conn[c].downs > 0 ~> conn[c].destroyed > 0 \/ stop.at # "no"

(* Stop returns. *)
StopReturns == stop.at # "no" ~> stop.at \in {"done", "gone"} \/ ub # {}
=============================================================================
