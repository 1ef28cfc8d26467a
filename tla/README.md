# simple_http: models, checks and proofs

simple_http is a C++20 library in three layers: utilities (a lock-free queue, a
byte buffer), a reactor (`net`: event loops on epoll, TCP connections, a TCP
server with a group of I/O loops) and an HTTP/1.x server (`net/http`). This
directory holds TLA+ models of its control, TLC configurations that check them
on small instances, and TLAPS proofs. Paths below are relative to the
repository's `src/` directory unless they name a top-level file.

## 1. Inventory

| Component | State | Operations | Made correct by |
|---|---|---|---|
| `ConcurrentQueue` (utils/concurrent_queue.hpp) | linked nodes, `head_`, `tail_` | Enqueue (any thread), TryDequeue and Empty (the loop) | FIFO, nothing lost or twice; "empty" only while a producer is inside Enqueue |
| `EventLoop` (net/event_loop.cpp) | `running_`, `quit_`, functor queue, eventfd | Start, Stop, QueueInLoop, RunInLoop, WakeUp | a queued functor runs; Stop ends the loop and cuts no iteration short |
| `EventLoopThread` (net/event_loop_thread.cpp) | thread, three promises, `loop_` | constructor, Run, Wait, destructor | Run returns to a loop that loops; the loop outlives calls; the destructor returns |
| `EventLoopGroup` (net/event_loop_group.hpp) | threads, `next_event_loop_` | Start, Stop, GetNextEventLoop | round robin within bounds |
| `Channel`, `Epoll` (net/channel.*, net/epoll.*) | enabled events, kNew/kAdded/kDeleted; `channels_`, `events_` and the kernel's registrations | Update, Remove, Select, HandleEvent | kernel, `channels_` and channels agree while descriptors are used again; an event finds the channel it was for, and is handled |
| `Acceptor`, `Socket` (net/acceptor.*, net/socket.*) | listening socket and its channel | Listen, accept handler, destructor | every arriving connection is accepted |
| `TcpConnection` (net/tcp_connection.*) | `state_`, write list, read buffer, `send_count_` | Send, Shutdown, ForceClose, HandleRead/Write/Close, InformConnected, ConnectionDestroyed | stream order, FIN last, one up and one down, closing for good |
| `TcpServer` (net/tcp_server.*) | `connections_`, acceptor, group | Start, Stop, HandleNewConnection, HandleConnectionClosed, destructor | each connection lives the life of `ConnectionLife`: up once, down once, kept while open, destroyed once; no call on what is gone |
| `MsgBuffer` (utils/msg_buffer.*) | `head_`, `tail_`, bytes | Write, Read, ReadFile, Retrieve, EnsureSize, Compact | what is written is what is read |
| `HttpServer`, `HttpContext`, request, response (net/http) | handlers; per connection a parser context and unread lines | Get/Post/Put/Delete, OnMessage, OnRequest, Route, Dispatch | each request answered once, in order, however the stream is split |
| `InetAddr`, `Logger`, examples, build files | none that changes | | not modelled (section 9) |

How they interact: every `EventLoop` runs on one thread. Other threads reach it
through its functor queue only; `RunInLoop` calls directly on the loop's own
thread. `TcpServer` lives on a base loop, which owns the acceptor and
`connections_`; a connection lives on the base loop or on a loop of the group,
which owns its channel. Opening a connection therefore goes base loop -> I/O
loop (InformConnected), closing goes I/O loop -> base loop (erase) -> I/O loop
(ConnectionDestroyed). A Send that writes everything queues one more functor on
the connection's loop, which calls `write_complete_handler_`, a lambda of the
server. `HttpServer` is the connection and message handler of a
`TcpServer`, and closes through it. The README of the repository shows the intended use: the base loop
on an `EventLoopThread`, handlers registered and the group set before Start.

What is hard here: two-step enqueues seen half-done; flags tested once per
iteration; functors of one loop arriving at another in any order relative to
its events; edges of an edge-triggered epoll that are merged or never come;
several ways to close one connection that compete; descriptors and addresses
that come back into use while events for their last owner are pending; handlers
that close the connection they are called for, or stop the server, in the middle
of an iteration; functors that outlive the server they refer to; Stop and
the destructors against everything else. `PROJECT.json` lists each hazard with its line.

## 2. Plan and state of it

Order: the reactor first, from the queue up, because everything else relies on
it; then the life of a connection in the server; then the bytes of one
connection; then what is built on top.

| Step | Modules | State |
|---|---|---|
| 1 queue | `FifoQueue` (abstract), `ConcurrentQueue`, `ConcurrentQueueProofs` | checked; every invariant and the refinement's safety proved |
| 2 loop | `EventLoop` (uses `ConcurrentQueue` step by step) | checked and proved under step 3 |
| 3 loop thread | `EventLoopThread` (extends `EventLoop`), `EventLoopThreadProofs` (both) | checked; every invariant proved |
| 4 epoll | `Epoll`, `EpollProofs` | checked; every invariant proved |
| 5 server | `ConnectionLife` (abstract), `TcpServer`, `TcpServerProofs` | checked; every invariant and the refinement proved |
| 6 connection | `TcpConnection`, `TcpConnectionProofs` | checked; every invariant proved |
| 7 buffer | `MsgBuffer`, `MsgBufferProofs` | checked, one finding; every invariant and the action property proved |
| 8 acceptor | `Acceptor`, `AcceptorProofs` | checked; invariants proved |
| 9 HTTP | `HttpServer`, `HttpServerProofs` | checked, one finding; every invariant proved |

What is left of it: the liveness properties, which only TLC checks, rest on
safety that a proof could state for every instance as well. `ClosedAlwaysAwaited`
(for `ClosedIsDestroyed`) and `BufferedAlwaysWatched` (for `FlushedWithEvents`)
do so; the same for `EdgesAreHandled`, `StopReturns` and `PeerGoneIsClosed` is to
be done.

A module whose constants a .cfg cannot write, or whose run uses symmetry, has an
`MC` module (`MCTcpServer`, `MCTcpConnection`, `MCHttpServer`); the others are
run as they are. Definitions whose comment begins with "Mutant of" are slips of
the kind a change to the code could make. No specification uses them; each shows
that some property would notice.

## 3. The modules

**ConcurrentQueue.** A step is an atomic operation: `Exchange` (make the node,
`head_.exchange`), `Link` (`prev_head->next = node`), `Load` and `Take` (the
halves of TryDequeue), `Empty`. A node stands for the item in it. `order` and
`output` are histories. `FifoQueue` is what a user is promised; `Fifo` maps the
items that were exchanged in but not taken to its queue, so the exchange is
the Put.

**EventLoop.** `pc` follows the loop thread through `Start`: `running_ = true`,
`quit_ = false`, the test of `quit_`, Select, the handlers, then the two nested
loops of `InvokeRunInLoopFuncs`, whose dequeue is the instance `Q` of
`ConcurrentQueue`. `due` is the set of functors the loop could reach through the
list when Select returned, which the iteration owes. A handler's or functor's body is any sequence of
QueueInLoop and Stop. A caller's QueueInLoop is three steps, its Stop two.
`WakeUp` writes four bytes, an eventfd refuses fewer than eight, so `wake`
never becomes true: the model keeps both numbers so that this shows.

**EventLoopThread.** Adds the thread function (`thread`), the owner (`owner`)
and who holds a `shared_ptr` to the loop (`holders`). Promises are conditions:
`StartLoop` waits for the owner's Run, `RunReturns` for the first functor.

**Epoll.** The channels of one loop and three accounts of them: the channels'
own (`enabled`, `state`), the map `channels_`, and the kernel's list
(`interest`). `UpdateChannel` and `RemoveChannel` write all three as the code
does, and epoll_ctl fails when the kernel would refuse (`refused`). `Channels`
stands for addresses and `Fds` for descriptors; `New` and `Free` give both new
owners at any time, on any thread. `stage` is what the owner of a channel has
done with it; the order of its steps is `TcpServer`'s and `EventLoop`'s. A
connection is removed by functors only, but the acceptor is destroyed by Stop,
which a functor or a handler of the loop may call (`DestroyAcceptor`), whichever
channel is being handled or comes next. In a handler this makes `torn` true until
the handlers of the iteration are done. If the loop then uses the
acceptor's channel, for its event or when its own handler returns, the step is
undefined and the model ends (`phase` is "undefined").
`Select` takes what fits in `events_` (`size`), which doubles when it was full,
and `active` holds what was fetched, with the descriptor it was for.

**ConnectionLife.** What a server promises of a connection: new, accepted, up,
down, forgotten, destroyed, in this order; and, as functions of the stage, which
connections the server keeps, which are open and which are watched.

**TcpServer.** The group is made by `SetEventLoopGroupNum`, an action before
`Start`, or never. A handler or a functor of the library is an action up to the
point where it calls the application. `calls` holds, for each loop, the calls of
application code that have not returned: the connection handler when a connection
went up or down, and the message and write-complete handlers. That code is any
sequence of ForceClose, Shutdown and Send (`AppUses`), of the connection it was
called for or of one that the application keeps, each a step; it may keep the
connection (`AppKeeps`) and, on the base loop, call Stop (`StopInLoop`). A
ForceClose in it calls HandleClose, and so the connection handler, in place: calls
nest. `Return` ends the last call, and after one for a connection that went down,
HandleClose goes on with HandleConnectionClosed. Other loops and threads run between
these steps. What a handler reads and writes is the record `Now`, and operators on
it (`ForceClose(s, l, c)`, ...) translate what is called.

Of bytes only this is left: a `SendInLoop` of a connected connection may write
everything, and then queues the call of the write-complete handler (`Complete`);
that handler is a lambda of the server, and so is every other call of the
application, so that one made after ~TcpServer is undefined. `active` is
`active_channels_`, fetched at once by Select and handled one by one. `phase` has
one value, "busy", for the handlers, the functors and the test of `quit_`: a loop
runs functors when `active` is empty, and tests `quit_` when it finds the queue
empty, as `EventLoop` has it in detail. `ub` collects undefined behaviour
(iterator erased, destroyed loop used, acceptor reset under its event or its
handler, server destroyed under a functor or call); the model stops there. Stop's
loop over `connections_` is one step per connection (`CloseNext`), in any order,
since the set is unordered and the other loops run on meanwhile; `stop.depth` is the
number of calls Stop was made in. `DestroyServer` is ~TcpServer after Stop.

`Life(c)` reads the stage of `ConnectionLife` from the counts of calls to the
connection's handlers (`ups`, `downs`, `destroyed`) and from `connections_`; a call
too many, or out of order, has no stage there. What is kept, open and watched maps
to `connections`, `state_` and the channel's state themselves, which the abstract
module then ties to the stage.

**TcpConnection.** The same style for the bytes of one connection. `sock` is
the kernel's side: what is on the wire, room in the send buffer, what is
unread, EOF and reset, and `edge`, the edge that epoll has yet to report.
`HandleEvent` is error, read, write in the order of channel.cpp. A unit is a
piece of a message; `lost` records units discarded on purpose (a send after
the close, a growing buffer), so that `StreamIntact` can speak of the rest.

**MsgBuffer.** Bytes are numbered in the order of writing, which makes their
place in the vector visible. All arithmetic is the code's. A caller's EnsureSize
and Write of another buffer are steps too; the second makes room and nothing
readable, since it leaves `tail_` (section 7).

**Acceptor.** The kernel's queue of connections (`waiting`), one merged `edge`,
and the handler that accepts once per event.

**HttpServer.** One connection of a server; a line is what the parser tells
apart. The read buffer is a `MsgBuffer`: a read that exceeds its room makes it
grow, and all that was in it is lost, with the first part of the read (section 7).
`OnMessage(new, grows)` has both cases: `new` are the lines a read completes, or
those left of a read that did not fit, of which the first may lack its
beginning and so be any line. Whether a read fits is left open. What is received
after a loss is a stream of its own, and the histories (`received`, `answers`,
`cut`, `surplus`) begin anew there. `OnMessage` parses what is in the buffer and answers; the context that
is stored with the connection is read, copied and left alone, as in the code.
A path is slashes, a name, slashes: all that `NormalizePath`, the patterns made
from routes and the search for a file tell apart. `web_api`, a constructor
argument, is chosen in Init, together with the handler of "" that the
constructor registers.
`Reference` is an independent account of what a whole stream asks for: it goes
through the lines one by one (`RefState`), knows no reads, contexts or buffers, and
says in `Answers` which paths a route answers without the patterns of the code.

## 4. The runs

| Run | Shows | States |
|---|---|---|
| queue | implements `FifoQueue` with its fairness, FIFO order, honest "empty", next written once: three producers, four items | 6 085 |
| thread | Stop cuts no iteration short; a queued functor runs and Stop ends the loop, with the wake-up refused; Run returns to a looping loop, the loop outlives calls, Run and the destructor return: owner, two other callers, three functors | 65 990 |
| epoll | kernel, `channels_` and channels agree, events find their channel and are handled: eventfd, acceptor and two connections on three descriptors, `events_` of one, the acceptor destroyed in any handler or functor | 30 232 |
| server | implements `ConnectionLife`, no closed connection is lost between the loops: two connections, on the base loop or on one or two I/O loops, closes that compete and nest, application code in every handler, Stop and ~TcpServer anywhere | 576 021 |
| server_live | closed connections are destroyed, Stop returns: one connection, up to two I/O loops | 53 781 |
| connection | stream order, FIN last: three messages of two units, send buffer of two, buffer of three | 317 304 (symmetry) |
| connection_live | peer gone is closed, output flushed: two messages | 69 522 |
| buffer | compaction, growth, split reads: vector of 4, array of 3, 12 bytes | 523 419 |
| acceptor | as many connections stuck as were missed: four peers, a kernel queue of three | 1 940 |
| http | four lines in any reads, reads that do not fit and leave up to one line, two handlers registered in any order, with and without static files | 2 016 246 |
| buffer_growth, http_headers | the two findings (section 7) | |

Why the bounds are enough. The queue's interesting case needs two producers
inside Enqueue, three make a chain, and the fourth item is a second call of one
of them. One functor hidden behind another, one of a handler and one promise are
the cases of the loops. In `Epoll`, three descriptors for four channels make
every descriptor and address change hands while the loop's eventfd stays, and
with `InitEvents` at one, two and three ready descriptors exceed and fill the
array. For the server, two connections let one handler close
the other's, and a group of two loops lets one be destroyed before the other;
`Keepable` bounds which connections the application keeps a pointer to, and
`MaxRequests` how many operations of the application (and write-complete calls)
wait in the queue of one loop; neither bounds the library's own functors. One
connection that is kept and one that is not, with one request pending, let a
connection be closed by its own handler, by the other's, from outside and by Stop.
server_live has two requests pending, so that one of the application's can be in
front of another and of the library's. For the connection a message fits the send buffer, fits in part or not at
all, and two exceed the MsgBuffer; connection_live leaves out the third message,
which only makes the queue longer. For the buffer, writes and reads of 1, 2, 3
and 5 around a vector of 4 and an array of 3 reach every branch of EnsureSize and
ReadFile, twice over. Four lines are two requests in a read, or one with headers
and what follows it; `MaxLeft` of one starts a stream anew with a line or without, and
`MaxLines` counts from there.

CHECK_DEADLOCK is FALSE where the system may stop: a finite stock of items,
connections or messages is used up, or Stop is over, or the process ended.

## 5. Fairness

A thread inside a library call or a loop goes on running; this is all that
progress in the reactor rests on. So: WF of `Link`, `Load`, `Take` in
the queue; of the loop's own steps and of calls in progress in `EventLoop` and
`EventLoopThread` (Select comes back after 500 ms, so its timeout is fair while
an event never has to come); of each loop's thread and of the thread inside
Stop in `TcpServer`. In `TcpConnection` the peer, while it is there, reads, and
keep-alive (which the constructor turns on) probes a peer that is gone. In
`Acceptor` the loop runs. In `Epoll` there is WF of the loop's own steps, and two
strong ones: of `FunctorsDone`, because an iteration's functors come to an end,
and of each ready descriptor being among those that Select takes, because the
kernel serves its ready list from the front and puts what it has reported at the
back. Nobody has to call anything, and no failure has to
happen. Bodies of handlers and functors are assumed to end, and a functor not
to queue another for ever (section 9).

## 6. Proofs

TLAPS (SMT, Zenon, LS4) checks, for every value of the constants:

- `ConcurrentQueueProofs`: `TypeCorrect`, `FifoOrderHolds`,
  `EmptyOnlyMidEnqueueHolds`, `NextWrittenOnceHolds`, from `QueueAssumption`
  only. None of the invariants is inductive alone: `IInv` adds that `order` has
  no repetitions and ends with `head_` (`OrderInv`), that a stored pointer leads
  to the next node of the history (`NextInv`), that gaps in the list and
  producers between their halves correspond one to one (`ProducerInv`,
  `GapInv`), and where the consumer stands (`ConsumerInv`). FIFO order then
  follows from `ConsumerInv`, the honesty of Empty from `GapInv` at the
  consumer's node. There is a lemma per action. `RefinesFifo` is the safety part
  of `ImplementsFifo`: from the same invariant, the exchange is a Put of an item
  the abstract queue has not seen, `Take` is a Get, every other step a stutter.
- `EventLoopThreadProofs`, first of the loop: `LoopUsesQueue`, every step of the
  loop and its callers is a step of `ConcurrentQueue` or leaves the queue alone, so
  that the queue's proved invariants hold in the loop without being proved again.
  On top of them the inductive invariant says where `due` functors are: reachable
  through the list from its first node on (`DueInv`), and where those of the loop's
  own bodies are (`OwnInv`, `LeftInv`). From it `DueAlwaysRuns` and
  `LeftoversAlwaysOfOthers`: when the list is found empty, only another
  thread's half-done Enqueue can hide what is left in it. Then of the thread:
  `ThreadRunsLoop`, every step of the composition is a step of `EventLoop` or leaves
  it alone, which carries over the two theorems above (`ThreadDueAlwaysRuns`,
  `ThreadLeftoversOfOthers`); types, `RunAlwaysReturnsLooping` and
  `LoopAlwaysExists`, with an invariant that ties the holders of the loop to the
  stages of thread and owner.
- `EpollProofs`: `EpollTypeCorrect`, `RegistrationsAlwaysAgree` and
  `EventsAlwaysFindTheirChannel`, for any channels and descriptors, from
  `EpollAssumption` only. `RegistrationsAgree` and `EventsFindTheirChannel` need
  each other and four more: the stages a channel can be in with its state
  (`StageInv`), that no two channels that exist share a descriptor
  (`OwnDescriptor`), that only watched descriptors have edges (`EdgesWatched`),
  and that no connection is removed while handlers run (`LoopInv`): it is
  removed by a functor, so what Select fetched stays valid for its iteration. The
  acceptor can go in a handler, and then `torn` says so: `EventsFindTheirChannel`
  names that case, and that nothing else is undefined.
- `MsgBufferProofs`: `BufferTypeCorrect`, `ReadableAlwaysSuffix`,
  `AlwaysLostByGrowth`, for vectors, arrays, reads and writes of any sizes. The
  invariant keeps head_ <= tail_ <= size (`Shape`) and that the readable bytes end
  the sequence of bytes written (`EndsWith`); a lemma per operation of the class.
  The theorem is about every public operation that changes the buffer.
- `TcpConnectionProofs`, for any messages, sizes and buffers, from
  `ConnectionAssumption` only, in two layers; in each, every operator on the record
  `Now` is shown to keep the invariant, and every action is a composition of them.
  The first (`Waits`) is about the record of the connection: a buffer is on the list
  while EPOLLOUT is enabled, nothing waits in it without EPOLLOUT unless the
  connection is closed, and the FIN comes after both. From it
  `WritingAlwaysHasBuffer` (HandleWrite finds a buffer), `BufferedAlwaysWatched` and
  `FinIsAlwaysLast`. The second (`Flow`) is about the bytes: what is on the wire, in
  the buffer and in functors, in this order, is what was sent, in the order of the
  calls, and a Send on the loop's thread that writes directly finds the buffer and
  the queue without data, because `send_count_` counts the functors that hold some.
  From it `StreamAlwaysIntact` and `ConnectionTypeCorrect`.
- `TcpServerProofs`: `ServerTypeCorrect`, `ActiveAlwaysAlive`, `ClosedAlwaysAwaited`,
  `UndefinedAlwaysInStop` and the refinement `ServerImplementsLife`, for any
  connections, any loops and a group of any size, calls nested to any depth, from
  `ServerAssumption` only. A lemma per operator on `Now` (ForceClose, HandleClose,
  ...) says what it does to one connection (`Good`, and for all of them `Sound`),
  and a lemma per action combines them. The invariant has two
  parts. `DataInv` says of each connection that its stage determines its state,
  its channel, whether it is in `connections_` (`Stand`, `Kept`), which functors
  about it are pending and which calls of the application have not returned
  (`Awaited`): Inform on its loop until it is up; once it is down, first its
  connection handler, then Remove on the base loop, then Destroy on its loop when it
  is forgotten, each once and one at a time, and none of them at another stage; no
  call and no write-complete functor before it is up. Without it a second
  Remove could be pending, and the connection would be destroyed twice. `Control`
  says where the loops, Stop and its loop over `connections_` are, and so when a
  loop can be destroyed, or the server gone, with functors to come; the cases
  left are those of `UndefinedOnlyInStop`. For the refinement, a step of a handler takes at most one
  connection one stage further (`Climb`); ConnectionDestroyed is its Destroy, ~TcpServer its Vanish, and
  every other step stutters.
- `AcceptorProofs`: `WaitingAreMissedHolds` and types. The count is inductive
  with one strengthening: a channel that is not added has no edge and no event.

- `HttpServerProofs`: `ServerTypeCorrect`, `AnswersAlwaysInOrder` and
  `AlwaysOnePerRead`, for any routes, files, registered handlers, streams of lines,
  divisions of them into reads and losses, from `HttpAssumption` only. The parser and the
  reference are both runs (`IsRun`): a state and a step per line, a line more being a
  step more (`RunAppend`). `Parsed` puts them side by side over the lines of one
  read: until the parser has a whole request, or a bad line, the reference is inside
  the same request with the same line and headers, and when it has, what it left
  unread is where the reference begins the next one. `PatternMatches` shows that the
  pattern `NormalizePath` makes of a route matches the paths that `Answers` says, and
  `AnswerIsAsked` that `Route`, with its first handler that matches, gives
  `RefAnswer`. The invariant `Stream` then says that what was received since the
  last loss is a part whose answers, by the reference, are those given, followed by
  the buffer (`Standing`): this, and not the answers alone, is inductive. A read
  finds it (`ReadBegins`), be it that nothing is lost, or that all is and the stream
  begins anew with an empty buffer and no answer. `Beginning` adds that
  handlers are registered before the start and that the context stored with the
  connection stays a new one, and `OnePerRead` is inductive with the three.

No induction theorem of the library can be used, since their parameter is an
operator. Induction over numbers and sequences is done with sets instead: the set
of those for which the statement holds contains the first and every successor, so
all (`Least`, from `WFMin`; `Induction`, `SequenceInduction`). Hence the properties
that a proof is about are written without folds and `SelectSeq`, of which the
prover has no definition.

Only model-checked: liveness, which is outside the prover, that is `QueuedIsRun`,
`StopEnds`, `RunEnds`, `DestructorEnds`, `EdgesAreHandled`, `AcceptedUnlessMissed`,
`ClosedIsDestroyed`, `StopReturns`, `PeerGoneIsClosed`, `FlushedWithEvents` and the
fairness part of `ImplementsFifo`. Every invariant and every action property of the
passing runs is proved.

## 7. Findings

1. **A growing MsgBuffer loses unread bytes** (run buffer_growth).
   `Write(MsgBuffer const&)` (utils/msg_buffer.cpp:24) copies but leaves `tail_`,
   and EnsureSize relies on it. test/msg_buffer_test.cpp:28 reads back what it
   wrote; it never makes the buffer grow.
2. **Request headers are never stored** (run http_headers): `HasCrlf`
   (net/http/http.hpp:96) reads on to the next NUL and meets the line's own CR LF;
   the version in the comment at line 95 stays inside the view. So
   `Connection: close` keeps the connection and HTTP/1.0 always closes it.

Disagreements seen while reading, each about one value and without a run:
a route registered without a slash in front, as README.md:62 registers `hello`,
answers `/hello`, but one registered as `/hello` gets a second slash in its pattern
(`EnsureHeadingSlash`, net/http/http.hpp:115, and `NormalizePath`);
test/msg_buffer_test.cpp:34 expects 121 writable bytes after a Compact that
leaves 128, and the server of README.md:36 leaves `web_api` at its default,
true (net/http/http_server.hpp:24), so that it answers 404 for the files that
README.md:23 says it serves (example/http_server.cpp passes false).

Other behaviour that a reader of the code may not expect, stated as the
exceptions of properties that hold: a connection that arrives together with
another can stay in the kernel's queue for ever (`WaitingAreMissed`); a reset
that comes with data is not noticed (`PeerGoneIsClosed`); buffered output can
wait for the peer's next event (`FlushedWithEvents`); Stop of a server without
a group walks a set that it changes; with a group it leaves closed
connections undestroyed on loops that are gone, or a functor on the base loop
that holds the server, which may be destroyed before it runs; so may the
write-complete functor of a connection that was closed right after its last
send, with or without a group; and Stop on the base loop resets the acceptor while
its event, its handler or a queued Listen is to come (`UndefinedOnlyInStop`,
`EventsFindTheirChannel`); a Stop by another thread between the reset of `quit_` in
Start (net/event_loop.cpp:60) and its first test ends the loop before it runs the
promise's functor, and leaves Run waiting
(net/event_loop_thread.cpp:38, `RunEnds`); a
request whose headers are split between reads is not answered as one, and
requests that wait in the read buffer are lost with a read that does not fit
(`AnswersInOrder`).

## 8. Assumptions worth knowing

- TcpServer::Stop is called by a thread that is no loop of the group (there it
  would join itself) and, from outside, while the base loop runs (otherwise it
  waits for ever), as in the examples' use of the class. It is called once. The two deadlocks this
  leaves out are on the list of hazards without a property.
- A server is not destroyed by a handler it has called, and threads of the
  application's own use no connection once Stop was called; what its code does in
  handlers and functors is not restricted. Without these there are more uses of
  what is gone than `UndefinedOnlyInStop` names.
- Handlers are registered and the group is set before Start, and Stop comes
  before ~TcpServer.
- A connection's handlers are called by its loop only, and its descriptor is
  closed by the last owner, after the channel was removed: `TcpServer` shows the
  order, `Epoll` starts from it.
- The kernel reports each edge once, merges edges, and accepts what fits.
- Application data passed to Send outlives the call when it is queued.

## 9. Not modelled

- InetAddr, Logger, LogStream, DateTime: no behaviour over time.
- Request bodies (the parser has none), header fields other than Connection,
  MIME types, regular expressions (a pattern is the set of paths it matches),
  the text of responses.
- The file system: a path names a file or none.
- Epoll::Add, Mod, Remove and Wait, EventLoopGroup::Stop and GetEventLoop: no
  caller in the repository. Failures of epoll_ctl other than a registration
  that is there or is not.
- Uses that the examples do not make: registering handlers after Start,
  destroying a server that was not stopped, destroying an EventLoop on a thread
  that is not its own.
- Functors that queue another for ever: they keep the loop out of Select. No code of
  the library does so alone, but a write-complete handler that sends again does
  (net/tcp_connection.cpp:85). Section 5 assumes it away, and `MaxRequests` bounds it.
- EventLoopThread::GetLoop reads `loop_` without the mutex under which Loop resets
  it: `OtherCalls` of `EventLoopThread` begin while the loop is up, so this race is
  not in the model.
- Memory orders weaker than sequential consistency. The queue's nodes are
  handed over by release/acquire or stronger, and each other flag is a single
  atomic variable.
