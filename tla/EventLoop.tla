------------------------------ MODULE EventLoop ------------------------------
(***************************************************************************)
(* src/net/event_loop.cpp: one thread runs Start, which waits for I/O,     *)
(* calls the handlers of the ready channels and then the functors other    *)
(* threads queued.  Callers are the other threads: they call QueueInLoop   *)
(* (also through RunInLoop) and Stop, at any time.                         *)
(*                                                                         *)
(* The functor queue is the one of ConcurrentQueue, step by step, because  *)
(* a functor that is exchanged in but not linked hides those behind it.    *)
(* A handler or functor body is any sequence of QueueInLoop and Stop calls *)
(* made on the loop thread.  The set of nodes bounds how many functors are *)
(* ever queued: a functor that queues itself for ever would keep the loop  *)
(* in InvokeRunInLoopFuncs.                                                *)
(***************************************************************************)
EXTENDS Naturals, Sequences, SequencesExt

CONSTANTS
  Callers,              (* threads other than the loop's            *)
  Loop,                 (* the thread whose id is thread_id_        *)
  Nodes, Dummy, Null    (* as in ConcurrentQueue                    *)

ASSUME LoopAssumption ==
  Loop \notin Callers /\ Dummy \in Nodes /\ Null \notin Nodes

VARIABLES
  head, tail, next, node, prev, loaded, order, output,  (* pending_func_queue_ *)
  running, quit,        (* running_ and quit_                       *)
  wake,                 (* wakeup_fd_ has an edge epoll will report *)
  pc,                   (* where the loop thread is in Start        *)
  call,                 (* where each caller is in QueueInLoop/Stop *)
  own,                  (* history: functors queued by bodies       *)
  due                   (* history: functors Select left reachable  *)

queueVars == <<head, tail, next, node, prev, loaded, order, output>>
flags == <<running, quit>>
vars == <<queueVars, flags, wake, pc, call, own, due>>

Threads == Callers \cup {Loop}

Q == INSTANCE ConcurrentQueue WITH Producers <- Threads

TypeOK ==
  /\ Q!TypeOK
  /\ running \in BOOLEAN /\ quit \in BOOLEAN /\ wake \in BOOLEAN
  /\ pc \in {"idle", "reset", "while", "select", "handle", "empty", "dequeue", "run",
             "leave", "left"}
  /\ call \in [Callers -> {"none", "link", "wake"}]
  /\ own \in SUBSET Nodes
  /\ due \in SUBSET Nodes

Init ==
  /\ Q!Init
  /\ running = FALSE /\ quit = FALSE /\ wake = FALSE
  /\ pc = "idle"
  /\ call = [c \in Callers |-> "none"]
  /\ own = {}
  /\ due = {}

-----------------------------------------------------------------------------
(* The eventfd takes writes of eight bytes and refuses shorter ones; WakeUp *)
(* writes sizeof(int).                                                      *)
EventfdSize == 8
WriteSize == 4

(* The edge after WakeUp. *)
Written == wake \/ WriteSize >= EventfdSize

(* A caller in QueueInLoop: exchange, link, WakeUp. *)
QueueInLoop(c) ==
  /\ call[c] = "none"
  /\ Q!Exchange(c)
  /\ call' = [call EXCEPT ![c] = "link"]
  /\ UNCHANGED <<flags, wake, pc, own, due>>

QueueInLoopLink(c) ==
  /\ call[c] = "link"
  /\ Q!Link(c)
  /\ call' = [call EXCEPT ![c] = "wake"]
  /\ UNCHANGED <<flags, wake, pc, own, due>>

(* A caller in Stop: store quit_, WakeUp. *)
Stop(c) ==
  /\ call[c] = "none"
  /\ quit' = TRUE
  /\ call' = [call EXCEPT ![c] = "wake"]
  /\ UNCHANGED <<queueVars, running, wake, pc, own, due>>

WakeUp(c) ==
  /\ call[c] = "wake"
  /\ wake' = Written
  /\ call' = [call EXCEPT ![c] = "none"]
  /\ UNCHANGED <<queueVars, flags, pc, own, due>>

-----------------------------------------------------------------------------
(* The body of a handler or functor, or the code before Start. *)
InBody == pc \in {"idle", "handle", "run"} /\ node[Loop] = Null

BodyQueues ==
  /\ InBody
  /\ Q!Exchange(Loop)
  /\ own' = IF pc = "idle" THEN own ELSE own \cup {head'}
  /\ UNCHANGED <<flags, wake, pc, call, due>>

(* QueueInLoop wakes its own loop only when it is not running. *)
BodyLinks ==
  /\ Q!Link(Loop)
  /\ wake' = IF running THEN wake ELSE Written
  /\ UNCHANGED <<flags, pc, call, own, due>>

BodyStops ==
  /\ InBody
  /\ quit' = TRUE
  /\ UNCHANGED <<queueVars, running, wake, pc, call, own, due>>

BodyReturns ==
  /\ InBody
  /\ \/ pc = "handle" /\ pc' = "empty"
     \/ pc = "run" /\ pc' = "dequeue"
  /\ UNCHANGED <<queueVars, flags, wake, call, own, due>>

-----------------------------------------------------------------------------
(* Start: running_ = true, then quit_ = false. *)
Start ==
  /\ InBody
  /\ pc = "idle"
  /\ running' = TRUE
  /\ pc' = "reset"
  /\ UNCHANGED <<queueVars, quit, wake, call, own, due>>

Reset ==
  /\ pc = "reset"
  /\ quit' = FALSE
  /\ pc' = "while"
  /\ UNCHANGED <<queueVars, running, wake, call, own, due>>

(* Mutant of While: running_ is what is tested. *)
WhileRunning ==
  /\ pc = "while"
  /\ pc' = IF running THEN "select" ELSE "leave"
  /\ UNCHANGED <<queueVars, flags, wake, call, own, due>>

While ==
  /\ pc = "while"
  /\ pc' = IF quit THEN "leave" ELSE "select"
  /\ UNCHANGED <<queueVars, flags, wake, call, own, due>>

(* The functors that a consumer who starts at the dummy reaches without        *)
(* waiting: every link up to them is stored.                                  *)
Reachable == {order[i + 1] : i \in {k \in 1 .. Len(order) - 1 :
                                     \A j \in 1 .. k : next[order[j]] # Null}}

(* Select: a channel is ready, or 500 ms pass. *)
SelectEvent ==
  /\ pc = "select"
  /\ wake' \in {wake, FALSE}
  /\ pc' = "handle"
  /\ due' = Reachable
  /\ UNCHANGED <<queueVars, flags, call, own>>

(* Mutant of SelectTimeout: epoll_wait is given no timeout. *)
SelectNoTimeout ==
  /\ pc = "select"
  /\ wake
  /\ pc' = "empty"
  /\ due' = Reachable
  /\ UNCHANGED <<queueVars, flags, wake, call, own>>

SelectTimeout ==
  /\ pc = "select"
  /\ pc' = "empty"
  /\ due' = Reachable
  /\ UNCHANGED <<queueVars, flags, wake, call, own>>

(* Mutant of TestEmpty: the functors are left when quit_ is set. *)
TestEmptyOrQuit ==
  /\ pc = "empty"
  /\ pc' = IF Q!Empty \/ quit THEN "while" ELSE "dequeue"
  /\ UNCHANGED <<queueVars, flags, wake, call, own, due>>

(* InvokeRunInLoopFuncs: the outer loop's test. *)
TestEmpty ==
  /\ pc = "empty"
  /\ pc' = IF Q!Empty THEN "while" ELSE "dequeue"
  /\ UNCHANGED <<queueVars, flags, wake, call, own, due>>

(* TryDequeue answers false and the inner loop ends. *)
DequeueNone ==
  /\ pc = "dequeue" /\ loaded = Null
  /\ Q!Empty
  /\ pc' = "empty"
  /\ UNCHANGED <<queueVars, flags, wake, call, own, due>>

DequeueLoad ==
  /\ pc = "dequeue"
  /\ Q!Load
  /\ UNCHANGED <<flags, wake, pc, call, own, due>>

(* TryDequeue answers true and the functor is called. *)
DequeueTake ==
  /\ pc = "dequeue"
  /\ Q!Take
  /\ pc' = "run"
  /\ UNCHANGED <<flags, wake, call, own, due>>

(* After the loop: running_ = false. *)
Leave ==
  /\ pc = "leave"
  /\ running' = FALSE
  /\ pc' = "left"
  /\ UNCHANGED <<queueVars, quit, wake, call, own, due>>

Body == BodyQueues \/ BodyLinks \/ BodyStops \/ BodyReturns

InvokeRunInLoopFuncs == TestEmpty \/ DequeueNone \/ DequeueLoad \/ DequeueTake

CallerStep(c) == QueueInLoop(c) \/ QueueInLoopLink(c) \/ Stop(c) \/ WakeUp(c)

(* What the loop thread does when no channel is ever ready. *)
LoopStep == Body \/ Reset \/ While \/ SelectTimeout \/ InvokeRunInLoopFuncs \/ Leave

Next == Start \/ SelectEvent \/ LoopStep \/ \E c \in Callers : CallerStep(c)

SafeSpec == Init /\ [][Next]_vars

-----------------------------------------------------------------------------
Ran(n) == Contains(output, n)

Started == pc \notin {"idle", "reset"}

(* A functor the loop could reach when Select returned has run when the      *)
(* iteration ends, also when quit_ was set meanwhile: Stop cuts no iteration *)
(* short.                                                                    *)
DueIsRun == pc \in {"while", "leave", "left"} => \A n \in due : Ran(n)

(* When Start has returned, functors can be left over, but the first of them *)
(* is never one that a handler or functor of this loop queued: such a        *)
(* functor is lost only behind another thread's.                             *)
LeftoversAreOfOthers ==
  pc \in {"leave", "left"} /\ node[Loop] = Null /\ Q!Pending # <<>> =>
    Head(Q!Pending) \notin own

(* A functor queued at any moment runs, unless Start returns.  The eventfd   *)
(* refuses WakeUp's write, so this rests on the timeout of Select.           *)
QueuedIsRun == \A n \in Nodes :
  (Contains(order, n) /\ n # Dummy /\ pc # "idle") ~> (Ran(n) \/ pc = "left")

(* Stop makes a started loop return.  (A Stop before Start has reset quit_   *)
(* is forgotten.)                                                            *)
StopEnds == (quit /\ Started) ~> (pc = "left" /\ ~running)
=============================================================================
