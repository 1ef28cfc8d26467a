--------------------------- MODULE EventLoopThread ---------------------------
(***************************************************************************)
(* src/net/event_loop_thread.cpp: a thread that makes an EventLoop, hands  *)
(* a reference to the owner, waits to be told to run, and runs the loop.   *)
(* The owner constructs the object, calls Run, perhaps Wait, and destroys  *)
(* it; the destructor stops the loop and joins the thread.                 *)
(*                                                                         *)
(* The three promises order the two threads; without the last of them the  *)
(* destructor's Stop could be undone by Start's quit_ = false.             *)
(*                                                                         *)
(* Callers other than the owner have the loop from GetLoop(), so they use  *)
(* it from the constructor to the destructor, also before Run and while    *)
(* the owner waits in it; handlers and functors may also stop the loop     *)
(* from inside.                                                            *)
(***************************************************************************)
EXTENDS EventLoop

CONSTANT Owner    (* the thread that owns the object *)

ASSUME OwnerAssumption == Owner \in Callers

VARIABLES
  thread,      (* where Loop() is; "in" while inside Start              *)
  owner,       (* where the owner is                                    *)
  closing,     (* the destructor has been entered                       *)
  joined,      (* thread_ is no longer joinable                         *)
  holders,     (* who holds a reference to the EventLoop                *)
  outside      (* history: someone but the destructor called Stop       *)

threadVars == <<thread, owner, closing, joined, holders, outside>>
allVars == <<vars, threadVars>>

ThreadTypeOK ==
  /\ TypeOK
  /\ thread \in {"make", "queue", "link", "publish", "wait", "in", "reset", "exit", "ended"}
  /\ owner \in {"make", "made", "wait", "up", "copied", "stopped", "join", "gone"}
  /\ closing \in BOOLEAN /\ joined \in BOOLEAN /\ outside \in BOOLEAN
  /\ holders \in SUBSET {"thread", "member", "copy"}

ThreadInit ==
  /\ Init
  /\ thread = "make" /\ owner = "make"
  /\ closing = FALSE /\ joined = FALSE /\ outside = FALSE
  /\ holders = {}

-----------------------------------------------------------------------------
(* Loop() up to Start: make the loop, queue the functor that fulfils          *)
(* promiseForLoop_, fulfil promiseForLoopPointer_, wait for promiseForRun_.   *)
MakeLoop ==
  /\ thread = "make"
  /\ thread' = "queue"
  /\ holders' = holders \cup {"thread"}
  /\ UNCHANGED <<vars, owner, closing, joined, outside>>

(* Mutant of QueuePromise: promiseForLoop_ is left to nobody. *)
QueueNoPromise ==
  /\ thread = "queue" /\ thread' = "publish"
  /\ UNCHANGED <<vars, owner, closing, joined, holders, outside>>

QueuePromise ==
  /\ \/ thread = "queue" /\ BodyQueues /\ thread' = "link"
     \/ thread = "link" /\ BodyLinks /\ thread' = "publish"
  /\ UNCHANGED <<owner, closing, joined, holders, outside>>

Publish ==
  /\ thread = "publish"
  /\ thread' = "wait"
  /\ UNCHANGED <<vars, owner, closing, joined, holders, outside>>

(* promiseForRun_ is fulfilled once the owner is past "made". *)
StartLoop ==
  /\ thread = "wait" /\ owner \notin {"make", "made"}
  /\ Start
  /\ thread' = "in"
  /\ UNCHANGED <<owner, closing, joined, holders, outside>>

(* The first functor is the promise's; its body does nothing else. *)
InPromise == pc = "run" /\ Len(output) = 1

(* promiseForLoop_ is fulfilled. *)
Looped == output # <<>> /\ ~InPromise

LoopRuns ==
  /\ thread = "in"
  /\ SelectEvent \/ LoopStep
  /\ InPromise => BodyReturns
  /\ outside' = (outside \/ (BodyStops /\ ~quit))
  /\ UNCHANGED <<thread, owner, closing, joined, holders>>

(* Start has returned: loop_.reset() under the mutex; the thread ends and its *)
(* thread_local reference goes.                                               *)
ResetMember ==
  /\ thread = "in" /\ pc = "left"
  /\ thread' = "exit"
  /\ holders' = holders \ {"member"}
  /\ UNCHANGED <<vars, owner, closing, joined, outside>>

ExitThread ==
  /\ thread = "exit"
  /\ thread' = "ended"
  /\ holders' = holders \ {"thread"}
  /\ UNCHANGED <<vars, owner, closing, joined, outside>>

-----------------------------------------------------------------------------
(* The constructor waits for promiseForLoopPointer_. *)
Construct ==
  /\ owner = "make" /\ thread = "wait"
  /\ owner' = "made"
  /\ holders' = holders \cup {"member"}
  /\ UNCHANGED <<vars, thread, closing, joined, outside>>

(* Run fulfils promiseForRun_ and waits for promiseForLoop_.  A second call   *)
(* does nothing, so the destructor's call matters only when it is the first.  *)
Run ==
  /\ owner = "made"
  /\ owner' = "wait"
  /\ UNCHANGED <<vars, thread, closing, joined, holders, outside>>

(* Mutant of RunReturns: nobody waits for the loop. *)
RunReturnsAtOnce ==
  /\ owner = "wait"
  /\ owner' = "up"
  /\ UNCHANGED <<vars, thread, closing, joined, holders, outside>>

RunReturns ==
  /\ owner = "wait" /\ Looped
  /\ owner' = "up"
  /\ UNCHANGED <<vars, thread, closing, joined, holders, outside>>

(* Wait joins; it does not stop the loop. *)
Wait ==
  /\ owner = "up" /\ ~closing /\ ~joined /\ thread = "ended"
  /\ joined' = TRUE
  /\ UNCHANGED <<vars, thread, owner, closing, holders, outside>>

(* The destructor is entered, before or after Run.  Other threads are done    *)
(* with the loop.                                                             *)
Destroy ==
  /\ owner \in {"made", "up"} /\ ~closing
  /\ \A c \in Callers : call[c] = "none"
  /\ closing' = TRUE
  /\ UNCHANGED <<vars, thread, owner, joined, holders, outside>>

(* Mutant of CopyLoop: the destructor keeps a plain pointer. *)
CopyPointer ==
  /\ closing /\ owner = "up"
  /\ owner' = IF "member" \in holders THEN "copied" ELSE "stopped"
  /\ UNCHANGED <<vars, thread, closing, joined, holders, outside>>

(* The destructor copies loop_ under the mutex, and calls Stop if it is set. *)
CopyLoop ==
  /\ closing /\ owner = "up"
  /\ IF "member" \in holders
     THEN owner' = "copied" /\ holders' = holders \cup {"copy"}
     ELSE owner' = "stopped" /\ UNCHANGED holders
  /\ UNCHANGED <<vars, thread, closing, joined, outside>>

StopLoop ==
  /\ owner = "copied" /\ Stop(Owner)
  /\ owner' = "stopped"
  /\ UNCHANGED <<thread, closing, joined, holders, outside>>

StopWakes ==
  /\ owner = "stopped" /\ WakeUp(Owner)
  /\ UNCHANGED threadVars

(* join() returns at the thread's end; then the local reference goes. *)
Join ==
  /\ owner = "stopped" /\ call[Owner] = "none"
  /\ joined \/ thread = "ended"
  /\ owner' = "gone" /\ joined' = TRUE
  /\ holders' = holders \ {"copy", "member"}
  /\ UNCHANGED <<vars, thread, closing, outside>>

(* Another thread begins a call while the object exists and GetLoop() answers. *)
OtherCalls(c) ==
  /\ owner \in {"made", "wait", "up"} /\ ~closing /\ "member" \in holders
  /\ QueueInLoop(c) \/ Stop(c)
  /\ outside' = (outside \/ quit' # quit)
  /\ UNCHANGED <<thread, owner, closing, joined, holders>>

OtherFinishes(c) ==
  /\ QueueInLoopLink(c) \/ WakeUp(c)
  /\ UNCHANGED threadVars

-----------------------------------------------------------------------------
ThreadStep == MakeLoop \/ QueuePromise \/ Publish \/ StartLoop \/ ResetMember \/ ExitThread

OwnerStep == Construct \/ RunReturns \/ CopyLoop \/ StopLoop \/ StopWakes \/ Join
             \/ (closing /\ Run)

ThreadNext ==
  \/ ThreadStep \/ LoopRuns
  \/ OwnerStep \/ Run \/ Wait \/ Destroy
  \/ \E c \in Callers \ {Owner} : OtherCalls(c) \/ OtherFinishes(c)

(* Both threads and those inside a call keep running; the owner need not call *)
(* anything, and events need not come.                                        *)
ThreadFairness ==
  /\ WF_allVars(ThreadStep) /\ WF_allVars(OwnerStep)
  /\ WF_allVars(LoopRuns /\ ~SelectEvent)
  /\ \A c \in Callers \ {Owner} : WF_allVars(OtherFinishes(c))

ThreadSafeSpec == ThreadInit /\ [][ThreadNext]_allVars

ThreadSpec == ThreadSafeSpec /\ ThreadFairness

-----------------------------------------------------------------------------
(* Run returns only when the loop is past the assignment that would undo a    *)
(* Stop ("Make sure the event loop loops before returning").                  *)
RunReturnsLooping == owner \notin {"make", "made", "wait"} => Started

(* The EventLoop exists while it runs and while the destructor stops it, even *)
(* if the thread ends in between; and during other threads' calls unless one  *)
(* of them, or a functor, has stopped the loop.                               *)
LoopExists ==
  holders = {} =>
    /\ thread \in {"make", "ended"}
    /\ owner # "copied" /\ call[Owner] = "none"
    /\ outside \/ \A c \in Callers : call[c] = "none"

(* Run returns, also when called by the destructor; only a Stop of another    *)
(* thread that comes between Start's quit_ = false and its first test of      *)
(* quit_ ends the loop with the promise's functor still in the queue, and     *)
(* leaves Run waiting for ever.                                               *)
RunEnds ==
  (owner = "wait") ~> (owner = "up" \/ (outside /\ pc = "left" /\ output = <<>>))

(* The destructor returns, whenever it is entered, with the loop destroyed. *)
DestructorEnds == closing ~> (owner = "gone" /\ holders = {})
=============================================================================
