------------------------- MODULE EventLoopThreadProofs -------------------------
(***************************************************************************)
(* Proofs about EventLoop and EventLoopThread, for any callers and any     *)
(* functors.  The loop and its callers use the queue as ConcurrentQueue    *)
(* says it may be used, so the invariant that is proved of the queue alone *)
(* holds of it in a loop.  The loop of a thread is an EventLoop that is    *)
(* started once, so what EventLoop promises holds of it too.               *)
(*                                                                         *)
(* That the loop exists as long as it is called takes an account of who    *)
(* can have stopped it (QuitInv): a Stop that nobody else called came from *)
(* the destructor, and then nobody else is in a call.                      *)
(***************************************************************************)
EXTENDS EventLoopThread, TLAPS

P == INSTANCE ConcurrentQueueProofs WITH Producers <- Threads

(* The queue's assumption, for the threads of a loop. *)
LEMMA QueueAssumed == P!QueueAssumption
BY LoopAssumption DEF P!QueueAssumption

(* Every step of the loop or a caller is a step of the queue or none. *)
LEMMA StepUsesQueue == [Next]_vars => [P!Next]_(P!vars)
<1>. SUFFICES ASSUME [Next]_vars PROVE P!Next \/ UNCHANGED queueVars
  BY DEF queueVars, P!vars
<1>1. ASSUME NEW t \in Threads, Q!Exchange(t) \/ Q!Link(t) PROVE P!Next
  BY <1>1 DEF P!Next, Q!Exchange, P!Exchange, Q!Link, P!Link
<1>2. CASE Q!Load \/ Q!Take
  BY <1>2 DEF P!Next, Q!Load, P!Load, Q!Take, P!Take, Q!Empty, P!Empty
<1>3. CASE UNCHANGED vars
  BY <1>3 DEF vars
<1>4. CASE Start \/ SelectEvent \/ LoopStep
  BY <1>1, <1>2, <1>4 DEF Start, SelectEvent, LoopStep, Body, BodyQueues, BodyLinks, BodyStops,
     BodyReturns, Reset, While, SelectTimeout, InvokeRunInLoopFuncs, TestEmpty, DequeueNone,
     DequeueLoad, DequeueTake, Leave, Threads
<1>5. ASSUME NEW c \in Callers, CallerStep(c) PROVE P!Next \/ UNCHANGED queueVars
  BY <1>1, <1>5 DEF CallerStep, QueueInLoop, QueueInLoopLink, Stop, WakeUp, Threads
<1>. QED BY <1>3, <1>4, <1>5 DEF Next

(* The loop's queue is a ConcurrentQueue. *)
THEOREM LoopUsesQueue == SafeSpec => P!SafeSpec
<1>1. Init => P!Init
  BY DEF Init, Q!Init, P!Init
<1>. QED BY <1>1, StepUsesQueue, PTL DEF SafeSpec, P!SafeSpec

THEOREM QueueInvariant == SafeSpec => []P!IInv
BY LoopUsesQueue, QueueAssumed, P!Inductive, PTL

-----------------------------------------------------------------------------
LoopTypes ==
  /\ running \in BOOLEAN /\ quit \in BOOLEAN /\ wake \in BOOLEAN
  /\ pc \in {"idle", "reset", "while", "select", "handle", "empty", "dequeue", "run",
             "leave", "left"}
  /\ call \in [Callers -> {"none", "link", "wake"}]
  /\ own \in SUBSET Nodes
  /\ due \in SUBSET Nodes

(* The loop is inside Enqueue only in a body. *)
BodyInv == node[Loop] # Null => pc \in {"idle", "handle", "run"}

(* Nothing is due or owned before the first iteration. *)
EarlyInv == pc \in {"idle", "reset"} => own = {} /\ due = {}

(* What is due stays reachable. *)
DueInv == \A n \in due : \E i \in 1 .. Len(order) - 1 :
  n = order[i + 1] /\ \A j \in 1 .. i : next[order[j]] # Null

(* What bodies queued is in the history, and its producer is the loop. *)
OwnInv ==
  /\ \A n \in own : \E i \in 1 .. Len(order) : n = order[i]
  /\ \A t \in Threads : node[t] \in own => t = Loop

(* Between iterations the first functor left over is another thread's. *)
LeftInv ==
  pc \in {"while", "leave", "left"} /\ Len(order) > Len(output) + 1 =>
    order[Len(output) + 2] \notin own

LoopInv == LoopTypes /\ BodyInv /\ EarlyInv /\ DueInv /\ OwnInv /\ LeftInv /\ DueIsRun

LEMMA InitLoopInv == Init => LoopInv
BY LoopAssumption DEF Init, Q!Init, LoopInv, LoopTypes, BodyInv, EarlyInv, DueInv, OwnInv, LeftInv, DueIsRun,
   Threads

(* What a step does to the history, the links and the output. *)
LEMMA QueueGrows ==
  ASSUME P!IInv, [Next]_vars
  PROVE  /\ order \in Seq(Nodes) /\ output \in Seq(Nodes)
         /\ Len(order) \in Nat /\ Len(output) \in Nat
         /\ \/ order' = order
            \/ \E n \in Nodes :
                 /\ order' = Append(order, n)
                 /\ \A i \in 1 .. Len(order) : order[i] # n
         /\ Len(order') \in Nat /\ Len(order') >= Len(order)
         /\ \A i \in 1 .. Len(order) : order'[i] = order[i] /\ order[i] \in Nodes
         /\ \A n \in Nodes : next[n] # Null => next'[n] # Null
         /\ \A n \in Nodes : Ran(n) => Ran(n)'
<1>1. /\ order \in Seq(Nodes) /\ output \in Seq(Nodes) /\ next \in [Nodes -> Nodes \cup {Null}]
      /\ loaded \in Nodes \cup {Null} /\ Null \notin Nodes
  BY LoopAssumption DEF P!IInv, P!TypeOK
<1>2. Len(order) \in Nat /\ Len(output) \in Nat /\ DOMAIN order = 1 .. Len(order)
  BY <1>1
<1>3. \A i \in 1 .. Len(order) : order[i] \in Nodes
  BY <1>1
<1>4. [P!Next]_(P!vars)
  BY StepUsesQueue
<1>5. ASSUME NEW t \in Threads, P!Exchange(t)
      PROVE  /\ \E n \in Nodes : /\ order' = Append(order, n)
                                 /\ \A i \in 1 .. Len(order) : order[i] # n
             /\ next' = next /\ output' = output
  BY <1>2, <1>5, Zenon DEF P!Exchange
<1>6. ASSUME NEW t \in Threads, P!Link(t)
      PROVE  /\ order' = order /\ output' = output
             /\ \A n \in Nodes : next[n] # Null => next'[n] # Null
  BY <1>1, <1>6 DEF P!Link
<1>7. ASSUME P!Take
      PROVE  /\ order' = order /\ next' = next
             /\ \A n \in Nodes : Ran(n) => Ran(n)'
  <2>1. output' = Append(output, loaded) /\ loaded \in Nodes /\ order' = order /\ next' = next
    BY <1>1, <1>7 DEF P!Take
  <2>2. Len(output') = Len(output) + 1 /\ \A i \in 1 .. Len(output) : output'[i] = output[i]
    BY <1>1, <2>1
  <2>. QED BY <1>2, <2>1, <2>2 DEF Ran, Contains
<1>8. CASE order' = order
  <2>1. \A n \in Nodes : next[n] # Null => next'[n] # Null
    BY <1>4, <1>5, <1>6, <1>7 DEF P!Next, P!Load, P!vars
  <2>2. \A n \in Nodes : Ran(n) => Ran(n)'
    BY <1>4, <1>5, <1>6, <1>7 DEF P!Next, P!Load, P!vars, Ran, Contains
  <2>. QED BY <1>1, <1>2, <1>3, <1>8, <2>1, <2>2
<1>9. CASE order' # order
  <2>1. PICK t \in Threads : P!Exchange(t)
    BY <1>4, <1>5, <1>6, <1>7, <1>9 DEF P!Next, P!Load, P!vars
  <2>2. PICK n \in Nodes : order' = Append(order, n) /\ \A i \in 1 .. Len(order) : order[i] # n
    BY <1>5, <2>1
  <2>3. Len(order') = Len(order) + 1 /\ \A i \in 1 .. Len(order) : order'[i] = order[i]
    BY <1>1, <2>2
  <2>4. next' = next /\ output' = output
    BY <1>5, <2>1
  <2>5. \A m \in Nodes : (Ran(m) => Ran(m)') /\ (next[m] # Null => next'[m] # Null)
    BY <2>4 DEF Ran, Contains
  <2>6. Len(order') \in Nat /\ Len(order') >= Len(order)
    BY <1>2, <2>3
  <2>7. \A i \in 1 .. Len(order) : order'[i] = order[i] /\ order[i] \in Nodes
    BY <1>3, <2>3
  <2>. QED BY <1>1, <1>2, <2>2, <2>5, <2>6, <2>7
<1>. QED BY <1>8, <1>9

(* What was due stays reachable, whatever is queued or linked. *)
LEMMA DueStays ==
  ASSUME P!IInv, [Next]_vars, DueInv, due' = due
  PROVE  DueInv'
<1>1. SUFFICES ASSUME NEW n \in due
               PROVE  \E i \in 1 .. Len(order') - 1 :
                        n = order'[i + 1] /\ \A j \in 1 .. i : next'[order'[j]] # Null
  BY DEF DueInv
<1>2. /\ Len(order) \in Nat /\ Len(order') \in Nat /\ Len(order') >= Len(order)
      /\ \A i \in 1 .. Len(order) : order'[i] = order[i] /\ order[i] \in Nodes
      /\ \A m \in Nodes : next[m] # Null => next'[m] # Null
  BY QueueGrows
<1>3. PICK i \in 1 .. Len(order) - 1 : n = order[i + 1] /\ \A j \in 1 .. i : next[order[j]] # Null
  BY DEF DueInv
<1>4. i \in 1 .. Len(order') - 1 /\ i + 1 \in 1 .. Len(order) /\ n = order'[i + 1]
  BY <1>2, <1>3
<1>5. ASSUME NEW j \in 1 .. i PROVE next'[order'[j]] # Null
  <2>1. j \in 1 .. Len(order) /\ next[order[j]] # Null
    BY <1>2, <1>3
  <2>. QED BY <1>2, <2>1
<1>. QED BY <1>4, <1>5

(* The bodies of handlers and functors: the exchange is at head_. *)
LEMMA ExchangeFacts ==
  ASSUME P!IInv, P!IInv', NEW t \in Threads, Q!Exchange(t)
  PROVE  /\ head' \in Nodes /\ node[t] = Null /\ node' = [node EXCEPT ![t] = head']
         /\ order' = Append(order, head') /\ next' = next /\ output' = output
         /\ Len(order') = Len(order) + 1 /\ order'[Len(order) + 1] = head'
         /\ \A i \in 1 .. Len(order) : order'[i] = order[i] /\ order[i] # head'
         /\ \A r \in Threads : node[r] # head'
<1>1. order \in Seq(Nodes) /\ DOMAIN order = 1 .. Len(order) /\ Len(order) \in Nat
  BY DEF P!IInv, P!TypeOK
<1>2. /\ node[t] = Null /\ node' = [node EXCEPT ![t] = head'] /\ head' \in Nodes
      /\ order' = Append(order, head') /\ next' = next /\ output' = output
      /\ \A i \in 1 .. Len(order) : order[i] # head'
  BY <1>1, Zenon DEF Q!Exchange
<1>3. Len(order') = Len(order) + 1 /\ order'[Len(order) + 1] = head'
      /\ \A i \in 1 .. Len(order) : order'[i] = order[i]
  BY <1>1, <1>2
<1>4. ASSUME NEW r \in Threads PROVE node[r] # head'
  <2>1. CASE node[r] = Null
    BY <1>2, <2>1, LoopAssumption
  <2>2. CASE node[r] # Null
    BY <1>1, <1>2, <2>2 DEF P!IInv, P!ProducerInv
  <2>. QED BY <2>1, <2>2
<1>. QED BY <1>2, <1>3, <1>4

LEMMA BodyQueuesLoopInv ==
  ASSUME P!IInv, P!IInv', LoopInv, [Next]_vars, BodyQueues
  PROVE  LoopInv'
<1>. USE DEF LoopInv
<1>1. /\ InBody /\ Q!Exchange(Loop) /\ Loop \in Threads
      /\ own' = (IF pc = "idle" THEN own ELSE own \cup {head'})
      /\ UNCHANGED <<flags, wake, pc, call, due>>
  BY DEF BodyQueues, Threads
<1>2. /\ head' \in Nodes /\ node' = [node EXCEPT ![Loop] = head']
      /\ order' = Append(order, head') /\ next' = next /\ output' = output
      /\ Len(order') = Len(order) + 1 /\ order'[Len(order) + 1] = head'
      /\ \A i \in 1 .. Len(order) : order'[i] = order[i] /\ order[i] # head'
      /\ \A r \in Threads : node[r] # head'
  BY <1>1, ExchangeFacts
<1>3. Len(order) \in Nat /\ node \in [Threads -> Nodes \cup {Null}]
  BY DEF P!IInv, P!TypeOK
<1>4. LoopTypes'
  BY <1>1, <1>2 DEF LoopTypes, flags
<1>5. BodyInv' /\ EarlyInv' /\ LeftInv'
  BY <1>1 DEF BodyInv, EarlyInv, LeftInv, InBody
<1>6. DueInv'
  BY <1>1, DueStays
<1>7. OwnInv'
  <2>1. \A n \in own' : \E i \in 1 .. Len(order') : n = order'[i]
    BY <1>1, <1>2, <1>3 DEF OwnInv
  <2>2. ASSUME NEW t \in Threads, node'[t] \in own', t # Loop PROVE FALSE
    BY <1>1, <1>2, <1>3, <2>2 DEF OwnInv
  <2>. QED BY <2>1, <2>2 DEF OwnInv
<1>8. DueIsRun'
  BY <1>1 DEF DueIsRun, InBody
<1>. QED BY <1>4, <1>5, <1>6, <1>7, <1>8

LEMMA CallerQueuesLoopInv ==
  ASSUME P!IInv, P!IInv', LoopInv, [Next]_vars, NEW c \in Callers, QueueInLoop(c)
  PROVE  LoopInv'
<1>. USE DEF LoopInv
<1>1. /\ Q!Exchange(c) /\ c \in Threads /\ c # Loop /\ Loop \in Threads
      /\ call' = [call EXCEPT ![c] = "link"]
      /\ UNCHANGED <<flags, wake, pc, own, due>>
  BY LoopAssumption DEF QueueInLoop, Threads
<1>2. /\ head' \in Nodes /\ node' = [node EXCEPT ![c] = head']
      /\ order' = Append(order, head') /\ next' = next /\ output' = output
      /\ Len(order') = Len(order) + 1 /\ order'[Len(order) + 1] = head'
      /\ \A i \in 1 .. Len(order) : order'[i] = order[i] /\ order[i] # head'
  BY <1>1, ExchangeFacts
<1>3. /\ Len(order) \in Nat /\ Len(output) \in Nat /\ node \in [Threads -> Nodes \cup {Null}]
      /\ Len(output) + 1 <= Len(order)
  BY DEF P!IInv, P!TypeOK, P!ConsumerInv
<1>4. head' \notin own
  BY <1>2 DEF OwnInv
<1>5. LoopTypes'
  BY <1>1 DEF LoopTypes, flags
<1>6. BodyInv' /\ EarlyInv' /\ DueIsRun'
  BY <1>1, <1>2, <1>3 DEF BodyInv, EarlyInv, DueIsRun, Ran, Contains
<1>7. DueInv'
  BY <1>1, DueStays
<1>8. OwnInv'
  <2>1. \A n \in own' : \E i \in 1 .. Len(order') : n = order'[i]
    BY <1>1, <1>2, <1>3 DEF OwnInv
  <2>2. ASSUME NEW t \in Threads, node'[t] \in own' PROVE t = Loop
    BY <1>1, <1>2, <1>3, <1>4, <2>2 DEF OwnInv
  <2>. QED BY <2>1, <2>2 DEF OwnInv
<1>9. LeftInv'
  <2>1. CASE Len(order) > Len(output) + 1
    BY <1>1, <1>2, <1>3, <2>1 DEF LeftInv
  <2>2. CASE Len(order) = Len(output) + 1
    BY <1>1, <1>2, <1>3, <1>4, <2>2 DEF LeftInv
  <2>. QED BY <1>3, <2>1, <2>2
<1>. QED BY <1>5, <1>6, <1>7, <1>8, <1>9

(* Link, of the loop or a caller. *)
LEMMA LinkLoopInv ==
  ASSUME P!IInv, P!IInv', LoopInv, [Next]_vars, NEW t \in Threads, Q!Link(t),
         LoopTypes', UNCHANGED <<pc, own, due>>
  PROVE  LoopInv'
<1>. USE DEF LoopInv
<1>1. /\ node' = [node EXCEPT ![t] = Null] /\ order' = order /\ output' = output
  BY DEF Q!Link
<1>2. node \in [Threads -> Nodes \cup {Null}] /\ Null \notin own /\ Loop \in Threads
  BY LoopAssumption DEF P!IInv, P!TypeOK, LoopTypes, Threads
<1>3. BodyInv' /\ EarlyInv' /\ DueIsRun' /\ LeftInv'
  BY <1>1, <1>2 DEF BodyInv, EarlyInv, DueIsRun, LeftInv, Ran, Contains
<1>4. DueInv'
  BY DueStays
<1>5. OwnInv'
  BY <1>1, <1>2 DEF OwnInv
<1>. QED BY <1>3, <1>4, <1>5

(* The loop takes functors out, in InvokeRunInLoopFuncs. *)
LEMMA DequeueLoopInv ==
  ASSUME P!IInv, LoopInv, DequeueLoad \/ DequeueTake
  PROVE  LoopInv'
<1>1. /\ pc = "dequeue" /\ pc' \in {"dequeue", "run"}
      /\ UNCHANGED <<order, next, node, flags, wake, call, own, due>>
  BY DEF DequeueLoad, DequeueTake, Q!Load, Q!Take
<1>. QED BY <1>1 DEF LoopInv, LoopTypes, BodyInv, EarlyInv, DueInv, OwnInv, LeftInv, DueIsRun, flags

(* Empty() is found true: what was due has run, and the functor that hides    *)
(* those behind it is of another thread.                                      *)
LEMMA EmptyLoopInv ==
  ASSUME P!IInv, LoopInv, TestEmpty
  PROVE  LoopInv'
<1>. USE DEF LoopInv
<1>1. /\ pc = "empty" /\ pc' = IF next[tail] = Null THEN "while" ELSE "dequeue"
      /\ UNCHANGED <<queueVars, flags, wake, call, own, due>>
  BY DEF TestEmpty, Q!Empty
<1>2. /\ Len(order) \in Nat /\ Len(output) \in Nat /\ Len(output) + 1 <= Len(order)
      /\ tail = order[Len(output) + 1]
      /\ \A k \in 1 .. Len(output) : output[k] = order[k + 1]
  BY DEF P!IInv, P!TypeOK, P!ConsumerInv
<1>3. ASSUME next[tail] = Null PROVE \A n \in due : Ran(n)
  <2>1. TAKE n \in due
  <2>2. PICK i \in 1 .. Len(order) - 1 : n = order[i + 1] /\ \A j \in 1 .. i : next[order[j]] # Null
    BY DEF DueInv
  <2>3. i <= Len(output)
    BY <1>2, <1>3, <2>2
  <2>. QED BY <1>2, <2>2, <2>3 DEF Ran, Contains
<1>4. ASSUME next[tail] = Null, Len(order) > Len(output) + 1
      PROVE  order[Len(output) + 2] \notin own
  <2>1. PICK t \in Threads : node[t] # Null /\ prev[t] = order[Len(output) + 1]
    BY <1>2, <1>4 DEF P!IInv, P!GapInv
  <2>2. node[t] = order[Len(output) + 2]
    BY <1>2, <1>4, <2>1 DEF P!IInv, P!ProducerInv, P!OrderInv
  <2>3. t # Loop
    BY <1>1, <2>1 DEF BodyInv
  <2>. QED BY <2>2, <2>3 DEF OwnInv
<1>5. LoopTypes' /\ BodyInv' /\ EarlyInv' /\ DueInv' /\ OwnInv'
  BY <1>1 DEF LoopTypes, BodyInv, EarlyInv, DueInv, OwnInv, queueVars, flags
<1>6. DueIsRun' /\ LeftInv'
  BY <1>1, <1>3, <1>4 DEF DueIsRun, LeftInv, Ran, Contains, queueVars
<1>. QED BY <1>5, <1>6

(* The steps that leave the queue alone. *)
LEMMA QuietLoopInv ==
  ASSUME P!IInv, LoopInv,
         \/ Start \/ SelectEvent \/ SelectTimeout \/ Reset \/ While \/ DequeueNone \/ Leave
         \/ BodyStops \/ BodyReturns \/ (\E c \in Callers : Stop(c) \/ WakeUp(c))
  PROVE  LoopInv'
<1>. USE DEF LoopInv
<1>1. UNCHANGED <<order, output, next, node>> /\ own' = own
  BY DEF Start, SelectEvent, SelectTimeout, Reset, While, DequeueNone, Leave, BodyStops, BodyReturns,
     Stop, WakeUp, queueVars, vars
<1>2. \/ due' = due
      \/ due' = Reachable /\ pc' \in {"handle", "empty"}
  BY DEF Start, SelectEvent, SelectTimeout, Reset, While, DequeueNone, Leave, BodyStops, BodyReturns,
     Stop, WakeUp
<1>3. Len(order) \in Nat /\ \A i \in 1 .. Len(order) : order[i] \in Nodes
  BY DEF P!IInv, P!TypeOK
<1>4. LoopTypes'
  <2>1. due' \in SUBSET Nodes
    BY <1>2, <1>3 DEF Reachable, LoopTypes
  <2>. QED BY <1>1, <2>1 DEF LoopTypes, Start, SelectEvent, SelectTimeout, Reset, While, DequeueNone,
     Leave, BodyStops, BodyReturns, Stop, WakeUp, Written, WriteSize, EventfdSize, flags
<1>5. BodyInv' /\ EarlyInv'
  BY <1>1 DEF BodyInv, EarlyInv, InBody, Start, SelectEvent, SelectTimeout, Reset, While, DequeueNone,
     Leave, BodyStops, BodyReturns, Stop, WakeUp
<1>6. DueInv'
  <2>1. CASE due' = due
    BY <1>1, <2>1 DEF DueInv
  <2>2. CASE due' = Reachable
    BY <1>1, <2>2 DEF DueInv, Reachable
  <2>. QED BY <1>2, <2>1, <2>2
<1>7. OwnInv'
  BY <1>1 DEF OwnInv
<1>8. \/ pc' \notin {"while", "leave", "left"}
      \/ pc = "reset" /\ due' = due
      \/ pc \in {"while", "leave", "left"} /\ due' = due
  BY DEF InBody, Start, SelectEvent, SelectTimeout, Reset, While, DequeueNone,
     Leave, BodyStops, BodyReturns, Stop, WakeUp
<1>9. LeftInv' /\ DueIsRun'
  BY <1>1, <1>8 DEF LeftInv, DueIsRun, EarlyInv, Ran, Contains
<1>. QED BY <1>4, <1>5, <1>6, <1>7, <1>9

LEMMA StepLoopInv ==
  ASSUME P!IInv, P!IInv', LoopInv, [Next]_vars
  PROVE  LoopInv'
<1>1. CASE UNCHANGED vars
  BY <1>1 DEF LoopInv, LoopTypes, BodyInv, EarlyInv, DueInv, OwnInv, LeftInv, DueIsRun, Ran, Contains,
     vars, queueVars, flags
<1>2. CASE BodyLinks
  <2>1. Q!Link(Loop) /\ Loop \in Threads /\ UNCHANGED <<pc, own, due>>
    BY <1>2 DEF BodyLinks, Threads
  <2>2. LoopTypes'
    BY <1>2 DEF BodyLinks, LoopInv, LoopTypes, Written, WriteSize, EventfdSize, flags
  <2>. QED BY <2>1, <2>2, LinkLoopInv
<1>3. ASSUME NEW c \in Callers, QueueInLoopLink(c) PROVE LoopInv'
  <2>1. Q!Link(c) /\ c \in Threads /\ UNCHANGED <<pc, own, due>>
    BY <1>3 DEF QueueInLoopLink, Threads
  <2>2. LoopTypes'
    BY <1>3 DEF QueueInLoopLink, LoopInv, LoopTypes, flags
  <2>. QED BY <2>1, <2>2, LinkLoopInv
<1>. QED BY <1>1, <1>2, <1>3, BodyQueuesLoopInv, CallerQueuesLoopInv, DequeueLoopInv, EmptyLoopInv,
     QuietLoopInv DEF Next, LoopStep, Body, InvokeRunInLoopFuncs, CallerStep

THEOREM LoopInvariant == SafeSpec => []LoopInv
BY InitLoopInv, StepLoopInv, QueueInvariant, PTL DEF SafeSpec

(* The state of a loop has its type. *)
THEOREM LoopTypeCorrect == SafeSpec => []TypeOK
<1>1. P!IInv /\ LoopInv => TypeOK
  BY DEF P!IInv, P!TypeOK, LoopInv, LoopTypes, TypeOK, Q!TypeOK
<1>. QED BY <1>1, QueueInvariant, LoopInvariant, PTL

(* Whatever callers and bodies do, and whenever Stop comes, an iteration runs *)
(* every functor that could be reached when Select returned.                  *)
THEOREM DueAlwaysRuns == SafeSpec => []DueIsRun
<1>1. LoopInv => DueIsRun
  BY DEF LoopInv
<1>. QED BY <1>1, LoopInvariant, PTL

(* The first functor a stopped loop leaves behind is never its own. *)
THEOREM LeftoversAlwaysOfOthers == SafeSpec => []LeftoversAreOfOthers
<1>1. P!IInv /\ LoopInv => LeftoversAreOfOthers
  <2>. SUFFICES ASSUME P!IInv, LoopInv, pc \in {"leave", "left"}, Q!Pending # <<>>
                PROVE  Head(Q!Pending) \notin own
    BY DEF LeftoversAreOfOthers
  <2>1. order \in Seq(Nodes) /\ Len(order) \in Nat /\ Len(output) \in Nat
    BY DEF P!IInv, P!TypeOK
  <2>2. Len(order) > Len(output) + 1 /\ Head(Q!Pending) = order[Len(output) + 2]
    BY <2>1 DEF Q!Pending
  <2>. QED BY <2>2 DEF LoopInv, LeftInv
<1>. QED BY <1>1, QueueInvariant, LoopInvariant, PTL

-----------------------------------------------------------------------------
(* From here on: EventLoopThread. *)

(* Each step of thread, owner and callers is a step of the loop or none. *)
LEMMA ThreadStepIsLoopStep == [ThreadNext]_allVars => [Next]_vars
<1>. SUFFICES ASSUME [ThreadNext]_allVars PROVE [Next]_vars
  OBVIOUS
<1>1. CASE ThreadStep
  BY <1>1 DEF ThreadStep, MakeLoop, QueuePromise, Publish, StartLoop, ResetMember, ExitThread,
     Next, LoopStep, Body
<1>2. CASE LoopRuns
  BY <1>2 DEF LoopRuns, Next
<1>3. CASE OwnerStep \/ Run \/ Wait \/ Destroy
  BY <1>3, OwnerAssumption DEF OwnerStep, Construct, Run, RunReturns, CopyLoop, StopLoop, StopWakes,
     Join, Wait, Destroy, Next, CallerStep
<1>4. ASSUME NEW c \in Callers, OtherCalls(c) \/ OtherFinishes(c) PROVE [Next]_vars
  BY <1>4 DEF OtherCalls, OtherFinishes, Next, CallerStep
<1>5. CASE UNCHANGED allVars
  BY <1>5 DEF allVars
<1>. QED BY <1>1, <1>2, <1>3, <1>4, <1>5 DEF ThreadNext

(* The loop an EventLoopThread runs behaves as EventLoop says. *)
THEOREM ThreadRunsLoop == ThreadSafeSpec => SafeSpec
BY ThreadStepIsLoopStep, PTL DEF ThreadSafeSpec, ThreadInit, SafeSpec

(* So the promises of EventLoop hold of it. *)
THEOREM ThreadDueAlwaysRuns == ThreadSpec => []DueIsRun
BY ThreadRunsLoop, DueAlwaysRuns, PTL DEF ThreadSpec

THEOREM ThreadLeftoversOfOthers == ThreadSpec => []LeftoversAreOfOthers
BY ThreadRunsLoop, LeftoversAlwaysOfOthers, PTL DEF ThreadSpec

-----------------------------------------------------------------------------
Early == {"idle", "reset"}

ThreadTypes ==
  /\ thread \in {"make", "queue", "link", "publish", "wait", "in", "reset", "exit", "ended"}
  /\ owner \in {"make", "made", "wait", "up", "copied", "stopped", "join", "gone"}
  /\ closing \in BOOLEAN /\ joined \in BOOLEAN /\ outside \in BOOLEAN
  /\ holders \in SUBSET {"thread", "member", "copy"}

(* Start is entered by the thread, once. *)
StartInv ==
  /\ thread \in {"in", "exit", "ended"} => pc # "idle"
  /\ thread \in {"exit", "ended"} => pc = "left"
  /\ thread \in {"make", "queue", "link", "publish"} => owner = "make"

(* A functor has run only past the assignment of quit_, and before Run returns. *)
OutputInv ==
  /\ output # <<>> => Started
  /\ owner \notin {"make", "made", "wait"} => output # <<>>

(* A loop is left because it was stopped, by someone else or in the destructor. *)
QuitInv ==
  /\ pc \in {"leave", "left"} => quit
  /\ quit /\ Started => outside \/ closing
  /\ owner \in {"copied", "stopped"} => closing

(* Who is inside a call, and who holds the loop then. *)
CallInv ==
  /\ owner = "make" \/ closing => \A c \in Callers \ {Owner} : call[c] = "none"
  /\ call[Owner] # "none" => owner = "stopped" /\ "copy" \in holders
  /\ owner = "copied" => "copy" \in holders
  /\ thread \notin {"make", "ended"} => "thread" \in holders

ThreadInv == ThreadTypes /\ StartInv /\ OutputInv /\ QuitInv /\ CallInv

LEMMA InitThreadInv == ThreadInit => ThreadInv
BY OwnerAssumption DEF ThreadInit, Init, Q!Init, ThreadInv, ThreadTypes, StartInv, OutputInv, QuitInv, CallInv, Started

(* How the loop's own state changes. *)
LEMMA LoopChanges ==
  ASSUME P!IInv, SelectEvent \/ LoopStep
  PROVE  /\ pc # "idle" => pc' # "idle"
         /\ pc = "idle" => pc' = "idle" /\ output' = output /\ quit' \in {quit, TRUE}
         /\ pc \notin Early => pc' \notin Early
         /\ output' # output => pc = "dequeue" /\ output' # <<>>
         /\ output # <<>> => output' # <<>>
         /\ pc' \in {"leave", "left"} => (pc = "while" /\ quit) \/ pc \in {"leave", "left"}
         /\ quit' = quit \/ BodyStops \/ (pc = "reset" /\ quit' = FALSE)
         /\ quit' = FALSE => quit = FALSE \/ pc = "reset"
         /\ pc \in {"leave", "left", "while"} => quit' = quit
         /\ call' = call
<1>1. output \in Seq(Nodes)
  BY DEF P!IInv, P!TypeOK
<1>2. CASE DequeueTake
  <2>1. /\ pc = "dequeue" /\ pc' = "run" /\ UNCHANGED <<flags, call>>
        /\ loaded # Null /\ output' = Append(output, loaded)
    BY <1>2 DEF DequeueTake, Q!Take
  <2>2. loaded \in Nodes
    BY <2>1 DEF P!IInv, P!TypeOK
  <2>3. output' # <<>>
    BY <1>1, <2>1, <2>2
  <2>. QED BY <2>1, <2>3 DEF Early, flags
<1>3. CASE SelectEvent \/ SelectTimeout \/ TestEmpty \/ DequeueNone \/ DequeueLoad \/ BodyReturns
           \/ While \/ Reset \/ Leave
  BY <1>3 DEF SelectEvent, SelectTimeout, TestEmpty, DequeueNone, DequeueLoad, BodyReturns, While,
     Reset, Leave, Q!Load, queueVars, flags, Early, InBody
<1>4. CASE BodyQueues \/ BodyLinks \/ BodyStops
  BY <1>4 DEF BodyQueues, BodyLinks, BodyStops, Q!Exchange, Q!Link, queueVars, flags, InBody, Early
<1>. QED BY <1>2, <1>3, <1>4 DEF LoopStep, Body, InvokeRunInLoopFuncs

LEMMA StepThreadInv ==
  ASSUME P!IInv, TypeOK, ThreadInv, [ThreadNext]_allVars
  PROVE  ThreadInv'
<1>. USE DEF ThreadInv, ThreadTypes, StartInv, OutputInv, QuitInv, CallInv
<1>. USE OwnerAssumption
<1>1. call \in [Callers -> {"none", "link", "wake"}] /\ quit \in BOOLEAN
  BY DEF TypeOK
<1>2. CASE LoopRuns
  <2>1. /\ SelectEvent \/ LoopStep
        /\ thread = "in" /\ UNCHANGED <<thread, owner, closing, joined, holders>>
        /\ outside' = (outside \/ (BodyStops /\ ~quit))
    BY <1>2 DEF LoopRuns
  <2>2. /\ pc' # "idle"
        /\ pc \notin Early => pc' \notin Early
        /\ output' # output => pc = "dequeue" /\ output' # <<>>
        /\ output # <<>> => output' # <<>>
        /\ pc' \in {"leave", "left"} => (pc = "while" /\ quit) \/ pc \in {"leave", "left"}
        /\ quit' = quit \/ BodyStops \/ (pc = "reset" /\ quit' = FALSE)
        /\ pc \in {"leave", "left", "while"} => quit' = quit
        /\ call' = call
    BY <2>1, LoopChanges
  <2>3. outside' \in BOOLEAN /\ (outside => outside') /\ (BodyStops /\ ~quit => outside')
    BY <2>1
  <2>4. pc = "idle" \/ pc = "reset" \/ pc' \notin Early
    BY <2>2 DEF Early
  <2>5. ASSUME quit', Started' PROVE outside' \/ closing'
    <3>1. CASE quit
      <4>1. CASE pc = "reset"
        BY <2>1, <4>1, <3>1, <2>5, <2>2, <2>3 DEF SelectEvent, LoopStep, Body, BodyQueues, BodyLinks, BodyStops,
           BodyReturns, Reset, While, SelectTimeout, InvokeRunInLoopFuncs, TestEmpty, DequeueNone,
           DequeueLoad, DequeueTake, Leave, Started, InBody, Q!Link
      <4>2. CASE pc # "reset"
        BY <2>1, <2>3, <3>1, <4>2 DEF Started
      <4>. QED BY <4>1, <4>2
    <3>2. CASE ~quit
      BY <1>1, <2>2, <2>3, <2>5, <3>2
    <3>. QED BY <3>1, <3>2
  <2>6. (output # <<>> => Started)' /\ (owner' \notin {"make", "made", "wait"} => output' # <<>>)
    BY <2>1, <2>2 DEF Started, Early
  <2>7. pc' \in {"leave", "left"} => quit'
    BY <2>2
  <2>. QED BY <2>1, <2>2, <2>3, <2>5, <2>6, <2>7
<1>3. CASE QueuePromise
  <2>1. /\ BodyQueues \/ BodyLinks
        /\ thread \in {"queue", "link"} /\ thread' \in {"link", "publish"}
        /\ UNCHANGED <<owner, closing, joined, holders, outside>>
    BY <1>3 DEF QueuePromise
  <2>2. UNCHANGED <<pc, output, quit, call>>
    BY <2>1 DEF BodyQueues, BodyLinks, Q!Exchange, Q!Link, flags
  <2>. QED BY <2>1, <2>2 DEF Started
<1>4. CASE StartLoop
  <2>1. /\ thread = "wait" /\ thread' = "in" /\ owner \notin {"make", "made"}
        /\ pc = "idle" /\ pc' = "reset" /\ UNCHANGED <<output, quit, call>>
        /\ UNCHANGED <<owner, closing, joined, holders, outside>>
    BY <1>4 DEF StartLoop, Start, queueVars
  <2>. QED BY <2>1 DEF Started
<1>5. CASE MakeLoop \/ Publish \/ ResetMember \/ ExitThread
  <2>1. UNCHANGED <<pc, output, quit, call, owner, closing, joined, outside>>
    BY <1>5 DEF MakeLoop, Publish, ResetMember, ExitThread, vars, queueVars, flags
  <2>2. \/ thread = "make" /\ thread' = "queue" /\ holders' = holders \cup {"thread"}
        \/ thread = "publish" /\ thread' = "wait" /\ holders' = holders
        \/ thread = "in" /\ pc = "left" /\ thread' = "exit" /\ holders' = holders \ {"member"}
        \/ thread = "exit" /\ thread' = "ended" /\ holders' = holders \ {"thread"}
    BY <1>5 DEF MakeLoop, Publish, ResetMember, ExitThread
  <2>3. /\ holders' \in SUBSET {"thread", "member", "copy"}
        /\ "copy" \in holders => "copy" \in holders'
        /\ thread' # "ended" => "thread" \in holders'
    BY <2>2
  <2>. QED BY <2>1, <2>2, <2>3 DEF Started
<1>6. CASE Construct \/ Run \/ RunReturns \/ Wait \/ Destroy \/ CopyLoop
  <2>1. UNCHANGED <<pc, output, quit, call, thread, outside>>
    BY <1>6 DEF Construct, Run, RunReturns, Wait, Destroy, CopyLoop, vars, queueVars, flags
  <2>2. CASE Construct \/ Run
    <3>1. /\ owner \in {"make", "made"} /\ owner' \in {"made", "wait"} /\ holders \subseteq holders'
          /\ holders' \in SUBSET {"thread", "member", "copy"}
          /\ thread = "wait" \/ owner # "make"
          /\ UNCHANGED <<closing, joined>>
      BY <2>2 DEF Construct, Run
    <3>. QED BY <2>1, <3>1 DEF Started
  <2>3. CASE RunReturns
    BY <2>1, <2>3 DEF RunReturns, Looped, Started
  <2>4. CASE Wait
    <3>1. joined' \in BOOLEAN /\ UNCHANGED <<owner, closing, holders>>
      BY <2>4 DEF Wait
    <3>. QED BY <2>1, <3>1 DEF Started
  <2>5. CASE Destroy
    <3>1. /\ closing' = TRUE /\ UNCHANGED <<owner, joined, holders>>
          /\ \A c \in Callers : call[c] = "none"
      BY <2>5 DEF Destroy
    <3>. QED BY <2>1, <3>1 DEF Started
  <2>6. CASE CopyLoop
    BY <2>1, <2>6 DEF CopyLoop, Started
  <2>. QED BY <1>6, <2>2, <2>3, <2>4, <2>5, <2>6
<1>7. CASE StopLoop
  <2>1. /\ owner = "copied" /\ owner' = "stopped" /\ quit' = TRUE
        /\ call' = [call EXCEPT ![Owner] = "wake"]
        /\ UNCHANGED <<pc, output, thread, closing, joined, holders, outside>>
    BY <1>7 DEF StopLoop, Stop, queueVars
  <2>. QED BY <1>1, <2>1 DEF Started
<1>8. CASE StopWakes
  <2>1. /\ owner = "stopped" /\ call' = [call EXCEPT ![Owner] = "none"]
        /\ UNCHANGED <<pc, output, quit, thread, owner, closing, joined, holders, outside>>
    BY <1>8 DEF StopWakes, WakeUp, queueVars, flags, threadVars
  <2>. QED BY <1>1, <2>1 DEF Started
<1>9. CASE Join
  BY <1>9 DEF Join, vars, queueVars, flags, Started
<1>10. ASSUME NEW c \in Callers \ {Owner}, OtherCalls(c) PROVE ThreadInv'
  <2>1. /\ owner \in {"made", "wait", "up"} /\ ~closing
        /\ quit' = quit \/ quit' = TRUE
        /\ outside' = (outside \/ quit' # quit)
        /\ \E s \in {"link", "wake"} : call' = [call EXCEPT ![c] = s]
        /\ UNCHANGED <<pc, output, thread, owner, closing, joined, holders>>
    BY <1>10 DEF OtherCalls, QueueInLoop, Stop, Q!Exchange, queueVars, flags
  <2>2. outside' \in BOOLEAN /\ (outside => outside') /\ (quit' => quit \/ outside')
    BY <1>1, <2>1
  <2>3. call'[Owner] = call[Owner] /\ owner # "make"
    BY <1>1, <2>1
  <2>4. pc \in {"leave", "left"} => quit'
    BY <1>1, <2>1
  <2>5. quit' /\ Started' => outside' \/ closing'
    BY <2>1, <2>2 DEF Started
  <2>. QED BY <2>1, <2>2, <2>3, <2>4, <2>5 DEF Started
<1>11. ASSUME NEW c \in Callers \ {Owner}, OtherFinishes(c) PROVE ThreadInv'
  <2>1. /\ call[c] # "none" /\ \E s \in {"none", "wake"} : call' = [call EXCEPT ![c] = s]
        /\ UNCHANGED <<pc, output, quit, thread, owner, closing, joined, holders, outside>>
    BY <1>11 DEF OtherFinishes, QueueInLoopLink, WakeUp, Q!Link, queueVars, flags, threadVars
  <2>. QED BY <1>1, <2>1 DEF Started
<1>12. CASE UNCHANGED allVars
  BY <1>12 DEF allVars, threadVars, vars, queueVars, flags, Started
<1>. QED BY <1>2, <1>3, <1>4, <1>5, <1>6, <1>7, <1>8, <1>9, <1>10, <1>11, <1>12
         DEF ThreadNext, ThreadStep, OwnerStep

THEOREM ThreadInvariant == ThreadSafeSpec => [](P!IInv /\ TypeOK /\ ThreadInv)
<1>1. ThreadSafeSpec => [](P!IInv /\ TypeOK)
  BY ThreadRunsLoop, QueueInvariant, LoopTypeCorrect, PTL
<1>. QED BY <1>1, InitThreadInv, StepThreadInv, PTL DEF ThreadSafeSpec

(* The state of thread and owner has its type. *)
THEOREM ThreadTypeCorrect == ThreadSpec => []ThreadTypeOK
<1>1. TypeOK /\ ThreadInv => ThreadTypeOK
  BY DEF ThreadInv, ThreadTypes, ThreadTypeOK
<1>. QED BY <1>1, ThreadInvariant, PTL DEF ThreadSpec

(* When Run has returned, no Stop is undone by Start. *)
THEOREM RunAlwaysReturnsLooping == ThreadSpec => []RunReturnsLooping
<1>1. ThreadInv => RunReturnsLooping
  BY DEF ThreadInv, OutputInv, RunReturnsLooping
<1>. QED BY <1>1, ThreadInvariant, PTL DEF ThreadSpec

(* No call is made on a loop that is gone, unless somebody else stopped it. *)
THEOREM LoopAlwaysExists == ThreadSpec => []LoopExists
<1>1. ThreadInv => LoopExists
  <2>. SUFFICES ASSUME ThreadInv, holders = {}
                PROVE  /\ thread \in {"make", "ended"}
                       /\ owner # "copied" /\ call[Owner] = "none"
                       /\ outside \/ \A c \in Callers : call[c] = "none"
    BY DEF LoopExists
  <2>1. thread \in {"make", "ended"} /\ owner # "copied" /\ call[Owner] = "none"
    BY DEF ThreadInv, CallInv
  <2>2. CASE thread = "make"
    BY <2>1, <2>2 DEF ThreadInv, StartInv, CallInv
  <2>3. CASE thread = "ended"
    <3>1. outside \/ closing
      BY <2>3 DEF ThreadInv, StartInv, QuitInv, Started
    <3>. QED BY <2>1, <3>1 DEF ThreadInv, CallInv
  <2>. QED BY <2>1, <2>2, <2>3
<1>. QED BY <1>1, ThreadInvariant, PTL DEF ThreadSpec
=============================================================================
