--------------------------- MODULE ConcurrentQueue ---------------------------
(***************************************************************************)
(* src/utils/concurrent_queue.hpp: the lock-free queue behind              *)
(* EventLoop::QueueInLoop.  Any number of threads enqueue, the loop thread *)
(* dequeues.  The list is singly linked; head_ is the newest node and      *)
(* tail_ the last node consumed, at first a node without data.             *)
(*                                                                         *)
(* Enqueue is two atomic operations, an exchange of head_ and a store into *)
(* the previous node's next, and between them every newer node is hidden   *)
(* from the consumer.  A node stands for the item it carries.              *)
(***************************************************************************)
EXTENDS Naturals, Sequences

CONSTANTS
  Producers,      (* threads that call Enqueue                      *)
  Nodes,          (* nodes that std::make_shared can return         *)
  Dummy,          (* the node the constructor makes                 *)
  Null            (* nullptr                                        *)

ASSUME QueueAssumption == Dummy \in Nodes /\ Null \notin Nodes

VARIABLES
  head, tail,     (* head_ and tail_                                *)
  next,           (* Node::next of every node                       *)
  node, prev,     (* locals of Enqueue, Null when not inside it     *)
  loaded,         (* local next of TryDequeue, Null when outside    *)
  order,          (* history: nodes in the order head_ held them    *)
  output          (* history: nodes whose data was moved to a caller *)

vars == <<head, tail, next, node, prev, loaded, order, output>>

TypeOK ==
  /\ head \in Nodes /\ tail \in Nodes
  /\ next \in [Nodes -> Nodes \cup {Null}]
  /\ node \in [Producers -> Nodes \cup {Null}]
  /\ prev \in [Producers -> Nodes \cup {Null}]
  /\ loaded \in Nodes \cup {Null}
  /\ order \in Seq(Nodes) /\ output \in Seq(Nodes)

Init ==
  /\ head = Dummy /\ tail = Dummy
  /\ next = [n \in Nodes |-> Null]
  /\ node = [p \in Producers |-> Null]
  /\ prev = [p \in Producers |-> Null]
  /\ loaded = Null
  /\ order = <<Dummy>> /\ output = <<>>

(* Mutant of Exchange: head_ is loaded instead of exchanged. *)
ExchangeLoadsHead(p) ==
  /\ node[p] = Null
  /\ \E n \in Nodes :
       /\ \A i \in DOMAIN order : order[i] # n
       /\ node' = [node EXCEPT ![p] = n]
       /\ prev' = [prev EXCEPT ![p] = head]
       /\ order' = Append(order, n)
  /\ UNCHANGED <<head, tail, next, loaded, output>>

(* Enqueue, first half: make the node and exchange it with head_. *)
Exchange(p) ==
  /\ node[p] = Null
  /\ \E n \in Nodes :
       /\ \A i \in DOMAIN order : order[i] # n
       /\ node' = [node EXCEPT ![p] = n]
       /\ prev' = [prev EXCEPT ![p] = head]
       /\ head' = n
       /\ order' = Append(order, n)
  /\ UNCHANGED <<tail, next, loaded, output>>

(* Mutant of Link: the nodes are swapped, node->next = prev_head. *)
LinkBackwards(p) ==
  /\ node[p] # Null
  /\ next' = [next EXCEPT ![node[p]] = prev[p]]
  /\ node' = [node EXCEPT ![p] = Null]
  /\ prev' = [prev EXCEPT ![p] = Null]
  /\ UNCHANGED <<head, tail, loaded, order, output>>

(* Enqueue, second half: prev_head->next = node. *)
Link(p) ==
  /\ node[p] # Null
  /\ next' = [next EXCEPT ![prev[p]] = node[p]]
  /\ node' = [node EXCEPT ![p] = Null]
  /\ prev' = [prev EXCEPT ![p] = Null]
  /\ UNCHANGED <<head, tail, loaded, order, output>>

(* What Empty() answers, and the case in which TryDequeue returns false. *)
Empty == next[tail] = Null

(* TryDequeue up to its test of next; when Empty it returns, changing nothing. *)
Load ==
  /\ loaded = Null
  /\ ~Empty
  /\ loaded' = next[tail]
  /\ UNCHANGED <<head, tail, next, node, prev, order, output>>

(* Mutants of Take: the result of the load is not tested; tail_ is not stored. *)
TakeUntested ==
  /\ output' = Append(output, loaded)
  /\ tail' = loaded
  /\ loaded' = Null
  /\ UNCHANGED <<head, next, node, prev, order>>

TakeKeepsTail ==
  /\ loaded # Null
  /\ output' = Append(output, loaded)
  /\ loaded' = Null
  /\ UNCHANGED <<head, tail, next, node, prev, order>>

(* The rest of TryDequeue: move the data out and store tail_. *)
Take ==
  /\ loaded # Null
  /\ output' = Append(output, loaded)
  /\ tail' = loaded
  /\ loaded' = Null
  /\ UNCHANGED <<head, next, node, prev, order>>

Next == (\E p \in Producers : Exchange(p) \/ Link(p)) \/ Load \/ Take

(* A thread inside Enqueue is scheduled again, and the consumer polls. *)
Fairness == (\A p \in Producers : WF_vars(Link(p))) /\ WF_vars(Load) /\ WF_vars(Take)

SafeSpec == Init /\ [][Next]_vars

Spec == SafeSpec /\ Fairness

-----------------------------------------------------------------------------
(* Items in the list that no caller of TryDequeue was given. *)
Pending == SubSeq(order, Len(output) + 2, Len(order))

(* Items come out in the order of the exchanges, each once and none invented, *)
(* although the consumer follows next pointers stored in any order.           *)
FifoOrder == output = SubSeq(order, 2, Len(output) + 1)

(* Empty() is true with items pending only while some thread is between its *)
(* two halves, at the very node the consumer waits at.  That thread has yet *)
(* to return from Enqueue, so its caller's WakeUp is still to come.         *)
EmptyOnlyMidEnqueue ==
  Empty /\ Pending # <<>> =>
    \E p \in Producers : node[p] # Null /\ prev[p] = tail

(* A next pointer is stored once: no two producers link from the same node,  *)
(* and the consumer can rely on what it loaded.                              *)
NextWrittenOnce == [][\A n \in Nodes : next[n] # Null => next'[n] = next[n]]_vars

(* The queue implements the abstract queue: the exchange is the Put. *)
Fifo == INSTANCE FifoQueue WITH Items <- Nodes, queue <- Pending, out <- output

ImplementsFifo == Fifo!Spec
=============================================================================
