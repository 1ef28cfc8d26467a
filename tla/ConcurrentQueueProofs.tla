------------------------ MODULE ConcurrentQueueProofs ------------------------
(***************************************************************************)
(* Proofs about ConcurrentQueue for any set of producers and any set of    *)
(* nodes.                                                                  *)
(***************************************************************************)
EXTENDS ConcurrentQueue, SequenceTheorems, TLAPS

(* The history holds distinct nodes, starts with the constructor's node and *)
(* ends with head_.                                                          *)
OrderInv ==
  /\ Len(order) >= 1
  /\ order[1] = Dummy
  /\ head = order[Len(order)]
  /\ \A i, j \in 1..Len(order) : order[i] = order[j] => i = j

(* A stored next pointer leads to the following node of the history. *)
NextInv ==
  /\ \A i \in 1..Len(order) :
       next[order[i]] # Null => i < Len(order) /\ next[order[i]] = order[i + 1]
  /\ \A n \in Nodes : (\A i \in 1..Len(order) : order[i] # n) => next[n] = Null

(* A producer between its halves stands at a gap in the list ...            *)
ProducerInv ==
  \A p \in Producers : node[p] # Null =>
    \E i \in 1..(Len(order) - 1) :
      prev[p] = order[i] /\ node[p] = order[i + 1] /\ next[order[i]] = Null

(* ... each gap has a producer, and no gap has two.                          *)
GapInv ==
  /\ \A i \in 1..(Len(order) - 1) :
       next[order[i]] = Null => \E p \in Producers : node[p] # Null /\ prev[p] = order[i]
  /\ \A p, q \in Producers :
       node[p] # Null /\ node[q] # Null /\ prev[p] = prev[q] => p = q

(* The consumer stands at the last node whose data it moved out. *)
ConsumerInv ==
  /\ Len(output) + 1 <= Len(order)
  /\ tail = order[Len(output) + 1]
  /\ \A k \in 1..Len(output) : output[k] = order[k + 1]
  /\ loaded # Null => loaded = next[tail]

IInv == TypeOK /\ OrderInv /\ NextInv /\ ProducerInv /\ GapInv /\ ConsumerInv

-----------------------------------------------------------------------------
LEMMA InitIInv == Init => IInv
BY QueueAssumption
DEF Init, IInv, TypeOK, OrderInv, NextInv, ProducerInv, GapInv, ConsumerInv

(* Only Exchange changes the history, and it appends a node new to it. *)
LEMMA ExchangeIInv ==
  ASSUME IInv, NEW p \in Producers, Exchange(p)
  PROVE  IInv'
<1>1. PICK n \in Nodes :
        /\ \A i \in 1..Len(order) : order[i] # n
        /\ node' = [node EXCEPT ![p] = n]
        /\ prev' = [prev EXCEPT ![p] = head]
        /\ head' = n
        /\ order' = Append(order, n)
  <2>1. DOMAIN order = 1..Len(order)
    BY LenProperties DEF IInv, TypeOK
  <2> QED  BY <2>1, Zenon DEF Exchange
<1>2. /\ node[p] = Null
      /\ UNCHANGED <<tail, next, loaded, output>>
  BY DEF Exchange
<1>3. /\ order' \in Seq(Nodes)
      /\ Len(order') = Len(order) + 1
      /\ order'[Len(order) + 1] = n
      /\ \A i \in 1..Len(order) : order'[i] = order[i]
      /\ Len(order) \in Nat
  BY <1>1, AppendProperties, LenProperties DEF IInv, TypeOK
<1>4. TypeOK'
  BY <1>1, <1>2, <1>3 DEF IInv, TypeOK
<1>5. OrderInv'
  BY <1>1, <1>3 DEF IInv, OrderInv
<1>6. NextInv'
  BY SMTT(30), <1>1, <1>2, <1>3 DEF IInv, NextInv
<1>7. next[order[Len(order)]] = Null
  BY <1>3 DEF IInv, NextInv, OrderInv
<1>8. ProducerInv'
  <2> SUFFICES ASSUME NEW q \in Producers, node'[q] # Null
               PROVE  \E i \in 1..(Len(order') - 1) :
                        /\ prev'[q] = order'[i]
                        /\ node'[q] = order'[i + 1]
                        /\ next'[order'[i]] = Null
    BY DEF ProducerInv
  <2>1. CASE q = p
    <3>1. prev'[q] = order[Len(order)] /\ node'[q] = n
      BY <1>1, <2>1 DEF IInv, TypeOK, OrderInv
    <3> QED  BY <3>1, <1>2, <1>3, <1>7 DEF IInv, OrderInv
  <2>2. CASE q # p
    <3>1. prev'[q] = prev[q] /\ node'[q] = node[q]
      BY <1>1, <2>2 DEF IInv, TypeOK
    <3> QED  BY <3>1, <1>2, <1>3 DEF IInv, ProducerInv
  <2> QED  BY <2>1, <2>2
<1>9. GapInv'
  <2>1. ASSUME NEW i \in 1..(Len(order') - 1), next'[order'[i]] = Null
        PROVE  \E q \in Producers : node'[q] # Null /\ prev'[q] = order'[i]
    <3>1. CASE i = Len(order)
      <4>1. node'[p] = n /\ prev'[p] = order'[i]
        BY <1>1, <1>3, <3>1 DEF IInv, TypeOK, OrderInv
      <4> QED  BY <4>1, QueueAssumption
    <3>2. CASE i # Len(order)
      <4>1. PICK q \in Producers : node[q] # Null /\ prev[q] = order[i]
        BY <1>2, <1>3, <2>1, <3>2 DEF IInv, GapInv
      <4>2. q # p
        BY <4>1, <1>2
      <4> QED  BY <4>1, <4>2, <1>1, <1>3, <2>1, <3>2 DEF IInv, TypeOK
    <3> QED  BY <3>1, <3>2
  <2>2. ASSUME NEW q \in Producers, NEW r \in Producers,
               node'[q] # Null, node'[r] # Null, prev'[q] = prev'[r]
        PROVE  q = r
    (* A producer that stood at a gap before cannot stand at head_. *)
    <3>1. ASSUME NEW s \in Producers, node[s] # Null
          PROVE  prev[s] # head
      BY <3>1, <1>3 DEF IInv, ProducerInv, OrderInv
    <3>2. \A s \in Producers : s # p => node'[s] = node[s] /\ prev'[s] = prev[s]
      BY <1>1 DEF IInv, TypeOK
    <3>3. prev'[p] = head
      BY <1>1 DEF IInv, TypeOK
    <3> QED  BY <2>2, <3>1, <3>2, <3>3 DEF IInv, GapInv
  <2> QED  BY <2>1, <2>2 DEF GapInv
<1>10. ConsumerInv'
  BY <1>2, <1>3, LenProperties DEF IInv, TypeOK, ConsumerInv
<1> QED  BY <1>4, <1>5, <1>6, <1>8, <1>9, <1>10 DEF IInv

(* Link closes one gap, the one its producer stands at. *)
LEMMA LinkIInv ==
  ASSUME IInv, NEW p \in Producers, Link(p)
  PROVE  IInv'
<1>1. /\ node[p] # Null
      /\ next' = [next EXCEPT ![prev[p]] = node[p]]
      /\ node' = [node EXCEPT ![p] = Null]
      /\ prev' = [prev EXCEPT ![p] = Null]
      /\ UNCHANGED <<head, tail, loaded, order, output>>
  BY DEF Link
<1>2. PICK k \in 1..(Len(order) - 1) :
        prev[p] = order[k] /\ node[p] = order[k + 1] /\ next[order[k]] = Null
  BY <1>1 DEF IInv, ProducerInv
<1>3. /\ Len(order) \in Nat
      /\ k \in 1..Len(order)
      /\ \A i \in 1..Len(order) : order[i] \in Nodes
      /\ k + 1 \in 1..Len(order)
  BY <1>2, LenProperties, ElementOfSeq DEF IInv, TypeOK
<1>4. \A i \in 1..Len(order) :
        next'[order[i]] = IF i = k THEN order[k + 1] ELSE next[order[i]]
  BY <1>1, <1>2, <1>3 DEF IInv, TypeOK, OrderInv
<1>5. TypeOK'
  BY <1>1, <1>2, <1>3 DEF IInv, TypeOK
<1>6. OrderInv'
  BY <1>1 DEF IInv, OrderInv
<1>7. NextInv'
  <2>1. \A n \in Nodes : (\A i \in 1..Len(order) : order[i] # n) => next'[n] = Null
    BY <1>1, <1>2, <1>3 DEF IInv, TypeOK, NextInv
  <2>2. \A i \in 1..Len(order) :
          next'[order[i]] # Null => i < Len(order) /\ next'[order[i]] = order[i + 1]
    BY <1>2, <1>3, <1>4 DEF IInv, NextInv
  <2> QED  BY <1>1, <2>1, <2>2 DEF NextInv
<1>8. \A q \in Producers : q # p => node'[q] = node[q] /\ prev'[q] = prev[q]
  BY <1>1 DEF IInv, TypeOK
<1>9. node'[p] = Null
  BY <1>1 DEF IInv, TypeOK
<1>10. ProducerInv'
  <2> SUFFICES ASSUME NEW q \in Producers, node'[q] # Null
               PROVE  \E i \in 1..(Len(order) - 1) :
                        /\ prev'[q] = order[i]
                        /\ node'[q] = order[i + 1]
                        /\ next'[order[i]] = Null
    BY <1>1 DEF ProducerInv
  <2>1. q # p /\ node[q] # Null
    BY <1>8, <1>9
  <2>2. PICK i \in 1..(Len(order) - 1) :
          prev[q] = order[i] /\ node[q] = order[i + 1] /\ next[order[i]] = Null
    BY <2>1 DEF IInv, ProducerInv
  <2>3. i # k
    BY <2>1, <2>2, <1>1, <1>2 DEF IInv, GapInv
  <2> QED  BY <2>1, <2>2, <2>3, <1>3, <1>4, <1>8
<1>11. GapInv'
  <2>1. ASSUME NEW i \in 1..(Len(order) - 1), next'[order[i]] = Null
        PROVE  \E q \in Producers : node'[q] # Null /\ prev'[q] = order[i]
    <3>1. i \in 1..Len(order) /\ i # k /\ next[order[i]] = Null
      BY <1>3, <1>4, <2>1, QueueAssumption
    <3>2. PICK q \in Producers : node[q] # Null /\ prev[q] = order[i]
      BY <3>1 DEF IInv, GapInv
    <3>3. q # p
      BY <3>1, <3>2, <1>2, <1>3 DEF IInv, OrderInv
    <3> QED  BY <3>2, <3>3, <1>8
  <2>2. ASSUME NEW q \in Producers, NEW r \in Producers,
               node'[q] # Null, node'[r] # Null, prev'[q] = prev'[r]
        PROVE  q = r
    BY <2>2, <1>8, <1>9 DEF IInv, GapInv
  <2> QED  BY <1>1, <2>1, <2>2 DEF GapInv
<1>12. ConsumerInv'
  <2>1. loaded # Null => next'[tail] = next[tail]
    <3> SUFFICES ASSUME loaded # Null PROVE next'[tail] = next[tail]
      OBVIOUS
    <3>1. next[tail] # Null
      BY DEF IInv, ConsumerInv
    <3>2. tail # prev[p]
      BY <3>1, <1>2
    <3> QED  BY <3>2, <1>1 DEF IInv, TypeOK
  <2> QED  BY <2>1, <1>1 DEF IInv, ConsumerInv
<1> QED  BY <1>5, <1>6, <1>7, <1>10, <1>11, <1>12 DEF IInv

LEMMA LoadIInv ==
  ASSUME IInv, Load
  PROVE  IInv'
BY DEF Load, Empty, IInv, TypeOK, OrderInv, NextInv, ProducerInv, GapInv, ConsumerInv

(* Take moves the consumer one place along the history. *)
LEMMA TakeIInv ==
  ASSUME IInv, Take
  PROVE  IInv'
<1>1. /\ loaded # Null
      /\ output' = Append(output, loaded)
      /\ tail' = loaded
      /\ loaded' = Null
      /\ UNCHANGED <<head, next, node, prev, order>>
  BY DEF Take
<1>2. Len(output) \in Nat /\ Len(order) \in Nat
  BY LenProperties DEF IInv, TypeOK
<1>3. /\ Len(output) + 1 < Len(order)
      /\ loaded = order[Len(output) + 2]
  BY <1>1, <1>2 DEF IInv, ConsumerInv, NextInv
<1>4. /\ output' \in Seq(Nodes)
      /\ Len(output') = Len(output) + 1
      /\ output'[Len(output) + 1] = loaded
      /\ \A i \in 1..Len(output) : output'[i] = output[i]
  BY <1>1, AppendProperties DEF IInv, TypeOK
<1>5. TypeOK'
  BY <1>1, <1>4 DEF IInv, TypeOK
<1>6. ConsumerInv'
  BY <1>1, <1>2, <1>3, <1>4 DEF IInv, ConsumerInv
<1>7. OrderInv' /\ NextInv' /\ ProducerInv' /\ GapInv'
  BY <1>1 DEF IInv, OrderInv, NextInv, ProducerInv, GapInv
<1> QED  BY <1>5, <1>6, <1>7 DEF IInv

(* The inductive invariant holds throughout. *)
THEOREM Inductive == SafeSpec => []IInv
<1>1. IInv /\ [Next]_vars => IInv'
  <2> SUFFICES ASSUME IInv, [Next]_vars PROVE IInv'
    OBVIOUS
  <2>1. CASE \E p \in Producers : Exchange(p)
    BY <2>1, ExchangeIInv
  <2>2. CASE \E p \in Producers : Link(p)
    BY <2>2, LinkIInv
  <2>3. CASE Load
    BY <2>3, LoadIInv
  <2>4. CASE Take
    BY <2>4, TakeIInv
  <2>5. CASE UNCHANGED vars
    BY <2>5 DEF vars, IInv, TypeOK, OrderInv, NextInv, ProducerInv, GapInv, ConsumerInv
  <2> QED  BY <2>1, <2>2, <2>3, <2>4, <2>5 DEF Next
<1> QED  BY InitIInv, <1>1, PTL DEF SafeSpec

-----------------------------------------------------------------------------
(* Every variable keeps its type. *)
THEOREM TypeCorrect == SafeSpec => []TypeOK
BY Inductive, PTL DEF IInv

(* Items leave the queue in the order of the exchanges on head_. *)
THEOREM FifoOrderHolds == SafeSpec => []FifoOrder
<1>1. IInv => FifoOrder
  <2> SUFFICES ASSUME IInv PROVE FifoOrder
    OBVIOUS
  <2>1. /\ Len(output) \in Nat
        /\ Len(order) \in Nat
        /\ Len(output) + 1 <= Len(order)
    BY LenProperties DEF IInv, TypeOK, ConsumerInv
  <2> DEFINE sub == SubSeq(order, 2, Len(output) + 1)
  <2>2. /\ sub \in Seq(Nodes)
        /\ Len(sub) = Len(output)
        /\ \A i \in 1..Len(output) : sub[i] = order[i + 1]
    BY <2>1, SubSeqProperties DEF IInv, TypeOK
  <2>3. output \in Seq(Nodes) /\ \A i \in 1..Len(output) : output[i] = order[i + 1]
    BY DEF IInv, TypeOK, ConsumerInv
  <2>4. output = sub
    BY <2>2, <2>3, SeqEqual
  <2> QED  BY <2>4 DEF FifoOrder
<1> QED  BY <1>1, Inductive, PTL

(* The consumer finds the queue empty with items pending only while some   *)
(* thread has exchanged head_ and not yet linked, at the consumer's node.  *)
THEOREM EmptyOnlyMidEnqueueHolds == SafeSpec => []EmptyOnlyMidEnqueue
<1>1. IInv => EmptyOnlyMidEnqueue
  <2> SUFFICES ASSUME IInv, Empty, Pending # <<>>
               PROVE  \E p \in Producers : node[p] # Null /\ prev[p] = tail
    BY DEF EmptyOnlyMidEnqueue
  <2>1. Len(output) \in Nat /\ Len(order) \in Nat
    BY LenProperties DEF IInv, TypeOK
  <2>2. Len(output) + 2 <= Len(order)
    BY <2>1, SubSeqEmpty DEF Pending, IInv, TypeOK
  <2>3. next[order[Len(output) + 1]] = Null
    BY DEF Empty, IInv, ConsumerInv
  <2>4. Len(output) + 1 \in 1..(Len(order) - 1)
    BY <2>1, <2>2
  <2>5. \E p \in Producers : node[p] # Null /\ prev[p] = order[Len(output) + 1]
    BY <2>3, <2>4 DEF IInv, GapInv
  <2> QED  BY <2>5 DEF IInv, ConsumerInv
<1> QED  BY <1>1, Inductive, PTL

(* A next pointer, once stored, is never stored again. *)
THEOREM NextWrittenOnceHolds == SafeSpec => NextWrittenOnce
<1>1. IInv /\ [Next]_vars => [\A n \in Nodes : next[n] # Null => next'[n] = next[n]]_vars
  <2> SUFFICES ASSUME IInv, Next, NEW n \in Nodes, next[n] # Null
               PROVE  next'[n] = next[n]
    OBVIOUS
  <2>1. ASSUME NEW p \in Producers, Link(p)
        PROVE  next'[n] = next[n]
    <3>1. node[p] # Null /\ next' = [next EXCEPT ![prev[p]] = node[p]]
      BY <2>1 DEF Link
    <3>2. next[prev[p]] = Null
      BY <3>1 DEF IInv, ProducerInv
    <3> QED  BY <3>1, <3>2 DEF IInv, TypeOK
  <2>2. (\E p \in Producers : Exchange(p)) \/ Load \/ Take => next' = next
    BY DEF Exchange, Load, Take
  <2> QED  BY <2>1, <2>2 DEF Next
<1> QED  BY <1>1, Inductive, PTL DEF SafeSpec, NextWrittenOnce

-----------------------------------------------------------------------------
(* The rest of a sequence behind its first n + 1 elements. *)
LEMMA RestProperties ==
  ASSUME NEW S, NEW s \in Seq(S), NEW n \in Nat, n + 1 <= Len(s)
  PROVE  /\ SubSeq(s, n + 2, Len(s)) \in Seq(S)
         /\ Len(SubSeq(s, n + 2, Len(s))) = Len(s) - n - 1
         /\ \A i \in 1..(Len(s) - n - 1) : SubSeq(s, n + 2, Len(s))[i] = s[n + 1 + i]
<1>1. Len(s) \in Nat
  BY LenProperties
<1>2. \A i \in (n + 2)..Len(s) : s[i] \in S
  BY <1>1, ElementOfSeq
<1> DEFINE rest == SubSeq(s, n + 2, Len(s))
<1>3. /\ rest \in Seq(S)
      /\ Len(rest) = IF n + 2 <= Len(s) THEN Len(s) - (n + 2) + 1 ELSE 0
      /\ \A i \in 1..(Len(s) - (n + 2) + 1) : rest[i] = s[(n + 2) + i - 1]
  BY <1>1, <1>2, SubSeqProperties
<1> HIDE DEF rest
<1>4. Len(rest) = Len(s) - n - 1
  BY <1>1, <1>3
<1>5. \A i \in 1..(Len(s) - n - 1) : rest[i] = s[n + 1 + i]
  <2> SUFFICES ASSUME NEW i \in 1..(Len(s) - n - 1) PROVE rest[i] = s[n + 1 + i]
    OBVIOUS
  <2>1. i \in 1..(Len(s) - (n + 2) + 1) /\ (n + 2) + i - 1 = n + 1 + i
    BY <1>1
  <2> QED  BY <2>1, <1>3
<1> QED  BY <1>3, <1>4, <1>5 DEF rest

(* The refinement mapping, element by element. *)
PendingInv ==
  /\ Len(output) \in Nat /\ Len(order) \in Nat /\ Len(output) + 1 <= Len(order)
  /\ Pending \in Seq(Nodes)
  /\ Len(Pending) = Len(order) - Len(output) - 1
  /\ \A i \in 1..(Len(order) - Len(output) - 1) : Pending[i] = order[Len(output) + 1 + i]

LEMMA PendingProperties ==
  /\ IInv => PendingInv
  /\ IInv' => PendingInv'
<1>1. ASSUME IInv PROVE PendingInv
  <2>1. /\ order \in Seq(Nodes)
        /\ Len(output) \in Nat /\ Len(order) \in Nat /\ Len(output) + 1 <= Len(order)
    BY <1>1, LenProperties DEF IInv, TypeOK, ConsumerInv
  <2> QED  BY <2>1, RestProperties DEF PendingInv, Pending
<1>2. ASSUME IInv' PROVE PendingInv'
  <2>1. /\ order' \in Seq(Nodes)
        /\ Len(output') \in Nat /\ Len(order') \in Nat /\ Len(output') + 1 <= Len(order')
    BY <1>2, LenProperties DEF IInv, TypeOK, ConsumerInv
  <2> QED  BY <2>1, RestProperties DEF PendingInv, Pending
<1> QED  BY <1>1, <1>2

(* The exchange puts its node, which the abstract queue has not seen. *)
LEMMA ExchangePuts ==
  ASSUME IInv, IInv', NEW p \in Producers, Exchange(p)
  PROVE  Fifo!Put
<1>0. PendingInv /\ PendingInv'
  BY PendingProperties
<1>1. PICK n \in Nodes :
        /\ \A i \in 1..Len(order) : order[i] # n
        /\ order' = Append(order, n)
  <2>1. DOMAIN order = 1..Len(order)
    BY LenProperties DEF IInv, TypeOK
  <2> QED  BY <2>1, Zenon DEF Exchange
<1>2. output' = output
  BY DEF Exchange
<1>3. /\ Len(order') = Len(order) + 1
      /\ order'[Len(order) + 1] = n
      /\ \A i \in 1..Len(order) : order'[i] = order[i]
  BY <1>1, AppendProperties DEF IInv, TypeOK
<1>4. Len(Pending') = Len(Pending) + 1 /\ Pending' \in Seq(Nodes)
  BY <1>2, <1>3, <1>0 DEF PendingInv
<1>5. /\ Append(Pending, n) \in Seq(Nodes)
      /\ Len(Append(Pending, n)) = Len(Pending) + 1
      /\ \A i \in 1..Len(Pending) : Append(Pending, n)[i] = Pending[i]
      /\ Append(Pending, n)[Len(Pending) + 1] = n
  BY <1>0, AppendProperties DEF PendingInv
<1>6. \A i \in 1..Len(Pending') : Pending'[i] = Append(Pending, n)[i]
  <2> SUFFICES ASSUME NEW i \in 1..Len(Pending') PROVE Pending'[i] = Append(Pending, n)[i]
    OBVIOUS
  <2>1. Pending'[i] = order'[Len(output) + 1 + i]
    BY <1>0, <1>2 DEF PendingInv
  <2>2. CASE i = Len(Pending) + 1
    <3>1. Len(output) + 1 + i = Len(order) + 1
      BY <2>2, <1>0 DEF PendingInv
    <3> QED  BY <2>1, <2>2, <3>1, <1>3, <1>5
  <2>3. CASE i # Len(Pending) + 1
    <3>1. /\ i \in 1..Len(Pending)
          /\ Len(output) + 1 + i \in 1..Len(order)
      <4>1. Len(Pending) = Len(order) - Len(output) - 1
        BY <1>0 DEF PendingInv
      <4>2. Len(order) \in Nat /\ Len(output) \in Nat
        BY <1>0 DEF PendingInv
      <4>3. Len(Pending) \in Nat
        BY <1>0, LenProperties DEF PendingInv
      <4> QED  BY <2>3, <1>4, <4>1, <4>2, <4>3
    <3>2. Pending[i] = order[Len(output) + 1 + i]
      BY <3>1, <1>0 DEF PendingInv
    <3> QED  BY <2>1, <3>1, <3>2, <1>3, <1>5
  <2> QED  BY <2>2, <2>3
<1>7. Pending' = Append(Pending, n)
  BY <1>4, <1>5, <1>6, SeqEqual
<1>8. Fifo!Fresh(n)
  <2>1. \A k \in DOMAIN Pending : Pending[k] # n
    BY <1>1, <1>0, LenProperties DEF PendingInv
  <2>2. \A k \in DOMAIN output : output[k] # n
    <3>1. DOMAIN output = 1..Len(output)
      BY LenProperties DEF IInv, TypeOK
    <3>2. ASSUME NEW k \in 1..Len(output) PROVE output[k] # n
      <4>1. output[k] = order[k + 1] /\ k + 1 \in 1..Len(order)
        BY <1>0 DEF PendingInv, IInv, ConsumerInv
      <4> QED  BY <4>1, <1>1
    <3> QED  BY <3>1, <3>2
  <2> QED  BY <2>1, <2>2 DEF Fifo!Fresh
<1> QED  BY <1>2, <1>7, <1>8 DEF Fifo!Put

(* The consumer gets the oldest item that is pending. *)
LEMMA TakeGets ==
  ASSUME IInv, IInv', Take
  PROVE  Fifo!Get
<1>0. PendingInv /\ PendingInv'
  BY PendingProperties
<1>1. /\ loaded # Null
      /\ output' = Append(output, loaded)
      /\ order' = order
  BY DEF Take
<1>2. /\ Len(output) + 1 < Len(order)
      /\ loaded = order[Len(output) + 2]
      /\ Len(output') = Len(output) + 1
  BY <1>1, <1>0, AppendProperties DEF PendingInv, IInv, TypeOK, ConsumerInv, NextInv
<1>3. Pending # <<>> /\ Pending \in Seq(Nodes)
  BY <1>2, <1>0, EmptySeq DEF PendingInv
<1>4. Head(Pending) = loaded
  BY <1>2, <1>3, <1>0 DEF PendingInv
<1>5. /\ Pending' \in Seq(Nodes) /\ Tail(Pending) \in Seq(Nodes)
      /\ Len(Pending') = Len(Tail(Pending))
  BY <1>1, <1>2, <1>3, <1>0, HeadTailProperties DEF PendingInv
<1>6. \A i \in 1..Len(Pending') : Pending'[i] = Tail(Pending)[i]
  <2> SUFFICES ASSUME NEW i \in 1..Len(Pending') PROVE Pending'[i] = Tail(Pending)[i]
    OBVIOUS
  <2>1. Pending'[i] = order[Len(output) + 2 + i]
    BY <1>1, <1>2, <1>0 DEF PendingInv
  <2>2. Tail(Pending)[i] = Pending[i + 1] /\ i + 1 \in 1..Len(Pending)
    BY <1>3, <1>5, HeadTailProperties, <1>0 DEF PendingInv
  <2> QED  BY <2>1, <2>2, <1>0 DEF PendingInv
<1>7. Pending' = Tail(Pending)
  BY <1>5, <1>6, SeqEqual
<1> QED  BY <1>1, <1>3, <1>4, <1>7 DEF Fifo!Get

(* Every behaviour of Enqueue and TryDequeue, by any number of threads, is    *)
(* one of the abstract queue: the safety part of ImplementsFifo.              *)
THEOREM RefinesFifo == SafeSpec => Fifo!SafeSpec
<1>1. Init => Fifo!Init
  <2> SUFFICES ASSUME Init PROVE Pending = <<>> /\ output = <<>>
    BY DEF Fifo!Init
  <2>1. output = <<>> /\ order = <<Dummy>>
    BY DEF Init
  <2>2. Len(output) + 2 = 2 /\ Len(order) = 1
    BY <2>1
  <2> QED  BY <2>1, <2>2, SubSeqEmpty DEF Pending
<1>2. IInv /\ IInv' /\ [Next]_vars => [Fifo!Next]_(Fifo!vars)
  <2> SUFFICES ASSUME IInv, IInv', [Next]_vars PROVE [Fifo!Next]_(Fifo!vars)
    OBVIOUS
  <2>1. CASE \E p \in Producers : Exchange(p)
    BY <2>1, ExchangePuts DEF Fifo!Next
  <2>2. CASE Take
    BY <2>2, TakeGets DEF Fifo!Next
  <2>3. CASE (\E p \in Producers : Link(p)) \/ Load \/ UNCHANGED vars
    <3>1. order' = order /\ output' = output
      BY <2>3 DEF Link, Load, vars
    <3> QED  BY <3>1 DEF Fifo!vars, Pending
  <2> QED  BY <2>1, <2>2, <2>3 DEF Next
<1> QED  BY <1>1, <1>2, Inductive, PTL DEF SafeSpec, Fifo!SafeSpec
=============================================================================
