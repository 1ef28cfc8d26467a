---------------------------- MODULE AcceptorProofs ----------------------------
(***************************************************************************)
(* The count of connections that wait in the listening socket's queue,     *)
(* for any set of peers and any length of the queue.                       *)
(***************************************************************************)
EXTENDS Acceptor, SequenceTheorems, TLAPS

(* What WaitingAreMissed needs: the channel has events only when it is added. *)
Unwatched == reading \/ (~edge /\ ~event)

IInv == TypeOK /\ WaitingAreMissed /\ Unwatched

LEMMA InitIInv == Init => IInv
<1> SUFFICES ASSUME Init PROVE IInv
  OBVIOUS
<1>1. waiting \in Seq(Peers)
  BY EmptySeq DEF Init
<1>2. TypeOK
  BY <1>1, Zenon DEF Init, TypeOK
<1>3. WaitingAreMissed /\ Unwatched
  BY DEF Init, WaitingAreMissed, Unwatched
<1> QED BY <1>2, <1>3 DEF IInv

(* Each action keeps the types. *)
LEMMA TypeStep == ASSUME TypeOK, [Next]_vars PROVE TypeOK'
<1> USE DEF TypeOK
<1>1. CASE OnNewConnection
  BY <1>1 DEF OnNewConnection
<1>2. CASE SocketListen
  BY <1>2 DEF SocketListen
<1>3. CASE EnableReading
  BY <1>3 DEF EnableReading
<1>4. CASE Select
  BY <1>4 DEF Select
<1>5. CASE Accept
  <2>1. Head(waiting) \in Peers /\ Tail(waiting) \in Seq(Peers)
    BY <1>5, HeadTailProperties DEF Accept
  <2>2. waiting' \in Seq(Peers) /\ served' \in SUBSET Peers /\ refused' \in SUBSET Peers
    BY <1>5, <2>1 DEF Accept
  <2> QED BY <1>5, <2>2 DEF Accept
<1>6. CASE AcceptFails
  <2>1. missed' \in Nat
    BY <1>6 DEF AcceptFails
  <2> QED BY <1>6, <2>1, Zenon DEF AcceptFails
<1>7. CASE Destroy
  <2>1. ToSet(waiting) \in SUBSET Peers
    BY DEF ToSet
  <2>2. refused' \in SUBSET Peers /\ waiting' \in Seq(Peers)
    BY <1>7, <2>1, EmptySeq DEF Destroy
  <2> QED BY <1>7, <2>2, Zenon DEF Destroy
<1>8. ASSUME NEW p \in Peers, Arrive(p) PROVE TypeOK'
  BY <1>8 DEF Arrive
<1>9. CASE UNCHANGED vars
  BY <1>9 DEF vars
<1> QED BY <1>1, <1>2, <1>3, <1>4, <1>5, <1>6, <1>7, <1>8, <1>9 DEF Next, LoopStep

(* Each action keeps the count of those that wait. *)
LEMMA CountStep ==
  ASSUME IInv, [Next]_vars PROVE WaitingAreMissed' /\ Unwatched'
<1> USE DEF IInv, TypeOK, WaitingAreMissed, Unwatched, Pending
<1>1. CASE OnNewConnection
  BY <1>1 DEF OnNewConnection
<1>2. CASE SocketListen
  BY <1>2 DEF SocketListen
<1>3. CASE EnableReading
  <2>1. ~event /\ ~event' /\ reading' /\ waiting' = waiting
    BY <1>3 DEF EnableReading
  <2>2. CASE waiting = <<>>
    BY <1>3, <2>1, <2>2 DEF EnableReading
  <2>3. CASE waiting # <<>>
    <3>1. Len(waiting) \in Nat /\ Len(waiting) # 0
      BY <2>3, EmptySeq, LenProperties
    <3>2. edge' /\ missed' = Len(waiting) - 1
      BY <1>3, <2>3 DEF EnableReading
    <3> QED BY <2>1, <3>1, <3>2
  <2> QED BY <2>2, <2>3
<1>4. CASE Select
  BY <1>4 DEF Select
<1>5. CASE Accept
  <2>1. Len(Tail(waiting)) = Len(waiting) - 1
    BY <1>5, HeadTailProperties DEF Accept
  <2>2. reading /\ reading' /\ event /\ ~event' /\ edge' = edge /\ missed' = missed
    BY <1>5, Zenon DEF Accept
  <2>3. waiting' = Tail(waiting) /\ Len(waiting) \in Nat
    BY <1>5 DEF Accept
  <2> QED BY <2>1, <2>2, <2>3
<1>6. CASE AcceptFails
  <2>1. reading
    BY <1>6 DEF AcceptFails
  <2>2. waiting # <<>>
    BY <1>6, <2>1 DEF AcceptFails
  <2> QED BY <1>6, <2>1, <2>2 DEF AcceptFails
<1>7. CASE Destroy
  BY <1>7 DEF Destroy
<1>8. ASSUME NEW p \in Peers, Arrive(p) PROVE WaitingAreMissed' /\ Unwatched'
  <2>1. Len(waiting') = Len(waiting) + 1
    BY <1>8 DEF Arrive
  <2> QED BY <1>8, <2>1 DEF Arrive
<1>9. CASE UNCHANGED vars
  BY <1>9 DEF vars
<1> QED BY <1>1, <1>2, <1>3, <1>4, <1>5, <1>6, <1>7, <1>8, <1>9 DEF Next, LoopStep

(* The invariant of acceptor.cpp's edge-triggered accept, for every number of *)
(* peers: types, count and silence of a channel that is not added.            *)
THEOREM AcceptorInvariant == SafeSpec => []IInv
<1>1. IInv /\ [Next]_vars => IInv'
  BY TypeStep, CountStep DEF IInv
<1> QED BY InitIInv, <1>1, PTL DEF SafeSpec

(* The variables keep their types. *)
THEOREM AcceptorTypeCorrect == SafeSpec => []TypeOK
<1>1. IInv => TypeOK
  BY DEF IInv
<1> QED BY AcceptorInvariant, <1>1, PTL

(* acceptor.cpp:23 accepts one connection per edge: as many connections wait  *)
(* as were missed, besides those whose edge or event is still to be handled.  *)
THEOREM WaitingAreMissedHolds == SafeSpec => []WaitingAreMissed
<1>1. IInv => WaitingAreMissed
  BY DEF IInv
<1> QED BY AcceptorInvariant, <1>1, PTL
=============================================================================
