------------------------------- MODULE Acceptor -------------------------------
(***************************************************************************)
(* src/net/acceptor.cpp on its loop: the listening socket is watched edge- *)
(* triggered (epoll.cpp:111), and each event accepts one connection.       *)
(*                                                                         *)
(* The kernel is external: connections wait in the socket's queue, and a   *)
(* connection that arrives makes an edge.  Edges that come before Select   *)
(* are one.  accept() can fail, for want of descriptors, with connections  *)
(* still waiting.                                                          *)
(***************************************************************************)
EXTENDS Naturals, Sequences, SequencesExt

CONSTANTS
  Peers,     (* connections that may arrive, each once       *)
  Backlog    (* how many the kernel lets wait (SOMAXCONN)    *)

ASSUME BacklogAssumption == Backlog \in Nat

VARIABLES
  waiting,    (* external: connections to be accepted, in order           *)
  edge,       (* external: epoll has an edge to report                    *)
  socket,     (* external: "bound", "listening" or "closed"               *)
  reading,    (* the channel is added, with reading enabled               *)
  event,      (* Select has put the channel on active_channels_           *)
  handler,    (* new_connection_handler_ is set                           *)
  served,     (* history: connections passed to the handler               *)
  refused,    (* history: connections closed                              *)
  missed      (* history: arrivals for which no accept() will come        *)

vars == <<waiting, edge, socket, reading, event, handler, served, refused, missed>>

TypeOK ==
  /\ waiting \in Seq(Peers)
  /\ edge \in BOOLEAN /\ reading \in BOOLEAN /\ event \in BOOLEAN /\ handler \in BOOLEAN
  /\ socket \in {"bound", "listening", "closed"}
  /\ served \in SUBSET Peers /\ refused \in SUBSET Peers
  /\ missed \in Nat

Init ==
  /\ waiting = <<>> /\ socket = "bound"
  /\ edge = FALSE /\ reading = FALSE /\ event = FALSE /\ handler = FALSE
  /\ served = {} /\ refused = {} /\ missed = 0

-----------------------------------------------------------------------------
OnNewConnection ==
  /\ ~handler /\ handler' = TRUE
  /\ UNCHANGED <<waiting, edge, socket, reading, event, served, refused, missed>>

(* Listen: first the socket, ... *)
SocketListen ==
  /\ socket = "bound" /\ socket' = "listening"
  /\ UNCHANGED <<waiting, edge, reading, event, handler, served, refused, missed>>

(* Mutant of EnableReading: whether something waits is not looked at. *)
EnableUntested ==
  /\ socket = "listening" /\ ~reading
  /\ reading' = TRUE
  /\ edge' = TRUE
  /\ missed' = Len(waiting) - 1
  /\ UNCHANGED <<waiting, socket, event, handler, served, refused>>

(* ... then the channel.  Adding it reports what has arrived in between. *)
EnableReading ==
  /\ socket = "listening" /\ ~reading
  /\ reading' = TRUE
  /\ edge' = (waiting # <<>>)
  /\ missed' = IF waiting = <<>> THEN 0 ELSE Len(waiting) - 1
  /\ UNCHANGED <<waiting, socket, event, handler, served, refused>>

(* External: a connection is complete. *)
Arrive(p) ==
  /\ socket = "listening" /\ Len(waiting) < Backlog
  /\ p \notin served \cup refused /\ ~Contains(waiting, p)
  /\ waiting' = Append(waiting, p)
  /\ edge' = reading
  /\ missed' = IF edge THEN missed + 1 ELSE missed
  /\ UNCHANGED <<socket, reading, event, handler, served, refused>>

Select ==
  /\ edge /\ ~event
  /\ event' = TRUE /\ edge' = FALSE
  /\ UNCHANGED <<waiting, socket, reading, handler, served, refused, missed>>

(* Mutant of Accept: without a handler the connection is left where it is. *)
AcceptForHandler ==
  /\ event /\ event' = FALSE
  /\ waiting # <<>>
  /\ IF handler THEN waiting' = Tail(waiting) /\ served' = served \cup {Head(waiting)}
     ELSE UNCHANGED <<waiting, served>>
  /\ UNCHANGED <<edge, socket, reading, handler, refused, missed>>

(* The read handler: accept(), then the handler or close(). *)
Accept ==
  /\ event /\ event' = FALSE
  /\ waiting # <<>>
  /\ waiting' = Tail(waiting)
  /\ IF handler THEN served' = served \cup {Head(waiting)} /\ UNCHANGED refused
     ELSE refused' = refused \cup {Head(waiting)} /\ UNCHANGED served
  /\ UNCHANGED <<edge, socket, reading, handler, missed>>

(* accept() fails; nothing is done about it. *)
AcceptFails ==
  /\ event /\ event' = FALSE
  /\ missed' = IF waiting = <<>> THEN missed ELSE missed + 1
  /\ UNCHANGED <<waiting, edge, socket, reading, handler, served, refused>>

(* The destructor, in a functor of the loop: DisableAll, Remove; the socket   *)
(* closes, and the kernel resets those that wait.                             *)
Destroy ==
  /\ socket # "closed" /\ ~event
  /\ socket' = "closed" /\ reading' = FALSE /\ edge' = FALSE
  /\ refused' = refused \cup ToSet(waiting)
  /\ waiting' = <<>>
  /\ UNCHANGED <<event, handler, served, missed>>

LoopStep == EnableReading \/ Select \/ Accept

Next ==
  \/ OnNewConnection \/ SocketListen \/ LoopStep \/ AcceptFails \/ Destroy
  \/ \E p \in Peers : Arrive(p)

(* The loop runs.  A failure of accept() is possible, never due. *)
Fairness == WF_vars(LoopStep)

SafeSpec == Init /\ [][Next]_vars

Spec == SafeSpec /\ Fairness

-----------------------------------------------------------------------------
Pending(b) == IF b THEN 1 ELSE 0

(* One edge, one accept(): a connection that arrives before Select has seen   *)
(* the one in front of it, or for which accept() fails, leaves one connection *)
(* waiting from then on, however many events follow.                          *)
WaitingAreMissed ==
  reading => Len(waiting) = missed + Pending(edge) + Pending(event)

(* A connection is accepted (or closed) when none was missed.                 *)
AcceptedUnlessMissed ==
  \A p \in Peers : Contains(waiting, p) ~> (p \in served \cup refused \/ missed > 0)
=============================================================================
