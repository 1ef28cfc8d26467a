----------------------------- MODULE EpollProofs -----------------------------
(***************************************************************************)
(* Proofs about Epoll, for any channels, descriptors and size of events_.  *)
(*                                                                         *)
(* RegistrationsAgree is not inductive alone.  The strengthening is what   *)
(* each stage of an owner means for its channel (StageInv), that no two    *)
(* channels have one descriptor (OwnDescriptor), and that nothing is       *)
(* fetched but not handled outside the handlers (LoopInv), so that a       *)
(* channel removed in a functor cannot be in active_channels_; in a        *)
(* handler only the acceptor is removed, and torn says that it was.        *)
(***************************************************************************)
EXTENDS Epoll, FiniteSetTheorems, TLAPS

(* What the stage of its owner says of a channel. *)
Stages(c) ==
  /\ stage[c] = "none" <=> fd[c] = None
  /\ stage[c] \in {"none", "made"} => state[c] = "kNew" /\ enabled[c] = {}
  /\ stage[c] = "open" => state[c] = "kAdded" /\ "read" \in enabled[c]
  /\ stage[c] = "closed" => state[c] = "kDeleted" /\ enabled[c] = {}
  /\ stage[c] = "leaving" => state[c] \in {"kAdded", "kDeleted"}
  /\ stage[c] = "leaving" =>
       \/ c = Wakeup /\ phase = "left"
       \/ c = Acceptor /\ (phase = "functors" \/ (torn /\ current # None))
  /\ stage[c] = "removed" => state[c] = "kNew"

StageInv == \A c \in Channels : Stages(c)

(* A descriptor has one owner. *)
OwnDescriptor == \A c, d \in Channels : fd[c] = fd[d] /\ fd[c] # None => c = d

(* Only what is watched has an event. *)
EdgesWatched == \A f \in edges : interest[f] # None

(* Fetched events are handled before functors run. *)
LoopInv ==
  /\ phase \notin {"handle", "undefined"} => active = {} /\ current = None /\ ~torn
  /\ phase = "undefined" => current = None
  /\ stage[Wakeup] \in {"leaving", "removed", "none"} => phase = "left"

IInv ==
  /\ TypeOK /\ StageInv /\ OwnDescriptor /\ EdgesWatched /\ LoopInv
  /\ RegistrationsAgree /\ EventsFindTheirChannel
-----------------------------------------------------------------------------
(* A channel that is not kAdded has a descriptor nobody watches. *)
LEMMA Unwatched ==
  ASSUME TypeOK, KernelAgrees, OwnDescriptor,
         NEW c \in Channels, fd[c] \in Fds
  PROVE  state[c] = "kAdded" <=> interest[fd[c]] # None
<1>1. ASSUME interest[fd[c]] # None PROVE state[c] = "kAdded"
  <2>1. interest[fd[c]].channel \in Channels
    BY <1>1 DEF TypeOK, Registration
  <2>2. fd[interest[fd[c]].channel] = fd[c] /\ state[interest[fd[c]].channel] = "kAdded"
    BY <1>1 DEF KernelAgrees
  <2>3. interest[fd[c]].channel = c
    BY <2>1, <2>2, EpollAssumption DEF OwnDescriptor
  <2>. QED BY <2>2, <2>3
<1>. QED BY <1>1 DEF KernelAgrees

(* What UpdateChannel does, called for a channel that has its descriptor:     *)
(* epoll_ctl takes it, and kernel, map and channels still agree.              *)
LEMMA Updated ==
  ASSUME TypeOK, KernelAgrees, MapAgrees, EdgesWatched, OwnDescriptor, ~refused,
         NEW c \in Channels, NEW events \in SUBSET Events,
         fd[c] \in Fds, fd' = fd, UpdateChannel(c, events)
  PROVE  /\ enabled' = [enabled EXCEPT ![c] = events]
         /\ state' = [state EXCEPT ![c] = IF state[c] = "kAdded" /\ events = {}
                                         THEN "kDeleted" ELSE "kAdded"]
         /\ ~refused'
         /\ channels' \in [Fds -> Channels \cup {None}]
         /\ interest' \in [Fds -> Registration \cup {None}]
         /\ edges' \in SUBSET Fds
         /\ KernelAgrees' /\ MapAgrees' /\ EdgesWatched'
<1>1. state[c] = "kAdded" <=> interest[fd[c]] # None
  BY Unwatched
<1>2. [channel |-> c, events |-> events] \in Registration
  BY DEF Registration
<1>3. CASE state[c] = "kAdded" /\ events = {}
  <2>1. /\ interest' = [interest EXCEPT ![fd[c]] = None] /\ edges' = edges \ {fd[c]}
        /\ ~refused' /\ channels' = channels
        /\ enabled' = [enabled EXCEPT ![c] = events]
        /\ state' = [state EXCEPT ![c] = "kDeleted"]
    <3>1. /\ Control("kDel", c, events) /\ channels' = channels
          /\ enabled' = [enabled EXCEPT ![c] = events]
          /\ state' = [state EXCEPT ![c] = "kDeleted"]
      BY <1>3 DEF UpdateChannel
    <3>2. "kDel" # "kAdd"
      OBVIOUS
    <3>. QED BY <1>1, <1>3, <3>1, <3>2 DEF Control
  <2>2. KernelAgrees'
    BY <2>1, EpollAssumption DEF KernelAgrees, TypeOK, Registration, OwnDescriptor
  <2>3. MapAgrees'
    BY <2>1, <1>3 DEF MapAgrees, TypeOK
  <2>. QED BY <1>3, <2>1, <2>2, <2>3 DEF TypeOK, EdgesWatched
<1>4. CASE state[c] = "kAdded" /\ events # {}
  <2>1. /\ interest' = [interest EXCEPT ![fd[c]] = [channel |-> c, events |-> events]]
        /\ edges' \in {edges, edges \cup {fd[c]}, edges \ {fd[c]}}
        /\ ~refused' /\ channels' = channels
        /\ enabled' = [enabled EXCEPT ![c] = events]
        /\ state' = [state EXCEPT ![c] = "kAdded"]
    <3>1. /\ Control("kMod", c, events) /\ channels' = channels
          /\ enabled' = [enabled EXCEPT ![c] = events]
          /\ state' = [state EXCEPT ![c] = "kAdded"]
      BY <1>4 DEF UpdateChannel
    <3>. QED BY <1>1, <1>4, <3>1 DEF Control
  <2>2. KernelAgrees'
    BY <1>1, <1>2, <1>4, <2>1, EpollAssumption DEF KernelAgrees, TypeOK, Registration, OwnDescriptor
  <2>3. MapAgrees'
    BY <2>1, <1>4 DEF MapAgrees, TypeOK
  <2>4. interest' \in [Fds -> Registration \cup {None}] /\ edges' \in SUBSET Fds
    BY <1>2, <2>1 DEF TypeOK
  <2>5. EdgesWatched'
    BY <1>2, <2>1, EpollAssumption DEF TypeOK, EdgesWatched
  <2>. QED BY <1>4, <2>1, <2>2, <2>3, <2>4, <2>5 DEF TypeOK
<1>5. CASE state[c] # "kAdded"
  <2>1. /\ interest' = [interest EXCEPT ![fd[c]] = [channel |-> c, events |-> events]]
        /\ edges' \in {edges, edges \cup {fd[c]}, edges \ {fd[c]}}
        /\ ~refused'
        /\ channels' = [channels EXCEPT ![fd[c]] = IF state[c] = "kNew" THEN c ELSE channels[fd[c]]]
        /\ enabled' = [enabled EXCEPT ![c] = events]
        /\ state' = [state EXCEPT ![c] = "kAdded"]
    <3>1. /\ Control("kAdd", c, events)
          /\ channels' = [channels EXCEPT ![fd[c]] = IF state[c] = "kNew" THEN c ELSE channels[fd[c]]]
          /\ enabled' = [enabled EXCEPT ![c] = events]
          /\ state' = [state EXCEPT ![c] = "kAdded"]
      BY <1>5 DEF UpdateChannel
    <3>. QED BY <1>1, <1>5, <3>1 DEF Control
  <2>2. KernelAgrees'
    BY <1>1, <1>2, <1>5, <2>1, EpollAssumption DEF KernelAgrees, TypeOK, Registration, OwnDescriptor
  <2>3. MapAgrees'
    BY <2>1, <1>5, EpollAssumption DEF MapAgrees, TypeOK, OwnDescriptor
  <2>. QED BY <1>2, <1>5, <2>1, <2>2, <2>3, EpollAssumption DEF TypeOK, EdgesWatched
<1>. QED BY <1>3, <1>4, <1>5

(* The same of RemoveChannel. *)
LEMMA Removed ==
  ASSUME TypeOK, KernelAgrees, MapAgrees, EdgesWatched, OwnDescriptor, ~refused,
         NEW c \in Channels, fd[c] \in Fds, fd' = fd, RemoveChannel(c)
  PROVE  /\ enabled' = enabled
         /\ state' = [state EXCEPT ![c] = "kNew"]
         /\ ~refused'
         /\ channels' \in [Fds -> Channels \cup {None}]
         /\ interest' \in [Fds -> Registration \cup {None}]
         /\ edges' \in SUBSET Fds
         /\ KernelAgrees' /\ MapAgrees' /\ EdgesWatched'
<1>1. state[c] = "kAdded" <=> interest[fd[c]] # None
  BY Unwatched
<1>2. /\ channels' = [channels EXCEPT ![fd[c]] = None]
      /\ enabled' = enabled
      /\ state' = [state EXCEPT ![c] = "kNew"]
      /\ ~refused'
      /\ interest' = [interest EXCEPT ![fd[c]] = None]
      /\ edges' = edges \ {fd[c]}
  <2>1. CASE state[c] = "kAdded"
    <3>1. /\ Control("kDel", c, {})
          /\ channels' = [channels EXCEPT ![fd[c]] = None]
          /\ enabled' = enabled
          /\ state' = [state EXCEPT ![c] = "kNew"]
      BY <2>1 DEF RemoveChannel
    <3>. QED BY <1>1, <2>1, <3>1 DEF Control
  <2>2. CASE state[c] # "kAdded"
    <3>1. interest[fd[c]] = None /\ fd[c] \notin edges
      BY <1>1, <2>2 DEF EdgesWatched
    <3>. QED BY <2>2, <3>1 DEF RemoveChannel, TypeOK
  <2>. QED BY <2>1, <2>2
<1>3. KernelAgrees'
  BY <1>1, <1>2, EpollAssumption DEF KernelAgrees, TypeOK, Registration, OwnDescriptor
<1>4. MapAgrees'
  BY <1>2, EpollAssumption DEF MapAgrees, TypeOK, OwnDescriptor
<1>. QED BY <1>2, <1>3, <1>4 DEF TypeOK, EdgesWatched

-----------------------------------------------------------------------------
(* A channel with an owner has a descriptor. *)
LEMMA Owned ==
  ASSUME TypeOK, StageInv, NEW c \in Channels, stage[c] # "none"
  PROVE  fd[c] \in Fds
BY DEF TypeOK, StageInv, Stages

(* A step that updates a channel preserves the invariant, if its owner's new  *)
(* stage is what the events say.                                              *)
LEMMA UpdatePreserves ==
  ASSUME IInv, NEW c \in Channels, NEW events \in SUBSET Events,
         NEW s \in {"open", "closed", "leaving"},
         stage[c] # "none", UpdateChannel(c, events),
         stage' = [stage EXCEPT ![c] = s], fd' = fd, UNCHANGED <<size, active, current, phase>>,
         \/ torn' = torn /\ s # "leaving"
         \/ torn' = torn /\ s = "leaving" /\ c = Wakeup /\ phase = "left"
         \/ torn' = (phase = "handle") /\ s = "leaving" /\ c = Acceptor /\ InBody,
         s = "open" => "read" \in events,
         s = "closed" => events = {} /\ state[c] = "kAdded"
  PROVE  IInv'
<1>. USE DEF IInv
<1>1. fd[c] \in Fds
  BY Owned
<1>2. /\ enabled' = [enabled EXCEPT ![c] = events]
      /\ state' = [state EXCEPT ![c] = IF state[c] = "kAdded" /\ events = {}
                                      THEN "kDeleted" ELSE "kAdded"]
      /\ ~refused'
      /\ channels' \in [Fds -> Channels \cup {None}]
      /\ interest' \in [Fds -> Registration \cup {None}]
      /\ edges' \in SUBSET Fds
      /\ KernelAgrees' /\ MapAgrees' /\ EdgesWatched'
  BY <1>1, Updated DEF RegistrationsAgree
<1>3. TypeOK'
  <2>1. refused' \in BOOLEAN
    BY <1>2 DEF UpdateChannel, Control
  <2>2. enabled' \in [Channels -> SUBSET Events] /\ state' \in [Channels -> {"kNew", "kAdded", "kDeleted"}]
    BY <1>2 DEF TypeOK
  <2>3. stage' \in [Channels -> {"none", "made", "open", "closed", "leaving", "removed"}]
    BY DEF TypeOK
  <2>. QED BY <1>2, <2>1, <2>2, <2>3 DEF TypeOK, MaxSize
<1>4. StageInv'
  BY <1>2, EpollAssumption DEF StageInv, Stages, LoopInv, TypeOK, InBody, Destructing
<1>5. OwnDescriptor'
  BY DEF OwnDescriptor
<1>6. LoopInv'
  BY EpollAssumption DEF LoopInv, TypeOK, InBody, Destructing
<1>7. RegistrationsAgree'
  BY <1>2 DEF RegistrationsAgree, TypeOK
<1>8. EventsFindTheirChannel'
  BY EpollAssumption DEF EventsFindTheirChannel, LoopInv, TypeOK, InBody
<1>. QED BY <1>2, <1>3, <1>4, <1>5, <1>6, <1>7, <1>8

(* A step that removes a channel preserves it, outside the handlers or when   *)
(* it is the acceptor's.                                                      *)
LEMMA RemovePreserves ==
  ASSUME IInv, NEW c \in Channels, stage[c] # "none", RemoveChannel(c),
         stage' = [stage EXCEPT ![c] = "removed"], fd' = fd, UNCHANGED loop,
         phase \in {"functors", "left"} \/ (torn /\ c = Acceptor), c = Wakeup => phase = "left"
  PROVE  IInv'
<1>. USE DEF IInv
<1>1. fd[c] \in Fds
  BY Owned
<1>2. /\ enabled' = enabled
      /\ state' = [state EXCEPT ![c] = "kNew"]
      /\ ~refused'
      /\ channels' \in [Fds -> Channels \cup {None}]
      /\ interest' \in [Fds -> Registration \cup {None}]
      /\ edges' \in SUBSET Fds
      /\ KernelAgrees' /\ MapAgrees' /\ EdgesWatched'
  BY <1>1, Removed DEF RegistrationsAgree
<1>3. TypeOK'
  <2>1. refused' \in BOOLEAN
    BY <1>2 DEF RemoveChannel, Control, TypeOK
  <2>2. state' \in [Channels -> {"kNew", "kAdded", "kDeleted"}]
    BY <1>2 DEF TypeOK
  <2>3. stage' \in [Channels -> {"none", "made", "open", "closed", "leaving", "removed"}]
    BY DEF TypeOK
  <2>. QED BY <1>2, <2>1, <2>2, <2>3 DEF TypeOK, loop, MaxSize
<1>4. StageInv'
  BY <1>2 DEF StageInv, Stages, TypeOK, loop
<1>5. OwnDescriptor'
  BY DEF OwnDescriptor
<1>6. LoopInv'
  BY DEF LoopInv, TypeOK, loop
<1>7. RegistrationsAgree'
  BY <1>2 DEF RegistrationsAgree, TypeOK
<1>8. EventsFindTheirChannel'
  BY DEF EventsFindTheirChannel, LoopInv, TypeOK, loop
<1>. QED BY <1>2, <1>3, <1>4, <1>5, <1>6, <1>7, <1>8

(* The steps of the owners. *)
LEMMA BodyPreserves ==
  ASSUME IInv, BodyStep
  PROVE  IInv'
<1>. USE DEF IInv
<1>1. ASSUME NEW c \in Channels \ {Wakeup}, Open(c) PROVE IInv'
  <2>1. enabled[c] \cup {"read"} \in SUBSET Events
    BY DEF TypeOK, Events
  <2>. QED BY <1>1, <2>1, UpdatePreserves DEF Open, Becomes, BecomesIn, loop
<1>2. ASSUME NEW c \in Connections, EnableWriting(c) \/ DisableWriting(c) PROVE IInv'
  <2>1. PICK events \in SUBSET Events : UpdateChannel(c, events) /\ ("read" \in enabled[c] => "read" \in events)
    <3>1. enabled[c] \cup {"write"} \in SUBSET Events /\ enabled[c] \ {"write"} \in SUBSET Events
      BY DEF TypeOK, Events, Connections
    <3>. QED BY <1>2, <3>1 DEF EnableWriting, DisableWriting
  <2>2. stage[c] = "open"
    BY <1>2, EpollAssumption DEF EnableWriting, DisableWriting, StageInv, Stages, EventsFindTheirChannel, Connections, TypeOK
  <2>3. c \in Channels /\ "read" \in enabled[c]
    BY <2>2 DEF Connections, StageInv, Stages
  <2>4. stage' = [stage EXCEPT ![c] = "open"] /\ fd' = fd
        /\ UNCHANGED <<size, active, current, phase, torn>>
    BY <1>2, <2>2 DEF EnableWriting, DisableWriting, owners, loop, TypeOK
  <2>. QED BY <2>1, <2>2, <2>3, <2>4, UpdatePreserves
<1>3. ASSUME NEW c \in Connections, HandleClose(c) PROVE IInv'
  <2>1. stage[c] = "open" /\ state[c] = "kAdded" /\ c \in Channels
    BY <1>3 DEF HandleClose, StageInv, Stages, Connections
  <2>. QED BY <1>3, <2>1, UpdatePreserves DEF HandleClose, Becomes, BecomesIn, loop
<1>4. ASSUME NEW c \in Connections, ConnectionDestroyed(c) PROVE IInv'
  BY <1>4, RemovePreserves DEF ConnectionDestroyed, Becomes, BecomesIn, Connections
<1>5. CASE DestroyAcceptor
  BY <1>5, EpollAssumption, UpdatePreserves DEF DestroyAcceptor, BecomesIn
<1>6. CASE DestroyLoop
  BY <1>6, EpollAssumption, UpdatePreserves DEF DestroyLoop, Becomes, BecomesIn, loop
<1>. QED BY <1>1, <1>2, <1>3, <1>4, <1>5, <1>6 DEF BodyStep

(* A channel is made, with a descriptor nobody has. *)
LEMMA NewPreserves ==
  ASSUME IInv, NEW c \in Channels \ {Wakeup}, NEW f \in Fds, New(c, f)
  PROVE  IInv'
<1>. USE DEF IInv
<1>1. /\ stage' = [stage EXCEPT ![c] = "made"] /\ fd' = [fd EXCEPT ![c] = f]
      /\ stage[c] = "none" /\ fd[c] = None /\ state[c] = "kNew" /\ enabled[c] = {}
      /\ UNCHANGED <<epoll, loop>>
  BY DEF New, StageInv, Stages
<1>2. f # None
  BY EpollAssumption
<1>3. TypeOK'
  BY <1>1 DEF TypeOK, epoll, loop, MaxSize
<1>4. StageInv'
  BY <1>1, <1>2 DEF StageInv, Stages, TypeOK, epoll, loop
<1>5. OwnDescriptor'
  BY <1>1 DEF OwnDescriptor, New, TypeOK
<1>6. EdgesWatched' /\ LoopInv'
  BY <1>1 DEF EdgesWatched, LoopInv, TypeOK, epoll, loop
<1>7. KernelAgrees'
  BY <1>1, EpollAssumption DEF RegistrationsAgree, KernelAgrees, TypeOK, Registration, epoll
<1>8. MapAgrees'
  BY <1>1, EpollAssumption DEF RegistrationsAgree, MapAgrees, TypeOK, epoll
<1>9. RegistrationsAgree'
  BY <1>1, <1>7, <1>8 DEF RegistrationsAgree, TypeOK, epoll
<1>10. EventsFindTheirChannel'
  BY <1>1, EpollAssumption DEF EventsFindTheirChannel, TypeOK, loop
<1>. QED BY <1>3, <1>4, <1>5, <1>6, <1>9, <1>10

(* An owner goes, and its descriptor is closed. *)
LEMMA FreePreserves ==
  ASSUME IInv, NEW c \in Channels, Free(c)
  PROVE  IInv'
<1>. USE DEF IInv
<1>1. fd[c] \in Fds /\ state[c] = "kNew" /\ stage[c] = "removed"
  BY Owned DEF Free, StageInv, Stages
<1>2. interest[fd[c]] = None
  BY <1>1, Unwatched DEF RegistrationsAgree
<1>3. interest' = interest /\ edges' = edges
  <2>1. fd[c] \notin edges
    BY <1>2 DEF EdgesWatched
  <2>. QED BY <1>1, <1>2, <2>1 DEF Free, TypeOK
<1>4. /\ stage' = [stage EXCEPT ![c] = "none"] /\ fd' = [fd EXCEPT ![c] = None]
      /\ enabled' = [enabled EXCEPT ![c] = {}]
      /\ UNCHANGED <<state, channels, refused, loop>>
  BY DEF Free
<1>5. TypeOK'
  BY <1>3, <1>4 DEF TypeOK, loop, MaxSize
<1>6. StageInv'
  BY <1>1, <1>4 DEF StageInv, Stages, TypeOK, loop
<1>7. OwnDescriptor'
  BY <1>4 DEF OwnDescriptor, TypeOK
<1>8. EdgesWatched'
  BY <1>3 DEF EdgesWatched
<1>9. LoopInv'
  BY <1>1, <1>4 DEF LoopInv, TypeOK, loop
<1>10. KernelAgrees'
  BY <1>1, <1>3, <1>4 DEF RegistrationsAgree, KernelAgrees, TypeOK, Registration
<1>11. MapAgrees'
  BY <1>1, <1>4, EpollAssumption DEF RegistrationsAgree, MapAgrees, TypeOK
<1>12. RegistrationsAgree'
  BY <1>1, <1>4, <1>10, <1>11 DEF RegistrationsAgree, TypeOK
<1>13. EventsFindTheirChannel'
  BY <1>1, <1>4 DEF EventsFindTheirChannel, TypeOK, loop
<1>. QED BY <1>5, <1>6, <1>7, <1>8, <1>9, <1>12, <1>13

(* Select: what the kernel reports is of open channels, and events_ grows no  *)
(* further than it was full.                                                  *)
LEMMA TakePreserves ==
  ASSUME IInv, NEW taken \in SUBSET edges, Fits(taken), Take(taken)
  PROVE  IInv'
<1>. USE DEF IInv
<1>1. \A f \in taken : /\ f \in Fds
                       /\ interest[f].channel \in Channels
                       /\ fd[interest[f].channel] = f
                       /\ stage[interest[f].channel] = "open"
  <2>1. TAKE f \in taken
  <2>2. f \in Fds /\ interest[f] # None
    BY DEF TypeOK, EdgesWatched
  <2>3. interest[f].channel \in Channels
    BY <2>2 DEF TypeOK, Registration
  <2>4. fd[interest[f].channel] = f /\ state[interest[f].channel] = "kAdded"
    BY <2>2 DEF RegistrationsAgree, KernelAgrees
  <2>5. phase = "select"
    BY DEF Take
  <2>6. stage[interest[f].channel] = "open"
    BY <2>3, <2>4, <2>5, EpollAssumption DEF StageInv, Stages, LoopInv, TypeOK
  <2>. QED BY <2>2, <2>3, <2>4, <2>6
<1>2. size' \in InitEvents .. MaxSize
  <2>1. IsFiniteSet(taken) /\ Cardinality(taken) <= Cardinality(Fds)
    BY EpollAssumption, FS_Subset DEF TypeOK
  <2>2. Cardinality(Fds) \in Nat /\ InitEvents \in Nat /\ size \in Nat
    BY EpollAssumption, FS_CardinalityType DEF TypeOK, MaxSize
  <2>. QED BY <2>1, <2>2 DEF Take, TypeOK, MaxSize
<1>3. /\ edges' = edges \ taken
      /\ active' = {[channel |-> interest[f].channel, fd |-> f] : f \in taken}
      /\ phase = "select" /\ phase' = "handle"
      /\ UNCHANGED <<owners, enabled, state, channels, interest, refused, current, torn>>
  BY DEF Take
<1>4. active' \in SUBSET [channel : Channels, fd : Fds]
  BY <1>1, <1>3
<1>5. TypeOK'
  <2>1. torn' \in BOOLEAN /\ refused' \in BOOLEAN
    BY <1>3 DEF TypeOK
  <2>2. edges' \in SUBSET Fds /\ current' \in Channels \cup {None} /\ phase' = "handle"
    BY <1>3 DEF TypeOK
  <2>. QED BY <1>2, <1>3, <1>4, <2>1, <2>2 DEF TypeOK, owners, MaxSize
<1>6. StageInv' /\ OwnDescriptor' /\ EdgesWatched' /\ LoopInv'
  BY <1>3 DEF StageInv, Stages, OwnDescriptor, EdgesWatched, LoopInv, owners
<1>7. RegistrationsAgree'
  BY <1>3 DEF RegistrationsAgree, KernelAgrees, MapAgrees, owners
<1>8. EventsFindTheirChannel'
  BY <1>1, <1>3 DEF EventsFindTheirChannel, LoopInv, owners
<1>. QED BY <1>5, <1>6, <1>7, <1>8

(* The rest of an iteration, and the events that happen. *)
LEMMA LoopPreserves ==
  ASSUME IInv, \/ \E a \in active : HandleEvent(a)
               \/ HandlerReturns \/ HandlersDone \/ FunctorsDone \/ Leave
               \/ \E f \in Fds : Occur(f)
  PROVE  IInv'
<1>. USE DEF IInv
<1>1. /\ UNCHANGED <<owners, enabled, state, channels, interest, refused, size>>
      /\ active' \subseteq active /\ edges \subseteq edges'
      /\ torn' = torn \/ (torn' = FALSE /\ active = {} /\ current' = None /\ phase' = "functors")
  BY DEF HandleEvent, HandlerReturns, HandlersDone, FunctorsDone, Leave, Occur, epoll, loop
<1>2. edges' \in SUBSET Fds /\ EdgesWatched'
  BY <1>1 DEF HandleEvent, HandlerReturns, HandlersDone, FunctorsDone, Leave, Occur, epoll,
              EdgesWatched, TypeOK
<1>3. /\ current' \in Channels \cup {None}
      /\ phase' \in {"select", "handle", "functors", "left", "undefined"}
      /\ phase' = "undefined" => phase = "undefined" \/ (torn' /\ torn)
      /\ current' # None => \/ current' = current
                            \/ \E a \in active : current' = a.channel
  BY DEF HandleEvent, HandlerReturns, HandlersDone, FunctorsDone, Leave, Occur, Uses, loop, TypeOK
<1>4. TypeOK'
  <2>1. torn' \in BOOLEAN
    BY <1>1 DEF TypeOK
  <2>. QED BY <1>1, <1>2, <1>3, <2>1 DEF TypeOK, owners, MaxSize
<1>5. LoopInv'
  BY <1>1 DEF LoopInv, HandleEvent, HandlerReturns, HandlersDone, FunctorsDone, Leave, Occur, Uses,
     Destructing, loop, owners
<1>6. StageInv'
  BY <1>1, EpollAssumption DEF StageInv, Stages, LoopInv, HandleEvent, HandlerReturns, HandlersDone,
     FunctorsDone, Leave, Occur, Uses, Destructing, loop, owners
<1>7. OwnDescriptor'
  BY <1>1 DEF OwnDescriptor, owners
<1>8. RegistrationsAgree'
  BY <1>1 DEF RegistrationsAgree, KernelAgrees, MapAgrees, owners
<1>9. EventsFindTheirChannel'
  BY <1>1, <1>3 DEF EventsFindTheirChannel, owners
<1>. QED BY <1>2, <1>4, <1>5, <1>6, <1>7, <1>8, <1>9

LEMMA InitInvariant == Init => IInv
<1>. SUFFICES ASSUME Init PROVE IInv
  OBVIOUS
<1>. USE EpollAssumption DEF Init
<1>1. size \in InitEvents .. MaxSize
  BY FS_CardinalityType DEF MaxSize
<1>2. TypeOK
  BY <1>1 DEF TypeOK, Registration, Events
<1>3. StageInv /\ OwnDescriptor /\ EdgesWatched /\ LoopInv
  BY DEF StageInv, Stages, OwnDescriptor, EdgesWatched, LoopInv
<1>4. RegistrationsAgree
  <2>1. KernelAgrees
    <3>1. [channel |-> Wakeup, events |-> {"read"}] \in Registration
      BY DEF Registration, Events
    <3>. QED BY <3>1 DEF KernelAgrees
  <2>2. MapAgrees
    BY DEF MapAgrees
  <2>. QED BY <2>1, <2>2 DEF RegistrationsAgree
<1>5. EventsFindTheirChannel
  BY DEF EventsFindTheirChannel
<1>. QED BY <1>2, <1>3, <1>4, <1>5 DEF IInv

LEMMA StepInvariant == IInv /\ [Next]_vars => IInv'
<1>. SUFFICES ASSUME IInv, [Next]_vars PROVE IInv'
  OBVIOUS
<1>1. CASE LoopStep
  <2>1. CASE Select
    BY <2>1, TakePreserves DEF Select
  <2>2. ASSUME NEW c \in {Wakeup, Acceptor}, RemoveLeaving(c) PROVE IInv'
    <3>1. c \in Channels /\ (phase \in {"functors", "left"} \/ (torn /\ c = Acceptor))
          /\ (c = Wakeup => phase = "left")
      BY <2>2, EpollAssumption DEF IInv, StageInv, Stages, RemoveLeaving, LoopInv
    <3>. QED BY <2>2, <3>1, RemovePreserves DEF RemoveLeaving, Becomes, BecomesIn
  <2>. QED BY <1>1, <2>1, <2>2, FreePreserves, EpollAssumption, LoopPreserves DEF LoopStep
<1>2. CASE Leave
  BY <1>2, LoopPreserves
<1>3. CASE BodyStep
  BY <1>3, BodyPreserves
<1>4. CASE OutsideStep
  BY <1>4, NewPreserves, FreePreserves, LoopPreserves DEF OutsideStep
<1>5. CASE UNCHANGED vars
  BY <1>5 DEF vars, owners, epoll, loop, IInv, TypeOK, StageInv, Stages, OwnDescriptor, EdgesWatched,
     LoopInv, RegistrationsAgree, KernelAgrees, MapAgrees, EventsFindTheirChannel, MaxSize
<1>. QED BY <1>1, <1>2, <1>3, <1>4, <1>5 DEF Next

(* The state has its type; events_ is never larger than twice the descriptors *)
(* there are (or its first size).                                             *)
THEOREM EpollTypeCorrect == Spec => []TypeOK
<1>1. IInv => TypeOK
  BY DEF IInv
<1>. QED BY <1>1, InitInvariant, StepInvariant, PTL DEF Spec, SafeSpec

(* Kernel, channels_ and channels agree, whatever is closed, destroyed and    *)
(* used again: no call of Epoll::Update is refused.                           *)
THEOREM RegistrationsAlwaysAgree == Spec => []RegistrationsAgree
<1>1. IInv => RegistrationsAgree
  BY DEF IInv
<1>. QED BY <1>1, InitInvariant, StepInvariant, PTL DEF Spec, SafeSpec

(* A fetched event is handled by the channel it was for, never by one that    *)
(* was freed, or freed and made again, whatever handlers before it did: all   *)
(* but the acceptor's, when one of them destroyed the acceptor (Stop).        *)
THEOREM EventsAlwaysFindTheirChannel == Spec => []EventsFindTheirChannel
<1>1. IInv => EventsFindTheirChannel
  BY DEF IInv
<1>. QED BY <1>1, InitInvariant, StepInvariant, PTL DEF Spec, SafeSpec
=============================================================================
