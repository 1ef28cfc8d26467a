-------------------------------- MODULE Epoll --------------------------------
(***************************************************************************)
(* src/net/epoll.cpp and channel.cpp: the channels of one EventLoop, the   *)
(* kernel's list of what it watches, and channels_, which has the channel  *)
(* of each descriptor.  The kernel hands back the pointer it was given, so *)
(* a registration that outlives its channel, or a descriptor that comes to *)
(* another owner, would send an event to the wrong place.                  *)
(*                                                                         *)
(* Channels stands for the addresses channels have, Fds for descriptors:   *)
(* both come back into use.  A channel is driven by its owner: the loop's  *)
(* eventfd, the acceptor, or a TcpConnection, which is made anywhere but   *)
(* opened, closed and removed on the loop's thread (TcpServer).            *)
(***************************************************************************)
EXTENDS Naturals, FiniteSets

CONSTANTS
  Channels, Fds,
  Wakeup,       (* wakeup_channel_ of the loop               *)
  Acceptor,     (* the acceptor's channel                    *)
  WakeupFd,     (* wakeup_fd_                                *)
  InitEvents,   (* kInitEvents, the first size of events_    *)
  None

Events == {"read", "write"}

(* What the kernel keeps of a descriptor: data.ptr and the events asked for. *)
Registration == [channel : Channels, events : SUBSET Events]

ASSUME EpollAssumption ==
  /\ IsFiniteSet(Fds) /\ WakeupFd \in Fds
  /\ Wakeup \in Channels /\ Acceptor \in Channels \ {Wakeup}
  /\ None \notin Fds \cup Channels \cup Registration
  /\ InitEvents \in Nat \ {0}

Connections == Channels \ {Wakeup, Acceptor}

VARIABLES
  stage,      (* what the channel's owner has done with it         *)
  fd,         (* fd_                                               *)
  enabled,    (* enabled_events_                                   *)
  state,      (* state_                                            *)
  channels,   (* channels_                                         *)
  interest,   (* the kernel's registrations                        *)
  edges,      (* descriptors with an event not yet reported        *)
  refused,    (* epoll_ctl has failed: Update throws               *)
  size,       (* events_.size()                                    *)
  active,     (* active_channels_ not yet handled                  *)
  current,    (* current_active_channel_                           *)
  phase,      (* where the loop is in an iteration of Start        *)
  torn        (* a handler of this iteration destroyed the acceptor *)

owners == <<stage, fd>>
epoll == <<enabled, state, channels, interest, edges, refused>>
loop == <<size, active, current, phase, torn>>
vars == <<owners, epoll, loop>>

(* events_ doubles when it was full, and never shrinks. *)
MaxSize == IF InitEvents > 2 * Cardinality(Fds) THEN InitEvents ELSE 2 * Cardinality(Fds)

TypeOK ==
  /\ stage \in [Channels -> {"none", "made", "open", "closed", "leaving", "removed"}]
  /\ fd \in [Channels -> Fds \cup {None}]
  /\ enabled \in [Channels -> SUBSET Events]
  /\ state \in [Channels -> {"kNew", "kAdded", "kDeleted"}]
  /\ channels \in [Fds -> Channels \cup {None}]
  /\ interest \in [Fds -> Registration \cup {None}]
  /\ edges \in SUBSET Fds
  /\ refused \in BOOLEAN
  /\ size \in InitEvents .. MaxSize
  /\ active \in SUBSET [channel : Channels, fd : Fds]
  /\ current \in Channels \cup {None}
  /\ phase \in {"select", "handle", "functors", "left", "undefined"}
  /\ torn \in BOOLEAN

(* The loop is made with its eventfd watched. *)
Init ==
  /\ stage = [c \in Channels |-> IF c = Wakeup THEN "open" ELSE "none"]
  /\ fd = [c \in Channels |-> IF c = Wakeup THEN WakeupFd ELSE None]
  /\ enabled = [c \in Channels |-> IF c = Wakeup THEN {"read"} ELSE {}]
  /\ state = [c \in Channels |-> IF c = Wakeup THEN "kAdded" ELSE "kNew"]
  /\ channels = [f \in Fds |-> IF f = WakeupFd THEN Wakeup ELSE None]
  /\ interest = [f \in Fds |-> IF f = WakeupFd THEN [channel |-> Wakeup, events |-> {"read"}]
                               ELSE None]
  /\ edges = {} /\ refused = FALSE
  /\ size = InitEvents /\ active = {} /\ current = None /\ phase = "select"
  /\ torn = FALSE

-----------------------------------------------------------------------------
(* epoll_ctl: only what is not watched can be added, only what is can be      *)
(* changed or deleted.  A socket that is ready when it is added or changed    *)
(* gives an event at once; an event that is no longer asked for may go.       *)
Control(op, c, events) ==
  LET f == fd[c]
      accepted == (op = "kAdd") <=> (interest[f] = None)
      fewer == interest[f] # None /\ ~(interest[f].events \subseteq events)
  IN /\ refused' = (refused \/ ~accepted)
     /\ IF ~accepted THEN UNCHANGED <<interest, edges>>
        ELSE IF op = "kDel"
        THEN interest' = [interest EXCEPT ![f] = None] /\ edges' = edges \ {f}
        ELSE /\ interest' = [interest EXCEPT ![f] = [channel |-> c, events |-> events]]
             /\ edges' \in {edges, edges \cup {f}, IF fewer THEN edges \ {f} ELSE edges}

(* Mutant of UpdateChannel: kDeleted is not recorded. *)
UpdateKeepsAdded(c, events) ==
  /\ enabled' = [enabled EXCEPT ![c] = events]
  /\ IF state[c] = "kAdded"
     THEN /\ Control(IF events = {} THEN "kDel" ELSE "kMod", c, events)
          /\ UNCHANGED <<state, channels>>
     ELSE /\ Control("kAdd", c, events)
          /\ state' = [state EXCEPT ![c] = "kAdded"]
          /\ channels' = [channels EXCEPT ![fd[c]] = IF state[c] = "kNew" THEN c ELSE @]

(* Channel::Update with new enabled_events_, and Epoll::UpdateChannel. *)
UpdateChannel(c, events) ==
  /\ enabled' = [enabled EXCEPT ![c] = events]
  /\ IF state[c] = "kAdded"
     THEN /\ Control(IF events = {} THEN "kDel" ELSE "kMod", c, events)
          /\ state' = [state EXCEPT ![c] = IF events = {} THEN "kDeleted" ELSE @]
          /\ UNCHANGED channels
     ELSE /\ Control("kAdd", c, events)
          /\ state' = [state EXCEPT ![c] = "kAdded"]
          /\ channels' = [channels EXCEPT ![fd[c]] = IF state[c] = "kNew" THEN c ELSE @]

(* Channel::Remove and Epoll::RemoveChannel. *)
RemoveChannel(c) ==
  /\ channels' = [channels EXCEPT ![fd[c]] = None]
  /\ IF state[c] = "kAdded" THEN Control("kDel", c, {})
     ELSE UNCHANGED <<interest, edges, refused>>
  /\ state' = [state EXCEPT ![c] = "kNew"]
  /\ UNCHANGED enabled

-----------------------------------------------------------------------------
(* A destructor is two calls on a channel, and the acceptor's goes on to free *)
(* it: nothing else is done on the loop's thread between them.                *)
Destructing == (\E c \in Channels : stage[c] = "leaving") \/ stage[Acceptor] = "removed"

(* The loop's thread runs a handler or a functor. *)
InBody == (phase = "functors" \/ current # None) /\ ~Destructing

BecomesIn(c, s) == stage' = [stage EXCEPT ![c] = s] /\ UNCHANGED fd

Becomes(c, s) == BecomesIn(c, s) /\ UNCHANGED loop

(* A socket is made, and a channel for it: accept() and the TcpConnection's    *)
(* constructor, on the base loop's thread, or the acceptor's constructor.      *)
New(c, f) ==
  /\ stage[c] = "none" /\ \A d \in Channels : fd[d] # f
  /\ stage' = [stage EXCEPT ![c] = "made"]
  /\ fd' = [fd EXCEPT ![c] = f]
  /\ UNCHANGED <<epoll, loop>>

(* InformConnected or Acceptor::Listen: EnableReading. *)
Open(c) ==
  /\ InBody /\ stage[c] = "made"
  /\ UpdateChannel(c, enabled[c] \cup {"read"})
  /\ Becomes(c, "open")

(* SendInLoop keeps what did not fit: EnableWriting. *)
EnableWriting(c) ==
  /\ InBody /\ stage[c] = "open" /\ "write" \notin enabled[c]
  /\ UpdateChannel(c, enabled[c] \cup {"write"})
  /\ UNCHANGED <<owners, loop>>

(* HandleWrite has written all: DisableWriting. *)
DisableWriting(c) ==
  /\ InBody /\ current = c /\ "write" \in enabled[c]
  /\ UpdateChannel(c, enabled[c] \ {"write"})
  /\ UNCHANGED <<owners, loop>>

(* Mutant of HandleClose: the channel is removed there and then, as a line    *)
(* that is commented out in the code would.                                   *)
HandleCloseRemoves(c) ==
  /\ InBody /\ stage[c] = "open"
  /\ RemoveChannel(c)
  /\ Becomes(c, "removed")

(* HandleClose, of this connection's event or by ForceClose in any handler or *)
(* functor: DisableAll.                                                       *)
HandleClose(c) ==
  /\ InBody /\ stage[c] = "open"
  /\ UpdateChannel(c, {})
  /\ Becomes(c, "closed")

(* ConnectionDestroyed, in a functor: Remove. *)
ConnectionDestroyed(c) ==
  /\ InBody /\ phase = "functors" /\ stage[c] = "closed"
  /\ RemoveChannel(c)
  /\ Becomes(c, "removed")

(* ~Acceptor in Stop, called in a functor or in any handler of the loop, and  *)
(* whether it listened or not: DisableAll, which adds a channel that is new,  *)
(* and Remove.                                                                *)
DestroyAcceptor ==
  /\ InBody /\ stage[Acceptor] \in {"made", "open"}
  /\ UpdateChannel(Acceptor, {})
  /\ BecomesIn(Acceptor, "leaving")
  /\ torn' = (phase = "handle")
  /\ UNCHANGED <<size, active, current, phase>>

(* ~EventLoop, when Start has returned, does the same with its eventfd. *)
DestroyLoop ==
  /\ phase = "left" /\ stage[Wakeup] = "open"
  /\ UpdateChannel(Wakeup, {})
  /\ Becomes(Wakeup, "leaving")

RemoveLeaving(c) ==
  /\ stage[c] = "leaving"
  /\ RemoveChannel(c)
  /\ Becomes(c, "removed")

(* The owner goes, on any thread, and ~Socket (for the eventfd, ~EventLoop)    *)
(* closes the descriptor.  The kernel forgets a descriptor that is closed.     *)
Free(c) ==
  /\ stage[c] = "removed"
  /\ stage' = [stage EXCEPT ![c] = "none"]
  /\ fd' = [fd EXCEPT ![c] = None]
  /\ interest' = [interest EXCEPT ![fd[c]] = None]
  /\ edges' = edges \ {fd[c]}
  /\ enabled' = [enabled EXCEPT ![c] = {}]
  /\ UNCHANGED <<state, channels, refused, loop>>

(* Something happens on a descriptor that is watched. *)
Occur(f) ==
  /\ interest[f] # None
  /\ edges' = edges \cup {f}
  /\ UNCHANGED <<owners, enabled, state, channels, interest, refused, loop>>

-----------------------------------------------------------------------------
(* Mutant of Take: the last event is not looked at. *)
TakeButOne(taken) ==
  /\ phase = "select"
  /\ edges' = edges \ taken
  /\ active' = {[channel |-> interest[f].channel, fd |-> f] :
                  f \in {g \in taken : Cardinality(taken) < size}}
  /\ size' = IF Cardinality(taken) = size THEN 2 * size ELSE size
  /\ phase' = "handle"
  /\ UNCHANGED <<owners, enabled, state, channels, interest, refused, current, torn>>

(* Mutant of Take: events_ doubles whenever there was an event. *)
TakeGrows(taken) ==
  /\ phase = "select"
  /\ edges' = edges \ taken
  /\ active' = {[channel |-> interest[f].channel, fd |-> f] : f \in taken}
  /\ size' = IF taken # {} THEN 2 * size ELSE size
  /\ phase' = "handle"
  /\ UNCHANGED <<owners, enabled, state, channels, interest, refused, current, torn>>

(* Epoll::Select with the events of the descriptors taken. *)
Take(taken) ==
  /\ phase = "select"
  /\ edges' = edges \ taken
  /\ active' = {[channel |-> interest[f].channel, fd |-> f] : f \in taken}
  /\ size' = IF Cardinality(taken) = size THEN 2 * size ELSE size
  /\ phase' = "handle"
  /\ UNCHANGED <<owners, enabled, state, channels, interest, refused, current, torn>>

(* epoll_wait reports as many events as there are, or as the array takes. *)
Fits(taken) ==
  \/ taken = edges /\ Cardinality(edges) <= size
  \/ Cardinality(taken) = size /\ Cardinality(edges) > size

Select == \E taken \in SUBSET edges : Fits(taken) /\ Take(taken)

(* The loop uses channel c.  The acceptor's is gone when a handler of this    *)
(* iteration destroyed it: that is undefined, and ends what the model says.   *)
Uses(c) == phase' = IF torn /\ c = Acceptor THEN "undefined" ELSE phase

(* Channel::HandleEvent: a channel with no events enabled is passed over. *)
HandleEvent(a) ==
  /\ phase = "handle" /\ current = None
  /\ active' = active \ {a}
  /\ Uses(a.channel)
  /\ current' = IF phase' = "undefined" \/ enabled[a.channel] = {} THEN None ELSE a.channel
  /\ UNCHANGED <<owners, epoll, size, torn>>

(* The handler returns to its channel's HandleEvent. *)
HandlerReturns ==
  /\ current # None /\ ~Destructing
  /\ Uses(current)
  /\ current' = None
  /\ UNCHANGED <<owners, epoll, size, active, torn>>

HandlersDone ==
  /\ phase = "handle" /\ current = None /\ active = {}
  /\ phase' = "functors" /\ torn' = FALSE
  /\ UNCHANGED <<owners, epoll, size, active, current>>

FunctorsDone ==
  /\ phase = "functors" /\ ~Destructing
  /\ phase' = "select"
  /\ UNCHANGED <<owners, epoll, size, active, current, torn>>

(* quit_ is found set. *)
Leave ==
  /\ phase = "select"
  /\ phase' = "left"
  /\ UNCHANGED <<owners, epoll, size, active, current, torn>>

-----------------------------------------------------------------------------
LoopStep ==
  \/ Select \/ (\E a \in active : HandleEvent(a)) \/ HandlerReturns \/ HandlersDone
  \/ FunctorsDone \/ (\E c \in {Wakeup, Acceptor} : RemoveLeaving(c)) \/ Free(Acceptor)

BodyStep ==
  \/ DestroyAcceptor \/ DestroyLoop
  \/ \E c \in Channels \ {Wakeup} : Open(c)
  \/ \E c \in Connections :
       EnableWriting(c) \/ DisableWriting(c) \/ HandleClose(c) \/ ConnectionDestroyed(c)

OutsideStep ==
  \/ \E c \in Channels \ {Wakeup}, f \in Fds : New(c, f)
  \/ \E c \in Channels \ {Acceptor} : Free(c)
  \/ \E f \in Fds : Occur(f)

Next == LoopStep \/ Leave \/ BodyStep \/ OutsideStep

SafeSpec == Init /\ [][Next]_vars

(* The loop runs; handlers return, and so do the functors of an iteration.    *)
(* The kernel keeps the ready descriptors in a list and reports from its      *)
(* front, so one that stays ready is reported.                                *)
Fairness ==
  /\ WF_vars(LoopStep) /\ SF_vars(HandlerReturns) /\ SF_vars(FunctorsDone)
  /\ \A f \in Fds : SF_vars(\E taken \in SUBSET edges : f \in taken /\ Fits(taken) /\ Take(taken))

Spec == SafeSpec /\ Fairness

-----------------------------------------------------------------------------
(* A descriptor is watched for the channel that is kAdded on it, and for the  *)
(* events that are enabled there.                                             *)
KernelAgrees ==
  /\ \A f \in Fds : interest[f] # None =>
       LET c == interest[f].channel
       IN fd[c] = f /\ state[c] = "kAdded" /\ interest[f].events = enabled[c]
  /\ \A c \in Channels : state[c] = "kAdded" =>
       fd[c] # None /\ interest[fd[c]] # None /\ interest[fd[c]].channel = c

(* channels_ has the channels that were added and not removed. *)
MapAgrees == \A f \in Fds, c \in Channels :
  channels[f] = c <=> fd[c] = f /\ state[c] \in {"kAdded", "kDeleted"}

(* Kernel, channels_ and the channels tell one story, however descriptors and *)
(* addresses are used again: epoll_ctl is never refused (Update would throw   *)
(* out of a handler or functor), and no closed connection is watched.         *)
RegistrationsAgree ==
  /\ ~refused /\ KernelAgrees /\ MapAgrees
  /\ \A c \in Channels : stage[c] \in {"closed", "removed"} => state[c] # "kAdded"

(* An event that Select has fetched is handled by the channel it was for: the *)
(* channel still exists, and still stands for that descriptor, whatever other *)
(* handlers of the iteration do.  The exception is the acceptor's, once one   *)
(* of them has called Stop: that one is undefined.                            *)
EventsFindTheirChannel ==
  LET Finds(c, f) == \/ stage[c] \in {"open", "closed"} /\ fd[c] = f
                     \/ torn /\ c = Acceptor
  IN /\ \A a \in active : Finds(a.channel, a.fd)
     /\ current # None => Finds(current, fd[current])
     /\ phase = "undefined" => torn

(* An event of an open channel is handled, even while more descriptors are    *)
(* ready than events_ takes at a time, unless the channel is closed first,    *)
(* the loop ends, or the acceptor was destroyed under its own event.          *)
EdgesAreHandled == \A c \in Channels :
  (stage[c] = "open" /\ fd[c] \in edges) ~>
    (current = c \/ stage[c] # "open" \/ phase \in {"left", "undefined"})
=============================================================================
