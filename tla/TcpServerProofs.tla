--------------------------- MODULE TcpServerProofs ---------------------------
(***************************************************************************)
(* TcpServer.tla for any connections, loops and bounds: it implements      *)
(* ConnectionLife, no loop calls a channel of a connection that is gone,   *)
(* a closed one is never lost, and undefined behaviour takes a Stop.       *)
(*                                                                         *)
(* The argument is about one connection at a time.  The stage it is in     *)
(* determines its state, its channel and which functors about it may be    *)
(* pending, and where: Inform, Remove and Destroy at most once each, so    *)
(* that none of them can find the connection at another stage.  Handlers   *)
(* are compositions of operators on the record Now, with a lemma for each. *)
(***************************************************************************)
EXTENDS TcpServer, SequenceTheorems, TLAPS

-----------------------------------------------------------------------------
(* A functor is pending in a queue, at most once. *)
In(f, q) == \E i \in 1 .. Len(q) : q[i] = f

Once(f, q) == \A i, j \in 1 .. Len(q) : q[i] = f /\ q[j] = f => i = j

(* The end of a write is told of before the connection is destroyed. *)
Completes(c, q) == \A i, j \in 1 .. Len(q) :
  q[i] = Functor("Destroy", c) /\ q[j] = Functor("Complete", c) => j < i

LEMMA InAppend ==
  ASSUME NEW S, NEW q \in Seq(S), NEW e \in S, NEW f
  PROVE  In(f, Append(q, e)) <=> In(f, q) \/ f = e
BY DEF In

LEMMA OnceAppend ==
  ASSUME NEW S, NEW q \in Seq(S), NEW e \in S, NEW f, Once(f, q), f # e \/ ~In(f, q)
  PROVE  Once(f, Append(q, e))
BY DEF In, Once

LEMMA TailIndex ==
  ASSUME NEW S, NEW q \in Seq(S), q # <<>>
  PROVE  /\ Tail(q) \in Seq(S) /\ Len(Tail(q)) = Len(q) - 1 /\ Len(q) \in Nat \ {0}
         /\ \A i \in 1 .. Len(q) - 1 : Tail(q)[i] = q[i + 1]
         /\ Head(q) = q[1] /\ Head(q) \in S
BY HeadTailProperties, LenProperties, EmptySeq

LEMMA InTail ==
  ASSUME NEW S, NEW q \in Seq(S), q # <<>>, NEW f
  PROVE  /\ In(f, Tail(q)) => In(f, q)
         /\ In(f, q) /\ f # Head(q) => In(f, Tail(q))
         /\ In(Head(q), q)
         /\ Once(f, q) => Once(f, Tail(q))
         /\ Once(f, q) /\ f = Head(q) => ~In(f, Tail(q))
<1>. DEFINE n == Len(q)
<1>1. /\ Len(Tail(q)) = n - 1 /\ n \in Nat \ {0} /\ Head(q) = q[1]
      /\ \A i \in 1 .. n - 1 : Tail(q)[i] = q[i + 1]
  BY TailIndex
<1>2. In(f, Tail(q)) => In(f, q)
  <2>. SUFFICES ASSUME NEW i \in 1 .. n - 1, Tail(q)[i] = f PROVE In(f, q)
    BY <1>1 DEF In
  <2>. QED BY <1>1, i + 1 \in 1 .. n DEF In
<1>3. In(f, q) /\ f # Head(q) => In(f, Tail(q))
  <2>. SUFFICES ASSUME NEW i \in 1 .. n, q[i] = f, f # q[1] PROVE In(f, Tail(q))
    BY <1>1 DEF In
  <2>1. i - 1 \in 1 .. n - 1
    BY <1>1
  <2>. QED BY <1>1, <2>1 DEF In
<1>4. In(Head(q), q)
  BY <1>1, 1 \in 1 .. n DEF In
<1>5. ASSUME Once(f, q) PROVE Once(f, Tail(q))
  <2>. SUFFICES ASSUME NEW i \in 1 .. n - 1, NEW j \in 1 .. n - 1, Tail(q)[i] = f, Tail(q)[j] = f
                PROVE  i = j
    BY <1>1 DEF Once
  <2>1. i + 1 \in 1 .. n /\ j + 1 \in 1 .. n /\ q[i + 1] = f /\ q[j + 1] = f
    BY <1>1
  <2>. QED BY <1>1, <1>5, <2>1 DEF Once
<1>6. ASSUME Once(f, q), f = Head(q) PROVE ~In(f, Tail(q))
  <2>. SUFFICES ASSUME NEW i \in 1 .. n - 1, Tail(q)[i] = f PROVE FALSE
    BY <1>1 DEF In
  <2>1. i + 1 \in 1 .. n /\ q[i + 1] = f /\ q[1] = f /\ 1 \in 1 .. n
    BY <1>1, <1>6
  <2>. QED BY <1>1, <1>6, <2>1 DEF Once
<1>. QED BY <1>2, <1>3, <1>4, <1>5, <1>6


LEMMA InCons ==
  ASSUME NEW S, NEW q \in Seq(S), NEW x \in S, NEW e
  PROVE  /\ <<x>> \o q \in Seq(S) /\ Len(<<x>> \o q) = Len(q) + 1
         /\ In(e, <<x>> \o q) <=> In(e, q) \/ e = x
         /\ Once(e, q) /\ (e # x \/ ~In(e, q)) => Once(e, <<x>> \o q)
<1>. DEFINE n == Len(q)
            r == <<x>> \o q
<1>1. /\ n \in Nat /\ r \in Seq(S) /\ Len(r) = n + 1 /\ r[1] = x
      /\ \A i \in 1 .. n : r[i + 1] = q[i]
  <2>1. <<x>> \in Seq(S) /\ Len(<<x>>) = 1 /\ <<x>>[1] = x
    OBVIOUS
  <2>2. \A i \in 1 .. n : i + 1 \in 1 .. n + 1 /\ ~(i + 1 <= 1) /\ i + 1 - 1 = i
    BY LenProperties
  <2>. QED BY <2>1, <2>2, ConcatProperties, LenProperties
<1>. HIDE DEF r
<1>2. \A i \in 1 .. n + 1 : i = 1 \/ (i - 1 \in 1 .. n /\ r[i] = q[i - 1])
  <2>. SUFFICES ASSUME NEW i \in 1 .. n + 1, i # 1 PROVE i - 1 \in 1 .. n /\ r[i] = q[i - 1]
    OBVIOUS
  <2>1. i - 1 \in 1 .. n /\ (i - 1) + 1 = i
    BY <1>1
  <2>. QED BY <1>1, <2>1
<1>3. \A i \in 1 .. n : i + 1 \in 1 .. n + 1
  BY <1>1
<1>4. In(e, r) <=> In(e, q) \/ e = x
  <2>1. DOMAIN r = 1 .. n + 1 /\ DOMAIN q = 1 .. n /\ 1 \in 1 .. n + 1
    BY <1>1, LenProperties
  <2>2. ASSUME NEW i \in DOMAIN r, r[i] = e PROVE In(e, q) \/ e = x
    BY <1>1, <1>2, <2>1, <2>2 DEF In
  <2>3. ASSUME NEW i \in DOMAIN q, q[i] = e PROVE In(e, r)
    <3>1. i + 1 \in DOMAIN r /\ r[i + 1] = e
      BY <1>1, <1>3, <2>1, <2>3
    <3>. QED BY <3>1 DEF In
  <2>4. e = x => In(e, r)
    BY <1>1, <2>1 DEF In
  <2>. QED BY <2>2, <2>3, <2>4 DEF In
<1>5. Once(e, q) /\ (e # x \/ ~In(e, q)) => Once(e, r)
  <2>. SUFFICES ASSUME Once(e, q), e # x \/ ~In(e, q), NEW i \in 1 .. n + 1, NEW j \in 1 .. n + 1,
                       r[i] = e, r[j] = e
                PROVE  i = j
    BY <1>1 DEF Once
  <2>1. CASE e # x
    <3>1. i - 1 \in 1 .. n /\ j - 1 \in 1 .. n /\ q[i - 1] = e /\ q[j - 1] = e
      BY <1>1, <1>2, <2>1
    <3>2. i - 1 = j - 1
      BY <3>1 DEF Once
    <3>. QED BY <1>1, <3>2
  <2>2. CASE ~In(e, q)
    BY <1>2, <2>2 DEF In
  <2>. QED BY <2>1, <2>2
<1>. QED BY <1>1, <1>4, <1>5 DEF r

LEMMA CompletesAppend ==
  ASSUME NEW S, NEW q \in Seq(S), NEW e \in S, NEW c, Completes(c, q),
         e # Functor("Complete", c) \/ ~In(Functor("Destroy", c), q)
  PROVE  Completes(c, Append(q, e))
<1>. DEFINE n == Len(q)
            r == Append(q, e)
<1>1. n \in Nat /\ Len(r) = n + 1 /\ r[n + 1] = e /\ \A i \in 1 .. n : r[i] = q[i]
  BY AppendProperties, LenProperties
<1>. HIDE DEF r
<1>2. \A i \in 1 .. n + 1 : i \in 1 .. n \/ i = n + 1
  BY <1>1
<1>3. Functor("Complete", c) # Functor("Destroy", c)
  BY DEF Functor
<1>. SUFFICES ASSUME NEW i \in 1 .. n + 1, NEW j \in 1 .. n + 1,
                     r[i] = Functor("Destroy", c), r[j] = Functor("Complete", c)
              PROVE  j < i
  BY <1>1 DEF Completes, r
<1>4. CASE i \in 1 .. n /\ j \in 1 .. n
  BY <1>1, <1>4 DEF Completes
<1>5. CASE i = n + 1
  BY <1>1, <1>2, <1>3, <1>5
<1>6. CASE i \in 1 .. n /\ j = n + 1
  BY <1>1, <1>6 DEF In
<1>. QED BY <1>2, <1>4, <1>5, <1>6

LEMMA CompletesTail ==
  ASSUME NEW S, NEW q \in Seq(S), q # <<>>, NEW c, Completes(c, q)
  PROVE  /\ Completes(c, Tail(q))
         /\ Head(q) = Functor("Destroy", c) => ~In(Functor("Complete", c), Tail(q))
<1>. DEFINE n == Len(q)
<1>1. /\ Len(Tail(q)) = n - 1 /\ n \in Nat \ {0} /\ Head(q) = q[1]
      /\ \A i \in 1 .. n - 1 : Tail(q)[i] = q[i + 1]
  BY TailIndex
<1>2. \A i \in 1 .. n - 1 : i + 1 \in 1 .. n
  BY <1>1
<1>3. Completes(c, Tail(q))
  <2>. SUFFICES ASSUME NEW i \in 1 .. n - 1, NEW j \in 1 .. n - 1,
                       q[i + 1] = Functor("Destroy", c), q[j + 1] = Functor("Complete", c)
                PROVE  j < i
    BY <1>1 DEF Completes
  <2>1. j + 1 < i + 1
    BY <1>2 DEF Completes
  <2>. QED BY <2>1
<1>4. ASSUME q[1] = Functor("Destroy", c), NEW j \in 1 .. n - 1, q[j + 1] = Functor("Complete", c)
      PROVE  FALSE
  <2>1. j + 1 < 1
    BY <1>1, <1>2, <1>4 DEF Completes
  <2>. QED BY <2>1
<1>. QED BY <1>1, <1>3, <1>4 DEF In
-----------------------------------------------------------------------------
(* What a connection is at each stage. *)
Records == [state : States, channel : ChannelStates, reading : BOOLEAN, loop : Loops,
            accepted : BOOLEAN, ups : Nat, downs : Nat, destroyed : Nat]

Quiet(r) == r.state = "kDisconnected" /\ ~r.reading

IsNew(r) ==
  ~r.accepted /\ r.ups = 0 /\ r.downs = 0 /\ r.destroyed = 0 /\ Quiet(r) /\ r.channel = "kNew"

IsAccepted(r) ==
  r.accepted /\ r.ups = 0 /\ r.downs = 0 /\ r.destroyed = 0 /\ Quiet(r) /\ r.channel = "kNew"

IsUp(r) ==
  /\ r.accepted /\ r.ups = 1 /\ r.downs = 0 /\ r.destroyed = 0
  /\ r.state # "kDisconnected" /\ r.reading /\ r.channel = "kAdded"

IsDown(r) ==
  r.accepted /\ r.ups = 1 /\ r.downs = 1 /\ r.destroyed = 0 /\ Quiet(r) /\ r.channel = "kDeleted"

IsDestroyed(r) ==
  r.accepted /\ r.ups = 1 /\ r.downs = 1 /\ r.destroyed = 1 /\ Quiet(r) /\ r.channel = "kNew"

ConnOps == Requests \cup {"Inform", "Remove", "Destroy"}

Functors == [op : ConnOps, conn : Conns] \cup [op : {"Listen", "StopAll"}, conn : {Acceptor}]

Kinds == {"up", "down", "data"}

Frames == [kind : Kinds, conn : Conns]

Typed(s) == s \in [conn : [Conns -> Records], connections : SUBSET Conns,
                   queue : [Loops -> Seq(Functors)], calls : [Loops -> Seq(Frames)]]

Pending(s, op, l, c) == In(Functor(op, c), s.queue[l])

(* A call for c has not returned; Told: its connection handler hears that it  *)
(* went down.                                                                 *)
Within(s, kind, l, c) == In(Call(kind, c), s.calls[l])

Told(s, l, c) == Within(s, "down", l, c)

(* Its stage, its functors, its calls and connections_ agree. *)
Stand(s, c) ==
  LET r == s.conn[c] IN
    /\ IsNew(r) \/ IsAccepted(r) \/ IsUp(r) \/ IsDown(r) \/ IsDestroyed(r)
    /\ c \in s.connections =>
         IsAccepted(r) \/ IsUp(r) \/ (IsDown(r) /\ (r.loop # Base \/ Told(s, Base, c)))
    /\ \A l \in Loops :
         /\ Pending(s, "Inform", l, c) => IsAccepted(r) /\ l = r.loop
         /\ Pending(s, "Remove", l, c) => IsDown(r) /\ l = Base /\ r.loop # Base
         /\ Pending(s, "Destroy", l, c) => IsDown(r) /\ l = r.loop /\ c \notin s.connections
         /\ Pending(s, "Complete", l, c) => (IsUp(r) \/ IsDown(r)) /\ l = r.loop
         /\ \A op \in {"ForceClose", "Shutdown", "Send"} :
              Pending(s, op, l, c) => r.accepted /\ l = r.loop
         /\ \A op \in {"Inform", "Remove", "Destroy"} : Once(Functor(op, c), s.queue[l])
         /\ Completes(c, s.queue[l])
         /\ \A kind \in Kinds : Within(s, kind, l, c) => (IsUp(r) \/ IsDown(r)) /\ l = r.loop
         /\ Told(s, l, c) => IsDown(r)
         /\ Once(Call("down", c), s.calls[l])
    /\ ~(Pending(s, "Remove", Base, c) /\ Pending(s, "Destroy", r.loop, c))
    /\ Told(s, r.loop, c) => ~Pending(s, "Remove", Base, c) /\ ~Pending(s, "Destroy", r.loop, c)

(* Until the server goes it keeps what is not closed, or not told yet ... *)
Kept(s, c, isGone) ==
  ~isGone /\ (IsAccepted(s.conn[c]) \/ IsUp(s.conn[c]) \/ Told(s, s.conn[c].loop, c)) =>
    c \in s.connections

(* ... and what is closed waits for its handler to return, or for a functor,  *)
(* unless its loop is gone.                                                   *)
Awaited(s, c, dead) ==
  IsDown(s.conn[c]) =>
    \/ Told(s, s.conn[c].loop, c)
    \/ Pending(s, "Remove", Base, c) \/ Pending(s, "Destroy", s.conn[c].loop, c)
    \/ s.conn[c].loop \in dead

Good(s, c, isGone, dead) == Stand(s, c) /\ Kept(s, c, isGone) /\ Awaited(s, c, dead)

Sound(s, isGone, dead) == Typed(s) /\ \A c \in Conns : Good(s, c, isGone, dead)

(* The stage as ConnectionLife counts. *)
Stage(s, c) ==
  LET r == s.conn[c] IN
    IF ~r.accepted THEN "new" ELSE IF r.ups = 0 THEN "accepted" ELSE IF r.downs = 0 THEN "up"
    ELSE IF r.destroyed # 0 THEN "destroyed" ELSE IF c \in s.connections THEN "down" ELSE "forgotten"

Rises == {<<"accepted", "up">>, <<"up", "down">>, <<"down", "forgotten">>}

(* Functors of connections are appended to queues. *)
Grows(old, new) == \A k \in Loops :
  /\ Len(old[k]) <= Len(new[k])
  /\ \A i \in 1 .. Len(old[k]) : new[k][i] = old[k][i]
  /\ \A i \in Len(old[k]) + 1 .. Len(new[k]) : new[k][i].conn \in Conns

(* At most one connection changes, and only one that is up on the base loop is *)
(* told there that it went down.                                               *)
OnlyMoves(s, t) ==
  /\ \A d \in Conns : t.conn[d].loop = s.conn[d].loop /\ t.conn[d].accepted = s.conn[d].accepted
  /\ \A d, e \in Conns : Stage(t, d) # Stage(s, d) /\ Stage(t, e) # Stage(s, e) => d = e
  /\ t.connections \subseteq s.connections
  /\ \A d \in Conns : Told(t, Base, d) =>
       Told(s, Base, d) \/ (Stage(s, d) = "up" /\ s.conn[d].loop = Base)

(* Application code is called for what opens or is open on loop l, or closed. *)
OnlyCalls(s, t, l) ==
  /\ \A k \in Loops \ {l} : t.calls[k] = s.calls[k]
  /\ \A k \in Loops : Len(s.calls[k]) <= Len(t.calls[k])
  /\ t.calls # s.calls => \E d \in Conns :
       \/ s.conn[d].loop = l /\ Stage(s, d) \in {"accepted", "up"}
       \/ t.conn[d].downs > t.conn[d].destroyed

(* What a step of loop l does: it may take a connection one stage further,    *)
(* call application code, and append to the queues in ks.                     *)
Moves(s, t, l, ks) ==
  /\ OnlyMoves(s, t) /\ OnlyCalls(s, t, l)
  /\ \A d \in Conns :
       \/ Stage(t, d) = Stage(s, d)
       \/ /\ <<Stage(s, d), Stage(t, d)>> \in Rises
          /\ s.conn[d].loop = l \/ Stage(s, d) = "down"
  /\ \A k \in Loops \ ks : t.queue[k] = s.queue[k]
  /\ Grows(s.queue, t.queue)

-----------------------------------------------------------------------------
Gone == stop.at = "gone"

Dead == {l \in Loops : phase[l] = "dead"}

DataInv == Sound(Now, Gone, Dead)

Stops == [by : {"nobody", "outside", "base"},
          at : {"no", "queued", "closing", "join", "done", "gone"},
          todo : SUBSET Conns, loop : 1 .. threads + 1, depth : Nat]

Harms == {"iterator", "loop", "acceptor", "server"}

ControlTypes ==
  /\ phase \in [Loops -> {"select", "busy", "off", "dead"}]
  /\ active \in [Loops -> SUBSET (Conns \cup {Acceptor})]
  /\ acceptor \in {"idle", "listening", "reset"}
  /\ threads \in {0} \cup Nums
  /\ turn \in {0} \cup 0 .. threads - 1
  /\ held \in SUBSET Conns
  /\ stop \in Stops
  /\ quit \in SUBSET Range(IoLoops)
  /\ ub \in SUBSET Harms

(* Events are left over, and calls not returned, in the middle of an          *)
(* iteration only; the base loop runs, and there is no other without a group. *)
LoopInv ==
  /\ \A l \in Loops : phase[l] # "busy" => active[l] = {} /\ calls[l] = <<>>
  /\ phase[Base] \notin {"off", "dead"}
  /\ threads = 0 => \A l \in Loops : l # Base => phase[l] = "off"
  /\ ub = {} => \A l \in Dead : queue[l] = <<>>

(* What was fetched is of the loop, was open and is not destroyed. *)
ActiveInv == \A l \in Loops : \A c \in active[l] \cap Conns :
  conn[c].loop = l /\ Stage(Now, c) \in {"up", "down", "forgotten"}

(* Where connections live. *)
PlaceInv ==
  /\ \A c \in Conns : conn[c].accepted =>
       /\ acceptor # "idle"
       /\ IF conn[c].loop = Base THEN threads = 0 /\ Stage(Now, c) # "accepted"
          ELSE threads # 0 /\ \E i \in 1 .. threads : conn[c].loop = IoLoops[i]
  /\ \A c \in held \cup stop.todo : conn[c].accepted

AcceptorInv ==
  /\ ub = {} /\ Acceptor \in active[Base] => acceptor = "listening"
  /\ acceptor = "reset" <=> stop.at \notin {"no", "queued"}

StopAllFunctor == Functor("StopAll", Acceptor)

ListenFunctor == Functor("Listen", Acceptor)

(* How far Stop got: what is up on the base loop is still to be closed, and   *)
(* when a Stop from outside has closed all, no handler is told of it.         *)
StopInv ==
  /\ stop.at \in {"no", "queued", "closing"} => stop.loop = 1 /\ Dead = {}
  /\ stop.at = "closing" => phase[Base] = "busy" /\ stop.depth <= Len(calls[Base])
  /\ \A l \in Loops : In(StopAllFunctor, queue[l]) => l = Base /\ stop.at = "queued"
  /\ Once(StopAllFunctor, queue[Base])
  /\ stop.at = "no" <=> stop.by = "nobody"
  /\ stop.at = "queued" => stop.by = "outside"
  /\ stop.by = "outside" => stop.depth = 0
  /\ stop.at # "closing" => stop.todo = {}
  /\ stop.at = "join" => stop.loop <= threads
  /\ stop.at = "join" => \A i \in 1 .. stop.loop - 1 : phase[IoLoops[i]] = "dead"
  /\ stop.at \in {"done", "gone"} => \A i \in 1 .. threads : phase[IoLoops[i]] = "dead"
  /\ stop.at \in {"closing", "join", "done", "gone"} =>
       \A c \in Conns : Stage(Now, c) = "up" /\ conn[c].loop = Base => c \in stop.todo
  /\ stop.by = "outside" /\ stop.at \in {"join", "done"} => \A c \in Conns : ~Told(Now, Base, c)

(* When the server is gone, nothing can open or close any more. *)
GoneInv == Gone =>
  /\ connections = {}
  /\ ub = {} => calls[Base] = <<>>
  /\ \A c \in Conns : ~Told(Now, Base, c)
  /\ \A c \in Conns : Stage(Now, c) \in {"accepted", "up"} => conn[c].loop \in Dead

(* A Listen that was queued comes before the work of Stop. *)
ListenInv == stop.by = "outside" =>
  \A j \in 1 .. Len(queue[Base]) : queue[Base][j] = ListenFunctor =>
    /\ stop.at = "queued"
    /\ \E i \in j + 1 .. Len(queue[Base]) : queue[Base][i] = StopAllFunctor

Control ==
  /\ ControlTypes /\ LoopInv /\ ActiveInv /\ PlaceInv /\ AcceptorInv
  /\ StopInv /\ GoneInv /\ ListenInv /\ UndefinedOnlyInStop

IInv == DataInv /\ Control

-----------------------------------------------------------------------------
(* The operators.  First the stage against the record. *)
LEMMA StageIs ==
  ASSUME NEW s, NEW c \in Conns, Stand(s, c)
  PROVE  /\ Stage(s, c) = "new" <=> IsNew(s.conn[c])
         /\ Stage(s, c) = "accepted" <=> IsAccepted(s.conn[c])
         /\ Stage(s, c) = "up" <=> IsUp(s.conn[c])
         /\ Stage(s, c) = "down" <=> IsDown(s.conn[c]) /\ c \in s.connections
         /\ Stage(s, c) = "forgotten" <=> IsDown(s.conn[c]) /\ c \notin s.connections
         /\ Stage(s, c) = "destroyed" <=> IsDestroyed(s.conn[c])
<1>1. CASE IsNew(s.conn[c])
  BY <1>1 DEF Stage, IsNew, IsAccepted, IsUp, IsDown, IsDestroyed
<1>2. CASE IsAccepted(s.conn[c])
  BY <1>2 DEF Stage, IsNew, IsAccepted, IsUp, IsDown, IsDestroyed
<1>3. CASE IsUp(s.conn[c])
  BY <1>3 DEF Stage, IsNew, IsAccepted, IsUp, IsDown, IsDestroyed
<1>4. CASE IsDown(s.conn[c])
  BY <1>4 DEF Stage, IsNew, IsAccepted, IsUp, IsDown, IsDestroyed
<1>5. CASE IsDestroyed(s.conn[c])
  BY <1>5 DEF Stage, IsNew, IsAccepted, IsUp, IsDown, IsDestroyed
<1>. QED BY <1>1, <1>2, <1>3, <1>4, <1>5 DEF Stand

LEMMA FunctorIs ==
  ASSUME NEW op \in ConnOps, NEW c \in Conns
  PROVE  /\ Functor(op, c) \in Functors /\ Functor(op, c).conn = c
         /\ \A p, d : Functor(op, c) = Functor(p, d) <=> op = p /\ c = d
BY DEF Functors, Functor

LEMMA CallIs ==
  ASSUME NEW kind \in Kinds, NEW c \in Conns
  PROVE  /\ Call(kind, c) \in Frames /\ Call(kind, c).conn = c
         /\ \A p, d : Call(kind, c) = Call(p, d) <=> kind = p /\ c = d
BY DEF Frames, Call

LEMMA ClosedIs ==
  ASSUME NEW r \in Records, IsUp(r)
  PROVE  Closed(r) \in Records /\ IsDown(Closed(r)) /\ Closed(r).loop = r.loop
<1>. DEFINE a == [r EXCEPT !.reading = FALSE]
            b == [a EXCEPT !.channel = "kDeleted"]
            e == [b EXCEPT !.state = "kDisconnected", !.downs = @ + 1]
<1>1. /\ a \in Records /\ a.channel = "kAdded" /\ ~a.reading /\ a.loop = r.loop
      /\ a.accepted /\ a.ups = 1 /\ a.downs = 0 /\ a.destroyed = 0
  BY DEF Records, IsUp
<1>. HIDE DEF a
<1>2. /\ b \in Records /\ b.channel = "kDeleted" /\ ~b.reading /\ b.loop = r.loop
      /\ b.accepted /\ b.ups = 1 /\ b.downs = 0 /\ b.destroyed = 0
  BY <1>1 DEF Records, ChannelStates
<1>3. DisableAll(r) = b
  <2>1. DisableAll(r) = Update(a)
    BY DEF DisableAll, a
  <2>. QED BY <1>1, <2>1 DEF Update
<1>4. Closed(r) = e
  BY <1>3 DEF Closed
<1>. HIDE DEF b
<1>5. e \in Records
  <2>. DEFINE n == b.downs + 1
  <2>1. n \in Nat /\ "kDisconnected" \in States
    BY <1>2 DEF States
  <2>. HIDE DEF n
  <2>. QED BY <1>2, <2>1, [b EXCEPT !.state = "kDisconnected", !.downs = n] \in Records DEF Records, n
<1>6. IsDown(e) /\ e.loop = r.loop
  <2>1. b.downs + 1 = 1
    BY <1>2
  <2>. QED BY <1>2, <2>1 DEF Records, IsDown, Quiet
<1>. QED BY <1>4, <1>5, <1>6

LEMMA OpenedIs ==
  ASSUME NEW r \in Records, IsAccepted(r)
  PROVE  Opened(r) \in Records /\ IsUp(Opened(r)) /\ Opened(r).loop = r.loop
<1>. DEFINE a == [r EXCEPT !.reading = TRUE]
            b == [a EXCEPT !.channel = "kAdded"]
            n == b.ups + 1
            e == [b EXCEPT !.state = "kConnected", !.ups = n]
<1>1. /\ a \in Records /\ a.channel = "kNew" /\ a.reading /\ a.loop = r.loop
      /\ a.accepted /\ a.ups = 0 /\ a.downs = 0 /\ a.destroyed = 0
  BY DEF Records, IsAccepted
<1>. HIDE DEF a
<1>2. /\ b \in Records /\ b.channel = "kAdded" /\ b.reading /\ b.loop = r.loop
      /\ b.accepted /\ b.ups = 0 /\ b.downs = 0 /\ b.destroyed = 0
  BY <1>1 DEF Records, ChannelStates
<1>3. EnableReading(r) = b
  <2>1. EnableReading(r) = Update(a)
    BY DEF EnableReading, a
  <2>. QED BY <1>1, <2>1 DEF Update
<1>4. Opened(r) = e
  BY <1>3 DEF Opened
<1>5. n = 1
  BY <1>2
<1>. HIDE DEF b, n
<1>6. e \in Records
  BY <1>2, <1>5 DEF Records, States
<1>7. IsUp(e) /\ e.loop = r.loop
  BY <1>2, <1>5 DEF Records, IsUp
<1>. QED BY <1>4, <1>6, <1>7

-----------------------------------------------------------------------------
(* The four things a handler does to a queue, to the calls and to a           *)
(* connection.  QueueInLoop appends a functor, ...                            *)
Pushed(s, t, l, f) ==
  /\ Typed(t) /\ t.conn = s.conn /\ t.connections = s.connections /\ t.calls = s.calls
  /\ \A k \in Loops : \A e : In(e, t.queue[k]) <=> In(e, s.queue[k]) \/ (k = l /\ e = f)
  /\ \A k \in Loops : \A e :
       Once(e, s.queue[k]) /\ (k # l \/ e # f \/ ~In(e, s.queue[k])) => Once(e, t.queue[k])
  /\ \A k \in Loops : \A c :
       Completes(c, s.queue[k]) /\
         (k # l \/ f # Functor("Complete", c) \/ ~In(Functor("Destroy", c), s.queue[k])) =>
       Completes(c, t.queue[k])
  /\ \A k \in Loops \ {l} : t.queue[k] = s.queue[k]
  /\ t.queue[l] = Append(s.queue[l], f)

(* ... a functor f is taken from the queue of l, ... *)
Takes(s, t, l, f) ==
  /\ f \in Functors /\ In(f, s.queue[l])
  /\ Typed(t) /\ t.conn = s.conn /\ t.connections = s.connections /\ t.calls = s.calls
  /\ \A k \in Loops : \A e : In(e, t.queue[k]) => In(e, s.queue[k])
  /\ \A k \in Loops : \A e : In(e, s.queue[k]) /\ (k # l \/ e # f) => In(e, t.queue[k])
  /\ \A k \in Loops : \A e : Once(e, s.queue[k]) => Once(e, t.queue[k])
  /\ Once(f, s.queue[l]) => ~In(f, t.queue[l])
  /\ \A k \in Loops : \A c : Completes(c, s.queue[k]) => Completes(c, t.queue[k])
  /\ \A c : f = Functor("Destroy", c) /\ Completes(c, s.queue[l]) =>
       ~In(Functor("Complete", c), t.queue[l])
  /\ \A k \in Loops \ {l} : t.queue[k] = s.queue[k]
  /\ t.queue[l] = Tail(s.queue[l])

(* ... a call e is made, or returns on l, ... *)
Enters(s, t, l, e) ==
  /\ Typed(t) /\ t.conn = s.conn /\ t.connections = s.connections /\ t.queue = s.queue
  /\ \A k \in Loops : \A x : In(x, t.calls[k]) <=> In(x, s.calls[k]) \/ (k = l /\ x = e)
  /\ \A k \in Loops : \A x :
       Once(x, s.calls[k]) /\ (k # l \/ x # e \/ ~In(x, s.calls[k])) => Once(x, t.calls[k])
  /\ \A k \in Loops \ {l} : t.calls[k] = s.calls[k]
  /\ Len(t.calls[l]) = Len(s.calls[l]) + 1

Returns(s, t, l, e) ==
  /\ e \in Frames /\ In(e, s.calls[l])
  /\ Typed(t) /\ t.conn = s.conn /\ t.connections = s.connections /\ t.queue = s.queue
  /\ \A k \in Loops : \A x : In(x, t.calls[k]) => In(x, s.calls[k])
  /\ \A k \in Loops : \A x : In(x, s.calls[k]) /\ (k # l \/ x # e) => In(x, t.calls[k])
  /\ \A k \in Loops : \A x : Once(x, s.calls[k]) => Once(x, t.calls[k])
  /\ Once(e, s.calls[l]) => ~In(e, t.calls[l])
  /\ \A k \in Loops \ {l} : t.calls[k] = s.calls[k]
  /\ Len(t.calls[l]) = Len(s.calls[l]) - 1

(* ... and the record of c becomes r. *)
Changed(s, t, c, r) ==
  /\ Typed(t) /\ t.conn[c] = r /\ t.connections = s.connections /\ t.queue = s.queue
  /\ t.calls = s.calls /\ \A d \in Conns \ {c} : t.conn[d] = s.conn[d]

LEMMA Push ==
  ASSUME NEW s, Typed(s), NEW l \in Loops, NEW f \in Functors
  PROVE  Pushed(s, QueueInLoop(s, l, f), l, f)
<1>. DEFINE t == QueueInLoop(s, l, f)
<1>1. /\ t.conn = s.conn /\ t.connections = s.connections /\ t.calls = s.calls
      /\ t.queue = [s.queue EXCEPT ![l] = Append(@, f)] /\ t = [s EXCEPT !.queue = t.queue]
  BY DEF QueueInLoop, Typed
<1>2. s.queue[l] \in Seq(Functors) /\ s.queue \in [Loops -> Seq(Functors)]
  BY DEF Typed
<1>3. Append(s.queue[l], f) \in Seq(Functors)
  BY <1>2, AppendProperties
<1>4. t.queue \in [Loops -> Seq(Functors)] /\ t.queue[l] = Append(s.queue[l], f)
      /\ \A k \in Loops \ {l} : t.queue[k] = s.queue[k]
  BY <1>1, <1>2, <1>3
<1>5. Typed(t)
  BY <1>1, <1>4 DEF Typed
<1>. HIDE DEF t
<1>6. \A e : In(e, t.queue[l]) <=> In(e, s.queue[l]) \/ e = f
  BY <1>2, <1>4, InAppend
<1>7. \A e : Once(e, s.queue[l]) /\ (e # f \/ ~In(e, s.queue[l])) => Once(e, t.queue[l])
  BY <1>2, <1>4, OnceAppend
<1>8. \A c : Completes(c, s.queue[l]) /\
             (f # Functor("Complete", c) \/ ~In(Functor("Destroy", c), s.queue[l])) =>
        Completes(c, t.queue[l])
  BY <1>2, <1>4, CompletesAppend
<1>9. Pushed(s, t, l, f)
  BY <1>1, <1>4, <1>5, <1>6, <1>7, <1>8 DEF Pushed
<1>. QED BY <1>9 DEF t

LEMMA Take ==
  ASSUME NEW s, Typed(s), NEW l \in Loops, s.queue[l] # <<>>
  PROVE  Takes(s, [s EXCEPT !.queue[l] = Tail(@)], l, Head(s.queue[l]))
<1>. DEFINE t == [s EXCEPT !.queue[l] = Tail(@)]
            f == Head(s.queue[l])
<1>1. s.queue[l] \in Seq(Functors)
  BY DEF Typed
<1>2. Tail(s.queue[l]) \in Seq(Functors) /\ f \in Functors
  BY <1>1, TailIndex
<1>3. /\ t.conn = s.conn /\ t.connections = s.connections /\ t.calls = s.calls /\ Typed(t)
      /\ (\A k \in Loops \ {l} : t.queue[k] = s.queue[k])
      /\ t.queue[l] = Tail(s.queue[l])
  BY <1>2 DEF Typed
<1>. HIDE DEF t
<1>4. /\ In(f, s.queue[l])
      /\ \A e : In(e, t.queue[l]) => In(e, s.queue[l])
      /\ \A e : In(e, s.queue[l]) /\ e # f => In(e, t.queue[l])
      /\ \A e : Once(e, s.queue[l]) => Once(e, t.queue[l])
      /\ Once(f, s.queue[l]) => ~In(f, t.queue[l])
  BY <1>1, <1>3, InTail
<1>5. \A c : Completes(c, s.queue[l]) =>
        /\ Completes(c, t.queue[l])
        /\ f = Functor("Destroy", c) => ~In(Functor("Complete", c), t.queue[l])
  BY <1>1, <1>3, CompletesTail
<1>. HIDE DEF f
<1>6. Takes(s, t, l, f)
  BY <1>2, <1>3, <1>4, <1>5 DEF Takes
<1>. QED BY <1>6 DEF t, f

LEMMA Enter ==
  ASSUME NEW s, Typed(s), NEW l \in Loops, NEW kind \in Kinds, NEW c \in Conns
  PROVE  Enters(s, Calling(s, l, kind, c), l, Call(kind, c))
<1>. DEFINE t == Calling(s, l, kind, c)
            e == Call(kind, c)
            q == <<e>> \o s.calls[l]
<1>1. s.calls[l] \in Seq(Frames) /\ s.calls \in [Loops -> Seq(Frames)] /\ e \in Frames
  BY CallIs DEF Typed
<1>. HIDE DEF e
<1>2. q \in Seq(Frames) /\ Len(q) = Len(s.calls[l]) + 1
  BY <1>1, InCons
<1>3. /\ t.conn = s.conn /\ t.connections = s.connections /\ t.queue = s.queue
      /\ t.calls = [s.calls EXCEPT ![l] = q] /\ t = [s EXCEPT !.calls = t.calls]
  BY DEF Calling, Typed, e
<1>4. \A x : /\ In(x, q) <=> In(x, s.calls[l]) \/ x = e
             /\ Once(x, s.calls[l]) /\ (x # e \/ ~In(x, s.calls[l])) => Once(x, q)
  BY <1>1, InCons
<1>. HIDE DEF q
<1>5. t.calls \in [Loops -> Seq(Frames)] /\ t.calls[l] = q
      /\ \A k \in Loops \ {l} : t.calls[k] = s.calls[k]
  BY <1>1, <1>2, <1>3
<1>6. Typed(t)
  BY <1>3, <1>5 DEF Typed
<1>. HIDE DEF t
<1>7. Enters(s, t, l, e)
  BY <1>2, <1>3, <1>4, <1>5, <1>6 DEF Enters
<1>. QED BY <1>7 DEF t, e

LEMMA GoBack ==
  ASSUME NEW s, Typed(s), NEW l \in Loops, s.calls[l] # <<>>
  PROVE  Returns(s, [s EXCEPT !.calls[l] = Tail(@)], l, Head(s.calls[l]))
<1>. DEFINE t == [s EXCEPT !.calls[l] = Tail(@)]
            e == Head(s.calls[l])
<1>1. s.calls[l] \in Seq(Frames)
  BY DEF Typed
<1>2. /\ Tail(s.calls[l]) \in Seq(Frames) /\ e \in Frames
      /\ Len(Tail(s.calls[l])) = Len(s.calls[l]) - 1
  BY <1>1, TailIndex
<1>3. /\ t.conn = s.conn /\ t.connections = s.connections /\ t.queue = s.queue /\ Typed(t)
      /\ (\A k \in Loops \ {l} : t.calls[k] = s.calls[k])
      /\ t.calls[l] = Tail(s.calls[l])
  BY <1>2 DEF Typed
<1>. HIDE DEF t
<1>4. /\ In(e, s.calls[l])
      /\ \A x : In(x, t.calls[l]) => In(x, s.calls[l])
      /\ \A x : In(x, s.calls[l]) /\ x # e => In(x, t.calls[l])
      /\ \A x : Once(x, s.calls[l]) => Once(x, t.calls[l])
      /\ Once(e, s.calls[l]) => ~In(e, t.calls[l])
  BY <1>1, <1>3, InTail
<1>. HIDE DEF e
<1>5. Returns(s, t, l, e)
  BY <1>2, <1>3, <1>4 DEF Returns
<1>. QED BY <1>5 DEF t, e

LEMMA Change ==
  ASSUME NEW s, Typed(s), NEW c \in Conns, NEW r \in Records
  PROVE  Changed(s, [s EXCEPT !.conn[c] = r], c, r)
BY DEF Changed, Typed

(* One functor of a connection is appended. *)
LEMMA PushGrows ==
  ASSUME NEW s, Typed(s), NEW l \in Loops, NEW f \in Functors, f.conn \in Conns,
         NEW t, Pushed(s, t, l, f)
  PROVE  Grows(s.queue, t.queue)
<1>1. /\ \A k \in Loops \ {l} : t.queue[k] = s.queue[k]
      /\ t.queue[l] = Append(s.queue[l], f)
  BY DEF Pushed
<1>2. \A k \in Loops : s.queue[k] \in Seq(Functors) /\ Len(s.queue[k]) \in Nat
  BY LenProperties DEF Typed
<1>3. /\ Len(t.queue[l]) = Len(s.queue[l]) + 1
      /\ \A i \in 1 .. Len(s.queue[l]) : t.queue[l][i] = s.queue[l][i]
      /\ t.queue[l][Len(s.queue[l]) + 1] = f
  BY <1>1, <1>2, AppendProperties
<1>4. \A i \in Len(s.queue[l]) + 1 .. Len(t.queue[l]) : i = Len(s.queue[l]) + 1
  BY <1>2, <1>3
<1>5. \A k \in Loops \ {l} : Len(s.queue[k]) + 1 .. Len(t.queue[k]) = {}
  BY <1>1, <1>2
<1>6. ASSUME NEW k \in Loops
      PROVE  /\ Len(s.queue[k]) <= Len(t.queue[k])
             /\ \A i \in 1 .. Len(s.queue[k]) : t.queue[k][i] = s.queue[k][i]
             /\ \A i \in Len(s.queue[k]) + 1 .. Len(t.queue[k]) : t.queue[k][i].conn \in Conns
  <2>1. CASE k = l
    BY <1>2, <1>3, <1>4, <2>1
  <2>2. CASE k # l
    BY <1>1, <1>2, <1>5, <2>2
  <2>. QED BY <2>1, <2>2
<1>. QED BY <1>6 DEF Grows

LEMMA GrowsItself ==
  ASSUME NEW s, Typed(s) PROVE Grows(s.queue, s.queue)
<1>1. \A k \in Loops : Len(s.queue[k]) \in Nat
  BY LenProperties DEF Typed
<1>. QED BY <1>1 DEF Grows

-----------------------------------------------------------------------------
(* A connection that is left alone. *)
Same(s, t, d) ==
  /\ t.conn[d] = s.conn[d]
  /\ d \in t.connections <=> d \in s.connections
  /\ \A k \in Loops :
       /\ \A op \in ConnOps : Pending(t, op, k, d) <=> Pending(s, op, k, d)
       /\ \A op \in ConnOps : Once(Functor(op, d), s.queue[k]) => Once(Functor(op, d), t.queue[k])
       /\ Completes(d, s.queue[k]) => Completes(d, t.queue[k])
       /\ \A kind \in Kinds : Within(t, kind, k, d) <=> Within(s, kind, k, d)
       /\ Once(Call("down", d), s.calls[k]) => Once(Call("down", d), t.calls[k])

Others(s, t, c) == \A d \in Conns \ {c} : Same(s, t, d)

LEMMA SameGood ==
  ASSUME NEW s, NEW t, NEW g, NEW D, NEW d \in Conns, Good(s, d, g, D), Same(s, t, d),
         s.conn[d].loop \in Loops
  PROVE  Good(t, d, g, D) /\ Stage(t, d) = Stage(s, d)
<1>. Base \in Loops /\ "down" \in Kinds
  BY DEF Loops, Kinds
<1>1. /\ Stand(s, d) /\ Kept(s, d, g) /\ Awaited(s, d, D)
      /\ \A k \in Loops : Told(t, k, d) <=> Told(s, k, d)
  BY DEF Good, Same, Told
<1>2. Stand(t, d)
  BY <1>1 DEF Same, Stand, ConnOps, Requests
<1>3. Kept(t, d, g)
  BY <1>1 DEF Same, Kept
<1>4. Awaited(t, d, D)
  BY <1>1 DEF Same, Awaited, ConnOps
<1>5. Stage(t, d) = Stage(s, d)
  BY DEF Same, Stage
<1>. QED BY <1>2, <1>3, <1>4, <1>5 DEF Good

LEMMA OthersAfter ==
  ASSUME NEW s, NEW t, NEW u, NEW c, Others(s, t, c), Others(t, u, c)
  PROVE  Others(s, u, c)
BY DEF Others, Same

LEMMA PushOthers ==
  ASSUME NEW s, NEW t, NEW l, NEW op \in ConnOps, NEW c \in Conns, Pushed(s, t, l, Functor(op, c))
  PROVE  Others(s, t, c)
<1>. SUFFICES ASSUME NEW d \in Conns \ {c} PROVE Same(s, t, d)
  BY DEF Others
<1>1. \A o : Functor(o, d) # Functor(op, c)
  BY DEF Functor
<1>. QED BY <1>1 DEF Pushed, Same, Pending, Within

LEMMA TakeOthers ==
  ASSUME NEW s, NEW t, NEW l, NEW f, NEW c, Takes(s, t, l, f), f.conn = c
  PROVE  Others(s, t, c)
<1>. SUFFICES ASSUME NEW d \in Conns \ {c} PROVE Same(s, t, d)
  BY DEF Others
<1>1. \A o : Functor(o, d) # f
  BY DEF Functor
<1>. QED BY <1>1 DEF Takes, Same, Pending, Within

LEMMA EnterOthers ==
  ASSUME NEW s, NEW t, NEW l, NEW kind, NEW c, Enters(s, t, l, Call(kind, c))
  PROVE  Others(s, t, c)
<1>. SUFFICES ASSUME NEW d \in Conns \ {c} PROVE Same(s, t, d)
  BY DEF Others
<1>1. \A k : Call(k, d) # Call(kind, c)
  BY DEF Call
<1>. QED BY <1>1 DEF Enters, Same, Pending, Within

LEMMA ReturnOthers ==
  ASSUME NEW s, NEW t, NEW l, NEW kind, NEW c, Returns(s, t, l, Call(kind, c))
  PROVE  Others(s, t, c)
<1>. SUFFICES ASSUME NEW d \in Conns \ {c} PROVE Same(s, t, d)
  BY DEF Others
<1>1. \A k : Call(k, d) # Call(kind, c)
  BY DEF Call
<1>. QED BY <1>1 DEF Returns, Same, Pending, Within

LEMMA ChangeOthers ==
  ASSUME NEW s, NEW t, NEW c, NEW r, Changed(s, t, c, r)
  PROVE  Others(s, t, c)
BY DEF Changed, Others, Same, Pending, Within

(* When all others are left alone, c decides. *)
LEMMA OthersSound ==
  ASSUME NEW g, NEW D, NEW s, Typed(s), NEW c \in Conns, \A d \in Conns \ {c} : Good(s, d, g, D),
         NEW t, Typed(t), Others(s, t, c), Good(t, c, g, D)
  PROVE  /\ Sound(t, g, D) /\ \A d \in Conns \ {c} : Stage(t, d) = Stage(s, d)
<1>1. \A d \in Conns \ {c} : s.conn[d].loop \in Loops /\ Same(s, t, d) /\ Good(s, d, g, D)
  BY DEF Typed, Records, Others
<1>2. \A d \in Conns \ {c} : Good(t, d, g, D) /\ Stage(t, d) = Stage(s, d)
  BY <1>1, SameGood
<1>. QED BY <1>2 DEF Sound

LEMMA OthersMove ==
  ASSUME NEW s, NEW c \in Conns, NEW t, Others(s, t, c),
         \A d \in Conns \ {c} : Stage(t, d) = Stage(s, d),
         t.conn[c].loop = s.conn[c].loop, t.conn[c].accepted = s.conn[c].accepted,
         t.connections \subseteq s.connections,
         Told(t, Base, c) => Told(s, Base, c) \/ (Stage(s, c) = "up" /\ s.conn[c].loop = Base)
  PROVE  OnlyMoves(s, t)
<1>1. \A d \in Conns \ {c} : t.conn[d] = s.conn[d] /\ (Told(t, Base, d) <=> Told(s, Base, d))
  BY DEF Others, Same, Told, Kinds, Loops
<1>. QED BY <1>1 DEF OnlyMoves

LEMMA SameCalls ==
  ASSUME NEW s, Typed(s), NEW t, t.calls = s.calls, NEW l
  PROVE  OnlyCalls(s, t, l)
<1>1. \A k \in Loops : Len(s.calls[k]) \in Nat
  BY LenProperties DEF Typed
<1>. QED BY <1>1 DEF OnlyCalls

LEMMA EnterCalls ==
  ASSUME NEW s, Typed(s), NEW t, NEW l, NEW e, Enters(s, t, l, e),
         NEW d \in Conns, \/ s.conn[d].loop = l /\ Stage(s, d) \in {"accepted", "up"}
                          \/ t.conn[d].downs > t.conn[d].destroyed
  PROVE  OnlyCalls(s, t, l)
<1>1. \A k \in Loops : Len(s.calls[k]) \in Nat
  BY LenProperties DEF Typed
<1>2. \A k \in Loops : Len(s.calls[k]) <= Len(t.calls[k])
  BY <1>1 DEF Enters
<1>. QED BY <1>2 DEF OnlyCalls, Enters

LEMMA MovesNothing ==
  ASSUME NEW s, Typed(s), NEW l PROVE Moves(s, s, l, {})
BY GrowsItself, SameCalls DEF Moves, OnlyMoves

LEMMA MovesWider ==
  ASSUME NEW s, NEW t, NEW l, NEW ks, NEW js, Moves(s, t, l, ks), ks \subseteq js
  PROVE  Moves(s, t, l, js)
BY DEF Moves

-----------------------------------------------------------------------------
(* The operators of the server. *)
LEMMA HandleCloseSound ==
  ASSUME NEW g, NEW D, NEW s, Sound(s, g, D), NEW l \in Loops, NEW c \in Conns,
         IsUp(s.conn[c]), ~g, l = s.conn[c].loop,
         NEW t, t = HandleClose(s, l, c)
  PROVE  Sound(t, g, D) /\ Moves(s, t, l, {})
<1>. DEFINE r == Closed(s.conn[c])
<1>0. Base \in Loops /\ Typed(s) /\ Good(s, c, g, D) /\ s.conn[c] \in Records /\ "down" \in Kinds
  BY DEF Loops, Sound, Typed, Kinds
<1>1. r \in Records /\ IsDown(r) /\ r.loop = l
  BY <1>0, ClosedIs
<1>2. PICK u : u = [s EXCEPT !.conn[c] = r]
  OBVIOUS
<1>3. t = Calling(u, l, "down", c)
  <2>1. [s EXCEPT !.conn[c] = Closed(@)] = [s EXCEPT !.conn[c] = r]
    OBVIOUS
  <2>. QED BY <1>2, <2>1 DEF HandleClose
<1>. HIDE DEF r
<1>4. Changed(s, u, c, r)
  BY <1>0, <1>1, <1>2, Change
<1>5. Enters(u, t, l, Call("down", c))
  <2>1. Typed(u)
    BY <1>4 DEF Changed
  <2>. QED BY <1>0, <1>3, <2>1, Enter
<1>6. /\ Typed(t) /\ t.conn[c] = r /\ t.connections = s.connections /\ t.queue = s.queue
      /\ Others(s, t, c) /\ u.calls = s.calls
  <2>1. Others(s, u, c) /\ Others(u, t, c)
    BY <1>4, <1>5, ChangeOthers, EnterOthers
  <2>2. Others(s, t, c)
    BY <2>1, OthersAfter
  <2>. QED BY <1>4, <1>5, <2>2 DEF Enters, Changed
<1>7. \A k \in Loops :
        /\ \A kind \in Kinds : Within(t, kind, k, c) <=>
             Within(s, kind, k, c) \/ (k = l /\ kind = "down")
        /\ ~Told(s, k, c) /\ Once(Call("down", c), t.calls[k])
  <2>1. \A kind \in Kinds : Call(kind, c) = Call("down", c) <=> kind = "down"
    BY DEF Call
  <2>2. \A k \in Loops : ~Told(s, k, c) /\ Once(Call("down", c), s.calls[k])
    BY <1>0 DEF Good, Stand, IsUp, IsDown
  <2>. QED BY <1>5, <1>6, <2>1, <2>2 DEF Enters, Within, Told
<1>8. \A k \in Loops : /\ ~Pending(s, "Inform", k, c) /\ ~Pending(s, "Remove", k, c)
                        /\ ~Pending(s, "Destroy", k, c)
  BY <1>0 DEF Good, Stand, IsUp, IsAccepted, IsDown
<1>9. \A k \in Loops : Told(t, k, c) <=> k = l
  BY <1>0, <1>7 DEF Told
<1>10. Stand(t, c)
  <2>1. r.accepted /\ s.conn[c].accepted
    BY <1>1 DEF IsDown, IsUp
  <2>. QED BY <1>0, <1>1, <1>6, <1>7, <1>8, <1>9, <2>1 DEF Good, Stand, Pending
<1>11. Kept(t, c, g) /\ Awaited(t, c, D)
  <2>1. ~g => c \in s.connections
    BY <1>0 DEF Good, Kept
  <2>. QED BY <1>1, <1>6, <1>9, <2>1 DEF Kept, Awaited
<1>12. Good(t, c, g, D) /\ \A d \in Conns \ {c} : Good(s, d, g, D)
  BY <1>10, <1>11 DEF Good, Sound
<1>13. Sound(t, g, D) /\ \A d \in Conns \ {c} : Stage(t, d) = Stage(s, d)
  BY <1>0, <1>6, <1>12, OthersSound
<1>14. Stage(s, c) = "up" /\ Stage(t, c) = "down"
       /\ t.conn[c].downs > t.conn[c].destroyed
  <2>1. Stage(s, c) = "up" /\ c \in s.connections
    BY <1>0, StageIs DEF Good, Kept
  <2>2. Stage(t, c) = "down"
    BY <1>1, <1>6, <1>10, <2>1, StageIs
  <2>. QED BY <1>1, <1>6, <2>1, <2>2 DEF IsDown
<1>15. OnlyMoves(s, t)
  <2>1. r.accepted = s.conn[c].accepted /\ (Told(t, Base, c) => l = Base)
    BY <1>0, <1>1, <1>9 DEF IsUp, IsDown
  <2>. QED BY <1>1, <1>6, <1>13, <1>14, <2>1, OthersMove
<1>16. OnlyCalls(s, t, l)
  <2>1. OnlyCalls(u, t, l)
    BY <1>4, <1>5, <1>14, EnterCalls DEF Changed
  <2>. QED BY <1>6, <1>14, <2>1 DEF OnlyCalls
<1>. QED BY <1>0, <1>6, <1>13, <1>14, <1>15, <1>16, GrowsItself DEF Moves, Rises

(* What the application asks for may be pending any number of times. *)
LEMMA RequestSound ==
  ASSUME NEW g, NEW D, NEW s, Sound(s, g, D), NEW c \in Conns, s.conn[c].accepted,
         NEW op \in Requests, op = "Complete" => IsUp(s.conn[c]), NEW k, k = s.conn[c].loop,
         NEW t, t = QueueInLoop(s, k, Functor(op, c)), NEW l
  PROVE  Sound(t, g, D) /\ Moves(s, t, l, {k})
<1>1. k \in Loops /\ Base \in Loops /\ Typed(s) /\ Good(s, c, g, D)
  BY DEF Sound, Typed, Records, Loops
<1>2. op \in ConnOps /\ Functor(op, c) \in Functors /\ Functor(op, c).conn \in Conns
      /\ op \notin {"Inform", "Remove", "Destroy"}
  BY FunctorIs DEF ConnOps, Requests
<1>3. Pushed(s, t, k, Functor(op, c))
  BY <1>1, <1>2, Push
<1>4. /\ Typed(t) /\ t.conn = s.conn /\ t.connections = s.connections /\ t.calls = s.calls
      /\ \A m \in Loops \ {k} : t.queue[m] = s.queue[m]
  BY <1>3 DEF Pushed
<1>5. \A m \in Loops, o \in ConnOps :
        Pending(t, o, m, c) <=> Pending(s, o, m, c) \/ (m = k /\ o = op)
  <2>1. \A o \in ConnOps : Functor(o, c) = Functor(op, c) <=> o = op
    BY <1>2, FunctorIs
  <2>. QED BY <1>3, <2>1 DEF Pushed, Pending
<1>6. \A m \in Loops :
        /\ \A o \in {"Inform", "Remove", "Destroy"} :
             Once(Functor(o, c), s.queue[m]) => Once(Functor(o, c), t.queue[m])
        /\ Completes(c, s.queue[m]) => Completes(c, t.queue[m])
  <2>1. \A o \in {"Inform", "Remove", "Destroy"} : Functor(o, c) # Functor(op, c)
    BY <1>2 DEF Functor
  <2>2. op = "Complete" \/ Functor(op, c) # Functor("Complete", c)
    BY DEF Functor
  <2>3. op = "Complete" => ~In(Functor("Destroy", c), s.queue[k])
    BY <1>1 DEF Good, Stand, IsUp, IsDown, Pending
  <2>. QED BY <1>3, <2>1, <2>2, <2>3 DEF Pushed
<1>7. /\ Stand(s, c) /\ "Destroy" \in ConnOps /\ "Remove" \in ConnOps
      /\ \A m \in Loops, kind \in Kinds : Within(t, kind, m, c) <=> Within(s, kind, m, c)
      /\ \A m \in Loops : Told(t, m, c) <=> Told(s, m, c)
  BY <1>1, <1>4 DEF Good, Within, Told, ConnOps
<1>8. Stand(t, c)
  <2>1. t.conn[c] = s.conn[c] /\ t.connections = s.connections /\ t.calls = s.calls
    BY <1>4
  <2>2. \A m \in Loops :
          /\ Pending(t, "Inform", m, c) <=> Pending(s, "Inform", m, c)
          /\ Pending(t, "Remove", m, c) <=> Pending(s, "Remove", m, c)
          /\ Pending(t, "Destroy", m, c) <=> Pending(s, "Destroy", m, c)
    BY <1>2, <1>5 DEF ConnOps
  <2>3. \A m \in Loops :
          Pending(t, "Complete", m, c) => (IsUp(s.conn[c]) \/ IsDown(s.conn[c])) /\ m = s.conn[c].loop
    <3>1. \A m \in Loops :
            Pending(s, "Complete", m, c) => (IsUp(s.conn[c]) \/ IsDown(s.conn[c])) /\ m = s.conn[c].loop
      BY <1>7 DEF Stand
    <3>2. \A m \in Loops :
            Pending(t, "Complete", m, c) => Pending(s, "Complete", m, c) \/ (m = k /\ op = "Complete")
      BY <1>5 DEF ConnOps, Requests
    <3>. QED BY <3>1, <3>2
  <2>4. \A m \in Loops : \A o \in {"ForceClose", "Shutdown", "Send"} :
          Pending(t, o, m, c) => s.conn[c].accepted /\ m = s.conn[c].loop
    <3>1. \A m \in Loops : \A o \in {"ForceClose", "Shutdown", "Send"} :
            Pending(s, o, m, c) => s.conn[c].accepted /\ m = s.conn[c].loop
      BY <1>7 DEF Stand
    <3>2. \A m \in Loops : \A o \in {"ForceClose", "Shutdown", "Send"} :
            Pending(t, o, m, c) => Pending(s, o, m, c) \/ m = k
      BY <1>5 DEF ConnOps, Requests
    <3>. QED BY <3>1, <3>2
  <2>5. /\ s.conn[c].loop \in Loops /\ Base \in Loops
        /\ \A kind : kind \in Kinds => \A m \in Loops : Within(t, kind, m, c) <=> Within(s, kind, m, c)
    BY <1>1, <1>7
  <2>6. \A m \in Loops :
         /\ \A o \in {"Inform", "Remove", "Destroy"} : Once(Functor(o, c), t.queue[m])
         /\ Completes(c, t.queue[m])
    <3>1. \A m \in Loops :
           /\ \A o \in {"Inform", "Remove", "Destroy"} : Once(Functor(o, c), s.queue[m])
           /\ Completes(c, s.queue[m])
      BY <1>7 DEF Stand
    <3>. QED BY <1>6, <3>1
  <2>7. \A m \in Loops : Told(t, m, c) <=> Told(s, m, c)
    BY <1>7
  <2>8. LET r == s.conn[c] IN
          /\ IsNew(r) \/ IsAccepted(r) \/ IsUp(r) \/ IsDown(r) \/ IsDestroyed(r)
          /\ c \in t.connections =>
               IsAccepted(r) \/ IsUp(r) \/ (IsDown(r) /\ (r.loop # Base \/ Told(t, Base, c)))
    BY <1>7, <2>1, <2>5, <2>7 DEF Stand
  <2>9. LET r == s.conn[c] IN \A m \in Loops :
          /\ Pending(t, "Inform", m, c) => IsAccepted(r) /\ m = r.loop
          /\ Pending(t, "Remove", m, c) => IsDown(r) /\ m = Base /\ r.loop # Base
          /\ Pending(t, "Destroy", m, c) => IsDown(r) /\ m = r.loop /\ c \notin t.connections
    BY <1>7, <2>1, <2>2 DEF Stand
  <2>10. LET r == s.conn[c] IN \A m \in Loops :
           /\ \A kind \in Kinds : Within(t, kind, m, c) => (IsUp(r) \/ IsDown(r)) /\ m = r.loop
           /\ Told(t, m, c) => IsDown(r)
           /\ Once(Call("down", c), t.calls[m])
    BY <1>7, <2>1, <2>5, <2>7 DEF Stand
  <2>11. LET r == s.conn[c] IN
           /\ ~(Pending(t, "Remove", Base, c) /\ Pending(t, "Destroy", r.loop, c))
           /\ Told(t, r.loop, c) => ~Pending(t, "Remove", Base, c) /\ ~Pending(t, "Destroy", r.loop, c)
    BY <1>7, <2>2, <2>5, <2>7 DEF Stand
  <2>. QED BY <2>1, <2>3, <2>4, <2>6, <2>8, <2>9, <2>10, <2>11 DEF Stand
<1>9. Kept(t, c, g) /\ Awaited(t, c, D)
  BY <1>1, <1>4, <1>5, <1>7 DEF Good, Kept, Awaited
<1>10. Others(s, t, c)
  BY <1>2, <1>3, PushOthers
<1>11. Sound(t, g, D) /\ \A d \in Conns \ {c} : Stage(t, d) = Stage(s, d)
  <2>1. Good(t, c, g, D) /\ \A d \in Conns \ {c} : Good(s, d, g, D)
    BY <1>8, <1>9 DEF Good, Sound
  <2>. QED BY <1>1, <1>4, <1>10, <2>1, OthersSound
<1>12. Stage(t, c) = Stage(s, c)
  BY <1>4 DEF Stage
<1>13. OnlyMoves(s, t) /\ OnlyCalls(s, t, l) /\ Grows(s.queue, t.queue)
  <2>1. OnlyMoves(s, t)
    BY <1>1, <1>4, <1>7, <1>10, <1>11, OthersMove
  <2>2. OnlyCalls(s, t, l)
    BY <1>1, <1>4, SameCalls
  <2>3. Grows(s.queue, t.queue)
    BY <1>1, <1>2, <1>3, PushGrows
  <2>. QED BY <2>1, <2>2, <2>3
<1>. QED BY <1>4, <1>11, <1>12, <1>13 DEF Moves

LEMMA ShutdownInLoopSound ==
  ASSUME NEW g, NEW D, NEW s, Sound(s, g, D), NEW c \in Conns,
         NEW t, t = ShutdownInLoop(s, c), NEW l
  PROVE  Sound(t, g, D) /\ Moves(s, t, l, {})
<1>. DEFINE r == [s.conn[c] EXCEPT !.state = IF @ = "kConnected" THEN "kDisconnecting" ELSE @]
<1>0. Typed(s) /\ Good(s, c, g, D) /\ (\A d \in Conns \ {c} : Good(s, d, g, D))
      /\ s.conn[c] \in Records /\ c \in Conns
  BY DEF Sound, Typed
<1>1. r \in Records
  BY <1>0 DEF Records, States
<1>2. /\ r.loop = s.conn[c].loop /\ r.accepted = s.conn[c].accepted /\ r.ups = s.conn[c].ups
      /\ r.downs = s.conn[c].downs /\ r.destroyed = s.conn[c].destroyed
      /\ r.reading = s.conn[c].reading /\ r.channel = s.conn[c].channel
      /\ r.state = "kDisconnected" <=> s.conn[c].state = "kDisconnected"
  BY <1>0 DEF Records
<1>3. t = [s EXCEPT !.conn[c] = r]
  BY <1>0 DEF ShutdownInLoop, Typed
<1>. HIDE DEF r
<1>4. Changed(s, t, c, r)
  BY <1>0, <1>1, <1>3, Change
<1>5. /\ IsNew(r) <=> IsNew(s.conn[c])
      /\ IsAccepted(r) <=> IsAccepted(s.conn[c])
      /\ IsUp(r) <=> IsUp(s.conn[c])
      /\ IsDown(r) <=> IsDown(s.conn[c])
      /\ IsDestroyed(r) <=> IsDestroyed(s.conn[c])
  BY <1>2 DEF IsNew, IsAccepted, IsUp, IsDown, IsDestroyed, Quiet
<1>6. /\ Typed(t) /\ t.conn[c] = r /\ t.connections = s.connections /\ t.queue = s.queue
      /\ t.calls = s.calls /\ Others(s, t, c)
      /\ \A k \in Loops : \A op : Pending(t, op, k, c) <=> Pending(s, op, k, c)
      /\ \A k \in Loops : \A kind : Within(t, kind, k, c) <=> Within(s, kind, k, c)
      /\ \A k \in Loops : Told(t, k, c) <=> Told(s, k, c)
  BY <1>4, ChangeOthers DEF Changed, Pending, Within, Told
<1>7. Good(t, c, g, D)
  <2>0. Base \in Loops /\ s.conn[c].loop \in Loops
    BY <1>0 DEF Loops, Records
  <2>1. Stand(t, c)
    BY <1>0, <1>2, <1>5, <1>6, <2>0 DEF Good, Stand
  <2>2. Kept(t, c, g) /\ Awaited(t, c, D)
    BY <1>0, <1>2, <1>5, <1>6, <2>0 DEF Good, Kept, Awaited
  <2>. QED BY <2>1, <2>2 DEF Good
<1>8. Sound(t, g, D) /\ \A d \in Conns \ {c} : Stage(t, d) = Stage(s, d)
  BY <1>0, <1>6, <1>7, OthersSound
<1>9. Stage(t, c) = Stage(s, c)
  BY <1>2, <1>6 DEF Stage
<1>10. OnlyMoves(s, t)
  <2>1. Told(t, Base, c) => Told(s, Base, c)
    BY <1>6 DEF Loops
  <2>. QED BY <1>2, <1>6, <1>8, <2>1, OthersMove
<1>. QED BY <1>0, <1>6, <1>8, <1>9, <1>10, SameCalls, GrowsItself DEF Moves

LEMMA ShutdownSound ==
  ASSUME NEW g, NEW D, NEW s, Sound(s, g, D), NEW c \in Conns, s.conn[c].accepted, NEW l,
         NEW t, t = Shutdown(s, l, c)
  PROVE  Sound(t, g, D) /\ Moves(s, t, l, {s.conn[c].loop})
<1>1. CASE l = s.conn[c].loop
  BY <1>1, ShutdownInLoopSound, MovesWider DEF Shutdown
<1>2. CASE l # s.conn[c].loop
  BY <1>2, RequestSound DEF Shutdown, Requests
<1>. QED BY <1>1, <1>2

LEMMA ForceCloseInLoopSound ==
  ASSUME NEW g, NEW D, NEW s, Sound(s, g, D), NEW c \in Conns, g => ~IsUp(s.conn[c]),
         NEW l, l = s.conn[c].loop, NEW t, t = ForceCloseInLoop(s, l, c)
  PROVE  Sound(t, g, D) /\ Moves(s, t, l, {})
<1>1. l \in Loops /\ Stand(s, c) /\ s.conn[c].state \in States /\ Typed(s)
  BY DEF Sound, Typed, Records, Good
<1>2. CASE s.conn[c].state \in {"kConnected", "kDisconnecting"}
  <2>1. IsUp(s.conn[c])
    BY <1>1, <1>2 DEF Stand, IsNew, IsAccepted, IsDown, IsDestroyed, Quiet
  <2>2. t = HandleClose(s, l, c) /\ ~g
    BY <1>2, <2>1 DEF ForceCloseInLoop
  <2>. QED BY <1>1, <2>1, <2>2, HandleCloseSound
<1>3. CASE s.conn[c].state \notin {"kConnected", "kDisconnecting"}
  BY <1>1, <1>3, MovesNothing DEF ForceCloseInLoop
<1>. QED BY <1>2, <1>3

LEMMA ForceCloseSound ==
  ASSUME NEW g, NEW D, NEW s, Sound(s, g, D), NEW c \in Conns, s.conn[c].accepted, NEW l,
         l = s.conn[c].loop /\ g => ~IsUp(s.conn[c]), NEW t, t = ForceClose(s, l, c)
  PROVE  Sound(t, g, D) /\ Moves(s, t, l, {s.conn[c].loop})
<1>1. CASE l = s.conn[c].loop
  BY <1>1, ForceCloseInLoopSound, MovesWider DEF ForceClose
<1>2. CASE l # s.conn[c].loop
  BY <1>2, RequestSound DEF ForceClose, Requests
<1>. QED BY <1>1, <1>2

LEMMA SendInLoopSound ==
  ASSUME NEW g, NEW D, NEW s, Sound(s, g, D), NEW c \in Conns, NEW t \in SendInLoop(s, c), NEW l
  PROVE  Sound(t, g, D) /\ Moves(s, t, l, {s.conn[c].loop})
<1>1. CASE t = s
  BY <1>1, MovesNothing, MovesWider DEF Sound
<1>2. CASE t = QueueInLoop(s, s.conn[c].loop, Functor("Complete", c)) /\ s.conn[c].state = "kConnected"
  <2>1. Stand(s, c)
    BY DEF Sound, Good
  <2>2. IsUp(s.conn[c]) /\ s.conn[c].accepted
    BY <1>2, <2>1 DEF Stand, IsUp, IsNew, IsAccepted, IsDown, IsDestroyed, Quiet
  <2>. QED BY <1>2, <2>2, RequestSound DEF Requests
<1>. QED BY <1>1, <1>2 DEF SendInLoop

LEMMA SendSound ==
  ASSUME NEW g, NEW D, NEW s, Sound(s, g, D), NEW c \in Conns, s.conn[c].accepted, NEW l,
         NEW t \in Send(s, l, c)
  PROVE  Sound(t, g, D) /\ Moves(s, t, l, {s.conn[c].loop})
<1>1. CASE t \in SendInLoop(s, c)
  BY <1>1, SendInLoopSound
<1>2. CASE t = QueueInLoop(s, s.conn[c].loop, Functor("Send", c))
  BY <1>2, RequestSound DEF Requests
<1>. QED BY <1>1, <1>2 DEF Send

(* A connection goes up: it was accepted, and its Inform was taken, if any. *)
LEMMA InformSound ==
  ASSUME NEW g, NEW D, NEW s, Typed(s), NEW c \in Conns,
         \A d \in Conns \ {c} : Good(s, d, g, D),
         Stand(s, c), Kept(s, c, g), IsAccepted(s.conn[c]),
         \A k \in Loops : ~Pending(s, "Inform", k, c),
         NEW l \in Loops, l = s.conn[c].loop,
         NEW t, t = InformInLoop(s, l, c)
  PROVE  Sound(t, g, D) /\ Moves(s, t, l, {})
<1>. DEFINE r == Opened(s.conn[c])
<1>0. Base \in Loops /\ s.conn[c] \in Records /\ "up" \in Kinds /\ s.conn[c].accepted
  BY DEF Loops, Typed, Kinds, IsAccepted
<1>1. r \in Records /\ IsUp(r) /\ r.loop = l /\ r.accepted
  BY <1>0, OpenedIs DEF IsUp
<1>2. PICK u : u = [s EXCEPT !.conn[c] = r]
  OBVIOUS
<1>3. t = Calling(u, l, "up", c)
  <2>1. [s EXCEPT !.conn[c] = Opened(@)] = [s EXCEPT !.conn[c] = r]
    OBVIOUS
  <2>. QED BY <1>2, <2>1 DEF InformInLoop
<1>. HIDE DEF r
<1>4. Changed(s, u, c, r)
  BY <1>0, <1>1, <1>2, Change
<1>5. Enters(u, t, l, Call("up", c))
  <2>1. Typed(u)
    BY <1>4 DEF Changed
  <2>. QED BY <1>0, <1>3, <2>1, Enter
<1>6. /\ Typed(t) /\ t.conn[c] = r /\ t.connections = s.connections /\ t.queue = s.queue
      /\ Others(s, t, c) /\ u.calls = s.calls
  <2>1. Others(s, u, c) /\ Others(u, t, c)
    BY <1>4, <1>5, ChangeOthers, EnterOthers
  <2>2. Others(s, t, c)
    BY <2>1, OthersAfter
  <2>. QED BY <1>4, <1>5, <2>2 DEF Enters, Changed
<1>7. \A k \in Loops :
        /\ \A kind \in Kinds : Within(t, kind, k, c) => k = l
        /\ ~Told(t, k, c) /\ Once(Call("down", c), t.calls[k])
  <2>1. Call("up", c) # Call("down", c)
    BY DEF Call
  <2>2. \A k \in Loops : /\ \A kind \in Kinds : ~Within(s, kind, k, c)
                         /\ ~Told(s, k, c) /\ Once(Call("down", c), s.calls[k])
    BY DEF Stand, IsUp, IsDown, IsAccepted
  <2>. QED BY <1>5, <1>6, <2>1, <2>2 DEF Enters, Within, Told
<1>8. \A k \in Loops : /\ ~Pending(s, "Remove", k, c) /\ ~Pending(s, "Destroy", k, c)
                       /\ ~Pending(s, "Complete", k, c)
  BY DEF Stand, IsAccepted, IsDown, IsUp
<1>9. Stand(t, c)
  BY <1>0, <1>1, <1>6, <1>7, <1>8 DEF Stand, Pending
<1>10. Kept(t, c, g) /\ Awaited(t, c, D)
  BY <1>1, <1>6, <1>7 DEF Kept, Awaited, IsUp, IsDown
<1>11. Sound(t, g, D) /\ \A d \in Conns \ {c} : Stage(t, d) = Stage(s, d)
  <2>1. Good(t, c, g, D)
    BY <1>9, <1>10 DEF Good
  <2>. QED BY <1>6, <2>1, OthersSound
<1>12. Stage(s, c) = "accepted" /\ Stage(t, c) = "up"
  BY <1>1, <1>6 DEF Stage, IsAccepted, IsUp
<1>13. OnlyMoves(s, t)
  BY <1>0, <1>1, <1>6, <1>7, <1>11, OthersMove
<1>14. OnlyCalls(s, t, l)
  <2>1. u.conn[c].loop = l /\ Stage(u, c) = "up"
    BY <1>1, <1>4 DEF Changed, Stage, IsUp
  <2>2. OnlyCalls(u, t, l)
    BY <1>4, <1>5, <2>1, EnterCalls DEF Changed
  <2>. QED BY <1>6, <1>12, <2>2 DEF OnlyCalls
<1>. QED BY <1>6, <1>11, <1>12, <1>13, <1>14, GrowsItself DEF Moves, Rises

(* A functor was taken: only Remove and Destroy are awaited. *)
LEMMA TakeStand ==
  ASSUME NEW g, NEW D, NEW s, NEW t, NEW l \in Loops, NEW f, Takes(s, t, l, f),
         NEW c \in Conns, Good(s, c, g, D), s.conn[c].loop \in Loops
  PROVE  /\ Stand(t, c) /\ Kept(t, c, g)
         /\ f \notin {Functor("Remove", c), Functor("Destroy", c)} => Awaited(t, c, D)
<1>. Base \in Loops /\ "down" \in Kinds
  BY DEF Loops, Kinds
<1>1. /\ Stand(s, c) /\ Kept(s, c, g) /\ Awaited(s, c, D)
      /\ t.conn = s.conn /\ t.connections = s.connections
      /\ \A k \in Loops : \A op : Pending(t, op, k, c) => Pending(s, op, k, c)
      /\ \A k \in Loops : \A kind : Within(t, kind, k, c) <=> Within(s, kind, k, c)
      /\ \A k \in Loops : Told(t, k, c) <=> Told(s, k, c)
      /\ \A k \in Loops : \A op : Once(Functor(op, c), s.queue[k]) => Once(Functor(op, c), t.queue[k])
      /\ \A k \in Loops : Completes(c, s.queue[k]) => Completes(c, t.queue[k])
      /\ t.calls = s.calls
  BY DEF Good, Takes, Pending, Within, Told
<1>2. Stand(t, c)
  BY <1>1 DEF Stand
<1>3. Kept(t, c, g)
  BY <1>1 DEF Kept
<1>4. ASSUME f \notin {Functor("Remove", c), Functor("Destroy", c)} PROVE Awaited(t, c, D)
  <2>1. \A k \in Loops, op \in {"Remove", "Destroy"} : Pending(s, op, k, c) => Pending(t, op, k, c)
    BY <1>4 DEF Takes, Pending
  <2>. QED BY <1>1, <2>1 DEF Awaited
<1>. QED BY <1>2, <1>3, <1>4

LEMMA TakeSound ==
  ASSUME NEW g, NEW D, NEW s, Sound(s, g, D), NEW t, NEW l \in Loops, NEW f, Takes(s, t, l, f),
         \A c \in Conns : f \notin {Functor("Remove", c), Functor("Destroy", c)}
  PROVE  Sound(t, g, D)
<1>1. \A c \in Conns : Good(s, c, g, D) /\ s.conn[c].loop \in Loops
  BY DEF Sound, Typed, Records
<1>2. \A c \in Conns : Good(t, c, g, D)
  BY <1>1, TakeStand DEF Good
<1>. QED BY <1>2 DEF Sound, Takes

(* A closed connection of loop l nobody waits for any more. *)
Unawaited(s, l, c) ==
  /\ IsDown(s.conn[c]) /\ s.conn[c].loop = l
  /\ \A k \in Loops :
       ~Told(s, k, c) /\ ~Pending(s, "Remove", k, c) /\ ~Pending(s, "Destroy", k, c)
  /\ \A u : u.conn = s.conn /\ u.queue = s.queue /\ u.calls = s.calls
            /\ (c \notin u.connections \/ l # Base) => Stand(u, c)

(* A call returned: only that of a connection handler that heard the          *)
(* connection went down is awaited, and it keeps it in connections_.          *)
LEMMA ReturnStand ==
  ASSUME NEW g, NEW D, NEW s, NEW t, NEW l \in Loops, NEW e, Returns(s, t, l, e),
         NEW c \in Conns, Good(s, c, g, D), s.conn[c].loop \in Loops
  PROVE  /\ e # Call("down", c) => Good(t, c, g, D)
         /\ e = Call("down", c) => Unawaited(t, l, c)
<1>. Base \in Loops /\ "down" \in Kinds
  BY DEF Loops, Kinds
<1>1. /\ Stand(s, c) /\ Kept(s, c, g) /\ Awaited(s, c, D)
      /\ t.conn = s.conn /\ t.connections = s.connections /\ t.queue = s.queue
      /\ \A k \in Loops : \A op : Pending(t, op, k, c) <=> Pending(s, op, k, c)
      /\ \A k \in Loops : \A kind : Within(t, kind, k, c) => Within(s, kind, k, c)
      /\ \A k \in Loops : Told(t, k, c) => Told(s, k, c)
      /\ \A k \in Loops : Once(Call("down", c), s.calls[k]) => Once(Call("down", c), t.calls[k])
  BY DEF Good, Returns, Pending, Within, Told
<1>2. ASSUME e # Call("down", c) PROVE Good(t, c, g, D)
  <2>1. \A k \in Loops : Told(t, k, c) <=> Told(s, k, c)
    BY <1>1, <1>2 DEF Returns, Told, Within
  <2>2. Stand(t, c)
    BY <1>1, <2>1 DEF Stand
  <2>3. Kept(t, c, g) /\ Awaited(t, c, D)
    BY <1>1, <2>1 DEF Kept, Awaited
  <2>. QED BY <2>2, <2>3 DEF Good
<1>3. ASSUME e = Call("down", c)
      PROVE  Unawaited(t, l, c)
  <2>1. Told(s, l, c) /\ ~Told(t, l, c)
    BY <1>1, <1>3 DEF Returns, Told, Within, Stand
  <2>2. IsDown(s.conn[c]) /\ s.conn[c].loop = l
    BY <1>1, <2>1 DEF Stand, Told
  <2>3. \A k \in Loops : Told(t, k, c) => k = l
    BY <1>1, <2>2 DEF Stand, Told
  <2>4. \A k \in Loops : ~Pending(t, "Remove", k, c) /\ ~Pending(t, "Destroy", k, c)
    BY <1>1, <2>1, <2>2 DEF Stand
  <2>5. ASSUME NEW u, u.conn = t.conn, u.queue = t.queue, u.calls = t.calls,
               c \notin u.connections \/ l # Base
        PROVE  Stand(u, c)
    <3>1. /\ \A k \in Loops : \A op : Pending(u, op, k, c) <=> Pending(t, op, k, c)
          /\ \A k \in Loops : \A kind : Within(u, kind, k, c) <=> Within(t, kind, k, c)
          /\ \A k \in Loops : ~Told(u, k, c)
      BY <2>1, <2>3, <2>5 DEF Pending, Within, Told
    <3>2. u.conn[c] = s.conn[c] /\ u.queue = s.queue /\ u.calls = t.calls
      BY <1>1, <2>5
    <3>. QED BY <1>1, <2>2, <2>4, <2>5, <3>1, <3>2 DEF Stand
  <2>. QED BY <1>1, <2>1, <2>2, <2>3, <2>4, <2>5 DEF Unawaited
<1>. QED BY <1>2, <1>3

LEMMA ReturnSound ==
  ASSUME NEW g, NEW D, NEW s, Sound(s, g, D), NEW t, NEW l \in Loops, NEW e, Returns(s, t, l, e),
         e.kind # "down"
  PROVE  Sound(t, g, D)
<1>1. \A c \in Conns : Good(s, c, g, D) /\ s.conn[c].loop \in Loops /\ e # Call("down", c)
  BY DEF Sound, Typed, Records, Call
<1>2. ASSUME NEW c \in Conns PROVE Good(t, c, g, D)
  <2>1. Good(s, c, g, D) /\ s.conn[c].loop \in Loops /\ e # Call("down", c)
    BY <1>1
  <2>. QED BY <2>1, ReturnStand
<1>. QED BY <1>2 DEF Sound, Returns

(* The base loop forgets a closed connection, and has its own destroy it. *)
LEMMA ForgetSound ==
  ASSUME NEW g, NEW D, NEW s, Typed(s), NEW c \in Conns,
         \A d \in Conns \ {c} : Good(s, d, g, D), IsDown(s.conn[c]),
         \A k \in Loops : ~Told(s, k, c) /\ ~Pending(s, "Remove", k, c) /\ ~Pending(s, "Destroy", k, c),
         NEW u, u = [s EXCEPT !.connections = @ \ {c}], Stand(u, c),
         NEW t, t = HandleConnectionClosed(s, Base, c)
  PROVE  Sound(t, g, D) /\ Moves(s, t, Base, {s.conn[c].loop})
<1>. DEFINE l == s.conn[c].loop
            f == Functor("Destroy", c)
<1>0. l \in Loops /\ Base \in Loops /\ "Destroy" \in ConnOps /\ "down" \in Kinds
  BY DEF Typed, Records, Loops, ConnOps, Kinds
<1>1. f \in Functors /\ f.conn \in Conns
  BY <1>0, FunctorIs
<1>2. /\ Typed(u) /\ u.conn = s.conn /\ u.queue = s.queue /\ u.calls = s.calls
      /\ u.connections = s.connections \ {c}
  BY DEF Typed
<1>3. t = QueueInLoop(u, l, f)
  BY DEF HandleConnectionClosed
<1>. HIDE DEF f
<1>4. Pushed(u, t, l, f)
  BY <1>0, <1>1, <1>2, <1>3, Push
<1>5. Others(s, t, c)
  <2>1. Others(s, u, c)
    BY <1>2 DEF Others, Same, Pending, Within
  <2>2. Others(u, t, c)
    BY <1>0, <1>4, PushOthers DEF f
  <2>. QED BY <2>1, <2>2, OthersAfter
<1>6. /\ Typed(t) /\ t.conn = s.conn /\ t.connections = s.connections \ {c} /\ t.calls = s.calls
      /\ \A k \in Loops \ {l} : t.queue[k] = s.queue[k]
  BY <1>2, <1>4 DEF Pushed
<1>7. \A k \in Loops, op \in ConnOps :
        Pending(t, op, k, c) <=> Pending(s, op, k, c) \/ (k = l /\ op = "Destroy")
  <2>1. \A op \in ConnOps : Functor(op, c) = f <=> op = "Destroy"
    BY FunctorIs DEF ConnOps, f
  <2>. QED BY <1>2, <1>4, <2>1 DEF Pushed, Pending
<1>8. \A k \in Loops :
        /\ \A op \in {"Inform", "Remove", "Destroy"} : Once(Functor(op, c), t.queue[k])
        /\ Completes(c, t.queue[k])
  <2>1. \A k \in Loops, op \in {"Inform", "Remove", "Destroy"} :
          Once(Functor(op, c), u.queue[k]) /\ (op = "Destroy" => ~In(Functor(op, c), u.queue[k]))
    BY <1>2 DEF Stand, Pending
  <2>2. \A op \in {"Inform", "Remove", "Complete"} : Functor(op, c) # f
    BY DEF Functor, f
  <2>3. \A k \in Loops : Completes(c, u.queue[k])
    BY DEF Stand
  <2>. QED BY <1>4, <2>1, <2>2, <2>3 DEF Pushed
<1>9. /\ \A k \in Loops : \A kind : Within(t, kind, k, c) <=> Within(u, kind, k, c)
      /\ \A k \in Loops : Told(t, k, c) <=> Told(u, k, c)
      /\ \A k \in Loops : ~Told(t, k, c) /\ ~Told(s, k, c)
  BY <1>2, <1>6 DEF Within, Told
<1>10. Stand(t, c)
  <2>1. /\ Stand(u, c) /\ t.conn = u.conn /\ t.calls = u.calls /\ t.connections = u.connections
        /\ c \notin t.connections
    BY <1>2, <1>6
  <2>2. \A k \in Loops : \A op \in ConnOps : Pending(u, op, k, c) <=> Pending(s, op, k, c)
    BY <1>2 DEF Pending
  <2>3. IsDown(t.conn[c])
    BY <1>6
  <2>4. /\ \A k \in Loops : \A op \in ConnOps :
             Pending(t, op, k, c) <=> Pending(u, op, k, c) \/ (k = l /\ op = "Destroy")
        /\ \A k \in Loops : ~Pending(u, "Remove", k, c) /\ ~Pending(u, "Inform", k, c)
    <3>1. \A k \in Loops : ~Pending(u, "Inform", k, c)
      BY <1>2 DEF Stand, IsAccepted, IsDown
    <3>. QED BY <1>7, <2>2, <3>1 DEF ConnOps
  <2>5. t.conn[c].loop = l /\ t.conn[c].accepted
    BY <1>6, <2>3 DEF IsDown
  <2>6. \A k \in Loops :
         /\ ~Pending(t, "Inform", k, c) /\ ~Pending(t, "Remove", k, c)
         /\ Pending(t, "Destroy", k, c) => k = l
         /\ Pending(t, "Complete", k, c) => k = l
         /\ \A op \in {"ForceClose", "Shutdown", "Send"} : Pending(t, op, k, c) => k = l
         /\ \A kind \in Kinds : Within(t, kind, k, c) => k = l
    <3>1. \A k \in Loops :
            /\ ~Pending(u, "Inform", k, c) /\ ~Pending(u, "Remove", k, c)
            /\ Pending(u, "Destroy", k, c) => k = l
            /\ Pending(u, "Complete", k, c) => k = l
            /\ \A op \in {"ForceClose", "Shutdown", "Send"} : Pending(u, op, k, c) => k = l
            /\ \A kind \in Kinds : Within(u, kind, k, c) => k = l
      BY <2>1, <2>4, <2>5 DEF Stand
    <3>2. \A k \in Loops :
            /\ ~Pending(t, "Inform", k, c) /\ ~Pending(t, "Remove", k, c)
            /\ Pending(t, "Destroy", k, c) => k = l
      BY <2>4, <3>1 DEF ConnOps
    <3>4. \A k \in Loops : Pending(t, "Complete", k, c) => k = l
      BY <2>4, <3>1 DEF ConnOps, Requests
    <3>5. \A k \in Loops : \A op \in {"ForceClose", "Shutdown", "Send"} : Pending(t, op, k, c) => k = l
      <4>1. \A op \in {"ForceClose", "Shutdown", "Send"} : op \in ConnOps /\ op # "Destroy"
        BY DEF ConnOps, Requests
      <4>. QED BY <2>4, <3>1, <4>1
    <3>3. \A k \in Loops : \A kind \in Kinds : Within(t, kind, k, c) => k = l
      BY <1>9, <3>1
    <3>. QED BY <3>2, <3>3, <3>4, <3>5
  <2>7. \A k \in Loops : ~Told(t, k, c) /\ Once(Call("down", c), t.calls[k])
    BY <1>9, <2>1 DEF Stand
  <2>. QED BY <1>0, <1>8, <2>1, <2>3, <2>5, <2>6, <2>7 DEF Stand
<1>11. Good(t, c, g, D)
  <2>1. Kept(t, c, g) /\ Awaited(t, c, D)
    BY <1>0, <1>6, <1>7, <1>9 DEF Kept, Awaited, IsAccepted, IsUp, IsDown
  <2>. QED BY <1>10, <2>1 DEF Good
<1>12. Sound(t, g, D) /\ \A d \in Conns \ {c} : Stage(t, d) = Stage(s, d)
  BY <1>5, <1>6, <1>11, OthersSound
<1>13. Stage(s, c) \in {"down", "forgotten"} /\ Stage(t, c) = "forgotten"
  BY <1>6 DEF Stage, IsDown
<1>14. OnlyMoves(s, t)
  BY <1>0, <1>5, <1>6, <1>9, <1>12, OthersMove
<1>15. OnlyCalls(s, t, Base) /\ Grows(s.queue, t.queue)
  <2>1. Grows(u.queue, t.queue)
    BY <1>0, <1>1, <1>2, <1>4, PushGrows
  <2>. QED BY <1>2, <1>6, <2>1, SameCalls
<1>. QED BY <1>6, <1>12, <1>13, <1>14, <1>15 DEF Moves, Rises

(* A connection handler returned that heard its connection went down. *)
LEMMA CloseReturnSound ==
  ASSUME NEW g, NEW D, NEW s, Sound(s, g, D), NEW l \in Loops, NEW c \in Conns,
         NEW p, Returns(s, p, l, Call("down", c)),
         NEW t, t = HandleConnectionClosed(p, l, c)
  PROVE  Sound(t, g, D) /\ Moves(p, t, l, {Base, l})
<1>0. Base \in Loops /\ "Remove" \in ConnOps /\ "down" \in Kinds /\ Typed(p) /\ p.conn = s.conn
  BY DEF Loops, ConnOps, Kinds, Returns
<1>1. /\ \A d \in Conns \ {c} : Good(p, d, g, D)
      /\ IsDown(p.conn[c]) /\ p.conn[c].loop = l
      /\ \A k \in Loops : /\ ~Told(p, k, c)
                          /\ ~Pending(p, "Remove", k, c) /\ ~Pending(p, "Destroy", k, c)
      /\ \A u : u.conn = p.conn /\ u.queue = p.queue /\ u.calls = p.calls
                /\ (c \notin u.connections \/ l # Base) => Stand(u, c)
  <2>1. \A d \in Conns : Good(s, d, g, D) /\ s.conn[d].loop \in Loops
    BY DEF Sound, Typed, Records
  <2>2. \A d \in Conns \ {c} : Call("down", c) # Call("down", d)
    BY DEF Call
  <2>. DEFINE e == Call("down", c)
  <2>. HIDE DEF e
  <2>3. ASSUME NEW d \in Conns \ {c} PROVE Good(p, d, g, D)
    <3>1. Returns(s, p, l, e) /\ e # Call("down", d) /\ Good(s, d, g, D) /\ s.conn[d].loop \in Loops
      BY <2>1, <2>2 DEF e
    <3>. QED BY <3>1, ReturnStand
  <2>4. Returns(s, p, l, e) /\ e = Call("down", c) /\ Good(s, c, g, D) /\ s.conn[c].loop \in Loops
    BY <2>1 DEF e
  <2>5. Unawaited(p, l, c)
    BY <2>4, ReturnStand
  <2>. QED BY <2>3, <2>5 DEF Unawaited
<1>2. CASE l = Base
  <2>1. PICK u : u = [p EXCEPT !.connections = @ \ {c}]
    OBVIOUS
  <2>2. u.conn = p.conn /\ u.queue = p.queue /\ u.calls = p.calls /\ c \notin u.connections
    BY <1>0, <2>1 DEF Typed
  <2>3. Stand(u, c)
    BY <1>1, <2>2
  <2>4. Sound(t, g, D) /\ Moves(p, t, Base, {p.conn[c].loop})
    BY <1>0, <1>1, <1>2, <2>1, <2>3, ForgetSound
  <2>. QED BY <1>1, <1>2, <2>4, MovesWider
<1>3. CASE l # Base
  <2>. DEFINE f == Functor("Remove", c)
  <2>1. f \in Functors /\ f.conn \in Conns
    BY <1>0, FunctorIs
  <2>2. t = QueueInLoop(p, Base, f)
    BY <1>3 DEF HandleConnectionClosed
  <2>. HIDE DEF f
  <2>3. Pushed(p, t, Base, f)
    BY <1>0, <2>1, <2>2, Push
  <2>4. /\ Typed(t) /\ t.conn = p.conn /\ t.connections = p.connections /\ t.calls = p.calls
        /\ \A k \in Loops \ {Base} : t.queue[k] = p.queue[k]
        /\ Others(p, t, c)
    <3>1. Pushed(p, t, Base, Functor("Remove", c))
      BY <2>3 DEF f
    <3>2. Others(p, t, c)
      BY <1>0, <3>1, PushOthers
    <3>. QED BY <2>3, <3>2 DEF Pushed
  <2>5. \A k \in Loops, op \in ConnOps :
          Pending(t, op, k, c) <=> Pending(p, op, k, c) \/ (k = Base /\ op = "Remove")
    <3>1. \A op \in ConnOps : Functor(op, c) = f <=> op = "Remove"
      BY FunctorIs DEF ConnOps, f
    <3>. QED BY <2>3, <3>1 DEF Pushed, Pending
  <2>6. Stand(p, c)
    BY <1>1, <1>3
  <2>7. \A k \in Loops :
          /\ \A op \in {"Inform", "Remove", "Destroy"} : Once(Functor(op, c), t.queue[k])
          /\ Completes(c, t.queue[k])
    <3>1. \A k \in Loops, op \in {"Inform", "Remove", "Destroy"} :
            Once(Functor(op, c), p.queue[k]) /\ (op = "Remove" => ~In(Functor(op, c), p.queue[k]))
      BY <1>1, <2>6 DEF Stand, Pending
    <3>2. \A op \in {"Inform", "Destroy", "Complete"} : Functor(op, c) # f
      BY DEF Functor, f
    <3>3. \A k \in Loops : Completes(c, p.queue[k])
      BY <2>6 DEF Stand
    <3>. QED BY <2>3, <3>1, <3>2, <3>3 DEF Pushed
  <2>8. /\ \A k \in Loops : \A kind : Within(t, kind, k, c) <=> Within(p, kind, k, c)
        /\ \A k \in Loops : Told(t, k, c) <=> Told(p, k, c)
    BY <2>4 DEF Within, Told
  <2>9. Stand(t, c)
    BY <1>0, <1>1, <1>3, <2>4, <2>5, <2>6, <2>7, <2>8 DEF Stand, ConnOps, Requests
  <2>10. Good(t, c, g, D)
    <3>1. Kept(t, c, g) /\ Awaited(t, c, D)
      BY <1>0, <1>1, <2>4, <2>5, <2>8 DEF Kept, Awaited, IsAccepted, IsUp, IsDown
    <3>. QED BY <2>9, <3>1 DEF Good
  <2>11. Sound(t, g, D) /\ \A d \in Conns \ {c} : Stage(t, d) = Stage(p, d)
    BY <1>0, <1>1, <2>4, <2>10, OthersSound
  <2>12. Stage(t, c) = Stage(p, c)
    BY <2>4 DEF Stage
  <2>13. OnlyMoves(p, t)
    BY <1>0, <2>4, <2>8, <2>11, OthersMove
  <2>14. OnlyCalls(p, t, l) /\ Grows(p.queue, t.queue)
    BY <1>0, <2>1, <2>3, <2>4, SameCalls, PushGrows
  <2>. QED BY <2>4, <2>11, <2>12, <2>13, <2>14 DEF Moves
<1>. QED BY <1>2, <1>3

(* The functor that makes the base loop forget a connection was taken. *)
LEMMA RemoveSound ==
  ASSUME NEW g, NEW D, NEW s, Sound(s, g, D), NEW c \in Conns,
         NEW p, Takes(s, p, Base, Functor("Remove", c)),
         NEW t, t = HandleConnectionClosed(p, Base, c)
  PROVE  /\ Sound(t, g, D) /\ Moves(p, t, Base, {s.conn[c].loop})
         /\ IsDown(s.conn[c]) /\ s.conn[c].loop # Base
<1>0. Base \in Loops /\ Typed(p) /\ p.conn = s.conn /\ p.connections = s.connections
      /\ p.calls = s.calls
  BY DEF Loops, Takes
<1>1. \A d \in Conns : Good(s, d, g, D) /\ s.conn[d].loop \in Loops
  BY DEF Sound, Typed, Records
<1>2. Stand(p, c) /\ \A d \in Conns \ {c} : Good(p, d, g, D)
  <2>1. \A d \in Conns \ {c} : Functor("Remove", c) \notin {Functor("Remove", d), Functor("Destroy", d)}
    BY DEF Functor
  <2>. QED BY <1>0, <1>1, <2>1, TakeStand DEF Good
<1>3. Stand(s, c) /\ Pending(s, "Remove", Base, c)
  BY <1>1 DEF Good, Takes, Pending
<1>4. IsDown(s.conn[c]) /\ s.conn[c].loop # Base
  BY <1>0, <1>3 DEF Stand
<1>5. \A k \in Loops : ~Told(p, k, c) /\ ~Pending(p, "Remove", k, c) /\ ~Pending(p, "Destroy", k, c)
  <2>1. \A k \in Loops : /\ Told(p, k, c) => Told(s, k, c)
                         /\ Pending(p, "Destroy", k, c) => Pending(s, "Destroy", k, c)
                         /\ Pending(p, "Remove", k, c) => k = Base
    BY <1>0, <1>2 DEF Takes, Pending, Told, Within, Stand
  <2>2. ~Pending(p, "Remove", Base, c)
    BY <1>0, <1>3 DEF Takes, Pending, Stand
  <2>3. \A k \in Loops : (Told(s, k, c) \/ Pending(s, "Destroy", k, c)) => k = s.conn[c].loop
    BY <1>3 DEF Stand, Told, Kinds
  <2>4. ~Told(s, s.conn[c].loop, c) /\ ~Pending(s, "Destroy", s.conn[c].loop, c)
    BY <1>3 DEF Stand
  <2>. QED BY <2>1, <2>2, <2>3, <2>4
<1>6. PICK u : u = [p EXCEPT !.connections = @ \ {c}]
  OBVIOUS
<1>7. Stand(u, c)
  <2>1. /\ u.conn = p.conn /\ u.queue = p.queue /\ u.calls = p.calls /\ c \notin u.connections
    BY <1>0, <1>6 DEF Typed
  <2>2. /\ \A k \in Loops : \A op : Pending(u, op, k, c) <=> Pending(p, op, k, c)
        /\ \A k \in Loops : \A kind : Within(u, kind, k, c) <=> Within(p, kind, k, c)
        /\ \A k \in Loops : Told(u, k, c) <=> Told(p, k, c)
    BY <2>1 DEF Pending, Within, Told
  <2>3. IsDown(u.conn[c])
    BY <1>0, <1>4, <2>1
  <2>4. u.conn[c].loop \in Loops
    BY <1>0, <1>1, <2>1
  <2>. QED BY <1>0, <1>2, <2>1, <2>2, <2>3, <2>4 DEF Stand
<1>8. Sound(t, g, D) /\ Moves(p, t, Base, {p.conn[c].loop})
  BY <1>0, <1>2, <1>4, <1>5, <1>6, <1>7, ForgetSound
<1>. QED BY <1>0, <1>4, <1>8

(* The functor that destroys a connection was taken, on a loop that is not in *)
(* a handler: nothing happens but that one connection ends.                   *)
LEMMA DestroySound ==
  ASSUME NEW g, NEW D, NEW s, Sound(s, g, D), NEW c \in Conns, NEW l \in Loops,
         s.calls[l] = <<>>, NEW p, Takes(s, p, l, Functor("Destroy", c)),
         NEW t, t = ConnectionDestroyed(p, c)
  PROVE  /\ Sound(t, g, D) /\ OnlyMoves(p, t) /\ s.conn[c].loop = l
         /\ t.connections = p.connections /\ t.queue = p.queue /\ t.calls = p.calls
         /\ \A d \in Conns \ {c} : Stage(t, d) = Stage(p, d)
         /\ Stage(p, c) = "forgotten" /\ Stage(t, c) = "destroyed"
<1>. DEFINE old == p.conn[c]
            n == old.destroyed + 1
            r == [old EXCEPT !.channel = "kNew", !.destroyed = n]
<1>0. Base \in Loops /\ Typed(p) /\ p.conn = s.conn /\ p.connections = s.connections
      /\ p.calls = s.calls /\ old \in Records
  BY DEF Loops, Takes, Typed
<1>1. \A d \in Conns : Good(s, d, g, D) /\ s.conn[d].loop \in Loops
  BY DEF Sound, Typed, Records
<1>2. Stand(p, c) /\ \A d \in Conns \ {c} : Good(p, d, g, D)
  <2>1. \A d \in Conns \ {c} : Functor("Destroy", c) \notin {Functor("Remove", d), Functor("Destroy", d)}
    BY DEF Functor
  <2>. QED BY <1>0, <1>1, <2>1, TakeStand DEF Good
<1>3. Stand(s, c) /\ Pending(s, "Destroy", l, c)
  BY <1>1 DEF Good, Takes, Pending
<1>4. IsDown(old) /\ s.conn[c].loop = l /\ c \notin p.connections
  BY <1>0, <1>3 DEF Stand
<1>5. \A k \in Loops :
        /\ ~Pending(p, "Inform", k, c) /\ ~Pending(p, "Remove", k, c)
        /\ ~Pending(p, "Destroy", k, c) /\ ~Pending(p, "Complete", k, c)
  <2>1. \A k \in Loops : /\ Pending(p, "Destroy", k, c) \/ Pending(p, "Complete", k, c) => k = l
                         /\ Pending(p, "Remove", k, c) => k = Base /\ Pending(s, "Remove", k, c)
                         /\ ~Pending(p, "Inform", k, c)
    BY <1>0, <1>2, <1>4 DEF Takes, Pending, Stand, IsAccepted, IsDown
  <2>2. ~Pending(s, "Remove", Base, c)
    BY <1>3, <1>4 DEF Stand
  <2>3. ~Pending(p, "Destroy", l, c) /\ ~Pending(p, "Complete", l, c)
    BY <1>3 DEF Takes, Pending, Stand
  <2>. QED BY <2>1, <2>2, <2>3
<1>6. \A k \in Loops, kind \in Kinds : ~Within(p, kind, k, c)
  <2>1. \A k \in Loops, kind \in Kinds : Within(p, kind, k, c) => k = l
    BY <1>0, <1>2, <1>4 DEF Stand
  <2>2. \A e : ~In(e, p.calls[l])
    BY <1>0 DEF In
  <2>. QED BY <2>1, <2>2 DEF Within
<1>7. n = 1
  BY <1>4 DEF IsDown
<1>8. t = [p EXCEPT !.conn[c] = r]
  <2>1. old.state # "kConnected"
    BY <1>4 DEF IsDown, Quiet
  <2>. QED BY <2>1 DEF ConnectionDestroyed
<1>. HIDE DEF n
<1>9. r \in Records /\ IsDestroyed(r) /\ r.loop = old.loop /\ r.accepted = old.accepted
  BY <1>0, <1>4, <1>7 DEF Records, ChannelStates, IsDown, IsDestroyed, Quiet
<1>. HIDE DEF r
<1>10. Changed(p, t, c, r)
  BY <1>0, <1>8, <1>9, Change
<1>11. /\ Typed(t) /\ t.conn[c] = r /\ t.connections = p.connections /\ t.queue = p.queue
       /\ t.calls = p.calls /\ Others(p, t, c)
       /\ \A k \in Loops : \A op : Pending(t, op, k, c) <=> Pending(p, op, k, c)
       /\ \A k \in Loops : \A kind : Within(t, kind, k, c) <=> Within(p, kind, k, c)
       /\ \A k \in Loops : Told(t, k, c) <=> Told(p, k, c)
       /\ \A k \in Loops : ~Told(p, k, c)
  BY <1>6, <1>10, ChangeOthers DEF Changed, Pending, Within, Told, Kinds
<1>12. Stand(t, c)
  BY <1>0, <1>2, <1>4, <1>5, <1>6, <1>9, <1>11 DEF Stand, IsDestroyed
<1>13. Kept(t, c, g) /\ Awaited(t, c, D)
  <2>1. ~IsAccepted(r) /\ ~IsUp(r) /\ ~IsDown(r) /\ r.loop \in Loops
    BY <1>0, <1>9 DEF IsAccepted, IsUp, IsDown, IsDestroyed, Records
  <2>. QED BY <1>11, <2>1 DEF Kept, Awaited
<1>14. Sound(t, g, D) /\ \A d \in Conns \ {c} : Stage(t, d) = Stage(p, d)
  <2>1. Good(t, c, g, D)
    BY <1>12, <1>13 DEF Good
  <2>. QED BY <1>0, <1>2, <1>11, <2>1, OthersSound
<1>15. Stage(p, c) = "forgotten" /\ Stage(t, c) = "destroyed"
  BY <1>4, <1>9, <1>11 DEF Stage, IsDown, IsDestroyed
<1>16. OnlyMoves(p, t)
  BY <1>0, <1>9, <1>11, <1>14, OthersMove
<1>. QED BY <1>4, <1>11, <1>14, <1>15, <1>16

-----------------------------------------------------------------------------
(* The state of the specification.  Queues lose at most their first functor   *)
(* and get functors of connections.                                           *)
Drifts(q, r, n) ==
  /\ n <= Len(q) /\ Len(q) - n <= Len(r)
  /\ \A i \in 1 .. Len(q) - n : r[i] = q[i + n]
  /\ \A i \in Len(q) - n + 1 .. Len(r) : r[i].conn \in Conns

QueueDrift(q, r) == \A k \in Loops : \E n \in {0, 1} : Drifts(q[k], r[k], n)

(* What a step of loop l does to the connections. *)
Drift(s, t, l) ==
  /\ OnlyMoves(s, t) /\ QueueDrift(s.queue, t.queue)
  /\ \A d \in Conns :
       \/ Stage(t, d) = Stage(s, d)
       \/ /\ <<Stage(s, d), Stage(t, d)>> \in Rises
          /\ s.conn[d].loop = l \/ Stage(s, d) = "down"
       \/ /\ s.conn[d].loop = l /\ active[l] = {}
          /\ Stage(s, d) = "forgotten" /\ Stage(t, d) = "destroyed"

(* A turn of Stop's loop does not come back to what it closed. *)
Turns ==
  /\ stop' = [stop EXCEPT !.todo = stop'.todo] /\ stop'.todo \subseteq stop.todo
  /\ \A c \in stop.todo \ stop'.todo :
       stop.at = "closing" /\ (conn[c].loop = Base => Stage(Now', c) # "up")

(* A step of loop l leaves the rest of the server alone. *)
StepOf(l) ==
  /\ ub = {} /\ l \in Loops \ Dead
  /\ UNCHANGED <<phase, threads, turn, held, quit>>
  /\ acceptor' = acceptor \/ (acceptor # "reset" /\ acceptor' = "listening")
  /\ Turns
  /\ active' \in [Loops -> SUBSET (Conns \cup {Acceptor})]
  /\ \A k \in Loops : active'[k] \subseteq active[k]

(* The undefined behaviour u that a step to t meets is what is foreseen. *)
Foreseen(t, u) ==
  /\ u \in SUBSET {"iterator", "acceptor", "server"}
  /\ "iterator" \in u => stop.at # "no" /\ threads = 0
  /\ "acceptor" \in u => stop.by = "base"
  /\ "server" \in u => Gone
  /\ "server" \in u \/ (Gone /\ t.calls # calls) =>
       \E c \in Conns : t.conn[c].downs > t.conn[c].destroyed
  /\ \A k \in Dead : t.queue[k] # <<>> => \E c \in Conns :
       conn[c].loop = k /\ (t.conn[c].downs > t.conn[c].destroyed \/ c \in held)

(* Calls are made and return in the iteration of loop l only, and not those   *)
(* Stop was called from.                                                      *)
CallsOf(l, t) ==
  /\ \A k \in Loops : t.calls[k] # calls[k] => k = l /\ phase[l] = "busy"
  /\ stop.at = "closing" => stop.depth <= Len(t.calls[Base])

HandlerStep(l) ==
  /\ StepOf(l) /\ Drift(Now, Now', l) /\ CallsOf(l, Now')
  /\ ub' \in SUBSET Harms
  /\ ub' = {} => (\A k \in Dead : queue'[k] = <<>>) /\ (Gone => calls' = calls)

(* It destroys no connection. *)
Spares == \A d \in Conns : Stage(Now', d) = "destroyed" => Stage(Now, d) = "destroyed"

LEMMA GrowsDrifts ==
  ASSUME NEW s, NEW q \in [Loops -> Seq(Functors)], Typed(s), Grows(s.queue, q)
  PROVE  QueueDrift(s.queue, q)
<1>1. \A k \in Loops : Len(s.queue[k]) \in Nat /\ Len(q[k]) \in Nat
  BY LenProperties DEF Typed
<1>2. ASSUME NEW k \in Loops PROVE Drifts(s.queue[k], q[k], 0)
  BY <1>1 DEF Grows, Drifts
<1>. QED BY <1>2 DEF QueueDrift

LEMMA TakesDrifts ==
  ASSUME NEW s, NEW p, Typed(s), Typed(p), NEW l \in Loops, NEW f,
         s.queue[l] # <<>>, Takes(s, p, l, f),
         NEW q \in [Loops -> Seq(Functors)], Grows(p.queue, q)
  PROVE  QueueDrift(s.queue, q)
<1>1. \A k \in Loops : /\ Len(s.queue[k]) \in Nat /\ Len(q[k]) \in Nat
                        /\ Len(p.queue[k]) \in Nat
  BY LenProperties DEF Typed
<1>2. ASSUME NEW k \in Loops \ {l} PROVE Drifts(s.queue[k], q[k], 0)
  BY <1>1, <1>2 DEF Grows, Takes, Drifts
<1>3. Drifts(s.queue[l], q[l], 1)
  <2>1. s.queue[l] \in Seq(Functors) /\ p.queue[l] = Tail(s.queue[l])
    BY DEF Typed, Takes
  <2>2. /\ Len(p.queue[l]) = Len(s.queue[l]) - 1 /\ Len(s.queue[l]) >= 1
        /\ \A i \in 1 .. Len(s.queue[l]) - 1 : p.queue[l][i] = s.queue[l][i + 1]
    BY <2>1, TailIndex
  <2>. QED BY <1>1, <2>2 DEF Grows, Drifts
<1>. QED BY <1>2, <1>3 DEF QueueDrift

(* Such a drift adds no functor of Stop or Start, and keeps their order. *)
LEMMA DriftStop ==
  ASSUME NEW q \in Seq(Functors), NEW r \in Seq(Functors), NEW n \in {0, 1}, Drifts(q, r, n)
  PROVE  /\ In(StopAllFunctor, r) => In(StopAllFunctor, q)
         /\ Once(StopAllFunctor, q) => Once(StopAllFunctor, r)
         /\ \A j \in 1 .. Len(r) : r[j] = ListenFunctor =>
              /\ j + n \in 1 .. Len(q) /\ q[j + n] = ListenFunctor
              /\ \A i \in j + n + 1 .. Len(q) : i - n \in j + 1 .. Len(r) /\ r[i - n] = q[i]
<1>1. Len(q) \in Nat /\ Len(r) \in Nat
  BY LenProperties
<1>2. StopAllFunctor.conn \notin Conns /\ ListenFunctor.conn \notin Conns
  BY ServerAssumption DEF StopAllFunctor, ListenFunctor, Functor
<1>3. \A j \in 1 .. Len(r) : r[j] \in {StopAllFunctor, ListenFunctor} =>
        j + n \in 1 .. Len(q) /\ q[j + n] = r[j]
  BY <1>1, <1>2 DEF Drifts
<1>4. In(StopAllFunctor, r) => In(StopAllFunctor, q)
  BY <1>3 DEF In
<1>5. Once(StopAllFunctor, q) => Once(StopAllFunctor, r)
  <2>. SUFFICES ASSUME Once(StopAllFunctor, q), NEW i \in 1 .. Len(r), NEW j \in 1 .. Len(r),
                       r[i] = StopAllFunctor, r[j] = StopAllFunctor
                PROVE  i = j
    BY DEF Once
  <2>1. i + n = j + n
    BY <1>3 DEF Once
  <2>. QED BY <1>1, <2>1
<1>6. ASSUME NEW j \in 1 .. Len(r), NEW i \in j + n + 1 .. Len(q)
      PROVE  i - n \in j + 1 .. Len(r) /\ r[i - n] = q[i]
  <2>1. /\ i - n \in 1 .. Len(q) - n /\ i - n \in j + 1 .. Len(r) /\ (i - n) + n = i
    BY <1>1 DEF Drifts
  <2>. QED BY <2>1 DEF Drifts
<1>. QED BY <1>3, <1>4, <1>5, <1>6

LEMMA StopKept ==
  ASSUME IInv, Typed(Now'), QueueDrift(queue, queue'), stop'.by = stop.by, stop'.at = stop.at
  PROVE  /\ \A l \in Loops : In(StopAllFunctor, queue'[l]) => In(StopAllFunctor, queue[l])
         /\ Once(StopAllFunctor, queue'[Base])
         /\ ListenInv'
<1>0. Base \in Loops
  BY DEF Loops
<1>1. queue \in [Loops -> Seq(Functors)] /\ queue' \in [Loops -> Seq(Functors)]
  BY DEF IInv, DataInv, Sound, Typed, Now
<1>2. \A l \in Loops : In(StopAllFunctor, queue'[l]) => In(StopAllFunctor, queue[l])
  <2>. SUFFICES ASSUME NEW l \in Loops
                PROVE  In(StopAllFunctor, queue'[l]) => In(StopAllFunctor, queue[l])
    OBVIOUS
  <2>1. PICK n \in {0, 1} : Drifts(queue[l], queue'[l], n)
    BY DEF QueueDrift
  <2>2. queue[l] \in Seq(Functors) /\ queue'[l] \in Seq(Functors)
    BY <1>1
  <2>. QED BY <2>1, <2>2, DriftStop
<1>3. PICK n \in {0, 1} : Drifts(queue[Base], queue'[Base], n)
  BY <1>0 DEF QueueDrift
<1>4. queue[Base] \in Seq(Functors) /\ queue'[Base] \in Seq(Functors)
  BY <1>0, <1>1
<1>5. /\ Once(StopAllFunctor, queue[Base]) => Once(StopAllFunctor, queue'[Base])
      /\ \A j \in 1 .. Len(queue'[Base]) : queue'[Base][j] = ListenFunctor =>
           /\ j + n \in 1 .. Len(queue[Base]) /\ queue[Base][j + n] = ListenFunctor
           /\ \A i \in j + n + 1 .. Len(queue[Base]) :
                i - n \in j + 1 .. Len(queue'[Base]) /\ queue'[Base][i - n] = queue[Base][i]
  BY SMTT(40), <1>3, <1>4, DriftStop
<1>6. Once(StopAllFunctor, queue[Base]) /\ ListenInv
  BY DEF IInv, Control, StopInv
<1>7. ListenInv'
  <2>. SUFFICES ASSUME stop.by = "outside", NEW j \in 1 .. Len(queue'[Base]),
                       queue'[Base][j] = ListenFunctor
                PROVE  /\ stop.at = "queued"
                       /\ \E i \in j + 1 .. Len(queue'[Base]) : queue'[Base][i] = StopAllFunctor
    BY DEF ListenInv, ListenFunctor, StopAllFunctor, Functor
  <2>1. j + n \in 1 .. Len(queue[Base]) /\ queue[Base][j + n] = ListenFunctor
    BY <1>5
  <2>2. stop.at = "queued"
    BY <1>6, <2>1 DEF ListenInv
  <2>3. PICK i \in j + n + 1 .. Len(queue[Base]) : queue[Base][i] = StopAllFunctor
    BY <1>6, <2>1 DEF ListenInv
  <2>4. i - n \in j + 1 .. Len(queue'[Base]) /\ queue'[Base][i - n] = StopAllFunctor
    BY <1>5, <2>3
  <2>. QED BY <2>2, <2>4
<1>. QED BY <1>2, <1>5, <1>6, <1>7

LEMMA HandlerControl ==
  ASSUME IInv, NEW l, HandlerStep(l), Typed(Now'), UndefinedOnlyInStop'
  PROVE  Control'
<1>0. Base \in Loops
  BY DEF Loops
<1>. USE DEF IInv, Control
<1>01. StepOf(l) /\ CallsOf(l, Now') /\ Now'.calls = calls' /\ Now'.queue = queue'
      /\ Now.queue = queue /\ Now'.conn = conn' /\ Now.conn = conn /\ Now'.connections = connections'
      /\ Now.connections = connections
  BY DEF HandlerStep, Now
<1>02. /\ stop'.at = stop.at /\ stop'.by = stop.by /\ stop'.loop = stop.loop
      /\ stop'.depth = stop.depth /\ stop'.todo \subseteq stop.todo /\ stop' \in Stops
      /\ Stops' = Stops
  BY <1>01 DEF ControlTypes, Turns, StepOf, Stops
<1>1. ControlTypes'
  BY <1>01, <1>02 DEF ControlTypes, StepOf, HandlerStep
<1>2. Dead' = Dead /\ Gone' = Gone
  BY <1>01, <1>02 DEF Dead, Gone, StepOf
<1>3. \A d \in Conns :
       /\ conn'[d].loop = conn[d].loop /\ conn'[d].accepted = conn[d].accepted
       /\ Told(Now', Base, d) =>
            Told(Now, Base, d) \/ (Stage(Now, d) = "up" /\ conn[d].loop = Base)
       /\ \/ Stage(Now', d) = Stage(Now, d)
          \/ <<Stage(Now, d), Stage(Now', d)>> \in Rises
          \/ /\ conn[d].loop = l /\ active[l] = {}
             /\ Stage(Now, d) = "forgotten" /\ Stage(Now', d) = "destroyed"
  BY <1>01 DEF HandlerStep, Drift, OnlyMoves
<1>4. connections' \subseteq connections /\ QueueDrift(queue, queue')
  BY <1>01 DEF HandlerStep, Drift, OnlyMoves
<1>5. LoopInv'
  <2>1. \A k \in Loops : phase[k] # "busy" => active'[k] = {} /\ calls'[k] = <<>>
    BY <1>01 DEF LoopInv, StepOf, CallsOf
  <2>. QED BY <1>2, <1>01, <2>1 DEF LoopInv, HandlerStep, StepOf
<1>6. ActiveInv'
  <2>. SUFFICES ASSUME NEW k \in Loops, NEW c \in active'[k] \cap Conns
                PROVE  conn'[c].loop = k /\ Stage(Now', c) \in {"up", "down", "forgotten"}
    BY DEF ActiveInv
  <2>1. conn[c].loop = k /\ Stage(Now, c) \in {"up", "down", "forgotten"} /\ active[k] # {}
    BY <1>01 DEF ActiveInv, StepOf
  <2>. QED BY <1>3, <2>1 DEF Rises
<1>7. PlaceInv'
  <2>1. \A c \in Conns : Stage(Now', c) = "accepted" => Stage(Now, c) = "accepted"
    BY <1>3 DEF Rises
  <2>2. \A c \in held' \cup stop'.todo : conn'[c].accepted
    BY <1>01, <1>02, <1>3 DEF PlaceInv, ControlTypes, StepOf, Stops
  <2>3. ASSUME NEW c \in Conns, conn'[c].accepted
        PROVE  /\ acceptor' # "idle"
               /\ IF conn'[c].loop = Base THEN threads' = 0 /\ Stage(Now', c) # "accepted"
                  ELSE threads' # 0 /\ \E i \in 1 .. threads' : conn'[c].loop = IoLoops[i]
    <3>1. conn[c].accepted /\ conn'[c].loop = conn[c].loop
      BY <1>3, <2>3
    <3>. QED BY <1>01, <2>1, <3>1 DEF PlaceInv, StepOf
  <2>. QED BY <2>2, <2>3 DEF PlaceInv
<1>8. AcceptorInv'
  BY <1>0, <1>01, <1>02 DEF AcceptorInv, StepOf
<1>9. StopInv'
  <2>1. /\ \A k \in Loops : In(StopAllFunctor, queue'[k]) => In(StopAllFunctor, queue[k])
        /\ Once(StopAllFunctor, queue'[Base])
    BY <1>02, <1>4, StopKept
  <2>2. StopAllFunctor' = StopAllFunctor
    BY DEF StopAllFunctor, Functor
  <2>3. ASSUME stop'.at \in {"closing", "join", "done", "gone"}, NEW c \in Conns,
               Stage(Now', c) = "up", conn'[c].loop = Base
        PROVE  c \in stop'.todo
    <3>1. conn[c].loop = Base /\ Stage(Now, c) \in {"up", "accepted"}
      BY <1>3, <2>3 DEF Rises
    <3>2. Stage(Now, c) # "accepted"
      <4>1. Stage(Now, c) = "accepted" => conn[c].accepted
        BY <1>01 DEF Stage
      <4>. QED BY <3>1, <4>1 DEF PlaceInv
    <3>3. c \in stop.todo
      BY <1>02, <2>3, <3>1, <3>2 DEF StopInv
    <3>. QED BY <1>01, <2>3, <3>1, <3>3 DEF Turns, StepOf
  <2>4. stop'.at # "closing" => stop'.todo = {} /\ stop.todo = {}
    BY <1>02 DEF StopInv
  <2>5. stop'.by = "outside" /\ stop'.at \in {"join", "done"} => \A c \in Conns : ~Told(Now', Base, c)
    <3>. SUFFICES ASSUME stop.by = "outside", stop.at \in {"join", "done"}, NEW c \in Conns,
                         Told(Now', Base, c)
                  PROVE  FALSE
      BY <1>02
    <3>1. ~Told(Now, Base, c)
      BY DEF StopInv
    <3>2. Stage(Now, c) = "up" /\ conn[c].loop = Base
      BY <1>3, <3>1
    <3>. QED BY <1>02, <2>4, <3>2 DEF StopInv
  <2>6. stop'.at = "closing" => phase'[Base] = "busy" /\ stop'.depth <= Len(calls'[Base])
    BY <1>01, <1>02 DEF StopInv, CallsOf, StepOf
  <2>. QED BY <1>01, <1>02, <1>2, <2>1, <2>2, <2>3, <2>4, <2>5, <2>6 DEF StopInv, StepOf
<1>10. GoneInv'
  <2>. SUFFICES ASSUME Gone
                PROVE  /\ connections' = {}
                       /\ ub' = {} => calls'[Base] = <<>>
                       /\ \A c \in Conns : ~Told(Now', Base, c)
                       /\ \A c \in Conns : Stage(Now', c) \in {"accepted", "up"} =>
                            conn'[c].loop \in Dead
    BY <1>2 DEF GoneInv
  <2>1. connections' = {} /\ (ub' = {} => calls'[Base] = <<>>)
    BY <1>4, <1>01 DEF GoneInv, HandlerStep, StepOf
  <2>2. ASSUME NEW c \in Conns PROVE ~Told(Now', Base, c)
    <3>1. ~Told(Now, Base, c) /\ stop.todo = {}
      BY DEF GoneInv, Gone, StopInv
    <3>2. Stage(Now, c) = "up" /\ conn[c].loop = Base => c \in stop.todo
      BY DEF StopInv, Gone
    <3>. QED BY <1>3, <3>1, <3>2
  <2>3. ASSUME NEW c \in Conns, Stage(Now', c) \in {"accepted", "up"} PROVE conn'[c].loop \in Dead
    <3>1. Stage(Now, c) \in {"accepted", "up"}
      BY <1>3, <2>3 DEF Rises
    <3>. QED BY <1>3, <3>1 DEF GoneInv
  <2>. QED BY <2>1, <2>2, <2>3
<1>11. ListenInv'
  BY <1>02, <1>4, StopKept
<1>. QED BY <1>1, <1>5, <1>6, <1>7, <1>8, <1>9, <1>10, <1>11

-----------------------------------------------------------------------------
(* From the operators to the steps. *)
LEMMA BecomeIs ==
  ASSUME NEW s, Typed(s), NEW u, Become(s, u)
  PROVE  Now' = s
BY DEF Become, Now, Typed

LEMMA HandlerData ==
  ASSUME IInv, NEW l, StepOf(l), NEW t, NEW u, Become(t, u), Sound(t, Gone, Dead),
         Drift(Now, t, l), CallsOf(l, t), Foreseen(t, u)
  PROVE  IInv' /\ HandlerStep(l) /\ Now' = t
<1>1. Typed(t) /\ Now' = t
  BY BecomeIs DEF Sound
<1>2. /\ ub = {} /\ stop'.at = stop.at /\ stop'.by = stop.by
      /\ UNCHANGED <<phase, threads, turn, held, quit>>
  BY DEF StepOf, Turns, IInv, Control, ControlTypes, Stops
<1>3. Dead' = Dead /\ Gone' = Gone
  BY <1>2 DEF Dead, Gone
<1>4. DataInv'
  BY <1>1, <1>3 DEF DataInv
<1>5. /\ conn' = t.conn /\ queue' = t.queue /\ calls' = t.calls
      /\ ub' = u \cup {x \in {"loop"} : \E k \in Loops : phase[k] = "dead" /\ t.queue[k] # <<>>}
                 \cup {x \in {"server"} : Gone /\ t.calls # calls}
  BY <1>2 DEF Become, Gone
<1>6. ub' \in SUBSET Harms
  BY <1>5 DEF Foreseen, Harms
<1>7. ub' = {} => (\A k \in Dead : queue'[k] = <<>>) /\ (Gone => calls' = calls)
  BY <1>5 DEF Dead
<1>8. HandlerStep(l)
  BY <1>1, <1>5, <1>6, <1>7 DEF HandlerStep, CallsOf, Now
<1>9. \A c \in Conns : conn'[c].loop = conn[c].loop
  BY <1>5 DEF Drift, OnlyMoves, Now
<1>10. UndefinedOnlyInStop'
  <2>1. "iterator" \in ub' => stop.at # "no" /\ threads = 0
    BY <1>5 DEF Foreseen
  <2>2. "acceptor" \in ub' => stop.by = "base" /\ stop.at # "no"
    BY <1>5 DEF Foreseen, IInv, Control, StopInv
  <2>3. "server" \in ub' => Gone /\ \E c \in Conns : conn'[c].downs > conn'[c].destroyed
    BY <1>5 DEF Foreseen
  <2>4. "loop" \in ub' => stop.at # "no" /\ \E c \in Conns :
          phase[conn[c].loop] = "dead" /\ (conn'[c].downs > conn'[c].destroyed \/ c \in held)
    <3>1. "loop" \in ub' => \E k \in Dead : t.queue[k] # <<>>
      BY <1>5 DEF Foreseen, Dead
    <3>2. stop.at = "no" => Dead = {}
      BY DEF IInv, Control, StopInv
    <3>. QED BY <1>5, <3>1, <3>2 DEF Foreseen, Dead
  <2>. QED BY <1>2, <1>6, <1>9, <2>1, <2>2, <2>3, <2>4 DEF UndefinedOnlyInStop, Gone, Harms
<1>. QED BY <1>1, <1>4, <1>8, <1>10, HandlerControl DEF IInv

(* A handler of loop l starts from p: of the queue and the calls of l, it may *)
(* have left one behind.                                                      *)
Leaves(p, l) ==
  /\ Typed(p) /\ p.conn = conn /\ p.connections = connections
  /\ \A k \in Loops \ {l} : p.queue[k] = queue[k] /\ p.calls[k] = calls[k]
  /\ \A q \in [Loops -> Seq(Functors)] : Grows(p.queue, q) => QueueDrift(queue, q)
  /\ \A d \in Conns : Told(p, Base, d) => Told(Now, Base, d)

LEMMA LeavesNow ==
  ASSUME IInv, NEW l PROVE Leaves(Now, l)
<1>1. Typed(Now)
  BY DEF IInv, DataInv, Sound
<1>2. \A q \in [Loops -> Seq(Functors)] : Grows(Now.queue, q) => QueueDrift(Now.queue, q)
  BY <1>1, GrowsDrifts
<1>3. Now.queue = queue /\ Now.conn = conn /\ Now.connections = connections /\ Now.calls = calls
  BY DEF Now
<1>. QED BY <1>1, <1>2, <1>3 DEF Leaves

(* Then it does what the operators do. *)
LEMMA HandlerMoves ==
  ASSUME IInv, NEW l, StepOf(l), NEW p, Leaves(p, l), NEW t, NEW u, Become(t, u),
         Sound(t, Gone, Dead), NEW ks, Moves(p, t, l, ks),
         p.calls # calls => ~Gone, t.calls # calls => phase[l] = "busy",
         stop.at = "closing" => stop.depth <= Len(p.calls[Base]),
         u \in SUBSET {"iterator", "server"},
         "iterator" \in u => stop.at # "no" /\ threads = 0,
         "server" \in u => Gone /\ \E c \in Conns : t.conn[c].downs > t.conn[c].destroyed,
         \A k \in Dead \cap ks : \E c \in Conns :
           conn[c].loop = k /\ (t.conn[c].downs > t.conn[c].destroyed \/ c \in held)
  PROVE  IInv' /\ HandlerStep(l) /\ Spares
<1>0. Base \in Loops /\ l \in Loops \ Dead /\ Now.queue = queue /\ Now.conn = conn
      /\ Now.connections = connections /\ Now.calls = calls
  BY DEF Loops, StepOf, Now
<1>1. /\ Typed(p) /\ Typed(t) /\ p.conn = conn /\ p.connections = connections
      /\ \A d \in Conns : Stage(p, d) = Stage(Now, d)
  BY <1>0 DEF Sound, Leaves, Stage
<1>2. OnlyMoves(Now, t)
  BY <1>0, <1>1 DEF Moves, OnlyMoves, Leaves
<1>3. QueueDrift(Now.queue, t.queue)
  BY <1>0, <1>1 DEF Leaves, Moves, Typed
<1>4. /\ \A d \in Conns :
            \/ Stage(t, d) = Stage(Now, d)
            \/ /\ <<Stage(Now, d), Stage(t, d)>> \in Rises
               /\ conn[d].loop = l \/ Stage(Now, d) = "down"
  BY <1>1 DEF Moves
<1>5. Drift(Now, t, l)
  BY <1>0, <1>2, <1>3, <1>4 DEF Drift
<1>6. CallsOf(l, t)
  <2>1. \A k \in Loops \ {l} : t.calls[k] = calls[k]
    BY DEF Moves, OnlyCalls, Leaves
  <2>2. Len(p.calls[Base]) <= Len(t.calls[Base]) /\ Len(p.calls[Base]) \in Nat
        /\ Len(t.calls[Base]) \in Nat /\ stop.depth \in Nat
    BY <1>0, <1>1, LenProperties DEF Moves, OnlyCalls, Typed, IInv, Control, ControlTypes, Stops
  <2>. QED BY <2>1, <2>2 DEF CallsOf
<1>7. ASSUME NEW k \in Dead, t.queue[k] # <<>>
      PROVE  \E c \in Conns : conn[c].loop = k /\ (t.conn[c].downs > t.conn[c].destroyed \/ c \in held)
  <2>1. k \in Loops /\ k # l /\ queue[k] = <<>>
    BY <1>0 DEF Dead, IInv, Control, LoopInv, StepOf
  <2>2. k \in ks
    BY <1>7, <2>1 DEF Leaves, Moves
  <2>. QED BY <2>2
<1>8. ASSUME Gone, t.calls # calls
      PROVE  \E c \in Conns : t.conn[c].downs > t.conn[c].destroyed
  <2>1. t.calls # p.calls
    BY <1>8
  <2>2. PICK d \in Conns : \/ p.conn[d].loop = l /\ Stage(p, d) \in {"accepted", "up"}
                           \/ t.conn[d].downs > t.conn[d].destroyed
    BY <2>1 DEF Moves, OnlyCalls
  <2>3. ~(conn[d].loop = l /\ Stage(Now, d) \in {"accepted", "up"})
    BY <1>0, <1>8 DEF IInv, Control, GoneInv
  <2>. QED BY <1>1, <2>2, <2>3
<1>9. Foreseen(t, u)
  BY <1>7, <1>8 DEF Foreseen
<1>10. IInv' /\ HandlerStep(l) /\ Now' = t
  BY <1>5, <1>6, <1>9, HandlerData
<1>11. Spares
  BY <1>4, <1>10 DEF Spares, Rises
<1>. QED BY <1>10, <1>11

LEMMA StopStays ==
  ASSUME IInv, UNCHANGED stop PROVE Turns
BY DEF IInv, Control, ControlTypes, Turns, Stops

(* What holds where a loop runs: Base does not, between the turns of Stop's   *)
(* loop.                                                                      *)
LEMMA Running ==
  ASSUME IInv, NEW l \in Loops, NEW p \in {"select", "busy"}, Runs(l, p)
  PROVE  /\ ub = {} /\ l \in Loops \ Dead /\ (l = Base => stop.at # "closing")
         /\ phase[l] = p /\ calls[l] = <<>> /\ Now.calls[l] = <<>>
         /\ Sound(Now, Gone, Dead) /\ Typed(Now)
<1>1. ub = {} /\ phase[l] = p /\ calls[l] = <<>> /\ ~(l = Base /\ Stopping)
  BY DEF Runs
<1>2. l = Base => stop.at # "closing"
  <2>. SUFFICES ASSUME l = Base, stop.at = "closing" PROVE FALSE
    OBVIOUS
  <2>1. stop.depth <= Len(calls[Base]) /\ Len(calls[Base]) = 0 /\ stop.depth \in Nat
    BY <1>1, EmptySeq DEF IInv, Control, StopInv, ControlTypes, Stops
  <2>. QED BY <1>1, <2>1 DEF Stopping
<1>. QED BY <1>1, <1>2 DEF IInv, Dead, DataInv, Sound, Now

LEMMA Handling ==
  ASSUME IInv, NEW l \in Loops, NEW c \in Conns \cup {Acceptor}, Handles(l, c)
  PROVE  /\ Runs(l, "busy") /\ active' \in [Loops -> SUBSET (Conns \cup {Acceptor})]
         /\ \A k \in Loops : active'[k] \subseteq active[k]
         /\ c \in Conns => conn[c].loop = l /\ conn[c].accepted
<1>1. active \in [Loops -> SUBSET (Conns \cup {Acceptor})] /\ active' = [active EXCEPT ![l] = @ \ {c}]
  BY DEF Handles, IInv, Control, ControlTypes
<1>2. c \in Conns => conn[c].loop = l /\ Stage(Now, c) \in {"up", "down", "forgotten"}
  BY DEF Handles, IInv, Control, ActiveInv
<1>. QED BY <1>1, <1>2 DEF Handles, Stage, Now

(* A step that only handles an event or runs a functor is such a step. *)
LEMMA HandlerIs ==
  ASSUME IInv, NEW l \in Loops \ Dead, ub = {},
         active' \in [Loops -> SUBSET (Conns \cup {Acceptor})],
         \A k \in Loops : active'[k] \subseteq active[k],
         UNCHANGED <<phase, acceptor, threads, turn, held, stop, quit>>
  PROVE  StepOf(l)
BY StopStays DEF StepOf

LEMMA QuietActive ==
  ASSUME IInv, UNCHANGED active
  PROVE  /\ active' \in [Loops -> SUBSET (Conns \cup {Acceptor})]
         /\ \A k \in Loops : active'[k] \subseteq active[k]
BY DEF IInv, Control, ControlTypes

(* The application is called for data of c. *)
LEMMA TellSound ==
  ASSUME NEW g, NEW D, NEW s, Sound(s, g, D), NEW c \in Conns,
         IsUp(s.conn[c]) \/ IsDown(s.conn[c]), NEW l, l = s.conn[c].loop,
         NEW t, t = Calling(s, l, "data", c)
  PROVE  Sound(t, g, D) /\ Moves(s, t, l, {})
<1>0. /\ Base \in Loops /\ l \in Loops /\ Typed(s) /\ Good(s, c, g, D)
      /\ "data" \in Kinds /\ "down" \in Kinds
  BY DEF Loops, Sound, Typed, Records, Kinds
<1>1. Enters(s, t, l, Call("data", c))
  BY <1>0, Enter
<1>2. /\ Typed(t) /\ t.conn = s.conn /\ t.connections = s.connections /\ t.queue = s.queue
      /\ Others(s, t, c)
  <2>1. Others(s, t, c)
    BY <1>1, EnterOthers
  <2>. QED BY <1>1, <2>1 DEF Enters
<1>3. \A k \in Loops :
        /\ \A kind \in Kinds : Within(t, kind, k, c) =>
             Within(s, kind, k, c) \/ (k = l /\ kind = "data")
        /\ Told(t, k, c) <=> Told(s, k, c)
        /\ Once(Call("down", c), s.calls[k]) => Once(Call("down", c), t.calls[k])
  <2>1. \A kind \in Kinds : Call(kind, c) = Call("data", c) <=> kind = "data"
    BY DEF Call
  <2>2. Call("down", c) # Call("data", c)
    BY DEF Call
  <2>. QED BY <1>1, <2>1, <2>2 DEF Enters, Within, Told
<1>4. Stand(t, c)
  BY <1>0, <1>2, <1>3 DEF Good, Stand, Pending
<1>5. Kept(t, c, g) /\ Awaited(t, c, D)
  BY <1>0, <1>2, <1>3 DEF Good, Kept, Awaited, Pending
<1>6. Sound(t, g, D) /\ \A d \in Conns \ {c} : Stage(t, d) = Stage(s, d)
  <2>1. Good(t, c, g, D) /\ \A d \in Conns \ {c} : Good(s, d, g, D)
    BY <1>4, <1>5 DEF Good, Sound
  <2>. QED BY <1>0, <1>2, <2>1, OthersSound
<1>7. Stage(t, c) = Stage(s, c)
  BY <1>2 DEF Stage
<1>8. OnlyMoves(s, t)
  <2>1. Told(t, Base, c) => Told(s, Base, c)
    BY <1>0, <1>3
  <2>. QED BY <1>2, <1>6, <2>1, OthersMove
<1>9. OnlyCalls(s, t, l)
  <2>1. \/ s.conn[c].loop = l /\ Stage(s, c) \in {"accepted", "up"}
        \/ t.conn[c].downs > t.conn[c].destroyed
    BY <1>2 DEF Stage, IsUp, IsDown
  <2>. QED BY <1>0, <1>1, <2>1, EnterCalls
<1>. QED BY <1>0, <1>2, <1>6, <1>7, <1>8, <1>9, GrowsItself DEF Moves

-----------------------------------------------------------------------------
(* The events of a loop. *)
Keeps == (\A c \in Conns : Stage(Now', c) = Stage(Now, c)) /\ Gone' = Gone

LEMMA NothingStep ==
  ASSUME IInv, NEW l \in Loops, HandleNothing(l)
  PROVE  IInv' /\ HandlerStep(l) /\ Spares
<1>1. PICK c \in Conns \cup {Acceptor} : Handles(l, c)
  BY DEF HandleNothing, IInv, Control, ControlTypes
<1>2. Runs(l, "busy") /\ active' \in [Loops -> SUBSET (Conns \cup {Acceptor})]
      /\ \A k \in Loops : active'[k] \subseteq active[k]
  BY <1>1, Handling
<1>3. /\ ub = {} /\ l \in Loops \ Dead /\ Sound(Now, Gone, Dead) /\ Typed(Now)
      /\ (l = Base => stop.at # "closing")
  BY <1>2, Running
<1>4. StepOf(l)
  BY <1>2, <1>3, HandlerIs DEF HandleNothing
<1>5. Become(Now, {})
  BY <1>3 DEF HandleNothing, Become, Now, IInv, Control, LoopInv, Dead
<1>6. Moves(Now, Now, l, {}) /\ Leaves(Now, l) /\ Now.calls = calls
  BY <1>3, MovesNothing, LeavesNow DEF Now
<1>7. stop.at = "closing" => stop.depth <= Len(Now.calls[Base])
  BY DEF Now, IInv, Control, StopInv
<1>. QED BY <1>3, <1>4, <1>5, <1>6, <1>7, HandlerMoves

(* A handler that leaves nothing behind. *)
LEMMA EventMoves ==
  ASSUME IInv, NEW l \in Loops, NEW c \in Conns, Handles(l, c),
         UNCHANGED <<phase, acceptor, threads, turn, held, stop, quit>>,
         NEW t, Become(t, {}), Sound(t, Gone, Dead), Moves(Now, t, l, {})
  PROVE  IInv' /\ HandlerStep(l) /\ Spares
<1>1. /\ Runs(l, "busy") /\ active' \in [Loops -> SUBSET (Conns \cup {Acceptor})]
      /\ \A k \in Loops : active'[k] \subseteq active[k]
  BY Handling
<1>2. ub = {} /\ l \in Loops \ Dead /\ phase[l] = "busy"
  BY <1>1, Running
<1>3. StepOf(l)
  BY <1>1, <1>2, HandlerIs
<1>4. Leaves(Now, l) /\ Now.calls = calls
  BY LeavesNow DEF Now
<1>5. stop.at = "closing" => stop.depth <= Len(Now.calls[Base])
  BY DEF Now, IInv, Control, StopInv
<1>. QED BY <1>2, <1>3, <1>4, <1>5, HandlerMoves

LEMMA ReadingIsUp ==
  ASSUME IInv, NEW c \in Conns, conn[c].reading
  PROVE  IsUp(Now.conn[c])
<1>1. Stand(Now, c)
  BY DEF IInv, DataInv, Sound, Good
<1>. QED BY <1>1 DEF Stand, Now, IsNew, IsAccepted, IsDown, IsDestroyed, Quiet

LEMMA MessageStep ==
  ASSUME IInv, NEW l \in Loops, NEW c \in Conns, HandleMessage(l, c)
  PROVE  IInv' /\ HandlerStep(l) /\ Spares
<1>1. PICK t : t = Calling(Now, l, "data", c)
  OBVIOUS
<1>2. Handles(l, c) /\ Become(t, {}) /\ conn[c].reading
      /\ UNCHANGED <<phase, acceptor, threads, turn, held, stop, quit>>
  BY <1>1 DEF HandleMessage
<1>3. Runs(l, "busy") /\ Now.conn[c].loop = l
  BY <1>2, Handling DEF Now
<1>4. Sound(Now, Gone, Dead) /\ IsUp(Now.conn[c])
  BY <1>2, <1>3, Running, ReadingIsUp
<1>5. Sound(t, Gone, Dead) /\ Moves(Now, t, l, {})
  BY <1>1, <1>3, <1>4, TellSound
<1>. QED BY <1>2, <1>5, EventMoves

LEMMA EndStep ==
  ASSUME IInv, NEW l \in Loops, NEW c \in Conns, HandleEnd(l, c)
  PROVE  IInv' /\ HandlerStep(l) /\ Spares
<1>1. PICK t : t = HandleClose(Now, l, c)
  OBVIOUS
<1>2. Handles(l, c) /\ Become(t, {}) /\ conn[c].reading
      /\ UNCHANGED <<phase, acceptor, threads, turn, held, stop, quit>>
  BY <1>1 DEF HandleEnd
<1>3. Runs(l, "busy") /\ Now.conn[c].loop = l
  BY <1>2, Handling DEF Now
<1>4. Sound(Now, Gone, Dead) /\ IsUp(Now.conn[c]) /\ l \notin Dead
  BY <1>2, <1>3, Running, ReadingIsUp
<1>5. ~Gone
  <2>1. Stage(Now, c) = "up"
    BY <1>4, StageIs DEF Sound, Good
  <2>. QED BY <1>3, <1>4, <2>1 DEF IInv, Control, GoneInv, Now
<1>6. Sound(t, Gone, Dead) /\ Moves(Now, t, l, {})
  BY <1>1, <1>3, <1>4, <1>5, HandleCloseSound
<1>. QED BY <1>2, <1>6, EventMoves

-----------------------------------------------------------------------------
(* The application's code, called for a connection that is up or down on that *)
(* loop; it is over before the server goes.                                   *)
LEMMA AppCalled ==
  ASSUME IInv, NEW l \in Loops, AppRuns(l)
  PROVE  /\ ub = {} /\ l \in Loops \ Dead /\ phase[l] = "busy" /\ calls[l] # <<>> /\ ~Gone
         /\ Called(l) \in Conns /\ Head(calls[l]).kind \in Kinds
         /\ Head(calls[l]) = Call(Head(calls[l]).kind, Called(l))
         /\ conn[Called(l)].loop = l /\ conn[Called(l)].accepted
         /\ Sound(Now, Gone, Dead) /\ Typed(Now) /\ Now.calls = calls /\ Now.conn = conn
         /\ Returns(Now, [Now EXCEPT !.calls[l] = Tail(@)], l, Head(calls[l]))
<1>. DEFINE e == Head(calls[l])
            c == Called(l)
            kind == e.kind
<1>1. /\ ub = {} /\ calls[l] # <<>> /\ phase[l] = "busy" /\ l \in Loops \ Dead
  BY DEF AppRuns, IInv, Control, LoopInv, Dead
<1>2. Sound(Now, Gone, Dead) /\ Typed(Now) /\ Now.calls = calls /\ Now.conn = conn
  BY DEF IInv, DataInv, Sound, Now
<1>3. Returns(Now, [Now EXCEPT !.calls[l] = Tail(@)], l, e)
  BY <1>1, <1>2, GoBack
<1>4. e \in Frames /\ In(e, Now.calls[l])
  BY <1>3 DEF Returns
<1>5. c \in Conns /\ kind \in Kinds /\ e = Call(kind, c)
  BY <1>4 DEF Frames, Call, Called
<1>6. Stand(Now, c) /\ Within(Now, kind, l, c)
  BY <1>2, <1>4, <1>5 DEF Sound, Good, Within
<1>7. conn[c].loop = l /\ conn[c].accepted
  BY <1>2, <1>5, <1>6 DEF Stand, IsUp, IsDown
<1>8. ~Gone
  <2>. SUFFICES ASSUME Gone PROVE FALSE
    OBVIOUS
  <2>1. l # Base
    BY <1>1 DEF IInv, Control, GoneInv
  <2>2. PICK i \in 1 .. threads : l = IoLoops[i]
    BY <1>5, <1>7, <2>1 DEF IInv, Control, PlaceInv
  <2>3. phase[l] = "dead"
    BY <2>2 DEF IInv, Control, StopInv, Gone
  <2>. QED BY <1>1, <2>3
<1>. QED BY <1>1, <1>2, <1>3, <1>5, <1>7, <1>8

LEMMA AppUsesStep ==
  ASSUME IInv, NEW l \in Loops, NEW c \in Conns, AppUses(l, c)
  PROVE  IInv' /\ HandlerStep(l) /\ Spares
<1>1. /\ AppRuns(l) /\ c \in held \cup {Called(l)}
      /\ UNCHANGED <<phase, active, acceptor, threads, turn, held, stop, quit>>
  BY DEF AppUses
<1>2. PICK t \in {ForceClose(Now, l, c), Shutdown(Now, l, c)} \cup Send(Now, l, c) : Become(t, {})
  BY DEF AppUses
<1>3. /\ ub = {} /\ l \in Loops \ Dead /\ phase[l] = "busy" /\ ~Gone
      /\ conn[Called(l)].loop = l /\ conn[Called(l)].accepted
      /\ Sound(Now, Gone, Dead) /\ Now.calls = calls /\ Now.conn = conn
  BY <1>1, AppCalled
<1>4. Now.conn[c].accepted
  BY <1>1, <1>3 DEF IInv, Control, PlaceInv
<1>5. Sound(t, Gone, Dead) /\ Moves(Now, t, l, {Now.conn[c].loop})
  <2>1. CASE t = ForceClose(Now, l, c)
    BY <1>3, <1>4, <2>1, ForceCloseSound
  <2>2. CASE t = Shutdown(Now, l, c)
    BY <1>3, <1>4, <2>2, ShutdownSound
  <2>3. CASE t \in Send(Now, l, c)
    BY <1>3, <1>4, <2>3, SendSound
  <2>. QED BY <2>1, <2>2, <2>3
<1>6. StepOf(l)
  BY <1>1, <1>3, HandlerIs, QuietActive
<1>7. Leaves(Now, l)
  BY LeavesNow
<1>8. stop.at = "closing" => stop.depth <= Len(Now.calls[Base])
  BY <1>3 DEF IInv, Control, StopInv
<1>9. \A k \in Dead \cap {Now.conn[c].loop} : conn[c].loop = k /\ c \in held
  BY <1>1, <1>3
<1>. QED BY <1>2, <1>3, <1>5, <1>6, <1>7, <1>8, <1>9, HandlerMoves

(* A call returns. *)
LEMMA ReturnStep ==
  ASSUME IInv, NEW l \in Loops, Return(l)
  PROVE  IInv' /\ HandlerStep(l) /\ Spares
<1>. DEFINE c == Called(l)
            kind == Head(calls[l]).kind
            back == [Now EXCEPT !.calls[l] = Tail(@)]
            inStop == l = Base /\ stop.at = "closing" /\ Len(back.calls[l]) = stop.depth
            u == {x \in {"iterator"} : kind = "down" /\ inStop}
<1>0. Base \in Loops
  BY DEF Loops
<1>1. /\ AppRuns(l) /\ UNCHANGED <<phase, active, acceptor, threads, turn, held, stop, quit>>
      /\ Become(IF kind = "down" THEN HandleConnectionClosed(back, l, c) ELSE back, u)
  <2>1. CASE kind = "down"
    <3>1. {x \in {"iterator"} : inStop} = u
      BY <2>1
    <3>. QED BY <2>1, <3>1 DEF Return
  <2>2. CASE kind # "down"
    <3>1. {} = u
      BY <2>2
    <3>. QED BY <2>2, <3>1 DEF Return
  <2>. QED BY <2>1, <2>2
<1>2. /\ ub = {} /\ l \in Loops \ Dead /\ phase[l] = "busy" /\ calls[l] # <<>> /\ ~Gone
      /\ c \in Conns /\ kind \in Kinds /\ Head(calls[l]) = Call(kind, c)
      /\ conn[c].loop = l /\ conn[c].accepted
      /\ Sound(Now, Gone, Dead) /\ Typed(Now) /\ Now.calls = calls /\ Now.conn = conn
      /\ Returns(Now, back, l, Call(kind, c))
  BY <1>1, AppCalled
<1>3. /\ Typed(back) /\ back.conn = conn /\ back.connections = connections /\ back.queue = queue
      /\ (\A k \in Loops \ {l} : back.calls[k] = calls[k])
      /\ Len(back.calls[l]) = Len(calls[l]) - 1
      /\ \A d \in Conns : Told(back, Base, d) => Told(Now, Base, d)
  <2>1. /\ Typed(back) /\ back.conn = conn /\ back.connections = connections /\ back.queue = queue
        /\ (\A k \in Loops \ {l} : back.calls[k] = calls[k])
        /\ Len(back.calls[l]) = Len(calls[l]) - 1
    BY <1>2 DEF Returns, Now
  <2>2. \A x : In(x, back.calls[Base]) => In(x, Now.calls[Base])
    BY <1>0, <1>2 DEF Returns
  <2>. QED BY <2>1, <2>2 DEF Told, Within
<1>4. PICK p : p = back
  OBVIOUS
<1>5. PICK t : t = IF kind = "down" THEN HandleConnectionClosed(p, l, c) ELSE p
  OBVIOUS
<1>6. Become(t, u) /\ u \in SUBSET {"iterator", "server"} /\ "server" \notin u
  BY <1>1, <1>4, <1>5
<1>7. stop.at = "closing" => stop.depth <= Len(p.calls[Base])
  <2>. SUFFICES ASSUME stop.at = "closing", l = Base PROVE stop.depth <= Len(p.calls[Base])
    BY <1>0, <1>3, <1>4 DEF IInv, Control, StopInv
  <2>1. Len(calls[Base]) # stop.depth /\ stop.depth <= Len(calls[Base])
    BY <1>1 DEF AppRuns, Stopping, IInv, Control, StopInv
  <2>2. Len(calls[Base]) \in Nat /\ stop.depth \in Nat
    BY <1>0, <1>2, LenProperties DEF Typed, IInv, Control, ControlTypes, Stops
  <2>. QED BY <1>3, <1>4, <2>1, <2>2
<1>8. "iterator" \in u => stop.at # "no" /\ threads = 0
  <2>. SUFFICES ASSUME "iterator" \in u PROVE stop.at # "no" /\ threads = 0
    OBVIOUS
  <2>1. l = Base /\ stop.at = "closing"
    OBVIOUS
  <2>. QED BY <1>2, <2>1 DEF IInv, Control, PlaceInv
<1>. HIDE DEF u, back, inStop
<1>9. Leaves(p, l)
  <2>1. \A q \in [Loops -> Seq(Functors)] : Grows(queue, q) => QueueDrift(queue, q)
    BY LeavesNow DEF Leaves, Now
  <2>. QED BY <1>3, <1>4, <2>1 DEF Leaves
<1>10. StepOf(l)
  BY <1>1, <1>2, HandlerIs, QuietActive
<1>11. Sound(t, Gone, Dead) /\ Moves(p, t, l, {Base, l})
  <2>1. CASE kind = "down"
    BY <1>2, <1>4, <1>5, <2>1, CloseReturnSound
  <2>2. CASE kind # "down"
    <3>1. Call(kind, c).kind # "down"
      BY <2>2 DEF Call
    <3>. QED BY <1>2, <1>3, <1>4, <1>5, <2>2, <3>1, ReturnSound, MovesNothing, MovesWider
  <2>. QED BY <2>1, <2>2
<1>12. Dead \cap {Base, l} = {}
  BY <1>2 DEF Dead, IInv, Control, LoopInv
<1>. QED BY <1>2, <1>6, <1>7, <1>8, <1>9, <1>10, <1>11, <1>12, HandlerMoves

-----------------------------------------------------------------------------
(* A functor is called. *)
Invoked(l, op, c) ==
  /\ Takes(Now, Popped(l), l, Functor(op, c)) /\ c \in Conns /\ Pending(Now, op, l, c)
  /\ Stand(Now, c) /\ Good(Now, c, Gone, Dead)

LEMMA Invoking ==
  ASSUME IInv, NEW l \in Loops, NEW op, Calls(l, op)
  PROVE  /\ Runs(l, "busy") /\ active[l] = {} /\ queue[l] # <<>> /\ Head(queue[l]).op = op
         /\ Takes(Now, Popped(l), l, Head(queue[l])) /\ Leaves(Popped(l), l)
         /\ Popped(l).calls = calls
         /\ \A d : Stage(Popped(l), d) = Stage(Now, d)
         /\ op \in ConnOps => Invoked(l, op, First(l))
<1>1. Runs(l, "busy") /\ active[l] = {} /\ queue[l] # <<>> /\ Head(queue[l]).op = op
  BY DEF Calls, InvokeRunInLoopFuncs
<1>2. /\ Typed(Now) /\ Sound(Now, Gone, Dead)
      /\ Now.queue = queue /\ Now.conn = conn /\ Now.connections = connections /\ Now.calls = calls
  BY DEF IInv, DataInv, Sound, Now
<1>3. Takes(Now, Popped(l), l, Head(queue[l]))
  <2>1. Now.queue[l] # <<>>
    BY <1>1, <1>2
  <2>2. Takes(Now, [Now EXCEPT !.queue[l] = Tail(@)], l, Head(Now.queue[l]))
    BY <1>2, <2>1, Take
  <2>3. Popped(l) = [Now EXCEPT !.queue[l] = Tail(@)]
    BY <1>2 DEF Popped, Now
  <2>. QED BY <1>2, <2>2, <2>3
<1>4. /\ Typed(Popped(l)) /\ Popped(l).conn = conn /\ Popped(l).connections = connections
      /\ Popped(l).calls = calls
      /\ \A k \in Loops \ {l} : Popped(l).queue[k] = queue[k]
  BY <1>2, <1>3 DEF Takes
<1>5. \A d : Stage(Popped(l), d) = Stage(Now, d)
  BY <1>2, <1>4 DEF Stage
<1>6. Leaves(Popped(l), l)
  <2>1. PICK p, f : p = Popped(l) /\ f = Head(queue[l])
    OBVIOUS
  <2>2. Typed(p) /\ Takes(Now, p, l, f) /\ Now.queue[l] # <<>>
    BY <1>1, <1>2, <1>3, <1>4, <2>1
  <2>3. \A q \in [Loops -> Seq(Functors)] : Grows(p.queue, q) => QueueDrift(Now.queue, q)
    BY <1>2, <2>2, TakesDrifts
  <2>4. \A d \in Conns : Told(p, Base, d) => Told(Now, Base, d)
    BY <2>2 DEF Takes, Told, Within
  <2>. QED BY <1>2, <1>4, <2>1, <2>3, <2>4 DEF Leaves
<1>7. ASSUME op \in ConnOps PROVE Invoked(l, op, First(l))
  <2>1. Head(queue[l]) \in Functors
    BY <1>3 DEF Takes
  <2>2. First(l) \in Conns /\ Head(queue[l]) = Functor(op, First(l))
    BY <1>1, <1>7, <2>1 DEF Functors, Functor, First, ConnOps, Requests
  <2>3. Takes(Now, Popped(l), l, Functor(op, First(l)))
    BY <1>3, <2>2
  <2>4. Pending(Now, op, l, First(l))
    BY <2>3 DEF Takes, Pending
  <2>5. Good(Now, First(l), Gone, Dead)
    BY <1>2, <2>2 DEF Sound
  <2>. QED BY <2>2, <2>3, <2>4, <2>5 DEF Invoked, Good
<1>. QED BY <1>1, <1>3, <1>4, <1>5, <1>6, <1>7

LEMMA FunctorMoves ==
  ASSUME IInv, NEW l \in Loops, NEW op, Calls(l, op),
         UNCHANGED <<phase, active, acceptor, threads, turn, held, stop, quit>>,
         NEW t, NEW u, Become(t, u), Sound(t, Gone, Dead), NEW ks, Moves(Popped(l), t, l, ks),
         u \in SUBSET {"server"},
         "server" \in u => Gone /\ \E c \in Conns : t.conn[c].downs > t.conn[c].destroyed,
         \A k \in Dead \cap ks : \E c \in Conns :
           conn[c].loop = k /\ (t.conn[c].downs > t.conn[c].destroyed \/ c \in held)
  PROVE  IInv' /\ HandlerStep(l) /\ Spares
<1>1. Runs(l, "busy") /\ Leaves(Popped(l), l) /\ Popped(l).calls = calls
  BY Invoking
<1>2. ub = {} /\ l \in Loops \ Dead /\ phase[l] = "busy"
  BY <1>1, Running
<1>3. StepOf(l)
  BY <1>2, HandlerIs, QuietActive
<1>4. stop.at = "closing" => stop.depth <= Len(Popped(l).calls[Base])
  BY <1>1 DEF IInv, Control, StopInv
<1>5. u \in SUBSET {"iterator", "server"} /\ "iterator" \notin u
  OBVIOUS
<1>6. Popped(l).calls # calls => ~Gone
  BY <1>1
<1>. QED BY <1>1, <1>2, <1>3, <1>4, <1>5, <1>6, HandlerMoves

(* Nothing is accepted or up on a loop that is there when the server is not. *)
LEMMA LiveIsClosed ==
  ASSUME IInv, Gone, NEW c \in Conns, conn[c].loop \notin Dead
  PROVE  ~IsAccepted(Now.conn[c]) /\ ~IsUp(Now.conn[c])
<1>1. Stage(Now, c) \notin {"accepted", "up"}
  BY DEF IInv, Control, GoneInv
<1>. QED BY <1>1 DEF Stage, IsAccepted, IsUp

(* What a functor that Remove and Destroy are not finds. *)
LEMMA Popping ==
  ASSUME IInv, NEW l \in Loops, NEW op \in ConnOps \ {"Remove", "Destroy"}, Calls(l, op),
         NEW s, s = Popped(l), NEW c, c = First(l)
  PROVE  /\ c \in Conns /\ l \notin Dead /\ Sound(s, Gone, Dead) /\ s.conn = Now.conn
         /\ Pending(Now, op, l, c) /\ Stand(Now, c) /\ Typed(s)
<1>1. Runs(l, "busy") /\ Invoked(l, op, c)
  BY Invoking
<1>2. l \notin Dead /\ Sound(Now, Gone, Dead)
  BY <1>1, Running
<1>3. Takes(Now, s, l, Functor(op, c))
  BY <1>1 DEF Invoked
<1>4. \A d \in Conns : Functor(op, c) \notin {Functor("Remove", d), Functor("Destroy", d)}
  BY DEF Functor
<1>5. Sound(s, Gone, Dead)
  BY <1>2, <1>3, <1>4, TakeSound
<1>. QED BY <1>1, <1>2, <1>3, <1>5 DEF Invoked, Takes

(* The functors of the application. *)
LEMMA RequestStep ==
  ASSUME IInv, NEW l \in Loops, RunForceClose(l) \/ RunShutdown(l) \/ RunSend(l)
  PROVE  IInv' /\ HandlerStep(l) /\ Spares
<1>1. PICK s, c : s = Popped(l) /\ c = First(l)
  OBVIOUS
<1>2. PICK op \in {"ForceClose", "Shutdown", "Send"},
           t \in {ForceCloseInLoop(s, l, c), ShutdownInLoop(s, c)} \cup SendInLoop(s, c) :
        /\ Calls(l, op) /\ Become(t, {})
        /\ UNCHANGED <<phase, active, acceptor, threads, turn, held, stop, quit>>
  <2>1. CASE RunForceClose(l)
    BY <1>1, <2>1 DEF RunForceClose
  <2>2. CASE RunShutdown(l)
    BY <1>1, <2>2 DEF RunShutdown
  <2>3. CASE RunSend(l)
    BY <1>1, <2>3 DEF RunSend
  <2>. QED BY <2>1, <2>2, <2>3
<1>3. op \in ConnOps \ {"Remove", "Destroy"}
  BY DEF ConnOps, Requests
<1>4. /\ c \in Conns /\ l \notin Dead /\ Sound(s, Gone, Dead) /\ s.conn = Now.conn
      /\ Pending(Now, op, l, c) /\ Stand(Now, c)
  BY <1>1, <1>2, <1>3, Popping
<1>5. s.conn[c].loop = l /\ conn[c].loop = l
  BY <1>4 DEF Stand, Now
<1>6. Gone => ~IsUp(s.conn[c])
  BY <1>4, <1>5, LiveIsClosed
<1>7. Sound(t, Gone, Dead) /\ Moves(s, t, l, {l})
  <2>1. CASE t = ForceCloseInLoop(s, l, c)
    BY <1>4, <1>5, <1>6, <2>1, ForceCloseInLoopSound, MovesWider
  <2>2. CASE t = ShutdownInLoop(s, c)
    BY <1>4, <2>2, ShutdownInLoopSound, MovesWider
  <2>3. CASE t \in SendInLoop(s, c)
    BY <1>4, <1>5, <2>3, SendInLoopSound
  <2>. QED BY <2>1, <2>2, <2>3
<1>. QED BY <1>1, <1>2, <1>4, <1>7, FunctorMoves

(* The end of a write is told of while the connection is up or down. *)
LEMMA CompleteStep ==
  ASSUME IInv, NEW l \in Loops, RunComplete(l)
  PROVE  IInv' /\ HandlerStep(l) /\ Spares
<1>1. PICK s, c : s = Popped(l) /\ c = First(l)
  OBVIOUS
<1>2. PICK t : t = Calling(s, l, "data", c)
  OBVIOUS
<1>3. /\ Calls(l, "Complete") /\ Become(t, {})
      /\ UNCHANGED <<phase, active, acceptor, threads, turn, held, stop, quit>>
  BY <1>1, <1>2 DEF RunComplete
<1>4. "Complete" \in ConnOps \ {"Remove", "Destroy"}
  BY DEF ConnOps, Requests
<1>5. /\ c \in Conns /\ l \notin Dead /\ Sound(s, Gone, Dead) /\ s.conn = Now.conn
      /\ Pending(Now, "Complete", l, c) /\ Stand(Now, c)
  BY <1>1, <1>3, <1>4, Popping
<1>6. l = s.conn[c].loop /\ (IsUp(s.conn[c]) \/ IsDown(s.conn[c]))
  BY <1>5 DEF Stand
<1>7. Sound(t, Gone, Dead) /\ Moves(s, t, l, {})
  BY <1>2, <1>5, <1>6, TellSound
<1>. QED BY <1>1, <1>3, <1>7, FunctorMoves

LEMMA InformStep ==
  ASSUME IInv, NEW l \in Loops, RunInform(l)
  PROVE  IInv' /\ HandlerStep(l) /\ Spares
<1>1. PICK s, c : s = Popped(l) /\ c = First(l)
  OBVIOUS
<1>2. PICK t : t = InformInLoop(s, l, c)
  OBVIOUS
<1>3. /\ Calls(l, "Inform") /\ Become(t, {})
      /\ UNCHANGED <<phase, active, acceptor, threads, turn, held, stop, quit>>
  BY <1>1, <1>2 DEF RunInform
<1>4. "Inform" \in ConnOps \ {"Remove", "Destroy"}
  BY DEF ConnOps
<1>5. /\ c \in Conns /\ l \notin Dead /\ Sound(s, Gone, Dead) /\ s.conn = Now.conn
      /\ Pending(Now, "Inform", l, c) /\ Stand(Now, c) /\ Typed(s)
  BY <1>1, <1>3, <1>4, Popping
<1>6. l = s.conn[c].loop /\ IsAccepted(s.conn[c])
  BY <1>5 DEF Stand
<1>7. /\ Stand(s, c) /\ Kept(s, c, Gone) /\ \A d \in Conns \ {c} : Good(s, d, Gone, Dead)
  BY <1>5 DEF Sound, Good
<1>8. \A k \in Loops : ~Pending(s, "Inform", k, c)
  <2>1. Takes(Now, s, l, Functor("Inform", c))
    BY <1>1, <1>3, <1>4, Invoking DEF Invoked
  <2>2. ~Pending(s, "Inform", l, c)
    BY <1>5, <2>1 DEF Stand, Takes, Pending
  <2>. QED BY <1>6, <1>7, <2>2 DEF Stand
<1>9. Sound(t, Gone, Dead) /\ Moves(s, t, l, {})
  BY <1>2, <1>5, <1>6, <1>7, <1>8, InformSound
<1>. QED BY <1>1, <1>3, <1>9, FunctorMoves

(* The functor that makes the server forget one finds it closed. *)
LEMMA RemoveStep ==
  ASSUME IInv, RunRemove
  PROVE  IInv' /\ HandlerStep(Base) /\ Spares
<1>1. PICK s, c : s = Popped(Base) /\ c = First(Base)
  OBVIOUS
<1>2. PICK t, u : t = HandleConnectionClosed(s, Base, c) /\ u = {x \in {"server"} : Gone}
  OBVIOUS
<1>3. /\ Calls(Base, "Remove") /\ Become(t, u)
      /\ UNCHANGED <<phase, active, acceptor, threads, turn, held, stop, quit>>
  BY <1>1, <1>2 DEF RunRemove, Gone
<1>4. Base \in Loops /\ "Remove" \in ConnOps
  BY DEF Loops, ConnOps
<1>5. Runs(Base, "busy") /\ Invoked(Base, "Remove", c)
  BY <1>1, <1>3, <1>4, Invoking
<1>6. Sound(Now, Gone, Dead) /\ c \in Conns /\ Takes(Now, s, Base, Functor("Remove", c))
  BY <1>1, <1>4, <1>5, Running DEF Invoked
<1>7. /\ Sound(t, Gone, Dead) /\ Moves(s, t, Base, {Now.conn[c].loop})
      /\ IsDown(Now.conn[c])
  BY <1>2, <1>6, RemoveSound
<1>8. t.conn[c].downs > t.conn[c].destroyed
  <2>1. t.conn = s.conn
    BY <1>2, <1>6 DEF HandleConnectionClosed, QueueInLoop, Takes, Typed
  <2>. QED BY <1>6, <1>7, <2>1 DEF IsDown, Takes
<1>9. \A k \in Dead \cap {Now.conn[c].loop} : conn[c].loop = k
  BY DEF Now
<1>10. "server" \in u => Gone
  BY <1>2
<1>. QED BY <1>1, <1>2, <1>3, <1>4, <1>6, <1>7, <1>8, <1>9, <1>10, FunctorMoves

(* The functor that destroys a connection takes one that was forgotten. *)
LEMMA DestroyStep ==
  ASSUME IInv, NEW l \in Loops, RunDestroy(l)
  PROVE  /\ IInv' /\ HandlerStep(l)
         /\ \E c \in Conns : /\ Stage(Now, c) = "forgotten" /\ Stage(Now', c) = "destroyed"
                             /\ \A d \in Conns \ {c} : Stage(Now', d) = Stage(Now, d)
<1>1. PICK s, c : s = Popped(l) /\ c = First(l)
  OBVIOUS
<1>2. PICK t : t = ConnectionDestroyed(s, c)
  OBVIOUS
<1>3. /\ Calls(l, "Destroy") /\ Become(t, {})
      /\ UNCHANGED <<phase, active, acceptor, threads, turn, held, stop, quit>>
  BY <1>1, <1>2 DEF RunDestroy
<1>4. "Destroy" \in ConnOps
  BY DEF ConnOps
<1>5. /\ Runs(l, "busy") /\ active[l] = {} /\ Invoked(l, "Destroy", c) /\ Leaves(s, l)
      /\ s.calls = calls /\ \A d : Stage(s, d) = Stage(Now, d)
  BY <1>1, <1>3, <1>4, Invoking
<1>6. /\ ub = {} /\ l \in Loops \ Dead /\ Sound(Now, Gone, Dead) /\ Now.calls[l] = <<>>
      /\ phase[l] = "busy" /\ c \in Conns /\ Takes(Now, s, l, Functor("Destroy", c))
  BY <1>1, <1>5, Running DEF Invoked
<1>7. /\ Sound(t, Gone, Dead) /\ OnlyMoves(s, t) /\ Now.conn[c].loop = l
      /\ t.connections = s.connections /\ t.queue = s.queue /\ t.calls = s.calls
      /\ \A d \in Conns \ {c} : Stage(t, d) = Stage(s, d)
      /\ Stage(s, c) = "forgotten" /\ Stage(t, c) = "destroyed"
  BY <1>2, <1>6, DestroySound
<1>8. StepOf(l)
  BY <1>3, <1>6, HandlerIs, QuietActive
<1>9. Drift(Now, t, l)
  <2>1. Typed(s) /\ Now.queue = queue /\ Now.conn = conn /\ Now.connections = connections
    BY <1>5 DEF Leaves, Now
  <2>2. QueueDrift(Now.queue, t.queue)
    <3>1. Grows(s.queue, s.queue) /\ s.queue \in [Loops -> Seq(Functors)]
      BY <2>1, GrowsItself DEF Typed
    <3>. QED BY <1>5, <1>7, <2>1, <3>1 DEF Leaves
  <2>3. OnlyMoves(Now, t)
    BY <1>5, <1>7, <2>1 DEF OnlyMoves, Leaves
  <2>. QED BY <1>5, <1>7, <2>1, <2>2, <2>3 DEF Drift
<1>10. CallsOf(l, t)
  BY <1>5, <1>7 DEF CallsOf, IInv, Control, StopInv
<1>11. Foreseen(t, {})
  <2>1. \A k \in Dead : t.queue[k] = <<>>
    BY <1>5, <1>6, <1>7 DEF Leaves, IInv, Control, LoopInv, Dead
  <2>. QED BY <1>5, <1>7, <2>1 DEF Foreseen
<1>12. IInv' /\ HandlerStep(l) /\ Now' = t
  BY <1>3, <1>7, <1>8, <1>9, <1>10, <1>11, HandlerData
<1>13. /\ Stage(Now, c) = "forgotten" /\ Stage(Now', c) = "destroyed"
       /\ \A d \in Conns \ {c} : Stage(Now', d) = Stage(Now, d)
  BY <1>5, <1>7, <1>12
<1>. QED BY <1>6, <1>12, <1>13

(* The functors of Start and Stop. *)
LEMMA InvokingServer ==
  ASSUME IInv, NEW op \in {"Listen", "StopAll"}, Calls(Base, op), NEW t, t = Popped(Base)
  PROVE  /\ Runs(Base, "busy") /\ active[Base] = {} /\ queue[Base] # <<>> /\ Base \in Loops \ Dead
         /\ Takes(Now, t, Base, Functor(op, Acceptor))
         /\ Head(queue[Base]) = Functor(op, Acceptor)
         /\ Leaves(t, Base) /\ Sound(t, Gone, Dead) /\ t.calls = calls
         /\ QueueDrift(queue, t.queue) /\ OnlyMoves(Now, t)
         /\ \A d : Stage(t, d) = Stage(Now, d)
<1>0. Base \in Loops
  BY DEF Loops
<1>1. /\ Runs(Base, "busy") /\ active[Base] = {} /\ queue[Base] # <<>> /\ Head(queue[Base]).op = op
      /\ Takes(Now, t, Base, Head(queue[Base])) /\ Leaves(t, Base) /\ t.calls = calls
      /\ \A d : Stage(t, d) = Stage(Now, d)
  BY <1>0, Invoking
<1>2. Head(queue[Base]) = Functor(op, Acceptor)
  BY <1>1 DEF Takes, Functors, Functor, ConnOps, Requests
<1>3. Sound(Now, Gone, Dead) /\ Base \in Loops \ Dead
  BY <1>0, <1>1, Running
<1>4. Sound(t, Gone, Dead)
  <2>1. \A c \in Conns : Functor(op, Acceptor) \notin {Functor("Remove", c), Functor("Destroy", c)}
    BY DEF Functor
  <2>. QED BY <1>0, <1>1, <1>2, <1>3, <2>1, TakeSound
<1>5. QueueDrift(queue, t.queue)
  <2>1. Typed(t)
    BY <1>4 DEF Sound
  <2>2. Grows(t.queue, t.queue) /\ t.queue \in [Loops -> Seq(Functors)]
    BY <2>1, GrowsItself DEF Typed
  <2>. QED BY <1>1, <2>2 DEF Leaves
<1>6. OnlyMoves(Now, t)
  BY <1>1 DEF OnlyMoves, Leaves, Now
<1>. QED BY <1>1, <1>2, <1>3, <1>4, <1>5, <1>6

LEMMA ListenStep ==
  ASSUME IInv, RunListen
  PROVE  IInv' /\ HandlerStep(Base) /\ Spares
<1>1. PICK t, u : t = Popped(Base) /\ u = {x \in {"acceptor"} : acceptor = "reset"}
  OBVIOUS
<1>2. /\ Calls(Base, "Listen") /\ UNCHANGED <<phase, active, threads, turn, held, stop, quit>>
      /\ Become(t, u) /\ acceptor' = IF acceptor = "reset" THEN acceptor ELSE "listening"
  BY <1>1 DEF RunListen
<1>3. /\ Runs(Base, "busy") /\ Base \in Loops \ Dead
      /\ Takes(Now, t, Base, ListenFunctor)
      /\ Leaves(t, Base) /\ Sound(t, Gone, Dead) /\ t.calls = calls
      /\ QueueDrift(queue, t.queue) /\ OnlyMoves(Now, t)
      /\ \A d : Stage(t, d) = Stage(Now, d)
  BY <1>1, <1>2, InvokingServer DEF ListenFunctor
<1>4. ub = {}
  BY <1>3, Running
<1>5. StepOf(Base)
  <2>1. acceptor' = acceptor \/ (acceptor # "reset" /\ acceptor' = "listening")
    BY <1>2
  <2>. QED BY <1>2, <1>3, <1>4, <2>1, StopStays, QuietActive DEF StepOf
<1>6. Drift(Now, t, Base)
  BY <1>3 DEF Drift, Now
<1>7. CallsOf(Base, t)
  BY <1>3 DEF CallsOf, IInv, Control, StopInv
<1>8. acceptor = "reset" => stop.by = "base"
  <2>. SUFFICES ASSUME acceptor = "reset" PROVE stop.by = "base"
    OBVIOUS
  <2>1. stop.at \notin {"no", "queued"} /\ stop.by \in {"outside", "base"}
    BY DEF IInv, Control, AcceptorInv, StopInv, ControlTypes, Stops
  <2>2. PICK j \in 1 .. Len(queue[Base]) : queue[Base][j] = ListenFunctor
    BY <1>3 DEF Takes, In, Now
  <2>. QED BY <2>1, <2>2 DEF IInv, Control, ListenInv
<1>9. Foreseen(t, u)
  <2>1. \A k \in Dead : t.queue[k] = <<>>
    BY <1>3, <1>4 DEF Leaves, IInv, Control, LoopInv, Dead
  <2>2. u \in SUBSET {"iterator", "acceptor", "server"} /\ "iterator" \notin u /\ "server" \notin u
    BY <1>1
  <2>. QED BY <1>1, <1>3, <1>8, <2>1, <2>2 DEF Foreseen
<1>10. IInv' /\ HandlerStep(Base) /\ Now' = t
  BY <1>2, <1>3, <1>5, <1>6, <1>7, <1>9, HandlerData
<1>. QED BY <1>3, <1>10 DEF Spares

-----------------------------------------------------------------------------
(* The other steps of a loop change its phase and what it fetched. *)
LEMMA PhaseStep ==
  ASSUME IInv, NEW l \in Loops, ub = {}, phase[l] \notin {"off", "dead"}, calls[l] = <<>>,
         l = Base => stop.at # "closing",
         NEW p \in {"select", "busy", "off"}, p = "off" => l # Base,
         phase' = [phase EXCEPT ![l] = p],
         NEW a, a \subseteq Conns \cup {Acceptor}, p # "busy" => a = {},
         active' = [active EXCEPT ![l] = a],
         \A c \in a \cap Conns : conn[c].loop = l /\ Stage(Now, c) \in {"up", "down", "forgotten"},
         Acceptor \in a /\ l = Base => acceptor = "listening",
         UNCHANGED <<conn, connections, queue, calls, acceptor, threads, turn, held, stop, quit, ub>>
  PROVE  IInv' /\ Keeps
<1>0. /\ Base \in Loops
      /\ phase \in [Loops -> {"select", "busy", "off", "dead"}]
      /\ active \in [Loops -> SUBSET (Conns \cup {Acceptor})]
  BY DEF Loops, IInv, Control, ControlTypes
<1>1. Now' = Now /\ Gone' = Gone
  BY DEF Now, Gone
<1>2. /\ Dead' = Dead
      /\ \A k \in Loops : phase'[k] = IF k = l THEN p ELSE phase[k]
      /\ \A k \in Loops : active'[k] = IF k = l THEN a ELSE active[k]
  BY <1>0 DEF Dead
<1>3. DataInv'
  BY <1>1, <1>2 DEF IInv, DataInv
<1>. USE DEF IInv, Control
<1>4. ControlTypes'
  BY <1>0 DEF ControlTypes, Stops
<1>5. LoopInv'
  <2>1. threads = 0 => l = Base
    BY DEF LoopInv
  <2>. QED BY <1>0, <1>2, <2>1 DEF LoopInv
<1>6. ActiveInv'
  BY <1>1, <1>2 DEF ActiveInv
<1>7. PlaceInv' /\ AcceptorInv'
  BY <1>0, <1>1, <1>2 DEF PlaceInv, AcceptorInv
<1>8. StopInv'
  <2>1. \A k \in Loops : phase[k] = "dead" => phase'[k] = "dead"
    BY <1>2
  <2>2. \A i \in 1 .. threads : IoLoops[i] \in Loops
    BY ServerAssumption DEF Loops, ControlTypes, Range
  <2>3. StopAllFunctor' = StopAllFunctor
    BY DEF StopAllFunctor, Functor
  <2>4. \A i \in 1 .. stop.loop - 1 : stop.at = "join" => i \in 1 .. threads
    BY ServerAssumption DEF ControlTypes, StopInv, Stops
  <2>5. stop.at = "closing" => phase'[Base] = "busy"
    BY <1>0, <1>2 DEF StopInv
  <2>. QED BY <1>1, <1>2, <2>1, <2>2, <2>3, <2>4, <2>5 DEF StopInv
<1>9. GoneInv' /\ ListenInv'
  BY <1>1, <1>2 DEF GoneInv, ListenInv, ListenFunctor, StopAllFunctor, Functor
<1>10. UndefinedOnlyInStop'
  BY DEF UndefinedOnlyInStop
<1>11. Keeps
  BY <1>1 DEF Keeps
<1>. QED BY <1>3, <1>4, <1>5, <1>6, <1>7, <1>8, <1>9, <1>10, <1>11

LEMMA SelectStep ==
  ASSUME IInv, NEW l \in Loops, Select(l) PROVE IInv' /\ Keeps
<1>1. PICK ready \in SUBSET Watched(l) : active' = [active EXCEPT ![l] = ready]
  BY DEF Select
<1>2. \A c \in ready \cap Conns : conn[c].loop = l /\ Stage(Now, c) \in {"up", "down", "forgotten"}
  <2>. SUFFICES ASSUME NEW c \in ready \cap Conns
                PROVE  conn[c].loop = l /\ Stage(Now, c) = "up"
    OBVIOUS
  <2>1. conn[c].loop = l /\ conn[c].channel = "kAdded" /\ Stand(Now, c)
    BY ServerAssumption DEF Watched, IInv, DataInv, Sound, Good
  <2>. QED BY <2>1, StageIs DEF Stand, Now, IsNew, IsAccepted, IsDown, IsDestroyed
<1>3. Acceptor \in ready /\ l = Base => acceptor = "listening"
  BY ServerAssumption DEF Watched
<1>4. ready \subseteq Conns \cup {Acceptor}
  BY DEF Watched
<1>5. /\ phase' = [phase EXCEPT ![l] = "busy"]
      /\ UNCHANGED <<conn, connections, queue, calls, acceptor, threads, turn, held, stop, quit, ub>>
  BY DEF Select
<1>6. ub = {} /\ phase[l] = "select" /\ calls[l] = <<>> /\ (l = Base => stop.at # "closing")
  BY Running DEF Select
<1>. QED BY <1>1, <1>2, <1>3, <1>4, <1>5, <1>6, PhaseStep

LEMMA QuietStep ==
  ASSUME IInv, NEW l \in Loops, FunctorsDone(l)
  PROVE  IInv' /\ Keeps
<1>1. /\ Runs(l, "busy") /\ active[l] = {}
      /\ UNCHANGED <<conn, connections, queue, calls, active, acceptor, threads, turn, held, stop, quit, ub>>
  BY DEF FunctorsDone, InvokeRunInLoopFuncs
<1>2. ub = {} /\ phase[l] = "busy" /\ calls[l] = <<>> /\ (l = Base => stop.at # "closing")
  BY <1>1, Running
<1>3. active' = [active EXCEPT ![l] = {}]
  BY <1>1 DEF IInv, Control, ControlTypes
<1>4. PICK p \in {"select", "off"} : phase' = [phase EXCEPT ![l] = p] /\ (p = "off" => l \in quit)
  BY DEF FunctorsDone
<1>5. Base \notin quit
  BY ServerAssumption DEF IInv, Control, ControlTypes
<1>. QED BY <1>1, <1>2, <1>3, <1>4, <1>5, PhaseStep

-----------------------------------------------------------------------------
(* The application's calls. *)
LEMMA Queued ==
  ASSUME Typed(Now), NEW l \in Loops, NEW f \in Functors, UNCHANGED <<conn, connections, calls>>,
         queue' = [queue EXCEPT ![l] = Append(@, f)]
  PROVE  Now' = QueueInLoop(Now, l, f)
<1>1. PICK t : t = QueueInLoop(Now, l, f)
  OBVIOUS
<1>2. Pushed(Now, t, l, f)
  BY <1>1, Push
<1>3. /\ Typed(t) /\ t.conn = conn /\ t.connections = connections /\ t.calls = calls
      /\ \A k \in Loops \ {l} : t.queue[k] = queue[k]
      /\ t.queue[l] = Append(queue[l], f)
  BY <1>2 DEF Pushed, Now
<1>4. queue \in [Loops -> Seq(Functors)] /\ t.queue \in [Loops -> Seq(Functors)]
  BY <1>3 DEF Typed, Now
<1>5. t.queue = queue'
  BY <1>3, <1>4
<1>. QED BY <1>1, <1>3, <1>5 DEF Typed, Now

LEMMA CallStep ==
  ASSUME IInv, NEW c \in Conns, AppCalls(c)
  PROVE  IInv' /\ HandlerStep(Base) /\ Spares
<1>0. Base \in Loops /\ Base \in Loops \ Dead
  BY DEF Loops, IInv, Control, LoopInv, Dead
<1>01. PICK k : k = conn[c].loop
  OBVIOUS
<1>1. PICK op \in {"ForceClose", "Shutdown", "Send"} :
        k = conn[c].loop /\ queue' = [queue EXCEPT ![k] = Append(@, Functor(op, c))]
  BY <1>01 DEF AppCalls
<1>2. /\ ub = {} /\ stop.at = "no" /\ Dead = {} /\ conn[c].accepted /\ Sound(Now, Gone, Dead) /\ Typed(Now)
      /\ UNCHANGED <<conn, connections, calls, phase, active, acceptor, threads, turn, held, stop, quit, ub>>
      /\ Now.conn = conn /\ Now.calls = calls
  BY DEF AppCalls, IInv, Control, PlaceInv, StopInv, DataInv, Sound, Now
<1>3. PICK t : t = QueueInLoop(Now, k, Functor(op, c))
  OBVIOUS
<1>4. Now' = t
  <2>1. k \in Loops /\ Functor(op, c) \in Functors
    BY <1>1, <1>2, FunctorIs DEF Typed, Records, ConnOps, Requests
  <2>. QED BY <1>1, <1>2, <1>3, <2>1, Queued
<1>5. Sound(t, Gone, Dead) /\ Moves(Now, t, Base, {k})
  BY <1>1, <1>2, <1>3, RequestSound DEF Requests
<1>6. Become(t, {})
  BY <1>2, <1>4 DEF Become, Dead, Now
<1>7. StepOf(Base)
  BY <1>0, <1>2, HandlerIs, QuietActive
<1>8. Leaves(Now, Base) /\ t.calls = calls
  BY <1>2, <1>4, LeavesNow DEF Now
<1>. QED BY <1>2, <1>5, <1>6, <1>7, <1>8, HandlerMoves

LEMMA HeldStep ==
  ASSUME IInv, ub = {}, held' \in SUBSET Conns, \A c \in held' : conn[c].accepted,
         UNCHANGED <<conn, connections, queue, calls, phase, active, acceptor, threads, turn, stop, quit, ub>>
  PROVE  IInv' /\ Keeps
<1>2. Now' = Now /\ Gone' = Gone /\ Dead' = Dead
  BY DEF Now, Gone, Dead
<1>3. DataInv' /\ Keeps
  BY <1>2 DEF IInv, DataInv, Keeps
<1>. USE DEF IInv, Control
<1>4. ControlTypes' /\ LoopInv'
  BY <1>2 DEF ControlTypes, LoopInv, Stops
<1>5. ActiveInv' /\ PlaceInv' /\ AcceptorInv'
  BY <1>2 DEF ActiveInv, PlaceInv, AcceptorInv
<1>6. StopInv' /\ GoneInv' /\ ListenInv'
  BY <1>2 DEF StopInv, GoneInv, ListenInv, ListenFunctor, StopAllFunctor, Functor
<1>7. UndefinedOnlyInStop'
  BY DEF UndefinedOnlyInStop
<1>. QED BY <1>3, <1>4, <1>5, <1>6, <1>7

LEMMA DropStep ==
  ASSUME IInv, NEW c \in Conns, AppDrops(c)
  PROVE  IInv' /\ Keeps
<1>1. /\ ub = {} /\ held' = held \ {c}
      /\ UNCHANGED <<conn, connections, queue, calls, phase, active, acceptor, threads, turn, stop, quit, ub>>
  BY DEF AppDrops
<1>2. held' \in SUBSET Conns /\ \A d \in held' : conn[d].accepted
  BY <1>1 DEF IInv, Control, ControlTypes, PlaceInv
<1>. QED BY <1>1, <1>2, HeldStep

LEMMA KeepStep ==
  ASSUME IInv, NEW l \in Loops, AppKeeps(l)
  PROVE  IInv' /\ Keeps
<1>1. /\ AppRuns(l) /\ held' = held \cup {Called(l)}
      /\ UNCHANGED <<conn, connections, queue, calls, phase, active, acceptor, threads, turn, stop, quit, ub>>
  BY DEF AppKeeps
<1>2. ub = {} /\ Called(l) \in Conns /\ conn[Called(l)].accepted
  BY <1>1, AppCalled
<1>3. held' \in SUBSET Conns /\ \A d \in held' : conn[d].accepted
  BY <1>1, <1>2 DEF IInv, Control, ControlTypes, PlaceInv
<1>. QED BY <1>1, <1>2, <1>3, HeldStep

LEMMA GroupStep ==
  ASSUME IInv, NEW num \in Nums, SetEventLoopGroupNum(num)
  PROVE  IInv' /\ Keeps
<1>. DEFINE group == Range(SubSeq(IoLoops, 1, num))
<1>0. num \in Nat /\ num >= 1 /\ group \subseteq Range(IoLoops) /\ Base \in Loops
  <2>1. num \in 1 .. Len(IoLoops)
    BY ServerAssumption
  <2>2. \A i \in 1 .. num : SubSeq(IoLoops, 1, num)[i] = IoLoops[i] /\ i \in DOMAIN IoLoops
    BY <2>1, ServerAssumption
  <2>3. DOMAIN SubSeq(IoLoops, 1, num) = 1 .. num
    BY <2>1, ServerAssumption
  <2>. QED BY <2>1, <2>2, <2>3 DEF Range, Loops
<1>1. /\ ub = {} /\ threads = 0 /\ acceptor = "idle" /\ stop.at = "no" /\ threads' = num
      /\ phase' = [l \in Loops |-> IF l \in group THEN "select" ELSE phase[l]]
      /\ UNCHANGED <<conn, connections, queue, calls, active, acceptor, turn, held, stop, quit, ub>>
  BY DEF SetEventLoopGroupNum
<1>. HIDE DEF group
<1>2. Now' = Now /\ Gone' = Gone
  BY <1>1 DEF Now, Gone
<1>. USE DEF IInv, Control
<1>3. Dead = {} /\ Dead' = {} /\ Base \notin group
  BY <1>0, <1>1, ServerAssumption DEF StopInv, Dead
<1>4. DataInv' /\ Keeps
  BY <1>2, <1>3 DEF DataInv, Keeps
<1>5. ControlTypes'
  BY <1>0, <1>1 DEF ControlTypes, StopInv, Stops
<1>6. LoopInv'
  <2>1. \A l \in group : active[l] = {} /\ calls[l] = <<>>
    BY <1>0, <1>1, ServerAssumption DEF LoopInv, Loops
  <2>2. \A l \in Loops : phase'[l] # "busy" => active'[l] = {} /\ calls'[l] = <<>>
    BY <1>1, <2>1 DEF LoopInv
  <2>. QED BY <1>0, <1>1, <1>3, <2>2 DEF LoopInv
<1>7. ActiveInv' /\ AcceptorInv'
  BY <1>1, <1>2 DEF ActiveInv, AcceptorInv
<1>8. PlaceInv'
  <2>1. \A c \in Conns : ~conn[c].accepted
    BY <1>1 DEF PlaceInv
  <2>. QED BY <1>1, <2>1 DEF PlaceInv, ControlTypes, Stops
<1>9. StopInv' /\ GoneInv' /\ ListenInv'
  BY <1>1, <1>2, <1>3 DEF StopInv, GoneInv, Gone, ListenInv, ListenFunctor, StopAllFunctor, Functor
<1>10. UndefinedOnlyInStop'
  BY <1>1 DEF UndefinedOnlyInStop
<1>. QED BY <1>4, <1>5, <1>6, <1>7, <1>8, <1>9, <1>10

(* Start and Stop queue a functor of the server's. *)
LEMMA ServerFunctor ==
  ASSUME IInv, stop.at = "no", UNCHANGED <<conn, connections, calls, phase>>, ~Gone',
         NEW op \in {"Listen", "StopAll"},
         queue' = [queue EXCEPT ![Base] = Append(@, Functor(op, Acceptor))]
  PROVE  /\ DataInv' /\ Keeps /\ Dead' = {} /\ Dead = {} /\ queue[Base] \in Seq(Functors)
         /\ Len(queue'[Base]) = Len(queue[Base]) + 1 /\ Len(queue[Base]) \in Nat
         /\ \A i \in 1 .. Len(queue[Base]) : queue'[Base][i] = queue[Base][i]
         /\ queue'[Base][Len(queue[Base]) + 1] = Functor(op, Acceptor)
         /\ \A l \in Loops \ {Base} : queue'[l] = queue[l]
<1>. DEFINE f == Functor(op, Acceptor)
<1>0. Base \in Loops /\ f \in Functors
  BY DEF Loops, Functors, Functor
<1>1. Sound(Now, Gone, Dead) /\ Typed(Now) /\ ~Gone /\ Gone' = Gone /\ Dead' = Dead /\ Dead = {}
  BY DEF IInv, DataInv, Sound, Gone, Dead, Control, StopInv
<1>2. Now' = QueueInLoop(Now, Base, f)
  BY <1>0, <1>1, Queued
<1>3. Pushed(Now, Now', Base, f)
  <2>1. PICK t : t = QueueInLoop(Now, Base, f)
    OBVIOUS
  <2>2. Pushed(Now, t, Base, f)
    BY <1>0, <1>1, <2>1, Push
  <2>. QED BY <1>2, <2>1, <2>2
<1>4. \A c \in Conns : \A o : Functor(o, c) # f
  BY ServerAssumption DEF Functor
<1>. HIDE DEF f
<1>5. /\ Typed(Now') /\ conn' = conn /\ connections' = connections /\ calls' = calls
      /\ \A k \in Loops \ {Base} : queue'[k] = queue[k]
      /\ queue'[Base] = Append(queue[Base], f)
  BY <1>3 DEF Pushed, Now
<1>6. \A c \in Conns : Good(Now', c, Gone, Dead)
  <2>. SUFFICES ASSUME NEW c \in Conns PROVE Good(Now', c, Gone, Dead)
    OBVIOUS
  <2>1. Good(Now, c, Gone, Dead) /\ Now.conn[c].loop \in Loops
    BY <1>1 DEF Sound, Typed, Records
  <2>2. \A o : Functor(o, c) # f
    BY <1>4
  <2>3. Same(Now, Now', c)
    BY <1>3, <2>2 DEF Pushed, Same, Pending, Within
  <2>. QED BY <2>1, <2>3, SameGood
<1>7. DataInv' /\ Keeps
  BY <1>1, <1>5, <1>6 DEF DataInv, Sound, Keeps, Stage, Now
<1>8. queue[Base] \in Seq(Functors)
  BY <1>0, <1>1 DEF Typed, Now
<1>9. /\ Len(queue'[Base]) = Len(queue[Base]) + 1 /\ Len(queue[Base]) \in Nat
      /\ \A i \in 1 .. Len(queue[Base]) : queue'[Base][i] = queue[Base][i]
      /\ queue'[Base][Len(queue[Base]) + 1] = f
  BY <1>0, <1>5, <1>8, AppendProperties, LenProperties
<1>. QED BY <1>1, <1>5, <1>7, <1>8, <1>9 DEF f

LEMMA StartStep ==
  ASSUME IInv, Start
  PROVE  IInv' /\ Keeps
<1>0. Base \in Loops
  BY DEF Loops
<1>1. /\ ub = {} /\ acceptor = "idle" /\ stop.at = "no"
      /\ UNCHANGED <<conn, connections, calls, phase, active, threads, turn, held, stop, quit, ub>>
      /\ acceptor' \in {"idle", "listening"}
  BY DEF Start
<1>2. /\ ~Gone /\ ~Gone' /\ Dead = {} /\ Dead' = {} /\ stop.by = "nobody" /\ stop.todo = {}
  BY <1>1 DEF Gone, Dead, IInv, Control, StopInv
<1>3. /\ DataInv' /\ Keeps
      /\ \A l \in Loops : In(StopAllFunctor, queue'[l]) => In(StopAllFunctor, queue[l])
      /\ Once(StopAllFunctor, queue'[Base])
  <2>1. CASE UNCHANGED queue
    <3>1. Now' = Now /\ Gone' = Gone
      BY <1>1, <2>1 DEF Now, Gone
    <3>. QED BY <1>2, <2>1, <3>1 DEF IInv, DataInv, Keeps, Control, StopInv
  <2>2. CASE queue' = [queue EXCEPT ![Base] = Append(@, ListenFunctor)]
    <3>1. /\ DataInv' /\ Keeps /\ queue[Base] \in Seq(Functors)
          /\ Len(queue'[Base]) = Len(queue[Base]) + 1 /\ Len(queue[Base]) \in Nat
          /\ \A i \in 1 .. Len(queue[Base]) : queue'[Base][i] = queue[Base][i]
          /\ queue'[Base][Len(queue[Base]) + 1] = ListenFunctor
          /\ \A l \in Loops \ {Base} : queue'[l] = queue[l]
      BY <1>1, <1>2, <2>2, ServerFunctor DEF ListenFunctor
    <3>2. StopAllFunctor # ListenFunctor
      BY DEF StopAllFunctor, ListenFunctor, Functor
    <3>3. \A i \in 1 .. Len(queue'[Base]) : queue'[Base][i] = StopAllFunctor =>
            i \in 1 .. Len(queue[Base]) /\ queue[Base][i] = StopAllFunctor
      BY <3>1, <3>2
    <3>4. Once(StopAllFunctor, queue[Base])
      BY DEF IInv, Control, StopInv
    <3>5. In(StopAllFunctor, queue'[Base]) => In(StopAllFunctor, queue[Base])
      BY <3>3 DEF In
    <3>6. Once(StopAllFunctor, queue'[Base])
      BY <3>3, <3>4 DEF Once
    <3>. QED BY <3>1, <3>5, <3>6
  <2>. QED BY <2>1, <2>2 DEF Start, ListenFunctor
<1>. USE DEF IInv, Control
<1>4. \A c \in Conns : Stage(Now', c) = Stage(Now, c)
  BY <1>3 DEF Keeps
<1>5. ControlTypes'
  BY <1>1 DEF ControlTypes, Stops
<1>6. LoopInv' /\ ActiveInv' /\ PlaceInv'
  BY <1>1, <1>2, <1>4 DEF LoopInv, ActiveInv, PlaceInv
<1>7. AcceptorInv'
  BY <1>0, <1>1 DEF AcceptorInv
<1>8. StopInv'
  <2>1. StopAllFunctor' = StopAllFunctor
    BY DEF StopAllFunctor, Functor
  <2>. QED BY <1>1, <1>2, <1>3, <2>1 DEF StopInv
<1>9. GoneInv' /\ ListenInv' /\ UndefinedOnlyInStop'
  BY <1>1, <1>2 DEF GoneInv, ListenInv, UndefinedOnlyInStop
<1>. QED BY <1>3, <1>5, <1>6, <1>7, <1>8, <1>9

LEMMA StopOutsideStep ==
  ASSUME IInv, StopOutside
  PROVE  IInv' /\ Keeps
<1>0. Base \in Loops
  BY DEF Loops
<1>1. /\ ub = {} /\ stop.at = "no"
      /\ stop' = [by |-> "outside", at |-> "queued", todo |-> {}, loop |-> 1, depth |-> 0]
      /\ queue' = [queue EXCEPT ![Base] = Append(@, StopAllFunctor)]
      /\ UNCHANGED <<conn, connections, calls, phase, active, acceptor, threads, turn, held, quit, ub>>
  BY DEF StopOutside, StopAllFunctor
<1>2. /\ ~Gone /\ ~Gone'
  BY <1>1 DEF Gone
<1>3. /\ DataInv' /\ Keeps /\ Dead' = {} /\ queue[Base] \in Seq(Functors)
      /\ Len(queue'[Base]) = Len(queue[Base]) + 1 /\ Len(queue[Base]) \in Nat
      /\ \A i \in 1 .. Len(queue[Base]) : queue'[Base][i] = queue[Base][i]
      /\ queue'[Base][Len(queue[Base]) + 1] = StopAllFunctor
      /\ \A l \in Loops \ {Base} : queue'[l] = queue[l]
  BY <1>1, <1>2, ServerFunctor DEF StopAllFunctor
<1>. USE DEF IInv, Control
<1>4. \A c \in Conns : Stage(Now', c) = Stage(Now, c)
  BY <1>3 DEF Keeps
<1>5. ControlTypes'
  <2>1. stop' \in Stops'
    BY <1>1, ServerAssumption DEF ControlTypes, Stops
  <2>. QED BY <1>1, <2>1 DEF ControlTypes
<1>6. LoopInv' /\ ActiveInv' /\ PlaceInv'
  BY <1>1, <1>3, <1>4 DEF LoopInv, ActiveInv, PlaceInv
<1>7. AcceptorInv'
  BY <1>0, <1>1 DEF AcceptorInv
<1>8. \A l \in Loops : ~In(StopAllFunctor, queue[l])
  BY <1>1 DEF StopInv
<1>9. StopInv'
  <2>1. StopAllFunctor' = StopAllFunctor
    BY DEF StopAllFunctor, Functor
  <2>2. \A i \in 1 .. Len(queue'[Base]) : queue'[Base][i] = StopAllFunctor => i = Len(queue[Base]) + 1
    BY <1>0, <1>3, <1>8 DEF In
  <2>3. Once(StopAllFunctor, queue'[Base])
    BY <2>2 DEF Once
  <2>. QED BY <1>1, <1>3, <1>8, <2>1, <2>3 DEF StopInv
<1>10. GoneInv' /\ UndefinedOnlyInStop'
  BY <1>1, <1>2 DEF GoneInv, UndefinedOnlyInStop
<1>11. ListenInv'
  <2>. SUFFICES ASSUME NEW j \in 1 .. Len(queue'[Base]), queue'[Base][j] = ListenFunctor
                PROVE  \E i \in j + 1 .. Len(queue'[Base]) : queue'[Base][i] = StopAllFunctor
    BY <1>1 DEF ListenInv, ListenFunctor, StopAllFunctor, Functor
  <2>1. j # Len(queue[Base]) + 1
    BY <1>3 DEF ListenFunctor, StopAllFunctor, Functor
  <2>2. Len(queue[Base]) + 1 \in j + 1 .. Len(queue'[Base])
    BY <1>3, <2>1
  <2>. QED BY <1>3, <2>2
<1>. QED BY <1>3, <1>5, <1>6, <1>7, <1>9, <1>10, <1>11

(* Stop begins to close the connections: what is up is in connections_. *)
LEMMA CloseAllControl ==
  ASSUME IInv, NEW by \in {"outside", "base"}, CloseAll(by), Dead = {}, ~Gone, ub = {},
         UNCHANGED <<phase, calls, active, threads, turn, held, quit>>, Sound(Now', Gone, Dead),
         conn' = conn, connections' = connections, phase[Base] = "busy",
         ub' \in SUBSET {"acceptor"}, ub' # {} => by = "base", Acceptor \in active[Base] => ub' # {},
         by = "outside" => calls[Base] = <<>>,
         \A l \in Loops : ~In(StopAllFunctor, queue'[l]),
         by = "outside" => ~In(ListenFunctor, queue'[Base])
  PROVE  IInv' /\ Keeps
<1>0. Base \in Loops /\ Now.conn = conn /\ Now.connections = connections
  BY DEF Loops, Now
<1>1. /\ acceptor' = "reset"
      /\ stop' = [by |-> by, at |-> "closing", todo |-> connections, loop |-> 1,
                  depth |-> Len(calls[Base])]
  BY DEF CloseAll
<1>2. Dead' = {} /\ ~Gone' /\ Keeps
  BY <1>1 DEF Dead, Gone, Keeps, Stage, Now
<1>3. DataInv' /\ DataInv /\ connections \subseteq Conns
  <2>1. Gone' = Gone /\ Dead' = Dead
    BY <1>2 DEF Keeps
  <2>2. connections \subseteq Conns
    BY DEF IInv, DataInv, Sound, Typed, Now
  <2>. QED BY <2>1, <2>2 DEF DataInv, IInv
<1>4. Len(calls[Base]) \in Nat /\ (by = "outside" => Len(calls[Base]) = 0)
  <2>1. calls[Base] \in Seq(Frames)
    BY <1>0, <1>3 DEF DataInv, Sound, Typed, Now
  <2>. QED BY <2>1, LenProperties, EmptySeq
<1>. USE DEF IInv, Control
<1>5. \A c \in Conns : Stage(Now', c) = Stage(Now, c)
  BY <1>2 DEF Keeps
<1>6. ControlTypes'
  <2>1. stop' \in Stops'
    BY <1>1, <1>3, <1>4, ServerAssumption DEF ControlTypes, Stops
  <2>2. ub' \in SUBSET Harms
    BY DEF Harms
  <2>. QED BY <1>1, <2>1, <2>2 DEF ControlTypes
<1>7. LoopInv' /\ ActiveInv'
  BY <1>2, <1>5 DEF LoopInv, ActiveInv
<1>8. PlaceInv'
  <2>1. \A c \in connections : conn[c].accepted
    <3>. SUFFICES ASSUME NEW c \in connections PROVE conn[c].accepted
      OBVIOUS
    <3>1. Stand(Now, c)
      BY <1>3 DEF DataInv, Sound, Good
    <3>. QED BY <3>1 DEF Stand, Now, IsAccepted, IsUp, IsDown
  <2>. QED BY <1>1, <1>5, <2>1 DEF PlaceInv
<1>9. AcceptorInv'
  BY <1>0, <1>1 DEF AcceptorInv
<1>10. StopInv'
  <2>1. StopAllFunctor' = StopAllFunctor
    BY DEF StopAllFunctor, Functor
  <2>2. Once(StopAllFunctor, queue'[Base])
    BY <1>0 DEF Once, In
  <2>3. ASSUME NEW c \in Conns, Stage(Now, c) = "up" PROVE c \in connections
    <3>1. Good(Now, c, Gone, Dead)
      BY <1>3 DEF DataInv, Sound
    <3>2. IsUp(Now.conn[c])
      BY <2>3, <3>1, StageIs DEF Good
    <3>. QED BY <1>0, <3>1, <3>2 DEF Good, Kept
  <2>4. \A c \in Conns : Stage(Now', c) = "up" /\ conn'[c].loop = Base => c \in stop'.todo
    BY <1>1, <1>5, <2>3
  <2>. QED BY <1>1, <1>2, <1>4, <2>1, <2>2, <2>4 DEF StopInv
<1>11. GoneInv' /\ UndefinedOnlyInStop'
  BY <1>1, <1>2 DEF GoneInv, UndefinedOnlyInStop
<1>12. ListenInv'
  BY <1>1 DEF ListenInv, In, ListenFunctor, StopAllFunctor, Functor
<1>. QED BY <1>2, <1>3, <1>6, <1>7, <1>8, <1>9, <1>10, <1>11, <1>12

LEMMA RunStopAllStep ==
  ASSUME IInv, RunStopAll
  PROVE  IInv' /\ Keeps
<1>0. Base \in Loops
  BY DEF Loops
<1>1. PICK t : t = Popped(Base)
  OBVIOUS
<1>2. /\ Calls(Base, "StopAll") /\ CloseAll("outside") /\ Become(t, {})
      /\ UNCHANGED <<phase, active, threads, turn, held, quit>>
  BY <1>1 DEF RunStopAll
<1>3. /\ Takes(Now, t, Base, StopAllFunctor) /\ Head(queue[Base]) = StopAllFunctor
      /\ Sound(t, Gone, Dead) /\ queue[Base] # <<>> /\ Runs(Base, "busy") /\ active[Base] = {}
  BY <1>1, <1>2, InvokingServer DEF StopAllFunctor
<1>4. ub = {} /\ Typed(Now) /\ phase[Base] = "busy" /\ calls[Base] = <<>>
  BY <1>0, <1>3, Running
<1>5. stop.at = "queued" /\ stop.by = "outside" /\ ~Gone /\ Dead = {} /\ Once(StopAllFunctor, queue[Base])
  <2>1. In(StopAllFunctor, queue[Base])
    BY <1>3 DEF Takes, Now
  <2>. QED BY <1>0, <2>1 DEF IInv, Control, StopInv, Gone
<1>6. Typed(t) /\ Now' = t
  BY <1>2, <1>3, BecomeIs DEF Sound
<1>7. conn' = conn /\ connections' = connections /\ queue' = t.queue /\ calls' = calls
  BY <1>2, <1>3 DEF Become, Takes, Now
<1>8. ub' = {}
  BY <1>2, <1>4, <1>5, <1>7 DEF Become, Dead, Gone
<1>9. \A l \in Loops : ~In(StopAllFunctor, queue'[l])
  <2>1. ~In(StopAllFunctor, queue'[Base])
    BY <1>3, <1>5, <1>7 DEF Takes, Now
  <2>2. \A l \in Loops \ {Base} : ~In(StopAllFunctor, queue'[l])
    BY <1>3, <1>7 DEF Takes, Now, IInv, Control, StopInv
  <2>. QED BY <2>1, <2>2
<1>10. ~In(ListenFunctor, queue'[Base])
  <2>1. queue[Base] \in Seq(Functors) /\ queue'[Base] = Tail(queue[Base])
    BY <1>0, <1>3, <1>4, <1>7 DEF Typed, Takes, Now
  <2>2. /\ Len(Tail(queue[Base])) = Len(queue[Base]) - 1 /\ Len(queue[Base]) \in Nat \ {0}
        /\ \A i \in 1 .. Len(queue[Base]) - 1 : Tail(queue[Base])[i] = queue[Base][i + 1]
        /\ queue[Base][1] = StopAllFunctor
    BY <1>3, <2>1, TailIndex
  <2>. SUFFICES ASSUME NEW i \in 1 .. Len(queue[Base]) - 1, queue[Base][i + 1] = ListenFunctor
                PROVE  FALSE
    BY <2>1, <2>2 DEF In
  <2>3. i + 1 \in 1 .. Len(queue[Base])
    BY <2>2
  <2>4. PICK j \in i + 1 + 1 .. Len(queue[Base]) : queue[Base][j] = StopAllFunctor
    BY <1>5, <2>3 DEF IInv, Control, ListenInv
  <2>5. j \in 1 .. Len(queue[Base]) /\ 1 \in 1 .. Len(queue[Base]) /\ j # 1
    BY <2>2, <2>4
  <2>. QED BY <1>5, <2>2, <2>4, <2>5 DEF Once
<1>11. Sound(Now', Gone, Dead) /\ UNCHANGED <<phase, calls, active, threads, turn, held, quit>>
  BY <1>2, <1>3, <1>6, <1>7
<1>. QED BY <1>2, <1>3, <1>4, <1>5, <1>7, <1>8, <1>9, <1>10, <1>11, CloseAllControl

LEMMA StopInLoopStep ==
  ASSUME IInv, StopInLoop
  PROVE  IInv' /\ Keeps
<1>0. Base \in Loops
  BY DEF Loops
<1>1. PICK u : u = {x \in {"acceptor"} : AcceptorInUse}
  OBVIOUS
<1>2. /\ stop.at = "no" /\ CloseAll("base") /\ Become(Now, u)
      /\ UNCHANGED <<phase, active, threads, turn, held, quit>>
  BY <1>1 DEF StopInLoop
<1>3. ub = {} /\ phase[Base] = "busy"
  <2>1. CASE InvokeRunInLoopFuncs(Base)
    BY <1>0, <2>1, Running DEF InvokeRunInLoopFuncs
  <2>2. CASE AppRuns(Base)
    BY <1>0, <2>2, AppCalled
  <2>. QED BY <2>1, <2>2 DEF StopInLoop
<1>4. ~Gone /\ Dead = {} /\ \A l \in Loops : ~In(StopAllFunctor, queue[l])
  BY <1>2 DEF Gone, IInv, Control, StopInv
<1>5. /\ Sound(Now, Gone, Dead) /\ Now' = Now /\ conn' = conn /\ connections' = connections
      /\ queue' = queue /\ calls' = calls
  BY <1>2 DEF IInv, DataInv, Become, Now
<1>6. ub' = u
  <2>1. stop.at # "gone"
    BY <1>2
  <2>. QED BY <1>2, <1>3, <1>4, <2>1 DEF Become, Dead
<1>7. ub' \in SUBSET {"acceptor"} /\ (Acceptor \in active[Base] => ub' # {})
  BY <1>1, <1>6 DEF AcceptorInUse
<1>8. Sound(Now', Gone, Dead) /\ UNCHANGED <<phase, calls, active, threads, turn, held, quit>>
  BY <1>2, <1>5
<1>. QED BY <1>2, <1>3, <1>4, <1>5, <1>7, <1>8, CloseAllControl

(* A turn of Stop's loop: afterwards the connection is not up on that loop. *)
LEMMA CloseNextStep ==
  ASSUME IInv, NEW c \in Conns, CloseNext(c)
  PROVE  IInv' /\ HandlerStep(Base) /\ Spares
<1>0. Base \in Loops \ Dead /\ Now.conn = conn /\ Now.connections = connections /\ Now.calls = calls
  BY DEF Loops, Now, IInv, Control, LoopInv, Dead
<1>1. PICK t : t = ForceClose(Now, Base, c)
  OBVIOUS
<1>2. /\ ub = {} /\ stop.at = "closing" /\ c \in stop.todo \cap connections
      /\ stop' = [stop EXCEPT !.todo = @ \ {c}] /\ Become(t, {})
      /\ UNCHANGED <<phase, active, acceptor, threads, turn, held, quit>>
  BY <1>1 DEF CloseNext
<1>3. /\ conn[c].accepted /\ Dead = {} /\ ~Gone /\ phase[Base] = "busy" /\ Sound(Now, Gone, Dead)
      /\ stop.depth <= Len(Now.calls[Base])
  BY <1>2 DEF IInv, Control, PlaceInv, StopInv, DataInv, Gone, Now
<1>4. Sound(t, Gone, Dead) /\ Moves(Now, t, Base, {conn[c].loop})
  BY <1>0, <1>1, <1>3, ForceCloseSound
<1>5. Now' = t
  BY <1>2, <1>4, BecomeIs DEF Sound
<1>6. stop'.todo = stop.todo \ {c} /\ stop' = [stop EXCEPT !.todo = stop'.todo]
  BY <1>2 DEF IInv, Control, ControlTypes, Stops
<1>7. conn[c].loop = Base => Stage(Now', c) # "up"
  <2>. SUFFICES ASSUME conn[c].loop = Base, Stage(t, c) = "up" PROVE FALSE
    BY <1>5
  <2>1. IsUp(t.conn[c])
    BY <1>4, StageIs DEF Sound, Good
  <2>2. t = ForceCloseInLoop(Now, Base, c)
    BY <1>0, <1>1 DEF ForceClose
  <2>3. CASE conn[c].state \in {"kConnected", "kDisconnecting"}
    <3>1. t = HandleClose(Now, Base, c)
      BY <1>0, <2>2, <2>3 DEF ForceCloseInLoop
    <3>2. PICK s : s = [Now EXCEPT !.conn[c] = Closed(@)]
      OBVIOUS
    <3>3. t = Calling(s, Base, "down", c)
      BY <3>1, <3>2 DEF HandleClose
    <3>4. s.conn = [conn EXCEPT ![c] = Closed(@)]
      BY <3>2 DEF Now
    <3>5. t.conn = s.conn
      BY <3>2, <3>3 DEF Calling, Now
    <3>6. t.conn[c] = Closed(conn[c])
      BY <1>0, <1>3, <3>4, <3>5 DEF Sound, Typed
    <3>7. Closed(conn[c]).state = "kDisconnected"
      <4>1. conn[c] \in Records
        BY <1>0, <1>3 DEF Sound, Typed
      <4>. QED BY <4>1 DEF Closed, DisableAll, Update, Records
    <3>. QED BY <2>1, <3>6, <3>7 DEF IsUp
  <2>4. CASE conn[c].state \notin {"kConnected", "kDisconnecting"}
    <3>1. t = Now /\ conn[c].state \in States
      BY <1>0, <1>3, <2>2, <2>4 DEF ForceCloseInLoop, Sound, Typed, Records
    <3>. QED BY <1>0, <2>1, <2>4, <3>1 DEF States, IsUp
  <2>. QED BY <2>3, <2>4
<1>8. Turns
  BY <1>2, <1>6, <1>7 DEF Turns
<1>9. StepOf(Base)
  BY <1>0, <1>2, <1>8, QuietActive DEF StepOf
<1>10. Leaves(Now, Base)
  BY LeavesNow
<1>. QED BY <1>0, <1>2, <1>3, <1>4, <1>9, <1>10, HandlerMoves

LEMMA ClosedAllStep ==
  ASSUME IInv, ClosedAll
  PROVE  IInv' /\ Keeps
<1>0. Base \in Loops
  BY DEF Loops
<1>1. /\ ub = {} /\ stop.at = "closing" /\ Stopping /\ stop.todo \cap connections = {}
      /\ stop' = [stop EXCEPT !.at = Joining, !.todo = {}]
      /\ UNCHANGED <<conn, connections, queue, calls, phase, active, acceptor, threads, turn, held, quit, ub>>
  BY DEF ClosedAll
<1>2. /\ stop'.at = (IF threads = 0 THEN "done" ELSE "join") /\ stop'.by = stop.by
      /\ stop'.todo = {} /\ stop'.loop = 1 /\ stop.loop = 1 /\ Dead = {} /\ stop' \in Stops
      /\ stop'.depth = stop.depth
  BY <1>1 DEF Joining, IInv, Control, ControlTypes, StopInv, Stops
<1>3. Now' = Now /\ ~Gone /\ ~Gone' /\ Dead' = Dead
  BY <1>1, <1>2 DEF Now, Gone, Dead
<1>4. DataInv' /\ Keeps
  BY <1>3 DEF IInv, DataInv, Keeps, Gone
<1>. USE DEF IInv, Control
<1>5. ControlTypes' /\ LoopInv' /\ ActiveInv' /\ AcceptorInv'
  BY <1>1, <1>2, <1>3 DEF ControlTypes, LoopInv, ActiveInv, AcceptorInv, Stops
<1>6. PlaceInv'
  BY <1>1, <1>2, <1>3 DEF PlaceInv
<1>7. stop.by = "outside" => \A c \in Conns : ~Told(Now, Base, c)
  <2>. SUFFICES ASSUME stop.by = "outside", NEW c \in Conns PROVE ~Told(Now, Base, c)
    OBVIOUS
  <2>1. Len(calls[Base]) = 0
    BY <1>1 DEF Stopping, StopInv
  <2>. QED BY <2>1 DEF Told, Within, In, Now
<1>8. ASSUME NEW c \in Conns, Stage(Now, c) = "up", conn[c].loop = Base PROVE FALSE
  <2>1. c \in stop.todo
    BY <1>1, <1>8 DEF StopInv
  <2>2. Good(Now, c, Gone, Dead) /\ Now.connections = connections
    BY DEF DataInv, Sound, Now
  <2>3. IsUp(Now.conn[c])
    BY <1>8, <2>2, StageIs DEF Good
  <2>. QED BY <1>1, <1>3, <2>1, <2>2, <2>3 DEF Good, Kept
<1>9. StopInv'
  <2>1. StopAllFunctor' = StopAllFunctor
    BY DEF StopAllFunctor, Functor
  <2>2. threads \in Nat
    BY ServerAssumption DEF ControlTypes
  <2>. QED BY <1>1, <1>2, <1>3, <1>7, <1>8, <2>1, <2>2 DEF StopInv
<1>10. GoneInv' /\ UndefinedOnlyInStop'
  BY <1>1, <1>3 DEF GoneInv, UndefinedOnlyInStop
<1>11. ListenInv'
  BY <1>1, <1>2 DEF ListenInv, ListenFunctor, StopAllFunctor, Functor
<1>. QED BY <1>4, <1>5, <1>6, <1>9, <1>10, <1>11

(* The group's threads are stopped and joined in turn. *)
LEMMA GroupIs ==
  ASSUME IInv, stop.at = "join"
  PROVE  /\ stop.loop \in 1 .. threads /\ threads \in 1 .. Len(IoLoops)
         /\ \A i \in 1 .. threads : Group[i] = IoLoops[i] /\ IoLoops[i] \in Range(IoLoops)
                                    /\ IoLoops[i] \in Loops /\ IoLoops[i] # Base
<1>1. stop.loop \in 1 .. threads /\ threads \in 1 .. Len(IoLoops)
  BY ServerAssumption DEF IInv, Control, ControlTypes, StopInv, Stops
<1>2. \A i \in 1 .. threads : i \in DOMAIN IoLoops /\ Group[i] = IoLoops[i]
  BY <1>1, ServerAssumption DEF Group
<1>. QED BY <1>1, <1>2, ServerAssumption DEF Range, Loops

LEMMA StopLoopStep ==
  ASSUME IInv, StopLoop
  PROVE  IInv' /\ Keeps
<1>1. /\ ub = {} /\ stop.at = "join" /\ quit' = quit \cup {Group[stop.loop]}
      /\ UNCHANGED <<conn, connections, queue, calls, phase, active, acceptor, threads, turn, held, stop, ub>>
  BY DEF StopLoop
<1>2. Now' = Now /\ Gone' = Gone /\ Dead' = Dead
  BY <1>1 DEF Now, Gone, Dead
<1>3. DataInv' /\ Keeps
  BY <1>2 DEF IInv, DataInv, Keeps
<1>. USE DEF IInv, Control
<1>4. ControlTypes'
  <2>1. Group[stop.loop] \in Range(IoLoops)
    BY <1>1, GroupIs
  <2>. QED BY <1>1, <2>1 DEF ControlTypes, Stops
<1>5. LoopInv' /\ ActiveInv' /\ PlaceInv' /\ AcceptorInv'
  BY <1>1, <1>2 DEF LoopInv, ActiveInv, PlaceInv, AcceptorInv
<1>6. StopInv' /\ GoneInv' /\ ListenInv'
  BY <1>1, <1>2 DEF StopInv, GoneInv, ListenInv, ListenFunctor, StopAllFunctor, Functor
<1>7. UndefinedOnlyInStop'
  BY <1>1 DEF UndefinedOnlyInStop
<1>. QED BY <1>3, <1>4, <1>5, <1>6, <1>7

LEMMA JoinLoopStep ==
  ASSUME IInv, JoinLoop
  PROVE  IInv' /\ Keeps
<1>. DEFINE l == Group[stop.loop]
<1>1. /\ ub = {} /\ stop.at = "join" /\ phase[l] = "off"
      /\ phase' = [phase EXCEPT ![l] = "dead"] /\ queue' = [queue EXCEPT ![l] = <<>>]
      /\ stop' = [stop EXCEPT !.loop = @ + 1, !.at = IF stop.loop = threads THEN "done" ELSE @]
      /\ UNCHANGED <<conn, connections, calls, active, acceptor, threads, turn, held, quit, ub>>
  BY DEF JoinLoop
<1>2. /\ stop.loop \in 1 .. threads /\ threads \in 1 .. Len(IoLoops) /\ l = IoLoops[stop.loop]
      /\ \A i \in 1 .. threads : IoLoops[i] \in Loops /\ IoLoops[i] # Base
  BY <1>1, GroupIs
<1>3. l \in Loops /\ l # Base /\ Base \in Loops
  BY <1>2 DEF Loops
<1>. HIDE DEF l
<1>4. /\ stop'.at = (IF stop.loop = threads THEN "done" ELSE "join") /\ stop'.by = stop.by
      /\ stop'.todo = stop.todo /\ stop'.loop = stop.loop + 1
      /\ stop' \in Stops /\ stop'.depth = stop.depth
  <2>1. stop.loop + 1 \in 1 .. threads + 1
    BY <1>2
  <2>. QED BY <1>1, <2>1 DEF IInv, Control, ControlTypes, Stops
<1>5. /\ ~Gone /\ ~Gone'
      /\ \A k \in Loops : phase'[k] = IF k = l THEN "dead" ELSE phase[k]
      /\ Dead' = Dead \cup {l}
  BY <1>1, <1>3, <1>4 DEF Gone, Dead, IInv, Control, ControlTypes, Stops
<1>6. /\ Typed(Now) /\ Sound(Now, Gone, Dead) /\ Now'.conn = Now.conn
      /\ Now'.connections = Now.connections /\ Now'.calls = Now.calls
  BY <1>1 DEF IInv, DataInv, Sound, Now
<1>7. /\ \A k \in Loops : queue'[k] = IF k = l THEN <<>> ELSE queue[k]
      /\ queue' \in [Loops -> Seq(Functors)]
  <2>1. queue \in [Loops -> Seq(Functors)] /\ <<>> \in Seq(Functors)
    BY <1>6, EmptySeq DEF Typed, Now
  <2>. QED BY <1>1, <1>3, <2>1
<1>8. Typed(Now')
  BY <1>1, <1>6, <1>7 DEF Typed, Now
<1>9. (\A e : ~In(e, queue'[l]) /\ Once(e, queue'[l])) /\ \A c : Completes(c, queue'[l])
  BY <1>3, <1>7 DEF In, Once, Completes
<1>10. \A c \in Conns : Good(Now', c, Gone', Dead')
  <2>. SUFFICES ASSUME NEW c \in Conns PROVE Good(Now', c, Gone', Dead')
    OBVIOUS
  <2>1. Good(Now, c, Gone, Dead) /\ Now.conn[c].loop \in Loops
    BY <1>6 DEF Sound, Typed, Records
  <2>2. \A k \in Loops, o \in ConnOps :
         /\ Pending(Now', o, k, c) <=> Pending(Now, o, k, c) /\ k # l
         /\ Once(Functor(o, c), Now.queue[k]) => Once(Functor(o, c), Now'.queue[k])
    BY <1>7, <1>9 DEF Pending, Now
  <2>3. /\ \A k \in Loops : Completes(c, Now.queue[k]) => Completes(c, Now'.queue[k])
        /\ \A k \in Loops : \A kind : Within(Now', kind, k, c) <=> Within(Now, kind, k, c)
        /\ \A k \in Loops : Told(Now', k, c) <=> Told(Now, k, c)
    BY <1>6, <1>7, <1>9 DEF Within, Told, Now
  <2>4. Stand(Now', c)
    BY <1>3, <1>6, <2>1, <2>2, <2>3 DEF Good, Stand, ConnOps, Requests
  <2>5. Kept(Now', c, Gone')
    BY <1>5, <1>6, <2>1, <2>3 DEF Good, Kept
  <2>6. Awaited(Now', c, Dead')
    BY <1>3, <1>5, <1>6, <2>1, <2>2, <2>3 DEF Good, Awaited, ConnOps
  <2>. QED BY <2>4, <2>5, <2>6 DEF Good
<1>11. DataInv' /\ Keeps
  BY <1>5, <1>6, <1>8, <1>10 DEF DataInv, Sound, Keeps, Stage, Gone
<1>. USE DEF IInv, Control
<1>12. \A c \in Conns : Stage(Now', c) = Stage(Now, c)
  BY <1>11 DEF Keeps
<1>13. ControlTypes'
  BY <1>1, <1>3, <1>4 DEF ControlTypes, Stops
<1>14. LoopInv'
  <2>1. active[l] = {} /\ calls[l] = <<>>
    BY <1>1, <1>3 DEF LoopInv
  <2>2. \A k \in Dead' : queue'[k] = <<>>
    BY <1>1, <1>3, <1>5, <1>7 DEF LoopInv
  <2>3. threads # 0
    BY <1>2
  <2>. QED BY <1>1, <1>3, <1>5, <2>1, <2>2, <2>3 DEF LoopInv
<1>15. ActiveInv' /\ PlaceInv' /\ AcceptorInv'
  BY <1>1, <1>4, <1>12 DEF ActiveInv, PlaceInv, AcceptorInv
<1>16. StopInv'
  <2>1. StopAllFunctor' = StopAllFunctor
    BY DEF StopAllFunctor, Functor
  <2>2. \A k \in Loops : In(StopAllFunctor, queue'[k]) => In(StopAllFunctor, queue[k])
    BY <1>7, <1>9
  <2>3. Once(StopAllFunctor, queue'[Base])
    BY <1>3, <1>7 DEF StopInv
  <2>4. ASSUME NEW i \in 1 .. stop.loop PROVE phase'[IoLoops[i]] = "dead"
    <3>1. i \in 1 .. threads /\ IoLoops[i] \in Loops
      BY <1>2
    <3>2. i = stop.loop \/ i \in 1 .. stop.loop - 1
      BY <1>2
    <3>. QED BY <1>1, <1>2, <1>5, <3>1, <3>2 DEF StopInv
  <2>5. stop'.at = "join" => stop'.loop <= threads
    BY <1>2, <1>4
  <2>6. stop'.loop - 1 = stop.loop /\ (stop'.at = "done" => threads = stop.loop)
    BY <1>2, <1>4
  <2>7. \A c \in Conns : Told(Now', Base, c) <=> Told(Now, Base, c)
    BY <1>6 DEF Told, Within
  <2>8. stop'.at # "closing" => stop'.todo = {}
    BY <1>1, <1>4 DEF StopInv
  <2>9. \A c \in Conns : Stage(Now', c) = "up" /\ conn'[c].loop = Base => c \in stop'.todo
    BY <1>1, <1>4, <1>12 DEF StopInv
  <2>10. stop'.by = "outside" => \A c \in Conns : ~Told(Now', Base, c)
    BY <1>1, <1>4, <2>7 DEF StopInv
  <2>11. stop'.by # "nobody" /\ (stop'.by = "outside" => stop'.depth = 0)
    BY <1>1, <1>4 DEF StopInv
  <2>. QED BY <1>1, <1>4, <2>1, <2>2, <2>3, <2>4, <2>5, <2>6, <2>8, <2>9, <2>10, <2>11 DEF StopInv
<1>17. GoneInv' /\ UndefinedOnlyInStop'
  BY <1>1, <1>5 DEF GoneInv, UndefinedOnlyInStop
<1>18. ListenInv'
  BY <1>1, <1>3, <1>4, <1>7 DEF ListenInv, ListenFunctor, StopAllFunctor, Functor
<1>. QED BY <1>11, <1>13, <1>14, <1>15, <1>16, <1>17, <1>18

(* The server goes: what is up lives on a loop that went before it, and no    *)
(* handler is told of a close any more.                                       *)
LEMMA VanishStep ==
  ASSUME IInv, DestroyServer
  PROVE  /\ IInv' /\ ~Gone /\ Gone'
         /\ \A c \in Conns : Stage(Now', c) = IF Stage(Now, c) = "down" THEN "forgotten" ELSE Stage(Now, c)
<1>0. Base \in Loops
  BY DEF Loops
<1>1. /\ ub = {} /\ stop.at = "done" /\ stop' = [stop EXCEPT !.at = "gone"] /\ connections' = {}
      /\ ub' = {u \in {"server"} : calls[Base] # <<>>}
      /\ stop.by = "base" => InvokeRunInLoopFuncs(Base)
      /\ UNCHANGED <<conn, queue, calls, phase, active, acceptor, threads, turn, held, quit>>
  BY DEF DestroyServer
<1>2. /\ stop'.at = "gone" /\ stop'.by = stop.by /\ stop'.todo = {} /\ stop.todo = {}
      /\ stop'.loop = stop.loop /\ stop' \in Stops /\ stop'.depth = stop.depth
  BY <1>1 DEF IInv, Control, ControlTypes, StopInv, Stops
<1>3. ~Gone /\ Gone' /\ Dead' = Dead
  BY <1>1, <1>2 DEF Gone, Dead
<1>4. Typed(Now) /\ Sound(Now, Gone, Dead) /\ Now'.conn = Now.conn /\ Now'.queue = Now.queue
      /\ Now'.connections = {} /\ Now'.calls = Now.calls /\ Now.calls = calls /\ Now.conn = conn
  BY <1>1 DEF IInv, DataInv, Sound, Now
<1>5. \A c \in Conns : Stage(Now', c) = IF Stage(Now, c) = "down" THEN "forgotten" ELSE Stage(Now, c)
  BY <1>4 DEF Stage
<1>6. DataInv'
  <2>1. Typed(Now')
    BY <1>1, <1>4 DEF Typed, Now
  <2>. SUFFICES ASSUME NEW c \in Conns PROVE Good(Now', c, Gone', Dead')
    BY <2>1 DEF DataInv, Sound
  <2>2. Good(Now, c, Gone, Dead)
    BY <1>4 DEF Sound
  <2>3. Stand(Now', c)
    BY <1>4, <2>2 DEF Good, Stand, Pending, Within, Told
  <2>4. Kept(Now', c, Gone')
    BY <1>3 DEF Kept
  <2>5. Awaited(Now', c, Dead')
    BY <1>3, <1>4, <2>2 DEF Good, Awaited, Pending, Within, Told
  <2>. QED BY <2>3, <2>4, <2>5 DEF Good
<1>. USE DEF IInv, Control
<1>7. ControlTypes'
  BY <1>1, <1>2 DEF ControlTypes, Stops, Harms
<1>8. LoopInv'
  BY <1>1, <1>3 DEF LoopInv
<1>9. ActiveInv' /\ PlaceInv' /\ AcceptorInv'
  BY <1>1, <1>2, <1>5 DEF ActiveInv, PlaceInv, AcceptorInv
<1>10. StopInv'
  BY <1>1, <1>2, <1>3, <1>5 DEF StopInv, StopAllFunctor, Functor
<1>11. \A c \in Conns : ~Told(Now, Base, c)
  <2>1. CASE stop.by = "outside"
    BY <1>1, <2>1 DEF StopInv
  <2>2. CASE stop.by = "base"
    <3>1. Now.calls[Base] = <<>>
      BY <1>0, <1>1, <2>2, Running DEF InvokeRunInLoopFuncs
    <3>. QED BY <3>1 DEF Told, Within, In
  <2>. QED BY <1>1, <2>1, <2>2 DEF StopInv, ControlTypes, Stops
<1>12. GoneInv'
  <2>1. \A c \in Conns : ~Told(Now', Base, c)
    BY <1>4, <1>11 DEF Told, Within
  <2>2. ASSUME NEW c \in Conns, Stage(Now', c) \in {"accepted", "up"} PROVE conn[c].loop \in Dead
    <3>1. Stage(Now, c) \in {"accepted", "up"} /\ Good(Now, c, Gone, Dead) /\ conn[c].loop \in Loops
      BY <1>4, <1>5, <2>2 DEF Sound, Typed, Records
    <3>2. conn[c].accepted
      BY <3>1 DEF Stage, Now
    <3>3. conn[c].loop # Base
      BY <1>1, <1>2, <3>1, <3>2 DEF PlaceInv, StopInv
    <3>4. PICK i \in 1 .. threads : conn[c].loop = IoLoops[i]
      BY <3>2, <3>3 DEF PlaceInv
    <3>5. phase[conn[c].loop] = "dead"
      BY <1>1, <3>4 DEF StopInv
    <3>. QED BY <3>1, <3>5 DEF Dead
  <2>3. ub' = {} => calls[Base] = <<>>
    BY <1>1
  <2>. QED BY <1>1, <1>3, <2>1, <2>2, <2>3 DEF GoneInv
<1>13. ListenInv'
  BY <1>1, <1>2 DEF ListenInv, ListenFunctor, StopAllFunctor, Functor
<1>14. UndefinedOnlyInStop'
  <2>1. CASE calls[Base] = <<>>
    BY <1>1, <2>1 DEF UndefinedOnlyInStop
  <2>2. CASE calls[Base] # <<>>
    <3>1. PICK e : e = Head(calls[Base]) /\ e \in Frames /\ In(e, calls[Base])
      <4>1. calls[Base] \in Seq(Frames)
        BY <1>0, <1>4 DEF Typed
      <4>2. 1 \in 1 .. Len(calls[Base]) /\ Head(calls[Base]) = calls[Base][1]
            /\ Head(calls[Base]) \in Frames
        BY <2>2, <4>1, HeadTailProperties, EmptySeq, LenProperties
      <4>. QED BY <4>2 DEF In
    <3>2. PICK c \in Conns, kind \in Kinds : e = Call(kind, c)
      BY <3>1 DEF Frames, Call
    <3>3. Within(Now, kind, Base, c) /\ Stand(Now, c)
      BY <1>4, <3>1, <3>2 DEF Within, Sound, Good
    <3>4. (IsUp(conn[c]) \/ IsDown(conn[c])) /\ conn[c].loop = Base
      BY <1>0, <1>4, <3>3 DEF Stand
    <3>5. ~IsUp(conn[c])
      BY <1>1, <1>2, <1>4, <3>3, <3>4, StageIs DEF StopInv
    <3>6. conn[c].downs > conn[c].destroyed
      BY <3>4, <3>5 DEF IsDown
    <3>. QED BY <1>1, <1>2, <3>6 DEF UndefinedOnlyInStop
  <2>. QED BY <2>1, <2>2
<1>. QED BY <1>3, <1>5, <1>6, <1>7, <1>8, <1>9, <1>10, <1>12, <1>13, <1>14

-----------------------------------------------------------------------------
(* A new connection. *)
LEMMA NextLoopIs ==
  ASSUME IInv
  PROVE  /\ NextLoop \in Loops /\ NextTurn \in {0} \cup 0 .. threads - 1
         /\ threads = 0 => NextLoop = Base
         /\ threads # 0 => NextLoop # Base /\ \E i \in 1 .. threads : NextLoop = IoLoops[i]
<1>1. CASE threads = 0
  BY <1>1 DEF NextLoop, NextTurn, Loops
<1>2. CASE threads # 0
  <2>1. threads \in 1 .. Len(IoLoops) /\ turn \in 0 .. threads - 1 /\ turn + 1 \in 1 .. threads
    BY <1>2, ServerAssumption DEF IInv, Control, ControlTypes
  <2>2. Group[turn + 1] = IoLoops[turn + 1] /\ turn + 1 \in DOMAIN IoLoops
    BY <2>1, ServerAssumption DEF Group
  <2>3. IoLoops[turn + 1] \in Range(IoLoops)
    BY <2>2 DEF Range
  <2>4. (turn + 1) % threads \in 0 .. threads - 1
    BY <2>1
  <2>. QED BY <1>2, <2>1, <2>2, <2>3, <2>4, ServerAssumption DEF NextLoop, NextTurn, Loops
<1>. QED BY <1>1, <1>2

(* The server accepts c for loop k, and has not told anybody. *)
Accepts(s, c, k) ==
  /\ Typed(s) /\ IsAccepted(s.conn[c]) /\ s.conn[c].loop = k
  /\ s.queue = queue /\ s.calls = calls
  /\ s.connections = connections \cup {c} /\ \A d \in Conns \ {c} : s.conn[d] = conn[d]
  /\ \A d \in Conns \ {c} : Good(s, d, Gone, Dead)
  /\ Good(s, c, Gone, Dead)
  /\ \A l \in Loops : ~Pending(s, "Inform", l, c)
  /\ \A d \in Conns \ {c} : Stage(s, d) = Stage(Now, d)
  /\ Stage(Now, c) = "new" /\ Stage(s, c) = "accepted"

LEMMA AcceptSound ==
  ASSUME IInv, NEW c \in Conns, ~conn[c].accepted, NEW k \in Loops
  PROVE  Accepts([Now EXCEPT !.conn[c] = [conn[c] EXCEPT !.accepted = TRUE, !.loop = k],
                             !.connections = @ \cup {c}], c, k)
<1>. DEFINE r == [conn[c] EXCEPT !.accepted = TRUE, !.loop = k]
            s == [Now EXCEPT !.conn[c] = r, !.connections = @ \cup {c}]
<1>1. Typed(Now) /\ Sound(Now, Gone, Dead) /\ Good(Now, c, Gone, Dead)
  BY DEF IInv, DataInv, Sound
<1>2. conn[c] \in Records /\ Stand(Now, c)
  BY <1>1 DEF Typed, Good, Now
<1>3. IsNew(conn[c]) /\ Stage(Now, c) = "new"
  BY <1>2 DEF Stand, Now, Stage, IsAccepted, IsUp, IsDown, IsDestroyed
<1>4. r \in Records /\ IsAccepted(r) /\ r.loop = k
  BY <1>2, <1>3 DEF Records, IsNew, IsAccepted, Quiet
<1>5. /\ s.conn = [conn EXCEPT ![c] = r] /\ s.connections = connections \cup {c}
      /\ s.queue = queue /\ s.calls = calls /\ Typed(s)
  <2>1. Now = [conn |-> conn, connections |-> connections, queue |-> queue, calls |-> calls]
    BY DEF Now
  <2>. HIDE DEF r
  <2>2. s.conn = [Now.conn EXCEPT ![c] = r]
    BY <2>1
  <2>3. s.connections = Now.connections \cup {c}
    BY <2>1
  <2>4. s.queue = Now.queue /\ s.calls = Now.calls
    BY <2>1
  <2>5. Typed(s)
    BY <1>1, <1>4 DEF Typed
  <2>. QED BY <2>1, <2>2, <2>3, <2>4, <2>5
<1>. HIDE DEF r, s
<1>6. /\ Typed(s) /\ s.conn[c] = r /\ \A d \in Conns \ {c} : s.conn[d] = conn[d]
  BY <1>1, <1>4, <1>5 DEF Typed, Now
<1>7. \A l \in Loops, o \in ConnOps : ~Pending(Now, o, l, c)
  <2>1. ~IsAccepted(conn[c]) /\ ~IsDown(conn[c]) /\ ~conn[c].accepted
    BY DEF IsAccepted, IsDown
  <2>. QED BY <1>2, <1>3, <2>1 DEF Stand, Now, ConnOps, Requests, IsNew, IsUp
<1>8. /\ \A l \in Loops, o \in ConnOps : ~Pending(s, o, l, c)
      /\ \A l \in Loops, kind \in Kinds : ~Within(s, kind, l, c)
  <2>1. \A l \in Loops, kind \in Kinds : ~Within(Now, kind, l, c)
    BY <1>2, <1>3 DEF Stand, Now, IsNew, IsUp, IsDown
  <2>. QED BY <1>5, <1>7, <2>1 DEF Pending, Within, Now
<1>9. \A d \in Conns \ {c} : Good(s, d, Gone, Dead) /\ Stage(s, d) = Stage(Now, d)
  <2>. SUFFICES ASSUME NEW d \in Conns \ {c}
                PROVE  Good(s, d, Gone, Dead) /\ Stage(s, d) = Stage(Now, d)
    OBVIOUS
  <2>1. Good(Now, d, Gone, Dead) /\ Now.conn[d].loop \in Loops
    BY <1>1 DEF Sound, Typed, Records
  <2>2. /\ s.conn[d] = Now.conn[d]
        /\ d \in s.connections <=> d \in Now.connections
        /\ s.queue = Now.queue /\ s.calls = Now.calls
    BY <1>5, <1>6 DEF Now
  <2>3. Same(Now, s, d)
    BY <2>2 DEF Same, Pending, Within
  <2>4. Good(s, d, Gone, Dead)
    BY <2>1, <2>3, SameGood
  <2>. QED BY <2>2, <2>4 DEF Stage
<1>10. Good(s, c, Gone, Dead)
  <2>1. \A l \in Loops :
          /\ \A o \in {"Inform", "Remove", "Destroy"} : Once(Functor(o, c), s.queue[l])
          /\ Completes(c, s.queue[l]) /\ Once(Call("down", c), s.calls[l])
          /\ ~Told(s, l, c)
    BY <1>2, <1>5, <1>8 DEF Stand, Now, Told, Kinds
  <2>2. Stand(s, c)
    BY <1>4, <1>6, <1>8, <2>1 DEF Stand, ConnOps, Requests, Loops
  <2>3. Kept(s, c, Gone) /\ Awaited(s, c, Dead)
    BY <1>4, <1>5, <1>6 DEF Kept, Awaited, IsAccepted, IsDown
  <2>. QED BY <2>2, <2>3 DEF Good
<1>11. Stage(s, c) = "accepted"
  BY <1>4, <1>6 DEF Stage, IsAccepted
<1>12. Accepts(s, c, k)
  BY <1>3, <1>4, <1>5, <1>6, <1>8, <1>9, <1>10, <1>11 DEF Accepts, ConnOps
<1>. QED BY <1>12 DEF r, s

(* It is told on the base loop at once; another loop gets a functor. *)
LEMMA PassedSound ==
  ASSUME IInv, NEW c \in Conns, NEW k \in Loops, NEW s, Accepts(s, c, k),
         NEW t, t = QueueInLoop(s, k, Functor("Inform", c))
  PROVE  Sound(t, Gone, Dead) /\ Moves(s, t, Base, {k})
<1>1. Typed(s) /\ Good(s, c, Gone, Dead) /\ IsAccepted(s.conn[c]) /\ s.conn[c].loop = k
  BY DEF Accepts
<1>2. Functor("Inform", c) \in Functors /\ Functor("Inform", c).conn \in Conns /\ "Inform" \in ConnOps
  BY FunctorIs DEF ConnOps
<1>3. Pushed(s, t, k, Functor("Inform", c))
  BY <1>1, <1>2, Push
<1>4. Others(s, t, c)
  BY <1>2, <1>3, PushOthers
<1>5. /\ Typed(t) /\ t.conn = s.conn /\ t.connections = s.connections /\ t.calls = s.calls
      /\ \A m \in Loops \ {k} : t.queue[m] = s.queue[m]
  BY <1>3 DEF Pushed
<1>6. \A m \in Loops, o \in ConnOps :
        Pending(t, o, m, c) <=> Pending(s, o, m, c) \/ (m = k /\ o = "Inform")
  <2>1. \A o \in ConnOps : Functor(o, c) = Functor("Inform", c) <=> o = "Inform"
    BY <1>2, FunctorIs
  <2>. QED BY <1>3, <2>1 DEF Pushed, Pending
<1>7. \A m \in Loops, o \in {"Inform", "Remove", "Destroy"} : Once(Functor(o, c), t.queue[m])
  <2>1. \A m \in Loops, o \in {"Inform", "Remove", "Destroy"} :
          Once(Functor(o, c), s.queue[m]) /\ (o = "Inform" => ~In(Functor(o, c), s.queue[m]))
    BY <1>1 DEF Good, Stand, Accepts, Pending
  <2>2. \A o \in {"Remove", "Destroy"} : Functor(o, c) # Functor("Inform", c)
    BY DEF Functor
  <2>. QED BY <1>3, <2>1, <2>2 DEF Pushed
<1>8. \A m \in Loops : Completes(c, s.queue[m]) => Completes(c, t.queue[m])
  <2>1. Functor("Inform", c) # Functor("Complete", c)
    BY DEF Functor
  <2>. QED BY <1>3, <2>1 DEF Pushed
<1>9. Good(t, c, Gone, Dead)
  <2>1. Base \in Loops
    BY DEF Loops
  <2>2. Stand(t, c)
    BY <1>1, <1>5, <1>6, <1>7, <1>8, <2>1 DEF Good, Stand, ConnOps, Requests, Within, Told
  <2>3. Kept(t, c, Gone)
    BY <1>1, <1>5 DEF Good, Kept, Told, Within
  <2>4. Awaited(t, c, Dead)
    BY <1>1, <1>5 DEF Awaited, IsAccepted, IsDown
  <2>. QED BY <2>2, <2>3, <2>4 DEF Good
<1>10. Sound(t, Gone, Dead) /\ \A d \in Conns \ {c} : Stage(t, d) = Stage(s, d)
  <2>1. \A d \in Conns \ {c} : Good(s, d, Gone, Dead)
    BY DEF Accepts
  <2>. QED BY <1>1, <1>4, <1>5, <1>9, <2>1, OthersSound
<1>11. Grows(s.queue, t.queue)
  BY <1>1, <1>2, <1>3, PushGrows
<1>12. Stage(t, c) = Stage(s, c)
  BY <1>5 DEF Stage
<1>13. OnlyMoves(s, t)
  <2>1. Told(t, Base, c) => Told(s, Base, c)
    BY <1>5 DEF Told, Within
  <2>. QED BY <1>4, <1>5, <1>10, <2>1, OthersMove
<1>14. OnlyCalls(s, t, Base)
  BY <1>1, <1>5, SameCalls
<1>. QED BY <1>5, <1>10, <1>11, <1>12, <1>13, <1>14 DEF Moves

(* How far a connection gets in a step that does not destroy it: at most one  *)
(* gets further.                                                              *)
Climb ==
  /\ ~Gone /\ ~Gone'
  /\ \A d \in Conns :
       \/ Stage(Now', d) = Stage(Now, d)
       \/ <<Stage(Now, d), Stage(Now', d)>> \in Rises \cup {<<"new", "accepted">>, <<"new", "up">>}
  /\ \A d, e \in Conns :
       Stage(Now', d) # Stage(Now, d) /\ Stage(Now', e) # Stage(Now, e) => d = e

LEMMA AcceptStep ==
  ASSUME IInv, NEW c \in Conns, HandleNewConnection(c)
  PROVE  IInv' /\ Climb
<1>0. Base \in Loops
  BY DEF Loops
<1>1. PICK k, s : /\ k = NextLoop
                  /\ s = [Now EXCEPT !.conn[c] = [conn[c] EXCEPT !.accepted = TRUE, !.loop = k],
                                     !.connections = @ \cup {c}]
  OBVIOUS
<1>2. PICK t : t = IF k = Base THEN InformInLoop(s, Base, c)
                   ELSE QueueInLoop(s, k, Functor("Inform", c))
  OBVIOUS
<1>3. /\ Handles(Base, Acceptor) /\ ~conn[c].accepted /\ turn' = NextTurn
      /\ UNCHANGED <<phase, acceptor, threads, held, stop, quit>> /\ Become(t, {})
  BY <1>1, <1>2 DEF HandleNewConnection
<1>4. /\ k \in Loops /\ NextTurn \in {0} \cup 0 .. threads - 1
      /\ threads = 0 => k = Base
      /\ threads # 0 => k # Base /\ \E i \in 1 .. threads : k = IoLoops[i]
  BY <1>1, NextLoopIs
<1>5. Accepts(s, c, k)
  BY <1>1, <1>3, <1>4, AcceptSound
<1>6. /\ Runs(Base, "busy") /\ active' \in [Loops -> SUBSET (Conns \cup {Acceptor})]
      /\ \A l \in Loops : active'[l] \subseteq active[l]
  BY <1>0, <1>3, Handling
<1>7. ub = {} /\ phase[Base] = "busy"
  BY <1>0, <1>6, Running
<1>8. /\ acceptor = "listening" /\ stop.at \in {"no", "queued"} /\ Dead = {} /\ ~Gone
      /\ stop.todo = {}
  BY <1>0, <1>3, <1>7 DEF Handles, IInv, Control, AcceptorInv, StopInv, ControlTypes, Gone
<1>9. PICK ks : /\ Sound(t, Gone, Dead) /\ Moves(s, t, Base, ks)
                /\ Stage(t, c) = IF k = Base THEN "up" ELSE "accepted"
  <2>1. Stage(s, c) = "accepted" /\ IsAccepted(s.conn[c]) /\ s.conn[c].loop = k /\ Typed(s)
    BY <1>5 DEF Accepts
  <2>2. CASE k = Base
    <3>1. t = InformInLoop(s, Base, c)
      BY <1>2, <2>2
    <3>2. Sound(t, Gone, Dead) /\ Moves(s, t, Base, {})
      BY <1>0, <1>5, <2>2, <3>1, InformSound DEF Accepts, Good
    <3>3. Stage(t, c) = "up"
      <4>1. PICK r : r = [s EXCEPT !.conn[c] = Opened(@)]
        OBVIOUS
      <4>2. t = Calling(r, Base, "up", c)
        BY <3>1, <4>1 DEF InformInLoop
      <4>3. t.conn[c] = Opened(s.conn[c])
        BY <2>1, <4>1, <4>2 DEF Calling, Typed
      <4>4. IsUp(t.conn[c])
        BY <2>1, <4>3, OpenedIs DEF Typed
      <4>. QED BY <4>4 DEF Stage, IsUp
    <3>. QED BY <2>2, <3>2, <3>3
  <2>3. CASE k # Base
    <3>1. t = QueueInLoop(s, k, Functor("Inform", c))
      BY <1>2, <2>3
    <3>2. Sound(t, Gone, Dead) /\ Moves(s, t, Base, {k})
      BY <1>4, <1>5, <3>1, PassedSound
    <3>3. Stage(t, c) = "accepted"
      BY <2>1, <3>1 DEF QueueInLoop, Stage, Typed
    <3>. QED BY <2>3, <3>2, <3>3
  <2>. QED BY <2>2, <2>3
<1>10. /\ Typed(t) /\ Now' = t /\ Dead' = {} /\ ~Gone' /\ conn' = t.conn /\ calls' = t.calls
       /\ queue' = t.queue
  BY <1>3, <1>8, <1>9, BecomeIs DEF Sound, Dead, Gone, Become
<1>11. ub' = {}
  BY <1>3, <1>7, <1>8 DEF Become, Dead
<1>12. /\ conn'[c].loop = k /\ conn'[c].accepted /\ Stage(Now, c) = "new"
       /\ Stage(Now', c) = IF k = Base THEN "up" ELSE "accepted"
  BY <1>5, <1>9, <1>10 DEF Accepts, Moves, OnlyMoves, IsAccepted
<1>13. \A d \in Conns \ {c} :
         /\ conn'[d].loop = conn[d].loop /\ conn'[d].accepted = conn[d].accepted
         /\ Stage(Now', d) = Stage(Now, d)
  <2>. SUFFICES ASSUME NEW d \in Conns \ {c}
                PROVE  /\ conn'[d].loop = conn[d].loop /\ conn'[d].accepted = conn[d].accepted
                       /\ Stage(Now', d) = Stage(Now, d)
    OBVIOUS
  <2>1. s.conn[d] = conn[d] /\ Stage(s, d) = Stage(Now, d) /\ Stage(s, c) = "accepted"
    BY <1>5 DEF Accepts
  <2>2. t.conn[d].loop = s.conn[d].loop /\ t.conn[d].accepted = s.conn[d].accepted
    BY <1>9 DEF Moves, OnlyMoves
  <2>3. Stage(t, d) = Stage(s, d)
    <3>1. CASE k = Base
      BY <1>9, <2>1, <3>1 DEF Moves, OnlyMoves
    <3>2. CASE k # Base
      <4>1. t = QueueInLoop(s, k, Functor("Inform", c))
        BY <1>2, <3>2
      <4>. QED BY <4>1, <1>5 DEF QueueInLoop, Stage, Accepts, Typed
    <3>. QED BY <3>1, <3>2
  <2>. QED BY <1>10, <2>1, <2>2, <2>3
<1>14. DataInv'
  <2>1. Gone' = Gone /\ Dead' = Dead
    BY <1>8, <1>10 DEF Gone
  <2>. QED BY <1>9, <1>10, <2>1 DEF DataInv
<1>15. QueueDrift(queue, queue')
  <2>1. Grows(s.queue, t.queue) /\ Typed(s) /\ s.queue = queue /\ t.queue = queue'
    BY <1>5, <1>9, <1>10 DEF Moves, Accepts
  <2>. QED BY <1>10, <2>1, GrowsDrifts DEF Typed
<1>. USE DEF IInv, Control
<1>16. ControlTypes'
  BY <1>3, <1>4, <1>6, <1>11 DEF ControlTypes, Stops, Harms
<1>17. LoopInv'
  <2>1. \A l \in Loops : phase[l] # "busy" => active'[l] = {} /\ calls'[l] = <<>>
    <3>1. \A l \in Loops \ {Base} : calls'[l] = calls[l]
      BY <1>5, <1>9, <1>10 DEF Moves, OnlyCalls, Accepts
    <3>. QED BY <1>6, <1>7, <3>1 DEF LoopInv
  <2>. QED BY <1>3, <1>10, <2>1 DEF LoopInv
<1>18. ActiveInv'
  <2>. SUFFICES ASSUME NEW l \in Loops, NEW d \in active'[l] \cap Conns
                PROVE  conn'[d].loop = l /\ Stage(Now', d) \in {"up", "down", "forgotten"}
    BY DEF ActiveInv
  <2>1. conn[d].loop = l /\ Stage(Now, d) \in {"up", "down", "forgotten"}
    BY <1>6 DEF ActiveInv
  <2>. QED BY <1>12, <1>13, <2>1
<1>19. PlaceInv'
  <2>1. \A d \in held' \cup stop'.todo : conn'[d].accepted
    BY <1>3, <1>8, <1>12, <1>13 DEF PlaceInv, ControlTypes
  <2>2. ASSUME NEW d \in Conns, conn'[d].accepted
        PROVE  /\ acceptor' # "idle"
               /\ IF conn'[d].loop = Base THEN threads' = 0 /\ Stage(Now', d) # "accepted"
                  ELSE threads' # 0 /\ \E i \in 1 .. threads' : conn'[d].loop = IoLoops[i]
    <3>1. CASE d = c
      BY <1>3, <1>4, <1>8, <1>12, <3>1
    <3>2. CASE d # c
      <4>1. conn[d].accepted /\ conn'[d].loop = conn[d].loop /\ Stage(Now', d) = Stage(Now, d)
        BY <1>13, <2>2, <3>2
      <4>. QED BY <1>3, <4>1 DEF PlaceInv
    <3>. QED BY <3>1, <3>2
  <2>. QED BY <2>1, <2>2 DEF PlaceInv
<1>20. AcceptorInv'
  BY <1>3, <1>8 DEF AcceptorInv
<1>21. /\ \A l \in Loops : In(StopAllFunctor, queue'[l]) => In(StopAllFunctor, queue[l])
       /\ Once(StopAllFunctor, queue'[Base])
       /\ ListenInv'
  BY <1>3, <1>10, <1>15, StopKept
<1>22. StopInv'
  <2>1. StopAllFunctor' = StopAllFunctor
    BY DEF StopAllFunctor, Functor
  <2>. QED BY <1>3, <1>8, <1>10, <1>21, <2>1 DEF StopInv
<1>23. GoneInv' /\ UndefinedOnlyInStop'
  BY <1>10, <1>11 DEF GoneInv, UndefinedOnlyInStop
<1>24. Climb
  BY <1>8, <1>10, <1>12, <1>13 DEF Climb
<1>. QED BY <1>14, <1>16, <1>17, <1>18, <1>19, <1>20, <1>21, <1>22, <1>23, <1>24

-----------------------------------------------------------------------------
(* Where it begins. *)
LEMMA InitIInv == Init => IInv
<1>. SUFFICES ASSUME Init PROVE IInv
  OBVIOUS
<1>. USE DEF Init
<1>0. Base \in Loops
  BY DEF Loops
<1>1. \A c \in Conns : conn[c] \in Records /\ IsNew(conn[c]) /\ ~conn[c].accepted
  BY <1>0 DEF Records, States, ChannelStates, IsNew, Quiet
<1>2. \A l \in Loops : /\ (\A e : ~In(e, queue[l]) /\ Once(e, queue[l]))
                        /\ (\A e : ~In(e, calls[l]) /\ Once(e, calls[l]))
                        /\ \A c : Completes(c, queue[l])
  BY DEF In, Once, Completes
<1>3. Typed(Now)
  <2>1. queue \in [Loops -> Seq(Functors)] /\ calls \in [Loops -> Seq(Frames)]
    BY EmptySeq
  <2>. QED BY <1>1, <2>1 DEF Typed, Now
<1>4. \A c \in Conns : Good(Now, c, Gone, Dead)
  <2>. SUFFICES ASSUME NEW c \in Conns PROVE Good(Now, c, Gone, Dead)
    OBVIOUS
  <2>1. Stand(Now, c)
    BY <1>0, <1>1, <1>2 DEF Stand, Pending, Within, Told, Now
  <2>2. Kept(Now, c, Gone) /\ Awaited(Now, c, Dead)
    BY <1>0, <1>1, <1>2 DEF Kept, Awaited, Told, Within, Now, IsAccepted, IsUp, IsDown, IsNew, Records
  <2>. QED BY <2>1, <2>2 DEF Good
<1>5. Dead = {} /\ ~Gone
  BY DEF Dead, Gone
<1>6. ControlTypes
  BY <1>0 DEF ControlTypes, Stops
<1>7. LoopInv /\ ActiveInv /\ PlaceInv /\ AcceptorInv
  BY <1>0, <1>1, <1>2, <1>5 DEF LoopInv, ActiveInv, PlaceInv, AcceptorInv
<1>8. StopInv /\ GoneInv /\ UndefinedOnlyInStop
  BY <1>0, <1>2, <1>5 DEF StopInv, GoneInv, UndefinedOnlyInStop
<1>9. ListenInv
  BY DEF ListenInv
<1>. QED BY <1>3, <1>4, <1>6, <1>7, <1>8, <1>9 DEF IInv, Control, DataInv, Sound

-----------------------------------------------------------------------------
(* ConnectionLife.  Its variables follow from the stages, and from whether    *)
(* the server is gone.                                                        *)
LEMMA Seen ==
  ASSUME NEW s, NEW g, NEW D, Sound(s, g, D), g => s.connections = {}
  PROVE  /\ s.connections = {c \in Conns : ~g /\ Stage(s, c) \in {"accepted", "up", "down"}}
         /\ {c \in Conns : s.conn[c].state # "kDisconnected"} = {c \in Conns : Stage(s, c) = "up"}
         /\ {c \in Conns : s.conn[c].channel = "kAdded"} = {c \in Conns : Stage(s, c) = "up"}
         /\ \A c \in Conns : Stage(s, c) \in {"new", "accepted", "up", "down", "forgotten", "destroyed"}
<1>1. ASSUME NEW c \in Conns
      PROVE  /\ c \in s.connections <=> ~g /\ Stage(s, c) \in {"accepted", "up", "down"}
             /\ s.conn[c].state # "kDisconnected" <=> Stage(s, c) = "up"
             /\ s.conn[c].channel = "kAdded" <=> Stage(s, c) = "up"
  <2>1. Stand(s, c) /\ Kept(s, c, g)
    BY DEF Sound, Good
  <2>2. /\ Stage(s, c) = "accepted" <=> IsAccepted(s.conn[c])
        /\ Stage(s, c) = "up" <=> IsUp(s.conn[c])
        /\ Stage(s, c) = "down" <=> IsDown(s.conn[c]) /\ c \in s.connections
    BY <2>1, StageIs
  <2>3. c \in s.connections => ~g /\ (IsAccepted(s.conn[c]) \/ IsUp(s.conn[c]) \/ IsDown(s.conn[c]))
    BY <2>1 DEF Stand
  <2>4. ~g /\ (IsAccepted(s.conn[c]) \/ IsUp(s.conn[c])) => c \in s.connections
    BY <2>1 DEF Kept
  <2>5. IsNew(s.conn[c]) \/ IsAccepted(s.conn[c]) \/ IsUp(s.conn[c]) \/ IsDown(s.conn[c])
        \/ IsDestroyed(s.conn[c])
    BY <2>1 DEF Stand
  <2>6. /\ s.conn[c].state # "kDisconnected" <=> IsUp(s.conn[c])
        /\ s.conn[c].channel = "kAdded" <=> IsUp(s.conn[c])
    BY <2>5 DEF IsNew, IsAccepted, IsUp, IsDown, IsDestroyed, Quiet
  <2>. QED BY <2>2, <2>3, <2>4, <2>6
<1>2. s.connections \subseteq Conns
  BY DEF Sound, Typed
<1>3. \A c \in Conns : Stage(s, c) \in {"new", "accepted", "up", "down", "forgotten", "destroyed"}
  BY DEF Stage
<1>. QED BY <1>1, <1>2, <1>3

(* A handler of a server that is gone takes no connection further. *)
LEMMA HandlerLife ==
  ASSUME IInv, IInv', NEW l, HandlerStep(l), Spares
  PROVE  Climb \/ Keeps
<1>1. StepOf(l) /\ Drift(Now, Now', l)
  BY DEF HandlerStep
<1>2. Gone' = Gone
  BY <1>1 DEF StepOf, Turns, IInv, Control, ControlTypes, Stops, Gone
<1>3. l \notin Dead /\ l \in Loops
  BY <1>1 DEF StepOf
<1>4. \A d \in Conns :
        \/ Stage(Now', d) = Stage(Now, d)
        \/ /\ <<Stage(Now, d), Stage(Now', d)>> \in Rises
           /\ conn[d].loop = l \/ Stage(Now, d) = "down"
  BY <1>1 DEF Drift, Now, Spares
<1>5. CASE ~Gone
  BY <1>1, <1>2, <1>4, <1>5 DEF Climb, Drift, OnlyMoves
<1>6. CASE Gone
  <2>. SUFFICES ASSUME NEW d \in Conns PROVE Stage(Now', d) = Stage(Now, d)
    BY <1>2 DEF Keeps
  <2>1. Stage(Now, d) # "down"
    BY <1>6 DEF IInv, Control, GoneInv, Stage, Now
  <2>2. Stage(Now, d) \in {"accepted", "up"} => conn[d].loop # l
    BY <1>3, <1>6 DEF IInv, Control, GoneInv
  <2>. QED BY <1>4, <2>1, <2>2 DEF Rises
<1>. QED BY <1>5, <1>6

LEMMA LifeIs ==
  ASSUME DataInv, DataInv'
  PROVE  \A c \in Conns : Life(c) = Stage(Now, c) /\ Life(c)' = Stage(Now', c)
<1>. SUFFICES ASSUME NEW c \in Conns PROVE Life(c) = Stage(Now, c) /\ Life(c)' = Stage(Now', c)
  OBVIOUS
<1>1. /\ \/ IsNew(conn[c]) \/ IsAccepted(conn[c]) \/ IsUp(conn[c]) \/ IsDown(conn[c])
         \/ IsDestroyed(conn[c])
      /\ \/ IsNew(conn'[c]) \/ IsAccepted(conn'[c]) \/ IsUp(conn'[c]) \/ IsDown(conn'[c])
         \/ IsDestroyed(conn'[c])
  BY DEF DataInv, Sound, Good, Stand, Now
<1>2. Life(c) = Stage(Now, c)
  BY <1>1 DEF Life, Stage, Now, IsNew, IsAccepted, IsUp, IsDown, IsDestroyed
<1>3. Life(c)' = Stage(Now', c)
  BY <1>1 DEF Life, Stage, Now, IsNew, IsAccepted, IsUp, IsDown, IsDestroyed
<1>. QED BY <1>2, <1>3

Destroys(c) ==
  /\ Stage(Now, c) = "forgotten" /\ Stage(Now', c) = "destroyed" /\ Gone' = Gone
  /\ \A d \in Conns \ {c} : Stage(Now', d) = Stage(Now, d)

Vanishes ==
  /\ ~Gone /\ Gone'
  /\ \A c \in Conns : Stage(Now', c) = IF Stage(Now, c) = "down" THEN "forgotten" ELSE Stage(Now, c)

LEMMA LifeStep ==
  ASSUME IInv, IInv', Climb \/ Keeps \/ Vanishes \/ \E c \in Conns : Destroys(c)
  PROVE  [Promise!Next]_(Promise!lifeVars)
<1>. DEFINE life == [c \in Conns |-> Life(c)]
            open == {c \in Conns : conn[c].state # "kDisconnected"}
            watched == {c \in Conns : conn[c].channel = "kAdded"}
            stages == {"new", "accepted", "up", "down", "forgotten", "destroyed"}
            Keep(g) == {c \in Conns : ~g /\ life'[c] \in {"accepted", "up", "down"}}
<1>1. \A c \in Conns : Life(c) = Stage(Now, c) /\ Life(c)' = Stage(Now', c)
  BY LifeIs DEF IInv
<1>2. /\ \A c \in Conns : life[c] = Stage(Now, c) /\ life'[c] = Stage(Now', c)
      /\ life' \in [Conns -> stages] /\ life \in [Conns -> stages]
  <2>1. \A c \in Conns : Stage(Now, c) \in stages /\ Stage(Now', c) \in stages
    BY DEF Stage
  <2>. QED BY <1>1, <2>1
<1>3. /\ connections = {c \in Conns : ~Gone /\ Stage(Now, c) \in {"accepted", "up", "down"}}
      /\ open = {c \in Conns : Stage(Now, c) = "up"} /\ watched = {c \in Conns : Stage(Now, c) = "up"}
  <2>1. Sound(Now, Gone, Dead) /\ (Gone => Now.connections = {})
    BY DEF IInv, Control, DataInv, GoneInv, Now
  <2>. QED BY <2>1, Seen DEF Now
<1>4. /\ connections' = {c \in Conns : ~Gone' /\ Stage(Now', c) \in {"accepted", "up", "down"}}
      /\ open' = {c \in Conns : Stage(Now', c) = "up"} /\ watched' = {c \in Conns : Stage(Now', c) = "up"}
  <2>1. Sound(Now', Gone', Dead') /\ (Gone' => Now'.connections = {})
    BY DEF IInv, Control, DataInv, GoneInv, Now
  <2>. QED BY <2>1, Seen DEF Now
<1>5. connections' = Keep(Gone') /\ open' = {c \in Conns : life'[c] = "up"} /\ watched' = open'
  BY <1>2, <1>4
<1>. HIDE DEF life, open, watched
<1>6. ASSUME NEW c \in Conns, <<life[c], life'[c]>> \in Promise!Follows,
             \A d \in Conns \ {c} : life'[d] = life[d],
             Gone => life'[c] = "destroyed", Gone' = Gone
      PROVE  Promise!Next
  <2>1. life' = [life EXCEPT ![c] = life'[c]]
    BY <1>2, <1>6
  <2>2. life'[c] \in {"accepted", "up", "down", "forgotten", "destroyed"}
    BY <1>6 DEF Promise!Follows
  <2>3. Keep(Gone') = Keep(Gone)
    BY <1>6
  <2>4. Promise!Advance(c)
    BY <1>5, <1>6, <2>1, <2>2, <2>3 DEF Promise!Advance, Promise!Agree, life, open, watched, Gone
  <2>. QED BY <2>4 DEF Promise!Next
<1>7. ASSUME Keeps PROVE UNCHANGED Promise!lifeVars
  <2>1. life' = life /\ Gone' = Gone
    BY <1>2, <1>7 DEF Keeps
  <2>2. connections' = connections /\ open' = open /\ watched' = watched
    BY <1>3, <1>4, <1>7 DEF Keeps
  <2>. QED BY <2>1, <2>2 DEF Promise!lifeVars, life, open, watched, Gone
<1>8. ASSUME Climb PROVE Promise!Next \/ UNCHANGED Promise!lifeVars
  <2>1. CASE \A c \in Conns : Stage(Now', c) = Stage(Now, c)
    <3>1. Keeps
      BY <1>8, <2>1 DEF Climb, Keeps, Gone
    <3>. QED BY <1>7, <3>1
  <2>2. CASE \E c \in Conns : Stage(Now', c) # Stage(Now, c)
    <3>1. PICK c \in Conns : Stage(Now', c) # Stage(Now, c)
      BY <2>2
    <3>2. \A d \in Conns \ {c} : life'[d] = life[d]
      BY <1>2, <1>8, <3>1 DEF Climb
    <3>3. <<life[c], life'[c]>> \in Promise!Follows
      BY <1>2, <1>8, <3>1 DEF Climb, Rises, Promise!Follows
    <3>4. ~Gone /\ ~Gone'
      BY <1>8 DEF Climb
    <3>. QED BY <1>6, <3>2, <3>3, <3>4 DEF Gone
  <2>. QED BY <2>1, <2>2
<1>9. ASSUME Vanishes PROVE Promise!Vanish
  <2>1. life' = [c \in Conns |-> IF life[c] = "down" THEN "forgotten" ELSE life[c]]
    BY <1>2, <1>9 DEF Vanishes
  <2>2. ~Gone /\ Gone' /\ Keep(Gone') = Keep(TRUE)
    BY <1>9 DEF Vanishes
  <2>. QED BY <1>5, <2>1, <2>2 DEF Promise!Vanish, Promise!Agree, life, open, watched, Gone
<1>10. ASSUME NEW c \in Conns, Destroys(c) PROVE Promise!Next
  <2>1. life[c] = "forgotten" /\ life'[c] = "destroyed" /\ Gone' = Gone
        /\ \A d \in Conns \ {c} : life'[d] = life[d]
    BY <1>2, <1>10 DEF Destroys
  <2>2. <<life[c], life'[c]>> \in Promise!Follows
    BY <2>1 DEF Promise!Follows
  <2>. QED BY <1>6, <2>1, <2>2
<1>. QED BY <1>7, <1>8, <1>9, <1>10 DEF Promise!Next

-----------------------------------------------------------------------------
(* Every step, and what follows. *)
LEMMA EveryStep ==
  ASSUME IInv, [Next]_vars
  PROVE  IInv' /\ (Climb \/ Keeps \/ Vanishes \/ \E c \in Conns : Destroys(c))
<1>0. Base \in Loops
  BY DEF Loops
<1>1. ASSUME NEW l \in Loops, Handle(l) \/ Return(l) PROVE IInv' /\ (Climb \/ Keeps)
  BY <1>1, NothingStep, MessageStep, EndStep, ReturnStep, HandlerLife DEF Handle
<1>2. ASSUME NEW l \in Loops, \/ RunInform(l) \/ RunForceClose(l) \/ RunShutdown(l)
                              \/ RunSend(l) \/ RunComplete(l)
      PROVE  IInv' /\ (Climb \/ Keeps)
  BY <1>2, InformStep, RequestStep, CompleteStep, HandlerLife
<1>3. ASSUME NEW l \in Loops, RunDestroy(l) PROVE IInv' /\ \E c \in Conns : Destroys(c)
  <2>1. IInv' /\ HandlerStep(l)
    BY <1>3, DestroyStep
  <2>2. Gone' = Gone
    BY <2>1 DEF HandlerStep, StepOf, Turns, IInv, Control, ControlTypes, Stops, Gone
  <2>. QED BY <1>3, <2>1, <2>2, DestroyStep DEF Destroys
<1>4. ASSUME NEW l \in Loops, LoopStep(l)
      PROVE  IInv' /\ (Climb \/ Keeps \/ \E c \in Conns : Destroys(c))
  BY <1>1, <1>2, <1>3, <1>4, SelectStep, QuietStep DEF LoopStep, RunFunctor
<1>5. ASSUME \/ RunRemove \/ RunListen
             \/ \E c \in Conns : CloseNext(c) \/ AppCalls(c) \/ \E l \in Loops : AppUses(l, c)
      PROVE  IInv' /\ (Climb \/ Keeps)
  BY <1>0, <1>5, RemoveStep, ListenStep, CloseNextStep, CallStep, AppUsesStep, HandlerLife
<1>6. ASSUME RunStopAll \/ ClosedAll \/ Start \/ StopOutside \/ StopInLoop \/ StopLoop \/ JoinLoop
      PROVE  IInv' /\ Keeps
  BY <1>6, RunStopAllStep, ClosedAllStep, StartStep, StopOutsideStep, StopInLoopStep, StopLoopStep,
     JoinLoopStep
<1>7. ASSUME BaseStep PROVE IInv' /\ (Climb \/ Keeps)
  BY <1>5, <1>6, <1>7, AcceptStep DEF BaseStep
<1>8. ASSUME AppStep PROVE IInv' /\ (Climb \/ Keeps \/ Vanishes)
  <2>1. CASE \E c \in Conns : AppDrops(c)
    BY <2>1, DropStep
  <2>2. CASE \E l \in Loops : AppKeeps(l)
    BY <2>2, KeepStep
  <2>3. CASE \E num \in Nums : SetEventLoopGroupNum(num)
    BY <2>3, GroupStep
  <2>4. CASE DestroyServer
    BY <2>4, VanishStep DEF Vanishes
  <2>. QED BY <1>5, <1>6, <1>8, <2>1, <2>2, <2>3, <2>4 DEF AppStep
<1>9. ASSUME UNCHANGED vars PROVE IInv' /\ Keeps
  <2>1. Now' = Now /\ Gone' = Gone /\ Dead' = Dead
    BY <1>9 DEF vars, Now, Gone, Dead
  <2>2. DataInv' /\ Keeps
    BY <2>1 DEF IInv, DataInv, Keeps
  <2>. USE DEF IInv, Control, vars
  <2>3. ControlTypes' /\ LoopInv' /\ ActiveInv' /\ PlaceInv' /\ AcceptorInv'
    BY <1>9, <2>1 DEF ControlTypes, Stops, LoopInv, ActiveInv, PlaceInv, AcceptorInv
  <2>4. StopInv' /\ GoneInv' /\ ListenInv' /\ UndefinedOnlyInStop'
    BY <1>9, <2>1 DEF StopInv, GoneInv, ListenInv, ListenFunctor, StopAllFunctor, Functor, UndefinedOnlyInStop
  <2>. QED BY <2>2, <2>3, <2>4
<1>. QED BY <1>4, <1>6, <1>7, <1>8, <1>9 DEF Next

(* The invariant of the proofs: for each connection its stage, its functors,  *)
(* its calls that have not returned and connections_ agree (DataInv), and so   *)
(* do the loops, Stop and the undefined behaviour met (Control).               *)
THEOREM ServerInvariant == SafeSpec => []IInv
<1>1. IInv /\ [Next]_vars => IInv'
  BY EveryStep
<1>. QED BY InitIInv, <1>1, PTL DEF SafeSpec

(* Type correctness of the server, its loops and its connections. *)
THEOREM ServerTypeCorrect == SafeSpec => []TypeOK
<1>1. IInv => TypeOK
  <2>. SUFFICES ASSUME IInv PROVE TypeOK
    OBVIOUS
  <2>1. Typed(Now)
    BY DEF IInv, DataInv, Sound
  <2>2. /\ conn \in [Conns -> Records] /\ connections \in SUBSET Conns
        /\ queue \in [Loops -> Seq(Functors)] /\ calls \in [Loops -> Seq(Frames)]
    BY <2>1 DEF Typed, Now
  <2>3. Functors \subseteq [op : Ops, conn : Conns \cup {Acceptor}]
    BY DEF Functors, ConnOps, Ops
  <2>4. Seq(Functors) \subseteq Seq([op : Ops, conn : Conns \cup {Acceptor}])
    BY <2>3, SeqMonotonic
  <2>5. queue \in [Loops -> Seq([op : Ops, conn : Conns \cup {Acceptor}])]
    BY <2>2, <2>4
  <2>6. quit \in SUBSET Loops
    BY DEF IInv, Control, ControlTypes, Loops
  <2>. QED BY <2>2, <2>5, <2>6
       DEF TypeOK, Records, Frames, Kinds, Stops, Harms, IInv, Control, ControlTypes
<1>. QED BY <1>1, ServerInvariant, PTL

(* However many loops there are and whatever closes a connection, on its own  *)
(* loop or another, a loop never calls a channel whose connection is gone,    *)
(* and none goes while a handler that called the application for it has to    *)
(* come back to it.                                                           *)
THEOREM ActiveAlwaysAlive == SafeSpec => []ActiveAreAlive
<1>1. IInv => ActiveAreAlive
  <2>. SUFFICES ASSUME IInv, NEW l \in Loops, NEW c \in Conns,
                       c \in active[l] \/ \E i \in DOMAIN calls[l] : calls[l][i].conn = c
                PROVE  Referenced(c)
    BY DEF ActiveAreAlive
  <2>1. Good(Now, c, Gone, Dead) /\ Typed(Now) /\ l \notin Dead
        /\ calls[l] \in Seq(Frames) /\ Now.calls = calls /\ Now.conn = conn
    <3>1. l \notin Dead
      BY EmptySeq DEF IInv, Control, LoopInv, Dead
    <3>. QED BY <3>1 DEF IInv, DataInv, Sound, Typed, Now
  <2>2. Stand(Now, c) /\ Kept(Now, c, Gone) /\ Awaited(Now, c, Dead)
    BY <2>1 DEF Good
  <2>3. conn[c].loop = l /\ Stage(Now, c) \in {"up", "down", "forgotten"}
    <3>1. CASE c \in active[l]
      BY <3>1 DEF IInv, Control, ActiveInv
    <3>2. CASE \E i \in DOMAIN calls[l] : calls[l][i].conn = c
      <4>1. PICK i \in 1 .. Len(calls[l]) : calls[l][i] \in Frames /\ calls[l][i].conn = c
        BY <2>1, <3>2
      <4>2. PICK kind \in Kinds : calls[l][i] = Call(kind, c)
        BY <4>1 DEF Frames, Call
      <4>3. Within(Now, kind, l, c)
        BY <2>1, <4>1, <4>2 DEF Within, In
      <4>4. (IsUp(conn[c]) \/ IsDown(conn[c])) /\ conn[c].loop = l
        BY <2>1, <2>2, <4>3 DEF Stand
      <4>. QED BY <2>1, <2>2, <4>4, StageIs
    <3>. QED BY <3>1, <3>2
  <2>4. CASE Stage(Now, c) \in {"up", "down"}
    <3>1. Gone => Stage(Now, c) # "up"
      BY <2>1, <2>3 DEF IInv, Control, GoneInv
    <3>2. c \in connections
      BY <2>2, <2>4, <3>1, StageIs DEF Kept, Now
    <3>. QED BY <3>2 DEF Referenced
  <2>5. CASE Stage(Now, c) = "forgotten"
    <3>1. IsDown(Now.conn[c]) /\ c \notin Now.connections
      BY <2>2, <2>5, StageIs
    <3>2. ~Told(Now, l, c)
      <4>1. ~Gone => ~Told(Now, l, c)
        BY <2>1, <2>2, <2>3, <3>1 DEF Kept, Now
      <4>2. Gone => l = Base
        BY <2>1, <2>3, <3>1 DEF IInv, Control, PlaceInv, StopInv, GoneInv, Gone, Dead, IsDown, Now
      <4>3. Gone => ~Told(Now, Base, c)
        BY DEF IInv, Control, GoneInv
      <4>. QED BY <4>1, <4>2, <4>3
    <3>3. PICK k \in Loops, op \in ConnOps : In(Functor(op, c), queue[k])
      BY <2>1, <2>2, <2>3, <3>1, <3>2 DEF Awaited, Pending, Now, Loops, ConnOps
    <3>4. PICK i \in 1 .. Len(queue[k]) : queue[k][i] = Functor(op, c)
      BY <3>3 DEF In
    <3>5. i \in DOMAIN queue[k] /\ queue[k][i].conn = c
      BY <2>1, <3>4 DEF Typed, Now, Functor
    <3>. QED BY <3>5 DEF Referenced
  <2>. QED BY <2>3, <2>4, <2>5
<1>. QED BY <1>1, ServerInvariant, PTL

(* A closed connection is never lost between the loops: while it is not       *)
(* destroyed, its connection handler has to return, or a functor is pending   *)
(* that takes it further, in the queue of a loop that exists, or its own loop *)
(* was destroyed by Stop.                                                     *)
THEOREM ClosedAlwaysAwaited == SafeSpec => []ClosedIsAwaited
<1>1. IInv => ClosedIsAwaited
  <2>. SUFFICES ASSUME IInv, NEW c \in Conns, conn[c].downs > conn[c].destroyed
                PROVE  \/ \E i \in DOMAIN calls[conn[c].loop] : calls[conn[c].loop][i] = Call("down", c)
                       \/ IsQueued("Remove", Base, c) \/ IsQueued("Destroy", conn[c].loop, c)
                       \/ phase[conn[c].loop] = "dead"
    BY DEF ClosedIsAwaited
  <2>1. Typed(Now) /\ Stand(Now, c) /\ Awaited(Now, c, Dead)
    BY DEF IInv, DataInv, Sound, Good
  <2>2. IsDown(conn[c])
    BY <2>1 DEF Stand, Now, IsNew, IsAccepted, IsUp, IsDown, IsDestroyed
  <2>3. Base \in Loops /\ conn[c].loop \in Loops
    BY <2>1 DEF Typed, Now, Records, Loops
  <2>4. \A l \in Loops : DOMAIN queue[l] = 1 .. Len(queue[l]) /\ DOMAIN calls[l] = 1 .. Len(calls[l])
    BY <2>1 DEF Typed, Now
  <2>5. \A op : \A l \in Loops : Pending(Now, op, l, c) => IsQueued(op, l, c)
    BY <2>4 DEF Pending, In, IsQueued, Now
  <2>6. Told(Now, conn[c].loop, c) =>
          \E i \in DOMAIN calls[conn[c].loop] : calls[conn[c].loop][i] = Call("down", c)
    BY <2>3, <2>4 DEF Told, Within, In, Now
  <2>. QED BY <2>1, <2>2, <2>3, <2>5, <2>6 DEF Awaited, Dead, Now
<1>. QED BY <1>1, ServerInvariant, PTL

(* Without Stop nothing is undefined, and Stop can go wrong in the ways       *)
(* UndefinedOnlyInStop lists and in no other, whatever the application's code *)
(* does to its connections in a handler or elsewhere.                         *)
THEOREM UndefinedAlwaysInStop == SafeSpec => []UndefinedOnlyInStop
<1>1. IInv => UndefinedOnlyInStop
  BY DEF IInv, Control
<1>. QED BY <1>1, ServerInvariant, PTL

(* The server implements ConnectionLife: each connection goes through the     *)
(* stages of its life in their order and through each at most once, and it is *)
(* kept, open and watched exactly when its stage says so.                     *)
THEOREM ServerImplementsLife == SafeSpec => ImplementsConnectionLife
<1>1. Init => Promise!Init
  <2>. SUFFICES ASSUME Init PROVE Promise!Init
    OBVIOUS
  <2>1. \A c \in Conns : Life(c) = "new"
    BY DEF Init, Life
  <2>2. [c \in Conns |-> Life(c)] = [c \in Conns |-> "new"]
    BY <2>1
  <2>3. /\ {c \in Conns : conn[c].state # "kDisconnected"} = {}
        /\ {c \in Conns : conn[c].channel = "kAdded"} = {}
        /\ (stop.at = "gone") = FALSE /\ connections = {}
    BY DEF Init
  <2>. QED BY <2>2, <2>3 DEF Promise!Init
<1>2. IInv /\ IInv' /\ [Next]_vars => [Promise!Next]_(Promise!lifeVars)
  BY EveryStep, LifeStep
<1>. QED BY <1>1, <1>2, ServerInvariant, PTL DEF SafeSpec, ImplementsConnectionLife, Promise!Spec
=============================================================================
