------------------------------ MODULE FifoQueue ------------------------------
(***************************************************************************)
(* What a user of ConcurrentQueue is promised: an unbounded first-in       *)
(* first-out queue.  An item is put once, by any thread; the one consumer  *)
(* takes items in the order they were put and takes each of them once.     *)
(* Nothing is said about when a put item becomes visible: Get is merely    *)
(* not delayed for ever.                                                   *)
(***************************************************************************)
EXTENDS Naturals, Sequences

CONSTANT Items    (* the items that can be put *)

VARIABLES
  queue,          (* items put and not yet taken, oldest first *)
  out             (* history: items taken, in order            *)

vars == <<queue, out>>

Init == queue = <<>> /\ out = <<>>

(* Item i was never put before. *)
Fresh(i) == /\ \A k \in DOMAIN queue : queue[k] # i
            /\ \A k \in DOMAIN out : out[k] # i

Put == \E i \in Items : /\ Fresh(i)
                        /\ queue' = Append(queue, i)
                        /\ UNCHANGED out

Get == /\ queue # <<>>
       /\ out' = Append(out, Head(queue))
       /\ queue' = Tail(queue)

Next == Put \/ Get

SafeSpec == Init /\ [][Next]_vars

Spec == SafeSpec /\ WF_vars(Get)
=============================================================================
