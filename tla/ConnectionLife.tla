---------------------------- MODULE ConnectionLife ----------------------------
(***************************************************************************)
(* What TcpServer promises of the connections it accepts.  A connection is *)
(* accepted, goes up, goes down, is forgotten by the server and is         *)
(* destroyed, in this order and each at most once, whatever closes it and  *)
(* on whichever loop it lives.  The server keeps a connection from accept  *)
(* until it forgets it, and exactly the connections that are up are open   *)
(* (not kDisconnected) and watched by an epoll.                            *)
(* A step takes one connection one stage further, and to destroy one is a  *)
(* step of its own: never part of a handler, which may be the connection's.*)
(***************************************************************************)
EXTENDS Naturals

CONSTANT Conns

VARIABLES
  life,      (* the stage each connection is in                  *)
  kept,      (* the connections the server keeps                 *)
  open,      (* those that are not kDisconnected                 *)
  watched,   (* those whose channel an epoll watches             *)
  gone       (* the server was destroyed                         *)

lifeVars == <<life, kept, open, watched, gone>>

(* A connection of the base loop goes up as it is accepted, and one of      *)
(* another loop later.                                                      *)
Follows == {<<"new", "accepted">>, <<"new", "up">>, <<"accepted", "up">>, <<"up", "down">>,
            <<"down", "forgotten">>, <<"forgotten", "destroyed">>}

(* The other three follow from the stages. *)
Agree(stages, isGone) ==
  /\ kept' = {c \in Conns : ~isGone /\ stages[c] \in {"accepted", "up", "down"}}
  /\ open' = {c \in Conns : stages[c] = "up"}
  /\ watched' = open'

Init ==
  /\ life = [c \in Conns |-> "new"]
  /\ kept = {} /\ open = {} /\ watched = {} /\ gone = FALSE

(* A connection gets further; once the server is gone, only to its end. *)
Advance(c) ==
  \E stage \in {"accepted", "up", "down", "forgotten", "destroyed"} :
    /\ <<life[c], stage>> \in Follows
    /\ gone => stage = "destroyed"
    /\ life' = [life EXCEPT ![c] = stage]
    /\ Agree(life', gone) /\ UNCHANGED gone

(* The server goes, and forgets all: what was up stays so, and nothing more *)
(* happens to it.                                                           *)
Vanish ==
  /\ ~gone /\ gone'
  /\ life' = [c \in Conns |-> IF life[c] = "down" THEN "forgotten" ELSE life[c]]
  /\ Agree(life', TRUE)

Next == Vanish \/ \E c \in Conns : Advance(c)

Spec == Init /\ [][Next]_lifeVars
=============================================================================
