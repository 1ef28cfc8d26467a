----------------------------- MODULE MCTcpServer -----------------------------
(***************************************************************************)
(* Two connections, so that one handler can close the connection whose     *)
(* event is next, with no group or with one of up to two loops.  The       *)
(* application keeps pointers to one of them only, so the two are not      *)
(* symmetric.                                                              *)
(***************************************************************************)
EXTENDS TcpServer

CONSTANTS io1, io2

TwoLoops == <<io1, io2>>
=============================================================================
