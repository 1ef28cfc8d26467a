--------------------------- MODULE MCTcpConnection ---------------------------
(***************************************************************************)
(* Messages of two units and a send buffer of two: a message fits, fits in *)
(* part or not at all, and two of them make a MsgBuffer of three grow.     *)
(***************************************************************************)
EXTENDS TcpConnection, TLC

Symmetry == Permutations(Msgs)
=============================================================================
