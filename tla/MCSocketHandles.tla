--------------------------- MODULE MCSocketHandles ---------------------------
(***************************************************************************)
(* SocketHandles with a few objects and fewer handle values, so that both   *)
(* are reused and WSASocket may fail.                                       *)
(***************************************************************************)
EXTENDS SocketHandles, TLC

HandleSymmetry == Permutations(Sockets) \cup Permutations(Handles)

=============================================================================
