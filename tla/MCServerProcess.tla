--------------------------- MODULE MCServerProcess ---------------------------
(***************************************************************************)
(* ServerProcess with three workers and two ordinary completions.           *)
(***************************************************************************)
EXTENDS ServerProcess

=============================================================================
