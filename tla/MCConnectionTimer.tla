-------------------------- MODULE MCConnectionTimer --------------------------
(***************************************************************************)
(* ConnectionTimer with two connections and a small limit.                   *)
(***************************************************************************)
EXTENDS ConnectionTimer

=============================================================================
