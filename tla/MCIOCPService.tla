---------------------------- MODULE MCIOCPService ----------------------------
(***************************************************************************)
(* IOCPService with three workers and two ordinary completions.             *)
(***************************************************************************)
EXTENDS IOCPService

=============================================================================
