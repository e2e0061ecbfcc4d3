--------------------------- MODULE MCEpollService ---------------------------
(***************************************************************************)
(* Three workers are configured, so that a grandchild of the caller forks   *)
(* a process of its own, and one signal interrupts one wait.                *)
(***************************************************************************)
EXTENDS EpollService

=============================================================================
