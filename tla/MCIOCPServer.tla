---------------------------- MODULE MCIOCPServer ----------------------------
(***************************************************************************)
(* IOCPServer for two workers and a few buffers, sockets and keys, which    *)
(* are interchangeable.  The invariants say nothing of a server that is not *)
(* Intact, and it never is again: runs that check them stop there with      *)
(* CONSTRAINT Intact.                                                       *)
(***************************************************************************)
EXTENDS IOCPServer, TLC

ServerSymmetry == Permutations(Threads) \cup Permutations(Buffers)
                    \cup Permutations(Keys) \cup Permutations(Sockets)

=============================================================================
