--------------------------- MODULE MCIOCPCollector ---------------------------
(***************************************************************************)
(* IOCPCollector with the symmetry of MCIOCPServer.                         *)
(***************************************************************************)
EXTENDS IOCPCollector, TLC

ServerSymmetry == Permutations(Threads) \cup Permutations(Buffers)
                    \cup Permutations(Keys) \cup Permutations(Sockets)

=============================================================================
