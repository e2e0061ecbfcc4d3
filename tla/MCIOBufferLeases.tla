-------------------------- MODULE MCIOBufferLeases --------------------------
(***************************************************************************)
(* IOBufferLeases on a heap of a few addresses.                             *)
(***************************************************************************)
EXTENDS IOBufferLeases, TLC

BufferSymmetry == Permutations(Buffers)

=============================================================================
