--------------------------- MODULE MCSelectServer ---------------------------
(***************************************************************************)
(* SelectServer for two clients and two handle values, so that values are    *)
(* used again and accept can find none left.                                *)
(***************************************************************************)
EXTENDS SelectServer

\* Selected does what SelectSeq does, on all short sequences.
ASSUME SelectedIsSelectSeq ==
    \A n \in 0..4 : \A seq \in [1..n -> 1..3] : \A S \in SUBSET (1..3) :
        Selected(seq, S) = SelectSeq(seq, LAMBDA x : x \in S)

=============================================================================
