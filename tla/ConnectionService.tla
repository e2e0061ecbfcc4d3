-------------------------- MODULE ConnectionService --------------------------
(***************************************************************************)
(* What a server promises its clients, whatever loop it is built around:    *)
(* data is taken in order and once, a connection is given up only when its  *)
(* client has left and everything an orderly client sent has been taken,    *)
(* and nothing that was received is thrown away before the server is told   *)
(* to end.  SelectServer is shown to implement this.                        *)
(***************************************************************************)
EXTENDS Naturals

CONSTANTS Clients, MaxChunks

VARIABLES
    sent,       \* how many chunks each client has sent
    taken,      \* how many of them the server has received
    left,       \* how each client has left
    served,     \* the clients the server has accepted and not given up
    dropped,    \* the clients it has given up
    ending,     \* the server has been told to end
    discarded   \* clients of whom received data was thrown away

vars == <<sent, taken, left, served, dropped, ending, discarded>>

Init ==
    /\ sent = [c \in Clients |-> 0]
    /\ taken = [c \in Clients |-> 0]
    /\ left = [c \in Clients |-> "no"]
    /\ served = {}
    /\ dropped = {}
    /\ ending = FALSE
    /\ discarded = {}

Send(c) ==
    /\ left[c] = "no"
    /\ sent[c] < MaxChunks
    /\ sent' = [sent EXCEPT ![c] = @ + 1]
    /\ UNCHANGED <<taken, left, served, dropped, ending, discarded>>

Leave(c, how) ==
    /\ left[c] = "no"
    /\ left' = [left EXCEPT ![c] = how]
    /\ UNCHANGED <<sent, taken, served, dropped, ending, discarded>>

Accept(c) ==
    /\ c \notin served \cup dropped
    /\ served' = served \cup {c}
    /\ UNCHANGED <<sent, taken, left, dropped, ending, discarded>>

Take(c, n) ==
    /\ c \in served
    /\ n <= sent[c] - taken[c]
    /\ taken' = [taken EXCEPT ![c] = @ + n]
    /\ discarded' \in {discarded} \cup
                      (IF ending THEN {discarded \cup {c}} ELSE {})
    /\ UNCHANGED <<sent, left, served, dropped, ending>>

Drop(S) ==
    /\ S \subseteq served
    /\ \A c \in S : \/ left[c] = "reset"
                    \/ left[c] = "closed" /\ taken[c] = sent[c]
    /\ served' = served \ S
    /\ dropped' = dropped \cup S
    /\ UNCHANGED <<sent, taken, left, ending, discarded>>

End ==
    /\ ending' = TRUE
    /\ UNCHANGED <<sent, taken, left, served, dropped, discarded>>

Next ==
    \/ \E c \in Clients :
        \/ Send(c)
        \/ Leave(c, "closed")
        \/ Leave(c, "reset")
        \/ Accept(c)
        \/ \E n \in 1..MaxChunks : Take(c, n)
    \/ \E S \in SUBSET Clients : S # {} /\ Drop(S)
    \/ End

Spec == Init /\ [][Next]_vars

=============================================================================
