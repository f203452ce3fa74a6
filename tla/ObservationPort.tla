--------------------------- MODULE ObservationPort ---------------------------
(***************************************************************************)
(* What the observation queue promises its one caller: at most Capacity    *)
(* requests outstanding, answered one by one in the order of admission.    *)
(* Requests are lost only when the worker is broken, by a panic or because *)
(* the queue was closed; a replacement starts with nothing outstanding.    *)
(***************************************************************************)
EXTENDS Naturals, Sequences

CONSTANTS Requests, Capacity

VARIABLES outstanding, broken

Init == outstanding = <<>> /\ broken = FALSE

Admit(r) ==
    /\ Len(outstanding) < Capacity
    /\ outstanding' = Append(outstanding, r)
    /\ UNCHANGED broken

Answer ==
    /\ outstanding # <<>>
    /\ outstanding' = Tail(outstanding)
    /\ UNCHANGED broken

\* A broken worker leaves some of the answers it had finished, the oldest ones.
Break ==
    /\ broken' = TRUE
    /\ \E n \in 0 .. Len(outstanding) : outstanding' = SubSeq(outstanding, 1, n)

Replace ==
    /\ outstanding = <<>>
    /\ broken' = FALSE
    /\ UNCHANGED outstanding

Next == (\E r \in Requests : Admit(r)) \/ Answer \/ Break \/ Replace

Spec == Init /\ [][Next]_<<outstanding, broken>>

=============================================================================
