--------------------------- MODULE MCObservation ---------------------------
(* Two permits and as many buffer sets: a third request waits for an answer. *)
EXTENDS ObservationQueue

=============================================================================
