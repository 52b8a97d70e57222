-------------------------- MODULE MCTwoPhaseBooking --------------------------
(* Small instances of TwoPhaseBooking. *)
EXTENDS TwoPhaseBooking, BookingInstances

=============================================================================
