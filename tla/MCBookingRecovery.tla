-------------------------- MODULE MCBookingRecovery --------------------------
(* Small instances of BookingRecovery: the background loop and one recovery *)
(* an administrator starts beside it.                                       *)
EXTENDS BookingClaims, BookingInstances

CONSTANTS loop, admin

=============================================================================
