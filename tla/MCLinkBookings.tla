---------------------------- MODULE MCLinkBookings ----------------------------
(***************************************************************************)
(* Instances of LinkBookings for TLC.                                      *)
(***************************************************************************)
EXTENDS LinkBookings, TLC

GuestSymmetry == Permutations(Guest)

=============================================================================
