---------------------------- MODULE MCVenueLogin ----------------------------
(* Instance of VenueLogin for TLC. *)
EXTENDS VenueLogin
=============================================================================
