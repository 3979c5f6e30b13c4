--------------------------- MODULE MCGuestRooms ---------------------------
(* One guest room, two guests, one slot for calls, one rotation of its name. *)
EXTENDS GuestRooms

CONSTANTS a, b, r1
=============================================================================
