------------------------ MODULE MCReservationLease ------------------------
(* Small instances of the reservation lease.  The clocks keep the order of *)
(* the real ones: two refresh intervals fit into the engine's timeout, a   *)
(* third does not, and the idle lease is longer than both.                 *)
EXTENDS ReservationLease, TLC

Anyone == Permutations(Clients)

AnyWorld == [anyThread : BOOLEAN, phantoms : BOOLEAN]
===========================================================================
