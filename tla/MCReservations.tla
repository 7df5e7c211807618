--------------------------- MODULE MCReservations ---------------------------
(* Three hosts that reserve a drive, by fair means and others. *)
EXTENDS ReservationsProps, TLC
CONSTANTS a, b, c
HostSet == {a, b, c}
Others == {5}
HostSymmetry == Permutations(HostSet)
=============================================================================
