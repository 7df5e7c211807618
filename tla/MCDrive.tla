------------------------------ MODULE MCDrive ------------------------------
(* A drive with cartridges of each kind. *)
EXTENDS DriveProps
CONSTANTS d1, d2, w, k, o
DataOnes == {d1, d2}
ReadOnlyOnes == {d2}
WormOnes == {w}
CleanOnes == {k}
OddOnes == {o}
=============================================================================
