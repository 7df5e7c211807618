------------------------------ MODULE MCUpdate ------------------------------
(* Cartridges of every format, updated with failures, a crash and another
   cartridge in between. *)
EXTENDS UpdateProps

AllFormats == 3 .. 6
=============================================================================
