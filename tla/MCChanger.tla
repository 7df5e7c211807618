----------------------------- MODULE MCChanger -----------------------------
(***************************************************************************)
(* Instances of Changer for TLC: a storage slot, an import/export element, *)
(* two drives, two cartridges.                                             *)
(***************************************************************************)
EXTENDS ChangerProps

CONSTANTS s1, m1, d1, d2, c1, c2

\* One cartridge starts in the slot, the other in the import/export element:
\* the library can be full but for its drives.
BothHome == [e \in {s1, m1} |-> IF e = s1 THEN c1 ELSE c2]

CONSTANT MaxMishaps

\* Behaviours are followed until more than MaxMishaps things went wrong.
FewMishaps ==
    mishaps["crossed"] + mishaps["drive"] + mishaps["library"] <= MaxMishaps

\* Drive d2 does not take cartridge c2.
OneRefused == {<<d2, c2>>}

=============================================================================
