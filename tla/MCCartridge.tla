----------------------------- MODULE MCCartridge -----------------------------
\* TLC instances of the cartridge store.
EXTENDS CartridgeProps, TLC

\* The payloads are interchangeable: no handler looks into a block.
PayloadSymmetry == Permutations(Vals)

\* Nothing is claimed of a partition once load_partition() has called it corrupt.
NoneSuspect == suspect = {}

\* Nor after two failures, unless both are of the kinds that do no lasting harm.
WithinClaims == NoneSuspect /\ (OnlySafeFaults \/ OneFailure)

==============================================================================
