------------------------- MODULE ReservationsProps -------------------------
(* What hosts may rely on when they reserve a drive. *)
EXTENDS Reservations

\* Every variable has its type: the globals of spc.c.
TypeOK ==
    /\ key \in Keys /\ type \in {0} \cup Types /\ gen \in Nat
    /\ spc2 \in BOOLEAN /\ reset \in BOOLEAN /\ starts \in Nat
    /\ holds \subseteq Hosts /\ robbed \subseteq Hosts /\ zeroed \in BOOLEAN
    /\ seen \in [Hosts -> [gen : Nat, key : Keys, known : BOOLEAN]]

\* The two kinds of reservation exclude each other, and a reservation has an owner
\* who can release it, unless a PREEMPT gave this one to the key zero and no host has
\* registered since.
Consistent ==
    /\ spc2 => key = None /\ type = 0
    /\ (type # 0 /\ ~zeroed) => key # None

\* Who was told that it has the reservation has it, until another host takes it by
\* PREEMPT or by REGISTER AND IGNORE, or the daemon restarts: what other hosts may do
\* with their own keys does not release or move it.
OwnReservation == \A h \in holds \ robbed : key = h /\ type # 0

\* A host that reads the generation it has read before can rely on the key it has
\* seen then, as long as the daemon runs: every change of registration counts.
GenerationTells ==
    \A h \in Hosts : (seen[h].known /\ seen[h].gen = gen) => seen[h].key = key
=============================================================================
