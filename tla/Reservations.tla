---------------------------- MODULE Reservations ----------------------------
(***************************************************************************)
(* Reservations of a tape drive: PERSISTENT RESERVE OUT and IN (spc.c),    *)
(* RESERVE and RELEASE of SPC-2, and the unit attention after a start      *)
(* (ssc.c, vtltape.c).  One key is registered at a time and a command      *)
(* carries no initiator, so a host is known by the key it gives.           *)
(*                                                                         *)
(* A host gives its own key or zero as its key.  A parameter list of       *)
(* another length, REGISTER AND MOVE and unknown service actions change    *)
(* nothing and are left out.                                               *)
(***************************************************************************)
EXTENDS Naturals

CONSTANTS
    Hosts,      \* a host stands for its key
    None,       \* the key zero
    Exclusive,  \* SPR_EXCLUSIVE_ACCESS
    OtherTypes, \* the other types a command may carry
    MaxGen,     \* bound: changes of registration between two starts
    MaxStarts   \* bound: restarts of the daemon

Types == {Exclusive} \cup OtherTypes
Keys  == Hosts \cup {None}

ASSUME ReservationsAssumption ==
    /\ None \notin Hosts /\ Types \subseteq Nat \ {0}
    /\ MaxGen \in Nat /\ MaxStarts \in Nat

VARIABLES
    key,        \* SPR_Reservation_Key
    type,       \* SPR_Reservation_Type, 0 if there is no reservation
    gen,        \* SPR_Reservation_Generation
    spc2,       \* I_am_SPC_2_Reserved
    reset,      \* reset: the unit attention to be reported
    starts,
    holds,      \* history: the hosts told that they have the reservation
    robbed,     \* history: those that lost it by another's force, or a restart
    seen,       \* history: host -> the generation and key it last read
    zeroed      \* history: a PREEMPT left the present reservation with the key zero

state   == <<key, type, gen, spc2>>
history == <<holds, robbed, seen, zeroed>>
vars    == <<state, reset, starts, history>>

NotSeen == [gen |-> 0, key |-> None, known |-> FALSE]

\* check_reset(): the first host with any command is told, and only that one.
UnitAttention(h) ==
    /\ reset /\ reset' = FALSE
    /\ holds' = holds \ {h} /\ robbed' = robbed \ {h}
    /\ UNCHANGED <<state, starts, seen, zeroed>>

\* A PERSISTENT RESERVE command gets to spc.c.
Ready == ~reset /\ ~spc2 /\ gen < MaxGen

\* The key of the command is the one registered.
AnyOwner(rk) == key # None
Owner(rk)    == key # None /\ rk = key

(* PERSISTENT RESERVE OUT **************************************************)

Uncounted(g) == g
Counted(g)   == g + 1

\* REGISTER: as the first, or for the key registered.  A key of zero unregisters.
Register(h, rk, sark) ==
    /\ Ready
    /\ Owner(rk) \/ (key = None /\ rk = None)
    /\ key' = sark
    /\ type' = IF key # None /\ sark = None THEN 0 ELSE type
    /\ gen' = Counted(gen)
    /\ holds' = IF sark = None THEN holds \ {h} ELSE holds
    /\ zeroed' = (zeroed /\ sark = None)
    /\ UNCHANGED <<spc2, reset, starts, robbed, seen>>

Reserve(h, rk) ==
    /\ Ready /\ Owner(rk)
    /\ type' = Exclusive
    /\ holds' = holds \cup {h} /\ robbed' = robbed \ {h}
    /\ UNCHANGED <<key, gen, spc2, reset, starts, seen, zeroed>>

Release(h, rk) ==
    /\ Ready /\ Owner(rk)
    /\ type' = 0
    /\ holds' = holds \ {h}
    /\ UNCHANGED <<key, gen, spc2, reset, starts, robbed, seen, zeroed>>

Clear(h, rk) ==
    /\ Ready /\ Owner(rk)
    /\ key' = None /\ type' = 0
    /\ gen' = Counted(gen)
    /\ holds' = holds \ {h}
    /\ UNCHANGED <<spc2, reset, starts, robbed, seen, zeroed>>

\* PREEMPT and PREEMPT AND ABORT.  rk need not be registered; with a reservation the
\* type is taken as it comes, without one the key is removed.  A sark that is not
\* the key is answered GOOD and changes nothing, as all
\* else that is answered with a conflict.
Preempt(h, rk, sark, t) ==
    /\ Ready /\ (key # None \/ rk # None \/ sark # None)
    /\ sark = key
    /\ key' = IF type # 0 THEN rk ELSE None
    /\ type' = IF type # 0 THEN t ELSE type
    /\ gen' = Counted(gen)
    /\ robbed' = robbed \cup (holds \cap {key})
    /\ zeroed' = (type # 0 /\ t # 0 /\ rk = None)
    /\ UNCHANGED <<spc2, reset, starts, holds, seen>>

\* REGISTER AND IGNORE EXISTING KEY: an existing reservation goes with the key.
RegisterAndIgnore(h, sark) ==
    /\ Ready
    /\ key' = sark
    /\ type' = IF key # None /\ sark = None THEN 0 ELSE type
    /\ gen' = Counted(gen)
    /\ robbed' = robbed \cup (holds \cap ({key} \ {sark}))
    /\ zeroed' = (zeroed /\ sark = None)
    /\ UNCHANGED <<spc2, reset, starts, holds, seen>>

(* PERSISTENT RESERVE IN ***************************************************)

ReadKeys(h) ==
    /\ Ready
    /\ seen' = [seen EXCEPT ![h] = [gen |-> gen, key |-> key, known |-> TRUE]]
    /\ UNCHANGED <<state, reset, starts, holds, robbed, zeroed>>

ReadReservation(h) ==
    /\ Ready
    /\ robbed' = robbed \ {h}
    /\ holds' = IF key = h /\ type # 0 THEN holds \cup {h} ELSE holds \ {h}
    /\ UNCHANGED <<state, reset, starts, seen, zeroed>>

(* RESERVE and RELEASE of SPC-2 ********************************************)

NotReserved == type = 0
Nobody      == type = 0 /\ key = None

\* With a reservation in place RESERVE is answered GOOD, and does nothing.
Spc2Reserve(h) ==
    /\ ~reset /\ Nobody /\ spc2' = TRUE
    /\ UNCHANGED <<key, type, gen, reset, starts, history>>

Spc2Release(h) ==
    /\ ~reset /\ (type # 0 \/ key = None) /\ spc2' = FALSE
    /\ UNCHANGED <<key, type, gen, reset, starts, history>>

(* The daemon starts again *************************************************)

Restart ==
    /\ starts < MaxStarts /\ starts' = starts + 1
    /\ key' = None /\ type' = 0 /\ gen' = 0 /\ spc2' = FALSE /\ reset' = TRUE
    /\ robbed' = robbed \cup holds
    /\ seen' = [h \in Hosts |-> NotSeen]
    /\ zeroed' = FALSE
    /\ UNCHANGED holds

Init ==
    /\ key = None /\ type = 0 /\ gen = 0 /\ spc2 = FALSE /\ reset = TRUE /\ starts = 0
    /\ holds = {} /\ robbed = {} /\ seen = [h \in Hosts |-> NotSeen] /\ zeroed = FALSE

Out(h) ==
    \/ \E rk, sark \in {h, None} : Register(h, rk, sark)
    \/ \E rk \in {h, None} : Reserve(h, rk) \/ Release(h, rk) \/ Clear(h, rk)
    \/ \E rk \in {h, None}, sark \in Keys, t \in {0} \cup Types : Preempt(h, rk, sark, t)
    \/ \E sark \in {h, None} : RegisterAndIgnore(h, sark)

Next ==
    \/ \E h \in Hosts :
          Out(h) \/ ReadKeys(h) \/ ReadReservation(h) \/ Spc2Reserve(h) \/ Spc2Release(h)
              \/ UnitAttention(h)
    \/ Restart

Spec == Init /\ [][Next]_vars
=============================================================================
