----------------------------- MODULE TapeMedium -----------------------------
(***************************************************************************)
(* What a cartridge promises its host: each partition is a log of recorded *)
(* items (data blocks and filemarks) under one head.  Recording happens at *)
(* the end of the log only; recording anywhere else first discards, in one *)
(* step, everything from the head on.  Nothing but recording, discarding   *)
(* at the head and formatting ever changes what is recorded.               *)
(***************************************************************************)
EXTENDS Integers, Sequences

CONSTANTS
    Places,   \* where the head can be: the partitions, and one without files
    Items     \* what can be recorded

VARIABLES
    log,      \* the items of each partition
    at        \* the head: its partition and the number of items before it

vars == <<log, at>>

HeadAt(p, n) == [part |-> p, num |-> n]

TypeOK ==
    /\ log \in [Places -> Seq(Items)]
    /\ at \in [part : Places, num : Nat]

Init ==
    /\ log = [p \in Places |-> << >>]
    /\ \E p \in Places : at = HeadAt(p, 0)

Record(item) ==
    /\ at.num = Len(log[at.part])
    /\ log' = [log EXCEPT ![at.part] = Append(@, item)]
    /\ at'  = [at EXCEPT !.num = @ + 1]

Discard ==
    /\ at.num < Len(log[at.part])
    /\ log' = [log EXCEPT ![at.part] = SubSeq(@, 1, at.num)]
    /\ UNCHANGED at

Reposition(p, n) ==
    /\ n <= Len(log[p])
    /\ at' = HeadAt(p, n)
    /\ UNCHANGED log

Reformat ==
    /\ log' = [p \in Places |-> << >>]
    /\ \E p \in Places : at' = HeadAt(p, 0)

Next ==
    \/ \E item \in Items : Record(item)
    \/ Discard
    \/ \E p \in Places : \E n \in 0 .. Len(log[p]) : Reposition(p, n)
    \/ Reformat

Spec == Init /\ [][Next]_vars

=============================================================================
