--------------------------- MODULE PresenceProps ---------------------------
(* What the daemons' bookkeeping must keep while they come, go and die. *)
EXTENDS Presence

Places == {"down", "lock", "queue", "count", "tired", "increment", "incremented", "run",
           "remove", "uncount", "tired out", "decrement", "last", "decremented", "unlock"}

\* Every variable has its type: the places of main() and what it shares.
TypeOK ==
    /\ pc \in [Procs -> Places]
    /\ lock \subseteq Minors /\ devp \subseteq Minors
    /\ sem \in Nat /\ count \in Nat /\ queue \in BOOLEAN
    /\ base \in [Procs -> Nat] /\ opened \subseteq Procs
    /\ child \in [Procs -> {"none", "forked", "done"}]
    /\ starts \in 0 .. MaxStarts /\ deaths \in 0 .. MaxDeaths
    /\ counted \subseteq Procs /\ uncounted \in Nat /\ gaveUp \in BOOLEAN

\* Between the lock and its release.
Holding(p) ==
    \/ pc[p] \in Places \ {"down", "lock", "queue"}
    \/ pc[p] = "queue" /\ MinorOf[p] \notin Library

\* A minor number is served by one process at a time, whatever died before.
OneServer ==
    \A p, q \in Procs : (Holding(p) /\ Holding(q) /\ MinorOf[p] = MinorOf[q]) => p = q

\* The count is that of the daemons, and of those that died in it: the queue is never
\* removed under a running daemon, unless someone gave up waiting for the semaphore.
CountTrue == ~gaveUp => count = Cardinality(counted) + uncounted

\* A running daemon whose child has come back has a logical unit to serve: nothing
\* an earlier daemon of that minor or its child still does takes it away.
Served ==
    \A p \in Procs : (pc[p] = "run" /\ child[p] = "done") => MinorOf[p] \in devp

\* A daemon that starts or exits gets there although the holder of the semaphore may
\* have died; one whose queue was removed comes back to the queue of the others.
Arrives ==
    \A p \in Procs :
        /\ (pc[p] \notin {"down", "run"}) ~> (pc[p] \in {"down", "run"})
        /\ (pc[p] = "run") ~> (pc[p] # "run" \/ p \in opened)
=============================================================================
