--------------------------- MODULE PresenceProofs ---------------------------
(***************************************************************************)
(* Proofs about the presence of the daemons: their types, that a minor     *)
(* number has one server and a server its logical unit, and that the count *)
(* is true until someone gives up waiting for the semaphore.               *)
(***************************************************************************)
EXTENDS PresenceProps, FiniteSetTheorems, TLAPS

\* Who is between sem_trywait() and sem_post(), and who is in the count.
Critical(p)  == pc[p] \in {"increment", "incremented", "decrement", "last", "decremented"}
InCount(p)   == pc[p] \in {"incremented", "run", "remove", "uncount", "tired out", "decrement"}

\* Who holds a minor number has its lock file; who has yet to run has no child.
Locked    == \A p \in Procs : Holding(p) => MinorOf[p] \in lock
Childless ==
    \A p \in Procs :
        pc[p] \in {"lock", "queue", "count", "tired", "increment", "incremented"} =>
            child[p] = "none"

\* Until someone gives up, the semaphore lets one process in, which has read
\* the count there is.
Exclusive ==
    ~gaveUp =>
        /\ \A p \in Procs : Critical(p) => sem = 0
        /\ \A p \in Procs : pc[p] \in {"increment", "decrement"} => base[p] = count
        /\ \A p, q \in Procs : Critical(p) /\ Critical(q) => p = q
        /\ sem \in {0, 1}
        /\ \A p \in Procs : p \in counted <=> InCount(p)

Serving == OneServer /\ Locked /\ Childless /\ Served

IInv == TypeOK /\ Serving /\ Exclusive /\ CountTrue

\* The places, and those the end of main() goes through.
LEMMA PlacesThere ==
    /\ {"down", "lock", "queue", "count", "tired"} \subseteq Places
    /\ {"increment", "incremented", "run", "remove", "uncount"} \subseteq Places
    /\ {"tired out", "decrement", "last", "decremented", "unlock"} \subseteq Places
BY DEF Places

LEMMA Exits ==
    /\ ExitStep("run") = "remove" /\ ExitStep("remove") = "uncount"
    /\ ExitStep("uncount") = "unlock" /\ ExitStep("unlock") = "down"
BY DEF ExitStep

\* Nothing runs at the start.
LEMMA InitIInv == Init => IInv
<1> SUFFICES ASSUME Init PROVE IInv
  OBVIOUS
<1> USE PresenceAssumption
<1>1. TypeOK
  <2>1. starts \in 0 .. MaxStarts /\ deaths \in 0 .. MaxDeaths
    BY SMT DEF Init
  <2>2. queue \in BOOLEAN /\ gaveUp \in BOOLEAN
    BY Zenon DEF Init
  <2>3. pc \in [Procs -> Places]
    BY DEF Init, Places
  <2>4. base \in [Procs -> Nat] /\ child \in [Procs -> {"none", "forked", "done"}]
    BY DEF Init
  <2>5. /\ lock \subseteq Minors /\ devp \subseteq Minors /\ opened \subseteq Procs
        /\ counted \subseteq Procs
        /\ sem \in Nat /\ count \in Nat /\ uncounted \in Nat
    BY DEF Init
  <2> QED
    BY <2>1, <2>2, <2>3, <2>4, <2>5, Zenon DEF TypeOK
<1>2. OneServer /\ Locked /\ Childless /\ Served
  BY DEF Init, OneServer, Locked, Childless, Served, Holding
<1>3. Exclusive
  BY DEF Init, Exclusive, Critical, InCount
<1>4. Cardinality({}) = 0
  BY FS_EmptySet
<1>5. CountTrue
  BY <1>4 DEF Init, CountTrue
<1> QED
  BY <1>1, <1>2, <1>3, <1>5 DEF IInv, Serving

\* Every step keeps the types.
LEMMA StepTypeOK == TypeOK /\ [Next]_vars => TypeOK'
<1> SUFFICES ASSUME TypeOK, [Next]_vars PROVE TypeOK'
  OBVIOUS
<1> USE PresenceAssumption DEF TypeOK
<1>1. ASSUME NEW p \in Procs, Start(p) PROVE TypeOK'
  <2>1. pc' \in [Procs -> Places]
    <3>1. \E where \in Places : pc' = [pc EXCEPT ![p] = where]
      BY <1>1, PlacesThere, Exits DEF Start, Goto, At, Reset
    <3> QED
      BY <3>1
  <2>2. /\ lock' \subseteq Minors /\ devp' \subseteq Minors
        /\ sem' \in Nat /\ count' \in Nat /\ base' \in [Procs -> Nat] /\ opened' \subseteq Procs
    BY <1>1 DEF Start, Reset, shared, bounds, history
  <2>3. /\ child' \in [Procs -> {"none", "forked", "done"}]
        /\ starts' \in 0 .. MaxStarts /\ deaths' \in 0 .. MaxDeaths
        /\ counted' \subseteq Procs /\ uncounted' \in Nat
    BY <1>1 DEF Start, Reset, shared, bounds, history
  <2>4. queue' \in BOOLEAN /\ gaveUp' \in BOOLEAN
    BY <1>1, Zenon DEF Start, shared, bounds, history
  <2> QED
    BY <2>1, <2>2, <2>3, <2>4, Zenon
<1>2. ASSUME NEW p \in Procs, Lock(p) PROVE TypeOK'
  BY <1>2, PlacesThere, Exits DEF Lock, Goto, At, Reset, bounds, history
<1>3. ASSUME NEW p \in Procs, Refused(p) PROVE TypeOK'
  BY <1>3, PlacesThere, Exits DEF Refused, Goto, At, Reset, shared, bounds, history
<1>4. ASSUME NEW p \in Procs, Unlock(p) PROVE TypeOK'
  BY <1>4, PlacesThere, Exits DEF Unlock, Goto, At, Reset, bounds, history
<1>5. ASSUME NEW p \in Procs, InitQueue(p) PROVE TypeOK'
  BY <1>5, PlacesThere, Exits DEF InitQueue, Goto, At, Reset, OpenQueue, bounds, history
<1>6. ASSUME NEW p \in Procs, Reopen(p) PROVE TypeOK'
  BY <1>6, PlacesThere, Exits DEF Reopen, Goto, At, Reset, OpenQueue, bounds, history
<1>7. ASSUME NEW p \in Procs, TakeSem(p) PROVE TypeOK'
  <2>1. pc' \in [Procs -> Places]
    <3>1. \E where \in Places : pc' = [pc EXCEPT ![p] = where]
      BY <1>7, PlacesThere, Exits DEF TakeSem, Goto, At, Reset
    <3> QED
      BY <3>1
  <2>2. /\ lock' \subseteq Minors /\ devp' \subseteq Minors
        /\ sem' \in Nat /\ count' \in Nat /\ base' \in [Procs -> Nat] /\ opened' \subseteq Procs
    BY <1>7 DEF TakeSem, Reset, SemFree, bounds, history
  <2>3. /\ child' \in [Procs -> {"none", "forked", "done"}]
        /\ starts' \in 0 .. MaxStarts /\ deaths' \in 0 .. MaxDeaths
        /\ counted' \subseteq Procs /\ uncounted' \in Nat
    BY <1>7 DEF TakeSem, Reset, SemFree, bounds, history
  <2>4. queue' \in BOOLEAN /\ gaveUp' \in BOOLEAN
    BY <1>7, Zenon DEF TakeSem, SemFree, bounds, history
  <2> QED
    BY <2>1, <2>2, <2>3, <2>4, Zenon
<1>8. ASSUME NEW p \in Procs, GiveUp(p) PROVE TypeOK'
  <2>1. pc' \in [Procs -> Places]
    <3>1. \E where \in Places : pc' = [pc EXCEPT ![p] = where]
      BY <1>8, PlacesThere, Exits DEF GiveUp, Goto, At, Reset
    <3> QED
      BY <3>1
  <2>2. /\ lock' \subseteq Minors /\ devp' \subseteq Minors
        /\ sem' \in Nat /\ count' \in Nat /\ base' \in [Procs -> Nat] /\ opened' \subseteq Procs
    <3>1. sem' = sem + 1 /\ UNCHANGED <<lock, devp, count, base, opened>>
      BY <1>8 DEF GiveUp
    <3> QED
      BY <3>1
  <2>3. /\ child' \in [Procs -> {"none", "forked", "done"}]
        /\ starts' \in 0 .. MaxStarts /\ deaths' \in 0 .. MaxDeaths
        /\ counted' \subseteq Procs /\ uncounted' \in Nat
    BY <1>8 DEF GiveUp, Reset, bounds
  <2>4. queue' \in BOOLEAN /\ gaveUp' \in BOOLEAN
    BY <1>8, Zenon DEF GiveUp, bounds
  <2> QED
    BY <2>1, <2>2, <2>3, <2>4, Zenon
<1>9. ASSUME NEW p \in Procs, Increment(p) PROVE TypeOK'
  <2>1. pc' \in [Procs -> Places]
    <3>1. \E where \in Places : pc' = [pc EXCEPT ![p] = where]
      BY <1>9, PlacesThere, Exits DEF Increment, Goto, At, Reset
    <3> QED
      BY <3>1
  <2>2. /\ lock' \subseteq Minors /\ devp' \subseteq Minors
        /\ sem' \in Nat /\ count' \in Nat /\ base' \in [Procs -> Nat] /\ opened' \subseteq Procs
    BY <1>9 DEF Increment, Reset, More, bounds
  <2>3. /\ child' \in [Procs -> {"none", "forked", "done"}]
        /\ starts' \in 0 .. MaxStarts /\ deaths' \in 0 .. MaxDeaths
        /\ counted' \subseteq Procs /\ uncounted' \in Nat
    BY <1>9 DEF Increment, Reset, More, bounds
  <2>4. queue' \in BOOLEAN /\ gaveUp' \in BOOLEAN
    BY <1>9, Zenon DEF Increment, More, bounds
  <2> QED
    BY <2>1, <2>2, <2>3, <2>4, Zenon
<1>10. ASSUME NEW p \in Procs, Decrement(p) PROVE TypeOK'
  <2>1. pc' \in [Procs -> Places]
    <3>1. \E where \in Places : pc' = [pc EXCEPT ![p] = where]
      BY <1>10, PlacesThere, Exits DEF Decrement, Goto, At, Reset
    <3> QED
      BY <3>1
  <2>2. /\ lock' \subseteq Minors /\ devp' \subseteq Minors
        /\ sem' \in Nat /\ count' \in Nat /\ base' \in [Procs -> Nat] /\ opened' \subseteq Procs
    BY <1>10 DEF Decrement, Reset, Less, bounds
  <2>3. /\ child' \in [Procs -> {"none", "forked", "done"}]
        /\ starts' \in 0 .. MaxStarts /\ deaths' \in 0 .. MaxDeaths
        /\ counted' \subseteq Procs /\ uncounted' \in Nat
    BY <1>10 DEF Decrement, Reset, Less, bounds
  <2>4. queue' \in BOOLEAN /\ gaveUp' \in BOOLEAN
    BY <1>10, Zenon DEF Decrement, Less, bounds
  <2> QED
    BY <2>1, <2>2, <2>3, <2>4, Zenon
<1>11. ASSUME NEW p \in Procs, ForkChild(p) PROVE TypeOK'
  BY <1>11, PlacesThere, Exits DEF ForkChild, Goto, At, Reset, shared, bounds, history
<1>12. ASSUME NEW p \in Procs, RemoveLu(p) PROVE TypeOK'
  BY <1>12, PlacesThere, Exits DEF RemoveLu, Goto, At, Reset, bounds, history
<1>13. ASSUME NEW p \in Procs, AddDevice(p) PROVE TypeOK'
  BY <1>13, PlacesThere, Exits DEF AddDevice, Goto, At, Reset, bounds, history
<1>14. ASSUME NEW p \in Procs, Exit(p) PROVE TypeOK'
  BY <1>14, PlacesThere, Exits DEF Exit, Goto, At, Reset, shared, bounds, history
<1>15. ASSUME NEW p \in Procs, Die(p) PROVE TypeOK'
  <2>1. pc' \in [Procs -> Places]
    <3>1. \E where \in Places : pc' = [pc EXCEPT ![p] = where]
      BY <1>15, PlacesThere, Exits DEF Die, Goto, At, Reset
    <3> QED
      BY <3>1
  <2>2. /\ lock' \subseteq Minors /\ devp' \subseteq Minors
        /\ sem' \in Nat /\ count' \in Nat /\ base' \in [Procs -> Nat] /\ opened' \subseteq Procs
    BY <1>15 DEF Die, Reset, shared
  <2>3. /\ child' \in [Procs -> {"none", "forked", "done"}]
        /\ starts' \in 0 .. MaxStarts /\ deaths' \in 0 .. MaxDeaths
        /\ counted' \subseteq Procs /\ uncounted' \in Nat
    BY <1>15 DEF Die, Reset, shared
  <2>4. queue' \in BOOLEAN /\ gaveUp' \in BOOLEAN
    BY <1>15, Zenon DEF Die, shared
  <2> QED
    BY <2>1, <2>2, <2>3, <2>4, Zenon
<1>16. ASSUME NEW m \in Minors, ClearLock(m) PROVE TypeOK'
  BY <1>16, PlacesThere, Exits DEF ClearLock, Goto, At, Reset, bounds, history
<1>17. ASSUME NEW p \in Procs, LastTry(p) PROVE TypeOK'
  BY <1>17, PlacesThere, Exits DEF LastTry, Goto, At, Reset, shared, bounds, history
<1>18. ASSUME NEW p \in Procs, RemoveQueue(p) PROVE TypeOK'
  BY <1>18, PlacesThere, Exits DEF RemoveQueue, Goto, At, Reset, bounds, history
<1>19. ASSUME NEW p \in Procs, Post(p) PROVE TypeOK'
  <2>1. pc' \in [Procs -> Places]
    <3>1. \E where \in Places : pc' = [pc EXCEPT ![p] = where]
      BY <1>19, PlacesThere, Exits DEF Post, Goto, At, Reset
    <3> QED
      BY <3>1
  <2>2. /\ lock' \subseteq Minors /\ devp' \subseteq Minors
        /\ sem' \in Nat /\ count' \in Nat /\ base' \in [Procs -> Nat] /\ opened' \subseteq Procs
    BY <1>19 DEF Post, Reset, bounds, history
  <2>3. /\ child' \in [Procs -> {"none", "forked", "done"}]
        /\ starts' \in 0 .. MaxStarts /\ deaths' \in 0 .. MaxDeaths
        /\ counted' \subseteq Procs /\ uncounted' \in Nat
    BY <1>19 DEF Post, Reset, bounds, history
  <2>4. queue' \in BOOLEAN /\ gaveUp' \in BOOLEAN
    BY <1>19, Zenon DEF Post, bounds, history
  <2> QED
    BY <2>1, <2>2, <2>3, <2>4, Zenon
<1>20. CASE UNCHANGED vars
  BY <1>20 DEF vars, shared, bounds, history
<1> QED
  BY <1>1, <1>2, <1>3, <1>4, <1>5, <1>6, <1>7, <1>8, <1>9, <1>10, <1>11, <1>12,
     <1>13, <1>14, <1>15, <1>16, <1>17, <1>18, <1>19, <1>20 DEF Next, Step

-----------------------------------------------------------------------------
(* One server *)

\* The places of main() between the lock and its release, for the two kinds of
\* daemon, follow one another.
LEMMA StepServing == TypeOK /\ Serving /\ [Next]_vars => Serving'
<1> SUFFICES ASSUME TypeOK, Serving, [Next]_vars PROVE Serving'
  OBVIOUS
<1> USE PresenceAssumption, Exits
    DEF TypeOK, Serving, OneServer, Locked, Childless, Served, Holding, Goto, At
<1>1. ASSUME NEW p \in Procs, Start(p) PROVE Serving'
  BY <1>1 DEF Start, shared
<1>2. ASSUME NEW p \in Procs, Lock(p) PROVE Serving'
  BY <1>2 DEF Lock, Lockable
<1>3. ASSUME NEW p \in Procs, Refused(p) PROVE Serving'
  BY <1>3 DEF Refused, shared
<1>4. ASSUME NEW p \in Procs, Unlock(p) PROVE Serving'
  BY <1>4 DEF Unlock
<1>5. ASSUME NEW p \in Procs, InitQueue(p) PROVE Serving'
  BY <1>5 DEF InitQueue
<1>6. ASSUME NEW p \in Procs, Reopen(p) PROVE Serving'
  BY <1>6 DEF Reopen
<1>7. ASSUME NEW p \in Procs, TakeSem(p) PROVE Serving'
  BY <1>7 DEF TakeSem
<1>8. ASSUME NEW p \in Procs, GiveUp(p) PROVE Serving'
  BY <1>8 DEF GiveUp
<1>9. ASSUME NEW p \in Procs, Increment(p) PROVE Serving'
  BY <1>9 DEF Increment
<1>10. ASSUME NEW p \in Procs, Decrement(p) PROVE Serving'
  BY <1>10 DEF Decrement
<1>11. ASSUME NEW p \in Procs, ForkChild(p) PROVE Serving'
  BY <1>11 DEF ForkChild, shared
<1>12. ASSUME NEW p \in Procs, RemoveLu(p) PROVE Serving'
  BY <1>12 DEF RemoveLu
<1>13. ASSUME NEW p \in Procs, AddDevice(p) PROVE Serving'
  BY <1>13 DEF AddDevice
<1>14. ASSUME NEW p \in Procs, Exit(p) PROVE Serving'
  BY <1>14 DEF Exit, shared
<1>15. ASSUME NEW p \in Procs, Die(p) PROVE Serving'
  BY <1>15 DEF Die, shared
<1>16. ASSUME NEW m \in Minors, ClearLock(m) PROVE Serving'
  BY <1>16 DEF ClearLock, Live
<1>17. ASSUME NEW p \in Procs, LastTry(p) PROVE Serving'
  BY <1>17 DEF LastTry, shared
<1>18. ASSUME NEW p \in Procs, RemoveQueue(p) PROVE Serving'
  BY <1>18 DEF RemoveQueue
<1>19. ASSUME NEW p \in Procs, Post(p) PROVE Serving'
  BY <1>19 DEF Post
<1>20. CASE UNCHANGED vars
  BY <1>20 DEF vars, shared
<1> QED
  BY <1>1, <1>2, <1>3, <1>4, <1>5, <1>6, <1>7, <1>8, <1>9, <1>10, <1>11, <1>12,
     <1>13, <1>14, <1>15, <1>16, <1>17, <1>18, <1>19, <1>20 DEF Next, Step

-----------------------------------------------------------------------------
(* The count *)

\* sem_trywait() lets a process in only when there is none inside.
LEMMA TakeSemExclusive ==
    ASSUME TypeOK, Exclusive, NEW p \in Procs, TakeSem(p)
    PROVE  Exclusive'
<1> SUFFICES ASSUME ~gaveUp' PROVE Exclusive'
  BY DEF Exclusive
<1>1. /\ pc[p] \in {"count", "uncount"} /\ sem > 0 /\ sem' = sem - 1
      /\ base' = [base EXCEPT ![p] = count] /\ UNCHANGED <<count, counted, gaveUp>>
      /\ pc' = [pc EXCEPT ![p] = IF pc[p] = "count" THEN "increment" ELSE "decrement"]
  BY DEF TakeSem, SemFree, Goto, At, history
<1>2. /\ sem \in {0, 1} /\ \A q \in Procs : Critical(q) => sem = 0
      /\ \A q \in Procs : q \in counted <=> InCount(q)
  BY <1>1 DEF Exclusive
<1>3. sem = 1 /\ sem' = 0
  BY <1>1, <1>2
<1>4. \A q \in Procs : ~Critical(q)
  BY <1>2, <1>3
<1>5. /\ pc'[p] = IF pc[p] = "count" THEN "increment" ELSE "decrement"
      /\ \A q \in Procs \ {p} : pc'[q] = pc[q]
      /\ base'[p] = count'
  BY <1>1 DEF TypeOK
<1>6. \A q \in Procs : Critical(q)' => q = p
  BY <1>4, <1>5 DEF Critical
<1>7. \A q \in Procs : q \in counted' <=> InCount(q)'
  <2>1. InCount(p)' <=> InCount(p)
    <3>1. CASE pc[p] = "count"
      <4>1. pc'[p] = "increment"
        BY <1>5, <3>1
      <4> QED
        BY <3>1, <4>1 DEF InCount
    <3>2. CASE pc[p] = "uncount"
      <4>1. pc'[p] = "decrement"
        BY <1>5, <3>2
      <4> QED
        BY <3>2, <4>1 DEF InCount
    <3> QED
      BY <1>1, <3>1, <3>2
  <2>2. \A q \in Procs \ {p} : InCount(q)' <=> InCount(q)
    BY <1>5 DEF InCount
  <2>3. counted' = counted
    BY <1>1
  <2> QED
    BY <1>2, <2>1, <2>2, <2>3, Zenon
<1>8. \A q \in Procs : pc'[q] \in {"increment", "decrement"} => base'[q] = count'
  BY <1>5, <1>6 DEF Critical
<1> QED
  BY <1>3, <1>6, <1>7, <1>8 DEF Exclusive

\* sem_post() by the one inside leaves nobody inside.
LEMMA PostExclusive ==
    ASSUME TypeOK, Exclusive, NEW p \in Procs, Post(p)
    PROVE  Exclusive'
<1> SUFFICES ASSUME ~gaveUp' PROVE Exclusive'
  BY DEF Exclusive
<1>1. /\ pc[p] \in {"incremented", "decremented"} /\ sem' = sem + 1
      /\ UNCHANGED <<base, count, counted, gaveUp>>
      /\ pc' = [pc EXCEPT ![p] = IF pc[p] = "incremented" THEN "run" ELSE "unlock"]
  BY Exits DEF Post, Goto, At, history
<1>2. /\ \A q \in Procs : Critical(q) => sem = 0
      /\ \A q, r \in Procs : Critical(q) /\ Critical(r) => q = r
      /\ \A q \in Procs : q \in counted <=> InCount(q)
  BY <1>1 DEF Exclusive
<1>3. Critical(p)
  BY <1>1 DEF Critical
<1>4. sem' = 1
  BY <1>1, <1>2, <1>3
<1>5. /\ pc'[p] = IF pc[p] = "incremented" THEN "run" ELSE "unlock"
      /\ \A q \in Procs \ {p} : pc'[q] = pc[q]
  BY <1>1 DEF TypeOK
<1>6. \A q \in Procs : ~Critical(q)'
  <2> SUFFICES ASSUME NEW q \in Procs PROVE ~Critical(q)'
    OBVIOUS
  <2>1. CASE q = p
    BY <1>5, <2>1 DEF Critical
  <2>2. CASE q # p
    BY <1>2, <1>3, <1>5, <2>2 DEF Critical
  <2> QED
    BY <2>1, <2>2
<1>7. \A q \in Procs : q \in counted' <=> InCount(q)'
  <2>1. InCount(p)' <=> InCount(p)
    <3>1. CASE pc[p] = "incremented"
      <4>1. pc'[p] = "run"
        BY <1>5, <3>1
      <4> QED
        BY <3>1, <4>1 DEF InCount
    <3>2. CASE pc[p] = "decremented"
      <4>1. pc'[p] = "unlock"
        BY <1>5, <3>2
      <4> QED
        BY <3>2, <4>1 DEF InCount
    <3> QED
      BY <1>1, <3>1, <3>2
  <2>2. \A q \in Procs \ {p} : InCount(q)' <=> InCount(q)
    BY <1>5 DEF InCount
  <2>3. counted' = counted
    BY <1>1
  <2> QED
    BY <1>2, <2>1, <2>2, <2>3, Zenon
<1> QED
  BY <1>4, <1>6, <1>7 DEF Exclusive, Critical

\* Without a process giving up, the semaphore excludes, and the history of who
\* is counted follows the places of main().
LEMMA StepExclusive == TypeOK /\ Exclusive /\ [Next]_vars => Exclusive'
<1> SUFFICES ASSUME TypeOK, Exclusive, [Next]_vars, ~gaveUp' PROVE Exclusive'
  BY DEF Exclusive
<1> USE PresenceAssumption, Exits
    DEF TypeOK, Exclusive, Critical, InCount, Goto, At, Reset
<1>1. ASSUME NEW p \in Procs, Start(p) PROVE Exclusive'
  BY <1>1 DEF Start, shared, history
<1>2. ASSUME NEW p \in Procs, Lock(p) PROVE Exclusive'
  BY <1>2 DEF Lock, history
<1>3. ASSUME NEW p \in Procs, Refused(p) PROVE Exclusive'
  BY <1>3 DEF Refused, shared, history
<1>4. ASSUME NEW p \in Procs, Unlock(p) PROVE Exclusive'
  BY <1>4 DEF Unlock, history
<1>5. ASSUME NEW p \in Procs, InitQueue(p) PROVE Exclusive'
  BY <1>5 DEF InitQueue, history
<1>6. ASSUME NEW p \in Procs, Reopen(p) PROVE Exclusive'
  BY <1>6 DEF Reopen, history
<1>7. ASSUME NEW p \in Procs, TakeSem(p) PROVE Exclusive'
  BY <1>7, TakeSemExclusive
<1>8. ASSUME NEW p \in Procs, GiveUp(p) PROVE Exclusive'
  BY <1>8 DEF GiveUp
<1>9. ASSUME NEW p \in Procs, Increment(p) PROVE Exclusive'
  BY <1>9 DEF Increment
<1>10. ASSUME NEW p \in Procs, Decrement(p) PROVE Exclusive'
  BY <1>10 DEF Decrement
<1>11. ASSUME NEW p \in Procs, ForkChild(p) PROVE Exclusive'
  BY <1>11 DEF ForkChild, shared, history
<1>12. ASSUME NEW p \in Procs, RemoveLu(p) PROVE Exclusive'
  BY <1>12 DEF RemoveLu, history
<1>13. ASSUME NEW p \in Procs, AddDevice(p) PROVE Exclusive'
  BY <1>13 DEF AddDevice, history
<1>14. ASSUME NEW p \in Procs, Exit(p) PROVE Exclusive'
  BY <1>14 DEF Exit, shared, history
<1>15. ASSUME NEW p \in Procs, Die(p) PROVE Exclusive'
  BY <1>15 DEF Die, shared
<1>16. ASSUME NEW m \in Minors, ClearLock(m) PROVE Exclusive'
  BY <1>16 DEF ClearLock, history
<1>17. ASSUME NEW p \in Procs, LastTry(p) PROVE Exclusive'
  BY <1>17 DEF LastTry, shared, history
<1>18. ASSUME NEW p \in Procs, RemoveQueue(p) PROVE Exclusive'
  BY <1>18 DEF RemoveQueue, history
<1>19. ASSUME NEW p \in Procs, Post(p) PROVE Exclusive'
  BY <1>19, PostExclusive
<1>20. CASE UNCHANGED vars
  BY <1>20 DEF vars, shared, history
<1> QED
  BY <1>1, <1>2, <1>3, <1>4, <1>5, <1>6, <1>7, <1>8, <1>9, <1>10, <1>11, <1>12,
     <1>13, <1>14, <1>15, <1>16, <1>17, <1>18, <1>19, <1>20 DEF Next, Step

\* Only who increments, decrements or dies touches the count or the counted.
LEMMA StepCountTrue ==
    TypeOK /\ Exclusive /\ CountTrue /\ [Next]_vars => CountTrue'
<1> SUFFICES ASSUME TypeOK, Exclusive, CountTrue, [Next]_vars, ~gaveUp'
             PROVE  count' = Cardinality(counted') + uncounted'
  BY DEF CountTrue
<1>1. /\ IsFiniteSet(counted) /\ Cardinality(counted) \in Nat
      /\ count \in Nat /\ uncounted \in Nat
  BY PresenceAssumption, FS_Subset, FS_CardinalityType DEF TypeOK
<1>2. ASSUME NEW p \in Procs, Increment(p)
      PROVE  count' = Cardinality(counted') + uncounted'
  <2>1. ~gaveUp /\ UNCHANGED uncounted
    BY <1>2 DEF Increment
  <2>2. base[p] = count /\ p \notin counted
    BY <1>2, <2>1 DEF Increment, Exclusive, Critical, InCount, At
  <2>3. Cardinality(counted') = Cardinality(counted) + 1
    BY <1>1, <1>2, <2>2, FS_AddElement DEF Increment
  <2>4. count' = count + 1
    BY <1>2, <2>2 DEF Increment, More
  <2> QED
    BY <1>1, <2>1, <2>3, <2>4 DEF CountTrue
<1>3. ASSUME NEW p \in Procs, Decrement(p)
      PROVE  count' = Cardinality(counted') + uncounted'
  <2>1. ~gaveUp /\ UNCHANGED uncounted
    BY <1>3 DEF Decrement
  <2>2. base[p] = count /\ p \in counted
    BY <1>3, <2>1 DEF Decrement, Exclusive, Critical, InCount, At
  <2>3. Cardinality(counted') = Cardinality(counted) - 1 /\ Cardinality(counted') \in Nat
    BY <1>1, <1>3, <2>2, FS_RemoveElement, FS_CardinalityType DEF Decrement
  <2>4. count # 0
    BY <1>1, <2>1, <2>3 DEF CountTrue
  <2>5. count' = count - 1
    BY <1>3, <2>2, <2>4 DEF Decrement, Less
  <2> QED
    BY <1>1, <2>1, <2>3, <2>5 DEF CountTrue
<1>4. ASSUME NEW p \in Procs, Die(p)
      PROVE  count' = Cardinality(counted') + uncounted'
  <2>1. ~gaveUp /\ UNCHANGED count /\ counted' = counted \ {p}
    BY <1>4 DEF Die, shared
  <2>2. Cardinality(counted') = IF p \in counted THEN Cardinality(counted) - 1
                                ELSE Cardinality(counted)
    BY <1>1, <2>1, FS_RemoveElement
  <2>3. uncounted' = IF p \in counted THEN uncounted + 1 ELSE uncounted
    BY <1>4 DEF Die
  <2> QED
    BY <1>1, <2>1, <2>2, <2>3 DEF CountTrue
<1>5. ASSUME NEW p \in Procs,
             Start(p) \/ Exit(p) \/ AddDevice(p) \/ Refused(p) \/ ForkChild(p)
      PROVE  UNCHANGED <<count, counted, uncounted, gaveUp>>
  BY <1>5 DEF Start, Exit, AddDevice, Refused, ForkChild, shared, history
<1>6. ASSUME NEW p \in Procs,
             \/ Lock(p) \/ Unlock(p) \/ InitQueue(p) \/ Reopen(p) \/ TakeSem(p)
             \/ RemoveLu(p) \/ LastTry(p) \/ RemoveQueue(p) \/ Post(p)
      PROVE  UNCHANGED <<count, counted, uncounted, gaveUp>>
  BY <1>6 DEF Lock, Unlock, InitQueue, Reopen, TakeSem, RemoveLu, LastTry, RemoveQueue, Post,
     shared, history
<1>7. ASSUME NEW m \in Minors, ClearLock(m)
      PROVE  UNCHANGED <<count, counted, uncounted, gaveUp>>
  BY <1>7 DEF ClearLock, history
<1>8. CASE UNCHANGED vars
  BY <1>8 DEF vars, shared, history, CountTrue
<1>9. CASE UNCHANGED <<count, counted, uncounted, gaveUp>>
  BY <1>9 DEF CountTrue
<1>10. ASSUME NEW p \in Procs, GiveUp(p) PROVE FALSE
  BY <1>10 DEF GiveUp
<1> QED
  BY <1>2, <1>3, <1>4, <1>5, <1>6, <1>7, <1>8, <1>9, <1>10 DEF Next, Step

-----------------------------------------------------------------------------

\* Every step of every process keeps it.
LEMMA StepIInv == IInv /\ [Next]_vars => IInv'
BY StepTypeOK, StepServing, StepExclusive, StepCountTrue DEF IInv

\* It holds in every state.
LEMMA Inductive == Spec => []IInv
BY InitIInv, StepIInv, PTL DEF Spec

\* Every variable keeps its type, whatever dies where (main() of vtltape.c and
\* vtllibrary.c).
THEOREM TypeCorrect == Spec => []TypeOK
<1>1. IInv => TypeOK
  BY DEF IInv
<1> QED
  BY Inductive, <1>1, PTL

\* check_for_running_daemons(): one process at a time serves a minor number, for
\* any number of processes, starts and deaths.
THEOREM LockSound == Spec => []OneServer
<1>1. IInv => OneServer
  BY DEF IInv, Serving
<1> QED
  BY Inductive, <1>1, PTL

\* add_lu() and VTL_REMOVE_LU: a running daemon whose child has come back has a
\* logical unit.
THEOREM UnitServed == Spec => []Served
<1>1. IInv => Served
  BY DEF IInv, Serving
<1> QED
  BY Inductive, <1>1, PTL

\* mhvtl_fifo_count(): the count is that of the living and of those that died in it,
\* until someone gives up waiting for the semaphore.
THEOREM CountKept == Spec => []CountTrue
<1>1. IInv => CountTrue
  BY DEF IInv
<1> QED
  BY Inductive, <1>1, PTL
=============================================================================
