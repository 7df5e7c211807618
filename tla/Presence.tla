------------------------------ MODULE Presence ------------------------------
(***************************************************************************)
(* What the daemons share besides commands and messages: the lock file of  *)
(* a minor number, the semaphore "/mhVTL" and the count it guards, the     *)
(* message queue the last daemon removes, and the logical unit a child of  *)
(* the daemon adds to the kernel (vtllib.c, main() of vtltape.c and        *)
(* vtllibrary.c, mhvtl_add_device() and mhvtl_remove_lu() of mhvtl.c).     *)
(*                                                                         *)
(* A process may die at any step: by a signal it does not catch, a crash,  *)
(* or one of the exits of main() that clean up nothing.                    *)
(***************************************************************************)
EXTENDS Naturals, FiniteSets

CONSTANTS
    Procs,      \* processes
    Minors,     \* minor numbers
    MinorOf,    \* process -> the minor it is started for
    Library,    \* the minors of media changers
    MaxStarts,  \* bound: starts of daemons
    MaxDeaths   \* bound: deaths of daemons

ASSUME PresenceAssumption ==
    /\ MinorOf \in [Procs -> Minors] /\ Library \subseteq Minors
    /\ MaxStarts \in Nat /\ MaxDeaths \in Nat /\ IsFiniteSet(Procs)

VARIABLES
    pc,         \* process -> where main() stands
    lock,       \* the minors whose lock file exists
    sem,        \* the value of the semaphore
    count,      \* the count in shared memory
    base,       \* process -> the count it has read
    queue,      \* whether there is a message queue
    opened,     \* the processes whose r_qid is that of this queue
    child,      \* process -> how far its child in add_lu() is
    devp,       \* the minors the kernel has a logical unit for
    starts, deaths,
    counted,    \* history: the processes in the count
    uncounted,  \* history: processes that died without leaving the count
    gaveUp      \* history: someone gave up waiting for the semaphore

shared  == <<lock, sem, count, queue, devp>>
bounds  == <<starts, deaths>>
history == <<counted, uncounted, gaveUp>>
vars    == <<pc, base, opened, child, shared, bounds, history>>

Goto(p, where) == pc' = [pc EXCEPT ![p] = where]

At(p, where) == pc[p] = where

Live(p) == pc[p] # "down"

\* The end of main(): the logical unit goes first, and the lock last.
LockFirst(done) ==
    CASE done = "run" -> "unlock" [] done = "unlock" -> "remove"
      [] done = "remove" -> "uncount" [] OTHER -> "down"
ExitStep(done) ==
    CASE done = "run" -> "remove" [] done = "remove" -> "uncount"
      [] done = "uncount" -> "unlock" [] OTHER -> "down"

\* The process is no more, nor are its variables.
Reset(p) ==
    /\ base' = [base EXCEPT ![p] = 0]
    /\ opened' = opened \ {p}

(* The lock file and the queue ********************************************)

\* The media changer opens the queue before it looks at the lock.
Start(p) ==
    /\ At(p, "down") /\ child[p] \in {"none", "done"} /\ starts < MaxStarts
    /\ starts' = starts + 1
    /\ child' = [child EXCEPT ![p] = "none"]
    /\ Goto(p, IF MinorOf[p] \in Library THEN "queue" ELSE "lock")
    /\ UNCHANGED <<base, opened, shared, deaths, history>>

\* open(O_CREAT | O_EXCL) in check_for_running_daemons().
Reusable(p) == \A q \in Procs : MinorOf[q] = MinorOf[p] => pc[q] # "run"
Lockable(p) == MinorOf[p] \notin lock
Lock(p) ==
    /\ At(p, "lock")
    /\ Lockable(p)
    /\ lock' = lock \cup {MinorOf[p]}
    /\ Goto(p, IF MinorOf[p] \in Library THEN "count" ELSE "queue")
    /\ UNCHANGED <<base, opened, child, sem, count, queue, devp, bounds, history>>

\* After 20 tries: "found another running daemon", which may have died long ago.
Refused(p) ==
    /\ At(p, "lock")
    /\ ~Lockable(p)
    /\ Goto(p, "down") /\ Reset(p)
    /\ UNCHANGED <<child, shared, bounds, history>>

\* free_lock().
Unlock(p) ==
    /\ At(p, "unlock")
    /\ lock' = lock \ {MinorOf[p]}
    /\ Goto(p, ExitStep("unlock")) /\ Reset(p)
    /\ UNCHANGED <<child, sem, count, queue, devp, bounds, history>>

\* The operator removes the lock file of a daemon that is not there.
ClearLock(m) ==
    /\ m \in lock /\ \A p \in Procs : MinorOf[p] = m => ~Live(p)
    /\ lock' = lock \ {m}
    /\ UNCHANGED <<pc, base, opened, child, sem, count, queue, devp, bounds, history>>

\* init_queue(): the queue there is, or a new one.
OpenQueue(p) ==
    queue' = TRUE /\ opened' = opened \cup {p}

InitQueue(p) ==
    /\ At(p, "queue")
    /\ OpenQueue(p)
    /\ Goto(p, IF MinorOf[p] \in Library THEN "lock" ELSE "count")
    /\ UNCHANGED <<base, child, lock, sem, count, devp, bounds, history>>

\* msgrcv() fails in the main loop: the queue is opened again.
Reopen(p) ==
    /\ At(p, "run") /\ p \notin opened
    /\ OpenQueue(p)
    /\ UNCHANGED <<pc, base, child, lock, sem, count, devp, bounds, history>>

(* The count ***************************************************************)

AnyTime == TRUE
SemFree == sem > 0

\* mhvtl_fifo_count(): sem_trywait(), and the count read.
TakeSem(p) ==
    /\ pc[p] \in {"count", "uncount"}
    /\ SemFree /\ sem' = sem - 1
    /\ base' = [base EXCEPT ![p] = count]
    /\ Goto(p, IF At(p, "count") THEN "increment" ELSE "decrement")
    /\ UNCHANGED <<opened, child, lock, count, queue, devp, bounds, history>>

\* The last of ten tries fails; the process sleeps once more, and then posts the
\* semaphore, whoever has it by now, and leaves the count as it is.
WaitsOn == FALSE
Patient == sem = 0

LastTry(p) ==
    /\ pc[p] \in {"count", "uncount"}
    /\ Patient
    /\ Goto(p, IF At(p, "count") THEN "tired" ELSE "tired out")
    /\ UNCHANGED <<base, opened, child, shared, bounds, history>>

GiveUp(p) ==
    /\ pc[p] \in {"tired", "tired out"}
    /\ sem' = sem + 1
    /\ gaveUp' = TRUE
    /\ Goto(p, IF At(p, "tired") THEN "run" ELSE ExitStep("uncount"))
    /\ UNCHANGED <<base, opened, child, lock, count, queue, devp, bounds, counted,
                   uncounted>>

\* INCSHM and DECSHM of mhvtl_shared_mem().
More(old) == old + 1
Less(old) == IF old = 0 THEN 0 ELSE old - 1

Increment(p) ==
    /\ At(p, "increment")
    /\ count' = More(base[p])
    /\ base' = [base EXCEPT ![p] = 0]
    /\ counted' = counted \cup {p}
    /\ Goto(p, "incremented")
    /\ UNCHANGED <<opened, child, lock, sem, queue, devp, bounds, uncounted, gaveUp>>

Decrement(p) ==
    /\ At(p, "decrement")
    /\ count' = Less(base[p])
    /\ base' = [base EXCEPT ![p] = 0]
    /\ counted' = counted \ {p}
    /\ Goto(p, IF count' = 0 THEN "last" ELSE "decremented")
    /\ UNCHANGED <<opened, child, lock, sem, queue, devp, bounds, uncounted, gaveUp>>

\* The last one removes the shared memory, which is as good as a count of 0, and the
\* queue.
RemoveQueue(p) ==
    /\ At(p, "last")
    /\ queue' = FALSE /\ opened' = {}
    /\ Goto(p, "decremented")
    /\ UNCHANGED <<base, child, lock, sem, count, devp, bounds, history>>

\* sem_post().
Post(p) ==
    /\ pc[p] \in {"incremented", "decremented"}
    /\ sem' = sem + 1
    /\ Goto(p, IF At(p, "incremented") THEN "run" ELSE ExitStep("uncount"))
    /\ UNCHANGED <<base, opened, child, lock, count, queue, devp, bounds, history>>

(* The logical unit ********************************************************)

\* add_lu(): the child writes to the kernel while the daemon polls.
ForkChild(p) ==
    /\ At(p, "run") /\ child[p] = "none"
    /\ child' = [child EXCEPT ![p] = "forked"]
    /\ UNCHANGED <<pc, base, opened, shared, bounds, history>>

\* mhvtl_add_device(): nothing to do if there is one.  It takes no lock between the
\* look at devp[] and the change, but what other calls do in between leaves the units
\* there would be had they come before or after.  The probe that follows is left out,
\* it changes the device of the kernel only.
AddDevice(p) ==
    /\ child[p] = "forked"
    /\ child' = [child EXCEPT ![p] = "done"]
    /\ devp' = devp \cup {MinorOf[p]}
    /\ UNCHANGED <<pc, base, opened, lock, sem, count, queue, bounds, history>>

\* VTL_REMOVE_LU.
RemoveLu(p) ==
    /\ At(p, "remove")
    /\ devp' = devp \ {MinorOf[p]}
    /\ Goto(p, ExitStep("remove"))
    /\ UNCHANGED <<base, opened, child, lock, sem, count, queue, bounds, history>>

\* The "exit" message, once the child is forked.
Exit(p) ==
    /\ At(p, "run") /\ child[p] # "none"
    /\ Goto(p, ExitStep("run"))
    /\ UNCHANGED <<base, opened, child, shared, bounds, history>>

\* The child lives on.
Die(p) ==
    /\ Live(p) /\ deaths < MaxDeaths
    /\ deaths' = deaths + 1
    /\ Goto(p, "down") /\ Reset(p)
    /\ counted' = counted \ {p}
    /\ uncounted' = IF p \in counted THEN uncounted + 1 ELSE uncounted
    /\ UNCHANGED <<child, shared, starts, gaveUp>>

Init ==
    /\ pc = [p \in Procs |-> "down"] /\ child = [p \in Procs |-> "none"]
    /\ base = [p \in Procs |-> 0] /\ opened = {}
    /\ lock = {} /\ sem = 1 /\ count = 0 /\ queue = FALSE /\ devp = {}
    /\ starts = 0 /\ deaths = 0
    /\ counted = {} /\ uncounted = 0 /\ gaveUp = FALSE

\* The steps a process that is scheduled takes by itself.
Step(p) ==
    \/ Lock(p) \/ Refused(p) \/ Unlock(p) \/ InitQueue(p) \/ Reopen(p)
    \/ TakeSem(p) \/ LastTry(p) \/ GiveUp(p)
    \/ Increment(p) \/ Decrement(p) \/ RemoveQueue(p) \/ Post(p)
    \/ ForkChild(p) \/ RemoveLu(p)

Next ==
    \/ \E p \in Procs : Start(p) \/ Step(p) \/ AddDevice(p) \/ Exit(p) \/ Die(p)
    \/ \E m \in Minors : ClearLock(m)

\* Processes are scheduled.
Fairness == \A p \in Procs : WF_vars(Step(p)) /\ WF_vars(AddDevice(p))

Spec == Init /\ [][Next]_vars /\ Fairness
=============================================================================
