------------------------------ MODULE CmdQueue ------------------------------
(***************************************************************************)
(* The queue of SCSI commands of one logical unit in the kernel module     *)
(* (kernel/mhvtl.c), from queuecommand() to the answer.                    *)
(*                                                                         *)
(* Three parties end a command: the daemon (ioctls, one at a time under    *)
(* ioctl_mutex), the timer of the command (a softirq), and the error       *)
(* handling of the mid level (abort, host reset).  cmd_list_lock protects  *)
(* the list, but a party goes on using the entry it found after it has     *)
(* released the lock, so each party is cut where it takes or drops the     *)
(* lock and where the others can see a change.  The adapter has            *)
(* VTL_CANQUEUE = 1: one command is outstanding, always in the same        *)
(* scsi_cmnd.  An issue of it is known by its serial number.               *)
(***************************************************************************)
EXTENDS Naturals

CONSTANTS
    MaxSerial,      \* bound: commands issued
    Interference    \* who, besides the daemon, ends commands

Kinds == {"timer", "abort", "reset"}

ASSUME QueueAssumption == MaxSerial \in Nat /\ Interference \subseteq Kinds

Serials == 1 .. MaxSerial
NoCmd   == 0

VARIABLES
    list,       \* cmd_list: the serial numbers, which order it, oldest first
    state,      \* entry -> mhvtl_queued_cmd.state
    timer,      \* entry -> cmnd_timer, or where its handler stands
    next,       \* serial_number
    daemon,     \* the ioctl of the daemon: where it stands, its entry
    stopper,    \* abort or host reset: who holds cmd_list_lock for which entry
    midlevel,   \* the scsi_cmnd: who waits for it, its serial number
    misuse,     \* history: who used an entry after it was freed
    crossed,    \* history: who answered one command with another's answer
    wasReset    \* history: a host reset took an entry

history == <<misuse, crossed, wasReset>>
vars    == <<list, state, timer, next, daemon, stopper, midlevel, history>>

At(where, s) == [at |-> where, cmd |-> s]

\* The lock is free but for the steps of abort and reset that wait with it held.
LockFree == stopper.at = "idle"

InList(s) == s \in list

\* kfree() follows list_del() in every place.
Freed(s) == ~InList(s)

\* list_del()
Without(s) == list \ {s}

\* lookup_sqcp(): only an entry in the list whose state is not free.
Found(s) == InList(s) /\ state[s] # "free"

\* The oldest of the entries E, if there is one.
Oldest(E) == {s \in E : \A t \in E : s <= t}

\* The entries in one of the states S.
Entries(S) == {s \in list : state[s] \in S}

Running == {"fired", "found", "marked", "answered"}

\* timer_delete_sync(): not while the handler runs.
TimerStops(s) == timer[s] \notin Running

\* A party uses entry s: the trace of a use after kfree().  What the kernel does
\* after one is not followed.
Uses(who, s) ==
    /\ misuse = {}
    /\ misuse' = IF Freed(s) THEN {who} ELSE {}

\* The other steps.
Unharmed == misuse = {} /\ UNCHANGED history

\* done(): the mid level finishes the command it waits for, whichever that is,
\* and ignores a call for a command that has timed out or is not outstanding.
Done(who, s) ==
    /\ midlevel' = IF midlevel.at = "out" THEN At("none", NoCmd) ELSE midlevel
    /\ crossed' = IF midlevel.at = "out" /\ midlevel.cmd # s /\ InList(s)
                  THEN crossed \cup {who} ELSE crossed

-----------------------------------------------------------------------------
(* The mid level issues commands and gives up on them *)

\* Mutant: the entry is queued before it has its serial number.
QueuedUnnumbered(s) == list \cup {NoCmd}

Queued(s) == list \cup {s}

\* queuecommand(): mhvtl_q_cmd() arms the timer and appends the entry.
QueueCommand ==
    /\ midlevel.at = "none" /\ next <= MaxSerial /\ LockFree
    /\ list' = Queued(next)
    /\ state' = [state EXCEPT ![next] = "queued"]
    /\ timer' = [timer EXCEPT ![next] = "armed"]
    /\ midlevel' = At("out", next)
    /\ next' = next + 1
    /\ UNCHANGED <<daemon, stopper>> /\ Unharmed

\* The block layer's own timer; done() is ignored from here on.
CommandTimesOut ==
    /\ "abort" \in Interference
    /\ midlevel.at = "out"
    /\ midlevel' = [midlevel EXCEPT !.at = "timedout"]
    /\ UNCHANGED <<list, state, timer, next, daemon, stopper>> /\ Unharmed

Live == {"queued", "in_use"}

\* mhvtl_abort(): with the lock, the oldest live entry of this scsi_cmnd, and
\* with the lock still held, its timer.  SUCCESS whether there is one or not.
AbortStarts ==
    /\ midlevel.at = "timedout" /\ LockFree
    /\ \/ /\ Entries(Live) = {}
          /\ midlevel' = At("none", NoCmd)
          /\ UNCHANGED stopper
       \/ /\ \E s \in Oldest(Entries(Live)) : stopper' = At("abort", s)
          /\ UNCHANGED midlevel
    /\ UNCHANGED <<list, state, timer, next, daemon>> /\ Unharmed

\* mhvtl_host_reset(): the same of every live entry.
ResetStarts ==
    /\ "reset" \in Interference /\ LockFree /\ misuse = {}
    /\ \E s \in Oldest(Entries(Live)) : stopper' = At("reset", s)
    /\ wasReset' = TRUE
    /\ UNCHANGED <<list, state, timer, next, daemon, midlevel, misuse, crossed>>

\* Mutant: the entry stays in the list.
LeftInList(s) == list

Unlisted(s) == Without(s)

\* Live entries the loop still comes to.
OthersLive(s) == {t \in Entries(Live) : s < t}

\* Mutant: the loop of reset goes on from the entry it has freed.
NotAdvanced(s) == {IF stopper.at = "reset" THEN stopper ELSE At("idle", NoCmd)}

AfterStop(s) ==
    IF stopper.at = "reset" /\ OthersLive(s) # {}
    THEN {At("reset", t) : t \in Oldest(OthersLive(s))}
    ELSE {At("idle", NoCmd)}

\* The timer is deleted: the entry is freed, abort returns, reset goes on.
StopDeletes ==
    LET s == stopper.cmd
    IN  /\ stopper.at # "idle" /\ TimerStops(s)
        /\ timer' = [timer EXCEPT ![s] = "over"]
        /\ list' = Unlisted(s)
        /\ stopper' \in AfterStop(s)
        /\ midlevel' = IF stopper.at = "abort" THEN At("none", NoCmd) ELSE midlevel
        /\ UNCHANGED <<state, next, daemon>> /\ Unharmed

-----------------------------------------------------------------------------
(* mhvtl_timer_intr_handler() of entry s *)

TimerFires(s) ==
    /\ "timer" \in Interference
    /\ timer[s] = "armed"
    /\ timer' = [timer EXCEPT ![s] = "fired"]
    /\ UNCHANGED <<list, state, next, daemon, stopper, midlevel>> /\ Unharmed

TimerFinds(s) ==
    /\ timer[s] = "fired" /\ LockFree
    /\ timer' = [timer EXCEPT ![s] = IF Found(s) THEN "found" ELSE "over"]
    /\ UNCHANGED <<list, state, next, daemon, stopper, midlevel>> /\ Unharmed

Marked(s) == [state EXCEPT ![s] = "free"]

TimerMarks(s) ==
    /\ timer[s] = "found"
    /\ Uses("timer", s)
    /\ state' = Marked(s)
    /\ timer' = [timer EXCEPT ![s] = "marked"]
    /\ UNCHANGED <<list, next, daemon, stopper, midlevel, crossed, wasReset>>

\* Result 0: the mid level is told GOOD.
TimerAnswers(s) ==
    /\ timer[s] = "marked"
    /\ Uses("timer", s)
    /\ Done("timer", s)
    /\ timer' = [timer EXCEPT ![s] = "answered"]
    /\ UNCHANGED <<list, state, next, daemon, stopper, wasReset>>

TimerRemoves(s) ==
    /\ timer[s] = "answered" /\ LockFree
    /\ Uses("timer", s)
    /\ list' = Without(s)
    /\ timer' = [timer EXCEPT ![s] = "over"]
    /\ UNCHANGED <<state, next, daemon, stopper, midlevel, crossed, wasReset>>

TimerStep(s) ==
    TimerFinds(s) \/ TimerMarks(s) \/ TimerAnswers(s) \/ TimerRemoves(s)

-----------------------------------------------------------------------------
(* The ioctls of the daemon *)

\* VTL_POLL_AND_GET_HEADER walks the list without the lock.
PollFinds ==
    /\ daemon.at = "polling"
    /\ \E s \in Oldest(Entries({"queued"})) : daemon' = At("copied", s)
    /\ UNCHANGED <<list, state, timer, next, stopper, midlevel>> /\ Unharmed

PollMarks ==
    LET s == daemon.cmd
    IN  /\ daemon.at = "copied"
        /\ Uses("poll", s)
        /\ state' = [state EXCEPT ![s] = "in_use"]
        /\ daemon' = At("serving", s)
        /\ UNCHANGED <<list, timer, next, stopper, midlevel, crossed, wasReset>>

\* VTL_GET_DATA, for the data the host sends; refused if there is no such entry.
GetFinds ==
    /\ daemon.at = "serving" /\ LockFree
    /\ Found(daemon.cmd)
    /\ daemon' = [daemon EXCEPT !.at = "getting"]
    /\ UNCHANGED <<list, state, timer, next, stopper, midlevel>> /\ Unharmed

GetCopies ==
    /\ daemon.at = "getting"
    /\ Uses("get", daemon.cmd)
    /\ daemon' = [daemon EXCEPT !.at = "serving"]
    /\ UNCHANGED <<list, state, timer, next, stopper, midlevel, crossed, wasReset>>

\* VTL_PUT_DATA: the answer.  Without an entry the daemon is told, and goes on.
PutFinds ==
    /\ daemon.at = "serving" /\ LockFree
    /\ daemon' = IF Found(daemon.cmd) THEN [daemon EXCEPT !.at = "putting"]
                                      ELSE At("polling", NoCmd)
    /\ UNCHANGED <<list, state, timer, next, stopper, midlevel>> /\ Unharmed

PutFills ==
    /\ daemon.at = "putting"
    /\ Uses("put", daemon.cmd)
    /\ daemon' = [daemon EXCEPT !.at = "filled"]
    /\ UNCHANGED <<list, state, timer, next, stopper, midlevel, crossed, wasReset>>

\* Mutant: timer_delete() without waiting for the handler.
TimerLeft(s) == TRUE

TimerQuiet(s) == TimerStops(s)

PutUntimes ==
    LET s == daemon.cmd
    IN  /\ daemon.at = "filled" /\ TimerQuiet(s)
        /\ Uses("put", s)
        /\ timer' = [timer EXCEPT ![s] = IF @ = "armed" THEN "over" ELSE @]
        /\ daemon' = [daemon EXCEPT !.at = "untimed"]
        /\ UNCHANGED <<list, state, next, stopper, midlevel, crossed, wasReset>>

PutAnswers ==
    /\ daemon.at = "untimed"
    /\ Uses("put", daemon.cmd)
    /\ Done("put", daemon.cmd)
    /\ daemon' = [daemon EXCEPT !.at = "answered"]
    /\ UNCHANGED <<list, state, timer, next, stopper, wasReset>>

\* Mutant: the entry stays in the list.
NotRemoved(s) == list

\* Mutant: the entry queued last goes.
RemovedLast(s) == {t \in list : \E u \in list : t < u}

Removed(s) == Without(s)

PutRemoves ==
    /\ daemon.at = "answered" /\ LockFree
    /\ Uses("put", daemon.cmd)
    /\ list' = Removed(daemon.cmd)
    /\ daemon' = At("polling", NoCmd)
    /\ UNCHANGED <<state, timer, next, stopper, midlevel, crossed, wasReset>>

\* Inside an ioctl; the daemon may take any time, or die, outside of them.
IoctlStep == PollMarks \/ GetCopies \/ PutFills \/ PutUntimes \/ PutAnswers \/ PutRemoves

-----------------------------------------------------------------------------

Init ==
    /\ list = {}
    /\ state = [s \in Serials |-> "free"]
    /\ timer = [s \in Serials |-> "over"]
    /\ next = 1
    /\ daemon = At("polling", NoCmd)
    /\ stopper = At("idle", NoCmd)
    /\ midlevel = At("none", NoCmd)
    /\ misuse = {}
    /\ crossed = {}
    /\ wasReset = FALSE

Next ==
    \/ QueueCommand \/ CommandTimesOut \/ AbortStarts \/ ResetStarts \/ StopDeletes
    \/ \E s \in Serials : TimerFires(s) \/ TimerStep(s)
    \/ PollFinds \/ GetFinds \/ PutFinds \/ IoctlStep

Spec == Init /\ [][Next]_vars

\* Timers fire and their handlers run, the error handler runs, an ioctl that has
\* begun goes on.  Nothing is assumed of the daemon between two ioctls.
FairSpec ==
    /\ Spec
    /\ WF_vars(CommandTimesOut)
    /\ WF_vars(AbortStarts) /\ WF_vars(StopDeletes)
    /\ WF_vars(IoctlStep)
    /\ \A s \in Serials : WF_vars(TimerFires(s) \/ TimerStep(s))

=============================================================================
