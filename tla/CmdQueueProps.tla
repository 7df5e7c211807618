---------------------------- MODULE CmdQueueProps ----------------------------
(***************************************************************************)
(* What the queue of commands must guarantee though the daemon, the timer  *)
(* and the error handler end commands at the same time.                    *)
(***************************************************************************)
EXTENDS CmdQueue

Ioctls == {"polling", "copied", "serving", "getting", "putting", "filled",
           "untimed", "answered"}

TypeOK ==
    /\ list \subseteq Serials
    /\ state \in [Serials -> {"free", "queued", "in_use"}]
    /\ timer \in [Serials -> Running \cup {"armed", "over"}]
    /\ next \in 1 .. MaxSerial + 1
    /\ daemon \in [at : Ioctls, cmd : Serials \cup {NoCmd}]
    /\ stopper \in [at : {"idle", "abort", "reset"}, cmd : Serials \cup {NoCmd}]
    /\ midlevel \in [at : {"none", "out", "timedout"}, cmd : Serials \cup {NoCmd}]
    /\ misuse \subseteq {"timer", "poll", "get", "put"}
    /\ crossed \subseteq {"timer", "put"}
    /\ wasReset \in BOOLEAN

\* The timer handler never uses an entry somebody else has freed: the ioctl waits
\* for it before it frees (timer_delete_sync()), abort and reset wait for it or
\* skip what it has marked.  The ioctls themselves can: they use what they found
\* after releasing the lock.
HandlerSafe == "timer" \notin misuse

\* A timer handler that crosses with an abort can finish the next command of the
\* same scsi_cmnd; done() in the ioctl never does, unless a timer already has:
\* it deletes the timer first, and abort and reset free what they stop.
FirstCrossing == [][crossed = {} => crossed' \subseteq {"timer"}]_vars

\* A command the mid level waits for is in the list, where the daemon or its
\* timer will find it, unless a reset has taken it: what the others free is
\* theirs alone.
NoneForgotten ==
    midlevel.at = "out" => InList(midlevel.cmd) \/ wasReset

\* With nobody in the middle of anything the list holds the outstanding command
\* and nothing else: no entry is leaked by the party that lost a race, as long
\* as no command was finished with the answer of another.
Quiet ==
    /\ LockFree
    /\ daemon.at \in {"polling", "serving"}
    /\ \A s \in Serials : timer[s] \notin Running

NoneLeft ==
    Quiet /\ misuse = {} /\ crossed = {} =>
        \A s \in list : midlevel.at # "none" /\ s = midlevel.cmd

\* Abort or reset waits, with the lock held, for a handler that needs the lock.
Stuck == stopper.at # "idle" /\ ~TimerStops(stopper.cmd)

\* Every command the mid level issues comes back to it, though the daemon may
\* never answer, unless the kernel has used freed memory or is stuck.
CommandsEnd ==
    midlevel.at # "none" ~> (midlevel.at = "none" \/ misuse # {} \/ Stuck)

=============================================================================
