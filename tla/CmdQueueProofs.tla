---------------------------- MODULE CmdQueueProofs ----------------------------
(***************************************************************************)
(* Proofs about the queue of commands: its types, that the timer handler   *)
(* uses no freed entry, that no command is forgotten, no entry leaked, and *)
(* no command finished by the answer of another but by a timer.            *)
(***************************************************************************)
EXTENDS CmdQueueProps, TLAPS

Issued == 1 .. next - 1

\* Who holds an entry holds one that was issued, abort and reset one that is in
\* the list: they keep the lock.
HeldIssued ==
    /\ list \subseteq Issued
    /\ \A s \in Serials : timer[s] # "over" => s \in Issued
    /\ daemon.at # "polling" => daemon.cmd \in Issued
    /\ midlevel.at # "none" => midlevel.cmd \in Issued
    /\ stopper.at # "idle" => stopper.cmd \in list

\* A handler that has found its entry keeps it: who frees waits for the handler.
HandlersOwn ==
    misuse = {} => \A s \in Serials :
        timer[s] \in {"found", "marked", "answered"} => s \in list

\* Once the ioctl has deleted the timer it stays deleted.
TimerGone == daemon.at \in {"untimed", "answered"} => timer[daemon.cmd] = "over"

\* Who has called done() for a command, or is aborting it, is not the one the mid
\* level waits for.
DoneIsOver ==
    /\ midlevel.at = "out" =>
           /\ daemon.at = "answered" => daemon.cmd # midlevel.cmd
           /\ timer[midlevel.cmd] # "answered"
           /\ stopper.at # "abort"
    /\ stopper.at = "reset" => wasReset

\* Marks of the handler are seen by abort until the entry is gone.
FreeIsMarked ==
    misuse = {} => \A s \in list :
        state[s] = "free" => timer[s] \in {"marked", "answered"}

\* Every entry is the outstanding command's or somebody is about to free it.
Ending(s) ==
    \/ midlevel.at # "none" /\ s = midlevel.cmd
    \/ timer[s] \in {"marked", "answered"}
    \/ daemon.at = "answered" /\ daemon.cmd = s

\* The ioctl has called done() for an entry that is no more.
Doomed == daemon.at = "answered" /\ daemon.cmd \notin list

Accounted ==
    misuse = {} /\ crossed = {} => Doomed \/ \A s \in list : Ending(s)

IInv ==
    /\ TypeOK
    /\ HeldIssued
    /\ HandlersOwn
    /\ TimerGone
    /\ DoneIsOver
    /\ NoneForgotten
    /\ FreeIsMarked
    /\ Accounted

\* Serial numbers given out are within the bound, and the next one is new.
LEMMA IssuedSerials == TypeOK => Issued \subseteq Serials /\ next \notin Issued
BY QueueAssumption DEF TypeOK, Issued, Serials

\* The invariant holds of an empty queue.
LEMMA InitHolds == Init => IInv
<1> SUFFICES ASSUME Init PROVE IInv
  OBVIOUS
<1> USE DEF Init, At, NoCmd
<1>1. TypeOK
  <2>1. next \in 1 .. MaxSerial + 1
    BY QueueAssumption
  <2>2. state \in [Serials -> {"free", "queued", "in_use"}]
    OBVIOUS
  <2>3. timer \in [Serials -> Running \cup {"armed", "over"}]
    OBVIOUS
  <2> QED
    BY <2>1, <2>2, <2>3 DEF TypeOK, Ioctls
<1>2. HeldIssued /\ HandlersOwn /\ TimerGone /\ DoneIsOver
  BY DEF HeldIssued, HandlersOwn, TimerGone, DoneIsOver, Issued
<1>3. NoneForgotten /\ FreeIsMarked /\ Accounted
  BY DEF NoneForgotten, FreeIsMarked, Accounted
<1> QED
  BY <1>1, <1>2, <1>3 DEF IInv

\* A new command has a new serial number: nobody holds its entry yet.
LEMMA QueueHolds == IInv /\ QueueCommand => IInv'
<1> SUFFICES ASSUME IInv, QueueCommand PROVE IInv'
  OBVIOUS
<1> USE DEF IInv, QueueCommand, Queued, Unharmed, history, At, NoCmd
<1>0. Issued \subseteq Serials /\ next \notin Issued /\ next \in Serials /\ Issued' = Issued \cup {next}
  BY QueueAssumption, IssuedSerials DEF TypeOK, Issued, Serials
<1>1. TypeOK'
  BY <1>0, QueueAssumption DEF TypeOK, Serials, Running, Ioctls
<1>2. HeldIssued'
  BY <1>0 DEF TypeOK, HeldIssued
<1>3. HandlersOwn'
  BY <1>0 DEF TypeOK, HandlersOwn
<1>4. TimerGone'
  BY <1>0 DEF TypeOK, TimerGone, HeldIssued
<1>5. DoneIsOver'
  BY <1>0 DEF TypeOK, DoneIsOver, HeldIssued, LockFree
<1>6. NoneForgotten'
  BY <1>0 DEF NoneForgotten, InList
<1>7. FreeIsMarked'
  BY <1>0 DEF TypeOK, HeldIssued, FreeIsMarked
<1>8. Accounted'
  BY <1>0 DEF TypeOK, HeldIssued, Accounted, Doomed, Ending
<1> QED
  BY <1>1, <1>2, <1>3, <1>4, <1>5, <1>6, <1>7, <1>8

\* The mid level gives up: its command is no longer out.
LEMMA TimesOutHolds == IInv /\ CommandTimesOut => IInv'
BY DEF IInv, CommandTimesOut, Unharmed, history,
   TypeOK, HeldIssued, HandlersOwn, TimerGone,
   DoneIsOver, NoneForgotten, FreeIsMarked, Accounted, Doomed, Ending, Issued, InList

\* With no live entry the command, if it is in the list, is marked.
LEMMA AbortHolds == IInv /\ AbortStarts => IInv'
BY DEF IInv, AbortStarts, Entries, Live, Oldest, At, NoCmd, Unharmed, history,
   TypeOK, HeldIssued, HandlersOwn, TimerGone,
   DoneIsOver, NoneForgotten, FreeIsMarked, Accounted, Doomed, Ending, Issued, InList

\* A host reset takes the lock for a live entry.
LEMMA ResetHolds == IInv /\ ResetStarts => IInv'
BY DEF IInv, ResetStarts, Entries, Live, Oldest, At, LockFree,
   TypeOK, HeldIssued, HandlersOwn, TimerGone,
   DoneIsOver, NoneForgotten, FreeIsMarked, Accounted, Doomed, Ending, Issued, InList

\* Abort and reset free an entry whose handler does not run.
LEMMA StopHolds == IInv /\ StopDeletes => IInv'
<1> SUFFICES ASSUME IInv, StopDeletes PROVE IInv'
  OBVIOUS
<1> DEFINE s == stopper.cmd
<1> USE DEF IInv, StopDeletes, Unlisted, Without, At, NoCmd, Unharmed, history
<1>1. s \in list /\ s \in Serials /\ timer[s] \in {"armed", "over"}
  BY DEF TypeOK, HeldIssued, TimerStops
<1>2. /\ stopper'.at \in {"idle", "reset"}
      /\ stopper'.at = "idle" => stopper' = [at |-> "idle", cmd |-> 0]
      /\ stopper'.at = "reset" => stopper.at = "reset" /\ stopper'.cmd \in list \ {s}
      /\ stopper' \in [at : {"idle", "reset"}, cmd : Serials \cup {0}]
  BY <1>1 DEF AfterStop, OthersLive, Entries, Oldest, TypeOK, Serials
<1> HIDE DEF s
<1>3. TypeOK'
  BY <1>1, <1>2 DEF TypeOK, s
<1>4. HeldIssued'
  BY <1>1, <1>2 DEF TypeOK, HeldIssued, Issued, s
<1>5. HandlersOwn' /\ TimerGone' /\ FreeIsMarked'
  BY <1>1 DEF TypeOK, HandlersOwn, TimerGone, FreeIsMarked, s
<1>6. DoneIsOver' /\ NoneForgotten'
  BY <1>1, <1>2 DEF TypeOK, DoneIsOver, NoneForgotten, InList, s
<1>7. Accounted'
  BY <1>1 DEF TypeOK, Accounted, Doomed, Ending, s
<1> QED
  BY <1>3, <1>4, <1>5, <1>6, <1>7

\* The handler of a timer: it is the entry's own.
LEMMA FiresHolds ==
    ASSUME NEW s \in Serials, IInv, TimerFires(s)
    PROVE  IInv'
BY DEF IInv, TimerFires, Running, Unharmed, history,
   TypeOK, HeldIssued, HandlersOwn, TimerGone,
   DoneIsOver, NoneForgotten, FreeIsMarked, Accounted, Doomed, Ending, Issued, InList

\* lookup_sqcp() finds entries of the list only.
LEMMA FindsHolds ==
    ASSUME NEW s \in Serials, IInv, TimerFinds(s)
    PROVE  IInv'
BY DEF IInv, TimerFinds, Found, Running, Unharmed, history,
   TypeOK, HeldIssued, HandlersOwn, TimerGone,
   DoneIsOver, NoneForgotten, FreeIsMarked, Accounted, Doomed, Ending, Issued, InList

\* The handler marks its entry, which nobody has freed.
LEMMA MarksHolds ==
    ASSUME NEW s \in Serials, IInv, TimerMarks(s)
    PROVE  IInv'
BY DEF IInv, TimerMarks, Marked, Uses, Freed, Running,
   TypeOK, HeldIssued, HandlersOwn, TimerGone,
   DoneIsOver, NoneForgotten, FreeIsMarked, Accounted, Doomed, Ending, Issued, InList

\* After the handler's done() no command is out.
LEMMA AnswersHolds ==
    ASSUME NEW s \in Serials, IInv, TimerAnswers(s)
    PROVE  IInv'
BY DEF IInv, TimerAnswers, Uses, Done, Freed, At, NoCmd, Running,
   TypeOK, HeldIssued, HandlersOwn, TimerGone,
   DoneIsOver, NoneForgotten, FreeIsMarked, Accounted, Doomed, Ending, Issued, InList

\* The handler removes an entry whose command is over.
LEMMA RemovesHolds ==
    ASSUME NEW s \in Serials, IInv, TimerRemoves(s)
    PROVE  IInv'
BY DEF IInv, TimerRemoves, Uses, Freed, Without, LockFree, Running,
   TypeOK, HeldIssued, HandlersOwn, TimerGone,
   DoneIsOver, NoneForgotten, FreeIsMarked, Accounted, Doomed, Ending, Issued, InList

\* The ioctls: the poll takes an entry of the list.
LEMMA PollFindsHolds == IInv /\ PollFinds => IInv'
BY DEF IInv, PollFinds, Entries, Oldest, At, Ioctls, Unharmed, history,
   TypeOK, HeldIssued, HandlersOwn, TimerGone,
   DoneIsOver, NoneForgotten, FreeIsMarked, Accounted, Doomed, Ending, Issued, InList

\* The poll may mark an entry somebody has freed; that ends the behaviour.
LEMMA PollMarksHolds == IInv /\ PollMarks => IInv'
<1> SUFFICES ASSUME IInv, PollMarks PROVE IInv'
  OBVIOUS
<1> USE DEF IInv, PollMarks, Uses, Freed, At, InList
<1>1. daemon.cmd \in Serials /\ daemon.cmd \in Issued
  BY IssuedSerials DEF HeldIssued
<1>2. TypeOK'
  BY <1>1 DEF TypeOK, Ioctls
<1>3. HeldIssued' /\ HandlersOwn' /\ TimerGone'
  BY <1>1 DEF HeldIssued, HandlersOwn, TimerGone, Issued
<1>4. DoneIsOver' /\ NoneForgotten'
  BY DEF DoneIsOver, NoneForgotten
<1>5. FreeIsMarked' /\ Accounted'
  BY <1>1 DEF TypeOK, FreeIsMarked, Accounted, Doomed, Ending
<1> QED
  BY <1>1, <1>2, <1>3, <1>4, <1>5

\* VTL_GET_DATA looks its entry up and copies.
LEMMA GetFindsHolds == IInv /\ GetFinds => IInv'
BY DEF IInv, GetFinds, Ioctls, Unharmed, history,
   TypeOK, HeldIssued, HandlersOwn, TimerGone,
   DoneIsOver, NoneForgotten, FreeIsMarked, Accounted, Doomed, Ending, Issued, InList

\* Copying may use an entry somebody has freed; that ends the behaviour.
LEMMA GetCopiesHolds == IInv /\ GetCopies => IInv'
BY DEF IInv, GetCopies, Uses, Freed, Ioctls,
   TypeOK, HeldIssued, HandlersOwn, TimerGone,
   DoneIsOver, NoneForgotten, FreeIsMarked, Accounted, Doomed, Ending, Issued, InList

\* VTL_PUT_DATA looks its entry up, or gives up.
LEMMA PutFindsHolds == IInv /\ PutFinds => IInv'
BY DEF IInv, PutFinds, At, NoCmd, Ioctls, Unharmed, history,
   TypeOK, HeldIssued, HandlersOwn, TimerGone,
   DoneIsOver, NoneForgotten, FreeIsMarked, Accounted, Doomed, Ending, Issued, InList

\* It fills the command, which changes nothing the invariant speaks of.
LEMMA PutFillsHolds == IInv /\ PutFills => IInv'
BY DEF IInv, PutFills, Uses, Freed, Ioctls,
   TypeOK, HeldIssued, HandlersOwn, TimerGone,
   DoneIsOver, NoneForgotten, FreeIsMarked, Accounted, Doomed, Ending, Issued, InList

\* It waits for the handler: afterwards the timer is over for good.
LEMMA PutUntimesHolds == IInv /\ PutUntimes => IInv'
<1> SUFFICES ASSUME IInv, PutUntimes PROVE IInv'
  OBVIOUS
<1> USE DEF IInv, PutUntimes, Uses, Freed, InList, TimerQuiet, TimerStops, Running
<1>1. daemon.cmd \in Serials /\ daemon.cmd \in Issued
  BY IssuedSerials DEF HeldIssued
<1>2. timer[daemon.cmd] \in {"armed", "over"} /\ timer' = [timer EXCEPT ![daemon.cmd] = "over"]
  BY <1>1 DEF TypeOK
<1>3. TypeOK'
  BY <1>1, <1>2 DEF TypeOK, Ioctls
<1>4. HeldIssued' /\ TimerGone'
  BY <1>1, <1>2 DEF TypeOK, HeldIssued, TimerGone, Issued
<1>5. HandlersOwn' /\ FreeIsMarked'
  BY <1>1, <1>2 DEF TypeOK, HandlersOwn, FreeIsMarked
<1>6. DoneIsOver' /\ NoneForgotten'
  BY <1>1, <1>2 DEF TypeOK, DoneIsOver, NoneForgotten
<1>7. Accounted'
  BY <1>1, <1>2 DEF TypeOK, Accounted, Doomed, Ending
<1> QED
  BY <1>1, <1>2, <1>3, <1>4, <1>5, <1>6, <1>7

\* After its done() no command is out.
LEMMA PutAnswersHolds == IInv /\ PutAnswers => IInv'
BY DEF IInv, PutAnswers, Uses, Done, Freed, At, NoCmd, Ioctls,
   TypeOK, HeldIssued, HandlersOwn, TimerGone,
   DoneIsOver, NoneForgotten, FreeIsMarked, Accounted, Doomed, Ending, Issued, InList

\* It removes an entry whose timer and command are over.
LEMMA PutRemovesHolds == IInv /\ PutRemoves => IInv'
<1> SUFFICES ASSUME IInv, PutRemoves PROVE IInv'
  OBVIOUS
<1> USE DEF IInv, PutRemoves, Removed, Without, Uses, Freed, InList, At, NoCmd
<1>1. daemon.cmd \in Serials /\ timer[daemon.cmd] = "over"
  BY IssuedSerials DEF HeldIssued, TimerGone
<1>2. TypeOK'
  BY DEF TypeOK, Ioctls
<1>3. HeldIssued' /\ TimerGone'
  BY DEF HeldIssued, TimerGone, Issued, LockFree
<1>4. HandlersOwn' /\ FreeIsMarked'
  BY <1>1 DEF HandlersOwn, FreeIsMarked
<1>5. DoneIsOver' /\ NoneForgotten'
  BY DEF DoneIsOver, NoneForgotten
<1>6. Accounted'
  BY DEF Accounted, Doomed, Ending
<1> QED
  BY <1>1, <1>2, <1>3, <1>4, <1>5, <1>6

\* The inductive invariant: who holds which entry, and what is still owed to it.
THEOREM Invariance == Spec => []IInv
<1>1. IInv /\ [Next]_vars => IInv'
  <2> SUFFICES ASSUME IInv, [Next]_vars PROVE IInv'
    OBVIOUS
  <2>1. CASE QueueCommand \/ CommandTimesOut \/ AbortStarts \/ ResetStarts \/ StopDeletes
    BY <2>1, QueueHolds, TimesOutHolds, AbortHolds, ResetHolds, StopHolds
  <2>2. CASE \E s \in Serials : TimerFires(s) \/ TimerStep(s)
    BY <2>2, FiresHolds, FindsHolds, MarksHolds, AnswersHolds, RemovesHolds DEF TimerStep
  <2>3. CASE PollFinds \/ GetFinds \/ PutFinds \/ IoctlStep
    BY <2>3, PollFindsHolds, PollMarksHolds, GetFindsHolds, GetCopiesHolds, PutFindsHolds,
       PutFillsHolds, PutUntimesHolds, PutAnswersHolds, PutRemovesHolds DEF IoctlStep
  <2>4. CASE UNCHANGED vars
    BY <2>4 DEF vars, history, IInv, TypeOK, HeldIssued, HandlersOwn, TimerGone, DoneIsOver,
       NoneForgotten, FreeIsMarked, Accounted, Doomed, Ending, Issued, InList
  <2> QED
    BY <2>1, <2>2, <2>3, <2>4 DEF Next
<1> QED
  BY InitHolds, <1>1, PTL DEF Spec

\* The types of the queue's state.
THEOREM TypeCorrect == Spec => []TypeOK
BY Invariance, PTL DEF IInv

\* A command the mid level waits for is in the list unless a reset has taken it:
\* each party frees only what is over.
THEOREM CommandsKept == Spec => []NoneForgotten
BY Invariance, PTL DEF IInv

\* A timer handler never uses an entry that was freed under it, whichever of the
\* ioctl, abort and reset it races with.
THEOREM TimerSafe == Spec => []HandlerSafe
<1>1. Init => HandlerSafe
  BY DEF Init, HandlerSafe
<1>2. IInv /\ HandlerSafe /\ [Next]_vars => HandlerSafe'
  <2> SUFFICES ASSUME IInv, HandlerSafe, [Next]_vars PROVE HandlerSafe'
    OBVIOUS
  <2> USE DEF HandlerSafe, Unharmed, history, Uses
  <2>1. CASE UNCHANGED misuse
    BY <2>1
  <2>2. ASSUME NEW s \in Serials, TimerMarks(s) \/ TimerAnswers(s) \/ TimerRemoves(s)
        PROVE  HandlerSafe'
    BY <2>2 DEF IInv, HandlersOwn, TimerMarks, TimerAnswers, TimerRemoves, Freed, InList
  <2>3. ASSUME NEW s \in Serials, TimerFires(s) \/ TimerFinds(s)
        PROVE  UNCHANGED misuse
    BY <2>3 DEF TimerFires, TimerFinds
  <2>4. CASE PollFinds \/ GetFinds \/ PutFinds \/ IoctlStep
    BY <2>4 DEF PollFinds, GetFinds, PutFinds, IoctlStep, PollMarks, GetCopies, PutFills,
       PutUntimes, PutAnswers, PutRemoves
  <2>5. CASE QueueCommand \/ CommandTimesOut \/ AbortStarts \/ ResetStarts \/ StopDeletes
    BY <2>5 DEF QueueCommand, CommandTimesOut, AbortStarts, ResetStarts, StopDeletes
  <2> QED
    BY <2>1, <2>2, <2>3, <2>4, <2>5 DEF Next, TimerStep, vars
<1> QED
  BY Invariance, <1>1, <1>2, PTL DEF Spec

\* No entry is leaked: with nobody in the middle of anything the list holds the
\* outstanding command and nothing else.
THEOREM NothingLeaked == Spec => []NoneLeft
<1>1. IInv => NoneLeft
  <2> SUFFICES ASSUME IInv, Quiet, misuse = {}, crossed = {}, NEW s \in list
               PROVE  midlevel.at # "none" /\ s = midlevel.cmd
    BY DEF NoneLeft
  <2>1. Ending(s)
    BY DEF IInv, Accounted, Doomed, Quiet
  <2> QED
    BY <2>1 DEF Ending, Quiet, Running, IInv, TypeOK
<1> QED
  BY Invariance, <1>1, PTL

\* The ioctl is never the first to finish a command with the answer of another.
THEOREM TimersCrossFirst == Spec => FirstCrossing
<1>1. IInv /\ [Next]_vars => [crossed = {} => crossed' \subseteq {"timer"}]_vars
  <2> SUFFICES ASSUME IInv, Next, crossed = {} PROVE crossed' \subseteq {"timer"}
    BY DEF vars
  <2> USE DEF Unharmed, history
  <2>1. ASSUME PutAnswers PROVE crossed' = {}
    <3> DEFINE s == daemon.cmd
    <3>1. misuse = {} /\ daemon.at = "untimed" /\ timer[s] = "over"
      BY <2>1 DEF PutAnswers, Uses, IInv, TimerGone
    <3>2. InList(s) => midlevel.at # "none" /\ s = midlevel.cmd
      BY <3>1 DEF IInv, Accounted, Doomed, Ending, InList
    <3> QED
      BY <2>1, <3>2 DEF PutAnswers, Done
  <2>2. ASSUME NEW s \in Serials, TimerFires(s) \/ TimerStep(s)
        PROVE  crossed' \subseteq {"timer"}
    BY <2>2 DEF TimerFires, TimerStep, TimerFinds, TimerMarks, TimerAnswers, TimerRemoves, Done
  <2>3. CASE PollFinds \/ GetFinds \/ PutFinds \/ IoctlStep
    BY <2>1, <2>3 DEF PollFinds, GetFinds, PutFinds, IoctlStep, PollMarks, GetCopies,
       PutFills, PutUntimes, PutRemoves
  <2>4. CASE QueueCommand \/ CommandTimesOut \/ AbortStarts \/ ResetStarts \/ StopDeletes
    BY <2>4 DEF QueueCommand, CommandTimesOut, AbortStarts, ResetStarts, StopDeletes
  <2> QED
    BY <2>2, <2>3, <2>4 DEF Next
<1> QED
  BY Invariance, <1>1, PTL DEF Spec, FirstCrossing

=============================================================================
