------------------------------- MODULE Changer -------------------------------
(***************************************************************************)
(* The library daemon and the drive daemons of one virtual library         *)
(* (usr/smc.c, usr/cmd/vtllibrary.c, usr/cmd/vtltape.c, usr/utils/q.c).    *)
(*                                                                         *)
(* Each daemon is one thread.  They share a System V message queue: one    *)
(* FIFO inbox per daemon.  A MOVE MEDIUM sends a request to a drive and    *)
(* then takes whatever message comes first as the answer, so it is cut     *)
(* here at every msgrcv().  A command that is refused changes nothing and  *)
(* is a stuttering step.                                                   *)
(***************************************************************************)
EXTENDS Naturals, Sequences

CONSTANTS
    Slots,          \* storage elements
    Maps,           \* import/export elements
    Drives,         \* data transfer elements; each has its vtltape daemon
    Carts,          \* barcodes
    None,           \* no cartridge; no element
    Lib, Oper,      \* the library daemon and vtlcmd, as senders
    Home,           \* what the slots hold in library_contents
    Unloadable,     \* <<drive, cartridge>> pairs loadTape() refuses
    OperTexts,      \* what vtlcmd may send the library
    Faults,         \* daemons that may be restarted: "drive", "library"
    MaxInbox,       \* bound: no unasked message once the inbox is this long
    MaxRestarts     \* bound: restarts of either kind

Ports    == Slots \cup Maps
Elements == Ports \cup Drives
Daemons  == Drives \cup {Lib}

ASSUME ElementsDistinct ==
    /\ Slots \cap Maps = {} /\ Ports \cap Drives = {}
    /\ None \notin Elements \cup Carts
    /\ Lib \notin Drives /\ Oper \notin Daemons
ASSUME HomeUnique ==
    /\ Home \in [Ports -> Carts \cup {None}]
    /\ \A e, f \in Ports : Home[e] = Home[f] /\ Home[e] # None => e = f
ASSUME BoundsKnown ==
    MaxInbox \in Nat /\ MaxRestarts \in Nat /\ Unloadable \subseteq Drives \X Carts

\* The texts of vtlcmd that change the import/export elements.
OperatorTexts == {"open map", "close map", "empty map", "load map"}

ASSUME TextsKnown == OperTexts \subseteq OperatorTexts

\* A message taken for the answer to another; a daemon restarted.
Mishaps == {"crossed", "drive", "library"}

VARIABLES
    holds,      \* element -> the cartridge there (media, if STATUS_Full is set)
    access,     \* drive element -> STATUS_Access
    last,       \* drive element -> last_location, where its cartridge came from
    open,       \* cap_closed is CAP_OPEN
    move,       \* the MOVE MEDIUM in progress: its msgrcv() and addresses
    inbox,      \* daemon -> its messages, oldest first
    barcode,    \* drive daemon -> the cartridge in its mouth
    mounted,    \* drive daemon -> the tape is loaded
    inLibrary,  \* drive daemon -> "Register" received since it started
    mishaps     \* how often something happened the code does not defend against

inventory == <<holds, access, last, open>>
drives    == <<barcode, mounted, inLibrary>>
vars      == <<holds, access, last, open, move, inbox, barcode, mounted,
               inLibrary, mishaps>>

Idle     == [at |-> "idle", src |-> None, dst |-> None]
Waits    == {"src_state", "dst_state", "unload", "emptied", "load", "restore"}
Busy     == move.at \in Waits

Message(from, text, cart) == [from |-> from, text |-> text, cart |-> cart]
Request(text, cart)       == Message(Lib, text, cart)

-----------------------------------------------------------------------------
(* Sending and receiving *)

Deliver(box, m) == Append(box, m)

\* A command starts: the library writes to drive d and will wait for an answer.
Ask(d, m, at, src, dst) ==
    /\ inbox' = [inbox EXCEPT ![d] = Deliver(@, m)]
    /\ move' = [at |-> at, src |-> src, dst |-> dst]

\* The answer is in: it is whatever message is oldest.
Waiting(at) == move.at = at /\ inbox[Lib] # << >>
Answer      == Head(inbox[Lib])

\* One more of what goes wrong.
Another(kind) == [mishaps EXCEPT ![kind] = @ + 1]

\* The request is answered by the drive it was sent to, or something else was
\* taken for its answer.
Matched(d, texts) ==
    mishaps' = IF Answer.from = d /\ Answer.text \in texts
               THEN mishaps ELSE Another("crossed")

\* Next request of the same command, to drive d.
AskNext(d, m, at) ==
    /\ inbox' = [inbox EXCEPT ![Lib] = Tail(@), ![d] = Deliver(@, m)]
    /\ move' = [move EXCEPT !.at = at]

\* The command returns.
Return ==
    /\ inbox' = [inbox EXCEPT ![Lib] = Tail(@)]
    /\ move' = Idle

\* The library dereferences the NULL medium of an empty element and dies.
Segfault ==
    /\ inbox' = [inbox EXCEPT ![Lib] = Tail(@)]
    /\ move' = [Idle EXCEPT !.at = "crashed"]

-----------------------------------------------------------------------------
(* The inventory *)

\* Mutant: the address goes where the cartridge should.
MovedAddress(src, dst) == [holds EXCEPT ![dst] = src, ![src] = None]

\* Mutant: the source keeps its cartridge.
MovedAndKept(src, dst) == [holds EXCEPT ![dst] = holds[src]]

Moved(src, dst) == [holds EXCEPT ![dst] = holds[src], ![src] = None]

OpenToPicker(src) ==
    IF src \in Drives THEN [access EXCEPT ![src] = TRUE] ELSE access

MoveCart(src, dst) ==
    /\ holds' = Moved(src, dst)
    /\ last' = [d \in Drives |-> IF d = dst THEN src
                                 ELSE IF d = src THEN None ELSE last[d]]
    /\ UNCHANGED open

\* The door of the import/export elements is in the way of element e.
MapAccessOk(e) == e \in Maps => ~open

\* Mutant: the answer of the drive alone counts.
DriveSays(d) == Answer.text # "Not occupied"

DriveOccupied(d) == holds[d] # None \/ Answer.text # "Not occupied"

States == {"occupied", "Not occupied"}

-----------------------------------------------------------------------------
(* MOVE MEDIUM *)

MoveSlotToSlot(src, dst) ==
    /\ move = Idle
    /\ holds[src] # None /\ holds[dst] = None
    /\ MapAccessOk(src) /\ MapAccessOk(dst)
    /\ MoveCart(src, dst)
    /\ UNCHANGED <<access, move, inbox, drives, mishaps>>

\* The slot is full: is the drive?
MoveSlotToDrive(src, dst) ==
    /\ move = Idle
    /\ holds[src] # None
    /\ Ask(dst, Request("mount_state", None), "dst_state", src, dst)
    /\ UNCHANGED <<inventory, drives, mishaps>>

\* A move from a drive first asks that drive.
MoveFromDrive(src, dst) ==
    /\ move = Idle
    /\ src # dst
    /\ Ask(src, Request("mount_state", None), "src_state", src, dst)
    /\ UNCHANGED <<inventory, drives, mishaps>>

\* move_drive2slot() and the first half of move_drive2drive() go on.
SourceKnown ==
    LET src == move.src
        dst == move.dst
    IN  /\ Waiting("src_state")
        /\ Matched(src, States)
        /\ UNCHANGED drives
        /\ \/ /\ ~DriveOccupied(src)
              /\ Return /\ UNCHANGED inventory
           \/ /\ DriveOccupied(src) /\ dst \in Drives
              /\ AskNext(dst, Request("mount_state", None), "dst_state")
              /\ UNCHANGED inventory
           \/ /\ DriveOccupied(src) /\ dst \in Ports
              /\ holds[dst] # None \/ ~MapAccessOk(dst)
              /\ Return /\ UNCHANGED inventory
           \/ /\ DriveOccupied(src) /\ dst \in Ports
              /\ holds[dst] = None /\ MapAccessOk(dst) /\ holds[src] = None
              /\ Segfault /\ UNCHANGED inventory
           \/ /\ DriveOccupied(src) /\ dst \in Ports
              /\ holds[dst] = None /\ MapAccessOk(dst) /\ holds[src] # None
              /\ IF access[src]
                 THEN /\ MoveCart(src, dst)
                      /\ access' = OpenToPicker(src)
                      /\ AskNext(src, Request("set_empty", None), "emptied")
                 ELSE /\ AskNext(src, Request("unload", holds[src]), "unload")
                      /\ UNCHANGED inventory

\* move_slot2drive() and the second half of move_drive2drive() go on.
DestinationKnown ==
    LET src == move.src
        dst == move.dst
    IN  /\ Waiting("dst_state")
        /\ Matched(dst, States)
        /\ UNCHANGED <<inventory, drives>>
        /\ \/ /\ DriveOccupied(dst) \/ ~MapAccessOk(src)
              /\ Return
           \/ /\ ~DriveOccupied(dst) /\ MapAccessOk(src) /\ src \in Ports
              /\ AskNext(dst, Request("lload", holds[src]), "load")
           \/ /\ ~DriveOccupied(dst) /\ src \in Drives /\ holds[src] # None
              /\ AskNext(src, Request("unload", holds[src]), "unload")
           \/ /\ ~DriveOccupied(dst) /\ src \in Drives /\ holds[src] = None
              /\ Segfault

\* check_tape_unload() returns: the cartridge leaves the drive.
SourceUnloaded ==
    LET src == move.src
        dst == move.dst
    IN  /\ Waiting("unload")
        /\ Matched(src, {"Unloaded OK"})
        /\ UNCHANGED drives
        /\ IF Answer.text = "Unloaded OK"
           THEN /\ MoveCart(src, dst)
                /\ access' = OpenToPicker(src)
                /\ AskNext(src, Request("set_empty", None), "emptied")
           ELSE Return /\ UNCHANGED inventory

\* setDriveEmpty() returns, whatever the answer was.
SourceEmptied ==
    LET dst == move.dst
    IN  /\ Waiting("emptied")
        /\ Matched(move.src, {"Unloaded OK"})
        /\ UNCHANGED <<inventory, drives>>
        /\ IF dst \in Drives
           THEN AskNext(dst, Request("lload", holds[dst]), "load")
           ELSE Return

\* Mutant: a failed load leaves the cartridge where the robot put it.
LeaveThere(src, dst) == Return /\ UNCHANGED inventory

\* move_drive2drive() puts the cartridge back where it came from.
PutBack(src, dst) ==
    /\ MoveCart(dst, src)
    /\ access' = OpenToPicker(dst)
    /\ AskNext(src, Request("lload", holds[dst]), "restore")

\* check_tape_load() returns: the cartridge is in the drive, or it is not.
DestinationLoaded ==
    LET src == move.src
        dst == move.dst
    IN  /\ Waiting("load")
        /\ Matched(dst, {"Loaded OK", "Load failed"})
        /\ UNCHANGED drives
        /\ \/ /\ Answer.text = "Loaded OK"
              /\ IF src \in Ports THEN MoveCart(src, dst)
                                  ELSE UNCHANGED <<holds, last, open>>
              /\ access' = [access EXCEPT ![dst] = FALSE]
              /\ Return
           \/ /\ Answer.text # "Loaded OK" /\ src \in Ports
              /\ Return /\ UNCHANGED inventory
           \/ /\ Answer.text # "Loaded OK" /\ src \in Drives
              /\ PutBack(src, dst)

\* The cartridge is back in its drive, whatever the answer was.
SourceRestored ==
    /\ Waiting("restore")
    /\ Matched(move.src, {"Loaded OK", "Load failed"})
    /\ Return
    /\ UNCHANGED <<inventory, drives>>

AnswerTaken == \/ SourceKnown \/ DestinationKnown \/ SourceUnloaded
               \/ SourceEmptied \/ DestinationLoaded \/ SourceRestored

-----------------------------------------------------------------------------
(* The other things the library does, between two moves *)

\* OPEN/CLOSE IMPORT/EXPORT ELEMENT.
OpenClose ==
    /\ move = Idle
    /\ open' = ~open
    /\ UNCHANGED <<holds, access, last, move, inbox, drives, mishaps>>

\* What the oldest message makes of the inventory.  Answers nobody waits for
\* any more and texts the library does not know are dropped.
EjectSeen ==
    /\ Answer.text = "eject"
    /\ access' = IF holds[Answer.from] # None
                 THEN [access EXCEPT ![Answer.from] = TRUE] ELSE access
    /\ UNCHANGED <<holds, last, open>>

OpenMap  == Answer.text = "open map" /\ open' = TRUE
            /\ UNCHANGED <<holds, access, last>>
CloseMap == Answer.text = "close map" /\ open' = FALSE
            /\ UNCHANGED <<holds, access, last>>

EmptyMap ==
    /\ Answer.text = "empty map" /\ open
    /\ holds' = [e \in Elements |-> IF e \in Maps THEN None ELSE holds[e]]
    /\ UNCHANGED <<access, last, open>>

\* Mutant: the slots alone are searched for the barcode.
NotInPort(cart) == \A e \in Ports : holds[e] # cart

NotInSlot(cart) == \A e \in Elements : holds[e] # cart

FreeMaps == {e \in Maps : holds[e] = None}

LoadMap ==
    /\ Answer.text = "load map" /\ open /\ NotInSlot(Answer.cart)
    /\ \E e \in FreeMaps : holds' = [holds EXCEPT ![e] = Answer.cart]
    /\ UNCHANGED <<access, last, open>>

Dropped ==
    /\ \/ Answer.text \in States \cup {"Loaded OK", "Load failed", "Unloaded OK"}
       \/ Answer.text \in {"empty map", "load map"} /\ ~open
       \/ Answer.text = "load map" /\ (~NotInSlot(Answer.cart) \/ FreeMaps = {})
    /\ UNCHANGED inventory

MessageTaken ==
    /\ move = Idle /\ inbox[Lib] # << >>
    /\ EjectSeen \/ OpenMap \/ CloseMap \/ EmptyMap \/ LoadMap \/ Dropped
    /\ inbox' = [inbox EXCEPT ![Lib] = Tail(@)]
    /\ UNCHANGED <<move, drives, mishaps>>

\* Room for a message the library did not ask for.
Room == Len(inbox[Lib]) < MaxInbox

\* "load map" names a cartridge, the other texts of vtlcmd do not.
OperatorMessages ==
    {m \in [from : {Oper}, text : OperTexts, cart : Carts \cup {None}] :
        m.text = "load map" <=> m.cart # None}

OperatorSends ==
    /\ Room
    /\ \E m \in OperatorMessages : inbox' = [inbox EXCEPT ![Lib] = Deliver(@, m)]
    /\ UNCHANGED <<inventory, move, drives, mishaps>>

-----------------------------------------------------------------------------
(* A drive daemon handles its oldest message *)

Reply(d, text) ==
    inbox' = [inbox EXCEPT ![d] = Tail(@),
                           ![Lib] = Deliver(@, Message(d, text, None))]

MouthFree(d) == barcode[d] = None

\* Mutant: a load that fails is not answered.
SilentRefusal(d) == inbox' = [inbox EXCEPT ![d] = Tail(@)]

LoadRefused(d) == Reply(d, "Load failed")

LibraryLoad(d, m) ==
    /\ m.text = "lload"
    /\ \/ /\ ~inLibrary[d]
          /\ inbox' = [inbox EXCEPT ![d] = Tail(@)]
          /\ UNCHANGED drives
       \/ /\ inLibrary[d] /\ (~MouthFree(d) \/ <<d, m.cart>> \in Unloadable)
          /\ LoadRefused(d)
          /\ UNCHANGED drives
       \/ /\ inLibrary[d] /\ MouthFree(d) /\ <<d, m.cart>> \notin Unloadable
          /\ barcode' = [barcode EXCEPT ![d] = m.cart]
          /\ mounted' = [mounted EXCEPT ![d] = TRUE]
          /\ Reply(d, "Loaded OK")
          /\ UNCHANGED inLibrary

\* Mutant: the cartridge stays in the mouth.
MouthKept(d) == barcode

MouthCleared(d) == [barcode EXCEPT ![d] = None]

LibraryUnload(d, m) ==
    /\ m.text \in {"unload", "set_empty"}
    /\ mounted' = [mounted EXCEPT ![d] = FALSE]
    /\ barcode' = MouthCleared(d)
    /\ Reply(d, "Unloaded OK")
    /\ UNCHANGED inLibrary

MountState(d, m) ==
    /\ m.text = "mount_state"
    /\ Reply(d, IF barcode[d] = None THEN "Not occupied" ELSE "occupied")
    /\ UNCHANGED drives

Register(d, m) ==
    /\ m.text = "Register"
    /\ inLibrary' = [inLibrary EXCEPT ![d] = TRUE]
    /\ inbox' = [inbox EXCEPT ![d] = Tail(@)]
    /\ UNCHANGED <<barcode, mounted>>

DriveHandles(d) ==
    /\ inbox[d] # << >>
    /\ LET m == Head(inbox[d])
       IN  LibraryLoad(d, m) \/ LibraryUnload(d, m) \/ MountState(d, m) \/ Register(d, m)
    /\ UNCHANGED <<inventory, move, mishaps>>

\* Mutant: the library is not told.
Unannounced(d) == inbox

EjectSent(d) ==
    IF inLibrary[d]
    THEN [inbox EXCEPT ![Lib] = Deliver(@, Message(d, "eject", None))]
    ELSE inbox

\* LOAD UNLOAD from the host: the tape is unloaded and stays in the mouth.
HostUnloads(d) ==
    /\ mounted[d] /\ Room
    /\ mounted' = [mounted EXCEPT ![d] = FALSE]
    /\ inbox' = EjectSent(d)
    /\ UNCHANGED <<inventory, move, barcode, inLibrary, mishaps>>

-----------------------------------------------------------------------------
(* Restarts *)

MayFail(kind) == kind \in Faults /\ mishaps[kind] < MaxRestarts

\* A drive daemon dies and starts again: its inbox outlives it, its mouth and
\* its registration do not.
DriveRestarts(d) ==
    /\ MayFail("drive")
    /\ barcode' = MouthCleared(d)
    /\ mounted' = [mounted EXCEPT ![d] = FALSE]
    /\ inLibrary' = [inLibrary EXCEPT ![d] = FALSE]
    /\ mishaps' = Another("drive")
    /\ UNCHANGED <<inventory, move, inbox>>

FullDrives == {d \in Drives : holds[d] # None}
EmptySlots == {s \in Slots : holds[s] = None}

\* Where save_config() puts the cartridges that are in drives: into the slot
\* they came from if it is empty, else into some empty slot, as long as there
\* are any.
Stowings ==
    {to \in [FullDrives -> EmptySlots \cup {None}] :
        /\ \A d, e \in FullDrives : to[d] = to[e] /\ to[d] # None => d = e
        /\ \A d \in FullDrives : last[d] \in EmptySlots =>
              \E e \in FullDrives : last[e] = last[d] /\ to[e] = last[d]
        /\ (\E d \in FullDrives : to[d] = None) =>
              \A s \in EmptySlots : \E d \in FullDrives : to[d] = s}

\* "exit": the library writes its persistent configuration and ends.  The
\* drives are told nothing.
LibraryExits ==
    /\ MayFail("library")
    /\ move = Idle
    /\ \E to \in Stowings :
           holds' = [e \in Elements |->
                        IF e \in Drives THEN None
                        ELSE IF \E d \in FullDrives : to[d] = e
                        THEN holds[CHOOSE d \in FullDrives : to[d] = e]
                        ELSE holds[e]]
    /\ last' = [d \in Drives |-> None]
    /\ access' = [d \in Drives |-> TRUE]
    /\ open' = FALSE
    /\ move' = [Idle EXCEPT !.at = "down"]
    /\ mishaps' = Another("library")
    /\ UNCHANGED <<inbox, drives>>

\* And starts again: it empties its inbox and registers with the drives.
LibraryStarts ==
    /\ move.at = "down"
    /\ move' = Idle
    /\ inbox' = [i \in Daemons |->
                    IF i = Lib THEN << >>
                    ELSE Deliver(inbox[i], Request("Register", None))]
    /\ UNCHANGED <<inventory, drives, mishaps>>

-----------------------------------------------------------------------------

Init ==
    /\ holds = [e \in Elements |-> IF e \in Ports THEN Home[e] ELSE None]
    /\ access = [d \in Drives |-> TRUE]
    /\ last = [d \in Drives |-> None]
    /\ open = FALSE
    /\ move = Idle
    /\ inbox = [i \in Daemons |-> IF i = Lib THEN << >>
                                  ELSE <<Request("Register", None)>>]
    /\ barcode = [d \in Drives |-> None]
    /\ mounted = [d \in Drives |-> FALSE]
    /\ inLibrary = [d \in Drives |-> FALSE]
    /\ mishaps = [k \in Mishaps |-> 0]

MoveStarts ==
    \/ \E src, dst \in Ports : MoveSlotToSlot(src, dst)
    \/ \E src \in Ports, dst \in Drives : MoveSlotToDrive(src, dst)
    \/ \E src \in Drives, dst \in Elements : MoveFromDrive(src, dst)

Next ==
    \/ MoveStarts \/ AnswerTaken
    \/ OpenClose \/ MessageTaken \/ OperatorSends
    \/ \E d \in Drives : DriveHandles(d) \/ HostUnloads(d) \/ DriveRestarts(d)
    \/ LibraryExits \/ LibraryStarts

Spec == Init /\ [][Next]_vars

\* A daemon that runs goes on: the library returns from msgrcv() when there is
\* a message, a drive polls its inbox in every turn of its loop.
FairSpec ==
    /\ Spec
    /\ WF_vars(AnswerTaken)
    /\ \A d \in Drives : WF_vars(DriveHandles(d))

=============================================================================
