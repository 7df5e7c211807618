------------------------------- MODULE Drive -------------------------------
(***************************************************************************)
(* The mounts of one tape drive (vtltape.c, ssc.c): the messages and the   *)
(* commands that load and unload, the timer of the load delay and that of  *)
(* the cleaning cartridge, which share the process's one alarm, and the    *)
(* MAM of the cartridge, which is in memory and in two files.              *)
(*                                                                         *)
(* rewriteMAM() writes mam and then mhvtl_data; the daemon may be killed   *)
(* between the two.  What is written to the medium is a single number, the *)
(* load in which it last changed.                                          *)
(*                                                                         *)
(* LOAD by a host changes nothing: ssc_load_unload() rewinds before it     *)
(* looks whether the tape is unloaded, and without an open file that       *)
(* fails, so that its call of loadTape() is never reached.                 *)
(***************************************************************************)
EXTENDS Naturals, FiniteSets

CONSTANTS
    Data, Worm, Clean,  \* the cartridges, by type of medium
    Odd,                \* cartridges of a media type the drive cannot load
    ReadOnly,           \* data cartridges this drive reads only
    Used,               \* cartridges whose reference has come to Top
    None,               \* no cartridge
    Top,                \* the largest volume change reference
    MaxLoads,           \* bound: loads
    MaxStops,           \* bound: exits and kills of the daemon
    MaxOrders           \* bound: what the operator does with vtlcmd and edit_tape

Cartridges == Data \cup Worm \cup Clean \cup Odd

ASSUME DriveAssumption ==
    /\ ReadOnly \subseteq Data /\ Used \subseteq Cartridges /\ None \notin Cartridges
    /\ Data \cap (Worm \cup Clean \cup Odd) = {} /\ Worm \cap (Clean \cup Odd) = {}
    /\ Clean \cap Odd = {}
    /\ Top \in Nat /\ MaxLoads \in Nat /\ MaxStops \in Nat
    /\ MaxOrders \in Nat
    /\ MaxLoads < Top   \* else a reference comes round

VARIABLES
    medium,     \* cartridge -> its MAM files
    mam,        \* the MAM in memory
    cart,       \* the cartridge whose files are open
    status,     \* get_tape_load_status()
    barcode,    \* lu_ssc.barcode: the cartridge in the mouth
    save,       \* why mam has been written and mhvtl_data not yet
    alarm,      \* whose alarm() is pending
    cleaning,   \* cleaning_media_state
    delay,      \* lu_ssc.delay_load > 0
    protect,    \* lu_ssc.MediaWriteProtect
    appendOnly, \* lu_ssc.append_only_mode
    vcrUpdated, \* lu_ssc.vcr_updated
    told,       \* the TapeAlert flags of this load
    load, stops, orders,
    changed,    \* history: cartridge -> load that last changed its data
    cohLoad,    \* history: cartridge -> load that wrote its coherency record
    ended,      \* history: cartridge -> how its last load ended
    silent      \* history: cartridges changed by SET CAPACITY

daemon  == <<mam, cart, status, barcode, save, alarm, cleaning, delay, protect,
             appendOnly, vcrUpdated, told>>
bounds  == <<load, stops, orders>>
history == <<changed, cohLoad, ended, silent>>
vars    == <<medium, daemon, bounds, history>>

NoMam == [vcr |-> 0, coh |-> 0, dirty |-> FALSE, wp |-> FALSE]

Idle == save = "no"

Order == orders < MaxOrders /\ orders' = orders + 1 /\ UNCHANGED <<load, stops>>

\* update_volume_change_reference(): zero is for "not available".
NoWrap(v) == v + 1
Bump(v) == IF v >= Top THEN 1 ELSE v + 1

\* The two halves of write_mam().
Main(c, record)   == [medium EXCEPT ![c].vcr = record.vcr, ![c].coh = record.coh]
Second(c, record) == [medium EXCEPT ![c].dirty = record.dirty, ![c].wp = record.wp]

\* updateMAM(): the first command of a load that modifies the medium sets
\* vcr_updated, the load resets it; the dirty flag is up from load to unload.
FlagKept    == vcrUpdated
FlagOnLoad  == FALSE
StillDirty(record) == record
Cleanly(record)    == [record EXCEPT !.dirty = FALSE]

\* The switch on a data cartridge, or a drive that only reads it.
SwitchOnly(c, record)     == record.wp
WriteProtected(c, record) == c \in ReadOnly \/ record.wp

(* Load ********************************************************************)

\* loadTape() up to the first half of updateMAM(1).  by is the reason, which
\* decides what happens to the barcode if the medium is refused.  The flag for
\* lost statistics replaces the one for a cleaning cartridge.
BeginLoad(c, by) ==
    /\ Idle /\ cart = None /\ load < MaxLoads
    /\ load' = load + 1
    /\ cart' = c
    /\ mam' = [medium[c] EXCEPT !.dirty = TRUE]
    /\ status' = "loading"
    /\ vcrUpdated' = FlagOnLoad
    /\ told' = IF medium[c].dirty THEN {"lost"}
               ELSE IF c \in Clean THEN {"cleaning"} ELSE {}
    /\ alarm' = IF c \in Clean THEN "clean" ELSE alarm
    /\ cleaning' = IF c \in Clean THEN 1 ELSE cleaning
    /\ save' = by
    /\ UNCHANGED <<medium, delay, protect, appendOnly, stops, history>>

\* delay_opcode(DELAY_LOAD): the alarm replaces any other.
Delayed(at) ==
    IF delay THEN alarm' = "mount" /\ status' = at
    ELSE alarm' = alarm /\ status' = IF at = "loading" THEN "loaded" ELSE at

\* The rest of loadTape() of a medium the drive accepts: the protection is set
\* for data media only.
FinishLoad ==
    /\ save \in {"library", "operator"} /\ cart \notin Odd
    /\ medium' = Second(cart, mam)
    /\ save' = "no"
    /\ protect' = IF cart \in Data THEN WriteProtected(cart, mam) ELSE protect
    /\ Delayed(status)
    /\ UNCHANGED <<mam, cart, barcode, cleaning, delay, appendOnly, vcrUpdated, told,
                   bounds, history>>

\* mismatchmedia: the cartridge is closed without updateMAM(0).
RejectLoad ==
    /\ save \in {"library", "operator"} /\ cart \in Odd
    /\ medium' = Second(cart, mam)
    /\ save' = "no"
    /\ cart' = None
    /\ barcode' = IF save = "library" THEN None ELSE barcode
    /\ told' = told \cup {"unsupported"}
    /\ ended' = [ended EXCEPT ![cart] = "rejected"]
    /\ Delayed("unloaded")
    /\ UNCHANGED <<mam, cleaning, delay, protect, appendOnly, vcrUpdated, bounds,
                   changed, cohLoad, silent>>

\* "lload": refused while a cartridge is in the mouth.
LibraryLoad(c) ==
    /\ barcode = None /\ barcode' = c
    /\ BeginLoad(c, "library") /\ UNCHANGED orders

\* "load" from vtlcmd.  The barcode is replaced whatever becomes of the load, and
\* stays if the medium is refused.
OperatorLoad(c) ==
    /\ orders < MaxOrders /\ orders' = orders + 1
    /\ barcode' = c
    /\ \/ BeginLoad(c, "operator")
       \/ Idle /\ UNCHANGED <<medium, mam, cart, status, save, alarm, cleaning, delay,
                              protect, appendOnly, vcrUpdated, told, load, stops, history>>

(* Unload ******************************************************************)

\* unloadTape() up to the first half of updateMAM(0).
BeginUnload(by) ==
    /\ Idle
    /\ mam' = Cleanly(mam)
    /\ medium' = Main(cart, mam)
    /\ save' = by
    /\ UNCHANGED <<cart, status, barcode, alarm, cleaning, delay, protect, appendOnly,
                   vcrUpdated, told, bounds, history>>

\* The alarm goes on; the library's unload empties the mouth.
FinishUnload ==
    /\ save \in {"eject", "unload"}
    /\ medium' = Second(cart, mam)
    /\ save' = "no"
    /\ cart' = None
    /\ status' = "unloaded"
    /\ barcode' = IF save = "unload" THEN None ELSE barcode
    /\ ended' = [ended EXCEPT ![cart] = "unload"]
    /\ UNCHANGED <<mam, alarm, cleaning, delay, protect, appendOnly, vcrUpdated, told,
                   bounds, changed, cohLoad, silent>>

HostUnload == status = "loaded" /\ BeginUnload("eject")

\* "unload" and "set empty".
MayUnload == status \in {"loading", "loaded"}

LibraryUnload ==
    \/ MayUnload /\ BeginUnload("unload")
    \/ /\ Idle /\ ~MayUnload /\ barcode' = None
       /\ UNCHANGED <<medium, mam, cart, status, save, alarm, cleaning, delay, protect,
                      appendOnly, vcrUpdated, told, bounds, history>>

(* Timers ******************************************************************)

\* The second timer of a cleaning cartridge.
NoSecond(state) == "none"
Rearm(state)    == IF state = 2 THEN "clean" ELSE "none"

\* finish_mount() and inc_cleaning_state(), as handlers of SIGALRM.
MountAlarm ==
    /\ alarm = "mount" /\ alarm' = "none"
    /\ status' = IF status = "loading" THEN "loaded" ELSE status
    /\ UNCHANGED <<medium, mam, cart, barcode, save, cleaning, delay, protect,
                   appendOnly, vcrUpdated, told, bounds, history>>

CleanAlarm ==
    /\ alarm = "clean"
    /\ cleaning' = cleaning + 1
    /\ alarm' = Rearm(cleaning')
    /\ UNCHANGED <<medium, mam, cart, status, barcode, save, delay, protect,
                   appendOnly, vcrUpdated, told, bounds, history>>

(* Commands that change the medium *****************************************)

\* check_restrictions(), without the position: MediaWriteProtect counts whatever
\* the medium, OK_to_write of a cleaning cartridge is never set.
MayWrite == status = "loaded" /\ cart \in Data \cup Worm /\ ~protect

\* WRITE FILEMARKS at block 0 of WORM goes on where check_restrictions() refused.
WormMark == cart \in Worm

\* update_volume_change_reference() comes before the change.
BeginChange ==
    /\ Idle
    /\ MayWrite \/ WormMark
    /\ IF vcrUpdated
       THEN UNCHANGED <<mam, medium, vcrUpdated>>
       ELSE /\ mam' = [mam EXCEPT !.vcr = Bump(@)]
            /\ medium' = Main(cart, mam')
            /\ vcrUpdated' = TRUE
    /\ save' = "change"
    /\ UNCHANGED <<cart, status, barcode, alarm, cleaning, delay, protect, appendOnly,
                   told, bounds, history>>

FinishChange ==
    /\ save = "change"
    /\ medium' = Second(cart, mam)
    /\ save' = "no"
    /\ changed' = [changed EXCEPT ![cart] = load]
    /\ UNCHANGED <<mam, cart, status, barcode, alarm, cleaning, delay, protect,
                   appendOnly, vcrUpdated, told, bounds, cohLoad, ended, silent>>

\* SET CAPACITY: neither check_restrictions() nor a new reference.
SetCapacity ==
    /\ Idle /\ status = "loaded"
    /\ changed' = [changed EXCEPT ![cart] = load]
    /\ silent' = silent \cup {cart}
    /\ UNCHANGED <<medium, daemon, bounds, cohLoad, ended>>

\* WRITE ATTRIBUTE of the coherency record, with the reference the host has read.
WriteCoherency ==
    /\ Idle /\ status = "loaded"
    /\ mam' = [mam EXCEPT !.coh = mam.vcr]
    /\ medium' = Main(cart, mam')
    /\ cohLoad' = [cohLoad EXCEPT ![cart] = load]
    /\ UNCHANGED <<cart, status, barcode, save, alarm, cleaning, delay, protect,
                   appendOnly, vcrUpdated, told, bounds, changed, ended, silent>>

(* The rest ****************************************************************)

\* "delay load" and "Append Only" from vtlcmd.
SetDelay ==
    /\ Order /\ Idle /\ delay' = ~delay
    /\ UNCHANGED <<medium, mam, cart, status, barcode, save, alarm, cleaning, protect,
                   appendOnly, vcrUpdated, told, history>>

SetAppendOnly ==
    /\ Order /\ Idle /\ appendOnly' = ~appendOnly
    /\ UNCHANGED <<medium, mam, cart, status, barcode, save, alarm, cleaning, delay,
                   protect, vcrUpdated, told, history>>

\* edit_tape -w, of a cartridge that is not mounted.  The drive looks at the flag of
\* data media only.
EditTape(c) ==
    /\ Order /\ c \in Data /\ c # cart
    /\ medium' = [medium EXCEPT ![c].wp = ~@]
    /\ UNCHANGED <<daemon, history>>

\* The daemon starts again with nothing in memory and no cartridge in the mouth.
Stop ==
    /\ stops < MaxStops /\ stops' = stops + 1
    /\ mam' = NoMam /\ cart' = None /\ status' = "unloaded" /\ barcode' = None
    /\ save' = "no" /\ alarm' = "none" /\ cleaning' = 0 /\ protect' = FALSE
    /\ appendOnly' = FALSE /\ vcrUpdated' = FALSE /\ told' = {}
    /\ delay' = FALSE
    /\ ended' = IF cart = None THEN ended
                ELSE [ended EXCEPT ![cart] =
                          IF save \in {"library", "operator"} THEN "torn" ELSE "killed"]
    /\ UNCHANGED <<medium, load, orders, changed, cohLoad, silent>>

\* The "exit" message between two commands, and a kill at any time.
Exit == Idle /\ Stop
Kill == Stop

\* check_restrictions() in append only mode, away from the end of data: the
\* pointer OK_2_write is set to null instead of what it points to, and read.
RefusedOverwrite == Idle /\ MayWrite /\ appendOnly /\ Stop

Init ==
    /\ medium = [c \in Cartridges |-> [NoMam EXCEPT !.vcr = IF c \in Used THEN Top ELSE 0]]
    /\ mam = NoMam /\ cart = None /\ status = "unloaded" /\ barcode = None
    /\ save = "no" /\ alarm = "none" /\ cleaning = 0 /\ delay = FALSE
    /\ protect = FALSE /\ appendOnly = FALSE /\ vcrUpdated = FALSE /\ told = {}
    /\ load = 0 /\ stops = 0 /\ orders = 0
    /\ changed = [c \in Cartridges |-> 0] /\ cohLoad = [c \in Cartridges |-> 0]
    /\ ended = [c \in Cartridges |-> "unload"] /\ silent = {}

Next ==
    \/ \E c \in Cartridges : LibraryLoad(c) \/ OperatorLoad(c) \/ EditTape(c)
    \/ FinishLoad \/ RejectLoad
    \/ HostUnload \/ LibraryUnload \/ FinishUnload
    \/ MountAlarm \/ CleanAlarm
    \/ BeginChange \/ FinishChange \/ SetCapacity \/ WriteCoherency
    \/ SetDelay \/ SetAppendOnly \/ RefusedOverwrite \/ Exit \/ Kill

\* A handler goes on to its end, and the kernel delivers the alarm.
Fairness ==
    /\ WF_vars(FinishLoad) /\ WF_vars(RejectLoad) /\ WF_vars(FinishUnload)
    /\ WF_vars(FinishChange) /\ WF_vars(MountAlarm) /\ WF_vars(CleanAlarm)

Spec == Init /\ [][Next]_vars /\ Fairness
=============================================================================
