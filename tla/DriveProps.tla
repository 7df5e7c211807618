----------------------------- MODULE DriveProps -----------------------------
(* What the mounts of a drive must keep, whatever stops the daemon. *)
EXTENDS Drive

Vcrs == 0 .. Top
Mams == [vcr : Vcrs, coh : Vcrs, dirty : BOOLEAN, wp : BOOLEAN]

\* Every variable has its type: the records and the states of vtltape.c.
TypeOK ==
    /\ medium \in [Cartridges -> Mams] /\ mam \in Mams
    /\ cart \in Cartridges \cup {None} /\ barcode \in Cartridges \cup {None}
    /\ status \in {"unloaded", "loading", "loaded"}
    /\ save \in {"no", "library", "operator", "eject", "unload", "change"}
    /\ alarm \in {"none", "mount", "clean"} /\ cleaning \in 0 .. 3
    /\ delay \in BOOLEAN /\ protect \in BOOLEAN /\ appendOnly \in BOOLEAN
    /\ vcrUpdated \in BOOLEAN
    /\ told \subseteq {"lost", "cleaning", "unsupported"}
    /\ load \in 0 .. MaxLoads /\ stops \in 0 .. MaxStops /\ orders \in 0 .. MaxOrders
    /\ changed \in [Cartridges -> 0 .. MaxLoads]
    /\ cohLoad \in [Cartridges -> 0 .. MaxLoads]
    /\ ended \in [Cartridges -> {"unload", "killed", "rejected", "torn"}]
    /\ silent \subseteq Cartridges

\* A coherency record whose reference is the one on the medium can be trusted: no
\* later load has changed the data, whenever the daemon was killed.  SET CAPACITY
\* erases without a new reference and is left out.
VcrTells ==
    \A c \in Cartridges \ silent :
        (medium[c].coh # 0 /\ medium[c].coh = medium[c].vcr) => changed[c] <= cohLoad[c]

\* A load raises the flag for lost statistics exactly if the load before it did not
\* end with an unload, whether the daemon died or the medium was refused.
LostTold ==
    (status # "unloaded" /\ Idle /\ ended[cart] # "torn") =>
        ("lost" \in told <=> ended[cart] \in {"killed", "rejected"})

\* The mouth is not empty while a cartridge is open, so the library cannot put
\* another one on top of it.
MouthFull == (cart # None /\ Idle) => barcode # None

\* The data of a data cartridge change only if the switch on that very cartridge is
\* off and the drive writes its generation, except by SET CAPACITY.
Protected ==
    [][\A c \in Data : changed'[c] # changed[c] =>
           \/ c = cart /\ status = "loaded" /\ ~medium[c].wp /\ c \notin ReadOnly
           \/ c \in silent']_vars

\* A drive that becomes ready becomes ready, and a cleaning cartridge whose timer
\* runs gets through its stages: the two uses of the alarm do not starve each other.
LoadingEnds == (status = "loading") ~> (status # "loading")
CleaningEnds ==
    (cart \in Clean /\ status = "loaded" /\ alarm = "clean")
        ~> (cleaning = 3 \/ cart \notin Clean)
TimersEnd == LoadingEnds /\ CleaningEnds
=============================================================================
