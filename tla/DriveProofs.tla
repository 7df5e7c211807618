----------------------------- MODULE DriveProofs -----------------------------
(***************************************************************************)
(* Proofs about the mounts of a drive: their types, that the volume change *)
(* reference and the flag for lost statistics tell the truth after any     *)
(* kill, and that a protected cartridge is not written.                    *)
(***************************************************************************)
EXTENDS DriveProps, TLAPS

LoadSaves   == {"library", "operator"}
UnloadSaves == {"eject", "unload"}

\* A cartridge is open exactly while the drive is not unloaded, and then it is
\* in the mouth; the timer of a cleaning cartridge has a state to leave.
Shape ==
    /\ status = "unloaded" <=> cart = None
    /\ cart # None => barcode # None
    /\ save # "no" => cart # None
    /\ save = "change" => vcrUpdated
    /\ alarm = "clean" => cleaning \in {1, 2}

\* The age of a reference, where the one of a used cartridge counts as its first.
Age(v) == IF v = Top THEN 0 ELSE v

\* The references in memory are those on the medium, and younger than the load.
References ==
    /\ cart # None => mam.vcr = medium[cart].vcr /\ mam.coh = medium[cart].coh
    /\ \A c \in Cartridges :
          /\ changed[c] <= load /\ cohLoad[c] <= load
          /\ Age(medium[c].vcr) <= load
          /\ c = cart /\ ~vcrUpdated => Age(medium[c].vcr) < load

\* A coherency record is older than the reference on the medium, or as old and
\* then no later load has changed the data, nor this one since a new reference.
Coherent(c) ==
    \/ medium[c].coh = 0
    \/ Age(medium[c].coh) < Age(medium[c].vcr)
    \/ /\ medium[c].coh = medium[c].vcr
       /\ c \notin silent => changed[c] <= cohLoad[c]
       /\ c = cart /\ vcrUpdated => cohLoad[c] = load

Trusted == \A c \in Cartridges : Coherent(c)

\* The dirty flag of a closed cartridge tells how its last load ended, that of an
\* open one is up on the medium until the unload is complete.
Dirt ==
    /\ \A c \in Cartridges : c # cart =>
          /\ ended[c] = "unload" => ~medium[c].dirty
          /\ ended[c] \in {"killed", "rejected"} => medium[c].dirty
    /\ cart # None =>
          /\ save \notin LoadSaves => medium[cart].dirty
          /\ save \notin UnloadSaves => mam.dirty
          /\ save \in UnloadSaves => ~mam.dirty
          /\ ended[cart] # "torn" =>
                ("lost" \in told <=> ended[cart] \in {"killed", "rejected"})

\* The protection in force is that of the open data cartridge, and a change of its
\* data began under it.
Guarded ==
    /\ cart # None => (mam.wp <=> medium[cart].wp)
    /\ cart \in Data /\ save \notin LoadSaves =>
          (protect <=> cart \in ReadOnly \/ mam.wp)
    /\ cart \in Data /\ save = "change" =>
          status = "loaded" /\ ~mam.wp /\ cart \notin ReadOnly

IInv == TypeOK /\ Shape /\ References /\ Trusted /\ Dirt /\ Guarded

\* The library finds the drive empty; the mouth is emptied.
Emptied ==
    /\ Idle /\ status = "unloaded" /\ barcode' = None
    /\ UNCHANGED <<medium, mam, cart, status, save, alarm, cleaning, delay, protect,
                   appendOnly, vcrUpdated, told, bounds, history>>

-----------------------------------------------------------------------------

\* A step is one of these: three unloads begin, and three ways stop the daemon.
LEMMA Steps ==
    ASSUME TypeOK, [Next]_vars
    PROVE  \/ \E c \in Cartridges : LibraryLoad(c) \/ OperatorLoad(c) \/ EditTape(c)
           \/ FinishLoad \/ RejectLoad
           \/ \E by \in UnloadSaves : status # "unloaded" /\ BeginUnload(by)
           \/ Emptied \/ FinishUnload \/ MountAlarm \/ CleanAlarm
           \/ BeginChange \/ FinishChange \/ SetCapacity \/ WriteCoherency
           \/ SetDelay \/ SetAppendOnly \/ Stop
           \/ UNCHANGED vars
<1>1. HostUnload => \E by \in UnloadSaves : status # "unloaded" /\ BeginUnload(by)
  BY DEF HostUnload, UnloadSaves
<1>2. LibraryUnload =>
          (\E by \in UnloadSaves : status # "unloaded" /\ BeginUnload(by)) \/ Emptied
  BY DEF LibraryUnload, MayUnload, UnloadSaves, Emptied, TypeOK
<1>3. RefusedOverwrite \/ Exit \/ Kill => Stop
  BY DEF RefusedOverwrite, Exit, Kill
<1> QED
  BY <1>1, <1>2, <1>3 DEF Next

\* The types, in three parts: the MAM, the flags, and the rest.
MamTyped   == medium \in [Cartridges -> Mams] /\ mam \in Mams
FlagsTyped ==
    /\ delay \in BOOLEAN /\ protect \in BOOLEAN /\ appendOnly \in BOOLEAN
    /\ vcrUpdated \in BOOLEAN
RestTyped ==
    /\ cart \in Cartridges \cup {None} /\ barcode \in Cartridges \cup {None}
    /\ status \in {"unloaded", "loading", "loaded"}
    /\ save \in {"no", "library", "operator", "eject", "unload", "change"}
    /\ alarm \in {"none", "mount", "clean"} /\ cleaning \in 0 .. 3
    /\ told \subseteq {"lost", "cleaning", "unsupported"}
    /\ load \in 0 .. MaxLoads /\ stops \in 0 .. MaxStops /\ orders \in 0 .. MaxOrders
    /\ changed \in [Cartridges -> 0 .. MaxLoads]
    /\ cohLoad \in [Cartridges -> 0 .. MaxLoads]
    /\ ended \in [Cartridges -> {"unload", "killed", "rejected", "torn"}]
    /\ silent \subseteq Cartridges

\* Every step keeps the types of the MAM.
LEMMA StepMamTyped == TypeOK /\ Shape /\ [Next]_vars => MamTyped'
<1> SUFFICES ASSUME TypeOK, Shape, [Next]_vars PROVE MamTyped'
  OBVIOUS
<1> USE DriveAssumption DEF TypeOK, MamTyped, Vcrs, Mams, Idle, Shape, NoMam
<1>1. ASSUME NEW c \in Cartridges, LibraryLoad(c) PROVE MamTyped'
  BY <1>1 DEF LibraryLoad, BeginLoad
<1>2. ASSUME NEW c \in Cartridges, OperatorLoad(c) PROVE MamTyped'
  BY <1>2 DEF OperatorLoad, BeginLoad
<1>3. ASSUME NEW c \in Cartridges, EditTape(c) PROVE MamTyped'
  BY <1>3 DEF EditTape, Order, daemon
<1>5. ASSUME FinishLoad PROVE MamTyped'
  BY <1>5 DEF FinishLoad, Second
<1>6. ASSUME RejectLoad PROVE MamTyped'
  BY <1>6 DEF RejectLoad, Second
<1>7. ASSUME NEW by \in UnloadSaves, status # "unloaded", BeginUnload(by) PROVE MamTyped'
  BY <1>7 DEF BeginUnload, Main, Cleanly
<1>8. ASSUME Emptied PROVE MamTyped'
  BY <1>8 DEF Emptied
<1>9. ASSUME FinishUnload PROVE MamTyped'
  BY <1>9 DEF FinishUnload, Second
<1>10. ASSUME MountAlarm PROVE MamTyped'
  BY <1>10 DEF MountAlarm
<1>11. ASSUME CleanAlarm PROVE MamTyped'
  BY <1>11 DEF CleanAlarm, Rearm
<1>12. ASSUME BeginChange PROVE MamTyped'
  BY <1>12 DEF BeginChange, Main, Bump
<1>13. ASSUME FinishChange PROVE MamTyped'
  BY <1>13 DEF FinishChange, Second
<1>14. ASSUME SetCapacity PROVE MamTyped'
  BY <1>14 DEF SetCapacity, daemon
<1>15. ASSUME WriteCoherency PROVE MamTyped'
  BY <1>15 DEF WriteCoherency, Main
<1>16. ASSUME SetDelay PROVE MamTyped'
  BY <1>16 DEF SetDelay, Order
<1>17. ASSUME SetAppendOnly PROVE MamTyped'
  BY <1>17 DEF SetAppendOnly, Order
<1>18. ASSUME Stop PROVE MamTyped'
  BY <1>18 DEF Stop
<1>19. CASE UNCHANGED vars
  BY <1>19 DEF vars, daemon, bounds, history
<1> QED
  BY <1>1, <1>2, <1>3, <1>5, <1>6, <1>7, <1>8, <1>9, <1>10, <1>11, <1>12, <1>13, <1>14, <1>15, <1>16, <1>17, <1>18, <1>19, Steps

\* Every step keeps the types of the flags.
LEMMA StepFlagsTyped == TypeOK /\ Shape /\ [Next]_vars => FlagsTyped'
<1> SUFFICES ASSUME TypeOK, Shape, [Next]_vars PROVE FlagsTyped'
  OBVIOUS
<1> USE DriveAssumption DEF TypeOK, FlagsTyped
<1>1. ASSUME NEW c \in Cartridges, LibraryLoad(c) PROVE FlagsTyped'
  BY <1>1 DEF LibraryLoad, BeginLoad, FlagOnLoad
<1>2. ASSUME NEW c \in Cartridges, OperatorLoad(c) PROVE FlagsTyped'
  BY <1>2 DEF OperatorLoad, BeginLoad, FlagOnLoad
<1>3. ASSUME NEW c \in Cartridges, EditTape(c) PROVE FlagsTyped'
  BY <1>3 DEF EditTape, Order, daemon
<1>5. ASSUME FinishLoad PROVE FlagsTyped'
  <2>1. WriteProtected(cart, mam) \in BOOLEAN
    BY DEF WriteProtected, Mams
  <2>2. protect' \in BOOLEAN
    BY <1>5, <2>1, Zenon DEF FinishLoad
  <2> QED
    BY <1>5, <2>2, Zenon DEF FinishLoad
<1>6. ASSUME RejectLoad PROVE FlagsTyped'
  BY <1>6 DEF RejectLoad, Delayed
<1>7. ASSUME NEW by \in UnloadSaves, status # "unloaded", BeginUnload(by) PROVE FlagsTyped'
  BY <1>7 DEF BeginUnload, Main, Cleanly
<1>8. ASSUME Emptied PROVE FlagsTyped'
  BY <1>8 DEF Emptied
<1>9. ASSUME FinishUnload PROVE FlagsTyped'
  BY <1>9 DEF FinishUnload, Second
<1>10. ASSUME MountAlarm PROVE FlagsTyped'
  BY <1>10 DEF MountAlarm
<1>11. ASSUME CleanAlarm PROVE FlagsTyped'
  BY <1>11 DEF CleanAlarm, Rearm
<1>12. ASSUME BeginChange PROVE FlagsTyped'
  BY <1>12 DEF BeginChange, Main, Bump
<1>13. ASSUME FinishChange PROVE FlagsTyped'
  BY <1>13 DEF FinishChange, Second
<1>14. ASSUME SetCapacity PROVE FlagsTyped'
  BY <1>14 DEF SetCapacity, daemon
<1>15. ASSUME WriteCoherency PROVE FlagsTyped'
  BY <1>15 DEF WriteCoherency, Main
<1>16. ASSUME SetDelay PROVE FlagsTyped'
  BY <1>16 DEF SetDelay, Order
<1>17. ASSUME SetAppendOnly PROVE FlagsTyped'
  BY <1>17 DEF SetAppendOnly, Order
<1>18. ASSUME Stop PROVE FlagsTyped'
  BY <1>18 DEF Stop
<1>19. CASE UNCHANGED vars
  BY <1>19 DEF vars, daemon, bounds, history
<1> QED
  BY <1>1, <1>2, <1>3, <1>5, <1>6, <1>7, <1>8, <1>9, <1>10, <1>11, <1>12, <1>13, <1>14, <1>15, <1>16, <1>17, <1>18, <1>19, Steps

\* Every step keeps the types of the rest.
LEMMA StepRestTyped == TypeOK /\ Shape /\ [Next]_vars => RestTyped'
<1> SUFFICES ASSUME TypeOK, Shape, [Next]_vars PROVE RestTyped'
  OBVIOUS
<1> USE DriveAssumption DEF RestTyped, Shape, Idle, LoadSaves, UnloadSaves, bounds, history, TypeOK
<1>1. ASSUME NEW c \in Cartridges, LibraryLoad(c) PROVE RestTyped'
  BY <1>1 DEF LibraryLoad, BeginLoad
<1>2. ASSUME NEW c \in Cartridges, OperatorLoad(c) PROVE RestTyped'
  BY <1>2 DEF OperatorLoad, BeginLoad
<1>3. ASSUME NEW c \in Cartridges, EditTape(c) PROVE RestTyped'
  BY <1>3 DEF EditTape, Order, daemon
<1>5. ASSUME FinishLoad PROVE RestTyped'
  BY <1>5 DEF FinishLoad, Delayed
<1>6. ASSUME RejectLoad PROVE RestTyped'
  BY <1>6 DEF RejectLoad, Delayed
<1>7. ASSUME NEW by \in UnloadSaves, status # "unloaded", BeginUnload(by) PROVE RestTyped'
  BY <1>7 DEF BeginUnload, Main, Cleanly
<1>8. ASSUME Emptied PROVE RestTyped'
  BY <1>8 DEF Emptied
<1>9. ASSUME FinishUnload PROVE RestTyped'
  BY <1>9 DEF FinishUnload, Second
<1>10. ASSUME MountAlarm PROVE RestTyped'
  BY <1>10 DEF MountAlarm
<1>11. ASSUME CleanAlarm PROVE RestTyped'
  BY <1>11 DEF CleanAlarm, Rearm
<1>12. ASSUME BeginChange PROVE RestTyped'
  BY <1>12 DEF BeginChange, Main, Bump
<1>13. ASSUME FinishChange PROVE RestTyped'
  BY <1>13 DEF FinishChange, Second
<1>14. ASSUME SetCapacity PROVE RestTyped'
  BY <1>14 DEF SetCapacity, daemon
<1>15. ASSUME WriteCoherency PROVE RestTyped'
  BY <1>15 DEF WriteCoherency, Main
<1>16. ASSUME SetDelay PROVE RestTyped'
  BY <1>16 DEF SetDelay, Order
<1>17. ASSUME SetAppendOnly PROVE RestTyped'
  BY <1>17 DEF SetAppendOnly, Order
<1>18. ASSUME Stop PROVE RestTyped'
  BY <1>18 DEF Stop
<1>19. CASE UNCHANGED vars
  BY <1>19 DEF vars, daemon, bounds, history
<1> QED
  BY <1>1, <1>2, <1>3, <1>5, <1>6, <1>7, <1>8, <1>9, <1>10, <1>11, <1>12, <1>13, <1>14, <1>15, <1>16, <1>17, <1>18, <1>19, Steps

\* Every step keeps the shape of a mount.
LEMMA StepShape == TypeOK /\ Shape /\ [Next]_vars => Shape'
<1> SUFFICES ASSUME TypeOK, Shape, [Next]_vars PROVE Shape'
  OBVIOUS
<1> USE DriveAssumption DEF TypeOK, Shape, Idle, LoadSaves, UnloadSaves, bounds, history
<1>1. ASSUME NEW c \in Cartridges, LibraryLoad(c) PROVE Shape'
  BY <1>1 DEF LibraryLoad, BeginLoad
<1>2. ASSUME NEW c \in Cartridges, OperatorLoad(c) PROVE Shape'
  BY <1>2 DEF OperatorLoad, BeginLoad
<1>3. ASSUME NEW c \in Cartridges, EditTape(c) PROVE Shape'
  BY <1>3 DEF EditTape, Order, daemon
<1>5. ASSUME FinishLoad PROVE Shape'
  BY <1>5 DEF FinishLoad, Delayed
<1>6. ASSUME RejectLoad PROVE Shape'
  BY <1>6 DEF RejectLoad, Delayed
<1>7. ASSUME NEW by \in UnloadSaves, status # "unloaded", BeginUnload(by) PROVE Shape'
  BY <1>7 DEF BeginUnload, Main, Cleanly
<1>8. ASSUME Emptied PROVE Shape'
  BY <1>8 DEF Emptied
<1>9. ASSUME FinishUnload PROVE Shape'
  BY <1>9 DEF FinishUnload, Second
<1>10. ASSUME MountAlarm PROVE Shape'
  BY <1>10 DEF MountAlarm
<1>11. ASSUME CleanAlarm PROVE Shape'
  BY <1>11 DEF CleanAlarm, Rearm
<1>12. ASSUME BeginChange PROVE Shape'
  BY <1>12 DEF BeginChange, MayWrite, WormMark, Cartridges
<1>13. ASSUME FinishChange PROVE Shape'
  BY <1>13 DEF FinishChange, Second
<1>14. ASSUME SetCapacity PROVE Shape'
  BY <1>14 DEF SetCapacity, daemon
<1>15. ASSUME WriteCoherency PROVE Shape'
  BY <1>15 DEF WriteCoherency, Main
<1>16. ASSUME SetDelay PROVE Shape'
  BY <1>16 DEF SetDelay, Order
<1>17. ASSUME SetAppendOnly PROVE Shape'
  BY <1>17 DEF SetAppendOnly, Order
<1>18. ASSUME Stop PROVE Shape'
  BY <1>18 DEF Stop
<1>19. CASE UNCHANGED vars
  BY <1>19 DEF vars, daemon, bounds, history
<1> QED
  BY <1>1, <1>2, <1>3, <1>5, <1>6, <1>7, <1>8, <1>9, <1>10, <1>11, <1>12, <1>13, <1>14, <1>15, <1>16, <1>17, <1>18, <1>19, Steps

\* Every step keeps the references in memory and on the medium alike, and young.
LEMMA StepReferences == TypeOK /\ Shape /\ References /\ [Next]_vars => References'
<1> SUFFICES ASSUME TypeOK, Shape, References, [Next]_vars PROVE References'
  OBVIOUS
<1> USE DriveAssumption DEF TypeOK, Vcrs, Mams, Shape, References, Age, Idle, LoadSaves, UnloadSaves, bounds, history
<1>1. ASSUME NEW c \in Cartridges, LibraryLoad(c) PROVE References'
  BY <1>1 DEF LibraryLoad, BeginLoad, FlagOnLoad
<1>2. ASSUME NEW c \in Cartridges, OperatorLoad(c) PROVE References'
  BY <1>2 DEF OperatorLoad, BeginLoad, FlagOnLoad
<1>3. ASSUME NEW c \in Cartridges, EditTape(c) PROVE References'
  BY <1>3 DEF EditTape, Order, daemon
<1>5. ASSUME FinishLoad PROVE References'
  BY <1>5 DEF FinishLoad, Second, Delayed
<1>6. ASSUME RejectLoad PROVE References'
  BY <1>6 DEF RejectLoad, Second, Delayed
<1>7. ASSUME NEW by \in UnloadSaves, status # "unloaded", BeginUnload(by) PROVE References'
  BY <1>7 DEF BeginUnload, Main, Cleanly
<1>8. ASSUME Emptied PROVE References'
  BY <1>8 DEF Emptied
<1>9. ASSUME FinishUnload PROVE References'
  BY <1>9 DEF FinishUnload, Second
<1>10. ASSUME MountAlarm PROVE References'
  BY <1>10 DEF MountAlarm
<1>11. ASSUME CleanAlarm PROVE References'
  BY <1>11 DEF CleanAlarm, Rearm
<1>12. ASSUME BeginChange PROVE References'
  BY <1>12 DEF BeginChange, MayWrite, WormMark, Cartridges, Main, Bump
<1>13. ASSUME FinishChange PROVE References'
  BY <1>13 DEF FinishChange, Second
<1>14. ASSUME SetCapacity PROVE References'
  BY <1>14 DEF SetCapacity, daemon
<1>15. ASSUME WriteCoherency PROVE References'
  BY <1>15 DEF WriteCoherency, Main
<1>16. ASSUME SetDelay PROVE References'
  BY <1>16 DEF SetDelay, Order
<1>17. ASSUME SetAppendOnly PROVE References'
  BY <1>17 DEF SetAppendOnly, Order
<1>18. ASSUME Stop PROVE References'
  BY <1>18 DEF Stop
<1>19. CASE UNCHANGED vars
  BY <1>19 DEF vars, daemon, bounds, history
<1> QED
  BY <1>1, <1>2, <1>3, <1>5, <1>6, <1>7, <1>8, <1>9, <1>10, <1>11, <1>12, <1>13, <1>14, <1>15, <1>16, <1>17, <1>18, <1>19, Steps

\* Every step keeps the coherency records true.
LEMMA StepTrusted == TypeOK /\ Shape /\ References /\ Trusted /\ [Next]_vars => Trusted'
<1> SUFFICES ASSUME TypeOK, Shape, References, Trusted, [Next]_vars PROVE Trusted'
  OBVIOUS
<1> USE DriveAssumption DEF TypeOK, Vcrs, Mams, Shape, References, Trusted, Coherent, Age, Idle, bounds, history
<1>1. ASSUME NEW c \in Cartridges, LibraryLoad(c) PROVE Trusted'
  BY <1>1 DEF LibraryLoad, BeginLoad, FlagOnLoad
<1>2. ASSUME NEW c \in Cartridges, OperatorLoad(c) PROVE Trusted'
  BY <1>2 DEF OperatorLoad, BeginLoad, FlagOnLoad
<1>3. ASSUME NEW c \in Cartridges, EditTape(c) PROVE Trusted'
  BY <1>3 DEF EditTape, Order, daemon
<1>5. ASSUME FinishLoad PROVE Trusted'
  BY <1>5 DEF FinishLoad, Second, Delayed
<1>6. ASSUME RejectLoad PROVE Trusted'
  BY <1>6 DEF RejectLoad, Second, Delayed
<1>7. ASSUME NEW by \in UnloadSaves, status # "unloaded", BeginUnload(by) PROVE Trusted'
  BY <1>7 DEF BeginUnload, Main, Cleanly
<1>8. ASSUME Emptied PROVE Trusted'
  BY <1>8 DEF Emptied
<1>9. ASSUME FinishUnload PROVE Trusted'
  BY <1>9 DEF FinishUnload, Second
<1>10. ASSUME MountAlarm PROVE Trusted'
  BY <1>10 DEF MountAlarm
<1>11. ASSUME CleanAlarm PROVE Trusted'
  BY <1>11 DEF CleanAlarm, Rearm
<1>12. ASSUME BeginChange PROVE Trusted'
  BY <1>12 DEF BeginChange, MayWrite, WormMark, Cartridges, Main, Bump
<1>13. ASSUME FinishChange PROVE Trusted'
  BY <1>13 DEF FinishChange, Second
<1>14. ASSUME SetCapacity PROVE Trusted'
  BY <1>14 DEF SetCapacity, daemon
<1>15. ASSUME WriteCoherency PROVE Trusted'
  BY <1>15 DEF WriteCoherency, Main
<1>16. ASSUME SetDelay PROVE Trusted'
  BY <1>16 DEF SetDelay, Order
<1>17. ASSUME SetAppendOnly PROVE Trusted'
  BY <1>17 DEF SetAppendOnly, Order
<1>18. ASSUME Stop PROVE Trusted'
  BY <1>18 DEF Stop
<1>19. CASE UNCHANGED vars
  BY <1>19 DEF vars, daemon, bounds, history
<1> QED
  BY <1>1, <1>2, <1>3, <1>5, <1>6, <1>7, <1>8, <1>9, <1>10, <1>11, <1>12, <1>13, <1>14, <1>15, <1>16, <1>17, <1>18, <1>19, Steps

\* Every step keeps what the dirty flag tells.
LEMMA StepDirt == TypeOK /\ Shape /\ Dirt /\ [Next]_vars => Dirt'
<1> SUFFICES ASSUME TypeOK, Shape, Dirt, [Next]_vars PROVE Dirt'
  OBVIOUS
<1> USE DriveAssumption DEF TypeOK, Mams, Shape, Dirt, Idle, LoadSaves, UnloadSaves, bounds, history
<1>1. ASSUME NEW c \in Cartridges, LibraryLoad(c) PROVE Dirt'
  BY <1>1 DEF LibraryLoad, BeginLoad
<1>2. ASSUME NEW c \in Cartridges, OperatorLoad(c) PROVE Dirt'
  BY <1>2 DEF OperatorLoad, BeginLoad
<1>3. ASSUME NEW c \in Cartridges, EditTape(c) PROVE Dirt'
  BY <1>3 DEF EditTape, Order, daemon
<1>5. ASSUME FinishLoad PROVE Dirt'
  BY <1>5 DEF FinishLoad, Second, Delayed
<1>6. ASSUME RejectLoad PROVE Dirt'
  BY <1>6 DEF RejectLoad, Second, Delayed
<1>7. ASSUME NEW by \in UnloadSaves, status # "unloaded", BeginUnload(by) PROVE Dirt'
  BY <1>7 DEF BeginUnload, Main, Cleanly
<1>8. ASSUME Emptied PROVE Dirt'
  BY <1>8 DEF Emptied
<1>9. ASSUME FinishUnload PROVE Dirt'
  BY <1>9 DEF FinishUnload, Second
<1>10. ASSUME MountAlarm PROVE Dirt'
  BY <1>10 DEF MountAlarm
<1>11. ASSUME CleanAlarm PROVE Dirt'
  BY <1>11 DEF CleanAlarm, Rearm
<1>12. ASSUME BeginChange PROVE Dirt'
  BY <1>12 DEF BeginChange, MayWrite, WormMark, Cartridges, Main, Bump
<1>13. ASSUME FinishChange PROVE Dirt'
  BY <1>13 DEF FinishChange, Second
<1>14. ASSUME SetCapacity PROVE Dirt'
  BY <1>14 DEF SetCapacity, daemon
<1>15. ASSUME WriteCoherency PROVE Dirt'
  BY <1>15 DEF WriteCoherency, Main
<1>16. ASSUME SetDelay PROVE Dirt'
  BY <1>16 DEF SetDelay, Order
<1>17. ASSUME SetAppendOnly PROVE Dirt'
  BY <1>17 DEF SetAppendOnly, Order
<1>18. ASSUME Stop PROVE Dirt'
  BY <1>18 DEF Stop
<1>19. CASE UNCHANGED vars
  BY <1>19 DEF vars, daemon, bounds, history
<1> QED
  BY <1>1, <1>2, <1>3, <1>5, <1>6, <1>7, <1>8, <1>9, <1>10, <1>11, <1>12, <1>13, <1>14, <1>15, <1>16, <1>17, <1>18, <1>19, Steps

\* Every step keeps the protection that of the open cartridge.
LEMMA StepGuarded == TypeOK /\ Shape /\ Guarded /\ [Next]_vars => Guarded'
<1> SUFFICES ASSUME TypeOK, Shape, Guarded, [Next]_vars PROVE Guarded'
  OBVIOUS
<1> USE DriveAssumption DEF TypeOK, Mams, Shape, Guarded, Cartridges, Idle, LoadSaves, UnloadSaves, bounds, history
<1>1. ASSUME NEW c \in Cartridges, LibraryLoad(c) PROVE Guarded'
  BY <1>1 DEF LibraryLoad, BeginLoad
<1>2. ASSUME NEW c \in Cartridges, OperatorLoad(c) PROVE Guarded'
  BY <1>2 DEF OperatorLoad, BeginLoad
<1>3. ASSUME NEW c \in Cartridges, EditTape(c) PROVE Guarded'
  BY <1>3 DEF EditTape, Order, daemon
<1>5. ASSUME FinishLoad PROVE Guarded'
  BY <1>5 DEF FinishLoad, Second, Delayed, WriteProtected
<1>6. ASSUME RejectLoad PROVE Guarded'
  BY <1>6 DEF RejectLoad, Second, Delayed
<1>7. ASSUME NEW by \in UnloadSaves, status # "unloaded", BeginUnload(by) PROVE Guarded'
  BY <1>7 DEF BeginUnload, Main, Cleanly
<1>8. ASSUME Emptied PROVE Guarded'
  BY <1>8 DEF Emptied
<1>9. ASSUME FinishUnload PROVE Guarded'
  BY <1>9 DEF FinishUnload, Second
<1>10. ASSUME MountAlarm PROVE Guarded'
  BY <1>10 DEF MountAlarm
<1>11. ASSUME CleanAlarm PROVE Guarded'
  BY <1>11 DEF CleanAlarm, Rearm
<1>12. ASSUME BeginChange PROVE Guarded'
  BY <1>12 DEF BeginChange, MayWrite, WormMark, Cartridges, Main, Bump
<1>13. ASSUME FinishChange PROVE Guarded'
  BY <1>13 DEF FinishChange, Second
<1>14. ASSUME SetCapacity PROVE Guarded'
  BY <1>14 DEF SetCapacity, daemon
<1>15. ASSUME WriteCoherency PROVE Guarded'
  BY <1>15 DEF WriteCoherency, Main
<1>16. ASSUME SetDelay PROVE Guarded'
  BY <1>16 DEF SetDelay, Order
<1>17. ASSUME SetAppendOnly PROVE Guarded'
  BY <1>17 DEF SetAppendOnly, Order
<1>18. ASSUME Stop PROVE Guarded'
  BY <1>18 DEF Stop
<1>19. CASE UNCHANGED vars
  BY <1>19 DEF vars, daemon, bounds, history
<1> QED
  BY <1>1, <1>2, <1>3, <1>5, <1>6, <1>7, <1>8, <1>9, <1>10, <1>11, <1>12, <1>13, <1>14, <1>15, <1>16, <1>17, <1>18, <1>19, Steps

-----------------------------------------------------------------------------

\* The drive starts empty and every cartridge as it left the last one.
LEMMA InitIInv == Init => IInv
<1> SUFFICES ASSUME Init PROVE IInv
  OBVIOUS
<1> USE DriveAssumption DEF Init, NoMam
<1>1. MamTyped /\ RestTyped
  <2>1. NoMam \in Mams /\ [NoMam EXCEPT !.vcr = Top] \in Mams
    <3>1. 0 \in Vcrs /\ Top \in Vcrs
      BY SMT DEF Vcrs
    <3>2. NoMam \in Mams
      BY <3>1, Zenon DEF Mams
    <3> QED
      BY <3>1, <3>2 DEF Mams
  <2>2. MamTyped
    BY <2>1 DEF MamTyped
  <2>3. load \in 0 .. MaxLoads /\ stops \in 0 .. MaxStops /\ orders \in 0 .. MaxOrders
    BY SMT
  <2>4. /\ changed \in [Cartridges -> 0 .. MaxLoads]
        /\ cohLoad \in [Cartridges -> 0 .. MaxLoads]
        /\ ended \in [Cartridges -> {"unload", "killed", "rejected", "torn"}]
    BY SMT
  <2> QED
    BY <2>2, <2>3, <2>4 DEF RestTyped
<1>2. FlagsTyped
  BY Zenon DEF FlagsTyped
<1>3. TypeOK
  BY <1>1, <1>2, Zenon DEF TypeOK, MamTyped, FlagsTyped, RestTyped
<1>4. Shape
  BY DEF Shape
<1>5. References
  BY DEF References, Age
<1>6. Trusted
  BY DEF Trusted, Coherent
<1>7. Dirt
  BY DEF Dirt
<1>8. Guarded
  BY DEF Guarded, Cartridges
<1> QED
  BY <1>3, <1>4, <1>5, <1>6, <1>7, <1>8 DEF IInv

\* Every message, command, timer and kill keeps it.
LEMMA StepIInv == IInv /\ [Next]_vars => IInv'
<1> SUFFICES ASSUME IInv, [Next]_vars PROVE IInv'
  OBVIOUS
<1>1. TypeOK'
  <2>1. MamTyped' /\ FlagsTyped' /\ RestTyped'
    BY StepMamTyped, StepFlagsTyped, StepRestTyped DEF IInv
  <2> QED
    BY <2>1, Zenon DEF TypeOK, MamTyped, FlagsTyped, RestTyped
<1> QED
  BY <1>1, StepShape, StepReferences, StepTrusted, StepDirt, StepGuarded DEF IInv

\* It holds in every state.
LEMMA Inductive == Spec => []IInv
BY InitIInv, StepIInv, PTL DEF Spec

\* Every variable keeps its type, for any cartridges and any number of loads
\* (vtltape.c).
THEOREM TypeCorrect == Spec => []TypeOK
<1>1. IInv => TypeOK
  BY DEF IInv
<1> QED
  BY Inductive, <1>1, PTL

\* update_volume_change_reference(): a coherency record whose reference is that of
\* the medium can be trusted.
THEOREM ReferenceTells == Spec => []VcrTells
<1>1. IInv => VcrTells
  <2> SUFFICES ASSUME IInv, NEW c \in Cartridges \ silent,
                      medium[c].coh # 0, medium[c].coh = medium[c].vcr
               PROVE  changed[c] <= cohLoad[c]
    BY DEF VcrTells
  <2>1. Coherent(c)
    BY DEF IInv, Trusted
  <2>2. medium[c].vcr \in Nat
    BY DriveAssumption DEF IInv, TypeOK, Mams, Vcrs
  <2> QED
    BY <2>1, <2>2, DriveAssumption DEF Coherent, Age
<1> QED
  BY Inductive, <1>1, PTL

\* The dirty flag of updateMAM(): a load tells of the one before it that did not end.
THEOREM DirtyTells == Spec => []LostTold
<1>1. IInv => LostTold
  BY DEF IInv, Shape, Dirt, LostTold
<1> QED
  BY Inductive, <1>1, PTL

\* lu_ssc.barcode: an open cartridge is in the mouth.
THEOREM MouthKept == Spec => []MouthFull
<1>1. IInv => MouthFull
  BY DEF IInv, Shape, MouthFull
<1> QED
  BY Inductive, <1>1, PTL

\* check_restrictions(): the data of a protected cartridge, or of one the drive only
\* reads, change by SET CAPACITY only.
THEOREM ProtectionHolds == Spec => Protected
<1>1. IInv /\ [Next]_vars =>
        [\A c \in Data : changed'[c] # changed[c] =>
           \/ c = cart /\ status = "loaded" /\ ~medium[c].wp /\ c \notin ReadOnly
           \/ c \in silent']_vars
  <2> SUFFICES ASSUME IInv, [Next]_vars, NEW c \in Data, changed'[c] # changed[c]
               PROVE  \/ c = cart /\ status = "loaded" /\ ~medium[c].wp /\ c \notin ReadOnly
                      \/ c \in silent'
    OBVIOUS
  <2> USE DriveAssumption
  <2>1. c \in Cartridges /\ TypeOK
    BY DEF IInv, Cartridges
  <2>2. CASE SetCapacity
    BY <2>1, <2>2 DEF SetCapacity, TypeOK
  <2>3. CASE FinishChange
    <3>1. c = cart /\ save = "change"
      BY <2>1, <2>3 DEF FinishChange, TypeOK
    <3> QED
      BY <2>1, <3>1 DEF IInv, Guarded
  <2>4. changed' = changed \/ SetCapacity \/ FinishChange
    BY <2>1, Steps
       DEF LibraryLoad, OperatorLoad, BeginLoad, EditTape, FinishLoad,
           RejectLoad, BeginUnload, Emptied, FinishUnload, MountAlarm, CleanAlarm,
           BeginChange, WriteCoherency, SetDelay, SetAppendOnly, Stop, vars, history
  <2> QED
    BY <2>2, <2>3, <2>4
<1> QED
  BY Inductive, <1>1, PTL DEF Spec, Protected
=============================================================================
