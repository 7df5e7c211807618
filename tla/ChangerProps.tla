---------------------------- MODULE ChangerProps ----------------------------
(***************************************************************************)
(* What the library and its drives must agree on.                          *)
(***************************************************************************)
EXTENDS Changer

Texts == {"mount_state", "lload", "unload", "set_empty", "Register", "eject",
          "occupied", "Not occupied", "Loaded OK", "Load failed", "Unloaded OK",
          "open map", "close map", "load map", "empty map"}

Mail == [from : Daemons \cup {Oper}, text : Texts, cart : Carts \cup {None}]

\* Every variable keeps its shape: above all, no message of a command that has
\* ended makes the library move a cartridge that is not there.
TypeOK ==
    /\ holds \in [Elements -> Carts \cup {None}]
    /\ access \in [Drives -> BOOLEAN]
    /\ last \in [Drives -> Elements \cup {None}]
    /\ open \in BOOLEAN
    /\ move \in [at : Waits \cup {"idle", "down", "crashed"},
                 src : Elements \cup {None}, dst : Elements \cup {None}]
    /\ inbox \in [Daemons -> Seq(Mail)]
    /\ barcode \in [Drives -> Carts \cup {None}]
    /\ mounted \in [Drives -> BOOLEAN]
    /\ inLibrary \in [Drives -> BOOLEAN]
    /\ mishaps \in [Mishaps -> Nat]

\* No message was taken for the answer to another and no daemon restarted.
Untroubled == \A k \in Mishaps : mishaps[k] = 0

-----------------------------------------------------------------------------
(* The inventory *)

\* No cartridge is in two elements, whatever answers the library mistook for
\* others, loads failed and daemons restarted (move_cart(), load_map(),
\* save_config()).
InventoryUnique ==
    \A e, f \in Elements : holds[e] = holds[f] /\ holds[e] # None => e = f

Present == {holds[e] : e \in Elements} \ {None}

\* With the import/export door closed nothing brings a cartridge in or loses
\* one: no move, no answer, no failure half way through move_drive2drive().
\* A library that goes down may lose one (save_config() has no room for it).
NothingLost ==
    [][~open /\ move'.at # "down" => Present' = Present]_vars

-----------------------------------------------------------------------------
(* The library and the drives agree *)

\* As long as no foreign message was taken for an answer and nobody restarted,
\* between two moves each drive has in its mouth what the inventory says.
InventoryTrue ==
    Untroubled /\ move = Idle => \A d \in Drives : barcode[d] = holds[d]

\* A cartridge is mounted in one drive at most.
MountedOnce ==
    \A d, e \in Drives :
        mounted[d] /\ mounted[e] /\ barcode[d] = barcode[e] => d = e

\* With answers matched and nobody restarted, at every step of every move: a
\* cartridge is mounted in one drive, and while it is, no other command finds
\* it in a slot from which it could be loaded again.  (A cartridge put back by
\* move_drive2drive() leaves its drive open to the picker, so that the next move
\* takes it out of the inventory before "set_empty" unloads it.)
MountedHere ==
    Untroubled =>
        /\ MountedOnce
        /\ \A d \in Drives, s \in Ports :
              mounted[d] /\ holds[s] = barcode[d]
              => \/ move.at = "load" /\ move.src = s /\ move.dst = d
                 \/ move.at = "emptied" /\ move.src = d /\ move.dst = s

\* With answers matched and nobody restarted, the picker is kept from a
\* cartridge in a drive only while the tape is loaded, or until the library
\* reads that it was ejected ("eject", set_access_bit()).
PickerTold ==
    Untroubled /\ move = Idle =>
        \A d \in Drives :
            holds[d] # None /\ ~access[d] =>
                \/ mounted[d]
                \/ \E i \in 1 .. Len(inbox[Lib]) :
                      inbox[Lib][i].from = d /\ inbox[Lib][i].text = "eject"

\* With answers matched and nobody restarted, the library is never led to take
\* a cartridge out of an element that holds none (a NULL medium).
NeverNull == Untroubled => move.at # "crashed"

-----------------------------------------------------------------------------

\* A move that waits for a drive ends, though messages cross, as long as the
\* drives stay registered: a drive that restarted drops "lload" unanswered, and
\* the library, which has no timeout, waits for good.
MoveEnds == Busy ~> (~Busy \/ mishaps["drive"] > 0)

=============================================================================
