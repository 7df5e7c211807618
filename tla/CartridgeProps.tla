--------------------------- MODULE CartridgeProps ---------------------------
(***************************************************************************)
(* What the cartridge store must guarantee.  Which of these hold depends   *)
(* on the failures allowed (constant Faults): see README.md.               *)
(***************************************************************************)
EXTENDS Cartridge, FiniteSets

\* The values the state of the store and of the handler in progress can take.
Steps == {"idle", "cut_indx", "cut_data", "meta_head", "meta_map", "meta_len",
          "put_data", "put_indx", "put_mark", "marked", "wipe", "wiped",
          "closing"}

Kinds == {"none", "write", "mark", "erase", "unload"}

HeadType == [pos : Header, okw : BOOLEAN]

OpType == [kind : Kinds, step : Steps, num : Nat, n : Nat, val : Cell,
           len : Nat, cut : BOOLEAN]

Item == [type : {"none", "data", "fm", "eod"}, cells : Seq(Cell)]

TypeOK ==
    /\ data \in [Slot -> Seq(Cell)]
    /\ indx \in [Slot -> Seq(Header)]
    /\ torn \in [Slot -> BOOLEAN]
    /\ mfile \in [Slot -> [count : Nat, map : Seq(Nat)]]
    /\ status \in {"loaded", "unloaded"}
    /\ wp \in BOOLEAN
    /\ fds \subseteq Part
    /\ head \in HeadType
    /\ eod \in [Slot -> [num : Nat, off : Nat]]
    /\ fmap \in [Slot -> Seq(Nat)]
    /\ op \in OpType
    /\ acked \in [Slot -> Seq(Item)]
    /\ suspect \subseteq Part
    /\ failures \in Seq(FaultKinds)

-----------------------------------------------------------------------------
(* Memory and files agree *)

\* The headers of partition p number its blocks and lay their data end to end.
EndOf(h) == h.off + h.len

IndexChained(p) ==
    \A i \in 1 .. Len(indx[p]) :
        LET h == indx[p][i]
        IN  /\ h.num = i - 1 /\ h.part = p
            /\ h.type \in {"data", "fm"}
            /\ h.off = IF i = 1 THEN 0 ELSE EndOf(indx[p][i - 1])

DataEnd(p) == IF indx[p] = << >> THEN 0 ELSE EndOf(indx[p][Len(indx[p])])

\* The map m lists the filemarks of partition p and nothing else, in order.
MarksListed(p, m) ==
    /\ \A i, j \in 1 .. Len(m) : i < j => m[i] < m[j]
    /\ {m[i] : i \in 1 .. Len(m)} =
           {i - 1 : i \in {k \in 1 .. Len(indx[p]) : indx[p][k].type = "fm"}}

\* Between handlers the three files of every partition describe one tape: the
\* index is chained, the data file ends where the last block ends, and the
\* filemark map on disk lists the filemarks of the index.
FilesAgree ==
    Idle => \A p \in Part :
        /\ ~torn[p]
        /\ IndexChained(p)
        /\ Len(data[p]) = DataEnd(p)
        /\ mfile[p].count = Len(mfile[p].map)
        /\ MarksListed(p, mfile[p].map)

\* Between handlers what vtltape keeps in memory is what the files say: the end
\* of data, the filemark map and the header under the head.
MemoryAgrees ==
    Ready =>
        /\ \A p \in Part : /\ eod[p] = [num |-> Len(indx[p]), off |-> DataEnd(p)]
                           /\ fmap[p] = mfile[p].map
        /\ P \in Part =>
              \/ head.pos = EodHead(P, eod[P].num, eod[P].off).pos
              \/ /\ head.pos.num < Len(indx[P])
                 /\ head.pos = indx[P][head.pos.num + 1]

-----------------------------------------------------------------------------
(* What is recorded stays recorded *)

\* What the host was told is recorded (and did not itself overwrite since) is
\* what the files hold, at every file operation of every handler, though data
\* writes fail and the daemon dies between any two of them.  Other failures, and
\* partitions load_partition() has called corrupt, are the subject of AckedKept.
OnlySafeFaults == \A i \in DOMAIN failures : failures[i] \in {"crash", "data"}

AckedOnDisk ==
    OnlySafeFaults =>
        \A p \in Part \ suspect : IsPrefixOf(acked[p], DiskLog(p))

\* The same of every partition: "there is no possibility that any data
\* previously written could be lost" (write_filemarks(), vtlcart.c).
AckedKept == \A p \in Part : IsPrefixOf(acked[p], DiskLog(p))

\* What a handler can be asked to record.
Recordable == {Mark} \cup {Block(v, n) : v \in Vals, n \in 1 .. MaxLen}

\* What a partition records is one item log under a head: the index alone
\* decides what is recorded, and every handler records, discards and moves as
\* TapeMedium allows.
Medium ==
    INSTANCE TapeMedium WITH
        Places <- Slot,
        Items  <- Recordable,
        log    <- [p \in Slot |-> DiskLog(p)],
        at     <- [part |-> P,
                   num  |-> IF op.kind = "mark" THEN op.num ELSE head.pos.num]

MediumSpec == Medium!Spec

-----------------------------------------------------------------------------
(* Every header has its data *)

\* A data header in the index never describes data the data file does not
\* hold: the order of the truncations in check_for_overwrite() and of the two
\* writes in write_tape_block() keeps this at every file operation, after any
\* number of failed data writes and crashes, and after one failure of another
\* kind.  It does not hold when a WRITE FILEMARKS of three or more fails at a
\* mark after the second: the headers of the earlier ones stay behind the end of
\* data it remembers, the next block overlays only the first, a remount takes
\* the last for the end of data, and a later overwrite cuts that block's data.
OneFailure == Len(failures) = 1 /\ (failures[1] = "mark" => MaxMarks <= 2)

HeadersHaveData ==
    OnlySafeFaults \/ OneFailure =>
        \A p \in Part \ suspect :
            \A i \in 1 .. Len(indx[p]) :
                indx[p][i].type = "data" => EndOf(indx[p][i]) <= Len(data[p])

-----------------------------------------------------------------------------
(* SPACE goes where the log says *)

\* The blocks of partition p that are filemarks, from its index.
MarkBlocks(p) == {i - 1 : i \in {k \in 1 .. Len(indx[p]) : indx[p][k].type = "fm"}}

Nearest(S, blk) == CHOOSE m \in S : \A k \in S : blk <= m /\ m <= k
Last(S)         == CHOOSE m \in S : \A k \in S : k <= m
Lesser(a, b)    == IF a < b THEN a ELSE b

\* Where SPACE n blocks forward from block blk must stop: after the first
\* filemark on the way, at end of data, or n blocks on.
BlocksForwTo(p, blk, n) ==
    LET onTheWay == {m \in MarkBlocks(p) : blk <= m /\ m < blk + n}
    IN  IF onTheWay # {} THEN Nearest(onTheWay, blk) + 1
        ELSE Lesser(blk + n, Len(indx[p]))

\* And backward: on the last filemark on the way, or n blocks back.
BlocksBackTo(p, blk, n) ==
    LET onTheWay == {m \in MarkBlocks(p) : blk - n <= m /\ m < blk}
    IN  IF onTheWay # {} THEN Last(onTheWay) ELSE blk - n

\* Where SPACE n filemarks must stop: after the n-th filemark at or after blk,
\* on the n-th before it, else at end of data or at the beginning.
MarksForwTo(p, blk, n) ==
    LET nth == {m \in MarkBlocks(p) :
                   blk <= m /\ Cardinality({k \in MarkBlocks(p) : blk <= k /\ k <= m}) = n}
    IN  IF nth = {} THEN Len(indx[p]) ELSE Last(nth) + 1

MarksBackTo(p, blk, n) ==
    LET nth == {m \in MarkBlocks(p) :
                   m < blk /\ Cardinality({k \in MarkBlocks(p) : m <= k /\ k < blk}) = n}
    IN  IF nth = {} THEN 0 ELSE Last(nth)

\* Wherever the head stands, each form of SPACE leaves it on the block the
\* index calls for, although the code searches the filemark map only.  SPACE
\* back past the beginning is left out: README.md, section 4.
SpacingExact ==
    (Ready /\ TapeLoaded) =>
        \A n \in 1 .. MaxSpace :
            LET blk == head.pos.num
            IN  /\ PositionBlocksForw(head, n).pos.num = BlocksForwTo(P, blk, n)
                /\ n <= blk =>
                      PositionBlocksBack(head, n).pos.num = BlocksBackTo(P, blk, n)
                /\ PositionMarksForw(head, n).pos.num = MarksForwTo(P, blk, n)
                /\ PositionMarksBack(head, n).pos.num = MarksBackTo(P, blk, n)

-----------------------------------------------------------------------------
(* Media that must not be written *)

\* Three ways a WORM medium can lose what it holds.  Overwriting the only
\* filemark of a blank medium is meant, and so is WRITE FILEMARKS at block 0
\* ("Erasing WORM media", ssc_write_filemarks()); the third is a loophole: FORMAT
\* MEDIUM asks for a blank partition under the head and erases all of them.
OnlyMark(p)    == DiskLog(p) = << Mark >>
MarkAtZero     == op.kind = "mark" /\ op.num = 0
BlankFormatted == head.pos.num = 0 /\ WormBlank(head) /\ indx' = [p \in Slot |-> << >>]

Grows(p) == IsPrefixOf(DiskLog(p), DiskLog(p)')

\* A WORM partition only grows, but for WRITE FILEMARKS at block 0 and FORMAT
\* MEDIUM with the head in a partition that is blank or holds one filemark; though
\* data writes fail and the daemon dies, until load_partition() calls one corrupt.
WormKeepsItems ==
    [][(MediumType = "worm" /\ OnlySafeFaults' /\ suspect' = {}) => \A p \in Part :
        Grows(p) \/ OnlyMark(p) \/ MarkAtZero \/ BlankFormatted]_vars

\* While a write-protected data medium is loaded no handler changes its blocks,
\* those that reach the files long after check_restrictions() included.
ProtectedUnchanged ==
    [][MediumType = "data" /\ wp /\ status = "loaded"
        => UNCHANGED <<data, indx>>]_vars

-----------------------------------------------------------------------------
(* Handlers end *)

\* A handler that has begun its file operations returns to its caller: the
\* loops over marks, over partitions and through rewrite_meta_file() end.
HandlersEnd == (op.step # "idle") ~> (op.step = "idle")

=============================================================================
