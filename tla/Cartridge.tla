------------------------------ MODULE Cartridge ------------------------------
(***************************************************************************)
(* The cartridge store of mhvtl (usr/vtlcart.c) under the SSC handlers     *)
(* that drive it (usr/ssc.c, loadTape/unloadTape of usr/cmd/vtltape.c).    *)
(*                                                                         *)
(* A partition is three files: data (the payload), indx (one raw_header    *)
(* per block or filemark) and meta (the filemark map).  Every write        *)
(* handler is a sequence of file operations; the store is one process, so  *)
(* only one handler is ever in progress, but the process can die, or an    *)
(* operation can fail, between any two of them.  The handlers that only    *)
(* move the head touch no file and are one action each.                    *)
(***************************************************************************)
EXTENDS Integers, Sequences

CONSTANTS
    NParts,       \* partitions of the medium
    MediumType,   \* mam.MediumType: "data", "worm" or "clean"
    Faults,       \* which failures happen: a subset of FaultKinds
    Vals,         \* payloads the host writes
    Hole,         \* what a file holds where nothing was written
    MaxLen,       \* bound: longest block, in cells (disk_blk_size)
    MaxMarks,     \* bound: largest WRITE FILEMARKS count
    MaxSpace,     \* bound: largest SPACE count
    MaxBlocks,    \* bound: blocks per partition
    MaxFaults,    \* bound: failures in a behaviour
    Capacity,     \* cells per partition (medium_partition_capacity)
    Word          \* modulus of uint32_t

FaultKinds == {"crash", "data", "indx", "mark", "trunc", "meta"}

ASSUME ConstantsOK ==
    /\ NParts \in Nat \ {0}
    /\ MediumType \in {"data", "worm", "clean"}
    /\ Faults \subseteq FaultKinds
    /\ Hole \notin Vals
    /\ MaxLen \in Nat \ {0}
    /\ MaxMarks \in Nat /\ MaxSpace \in Nat /\ Capacity \in Nat
    /\ MaxFaults \in Nat
    /\ MaxBlocks \in Nat /\ Word \in Nat /\ MaxBlocks < Word - 1

Part == 0 .. NParts - 1

\* LOCATE tests partition_no > num_partitions, so the head can also be sent to
\* the partition after the last one, which has no files.
Slot == 0 .. NParts

Cell == Vals \cup {Hole}

\* struct raw_header: block type and number, and where its data lies.
Header == [type : {"none", "data", "fm", "eod"}, num : Nat, part : Slot,
           off : Nat, len : Nat]

ZeroHeader == [type |-> "none", num |-> 0, part |-> 0, off |-> 0, len |-> 0]

VARIABLES
    data,     \* data.<p>: its cells
    indx,     \* indx.<p>: its headers
    torn,     \* indx.<p> ends in a partly written header
    mfile,    \* meta.<p>: the count in its header and the map after it
    status,   \* get_tape_load_status(): "loaded" or "unloaded"
    wp,       \* lu_ssc.MediaWriteProtect
    fds,      \* partitions whose files are open
    head,     \* raw_pos (field pos) and OK_to_write (field okw)
    eod,      \* eod_blk_number (num) and eod_data_offset (off)
    fmap,     \* filemarks[p][0 .. filemark_count-1]
    op,       \* the write handler in progress and its next file operation
    acked,    \* history: what the handlers that returned have recorded
    suspect,  \* history: partitions load_partition() ever found corrupt
    failures  \* history: the failures so far, at most MaxFaults

disk  == <<data, indx, torn, mfile>>
drive == <<status, wp, fds>>
ghost == <<suspect, failures>>
vars  == <<disk, drive, head, eod, fmap, op, acked, ghost>>

-----------------------------------------------------------------------------
(* Files *)

Larger(a, b) == IF a > b THEN a ELSE b

\* pwrite() of n copies of c at offset off; a gap before off reads as fill.
PWrite(f, off, n, c, fill) ==
    [i \in 1 .. Larger(Len(f), off + n) |->
        IF off < i /\ i <= off + n THEN c
        ELSE IF i <= Len(f) THEN f[i] ELSE fill]

\* ftruncate(): drops the tail, or extends with zeroes.
FTruncate(f, n, fill) == [i \in 1 .. n |-> IF i <= Len(f) THEN f[i] ELSE fill]

-----------------------------------------------------------------------------
(* What a recorded block is: its type and the cells it reads back as. *)

Mark        == [type |-> "fm", cells |-> << >>]
Block(v, n) == [type |-> "data", cells |-> [i \in 1 .. n |-> v]]

Extent(p, h) ==
    [i \in 1 .. h.len |-> IF h.off + i <= Len(data[p]) THEN data[p][h.off + i]
                                                       ELSE Hole]

DiskItem(p, i) == [type |-> indx[p][i].type, cells |-> Extent(p, indx[p][i])]

\* The blocks and filemarks the files of partition p hold.
DiskLog(p) == [i \in 1 .. Len(indx[p]) |-> DiskItem(p, i)]

IsPrefixOf(s, t) == Len(s) <= Len(t) /\ \A i \in 1 .. Len(s) : s[i] = t[i]

UpTo(s, n) == [i \in 1 .. (IF n < Len(s) THEN n ELSE Len(s)) |-> s[i]]

-----------------------------------------------------------------------------
(* Moving the head.  Every operator maps a head to the head it leaves. *)

\* mkEODHeader(): the head at end of data; it always sets OK_to_write.
EodHead(p, num, off) ==
    [pos |-> [type |-> "eod", num |-> num, part |-> p, off |-> off, len |-> 0],
     okw |-> TRUE]

Readable(p, blk) == blk >= eod[p].num \/ (p \in Part /\ blk < Len(indx[p]))

\* read_header(): beyond end of data it only logs, a short read leaves raw_pos.
ReadHeader(h, blk) ==
    LET p == h.pos.part
    IN  IF blk = eod[p].num THEN EodHead(p, blk, eod[p].off)
        ELSE IF blk < eod[p].num /\ p \in Part /\ blk < Len(indx[p])
        THEN [h EXCEPT !.pos = indx[p][blk + 1]]
        ELSE h

\* Whether a WORM medium may be written with the head at the beginning.
WormBlank(h) ==
    h.pos.type = "eod" \/ (h.pos.type = "fm" /\ eod[h.pos.part].num = 1)

RewindTape(h) ==
    LET r == ReadHeader(h, 0)
    IN  IF ~Readable(h.pos.part, 0) THEN r
        ELSE [r EXCEPT !.okw = CASE MediumType = "clean" -> FALSE
                                 [] MediumType = "worm"  -> WormBlank(r)
                                 [] OTHER                -> TRUE]

PositionToEod(h) == ReadHeader(h, eod[h.pos.part].num)

\* Mutant: positioning keeps the write permission.
KeepPermission(h) == h

\* Every positioning call first takes the write permission of a WORM medium.
Lock(h) == [h EXCEPT !.okw = h.okw /\ MediumType # "worm"]

PositionToBlock(h, blk) ==
    IF blk > eod[h.pos.part].num THEN PositionToEod(Lock(h))
    ELSE IF blk = 0 THEN RewindTape(Lock(h))
    ELSE ReadHeader(Lock(h), blk)

\* The searches of the filemark map: the first entry at or after blk, scanning
\* up, and the last entry before blk, scanning down.
IsNextMark(p, blk, i) ==
    /\ i \in DOMAIN fmap[p] /\ fmap[p][i] >= blk
    /\ \A j \in 1 .. i - 1 : fmap[p][j] < blk
HasNextMark(p, blk) == \E i \in DOMAIN fmap[p] : IsNextMark(p, blk, i)
NextMark(p, blk) == CHOOSE i \in DOMAIN fmap[p] : IsNextMark(p, blk, i)

IsPrevMark(p, blk, i) ==
    /\ i \in DOMAIN fmap[p] /\ fmap[p][i] < blk
    /\ \A j \in i + 1 .. Len(fmap[p]) : fmap[p][j] >= blk
HasPrevMark(p, blk) == \E i \in DOMAIN fmap[p] : IsPrevMark(p, blk, i)
PrevMark(p, blk) == CHOOSE i \in DOMAIN fmap[p] : IsPrevMark(p, blk, i)

PositionBlocksForw(h, n) ==
    LET p      == h.pos.part
        target == (h.pos.num + n) % Word
        mark   == fmap[p][NextMark(p, h.pos.num)]
    IN  IF HasNextMark(p, h.pos.num) /\ mark < target
        THEN ReadHeader(Lock(h), mark + 1)
        ELSE PositionToBlock(h, target)

\* blk_target is unsigned: its test against 0 never holds and it wraps.
PositionBlocksBack(h, n) ==
    LET p      == h.pos.part
        target == (h.pos.num - n) % Word
        mark   == fmap[p][PrevMark(p, h.pos.num)]
    IN  IF HasPrevMark(p, h.pos.num) /\ mark >= target
        THEN ReadHeader(Lock(h), mark)
        ELSE PositionToBlock(h, target)

\* Mutant: the head left on the filemark, not after it.
PositionMarksForwOnto(h, n) ==
    LET p == h.pos.part
        i == NextMark(p, h.pos.num) + n - 1
    IN  IF HasNextMark(p, h.pos.num) /\ i <= Len(fmap[p])
        THEN PositionToBlock(h, fmap[p][i])
        ELSE ReadHeader(Lock(h), eod[p].num)

PositionMarksForw(h, n) ==
    LET p == h.pos.part
        i == NextMark(p, h.pos.num) + n - 1
    IN  IF HasNextMark(p, h.pos.num) /\ i <= Len(fmap[p])
        THEN PositionToBlock(h, fmap[p][i] + 1)
        ELSE ReadHeader(Lock(h), eod[p].num)

PositionMarksBack(h, n) ==
    LET p == h.pos.part
        i == PrevMark(p, h.pos.num) - n + 1
    IN  IF HasPrevMark(p, h.pos.num) /\ i >= 1
        THEN PositionToBlock(h, fmap[p][i])
        ELSE ReadHeader(Lock(h), 0)

\* change_partition(): the files of p replace those of the current partition.
ChangePartition(h, p) == ReadHeader([h EXCEPT !.pos.part = p], 0)
OpenAfterChange(p) == (fds \ {head.pos.part}) \cup ({p} \cap Part)

-----------------------------------------------------------------------------
(* The write handler in progress *)

\* One more failure of this kind, if the instance has it.
Fail(kind) ==
    /\ kind \in Faults /\ Len(failures) < MaxFaults
    /\ failures' = Append(failures, kind)
    /\ UNCHANGED suspect

NoOp == [kind |-> "none", step |-> "idle", num |-> 0, n |-> 0,
         val |-> Hole, len |-> 0, cut |-> FALSE]

Idle  == op.step = "idle"
Ready == Idle /\ status = "loaded"
P     == head.pos.part

TapeLoaded == P \in fds

\* Mutant: the write-protect switch forgotten.
MayWriteProtected ==
    CASE MediumType = "clean" -> FALSE
      [] MediumType = "worm"  -> head.okw \/ head.pos.type = "eod"
      [] OTHER                -> TRUE

\* check_restrictions() for a loaded tape.
MayWrite ==
    /\ CASE MediumType = "clean" -> FALSE
         [] MediumType = "worm"  -> head.okw \/ head.pos.type = "eod"
         [] OTHER                -> TRUE
    /\ ~wp

\* check_for_overwrite() has work to do unless the head is at end of data.
AfterCut == CASE op.kind = "write" -> "put_data"
              [] op.kind = "mark"  -> "put_mark"
              [] OTHER             -> "wipe"

AfterMeta == IF op.cut THEN AfterCut
             ELSE CASE op.kind = "mark"  -> "marked"
                    [] op.kind = "erase" -> "wiped"
                    [] OTHER             -> "closing"

Begin(kind, first, n, v, len) ==
    op' = [kind |-> kind,
           step |-> IF head.pos.type = "eod" THEN first ELSE "cut_indx",
           num |-> head.pos.num, n |-> n, val |-> v, len |-> len,
           cut |-> FALSE]

\* The items the handler in progress has recorded when it returns.
Recorded == CASE op.kind = "write" -> << Block(op.val, op.len) >>
              [] op.kind = "mark"  -> [i \in 1 .. op.len |-> Mark]
              [] OTHER             -> << >>

\* A WRITE FILEMARKS that check_restrictions() failed and did not stop counts
\* too: its marks are on the tape, and later blocks lie behind them.
Acknowledge == acked' = [acked EXCEPT ![P] = @ \o Recorded]

\* From here on the host no longer expects what lies at and after the head.
GiveUp(n) == acked' = [acked EXCEPT ![P] = UpTo(@, n)]

\* Mutant: eod_data_offset not updated.
AtEodSameOffset(num, off) ==
    /\ eod'  = [eod EXCEPT ![P].num = num]
    /\ head' = EodHead(P, num, off)

AtEod(num, off) ==
    /\ eod'  = [eod EXCEPT ![P] = [num |-> num, off |-> off]]
    /\ head' = EodHead(P, num, off)

-----------------------------------------------------------------------------
(* SSC handlers that write *)

\* ssc_write_6(), one block: writeBlock() and write_tape_block().
WriteBlock(v, n) ==
    /\ Ready /\ TapeLoaded /\ MayWrite
    /\ head.pos.off < Capacity /\ head.pos.num < MaxBlocks
    /\ Begin("write", "put_data", 0, v, n)
    /\ head' = [head EXCEPT !.okw = TRUE]
    /\ GiveUp(head.pos.num)
    /\ UNCHANGED <<disk, drive, eod, fmap, ghost>>

\* ssc_write_filemarks() and write_filemarks(): a WORM medium at block 0 gets
\* through although check_restrictions() refused.
MarksAllowed == MayWrite \/ (MediumType = "worm" /\ head.pos.num = 0)

WriteMarks(n) ==
    /\ Ready /\ TapeLoaded /\ MarksAllowed
    /\ head.pos.num + n <= MaxBlocks
    /\ Begin("mark", "put_mark", n, Hole, n)
    /\ head' = [head EXCEPT !.okw = MayWrite]
    /\ GiveUp(head.pos.num)
    /\ UNCHANGED <<disk, drive, eod, fmap, ghost>>

\* ssc_erase() and format_partition().
Erase ==
    /\ Ready /\ TapeLoaded /\ MayWrite
    /\ head.pos.num = 0
    /\ Begin("erase", "wipe", 0, Hole, 0)
    /\ head' = [head EXCEPT !.okw = TRUE]
    /\ GiveUp(0)
    /\ UNCHANGED <<disk, drive, eod, fmap, ghost>>

\* ssc_format_medium() and format_tape(), with the number of partitions kept.
\* The files are unlinked and created anew; taken as one step, on a medium whose
\* headers name their own partition.
Format ==
    /\ Ready /\ MayWrite
    /\ head.pos.num = 0
    /\ \A p \in Part : indx[p] # << >> => indx[p][1].part = p
    /\ data'  = [p \in Slot |-> << >>]
    /\ indx'  = [p \in Slot |-> << >>]
    /\ torn'  = [p \in Slot |-> FALSE]
    /\ mfile' = [p \in Slot |-> [count |-> 0, map |-> << >>]]
    /\ eod'   = [p \in Slot |-> [num |-> 0, off |-> 0]]
    /\ fmap'  = [p \in Slot |-> << >>]
    /\ acked' = [p \in Slot |-> << >>]
    /\ head'  = EodHead(0, 0, 0)
    /\ fds'   = {0}
    /\ UNCHANGED <<status, wp, op, ghost>>

\* check_restrictions() says no: it clears OK_to_write.
WriteRefused ==
    /\ Ready /\ ~MayWrite
    /\ head' = [head EXCEPT !.okw = FALSE]
    /\ UNCHANGED <<disk, drive, eod, fmap, op, acked, ghost>>

-----------------------------------------------------------------------------
(* File operations of the handler in progress *)

\* Mutant: the header under the head kept.
CutIndxFileAfter == FTruncate(indx[P], head.pos.num + 1, ZeroHeader)

\* check_for_overwrite(): the index first, so that no header is left without
\* its data, then the data, then the filemark map.
CutIndxFile == FTruncate(indx[P], head.pos.num, ZeroHeader)

\* Mutant: the block number taken for the data offset.
CutDataFileAtNum == FTruncate(data[P], head.pos.num, Hole)

CutDataFile == FTruncate(data[P], head.pos.off, Hole)

\* Mutant: the filemark under the head kept in the map.
KeptMarksAndNext == UpTo(fmap[P], NextMark(P, head.pos.num))

KeptMarks == UpTo(fmap[P], NextMark(P, head.pos.num) - 1)

CutIndx ==
    /\ op.step = "cut_indx"
    /\ indx' = [indx EXCEPT ![P] = CutIndxFile]
    /\ torn' = [torn EXCEPT ![P] = FALSE]
    /\ op'   = [op EXCEPT !.step = "cut_data"]
    /\ UNCHANGED <<data, mfile, drive, head, eod, fmap, acked, ghost>>

CutData ==
    /\ op.step = "cut_data"
    /\ data' = [data EXCEPT ![P] = CutDataFile]
    /\ IF HasNextMark(P, head.pos.num)
       THEN /\ fmap' = [fmap EXCEPT ![P] = KeptMarks]
            /\ op'   = [op EXCEPT !.step = "meta_head", !.cut = TRUE]
       ELSE /\ op'   = [op EXCEPT !.step = AfterCut]
            /\ UNCHANGED fmap
    /\ UNCHANGED <<indx, torn, mfile, drive, head, eod, acked, ghost>>

\* A failed ftruncate() ends the handler where it stands.
CutFails ==
    /\ Fail("trunc")
    /\ op.step \in {"cut_indx", "cut_data"}
    /\ op' = NoOp
    /\ UNCHANGED <<disk, drive, head, eod, fmap, acked>>

\* rewrite_meta_file(): the count, the map, then the length.
MetaHead ==
    /\ op.step = "meta_head" /\ TapeLoaded
    /\ mfile' = [mfile EXCEPT ![P].count = Len(fmap[P])]
    /\ op' = [op EXCEPT !.step = IF fmap[P] = << >> THEN "meta_len"
                                                    ELSE "meta_map"]
    /\ UNCHANGED <<data, indx, torn, drive, head, eod, fmap, acked, ghost>>

MetaMap ==
    /\ op.step = "meta_map"
    /\ mfile' = [mfile EXCEPT ![P].map =
                    [i \in 1 .. Larger(Len(@), Len(fmap[P])) |->
                        IF i <= Len(fmap[P]) THEN fmap[P][i] ELSE @[i]]]
    /\ op' = [op EXCEPT !.step = "meta_len"]
    /\ UNCHANGED <<data, indx, torn, drive, head, eod, fmap, acked, ghost>>

MetaLen ==
    /\ op.step = "meta_len"
    /\ mfile' = [mfile EXCEPT ![P].map = FTruncate(@, Len(fmap[P]), 0)]
    /\ op' = [op EXCEPT !.step = AfterMeta, !.cut = FALSE]
    /\ UNCHANGED <<data, indx, torn, drive, head, eod, fmap, acked, ghost>>

\* rewrite_meta_file() fails.  check_for_overwrite() returns its -1 without
\* setting a status, so the handler ends and reports GOOD; its other callers
\* go on as if it had worked.
MetaFails ==
    /\ op.step \in {"meta_head", "meta_map", "meta_len"}
    /\ Fail("meta") \/ (~TapeLoaded /\ UNCHANGED ghost)
    /\ IF op.cut
       THEN op' = NoOp /\ Acknowledge
       ELSE op' = [op EXCEPT !.step = AfterMeta] /\ UNCHANGED acked
    /\ UNCHANGED <<disk, drive, head, eod, fmap>>

\* Mutant: the end of data of partition 0 used for every partition.
PutDataFileOfZero == PWrite(data[P], eod[0].off, op.len, op.val, Hole)

\* write_tape_block(): the data, then the header that makes it visible.
PutDataFile == PWrite(data[P], head.pos.off, op.len, op.val, Hole)

\* A partial header at the end of the index outlives a write before it.
StillTorn(num) == torn[P] /\ num < Len(indx[P])

\* Mutant: blocks numbered from the one before.
NewHeaderBehind ==
    [type |-> "data", num |-> head.pos.num - 1, part |-> P,
     off |-> head.pos.off, len |-> op.len]

NewHeader == [type |-> "data", num |-> head.pos.num, part |-> P,
              off |-> head.pos.off, len |-> op.len]

PutData ==
    /\ op.step = "put_data"
    /\ data' = [data EXCEPT ![P] = PutDataFile]
    /\ op'   = [op EXCEPT !.step = "put_indx"]
    /\ UNCHANGED <<indx, torn, mfile, drive, head, eod, fmap, acked, ghost>>

\* The partial write is truncated and the head left at end of data.
DataFails ==
    /\ Fail("data")
    /\ op.step = "put_data"
    /\ data' = [data EXCEPT ![P] = CutDataFile]
    /\ AtEod(head.pos.num, head.pos.off)
    /\ op' = NoOp
    /\ UNCHANGED <<indx, torn, mfile, drive, fmap, acked>>

PutIndx ==
    /\ op.step = "put_indx"
    /\ indx' = [indx EXCEPT ![P] =
                    PWrite(@, head.pos.num, 1, NewHeader, ZeroHeader)]
    /\ torn' = [torn EXCEPT ![P] = StillTorn(head.pos.num)]
    /\ AtEod(head.pos.num + 1, head.pos.off + op.len)
    /\ op' = NoOp
    /\ Acknowledge
    /\ UNCHANGED <<data, mfile, drive, fmap, ghost>>

\* The failed header is removed by truncating the index to blk_number - 1
\* headers: unsigned, and one header too short.
IndxAfterFailure == (head.pos.num - 1) % Word

IndxFails ==
    /\ Fail("indx")
    /\ op.step = "put_indx"
    /\ indx' = [indx EXCEPT ![P] = FTruncate(@, IndxAfterFailure, ZeroHeader)]
    /\ torn' = [torn EXCEPT ![P] = FALSE]
    /\ data' = [data EXCEPT ![P] = CutDataFile]
    /\ AtEod(head.pos.num, head.pos.off)
    /\ op' = NoOp
    /\ UNCHANGED <<mfile, drive, fmap, acked>>

\* write_filemarks(): a header per mark, each followed by add_filemark().
MarkHeader(num) == [type |-> "fm", num |-> num, part |-> P,
                    off |-> head.pos.off, len |-> 0]

PutMark ==
    /\ op.step = "put_mark"
    /\ indx' = [indx EXCEPT ![P] =
                    PWrite(@, op.num, 1, MarkHeader(op.num), ZeroHeader)]
    /\ torn' = [torn EXCEPT ![P] = StillTorn(op.num)]
    /\ fmap' = [fmap EXCEPT ![P] = Append(@, op.num)]
    /\ head' = [head EXCEPT !.pos = MarkHeader(op.num)]
    /\ op'   = [op EXCEPT !.step = "meta_head", !.num = @ + 1]
    /\ UNCHANGED <<data, mfile, drive, eod, acked, ghost>>

\* The handler ends with raw_pos describing the mark it could not write; a
\* short write past the end leaves part of it at the end of the index.
MarkFails ==
    /\ Fail("mark")
    /\ op.step = "put_mark"
    /\ \/ UNCHANGED <<indx, torn>>
       \/ /\ op.num >= Len(indx[P])
          /\ indx' = [indx EXCEPT ![P] =
                          PWrite(@, op.num, 0, ZeroHeader, ZeroHeader)]
          /\ torn' = [torn EXCEPT ![P] = TRUE]
    /\ head' = [head EXCEPT !.pos = MarkHeader(op.num)]
    /\ op' = NoOp
    /\ UNCHANGED <<data, mfile, drive, eod, fmap, acked>>

NextMarkOrDone ==
    /\ op.step = "marked"
    /\ IF op.n > 1
       THEN /\ op' = [op EXCEPT !.step = "put_mark", !.n = @ - 1]
            /\ UNCHANGED <<head, eod, acked>>
       ELSE /\ AtEod(op.num, head.pos.off)
            /\ Acknowledge
            /\ op' = NoOp
    /\ UNCHANGED <<disk, drive, fmap, ghost>>

\* format_partition(): zero_filemark_count(), then mkEODHeader().
Wipe ==
    /\ op.step = "wipe"
    /\ fmap' = [fmap EXCEPT ![P] = << >>]
    /\ op'   = [op EXCEPT !.step = "meta_head"]
    /\ UNCHANGED <<disk, drive, head, eod, acked, ghost>>

Wiped ==
    /\ op.step = "wiped"
    /\ AtEod(head.pos.num, head.pos.off)
    /\ op' = NoOp
    /\ UNCHANGED <<disk, drive, fmap, acked, ghost>>

-----------------------------------------------------------------------------
(* SSC handlers that move the head *)

Move(h) ==
    /\ Ready
    /\ head' = h
    /\ UNCHANGED <<disk, drive, eod, fmap, op, acked, ghost>>

Rewind == TapeLoaded /\ Move(RewindTape(head))

SpaceBlocks(n) ==
    /\ TapeLoaded
    /\ Move(PositionBlocksForw(head, n)) \/ Move(PositionBlocksBack(head, n))

SpaceMarks(n) ==
    /\ TapeLoaded
    /\ Move(PositionMarksForw(head, n)) \/ Move(PositionMarksBack(head, n))

SpaceEod == TapeLoaded /\ Move(PositionToEod(head))

\* readBlock(): a filemark ends the READ and is skipped; a data block that is
\* not all in the data file leaves the head where it is.
ReadBlock ==
    /\ TapeLoaded /\ MediumType # "clean"
    /\ \/ /\ head.pos.type = "fm"
          /\ Move(PositionBlocksForw(head, 1))
       \/ /\ head.pos.type = "data"
          /\ head.pos.off + head.pos.len <= Len(data[P])
          /\ Move(ReadHeader(head, head.pos.num + 1))

\* ssc_load_unload() asked to load the tape that is loaded already.
LoadAgain ==
    /\ Ready
    /\ head' = RewindTape(ChangePartition(head, 0))
    /\ fds'  = OpenAfterChange(0)
    /\ UNCHANGED <<disk, status, wp, eod, fmap, op, acked, ghost>>

\* ssc_locate(): the partition is changed first, whatever the block.
Locate(p, blk) ==
    /\ Ready
    /\ LET h == ChangePartition(head, p)
       IN  head' = IF h.pos.part \in OpenAfterChange(p)
                   THEN PositionToBlock(h, blk) ELSE h
    /\ fds' = OpenAfterChange(p)
    /\ UNCHANGED <<disk, status, wp, eod, fmap, op, acked, ghost>>

-----------------------------------------------------------------------------
(* Mounting *)

\* The filemark map load_partition() builds: it goes on after a short read, so
\* that entries the file does not hold are what realloc() returned.
LoadedMap(p, g) ==
    [i \in 1 .. mfile[p].count |->
        IF i <= Len(mfile[p].map) THEN mfile[p].map[i] ELSE g]

\* The filemark map and the index disagree.
BadMap(p, g) ==
    LET m == LoadedMap(p, g)
    IN  m # << >> /\ indx[p] # << >> /\ m[Len(m)] >= Len(indx[p])

\* Mutant: the length of the last block left out.
LastStart(p) == indx[p][Len(indx[p])].off

\* eod_blk_number and eod_data_offset as load_partition() leaves them: each
\* error return comes before the assignments that follow it.
LastEnd(p) == LET h == indx[p][Len(indx[p])] IN h.off + h.len

LoadedEod(p, g) ==
    [num |-> IF torn[p] THEN 0 ELSE Len(indx[p]),
     off |-> IF torn[p] \/ BadMap(p, g) \/ indx[p] = << >> THEN 0
             ELSE LastEnd(p)]

\* loadTape() and load_tape(), which does not look at what load_partition()
\* returned.  ro: the drive mounts this medium read-only, or its write-protect
\* flag is set; only a data medium sets lu_ssc.MediaWriteProtect.
Load(ro, g) ==
    /\ Idle /\ status = "unloaded" /\ ~TapeLoaded
    /\ status' = "loaded"
    /\ wp'     = IF MediumType = "data" THEN ro ELSE wp
    /\ fds'    = {0}
    /\ eod'    = [p \in Slot |-> LoadedEod(p, g)]
    /\ fmap'   = [p \in Slot |-> LoadedMap(p, g)]
    /\ LET first == IF eod'[0].num = 0
                    THEN [type |-> "eod", num |-> 0, part |-> 0,
                          off |-> eod'[0].off, len |-> 0]
                    ELSE indx[0][1]
           blank == \/ first.type = "eod"
                    \/ (first.type = "fm" /\ eod'[0].num = 1)
       IN  head' = [pos |-> first,
                    okw |-> CASE MediumType = "clean" -> FALSE
                              [] MediumType = "worm"  -> blank /\ ~ro
                              [] OTHER                -> ~ro]
    /\ suspect' = suspect \cup {p \in Part : torn[p] \/ BadMap(p, g)}
    /\ acked'   = [p \in Slot |-> IF IsPrefixOf(acked[p], DiskLog(p))
                                  THEN DiskLog(p) ELSE acked[p]]
    /\ UNCHANGED <<disk, op, failures>>

\* unloadTape() and unload_tape(): each partition in turn is opened, its
\* filemark map written and its files closed.
UnloadStart ==
    /\ Ready
    /\ head' = ChangePartition(head, 0)
    /\ fds'  = OpenAfterChange(0)
    /\ op'   = [NoOp EXCEPT !.kind = "unload", !.step = "meta_head"]
    /\ UNCHANGED <<disk, status, wp, eod, fmap, acked, ghost>>

\* Mutant: the partition just closed taken again.
SamePartition == op.num

NextPartition == op.num + 1

ClosePartition ==
    /\ op.step = "closing"
    /\ op.num + 1 < NParts
    /\ head' = ChangePartition(head, NextPartition)
    /\ fds'  = OpenAfterChange(NextPartition) \ {op.num}
    /\ op'   = [op EXCEPT !.step = "meta_head", !.num = NextPartition]
    /\ UNCHANGED <<disk, status, wp, eod, fmap, acked, ghost>>

Unload ==
    /\ op.step = "closing"
    /\ op.num + 1 = NParts
    /\ status' = "unloaded"
    /\ fds'    = fds \ {op.num}
    /\ eod'    = [p \in Slot |-> [num |-> 0, off |-> 0]]
    /\ fmap'   = [p \in Slot |-> << >>]
    /\ head'   = [head EXCEPT !.okw = FALSE]
    /\ op'     = NoOp
    /\ UNCHANGED <<disk, wp, acked, ghost>>

\* The daemon dies and is started again; the files are what they were.
Crash ==
    /\ Fail("crash")
    /\ status = "loaded"
    /\ status' = "unloaded"
    /\ wp'     = FALSE
    /\ fds'    = {}
    /\ head'   = [pos |-> ZeroHeader, okw |-> FALSE]
    /\ eod'    = [p \in Slot |-> [num |-> 0, off |-> 0]]
    /\ fmap'   = [p \in Slot |-> << >>]
    /\ op'     = NoOp
    /\ UNCHANGED <<disk, acked>>

-----------------------------------------------------------------------------

\* A blank tape outside the drive.  Only loading a data medium sets wp, so a
\* WORM medium may follow one that left it set.
Init ==
    /\ data    = [p \in Slot |-> << >>]
    /\ indx    = [p \in Slot |-> << >>]
    /\ torn    = [p \in Slot |-> FALSE]
    /\ mfile   = [p \in Slot |-> [count |-> 0, map |-> << >>]]
    /\ status  = "unloaded"
    /\ wp \in BOOLEAN
    /\ fds     = {}
    /\ head    = [pos |-> ZeroHeader, okw |-> FALSE]
    /\ eod     = [p \in Slot |-> [num |-> 0, off |-> 0]]
    /\ fmap    = [p \in Slot |-> << >>]
    /\ op      = NoOp
    /\ acked   = [p \in Slot |-> << >>]
    /\ suspect = {}
    /\ failures = << >>

\* The handlers that need several file operations, and those operations.
StartWrite ==
    \/ \E v \in Vals, n \in 1 .. MaxLen : WriteBlock(v, n)
    \/ \E n \in 1 .. MaxMarks : WriteMarks(n)
    \/ Erase

FileStep ==
    \/ CutIndx \/ CutData \/ MetaHead \/ MetaMap \/ MetaLen
    \/ PutData \/ PutIndx \/ PutMark \/ NextMarkOrDone \/ Wipe \/ Wiped
    \/ ClosePartition \/ Unload

Fault ==
    \/ CutFails \/ MetaFails \/ DataFails \/ IndxFails \/ MarkFails

MoveHead ==
    \/ Rewind \/ SpaceEod \/ ReadBlock \/ LoadAgain
    \/ \E n \in 1 .. MaxSpace : SpaceBlocks(n) \/ SpaceMarks(n)
    \/ \E p \in Slot, blk \in 0 .. MaxBlocks + 1 : Locate(p, blk)

Next ==
    \/ StartWrite \/ Format \/ WriteRefused
    \/ FileStep \/ Fault
    \/ MoveHead
    \/ \E ro \in BOOLEAN, g \in 0 .. MaxBlocks : Load(ro, g)
    \/ UnloadStart
    \/ Crash

Spec == Init /\ [][Next]_vars

\* A handler that has begun runs to its end: vtltape has one thread.
FairSpec == Spec /\ WF_vars(FileStep \/ MetaFails)

=============================================================================
