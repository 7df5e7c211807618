--------------------------- MODULE CartridgeProofs ---------------------------
(***************************************************************************)
(* Theorems about the cartridge store, for every number of partitions,     *)
(* medium, failure world and bound: types, protection, what is recorded,   *)
(* what implements the tape medium, spacing, and WORM media.               *)
(***************************************************************************)
EXTENDS CartridgeProps, TLAPS, WellFoundedInduction, FiniteSetTheorems

\* uint32_t arithmetic stays in range.
LEMMA ModInRange ==
    ASSUME NEW a \in Int, NEW w \in Nat \ {0}
    PROVE  a % w \in Nat
BY SMT

LEMMA WordPositive == Word \in Nat \ {0}
BY ConstantsOK, SMT DEF ConstantsOK

\* A sequence defined entry by entry.
LEMMA SeqFromRange ==
    ASSUME NEW S, NEW n \in Nat, NEW f \in [1 .. n -> S]
    PROVE  f \in Seq(S) /\ Len(f) = n
BY SMT

\* The file operations keep a file a sequence of the same things.
LEMMA PWriteType ==
    ASSUME NEW S, NEW f \in Seq(S), NEW off \in Nat, NEW n \in Nat,
           NEW c \in S, NEW fill \in S
    PROVE  PWrite(f, off, n, c, fill) \in Seq(S)
<1>1. Larger(Len(f), off + n) \in Nat
  BY SMT DEF Larger
<1>2. PWrite(f, off, n, c, fill) \in [1 .. Larger(Len(f), off + n) -> S]
  BY <1>1, SMT DEF PWrite
<1> QED
  BY <1>1, <1>2, SeqFromRange

LEMMA FTruncateType ==
    ASSUME NEW S, NEW f \in Seq(S), NEW n \in Nat, NEW fill \in S
    PROVE  FTruncate(f, n, fill) \in Seq(S)
<1>1. FTruncate(f, n, fill) \in [1 .. n -> S]
  BY SMT DEF FTruncate
<1> QED
  BY <1>1, SeqFromRange

LEMMA UpToType ==
    ASSUME NEW S, NEW f \in Seq(S), NEW n \in Nat
    PROVE  UpTo(f, n) \in Seq(S)
<1>1. (IF n < Len(f) THEN n ELSE Len(f)) \in Nat
  BY SMT
<1>2. UpTo(f, n) \in [1 .. (IF n < Len(f) THEN n ELSE Len(f)) -> S]
  BY SMT DEF UpTo
<1> QED
  BY <1>1, <1>2, SeqFromRange

-----------------------------------------------------------------------------
(* Every way of moving the head gives a head. *)

LEMMA EodHeadType ==
    ASSUME NEW p \in Slot, NEW num \in Nat, NEW off \in Nat
    PROVE  EodHead(p, num, off) \in HeadType
BY SMT DEF EodHead, HeadType, Header

LEMMA ReadHeaderType ==
    ASSUME TypeOK, NEW h \in HeadType, NEW blk \in Nat
    PROVE  ReadHeader(h, blk) \in HeadType
<1> DEFINE p == h.pos.part
<1>1. p \in Slot
  BY DEF HeadType, Header
<1>2. CASE blk = eod[p].num
  <2>1. eod[p].off \in Nat
    BY <1>1 DEF TypeOK
  <2> QED
    BY <1>1, <1>2, <2>1, EodHeadType DEF ReadHeader
<1>3. CASE blk # eod[p].num /\ blk < eod[p].num /\ p \in Part /\ blk < Len(indx[p])
  <2>1. indx[p] \in Seq(Header)
    BY <1>1 DEF TypeOK
  <2>2. indx[p][blk + 1] \in Header
    BY <1>3, <2>1, SMT
  <2>3. [h EXCEPT !.pos = indx[p][blk + 1]] \in HeadType
    BY <2>2 DEF HeadType
  <2> QED
    BY <1>3, <2>3 DEF ReadHeader
<1> QED
  BY <1>2, <1>3 DEF ReadHeader

LEMMA LockType ==
    ASSUME NEW h \in HeadType
    PROVE  Lock(h) \in HeadType
BY DEF Lock, HeadType

LEMMA RewindTapeType ==
    ASSUME TypeOK, NEW h \in HeadType
    PROVE  RewindTape(h) \in HeadType
<1>1. ReadHeader(h, 0) \in HeadType
  BY ReadHeaderType
<1>2. WormBlank(ReadHeader(h, 0)) \in BOOLEAN
  BY DEF WormBlank
<1>3. (CASE MediumType = "clean" -> FALSE
         [] MediumType = "worm"  -> WormBlank(ReadHeader(h, 0))
         [] OTHER                -> TRUE) \in BOOLEAN
  BY <1>2
<1> QED
  BY <1>1, <1>3 DEF RewindTape, HeadType

LEMMA PositionToBlockType ==
    ASSUME TypeOK, NEW h \in HeadType, NEW blk \in Nat
    PROVE  PositionToBlock(h, blk) \in HeadType
<1>1. Lock(h) \in HeadType
  BY LockType
<1>2. eod[Lock(h).pos.part].num \in Nat
  BY <1>1 DEF TypeOK, HeadType, Header
<1>3. PositionToEod(Lock(h)) \in HeadType
  BY <1>1, <1>2, ReadHeaderType DEF PositionToEod
<1>4. RewindTape(Lock(h)) \in HeadType
  BY <1>1, RewindTapeType
<1>5. ReadHeader(Lock(h), blk) \in HeadType
  BY <1>1, ReadHeaderType
<1> QED
  BY <1>3, <1>4, <1>5 DEF PositionToBlock

\* The searches of the filemark map find an entry of the map.
LEMMA NextMarkType ==
    ASSUME TypeOK, NEW p \in Slot, NEW blk, HasNextMark(p, blk)
    PROVE  /\ NextMark(p, blk) \in DOMAIN fmap[p]
           /\ NextMark(p, blk) \in Nat \ {0}
           /\ fmap[p][NextMark(p, blk)] \in Nat
<1>1. NextMark(p, blk) \in DOMAIN fmap[p]
  BY DEF HasNextMark, NextMark
<1>2. fmap[p] \in Seq(Nat)
  BY DEF TypeOK
<1> QED
  BY <1>1, <1>2, SMT

LEMMA PrevMarkType ==
    ASSUME TypeOK, NEW p \in Slot, NEW blk, HasPrevMark(p, blk)
    PROVE  /\ PrevMark(p, blk) \in DOMAIN fmap[p]
           /\ PrevMark(p, blk) \in Nat \ {0}
           /\ fmap[p][PrevMark(p, blk)] \in Nat
<1>1. PrevMark(p, blk) \in DOMAIN fmap[p]
  BY DEF HasPrevMark, PrevMark
<1>2. fmap[p] \in Seq(Nat)
  BY DEF TypeOK
<1> QED
  BY <1>1, <1>2, SMT

LEMMA PositionBlocksForwType ==
    ASSUME TypeOK, NEW h \in HeadType, NEW n \in Nat
    PROVE  PositionBlocksForw(h, n) \in HeadType
<1> DEFINE p      == h.pos.part
           target == (h.pos.num + n) % Word
           mark   == fmap[p][NextMark(p, h.pos.num)]
<1>1. p \in Slot /\ h.pos.num \in Nat
  BY DEF HeadType, Header
<1>2. target \in Nat
  <2>1. h.pos.num + n \in Int
    BY <1>1, SMT
  <2> QED
    BY <2>1, WordPositive, ModInRange
<1>3. PositionToBlock(h, target) \in HeadType
  BY <1>2, PositionToBlockType
<1>4. ASSUME HasNextMark(p, h.pos.num)
      PROVE  ReadHeader(Lock(h), mark + 1) \in HeadType
  <2>1. mark \in Nat
    BY <1>1, <1>4, NextMarkType
  <2>2. mark + 1 \in Nat
    BY <2>1, SMT
  <2>3. Lock(h) \in HeadType
    BY LockType
  <2> QED
    BY <2>2, <2>3, ReadHeaderType
<1> HIDE DEF p, target, mark
<1> QED
  BY <1>3, <1>4 DEF PositionBlocksForw, p, target, mark

LEMMA PositionBlocksBackType ==
    ASSUME TypeOK, NEW h \in HeadType, NEW n \in Nat
    PROVE  PositionBlocksBack(h, n) \in HeadType
<1> DEFINE p      == h.pos.part
           target == (h.pos.num - n) % Word
           mark   == fmap[p][PrevMark(p, h.pos.num)]
<1>1. p \in Slot /\ h.pos.num \in Nat
  BY DEF HeadType, Header
<1>2. target \in Nat
  <2>1. h.pos.num - n \in Int
    BY <1>1, SMT
  <2> QED
    BY <2>1, WordPositive, ModInRange
<1>3. PositionToBlock(h, target) \in HeadType
  BY <1>2, PositionToBlockType
<1>4. ASSUME HasPrevMark(p, h.pos.num)
      PROVE  ReadHeader(Lock(h), mark) \in HeadType
  <2>1. mark \in Nat
    BY <1>1, <1>4, PrevMarkType
  <2>2. Lock(h) \in HeadType
    BY LockType
  <2> QED
    BY <2>1, <2>2, ReadHeaderType
<1> HIDE DEF p, target, mark
<1> QED
  BY <1>3, <1>4 DEF PositionBlocksBack, p, target, mark

LEMMA PositionMarksForwType ==
    ASSUME TypeOK, NEW h \in HeadType, NEW n \in Nat \ {0}
    PROVE  PositionMarksForw(h, n) \in HeadType
<1> DEFINE p == h.pos.part
           i == NextMark(p, h.pos.num) + n - 1
<1>1. p \in Slot
  BY DEF HeadType, Header
<1>2. ASSUME HasNextMark(p, h.pos.num), i <= Len(fmap[p])
      PROVE  PositionToBlock(h, fmap[p][i] + 1) \in HeadType
  <2>1. NextMark(p, h.pos.num) \in Nat \ {0}
    BY <1>1, <1>2, NextMarkType
  <2>2. fmap[p] \in Seq(Nat)
    BY <1>1 DEF TypeOK
  <2>3. fmap[p][i] + 1 \in Nat
    BY <1>2, <2>1, <2>2, SMT
  <2> QED
    BY <2>3, PositionToBlockType
<1>3. ReadHeader(Lock(h), eod[p].num) \in HeadType
  <2>1. eod[p].num \in Nat
    BY <1>1 DEF TypeOK
  <2> QED
    BY <2>1, LockType, ReadHeaderType
<1> HIDE DEF p, i
<1> QED
  BY <1>2, <1>3 DEF PositionMarksForw, p, i

LEMMA PositionMarksBackType ==
    ASSUME TypeOK, NEW h \in HeadType, NEW n \in Nat \ {0}
    PROVE  PositionMarksBack(h, n) \in HeadType
<1> DEFINE p == h.pos.part
           i == PrevMark(p, h.pos.num) - n + 1
<1>1. p \in Slot
  BY DEF HeadType, Header
<1>2. ASSUME HasPrevMark(p, h.pos.num), i >= 1
      PROVE  PositionToBlock(h, fmap[p][i]) \in HeadType
  <2>1. PrevMark(p, h.pos.num) \in Nat \ {0} /\ PrevMark(p, h.pos.num) \in DOMAIN fmap[p]
    BY <1>1, <1>2, PrevMarkType
  <2>2. fmap[p] \in Seq(Nat)
    BY <1>1 DEF TypeOK
  <2>3. fmap[p][i] \in Nat
    BY <1>2, <2>1, <2>2, SMTT(30)
  <2> QED
    BY <2>3, PositionToBlockType
<1>3. ReadHeader(Lock(h), 0) \in HeadType
  BY LockType, ReadHeaderType
<1> HIDE DEF p, i
<1> QED
  BY <1>2, <1>3 DEF PositionMarksBack, p, i

LEMMA ChangePartitionType ==
    ASSUME TypeOK, NEW h \in HeadType, NEW p \in Slot
    PROVE  ChangePartition(h, p) \in HeadType /\ OpenAfterChange(p) \subseteq Part
<1>1. [h EXCEPT !.pos.part = p] \in HeadType
  BY DEF HeadType, Header
<1>2. OpenAfterChange(p) \subseteq Part
  BY DEF OpenAfterChange, TypeOK
<1> QED
  BY <1>1, <1>2, ReadHeaderType DEF ChangePartition

-----------------------------------------------------------------------------
(* What is recorded is made of items. *)

LEMMA DiskLogType ==
    ASSUME TypeOK, NEW p \in Slot
    PROVE  DiskLog(p) \in Seq(Item)
<1>1. indx[p] \in Seq(Header) /\ data[p] \in Seq(Cell)
  BY DEF TypeOK
<1>2. ASSUME NEW i \in 1 .. Len(indx[p])
      PROVE  DiskItem(p, i) \in Item
  <2> DEFINE h == indx[p][i]
  <2>1. h \in Header
    BY <1>1, SMT
  <2>2. h.off \in Nat /\ h.len \in Nat /\ h.type \in {"none", "data", "fm", "eod"}
    BY <2>1 DEF Header
  <2>3. Hole \in Cell
    BY DEF Cell
  <2>4. Extent(p, h) \in [1 .. h.len -> Cell]
    BY <1>1, <2>2, <2>3, SMT DEF Extent
  <2>5. Extent(p, h) \in Seq(Cell)
    BY <2>2, <2>4, SeqFromRange
  <2> QED
    BY <2>2, <2>5 DEF DiskItem, Item
<1>3. DiskLog(p) \in [1 .. Len(indx[p]) -> Item]
  BY <1>2 DEF DiskLog
<1>4. Len(indx[p]) \in Nat
  BY <1>1, SMT
<1> QED
  BY <1>3, <1>4, SeqFromRange

LEMMA RecordedType ==
    ASSUME TypeOK
    PROVE  Recorded \in Seq(Item)
<1>1. op.len \in Nat /\ op.val \in Cell
  BY DEF TypeOK, OpType
<1>2. << >> \in Seq(Cell) /\ << >> \in Seq(Item)
  BY SMT
<1>3. Mark \in Item
  BY <1>2 DEF Mark, Item
<1>4. << Block(op.val, op.len) >> \in Seq(Item)
  <2>1. [i \in 1 .. op.len |-> op.val] \in [1 .. op.len -> Cell]
    BY <1>1
  <2>2. [i \in 1 .. op.len |-> op.val] \in Seq(Cell)
    BY <1>1, <2>1, SeqFromRange
  <2>3. Block(op.val, op.len) \in Item
    BY <2>2 DEF Block, Item
  <2> QED
    BY <2>3, SMT
<1>5. [i \in 1 .. op.len |-> Mark] \in Seq(Item)
  <2>1. [i \in 1 .. op.len |-> Mark] \in [1 .. op.len -> Item]
    BY <1>3
  <2> QED
    BY <1>1, <2>1, SeqFromRange
<1> QED
  BY <1>2, <1>4, <1>5 DEF Recorded

LEMMA GiveUpType ==
    ASSUME TypeOK, NEW n \in Nat, GiveUp(n)
    PROVE  acked' \in [Slot -> Seq(Item)]
<1>1. P \in Slot
  BY DEF TypeOK, HeadType, Header, P
<1>2. acked \in [Slot -> Seq(Item)]
  BY DEF TypeOK
<1>3. UpTo(acked[P], n) \in Seq(Item)
  BY <1>1, <1>2, UpToType
<1> QED
  BY <1>2, <1>3 DEF GiveUp

LEMMA AcknowledgeType ==
    ASSUME TypeOK, Acknowledge
    PROVE  acked' \in [Slot -> Seq(Item)]
<1>1. P \in Slot
  BY DEF TypeOK, HeadType, Header, P
<1>2. acked \in [Slot -> Seq(Item)]
  BY DEF TypeOK
<1>3. acked[P] \o Recorded \in Seq(Item)
  BY <1>1, <1>2, RecordedType, SMT
<1> QED
  BY <1>1, <1>2, <1>3 DEF Acknowledge

LEMMA AtEodType ==
    ASSUME TypeOK, NEW num \in Nat, NEW off \in Nat, AtEod(num, off)
    PROVE  eod' \in [Slot -> [num : Nat, off : Nat]] /\ head' \in HeadType
<1>1. P \in Slot
  BY DEF TypeOK, HeadType, Header, P
<1> QED
  BY <1>1, EodHeadType DEF AtEod, TypeOK

-----------------------------------------------------------------------------
(* Type correctness, action by action *)

LEMMA HeadFields ==
    ASSUME TypeOK
    PROVE  /\ P \in Slot /\ head.pos \in Header
           /\ head.pos.num \in Nat /\ head.pos.off \in Nat /\ head.pos.part \in Slot
           /\ op.num \in Nat /\ op.n \in Nat /\ op.len \in Nat /\ op.val \in Cell
BY DEF TypeOK, HeadType, Header, OpType, P

LEMMA NoOpType == NoOp \in OpType
BY DEF NoOp, OpType, Kinds, Steps, Cell

LEMMA BeginType ==
    ASSUME TypeOK, NEW kind \in Kinds, NEW first \in Steps, NEW n \in Nat,
           NEW v \in Cell, NEW len \in Nat, Begin(kind, first, n, v, len)
    PROVE  op' \in OpType
BY HeadFields DEF Begin, OpType, Steps

LEMMA StartWriteType ==
    ASSUME TypeOK, StartWrite
    PROVE  TypeOK'
<1>1. ASSUME NEW v \in Vals, NEW n \in 1 .. MaxLen, WriteBlock(v, n)
      PROVE  TypeOK'
  <2>1. n \in Nat /\ v \in Cell /\ 0 \in Nat
    BY <1>1, ConstantsOK, SMT DEF ConstantsOK, Cell
  <2>2. op' \in OpType
    BY <1>1, <2>1, BeginType DEF WriteBlock, Kinds, Steps
  <2>3. acked' \in [Slot -> Seq(Item)]
    BY <1>1, HeadFields, GiveUpType DEF WriteBlock
  <2>4. head' \in HeadType
    BY <1>1 DEF WriteBlock, TypeOK, HeadType
  <2> QED
    BY <1>1, <2>2, <2>3, <2>4 DEF WriteBlock, TypeOK, disk, drive, ghost
<1>2. ASSUME NEW n \in 1 .. MaxMarks, WriteMarks(n)
      PROVE  TypeOK'
  <2>1. n \in Nat /\ Hole \in Cell
    BY <1>2, ConstantsOK, SMT DEF ConstantsOK, Cell
  <2>2. op' \in OpType
    BY <1>2, <2>1, BeginType DEF WriteMarks, Kinds, Steps
  <2>3. acked' \in [Slot -> Seq(Item)]
    BY <1>2, HeadFields, GiveUpType DEF WriteMarks
  <2>4. MayWrite \in BOOLEAN
    BY DEF MayWrite
  <2>5. head' \in HeadType
    BY <1>2, <2>4 DEF WriteMarks, TypeOK, HeadType
  <2> QED
    BY <1>2, <2>2, <2>3, <2>5 DEF WriteMarks, TypeOK, disk, drive, ghost
<1>3. ASSUME Erase
      PROVE  TypeOK'
  <2>1. Hole \in Cell /\ 0 \in Nat
    BY SMT DEF Cell
  <2>2. op' \in OpType
    BY <1>3, <2>1, BeginType DEF Erase, Kinds, Steps
  <2>3. acked' \in [Slot -> Seq(Item)]
    BY <1>3, <2>1, GiveUpType DEF Erase
  <2>4. head' \in HeadType
    BY <1>3 DEF Erase, TypeOK, HeadType
  <2> QED
    BY <1>3, <2>2, <2>3, <2>4 DEF Erase, TypeOK, disk, drive, ghost
<1> QED
  BY <1>1, <1>2, <1>3 DEF StartWrite

\* The slot of no files is one of the slots, and partition 0 always exists.
LEMMA ZeroIsPart == 0 \in Part /\ Part \subseteq Slot
BY ConstantsOK, SMT DEF ConstantsOK, Part, Slot

LEMMA FormatType ==
    ASSUME TypeOK, Format
    PROVE  TypeOK'
<1>1. << >> \in Seq(Cell) /\ << >> \in Seq(Header) /\ << >> \in Seq(Nat) /\ << >> \in Seq(Item)
  BY SMT
<1>2. head' \in HeadType
  BY ZeroIsPart, EodHeadType DEF Format
<1>3. fds' \subseteq Part
  BY ZeroIsPart DEF Format
<1>4. /\ data' \in [Slot -> Seq(Cell)] /\ indx' \in [Slot -> Seq(Header)]
      /\ torn' \in [Slot -> BOOLEAN]
      /\ mfile' \in [Slot -> [count : Nat, map : Seq(Nat)]]
      /\ eod' \in [Slot -> [num : Nat, off : Nat]]
      /\ fmap' \in [Slot -> Seq(Nat)] /\ acked' \in [Slot -> Seq(Item)]
  BY <1>1 DEF Format
<1> QED
  BY <1>2, <1>3, <1>4 DEF Format, TypeOK, ghost

LEMMA WriteRefusedType ==
    ASSUME TypeOK, WriteRefused
    PROVE  TypeOK'
<1>1. head' \in HeadType
  BY DEF WriteRefused, TypeOK, HeadType
<1> QED
  BY <1>1 DEF WriteRefused, TypeOK, disk, drive, ghost

\* The file operations of a handler.
LEMMA CutType ==
    ASSUME TypeOK, CutIndx \/ CutData
    PROVE  TypeOK'
<1>1. ZeroHeader \in Header /\ Hole \in Cell
  BY ZeroIsPart DEF ZeroHeader, Header, Cell
<1>2. CASE CutIndx
  <2>1. indx[P] \in Seq(Header)
    BY HeadFields DEF TypeOK
  <2>2. CutIndxFile \in Seq(Header)
    BY <1>1, <2>1, HeadFields, FTruncateType DEF CutIndxFile
  <2>3. indx' \in [Slot -> Seq(Header)] /\ torn' \in [Slot -> BOOLEAN]
    BY <1>2, <2>2 DEF CutIndx, TypeOK
  <2>4. op' \in OpType
    BY <1>2 DEF CutIndx, TypeOK, OpType, Steps
  <2> QED
    BY <1>2, <2>3, <2>4 DEF CutIndx, TypeOK, drive, ghost
<1>3. CASE CutData
  <2>1. data[P] \in Seq(Cell)
    BY HeadFields DEF TypeOK
  <2>2. CutDataFile \in Seq(Cell)
    BY <1>1, <2>1, HeadFields, FTruncateType DEF CutDataFile
  <2>3. data' \in [Slot -> Seq(Cell)]
    BY <1>3, <2>2 DEF CutData, TypeOK
  <2>4. op' \in OpType
    <3>1. AfterCut \in Steps
      BY DEF AfterCut, Steps
    <3> QED
      BY <1>3, <3>1, ZenonT(40) DEF CutData, TypeOK, OpType, Steps
  <2>5. fmap' \in [Slot -> Seq(Nat)]
    <3>1. CASE HasNextMark(P, head.pos.num)
      <4>1. NextMark(P, head.pos.num) - 1 \in Nat
        <5>1. NextMark(P, head.pos.num) \in Nat \ {0}
          BY <3>1, HeadFields, NextMarkType
        <5> QED
          BY <5>1, SMT
      <4>2. fmap[P] \in Seq(Nat)
        BY HeadFields DEF TypeOK
      <4>3. KeptMarks \in Seq(Nat)
        BY <4>1, <4>2, UpToType DEF KeptMarks
      <4> QED
        BY <1>3, <3>1, <4>3 DEF CutData, TypeOK
    <3>2. CASE ~HasNextMark(P, head.pos.num)
      BY <1>3, <3>2 DEF CutData, TypeOK
    <3> QED
      BY <3>1, <3>2
  <2> QED
    BY <1>3, <2>3, <2>4, <2>5 DEF CutData, TypeOK, drive, ghost
<1> QED
  BY <1>2, <1>3

\* A head that left a partition's maps and files alone.
LEMMA MetaType ==
    ASSUME TypeOK, MetaHead \/ MetaMap \/ MetaLen
    PROVE  TypeOK'
<1>1. fmap[P] \in Seq(Nat) /\ Len(fmap[P]) \in Nat
  BY HeadFields DEF TypeOK
<1>2. mfile \in [Slot -> [count : Nat, map : Seq(Nat)]] /\ mfile[P].map \in Seq(Nat)
  BY HeadFields DEF TypeOK
<1>3. CASE MetaHead
  <2>1. mfile' \in [Slot -> [count : Nat, map : Seq(Nat)]]
    BY <1>1, <1>2, <1>3 DEF MetaHead
  <2>2. op' \in OpType
    BY <1>3 DEF MetaHead, TypeOK, OpType, Steps
  <2> QED
    BY <1>3, <2>1, <2>2 DEF MetaHead, TypeOK, drive, ghost
<1>4. CASE MetaMap
  <2> DEFINE n == Larger(Len(mfile[P].map), Len(fmap[P]))
             f == [i \in 1 .. n |->
                      IF i <= Len(fmap[P]) THEN fmap[P][i] ELSE mfile[P].map[i]]
  <2>1. n \in Nat
    BY <1>1, <1>2, SMT DEF Larger
  <2>2. f \in [1 .. n -> Nat]
    BY <1>1, <1>2, SMT DEF Larger
  <2>3. f \in Seq(Nat)
    BY <2>1, <2>2, SeqFromRange
  <2>4. mfile' = [mfile EXCEPT ![P].map = f]
    BY <1>4 DEF MetaMap
  <2> HIDE DEF f
  <2>5. mfile' \in [Slot -> [count : Nat, map : Seq(Nat)]]
    BY <1>2, <2>3, <2>4
  <2>6. op' \in OpType
    BY <1>4 DEF MetaMap, TypeOK, OpType, Steps
  <2> QED
    BY <1>4, <2>5, <2>6 DEF MetaMap, TypeOK, drive, ghost
<1>5. CASE MetaLen
  <2>1. FTruncate(mfile[P].map, Len(fmap[P]), 0) \in Seq(Nat)
    BY <1>1, <1>2, FTruncateType
  <2>2. mfile' \in [Slot -> [count : Nat, map : Seq(Nat)]]
    BY <1>2, <1>5, <2>1 DEF MetaLen
  <2>3. AfterMeta \in Steps
    BY DEF AfterMeta, AfterCut, Steps
  <2>4. op' \in OpType
    BY <1>5, <2>3 DEF MetaLen, TypeOK, OpType
  <2> QED
    BY <1>5, <2>2, <2>4 DEF MetaLen, TypeOK, drive, ghost
<1> QED
  BY <1>3, <1>4, <1>5

LEMMA NewHeaderType ==
    ASSUME TypeOK
    PROVE  NewHeader \in Header
BY HeadFields DEF NewHeader, Header

LEMMA MarkHeaderType ==
    ASSUME TypeOK
    PROVE  MarkHeader(op.num) \in Header
BY HeadFields DEF MarkHeader, Header

LEMMA PutType ==
    ASSUME TypeOK, PutData \/ PutIndx
    PROVE  TypeOK'
<1>1. ZeroHeader \in Header /\ Hole \in Cell
  BY ZeroIsPart DEF ZeroHeader, Header, Cell
<1>2. CASE PutData
  <2>1. data[P] \in Seq(Cell)
    BY HeadFields DEF TypeOK
  <2>2. PutDataFile \in Seq(Cell)
    BY <1>1, <2>1, HeadFields, PWriteType DEF PutDataFile
  <2>3. data' \in [Slot -> Seq(Cell)]
    BY <1>2, <2>2 DEF PutData, TypeOK
  <2>4. op' \in OpType
    BY <1>2 DEF PutData, TypeOK, OpType, Steps
  <2> QED
    BY <1>2, <2>3, <2>4 DEF PutData, TypeOK, drive, ghost
<1>3. CASE PutIndx
  <2>1. indx[P] \in Seq(Header)
    BY HeadFields DEF TypeOK
  <2>2. PWrite(indx[P], head.pos.num, 1, NewHeader, ZeroHeader) \in Seq(Header)
    BY <1>1, <2>1, HeadFields, NewHeaderType, PWriteType
  <2>3. indx' \in [Slot -> Seq(Header)]
    BY <1>3, <2>2 DEF PutIndx, TypeOK
  <2>4. torn' \in [Slot -> BOOLEAN]
    <3>1. StillTorn(head.pos.num) \in BOOLEAN
      BY DEF StillTorn
    <3> QED
      BY <1>3, <3>1 DEF PutIndx, TypeOK
  <2>5. eod' \in [Slot -> [num : Nat, off : Nat]] /\ head' \in HeadType
    <3>1. head.pos.num + 1 \in Nat /\ head.pos.off + op.len \in Nat
      BY HeadFields, SMT
    <3> QED
      BY <1>3, <3>1, AtEodType DEF PutIndx
  <2>6. acked' \in [Slot -> Seq(Item)]
    BY <1>3, AcknowledgeType DEF PutIndx
  <2>7. op' \in OpType
    BY <1>3, NoOpType DEF PutIndx
  <2> QED
    BY <1>3, <2>3, <2>4, <2>5, <2>6, <2>7 DEF PutIndx, TypeOK, drive, ghost
<1> QED
  BY <1>2, <1>3

LEMMA MarksType ==
    ASSUME TypeOK, PutMark \/ NextMarkOrDone
    PROVE  TypeOK'
<1>1. CASE PutMark
  <2>1. indx[P] \in Seq(Header) /\ ZeroHeader \in Header
    BY HeadFields, ZeroIsPart DEF TypeOK, ZeroHeader, Header
  <2>2. PWrite(indx[P], op.num, 1, MarkHeader(op.num), ZeroHeader) \in Seq(Header)
    BY <2>1, HeadFields, MarkHeaderType, PWriteType
  <2>3. indx' \in [Slot -> Seq(Header)]
    BY <1>1, <2>2 DEF PutMark, TypeOK
  <2>4. torn' \in [Slot -> BOOLEAN]
    <3>1. StillTorn(op.num) \in BOOLEAN
      BY DEF StillTorn
    <3> QED
      BY <1>1, <3>1 DEF PutMark, TypeOK
  <2>5. fmap' \in [Slot -> Seq(Nat)]
    <3>1. Append(fmap[P], op.num) \in Seq(Nat)
      BY HeadFields, SMT DEF TypeOK
    <3> QED
      BY <1>1, <3>1 DEF PutMark, TypeOK
  <2>6. head' \in HeadType
    BY <1>1, MarkHeaderType DEF PutMark, TypeOK, HeadType
  <2>7. op' \in OpType
    <3>1. op.num + 1 \in Nat
      BY HeadFields, SMT
    <3> QED
      BY <1>1, <3>1 DEF PutMark, TypeOK, OpType, Steps
  <2> QED
    BY <1>1, <2>3, <2>4, <2>5, <2>6, <2>7 DEF PutMark, TypeOK, drive, ghost
<1>2. CASE NextMarkOrDone
  <2>1. CASE op.n > 1
    <3>1. op.n - 1 \in Nat
      BY <2>1, HeadFields, SMT
    <3>2. op' \in OpType
      BY <1>2, <2>1, <3>1 DEF NextMarkOrDone, TypeOK, OpType, Steps
    <3> QED
      BY <1>2, <2>1, <3>2 DEF NextMarkOrDone, TypeOK, disk, drive, ghost
  <2>2. CASE ~(op.n > 1)
    <3>1. eod' \in [Slot -> [num : Nat, off : Nat]] /\ head' \in HeadType
      BY <1>2, <2>2, HeadFields, AtEodType DEF NextMarkOrDone
    <3>2. acked' \in [Slot -> Seq(Item)]
      BY <1>2, <2>2, AcknowledgeType DEF NextMarkOrDone
    <3>3. op' \in OpType
      BY <1>2, <2>2, NoOpType DEF NextMarkOrDone
    <3> QED
      BY <1>2, <2>2, <3>1, <3>2, <3>3 DEF NextMarkOrDone, TypeOK, disk, drive, ghost
  <2> QED
    BY <2>1, <2>2
<1> QED
  BY <1>1, <1>2

LEMMA WipeType ==
    ASSUME TypeOK, Wipe \/ Wiped
    PROVE  TypeOK'
<1>1. CASE Wipe
  <2>1. << >> \in Seq(Nat)
    BY SMT
  <2>2. fmap' \in [Slot -> Seq(Nat)]
    BY <1>1, <2>1 DEF Wipe, TypeOK
  <2>3. op' \in OpType
    BY <1>1 DEF Wipe, TypeOK, OpType, Steps
  <2> QED
    BY <1>1, <2>2, <2>3 DEF Wipe, TypeOK, disk, drive, ghost
<1>2. CASE Wiped
  <2>1. eod' \in [Slot -> [num : Nat, off : Nat]] /\ head' \in HeadType
    BY <1>2, HeadFields, AtEodType DEF Wiped
  <2>2. op' \in OpType
    BY <1>2, NoOpType DEF Wiped
  <2> QED
    BY <1>2, <2>1, <2>2 DEF Wiped, TypeOK, disk, drive, ghost
<1> QED
  BY <1>1, <1>2

LEMMA CloseType ==
    ASSUME TypeOK, ClosePartition \/ Unload
    PROVE  TypeOK'
<1>1. CASE ClosePartition
  <2>1. NextPartition \in Slot /\ NextPartition \in Nat
    BY <1>1, HeadFields, ConstantsOK, SMT
    DEF ClosePartition, NextPartition, ConstantsOK, Slot
  <2>2. head' \in HeadType /\ fds' \subseteq Part
    BY <1>1, <2>1, ChangePartitionType DEF ClosePartition, TypeOK
  <2>3. op' \in OpType
    BY <1>1, <2>1 DEF ClosePartition, TypeOK, OpType, Steps
  <2> QED
    BY <1>1, <2>2, <2>3 DEF ClosePartition, TypeOK, disk, ghost
<1>2. CASE Unload
  <2>1. << >> \in Seq(Nat) /\ 0 \in Nat
    BY SMT
  <2>2. eod' \in [Slot -> [num : Nat, off : Nat]] /\ fmap' \in [Slot -> Seq(Nat)]
    BY <1>2, <2>1 DEF Unload
  <2>3. head' \in HeadType
    BY <1>2 DEF Unload, TypeOK, HeadType
  <2>4. op' \in OpType
    BY <1>2, NoOpType DEF Unload
  <2>5. fds' \subseteq Part
    BY <1>2 DEF Unload, TypeOK
  <2> QED
    BY <1>2, <2>2, <2>3, <2>4, <2>5 DEF Unload, TypeOK, disk, ghost
<1> QED
  BY <1>1, <1>2

LEMMA FailType ==
    ASSUME TypeOK, NEW kind, Fail(kind)
    PROVE  failures' \in Seq(FaultKinds) /\ suspect' \subseteq Part
<1>1. kind \in FaultKinds
  BY ConstantsOK DEF Fail, ConstantsOK
<1>2. failures' \in Seq(FaultKinds)
  BY <1>1, SMT DEF Fail, TypeOK
<1> QED
  BY <1>2 DEF Fail, TypeOK

LEMMA FaultType ==
    ASSUME TypeOK, Fault
    PROVE  TypeOK'
<1>1. ZeroHeader \in Header /\ Hole \in Cell
  BY ZeroIsPart DEF ZeroHeader, Header, Cell
<1>2. data[P] \in Seq(Cell) /\ indx[P] \in Seq(Header)
  BY HeadFields DEF TypeOK
<1>3. CutDataFile \in Seq(Cell)
  BY <1>1, <1>2, HeadFields, FTruncateType DEF CutDataFile
<1>4. CASE CutFails
  <2>1. failures' \in Seq(FaultKinds) /\ suspect' \subseteq Part /\ op' \in OpType
    BY <1>4, FailType, NoOpType DEF CutFails
  <2> QED
    BY <1>4, <2>1 DEF CutFails, TypeOK, disk, drive
<1>5. CASE MetaFails
  <2>1. failures' \in Seq(FaultKinds) /\ suspect' \subseteq Part
    BY <1>5, FailType DEF MetaFails, ghost, TypeOK
  <2>2. op' \in OpType /\ acked' \in [Slot -> Seq(Item)]
    <3>1. CASE op.cut
      BY <1>5, <3>1, NoOpType, AcknowledgeType DEF MetaFails
    <3>2. CASE ~op.cut
      <4>1. AfterMeta \in Steps
        BY DEF AfterMeta, AfterCut, Steps
      <4> QED
        BY <1>5, <3>2, <4>1 DEF MetaFails, TypeOK, OpType
    <3> QED
      BY <3>1, <3>2
  <2> QED
    BY <1>5, <2>1, <2>2 DEF MetaFails, TypeOK, disk, drive
<1>6. CASE DataFails
  <2>1. failures' \in Seq(FaultKinds) /\ suspect' \subseteq Part /\ op' \in OpType
    BY <1>6, FailType, NoOpType DEF DataFails
  <2>2. data' \in [Slot -> Seq(Cell)]
    BY <1>3, <1>6 DEF DataFails, TypeOK
  <2>3. eod' \in [Slot -> [num : Nat, off : Nat]] /\ head' \in HeadType
    BY <1>6, HeadFields, AtEodType DEF DataFails
  <2> QED
    BY <1>6, <2>1, <2>2, <2>3 DEF DataFails, TypeOK, drive
<1>7. CASE IndxFails
  <2>1. failures' \in Seq(FaultKinds) /\ suspect' \subseteq Part /\ op' \in OpType
    BY <1>7, FailType, NoOpType DEF IndxFails
  <2>2. data' \in [Slot -> Seq(Cell)]
    BY <1>3, <1>7 DEF IndxFails, TypeOK
  <2>3. indx' \in [Slot -> Seq(Header)]
    <3>1. IndxAfterFailure \in Nat
      <4>1. head.pos.num - 1 \in Int
        BY HeadFields, SMT
      <4> QED
        BY <4>1, WordPositive, ModInRange DEF IndxAfterFailure
    <3>2. FTruncate(indx[P], IndxAfterFailure, ZeroHeader) \in Seq(Header)
      BY <1>1, <1>2, <3>1, FTruncateType
    <3> QED
      BY <1>7, <3>2 DEF IndxFails, TypeOK
  <2>4. torn' \in [Slot -> BOOLEAN]
    BY <1>7 DEF IndxFails, TypeOK
  <2>5. eod' \in [Slot -> [num : Nat, off : Nat]] /\ head' \in HeadType
    BY <1>7, HeadFields, AtEodType DEF IndxFails
  <2> QED
    BY <1>7, <2>1, <2>2, <2>3, <2>4, <2>5 DEF IndxFails, TypeOK, drive
<1>8. CASE MarkFails
  <2>1. failures' \in Seq(FaultKinds) /\ suspect' \subseteq Part /\ op' \in OpType
    BY <1>8, FailType, NoOpType DEF MarkFails
  <2>2. PWrite(indx[P], op.num, 0, ZeroHeader, ZeroHeader) \in Seq(Header)
    BY <1>1, <1>2, HeadFields, PWriteType
  <2>3. indx' \in [Slot -> Seq(Header)] /\ torn' \in [Slot -> BOOLEAN]
    BY <1>8, <2>2 DEF MarkFails, TypeOK
  <2>4. head' \in HeadType
    BY <1>8, MarkHeaderType DEF MarkFails, TypeOK, HeadType
  <2> QED
    BY <1>8, <2>1, <2>3, <2>4 DEF MarkFails, TypeOK, drive
<1> QED
  BY <1>4, <1>5, <1>6, <1>7, <1>8 DEF Fault

LEMMA MoveType ==
    ASSUME TypeOK, NEW h \in HeadType, Move(h)
    PROVE  TypeOK'
BY DEF Move, TypeOK, disk, drive, ghost

LEMMA MoveHeadType ==
    ASSUME TypeOK, MoveHead
    PROVE  TypeOK'
<1>1. head \in HeadType /\ head.pos.part \in Slot
  BY HeadFields DEF TypeOK
<1>2. CASE Rewind
  BY <1>1, <1>2, RewindTapeType, MoveType DEF Rewind
<1>3. CASE SpaceEod
  <2>1. eod[head.pos.part].num \in Nat
    BY <1>1 DEF TypeOK
  <2>2. PositionToEod(head) \in HeadType
    BY <1>1, <2>1, ReadHeaderType DEF PositionToEod
  <2> QED
    BY <1>3, <2>2, MoveType DEF SpaceEod
<1>4. CASE ReadBlock
  <2>1. head.pos.num + 1 \in Nat /\ 1 \in Nat
    BY HeadFields, SMT
  <2>2. PositionBlocksForw(head, 1) \in HeadType /\ ReadHeader(head, head.pos.num + 1) \in HeadType
    BY <1>1, <2>1, PositionBlocksForwType, ReadHeaderType
  <2> QED
    BY <1>4, <2>2, MoveType DEF ReadBlock
<1>5. CASE LoadAgain
  <2>1. ChangePartition(head, 0) \in HeadType /\ OpenAfterChange(0) \subseteq Part
    BY <1>1, ZeroIsPart, ChangePartitionType
  <2>2. RewindTape(ChangePartition(head, 0)) \in HeadType
    BY <2>1, RewindTapeType
  <2> QED
    BY <1>5, <2>1, <2>2 DEF LoadAgain, TypeOK, disk, ghost
<1>6. ASSUME NEW n \in 1 .. MaxSpace, SpaceBlocks(n) \/ SpaceMarks(n)
      PROVE  TypeOK'
  <2>1. n \in Nat \ {0}
    BY ConstantsOK, SMT DEF ConstantsOK
  <2>2. /\ PositionBlocksForw(head, n) \in HeadType
        /\ PositionBlocksBack(head, n) \in HeadType
        /\ PositionMarksForw(head, n) \in HeadType
        /\ PositionMarksBack(head, n) \in HeadType
    BY <1>1, <2>1, PositionBlocksForwType, PositionBlocksBackType,
       PositionMarksForwType, PositionMarksBackType
  <2> QED
    BY <1>6, <2>2, MoveType DEF SpaceBlocks, SpaceMarks
<1>7. ASSUME NEW p \in Slot, NEW blk \in 0 .. MaxBlocks + 1, Locate(p, blk)
      PROVE  TypeOK'
  <2>1. blk \in Nat
    BY ConstantsOK, SMT DEF ConstantsOK
  <2>2. ChangePartition(head, p) \in HeadType /\ OpenAfterChange(p) \subseteq Part
    BY <1>1, ChangePartitionType
  <2>3. PositionToBlock(ChangePartition(head, p), blk) \in HeadType
    BY <2>1, <2>2, PositionToBlockType
  <2> QED
    BY <1>7, <2>2, <2>3 DEF Locate, TypeOK, disk, ghost
<1> QED
  BY <1>2, <1>3, <1>4, <1>5, <1>6, <1>7 DEF MoveHead

LEMMA LoadedMapType ==
    ASSUME TypeOK, NEW p \in Slot, NEW g \in Nat
    PROVE  LoadedMap(p, g) \in Seq(Nat)
<1>1. mfile[p].count \in Nat /\ mfile[p].map \in Seq(Nat)
  BY DEF TypeOK
<1>2. LoadedMap(p, g) \in [1 .. mfile[p].count -> Nat]
  BY <1>1, SMT DEF LoadedMap
<1> QED
  BY <1>1, <1>2, SeqFromRange

LEMMA LoadedEodType ==
    ASSUME TypeOK, NEW p \in Slot, NEW g \in Nat
    PROVE  LoadedEod(p, g) \in [num : Nat, off : Nat]
<1>1. indx[p] \in Seq(Header)
  BY DEF TypeOK
<1>2. Len(indx[p]) \in Nat
  BY <1>1, SMT
<1>3. ASSUME indx[p] # << >>
      PROVE  LastEnd(p) \in Nat
  <2>1. indx[p][Len(indx[p])] \in Header
    BY <1>1, <1>3, SMT
  <2>2. /\ indx[p][Len(indx[p])].off \in Nat
        /\ indx[p][Len(indx[p])].len \in Nat
    BY <2>1 DEF Header
  <2> QED
    BY <2>2, SMT DEF LastEnd
<1> QED
  BY <1>2, <1>3 DEF LoadedEod

LEMMA LoadType ==
    ASSUME TypeOK, NEW ro \in BOOLEAN, NEW g \in 0 .. MaxBlocks, Load(ro, g)
    PROVE  TypeOK'
<1>1. g \in Nat
  BY ConstantsOK, SMT DEF ConstantsOK
<1>2. wp' \in BOOLEAN /\ status' \in {"loaded", "unloaded"}
  BY DEF Load, TypeOK
<1>3. fds' \subseteq Part
  BY ZeroIsPart DEF Load
<1>4. eod' \in [Slot -> [num : Nat, off : Nat]]
  BY <1>1, LoadedEodType DEF Load
<1>5. fmap' \in [Slot -> Seq(Nat)]
  BY <1>1, LoadedMapType DEF Load
<1>6. head' \in HeadType
  <2> DEFINE first == IF eod'[0].num = 0
                      THEN [type |-> "eod", num |-> 0, part |-> 0,
                            off |-> eod'[0].off, len |-> 0]
                      ELSE indx[0][1]
             blank == \/ first.type = "eod"
                      \/ (first.type = "fm" /\ eod'[0].num = 1)
             okw   == CASE MediumType = "clean" -> FALSE
                        [] MediumType = "worm"  -> blank /\ ~ro
                        [] OTHER                -> ~ro
  <2>1. 0 \in Slot
    BY ZeroIsPart
  <2>2. eod'[0].off \in Nat
    BY <1>4, <2>1
  <2>4. ASSUME eod'[0].num # 0
        PROVE  first \in Header
    <3>1. indx[0] \in Seq(Header)
      BY <2>1 DEF TypeOK
    <3>2. eod'[0].num = IF torn[0] THEN 0 ELSE Len(indx[0])
      BY <2>1 DEF Load, LoadedEod
    <3>3. Len(indx[0]) # 0
      BY <2>4, <3>2
    <3>4. indx[0][1] \in Header
      BY <3>1, <3>3, SMT
    <3> QED
      BY <2>4, <3>4
  <2>5. first \in Header
    <3>1. ASSUME eod'[0].num = 0
          PROVE  first \in Header
      <4>1. first = [type |-> "eod", num |-> 0, part |-> 0, off |-> eod'[0].off, len |-> 0]
        BY <3>1
      <4> HIDE DEF first
      <4> QED
        BY <2>1, <2>2, <4>1, SMT DEF Header
    <3> QED
      BY <2>4, <3>1
  <2>6. okw \in BOOLEAN
    OBVIOUS
  <2>7. head' = [pos |-> first, okw |-> okw]
    BY DEF Load
  <2> HIDE DEF first, okw
  <2> QED
    BY <2>5, <2>6, <2>7 DEF HeadType
<1>7. suspect' \subseteq Part
  BY DEF Load, TypeOK
<1>8. acked' \in [Slot -> Seq(Item)]
  BY DiskLogType DEF Load, TypeOK
<1> QED
  BY <1>2, <1>3, <1>4, <1>5, <1>6, <1>7, <1>8 DEF Load, TypeOK, disk

LEMMA UnloadStartType ==
    ASSUME TypeOK, UnloadStart
    PROVE  TypeOK'
<1>1. head' \in HeadType /\ fds' \subseteq Part
  BY ZeroIsPart, ChangePartitionType DEF UnloadStart, TypeOK
<1>2. op' \in OpType
  BY NoOpType DEF UnloadStart, OpType, Kinds, Steps
<1> QED
  BY <1>1, <1>2 DEF UnloadStart, TypeOK, disk, ghost

LEMMA ZeroHead == [pos |-> ZeroHeader, okw |-> FALSE] \in HeadType
BY ZeroIsPart DEF HeadType, Header, ZeroHeader

LEMMA CrashType ==
    ASSUME TypeOK, Crash
    PROVE  TypeOK'
<1>1. << >> \in Seq(Nat) /\ 0 \in Nat
  BY SMT
<1>2. failures' \in Seq(FaultKinds) /\ suspect' \subseteq Part
  BY FailType DEF Crash
<1>3. eod' \in [Slot -> [num : Nat, off : Nat]] /\ fmap' \in [Slot -> Seq(Nat)]
  BY <1>1 DEF Crash
<1>4. head' \in HeadType /\ op' \in OpType
  BY ZeroHead, NoOpType DEF Crash
<1> QED
  BY <1>2, <1>3, <1>4 DEF Crash, TypeOK, disk

LEMMA InitType ==
    ASSUME Init
    PROVE  TypeOK
<1>1. << >> \in Seq(Cell) /\ << >> \in Seq(Header) /\ << >> \in Seq(Nat) /\ << >> \in Seq(Item)
  BY SMT
<1>2. head \in HeadType /\ op \in OpType
  BY ZeroHead, NoOpType DEF Init
<1> QED
  BY <1>1, <1>2 DEF Init, TypeOK

LEMMA NextType ==
    ASSUME TypeOK, [Next]_vars
    PROVE  TypeOK'
<1>1. CASE FileStep
  BY <1>1, CutType, MetaType, PutType, MarksType, WipeType, CloseType DEF FileStep
<1>2. ASSUME NEW ro \in BOOLEAN, NEW g \in 0 .. MaxBlocks, Load(ro, g)
      PROVE  TypeOK'
  BY <1>2, LoadType
<1>3. CASE UNCHANGED vars
  BY <1>3 DEF vars, disk, drive, ghost, TypeOK
<1> QED
  BY <1>1, <1>2, <1>3, StartWriteType, FormatType, WriteRefusedType, FaultType,
     MoveHeadType, UnloadStartType, CrashType
  DEF Next

\* The state of the cartridge store stays within its types: block numbers and
\* offsets stay natural numbers, the head stays on a header.
THEOREM TypeCorrect == Spec => []TypeOK
<1>1. Init => TypeOK
  BY InitType
<1>2. TypeOK /\ [Next]_vars => TypeOK'
  BY NextType
<1> QED
  BY <1>1, <1>2, PTL DEF Spec

-----------------------------------------------------------------------------
(* A write-protected medium is never changed.  The property is about steps;
   what makes it hold is an invariant about the handler in progress, which
   remembers that check_restrictions() was asked before its first file
   operation. *)

\* The steps of unload_tape(), the only handler that writes files of a
\* protected medium: it rewrites the filemark map and closes the files.
UnloadSteps == {"idle", "meta_head", "meta_map", "meta_len", "closing"}

Protected == MediumType = "data" /\ wp /\ status = "loaded"

\* No handler is in progress without having begun, and on a protected medium
\* the one in progress is unload_tape().
OnlyUnloads ==
    /\ op.step = "idle" => op = NoOp
    /\ Protected => /\ op.kind \in {"none", "unload"}
                    /\ op.step \in UnloadSteps
                    /\ ~op.cut

GuardInv == TypeOK /\ OnlyUnloads

LEMMA NoOpGuarded == NoOp.kind = "none" /\ NoOp.step = "idle" /\ NoOp.cut = FALSE
BY DEF NoOp

LEMMA NoOpOnlyUnloads ==
    ASSUME op' = NoOp
    PROVE  OnlyUnloads'
BY NoOpGuarded DEF OnlyUnloads, UnloadSteps

LEMMA NeverBegun ==
    ASSUME OnlyUnloads, MayWrite \/ MarksAllowed
    PROVE  ~(MediumType = "data" /\ wp)
BY DEF MayWrite, MarksAllowed

\* A handler that check_restrictions() let through, in progress.
LEMMA BeginGuarded ==
    ASSUME NEW kind, NEW first, NEW n, NEW v, NEW len, Begin(kind, first, n, v, len)
    PROVE  op'.step = IF head.pos.type = "eod" THEN first ELSE "cut_indx"
BY DEF Begin

LEMMA StartGuarded ==
    ASSUME GuardInv, StartWrite
    PROVE  OnlyUnloads'
<1>1. ~(MediumType = "data" /\ wp)
  BY NeverBegun DEF GuardInv, StartWrite, WriteBlock, WriteMarks, Erase
<1>2. UNCHANGED <<wp, status>>
  BY DEF StartWrite, WriteBlock, WriteMarks, Erase, drive
<1>3. op'.step # "idle"
  BY BeginGuarded DEF StartWrite, WriteBlock, WriteMarks, Erase
<1> QED
  BY <1>1, <1>2, <1>3 DEF OnlyUnloads, Protected

\* The steps of the handler in progress.  Those that write blocks cannot be
\* next on a protected medium.
LEMMA StepGuarded ==
    ASSUME GuardInv, FileStep
    PROVE  OnlyUnloads'
<1>1. UNCHANGED wp /\ (status' = "loaded" => status = "loaded")
  BY DEF FileStep, CutIndx, CutData, MetaHead, MetaMap, MetaLen, PutData, PutIndx,
         PutMark, NextMarkOrDone, Wipe, Wiped, ClosePartition, Unload, drive
<1>2. Protected' => Protected
  BY <1>1 DEF Protected
<1>3. op \in OpType
  BY DEF GuardInv, TypeOK
<1>4. AfterMeta # "idle" /\ AfterCut # "idle"
  BY DEF AfterMeta, AfterCut
<1>5. CASE CutIndx \/ CutData \/ PutData \/ PutMark \/ Wipe
  <2>1. ~Protected
    BY <1>5 DEF GuardInv, OnlyUnloads, UnloadSteps, CutIndx, CutData, PutData, PutMark, Wipe
  <2>2. op'.step # "idle"
    BY <1>3, <1>4, <1>5 DEF CutIndx, CutData, PutData, PutMark, Wipe, OpType
  <2> QED
    BY <1>2, <2>1, <2>2 DEF OnlyUnloads
<1>6. CASE NextMarkOrDone
  <2>1. ~Protected
    BY <1>6 DEF GuardInv, OnlyUnloads, UnloadSteps, NextMarkOrDone
  <2>2. op' = NoOp \/ op'.step = "put_mark"
    BY <1>3, <1>6 DEF NextMarkOrDone, OpType
  <2> QED
    BY <1>2, <2>1, <2>2 DEF OnlyUnloads
<1>7. CASE PutIndx \/ Wiped \/ Unload
  <2>1. op' = NoOp
    BY <1>7 DEF PutIndx, Wiped, Unload
  <2> QED
    BY <2>1, NoOpOnlyUnloads
<1>8. CASE MetaHead \/ MetaMap
  <2>1. op'.step \in {"meta_map", "meta_len"} /\ op'.kind = op.kind /\ op'.cut = op.cut
    BY <1>3, <1>8 DEF MetaHead, MetaMap, OpType
  <2> QED
    BY <1>2, <2>1 DEF GuardInv, OnlyUnloads, UnloadSteps
<1>9. CASE MetaLen
  <2>1. op'.step = AfterMeta /\ op'.kind = op.kind /\ op'.cut = FALSE
    BY <1>3, <1>9 DEF MetaLen, OpType
  <2>2. Protected => AfterMeta = "closing"
    BY DEF GuardInv, OnlyUnloads, AfterMeta
  <2> QED
    BY <1>2, <1>4, <2>1, <2>2 DEF GuardInv, OnlyUnloads, UnloadSteps
<1>10. CASE ClosePartition
  <2>1. op'.step = "meta_head" /\ op'.kind = op.kind /\ op'.cut = op.cut
    BY <1>3, <1>10 DEF ClosePartition, OpType
  <2> QED
    BY <1>2, <2>1 DEF GuardInv, OnlyUnloads, UnloadSteps
<1> QED
  BY <1>5, <1>6, <1>7, <1>8, <1>9, <1>10 DEF FileStep

LEMMA FaultGuarded ==
    ASSUME GuardInv, Fault
    PROVE  OnlyUnloads'
<1>1. CASE CutFails \/ DataFails \/ IndxFails \/ MarkFails
  <2>1. op' = NoOp
    BY <1>1 DEF CutFails, DataFails, IndxFails, MarkFails
  <2> QED
    BY <2>1, NoOpOnlyUnloads
<1>2. CASE MetaFails
  <2>1. CASE op' = NoOp
    BY <2>1, NoOpOnlyUnloads
  <2>2. CASE op' = [op EXCEPT !.step = AfterMeta] /\ ~op.cut
    <3>1. op \in OpType
      BY DEF GuardInv, TypeOK
    <3>2. op'.step = AfterMeta /\ op'.kind = op.kind /\ op'.cut = op.cut
      BY <2>2, <3>1 DEF OpType
    <3>3. UNCHANGED <<wp, status>>
      BY <1>2 DEF MetaFails, drive
    <3>4. AfterMeta # "idle"
      BY DEF AfterMeta, AfterCut
    <3>5. Protected => AfterMeta = "closing"
      BY DEF GuardInv, OnlyUnloads, AfterMeta
    <3> QED
      BY <3>2, <3>3, <3>4, <3>5 DEF GuardInv, OnlyUnloads, UnloadSteps, Protected
  <2> QED
    BY <1>2, <2>1, <2>2 DEF MetaFails
<1> QED
  BY <1>1, <1>2 DEF Fault

LEMMA NextGuarded ==
    ASSUME GuardInv, [Next]_vars
    PROVE  OnlyUnloads'
<1>1. CASE Format \/ WriteRefused \/ MoveHead
  <2>1. UNCHANGED <<op, wp, status>>
    BY <1>1 DEF Format, WriteRefused, MoveHead, Rewind, SpaceEod, ReadBlock, LoadAgain,
                SpaceBlocks, SpaceMarks, Locate, Move, drive
  <2> QED
    BY <2>1 DEF GuardInv, OnlyUnloads, Protected
<1>2. CASE \E ro \in BOOLEAN, g \in 0 .. MaxBlocks : Load(ro, g)
  <2>1. op' = NoOp
    BY <1>2 DEF Load, Idle, GuardInv, OnlyUnloads
  <2> QED
    BY <2>1, NoOpOnlyUnloads
<1>3. CASE UnloadStart
  <2>1. op'.kind = "unload" /\ op'.step = "meta_head" /\ op'.cut = FALSE
    BY <1>3 DEF UnloadStart, NoOp
  <2> QED
    BY <2>1 DEF OnlyUnloads, UnloadSteps
<1>4. CASE Crash
  BY <1>4, NoOpOnlyUnloads DEF Crash
<1>5. CASE UNCHANGED vars
  BY <1>5 DEF vars, drive, GuardInv, OnlyUnloads, Protected
<1> QED
  BY <1>1, <1>2, <1>3, <1>4, <1>5, StartGuarded, StepGuarded, FaultGuarded DEF Next

\* No step of a handler on a protected medium touches its blocks.
LEMMA ProtectedStep ==
    ASSUME GuardInv, [Next]_vars, Protected
    PROVE  UNCHANGED <<data, indx>>
<1>1. op.step \in UnloadSteps
  BY DEF GuardInv, OnlyUnloads
<1>2. ~MayWrite
  BY DEF MayWrite, Protected
<1>3. CASE FileStep
  BY <1>1, <1>3 DEF UnloadSteps, FileStep, CutIndx, CutData, MetaHead, MetaMap, MetaLen,
     PutData, PutIndx, PutMark, NextMarkOrDone, Wipe, Wiped, ClosePartition, Unload, disk
<1>4. CASE Fault
  BY <1>1, <1>4 DEF UnloadSteps, Fault, CutFails, MetaFails, DataFails, IndxFails,
     MarkFails, disk
<1>5. CASE StartWrite \/ Format \/ WriteRefused
  BY <1>2, <1>5 DEF StartWrite, WriteBlock, WriteMarks, Erase, Format, WriteRefused, disk
<1>6. CASE MoveHead
  BY <1>6 DEF MoveHead, Rewind, SpaceEod, ReadBlock, LoadAgain, SpaceBlocks, SpaceMarks,
     Locate, Move, disk
<1>7. CASE (\E ro \in BOOLEAN, g \in 0 .. MaxBlocks : Load(ro, g)) \/ UnloadStart \/ Crash
  BY <1>7 DEF Load, UnloadStart, Crash, disk
<1>8. CASE UNCHANGED vars
  BY <1>8 DEF vars, disk
<1> QED
  BY <1>3, <1>4, <1>5, <1>6, <1>7, <1>8 DEF Next

\* A write-protected data medium keeps its blocks while it is loaded: no
\* handler check_restrictions() refused, and none that began before, changes
\* its data or its index.
THEOREM ProtectionHolds == Spec => ProtectedUnchanged
<1>1. Init => OnlyUnloads
  BY NoOpGuarded DEF Init, OnlyUnloads, Protected
<1>2. TypeOK /\ OnlyUnloads /\ [Next]_vars => OnlyUnloads'
  BY NextGuarded DEF GuardInv
<1>3. TypeOK /\ OnlyUnloads /\ [Next]_vars
          => [Protected => UNCHANGED <<data, indx>>]_vars
  BY ProtectedStep DEF GuardInv
<1>4. Spec => [][Protected => UNCHANGED <<data, indx>>]_vars
  BY <1>1, <1>2, <1>3, TypeCorrect, PTL DEF Spec
<1> QED
  BY <1>4 DEF ProtectedUnchanged, Protected

-----------------------------------------------------------------------------
(***************************************************************************)
(* What is recorded stays recorded.                                        *)
(*                                                                         *)
(* The invariant comes in two layers.  The first holds though data writes  *)
(* fail and the daemon dies between any two file operations; it says       *)
(* nothing of the filemark map.  The second adds the map and the length of *)
(* the data file, and holds as long as the daemon does not die.            *)
(***************************************************************************)

MetaSteps == {"meta_head", "meta_map", "meta_len"}
CutSteps  == {"cut_indx", "cut_data"}

\* The handlers that change the blocks of a partition.
Writing == op.kind \in {"write", "mark", "erase"}

\* Which handler can be in which step, and what it remembers there.
StepsFit ==
    /\ op.step = "idle" => op = NoOp
    /\ op.kind = "none" => op.step = "idle"
    /\ op.kind # "none" => status = "loaded"
    /\ op.step \in {"put_data", "put_indx"} => op.kind = "write"
    /\ op.step \in {"put_mark", "marked"} => op.kind = "mark"
    /\ op.step \in {"wipe", "wiped"} => op.kind = "erase"
    /\ op.step = "closing" => op.kind = "unload"
    /\ op.step \in CutSteps => Writing
    /\ op.cut => op.step \in MetaSteps /\ Writing
    /\ op.step \in MetaSteps /\ op.kind = "write" => op.cut
    /\ op.kind = "mark" => 1 <= op.n /\ op.n <= op.len
    /\ op.kind = "mark" /\ (op.step \in CutSteps \/ op.cut) =>
          op.num = head.pos.num /\ op.n = op.len
    /\ op.kind = "write" => op.val \in Vals /\ op.len \in 1 .. MaxLen
    /\ op.kind = "erase" => head.pos.num = 0

\* The number of the item a handler records next, and how many filemarks WRITE
\* FILEMARKS has recorded.
Here == IF op.kind = "mark" THEN op.num ELSE head.pos.num

Marked == IF op.kind # "mark" THEN 0
          ELSE IF op.step = "marked" \/ (op.step \in MetaSteps /\ ~op.cut)
          THEN op.len - op.n + 1 ELSE op.len - op.n

-----------------------------------------------------------------------------
(* The first layer *)

Numbered(p) ==
    \A i \in 1 .. Len(indx[p]) :
        /\ indx[p][i].num = i - 1 /\ indx[p][i].part = p
        /\ indx[p][i].type \in {"data", "fm"}

\* Each block ends where the next begins: for neighbours, and hence for all.
Chained(p) ==
    \A i \in 1 .. Len(indx[p]) :
        indx[p][i].off = IF i = 1 THEN 0 ELSE EndOf(indx[p][i - 1])

Ordered(p) ==
    \A i, j \in 1 .. Len(indx[p]) : i < j => EndOf(indx[p][i]) <= indx[p][j].off

Backed(p) == Chained(p) /\ Ordered(p) /\ DataEnd(p) <= Len(data[p])

\* What was recorded is what the files hold.
Recalled(p) ==
    /\ Len(acked[p]) <= Len(indx[p])
    /\ \A i \in 1 .. Len(acked[p]) : acked[p][i] = DiskItem(p, i)

PartSound(p) ==
    /\ ~torn[p] /\ Numbered(p)
    /\ p \notin suspect => Backed(p) /\ Recalled(p)

FilesSound == \A p \in Part : PartSound(p)

\* The place after the last partition has no files.
NothingBeyond == indx[NParts] = << >> /\ ~torn[NParts] /\ eod[NParts].num = 0

\* The end of data in memory is that of the files, and everything is recorded.
Known(p) ==
    /\ eod[p].num = Len(indx[p])
    /\ p \notin suspect =>
          eod[p].off = DataEnd(p) /\ Len(acked[p]) = Len(indx[p])

MemorySound ==
    status = "loaded" => \A p \in Part : Known(p) \/ (Writing /\ p = P)

\* A head that has read the header of its block, or the end of data.
OnHeader(h) == LET p == h.pos.part
               IN  h.pos.num < Len(indx[p]) /\ h.pos = indx[p][h.pos.num + 1]
OnEod(h)    == LET p == h.pos.part
               IN  h.pos = EodHead(p, eod[p].num, eod[p].off).pos
Placed(h)   == OnHeader(h) \/ OnEod(h)

HeadSound == status = "loaded" /\ ~Writing => Placed(head)

\* A handler that writes: before it cuts the index it stands on a header; then the
\* index ends where it records, and what it has recorded are filemarks.
BeforeCut ==
    /\ OnHeader(head)
    /\ P \notin suspect => Len(acked[P]) = head.pos.num

AtEnd ==
    /\ Len(indx[P]) = Here
    /\ P \notin suspect =>
          /\ head.pos.off = DataEnd(P)
          /\ Len(acked[P]) + Marked = Len(indx[P])
          /\ \A i \in Len(acked[P]) + 1 .. Len(indx[P]) : DiskItem(P, i) = Mark

Payload ==
    /\ head.pos.off + op.len <= Len(data[P])
    /\ \A i \in 1 .. op.len : data[P][head.pos.off + i] = op.val

WriteSound ==
    Writing =>
        /\ P \in fds
        /\ IF op.step = "cut_indx" THEN BeforeCut ELSE AtEnd
        /\ op.step = "put_indx" /\ P \notin suspect => Payload

Sound == FilesSound /\ NothingBeyond /\ MemorySound /\ HeadSound /\ WriteSound

SafeInv == OnlySafeFaults => Sound

IInv == TypeOK /\ StepsFit /\ SafeInv

-----------------------------------------------------------------------------
(* Files *)

\* ftruncate() to a shorter length keeps the beginning.
LEMMA TruncateKeeps ==
    ASSUME NEW S, NEW f \in Seq(S), NEW n \in Nat, n <= Len(f), NEW fill
    PROVE  /\ Len(FTruncate(f, n, fill)) = n
           /\ \A i \in 1 .. n : FTruncate(f, n, fill)[i] = f[i]
BY SMT DEF FTruncate

\* pwrite() at the end or beyond the beginning keeps what is before it.
LEMMA WriteKeeps ==
    ASSUME NEW S, NEW f \in Seq(S), NEW off \in Nat, NEW n \in Nat,
           off <= Len(f), NEW c, NEW fill
    PROVE  LET g == PWrite(f, off, n, c, fill)
           IN  /\ Len(g) = Larger(Len(f), off + n)
               /\ \A i \in 1 .. off : g[i] = f[i]
               /\ \A i \in 1 .. n : g[off + i] = c
<1> DEFINE len == Larger(Len(f), off + n)
<1>1. len \in Nat /\ len >= off + n /\ len >= Len(f)
  BY SMT DEF Larger
<1>2. PWrite(f, off, n, c, fill) =
        [i \in 1 .. len |-> IF off < i /\ i <= off + n THEN c
                            ELSE IF i <= Len(f) THEN f[i] ELSE fill]
  BY DEF PWrite
<1> HIDE DEF len
<1>3. Len(PWrite(f, off, n, c, fill)) = len
  BY <1>1, <1>2, SMT
<1> QED
  BY <1>1, <1>2, <1>3, SMT DEF len

\* One more entry at the end of a file.
LEMMA WriteAppends ==
    ASSUME NEW S, NEW f \in Seq(S), NEW n \in Nat, n = Len(f), NEW c, NEW fill
    PROVE  LET g == PWrite(f, n, 1, c, fill)
           IN  /\ Len(g) = n + 1 /\ g[n + 1] = c
               /\ \A i \in 1 .. n : g[i] = f[i]
<1>1. Larger(Len(f), n + 1) = n + 1
  BY SMT DEF Larger
<1>2. \A i \in 1 .. 1 : PWrite(f, n, 1, c, fill)[n + i] = c
  BY WriteKeeps, SMT
<1> QED
  BY <1>1, <1>2, WriteKeeps, SMT

\* A shorter map is the beginning of the old one.
LEMMA UpToKeeps ==
    ASSUME NEW S, NEW f \in Seq(S), NEW n \in Nat, n <= Len(f)
    PROVE  /\ Len(UpTo(f, n)) = n
           /\ \A i \in 1 .. n : UpTo(f, n)[i] = f[i]
<1>1. UpTo(f, n) = [i \in 1 .. n |-> f[i]]
  BY SMT DEF UpTo
<1> QED
  BY <1>1, SMT

-----------------------------------------------------------------------------
(* What a step leaves of a partition *)

\* An item whose header and data a step keeps.
LEMMA ItemKept ==
    ASSUME NEW p, NEW i, NEW n \in Nat, indx'[p][i] = indx[p][i],
           indx[p][i] \in Header, EndOf(indx[p][i]) <= n,
           Len(data[p]) \in Nat, Len(data'[p]) \in Nat,
           n <= Len(data[p]), n <= Len(data'[p]),
           \A k \in 1 .. n : data'[p][k] = data[p][k]
    PROVE  DiskItem(p, i)' = DiskItem(p, i)
<1> DEFINE h == indx[p][i]
<1>1. h.off \in Nat /\ h.len \in Nat /\ h.off + h.len <= n
  BY DEF Header, EndOf
<1>2. ASSUME NEW k \in 1 .. h.len
      PROVE  h.off + k \in 1 .. n
  BY <1>1, SMT
<1>3. Extent(p, h) = [k \in 1 .. h.len |-> data[p][h.off + k]]
  BY <1>1, <1>2, SMT DEF Extent
<1>4. [k \in 1 .. h.len |-> IF h.off + k <= Len(data'[p]) THEN data'[p][h.off + k] ELSE Hole]
        = [k \in 1 .. h.len |-> data[p][h.off + k]]
  <2>1. ASSUME NEW k \in 1 .. h.len
        PROVE  h.off + k <= Len(data'[p]) /\ data'[p][h.off + k] = data[p][h.off + k]
    <3>1. h.off + k \in 1 .. n
      BY <1>2
    <3>2. h.off + k <= Len(data'[p])
      BY <3>1, SMT
    <3> QED
      BY <3>1, <3>2
  <2> HIDE DEF h
  <2> QED
    BY <2>1
<1> QED
  BY <1>3, <1>4 DEF DiskItem, Extent

\* The ends of the blocks of a chained partition are in its data file.
LEMMA EndsInData ==
    ASSUME TypeOK, NEW p \in Slot, Ordered(p), NEW i \in 1 .. Len(indx[p])
    PROVE  EndOf(indx[p][i]) <= DataEnd(p) /\ indx[p][i] \in Header /\ DataEnd(p) \in Nat
<1>1. indx[p] \in Seq(Header) /\ indx[p] # << >>
  BY SMT DEF TypeOK
<1> DEFINE last == indx[p][Len(indx[p])]
<1>2. indx[p][i] \in Header /\ last \in Header /\ Len(indx[p]) \in 1 .. Len(indx[p])
  BY <1>1, SMT
<1>3. last.off \in Nat /\ last.len \in Nat /\ EndOf(last) = last.off + last.len
  BY <1>2 DEF Header, EndOf
<1>4. i < Len(indx[p]) => EndOf(indx[p][i]) <= last.off
  BY <1>2 DEF Ordered
<1>5. EndOf(indx[p][i]) \in Nat
  BY <1>2 DEF Header, EndOf
<1>6. EndOf(indx[p][i]) <= EndOf(last) /\ EndOf(last) \in Nat
  <2>1. CASE i = Len(indx[p])
    BY <1>3, <1>5, <2>1, SMT
  <2>2. CASE i < Len(indx[p])
    BY <1>3, <1>4, <1>5, <2>2, SMT
  <2> QED
    BY <1>1, <2>1, <2>2, SMT
<1> QED
  BY <1>1, <1>2, <1>6 DEF DataEnd

\* Where data ends and how long the files are.
LEMMA DataEndType ==
    ASSUME TypeOK, NEW p \in Slot
    PROVE  DataEnd(p) \in Nat /\ Len(indx[p]) \in Nat /\ Len(data[p]) \in Nat
<1>1. indx[p] \in Seq(Header) /\ data[p] \in Seq(Cell)
  BY DEF TypeOK
<1>2. indx[p] # << >> => indx[p][Len(indx[p])] \in Header
  BY <1>1, SMT
<1>3. DataEnd(p) \in Nat
  BY <1>2 DEF DataEnd, EndOf, Header
<1> QED
  BY <1>1, <1>3, SMT

\* A partition whose files a step leaves alone.
LEMMA PartFrame ==
    ASSUME NEW p, PartSound(p), suspect \subseteq suspect',
           indx'[p] = indx[p], data'[p] = data[p], torn'[p] = torn[p],
           acked'[p] = acked[p]
    PROVE  PartSound(p)'
<1>1. Numbered(p)' /\ ~torn'[p]
  BY DEF PartSound, Numbered
<1>2. DataEnd(p)' = DataEnd(p)
  BY DEF DataEnd
<1>3. Backed(p) => Backed(p)'
  BY <1>2 DEF Backed, Chained, Ordered
<1>4. ASSUME NEW i
      PROVE  DiskItem(p, i)' = DiskItem(p, i)
  BY DEF DiskItem, Extent
<1>5. Recalled(p) => Recalled(p)'
  BY <1>4 DEF Recalled
<1> QED
  BY <1>1, <1>3, <1>5 DEF PartSound

\* A partition whose index and data a step leaves alone, and that then remembers
\* no more than before.
LEMMA KnownFrame ==
    ASSUME NEW p, Known(p), suspect \subseteq suspect', indx'[p] = indx[p],
           eod'[p] = eod[p], acked'[p] = acked[p]
    PROVE  Known(p)'
BY DEF Known, DataEnd

\* The faults that were harmless before a step were so after it.
LEMMA SafeBefore ==
    ASSUME TypeOK, [Next]_vars, OnlySafeFaults'
    PROVE  OnlySafeFaults
<1>1. failures \in Seq(FaultKinds)
  BY DEF TypeOK
<1>2. \/ failures' = failures
      \/ \E kind : failures' = Append(failures, kind)
  BY DEF Next, StartWrite, WriteBlock, WriteMarks, Erase, Format, WriteRefused, FileStep,
     CutIndx, CutData, MetaHead, MetaMap, MetaLen, PutData, PutIndx, PutMark,
     NextMarkOrDone, Wipe, Wiped, ClosePartition, Unload, Fault, CutFails, MetaFails,
     DataFails, IndxFails, MarkFails, Fail, MoveHead, Rewind, SpaceEod, ReadBlock, LoadAgain,
     SpaceBlocks, SpaceMarks, Locate, Move, Load, UnloadStart, Crash, vars, ghost
<1>3. ASSUME NEW kind, failures' = Append(failures, kind)
      PROVE  \A i \in DOMAIN failures : i \in DOMAIN failures' /\ failures'[i] = failures[i]
  BY <1>1, <1>3, SMT
<1> QED
  BY <1>2, <1>3 DEF OnlySafeFaults

-----------------------------------------------------------------------------
(* Which handler is in which step *)

\* A handler that has returned is in no step.
LEMMA NoOpFits ==
    ASSUME op' = NoOp
    PROVE  StepsFit'
BY DEF StepsFit, NoOp, Writing, MetaSteps, CutSteps

\* A step that is no step of a handler which writes keeps what one remembers.
LEMMA FitKept ==
    ASSUME StepsFit, UNCHANGED op, UNCHANGED status, head'.pos.num = head.pos.num \/ op = NoOp
    PROVE  StepsFit'
<1>1. CASE op = NoOp
  BY <1>1, NoOpFits
<1>2. CASE head'.pos.num = head.pos.num
  BY <1>2 DEF StepsFit, Writing
<1> QED
  BY <1>1, <1>2

\* A handler starts with the counts its command calls for.
LEMMA StartFits ==
    ASSUME IInv, StartWrite
    PROVE  StepsFit'
<1>1. status' = "loaded" /\ head'.pos = head.pos
  BY DEF StartWrite, WriteBlock, WriteMarks, Erase, Ready, drive, IInv, TypeOK, HeadType
<1>2. ASSUME NEW v \in Vals, NEW n \in 1 .. MaxLen, WriteBlock(v, n)
      PROVE  StepsFit'
  <2>1. /\ op'.kind = "write" /\ op'.step \in {"put_data", "cut_indx"} /\ ~op'.cut 
        /\ op'.len = n /\ op'.val = v
    BY <1>2 DEF WriteBlock, Begin
  <2> QED
    BY <1>1, <2>1 DEF StepsFit, Writing, MetaSteps, CutSteps
<1>3. ASSUME NEW n \in 1 .. MaxMarks, WriteMarks(n)
      PROVE  StepsFit'
  <2>1. /\ op'.kind = "mark" /\ op'.step \in {"put_mark", "cut_indx"} /\ ~op'.cut
        /\ op'.len = n /\ op'.n = n /\ op'.num = head.pos.num
    BY <1>3 DEF WriteMarks, Begin
  <2> QED
    BY <1>1, <2>1, SMT DEF StepsFit, Writing, MetaSteps, CutSteps
<1>4. ASSUME Erase
      PROVE  StepsFit'
  <2>1. /\ op'.kind = "erase" /\ op'.step \in {"wipe", "cut_indx"} /\ ~op'.cut
        /\ head.pos.num = 0
    BY <1>4 DEF Erase, Begin
  <2> QED
    BY <1>1, <2>1 DEF StepsFit, Writing, MetaSteps, CutSteps
<1> QED
  BY <1>2, <1>3, <1>4 DEF StartWrite

\* The handlers of rewrite_meta_file(): each caller goes on where it was.
LEMMA AfterMetaFits ==
    ASSUME IInv, op.step \in MetaSteps, op' = [op EXCEPT !.step = AfterMeta, !.cut = FALSE],
           UNCHANGED <<status, head>>
    PROVE  StepsFit'
<1>1. op \in OpType
  BY DEF IInv, TypeOK
<1>2. /\ op'.kind = op.kind /\ op'.step = AfterMeta /\ ~op'.cut
      /\ op'.len = op.len /\ op'.val = op.val /\ op'.n = op.n /\ op'.num = op.num
  BY <1>1 DEF OpType
<1>3. op.kind \in {"write", "mark", "erase", "unload"}
  BY <1>1 DEF OpType, Kinds, IInv, StepsFit, MetaSteps
<1>4. CASE op.cut
  <2>1. op.kind # "unload"
    BY <1>4 DEF IInv, StepsFit, Writing
  <2>2. op'.step = IF op.kind = "write" THEN "put_data"
                   ELSE IF op.kind = "mark" THEN "put_mark" ELSE "wipe"
    BY <1>2, <1>3, <1>4, <2>1 DEF AfterMeta, AfterCut
  <2> QED
    BY <1>2, <1>3, <2>1, <2>2 DEF IInv, StepsFit, Writing, MetaSteps, CutSteps
<1>5. CASE ~op.cut
  <2>1. op.kind # "write"
    BY <1>5 DEF IInv, StepsFit
  <2>2. op'.step = IF op.kind = "mark" THEN "marked"
                   ELSE IF op.kind = "erase" THEN "wiped" ELSE "closing"
    BY <1>2, <1>3, <1>5, <2>1 DEF AfterMeta
  <2> QED
    BY <1>2, <1>3, <2>1, <2>2 DEF IInv, StepsFit, Writing, MetaSteps, CutSteps
<1> QED
  BY <1>4, <1>5

\* Every file operation is followed by the one its handler has next.
LEMMA StepFits ==
    ASSUME IInv, FileStep
    PROVE  StepsFit'
<1>1. op \in OpType /\ op.n \in Nat /\ op.len \in Nat /\ op.num \in Nat
  BY DEF IInv, TypeOK, OpType
<1>2. CASE CutIndx \/ CutData
  <2>1. /\ UNCHANGED <<status, head>> /\ op.step \in CutSteps /\ ~op.cut /\ Writing
        /\ op'.kind = op.kind /\ op'.len = op.len /\ op'.val = op.val
        /\ op'.n = op.n /\ op'.num = op.num
    BY <1>1, <1>2 DEF CutIndx, CutData, drive, IInv, StepsFit, CutSteps, MetaSteps, OpType
  <2>2. \/ op'.step = "cut_data" /\ ~op'.cut
        \/ op'.step = "meta_head" /\ op'.cut
        \/ /\ ~op'.cut
           /\ op'.step = IF op.kind = "write" THEN "put_data"
                         ELSE IF op.kind = "mark" THEN "put_mark" ELSE "wipe"
    BY <1>1, <1>2, <2>1 DEF CutIndx, CutData, OpType, AfterCut
  <2> QED
    BY <2>1, <2>2 DEF IInv, StepsFit, Writing, MetaSteps, CutSteps
<1>3. CASE MetaHead \/ MetaMap
  <2>1. /\ UNCHANGED <<status, head>> /\ op.step \in MetaSteps /\ op'.step \in MetaSteps
        /\ op'.kind = op.kind /\ op'.len = op.len /\ op'.val = op.val
        /\ op'.n = op.n /\ op'.num = op.num
        /\ op'.cut = op.cut
    BY <1>1, <1>3 DEF MetaHead, MetaMap, drive, MetaSteps, OpType
  <2> QED
    BY <2>1 DEF IInv, StepsFit, Writing, MetaSteps, CutSteps
<1>4. CASE MetaLen
  BY <1>4, AfterMetaFits DEF MetaLen, MetaSteps, drive
<1>5. CASE PutData
  <2>1. /\ UNCHANGED <<status, head>> /\ op.step = "put_data" /\ op'.step = "put_indx"
        /\ op'.kind = op.kind /\ op'.len = op.len /\ op'.val = op.val /\ op'.cut = op.cut
    BY <1>1, <1>5 DEF PutData, drive, OpType
  <2> QED
    BY <2>1 DEF IInv, StepsFit, Writing, MetaSteps, CutSteps
<1>6. CASE PutMark
  <2>1. /\ UNCHANGED status /\ op.step = "put_mark" /\ op'.step = "meta_head"
        /\ op'.kind = op.kind /\ op'.len = op.len /\ op'.val = op.val
        /\ op'.cut = op.cut /\ op'.n = op.n
    BY <1>1, <1>6 DEF PutMark, drive, OpType
  <2> QED
    BY <2>1 DEF IInv, StepsFit, Writing, MetaSteps, CutSteps
<1>7. CASE NextMarkOrDone
  <2>1. CASE op.n > 1
    <3>1. /\ UNCHANGED status /\ op.step = "marked" /\ op'.step = "put_mark"
          /\ op'.kind = op.kind /\ op'.len = op.len /\ op'.val = op.val
          /\ op'.cut = op.cut /\ op'.n = op.n - 1
      BY <1>1, <1>7, <2>1 DEF NextMarkOrDone, drive, OpType
    <3>2. op.kind = "mark" /\ op.n <= op.len /\ ~op.cut
      BY <3>1 DEF IInv, StepsFit, MetaSteps
    <3> QED
      BY <1>1, <2>1, <3>1, <3>2, SMT DEF IInv, StepsFit, Writing, MetaSteps, CutSteps
  <2> QED
    BY <1>7, <2>1, NoOpFits DEF NextMarkOrDone
<1>8. CASE Wipe
  <2>1. /\ UNCHANGED <<status, head>> /\ op.step = "wipe" /\ op'.step = "meta_head"
        /\ op'.kind = op.kind /\ op'.len = op.len /\ op'.val = op.val /\ op'.cut = op.cut
    BY <1>1, <1>8 DEF Wipe, drive, OpType
  <2> QED
    BY <2>1 DEF IInv, StepsFit, Writing, MetaSteps, CutSteps
<1>9. CASE ClosePartition
  <2>1. /\ UNCHANGED status /\ op.step = "closing" /\ op'.step = "meta_head"
        /\ op'.kind = op.kind /\ op'.len = op.len /\ op'.val = op.val /\ op'.cut = op.cut
    BY <1>1, <1>9 DEF ClosePartition, OpType
  <2> QED
    BY <2>1 DEF IInv, StepsFit, Writing, MetaSteps, CutSteps
<1>10. CASE PutIndx \/ Wiped \/ Unload
  BY <1>10, NoOpFits DEF PutIndx, Wiped, Unload
<1> QED
  BY <1>2, <1>3, <1>4, <1>5, <1>6, <1>7, <1>8, <1>9, <1>10 DEF FileStep

\* So a handler is always in a step that is one of its own.
LEMMA NextFits ==
    ASSUME IInv, [Next]_vars
    PROVE  StepsFit'
<1>1. CASE Format \/ WriteRefused \/ MoveHead \/ UNCHANGED vars
  <2>1. UNCHANGED <<op, status>> /\ (op = NoOp \/ UNCHANGED head)
    BY <1>1 DEF Format, WriteRefused, MoveHead, Rewind, SpaceEod, ReadBlock, LoadAgain,
       SpaceBlocks, SpaceMarks, Locate, Move, Ready, Idle, drive, vars, IInv, StepsFit
  <2> QED
    BY <2>1, FitKept DEF IInv
<1>2. CASE (\E ro \in BOOLEAN, g \in 0 .. MaxBlocks : Load(ro, g)) \/ Crash
  <2>1. op' = NoOp
    BY <1>2 DEF Load, Idle, Crash, IInv, StepsFit
  <2> QED
    BY <2>1, NoOpFits
<1>3. CASE UnloadStart
  <2>1. /\ op'.kind = "unload" /\ op'.step = "meta_head" /\ ~op'.cut /\ status' = "loaded"
    BY <1>3 DEF UnloadStart, NoOp, Ready
  <2> QED
    BY <2>1 DEF StepsFit, Writing, MetaSteps, CutSteps
<1>4. CASE CutFails \/ DataFails \/ IndxFails \/ MarkFails
  BY <1>4, NoOpFits DEF CutFails, DataFails, IndxFails, MarkFails
<1>5. CASE MetaFails
  <2>1. CASE op.cut
    BY <1>5, <2>1, NoOpFits DEF MetaFails
  <2>2. CASE ~op.cut
    <3>1. op \in OpType
      BY DEF IInv, TypeOK
    <3>2. [op EXCEPT !.step = AfterMeta] = [op EXCEPT !.step = AfterMeta, !.cut = FALSE]
      BY <2>2, <3>1 DEF OpType
    <3>3. UNCHANGED <<status, head>> /\ op.step \in MetaSteps
      BY <1>5 DEF MetaFails, drive, MetaSteps
    <3> QED
      BY <1>5, <2>2, <3>2, <3>3, AfterMetaFits DEF MetaFails
  <2> QED
    BY <2>1, <2>2
<1> QED
  BY <1>1, <1>2, <1>3, <1>4, <1>5, StartFits, StepFits DEF Next, Fault

-----------------------------------------------------------------------------
(* Where a positioning call leaves the head *)

\* The end of data in memory is that of the index, in every partition.
EodKnown == \A p \in Slot : eod[p].num = Len(indx[p])

\* Partition NParts is the one past the last: find_partition_count() tries it.
LEMMA SlotsApart == NParts \in Slot /\ NParts \notin Part /\ Slot = Part \cup {NParts}
BY ConstantsOK, SMT DEF ConstantsOK, Slot, Part

\* Between two handlers a loaded drive knows where data ends.
LEMMA EodKnownReady ==
    ASSUME TypeOK, Sound, status = "loaded", ~Writing
    PROVE  EodKnown
<1>1. ASSUME NEW p \in Part
      PROVE  eod[p].num = Len(indx[p])
  BY DEF Sound, MemorySound, Known
<1>2. eod[NParts].num = 0 /\ indx[NParts] = << >>
  BY DEF Sound, NothingBeyond
<1>3. Len(<< >>) = 0
  BY SMT
<1> QED
  BY <1>1, <1>2, <1>3, SlotsApart DEF EodKnown

\* read_header() ends on the header of the block, at end of data, or where it was.
LEMMA ReadHeaderPlaced ==
    ASSUME TypeOK, Sound, EodKnown, NEW h \in HeadType, NEW blk \in Nat,
           Placed(h) \/ blk <= eod[h.pos.part].num
    PROVE  Placed(ReadHeader(h, blk)) /\ ReadHeader(h, blk).pos.part = h.pos.part
<1> DEFINE p == h.pos.part
           r == ReadHeader(h, blk)
<1>1. p \in Slot /\ eod[p].num = Len(indx[p]) /\ Len(indx[p]) \in Nat
  BY DataEndType DEF HeadType, Header, EodKnown
<1>2. CASE blk = eod[p].num
  <2>1. r = EodHead(p, eod[p].num, eod[p].off)
    BY <1>2 DEF ReadHeader
  <2>2. r.pos.part = p
    BY <2>1 DEF EodHead
  <2> QED
    BY <2>1, <2>2 DEF Placed, OnEod
<1>3. CASE blk < eod[p].num
  <2>1. p \in Part /\ blk < Len(indx[p]) /\ blk # eod[p].num
    BY <1>1, <1>3, SlotsApart, SMT DEF Sound, NothingBeyond
  <2>2. r = [h EXCEPT !.pos = indx[p][blk + 1]]
    BY <1>3, <2>1 DEF ReadHeader
  <2>3. r.pos = indx[p][blk + 1]
    BY <2>2 DEF HeadType
  <2>4. blk + 1 \in 1 .. Len(indx[p]) /\ (blk + 1) - 1 = blk
    BY <1>1, <2>1, SMT
  <2>5. r.pos.num = blk /\ r.pos.part = p
    BY <2>1, <2>3, <2>4 DEF Sound, FilesSound, PartSound, Numbered
  <2> QED
    BY <2>1, <2>3, <2>5 DEF Placed, OnHeader
<1>4. CASE blk > eod[p].num
  <2>1. ~(blk <= eod[p].num) /\ blk # eod[p].num /\ ~(blk < eod[p].num)
    BY <1>1, <1>4, SMT
  <2>2. r = h
    BY <2>1 DEF ReadHeader
  <2> QED
    BY <2>1, <2>2
<1> QED
  BY <1>1, <1>2, <1>3, <1>4, SMT

\* To take the permission to write away moves no head.
LEMMA LockPlaced ==
    ASSUME NEW h \in HeadType
    PROVE  Lock(h).pos = h.pos /\ (Placed(h) => Placed(Lock(h)))
<1>1. Lock(h).pos = h.pos
  BY DEF Lock, HeadType
<1> QED
  BY <1>1 DEF Placed, OnHeader, OnEod

\* rewind_tape() leaves the head on a header of the index, or at the end of data.
LEMMA RewindTapePlaced ==
    ASSUME TypeOK, Sound, EodKnown, NEW h \in HeadType
    PROVE  Placed(RewindTape(h))
<1>1. h.pos.part \in Slot
  BY DEF HeadType, Header
<1>2. 0 \in Nat /\ 0 <= eod[h.pos.part].num
  BY <1>1, SMT DEF TypeOK
<1>3. Placed(ReadHeader(h, 0)) /\ ReadHeader(h, 0) \in HeadType
  BY <1>2, ReadHeaderPlaced, ReadHeaderType
<1>4. RewindTape(h).pos = ReadHeader(h, 0).pos
  BY <1>3 DEF RewindTape, HeadType
<1> QED
  BY <1>3, <1>4 DEF Placed, OnHeader, OnEod

\* So does position_to_eod(),
LEMMA PositionToEodPlaced ==
    ASSUME TypeOK, Sound, EodKnown, NEW h \in HeadType
    PROVE  Placed(PositionToEod(h))
<1>1. eod[h.pos.part].num \in Nat
  BY DEF TypeOK, HeadType, Header
<1> QED
  BY <1>1, ReadHeaderPlaced, SMT DEF PositionToEod

\* position_to_block(),
LEMMA PositionToBlockPlaced ==
    ASSUME TypeOK, Sound, EodKnown, NEW h \in HeadType, NEW blk \in Nat
    PROVE  Placed(PositionToBlock(h, blk))
<1>1. Lock(h) \in HeadType /\ Lock(h).pos = h.pos
  BY LockType, LockPlaced
<1>2. eod[h.pos.part].num \in Nat
  BY DEF TypeOK, HeadType, Header
<1>3. blk > eod[h.pos.part].num \/ blk <= eod[Lock(h).pos.part].num
  BY <1>1, <1>2, SMT
<1> QED
  BY <1>1, <1>3, ReadHeaderPlaced, RewindTapePlaced, PositionToEodPlaced DEF PositionToBlock

\* SPACE in either direction,
LEMMA SpacePlaced ==
    ASSUME TypeOK, Sound, EodKnown, NEW h \in HeadType, Placed(h), NEW n \in Nat \ {0}
    PROVE  /\ Placed(PositionBlocksForw(h, n)) /\ Placed(PositionBlocksBack(h, n))
           /\ Placed(PositionMarksForw(h, n)) /\ Placed(PositionMarksBack(h, n))
<1> DEFINE p    == h.pos.part
           blk  == h.pos.num
           next == NextMark(p, blk)
           prev == PrevMark(p, blk)
<1>1. /\ p \in Slot /\ blk \in Nat /\ fmap[p] \in Seq(Nat)
      /\ Lock(h) \in HeadType /\ Placed(Lock(h)) /\ Placed(h)
  BY LockType, LockPlaced DEF TypeOK, HeadType, Header
<1>2. HasNextMark(p, blk) => next \in 1 .. Len(fmap[p]) /\ fmap[p][next] \in Nat
  BY <1>1, NextMarkType, SMT
<1>3. HasPrevMark(p, blk) => prev \in 1 .. Len(fmap[p]) /\ fmap[p][prev] \in Nat
  BY <1>1, PrevMarkType, SMT
<1>4. (blk + n) % Word \in Nat /\ (blk - n) % Word \in Nat
  <2>1. blk + n \in Int /\ blk - n \in Int
    BY <1>1, SMT
  <2> QED
    BY <2>1, ModInRange, WordPositive
<1>5. Placed(PositionBlocksForw(h, n))
  <2>1. HasNextMark(p, blk) => fmap[p][next] + 1 \in Nat
    BY <1>2, SMT
  <2> QED
    BY <1>1, <1>4, <2>1, ReadHeaderPlaced, PositionToBlockPlaced DEF PositionBlocksForw
<1>6. Placed(PositionBlocksBack(h, n))
  BY <1>1, <1>3, <1>4, ReadHeaderPlaced, PositionToBlockPlaced DEF PositionBlocksBack
<1>7. Placed(PositionMarksForw(h, n))
  <2>1. HasNextMark(p, blk) /\ next + n - 1 <= Len(fmap[p]) => fmap[p][next + n - 1] + 1 \in Nat
    BY <1>1, <1>2, SMTT(30)
  <2>2. eod[p].num \in Nat
    BY <1>1 DEF TypeOK
  <2> QED
    BY <1>1, <2>1, <2>2, ReadHeaderPlaced, PositionToBlockPlaced DEF PositionMarksForw
<1>8. Placed(PositionMarksBack(h, n))
  <2>1. HasPrevMark(p, blk) /\ prev - n + 1 >= 1 => fmap[p][prev - n + 1] \in Nat
    BY <1>1, <1>3, SMTT(30)
  <2> QED
    BY <1>1, <2>1, ReadHeaderPlaced, PositionToBlockPlaced DEF PositionMarksBack
<1> QED
  BY <1>5, <1>6, <1>7, <1>8

\* and change_partition().
LEMMA ChangePartitionPlaced ==
    ASSUME TypeOK, Sound, EodKnown, NEW h \in HeadType, NEW p \in Slot
    PROVE  Placed(ChangePartition(h, p)) /\ ChangePartition(h, p).pos.part = p
<1>1. [h EXCEPT !.pos.part = p] \in HeadType /\ [h EXCEPT !.pos.part = p].pos.part = p
  BY DEF HeadType, Header
<1>2. 0 \in Nat /\ 0 <= eod[p].num
  BY SMT DEF TypeOK
<1> QED
  BY <1>1, <1>2, ReadHeaderPlaced DEF ChangePartition

-----------------------------------------------------------------------------
(* The first layer: steps that leave the blocks alone *)

\* These handlers write nothing.
LEMMA KindsApart ==
    ASSUME op' = NoOp \/ op'.kind = "unload" \/ (op' = op /\ ~Writing)
    PROVE  ~Writing'
BY DEF Writing, NoOp

\* Neither index nor data changes, and the head moves to where it may be.
LEMMA QuietSound ==
    ASSUME TypeOK, Sound, ~Writing, ~Writing', status' = status,
           UNCHANGED <<data, indx, torn, eod, acked, suspect>>,
           status = "loaded" => Placed(head')
    PROVE  Sound'
<1>1. FilesSound'
  BY PartFrame DEF Sound, FilesSound
<1>2. NothingBeyond'
  BY DEF Sound, NothingBeyond
<1>3. MemorySound'
  BY KnownFrame DEF Sound, MemorySound
<1>4. HeadSound'
  BY DEF HeadSound, Placed, OnHeader, OnEod
<1>5. WriteSound'
  BY DEF WriteSound
<1> QED
  BY <1>1, <1>2, <1>3, <1>4, <1>5 DEF Sound

\* A command that moves the head touches no file.
LEMMA MoveHeadSound ==
    ASSUME TypeOK, StepsFit, Sound, MoveHead
    PROVE  Sound'
<1> USE DEF disk, drive, ghost
<1>1. op = NoOp /\ status = "loaded" /\ head \in HeadType
  BY DEF StepsFit, MoveHead, Rewind, SpaceEod, ReadBlock, LoadAgain, SpaceBlocks, SpaceMarks,
     Locate, Move, Ready, Idle, TypeOK
<1>2. ~Writing /\ EodKnown /\ Placed(head)
  BY <1>1, EodKnownReady DEF Writing, NoOp, Sound, HeadSound
<1>3. /\ UNCHANGED <<data, indx, torn, eod, acked, suspect, status, op>>
  BY DEF MoveHead, Rewind, SpaceEod, ReadBlock, LoadAgain, SpaceBlocks, SpaceMarks,
     Locate, Move
<1>4. Placed(head')
  <2>1. CASE Rewind
    BY <1>1, <1>2, <2>1, RewindTapePlaced DEF Rewind, Move
  <2>2. CASE SpaceEod
    BY <1>1, <1>2, <2>2, PositionToEodPlaced DEF SpaceEod, Move
  <2>3. CASE ReadBlock
    <3>1. head.pos.num + 1 \in Nat /\ 1 \in Nat \ {0}
      BY HeadFields, SMT
    <3> QED
      BY <1>1, <1>2, <2>3, <3>1, SpacePlaced, ReadHeaderPlaced DEF ReadBlock, Move
  <2>4. ASSUME NEW n \in 1 .. MaxSpace, SpaceBlocks(n) \/ SpaceMarks(n)
        PROVE  Placed(head')
    <3>1. n \in Nat \ {0}
      BY ConstantsOK, SMT DEF ConstantsOK
    <3> QED
      BY <1>1, <1>2, <2>4, <3>1, SpacePlaced DEF SpaceBlocks, SpaceMarks, Move
  <2>5. CASE LoadAgain
    <3>1. ChangePartition(head, 0) \in HeadType
      BY <1>1, ZeroIsPart, ChangePartitionType
    <3> QED
      BY <1>2, <2>5, <3>1, RewindTapePlaced DEF LoadAgain
  <2>6. ASSUME NEW p \in Slot, NEW blk \in 0 .. MaxBlocks + 1, Locate(p, blk)
        PROVE  Placed(head')
    <3>1. ChangePartition(head, p) \in HeadType /\ Placed(ChangePartition(head, p))
      BY <1>1, <1>2, ChangePartitionType, ChangePartitionPlaced
    <3>2. blk \in Nat
      BY ConstantsOK, SMT DEF ConstantsOK
    <3> QED
      BY <1>2, <2>6, <3>1, <3>2, PositionToBlockPlaced DEF Locate
  <2> QED
    BY <2>1, <2>2, <2>3, <2>4, <2>5, <2>6 DEF MoveHead
<1>5. ~Writing'
  BY <1>2, <1>3, KindsApart
<1> QED
  BY <1>2, <1>3, <1>4, <1>5, QuietSound

\* The handlers of unload_tape() and of a refused command.
LEMMA UnloadStartSound ==
    ASSUME TypeOK, StepsFit, Sound, UnloadStart \/ WriteRefused
    PROVE  Sound'
<1> USE DEF disk, drive, ghost
<1>1. op = NoOp /\ status = "loaded" /\ head \in HeadType
  BY DEF StepsFit, UnloadStart, WriteRefused, Ready, Idle, TypeOK
<1>2. ~Writing /\ EodKnown /\ Placed(head)
  BY <1>1, EodKnownReady DEF Writing, NoOp, Sound, HeadSound
<1>3. UNCHANGED <<data, indx, torn, eod, acked, suspect, status>>
  BY DEF UnloadStart, WriteRefused
<1>4. CASE UnloadStart
  <2>1. Placed(head')
    BY <1>1, <1>2, <1>4, ZeroIsPart, ChangePartitionPlaced DEF UnloadStart
  <2>2. op'.kind = "unload"
    BY <1>4 DEF UnloadStart, NoOp
  <2> QED
    BY <1>2, <1>3, <2>1, <2>2, KindsApart, QuietSound
<1>5. CASE WriteRefused
  <2>1. head'.pos = head.pos /\ op' = op
    BY <1>1, <1>5 DEF WriteRefused, HeadType
  <2>2. Placed(head')
    BY <1>2, <2>1 DEF Placed, OnHeader, OnEod
  <2> QED
    BY <1>2, <1>3, <2>1, <2>2, KindsApart, QuietSound
<1> QED
  BY <1>4, <1>5

\* The steps of unload_tape(): the maps are written and the files closed.
LEMMA UnloadingSound ==
    ASSUME TypeOK, StepsFit, Sound, ~Writing, op.step # "idle",
           \/ MetaHead \/ MetaMap \/ MetaLen \/ ClosePartition
           \/ MetaFails /\ UNCHANGED suspect
    PROVE  Sound'
<1> USE DEF disk, drive, ghost
<1>1. op.kind = "unload" /\ status = "loaded" /\ head \in HeadType /\ op \in OpType
  BY DEF StepsFit, TypeOK, OpType, Kinds, Writing
<1>2. EodKnown /\ Placed(head) /\ ~op.cut
  BY <1>1, EodKnownReady DEF Writing, Sound, HeadSound, StepsFit
<1>3. UNCHANGED <<data, indx, torn, eod, acked, suspect, status>>
  BY <1>2 DEF MetaHead, MetaMap, MetaLen, ClosePartition, MetaFails
<1>4. op'.kind = "unload"
  BY <1>1, <1>2 DEF MetaHead, MetaMap, MetaLen, ClosePartition, MetaFails, OpType
<1>5. CASE ClosePartition
  <2>1. NextPartition \in Slot
    BY <1>5, HeadFields, ConstantsOK, SMT DEF ClosePartition, NextPartition, ConstantsOK, Slot
  <2>2. Placed(head')
    BY <1>1, <1>2, <1>5, <2>1, ChangePartitionPlaced DEF ClosePartition
  <2> QED
    BY <1>3, <1>4, <2>2, KindsApart, QuietSound
<1>6. CASE ~ClosePartition
  <2>1. head' = head
    BY <1>6 DEF MetaHead, MetaMap, MetaLen, MetaFails
  <2> QED
    BY <1>2, <1>3, <1>4, <2>1, KindsApart, QuietSound
<1> QED
  BY <1>5, <1>6

\* The tape leaves the drive, or the daemon dies.
LEMMA GoneSound ==
    ASSUME TypeOK, Sound, Unload \/ Crash
    PROVE  Sound'
<1> USE DEF disk, drive, ghost
<1>1. /\ UNCHANGED <<data, indx, torn, acked, suspect>> /\ status' = "unloaded"
      /\ eod' = [p \in Slot |-> [num |-> 0, off |-> 0]] /\ op' = NoOp
  BY DEF Unload, Crash, Fail
<1>2. FilesSound'
  BY <1>1, PartFrame DEF Sound, FilesSound
<1>3. NothingBeyond'
  BY <1>1, SlotsApart DEF Sound, NothingBeyond
<1>4. MemorySound' /\ HeadSound'
  BY <1>1 DEF MemorySound, HeadSound
<1>5. WriteSound'
  BY <1>1, KindsApart DEF WriteSound
<1> QED
  BY <1>2, <1>3, <1>4, <1>5 DEF Sound

-----------------------------------------------------------------------------
(* The first layer: mounting and formatting *)

\* IsPrefixOf against the files is Recalled.
LEMMA RecalledIsPrefix ==
    ASSUME TypeOK, NEW p \in Slot
    PROVE  Recalled(p) <=> IsPrefixOf(acked[p], DiskLog(p))
<1>1. Len(indx[p]) \in Nat /\ Len(acked[p]) \in Nat
  BY SMT DEF TypeOK
<1>2. Len(DiskLog(p)) = Len(indx[p]) /\ \A i \in 1 .. Len(indx[p]) : DiskLog(p)[i] = DiskItem(p, i)
  BY <1>1, SMT DEF DiskLog
<1>3. Len(acked[p]) <= Len(indx[p]) => \A i \in 1 .. Len(acked[p]) : i \in 1 .. Len(indx[p])
  BY <1>1, SMT
<1> QED
  BY <1>2, <1>3 DEF Recalled, IsPrefixOf

\* load_tape() takes from the files where data ends, in every partition.
LEMMA LoadSound ==
    ASSUME TypeOK, StepsFit, Sound, NEW ro \in BOOLEAN, NEW g \in 0 .. MaxBlocks, Load(ro, g)
    PROVE  Sound'
<1> USE DEF disk
<1>1. /\ UNCHANGED <<data, indx, torn, op>> /\ status' = "loaded"
      /\ op = NoOp /\ suspect \subseteq suspect'
  BY DEF Load, Idle, StepsFit
<1>2. ~Writing'
  BY <1>1, KindsApart
<1>3. ASSUME NEW p \in Part
      PROVE  PartSound(p)' /\ Known(p)'
  <2>1. p \in Slot /\ ~torn[p] /\ Numbered(p) /\ (p \notin suspect => Backed(p) /\ Recalled(p))
    BY SlotsApart DEF Sound, FilesSound, PartSound
  <2>2. Numbered(p)' /\ ~torn'[p]
    BY <1>1, <2>1 DEF Numbered
  <2>3. /\ eod'[p] = LoadedEod(p, g)
        /\ acked'[p] = IF IsPrefixOf(acked[p], DiskLog(p)) THEN DiskLog(p) ELSE acked[p]
        /\ BadMap(p, g) => p \in suspect'
    BY <2>1 DEF Load
  <2>4. eod'[p].num = Len(indx[p])
    BY <2>1, <2>3 DEF LoadedEod
  <2>5. CASE p \in suspect'
    BY <1>1, <2>2, <2>4, <2>5 DEF PartSound, Known
  <2>6. CASE p \notin suspect'
    <3>1. p \notin suspect /\ ~BadMap(p, g) /\ Backed(p) /\ Recalled(p)
      BY <1>1, <2>1, <2>3, <2>6
    <3>2. acked'[p] = DiskLog(p)
      BY <2>1, <2>3, <3>1, RecalledIsPrefix
    <3>3. Len(indx[p]) \in Nat
      BY <2>1, DataEndType
    <3>4. /\ Len(acked'[p]) = Len(indx[p])
          /\ \A i \in 1 .. Len(indx[p]) : acked'[p][i] = DiskItem(p, i)
      BY <3>2, <3>3, SMT DEF DiskLog
    <3>5. \A i : DiskItem(p, i)' = DiskItem(p, i)
      BY <1>1 DEF DiskItem, Extent
    <3>6. Recalled(p)'
      BY <1>1, <3>3, <3>4, <3>5, SMT DEF Recalled
    <3>7. DataEnd(p)' = DataEnd(p) /\ eod'[p].off = DataEnd(p)
      BY <1>1, <2>1, <2>3, <3>1 DEF DataEnd, LoadedEod, LastEnd, EndOf
    <3>8. Backed(p)'
      BY <1>1, <3>1, <3>7 DEF Backed, Chained, Ordered
    <3> QED
      BY <1>1, <2>2, <2>4, <3>4, <3>6, <3>7, <3>8 DEF PartSound, Known
  <2> QED
    BY <2>5, <2>6
<1>4. NothingBeyond'
  <2>1. indx[NParts] = << >> /\ ~torn[NParts] /\ Len(<< >>) = 0
    BY SMT DEF Sound, NothingBeyond
  <2>2. eod'[NParts].num = 0
    BY <2>1, SlotsApart DEF Load, LoadedEod
  <2> QED
    BY <1>1, <2>1, <2>2 DEF NothingBeyond
<1>5. Placed(head)'
  <2>1. /\ eod'[0].num = Len(indx[0]) /\ 0 \in Part /\ Len(indx[0]) \in Nat /\ 0 \in Slot
    BY <1>1, <1>3, ZeroIsPart, DataEndType DEF Known
  <2>2. CASE eod'[0].num = 0
    <3>1. head'.pos = [type |-> "eod", num |-> 0, part |-> 0, off |-> eod'[0].off, len |-> 0]
      BY <2>2 DEF Load
    <3>2. head'.pos = EodHead(0, 0, eod'[0].off).pos /\ head'.pos.part = 0
      BY <3>1 DEF EodHead
    <3> QED
      BY <2>2, <3>2 DEF Placed, OnEod
  <2>3. CASE eod'[0].num # 0
    <3>1. head'.pos = indx[0][1] /\ 1 \in 1 .. Len(indx[0])
      BY <2>1, <2>3, SMT DEF Load
    <3>2. head'.pos.num = 0 /\ head'.pos.part = 0
      BY <2>1, <3>1 DEF Sound, FilesSound, PartSound, Numbered
    <3>3. 0 < Len(indx[0]) /\ 0 + 1 = 1
      BY <2>1, <2>3, SMT
    <3> QED
      BY <1>1, <3>1, <3>2, <3>3 DEF Placed, OnHeader
  <2> QED
    BY <2>2, <2>3
<1> QED
  BY <1>2, <1>3, <1>4, <1>5 DEF Sound, FilesSound, MemorySound, HeadSound, WriteSound

\* FORMAT MEDIUM leaves every partition empty, and its files too.
LEMMA FormatSound ==
    ASSUME TypeOK, StepsFit, Sound, Format
    PROVE  Sound'
<1>1. /\ status' = "loaded" /\ op' = op /\ op = NoOp /\ suspect' = suspect
      /\ head' = EodHead(0, 0, 0) /\ 0 \in Slot
  BY ZeroIsPart DEF Format, Ready, Idle, StepsFit, ghost
<1>2. ASSUME NEW p \in Slot
      PROVE  /\ indx'[p] = << >> /\ data'[p] = << >> /\ ~torn'[p] /\ acked'[p] = << >>
             /\ eod'[p] = [num |-> 0, off |-> 0]
  BY DEF Format
<1>3. Len(<< >>) = 0 /\ \A i : i \notin 1 .. 0
  BY SMT
<1>4. ASSUME NEW p \in Part
      PROVE  PartSound(p)' /\ Known(p)'
  <2>1. Numbered(p)' /\ Chained(p)' /\ Ordered(p)' /\ Recalled(p)' /\ DataEnd(p)' = 0
    <3>1. p \in Slot /\ Len(indx'[p]) = 0 /\ Len(acked'[p]) = 0 /\ indx'[p] = << >>
      BY <1>2, <1>3, SlotsApart
    <3>2. Numbered(p)' /\ Chained(p)' /\ Ordered(p)'
      BY <1>3, <3>1 DEF Numbered, Chained, Ordered
    <3>3. Recalled(p)'
      BY <1>3, <3>1, SMT DEF Recalled
    <3> QED
      BY <3>1, <3>2, <3>3 DEF DataEnd
  <2>2. p \in Slot /\ 0 <= Len(data'[p])
    BY <1>2, SlotsApart, SMT
  <2> QED
    BY <1>2, <1>3, <2>1, <2>2 DEF PartSound, Known, Backed
<1>5. NothingBeyond'
  BY <1>2, SlotsApart DEF NothingBeyond
<1>6. Placed(head)'
  BY <1>1, <1>2 DEF Placed, OnEod, EodHead
<1>7. ~Writing'
  BY <1>1, KindsApart
<1> QED
  BY <1>1, <1>4, <1>5, <1>6, <1>7 DEF Sound, FilesSound, MemorySound, HeadSound, WriteSound

-----------------------------------------------------------------------------
(* The first layer: the handlers that write *)

\* A handler changes the partition under the head only.
LEMMA WriteFrame ==
    ASSUME TypeOK, Sound, status = "loaded", Writing \/ Writing', P \in Part, P' = P,
           UNCHANGED <<status, suspect>>,
           \A p \in Slot \ {P} :
               /\ indx'[p] = indx[p] /\ data'[p] = data[p] /\ torn'[p] = torn[p]
               /\ acked'[p] = acked[p] /\ eod'[p] = eod[p],
           PartSound(P)', Writing' \/ Known(P)', HeadSound', WriteSound'
    PROVE  Sound'
<1>1. \A p \in Part \ {P} : p \in Slot \ {P} /\ PartSound(p)
  BY SlotsApart DEF Sound, FilesSound
<1>2. FilesSound'
  BY <1>1, PartFrame DEF FilesSound
<1>3. NothingBeyond'
  <2>1. NParts \in Slot \ {P}
    BY SlotsApart
  <2> QED
    BY <2>1 DEF Sound, NothingBeyond
<1>4. MemorySound'
  <2>1. \A p \in Part \ {P} : Known(p)
    BY DEF Sound, MemorySound
  <2> QED
    BY <1>1, <2>1, KnownFrame DEF MemorySound
<1> QED
  BY <1>2, <1>3, <1>4 DEF Sound

\* WRITE, WRITE FILEMARKS and ERASE start where check_for_overwrite() begins.
LEMMA StartSound ==
    ASSUME TypeOK, TypeOK', StepsFit, Sound, StartWrite
    PROVE  Sound'
<1> USE DEF disk, drive, ghost
<1>1. /\ op = NoOp /\ status = "loaded" /\ P \in fds /\ P \in Part /\ P \in Slot
      /\ UNCHANGED <<data, indx, torn, eod, status, fds, suspect>>
      /\ head'.pos = head.pos /\ GiveUp(head.pos.num)
      /\ \E kind \in {"write", "mark", "erase"}, first \in {"put_data", "put_mark", "wipe"},
            n \in Nat, v \in Cell, len \in Nat :
            Begin(kind, first, n, v, len) /\ (kind = "mark" => len = n)
  <2>1. op = NoOp /\ status = "loaded" /\ P \in fds /\ P \in Part /\ P \in Slot
    BY ZeroIsPart DEF StartWrite, WriteBlock, WriteMarks, Erase, Ready, Idle, StepsFit, TapeLoaded,
       TypeOK
  <2>2. /\ UNCHANGED <<data, indx, torn, eod, status, fds, suspect>> /\ head'.pos = head.pos
    BY DEF StartWrite, WriteBlock, WriteMarks, Erase, TypeOK, HeadType
  <2>3. CASE \E v \in Vals, n \in 1 .. MaxLen : WriteBlock(v, n)
    BY <2>1, <2>2, <2>3, SMT DEF WriteBlock, Cell
  <2>4. CASE \E n \in 1 .. MaxMarks : WriteMarks(n)
    BY <2>1, <2>2, <2>4, SMT DEF WriteMarks, Cell
  <2>5. CASE Erase
    BY <2>1, <2>2, <2>5, SMT DEF Erase, Cell
  <2> QED
    BY <2>3, <2>4, <2>5 DEF StartWrite
<1>2. PICK kind \in {"write", "mark", "erase"}, first \in {"put_data", "put_mark", "wipe"},
           n \in Nat, v \in Cell, len \in Nat :
              Begin(kind, first, n, v, len) /\ (kind = "mark" => len = n)
  BY <1>1
<1>3. /\ op'.kind = kind /\ op'.n = n /\ op'.len = len /\ op'.num = head.pos.num
      /\ op'.step = IF head.pos.type = "eod" THEN first ELSE "cut_indx"
      /\ Writing' /\ P' = P
  BY <1>1, <1>2 DEF Begin, Writing, P
<1>4. PartSound(P) /\ Known(P) /\ Placed(head)
  BY <1>1 DEF Sound, FilesSound, MemorySound, HeadSound, Writing, NoOp
<1>5. acked[P] \in Seq(Item) /\ Len(indx[P]) \in Nat /\ head.pos.num \in Nat /\ acked \in [Slot -> Seq(Item)]
  BY <1>1, HeadFields, DataEndType DEF TypeOK
<1>6. acked' = [acked EXCEPT ![P] = UpTo(acked[P], head.pos.num)]
  BY <1>1 DEF GiveUp
<1>7. head.pos.num <= Len(indx[P])
  BY <1>4, <1>5, SMT DEF Placed, OnHeader, OnEod, EodHead, Known, P
<1>8. P \notin suspect =>
        /\ Recalled(P) /\ head.pos.num <= Len(acked[P])
        /\ Len(acked'[P]) = head.pos.num /\ \A i \in 1 .. head.pos.num : acked'[P][i] = acked[P][i]
  <2>1. ASSUME P \notin suspect
        PROVE  Recalled(P) /\ head.pos.num <= Len(acked[P]) /\ acked'[P] = UpTo(acked[P], head.pos.num)
    BY <1>1, <1>4, <1>5, <1>6, <1>7, <2>1 DEF PartSound, Known
  <2> QED
    BY <1>5, <2>1, UpToKeeps
<1>9. \A i : DiskItem(P, i)' = DiskItem(P, i)
  BY <1>1, <1>3 DEF DiskItem, Extent
<1>10. P \notin suspect => Recalled(P)'
  <2>1. P \notin suspect => \A i \in 1 .. head.pos.num : i \in 1 .. Len(acked[P])
    BY <1>5, <1>8, SMT
  <2> QED
    BY <1>1, <1>3, <1>7, <1>8, <1>9, <2>1 DEF Recalled
<1>11. PartSound(P)'
  <2>1. DataEnd(P)' = DataEnd(P)
    BY <1>1, <1>3 DEF DataEnd
  <2>2. Backed(P) => Backed(P)'
    BY <1>1, <1>3, <2>1 DEF Backed, Chained, Ordered
  <2>3. Numbered(P) => Numbered(P)'
    BY <1>1, <1>3 DEF Numbered
  <2> QED
    BY <1>1, <1>3, <1>4, <1>10, <2>2, <2>3 DEF PartSound
<1>12. WriteSound'
  <2>1. CASE head.pos.type = "eod"
    <3>1. OnEod(head)
      <4>1. ASSUME OnHeader(head)
            PROVE  FALSE
        <5>1. head.pos.num + 1 \in 1 .. Len(indx[P]) /\ head.pos = indx[P][head.pos.num + 1]
          BY <1>5, <4>1, SMT DEF OnHeader, P
        <5> QED
          BY <1>4, <2>1, <5>1 DEF PartSound, Numbered
      <4> QED
        BY <1>4, <4>1 DEF Placed
    <3>2. head.pos.num = Len(indx[P]) /\ (P \notin suspect => head.pos.off = DataEnd(P))
      BY <1>4, <3>1 DEF OnEod, EodHead, Known, P
    <3>3. Marked' = 0 /\ Here' = head.pos.num
      <4>1. n - n = 0
        BY SMT
      <4> QED
        BY <1>1, <1>2, <1>3, <2>1, <4>1 DEF Marked, Here, MetaSteps
    <3>4. P \notin suspect => \A i : i \notin Len(acked'[P]) + 1 .. Len(indx[P])
      BY <1>5, <1>8, <3>2, SMT
    <3>5. DataEnd(P)' = DataEnd(P)
      BY <1>1, <1>3 DEF DataEnd
    <3>6. AtEnd'
      BY <1>1, <1>3, <1>5, <1>8, <3>2, <3>3, <3>4, <3>5, SMT DEF AtEnd
    <3>7. op'.step # "cut_indx" /\ op'.step # "put_indx"
      BY <1>3, <2>1
    <3> QED
      BY <1>1, <1>3, <3>6, <3>7 DEF WriteSound
  <2>2. CASE head.pos.type # "eod"
    <3>1. OnHeader(head)
      BY <1>4, <2>2 DEF Placed, OnEod, EodHead
    <3>2. BeforeCut'
      BY <1>1, <1>3, <1>8, <3>1 DEF BeforeCut, OnHeader
    <3> QED
      BY <1>1, <1>3, <2>2, <3>2 DEF WriteSound
  <2> QED
    BY <2>1, <2>2
<1>13. HeadSound'
  BY <1>3 DEF HeadSound
<1> QED
  BY <1>1, <1>3, <1>6, <1>11, <1>12, <1>13, WriteFrame DEF TypeOK

\* The items of a chained partition whose headers and data a step keeps.
LEMMA ItemsKept ==
    ASSUME TypeOK, TypeOK', NEW p \in Slot, Ordered(p), DataEnd(p) <= Len(data[p]),
           NEW n \in Nat, n <= Len(indx[p]), \A i \in 1 .. n : indx'[p][i] = indx[p][i],
           DataEnd(p) <= Len(data'[p]), \A k \in 1 .. DataEnd(p) : data'[p][k] = data[p][k]
    PROVE  \A i \in 1 .. n : DiskItem(p, i)' = DiskItem(p, i)
<1>1. /\ DataEnd(p) \in Nat /\ Len(indx[p]) \in Nat /\ Len(data[p]) \in Nat /\ Len(data'[p]) \in Nat
  <2>1. data'[p] \in Seq(Cell)
    BY DEF TypeOK
  <2> QED
    BY <2>1, DataEndType, SMT
<1>2. ASSUME NEW i \in 1 .. n
      PROVE  DiskItem(p, i)' = DiskItem(p, i)
  <2>1. i \in 1 .. Len(indx[p])
    BY <1>1, SMT
  <2>2. EndOf(indx[p][i]) <= DataEnd(p) /\ indx[p][i] \in Header
    BY <2>1, EndsInData
  <2> QED
    BY <1>1, <2>2, ItemKept
<1> QED
  BY <1>2

\* check_for_overwrite() cuts the index: what lies before the head is left.
LEMMA CutIndxSound ==
    ASSUME TypeOK, TypeOK', StepsFit, Sound, CutIndx
    PROVE  Sound'
<1> USE DEF drive, ghost
<1> DEFINE n == head.pos.num
<1>1. /\ op.step = "cut_indx" /\ op \in OpType /\ Writing /\ ~op.cut /\ status = "loaded"
      /\ P \in fds /\ P \in Part /\ P \in Slot
  <2>1. op.step = "cut_indx" /\ op \in OpType
    BY DEF CutIndx, TypeOK
  <2>2. Writing /\ ~op.cut
    BY <2>1 DEF StepsFit, CutSteps, MetaSteps
  <2>3. P \in fds /\ status = "loaded"
    BY <2>2 DEF Sound, WriteSound, Writing, StepsFit
  <2> QED
    BY <2>1, <2>2, <2>3, SlotsApart DEF TypeOK
<1>2. BeforeCut /\ PartSound(P)
  BY <1>1 DEF Sound, WriteSound, FilesSound
<1>3. /\ op'.kind = op.kind /\ op'.step = "cut_data" /\ op'.num = op.num /\ op'.n = op.n
      /\ op'.len = op.len
      /\ UNCHANGED <<data, eod, head, acked, suspect, status, fds>> /\ P' = P
      /\ torn' = [torn EXCEPT ![P] = FALSE] /\ indx' = [indx EXCEPT ![P] = CutIndxFile]
  BY <1>1 DEF CutIndx, OpType, P
<1>4. /\ indx[P] \in Seq(Header) /\ n \in Nat /\ n < Len(indx[P]) /\ head.pos = indx[P][n + 1]
      /\ Len(indx[P]) \in Nat
  BY <1>1, <1>2, HeadFields, DataEndType DEF BeforeCut, OnHeader, P, TypeOK
<1>5. Len(indx'[P]) = n /\ \A i \in 1 .. n : indx'[P][i] = indx[P][i]
  <2>1. indx'[P] = FTruncate(indx[P], n, ZeroHeader)
    BY <1>1, <1>3 DEF CutIndxFile, TypeOK
  <2>2. n <= Len(indx[P])
    BY <1>4, SMT
  <2> QED
    BY <1>4, <2>1, <2>2, TruncateKeeps
<1>6. \A i \in 1 .. n : i \in 1 .. Len(indx[P])
  BY <1>4, SMT
<1>7. Numbered(P)' /\ ~torn'[P]
  <2>1. ~torn'[P]
    BY <1>1, <1>3 DEF TypeOK
  <2> QED
    BY <1>2, <1>3, <1>5, <1>6, <2>1 DEF PartSound, Numbered
<1>8. ASSUME P \notin suspect
      PROVE  /\ Backed(P)' /\ Recalled(P)' /\ head.pos.off = DataEnd(P)'
             /\ Len(acked[P]) = n
  <2>1. Chained(P) /\ Ordered(P) /\ DataEnd(P) <= Len(data[P]) /\ Recalled(P) /\ Len(acked[P]) = n
    BY <1>2, <1>8 DEF PartSound, Backed, BeforeCut
  <2>2. Chained(P)'
    <3>1. ASSUME NEW i \in 1 .. n
          PROVE  indx'[P][i].off = IF i = 1 THEN 0 ELSE EndOf(indx'[P][i - 1])
      <4>1. i = 1 \/ i - 1 \in 1 .. n
        BY <1>4, SMT
      <4> QED
        BY <1>5, <1>6, <2>1, <4>1 DEF Chained
    <3> QED
      BY <1>3, <1>5, <3>1 DEF Chained
  <2>3. Ordered(P)'
    BY <1>3, <1>5, <1>6, <2>1 DEF Ordered
  <2>4. head.pos.off = DataEnd(P)'
    <3>1. n + 1 \in 1 .. Len(indx[P]) /\ (n + 1) - 1 = n
      BY <1>4, SMT
    <3>2. head.pos.off = IF n + 1 = 1 THEN 0 ELSE EndOf(indx[P][n])
      BY <1>4, <2>1, <3>1 DEF Chained
    <3>3. indx'[P] = << >> <=> n = 0
      <4>1. indx'[P] \in Seq(Header)
        BY <1>1 DEF TypeOK
      <4> QED
        BY <1>4, <1>5, <4>1, SMT
    <3>4. n + 1 = 1 <=> n = 0
      BY <1>4, SMT
    <3>5. n # 0 => n \in 1 .. n
      BY <1>4, SMT
    <3> QED
      BY <1>3, <1>5, <3>2, <3>3, <3>4, <3>5 DEF DataEnd
  <2>5. DataEnd(P)' <= Len(data'[P]) /\ DataEnd(P) <= Len(data'[P])
    <3>1. n + 1 \in 1 .. Len(indx[P])
      BY <1>4, SMT
    <3>2. EndOf(head.pos) <= DataEnd(P) /\ DataEnd(P) \in Nat /\ Len(data[P]) \in Nat
      BY <1>1, <1>4, <2>1, <3>1, EndsInData, DataEndType
    <3>3. head.pos.off <= EndOf(head.pos) /\ head.pos.off \in Nat /\ EndOf(head.pos) \in Nat
      <4>1. head.pos.off \in Nat /\ head.pos.len \in Nat
        BY DEF TypeOK, HeadType, Header
      <4> QED
        BY <4>1, SMT DEF EndOf
    <3> QED
      BY <1>3, <2>1, <2>4, <3>2, <3>3, SMT
  <2>6. \A i \in 1 .. n : DiskItem(P, i)' = DiskItem(P, i)
    BY <1>1, <1>3, <1>4, <1>5, <2>1, <2>5, ItemsKept, SMT
  <2>7. Recalled(P)'
    <3>1. n <= n
      BY <1>4, SMT
    <3> QED
      BY <1>3, <1>5, <2>1, <2>6, <3>1 DEF Recalled
  <2> QED
    BY <1>3, <2>1, <2>2, <2>3, <2>4, <2>5, <2>7 DEF Backed
<1>9. AtEnd'
  <2>1. Here' = n
    BY <1>1, <1>3 DEF Here, StepsFit, CutSteps
  <2>2. Marked' = 0
    <3>1. op.kind = "mark" => op.len - op.n = 0
      BY <1>1, HeadFields, SMT DEF StepsFit, CutSteps
    <3> QED
      BY <1>3, <3>1 DEF Marked, MetaSteps
  <2>3. P \notin suspect => Len(acked[P]) + 0 = n /\ \A i : i \notin Len(acked[P]) + 1 .. n
    BY <1>4, <1>8, SMT
  <2> QED
    BY <1>3, <1>5, <1>8, <2>1, <2>2, <2>3 DEF AtEnd
<1>10. Writing' /\ WriteSound'
  <2>1. Writing'
    BY <1>1, <1>3 DEF Writing
  <2> QED
    BY <1>1, <1>3, <1>9, <2>1 DEF WriteSound
<1>11. PartSound(P)' /\ HeadSound'
  BY <1>3, <1>7, <1>8, <1>10 DEF PartSound, HeadSound
<1> QED
  BY <1>1, <1>3, <1>10, <1>11, WriteFrame DEF TypeOK

\* What is known while a handler writes.
LEMMA WritingFacts ==
    ASSUME TypeOK, StepsFit, Sound, Writing
    PROVE  /\ P \in fds /\ P \in Part /\ P \in Slot /\ status = "loaded" /\ PartSound(P)
           /\ op \in OpType /\ op.kind # "unload" /\ op.kind # "none"
           /\ op.step # "cut_indx" => AtEnd
<1>1. P \in fds /\ status = "loaded" /\ (op.step # "cut_indx" => AtEnd)
  BY DEF Sound, WriteSound, StepsFit, Writing
<1> QED
  BY <1>1, SlotsApart DEF TypeOK, Writing, Sound, FilesSound

\* A handler that goes on and keeps the data of what is recorded.
LEMMA GoesOnSound ==
    ASSUME TypeOK, TypeOK', StepsFit, Sound, Writing, op.step # "cut_indx",
           UNCHANGED <<indx, torn, eod, head, acked, suspect, status, fds>>,
           \A p \in Slot \ {P} : data'[p] = data[p],
           P \notin suspect =>
               /\ DataEnd(P) <= Len(data'[P])
               /\ \A k \in 1 .. DataEnd(P) : data'[P][k] = data[P][k],
           Writing', Here' = Here, Marked' = Marked, op'.step # "cut_indx",
           op'.step = "put_indx" /\ P \notin suspect => Payload'
    PROVE  Sound'
<1>1. P \in fds /\ P \in Part /\ P \in Slot /\ status = "loaded" /\ PartSound(P) /\ AtEnd /\ P' = P
  BY WritingFacts DEF P
<1>2. Len(indx[P]) \in Nat /\ Len(acked[P]) \in Nat
  BY <1>1, DataEndType, SMTT(30) DEF TypeOK
<1>3. ASSUME P \notin suspect
      PROVE  Backed(P)' /\ \A i \in 1 .. Len(indx[P]) : DiskItem(P, i)' = DiskItem(P, i)
  <2>1. Chained(P) /\ Ordered(P) /\ DataEnd(P) <= Len(data[P])
    BY <1>1, <1>3 DEF PartSound, Backed
  <2>2. Len(indx[P]) <= Len(indx[P])
    BY <1>2, SMT
  <2>3. \A i \in 1 .. Len(indx[P]) : DiskItem(P, i)' = DiskItem(P, i)
    BY <1>1, <1>2, <1>3, <2>1, <2>2, ItemsKept
  <2>4. DataEnd(P)' = DataEnd(P) /\ Chained(P)' /\ Ordered(P)'
    BY <1>1, <2>1 DEF DataEnd, Chained, Ordered
  <2> QED
    BY <1>1, <1>3, <2>3, <2>4 DEF Backed
<1>4. PartSound(P)'
  <2>1. Numbered(P)' /\ ~torn'[P]
    BY <1>1 DEF PartSound, Numbered
  <2>2. P \notin suspect => Recalled(P)'
    <3>1. Len(acked[P]) <= Len(indx[P]) => \A i \in 1 .. Len(acked[P]) : i \in 1 .. Len(indx[P])
      BY <1>2, SMT
    <3> QED
      BY <1>1, <1>3, <3>1 DEF PartSound, Recalled
  <2> QED
    BY <1>1, <1>3, <2>1, <2>2 DEF PartSound
<1>5. AtEnd'
  <2>1. \A i \in Len(acked[P]) + 1 .. Len(indx[P]) : i \in 1 .. Len(indx[P])
    BY <1>2, SMT
  <2>2. DataEnd(P)' = DataEnd(P)
    BY <1>1 DEF DataEnd
  <2> QED
    BY <1>1, <1>3, <2>1, <2>2 DEF AtEnd
<1>6. WriteSound' /\ HeadSound'
  BY <1>1, <1>5 DEF WriteSound, HeadSound
<1> QED
  BY <1>1, <1>4, <1>6, WriteFrame

\* A handler that ends at end of data, with everything it recorded known.
LEMMA EndsSound ==
    ASSUME TypeOK, TypeOK', StepsFit, Sound, Writing, op' = NoOp,
           NEW num \in Nat, NEW off \in Nat, AtEod(num, off),
           UNCHANGED <<suspect, status, fds>>,
           \A p \in Slot \ {P} :
               /\ indx'[p] = indx[p] /\ data'[p] = data[p] /\ torn'[p] = torn[p]
               /\ acked'[p] = acked[p],
           num = Len(indx'[P]),
           P \notin suspect => off = DataEnd(P)' /\ Len(acked'[P]) = Len(indx'[P]),
           PartSound(P)'
    PROVE  Sound'
<1>1. P \in Part /\ P \in Slot /\ status = "loaded"
  BY WritingFacts
<1>2. head' = EodHead(P, num, off) /\ eod' = [eod EXCEPT ![P] = [num |-> num, off |-> off]]
  BY DEF AtEod
<1>3. P' = P /\ eod'[P] = [num |-> num, off |-> off]
  BY <1>1, <1>2 DEF P, EodHead, TypeOK
<1>4. ~Writing'
  BY KindsApart
<1>5. Placed(head)'
  BY <1>2, <1>3 DEF Placed, OnEod, EodHead, P
<1>6. Known(P)'
  BY <1>3 DEF Known
<1> QED
  BY <1>1, <1>2, <1>3, <1>4, <1>5, <1>6, WriteFrame DEF HeadSound, WriteSound, TypeOK

\* Cutting the data file at the head keeps what is recorded.
LEMMA CutDataFileKeeps ==
    ASSUME TypeOK, P \in Slot, P \notin suspect, PartSound(P), AtEnd
    PROVE  /\ Len(CutDataFile) = DataEnd(P)
           /\ \A k \in 1 .. DataEnd(P) : CutDataFile[k] = data[P][k]
<1>1. head.pos.off = DataEnd(P) /\ DataEnd(P) <= Len(data[P])
  BY DEF AtEnd, PartSound, Backed
<1>2. data[P] \in Seq(Cell) /\ head.pos.off \in Nat
  BY HeadFields DEF TypeOK
<1> QED
  BY <1>1, <1>2, TruncateKeeps DEF CutDataFile

\* ftruncate() of the data file cuts what no header of the index describes any more.
LEMMA CutDataSound ==
    ASSUME TypeOK, TypeOK', StepsFit, StepsFit', Sound, CutData
    PROVE  Sound'
<1> USE DEF drive, ghost
<1>1. op.step = "cut_data" /\ Writing
  BY DEF CutData, StepsFit, CutSteps
<1>2. P \in Slot /\ PartSound(P) /\ AtEnd /\ op \in OpType /\ ~op.cut
  BY <1>1, WritingFacts DEF StepsFit, MetaSteps
<1>3. /\ UNCHANGED <<indx, torn, eod, head, acked, suspect, status, fds>>
      /\ data' = [data EXCEPT ![P] = CutDataFile]
      /\ op'.kind = op.kind /\ op'.num = op.num /\ op'.n = op.n /\ op'.len = op.len
      /\ \/ op'.step = "meta_head" /\ op'.cut
         \/ op'.step \in {"put_data", "put_mark", "wipe"}
  BY <1>1, <1>2 DEF CutData, OpType, AfterCut
<1>4. Writing' /\ Here' = Here /\ op'.step \notin {"cut_indx", "put_indx"}
  BY <1>1, <1>3 DEF Writing, Here
<1>5. Marked' = Marked
  BY <1>1, <1>3 DEF Marked, MetaSteps
<1>6. data'[P] = CutDataFile /\ \A p \in Slot \ {P} : data'[p] = data[p]
  BY <1>2, <1>3 DEF TypeOK
<1>7. P \notin suspect =>
        /\ DataEnd(P) <= Len(data'[P])
        /\ \A k \in 1 .. DataEnd(P) : data'[P][k] = data[P][k]
  <2>1. DataEnd(P) <= DataEnd(P)
    BY <1>2, DataEndType, SMT
  <2> QED
    BY <1>2, <1>6, <2>1, CutDataFileKeeps
<1> QED
  BY <1>1, <1>3, <1>4, <1>5, <1>6, <1>7, GoesOnSound

\* rewrite_meta_file() and zero_filemark_count() touch no block.
LEMMA MetaSound ==
    ASSUME TypeOK, TypeOK', StepsFit, StepsFit', Sound, Writing,
           MetaHead \/ MetaMap \/ MetaLen \/ Wipe
    PROVE  Sound'
<1> USE DEF drive, ghost, disk
<1>1. op.step \in MetaSteps \cup {"wipe"}
  BY DEF MetaHead, MetaMap, MetaLen, Wipe, MetaSteps
<1>2. P \in Slot /\ PartSound(P) /\ op \in OpType /\ op.kind \in {"write", "mark", "erase"}
  BY WritingFacts DEF Writing
<1>3. /\ UNCHANGED <<data, indx, torn, eod, head, acked, suspect, status, fds>>
      /\ op'.kind = op.kind /\ op'.num = op.num /\ op'.n = op.n /\ op'.len = op.len
  BY <1>2 DEF MetaHead, MetaMap, MetaLen, Wipe, OpType
<1>4. Writing' /\ Here' = Here
  BY <1>3 DEF Writing, Here
<1>5. op'.step \notin {"cut_indx", "put_indx"} /\ Marked' = Marked
  <2>1. CASE MetaHead \/ MetaMap
    <3>1. op.step \in MetaSteps /\ op'.step \in MetaSteps /\ op'.cut = op.cut
      BY <1>2, <2>1 DEF MetaHead, MetaMap, MetaSteps, OpType
    <3> QED
      BY <1>3, <3>1 DEF Marked, MetaSteps
  <2>2. CASE MetaLen
    <3>1. op.step \in MetaSteps /\ op'.step = AfterMeta /\ ~op'.cut
      BY <1>2, <2>2 DEF MetaLen, MetaSteps, OpType
    <3>2. CASE op.cut
      <4>1. op'.step = IF op.kind = "write" THEN "put_data"
                       ELSE IF op.kind = "mark" THEN "put_mark" ELSE "wipe"
        BY <1>2, <3>1, <3>2 DEF AfterMeta, AfterCut
      <4>2. op'.step \in {"put_data", "put_mark", "wipe"} /\ op.step # "marked"
        BY <3>1, <4>1 DEF MetaSteps
      <4> QED
        BY <1>3, <3>2, <4>2 DEF Marked, MetaSteps
    <3>3. CASE ~op.cut
      <4>1. op.kind # "write"
        BY <3>1, <3>3 DEF StepsFit
      <4>2. op'.step = IF op.kind = "mark" THEN "marked" ELSE "wiped"
        BY <1>2, <3>1, <3>3, <4>1 DEF AfterMeta
      <4> QED
        BY <1>3, <3>1, <3>3, <4>2 DEF Marked, MetaSteps
    <3> QED
      BY <3>2, <3>3
  <2>3. CASE Wipe
    <3>1. op.kind = "erase" /\ op'.step = "meta_head"
      BY <1>2, <2>3 DEF Wipe, StepsFit, OpType
    <3> QED
      BY <1>3, <3>1 DEF Marked
  <2> QED
    BY <2>1, <2>2, <2>3
<1>6. P \notin suspect =>
        /\ DataEnd(P) <= Len(data'[P])
        /\ \A k \in 1 .. DataEnd(P) : data'[P][k] = data[P][k]
  BY <1>2, <1>3 DEF PartSound, Backed
<1> QED
  BY <1>1, <1>3, <1>4, <1>5, <1>6, GoesOnSound DEF MetaSteps

\* write_tape_block() writes the data behind what is recorded.
LEMMA PutDataSound ==
    ASSUME TypeOK, TypeOK', StepsFit, Sound, PutData
    PROVE  Sound'
<1> USE DEF drive, ghost
<1>1. op.step = "put_data" /\ op.kind = "write" /\ Writing
  BY DEF PutData, StepsFit, Writing
<1>2. P \in Slot /\ PartSound(P) /\ AtEnd /\ op \in OpType
  BY <1>1, WritingFacts
<1>3. /\ UNCHANGED <<indx, torn, eod, head, acked, suspect, status, fds>>
      /\ data' = [data EXCEPT ![P] = PutDataFile]
      /\ op'.kind = op.kind /\ op'.step = "put_indx" /\ op'.len = op.len /\ op'.val = op.val
      /\ op'.num = op.num
  BY <1>2 DEF PutData, OpType
<1>4. Writing' /\ Here' = Here /\ Marked' = Marked /\ P' = P
  BY <1>1, <1>3 DEF Writing, Here, Marked, P
<1>5. data'[P] = PutDataFile /\ \A p \in Slot \ {P} : data'[p] = data[p]
  BY <1>2, <1>3 DEF TypeOK
<1>6. /\ data[P] \in Seq(Cell) /\ head.pos.off \in Nat /\ op.len \in Nat
      /\ DataEnd(P) \in Nat /\ Len(data[P]) \in Nat
  BY <1>2, HeadFields, DataEndType DEF TypeOK
<1>7. ASSUME P \notin suspect
      PROVE  /\ DataEnd(P) <= Len(data'[P])
             /\ \A k \in 1 .. DataEnd(P) : data'[P][k] = data[P][k]
             /\ Payload'
  <2>1. head.pos.off = DataEnd(P) /\ head.pos.off <= Len(data[P])
    BY <1>2, <1>7 DEF AtEnd, PartSound, Backed
  <2>2. /\ Len(data'[P]) = Larger(Len(data[P]), head.pos.off + op.len)
        /\ \A i \in 1 .. head.pos.off : data'[P][i] = data[P][i]
        /\ \A i \in 1 .. op.len : data'[P][head.pos.off + i] = op.val
    BY <1>5, <1>6, <2>1, WriteKeeps DEF PutDataFile
  <2>3. DataEnd(P) <= Len(data'[P]) /\ head.pos.off + op.len <= Len(data'[P])
    BY <1>6, <2>1, <2>2, SMT DEF Larger
  <2> QED
    BY <1>3, <1>4, <2>1, <2>2, <2>3 DEF Payload
<1> QED
  BY <1>1, <1>3, <1>4, <1>5, <1>7, GoesOnSound

\* write_tape_block() fails before the header is written, or format_partition() ends.
LEMMA DataFailsSound ==
    ASSUME TypeOK, TypeOK', StepsFit, Sound, DataFails \/ Wiped
    PROVE  Sound'
<1> USE DEF drive, ghost, disk
<1>1. op.kind \in {"write", "erase"} /\ Writing /\ op.step \in {"put_data", "wiped"}
  BY DEF DataFails, Wiped, StepsFit, Writing
<1>2. P \in Slot /\ PartSound(P) /\ AtEnd
  BY <1>1, WritingFacts
<1>3. /\ UNCHANGED <<indx, torn, acked, suspect, status, fds>> /\ op' = NoOp
      /\ AtEod(head.pos.num, head.pos.off)
      /\ data' = [data EXCEPT ![P] = CutDataFile] \/ data' = data
  BY DEF DataFails, Wiped, Fail
<1>4. Len(indx[P]) = head.pos.num /\ Len(indx[P]) \in Nat /\ Len(acked[P]) \in Nat /\ P' = P
  <2>1. acked[P] \in Seq(Item) /\ Len(indx[P]) \in Nat
    BY <1>2, DataEndType DEF TypeOK
  <2>2. Len(indx[P]) = head.pos.num /\ P' = P
    BY <1>1, <1>2, <1>3 DEF AtEnd, Here, AtEod, EodHead, P
  <2> QED
    BY <2>1, <2>2, SMT
<1>5. \A p \in Slot \ {P} : data'[p] = data[p]
  BY <1>2, <1>3 DEF TypeOK
<1>6. ASSUME P \notin suspect
      PROVE  /\ head.pos.off = DataEnd(P)' /\ Len(acked[P]) = Len(indx[P])
             /\ Backed(P)' /\ Recalled(P)'
  <2>1. /\ head.pos.off = DataEnd(P) /\ Len(acked[P]) = Len(indx[P])
        /\ Chained(P) /\ Ordered(P) /\ DataEnd(P) <= Len(data[P]) /\ Recalled(P)
    BY <1>1, <1>2, <1>4, <1>6, SMT DEF AtEnd, Marked, PartSound, Backed
  <2>2. DataEnd(P)' = DataEnd(P) /\ Chained(P)' /\ Ordered(P)'
    BY <1>3, <1>4, <2>1 DEF DataEnd, Chained, Ordered
  <2>3. DataEnd(P) <= Len(data'[P]) /\ \A k \in 1 .. DataEnd(P) : data'[P][k] = data[P][k]
    <3>1. CASE data' = data
      BY <2>1, <3>1
    <3>2. CASE data' = [data EXCEPT ![P] = CutDataFile]
      <4>1. data'[P] = CutDataFile
        BY <1>2, <3>2 DEF TypeOK
      <4>2. DataEnd(P) <= DataEnd(P)
        BY <1>2, DataEndType, SMT
      <4> QED
        BY <1>2, <1>6, <4>1, <4>2, CutDataFileKeeps
    <3> QED
      BY <1>3, <3>1, <3>2
  <2>4. Len(indx[P]) <= Len(indx[P])
    BY <1>4, SMT
  <2>5. \A i \in 1 .. Len(indx[P]) : DiskItem(P, i)' = DiskItem(P, i)
    BY <1>2, <1>3, <1>4, <2>1, <2>3, <2>4, ItemsKept
  <2> QED
    BY <1>3, <1>4, <2>1, <2>2, <2>3, <2>5 DEF Backed, Recalled
<1>7. PartSound(P)'
  BY <1>2, <1>3, <1>4, <1>6 DEF PartSound, Numbered
<1> QED
  BY <1>1, <1>2, <1>3, <1>4, <1>5, <1>6, <1>7, HeadFields, EndsSound

\* An empty file.
LEMMA NoCells == << >> = [k \in 1 .. 0 |-> Hole]
BY SMT

\* The header of a new item extends the index of a partition.
LEMMA IndexExtends ==
    ASSUME TypeOK, TypeOK', P \in Slot, P' = P, PartSound(P), Len(indx[P]) = Here,
           P \notin suspect => head.pos.off = DataEnd(P),
           NEW h \in Header, h.num = Here, h.part = P, h.type \in {"data", "fm"},
           h.off = head.pos.off, UNCHANGED data,
           indx' = [indx EXCEPT ![P] = PWrite(@, Here, 1, h, ZeroHeader)],
           torn' = [torn EXCEPT ![P] = StillTorn(Here)],
           P \notin suspect => EndOf(h) <= Len(data[P])
    PROVE  /\ Len(indx'[P]) = Here + 1 /\ indx'[P][Here + 1] = h
           /\ Numbered(P)' /\ ~torn'[P]
           /\ P \notin suspect =>
                 /\ Backed(P)' /\ DataEnd(P)' = EndOf(h)
                 /\ \A i \in 1 .. Here : DiskItem(P, i)' = DiskItem(P, i)
<1> DEFINE n == Len(indx[P])
<1>1. indx[P] \in Seq(Header) /\ n \in Nat /\ n = Here /\ Here \in Nat
  <2>1. indx[P] \in Seq(Header)
    BY DEF TypeOK
  <2> QED
    BY <2>1, SMT
<1>2. indx'[P] = PWrite(indx[P], n, 1, h, ZeroHeader)
  BY <1>1 DEF TypeOK
<1>3. Len(indx'[P]) = n + 1 /\ indx'[P][n + 1] = h /\ \A i \in 1 .. n : indx'[P][i] = indx[P][i]
  <2> DEFINE g == PWrite(indx[P], n, 1, h, ZeroHeader)
  <2>1. Len(g) = n + 1 /\ g[n + 1] = h /\ \A i \in 1 .. n : g[i] = indx[P][i]
    <3> HIDE DEF n
    <3>1. n = Len(indx[P])
      BY DEF n
    <3> QED
      BY <1>1, <3>1, WriteAppends
  <2> QED
    BY <1>2, <2>1
<1>4. \A i \in 1 .. n + 1 : i \in 1 .. n \/ i = n + 1
  BY <1>1, SMT
<1>5. (n + 1) - 1 = n /\ n <= n /\ n + 1 # n /\ (n + 1 = 1 <=> n = 0) /\ (n # 0 => n \in 1 .. n)
  BY <1>1, SMT
<1>6. Numbered(P)'
  <2>1. \A i \in 1 .. n : /\ indx[P][i].num = i - 1 /\ indx[P][i].part = P
                            /\ indx[P][i].type \in {"data", "fm"}
    BY DEF PartSound, Numbered
  <2>2. h.num = n /\ h.part = P /\ h.type \in {"data", "fm"}
    BY <1>1
  <2>3. ASSUME NEW i \in 1 .. n + 1
        PROVE  /\ indx'[P][i].num = i - 1 /\ indx'[P][i].part = P
               /\ indx'[P][i].type \in {"data", "fm"}
    <3>1. CASE i \in 1 .. n
      BY <1>3, <2>1, <3>1
    <3>2. CASE i = n + 1
      BY <1>3, <1>5, <2>2, <3>2
    <3> QED
      BY <1>4, <3>1, <3>2
  <2> HIDE DEF n
  <2> QED
    BY <1>3, <2>3 DEF Numbered
<1>7. ~torn'[P]
  <2>1. torn'[P] = StillTorn(Here) /\ ~torn[P]
    BY DEF TypeOK, PartSound
  <2> QED
    BY <2>1 DEF StillTorn
<1>8. ASSUME P \notin suspect
      PROVE  /\ Backed(P)' /\ DataEnd(P)' = EndOf(h)
             /\ \A i \in 1 .. n : DiskItem(P, i)' = DiskItem(P, i)
  <2>1. /\ Chained(P) /\ Ordered(P) /\ DataEnd(P) <= Len(data[P])
        /\ h.off = DataEnd(P) /\ EndOf(h) <= Len(data[P])
    BY <1>8 DEF PartSound, Backed
  <2>2. indx[P] = << >> <=> n = 0
    BY <1>1, SMT
  <2>3. Chained(P)'
    <3>1. ASSUME NEW i \in 1 .. n + 1
          PROVE  indx'[P][i].off = IF i = 1 THEN 0 ELSE EndOf(indx'[P][i - 1])
      <4>1. CASE i \in 1 .. n
        <5>1. i = 1 \/ i - 1 \in 1 .. n
          BY <1>1, <4>1, SMT
        <5> QED
          BY <1>3, <2>1, <4>1, <5>1 DEF Chained
      <4>2. CASE i = n + 1
        BY <1>3, <1>5, <2>1, <2>2, <4>2 DEF DataEnd
      <4> QED
        BY <1>4, <4>1, <4>2
    <3> QED
      BY <1>3, <3>1 DEF Chained
  <2>4. Ordered(P)'
    <3>1. ASSUME NEW i \in 1 .. n + 1, NEW j \in 1 .. n + 1, i < j
          PROVE  EndOf(indx'[P][i]) <= indx'[P][j].off
      <4>1. i \in 1 .. n
        BY <1>1, <3>1, SMT
      <4>2. CASE j \in 1 .. n
        BY <1>3, <2>1, <3>1, <4>1, <4>2 DEF Ordered
      <4>3. CASE j = n + 1
        BY <1>3, <2>1, <4>1, <4>3, EndsInData
      <4> QED
        BY <1>4, <4>2, <4>3
    <3> QED
      BY <1>3, <3>1 DEF Ordered
  <2>5. DataEnd(P)' = EndOf(h)
    <3>1. Len(indx'[P]) # 0
      BY <1>1, <1>3, SMT
    <3>2. indx'[P] # << >>
      <4>1. Len(<< >>) = 0
        BY SMT
      <4> QED
        BY <3>1, <4>1
    <3> QED
      BY <1>3, <3>2 DEF DataEnd
  <2>6. \A i \in 1 .. n : DiskItem(P, i)' = DiskItem(P, i)
    BY <1>1, <1>3, <1>5, <2>1, ItemsKept
  <2> QED
    BY <2>1, <2>3, <2>4, <2>5, <2>6 DEF Backed
<1> QED
  BY <1>1, <1>3, <1>6, <1>7, <1>8

\* write_tape_block() writes the header, and the block is recorded.
LEMMA PutIndxSound ==
    ASSUME TypeOK, TypeOK', StepsFit, Sound, PutIndx
    PROVE  Sound'
<1> USE DEF drive, ghost
<1> DEFINE n == head.pos.num
<1>1. op.step = "put_indx" /\ op.kind = "write" /\ Writing
  BY DEF PutIndx, StepsFit, Writing
<1>2. /\ P \in Slot /\ PartSound(P) /\ AtEnd /\ Here = n /\ n \in Nat
      /\ head.pos.off \in Nat /\ op.len \in Nat
  BY <1>1, WritingFacts, HeadFields DEF Here
<1>3. /\ UNCHANGED <<data, suspect, status, fds>> /\ op' = NoOp
      /\ AtEod(n + 1, head.pos.off + op.len)
      /\ indx' = [indx EXCEPT ![P] = PWrite(@, n, 1, NewHeader, ZeroHeader)]
      /\ torn' = [torn EXCEPT ![P] = StillTorn(n)]
      /\ Recorded = << Block(op.val, op.len) >>
      /\ acked' = [acked EXCEPT ![P] = @ \o Recorded]
  BY <1>1 DEF PutIndx, Acknowledge, Recorded
<1>4. P' = P /\ n + 1 \in Nat /\ head.pos.off + op.len \in Nat
  BY <1>2, <1>3, SMT DEF AtEod, EodHead, P
<1>5. /\ Len(indx[P]) = n /\ Marked = 0
      /\ P \notin suspect => /\ head.pos.off = DataEnd(P) /\ Len(acked[P]) + 0 = n
                             /\ Recalled(P) /\ Payload
  BY <1>1, <1>2 DEF AtEnd, Marked, PartSound, Sound, WriteSound
<1>6. /\ NewHeader \in Header /\ NewHeader.num = n /\ NewHeader.part = P
      /\ NewHeader.type = "data" /\ NewHeader.off = head.pos.off /\ NewHeader.len = op.len
      /\ EndOf(NewHeader) = head.pos.off + op.len
  BY NewHeaderType DEF NewHeader, EndOf
<1>7. /\ Len(indx'[P]) = n + 1 /\ indx'[P][n + 1] = NewHeader
      /\ Numbered(P)' /\ ~torn'[P]
      /\ P \notin suspect =>
            /\ Backed(P)' /\ DataEnd(P)' = EndOf(NewHeader)
            /\ \A i \in 1 .. n : DiskItem(P, i)' = DiskItem(P, i)
  <2>1. P \notin suspect => EndOf(NewHeader) <= Len(data[P])
    BY <1>5, <1>6 DEF Payload
  <2> QED
    BY <1>2, <1>3, <1>4, <1>5, <1>6, <2>1, IndexExtends
<1>8. ASSUME P \notin suspect
      PROVE  /\ Len(acked'[P]) = n + 1
             /\ acked'[P][n + 1] = Block(op.val, op.len)
             /\ \A i \in 1 .. n : acked'[P][i] = acked[P][i]
  <2>1. acked[P] \in Seq(Item) /\ Len(acked[P]) = n
    <3>1. acked[P] \in Seq(Item)
      BY <1>2 DEF TypeOK
    <3> QED
      BY <1>5, <1>8, <3>1, SMT
  <2>2. acked'[P] = acked[P] \o << Block(op.val, op.len) >>
    BY <1>2, <1>3 DEF TypeOK
  <2> QED
    BY <1>2, <2>1, <2>2, SMT
<1>9. \A i : i = n + 1 /\ P \notin suspect => DiskItem(P, i)' = Block(op.val, op.len)
  <2>1. ASSUME P \notin suspect
        PROVE  [k \in 1 .. op.len |-> IF head.pos.off + k <= Len(data[P])
                                      THEN data[P][head.pos.off + k] ELSE Hole]
                 = [k \in 1 .. op.len |-> op.val]
    <3>1. \A k \in 1 .. op.len : data[P][head.pos.off + k] = op.val /\ head.pos.off + op.len <= Len(data[P])
      BY <1>5, <2>1 DEF Payload
    <3>2. Len(data[P]) \in Nat
      BY <1>2, DataEndType
    <3>3. \A k \in 1 .. op.len : head.pos.off + k <= Len(data[P])
      BY <1>2, <3>1, <3>2, SMT
    <3> QED
      BY <3>1, <3>3
  <2>2. ASSUME NEW i, i = n + 1, P \notin suspect
        PROVE  DiskItem(P, i)' = Block(op.val, op.len)
    <3>1. indx'[P'][i] = NewHeader /\ data'[P'] = data[P]
      BY <1>3, <1>4, <1>7, <2>2
    <3>2. DiskItem(P, i)' =
            [type |-> NewHeader.type,
             cells |-> [k \in 1 .. NewHeader.len |->
                          IF NewHeader.off + k <= Len(data[P])
                          THEN data[P][NewHeader.off + k] ELSE Hole]]
      BY <3>1 DEF DiskItem, Extent
    <3> QED
      BY <1>6, <2>1, <2>2, <3>2 DEF Block
  <2> QED
    BY <2>2
<1>10. P \notin suspect => Recalled(P)'
  <2>1. \A i \in 1 .. n + 1 : i \in 1 .. n \/ i = n + 1
    BY <1>2, SMT
  <2>2. n + 1 <= n + 1 /\ n + 0 = n
    BY <1>2, SMT
  <2>3. P \notin suspect => \A i \in 1 .. n : acked[P][i] = DiskItem(P, i)
    <3>1. Len(acked[P]) \in Nat
      <4>1. acked[P] \in Seq(Item)
        BY <1>2 DEF TypeOK
      <4> QED
        BY <4>1, SMT
    <3> QED
      BY <1>5, <3>1, SMT DEF Recalled
  <2> QED
    BY <1>4, <1>7, <1>8, <1>9, <2>1, <2>2, <2>3 DEF Recalled
<1>11. PartSound(P)'
  BY <1>3, <1>4, <1>7, <1>10 DEF PartSound
<1>12. \A p \in Slot \ {P} :
          indx'[p] = indx[p] /\ data'[p] = data[p] /\ torn'[p] = torn[p] /\ acked'[p] = acked[p]
  BY <1>2, <1>3 DEF TypeOK
<1> QED
  BY <1>1, <1>3, <1>4, <1>6, <1>7, <1>8, <1>11, <1>12, EndsSound

\* write_filemarks() writes the header of one more mark.
LEMMA PutMarkSound ==
    ASSUME TypeOK, TypeOK', StepsFit, Sound, PutMark
    PROVE  Sound'
<1> USE DEF drive, ghost
<1> DEFINE n == op.num
           h == MarkHeader(op.num)
<1>1. op.step = "put_mark" /\ op.kind = "mark" /\ Writing
  BY DEF PutMark, StepsFit, Writing
<1>2. /\ P \in Slot /\ P \in Part /\ P \in fds /\ status = "loaded" /\ op \in OpType
      /\ PartSound(P) /\ AtEnd /\ Here = n /\ n \in Nat /\ head.pos.off \in Nat
      /\ op.len \in Nat /\ op.n \in Nat /\ ~op.cut
  BY <1>1, WritingFacts, HeadFields DEF Here, StepsFit, MetaSteps
<1>3. /\ UNCHANGED <<data, eod, acked, suspect, status, fds>>
      /\ indx' = [indx EXCEPT ![P] = PWrite(@, n, 1, h, ZeroHeader)]
      /\ torn' = [torn EXCEPT ![P] = StillTorn(n)]
      /\ op'.kind = op.kind /\ op'.step = "meta_head" /\ op'.num = n + 1 /\ op'.n = op.n
      /\ op'.len = op.len /\ ~op'.cut
      /\ head'.pos = h
  BY <1>2 DEF PutMark, OpType, TypeOK, HeadType
<1>4. /\ h \in Header /\ h.num = n /\ h.part = P /\ h.type = "fm" /\ h.off = head.pos.off
      /\ h.len = 0 /\ EndOf(h) = head.pos.off
  <2>1. head.pos.off + 0 = head.pos.off
    BY <1>2, SMT
  <2> QED
    BY <2>1, MarkHeaderType DEF MarkHeader, EndOf
<1>5. P' = P /\ Writing' /\ Here' = n + 1
  BY <1>1, <1>3, <1>4 DEF P, Writing, Here
<1>6. Marked = op.len - op.n /\ Marked' = op.len - op.n + 1
  BY <1>1, <1>2, <1>3 DEF Marked, MetaSteps
<1>7. P \notin suspect =>
        /\ head.pos.off = DataEnd(P) /\ Len(acked[P]) + Marked = n /\ Recalled(P)
        /\ DataEnd(P) <= Len(data[P])
        /\ \A i \in Len(acked[P]) + 1 .. n : DiskItem(P, i) = Mark
  BY <1>2 DEF AtEnd, PartSound, Backed
<1>8. /\ Len(indx'[P]) = n + 1 /\ indx'[P][n + 1] = h
      /\ Numbered(P)' /\ ~torn'[P]
      /\ P \notin suspect =>
            /\ Backed(P)' /\ DataEnd(P)' = EndOf(h)
            /\ \A i \in 1 .. n : DiskItem(P, i)' = DiskItem(P, i)
  BY <1>2, <1>3, <1>4, <1>5, <1>7, IndexExtends DEF AtEnd
<1>9. \A i : i = n + 1 => DiskItem(P, i)' = Mark
  <2>1. h.len = 0 /\ h.type = "fm" /\ P' = P
    BY <1>4, <1>5
  <2> HIDE DEF h
  <2>2. [k \in 1 .. h.len |-> IF h.off + k <= Len(data'[P]) THEN data'[P][h.off + k] ELSE Hole]
          = << >>
    BY <2>1, SMT
  <2>3. ASSUME NEW i, i = n + 1
        PROVE  DiskItem(P, i)' = Mark
    <3>1. indx'[P'][i] = h
      BY <1>8, <2>1, <2>3
    <3> QED
      BY <2>1, <2>2, <3>1 DEF DiskItem, Extent, Mark
  <2> QED
    BY <2>3
<1>10. Len(acked[P]) \in Nat
  <2>1. acked[P] \in Seq(Item)
    BY <1>2 DEF TypeOK
  <2> QED
    BY <2>1, SMT
<1>11. ASSUME P \notin suspect
       PROVE  /\ Recalled(P)' /\ Len(acked[P]) + Marked' = n + 1
              /\ \A i \in Len(acked[P]) + 1 .. n + 1 : DiskItem(P, i)' = Mark
  <2>1. Len(acked[P]) + Marked' = n + 1
    BY <1>2, <1>6, <1>7, <1>10, <1>11, SMT
  <2>2. \A i \in Len(acked[P]) + 1 .. n + 1 :
           i = n + 1 \/ (i \in 1 .. n /\ i \in Len(acked[P]) + 1 .. n)
    BY <1>2, <1>10, SMT
  <2>3. Len(acked[P]) <= n + 1 /\ \A i \in 1 .. Len(acked[P]) : i \in 1 .. n
    <3>1. Len(acked[P]) <= n
      BY <1>2, <1>7, <1>11 DEF Recalled, AtEnd
    <3> QED
      BY <1>2, <1>10, <3>1, SMT
  <2>4. Recalled(P)'
    BY <1>3, <1>5, <1>7, <1>8, <1>11, <2>3 DEF Recalled
  <2> QED
    BY <1>7, <1>8, <1>9, <1>11, <2>1, <2>2, <2>4
<1>12. PartSound(P)'
  BY <1>3, <1>5, <1>8, <1>11 DEF PartSound
<1>13. AtEnd'
  <2>1. head'.pos.off = DataEnd(P)' \/ P \in suspect
    BY <1>3, <1>4, <1>7, <1>8
  <2> QED
    BY <1>3, <1>5, <1>8, <1>11, <2>1 DEF AtEnd
<1>14. WriteSound' /\ HeadSound'
  BY <1>2, <1>3, <1>5, <1>13 DEF WriteSound, HeadSound
<1>15. \A p \in Slot \ {P} :
          /\ indx'[p] = indx[p] /\ data'[p] = data[p] /\ torn'[p] = torn[p]
          /\ acked'[p] = acked[p] /\ eod'[p] = eod[p]
  BY <1>2, <1>3 DEF TypeOK
<1> QED
  BY <1>1, <1>2, <1>3, <1>5, <1>12, <1>14, <1>15, WriteFrame

\* WRITE FILEMARKS goes on to the next mark, or returns with all of them recorded.
LEMMA NextMarkSound ==
    ASSUME TypeOK, TypeOK', StepsFit, Sound, NextMarkOrDone
    PROVE  Sound'
<1> USE DEF drive, ghost, disk
<1>1. op.step = "marked" /\ op.kind = "mark" /\ Writing
  BY DEF NextMarkOrDone, StepsFit, Writing
<1>2. /\ P \in Slot /\ op \in OpType /\ PartSound(P) /\ AtEnd /\ Here = op.num /\ op.num \in Nat
      /\ head.pos.off \in Nat /\ op.len \in Nat /\ op.n \in Nat /\ 1 <= op.n /\ ~op.cut
  BY <1>1, WritingFacts, HeadFields DEF Here, StepsFit, MetaSteps
<1>3. /\ UNCHANGED <<data, indx, torn, suspect, status, fds>> /\ Marked = op.len - op.n + 1
  BY <1>1 DEF NextMarkOrDone, Marked
<1>4. CASE op.n > 1
  <2>1. /\ UNCHANGED <<head, eod, acked>> /\ op'.kind = op.kind /\ op'.step = "put_mark"
        /\ op'.n = op.n - 1 /\ op'.len = op.len /\ op'.num = op.num /\ op'.cut = op.cut
    BY <1>2, <1>4 DEF NextMarkOrDone, OpType
  <2>2. Writing' /\ Here' = Here
    BY <1>1, <2>1 DEF Writing, Here
  <2>3. Marked' = Marked
    <3>1. op.len - (op.n - 1) = op.len - op.n + 1
      BY <1>2, SMT
    <3> QED
      BY <1>1, <1>2, <1>3, <2>1, <3>1 DEF Marked, MetaSteps
  <2>4. P \notin suspect => DataEnd(P) <= Len(data'[P])
    BY <1>2, <1>3 DEF PartSound, Backed
  <2> QED
    BY <1>1, <1>3, <2>1, <2>2, <2>3, <2>4, GoesOnSound
<1>5. CASE ~(op.n > 1)
  <2>1. /\ AtEod(op.num, head.pos.off) /\ op' = NoOp
        /\ acked' = [acked EXCEPT ![P] = @ \o Recorded] /\ P' = P
    BY <1>5 DEF NextMarkOrDone, Acknowledge, AtEod, EodHead, P
  <2>2. op.n = 1 /\ Marked = op.len
    BY <1>2, <1>3, <1>5, SMT
  <2>3. Recorded = [i \in 1 .. op.len |-> Mark]
    BY <1>1 DEF Recorded
  <2>4. acked[P] \in Seq(Item) /\ Recorded \in Seq(Item) /\ Len(acked[P]) \in Nat /\ Len(Recorded) = op.len
    <3>1. acked[P] \in Seq(Item) /\ Recorded \in Seq(Item)
      BY <1>2, RecordedType DEF TypeOK
    <3> QED
      BY <1>2, <2>3, <3>1, SMT
  <2>5. /\ acked'[P] = acked[P] \o Recorded /\ Len(acked'[P]) = Len(acked[P]) + op.len
        /\ \A i \in 1 .. Len(acked[P]) : acked'[P][i] = acked[P][i]
        /\ \A i \in 1 .. op.len : acked'[P][Len(acked[P]) + i] = Mark
    <3>1. acked'[P] = acked[P] \o Recorded
      BY <1>2, <2>1 DEF TypeOK
    <3>2. \A i \in 1 .. op.len : Recorded[i] = Mark
      BY <2>3
    <3> DEFINE a == acked[P]
               r == Recorded
    <3>3. /\ Len(a \o r) = Len(a) + Len(r)
          /\ \A i \in 1 .. Len(a) : (a \o r)[i] = a[i]
          /\ \A i \in 1 .. Len(r) : (a \o r)[Len(a) + i] = r[i]
      <4> HIDE DEF a, r
      <4>1. a \in Seq(Item) /\ r \in Seq(Item)
        BY <2>4 DEF a, r
      <4> QED
        BY <4>1, SMT
    <3> QED
      BY <2>4, <3>1, <3>2, <3>3
  <2>6. \A i : DiskItem(P, i)' = DiskItem(P, i)
    BY <1>3, <2>1 DEF DiskItem, Extent
  <2>7. ASSUME P \notin suspect
        PROVE  /\ head.pos.off = DataEnd(P)' /\ Len(acked'[P]) = Len(indx'[P])
               /\ Backed(P)' /\ Recalled(P)'
    <3>1. /\ head.pos.off = DataEnd(P) /\ Len(acked[P]) + op.len = Len(indx[P])
          /\ \A i \in Len(acked[P]) + 1 .. Len(indx[P]) : DiskItem(P, i) = Mark
          /\ Backed(P) /\ Recalled(P)
      BY <1>2, <2>2, <2>7 DEF AtEnd, PartSound
    <3>2. DataEnd(P)' = DataEnd(P) /\ Backed(P)'
      BY <1>3, <2>1, <3>1 DEF DataEnd, Backed, Chained, Ordered
    <3>3. Recalled(P)'
      <4>1. ASSUME NEW i \in 1 .. Len(acked'[P])
            PROVE  acked'[P][i] = DiskItem(P, i)
        <5>1. CASE i \in 1 .. Len(acked[P])
          BY <2>5, <3>1, <5>1 DEF Recalled
        <5>2. CASE i \notin 1 .. Len(acked[P])
          <6>1. /\ i - Len(acked[P]) \in 1 .. op.len /\ Len(acked[P]) + (i - Len(acked[P])) = i
                /\ i \in Len(acked[P]) + 1 .. Len(indx[P])
            BY <1>2, <2>4, <2>5, <3>1, <5>2, SMT
          <6> QED
            BY <2>5, <3>1, <6>1
        <5> QED
          BY <5>1, <5>2
      <4>2. Len(acked'[P]) <= Len(indx[P])
        BY <1>2, <2>4, <2>5, <3>1, SMT
      <4> QED
        BY <1>3, <2>1, <2>6, <4>1, <4>2 DEF Recalled
    <3> QED
      BY <1>3, <2>5, <3>1, <3>2, <3>3
  <2>8. PartSound(P)'
    BY <1>2, <1>3, <2>1, <2>7 DEF PartSound, Numbered
  <2>9. op.num = Len(indx'[P])
    BY <1>2, <1>3 DEF AtEnd
  <2>10. \A p \in Slot \ {P} : acked'[p] = acked[p]
    BY <1>2, <2>1 DEF TypeOK
  <2> QED
    BY <1>1, <1>2, <1>3, <2>1, <2>7, <2>8, <2>9, <2>10, EndsSound
<1> QED
  BY <1>4, <1>5

-----------------------------------------------------------------------------
(* The first layer holds *)

\* A failure of another kind would have been counted.
LEMMA NoUnsafeFault ==
    ASSUME TypeOK, OnlySafeFaults', NEW kind, kind \notin {"crash", "data"}, Fail(kind)
    PROVE  FALSE
<1>1. failures \in Seq(FaultKinds) /\ failures' = Append(failures, kind)
  BY DEF TypeOK, Fail
<1>2. Len(failures) + 1 \in DOMAIN failures' /\ failures'[Len(failures) + 1] = kind
  BY <1>1, SMT
<1> QED
  BY <1>2 DEF OnlySafeFaults

\* A data write that fails, and the death of the daemon, leave the files sound.
LEMMA FaultSound ==
    ASSUME TypeOK, TypeOK', StepsFit, Sound, Fault, OnlySafeFaults'
    PROVE  Sound'
<1>1. ASSUME NEW kind \in {"trunc", "indx", "mark", "meta"}, Fail(kind)
      PROVE  FALSE
  BY <1>1, NoUnsafeFault
<1>2. CASE DataFails
  BY <1>2, DataFailsSound
<1>3. CASE MetaFails
  <2>1. P \notin fds /\ UNCHANGED suspect /\ op.step # "idle"
    BY <1>1, <1>3 DEF MetaFails, TapeLoaded, ghost
  <2>2. ~Writing
    BY <2>1 DEF Sound, WriteSound
  <2> QED
    BY <1>3, <2>1, <2>2, UnloadingSound
<1>4. CASE CutFails \/ IndxFails \/ MarkFails
  BY <1>1, <1>4 DEF CutFails, IndxFails, MarkFails
<1> QED
  BY <1>2, <1>3, <1>4 DEF Fault

\* So does every file operation of a handler that writes.
LEMMA FileStepSound ==
    ASSUME TypeOK, TypeOK', StepsFit, StepsFit', Sound, FileStep
    PROVE  Sound'
<1>1. CASE MetaHead \/ MetaMap \/ MetaLen
  <2>1. op.step # "idle"
    BY <1>1 DEF MetaHead, MetaMap, MetaLen
  <2> QED
    BY <1>1, <2>1, MetaSound, UnloadingSound
<1>2. CASE ClosePartition
  <2>1. op.step # "idle" /\ ~Writing
    BY <1>2 DEF ClosePartition, StepsFit, Writing
  <2> QED
    BY <1>2, <2>1, UnloadingSound
<1>3. CASE Wipe
  <2>1. Writing
    BY <1>3 DEF Wipe, StepsFit, Writing
  <2> QED
    BY <1>3, <2>1, MetaSound
<1> QED
  BY <1>1, <1>2, <1>3, CutIndxSound, CutDataSound, PutDataSound, PutIndxSound, PutMarkSound,
     NextMarkSound, DataFailsSound, GoneSound DEF FileStep

\* Nothing happens.
LEMMA StutterSound ==
    ASSUME Sound, UNCHANGED vars
    PROVE  Sound'
<1>0. UNCHANGED <<data, indx, torn, eod, head, op, acked, suspect, status, fds>>
  BY DEF vars, disk, drive, ghost
<1>1. FilesSound' /\ NothingBeyond'
  <2>1. ASSUME NEW p \in Part
        PROVE  PartSound(p)'
    <3>1. PartSound(p)
      BY DEF Sound, FilesSound
    <3>2. DataEnd(p)' = DataEnd(p) /\ \A i : DiskItem(p, i)' = DiskItem(p, i)
      BY <1>0 DEF DataEnd, DiskItem, Extent
    <3>3. Numbered(p)' = Numbered(p)
      BY <1>0 DEF Numbered
    <3>4. Backed(p)' = Backed(p)
      BY <1>0, <3>2 DEF Backed, Chained, Ordered
    <3>5. Recalled(p) => Recalled(p)'
      BY <1>0, <3>2 DEF Recalled
    <3> QED
      BY <1>0, <3>1, <3>3, <3>4, <3>5 DEF PartSound
  <2>2. NothingBeyond'
    BY <1>0 DEF Sound, NothingBeyond
  <2> QED
    BY <2>1, <2>2 DEF FilesSound
<1>2. MemorySound'
  BY <1>0 DEF Sound, MemorySound, Known, DataEnd, Writing, P
<1>3. HeadSound'
  BY <1>0 DEF Sound, HeadSound, Writing, Placed, OnHeader, OnEod
<1>4. WriteSound'
  BY <1>0 DEF Sound, WriteSound, Writing, OnHeader, P, BeforeCut, AtEnd, Here, Marked, MetaSteps,
     DataEnd, DiskItem, Extent, Payload
<1> QED
  BY <1>1, <1>2, <1>3, <1>4 DEF Sound

\* The first layer is kept by every step,
LEMMA NextSound ==
    ASSUME IInv, [Next]_vars, TypeOK', StepsFit'
    PROVE  SafeInv'
<1> SUFFICES ASSUME OnlySafeFaults'
             PROVE  Sound'
  BY DEF SafeInv
<1>1. TypeOK /\ StepsFit /\ Sound
  BY SafeBefore DEF IInv, SafeInv
<1>2. CASE \E ro \in BOOLEAN, g \in 0 .. MaxBlocks : Load(ro, g)
  BY <1>1, <1>2, LoadSound
<1> QED
  BY <1>1, <1>2, StartSound, FormatSound, UnloadStartSound, FileStepSound, FaultSound,
     MoveHeadSound, GoneSound, StutterSound DEF Next

\* and holds of a cartridge never mounted.
LEMMA InitSound ==
    ASSUME Init
    PROVE  IInv
<1>1. TypeOK
  BY InitType
<1>2. StepsFit
  BY DEF Init, StepsFit, NoOp, Writing, MetaSteps, CutSteps
<1>3. ~Writing
  BY DEF Init, NoOp, Writing
<1>4. Len(<< >>) = 0 /\ \A i : i \notin 1 .. 0
  BY SMT
<1>5. ASSUME NEW p \in Part
      PROVE  PartSound(p)
  <2>1. p \in Slot /\ indx[p] = << >> /\ acked[p] = << >> /\ ~torn[p]
    BY SlotsApart DEF Init
  <2>2. DataEnd(p) = 0 /\ Len(data[p]) \in Nat
    BY <1>1, <2>1, DataEndType DEF DataEnd
  <2>3. DataEnd(p) <= Len(data[p]) /\ 0 <= 0
    BY <2>2, SMT
  <2> QED
    BY <1>4, <2>1, <2>3 DEF PartSound, Numbered, Backed, Chained, Ordered, Recalled
<1>6. NothingBeyond
  BY SlotsApart DEF Init, NothingBeyond
<1> QED
  BY <1>1, <1>2, <1>3, <1>5, <1>6 DEF IInv, SafeInv, Sound, FilesSound, MemorySound, HeadSound,
     WriteSound, Init

\* With its types and the steps of its handlers it is inductive.
LEMMA NextKeepsIInv ==
    ASSUME IInv, [Next]_vars
    PROVE  IInv'
<1>1. TypeOK'
  BY NextType DEF IInv
<1>2. StepsFit'
  BY NextFits
<1> QED
  BY <1>1, <1>2, NextSound DEF IInv

\* Though data writes fail and the daemon dies between any two file operations, the
\* headers of every partition are numbered and follow each other, the data file holds
\* what they describe, and vtltape remembers where it ends and where its head is:
\* check_for_overwrite(), write_tape_block(), write_filemarks(), load_partition().
THEOREM SafeHolds == Spec => []IInv
BY InitSound, NextKeepsIInv, PTL DEF Spec

\* What the host was told is recorded is what the files hold, at every file
\* operation, though data writes fail and the daemon dies between any two of
\* them: check_for_overwrite() cuts the index first, write_tape_block() and
\* write_filemarks() write it last, and load_partition() starts from it.
THEOREM AckedOnDiskHolds == Spec => []AckedOnDisk
<1>1. ASSUME IInv
      PROVE  AckedOnDisk
  <2>1. TypeOK /\ (OnlySafeFaults => \A p \in Part \ suspect : p \in Slot /\ Recalled(p))
    BY <1>1, SlotsApart DEF IInv, SafeInv, Sound, FilesSound, PartSound
  <2> QED
    BY <2>1, RecalledIsPrefix DEF AckedOnDisk
<1> QED
  BY <1>1, SafeHolds, PTL

-----------------------------------------------------------------------------
(* The second layer: as long as only data writes fail *)

OnlyData == \A i \in DOMAIN failures : failures[i] = "data"

Ascending(m) == \A i, j \in 1 .. Len(m) : i < j => m[i] < m[j]

\* Up to the end of the index, the map m lists the filemarks of partition p.
ListsMarks(p, m) ==
    /\ Ascending(m)
    /\ \A i \in 1 .. Len(m) : m[i] < Len(indx[p]) => indx[p][m[i] + 1].type = "fm"
    /\ \A k \in 1 .. Len(indx[p]) :
          indx[p][k].type = "fm" => \E i \in 1 .. Len(m) : m[i] = k - 1

Listed(p, m) == ListsMarks(p, m) /\ \A i \in 1 .. Len(m) : m[i] < Len(indx[p])

SameMap(f, m) == f.count = Len(m) /\ f.map = m

\* The files of a partition, and the map in memory, of which no handler is at work.
MapAgrees(p) ==
    /\ Len(data[p]) = DataEnd(p)
    /\ mfile[p].count = Len(mfile[p].map) /\ Listed(p, mfile[p].map)
    /\ status = "loaded" => fmap[p] = mfile[p].map

MapSound ==
    /\ suspect = {}
    /\ \A p \in Part : MapAgrees(p) \/ (Writing /\ p = P)

\* The step of rewrite_meta_file() reached.
MetaReached ==
    /\ op.step = "meta_map" =>
          mfile[P].count = Len(fmap[P]) /\ fmap[P] # << >>
    /\ op.step = "meta_len" =>
          /\ mfile[P].count = Len(fmap[P]) /\ Len(fmap[P]) <= Len(mfile[P].map)
          /\ \A i \in 1 .. Len(fmap[P]) : mfile[P].map[i] = fmap[P][i]
    /\ op.step \notin MetaSteps => SameMap(mfile[P], fmap[P])

\* How long the data file is while a handler is at work.
DataReached ==
    /\ op.step = "cut_indx" => Len(data[P]) = DataEnd(P)
    /\ op.step = "put_indx" => Len(data[P]) = head.pos.off + op.len
    /\ op.step \notin CutSteps \cup {"put_indx"} => Len(data[P]) = head.pos.off

MapWritten ==
    Writing =>
        /\ MetaReached /\ DataReached
        /\ IF op.step = "cut_data" THEN ListsMarks(P, fmap[P]) ELSE Listed(P, fmap[P])

MapsSound == MapSound /\ MapWritten

DataInv == OnlyData => MapsSound

DInv == IInv /\ DataInv

-----------------------------------------------------------------------------
(* The filemark map *)

\* Every set of block numbers that is not empty has a least one.
Below == {ss \in Nat \X Nat : ss[1] < ss[2]}

\* (The order of the natural numbers is well-founded.)
LEMMA BelowWellFounded == IsWellFoundedOn(Below, Nat)
BY NatLessThanWellFounded, Zenon DEF OpToRel, Below

\* (It stands for an induction over the blocks of a partition.)
LEMMA LeastNumber ==
    ASSUME NEW S \in SUBSET Nat, S # {}
    PROVE  \E m \in S : \A k \in S : m <= k
<1>1. \E x \in S : \A y \in S : ~(<<y, x>> \in Below)
  BY BelowWellFounded, WFMin
<1>2. \A x \in S, y \in S : y < x => <<y, x>> \in Below
  BY SMT DEF Below
<1>3. \A x \in S, y \in S : ~(y < x) => x <= y
  BY SMT
<1> QED
  BY <1>1, <1>2, <1>3

\* When the search up the map finds nothing, there is nothing at or after blk.
LEMMA NoNextMark ==
    ASSUME TypeOK, NEW p \in Slot, NEW blk \in Nat, ~HasNextMark(p, blk)
    PROVE  \A i \in 1 .. Len(fmap[p]) : fmap[p][i] < blk
<1> DEFINE S == {i \in 1 .. Len(fmap[p]) : fmap[p][i] >= blk}
<1>1. fmap[p] \in Seq(Nat) /\ DOMAIN fmap[p] = 1 .. Len(fmap[p]) /\ Len(fmap[p]) \in Nat
  BY SMT DEF TypeOK
<1>2. \A i \in 1 .. Len(fmap[p]) : fmap[p][i] \in Nat /\ i \in Nat
  BY <1>1, SMT
<1>3. ASSUME S # {}
      PROVE  FALSE
  <2>1. S \in SUBSET Nat
    BY <1>2
  <2>2. PICK i \in S : \A k \in S : i <= k
    BY <1>3, <2>1, LeastNumber
  <2>3. ASSUME NEW j \in 1 .. i - 1
        PROVE  fmap[p][j] < blk
    <3>1. j \in 1 .. Len(fmap[p]) /\ ~(i <= j)
      BY <1>1, SMT
    <3> QED
      BY <1>2, <2>2, <3>1, SMT
  <2> QED
    BY <1>1, <2>3 DEF HasNextMark, IsNextMark
<1> QED
  BY <1>2, <1>3, SMT

\* The filemark SPACE finds is the first one behind the head.
LEMMA NextMarkIs ==
    ASSUME NEW p, NEW blk, HasNextMark(p, blk)
    PROVE  IsNextMark(p, blk, NextMark(p, blk))
BY DEF HasNextMark, NextMark, IsNextMark

\* The map lists exactly the filemarks.
LEMMA ListedIsMarksListed ==
    ASSUME TypeOK, NEW p \in Slot, NEW m \in Seq(Nat), Listed(p, m)
    PROVE  MarksListed(p, m)
<1>1. Len(indx[p]) \in Nat /\ Len(m) \in Nat
  BY DataEndType, SMT
<1>2. ASSUME NEW i \in 1 .. Len(m)
      PROVE  \E k \in 1 .. Len(indx[p]) : indx[p][k].type = "fm" /\ m[i] = k - 1
  <2>1. m[i] \in Nat /\ m[i] < Len(indx[p]) /\ indx[p][m[i] + 1].type = "fm"
    <3>1. m[i] \in Nat
      BY SMT
    <3> QED
      BY <3>1 DEF Listed, ListsMarks
  <2>2. m[i] + 1 \in 1 .. Len(indx[p]) /\ m[i] = (m[i] + 1) - 1
    BY <1>1, <2>1, SMT
  <2> QED
    BY <2>1, <2>2
<1>3. {m[i] : i \in 1 .. Len(m)} =
          {i - 1 : i \in {k \in 1 .. Len(indx[p]) : indx[p][k].type = "fm"}}
  BY <1>2 DEF Listed, ListsMarks
<1> QED
  BY <1>3 DEF MarksListed, Listed, ListsMarks, Ascending

\* A map lists what it listed while the index stays.
LEMMA ListedKept ==
    ASSUME NEW p, NEW m, Listed(p, m), indx'[p] = indx[p]
    PROVE  \A l : l = m => Listed(p, l)'
BY DEF Listed, ListsMarks

\* A partition whose files and whose map in memory a step leaves alone.
LEMMA MapFrame ==
    ASSUME NEW p, MapAgrees(p), indx'[p] = indx[p], data'[p] = data[p],
           mfile'[p].count = mfile[p].count, mfile'[p].map = mfile[p].map,
           status' = "loaded" => status = "loaded" /\ fmap'[p] = fmap[p]
    PROVE  MapAgrees(p)'
<1>1. DataEnd(p)' = DataEnd(p)
  BY DEF DataEnd
<1>2. Listed(p, mfile[p].map)'
  BY DEF MapAgrees, Listed, ListsMarks
<1> QED
  BY <1>1, <1>2 DEF MapAgrees

\* Steps of which no handler that writes is the author.
LEMMA QuietMaps ==
    ASSUME MapSound, ~Writing, ~Writing', UNCHANGED <<data, indx, suspect>>,
           \A p \in Part : mfile'[p].count = mfile[p].count /\ mfile'[p].map = mfile[p].map,
           status' = "loaded" => status = "loaded" /\ fmap' = fmap
    PROVE  MapsSound'
<1>1. \A p \in Part : MapAgrees(p)'
  BY MapFrame DEF MapSound
<1> QED
  BY <1>1 DEF MapsSound, MapSound, MapWritten

\* Commands that write nothing leave the maps.
LEMMA MovesMaps ==
    ASSUME TypeOK, StepsFit, MapsSound,
           MoveHead \/ UnloadStart \/ WriteRefused \/ ClosePartition \/ Unload
    PROVE  MapsSound'
<1> USE DEF disk, drive, ghost
<1>1. CASE MoveHead \/ UnloadStart \/ WriteRefused
  <2>1. /\ op = NoOp /\ UNCHANGED <<data, indx, mfile, suspect, status, fmap>>
        /\ op' = op \/ op'.kind = "unload"
    BY <1>1 DEF StepsFit, MoveHead, Rewind, SpaceEod, ReadBlock, LoadAgain, SpaceBlocks, SpaceMarks,
       Locate, Move, Ready, Idle, UnloadStart, WriteRefused, NoOp
  <2>2. ~Writing /\ ~Writing'
    BY <2>1 DEF Writing, NoOp
  <2> QED
    BY <2>1, <2>2, QuietMaps DEF MapsSound
<1>2. CASE ClosePartition \/ Unload
  <2>1. /\ op.kind = "unload" /\ UNCHANGED <<data, indx, mfile, suspect>>
        /\ \/ op'.kind = "unload" /\ fmap' = fmap /\ status' = status
           \/ op' = NoOp /\ status' = "unloaded"
    <3>1. op.kind = "unload" /\ op \in OpType
      BY <1>2 DEF ClosePartition, Unload, StepsFit, TypeOK
    <3> QED
      BY <1>2, <3>1 DEF ClosePartition, Unload, OpType
  <2>2. ~Writing /\ ~Writing'
    BY <2>1 DEF Writing, NoOp
  <2> QED
    BY <2>1, <2>2, QuietMaps DEF MapsSound
<1> QED
  BY <1>1, <1>2

\* unload_tape() rewrites a map that is on disk already.
LEMMA UnloadingMaps ==
    ASSUME TypeOK, StepsFit, MapsSound, ~Writing, op.step # "idle",
           \/ MetaHead \/ MetaMap \/ MetaLen
           \/ MetaFails /\ UNCHANGED suspect
    PROVE  MapsSound'
<1> USE DEF disk, drive, ghost
<1>1. op.kind = "unload" /\ status = "loaded" /\ op \in OpType /\ ~op.cut
  BY DEF StepsFit, TypeOK, OpType, Kinds, Writing
<1>2. UNCHANGED <<data, indx, fmap, suspect, status>> /\ P \in Slot
  BY HeadFields DEF MetaHead, MetaMap, MetaLen, MetaFails
<1>3. op'.kind = "unload"
  BY <1>1 DEF MetaHead, MetaMap, MetaLen, MetaFails, OpType
<1>4. ASSUME NEW p \in Part
      PROVE  mfile'[p].count = mfile[p].count /\ mfile'[p].map = mfile[p].map
  <2>1. /\ mfile[p].count = Len(mfile[p].map) /\ fmap[p] = mfile[p].map
        /\ mfile[p] \in [count : Nat, map : Seq(Nat)] /\ p \in Slot
        /\ mfile \in [Slot -> [count : Nat, map : Seq(Nat)]]
    BY <1>1, SlotsApart DEF MapsSound, MapSound, MapAgrees, TypeOK
  <2>2. CASE p # P \/ MetaFails
    BY <2>1, <2>2 DEF MetaHead, MetaMap, MetaLen, MetaFails
  <2>3. CASE p = P /\ MetaHead
    BY <2>1, <2>3 DEF MetaHead
  <2> DEFINE m == mfile[p].map
  <2>4. m \in Seq(Nat)
    BY <2>1
  <2>5. CASE p = P /\ MetaMap
    <3>1. mfile'[p].count = mfile[p].count /\
          mfile'[p].map = [i \in 1 .. Larger(Len(m), Len(m)) |-> IF i <= Len(m) THEN m[i] ELSE m[i]]
      BY <2>1, <2>5 DEF MetaMap
    <3>2. [i \in 1 .. Larger(Len(m), Len(m)) |-> IF i <= Len(m) THEN m[i] ELSE m[i]] = m
      <4> HIDE DEF m
      <4> QED
        BY <2>4, SMT DEF Larger
    <3> QED
      BY <3>1, <3>2
  <2>6. CASE p = P /\ MetaLen
    <3>1. mfile'[p].count = mfile[p].count /\ mfile'[p].map = FTruncate(m, Len(m), 0)
      BY <2>1, <2>6 DEF MetaLen
    <3>2. FTruncate(m, Len(m), 0) = m
      <4> HIDE DEF m
      <4> QED
        BY <2>4, SMT DEF FTruncate
    <3> QED
      BY <3>1, <3>2
  <2> QED
    BY <2>2, <2>3, <2>5, <2>6
<1>5. ~Writing'
  BY <1>3 DEF Writing
<1> QED
  BY <1>1, <1>2, <1>4, <1>5, QuietMaps DEF MapsSound

\* load_partition() reads the map that was written, and finds nothing amiss.
LEMMA LoadMaps ==
    ASSUME TypeOK, StepsFit, Sound, MapsSound,
           NEW ro \in BOOLEAN, NEW g \in 0 .. MaxBlocks, Load(ro, g)
    PROVE  MapsSound'
<1> USE DEF disk
<1>1. op = NoOp /\ UNCHANGED <<data, indx, mfile, torn, op>>
  BY DEF Load, Idle, StepsFit
<1>2. ~Writing /\ ~Writing' /\ suspect = {}
  BY <1>1 DEF Writing, NoOp, MapsSound, MapSound
<1>3. ASSUME NEW p \in Part
      PROVE  MapAgrees(p)' /\ ~torn[p] /\ ~BadMap(p, g)
  <2> DEFINE m == mfile[p].map
  <2>1. /\ MapAgrees(p) /\ ~torn[p] /\ p \in Slot /\ m \in Seq(Nat)
        /\ mfile[p].count = Len(m) /\ Listed(p, m)
    BY <1>2, SlotsApart DEF MapsSound, MapSound, MapAgrees, TypeOK, Sound, FilesSound, PartSound
  <2>2. LoadedMap(p, g) = m
    <3>1. LoadedMap(p, g) = [i \in 1 .. Len(m) |-> IF i <= Len(m) THEN m[i] ELSE g]
      BY <2>1 DEF LoadedMap
    <3>2. [i \in 1 .. Len(m) |-> IF i <= Len(m) THEN m[i] ELSE g] = m
      <4> HIDE DEF m
      <4> QED
        BY <2>1, SMT
    <3> QED
      BY <3>1, <3>2
  <2>3. ~BadMap(p, g)
    <3>1. ASSUME m # << >>
          PROVE  ~(m[Len(m)] >= Len(indx[p]))
      <4>1. Len(m) \in 1 .. Len(m) /\ m[Len(m)] \in Nat
        <5> HIDE DEF m
        <5> QED
          BY <2>1, <3>1, SMT
      <4>2. m[Len(m)] < Len(indx[p]) /\ Len(indx[p]) \in Nat
        BY <2>1, <4>1, DataEndType DEF Listed
      <4> QED
        BY <4>1, <4>2, SMT
    <3> QED
      BY <2>2, <3>1 DEF BadMap
  <2>4. fmap'[p] = m
    BY <2>1, <2>2 DEF Load
  <2>5. Listed(p, mfile[p].map)' /\ DataEnd(p)' = DataEnd(p)
    BY <1>1, <2>1 DEF Listed, ListsMarks, DataEnd
  <2> QED
    BY <1>1, <2>1, <2>3, <2>4, <2>5 DEF MapAgrees
<1>4. suspect' = {}
  BY <1>2, <1>3 DEF Load
<1> QED
  BY <1>2, <1>3, <1>4 DEF MapsSound, MapSound, MapWritten

\* FORMAT MEDIUM empties them with the files.
LEMMA FormatMaps ==
    ASSUME TypeOK, StepsFit, MapsSound, Format
    PROVE  MapsSound'
<1>1. op = NoOp /\ op' = op /\ suspect' = suspect
  BY DEF Format, Ready, Idle, StepsFit, ghost
<1>2. ASSUME NEW p \in Part
      PROVE  MapAgrees(p)'
  <2>1. /\ indx'[p] = << >> /\ data'[p] = << >> /\ fmap'[p] = << >>
        /\ mfile'[p] = [count |-> 0, map |-> << >>]
    BY SlotsApart DEF Format
  <2>2. Len(<< >>) = 0 /\ \A i : i \notin 1 .. 0
    BY SMT
  <2>3. Listed(p, mfile[p].map)'
    BY <2>1, <2>2 DEF Listed, ListsMarks, Ascending
  <2> QED
    BY <2>1, <2>2, <2>3 DEF MapAgrees, DataEnd
<1>3. ~Writing'
  BY <1>1, KindsApart
<1> QED
  BY <1>1, <1>2, <1>3 DEF MapsSound, MapSound, MapWritten

\* A handler that writes touches the maps of its own partition only.
LEMMA MapsFrame ==
    ASSUME TypeOK, StepsFit, Sound, MapsSound, status = "loaded", Writing \/ Writing',
           P \in Part, P' = P, UNCHANGED <<status, suspect>>,
           \A p \in Slot \ {P} :
               /\ indx'[p] = indx[p] /\ data'[p] = data[p]
               /\ mfile'[p] = mfile[p] /\ fmap'[p] = fmap[p],
           Writing' \/ MapAgrees(P)', MapWritten'
    PROVE  MapsSound'
<1>1. ASSUME NEW p \in Part \ {P}
      PROVE  MapAgrees(p)'
  <2>1. p \in Slot \ {P} /\ MapAgrees(p)
    BY SlotsApart DEF MapsSound, MapSound
  <2> QED
    BY <2>1, MapFrame
<1> QED
  BY <1>1 DEF MapsSound, MapSound

\* A handler starts with the map of the index it found.
LEMMA StartMaps ==
    ASSUME TypeOK, TypeOK', StepsFit, Sound, Sound', MapsSound, StartWrite
    PROVE  MapsSound'
<1> USE DEF disk, drive, ghost
<1>1. /\ op = NoOp /\ status = "loaded" /\ P \in fds /\ P \in Part /\ P \in Slot
      /\ UNCHANGED <<data, indx, mfile, fmap, status, suspect>> /\ head'.pos = head.pos
  <2>1. op = NoOp /\ status = "loaded" /\ P \in fds
    BY DEF StartWrite, WriteBlock, WriteMarks, Erase, Ready, Idle, StepsFit, TapeLoaded
  <2>2. UNCHANGED <<data, indx, mfile, fmap, status, suspect>> /\ head'.pos = head.pos
    BY DEF StartWrite, WriteBlock, WriteMarks, Erase, TypeOK, HeadType
  <2> QED
    BY <2>1, <2>2, SlotsApart DEF TypeOK
<1>2. op'.kind \in {"write", "mark", "erase"} /\ op'.step \in {"put_data", "put_mark", "wipe", "cut_indx"}
  BY DEF StartWrite, WriteBlock, WriteMarks, Erase, Begin
<1>3. Writing' /\ P' = P
  BY <1>1, <1>2 DEF Writing, P
<1>4. MapAgrees(P) /\ suspect = {}
  BY <1>1 DEF MapsSound, MapSound, Writing, NoOp
<1>5. op'.step # "cut_indx" => Len(data[P]) = head.pos.off
  <2>1. op'.step # "cut_indx" => AtEnd'
    BY <1>3 DEF Sound, WriteSound
  <2>2. op'.step # "cut_indx" => head'.pos.off = DataEnd(P)'
    BY <1>1, <1>3, <1>4, <2>1 DEF AtEnd
  <2>3. DataEnd(P)' = DataEnd(P)
    BY <1>1, <1>3 DEF DataEnd
  <2> QED
    BY <1>1, <1>4, <2>2, <2>3 DEF MapAgrees
<1>6. MapWritten'
  <2>1. MetaReached'
    BY <1>1, <1>2, <1>3, <1>4 DEF MetaReached, MetaSteps, SameMap, MapAgrees
  <2>2. DataReached'
    <3>1. DataEnd(P)' = DataEnd(P)
      BY <1>1, <1>3 DEF DataEnd
    <3> QED
      BY <1>1, <1>2, <1>3, <1>4, <1>5, <3>1 DEF DataReached, CutSteps, MapAgrees
  <2>3. Listed(P, fmap[P])'
    BY <1>1, <1>3, <1>4 DEF MapAgrees, Listed, ListsMarks
  <2> QED
    BY <1>2, <2>1, <2>2, <2>3 DEF MapWritten
<1> QED
  BY <1>1, <1>3, <1>6, MapsFrame

\* check_for_overwrite(): the map outlives the index until it is cut as well.
LEMMA CutIndxMaps ==
    ASSUME TypeOK, TypeOK', StepsFit, Sound, MapsSound, CutIndx
    PROVE  MapsSound'
<1> USE DEF drive, ghost
<1> DEFINE n == head.pos.num
<1>1. op.step = "cut_indx" /\ Writing
  BY DEF CutIndx, StepsFit, CutSteps
<1>2. /\ P \in Part /\ P \in Slot /\ status = "loaded" /\ op \in OpType /\ BeforeCut /\ MapWritten
  BY <1>1, WritingFacts DEF Sound, WriteSound, MapsSound
<1>3. /\ op'.kind = op.kind /\ op'.step = "cut_data"
      /\ UNCHANGED <<data, mfile, fmap, head, suspect, status>> /\ P' = P
      /\ indx' = [indx EXCEPT ![P] = CutIndxFile]
  BY <1>2 DEF CutIndx, OpType, P
<1>4. indx[P] \in Seq(Header) /\ n \in Nat /\ n < Len(indx[P]) /\ Len(indx[P]) \in Nat
  BY <1>2, HeadFields, DataEndType DEF BeforeCut, OnHeader, P, TypeOK
<1>5. Len(indx'[P]) = n /\ \A i \in 1 .. n : indx'[P][i] = indx[P][i]
  <2>1. indx'[P] = FTruncate(indx[P], n, ZeroHeader)
    BY <1>2, <1>3 DEF CutIndxFile, TypeOK
  <2>2. n <= Len(indx[P])
    BY <1>4, SMT
  <2> QED
    BY <1>4, <2>1, <2>2, TruncateKeeps
<1>6. Writing'
  BY <1>1, <1>3 DEF Writing
<1>7. ListsMarks(P, fmap[P]) /\ SameMap(mfile[P], fmap[P])
  BY <1>1, <1>2 DEF MapWritten, Listed, MetaReached, MetaSteps
<1>8. ListsMarks(P, fmap[P])'
  <2>1. fmap[P] \in Seq(Nat)
    BY <1>2 DEF TypeOK
  <2>2. \A i \in 1 .. Len(fmap[P]) : fmap[P][i] \in Nat
    BY <2>1, SMT
  <2>3. \A x \in Nat : x < n => x < Len(indx[P]) /\ x + 1 \in 1 .. n
    BY <1>4, SMT
  <2>4. \A k \in 1 .. n : k \in 1 .. Len(indx[P])
    BY <1>4, SMT
  <2>5. /\ Ascending(fmap[P])
        /\ \A i \in 1 .. Len(fmap[P]) : fmap[P][i] < n => indx'[P][fmap[P][i] + 1].type = "fm"
        /\ \A k \in 1 .. n : indx'[P][k].type = "fm" => \E i \in 1 .. Len(fmap[P]) : fmap[P][i] = k - 1
    BY <1>5, <1>7, <2>2, <2>3, <2>4 DEF ListsMarks
  <2> QED
    BY <1>3, <1>5, <2>5 DEF ListsMarks, Ascending
<1>9. MapWritten'
  BY <1>3, <1>7, <1>8 DEF MapWritten, MetaReached, DataReached, MetaSteps, CutSteps, SameMap
<1>10. \A p \in Slot \ {P} :
          /\ indx'[p] = indx[p] /\ data'[p] = data[p] /\ mfile'[p] = mfile[p] /\ fmap'[p] = fmap[p]
  BY <1>2, <1>3 DEF TypeOK
<1> QED
  BY <1>1, <1>2, <1>3, <1>6, <1>9, <1>10, MapsFrame

\* ftruncate() of the data file changes no map.
LEMMA CutDataMaps ==
    ASSUME TypeOK, TypeOK', StepsFit, Sound, MapsSound, CutData
    PROVE  MapsSound'
<1> USE DEF drive, ghost
<1> DEFINE n == head.pos.num
           m == fmap[P]
<1>1. op.step = "cut_data" /\ Writing
  BY DEF CutData, StepsFit, CutSteps
<1>2. /\ P \in Part /\ P \in Slot /\ status = "loaded" /\ op \in OpType /\ AtEnd /\ MapWritten
  BY <1>1, WritingFacts DEF MapsSound
<1>3. Len(indx[P]) = n /\ n \in Nat /\ m \in Seq(Nat) /\ Len(m) \in Nat /\ DOMAIN m = 1 .. Len(m)
  <2>1. Len(indx[P]) = n
    BY <1>1, <1>2 DEF AtEnd, Here, StepsFit, CutSteps
  <2>2. m \in Seq(Nat) /\ n \in Nat
    BY <1>2, HeadFields DEF TypeOK
  <2> HIDE DEF m
  <2> QED
    BY <2>1, <2>2, SMT
<1>4. /\ UNCHANGED <<indx, mfile, head, suspect, status>> /\ P' = P
      /\ data' = [data EXCEPT ![P] = CutDataFile] /\ op'.kind = op.kind
  BY <1>2 DEF CutData, OpType, P
<1>5. Writing' /\ ListsMarks(P, m) /\ SameMap(mfile[P], m)
  BY <1>1, <1>2, <1>4 DEF Writing, MapWritten, MetaReached, MetaSteps
<1>6. Len(data'[P]) = head.pos.off
  <2>1. data'[P] = FTruncate(data[P], head.pos.off, Hole) /\ head.pos.off \in Nat
    BY <1>2, <1>4, HeadFields DEF CutDataFile, TypeOK
  <2> QED
    BY <2>1, SMT DEF FTruncate
<1>7. \A i \in 1 .. Len(m) : m[i] \in Nat /\ i \in Nat
  BY <1>3, SMT
<1>8. CASE HasNextMark(P, n)
  <2> DEFINE j == NextMark(P, n)
             l == UpTo(m, j - 1)
  <2>1. /\ op'.step = "meta_head" /\ fmap' = [fmap EXCEPT ![P] = l]
    BY <1>2, <1>8 DEF CutData, KeptMarks, OpType
  <2>2. j \in 1 .. Len(m) /\ m[j] >= n /\ \A i \in 1 .. j - 1 : m[i] < n
    BY <1>3, <1>8, NextMarkIs DEF IsNextMark
  <2>3. j - 1 \in Nat /\ j - 1 <= Len(m)
    BY <1>3, <2>2, SMT
  <2>4. Len(l) = j - 1 /\ \A i \in 1 .. j - 1 : l[i] = m[i]
    BY <1>3, <2>3, UpToKeeps
  <2>5. \A i \in 1 .. j - 1 : i \in 1 .. Len(m)
    BY <1>3, <2>2, SMT
  <2> HIDE DEF l
  <2>6. Ascending(l)
    BY <1>5, <2>4, <2>5 DEF Ascending, ListsMarks
  <2>7. \A i \in 1 .. Len(l) : l[i] < n /\ indx[P][l[i] + 1].type = "fm"
    BY <1>3, <1>5, <2>2, <2>4, <2>5 DEF ListsMarks
  <2>8. ASSUME NEW k \in 1 .. n, indx[P][k].type = "fm"
        PROVE  \E i \in 1 .. Len(l) : l[i] = k - 1
    <3>1. PICK i \in 1 .. Len(m) : m[i] = k - 1
      BY <1>3, <1>5, <2>8 DEF ListsMarks
    <3>2. i \in 1 .. j - 1
      <4>1. m[i] < m[j]
        BY <1>3, <1>7, <2>2, <3>1, SMT
      <4>2. ~(j < i) /\ j # i
        <5>1. j < i => m[j] < m[i]
          BY <1>5, <2>2 DEF ListsMarks, Ascending
        <5> QED
          BY <1>7, <2>2, <4>1, <5>1, SMT
      <4> QED
        BY <1>3, <2>2, <4>2, SMT
    <3> QED
      BY <2>4, <3>1, <3>2
  <2>9. fmap'[P] = l
    BY <1>2, <2>1 DEF TypeOK
  <2>10. Listed(P, fmap[P])'
    BY <1>3, <1>4, <2>6, <2>7, <2>8, <2>9 DEF Listed, ListsMarks, Ascending
  <2>11. MapWritten'
    BY <1>4, <1>6, <2>1, <2>10 DEF MapWritten, MetaReached, DataReached, MetaSteps, CutSteps
  <2>12. \A p \in Slot \ {P} :
          /\ indx'[p] = indx[p] /\ data'[p] = data[p] /\ mfile'[p] = mfile[p] /\ fmap'[p] = fmap[p]
    BY <1>2, <1>4, <2>1 DEF TypeOK
  <2> QED
    BY <1>1, <1>2, <1>4, <1>5, <2>11, <2>12, MapsFrame
<1>9. CASE ~HasNextMark(P, n)
  <2>1. op'.step \in {"put_data", "put_mark", "wipe"} /\ fmap' = fmap
    BY <1>2, <1>9 DEF CutData, AfterCut, OpType
  <2>2. \A i \in 1 .. Len(m) : m[i] < n
    BY <1>2, <1>3, <1>9, NoNextMark
  <2>3. Listed(P, fmap[P])'
    BY <1>3, <1>4, <1>5, <2>1, <2>2 DEF Listed, ListsMarks
  <2>4. MapWritten'
    BY <1>4, <1>5, <1>6, <2>1, <2>3 DEF MapWritten, MetaReached, DataReached, MetaSteps, CutSteps, SameMap
  <2>5. \A p \in Slot \ {P} :
          /\ indx'[p] = indx[p] /\ data'[p] = data[p] /\ mfile'[p] = mfile[p] /\ fmap'[p] = fmap[p]
    BY <1>2, <1>4, <2>1 DEF TypeOK
  <2> QED
    BY <1>1, <1>2, <1>4, <1>5, <2>4, <2>5, MapsFrame
<1> QED
  BY <1>8, <1>9

\* rewrite_meta_file(): the count, the map, then the length.
LEMMA MetaMaps ==
    ASSUME TypeOK, TypeOK', StepsFit, Sound, MapsSound, Writing, MetaHead \/ MetaMap \/ MetaLen
    PROVE  MapsSound'
<1> USE DEF drive, ghost
<1> DEFINE m == fmap[P]
           f == mfile[P].map
<1>1. /\ P \in Part /\ P \in Slot /\ status = "loaded" /\ op \in OpType /\ MapWritten
      /\ op.kind \in {"write", "mark", "erase"} /\ op.step \in MetaSteps
  BY WritingFacts DEF MapsSound, MetaHead, MetaMap, MetaLen, MetaSteps, Writing
<1>2. /\ UNCHANGED <<data, indx, head, fmap, suspect, status>> /\ P' = P
      /\ op'.kind = op.kind /\ Writing'
  BY <1>1 DEF MetaHead, MetaMap, MetaLen, OpType, P, Writing
<1>3. Listed(P, m) /\ Len(data[P]) = head.pos.off /\ MetaReached
  BY <1>1 DEF MapWritten, DataReached, MetaSteps, CutSteps, Writing
<1>4. Listed(P, fmap[P])'
  BY <1>2, <1>3 DEF Listed, ListsMarks
<1>5. /\ m \in Seq(Nat) /\ f \in Seq(Nat) /\ mfile \in [Slot -> [count : Nat, map : Seq(Nat)]]
  BY <1>1 DEF TypeOK
<1>6. \A p \in Slot \ {P} :
          /\ indx'[p] = indx[p] /\ data'[p] = data[p] /\ mfile'[p] = mfile[p] /\ fmap'[p] = fmap[p]
  BY <1>1, <1>2 DEF TypeOK, MetaHead, MetaMap, MetaLen
<1>7. CASE MetaHead
  <2>1. /\ mfile'[P].count = Len(m) /\ mfile'[P].map = f
        /\ op'.step = IF m = << >> THEN "meta_len" ELSE "meta_map"
    BY <1>1, <1>5, <1>7 DEF MetaHead, OpType
  <2>2. m = << >> => Len(m) <= Len(f) /\ \A i : i \notin 1 .. Len(m)
    <3> HIDE DEF f
    <3> QED
      BY <1>5, SMT
  <2>3. MetaReached'
    BY <1>2, <2>1, <2>2 DEF MetaReached, MetaSteps
  <2>4. MapWritten'
    BY <1>2, <1>3, <1>4, <2>1, <2>3 DEF MapWritten, DataReached, CutSteps
  <2> QED
    BY <1>1, <1>2, <1>6, <2>4, MapsFrame
<1>8. CASE MetaMap
  <2> DEFINE g == [i \in 1 .. Larger(Len(f), Len(m)) |-> IF i <= Len(m) THEN m[i] ELSE f[i]]
  <2>1. /\ mfile'[P].count = mfile[P].count /\ mfile'[P].map = g /\ op'.step = "meta_len"
        /\ mfile[P].count = Len(m)
    BY <1>1, <1>3, <1>5, <1>8 DEF MetaMap, OpType, MetaReached
  <2>2. Len(m) <= Len(g) /\ \A i \in 1 .. Len(m) : g[i] = m[i]
    <3> HIDE DEF f, m
    <3>1. Len(m) \in Nat /\ Larger(Len(f), Len(m)) \in Nat /\ Larger(Len(f), Len(m)) >= Len(m)
      BY <1>5, SMT DEF Larger
    <3>2. Len(g) = Larger(Len(f), Len(m))
      BY <3>1, SMT
    <3> QED
      BY <3>1, <3>2, SMT
  <2> HIDE DEF g
  <2>3. MetaReached'
    BY <1>2, <2>1, <2>2 DEF MetaReached, MetaSteps
  <2>4. MapWritten'
    BY <1>2, <1>3, <1>4, <2>1, <2>3 DEF MapWritten, DataReached, CutSteps
  <2> QED
    BY <1>1, <1>2, <1>6, <2>4, MapsFrame
<1>9. CASE MetaLen
  <2>1. /\ mfile'[P].count = Len(m) /\ mfile'[P].map = FTruncate(f, Len(m), 0)
        /\ op'.step = AfterMeta
        /\ Len(m) <= Len(f) /\ \A i \in 1 .. Len(m) : f[i] = m[i]
    BY <1>1, <1>3, <1>5, <1>9 DEF MetaLen, OpType, MetaReached
  <2>2. FTruncate(f, Len(m), 0) = m
    <3> HIDE DEF f, m
    <3> QED
      BY <1>5, <2>1, SMT DEF FTruncate
  <2>3. op'.step \in {"put_data", "put_mark", "wipe", "marked", "wiped"}
    <3>1. op.kind = "write" => op.cut
      BY <1>1 DEF StepsFit
    <3> QED
      BY <1>1, <2>1, <3>1 DEF AfterMeta, AfterCut
  <2>4. MetaReached'
    BY <1>2, <2>1, <2>2, <2>3 DEF MetaReached, MetaSteps, SameMap
  <2>5. MapWritten'
    BY <1>2, <1>3, <1>4, <2>3, <2>4 DEF MapWritten, DataReached, CutSteps
  <2> QED
    BY <1>1, <1>2, <1>6, <2>5, MapsFrame
<1> QED
  BY <1>7, <1>8, <1>9

\* Neither does the pwrite() of a block.
LEMMA PutDataMaps ==
    ASSUME TypeOK, TypeOK', StepsFit, Sound, MapsSound, PutData
    PROVE  MapsSound'
<1> USE DEF drive, ghost
<1>1. op.step = "put_data" /\ op.kind = "write" /\ Writing
  BY DEF PutData, StepsFit, Writing
<1>2. /\ P \in Part /\ P \in Slot /\ status = "loaded" /\ op \in OpType /\ MapWritten
      /\ data[P] \in Seq(Cell) /\ head.pos.off \in Nat /\ op.len \in Nat
  BY <1>1, WritingFacts, HeadFields DEF MapsSound, TypeOK
<1>3. /\ UNCHANGED <<indx, mfile, fmap, head, suspect, status>> /\ P' = P
      /\ op'.kind = op.kind /\ op'.step = "put_indx" /\ op'.len = op.len /\ Writing'
      /\ data' = [data EXCEPT ![P] = PutDataFile]
  BY <1>1, <1>2 DEF PutData, OpType, P, Writing
<1>4. Len(data[P]) = head.pos.off /\ SameMap(mfile[P], fmap[P]) /\ Listed(P, fmap[P])
  BY <1>1, <1>2 DEF MapWritten, DataReached, MetaReached, MetaSteps, CutSteps
<1>5. Len(data'[P]) = head.pos.off + op.len
  <2>1. data'[P] = PWrite(data[P], head.pos.off, op.len, op.val, Hole)
    BY <1>2, <1>3 DEF PutDataFile, TypeOK
  <2>2. head.pos.off <= Len(data[P])
    BY <1>2, <1>4, SMT
  <2>3. Len(data'[P]) = Larger(Len(data[P]), head.pos.off + op.len)
    BY <1>2, <2>1, <2>2, WriteKeeps
  <2> QED
    BY <1>2, <1>4, <2>3, SMT DEF Larger
<1>6. Listed(P, fmap[P])'
  BY <1>3, <1>4 DEF Listed, ListsMarks
<1>7. MapWritten'
  BY <1>3, <1>4, <1>5, <1>6 DEF MapWritten, DataReached, MetaReached, MetaSteps, CutSteps, SameMap
<1>8. \A p \in Slot \ {P} :
          /\ indx'[p] = indx[p] /\ data'[p] = data[p] /\ mfile'[p] = mfile[p] /\ fmap'[p] = fmap[p]
  BY <1>2, <1>3 DEF TypeOK
<1> QED
  BY <1>1, <1>2, <1>3, <1>7, <1>8, MapsFrame

\* ERASE starts at the beginning, where no filemark is left.
LEMMA WipeMaps ==
    ASSUME TypeOK, TypeOK', StepsFit, Sound, MapsSound, Wipe
    PROVE  MapsSound'
<1> USE DEF drive, ghost, disk
<1>1. op.step = "wipe" /\ op.kind = "erase" /\ Writing
  BY DEF Wipe, StepsFit, Writing
<1>2. /\ P \in Part /\ P \in Slot /\ status = "loaded" /\ op \in OpType /\ MapWritten /\ AtEnd
  BY <1>1, WritingFacts DEF MapsSound
<1>3. /\ UNCHANGED <<data, indx, mfile, head, suspect, status>> /\ P' = P
      /\ op'.kind = op.kind /\ op'.step = "meta_head" /\ Writing'
      /\ fmap' = [fmap EXCEPT ![P] = << >>]
  BY <1>1, <1>2 DEF Wipe, OpType, P, Writing
<1>4. Len(indx[P]) = 0 /\ Len(data[P]) = head.pos.off
  BY <1>1, <1>2 DEF AtEnd, Here, StepsFit, MapWritten, DataReached, CutSteps
<1>5. Listed(P, fmap[P])'
  <2>1. Len(<< >>) = 0 /\ \A i : i \notin 1 .. 0
    BY SMT
  <2>2. fmap'[P] = << >>
    BY <1>2, <1>3 DEF TypeOK
  <2> QED
    BY <1>3, <1>4, <2>1, <2>2 DEF Listed, ListsMarks, Ascending
<1>6. MapWritten'
  BY <1>3, <1>4, <1>5 DEF MapWritten, DataReached, MetaReached, MetaSteps, CutSteps
<1>7. \A p \in Slot \ {P} :
          /\ indx'[p] = indx[p] /\ data'[p] = data[p] /\ mfile'[p] = mfile[p] /\ fmap'[p] = fmap[p]
  BY <1>2, <1>3 DEF TypeOK
<1> QED
  BY <1>1, <1>2, <1>3, <1>6, <1>7, MapsFrame

\* A handler that ends: the data file is as long as the end of data says.
LEMMA EndsMaps ==
    ASSUME TypeOK, TypeOK', StepsFit, Sound, Sound', MapsSound, Writing, op' = NoOp,
           UNCHANGED <<suspect, status, mfile, fmap>>, P' = P,
           SameMap(mfile[P], fmap[P]), Listed(P, fmap[P])',
           Len(data'[P]) = eod'[P].off,
           \A p \in Slot \ {P} : indx'[p] = indx[p] /\ data'[p] = data[p]
    PROVE  MapsSound'
<1>1. P \in Part /\ P \in Slot /\ status = "loaded" /\ suspect = {}
  BY WritingFacts DEF MapsSound, MapSound
<1>2. ~Writing'
  BY KindsApart
<1>3. Known(P)'
  BY <1>1, <1>2 DEF Sound, MemorySound
<1>4. Len(data'[P]) = DataEnd(P)'
  BY <1>1, <1>3 DEF Known
<1>5. MapAgrees(P)'
  BY <1>4 DEF MapAgrees, SameMap
<1> QED
  BY <1>1, <1>2, <1>5, MapsFrame DEF MapWritten

\* The last file operation of a handler leaves a map that lists its index.
LEMMA WrittenMaps ==
    ASSUME TypeOK, TypeOK', StepsFit, Sound, Sound', MapsSound,
           \/ DataFails \/ Wiped \/ PutIndx
           \/ NextMarkOrDone /\ ~(op.n > 1)
    PROVE  MapsSound'
<1> USE DEF drive, ghost, disk
<1>1. op.step \in {"put_data", "put_indx", "wiped", "marked"} /\ Writing
  BY DEF DataFails, Wiped, PutIndx, NextMarkOrDone, StepsFit, Writing
<1>2. /\ P \in Part /\ P \in Slot /\ MapWritten /\ head.pos.off \in Nat /\ op.len \in Nat /\ AtEnd
      /\ PartSound(P)
  BY <1>1, WritingFacts, HeadFields DEF MapsSound
<1>3. /\ UNCHANGED <<mfile, fmap, suspect, status>> /\ op' = NoOp
      /\ \E num, off : AtEod(num, off) /\ off = IF PutIndx THEN head.pos.off + op.len ELSE head.pos.off
  <2>1. CASE PutIndx
    BY <2>1 DEF PutIndx
  <2>2. CASE ~PutIndx
    BY <2>2 DEF DataFails, Wiped, NextMarkOrDone, Fail
  <2> QED
    BY <2>1, <2>2
<1>4. P' = P /\ eod'[P].off = IF PutIndx THEN head.pos.off + op.len ELSE head.pos.off
  BY <1>2, <1>3 DEF AtEod, EodHead, P, TypeOK
<1>5. SameMap(mfile[P], fmap[P]) /\ Listed(P, fmap[P])
  BY <1>1, <1>2 DEF MapWritten, MetaReached, MetaSteps
<1>6. CASE PutIndx
  <2>1. /\ op.step = "put_indx" /\ UNCHANGED data /\ op.kind = "write"
        /\ indx' = [indx EXCEPT ![P] = PWrite(@, head.pos.num, 1, NewHeader, ZeroHeader)]
    BY <1>6 DEF PutIndx, StepsFit
  <2>2. Len(data[P]) = head.pos.off + op.len
    BY <1>1, <1>2, <2>1 DEF MapWritten, DataReached
  <2> DEFINE n == head.pos.num
  <2>3. Len(indx[P]) = n /\ indx[P] \in Seq(Header) /\ n \in Nat /\ fmap[P] \in Seq(Nat)
    BY <1>2, <2>1, HeadFields DEF AtEnd, Here, TypeOK
  <2>4. Len(indx'[P]) = n + 1 /\ indx'[P][n + 1] = NewHeader /\ \A i \in 1 .. n : indx'[P][i] = indx[P][i]
    <3> DEFINE g == PWrite(indx[P], n, 1, NewHeader, ZeroHeader)
    <3>1. Len(g) = n + 1 /\ g[n + 1] = NewHeader /\ \A i \in 1 .. n : g[i] = indx[P][i]
      <4>1. n = Len(indx[P])
        BY <2>3
      <4> HIDE DEF n
      <4> QED
        BY <2>3, <4>1, WriteAppends
    <3>2. indx'[P] = g
      BY <1>2, <2>1 DEF TypeOK
    <3> QED
      BY <3>1, <3>2
  <2>5. \A i \in 1 .. Len(fmap[P]) : fmap[P][i] \in Nat
    BY <2>3, SMT
  <2>6. \A x \in Nat : x < n => x + 1 \in 1 .. n /\ x < n + 1
    BY <2>3, SMT
  <2>7. \A k \in 1 .. n + 1 : k \in 1 .. n \/ k = n + 1
    BY <2>3, SMT
  <2>8. NewHeader.type # "fm"
    BY DEF NewHeader
  <2>9. /\ Ascending(fmap[P])
        /\ \A i \in 1 .. Len(fmap[P]) : fmap[P][i] < n + 1 /\ indx'[P][fmap[P][i] + 1].type = "fm"
        /\ \A k \in 1 .. n + 1 : indx'[P][k].type = "fm" => \E i \in 1 .. Len(fmap[P]) : fmap[P][i] = k - 1
    BY <1>5, <2>3, <2>4, <2>5, <2>6, <2>7, <2>8 DEF Listed, ListsMarks
  <2>10. Listed(P, fmap[P])'
    BY <1>3, <1>4, <2>4, <2>9 DEF Listed, ListsMarks, Ascending
  <2>11. \A p \in Slot \ {P} : indx'[p] = indx[p] /\ data'[p] = data[p]
    BY <1>2, <2>1 DEF TypeOK
  <2> QED
    BY <1>1, <1>3, <1>4, <1>5, <1>6, <2>1, <2>2, <2>10, <2>11, EndsMaps
<1>7. CASE ~PutIndx
  <2>1. /\ op.step # "put_indx" /\ UNCHANGED indx
        /\ data' = [data EXCEPT ![P] = CutDataFile] \/ data' = data
    BY <1>7 DEF DataFails, Wiped, NextMarkOrDone
  <2>2. Len(data[P]) = head.pos.off
    BY <1>1, <1>2, <2>1 DEF MapWritten, DataReached, CutSteps
  <2>3. Len(data'[P]) = head.pos.off
    <3>1. ASSUME data' = [data EXCEPT ![P] = CutDataFile]
          PROVE  Len(data'[P]) = head.pos.off
      <4>1. data'[P] = FTruncate(data[P], head.pos.off, Hole)
        BY <1>2, <3>1 DEF CutDataFile, TypeOK
      <4> QED
        BY <1>2, <4>1, SMT DEF FTruncate
    <3> QED
      BY <2>1, <2>2, <3>1
  <2>4. Listed(P, fmap[P])'
    BY <1>3, <1>4, <1>5, <2>1 DEF Listed, ListsMarks
  <2>5. \A p \in Slot \ {P} : indx'[p] = indx[p] /\ data'[p] = data[p]
    BY <1>2, <2>1 DEF TypeOK
  <2> QED
    BY <1>1, <1>3, <1>4, <1>5, <1>7, <2>3, <2>4, <2>5, EndsMaps
<1> QED
  BY <1>6, <1>7

\* write_filemarks() and add_filemark(): the header, and the map in memory.
LEMMA PutMarkMaps ==
    ASSUME TypeOK, TypeOK', StepsFit, Sound, MapsSound, PutMark
    PROVE  MapsSound'
<1> USE DEF drive, ghost
<1> DEFINE n == op.num
           m == fmap[P]
           h == MarkHeader(op.num)
<1>1. op.step = "put_mark" /\ op.kind = "mark" /\ Writing
  BY DEF PutMark, StepsFit, Writing
<1>2. /\ P \in Part /\ P \in Slot /\ status = "loaded" /\ op \in OpType /\ MapWritten /\ AtEnd
      /\ n \in Nat
  BY <1>1, WritingFacts, HeadFields DEF MapsSound
<1>3. /\ UNCHANGED <<data, mfile, suspect, status>> /\ op'.kind = op.kind /\ op'.step = "meta_head"
      /\ indx' = [indx EXCEPT ![P] = PWrite(@, n, 1, h, ZeroHeader)]
      /\ fmap' = [fmap EXCEPT ![P] = Append(m, n)]
      /\ head'.pos = h
  BY <1>2 DEF PutMark, OpType, TypeOK, HeadType
<1>4. P' = P /\ Writing' /\ head'.pos.off = head.pos.off /\ h.type = "fm"
  BY <1>1, <1>3 DEF P, Writing, MarkHeader
<1>5. Len(indx[P]) = n /\ indx[P] \in Seq(Header) /\ m \in Seq(Nat) /\ Len(m) \in Nat
  <2>1. Len(indx[P]) = n /\ indx[P] \in Seq(Header) /\ m \in Seq(Nat)
    BY <1>1, <1>2 DEF AtEnd, Here, TypeOK
  <2> HIDE DEF m
  <2> QED
    BY <2>1, SMT
<1>6. Listed(P, m) /\ Len(data[P]) = head.pos.off
  BY <1>1, <1>2 DEF MapWritten, DataReached, CutSteps
<1>7. Len(indx'[P]) = n + 1 /\ indx'[P][n + 1] = h /\ \A i \in 1 .. n : indx'[P][i] = indx[P][i]
  <2> DEFINE g == PWrite(indx[P], n, 1, h, ZeroHeader)
  <2>1. Len(g) = n + 1 /\ g[n + 1] = h /\ \A i \in 1 .. n : g[i] = indx[P][i]
    <3>1. n = Len(indx[P])
      BY <1>5
    <3> HIDE DEF n, h
    <3> QED
      BY <1>2, <1>5, <3>1, WriteAppends
  <2>2. indx'[P] = g
    BY <1>2, <1>3 DEF TypeOK
  <2> QED
    BY <2>1, <2>2
<1> DEFINE l == Append(m, n)
<1>8. /\ Len(l) = Len(m) + 1 /\ l[Len(m) + 1] = n
      /\ \A i \in 1 .. Len(m) : l[i] = m[i] /\ m[i] \in Nat /\ i \in 1 .. Len(l)
  <2> HIDE DEF m, n
  <2> QED
    BY <1>2, <1>5, SMT
<1>9. \A i \in 1 .. Len(l) : i \in 1 .. Len(m) \/ i = Len(m) + 1
  BY <1>5, <1>8, SMT
<1>10. fmap'[P] = l
  BY <1>2, <1>3 DEF TypeOK
<1> HIDE DEF l
<1>11. Ascending(l)
  <2>1. ASSUME NEW i \in 1 .. Len(l), NEW j \in 1 .. Len(l), i < j
        PROVE  l[i] < l[j]
    <3>1. i \in 1 .. Len(m)
      BY <1>5, <1>8, <2>1, SMT
    <3>2. CASE j \in 1 .. Len(m)
      BY <1>6, <1>8, <2>1, <3>1, <3>2 DEF Listed, ListsMarks, Ascending
    <3>3. CASE j = Len(m) + 1
      BY <1>5, <1>6, <1>8, <3>1, <3>3 DEF Listed
    <3> QED
      BY <1>9, <3>2, <3>3
  <2> QED
    BY <2>1 DEF Ascending
<1>12. \A x \in Nat : x < n => x + 1 \in 1 .. n /\ x < n + 1
  BY <1>2, SMT
<1>13. \A i \in 1 .. Len(l) : l[i] < n + 1 /\ indx'[P][l[i] + 1].type = "fm"
  <2>1. ASSUME NEW i \in 1 .. Len(m)
        PROVE  l[i] < n + 1 /\ indx'[P][l[i] + 1].type = "fm"
    <3>1. m[i] \in Nat /\ m[i] < n /\ indx[P][m[i] + 1].type = "fm"
      BY <1>5, <1>6, <1>8 DEF Listed, ListsMarks
    <3> QED
      BY <1>7, <1>8, <1>12, <3>1
  <2>2. n < n + 1 /\ indx'[P][n + 1].type = "fm"
    BY <1>2, <1>4, <1>7, SMT
  <2> QED
    BY <1>8, <1>9, <2>1, <2>2
<1>14. ASSUME NEW k \in 1 .. n + 1, indx'[P][k].type = "fm"
       PROVE  \E i \in 1 .. Len(l) : l[i] = k - 1
  <2>1. CASE k \in 1 .. n
    <3>1. \E i \in 1 .. Len(m) : m[i] = k - 1
      BY <1>5, <1>6, <1>7, <1>14, <2>1 DEF Listed, ListsMarks
    <3> QED
      BY <1>8, <3>1
  <2>2. CASE k = n + 1
    <3>1. Len(m) + 1 \in 1 .. Len(l) /\ k - 1 = n
      BY <1>2, <1>5, <1>8, <2>2, SMT
    <3> QED
      BY <1>8, <3>1
  <2>3. k \in 1 .. n \/ k = n + 1
    BY <1>2, SMT
  <2> QED
    BY <2>1, <2>2, <2>3
<1>15. Listed(P, fmap[P])'
  BY <1>4, <1>7, <1>10, <1>11, <1>13, <1>14 DEF Listed, ListsMarks, Ascending
<1>16. MapWritten'
  BY <1>3, <1>4, <1>6, <1>15 DEF MapWritten, DataReached, MetaReached, MetaSteps, CutSteps
<1>17. \A p \in Slot \ {P} :
          /\ indx'[p] = indx[p] /\ data'[p] = data[p] /\ mfile'[p] = mfile[p] /\ fmap'[p] = fmap[p]
  BY <1>2, <1>3 DEF TypeOK
<1> QED
  BY <1>1, <1>2, <1>3, <1>4, <1>16, <1>17, MapsFrame

\* WRITE FILEMARKS goes on with a map that lists those it has written.
LEMMA NextMarkMaps ==
    ASSUME TypeOK, TypeOK', StepsFit, Sound, MapsSound, NextMarkOrDone, op.n > 1
    PROVE  MapsSound'
<1> USE DEF drive, ghost, disk
<1>1. op.step = "marked" /\ Writing
  BY DEF NextMarkOrDone, StepsFit, Writing
<1>2. P \in Part /\ status = "loaded" /\ op \in OpType /\ MapWritten
  BY <1>1, WritingFacts DEF MapsSound
<1>3. /\ UNCHANGED <<data, indx, mfile, fmap, head, suspect, status>>
      /\ op'.kind = op.kind /\ op'.step = "put_mark" /\ Writing' /\ P' = P
  BY <1>1, <1>2 DEF NextMarkOrDone, OpType, Writing, P
<1>4. Listed(P, fmap[P])'
  BY <1>1, <1>2, <1>3 DEF MapWritten, Listed, ListsMarks
<1>5. MapWritten'
  BY <1>1, <1>2, <1>3, <1>4 DEF MapWritten, DataReached, MetaReached, MetaSteps, CutSteps, SameMap
<1> QED
  BY <1>1, <1>2, <1>3, <1>5, MapsFrame

-----------------------------------------------------------------------------
(* The second layer holds *)

\* Failures are counted: what has happened at the end had not at the beginning.
LEMMA DataBefore ==
    ASSUME TypeOK, [Next]_vars, OnlyData'
    PROVE  OnlyData /\ OnlySafeFaults /\ OnlySafeFaults'
<1>1. failures \in Seq(FaultKinds)
  BY DEF TypeOK
<1>2. \/ failures' = failures
      \/ \E kind : failures' = Append(failures, kind)
  BY DEF Next, StartWrite, WriteBlock, WriteMarks, Erase, Format, WriteRefused, FileStep,
     CutIndx, CutData, MetaHead, MetaMap, MetaLen, PutData, PutIndx, PutMark,
     NextMarkOrDone, Wipe, Wiped, ClosePartition, Unload, Fault, CutFails, MetaFails,
     DataFails, IndxFails, MarkFails, Fail, MoveHead, Rewind, SpaceEod, ReadBlock, LoadAgain,
     SpaceBlocks, SpaceMarks, Locate, Move, Load, UnloadStart, Crash, vars, ghost
<1>3. ASSUME NEW kind, failures' = Append(failures, kind)
      PROVE  \A i \in DOMAIN failures : i \in DOMAIN failures' /\ failures'[i] = failures[i]
  BY <1>1, <1>3, SMT
<1>4. OnlyData
  BY <1>2, <1>3 DEF OnlyData
<1> QED
  BY <1>4 DEF OnlyData, OnlySafeFaults

\* A failure of another kind would have been counted.
LEMMA NoOtherFault ==
    ASSUME TypeOK, OnlyData', NEW kind, kind # "data", Fail(kind)
    PROVE  FALSE
<1>1. failures \in Seq(FaultKinds) /\ failures' = Append(failures, kind)
  BY DEF TypeOK, Fail
<1>2. Len(failures) + 1 \in DOMAIN failures' /\ failures'[Len(failures) + 1] = kind
  BY <1>1, SMT
<1> QED
  BY <1>2 DEF OnlyData

\* A data write that fails is undone: the maps and the data file stay in step.
LEMMA FaultMaps ==
    ASSUME TypeOK, TypeOK', StepsFit, Sound, Sound', MapsSound, Fault, OnlyData'
    PROVE  MapsSound'
<1>1. CASE DataFails
  BY <1>1, WrittenMaps
<1>2. CASE MetaFails
  <2>1. P \notin fds /\ UNCHANGED suspect /\ op.step # "idle"
    BY <1>2, NoOtherFault DEF MetaFails, TapeLoaded, ghost
  <2>2. ~Writing
    BY <2>1 DEF Sound, WriteSound
  <2> QED
    BY <1>2, <2>1, <2>2, UnloadingMaps
<1>3. CASE CutFails \/ IndxFails \/ MarkFails
  BY <1>3, NoOtherFault DEF CutFails, IndxFails, MarkFails
<1> QED
  BY <1>1, <1>2, <1>3 DEF Fault

\* Every file operation of a handler that writes keeps them so.
LEMMA FileStepMaps ==
    ASSUME TypeOK, TypeOK', StepsFit, Sound, Sound', MapsSound, FileStep
    PROVE  MapsSound'
<1>1. CASE MetaHead \/ MetaMap \/ MetaLen
  <2>1. op.step # "idle"
    BY <1>1 DEF MetaHead, MetaMap, MetaLen
  <2> QED
    BY <1>1, <2>1, MetaMaps, UnloadingMaps
<1> QED
  BY <1>1, CutIndxMaps, CutDataMaps, PutDataMaps, WrittenMaps, PutMarkMaps, NextMarkMaps,
     WipeMaps, MovesMaps DEF FileStep

\* Nothing happens.
LEMMA StutterMaps ==
    ASSUME MapsSound, UNCHANGED vars
    PROVE  MapsSound'
BY DEF vars, disk, drive, ghost, MapsSound, MapSound, MapAgrees, DataEnd, Listed, ListsMarks,
   MapWritten, Writing, MetaReached, DataReached, MetaSteps, CutSteps, SameMap, P

\* The second layer is kept by every step,
LEMMA NextMaps ==
    ASSUME DInv, [Next]_vars
    PROVE  DInv'
<1>1. IInv' /\ TypeOK'
  BY NextKeepsIInv DEF DInv, IInv
<1>2. ASSUME OnlyData'
      PROVE  MapsSound'
  <2>1. TypeOK /\ StepsFit /\ Sound /\ MapsSound /\ Sound'
    BY <1>1, <1>2, DataBefore DEF DInv, IInv, SafeInv, DataInv
  <2>2. CASE \E ro \in BOOLEAN, g \in 0 .. MaxBlocks : Load(ro, g)
    BY <2>1, <2>2, LoadMaps
  <2>3. ~Crash
    BY <1>2, <2>1, NoOtherFault DEF Crash
  <2> QED
    BY <1>1, <1>2, <2>1, <2>2, <2>3, StartMaps, FormatMaps, MovesMaps, FileStepMaps, FaultMaps,
       StutterMaps DEF Next
<1> QED
  BY <1>1, <1>2 DEF DInv, DataInv

\* and holds of a cartridge never mounted.
LEMMA InitMaps ==
    ASSUME Init
    PROVE  DInv
<1>1. Len(<< >>) = 0 /\ \A i : i \notin 1 .. 0
  BY SMT
<1>2. ASSUME NEW p \in Part
      PROVE  MapAgrees(p)
  <2>1. /\ data[p] = << >> /\ indx[p] = << >> /\ fmap[p] = << >> /\ status = "unloaded"
        /\ mfile[p] = [count |-> 0, map |-> << >>]
    BY SlotsApart DEF Init
  <2>2. Listed(p, mfile[p].map)
    BY <1>1, <2>1 DEF Listed, ListsMarks, Ascending
  <2> QED
    BY <1>1, <2>1, <2>2 DEF MapAgrees, DataEnd
<1>3. ~Writing /\ suspect = {}
  BY DEF Init, NoOp, Writing
<1> QED
  BY <1>2, <1>3, InitSound DEF DInv, DataInv, MapsSound, MapSound, MapWritten

\* Where every handler stands, the filemark map of a partition names the filemarks of its
\* index and no other, and the data file is as long as the index says, or a write failed:
\* the invariant of both layers, as long as the daemon does not die.
THEOREM MapsHold == Spec => []DInv
BY InitMaps, NextMaps, PTL DEF Spec

\* What the two layers say when only data writes have failed.
LEMMA DInvSays ==
    ASSUME DInv, OnlyData
    PROVE  /\ TypeOK /\ StepsFit /\ Sound /\ MapsSound /\ suspect = {}
           /\ \A p \in Part : p \in Slot /\ PartSound(p) /\ Backed(p) /\ Recalled(p)
<1>1. OnlySafeFaults
  BY DEF OnlyData, OnlySafeFaults
<1>2. TypeOK /\ StepsFit /\ Sound /\ MapsSound /\ suspect = {}
  BY <1>1 DEF DInv, IInv, SafeInv, DataInv, MapsSound, MapSound
<1> QED
  BY <1>2, SlotsApart DEF Sound, FilesSound, PartSound

\* However data writes fail, between two handlers the three files of every
\* partition describe one tape: rewrite_meta_file(), check_for_overwrite() and
\* add_filemark() keep the filemark map of the index, and write_tape_block()
\* removes from the data file what it could not finish.
THEOREM FilesDescribeOneTape == Spec => [](OnlyData => FilesAgree)
<1>1. ASSUME DInv, OnlyData
      PROVE  FilesAgree
  <2>1. /\ TypeOK /\ StepsFit /\ Sound /\ MapsSound /\ suspect = {}
        /\ \A p \in Part : p \in Slot /\ PartSound(p) /\ Backed(p)
    BY <1>1, DInvSays
  <2>2. ASSUME Idle, NEW p \in Part
        PROVE  /\ ~torn[p] /\ IndexChained(p) /\ Len(data[p]) = DataEnd(p)
               /\ mfile[p].count = Len(mfile[p].map) /\ MarksListed(p, mfile[p].map)
    <3>1. ~Writing
      BY <2>1, <2>2 DEF Idle, StepsFit, NoOp, Writing
    <3>2. MapAgrees(p) /\ mfile[p].map \in Seq(Nat)
      BY <2>1, <3>1 DEF MapsSound, MapSound, TypeOK
    <3>3. MarksListed(p, mfile[p].map)
      BY <2>1, <3>2, ListedIsMarksListed DEF MapAgrees
    <3>4. IndexChained(p)
      BY <2>1 DEF PartSound, Numbered, Backed, Chained, IndexChained
    <3> QED
      BY <2>1, <3>2, <3>3, <3>4 DEF PartSound, MapAgrees
  <2> QED
    BY <2>2 DEF FilesAgree
<1> QED
  BY <1>1, MapsHold, PTL

\* Between two handlers vtltape remembers what the files say: where data ends
\* (mkEODHeader(), load_partition()), the filemark map and the header under the
\* head (read_header()).
THEOREM MemoryTrue == Spec => [](OnlyData => MemoryAgrees)
<1>1. ASSUME DInv, OnlyData
      PROVE  MemoryAgrees
  <2>1. /\ TypeOK /\ StepsFit /\ Sound /\ MapsSound /\ suspect = {}
        /\ \A p \in Part : p \in Slot
    BY <1>1, DInvSays
  <2>2. ASSUME Ready
        PROVE  ~Writing /\ status = "loaded"
    BY <2>1, <2>2 DEF Ready, Idle, StepsFit, NoOp, Writing
  <2>3. ASSUME Ready, NEW p \in Part
        PROVE  eod[p] = [num |-> Len(indx[p]), off |-> DataEnd(p)] /\ fmap[p] = mfile[p].map
    <3>1. Known(p) /\ MapAgrees(p) /\ eod[p] \in [num : Nat, off : Nat]
      BY <2>1, <2>2, <2>3 DEF Sound, MemorySound, MapsSound, MapSound, TypeOK
    <3> QED
      BY <2>1, <2>2, <2>3, <3>1 DEF Known, MapAgrees
  <2>4. Ready => Placed(head)
    BY <2>1, <2>2 DEF Sound, HeadSound
  <2> QED
    BY <2>3, <2>4 DEF MemoryAgrees, Placed, OnHeader, OnEod, P
<1> QED
  BY <1>1, MapsHold, PTL

\* As long as only data writes fail, what the host was told is recorded is what
\* the files hold, in every partition, and load_partition() never finds one corrupt.
THEOREM AckedAlwaysKept == Spec => [](OnlyData => AckedKept)
<1>1. ASSUME DInv, OnlyData
      PROVE  AckedKept
  <2>1. TypeOK /\ \A p \in Part : p \in Slot /\ Recalled(p)
    BY <1>1, DInvSays
  <2> QED
    BY <2>1, RecalledIsPrefix DEF AckedKept
<1> QED
  BY <1>1, MapsHold, PTL

\* No data header in the index describes data the file does not hold, however
\* many data writes fail and however often the daemon dies: the order in which
\* check_for_overwrite() cuts the files and write_tape_block() writes them.
THEOREM DataBehindHeaders == Spec => [](OnlySafeFaults => HeadersHaveData)
<1>1. ASSUME IInv, OnlySafeFaults
      PROVE  HeadersHaveData
  <2>1. TypeOK /\ \A p \in Part \ suspect : p \in Slot /\ Backed(p)
    BY <1>1, SlotsApart DEF IInv, SafeInv, Sound, FilesSound, PartSound
  <2>2. ASSUME NEW p \in Part \ suspect, NEW i \in 1 .. Len(indx[p])
        PROVE  EndOf(indx[p][i]) <= Len(data[p])
    <3>1. EndOf(indx[p][i]) <= DataEnd(p) /\ indx[p][i] \in Header /\ DataEnd(p) <= Len(data[p])
      BY <2>1, <2>2, EndsInData DEF Backed
    <3>2. EndOf(indx[p][i]) \in Nat /\ DataEnd(p) \in Nat /\ Len(data[p]) \in Nat
      BY <2>1, <3>1, DataEndType DEF EndOf, Header
    <3> QED
      BY <3>1, <3>2, SMT
  <2> QED
    BY <2>2 DEF HeadersHaveData
<1> QED
  BY <1>1, SafeHolds, PTL

-----------------------------------------------------------------------------
(* The cartridge store implements TapeMedium *)

Log == [p \in Slot |-> DiskLog(p)]
At  == [part |-> P, num |-> Here]

\* What a step of the store is to TapeMedium.
Stays      == Log' = Log /\ At' = At
Goes       == Log' = Log /\ P' \in Slot /\ Here' \in Nat /\ Here' <= Len(Log[P'])
Adds       == \E item \in Recordable :
                 /\ Here = Len(Log[P]) /\ Log' = [Log EXCEPT ![P] = Append(@, item)]
                 /\ At' = [At EXCEPT !.num = @ + 1]
Drops      == /\ Here < Len(Log[P]) /\ Log' = [Log EXCEPT ![P] = SubSeq(@, 1, Here)]
              /\ At' = At
Clears     == Log' = [p \in Slot |-> << >>] /\ At' = [part |-> 0, num |-> 0]
MediumStep == \/ Stays \/ Goes
              \/ Adds /\ (PutIndx \/ PutMark)
              \/ Drops /\ CutIndx
              \/ Clears /\ Format

\* The states the theorem is about.
Clean == IInv /\ OnlySafeFaults /\ suspect = {}

\* What the first layer says when no partition is suspect.
LEMMA CleanSays ==
    ASSUME Clean
    PROVE  /\ TypeOK /\ StepsFit /\ Sound
           /\ \A p \in Part : p \in Slot /\ PartSound(p) /\ Backed(p)
BY SlotsApart DEF Clean, IInv, SafeInv, Sound, FilesSound, PartSound

\* The log of a partition is its index, item by item.
LEMMA LogOf ==
    ASSUME TypeOK, NEW p \in Slot
    PROVE  /\ Log[p] \in Seq(Item) /\ Len(Log[p]) = Len(indx[p]) /\ Len(indx[p]) \in Nat
           /\ \A i \in 1 .. Len(indx[p]) : Log[p][i] = DiskItem(p, i)
<1>1. Log[p] = DiskLog(p) /\ DiskLog(p) \in Seq(Item) /\ Len(indx[p]) \in Nat
  BY DiskLogType, DataEndType DEF Log
<1> QED
  BY <1>1, SMT DEF DiskLog

\* Two logs with the same items are the same.
LEMMA SameItems ==
    ASSUME NEW S, NEW s \in Seq(S), NEW t \in Seq(S), Len(s) = Len(t),
           \A i \in 1 .. Len(s) : s[i] = t[i]
    PROVE  s = t
BY SMT

\* A change behind the end of data changes no log.
LEMMA LogSame ==
    ASSUME Clean, Clean', UNCHANGED indx,
           \A p \in Part : data'[p] = data[p] \/
               (/\ DataEnd(p) <= Len(data'[p])
                /\ \A k \in 1 .. DataEnd(p) : data'[p][k] = data[p][k])
    PROVE  Log' = Log
<1>1. TypeOK /\ TypeOK' /\ \A p \in Part : Backed(p)
  BY CleanSays DEF Clean, IInv
<1>2. ASSUME NEW p \in Slot
      PROVE  DiskLog(p)' = DiskLog(p)
  <2>1. CASE p \in Part /\ data'[p] = data[p]
    BY <2>1 DEF DiskLog, DiskItem, Extent
  <2>2. CASE p \in Part /\ ~(data'[p] = data[p])
    <3>1. Ordered(p) /\ DataEnd(p) <= Len(data[p]) /\ Len(indx[p]) \in Nat /\ Len(indx[p]) <= Len(indx[p])
      <4>1. Len(indx[p]) \in Nat
        BY <1>1, DataEndType
      <4> QED
        BY <1>1, <2>2, <4>1, SMT DEF Backed
    <3>2. \A i \in 1 .. Len(indx[p]) : DiskItem(p, i)' = DiskItem(p, i)
      BY <1>1, <2>2, <3>1, ItemsKept
    <3> QED
      BY <3>2 DEF DiskLog
  <2>3. CASE p = NParts
    <3>1. indx[p] = << >>
      BY <2>3 DEF Clean, IInv, SafeInv, Sound, NothingBeyond
    <3>2. \A i : i \notin 1 .. Len(<< >>)
      BY SMT
    <3> QED
      BY <3>1, <3>2 DEF DiskLog
  <2> QED
    BY <2>1, <2>2, <2>3, SlotsApart
<1> QED
  BY <1>2 DEF Log

\* The moves of the head, mounting and the last step of unloading.
LEMMA QuietStep ==
    ASSUME Clean, Clean',
           MoveHead \/ UnloadStart \/ WriteRefused \/ ClosePartition \/ Unload
             \/ (\E ro \in BOOLEAN, g \in 0 .. MaxBlocks : Load(ro, g))
    PROVE  MediumStep
<1> USE DEF disk, drive, ghost
<1>1. TypeOK /\ StepsFit /\ Sound /\ TypeOK' /\ Sound'
  BY DEF Clean, IInv, SafeInv
<1>2. UNCHANGED <<data, indx>>
  BY DEF MoveHead, Rewind, SpaceEod, ReadBlock, LoadAgain, SpaceBlocks, SpaceMarks,
     Locate, Move, UnloadStart, WriteRefused, ClosePartition, Unload, Load
<1>3. Log' = Log
  BY <1>2, LogSame
<1>4. CASE Unload
  <2>1. op.kind = "unload" /\ op' = NoOp /\ head'.pos = head.pos
    BY <1>1, <1>4 DEF Unload, StepsFit, TypeOK, HeadType
  <2> QED
    BY <1>3, <2>1 DEF MediumStep, Stays, At, Here, NoOp, P
<1>5. CASE ~Unload
  <2>1. (op' = NoOp \/ op'.kind = "unload") /\ status' = "loaded"
    <3>1. ClosePartition => op.kind = "unload" /\ op \in OpType /\ status = "loaded"
      BY <1>1 DEF ClosePartition, StepsFit, TypeOK
    <3> QED
      BY <1>1, <1>5, <3>1 DEF MoveHead, Rewind, SpaceEod, ReadBlock, LoadAgain, SpaceBlocks,
         SpaceMarks, Locate, Move, UnloadStart, WriteRefused, ClosePartition, Load, StepsFit,
         Ready, Idle, NoOp, OpType
  <2>2. ~Writing' /\ Here' = head'.pos.num
    BY <2>1 DEF Writing, NoOp, Here
  <2>3. Placed(head)' /\ EodKnown'
    <3>1. Placed(head)'
      BY <1>1, <2>1, <2>2 DEF Sound, HeadSound
    <3>2. \A p \in Part : eod'[p].num = Len(indx'[p])
      BY <1>1, <2>1, <2>2 DEF Sound, MemorySound, Known
    <3>3. eod'[NParts].num = 0 /\ indx'[NParts] = << >> /\ Len(<< >>) = 0
      BY <1>1, SMT DEF Sound, NothingBeyond
    <3> QED
      BY <3>1, <3>2, <3>3, SlotsApart DEF EodKnown
  <2>4. /\ P' \in Slot /\ head'.pos.num \in Nat /\ Len(indx'[P']) \in Nat
        /\ Len(Log[P']) = Len(indx[P'])
    <3>1. P' \in Slot /\ head'.pos.num \in Nat
      BY <1>1 DEF TypeOK, HeadType, Header, P
    <3> QED
      BY <1>1, <1>2, <3>1, LogOf
  <2>5. head'.pos.num <= Len(indx'[P'])
    BY <2>3, <2>4, SMT DEF Placed, OnHeader, OnEod, EodHead, EodKnown, P
  <2> QED
    BY <1>2, <1>3, <2>2, <2>4, <2>5 DEF MediumStep, Goes
<1> QED
  BY <1>4, <1>5

\* The steps of a writing handler that change no header.
LEMMA SilentStep ==
    ASSUME Clean, Clean',
           \/ StartWrite \/ CutData \/ MetaHead \/ MetaMap \/ MetaLen \/ PutData
           \/ Wipe \/ Wiped \/ NextMarkOrDone \/ DataFails \/ MetaFails
    PROVE  Log' = Log /\ At' = At
<1> USE DEF disk, drive, ghost
<1>1. TypeOK /\ StepsFit /\ Sound /\ op \in OpType /\ head \in HeadType
  BY DEF Clean, IInv, SafeInv, TypeOK
<1>2. UNCHANGED indx
  BY DEF StartWrite, WriteBlock, WriteMarks, Erase, CutData, MetaHead, MetaMap, MetaLen,
     PutData, Wipe, Wiped, NextMarkOrDone, DataFails, MetaFails
<1>3. P' = P
  BY <1>1 DEF StartWrite, WriteBlock, WriteMarks, Erase, CutData, MetaHead, MetaMap, MetaLen,
     PutData, Wipe, Wiped, NextMarkOrDone, DataFails, MetaFails, HeadType, P, AtEod, EodHead
<1>4. Here' = Here
  <2>1. CASE StartWrite
    <3>1. op = NoOp /\ head'.pos = head.pos
      BY <1>1, <2>1 DEF StartWrite, WriteBlock, WriteMarks, Erase, Ready, Idle, StepsFit, HeadType
    <3>2. op'.kind # "mark" \/ op'.num = head.pos.num
      BY <2>1 DEF StartWrite, WriteBlock, WriteMarks, Erase, Begin
    <3> QED
      BY <3>1, <3>2 DEF Here, NoOp
  <2>2. CASE CutData \/ MetaHead \/ MetaMap \/ MetaLen \/ PutData \/ Wipe
    <3>1. UNCHANGED head /\ op'.kind = op.kind /\ op'.num = op.num
      BY <1>1, <2>2 DEF CutData, MetaHead, MetaMap, MetaLen, PutData, Wipe, OpType
    <3> QED
      BY <3>1 DEF Here
  <2>3. CASE Wiped \/ DataFails
    <3>1. op.kind # "mark" /\ op' = NoOp /\ head'.pos.num = head.pos.num
      BY <1>1, <2>3 DEF Wiped, DataFails, StepsFit, AtEod, EodHead
    <3> QED
      BY <3>1 DEF Here, NoOp
  <2>4. CASE NextMarkOrDone
    <3>1. op.kind = "mark"
      BY <1>1, <2>4 DEF NextMarkOrDone, StepsFit
    <3>2. CASE op.n > 1
      BY <1>1, <2>4, <3>1, <3>2 DEF NextMarkOrDone, Here, OpType
    <3>3. CASE ~(op.n > 1)
      BY <2>4, <3>1, <3>3 DEF NextMarkOrDone, AtEod, EodHead, Here, NoOp
    <3> QED
      BY <3>2, <3>3
  <2>5. CASE MetaFails
    <3>1. op.cut /\ op.kind = "mark" => op.num = head.pos.num
      BY <1>1 DEF StepsFit
    <3>2. UNCHANGED head /\ IF op.cut THEN op' = NoOp ELSE op'.kind = op.kind /\ op'.num = op.num
      BY <1>1, <2>5 DEF MetaFails, OpType
    <3> QED
      BY <3>1, <3>2 DEF Here, NoOp
  <2> QED
    BY <2>1, <2>2, <2>3, <2>4, <2>5
<1>5. CASE CutData \/ PutData \/ DataFails
  <2>1. Writing /\ op.step # "cut_indx"
    BY <1>1, <1>5 DEF CutData, PutData, DataFails, StepsFit, CutSteps, Writing
  <2>2. P \in Slot /\ PartSound(P) /\ AtEnd /\ P \in Part /\ suspect = {} /\ P \notin suspect
    BY <1>1, <2>1, WritingFacts DEF Clean
  <2>3. /\ data' = [data EXCEPT ![P] = CutDataFile] \/ data' = [data EXCEPT ![P] = PutDataFile]
        /\ op.len \in Nat
    BY <1>1, <1>5 DEF CutData, PutData, DataFails, OpType
  <2>4. /\ DataEnd(P) \in Nat /\ Len(data[P]) \in Nat /\ head.pos.off = DataEnd(P)
        /\ DataEnd(P) <= Len(data[P])
    BY <1>1, <2>2, DataEndType DEF AtEnd, PartSound, Backed
  <2>5. /\ DataEnd(P) <= Len(data'[P])
        /\ \A k \in 1 .. DataEnd(P) : data'[P][k] = data[P][k]
    <3>1. CASE data' = [data EXCEPT ![P] = CutDataFile]
      <4>1. data'[P] = CutDataFile /\ DataEnd(P) <= DataEnd(P)
        <5>1. data'[P] = CutDataFile
          BY <1>1, <2>2, <3>1 DEF TypeOK
        <5> QED
          BY <2>4, <5>1, SMT
      <4> QED
        BY <1>1, <2>2, <4>1, CutDataFileKeeps
    <3>2. CASE data' = [data EXCEPT ![P] = PutDataFile]
      <4>1. data'[P] = PutDataFile /\ data[P] \in Seq(Cell)
        BY <1>1, <2>2, <3>2 DEF TypeOK
      <4>2. /\ Len(data'[P]) = Larger(Len(data[P]), head.pos.off + op.len)
            /\ \A i \in 1 .. head.pos.off : data'[P][i] = data[P][i]
        BY <2>3, <2>4, <4>1, WriteKeeps DEF PutDataFile
      <4> QED
        BY <2>3, <2>4, <4>2, SMT DEF Larger
    <3> QED
      BY <2>3, <3>1, <3>2
  <2>6. \A p \in Part : data'[p] = data[p] \/ p = P
    BY <1>1, <2>2, <2>3, SlotsApart DEF TypeOK
  <2>7. Log' = Log
    BY <1>2, <2>5, <2>6, LogSame
  <2> QED
    BY <1>3, <1>4, <2>7 DEF At
<1>6. CASE ~(CutData \/ PutData \/ DataFails)
  <2>1. UNCHANGED data
    BY <1>6 DEF StartWrite, WriteBlock, WriteMarks, Erase, MetaHead, MetaMap, MetaLen,
       Wipe, Wiped, NextMarkOrDone, MetaFails
  <2>2. Log' = Log
    BY <1>2, <2>1, LogSame
  <2> QED
    BY <1>3, <1>4, <2>2 DEF At
<1> QED
  BY <1>5, <1>6

\* What a step that keeps the other partitions does to the log.
LEMMA LogExcept ==
    ASSUME TypeOK, TypeOK', NEW p \in Slot, NEW l,
           \A q \in Slot \ {p} : indx'[q] = indx[q] /\ data'[q] = data[q], Log'[p] = l
    PROVE  Log' = [Log EXCEPT ![p] = l]
<1>1. \A q \in Slot \ {p} : DiskLog(q)' = DiskLog(q)
  BY DEF DiskLog, DiskItem, Extent
<1> QED
  BY <1>1 DEF Log

\* What the commands record are items.
LEMMA RecordableIsItem == Recordable \subseteq Item
<1>1. ASSUME NEW v \in Vals, NEW l \in 1 .. MaxLen
      PROVE  Block(v, l) \in Item
  <2>1. l \in Nat /\ [k \in 1 .. l |-> v] \in [1 .. l -> Cell]
    BY SMT DEF Cell
  <2>2. Block(v, l).cells \in Seq(Cell)
    BY <2>1, SMT DEF Block
  <2> QED
    BY <2>2 DEF Block, Item
<1>2. Mark \in Item
  BY SMT DEF Mark, Item
<1> QED
  BY <1>1, <1>2 DEF Recordable

\* One more item: its header and, for a block, its data are in place.
LEMMA LogGrows ==
    ASSUME TypeOK, TypeOK', P \in Slot, Len(indx[P]) = Here, P' = P, Here' = Here + 1,
           \A q \in Slot \ {P} : indx'[q] = indx[q], UNCHANGED data,
           Len(indx'[P]) = Here + 1, NEW item \in Recordable,
           \A i \in 1 .. Here : DiskItem(P, i)' = DiskItem(P, i),
           \A i : i = Here + 1 => DiskItem(P, i)' = item
    PROVE  Adds
<1> DEFINE s == Log'[P]
           t == Append(Log[P], item)
           n == Len(indx[P])
<1>1. /\ Log[P] \in Seq(Item) /\ Len(Log[P]) = n /\ n \in Nat
      /\ \A i \in 1 .. n : Log[P][i] = DiskItem(P, i)
  BY LogOf
<1>2. s = [i \in 1 .. n + 1 |-> DiskItem(P, i)']
  BY DEF Log, DiskLog
<1>3. item \in Item
  BY RecordableIsItem
<1>4. Len(t) = n + 1 /\ t[n + 1] = item /\ \A i \in 1 .. n : t[i] = Log[P][i]
  <2> HIDE DEF n
  <2> QED
    BY <1>1, <1>3, SMT
<1>5. t \in Seq(Item)
  BY <1>1, <1>3, SMT
<1>6. \A i \in 1 .. n + 1 : i \in 1 .. n \/ i = n + 1
  BY <1>1, SMT
<1>7. \A i \in 1 .. n + 1 : DiskItem(P, i)' = t[i]
  BY <1>1, <1>4, <1>6
<1>8. s = [i \in 1 .. n + 1 |-> t[i]]
  BY <1>2, <1>7
<1>9. s = t
  <2> HIDE DEF n, s, t
  <2> QED
    BY <1>1, <1>4, <1>5, <1>8, SMT
<1>10. Log' = [Log EXCEPT ![P] = t]
  <2> HIDE DEF t
  <2> QED
    BY <1>9, LogExcept DEF s
<1>11. At' = [At EXCEPT !.num = @ + 1]
  BY DEF At
<1> QED
  BY <1>1, <1>10, <1>11 DEF Adds, Log

\* The ftruncate() of the index discards a tail,
LEMMA CutIndxStep ==
    ASSUME Clean, Clean', CutIndx
    PROVE  Drops
<1> USE DEF drive, ghost
<1> DEFINE n == head.pos.num
<1>1. TypeOK /\ StepsFit /\ Sound /\ TypeOK' /\ Sound' /\ suspect = {} /\ op \in OpType
  BY DEF Clean, IInv, SafeInv, TypeOK
<1>2. /\ op.step = "cut_indx" /\ Writing /\ ~op.cut /\ P \in Slot /\ PartSound(P)
      /\ P \notin suspect /\ BeforeCut
  <2>1. op.step = "cut_indx" /\ Writing /\ ~op.cut
    BY <1>1 DEF CutIndx, StepsFit, CutSteps, MetaSteps
  <2>2. BeforeCut
    BY <1>1, <2>1 DEF Sound, WriteSound
  <2>3. P \in Slot /\ PartSound(P)
    BY <1>1, <2>1, SlotsApart DEF Sound, FilesSound, WriteSound, TypeOK
  <2> QED
    BY <1>1, <2>1, <2>2, <2>3
<1>3. /\ op'.kind = op.kind /\ op'.num = op.num /\ UNCHANGED <<data, head>> /\ P' = P
      /\ indx' = [indx EXCEPT ![P] = CutIndxFile]
  BY <1>1 DEF CutIndx, OpType, P
<1>4. Here = n /\ Here' = n
  BY <1>1, <1>2, <1>3 DEF Here, StepsFit, CutSteps
<1>5. /\ indx[P] \in Seq(Header) /\ n \in Nat /\ n < Len(indx[P]) /\ Len(indx[P]) \in Nat
      /\ DataEnd(P) \in Nat /\ Len(data[P]) \in Nat
  BY <1>1, <1>2, HeadFields, DataEndType DEF BeforeCut, OnHeader, P, TypeOK
<1>6. n <= Len(indx[P])
  BY <1>5, SMT
<1>7. Len(indx'[P]) = n /\ \A i \in 1 .. n : indx'[P][i] = indx[P][i]
  <2>1. indx'[P] = FTruncate(indx[P], n, ZeroHeader)
    BY <1>1, <1>2, <1>3 DEF CutIndxFile, TypeOK
  <2> QED
    BY <1>5, <1>6, <2>1, TruncateKeeps
<1>8. \A i \in 1 .. n : DiskItem(P, i)' = DiskItem(P, i)
  <2>1. Ordered(P) /\ DataEnd(P) <= Len(data[P])
    BY <1>2 DEF PartSound, Backed
  <2> QED
    BY <1>1, <1>2, <1>3, <1>5, <1>6, <1>7, <2>1, ItemsKept
<1>9. /\ Log[P] \in Seq(Item) /\ Len(Log[P]) = Len(indx[P])
      /\ \A i \in 1 .. Len(indx[P]) : Log[P][i] = DiskItem(P, i)
  BY <1>1, <1>2, LogOf
<1>10. Log'[P] = SubSeq(Log[P], 1, n)
  <2>1. Log'[P] = [i \in 1 .. n |-> DiskItem(P, i)']
    BY <1>2, <1>3, <1>7 DEF Log, DiskLog
  <2>2. \A i \in 1 .. n : i \in 1 .. Len(indx[P])
    BY <1>5, SMT
  <2>3. Log'[P] = [i \in 1 .. n |-> Log[P][i]]
    BY <1>8, <1>9, <2>1, <2>2
  <2>4. SubSeq(Log[P], 1, n) = [i \in 1 .. n |-> Log[P][i]]
    <3> HIDE DEF n
    <3> QED
      BY <1>5, <1>6, <1>9, SMT
  <2> QED
    BY <2>3, <2>4
<1>11. \A q \in Slot \ {P} : indx'[q] = indx[q] /\ data'[q] = data[q]
  BY <1>1, <1>2, <1>3 DEF TypeOK
<1>12. Log' = [Log EXCEPT ![P] = SubSeq(Log[P], 1, n)]
  BY <1>1, <1>2, <1>10, <1>11, LogExcept
<1>13. [Log EXCEPT ![P] = SubSeq(@, 1, n)] = [Log EXCEPT ![P] = SubSeq(Log[P], 1, n)]
  BY DEF Log
<1> QED
  BY <1>3, <1>4, <1>5, <1>9, <1>12 DEF Drops, At

\* the header of a filemark adds an item,
LEMMA PutMarkStep ==
    ASSUME Clean, Clean', PutMark
    PROVE  Adds
<1> USE DEF drive, ghost
<1> DEFINE n == op.num
           h == MarkHeader(op.num)
<1>1. TypeOK /\ StepsFit /\ Sound /\ TypeOK' /\ Sound' /\ suspect = {} /\ op \in OpType
  BY DEF Clean, IInv, SafeInv, TypeOK
<1>2. op.step = "put_mark" /\ op.kind = "mark" /\ Writing
  BY <1>1 DEF PutMark, StepsFit, Writing
<1>3. /\ P \in Slot /\ PartSound(P) /\ P \notin suspect /\ AtEnd /\ Here = n /\ n \in Nat
      /\ head.pos.off \in Nat
  BY <1>1, <1>2, WritingFacts, HeadFields DEF Here
<1>4. /\ UNCHANGED data
      /\ indx' = [indx EXCEPT ![P] = PWrite(@, n, 1, h, ZeroHeader)]
      /\ torn' = [torn EXCEPT ![P] = StillTorn(n)]
      /\ op'.kind = op.kind /\ op'.num = n + 1 /\ head'.pos = h
  BY <1>1 DEF PutMark, OpType, TypeOK, HeadType
<1>5. /\ h \in Header /\ h.num = n /\ h.part = P /\ h.type = "fm" /\ h.off = head.pos.off
      /\ h.len = 0 /\ EndOf(h) = head.pos.off
  <2>1. head.pos.off + 0 = head.pos.off
    BY <1>3, SMT
  <2> QED
    BY <1>1, <1>3, <2>1, MarkHeaderType DEF MarkHeader, EndOf
<1>6. P' = P /\ Here' = n + 1
  BY <1>2, <1>4, <1>5 DEF P, Here
<1>7. Len(indx[P]) = n /\ head.pos.off = DataEnd(P) /\ DataEnd(P) <= Len(data[P])
  BY <1>3 DEF AtEnd, PartSound, Backed
<1>8. /\ Len(indx'[P]) = n + 1 /\ indx'[P][n + 1] = h
      /\ \A i \in 1 .. n : DiskItem(P, i)' = DiskItem(P, i)
  BY <1>1, <1>3, <1>4, <1>5, <1>6, <1>7, IndexExtends
<1>9. \A i : i = n + 1 => DiskItem(P, i)' = Mark
  <2>1. h.len = 0 /\ h.type = "fm" /\ P' = P
    BY <1>5, <1>6
  <2> HIDE DEF h
  <2>2. [k \in 1 .. h.len |-> IF h.off + k <= Len(data'[P]) THEN data'[P][h.off + k] ELSE Hole]
          = << >>
    BY <2>1, SMT
  <2>3. ASSUME NEW i, i = n + 1
        PROVE  DiskItem(P, i)' = Mark
    <3>1. indx'[P'][i] = h
      BY <1>8, <2>1, <2>3
    <3> QED
      BY <2>1, <2>2, <3>1 DEF DiskItem, Extent, Mark
  <2> QED
    BY <2>3
<1>10. Mark \in Recordable
  BY DEF Recordable
<1>11. \A q \in Slot \ {P} : indx'[q] = indx[q]
  BY <1>1, <1>3, <1>4 DEF TypeOK
<1> QED
  BY <1>1, <1>3, <1>4, <1>6, <1>7, <1>8, <1>9, <1>10, <1>11, LogGrows

\* and so does the header of a block, whose data is in the file already.
LEMMA PutIndxStep ==
    ASSUME Clean, Clean', PutIndx
    PROVE  Adds
<1> USE DEF drive, ghost
<1> DEFINE n == head.pos.num
<1>1. TypeOK /\ StepsFit /\ Sound /\ TypeOK' /\ Sound' /\ suspect = {} /\ op \in OpType
  BY DEF Clean, IInv, SafeInv, TypeOK
<1>2. op.step = "put_indx" /\ op.kind = "write" /\ Writing
  BY <1>1 DEF PutIndx, StepsFit, Writing
<1>3. /\ P \in Slot /\ PartSound(P) /\ P \notin suspect /\ AtEnd /\ Here = n /\ n \in Nat
      /\ head.pos.off \in Nat /\ op.len \in 1 .. MaxLen /\ op.val \in Vals
  <2>1. op.len \in 1 .. MaxLen /\ op.val \in Vals
    BY <1>1, <1>2 DEF StepsFit
  <2> QED
    BY <1>1, <1>2, <2>1, WritingFacts, HeadFields DEF Here
<1>4. /\ UNCHANGED data /\ op' = NoOp /\ AtEod(n + 1, head.pos.off + op.len)
      /\ indx' = [indx EXCEPT ![P] = PWrite(@, n, 1, NewHeader, ZeroHeader)]
      /\ torn' = [torn EXCEPT ![P] = StillTorn(n)]
  BY DEF PutIndx
<1>5. P' = P /\ Here' = n + 1
  BY <1>4 DEF AtEod, EodHead, P, Here, NoOp
<1>6. /\ Len(indx[P]) = n /\ head.pos.off = DataEnd(P) /\ Payload
  BY <1>1, <1>2, <1>3 DEF AtEnd, Sound, WriteSound
<1>7. /\ NewHeader \in Header /\ NewHeader.num = n /\ NewHeader.part = P
      /\ NewHeader.type = "data" /\ NewHeader.off = head.pos.off /\ NewHeader.len = op.len
      /\ EndOf(NewHeader) = head.pos.off + op.len
  BY <1>1, NewHeaderType DEF NewHeader, EndOf
<1>8. /\ Len(indx'[P]) = n + 1 /\ indx'[P][n + 1] = NewHeader
      /\ \A i \in 1 .. n : DiskItem(P, i)' = DiskItem(P, i)
  <2>1. EndOf(NewHeader) <= Len(data[P])
    BY <1>6, <1>7 DEF Payload
  <2> QED
    BY <1>1, <1>3, <1>4, <1>5, <1>6, <1>7, <2>1, IndexExtends
<1>9. [k \in 1 .. op.len |-> IF head.pos.off + k <= Len(data[P])
                             THEN data[P][head.pos.off + k] ELSE Hole]
        = [k \in 1 .. op.len |-> op.val]
  <2>1. \A k \in 1 .. op.len : data[P][head.pos.off + k] = op.val
    BY <1>6 DEF Payload
  <2>2. head.pos.off + op.len <= Len(data[P]) /\ Len(data[P]) \in Nat /\ op.len \in Nat
    BY <1>1, <1>3, <1>6, DataEndType DEF Payload, OpType
  <2>3. \A k \in 1 .. op.len : head.pos.off + k <= Len(data[P])
    BY <1>3, <2>2, SMT
  <2> QED
    BY <2>1, <2>3
<1>10. \A i : i = n + 1 => DiskItem(P, i)' = Block(op.val, op.len)
  <2>1. \A i : i = n + 1 =>
          DiskItem(P, i)' = [type |-> NewHeader.type,
                             cells |-> [k \in 1 .. NewHeader.len |->
                                          IF NewHeader.off + k <= Len(data[P])
                                          THEN data[P][NewHeader.off + k] ELSE Hole]]
    <3>1. \A i : i = n + 1 => indx'[P'][i] = NewHeader /\ data'[P'] = data[P]
      BY <1>4, <1>5, <1>8
    <3> QED
      BY <1>5, <3>1 DEF DiskItem, Extent
  <2> QED
    BY <1>7, <1>9, <2>1 DEF Block
<1>11. Block(op.val, op.len) \in Recordable
  BY <1>3 DEF Recordable
<1>12. \A q \in Slot \ {P} : indx'[q] = indx[q]
  BY <1>1, <1>3, <1>4 DEF TypeOK
<1> QED
  BY <1>1, <1>3, <1>4, <1>5, <1>6, <1>8, <1>10, <1>11, <1>12, LogGrows

\* Formatting, and the death of the daemon.
LEMMA FormatStep ==
    ASSUME Clean, Clean', Format
    PROVE  Clears
<1>1. TypeOK /\ StepsFit /\ op = NoOp
  BY DEF Clean, IInv, StepsFit, Format, Ready, Idle
<1>2. /\ op' = op /\ indx' = [p \in Slot |-> << >>] /\ head' = EodHead(0, 0, 0)
  BY DEF Format
<1>3. At' = [part |-> 0, num |-> 0]
  BY <1>1, <1>2 DEF At, P, Here, NoOp, EodHead
<1>4. ASSUME NEW p \in Slot
      PROVE  DiskLog(p)' = << >>
  <2>1. indx'[p] = << >>
    BY <1>2
  <2>2. DiskLog(p)' = [i \in 1 .. 0 |-> DiskItem(p, i)']
    <3>1. Len(<< >>) = 0
      BY SMT
    <3> QED
      BY <2>1, <3>1 DEF DiskLog
  <2> QED
    BY <2>2, SMT
<1> QED
  BY <1>3, <1>4 DEF Clears, Log

\* The death of the daemon moves the head away and loses no item.
LEMMA CrashStep ==
    ASSUME Clean, Clean', Crash
    PROVE  Goes
<1> USE DEF disk
<1>1. UNCHANGED <<data, indx>> /\ op' = NoOp /\ head' = [pos |-> ZeroHeader, okw |-> FALSE]
  BY DEF Crash
<1>2. Log' = Log
  BY <1>1, LogSame
<1>3. P' = 0 /\ Here' = 0 /\ 0 \in Slot
  BY <1>1, ConstantsOK, SMT DEF P, Here, NoOp, ZeroHeader, Slot
<1>4. Len(Log[0]) \in Nat
  BY <1>3, LogOf DEF Clean, IInv
<1> QED
  BY <1>2, <1>3, <1>4, SMT DEF Goes

\* Every step of the store is one of the medium, or none.
LEMMA StepIsMedium ==
    ASSUME Clean, Clean', [Next]_vars
    PROVE  MediumStep
<1>1. CASE StartWrite
  BY <1>1, SilentStep DEF MediumStep, Stays
<1>2. CASE Format
  BY <1>2, FormatStep DEF MediumStep
<1>3. CASE WriteRefused \/ MoveHead \/ UnloadStart
             \/ (\E ro \in BOOLEAN, g \in 0 .. MaxBlocks : Load(ro, g))
  BY <1>3, QuietStep
<1>4. CASE FileStep
  BY <1>4, SilentStep, CutIndxStep, PutIndxStep, PutMarkStep, QuietStep
     DEF FileStep, MediumStep, Stays
<1>5. CASE Fault
  <2>1. TypeOK /\ OnlySafeFaults'
    BY DEF Clean, IInv
  <2>2. ~CutFails /\ ~IndxFails /\ ~MarkFails
    BY <2>1, NoUnsafeFault DEF CutFails, IndxFails, MarkFails
  <2> QED
    BY <1>5, <2>2, SilentStep DEF Fault, MediumStep, Stays
<1>6. CASE Crash
  BY <1>6, CrashStep DEF MediumStep
<1>7. CASE UNCHANGED vars
  <2>1. UNCHANGED <<data, indx, head, op>>
    BY <1>7 DEF vars, disk
  <2>2. Log' = Log
    BY <2>1, LogSame
  <2> QED
    BY <2>1, <2>2 DEF MediumStep, Stays, At, P, Here
<1> QED
  BY <1>1, <1>2, <1>3, <1>4, <1>5, <1>6, <1>7 DEF Next

\* The five kinds of step are those of TapeMedium.
LEMMA MediumStepIsNext ==
    ASSUME Clean, MediumStep
    PROVE  [Medium!Next]_(Medium!vars)
<1>1. P \in Slot /\ Here \in Nat /\ TypeOK
  BY DEF Clean, IInv, TypeOK, HeadType, Header, OpType, P, Here
<1>2. CASE Stays
  BY <1>2 DEF Stays, Log, At, Here, Medium!vars
<1>3. CASE Goes
  <2>1. Here' \in 0 .. Len(Log'[P'])
    <3>1. Log'[P'] = Log[P'] /\ Len(Log[P']) \in Nat
      BY <1>1, <1>3, LogOf DEF Goes
    <3> QED
      BY <1>3, <3>1, SMT DEF Goes
  <2> QED
    BY <1>3, <2>1 DEF Goes, Log, Here, Medium!Next, Medium!Reposition, Medium!HeadAt
<1>4. CASE Adds
  BY <1>4 DEF Adds, Log, At, Here, Medium!Next, Medium!Record
<1>5. CASE Drops
  BY <1>5 DEF Drops, Log, At, Here, Medium!Next, Medium!Discard
<1>6. CASE Clears
  <2>1. 0 \in Slot
    BY ConstantsOK, SMT DEF Slot
  <2> QED
    BY <1>6, <2>1 DEF Clears, Log, At, Here, Medium!Next, Medium!Reformat, Medium!HeadAt
<1> QED
  BY <1>2, <1>3, <1>4, <1>5, <1>6 DEF MediumStep

\* A cartridge never mounted is a medium that holds nothing.
LEMMA InitIsMedium ==
    ASSUME Init
    PROVE  Medium!Init
<1>1. 0 \in Slot
  BY ConstantsOK, SMT DEF Slot
<1>2. ASSUME NEW p \in Slot
      PROVE  DiskLog(p) = << >>
  <2>1. DiskLog(p) = [i \in 1 .. 0 |-> DiskItem(p, i)]
    <3>1. Len(<< >>) = 0
      BY SMT
    <3> QED
      BY <3>1 DEF DiskLog, Init
  <2> QED
    BY <2>1, SMT
<1>3. [part |-> P, num |-> IF op.kind = "mark" THEN op.num ELSE head.pos.num]
        = [part |-> 0, num |-> 0]
  BY DEF Init, P, NoOp, ZeroHeader
<1> QED
  BY <1>1, <1>2, <1>3 DEF Medium!Init, Medium!HeadAt

\* A partition once suspect stays so.
LEMMA CleanBefore ==
    ASSUME IInv, IInv', [Next]_vars, OnlySafeFaults', suspect' = {}
    PROVE  Clean /\ Clean'
<1>1. TypeOK /\ suspect \subseteq suspect'
  <2>1. TypeOK
    BY DEF IInv
  <2>2. suspect' = suspect \/ suspect \subseteq suspect'
    BY DEF Next, StartWrite, WriteBlock, WriteMarks, Erase, Format, WriteRefused, FileStep,
       CutIndx, CutData, MetaHead, MetaMap, MetaLen, PutData, PutIndx, PutMark,
       NextMarkOrDone, Wipe, Wiped, ClosePartition, Unload, Fault, CutFails, MetaFails,
       DataFails, IndxFails, MarkFails, Fail, MoveHead, Rewind, SpaceEod, ReadBlock, LoadAgain,
       SpaceBlocks, SpaceMarks, Locate, Move, Load, UnloadStart, Crash, vars, ghost
  <2> QED
    BY <2>1, <2>2
<1>2. OnlySafeFaults
  BY <1>1, SafeBefore
<1> QED
  BY <1>1, <1>2 DEF Clean

\* Every step of the store is a step of TapeMedium, or changes nothing it sees.
LEMMA CleanStep ==
    ASSUME IInv, IInv', [Next]_vars, OnlySafeFaults', suspect' = {}
    PROVE  [Medium!Next]_(Medium!vars)
BY CleanBefore, StepIsMedium, MediumStepIsNext

\* Though data writes fail and the daemon dies in the middle of a handler, every
\* step of the store is one of TapeMedium's: the header write of write_tape_block()
\* and of write_filemarks() records, the ftruncate() of the index in
\* check_for_overwrite() discards, and no other file operation changes what the
\* partitions hold.
THEOREM RecordsAsMedium ==
    Spec => [][OnlySafeFaults' /\ suspect' = {} => [Medium!Next]_(Medium!vars)]_vars
<1>1. ASSUME IInv, IInv', [Next]_vars
      PROVE  OnlySafeFaults' /\ suspect' = {} => [Medium!Next]_(Medium!vars)
  BY <1>1, CleanStep
<1> QED
  BY <1>1, SafeHolds, PTL DEF Spec

\* Where nothing else can fail, only data writes have failed.
LEMMA OnlyDataHolds ==
    ASSUME Faults \subseteq {"data"}
    PROVE  Spec => []OnlyData
<1>1. Init => OnlyData
  <2>1. \A i : i \notin DOMAIN << >>
    BY SMT
  <2> QED
    BY <2>1 DEF Init, OnlyData
<1>2. ASSUME TypeOK, OnlyData, [Next]_vars
      PROVE  OnlyData'
  <2>1. failures \in Seq(FaultKinds)
    BY <1>2 DEF TypeOK
  <2>2. failures' = failures \/ \E kind \in Faults : failures' = Append(failures, kind)
    BY <1>2 DEF Next, StartWrite, WriteBlock, WriteMarks, Erase, Format, WriteRefused, FileStep,
       CutIndx, CutData, MetaHead, MetaMap, MetaLen, PutData, PutIndx, PutMark,
       NextMarkOrDone, Wipe, Wiped, ClosePartition, Unload, Fault, CutFails, MetaFails,
       DataFails, IndxFails, MarkFails, Fail, MoveHead, Rewind, SpaceEod, ReadBlock, LoadAgain,
       SpaceBlocks, SpaceMarks, Locate, Move, Load, UnloadStart, Crash, vars, ghost
  <2>3. CASE failures' = failures
    BY <1>2, <2>3 DEF OnlyData
  <2>4. CASE failures' = Append(failures, "data")
    <3>1. \A i \in DOMAIN failures' : failures'[i] = "data" \/ (i \in DOMAIN failures /\ failures'[i] = failures[i])
      BY <2>1, <2>4, SMT
    <3> QED
      BY <1>2, <3>1 DEF OnlyData
  <2> QED
    BY <2>2, <2>3, <2>4
<1>3. IInv => TypeOK
  BY DEF IInv
<1> QED
  BY <1>1, <1>2, <1>3, SafeHolds, PTL DEF Spec

\* Without a crash the store is a TapeMedium: a host that knows only that its
\* partitions are logs with a head knows all that the three files, the buffers of
\* vtltape and the order of its system calls let it see of what is recorded.
THEOREM StoreIsMedium ==
    ASSUME Faults \subseteq {"data"}
    PROVE  Spec => MediumSpec
<1>1. ASSUME DInv, DInv', OnlyData, OnlyData', [Next]_vars
      PROVE  [Medium!Next]_(Medium!vars)
  <2>1. OnlySafeFaults' /\ suspect' = {} /\ IInv /\ IInv'
    BY <1>1 DEF OnlyData, OnlySafeFaults, DInv, DataInv, MapsSound, MapSound
  <2> QED
    BY <1>1, <2>1, CleanStep
<1> QED
  BY <1>1, InitIsMedium, MapsHold, OnlyDataHolds, PTL DEF Spec, MediumSpec, Medium!Spec

-----------------------------------------------------------------------------
(* SPACE *)

\* No partition grows beyond the bound the handlers that write are tested for.
Room ==
    /\ \A p \in Part : Len(indx[p]) <= MaxBlocks
    /\ op.kind = "write" => head.pos.num < MaxBlocks
    /\ op.kind = "mark" => op.num + op.len - Marked <= MaxBlocks

RoomInv == DInv /\ (OnlyData => Room)

\* How many blocks the handler in progress has still to write.
LEMMA StillToWrite ==
    ASSUME TypeOK, TypeOK', StepsFit, StepsFit', Room, [Next]_vars
    PROVE  /\ op'.kind = "write" => head'.pos.num < MaxBlocks
           /\ op'.kind = "mark" => op'.num + op'.len - Marked' <= MaxBlocks
<1> USE DEF disk, drive, ghost
<1>1. op \in OpType /\ op' \in OpType /\ head \in HeadType /\ head' \in HeadType /\ MaxBlocks \in Nat
  BY ConstantsOK DEF TypeOK
<1>2. CASE op' = NoOp
  BY <1>2 DEF NoOp
<1>3. CASE StartWrite
  <2>1. ASSUME NEW v \in Vals, NEW n \in 1 .. MaxLen, WriteBlock(v, n)
        PROVE  op'.kind = "write" /\ head'.pos = head.pos /\ head.pos.num < MaxBlocks
    BY <1>1, <2>1 DEF WriteBlock, Begin, HeadType
  <2>2. ASSUME NEW n \in 1 .. MaxMarks, WriteMarks(n)
        PROVE  op'.kind = "mark" /\ op'.num + op'.len - Marked' <= MaxBlocks
    <3>1. /\ op'.kind = "mark" /\ op'.step \in {"put_mark", "cut_indx"} /\ ~op'.cut
          /\ op'.num = head.pos.num /\ op'.len = n /\ op'.n = n /\ head.pos.num + n <= MaxBlocks
      BY <2>2 DEF WriteMarks, Begin
    <3>2. Marked' = op'.len - op'.n
      BY <3>1 DEF Marked, MetaSteps
    <3>3. head.pos.num \in Nat
      BY <1>1 DEF HeadType, Header
    <3> QED
      BY <3>1, <3>2, <3>3, SMT
  <2>3. Erase => op'.kind = "erase"
    BY DEF Erase, Begin
  <2> QED
    BY <1>3, <2>1, <2>2, <2>3 DEF StartWrite
<1>4. CASE CutIndx \/ CutData \/ MetaHead \/ MetaMap \/ MetaLen \/ PutData \/ Wipe
  <2>1. /\ op'.kind = op.kind /\ op'.num = op.num /\ op'.len = op.len /\ op'.n = op.n
        /\ UNCHANGED head
    BY <1>1, <1>4 DEF CutIndx, CutData, MetaHead, MetaMap, MetaLen, PutData, Wipe, OpType
  <2>2. op.kind = "mark" => Marked' = Marked
    <3>1. CASE MetaLen
      <4>1. op'.step = AfterMeta /\ op'.cut = FALSE /\ op.step = "meta_len"
        BY <1>1, <3>1 DEF MetaLen, OpType
      <4> QED
        BY <2>1, <4>1 DEF AfterMeta, AfterCut, Marked, MetaSteps
    <3>2. CASE MetaHead \/ MetaMap
      <4>1. op'.step \in MetaSteps /\ op.step \in MetaSteps /\ op'.cut = op.cut
        BY <1>1, <3>2 DEF MetaHead, MetaMap, OpType, MetaSteps
      <4> QED
        BY <2>1, <4>1 DEF Marked, MetaSteps
    <3>3. CASE CutIndx \/ PutData \/ Wipe
      BY <1>1, <2>1, <3>3 DEF CutIndx, PutData, Wipe, StepsFit, Marked, MetaSteps, OpType
    <3>4. CASE CutData
      <4>1. op.step = "cut_data" /\ ~op.cut
        BY <3>4 DEF CutData, StepsFit, MetaSteps
      <4>2. (op'.step = "meta_head" /\ op'.cut) \/ op'.step = AfterCut
        BY <1>1, <3>4 DEF CutData, OpType
      <4> QED
        BY <2>1, <4>1, <4>2 DEF AfterCut, Marked, MetaSteps
    <3> QED
      BY <1>4, <3>1, <3>2, <3>3, <3>4
  <2> QED
    BY <2>1, <2>2 DEF Room
<1>5. CASE PutMark
  <2>1. /\ op'.kind = op.kind /\ op'.num = op.num + 1 /\ op'.len = op.len /\ op'.n = op.n
        /\ op'.step = "meta_head" /\ op.step = "put_mark" /\ ~op.cut /\ ~op'.cut /\ op.kind = "mark"
    BY <1>1, <1>5 DEF PutMark, OpType, StepsFit, MetaSteps
  <2>2. Marked = op.len - op.n /\ Marked' = op.len - op.n + 1
    BY <2>1 DEF Marked, MetaSteps
  <2>3. op.num \in Nat /\ op.len \in Nat /\ op.n \in Nat
    BY <1>1 DEF OpType
  <2> QED
    BY <1>1, <2>1, <2>2, <2>3, SMT DEF Room
<1>6. CASE NextMarkOrDone /\ op' # NoOp
  <2>1. /\ op'.kind = op.kind /\ op'.num = op.num /\ op'.len = op.len /\ op'.n = op.n - 1
        /\ op'.step = "put_mark" /\ op.step = "marked" /\ op.kind = "mark"
    BY <1>1, <1>6 DEF NextMarkOrDone, OpType, StepsFit
  <2>2. Marked = op.len - op.n + 1 /\ Marked' = op.len - (op.n - 1)
    BY <2>1 DEF Marked, MetaSteps
  <2>3. op.num \in Nat /\ op.len \in Nat /\ op.n \in Nat
    BY <1>1 DEF OpType
  <2> QED
    BY <1>1, <2>1, <2>2, <2>3, SMT DEF Room
<1>7. CASE MetaFails /\ op' # NoOp
  <2>1. /\ op'.kind = op.kind /\ op'.num = op.num /\ op'.len = op.len /\ op'.n = op.n
        /\ UNCHANGED head /\ op'.step = AfterMeta /\ op.step \in MetaSteps /\ ~op.cut
    BY <1>1, <1>7 DEF MetaFails, OpType, MetaSteps
  <2>2. op.kind = "mark" => Marked' = Marked
    BY <2>1 DEF Marked, AfterMeta
  <2> QED
    BY <2>1, <2>2 DEF Room
<1>8. CASE UnloadStart \/ ClosePartition
  <2>1. op'.kind = "unload"
    BY <1>1, <1>8 DEF UnloadStart, ClosePartition, OpType, StepsFit, NoOp
  <2> QED
    BY <2>1
<1>9. CASE Format \/ WriteRefused \/ MoveHead
  <2>1. op' = NoOp
    BY <1>9 DEF Format, WriteRefused, MoveHead, Rewind, SpaceEod, ReadBlock, LoadAgain, SpaceBlocks,
       SpaceMarks, Locate, Move, Ready, Idle, StepsFit
  <2> QED
    BY <1>2, <2>1
<1>10. (\E ro \in BOOLEAN, g \in 0 .. MaxBlocks : Load(ro, g)) => op' = NoOp
  BY DEF Load, Idle, StepsFit
<1>11. CASE UNCHANGED vars
  BY <1>11 DEF vars, Room, Marked
<1>12. PutIndx \/ Wiped \/ Unload \/ CutFails \/ DataFails \/ IndxFails \/ MarkFails \/ Crash
          => op' = NoOp
  BY DEF PutIndx, Wiped, Unload, CutFails, DataFails, IndxFails, MarkFails, Crash
<1> QED
  BY <1>2, <1>3, <1>4, <1>5, <1>6, <1>7, <1>8, <1>9, <1>10, <1>11, <1>12
     DEF Next, FileStep, Fault

\* The bound on the blocks of a partition is kept.
LEMMA NextRoom ==
    ASSUME RoomInv, [Next]_vars
    PROVE  RoomInv'
<1>1. DInv'
  BY NextMaps DEF RoomInv
<1>2. ASSUME OnlyData'
      PROVE  Room'
  <2>1. OnlyData /\ DInv
    BY <1>2, DataBefore DEF RoomInv, DInv, IInv
  <2>2. Room /\ Clean /\ Clean'
    BY <1>1, <1>2, <2>1 DEF RoomInv, Clean, OnlyData, OnlySafeFaults, DInv, DataInv, MapsSound, MapSound
  <2>3. TypeOK /\ TypeOK' /\ StepsFit /\ StepsFit'
    BY <2>2 DEF Clean, IInv
  <2>4. /\ op'.kind = "write" => head'.pos.num < MaxBlocks
        /\ op'.kind = "mark" => op'.num + op'.len - Marked' <= MaxBlocks
    BY <2>2, <2>3, StillToWrite
  <2>5. MaxBlocks \in Nat /\ P \in Slot /\ Here \in Nat
    BY <2>3, ConstantsOK DEF TypeOK, HeadType, Header, OpType, P, Here
  <2>6. ASSUME NEW p \in Slot
        PROVE  Len(indx[p]) <= MaxBlocks /\ Len(indx[p]) \in Nat /\ Len(Log[p]) = Len(indx[p])
    <3>1. Len(indx[p]) \in Nat /\ Len(Log[p]) = Len(indx[p])
      BY <2>3, LogOf
    <3>2. CASE p \in Part
      BY <2>2, <3>1, <3>2 DEF Room
    <3>3. CASE p = NParts
      <4>1. indx[p] = << >> /\ Len(<< >>) = 0
        BY <2>2, <3>3, SMT DEF Clean, IInv, SafeInv, Sound, NothingBeyond
      <4> QED
        BY <2>5, <3>1, <4>1, SMT
    <3> QED
      BY <3>1, <3>2, <3>3, SlotsApart
  <2>7. ASSUME NEW p \in Slot
        PROVE  Len(Log'[p]) = Len(indx'[p])
    <3>1. Log'[p] = DiskLog(p)'
      BY DEF Log
    <3>2. Len(indx'[p]) \in Nat
      <4>1. indx'[p] \in Seq(Header)
        BY <2>3 DEF TypeOK
      <4> QED
        BY <4>1, SMT
    <3>3. DiskLog(p)' = [i \in 1 .. Len(indx'[p]) |-> DiskItem(p, i)']
      BY DEF DiskLog
    <3> QED
      BY <3>1, <3>2, <3>3, SMT
  <2>8. MediumStep
    BY <2>2, StepIsMedium
  <2>9. ASSUME NEW p \in Part
        PROVE  Len(indx'[p]) <= MaxBlocks
    <3>1. p \in Slot
      BY SlotsApart
    <3>2. CASE Stays \/ Goes
      BY <2>6, <2>7, <3>1, <3>2 DEF Stays, Goes
    <3>3. CASE Clears
      <4>1. Log'[p] = << >> /\ Len(<< >>) = 0
        BY <3>1, <3>3, SMT DEF Clears
      <4> QED
        BY <2>5, <2>7, <3>1, <4>1, SMT
    <3>4. CASE Drops
      <4>1. CASE p = P
        <5>1. Log'[P] = SubSeq(Log[P], 1, Here) /\ Here < Len(Log[P])
          BY <2>5, <3>4 DEF Drops, Log
        <5>2. Log[P] \in Seq(Item)
          BY <2>3, <2>5, LogOf
        <5>3. Len(Log'[P]) = Here
          BY <2>5, <5>1, <5>2, SMT
        <5> QED
          BY <2>5, <2>6, <2>7, <4>1, <5>1, <5>3, SMT
      <4>2. CASE p # P
        BY <2>6, <2>7, <3>1, <3>4, <4>2 DEF Drops, Log
      <4> QED
        BY <4>1, <4>2
    <3>5. CASE Adds /\ (PutIndx \/ PutMark)
      <4>1. CASE p = P
        <5>1. PICK item \in Recordable : Log'[P] = Append(Log[P], item) /\ Here = Len(Log[P])
          BY <2>5, <3>5 DEF Adds, Log
        <5>2. Log[P] \in Seq(Item)
          BY <2>3, <2>5, LogOf
        <5>3. Len(Log'[P]) = Here + 1
          BY <5>1, <5>2, SMT
        <5>4. Here + 1 <= MaxBlocks
          <6>1. CASE PutIndx
            <7>1. op.kind = "write"
              BY <2>3, <6>1 DEF PutIndx, StepsFit
            <7> QED
              BY <2>2, <2>5, <7>1, SMT DEF Room, Here
          <6>2. CASE PutMark
            <7>1. /\ op.kind = "mark" /\ op.step = "put_mark" /\ 1 <= op.n /\ op.n <= op.len
                  /\ op.num \in Nat /\ op.n \in Nat /\ op.len \in Nat
              BY <2>3, <6>2 DEF PutMark, StepsFit, TypeOK, OpType
            <7>2. Marked = op.len - op.n
              BY <7>1 DEF Marked, MetaSteps
            <7> QED
              BY <2>2, <2>5, <7>1, <7>2, SMT DEF Room, Here
          <6> QED
            BY <3>5, <6>1, <6>2
        <5> QED
          BY <2>5, <2>7, <4>1, <5>3, <5>4
      <4>2. CASE p # P
        BY <2>6, <2>7, <3>1, <3>5, <4>2 DEF Adds, Log
      <4> QED
        BY <4>1, <4>2
    <3> QED
      BY <2>8, <3>2, <3>3, <3>4, <3>5 DEF MediumStep
  <2> QED
    BY <2>4, <2>9 DEF Room
<1> QED
  BY <1>1, <1>2 DEF RoomInv

\* The searches of the filemark map: what IsNextMark and IsPrevMark tell of the
\* other entries, and what it means that there is none.
LEMMA NextMarkSplits ==
    ASSUME TypeOK, NEW p \in Slot, Ascending(fmap[p]), NEW blk \in Nat, HasNextMark(p, blk)
    PROVE  LET i == NextMark(p, blk)
           IN  /\ i \in 1 .. Len(fmap[p])
               /\ \A j \in 1 .. Len(fmap[p]) : fmap[p][j] >= blk <=> i <= j
<1> DEFINE i == NextMark(p, blk)
           m == fmap[p]
<1>1. /\ m \in Seq(Nat) /\ DOMAIN m = 1 .. Len(m) /\ Len(m) \in Nat
      /\ \A j \in 1 .. Len(m) : m[j] \in Nat /\ j \in Nat
  BY SMT DEF TypeOK
<1>2. i \in 1 .. Len(m) /\ m[i] >= blk /\ \A j \in 1 .. i - 1 : m[j] < blk
  BY <1>1, NextMarkIs DEF IsNextMark
<1>3. ASSUME NEW j \in 1 .. Len(m)
      PROVE  m[j] >= blk <=> i <= j
  <2> HIDE DEF i, m
  <2>1. CASE j < i
    <3>1. m[j] < blk
      BY <1>1, <1>2, <2>1, SMT
    <3> QED
      BY <1>1, <1>2, <2>1, <3>1, SMT
  <2>2. CASE j = i
    BY <1>1, <1>2, <2>2, SMT
  <2>3. CASE i < j
    <3>1. m[i] < m[j]
      BY <1>2, <2>3 DEF Ascending, m
    <3> QED
      BY <1>1, <1>2, <2>3, <3>1, SMT
  <2> QED
    BY <1>1, <1>2, <2>1, <2>2, <2>3, SMT
<1> QED
  BY <1>2, <1>3

\* The filemark before a block splits the map.
LEMMA PrevMarkSplits ==
    ASSUME TypeOK, NEW p \in Slot, Ascending(fmap[p]), NEW blk \in Nat, HasPrevMark(p, blk)
    PROVE  LET i == PrevMark(p, blk)
           IN  /\ i \in 1 .. Len(fmap[p])
               /\ \A j \in 1 .. Len(fmap[p]) : fmap[p][j] < blk <=> j <= i
<1> DEFINE i == PrevMark(p, blk)
           m == fmap[p]
<1>1. /\ m \in Seq(Nat) /\ DOMAIN m = 1 .. Len(m) /\ Len(m) \in Nat
      /\ \A j \in 1 .. Len(m) : m[j] \in Nat /\ j \in Nat
  BY SMT DEF TypeOK
<1>2. i \in 1 .. Len(m) /\ m[i] < blk /\ \A j \in i + 1 .. Len(m) : m[j] >= blk
  BY <1>1 DEF HasPrevMark, PrevMark, IsPrevMark
<1>3. ASSUME NEW j \in 1 .. Len(m)
      PROVE  m[j] < blk <=> j <= i
  <2> HIDE DEF i, m
  <2>1. CASE i < j
    <3>1. m[j] >= blk
      BY <1>1, <1>2, <2>1, SMT
    <3> QED
      BY <1>1, <1>2, <2>1, <3>1, SMT
  <2>2. CASE j = i
    BY <1>1, <1>2, <2>2, SMT
  <2>3. CASE j < i
    <3>1. m[j] < m[i]
      BY <1>2, <2>3 DEF Ascending, m
    <3> QED
      BY <1>1, <1>2, <2>3, <3>1, SMT
  <2> QED
    BY <1>1, <1>2, <2>1, <2>2, <2>3, SMT
<1> QED
  BY <1>2, <1>3

\* A map without one lies behind the block.
LEMMA NoPrevMark ==
    ASSUME TypeOK, NEW p \in Slot, NEW blk \in Nat, ~HasPrevMark(p, blk)
    PROVE  \A i \in 1 .. Len(fmap[p]) : fmap[p][i] >= blk
<1> DEFINE m == fmap[p]
           S == {k \in 0 .. Len(m) - 1 : m[Len(m) - k] < blk}
<1>1. m \in Seq(Nat) /\ DOMAIN m = 1 .. Len(m) /\ Len(m) \in Nat
  BY SMT DEF TypeOK
<1>2. \A i \in 1 .. Len(m) : m[i] \in Nat /\ i \in Nat
  BY <1>1, SMT
<1>3. ASSUME S # {}
      PROVE  FALSE
  <2>1. S \in SUBSET Nat
    BY <1>1, SMT
  <2>2. PICK k \in S : \A l \in S : k <= l
    BY <1>3, <2>1, LeastNumber
  <2>3. Len(m) - k \in 1 .. Len(m) /\ k \in 0 .. Len(m) - 1 /\ m[Len(m) - k] < blk
    BY <1>1, <2>2, SMT
  <2>4. ASSUME NEW j \in (Len(m) - k) + 1 .. Len(m)
        PROVE  m[j] >= blk
    <3>1. j \in 1 .. Len(m) /\ Len(m) - j \in 0 .. Len(m) - 1 /\ Len(m) - (Len(m) - j) = j
      BY <1>1, <2>3, SMT
    <3>2. ~(k <= Len(m) - j)
      BY <1>1, <2>3, SMT
    <3>3. ~(m[j] < blk)
      BY <2>2, <3>1, <3>2
    <3> QED
      BY <1>2, <3>1, <3>3, SMT
  <2>5. IsPrevMark(p, blk, Len(m) - k)
    BY <1>1, <2>3, <2>4 DEF IsPrevMark
  <2> QED
    BY <1>1, <2>3, <2>5 DEF HasPrevMark
<1>4. ASSUME NEW i \in 1 .. Len(m)
      PROVE  m[i] >= blk
  <2>1. Len(m) - i \in 0 .. Len(m) - 1 /\ Len(m) - (Len(m) - i) = i
    BY <1>1, SMT
  <2>2. ~(m[i] < blk)
    BY <1>3, <2>1
  <2> QED
    BY <1>2, <2>2, SMT
<1> QED
  BY <1>4

\* How many entries of the map there are from one to another.
LEMMA CountEntries ==
    ASSUME NEW m \in Seq(Nat), Ascending(m), NEW a \in 1 .. Len(m), NEW b \in 1 .. Len(m), a <= b
    PROVE  Cardinality({m[x] : x \in a .. b}) = b - a + 1
<1> DEFINE T == {m[x] : x \in a .. b}
           f == [x \in a .. b |-> m[x]]
<1>1. Len(m) \in Nat /\ a \in Int /\ b \in Int /\ \A x \in a .. b : x \in 1 .. Len(m) /\ x \in Int
  BY SMT
<1>2. \A x \in 1 .. Len(m) : m[x] \in Nat
  BY SMT
<1>3. f \in Surjection(a .. b, T)
  BY DEF Surjection
<1>4. ASSUME NEW x \in a .. b, NEW y \in a .. b, f[x] = f[y]
      PROVE  x = y
  <2>1. m[x] = m[y] /\ m[x] \in Nat
    BY <1>1, <1>2, <1>4
  <2>2. ~(x < y) /\ ~(y < x)
    <3>1. x < y => m[x] < m[y]
      BY <1>1 DEF Ascending
    <3>2. y < x => m[y] < m[x]
      BY <1>1 DEF Ascending
    <3>3. ~(m[x] < m[x])
      BY <2>1, SMT
    <3> QED
      BY <2>1, <3>1, <3>2, <3>3
  <2> QED
    BY <1>1, <2>2, SMT
<1>5. f \in Injection(a .. b, T)
  BY <1>4 DEF Injection, IsInjective
<1>6. IsFiniteSet(a .. b) /\ Cardinality(a .. b) = b - a + 1
  BY <1>1, FS_Interval, SMT
<1>7. Cardinality(T) = Cardinality(a .. b)
  <2> HIDE DEF T, f
  <2> QED
    BY <1>3, <1>5, <1>6, FS_Surjection
<1> QED
  BY <1>6, <1>7

\* uint32_t arithmetic that does not wrap.
LEMMA NoWrap ==
    ASSUME NEW a \in Nat, NEW w \in Nat \ {0}, a < w
    PROVE  a % w = a
BY SMT

\* Where the head is when SPACE may begin.
SpaceReady ==
    /\ TypeOK /\ Sound /\ EodKnown /\ P \in Part
    /\ Listed(P, fmap[P]) /\ head.pos.num <= Len(indx[P])

\* read_header() of a block that is there, or of the end of data, ends on it.
LEMMA ReadAt ==
    ASSUME TypeOK, Sound, EodKnown, NEW h \in HeadType, h.pos.part \in Part,
           NEW blk \in Nat, blk <= Len(indx[h.pos.part])
    PROVE  ReadHeader(h, blk).pos.num = blk /\ ReadHeader(h, blk).pos.part = h.pos.part
<1> DEFINE p == h.pos.part
<1>1. p \in Slot /\ eod[p].num = Len(indx[p]) /\ Len(indx[p]) \in Nat
  BY SlotsApart, DataEndType DEF EodKnown
<1>2. CASE blk = eod[p].num
  <2>1. ReadHeader(h, blk) = EodHead(p, blk, eod[p].off)
    BY <1>2 DEF ReadHeader
  <2> QED
    BY <2>1 DEF EodHead
<1>3. CASE blk # eod[p].num
  <2>1. blk < Len(indx[p]) /\ blk + 1 \in 1 .. Len(indx[p]) /\ (blk + 1) - 1 = blk
    BY <1>1, <1>3, SMT
  <2>2. ReadHeader(h, blk) = [h EXCEPT !.pos = indx[p][blk + 1]]
    BY <1>1, <1>3, <2>1 DEF ReadHeader
  <2>3. ReadHeader(h, blk).pos = indx[p][blk + 1]
    BY <2>2 DEF HeadType
  <2> QED
    BY <2>1, <2>3 DEF Sound, FilesSound, PartSound, Numbered
<1> QED
  BY <1>2, <1>3

\* position_to_block() goes to the block, but no further than the end of data.
LEMMA PositionedAt ==
    ASSUME TypeOK, Sound, EodKnown, NEW h \in HeadType, h.pos.part \in Part, NEW blk \in Nat
    PROVE  PositionToBlock(h, blk).pos.num = Lesser(blk, Len(indx[h.pos.part]))
<1> DEFINE p == h.pos.part
           n == Len(indx[p])
<1>1. eod[p].num = n /\ n \in Nat /\ n <= n
  <2>1. eod[p].num = n /\ n \in Nat
    BY SlotsApart, DataEndType DEF EodKnown
  <2> QED
    BY <2>1, SMT
<1>2. Lock(h) \in HeadType /\ Lock(h).pos = h.pos
  BY LockType, LockPlaced
<1>3. CASE blk > n
  <2>1. PositionToBlock(h, blk) = ReadHeader(Lock(h), n)
    BY <1>1, <1>2, <1>3 DEF PositionToBlock, PositionToEod
  <2>2. PositionToBlock(h, blk).pos.num = n
    BY <1>1, <1>2, <2>1, ReadAt
  <2> QED
    BY <1>1, <1>3, <2>2, SMT DEF Lesser
<1>4. CASE ~(blk > n) /\ blk = 0
  <2>1. PositionToBlock(h, blk) = RewindTape(Lock(h))
    BY <1>1, <1>4 DEF PositionToBlock
  <2>2. ReadHeader(Lock(h), 0) \in HeadType
    BY <1>2, ReadHeaderType, SMT
  <2>3. RewindTape(Lock(h)).pos = ReadHeader(Lock(h), 0).pos
    BY <2>2 DEF RewindTape, HeadType
  <2>4. RewindTape(Lock(h)).pos.num = 0
    <3>1. 0 \in Nat /\ 0 <= n
      BY <1>1, SMT
    <3> QED
      BY <1>2, <2>3, <3>1, ReadAt
  <2> QED
    BY <1>1, <1>4, <2>1, <2>4, SMT DEF Lesser
<1>5. CASE ~(blk > n) /\ blk # 0
  <2>1. PositionToBlock(h, blk) = ReadHeader(Lock(h), blk) /\ blk <= n
    BY <1>1, <1>5, SMT DEF PositionToBlock
  <2>2. PositionToBlock(h, blk).pos.num = blk
    BY <1>2, <2>1, ReadAt
  <2> QED
    BY <1>1, <2>1, <2>2, SMT DEF Lesser
<1> QED
  BY <1>3, <1>4, <1>5

\* The map and the marks of the index are the same numbers.
LEMMA MarksAre ==
    ASSUME SpaceReady
    PROVE  /\ MarkBlocks(P) = {fmap[P][i] : i \in 1 .. Len(fmap[P])}
           /\ Ascending(fmap[P]) /\ fmap[P] \in Seq(Nat) /\ Len(fmap[P]) \in Nat
           /\ \A i \in 1 .. Len(fmap[P]) :
                 fmap[P][i] \in Nat /\ fmap[P][i] + 1 \in Nat /\ fmap[P][i] + 1 <= Len(indx[P])
           /\ P \in Slot /\ Len(indx[P]) \in Nat /\ head.pos.num \in Nat /\ head \in HeadType
           /\ Lock(head) \in HeadType /\ Lock(head).pos = head.pos /\ eod[P].num = Len(indx[P])
<1>1. /\ P \in Slot /\ fmap[P] \in Seq(Nat) /\ Len(indx[P]) \in Nat /\ head \in HeadType
      /\ head.pos.num \in Nat /\ eod[P].num = Len(indx[P])
  BY SlotsApart, DataEndType, HeadFields DEF SpaceReady, TypeOK, EodKnown
<1>2. MarkBlocks(P) = {fmap[P][i] : i \in 1 .. Len(fmap[P])}
  BY <1>1, ListedIsMarksListed DEF SpaceReady, MarksListed, MarkBlocks
<1>3. \A i \in 1 .. Len(fmap[P]) : fmap[P][i] \in Nat
  BY <1>1, SMT
<1>4. \A i \in 1 .. Len(fmap[P]) : fmap[P][i] + 1 \in Nat /\ fmap[P][i] + 1 <= Len(indx[P])
  <2>1. \A i \in 1 .. Len(fmap[P]) : fmap[P][i] < Len(indx[P])
    BY DEF SpaceReady, Listed
  <2> QED
    BY <1>1, <1>3, <2>1, SMT
<1>5. Lock(head) \in HeadType /\ Lock(head).pos = head.pos
  BY <1>1, LockType, LockPlaced
<1>6. Ascending(fmap[P]) /\ Len(fmap[P]) \in Nat
  BY <1>1, SMT DEF SpaceReady, Listed, ListsMarks
<1> QED
  BY <1>1, <1>2, <1>3, <1>4, <1>5, <1>6

\* SPACE over blocks forward stops at the first filemark, the end of data or its count,
LEMMA BlocksForwExact ==
    ASSUME SpaceReady, NEW n \in Nat \ {0}, head.pos.num + n < Word
    PROVE  PositionBlocksForw(head, n).pos.num = BlocksForwTo(P, head.pos.num, n)
<1> DEFINE blk == head.pos.num
           m == fmap[P]
           i == NextMark(P, blk)
           way == {x \in MarkBlocks(P) : blk <= x /\ x < blk + n}
<1>1. /\ MarkBlocks(P) = {m[j] : j \in 1 .. Len(m)} /\ Ascending(m)
      /\ \A j \in 1 .. Len(m) : m[j] \in Nat /\ m[j] + 1 \in Nat /\ m[j] + 1 <= Len(indx[P])
      /\ P \in Slot /\ blk \in Nat /\ head \in HeadType /\ Lock(head) \in HeadType
      /\ Lock(head).pos = head.pos /\ Len(indx[P]) \in Nat
  BY MarksAre
<1>2. TypeOK /\ Sound /\ EodKnown /\ head.pos.part \in Part /\ P = head.pos.part
  BY DEF SpaceReady, P
<1>3. (blk + n) % Word = blk + n /\ blk + n \in Nat
  <2>1. blk + n \in Nat
    BY <1>1, SMT
  <2> QED
    BY <2>1, WordPositive, NoWrap
<1>4. CASE HasNextMark(P, blk) /\ m[i] < blk + n
  <2>1. i \in 1 .. Len(m) /\ \A j \in 1 .. Len(m) : m[j] >= blk <=> i <= j
    BY <1>1, <1>2, <1>4, NextMarkSplits
  <2>2. m[i] \in way
    <3>1. m[i] >= blk
      <4>1. i <= i
        BY <2>1, SMT
      <4> QED
        BY <2>1, <4>1
    <3> QED
      BY <1>1, <1>4, <2>1, <3>1, SMT
  <2>3. \A k \in way : blk <= m[i] /\ m[i] <= k
    <3>1. ASSUME NEW j \in 1 .. Len(m), blk <= m[j]
          PROVE  m[i] <= m[j]
      <4>1. i <= j
        BY <1>1, <2>1, <3>1, SMT
      <4>2. i < j => m[i] < m[j]
        BY <1>1, <2>1 DEF Ascending
      <4> QED
        BY <1>1, <2>1, <4>1, <4>2, SMT
    <3> QED
      BY <1>1, <2>2, <3>1
  <2>4. Nearest(way, blk) = m[i]
    <3>1. \A x \in way : (\A k \in way : blk <= x /\ x <= k) => x = m[i]
      <4>1. \A x \in way : x \in Nat /\ m[i] \in Nat
        BY <1>1, <2>1
      <4> QED
        BY <2>2, <2>3, <4>1, SMT
    <3> QED
      BY <2>2, <2>3, <3>1 DEF Nearest
  <2>5. BlocksForwTo(P, blk, n) = m[i] + 1
    BY <2>2, <2>4 DEF BlocksForwTo
  <2>6. PositionBlocksForw(head, n) = ReadHeader(Lock(head), m[i] + 1)
    BY <1>2, <1>3, <1>4 DEF PositionBlocksForw
  <2>7. ReadHeader(Lock(head), m[i] + 1).pos.num = m[i] + 1
    BY <1>1, <1>2, <2>1, ReadAt
  <2> QED
    BY <2>5, <2>6, <2>7
<1>5. CASE ~(HasNextMark(P, blk) /\ m[i] < blk + n)
  <2>1. ASSUME NEW j \in 1 .. Len(m), blk <= m[j], m[j] < blk + n
        PROVE  FALSE
    <3>1. CASE ~HasNextMark(P, blk)
      BY <1>1, <1>2, <2>1, <3>1, NoNextMark, SMT
    <3>2. CASE HasNextMark(P, blk)
      <4>1. i \in 1 .. Len(m) /\ i <= j
        <5>1. m[j] >= blk
          BY <1>1, <2>1, SMT
        <5> QED
          BY <1>1, <1>2, <3>2, <5>1, NextMarkSplits
      <4>2. i < j => m[i] < m[j]
        BY <1>1, <4>1 DEF Ascending
      <4>3. ~(m[i] < blk + n)
        BY <1>5, <3>2
      <4> QED
        BY <1>1, <1>3, <2>1, <4>1, <4>2, <4>3, SMT
    <3> QED
      BY <3>1, <3>2
  <2>2. way = {}
    BY <1>1, <2>1
  <2>3. BlocksForwTo(P, blk, n) = Lesser(blk + n, Len(indx[P]))
    BY <2>2 DEF BlocksForwTo
  <2>4. PositionBlocksForw(head, n) = PositionToBlock(head, blk + n)
    BY <1>2, <1>3, <1>5 DEF PositionBlocksForw
  <2> QED
    BY <1>1, <1>2, <1>3, <2>3, <2>4, PositionedAt
<1> QED
  BY <1>4, <1>5

\* and backward at the first filemark, block 0 or its count.
LEMMA BlocksBackExact ==
    ASSUME SpaceReady, NEW n \in Nat \ {0}, n <= head.pos.num, head.pos.num < Word
    PROVE  PositionBlocksBack(head, n).pos.num = BlocksBackTo(P, head.pos.num, n)
<1> DEFINE blk == head.pos.num
           m == fmap[P]
           i == PrevMark(P, blk)
           way == {x \in MarkBlocks(P) : blk - n <= x /\ x < blk}
<1>1. /\ MarkBlocks(P) = {m[j] : j \in 1 .. Len(m)} /\ Ascending(m)
      /\ \A j \in 1 .. Len(m) : m[j] \in Nat /\ m[j] + 1 \in Nat /\ m[j] + 1 <= Len(indx[P])
      /\ P \in Slot /\ blk \in Nat /\ head \in HeadType /\ Lock(head) \in HeadType
      /\ Lock(head).pos = head.pos /\ Len(indx[P]) \in Nat
  BY MarksAre
<1>2. /\ TypeOK /\ Sound /\ EodKnown /\ head.pos.part \in Part /\ P = head.pos.part
      /\ blk <= Len(indx[P])
  BY DEF SpaceReady, P
<1>3. (blk - n) % Word = blk - n /\ blk - n \in Nat
  <2>1. blk - n \in Nat /\ blk - n < Word
    BY <1>1, WordPositive, SMT
  <2> QED
    BY <2>1, WordPositive, NoWrap
<1>4. CASE HasPrevMark(P, blk) /\ m[i] >= blk - n
  <2>1. i \in 1 .. Len(m) /\ \A j \in 1 .. Len(m) : m[j] < blk <=> j <= i
    BY <1>1, <1>2, <1>4, PrevMarkSplits
  <2>2. m[i] \in way
    <3>1. m[i] < blk
      <4>1. i <= i
        BY <2>1, SMT
      <4> QED
        BY <2>1, <4>1
    <3> QED
      BY <1>1, <1>3, <1>4, <2>1, <3>1, SMT
  <2>3. \A k \in way : k <= m[i]
    <3>1. ASSUME NEW j \in 1 .. Len(m), m[j] < blk
          PROVE  m[j] <= m[i]
      <4>1. j <= i
        BY <1>1, <2>1, <3>1, SMT
      <4>2. j < i => m[j] < m[i]
        BY <1>1, <2>1 DEF Ascending
      <4> QED
        BY <1>1, <2>1, <4>1, <4>2, SMT
    <3> QED
      BY <1>1, <2>2, <3>1
  <2>4. Last(way) = m[i]
    <3>1. \A x \in way : (\A k \in way : k <= x) => x = m[i]
      <4>1. \A x \in way : x \in Nat /\ m[i] \in Nat
        BY <1>1, <2>1
      <4> QED
        BY <2>2, <2>3, <4>1, SMT
    <3> QED
      BY <2>2, <2>3, <3>1 DEF Last
  <2>5. BlocksBackTo(P, blk, n) = m[i]
    BY <2>2, <2>4 DEF BlocksBackTo
  <2>6. PositionBlocksBack(head, n) = ReadHeader(Lock(head), m[i])
    BY <1>2, <1>3, <1>4 DEF PositionBlocksBack
  <2>7. ReadHeader(Lock(head), m[i]).pos.num = m[i]
    <3>1. m[i] <= Len(indx[P]) /\ m[i] \in Nat
      BY <1>1, <2>1, SMT
    <3> QED
      BY <1>1, <1>2, <3>1, ReadAt
  <2> QED
    BY <2>5, <2>6, <2>7
<1>5. CASE ~(HasPrevMark(P, blk) /\ m[i] >= blk - n)
  <2>1. ASSUME NEW j \in 1 .. Len(m), blk - n <= m[j], m[j] < blk
        PROVE  FALSE
    <3>1. CASE ~HasPrevMark(P, blk)
      BY <1>1, <1>2, <2>1, <3>1, NoPrevMark, SMT
    <3>2. CASE HasPrevMark(P, blk)
      <4>1. i \in 1 .. Len(m) /\ j <= i
        BY <1>1, <1>2, <2>1, <3>2, PrevMarkSplits
      <4>2. j < i => m[j] < m[i]
        BY <1>1, <4>1 DEF Ascending
      <4>3. ~(m[i] >= blk - n)
        BY <1>5, <3>2
      <4> QED
        BY <1>1, <1>3, <2>1, <4>1, <4>2, <4>3, SMT
    <3> QED
      BY <3>1, <3>2
  <2>2. way = {}
    BY <1>1, <2>1
  <2>3. BlocksBackTo(P, blk, n) = blk - n
    BY <2>2 DEF BlocksBackTo
  <2>4. PositionBlocksBack(head, n) = PositionToBlock(head, blk - n)
    BY <1>2, <1>3, <1>5 DEF PositionBlocksBack
  <2>5. PositionToBlock(head, blk - n).pos.num = Lesser(blk - n, Len(indx[P]))
    BY <1>1, <1>2, <1>3, PositionedAt
  <2>6. Lesser(blk - n, Len(indx[P])) = blk - n
    BY <1>1, <1>2, <1>3, SMT DEF Lesser
  <2> QED
    BY <2>3, <2>4, <2>5, <2>6
<1> QED
  BY <1>4, <1>5

\* A map that ascends lists each filemark once, in order.
LEMMA AscendingOrder ==
    ASSUME NEW m \in Seq(Nat), Ascending(m), NEW x \in 1 .. Len(m), NEW y \in 1 .. Len(m)
    PROVE  (m[x] <= m[y] <=> x <= y) /\ (m[x] = m[y] => x = y)
<1>1. m[x] \in Nat /\ m[y] \in Nat /\ x \in Nat /\ y \in Nat
  BY SMT
<1>2. (x < y => m[x] < m[y]) /\ (y < x => m[y] < m[x])
  BY DEF Ascending
<1> QED
  BY <1>1, <1>2, SMT

\* SPACE over filemarks forward stops behind the n-th, or at the end of data,
LEMMA MarksForwExact ==
    ASSUME SpaceReady, NEW n \in Nat \ {0}
    PROVE  PositionMarksForw(head, n).pos.num = MarksForwTo(P, head.pos.num, n)
<1> DEFINE blk == head.pos.num
           m == fmap[P]
           f == NextMark(P, blk)
           upTo(x) == {k \in MarkBlocks(P) : blk <= k /\ k <= x}
           nth == {x \in MarkBlocks(P) : blk <= x /\ Cardinality(upTo(x)) = n}
<1>1. /\ MarkBlocks(P) = {m[j] : j \in 1 .. Len(m)} /\ Ascending(m) /\ m \in Seq(Nat)
      /\ \A j \in 1 .. Len(m) : m[j] \in Nat /\ m[j] + 1 \in Nat /\ m[j] + 1 <= Len(indx[P])
      /\ P \in Slot /\ blk \in Nat /\ head \in HeadType /\ Lock(head) \in HeadType
      /\ Lock(head).pos = head.pos /\ Len(indx[P]) \in Nat /\ eod[P].num = Len(indx[P])
      /\ Len(m) \in Nat
  BY MarksAre
<1>2. TypeOK /\ Sound /\ EodKnown /\ head.pos.part \in Part /\ P = head.pos.part
  BY DEF SpaceReady, P
<1>3. MarksForwTo(P, blk, n) = IF nth = {} THEN Len(indx[P]) ELSE Last(nth) + 1
  BY DEF MarksForwTo
<1>4. ReadHeader(Lock(head), eod[P].num).pos.num = Len(indx[P])
  <2>1. Len(indx[P]) <= Len(indx[P])
    BY <1>1, SMT
  <2> QED
    BY <1>1, <1>2, <2>1, ReadAt
<1>5. CASE ~HasNextMark(P, blk)
  <2>1. \A j \in 1 .. Len(m) : ~(blk <= m[j])
    BY <1>1, <1>2, <1>5, NoNextMark, SMT
  <2>2. nth = {}
    BY <1>1, <2>1
  <2> QED
    BY <1>2, <1>3, <1>4, <1>5, <2>2 DEF PositionMarksForw
<1>6. CASE HasNextMark(P, blk)
  <2>1. f \in 1 .. Len(m) /\ \A j \in 1 .. Len(m) : blk <= m[j] <=> f <= j
    <3>1. f \in 1 .. Len(m) /\ \A j \in 1 .. Len(m) : m[j] >= blk <=> f <= j
      BY <1>1, <1>2, <1>6, NextMarkSplits
    <3> QED
      BY <1>1, <3>1, SMT
  <2>2. ASSUME NEW j \in 1 .. Len(m), f <= j
        PROVE  Cardinality(upTo(m[j])) = j - f + 1
    <3>1. \A x \in 1 .. Len(m) : blk <= m[x] /\ m[x] <= m[j] <=> x \in f .. j
      <4>1. \A x \in 1 .. Len(m) : m[x] <= m[j] <=> x <= j
        BY <1>1, AscendingOrder
      <4> QED
        BY <2>1, <4>1, SMT
    <3>2. \A x \in f .. j : x \in 1 .. Len(m)
      BY <1>1, <2>1, SMT
    <3>3. upTo(m[j]) = {m[x] : x \in f .. j}
      BY <1>1, <3>1, <3>2
    <3> QED
      BY <1>1, <2>1, <2>2, <3>3, CountEntries
  <2> HIDE DEF upTo
  <2>3. \A x : x \in nth <=> \E j \in 1 .. Len(m) : x = m[j] /\ f <= j /\ j - f + 1 = n
    BY <1>1, <2>1, <2>2
  <2> DEFINE i == f + n - 1
  <2>4. \A j \in 1 .. Len(m) : f <= j /\ j - f + 1 = n <=> j = i
    BY <2>1, SMT
  <2>5. i \in Int /\ i >= 1
    BY <2>1, SMT
  <2> HIDE DEF nth
  <2>6. CASE i <= Len(m)
    <3>1. i \in 1 .. Len(m)
      BY <1>1, <2>5, <2>6, SMT
    <3>2. nth = {m[i]}
      BY <2>3, <2>4, <3>1
    <3>3. m[i] <= m[i]
      BY <1>1, <3>1, SMT
    <3>4. Last(nth) = m[i]
      BY <3>2, <3>3 DEF Last
    <3>5. PositionMarksForw(head, n) = PositionToBlock(head, m[i] + 1)
      BY <1>2, <1>6, <2>6 DEF PositionMarksForw
    <3>6. PositionToBlock(head, m[i] + 1).pos.num = Lesser(m[i] + 1, Len(indx[P]))
      BY <1>1, <1>2, <3>1, PositionedAt
    <3>7. Lesser(m[i] + 1, Len(indx[P])) = m[i] + 1
      BY <1>1, <3>1, SMT DEF Lesser
    <3> QED
      BY <1>3, <3>2, <3>4, <3>5, <3>6, <3>7
  <2>7. CASE ~(i <= Len(m))
    <3>1. \A j \in 1 .. Len(m) : j # i
      BY <1>1, <2>5, <2>7, SMT
    <3>2. nth = {}
      BY <2>3, <2>4, <3>1
    <3>3. PositionMarksForw(head, n) = ReadHeader(Lock(head), eod[P].num)
      BY <1>2, <2>7 DEF PositionMarksForw
    <3> QED
      BY <1>3, <1>4, <3>2, <3>3
  <2> QED
    BY <2>6, <2>7
<1> QED
  BY <1>5, <1>6

\* and backward before the n-th, or at block 0.
LEMMA MarksBackExact ==
    ASSUME SpaceReady, NEW n \in Nat \ {0}
    PROVE  PositionMarksBack(head, n).pos.num = MarksBackTo(P, head.pos.num, n)
<1> DEFINE blk == head.pos.num
           m == fmap[P]
           l == PrevMark(P, blk)
           from(x) == {k \in MarkBlocks(P) : x <= k /\ k < blk}
           nth == {x \in MarkBlocks(P) : x < blk /\ Cardinality(from(x)) = n}
<1>1. /\ MarkBlocks(P) = {m[j] : j \in 1 .. Len(m)} /\ Ascending(m) /\ m \in Seq(Nat)
      /\ \A j \in 1 .. Len(m) : m[j] \in Nat /\ m[j] + 1 \in Nat /\ m[j] + 1 <= Len(indx[P])
      /\ P \in Slot /\ blk \in Nat /\ head \in HeadType /\ Lock(head) \in HeadType
      /\ Lock(head).pos = head.pos /\ Len(indx[P]) \in Nat /\ Len(m) \in Nat
  BY MarksAre
<1>2. TypeOK /\ Sound /\ EodKnown /\ head.pos.part \in Part /\ P = head.pos.part
  BY DEF SpaceReady, P
<1>3. MarksBackTo(P, blk, n) = IF nth = {} THEN 0 ELSE Last(nth)
  BY DEF MarksBackTo
<1>4. ReadHeader(Lock(head), 0).pos.num = 0
  <2>1. 0 \in Nat /\ 0 <= Len(indx[P])
    BY <1>1, SMT
  <2> QED
    BY <1>1, <1>2, <2>1, ReadAt
<1>5. CASE ~HasPrevMark(P, blk)
  <2>1. \A j \in 1 .. Len(m) : ~(m[j] < blk)
    BY <1>1, <1>2, <1>5, NoPrevMark, SMT
  <2>2. nth = {}
    BY <1>1, <2>1
  <2> QED
    BY <1>2, <1>3, <1>4, <1>5, <2>2 DEF PositionMarksBack
<1>6. CASE HasPrevMark(P, blk)
  <2>1. l \in 1 .. Len(m) /\ \A j \in 1 .. Len(m) : m[j] < blk <=> j <= l
    BY <1>1, <1>2, <1>6, PrevMarkSplits
  <2>2. ASSUME NEW j \in 1 .. Len(m), j <= l
        PROVE  Cardinality(from(m[j])) = l - j + 1
    <3>1. \A x \in 1 .. Len(m) : m[j] <= m[x] /\ m[x] < blk <=> x \in j .. l
      <4>1. \A x \in 1 .. Len(m) : m[j] <= m[x] <=> j <= x
        BY <1>1, AscendingOrder
      <4> QED
        BY <2>1, <4>1, SMT
    <3>2. \A x \in j .. l : x \in 1 .. Len(m)
      BY <1>1, <2>1, SMT
    <3>3. from(m[j]) = {m[x] : x \in j .. l}
      BY <1>1, <3>1, <3>2
    <3> QED
      BY <1>1, <2>1, <2>2, <3>3, CountEntries
  <2> HIDE DEF from
  <2>3. \A x : x \in nth <=> \E j \in 1 .. Len(m) : x = m[j] /\ j <= l /\ l - j + 1 = n
    BY <1>1, <2>1, <2>2
  <2> DEFINE i == l - n + 1
  <2>4. \A j \in 1 .. Len(m) : j <= l /\ l - j + 1 = n <=> j = i
    BY <2>1, SMT
  <2>5. i \in Int /\ i <= Len(m)
    BY <1>1, <2>1, SMT
  <2> HIDE DEF nth
  <2>6. CASE i >= 1
    <3>1. i \in 1 .. Len(m)
      BY <1>1, <2>5, <2>6, SMT
    <3>2. nth = {m[i]}
      BY <2>3, <2>4, <3>1
    <3>3. m[i] <= m[i]
      BY <1>1, <3>1, SMT
    <3>4. Last(nth) = m[i]
      BY <3>2, <3>3 DEF Last
    <3>5. PositionMarksBack(head, n) = PositionToBlock(head, m[i])
      BY <1>2, <1>6, <2>6 DEF PositionMarksBack
    <3>6. PositionToBlock(head, m[i]).pos.num = Lesser(m[i], Len(indx[P]))
      BY <1>1, <1>2, <3>1, PositionedAt
    <3>7. Lesser(m[i], Len(indx[P])) = m[i]
      BY <1>1, <3>1, SMT DEF Lesser
    <3> QED
      BY <1>3, <3>2, <3>4, <3>5, <3>6, <3>7
  <2>7. CASE ~(i >= 1)
    <3>1. \A j \in 1 .. Len(m) : j # i
      BY <1>1, <2>5, <2>7, SMT
    <3>2. nth = {}
      BY <2>3, <2>4, <3>1
    <3>3. PositionMarksBack(head, n) = ReadHeader(Lock(head), 0)
      BY <1>2, <2>7 DEF PositionMarksBack
    <3> QED
      BY <1>3, <1>4, <3>2, <3>3
  <2> QED
    BY <2>6, <2>7
<1> QED
  BY <1>5, <1>6

\* No partition is longer than MaxBlocks.
LEMMA RoomHolds == Spec => []RoomInv
<1>1. Init => RoomInv
  <2>1. ASSUME Init
        PROVE  Room
    <3>1. Len(<< >>) <= MaxBlocks
      BY ConstantsOK, SMT
    <3> QED
      BY <2>1, <3>1, SlotsApart DEF Init, Room, NoOp
  <2> QED
    BY <2>1, InitMaps DEF RoomInv
<1>2. RoomInv /\ [Next]_vars => RoomInv'
  BY NextRoom
<1> QED
  BY <1>1, <1>2, PTL DEF Spec

\* As long as only data writes fail, SPACE over blocks and over filemarks, in both
\* directions, stops on the block the index calls for.  position_blocks_forw() and
\* its three siblings look at the filemark map alone and do their arithmetic in
\* uint32_t: no partition is so long that a count of SPACE would wrap.
THEOREM SpacingHolds ==
    ASSUME MaxBlocks + MaxSpace < Word
    PROVE  Spec => [](OnlyData => SpacingExact)
<1>1. ASSUME RoomInv, OnlyData, Ready, TapeLoaded
      PROVE  SpaceReady /\ head.pos.num \in Nat /\ head.pos.num <= MaxBlocks
  <2>1. /\ TypeOK /\ StepsFit /\ Sound /\ MapsSound /\ DInv /\ Room
        /\ \A p \in Part : p \in Slot
    BY <1>1, DInvSays DEF RoomInv
  <2>2. ~Writing /\ status = "loaded" /\ P \in Part
    BY <1>1, <2>1 DEF Ready, Idle, StepsFit, NoOp, Writing, TapeLoaded, TypeOK
  <2>3. EodKnown
    BY <2>1, <2>2, EodKnownReady
  <2>4. fmap[P] = mfile[P].map /\ Listed(P, mfile[P].map)
    BY <2>1, <2>2 DEF MapsSound, MapSound, MapAgrees
  <2>5. Listed(P, fmap[P])
    BY <2>4
  <2>6. Placed(head)
    BY <2>1, <2>2 DEF Sound, HeadSound
  <2>7. head.pos.num \in Nat /\ Len(indx[P]) \in Nat /\ MaxBlocks \in Nat /\ Len(indx[P]) <= MaxBlocks
    BY <2>1, <2>2, HeadFields, DataEndType, ConstantsOK DEF Room
  <2>8. head.pos.num <= Len(indx[P])
    BY <2>1, <2>2, <2>3, <2>6, <2>7, SMT DEF Placed, OnHeader, OnEod, EodHead, EodKnown, P
  <2> QED
    BY <2>1, <2>2, <2>3, <2>5, <2>7, <2>8, SMT DEF SpaceReady
<1>2. ASSUME RoomInv, OnlyData
      PROVE  SpacingExact
  <2>1. ASSUME Ready, TapeLoaded, NEW n \in 1 .. MaxSpace
        PROVE  /\ PositionBlocksForw(head, n).pos.num = BlocksForwTo(P, head.pos.num, n)
               /\ n <= head.pos.num =>
                     PositionBlocksBack(head, n).pos.num = BlocksBackTo(P, head.pos.num, n)
               /\ PositionMarksForw(head, n).pos.num = MarksForwTo(P, head.pos.num, n)
               /\ PositionMarksBack(head, n).pos.num = MarksBackTo(P, head.pos.num, n)
    <3>1. SpaceReady /\ head.pos.num \in Nat /\ head.pos.num <= MaxBlocks
      BY <1>1, <1>2, <2>1
    <3>2. n \in Nat \ {0} /\ head.pos.num + n < Word /\ head.pos.num < Word
      BY <3>1, ConstantsOK, SMT
    <3> QED
      BY <3>1, <3>2, BlocksForwExact, BlocksBackExact, MarksForwExact, MarksBackExact
  <2> QED
    BY <2>1 DEF SpacingExact
<1> QED
  BY <1>2, RoomHolds, PTL

-----------------------------------------------------------------------------
(* WORM media *)

\* A head may carry the permission to write a WORM medium only where there is
\* nothing to lose: at end of data, or on the only filemark of its partition.
Permitted(h) == h.okw => WormBlank(h)

\* A handler cuts the index of a WORM medium only where the only thing to lose is
\* one filemark, or for a WRITE FILEMARKS at block 0.
CutsNothing == op.step = "cut_indx" => OnlyMark(P) \/ MarkAtZero

MarksEmpty == \A p \in Slot : \A i \in 1 .. Len(Log[p]) :
                  Log[p][i].type = "fm" => Log[p][i] = Mark

Worm == /\ Ready => Permitted(head)
        /\ CutsNothing
        /\ MarksEmpty

WormInv == IInv /\ (MediumType = "worm" /\ OnlySafeFaults /\ suspect = {} => Worm)

\* read_header() of a WORM medium permits a write at the end of data alone.
LEMMA LockedPermitted ==
    ASSUME NEW h \in HeadType, NEW blk, ~h.okw
    PROVE  Permitted(ReadHeader(h, blk))
<1>1. Permitted(h)
  BY DEF Permitted
<1>2. Permitted(EodHead(h.pos.part, blk, eod[h.pos.part].off))
  BY DEF Permitted, EodHead, WormBlank
<1>3. ~[h EXCEPT !.pos = indx[h.pos.part][blk + 1]].okw
  BY DEF HeadType
<1>4. Permitted([h EXCEPT !.pos = indx[h.pos.part][blk + 1]])
  BY <1>3 DEF Permitted
<1> QED
  BY <1>1, <1>2, <1>4 DEF ReadHeader

\* position_to_eod() is such a read.
LEMMA EodPermitted ==
    ASSUME NEW h
    PROVE  Permitted(PositionToEod(h))
BY DEF PositionToEod, ReadHeader, Permitted, EodHead, WormBlank

\* rewind_tape() permits one to a blank medium, or to one that starts with a filemark.
LEMMA RewindPermitted ==
    ASSUME TypeOK, Sound, EodKnown, MediumType = "worm", NEW h \in HeadType
    PROVE  Permitted(RewindTape(h))
<1> DEFINE p == h.pos.part
           r == ReadHeader(h, 0)
<1>1. p \in Slot /\ eod[p].num = Len(indx[p]) /\ Len(indx[p]) \in Nat
  BY DataEndType DEF HeadType, Header, EodKnown
<1>2. p = NParts => eod[p].num = 0
  BY DEF Sound, NothingBeyond
<1>3. Readable(p, 0)
  BY <1>1, <1>2, SlotsApart, SMT DEF Readable
<1>4. r \in HeadType
  BY ReadHeaderType, SMT
<1>5. RewindTape(h) = [r EXCEPT !.okw = WormBlank(r)]
  BY <1>3 DEF RewindTape
<1>6. RewindTape(h).pos = r.pos /\ RewindTape(h).okw = WormBlank(r)
  BY <1>4, <1>5 DEF HeadType
<1> QED
  BY <1>6 DEF Permitted, WormBlank

\* position_to_block() reads the header it moves to, or rewinds.
LEMMA BlockPermitted ==
    ASSUME TypeOK, Sound, EodKnown, MediumType = "worm", NEW h \in HeadType, NEW blk
    PROVE  Permitted(PositionToBlock(h, blk)) /\ Permitted(ReadHeader(Lock(h), blk))
<1>1. Lock(h) \in HeadType /\ ~Lock(h).okw
  BY LockType DEF Lock, HeadType
<1> QED
  BY <1>1, LockedPermitted, RewindPermitted, EodPermitted DEF PositionToBlock

\* SPACE moves by position_to_block(), once its permission is taken away.
LEMMA SpacePermitted ==
    ASSUME TypeOK, Sound, EodKnown, MediumType = "worm", NEW h \in HeadType, NEW n
    PROVE  /\ Permitted(PositionBlocksForw(h, n)) /\ Permitted(PositionBlocksBack(h, n))
           /\ Permitted(PositionMarksForw(h, n)) /\ Permitted(PositionMarksBack(h, n))
BY BlockPermitted DEF PositionBlocksForw, PositionBlocksBack, PositionMarksForw, PositionMarksBack

\* The handlers that move the head.  readBlock() goes on from a data block with the
\* permission it has: there it has none.
LEMMA MovePermitted ==
    ASSUME Clean, MediumType = "worm", Permitted(head), MoveHead
    PROVE  Permitted(head')
<1> USE DEF disk, drive, ghost
<1>1. op = NoOp /\ status = "loaded" /\ head \in HeadType /\ TypeOK /\ Sound
  BY CleanSays DEF StepsFit, MoveHead, Rewind, SpaceEod, ReadBlock, LoadAgain, SpaceBlocks, SpaceMarks,
     Locate, Move, Ready, Idle, TypeOK
<1>2. EodKnown
  BY <1>1, EodKnownReady DEF Writing, NoOp
<1>3. CASE Rewind
  BY <1>1, <1>2, <1>3, RewindPermitted DEF Rewind, Move
<1>4. CASE SpaceEod
  BY <1>4, EodPermitted DEF SpaceEod, Move
<1>5. CASE ReadBlock
  <2>1. CASE head.pos.type = "data"
    <3>1. ~head.okw
      BY <2>1 DEF Permitted, WormBlank
    <3> QED
      BY <1>1, <1>5, <2>1, <3>1, LockedPermitted DEF ReadBlock, Move
  <2>2. CASE head.pos.type # "data"
    BY <1>1, <1>2, <1>5, <2>2, SpacePermitted DEF ReadBlock, Move
  <2> QED
    BY <2>1, <2>2
<1>6. ASSUME NEW n, SpaceBlocks(n) \/ SpaceMarks(n)
      PROVE  Permitted(head')
  BY <1>1, <1>2, <1>6, SpacePermitted DEF SpaceBlocks, SpaceMarks, Move
<1>7. CASE LoadAgain
  <2>1. ChangePartition(head, 0) \in HeadType
    BY <1>1, ZeroIsPart, ChangePartitionType
  <2> QED
    BY <1>1, <1>2, <1>7, <2>1, RewindPermitted DEF LoadAgain
<1>8. ASSUME NEW p \in Slot, NEW blk, Locate(p, blk)
      PROVE  Permitted(head')
  <2>1. ChangePartition(head, p) \in HeadType
    BY <1>1, ChangePartitionType
  <2>2. CASE p \in Part
    <3>1. ChangePartition(head, p).pos.part \in OpenAfterChange(p)
      BY <1>1, <1>2, <2>2, ChangePartitionPlaced DEF OpenAfterChange
    <3> QED
      BY <1>1, <1>2, <1>8, <2>1, <3>1, BlockPermitted DEF Locate
  <2>3. CASE p = NParts
    <3>1. [head EXCEPT !.pos.part = p].pos.part = p /\ eod[p].num = 0
      BY <1>1, <2>3 DEF HeadType, Header, Sound, NothingBeyond
    <3>2. ChangePartition(head, p) = EodHead(p, 0, eod[p].off)
      BY <3>1 DEF ChangePartition, ReadHeader
    <3>3. Permitted(ChangePartition(head, p))
      BY <3>2 DEF Permitted, EodHead, WormBlank
    <3> QED
      BY <1>1, <1>2, <1>8, <2>1, <3>3, BlockPermitted DEF Locate
  <2> QED
    BY <2>2, <2>3, SlotsApart
<1> QED
  BY <1>3, <1>4, <1>5, <1>6, <1>7, <1>8 DEF MoveHead

\* Mounting: loadTape() permits writing when the medium is blank.
LEMMA LoadPermitted ==
    ASSUME Clean, Clean', MediumType = "worm", NEW ro \in BOOLEAN, NEW g \in 0 .. MaxBlocks,
           Load(ro, g)
    PROVE  Permitted(head)'
<1>1. /\ TypeOK /\ TypeOK' /\ 0 \in Part /\ 0 \in Slot /\ PartSound(0)
      /\ UNCHANGED indx /\ Known(0)'
  <2>1. ~Writing' /\ status' = "loaded" /\ UNCHANGED indx
    BY CleanSays DEF Load, Idle, StepsFit, NoOp, Writing, disk
  <2>2. MemorySound'
    BY DEF Clean, IInv, SafeInv, Sound
  <2> QED
    BY <2>1, <2>2, CleanSays, ZeroIsPart DEF MemorySound, Clean, IInv
<1> DEFINE first == IF eod'[0].num = 0
                    THEN [type |-> "eod", num |-> 0, part |-> 0,
                          off |-> eod'[0].off, len |-> 0]
                    ELSE indx[0][1]
           blank == first.type = "eod" \/ (first.type = "fm" /\ eod'[0].num = 1)
<1>2. head'.pos = first /\ (head'.okw => blank)
  BY DEF Load
<1>3. first.part = 0
  <2>1. CASE eod'[0].num # 0
    <3>1. Len(indx[0]) \in Nat /\ eod'[0].num = Len(indx[0])
      BY <1>1, DataEndType DEF Known
    <3>2. 1 \in 1 .. Len(indx[0])
      BY <2>1, <3>1, SMT
    <3> QED
      BY <1>1, <2>1, <3>2 DEF PartSound, Numbered
  <2> QED
    BY <2>1
<1> HIDE DEF first
<1> QED
  BY <1>2, <1>3 DEF Permitted, WormBlank

\* The handlers that end without a move of the head leave it at end of data.
LEMMA EndPermitted ==
    ASSUME Clean, Clean', Ready', StartWrite \/ UnloadStart \/ FileStep \/ Fault \/ Crash
    PROVE  Permitted(head)'
<1> USE DEF Ready, Idle
<1>1. /\ TypeOK /\ StepsFit /\ op \in OpType /\ OnlySafeFaults' /\ (Writing => TapeLoaded)
  BY CleanSays DEF Clean, IInv, TypeOK, Sound, WriteSound, TapeLoaded
<1>2. ~StartWrite /\ ~UnloadStart /\ ~Crash /\ ~Unload
  <2>1. StartWrite => op'.step \in {"put_data", "put_mark", "wipe", "cut_indx"}
    BY DEF StartWrite, WriteBlock, WriteMarks, Erase, Begin
  <2>2. UnloadStart => op'.step = "meta_head"
    BY DEF UnloadStart, NoOp
  <2>3. ~Crash /\ ~Unload
    BY DEF Crash, Unload
  <2> QED
    BY <2>1, <2>2, <2>3
<1>3. ~CutIndx /\ ~CutData /\ ~MetaHead /\ ~MetaMap /\ ~PutData /\ ~PutMark /\ ~Wipe
        /\ ~ClosePartition
  BY <1>1 DEF CutIndx, CutData, MetaHead, MetaMap, PutData, PutMark, Wipe, ClosePartition,
     OpType, AfterCut
<1>4. ~MetaLen
  BY <1>1 DEF MetaLen, OpType, AfterMeta, AfterCut
<1>5. ~CutFails /\ ~IndxFails /\ ~MarkFails /\ ~Fail("meta")
  BY <1>1, NoUnsafeFault DEF CutFails, IndxFails, MarkFails
<1>6. ~MetaFails
  <2>1. ~op.cut \/ TapeLoaded
    BY <1>1 DEF StepsFit
  <2> QED
    BY <1>1, <1>5, <2>1 DEF MetaFails, OpType, AfterMeta, AfterCut
<1>7. \E num, off : head' = EodHead(P, num, off)
  BY <1>1, <1>2, <1>3, <1>4, <1>5, <1>6
     DEF FileStep, Fault, PutIndx, NextMarkOrDone, Wiped, DataFails, AtEod, OpType
<1>8. head'.pos.type = "eod"
  BY <1>7 DEF EodHead
<1> QED
  BY <1>8 DEF Permitted, WormBlank

\* No step gives the permission but these calls.
LEMMA NextPermitted ==
    ASSUME Clean, Clean', MediumType = "worm", Ready => Permitted(head), [Next]_vars, Ready'
    PROVE  Permitted(head)'
<1>1. CASE MoveHead
  <2>1. Ready /\ UNCHANGED eod
    BY <1>1 DEF MoveHead, Rewind, SpaceEod, ReadBlock, LoadAgain, SpaceBlocks, SpaceMarks,
       Locate, Move
  <2>2. Permitted(head')
    BY <1>1, <2>1, MovePermitted
  <2> QED
    BY <2>1, <2>2 DEF Permitted, WormBlank
<1>2. CASE Format
  BY <1>2 DEF Format, Permitted, EodHead, WormBlank
<1>3. CASE WriteRefused
  <2>1. head \in HeadType
    BY DEF Clean, IInv, TypeOK
  <2> QED
    BY <1>3, <2>1 DEF WriteRefused, Permitted, HeadType
<1>4. CASE UNCHANGED vars
  BY <1>4 DEF vars, drive, Ready, Idle, Permitted, WormBlank
<1> QED
  BY <1>1, <1>2, <1>3, <1>4, EndPermitted, LoadPermitted DEF Next

\* The partition under a permitted head that is not at end of data is one filemark.
LEMMA PermittedIsMark ==
    ASSUME Clean, MarksEmpty, Ready, Permitted(head), head.okw, head.pos.type # "eod"
    PROVE  OnlyMark(P)
<1>1. TypeOK /\ Sound /\ StepsFit /\ P \in Slot /\ status = "loaded" /\ op = NoOp
  BY CleanSays, HeadFields DEF Ready, Idle, StepsFit
<1>2. EodKnown /\ Placed(head)
  BY <1>1, EodKnownReady DEF Writing, NoOp, Sound, HeadSound
<1>3. OnHeader(head)
  BY <1>2 DEF Placed, OnEod, EodHead
<1>4. head.pos.type = "fm" /\ Len(indx[P]) = 1
  BY <1>1, <1>2 DEF Permitted, WormBlank, EodKnown, P
<1>5. head.pos.num = 0 /\ indx[P][1].type = "fm"
  <2>1. head.pos.num \in Nat
    BY <1>1, HeadFields
  <2>2. head.pos.num = 0
    BY <1>3, <1>4, <2>1, SMT DEF OnHeader, P
  <2>3. head.pos.num + 1 = 1
    BY <2>2, SMT
  <2> QED
    BY <1>3, <1>4, <2>2, <2>3 DEF OnHeader, P
<1>6. Log[P] \in Seq(Item) /\ Len(Log[P]) = 1 /\ Log[P][1] = DiskItem(P, 1)
  <2>1. 1 \in 1 .. 1
    BY SMT
  <2> QED
    BY <1>1, <1>4, <2>1, LogOf
<1>7. Log[P][1].type = "fm"
  BY <1>5, <1>6 DEF DiskItem
<1>8. Log[P][1] = Mark
  <2>1. 1 \in 1 .. 1
    BY SMT
  <2> QED
    BY <1>1, <1>6, <1>7, <2>1 DEF MarksEmpty
<1>9. Log[P] = << Mark >>
  <2> DEFINE s == Log[P]
  <2>1. s \in Seq(Item) /\ Len(s) = 1 /\ s[1] = Mark
    BY <1>6, <1>8
  <2> HIDE DEF s
  <2>2. s = << Mark >>
    BY <2>1, SMT
  <2> QED
    BY <2>2 DEF s
<1> QED
  BY <1>1, <1>9 DEF Log, OnlyMark

\* A handler that has it cuts no item, but for the formats rewind_tape() permits.
LEMMA CutsNothingKept ==
    ASSUME Clean, Clean', MediumType = "worm", Worm, [Next]_vars
    PROVE  CutsNothing'
<1> USE DEF disk, drive, ghost
<1>1. op \in OpType /\ StepsFit /\ TypeOK
  BY CleanSays DEF TypeOK
<1>2. CASE StartWrite /\ op'.step = "cut_indx"
  <2>1. UNCHANGED <<data, indx>> /\ P' = P /\ head.pos.type # "eod" /\ Ready
    <3>1. UNCHANGED <<data, indx>> /\ Ready
      BY <1>2 DEF StartWrite, WriteBlock, WriteMarks, Erase
    <3>2. head'.pos = head.pos
      BY <1>1, <1>2 DEF StartWrite, WriteBlock, WriteMarks, Erase, TypeOK, HeadType
    <3>3. head.pos.type = "eod" => op'.step \in {"put_data", "put_mark", "wipe"}
      BY <1>2 DEF StartWrite, WriteBlock, WriteMarks, Erase, Begin
    <3> QED
      BY <1>2, <3>1, <3>2, <3>3 DEF P
  <2>2. DiskLog(P)' = DiskLog(P)
    BY <2>1 DEF DiskLog, DiskItem, Extent
  <2>3. MayWrite \/ MarkAtZero'
    BY <1>2 DEF StartWrite, WriteBlock, WriteMarks, Erase, MarksAllowed, MarkAtZero, Begin
  <2>4. MayWrite => head.okw
    BY <2>1 DEF MayWrite
  <2>5. MayWrite => OnlyMark(P)
    BY <2>1, <2>4, PermittedIsMark DEF Worm
  <2> QED
    BY <2>1, <2>2, <2>3, <2>5 DEF CutsNothing, OnlyMark
<1>3. CASE UNCHANGED vars
  <2>1. UNCHANGED <<data, indx, op>> /\ P' = P
    BY <1>3 DEF vars, P
  <2>2. DiskLog(P)' = DiskLog(P)
    BY <2>1 DEF DiskLog, DiskItem, Extent
  <2> QED
    BY <2>1, <2>2 DEF Worm, CutsNothing, OnlyMark, MarkAtZero
<1>4. CASE Format \/ WriteRefused \/ MoveHead \/ (\E ro \in BOOLEAN, g \in 0 .. MaxBlocks : Load(ro, g))
  <2>1. op'.step = "idle"
    BY <1>4 DEF Format, WriteRefused, MoveHead, Rewind, SpaceEod, ReadBlock, LoadAgain, SpaceBlocks,
       SpaceMarks, Locate, Move, Ready, Idle, Load
  <2> QED
    BY <2>1 DEF CutsNothing
<1>5. CASE FileStep \/ Fault \/ Crash \/ UnloadStart
  <2>1. CASE op' = NoOp
    BY <2>1 DEF NoOp, CutsNothing
  <2>2. CASE UnloadStart
    BY <2>2 DEF UnloadStart, NoOp, CutsNothing
  <2>3. CASE op' # NoOp /\ (FileStep \/ Fault \/ Crash)
    <3>1. op'.step \in {AfterCut, AfterMeta, "cut_data", "meta_head", "meta_map", "meta_len",
                        "put_indx", "put_mark"}
      BY <1>1, <2>3 DEF FileStep, Fault, CutIndx, CutData, MetaHead, MetaMap, MetaLen, PutData,
         PutIndx, PutMark, NextMarkOrDone, Wipe, Wiped, ClosePartition, Unload, CutFails,
         MetaFails, DataFails, IndxFails, MarkFails, Crash, OpType
    <3> QED
      BY <3>1 DEF AfterCut, AfterMeta, CutsNothing
  <2> QED
    BY <1>5, <2>1, <2>2, <2>3
<1> QED
  BY <1>2, <1>3, <1>4, <1>5 DEF Next, CutsNothing

\* An item that is a filemark holds no data.
LEMMA MarksStayEmpty ==
    ASSUME Clean, Clean', MarksEmpty, MediumStep
    PROVE  MarksEmpty'
<1>1. TypeOK /\ P \in Slot /\ Here \in Nat
  BY HeadFields DEF Clean, IInv, Here
<1>2. CASE Stays \/ Goes
  BY <1>2 DEF Stays, Goes, MarksEmpty
<1>3. CASE Clears
  <2>1. \A i : i \notin 1 .. Len(<< >>)
    BY SMT
  <2> QED
    BY <1>3, <2>1 DEF Clears, MarksEmpty
<1>4. ASSUME NEW s \in Seq(Item), Log' = [Log EXCEPT ![P] = s],
             \A i \in 1 .. Len(s) : s[i].type = "fm" => s[i] = Mark
      PROVE  MarksEmpty'
  <2>1. \A p \in Slot : Log'[p] = IF p = P THEN s ELSE Log[p]
    BY <1>4 DEF Log
  <2> QED
    BY <1>4, <2>1 DEF MarksEmpty
<1>5. CASE Drops
  <2> DEFINE l == Log[P]
             s == SubSeq(l, 1, Here)
  <2>1. l \in Seq(Item) /\ Here < Len(l) /\ Log' = [Log EXCEPT ![P] = s]
    BY <1>1, <1>5, LogOf DEF Drops
  <2>2. \A i \in 1 .. Len(l) : l[i].type = "fm" => l[i] = Mark
    BY <1>1 DEF MarksEmpty
  <2>3. s \in Seq(Item) /\ \A i \in 1 .. Len(s) : i \in 1 .. Len(l) /\ s[i] = l[i]
    <3> HIDE DEF l
    <3> QED
      BY <1>1, <2>1, SMT
  <2> HIDE DEF s
  <2> QED
    BY <1>4, <2>1, <2>2, <2>3
<1>6. CASE Adds
  <2> DEFINE l == Log[P]
  <2>1. PICK item \in Recordable : Log' = [Log EXCEPT ![P] = Append(l, item)]
    BY <1>6 DEF Adds
  <2> DEFINE s == Append(l, item)
  <2>2. l \in Seq(Item) /\ \A i \in 1 .. Len(l) : l[i].type = "fm" => l[i] = Mark
    BY <1>1, LogOf DEF MarksEmpty
  <2>3. item \in Item /\ (item.type = "fm" => item = Mark)
    BY <2>1, RecordableIsItem DEF Recordable, Block
  <2>4. s \in Seq(Item) /\ \A i \in 1 .. Len(s) : s[i] = item \/ (i \in 1 .. Len(l) /\ s[i] = l[i])
    <3> HIDE DEF l
    <3> QED
      BY <2>2, <2>3, SMT
  <2>5. Log' = [Log EXCEPT ![P] = s]
    BY <2>1
  <2> HIDE DEF s
  <2> QED
    BY <1>4, <2>2, <2>3, <2>4, <2>5
<1> QED
  BY <1>2, <1>3, <1>5, <1>6 DEF MediumStep

\* So every step keeps the items of a WORM medium,
LEMMA WormStep ==
    ASSUME Clean, Clean', MediumType = "worm", Worm, [Next]_vars
    PROVE  Worm'
<1>1. MarksEmpty'
  BY StepIsMedium, MarksStayEmpty DEF Worm
<1>2. CutsNothing'
  BY CutsNothingKept
<1>3. (Ready => Permitted(head))'
  BY NextPermitted DEF Worm
<1> QED
  BY <1>1, <1>2, <1>3 DEF Worm

\* What a step of TapeMedium takes from a partition.
LEMMA StepKeeps ==
    ASSUME Clean, Clean', MediumType = "worm", Worm, MediumStep, NEW p \in Part
    PROVE  Grows(p) \/ OnlyMark(p) \/ MarkAtZero \/ BlankFormatted
<1>1. TypeOK /\ P \in Slot /\ Here \in Nat /\ p \in Slot
  BY HeadFields, SlotsApart DEF Clean, IInv, Here
<1> DEFINE l == Log[p]
<1>2. l = DiskLog(p) /\ Log'[p] = DiskLog(p)' /\ l \in Seq(Item)
  BY <1>1, LogOf DEF Log
<1>3. CASE Log'[p] = l
  <2>1. IsPrefixOf(l, l)
    BY <1>2, SMT DEF IsPrefixOf
  <2> QED
    BY <1>2, <1>3, <2>1 DEF Grows
<1>4. CASE Stays \/ Goes
  BY <1>3, <1>4 DEF Stays, Goes
<1>5. CASE Adds
  <2>1. PICK item \in Recordable : Log' = [Log EXCEPT ![P] = Append(Log[P], item)]
    BY <1>5 DEF Adds
  <2>2. CASE p = P
    <3>1. Log'[p] = Append(l, item)
      BY <1>1, <2>1, <2>2 DEF Log
    <3>2. IsPrefixOf(l, Append(l, item))
      <4> HIDE DEF l
      <4> QED
        BY <1>2, <2>1, RecordableIsItem, SMT DEF IsPrefixOf
    <3> QED
      BY <1>2, <3>1, <3>2 DEF Grows
  <2>3. CASE p # P
    BY <1>1, <1>3, <2>1, <2>3 DEF Log
  <2> QED
    BY <2>2, <2>3
<1>6. CASE Drops /\ CutIndx
  <2>1. CASE p = P
    BY <1>6, <2>1 DEF Worm, CutsNothing, CutIndx
  <2>2. CASE p # P
    BY <1>1, <1>3, <1>6, <2>2 DEF Drops, Log
  <2> QED
    BY <2>1, <2>2
<1>7. CASE Format
  <2>1. head.pos.num = 0 /\ indx' = [q \in Slot |-> << >>] /\ Ready /\ MayWrite
    BY <1>7 DEF Format
  <2>2. WormBlank(head)
    BY <2>1 DEF MayWrite, Worm, Permitted, WormBlank
  <2> QED
    BY <2>1, <2>2 DEF BlankFormatted
<1> QED
  BY <1>4, <1>5, <1>6, <1>7 DEF MediumStep

\* always.
LEMMA WormHolds == Spec => []WormInv
<1>1. Init => WormInv
  <2>1. ASSUME Init
        PROVE  Worm
    <3>1. ~Ready /\ CutsNothing
      BY <2>1 DEF Init, Ready, CutsNothing, NoOp
    <3>2. \A p \in Slot : Len(Log[p]) = 0
      <4>1. Len(<< >>) = 0 /\ TypeOK
        BY <2>1, InitType, SMT
      <4> QED
        BY <2>1, <4>1, LogOf DEF Init
    <3>3. 1 .. 0 = {}
      BY SMT
    <3> QED
      BY <3>1, <3>2, <3>3 DEF Worm, MarksEmpty
  <2> QED
    BY <2>1, InitSound DEF WormInv
<1>2. ASSUME WormInv, IInv', [Next]_vars
      PROVE  WormInv'
  <2>1. ASSUME MediumType = "worm", OnlySafeFaults', suspect' = {}
        PROVE  Worm'
    <3>1. IInv /\ Clean /\ Clean'
      BY <1>2, <2>1, CleanBefore DEF WormInv
    <3> QED
      BY <1>2, <2>1, <3>1, WormStep DEF WormInv, Clean
  <2> QED
    BY <1>2, <2>1 DEF WormInv
<1> QED
  BY <1>1, <1>2, SafeHolds, PTL DEF Spec

\* The items of a WORM medium stay: though data writes fail and the daemon dies in
\* the middle of a handler, OK_to_write, which every positioning call takes and
\* read_header() or rewind_tape() give back, lets check_for_overwrite() cut a
\* partition only where it is one filemark or for WRITE FILEMARKS at block 0.
THEOREM WormKeeps == Spec => WormKeepsItems
<1>1. ASSUME WormInv, IInv', [Next]_vars, MediumType = "worm", OnlySafeFaults', suspect' = {},
             NEW p \in Part
      PROVE  Grows(p) \/ OnlyMark(p) \/ MarkAtZero \/ BlankFormatted
  <2>1. IInv /\ Clean /\ Clean'
    BY <1>1, CleanBefore DEF WormInv
  <2>2. Worm /\ MediumStep
    BY <1>1, <2>1, StepIsMedium DEF WormInv, Clean
  <2> QED
    BY <1>1, <2>1, <2>2, StepKeeps
<1>2. ASSUME WormInv, IInv', [Next]_vars
      PROVE  (MediumType = "worm" /\ OnlySafeFaults' /\ suspect' = {}) =>
                \A p \in Part : Grows(p) \/ OnlyMark(p) \/ MarkAtZero \/ BlankFormatted
  BY <1>1, <1>2
<1> QED
  BY <1>2, WormHolds, SafeHolds, PTL DEF Spec, WormKeepsItems
=============================================================================
