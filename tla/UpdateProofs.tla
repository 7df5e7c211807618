---------------------------- MODULE UpdateProofs ----------------------------
(***************************************************************************)
(* Proofs about the update of an old cartridge: whatever fails, is killed  *)
(* or is loaded in between, however often, it keeps the data and the MAM   *)
(* of the cartridge, and what it mounts is the cartridge.                  *)
(***************************************************************************)
EXTENDS UpdateProps, TLAPS

\* No update was cut off in one of the two places that cannot be resumed.
Resumable == cut \subseteq {"unsaved"}

\* The files of the formats up to 5, and those of format 6.
OldNames ==
    /\ dir["data"] = "data" /\ dir["indx"] = "index" /\ dir["meta"] \in {"map", "mapmam"}
    /\ dir["data.0"] = "none" /\ dir["indx.0"] = "none" /\ dir["meta.0"] = "none"

NewNames ==
    /\ dir["data"] = "none" /\ dir["indx"] = "none" /\ dir["meta"] = "none"
    /\ dir["data.0"] = "data" /\ dir["indx.0"] = "index" /\ dir["meta.0"] = "map"

\* Halfway through the renames of try_update_tape() there are both.
Layout ==
    /\ pc = "rename indx" =>
          /\ dir["data"] = "none" /\ dir["indx"] = "index" /\ dir["meta"] = "map"
          /\ dir["data.0"] = "data" /\ dir["indx.0"] = "none" /\ dir["meta.0"] = "none"
    /\ pc = "rename meta" =>
          /\ dir["data"] = "none" /\ dir["indx"] = "none" /\ dir["meta"] = "map"
          /\ dir["data.0"] = "data" /\ dir["indx.0"] = "index" /\ dir["meta.0"] = "none"
    /\ pc \notin {"rename indx", "rename meta"} => OldNames \/ NewNames

\* The MAM is in meta until try_extract_mam() has replaced it, then in mam.
Extraction ==
    /\ pc \in ExtractSteps => OldNames /\ dir["meta"] = "mapmam"
    /\ pc = "create mam" => mam = Absent
    /\ pc = "write mam" => mam = Empty
    /\ pc \in {"create meta", "copy meta", "replace meta"} => mam = V3
    /\ pc = "replace meta" => dir["meta.new"] = "map"
    /\ pc \notin ExtractSteps =>
          \/ pc = "idle" /\ mam = Absent /\ dir["meta"] = "mapmam"
          \/ mam.form \in {"v3", "tlv", "short"} /\ dir["meta"] # "mapmam"

\* try_update_mam() works for a structure, in the old names, and has it in memory.
MamSteps == {"create tmp", "write tmp", "write mhvtl_data", "rename tmp"}

Rewriting ==
    /\ mam.form = "v3" => mam = V3 /\ OldNames
    /\ pc \in MamSteps \cup {"update mam"} => mam = V3
    /\ pc \in MamSteps => mem.core = "own"
    /\ pc \in {"write mhvtl_data", "rename tmp"} => tmp.form \in {"tlv", "short"} /\ tmp.core = "own"

\* A structure read as tags makes the cartridge one of version 4, which is left as
\* it is.
RenameSteps == {"rename data", "rename indx", "rename meta"}

Misreads ==
    /\ pc = "read mam" /\ Structure => OldNames
    /\ pc \in RenameSteps \cup {"partitions", "save", "mounted"} /\ Structure =>
          OldNames /\ mem.tape = 4

\* What is in the drive: nothing, an old cartridge that looks blank, or the whole.
InDrive ==
    /\ loaded \in {"no", "blank", "whole"}
    /\ loaded = "no" <=> pc \notin {"save", "mounted"}
    /\ loaded = "blank" => OldNames
    /\ loaded = "whole" => NewNames

\* Unless a failure of write_mam() was ignored, tagged attributes are all there,
\* and are those in memory.
Attributes ==
    /\ mam.form # "short"
    /\ mam.form = "tlv" => mam.core = "own" /\ dir["mhvtl_data"] = "full"
    /\ pc \in {"write mhvtl_data", "rename tmp"} => tmp.form = "tlv"
    /\ pc = "rename tmp" => dir["mhvtl_data"] = "full"
    /\ pc \in RenameSteps \cup {"partitions", "save", "mounted"} /\ ~Structure =>
          mem.core = "own"

Sound == Layout /\ Extraction /\ Rewriting /\ Misreads /\ InDrive

\* The inductive invariant: what holds of a cartridge that can be resumed, and what is
\* lost with an ignored failure of write_mam().
IInv ==
    /\ TypeOK
    /\ Resumable => Sound
    /\ Resumable /\ ~ignored => Attributes

-----------------------------------------------------------------------------

\* The types, action by action.
LEMMA MamTypes ==
    /\ Absent \in MamFiles /\ Empty \in MamFiles /\ V3 \in MamFiles
    /\ TypeOK => Tagged \in MamFiles /\ Cut \in MamFiles
BY DEF Absent, Empty, V3, Tagged, Cut, File, MamFiles, Cores, Lates, TypeOK

\* The MAM files told apart by their form.
LEMMA Forms ==
    /\ Absent.form = "none" /\ Absent.late = "none" /\ Empty.form = "empty" /\ Empty.late = "none"
    /\ V3.form = "v3" /\ V3.core = "own" /\ V3.tape = 4 /\ V3.late = "none"
    /\ Tagged.form = "tlv" /\ Tagged.core = mem.core /\ Tagged.tape = mem.tape
    /\ Tagged.late = mem.late
    /\ Cut.form = "short" /\ Cut.core = mem.core /\ Cut.late = "none"
BY DEF Absent, Empty, V3, Tagged, Cut, File

\* What is put under a name, and what a rename leaves under both.
LEMMA DirTypes ==
    ASSUME TypeOK
    PROVE  /\ \A n \in Names, c \in Contents :
                 Put(n, c) => /\ dir' \in [Names -> Contents] /\ dir'[n] = c
                              /\ \A m \in Names \ {n} : dir'[m] = dir[m]
           /\ \A a, b \in Names :
                 a # b /\ Move(a, b) =>
                    /\ dir' \in [Names -> Contents] /\ dir'[a] = "none" /\ dir'[b] = dir[a]
                    /\ \A m \in Names \ {a, b} : dir'[m] = dir[m]
<1>1. dir \in [Names -> Contents] /\ "none" \in Contents
  BY DEF TypeOK, Contents
<1> QED
  BY <1>1 DEF Put, Move

\* A failure is counted, and so is a crash.
LEMMA BoundTypes ==
    ASSUME TypeOK
    PROVE  /\ Works => UNCHANGED <<faults, crashes, foreign>>
           /\ Fails => faults' \in 0 .. MaxFaults /\ UNCHANGED <<crashes, foreign>>
           /\ crashes < MaxCrashes => crashes + 1 \in 0 .. MaxCrashes
           /\ foreign < MaxForeign => foreign + 1 \in 0 .. MaxForeign
BY UpdateAssumption DEF TypeOK, Works, Fails, bounds

\* A step that touches no other file leaves the names of the formats as they are.
LEMMA NamesKept ==
    ASSUME \A n \in Names \ {"mhvtl_data", "meta.new"} : dir'[n] = dir[n]
    PROVE  (OldNames' <=> OldNames) /\ (NewNames' <=> NewNames) /\ dir'["meta"] = dir["meta"]
BY DEF OldNames, NewNames, Names

\* Opening mam, or finding it in meta, changes no file.
LEMMA OpenMamKept == IInv /\ OpenMam => IInv'
<1> SUFFICES ASSUME IInv, OpenMam PROVE IInv'
  OBVIOUS
<1>0. TypeOK
  BY DEF IInv
<1>1. /\ pc = "idle" /\ loaded = "no" /\ UNCHANGED <<mam, tmp, dir, mem, fd, cut, ignored>>
      /\ UNCHANGED <<loaded, errorCheck, found, faults, crashes, foreign>>
      /\ \/ mam # Absent /\ pc' = "versions"
         \/ mam = Absent /\ dir["meta"] = "mapmam" /\ pc' = "create mam"
  BY <1>0, BoundTypes DEF OpenMam, Goto, files, history, Quiet
<1>2. TypeOK'
  BY <1>0, <1>1 DEF TypeOK, Places, ExtractSteps
<1>3. Resumable' => Sound'
  BY <1>1 DEF IInv, Resumable, Sound, Layout, OldNames, NewNames, Extraction, ExtractSteps,
     Rewriting, MamSteps, Misreads, RenameSteps, InDrive
<1>4. Resumable' /\ ~ignored' => Attributes'
  BY <1>1 DEF IInv, Resumable, Attributes, RenameSteps
<1> QED
  BY <1>2, <1>3, <1>4 DEF IInv

\* Each step of the extraction leaves the MAM in meta until mam has it.
LEMMA ExtractMamKept == IInv /\ ExtractMam => IInv'
<1> SUFFICES ASSUME IInv, ExtractMam PROVE IInv'
  OBVIOUS
<1>0. TypeOK
  BY DEF IInv
<1>1. /\ UNCHANGED <<tmp, mem, fd, cut, ignored>>
      /\ UNCHANGED <<loaded, errorCheck, found, faults, crashes, foreign>>
      /\ \/ pc = "create mam" /\ mam' = Empty /\ pc' = "write mam" /\ UNCHANGED dir
         \/ pc = "write mam" /\ mam' = V3 /\ pc' = "create meta" /\ UNCHANGED dir
         \/ pc = "create meta" /\ mam' = mam /\ pc' = "copy meta" /\ Put("meta.new", "part")
         \/ pc = "copy meta" /\ mam' = mam /\ pc' = "replace meta" /\ Put("meta.new", "map")
         \/ pc = "replace meta" /\ mam' = mam /\ pc' = "versions" /\ Move("meta.new", "meta")
  BY <1>0, BoundTypes DEF ExtractMam, Goto, history, Quiet
<1>2. /\ dir' \in [Names -> Contents] /\ \A n \in Names \ {"meta", "meta.new"} : dir'[n] = dir[n]
      /\ pc' # "versions" => dir'["meta"] = dir["meta"]
      /\ pc' = "replace meta" => dir'["meta.new"] = "map"
      /\ pc' = "versions" => dir'["meta"] = dir["meta.new"]
  <2>1. /\ "meta" \in Names /\ "meta.new" \in Names /\ "meta" # "meta.new"
        /\ "part" \in Contents /\ "map" \in Contents
    BY DEF Names, Contents
  <2>2. CASE UNCHANGED dir /\ pc' \in {"write mam", "create meta"}
    BY <1>0, <2>2 DEF TypeOK
  <2>3. CASE pc' = "copy meta" /\ Put("meta.new", "part")
    BY <1>0, <2>1, <2>3, DirTypes
  <2>4. CASE pc' = "replace meta" /\ Put("meta.new", "map")
    BY <1>0, <2>1, <2>4, DirTypes
  <2>5. CASE pc' = "versions" /\ Move("meta.new", "meta")
    BY <1>0, <2>1, <2>5, DirTypes
  <2> QED
    BY <1>1, <2>2, <2>3, <2>4, <2>5
<1>3. TypeOK'
  <2>1. mam' \in MamFiles
    BY <1>0, <1>1, MamTypes DEF TypeOK
  <2>2. pc' \in Places
    BY <1>1 DEF Places, ExtractSteps
  <2> QED
    BY <1>0, <1>1, <1>2, <2>1, <2>2 DEF TypeOK
<1>4. Resumable => Sound /\ OldNames /\ dir["meta"] = "mapmam"
  BY <1>1 DEF IInv, Sound, Extraction, ExtractSteps
<1>5. Resumable => OldNames' /\ (pc' # "versions" => dir'["meta"] = "mapmam")
                             /\ (pc' = "versions" => dir'["meta"] = "map" /\ mam' = V3)
  <2> SUFFICES ASSUME Resumable PROVE OldNames' /\ (pc' # "versions" => dir'["meta"] = "mapmam")
                             /\ (pc' = "versions" => dir'["meta"] = "map" /\ mam' = V3)
    OBVIOUS
  <2>1. pc = "replace meta" => dir["meta.new"] = "map" /\ mam = V3
    BY <1>4 DEF Sound, Extraction
  <2>2. /\ pc' # "versions" => dir'["meta"] = "mapmam"
        /\ pc' = "versions" => dir'["meta"] = "map" /\ mam' = V3
    BY <1>1, <1>2, <1>4, <2>1
  <2>3. \A n \in {"data", "indx", "data.0", "indx.0", "meta.0"} : dir'[n] = dir[n]
    BY <1>2 DEF Names
  <2> QED
    BY <1>1, <1>4, <2>2, <2>3 DEF OldNames
<1>6. Resumable' => Sound'
  <2> SUFFICES ASSUME Resumable PROVE Sound'
    BY <1>1 DEF Resumable
  <2>1. Layout'
    BY <1>1, <1>5 DEF Layout
  <2>2. Extraction'
    <3>1. pc = "create meta" \/ pc = "copy meta" => mam = V3
      BY <1>4 DEF Sound, Extraction
    <3>2. V3.form = "v3"
      BY DEF V3, File
    <3> QED
      BY <1>1, <1>2, <1>5, <3>1, <3>2 DEF Extraction, ExtractSteps
  <2>3. Rewriting' /\ Misreads' /\ InDrive'
    <3>1. pc' \notin MamSteps \cup {"update mam", "read mam", "save", "mounted"}
                       \cup RenameSteps \cup {"partitions"}
      BY <1>1 DEF MamSteps, RenameSteps
    <3>2. mam'.form = "v3" => mam' = V3
      <4>1. mam' \in {Empty, V3} \/ (mam' = mam /\ mam = V3)
        BY <1>1, <1>4 DEF Sound, Extraction
      <4> QED
        BY <4>1, Forms
    <3>3. loaded = "no"
      BY <1>1, <1>4 DEF Sound, InDrive
    <3> QED
      BY <1>1, <1>5, <3>1, <3>2, <3>3 DEF Rewriting, Misreads, InDrive, MamSteps
  <2> QED
    BY <2>1, <2>2, <2>3 DEF Sound
<1>7. Resumable' /\ ~ignored' => Attributes'
  <2> SUFFICES ASSUME Resumable, ~ignored PROVE Attributes'
    BY <1>1 DEF Resumable
  <2>1. mam'.form \notin {"short", "tlv"}
    <3>1. mam' \in {Empty, V3} \/ (mam' = mam /\ mam = V3)
      BY <1>1, <1>4 DEF Sound, Extraction
    <3> QED
      BY <3>1, Forms
  <2> QED
    BY <1>1, <2>1 DEF Attributes, RenameSteps
<1> QED
  BY <1>3, <1>6, <1>7 DEF IInv

\* A failure of the extraction leaves the cartridge as it was found.
LEMMA ExtractFailsKept == IInv /\ ExtractFails => IInv'
<1> SUFFICES ASSUME IInv, ExtractFails PROVE IInv'
  OBVIOUS
<1>0. TypeOK
  BY DEF IInv
<1>1. /\ pc \in ExtractSteps /\ mam' = Absent /\ Put("meta.new", "none") /\ pc' = "idle"
      /\ UNCHANGED <<tmp, mem, fd, cut, ignored, loaded, errorCheck, found>>
      /\ faults' \in 0 .. MaxFaults /\ UNCHANGED <<crashes, foreign>>
  BY <1>0, BoundTypes DEF ExtractFails, DropMam, LoadFails, Goto, history, Quiet
<1>2. dir' \in [Names -> Contents] /\ \A n \in Names \ {"meta.new"} : dir'[n] = dir[n]
  <2>1. "meta.new" \in Names /\ "none" \in Contents
    BY DEF Names, Contents
  <2> QED
    BY <1>0, <1>1, <2>1, DirTypes
<1>3. TypeOK'
  BY <1>0, <1>1, <1>2, MamTypes DEF TypeOK, Places
<1>4. Resumable => OldNames' /\ dir'["meta"] = "mapmam" /\ loaded = "no"
  <2>1. Resumable => OldNames /\ dir["meta"] = "mapmam" /\ loaded = "no"
    BY <1>1 DEF IInv, Sound, Extraction, InDrive, ExtractSteps
  <2> QED
    BY <1>2, <2>1, NamesKept
<1>5. mam'.form = "none"
  BY <1>1, Forms
<1>6. Resumable' => Sound'
  BY <1>1, <1>4, <1>5 DEF Resumable, Sound, Layout, Extraction, ExtractSteps, Rewriting, MamSteps,
     Misreads, RenameSteps, InDrive
<1>7. Resumable' /\ ~ignored' => Attributes'
  BY <1>1, <1>5 DEF Attributes, RenameSteps
<1> QED
  BY <1>3, <1>6, <1>7 DEF IInv

\* The types of what is in memory.
Mems == [tape : {0, 4, 5, 6}, fmt : {0, 3, 4}, core : Cores, late : Lates]

\* The first words of mam tell a structure from tagged attributes.
LEMMA ReadVersionsKept == IInv /\ ReadVersions => IInv'
<1> SUFFICES ASSUME IInv, ReadVersions PROVE IInv'
  OBVIOUS
<1>0. TypeOK
  BY DEF IInv
<1>1. /\ pc = "versions" /\ mem' = VersionsRead /\ fd' = "path"
      /\ pc' = IF mem'.fmt # 4 THEN "update mam" ELSE "read mam"
      /\ UNCHANGED <<mam, tmp, dir, cut, ignored, loaded, errorCheck, found, faults, crashes, foreign>>
  BY <1>0, BoundTypes DEF ReadVersions, Goto, files, history, Quiet
<1>2. /\ mem' \in Mems
      /\ mam.form = "v3" => mem'.fmt = 3
      /\ mam.form \in {"tlv", "short"} => mem'.fmt = 4
  <2>1. mem \in Mems /\ mam.tape \in {0, 4, 5, 6}
    BY <1>0 DEF TypeOK, Mems, MamFiles
  <2>2. CASE mam.form = "v3"
    BY <1>1, <2>1, <2>2 DEF VersionsRead, Mems
  <2>3. CASE mam.form \in {"tlv", "short"}
    BY <1>1, <2>1, <2>3 DEF VersionsRead, Mems
  <2>4. CASE mam.form \notin {"v3", "tlv", "short"}
    BY <1>1, <2>1, <2>4 DEF VersionsRead
  <2> QED
    BY <2>2, <2>3, <2>4
<1>3. TypeOK'
  BY <1>0, <1>1, <1>2 DEF TypeOK, Places, Mems
<1>4. Resumable' => Sound'
  <2> SUFFICES ASSUME Resumable PROVE Sound'
    BY <1>1 DEF Resumable
  <2>1. /\ mam.form \in {"v3", "tlv", "short"} /\ dir["meta"] # "mapmam" /\ loaded = "no"
        /\ OldNames \/ NewNames
        /\ mam.form = "v3" => mam = V3 /\ OldNames
    BY <1>1 DEF IInv, Sound, Layout, Extraction, ExtractSteps, InDrive, Rewriting
  <2>2. /\ pc' = "update mam" => mam = V3
        /\ pc' = "read mam" => mam.form # "v3"
        /\ pc' \in {"update mam", "read mam"}
    <3>1. CASE mam.form = "v3"
      <4>1. mem'.fmt # 4
        BY <1>2, <3>1
      <4> QED
        BY <1>1, <2>1, <3>1, <4>1
    <3>2. CASE mam.form \in {"tlv", "short"}
      <4>1. mem'.fmt = 4 /\ mam.form # "v3"
        BY <1>2, <3>2
      <4> QED
        BY <1>1, <4>1
    <3> QED
      BY <2>1, <3>1, <3>2
  <2> QED
    BY <1>1, <2>1, <2>2 DEF Sound, Layout, OldNames, NewNames, Extraction, ExtractSteps,
       InDrive, Rewriting, MamSteps, Misreads, RenameSteps, Structure
<1>5. Resumable' /\ ~ignored' => Attributes'
  BY <1>1 DEF IInv, Resumable, Attributes, RenameSteps
<1> QED
  BY <1>3, <1>4, <1>5 DEF IInv

\* While try_update_mam() works, the structure is in mam and the names are the old ones.
LEMMA AtUpdate ==
    ASSUME IInv, Resumable, pc \in MamSteps \cup {"update mam"}
    PROVE  mam = V3 /\ OldNames /\ dir["meta"] # "mapmam" /\ loaded = "no"
<1>1. Sound
  BY DEF IInv
<1>2. mam = V3 /\ loaded = "no"
  BY <1>1 DEF Sound, Rewriting, InDrive, MamSteps
<1>3. mam.form = "v3" /\ mam # Absent
  BY <1>2, Forms
<1> QED
  BY <1>1, <1>2, <1>3 DEF Sound, Rewriting, Extraction, MamSteps, ExtractSteps

\* A step of try_update_mam() that keeps both, and what is in memory, is sound.
LEMMA StillAtUpdate ==
    ASSUME mam' = V3, OldNames', dir'["meta"] # "mapmam", loaded' = "no",
           pc' \in MamSteps \cup {"idle", "read mam"},
           pc' \in MamSteps => mem'.core = "own",
           pc' \in {"write mhvtl_data", "rename tmp"} =>
                tmp'.form \in {"tlv", "short"} /\ tmp'.core = "own"
    PROVE  Sound'
<1>1. mam'.form = "v3"
  BY Forms
<1> QED
  BY <1>1 DEF Sound, Layout, Extraction, ExtractSteps, Rewriting, MamSteps, Misreads,
     RenameSteps, InDrive

\* The structure is copied to memory; mam keeps it until the new file is whole.
LEMMA UpdateMamKept == IInv /\ UpdateMam => IInv'
<1> SUFFICES ASSUME IInv, UpdateMam PROVE IInv'
  OBVIOUS
<1>0. TypeOK
  BY DEF IInv
<1>1. /\ pc = "update mam" /\ mam' = mam
      /\ UNCHANGED <<fd, cut, ignored, loaded, errorCheck, found, faults, crashes, foreign>>
      /\ \/ mem' = [mem EXCEPT !.tape = 5, !.fmt = 4, !.core = mam.core]
         \/ mem' = mem
      /\ \/ Put("mhvtl_data", "empty") /\ tmp' = tmp /\ pc' = "create tmp"
            /\ mem' = [mem EXCEPT !.tape = 5, !.fmt = 4, !.core = mam.core]
         \/ Put("mhvtl_data", "none") /\ tmp' = Absent /\ pc' \in {"idle", "read mam"}
  BY <1>0, BoundTypes DEF UpdateMam, DropNew, UpdateFailed, LoadFails, Goto, history, Quiet
<1>2. dir' \in [Names -> Contents] /\ \A n \in Names \ {"mhvtl_data"} : dir'[n] = dir[n]
  <2>1. "mhvtl_data" \in Names /\ "none" \in Contents /\ "empty" \in Contents
    BY DEF Names, Contents
  <2> QED
    BY <1>0, <1>1, <2>1, DirTypes
<1>3. mem' \in Mems /\ (pc' = "create tmp" => mem'.core = mam.core)
  <2>1. mem \in Mems /\ mam.core \in Cores
    BY <1>0 DEF TypeOK, Mems, MamFiles
  <2> QED
    BY <1>1, <2>1 DEF Mems
<1>4. TypeOK'
  <2>1. tmp' \in MamFiles /\ mam' \in MamFiles
    BY <1>0, <1>1, MamTypes DEF TypeOK
  <2> QED
    BY <1>0, <1>1, <1>2, <1>3, <2>1 DEF TypeOK, Places, Mems
<1>5. Resumable' => Sound' /\ mam = V3
  <2> SUFFICES ASSUME Resumable PROVE Sound' /\ mam = V3
    BY <1>1 DEF Resumable
  <2>1. mam = V3 /\ OldNames /\ dir["meta"] # "mapmam" /\ loaded = "no"
    BY <1>1, AtUpdate
  <2>2. OldNames' /\ dir'["meta"] # "mapmam"
    BY <1>2, <2>1, NamesKept
  <2>3. mam' = V3 /\ loaded' = "no" /\ (pc' = "create tmp" => mem'.core = "own")
    BY <1>1, <1>3, <2>1, Forms
  <2>4. pc' \in {"create tmp", "idle", "read mam"}
    BY <1>1
  <2> QED
    BY <2>1, <2>2, <2>3, <2>4, StillAtUpdate DEF MamSteps
<1>6. Resumable' /\ ~ignored' => Attributes'
  <2>1. Resumable' => mam'.form = "v3"
    BY <1>1, <1>5, Forms
  <2> QED
    BY <1>1, <2>1 DEF Attributes, RenameSteps
<1> QED
  BY <1>4, <1>5, <1>6 DEF IInv

\* mam.tmp is created beside the structure.
LEMMA CreateTmpKept == IInv /\ CreateTmp => IInv'
<1> SUFFICES ASSUME IInv, CreateTmp PROVE IInv'
  OBVIOUS
<1>0. TypeOK
  BY DEF IInv
<1>1. /\ pc = "create tmp" /\ tmp' = Empty /\ pc' = "write tmp"
      /\ UNCHANGED <<mam, dir, mem, fd, cut, ignored, loaded, errorCheck, found, faults, crashes, foreign>>
  BY <1>0, BoundTypes DEF CreateTmp, Goto, history, Quiet
<1>2. TypeOK'
  BY <1>0, <1>1, MamTypes DEF TypeOK, Places
<1>3. Resumable' => Sound' /\ mam = V3
  <2> SUFFICES ASSUME Resumable PROVE Sound' /\ mam = V3
    BY <1>1 DEF Resumable
  <2>1. mam = V3 /\ OldNames /\ dir["meta"] # "mapmam" /\ loaded = "no"
    BY <1>1, AtUpdate DEF MamSteps
  <2>2. mem.core = "own"
    BY <1>1 DEF IInv, Sound, Rewriting, MamSteps
  <2>3. OldNames' /\ dir'["meta"] # "mapmam"
    BY <1>1, <2>1 DEF OldNames
  <2> QED
    BY <1>1, <2>1, <2>2, <2>3, StillAtUpdate DEF MamSteps
<1>4. Resumable' /\ ~ignored' => Attributes'
  <2>1. Resumable' => mam'.form = "v3"
    BY <1>1, <1>3, Forms
  <2> QED
    BY <1>1, <2>1 DEF Attributes, RenameSteps
<1> QED
  BY <1>2, <1>3, <1>4 DEF IInv

\* mam.tmp has the attributes in memory, or what was written of them.
LEMMA WriteTmpKept == IInv /\ WriteTmp => IInv'
<1> SUFFICES ASSUME IInv, WriteTmp PROVE IInv'
  OBVIOUS
<1>0. TypeOK
  BY DEF IInv
<1>1. /\ pc = "write tmp"
      /\ UNCHANGED <<mam, dir, mem, fd, cut, loaded, errorCheck, found, crashes, foreign>>
      /\ faults' \in 0 .. MaxFaults
      /\ \/ tmp' = Tagged /\ pc' = "write mhvtl_data" /\ ignored' = ignored
         \/ tmp' = Cut /\ pc' = "rename tmp" /\ ignored' = TRUE
  BY <1>0, BoundTypes DEF WriteTmp, Goto, history, Quiet, TypeOK
<1>2. TypeOK'
  <2>1. tmp' \in MamFiles
    BY <1>0, <1>1, MamTypes
  <2> QED
    BY <1>0, <1>1, <2>1 DEF TypeOK, Places
<1>3. Resumable' => Sound' /\ mam = V3
  <2> SUFFICES ASSUME Resumable PROVE Sound' /\ mam = V3
    BY <1>1 DEF Resumable
  <2>1. mam = V3 /\ OldNames /\ dir["meta"] # "mapmam" /\ loaded = "no"
    BY <1>1, AtUpdate DEF MamSteps
  <2>2. mem.core = "own"
    BY <1>1 DEF IInv, Sound, Rewriting, MamSteps
  <2>3. OldNames' /\ dir'["meta"] # "mapmam"
    BY <1>1, <2>1 DEF OldNames
  <2>4. tmp'.form \in {"tlv", "short"} /\ tmp'.core = "own"
    BY <1>1, <2>2, Forms
  <2> QED
    BY <1>1, <2>1, <2>2, <2>3, <2>4, StillAtUpdate DEF MamSteps
<1>4. Resumable' /\ ~ignored' => Attributes'
  <2>1. Resumable' => mam'.form = "v3"
    BY <1>1, <1>3, Forms
  <2>2. ~ignored' => tmp'.form = "tlv" /\ pc' = "write mhvtl_data"
    BY <1>1, Forms
  <2> QED
    BY <1>1, <2>1, <2>2 DEF Attributes, RenameSteps
<1> QED
  BY <1>2, <1>3, <1>4 DEF IInv

\* mhvtl_data has the other attributes, or what was written of them.
LEMMA WriteMhvtlDataKept == IInv /\ WriteMhvtlData => IInv'
<1> SUFFICES ASSUME IInv, WriteMhvtlData PROVE IInv'
  OBVIOUS
<1>0. TypeOK
  BY DEF IInv
<1>1. /\ pc = "write mhvtl_data" /\ pc' = "rename tmp"
      /\ UNCHANGED <<mam, tmp, mem, fd, cut, loaded, errorCheck, found, crashes, foreign>>
      /\ faults' \in 0 .. MaxFaults
      /\ \/ Put("mhvtl_data", "full") /\ ignored' = ignored
         \/ Put("mhvtl_data", "part") /\ ignored' = TRUE
  BY <1>0, BoundTypes DEF WriteMhvtlData, Goto, history, Quiet, TypeOK
<1>2. /\ dir' \in [Names -> Contents] /\ \A n \in Names \ {"mhvtl_data"} : dir'[n] = dir[n]
      /\ dir'["mhvtl_data"] = "full" \/ ignored'
  <2>1. "mhvtl_data" \in Names /\ "full" \in Contents /\ "part" \in Contents
    BY DEF Names, Contents
  <2> QED
    BY <1>0, <1>1, <2>1, DirTypes
<1>3. TypeOK'
  BY <1>0, <1>1, <1>2 DEF TypeOK, Places
<1>4. Resumable' => Sound' /\ mam = V3
  <2> SUFFICES ASSUME Resumable PROVE Sound' /\ mam = V3
    BY <1>1 DEF Resumable
  <2>1. mam = V3 /\ OldNames /\ dir["meta"] # "mapmam" /\ loaded = "no"
    BY <1>1, AtUpdate DEF MamSteps
  <2>2. mem.core = "own" /\ tmp.form \in {"tlv", "short"} /\ tmp.core = "own"
    BY <1>1 DEF IInv, Sound, Rewriting, MamSteps
  <2>3. OldNames' /\ dir'["meta"] # "mapmam"
    BY <1>2, <2>1, NamesKept
  <2> QED
    BY <1>1, <2>1, <2>2, <2>3, StillAtUpdate DEF MamSteps
<1>5. Resumable' /\ ~ignored' => Attributes'
  <2> SUFFICES ASSUME Resumable', ~ignored' PROVE Attributes'
    OBVIOUS
  <2>1. mam'.form = "v3"
    BY <1>1, <1>4, Forms
  <2>2. ~ignored /\ Resumable
    <3>1. ignored' = ignored
      BY <1>1
    <3> QED
      BY <1>1, <3>1 DEF Resumable
  <2>3. tmp'.form = "tlv"
    BY <1>1, <2>2 DEF IInv, Attributes
  <2>4. dir'["mhvtl_data"] = "full"
    BY <1>2
  <2> QED
    BY <1>1, <2>1, <2>3, <2>4 DEF Attributes, RenameSteps
<1> QED
  BY <1>3, <1>4, <1>5 DEF IInv

\* The new file takes the place of the structure when all of it is there.
LEMMA RenameTmpKept == IInv /\ RenameTmp => IInv'
<1> SUFFICES ASSUME IInv, RenameTmp PROVE IInv'
  OBVIOUS
<1>0. TypeOK
  BY DEF IInv
<1>1. /\ pc = "rename tmp" /\ mam' = tmp /\ tmp' = Absent /\ fd' = "old" /\ pc' = "read mam"
      /\ UNCHANGED <<dir, mem, cut, ignored, loaded, errorCheck, found, faults, crashes, foreign>>
  BY <1>0, BoundTypes DEF RenameTmp, Goto, history, Quiet
<1>2. TypeOK'
  BY <1>0, <1>1, MamTypes DEF TypeOK, Places
<1>3. Resumable' => Sound' /\ tmp.core = "own"
  <2> SUFFICES ASSUME Resumable PROVE Sound' /\ tmp.core = "own"
    BY <1>1 DEF Resumable
  <2>1. OldNames /\ dir["meta"] # "mapmam" /\ loaded = "no"
    BY <1>1, AtUpdate DEF MamSteps
  <2>2. tmp.form \in {"tlv", "short"} /\ tmp.core = "own"
    BY <1>1 DEF IInv, Sound, Rewriting, MamSteps
  <2>3. OldNames' /\ dir'["meta"] # "mapmam"
    BY <1>1, <2>1 DEF OldNames
  <2> QED
    BY <1>1, <2>1, <2>2, <2>3 DEF Sound, Layout, Extraction, ExtractSteps, Rewriting, MamSteps,
       Misreads, RenameSteps, InDrive
<1>4. Resumable' /\ ~ignored' => Attributes'
  <2> SUFFICES ASSUME Resumable', ~ignored' PROVE Attributes'
    OBVIOUS
  <2>1. tmp.form = "tlv" /\ dir["mhvtl_data"] = "full" /\ tmp.core = "own"
    BY <1>1, <1>3 DEF IInv, Resumable, Attributes
  <2> QED
    BY <1>1, <2>1 DEF Attributes, RenameSteps
<1> QED
  BY <1>2, <1>3, <1>4 DEF IInv

\* The cleanup of try_update_mam() leaves the structure alone.
LEMMA UpdateMamFailsKept == IInv /\ UpdateMamFails => IInv'
<1> SUFFICES ASSUME IInv, UpdateMamFails PROVE IInv'
  OBVIOUS
<1>0. TypeOK
  BY DEF IInv
<1>1. /\ pc \in {"create tmp", "rename tmp"} /\ pc' \in {"idle", "read mam"}
      /\ tmp' = Absent /\ Put("mhvtl_data", "none") /\ mam' = mam
      /\ UNCHANGED <<mem, fd, cut, ignored, loaded, errorCheck, found, crashes, foreign>>
      /\ faults' \in 0 .. MaxFaults
  BY <1>0, BoundTypes DEF UpdateMamFails, DropNew, UpdateFailed, LoadFails, Goto, history, Quiet
<1>2. dir' \in [Names -> Contents] /\ \A n \in Names \ {"mhvtl_data"} : dir'[n] = dir[n]
  <2>1. "mhvtl_data" \in Names /\ "none" \in Contents
    BY DEF Names, Contents
  <2> QED
    BY <1>0, <1>1, <2>1, DirTypes
<1>3. TypeOK'
  BY <1>0, <1>1, <1>2, MamTypes DEF TypeOK, Places
<1>4. Resumable' => Sound' /\ mam = V3
  <2> SUFFICES ASSUME Resumable PROVE Sound' /\ mam = V3
    BY <1>1 DEF Resumable
  <2>1. mam = V3 /\ OldNames /\ dir["meta"] # "mapmam" /\ loaded = "no"
    BY <1>1, AtUpdate DEF MamSteps
  <2>2. OldNames' /\ dir'["meta"] # "mapmam"
    BY <1>2, <2>1, NamesKept
  <2> QED
    BY <1>1, <2>1, <2>2, StillAtUpdate DEF MamSteps
<1>5. Resumable' /\ ~ignored' => Attributes'
  <2>1. Resumable' => mam'.form = "v3"
    BY <1>1, <1>4, Forms
  <2> QED
    BY <1>1, <2>1 DEF Attributes, RenameSteps
<1> QED
  BY <1>3, <1>4, <1>5 DEF IInv

\* read_mam(): tags are read whole, a structure makes the cartridge one of version 4.
LEMMA ReadMamKept == IInv /\ ReadMam => IInv'
<1> SUFFICES ASSUME IInv, ReadMam PROVE IInv'
  OBVIOUS
<1>0. TypeOK
  BY DEF IInv
<1>1. /\ pc = "read mam" /\ mem' \in MamRead
      /\ pc' \in {"rename data", "partitions"}
      /\ UNCHANGED <<mam, tmp, dir, fd, cut, ignored, loaded, errorCheck, found, faults, crashes, foreign>>
  BY <1>0, BoundTypes DEF ReadMam, Goto, files, history, Quiet
<1>2. /\ mem' \in Mems
      /\ Structure => mem'.tape = 4
      /\ ~Structure /\ mam.form = "tlv" /\ dir["mhvtl_data"] = "full" => mem'.core = mam.core
  <2>1. mem \in Mems /\ mam.tape \in {0, 4, 5, 6} /\ mam.core \in Cores /\ mam.late \in Lates
        /\ "mixed" \in Cores
    BY <1>0 DEF TypeOK, Mems, MamFiles, Cores
  <2>2. CASE Structure
    <3>1. PICK c \in {mem.core, "mixed"} : mem' = [mem EXCEPT !.tape = 4, !.fmt = 3, !.core = c]
      BY <1>1, <2>2 DEF MamRead
    <3>2. c \in Cores
      BY <2>1 DEF Mems
    <3> QED
      BY <2>1, <2>2, <3>1, <3>2 DEF Mems
  <2>3. CASE ~Structure /\ mam.form = "empty"
    <3>1. mem' = mem
      BY <1>1, <2>3 DEF MamRead
    <3> QED
      BY <2>1, <2>3, <3>1
  <2>4. CASE ~Structure /\ mam.form = "tlv" /\ dir["mhvtl_data"] = "full"
    <3>1. mem' = [tape |-> mam.tape, fmt |-> 4, core |-> mam.core,
                  late |-> IF mam.late = "none" THEN mem.late ELSE mam.late]
      BY <1>1, <2>4 DEF MamRead
    <3> QED
      BY <2>1, <2>4, <3>1 DEF Mems
  <2>5. CASE ~Structure /\ mam.form # "empty" /\ ~(mam.form = "tlv" /\ dir["mhvtl_data"] = "full")
    <3>1. mem' = [mem EXCEPT !.tape = mam.tape, !.fmt = 4, !.core = "mixed"]
      BY <1>1, <2>5 DEF MamRead
    <3> QED
      BY <2>1, <2>5, <3>1 DEF Mems
  <2> QED
    BY <2>2, <2>3, <2>4, <2>5
<1>3. TypeOK'
  BY <1>0, <1>1, <1>2 DEF TypeOK, Places, Mems
<1>4. Structure' <=> Structure
  BY <1>1 DEF Structure
<1>5. Resumable' => Sound'
  <2> SUFFICES ASSUME Resumable PROVE Sound'
    BY <1>1 DEF Resumable
  <2>1. /\ OldNames \/ NewNames
        /\ mam.form \in {"v3", "tlv", "short"} /\ dir["meta"] # "mapmam" /\ loaded = "no"
        /\ mam.form = "v3" => mam = V3 /\ OldNames
        /\ Structure => OldNames
    BY <1>1 DEF IInv, Sound, Layout, Extraction, ExtractSteps, Rewriting, Misreads, InDrive
  <2>2. (OldNames' <=> OldNames) /\ (NewNames' <=> NewNames)
    BY <1>1 DEF OldNames, NewNames
  <2> QED
    BY <1>1, <1>2, <1>4, <2>1, <2>2 DEF Sound, Layout, Extraction, ExtractSteps, Rewriting, MamSteps,
       Misreads, RenameSteps, InDrive
<1>6. Resumable' /\ ~ignored' => Attributes'
  <2> SUFFICES ASSUME Resumable', ~ignored' PROVE Attributes'
    OBVIOUS
  <2>1. Attributes /\ mam.form \in {"v3", "tlv", "short"}
    BY <1>1 DEF IInv, Resumable, Sound, Extraction, ExtractSteps
  <2>2. ~Structure => mam.form = "tlv"
    BY <2>1 DEF Attributes, Structure
  <2> QED
    BY <1>1, <1>2, <1>4, <2>1, <2>2 DEF Attributes, RenameSteps
<1> QED
  BY <1>3, <1>5, <1>6 DEF IInv

\* A tape that is not of version 5 is left as it is.
LEMMA TapeNotUpdatableKept == IInv /\ TapeNotUpdatable => IInv'
<1> SUFFICES ASSUME IInv, TapeNotUpdatable PROVE IInv'
  OBVIOUS
<1>0. TypeOK
  BY DEF IInv
<1>1. /\ pc = "rename data" /\ pc' \in {"idle", "partitions"}
      /\ UNCHANGED <<mam, tmp, dir, mem, fd, cut, ignored, loaded, errorCheck, found,
                     faults, crashes, foreign>>
  BY <1>0, BoundTypes DEF TapeNotUpdatable, UpdateFailed, LoadFails, Goto, files, history, Quiet
<1>2. TypeOK'
  BY <1>0, <1>1 DEF TypeOK, Places
<1>3. Structure' <=> Structure
  BY <1>1 DEF Structure
<1>4. Resumable' => Sound'
  <2> SUFFICES ASSUME Resumable PROVE Sound'
    BY <1>1 DEF Resumable
  <2>1. Sound
    BY DEF IInv
  <2>2. (OldNames' <=> OldNames) /\ (NewNames' <=> NewNames)
    BY <1>1 DEF OldNames, NewNames
  <2> QED
    BY <1>1, <1>3, <2>1, <2>2 DEF Sound, Layout, Extraction, ExtractSteps, Rewriting, MamSteps,
       Misreads, RenameSteps, InDrive
<1>5. Resumable' /\ ~ignored' => Attributes'
  <2> SUFFICES ASSUME Resumable', ~ignored' PROVE Attributes'
    OBVIOUS
  <2>1. Attributes
    BY <1>1 DEF IInv, Resumable
  <2> QED
    BY <1>1, <1>3, <2>1 DEF Attributes, RenameSteps
<1> QED
  BY <1>2, <1>4, <1>5 DEF IInv

\* Before a rename the medium is a tape with tags, and the names are those of its place.
LEMMA AtRename ==
    ASSUME IInv, Resumable, UpdatableTape, pc \in RenameSteps
    PROVE  /\ ~Structure /\ loaded = "no"
           /\ mam.form \in {"tlv", "short"} /\ dir["meta"] # "mapmam"
           /\ pc = "rename data" /\ dir["data"] # "none" => OldNames /\ dir["meta"] = "map"
<1>1. Sound /\ mem.tape = 5
  BY DEF IInv, UpdatableTape
<1>2. ~Structure
  <2>1. Misreads /\ pc \in RenameSteps \cup {"partitions", "save", "mounted"}
    BY <1>1 DEF Sound
  <2>2. Structure => mem.tape = 4
    BY <2>1, Zenon DEF Misreads
  <2>3. mem.tape # 4
    BY <1>1
  <2> QED
    BY <2>2, <2>3
<1>3. mam.form \in {"tlv", "short"} /\ dir["meta"] # "mapmam" /\ loaded = "no"
  BY <1>1, <1>2 DEF Sound, Extraction, ExtractSteps, RenameSteps, Structure, InDrive
<1>4. pc = "rename data" /\ dir["data"] # "none" => OldNames /\ dir["meta"] = "map"
  BY <1>1, <1>3 DEF Sound, Layout, OldNames, NewNames
<1> QED
  BY <1>2, <1>3, <1>4

\* A rename moves one file from its old name to its new one.
LEMMA RenameFileKept == IInv /\ RenameFile => IInv'
<1> SUFFICES ASSUME IInv, RenameFile PROVE IInv'
  OBVIOUS
<1>0. TypeOK
  BY DEF IInv
<1>1. PICK r \in Renames :
         /\ UpdatableTape /\ RenameAt(r) /\ dir[r[1]] # "none" /\ Move(r[1], r[2]) /\ pc' = r[3]
         /\ mem' = [mem EXCEPT !.tape = IF r[1] = "meta" THEN 6 ELSE @]
         /\ UNCHANGED <<mam, tmp, fd, cut, ignored, loaded, errorCheck, found, faults, crashes, foreign>>
  BY <1>0, BoundTypes DEF RenameFile, Goto, history, Quiet
<1>2. /\ mem.tape = 5
      /\ \/ r[1] = "data" /\ r[2] = "data.0" /\ pc = "rename data" /\ pc' = "rename indx"
         \/ r[1] = "indx" /\ r[2] = "indx.0" /\ pc = "rename indx" /\ pc' = "rename meta"
         \/ r[1] = "meta" /\ r[2] = "meta.0" /\ pc = "rename meta" /\ pc' = "partitions"
  <2>1. mem.tape = 5
    BY <1>1 DEF UpdatableTape
  <2>2. CASE r = <<"data", "data.0", "rename indx">>
    BY <1>1, <2>1, <2>2 DEF RenameAt
  <2>3. CASE r = <<"indx", "indx.0", "rename meta">>
    BY <1>1, <2>1, <2>3 DEF RenameAt
  <2>4. CASE r = <<"meta", "meta.0", "partitions">>
    BY <1>1, <2>1, <2>4 DEF RenameAt
  <2> QED
    BY <2>2, <2>3, <2>4 DEF Renames
<1>3. /\ dir' \in [Names -> Contents] /\ dir'[r[1]] = "none" /\ dir'[r[2]] = dir[r[1]]
      /\ \A m \in Names \ {r[1], r[2]} : dir'[m] = dir[m]
  <2>1. r[1] \in Names /\ r[2] \in Names /\ r[1] # r[2]
    BY <1>2 DEF Names
  <2> QED
    BY <1>0, <1>1, <2>1, DirTypes
<1>4. mem' \in Mems /\ mem'.core = mem.core
  <2>1. mem \in Mems
    BY <1>0 DEF TypeOK, Mems
  <2> QED
    BY <1>1, <2>1 DEF Mems
<1>5. TypeOK'
  BY <1>0, <1>1, <1>2, <1>3, <1>4 DEF TypeOK, Places, Mems
<1>6. Structure' <=> Structure
  BY <1>1 DEF Structure
<1>7. Resumable => /\ ~Structure /\ loaded = "no"
                   /\ mam.form \in {"tlv", "short"} /\ dir["meta"] # "mapmam"
                   /\ r[1] = "data" => OldNames /\ dir["meta"] = "map"
                   /\ Layout
  <2> SUFFICES ASSUME Resumable
               PROVE  /\ ~Structure /\ loaded = "no"
                      /\ mam.form \in {"tlv", "short"} /\ dir["meta"] # "mapmam"
                      /\ r[1] = "data" => OldNames /\ dir["meta"] = "map"
                      /\ Layout
    OBVIOUS
  <2>1. UpdatableTape /\ pc \in RenameSteps
    BY <1>1, <1>2 DEF RenameSteps
  <2>3. r[1] = "data" => pc = "rename data" /\ dir["data"] # "none"
    <3>1. r[1] = "data" => pc = "rename data"
      BY <1>2
    <3>2. r[1] = "data" => dir["data"] # "none"
      BY <1>1, Zenon
    <3> QED
      BY <3>1, <3>2
  <2>2. Layout
    BY DEF IInv, Sound
  <2> QED
    BY <2>1, <2>2, <2>3, AtRename
<1>8. Resumable' => Sound'
  <2> SUFFICES ASSUME Resumable PROVE Sound'
    BY <1>1 DEF Resumable
  <2>1. Layout' /\ dir'["meta"] # "mapmam"
    <3>1. CASE r[1] = "data"
      BY <1>2, <1>3, <1>7, <3>1 DEF Layout, OldNames, Names
    <3>2. CASE r[1] = "indx"
      BY <1>2, <1>3, <1>7, <3>2 DEF Layout, Names
    <3>3. CASE r[1] = "meta"
      BY <1>2, <1>3, <1>7, <3>3 DEF Layout, NewNames, Names
    <3> QED
      BY <1>2, <3>1, <3>2, <3>3
  <2> QED
    BY <1>1, <1>2, <1>6, <1>7, <2>1 DEF Sound, Extraction, ExtractSteps, Rewriting, MamSteps,
       Misreads, RenameSteps, InDrive
<1>9. Resumable' /\ ~ignored' => Attributes'
  <2> SUFFICES ASSUME Resumable', ~ignored' PROVE Attributes'
    OBVIOUS
  <2>1. Attributes
    BY <1>1 DEF IInv, Resumable
  <2>2. dir'["mhvtl_data"] = dir["mhvtl_data"]
    BY <1>2, <1>3 DEF Names
  <2>3. pc \in RenameSteps /\ pc' \notin {"write mhvtl_data", "rename tmp"}
    BY <1>2 DEF RenameSteps
  <2> QED
    BY <1>1, <1>4, <1>6, <2>1, <2>2, <2>3 DEF Attributes
<1> QED
  BY <1>5, <1>8, <1>9 DEF IInv

\* A rename that fails after the first has cut the update off for good; the first one,
\* and a file that is not there, have changed nothing.
LEMMA RenameFailsKept == IInv /\ RenameFails => IInv'
<1> SUFFICES ASSUME IInv, RenameFails PROVE IInv'
  OBVIOUS
<1>0. TypeOK
  BY DEF IInv
<1>1. PICK r \in Renames :
         /\ UpdatableTape /\ RenameAt(r)
         /\ cut' = IF dir[r[1]] # "none" /\ r[1] # "data" THEN cut \cup {"renames"} ELSE cut
         /\ pc' \in {"idle", "partitions"} /\ faults' \in 0 .. MaxFaults
         /\ UNCHANGED <<mam, tmp, dir, mem, fd, ignored, loaded, errorCheck, found, crashes, foreign>>
  <2>1. PICK r \in Renames :
           /\ RenameAt(r)
           /\ \/ dir[r[1]] = "none" /\ Works
              \/ dir[r[1]] # "none" /\ Fails
           /\ cut' = IF dir[r[1]] # "none" /\ r[1] # "data" THEN cut \cup {"renames"} ELSE cut
    BY DEF RenameFails
  <2>2. faults' \in 0 .. MaxFaults /\ UNCHANGED <<crashes, foreign>>
    BY <1>0, <2>1, BoundTypes DEF TypeOK
  <2>3. /\ UpdatableTape /\ pc' \in {"idle", "partitions"}
        /\ UNCHANGED <<mam, tmp, dir, mem, fd, ignored, loaded, errorCheck, found>>
    BY DEF RenameFails, UpdateFailed, LoadFails, Goto, files, Quiet
  <2> QED
    BY <2>1, <2>2, <2>3
<1>2. \/ r[1] = "data" /\ pc = "rename data"
      \/ r[1] = "indx" /\ pc = "rename indx"
      \/ r[1] = "meta" /\ pc = "rename meta"
  <2>1. CASE r = <<"data", "data.0", "rename indx">>
    BY <1>1, <2>1 DEF RenameAt
  <2>2. CASE r = <<"indx", "indx.0", "rename meta">>
    BY <1>1, <2>2 DEF RenameAt
  <2>3. CASE r = <<"meta", "meta.0", "partitions">>
    BY <1>1, <2>3 DEF RenameAt
  <2> QED
    BY <2>1, <2>2, <2>3 DEF Renames
<1>3. cut' \subseteq {"extract", "renames", "unsaved"} /\ cut \subseteq cut'
  BY <1>0, <1>1 DEF TypeOK
<1>4. TypeOK'
  BY <1>0, <1>1, <1>3 DEF TypeOK, Places
<1>5. Structure' <=> Structure
  BY <1>1 DEF Structure
<1>6. Resumable' => Resumable /\ pc = "rename data"
  <2> SUFFICES ASSUME Resumable' PROVE Resumable /\ pc = "rename data"
    OBVIOUS
  <2>1. Resumable
    BY <1>3 DEF Resumable
  <2>2. Layout /\ "renames" \notin cut'
    BY <2>1 DEF IInv, Sound, Resumable
  <2>3. ~(dir[r[1]] # "none" /\ r[1] # "data")
    BY <1>1, <2>2
  <2>4. pc = "rename indx" => dir["indx"] # "none"
    BY <2>2 DEF Layout
  <2>5. pc = "rename meta" => dir["meta"] # "none"
    BY <2>2 DEF Layout
  <2>6. CASE r[1] = "indx" /\ pc = "rename indx"
    BY <2>3, <2>4, <2>6
  <2>7. CASE r[1] = "meta" /\ pc = "rename meta"
    BY <2>3, <2>5, <2>7
  <2> QED
    BY <1>2, <2>1, <2>6, <2>7
<1>7. Resumable' => Sound'
  <2> SUFFICES ASSUME Resumable' PROVE Sound'
    OBVIOUS
  <2>1. Sound /\ pc = "rename data"
    BY <1>6 DEF IInv
  <2>2. (OldNames' <=> OldNames) /\ (NewNames' <=> NewNames)
    BY <1>1 DEF OldNames, NewNames
  <2> QED
    BY <1>1, <1>5, <2>1, <2>2 DEF Sound, Layout, Extraction, ExtractSteps, Rewriting, MamSteps,
       Misreads, RenameSteps, InDrive
<1>8. Resumable' /\ ~ignored' => Attributes'
  <2> SUFFICES ASSUME Resumable', ~ignored' PROVE Attributes'
    OBVIOUS
  <2>1. Attributes /\ pc = "rename data"
    BY <1>1, <1>6 DEF IInv
  <2> QED
    BY <1>1, <1>5, <2>1 DEF Attributes, RenameSteps
<1> QED
  BY <1>4, <1>7, <1>8 DEF IInv

\* What is opened is an old cartridge that looks blank, or the whole of a new one.
LEMMA OpenPartitionsKept == IInv /\ OpenPartitions => IInv'
<1> SUFFICES ASSUME IInv, OpenPartitions PROVE IInv'
  OBVIOUS
<1>0. TypeOK
  BY DEF IInv
<1>1. /\ pc = "partitions" /\ pc' = "save" /\ loaded' = Outcome
      /\ UNCHANGED <<mam, tmp, dir, mem, fd, cut, ignored, errorCheck, found, faults, crashes, foreign>>
  BY <1>0, BoundTypes DEF OpenPartitions, Goto, files, history
<1>2. TypeOK'
  <2>1. loaded' \in {"no", "whole", "blank", "exposed", "misread"}
    BY <1>1 DEF Outcome
  <2> QED
    BY <1>0, <1>1, <2>1 DEF TypeOK, Places
<1>3. Structure' <=> Structure
  BY <1>1 DEF Structure
<1>4. Resumable' => Sound'
  <2> SUFFICES ASSUME Resumable PROVE Sound'
    BY <1>1 DEF Resumable
  <2>1. Sound /\ (OldNames \/ NewNames)
    BY <1>1 DEF IInv, Sound, Layout
  <2>2. (OldNames' <=> OldNames) /\ (NewNames' <=> NewNames)
    BY <1>1 DEF OldNames, NewNames
  <2>3. (OldNames => loaded' = "blank") /\ (NewNames => loaded' = "whole")
    BY <1>1 DEF OldNames, NewNames, Outcome
  <2>4. InDrive'
    BY <1>1, <2>1, <2>2, <2>3 DEF InDrive, OldNames, NewNames
  <2> QED
    BY <1>1, <1>3, <2>1, <2>2, <2>4 DEF Sound, Layout, Extraction, ExtractSteps, Rewriting, MamSteps,
       Misreads, RenameSteps
<1>5. Resumable' /\ ~ignored' => Attributes'
  <2> SUFFICES ASSUME Resumable', ~ignored' PROVE Attributes'
    OBVIOUS
  <2>1. Attributes
    BY <1>1 DEF IInv, Resumable
  <2> QED
    BY <1>1, <1>3, <2>1 DEF Attributes, RenameSteps
<1> QED
  BY <1>2, <1>4, <1>5 DEF IInv

\* The MAM is saved with what is in memory, and only to a cartridge of the new format.
LEMMA SaveMamKept == IInv /\ SaveMam => IInv'
<1> SUFFICES ASSUME IInv, SaveMam PROVE IInv'
  OBVIOUS
<1>0. TypeOK
  BY DEF IInv
<1>1. /\ pc = "save" /\ pc' = "mounted"
      /\ UNCHANGED <<tmp, mem, fd, cut, loaded, errorCheck, found, crashes, foreign>>
      /\ faults' \in 0 .. MaxFaults
      /\ \/ Saves /\ mam' = Tagged /\ Put("mhvtl_data", "full") /\ ignored' = ignored
         \/ mam' = mam /\ dir' = dir /\ ignored' = ignored
         \/ /\ Saves /\ mam' \in {mam, Cut, Tagged} /\ ignored' = TRUE
            /\ dir' = dir \/ Put("mhvtl_data", "part")
  <2>1. /\ pc = "save" /\ pc' = "mounted"
        /\ UNCHANGED <<tmp, mem, fd, cut, loaded, errorCheck, found>>
    BY DEF SaveMam, Goto, Quiet
  <2>2. UNCHANGED <<crashes, foreign>> /\ faults' \in 0 .. MaxFaults
    BY <1>0, BoundTypes DEF SaveMam, TypeOK
  <2>3. \/ Saves /\ mam' = Tagged /\ Put("mhvtl_data", "full") /\ ignored' = ignored
        \/ mam' = mam /\ dir' = dir /\ ignored' = ignored
        \/ /\ Saves /\ mam' \in {mam, Cut, Tagged} /\ ignored' = TRUE
           /\ dir' = dir \/ Put("mhvtl_data", "part")
    BY DEF SaveMam
  <2> QED
    BY <2>1, <2>2, <2>3
<1>2. /\ dir' \in [Names -> Contents] /\ \A n \in Names \ {"mhvtl_data"} : dir'[n] = dir[n]
      /\ Put("mhvtl_data", "full") => dir'["mhvtl_data"] = "full"
  <2>1. "mhvtl_data" \in Names /\ "full" \in Contents /\ "part" \in Contents
    BY DEF Names, Contents
  <2>2. \A c \in {"full", "part"} : Put("mhvtl_data", c) =>
           /\ dir' \in [Names -> Contents] /\ dir'["mhvtl_data"] = c
           /\ \A n \in Names \ {"mhvtl_data"} : dir'[n] = dir[n]
    BY <1>0, <2>1, DirTypes
  <2>3. dir' = dir =>
           dir' \in [Names -> Contents] /\ \A n \in Names \ {"mhvtl_data"} : dir'[n] = dir[n]
    BY <1>0 DEF TypeOK
  <2> QED
    BY <1>1, <2>2, <2>3
<1>3. TypeOK'
  <2>1. mam' \in MamFiles
    BY <1>0, <1>1, MamTypes DEF TypeOK
  <2>2. ignored' \in BOOLEAN
    BY <1>0, <1>1, Zenon DEF TypeOK
  <2> QED
    BY <1>0, <1>1, <1>2, <2>1, <2>2 DEF TypeOK, Places
<1>4. (OldNames' <=> OldNames) /\ (NewNames' <=> NewNames) /\ dir'["meta"] = dir["meta"]
  BY <1>2, NamesKept
<1>5. Resumable /\ Saves => fd = "path" /\ NewNames /\ ~Structure /\ mam.form # "v3"
  <2> SUFFICES ASSUME Resumable, Saves
               PROVE  fd = "path" /\ NewNames /\ ~Structure /\ mam.form # "v3"
    OBVIOUS
  <2>1. Misreads /\ InDrive
    BY DEF IInv, Sound
  <2>2. NewNames
    BY <1>1, <2>1 DEF InDrive, Saves
  <2>3. ~Structure
    BY <1>1, <2>1, <2>2 DEF Misreads, OldNames, NewNames
  <2> QED
    BY <2>2, <2>3 DEF Saves, Structure
<1>6. Resumable' => Sound'
  <2> SUFFICES ASSUME Resumable PROVE Sound'
    BY <1>1 DEF Resumable
  <2>1. Sound /\ (OldNames \/ NewNames)
    BY <1>1 DEF IInv, Sound, Layout
  <2>2. CASE Saves
    <3>1. mam' = mam \/ mam' = Tagged \/ mam' = Cut
      BY <1>1
    <3>2. mam'.form \in {"tlv", "short"}
      <4>1. mam.form \in {"tlv", "short"}
        BY <1>1, <1>5, <2>1, <2>2 DEF Sound, Extraction, ExtractSteps
      <4> QED
        BY <3>1, <4>1, Forms
    <3>3. ~Structure'
      BY <1>1, <1>5, <2>2, <3>2 DEF Structure
    <3>4. dir["meta"] # "mapmam"
      BY <1>5, <2>2 DEF NewNames
    <3> QED
      BY <1>1, <1>4, <1>5, <2>1, <2>2, <3>2, <3>3, <3>4 DEF Sound, Layout, Extraction,
         ExtractSteps, Rewriting, MamSteps, Misreads, RenameSteps, InDrive
  <2>3. CASE mam' = mam /\ dir' = dir
    <3>1. Structure' <=> Structure
      BY <1>1, <2>3 DEF Structure
    <3> QED
      BY <1>1, <1>4, <2>1, <2>3, <3>1 DEF Sound, Layout, Extraction, ExtractSteps,
         Rewriting, MamSteps, Misreads, RenameSteps, InDrive
  <2> QED
    BY <1>1, <2>2, <2>3
<1>7. Resumable' /\ ~ignored' => Attributes'
  <2> SUFFICES ASSUME Resumable', ~ignored' PROVE Attributes'
    OBVIOUS
  <2>1. Resumable /\ ~ignored
    BY <1>1 DEF Resumable
  <2>2. Attributes
    BY <2>1 DEF IInv
  <2>3. CASE Saves /\ mam' = Tagged /\ Put("mhvtl_data", "full")
    <3>1. ~Structure /\ mam'.form = "tlv" /\ mam'.core = mem.core
      BY <1>5, <2>1, <2>3, Forms
    <3>2. mem.core = "own"
      BY <1>1, <2>2, <3>1 DEF Attributes
    <3> QED
      BY <1>1, <1>2, <2>3, <3>1, <3>2 DEF Attributes, RenameSteps
  <2>4. CASE mam' = mam /\ dir' = dir
    <3>1. Structure' <=> Structure
      BY <1>1, <2>4 DEF Structure
    <3> QED
      BY <1>1, <2>2, <2>4, <3>1 DEF Attributes, RenameSteps
  <2> QED
    BY <1>1, <2>3, <2>4
<1> QED
  BY <1>3, <1>6, <1>7 DEF IInv

\* No host writes to a medium that looks blank because files are missing.
LEMMA HostWriteKept == IInv /\ HostWrite => IInv'
<1> SUFFICES ASSUME IInv, HostWrite PROVE IInv'
  OBVIOUS
<1>0. TypeOK
  BY DEF IInv
<1>1. /\ loaded \in {"exposed", "misread"}
      /\ dir' = [dir EXCEPT !["data.0"] = "lost",
                            !["indx.0"] = IF @ = "none" THEN @ ELSE "lost"]
      /\ UNCHANGED <<mam, tmp, mem, fd, pc, cut, ignored, loaded, errorCheck, found,
                     faults, crashes, foreign>>
  BY <1>0, BoundTypes DEF HostWrite, history, Quiet
<1>2. dir' \in [Names -> Contents]
  <2>1. dir \in [Names -> Contents] /\ "lost" \in Contents /\ "none" \in Contents
    BY <1>0 DEF TypeOK, Contents
  <2> QED
    BY <1>1, <2>1
<1>3. TypeOK'
  BY <1>0, <1>1, <1>2 DEF TypeOK
<1>4. ~Resumable'
  BY <1>1 DEF IInv, Resumable, Sound, InDrive
<1> QED
  BY <1>3, <1>4 DEF IInv

\* Ejecting the whole or a blank cartridge changes none of its files.
LEMMA UnloadKept == IInv /\ Unload => IInv'
<1> SUFFICES ASSUME IInv, Unload PROVE IInv'
  OBVIOUS
<1>0. TypeOK
  BY DEF IInv
<1>1. /\ pc = "mounted" /\ pc' = "idle" /\ loaded' = "no"
      /\ dir' = [dir EXCEPT !["meta.0"] = IF loaded = "misread" THEN "lost" ELSE @]
      /\ UNCHANGED <<mam, tmp, mem, fd, cut, ignored, errorCheck, found, faults, crashes, foreign>>
  BY <1>0, BoundTypes DEF Unload, Goto, history
<1>2. dir' \in [Names -> Contents] /\ (loaded # "misread" => dir' = dir)
  <2>1. dir \in [Names -> Contents] /\ "lost" \in Contents /\ "meta.0" \in Names
    BY <1>0 DEF TypeOK, Contents, Names
  <2> QED
    BY <1>1, <2>1
<1>3. TypeOK'
  BY <1>0, <1>1, <1>2 DEF TypeOK, Places
<1>4. Resumable' => Sound'
  <2> SUFFICES ASSUME Resumable PROVE Sound'
    BY <1>1 DEF Resumable
  <2>1. Sound /\ dir' = dir
    BY <1>2 DEF IInv, Sound, InDrive
  <2>2. (OldNames' <=> OldNames) /\ (NewNames' <=> NewNames)
    BY <2>1 DEF OldNames, NewNames
  <2> QED
    BY <1>1, <2>1, <2>2 DEF Sound, Layout, Extraction, ExtractSteps, Rewriting, MamSteps,
       Misreads, RenameSteps, InDrive
<1>5. Resumable' /\ ~ignored' => Attributes'
  <2> SUFFICES ASSUME Resumable', ~ignored' PROVE Attributes'
    OBVIOUS
  <2>1. Attributes /\ Sound
    BY <1>1 DEF IInv, Resumable
  <2>2. dir' = dir
    BY <1>2, <2>1 DEF Sound, InDrive
  <2> QED
    BY <1>1, <2>1, <2>2 DEF Attributes, RenameSteps
<1> QED
  BY <1>3, <1>4, <1>5 DEF IInv

\* Another cartridge leaves its MAM in memory, where this one's load starts from.
LEMMA OtherCartridgeKept == IInv /\ OtherCartridge => IInv'
<1> SUFFICES ASSUME IInv, OtherCartridge PROVE IInv'
  OBVIOUS
<1>0. TypeOK
  BY DEF IInv
<1>1. PICK v \in {<<6, 4>>, <<5, 4>>, <<4, 3>>} :
         mem' = [tape |-> v[1], fmt |-> v[2], core |-> "other", late |-> "other"]
  BY DEF OtherCartridge
<1>2. /\ pc = "idle" /\ foreign' \in 0 .. MaxForeign
      /\ UNCHANGED <<mam, tmp, dir, fd, pc, cut, ignored, loaded, errorCheck, found, faults, crashes>>
  BY <1>0, BoundTypes DEF OtherCartridge, files, history
<1>3. mem' \in Mems
  BY <1>1 DEF Mems, Cores, Lates
<1>4. TypeOK'
  BY <1>0, <1>2, <1>3 DEF TypeOK, Mems
<1>5. Resumable' => Sound'
  <2> SUFFICES ASSUME Resumable PROVE Sound'
    BY <1>2 DEF Resumable
  <2>1. Sound
    BY DEF IInv
  <2>2. (OldNames' <=> OldNames) /\ (NewNames' <=> NewNames)
    BY <1>2 DEF OldNames, NewNames
  <2> QED
    BY <1>2, <2>1, <2>2 DEF Sound, Layout, Extraction, ExtractSteps, Rewriting, MamSteps,
       Misreads, RenameSteps, InDrive
<1>6. Resumable' /\ ~ignored' => Attributes'
  <2> SUFFICES ASSUME Resumable', ~ignored' PROVE Attributes'
    OBVIOUS
  <2>1. Attributes
    BY <1>2 DEF IInv, Resumable
  <2> QED
    BY <1>2, <2>1 DEF Attributes, RenameSteps
<1> QED
  BY <1>4, <1>5, <1>6 DEF IInv

\* The loss of the program: in two windows the cartridge is cut off, elsewhere the next
\* load finds one of the states a load starts from.
LEMMA CrashKept == IInv /\ Crash => IInv'
<1> SUFFICES ASSUME IInv, Crash PROVE IInv'
  OBVIOUS
<1>0. TypeOK
  BY DEF IInv
<1>1. /\ pc' = "idle" /\ loaded' = "no" /\ fd' = "path" /\ mem' = NoMam
      /\ cut' = cut \cup Window /\ crashes' \in 0 .. MaxCrashes
      /\ UNCHANGED <<mam, tmp, dir, ignored, errorCheck, found, faults, foreign>>
  BY <1>0, BoundTypes DEF Crash, files
<1>2. Window \subseteq {"extract", "renames", "unsaved"}
  BY DEF Window
<1>3. TypeOK'
  <2>1. mem' \in Mems
    BY <1>1 DEF NoMam, Mems, Cores, Lates
  <2> QED
    BY <1>0, <1>1, <1>2, <2>1 DEF TypeOK, Places, Mems
<1>4. Resumable' => /\ Resumable /\ pc \notin ExtractSteps \ {"create mam"}
                    /\ pc \notin {"rename indx", "rename meta"}
  <2> SUFFICES ASSUME Resumable'
               PROVE  /\ Resumable /\ pc \notin ExtractSteps \ {"create mam"}
                      /\ pc \notin {"rename indx", "rename meta"}
    OBVIOUS
  <2>1. Resumable /\ "extract" \notin Window /\ "renames" \notin Window
    BY <1>1 DEF Resumable
  <2>2. ASSUME pc \in ExtractSteps \ {"create mam"} PROVE FALSE
    <3>1. pc \notin {"rename indx", "rename meta", "partitions", "save"}
      BY <2>2 DEF ExtractSteps
    <3>2. Window = {"extract"}
      BY <2>2, <3>1 DEF Window
    <3> QED
      BY <2>1, <3>2
  <2>3. ASSUME pc \in {"rename indx", "rename meta"} PROVE FALSE
    <3>1. pc \notin ExtractSteps /\ pc \notin {"partitions", "save"}
      BY <2>3 DEF ExtractSteps
    <3>2. Window = {"renames"}
      BY <2>3, <3>1 DEF Window
    <3> QED
      BY <2>1, <3>2
  <2> QED
    BY <2>1, <2>2, <2>3
<1>5. Resumable' => Sound'
  <2> SUFFICES ASSUME Resumable' PROVE Sound'
    OBVIOUS
  <2>1. Sound /\ pc \notin ExtractSteps \ {"create mam"} /\ pc \notin {"rename indx", "rename meta"}
    BY <1>4 DEF IInv
  <2>2. (OldNames' <=> OldNames) /\ (NewNames' <=> NewNames)
    BY <1>1 DEF OldNames, NewNames
  <2> QED
    BY <1>1, <2>1, <2>2 DEF Sound, Layout, Extraction, ExtractSteps, Rewriting, MamSteps,
       Misreads, RenameSteps, InDrive
<1>6. Resumable' /\ ~ignored' => Attributes'
  <2> SUFFICES ASSUME Resumable', ~ignored' PROVE Attributes'
    OBVIOUS
  <2>1. Attributes
    BY <1>1, <1>4 DEF IInv
  <2> QED
    BY <1>1, <2>1 DEF Attributes, RenameSteps
<1> QED
  BY <1>3, <1>5, <1>6 DEF IInv

-----------------------------------------------------------------------------

\* A cartridge is found with the names and the MAM of its format.
LEMMA InitSound == Init => IInv
<1> SUFFICES ASSUME Init PROVE IInv
  OBVIOUS
<1>1. PICK format \in Formats : Found(format)
  BY DEF Init
<1>2. /\ tmp = Absent /\ mem = NoMam /\ fd = "path" /\ pc = "idle" /\ loaded = "no"
      /\ errorCheck \in BOOLEAN /\ faults = 0 /\ crashes = 0 /\ foreign = 0
      /\ cut = {} /\ ignored = FALSE /\ found = mam.late
  BY DEF Init
<1>3. \A S \in SUBSET Names :
         /\ Present(S) \in [Names -> Contents]
         /\ \A n \in Names \ S : Present(S)[n] = "none"
         /\ "data" \in S => Present(S)["data"] = "data"
         /\ "indx" \in S => Present(S)["indx"] = "index"
         /\ "meta" \in S => Present(S)["meta"] = "map"
         /\ "data.0" \in S => Present(S)["data.0"] = "data"
         /\ "indx.0" \in S => Present(S)["indx.0"] = "index"
         /\ "meta.0" \in S => Present(S)["meta.0"] = "map"
         /\ "mhvtl_data" \in S => Present(S)["mhvtl_data"] = "full"
  BY DEF Present, Names, Contents
<1>4. /\ dir \in [Names -> Contents] /\ mam \in MamFiles /\ mam.late \in {"none", "own"}
      /\ \/ mam = Absent /\ OldNames /\ dir["meta"] = "mapmam"
         \/ mam = V3 /\ OldNames /\ dir["meta"] = "map"
         \/ /\ mam.form = "tlv" /\ mam.core = "own" /\ dir["mhvtl_data"] = "full"
            /\ OldNames \/ NewNames
            /\ dir["meta"] # "mapmam"
  <2>1. format \in 3 .. 6
    BY UpdateAssumption
  <2>2. CASE format = 3
    <3>1. mam = Absent /\ dir = [Present({"data", "indx", "meta"}) EXCEPT !["meta"] = "mapmam"]
      BY <1>1, <2>2 DEF Found
    <3> DEFINE old == Present({"data", "indx", "meta"})
    <3>2. {"data", "indx", "meta"} \in SUBSET Names /\ "mapmam" \in Contents
      BY DEF Names, Contents
    <3>3. /\ old \in [Names -> Contents] /\ old["data"] = "data" /\ old["indx"] = "index"
          /\ old["data.0"] = "none" /\ old["indx.0"] = "none" /\ old["meta.0"] = "none"
      BY <1>3, <3>2 DEF Names
    <3> HIDE DEF old
    <3>4. dir = [old EXCEPT !["meta"] = "mapmam"]
      BY <3>1 DEF old
    <3>5. dir \in [Names -> Contents] /\ dir["meta"] = "mapmam" /\ OldNames
      BY <3>2, <3>3, <3>4 DEF OldNames, Names
    <3> QED
      BY <3>1, <3>5, MamTypes, Forms
  <2>3. CASE format = 4
    <3>1. mam = V3 /\ dir = Present({"data", "indx", "meta"})
      BY <1>1, <2>3 DEF Found
    <3>2. {"data", "indx", "meta"} \in SUBSET Names
      BY DEF Names
    <3> QED
      BY <1>3, <3>1, <3>2, MamTypes, Forms DEF OldNames, Names
  <2>4. CASE format = 5
    <3>1. /\ mam \in {File("tlv", 5, "own", l) : l \in {"none", "own"}}
          /\ dir = Present({"data", "indx", "meta", "mhvtl_data"})
      BY <1>1, <2>4 DEF Found
    <3>2. {"data", "indx", "meta", "mhvtl_data"} \in SUBSET Names
      BY DEF Names
    <3>3. /\ mam \in MamFiles /\ mam.form = "tlv" /\ mam.core = "own"
          /\ mam.late \in {"none", "own"}
      BY <3>1 DEF File, MamFiles, Cores, Lates
    <3> QED
      BY <1>3, <3>1, <3>2, <3>3 DEF OldNames, Names
  <2>5. CASE format = 6
    <3>1. /\ mam \in {File("tlv", 6, "own", l) : l \in {"none", "own"}}
          /\ dir = Present({"data.0", "indx.0", "meta.0", "mhvtl_data"})
      BY <1>1, <2>5 DEF Found
    <3>2. {"data.0", "indx.0", "meta.0", "mhvtl_data"} \in SUBSET Names
      BY DEF Names
    <3>3. /\ mam \in MamFiles /\ mam.form = "tlv" /\ mam.core = "own"
          /\ mam.late \in {"none", "own"}
      BY <3>1 DEF File, MamFiles, Cores, Lates
    <3> QED
      BY <1>3, <3>1, <3>2, <3>3 DEF NewNames, Names
  <2> QED
    BY <2>1, <2>2, <2>3, <2>4, <2>5
<1>5. TypeOK
  <2>1. tmp \in MamFiles /\ mem \in Mems
    BY <1>2, MamTypes DEF NoMam, Mems, Cores, Lates
  <2>2. 0 \in 0 .. MaxFaults /\ 0 \in 0 .. MaxCrashes /\ 0 \in 0 .. MaxForeign
    BY UpdateAssumption
  <2>3. errorCheck \in BOOLEAN /\ ignored \in BOOLEAN
    BY <1>2
  <2>4. mam \in MamFiles /\ dir \in [Names -> Contents] /\ found \in {"none", "own"}
    BY <1>2, <1>4
  <2>5. /\ fd \in {"path", "old"} /\ pc \in Places
        /\ loaded \in {"no", "whole", "blank", "exposed", "misread"}
        /\ cut \subseteq {"extract", "renames", "unsaved"}
    BY <1>2 DEF Places
  <2> QED
    BY <1>2, <2>1, <2>2, <2>3, <2>4, <2>5, Zenon DEF TypeOK, Mems
<1>6. Sound /\ Attributes
  BY <1>2, <1>4, Forms DEF Sound, Layout, Extraction, ExtractSteps, Rewriting, MamSteps, Misreads,
     RenameSteps, InDrive, Attributes
<1> QED
  BY <1>5, <1>6 DEF IInv

\* Every step, and none, keeps the invariant.
LEMMA StepKept == IInv /\ [Next]_vars => IInv'
<1> SUFFICES ASSUME IInv, [Next]_vars PROVE IInv'
  OBVIOUS
<1>1. CASE Next
  BY <1>1, OpenMamKept, ExtractMamKept, ExtractFailsKept, ReadVersionsKept, UpdateMamKept,
     CreateTmpKept, WriteTmpKept, WriteMhvtlDataKept, RenameTmpKept, UpdateMamFailsKept,
     ReadMamKept, TapeNotUpdatableKept, RenameFileKept, RenameFailsKept, OpenPartitionsKept,
     SaveMamKept, HostWriteKept, UnloadKept, OtherCartridgeKept, CrashKept DEF Next, LoadStep
<1>2. CASE UNCHANGED vars
  <2>1. UNCHANGED <<mam, tmp, dir, mem, fd, pc, loaded, errorCheck, found, faults, crashes, foreign,
                   cut, ignored>>
    BY <1>2 DEF vars, files, bounds, history
  <2>2. TypeOK' <=> TypeOK
    BY <2>1 DEF TypeOK
  <2>3. Sound' <=> Sound
    BY <2>1 DEF Sound, Layout, OldNames, NewNames, Extraction, Rewriting, Misreads, Structure, InDrive
  <2>4. Attributes' <=> Attributes
    BY <2>1 DEF Attributes, Structure
  <2> QED
    BY <2>1, <2>2, <2>3, <2>4 DEF IInv, Resumable
<1> QED
  BY <1>1, <1>2

\* The inductive invariant of the update: where the files, the MAM and what is in memory
\* stand at each step of load_tape() of vtlcart.c.
THEOREM Inductive == Spec => []IInv
BY InitSound, StepKept, PTL DEF Spec

\* Every variable keeps its type, whatever fails or is killed.
THEOREM TypeCorrect == Spec => []TypeOK
<1>1. IInv => TypeOK
  BY DEF IInv
<1> QED
  BY <1>1, Inductive, PTL

\* The blocks, the index and the filemark map are always under a name a later load looks
\* for, however often try_update_mam(), try_extract_mam() and try_update_tape() fail or
\* are killed, save in the two windows that cannot be resumed.
THEOREM DataKeptHolds == Spec => []DataKept
<1>1. IInv => DataKept
  <2> SUFFICES ASSUME IInv, Resumable
               PROVE  /\ OneOf({"data", "data.0"}, {"data"})
                      /\ OneOf({"indx", "indx.0"}, {"index"})
                      /\ OneOf({"meta", "meta.0"}, {"map", "mapmam"})
    BY DEF DataKept, Resumable
  <2>1. Layout
    BY DEF IInv, Sound
  <2> QED
    BY <2>1 DEF Layout, OldNames, NewNames, OneOf
<1> QED
  BY <1>1, Inductive, PTL

\* The late attributes: of a cartridge found without any, they are at every place still
\* none or those of a cartridge before it; one found with them never gets to the code
\* that writes without them.
LateAbsent ==
    found = "none" => OwnLate(mam.late) /\ OwnLate(tmp.late) /\ OwnLate(mem.late)

LatePresent ==
    found = "own" =>
        /\ fd = "path" /\ pc \notin ExtractSteps \cup MamSteps \cup {"update mam"}
        /\ mam.form \in {"tlv", "short"}
        /\ ~ignored => mam.form = "tlv" /\ mam.late = "own" /\ dir["mhvtl_data"] = "full"
        /\ ~ignored /\ pc \in RenameSteps \cup {"partitions", "save", "mounted"} =>
              mem.late = "own"

LateInv == LateAbsent /\ LatePresent

\* What read_mam() leaves in memory as late attributes.
LEMMA ReadLate ==
    ASSUME TypeOK, NEW m \in MamRead
    PROVE  /\ m.late \in {mem.late, mam.late}
           /\ ~Structure /\ mam.form = "tlv" /\ dir["mhvtl_data"] = "full" =>
                 m.late = IF mam.late = "none" THEN mem.late ELSE mam.late
<1>0. mem \in Mems
  BY DEF TypeOK, Mems
<1>1. CASE Structure
  <2>1. m \in {[mem EXCEPT !.tape = 4, !.fmt = 3, !.core = c] : c \in {mem.core, "mixed"}}
    BY <1>1 DEF MamRead
  <2> QED
    BY <1>0, <1>1, <2>1 DEF Mems
<1>2. CASE ~Structure /\ mam.form = "empty"
  <2>1. m = mem
    BY <1>2 DEF MamRead
  <2> QED
    BY <1>2, <2>1
<1>3. CASE ~Structure /\ mam.form = "tlv" /\ dir["mhvtl_data"] = "full"
  <2>1. m = [tape |-> mam.tape, fmt |-> 4, core |-> mam.core,
             late |-> IF mam.late = "none" THEN mem.late ELSE mam.late]
    BY <1>3 DEF MamRead
  <2> QED
    BY <2>1
<1>4. CASE ~Structure /\ mam.form # "empty" /\ ~(mam.form = "tlv" /\ dir["mhvtl_data"] = "full")
  <2>1. m = [mem EXCEPT !.tape = mam.tape, !.fmt = 4, !.core = "mixed"]
    BY <1>4 DEF MamRead
  <2> QED
    BY <1>0, <1>4, <2>1 DEF Mems
<1> QED
  BY <1>1, <1>2, <1>3, <1>4

\* What the step before read_mam() leaves in memory.
LEMMA VersionsLate ==
    ASSUME TypeOK
    PROVE  /\ VersionsRead.late = mem.late
           /\ mam.form \in {"tlv", "short"} => VersionsRead.fmt = 4
<1>0. mem \in Mems
  BY DEF TypeOK, Mems
<1>1. CASE mam.form = "v3"
  BY <1>0, <1>1 DEF VersionsRead, Mems
<1>2. CASE mam.form \in {"tlv", "short"}
  <2>1. VersionsRead = [mem EXCEPT !.tape = mam.tape, !.fmt = 4]
    BY <1>2 DEF VersionsRead
  <2> QED
    BY <1>0, <1>2, <2>1 DEF Mems
<1>3. CASE mam.form \notin {"v3", "tlv", "short"}
  BY <1>3 DEF VersionsRead
<1> QED
  BY <1>1, <1>2, <1>3

\* Late attributes are never made up: they come from mam, from mam.tmp or from memory,
\* save those of another cartridge.
LEMMA LateMoves ==
    ASSUME TypeOK, Next
    PROVE  /\ found' = found
           /\ foreign > 0 => foreign' > 0
           /\ mam'.late \in {"none", mam.late, tmp.late, mem.late}
           /\ tmp'.late \in {"none", mam.late, tmp.late, mem.late}
           /\ \/ mem'.late \in {"none", mam.late, tmp.late, mem.late}
              \/ mem'.late = "other" /\ foreign' > 0
<1>0. mem \in Mems /\ foreign \in Nat
  BY UpdateAssumption DEF TypeOK, Mems
<1>1. CASE OpenMam \/ TapeNotUpdatable \/ RenameFails \/ OpenPartitions \/ HostWrite \/ Unload
  <2>1. UNCHANGED <<mam, tmp, mem, foreign, found>>
    BY <1>1 DEF OpenMam, TapeNotUpdatable, RenameFails, OpenPartitions, HostWrite, Unload, files,
       Works, Fails, bounds, Quiet
  <2> QED
    BY <1>0, <2>1
<1>2. CASE ExtractMam \/ ExtractFails \/ UpdateMamFails \/ CreateTmp \/ WriteTmp \/ RenameTmp
           \/ WriteMhvtlData
  <2>1. UNCHANGED <<mem, foreign, found>>
    BY <1>2 DEF ExtractMam, ExtractFails, UpdateMamFails, CreateTmp, WriteTmp, RenameTmp,
       WriteMhvtlData, Works, Fails, bounds, Quiet
  <2>2. /\ mam' \in {mam, tmp, Absent, Empty, V3}
        /\ tmp' \in {tmp, Absent, Empty, Tagged, Cut}
    BY <1>2 DEF ExtractMam, ExtractFails, UpdateMamFails, CreateTmp, WriteTmp, RenameTmp,
       WriteMhvtlData, DropMam, DropNew
  <2> QED
    BY <1>0, <2>1, <2>2, Forms
<1>3. CASE ReadVersions
  <2>1. UNCHANGED <<mam, tmp, foreign, found>> /\ mem' = VersionsRead
    BY <1>3 DEF ReadVersions, files, Works, bounds, Quiet
  <2> QED
    BY <1>0, <2>1, VersionsLate
<1>4. CASE UpdateMam
  <2>1. UNCHANGED <<mam, foreign, found>> /\ tmp' \in {tmp, Absent}
    BY <1>4 DEF UpdateMam, DropNew, Works, bounds, Quiet
  <2>2. mem'.late = mem.late
    <3>1. mem' = [mem EXCEPT !.tape = 5, !.fmt = 4, !.core = mam.core] \/ mem' = mem
      BY <1>4 DEF UpdateMam
    <3> QED
      BY <1>0, <3>1 DEF Mems
  <2> QED
    BY <1>0, <2>1, <2>2, Forms
<1>5. CASE ReadMam
  <2>1. UNCHANGED <<mam, tmp, foreign, found>> /\ mem' \in MamRead
    BY <1>5 DEF ReadMam, files, Works, bounds, Quiet
  <2> QED
    BY <1>0, <2>1, ReadLate
<1>6. CASE RenameFile
  <2>1. UNCHANGED <<mam, tmp, foreign, found>>
    BY <1>6 DEF RenameFile, Works, bounds, Quiet
  <2>2. mem'.late = mem.late
    BY <1>0, <1>6 DEF RenameFile, Mems
  <2> QED
    BY <1>0, <2>1, <2>2
<1>7. CASE SaveMam
  <2>1. UNCHANGED <<tmp, mem, foreign, found>> /\ mam' \in {mam, Cut, Tagged}
    BY <1>7 DEF SaveMam, Works, Fails, bounds, Quiet
  <2> QED
    BY <1>0, <2>1, Forms
<1>8. CASE OtherCartridge
  <2>1. UNCHANGED <<mam, tmp, found>> /\ mem'.late = "other" /\ foreign' = foreign + 1
    BY <1>8 DEF OtherCartridge, files
  <2> QED
    BY <1>0, <2>1
<1>9. CASE Crash
  <2>1. UNCHANGED <<mam, tmp, foreign, found>> /\ mem' = NoMam
    BY <1>9 DEF Crash, files
  <2> QED
    BY <1>0, <2>1 DEF NoMam
<1> QED
  BY <1>1, <1>2, <1>3, <1>4, <1>5, <1>6, <1>7, <1>8, <1>9 DEF Next, LoadStep

LEMMA LateAbsentKept == TypeOK /\ LateAbsent /\ Next => LateAbsent'
<1> SUFFICES ASSUME TypeOK, LateAbsent, Next, found = "none" PROVE LateAbsent'
  BY LateMoves DEF LateAbsent
<1>1. \A late : late = "none" \/ (foreign > 0 /\ late = "other") => OwnLate(late)'
  <2>1. found' = "none" /\ (foreign > 0 => foreign' > 0)
    BY LateMoves
  <2> QED
    BY <2>1 DEF OwnLate
<1>2. \A late \in {"none", mam.late, tmp.late, mem.late} :
         late = "none" \/ (foreign > 0 /\ late = "other")
  BY DEF LateAbsent, OwnLate
<1>3. OwnLate(mam.late)' /\ OwnLate(tmp.late)'
  BY <1>1, <1>2, LateMoves DEF OwnLate
<1>4. OwnLate(mem.late)'
  BY <1>1, <1>2, LateMoves DEF OwnLate
<1> QED
  BY <1>3, <1>4 DEF LateAbsent

\* A cartridge found with late attributes is read and saved, and never updated again by
\* try_extract_mam() or try_update_mam().
LEMMA LatePresentKept == TypeOK /\ LatePresent /\ Next => LatePresent'
<1> SUFFICES ASSUME TypeOK, LatePresent, Next, found = "own" PROVE LatePresent'
  BY LateMoves DEF LatePresent
<1> DEFINE Fixed == UNCHANGED <<mam, dir, ignored, fd>>
           Moved == RenameSteps \cup {"partitions", "save", "mounted"}
           Away  == ExtractSteps \cup MamSteps \cup {"update mam"}
<1>0. /\ fd = "path" /\ pc \notin Away
      /\ mam.form \in {"tlv", "short"}
      /\ ~ignored => mam.form = "tlv" /\ mam.late = "own" /\ dir["mhvtl_data"] = "full"
      /\ ~ignored /\ pc \in Moved => mem.late = "own"
  BY DEF LatePresent
<1>1. ~(ExtractMam \/ ExtractFails \/ UpdateMam \/ CreateTmp \/ WriteTmp \/ WriteMhvtlData
        \/ RenameTmp \/ UpdateMamFails)
  BY <1>0 DEF ExtractSteps, MamSteps, ExtractMam, ExtractFails, UpdateMam, CreateTmp, WriteTmp,
     WriteMhvtlData, RenameTmp, UpdateMamFails
<1>2. "idle" \notin Moved /\ "versions" \notin Moved /\ "read mam" \notin Moved /\ "idle" \notin Away
  BY DEF RenameSteps, ExtractSteps, MamSteps
<1>3. ASSUME UNCHANGED <<mam, fd, ignored>>, dir'["mhvtl_data"] = dir["mhvtl_data"],
             pc' \notin Away, ~ignored /\ pc' \in Moved => mem'.late = "own"
      PROVE  LatePresent'
  BY <1>0, <1>3 DEF LatePresent
<1>4. CASE OpenMam
  <2>1. UNCHANGED <<mam, dir, fd, ignored>> /\ pc' \in {"versions", "create mam"}
        /\ (mam # Absent => pc' = "versions")
    BY <1>4 DEF OpenMam, files, history, Goto
  <2>2. pc' = "versions" /\ "versions" \notin Away
    BY <1>0, <2>1, Forms DEF ExtractSteps, MamSteps
  <2> QED
    BY <1>2, <1>3, <2>1, <2>2
<1>5. CASE ReadVersions
  <2>1. UNCHANGED <<mam, dir, ignored>> /\ fd' = "path" /\ mem' = VersionsRead
        /\ pc' = IF mem'.fmt # 4 THEN "update mam" ELSE "read mam"
    BY <1>5 DEF ReadVersions, files, history, Goto
  <2>2. pc' = "read mam" /\ "read mam" \notin Away
    BY <1>0, <2>1, VersionsLate DEF ExtractSteps, MamSteps
  <2> QED
    BY <1>0, <1>2, <1>3, <2>1, <2>2
<1>6. CASE ReadMam
  <2>1. UNCHANGED <<mam, dir, fd, ignored>> /\ mem' \in MamRead
        /\ pc' \in {"rename data", "partitions"}
    BY <1>6 DEF ReadMam, files, history, Goto
  <2>2. ~ignored => mem'.late = "own"
    BY <1>0, <2>1, ReadLate DEF Structure
  <2>3. pc' \notin Away
    BY <2>1 DEF ExtractSteps, MamSteps
  <2> QED
    BY <1>3, <2>1, <2>2, <2>3
<1>7. CASE TapeNotUpdatable \/ RenameFails \/ OpenPartitions
  <2>1. UNCHANGED <<mam, dir, mem, fd, ignored>> /\ pc \in Moved /\ pc' \in {"idle", "partitions", "save"}
    BY <1>7 DEF TapeNotUpdatable, RenameFails, Renames, RenameAt, RenameSteps, OpenPartitions, files,
       history, UpdateFailed, LoadFails, Goto
  <2>2. pc' \notin Away
    BY <2>1 DEF ExtractSteps, MamSteps
  <2> QED
    BY <1>0, <1>3, <2>1, <2>2
<1>8. CASE RenameFile
  <2>1. PICK r \in Renames : RenameAt(r) /\ Move(r[1], r[2]) /\ pc' = r[3]
    BY <1>8 DEF RenameFile, Goto
  <2>2. /\ pc \in Moved /\ pc' \in {"rename indx", "rename meta", "partitions"}
        /\ r[1] \in Names \ {"mhvtl_data"} /\ r[2] \in Names \ {"mhvtl_data"}
    <3>1. CASE r = <<"data", "data.0", "rename indx">>
      BY <2>1, <3>1 DEF RenameAt, RenameSteps, Names
    <3>2. CASE r = <<"indx", "indx.0", "rename meta">>
      BY <2>1, <3>2 DEF RenameAt, RenameSteps, Names
    <3>3. CASE r = <<"meta", "meta.0", "partitions">>
      BY <2>1, <3>3 DEF RenameAt, RenameSteps, Names
    <3> QED
      BY <3>1, <3>2, <3>3 DEF Renames
  <2>3. dir'["mhvtl_data"] = dir["mhvtl_data"]
    BY <2>1, <2>2 DEF Move, Names, TypeOK
  <2>4. UNCHANGED <<mam, fd, ignored>> /\ mem'.late = mem.late
    <3>1. mem \in Mems
      BY DEF TypeOK, Mems
    <3> QED
      BY <1>8, <3>1 DEF RenameFile, Mems, history
  <2>5. pc' \notin Away
    BY <2>2 DEF ExtractSteps, MamSteps
  <2> QED
    BY <1>0, <1>3, <2>2, <2>3, <2>4, <2>5
<1>9. CASE SaveMam
  <2>1. /\ pc = "save" /\ pc' = "mounted" /\ UNCHANGED <<mem, fd>>
        /\ \/ mam' = Tagged /\ Put("mhvtl_data", "full") /\ ignored' = ignored
           \/ mam' = mam /\ dir' = dir /\ ignored' = ignored
           \/ mam' \in {mam, Cut, Tagged} /\ ignored' = TRUE
    BY <1>9 DEF SaveMam, Goto
  <2>2. pc \in Moved /\ pc' \notin Away
    BY <2>1 DEF ExtractSteps, MamSteps
  <2>3. mam'.form \in {"tlv", "short"}
    BY <1>0, <2>1, Forms
  <2>4. Put("mhvtl_data", "full") => dir'["mhvtl_data"] = "full"
    BY DEF Put, Names, TypeOK
  <2>5. ~ignored' => /\ ~ignored /\ mam'.form = "tlv" /\ mam'.late = "own"
                     /\ dir'["mhvtl_data"] = "full"
    BY <1>0, <2>1, <2>2, <2>4, Forms
  <2> QED
    BY <1>0, <2>1, <2>2, <2>3, <2>5 DEF LatePresent
<1>10. CASE HostWrite \/ Unload
  <2>1. UNCHANGED <<mam, mem, fd, ignored>> /\ pc \in Moved /\ pc' \in {"mounted", "idle"}
    BY <1>10 DEF HostWrite, Unload, history, Goto
  <2>2. dir'["mhvtl_data"] = dir["mhvtl_data"]
    BY <1>10 DEF HostWrite, Unload, Names, TypeOK
  <2>3. pc' \notin Away
    BY <2>1 DEF ExtractSteps, MamSteps
  <2> QED
    BY <1>0, <1>3, <2>1, <2>2, <2>3
<1>11. CASE OtherCartridge
  <2>1. UNCHANGED <<mam, dir, fd, pc, ignored>> /\ pc = "idle"
    BY <1>11 DEF OtherCartridge, files, history
  <2> QED
    BY <1>0, <1>2, <1>3, <2>1
<1>12. CASE Crash
  <2>1. UNCHANGED <<mam, dir, ignored>> /\ fd' = "path" /\ pc' = "idle"
    BY <1>12 DEF Crash, files
  <2> QED
    BY <1>0, <1>2, <1>3, <2>1
<1> QED
  BY <1>1, <1>4, <1>5, <1>6, <1>7, <1>8, <1>9, <1>10, <1>11, <1>12 DEF Next, LoadStep

\* The late attributes from the load of a new cartridge on.
LEMMA LateInvariant == Spec => []LateInv
<1>1. Init => LateInv
  <2> SUFFICES ASSUME Init PROVE LateInv
    OBVIOUS
  <2>1. /\ tmp = Absent /\ mem = NoMam /\ fd = "path" /\ pc = "idle" /\ found = mam.late
    BY DEF Init
  <2>2. LateAbsent
    BY <2>1, Forms DEF LateAbsent, OwnLate, NoMam
  <2>3. ASSUME found = "own" PROVE mam.form = "tlv" /\ dir["mhvtl_data"] = "full"
    <3>1. PICK format \in Formats : Found(format)
      BY DEF Init
    <3>2. format \in {5, 6}
      <4>1. format \in 3 .. 6
        BY UpdateAssumption
      <4>2. ASSUME format = 3 PROVE FALSE
        <5>1. mam = Absent
          BY <3>1, <4>2 DEF Found
        <5> QED
          BY <2>1, <2>3, <5>1, Forms
      <4>3. ASSUME format = 4 PROVE FALSE
        <5>1. mam = V3
          BY <3>1, <4>3 DEF Found
        <5> QED
          BY <2>1, <2>3, <5>1, Forms
      <4> QED
        BY <4>1, <4>2, <4>3
    <3>3. /\ mam \in {File("tlv", v, "own", l) : v \in {5, 6}, l \in {"none", "own"}}
          /\ \/ dir = Present({"data", "indx", "meta", "mhvtl_data"})
             \/ dir = Present({"data.0", "indx.0", "meta.0", "mhvtl_data"})
      <4>1. CASE format = 5
        BY <3>1, <4>1 DEF Found
      <4>2. CASE format = 6
        BY <3>1, <4>2 DEF Found
      <4> QED
        BY <3>2, <4>1, <4>2
    <3>4. mam.form = "tlv"
      BY <3>3 DEF File
    <3> QED
      BY <3>3, <3>4 DEF Present, Names
  <2>4. "idle" \notin ExtractSteps \cup MamSteps \cup {"update mam"} \cup RenameSteps
                       \cup {"partitions", "save", "mounted"}
    BY DEF ExtractSteps, MamSteps, RenameSteps
  <2> QED
    BY <2>1, <2>2, <2>3, <2>4 DEF LateInv, LatePresent
<1>2. TypeOK /\ LateInv /\ [Next]_vars => LateInv'
  <2> SUFFICES ASSUME TypeOK, LateInv, [Next]_vars PROVE LateInv'
    OBVIOUS
  <2>1. CASE Next
    BY <2>1, LateAbsentKept, LatePresentKept DEF LateInv
  <2>2. CASE UNCHANGED vars
    BY <2>2 DEF LateInv, LateAbsent, LatePresent, OwnLate, vars, files, bounds, history
  <2> QED
    BY <2>1, <2>2
<1>3. IInv => TypeOK
  BY DEF IInv
<1> QED
  BY <1>1, <1>2, <1>3, Inductive, PTL DEF Spec

\* The attributes the cartridge was found with are always whole in mam or in meta, those it
\* had none of being nobody's or those of a cartridge before it, unless an ignored failure
\* of write_mam() has lost them: mam is replaced by a whole file, and meta only after mam
\* has been written.
THEOREM MamKeptHolds == Spec => []MamKept
<1>1. IInv /\ LateInv => MamKept
  <2> SUFFICES ASSUME IInv, LateInv, Resumable, ~ignored
               PROVE  \/ mam.form \in {"v3", "tlv"} /\ mam.core = "own" /\ OwnLate(mam.late)
                      \/ dir["meta"] = "mapmam" /\ found = "none"
    BY DEF MamKept, Resumable
  <2>1. Extraction /\ Rewriting /\ Attributes
    BY DEF IInv, Sound
  <2>2. mam.form = "v3" => mam.core = "own"
    BY <2>1, Forms DEF Rewriting
  <2>3. found \in {"none", "own"}
    BY DEF IInv, TypeOK
  <2>4. OwnLate(mam.late)
    BY <2>3 DEF LateInv, LateAbsent, LatePresent, OwnLate
  <2>5. CASE pc \in ExtractSteps \/ mam = Absent
    BY <2>1, <2>3, <2>5, Forms DEF LateInv, LatePresent, Extraction
  <2>6. CASE pc \notin ExtractSteps /\ mam # Absent
    BY <2>1, <2>2, <2>4, <2>6 DEF Extraction, Attributes
  <2> QED
    BY <2>5, <2>6
<1> QED
  BY <1>1, Inductive, LateInvariant, PTL

\* What load_tape() mounts is the cartridge it was asked for, with all of its files and the
\* attributes it was found with, the late ones included, or one that looks blank; it has
\* late attributes of a cartridge before it only if it was found without any; and
\* attributes are never read as filemarks.
THEOREM MountedTrulyHolds == Spec => []MountedTruly
<1>1. IInv /\ LateInv => MountedTruly
  <2> SUFFICES ASSUME IInv, LateInv, Resumable
               PROVE  /\ (loaded = "whole" /\ ~ignored) => mem.core = "own" /\ OwnLate(mem.late)
                      /\ loaded \notin {"exposed", "misread"}
    BY DEF MountedTruly, Resumable
  <2>1. InDrive /\ Misreads
    BY DEF IInv, Sound
  <2>2. ASSUME loaded = "whole", ~ignored PROVE mem.core = "own" /\ OwnLate(mem.late)
    <3>1. pc \in {"save", "mounted"} /\ NewNames
      BY <2>1, <2>2 DEF InDrive
    <3>2. ~OldNames
      BY <3>1 DEF OldNames, NewNames
    <3>3. ~Structure
      BY <2>1, <3>1, <3>2 DEF Misreads
    <3>4. Attributes
      BY <2>2 DEF IInv
    <3>5. found \in {"none", "own"}
      BY DEF IInv, TypeOK
    <3>6. OwnLate(mem.late)
      BY <2>2, <3>1, <3>5 DEF LateInv, LateAbsent, LatePresent, OwnLate
    <3> QED
      BY <3>1, <3>3, <3>4, <3>6 DEF Attributes
  <2> QED
    BY <2>1, <2>2 DEF InDrive
<1> QED
  BY <1>1, Inductive, LateInvariant, PTL
=============================================================================
