------------------------------- MODULE Update -------------------------------
(***************************************************************************)
(* The update of an old cartridge while it is loaded (mhvtl_update.c,      *)
(* called by load_tape() of vtlcart.c).                                    *)
(*                                                                         *)
(*   format 3   meta holds the MAM and the filemark map                    *)
(*   format 4   the MAM has a file of its own, still a C structure         *)
(*   format 5   mam and mhvtl_data hold tagged attributes                  *)
(*   format 6   data, indx and meta are called data.0, indx.0 and meta.0   *)
(*                                                                         *)
(* Every system call that changes the directory is a step of its own; it   *)
(* may fail, and the program may be killed before it.  The MAM read from   *)
(* the files lives in a global variable that outlasts the cartridge.       *)
(***************************************************************************)
EXTENDS Naturals

CONSTANTS
    Formats,        \* the formats a cartridge is found in
    MaxFaults,      \* bound: system calls that fail
    MaxCrashes,     \* bound: times the program is killed
    MaxForeign      \* bound: other cartridges loaded in between

ASSUME UpdateAssumption ==
    /\ Formats \subseteq 3 .. 6 /\ Formats # {}
    /\ MaxFaults \in Nat /\ MaxCrashes \in Nat /\ MaxForeign \in Nat

VARIABLES
    mam,        \* the file mam
    tmp,        \* the file mam.tmp
    dir,        \* the other files: name -> content
    mem,        \* the global variable mam, attributes included
    fd,         \* mamfile: the file now called mam, or the one renamed over
    pc,         \* where load_tape() stands
    loaded,     \* what the program believes is in the drive
    errorCheck, \* error_check: the file bypass_error_check exists
    faults, crashes, foreign,
    found,      \* history: the late attributes the cartridge was found with
    cut,        \* history: where an update was interrupted for good
    ignored     \* history: a failure of write_mam() was ignored

files   == <<mam, tmp, dir>>
bounds  == <<faults, crashes, foreign>>
history == <<cut, ignored>>
vars    == <<files, mem, fd, pc, loaded, errorCheck, bounds, found, history>>

Names == {"mhvtl_data", "meta", "meta.new", "data", "indx",
          "data.0", "indx.0", "meta.0"}

\* A MAM file.  "late" are the attributes younger than the tagged format, among
\* them the change reference and the coherency record: a file written by an old
\* version has none.
File(form, tape, core, late) ==
    [form |-> form, tape |-> tape, core |-> core, late |-> late]

Absent == File("none", 0, "none", "none")
Empty  == File("empty", 0, "none", "none")
V3     == File("v3", 4, "own", "none")

\* write_mam() of the first half: what is in memory, with its tags.
Tagged == File("tlv", mem.tape, mem.core, mem.late)
Cut    == File("short", mem.tape, mem.core, "none")

Put(name, content) == dir' = [dir EXCEPT ![name] = content]

Move(a, b) == dir' = [dir EXCEPT ![a] = "none", ![b] = dir[a]]

Fails == faults < MaxFaults /\ faults' = faults + 1 /\ UNCHANGED <<crashes, foreign>>
Works == UNCHANGED bounds

Goto(where) == pc' = where

\* load_tape() returns with an error: vtltape and the utilities leave it there.
LoadFails == Goto("idle")

\* An update failed.  Contrary to its name and to what is logged, load_tape()
\* goes on when bypass_error_check does NOT exist.
UpdateFailed(then) == IF errorCheck THEN LoadFails ELSE Goto(then)

Quiet == UNCHANGED <<loaded, errorCheck, found>>

-----------------------------------------------------------------------------
(* load_tape(): mam, try_extract_mam() *)

\* A missing mam is looked for in meta, and is there: try_extract_mam() reads the
\* whole structure with tape version 3.  (MamKept: no update loses both.)
OpenMam ==
    /\ pc = "idle" /\ loaded = "no"
    /\ \/ mam # Absent /\ Goto("versions")
       \/ mam = Absent /\ dir["meta"] = "mapmam" /\ Goto("create mam")
    /\ UNCHANGED <<files, mem, fd, history>> /\ Works /\ Quiet

ExtractSteps == {"create mam", "write mam", "create meta", "copy meta", "replace meta"}

ExtractMam ==
    /\ \/ /\ pc = "create mam"  /\ mam' = Empty
          /\ Goto("write mam") /\ UNCHANGED dir
       \/ /\ pc = "write mam"   /\ mam' = V3
          /\ Goto("create meta") /\ UNCHANGED dir
       \/ /\ pc = "create meta" /\ Put("meta.new", "part")
          /\ Goto("copy meta") /\ UNCHANGED mam
       \/ /\ pc = "copy meta"   /\ Put("meta.new", "map")
          /\ Goto("replace meta") /\ UNCHANGED mam
       \/ /\ pc = "replace meta" /\ Move("meta.new", "meta")
          /\ Goto("versions") /\ UNCHANGED mam
    /\ UNCHANGED <<tmp, mem, fd, history>> /\ Works /\ Quiet

\* Mutant: the cleanup forgets the mam file it has created.
KeepMam == mam' = mam /\ Put("meta.new", "none")

\* cleanup: both new files go, meta is as it was.
DropMam == mam' = Absent /\ Put("meta.new", "none")

ExtractFails ==
    /\ pc \in ExtractSteps /\ Fails
    /\ DropMam /\ LoadFails
    /\ UNCHANGED <<tmp, mem, fd, history>> /\ Quiet

-----------------------------------------------------------------------------
(* load_tape(): the versions, try_update_mam() *)

\* Mutant: only the version of the tape is read, the other is taken as current.
FormatAssumed ==
    IF mam.form = "empty" THEN mem ELSE [mem EXCEPT !.tape = mam.tape, !.fmt = 4]

\* Mutant: the two words are read in the wrong order.
VersionsSwapped ==
    CASE mam.form = "v3"              -> [mem EXCEPT !.tape = 3, !.fmt = mam.tape]
      [] mam.form \in {"tlv", "short"} -> [mem EXCEPT !.tape = 4, !.fmt = mam.tape]
      [] OTHER                        -> mem

\* The first two words of mam; an empty file changes nothing.
VersionsRead ==
    CASE mam.form = "v3"              -> [mem EXCEPT !.tape = mam.tape, !.fmt = 3]
      [] mam.form \in {"tlv", "short"} -> [mem EXCEPT !.tape = mam.tape, !.fmt = 4]
      [] OTHER                        -> mem

ReadVersions ==
    /\ pc = "versions"
    /\ mem' = VersionsRead
    /\ fd' = "path"
    /\ Goto(IF mem'.fmt # 4 THEN "update mam" ELSE "read mam")
    /\ UNCHANGED <<files, history>> /\ Works /\ Quiet

\* Mutant: the cleanup of try_extract_mam() again, which unlinks mam.
DropMamToo == mam' = Absent /\ tmp' = Absent /\ Put("mhvtl_data", "none")

\* cleanup of try_update_mam(): mhvtl_data goes, even if it was there before.
DropNew == tmp' = Absent /\ Put("mhvtl_data", "none") /\ UNCHANGED mam

\* The structure is copied to memory before anything is created.
UpdateMam ==
    /\ pc = "update mam"
    /\ \/ /\ mam.form = "v3" /\ dir["mhvtl_data"] = "none"
          /\ mem' = [mem EXCEPT !.tape = 5, !.fmt = 4, !.core = mam.core]
          /\ Put("mhvtl_data", "empty") /\ Goto("create tmp") /\ UNCHANGED <<mam, tmp>>
       \/ /\ mam.form = "v3" /\ dir["mhvtl_data"] # "none"
          /\ mem' = [mem EXCEPT !.tape = 5, !.fmt = 4, !.core = mam.core]
          /\ DropNew /\ UpdateFailed("read mam")
       \/ /\ mam.form # "v3"
          /\ DropNew /\ UpdateFailed("read mam") /\ UNCHANGED mem
    /\ UNCHANGED <<fd, history>> /\ Works /\ Quiet

CreateTmp ==
    /\ pc = "create tmp"
    /\ tmp' = Empty /\ Goto("write tmp")
    /\ UNCHANGED <<mam, dir, mem, fd, history>> /\ Works /\ Quiet

\* write_mam(): the attributes to mam.tmp, then the others to mhvtl_data.  Its
\* result is ignored: the half that was written is taken for the whole.
WriteTmp ==
    /\ pc = "write tmp"
    /\ \/ tmp' = Tagged /\ Goto("write mhvtl_data") /\ Works /\ UNCHANGED ignored
       \/ tmp' = Cut /\ Goto("rename tmp") /\ Fails /\ ignored' = TRUE
    /\ UNCHANGED <<mam, dir, mem, fd, cut>> /\ Quiet

WriteMhvtlData ==
    /\ pc = "write mhvtl_data"
    /\ \/ Put("mhvtl_data", "full") /\ Works /\ UNCHANGED ignored
       \/ Put("mhvtl_data", "part") /\ Fails /\ ignored' = TRUE
    /\ Goto("rename tmp")
    /\ UNCHANGED <<mam, tmp, mem, fd, cut>> /\ Quiet

\* mamfile of load_tape() was opened before: it is the file that mam was.
RenameTmp ==
    /\ pc = "rename tmp"
    /\ mam' = tmp /\ tmp' = Absent
    /\ fd' = "old"
    /\ Goto("read mam")
    /\ UNCHANGED <<dir, mem, history>> /\ Works /\ Quiet

UpdateMamFails ==
    /\ pc \in {"create tmp", "rename tmp"} /\ Fails
    /\ DropNew /\ UpdateFailed("read mam")
    /\ UNCHANGED <<mem, fd, history>> /\ Quiet

-----------------------------------------------------------------------------
(* load_tape(): read_mam(), try_update_tape() *)

\* A structure, read as if it were tags, may overwrite attributes with rubbish.
Structure == fd = "old" \/ mam.form = "v3"

\* Mutant: the tags added last are not looked for.
LateSkipped ==
    IF Structure THEN {[mem EXCEPT !.tape = 4, !.fmt = 3, !.core = c] : c \in {mem.core, "mixed"}}
    ELSE IF mam.form = "empty" THEN {mem}
    ELSE IF mam.form = "tlv" /\ dir["mhvtl_data"] = "full"
         THEN {[mem EXCEPT !.tape = mam.tape, !.fmt = 4, !.core = mam.core]}
         ELSE {[mem EXCEPT !.tape = mam.tape, !.fmt = 4, !.core = "mixed"]}

\* read_mam(): the attributes that are found; the others stay as they were, be they
\* those of the cartridge before: init_mam() sets up the table, not the values.
MamRead ==
    IF Structure
    THEN {[mem EXCEPT !.tape = 4, !.fmt = 3, !.core = c] : c \in {mem.core, "mixed"}}
    ELSE CASE mam.form = "empty" -> {mem}
           [] mam.form = "tlv" /\ dir["mhvtl_data"] = "full" ->
                {[tape |-> mam.tape, fmt |-> 4, core |-> mam.core,
                  late |-> IF mam.late = "none" THEN mem.late ELSE mam.late]}
           [] OTHER -> {[mem EXCEPT !.tape = mam.tape, !.fmt = 4, !.core = "mixed"]}

ReadMam ==
    /\ pc = "read mam"
    /\ mem' \in MamRead
    /\ Goto(IF mem'.tape # 6 THEN "rename data" ELSE "partitions")
    /\ UNCHANGED <<files, fd, history>> /\ Works /\ Quiet

UpdatableTape == mem.tape = 5

TapeNotUpdatable ==
    /\ pc = "rename data" /\ ~UpdatableTape
    /\ UpdateFailed("partitions")
    /\ UNCHANGED <<files, mem, fd, history>> /\ Works /\ Quiet

\* The renames of try_update_tape(), in its order, and what follows each.
Renames == {<<"data", "data.0", "rename indx">>, <<"indx", "indx.0", "rename meta">>,
            <<"meta", "meta.0", "partitions">>}

RenameAt(r) == pc = (IF r[1] = "data" THEN "rename data"
                     ELSE IF r[1] = "indx" THEN "rename indx" ELSE "rename meta")

RenameFile ==
    /\ UpdatableTape
    /\ \E r \in Renames :
          /\ RenameAt(r) /\ dir[r[1]] # "none"
          /\ Move(r[1], r[2])
          /\ Goto(r[3])
          /\ mem' = [mem EXCEPT !.tape = IF r[1] = "meta" THEN 6 ELSE @]
    /\ UNCHANGED <<mam, tmp, fd, history>> /\ Works /\ Quiet

\* The file is not there, renamed by an earlier load, or the call fails.  What
\* has been renamed stays renamed.
RenameFails ==
    /\ UpdatableTape
    /\ \E r \in Renames :
          /\ RenameAt(r)
          /\ \/ dir[r[1]] = "none" /\ Works
             \/ dir[r[1]] # "none" /\ Fails
          /\ cut' = IF dir[r[1]] # "none" /\ r[1] # "data"
                    THEN cut \cup {"renames"} ELSE cut
    /\ UpdateFailed("partitions")
    /\ UNCHANGED <<files, mem, fd, ignored>> /\ Quiet

-----------------------------------------------------------------------------
(* load_tape(): the partitions; loadTape(); the life of the mount *)

\* What opening the partitions comes to.  No data.0: there is no partition, and
\* reading the first header finds end of data; the load succeeds.  data.0 without
\* the others: the sizes stay 0, so the medium looks blank.
Outcome ==
    IF dir["data.0"] = "none" THEN "blank"
    ELSE IF dir["indx.0"] = "none" \/ dir["meta.0"] = "none" THEN "exposed"
    ELSE IF dir["meta.0"] = "map" THEN "whole" ELSE "misread"

OpenPartitions ==
    /\ pc = "partitions"
    /\ loaded' = Outcome
    /\ Goto("save")
    /\ UNCHANGED <<files, mem, fd, history, errorCheck, found>> /\ Works

\* updateMAM(load) and rewriteMAM(): only with a data file and mhvtl_data open,
\* and to the file that was opened as mam.  The result of write_mam() is ignored
\* here, too.
Saves == loaded # "blank" /\ dir["mhvtl_data"] # "none" /\ fd = "path"

SaveMam ==
    /\ pc = "save"
    /\ \/ /\ Saves /\ mam' = Tagged /\ Put("mhvtl_data", "full")
          /\ Works /\ UNCHANGED ignored
       \/ /\ Saves /\ mam' \in {mam, Cut} /\ UNCHANGED dir
          /\ Fails /\ ignored' = TRUE
       \/ /\ Saves /\ mam' = Tagged /\ Put("mhvtl_data", "part")
          /\ Fails /\ ignored' = TRUE
       \/ ~Saves /\ UNCHANGED <<mam, dir, ignored>> /\ Works
    /\ Goto("mounted")
    /\ UNCHANGED <<tmp, mem, fd, cut>> /\ Quiet

\* A write to a medium that looks blank truncates data.0 and indx.0.
HostWrite ==
    /\ pc = "mounted" /\ loaded \in {"exposed", "misread"}
    /\ dir' = [dir EXCEPT !["data.0"] = "lost",
                          !["indx.0"] = IF @ = "none" THEN @ ELSE "lost"]
    /\ UNCHANGED <<mam, tmp, mem, fd, pc, history>> /\ Works /\ Quiet

\* unload_tape(): rewrite_meta_file() for every partition.
Unload ==
    /\ pc = "mounted"
    /\ dir' = [dir EXCEPT !["meta.0"] = IF loaded = "misread" THEN "lost" ELSE @]
    /\ loaded' = "no" /\ Goto("idle")
    /\ UNCHANGED <<mam, tmp, mem, fd, history, errorCheck, found>> /\ Works

\* Another cartridge is loaded and unloaded: its MAM stays in memory, with all the
\* attributes of its own.
OtherCartridge ==
    /\ pc = "idle" /\ loaded = "no" /\ foreign < MaxForeign
    /\ foreign' = foreign + 1
    /\ \E v \in {<<6, 4>>, <<5, 4>>, <<4, 3>>} :
          mem' = [tape |-> v[1], fmt |-> v[2], core |-> "other", late |-> "other"]
    /\ UNCHANGED <<files, fd, pc, loaded, errorCheck, faults, crashes, found, history>>

NoMam == [tape |-> 0, fmt |-> 0, core |-> "none", late |-> "none"]

\* Where the loss of the program leaves the cartridge between two formats.
Window ==
    CASE pc \in ExtractSteps \ {"create mam"}    -> {"extract"}
      [] pc \in {"rename indx", "rename meta"}   -> {"renames"}
      [] pc \in {"partitions", "save"} /\ mem.tape # mam.tape -> {"unsaved"}
      [] OTHER -> {}

Crash ==
    /\ crashes < MaxCrashes /\ crashes' = crashes + 1
    /\ pc # "idle"
    /\ pc' = "idle" /\ loaded' = "no" /\ fd' = "path" /\ mem' = NoMam
    /\ cut' = cut \cup Window
    /\ UNCHANGED <<files, errorCheck, faults, foreign, found, ignored>>

-----------------------------------------------------------------------------

Present(S) == [n \in Names |-> IF n \notin S THEN "none"
                               ELSE CASE n \in {"data", "data.0"} -> "data"
                                      [] n \in {"indx", "indx.0"} -> "index"
                                      [] n \in {"meta", "meta.0"} -> "map"
                                      [] OTHER -> "full"]

Found(format) ==
    CASE format = 3 -> /\ mam = Absent
                       /\ dir = [Present({"data", "indx", "meta"})
                                    EXCEPT !["meta"] = "mapmam"]
      [] format = 4 -> /\ mam = V3
                       /\ dir = Present({"data", "indx", "meta"})
      [] format = 5 -> /\ mam \in {File("tlv", 5, "own", l) : l \in {"none", "own"}}
                       /\ dir = Present({"data", "indx", "meta", "mhvtl_data"})
      [] format = 6 -> /\ mam \in {File("tlv", 6, "own", l) : l \in {"none", "own"}}
                       /\ dir = Present({"data.0", "indx.0", "meta.0", "mhvtl_data"})

Init ==
    /\ \E format \in Formats : Found(format)
    /\ tmp = Absent
    /\ mem = NoMam /\ fd = "path"
    /\ pc = "idle" /\ loaded = "no"
    /\ errorCheck \in BOOLEAN
    /\ faults = 0 /\ crashes = 0 /\ foreign = 0
    /\ found = mam.late
    /\ cut = {} /\ ignored = FALSE

LoadStep ==
    \/ ExtractMam \/ ReadVersions
    \/ UpdateMam \/ CreateTmp \/ WriteTmp \/ WriteMhvtlData \/ RenameTmp
    \/ ReadMam \/ TapeNotUpdatable \/ RenameFile \/ RenameFails
    \/ OpenPartitions \/ SaveMam

Next ==
    \/ OpenMam \/ LoadStep
    \/ ExtractFails \/ UpdateMamFails
    \/ HostWrite \/ Unload \/ OtherCartridge \/ Crash

\* A load that has begun goes on, and somebody loads the cartridge again as long
\* as it could not be used: nothing else is promised.
Fairness ==
    /\ WF_vars(OpenMam) /\ WF_vars(LoadStep)
    /\ WF_vars(Unload /\ loaded # "whole")

Spec == Init /\ [][Next]_vars /\ Fairness
=============================================================================
