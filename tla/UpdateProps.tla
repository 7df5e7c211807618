----------------------------- MODULE UpdateProps -----------------------------
(* What the update of a cartridge must keep, and what it must reach. *)
EXTENDS Update

Cores == {"none", "own", "other", "mixed"}
Lates == {"none", "own", "other"}
MamFiles == [form : {"none", "empty", "v3", "tlv", "short"}, tape : {0, 4, 5, 6},
             core : Cores, late : Lates]
Contents == {"none", "part", "empty", "full", "mapmam", "map", "data", "index", "lost"}
Places == {"idle", "versions", "update mam", "create tmp", "write tmp",
           "write mhvtl_data", "rename tmp", "read mam", "rename data", "rename indx",
           "rename meta", "partitions", "save", "mounted"} \cup ExtractSteps

\* Every variable has its type: the names and contents of vtlcart.c.
TypeOK ==
    /\ mam \in MamFiles /\ tmp \in MamFiles
    /\ dir \in [Names -> Contents]
    /\ mem \in [tape : {0, 4, 5, 6}, fmt : {0, 3, 4}, core : Cores, late : Lates]
    /\ fd \in {"path", "old"} /\ pc \in Places
    /\ loaded \in {"no", "whole", "blank", "exposed", "misread"}
    /\ errorCheck \in BOOLEAN
    /\ faults \in 0 .. MaxFaults /\ crashes \in 0 .. MaxCrashes
    /\ foreign \in 0 .. MaxForeign
    /\ found \in {"none", "own"}
    /\ cut \subseteq {"extract", "renames", "unsaved"} /\ ignored \in BOOLEAN

OneOf(S, contents) == \E n \in S : dir[n] \in contents

\* The blocks, the index and the filemark map survive every update, whatever fails
\* or is killed on the way, save in the two places that cannot be resumed: the
\* extraction killed halfway and the renames broken off halfway.
DataKept ==
    cut \subseteq {"unsaved"} =>
        /\ OneOf({"data", "data.0"}, {"data"})
        /\ OneOf({"indx", "indx.0"}, {"index"})
        /\ OneOf({"meta", "meta.0"}, {"map", "mapmam"})

\* The late attributes are those the cartridge was found with.  The exception the
\* code makes: a cartridge found without any gets those of a cartridge loaded
\* before it, which init_mam() leaves in memory although load_tape() says of it
\* "initialize global mam" (vtlcart.c:1214).
OwnLate(late) == late = found \/ (found = "none" /\ foreign > 0 /\ late = "other")

\* The attributes of the cartridge are at every moment complete in a file a later
\* load can find, unless an ignored failure of write_mam() has lost them: the new
\* file is complete before it takes the place of the old one.
MamKept ==
    (~ignored /\ cut \subseteq {"unsaved"}) =>
        \/ mam.form \in {"v3", "tlv"} /\ mam.core = "own" /\ OwnLate(mam.late)
        \/ dir["meta"] = "mapmam" /\ found = "none"

\* What is mounted is one cartridge: with the attributes it was found with and, save
\* for those it has none of (OwnLate), none of the cartridge loaded before it, nor a
\* mixture; and the map only after the MAM has been taken out of it, so that
\* attributes are never read as filemarks.
MountedTruly ==
    cut \subseteq {"unsaved"} =>
        /\ (loaded = "whole" /\ ~ignored) => mem.core = "own" /\ OwnLate(mem.late)
        /\ loaded \notin {"exposed", "misread"}

Stranded ==
    \/ ignored
    \/ cut \cap {"extract", "renames"} # {}
    \/ errorCheck /\ "unsaved" \in cut

\* Loaded often enough, a cartridge of any format ends up mounted with all of its
\* files: an update cleans up after a failure so that the next load can try again.
Converges == <>(loaded = "whole" \/ Stranded)
=============================================================================
