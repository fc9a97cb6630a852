----------------------------- MODULE VolumeSet -----------------------------
(***************************************************************************)
(* An archive that is written in volumes: split ZIP (zip_split.rs), split  *)
(* 7z (sevenz_volume.rs) and TZAP (the file sink of tzap/write.rs), over   *)
(* the same shared handling of the destinations (archive_split.rs).  All   *)
(* three list the volumes that are there, refuse or accept them, write     *)
(* every new volume to a temporary file, remove the old volumes, and move  *)
(* the new ones into place one by one.  The reader's side is the discovery *)
(* of the volumes and the rebasing of the ZIP directory.                   *)
(*                                                                         *)
(* A path is a number: Dest is the path the caller named, a Part is a      *)
(* numbered volume, Sidecar the bootstrap sidecar of a TZAP archive.       *)
(* Committing one volume is one step here: AtomicOutput follows its system *)
(* calls.  The length of an archive is counted in units: every record of   *)
(* the central directory and the end record take one, the split signature  *)
(* takes SignatureSize.                                                    *)
(***************************************************************************)
EXTENDS Naturals, Sequences, FiniteSets, FiniteSetsExt

CONSTANTS
    Formats,        \* subset of {"zip", "sevenz", "tzap"}
    BareNames,      \* whether the caller names a file without a directory
    Archives,       \* complete ZIP archives: where the entries and the directory begin
    DirectoriesAt,  \* paths at which there may be a directory
    Counts,         \* the numbers of volumes a TZAP caller asks for, with 1 for the others
    VolumeSize,     \* the size of a volume
    SignatureSize,  \* the length of ZIP_SPLIT_SIGNATURE
    ThreeDigits,    \* the last number of SEVENZ_VOLUME_EXTENSION_WIDTH digits
    MaxVolumes,     \* bound: numbered volumes in the directory
    MaxIntrusions   \* bound: files other programs create meanwhile

Dest    == 0
Part    == 1 .. MaxVolumes
Sidecar == MaxVolumes + 1
Path    == {Dest, Sidecar} \cup Part

ASSUME VolumeAssumption ==
    /\ Formats \subseteq {"zip", "sevenz", "tzap"} /\ BareNames \subseteq BOOLEAN
    /\ Counts \subseteq Part /\ DirectoriesAt \subseteq Path
    /\ \A a \in Archives : /\ a.locals \in Seq(Nat) /\ a.start \in Nat
                           /\ \A i \in 1 .. Len(a.locals) : a.locals[i] < a.start
    /\ {VolumeSize, SignatureSize, ThreeDigits} \subseteq Nat \ {0}
    /\ SignatureSize < VolumeSize
    /\ {MaxVolumes, MaxIntrusions} \subseteq Nat

VARIABLES
    req,        \* the request: see Requests
    vpc,        \* where the writer is
    dir,        \* what each path holds
    found,      \* what each path held at first
    listed,     \* existing_volume_paths, as captured
    todo,       \* paths still to be removed
    written,    \* volumes that are complete in their temporary files
    committed,  \* volumes that were moved into place
    intrusions

volumeVars == <<req, vpc, dir, found, listed, todo, written, committed, intrusions>>

Contents == {"none", "old", "new", "other", "directory"}
VolumePC == {"idle", "listed", "writing", "removing", "committing", "sidecar",
             "done", "failed"}
----------------------------------------------------------------------------
(* The ZIP archive before it is split. *)

CeilDiv(a, b) == (a + b - 1) \div b
ArchiveSize(a) == a.start + Len(a.locals) + 1

Location(offset) ==
    [disk   |-> (offset + SignatureSize) \div VolumeSize,
     offset |-> (offset + SignatureSize) % VolumeSize]

(* The directory with its fields as they are written to the volumes.       *)
SplitDirectory(a) ==
    [locals |-> [i \in 1 .. Len(a.locals) |-> Location(a.locals[i])],
     start  |-> Location(a.start)]

(* The number of volumes: ZIP keeps an archive that fits as it is, 7z      *)
(* always numbers; a TZAP caller asks for a number.                        *)
Count(r) ==
    LET size == ArchiveSize(r.archive)
    IN  CASE r.format = "zip" ->
               IF size <= VolumeSize THEN 1 ELSE CeilDiv(size + SignatureSize, VolumeSize)
          [] r.format = "sevenz" -> CeilDiv(size, VolumeSize)
          [] r.format = "tzap" -> r.count

(* Where volume i of n goes: split_zip_volume_paths, sevenz_volume_paths,  *)
(* tzap_output_volume_paths.                                               *)
VolumePath(format, n, i) ==
    CASE format = "zip" -> IF i = n THEN Dest ELSE i
      [] format = "sevenz" -> i
      [] format = "tzap" -> IF n = 1 THEN Dest ELSE i
VolumePaths(format, n) == {VolumePath(format, n, i) : i \in 1 .. n}

(* Archives that need no more volumes than there are numbers.  Only a TZAP *)
(* writer of a single volume emits a sidecar.                              *)
Requests ==
    {r \in [format : Formats, bare : BareNames, replace : BOOLEAN,
            archive : Archives, count : Counts, sidecar : BOOLEAN] :
        /\ Count(r) \in Part
        /\ r.format # "tzap" => r.count = 1 /\ ~r.sidecar
        /\ r.format = "tzap" => r.archive = CHOOSE a \in Archives : TRUE
        /\ r.sidecar => r.count = 1}

(* What may be in the directory: nothing, or an archive of the same format *)
(* with its volumes, and perhaps a directory where a volume would go.      *)
HoldsArchive(d, format, n) ==
    LET extra == IF format = "tzap" /\ n = 1 THEN {Sidecar} ELSE {}
    IN  \A p \in Path : /\ p \in VolumePaths(format, n) => d[p] = "old"
                        /\ d[p] = "old" => p \in VolumePaths(format, n) \cup extra
WholeArchives(format) ==
    {d \in [Path -> {"none", "old"}] :
        (\A p \in Path : d[p] = "none") \/ \E n \in Part : HoldsArchive(d, format, n)}
OldDirectories(format) ==
    WholeArchives(format) \cup
    {[d EXCEPT ![p] = "directory"] : d \in WholeArchives(format), p \in DirectoriesAt}
----------------------------------------------------------------------------
(* Writing *)

VolumeInit ==
    /\ req = [format |-> "none"] /\ vpc = "idle"
    /\ dir = [p \in Path |-> "none"] /\ found = dir
    /\ listed = {} /\ todo = {} /\ written = 0 /\ committed = 0 /\ intrusions = 0

(* The volumes whose names are recognised.  The name of a 7z volume is     *)
(* written with three digits or more and recognised with exactly three;    *)
(* split ZIP and TZAP accept any number of digits.                         *)
Numbered(format) == {p \in Part : format = "sevenz" => p <= ThreeDigits}

(* existing_volume_paths reads the directory of the destination.  For ZIP  *)
(* and 7z the parent of a bare name is the empty path, which cannot be     *)
(* read and counts as empty; existing_tzap_volume_paths reads "." then.    *)
Existing(r, d) ==
    IF r.bare /\ r.format # "tzap" THEN {} ELSE {p \in Numbered(r.format) : d[p] # "none"}

(* Nothing before this step looks at the directory or the request, so they *)
(* are fixed here.                                                         *)
ListVolumes ==
    /\ vpc = "idle"
    /\ \E r \in Requests : \E d \in OldDirectories(r.format) :
          /\ req' = r /\ dir' = d /\ found' = d
          /\ listed' = Existing(r, d)
    /\ vpc' = "listed"
    /\ UNCHANGED <<todo, written, committed, intrusions>>

(* ensure_split_destinations_available: the destination, the new volumes   *)
(* and the existing ones.                                                  *)
(* Mutant: only the volumes that will be written are looked at. *)
AvailableNew(paths, d) ==
    \A p \in paths \ listed : d[p] = "none" \/ (req.replace /\ d[p] # "directory")
Available(paths, d) ==
    \A p \in paths : d[p] = "none" \/ (req.replace /\ d[p] # "directory")

EnsureAvailable ==
    /\ vpc = "listed"
    /\ vpc' = IF Available({Dest} \cup VolumePaths(req.format, Count(req)) \cup listed, dir)
                THEN "writing" ELSE "failed"
    /\ UNCHANGED <<found, req, dir, listed, todo, written, committed, intrusions>>

(* One more volume is complete in its temporary file.                      *)
WriteVolume ==
    /\ vpc = "writing" /\ written < Count(req)
    /\ written' = written + 1
    /\ UNCHANGED <<found, req, vpc, dir, listed, todo, committed, intrusions>>

(* All volumes are written.  Only a replacement removes anything.          *)
(* Mutant: the volumes that were there are forgotten, as by a commit of    *)
(* the destination alone. *)
AllWrittenDestOnly ==
    /\ vpc = "writing" /\ written = Count(req)
    /\ todo' = IF req.replace THEN {Dest} ELSE {}
    /\ vpc' = "removing"
    /\ UNCHANGED <<found, req, dir, listed, written, committed, intrusions>>
AllWritten ==
    /\ vpc = "writing" /\ written = Count(req)
    /\ todo' = IF req.replace THEN listed \cup {Dest} ELSE {}
    /\ vpc' = "removing"
    /\ UNCHANGED <<found, req, dir, listed, written, committed, intrusions>>

(* The numbered volumes in order, then the destination.                    *)
NextRemoved == IF todo = {Dest} THEN Dest ELSE Min(todo \ {Dest})

RemoveVolume ==
    /\ vpc = "removing" /\ todo # {}
    /\ dir[NextRemoved] # "directory"
    /\ dir' = [dir EXCEPT ![NextRemoved] = "none"]
    /\ todo' = todo \ {NextRemoved}
    /\ UNCHANGED <<found, req, vpc, listed, written, committed, intrusions>>

AllRemoved ==
    /\ vpc = "removing" /\ todo = {}
    /\ vpc' = "committing"
    /\ UNCHANGED <<found, req, dir, listed, todo, written, committed, intrusions>>

(* commit_with_file_replace of the next volume.                            *)
(* Mutant: what is at the path is always replaced. *)
ReplaceableAny(d) == d # "directory"
Replaceable(d) == d = "none" \/ (req.replace /\ d # "directory")

CommitVolume ==
    /\ vpc = "committing" /\ committed < written
    /\ LET p == VolumePath(req.format, written, committed + 1)
       IN  /\ Replaceable(dir[p])
           /\ dir' = [dir EXCEPT ![p] = "new"]
    /\ committed' = committed + 1
    /\ UNCHANGED <<found, req, vpc, listed, todo, written, intrusions>>

(* The sidecar, if one was emitted, is published last.                     *)
AllCommitted ==
    /\ vpc = "committing" /\ committed = written
    /\ vpc' = IF req.sidecar THEN "sidecar" ELSE "done"
    /\ UNCHANGED <<found, req, dir, listed, todo, written, committed, intrusions>>

CommitSidecar ==
    /\ vpc = "sidecar"
    /\ Replaceable(dir[Sidecar])
    /\ dir' = [dir EXCEPT ![Sidecar] = "new"]
    /\ vpc' = "done"
    /\ UNCHANGED <<found, req, listed, todo, written, committed, intrusions>>

(* Any step may fail: the temporary files are dropped, what was removed    *)
(* stays removed and what was committed stays.  A step that replaces may   *)
(* fail between the removal and the rename; commit_bootstrap_sidecar       *)
(* removes the old sidecar before it writes the new one.                   *)
UnderReplacement ==
    CASE vpc = "committing" /\ committed < written ->
           {VolumePath(req.format, written, committed + 1)}
      [] vpc = "sidecar" -> {Sidecar}
      [] OTHER -> {}

WriterFails ==
    /\ vpc \in {"listed", "writing", "removing", "committing", "sidecar"}
    /\ vpc' = "failed"
    /\ \/ dir' = dir
       \/ \E p \in UnderReplacement :
             /\ req.replace /\ dir[p] # "directory"
             /\ dir' = [dir EXCEPT ![p] = "none"]
    /\ UNCHANGED <<found, req, listed, todo, written, committed, intrusions>>

(* Another program creates a file in the directory.                        *)
Intrude(p) ==
    /\ vpc \notin {"idle", "done", "failed"} /\ intrusions < MaxIntrusions
    /\ dir[p] = "none"
    /\ dir' = [dir EXCEPT ![p] = "other"]
    /\ intrusions' = intrusions + 1
    /\ UNCHANGED <<found, req, vpc, listed, todo, written, committed>>

VolumeNext ==
    \/ ListVolumes \/ EnsureAvailable \/ WriteVolume \/ AllWritten
    \/ RemoveVolume \/ AllRemoved \/ CommitVolume \/ AllCommitted \/ CommitSidecar
    \/ WriterFails \/ \E p \in Path : Intrude(p)
----------------------------------------------------------------------------
(* Reading *)

(* from_path_autodetect and discover_7z_read_volume_paths on the path the  *)
(* writer was given: the volumes in order, <<>> when one is missing.       *)
DiscoverZip(d) ==
    LET parts == {p \in Part : d[p] # "none"}
    IN  IF d[1] \in {"none", "directory"} \/ parts # 1 .. Max(parts) \/ d[Dest] = "none"
        THEN <<Dest>>
        ELSE Append([i \in 1 .. Cardinality(parts) |-> i], Dest)

Discover7z(r, d) ==
    LET parts == {p \in Numbered("sevenz") : d[p] # "none"}
    IN  CASE r.bare \/ parts = {} -> <<Dest>>
          [] ~r.bare /\ parts # {} /\ parts = 1 .. Max(parts) ->
               [i \in 1 .. Cardinality(parts) |-> i]
          [] OTHER -> <<>>

Discover(r, d) == IF r.format = "zip" THEN DiscoverZip(d) ELSE Discover7z(r, d)

(* The lengths the new volumes have, and disk_offset, which refuses what   *)
(* is outside a volume.                                                    *)
VolumeLength(n, size, i) == IF i < n THEN VolumeSize ELSE size - (n - 1) * VolumeSize
Refused == <<>>
DiskOffset(n, size, at) ==
    IF \/ at.disk >= n
       \/ at.offset >= VolumeLength(n, size, at.disk + 1)
       \/ at.disk = 0 /\ at.offset < SignatureSize
    THEN Refused
    ELSE <<at.disk * VolumeSize + at.offset - SignatureSize>>

(* build_normalization_patches: the directory of the logical stream.       *)
Normalized(a, n) ==
    LET size  == ArchiveSize(a) + SignatureSize
        split == SplitDirectory(a)
    IN  [locals |-> [i \in 1 .. Len(a.locals) |-> DiskOffset(n, size, split.locals[i])],
         start  |-> DiskOffset(n, size, split.start)]
----------------------------------------------------------------------------
(* Every variable keeps the shape of what it stands for.                   *)
VolumeTypeOK ==
    /\ vpc \in VolumePC /\ (vpc # "idle" => req \in Requests)
    /\ {dir, found} \subseteq [Path -> Contents]
    /\ listed \subseteq Part /\ todo \subseteq listed \cup {Dest}
    /\ written \in 0 .. MaxVolumes /\ committed \in 0 .. written
    /\ intrusions \in 0 .. MaxIntrusions

(* The old, or the new, set has no volume whose name is not recognised:    *)
(* nothing in the code refuses a 7z archive of more.                       *)
OldNumbered == {p \in Part : found[p] = "old"} \subseteq Numbered(req.format)
NewNumbered == VolumePaths(req.format, Count(req)) \cap Part \subseteq Numbered(req.format)

(* No moment, no failure and no other program leaves volumes of the old    *)
(* archive beside volumes of the new one: the old ones were all listed     *)
(* before the first new one is moved.  A 7z set of more volumes than three *)
(* digits number is not listed whole, and its rest stays.                  *)
NeverMixed ==
    OldNumbered => ~ \E p, q \in Path \ {Sidecar} : dir[p] = "old" /\ dir[q] = "new"

(* After success a reader that is given the destination finds exactly the  *)
(* new volumes, in order, unless another program put a file among them or  *)
(* a 7z archive has more volumes than three digits number; and the         *)
(* directory it rebuilds from a split ZIP is the one the archive had       *)
(* before it was split.                                                    *)
ReadsBack ==
    vpc = "done" /\ req.format # "tzap" =>
        /\ intrusions = 0 /\ NewNumbered =>
              Discover(req, dir) =
                 [i \in 1 .. written |-> VolumePath(req.format, written, i)]
        /\ req.format = "zip" /\ written > 1 =>
              Normalized(req.archive, written) =
                 [locals |-> [i \in 1 .. Len(req.archive.locals) |-> <<req.archive.locals[i]>>],
                  start |-> <<req.archive.start>>]

(* Without permission to replace, nothing that was there or that another   *)
(* program created is ever changed; with it, the old archive stays whole   *)
(* until every new volume is complete on disk.                             *)
OldKeptUntilWritten ==
    [][\A p \in Path : (vpc # "idle" /\ dir[p] # "none" /\ dir'[p] # dir[p]) =>
          req.replace /\ written = Count(req) /\ vpc \in {"removing", "committing", "sidecar"}]_volumeVars
============================================================================
