---------------------------- MODULE AtomicOutput ----------------------------
(***************************************************************************)
(* atomic_file.rs: every archive, every extracted file, the identity       *)
(* catalogue and every secret is written to a temporary sibling and moved  *)
(* to its final path.  The module follows several calls that write the     *)
(* same final path, one system call at a time: AtomicOutputFile with its   *)
(* four ways to commit, and write_atomic_secret_file.                      *)
(*                                                                         *)
(* A writer is one call and owns one file (inode), also named by the       *)
(* writer; a name is an entry of the directory and holds a file or         *)
(* nothing.  Temporary names are built from the process id, the clock and  *)
(* an attempt number: with SameClock the calls are threads of one process  *)
(* that read the same clock value, so that only the attempt tells their    *)
(* names apart.                                                            *)
(***************************************************************************)
EXTENDS Naturals

CONSTANTS
    Writer,
    Mixes,         \* sets of ways to commit that are in use together
    Filesystems,   \* what the file system offers a move that must not replace
    Nothing, Old, Directory,   \* what a name holds besides a writer's file
    SameClock,
    MaxAttempts,   \* MAX_TEMP_ATTEMPTS
    Chunks,        \* pieces in which a file is written
    MaxLosses      \* bound on power losses

ASSUME ModeAssumption ==
    UNION Mixes \subseteq {"refuse", "file_replace", "replace", "catalog", "secret"}
ASSUME FilesystemAssumption ==
    Filesystems \subseteq {"noreplace", "hardlink", "neither"}
ASSUME NameAssumption ==
    /\ Nothing # Old /\ Nothing # Directory /\ Old # Directory
    /\ {Nothing, Old, Directory} \cap Writer = {}
ASSUME BoundAssumption ==
    /\ SameClock \in BOOLEAN
    /\ MaxAttempts \in Nat \ {0} /\ Chunks \in Nat \ {0} /\ MaxLosses \in Nat

VARIABLES
    mode,      \* how each call commits
    fs,        \* what the file system offers
    pc,
    attempt,   \* the attempt each call is at
    temp,      \* temporary names
    final,     \* what the final path holds
    disk,      \* what the final path holds on the medium
    data,      \* chunks in each writer's file
    synced,    \* each writer's file is on the medium
    losses

vars == <<mode, fs, pc, attempt, temp, final, disk, data, synced, losses>>

Stamp == Writer \cup {"same"}
Name == {"output", "secret"} \X Stamp \X (0 .. MaxAttempts - 1)
PC == {"open", "collided", "write", "sync", "commit", "remove", "remove_all",
       "rename", "unlink", "check", "sync_dir", "drop",
       "ok", "error", "dead"}
Running(w) == pc[w] \notin {"ok", "error", "dead"}
\* Calls that sync the file before they move it.
Durable(w) == mode[w] \in {"catalog", "secret"}
Replacing(w) == mode[w] \in {"file_replace", "replace"}

\* The name a call tries or holds.
TempPath(w) ==
    <<IF mode[w] = "secret" THEN "secret" ELSE "output",
      IF SameClock THEN "same" ELSE w, attempt[w]>>

Init ==
    /\ \E Mix \in Mixes : mode \in [Writer -> Mix]
    /\ fs \in Filesystems
    /\ pc = [w \in Writer |-> "open"]
    /\ attempt = [w \in Writer |-> 0]
    /\ temp = [n \in Name |-> Nothing]
    /\ final \in {Nothing, Old, Directory}
    /\ disk = final
    /\ data = [w \in Writer |-> 0]
    /\ synced = [w \in Writer |-> FALSE]
    /\ losses = 0

Goto(w, l) == pc' = [pc EXCEPT ![w] = l]
Hold(n, f) == temp' = [temp EXCEPT ![n] = f]

-----------------------------------------------------------------------------
(* Allocation of the temporary file and the writes to it.                  *)

\* create_new succeeds when the name is free.
Open(w) ==
    /\ pc[w] = "open"
    /\ temp[TempPath(w)] = Nothing
    /\ Hold(TempPath(w), w)
    /\ Goto(w, "write")
    /\ UNCHANGED <<mode, fs, attempt, final, disk, data, synced, losses>>

\* The name of the next attempt, or none is left.
NextAttempt(w) ==
    IF attempt[w] + 1 < MaxAttempts
      THEN /\ attempt' = [attempt EXCEPT ![w] = @ + 1]
           /\ Goto(w, "open")
      ELSE Goto(w, "error") /\ UNCHANGED attempt

\* create_new fails with AlreadyExists: AtomicOutputFile takes the next name.
OpenTaken(w) ==
    /\ pc[w] = "open" /\ mode[w] # "secret"
    /\ temp[TempPath(w)] # Nothing
    /\ NextAttempt(w)
    /\ UNCHANGED <<mode, fs, temp, final, disk, data, synced, losses>>

\* The file cannot be created for another reason.
OpenFails(w) ==
    /\ pc[w] = "open"
    /\ Goto(w, IF mode[w] = "secret" THEN "drop" ELSE "error")
    /\ UNCHANGED <<mode, fs, attempt, temp, final, disk, data, synced, losses>>

\* write_atomic_secret_file comes to its one error path ...
SecretTaken(w) ==
    /\ pc[w] = "open" /\ mode[w] = "secret"
    /\ temp[TempPath(w)] # Nothing
    /\ Goto(w, "collided")
    /\ UNCHANGED <<mode, fs, attempt, temp, final, disk, data, synced, losses>>

\* ... which removes the name, whoever holds it, before it tries the next one.
SecretRetry(w) ==
    /\ pc[w] = "collided"
    /\ Hold(TempPath(w), Nothing)
    /\ NextAttempt(w)
    /\ UNCHANGED <<mode, fs, final, disk, data, synced, losses>>

\* One piece goes to the open file, whatever became of its name.
WriteChunk(w) ==
    /\ pc[w] = "write" /\ data[w] < Chunks
    /\ data' = [data EXCEPT ![w] = @ + 1]
    /\ UNCHANGED <<mode, fs, pc, attempt, temp, final, disk, synced, losses>>

\* The end of the input.
EndOfData(w) ==
    /\ pc[w] = "write" /\ data[w] = Chunks
    /\ Goto(w, IF Durable(w) THEN "sync" ELSE "commit")
    /\ UNCHANGED <<mode, fs, attempt, temp, final, disk, data, synced, losses>>

\* Cancellation, a read error or a write error: the output is dropped.
WriteFails(w) ==
    /\ pc[w] \in {"write", "sync"}
    /\ Goto(w, "drop")
    /\ UNCHANGED <<mode, fs, attempt, temp, final, disk, data, synced, losses>>

\* Mutant: the file is not synced.
SyncNothing(w) ==
    /\ pc[w] = "sync"
    /\ Goto(w, "commit")
    /\ UNCHANGED <<mode, fs, attempt, temp, final, disk, data, synced, losses>>

\* sync_all of the file.
SyncFile(w) ==
    /\ pc[w] = "sync"
    /\ synced' = [synced EXCEPT ![w] = TRUE]
    /\ Goto(w, "commit")
    /\ UNCHANGED <<mode, fs, attempt, temp, final, disk, data, losses>>

-----------------------------------------------------------------------------
(* The four ways to commit.                                                *)

\* rename(2) of the temporary name over the final path: it fails without a
\* source and on a directory.
Moved(w) ==
    /\ temp[TempPath(w)] # Nothing /\ final # Directory
    /\ final' = temp[TempPath(w)]
    /\ Hold(TempPath(w), Nothing)
NotMoved(w) ==
    /\ temp[TempPath(w)] = Nothing \/ final = Directory
    /\ UNCHANGED <<final, temp>>

\* commit_with_atomic_replace, replace_file_over_existing: one rename.
CommitReplace(w) ==
    /\ pc[w] = "commit" /\ Durable(w)
    /\ \/ Moved(w) /\ Goto(w, "sync_dir")
       \/ NotMoved(w) /\ Goto(w, "drop")
    /\ UNCHANGED <<mode, fs, attempt, disk, data, synced, losses>>

\* The directory is synced if it can be opened; the call returns Ok anyway.
SyncDirectory(w) ==
    /\ pc[w] = "sync_dir"
    /\ disk' \in {disk, final}
    /\ Goto(w, "ok")
    /\ UNCHANGED <<mode, fs, attempt, temp, final, data, synced, losses>>

\* commit_with_replace and commit_with_file_replace look at the destination;
\* only the first one replaces a directory.
CommitRemove(w) ==
    /\ pc[w] = "commit" /\ Replacing(w)
    /\ Goto(w, CASE final = Nothing -> "rename"
                 [] final = Directory ->
                      IF mode[w] = "replace" THEN "remove_all" ELSE "drop"
                 [] OTHER -> "remove")
    /\ UNCHANGED <<mode, fs, attempt, temp, final, disk, data, synced, losses>>

\* remove_file or remove_dir_all, by what the look showed.
Removable(w) ==
    IF pc[w] = "remove" THEN final \notin {Nothing, Directory} ELSE final = Directory
RemoveFinal(w) ==
    /\ pc[w] \in {"remove", "remove_all"}
    /\ IF Removable(w)
         THEN final' = Nothing /\ Goto(w, "rename")
         ELSE Goto(w, "drop") /\ UNCHANGED final
    /\ UNCHANGED <<mode, fs, attempt, temp, disk, data, synced, losses>>

\* fs::rename, after a removal and at the end of the fallback.
Rename(w) ==
    /\ pc[w] = "rename"
    /\ \/ Moved(w) /\ Goto(w, "ok")
       \/ NotMoved(w) /\ Goto(w, "drop")
    /\ UNCHANGED <<mode, fs, attempt, disk, data, synced, losses>>

\* Mutant: a plain rename, which replaces what is there.
CommitPlain(w) ==
    /\ pc[w] = "commit" /\ mode[w] = "refuse"
    /\ Goto(w, "rename")
    /\ UNCHANGED <<mode, fs, attempt, temp, final, disk, data, synced, losses>>

\* atomic_no_clobber_rename where the system has such a call.
CommitNoReplace(w) ==
    /\ pc[w] = "commit" /\ mode[w] = "refuse" /\ fs = "noreplace"
    /\ IF final = Nothing /\ temp[TempPath(w)] # Nothing
         THEN Moved(w) /\ Goto(w, "ok")
         ELSE Goto(w, "drop") /\ UNCHANGED <<final, temp>>
    /\ UNCHANGED <<mode, fs, attempt, disk, data, synced, losses>>

\* ENOSYS, EINVAL, EOPNOTSUPP, which change nothing: fallback_hardlink_rename.
FallsBack(w) == pc[w] = "commit" /\ mode[w] = "refuse" /\ fs # "noreplace"

\* hard_link fails on anything that is there; a file system without hard
\* links denies it, and the next step looks at the destination.
HardLink(w) ==
    /\ FallsBack(w)
    /\ CASE fs = "neither" -> Goto(w, "check") /\ UNCHANGED final
         [] fs # "neither" /\ final = Nothing /\ temp[TempPath(w)] # Nothing ->
              final' = temp[TempPath(w)] /\ Goto(w, "unlink")
         [] OTHER -> Goto(w, "drop") /\ UNCHANGED final
    /\ UNCHANGED <<mode, fs, attempt, temp, disk, data, synced, losses>>

\* remove_file of the temporary name, its error ignored.
UnlinkTemp(w) ==
    /\ pc[w] = "unlink"
    /\ Hold(TempPath(w), Nothing)
    /\ Goto(w, "ok")
    /\ UNCHANGED <<mode, fs, attempt, final, disk, data, synced, losses>>

\* `!to.exists()`.
CheckAbsent(w) ==
    /\ pc[w] = "check"
    /\ Goto(w, IF final = Nothing THEN "rename" ELSE "drop")
    /\ UNCHANGED <<mode, fs, attempt, temp, final, disk, data, synced, losses>>

\* Drop of an uncommitted output, and the error path of the secret writer.
DropTemp(w) ==
    /\ pc[w] = "drop"
    /\ Hold(TempPath(w), Nothing)
    /\ Goto(w, "error")
    /\ UNCHANGED <<mode, fs, attempt, final, disk, data, synced, losses>>

-----------------------------------------------------------------------------
(* What may happen to the machine.                                         *)

\* The process of a call is killed.
Crash(w) ==
    /\ Running(w)
    /\ Goto(w, "dead")
    /\ UNCHANGED <<mode, fs, attempt, temp, final, disk, data, synced, losses>>

\* The system writes the directory back on its own (seen by a later loss).
WriteBack ==
    /\ disk # final /\ losses < MaxLosses
    /\ disk' = final
    /\ UNCHANGED <<mode, fs, pc, attempt, temp, final, data, synced, losses>>

\* The machine loses power: the final path is what the medium has, and a
\* file that was not synced may be empty (one file is looked at afterwards,
\* the one at the final path: all unsynced files share its fate).
PowerLoss ==
    /\ losses < MaxLosses
    /\ losses' = losses + 1
    /\ pc' = [w \in Writer |-> IF Running(w) THEN "dead" ELSE pc[w]]
    /\ final' = disk
    /\ \E kept \in {{}, Writer} :
          data' = [w \in Writer |-> IF synced[w] \/ w \in kept THEN data[w] ELSE 0]
    /\ UNCHANGED <<mode, fs, attempt, temp, disk, synced>>

Step(w) ==
    \/ Open(w) \/ OpenTaken(w) \/ OpenFails(w) \/ SecretTaken(w) \/ SecretRetry(w)
    \/ WriteChunk(w) \/ EndOfData(w) \/ WriteFails(w) \/ SyncFile(w)
    \/ CommitReplace(w) \/ SyncDirectory(w)
    \/ CommitRemove(w) \/ RemoveFinal(w) \/ Rename(w)
    \/ CommitNoReplace(w) \/ HardLink(w) \/ UnlinkTemp(w)
    \/ CheckAbsent(w) \/ DropTemp(w)

Next == (\E w \in Writer : Step(w) \/ Crash(w)) \/ WriteBack \/ PowerLoss

Spec == Init /\ [][Next]_vars

-----------------------------------------------------------------------------
\* What a name may hold, and the attempts stay below MAX_TEMP_ATTEMPTS.
TypeOK ==
    /\ mode \in [Writer -> UNION Mixes]
    /\ fs \in Filesystems
    /\ pc \in [Writer -> PC]
    /\ attempt \in [Writer -> 0 .. MaxAttempts - 1]
    /\ temp \in [Name -> Writer \cup {Nothing}]
    /\ final \in Writer \cup {Nothing, Old, Directory}
    /\ disk \in Writer \cup {Nothing, Old, Directory}
    /\ data \in [Writer -> 0 .. Chunks]
    /\ synced \in [Writer -> BOOLEAN]
    /\ losses \in 0 .. MaxLosses

(* Threads of one process that write secrets at the same reading of the    *)
(* clock: SecretRetry of one takes away the name another has just created. *)
Colliding(w) ==
    /\ SameClock /\ mode[w] = "secret"
    /\ \E v \in Writer \ {w} : mode[v] = "secret"

(* The final path never holds part of a file: not while it is written, not *)
(* after a cancellation, an error or a crash.  After a power loss this is  *)
(* promised for the calls that sync before they move, the catalogue and    *)
(* the secrets ("never a truncated mix") that do not collide.              *)
WholeFile ==
    \A w \in Writer :
        final = w /\ ~ Colliding(w)
            => data[w] = Chunks \/ (losses > 0 /\ ~ Durable(w))

(* Between create_new and the commit the temporary name of a call holds    *)
(* the file this call writes: no other call removes or replaces it, except *)
(* for colliding writers of secrets.                                       *)
TempIsOwn ==
    \A w \in Writer :
        pc[w] \in {"write", "sync", "commit", "remove", "remove_all", "rename",
                   "check"} /\ ~ Colliding(w)
            => temp[TempPath(w)] = w

(* A call that returned, with or without an error, leaves no temporary     *)
(* file; only a killed one does.                                           *)
NothingLeftBehind ==
    \A w \in Writer, n \in Name : temp[n] = w => Running(w) \/ pc[w] = "dead"

(* What a call leaves of its file, at any moment: the whole of it or       *)
(* nothing, under the final name or its own temporary one.                 *)
WholeOrNothing == TypeOK /\ WholeFile /\ TempIsOwn /\ NothingLeftBehind

(* A commit without replace never takes the place of something: the path   *)
(* was free at the very step that put the file there.  A file system with  *)
(* neither a no-replace move nor hard links cannot promise it: CheckAbsent *)
(* and Rename are two system calls.                                        *)
RefuseNeverClobbers ==
    [][\A w \in Writer :
          (final' = w /\ final # w /\ mode[w] = "refuse" /\ losses' = losses
             /\ fs # "neither")
              => final = Nothing]_vars

(* Once the final path holds something, here and on the medium, only a     *)
(* call that removes before it renames can leave it empty: the writers of  *)
(* the catalogue and of secrets pass from the old file to the new one, by  *)
(* whatever crash or power loss ("never neither").                         *)
NeverNeither ==
    [][(final # Nothing /\ disk # Nothing /\ final' = Nothing)
          => \E w \in Writer : Replacing(w)]_vars

(* No step loses what the final path held against the caller's policy.     *)
NothingIsLost == RefuseNeverClobbers /\ NeverNeither
=============================================================================
