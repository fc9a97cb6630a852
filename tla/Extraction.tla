----------------------------- MODULE Extraction -----------------------------
(***************************************************************************)
(* One extraction: the loop of a backend (see Backends), the safety        *)
(* planner it asks about every entry (safety.rs), the writes to the        *)
(* destination (extract_loop.rs, atomic_file.rs, extract_materialize.rs),  *)
(* the hard links made at the end and the stamping of directories.         *)
(*                                                                         *)
(* Paths are destination paths below the root.  Normalisation, stripping   *)
(* of components and include patterns have been applied to the names of    *)
(* entries: Filtered has the paths they remove, Key the case folding of    *)
(* collision keys, Above the directories that contain a path and Candidate *)
(* the names the rename policy tries, in order.  The archive is read one   *)
(* entry at a time.  Unix: symbolic links can be made.                     *)
(***************************************************************************)
EXTENDS LinkOrder, Backends

CONSTANTS
    Path,
    Above,         \* path -> the directories above it, below the root
    Key,           \* path -> collision key
    Candidate,     \* path -> the renamed paths of that name
    Filtered,      \* paths not selected, or removed by strip_components
    Outside,       \* a link target outside of the root
    Cases,         \* the extractions to look at, each a record of
                   \*   backends: the formats
                   \*   entries: the entries its archive may have
                   \*   disks: what the destination may hold at first
                   \*   policies, unsafes, ignores: the values of the policy
                   \*   limits: max_entries and max_expanded_bytes (a file
                   \*           has one byte)
    ArchiveSize    \* bound on the entries of an archive

ASSUME PathAssumption ==
    /\ IsFiniteSet(Path) /\ Outside \notin Path
    /\ Above \in [Path -> SUBSET Path]
    /\ \A p \in Path : p \notin Above[p] /\ \A a \in Above[p] : Above[a] \subseteq Above[p]
    /\ Candidate \in [Path -> Seq(Path)]
ASSUME SizeAssumption == ArchiveSize \in Nat

\* An entry: a directory has a mode, a link its target.
Entry ==
    [kind : {"file", "special"}, path : Path]
        \cup [kind : {"dir"}, path : Path, mode : {"open", "closed"}]
        \cup [kind : {"symlink", "hardlink"}, path : Path, target : Path]

\* What can be at a path.  File(0) is a file that was there before.
Absent == [kind |-> "absent"]
File(i) == [kind |-> "file", of |-> i]
Dir == [kind |-> "dir"]
Link(t) == [kind |-> "link", to |-> t]
Node == {Absent, Dir} \cup {File(i) : i \in 0 .. ArchiveSize}
          \cup {Link(t) : t \in Path \cup {Outside}}

ASSUME CaseAssumption ==
    \A k \in Cases :
        /\ k.backends \subseteq Backend
        /\ k.entries \subseteq Entry
        /\ k.disks \subseteq [Path -> Node]
        /\ k.policies \subseteq {"refuse", "replace", "rename", "ask"}
        /\ k.unsafes \subseteq {"reject", "skip"}
        /\ k.ignores \subseteq BOOLEAN
        /\ k.limits \in [entries : Nat, bytes : Nat]

VARIABLES
    backend,
    policy, unsafe, ignoring, limits,   \* the extraction policy
    archive,    \* the entries that may come
    before,     \* the destination at the start
    disk,       \* the destination now
    pc,
    count,      \* entries read
    plan,       \* the entry in hand and its planned write
    decided,    \* path -> the last decision for an entry of that name
    queue,      \* entries planned and not yet written, when all are planned first
    seen,       \* seen_paths
    symlinks,   \* planned_symlinks
    required,   \* required_non_symlink_paths
    renames,    \* next_rename_index
    reserved,   \* planned_entries and planned_expanded_bytes
    links,      \* deferred_hardlinks
    todo,       \* links still to be made, in order
    dirs,       \* deferred_directories
    stamped,    \* how many of them have been stamped
    written,    \* what this extraction put on the disk
    consent     \* paths that Replace or the resolver let an entry replace

planner == <<seen, symlinks, required, renames, reserved>>
deferred == <<links, todo, dirs, stamped>>
batch == <<decided, queue>>
settings == <<backend, policy, unsafe, ignoring, limits, archive, before>>
vars == <<settings, disk, pc, count, plan, batch, planner, deferred, written, consent>>

NoPlan == [entry |-> "none"]

Is(p, k) == disk[p].kind = k

Init ==
    /\ \E k \in Cases :
          /\ backend \in k.backends
          /\ policy \in k.policies /\ unsafe \in k.unsafes /\ ignoring \in k.ignores
          /\ limits = k.limits
          /\ archive = {e \in k.entries : e.kind \in backend.holds}
          /\ disk \in k.disks
    /\ before = disk
    /\ pc = "read" /\ count = 0 /\ plan = NoPlan
    /\ seen = {} /\ symlinks = {} /\ required = {}
    /\ renames = [p \in Path |-> 1]
    /\ reserved = [entries |-> 0, bytes |-> 0]
    /\ decided = [p \in {} |-> NoPlan] /\ queue = <<>>
    /\ links = <<>> /\ todo = <<>> /\ dirs = <<>> /\ stamped = 0
    /\ written = {} /\ consent = {}

-----------------------------------------------------------------------------
(* The planner.                                                            *)

\* Where a path leads when links are followed, at most one hop per path.
Canonical(p) ==
    LET hop[k \in 0 .. Cardinality(Path)] ==
          IF k = 0 THEN p
          ELSE LET q == hop[k - 1]
               IN  IF q # Outside /\ disk[q].kind = "link" THEN disk[q].to ELSE q
    IN  hop[Cardinality(Path)]
\* Path::exists follows links.
Exists(p) ==
    LET q == Canonical(p) IN q = Outside \/ disk[q].kind \in {"file", "dir"}

\* require_non_symlink: neither planned as a link nor one on disk.
NonSymlink(p) == Key[p] \notin symlinks /\ ~ Is(p, "link")

\* validate_symlink_target: what is there already must be inside the root.
SymlinkTargetOk(t) ==
    LET q == Canonical(t)
    IN  /\ q # Outside
        /\ ~ Is(q, "link")
        /\ Is(q, "absent") => NonSymlink(t)

\* Mutant: a link may take the place of a path that must not be one.
WritePathsUnguarded(e, dest) ==
    /\ \A a \in Above[dest] : NonSymlink(a)
    /\ e.kind = "hardlink" => \A a \in Above[e.target] \cup {e.target} : NonSymlink(a)
    /\ e.kind = "symlink" => \A a \in Above[e.target] : NonSymlink(a)

\* validate_write_paths: no selected entry goes through a link.
WritePathsOk(e, dest) ==
    /\ \A a \in Above[dest] : NonSymlink(a)
    /\ e.kind = "symlink" => Key[dest] \notin required
    /\ e.kind = "hardlink" => \A a \in Above[e.target] \cup {e.target} : NonSymlink(a)
    /\ e.kind = "symlink" => \A a \in Above[e.target] : NonSymlink(a)

\* record_write_paths: the paths a planned write relies on.
Required(e, dest) ==
    Above[dest]
        \cup (IF e.kind = "dir" THEN {dest} ELSE {})
        \cup (IF e.kind = "hardlink" THEN Above[e.target] \cup {e.target} ELSE {})
        \cup (IF e.kind = "symlink" THEN Above[e.target] ELSE {})

\* The suffixes next_available_destination_path_from would accept.
FreeSuffixes(p) ==
    {i \in renames[p] .. Len(Candidate[p]) : ~ Exists(Candidate[p][i])}
Lowest(S) == CHOOSE i \in S : \A j \in S : i <= j

(* plan_destination_write: what it may answer for a path that is there.    *)
(* Rename answers the path itself when it is a link to nothing.            *)
Rename(p) ==
    IF ~ Exists(p) THEN {[do |-> "write", dest |-> p, replace |-> FALSE, index |-> renames[p]]}
    ELSE IF FreeSuffixes(p) = {} THEN {[do |-> "fail"]}
    ELSE LET i == Lowest(FreeSuffixes(p))
         IN  {[do |-> "write", dest |-> Candidate[p][i], replace |-> FALSE, index |-> i + 1]}
InPlace(p, r) == {[do |-> "write", dest |-> p, replace |-> r, index |-> renames[p]]}
\* Mutant: Rename replaces.
ConflictReplaced(p) ==
    IF policy = "refuse" THEN {[do |-> "fail"]} ELSE InPlace(p, TRUE)
Conflict(p) ==
    CASE policy = "refuse"  -> {[do |-> "fail"]}
      [] policy = "replace" -> InPlace(p, TRUE)
      [] policy = "rename"  -> Rename(p)
      [] policy = "ask"     -> {[do |-> "fail"], [do |-> "skip"]}
                                  \cup InPlace(p, TRUE) \cup Rename(p)
Decisions(e) ==
    IF Is(e.path, "absent")
      THEN InPlace(e.path, policy = "replace" /\ e.kind # "dir")
    ELSE IF e.kind = "dir" /\ Is(e.path, "dir") THEN InPlace(e.path, FALSE)
    ELSE Conflict(e.path)

\* reject_collision is left out under Replace.
Collides(e) == policy # "replace" /\ Key[e.path] \in seen
Bytes(e) == IF e.kind = "file" THEN 1 ELSE 0

\* Left out without being counted: by the filters, or by the backend.
Ignored(e) == e.path \in Filtered \/ e.kind \in backend.passed

\* Everything validate_entry can refuse before it plans the destination.
Admissible(e) ==
    /\ reserved.entries < limits.entries
    /\ e.kind = "symlink" => SymlinkTargetOk(e.target)
    /\ e.kind = "special" => unsafe = "skip"
    /\ ~ Collides(e)
Skips(e) ==
    \/ Ignored(e)
    \/ e.kind = "special" /\ unsafe = "skip"
    \/ e.kind = "symlink" /\ ignoring

\* The entry is left out; a filtered one is not counted against the limit.
Skip(e) ==
    /\ pc = "read" /\ count < ArchiveSize
    /\ Skips(e)
    /\ ~ Ignored(e) => reserved.entries < limits.entries
    /\ count' = count + 1
    /\ reserved' = IF Ignored(e) THEN reserved
                   ELSE [reserved EXCEPT !.entries = @ + 1]
    /\ UNCHANGED <<settings, disk, pc, plan, batch, seen, symlinks, required, renames,
                   deferred, written, consent>>

\* The resolver says to skip: the entry has been counted and seen.
SkipByPrompt(e) ==
    /\ pc = "read" /\ count < ArchiveSize
    /\ ~ Skips(e) /\ Admissible(e)
    /\ [do |-> "skip"] \in Decisions(e)
    /\ count' = count + 1
    /\ seen' = seen \cup {Key[e.path]}
    /\ reserved' = [reserved EXCEPT !.entries = @ + 1]
    /\ UNCHANGED <<settings, disk, pc, plan, batch, symlinks, required, renames,
                   deferred, written, consent>>

\* Mutant: the total is compared before the entry is added to it.
WithinBytesLate(e) == reserved.bytes <= limits.bytes
\* reserve_expanded_size.
WithinBytes(e) == reserved.bytes + Bytes(e) <= limits.bytes

\* What the planner decided, and the mode the entry is to get.
Decision(e, d) ==
    [dest |-> d.dest, replace |-> d.replace, mode |-> IF e.kind = "dir" THEN e.mode ELSE "open"]

\* The plans of 7z by the name of the entry: the last one counts.
Decide(p, d) ==
    [q \in DOMAIN decided \cup {p} |-> IF q = p THEN d ELSE decided[q]]

\* The entry is the next one to be written.
TakeUp(e, i, d) ==
    /\ plan' = [entry |-> e, of |-> i, dest |-> d.dest, replace |-> d.replace, mode |-> d.mode]
    /\ pc' = CASE d.replace /\ e.kind \in backend.clears -> "clear"
               [] e.kind = "file" /\ ~ (d.replace /\ e.kind \in backend.clears) -> "open"
               [] OTHER -> "place"

\* The write is planned and recorded.
Plan(e) ==
    /\ pc = "read" /\ count < ArchiveSize
    /\ ~ Skips(e) /\ Admissible(e)
    /\ \E d \in Decisions(e) :
          /\ d.do = "write"
          /\ WritePathsOk(e, d.dest) /\ WithinBytes(e)
          /\ IF backend.planning = "all"
               THEN /\ decided' = Decide(e.path, Decision(e, d))
                    /\ queue' = Append(queue, [entry |-> e, of |-> count + 1])
                    /\ UNCHANGED <<plan, pc>>
               ELSE TakeUp(e, count + 1, Decision(e, d)) /\ UNCHANGED batch
          /\ renames' = [renames EXCEPT ![e.path] = d.index]
          /\ required' = required \cup {Key[p] : p \in Required(e, d.dest)}
          /\ symlinks' = IF e.kind = "symlink" THEN symlinks \cup {Key[d.dest]}
                         ELSE symlinks \ {Key[d.dest]}
          /\ consent' = IF policy \in {"replace", "ask"} /\ d.replace
                        THEN consent \cup {d.dest} ELSE consent
    /\ count' = count + 1
    /\ seen' = IF policy = "replace" THEN seen ELSE seen \cup {Key[e.path]}
    /\ reserved' = [entries |-> reserved.entries + 1, bytes |-> reserved.bytes + Bytes(e)]
    /\ UNCHANGED <<settings, disk, deferred, written>>

\* The planner refuses the entry: the extraction ends.
Refuse(e) ==
    /\ pc = "read" /\ count < ArchiveSize
    /\ IF Skips(e)
         THEN ~ Ignored(e) /\ reserved.entries >= limits.entries
         ELSE \/ ~ Admissible(e)
              \/ \E d \in Decisions(e) :
                    \/ d.do = "fail"
                    \/ d.do = "write" /\ ~ (WritePathsOk(e, d.dest) /\ WithinBytes(e))
    /\ pc' = "refused"
    /\ UNCHANGED <<settings, disk, count, plan, batch, planner, deferred, written, consent>>

(* 7z has planned the whole archive and writes it: an entry is written as  *)
(* the last entry of its name was decided.                                 *)
TakeNext ==
    /\ pc \in {"read", "write"} /\ queue # <<>>
    /\ TakeUp(Head(queue).entry, Head(queue).of, decided[Head(queue).entry.path])
    /\ queue' = Tail(queue)
    /\ UNCHANGED <<settings, disk, count, decided, planner, deferred, written, consent>>

-----------------------------------------------------------------------------
(* The writes.                                                             *)

\* create_dir_all of the directories above p: fails on a file.
ParentsOk(p) == \A a \in Above[p] : ~ Is(a, "file")
WithParents(p) ==
    [q \in Path |-> IF q \in Above[p] /\ Is(q, "absent") THEN Dir ELSE disk[q]]
Fail == pc' = "failed" /\ UNCHANGED disk

\* AtomicOutputFile::create for a file, and the copy into it.
Open ==
    /\ pc = "open"
    /\ IF ParentsOk(plan.dest)
         THEN disk' = WithParents(plan.dest) /\ pc' = "copy"
         ELSE Fail
    /\ UNCHANGED <<settings, count, plan, batch, planner, deferred, written, consent>>
Copied ==
    /\ pc = "copy"
    /\ pc' = IF plan.replace THEN "remove" ELSE "place"
    /\ UNCHANGED <<settings, disk, count, plan, batch, planner, deferred, written, consent>>

\* remove_destination_for_replace: a directory goes with all it contains.
Without(p) == [q \in Path |-> IF q = p \/ p \in Above[q] THEN Absent ELSE disk[q]]
Remove ==
    /\ pc \in {"clear", "remove"}
    /\ disk' = Without(plan.dest)
    /\ pc' = IF pc = "clear" /\ plan.entry.kind = "file" THEN "open" ELSE "place"
    /\ UNCHANGED <<settings, count, plan, batch, planner, deferred, written, consent>>

\* Mutant: the file is renamed over whatever is at the destination.
ClearAlways(e, p) == e.kind # "symlink" \/ Is(p, "absent")
\* What the last system call accepts at its destination.
Clear(e, p) == Is(p, "absent") \/ (e.kind = "dir" /\ Is(p, "dir"))

\* Back to the archive, or to the next of the planned entries.
Ready == IF backend.planning = "all" THEN "write" ELSE "read"

\* The entry becomes visible; a hard link is put off.
Place ==
    LET e == plan.entry
        p == plan.dest
        node == CASE e.kind = "file" -> File(plan.of)
                  [] e.kind = "dir" -> Dir
                  [] OTHER -> Link(e.target)
    IN  /\ pc = "place"
        /\ IF e.kind = "hardlink"
             THEN /\ links' = Append(links, [path |-> e.path, source |-> e.target, dest |-> p,
                                            replace |-> plan.replace])
                  /\ pc' = Ready
                  /\ UNCHANGED <<disk, written, dirs>>
           ELSE IF Clear(e, p) /\ ParentsOk(p)
             THEN /\ disk' = [WithParents(p) EXCEPT ![p] = node]
                  /\ written' = written \cup {[path |-> e.path, dest |-> p, node |-> node]}
                  /\ dirs' = IF e.kind = "dir" /\ backend.stamping # "none"
                             THEN Append(dirs, [path |-> p, mode |-> plan.mode]) ELSE dirs
                  /\ pc' = Ready
                  /\ UNCHANGED links
             ELSE Fail /\ UNCHANGED <<links, written, dirs>>
        /\ plan' = NoPlan
        /\ UNCHANGED <<settings, count, batch, planner, todo, stamped, consent>>

\* The end of the archive: the deferred links are put in order.
Finish ==
    /\ pc \in {"read", "write"} /\ queue = <<>>
    /\ IF SourcesPresent(links, {p \in Path : ~ Is(p, "absent")}) /\ OrderFound(links)
         THEN todo' = DeferredLinkOrder(links) /\ pc' = "link"
         ELSE pc' = "failed" /\ UNCHANGED todo
    /\ UNCHANGED <<settings, disk, count, plan, batch, planner, links, dirs, stamped,
                   written, consent>>

\* The destination as a deferred link finds it, and whether it can be made.
Cleared(l) == IF backend.relinks /\ l.replace THEN Without(l.dest) ELSE disk
Linkable(l) ==
    LET now == Cleared(l)
    IN  ParentsOk(l.dest) /\ now[l.dest] = Absent /\ now[l.source].kind \in {"file", "link"}
Linked(l) ==
    [[q \in Path |-> IF q \in Above[l.dest] /\ Is(q, "absent") THEN Dir ELSE Cleared(l)[q]]
        EXCEPT ![l.dest] = Cleared(l)[l.source]]

(* write_hardlink: a second name for the file (or the link) at the source. *)
(* The call may also fail once the destination has been cleared.           *)
MakeLink ==
    LET l == links[Head(todo)]
    IN  /\ pc = "link" /\ todo # <<>>
        /\ \/ /\ Linkable(l)
              /\ disk' = Linked(l)
              /\ written' = written \cup
                    {[path |-> l.path, dest |-> l.dest, node |-> Cleared(l)[l.source]]}
              /\ todo' = Tail(todo)
              /\ UNCHANGED pc
           \/ /\ disk' = Cleared(l) /\ pc' = "failed"
              /\ UNCHANGED <<written, todo>>
        /\ UNCHANGED <<settings, count, plan, batch, planner, links, dirs, stamped, consent>>

(* The order in which directories are stamped, as positions in dirs: "so   *)
(* the deepest directories are stamped before their parents".              *)
Depth(i) == Cardinality(Above[dirs[i].path])
Deeper(i, j) == Depth(i) > Depth(j) \/ (Depth(i) = Depth(j) /\ i < j)
\* Mutant: every backend stamps in archive order.
StampOrderAsRead == [i \in DOMAIN dirs |-> i]
StampOrder ==
    LET last == Len(dirs)
    IN  CASE backend.stamping = "reverse" -> [i \in 1 .. last |-> last + 1 - i]
          [] backend.stamping = "deepest" ->
                CHOOSE s \in [1 .. last -> 1 .. last] :
                    \A i, j \in 1 .. last : i < j => Deeper(s[i], s[j])
          [] OTHER -> [i \in 1 .. last |-> i]

(* A directory is stamped if it is still there and no directory above it   *)
(* has been stamped with a mode that forbids to search it.                 *)
Closed == {dirs[StampOrder[j]].path : j \in {k \in 1 .. stamped : dirs[StampOrder[k]].mode = "closed"}}
Stamp ==
    LET p == dirs[StampOrder[stamped + 1]].path
    IN  /\ pc = "link" /\ todo = <<>> /\ stamped < Len(dirs)
        /\ CASE Above[p] \cap Closed # {} -> pc' = "shut" /\ UNCHANGED stamped
             [] Above[p] \cap Closed = {} /\ Exists(p) -> stamped' = stamped + 1 /\ UNCHANGED pc
             [] OTHER -> pc' = "failed" /\ UNCHANGED stamped
        /\ UNCHANGED <<settings, disk, count, plan, batch, planner, links, todo, dirs,
                       written, consent>>

Return ==
    /\ pc = "link" /\ todo = <<>> /\ stamped = Len(dirs)
    /\ pc' = "ok"
    /\ UNCHANGED <<settings, disk, count, plan, batch, planner, deferred, written, consent>>

\* A cancellation or an error of the archive or the disk, at any point.
Abort ==
    /\ pc \notin {"ok", "failed", "refused", "shut"}
    /\ Fail
    /\ UNCHANGED <<settings, count, plan, batch, planner, deferred, written, consent>>

Next ==
    \/ \E e \in archive : Skip(e) \/ SkipByPrompt(e) \/ Plan(e) \/ Refuse(e)
    \/ TakeNext \/ Open \/ Copied \/ Remove \/ Place
    \/ Finish \/ MakeLink \/ Stamp \/ Return
    \/ Abort

Spec == Init /\ [][Next]_vars

-----------------------------------------------------------------------------
\* The kinds of nodes and the planner's sets; and the budgets: the counters
\* stay below their limits and cover the files and nodes written, because each
\* is charged before the write it pays for.
TypeOK ==
    /\ disk \in [Path -> Node]
    /\ pc \in {"read", "write", "clear", "open", "copy", "remove", "place", "link", "ok",
              "failed", "refused", "shut"}
    /\ count \in 0 .. ArchiveSize
    /\ plan = NoPlan \/ (plan.entry \in archive /\ plan.dest \in Path)
    /\ seen \cup symlinks \cup required \subseteq {Key[p] : p \in Path}
    /\ \A p \in Path : renames[p] \in 1 .. Len(Candidate[p]) + 1
    /\ reserved.entries \in 0 .. limits.entries /\ reserved.bytes \in 0 .. limits.bytes
    /\ Cardinality({x \in written : x.node.kind = "file"
                                      /\ x.dest \notin {links[i].dest : i \in DOMAIN links}})
          <= limits.bytes
    /\ Cardinality(written) + Len(todo) <= limits.entries

(* What was at the destination before is changed only where the caller     *)
(* allowed it: at the path of an entry, and below it, under Replace or     *)
(* where the resolver of Ask said so - at every moment, also when the      *)
(* extraction fails half way.  7z "plans every entry before any writes so  *)
(* a safety error leaves no partial extraction": where all entries are     *)
(* planned first, a refusal finds the destination as it was.               *)
Touchable(p) == consent \cap (Above[p] \cup {p}) # {}
UserFilesKept ==
    /\ \A p \in Path : before[p] # Absent /\ ~ Touchable(p) => disk[p] = before[p]
    /\ backend.planning = "all" /\ pc = "refused" => disk = before

(* When a write or a deferred hard link is carried out, no directory above *)
(* its destination is a symbolic link, nor is the source of a hard link or *)
(* a directory above it: entries between the plan and the link have not    *)
(* put one there.                                                          *)
Direct(p) == \A a \in Above[p] : ~ Is(a, "link")
NoTraversal ==
    /\ pc \in {"clear", "open", "copy", "remove", "place"} => Direct(plan.dest)
    /\ pc = "link" /\ todo # <<>> =>
          LET l == links[Head(todo)]
          IN  Direct(l.dest) /\ Direct(l.source) /\ ~ Is(l.source, "link")

\* No other deferred link is made at the destination of link i, above it or, but
\* for one, at its source.
Unbarred(i) == \A j \in DOMAIN links : links[j].dest \notin Above[links[i].dest]
Sole(i) ==
    /\ \A j \in DOMAIN links : links[j].dest = links[i].dest => j = i
    /\ \A j, k \in Producers(links, i) : j = k

(* Unless it may replace, an extraction never disturbs what it wrote       *)
(* itself: no entry, rename or deferred link takes the place of an earlier *)
(* one, even with names that differ only in case or look like a rename.    *)
(* A successful one has made every deferred link, in an order in which     *)
(* each is a second name for the file that is at its source in the end     *)
(* (if no other link took the place of either, or of a directory above).   *)
WrittenIsKept ==
    /\ policy \in {"refuse", "rename"} => \A x \in written : disk[x.dest] = x.node
    /\ pc = "ok" =>
          \A i \in DOMAIN links :
              Unbarred(i) =>
                  /\ ~ Is(links[i].dest, "absent")
                  /\ Sole(i) /\ Is(links[i].source, "file") =>
                        disk[links[i].dest] = disk[links[i].source]

(* deferred_link_dependency_order: the order makes each link once and      *)
(* after the link that produces its source; it is refused only if no order *)
(* could do that, because the links form a cycle.                          *)
OrderIsSound ==
    LET order == DeferredLinkOrder(links)
    IN  IF OrderFound(links)
          THEN order \in Arrangements(links) /\ Respects(links, order)
          ELSE \A s \in Arrangements(links) : ~ Respects(links, s)

(* The pass that stamps the directories is not shut out by a mode it has   *)
(* set itself: never when the deepest come first, and where it follows the *)
(* archive, forwards or backwards, only if the archive has the directories *)
(* in an unsuitable order.                                                 *)
Within(i, j) == dirs[j].path \in Above[dirs[i].path]
StampingCompletes ==
    pc = "shut" =>
        CASE backend.stamping = "reverse" -> \E i, j \in DOMAIN dirs : i < j /\ Within(i, j)
          [] backend.stamping = "archive" -> \E i, j \in DOMAIN dirs : j < i /\ Within(i, j)
          [] OTHER -> FALSE
=============================================================================
