--------------------------- MODULE ArchiveHandle ---------------------------
(***************************************************************************)
(* Archive handles of the engine (zmanager-core/src/engine): opening a     *)
(* source, the fingerprint a handle keeps of it, the session with the      *)
(* format adapter, the retained listing with its entry ids, and the        *)
(* operations, each of which validates the source after the adapter has    *)
(* run.  The archive and its sibling volumes are files that somebody else  *)
(* may replace, rewrite in place or remove between any two steps.          *)
(*                                                                         *)
(* A fingerprint (device, inode, length, modification time) is the inode   *)
(* and the version of its content: every replacement is a new inode and    *)
(* every rewrite a new version.  A source that returns to an earlier state *)
(* (a file moved away and back, put where none was and removed again, or   *)
(* rewritten with the same length and time) is outside of what the code    *)
(* can detect, and of this model.                                          *)
(***************************************************************************)
EXTENDS Naturals, FiniteSets

CONSTANTS
    Handles,
    Styles,      \* how sessions read: see Style
    Oversized,   \* versions whose length exceeds max_source_bytes
    MaxChanges,  \* bound: changes of the source files
    MaxCalls     \* bound: calls on all handles

Primary == "primary"
Sibling == "sibling"
Files   == {Primary, Sibling}
Missing == 0
None    == "none"

(* How the adapter of the format reads its source.                         *)
(*   retained  ZipReadSession: one descriptor for the session              *)
(*   volumes   the same over an explicit set of volumes (split ZIP)        *)
(*   fresh     native sessions: a new cursor for every pass; 7z and TZAP   *)
(*             discover the sibling volumes of their path                  *)
(*   decoded   compressed cpio: decoded once, the payload is kept          *)
Style == {"retained", "volumes", "fresh", "decoded"}

Inodes   == 0..(MaxChanges + 2)
Versions == 0..(MaxChanges + 2)

ASSUME HandleAssumption ==
    /\ Styles \subseteq Style
    /\ Oversized \subseteq Versions
    /\ MaxChanges \in Nat /\ MaxCalls \in Nat

VARIABLES
    style,    \* of the source's format
    disk,     \* file -> its inode, or Missing
    content,  \* inode -> the version of its content
    changes,  \* how many changes were made
    gone,     \* files that were missing once
    nextId,   \* NEXT_ENGINE_ENTRY_ID
    minted,   \* history: every id a listing gave out, with its handle
    hs,       \* handle -> its fields, and the call in progress
    calls     \* how many calls were made

vars == <<style, disk, content, changes, gone, nextId, minted, hs, calls>>

Operations == {"list", "test", "extract", "selected", "copy"}

Closed == [pc |-> "closed", op |-> None, fp |-> [f \in Files |-> <<Missing, 0>>],
           related |-> {}, unusable |-> FALSE, session |-> FALSE,
           fd |-> [f \in Files |-> Missing], payload |-> 0,
           listing |-> FALSE, ids |-> {}, todo |-> {}, same |-> TRUE,
           after |-> None, read |-> {}, res |-> None, gen |-> 0]
----------------------------------------------------------------------------
(* The source *)

(* ArchiveSource::paths *)
SourcePaths == IF style = "volumes" THEN Files ELSE {Primary}

(* discover_related_source_paths: an explicit volume set is never widened. *)
DiscoverRelated ==
    IF style = "fresh" /\ disk[Sibling] # Missing THEN {Sibling} ELSE {}

SourceFileFingerprint(f) == <<disk[f], content[disk[f]]>>

Init ==
    /\ style \in Styles
    /\ disk \in [Files -> {Missing, 1, 2}]
    /\ disk[Primary] \in {Missing, 1} /\ disk[Sibling] \in {Missing, 2}
    /\ content = [i \in Inodes |-> IF i \in {1, 2} THEN i ELSE 0]
    /\ changes = 0 /\ gone = {f \in Files : disk[f] = Missing} /\ nextId = 1 /\ minted = {} /\ calls = 0
    /\ hs = [h \in Handles |-> Closed]

Fresh == changes + 3

(* Another program puts a new file at the path, ...                        *)
Replace(f) ==
    /\ changes < MaxChanges
    /\ disk' = [disk EXCEPT ![f] = Fresh]
    /\ content' = [content EXCEPT ![Fresh] = Fresh]
    /\ changes' = changes + 1
    /\ UNCHANGED <<style, gone, nextId, minted, hs, calls>>

(* ... writes into the file that is there, ...                             *)
Rewrite(f) ==
    /\ changes < MaxChanges /\ disk[f] # Missing
    /\ content' = [content EXCEPT ![disk[f]] = Fresh]
    /\ changes' = changes + 1
    /\ UNCHANGED <<style, disk, gone, nextId, minted, hs, calls>>

(* ... or removes it, but not where no file was before.                    *)
Remove(f) ==
    /\ changes < MaxChanges /\ disk[f] # Missing /\ f \notin gone
    /\ disk' = [disk EXCEPT ![f] = Missing]
    /\ gone' = gone \cup {f}
    /\ changes' = changes + 1
    /\ UNCHANGED <<style, content, nextId, minted, hs, calls>>

Goes(h, r) ==
    /\ hs' = [hs EXCEPT ![h] = r]
    /\ UNCHANGED <<style, disk, content, changes, gone, nextId, minted, calls>>

(* The first step of a call.                                               *)
Calls(h, r) ==
    /\ calls < MaxCalls
    /\ calls' = calls + 1
    /\ hs' = [hs EXCEPT ![h] = r]
    /\ UNCHANGED <<style, disk, content, changes, gone, nextId, minted>>

(* A call that ends: only a successful one keeps what it read.             *)
Returns(r, res) ==
    [r EXCEPT !.pc = "idle", !.op = None, !.after = None, !.res = res,
              !.todo = {}, !.same = TRUE, !.read = IF res = "ok" THEN @ ELSE {}]

(* open returns an error and there is no handle. *)
NotOpened == [Closed EXCEPT !.res = "err"]
----------------------------------------------------------------------------
(* ArchiveEngine::open *)

(* detect_archive_format and the existence test: the path of a             *)
(* multi-volume archive need not be a file itself.                         *)
SourceExists == disk[Primary] # Missing \/ DiscoverRelated # {}

Open(h) ==
    /\ hs[h].pc = "closed"
    /\ Calls(h, IF SourceExists THEN [Closed EXCEPT !.pc = "opening", !.gen = calls]
                                           ELSE NotOpened)

OpenDiscovers(h) ==
    /\ hs[h].pc = "opening"
    /\ Goes(h, [hs[h] EXCEPT !.pc = "capturing", !.related = DiscoverRelated,
                             !.todo = SourcePaths \cup DiscoverRelated])

OpenFingerprints(h, f) ==
    /\ hs[h].pc = "capturing" /\ f \in hs[h].todo
    /\ Goes(h, [hs[h] EXCEPT !.todo = @ \ {f}, !.fp[f] = SourceFileFingerprint(f)])

(* All volumes of an explicit set must exist.                              *)
OpenCaptured(h) ==
    /\ hs[h].pc = "capturing" /\ hs[h].todo = {}
    /\ Goes(h, IF style = "volumes" /\ \E f \in Files : disk[f] = Missing
               THEN NotOpened
               ELSE [hs[h] EXCEPT !.pc = "measuring",
                                  !.todo = SourcePaths \cup hs[h].related])

(* length_hint_with_additional_paths: the logical path of a set of         *)
(* volumes may be missing; without any other file there is no length and   *)
(* no limit.                                                               *)
TooLarge(f) == disk[f] # Missing /\ content[disk[f]] \in Oversized
LogicalBase(h, f) == style # "volumes" /\ f = Primary /\ hs[h].related # {}

OpenMeasures(h, f) ==
    /\ hs[h].pc = "measuring" /\ f \in hs[h].todo
    /\ Goes(h, IF disk[f] = Missing /\ ~LogicalBase(h, f)
               THEN [hs[h] EXCEPT !.todo = {}, !.same = TRUE]
               ELSE [hs[h] EXCEPT !.todo = @ \ {f}, !.same = @ /\ ~TooLarge(f)])

(* The list adapter is looked up last; a format without one, or with       *)
(* another kind of source, is refused.                                     *)
OpenDone(h) ==
    /\ hs[h].pc = "measuring" /\ hs[h].todo = {}
    /\ Goes(h, IF hs[h].same THEN [hs[h] EXCEPT !.pc = "idle", !.res = "opened"]
                             ELSE NotOpened)

(* close and Drop: the session goes, with the payload it decoded.          *)
Close(h) ==
    /\ hs[h].pc = "idle"
    /\ Goes(h, Closed)
----------------------------------------------------------------------------
(* validate_source, a subroutine that goes on at `after' *)

Validate(r, after) == [r EXCEPT !.pc = "validating", !.after = after,
                                !.same = TRUE, !.todo = {}]

Poisoned(r) == Returns([r EXCEPT !.unusable = TRUE], "err")

ValidateDiscovers(h) ==
    /\ hs[h].pc = "validating"
    /\ LET r == hs[h]
       IN  Goes(h, IF DiscoverRelated # r.related THEN Poisoned(r)
                   ELSE [r EXCEPT !.pc = "comparing",
                                  !.todo = SourcePaths \cup r.related])

ValidateFingerprints(h, f) ==
    /\ hs[h].pc = "comparing" /\ f \in hs[h].todo
    /\ Goes(h, [hs[h] EXCEPT !.todo = @ \ {f},
                             !.same = @ /\ SourceFileFingerprint(f) = hs[h].fp[f]])

(* metadata fails for another reason than a missing file *)
ValidateFails(h) ==
    /\ hs[h].pc = "comparing" /\ hs[h].todo # {}
    /\ Goes(h, Poisoned(hs[h]))

(* The result of the adapter is recorded even when the source changed.     *)
Recorded(r) == [r EXCEPT !.unusable = @ \/ r.res = "unusable"]

ValidateDone(h) ==
    /\ hs[h].pc = "comparing" /\ hs[h].todo = {}
    /\ LET r == hs[h]
       IN  Goes(h, CASE ~r.same -> Poisoned(r)
                     [] r.same /\ r.after = "session" -> [r EXCEPT !.pc = "factory"]
                     [] r.same /\ r.after = "cached" -> Returns(r, "ok")
                     [] r.same /\ r.after = "finish" ->
                          Returns([Recorded(r) EXCEPT !.listing = @ \/ (r.op = "list" /\ r.res = "ok")],
                                  IF r.res = "ok" THEN "ok" ELSE "err"))
----------------------------------------------------------------------------
(* The calls *)

(* Mutant: the disposition is not looked at. *)
SessionForAny(r) ==
    IF r.session THEN [r EXCEPT !.pc = "adapter"] ELSE Validate(r, "session")

(* session_for: an unusable handle is refused, the first call opens the    *)
(* session after it has validated the source.                              *)
SessionFor(r) ==
    IF r.unusable THEN Returns(r, "err")
    ELSE IF r.session THEN [r EXCEPT !.pc = "adapter"]
    ELSE Validate(r, "session")

Begin(h, op) == [hs[h] EXCEPT !.op = op, !.res = None, !.read = {}]

(* A retained listing is returned after the source was validated, without  *)
(* a look at the disposition.                                              *)
List(h) ==
    /\ hs[h].pc = "idle" 
    /\ LET r == Begin(h, "list")
       IN  Calls(h, IF r.listing THEN Validate(r, "cached") ELSE SessionFor(r))

(* test and extract; a call that is already cancelled, or has no           *)
(* destination, returns at once and leaves the handle as it was.           *)
Whole(h, op, refused) ==
    /\ op \in {"test", "extract"}
    /\ hs[h].pc = "idle" 
    /\ LET r == Begin(h, op)
       IN  Calls(h, IF refused THEN Returns(r, "err") ELSE SessionFor(r))

(* extract_selected, extract_selected_many and copy_entry: an id that is   *)
(* not in the listing of this handle selects nothing.                      *)
Selected(h, op, id) ==
    /\ op \in {"selected", "copy"}
    /\ hs[h].pc = "idle" 
    /\ LET r == Begin(h, op)
       IN  Calls(h, IF id \notin r.ids THEN Returns(r, "err") ELSE SessionFor(r))

(* ReadAdapterFactory::open: ZIP opens its descriptors and parses the      *)
(* central directory, native sessions open nothing.                        *)
OpensNow == style \in {"retained", "volumes"}

OpenSession(h) ==
    /\ hs[h].pc = "factory"
    /\ LET r == hs[h]
       IN  IF OpensNow /\ \E f \in SourcePaths : disk[f] = Missing
           THEN Goes(h, Returns(r, "err"))
           ELSE Goes(h, [r EXCEPT !.pc = "adapter", !.session = TRUE,
                                  !.fd = IF OpensNow THEN disk ELSE @])

(* The central directory does not parse.                                   *)
OpenSessionFails(h) ==
    /\ hs[h].pc = "factory" /\ OpensNow
    /\ Goes(h, Poisoned(hs[h]))

(* What a pass of the adapter reads of a file: from the descriptor of the  *)
(* session, from the payload it decoded, or from the path as it is now.    *)
Passed(r, f) ==
    CASE OpensNow -> content[r.fd[f]]
      [] ~OpensNow /\ style = "decoded" /\ r.payload # 0 -> r.payload
      [] OTHER -> content[disk[f]]

AdapterReads(h, f) ==
    /\ hs[h].pc = "adapter" /\ f \in SourcePaths \cup hs[h].related
    /\ OpensNow \/ disk[f] # Missing \/ (style = "decoded" /\ hs[h].payload # 0)
    /\ LET v == Passed(hs[h], f)
       IN  Goes(h, [hs[h] EXCEPT !.read = @ \cup {<<f, v>>},
                                 !.payload = IF style = "decoded" THEN v ELSE @])

(* The adapter returns an error, which poisons the session when the data   *)
(* is corrupt (adapter_error).                                             *)
AdapterFails(h, res) ==
    /\ hs[h].pc = "adapter"
    /\ Goes(h, Validate([hs[h] EXCEPT !.res = res], "finish"))

HasReadAll(r) ==
    \A f \in SourcePaths \cup r.related :
        r.fp[f][1] # Missing => \E v \in Versions : <<f, v>> \in r.read

(* Mutant: the source is validated after failures only. *)
AdapterSucceedsUnchecked(h) ==
    /\ hs[h].pc = "adapter" /\ hs[h].op # "list" /\ HasReadAll(hs[h])
    /\ Goes(h, Returns(hs[h], "ok"))

AdapterSucceeds(h) ==
    /\ hs[h].pc = "adapter" /\ hs[h].op # "list" /\ HasReadAll(hs[h])
    /\ Goes(h, Validate([hs[h] EXCEPT !.res = "ok"], "finish"))

(* Mutants: the counter starts again for every listing, or one id too many *)
(* is taken.                                                               *)
EngineIdsOfListing(n) == 1..n
EngineIdsOneMore(n) == nextId..(nextId + n)

(* list: normalize_listing replaces the adapter's ids by new ones of the   *)
(* process-wide counter; an id the adapter gives twice makes the listing   *)
(* an unusable error that leaves the ids assigned before it.               *)
EngineIds(n) == nextId..(nextId + n - 1)

AdapterLists(h, n, duplicate) ==
    /\ hs[h].pc = "adapter" /\ hs[h].op = "list" /\ HasReadAll(hs[h])
    /\ duplicate => n > 0
    /\ hs' = [hs EXCEPT ![h] =
                Validate([hs[h] EXCEPT !.ids = EngineIds(n),
                                       !.res = IF duplicate THEN "unusable" ELSE "ok"],
                         "finish")]
    /\ nextId' = nextId + n
    /\ minted' = minted \cup (EngineIds(n) \X {<<h, hs[h].gen>>})
    /\ UNCHANGED <<style, disk, content, changes, gone, calls>>
----------------------------------------------------------------------------
Operation(h) ==
    \/ Open(h) \/ OpenDiscovers(h) \/ OpenCaptured(h) \/ OpenDone(h)
    \/ ValidateDiscovers(h) \/ ValidateFails(h) \/ ValidateDone(h)
    \/ \E f \in Files : \/ OpenFingerprints(h, f) \/ OpenMeasures(h, f)
                        \/ ValidateFingerprints(h, f) \/ AdapterReads(h, f)
    \/ List(h) \/ Close(h)
    \/ \E op \in Operations, refused \in BOOLEAN : Whole(h, op, refused)
    \/ \E op \in Operations, id \in 1..nextId : Selected(h, op, id)
    \/ OpenSession(h) \/ OpenSessionFails(h) \/ AdapterSucceeds(h)
    \/ \E res \in {"usable", "unusable"} : AdapterFails(h, res)
    \/ \E n \in 0..1, duplicate \in BOOLEAN : AdapterLists(h, n, duplicate)

Next ==
    \/ \E h \in Handles : Operation(h)
    \/ \E f \in Files : Replace(f) \/ Rewrite(f) \/ Remove(f)

Spec == Init /\ [][Next]_vars
----------------------------------------------------------------------------
(* Every variable keeps the shape of what it stands for, and a handle      *)
(* never holds an entry id that was not given out.                         *)
TypeOK ==
    /\ style \in Styles
    /\ disk \in [Files -> Inodes] /\ content \in [Inodes -> Versions]
    /\ gone \subseteq Files /\ changes \in 0..MaxChanges /\ calls \in 0..MaxCalls /\ nextId \in Nat \ {0}
    /\ \A h \in Handles :
         /\ hs[h].pc \in {"closed", "opening", "capturing", "measuring", "idle",
                          "validating", "comparing", "factory", "adapter"}
         /\ hs[h].res \in {None, "opened", "ok", "err", "usable", "unusable"}
         /\ hs[h].ids \subseteq 1..(nextId - 1)
         /\ hs[h].unusable \in BOOLEAN

Finished(h) == hs[h].pc = "idle" /\ hs[h].res = "ok"

(* However the source is replaced, rewritten or removed while a handle is  *)
(* opened and used, an operation that succeeds has read nothing but the    *)
(* files whose fingerprint the handle took when it was opened, also        *)
(* through a descriptor or a decoded payload an earlier operation left,    *)
(* and none of them exceeds the source limit that was checked against      *)
(* whatever was there at that moment.                                      *)
OkReadsOpenedSource ==
    \A h \in Handles : Finished(h) =>
        \A x \in hs[h].read : /\ hs[h].fp[x[1]][2] = x[2]
                              /\ x[2] \notin Oversized

(* A handle that became unusable stays so until it is closed, and the      *)
(* adapter is not called for it any more.                                  *)
UnusableIsFinal ==
    [][\A h \in Handles :
         hs[h].unusable /\ hs'[h].pc # "closed" =>
            /\ hs'[h].unusable
            /\ hs'[h].pc = "adapter" => hs[h].pc = "adapter"]_vars

(* An entry id selects an entry on the handle whose listing gave it out    *)
(* and on no other one, whatever handles are opened and closed.            *)
IdsAreSessionScoped ==
    /\ \A h \in Handles : \A id \in hs[h].ids : <<id, <<h, hs[h].gen>>>> \in minted
    /\ \A x \in minted, y \in minted : x[1] = y[1] => x = y
============================================================================
