--------------------------- MODULE IdentityStore ---------------------------
(***************************************************************************)
(* The local identity store of one account: a public catalogue file that   *)
(* names private keys by opaque references, a secret store that holds the  *)
(* keys, and the write journal that ties the two together over crashes.    *)
(*                                                                         *)
(*   zmanager-core/src/auth/identity_write_journal.rs   journal, recovery  *)
(*   zmanager-core/src/auth/identity_catalog_adapter.rs save and load      *)
(*   zmanager-core/src/auth/identity_catalog.rs         catalogue file     *)
(*   zmanager-core/src/auth/local_identity_store.rs     file facade        *)
(*   zmanager-tzap-hosted/src/auth/keyring_store.rs     native facade      *)
(*                                                                         *)
(* Processes share the three files and the secret store.  Each runs        *)
(* load_inventory, save_inventory or clear_inventory; every file or secret *)
(* store access is a step of its own, and a process may crash between any  *)
(* two of them.  The acquisition of the catalogue's own lock file is one   *)
(* step here, because only the holder of the journal's OS lock gets that   *)
(* far.                                                                    *)
(***************************************************************************)
EXTENDS Naturals, FiniteSets, Functions

CONSTANTS
    Proc,         \* processes that use the store
    Key,          \* identities of the inventory (signing and recipient keys)
    Ref,          \* secret references: TzapSecretRef::generate
    NoRef,        \* the catalogue has no entry for a key
    NoProc,       \* nobody holds the journal's OS lock
    Damaged,      \* keys whose catalogue entry no longer parses
    SecretsFirst, \* TRUE: the native facade's clear_inventory, FALSE: the file one's
    MaxRevision,  \* bound on catalogue revisions
    MaxFaults     \* bound on crashes and failed accesses

ASSUME RefAssumption == NoRef \notin Ref
ASSUME ProcAssumption == NoProc \notin Proc
ASSUME DamagedAssumption == Damaged \subseteq Key
ASSUME FlagAssumption == SecretsFirst \in BOOLEAN
ASSUME BoundAssumption == MaxRevision \in Nat /\ MaxFaults \in Nat

VARIABLES
    catalog,    \* the catalogue file: revision (0: no file) and references
    secrets,    \* the references under which material is stored
    journal,    \* the references in the journal file ({}: no file)
    flock,      \* holder of the OS lock on the journal's lock file
    catLock,    \* the catalogue's lock file: "free", "young" or "stale"
    pc,         \* where each process is
    local,      \* each process's local variables
    faults,     \* crashes and failed accesses so far
    generated,  \* every reference generated so far
    published,  \* every reference a catalogue has named so far
    raced       \* a clear_inventory overlapped a writer or stopped half way

vars == <<catalog, secrets, journal, flock, catLock, pc, local, faults,
          generated, published, raced>>
disk == <<catalog, secrets, journal, catLock>>
ghosts == <<generated, published, raced>>

RefMap == [Key -> Ref \cup {NoRef}]
Catalog == [rev : Nat, ref : RefMap]
NoEntry == [k \in Key |-> NoRef]
NoCatalog == [rev |-> 0, ref |-> NoEntry]

\* The references a catalogue publishes.
RefsIn(refs) == {refs[k] : k \in Key} \ {NoRef}
PublishedReferences(c) == RefsIn(c.ref)

SavePC == {"journal_open", "recovering", "refs", "build", "put", "check",
           "write", "unlock", "obsolete", "rollback", "deleting"}
ClearPC == {"clear_secrets"}
LoadPC == {"load_open", "read", "resolve"}
PC == {"idle"} \cup SavePC \cup ClearPC \cup LoadPC

Idle == [saving |-> FALSE, inv |-> {}, known |-> {}, existing |-> NoCatalog,
         next |-> NoEntry, todo |-> {}, written |-> {}, failed |-> FALSE]
Local == [saving : BOOLEAN, inv : SUBSET Key, known : SUBSET Ref,
          existing : Catalog, next : RefMap, todo : SUBSET Ref,
          written : SUBSET Ref, failed : BOOLEAN]

Init ==
    /\ catalog = NoCatalog
    /\ secrets = {}
    /\ journal = {}
    /\ flock = NoProc
    /\ catLock = "free"
    /\ pc = [p \in Proc |-> "idle"]
    /\ local = [p \in Proc |-> Idle]
    /\ faults = 0
    /\ generated = {}
    /\ published = {}
    /\ raced = FALSE

-----------------------------------------------------------------------------
(* Steps of a process *)

Goto(p, l) == pc' = [pc EXCEPT ![p] = l]
Set(p, l, r) == Goto(p, l) /\ local' = [local EXCEPT ![p] = r]
Return(p) == Set(p, "idle", Idle)
Unlocked(p) == IF flock = p THEN NoProc ELSE flock
Fault == faults < MaxFaults /\ faults' = faults + 1
NoFault == UNCHANGED faults

Clearing == \E q \in Proc : pc[q] \in ClearPC

\* build_catalog_from_inventory generates references: new and distinct.
FreshRefs(keys) ==
    {f \in [keys -> Ref \ generated] : IsInjective(f)}

(* save_inventory *)

\* PendingWrites::open.  A held lock is ConcurrentWrite: nothing changes.
\* (Bounds: the revision, and enough references left for the inventory.)
OpenForSave(p) ==
    /\ pc[p] = "idle"
    /\ flock = NoProc
    /\ catalog.rev < MaxRevision
    /\ flock' = p
    /\ raced' = (raced \/ Clearing)
    /\ \E inv \in {i \in SUBSET Key : FreshRefs(i) # {}} :
          Set(p, "journal_open", [Idle EXCEPT !.saving = TRUE, !.inv = inv])
    /\ UNCHANGED <<disk, generated, published>> /\ NoFault

\* Mutant: recovery that does not consult the catalogue.
RecoverBeginBlindly(p) ==
    /\ pc[p] = "journal_open"
    /\ Set(p, "recovering", [local[p] EXCEPT !.todo = journal])
    /\ UNCHANGED <<disk, flock, ghosts>> /\ NoFault

\* PendingWrites::recover reads the catalogue before it deletes anything.
RecoverBegin(p) ==
    /\ pc[p] = "journal_open"
    /\ Set(p, "recovering",
           [local[p] EXCEPT !.todo = journal \ PublishedReferences(catalog)])
    /\ UNCHANGED <<disk, flock, ghosts>> /\ NoFault

RecoverDelete(p) ==
    /\ pc[p] = "recovering"
    /\ \E r \in local[p].todo :
          /\ secrets' = secrets \ {r}
          /\ Set(p, "recovering", [local[p] EXCEPT !.todo = @ \ {r}])
    /\ UNCHANGED <<catalog, journal, catLock, flock, ghosts>> /\ NoFault

\* PendingWrites::clear ends recovery.  A load then drops the lock.
RecoverClear(p) ==
    /\ pc[p] = "recovering"
    /\ local[p].todo = {}
    /\ journal' = {}
    /\ IF local[p].saving
          THEN Goto(p, "refs") /\ UNCHANGED flock
          ELSE Goto(p, "read") /\ flock' = NoProc
    /\ UNCHANGED <<catalog, secrets, catLock, local, ghosts>> /\ NoFault

\* An unreadable catalogue or a denied deletion: the journal is kept.
RecoverFail(p) ==
    /\ pc[p] \in {"journal_open", "recovering"}
    /\ Fault
    /\ Return(p)
    /\ flock' = NoProc
    /\ UNCHANGED <<disk, ghosts>>

\* published_references for the journalled secret store.
ReadPublished(p) ==
    /\ pc[p] = "refs"
    /\ Set(p, "build", [local[p] EXCEPT !.known = PublishedReferences(catalog)])
    /\ UNCHANGED <<disk, flock, ghosts>> /\ NoFault

\* A key keeps its stored reference when its entry is intact.
Reuses(inv, existing) ==
    {k \in inv \ Damaged : existing.ref[k] # NoRef}

\* A damaged entry that the inventory does not replace is carried over.
Retains(inv, existing) ==
    {k \in Damaged \ inv : existing.ref[k] # NoRef}

\* Mutant: the next catalogue has an entry for the inventory's keys only.
NextRefsOfInventory(inv, existing, fresh) ==
    [k \in inv |-> IF k \in Reuses(inv, existing) THEN existing.ref[k] ELSE fresh[k]]

NextRefs(inv, existing, fresh) ==
    [k \in Key |->
        IF k \in Reuses(inv, existing) \cup Retains(inv, existing)
        THEN existing.ref[k]
        ELSE IF k \in inv THEN fresh[k] ELSE NoRef]

\* The front half of store_inventory_as_catalog, up to its first write: the
\* material of a reused key must resolve, or the save fails.
BuildCatalog(p) ==
    /\ pc[p] = "build"
    /\ LET inv == local[p].inv
           reused == Reuses(inv, catalog)
       IN \/ /\ {catalog.ref[k] : k \in reused} \subseteq secrets
             /\ \E fresh \in FreshRefs(inv \ reused) :
                   LET next == NextRefs(inv, catalog, fresh)
                   IN /\ Set(p, "put",
                             [local[p] EXCEPT !.existing = catalog, !.next = next,
                                              !.todo = {next[k] : k \in inv}])
                      /\ generated' = generated \cup Range(fresh)
             /\ UNCHANGED flock
          \/ /\ ~({catalog.ref[k] : k \in reused} \subseteq secrets)
             /\ Return(p)
             /\ flock' = NoProc
             /\ UNCHANGED generated
    /\ UNCHANGED <<disk, published, raced>> /\ NoFault

\* JournaledSecrets::put_at, first half: a reference that is not published
\* reaches the journal file before its material reaches the secret store.
Record(p) ==
    /\ pc[p] = "put"
    /\ \E r \in local[p].todo \ (local[p].known \cup journal) :
          journal' = journal \cup {r}
    /\ UNCHANGED <<catalog, secrets, catLock, flock, pc, local, ghosts>>
    /\ NoFault

\* Mutant: material is stored whether or not the journal has its reference.
PutUnjournalled(p) ==
    /\ pc[p] = "put"
    /\ \E r \in local[p].todo :
          /\ secrets' = secrets \cup {r}
          /\ Set(p, "put", [local[p] EXCEPT !.todo = @ \ {r},
                                           !.written = @ \cup {r}])
    /\ UNCHANGED <<catalog, journal, catLock, flock, ghosts>> /\ NoFault

\* ... second half: the material is stored, and remembered for a rollback
\* when the catalogue that was read does not name it (store_catalog_secret).
PutSecret(p) ==
    /\ pc[p] = "put"
    /\ \E r \in local[p].todo \cap (local[p].known \cup journal) :
          /\ secrets' = secrets \cup {r}
          /\ Set(p, "put", [local[p] EXCEPT
                 !.todo = @ \ {r},
                 !.written = @ \cup
                     ({r} \ PublishedReferences(local[p].existing))])
    /\ UNCHANGED <<catalog, journal, catLock, flock, ghosts>> /\ NoFault

\* Recording or storing fails.  A failed store may have stored all the same
\* (the secret service can finish a call whose answer is lost).
PutFail(p) ==
    /\ pc[p] = "put"
    /\ local[p].todo # {}
    /\ Fault
    /\ \/ UNCHANGED secrets
       \/ \E r \in local[p].todo \cap (local[p].known \cup journal) :
             secrets' = secrets \cup {r}
    /\ Goto(p, "rollback")
    /\ UNCHANGED <<catalog, journal, catLock, flock, local, ghosts>>

\* Mutant: an old lock file refuses the write like a young one.
AcquireNeverSteals(p) ==
    /\ pc[p] = "put"
    /\ local[p].todo = {}
    /\ IF catLock # "free"
          THEN Goto(p, "rollback") /\ UNCHANGED catLock
          ELSE Goto(p, "check") /\ catLock' = "young"
    /\ UNCHANGED <<catalog, secrets, journal, local, flock, ghosts>> /\ NoFault

\* acquire_catalog_lock under the journal's lock: a young lock file refuses
\* the write, an old one is taken over.
AcquireCatalogLock(p) ==
    /\ pc[p] = "put"
    /\ local[p].todo = {}
    /\ IF catLock = "young"
          THEN Goto(p, "rollback") /\ UNCHANGED catLock
          ELSE Goto(p, "check") /\ catLock' = "young"
    /\ UNCHANGED <<catalog, secrets, journal, local, flock, ghosts>> /\ NoFault

\* save_catalog compares revisions under the lock.
CheckRevision(p) ==
    /\ pc[p] = "check"
    /\ IF catalog.rev = local[p].existing.rev
          THEN Goto(p, "write") /\ UNCHANGED catLock
          ELSE Goto(p, "rollback") /\ catLock' = "free"
    /\ UNCHANGED <<catalog, secrets, journal, local, flock, ghosts>> /\ NoFault

\* The catalogue cannot be read back: the `?` leaves the lock file behind.
CheckFail(p) ==
    /\ pc[p] = "check"
    /\ Fault
    /\ Goto(p, "rollback")
    /\ UNCHANGED <<disk, local, flock, ghosts>>

Replacement(p) ==
    [rev |-> local[p].existing.rev + 1, ref |-> local[p].next]

Publish(p) ==
    /\ catalog' = Replacement(p)
    /\ published' = published \cup RefsIn(local[p].next)

\* write_catalog_atomically: one rename.
WriteCatalog(p) ==
    /\ pc[p] = "write"
    /\ Publish(p)
    /\ Goto(p, "unlock")
    /\ UNCHANGED <<secrets, journal, catLock, local, flock, generated, raced>>
    /\ NoFault

\* It fails, and may have committed: the caller cannot tell.
WriteFail(p) ==
    /\ pc[p] = "write"
    /\ Fault
    /\ \/ Publish(p)
       \/ UNCHANGED <<catalog, published>>
    /\ Set(p, "unlock", [local[p] EXCEPT !.failed = TRUE])
    /\ UNCHANGED <<secrets, journal, catLock, flock, generated, raced>>

\* Mutant: every old reference counts as obsolete, reused ones included.
ObsoleteAll(p) == PublishedReferences(local[p].existing)

Obsolete(p) ==
    PublishedReferences(local[p].existing) \ RefsIn(local[p].next)

RemoveCatalogLock(p) ==
    /\ pc[p] = "unlock"
    /\ catLock' = "free"
    /\ IF local[p].failed
          THEN Goto(p, "rollback") /\ UNCHANGED local
          ELSE Set(p, "obsolete", [local[p] EXCEPT !.todo = Obsolete(p)])
    /\ UNCHANGED <<catalog, secrets, journal, flock, ghosts>> /\ NoFault

\* Deletions after the commit.  A failed one is ignored: the secret stays.
DeleteObsolete(p) ==
    /\ pc[p] = "obsolete"
    /\ \E r \in local[p].todo :
          /\ \/ secrets' = secrets \ {r} /\ NoFault
             \/ UNCHANGED secrets /\ Fault
          /\ Set(p, "obsolete", [local[p] EXCEPT !.todo = @ \ {r}])
    /\ UNCHANGED <<catalog, journal, catLock, flock, ghosts>>

\* The journal is removed last, then the OS lock is dropped.  The removal may
\* fail: the save then reports an error and leaves the journal.
FinishSave(p) ==
    /\ pc[p] = "obsolete"
    /\ local[p].todo = {}
    /\ \/ journal' = {} /\ NoFault
       \/ UNCHANGED journal /\ Fault
    /\ Return(p)
    /\ flock' = NoProc
    /\ UNCHANGED <<catalog, secrets, catLock, ghosts>>

\* Mutant: rollback that trusts the reported failure and does not re-read.
RollbackWithoutReload(p) ==
    /\ pc[p] = "rollback"
    /\ Set(p, "deleting", [local[p] EXCEPT !.todo = local[p].written])
    /\ UNCHANGED <<disk, flock, ghosts>> /\ NoFault

\* The error path: what the catalogue now names is kept.  When it cannot be
\* read nothing is deleted.
RollbackBegin(p) ==
    /\ pc[p] = "rollback"
    /\ \/ /\ Set(p, "deleting", [local[p] EXCEPT
                 !.todo = local[p].written \ PublishedReferences(catalog)])
          /\ NoFault
       \/ /\ Set(p, "deleting", [local[p] EXCEPT !.todo = {}])
          /\ Fault
    /\ UNCHANGED <<disk, flock, ghosts>>

RollbackDelete(p) ==
    /\ pc[p] = "deleting"
    /\ \E r \in local[p].todo :
          /\ \/ secrets' = secrets \ {r} /\ NoFault
             \/ UNCHANGED secrets /\ Fault
          /\ Set(p, "deleting", [local[p] EXCEPT !.todo = @ \ {r}])
    /\ UNCHANGED <<catalog, journal, catLock, flock, ghosts>>

\* The error is returned; the journal is kept for the next recovery.
RollbackEnd(p) ==
    /\ pc[p] = "deleting"
    /\ local[p].todo = {}
    /\ Return(p)
    /\ flock' = NoProc
    /\ UNCHANGED <<disk, ghosts>> /\ NoFault
-----------------------------------------------------------------------------
(* load_inventory *)

\* recover_file_inventory_writes looks for the journal without the lock.
LoadBegin(p) ==
    /\ pc[p] = "idle"
    /\ Goto(p, IF journal = {} THEN "read" ELSE "load_open")
    /\ UNCHANGED <<disk, local, flock, ghosts>> /\ NoFault

LoadOpen(p) ==
    /\ pc[p] = "load_open"
    /\ IF flock = NoProc
          THEN /\ flock' = p
               /\ raced' = (raced \/ Clearing)
               /\ Goto(p, "journal_open")
          ELSE Goto(p, "idle") /\ UNCHANGED <<flock, raced>>
    /\ UNCHANGED <<disk, local, generated, published>> /\ NoFault

\* load_inventory_from_catalog holds no lock: the catalogue, then each secret.
ReadCatalog(p) ==
    /\ pc[p] = "read"
    /\ Set(p, "resolve", [local[p] EXCEPT !.existing = catalog,
                                          !.todo = PublishedReferences(catalog)])
    /\ UNCHANGED <<disk, flock, ghosts>> /\ NoFault

Resolve(p) ==
    /\ pc[p] = "resolve"
    /\ \E r \in local[p].todo \cap secrets :
          Set(p, "resolve", [local[p] EXCEPT !.todo = @ \ {r}])
    /\ UNCHANGED <<disk, flock, ghosts>> /\ NoFault

LoadEnd(p) ==
    /\ pc[p] = "resolve"
    /\ local[p].todo = {}
    /\ Return(p)
    /\ UNCHANGED <<disk, flock, ghosts>> /\ NoFault

\* TzapSecretStoreError::Missing fails the whole load.
LoadMissing(p) ==
    /\ pc[p] = "resolve"
    /\ ~(local[p].todo \subseteq secrets)
    /\ Return(p)
    /\ UNCHANGED <<disk, flock, ghosts>> /\ NoFault
-----------------------------------------------------------------------------
(* clear_inventory: takes neither lock *)

\* The file facade removes the catalogue, then the account's whole secret
\* directory; the native one deletes what the catalogue names, then the catalogue.
ClearBegin(p) ==
    /\ pc[p] = "idle"
    /\ raced' = (raced \/ flock # NoProc)
    /\ catalog' = IF SecretsFirst THEN catalog ELSE NoCatalog
    /\ Set(p, "clear_secrets", [Idle EXCEPT !.todo = PublishedReferences(catalog)])
    /\ UNCHANGED <<secrets, journal, catLock, flock, generated, published>>
    /\ NoFault

Doomed(p) == IF SecretsFirst THEN local[p].todo ELSE secrets

ClearSecret(p) ==
    /\ pc[p] = "clear_secrets"
    /\ \E r \in Doomed(p) :
          /\ secrets' = secrets \ {r}
          /\ Set(p, "clear_secrets", [local[p] EXCEPT !.todo = @ \ {r}])
    /\ UNCHANGED <<catalog, journal, catLock, flock, ghosts>> /\ NoFault

ClearEnd(p) ==
    /\ pc[p] = "clear_secrets"
    /\ Doomed(p) = {}
    /\ catalog' = IF SecretsFirst THEN NoCatalog ELSE catalog
    /\ Return(p)
    /\ UNCHANGED <<secrets, journal, catLock, flock, ghosts>> /\ NoFault

ClearFail(p) ==
    /\ pc[p] = "clear_secrets"
    /\ Fault
    /\ Return(p)
    /\ raced' = TRUE
    /\ UNCHANGED <<disk, flock, generated, published>>
-----------------------------------------------------------------------------
(* The environment *)

\* A crash loses the process's locals and its OS lock; files stay.
Crash(p) ==
    /\ pc[p] # "idle"
    /\ Fault
    /\ Return(p)
    /\ flock' = Unlocked(p)
    /\ raced' = (raced \/ pc[p] \in ClearPC)
    /\ UNCHANGED <<disk, generated, published>>

\* LOCK_STALE_AFTER_SECONDS pass, whether or not the owner is alive.
LockAges ==
    /\ catLock = "young"
    /\ catLock' = "stale"
    /\ UNCHANGED <<catalog, secrets, journal, flock, pc, local, faults, ghosts>>

Save(p) ==
    \/ RecoverBegin(p) \/ RecoverDelete(p) \/ RecoverClear(p)
    \/ ReadPublished(p) \/ BuildCatalog(p) \/ Record(p) \/ PutSecret(p)
    \/ AcquireCatalogLock(p) \/ CheckRevision(p) \/ WriteCatalog(p)
    \/ RemoveCatalogLock(p) \/ DeleteObsolete(p) \/ FinishSave(p)
    \/ RollbackBegin(p) \/ RollbackDelete(p) \/ RollbackEnd(p)
Load(p) ==
    \/ LoadOpen(p) \/ ReadCatalog(p) \/ Resolve(p) \/ LoadEnd(p)
    \/ LoadMissing(p)
Clear(p) == ClearSecret(p) \/ ClearEnd(p)
Start(p) == OpenForSave(p) \/ LoadBegin(p) \/ ClearBegin(p)
Fails(p) ==
    \/ RecoverFail(p) \/ PutFail(p) \/ CheckFail(p) \/ WriteFail(p)
    \/ ClearFail(p) \/ Crash(p)

Next ==
    \/ \E p \in Proc : Start(p) \/ Save(p) \/ Load(p) \/ Clear(p) \/ Fails(p)
    \/ LockAges

Spec == Init /\ [][Next]_vars

\* A process that has not crashed runs its operation to the end, and time
\* passes.  Nothing obliges a process to start another operation.
Fairness ==
    /\ \A p \in Proc : WF_vars(Save(p) \/ Load(p) \/ Clear(p))
    /\ WF_vars(LockAges)
FairSpec == Spec /\ Fairness
-----------------------------------------------------------------------------
(* Properties *)

\* Every variable keeps the shape of the file, lock or local it stands for.
TypeOK ==
    /\ catalog \in Catalog
    /\ secrets \in SUBSET Ref
    /\ journal \in SUBSET Ref
    /\ flock \in Proc \cup {NoProc}
    /\ catLock \in {"free", "young", "stale"}
    /\ pc \in [Proc -> PC]
    /\ local \in [Proc -> Local]
    /\ faults \in Nat
    /\ generated \in SUBSET Ref
    /\ published \in SUBSET Ref
    /\ raced \in BOOLEAN

\* store_inventory_as_catalog and recover: whatever crashes and failures
\* happen, every reference the catalogue names still resolves, as long as no
\* clear_inventory overlapped a writer or stopped half way.
PublishedResolvable ==
    ~raced /\ ~Clearing => PublishedReferences(catalog) \subseteq secrets

\* JournaledSecrets: no private key sits in the secret store without either a
\* journal entry that recovery will act on or a catalogue that named it once.
NoUntrackedSecret == secrets \subseteq journal \cup published

\* Recovery, rollback and the deletion of obsolete keys never remove a secret
\* that the current catalogue names: only clear_inventory does.
DeletesOnlyUnpublished ==
    [][\A r \in PublishedReferences(catalog) \cap secrets :
          r \notin secrets' => Clearing]_vars

\* load_inventory_from_catalog takes no lock, yet a load that fails on a
\* missing secret was overtaken: the catalogue it read has been replaced.
MissingMeansOvertaken ==
    [][\A p \in Proc : LoadMissing(p) /\ ~raced /\ ~Clearing
                          => catalog # local[p].existing]_vars

\* The journal is drained again and again as long as loads and saves keep
\* coming: a crashed or failed writer never blocks recovery for ever.
JournalDrains ==
    []<>(\E p \in Proc : pc[p] \in {"journal_open", "load_open"})
        => []<>(journal = {})

\* acquire_catalog_lock: a lock file left by a crashed writer does not refuse
\* every later save: as long as saves get that far, the lock is free again.
AbandonedLockIsTakenOver ==
    []<>(\E p \in Proc : pc[p] = "put" /\ local[p].todo = {})
        => []<>(catLock = "free")

\* PendingWrites::recover and acquire_catalog_lock: whatever a crash leaves
\* behind, the calls that follow clear the journal and take over the lock.
StoreRecovers == JournalDrains /\ AbandonedLockIsTakenOver
-----------------------------------------------------------------------------
(* The inductive invariant behind them *)

\* Exactly the process inside PendingWrites holds the OS lock.
LockInv == \A p \in Proc : flock = p <=> pc[p] \in SavePC

\* What is read as published was published.
PublishedInv ==
    /\ PublishedReferences(catalog) \subseteq published
    /\ \A p \in Proc : local[p].known \subseteq published

\* The catalogue carries the replacement, or was cleared since.
Committed(p) ==
    pc[p] = "obsolete" \/ (pc[p] = "unlock" /\ ~local[p].failed)

\* The work lists of the deleting and storing loops.
TodoInv == \A p \in Proc :
    /\ pc[p] \in {"recovering", "deleting"}
          => local[p].todo \cap PublishedReferences(catalog) = {}
    /\ pc[p] = "recovering"
          => journal \cap secrets \subseteq local[p].todo \cup published
    /\ pc[p] = "obsolete" => local[p].todo \cap RefsIn(local[p].next) = {}
    /\ pc[p] = "put" => local[p].todo \subseteq RefsIn(local[p].next)
    /\ pc[p] = "resolve"
          => local[p].todo \subseteq PublishedReferences(local[p].existing)

\* The journal lists references of the save in progress, and nothing else.
JournalInv == \A p \in Proc :
    /\ pc[p] \in {"refs", "build"} => journal = {}
    /\ pc[p] \in {"put", "check", "write", "unlock", "obsolete"}
          => journal \subseteq RefsIn(local[p].next)
    /\ Committed(p) => /\ RefsIn(local[p].next) \subseteq published
                       /\ PublishedReferences(catalog) \subseteq RefsIn(local[p].next)

\* Without a racing clear, what is about to be published is stored.
StoredInv == ~raced =>
    /\ flock # NoProc => ~Clearing
    /\ Clearing /\ ~SecretsFirst => catalog = NoCatalog
    /\ \A p \in Proc :
          /\ pc[p] = "put"
                => RefsIn(local[p].next) \subseteq secrets \cup local[p].todo
          /\ pc[p] \in {"check", "write"} => RefsIn(local[p].next) \subseteq secrets

SafetyInv == LockInv /\ PublishedInv /\ TodoInv /\ JournalInv /\ NoUntrackedSecret
IInv == TypeOK /\ SafetyInv /\ StoredInv /\ PublishedResolvable
=============================================================================
