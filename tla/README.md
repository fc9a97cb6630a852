# A verification project for ZManager

TLA+ models of the parts of ZManager in which several actors, failures or long
sequences of calls meet: the local identity store, the hosted login, device
certificates, contact lists, the LocalSend registry, atomic output files, volume
sets, archive handles, jobs, the extraction of archives and the trust in signed
ones. TLC checks the models on small instances; TLAPS proves every safety property
that the runs check, and one refinement, for every number of processes, devices,
requests, files and faults. Liveness is model-checked only.

Run `tlc -config <run>.cfg <module>` and `tlapm <Module>Proofs.tla` in this
directory. `PROJECT.json` lists components, runs, mutants, findings, hazards and
theorems, and maps every definition to the lines of code it stands for.

## 1. Inventory

ZManager is an archiver (`zm`) with a library core, a foreign function interface
for the desktop and mobile shells, hosted TZAP identities and LocalSend transfers.

| Component | State it keeps | Operations | What makes it hard | Module |
|---|---|---|---|---|
| Identity store (`core/auth/identity_*`, `local_identity_store`, `hosted/auth/keyring_store`) | catalogue file, secret store, write journal, two lock files, a process-wide cache | save, load and clear an inventory; recovery | processes share the files; crashes between the file and the secret store; commits with an unknown outcome | IdentityStore |
| Hosted login (`auth_flow_store`, `tzap_service`, `auth_client`) | pointer file, secure record, session record, OS lock | login, restart, callback, forget | one call starts a flow and another process ends it; a one-time code | AuthFlow |
| Device certificates (`certificate_lifecycle`, `enrollment_client`) | inventory with keys, certificates and pending operations; the server's certificates | enroll, renew, resume, reconcile, revoke | lost and late answers; load, call and save are not atomic | CertificateLifecycle |
| Contact snapshots (`core/auth/contact_snapshot`, `hosted/auth/backup_client`) | contacts, tombstones, a versioned remote blob | build, merge, upload, apply | devices diverge; tombstones are pruned | ContactSync, ContactRegister |
| LocalSend registry (`zmanager-localsend/registry`) | receiver, discovery, event queue, pending requests, confirmed devices | start, stop, sweep, poll, respond, send, cancel | shell threads, pump tasks and the network around one mutex that is released often | LocalSendRegistry |
| Atomic output (`core/atomic_file`) | temporary siblings, the final path | create, write, commit (four ways), drop; secret files | name collisions, cancellation, crash, power loss | AtomicOutput |
| Volume sets (`zip_split`, `sevenz_volume`, `archive_split`, `tzap/write`) | one temporary file per volume, the old set | list, write, split, remove, commit; discover | a set is published volume by volume | VolumeSet |
| Jobs (`core/jobs`, the progress of adapters and of the TZAP writer) | counters, coalescer, phases, the consumer's projection | activity, phases, cancel, finish | batches, phases and terminal events must agree | JobProgress, CreateJob |
| Archive engine (`core/engine`) | handle, session, cached listing, entry ids, fingerprint of the source | open, list, extract, copy, close | the source changes under an open handle | ArchiveHandle |
| Extraction (`core/safety`, `extract_loop`, `extract_materialize`, the loops of the backends) | the planner's sets and counters, deferred links and directories, the destination | validate, write, link, stamp | entries interact: names, links and renames of one entry with later ones | Extraction, Backends, LinkOrder |
| Signing and trust (`tzap/x509`, `tzap/verification`, `tzap/display`, `status_client`, the default identity of the catalogue) | default identity, resolved signer, a held status answer | choose, sign, verify, classify | stale answers, clocks, volumes and certificates that change between two looks | ArchiveTrust |
| Transport (`auth_client`, `http_client`, `reqwest_transport`), loopback listener, intermediate cache | deadlines, retry counters, files | send, retry, accept | timeouts against late answers | inputs of the modules above |
| Formats, decoders, TZAP container, documents and cards, CLI, FFI | positions in a stream | parse, write | sequential | - |

Components call each other as follows. The certificate lifecycle and contact
snapshots load and save whole inventories through the identity store, and each
save decides the default signing identity anew. The identity store writes its
catalogue, and the login its secrets, through the atomic file code. Extraction
writes every regular file through it, and volume sets are several of its files
committed in a row. The engine drives extraction and creation inside a job, whose
cancellation token is read between entries and chunks. An archive is signed with
a certificate of the inventory and judged by the status its issuer reports. The
shells reach all of it through JSON calls, from any thread.

What makes each component correct, where it is modelled, is section 3; what can
go wrong, line by line, is the list of hazards in `PROJECT.json`.

## 2. Plan

Done, in this order: `IdentityStore` and its proofs; `AuthFlow`,
`CertificateLifecycle`, `LocalSendRegistry`; `AtomicOutput`, `LinkOrder` and
`Extraction`, first for TAR and then for the profiles of `Backends`;
`ContactRegister` and `ContactSync`, which implements it; `ArchiveHandle`;
`JobProgress`, `VolumeSet` and their composition `CreateJob`; `ArchiveTrust`.

The proofs followed: `IdentityStore`, `AtomicOutput`, `AuthFlow`, `ContactSync` with
its refinement of `ContactRegister`, `ArchiveHandle`, `ArchiveTrust`,
`LocalSendRegistry`, `Extraction` with `LinkOrder`, `CertificateLifecycle`, and
`VolumeSet` and `JobProgress` in their composition `CreateJob` (section 5).

Open, the most useful first:

1. An abstract store, one inventory that is replaced in one step, that
   `IdentityStore` implements.
2. The replacements that RAR moves aside and back (`rar_backend.rs`), as one more
   loop over the planner of `Extraction`.
3. The keyring cache, once the store is a refinement: it is a second copy of the
   secrets with its own lock.

## 3. The modules

Each MC module gives the constants of its module values for TLC. An action is
one storage access, network call, system call or critical section; what the code
does between two of them belongs to the action. Operators marked `Mutant`, or
named after a definition they precede with one word more, are faulty variants of
it. They are used to see that each property can fail, and are in no
specification. A property that conjoins several named parts is explained by them.

### IdentityStore

`IdentityStore` follows processes through `load_inventory`, `save_inventory` and
`clear_inventory`. `catalog`, `secrets`, `journal` are the three durable things,
`flock` the OS lock of the journal, `catLock` the catalogue's lock file. A save
opens the journal (which recovers what a crashed writer left), reads the
published catalogue, builds the next one, records new references in the journal,
stores the secrets, publishes, deletes obsolete secrets and clears the journal. `WriteFail` is a
commit that is reported as failed although it may have happened. Key material is
a reference. `SecretsFirst` selects the order in which the two facades clear.

Properties: every published key resolves (`PublishedResolvable`), no private key
lies in the secret store that neither the journal nor a published catalogue
knows of (`NoUntrackedSecret`), only clear deletes published keys, a load
without lock misses a key only if it was overtaken, and the store recovers
(`StoreRecovers`: the journal drains, an abandoned lock is taken over).
`clear_inventory` takes no lock: the first property excludes behaviours in which
it overlapped a writer or stopped half way (ghost variable `raced`), which is a
restriction of the promise and not of the model.

The catalogue's own lock file is taken in one step (`AcquireCatalogLock`), because the
writers of this repository reach it with the journal's OS lock held. Outside of
that lock it would not be enough: it is taken over by age alone and removed by
path, so a slow writer can lose it between its revision check and its rename.
The cache of resolved keyring secrets in one process is left out.

Bounds: two processes, two keys of which one has a damaged entry, two references,
revisions up to 2, two faults, in the native facade (`SecretsFirst`); the file
facade differs in the order of a clear, which the proofs cover for safety.
Two processes meet in every pair of steps, and a second fault hits the recovery
from the first. Fairness: a process that did not crash finishes its call, and
time passes (locks age); nobody has to start a call, so the two liveness
properties assume that calls keep coming.

### AuthFlow

One account slot and processes of two applications. `metadata` is the pointer
file, `secure` the record with the verifier, `session` the stored session, named
by the flow it came from. `sent` counts transmissions of a flow's one-time code.
Every call holds the slot lock; `Abort` ends one at any access. Checked: the slot
is sound (`SlotIsSound`: the code leaves at most once, verifiers stay tracked and
the secure record is never behind the pointer, success is reported for the own
flow only, forget forgets), sessions do not regress, and a login with restart
repairs every interrupted state.
Bounds: three processes (two of one application), three logins, two faults: a crash
and a second one in the call that repairs its effects. Fairness: a started call runs on.

### CertificateLifecycle

`atServer` is the hosted service (external: modelled from the answers the client
expects), `wire` the submissions on their way, `inv` the saved inventory. The
client journals an operation, submits it and reconciles after a lost answer.
`Issue` and `Decline` serve a submission, in some scenarios even after its sender
gave up (`late` records that this became possible). A scenario of `Scenarios`
fixes the processes, the keys of the inventory at the start, whether requests may
be late, and the number of faults.

With one process at a time (`Single`), `InventoryIsTrue`: an active certificate is
known or journalled and a superseded one is not active here, unless a request
outlived its call, and one device has one key; and `CertificatesSettle`: what was
issued is found and what was blocked is released, whatever was lost or late. A
predecessor that is revoked while its renewal is pending is the exception
(`Stuck`): reconciliation then answers "pending" at every call, which the
repository's tests pin down. With any number of processes, `BlockedHasOperation`:
no certificate is blocked without its journal entry. The rest of `InventoryIsTrue`
is not promised to overlapping calls: the inventory is loaded, changed and saved
without a lock, so two first enrollments that overlap each mint a device key
(`certificate_lifecycle.rs:919`, although its documentation at 856 promises one),
and a save of an older inventory can make a superseded certificate active again.

Bounds: two certificates (a predecessor and its replacement), two keys; one
process with three faults (two were too few to meet a late enrollment behind a
stuck renewal), starting without a key or with two, which reaches the refusal of
an ambiguous one; two processes with one fault. Fairness, for a process that is
alone: callers keep provisioning, the server serves, and a certificate that stays
active becomes due (strong fairness on the choice to renew, as the due date is a
fixed time that passes). Locals that no later step reads are cleared (`Needed`),
which keeps the number of states down and changes no behaviour.

### ContactRegister, ContactSync

`ContactRegister` is what a contact list promises: a register per contact that
the latest acceptance or removal wins, of which a device's view only moves
forward to something that was really accepted or removed, and may forget nothing
but a removal that is past its retention. `ContactSync` has the snapshots: merge,
build and apply, import of cards, aliases, bare keys, cards that stop verifying,
and the versioned backup of the server with fetch, PUT with If-Match, lost
answers and deletion. The application that calls these functions is not in the
repository; it is modelled from their contract (fetch, merge, PUT, once more on
412, apply). `ImplementsRegister` is the refinement. `tzap_contact_remove_json`
(`tzap_service.rs:1299`) removes a contact without a tombstone, so that the next
synchronisation brings it back, although `local_identity_store.rs:27` says that
"a removal survives a backup/restore round trip": devices that remove this way
(`ServiceDevice`) may drop a view silently in the abstract specification, and
nobody else is affected. Besides: aliases are not lost (`AliasKept`), and where
synchronising changes nothing any more the devices agree (`SettledMeansAgreed`).

Bounds: one contact (contacts do not influence each other), two devices of which
one removes through the service, four seconds, a retention of one, three
operations of the user, one fault.

### LocalSendRegistry

One step per critical section of the registry's mutex; servers, pumps and the
network run in between. A device identity is the server that announces it.
`fate` says what became of each transfer request. A shell that calls from one
thread is told the truth (`ShellIsToldTruly`): sweeps never report this device, and
the responder of a request it was told of is there until it answers, as long as the
server the request came in on is not stopped. Stopping the receiver
(`registry.rs:306`) and the end of a sweep with a temporary listener (`710`) clear
`pending_requests` and leave the queue alone, so a later `poll_events` hands out a
request that `respond_to_transfer` refuses with `UnknownRequestId`: the fate
`stale`. The property says that this happens only to requests of a server that is no
longer the receiver; it does not say that the shell is spared them. Every request is
polled, dropped with its server or evicted. However many threads call, a sweep
reports every peer that registered while it waited, although sweeps share one slot.
Two threads are promised no more than that: a second `start_receiver` replaces a running receiver
(`registry.rs:233` and `288` are two critical sections, although line 225
announces an error), does not add its identity to `announced_fingerprints`, and
the end of a sweep clears all pending requests.
Fairness: pumps run, the shell polls. Bounds: one thread with one request and two
events from the network (a registration and an expiry), or two threads with one
event; two servers, one peer, a queue of one (so that it overflows).

### AtomicOutput

Calls that write the same final path, one system call at a time. `mode` is the way to
commit, `fs` what the file system offers a move that must not replace, `disk`
what survives a power loss. `SameClock` makes temporary names collide. Checked:
`WholeOrNothing` (the path never holds part of a file, nobody touches another
call's temporary file, nothing is left behind) and `NothingIsLost` (refuse never
replaces, and catalogue and secret writers never leave neither file). The
properties name the two cases in which the code cannot keep the promise: refusing
on a file system with neither a no-replace move nor hard links (existence check
and rename are two calls), and writers of secrets in one process that read the
same clock value (`Colliding`: the error path of `create_new` removes the name,
which belongs to the other writer).
Bounds: three writers, two attempts (a collision and running out of names), one
chunk (a file is empty or complete; a second adds only longer partial files).
`Mixes` lists the commit modes that meet: every mode is in one and secrets meet
all others but plain file replacement. Crashes are unbounded (each ends one call),
power losses at most one. Runs end, so deadlock is not checked.

### VolumeSet, JobProgress, CreateJob

`VolumeSet` writes an archive in volumes: split ZIP, split 7z and TZAP list what
is there, refuse or accept it, stage every volume, remove the old set and commit
one by one, and `Discover` is what a reader makes of the directory. The request and
the directory are chosen in `ListVolumes`, when they are first read. An archive of
`Archives` is where its entries and its directory begin, in units chosen so that they
fall on, before and after the ends of volumes; `Normalized` is the reader's way
back. `JobProgress` is what a caller is told of a job: `ctx` is the context with
its coalescer, `phased` the phases of a TZAP writer, `view` the projection of the
consumer, `work` what was really done. The writers differ in what they report. ZIP,
TAR and AppleArchive start and finish every entry, except that a TAR source that
cannot be opened is never finished; 7z reports the bytes its readers read and no entry
(`SevenZEntry`, `SevenZRead`); a TZAP creation starts all entries while it collects its
sources, finishes the special files it skips (`CollectSource`), starts and finishes the
others as it emits their bytes, and its `Completed` event carries the length of the
archive (`Reports`). `CreateJob` composes the two: a ZIP or 7z is split after its last
entry, a TZAP writer fills its sink while it emits and commits it in a stage of its
own, and a cancellation may come at any step.

7z volumes are named with three digits or more (`sevenz_volume.rs:65`) and recognised
with exactly three (`sevenz_volume.rs:104`): `Numbered` is what is recognised, and
`Existing` and `Discover7z` see no more than that. Nothing in the code refuses a set
that goes beyond, so of 7z sets with more volumes than `ThreeDigits` it is neither
claimed that they are read back (`NewNumbered`) nor that a replacement removes them
whole (`OldNumbered`).

Checked: volumes of two archives are never side by side, a completed creation
reads back and the outcome a caller is told is what happened to the destination
(`DestinationIsTrue`); nothing is removed without permission or before every new
volume is written (`OldKeptUntilWritten`); the consumer's view is exact for entries
(for 7z: none until it completed), not ahead for bytes, complete at the end and about
the member that was read last (`ViewIsTrue`); totals never go back, not even across the
contexts of a selection. A completed TZAP creation shows the larger of the bytes read
and the length of the archive, and only that far may the view differ from the work. A
failed ZIP extraction does not flush
its last interval (`adapters/zip.rs:133`), although `docs/JOB_PROGRESS.md:32` says
that pending progress is flushed: for these sessions completeness is stated of
completed jobs only.

Bounds: archives of one to three volumes, of which the first two have a number that a 7z
name can hold (`ThreeDigits`, 999 in the code), so that sets inside and beyond it occur;
TZAP callers ask for one or two volumes (`Counts`), where up to three may be found; a
directory may stand where the third volume would be (`DirectoriesAt`; any path in the
proofs);
two member paths, which are interchangeable (symmetry), two entries, at most two bytes
before a report is due, TZAP archives shorter and longer than what was read
(`ArchiveBytes`), one tick, one file put there by another program. Sources keep the
length they were planned with. Committing one volume is one step (AtomicOutput follows it).

### ArchiveHandle

A handle from `open` to `close`, over files that somebody else replaces, rewrites
or removes between any two steps. `Styles` are the ways in which adapters read:
with a retained descriptor, several volumes, a fresh open per operation, or a
decoded payload. Checked: an operation that succeeds has read nothing but the
source that was fingerprinted at open, an unusable handle stays so and its adapter
is not called again, and an entry id selects an entry of its own session only.
`list` is the exception to the second for its caller: it answers from the retained
listing of an unusable handle (`handle.rs:309`), although line 307 announces an
error. A source that returns to an earlier state between two looks is outside of
what a fingerprint can detect (`gone` keeps the model from taking such steps).
Bounds: one handle opened and closed again and again in five calls, two changes.

### Extraction, Backends, LinkOrder

`Extraction` is one extraction. `Plan`, `Skip`, `SkipByPrompt` and `Refuse` are
the answers of `validate_entry`; `Open` to `Place` the write, `Finish` to `Stamp`
the end. `seen`, `symlinks`, `required`, `renames`, `reserved` are the fields of
the planner. The destination is a function from paths to nodes that at first
holds what the case of `Cases` allows. `Abort` is a cancellation or error between
any two steps. Parameters stand for path handling: `Above` (directories of a
path), `Key` (case folding), `Candidate` (rename names), `Filtered` (patterns,
stripped components). `Backends` has the profile of each of eighteen formats:
which entries it holds, whether it plans each entry before its write or (7z) all
of them before the first, what it clears at a destination, whether a hard link
removes what is in its way, and in which order directories are stamped. ZIP and
Apple Archive never yield hard links; CPIO never clears the destination of one,
so that such a link fails under Replace.

Checked: files that were there are touched only with consent, even by a failed
extraction (`UserFilesKept`); an entry never disturbs an earlier one, and in
the end each link is a second name of the file at its source (`WrittenIsKept`; not
where two links have one destination or one's destination lies above the other's, as
under Replace the later one then removes the earlier); no planned write or deferred
link goes through a symbolic link that a later entry made (`NoTraversal`); budgets
are charged before the writes (in `TypeOK`); the directories are stamped in an
order that does not shut the pass out (`StampingCompletes`). One thing a
reader may expect is not promised: a hard link to a member that was renamed is made
to the file of the user that holds the member's name (`safety.rs:633`). `LinkOrder` is the ordering
of deferred links as a function; `OrderIsSound` compares it, for every list of
links an archive builds up, with "some arrangement puts each link after its
dependency".

Bounds: archives of up to four entries (three can conflict pairwise, and a fourth
comes after a budget of three), eight paths chosen so that names differ in case, look like
a rename, lie in a directory or are a link. Three cases: every policy over every
kind of destination with TAR; links with the three formats that have them; trees
with all others. `consent` and `written` are ghost variables of the properties.

### ArchiveTrust

`certs` and `issuer` are the service's certificates and their issuer (external),
`local`, `order` and `default` the inventory with the default identity of its
catalogue, `choice` a signer that was resolved and not yet used, `archive` and
`vols` the signed archive and what became of its volumes, `answer` the status
answer a verifier holds, `check` a verification. Each inventory save is one step
(`SaveInventory`); the protocols around it are CertificateLifecycle's. Renewals
are those that keep the key. Time is `now`; the clock of a verifier is off by at
most `Drift`, and the window of an answer may exceed what the client accepts.

Checked: whatever old answer is held, "verified", or "valid now" of a contact or a
document, is said only of a certificate that was good and in date within the last
window (`VerifiedIsRecent`). Archives and documents are not called so once the
certificate has expired by the verifier's clock. A contact is, for as long as the
answer is fresh, when the caller of `classify_contact_status` gives no end of
validity (`status_client.rs:200` checks it only if it is given, and the repository's
own calls do not give it): both forms are in the model (`dated`). What is said of an
archive has a cause, although its volumes are read in three passes while they change
(`VerdictIsFair`); one cause is that the verifier leaves out the official roots
(`include_official_tzap_root`, `official` in the model), for which
`classify_x509_trust_anchor` calls every signer untrusted and the verdict is "failed".
Certificates that are not the service's, whose archives are always untrusted, are not
modelled. The certificate under an archive was in force when it was chosen, as far as
the device can know (`SignerWasInForce`): it was within its validity, and was not
revoked before by a renewal or a revocation of this device. Nothing asks the service
before signing, so a revocation made elsewhere, the late end of a renewal that was
given up (`unseen`), or a suspension does not keep a certificate from being chosen.
`DefaultFollowsKey` fails (section 4).

Left out of `Usable`: the emergency blocklist of issuers and the status cache of the
inventory (`x509.rs:260-264`, `318-322`). Neither has a writer outside tests; they
only forbid more certificates.

Met while modelling, and kept as the code has it: an answer that the issuer is
revoked or suspended blocks a contact but gives an archive only a caveat; negative
answers have no freshness check; an answer without a category trusts the reason
"renewed"; `resolve_default_signing_certificate_id` is documented as the only
resolution of a default (`x509.rs:268`), but the catalogue has its own, which
breaks ties differently (`ResolveFromCatalog`, `ResolveFromInventory`).

Bounds: two keys, one of them under the staging root; a life of three, a skew, a
window and a drift of one, two volumes. `Budgets` has four mixes, each enough for
one of the stories: a renewal, two failures, an answer that outlives its
certificate's good state, two changes to the volumes. Other steps are taken while no verification
is under way, which loses nothing: a verification reads only the volumes.

## 4. Runs

| Run | Shows |
|---|---|
| identity | the native facade with crashes, failed accesses and a damaged entry: safety and recovery |
| auth_flow | the login slot: safety, and repair by a login with restart |
| certificate | the certificate protocol, alone with late requests and shared by two processes |
| contacts | snapshots implement the register; aliases; agreement |
| localsend | the registry with one shell thread and with two |
| output | atomic files in mixes of commit modes, with crashes and a power loss |
| jobs | creations in volumes, TZAP creations, extractions and selections, with cancellation and failures |
| handle | handles over sources that change |
| extract | policies, links, order of links, limits and stamping, for eighteen formats |
| trust | choice of the signer, status, three-pass verification |

Two runs end in a violation and show a promise the code does not keep; each has a
finding with the quoted line.

- `create_bare`: a split ZIP or 7z that replaces a larger one under a bare file
  name does not see the old volumes (`read_dir("")` fails), leaves some of them in
  place, and the reader joins them to the new ones. With a directory in the name
  the same property is part of `DestinationIsTrue` in `jobs`.
- `renewal_default`: a renewal writes the inventory twice. The first write leaves
  the key of the default identity without an active certificate and the catalogue
  without a default; the second then takes the first active certificate, which may
  be one of another key.

Promises that the code does not keep and that are exceptions of the properties
above are told in section 3: two device keys, a replaced receiver, the link to a
renamed member, the removal without a tombstone, the listing of an unusable
handle, the unflushed ZIP progress.

## 5. Proofs

Each proof module extends the modules it is about and has, for each of them, one
inductive invariant, the lemmas that each action preserves it, and the theorems. None
of the properties is inductive as it stands; what has to be added, and why, is the
argument. The invariants were checked by TLC on the instances of section 4 before
they were proved.

### IdentityStoreProofs

For any finite or infinite sets of processes, keys and references, any bounds and
both facades:

- `TypeCorrect`: `Spec => []TypeOK`;
- `PublishedKeysResolve`: `Spec => []PublishedResolvable`;
- `SecretsAreTracked`: `Spec => []NoUntrackedSecret`;
- `OnlyClearDeletesPublished`: `Spec => DeletesOnlyUnpublished`;
- `LoadsMissOnlyWhenOvertaken`: `Spec => MissingMeansOvertaken`.

They assume only that `NoRef` is no reference, `NoProc` no process, damaged keys
are keys and the bounds are natural numbers.

That published keys resolve depends on what a writer is about to publish, which
depends on what it stored, which depends on who holds the lock. `IInv` adds, beside
types,

- `LockInv`: the process inside a save is the holder of the OS lock;
- `PublishedInv`: what was read as published was published;
- `TodoInv`: the work lists of deleting loops hold nothing the catalogue names,
  and those of the storing loop only what will be named;
- `JournalInv`: the journal lists references of the save in progress only;
- `StoredInv`: unless a clear raced, what is about to be published is stored.

`SafetyStep` proves the parts that hold in all behaviours, `StoredStep` the ones
that need the absence of a race, with one step per action. `DeleteStep` and
`MissingStep` derive the action properties from `IInv`.

### OutputProofs

Three modules about written archives: `AtomicOutput`, and `VolumeSet` and `JobProgress`
as `CreateJob` composes them.

`AtomicOutput`. For any calls, attempts, chunks, power losses and mixes of commit modes:
`OutputIsWhole` (`Spec => []WholeOrNothing`) and `OutputLosesNothing`
(`Spec => NothingIsLost`). Assumed: the modes and file systems are known ones, and
the names for "no file", "the old file" and "a directory" differ from each other and
from every writer.

A rename publishes whatever the temporary name holds, so `IInv` ties names to calls:
`NamedInv` (a temporary file is found under the name of its own call only), `OwnInv`
(a call that is about to commit still has it, unless secret writers collide),
`PathInv` (which steps a mode can be at), `DataInv` (the file is complete, and synced
where the mode syncs, from the commit on), `Sound` (what the path, or the disk behind
it, holds is a whole file).

`CreateJob`. For any archive (where its entries and its directory begin), size and
number of volumes, paths, entries, sizes, thresholds of the coalescer and length of its
list of recent paths, and with every failure, cancellation and intrusion:

- `CreateTypeCorrect`: `CreateSpec => []CreateTypeOK`;
- `ViewTrue`: `CreateSpec => []ViewIsTrue`;
- `TotalsGrow`: `CreateSpec => TotalsNeverGoBack`;
- `OldKept`: `CreateSpec => OldKeptUntilWritten`;
- `DestinationTrue`: `CreateSpec => []((vpc # "idle" => Lists) => DestinationIsTrue)`.

`Lists` excludes the one request for which the last is false, a bare file name of a ZIP
or 7z creation (run `create_bare`); the run `jobs` excludes it by `BareNames`. 7z sets
beyond three digits are excepted inside the property (section 3). Assumed:
an entry begins before the directory of its archive, a volume is longer than the
signature, the limits are positive, and "no path" is no path.

`VolInv` is about the directory. `Position` ties the counters and work lists to the
place of the writer, `NewPlaced` says where the new volumes are, and `OldLeaves` where
the old ones can still be: among the listed ones until all new volumes are written,
among those still to be removed after that, and nowhere once the first commit is made.
All of it is said of the names the code recognises (`Seen`); `OldFound`, that no file
becomes an old one, carries it to a set whose names are all recognised.
`NeverMixed` follows from the last only because nothing is committed before the work
list is empty, which is what `Position` is for. That a reader finds the directory of a
split ZIP again is arithmetic: `Location` and `DiskOffset` are inverse to each other up
to the signature (`ReadsBackHolds`), also where an offset is a multiple of the size.

`JobInv` is bookkeeping in which every term is a different variable: what the consumer
was told plus what is pending is the work (`Accounts`), for a selection with the batch
of the finished entries in between (`Totals`), for a phase with its own coalescer
(`PhaseAccounts`). `FlushedAt` says at which returns nothing is pending, `OutcomeTold`
that an outcome is told once and is the result. `Active` is needed because a batch names
no path when the same member goes on after a flush: the consumer then shows the right
one only if the last path a coalescer has seen is the active one or none; while a TZAP
creation collects, no member is active yet. `Mentioned` is how many entries the events
have told of, none for 7z. `Together`
relates the two machines: a job that returned has a writer that stopped, and with
the corresponding result.

`Parts` bounds the lists of recent paths. A batch is applied path by path, a recursion
over a list of any length; the proof takes the least place at which the limit would be
exceeded, as for the rounds of `LinkOrder`.

### AuthFlowProofs

For any processes, applications, logins and faults: `SlotTypeCorrect`, `SlotSound`
(`Spec => []SlotIsSound`) and `SessionMonotone` (`Spec => SessionNeverRegresses`).
`LockInv` makes a call under way and the holder of the lock the same thing. `OpInv`
says which call can be where, `IdInv` that pointer and session never name a flow newer
than the last, `FlowInv` relates pointer, secure record and the locals of the holder
at every interruption point, and `SentInv` says that a flow whose code was transmitted
is no longer pending, which is what keeps a second process from sending it again.

### HostedProofs

`ContactSync`. For any devices, contacts, retention and lifetimes of cards: `SnapshotTypeCorrect`,
`SettledDevicesAgree` (`Spec => []SettledMeansAgreed`), `AliasesSurvive`
(`Spec => AliasKept`) and the refinement `SnapshotsImplementRegister`
(`Spec => ImplementsRegister`), by the mapping of `ContactSync`: the view of a device
is its signed entry or its tombstone, whichever is later. `InventoryInv` and `SnapshotInv`
say of every inventory, and of every snapshot wherever it is (on the server, fetched,
merged, on the wire), that the times in it are those of acceptances and removals that
happened (`Backed`), and that a snapshot has no tombstone beside an entry (`Clean`).
Without `Backed` a merge could bring a view that nobody ever accepted; it is the one
fact the step simulation of `ApplySnapshot` and `Merge` rests on.

`CertificateLifecycle`. For any processes, keys, certificates, scenarios and faults:
`BlockedAreReleased` (`CertSpec => []BlockedHasOperation`) and `InventoryTrue`
(`CertSpec => []InventoryIsTrue`). Assumed: the names for "no key", "no certificate",
"no operation" and "refused" are none of the things they stand beside.

Processes load and save whole inventories, so a save can bring back anything that was
ever loaded. `CertInv` therefore says of every inventory a process holds what it says of
the stored one: each blocked certificate has its operation (`Releasable`). The save that
ends an operation releases the predecessor named by the copy in hand; that this is the
one the journal means follows from `Shape` (which operation a call holds, by its place)
and `OneOpPerId` (two operations with one id, wherever they are kept, are the same).

`SingleInv` holds where one process has the inventory to itself (`Alone`), as the
property demands. `ServerOK`: the server has certified one key, the device's, and holds
one certificate active. `CallOK`: the call works with that key, and what it loaded is
still what is stored. As long as no request was late, `WireOK`: only the operation of
the waiting call is under way, and `TrackOK`: the stored inventory and the one about to
be saved know or journal every active certificate, and the answer in hand is one.

### ArchiveHandleProofs

For any handles, calls, changes and size limit: `HandleTypeCorrect`,
`ReadsAreOfTheOpenedSource` (`Spec => []OkReadsOpenedSource`), `IdsSelectOneSession`
(`Spec => []IdsAreSessionScoped`) and `UnusableStaysUnusable`
(`Spec => UnusableIsFinal`). The invariant is stated per handle. Its core: a
fingerprint does not recur (`FingerprintInv`, from `gone`), so once a file differs it
differs for good, and the comparison after the adapter ran covers all that was read
before it. `ReadInv` and `CompareInv` say that every file read so far is the opened
one or is still to be found different by the comparison under way; `SessionInv`
says the same of retained descriptors and payloads, `MeasureInv` and `SizeInv` of
the limit.

### ArchiveTrustProofs

For any keys, lifetimes, skew, windows, drift, volumes and budgets:
`VerifiedWasRecentlyGood` (`Spec => []VerifiedIsRecent`), `VerdictsAreFair`
(`Spec => []VerdictIsFair`) and `SignersWereInForce` (`Spec => []SignerWasInForce`).
Two facts carry them. A revocation is final, so `AnswerInv` can say of an answer that
is arbitrarily old that it was true when it was given and what may have changed since.
And damage to a volume is not undone, so what the first pass saw is still there when
the verdict is given (`CheckInv`, `VerdictInv`). `DeviceInv` relates inventory, default
and catalogue order, and keeps a certificate that this device renewed or revoked from
being active; `SigningInv` has the validity of a signer at the time of its choice, which survives everything that
happens before the archive is written. `DefaultFollowsKey` is not
among them: the code does not keep it (section 4).

### LocalSendRegistryProofs

For any finite set of threads, any servers, peers, requests and length of the queue:
`SweepsReportPeers` (`Spec => []SweepReportsPeers`) and `ShellToldTruly`
(`Spec => []ShellIsToldTruly`). Assumed besides: peers, servers and requests are
different things (an identity names one device), and the queue holds at least one
event.

- `HeardInv`: what a waiting sweep heard is confirmed and not aged, and the slot
  belongs to a thread that sweeps. This, not the slot, is why a sweep whose slot was
  taken over still reports everybody.
- `RequestInv`: a request is in one channel at one place at most, and once it left the
  channel it is pending until it is answered or dropped. The uniqueness is
  needed for `Absorb`: a request still in a channel has no responder yet.
- `SoloInv`: a shell with one thread has at most one server of its own on the air, and
  every own identity that anybody can learn of was announced before. It fails with two
  threads, as section 3 tells, so it is conditional on `OneThread`, like the property.
  It also has that a request dropped or told of too late (`Gone`) came in on a server
  that is neither the receiver nor about to become it.

### ExtractionProofs

For any paths and directories above them, any rename candidates and case folding,
archives and destinations of any size, every policy and set of limits and every format
of `Backends`: `ExtractionTypeOK`, `ExtractionKeepsUserFiles`,
`ExtractionKeepsWhatItWrote`, `ExtractionIsDirect`, `LinkOrderIsSound` and
`ExtractionStamps`, one for each invariant of the run. Assumed of the paths is that
they are finitely many, that none lies above itself and that what is above a
directory of a path is above the path.

The inductive invariant has a part per question; each uses only itself and the types.

- `ConsentInv`: leave to replace travels with the plan, from the decision over the
  table of 7z or the list of deferred links to the removal. Where it is missing, a write
  finds its destination absent, so nothing is disturbed.
- `GuardInv`: every directory that a plan, a decision of 7z or a deferred link relies
  on is in `required` and is no symbolic link. `WritePathsOk` refuses a link where
  `required` has the name, so the property survives all later entries; that the source
  of a hard link is guarded too is what keeps `MakeLink` from copying a symbolic link.
- `LinkInv`: the rest of the order respects the dependencies, and links already made
  stand, because the next one is neither their source nor above them.
- `BudgetInv`: entries and bytes reserved cover what is written, in hand, queued or put
  off. `TypeOK` only has the first; the charge moves from one to the other.
- `OrderIsSound` needs no history. The rounds of the loop are shown to exist and to
  keep `RoundInv` by taking the least round that would not; if the loop ends early, the
  first link it missed in any arrangement shows that the arrangement breaks a dependency.
- `StampingCompletes` needs that a sorted order of the directories exists, and that a
  directory is less deep than those in it.

### What stays with TLC

Liveness and ENABLED are out of the prover's reach: `StoreRecovers`, `RestartRepairs`,
`CertificatesSettle`, `RequestIsDelivered`, and whatever else is stated with `~>`.
`ReadsBack` under bare names and `DefaultFollowsKey` are false of the code (section 4).
Every other property of a run is a theorem.

## 6. Not modelled

Binary formats and decoders, the TZAP container, certificate parsing and
cryptography, documents, cards and envelopes (pure functions of bytes), argument
parsing and output, JSON wrappers, and vendored code: together about two thirds of
the implementation. They are sequential, and their correctness is a matter of
bytes, which tests reach better than a model checker.

Of the modelled parts: rotated-key renewal, retirement of devices and selection by
label; loopback-only sweeps and sending in LocalSend; the compression-ratio limit,
entry selectors, platforms without symbolic links, the replacements of RAR, members
of a DEB (and the bytes its outer members report) and raw streams in extraction; key backups; discovery of RAR and TZAP
volumes; revocation lists and the status cache; the multicast status value; Windows
variants of file moves.

Known limits of the code that no property covers: the keyring and its cache are
separate critical sections (`keyring_store.rs:131`); of two overlapping saves the
later one wins whole (`local_identity_store.rs:563`); the sidecar of a TZAP archive
is published after its volumes (`tzap/write.rs:743`); a 7z set of a thousand or more
volumes is written, but not read back and not replaced whole (`sevenz_volume.rs:104`);
an unsplit ZIP written over a
split set leaves the other volumes (`zip_backend.rs:287`); an intermediate
certificate is written in place (`trust/intermediate_cache.rs:130`).
