----------------------------- MODULE ContactSync -----------------------------
(***************************************************************************)
(* The contact list of one account on several devices, kept in step by     *)
(* snapshots in a backup slot of the server.                               *)
(*                                                                         *)
(*   zmanager-core/src/auth/contact_snapshot.rs   merge, build, apply      *)
(*   zmanager-core/src/auth/contact_card.rs       verify, import           *)
(*   zmanager-tzap-hosted/src/auth/backup_client.rs, http_client.rs        *)
(*   zmanager-tzap-hosted/src/auth/tzap_service.rs   contact remove        *)
(*                                                                         *)
(* An inventory and a snapshot have the same shape: per contact the time   *)
(* of the live entry (0: none), its alias, whether it has a signed card,   *)
(* and the time of the tombstone (0: none).  The application that drives   *)
(* a synchronisation is not in the repository: it is modelled from the     *)
(* contract of the functions it calls (fetch, merge, PUT with If-Match, on *)
(* 412 fetch and merge once more, apply).                                  *)
(***************************************************************************)
EXTENDS Naturals

CONSTANTS
    Device, Contact, Alias, NoAlias,
    Expires,        \* Expires[c]: when the signed card of c stops verifying
    MaxTime,        \* the clock is 1..MaxTime
    Retention,      \* TOMBSTONE_RETENTION_SECONDS
    ServiceDevice,  \* devices whose contacts are removed through the service
    MaxOps,         \* bound on what users do
    MaxFaults       \* bound on lost answers, deleted backups, failed lookups

ASSUME TimeAssumption == MaxTime \in Nat \ {0} /\ Retention \in Nat
ASSUME ExpiresAssumption == Expires \in [Contact -> Nat]
ASSUME AliasAssumption == NoAlias \notin Alias
ASSUME BoundAssumption == MaxOps \in Nat /\ MaxFaults \in Nat

VARIABLES
    now,
    inventory,      \* per device, contact by contact
    backup, exists, \* the stored snapshot, and whether there is one
    phase,          \* of the synchronisation of each device
    base, tag,      \* what it fetched, and whether its version is current
    merged,         \* what it uploaded
    retried,        \* whether it used its one retry
    ops, faults,    \* counters of the bounds
    issued          \* history: every acceptance and removal, by contact

device == <<phase, base, tag, merged, retried>>
server == <<backup, exists>>
history == <<ops, faults, issued>>
vars == <<now, inventory, server, device, history>>

Time == 0..MaxTime
Entry == [at : Time, alias : Alias \cup {NoAlias}, signed : BOOLEAN, removed : Time]
Absent == [at |-> 0, alias |-> NoAlias, signed |-> FALSE, removed |-> 0]
Empty == [c \in Contact |-> Absent]
Snapshot == [Contact -> Entry]

Larger(a, b) == IF a > b THEN a ELSE b

(* A tombstone is kept for Retention; one of the future (another clock) is *)
(* kept too, because the subtraction saturates.                            *)
Retained(t) == now <= t + Retention

Tombstone(t) == IF t > 0 /\ Retained(t) THEN t ELSE 0

(* The newer acceptance wins; of two at the same time the entry of the     *)
(* base stays and only a non-empty alias of the incoming one is taken.     *)
NewerEntry(b, i) ==
    CASE i.at > b.at -> i
      [] i.at = b.at -> [b EXCEPT !.alias = IF i.alias # NoAlias THEN i.alias ELSE @]
      [] OTHER -> b

MergeAcceptanceFirst(b, i) ==
    LET live == NewerEntry(b, i)
    IN IF live.at > 0 THEN [live EXCEPT !.removed = 0]
       ELSE [Absent EXCEPT !.removed = Tombstone(Larger(b.removed, i.removed))]

MergeOne(b, i) ==
    LET live == NewerEntry(b, i)
        tomb == Larger(b.removed, i.removed)
    IN IF live.at > tomb THEN [live EXCEPT !.removed = 0]
       ELSE [Absent EXCEPT !.removed = Tombstone(tomb)]

merge_contact_snapshots(b, i) == [c \in Contact |-> MergeOne(b[c], i[c])]

BuildWithBareKeys(e) ==
    LET tomb == Tombstone(e.removed)
    IN IF e.at > tomb THEN [e EXCEPT !.removed = 0] ELSE [Absent EXCEPT !.removed = tomb]

(* Bare keys without a card stay local; a retained tombstone that is not   *)
(* older hides the contact, an older one is dropped.                       *)
BuildOne(e) ==
    LET tomb == Tombstone(e.removed)
    IN IF e.at > 0 /\ e.signed /\ e.at > tomb THEN [e EXCEPT !.removed = 0]
       ELSE [Absent EXCEPT !.removed = tomb]

build_contact_snapshot(i) == [c \in Contact |-> BuildOne(i[c])]

verify_tzap_contact_card(c, failing) == now < Expires[c] /\ c \notin failing

(* What a snapshot with entry s makes of the local entry e.  First the      *)
(* tombstones of both sides remove e.  Then s replaces what is left, unless *)
(* that is newer, or as new with an alias that s lacks, or the tombstone is *)
(* not older than s, or the card does not verify.                           *)
OnlySnapshotTombstones(e, s) == Tombstone(s.removed)

BothTombstones(e, s) == Larger(Tombstone(e.removed), Tombstone(s.removed))

Kept(e, tomb) == [(IF e.at <= tomb THEN Absent ELSE e) EXCEPT !.removed = tomb]

AliasOverwritten(s, kept) == kept.at > s.at

Superseded(s, kept) ==
    \/ kept.at > s.at
    \/ kept.at = s.at /\ kept.alias # NoAlias /\ s.alias = NoAlias

ApplyOne(e, s, ok) ==
    LET tomb == BothTombstones(e, s)
        kept == Kept(e, tomb)
    IN IF s.at > tomb /\ ~Superseded(s, kept) /\ ok
       THEN [s EXCEPT !.removed = tomb] ELSE kept

apply_contact_snapshot(i, s, failing) ==
    [c \in Contact |-> ApplyOne(i[c], s[c], verify_tzap_contact_card(c, failing))]

-----------------------------------------------------------------------------

Init ==
    /\ now = 1
    /\ inventory = [d \in Device |-> Empty]
    /\ backup = Empty /\ exists = FALSE
    /\ phase = [d \in Device |-> "idle"]
    /\ base = [d \in Device |-> Empty]
    /\ tag = [d \in Device |-> "none"]
    /\ merged = [d \in Device |-> Empty]
    /\ retried = [d \in Device |-> FALSE]
    /\ ops = 0 /\ faults = 0
    /\ issued = [c \in Contact |-> {}]

Tick == /\ now < MaxTime
        /\ now' = now + 1
        /\ UNCHANGED <<inventory, server, device, history>>

UserAct == /\ ops < MaxOps
           /\ ops' = ops + 1
           /\ UNCHANGED <<now, server, device, faults>>

Stamp(removed) == [at |-> now, removed |-> removed]

(* The user accepts a card: it replaces what the device had, alias         *)
(* included, and leaves its tombstones alone.                              *)
import_tzap_contact_card(d, c) ==
    /\ UserAct
    /\ verify_tzap_contact_card(c, {})
    /\ inventory' = [inventory EXCEPT ![d][c] =
                      [@ EXCEPT !.at = now, !.alias = NoAlias, !.signed = TRUE]]
    /\ issued' = [issued EXCEPT ![c] = @ \cup {Stamp(FALSE)}]

(* The application stores a key without a card. *)
AddBareKey(d, c) ==
    /\ UserAct
    /\ inventory[d][c].at = 0
    /\ inventory' = [inventory EXCEPT ![d][c] =
                      [@ EXCEPT !.at = now, !.alias = NoAlias, !.signed = FALSE]]
    /\ UNCHANGED issued

(* The application renames a contact. *)
SetAlias(d, c, a) ==
    /\ UserAct
    /\ inventory[d][c].at > 0
    /\ inventory' = [inventory EXCEPT ![d][c].alias = a]
    /\ UNCHANGED issued

(* The application removes a contact and records the removal.              *)
RemoveContact(d, c) ==
    /\ UserAct
    /\ d \notin ServiceDevice
    /\ inventory[d][c].at > 0
    /\ inventory' = [inventory EXCEPT ![d][c] = [Absent EXCEPT !.removed = now]]
    /\ issued' = [issued EXCEPT ![c] = @ \cup {Stamp(TRUE)}]

(* The service only drops the contact: no tombstone is written. *)
tzap_contact_remove_json(d, c) ==
    /\ UserAct
    /\ d \in ServiceDevice
    /\ inventory[d][c].at > 0
    /\ inventory' = [inventory EXCEPT ![d][c] =
                      [Absent EXCEPT !.removed = inventory[d][c].removed]]
    /\ UNCHANGED issued

-----------------------------------------------------------------------------
(* One synchronisation: fetch, merge and PUT, apply. *)

Quiet == UNCHANGED <<now, ops, issued>>

(* GET: a missing backup is an empty base and a PUT without If-Match.      *)
fetch_contact_backup(d) ==
    /\ phase[d] \in {"idle", "again"}
    /\ base' = [base EXCEPT ![d] = backup]
    /\ tag' = [tag EXCEPT ![d] = IF exists THEN "current" ELSE "none"]
    /\ retried' = [retried EXCEPT ![d] = phase[d] = "again"]
    /\ phase' = [phase EXCEPT ![d] = "fetched"]
    /\ Quiet /\ UNCHANGED <<inventory, server, merged, faults>>

(* Every write makes the versions that others hold outdated. *)
Outdate(d) ==
    tag' = [e \in Device |-> CASE e = d -> "none"
                              [] e # d /\ tag[e] = "current" -> "outdated"
                              [] OTHER -> tag[e]]

Store(d, s) ==
    /\ backup' = s /\ exists' = TRUE
    /\ Outdate(d)
    /\ base' = [base EXCEPT ![d] = Empty]
    /\ retried' = [retried EXCEPT ![d] = FALSE]

Upload(d) == merge_contact_snapshots(base[d], build_contact_snapshot(inventory[d]))

Matches(d) == tag[d] # "outdated"

put_contact_backup(d) ==
    /\ phase[d] = "fetched" /\ Matches(d)
    /\ Store(d, Upload(d))
    /\ merged' = [merged EXCEPT ![d] = Upload(d)]
    /\ phase' = [phase EXCEPT ![d] = "uploaded"]
    /\ Quiet /\ UNCHANGED <<inventory, faults>>

(* The PUT took effect, its answer is lost: a PUT is never sent twice.     *)
PutAnswerLost(d) ==
    /\ phase[d] = "fetched" /\ Matches(d) /\ faults < MaxFaults
    /\ Store(d, Upload(d))
    /\ phase' = [phase EXCEPT ![d] = "idle"]
    /\ faults' = faults + 1
    /\ Quiet /\ UNCHANGED <<inventory, merged>>

(* 412: fetch, merge and upload once more, then give up. *)
PreconditionFailed(d) ==
    /\ phase[d] = "fetched" /\ ~Matches(d)
    /\ phase' = [phase EXCEPT ![d] = IF retried[d] THEN "idle" ELSE "again"]
    /\ base' = [base EXCEPT ![d] = Empty]
    /\ tag' = [tag EXCEPT ![d] = "none"]
    /\ retried' = [retried EXCEPT ![d] = FALSE]
    /\ Quiet /\ UNCHANGED <<inventory, server, merged, faults>>

(* Some lookups of intermediate certificates may fail. *)
Apply(d) ==
    /\ phase[d] = "uploaded"
    /\ \E failing \in SUBSET Contact :
         /\ failing # {} => faults < MaxFaults
         /\ faults' = IF failing = {} THEN faults ELSE faults + 1
         /\ inventory' = [inventory EXCEPT ![d] = apply_contact_snapshot(@, merged[d], failing)]
    /\ phase' = [phase EXCEPT ![d] = "idle"]
    /\ merged' = [merged EXCEPT ![d] = Empty]
    /\ Quiet /\ UNCHANGED <<server, base, tag, retried>>

delete_contact_backup ==
    /\ exists /\ faults < MaxFaults
    /\ backup' = Empty /\ exists' = FALSE
    /\ tag' = [d \in Device |-> IF tag[d] = "current" THEN "outdated" ELSE tag[d]]
    /\ faults' = faults + 1
    /\ Quiet /\ UNCHANGED <<inventory, phase, base, merged, retried>>

Next ==
    \/ Tick
    \/ \E d \in Device, c \in Contact :
         \/ import_tzap_contact_card(d, c) \/ AddBareKey(d, c)
         \/ \E a \in Alias : SetAlias(d, c, a)
         \/ RemoveContact(d, c) \/ tzap_contact_remove_json(d, c)
    \/ \E d \in Device :
         \/ fetch_contact_backup(d) \/ put_contact_backup(d) \/ PutAnswerLost(d)
         \/ PreconditionFailed(d) \/ Apply(d)
    \/ delete_contact_backup

Spec == Init /\ [][Next]_vars

-----------------------------------------------------------------------------

(* The variables have their types, and a snapshot never holds an entry     *)
(* without a card, nor an entry and a tombstone of the same contact        *)
(* (build_contact_snapshot, merge_contact_snapshots).                      *)
TypeOK ==
    /\ now \in 1..MaxTime
    /\ inventory \in [Device -> Snapshot]
    /\ exists \in BOOLEAN
    /\ phase \in [Device -> {"idle", "fetched", "again", "uploaded"}]
    /\ tag \in [Device -> {"none", "current", "outdated"}]
    /\ retried \in [Device -> BOOLEAN]
    /\ ops \in 0..MaxOps /\ faults \in 0..MaxFaults
    /\ issued \in [Contact -> SUBSET [at : 1..MaxTime, removed : BOOLEAN]]
    /\ \A s \in {backup} \cup {base[d] : d \in Device} \cup {merged[d] : d \in Device} :
         /\ s \in Snapshot
         /\ \A c \in Contact : s[c].at > 0 => s[c].signed /\ s[c].removed = 0

(* What a device holds of a contact: the later of its signed entry and its *)
(* tombstone, the tombstone at equal times.                                *)
ViewOf(e) ==
    IF e.at > e.removed /\ e.signed THEN [at |-> e.at, removed |-> FALSE]
    ELSE [at |-> e.removed, removed |-> e.removed > 0]

Register == INSTANCE ContactRegister WITH
    view <- [d \in Device |-> [c \in Contact |-> ViewOf(inventory[d][c])]],
    NoTombstone <- ServiceDevice

(* Snapshots implement the register: no interleaving of devices, lost      *)
(* answers, deleted backups or refused cards makes a device go back to an  *)
(* older acceptance or removal, except past the retention of a tombstone   *)
(* (merge_contact_snapshots, apply_contact_snapshot).                      *)
ImplementsRegister == Register!Spec

(* A synchronisation never loses the alias of a contact whose acceptance   *)
(* it keeps (the alias rules of merge and apply at equal times).           *)
AliasKept ==
    [][\A d \in Device, c \in Contact :
         LET e == inventory[d][c]
             f == inventory'[d][c]
         IN e.alias # NoAlias /\ f.at = e.at /\ ops' = ops => f.alias # NoAlias]_vars

(* Where synchronising changes nothing any more, all devices agree on      *)
(* which contacts are live and since when, except for cards that no longer *)
(* verify and bare keys: there is no stable disagreement.                  *)
Settled(d) ==
    LET s == merge_contact_snapshots(backup, build_contact_snapshot(inventory[d]))
        i == apply_contact_snapshot(inventory[d], s, {})
    IN /\ phase[d] = "idle"
       /\ \A c \in Contact : /\ s[c].at = backup[c].at /\ s[c].removed = backup[c].removed
                             /\ i[c].at = inventory[d][c].at

SettledMeansAgreed ==
    (\A d \in Device : Settled(d)) =>
        \A c \in Contact, d, e \in Device :
            \/ now >= Expires[c]
            \/ inventory[d][c].at = inventory[e][c].at
            \/ \E f \in Device : inventory[f][c].at > 0 /\ ~inventory[f][c].signed
=============================================================================
