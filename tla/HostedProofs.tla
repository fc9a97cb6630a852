---------------------------- MODULE HostedProofs ----------------------------
(***************************************************************************)
(* What the two clients of the hosted service promise: module ContactSync  *)
(* of the contact list, for any number of devices and contacts, any        *)
(* retention, lifetime of cards, and number of operations and faults,      *)
(* above all that snapshots implement the register of module               *)
(* ContactRegister; and module CertificateLifecycle of the device's        *)
(* certificates, for any number of processes, keys, certificates and       *)
(* operation ids, and every scenario of crashes, lost answers and late     *)
(* requests.  The two share no state.                                      *)
(***************************************************************************)
EXTENDS ContactSync, CertificateLifecycle, TLAPS

-----------------------------------------------------------------------------
(* ContactSync *)

\* An acceptance, or a removal, at t is in the history S of a contact.
Live(t) == [at |-> t, removed |-> FALSE]
Tomb(t) == [at |-> t, removed |-> TRUE]
AcceptedIn(S, t) == Live(t) \in S
RemovedIn(S, t) == Tomb(t) \in S

\* Every time an entry bears is that of an acceptance or removal that happened.
BackedIn(S, t, e) ==
    /\ e.at > 0 /\ e.signed => AcceptedIn(S, e.at)
    /\ e.removed > 0 => RemovedIn(S, e.removed)
    /\ e.at <= t /\ e.removed <= t
Backed(c, e) == BackedIn(issued[c], now, e)

\* A snapshot holds entries with cards, and no tombstone beside an entry.
Clean(e) == e.at > 0 => e.signed /\ e.removed = 0

GoodIn(s, H, t) == s \in Snapshot /\ \A c \in Contact : Clean(s[c]) /\ BackedIn(H[c], t, s[c])
Good(s) == GoodIn(s, issued, now)

InventoryInv ==
    \A d \in Device, c \in Contact :
        /\ Backed(c, inventory[d][c])
        /\ inventory[d][c].at = 0 => inventory[d][c].alias = NoAlias

SnapshotInv ==
    /\ Good(backup)
    /\ base \in [Device -> Snapshot] /\ merged \in [Device -> Snapshot]
    /\ \A d \in Device : Good(base[d]) /\ Good(merged[d])

IInv == TypeOK /\ InventoryInv /\ SnapshotInv
-----------------------------------------------------------------------------
LEMMA AbsentFacts ==
  /\ Absent \in Entry /\ Empty \in Snapshot
  /\ \A c \in Contact : Empty[c] = Absent
  /\ Absent.at = 0 /\ Absent.removed = 0 /\ Absent.alias = NoAlias /\ ~ Absent.signed
  BY TimeAssumption DEF Absent, Entry, Time, Empty, Snapshot

\* What an entry with a changed tombstone is.
LEMMA EntryFacts ==
  ASSUME NEW e \in Entry, NEW t \in Time
  PROVE  /\ [e EXCEPT !.removed = t] \in Entry
         /\ [e EXCEPT !.removed = t].at = e.at
         /\ [e EXCEPT !.removed = t].signed = e.signed
         /\ [e EXCEPT !.removed = t].alias = e.alias
         /\ [e EXCEPT !.removed = t].removed = t
  BY DEF Entry

LEMMA EntryTimes ==
  /\ 0 \in Time /\ Time \subseteq Nat
  /\ \A e \in Entry : e.at \in Time /\ e.removed \in Time
  BY TimeAssumption DEF Entry, Time

\* What is left of an entry that was removed.
LEMMA RemovedFacts ==
  ASSUME NEW t \in Time
  PROVE  /\ [Absent EXCEPT !.removed = t] \in Entry
         /\ [Absent EXCEPT !.removed = t].at = 0
         /\ [Absent EXCEPT !.removed = t].removed = t
         /\ [Absent EXCEPT !.removed = t].alias = NoAlias
<1>1. Absent \in Entry
  BY AbsentFacts
<1>2. [Absent EXCEPT !.removed = t] \in Entry
  BY <1>1, EntryFacts
<1> QED
  BY <1>2 DEF Absent

LEMMA TombstoneFacts ==
  ASSUME now \in Nat, NEW t \in Time, NEW u \in Time
  PROVE  /\ Tombstone(t) \in Time /\ Tombstone(t) \in {0, t}
         /\ now <= t + Retention => Tombstone(t) = t
         /\ Larger(t, u) \in {t, u} /\ Larger(t, u) >= t /\ Larger(t, u) >= u
         /\ Larger(t, u) \in Time
  BY TimeAssumption DEF Tombstone, Retained, Larger, Time

LEMMA NewerFacts ==
  ASSUME NEW b \in Entry, NEW i \in Entry
  PROVE  LET live == NewerEntry(b, i)
         IN  /\ live \in Entry
             /\ live.at >= b.at /\ live.at >= i.at
             /\ \/ live.at = i.at /\ live.signed = i.signed
                \/ live.at = b.at /\ live.signed = b.signed
<1>1. b.at \in Nat /\ i.at \in Nat
  BY TimeAssumption DEF Entry, Time
<1>2. CASE i.at > b.at
  BY <1>1, <1>2 DEF NewerEntry
<1>3. CASE i.at = b.at
  <2> DEFINE a == IF i.alias # NoAlias THEN i.alias ELSE b.alias
  <2>1. NewerEntry(b, i) = [b EXCEPT !.alias = a]
    BY <1>1, <1>3 DEF NewerEntry
  <2>2. a \in Alias \cup {NoAlias}
    BY DEF Entry
  <2> HIDE DEF a
  <2>3. [b EXCEPT !.alias = a] \in Entry /\ [b EXCEPT !.alias = a].at = b.at
        /\ [b EXCEPT !.alias = a].signed = b.signed
    BY <2>2 DEF Entry
  <2> QED
    BY <1>1, <1>3, <2>1, <2>3
<1>4. CASE i.at < b.at
  BY <1>1, <1>4 DEF NewerEntry
<1> QED
  BY <1>1, <1>2, <1>3, <1>4

\* A merge of snapshots is a snapshot.
LEMMA MergeGood ==
  ASSUME now \in Nat, NEW c \in Contact, NEW b \in Entry, NEW i \in Entry,
         Clean(b), Clean(i), Backed(c, b), Backed(c, i)
  PROVE  MergeOne(b, i) \in Entry /\ Clean(MergeOne(b, i)) /\ Backed(c, MergeOne(b, i))
<1> DEFINE live == NewerEntry(b, i)
           tomb == Larger(b.removed, i.removed)
<1>1. /\ live \in Entry /\ live.at \in Nat
      /\ live.at > 0 => live.signed
      /\ live.at > 0 => AcceptedIn(issued[c], live.at)
      /\ live.at <= now
  <2>1. live \in Entry /\ live.at \in Nat
    BY NewerFacts, EntryTimes
  <2> QED
    BY <2>1, NewerFacts DEF Clean, Backed, BackedIn
<1>2. /\ tomb \in Time /\ tomb <= now /\ Tombstone(tomb) \in Time
      /\ Tombstone(tomb) \in {0, tomb}
      /\ tomb > 0 => RemovedIn(issued[c], tomb)
  <2>1. b.removed \in Time /\ i.removed \in Time
    BY DEF Entry
  <2>2. tomb \in Time /\ tomb \in {b.removed, i.removed}
    BY <2>1, TombstoneFacts
  <2> HIDE DEF tomb
  <2> QED
    BY <2>1, <2>2, TombstoneFacts DEF Backed, BackedIn
<1>3. CASE live.at > tomb
  <2>1. MergeOne(b, i) = [live EXCEPT !.removed = 0]
    BY <1>3 DEF MergeOne
  <2>2. 0 \in Time
    BY EntryTimes
  <2> HIDE DEF live
  <2> QED
    BY <1>1, <1>2, <2>1, <2>2, EntryFacts DEF Clean, Backed, BackedIn
<1>4. CASE ~(live.at > tomb)
  <2>1. MergeOne(b, i) = [Absent EXCEPT !.removed = Tombstone(tomb)]
    BY <1>4 DEF MergeOne
  <2>2. /\ MergeOne(b, i) \in Entry /\ MergeOne(b, i).at = 0
        /\ MergeOne(b, i).removed = Tombstone(tomb)
    BY <1>2, <2>1, RemovedFacts
  <2> HIDE DEF live, tomb
  <2> QED
    BY <1>2, <2>2, EntryTimes DEF Clean, Backed, BackedIn
<1> QED
  BY <1>3, <1>4

\* What is built from an inventory is a snapshot.
LEMMA BuildGood ==
  ASSUME now \in Nat, NEW c \in Contact, NEW e \in Entry, Backed(c, e)
  PROVE  BuildOne(e) \in Entry /\ Clean(BuildOne(e)) /\ Backed(c, BuildOne(e))
<1> DEFINE tomb == Tombstone(e.removed)
<1>1. tomb \in Time /\ tomb \in {0, e.removed} /\ 0 \in Time
  BY EntryTimes, TombstoneFacts
<1>2. CASE e.at > 0 /\ e.signed /\ e.at > tomb
  <2>1. BuildOne(e) = [e EXCEPT !.removed = 0]
    BY <1>2 DEF BuildOne
  <2> QED
    BY <1>1, <1>2, <2>1, EntryFacts DEF Clean, Backed, BackedIn
<1>3. CASE ~(e.at > 0 /\ e.signed /\ e.at > tomb)
  <2>1. BuildOne(e) = [Absent EXCEPT !.removed = tomb]
    BY <1>3 DEF BuildOne
  <2>2. /\ BuildOne(e) \in Entry /\ BuildOne(e).at = 0 /\ BuildOne(e).removed = tomb
    BY <1>1, <2>1, RemovedFacts
  <2> HIDE DEF tomb
  <2> QED
    BY <1>1, <2>2, EntryTimes DEF Clean, Backed, BackedIn
<1> QED
  BY <1>2, <1>3

\* The three things that may become of an entry e when a snapshot with s is
\* applied: s replaces it, a tombstone removes it, or it stays.
Taken(e, s, r, tomb) ==
    /\ s.at > tomb /\ r.at = s.at /\ r.signed /\ r.alias = s.alias
    /\ e.at > tomb => /\ e.at <= s.at
                      /\ e.at = s.at /\ e.alias # NoAlias => s.alias # NoAlias
Dropped(e, r, tomb) == e.at <= tomb /\ r.at = 0 /\ r.alias = NoAlias
Stays(e, r, tomb) ==
    /\ e.at > tomb /\ r.at = e.at /\ r.alias = e.alias
    /\ r.signed <=> e.signed

LEMMA BothFacts ==
  ASSUME now \in Nat, NEW c \in Contact, NEW e \in Entry, NEW s \in Entry,
         Backed(c, e), Backed(c, s)
  PROVE  LET tomb == BothTombstones(e, s)
         IN  /\ tomb \in Time /\ tomb <= now
             /\ tomb > 0 => RemovedIn(issued[c], tomb)
             /\ now <= e.removed + Retention => tomb >= e.removed
<1> DEFINE t == Tombstone(e.removed)
           u == Tombstone(s.removed)
<1>1. /\ t \in Time /\ t \in {0, e.removed} /\ u \in Time /\ u \in {0, s.removed}
      /\ now <= e.removed + Retention => t = e.removed
  BY EntryTimes, TombstoneFacts
<1> HIDE DEF t, u
<1>2. Larger(t, u) \in {t, u} /\ Larger(t, u) >= t /\ Larger(t, u) \in Time
  BY <1>1, TombstoneFacts
<1>3. BothTombstones(e, s) = Larger(t, u)
  BY DEF BothTombstones, t, u
<1> QED
  BY <1>1, <1>2, <1>3, EntryTimes DEF Backed, BackedIn

LEMMA ApplyCases ==
  ASSUME now \in Nat, NEW c \in Contact, NEW e \in Entry, NEW s \in Entry, NEW ok,
         Clean(s), Backed(c, e), Backed(c, s)
  PROVE  LET r == ApplyOne(e, s, ok)
             tomb == BothTombstones(e, s)
         IN  /\ r \in Entry /\ r.removed = tomb
             /\ Taken(e, s, r, tomb) \/ Dropped(e, r, tomb) \/ Stays(e, r, tomb)
<1> DEFINE r == ApplyOne(e, s, ok)
           tomb == BothTombstones(e, s)
           kept == Kept(e, tomb)
<1>1. tomb \in Time /\ Time \subseteq Nat /\ e.at \in Nat /\ s.at \in Nat
  BY BothFacts, EntryTimes
<1> HIDE DEF tomb
<1>2. /\ kept \in Entry /\ kept.removed = tomb
      /\ Dropped(e, kept, tomb) \/ Stays(e, kept, tomb)
  <2>1. CASE e.at <= tomb
    <3>1. kept = [Absent EXCEPT !.removed = tomb]
      BY <2>1 DEF Kept
    <3> QED
      BY <1>1, <2>1, <3>1, RemovedFacts DEF Dropped
  <2>2. CASE e.at > tomb
    <3>1. kept = [e EXCEPT !.removed = tomb]
      BY <1>1, <2>2 DEF Kept
    <3> QED
      BY <1>1, <2>2, <3>1, EntryFacts DEF Stays
  <2> QED
    BY <1>1, <2>1, <2>2
<1> HIDE DEF kept
<1>3. CASE s.at > tomb /\ ~ Superseded(s, kept) /\ ok
  <2>1. r = [s EXCEPT !.removed = tomb]
    BY <1>3 DEF ApplyOne, kept, tomb
  <2>2. r \in Entry /\ r.removed = tomb /\ r.at = s.at /\ r.alias = s.alias /\ r.signed = s.signed
    BY <1>1, <2>1, EntryFacts
  <2>3. s.signed
    BY <1>1, <1>3 DEF Clean
  <2>4. Taken(e, s, r, tomb)
    <3> HIDE DEF r
    <3> QED
      BY <1>1, <1>2, <1>3, <2>2, <2>3 DEF Taken, Dropped, Stays, Superseded
  <2> QED
    BY <2>2, <2>4 DEF tomb
<1>4. CASE ~(s.at > tomb /\ ~ Superseded(s, kept) /\ ok)
  <2>1. r = kept
    BY <1>4 DEF ApplyOne, kept, tomb
  <2> QED
    BY <1>2, <2>1 DEF tomb
<1> QED
  BY <1>3, <1>4

\* Applying a snapshot invents no acceptance and no removal.
LEMMA ApplyBacked ==
  ASSUME now \in Nat, NEW c \in Contact, NEW e \in Entry, NEW s \in Entry, NEW ok,
         Clean(s), Backed(c, e), Backed(c, s), e.at = 0 => e.alias = NoAlias
  PROVE  LET r == ApplyOne(e, s, ok)
         IN  r \in Entry /\ Backed(c, r) /\ (r.at = 0 => r.alias = NoAlias)
<1> DEFINE r == ApplyOne(e, s, ok)
           tomb == BothTombstones(e, s)
<1>1. /\ tomb \in Nat /\ tomb <= now /\ (tomb > 0 => RemovedIn(issued[c], tomb))
      /\ e.at \in Nat /\ s.at \in Nat /\ e.removed \in Nat /\ s.removed \in Nat
  BY BothFacts, EntryTimes
<1>2. /\ r \in Entry /\ r.removed = tomb
      /\ Taken(e, s, r, tomb) \/ Dropped(e, r, tomb) \/ Stays(e, r, tomb)
  BY ApplyCases
<1> HIDE DEF r, tomb
<1>3. Backed(c, r) /\ (r.at = 0 => r.alias = NoAlias)
  BY <1>1, <1>2 DEF Taken, Dropped, Stays, Backed, BackedIn, Clean
<1> QED
  BY <1>2, <1>3 DEF r

LEMMA HistoryGrows ==
  ASSUME NEW S, NEW T, NEW t, S \subseteq T
  PROVE  /\ AcceptedIn(S, t) => AcceptedIn(T, t)
         /\ RemovedIn(S, t) => RemovedIn(T, t)
  BY DEF AcceptedIn, RemovedIn

LEMMA InitInv == Init => IInv
<1> SUFFICES ASSUME Init PROVE IInv
  OBVIOUS
<1> USE AbsentFacts, TimeAssumption, BoundAssumption DEF Init
<1>1. \A c \in Contact : Backed(c, Absent) /\ Clean(Absent)
  BY DEF Backed, BackedIn, Clean
<1>2. Good(Empty)
  BY <1>1 DEF Good, GoodIn, Backed
<1>3. SnapshotInv
  <2>1. Good(backup) /\ \A d \in Device : Good(base[d]) /\ Good(merged[d])
    BY <1>2 DEF Good, GoodIn, Backed, BackedIn
  <2> QED
    BY <2>1 DEF SnapshotInv
<1>4. InventoryInv
  BY <1>1 DEF InventoryInv, Backed, BackedIn
<1>5. exists \in BOOLEAN /\ retried \in [Device -> BOOLEAN]
  BY Zenon
<1>6. TypeOK
  BY <1>3, <1>5 DEF TypeOK, SnapshotInv, Good, GoodIn, Clean, Backed
<1> QED
  BY <1>3, <1>4, <1>6 DEF IInv

\* The part of TypeOK that is about snapshots follows from SnapshotInv.
Scalars ==
    /\ now \in 1..MaxTime
    /\ inventory \in [Device -> Snapshot]
    /\ exists \in BOOLEAN
    /\ phase \in [Device -> {"idle", "fetched", "again", "uploaded"}]
    /\ tag \in [Device -> {"none", "current", "outdated"}]
    /\ retried \in [Device -> BOOLEAN]
    /\ ops \in 0..MaxOps /\ faults \in 0..MaxFaults
    /\ issued \in [Contact -> SUBSET [at : 1..MaxTime, removed : BOOLEAN]]

LEMMA TypeParts ==
  /\ TypeOK => Scalars
  /\ Scalars' /\ SnapshotInv' => TypeOK'
  BY DEF TypeOK, Scalars, SnapshotInv, Good, GoodIn, Clean, Backed

LEMMA UploadGood == ASSUME IInv, NEW d \in Device PROVE Good(Upload(d))
<1> DEFINE i == build_contact_snapshot(inventory[d])
<1>0. now \in Nat /\ inventory[d] \in Snapshot /\ base[d] \in Snapshot /\ Good(base[d])
  BY TimeAssumption DEF IInv, TypeOK, SnapshotInv
<1>1. \A c \in Contact : i[c] \in Entry /\ Clean(i[c]) /\ Backed(c, i[c])
  BY <1>0, BuildGood DEF IInv, InventoryInv, build_contact_snapshot, Snapshot
<1> HIDE DEF i
<1>2. \A c \in Contact : /\ Upload(d)[c] = MergeOne(base[d][c], i[c])
                         /\ base[d][c] \in Entry /\ Clean(base[d][c]) /\ Backed(c, base[d][c])
  BY <1>0 DEF Upload, merge_contact_snapshots, i, Good, GoodIn, Snapshot, Backed
<1>3. \A c \in Contact : Upload(d)[c] \in Entry /\ Clean(Upload(d)[c]) /\ Backed(c, Upload(d)[c])
  BY <1>0, <1>1, <1>2, MergeGood
<1>4. Upload(d) = [c \in Contact |-> Upload(d)[c]]
  BY DEF Upload, merge_contact_snapshots
<1> QED
  BY <1>3, <1>4 DEF Good, GoodIn, Snapshot, Backed

\* A longer history at a later time backs what the shorter one did.
LEMMA GoodGrows ==
  ASSUME NEW H, NEW K, NEW t \in Nat, NEW u \in Nat, t <= u,
         \A c \in Contact : H[c] \subseteq K[c]
  PROVE  /\ \A c \in Contact, e \in Entry : BackedIn(H[c], t, e) => BackedIn(K[c], u, e)
         /\ \A s : GoodIn(s, H, t) => GoodIn(s, K, u)
<1>1. ASSUME NEW c \in Contact, NEW e \in Entry, BackedIn(H[c], t, e)
      PROVE  BackedIn(K[c], u, e)
  <2>1. e.at \in Nat /\ e.removed \in Nat /\ H[c] \subseteq K[c]
    BY EntryTimes
  <2>2. /\ AcceptedIn(H[c], e.at) => AcceptedIn(K[c], e.at)
        /\ RemovedIn(H[c], e.removed) => RemovedIn(K[c], e.removed)
    BY <2>1, HistoryGrows
  <2> QED
    BY <1>1, <2>1, <2>2 DEF BackedIn
<1>2. ASSUME NEW s, GoodIn(s, H, t) PROVE GoodIn(s, K, u)
  <2>1. \A c \in Contact : s[c] \in Entry
    BY <1>2 DEF GoodIn, Snapshot
  <2> QED
    BY <1>1, <1>2, <2>1 DEF GoodIn
<1> QED
  BY <1>1, <1>2

\* Snapshots that nobody changes stay backed.
LEMMA SnapshotsKept ==
  ASSUME IInv, now' \in Nat, now <= now', \A c \in Contact : issued[c] \subseteq issued'[c],
         UNCHANGED <<backup, base, merged>>
  PROVE  /\ SnapshotInv'
         /\ \A c \in Contact, e \in Entry : Backed(c, e) => BackedIn(issued'[c], now', e)
<1>1. now \in Nat /\ SnapshotInv
  BY TimeAssumption DEF IInv, TypeOK
<1>2. /\ \A c \in Contact, e \in Entry :
           BackedIn(issued[c], now, e) => BackedIn(issued'[c], now', e)
      /\ \A s : GoodIn(s, issued, now) => GoodIn(s, issued', now')
  BY <1>1, GoodGrows
<1>3. /\ GoodIn(backup, issued', now')
      /\ \A d \in Device : GoodIn(base[d], issued', now') /\ GoodIn(merged[d], issued', now')
  BY <1>1, <1>2 DEF SnapshotInv, Good
<1> QED
  BY <1>1, <1>2, <1>3 DEF SnapshotInv, Good, Backed

\* What a user does to one entry of one device.
LEMMA UserActInv ==
  ASSUME IInv, UserAct, NEW d \in Device, NEW c \in Contact, NEW f \in Entry,
         inventory' = [inventory EXCEPT ![d] = [inventory[d] EXCEPT ![c] = f]],
         issued' \in [Contact -> SUBSET [at : 1..MaxTime, removed : BOOLEAN]],
         \A x \in Contact : issued[x] \subseteq issued'[x],
         BackedIn(issued'[c], now, f), f.at = 0 => f.alias = NoAlias
  PROVE  IInv'
<1>1. /\ now \in Nat /\ now' = now /\ now \in 1..MaxTime
      /\ UNCHANGED <<backup, exists, phase, base, tag, merged, retried, faults>>
      /\ Scalars /\ InventoryInv /\ SnapshotInv
  BY TypeParts, TimeAssumption DEF IInv, UserAct, server, device, TypeOK
<1>2. /\ SnapshotInv'
      /\ \A x \in Contact, e \in Entry : Backed(x, e) => BackedIn(issued'[x], now', e)
  BY <1>1, SnapshotsKept
<1>3. Scalars'
  <2>1. ops' \in 0..MaxOps
    BY <1>1, BoundAssumption DEF Scalars, UserAct
  <2>2. inventory' \in [Device -> Snapshot]
    BY <1>1 DEF Scalars, Snapshot
  <2> QED
    BY <1>1, <2>1, <2>2 DEF Scalars
<1>4. InventoryInv'
  <2> SUFFICES ASSUME NEW e \in Device, NEW x \in Contact
               PROVE  /\ BackedIn(issued'[x], now', inventory'[e][x])
                      /\ inventory'[e][x].at = 0 => inventory'[e][x].alias = NoAlias
    BY DEF InventoryInv, Backed
  <2>1. CASE e = d /\ x = c
    <3>1. inventory'[e][x] = f
      BY <1>1, <2>1 DEF Scalars, Snapshot
    <3> QED
      BY <1>1, <2>1, <3>1
  <2>2. CASE ~(e = d /\ x = c)
    <3>1. inventory'[e][x] = inventory[e][x] /\ inventory[e][x] \in Entry
      BY <1>1, <2>2 DEF Scalars, Snapshot
    <3>2. Backed(x, inventory[e][x]) /\ (inventory[e][x].at = 0 => inventory[e][x].alias = NoAlias)
      BY <1>1 DEF InventoryInv
    <3> QED
      BY <1>2, <3>1, <3>2
  <2> QED
    BY <2>1, <2>2
<1> QED
  BY <1>2, <1>3, <1>4, TypeParts DEF IInv

LEMMA StampFacts ==
  ASSUME IInv, NEW c \in Contact, NEW r \in BOOLEAN, NEW h,
         h = [issued EXCEPT ![c] = @ \cup {Stamp(r)}]
  PROVE  /\ h \in [Contact -> SUBSET [at : 1..MaxTime, removed : BOOLEAN]]
         /\ \A x \in Contact : issued[x] \subseteq h[x]
         /\ r = FALSE => AcceptedIn(h[c], now)
         /\ r = TRUE => RemovedIn(h[c], now)
<1>1. now \in 1..MaxTime /\ issued \in [Contact -> SUBSET [at : 1..MaxTime, removed : BOOLEAN]]
  BY DEF IInv, TypeOK
<1>2. Stamp(r) \in [at : 1..MaxTime, removed : BOOLEAN]
  BY <1>1 DEF Stamp
<1>3. h[c] = issued[c] \cup {Stamp(r)} /\ \A x \in Contact : x # c => h[x] = issued[x]
  BY <1>1
<1>4. h \in [Contact -> SUBSET [at : 1..MaxTime, removed : BOOLEAN]]
  BY <1>1, <1>2
<1>5. (r = FALSE => AcceptedIn(h[c], now)) /\ (r = TRUE => RemovedIn(h[c], now))
  BY <1>3 DEF Stamp, AcceptedIn, RemovedIn, Live, Tomb
<1> QED
  BY <1>3, <1>4, <1>5

LEMMA UserSteps ==
  ASSUME IInv, NEW d \in Device, NEW c \in Contact
  PROVE  /\ import_tzap_contact_card(d, c) => IInv'
         /\ AddBareKey(d, c) => IInv'
         /\ \A a \in Alias : SetAlias(d, c, a) => IInv'
         /\ RemoveContact(d, c) => IInv'
         /\ tzap_contact_remove_json(d, c) => IInv'
<1> DEFINE e == inventory[d][c]
<1>1. /\ now \in Nat /\ now > 0 /\ now \in Time
      /\ inventory \in [Device -> Snapshot] /\ inventory[d] \in [Contact -> Entry]
      /\ issued \in [Contact -> SUBSET [at : 1..MaxTime, removed : BOOLEAN]]
  BY TimeAssumption DEF IInv, TypeOK, Snapshot, Time
<1>2. /\ e \in Entry /\ e.at \in Time /\ e.removed \in Time /\ e.at \in Nat /\ e.removed \in Nat
      /\ BackedIn(issued[c], now, e)
      /\ (e.at = 0 => e.alias = NoAlias)
  BY <1>1, EntryTimes DEF IInv, InventoryInv, Backed
<1>3. ASSUME import_tzap_contact_card(d, c) PROVE IInv'
  <2> DEFINE f == [e EXCEPT !.at = now, !.alias = NoAlias, !.signed = TRUE]
  <2>1. /\ f \in Entry /\ f.at = now /\ f.removed = e.removed /\ f.alias = NoAlias
    BY <1>1, <1>2 DEF Entry
  <2>2. inventory' = [inventory EXCEPT ![d] = [inventory[d] EXCEPT ![c] = f]]
    BY <1>1, <1>3 DEF import_tzap_contact_card
  <2>3. /\ issued' \in [Contact -> SUBSET [at : 1..MaxTime, removed : BOOLEAN]]
        /\ \A x \in Contact : issued[x] \subseteq issued'[x]
        /\ AcceptedIn(issued'[c], now)
    BY <1>3, StampFacts DEF import_tzap_contact_card
  <2>4. RemovedIn(issued[c], e.removed) => RemovedIn(issued'[c], e.removed)
    BY <2>3, HistoryGrows
  <2> HIDE DEF f, e
  <2>5. BackedIn(issued'[c], now, f)
    BY <1>1, <1>2, <2>1, <2>3, <2>4 DEF BackedIn
  <2>6. UserAct
    BY <1>3 DEF import_tzap_contact_card
  <2> QED
    BY <1>1, <2>1, <2>2, <2>3, <2>5, <2>6, UserActInv
<1>4. ASSUME AddBareKey(d, c) PROVE IInv'
  <2> DEFINE f == [e EXCEPT !.at = now, !.alias = NoAlias, !.signed = FALSE]
  <2>1. /\ f \in Entry /\ f.at = now /\ f.removed = e.removed /\ f.alias = NoAlias /\ ~ f.signed
    BY <1>1, <1>2 DEF Entry
  <2>2. inventory' = [inventory EXCEPT ![d] = [inventory[d] EXCEPT ![c] = f]]
    BY <1>1, <1>4 DEF AddBareKey
  <2>3. issued' = issued
    BY <1>4 DEF AddBareKey
  <2> HIDE DEF f, e
  <2>5. BackedIn(issued'[c], now, f)
    BY <1>1, <1>2, <2>1, <2>3 DEF BackedIn
  <2>6. UserAct
    BY <1>4 DEF AddBareKey
  <2> QED
    BY <1>1, <2>1, <2>2, <2>3, <2>5, <2>6, UserActInv
<1>5. ASSUME NEW a \in Alias, SetAlias(d, c, a) PROVE IInv'
  <2> DEFINE f == [e EXCEPT !.alias = a]
  <2>1. /\ f \in Entry /\ f.at = e.at /\ f.removed = e.removed /\ f.signed = e.signed
    BY <1>2 DEF Entry
  <2>2. inventory' = [inventory EXCEPT ![d] = [inventory[d] EXCEPT ![c] = f]]
    BY <1>1, <1>5 DEF SetAlias
  <2>3. issued' = issued /\ e.at > 0
    BY <1>5 DEF SetAlias
  <2> HIDE DEF f, e
  <2>5. BackedIn(issued'[c], now, f)
    BY <1>1, <1>2, <2>1, <2>3 DEF BackedIn
  <2>6. UserAct /\ ~(f.at = 0)
    BY <1>2, <1>5, <2>1, <2>3 DEF SetAlias
  <2> QED
    BY <1>1, <2>1, <2>2, <2>3, <2>5, <2>6, UserActInv
<1>6. ASSUME RemoveContact(d, c) PROVE IInv'
  <2> DEFINE f == [Absent EXCEPT !.removed = now]
  <2>1. f \in Entry /\ f.at = 0 /\ f.removed = now /\ f.alias = NoAlias
    BY <1>1, RemovedFacts
  <2>2. inventory' = [inventory EXCEPT ![d] = [inventory[d] EXCEPT ![c] = f]]
    BY <1>1, <1>6 DEF RemoveContact
  <2>3. /\ issued' \in [Contact -> SUBSET [at : 1..MaxTime, removed : BOOLEAN]]
        /\ \A x \in Contact : issued[x] \subseteq issued'[x]
        /\ RemovedIn(issued'[c], now)
    BY <1>6, StampFacts DEF RemoveContact
  <2> HIDE DEF f
  <2>5. BackedIn(issued'[c], now, f)
    BY <1>1, <2>1, <2>3 DEF BackedIn
  <2> QED
    BY <1>1, <1>6, <2>1, <2>2, <2>3, <2>5, UserActInv DEF RemoveContact
<1>7. ASSUME tzap_contact_remove_json(d, c) PROVE IInv'
  <2> DEFINE f == [Absent EXCEPT !.removed = e.removed]
  <2>1. f \in Entry /\ f.at = 0 /\ f.removed = e.removed /\ f.alias = NoAlias
    BY <1>2, RemovedFacts
  <2>2. inventory' = [inventory EXCEPT ![d] = [inventory[d] EXCEPT ![c] = f]]
    BY <1>1, <1>7 DEF tzap_contact_remove_json
  <2>3. issued' = issued
    BY <1>7 DEF tzap_contact_remove_json
  <2> HIDE DEF f, e
  <2>5. BackedIn(issued'[c], now, f)
    BY <1>1, <1>2, <2>1, <2>3 DEF BackedIn
  <2> QED
    BY <1>1, <1>7, <2>1, <2>2, <2>3, <2>5, UserActInv DEF tzap_contact_remove_json
<1> QED
  BY <1>3, <1>4, <1>5, <1>6, <1>7

\* The steps of a synchronisation that leave the inventories alone.
LEMMA SyncInv ==
  ASSUME IInv, UNCHANGED <<now, inventory, issued, ops>>,
         exists' \in BOOLEAN, faults' \in 0..MaxFaults,
         phase' \in [Device -> {"idle", "fetched", "again", "uploaded"}],
         tag' \in [Device -> {"none", "current", "outdated"}],
         retried' \in [Device -> BOOLEAN],
         Good(backup)', base' \in [Device -> Snapshot], merged' \in [Device -> Snapshot],
         \A d \in Device : GoodIn(base'[d], issued, now) /\ GoodIn(merged'[d], issued, now)
  PROVE  IInv'
<1>1. Scalars'
  BY TypeParts DEF IInv, Scalars
<1>2. SnapshotInv'
  BY DEF SnapshotInv, Good
<1>3. InventoryInv'
  BY DEF IInv, InventoryInv, Backed
<1> QED
  BY <1>1, <1>2, <1>3, TypeParts DEF IInv

\* A snapshot that is put into the slot of one device.
LEMMA SlotFacts ==
  ASSUME NEW H, NEW t, NEW f \in [Device -> Snapshot], NEW d \in Device, NEW s, GoodIn(s, H, t),
         \A e \in Device : GoodIn(f[e], H, t)
  PROVE  /\ [f EXCEPT ![d] = s] \in [Device -> Snapshot]
         /\ \A e \in Device : GoodIn([f EXCEPT ![d] = s][e], H, t)
<1>1. s \in Snapshot
  BY DEF GoodIn
<1>2. ASSUME NEW e \in Device PROVE GoodIn([f EXCEPT ![d] = s][e], H, t)
  <2>1. CASE e = d
    BY <2>1
  <2>2. CASE e # d
    BY <2>2
  <2> QED
    BY <2>1, <2>2
<1> QED
  BY <1>1, <1>2

LEMMA EmptyGood == ASSUME NEW H, NEW t \in Nat PROVE GoodIn(Empty, H, t)
<1>1. \A c \in Contact : BackedIn(H[c], t, Absent) /\ Clean(Absent)
  BY AbsentFacts DEF BackedIn, Clean
<1> QED
  BY <1>1, AbsentFacts DEF GoodIn

LEMMA DeleteInv == IInv /\ delete_contact_backup => IInv'
<1> SUFFICES ASSUME IInv, delete_contact_backup PROVE IInv'
  OBVIOUS
<1>1. /\ now \in Nat /\ Scalars /\ SnapshotInv
      /\ phase \in [Device -> {"idle", "fetched", "again", "uploaded"}]
      /\ tag \in [Device -> {"none", "current", "outdated"}]
  BY TypeParts, TimeAssumption DEF IInv, Scalars
<1>2. UNCHANGED <<now, inventory, issued, ops, phase, base, merged, retried>>
  BY DEF delete_contact_backup, Quiet
<1>3. exists' \in BOOLEAN /\ backup' = Empty
  BY Zenon DEF delete_contact_backup
<1>4. tag' \in [Device -> {"none", "current", "outdated"}] /\ faults' \in 0..MaxFaults
  BY <1>1, BoundAssumption DEF delete_contact_backup, Scalars
<1>5. Good(backup)'
  BY <1>1, <1>2, <1>3, EmptyGood DEF Good
<1>6. /\ base' \in [Device -> Snapshot] /\ merged' \in [Device -> Snapshot]
      /\ \A d \in Device : GoodIn(base'[d], issued, now) /\ GoodIn(merged'[d], issued, now)
  BY <1>1, <1>2 DEF SnapshotInv, Good
<1>7. retried' \in [Device -> BOOLEAN]
  BY <1>1, <1>2 DEF Scalars
<1> QED
  BY <1>1, <1>2, <1>3, <1>4, <1>5, <1>6, <1>7, SyncInv

LEMMA SyncSteps ==
  ASSUME IInv, NEW d \in Device
  PROVE  /\ fetch_contact_backup(d) => IInv'
         /\ put_contact_backup(d) => IInv'
         /\ PutAnswerLost(d) => IInv'
         /\ PreconditionFailed(d) => IInv'
         /\ Apply(d) => IInv'
<1>1. /\ now \in Nat /\ Scalars /\ InventoryInv
      /\ inventory \in [Device -> Snapshot]
      /\ GoodIn(backup, issued, now)
      /\ base \in [Device -> Snapshot] /\ merged \in [Device -> Snapshot]
      /\ \A e \in Device : GoodIn(base[e], issued, now) /\ GoodIn(merged[e], issued, now)
      /\ faults \in 0..MaxFaults
      /\ phase \in [Device -> {"idle", "fetched", "again", "uploaded"}]
      /\ tag \in [Device -> {"none", "current", "outdated"}]
  BY TypeParts, TimeAssumption DEF IInv, Scalars, SnapshotInv, Good
<1>2. exists \in BOOLEAN /\ retried \in [Device -> BOOLEAN]
  BY <1>1 DEF Scalars
<1>3. GoodIn(Empty, issued, now) /\ GoodIn(Upload(d), issued, now)
  BY <1>1, EmptyGood, UploadGood DEF Good
<1>4. ASSUME fetch_contact_backup(d) PROVE IInv'
  <2>1. UNCHANGED <<now, inventory, issued, ops, faults, backup, exists, merged>>
    BY <1>4 DEF fetch_contact_backup, Quiet, server
  <2>2. base' \in [Device -> Snapshot] /\ \A e \in Device : GoodIn(base'[e], issued, now)
    BY <1>1, <1>4, SlotFacts DEF fetch_contact_backup
  <2>3. retried' \in [Device -> BOOLEAN]
    BY <1>2, <1>4, Zenon DEF fetch_contact_backup
  <2>4. /\ phase' \in [Device -> {"idle", "fetched", "again", "uploaded"}]
        /\ tag' \in [Device -> {"none", "current", "outdated"}]
    BY <1>1, <1>4 DEF fetch_contact_backup
  <2> QED
    BY <1>1, <1>2, <2>1, <2>2, <2>3, <2>4, SyncInv DEF Good
<1>5. ASSUME Store(d, Upload(d))
      PROVE  /\ base' \in [Device -> Snapshot] /\ \A e \in Device : GoodIn(base'[e], issued, now)
             /\ GoodIn(backup', issued, now)
             /\ tag' \in [Device -> {"none", "current", "outdated"}]
             /\ exists' \in BOOLEAN /\ retried' \in [Device -> BOOLEAN]
  <2>1. base' \in [Device -> Snapshot] /\ \A e \in Device : GoodIn(base'[e], issued, now)
    BY <1>1, <1>3, <1>5, SlotFacts DEF Store
  <2>2. tag' \in [Device -> {"none", "current", "outdated"}]
    BY <1>1, <1>5 DEF Store, Outdate
  <2>3. exists' \in BOOLEAN /\ retried' \in [Device -> BOOLEAN]
    BY <1>2, <1>5, Zenon DEF Store
  <2> QED
    BY <1>3, <1>5, <2>1, <2>2, <2>3 DEF Store
<1>6. ASSUME put_contact_backup(d) PROVE IInv'
  <2>1. UNCHANGED <<now, inventory, issued, ops, faults>> /\ Store(d, Upload(d))
    BY <1>6 DEF put_contact_backup, Quiet
  <2>2. merged' \in [Device -> Snapshot] /\ \A e \in Device : GoodIn(merged'[e], issued, now)
    BY <1>1, <1>3, <1>6, SlotFacts DEF put_contact_backup
  <2>3. phase' \in [Device -> {"idle", "fetched", "again", "uploaded"}]
    BY <1>1, <1>6 DEF put_contact_backup
  <2> QED
    BY <1>1, <1>5, <2>1, <2>2, <2>3, SyncInv DEF Good
<1>7. ASSUME PutAnswerLost(d) PROVE IInv'
  <2>1. UNCHANGED <<now, inventory, issued, ops, merged>> /\ Store(d, Upload(d))
    BY <1>7 DEF PutAnswerLost, Quiet
  <2>2. faults' \in 0..MaxFaults
    BY <1>1, <1>7, BoundAssumption DEF PutAnswerLost
  <2>3. phase' \in [Device -> {"idle", "fetched", "again", "uploaded"}]
    BY <1>1, <1>7 DEF PutAnswerLost
  <2> QED
    BY <1>1, <1>5, <2>1, <2>2, <2>3, SyncInv DEF Good
<1>8. ASSUME PreconditionFailed(d) PROVE IInv'
  <2>1. UNCHANGED <<now, inventory, issued, ops, faults, backup, exists, merged>>
    BY <1>8 DEF PreconditionFailed, Quiet, server
  <2>2. base' \in [Device -> Snapshot] /\ \A e \in Device : GoodIn(base'[e], issued, now)
    BY <1>1, <1>3, <1>8, SlotFacts DEF PreconditionFailed
  <2>3. retried' \in [Device -> BOOLEAN]
    BY <1>2, <1>8, Zenon DEF PreconditionFailed
  <2>4. /\ phase' \in [Device -> {"idle", "fetched", "again", "uploaded"}]
        /\ tag' \in [Device -> {"none", "current", "outdated"}]
    BY <1>1, <1>8 DEF PreconditionFailed
  <2> QED
    BY <1>1, <1>2, <2>1, <2>2, <2>3, <2>4, SyncInv DEF Good
<1>9. ASSUME Apply(d) PROVE IInv'
  <2>1. /\ UNCHANGED <<now, issued, ops, backup, exists, base, tag, retried>>
        /\ merged' = [merged EXCEPT ![d] = Empty]
        /\ phase' = [phase EXCEPT ![d] = "idle"]
    BY <1>9 DEF Apply, Quiet, server
  <2>2. PICK failing \in SUBSET Contact :
          /\ failing # {} => faults < MaxFaults
          /\ faults' = IF failing = {} THEN faults ELSE faults + 1
          /\ inventory' = [inventory EXCEPT ![d] =
                             apply_contact_snapshot(inventory[d], merged[d], failing)]
    BY <1>9 DEF Apply
  <2> DEFINE i == apply_contact_snapshot(inventory[d], merged[d], failing)
  <2>3. \A c \in Contact : /\ i[c] \in Entry /\ BackedIn(issued[c], now, i[c])
                           /\ i[c].at = 0 => i[c].alias = NoAlias
    <3> SUFFICES ASSUME NEW c \in Contact
                 PROVE  /\ i[c] \in Entry /\ BackedIn(issued[c], now, i[c])
                        /\ i[c].at = 0 => i[c].alias = NoAlias
      OBVIOUS
    <3>1. /\ inventory[d][c] \in Entry /\ Backed(c, inventory[d][c])
          /\ inventory[d][c].at = 0 => inventory[d][c].alias = NoAlias
      BY <1>1 DEF InventoryInv, Snapshot
    <3>2. merged[d][c] \in Entry /\ Clean(merged[d][c]) /\ Backed(c, merged[d][c])
      BY <1>1 DEF GoodIn, Backed, Snapshot
    <3>3. i[c] = ApplyOne(inventory[d][c], merged[d][c], verify_tzap_contact_card(c, failing))
      BY DEF apply_contact_snapshot
    <3> HIDE DEF i
    <3> QED
      BY <1>1, <3>1, <3>2, <3>3, ApplyBacked DEF Backed
  <2>4. i \in Snapshot
    <3>1. i = [c \in Contact |-> i[c]]
      BY DEF apply_contact_snapshot
    <3> HIDE DEF i
    <3> QED
      BY <2>3, <3>1 DEF Snapshot
  <2>5. inventory' = [inventory EXCEPT ![d] = i]
    BY <2>2
  <2> HIDE DEF i
  <2>6. Scalars'
    <3>1. faults' \in 0..MaxFaults
      BY <1>1, <2>2, BoundAssumption
    <3>2. inventory' \in [Device -> Snapshot]
      BY <1>1, <2>4, <2>5
    <3> QED
      BY <1>1, <2>1, <3>1, <3>2 DEF Scalars
  <2>7. InventoryInv'
    <3> SUFFICES ASSUME NEW e \in Device, NEW c \in Contact
                 PROVE  /\ BackedIn(issued[c], now, inventory'[e][c])
                        /\ inventory'[e][c].at = 0 => inventory'[e][c].alias = NoAlias
      BY <2>1 DEF InventoryInv, Backed
    <3>1. CASE e = d
      BY <1>1, <2>3, <2>5, <3>1
    <3>2. CASE e # d
      BY <1>1, <2>5, <3>2 DEF InventoryInv, Backed
    <3> QED
      BY <3>1, <3>2
  <2>8. SnapshotInv'
    <3>1. merged' \in [Device -> Snapshot] /\ \A e \in Device : GoodIn(merged'[e], issued, now)
      BY <1>1, <1>3, <2>1, SlotFacts
    <3> QED
      BY <1>1, <2>1, <3>1 DEF SnapshotInv, Good
  <2> QED
    BY <2>6, <2>7, <2>8, TypeParts DEF IInv
<1> QED
  BY <1>4, <1>6, <1>7, <1>8, <1>9

LEMMA InvStep == IInv /\ [Next]_vars => IInv'
<1> SUFFICES ASSUME IInv, [Next]_vars PROVE IInv'
  OBVIOUS
<1>1. CASE Tick
  <2>1. /\ now \in Nat /\ now' \in Nat /\ now <= now' /\ now' \in 1..MaxTime
        /\ UNCHANGED <<inventory, backup, exists, phase, base, tag, merged, retried,
                       ops, faults, issued>>
    BY <1>1, TimeAssumption DEF Tick, server, device, history, IInv, TypeOK
  <2>2. /\ SnapshotInv'
        /\ \A c \in Contact, e \in Entry : Backed(c, e) => BackedIn(issued'[c], now', e)
    BY <2>1, SnapshotsKept
  <2>3. Scalars'
    BY <2>1, TypeParts DEF IInv, Scalars
  <2>4. InventoryInv'
    <3>1. \A d \in Device, c \in Contact : inventory[d][c] \in Entry
      BY DEF IInv, TypeOK, Snapshot
    <3> QED
      BY <2>1, <2>2, <3>1 DEF IInv, InventoryInv, Backed
  <2> QED
    BY <2>2, <2>3, <2>4, TypeParts DEF IInv
<1>2. ASSUME NEW d \in Device, NEW c \in Contact,
             \/ import_tzap_contact_card(d, c) \/ AddBareKey(d, c)
             \/ \E a \in Alias : SetAlias(d, c, a)
             \/ RemoveContact(d, c) \/ tzap_contact_remove_json(d, c)
      PROVE  IInv'
  BY <1>2, UserSteps
<1>3. ASSUME NEW d \in Device,
             \/ fetch_contact_backup(d) \/ put_contact_backup(d) \/ PutAnswerLost(d)
             \/ PreconditionFailed(d) \/ Apply(d)
      PROVE  IInv'
  BY <1>3, SyncSteps
<1>4. CASE delete_contact_backup
  BY <1>4, DeleteInv
<1>5. CASE UNCHANGED vars
  <2>1. UNCHANGED <<now, inventory, backup, exists, phase, base, tag, merged, retried,
                    ops, faults, issued>>
    BY <1>5 DEF vars, server, device, history
  <2> QED
    BY <2>1 DEF IInv, TypeOK, InventoryInv, SnapshotInv, Good, Backed
<1> QED
  BY <1>1, <1>2, <1>3, <1>4, <1>5 DEF Next

(* The inductive invariant holds of every behaviour of the devices, the    *)
(* server and the network.                                                 *)
THEOREM Invariance == Spec => []IInv
  BY InitInv, InvStep, PTL DEF Spec

(* Whatever the devices, the server and the network do, the variables keep *)
(* their types, and no snapshot in the slot, in flight or on a device      *)
(* holds a bare key, or an entry beside a tombstone                        *)
(* (build_contact_snapshot, merge_contact_snapshots).                      *)
THEOREM SnapshotTypeCorrect == Spec => []TypeOK
<1>1. IInv => TypeOK
  BY DEF IInv
<1> QED
  BY <1>1, Invariance, PTL
-----------------------------------------------------------------------------
\* The times that building, merging and applying give to a contact.
LEMMA BuildTimes ==
  ASSUME now \in Nat, NEW e \in Entry
  PROVE  LET t == Tombstone(e.removed)
             i == BuildOne(e)
         IN  /\ i \in Entry
             /\ e.at > 0 /\ e.signed /\ e.at > t => i.at = e.at /\ i.removed = 0
             /\ ~(e.at > 0 /\ e.signed /\ e.at > t) => i.at = 0 /\ i.removed = t
<1> DEFINE t == Tombstone(e.removed)
<1>1. t \in Time /\ 0 \in Time
  BY EntryTimes, TombstoneFacts
<1>2. CASE e.at > 0 /\ e.signed /\ e.at > t
  <2>1. BuildOne(e) = [e EXCEPT !.removed = 0]
    BY <1>2 DEF BuildOne
  <2> QED
    BY <1>1, <1>2, <2>1, EntryFacts
<1>3. CASE ~(e.at > 0 /\ e.signed /\ e.at > t)
  <2>1. BuildOne(e) = [Absent EXCEPT !.removed = t]
    BY <1>3 DEF BuildOne
  <2> QED
    BY <1>1, <1>3, <2>1, RemovedFacts
<1> QED
  BY <1>2, <1>3

LEMMA MergeTimes ==
  ASSUME now \in Nat, NEW b \in Entry, NEW i \in Entry
  PROVE  LET live == Larger(b.at, i.at)
             tomb == Larger(b.removed, i.removed)
             m == MergeOne(b, i)
         IN  /\ m \in Entry
             /\ live > tomb => m.at = live /\ m.removed = 0
             /\ ~(live > tomb) => m.at = 0 /\ m.removed = Tombstone(tomb)
<1> DEFINE live == NewerEntry(b, i)
           tomb == Larger(b.removed, i.removed)
           m == MergeOne(b, i)
<1>1. b.at \in Nat /\ i.at \in Nat /\ b.removed \in Time /\ i.removed \in Time /\ 0 \in Time
  BY EntryTimes
<1>2. tomb \in Time /\ Tombstone(tomb) \in Time
  <2>1. tomb \in Time
    BY <1>1, TombstoneFacts
  <2> HIDE DEF tomb
  <2> QED
    BY <2>1, TombstoneFacts
<1>3. live \in Entry /\ live.at = Larger(b.at, i.at)
  BY <1>1, NewerFacts DEF Larger
<1>4. CASE live.at > tomb
  <2>1. m = [live EXCEPT !.removed = 0]
    BY <1>4 DEF MergeOne
  <2>2. m \in Entry /\ m.at = live.at /\ m.removed = 0
    BY <1>1, <1>3, <2>1, EntryFacts
  <2> QED
    BY <1>3, <1>4, <2>2
<1>5. CASE ~(live.at > tomb)
  <2>1. m = [Absent EXCEPT !.removed = Tombstone(tomb)]
    BY <1>5 DEF MergeOne
  <2>2. m \in Entry /\ m.at = 0 /\ m.removed = Tombstone(tomb)
    BY <1>2, <2>1, RemovedFacts
  <2> QED
    BY <1>3, <1>5, <2>2
<1> QED
  BY <1>4, <1>5

LEMMA ApplyTimes ==
  ASSUME now \in Nat, NEW e \in Entry, NEW s \in Entry
  PROVE  LET tomb == BothTombstones(e, s)
             left == IF e.at <= tomb THEN 0 ELSE e.at
             r == ApplyOne(e, s, TRUE)
         IN  /\ r.at \in {left, s.at}
             /\ s.at <= tomb => r.at = left
             /\ s.at > tomb /\ s.at > left => r.at = s.at
<1> DEFINE tomb == BothTombstones(e, s)
           kept == Kept(e, tomb)
           left == IF e.at <= tomb THEN 0 ELSE e.at
           r == ApplyOne(e, s, TRUE)
<1>1. tomb \in Time /\ tomb \in Nat /\ e.at \in Nat /\ s.at \in Nat
  <2>1. Tombstone(e.removed) \in Time /\ Tombstone(s.removed) \in Time
    BY EntryTimes, TombstoneFacts
  <2> QED
    BY <2>1, EntryTimes, TombstoneFacts DEF BothTombstones
<1> HIDE DEF tomb
<1>2. kept.at = left
  <2>1. CASE e.at <= tomb
    <3>1. kept = [Absent EXCEPT !.removed = tomb]
      BY <2>1 DEF Kept
    <3> QED
      BY <1>1, <2>1, <3>1, RemovedFacts
  <2>2. CASE ~(e.at <= tomb)
    <3>1. kept = [e EXCEPT !.removed = tomb]
      BY <2>2 DEF Kept
    <3> QED
      BY <1>1, <2>2, <3>1, EntryFacts
  <2> QED
    BY <2>1, <2>2
<1>3. left \in Nat
  BY <1>1
<1> HIDE DEF kept, left
<1>4. \/ s.at > tomb /\ ~ Superseded(s, kept) /\ r.at = s.at
      \/ ~(s.at > tomb /\ ~ Superseded(s, kept)) /\ r.at = kept.at
  <2>1. CASE s.at > tomb /\ ~ Superseded(s, kept)
    <3>1. r = [s EXCEPT !.removed = tomb]
      BY <2>1 DEF ApplyOne, kept, tomb
    <3>2. r.at = s.at
      <4> HIDE DEF r
      <4> QED
        BY <1>1, <3>1, EntryFacts
    <3> QED
      BY <2>1, <3>2
  <2>2. CASE ~(s.at > tomb /\ ~ Superseded(s, kept))
    BY <2>2 DEF ApplyOne, kept, tomb
  <2> QED
    BY <2>1, <2>2
<1> HIDE DEF r
<1>5. /\ r.at \in {left, s.at}
      /\ s.at <= tomb => r.at = left
      /\ s.at > tomb /\ s.at > left => r.at = s.at
  BY <1>1, <1>2, <1>3, <1>4 DEF Superseded
<1> QED
  BY <1>5 DEF r, left, tomb

\* A device that synchronising does not change holds what the slot holds.
LEMMA SettledOne ==
  ASSUME now \in Nat, NEW b \in Entry, NEW e \in Entry, NEW s, s = MergeOne(b, BuildOne(e)),
         b.at > 0 => b.removed = 0, e.at > 0 => e.signed,
         s.at = b.at, s.removed = b.removed, ApplyOne(e, s, TRUE).at = e.at
  PROVE  e.at = b.at
<1> DEFINE i == BuildOne(e)
           t == Tombstone(e.removed)
           u == Tombstone(s.removed)
<1>1. /\ b.at \in Nat /\ b.removed \in Time /\ e.at \in Nat /\ e.removed \in Time
      /\ b.removed \in Nat /\ e.removed \in Nat
  BY EntryTimes
<1>2. /\ i \in Entry /\ i.at \in Nat /\ i.removed \in Nat
      /\ e.at > t /\ e.at > 0 => i.at = e.at /\ i.removed = 0
      /\ ~(e.at > t /\ e.at > 0) => i.at = 0 /\ i.removed = t
  BY BuildTimes, EntryTimes
<1>3. t \in Nat /\ u \in Nat
  BY <1>1, TombstoneFacts, EntryTimes
<1> DEFINE live == Larger(b.at, i.at)
           tomb == Larger(b.removed, i.removed)
           both == Larger(t, u)
           left == IF e.at <= both THEN 0 ELSE e.at
<1>4. /\ s \in Entry
      /\ live > tomb => s.at = live /\ s.removed = 0
      /\ ~(live > tomb) => s.at = 0 /\ s.removed = Tombstone(tomb)
  BY <1>2, MergeTimes
<1>5. /\ e.at \in {left, s.at}
      /\ s.at <= both => e.at = left
      /\ s.at > both /\ s.at > left => e.at = s.at
  <2>1. LET t1 == BothTombstones(e, s)
            l1 == IF e.at <= t1 THEN 0 ELSE e.at
        IN  /\ e.at \in {l1, s.at}
            /\ s.at <= t1 => e.at = l1
            /\ s.at > t1 /\ s.at > l1 => e.at = s.at
    BY <1>4, ApplyTimes
  <2>2. both = BothTombstones(e, s)
    BY DEF BothTombstones
  <2> HIDE DEF both
  <2> QED
    BY <2>1, <2>2
<1>6. /\ both \in Nat /\ both >= t /\ both >= u
      /\ live \in Nat /\ live >= b.at /\ live >= i.at /\ live \in {b.at, i.at}
      /\ tomb \in {b.removed, i.removed}
      /\ b.removed = 0 => tomb = i.removed
      /\ i.removed = 0 => tomb = b.removed
  <2> HIDE DEF i, t, u
  <2> QED
    BY <1>1, <1>2, <1>3 DEF Larger
<1>7. left = IF e.at <= both THEN 0 ELSE e.at
  OBVIOUS
<1> HIDE DEF i, live, tomb, both, left, t, u
<1>8. CASE b.at > 0
  <2>1. tomb = i.removed
    BY <1>6, <1>8
  <2>2. CASE e.at > t /\ e.at > 0
    <3>1. s.at >= e.at /\ b.at >= e.at
      BY <1>1, <1>2, <1>4, <1>6, <2>1, <2>2
    <3>2. b.at <= both => e.at <= both
      BY <1>1, <1>6, <3>1
    <3> QED
      BY <1>1, <1>5, <1>6, <1>7, <1>8, <2>2, <3>1, <3>2
  <2>3. CASE ~(e.at > t /\ e.at > 0)
    <3>1. s.at = b.at /\ i.at = 0 /\ i.removed = t /\ live = b.at /\ b.at > t
      BY <1>1, <1>2, <1>3, <1>4, <1>6, <1>8, <2>1, <2>3
    <3>2. s.removed = 0 /\ u = 0
      BY <1>1, <1>4, <2>1, <3>1 DEF u, Tombstone
    <3>3. both = t
      BY <1>3, <3>2 DEF both, Larger
    <3> QED
      BY <1>1, <1>3, <1>5, <1>7, <1>8, <2>3, <3>1, <3>3
  <2> QED
    BY <2>2, <2>3
<1>9. CASE b.at = 0 /\ e.at > 0
  <2>1. e.at = left /\ ~(e.at <= both)
    BY <1>1, <1>5, <1>6, <1>7, <1>9
  <2>2. e.at > t /\ i.at = e.at /\ i.removed = 0 /\ live = e.at /\ tomb = b.removed
    BY <1>1, <1>2, <1>3, <1>6, <1>9, <2>1
  <2>3. e.at <= b.removed /\ s.removed = Tombstone(b.removed)
    BY <1>1, <1>2, <1>4, <1>9, <2>2
  <2>4. u = b.removed
    BY <2>3 DEF u
  <2>5. both >= b.removed /\ both \in Nat
    BY <1>6, <2>4
  <2> QED
    BY <1>1, <2>1, <2>3, <2>5
<1> QED
  BY <1>1, <1>8, <1>9

(* Where synchronising changes nothing any more, on any number of devices, *)
(* all of them hold the same contacts since the same time: what the slot   *)
(* holds (merge_contact_snapshots, apply_contact_snapshot).                *)
THEOREM SettledDevicesAgree == Spec => []SettledMeansAgreed
<1>1. ASSUME IInv PROVE SettledMeansAgreed
  <2> SUFFICES ASSUME \A d \in Device : Settled(d), NEW c \in Contact, now < Expires[c],
                      \A f \in Device : inventory[f][c].at > 0 => inventory[f][c].signed
               PROVE  \A d \in Device : inventory[d][c].at = backup[c].at
    <3>1. now \in Nat /\ \A x \in Contact : Expires[x] \in Nat
      BY <1>1, TimeAssumption, ExpiresAssumption DEF IInv, TypeOK
    <3>2. \A x \in Contact : now >= Expires[x] \/ now < Expires[x]
      BY <3>1
    <3> HIDE DEF Settled
    <3> QED
      BY <3>2 DEF SettledMeansAgreed
  <2> TAKE d \in Device
  <2> DEFINE b == backup[c]
             e == inventory[d][c]
             s == MergeOne(b, BuildOne(e))
  <2>1. now \in Nat /\ b \in Entry /\ e \in Entry
    BY <1>1, TimeAssumption DEF IInv, TypeOK, Snapshot
  <2>2. b.at > 0 => b.removed = 0
    BY <1>1 DEF IInv, SnapshotInv, Good, GoodIn, Clean
  <2>3. Settled(d)
    OBVIOUS
  <2>4. verify_tzap_contact_card(c, {}) = TRUE
    BY DEF verify_tzap_contact_card
  <2>5. s.at = b.at /\ s.removed = b.removed /\ ApplyOne(e, s, TRUE).at = e.at
    BY <2>3, <2>4 DEF Settled, merge_contact_snapshots, build_contact_snapshot, apply_contact_snapshot
  <2> HIDE DEF s
  <2>6. s = MergeOne(b, BuildOne(e))
    BY DEF s
  <2>7. e.at > 0 => e.signed
    OBVIOUS
  <2> HIDE DEF b, e
  <2>8. e.at = b.at
    BY <2>1, <2>2, <2>5, <2>6, <2>7, SettledOne
  <2> QED
    BY <2>8 DEF b, e
<1> QED
  BY <1>1, Invariance, PTL
-----------------------------------------------------------------------------
\* What Apply makes of every entry.
LEMMA ApplyStep ==
  ASSUME IInv, NEW d \in Device, Apply(d), NEW c \in Contact
  PROVE  LET e == inventory[d][c]
             f == inventory'[d][c]
             s == merged[d][c]
             tomb == BothTombstones(e, s)
         IN  /\ e \in Entry /\ f \in Entry /\ s \in Entry /\ f.removed = tomb
             /\ tomb \in Nat
             /\ now <= e.removed + Retention => tomb >= e.removed
             /\ Taken(e, s, f, tomb) \/ Dropped(e, f, tomb) \/ Stays(e, f, tomb)
             /\ Backed(c, e) /\ Backed(c, f)
             /\ e.at = 0 => e.alias = NoAlias
<1> DEFINE e == inventory[d][c]
           f == inventory'[d][c]
           s == merged[d][c]
           tomb == BothTombstones(e, s)
<1>1. /\ now \in Nat /\ e \in Entry /\ s \in Entry
      /\ Backed(c, e) /\ Backed(c, s) /\ Clean(s) /\ (e.at = 0 => e.alias = NoAlias)
      /\ inventory \in [Device -> Snapshot]
  BY TimeAssumption
     DEF IInv, TypeOK, InventoryInv, SnapshotInv, Good, GoodIn, Backed, Snapshot
<1>2. PICK failing \in SUBSET Contact :
        inventory' = [inventory EXCEPT ![d] =
                        apply_contact_snapshot(inventory[d], merged[d], failing)]
  BY DEF Apply
<1>3. f = ApplyOne(e, s, verify_tzap_contact_card(c, failing))
  BY <1>1, <1>2 DEF apply_contact_snapshot
<1> HIDE DEF e, f, s
<1>4. f \in Entry /\ Backed(c, f)
  BY <1>1, <1>3, ApplyBacked
<1>5. /\ f.removed = tomb
      /\ Taken(e, s, f, tomb) \/ Dropped(e, f, tomb) \/ Stays(e, f, tomb)
  BY <1>1, <1>3, ApplyCases
<1>6. tomb \in Nat /\ (now <= e.removed + Retention => tomb >= e.removed)
  BY <1>1, BothFacts, EntryTimes
<1> HIDE DEF tomb
<1>7. /\ e \in Entry /\ f \in Entry /\ s \in Entry /\ f.removed = tomb
      /\ tomb \in Nat
      /\ now <= e.removed + Retention => tomb >= e.removed
      /\ Taken(e, s, f, tomb) \/ Dropped(e, f, tomb) \/ Stays(e, f, tomb)
      /\ Backed(c, e) /\ Backed(c, f)
      /\ e.at = 0 => e.alias = NoAlias
  BY <1>1, <1>4, <1>5, <1>6
<1> QED
  BY <1>7 DEF e, f, s, tomb

LEMMA ApplyElsewhere ==
  ASSUME IInv, NEW d \in Device, Apply(d), NEW x \in Device, x # d
  PROVE  inventory'[x] = inventory[x]
  BY DEF IInv, TypeOK, Apply

(* No synchronisation, however it interleaves with others and whatever     *)
(* lookups fail, loses the alias of a contact whose acceptance it keeps    *)
(* (the alias rules of merge and apply at equal times).                    *)
THEOREM AliasesSurvive == Spec => AliasKept
<1>1. IInv /\ [Next]_vars =>
        [\A d \in Device, c \in Contact :
           LET e == inventory[d][c]
               f == inventory'[d][c]
           IN e.alias # NoAlias /\ f.at = e.at /\ ops' = ops => f.alias # NoAlias]_vars
  <2> SUFFICES ASSUME IInv, Next, ops' = ops, NEW d \in Device, NEW c \in Contact,
                      inventory[d][c].alias # NoAlias,
                      inventory'[d][c].at = inventory[d][c].at
               PROVE  inventory'[d][c].alias # NoAlias
    BY DEF vars
  <2>1. ~ UserAct
    BY DEF UserAct, IInv, TypeOK
  <2>2. CASE UNCHANGED inventory
    BY <2>2
  <2>3. ASSUME NEW x \in Device, Apply(x) PROVE inventory'[d][c].alias # NoAlias
    <3>1. CASE x # d
      BY <2>3, <3>1, ApplyElsewhere
    <3>2. CASE x = d
      <4> DEFINE e == inventory[d][c]
                 f == inventory'[d][c]
                 s == merged[d][c]
                 tomb == BothTombstones(e, s)
      <4>1. /\ e \in Entry /\ s \in Entry /\ tomb \in Nat
            /\ Taken(e, s, f, tomb) \/ Dropped(e, f, tomb) \/ Stays(e, f, tomb)
            /\ e.at = 0 => e.alias = NoAlias
        BY <2>3, <3>2, ApplyStep
      <4>2. e.at \in Nat /\ s.at \in Nat /\ e.alias # NoAlias /\ f.at = e.at
        BY <4>1, EntryTimes
      <4> HIDE DEF e, f, s, tomb
      <4>3. f.alias # NoAlias
        BY <4>1, <4>2 DEF Taken, Dropped, Stays
      <4> QED
        BY <4>3 DEF f
    <3> QED
      BY <3>1, <3>2
  <2> QED
    BY <2>1, <2>2, <2>3
       DEF Next, Tick, import_tzap_contact_card, AddBareKey, SetAlias, RemoveContact,
           tzap_contact_remove_json, fetch_contact_backup, put_contact_backup, PutAnswerLost,
           PreconditionFailed, delete_contact_backup
<1> QED
  BY <1>1, Invariance, PTL DEF Spec, AliasKept
-----------------------------------------------------------------------------
\* Refinement: stamps, and how ContactRegister orders them.
LEMMA StampOrder ==
  ASSUME NEW t \in Nat, NEW u \in Nat
  PROVE  /\ Register!Later(Live(t), Live(u)) <=> t > u
         /\ Register!Later(Live(t), Tomb(u)) <=> t > u
         /\ Register!Later(Tomb(t), Live(u)) <=> t >= u
         /\ Register!Later(Tomb(t), Tomb(u)) <=> t > u
         /\ Register!Forgettable(Tomb(u)) <=> now > u + Retention
         /\ Register!Never = Live(0)
  BY DEF Register!Later, Register!Forgettable, Register!Never, Live, Tomb

LEMMA ViewCases ==
  ASSUME NEW e \in Entry
  PROVE  /\ e.at > e.removed /\ e.signed => ViewOf(e) = Live(e.at)
         /\ ~(e.at > e.removed /\ e.signed) /\ e.removed > 0 => ViewOf(e) = Tomb(e.removed)
         /\ ~(e.at > e.removed /\ e.signed) /\ e.removed = 0 => ViewOf(e) = Live(0)
<1>1. e.removed \in Nat
  BY EntryTimes
<1>2. ASSUME ~(e.at > e.removed /\ e.signed), e.removed > 0 PROVE ViewOf(e) = Tomb(e.removed)
  <2>1. (e.removed > 0) = TRUE
    BY <1>2
  <2> QED
    BY <1>2, <2>1 DEF ViewOf, Tomb
<1>3. ASSUME ~(e.at > e.removed /\ e.signed), e.removed = 0 PROVE ViewOf(e) = Live(0)
  <2>1. (e.removed > 0) = FALSE
    BY <1>3
  <2> QED
    BY <1>3, <2>1 DEF ViewOf, Live
<1> QED
  BY <1>2, <1>3 DEF ViewOf, Live

\* The view that the inventories stand for.
View == [d \in Device |-> [c \in Contact |-> ViewOf(inventory[d][c])]]

\* Applying a snapshot moves a view as ContactRegister allows it.
LEMMA ApplyMoves ==
  ASSUME IInv, NEW d \in Device, Apply(d), NEW c \in Contact
  PROVE  /\ Register!MayBecome(c, ViewOf(inventory[d][c]), ViewOf(inventory'[d][c]))
         /\ ViewOf(inventory'[d][c]) \in issued[c] \cup {Live(0)}
<1> DEFINE e == inventory[d][c]
           f == inventory'[d][c]
           s == merged[d][c]
           tomb == BothTombstones(e, s)
<1>1. /\ e \in Entry /\ f \in Entry /\ s \in Entry /\ f.removed = tomb
      /\ tomb \in Nat /\ e.at \in Nat /\ e.removed \in Nat /\ f.at \in Nat /\ s.at \in Nat
      /\ now <= e.removed + Retention => tomb >= e.removed
      /\ Taken(e, s, f, tomb) \/ Dropped(e, f, tomb) \/ Stays(e, f, tomb)
      /\ f.at > 0 /\ f.signed => Live(f.at) \in issued[c]
      /\ f.removed > 0 => Tomb(f.removed) \in issued[c]
      /\ now \in Nat
  <2>1. /\ e \in Entry /\ f \in Entry /\ s \in Entry /\ f.removed = tomb
        /\ tomb \in Nat
        /\ now <= e.removed + Retention => tomb >= e.removed
        /\ Taken(e, s, f, tomb) \/ Dropped(e, f, tomb) \/ Stays(e, f, tomb)
        /\ Backed(c, f)
    BY ApplyStep
  <2>2. now \in Nat
    BY TimeAssumption DEF IInv, TypeOK
  <2> HIDE DEF e, f, s, tomb
  <2> QED
    BY <2>1, <2>2, EntryTimes DEF Backed, BackedIn, AcceptedIn, RemovedIn
<1> HIDE DEF e, f, s, tomb
<1>2. \/ f.at > tomb /\ f.signed /\ ViewOf(f) = Live(f.at) /\ ViewOf(f) \in issued[c]
      \/ ~(f.at > tomb /\ f.signed) /\ tomb > 0 /\ ViewOf(f) = Tomb(tomb) /\ ViewOf(f) \in issued[c]
      \/ ~(f.at > tomb /\ f.signed) /\ tomb = 0 /\ ViewOf(f) = Live(0)
  BY <1>1, ViewCases
<1>3. Register!MayBecome(c, ViewOf(e), ViewOf(f))
  <2>1. CASE e.at > e.removed /\ e.signed
    <3>1. ViewOf(e) = Live(e.at)
      BY <1>1, <2>1, ViewCases
    <3>2. CASE Taken(e, s, f, tomb)
      <4>1. f.at > tomb /\ f.signed /\ e.at <= f.at
        BY <1>1, <3>2 DEF Taken
      <4>2. ViewOf(f) = Live(f.at) /\ ViewOf(f) \in issued[c]
        BY <1>1, <1>2, <4>1
      <4>3. e.at = f.at \/ Register!Later(Live(f.at), Live(e.at))
        BY <1>1, <4>1, StampOrder
      <4> QED
        BY <3>1, <4>2, <4>3 DEF Register!MayBecome
    <3>3. CASE Dropped(e, f, tomb)
      <4>1. tomb > 0 /\ tomb >= e.at /\ f.at = 0
        BY <1>1, <2>1, <3>3 DEF Dropped
      <4>2. ViewOf(f) = Tomb(tomb) /\ ViewOf(f) \in issued[c]
        BY <1>1, <1>2, <4>1
      <4>3. Register!Later(Tomb(tomb), Live(e.at))
        BY <1>1, <4>1, StampOrder
      <4> QED
        BY <3>1, <4>2, <4>3 DEF Register!MayBecome
    <3>4. CASE Stays(e, f, tomb)
      <4>1. f.at > tomb /\ f.signed /\ f.at = e.at
        BY <1>1, <2>1, <3>4 DEF Stays
      <4>2. ViewOf(f) = Live(e.at)
        BY <1>1, <1>2, <4>1
      <4> QED
        BY <3>1, <4>2 DEF Register!MayBecome
    <3> QED
      BY <1>1, <3>2, <3>3, <3>4
  <2>2. CASE ~(e.at > e.removed /\ e.signed) /\ e.removed > 0
    <3>1. ViewOf(e) = Tomb(e.removed)
      BY <1>1, <2>2, ViewCases
    <3>2. CASE now > e.removed + Retention
      <4>1. Register!Forgettable(ViewOf(e)) /\ Register!Never = Live(0)
        BY <1>1, <3>1, <3>2, StampOrder
      <4> QED
        BY <1>2, <4>1 DEF Register!MayBecome
    <3>3. CASE ~(now > e.removed + Retention)
      <4>1. tomb >= e.removed
        BY <1>1, <3>3, TimeAssumption
      <4>2. \/ ViewOf(f) = Tomb(e.removed)
            \/ ViewOf(f) \in issued[c] /\ Register!Later(ViewOf(f), Tomb(e.removed))
        BY <1>1, <1>2, <2>2, <4>1, StampOrder
      <4> QED
        BY <3>1, <4>2 DEF Register!MayBecome
    <3> QED
      BY <3>2, <3>3
  <2>3. CASE ~(e.at > e.removed /\ e.signed) /\ e.removed = 0
    <3>1. ViewOf(e) = Live(0)
      BY <1>1, <2>3, ViewCases
    <3>2. \/ ViewOf(f) = Live(0)
          \/ ViewOf(f) \in issued[c] /\ Register!Later(ViewOf(f), Live(0))
      BY <1>1, <1>2, StampOrder
    <3> QED
      BY <3>1, <3>2 DEF Register!MayBecome
  <2> QED
    BY <1>1, <2>1, <2>2, <2>3
<1> QED
  BY <1>2, <1>3 DEF e, f

Put(w, d, c, v) == [w EXCEPT ![d][c] = v]

\* A change of one entry of one device changes one view.
LEMMA OneView ==
  ASSUME IInv, NEW d \in Device, NEW c \in Contact, NEW f \in Entry,
         inventory' = [inventory EXCEPT ![d] = [inventory[d] EXCEPT ![c] = f]]
  PROVE  /\ View' = Put(View, d, c, ViewOf(f))
         /\ View[d][c] = ViewOf(inventory[d][c])
         /\ ViewOf(f) = ViewOf(inventory[d][c]) => View' = View
<1>1. inventory \in [Device -> [Contact -> Entry]]
  BY DEF IInv, TypeOK, Snapshot
<1>2. \A x \in Device, y \in Contact :
        ViewOf(inventory'[x][y]) = IF x = d /\ y = c THEN ViewOf(f) ELSE ViewOf(inventory[x][y])
  BY <1>1
<1>3. View' = [x \in Device |-> [y \in Contact |->
                 IF x = d /\ y = c THEN ViewOf(f) ELSE ViewOf(inventory[x][y])]]
  BY <1>2 DEF View
<1>4. View[d][c] = ViewOf(inventory[d][c])
  BY DEF View
<1>5. Put(View, d, c, ViewOf(f))
        = [x \in Device |-> [y \in Contact |->
             IF x = d /\ y = c THEN ViewOf(f) ELSE ViewOf(inventory[x][y])]]
  BY DEF View, Put
<1>6. ASSUME ViewOf(f) = ViewOf(inventory[d][c]) PROVE View' = View
  BY <1>3, <1>6 DEF View
<1> QED
  BY <1>3, <1>4, <1>5, <1>6

\* Of the entry of a device and what happens to it now, the later one is its view.
LEMMA NewestNow ==
  ASSUME now \in Nat, now > 0, NEW e \in Entry, e.at <= now, e.removed <= now, NEW f \in Entry
  PROVE  /\ f.at = now /\ f.signed /\ f.removed = e.removed
              => ViewOf(f) = Register!Newest(Live(now), ViewOf(e))
         /\ f.at = 0 /\ f.removed = now
              => ViewOf(f) = Register!Newest(Tomb(now), ViewOf(e))
<1>1. e.at \in Nat /\ e.removed \in Nat
  BY EntryTimes
<1>2. \/ e.at > e.removed /\ e.signed /\ ViewOf(e) = Live(e.at)
      \/ ~(e.at > e.removed /\ e.signed) /\ e.removed > 0 /\ ViewOf(e) = Tomb(e.removed)
      \/ ~(e.at > e.removed /\ e.signed) /\ e.removed = 0 /\ ViewOf(e) = Live(0)
  BY <1>1, ViewCases
<1>3. ASSUME f.at = now, f.signed, f.removed = e.removed
      PROVE  ViewOf(f) = Register!Newest(Live(now), ViewOf(e))
  <2>1. /\ now > e.removed => ViewOf(f) = Live(now)
        /\ now = e.removed => ViewOf(f) = Tomb(now)
    BY <1>1, <1>3, ViewCases
  <2>2. CASE e.at > e.removed /\ e.signed /\ ViewOf(e) = Live(e.at)
    <3>1. Register!Later(Live(now), Live(e.at)) <=> now > e.at
      BY <1>1, StampOrder
    <3> QED
      BY <1>1, <2>1, <2>2, <3>1 DEF Register!Newest
  <2>3. CASE ~(e.at > e.removed /\ e.signed) /\ e.removed > 0 /\ ViewOf(e) = Tomb(e.removed)
    <3>1. Register!Later(Live(now), Tomb(e.removed)) <=> now > e.removed
      BY <1>1, StampOrder
    <3> QED
      BY <1>1, <2>1, <2>3, <3>1 DEF Register!Newest
  <2>4. CASE e.removed = 0 /\ ViewOf(e) = Live(0)
    <3>1. Register!Later(Live(now), Live(0))
      BY StampOrder
    <3> QED
      BY <1>1, <2>1, <2>4, <3>1 DEF Register!Newest
  <2> QED
    BY <1>2, <2>2, <2>3, <2>4
<1>4. ASSUME f.at = 0, f.removed = now
      PROVE  ViewOf(f) = Register!Newest(Tomb(now), ViewOf(e))
  <2>1. ViewOf(f) = Tomb(now)
    BY <1>4, ViewCases
  <2>2. /\ Register!Later(Tomb(now), Live(e.at)) /\ Register!Later(Tomb(now), Live(0))
        /\ Register!Later(Tomb(now), Tomb(e.removed)) \/ Tomb(now) = Tomb(e.removed)
    <3>1. Register!Later(Tomb(now), Live(e.at)) /\ Register!Later(Tomb(now), Live(0))
      BY <1>1, StampOrder
    <3>2. CASE now > e.removed
      BY <1>1, <3>1, <3>2, StampOrder
    <3>3. CASE now = e.removed
      BY <3>1, <3>3
    <3> QED
      BY <1>1, <3>2, <3>3
  <2> QED
    BY <1>2, <2>1, <2>2 DEF Register!Newest
<1> QED
  BY <1>3, <1>4

\* Every step is a step of the register or leaves it alone.
LEMMA UserRefines ==
  ASSUME IInv, NEW d \in Device, NEW c \in Contact
  PROVE  /\ import_tzap_contact_card(d, c) => Register!Accept(d, c)
         /\ AddBareKey(d, c) => UNCHANGED Register!vars
         /\ \A a \in Alias : SetAlias(d, c, a) => UNCHANGED Register!vars
         /\ RemoveContact(d, c) => Register!Remove(d, c)
         /\ tzap_contact_remove_json(d, c) => Register!DropSilently(d, c)
<1> DEFINE e == inventory[d][c]
<1>1. /\ now \in Nat /\ now > 0 /\ now \in Time
      /\ inventory \in [Device -> Snapshot] /\ inventory[d] \in [Contact -> Entry]
  BY TimeAssumption DEF IInv, TypeOK, Snapshot, Time
<1>2. /\ e \in Entry /\ e.at \in Time /\ e.removed \in Time /\ e.at \in Nat /\ e.removed \in Nat
      /\ BackedIn(issued[c], now, e) /\ e.at <= now /\ e.removed <= now
  BY <1>1, EntryTimes DEF IInv, InventoryInv, Backed, BackedIn
<1>3. ASSUME import_tzap_contact_card(d, c) PROVE Register!Accept(d, c)
  <2> DEFINE f == [e EXCEPT !.at = now, !.alias = NoAlias, !.signed = TRUE]
  <2>1. f \in Entry /\ f.at = now /\ f.removed = e.removed /\ f.signed
    BY <1>1, <1>2 DEF Entry
  <2>0. f \in Entry
    BY <2>1
  <2>2. inventory' = [inventory EXCEPT ![d] = [inventory[d] EXCEPT ![c] = f]]
    BY <1>1, <1>3 DEF import_tzap_contact_card
  <2>3. now' = now /\ issued' = [issued EXCEPT ![c] = @ \cup {Live(now)}]
    BY <1>3 DEF import_tzap_contact_card, UserAct, Stamp, Live
  <2> HIDE DEF f
  <2>4. View' = Put(View, d, c, ViewOf(f)) /\ View[d][c] = ViewOf(e)
    BY <2>0, <2>2, OneView, Zenon
  <2>5. ViewOf(f) = Register!Newest(Live(now), ViewOf(e))
    <3> HIDE DEF e
    <3> QED
      BY <1>1, <1>2, <2>1, NewestNow
  <2>6. View' = [View EXCEPT ![d][c] = Register!Newest(Live(now), @)]
    <3> HIDE DEF e
    <3> QED
      BY <2>4, <2>5 DEF Put
  <2> QED
    BY <2>3, <2>6 DEF Register!Accept, Register!Issue, View, Live
<1>4. ASSUME AddBareKey(d, c) PROVE UNCHANGED Register!vars
  <2> DEFINE f == [e EXCEPT !.at = now, !.alias = NoAlias, !.signed = FALSE]
  <2>1. f \in Entry /\ f.at = now /\ f.removed = e.removed /\ ~ f.signed
    BY <1>1, <1>2 DEF Entry
  <2>0. f \in Entry
    BY <2>1
  <2>2. inventory' = [inventory EXCEPT ![d] = [inventory[d] EXCEPT ![c] = f]]
    BY <1>1, <1>4 DEF AddBareKey
  <2>3. now' = now /\ issued' = issued /\ e.at = 0
    BY <1>4 DEF AddBareKey, UserAct
  <2> HIDE DEF f
  <2>4. ViewOf(f) = ViewOf(e)
    <3> HIDE DEF e
    <3> QED
      BY <1>2, <2>1, <2>3, ViewCases
  <2>5. View' = View
    BY <2>0, <2>2, <2>4, OneView, Zenon
  <2> QED
    BY <2>3, <2>5 DEF Register!vars, View
<1>5. ASSUME NEW a \in Alias, SetAlias(d, c, a) PROVE UNCHANGED Register!vars
  <2> DEFINE f == [e EXCEPT !.alias = a]
  <2>1. f \in Entry /\ f.at = e.at /\ f.removed = e.removed /\ f.signed = e.signed
    BY <1>2 DEF Entry
  <2>0. f \in Entry
    BY <2>1
  <2>2. inventory' = [inventory EXCEPT ![d] = [inventory[d] EXCEPT ![c] = f]]
    BY <1>1, <1>5 DEF SetAlias
  <2>3. now' = now /\ issued' = issued
    BY <1>5 DEF SetAlias, UserAct
  <2> HIDE DEF f
  <2>4. ViewOf(f) = ViewOf(e)
    <3> HIDE DEF e
    <3> QED
      BY <2>1 DEF ViewOf
  <2>5. View' = View
    BY <2>0, <2>2, <2>4, OneView, Zenon
  <2> QED
    BY <2>3, <2>5 DEF Register!vars, View
<1>6. ASSUME RemoveContact(d, c) PROVE Register!Remove(d, c)
  <2> DEFINE f == [Absent EXCEPT !.removed = now]
  <2>1. f \in Entry /\ f.at = 0 /\ f.removed = now
    BY <1>1, RemovedFacts
  <2>0. f \in Entry
    BY <2>1
  <2>2. inventory' = [inventory EXCEPT ![d] = [inventory[d] EXCEPT ![c] = f]]
    BY <1>1, <1>6 DEF RemoveContact
  <2>3. now' = now /\ issued' = [issued EXCEPT ![c] = @ \cup {Tomb(now)}]
    BY <1>6 DEF RemoveContact, UserAct, Stamp, Tomb
  <2> HIDE DEF f
  <2>4. View' = Put(View, d, c, ViewOf(f)) /\ View[d][c] = ViewOf(e)
    BY <2>0, <2>2, OneView, Zenon
  <2>5. ViewOf(f) = Register!Newest(Tomb(now), ViewOf(e))
    <3> HIDE DEF e
    <3> QED
      BY <1>1, <1>2, <2>1, NewestNow
  <2>6. View' = [View EXCEPT ![d][c] = Register!Newest(Tomb(now), @)]
    <3> HIDE DEF e
    <3> QED
      BY <2>4, <2>5 DEF Put
  <2> QED
    BY <2>3, <2>6 DEF Register!Remove, Register!Issue, View, Tomb
<1>7. ASSUME tzap_contact_remove_json(d, c) PROVE Register!DropSilently(d, c)
  <2> DEFINE f == [Absent EXCEPT !.removed = e.removed]
  <2>1. f \in Entry /\ f.at = 0 /\ f.removed = e.removed
    BY <1>2, RemovedFacts
  <2>0. f \in Entry
    BY <2>1
  <2>2. inventory' = [inventory EXCEPT ![d] = [inventory[d] EXCEPT ![c] = f]]
    BY <1>1, <1>7 DEF tzap_contact_remove_json
  <2>3. now' = now /\ issued' = issued /\ d \in ServiceDevice
    BY <1>7 DEF tzap_contact_remove_json, UserAct
  <2> HIDE DEF f
  <2>4. View' = Put(View, d, c, ViewOf(f))
    BY <2>0, <2>2, OneView, Zenon
  <2>5. ViewOf(f) \in {r \in issued[c] : r.removed} \cup {Register!Never}
    <3> HIDE DEF e
    <3>1. CASE e.removed = 0
      BY <1>2, <2>1, <3>1, ViewCases, StampOrder
    <3>2. CASE e.removed > 0
      <4>1. ViewOf(f) = Tomb(e.removed) /\ Tomb(e.removed) \in issued[c]
        BY <1>2, <2>1, <3>2, ViewCases DEF BackedIn, RemovedIn
      <4>2. Tomb(e.removed).removed
        BY DEF Tomb
      <4> QED
        BY <4>1, <4>2
    <3> QED
      BY <1>2, <3>1, <3>2
  <2> QED
    BY <2>3, <2>4, <2>5 DEF Register!DropSilently, View, Put
<1> QED
  BY <1>3, <1>4, <1>5, <1>6, <1>7

LEMMA ApplyRefines ==
  ASSUME IInv, NEW d \in Device, Apply(d)
  PROVE  Register!Synchronise(d)
<1> DEFINE w == [c \in Contact |-> ViewOf(inventory'[d][c])]
<1>1. now' = now /\ issued' = issued
  BY DEF Apply, Quiet
<1>2. \A c \in Contact : Register!MayBecome(c, View[d][c], w[c])
  BY ApplyMoves DEF View
<1>3. w \in [Contact -> Register!Stamps \cup {Register!Never}]
  <2>1. \A c \in Contact : issued[c] \subseteq Register!Stamps
    BY DEF IInv, TypeOK, Register!Stamps
  <2>2. \A c \in Contact : w[c] \in Register!Stamps \cup {Register!Never}
    BY <2>1, ApplyMoves, StampOrder
  <2> QED
    BY <2>2
<1>4. View' = [View EXCEPT ![d] = w]
  <2>1. \A x \in Device : x # d => inventory'[x] = inventory[x]
    BY ApplyElsewhere
  <2> QED
    BY <2>1 DEF View
<1> HIDE DEF w
<1>5. \E v \in [Contact -> Register!Stamps \cup {Register!Never}] :
        /\ \A c \in Contact : Register!MayBecome(c, View[d][c], v[c])
        /\ View' = [View EXCEPT ![d] = v]
  BY <1>2, <1>3, <1>4
<1> QED
  BY <1>1, <1>5 DEF Register!Synchronise, View

(* Snapshots implement the register: no interleaving of devices, lost      *)
(* answers, deleted backups or refused cards makes a device go back to an  *)
(* older acceptance or removal, or invent one, except past the retention   *)
(* of a tombstone (merge_contact_snapshots, apply_contact_snapshot).       *)
THEOREM SnapshotsImplementRegister == Spec => ImplementsRegister
<1>1. Init => Register!Init
  <2> SUFFICES ASSUME Init PROVE Register!Init
    OBVIOUS
  <2>1. ViewOf(Absent) = Register!Never
    BY AbsentFacts, ViewCases, StampOrder
  <2>2. View = [d \in Device |-> [c \in Contact |-> Register!Never]]
    BY <2>1, AbsentFacts DEF Init, View
  <2> QED
    BY <2>2 DEF Init, Register!Init, View
<1>2. IInv /\ [Next]_vars => [Register!Next]_Register!vars
  <2> SUFFICES ASSUME IInv, [Next]_vars PROVE Register!Next \/ UNCHANGED Register!vars
    BY DEF Register!vars
  <2>1. CASE UNCHANGED <<now, issued, inventory>>
    BY <2>1 DEF Register!vars
  <2>2. CASE Tick
    <3>1. Register!Tick
      BY <2>2 DEF Tick, history, Register!Tick
    <3> QED
      BY <3>1 DEF Register!Next
  <2>3. ASSUME NEW d \in Device, NEW c \in Contact,
               \/ import_tzap_contact_card(d, c) \/ AddBareKey(d, c)
               \/ \E a \in Alias : SetAlias(d, c, a)
               \/ RemoveContact(d, c) \/ tzap_contact_remove_json(d, c)
        PROVE  Register!Next \/ UNCHANGED Register!vars
    BY <2>3, UserRefines DEF Register!Next
  <2>4. ASSUME NEW d \in Device, Apply(d) PROVE Register!Next
    BY <2>4, ApplyRefines DEF Register!Next
  <2>5. ASSUME NEW d \in Device,
               \/ fetch_contact_backup(d) \/ put_contact_backup(d) \/ PutAnswerLost(d)
               \/ PreconditionFailed(d)
        PROVE  UNCHANGED <<now, issued, inventory>>
    BY <2>5 DEF fetch_contact_backup, put_contact_backup, PutAnswerLost, PreconditionFailed, Quiet
  <2>6. CASE delete_contact_backup
    BY <2>1, <2>6 DEF delete_contact_backup, Quiet
  <2>7. CASE UNCHANGED vars
    BY <2>1, <2>7 DEF vars, history
  <2> QED
    BY <2>1, <2>2, <2>3, <2>4, <2>5, <2>6, <2>7 DEF Next
<1> QED
  BY <1>1, <1>2, Invariance, PTL DEF Spec, ImplementsRegister, Register!Spec
-----------------------------------------------------------------------------
(* CertificateLifecycle *)

\* Where a call can be, and where the save of one can lead to.
CallPC == {"idle", "resume", "choose", "bind", "precheck", "challenge", "submit", "wait",
           "save", "reconcile", "list", "detail", "enroll", "e_challenge", "e_list",
           "e_detail", "mark_revoked"}
AfterSave == {"idle", "resume", "choose", "bind", "submit", "e_challenge"}

Local == [key : Key \cup {NoKey}, snap : Inventory, pred : Cert \cup {NoCert},
          op : Op \cup {NoOp}, answer : Cert \cup {NoCert, "refused"},
          listed : SUBSET Cert, superseded : BOOLEAN, next : AfterSave]

\* What Goto leaves of the local variables.
KeptLocal(to, l) == [f \in DOMAIN l |-> IF f \in Needed(to, l) THEN l[f] ELSE Fresh[f]]

\* The journalled operation of a call is one of the kind that is going on.
OwnOp(l) ==
    /\ l.op \in Op /\ l.op.key = l.key
    /\ l.op.pred = IF l.op.kind = "renew" THEN l.pred ELSE NoCert

Shape(at, l) ==
    /\ at \in {"submit", "wait"} => OwnOp(l)
    /\ at = "save" /\ (l.answer \in Cert \/ l.next = "submit") => OwnOp(l)
    /\ at \in {"e_list", "e_detail"} => l.op \in Op /\ l.op.kind = "enroll"
    /\ at \in {"reconcile", "list", "detail"} => l.next \in {"idle", "choose"}
    /\ at \in {"e_list", "e_detail"} => l.next \in {"idle", "e_challenge"}
    /\ at \notin {"idle", "off", "mark_revoked", "save"} => l.key \in Key
    /\ at = "save" /\ l.next # "idle" => l.key \in Key

\* The server's answer is dropped with the call it belongs to.
AnswerDropped(at, l) == at \notin {"submit", "wait", "save"} => l.answer = NoCert

\* A blocked predecessor has its operation, in one inventory.
Releasable(i) == \A c \in Cert :
    i.certs[c] = "renewal_pending" => \E o \in i.ops : o.kind = "renew" /\ o.pred = c

\* Every operation that is stored, about to be stored, or under way.
KnownOps == {o \in Op : \/ o \in inv.ops
                        \/ \E p \in Proc : o \in local[p].snap.ops \/ o = local[p].op}
OneOpPerId == \A o, q \in KnownOps : o.id = q.id => o = q

LocalInv ==
    /\ pc \in [Proc -> CallPC \cup {"off"}] /\ local \in [Proc -> Local]
    /\ \A p \in Proc : /\ Shape(pc[p], local[p]) /\ AnswerDropped(pc[p], local[p])
                       /\ Releasable(local[p].snap)

CertInv == CertTypeOK /\ LocalInv /\ OneOpPerId /\ Releasable(inv)
-----------------------------------------------------------------------------
(* One process that has the inventory to itself *)

Active(c) == atServer[c].state = "active"
Tracks(i) == \A c \in Cert : Active(c) =>
    \/ i.certs[c] # "absent"
    \/ \E o \in i.ops : o.key = atServer[c].key /\ o.pred = atServer[c].pred
Current(i) == \A c \in Cert : i.certs[c] = "active" => atServer[c].state # "superseded"

\* The first key has been made and not been saved yet.
Minting(at, l, i) ==
    at = "save" /\ l.next = "resume" /\ i.keys = {} /\ l.snap.keys = {l.key}

\* The call still needs the inventory it loaded.
Holding(at, l) ==
    at = "challenge" \/ (at \in {"submit", "wait"} /\ l.op.kind = "renew")

\* A renewal names the certificate it replaces, an enrollment none.
Names(op) == IF op.kind = "renew" THEN op.pred \in Cert ELSE op.pred = NoCert

\* The server has certified one key, the device's, and holds one certificate
\* active; the requests under way are for that key.
ServerOK ==
    /\ \A c \in Cert : atServer[c].state # "unissued" => atServer[c].key # NoKey
    /\ \A c \in Cert : atServer[c].key # NoKey => inv.keys = {atServer[c].key}
    /\ \A c, d \in Cert : Active(c) /\ Active(d) => c = d
    /\ \A r \in wire : inv.keys = {r.op.key} /\ Names(r.op)

\* A call works with that key, and what it loaded is what is stored.
CallOK(at, l, i) ==
    /\ l.key # NoKey => i.keys = {l.key} \/ Minting(at, l, i)
    /\ at = "save" => l.snap.keys = i.keys \/ Minting(at, l, i)
    /\ Holding(at, l) => l.snap = i
    /\ at = "challenge" => i.certs[l.pred] = "active"
    /\ at \in {"precheck", "challenge"} => l.pred \in Cert
    /\ at = "submit" \/ (at = "save" /\ l.next = "submit") => Names(l.op)

\* Without late requests, only the operation of the waiting call is under way.
WireOK(p, at, l) ==
    /\ wire \subseteq {[proc |-> p, op |-> l.op]}
    /\ wire # {} => at = "wait" /\ l.answer = NoCert

\* What the stored inventory, and the one about to be saved, say is true.
TrackOK(at, l, i) ==
    /\ Tracks(i) /\ Current(i)
    /\ at \in {"submit", "wait"} =>
          /\ l.op \in i.ops
          /\ l.op.kind = "renew" => i.certs[l.op.pred] = "renewal_pending"
    /\ at = "submit" => l.answer = NoCert
    /\ at = "wait" /\ l.answer \in Cert => Active(l.answer)
    /\ at = "save" => /\ Tracks(l.snap) /\ Current(l.snap)
                      /\ l.next = "submit" => l.op \in l.snap.ops /\ l.answer = NoCert
    /\ at = "e_detail" => \A c \in Cert : Active(c) => c \in l.listed

AloneInv(p) ==
    /\ ServerOK /\ CallOK(pc[p], local[p], inv)
    /\ late # "yes" => WireOK(p, pc[p], local[p]) /\ TrackOK(pc[p], local[p], inv)

SingleInv == \A p \in Proc : Alone(p) => AloneInv(p)
-----------------------------------------------------------------------------
(* What Goto keeps *)

LEMMA FreshType == Fresh \in Local /\ EmptyInventory \in Inventory /\ Releasable(EmptyInventory)
  <1>1. EmptyInventory \in Inventory
    BY DEF EmptyInventory, Inventory
  <1>2. Releasable(EmptyInventory)
    BY DEF EmptyInventory, Releasable
  <1> QED
    BY <1>1, <1>2 DEF Fresh, Local, AfterSave

LEMMA KeptFields ==
  ASSUME NEW to \in CallPC, NEW l \in Local
  PROVE  /\ KeptLocal(to, l) \in Local
         /\ KeptLocal(to, l).key = l.key
         /\ KeptLocal(to, l).snap \in {l.snap, EmptyInventory}
         /\ KeptLocal(to, l).op \in {l.op, NoOp}
         /\ KeptLocal(to, l).next \in {l.next, "idle"}
         /\ KeptLocal(to, l).answer \in {l.answer, NoCert}
  <1> DEFINE N == Needed(to, l)
             k == KeptLocal(to, l)
  <1>1. "key" \in N
    BY DEF Needed, CallPC
  <1>2. /\ k = [f \in DOMAIN l |-> IF f \in N THEN l[f] ELSE Fresh[f]]
        /\ DOMAIN l = {"key", "snap", "pred", "op", "answer", "listed", "superseded", "next"}
    BY DEF KeptLocal, Local
  <1> HIDE DEF N, k
  <1>3. /\ k.key = l.key
        /\ k.snap = IF "snap" \in N THEN l.snap ELSE EmptyInventory
        /\ k.pred = IF "pred" \in N THEN l.pred ELSE NoCert
        /\ k.op = IF "op" \in N THEN l.op ELSE NoOp
        /\ k.answer = IF "answer" \in N THEN l.answer ELSE NoCert
        /\ k.listed = IF "listed" \in N THEN l.listed ELSE {}
        /\ k.superseded = IF "superseded" \in N THEN l.superseded ELSE FALSE
        /\ k.next = IF "next" \in N THEN l.next ELSE "idle"
    BY <1>1, <1>2 DEF Fresh
  <1>4. k \in Local
    <2>1. /\ k.key \in Key \cup {NoKey} /\ k.snap \in Inventory /\ k.pred \in Cert \cup {NoCert}
          /\ k.op \in Op \cup {NoOp} /\ k.answer \in Cert \cup {NoCert, "refused"}
          /\ k.listed \in SUBSET Cert /\ k.next \in AfterSave
      BY <1>3, FreshType DEF Local, AfterSave
    <2>2. k.superseded \in BOOLEAN
      BY <1>3, Zenon DEF Local
    <2> QED
      BY <1>2, <2>1, <2>2 DEF Local
  <1> QED
    BY <1>3, <1>4 DEF k

\* One lemma for each place, since each keeps its own variables.
LEMMA KeptAtSave ==
  ASSUME NEW l \in Local
  PROVE  /\ KeptLocal("save", l).snap = l.snap /\ KeptLocal("save", l).next = l.next
         /\ IF l.answer \in Cert \/ l.next = "submit"
            THEN /\ KeptLocal("save", l).op = l.op /\ KeptLocal("save", l).answer = l.answer
                 /\ KeptLocal("save", l).pred = l.pred
            ELSE KeptLocal("save", l).answer = NoCert
  <1>1. DOMAIN l = {"key", "snap", "pred", "op", "answer", "listed", "superseded", "next"}
    BY DEF Local
  <1>2. Needed("save", l) = IF l.answer \in Cert \/ l.next = "submit"
                            THEN {"key", "op", "answer", "pred", "snap", "next"}
                            ELSE {"key", "snap", "next"}
    BY DEF Needed
  <1> QED
    BY <1>1, <1>2 DEF KeptLocal, Fresh

LEMMA KeptAtSubmit ==
  ASSUME NEW l \in Local, NEW to \in {"submit", "wait"}, l.op.kind \in {"enroll", "renew"}
  PROVE  /\ KeptLocal(to, l).op = l.op /\ KeptLocal(to, l).answer = l.answer
         /\ l.op.kind = "renew" => KeptLocal(to, l).pred = l.pred /\ KeptLocal(to, l).snap = l.snap
  <1>1. DOMAIN l = {"key", "snap", "pred", "op", "answer", "listed", "superseded", "next"}
    BY DEF Local
  <1>2. Needed(to, l) = IF l.op.kind = "enroll" THEN {"key", "op", "answer"}
                        ELSE {"key", "op", "answer", "pred", "snap"}
    BY DEF Needed
  <1> QED
    BY <1>1, <1>2 DEF KeptLocal, Fresh

LEMMA KeptElsewhere ==
  ASSUME NEW l \in Local, NEW to \in CallPC
  PROVE  /\ to \in {"precheck", "challenge", "mark_revoked", "reconcile", "list", "detail"}
               => KeptLocal(to, l).pred = l.pred
         /\ to = "challenge" => KeptLocal(to, l).snap = l.snap
         /\ to \in {"reconcile", "list", "detail", "e_list", "e_detail"}
               => KeptLocal(to, l).next = l.next
         /\ to \in {"e_list", "e_detail"} => KeptLocal(to, l).op = l.op
         /\ to \in {"detail", "e_detail"} => KeptLocal(to, l).listed = l.listed
         /\ AnswerDropped(to, KeptLocal(to, l))
  <1>1. DOMAIN l = {"key", "snap", "pred", "op", "answer", "listed", "superseded", "next"}
    BY DEF Local
  <1>5. AnswerDropped(to, KeptLocal(to, l))
    <2> SUFFICES ASSUME to \notin {"submit", "wait", "save"} PROVE KeptLocal(to, l).answer = NoCert
      BY DEF AnswerDropped
    <2>1. "answer" \notin Needed(to, l)
      BY DEF Needed
    <2> QED
      BY <1>1, <2>1 DEF KeptLocal, Fresh
  <1>2. CASE to \in {"precheck", "mark_revoked", "challenge"}
    BY <1>1, <1>2, <1>5 DEF Needed, KeptLocal, Fresh
  <1>3. CASE to \in {"reconcile", "list", "detail"}
    BY <1>1, <1>3, <1>5 DEF Needed, KeptLocal, Fresh
  <1>4. CASE to \in {"e_list", "e_detail"}
    BY <1>1, <1>4, <1>5 DEF Needed, KeptLocal, Fresh
  <1> QED
    BY <1>2, <1>3, <1>4, <1>5

LEMMA KeptShape ==
  ASSUME NEW to \in CallPC, NEW l \in Local, Shape(to, l), Releasable(l.snap)
  PROVE  /\ Shape(to, KeptLocal(to, l)) /\ AnswerDropped(to, KeptLocal(to, l))
         /\ Releasable(KeptLocal(to, l).snap)
  <1>1. Releasable(KeptLocal(to, l).snap) /\ AnswerDropped(to, KeptLocal(to, l))
    BY KeptFields, KeptElsewhere, FreshType
  <1>2. CASE to \in {"submit", "wait"}
    BY <1>1, <1>2, KeptFields, KeptAtSubmit DEF Shape, OwnOp, Op
  <1>3. CASE to = "save"
    BY <1>1, <1>3, KeptFields, KeptAtSave, NothingAssumption DEF Shape, OwnOp, Op
  <1>4. CASE to \notin {"submit", "wait", "save"}
    BY <1>1, <1>4, KeptFields, KeptElsewhere DEF Shape
  <1> QED
    BY <1>1, <1>2, <1>3, <1>4

\* A step of process p that goes on with the local variables l and stores at
\* most what p was about to store.
Moves(p, to, l) ==
    Goto(p, to, l) /\ inv' \in {inv, local[p].snap}

\* Operations that carry an identifier that is not in use.
Unused(N) ==
    /\ N \subseteq Op
    /\ \A n, m \in N : n = m
    /\ \A n \in N, o \in KnownOps : n.id # o.id

LEMMA MovesKeep ==
  ASSUME CertInv, NEW p \in Proc, NEW to \in CallPC, NEW l \in Local, NEW N,
         Moves(p, to, l), Shape(to, l), Releasable(l.snap), Unused(N),
         l.snap.ops \subseteq KnownOps \cup N, l.op \in KnownOps \cup N \cup {NoOp}
  PROVE  /\ LocalInv' /\ OneOpPerId' /\ Releasable(inv)'
         /\ inv' \in Inventory
         /\ \A q \in Proc : local'[q].snap \in Inventory /\ local'[q].listed \subseteq Cert
  <1> DEFINE k == KeptLocal(to, l)
  <1>1. /\ k \in Local /\ Shape(to, k) /\ AnswerDropped(to, k) /\ Releasable(k.snap)
        /\ k.snap \in {l.snap, EmptyInventory} /\ k.op \in {l.op, NoOp}
    BY KeptFields, KeptShape
  <1>2. pc' = [pc EXCEPT ![p] = to] /\ local' = [local EXCEPT ![p] = k]
    BY DEF Moves, Goto, KeptLocal
  <1> HIDE DEF k
  <1>3. pc \in [Proc -> CallPC \cup {"off"}] /\ local \in [Proc -> Local]
    BY DEF CertInv, LocalInv
  <1>4. /\ pc' \in [Proc -> CallPC \cup {"off"}] /\ local' \in [Proc -> Local]
        /\ \A q \in Proc : /\ pc'[q] = IF q = p THEN to ELSE pc[q]
                           /\ local'[q] = IF q = p THEN k ELSE local[q]
    BY <1>1, <1>2, <1>3
  <1>5. LocalInv'
    BY <1>1, <1>4 DEF CertInv, LocalInv
  <1>6. inv' \in Inventory /\ Releasable(inv')
    BY <1>3 DEF CertInv, LocalInv, Moves, CertTypeOK, Local
  <1>7. \A q \in Proc : local'[q].snap \in Inventory /\ local'[q].listed \subseteq Cert
    BY <1>4 DEF Local
  <1>8. KnownOps' \subseteq KnownOps \cup N
    <2> SUFFICES ASSUME NEW o \in KnownOps' PROVE o \in KnownOps \cup N
      OBVIOUS
    <2>0. o \in Op /\ (o \in inv'.ops \/ \E q \in Proc : o \in local'[q].snap.ops \/ o = local'[q].op)
      BY DEF KnownOps
    <2>1. CASE o \in inv'.ops
      BY <2>0, <2>1 DEF KnownOps, Moves
    <2>2. ASSUME NEW q \in Proc, o \in local'[q].snap.ops \/ o = local'[q].op
          PROVE  o \in KnownOps \cup N
      <3>1. CASE q = p
        BY <1>1, <1>4, <2>0, <2>2, <3>1, NoOpAssumption DEF EmptyInventory
      <3>2. CASE q # p
        BY <1>4, <2>0, <2>2, <3>2 DEF KnownOps
      <3> QED
        BY <3>1, <3>2
    <2> QED
      BY <2>0, <2>1, <2>2
  <1>9. OneOpPerId'
    BY <1>8 DEF OneOpPerId, CertInv, Unused
  <1> QED
    BY <1>5, <1>6, <1>7, <1>9

\* The identifiers FreshIds offers are not in use.
LEMMA FreshIdsUnused ==
  ASSUME CertInv, NEW i \in FreshIds, NEW p \in Proc
  PROVE  i \in OpId /\ \A o \in KnownOps : o.id # i
  <1> DEFINE Used == UNION {{o.id : o \in inv.ops \cup local[q].snap.ops}
                                    \cup {r.op.id : r \in wire}
                                    \cup (IF local[q].op = NoOp THEN {} ELSE {local[q].op.id}) : q \in Proc}
  <1>1. i \in OpId /\ i \notin Used
    <2>1. FreshIds = Chosen(OpId \ Used)
      BY DEF FreshIds
    <2> HIDE DEF Used
    <2> QED
      BY <2>1 DEF Chosen
  <1>2. ASSUME NEW o \in KnownOps PROVE o.id \in Used
    <2>1. CASE o \in inv.ops
      BY <2>1
    <2>2. ASSUME NEW q \in Proc, o \in local[q].snap.ops \/ o = local[q].op PROVE o.id \in Used
      BY <1>2, <2>2, NoOpAssumption DEF KnownOps
    <2> QED
      BY <1>2, <2>1, <2>2 DEF KnownOps
  <1> QED
    BY <1>1, <1>2

LEMMA ComputeKeeps ==
  ASSUME CertInv, NEW p \in Proc, NEW to \in CallPC, NEW l \in Local, NEW N,
         Compute(p, to, l), Shape(to, l), Releasable(l.snap), Unused(N),
         l.snap.ops \subseteq KnownOps \cup N, l.op \in KnownOps \cup N \cup {NoOp}
  PROVE  CertInv'
  <1>1. Moves(p, to, l) /\ UNCHANGED <<remote, faultsLeft, late>>
    BY DEF Compute, Moves, NoFault
  <1> QED
    BY <1>1, MovesKeep DEF CertInv, CertTypeOK, remote

\* A computation that journals nothing new.
LEMMA QuietKeeps ==
  ASSUME CertInv, NEW p \in Proc, NEW to \in CallPC, NEW l \in Local,
         Compute(p, to, l), Shape(to, l), Releasable(l.snap),
         l.snap.ops \subseteq KnownOps, l.op \in KnownOps \cup {NoOp}
  PROVE  CertInv'
  <1>1. Unused({})
    BY DEF Unused
  <1> QED
    BY <1>1, ComputeKeeps

LEMMA RefusedKeeps ==
  ASSUME CertInv, NEW p \in Proc, Refused(p)
  PROVE  CertInv'
  <1>1. Fresh.snap = EmptyInventory /\ EmptyInventory.ops = {} /\ Fresh.op = NoOp
    BY DEF Fresh, EmptyInventory
  <1>2. Shape("idle", Fresh) /\ "idle" \in CallPC
    BY DEF Shape, CallPC
  <1> QED
    BY <1>1, <1>2, FreshType, QuietKeeps DEF Refused

LEMMA ProcFacts ==
  ASSUME CertInv, NEW p \in Proc
  PROVE  /\ local[p] \in Local /\ Shape(pc[p], local[p]) /\ AnswerDropped(pc[p], local[p])
         /\ Releasable(local[p].snap)
         /\ local[p].snap.ops \subseteq KnownOps /\ local[p].op \in KnownOps \cup {NoOp}
         /\ inv \in Inventory /\ Releasable(inv) /\ inv.ops \subseteq KnownOps
  <1>1. /\ local[p] \in Local /\ Shape(pc[p], local[p]) /\ AnswerDropped(pc[p], local[p])
        /\ Releasable(local[p].snap)
        /\ inv \in Inventory /\ Releasable(inv)
    BY DEF CertInv, LocalInv, CertTypeOK
  <1>2. inv.ops \subseteq Op /\ local[p].snap.ops \subseteq Op /\ local[p].op \in Op \cup {NoOp}
    BY <1>1 DEF Local, Inventory
  <1> QED
    BY <1>1, <1>2 DEF KnownOps

\* The steps that choose what a call does.
LEMMA ProvisionKeeps ==
  ASSUME CertInv, NEW p \in Proc,
         \/ SelectKey(p) \/ AmbiguousKey(p) \/ GenerateKey(p) \/ ResumeNothing(p) \/ Resume(p)
         \/ NotDue(p) \/ ChooseRenew(p) \/ ChooseEnroll(p) \/ Bind(p)
  PROVE  CertInv'
  <1>0. /\ local[p] \in Local /\ Shape(pc[p], local[p]) /\ AnswerDropped(pc[p], local[p])
        /\ Releasable(local[p].snap)
        /\ local[p].snap.ops \subseteq KnownOps /\ local[p].op \in KnownOps \cup {NoOp}
        /\ inv \in Inventory /\ Releasable(inv) /\ inv.ops \subseteq KnownOps
    BY ProcFacts
  <1>1. CASE SelectKey(p)
    <2>1. PICK k \in inv.keys : Compute(p, "resume", [Fresh EXCEPT !.key = k])
      BY <1>1 DEF SelectKey
    <2> DEFINE l == [Fresh EXCEPT !.key = k]
    <2>2. l \in Local /\ l.snap = EmptyInventory /\ l.op = NoOp /\ l.key \in Key
      BY <1>0, <2>1, FreshType DEF Local, Inventory, Fresh
    <2>3. Compute(p, "resume", l) /\ EmptyInventory.ops = {}
      BY <2>1 DEF EmptyInventory
    <2> HIDE DEF l
    <2> QED
      BY <2>2, <2>3, FreshType, QuietKeeps DEF Shape, CallPC
  <1>2. CASE AmbiguousKey(p)
    BY <1>2, RefusedKeeps DEF AmbiguousKey
  <1>3. CASE GenerateKey(p)
    <2>1. PICK k \in FreshKeys :
            Compute(p, "save", [Fresh EXCEPT !.key = k, !.next = "resume",
                                                !.snap = [inv EXCEPT !.keys = @ \cup {k}]])
      BY <1>3 DEF GenerateKey
    <2> DEFINE s == [inv EXCEPT !.keys = @ \cup {k}]
               l == [Fresh EXCEPT !.key = k, !.next = "resume", !.snap = s]
    <2>2. k \in Key
      BY DEF FreshKeys, Chosen
    <2>3. s \in Inventory /\ s.ops = inv.ops /\ s.certs = inv.certs
      BY <1>0, <2>2 DEF Inventory
    <2> HIDE DEF s
    <2>4. l \in Local /\ l.snap = s /\ l.op = NoOp /\ l.answer = NoCert /\ l.next = "resume"
          /\ l.key \in Key
      BY <2>2, <2>3, FreshType DEF Local, Fresh, AfterSave
    <2>5. Compute(p, "save", l)
      BY <2>1 DEF s
    <2> HIDE DEF l
    <2>6. Releasable(s)
      BY <1>0, <2>3 DEF Releasable
    <2> QED
      BY <1>0, <2>3, <2>4, <2>5, <2>6, NothingAssumption, QuietKeeps DEF Shape, CallPC
  <1>4. CASE ResumeNothing(p) \/ NotDue(p) \/ ChooseEnroll(p)
    <2>1. PICK to \in {"choose", "bind", "enroll"} :
            Compute(p, to, local[p]) /\ pc[p] \in {"resume", "choose"}
      BY <1>4 DEF ResumeNothing, NotDue, ChooseEnroll
    <2> QED
      BY <1>0, <2>1, QuietKeeps DEF Shape, CallPC
  <1>5. CASE Resume(p)
    <2>1. PICK o \in inv.ops :
            Compute(p, "reconcile", [local[p] EXCEPT !.pred = o.pred, !.next = "choose"])
      BY <1>5 DEF Resume, Pending
    <2> DEFINE l == [local[p] EXCEPT !.pred = o.pred, !.next = "choose"]
    <2>2. o.pred \in Cert \cup {NoCert}
      BY <1>0 DEF Inventory, Op
    <2>3. /\ l \in Local /\ l.snap = local[p].snap /\ l.op = local[p].op /\ l.next = "choose"
          /\ l.key \in Key
      BY <1>0, <1>5, <2>2 DEF Local, AfterSave, Resume, Shape
    <2>4. Compute(p, "reconcile", l)
      BY <2>1
    <2> HIDE DEF l
    <2> QED
      BY <1>0, <2>3, <2>4, QuietKeeps DEF Shape, CallPC
  <1>6. CASE ChooseRenew(p)
    <2>1. PICK c \in Cert :
            Compute(p, "precheck", [local[p] EXCEPT !.pred = c, !.next = "idle"])
      BY <1>6 DEF ChooseRenew, ActiveCerts
    <2> DEFINE l == [local[p] EXCEPT !.pred = c, !.next = "idle"]
    <2>3. l \in Local /\ l.snap = local[p].snap /\ l.op = local[p].op /\ l.key \in Key
      BY <1>0, <1>6 DEF Local, AfterSave, ChooseRenew, Shape
    <2>4. Compute(p, "precheck", l)
      BY <2>1
    <2> HIDE DEF l
    <2> QED
      BY <1>0, <2>3, <2>4, QuietKeeps DEF Shape, CallPC
  <1>7. CASE Bind(p)
    <2> DEFINE l == [local[p] EXCEPT !.snap = inv, !.next = "idle"]
    <2>1. CASE Refused(p)
      BY <2>1, RefusedKeeps
    <2>2. CASE Compute(p, "save", l)
      <3>1. l \in Local /\ l.snap = inv /\ l.op = local[p].op /\ l.next = "idle"
        BY <1>0 DEF Local, AfterSave
      <3>2. l.answer = NoCert
        BY <1>0, <1>7 DEF Local, Bind, AnswerDropped
      <3> QED
        BY <1>0, <2>2, <3>1, <3>2, NothingAssumption, QuietKeeps DEF Shape, CallPC
    <2> QED
      BY <1>7, <2>1, <2>2 DEF Bind
  <1> QED
    BY <1>1, <1>2, <1>3, <1>4, <1>5, <1>6, <1>7

\* What a call does to an inventory.
Blocked(i, op) == [i EXCEPT !.certs[op.pred] = "renewal_pending", !.ops = @ \cup {op}]
Replaced(i, c, d) == [i EXCEPT !.certs[c] = "revoked", !.certs[d] = "active"]
Marked(i, c, s) == [i EXCEPT !.certs[c] = s]
Journalled(i, op) == [i EXCEPT !.ops = @ \cup {op}]

LEMMA BlockedFacts ==
  ASSUME NEW i \in Inventory, NEW op \in Op
  PROVE  /\ Blocked(i, op) \in Inventory
         /\ Blocked(i, op).ops = i.ops \cup {op} /\ Blocked(i, op).keys = i.keys
         /\ \A e \in Cert : Blocked(i, op).certs[e] =
                               IF e = op.pred THEN "renewal_pending" ELSE i.certs[e]
  <1> DEFINE j == Blocked(i, op)
  <1>1. /\ j \in Inventory /\ j.ops = i.ops \cup {op} /\ j.keys = i.keys
        /\ j.certs = [i.certs EXCEPT ![op.pred] = "renewal_pending"]
    <2>1. /\ j.ops = i.ops \cup {op} /\ j.keys = i.keys
          /\ j.certs = [i.certs EXCEPT ![op.pred] = "renewal_pending"]
      BY DEF Inventory, Blocked
    <2>2. [i.certs EXCEPT ![op.pred] = "renewal_pending"]
             \in [Cert -> {"absent", "active", "renewal_pending", "revoked"}]
      BY DEF Inventory
    <2> DEFINE f == [i.certs EXCEPT ![op.pred] = "renewal_pending"]
    <2>3. j = [i EXCEPT !.certs = f, !.ops = @ \cup {op}]
      BY DEF Blocked
    <2> HIDE DEF f, j
    <2>4. j \in Inventory
      BY <2>2, <2>3 DEF Inventory, f
    <2> QED
      BY <2>1, <2>4
  <1> HIDE DEF j
  <1>2. \A e \in Cert : j.certs[e] = IF e = op.pred THEN "renewal_pending" ELSE i.certs[e]
    BY <1>1 DEF Inventory
  <1> QED
    BY <1>1, <1>2 DEF j

LEMMA ReplacedFacts ==
  ASSUME NEW i \in Inventory, NEW c, NEW d \in Cert
  PROVE  /\ Replaced(i, c, d) \in Inventory
         /\ Replaced(i, c, d).ops = i.ops /\ Replaced(i, c, d).keys = i.keys
         /\ \A e \in Cert : Replaced(i, c, d).certs[e] =
                               IF e = d THEN "active" ELSE IF e = c THEN "revoked" ELSE i.certs[e]
  <1> DEFINE j == Replaced(i, c, d)
  <1>1. /\ j \in Inventory /\ j.ops = i.ops /\ j.keys = i.keys
        /\ j.certs = [[i.certs EXCEPT ![c] = "revoked"] EXCEPT ![d] = "active"]
    BY DEF Inventory, Replaced
  <1> HIDE DEF j
  <1>2. \A e \in Cert : j.certs[e] = IF e = d THEN "active"
                                     ELSE IF e = c THEN "revoked" ELSE i.certs[e]
    BY <1>1 DEF Inventory
  <1> QED
    BY <1>1, <1>2 DEF j

LEMMA MarkedFacts ==
  ASSUME NEW i \in Inventory, NEW c, NEW s \in {"absent", "active", "renewal_pending", "revoked"}
  PROVE  /\ Marked(i, c, s) \in Inventory
         /\ Marked(i, c, s).ops = i.ops /\ Marked(i, c, s).keys = i.keys
         /\ \A e \in Cert : Marked(i, c, s).certs[e] = IF e = c THEN s ELSE i.certs[e]
  <1> DEFINE j == Marked(i, c, s)
  <1>1. /\ j \in Inventory /\ j.ops = i.ops /\ j.keys = i.keys
        /\ j.certs = [i.certs EXCEPT ![c] = s]
    BY DEF Inventory, Marked
  <1> HIDE DEF j
  <1>2. \A e \in Cert : j.certs[e] = IF e = c THEN s ELSE i.certs[e]
    BY <1>1 DEF Inventory
  <1> QED
    BY <1>1, <1>2 DEF j

LEMMA JournalledFacts ==
  ASSUME NEW i \in Inventory, NEW op \in Op
  PROVE  /\ Journalled(i, op) \in Inventory
         /\ Journalled(i, op).certs = i.certs /\ Journalled(i, op).keys = i.keys
         /\ Journalled(i, op).ops = i.ops \cup {op}
  BY DEF Journalled, Inventory

LEMMA WithoutOpFacts ==
  ASSUME NEW i \in Inventory, NEW op
  PROVE  /\ WithoutOp(i, op) \in Inventory
         /\ WithoutOp(i, op).certs = i.certs /\ WithoutOp(i, op).keys = i.keys
         /\ WithoutOp(i, op).ops = {o \in i.ops : o.id # op.id}
  BY DEF WithoutOp, Inventory

LEMMA WithoutRenewalsFacts ==
  ASSUME NEW i \in Inventory, NEW c
  PROVE  /\ WithoutRenewals(i, c) \in Inventory
         /\ WithoutRenewals(i, c).certs = i.certs /\ WithoutRenewals(i, c).keys = i.keys
         /\ WithoutRenewals(i, c).ops = {o \in i.ops : o.kind # "renew" \/ o.pred # c}
  BY DEF WithoutRenewals, Inventory

\* The last part of a call: it saves s.
LEMMA SavingKeeps ==
  ASSUME CertInv, NEW p \in Proc, NEW s \in Inventory, NEW op \in Op \cup {NoOp},
         NEW to \in AfterSave, NEW N, Unused(N), op \in KnownOps \cup N \cup {NoOp},
         s.ops \subseteq KnownOps \cup N, Releasable(s),
         Compute(p, "save", [local[p] EXCEPT !.op = op, !.snap = s, !.next = to]),
         (local[p].answer \in Cert \/ to = "submit") =>
            /\ op \in Op /\ op.key = local[p].key
            /\ op.pred = IF op.kind = "renew" THEN local[p].pred ELSE NoCert,
         to # "idle" => local[p].key \in Key
  PROVE  CertInv'
  <1> DEFINE l == [local[p] EXCEPT !.op = op, !.snap = s, !.next = to]
  <1>0. local[p] \in Local
    BY ProcFacts
  <1>1. /\ l \in Local /\ l.snap = s /\ l.op = op /\ l.next = to
        /\ l.answer = local[p].answer /\ l.key = local[p].key /\ l.pred = local[p].pred
    BY <1>0 DEF Local
  <1> HIDE DEF l
  <1>2. Shape("save", l)
    BY <1>1 DEF Shape, OwnOp
  <1>3. Compute(p, "save", l) /\ "save" \in CallPC
    BY DEF l, CallPC
  <1> QED
    BY <1>1, <1>2, <1>3, ComputeKeeps

\* The same with the operation unchanged.
LEMMA ResavingKeeps ==
  ASSUME CertInv, NEW p \in Proc, NEW s \in Inventory, NEW to \in AfterSave \ {"submit"},
         s.ops \subseteq KnownOps, Releasable(s),
         Compute(p, "save", [local[p] EXCEPT !.snap = s, !.next = to]),
         local[p].answer \in Cert => OwnOp(local[p]),
         to # "idle" => local[p].key \in Key
  PROVE  CertInv'
  <1> DEFINE l == [local[p] EXCEPT !.snap = s, !.next = to]
  <1>0. local[p] \in Local /\ local[p].op \in KnownOps \cup {NoOp}
    BY ProcFacts
  <1>1. /\ l \in Local /\ l.snap = s /\ l.op = local[p].op /\ l.next = to
        /\ l.answer = local[p].answer /\ l.key = local[p].key /\ l.pred = local[p].pred
    BY <1>0 DEF Local
  <1> HIDE DEF l
  <1>2. Shape("save", l)
    BY <1>1 DEF Shape, OwnOp
  <1>3. Compute(p, "save", l) /\ "save" \in CallPC
    BY DEF l, CallPC
  <1> QED
    BY <1>0, <1>1, <1>2, <1>3, QuietKeeps

LEMMA RenewingKeeps ==
  ASSUME CertInv, NEW p \in Proc, Renewing(p)
  PROVE  CertInv'
  <1>0. /\ local[p] \in Local /\ Shape(pc[p], local[p]) /\ AnswerDropped(pc[p], local[p])
        /\ Releasable(local[p].snap)
        /\ local[p].snap.ops \subseteq KnownOps /\ local[p].op \in KnownOps \cup {NoOp}
        /\ inv \in Inventory /\ Releasable(inv) /\ inv.ops \subseteq KnownOps
    BY ProcFacts
  <1>u. local[p].snap \in Inventory /\ local[p].pred \in Cert \cup {NoCert}
        /\ local[p].key \in Key \cup {NoKey} /\ local[p].next \in AfterSave
    BY <1>0 DEF Local
  <1>k. local[p].key \in Key
    BY <1>0 DEF Shape, Renewing, Precheck, JournalRenewal, CommitRenewal, RenewalUncertain,
       ReconcileLoad, ListCertificates, Install, Restore, ReconcileRefused
  <1>1. CASE Precheck(p)
    <2> DEFINE l == [local[p] EXCEPT !.snap = inv]
    <2>1. CASE Compute(p, "challenge", l)
      <3>1. l \in Local /\ l.snap = inv /\ l.op = local[p].op /\ l.key \in Key
        BY <1>0, <1>k DEF Local
      <3> HIDE DEF l
      <3> QED
        BY <1>0, <2>1, <3>1, QuietKeeps DEF Shape, CallPC
    <2>2. CASE Refused(p)
      BY <2>2, RefusedKeeps
    <2> QED
      BY <1>1, <2>1, <2>2 DEF Precheck
  <1>2. CASE JournalRenewal(p)
    <2>1. PICK i \in FreshIds :
            LET op == [id |-> i, kind |-> "renew", key |-> local[p].key, pred |-> local[p].pred]
                snap == [local[p].snap EXCEPT !.certs[op.pred] = "renewal_pending",
                                              !.ops = @ \cup {op}]
            IN Compute(p, "save", [local[p] EXCEPT !.op = op, !.snap = snap, !.next = "submit"])
      BY <1>2 DEF JournalRenewal
    <2> DEFINE op == [id |-> i, kind |-> "renew", key |-> local[p].key, pred |-> local[p].pred]
               s == Blocked(local[p].snap, op)
    <2>2. Compute(p, "save", [local[p] EXCEPT !.op = op, !.snap = s, !.next = "submit"])
      BY <2>1 DEF Blocked
    <2>3. i \in OpId /\ \A o \in KnownOps : o.id # i
      BY FreshIdsUnused
    <2>4. op \in Op /\ op.id = i /\ op.kind = "renew" /\ op.key = local[p].key /\ op.pred = local[p].pred
      BY <1>k, <1>u, <2>3 DEF Op
    <2> HIDE DEF op
    <2>5. /\ s \in Inventory /\ s.ops = local[p].snap.ops \cup {op}
          /\ \A e \in Cert : s.certs[e] = IF e = op.pred THEN "renewal_pending"
                                          ELSE local[p].snap.certs[e]
      BY <1>u, <2>4, BlockedFacts
    <2> HIDE DEF s
    <2>6. Releasable(s)
      BY <1>0, <2>4, <2>5 DEF Releasable
    <2>7. Unused({op})
      BY <2>3, <2>4 DEF Unused
    <2>8. s.ops \subseteq KnownOps \cup {op} /\ "submit" \in AfterSave
      BY <1>0, <2>5 DEF AfterSave
    <2> QED
      BY <2>2, <2>4, <2>5, <2>6, <2>7, <2>8, <1>k, SavingKeeps
  <1>3. CASE CommitRenewal(p)
    <2> DEFINE s == Replaced(local[p].snap, local[p].pred, local[p].answer)
               t == WithoutOp(s, local[p].op)
    <2>1. /\ Compute(p, "save", [local[p] EXCEPT !.snap = t, !.next = "bind"])
          /\ pc[p] = "wait" /\ local[p].op.kind = "renew" /\ local[p].answer \in Cert
      BY <1>3 DEF CommitRenewal, Replaced
    <2>2. OwnOp(local[p])
      BY <1>0, <2>1 DEF Shape
    <2>3. /\ s \in Inventory /\ s.ops = local[p].snap.ops
          /\ \A e \in Cert : s.certs[e] =
                IF e = local[p].answer THEN "active"
                ELSE IF e = local[p].pred THEN "revoked" ELSE local[p].snap.certs[e]
      BY <1>u, <2>1, ReplacedFacts
    <2> HIDE DEF s
    <2>4. /\ t \in Inventory /\ t.certs = s.certs
          /\ t.ops = {o \in s.ops : o.id # local[p].op.id}
      BY <2>3, WithoutOpFacts
    <2> HIDE DEF t
    <2>5. Releasable(t)
      <3> SUFFICES ASSUME NEW c \in Cert, t.certs[c] = "renewal_pending"
                   PROVE  \E o \in t.ops : o.kind = "renew" /\ o.pred = c
        BY DEF Releasable
      <3>1. c # local[p].pred /\ local[p].snap.certs[c] = "renewal_pending"
        BY <2>3, <2>4
      <3>2. PICK o \in local[p].snap.ops : o.kind = "renew" /\ o.pred = c
        BY <1>0, <3>1 DEF Releasable
      <3>3. o \in KnownOps /\ local[p].op \in KnownOps /\ local[p].op.pred = local[p].pred
        BY <1>0, <2>1, <2>2, NoOpAssumption DEF OwnOp, KnownOps
      <3>4. o.id # local[p].op.id
        BY <3>1, <3>2, <3>3 DEF CertInv, OneOpPerId
      <3> QED
        BY <2>3, <2>4, <3>2, <3>4
    <2>6. t.ops \subseteq KnownOps /\ "bind" \in AfterSave \ {"submit"}
      BY <1>0, <2>3, <2>4 DEF AfterSave
    <2> QED
      BY <2>1, <2>2, <2>4, <2>5, <2>6, <1>k, ResavingKeeps
  <1>4. CASE RenewalUncertain(p)
    <2> DEFINE l == [local[p] EXCEPT !.next = "idle"]
    <2>1. Compute(p, "reconcile", l)
      BY <1>4 DEF RenewalUncertain
    <2>2. l \in Local /\ l.snap = local[p].snap /\ l.op = local[p].op /\ l.next = "idle"
          /\ l.key \in Key
      BY <1>0, <1>k DEF Local, AfterSave
    <2> HIDE DEF l
    <2> QED
      BY <1>0, <2>1, <2>2, QuietKeeps DEF Shape, CallPC
  <1>5. CASE ReconcileLoad(p)
    <2>1. CASE Compute(p, "list", local[p]) /\ pc[p] = "reconcile"
      BY <1>0, <1>k, <2>1, QuietKeeps DEF Shape, CallPC
    <2>2. CASE Refused(p)
      BY <2>2, RefusedKeeps
    <2> QED
      BY <1>5, <2>1, <2>2 DEF ReconcileLoad
  <1>6. CASE ListCertificates(p)
    <2> DEFINE b == atServer[local[p].pred].state = "superseded"
               l == [local[p] EXCEPT !.listed = {c \in Cert : atServer[c].state = "active"},
                                     !.superseded = b]
    <2>1. Compute(p, "detail", l) /\ pc[p] = "list"
      BY <1>6 DEF ListCertificates
    <2>b. b \in BOOLEAN
      BY Zenon
    <2> HIDE DEF b
    <2>2. l \in Local /\ l.snap = local[p].snap /\ l.op = local[p].op /\ l.next = local[p].next
          /\ l.key \in Key
      BY <1>0, <1>k, <2>b DEF Local
    <2> HIDE DEF l
    <2> QED
      BY <1>0, <2>1, <2>2, QuietKeeps DEF Shape, CallPC
  <1>7. CASE Install(p)
    <2>0. PICK c \in Replacements(p) :
            LET snap == [inv EXCEPT !.certs[local[p].pred] = "revoked", !.certs[c] = "active"]
            IN IF inv.certs[c] = "active"
               THEN Compute(p, "bind", local[p])
               ELSE IF inv.certs[local[p].pred] = "absent" THEN Refused(p)
               ELSE Compute(p, "save",
                      [local[p] EXCEPT !.snap = WithoutRenewals(snap, local[p].pred), !.next = "bind"])
      BY <1>7 DEF Install
    <2> DEFINE s == Replaced(inv, local[p].pred, c)
               t == WithoutRenewals(s, local[p].pred)
    <2>1. CASE Compute(p, "bind", local[p])
      BY <1>0, <1>k, <2>1, QuietKeeps DEF Shape, CallPC
    <2>2. CASE Refused(p)
      BY <2>2, RefusedKeeps
    <2>3. CASE Compute(p, "save", [local[p] EXCEPT !.snap = t, !.next = "bind"])
      <3>1. c \in Cert
        BY <1>0 DEF Replacements, StillActive, Local
      <3>2. /\ s \in Inventory /\ s.ops = inv.ops
            /\ \A e \in Cert : s.certs[e] =
                  IF e = c THEN "active" ELSE IF e = local[p].pred THEN "revoked" ELSE inv.certs[e]
        BY <1>0, <3>1, ReplacedFacts
      <3> HIDE DEF s
      <3>3. /\ t \in Inventory /\ t.certs = s.certs
            /\ t.ops = {o \in inv.ops : o.kind # "renew" \/ o.pred # local[p].pred}
        BY <3>2, WithoutRenewalsFacts
      <3> HIDE DEF t
      <3>4. Releasable(t)
        BY <1>0, <3>2, <3>3 DEF Releasable
      <3>5. t.ops \subseteq KnownOps /\ "bind" \in AfterSave \ {"submit"}
        BY <1>0, <3>3 DEF AfterSave
      <3>6. local[p].answer \notin Cert
        BY <1>0, <1>7, NothingAssumption DEF Install, AnswerDropped
      <3> QED
        BY <2>3, <3>3, <3>4, <3>5, <3>6, <1>k, ResavingKeeps
    <2> QED
      BY <2>0, <2>1, <2>2, <2>3 DEF Replaced
  <1>8. CASE Restore(p)
    <2> DEFINE s == Marked(inv, local[p].pred, "active")
               t == WithoutRenewals(s, local[p].pred)
    <2>1. Compute(p, "save", [local[p] EXCEPT !.snap = t]) /\ pc[p] = "detail"
      BY <1>8 DEF Restore, Marked
    <2>2. /\ s \in Inventory /\ s.ops = inv.ops
          /\ \A e \in Cert : s.certs[e] = IF e = local[p].pred THEN "active" ELSE inv.certs[e]
      BY <1>0, MarkedFacts
    <2> HIDE DEF s
    <2>3. /\ t \in Inventory /\ t.certs = s.certs
          /\ t.ops = {o \in inv.ops : o.kind # "renew" \/ o.pred # local[p].pred}
      BY <2>2, WithoutRenewalsFacts
    <2> HIDE DEF t
    <2>4. Releasable(t)
      BY <1>0, <2>2, <2>3 DEF Releasable
    <2>5. t.ops \subseteq KnownOps /\ local[p].next \in AfterSave \ {"submit"}
      BY <1>0, <2>1, <2>3 DEF Shape, AfterSave
    <2>6. local[p].answer \notin Cert
      BY <1>0, <2>1, NothingAssumption DEF AnswerDropped
    <2>7. [local[p] EXCEPT !.snap = t] = [local[p] EXCEPT !.snap = t, !.next = local[p].next]
      BY <1>0 DEF Local
    <2> QED
      BY <2>1, <2>3, <2>4, <2>5, <2>6, <2>7, <1>k, ResavingKeeps
  <1>9. CASE ReconcileRefused(p)
    BY <1>9, RefusedKeeps DEF ReconcileRefused
  <1> QED
    BY <1>1, <1>2, <1>3, <1>4, <1>5, <1>6, <1>7, <1>8, <1>9 DEF Renewing

\* An enrollment's operation is taken from the journal and no renewal is.
LEMMA DropEnrollment ==
  ASSUME CertInv, NEW p \in Proc, local[p].op \in Op, local[p].op.kind = "enroll",
         NEW s \in Inventory, s.ops = inv.ops,
         \A c \in Cert : s.certs[c] = "renewal_pending" => inv.certs[c] = "renewal_pending"
  PROVE  /\ WithoutOp(s, local[p].op) \in Inventory
         /\ WithoutOp(s, local[p].op).ops \subseteq KnownOps
         /\ Releasable(WithoutOp(s, local[p].op))
  <1> DEFINE t == WithoutOp(s, local[p].op)
  <1>1. /\ t \in Inventory /\ t.certs = s.certs
        /\ t.ops = {o \in s.ops : o.id # local[p].op.id}
    BY WithoutOpFacts
  <1> HIDE DEF t
  <1>0. /\ inv.ops \subseteq KnownOps /\ Releasable(inv) /\ local[p].op \in KnownOps
    BY ProcFacts, NoOpAssumption
  <1>2. Releasable(t)
    <2> SUFFICES ASSUME NEW c \in Cert, t.certs[c] = "renewal_pending"
                 PROVE  \E o \in t.ops : o.kind = "renew" /\ o.pred = c
      BY DEF Releasable
    <2>1. PICK o \in inv.ops : o.kind = "renew" /\ o.pred = c
      BY <1>0, <1>1 DEF Releasable
    <2>2. o.id # local[p].op.id
      BY <1>0, <2>1 DEF CertInv, OneOpPerId
    <2> QED
      BY <1>1, <2>1, <2>2
  <1> QED
    BY <1>0, <1>1, <1>2 DEF t

LEMMA EnrollingKeeps ==
  ASSUME CertInv, NEW p \in Proc, Enrolling(p)
  PROVE  CertInv'
  <1>0. /\ local[p] \in Local /\ Shape(pc[p], local[p]) /\ AnswerDropped(pc[p], local[p])
        /\ Releasable(local[p].snap)
        /\ local[p].snap.ops \subseteq KnownOps /\ local[p].op \in KnownOps \cup {NoOp}
        /\ inv \in Inventory /\ Releasable(inv) /\ inv.ops \subseteq KnownOps
    BY ProcFacts
  <1>u. local[p].listed \subseteq Cert /\ local[p].next \in AfterSave
    BY <1>0 DEF Local
  <1>k. local[p].key \in Key
    BY <1>0 DEF Shape, Enrolling, Enroll, EnrollRefused, JournalEnrollment, CommitEnrollment,
       CommitEnrollmentRefused, EnrollmentUncertain, EnrollList, EnrollRecover, EnrollDrop,
       EnrollRecoverRefused
  <1>1. CASE Enroll(p)
    <2>1. CASE Compute(p, "e_challenge", local[p])
      BY <1>0, <1>k, <2>1, QuietKeeps DEF Shape, CallPC
    <2>2. ASSUME NEW o \in Pending(inv, local[p].key, "enroll"),
                 Compute(p, "e_list", [local[p] EXCEPT !.op = o, !.next = "e_challenge"])
          PROVE  CertInv'
      <3> DEFINE l == [local[p] EXCEPT !.op = o, !.next = "e_challenge"]
      <3>1. o \in inv.ops /\ o \in Op /\ o.kind = "enroll"
        BY <1>0 DEF Pending, Inventory
      <3>2. /\ l \in Local /\ l.snap = local[p].snap /\ l.op = o /\ l.next = "e_challenge"
            /\ l.key \in Key
        BY <1>0, <1>k, <3>1 DEF Local, AfterSave
      <3>3. Compute(p, "e_list", l)
        BY <2>2
      <3> HIDE DEF l
      <3> QED
        BY <1>0, <3>1, <3>2, <3>3, QuietKeeps DEF Shape, CallPC
    <2> QED
      BY <1>1, <2>1, <2>2 DEF Enroll
  <1>2. CASE EnrollRefused(p) \/ CommitEnrollmentRefused(p) \/ EnrollRecoverRefused(p)
    BY <1>2, RefusedKeeps DEF EnrollRefused, CommitEnrollmentRefused, EnrollRecoverRefused
  <1>3. CASE JournalEnrollment(p)
    <2>1. CASE Refused(p)
      BY <2>1, RefusedKeeps
    <2>2. ASSUME NEW i \in FreshIds,
                 LET op == [id |-> i, kind |-> "enroll", key |-> local[p].key, pred |-> NoCert]
                     snap == [inv EXCEPT !.ops = @ \cup {op}]
                 IN Compute(p, "save", [local[p] EXCEPT !.op = op, !.snap = snap, !.next = "submit"])
          PROVE  CertInv'
      <3> DEFINE op == [id |-> i, kind |-> "enroll", key |-> local[p].key, pred |-> NoCert]
                 s == Journalled(inv, op)
      <3>1. Compute(p, "save", [local[p] EXCEPT !.op = op, !.snap = s, !.next = "submit"])
        BY <2>2 DEF Journalled
      <3>2. i \in OpId /\ \A o \in KnownOps : o.id # i
        BY FreshIdsUnused
      <3>3. /\ op \in Op /\ op.id = i /\ op.kind = "enroll" /\ op.key = local[p].key
            /\ op.pred = NoCert
        BY <1>k, <3>2 DEF Op
      <3> HIDE DEF op
      <3>4. s \in Inventory /\ s.ops = inv.ops \cup {op} /\ s.certs = inv.certs
        BY <1>0, <3>3, JournalledFacts
      <3> HIDE DEF s
      <3>5. Releasable(s)
        BY <1>0, <3>4 DEF Releasable
      <3>6. Unused({op})
        BY <3>2, <3>3 DEF Unused
      <3>7. s.ops \subseteq KnownOps \cup {op} /\ "submit" \in AfterSave
        BY <1>0, <3>4 DEF AfterSave
      <3> QED
        BY <1>k, <3>1, <3>3, <3>4, <3>5, <3>6, <3>7, SavingKeeps
    <2> QED
      BY <1>3, <2>1, <2>2 DEF JournalEnrollment
  <1>4. ASSUME NEW c \in Cert, local[p].op \in Op, local[p].op.kind = "enroll",
               local[p].answer \in Cert => OwnOp(local[p]),
               LET snap == [inv EXCEPT !.certs[c] = IF @ = "absent" THEN "active" ELSE @]
               IN Compute(p, "save", [local[p] EXCEPT !.snap = WithoutOp(snap, local[p].op),
                                                      !.next = "bind"])
        PROVE  CertInv'
    <2> DEFINE x == IF inv.certs[c] = "absent" THEN "active" ELSE inv.certs[c]
               s == Marked(inv, c, x)
               t == WithoutOp(s, local[p].op)
    <2>1. [inv EXCEPT !.certs[c] = IF @ = "absent" THEN "active" ELSE @] = s
      BY DEF Marked
    <2>2. Compute(p, "save", [local[p] EXCEPT !.snap = t, !.next = "bind"])
      BY <1>4, <2>1
    <2>3. x \in {"absent", "active", "renewal_pending", "revoked"}
      BY <1>0 DEF Inventory
    <2>x. x = "renewal_pending" => inv.certs[c] = "renewal_pending"
      OBVIOUS
    <2> HIDE DEF x
    <2>4. /\ s \in Inventory /\ s.ops = inv.ops
          /\ \A e \in Cert : s.certs[e] = IF e = c THEN x ELSE inv.certs[e]
      BY <1>0, <2>3, MarkedFacts
    <2> HIDE DEF s
    <2>5. t \in Inventory /\ t.ops \subseteq KnownOps /\ Releasable(t)
      BY <1>4, <2>x, <2>4, DropEnrollment
    <2> HIDE DEF t
    <2>6. "bind" \in AfterSave \ {"submit"}
      BY DEF AfterSave
    <2> QED
      BY <1>k, <1>4, <2>2, <2>5, <2>6, ResavingKeeps
  <1>5. CASE CommitEnrollment(p)
    <2>1. OwnOp(local[p])
      BY <1>0, <1>5 DEF CommitEnrollment, Shape
    <2> QED
      BY <1>4, <1>5, <2>1 DEF CommitEnrollment, OwnOp
  <1>6. CASE EnrollmentUncertain(p)
    <2> DEFINE l == [local[p] EXCEPT !.next = "idle"]
    <2>1. Compute(p, "e_list", l)
      BY <1>6 DEF EnrollmentUncertain
    <2>2. /\ l \in Local /\ l.snap = local[p].snap /\ l.op = local[p].op /\ l.next = "idle"
          /\ l.key \in Key
      BY <1>0, <1>k DEF Local, AfterSave
    <2>3. local[p].op \in Op /\ local[p].op.kind = "enroll"
      BY <1>0, <1>6 DEF EnrollmentUncertain, Shape, OwnOp
    <2> HIDE DEF l
    <2> QED
      BY <1>0, <2>1, <2>2, <2>3, QuietKeeps DEF Shape, CallPC
  <1>7. CASE EnrollList(p)
    <2> DEFINE l == [local[p] EXCEPT !.listed = {c \in Cert : atServer[c].state = "active"}]
    <2>1. Compute(p, "e_detail", l) /\ pc[p] = "e_list"
      BY <1>7 DEF EnrollList
    <2>2. /\ l \in Local /\ l.snap = local[p].snap /\ l.op = local[p].op
          /\ l.next = local[p].next /\ l.key \in Key
      BY <1>0, <1>k DEF Local
    <2> HIDE DEF l
    <2> QED
      BY <1>0, <2>1, <2>2, QuietKeeps DEF Shape, CallPC
  <1>8. CASE EnrollRecover(p)
    <2>1. PICK c \in Candidates(p) :
            LET snap == [inv EXCEPT !.certs[c] = IF @ = "absent" THEN "active" ELSE @]
            IN Compute(p, "save", [local[p] EXCEPT !.snap = WithoutOp(snap, local[p].op),
                                                   !.next = "bind"])
      BY <1>8 DEF EnrollRecover
    <2>2. c \in Cert
      BY <1>u DEF Candidates, StillActive
    <2>3. local[p].op \in Op /\ local[p].op.kind = "enroll" /\ local[p].answer \notin Cert
      BY <1>0, <1>8, NothingAssumption DEF EnrollRecover, Shape, AnswerDropped
    <2> QED
      BY <1>4, <2>1, <2>2, <2>3
  <1>9. CASE EnrollDrop(p)
    <2> DEFINE t == WithoutOp(inv, local[p].op)
    <2>1. Compute(p, "save", [local[p] EXCEPT !.snap = t]) /\ pc[p] = "e_detail"
      BY <1>9 DEF EnrollDrop
    <2>2. local[p].op \in Op /\ local[p].op.kind = "enroll" /\ local[p].answer \notin Cert
      BY <1>0, <2>1, NothingAssumption DEF Shape, AnswerDropped
    <2>3. t \in Inventory /\ t.ops \subseteq KnownOps /\ Releasable(t)
      BY <1>0, <2>2, DropEnrollment
    <2> HIDE DEF t
    <2>4. local[p].next \in AfterSave \ {"submit"}
      BY <1>0, <2>1 DEF Shape, AfterSave
    <2>5. [local[p] EXCEPT !.snap = t] = [local[p] EXCEPT !.snap = t, !.next = local[p].next]
      BY <1>0 DEF Local
    <2> QED
      BY <1>k, <2>1, <2>2, <2>3, <2>4, <2>5, ResavingKeeps
  <1> QED
    BY <1>1, <1>2, <1>3, <1>5, <1>6, <1>7, <1>8, <1>9 DEF Enrolling

\* A move that journals nothing, whatever else the step does.
LEMMA QuietMoves ==
  ASSUME CertInv, NEW p \in Proc, NEW to \in CallPC, NEW l \in Local,
         Moves(p, to, l), Shape(to, l), Releasable(l.snap),
         l.snap.ops \subseteq KnownOps, l.op \in KnownOps \cup {NoOp},
         atServer' \in [Cert -> ServerCert], wire' \subseteq [proc : Proc, op : Op],
         faultsLeft' \in Nat, late' \in {"never", "no", "yes"}
  PROVE  CertInv'
  <1>1. Unused({})
    BY DEF Unused
  <1> QED
    BY <1>1, MovesKeep DEF CertInv, CertTypeOK

\* A call goes back to reconcile its own operation.
LEMMA ReconcilesMoves ==
  ASSUME CertInv, NEW p \in Proc, OwnOp(local[p]), pc[p] \in {"wait", "save"},
         Reconciles(p), inv' \in {inv, local[p].snap},
         atServer' \in [Cert -> ServerCert], wire' \subseteq [proc : Proc, op : Op],
         faultsLeft' \in Nat, late' \in {"never", "no", "yes"}
  PROVE  CertInv'
  <1> DEFINE l == [local[p] EXCEPT !.next = "idle", !.answer = NoCert]
             to == IF local[p].op.kind = "renew" THEN "reconcile" ELSE "e_list"
  <1>0. /\ local[p] \in Local /\ Releasable(local[p].snap)
        /\ local[p].snap.ops \subseteq KnownOps /\ local[p].op \in KnownOps \cup {NoOp}
    BY ProcFacts
  <1>1. /\ l \in Local /\ l.snap = local[p].snap /\ l.op = local[p].op /\ l.next = "idle"
        /\ l.key = local[p].key
    BY <1>0 DEF Local, AfterSave
  <1>2. Moves(p, to, l)
    BY DEF Reconciles, Moves
  <1>3. local[p].op \in Op /\ local[p].op.kind \in {"enroll", "renew"} /\ local[p].key \in Key
    BY DEF OwnOp, Op
  <1> HIDE DEF l
  <1>4. Shape(to, l) /\ to \in CallPC
    BY <1>1, <1>3 DEF Shape, CallPC
  <1> QED
    BY <1>0, <1>1, <1>2, <1>4, QuietMoves

LEMMA ReturnMoves ==
  ASSUME CertInv, NEW p \in Proc, Return(p), inv' \in {inv, local[p].snap},
         atServer' \in [Cert -> ServerCert], wire' \subseteq [proc : Proc, op : Op],
         faultsLeft' \in Nat, late' \in {"never", "no", "yes"}
  PROVE  CertInv'
  <1>1. Fresh.snap = EmptyInventory /\ EmptyInventory.ops = {} /\ Fresh.op = NoOp
    BY DEF Fresh, EmptyInventory
  <1>2. Shape("idle", Fresh) /\ "idle" \in CallPC
    BY DEF Shape, CallPC
  <1>3. Moves(p, "idle", Fresh)
    BY DEF Return, Moves
  <1> QED
    BY <1>1, <1>2, <1>3, FreshType, QuietMoves

LEMMA StoringKeeps ==
  ASSUME CertInv, NEW p \in Proc,
         Submit(p) \/ Save(p) \/ SaveInvalid(p) \/ MarkRevoked(p)
  PROVE  CertInv'
  <1>0. /\ local[p] \in Local /\ Shape(pc[p], local[p]) /\ AnswerDropped(pc[p], local[p])
        /\ Releasable(local[p].snap)
        /\ local[p].snap.ops \subseteq KnownOps /\ local[p].op \in KnownOps \cup {NoOp}
        /\ inv \in Inventory /\ Releasable(inv) /\ inv.ops \subseteq KnownOps
    BY ProcFacts
  <1>t. /\ atServer \in [Cert -> ServerCert] /\ wire \subseteq [proc : Proc, op : Op]
        /\ faultsLeft \in Nat /\ late \in {"never", "no", "yes"}
    BY DEF CertInv, CertTypeOK
  <1>1. CASE Submit(p)
    <2>1. OwnOp(local[p]) /\ Shape("wait", local[p])
      BY <1>0, <1>1 DEF Submit, Shape
    <2>2. Moves(p, "wait", local[p]) /\ UNCHANGED <<atServer, faultsLeft, late>>
      BY <1>1 DEF Submit, Moves, NoFault
    <2>3. wire' \subseteq [proc : Proc, op : Op]
      BY <1>1, <1>t, <2>1 DEF Submit, OwnOp
    <2> QED
      BY <1>0, <1>t, <2>1, <2>2, <2>3, QuietMoves DEF CallPC
  <1>2. CASE Save(p)
    <2>1. UNCHANGED <<atServer, wire, faultsLeft, late>> /\ inv' = local[p].snap /\ pc[p] = "save"
      BY <1>2 DEF Save, NoFault, remote
    <2>2. CASE local[p].next = "idle"
      BY <1>2, <1>t, <2>1, <2>2, ReturnMoves DEF Save
    <2>3. CASE local[p].next # "idle"
      <3>1. Moves(p, local[p].next, local[p])
        BY <1>2, <2>1, <2>3 DEF Save, Moves
      <3>2. local[p].next \in CallPC /\ Shape(local[p].next, local[p])
        BY <1>0, <2>1, <2>3 DEF Local, AfterSave, CallPC, Shape
      <3> QED
        BY <1>0, <1>t, <2>1, <3>1, <3>2, QuietMoves
    <2> QED
      BY <2>2, <2>3
  <1>3. CASE SaveInvalid(p)
    <2>1. UNCHANGED <<atServer, wire, faultsLeft, late>> /\ inv' = inv /\ pc[p] = "save"
      BY <1>3 DEF SaveInvalid, NoFault, remote
    <2>2. CASE ReconciledSave(p)
      <3>1. OwnOp(local[p])
        BY <1>0, <2>1, <2>2 DEF ReconciledSave, Shape
      <3> QED
        BY <1>3, <1>t, <2>1, <2>2, <3>1, ReconcilesMoves DEF SaveInvalid
    <2>3. CASE ~ ReconciledSave(p)
      BY <1>3, <1>t, <2>1, <2>3, ReturnMoves DEF SaveInvalid
    <2> QED
      BY <2>2, <2>3
  <1>4. CASE MarkRevoked(p)
    <2> DEFINE c == local[p].pred
               x == IF inv.certs[c] = "absent" THEN "absent" ELSE "revoked"
               s == Marked(inv, c, x)
    <2>1. [inv EXCEPT !.certs[c] = IF @ = "absent" THEN @ ELSE "revoked"] = s
      BY DEF Marked
    <2>2. Compute(p, "save", [local[p] EXCEPT !.snap = s, !.next = "idle"])
      BY <1>4, <2>1 DEF MarkRevoked
    <2>3. x \in {"absent", "revoked"}
      OBVIOUS
    <2> HIDE DEF x
    <2>4. /\ s \in Inventory /\ s.ops = inv.ops
          /\ \A e \in Cert : s.certs[e] = IF e = c THEN x ELSE inv.certs[e]
      BY <1>0, <2>3, MarkedFacts
    <2> HIDE DEF s
    <2>5. Releasable(s)
      BY <1>0, <2>3, <2>4 DEF Releasable
    <2>6. local[p].answer \notin Cert /\ "idle" \in AfterSave \ {"submit"}
      BY <1>0, <1>4, NothingAssumption DEF MarkRevoked, AnswerDropped, AfterSave
    <2> QED
      BY <1>0, <2>2, <2>4, <2>5, <2>6, ResavingKeeps
  <1> QED
    BY <1>1, <1>2, <1>3, <1>4

LEMMA FailsKeep ==
  ASSUME CertInv, NEW p \in Proc, Revoke(p) \/ Fails(p)
  PROVE  CertInv'
  <1>0. /\ local[p] \in Local /\ Shape(pc[p], local[p]) /\ AnswerDropped(pc[p], local[p])
        /\ Releasable(local[p].snap)
        /\ local[p].snap.ops \subseteq KnownOps /\ local[p].op \in KnownOps \cup {NoOp}
        /\ inv \in Inventory /\ Releasable(inv) /\ inv.ops \subseteq KnownOps
    BY ProcFacts
  <1>t. /\ atServer \in [Cert -> ServerCert] /\ wire \subseteq [proc : Proc, op : Op]
        /\ faultsLeft \in Nat /\ late \in {"never", "no", "yes"}
    BY DEF CertInv, CertTypeOK
  <1>f. faultsLeft' \in Nat
    BY <1>t DEF Fails, Revoke, AnswerLost, Crash, SaveFails, Fault
  <1>1. CASE Revoke(p)
    <2>1. PICK c \in Cert :
            /\ atServer' = [atServer EXCEPT ![c].state = IF @ = "active" THEN "revoked" ELSE @]
            /\ Goto(p, "mark_revoked", [Fresh EXCEPT !.pred = c])
      BY <1>1 DEF Revoke
    <2> DEFINE l == [Fresh EXCEPT !.pred = c]
    <2>2. l \in Local /\ l.snap = EmptyInventory /\ l.op = NoOp
      BY FreshType DEF Local, Fresh
    <2>3. Moves(p, "mark_revoked", l)
      BY <1>1, <2>1 DEF Revoke, Moves
    <2>4. atServer' \in [Cert -> ServerCert]
      BY <1>t, <2>1 DEF ServerCert
    <2>5. wire' = wire /\ late' = late /\ EmptyInventory.ops = {}
      BY <1>1 DEF Revoke, EmptyInventory
    <2> HIDE DEF l
    <2>6. Shape("mark_revoked", l) /\ "mark_revoked" \in CallPC
      BY DEF Shape, CallPC
    <2> QED
      BY <1>f, <1>t, <2>2, <2>3, <2>4, <2>5, <2>6, FreshType, QuietMoves
  <1>a. ASSUME Abandon(p)
        PROVE  wire' \subseteq [proc : Proc, op : Op] /\ late' \in {"never", "no", "yes"}
    BY <1>t, <1>a DEF Abandon
  <1>2. CASE AnswerLost(p)
    <2>1. OwnOp(local[p])
      BY <1>0, <1>2 DEF AnswerLost, Shape
    <2> QED
      BY <1>2, <1>a, <1>f, <1>t, <2>1, ReconcilesMoves DEF AnswerLost
  <1>3. CASE Crash(p)
    BY <1>3, <1>a, <1>f, <1>t, ReturnMoves DEF Crash
  <1>4. CASE SaveFails(p)
    <2>1. OwnOp(local[p])
      BY <1>0, <1>4 DEF SaveFails, ReconciledSave, Shape
    <2> QED
      BY <1>4, <1>f, <1>t, <2>1, ReconcilesMoves DEF SaveFails, remote
  <1> QED
    BY <1>1, <1>2, <1>3, <1>4 DEF Fails

\* The server's step changes nothing of a call but the answer it waits for.
LEMMA AnsweredFacts ==
  ASSUME CertInv, NEW r \in wire, NEW a \in Cert \cup {"refused"}, Answered(r, a), pc' = pc
  PROVE  /\ local' \in [Proc -> Local]
         /\ \A p \in Proc :
               /\ local'[p].snap = local[p].snap /\ local'[p].op = local[p].op
               /\ local'[p].key = local[p].key /\ local'[p].pred = local[p].pred
               /\ local'[p].next = local[p].next /\ local'[p].listed = local[p].listed
               /\ local'[p].answer =
                     IF p = r.proc /\ pc[p] = "wait" /\ local[p].op = r.op
                     THEN a ELSE local[p].answer
  <1>0. local \in [Proc -> Local] /\ r.proc \in Proc
    BY DEF CertInv, LocalInv, CertTypeOK
  <1>1. CASE pc[r.proc] = "wait" /\ local[r.proc].op = r.op
    <2> DEFINE l == [local[r.proc] EXCEPT !.answer = a]
    <2>1. local' = [local EXCEPT ![r.proc] = l]
      BY <1>0, <1>1 DEF Answered
    <2>2. /\ l \in Local /\ l.snap = local[r.proc].snap /\ l.op = local[r.proc].op
          /\ l.key = local[r.proc].key /\ l.pred = local[r.proc].pred
          /\ l.next = local[r.proc].next /\ l.listed = local[r.proc].listed /\ l.answer = a
      BY <1>0 DEF Local
    <2> HIDE DEF l
    <2> QED
      BY <1>0, <1>1, <2>1, <2>2
  <1>2. CASE ~ (pc[r.proc] = "wait" /\ local[r.proc].op = r.op)
    BY <1>0, <1>2 DEF Answered
  <1> QED
    BY <1>1, <1>2

LEMMA ServingKeeps ==
  ASSUME CertInv, NEW r \in wire, Issue(r) \/ Decline(r)
  PROVE  CertInv'
  <1>t. /\ atServer \in [Cert -> ServerCert] /\ wire \subseteq [proc : Proc, op : Op]
        /\ faultsLeft \in Nat /\ late \in {"never", "no", "yes"}
    BY DEF CertInv, CertTypeOK
  <1>r. r.op \in Op
    BY <1>t
  <1>1. PICK a \in Cert \cup {"refused"} : Answered(r, a)
    BY DEF Issue, Decline, FreshCerts, Chosen
  <1>2. /\ pc' = pc /\ inv' = inv /\ wire' = wire \ {r} /\ UNCHANGED <<faultsLeft, late>>
    BY DEF Issue, Decline, NoFault
  <1>3. atServer' \in [Cert -> ServerCert]
    <2>1. CASE Decline(r)
      BY <1>t, <2>1 DEF Decline
    <2>2. CASE Issue(r)
      <3>1. PICK c \in FreshCerts :
              atServer' = [d \in Cert |->
                IF d = c THEN [state |-> "active", key |-> r.op.key, pred |-> r.op.pred]
                ELSE IF d = r.op.pred THEN [atServer[d] EXCEPT !.state = "superseded"]
                ELSE atServer[d]]
        BY <2>2 DEF Issue
      <3>2. \A d \in Cert : [atServer[d] EXCEPT !.state = "superseded"] \in ServerCert
        BY <1>t DEF ServerCert
      <3>3. [state |-> "active", key |-> r.op.key, pred |-> r.op.pred] \in ServerCert
        BY <1>r DEF ServerCert, Op
      <3> QED
        BY <1>t, <3>1, <3>2, <3>3
    <2> QED
      BY <2>1, <2>2
  <1>4. /\ local' \in [Proc -> Local]
        /\ \A p \in Proc :
               /\ local'[p].snap = local[p].snap /\ local'[p].op = local[p].op
               /\ local'[p].key = local[p].key /\ local'[p].pred = local[p].pred
               /\ local'[p].next = local[p].next
               /\ local'[p].answer # local[p].answer => pc[p] = "wait"
    BY <1>1, <1>2, AnsweredFacts
  <1>5. LocalInv'
    BY <1>2, <1>4 DEF CertInv, LocalInv, Shape, OwnOp, AnswerDropped
  <1>6. KnownOps' \subseteq KnownOps
    BY <1>2, <1>4 DEF KnownOps
  <1>7. CertTypeOK'
    BY <1>2, <1>3, <1>4, <1>t DEF CertInv, CertTypeOK, Local
  <1> QED
    BY <1>2, <1>5, <1>6, <1>7 DEF CertInv, OneOpPerId, Releasable

LEMMA CertInvInit == CertInit => CertInv
  <1> SUFFICES ASSUME CertInit PROVE CertInv
    OBVIOUS
  <1>1. PICK s \in Scenarios :
          /\ inv = [EmptyInventory EXCEPT !.keys = s.keys]
          /\ pc = [p \in Proc |-> IF p \in s.procs THEN "idle" ELSE "off"]
          /\ faultsLeft = s.faults
          /\ late = IF s.late THEN "no" ELSE "never"
    BY DEF CertInit
  <1>2. s.keys \subseteq Key /\ s.faults \in Nat
    BY ScenariosAssumption
  <1>3. inv \in Inventory /\ inv.ops = {} /\ \A c \in Cert : inv.certs[c] = "absent"
    BY <1>1, <1>2 DEF EmptyInventory, Inventory
  <1>4. atServer \in [Cert -> ServerCert] /\ wire = {} /\ local = [p \in Proc |-> Fresh]
    BY DEF CertInit, Unissued, ServerCert
  <1>5. /\ Fresh \in Local /\ Fresh.snap = EmptyInventory /\ EmptyInventory.ops = {}
        /\ Fresh.op = NoOp /\ Fresh.answer = NoCert /\ Fresh.next = "idle"
    BY FreshType DEF Fresh, EmptyInventory
  <1>6. CertTypeOK
    BY <1>1, <1>2, <1>3, <1>4, <1>5 DEF CertTypeOK, Local
  <1>7. LocalInv
    BY <1>1, <1>4, <1>5, FreshType, NothingAssumption
       DEF LocalInv, Shape, AnswerDropped, CallPC
  <1>8. OneOpPerId
    BY <1>3, <1>4, <1>5, NoOpAssumption DEF OneOpPerId, KnownOps
  <1> QED
    BY <1>3, <1>6, <1>7, <1>8 DEF CertInv, Releasable

LEMMA CertInvStep == CertInv /\ [CertNext]_certVars => CertInv'
  <1> SUFFICES ASSUME CertInv, [CertNext]_certVars PROVE CertInv'
    OBVIOUS
  <1>1. ASSUME NEW p \in Proc, Provision(p) \/ Revoke(p) \/ Fails(p) PROVE CertInv'
    BY <1>1, ProvisionKeeps, RenewingKeeps, EnrollingKeeps, StoringKeeps, FailsKeep DEF Provision
  <1>2. ASSUME NEW r \in wire, Issue(r) \/ Decline(r) PROVE CertInv'
    BY <1>2, ServingKeeps
  <1>3. CASE UNCHANGED certVars
    BY <1>3 DEF certVars, CertInv, CertTypeOK, LocalInv, OneOpPerId, KnownOps, Releasable
  <1> QED
    BY <1>1, <1>2, <1>3 DEF CertNext

\* renew_certificate blocks a predecessor in the same save that journals the
\* operation, and reconcile_uncertain_renewal drops the operation only in a save
\* that unblocks it: for any number of processes that load and save the inventory
\* whole and without a lock, and any crashes, no certificate stays blocked that
\* resume_pending_renewal would not look at.
THEOREM BlockedAreReleased == CertSpec => []BlockedHasOperation
  <1>1. CertInv => BlockedHasOperation
    BY DEF CertInv, Releasable, BlockedHasOperation
  <1> QED
    BY <1>1, CertInvInit, CertInvStep, PTL DEF CertSpec

-----------------------------------------------------------------------------
(* One process: the inductive invariant *)

KnownKind(at, l) == at \in {"submit", "wait"} => l.op.kind \in {"enroll", "renew"}

LEMMA KeptCallOK ==
  ASSUME NEW to \in CallPC, NEW l \in Local, NEW i, KnownKind(to, l), CallOK(to, l, i)
  PROVE  CallOK(to, KeptLocal(to, l), i)
  <1>0. KeptLocal(to, l).key = l.key
    BY KeptFields
  <1>1. CASE to = "save"
    BY <1>0, <1>1, KeptAtSave DEF CallOK, Minting, Holding
  <1>2. CASE to \in {"submit", "wait"}
    BY <1>0, <1>2, KeptAtSubmit DEF CallOK, Minting, Holding, KnownKind
  <1>3. CASE to \notin {"save", "submit", "wait"}
    BY <1>0, <1>3, KeptElsewhere DEF CallOK, Minting, Holding
  <1> QED
    BY <1>1, <1>2, <1>3

LEMMA KeptTrackOK ==
  ASSUME NEW to \in CallPC, NEW l \in Local, NEW i, KnownKind(to, l), TrackOK(to, l, i)
  PROVE  TrackOK(to, KeptLocal(to, l), i)
  <1>1. CASE to = "save"
    BY <1>1, KeptAtSave DEF TrackOK
  <1>2. CASE to \in {"submit", "wait"}
    BY <1>2, KeptAtSubmit DEF TrackOK, KnownKind
  <1>3. CASE to \notin {"save", "submit", "wait"}
    BY <1>3, KeptElsewhere DEF TrackOK
  <1> QED
    BY <1>1, <1>2, <1>3

\* A step of the process that leaves the server alone.
LEMMA MoveAlone ==
  ASSUME CertInv, NEW p \in Proc, NEW to \in CallPC, NEW l \in Local, KnownKind(to, l),
         Goto(p, to, l), atServer' = atServer,
         ServerOK', CallOK(to, l, inv'),
         late' # "yes" =>
            /\ TrackOK(to, l, inv')
            /\ wire' \subseteq {[proc |-> p, op |-> KeptLocal(to, l).op]}
            /\ wire' # {} => to = "wait" /\ KeptLocal(to, l).answer = NoCert
  PROVE  AloneInv(p)'
  <1>1. pc \in [Proc -> CallPC \cup {"off"}] /\ local \in [Proc -> Local]
    BY DEF CertInv, LocalInv
  <1>2. pc'[p] = to /\ local'[p] = KeptLocal(to, l)
    BY <1>1 DEF Goto, KeptLocal
  <1>3. PICK k : k = KeptLocal(to, l)
    OBVIOUS
  <1>4. PICK i : i = inv'
    OBVIOUS
  <1>5. CallOK(to, k, i) /\ (late' # "yes" => TrackOK(to, k, i))
    BY <1>3, <1>4, KeptCallOK, KeptTrackOK
  <1>6. CallOK(pc[p], local[p], inv)'
    BY <1>2, <1>3, <1>4, <1>5 DEF CallOK, Minting, Holding
  <1>7. late' # "yes" => TrackOK(pc[p], local[p], inv)'
    BY <1>2, <1>3, <1>4, <1>5 DEF TrackOK, Tracks, Current, Active
  <1>8. late' # "yes" => WireOK(p, pc[p], local[p])'
    BY <1>2 DEF WireOK
  <1> QED
    BY <1>6, <1>7, <1>8 DEF AloneInv

\* The process is not waiting for the server.
Idle(p) == pc[p] # "wait" \/ local[p].answer # NoCert

LEMMA QuietAlone ==
  ASSUME CertInv, NEW p \in Proc, AloneInv(p), Idle(p),
         NEW to \in CallPC \ {"submit", "wait"}, NEW l \in Local, Compute(p, to, l),
         CallOK(to, l, inv), late # "yes" => TrackOK(to, l, inv)
  PROVE  AloneInv(p)'
  <1>1. /\ inv' = inv /\ atServer' = atServer /\ wire' = wire /\ late' = late
        /\ Goto(p, to, l)
    BY DEF Compute, NoFault, remote
  <1>2. late # "yes" => wire = {}
    BY DEF AloneInv, WireOK, Idle
  <1>3. ServerOK'
    BY <1>1 DEF AloneInv, ServerOK, Active
  <1>4. KnownKind(to, l) /\ to \in CallPC
    BY DEF KnownKind
  <1>5. CallOK(to, l, inv') /\ (late' # "yes" => TrackOK(to, l, inv'))
    BY <1>1
  <1>6. late' # "yes" =>
            /\ TrackOK(to, l, inv')
            /\ wire' \subseteq {[proc |-> p, op |-> KeptLocal(to, l).op]}
            /\ wire' # {} => to = "wait" /\ KeptLocal(to, l).answer = NoCert
    BY <1>1, <1>2, <1>5
  <1> QED
    BY <1>1, <1>3, <1>4, <1>5, <1>6, MoveAlone

\* The key of a call that has one.
LEMMA AloneKey ==
  ASSUME NEW p \in Proc, AloneInv(p), pc[p] # "save"
  PROVE  local[p].key = NoKey \/ inv.keys = {local[p].key}
  BY DEF AloneInv, CallOK, Minting

\* Most steps need nothing but the key.
LEMMA PlainAlone ==
  ASSUME CertInv, NEW p \in Proc, AloneInv(p), Idle(p),
         NEW to \in CallPC \ {"submit", "wait", "save", "e_detail", "precheck", "challenge"},
         NEW l \in Local, Compute(p, to, l), l.key = NoKey \/ inv.keys = {l.key}
  PROVE  AloneInv(p)'
  <1>1. CallOK(to, l, inv)
    BY DEF CallOK, Holding
  <1>2. late # "yes" => TrackOK(to, l, inv)
    BY DEF AloneInv, TrackOK
  <1> QED
    BY <1>1, <1>2, QuietAlone

LEMMA RefusedAlone ==
  ASSUME CertInv, NEW p \in Proc, AloneInv(p), Idle(p), Refused(p)
  PROVE  AloneInv(p)'
  <1>1. Fresh.key = NoKey
    BY DEF Fresh
  <1> QED
    BY <1>1, FreshType, PlainAlone DEF Refused, CallPC

\* A save of the inventory s that is true of the server.
LEMMA SaveAlone ==
  ASSUME CertInv, NEW p \in Proc, AloneInv(p), Idle(p),
         NEW l \in Local, Compute(p, "save", l), l.key = NoKey \/ inv.keys = {l.key},
         l.snap.keys = inv.keys, l.next = "submit" => Names(l.op),
         late # "yes" => /\ Tracks(l.snap) /\ Current(l.snap)
                         /\ l.next = "submit" => l.op \in l.snap.ops /\ l.answer = NoCert
  PROVE  AloneInv(p)'
  <1>1. CallOK("save", l, inv)
    BY DEF CallOK, Holding
  <1>2. late # "yes" => TrackOK("save", l, inv)
    BY DEF AloneInv, TrackOK
  <1> QED
    BY <1>1, <1>2, QuietAlone DEF CallPC

LEMMA ResaveAlone ==
  ASSUME CertInv, NEW p \in Proc, AloneInv(p), Idle(p), pc[p] # "save",
         NEW s \in Inventory, NEW to \in AfterSave \ {"submit"},
         Compute(p, "save", [local[p] EXCEPT !.snap = s, !.next = to]),
         s.keys = inv.keys, late # "yes" => Tracks(s) /\ Current(s)
  PROVE  AloneInv(p)'
  <1> DEFINE l == [local[p] EXCEPT !.snap = s, !.next = to]
  <1>1. l \in Local /\ l.snap = s /\ l.next = to /\ l.key = local[p].key
    BY ProcFacts DEF Local
  <1>2. Compute(p, "save", l)
    OBVIOUS
  <1> HIDE DEF l
  <1> QED
    BY <1>1, <1>2, AloneKey, SaveAlone

LEMMA ProvisionAlone ==
  ASSUME CertInv, NEW p \in Proc, AloneInv(p),
         \/ SelectKey(p) \/ AmbiguousKey(p) \/ GenerateKey(p) \/ ResumeNothing(p) \/ Resume(p)
         \/ NotDue(p) \/ ChooseRenew(p) \/ ChooseEnroll(p) \/ Bind(p)
  PROVE  AloneInv(p)'
  <1>0. local[p] \in Local /\ inv \in Inventory /\ Shape(pc[p], local[p])
    BY ProcFacts
  <1>i. Idle(p) /\ pc[p] # "save"
    BY DEF Idle, SelectKey, AmbiguousKey, GenerateKey, ResumeNothing, Resume, NotDue,
       ChooseRenew, ChooseEnroll, Bind
  <1>k. local[p].key = NoKey \/ inv.keys = {local[p].key}
    BY <1>i, AloneKey
  <1>1. CASE SelectKey(p)
    <2>1. PICK k \in inv.keys : inv.keys = {k} /\ Compute(p, "resume", [Fresh EXCEPT !.key = k])
      BY <1>1 DEF SelectKey
    <2> DEFINE l == [Fresh EXCEPT !.key = k]
    <2>2. l \in Local /\ l.key = k /\ Compute(p, "resume", l)
      BY <1>0, <2>1, FreshType DEF Local, Inventory, Fresh
    <2> HIDE DEF l
    <2> QED
      BY <1>i, <2>1, <2>2, PlainAlone DEF CallPC
  <1>2. CASE AmbiguousKey(p)
    BY <1>2, <1>i, RefusedAlone DEF AmbiguousKey
  <1>3. CASE GenerateKey(p)
    <2>1. PICK k \in FreshKeys :
            Compute(p, "save", [Fresh EXCEPT !.key = k, !.next = "resume",
                                                !.snap = [inv EXCEPT !.keys = @ \cup {k}]])
      BY <1>3 DEF GenerateKey
    <2> DEFINE s == [inv EXCEPT !.keys = @ \cup {k}]
               l == [Fresh EXCEPT !.key = k, !.next = "resume", !.snap = s]
    <2>2. k \in Key /\ inv.keys = {}
      BY <1>3 DEF FreshKeys, Chosen, GenerateKey
    <2>3. s \in Inventory /\ s.ops = inv.ops /\ s.certs = inv.certs /\ s.keys = {k}
      BY <1>0, <2>2 DEF Inventory
    <2> HIDE DEF s
    <2>4. l \in Local /\ l.snap = s /\ l.next = "resume" /\ l.key = k
      BY <2>2, <2>3, FreshType DEF Local, Fresh, AfterSave
    <2>5. Compute(p, "save", l)
      BY <2>1 DEF s
    <2> HIDE DEF l
    <2>6. CallOK("save", l, inv)
      BY <2>2, <2>3, <2>4 DEF CallOK, Minting, Holding
    <2>7. late # "yes" => TrackOK("save", l, inv)
      BY <2>3, <2>4 DEF AloneInv, TrackOK, Tracks, Current
    <2> QED
      BY <1>i, <2>4, <2>5, <2>6, <2>7, QuietAlone DEF CallPC
  <1>4. CASE ResumeNothing(p) \/ NotDue(p) \/ ChooseEnroll(p)
    <2>1. PICK to \in {"choose", "bind", "enroll"} : Compute(p, to, local[p])
      BY <1>4 DEF ResumeNothing, NotDue, ChooseEnroll
    <2> QED
      BY <1>0, <1>i, <1>k, <2>1, PlainAlone DEF CallPC
  <1>5. CASE Resume(p)
    <2>1. PICK o \in inv.ops :
            Compute(p, "reconcile", [local[p] EXCEPT !.pred = o.pred, !.next = "choose"])
      BY <1>5 DEF Resume, Pending
    <2> DEFINE l == [local[p] EXCEPT !.pred = o.pred, !.next = "choose"]
    <2>2. o.pred \in Cert \cup {NoCert}
      BY <1>0 DEF Inventory, Op
    <2>3. l \in Local /\ l.key = local[p].key /\ Compute(p, "reconcile", l)
      BY <1>0, <2>1, <2>2 DEF Local, AfterSave
    <2> HIDE DEF l
    <2> QED
      BY <1>i, <1>k, <2>3, PlainAlone DEF CallPC
  <1>6. CASE ChooseRenew(p)
    <2>1. PICK c \in Cert :
            Compute(p, "precheck", [local[p] EXCEPT !.pred = c, !.next = "idle"])
      BY <1>6 DEF ChooseRenew, ActiveCerts
    <2> DEFINE l == [local[p] EXCEPT !.pred = c, !.next = "idle"]
    <2>3. l \in Local /\ l.key = local[p].key /\ l.pred = c /\ Compute(p, "precheck", l)
      BY <1>0, <2>1 DEF Local, AfterSave
    <2> HIDE DEF l
    <2>4. CallOK("precheck", l, inv)
      BY <1>k, <2>3 DEF CallOK, Holding
    <2>5. late # "yes" => TrackOK("precheck", l, inv)
      BY DEF AloneInv, TrackOK
    <2> QED
      BY <1>i, <2>3, <2>4, <2>5, QuietAlone DEF CallPC
  <1>7. CASE Bind(p)
    <2>1. CASE Refused(p)
      BY <1>i, <2>1, RefusedAlone
    <2>2. CASE Compute(p, "save", [local[p] EXCEPT !.snap = inv, !.next = "idle"])
      <3>1. late # "yes" => Tracks(inv) /\ Current(inv)
        BY DEF AloneInv, TrackOK
      <3> QED
        BY <1>0, <1>i, <2>2, <3>1, ResaveAlone DEF AfterSave
    <2> QED
      BY <1>7, <2>1, <2>2 DEF Bind
  <1> QED
    BY <1>1, <1>2, <1>3, <1>4, <1>5, <1>6, <1>7

\* When there is one active certificate and the inventory knows it, that is all.
LEMMA TracksOnly ==
  ASSUME ServerOK, NEW s, NEW c \in Cert, Active(c), s.certs[c] # "absent"
  PROVE  Tracks(s)
  BY DEF Tracks, ServerOK

LEMMA RenewingAlone ==
  ASSUME CertInv, NEW p \in Proc, AloneInv(p), Renewing(p)
  PROVE  AloneInv(p)'
  <1>0. local[p] \in Local /\ inv \in Inventory /\ Shape(pc[p], local[p])
    BY ProcFacts
  <1>u. /\ local[p].snap \in Inventory /\ local[p].pred \in Cert \cup {NoCert}
        /\ local[p].next \in AfterSave /\ local[p].listed \subseteq Cert
    BY <1>0 DEF Local
  <1>i. Idle(p) /\ pc[p] # "save"
    BY NothingAssumption DEF Idle, Renewing, Precheck, JournalRenewal, CommitRenewal,
       RenewalUncertain, ReconcileLoad, ListCertificates, Install, Restore, ReconcileRefused
  <1>k. (local[p].key = NoKey \/ inv.keys = {local[p].key}) /\ local[p].key \in Key
    BY <1>0, <1>i, AloneKey DEF Shape, Renewing, Precheck, JournalRenewal, CommitRenewal, RenewalUncertain,
       ReconcileLoad, ListCertificates, Install, Restore, ReconcileRefused
  <1>s. ServerOK /\ (late # "yes" => Tracks(inv) /\ Current(inv))
    BY DEF AloneInv, TrackOK
  <1>1. CASE Precheck(p)
    <2> DEFINE l == [local[p] EXCEPT !.snap = inv]
    <2>1. CASE Compute(p, "challenge", l) /\ inv.certs[local[p].pred] = "active"
      <3>1. l \in Local /\ l.snap = inv /\ l.key = local[p].key /\ l.pred = local[p].pred
        BY <1>0 DEF Local
      <3> HIDE DEF l
      <3>2. local[p].pred \in Cert
        BY <1>1 DEF AloneInv, CallOK, Precheck
      <3>3. CallOK("challenge", l, inv)
        BY <1>k, <2>1, <3>1, <3>2 DEF CallOK, Holding
      <3>4. late # "yes" => TrackOK("challenge", l, inv)
        BY DEF AloneInv, TrackOK
      <3> QED
        BY <1>i, <2>1, <3>1, <3>3, <3>4, QuietAlone DEF CallPC
    <2>2. CASE Refused(p)
      BY <1>i, <2>2, RefusedAlone
    <2> QED
      BY <1>1, <2>1, <2>2 DEF Precheck
  <1>2. CASE JournalRenewal(p)
    <2>1. PICK i \in FreshIds :
            LET op == [id |-> i, kind |-> "renew", key |-> local[p].key, pred |-> local[p].pred]
                snap == [local[p].snap EXCEPT !.certs[op.pred] = "renewal_pending",
                                              !.ops = @ \cup {op}]
            IN Compute(p, "save", [local[p] EXCEPT !.op = op, !.snap = snap, !.next = "submit"])
      BY <1>2 DEF JournalRenewal
    <2> DEFINE op == [id |-> i, kind |-> "renew", key |-> local[p].key, pred |-> local[p].pred]
               s == Blocked(local[p].snap, op)
               l == [local[p] EXCEPT !.op = op, !.snap = s, !.next = "submit"]
    <2>2. Compute(p, "save", l)
      BY <2>1 DEF Blocked
    <2>3. op \in Op /\ Names(op)
      <3>1. local[p].pred \in Cert
        BY <1>2 DEF AloneInv, CallOK, JournalRenewal
      <3> QED
        BY <1>k, <1>u, <3>1, FreshIdsUnused DEF Op, Names
    <2> HIDE DEF op
    <2>4. local[p].snap = inv
      BY <1>2 DEF JournalRenewal, AloneInv, CallOK, Holding
    <2>5. /\ s \in Inventory /\ s.ops = inv.ops \cup {op} /\ s.keys = inv.keys
          /\ \A e \in Cert : s.certs[e] = IF e = op.pred THEN "renewal_pending"
                                          ELSE inv.certs[e]
      BY <1>u, <2>3, <2>4, BlockedFacts
    <2> HIDE DEF s
    <2>a. local[p].answer = NoCert
      BY <1>2, ProcFacts DEF AnswerDropped, JournalRenewal
    <2>6. l \in Local /\ l.snap = s /\ l.op = op /\ l.key = local[p].key /\ l.answer = NoCert
      BY <1>0, <2>3, <2>5, <2>a DEF Local, AfterSave
    <2> HIDE DEF l
    <2>7. late # "yes" => Tracks(s) /\ Current(s)
      BY <1>s, <2>5 DEF Tracks, Current
    <2> QED
      BY <1>i, <1>k, <2>2, <2>3, <2>5, <2>6, <2>7, SaveAlone
  <1>3. CASE CommitRenewal(p)
    <2> DEFINE s == Replaced(local[p].snap, local[p].pred, local[p].answer)
               t == WithoutOp(s, local[p].op)
    <2>1. /\ Compute(p, "save", [local[p] EXCEPT !.snap = t, !.next = "bind"])
          /\ pc[p] = "wait" /\ local[p].op.kind = "renew" /\ local[p].answer \in Cert
      BY <1>3 DEF CommitRenewal, Replaced
    <2>2. /\ local[p].snap = inv
          /\ late # "yes" => Active(local[p].answer)
      BY <2>1 DEF AloneInv, CallOK, Holding, TrackOK
    <2>3. /\ s \in Inventory /\ s.ops = inv.ops /\ s.keys = inv.keys
          /\ \A e \in Cert : s.certs[e] =
                IF e = local[p].answer THEN "active"
                ELSE IF e = local[p].pred THEN "revoked" ELSE inv.certs[e]
      BY <1>u, <2>1, <2>2, ReplacedFacts
    <2> HIDE DEF s
    <2>4. t \in Inventory /\ t.certs = s.certs /\ t.keys = s.keys
      BY <2>3, WithoutOpFacts
    <2> HIDE DEF t
    <2>5. late # "yes" => Tracks(t)
      BY <1>s, <2>1, <2>2, <2>3, <2>4, TracksOnly
    <2>6. late # "yes" => Current(t)
      BY <1>s, <2>2, <2>3, <2>4 DEF Current, Active
    <2> QED
      BY <1>i, <2>1, <2>3, <2>4, <2>5, <2>6, ResaveAlone DEF AfterSave
  <1>4. CASE RenewalUncertain(p)
    <2> DEFINE l == [local[p] EXCEPT !.next = "idle"]
    <2>1. l \in Local /\ l.key = local[p].key /\ Compute(p, "reconcile", l)
      BY <1>0, <1>4 DEF Local, AfterSave, RenewalUncertain
    <2> HIDE DEF l
    <2> QED
      BY <1>i, <1>k, <2>1, PlainAlone DEF CallPC
  <1>5. CASE ReconcileLoad(p)
    <2>1. CASE Compute(p, "list", local[p])
      BY <1>0, <1>i, <1>k, <2>1, PlainAlone DEF CallPC
    <2>2. CASE Refused(p)
      BY <1>i, <2>2, RefusedAlone
    <2> QED
      BY <1>5, <2>1, <2>2 DEF ReconcileLoad
  <1>6. CASE ListCertificates(p)
    <2> DEFINE b == atServer[local[p].pred].state = "superseded"
               l == [local[p] EXCEPT !.listed = {c \in Cert : atServer[c].state = "active"},
                                     !.superseded = b]
    <2>1. Compute(p, "detail", l)
      BY <1>6 DEF ListCertificates
    <2>b. b \in BOOLEAN
      BY Zenon
    <2> HIDE DEF b
    <2>2. l \in Local /\ l.key = local[p].key
      BY <1>0, <2>b DEF Local
    <2> HIDE DEF l
    <2> QED
      BY <1>i, <1>k, <2>1, <2>2, PlainAlone DEF CallPC
  <1>7. CASE Install(p)
    <2>0. PICK c \in Replacements(p) :
            LET snap == [inv EXCEPT !.certs[local[p].pred] = "revoked", !.certs[c] = "active"]
            IN IF inv.certs[c] = "active"
               THEN Compute(p, "bind", local[p])
               ELSE IF inv.certs[local[p].pred] = "absent" THEN Refused(p)
               ELSE Compute(p, "save",
                      [local[p] EXCEPT !.snap = WithoutRenewals(snap, local[p].pred), !.next = "bind"])
      BY <1>7 DEF Install
    <2> DEFINE s == Replaced(inv, local[p].pred, c)
               t == WithoutRenewals(s, local[p].pred)
    <2>1. CASE Compute(p, "bind", local[p])
      BY <1>0, <1>i, <1>k, <2>1, PlainAlone DEF CallPC
    <2>2. CASE Refused(p)
      BY <1>i, <2>2, RefusedAlone
    <2>3. CASE Compute(p, "save", [local[p] EXCEPT !.snap = t, !.next = "bind"])
      <3>1. c \in Cert /\ Active(c)
        BY <1>u DEF Replacements, StillActive, Active
      <3>2. /\ s \in Inventory /\ s.keys = inv.keys
            /\ \A e \in Cert : s.certs[e] =
                  IF e = c THEN "active" ELSE IF e = local[p].pred THEN "revoked" ELSE inv.certs[e]
        BY <1>0, <3>1, ReplacedFacts
      <3> HIDE DEF s
      <3>3. t \in Inventory /\ t.certs = s.certs /\ t.keys = s.keys
        BY <3>2, WithoutRenewalsFacts
      <3> HIDE DEF t
      <3>4. Tracks(t)
        BY <1>s, <3>1, <3>2, <3>3, TracksOnly
      <3>5. late # "yes" => Current(t)
        BY <1>s, <3>1, <3>2, <3>3 DEF Current, Active
      <3> QED
        BY <1>i, <2>3, <3>2, <3>3, <3>4, <3>5, ResaveAlone DEF AfterSave
    <2> QED
      BY <2>0, <2>1, <2>2, <2>3 DEF Replaced
  <1>8. CASE Restore(p)
    <2> DEFINE s == Marked(inv, local[p].pred, "active")
               t == WithoutRenewals(s, local[p].pred)
    <2>1. /\ Compute(p, "save", [local[p] EXCEPT !.snap = t]) /\ pc[p] = "detail"
          /\ local[p].pred \in Cert /\ Active(local[p].pred)
      BY <1>8, <1>u DEF Restore, Marked, StillActive, Active
    <2>2. /\ s \in Inventory /\ s.keys = inv.keys
          /\ \A e \in Cert : s.certs[e] = IF e = local[p].pred THEN "active" ELSE inv.certs[e]
      BY <1>0, MarkedFacts
    <2> HIDE DEF s
    <2>3. t \in Inventory /\ t.certs = s.certs /\ t.keys = s.keys
      BY <2>2, WithoutRenewalsFacts
    <2> HIDE DEF t
    <2>4. Tracks(t)
      BY <1>s, <2>1, <2>2, <2>3, TracksOnly
    <2>5. late # "yes" => Current(t)
      BY <1>s, <2>1, <2>2, <2>3 DEF Current, Active
    <2>6. local[p].next \in AfterSave \ {"submit"}
      BY <1>0, <2>1 DEF Shape, AfterSave
    <2>7. [local[p] EXCEPT !.snap = t] = [local[p] EXCEPT !.snap = t, !.next = local[p].next]
      BY <1>0 DEF Local
    <2> QED
      BY <1>i, <2>1, <2>2, <2>3, <2>4, <2>5, <2>6, <2>7, ResaveAlone
  <1>9. CASE ReconcileRefused(p)
    BY <1>9, <1>i, RefusedAlone DEF ReconcileRefused
  <1> QED
    BY <1>1, <1>2, <1>3, <1>4, <1>5, <1>6, <1>7, <1>8, <1>9 DEF Renewing

LEMMA EnrollingAlone ==
  ASSUME CertInv, NEW p \in Proc, AloneInv(p), Enrolling(p)
  PROVE  AloneInv(p)'
  <1>0. local[p] \in Local /\ inv \in Inventory /\ Shape(pc[p], local[p])
    BY ProcFacts
  <1>u. local[p].next \in AfterSave /\ local[p].listed \subseteq Cert
    BY <1>0 DEF Local
  <1>i. Idle(p) /\ pc[p] # "save"
    BY NothingAssumption DEF Idle, Enrolling, Enroll, EnrollRefused, JournalEnrollment,
       CommitEnrollment, CommitEnrollmentRefused, EnrollmentUncertain, EnrollList,
       EnrollRecover, EnrollDrop, EnrollRecoverRefused
  <1>k. (local[p].key = NoKey \/ inv.keys = {local[p].key}) /\ local[p].key \in Key
    BY <1>0, <1>i, AloneKey DEF Shape, Enrolling, Enroll, EnrollRefused, JournalEnrollment,
       CommitEnrollment, CommitEnrollmentRefused, EnrollmentUncertain, EnrollList,
       EnrollRecover, EnrollDrop, EnrollRecoverRefused
  <1>s. ServerOK /\ (late # "yes" => Tracks(inv) /\ Current(inv))
    BY DEF AloneInv, TrackOK
  <1>1. CASE Enroll(p)
    <2>1. CASE Compute(p, "e_challenge", local[p])
      BY <1>0, <1>i, <1>k, <2>1, PlainAlone DEF CallPC
    <2>2. ASSUME NEW o \in Pending(inv, local[p].key, "enroll"),
                 Compute(p, "e_list", [local[p] EXCEPT !.op = o, !.next = "e_challenge"])
          PROVE  AloneInv(p)'
      <3> DEFINE l == [local[p] EXCEPT !.op = o, !.next = "e_challenge"]
      <3>1. o \in Op
        BY <1>0 DEF Pending, Inventory
      <3>2. l \in Local /\ l.key = local[p].key /\ Compute(p, "e_list", l)
        BY <1>0, <2>2, <3>1 DEF Local, AfterSave
      <3> HIDE DEF l
      <3> QED
        BY <1>i, <1>k, <3>2, PlainAlone DEF CallPC
    <2> QED
      BY <1>1, <2>1, <2>2 DEF Enroll
  <1>2. CASE EnrollRefused(p) \/ CommitEnrollmentRefused(p) \/ EnrollRecoverRefused(p)
    BY <1>2, <1>i, RefusedAlone DEF EnrollRefused, CommitEnrollmentRefused, EnrollRecoverRefused
  <1>3. CASE JournalEnrollment(p)
    <2>1. CASE Refused(p)
      BY <1>i, <2>1, RefusedAlone
    <2>2. ASSUME NEW i \in FreshIds,
                 LET op == [id |-> i, kind |-> "enroll", key |-> local[p].key, pred |-> NoCert]
                     snap == [inv EXCEPT !.ops = @ \cup {op}]
                 IN Compute(p, "save", [local[p] EXCEPT !.op = op, !.snap = snap, !.next = "submit"])
          PROVE  AloneInv(p)'
      <3> DEFINE op == [id |-> i, kind |-> "enroll", key |-> local[p].key, pred |-> NoCert]
                 s == Journalled(inv, op)
                 l == [local[p] EXCEPT !.op = op, !.snap = s, !.next = "submit"]
      <3>1. Compute(p, "save", l)
        BY <2>2 DEF Journalled
      <3>2. op \in Op /\ Names(op)
        BY <1>k, FreshIdsUnused DEF Op, Names
      <3> HIDE DEF op
      <3>3. s \in Inventory /\ s.ops = inv.ops \cup {op} /\ s.certs = inv.certs /\ s.keys = inv.keys
        BY <1>0, <3>2, JournalledFacts
      <3> HIDE DEF s
      <3>a. local[p].answer = NoCert
        BY <1>3, ProcFacts DEF AnswerDropped, JournalEnrollment
      <3>4. l \in Local /\ l.snap = s /\ l.op = op /\ l.key = local[p].key /\ l.answer = NoCert
        BY <1>0, <3>2, <3>3, <3>a DEF Local, AfterSave
      <3> HIDE DEF l
      <3>5. late # "yes" => Tracks(s) /\ Current(s)
        BY <1>s, <3>3 DEF Tracks, Current
      <3> QED
        BY <1>i, <1>k, <3>1, <3>2, <3>3, <3>4, <3>5, SaveAlone
    <2> QED
      BY <1>3, <2>1, <2>2 DEF JournalEnrollment
  <1>4. ASSUME NEW c \in Cert, late # "yes" => Active(c),
               LET snap == [inv EXCEPT !.certs[c] = IF @ = "absent" THEN "active" ELSE @]
               IN Compute(p, "save", [local[p] EXCEPT !.snap = WithoutOp(snap, local[p].op),
                                                      !.next = "bind"])
        PROVE  AloneInv(p)'
    <2> DEFINE x == IF inv.certs[c] = "absent" THEN "active" ELSE inv.certs[c]
               s == Marked(inv, c, x)
               t == WithoutOp(s, local[p].op)
    <2>1. [inv EXCEPT !.certs[c] = IF @ = "absent" THEN "active" ELSE @] = s
      BY DEF Marked
    <2>2. Compute(p, "save", [local[p] EXCEPT !.snap = t, !.next = "bind"])
      BY <1>4, <2>1
    <2>3. x \in {"active", "renewal_pending", "revoked"}
      BY <1>0 DEF Inventory
    <2> HIDE DEF x
    <2>4. /\ s \in Inventory /\ s.keys = inv.keys
          /\ \A e \in Cert : s.certs[e] = IF e = c THEN x ELSE inv.certs[e]
      BY <1>0, <2>3, MarkedFacts
    <2> HIDE DEF s
    <2>5. t \in Inventory /\ t.certs = s.certs /\ t.keys = s.keys
      BY <2>4, WithoutOpFacts
    <2> HIDE DEF t
    <2>6. late # "yes" => Tracks(t)
      BY <1>4, <1>s, <2>3, <2>4, <2>5, TracksOnly
    <2>7. late # "yes" => Current(t)
      BY <1>4, <1>s, <2>4, <2>5 DEF Current, Active
    <2> QED
      BY <1>i, <2>2, <2>4, <2>5, <2>6, <2>7, ResaveAlone DEF AfterSave
  <1>5. CASE CommitEnrollment(p)
    <2>1. late # "yes" => Active(local[p].answer)
      BY <1>5 DEF CommitEnrollment, AloneInv, TrackOK
    <2> QED
      BY <1>4, <1>5, <2>1 DEF CommitEnrollment
  <1>6. CASE EnrollmentUncertain(p)
    <2> DEFINE l == [local[p] EXCEPT !.next = "idle"]
    <2>1. l \in Local /\ l.key = local[p].key /\ Compute(p, "e_list", l)
      BY <1>0, <1>6 DEF Local, AfterSave, EnrollmentUncertain
    <2> HIDE DEF l
    <2> QED
      BY <1>i, <1>k, <2>1, PlainAlone DEF CallPC
  <1>7. CASE EnrollList(p)
    <2> DEFINE l == [local[p] EXCEPT !.listed = {c \in Cert : atServer[c].state = "active"}]
    <2>1. Compute(p, "e_detail", l)
      BY <1>7 DEF EnrollList
    <2>2. /\ l \in Local /\ l.key = local[p].key
          /\ l.listed = {c \in Cert : atServer[c].state = "active"}
      BY <1>0 DEF Local
    <2> HIDE DEF l
    <2>3. CallOK("e_detail", l, inv)
      BY <1>k, <2>2 DEF CallOK, Holding
    <2>4. late # "yes" => TrackOK("e_detail", l, inv)
      BY <1>s, <2>2 DEF TrackOK, Active
    <2> QED
      BY <1>i, <2>1, <2>2, <2>3, <2>4, QuietAlone DEF CallPC
  <1>8. CASE EnrollRecover(p)
    <2>1. PICK c \in Candidates(p) :
            LET snap == [inv EXCEPT !.certs[c] = IF @ = "absent" THEN "active" ELSE @]
            IN Compute(p, "save", [local[p] EXCEPT !.snap = WithoutOp(snap, local[p].op),
                                                   !.next = "bind"])
      BY <1>8 DEF EnrollRecover
    <2>2. c \in Cert /\ Active(c)
      BY <1>u DEF Candidates, StillActive, Active
    <2> QED
      BY <1>4, <2>1, <2>2
  <1>9. CASE EnrollDrop(p)
    <2> DEFINE t == WithoutOp(inv, local[p].op)
    <2>1. Compute(p, "save", [local[p] EXCEPT !.snap = t]) /\ pc[p] = "e_detail"
      BY <1>9 DEF EnrollDrop
    <2>2. t \in Inventory /\ t.certs = inv.certs /\ t.keys = inv.keys
      BY <1>0, WithoutOpFacts
    <2> HIDE DEF t
    <2>3. late # "yes" => \A c \in Cert : ~ Active(c)
      <3> SUFFICES ASSUME late # "yes", NEW c \in Cert, Active(c) PROVE FALSE
        OBVIOUS
      <3>1. c \in StillActive(p)
        BY <2>1 DEF AloneInv, TrackOK, StillActive, Active
      <3>2. atServer[c].key # NoKey /\ inv.keys = {atServer[c].key}
        BY <1>s DEF ServerOK, Active
      <3>3. atServer[c].key = local[p].key
        BY <1>k, <3>2, NothingAssumption
      <3> QED
        BY <1>9, <3>1, <3>3 DEF EnrollDrop, Candidates
    <2>4. late # "yes" => Tracks(t) /\ Current(t)
      BY <1>s, <2>2, <2>3 DEF Tracks, Current
    <2>5. local[p].next \in AfterSave \ {"submit"}
      BY <1>0, <2>1 DEF Shape, AfterSave
    <2>6. [local[p] EXCEPT !.snap = t] = [local[p] EXCEPT !.snap = t, !.next = local[p].next]
      BY <1>0 DEF Local
    <2> QED
      BY <1>i, <2>1, <2>2, <2>4, <2>5, <2>6, ResaveAlone
  <1> QED
    BY <1>1, <1>2, <1>3, <1>5, <1>6, <1>7, <1>8, <1>9 DEF Enrolling

\* Where nothing waits for the server, nothing is under way.
LEMMA NothingUnderWay ==
  ASSUME NEW p \in Proc, AloneInv(p), Idle(p), late # "yes"
  PROVE  wire = {}
  BY DEF AloneInv, WireOK, Idle

\* The stored inventory may have become the one that was to be saved.
LEMMA StoredAlone ==
  ASSUME CertInv, NEW p \in Proc, AloneInv(p), pc[p] = "save", inv' \in {inv, local[p].snap},
         atServer' = atServer, wire' \subseteq wire
  PROVE  /\ ServerOK'
         /\ late # "yes" => Tracks(inv') /\ Current(inv')
         /\ local[p].next # "resume" => inv'.keys = inv.keys
  <1>1. local[p].snap.keys = inv.keys \/ Minting(pc[p], local[p], inv)
    BY DEF AloneInv, CallOK
  <1>2. inv'.keys = inv.keys \/ (inv.keys = {} /\ local[p].next = "resume")
    BY <1>1 DEF Minting
  <1>3. ServerOK'
    BY <1>2 DEF AloneInv, ServerOK, Active
  <1>4. late # "yes" => Tracks(inv') /\ Current(inv')
    BY DEF AloneInv, TrackOK
  <1> QED
    BY <1>2, <1>3, <1>4

\* A call ends, or goes back to reconcile.
LEMMA EndAlone ==
  ASSUME CertInv, NEW p \in Proc, AloneInv(p), Return(p) \/ Reconciles(p),
         ServerOK', atServer' = atServer, late' # "yes" => late # "yes" /\ wire' = {},
         late # "yes" => Tracks(inv') /\ Current(inv'),
         Reconciles(p) => inv'.keys = {local[p].key}
  PROVE  AloneInv(p)'
  <1>0. local[p] \in Local
    BY ProcFacts
  <1>1. PICK to \in CallPC \ {"submit", "wait", "save", "e_detail", "precheck", "challenge"},
             l \in Local : Goto(p, to, l) /\ (l.key = NoKey \/ inv'.keys = {l.key})
    <2>1. CASE Return(p)
      <3>1. Goto(p, "idle", Fresh) /\ Fresh.key = NoKey
        BY <2>1 DEF Return, Fresh
      <3> QED
        BY <3>1, FreshType DEF CallPC
    <2>2. CASE Reconciles(p)
      <3> DEFINE l == [local[p] EXCEPT !.next = "idle", !.answer = NoCert]
                 to == IF local[p].op.kind = "renew" THEN "reconcile" ELSE "e_list"
      <3>1. l \in Local /\ l.key = local[p].key /\ Goto(p, to, l)
        BY <1>0, <2>2 DEF Local, AfterSave, Reconciles
      <3>2. to \in CallPC \ {"submit", "wait", "save", "e_detail", "precheck", "challenge"}
        BY DEF CallPC
      <3> HIDE DEF l, to
      <3> QED
        BY <2>2, <3>1, <3>2
    <2> QED
      BY <2>1, <2>2
  <1>2. CallOK(to, l, inv') /\ KnownKind(to, l)
    BY <1>1 DEF CallOK, Holding, KnownKind
  <1>3. late' # "yes" => TrackOK(to, l, inv')
    BY <1>1 DEF TrackOK
  <1> QED
    BY <1>1, <1>2, <1>3, MoveAlone

\* The two ends differ in where the call goes.
LEMMA ReturnsOrReconciles ==
  ASSUME CertInv, NEW p \in Proc, Return(p)
  PROVE  ~ Reconciles(p)
  BY DEF CertInv, LocalInv, Return, Reconciles, Goto

\* A save that is reconciled is one with the device's key.
LEMMA SavedKey ==
  ASSUME NEW p \in Proc, AloneInv(p), pc[p] = "save", Shape(pc[p], local[p]), ReconciledSave(p)
  PROVE  inv.keys = {local[p].key}
  BY NothingAssumption DEF Shape, AloneInv, CallOK, Minting, ReconciledSave

LEMMA StoringAlone ==
  ASSUME CertInv, NEW p \in Proc, AloneInv(p),
         Submit(p) \/ Save(p) \/ SaveInvalid(p) \/ MarkRevoked(p)
  PROVE  AloneInv(p)'
  <1>0. local[p] \in Local /\ inv \in Inventory /\ Shape(pc[p], local[p])
        /\ AnswerDropped(pc[p], local[p])
    BY ProcFacts
  <1>s. ServerOK /\ (late # "yes" => Tracks(inv) /\ Current(inv))
    BY DEF AloneInv, TrackOK
  <1>1. CASE Submit(p)
    <2>1. pc[p] = "submit" /\ OwnOp(local[p]) /\ KnownKind("wait", local[p])
      BY <1>0, <1>1 DEF Submit, Shape, OwnOp, Op, KnownKind
    <2>2. /\ Goto(p, "wait", local[p]) /\ UNCHANGED <<atServer, inv, late>>
          /\ wire' = wire \cup {[proc |-> p, op |-> local[p].op]}
      BY <1>1 DEF Submit, NoFault
    <2>3. inv.keys = {local[p].key} /\ local[p].op.key = local[p].key
      BY <1>0, <2>1, AloneKey, NothingAssumption DEF Shape, OwnOp
    <2>4. ServerOK'
      <3>0. Names(local[p].op)
        BY <2>1 DEF AloneInv, CallOK
      <3>1. \A r \in wire' : inv.keys = {r.op.key} /\ Names(r.op)
        BY <1>s, <2>2, <2>3, <3>0 DEF ServerOK
      <3> QED
        BY <1>s, <2>2, <3>1 DEF ServerOK, Active
    <2>5. CallOK("wait", local[p], inv')
      BY <2>1, <2>2, <2>3 DEF AloneInv, CallOK, Holding
    <2>6. KeptLocal("wait", local[p]).op = local[p].op /\ KeptLocal("wait", local[p]).answer = local[p].answer
      BY <1>0, <2>1, KeptAtSubmit DEF KnownKind
    <2>7. late # "yes" => wire = {}
      BY <2>1, NothingUnderWay DEF Idle
    <2>8. late' # "yes" => TrackOK("wait", local[p], inv')
      BY <2>1, <2>2, NothingAssumption DEF AloneInv, TrackOK
    <2>9. late' # "yes" => /\ wire' \subseteq {[proc |-> p, op |-> KeptLocal("wait", local[p]).op]}
                           /\ KeptLocal("wait", local[p]).answer = NoCert
      BY <2>1, <2>2, <2>6, <2>7 DEF AloneInv, TrackOK
    <2> QED
      BY <1>0, <2>1, <2>2, <2>4, <2>5, <2>8, <2>9, MoveAlone DEF CallPC
  <1>2. CASE Save(p)
    <2>1. /\ pc[p] = "save" /\ Valid(local[p].snap) /\ inv' = local[p].snap
          /\ UNCHANGED <<atServer, wire, late>>
      BY <1>2 DEF Save, remote, NoFault
    <2>2. /\ ServerOK'
          /\ late # "yes" => Tracks(inv') /\ Current(inv')
          /\ local[p].next # "resume" => inv'.keys = inv.keys
      BY <2>1, StoredAlone
    <2>3. late # "yes" => wire' = {}
      BY <2>1, NothingUnderWay DEF Idle
    <2>4. CASE local[p].next = "idle"
      <3>1. Return(p) /\ ~ Reconciles(p)
        BY <1>2, <2>4, ReturnsOrReconciles DEF Save
      <3> QED
        BY <2>1, <2>2, <2>3, <3>1, EndAlone
    <2>5. CASE local[p].next # "idle"
      <3>1. Goto(p, local[p].next, local[p]) /\ local[p].next \in CallPC
        BY <1>0, <1>2, <2>5 DEF Save, Local, AfterSave, CallPC
      <3>2. local[p].next \in {"resume", "choose", "bind", "submit", "e_challenge"}
        BY <1>0, <2>5 DEF Local, AfterSave
      <3>3. inv'.keys = {local[p].key}
        BY <1>0, <2>1, <2>2, <2>5, NothingAssumption DEF Shape, AloneInv, CallOK, Minting
      <3>4. CallOK(local[p].next, local[p], inv')
        BY <2>1, <3>2, <3>3 DEF AloneInv, CallOK, Holding
      <3>5. local[p].next = "submit" => OwnOp(local[p])
        BY <1>0, <2>1 DEF Shape
      <3>6. KnownKind(local[p].next, local[p])
        BY <3>2, <3>5 DEF KnownKind, OwnOp, Op
      <3>7. late' # "yes" => TrackOK(local[p].next, local[p], inv')
        <4> SUFFICES ASSUME late' # "yes" PROVE TrackOK(local[p].next, local[p], inv')
          OBVIOUS
        <4>1. Tracks(inv') /\ Current(inv') /\ TrackOK("save", local[p], inv)
          BY <2>1, <2>2 DEF AloneInv
        <4>2. CASE local[p].next = "submit"
          <5>1. local[p].op \in inv'.ops /\ local[p].answer = NoCert
            BY <2>1, <4>1, <4>2 DEF TrackOK
          <5>2. local[p].op.kind = "renew" => inv'.certs[local[p].op.pred] = "renewal_pending"
            BY <2>1, <5>1 DEF Valid
          <5> QED
            BY <4>1, <4>2, <5>1, <5>2 DEF TrackOK
        <4>3. CASE local[p].next # "submit"
          BY <3>2, <4>1, <4>3 DEF TrackOK
        <4> QED
          BY <4>2, <4>3
      <3>8. late' # "yes" => wire' = {}
        BY <2>1, <2>3
      <3> QED
        BY <1>0, <2>1, <2>2, <3>1, <3>4, <3>6, <3>7, <3>8, MoveAlone
    <2> QED
      BY <2>4, <2>5
  <1>3. CASE SaveInvalid(p)
    <2>1. pc[p] = "save" /\ UNCHANGED <<atServer, wire, late, inv>>
      BY <1>3 DEF SaveInvalid, remote, NoFault
    <2>2. /\ ServerOK'
          /\ late # "yes" => Tracks(inv') /\ Current(inv')
      BY <2>1, StoredAlone
    <2>3. late # "yes" => wire' = {}
      BY <2>1, NothingUnderWay DEF Idle
    <2>4. CASE ReconciledSave(p)
      <3>1. Reconciles(p)
        BY <1>3, <2>4 DEF SaveInvalid
      <3>2. inv'.keys = {local[p].key}
        BY <1>0, <2>1, <2>4, SavedKey
      <3> QED
        BY <2>1, <2>2, <2>3, <3>1, <3>2, EndAlone
    <2>5. CASE ~ ReconciledSave(p)
      <3>1. Return(p)
        BY <1>3, <2>5 DEF SaveInvalid
      <3>2. ~ Reconciles(p)
        BY <3>1, ReturnsOrReconciles
      <3> QED
        BY <2>1, <2>2, <2>3, <3>1, <3>2, EndAlone
    <2> QED
      BY <2>4, <2>5
  <1>4. CASE MarkRevoked(p)
    <2> DEFINE c == local[p].pred
               x == IF inv.certs[c] = "absent" THEN "absent" ELSE "revoked"
               s == Marked(inv, c, x)
    <2>1. [inv EXCEPT !.certs[c] = IF @ = "absent" THEN @ ELSE "revoked"] = s
      BY DEF Marked
    <2>2. Compute(p, "save", [local[p] EXCEPT !.snap = s, !.next = "idle"]) /\ pc[p] = "mark_revoked"
      BY <1>4, <2>1 DEF MarkRevoked
    <2>3. x \in {"absent", "revoked"} /\ (x = "absent" => inv.certs[c] = "absent")
      OBVIOUS
    <2> HIDE DEF x
    <2>4. /\ s \in Inventory /\ s.ops = inv.ops /\ s.keys = inv.keys
          /\ \A e \in Cert : s.certs[e] = IF e = c THEN x ELSE inv.certs[e]
      BY <1>0, <2>3, MarkedFacts
    <2> HIDE DEF s
    <2>5. late # "yes" => Tracks(s) /\ Current(s)
      BY <1>s, <2>3, <2>4 DEF Tracks, Current
    <2> QED
      BY <2>2, <2>4, <2>5, ResaveAlone DEF Idle, AfterSave
  <1> QED
    BY <1>1, <1>2, <1>3, <1>4

\* A failed sender either takes its request with it or has left one behind.
LEMMA AbandonAlone ==
  ASSUME CertInv, NEW p \in Proc, AloneInv(p), Abandon(p)
  PROVE  wire' \subseteq wire /\ (late' # "yes" => late # "yes" /\ wire' = {})
  <1>1. wire' \subseteq wire /\ (late' # "yes" => late # "yes")
    BY DEF Abandon
  <1>2. late # "yes" => \A r \in wire : r.proc = p
    BY DEF AloneInv, WireOK
  <1> QED
    BY <1>1, <1>2 DEF Abandon

LEMMA RevokeAlone ==
  ASSUME CertInv, NEW p \in Proc, AloneInv(p), Revoke(p)
  PROVE  AloneInv(p)'
  <1>1. PICK c \in Cert :
          /\ atServer' = [atServer EXCEPT ![c].state = IF @ = "active" THEN "revoked" ELSE @]
          /\ Goto(p, "mark_revoked", [Fresh EXCEPT !.pred = c])
    BY DEF Revoke
  <1> DEFINE l == [Fresh EXCEPT !.pred = c]
  <1>2. l \in Local /\ l.key = NoKey /\ Goto(p, "mark_revoked", l)
    BY <1>1, FreshType DEF Local, Fresh
  <1> HIDE DEF l
  <1>3. /\ pc[p] = "idle" /\ wire' = wire /\ inv' = inv /\ late' = late
        /\ atServer \in [Cert -> ServerCert]
    BY DEF Revoke, CertInv, CertTypeOK
  <1>4. pc'[p] = "mark_revoked" /\ local'[p].key = NoKey
    <2>1. pc \in [Proc -> CallPC \cup {"off"}] /\ local \in [Proc -> Local]
      BY DEF CertInv, LocalInv
    <2>2. local'[p] = KeptLocal("mark_revoked", l) /\ pc'[p] = "mark_revoked"
      BY <1>2, <2>1 DEF Goto, KeptLocal
    <2> QED
      BY <1>2, <2>2, KeptFields DEF CallPC
  <1>5. \A d \in Cert : /\ atServer'[d].key = atServer[d].key /\ atServer'[d].pred = atServer[d].pred
                        /\ \/ atServer'[d].state = atServer[d].state
                           \/ atServer[d].state = "active" /\ atServer'[d].state = "revoked"
    BY <1>1, <1>3 DEF ServerCert
  <1>6. ServerOK'
    BY <1>3, <1>5 DEF AloneInv, ServerOK, Active
  <1>7. CallOK(pc[p], local[p], inv)'
    BY <1>4 DEF CallOK, Holding
  <1>8. late # "yes" => wire = {}
    BY <1>3, NothingUnderWay DEF Idle
  <1>9. late' # "yes" => WireOK(p, pc[p], local[p])' /\ TrackOK(pc[p], local[p], inv)'
    BY <1>3, <1>4, <1>5, <1>8 DEF AloneInv, WireOK, TrackOK, Tracks, Current, Active
  <1> QED
    BY <1>6, <1>7, <1>9 DEF AloneInv

LEMMA FailsAlone ==
  ASSUME CertInv, NEW p \in Proc, AloneInv(p), Fails(p)
  PROVE  AloneInv(p)'
  <1>0. local[p] \in Local /\ Shape(pc[p], local[p])
    BY ProcFacts
  <1>s. ServerOK /\ (late # "yes" => Tracks(inv) /\ Current(inv))
    BY DEF AloneInv, TrackOK
  <1>1. CASE AnswerLost(p) \/ Crash(p)
    <2>1. Abandon(p) /\ UNCHANGED <<atServer, inv>> /\ (Return(p) \/ Reconciles(p))
      BY <1>1 DEF AnswerLost, Crash
    <2>2. wire' \subseteq wire /\ (late' # "yes" => late # "yes" /\ wire' = {})
      BY <2>1, AbandonAlone
    <2>3. ServerOK'
      BY <1>s, <2>1, <2>2 DEF ServerOK, Active
    <2>4. late # "yes" => Tracks(inv') /\ Current(inv')
      BY <1>s, <2>1
    <2>5. Reconciles(p) => inv'.keys = {local[p].key}
      <3> SUFFICES ASSUME Reconciles(p) PROVE inv'.keys = {local[p].key}
        OBVIOUS
      <3>1. pc[p] = "wait"
        BY <1>1, ReturnsOrReconciles DEF AnswerLost, Crash
      <3> QED
        BY <1>0, <2>1, <3>1, AloneKey, NothingAssumption DEF Shape
    <2> QED
      BY <2>1, <2>2, <2>3, <2>4, <2>5, EndAlone
  <1>2. CASE SaveFails(p)
    <2>1. /\ pc[p] = "save" /\ ReconciledSave(p) /\ Reconciles(p)
          /\ inv' \in {inv, local[p].snap} /\ UNCHANGED <<atServer, wire, late>>
      BY <1>2 DEF SaveFails, remote
    <2>2. /\ ServerOK'
          /\ late # "yes" => Tracks(inv') /\ Current(inv')
          /\ local[p].next # "resume" => inv'.keys = inv.keys
      BY <2>1, StoredAlone
    <2>3. late # "yes" => wire' = {}
      BY <2>1, NothingUnderWay DEF Idle
    <2>4. inv'.keys = {local[p].key}
      BY <1>0, <2>1, <2>2, SavedKey DEF ReconciledSave
    <2> QED
      BY <2>1, <2>2, <2>3, <2>4, EndAlone
  <1> QED
    BY <1>1, <1>2 DEF Fails

\* The server answers the one request under way, or one that came late.
LEMMA ServingAlone ==
  ASSUME CertInv, NEW p \in Proc, AloneInv(p), NEW r \in wire, Issue(r) \/ Decline(r)
  PROVE  AloneInv(p)'
  <1>t. atServer \in [Cert -> ServerCert] /\ r \in [proc : Proc, op : Op] /\ r.op \in Op
    BY DEF CertInv, CertTypeOK
  <1>2. pc' = pc /\ inv' = inv /\ wire' = wire \ {r} /\ late' = late
    BY DEF Issue, Decline, NoFault
  <1>s. /\ ServerOK /\ CallOK(pc[p], local[p], inv) /\ inv.keys = {r.op.key}
        /\ Names(r.op)
    BY DEF AloneInv, ServerOK
  <1>w. late # "yes" => /\ r = [proc |-> p, op |-> local[p].op] /\ wire' = {}
                        /\ pc[p] = "wait" /\ local[p].answer = NoCert
    BY <1>2 DEF AloneInv, WireOK
  <1>x. late # "yes" => r.proc = p /\ r.op = local[p].op
    BY <1>w
  <1>3. ASSUME NEW a \in Cert \cup {"refused"}, Answered(r, a)
        PROVE  /\ local'[p].snap = local[p].snap /\ local'[p].op = local[p].op
               /\ local'[p].key = local[p].key /\ local'[p].pred = local[p].pred
               /\ local'[p].next = local[p].next /\ local'[p].listed = local[p].listed
               /\ late # "yes" => local'[p].answer = a
    BY <1>2, <1>3, <1>w, <1>x, AnsweredFacts
  <1>4. CASE Decline(r)
    <2>1. atServer' = atServer /\ Answered(r, "refused")
      BY <1>4 DEF Decline
    <2>2. /\ local'[p].snap = local[p].snap /\ local'[p].op = local[p].op
          /\ local'[p].key = local[p].key /\ local'[p].pred = local[p].pred
          /\ local'[p].next = local[p].next /\ local'[p].listed = local[p].listed
          /\ late # "yes" => local'[p].answer = "refused"
      BY <1>3, <2>1
    <2>3. ServerOK'
      BY <1>2, <1>s, <2>1 DEF ServerOK, Active
    <2>4. CallOK(pc[p], local[p], inv)'
      BY <1>2, <1>s, <2>2 DEF CallOK, Holding, Minting
    <2>5. late' # "yes" => WireOK(p, pc[p], local[p])'
      BY <1>2, <1>w DEF WireOK
    <2>6. late' # "yes" => TrackOK(pc[p], local[p], inv)'
      <3> SUFFICES ASSUME late # "yes" PROVE TrackOK(pc[p], local[p], inv)'
        BY <1>2
      <3>1. TrackOK(pc[p], local[p], inv) /\ pc'[p] = "wait" /\ local'[p].answer \notin Cert
        BY <1>2, <1>w, <2>2, NothingAssumption DEF AloneInv
      <3> QED
        BY <1>2, <1>w, <2>1, <2>2, <3>1 DEF TrackOK, Tracks, Current, Active
    <2> QED
      BY <2>3, <2>4, <2>5, <2>6 DEF AloneInv
  <1>5. CASE Issue(r)
    <2>1. PICK c \in FreshCerts :
            /\ atServer' = [d \in Cert |->
                  IF d = c THEN [state |-> "active", key |-> r.op.key, pred |-> r.op.pred]
                  ELSE IF d = r.op.pred THEN [atServer[d] EXCEPT !.state = "superseded"]
                  ELSE atServer[d]]
            /\ Answered(r, c)
      BY <1>5 DEF Issue
    <2>2. c \in Cert /\ atServer[c] = Unissued /\ Allowed(r.op)
      BY <1>5 DEF Issue, FreshCerts, Chosen
    <2>3. /\ local'[p].snap = local[p].snap /\ local'[p].op = local[p].op
          /\ local'[p].key = local[p].key /\ local'[p].pred = local[p].pred
          /\ local'[p].next = local[p].next /\ local'[p].listed = local[p].listed
          /\ late # "yes" => local'[p].answer = c
      BY <1>3, <2>1, <2>2
    <2>4. /\ atServer'[c].state = "active" /\ atServer'[c].key = r.op.key
          /\ atServer'[c].pred = r.op.pred
          /\ \A d \in Cert \ {c} :
                /\ atServer'[d].key = atServer[d].key
                /\ atServer'[d].state = IF d = r.op.pred THEN "superseded" ELSE atServer[d].state
      BY <1>t, <2>1, <2>2 DEF ServerCert
    <2>5. r.op.pred \in Cert => r.op.kind = "renew" /\ atServer[r.op.pred].state = "active"
      BY <1>s, <2>2, NothingAssumption DEF Allowed, Names
    <2>6. \A d \in Cert : atServer'[d].state = "active" => d = c
      <3> SUFFICES ASSUME NEW d \in Cert \ {c}, atServer'[d].state = "active" PROVE FALSE
        OBVIOUS
      <3>1. atServer[d].state = "active" /\ d # r.op.pred
        BY <2>4
      <3>2. atServer[d].key = r.op.key
        BY <1>s, <3>1 DEF ServerOK
      <3>3. r.op.kind = "renew" /\ atServer[r.op.pred].state = "active"
        BY <2>2, <3>1, <3>2 DEF Allowed
      <3>4. r.op.pred \in Cert
        BY <1>s, <3>3 DEF Names
      <3> QED
        BY <1>s, <3>1, <3>3, <3>4 DEF ServerOK, Active
    <2>7. ServerOK'
      <3>1. r.op.key \in Key /\ r.op.key # NoKey
        BY <1>t, NothingAssumption DEF Op
      <3>2. \A d \in Cert : atServer'[d].state # "unissued" => atServer'[d].key # NoKey
        BY <1>s, <2>4, <2>5, <3>1 DEF ServerOK
      <3>3. \A d \in Cert : atServer'[d].key # NoKey => inv'.keys = {atServer'[d].key}
        BY <1>2, <1>s, <2>4 DEF ServerOK
      <3>4. \A q \in wire' : inv'.keys = {q.op.key} /\ Names(q.op)
        BY <1>2, <1>s DEF ServerOK
      <3> QED
        BY <2>6, <3>2, <3>3, <3>4 DEF ServerOK, Active
    <2>8. CallOK(pc[p], local[p], inv)'
      BY <1>2, <1>s, <2>3 DEF CallOK, Holding, Minting
    <2>9. late' # "yes" => WireOK(p, pc[p], local[p])'
      BY <1>2, <1>w DEF WireOK
    <2>10. late' # "yes" => TrackOK(pc[p], local[p], inv)'
      <3> SUFFICES ASSUME late # "yes" PROVE TrackOK(pc[p], local[p], inv)'
        BY <1>2
      <3>1. /\ TrackOK("wait", local[p], inv) /\ pc'[p] = "wait" /\ local'[p].answer = c
            /\ local[p].op = r.op
        BY <1>2, <1>w, <1>x, <2>3 DEF AloneInv
      <3>2. /\ r.op \in inv.ops
            /\ r.op.kind = "renew" => inv.certs[r.op.pred] = "renewal_pending"
        BY <3>1 DEF TrackOK
      <3>3. Tracks(inv)'
        BY <1>2, <2>4, <2>6, <3>2 DEF Tracks, Active
      <3>4. Current(inv)'
        <4> SUFFICES ASSUME NEW d \in Cert, inv.certs[d] = "active" PROVE atServer'[d].state # "superseded"
          BY <1>2 DEF Current
        <4> QED
          BY <2>4, <2>5, <3>1, <3>2 DEF TrackOK, Current
      <3> QED
        BY <1>2, <2>2, <2>3, <2>4, <3>1, <3>2, <3>3, <3>4 DEF TrackOK, Active
    <2> QED
      BY <2>7, <2>8, <2>9, <2>10 DEF AloneInv
  <1> QED
    BY <1>4, <1>5

\* A process that is off stays off, and none goes off.
LEMMA StepsOwn ==
  ASSUME CertInv, NEW q \in Proc, Provision(q) \/ Revoke(q) \/ Fails(q)
  PROVE  pc[q] # "off" /\ \E to \in CallPC : pc' = [pc EXCEPT ![q] = to]
  <1>0. local[q] \in Local
    BY ProcFacts
  <1>1. CASE \/ SelectKey(q) \/ AmbiguousKey(q) \/ GenerateKey(q) \/ ResumeNothing(q) \/ Resume(q)
             \/ NotDue(q) \/ ChooseRenew(q) \/ ChooseEnroll(q) \/ Bind(q)
    <2>1. pc[q] # "off"
      BY <1>1 DEF SelectKey, AmbiguousKey, GenerateKey, ResumeNothing, Resume, NotDue,
         ChooseRenew, ChooseEnroll, Bind
    <2>2. \E to \in CallPC : \E l : Goto(q, to, l)
      BY <1>1 DEF SelectKey, AmbiguousKey, GenerateKey, ResumeNothing, Resume, NotDue,
         ChooseRenew, ChooseEnroll, Bind, Compute, Refused, CallPC
    <2> QED
      BY <2>1, <2>2 DEF Goto
  <1>2. CASE Renewing(q)
    <2>1. pc[q] # "off"
      BY <1>2 DEF Renewing, Precheck, JournalRenewal, CommitRenewal, RenewalUncertain,
         ReconcileLoad, ListCertificates, Install, Restore, ReconcileRefused
    <2>2. \E to \in CallPC : \E l : Goto(q, to, l)
      BY <1>2 DEF Renewing, Precheck, JournalRenewal, CommitRenewal, RenewalUncertain,
         ReconcileLoad, ListCertificates, Install, Restore, ReconcileRefused,
         Compute, Refused, CallPC
    <2> QED
      BY <2>1, <2>2 DEF Goto
  <1>3. CASE Enrolling(q)
    <2>1. pc[q] # "off"
      BY <1>3 DEF Enrolling, Enroll, EnrollRefused, JournalEnrollment, CommitEnrollment,
         CommitEnrollmentRefused, EnrollmentUncertain, EnrollList, EnrollRecover, EnrollDrop,
         EnrollRecoverRefused
    <2>2. \E to \in CallPC : \E l : Goto(q, to, l)
      BY <1>3 DEF Enrolling, Enroll, EnrollRefused, JournalEnrollment, CommitEnrollment,
         CommitEnrollmentRefused, EnrollmentUncertain, EnrollList, EnrollRecover, EnrollDrop,
         EnrollRecoverRefused, Compute, Refused, CallPC
    <2> QED
      BY <2>1, <2>2 DEF Goto
  <1>4. CASE Submit(q) \/ Save(q) \/ SaveInvalid(q) \/ MarkRevoked(q) \/ Revoke(q) \/ Fails(q)
    <2>1. pc[q] # "off"
      BY <1>4 DEF Submit, Save, SaveInvalid, MarkRevoked, Revoke, Fails, AnswerLost, Crash, SaveFails
    <2>2. local[q].next \in CallPC
      BY <1>0 DEF Local, AfterSave, CallPC
    <2>3. \E to \in CallPC : \E l : Goto(q, to, l)
      BY <1>4, <2>2 DEF Submit, Save, SaveInvalid, MarkRevoked, Revoke, Fails, AnswerLost, Crash,
         SaveFails, Compute, Return, Reconciles, CallPC
    <2> QED
      BY <2>1, <2>3 DEF Goto
  <1> QED
    BY <1>1, <1>2, <1>3, <1>4 DEF Provision

LEMMA SingleInvInit == CertInit => SingleInv
  <1> SUFFICES ASSUME CertInit, NEW p \in Proc, Alone(p) PROVE AloneInv(p)
    BY DEF SingleInv
  <1>1. /\ pc[p] = "idle" /\ local[p] = Fresh /\ wire = {}
        /\ \A c \in Cert : inv.certs[c] = "absent" /\ atServer[c] = Unissued
    BY DEF CertInit, Alone, EmptyInventory
  <1>2. Fresh.key = NoKey /\ Unissued.state = "unissued" /\ Unissued.key = NoKey
    BY DEF Fresh, Unissued
  <1> QED
    BY <1>1, <1>2
       DEF AloneInv, ServerOK, CallOK, Holding, WireOK, TrackOK, Tracks, Current, Active

LEMMA SingleInvStep == CertInv /\ SingleInv /\ [CertNext]_certVars => SingleInv'
  <1> SUFFICES ASSUME CertInv, SingleInv, [CertNext]_certVars, NEW p \in Proc, Alone(p)'
               PROVE  AloneInv(p)'
    BY DEF SingleInv
  <1>0. pc \in [Proc -> CallPC \cup {"off"}]
    BY DEF CertInv, LocalInv
  <1>1. ASSUME NEW q \in Proc, Provision(q) \/ Revoke(q) \/ Fails(q) PROVE AloneInv(p)'
    <2>1. pc[q] # "off" /\ \E to \in CallPC : pc' = [pc EXCEPT ![q] = to]
      BY <1>1, StepsOwn
    <2>2. pc'[q] # "off" /\ \A u \in Proc \ {q} : pc'[u] = pc[u]
      BY <1>0, <2>1 DEF CallPC
    <2>3. q = p
      BY <2>2 DEF Alone
    <2>4. AloneInv(p)
      BY <2>1, <2>2, <2>3 DEF SingleInv, Alone
    <2> QED
      BY <1>1, <2>3, <2>4, ProvisionAlone, RenewingAlone, EnrollingAlone, StoringAlone,
         RevokeAlone, FailsAlone DEF Provision
  <1>2. ASSUME NEW r \in wire, Issue(r) \/ Decline(r) PROVE AloneInv(p)'
    <2>1. AloneInv(p)
      BY <1>2 DEF Issue, Decline, SingleInv, Alone
    <2> QED
      BY <1>2, <2>1, ServingAlone
  <1>3. CASE UNCHANGED certVars
    BY <1>3 DEF certVars, SingleInv, Alone, AloneInv, ServerOK, CallOK, Holding, Minting, WireOK,
       TrackOK, Tracks, Current, Active
  <1> QED
    BY <1>1, <1>2, <1>3 DEF CertNext

\* enroll_or_renew_device_certificate, renew_certificate and their reconciliation,
\* of a process that has the inventory to itself: whatever call crashes, whatever
\* answer or save is lost and whatever the server refuses, the server's active
\* certificate is in the inventory or in its journal, no certificate it has
\* replaced is active here, and only one device key is ever certified.
THEOREM InventoryTrue == CertSpec => []InventoryIsTrue
  <1>1. CertInv /\ SingleInv => InventoryIsTrue
    <2> SUFFICES ASSUME CertInv, SingleInv, NEW p \in Proc, Alone(p)
                 PROVE  IssuedIsTracked /\ SupersededIsNotActive /\ OneDeviceKey
      BY DEF InventoryIsTrue, Single, CertInv
    <2>1. AloneInv(p)
      BY DEF SingleInv
    <2>2. IssuedIsTracked /\ SupersededIsNotActive
      BY <2>1 DEF AloneInv, TrackOK, Tracks, Current, Active, IssuedIsTracked, SupersededIsNotActive
    <2>3. OneDeviceKey
      BY <2>1 DEF AloneInv, ServerOK, OneDeviceKey
    <2> QED
      BY <2>2, <2>3
  <1> QED
    BY <1>1, CertInvInit, CertInvStep, SingleInvInit, SingleInvStep, PTL DEF CertSpec
=============================================================================
