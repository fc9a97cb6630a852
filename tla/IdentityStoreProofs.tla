------------------------ MODULE IdentityStoreProofs ------------------------
(***************************************************************************)
(* What module IdentityStore promises, for any number of processes, keys,  *)
(* references, crashes and failed accesses.                                *)
(***************************************************************************)
EXTENDS IdentityStore, TLAPS

\* The references of a map of the right type are references.
LEMMA RefsInType == \A m \in RefMap : RefsIn(m) \subseteq Ref
  BY DEF RefMap, RefsIn

LEMMA IdleType == Idle \in Local /\ NoCatalog \in Catalog /\ NoEntry \in RefMap
  BY RefAssumption DEF Idle, Local, NoCatalog, Catalog, NoEntry, RefMap

\* The references of the next catalogue: carried over or freshly generated.
LEMMA NextRefsType ==
  ASSUME NEW inv \in SUBSET Key, NEW existing \in Catalog,
         NEW fresh \in FreshRefs(inv \ Reuses(inv, existing))
  PROVE  /\ NextRefs(inv, existing, fresh) \in RefMap
         /\ \A k \in inv : NextRefs(inv, existing, fresh)[k] \in Ref
         /\ Range(fresh) \subseteq Ref
<1>1. fresh \in [inv \ Reuses(inv, existing) -> Ref \ generated]
  BY DEF FreshRefs
<1>2. existing.ref \in RefMap
  BY DEF Catalog
<1>3. Range(fresh) \subseteq Ref
  BY <1>1 DEF Range
<1> QED
  BY <1>1, <1>2, <1>3, RefAssumption, DamagedAssumption
     DEF NextRefs, RefMap, Reuses, Retains

LEMMA InitType == Init => TypeOK
<1> SUFFICES ASSUME Init PROVE TypeOK
  OBVIOUS
<1>1. pc \in [Proc -> PC] /\ local \in [Proc -> Local]
  BY IdleType DEF Init, PC
<1> QED
  BY <1>1, IdleType DEF Init, TypeOK

\* Every step keeps the types.
LEMMA TypeStep == TypeOK /\ [Next]_vars => TypeOK'
<1> SUFFICES ASSUME TypeOK, [Next]_vars PROVE TypeOK'
  OBVIOUS
<1> USE DEF TypeOK
<1>u. CASE UNCHANGED vars
  BY <1>u DEF vars
<1>l. CASE LockAges
  BY <1>l DEF LockAges, ghosts
<1>p. ASSUME NEW p \in Proc, Start(p) \/ Save(p) \/ Load(p) \/ Clear(p) \/ Fails(p)
      PROVE  TypeOK'
  <2> USE IdleType DEF Set, Goto, Return, Fault, NoFault, disk, ghosts, PC, SavePC,
          ClearPC, LoadPC
  <2>c. /\ PublishedReferences(catalog) \subseteq Ref
        /\ RefsIn(local[p].next) \subseteq Ref
        /\ PublishedReferences(local[p].existing) \subseteq Ref
        /\ local[p] \in Local
    BY RefsInType DEF PublishedReferences, Catalog, Local
  <2>1. CASE OpenForSave(p)
    <3>1. PICK inv \in SUBSET Key :
             Set(p, "journal_open", [Idle EXCEPT !.saving = TRUE, !.inv = inv])
      BY <2>1 DEF OpenForSave
    <3>2. [Idle EXCEPT !.saving = TRUE, !.inv = inv] \in Local
      BY DEF Local
    <3>3. raced' \in BOOLEAN
      BY <2>1 DEF OpenForSave, Clearing
    <3> QED
      BY <2>1, <3>1, <3>2, <3>3 DEF OpenForSave
  <2>2. CASE LoadBegin(p)
    BY <2>2 DEF LoadBegin
  <2>3. CASE ClearBegin(p)
    BY <2>3, <2>c DEF ClearBegin, Local
  <2>4. CASE RecoverBegin(p)
    BY <2>4, <2>c DEF RecoverBegin, Local
  <2>5. CASE RecoverDelete(p)
    BY <2>5, <2>c DEF RecoverDelete, Local
  <2>6. CASE RecoverClear(p)
    BY <2>6 DEF RecoverClear
  <2>7. CASE ReadPublished(p)
    BY <2>7, <2>c DEF ReadPublished, Local
  <2>8. CASE BuildCatalog(p)
    <3> DEFINE inv == local[p].inv
               reused == Reuses(inv, catalog)
    <3>1. CASE Return(p) /\ flock' = NoProc /\ UNCHANGED generated
      BY <2>8, <3>1 DEF BuildCatalog
    <3>2. ASSUME NEW fresh \in FreshRefs(inv \ reused),
                 Set(p, "put", [local[p] EXCEPT
                       !.existing = catalog,
                       !.next = NextRefs(inv, catalog, fresh),
                       !.todo = {NextRefs(inv, catalog, fresh)[k] : k \in inv}]),
                 generated' = generated \cup Range(fresh), UNCHANGED flock
          PROVE  TypeOK'
      <4>1. inv \in SUBSET Key
        BY <2>c DEF Local
      <4>2. /\ NextRefs(inv, catalog, fresh) \in RefMap
            /\ {NextRefs(inv, catalog, fresh)[k] : k \in inv} \subseteq Ref
            /\ Range(fresh) \subseteq Ref
        <5>1. catalog \in Catalog
          OBVIOUS
        <5>2. fresh \in FreshRefs(inv \ Reuses(inv, catalog))
          OBVIOUS
        <5> HIDE DEF inv, TypeOK
        <5> QED
          BY <4>1, <5>1, <5>2, NextRefsType
      <4> QED
        BY <2>8, <2>c, <3>2, <4>2 DEF BuildCatalog, Local
    <3> QED
      BY <2>8, <3>1, <3>2 DEF BuildCatalog
  <2>9. CASE Record(p)
    BY <2>9, <2>c DEF Record, Local
  <2>10. CASE PutSecret(p)
    <3>1. PICK r \in local[p].todo :
             /\ secrets' = secrets \cup {r}
             /\ Set(p, "put", [local[p] EXCEPT
                    !.todo = @ \ {r},
                    !.written = @ \cup
                        ({r} \ PublishedReferences(local[p].existing))])
      BY <2>10 DEF PutSecret
    <3>3. r \in Ref
      BY <2>c, <3>1 DEF Local
    <3>2. [local[p] EXCEPT !.todo = @ \ {r},
                           !.written = @ \cup
                        ({r} \ PublishedReferences(local[p].existing))] \in Local
      <4> DEFINE w == {r} \ PublishedReferences(local[p].existing)
      <4>1. w \subseteq Ref
        BY <3>3
      <4> HIDE DEF w, TypeOK
      <4>2. [local[p] EXCEPT !.todo = @ \ {r}, !.written = @ \cup w] \in Local
        BY <2>c, <4>1 DEF Local
      <4> QED
        BY <4>2 DEF w
    <3>4. pc' \in [Proc -> PC] /\ local' \in [Proc -> Local] /\ secrets' \subseteq Ref
      BY <3>1, <3>2, <3>3
    <3> QED
      BY <2>10, <3>4 DEF PutSecret
  <2>11. CASE AcquireCatalogLock(p) \/ CheckRevision(p)
    BY <2>11 DEF AcquireCatalogLock, CheckRevision
  <2>12. CASE WriteCatalog(p) \/ WriteFail(p)
    <3>1. Replacement(p) \in Catalog
      BY <2>c DEF Replacement, Catalog, Local
    <3>2. CASE WriteCatalog(p)
      BY <3>2, <2>c, <3>1 DEF WriteCatalog, Publish
    <3>3. CASE WriteFail(p)
      <4>1. [local[p] EXCEPT !.failed = TRUE] \in Local
        BY <2>c DEF Local
      <4> QED
        BY <3>3, <4>1, <2>c, <3>1 DEF WriteFail, Publish
    <3> QED
      BY <2>12, <3>2, <3>3
  <2>13. CASE RemoveCatalogLock(p)
    BY <2>13, <2>c DEF RemoveCatalogLock, Obsolete, Local
  <2>14. CASE DeleteObsolete(p) \/ RollbackDelete(p)
    BY <2>14, <2>c DEF DeleteObsolete, RollbackDelete, Local
  <2>15. CASE FinishSave(p) \/ RollbackEnd(p)
    BY <2>15 DEF FinishSave, RollbackEnd
  <2>16. CASE RollbackBegin(p)
    BY <2>16, <2>c DEF RollbackBegin, Local
  <2>17. CASE LoadOpen(p)
    BY <2>17 DEF LoadOpen
  <2>18. CASE ReadCatalog(p)
    BY <2>18, <2>c DEF ReadCatalog, Local
  <2>24. CASE Resolve(p)
    BY <2>24, <2>c DEF Resolve, Local
  <2>19. CASE LoadEnd(p) \/ LoadMissing(p)
    BY <2>19 DEF LoadEnd, LoadMissing
  <2>20. CASE ClearSecret(p) \/ ClearEnd(p)
    BY <2>20, <2>c DEF ClearSecret, ClearEnd, Doomed, Local
  <2>21. CASE RecoverFail(p) \/ CheckFail(p)
    BY <2>21 DEF RecoverFail, CheckFail
  <2>25. CASE ClearFail(p)
    BY <2>25 DEF ClearFail
  <2>22. CASE PutFail(p)
    BY <2>22, <2>c DEF PutFail, Local
  <2>23. CASE Crash(p)
    BY <2>23 DEF Crash, Unlocked
  <2> QED
    BY <1>p, <2>1, <2>2, <2>3, <2>4, <2>5, <2>6, <2>7, <2>8, <2>9, <2>10, <2>11,
       <2>12, <2>13, <2>14, <2>15, <2>16, <2>17, <2>18, <2>19, <2>20, <2>21,
       <2>22, <2>23, <2>24, <2>25 DEF Start, Save, Load, Clear, Fails
<1> QED
  BY <1>u, <1>l, <1>p DEF Next

\* Each variable always has the shape of the file, lock or local it models.
THEOREM TypeCorrect == Spec => []TypeOK
  BY InitType, TypeStep, PTL DEF Spec

LEMMA NothingPublished == RefsIn(NoEntry) = {} /\ PublishedReferences(NoCatalog) = {}
  BY DEF RefsIn, PublishedReferences, NoCatalog, NoEntry

\* The two outcomes of BuildCatalog.
LEMMA BuildCases ==
  ASSUME NEW p, BuildCatalog(p)
  PROVE  LET inv == local[p].inv
             reused == Reuses(inv, catalog)
         IN  /\ pc[p] = "build"
             /\ UNCHANGED <<catalog, secrets, journal, catLock, published, raced, faults>>
             /\ \/ Return(p) /\ flock' = NoProc
                \/ /\ UNCHANGED flock
                   /\ \E fresh \in FreshRefs(inv \ reused) :
                         Set(p, "put", [local[p] EXCEPT
                               !.existing = catalog,
                               !.next = NextRefs(inv, catalog, fresh),
                               !.todo = {NextRefs(inv, catalog, fresh)[k] : k \in inv}])
  BY Zenon DEF BuildCatalog, disk, NoFault

\* Every step keeps the discipline of locks, journal and work lists.
LEMMA SafetyStep == TypeOK /\ SafetyInv /\ [Next]_vars => SafetyInv'
<1> SUFFICES ASSUME TypeOK, SafetyInv, [Next]_vars PROVE SafetyInv'
  OBVIOUS
<1> USE DEF SafetyInv
<1>u. CASE UNCHANGED vars
  BY <1>u DEF vars, LockInv, PublishedInv, TodoInv, JournalInv, NoUntrackedSecret,
              Committed, PublishedReferences
<1>l. CASE LockAges
  BY <1>l DEF LockAges, ghosts, LockInv, PublishedInv, TodoInv, JournalInv,
              NoUntrackedSecret, Committed, PublishedReferences
<1>p. ASSUME NEW p \in Proc, Start(p) \/ Save(p) \/ Load(p) \/ Clear(p) \/ Fails(p)
      PROVE  SafetyInv'
  <2> USE ProcAssumption, NothingPublished
      DEF Set, Goto, Return, Fault, NoFault, disk, ghosts, SavePC, ClearPC, TypeOK, Local,
          LockInv, PublishedInv, TodoInv, JournalInv, NoUntrackedSecret, Committed,
          PublishedReferences, Idle
  <2>1. CASE OpenForSave(p)
    BY <2>1 DEF OpenForSave
  <2>2. CASE LoadBegin(p)
    BY <2>2 DEF LoadBegin
  <2>3. CASE ClearBegin(p)
    BY <2>3 DEF ClearBegin
  <2>4. CASE RecoverBegin(p)
    BY <2>4 DEF RecoverBegin
  <2>5. CASE RecoverDelete(p)
    BY <2>5 DEF RecoverDelete
  <2>6. CASE RecoverClear(p)
    BY <2>6 DEF RecoverClear
  <2>7. CASE ReadPublished(p)
    BY <2>7 DEF ReadPublished
  <2>8. CASE BuildCatalog(p)
    <3> DEFINE inv == local[p].inv
               next(fresh) == NextRefs(inv, catalog, fresh)
    <3>0. /\ pc[p] = "build"
          /\ UNCHANGED <<catalog, secrets, journal, published>>
      BY <2>8, BuildCases, Zenon
    <3>1. CASE Return(p) /\ flock' = NoProc
      BY <3>0, <3>1
    <3>2. ASSUME NEW fresh \in FreshRefs(inv \ Reuses(inv, catalog)),
                 Set(p, "put", [local[p] EXCEPT
                       !.existing = catalog, !.next = next(fresh),
                       !.todo = {next(fresh)[k] : k \in inv}]),
                 UNCHANGED flock
          PROVE  SafetyInv'
      <4>1. inv \in SUBSET Key /\ catalog \in Catalog
        OBVIOUS
      <4>2. \A k \in inv : next(fresh)[k] \in Ref
        BY <4>1, NextRefsType
      <4>3. {next(fresh)[k] : k \in inv} \subseteq RefsIn(next(fresh))
        BY <4>1, <4>2, RefAssumption DEF RefsIn
      <4> HIDE DEF next
      <4> QED
        BY <3>0, <3>2, <4>3
    <3> QED
      BY <2>8, <3>1, <3>2, BuildCases, Zenon
  <2>9. CASE Record(p)
    BY <2>9 DEF Record
  <2>10. CASE PutSecret(p)
    BY <2>10 DEF PutSecret
  <2>11. CASE AcquireCatalogLock(p)
    BY <2>11 DEF AcquireCatalogLock
  <2>12. CASE CheckRevision(p)
    BY <2>12 DEF CheckRevision
  <2>13. CASE WriteCatalog(p)
    BY <2>13 DEF WriteCatalog, Publish, Replacement
  <2>14. CASE RemoveCatalogLock(p)
    BY <2>14 DEF RemoveCatalogLock, Obsolete
  <2>15. CASE DeleteObsolete(p)
    BY <2>15 DEF DeleteObsolete
  <2>16. CASE FinishSave(p)
    BY <2>16 DEF FinishSave
  <2>17. CASE RollbackBegin(p)
    BY <2>17 DEF RollbackBegin
  <2>18. CASE RollbackDelete(p)
    BY <2>18 DEF RollbackDelete
  <2>19. CASE RollbackEnd(p)
    BY <2>19 DEF RollbackEnd
  <2>20. CASE LoadOpen(p)
    BY <2>20 DEF LoadOpen
  <2>21. CASE ReadCatalog(p)
    BY <2>21 DEF ReadCatalog
  <2>22. CASE Resolve(p)
    BY <2>22 DEF Resolve
  <2>23. CASE LoadEnd(p)
    BY <2>23 DEF LoadEnd
  <2>24. CASE LoadMissing(p)
    BY <2>24 DEF LoadMissing
  <2>25. CASE ClearSecret(p)
    BY <2>25 DEF ClearSecret, Doomed
  <2>26. CASE ClearEnd(p)
    BY <2>26 DEF ClearEnd, Doomed
  <2>27. CASE RecoverFail(p)
    BY <2>27 DEF RecoverFail
  <2>28. CASE PutFail(p)
    BY <2>28 DEF PutFail
  <2>29. CASE CheckFail(p)
    BY <2>29 DEF CheckFail
  <2>30. CASE WriteFail(p)
    BY <2>30 DEF WriteFail, Publish, Replacement
  <2>31. CASE ClearFail(p)
    BY <2>31 DEF ClearFail
  <2>32. CASE Crash(p)
    BY <2>32 DEF Crash, Unlocked
  <2> QED
    BY <1>p, <2>1, <2>2, <2>3, <2>4, <2>5, <2>6, <2>7, <2>8, <2>9, <2>10, <2>11, <2>12, <2>13, <2>14, <2>15, <2>16, <2>17, <2>18, <2>19, <2>20, <2>21, <2>22, <2>23, <2>24, <2>25, <2>26, <2>27, <2>28, <2>29, <2>30, <2>31, <2>32
       DEF Start, Save, Load, Clear, Fails
<1> QED
  BY <1>u, <1>l, <1>p DEF Next

\* The files, secrets and clears: unless a clear raced, published keys resolve.
LEMMA StoredStep ==
  IInv /\ [Next]_vars => (StoredInv /\ PublishedResolvable)'
<1> SUFFICES ASSUME IInv, [Next]_vars PROVE (StoredInv /\ PublishedResolvable)'
  OBVIOUS
<1> USE DEF IInv
<1>u. CASE UNCHANGED vars
  BY <1>u DEF vars, StoredInv, PublishedResolvable, PublishedReferences, Clearing
<1>l. CASE LockAges
  BY <1>l DEF LockAges, ghosts, StoredInv, PublishedResolvable, PublishedReferences, Clearing
<1>p. ASSUME NEW p \in Proc, Start(p) \/ Save(p) \/ Load(p) \/ Clear(p) \/ Fails(p)
      PROVE  (StoredInv /\ PublishedResolvable)'
  <2> USE ProcAssumption, NothingPublished
      DEF Set, Goto, Return, Fault, NoFault, disk, ghosts, SavePC, ClearPC, TypeOK, Local,
          SafetyInv, LockInv, TodoInv, JournalInv, Committed, StoredInv, PublishedResolvable,
          PublishedReferences, Clearing, Idle
  <2>1. CASE OpenForSave(p)
    <3>1. ~raced' => ~raced /\ ~Clearing
      BY <2>1 DEF OpenForSave
    <3>2. PICK l : Set(p, "journal_open", l)
      BY <2>1 DEF OpenForSave
    <3> QED
      BY <2>1, <3>1, <3>2 DEF OpenForSave
  <2>2. CASE LoadBegin(p)
    BY <2>2 DEF LoadBegin
  <2>3. CASE ClearBegin(p)
    BY <2>3 DEF ClearBegin
  <2>4. CASE RecoverBegin(p)
    BY <2>4 DEF RecoverBegin
  <2>5. CASE RecoverDelete(p)
    BY <2>5 DEF RecoverDelete
  <2>6. CASE RecoverClear(p)
    BY <2>6 DEF RecoverClear
  <2>7. CASE ReadPublished(p)
    BY <2>7 DEF ReadPublished
  <2>8. CASE BuildCatalog(p)
    <3> DEFINE inv == local[p].inv
               next(fresh) == NextRefs(inv, catalog, fresh)
    <3>0. /\ pc[p] = "build"
          /\ UNCHANGED <<catalog, secrets, raced>>
      BY <2>8, BuildCases, Zenon
    <3>1. CASE Return(p) /\ flock' = NoProc
      BY <3>0, <3>1
    <3>2. ASSUME NEW fresh \in FreshRefs(inv \ Reuses(inv, catalog)),
                 Set(p, "put", [local[p] EXCEPT
                       !.existing = catalog, !.next = next(fresh),
                       !.todo = {next(fresh)[k] : k \in inv}]),
                 UNCHANGED flock
          PROVE  (StoredInv /\ PublishedResolvable)'
      <4>1. RefsIn(next(fresh)) \subseteq
                RefsIn(catalog.ref) \cup {next(fresh)[k] : k \in inv}
        BY DEF RefsIn, NextRefs, Reuses, Retains
      <4> HIDE DEF next
      <4> QED
        BY <3>0, <3>2, <4>1
    <3> QED
      BY <2>8, <3>1, <3>2, BuildCases, Zenon
  <2>9. CASE Record(p)
    BY <2>9 DEF Record
  <2>10. CASE PutSecret(p)
    BY <2>10 DEF PutSecret
  <2>11. CASE AcquireCatalogLock(p)
    BY <2>11 DEF AcquireCatalogLock
  <2>12. CASE CheckRevision(p)
    BY <2>12 DEF CheckRevision
  <2>13. CASE WriteCatalog(p)
    BY <2>13 DEF WriteCatalog, Publish, Replacement
  <2>14. CASE RemoveCatalogLock(p)
    BY <2>14 DEF RemoveCatalogLock, Obsolete
  <2>15. CASE DeleteObsolete(p)
    BY <2>15 DEF DeleteObsolete
  <2>16. CASE FinishSave(p)
    BY <2>16 DEF FinishSave
  <2>17. CASE RollbackBegin(p)
    BY <2>17 DEF RollbackBegin
  <2>18. CASE RollbackDelete(p)
    BY <2>18 DEF RollbackDelete
  <2>19. CASE RollbackEnd(p)
    BY <2>19 DEF RollbackEnd
  <2>20. CASE LoadOpen(p)
    <3>1. ~raced' => ~raced
      BY <2>20 DEF LoadOpen
    <3>2. flock = NoProc /\ ~raced' => ~Clearing
      BY <2>20 DEF LoadOpen
    <3> QED
      BY <2>20, <3>1, <3>2 DEF LoadOpen
  <2>21. CASE ReadCatalog(p)
    BY <2>21 DEF ReadCatalog
  <2>22. CASE Resolve(p)
    BY <2>22 DEF Resolve
  <2>23. CASE LoadEnd(p)
    BY <2>23 DEF LoadEnd
  <2>24. CASE LoadMissing(p)
    BY <2>24 DEF LoadMissing
  <2>25. CASE ClearSecret(p)
    BY <2>25 DEF ClearSecret, Doomed
  <2>26. CASE ClearEnd(p)
    BY <2>26 DEF ClearEnd, Doomed
  <2>27. CASE RecoverFail(p)
    BY <2>27 DEF RecoverFail
  <2>28. CASE PutFail(p)
    BY <2>28 DEF PutFail
  <2>29. CASE CheckFail(p)
    BY <2>29 DEF CheckFail
  <2>30. CASE WriteFail(p)
    BY <2>30 DEF WriteFail, Publish, Replacement
  <2>31. CASE ClearFail(p)
    BY <2>31 DEF ClearFail
  <2>32. CASE Crash(p)
    BY <2>32, ZenonT(60) DEF Crash, Unlocked
  <2> QED
    BY <1>p, <2>1, <2>2, <2>3, <2>4, <2>5, <2>6, <2>7, <2>8, <2>9, <2>10, <2>11, <2>12, <2>13, <2>14, <2>15, <2>16, <2>17, <2>18, <2>19, <2>20, <2>21, <2>22, <2>23, <2>24, <2>25, <2>26, <2>27, <2>28, <2>29, <2>30, <2>31, <2>32
       DEF Start, Save, Load, Clear, Fails
<1> QED
  BY <1>u, <1>l, <1>p DEF Next

\* Deletions outside clear_inventory spare what the catalogue names.
LEMMA DeleteStep ==
  ASSUME TypeOK, SafetyInv, [Next]_vars,
         NEW r \in PublishedReferences(catalog) \cap secrets, r \notin secrets'
  PROVE  Clearing
<1>1. PICK p \in Proc : Start(p) \/ Save(p) \/ Load(p) \/ Clear(p) \/ Fails(p)
  BY DEF Next, LockAges, vars
<1> USE DEF disk, NoFault, SafetyInv, TodoInv, JournalInv, Committed
<1>2. ~Start(p)
  BY DEF Start, OpenForSave, LoadBegin, ClearBegin
<1>3. ~Load(p)
  BY DEF Load, LoadOpen, ReadCatalog, Resolve, LoadEnd, LoadMissing
<1>4. ~Fails(p)
  BY DEF Fails, RecoverFail, PutFail, CheckFail, WriteFail, ClearFail, Crash
<1>5. ~Save(p)
  <2>1. ~(RecoverDelete(p) \/ RollbackDelete(p))
    BY DEF RecoverDelete, RollbackDelete
  <2>2. ~DeleteObsolete(p)
    BY DEF DeleteObsolete
  <2>3. ~(\/ RecoverBegin(p) \/ RecoverClear(p) \/ ReadPublished(p)
          \/ BuildCatalog(p) \/ Record(p) \/ PutSecret(p))
    BY DEF RecoverBegin, RecoverClear, ReadPublished, BuildCatalog, Record, PutSecret
  <2>4. ~(\/ AcquireCatalogLock(p) \/ CheckRevision(p) \/ WriteCatalog(p)
          \/ RemoveCatalogLock(p) \/ FinishSave(p) \/ RollbackBegin(p) \/ RollbackEnd(p))
    BY DEF AcquireCatalogLock, CheckRevision, WriteCatalog, RemoveCatalogLock,
           FinishSave, RollbackBegin, RollbackEnd
  <2> QED
    BY <2>1, <2>2, <2>3, <2>4 DEF Save
<1> QED
  BY <1>1, <1>2, <1>3, <1>4, <1>5 DEF Clear, ClearSecret, ClearEnd, Clearing, ClearPC

\* A load that misses a secret of an unchanged catalogue contradicts
\* PublishedResolvable.
LEMMA MissingStep ==
  ASSUME IInv, NEW p \in Proc, LoadMissing(p), ~raced, ~Clearing
  PROVE  catalog # local[p].existing
  BY DEF IInv, SafetyInv, TodoInv, PublishedResolvable, LoadMissing

LEMMA InitIInv == Init => IInv
<1> SUFFICES ASSUME Init PROVE IInv
  OBVIOUS
<1>1. TypeOK
  BY InitType
<1>2. /\ PublishedReferences(catalog) = {} /\ secrets = {}
      /\ \A p \in Proc : pc[p] = "idle" /\ local[p].known = {}
  BY NothingPublished DEF Init, Idle
<1>3. LockInv /\ PublishedInv /\ TodoInv /\ JournalInv /\ NoUntrackedSecret
  BY <1>2, ProcAssumption DEF Init, LockInv, SavePC, PublishedInv, TodoInv, JournalInv,
          Committed, NoUntrackedSecret
<1>4. StoredInv /\ PublishedResolvable
  BY <1>2 DEF Init, StoredInv, PublishedResolvable, Clearing, ClearPC
<1> QED
  BY <1>1, <1>3, <1>4 DEF IInv, SafetyInv

\* The inductive invariant holds for any processes, keys and faults.
THEOREM Invariance == Spec => []IInv
<1>1. IInv /\ [Next]_vars => IInv'
  BY TypeStep, SafetyStep, StoredStep DEF IInv
<1> QED
  BY <1>1, InitIInv, PTL DEF Spec

\* Published keys resolve after any crashes and failures, unless a clear raced.
THEOREM PublishedKeysResolve == Spec => []PublishedResolvable
<1>1. IInv => PublishedResolvable
  BY DEF IInv
<1> QED
  BY <1>1, Invariance, PTL

\* No private key is stored untracked.
THEOREM SecretsAreTracked == Spec => []NoUntrackedSecret
<1>1. IInv => NoUntrackedSecret
  BY DEF IInv, SafetyInv
<1> QED
  BY <1>1, Invariance, PTL

\* Recovery, rollback and cleanup spare the secrets the catalogue names.
THEOREM OnlyClearDeletesPublished == Spec => DeletesOnlyUnpublished
<1>1. IInv /\ [Next]_vars
        => [\A r \in PublishedReferences(catalog) \cap secrets :
               r \notin secrets' => Clearing]_vars
  BY DeleteStep DEF IInv
<1> QED
  BY <1>1, Invariance, PTL DEF Spec, DeletesOnlyUnpublished

\* A load fails on a missing secret only when it was overtaken.
THEOREM LoadsMissOnlyWhenOvertaken == Spec => MissingMeansOvertaken
<1>1. IInv => [\A p \in Proc : LoadMissing(p) /\ ~raced /\ ~Clearing
                                 => catalog # local[p].existing]_vars
  BY MissingStep
<1> QED
  BY <1>1, Invariance, PTL DEF MissingMeansOvertaken
=============================================================================
