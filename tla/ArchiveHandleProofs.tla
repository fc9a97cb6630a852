------------------------- MODULE ArchiveHandleProofs -------------------------
(***************************************************************************)
(* What module ArchiveHandle promises, for any number of handles, calls    *)
(* and changes of the source files, and any limit on their size.           *)
(*                                                                         *)
(* The argument rests on fingerprints that do not recur: once a file is no *)
(* longer the one whose fingerprint the handle took (Lost), it never is    *)
(* that one again, so a comparison after the adapter has run speaks about  *)
(* everything that was read before it.                                     *)
(***************************************************************************)
EXTENDS ArchiveHandle, TLAPS

PCs == {"closed", "opening", "capturing", "measuring", "idle", "validating", "comparing",
        "factory", "adapter"}
Opened == {"idle", "validating", "comparing", "factory", "adapter"}
Results == {None, "opened", "ok", "err", "usable", "unusable"}
Afters == {None, "session", "cached", "finish"}

Rec == [pc : PCs, op : Operations \cup {None}, fp : [Files -> Inodes \X Versions],
        related : SUBSET Files, unusable : BOOLEAN, session : BOOLEAN,
        fd : [Files -> Inodes], payload : Versions, listing : BOOLEAN, ids : SUBSET Nat,
        todo : SUBSET Files, same : BOOLEAN, after : Afters,
        read : SUBSET (Files \X Versions), res : Results, gen : Nat]

\* The parts of the invariant speak of a handle r and of the source: the files
\* D, their contents C, those G that were missing once, and the format's style st.
Paths(st) == IF st = "volumes" THEN Files ELSE {Primary}
Scope(r, st) == Paths(st) \cup r.related

\* The file is not the one whose fingerprint was taken.
Lost(r, f, D, C) == ~(D[f] = r.fp[f][1] /\ C[D[f]] = r.fp[f][2])

\* A sibling that was discovered and gone when its fingerprint was taken.
Never(r, f) == f \in r.related /\ r.fp[f][1] = Missing

Bad(r, D, C, st) == \E f \in Scope(r, st) : Lost(r, f, D, C) \/ Never(r, f)
Fits(r, f) == r.fp[f][1] = Missing \/ r.fp[f][2] \notin Oversized
Own(r, f, v) == v = r.fp[f][2] /\ r.fp[f][1] # Missing

RelatedInv(r, st) == r.related \subseteq {Sibling} /\ (r.related # {} => st = "fresh")

Fingerprinted(r, f) ==
    \/ r.pc \in Opened \cup {"measuring"}
    \/ r.pc = "capturing" /\ f \notin r.todo

FingerprintInv(r, G, n, st) ==
    /\ \A f \in Files : r.fp[f][1] <= n + 2 /\ r.fp[f][2] <= n + 2
    /\ \A f \in Scope(r, st) : Fingerprinted(r, f) /\ r.fp[f][1] = Missing => f \in G

MeasureInv(r, D, C, st) ==
    r.pc = "measuring" =>
        /\ r.todo \subseteq Scope(r, st)
        /\ st = "volumes" => \A f \in Files : r.fp[f][1] = Missing => D[f] # Missing
        /\ r.same => Bad(r, D, C, st) \/ \A f \in Scope(r, st) \ r.todo : Fits(r, f)

SizeInv(r, D, C, st) ==
    r.pc \in Opened => Bad(r, D, C, st) \/ \A f \in Scope(r, st) : Fits(r, f)

SessionInv(r, D, C, st) ==
    /\ r.pc = "adapter" => r.session
    /\ r.session /\ st \in {"retained", "volumes"} =>
          \A f \in Paths(st) : Lost(r, f, D, C) \/ (r.fd[f] = r.fp[f][1] /\ r.fd[f] # Missing)
    /\ r.payload # 0 /\ st = "decoded" => Lost(r, Primary, D, C) \/ Own(r, Primary, r.payload)

ReadInv(r, D, C, st) ==
    \A f \in Files, v \in Versions : <<f, v>> \in r.read =>
        f \in Scope(r, st) /\ (Lost(r, f, D, C) \/ Own(r, f, v))

CompareInv(r, D, C, st) ==
    r.pc = "comparing" =>
        /\ r.todo \subseteq Scope(r, st)
        /\ r.same => \A f \in Files, v \in Versions : <<f, v>> \in r.read => f \in r.todo \/ Own(r, f, v)
        /\ r.same => (\E f \in r.todo : Lost(r, f, D, C)) \/ \A f \in Scope(r, st) : Fits(r, f)

OkInv(r) ==
    r.pc = "idle" /\ r.res = "ok" =>
        \A f \in Files, v \in Versions : <<f, v>> \in r.read => Own(r, f, v) /\ Fits(r, f)

NewInv(r) ==
    /\ r.pc \notin Opened => r.read = {} /\ ~ r.session /\ r.payload = 0 /\ ~ r.unusable
    /\ r.pc \in {"closed", "opening"} => r.related = {}

UseInv(r) ==
    /\ r.pc = "factory" => ~ r.unusable
    /\ r.pc \in {"validating", "comparing"} =>
          r.after # None /\ (r.after = "session" => ~ r.unusable)

HandleInv(r, D, C, G, n, st) ==
    /\ RelatedInv(r, st) /\ FingerprintInv(r, G, n, st) /\ MeasureInv(r, D, C, st)
    /\ SizeInv(r, D, C, st) /\ SessionInv(r, D, C, st) /\ ReadInv(r, D, C, st)
    /\ CompareInv(r, D, C, st) /\ OkInv(r) /\ NewInv(r) /\ UseInv(r)

\* Inodes and versions are numbered by the changes.
SourceInv ==
    /\ \A f \in Files : disk[f] <= changes + 2 /\ (disk[f] = Missing => f \in gone)
    /\ \A i \in Inodes : content[i] <= changes + 2

IdInv ==
    /\ \A h \in Handles : \A id \in hs[h].ids : id < nextId /\ id > 0 /\ <<id, <<h, hs[h].gen>>>> \in minted
    /\ \A x \in minted : x[1] \in Nat /\ x[1] < nextId
    /\ \A x \in minted, y \in minted : x[1] = y[1] => x = y

BaseInv ==
    /\ style \in Styles
    /\ disk \in [Files -> Inodes] /\ content \in [Inodes -> Versions]
    /\ gone \subseteq Files /\ changes \in 0..MaxChanges /\ calls \in 0..MaxCalls
    /\ nextId \in Nat \ {0}
    /\ hs \in [Handles -> Rec]

IInv ==
    /\ BaseInv /\ SourceInv /\ IdInv
    /\ \A h \in Handles : HandleInv(hs[h], disk, content, gone, changes, style)
-----------------------------------------------------------------------------
LEMMA Bounds ==
  /\ MaxChanges \in Nat /\ Inodes \subseteq Nat /\ Versions \subseteq Nat
  /\ 0 \in Inodes /\ 0 \in Versions /\ Missing = 0
  /\ Primary \in Files /\ Sibling \in Files /\ Primary # Sibling /\ Files = {Primary, Sibling}
  /\ \A st : Paths(st) \subseteq Files /\ Primary \in Paths(st)
  BY HandleAssumption DEF Inodes, Versions, Missing, Files, Primary, Sibling, Paths

LEMMA RecFields ==
  ASSUME NEW r \in Rec
  PROVE  /\ r.pc \in PCs /\ r.related \in SUBSET Files /\ r.todo \in SUBSET Files
         /\ r.fp \in [Files -> Inodes \X Versions] /\ r.fd \in [Files -> Inodes]
         /\ r.payload \in Versions /\ r.ids \in SUBSET Nat /\ r.after \in Afters
         /\ r.read \in SUBSET (Files \X Versions) /\ r.res \in Results
         /\ \A f \in Files : r.fp[f][1] \in Inodes /\ r.fp[f][2] \in Versions
         /\ \A st : Scope(r, st) \subseteq Files
<1>1. /\ r.pc \in PCs /\ r.related \in SUBSET Files /\ r.todo \in SUBSET Files
      /\ r.fp \in [Files -> Inodes \X Versions] /\ r.fd \in [Files -> Inodes]
      /\ r.payload \in Versions /\ r.ids \in SUBSET Nat /\ r.after \in Afters
      /\ r.read \in SUBSET (Files \X Versions) /\ r.res \in Results
  BY DEF Rec
<1>2. \A f \in Files : r.fp[f] \in Inodes \X Versions
  BY <1>1
<1>3. \A f \in Files : r.fp[f][1] \in Inodes /\ r.fp[f][2] \in Versions
  BY <1>2
<1> QED
  BY <1>1, <1>3, Bounds DEF Scope

\* A fingerprint that was taken earlier.
Old(r, f) ==
    /\ r.fp[f][1] <= changes + 2 /\ r.fp[f][2] <= changes + 2
    /\ r.fp[f][1] = Missing => f \in gone

\* What a change of the source files may do to them.
Changed ==
    /\ style' = style /\ hs' = hs /\ calls' = calls /\ nextId' = nextId /\ minted' = minted
    /\ gone \subseteq gone' /\ changes <= changes'
    /\ \A f \in Files : f \in gone /\ disk[f] # Missing => disk'[f] # Missing
    /\ \A r \in Rec, f \in Files : Old(r, f) /\ Lost(r, f, disk, content) => Lost(r, f, disk', content')

LEMMA SourceChanges ==
  ASSUME BaseInv, SourceInv, NEW g \in Files, Replace(g) \/ Rewrite(g) \/ Remove(g)
  PROVE  BaseInv' /\ SourceInv' /\ Changed
<1>1. /\ changes \in Nat /\ changes < MaxChanges /\ Fresh \in Inodes /\ Fresh \in Versions
      /\ Fresh = changes + 3 /\ changes' = changes + 1 /\ MaxChanges \in Nat
  BY HandleAssumption DEF BaseInv, Replace, Rewrite, Remove, Fresh, Inodes, Versions
<1>2. /\ style' = style /\ hs' = hs /\ calls' = calls /\ nextId' = nextId /\ minted' = minted
      /\ disk \in [Files -> Inodes] /\ content \in [Inodes -> Versions] /\ disk[g] \in Inodes
      /\ changes' \in 0..MaxChanges
  BY <1>1 DEF BaseInv, Replace, Rewrite, Remove
<1>6. /\ \A f \in Files : disk[f] \in Nat /\ disk[f] <= changes + 2 /\ (disk[f] = 0 => f \in gone)
      /\ \A i \in Inodes : content[i] \in Nat /\ content[i] <= changes + 2
  BY <1>2, Bounds DEF SourceInv
<1>3. CASE Replace(g)
  <2>1. /\ disk' = [disk EXCEPT ![g] = Fresh] /\ gone' = gone
        /\ content' = [content EXCEPT ![Fresh] = Fresh]
    BY <1>3 DEF Replace
  <2>2. BaseInv'
    BY <1>1, <1>2, <2>1 DEF BaseInv
  <2>3. SourceInv'
    BY <1>1, <1>2, <1>6, <2>1 DEF SourceInv, Missing
  <2>4. \A f \in Files : disk[f] # Missing => disk'[f] # Missing
    BY <1>1, <1>2, <2>1 DEF Missing
  <2>5. ASSUME NEW r \in Rec, NEW f \in Files, Old(r, f), Lost(r, f, disk, content)
        PROVE  Lost(r, f, disk', content')
    <3>1. r.fp[f][1] \in Nat /\ disk[f] \in Inodes /\ disk[f] \in Nat
      BY <1>2, RecFields, Bounds
    <3>2. CASE f = g
      BY <1>1, <1>2, <2>1, <2>5, <3>1, <3>2 DEF Lost, Old
    <3>3. CASE f # g
      <4>1. disk'[f] = disk[f] /\ disk[f] # Fresh
        BY <1>1, <1>2, <2>1, <3>1, <3>3 DEF SourceInv
      <4>2. content'[disk[f]] = content[disk[f]]
        BY <1>2, <2>1, <3>1, <4>1
      <4> QED
        BY <2>5, <4>1, <4>2 DEF Lost, Old
    <3> QED
      BY <3>2, <3>3
  <2>6. gone \subseteq gone' /\ changes <= changes'
    BY <1>1, <2>1
  <2>7. Changed
    BY <1>2, <2>4, <2>5, <2>6 DEF Changed
  <2> QED
    BY <2>2, <2>3, <2>7
<1>4. CASE Rewrite(g)
  <2>1. /\ disk' = disk /\ gone' = gone
        /\ content' = [content EXCEPT ![disk[g]] = Fresh]
    BY <1>4 DEF Rewrite
  <2>2. BaseInv'
    BY <1>1, <1>2, <2>1 DEF BaseInv
  <2>3. SourceInv'
    BY <1>1, <1>2, <1>6, <2>1 DEF SourceInv, Missing
  <2>5. ASSUME NEW r \in Rec, NEW f \in Files, Old(r, f), Lost(r, f, disk, content)
        PROVE  Lost(r, f, disk', content')
    <3>1. r.fp[f][2] \in Nat /\ disk[f] \in Inodes
      BY <1>2, RecFields, Bounds
    <3>2. CASE disk[f] = disk[g]
      <4>1. content'[disk[f]] = Fresh
        BY <1>2, <2>1, <3>2
      <4> QED
        BY <1>1, <2>1, <2>5, <3>1, <4>1 DEF Lost, Old
    <3>3. CASE disk[f] # disk[g]
      <4>1. content'[disk[f]] = content[disk[f]]
        BY <1>2, <2>1, <3>1, <3>3
      <4> QED
        BY <2>1, <2>5, <4>1 DEF Lost, Old
    <3> QED
      BY <3>2, <3>3
  <2>6. gone \subseteq gone' /\ changes <= changes'
    BY <1>1, <2>1
  <2>7. Changed
    BY <1>2, <2>1, <2>5, <2>6 DEF Changed
  <2> QED
    BY <2>2, <2>3, <2>7
<1>5. CASE Remove(g)
  <2>1. /\ disk' = [disk EXCEPT ![g] = Missing] /\ gone' = gone \cup {g} /\ g \notin gone
        /\ content' = content
    BY <1>5 DEF Remove
  <2>2. BaseInv'
    BY <1>1, <1>2, <2>1, Bounds DEF BaseInv
  <2>3. SourceInv'
    BY <1>1, <1>2, <1>6, <2>1 DEF SourceInv, Missing
  <2>4. \A f \in Files : f \in gone => disk'[f] = disk[f]
    BY <1>2, <2>1
  <2>5. ASSUME NEW r \in Rec, NEW f \in Files, Old(r, f), Lost(r, f, disk, content)
        PROVE  Lost(r, f, disk', content')
    <3>2. CASE f = g
      BY <1>2, <2>1, <2>5, <3>2 DEF Lost, Old
    <3>3. CASE f # g
      BY <1>2, <2>1, <2>5, <3>3 DEF Lost, Old
    <3> QED
      BY <3>2, <3>3
  <2>6. gone \subseteq gone' /\ changes <= changes'
    BY <1>1, <2>1
  <2>7. Changed
    BY <1>2, <2>4, <2>5, <2>6 DEF Changed
  <2> QED
    BY <2>2, <2>3, <2>7
<1> QED
  BY <1>3, <1>4, <1>5

\* A handle that nobody uses keeps its invariant while the source changes.
LEMMA SourceKeepsHandle ==
  ASSUME BaseInv, BaseInv', Changed, NEW r \in Rec,
         HandleInv(r, disk, content, gone, changes, style)
  PROVE  HandleInv(r, disk', content', gone', changes', style)
<1>1. /\ changes \in Nat /\ changes' \in Nat /\ changes <= changes' /\ gone \subseteq gone'
      /\ \A f \in Files : r.fp[f][1] \in Nat /\ r.fp[f][2] \in Nat
      /\ Scope(r, style) \subseteq Files /\ Paths(style) \subseteq Scope(r, style)
      /\ Primary \in Paths(style)
  <2>1. changes \in Nat /\ changes' \in Nat /\ changes <= changes' /\ gone \subseteq gone'
    BY HandleAssumption DEF BaseInv, Changed
  <2>2. \A f \in Files : r.fp[f][1] \in Nat /\ r.fp[f][2] \in Nat
    BY RecFields, Bounds
  <2>3. /\ Scope(r, style) \subseteq Files /\ Paths(style) \subseteq Scope(r, style)
        /\ Primary \in Paths(style)
    BY RecFields, Bounds DEF Scope
  <2> QED
    BY <2>1, <2>2, <2>3
<1> DEFINE st == style
           Taken == r.pc \in Opened \cup {"measuring"}
<1>2. RelatedInv(r, st) /\ OkInv(r) /\ NewInv(r) /\ UseInv(r)
  BY DEF HandleInv
<1>3. FingerprintInv(r, gone', changes', st)
  BY <1>1 DEF HandleInv, FingerprintInv
<1>4. ASSUME Taken, NEW f \in Scope(r, st), Lost(r, f, disk, content)
      PROVE  Lost(r, f, disk', content')
  <2>1. f \in Files /\ Old(r, f)
    BY <1>1, <1>4 DEF HandleInv, FingerprintInv, Fingerprinted, Old
  <2> QED
    BY <1>4, <2>1 DEF Changed
<1>5. Taken /\ Bad(r, disk, content, st) => Bad(r, disk', content', st)
  BY <1>4 DEF Bad
<1>6. MeasureInv(r, disk', content', st)
  <2> SUFFICES ASSUME r.pc = "measuring" PROVE MeasureInv(r, disk', content', st)
    BY DEF MeasureInv
  <2>1. Taken /\ MeasureInv(r, disk, content, st)
    BY DEF HandleInv
  <2>2. ASSUME st = "volumes", NEW f \in Files, r.fp[f][1] = Missing PROVE disk'[f] # Missing
    <3>1. f \in Scope(r, st)
      BY <2>2 DEF Scope, Paths
    <3>2. f \in gone
      BY <2>1, <2>2, <3>1 DEF HandleInv, FingerprintInv, Fingerprinted
    <3>3. disk[f] # Missing
      BY <2>1, <2>2 DEF MeasureInv
    <3> QED
      BY <3>2, <3>3 DEF Changed
  <2> HIDE DEF Taken
  <2> QED
    BY <1>5, <2>1, <2>2 DEF MeasureInv
<1>7. SizeInv(r, disk', content', st)
  BY <1>5 DEF HandleInv, SizeInv
<1>8. SessionInv(r, disk', content', st) /\ ReadInv(r, disk', content', st)
  <2>1. CASE r.pc \in Opened
    <3>1. \A f \in Scope(r, st) : Lost(r, f, disk, content) => Lost(r, f, disk', content')
      BY <1>4, <2>1
    <3>2. SessionInv(r, disk', content', st)
      BY <1>1, <3>1 DEF HandleInv, SessionInv
    <3>3. ReadInv(r, disk', content', st)
      BY <3>1 DEF HandleInv, ReadInv
    <3> QED
      BY <3>2, <3>3
  <2>2. CASE r.pc \notin Opened
    <3>1. r.read = {} /\ ~ r.session /\ r.payload = 0 /\ r.pc # "adapter"
      BY <1>2, <2>2 DEF NewInv, Opened
    <3> QED
      BY <3>1 DEF SessionInv, ReadInv
  <2> QED
    BY <2>1, <2>2
<1>9. CompareInv(r, disk', content', st)
  <2> SUFFICES ASSUME r.pc = "comparing" PROVE CompareInv(r, disk', content', st)
    BY DEF CompareInv
  <2>1. Taken
    BY DEF Opened
  <2>2. CompareInv(r, disk, content, st)
    BY DEF HandleInv
  <2>3. ASSUME NEW f \in r.todo, Lost(r, f, disk, content)
        PROVE  (\E g \in r.todo : Lost(r, g, disk', content')) \/ \A g \in Scope(r, st) : Fits(r, g)
    <3>1. f \in Scope(r, st)
      BY <2>2, <2>3 DEF CompareInv
    <3>2. Lost(r, f, disk', content')
      BY <1>4, <2>1, <2>3, <3>1
    <3> QED
      BY <2>3, <3>2
  <2> HIDE DEF Taken
  <2> QED
    BY <2>2, <2>3 DEF CompareInv
<1> QED
  BY <1>2, <1>3, <1>6, <1>7, <1>8, <1>9 DEF HandleInv
-----------------------------------------------------------------------------
\* The handles' own steps.  Fine: the invariant of one handle.
Fine(r) == r \in Rec /\ HandleInv(r, disk, content, gone, changes, style)

\* What a call does not change of a handle, and of its entry ids.
Same(q, r) ==
    /\ q.fp = r.fp /\ q.related = r.related /\ q.fd = r.fd /\ q.payload = r.payload
    /\ q.session <=> r.session
KeepsIds(q, r) == q.ids = {} \/ (q.ids = r.ids /\ q.gen = r.gen)

LEMMA ReturnsFields ==
  ASSUME NEW r \in Rec, NEW res \in Results
  PROVE  LET q == Returns(r, res)
         IN  /\ q \in Rec /\ q.pc = "idle" /\ q.res = res
             /\ q.read = IF res = "ok" THEN r.read ELSE {}
             /\ Same(q, r) /\ q.ids = r.ids /\ q.gen = r.gen
             /\ q.unusable <=> r.unusable
<1> DEFINE rd == IF res = "ok" THEN r.read ELSE {}
<1>1. rd \in SUBSET (Files \X Versions)
  BY RecFields
<1>2. Returns(r, res) = [r EXCEPT !.pc = "idle", !.op = None, !.after = None, !.res = res,
                                  !.todo = {}, !.same = TRUE, !.read = rd]
  BY DEF Returns
<1> HIDE DEF rd
<1>3. Returns(r, res) \in Rec
  BY <1>1, <1>2, ZenonT(60) DEF Rec, PCs, Afters
<1>4. LET q == Returns(r, res)
      IN  /\ q.pc = "idle" /\ q.res = res /\ q.read = rd
          /\ Same(q, r) /\ q.ids = r.ids /\ q.gen = r.gen
          /\ q.unusable <=> r.unusable
  BY <1>2 DEF Rec, Same
<1> QED
  BY <1>3, <1>4 DEF rd

LEMMA ValidateFields ==
  ASSUME NEW r \in Rec, NEW after \in Afters
  PROVE  LET q == Validate(r, after)
         IN  /\ q \in Rec /\ q.pc = "validating" /\ q.after = after /\ q.same /\ q.todo = {}
             /\ q.read = r.read /\ q.res = r.res /\ q.op = r.op
             /\ Same(q, r) /\ q.ids = r.ids /\ q.gen = r.gen
             /\ q.unusable <=> r.unusable
<1>1. Validate(r, after) \in Rec
  BY DEF Rec, PCs, Validate
<1> QED
  BY <1>1 DEF Rec, Same, Validate

LEMMA PoisonedFields ==
  ASSUME NEW r \in Rec
  PROVE  LET q == Poisoned(r)
         IN  /\ q \in Rec /\ q.pc = "idle" /\ q.res = "err" /\ q.read = {}
             /\ Same(q, r) /\ q.ids = r.ids /\ q.gen = r.gen /\ q.unusable
<1> DEFINE u == [r EXCEPT !.unusable = TRUE]
<1>1. u \in Rec /\ Same(u, r) /\ u.ids = r.ids /\ u.gen = r.gen /\ u.unusable
  BY DEF Rec, Same
<1>2. "err" \in Results /\ "err" # "ok"
  BY DEF Results
<1>3. Poisoned(r) = Returns(u, "err")
  BY DEF Poisoned
<1> HIDE DEF u
<1> QED
  BY <1>1, <1>2, <1>3, ReturnsFields DEF Same

LEMMA ClosedFields ==
  /\ Closed \in Rec /\ NotOpened \in Rec
  /\ \A q \in {Closed, NotOpened} :
       /\ q.pc = "closed" /\ q.ids = {} /\ q.related = {} /\ q.read = {} /\ q.payload = 0
       /\ ~ q.session /\ ~ q.unusable /\ q.fp = [f \in Files |-> <<Missing, 0>>]
<1>1. [f \in Files |-> <<Missing, 0>>] \in [Files -> Inodes \X Versions]
  BY Bounds
<1>2. [f \in Files |-> Missing] \in [Files -> Inodes]
  BY Bounds
<1>3. Closed \in Rec
  BY <1>1, <1>2, Bounds DEF Closed, Rec, PCs, Results, Afters
<1>4. /\ Closed.pc = "closed" /\ Closed.ids = {} /\ Closed.related = {} /\ Closed.read = {}
      /\ Closed.payload = 0 /\ ~ Closed.session /\ ~ Closed.unusable
      /\ Closed.fp = [f \in Files |-> <<Missing, 0>>]
  BY DEF Closed
<1>5. /\ NotOpened \in Rec /\ NotOpened.pc = "closed" /\ NotOpened.ids = {}
      /\ NotOpened.related = {} /\ NotOpened.read = {} /\ NotOpened.payload = 0
      /\ ~ NotOpened.session /\ ~ NotOpened.unusable
      /\ NotOpened.fp = [f \in Files |-> <<Missing, 0>>]
  <2> HIDE DEF Closed
  <2>1. NotOpened = [Closed EXCEPT !.res = "err"]
    BY DEF NotOpened
  <2> QED
    BY <1>3, <1>4, <2>1 DEF Rec, Results
<1> QED
  BY <1>3, <1>4, <1>5

\* A call of an open handle that neither reads nor compares.
LEMMA UsedHandle ==
  ASSUME NEW r, Fine(r), NEW q \in Rec, Same(q, r),
         r.pc \in Opened, q.pc \in Opened \ {"comparing"},
         q.read = {} \/ q.read = r.read,
         ~(q.pc = "idle" /\ q.res = "ok"),
         q.pc = "adapter" => q.session, UseInv(q)
  PROVE  Fine(q)
<1> DEFINE st == style
<1>1. /\ HandleInv(r, disk, content, gone, changes, st)
      /\ q.fp = r.fp /\ q.related = r.related /\ q.fd = r.fd /\ q.payload = r.payload
      /\ q.session <=> r.session
  BY DEF Fine, Same
<1>2. q.pc \in PCs /\ q.pc # "measuring" /\ q.pc # "capturing" /\ q.pc \in Opened /\ q.pc # "comparing"
      /\ q.pc \notin {"closed", "opening"}
  BY RecFields DEF Opened
<1>3. Scope(q, st) = Scope(r, st) /\ \A f, D, C : Lost(q, f, D, C) <=> Lost(r, f, D, C)
  BY <1>1 DEF Scope, Lost
<1>4. \A f, v : (Fits(q, f) <=> Fits(r, f)) /\ (Own(q, f, v) <=> Own(r, f, v)) /\ (Never(q, f) <=> Never(r, f))
  BY <1>1 DEF Fits, Own, Never
<1>5. RelatedInv(q, st)
  BY <1>1 DEF HandleInv, RelatedInv
<1>6. FingerprintInv(q, gone, changes, st)
  BY <1>1, <1>3 DEF HandleInv, FingerprintInv, Fingerprinted
<1>7. MeasureInv(q, disk, content, st) /\ CompareInv(q, disk, content, st) /\ OkInv(q) /\ NewInv(q)
  BY <1>2 DEF MeasureInv, CompareInv, OkInv, NewInv
<1>8. SizeInv(q, disk, content, st)
  BY <1>1, <1>3, <1>4 DEF HandleInv, SizeInv, Bad
<1>9. SessionInv(q, disk, content, st)
  BY <1>1, <1>3, <1>4 DEF HandleInv, SessionInv
<1>10. ReadInv(q, disk, content, st)
  BY <1>1, <1>3, <1>4 DEF HandleInv, ReadInv
<1> QED
  BY <1>5, <1>6, <1>7, <1>8, <1>9, <1>10 DEF Fine, HandleInv

\* A step of one handle.
LEMMA HandleStep ==
  ASSUME IInv, NEW h \in Handles, NEW q, Fine(q), KeepsIds(q, hs[h]), Goes(h, q) \/ Calls(h, q)
  PROVE  IInv'
<1>1. /\ hs' = [hs EXCEPT ![h] = q] /\ q \in Rec
      /\ UNCHANGED <<style, disk, content, changes, gone, nextId, minted>>
      /\ calls' \in 0..MaxCalls
  BY HandleAssumption DEF Goes, Calls, Fine, IInv, BaseInv
<1>2. BaseInv'
  BY <1>1 DEF IInv, BaseInv
<1>3. SourceInv'
  BY <1>1 DEF IInv, SourceInv
<1>4. \A g \in Handles : hs'[g] = IF g = h THEN q ELSE hs[g]
  BY <1>1 DEF IInv, BaseInv
<1>5. \A g \in Handles : HandleInv(hs'[g], disk', content', gone', changes', style')
  BY <1>1, <1>4 DEF IInv, Fine
<1>6. IdInv'
  BY <1>1, <1>4 DEF IInv, IdInv, KeepsIds
<1> QED
  BY <1>2, <1>3, <1>5, <1>6 DEF IInv

LEMMA HandleFacts ==
  ASSUME IInv, NEW h \in Handles
  PROVE  /\ hs[h] \in Rec /\ Fine(hs[h]) /\ style \in Style
         /\ disk \in [Files -> Inodes] /\ content \in [Inodes -> Versions] /\ changes \in Nat
  BY HandleAssumption DEF IInv, BaseInv, Fine

\* Calls that end, or go on to a validation.
LEMMA ReturnsFine ==
  ASSUME NEW r, Fine(r), r.pc \in Opened, NEW res \in Results, res # "ok"
  PROVE  Fine(Returns(r, res)) /\ KeepsIds(Returns(r, res), r)
<1>1. r \in Rec /\ HandleInv(r, disk, content, gone, changes, style)
  BY DEF Fine
<1> DEFINE q == Returns(r, res)
<1>2. /\ q \in Rec /\ q.pc = "idle" /\ q.res = res /\ q.read = {}
      /\ Same(q, r) /\ q.ids = r.ids /\ q.gen = r.gen
  BY <1>1, ReturnsFields
<1> HIDE DEF q
<1>3. UseInv(q) /\ q.pc \in Opened \ {"comparing"} /\ q.pc # "adapter"
  BY <1>2 DEF UseInv, Opened
<1>4. Fine(q)
  BY <1>2, <1>3, UsedHandle
<1> QED
  BY <1>2, <1>4 DEF q, KeepsIds

LEMMA PoisonedFine ==
  ASSUME NEW r, Fine(r), r.pc \in Opened
  PROVE  Fine(Poisoned(r)) /\ KeepsIds(Poisoned(r), r)
<1>1. r \in Rec
  BY DEF Fine
<1> DEFINE q == Poisoned(r)
<1>2. /\ q \in Rec /\ q.pc = "idle" /\ q.res = "err" /\ q.read = {}
      /\ Same(q, r) /\ q.ids = r.ids /\ q.gen = r.gen
  BY <1>1, PoisonedFields
<1> HIDE DEF q
<1>3. UseInv(q) /\ q.pc \in Opened \ {"comparing"} /\ q.pc # "adapter" /\ q.res # "ok"
  BY <1>2 DEF UseInv, Opened
<1>4. Fine(q)
  BY <1>2, <1>3, UsedHandle
<1> QED
  BY <1>2, <1>4 DEF q, KeepsIds

LEMMA ValidateFine ==
  ASSUME NEW r, Fine(r), r.pc \in Opened, NEW after \in {"session", "cached", "finish"},
         after = "session" => ~ r.unusable
  PROVE  Fine(Validate(r, after)) /\ KeepsIds(Validate(r, after), r)
<1>1. r \in Rec /\ after \in Afters
  BY DEF Fine, Afters
<1> DEFINE q == Validate(r, after)
<1>2. /\ q \in Rec /\ q.pc = "validating" /\ q.after = after /\ q.read = r.read
      /\ Same(q, r) /\ q.ids = r.ids /\ q.gen = r.gen /\ (q.unusable <=> r.unusable)
  BY <1>1, ValidateFields
<1> HIDE DEF q
<1>3. UseInv(q) /\ q.pc \in Opened \ {"comparing"} /\ q.pc # "adapter" /\ q.pc # "idle"
  BY <1>2 DEF UseInv, Opened, None
<1>4. Fine(q)
  BY <1>2, <1>3, UsedHandle
<1> QED
  BY <1>2, <1>4 DEF q, KeepsIds

\* The beginning of a call; it leaves the handle idle.
LEMMA BeginFine ==
  ASSUME IInv, NEW h \in Handles, hs[h].pc = "idle", NEW op \in Operations
  PROVE  LET r == Begin(h, op)
         IN  /\ Fine(r) /\ r.pc = "idle" /\ r.ids = hs[h].ids /\ r.gen = hs[h].gen
             /\ r.unusable <=> hs[h].unusable
<1> DEFINE r == Begin(h, op)
           e == hs[h]
<1>1. e \in Rec /\ Fine(e)
  BY HandleFacts
<1>2. r = [e EXCEPT !.op = op, !.res = None, !.read = {}]
  BY DEF Begin
<1>3. None \in Results /\ None # "ok"
  BY DEF Results, None
<1>4. /\ r \in Rec /\ r.pc = e.pc /\ r.ids = e.ids /\ r.gen = e.gen /\ (r.unusable <=> e.unusable)
      /\ r.read = {} /\ r.res = None /\ Same(r, e)
  <2> HIDE DEF r, e
  <2>1. r \in Rec
    BY <1>1, <1>2, <1>3 DEF Rec
  <2> QED
    BY <1>1, <1>2, <2>1 DEF Rec, Same
<1>5. r.pc = "idle" /\ e.pc = "idle"
  BY <1>4
<1> HIDE DEF r, e
<1>6. UseInv(r) /\ e.pc \in Opened /\ r.pc \in Opened \ {"comparing"} /\ r.pc # "adapter"
  BY <1>5 DEF UseInv, Opened
<1>7. Fine(r)
  BY <1>1, <1>3, <1>4, <1>5, <1>6, UsedHandle
<1> QED
  BY <1>4, <1>5, <1>7 DEF r, e

LEMMA SessionForFine ==
  ASSUME NEW r, Fine(r), r.pc = "idle"
  PROVE  Fine(SessionFor(r)) /\ KeepsIds(SessionFor(r), r)
<1>0. r \in Rec /\ r.pc \in Opened /\ "err" \in Results
  BY DEF Fine, Opened, Results
<1>1. CASE r.unusable
  BY <1>0, <1>1, ReturnsFine DEF SessionFor
<1>2. CASE ~ r.unusable /\ r.session
  <2> DEFINE q == [r EXCEPT !.pc = "adapter"]
  <2>1. SessionFor(r) = q
    BY <1>2 DEF SessionFor
  <2>2. /\ q \in Rec /\ q.pc = "adapter" /\ q.read = r.read /\ Same(q, r) /\ q.ids = r.ids
        /\ q.gen = r.gen /\ q.session
    BY <1>0, <1>2 DEF Rec, Same, PCs
  <2> HIDE DEF q
  <2>3. UseInv(q) /\ q.pc \in Opened \ {"comparing"} /\ q.pc # "idle"
    BY <2>2 DEF UseInv, Opened
  <2>4. Fine(q)
    BY <1>0, <2>2, <2>3, UsedHandle
  <2> QED
    BY <2>1, <2>2, <2>4 DEF KeepsIds
<1>3. CASE ~ r.unusable /\ ~ r.session
  BY <1>0, <1>3, ValidateFine DEF SessionFor
<1> QED
  BY <1>1, <1>2, <1>3

LEMMA CallSteps ==
  ASSUME IInv, NEW h \in Handles
  PROVE  /\ List(h) => IInv'
         /\ \A op \in Operations, refused \in BOOLEAN : Whole(h, op, refused) => IInv'
         /\ \A op \in Operations, id \in 1..nextId : Selected(h, op, id) => IInv'
<1>1. "err" \in Results /\ "err" # "ok" /\ "list" \in Operations /\ "idle" \in Opened
  BY DEF Results, Operations, Opened
<1>2. ASSUME List(h) PROVE IInv'
  <2> DEFINE r == Begin(h, "list")
             q == IF r.listing THEN Validate(r, "cached") ELSE SessionFor(r)
  <2>1. Fine(r) /\ r.pc = "idle" /\ r.ids = hs[h].ids /\ r.gen = hs[h].gen
    BY <1>1, <1>2, BeginFine DEF List
  <2>2. Calls(h, q)
    BY <1>2 DEF List
  <2> HIDE DEF r
  <2>3. Fine(q) /\ KeepsIds(q, r)
    BY <1>1, <2>1, ValidateFine, SessionForFine
  <2> HIDE DEF q
  <2> QED
    BY <2>1, <2>2, <2>3, HandleStep DEF KeepsIds
<1>3. ASSUME NEW op \in Operations, NEW refused \in BOOLEAN, Whole(h, op, refused) PROVE IInv'
  <2> DEFINE r == Begin(h, op)
             q == IF refused THEN Returns(r, "err") ELSE SessionFor(r)
  <2>1. Fine(r) /\ r.pc = "idle" /\ r.ids = hs[h].ids /\ r.gen = hs[h].gen
    BY <1>3, BeginFine DEF Whole
  <2>2. Calls(h, q)
    BY <1>3 DEF Whole
  <2> HIDE DEF r
  <2>3. Fine(q) /\ KeepsIds(q, r)
    BY <1>1, <2>1, ReturnsFine, SessionForFine
  <2> HIDE DEF q
  <2> QED
    BY <2>1, <2>2, <2>3, HandleStep DEF KeepsIds
<1>4. ASSUME NEW op \in Operations, NEW id \in 1..nextId, Selected(h, op, id) PROVE IInv'
  <2> DEFINE r == Begin(h, op)
             q == IF id \notin r.ids THEN Returns(r, "err") ELSE SessionFor(r)
  <2>1. Fine(r) /\ r.pc = "idle" /\ r.ids = hs[h].ids /\ r.gen = hs[h].gen
    BY <1>4, BeginFine DEF Selected
  <2>2. Calls(h, q)
    BY <1>4 DEF Selected
  <2> HIDE DEF r
  <2>3. Fine(q) /\ KeepsIds(q, r)
    BY <1>1, <2>1, ReturnsFine, SessionForFine
  <2> HIDE DEF q
  <2> QED
    BY <2>1, <2>2, <2>3, HandleStep DEF KeepsIds
<1> QED
  BY <1>2, <1>3, <1>4

\* The end of the adapter's work.
LEMMA AdapterEndFine ==
  ASSUME NEW r, Fine(r), r.pc = "adapter",
         NEW u \in Rec, u.pc = "adapter", u.read = r.read, Same(u, r)
  PROVE  LET q == Validate(u, "finish")
         IN  Fine(q) /\ q.ids = u.ids /\ q.gen = u.gen
<1>1. r \in Rec /\ HandleInv(r, disk, content, gone, changes, style)
  BY DEF Fine
<1>2. u.session
  BY <1>1 DEF HandleInv, SessionInv, Same
<1>3. r.pc \in Opened /\ u.pc \in Opened \ {"comparing"} /\ u.pc # "idle" /\ UseInv(u)
  BY DEF Opened, UseInv
<1>4. Fine(u)
  BY <1>2, <1>3, UsedHandle
<1> QED
  BY <1>3, <1>4, ValidateFine, ValidateFields DEF Afters

LEMMA AdapterSteps ==
  ASSUME IInv, NEW h \in Handles
  PROVE  /\ AdapterSucceeds(h) => IInv'
         /\ \A res \in {"usable", "unusable"} : AdapterFails(h, res) => IInv'
<1> DEFINE r == hs[h]
<1>1. r \in Rec /\ Fine(r)
  BY HandleFacts
<1>2. ASSUME NEW res \in {"ok", "usable", "unusable"}, r.pc = "adapter",
             Goes(h, Validate([r EXCEPT !.res = res], "finish"))
      PROVE  IInv'
  <2> DEFINE u == [r EXCEPT !.res = res]
             q == Validate(u, "finish")
  <2> HIDE DEF r
  <2>1. /\ u \in Rec /\ u.pc = "adapter" /\ u.read = r.read /\ Same(u, r)
        /\ u.ids = r.ids /\ u.gen = r.gen
    BY <1>1, <1>2 DEF Rec, Results, Same
  <2>2. Goes(h, q)
    BY <1>2
  <2> HIDE DEF u
  <2>3. Fine(q) /\ q.ids = r.ids /\ q.gen = r.gen
    BY <1>1, <1>2, <2>1, AdapterEndFine
  <2> QED
    BY <2>2, <2>3, HandleStep DEF KeepsIds, r
<1>3. ASSUME AdapterSucceeds(h) PROVE IInv'
  BY <1>2, <1>3 DEF AdapterSucceeds
<1>4. ASSUME NEW res \in {"usable", "unusable"}, AdapterFails(h, res) PROVE IInv'
  BY <1>2, <1>4 DEF AdapterFails
<1> QED
  BY <1>3, <1>4

\* The one step that gives out ids: all of them are new.
LEMMA ListsStep ==
  ASSUME IInv, NEW h \in Handles, NEW n \in 0..1, NEW duplicate \in BOOLEAN,
         AdapterLists(h, n, duplicate)
  PROVE  IInv'
<1> DEFINE r == hs[h]
           res == IF duplicate THEN "unusable" ELSE "ok"
           new == EngineIds(n)
           u == [r EXCEPT !.ids = new, !.res = res]
           q == Validate(u, "finish")
<1>1. r \in Rec /\ Fine(r) /\ r.pc = "adapter"
  BY HandleFacts DEF AdapterLists
<1>2. /\ nextId \in Nat \ {0} /\ n \in Nat /\ new \subseteq Nat
      /\ \A id \in new : id >= nextId /\ id < nextId + n /\ id > 0
      /\ nextId' = nextId + n
  BY DEF IInv, BaseInv, EngineIds, AdapterLists
<1>3. res \in Results
  BY DEF Results
<1>4. Fine(q) /\ q.ids = new /\ q.gen = r.gen
  <2> HIDE DEF r, res, new
  <2>1. u \in Rec /\ u.pc = "adapter" /\ u.read = r.read /\ Same(u, r) /\ u.ids = new /\ u.gen = r.gen
    BY <1>1, <1>2, <1>3 DEF Rec, Same
  <2> HIDE DEF u
  <2> QED
    BY <1>1, <2>1, AdapterEndFine
<1>5. /\ hs' = [hs EXCEPT ![h] = q] /\ q \in Rec
      /\ minted' = minted \cup (new \X {<<h, r.gen>>})
      /\ UNCHANGED <<style, disk, content, changes, gone, calls>>
  BY <1>4 DEF AdapterLists, Fine
<1> HIDE DEF q, r, res, new
<1>6. BaseInv'
  BY <1>2, <1>5 DEF IInv, BaseInv
<1>7. SourceInv'
  BY <1>5 DEF IInv, SourceInv
<1>8. \A g \in Handles : hs'[g] = IF g = h THEN q ELSE hs[g]
  BY <1>5 DEF IInv, BaseInv
<1>9. \A g \in Handles : HandleInv(hs'[g], disk', content', gone', changes', style')
  BY <1>4, <1>5, <1>8 DEF IInv, Fine
<1>10. IdInv'
  <2>1. \A x \in minted' : x \in minted \/ (x[1] \in new /\ x[2] = <<h, r.gen>> /\ x = <<x[1], x[2]>>)
    BY <1>5
  <2>2. \A x \in minted : x[1] \in Nat /\ x[1] < nextId
    BY DEF IInv, IdInv
  <2>3. \A x \in minted' : x[1] \in Nat /\ x[1] < nextId'
    BY <1>2, <2>1, <2>2
  <2>4. ASSUME NEW x \in minted', NEW y \in minted', x[1] = y[1] PROVE x = y
    <3>1. CASE x \in minted /\ y \in minted
      BY <2>4, <3>1 DEF IInv, IdInv
    <3>2. CASE x \notin minted /\ y \notin minted
      BY <2>1, <2>4, <3>2
    <3>3. CASE x \in minted /\ y \notin minted
      BY <1>2, <2>1, <2>2, <2>4, <3>3
    <3>4. CASE x \notin minted /\ y \in minted
      BY <1>2, <2>1, <2>2, <2>4, <3>4
    <3> QED
      BY <3>1, <3>2, <3>3, <3>4
  <2>5. ASSUME NEW g \in Handles, NEW id \in hs'[g].ids
        PROVE  id < nextId' /\ id > 0 /\ <<id, <<g, hs'[g].gen>>>> \in minted'
    <3>1. CASE g = h
      <4>1. hs'[g] = q /\ id \in new /\ q.gen = r.gen
        BY <1>4, <1>8, <2>5, <3>1
      <4>2. <<id, <<h, r.gen>>>> \in minted'
        BY <1>5, <4>1
      <4> QED
        BY <1>2, <3>1, <4>1, <4>2
    <3>2. CASE g # h
      <4>1. id < nextId /\ id > 0 /\ <<id, <<g, hs'[g].gen>>>> \in minted /\ id \in Nat
        BY <1>8, <2>5, <3>2, HandleFacts, RecFields DEF IInv, IdInv
      <4> QED
        BY <1>2, <1>5, <4>1
    <3> QED
      BY <3>1, <3>2
  <2> QED
    BY <2>3, <2>4, <2>5 DEF IdInv
<1> QED
  BY <1>6, <1>7, <1>9, <1>10 DEF IInv
-----------------------------------------------------------------------------
\* A step of an open handle that may read, compare or open its session.
LEMMA OpenFine ==
  ASSUME NEW r, Fine(r), NEW q \in Rec, r.pc \in Opened, q.pc \in Opened,
         q.fp = r.fp, q.related = r.related,
         SessionInv(q, disk, content, style), ReadInv(q, disk, content, style),
         CompareInv(q, disk, content, style), OkInv(q), UseInv(q)
  PROVE  Fine(q)
<1> DEFINE st == style
<1>1. HandleInv(r, disk, content, gone, changes, st)
  BY DEF Fine
<1>2. q.pc # "measuring" /\ q.pc # "capturing" /\ q.pc \notin {"closed", "opening"}
  BY DEF Opened
<1>3. Scope(q, st) = Scope(r, st) /\ \A f, D, C : Lost(q, f, D, C) <=> Lost(r, f, D, C)
  BY DEF Scope, Lost
<1>4. \A f, v : (Fits(q, f) <=> Fits(r, f)) /\ (Never(q, f) <=> Never(r, f))
  BY DEF Fits, Never
<1>5. RelatedInv(q, st)
  BY <1>1 DEF HandleInv, RelatedInv
<1>6. FingerprintInv(q, gone, changes, st)
  BY <1>1, <1>3 DEF HandleInv, FingerprintInv, Fingerprinted
<1>7. MeasureInv(q, disk, content, st) /\ NewInv(q)
  BY <1>2 DEF MeasureInv, NewInv
<1>8. SizeInv(q, disk, content, st)
  BY <1>1, <1>3, <1>4 DEF HandleInv, SizeInv, Bad
<1> QED
  BY <1>5, <1>6, <1>7, <1>8 DEF Fine, HandleInv

\* What carries over when the fingerprints and the session stay the same.
LEMMA SameSource ==
  ASSUME NEW r, NEW q, Same(q, r)
  PROVE  /\ \A st : Scope(q, st) = Scope(r, st)
         /\ \A f, D, C : Lost(q, f, D, C) <=> Lost(r, f, D, C)
         /\ \A f, v : (Fits(q, f) <=> Fits(r, f)) /\ (Own(q, f, v) <=> Own(r, f, v))
         /\ \A D, C, st : q.read = r.read /\ ReadInv(r, D, C, st) => ReadInv(q, D, C, st)
         /\ \A D, C, st : (q.pc = "adapter" => q.session) /\ SessionInv(r, D, C, st)
                            => SessionInv(q, D, C, st)
<1>1. /\ \A st : Scope(q, st) = Scope(r, st)
      /\ \A f, D, C : Lost(q, f, D, C) <=> Lost(r, f, D, C)
      /\ \A f, v : (Fits(q, f) <=> Fits(r, f)) /\ (Own(q, f, v) <=> Own(r, f, v))
  BY DEF Same, Scope, Lost, Fits, Own
<1>2. \A D, C, st : q.read = r.read /\ ReadInv(r, D, C, st) => ReadInv(q, D, C, st)
  BY <1>1 DEF ReadInv
<1>3. \A D, C, st : (q.pc = "adapter" => q.session) /\ SessionInv(r, D, C, st)
                      => SessionInv(q, D, C, st)
  BY <1>1 DEF SessionInv, Same
<1> QED
  BY <1>1, <1>2, <1>3

LEMMA SourcePathsAre ==
  /\ SourcePaths = Paths(style)
  /\ \A r : SourcePaths \cup r.related = Scope(r, style)
  BY DEF SourcePaths, Paths, Scope

LEMMA ValidateDiscoversStep ==
  ASSUME IInv, NEW h \in Handles, ValidateDiscovers(h)
  PROVE  IInv'
<1> DEFINE r == hs[h]
           q == [r EXCEPT !.pc = "comparing", !.todo = SourcePaths \cup r.related]
<1>1. /\ r \in Rec /\ Fine(r) /\ r.pc = "validating" /\ r.pc \in Opened
      /\ HandleInv(r, disk, content, gone, changes, style)
  BY HandleFacts DEF ValidateDiscovers, Opened, Fine
<1>2. CASE DiscoverRelated # r.related
  <2>1. Goes(h, Poisoned(r))
    BY <1>2 DEF ValidateDiscovers
  <2> QED
    BY <1>1, <2>1, PoisonedFine, HandleStep
<1>3. CASE DiscoverRelated = r.related
  <2>1. Goes(h, q)
    BY <1>3 DEF ValidateDiscovers
  <2>a. Scope(r, style) \in SUBSET Files /\ SourcePaths \cup r.related = Scope(r, style)
    BY <1>1, RecFields, SourcePathsAre
  <2>2. /\ q \in Rec /\ q.pc = "comparing" /\ q.todo = Scope(r, style) /\ q.read = r.read
        /\ Same(q, r) /\ q.ids = r.ids /\ q.gen = r.gen /\ (q.unusable <=> r.unusable)
        /\ q.after = r.after
    <3> HIDE DEF r
    <3> QED
      BY <1>1, <2>a DEF Rec, PCs, Same
  <2> HIDE DEF q
  <2>3. \A f \in Scope(r, style) : Never(r, f) => Lost(r, f, disk, content)
    <3> SUFFICES ASSUME NEW f \in Scope(r, style), Never(r, f) PROVE Lost(r, f, disk, content)
      OBVIOUS
    <3>1. f \in DiscoverRelated /\ r.fp[f][1] = Missing
      BY <1>3 DEF Never
    <3>2. f = Sibling /\ disk[f] # Missing
      BY <3>1 DEF DiscoverRelated
    <3> QED
      BY <3>1, <3>2 DEF Lost
  <2>4. (\E f \in q.todo : Lost(q, f, disk, content)) \/ \A f \in Scope(q, style) : Fits(q, f)
    <3>1. SizeInv(r, disk, content, style)
      BY <1>1 DEF HandleInv
    <3>2. (\E f \in Scope(r, style) : Lost(r, f, disk, content)) \/ \A f \in Scope(r, style) : Fits(r, f)
      BY <1>1, <2>3, <3>1 DEF SizeInv, Bad
    <3> QED
      BY <2>2, <3>2, SameSource
  <2>5. ReadInv(q, disk, content, style) /\ SessionInv(q, disk, content, style)
    BY <1>1, <2>2, SameSource DEF HandleInv
  <2>6. CompareInv(q, disk, content, style)
    <3>1. \A f \in Files, v \in Versions : <<f, v>> \in q.read => f \in q.todo
      BY <2>2, <2>5, SameSource DEF ReadInv
    <3>2. q.todo \subseteq Scope(q, style)
      BY <2>2, SameSource
    <3> QED
      BY <2>4, <3>1, <3>2 DEF CompareInv
  <2>7. UseInv(q) /\ OkInv(q) /\ q.pc \in Opened
    BY <1>1, <2>2 DEF HandleInv, UseInv, OkInv, Opened
  <2>8. Fine(q)
    BY <1>1, <2>2, <2>5, <2>6, <2>7, OpenFine DEF Same
  <2> QED
    BY <2>1, <2>2, <2>8, HandleStep DEF KeepsIds
<1> QED
  BY <1>2, <1>3

\* A file that is found to be the one that was opened was that one all along.
LEMMA ValidateFingerprintsStep ==
  ASSUME IInv, NEW h \in Handles, NEW g \in Files, ValidateFingerprints(h, g)
  PROVE  IInv'
<1> DEFINE r == hs[h]
           match == SourceFileFingerprint(g) = r.fp[g]
           q == [r EXCEPT !.todo = @ \ {g}, !.same = @ /\ match]
<1>1. /\ r \in Rec /\ Fine(r) /\ r.pc = "comparing" /\ r.pc \in Opened /\ g \in r.todo
      /\ HandleInv(r, disk, content, gone, changes, style) /\ r.todo \in SUBSET Files
  BY HandleFacts, RecFields DEF ValidateFingerprints, Opened, Fine
<1>2. Goes(h, q)
  BY DEF ValidateFingerprints
<1>3. match => ~ Lost(r, g, disk, content)
  BY DEF Lost, SourceFileFingerprint
<1>4. /\ q \in Rec /\ q.pc = "comparing" /\ q.todo = r.todo \ {g} /\ q.read = r.read
      /\ Same(q, r) /\ q.ids = r.ids /\ q.gen = r.gen /\ (q.unusable <=> r.unusable)
      /\ q.after = r.after
  <2> HIDE DEF r, match
  <2>1. r.todo \ {g} \in SUBSET Files /\ (r.same /\ match) \in BOOLEAN
    BY <1>1
  <2>2. q = [r EXCEPT !.todo = r.todo \ {g}, !.same = r.same /\ match]
    BY <1>1 DEF Rec
  <2> HIDE DEF q
  <2>3. q \in Rec
    BY <1>1, <2>1, <2>2 DEF Rec
  <2> QED
    BY <1>1, <2>2, <2>3 DEF Rec, Same
<1>5. q.same => r.same /\ match
  <2> HIDE DEF r, match
  <2> QED
    BY <1>1 DEF Rec
<1> HIDE DEF q, match
<1>6. ReadInv(q, disk, content, style) /\ SessionInv(q, disk, content, style)
  BY <1>1, <1>4, SameSource DEF HandleInv
<1>7. CompareInv(r, disk, content, style) /\ ReadInv(r, disk, content, style)
  BY <1>1 DEF HandleInv
<1>8. CompareInv(q, disk, content, style)
  <2>1. q.todo \subseteq Scope(q, style)
    BY <1>1, <1>4, <1>7, SameSource DEF CompareInv
  <2>2. ASSUME q.same, NEW f \in Files, NEW v \in Versions, <<f, v>> \in q.read
        PROVE  f \in q.todo \/ Own(q, f, v)
    <3>1. f \in r.todo \/ Own(r, f, v)
      BY <1>1, <1>4, <1>5, <1>7, <2>2 DEF CompareInv
    <3>2. f = g => Own(r, f, v)
      BY <1>3, <1>4, <1>5, <1>7, <2>2 DEF ReadInv
    <3> QED
      BY <1>4, <3>1, <3>2, SameSource
  <2>3. ASSUME q.same
        PROVE  (\E f \in q.todo : Lost(q, f, disk, content)) \/ \A f \in Scope(q, style) : Fits(q, f)
    <3>1. (\E f \in r.todo : Lost(r, f, disk, content)) \/ \A f \in Scope(r, style) : Fits(r, f)
      BY <1>1, <1>5, <1>7, <2>3 DEF CompareInv
    <3>2. ~ Lost(r, g, disk, content)
      BY <1>3, <1>5, <2>3
    <3> QED
      BY <1>4, <3>1, <3>2, SameSource
  <2> QED
    BY <2>1, <2>2, <2>3 DEF CompareInv
<1>9. UseInv(q) /\ OkInv(q) /\ q.pc \in Opened
  BY <1>1, <1>4 DEF HandleInv, UseInv, OkInv, Opened
<1>10. Fine(q)
  BY <1>1, <1>4, <1>6, <1>8, <1>9, OpenFine DEF Same
<1> QED
  BY <1>2, <1>4, <1>10, HandleStep DEF KeepsIds

\* A successful end: the comparison has cleared everything that was read.
LEMMA OkFine ==
  ASSUME NEW r, Fine(r), r.pc = "comparing", r.todo = {}, r.same,
         NEW u \in Rec, u.pc = r.pc, u.read = r.read, Same(u, r)
  PROVE  LET q == Returns(u, "ok") IN Fine(q) /\ q.ids = u.ids /\ q.gen = u.gen
<1> DEFINE q == Returns(u, "ok")
<1>1. "ok" \in Results /\ r.pc \in Opened /\ HandleInv(r, disk, content, gone, changes, style)
  BY DEF Results, Opened, Fine
<1>2. /\ q \in Rec /\ q.pc = "idle" /\ q.read = u.read
      /\ Same(q, u) /\ q.ids = u.ids /\ q.gen = u.gen
  BY <1>1, ReturnsFields
<1> HIDE DEF q
<1>3. q.read = r.read /\ Same(q, r)
  BY <1>2 DEF Same
<1>4. ReadInv(q, disk, content, style) /\ SessionInv(q, disk, content, style)
  BY <1>1, <1>2, <1>3, SameSource DEF HandleInv
<1>5. CompareInv(r, disk, content, style) /\ ReadInv(r, disk, content, style)
  BY <1>1 DEF HandleInv
<1>6. OkInv(q)
  <2>1. \A f \in Scope(r, style) : Fits(r, f)
    BY <1>5 DEF CompareInv
  <2>2. \A f \in Files, v \in Versions : <<f, v>> \in r.read => Own(r, f, v) /\ f \in Scope(r, style)
    BY <1>5 DEF CompareInv, ReadInv
  <2> QED
    BY <1>3, <2>1, <2>2, SameSource DEF OkInv
<1>7. UseInv(q) /\ CompareInv(q, disk, content, style) /\ q.pc \in Opened
  BY <1>2 DEF UseInv, CompareInv, Opened
<1>8. Fine(q)
  BY <1>1, <1>2, <1>3, <1>4, <1>6, <1>7, OpenFine DEF Same
<1> QED
  BY <1>2, <1>8 DEF q

LEMMA ValidateEndSteps ==
  ASSUME IInv, NEW h \in Handles
  PROVE  /\ ValidateFails(h) => IInv'
         /\ ValidateDone(h) => IInv'
<1> DEFINE r == hs[h]
<1>1. r \in Rec /\ Fine(r) /\ "comparing" \in Opened
  BY HandleFacts DEF Opened
<1>2. ASSUME r.pc = "comparing", Goes(h, Poisoned(r)) PROVE IInv'
  BY <1>1, <1>2, PoisonedFine, HandleStep
<1>3. ASSUME ValidateFails(h) PROVE IInv'
  BY <1>2, <1>3 DEF ValidateFails
<1>4. ASSUME ValidateDone(h) PROVE IInv'
  <2>1. r.pc = "comparing" /\ r.todo = {} /\ r.pc \in Opened
    BY <1>1, <1>4 DEF ValidateDone
  <2>2. r.after \in {"session", "cached", "finish"} /\ (r.after = "session" => ~ r.unusable)
    BY <1>1, <2>1, RecFields DEF Fine, HandleInv, UseInv, Afters
  <2>3. CASE ~ r.same
    <3>1. Goes(h, Poisoned(r))
      BY <1>4, <2>3 DEF ValidateDone
    <3> QED
      BY <1>2, <2>1, <3>1
  <2>4. CASE r.same /\ r.after = "session"
    <3> DEFINE q == [r EXCEPT !.pc = "factory"]
    <3>1. Goes(h, q)
      BY <1>4, <2>4 DEF ValidateDone
    <3>2. /\ q \in Rec /\ q.pc = "factory" /\ q.read = r.read /\ Same(q, r) /\ q.ids = r.ids
          /\ q.gen = r.gen /\ (q.unusable <=> r.unusable)
      <4> HIDE DEF r
      <4> QED
        BY <1>1 DEF Rec, Same, PCs
    <3> HIDE DEF q, r
    <3>3. UseInv(q) /\ q.pc \in Opened \ {"comparing"} /\ q.pc # "idle" /\ q.pc # "adapter"
      BY <2>2, <2>4, <3>2 DEF UseInv, Opened
    <3>4. Fine(q)
      BY <1>1, <2>1, <3>2, <3>3, UsedHandle
    <3> QED
      BY <3>1, <3>2, <3>4, HandleStep DEF KeepsIds, r
  <2>5. CASE r.same /\ r.after = "cached"
    <3>1. Goes(h, Returns(r, "ok"))
      BY <1>4, <2>5 DEF ValidateDone
    <3>2. Same(r, r)
      BY DEF Same
    <3> HIDE DEF r
    <3>3. Fine(Returns(r, "ok")) /\ KeepsIds(Returns(r, "ok"), r)
      BY <1>1, <2>1, <2>5, <3>2, OkFine DEF KeepsIds
    <3> QED
      BY <3>1, <3>3, HandleStep DEF r
  <2>6. CASE r.same /\ r.after = "finish"
    <3> DEFINE u == [Recorded(r) EXCEPT !.listing = @ \/ (r.op = "list" /\ r.res = "ok")]
               res == IF r.res = "ok" THEN "ok" ELSE "err"
               q == Returns(u, res)
    <3>1. Goes(h, q)
      BY <1>4, <2>6 DEF ValidateDone
    <3>2. /\ u \in Rec /\ u.pc = r.pc /\ u.read = r.read /\ Same(u, r) /\ u.ids = r.ids
          /\ u.gen = r.gen /\ u.after = r.after
      <4> HIDE DEF r
      <4>1. Recorded(r) \in Rec
        BY <1>1 DEF Recorded, Rec
      <4>2. u \in Rec
        <5> DEFINE w == Recorded(r)
        <5> HIDE DEF w
        <5> QED
          BY <4>1 DEF Rec, w
      <4> QED
        BY <1>1, <4>1, <4>2 DEF Recorded, Rec, Same
    <3> HIDE DEF u, r
    <3>3. Fine(q) /\ q.ids = u.ids /\ q.gen = u.gen
      <4>1. CASE r.res = "ok"
        BY <1>1, <2>1, <2>6, <3>2, <4>1, OkFine
      <4>2. CASE r.res # "ok"
        <5>1. Fine(r) /\ HandleInv(r, disk, content, gone, changes, style) /\ "err" \in Results
          BY <1>1 DEF Fine, Results
        <5> DEFINE v == Returns(u, "err")
        <5>2. /\ v \in Rec /\ v.pc = "idle" /\ v.read = {} /\ v.res = "err"
              /\ Same(v, u) /\ v.ids = u.ids /\ v.gen = u.gen
          BY <3>2, <5>1, ReturnsFields
        <5>3. q = v
          BY <4>2
        <5> HIDE DEF v, q
        <5>4. Same(v, r) /\ UseInv(v) /\ v.pc \in Opened \ {"comparing"} /\ v.pc # "adapter"
          BY <3>2, <5>2 DEF Same, UseInv, Opened
        <5>5. Fine(v)
          BY <1>1, <2>1, <5>2, <5>4, UsedHandle
        <5> QED
          BY <5>2, <5>3, <5>5
      <4> QED
        BY <4>1, <4>2
    <3> HIDE DEF q
    <3> QED
      BY <3>1, <3>2, <3>3, HandleStep DEF KeepsIds, r
  <2> QED
    BY <2>2, <2>3, <2>4, <2>5, <2>6
<1> QED
  BY <1>3, <1>4

LEMMA OpenSessionSteps ==
  ASSUME IInv, NEW h \in Handles
  PROVE  /\ OpenSession(h) => IInv'
         /\ OpenSessionFails(h) => IInv'
<1> DEFINE r == hs[h]
<1>1. /\ r \in Rec /\ Fine(r) /\ "factory" \in Opened /\ "err" \in Results
      /\ HandleInv(r, disk, content, gone, changes, style) /\ r.fd \in [Files -> Inodes]
      /\ disk \in [Files -> Inodes]
  BY HandleFacts, RecFields DEF Opened, Results, Fine
<1>2. ASSUME OpenSessionFails(h) PROVE IInv'
  <2>1. r.pc \in Opened /\ Goes(h, Poisoned(r))
    BY <1>1, <1>2 DEF OpenSessionFails
  <2> QED
    BY <1>1, <2>1, PoisonedFine, HandleStep
<1>3. ASSUME OpenSession(h) PROVE IInv'
  <2>1. r.pc = "factory" /\ r.pc \in Opened
    BY <1>1, <1>3 DEF OpenSession
  <2>2. CASE OpensNow /\ \E f \in SourcePaths : disk[f] = Missing
    <3>1. Goes(h, Returns(r, "err"))
      BY <1>3, <2>2 DEF OpenSession
    <3> QED
      BY <1>1, <2>1, <3>1, ReturnsFine, HandleStep
  <2>3. CASE ~ (OpensNow /\ \E f \in SourcePaths : disk[f] = Missing)
    <3> DEFINE d == IF OpensNow THEN disk ELSE r.fd
               q == [r EXCEPT !.pc = "adapter", !.session = TRUE, !.fd = d]
    <3>1. Goes(h, q)
      BY <1>3, <2>3 DEF OpenSession
    <3>2. d \in [Files -> Inodes]
      BY <1>1
    <3>3. /\ q \in Rec /\ q.pc = "adapter" /\ q.session /\ q.read = r.read /\ q.ids = r.ids
          /\ q.gen = r.gen /\ q.fp = r.fp /\ q.related = r.related /\ q.payload = r.payload
          /\ q.fd = d
      <4> HIDE DEF r, d
      <4> QED
        BY <1>1, <3>2 DEF Rec, PCs
    <3> HIDE DEF q
    <3>4. /\ \A f : Lost(q, f, disk, content) <=> Lost(r, f, disk, content)
          /\ \A f, v : Own(q, f, v) <=> Own(r, f, v)
          /\ Scope(q, style) = Scope(r, style)
      BY <3>3 DEF Lost, Own, Scope
    <3>5. SessionInv(q, disk, content, style)
      <4>1. ASSUME style \in {"retained", "volumes"}, NEW f \in Paths(style), ~ Lost(q, f, disk, content)
            PROVE  q.fd[f] = q.fp[f][1] /\ q.fd[f] # Missing
        <5>1. q.fd = disk /\ f \in SourcePaths
          BY <3>3, <4>1, SourcePathsAre DEF OpensNow
        <5>2. disk[f] # Missing
          BY <2>3, <4>1, <5>1 DEF OpensNow
        <5> QED
          BY <4>1, <5>1, <5>2 DEF Lost
      <4>2. SessionInv(r, disk, content, style)
        BY <1>1 DEF HandleInv
      <4> HIDE DEF r, d
      <4> QED
        BY <3>3, <3>4, <4>1, <4>2 DEF SessionInv
    <3>6. ReadInv(q, disk, content, style)
      BY <1>1, <3>3, <3>4 DEF HandleInv, ReadInv
    <3>7. CompareInv(q, disk, content, style) /\ OkInv(q) /\ UseInv(q) /\ q.pc \in Opened
      BY <3>3 DEF CompareInv, OkInv, UseInv, Opened
    <3>8. Fine(q)
      BY <1>1, <2>1, <3>3, <3>5, <3>6, <3>7, OpenFine
    <3> QED
      BY <3>1, <3>3, <3>8, HandleStep DEF KeepsIds
  <2> QED
    BY <2>2, <2>3
<1> QED
  BY <1>2, <1>3

\* Whatever the adapter reads is the opened file's, or the file is lost.
LEMMA AdapterReadsStep ==
  ASSUME IInv, NEW h \in Handles, NEW g \in Files, AdapterReads(h, g)
  PROVE  IInv'
<1> DEFINE r == hs[h]
           v == Passed(r, g)
           p == IF style = "decoded" THEN v ELSE r.payload
           q == [r EXCEPT !.read = @ \cup {<<g, v>>}, !.payload = p]
<1>1. /\ r \in Rec /\ Fine(r) /\ r.pc = "adapter" /\ r.pc \in Opened
      /\ HandleInv(r, disk, content, gone, changes, style)
      /\ g \in Scope(r, style) /\ style \in Style
      /\ OpensNow \/ disk[g] # Missing \/ (style = "decoded" /\ r.payload # 0)
  BY HandleFacts, SourcePathsAre DEF AdapterReads, Opened, Fine
<1>2. Goes(h, q)
  BY DEF AdapterReads
<1>3. /\ r.fd \in [Files -> Inodes] /\ r.payload \in Versions
      /\ disk \in [Files -> Inodes] /\ content \in [Inodes -> Versions]
      /\ r.read \in SUBSET (Files \X Versions)
  BY <1>1, HandleFacts, RecFields
<1>4. SessionInv(r, disk, content, style) /\ r.session /\ RelatedInv(r, style)
  BY <1>1 DEF HandleInv, SessionInv
<1>5. style # "fresh" => g \in Paths(style)
  BY <1>1, <1>4 DEF RelatedInv, Scope
<1>6. v \in Versions /\ (Lost(r, g, disk, content) \/ Own(r, g, v))
  <2>1. CASE OpensNow
    <3>1. v = content[r.fd[g]] /\ style \in {"retained", "volumes"} /\ g \in Paths(style)
      BY <1>5, <2>1 DEF Passed, OpensNow
    <3>2. Lost(r, g, disk, content) \/ (r.fd[g] = r.fp[g][1] /\ r.fd[g] # Missing)
      BY <1>4, <3>1 DEF SessionInv
    <3> HIDE DEF v, r
    <3> QED
      BY <1>3, <3>1, <3>2 DEF Lost, Own
  <2>2. CASE ~ OpensNow /\ style = "decoded" /\ r.payload # 0
    <3>1. v = r.payload /\ g = Primary
      BY <1>5, <2>2 DEF Passed, Paths
    <3> QED
      BY <1>3, <1>4, <2>2, <3>1 DEF SessionInv
  <2>3. CASE ~ OpensNow /\ ~(style = "decoded" /\ r.payload # 0)
    <3>1. v = content[disk[g]] /\ disk[g] # Missing
      BY <1>1, <2>3 DEF Passed
    <3> HIDE DEF v, r
    <3> QED
      BY <1>3, <3>1 DEF Lost, Own
  <2> QED
    BY <2>1, <2>2, <2>3
<1>7. /\ q \in Rec /\ q.pc = "adapter" /\ (q.session <=> r.session) /\ q.ids = r.ids
      /\ q.gen = r.gen /\ q.fp = r.fp /\ q.related = r.related /\ q.payload = p
      /\ q.fd = r.fd /\ q.read = r.read \cup {<<g, v>>}
  <2>1. p \in Versions /\ r.read \cup {<<g, v>>} \in SUBSET (Files \X Versions)
    BY <1>3, <1>6
  <2> HIDE DEF r, v, p
  <2> QED
    BY <1>1, <2>1 DEF Rec
<1> HIDE DEF q, r, v
<1>8. /\ \A f : Lost(q, f, disk, content) <=> Lost(r, f, disk, content)
      /\ \A f, w : Own(q, f, w) <=> Own(r, f, w)
      /\ Scope(q, style) = Scope(r, style)
  BY <1>7 DEF Lost, Own, Scope
<1>9. SessionInv(q, disk, content, style)
  <2>1. style = "decoded" => g = Primary
    BY <1>5 DEF Paths
  <2> QED
    BY <1>4, <1>6, <1>7, <1>8, <2>1 DEF SessionInv
<1>10. ReadInv(q, disk, content, style)
  <2>1. ReadInv(r, disk, content, style)
    BY <1>1 DEF HandleInv
  <2> SUFFICES ASSUME NEW f \in Files, NEW w \in Versions, <<f, w>> \in q.read
               PROVE  f \in Scope(q, style) /\ (Lost(q, f, disk, content) \/ Own(q, f, w))
    BY DEF ReadInv
  <2>2. CASE <<f, w>> \in r.read
    BY <1>8, <2>1, <2>2 DEF ReadInv
  <2>3. CASE <<f, w>> \notin r.read
    <3>1. f = g /\ w = v
      BY <1>7, <2>3
    <3> QED
      BY <1>1, <1>6, <1>8, <3>1
  <2> QED
    BY <2>2, <2>3
<1>11. CompareInv(q, disk, content, style) /\ OkInv(q) /\ UseInv(q) /\ q.pc \in Opened
  BY <1>7 DEF CompareInv, OkInv, UseInv, Opened
<1>12. Fine(q)
  BY <1>1, <1>7, <1>9, <1>10, <1>11, OpenFine
<1> QED
  BY <1>2, <1>7, <1>12, HandleStep DEF KeepsIds, r
-----------------------------------------------------------------------------
\* ArchiveEngine::open, and a handle before and after its life.
LEMMA UnopenedFine ==
  ASSUME changes \in Nat, NEW q \in Rec, q.pc \in {"closed", "opening"}, q.related = {}, q.read = {},
         q.payload = 0, ~ q.session, ~ q.unusable, q.fp = [f \in Files |-> <<Missing, 0>>]
  PROVE  Fine(q)
<1>1. q.pc \notin Opened /\ q.pc # "measuring" /\ q.pc # "capturing" /\ q.pc # "comparing"
      /\ q.pc # "idle" /\ q.pc # "adapter" /\ q.pc # "factory" /\ q.pc # "validating"
  BY DEF Opened
<1>2. \A f \in Files : q.fp[f][1] = 0 /\ q.fp[f][2] = 0
  BY DEF Missing
<1>3. RelatedInv(q, style) /\ FingerprintInv(q, gone, changes, style)
  BY <1>1, <1>2 DEF RelatedInv, FingerprintInv, Fingerprinted
<1>4. MeasureInv(q, disk, content, style) /\ SizeInv(q, disk, content, style)
  BY <1>1 DEF MeasureInv, SizeInv
<1>5. SessionInv(q, disk, content, style) /\ ReadInv(q, disk, content, style)
  BY <1>1 DEF SessionInv, ReadInv
<1>6. CompareInv(q, disk, content, style) /\ OkInv(q) /\ NewInv(q) /\ UseInv(q)
  BY <1>1 DEF CompareInv, OkInv, NewInv, UseInv
<1> QED
  BY <1>3, <1>4, <1>5, <1>6 DEF Fine, HandleInv

LEMMA ClosedFine ==
  ASSUME changes \in Nat
  PROVE  /\ Fine(Closed) /\ Fine(NotOpened)
         /\ \A r : KeepsIds(Closed, r) /\ KeepsIds(NotOpened, r)
  BY ClosedFields, UnopenedFine DEF KeepsIds

\* A handle that is being opened, before it has read anything.
LEMMA OpeningFine ==
  ASSUME NEW q \in Rec, q.pc \in {"capturing", "measuring"}, RelatedInv(q, style),
         FingerprintInv(q, gone, changes, style), MeasureInv(q, disk, content, style),
         q.read = {}, ~ q.session, q.payload = 0, ~ q.unusable
  PROVE  Fine(q)
<1>1. q.pc \notin Opened /\ q.pc # "comparing" /\ q.pc \notin {"closed", "opening"}
      /\ q.pc # "idle" /\ q.pc # "adapter" /\ q.pc # "factory" /\ q.pc # "validating"
  BY DEF Opened
<1>2. SizeInv(q, disk, content, style) /\ SessionInv(q, disk, content, style)
  BY <1>1 DEF SizeInv, SessionInv
<1>3. /\ ReadInv(q, disk, content, style) /\ CompareInv(q, disk, content, style)
      /\ OkInv(q) /\ NewInv(q) /\ UseInv(q)
  BY <1>1 DEF ReadInv, CompareInv, OkInv, NewInv, UseInv
<1> QED
  BY <1>2, <1>3 DEF Fine, HandleInv

LEMMA OpenCloseSteps ==
  ASSUME IInv, NEW h \in Handles
  PROVE  /\ Open(h) => IInv'
         /\ Close(h) => IInv'
<1>1. changes \in Nat /\ calls \in Nat
  BY HandleFacts, HandleAssumption DEF IInv, BaseInv
<1>2. ASSUME Close(h) PROVE IInv'
  BY <1>1, <1>2, ClosedFine, HandleStep DEF Close
<1>3. ASSUME Open(h) PROVE IInv'
  <2> DEFINE q == [Closed EXCEPT !.pc = "opening", !.gen = calls]
  <2>1. Calls(h, q) \/ Calls(h, NotOpened)
    BY <1>3 DEF Open
  <2>2. CASE Calls(h, NotOpened)
    BY <1>1, <2>2, ClosedFine, HandleStep
  <2>3. CASE Calls(h, q)
    <3>1. /\ q \in Rec /\ q.pc = "opening" /\ q.ids = {} /\ q.related = {} /\ q.read = {}
          /\ q.payload = 0 /\ ~ q.session /\ ~ q.unusable
          /\ q.fp = [f \in Files |-> <<Missing, 0>>]
      <4>1. Closed \in Rec /\ "opening" \in PCs
        BY ClosedFields DEF PCs
      <4>2. /\ Closed.ids = {} /\ Closed.related = {} /\ Closed.read = {}
            /\ Closed.payload = 0 /\ ~ Closed.session /\ ~ Closed.unusable
            /\ Closed.fp = [f \in Files |-> <<Missing, 0>>]
        BY ClosedFields
      <4>3. q \in Rec
        BY <1>1, <4>1 DEF Rec
      <4> QED
        BY <4>1, <4>2, <4>3 DEF Rec
    <3> HIDE DEF q
    <3>2. Fine(q) /\ KeepsIds(q, hs[h])
      BY <1>1, <3>1, UnopenedFine DEF KeepsIds
    <3> QED
      BY <2>3, <3>2, HandleStep
  <2> QED
    BY <2>1, <2>2, <2>3
<1> QED
  BY <1>2, <1>3

\* What a handle that is being opened has not got yet.
Unused(q) == q.read = {} /\ ~ q.session /\ q.payload = 0 /\ ~ q.unusable

LEMMA OpenDiscoversStep ==
  ASSUME IInv, NEW h \in Handles, OpenDiscovers(h)
  PROVE  IInv'
<1> DEFINE r == hs[h]
           T == SourcePaths \cup DiscoverRelated
           q == [r EXCEPT !.pc = "capturing", !.related = DiscoverRelated, !.todo = T]
<1>1. r \in Rec /\ Fine(r) /\ r.pc = "opening" /\ Unused(r)
      /\ FingerprintInv(r, gone, changes, style)
  BY HandleFacts DEF OpenDiscovers, Fine, HandleInv, NewInv, Unused, Opened
<1>2. DiscoverRelated \in SUBSET Files /\ T \in SUBSET Files
  BY Bounds, SourcePathsAre DEF DiscoverRelated
<1>3. Goes(h, q)
  BY DEF OpenDiscovers
<1>4. /\ q \in Rec /\ q.pc = "capturing" /\ q.related = DiscoverRelated /\ q.todo = T /\ Unused(q)
      /\ q.fp = r.fp /\ q.ids = r.ids /\ q.gen = r.gen
  <2> HIDE DEF r, T
  <2> QED
    BY <1>1, <1>2 DEF Rec, PCs, Unused
<1> HIDE DEF q, r
<1>5. q.todo = Scope(q, style)
  BY <1>4, SourcePathsAre DEF Scope
<1>6. RelatedInv(q, style) /\ MeasureInv(q, disk, content, style)
  BY <1>4 DEF RelatedInv, MeasureInv, DiscoverRelated
<1>7. FingerprintInv(q, gone, changes, style)
  BY <1>1, <1>4, <1>5 DEF FingerprintInv, Fingerprinted, Opened
<1>8. Fine(q)
  BY <1>4, <1>6, <1>7, OpeningFine DEF Unused
<1> QED
  BY <1>3, <1>4, <1>8, HandleStep DEF KeepsIds, r

LEMMA OpenFingerprintsStep ==
  ASSUME IInv, NEW h \in Handles, NEW g \in Files, OpenFingerprints(h, g)
  PROVE  IInv'
<1> DEFINE r == hs[h]
           x == SourceFileFingerprint(g)
           q == [r EXCEPT !.todo = @ \ {g}, !.fp[g] = x]
<1>1. /\ r \in Rec /\ Fine(r) /\ r.pc = "capturing" /\ Unused(r) /\ g \in r.todo
      /\ FingerprintInv(r, gone, changes, style) /\ RelatedInv(r, style)
      /\ r.todo \in SUBSET Files /\ r.fp \in [Files -> Inodes \X Versions]
  BY HandleFacts, RecFields DEF OpenFingerprints, Fine, HandleInv, NewInv, Unused, Opened
<1>2. Goes(h, q)
  BY DEF OpenFingerprints
<1>3. /\ x \in Inodes \X Versions /\ x[1] = disk[g] /\ x[1] <= changes + 2 /\ x[2] <= changes + 2
      /\ disk[g] = Missing => g \in gone
  BY HandleFacts DEF SourceFileFingerprint, IInv, SourceInv
<1> DEFINE F == [r.fp EXCEPT ![g] = x]
<1>4. F \in [Files -> Inodes \X Versions] /\ \A f \in Files : F[f] = IF f = g THEN x ELSE r.fp[f]
  BY <1>1, <1>3
<1>5. /\ q \in Rec /\ q.pc = "capturing" /\ q.related = r.related /\ q.todo = r.todo \ {g} /\ Unused(q)
      /\ q.fp = F /\ q.ids = r.ids /\ q.gen = r.gen
  <2> HIDE DEF r, x
  <2>1. q = [r EXCEPT !.todo = r.todo \ {g}, !.fp = F]
    BY <1>1 DEF Rec
  <2> HIDE DEF q, F
  <2>2. q \in Rec
    BY <1>1, <1>4, <2>1 DEF Rec
  <2> QED
    BY <1>1, <2>1, <2>2 DEF Rec, Unused
<1> HIDE DEF q, r, x, F
<1>6. RelatedInv(q, style) /\ MeasureInv(q, disk, content, style)
  BY <1>1, <1>5 DEF RelatedInv, MeasureInv
<1>7. FingerprintInv(q, gone, changes, style)
  <2>1. \A f \in Files : q.fp[f][1] <= changes + 2 /\ q.fp[f][2] <= changes + 2
    BY <1>1, <1>3, <1>4, <1>5 DEF FingerprintInv
  <2>2. ASSUME NEW f \in Scope(q, style), Fingerprinted(q, f), q.fp[f][1] = Missing
        PROVE  f \in gone
    <3>1. f \in Files /\ f \in Scope(r, style)
      BY <1>5, RecFields DEF Scope
    <3>2. CASE f = g
      BY <1>3, <1>4, <1>5, <2>2, <3>1, <3>2
    <3>3. CASE f # g
      <4>1. Fingerprinted(r, f) /\ r.fp[f][1] = Missing
        BY <1>1, <1>4, <1>5, <2>2, <3>1, <3>3 DEF Fingerprinted, Opened
      <4> QED
        BY <1>1, <3>1, <4>1 DEF FingerprintInv
    <3> QED
      BY <3>2, <3>3
  <2> QED
    BY <2>1, <2>2 DEF FingerprintInv
<1>8. Fine(q)
  BY <1>5, <1>6, <1>7, OpeningFine DEF Unused
<1> QED
  BY <1>2, <1>5, <1>8, HandleStep DEF KeepsIds, r

LEMMA OpenCapturedStep ==
  ASSUME IInv, NEW h \in Handles, OpenCaptured(h)
  PROVE  IInv'
<1> DEFINE r == hs[h]
           T == SourcePaths \cup r.related
           q == [r EXCEPT !.pc = "measuring", !.todo = T]
<1>1. /\ r \in Rec /\ Fine(r) /\ r.pc = "capturing" /\ Unused(r) /\ r.todo = {} /\ changes \in Nat
      /\ FingerprintInv(r, gone, changes, style) /\ RelatedInv(r, style)
  BY HandleFacts DEF OpenCaptured, Fine, HandleInv, NewInv, Unused, Opened
<1>2. CASE style = "volumes" /\ \E f \in Files : disk[f] = Missing
  <2>1. Goes(h, NotOpened)
    BY <1>2 DEF OpenCaptured
  <2> QED
    BY <1>1, <2>1, ClosedFine, HandleStep
<1>3. CASE ~ (style = "volumes" /\ \E f \in Files : disk[f] = Missing)
  <2>1. Goes(h, q)
    BY <1>3 DEF OpenCaptured
  <2>2. T \in SUBSET Files /\ T = Scope(r, style)
    BY <1>1, RecFields, SourcePathsAre
  <2>3. /\ q \in Rec /\ q.pc = "measuring" /\ q.related = r.related /\ q.todo = T /\ Unused(q)
        /\ q.fp = r.fp /\ q.ids = r.ids /\ q.gen = r.gen
    <3> HIDE DEF r, T
    <3> QED
      BY <1>1, <2>2 DEF Rec, PCs, Unused
  <2> HIDE DEF q, r, T
  <2>4. Scope(q, style) = Scope(r, style)
    BY <2>3 DEF Scope
  <2>5. RelatedInv(q, style) /\ MeasureInv(q, disk, content, style)
    BY <1>1, <1>3, <2>2, <2>3, <2>4 DEF RelatedInv, MeasureInv
  <2>6. FingerprintInv(q, gone, changes, style)
    BY <1>1, <2>3, <2>4 DEF FingerprintInv, Fingerprinted
  <2>7. Fine(q)
    BY <2>3, <2>5, <2>6, OpeningFine DEF Unused
  <2> QED
    BY <2>1, <2>3, <2>7, HandleStep DEF KeepsIds, r
<1> QED
  BY <1>2, <1>3

\* The length of a file counts only when the file is the one fingerprinted;
\* a file that is missing ends the measurement without a limit, and is lost,
\* or was never there.
LEMMA OpenMeasuresStep ==
  ASSUME IInv, NEW h \in Handles, NEW g \in Files, OpenMeasures(h, g)
  PROVE  IInv'
<1> DEFINE r == hs[h]
<1>1. /\ r \in Rec /\ Fine(r) /\ r.pc = "measuring" /\ Unused(r) /\ g \in r.todo
      /\ r.todo \in SUBSET Files
      /\ FingerprintInv(r, gone, changes, style) /\ RelatedInv(r, style)
      /\ MeasureInv(r, disk, content, style) /\ g \in Scope(r, style)
  BY HandleFacts, RecFields DEF OpenMeasures, Fine, HandleInv, NewInv, MeasureInv, Unused, Opened
<1>2. ASSUME NEW q \in Rec, q.pc = "measuring", q.related = r.related, Unused(q), q.fp = r.fp,
             q.ids = r.ids, q.gen = r.gen, q.todo \subseteq r.todo, Goes(h, q),
             q.same => Bad(r, disk, content, style) \/ \A f \in Scope(r, style) \ q.todo : Fits(r, f)
      PROVE  IInv'
  <2> HIDE DEF r
  <2>1. /\ Scope(q, style) = Scope(r, style)
        /\ Bad(q, disk, content, style) <=> Bad(r, disk, content, style)
        /\ \A f : Fits(q, f) <=> Fits(r, f)
    BY <1>2 DEF Scope, Bad, Lost, Never, Fits
  <2>2. RelatedInv(q, style) /\ FingerprintInv(q, gone, changes, style)
    BY <1>1, <1>2, <2>1 DEF RelatedInv, FingerprintInv, Fingerprinted
  <2>3. MeasureInv(q, disk, content, style)
    BY <1>1, <1>2, <2>1 DEF MeasureInv
  <2>4. Fine(q)
    BY <1>2, <2>2, <2>3, OpeningFine DEF Unused
  <2> QED
    BY <1>2, <2>4, HandleStep DEF KeepsIds, r
<1>3. CASE disk[g] = Missing /\ ~ LogicalBase(h, g)
  <2> DEFINE q == [r EXCEPT !.todo = {}, !.same = TRUE]
  <2>1. Goes(h, q)
    BY <1>3 DEF OpenMeasures
  <2>2. /\ q \in Rec /\ q.pc = "measuring" /\ q.related = r.related /\ Unused(q) /\ q.fp = r.fp
        /\ q.ids = r.ids /\ q.gen = r.gen /\ q.todo = {}
    <3> HIDE DEF r
    <3> QED
      BY <1>1 DEF Rec, Unused
  <2>3. Bad(r, disk, content, style) \/ \A f \in Scope(r, style) : Fits(r, f)
    <3>1. CASE r.fp[g][1] # Missing \/ g \in r.related
      BY <1>1, <1>3, <3>1 DEF Bad, Lost, Never
    <3>2. CASE r.fp[g][1] = Missing /\ g \notin r.related
      <4>1. style # "volumes"
        BY <1>1, <1>3, <3>2 DEF MeasureInv
      <4>2. g = Primary
        BY <1>1, <3>2, <4>1 DEF Scope, Paths
      <4>3. r.related = {}
        BY <1>3, <4>1, <4>2 DEF LogicalBase
      <4>4. Scope(r, style) = {g}
        BY <4>1, <4>2, <4>3 DEF Scope, Paths
      <4> QED
        BY <3>2, <4>4 DEF Fits
    <3> QED
      BY <3>1, <3>2
  <2> HIDE DEF q, r
  <2> QED
    BY <1>2, <2>1, <2>2, <2>3
<1>4. CASE ~ (disk[g] = Missing /\ ~ LogicalBase(h, g))
  <2> DEFINE small == ~ TooLarge(g)
             q == [r EXCEPT !.todo = @ \ {g}, !.same = @ /\ small]
  <2>1. Goes(h, q)
    BY <1>4 DEF OpenMeasures
  <2>2. /\ q \in Rec /\ q.pc = "measuring" /\ q.related = r.related /\ Unused(q) /\ q.fp = r.fp
        /\ q.ids = r.ids /\ q.gen = r.gen /\ q.todo = r.todo \ {g}
    <3> HIDE DEF r, small
    <3>1. r.todo \ {g} \in SUBSET Files /\ (r.same /\ small) \in BOOLEAN
      BY <1>1
    <3>2. q = [r EXCEPT !.todo = r.todo \ {g}, !.same = r.same /\ small]
      BY <1>1 DEF Rec
    <3> HIDE DEF q
    <3>3. q \in Rec
      BY <1>1, <3>1, <3>2 DEF Rec
    <3> QED
      BY <1>1, <3>2, <3>3 DEF Rec, Unused
  <2>3. q.same => r.same /\ small
    <3> HIDE DEF r, small
    <3> QED
      BY <1>1 DEF Rec
  <2>4. small => Lost(r, g, disk, content) \/ Fits(r, g)
    BY DEF TooLarge, Lost, Fits
  <2> HIDE DEF q, r, small
  <2>5. q.same => Bad(r, disk, content, style) \/ \A f \in Scope(r, style) \ q.todo : Fits(r, f)
    BY <1>1, <2>2, <2>3, <2>4 DEF MeasureInv, Bad
  <2> QED
    BY <1>2, <2>1, <2>2, <2>5
<1> QED
  BY <1>3, <1>4

LEMMA OpenDoneStep ==
  ASSUME IInv, NEW h \in Handles, OpenDone(h)
  PROVE  IInv'
<1> DEFINE r == hs[h]
           q == [r EXCEPT !.pc = "idle", !.res = "opened"]
<1>1. /\ r \in Rec /\ Fine(r) /\ r.pc = "measuring" /\ Unused(r) /\ r.todo = {} /\ changes \in Nat
      /\ FingerprintInv(r, gone, changes, style) /\ RelatedInv(r, style)
      /\ MeasureInv(r, disk, content, style)
  BY HandleFacts DEF OpenDone, Fine, HandleInv, NewInv, Unused, Opened
<1>2. CASE ~ r.same
  <2>1. Goes(h, NotOpened)
    BY <1>2 DEF OpenDone
  <2> QED
    BY <1>1, <2>1, ClosedFine, HandleStep
<1>3. CASE r.same
  <2>1. Goes(h, q)
    BY <1>3 DEF OpenDone
  <2>2. /\ q \in Rec /\ q.pc = "idle" /\ q.res = "opened" /\ q.related = r.related /\ Unused(q)
        /\ q.fp = r.fp /\ q.ids = r.ids /\ q.gen = r.gen
    <3> HIDE DEF r
    <3> QED
      BY <1>1 DEF Rec, PCs, Results, Unused
  <2> HIDE DEF q, r
  <2>3. /\ Scope(q, style) = Scope(r, style)
        /\ Bad(q, disk, content, style) <=> Bad(r, disk, content, style)
        /\ \A f : Fits(q, f) <=> Fits(r, f)
    BY <2>2 DEF Scope, Bad, Lost, Never, Fits
  <2>4. RelatedInv(q, style) /\ FingerprintInv(q, gone, changes, style)
    BY <1>1, <2>2, <2>3 DEF RelatedInv, FingerprintInv, Fingerprinted
  <2>5. SizeInv(q, disk, content, style)
    BY <1>1, <1>3, <2>3 DEF MeasureInv, SizeInv
  <2>6. MeasureInv(q, disk, content, style) /\ CompareInv(q, disk, content, style)
        /\ OkInv(q) /\ NewInv(q) /\ UseInv(q)
    BY <2>2 DEF MeasureInv, CompareInv, OkInv, NewInv, UseInv, Opened
  <2>7. SessionInv(q, disk, content, style) /\ ReadInv(q, disk, content, style)
    BY <2>2 DEF SessionInv, ReadInv, Unused
  <2>8. Fine(q)
    BY <2>2, <2>4, <2>5, <2>6, <2>7 DEF Fine, HandleInv
  <2> QED
    BY <2>1, <2>2, <2>8, HandleStep DEF KeepsIds, r
<1> QED
  BY <1>2, <1>3
-----------------------------------------------------------------------------
LEMMA InitInv == Init => IInv
<1> SUFFICES ASSUME Init PROVE IInv
  OBVIOUS
<1>1. /\ changes = 0 /\ changes \in Nat /\ \A h \in Handles : hs[h] = Closed
      /\ {0, 1, 2} \subseteq Inodes /\ {0, 1, 2} \subseteq Versions
  BY HandleAssumption DEF Init, Inodes, Versions
<1>2. BaseInv
  <2>1. disk \in [Files -> Inodes]
    BY <1>1 DEF Init, Missing
  <2>2. content \in [Inodes -> Versions]
    BY <1>1 DEF Init
  <2> QED
    BY <1>1, <2>1, <2>2, HandleAssumption, ClosedFields DEF Init, BaseInv
<1>3. SourceInv
  BY <1>1 DEF Init, SourceInv, Missing
<1>4. IdInv
  BY <1>1, ClosedFields DEF Init, IdInv
<1>5. \A h \in Handles : HandleInv(hs[h], disk, content, gone, changes, style)
  BY <1>1, ClosedFine DEF Fine
<1> QED
  BY <1>2, <1>3, <1>4, <1>5 DEF IInv

LEMMA InvStep == IInv /\ [Next]_vars => IInv'
<1> SUFFICES ASSUME IInv, [Next]_vars PROVE IInv'
  OBVIOUS
<1>1. CASE UNCHANGED vars
  BY <1>1 DEF vars, IInv, BaseInv, SourceInv, IdInv
<1>2. ASSUME NEW f \in Files, Replace(f) \/ Rewrite(f) \/ Remove(f) PROVE IInv'
  <2>1. BaseInv /\ SourceInv
    BY DEF IInv
  <2>2. BaseInv' /\ SourceInv' /\ Changed
    BY <1>2, <2>1, SourceChanges
  <2>3. style' = style /\ hs' = hs /\ nextId' = nextId /\ minted' = minted
    BY <2>2 DEF Changed
  <2>4. IdInv'
    BY <2>3 DEF IInv, IdInv
  <2>5. ASSUME NEW h \in Handles
        PROVE  HandleInv(hs'[h], disk', content', gone', changes', style')
    <3>1. hs[h] \in Rec /\ HandleInv(hs[h], disk, content, gone, changes, style)
      BY DEF IInv, BaseInv
    <3>2. HandleInv(hs[h], disk', content', gone', changes', style)
      BY <2>1, <2>2, <3>1, SourceKeepsHandle
    <3> QED
      BY <2>3, <3>2
  <2> QED
    BY <2>2, <2>4, <2>5 DEF IInv
<1>3. ASSUME NEW h \in Handles, Operation(h) PROVE IInv'
  <2>1. CASE Open(h) \/ Close(h)
    BY <2>1, OpenCloseSteps
  <2>2. CASE OpenDiscovers(h)
    BY <2>2, OpenDiscoversStep
  <2>3. CASE OpenCaptured(h)
    BY <2>3, OpenCapturedStep
  <2>4. CASE OpenDone(h)
    BY <2>4, OpenDoneStep
  <2>5. CASE ValidateDiscovers(h)
    BY <2>5, ValidateDiscoversStep
  <2>6. CASE ValidateFails(h) \/ ValidateDone(h)
    BY <2>6, ValidateEndSteps
  <2>7. ASSUME NEW f \in Files, OpenFingerprints(h, f) PROVE IInv'
    BY <2>7, OpenFingerprintsStep
  <2>8. ASSUME NEW f \in Files, OpenMeasures(h, f) PROVE IInv'
    BY <2>8, OpenMeasuresStep
  <2>9. ASSUME NEW f \in Files, ValidateFingerprints(h, f) PROVE IInv'
    BY <2>9, ValidateFingerprintsStep
  <2>10. ASSUME NEW f \in Files, AdapterReads(h, f) PROVE IInv'
    BY <2>10, AdapterReadsStep
  <2>11. CASE List(h) \/ (\E op \in Operations, refused \in BOOLEAN : Whole(h, op, refused))
              \/ (\E op \in Operations, id \in 1..nextId : Selected(h, op, id))
    BY <2>11, CallSteps
  <2>12. CASE OpenSession(h) \/ OpenSessionFails(h)
    BY <2>12, OpenSessionSteps
  <2>13. CASE AdapterSucceeds(h) \/ \E res \in {"usable", "unusable"} : AdapterFails(h, res)
    BY <2>13, AdapterSteps
  <2>14. CASE \E n \in 0..1, duplicate \in BOOLEAN : AdapterLists(h, n, duplicate)
    BY <2>14, ListsStep
  <2> QED
    BY <1>3, <2>1, <2>2, <2>3, <2>4, <2>5, <2>6, <2>7, <2>8, <2>9, <2>10, <2>11, <2>12, <2>13,
       <2>14 DEF Operation
<1> QED
  BY <1>1, <1>2, <1>3 DEF Next

\* The inductive invariant holds in every state of every run of the engine.
THEOREM Invariance == Spec => []IInv
  BY InitInv, InvStep, PTL DEF Spec

\* Whatever handles are opened and used and however the source changes, every
\* variable keeps its shape, and a handle holds no entry id that the counter
\* NEXT_ENGINE_ENTRY_ID has not passed.
THEOREM HandleTypeCorrect == Spec => []TypeOK
<1>1. IInv => TypeOK
  <2> SUFFICES ASSUME IInv PROVE TypeOK
    OBVIOUS
  <2>1. ASSUME NEW h \in Handles
        PROVE  hs[h].pc \in PCs /\ hs[h].res \in Results /\ hs[h].ids \subseteq 1..(nextId - 1)
    <3>1. hs[h].pc \in PCs /\ hs[h].res \in Results /\ hs[h].ids \subseteq Nat
      BY HandleFacts, RecFields
    <3>2. nextId \in Nat /\ \A id \in hs[h].ids : id < nextId /\ id > 0
      BY DEF IInv, BaseInv, IdInv
    <3> QED
      BY <3>1, <3>2
  <2>2. \A h \in Handles : hs[h].unusable \in BOOLEAN
    BY DEF IInv, BaseInv, Rec
  <2> QED
    BY <2>1, <2>2 DEF IInv, BaseInv, TypeOK, PCs, Results
<1> QED
  BY <1>1, Invariance, PTL

\* The validation after the adapter has run is enough: an operation that
\* succeeds has read nothing but the files that were fingerprinted when the
\* archive was opened, and none of them exceeds the source limit, although
\* open measures the files after it has taken their fingerprints and the
\* adapter may read a descriptor, or a payload, of an earlier call.
THEOREM ReadsAreOfTheOpenedSource == Spec => []OkReadsOpenedSource
<1>1. IInv => OkReadsOpenedSource
  <2> SUFFICES ASSUME IInv, NEW h \in Handles, Finished(h), NEW x \in hs[h].read
               PROVE  hs[h].fp[x[1]][2] = x[2] /\ x[2] \notin Oversized
    BY DEF OkReadsOpenedSource
  <2>1. hs[h].read \in SUBSET (Files \X Versions) /\ OkInv(hs[h])
    BY HandleFacts, RecFields DEF Fine, HandleInv
  <2>2. x[1] \in Files /\ x[2] \in Versions /\ <<x[1], x[2]>> \in hs[h].read
    BY <2>1
  <2>3. Own(hs[h], x[1], x[2]) /\ Fits(hs[h], x[1])
    BY <2>1, <2>2 DEF OkInv, Finished
  <2> QED
    BY <2>3 DEF Own, Fits
<1> QED
  BY <1>1, Invariance, PTL

\* Entry ids of the process-wide counter never meet: an id selects an entry on
\* the handle, opened that time, whose listing gave it out and on no other.
THEOREM IdsSelectOneSession == Spec => []IdsAreSessionScoped
<1>1. IInv => IdsAreSessionScoped
  BY DEF IInv, IdInv, IdsAreSessionScoped
<1> QED
  BY <1>1, Invariance, PTL
-----------------------------------------------------------------------------
\* What a step may make of a handle that is unusable.
Final(q, r) ==
    r.unusable /\ q.pc # "closed" =>
        q.unusable /\ (q.pc = "adapter" => r.pc = "adapter")

StaysFinal == \A h \in Handles : Final(hs'[h], hs[h])

LEMMA FinalStep ==
  ASSUME IInv, NEW h \in Handles, NEW q, Final(q, hs[h]), hs' = [hs EXCEPT ![h] = q]
  PROVE  StaysFinal
<1>1. \A g \in Handles : hs'[g] = IF g = h THEN q ELSE hs[g]
  BY DEF IInv, BaseInv
<1>2. \A r : Final(r, r)
  BY DEF Final
<1> QED
  BY <1>1, <1>2 DEF StaysFinal

LEMMA FinalSession ==
  ASSUME NEW r \in Rec, r.pc = "idle"
  PROVE  r.unusable => SessionFor(r).unusable /\ SessionFor(r).pc = "idle"
<1>1. "err" \in Results
  BY DEF Results
<1>2. r.unusable => SessionFor(r) = Returns(r, "err")
  BY DEF SessionFor
<1> QED
  BY <1>1, <1>2, ReturnsFields

\* The steps that take no further look at the disposition.
LEMMA FinalOthers ==
  ASSUME IInv, NEW h \in Handles
  PROVE  /\ hs[h].pc \notin Opened \/ hs[h].pc = "factory" => \A q : Final(q, hs[h])
         /\ \A q : q.pc = "closed" => Final(q, hs[h])
         /\ \A q : (q.unusable <=> hs[h].unusable) /\ q.pc # "adapter" => Final(q, hs[h])
         /\ Final(Poisoned(hs[h]), hs[h])
<1>1. Fine(hs[h]) /\ hs[h] \in Rec
  BY HandleFacts
<1>2. hs[h].pc \notin Opened \/ hs[h].pc = "factory" => ~ hs[h].unusable
  BY <1>1 DEF Fine, HandleInv, NewInv, UseInv
<1>3. Poisoned(hs[h]).unusable /\ Poisoned(hs[h]).pc = "idle"
  BY <1>1, PoisonedFields
<1> QED
  BY <1>2, <1>3 DEF Final

LEMMA FinalCalls ==
  ASSUME IInv, NEW h \in Handles, NEW op \in Operations, hs[h].pc = "idle"
  PROVE  LET r == Begin(h, op)
         IN  /\ Final(Validate(r, "cached"), hs[h]) /\ Final(Returns(r, "err"), hs[h])
             /\ Final(SessionFor(r), hs[h])
<1> DEFINE r == Begin(h, op)
<1>1. r \in Rec /\ r.pc = "idle" /\ (r.unusable <=> hs[h].unusable)
  BY BeginFine DEF Fine
<1>2. "err" \in Results /\ "cached" \in Afters
  BY DEF Results, Afters
<1> HIDE DEF r
<1>3. Final(Validate(r, "cached"), hs[h])
  BY <1>1, <1>2, ValidateFields DEF Final
<1>4. Final(Returns(r, "err"), hs[h])
  BY <1>1, <1>2, ReturnsFields DEF Final
<1>5. Final(SessionFor(r), hs[h])
  BY <1>1, FinalSession DEF Final
<1> QED
  BY <1>3, <1>4, <1>5 DEF r

LEMMA FinalDone ==
  ASSUME IInv, NEW h \in Handles, ValidateDone(h)
  PROVE  StaysFinal
<1> DEFINE r == hs[h]
<1>1. /\ r \in Rec /\ r.pc = "comparing" /\ (r.after = "session" => ~ r.unusable)
      /\ r.after \in {"session", "cached", "finish"}
  BY HandleFacts, RecFields DEF ValidateDone, Fine, HandleInv, UseInv, Afters
<1>2. CASE ~ r.same
  <2>1. Goes(h, Poisoned(r))
    BY <1>2 DEF ValidateDone
  <2> QED
    BY <2>1, FinalOthers, FinalStep DEF Goes
<1>3. CASE r.same /\ r.after = "session"
  <2>1. Goes(h, [r EXCEPT !.pc = "factory"]) /\ \A q : Final(q, r)
    BY <1>1, <1>3 DEF ValidateDone, Final
  <2> QED
    BY <2>1, FinalStep DEF Goes
<1>4. CASE r.same /\ r.after = "cached"
  <2>1. Goes(h, Returns(r, "ok"))
    BY <1>4 DEF ValidateDone
  <2>2. (Returns(r, "ok").unusable <=> r.unusable) /\ Returns(r, "ok").pc # "adapter"
    BY <1>1, ReturnsFields DEF Results
  <2> QED
    BY <2>1, <2>2, FinalOthers, FinalStep DEF Goes
<1>5. CASE r.same /\ r.after = "finish"
  <2> DEFINE u == [Recorded(r) EXCEPT !.listing = @ \/ (r.op = "list" /\ r.res = "ok")]
             res == IF r.res = "ok" THEN "ok" ELSE "err"
             q == Returns(u, res)
  <2>1. Goes(h, q)
    BY <1>5 DEF ValidateDone
  <2>2. u \in Rec /\ (r.unusable => u.unusable)
    <3> DEFINE w == Recorded(r)
    <3> HIDE DEF r
    <3>1. w \in Rec /\ (r.unusable => w.unusable)
      BY <1>1 DEF Recorded, Rec
    <3>2. u = [w EXCEPT !.listing = @ \/ (r.op = "list" /\ r.res = "ok")]
      OBVIOUS
    <3> HIDE DEF w, u
    <3>3. u \in Rec
      BY <3>1, <3>2 DEF Rec
    <3> QED
      BY <3>1, <3>2, <3>3 DEF Rec
  <2>3. res \in Results
    BY DEF Results
  <2> HIDE DEF u, res
  <2>4. (q.unusable <=> u.unusable) /\ q.pc = "idle"
    BY <2>2, <2>3, ReturnsFields
  <2>5. Final(q, r)
    BY <2>2, <2>4 DEF Final
  <2> QED
    BY <2>1, <2>5, FinalStep DEF Goes
<1> QED
  BY <1>1, <1>2, <1>3, <1>4, <1>5

LEMMA FinalAdapter ==
  ASSUME IInv, NEW h \in Handles, hs[h].pc = "adapter"
  PROVE  /\ \A u \in Rec : (u.unusable <=> hs[h].unusable) => Final(Validate(u, "finish"), hs[h])
         /\ \A q : (q.unusable <=> hs[h].unusable) => Final(q, hs[h])
<1>1. "finish" \in Afters
  BY DEF Afters
<1>2. ASSUME NEW u \in Rec, u.unusable <=> hs[h].unusable PROVE Final(Validate(u, "finish"), hs[h])
  BY <1>1, <1>2, ValidateFields DEF Final
<1> QED
  BY <1>2 DEF Final

LEMMA FinalOperation ==
  ASSUME IInv, NEW h \in Handles, Operation(h)
  PROVE  StaysFinal
<1> DEFINE r == hs[h]
<1>0. /\ r \in Rec /\ "idle" \in Opened /\ "validating" \in Opened /\ "comparing" \in Opened
      /\ "list" \in Operations
  BY HandleFacts DEF Opened, Operations
<1>1. ASSUME r.pc \notin Opened \/ r.pc = "factory", NEW q, hs' = [hs EXCEPT ![h] = q]
      PROVE  StaysFinal
  BY <1>1, FinalOthers, FinalStep
<1>2. CASE Open(h) \/ OpenDiscovers(h) \/ OpenCaptured(h) \/ OpenDone(h)
           \/ (\E f \in Files : OpenFingerprints(h, f) \/ OpenMeasures(h, f))
  <2>1. r.pc \notin Opened
    BY <1>2 DEF Open, OpenDiscovers, OpenCaptured, OpenDone, OpenFingerprints, OpenMeasures, Opened
  <2>2. \E q : hs' = [hs EXCEPT ![h] = q]
    BY <1>2 DEF Open, OpenDiscovers, OpenCaptured, OpenDone, OpenFingerprints, OpenMeasures,
                Goes, Calls
  <2> QED
    BY <1>1, <2>1, <2>2
<1>3. CASE OpenSession(h) \/ OpenSessionFails(h)
  <2>1. r.pc = "factory" /\ \E q : hs' = [hs EXCEPT ![h] = q]
    BY <1>3 DEF OpenSession, OpenSessionFails, Goes
  <2> QED
    BY <1>1, <2>1
<1>4. CASE Close(h)
  BY <1>4, ClosedFields, FinalOthers, FinalStep DEF Close, Goes
<1>5. CASE ValidateFails(h)
  BY <1>5, FinalOthers, FinalStep DEF ValidateFails, Goes
<1>6. CASE ValidateDiscovers(h)
  <2> DEFINE q == [r EXCEPT !.pc = "comparing", !.todo = SourcePaths \cup r.related]
  <2>1. Goes(h, Poisoned(r)) \/ Goes(h, q)
    BY <1>6 DEF ValidateDiscovers
  <2>2. (q.unusable <=> r.unusable) /\ q.pc # "adapter"
    BY <1>0 DEF Rec
  <2> HIDE DEF q
  <2> QED
    BY <2>1, <2>2, FinalOthers, FinalStep DEF Goes
<1>7. ASSUME NEW f \in Files, ValidateFingerprints(h, f) PROVE StaysFinal
  <2> DEFINE q == [r EXCEPT !.todo = @ \ {f}, !.same = @ /\ SourceFileFingerprint(f) = r.fp[f]]
  <2>1. Goes(h, q) /\ r.pc = "comparing"
    BY <1>7 DEF ValidateFingerprints
  <2>2. (q.unusable <=> r.unusable) /\ q.pc # "adapter"
    BY <1>0, <2>1 DEF Rec
  <2> HIDE DEF q
  <2> QED
    BY <2>1, <2>2, FinalOthers, FinalStep DEF Goes
<1>8. CASE ValidateDone(h)
  BY <1>8, FinalDone
<1>9. ASSUME NEW f \in Files, AdapterReads(h, f) PROVE StaysFinal
  <2> DEFINE v == Passed(r, f)
             q == [r EXCEPT !.read = @ \cup {<<f, v>>}, !.payload = IF style = "decoded" THEN v ELSE @]
  <2>1. Goes(h, q) /\ r.pc = "adapter"
    BY <1>9 DEF AdapterReads
  <2>2. q.unusable <=> r.unusable
    <3> HIDE DEF v, r
    <3> QED
      BY <1>0 DEF Rec
  <2> HIDE DEF q
  <2> QED
    BY <2>1, <2>2, FinalAdapter, FinalStep DEF Goes
<1>10. ASSUME NEW u \in Rec, u.unusable <=> r.unusable, r.pc = "adapter",
              hs' = [hs EXCEPT ![h] = Validate(u, "finish")]
       PROVE  StaysFinal
  BY <1>10, FinalAdapter, FinalStep
<1>11. ASSUME NEW res \in {"ok", "usable", "unusable"}, r.pc = "adapter",
              Goes(h, Validate([r EXCEPT !.res = res], "finish"))
       PROVE  StaysFinal
  <2> DEFINE u == [r EXCEPT !.res = res]
  <2>1. u \in Rec /\ (u.unusable <=> r.unusable)
    <3> HIDE DEF r
    <3> QED
      BY <1>0, <1>11 DEF Rec, Results
  <2>2. hs' = [hs EXCEPT ![h] = Validate(u, "finish")]
    BY <1>11 DEF Goes
  <2> HIDE DEF u
  <2> QED
    BY <1>10, <1>11, <2>1, <2>2
<1>12. CASE AdapterSucceeds(h) \/ \E res \in {"usable", "unusable"} : AdapterFails(h, res)
  BY <1>11, <1>12 DEF AdapterSucceeds, AdapterFails
<1>13. ASSUME NEW n \in 0..1, NEW duplicate \in BOOLEAN, AdapterLists(h, n, duplicate)
       PROVE  StaysFinal
  <2> DEFINE res == IF duplicate THEN "unusable" ELSE "ok"
             new == EngineIds(n)
             u == [r EXCEPT !.ids = new, !.res = res]
  <2>1. res \in Results /\ new \in SUBSET Nat
    BY DEF Results, EngineIds, IInv, BaseInv
  <2>2. r.pc = "adapter" /\ hs' = [hs EXCEPT ![h] = Validate(u, "finish")]
    BY <1>13 DEF AdapterLists
  <2> HIDE DEF res, new, r
  <2>3. u \in Rec /\ (u.unusable <=> r.unusable)
    BY <1>0, <2>1 DEF Rec
  <2> HIDE DEF u
  <2> QED
    BY <1>10, <2>2, <2>3
<1>14. CASE List(h)
  <2>1. r.pc = "idle" /\ (Calls(h, Validate(Begin(h, "list"), "cached")) \/ Calls(h, SessionFor(Begin(h, "list"))))
    BY <1>14 DEF List
  <2> QED
    BY <1>0, <2>1, FinalCalls, FinalStep DEF Calls
<1>15. ASSUME NEW op \in Operations, NEW refused \in BOOLEAN, Whole(h, op, refused) PROVE StaysFinal
  <2>1. r.pc = "idle" /\ (Calls(h, Returns(Begin(h, op), "err")) \/ Calls(h, SessionFor(Begin(h, op))))
    BY <1>15 DEF Whole
  <2> QED
    BY <2>1, FinalCalls, FinalStep DEF Calls
<1>16. ASSUME NEW op \in Operations, NEW id \in 1..nextId, Selected(h, op, id) PROVE StaysFinal
  <2>1. r.pc = "idle" /\ (Calls(h, Returns(Begin(h, op), "err")) \/ Calls(h, SessionFor(Begin(h, op))))
    BY <1>16 DEF Selected
  <2> QED
    BY <2>1, FinalCalls, FinalStep DEF Calls
<1> QED
  BY <1>2, <1>3, <1>4, <1>5, <1>6, <1>7, <1>8, <1>9, <1>12, <1>13, <1>14, <1>15, <1>16 DEF Operation

\* A handle whose disposition became Unusable is refused by session_for until
\* it is closed: no step makes it usable again, and none but the call that was
\* already there is in the adapter.
THEOREM UnusableStaysUnusable == Spec => UnusableIsFinal
<1>1. ASSUME IInv, Next PROVE StaysFinal
  <2>1. CASE \E f \in Files : Replace(f) \/ Rewrite(f) \/ Remove(f)
    <3>1. hs' = hs
      BY <2>1 DEF Replace, Rewrite, Remove
    <3>2. \A r : Final(r, r)
      BY DEF Final
    <3> QED
      BY <3>1, <3>2 DEF StaysFinal
  <2>2. ASSUME NEW h \in Handles, Operation(h) PROVE StaysFinal
    BY <1>1, <2>2, FinalOperation
  <2> QED
    BY <1>1, <2>1, <2>2 DEF Next
<1>2. IInv /\ [Next]_vars =>
        [\A h \in Handles :
           hs[h].unusable /\ hs'[h].pc # "closed" =>
              /\ hs'[h].unusable
              /\ hs'[h].pc = "adapter" => hs[h].pc = "adapter"]_vars
  BY <1>1 DEF StaysFinal, Final
<1> QED
  BY <1>2, Invariance, PTL DEF Spec, UnusableIsFinal
==============================================================================
