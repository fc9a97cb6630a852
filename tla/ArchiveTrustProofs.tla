------------------------- MODULE ArchiveTrustProofs -------------------------
(***************************************************************************)
(* What module ArchiveTrust promises of signers and of verdicts, for any   *)
(* keys, lifetimes, windows, clock drifts, volumes and budgets.            *)
(*                                                                         *)
(* Two facts carry the argument.  What the service says of a certificate   *)
(* is final once it is revoked (Later), so an old answer can be wrong only *)
(* about what happened after it was given; and damage to a volume is not   *)
(* undone, so what one pass of a verification saw is still there when a    *)
(* later pass, or the verdict, speaks about it.                            *)
(***************************************************************************)
EXTENDS ArchiveTrust, FiniteSetTheorems, SequenceTheorems, TLAPS

CertStates == {"valid", "suspended", "revoked"}
Categories == {"none", "supersession", "compromise"}
Reasons == {"none", "renewed", "lost"}
CertRec == [key : Keys, from : Nat, state : CertStates, at : Nat, category : Categories,
            reason : Reasons, asked : BOOLEAN, unseen : BOOLEAN]
IssuerRec == {Healthy} \cup [state : {"issuer_revoked", "issuer_suspended"}, at : Nat]
Statuses == {"valid", "suspended", "revoked", "expired", "issuer_revoked", "issuer_suspended"}
AnswerRec == [cert : Nat, status : Statuses, this : Nat, next : Nat, at : Nat, reason : Reasons,
              category : Categories]
Kinds == Damages \cup {"own"}

\* A certificate is in a category of revocation exactly when it is revoked.
CertInv(x) ==
    /\ x.state = "revoked" <=> x.category \in {"supersession", "compromise"}
    /\ x.category = "supersession" => x.reason = "renewed"

\* Sequence o contains c.
Has(o, c) == \E i \in 1 .. Len(o) : o[i] = c

\* The inventory l and the catalogue's order o and default d over certificates C.
DeviceInv(C, l, o, d) ==
    /\ l \in Seq(Lifecycle) /\ Len(l) = Len(C)
    /\ o \in Seq(1 .. Len(C))
    /\ \A c \in 1 .. Len(C) : l[c] # "absent" => Has(o, c)
    /\ d = 0 \/ Has(o, d)
    /\ \A c \in 1 .. Len(C) : C[c].state = "revoked" /\ ~ C[c].unseen => l[c] # "active"

\* An answer a of the status service at time n, with an issuer s.
AnswerInv(a, C, s, n) ==
    a # None =>
        /\ a \in AnswerRec /\ a.cert \in 1 .. Len(C) /\ a.this <= n
        /\ a.status = "valid" =>
              /\ a.this < C[a.cert].from + Life
              /\ C[a.cert].state # "valid" => C[a.cert].at >= a.this
              /\ s.state # "valid" => s.at >= a.this
        /\ a.status = "revoked" =>
              /\ C[a.cert].state = "revoked" /\ a.at = C[a.cert].at /\ a.reason = C[a.cert].reason
              /\ a.category \in {C[a.cert].category, "none"}

\* Certificate c was in force at time t, the time of the choice.
InForce(c, t, C, n) ==
    /\ c \in 1 .. Len(C) /\ t \in Nat /\ t <= n
    /\ C[c].from <= t /\ t < C[c].from + Life
    /\ C[c].state = "revoked" => t <= C[c].at \/ C[c].unseen

SigningInv(ch, ar, C, n) ==
    /\ ch # None => InForce(ch.cert, ch.at, C, n)
    /\ ar # None => InForce(ar.cert, ar.chosen, C, n) /\ ar.signed \in Nat /\ ar.chosen <= ar.signed

CheckInv ==
    /\ check.pc \in {"idle", "footers", "readers", "done"}
    /\ check.pc # "idle" => archive # None
    /\ check.pc = "footers" =>
          check.first \in Kinds /\ (check.first # "own" => vols[1] = check.first)

BaseInv ==
    /\ now \in Nat /\ certs \in Seq(CertRec) /\ issuer \in IssuerRec
    /\ selected \in Keys \cup {None} /\ vols \in [1 .. Volumes -> Kinds]
    /\ \A c \in 1 .. Len(certs) : CertInv(certs[c])

\* What is said of an archive: the parts of VerifiedIsRecent and VerdictIsFair
\* that a verdict must satisfy.
VerdictInv ==
    check.pc = "done" =>
        LET cert == certs[archive.cert]
            ofCert == answer # None /\ answer.cert = archive.cert
            revoked == ofCert /\ answer.status = "revoked"
        IN /\ check.outcome = "not_signed" => \A i \in 1 .. Volumes : vols[i] \in {"stripped", "foreign"}
           /\ check.outcome \in {"unverifiable", "error"} => ~Intact
           /\ check.outcome = "failed" =>
                 \/ ~Intact
                 \/ ~check.official
                 \/ archive.signed >= Until(archive.cert)
                 \/ ofCert /\ answer.status = "suspended"
                 \/ revoked /\ (cert.category = "compromise" \/ archive.signed >= cert.at)
           /\ check.outcome \in {"verified", "caveat"} =>
                 /\ check.official
                 /\ ~ /\ revoked
                      /\ \/ archive.signed >= cert.at
                         \/ cert.category = "compromise" /\ answer.category # "none"
           /\ check.outcome = "verified" =>
                 /\ RecentlyGood(archive.cert, check.clock) /\ InDate(archive.cert, check.clock)
                 /\ archive.signed < Until(archive.cert)

IInv ==
    /\ BaseInv /\ DeviceInv(certs, local, order, default)
    /\ AnswerInv(answer, certs, issuer, now) /\ SigningInv(choice, archive, certs, now)
    /\ CheckInv /\ VerdictInv
-----------------------------------------------------------------------------
\* The least and the greatest element of a set of indices.
Below == {ss \in Nat \X Nat : ss[1] < ss[2]}

LEMMA HasLeast ==
  ASSUME NEW S \in SUBSET Nat, S # {}
  PROVE  \E x \in S : \A y \in S : x =< y
<1>1. IsWellFoundedOn(Below, Nat)
  BY NatLessThanWellFounded DEF OpToRel, Below
<1>2. \E x \in S : \A y \in S : ~ (<<y, x>> \in Below)
  BY <1>1, WFMin
<1>3. \A x, y \in Nat : <<y, x>> \in Below <=> y < x
  BY DEF Below
<1>4. \A x, y \in Nat : ~ (y < x) => x =< y
  OBVIOUS
<1> QED
  BY <1>2, <1>3, <1>4

LEMMA LeastIndex ==
  ASSUME NEW S \in SUBSET Nat, S # {}
  PROVE  Min(S) \in S
<1>1. \E x \in S : \A y \in S : x =< y
  BY HasLeast
<1> QED
  BY <1>1, Zenon DEF Min

LEMMA GreatestIndex ==
  ASSUME NEW n \in Nat, NEW S \in SUBSET (1 .. n), S # {}
  PROVE  Max(S) \in S
<1> DEFINE T == {n - x : x \in S}
<1>1. T \in SUBSET Nat /\ T # {}
  <2>1. \A x \in S : n - x \in Nat
    OBVIOUS
  <2>2. \A z \in T : z \in Nat
    BY <2>1
  <2>3. PICK x \in S : TRUE
    OBVIOUS
  <2>4. n - x \in T
    OBVIOUS
  <2> HIDE DEF T
  <2> QED
    BY <2>2, <2>4
<1>2. PICK m \in T : \A y \in T : m =< y
  <2> HIDE DEF T
  <2> QED
    BY <1>1, HasLeast
<1>3. PICK x \in S : m = n - x
  BY <1>2
<1>4. \A y \in S : x >= y
  <2> SUFFICES ASSUME NEW y \in S PROVE x >= y
    OBVIOUS
  <2>1. n - y \in T
    OBVIOUS
  <2>2. m =< n - y
    BY <1>2, <2>1
  <2> QED
    BY <1>3, <2>2
<1>5. \E z \in S : \A y \in S : z >= y
  BY <1>3, <1>4
<1> QED
  BY <1>5, Zenon DEF Max

\* What build_catalog_from_inventory and resolve_default_signing_certificate_id
\* look for in the inventory's order.
FirstIn(o, l) == SelectInSeq(o, LAMBDA c : l[c] = "active")
LastIn(o, N) == SelectLastInSeq(o, LAMBDA c : c \in N)

LEMMA FirstActive ==
  ASSUME NEW l, NEW n \in Nat, NEW o \in Seq(1 .. n)
  PROVE  FirstIn(o, l) = 0 \/ FirstIn(o, l) \in 1 .. Len(o)
<1> DEFINE I == {i \in 1 .. Len(o) : l[o[i]] = "active"}
<1>1. FirstIn(o, l) = IF I # {} THEN Min(I) ELSE 0
  BY DEF FirstIn, SelectInSeq
<1>2. I \in SUBSET Nat
  OBVIOUS
<1>3. I # {} => Min(I) \in I
  <2> HIDE DEF I
  <2> QED
    BY <1>2, LeastIndex
<1> QED
  BY <1>1, <1>3

LEMMA LastNewest ==
  ASSUME NEW N, NEW n \in Nat, NEW o \in Seq(1 .. n), NEW j \in 1 .. Len(o), o[j] \in N
  PROVE  LastIn(o, N) \in 1 .. Len(o) /\ o[LastIn(o, N)] \in N
<1> DEFINE I == {i \in 1 .. Len(o) : o[i] \in N}
<1>1. LastIn(o, N) = IF I # {} THEN Max(I) ELSE 0
  BY DEF LastIn, SelectLastInSeq
<1>2. I \in SUBSET (1 .. Len(o)) /\ I # {} /\ Len(o) \in Nat
  BY SMTT(30)
<1>3. Max(I) \in I
  <2> HIDE DEF I
  <2> QED
    BY <1>2, GreatestIndex
<1> QED
  BY <1>1, <1>2, <1>3

LEMMA AtMostOne ==
  ASSUME NEW S, IsFiniteSet(S), ~ (Cardinality(S) > 1), NEW a \in S, NEW b \in S
  PROVE  a = b
<1> SUFFICES ASSUME a # b PROVE FALSE
  OBVIOUS
<1> DEFINE A == {a}
<1>1. IsFiniteSet(A) /\ Cardinality(A) = 1 /\ b \notin A /\ A \cup {b} \in SUBSET S
  BY FS_Singleton
<1> HIDE DEF A
<1>2. Cardinality(A \cup {b}) = Cardinality(A) + 1
  BY <1>1, FS_AddElement
<1>3. Cardinality(A \cup {b}) <= Cardinality(S)
  BY <1>1, FS_Subset
<1>4. Cardinality(S) \in Nat
  BY FS_CardinalityType
<1> QED
  BY <1>1, <1>2, <1>3, <1>4
-----------------------------------------------------------------------------
\* What may become at time n of a certificate y: what is revoked stays as it is.
LaterCert(y, x, n) ==
    /\ x.key = y.key /\ x.from = y.from
    /\ y.state = "revoked" =>
          /\ x.state = "revoked" /\ x.at = y.at /\ x.category = y.category /\ x.reason = y.reason
          /\ x.unseen <=> y.unseen
    /\ x.state # "valid" => (y.state # "valid" /\ x.at = y.at) \/ x.at = n
    /\ x.state = "revoked" => y.state = "revoked" \/ x.at = n

Later(C, D, n) ==
    /\ Len(C) <= Len(D)
    /\ \A c \in 1 .. Len(C) : LaterCert(C[c], D[c], n)

Certs(C) == C \in Seq(CertRec) /\ \A c \in 1 .. Len(C) : CertInv(C[c])

LEMMA CertFields ==
  ASSUME NEW C \in Seq(CertRec), NEW c \in 1 .. Len(C)
  PROVE  /\ C[c] \in CertRec /\ C[c].from \in Nat /\ C[c].at \in Nat /\ C[c].key \in Keys
         /\ C[c].state \in CertStates /\ C[c].category \in Categories /\ C[c].reason \in Reasons
<1>1. C[c] \in CertRec
  BY ElementOfSeq
<1> QED
  BY <1>1 DEF CertRec

\* Answers and choices stay good however the certificates go on.
LEMMA LaterKeeps ==
  ASSUME NEW C, NEW D, Certs(C), Certs(D), NEW n \in Nat, NEW m \in Nat, n <= m, Later(C, D, n)
  PROVE  /\ \A a, s : AnswerInv(a, C, s, n) => AnswerInv(a, D, s, m)
         /\ \A ch, ar : SigningInv(ch, ar, C, n) => SigningInv(ch, ar, D, m)
<1>1. /\ C \in Seq(CertRec) /\ D \in Seq(CertRec) /\ Len(C) \in Nat /\ Len(D) \in Nat
      /\ 1 .. Len(C) \subseteq 1 .. Len(D)
  BY DEF Certs, Later
<1>2. ASSUME NEW a, NEW s, AnswerInv(a, C, s, n), a # None PROVE AnswerInv(a, D, s, m)
  <2>1. a \in AnswerRec /\ a.cert \in 1 .. Len(C) /\ a.this <= n /\ a.this \in Nat
    BY <1>2 DEF AnswerInv, AnswerRec
  <2> DEFINE c == a.cert
  <2>2. LaterCert(C[c], D[c], n) /\ CertInv(C[c])
    BY <2>1 DEF Later, Certs
  <2>3. C[c].at \in Nat /\ D[c].at \in Nat /\ c \in 1 .. Len(D)
    BY <1>1, <2>1, CertFields
  <2>4. ASSUME a.status = "valid"
        PROVE  a.this < D[c].from + Life /\ (D[c].state # "valid" => D[c].at >= a.this)
    <3>1. a.this < C[c].from + Life /\ (C[c].state # "valid" => C[c].at >= a.this)
      BY <1>2, <2>4 DEF AnswerInv
    <3> HIDE DEF c
    <3> QED
      BY <2>1, <2>2, <2>3, <3>1 DEF LaterCert
  <2>5. ASSUME a.status = "revoked"
        PROVE  /\ D[c].state = "revoked" /\ a.at = D[c].at /\ a.reason = D[c].reason
               /\ a.category \in {D[c].category, "none"}
    <3>1. /\ C[c].state = "revoked" /\ a.at = C[c].at /\ a.reason = C[c].reason
          /\ a.category \in {C[c].category, "none"}
      BY <1>2, <2>5 DEF AnswerInv
    <3> QED
      BY <2>2, <3>1 DEF LaterCert
  <2>6. a.this <= m /\ (a.status = "valid" => (s.state # "valid" => s.at >= a.this))
    BY <1>2, <2>1 DEF AnswerInv
  <2> QED
    BY <2>1, <2>3, <2>4, <2>5, <2>6 DEF AnswerInv
<1>3. ASSUME NEW c, NEW x, InForce(c, x, C, n) PROVE InForce(c, x, D, m)
  <2>1. /\ c \in 1 .. Len(C) /\ x \in Nat /\ x <= n /\ C[c].from <= x /\ x < C[c].from + Life
        /\ C[c].state = "revoked" => x <= C[c].at \/ C[c].unseen
    BY <1>3 DEF InForce
  <2>2. LaterCert(C[c], D[c], n) /\ CertInv(C[c]) /\ c \in 1 .. Len(D)
    BY <1>1, <2>1 DEF Later, Certs
  <2>3. D[c].state = "revoked" => x <= D[c].at \/ D[c].unseen
    BY <2>1, <2>2 DEF LaterCert, CertInv
  <2>4. D[c].from = C[c].from
    BY <2>2 DEF LaterCert
  <2> QED
    BY <2>1, <2>2, <2>3, <2>4 DEF InForce
<1>4. ASSUME NEW a, NEW s, AnswerInv(a, C, s, n) PROVE AnswerInv(a, D, s, m)
  <2>1. CASE a = None
    BY <2>1 DEF AnswerInv
  <2> QED
    BY <1>2, <1>4, <2>1
<1>5. ASSUME NEW ch, NEW ar, SigningInv(ch, ar, C, n) PROVE SigningInv(ch, ar, D, m)
  BY <1>3, <1>5 DEF SigningInv
<1> QED
  BY <1>4, <1>5

LEMMA SameCerts ==
  ASSUME NEW C, NEW n
  PROVE  Later(C, C, n)
<1>2. \A y : LaterCert(y, y, n)
  BY DEF LaterCert
<1> QED
  BY <1>2 DEF Later

\* One certificate changes.
Put(C, c, x) == [C EXCEPT ![c] = x]

LEMMA UpdatedCert ==
  ASSUME NEW C, Certs(C), NEW c \in 1 .. Len(C), NEW x \in CertRec, NEW n,
         LaterCert(C[c], x, n), CertInv(x), NEW D, D = Put(C, c, x)
  PROVE  /\ Certs(D) /\ Len(D) = Len(C) /\ Later(C, D, n)
         /\ D[c] = x /\ \A e \in 1 .. Len(C) : e # c => D[e] = C[e]
<1>1. /\ C \in Seq(CertRec) /\ D \in Seq(CertRec) /\ Len(D) = Len(C)
      /\ \A e \in 1 .. Len(C) : D[e] = IF e = c THEN x ELSE C[e]
  BY ExceptSeq DEF Certs, Put
<1>2. Certs(D)
  BY <1>1 DEF Certs
<1>3. \A y : LaterCert(y, y, n)
  BY DEF LaterCert
<1>4. Later(C, D, n)
  BY <1>1, <1>3 DEF Later
<1> QED
  BY <1>1, <1>2, <1>4

\* One certificate is issued.
LEMMA IssuedCert ==
  ASSUME NEW C, Certs(C), NEW k \in Keys, now \in Nat, NEW n, NEW D, D = Append(C, Certificate(k))
  PROVE  /\ Certs(D) /\ Len(D) = Len(C) + 1 /\ Later(C, D, n)
         /\ D[Len(C) + 1] = Certificate(k) /\ \A e \in 1 .. Len(C) : D[e] = C[e]
<1> DEFINE x == Certificate(k)
<1>1. x \in CertRec /\ CertInv(x)
  BY DEF Certificate, CertRec, CertStates, Categories, Reasons, CertInv
<1>0. D = Append(C, x)
  OBVIOUS
<1> HIDE DEF x
<1>2. /\ C \in Seq(CertRec) /\ D \in Seq(CertRec) /\ Len(D) = Len(C) + 1 /\ D[Len(C) + 1] = x
      /\ \A e \in 1 .. Len(C) : D[e] = C[e]
  BY <1>0, <1>1, AppendProperties DEF Certs
<1>3. Certs(D)
  BY <1>1, <1>2 DEF Certs
<1>4. Later(C, D, n)
  <2>1. \A y : LaterCert(y, y, n)
    BY DEF LaterCert
  <2>2. Len(C) \in Nat
    BY <1>2
  <2> QED
    BY <1>2, <2>1, <2>2 DEF Later
<1> QED
  BY <1>2, <1>3, <1>4 DEF x
-----------------------------------------------------------------------------
\* A step while no verification is under way.
LEMMA IdleStep ==
  ASSUME IInv, NoneUnderWay, UNCHANGED <<check, vols>>, now' \in Nat, Certs(certs'),
         issuer' \in IssuerRec, selected' \in Keys \cup {None},
         DeviceInv(certs', local', order', default'), AnswerInv(answer', certs', issuer', now'),
         SigningInv(choice', archive', certs', now')
  PROVE  IInv'
<1>1. check'.pc = "idle" /\ vols' = vols
  BY DEF NoneUnderWay
<1>2. BaseInv'
  BY <1>1 DEF IInv, BaseInv, Certs
<1>3. CheckInv'
  BY <1>1 DEF CheckInv
<1>4. VerdictInv'
  BY <1>1 DEF VerdictInv
<1> QED
  BY <1>2, <1>3, <1>4 DEF IInv

LEMMA Facts ==
  ASSUME IInv
  PROVE  /\ Certs(certs) /\ certs \in Seq(CertRec) /\ Len(certs) \in Nat /\ Issued = 1 .. Len(certs)
         /\ now \in Nat /\ issuer \in IssuerRec /\ selected \in Keys \cup {None}
         /\ local \in Seq(Lifecycle) /\ Len(local) = Len(certs) /\ order \in Seq(1 .. Len(certs))
         /\ {Life, Skew, MaxWindow, Drift} \subseteq Nat /\ Volumes \in Nat \ {0}
  BY TimesAssumption, BudgetsAssumption DEF IInv, BaseInv, DeviceInv, Certs, Issued

\* The service, or the device, goes on; signing and the verifier do not.
LEMMA CertsStep ==
  ASSUME IInv, NoneUnderWay, Certs(certs'), Later(certs, certs', now),
         UNCHANGED <<now, issuer, signing, answer, check>>, selected' \in Keys \cup {None},
         DeviceInv(certs', local', order', default')
  PROVE  IInv'
<1>1. now' = now /\ issuer' = issuer /\ choice' = choice /\ archive' = archive /\ vols' = vols
      /\ answer' = answer /\ check' = check
  BY DEF signing
<1>2. Certs(certs) /\ now \in Nat /\ issuer \in IssuerRec /\ now <= now
  BY Facts
<1>3. AnswerInv(answer, certs, issuer, now) /\ SigningInv(choice, archive, certs, now)
  BY DEF IInv
<1>4. AnswerInv(answer, certs', issuer, now) /\ SigningInv(choice, archive, certs', now)
  BY <1>2, <1>3, LaterKeeps
<1> QED
  BY <1>1, <1>2, <1>4, IdleStep

\* A revocation writes four fields of one certificate.
RevokedAs(y, n, category, reason) ==
    [y EXCEPT !.state = "revoked", !.at = n, !.category = category, !.reason = reason]

LEMMA RevokedIs ==
  ASSUME IInv, NEW c \in Issued, NEW category, NEW reason, NEW x,
         x = RevokedAs(certs[c], now, category, reason)
  PROVE  Revoked(c, category, reason) = Put(certs, c, x)
<1>1. certs \in Seq(CertRec) /\ c \in 1 .. Len(certs) /\ certs[c] \in CertRec
  BY Facts, CertFields
<1>2. certs \in [1 .. Len(certs) -> CertRec]
  BY <1>1
<1> QED
  BY <1>1, <1>2 DEF Revoked, RevokedAs, CertRec, Put

\* A certificate y that is not revoked becomes the revoked x.
LEMMA RevokedCert ==
  ASSUME NEW y \in CertRec, CertInv(y), NEW n \in Nat, NEW x, y.state # "revoked",
         NEW category \in {"supersession", "compromise"}, NEW reason \in {"renewed", "lost"},
         category = "supersession" => reason = "renewed",
         x = RevokedAs(y, n, category, reason)
  PROVE  /\ x \in CertRec /\ CertInv(x) /\ LaterCert(y, x, n)
         /\ x.category = category /\ x.key = y.key /\ x.state = "revoked" /\ x.at = n
<1>1. x \in CertRec
  BY DEF RevokedAs, CertRec, CertStates, Categories, Reasons
<1>2. /\ x.key = y.key /\ x.from = y.from /\ x.state = "revoked" /\ x.at = n
      /\ x.category = category /\ x.reason = reason
  BY DEF RevokedAs, CertRec
<1>3. CertInv(x)
  BY <1>2 DEF CertInv
<1>4. LaterCert(y, x, n)
  BY <1>2 DEF LaterCert
<1> QED
  BY <1>1, <1>2, <1>3, <1>4

\* The device takes no part in the revocation.
LEMMA UnseenCert ==
  ASSUME NEW y, NEW n, NEW x \in CertRec, CertInv(x), LaterCert(y, x, n), y.state # "revoked",
         NEW w, w = [x EXCEPT !.unseen = TRUE]
  PROVE  w \in CertRec /\ CertInv(w) /\ LaterCert(y, w, n) /\ w.unseen
<1>1. w \in CertRec
  BY DEF CertRec
<1>2. /\ w.key = x.key /\ w.from = x.from /\ w.state = x.state /\ w.at = x.at
      /\ w.category = x.category /\ w.reason = x.reason /\ w.unseen
  BY DEF CertRec
<1> QED
  BY <1>1, <1>2 DEF CertInv, LaterCert

\* It is suspended or reinstated, and no category is written.
LEMMA SuspendedCert ==
  ASSUME NEW y \in CertRec, CertInv(y), NEW n \in Nat, NEW t \in Nat, NEW x, y.state # "revoked",
         NEW s \in {"suspended", "valid"}, s = "suspended" => t = n,
         x = [y EXCEPT !.state = s, !.at = t]
  PROVE  x \in CertRec /\ CertInv(x) /\ LaterCert(y, x, n) /\ x.state # "revoked"
<1>1. x \in CertRec
  BY DEF CertRec, CertStates
<1>2. /\ x.key = y.key /\ x.from = y.from /\ x.state = s /\ x.at = t
      /\ x.category = y.category /\ x.reason = y.reason
  BY DEF CertRec
<1>3. CertInv(x) /\ x.state # "revoked"
  BY <1>2 DEF CertInv
<1>4. LaterCert(y, x, n)
  BY <1>2, <1>3 DEF LaterCert
<1> QED
  BY <1>1, <1>3, <1>4

\* The marks of a renewal.
LEMMA MarkedCert ==
  ASSUME NEW y \in CertRec, CertInv(y), NEW n \in Nat, NEW x, x = [y EXCEPT !.asked = TRUE]
  PROVE  /\ x \in CertRec /\ CertInv(x) /\ LaterCert(y, x, n)
         /\ x.category = y.category /\ (x.unseen <=> y.unseen) /\ x.key = y.key /\ x.state = y.state
<1>1. x \in CertRec
  BY DEF CertRec
<1>2. /\ x.key = y.key /\ x.from = y.from /\ x.state = y.state /\ x.at = y.at
      /\ x.category = y.category /\ x.reason = y.reason /\ (x.unseen <=> y.unseen)
  BY DEF CertRec
<1>3. CertInv(x)
  BY <1>2 DEF CertInv
<1>4. LaterCert(y, x, n)
  BY <1>2 DEF LaterCert
<1> QED
  BY <1>1, <1>2, <1>3, <1>4

\* The steps of the service that leave the device alone.
LEMMA ServiceCert ==
  ASSUME IInv, NoneUnderWay, NEW c \in Issued, NEW x \in CertRec, CertInv(x),
         LaterCert(certs[c], x, now), x.state = "revoked" => x.unseen,
         certs' = Put(certs, c, x), UNCHANGED <<now, issuer, device, signing, answer, check>>
  PROVE  IInv'
<1>1. /\ Certs(certs) /\ c \in 1 .. Len(certs) /\ DeviceInv(certs, local, order, default)
      /\ selected \in Keys \cup {None}
  BY Facts DEF IInv
<1>2. /\ Certs(certs') /\ Len(certs') = Len(certs) /\ Later(certs, certs', now)
      /\ certs'[c] = x /\ \A e \in 1 .. Len(certs) : e # c => certs'[e] = certs[e]
  BY <1>1, UpdatedCert
<1>3. local' = local /\ order' = order /\ default' = default /\ selected' = selected
  BY DEF device
<1>4. DeviceInv(certs', local', order', default')
  BY <1>1, <1>2, <1>3 DEF DeviceInv
<1> QED
  BY <1>1, <1>2, <1>3, <1>4, CertsStep

LEMMA ServiceSteps ==
  ASSUME IInv, NoneUnderWay, NEW c \in Issued
  PROVE  /\ RevokeElsewhere(c) => IInv'
         /\ Suspend(c) => IInv'
         /\ Reinstate(c) => IInv'
<1>1. /\ certs[c] \in CertRec /\ CertInv(certs[c]) /\ now \in Nat
      /\ certs \in [1 .. Len(certs) -> CertRec]
  BY Facts, CertFields DEF Certs
<1>2. ASSUME RevokeElsewhere(c) PROVE IInv'
  <2>1. PICK reason \in {"renewed", "lost"} :
            certs' = [Revoked(c, "compromise", reason) EXCEPT ![c].unseen = TRUE]
    BY <1>2 DEF RevokeElsewhere
  <2> DEFINE x == RevokedAs(certs[c], now, "compromise", reason)
             w == [x EXCEPT !.unseen = TRUE]
  <2>0. x = RevokedAs(certs[c], now, "compromise", reason) /\ w = [x EXCEPT !.unseen = TRUE]
    OBVIOUS
  <2> HIDE DEF x, w
  <2>2. Revoked(c, "compromise", reason) = Put(certs, c, x)
    BY <2>0, RevokedIs
  <2>3. certs[c].state # "revoked" /\ c \in 1 .. Len(certs)
    BY <1>2, Facts DEF RevokeElsewhere
  <2>4. x \in CertRec /\ CertInv(x) /\ LaterCert(certs[c], x, now)
        /\ x.category = "compromise" /\ x.state = "revoked"
    BY <1>1, <2>0, <2>3, RevokedCert
  <2>5. /\ w \in CertRec /\ CertInv(w) /\ LaterCert(certs[c], w, now) /\ w.unseen
    BY <2>0, <2>3, <2>4, UnseenCert
  <2>6. certs' = Put(certs, c, w)
    BY <1>1, <2>0, <2>1, <2>2, <2>3, <2>4 DEF Put, CertRec
  <2>7. UNCHANGED <<now, issuer, device, signing, answer, check>>
    BY <1>2 DEF RevokeElsewhere
  <2> QED
    BY <2>5, <2>6, <2>7, ServiceCert
<1>3. ASSUME NEW s \in {"suspended", "valid"}, NEW t \in Nat, s = "suspended" => t = now,
             certs[c].state # "revoked", certs' = [certs EXCEPT ![c].state = s, ![c].at = t],
             UNCHANGED <<now, issuer, device, signing, answer, check>>
      PROVE  IInv'
  <2> DEFINE x == [certs[c] EXCEPT !.state = s, !.at = t]
  <2>0. x = [certs[c] EXCEPT !.state = s, !.at = t]
    OBVIOUS
  <2>2. certs' = Put(certs, c, x)
    BY <1>1, <1>3 DEF CertRec, Put
  <2> HIDE DEF x
  <2>3. x \in CertRec /\ CertInv(x) /\ LaterCert(certs[c], x, now) /\ x.state # "revoked"
    BY <1>1, <1>3, <2>0, SuspendedCert
  <2> QED
    BY <1>3, <2>2, <2>3, ServiceCert
<1>4. Suspend(c) => IInv'
  BY <1>1, <1>3 DEF Suspend
<1>5. Reinstate(c) => IInv'
  BY <1>1, <1>3 DEF Reinstate
<1> QED
  BY <1>2, <1>4, <1>5

\* Time passes; the issuer fails.
LEMMA ClockSteps ==
  ASSUME IInv, NoneUnderWay
  PROVE  (Tick => IInv') /\ (IssuerFails => IInv')
<1>1. /\ Certs(certs) /\ now \in Nat /\ issuer \in IssuerRec /\ selected \in Keys \cup {None}
      /\ DeviceInv(certs, local, order, default) /\ Later(certs, certs, now)
      /\ AnswerInv(answer, certs, issuer, now) /\ SigningInv(choice, archive, certs, now)
  BY Facts, SameCerts DEF IInv
<1>2. ASSUME Tick PROVE IInv'
  <2>1. /\ now' = now + 1 /\ now' \in Nat /\ now <= now'
        /\ UNCHANGED <<certs, issuer, local, order, default, selected, choice, archive, vols, answer, check>>
    BY <1>1, <1>2 DEF Tick, service, device, signing
  <2>2. AnswerInv(answer, certs, issuer, now') /\ SigningInv(choice, archive, certs, now')
    BY <1>1, <2>1, LaterKeeps
  <2> QED
    BY <1>1, <2>1, <2>2, IdleStep
<1>3. ASSUME IssuerFails PROVE IInv'
  <2>1. /\ issuer' \in IssuerRec /\ issuer'.at = now
        /\ UNCHANGED <<now, certs, local, order, default, selected, choice, archive, vols, answer, check>>
    BY <1>1, <1>3 DEF IssuerFails, device, signing, IssuerRec
  <2>2. AnswerInv(answer, certs, issuer', now)
    BY <1>1, <2>1 DEF AnswerInv
  <2> QED
    BY <1>1, <2>1, <2>2, IdleStep
<1> QED
  BY <1>2, <1>3
-----------------------------------------------------------------------------
\* What lifecycles l and an order o must satisfy over certificates C.
Inventory(C, l, o) ==
    /\ l \in Seq(Lifecycle) /\ Len(l) = Len(C) /\ o \in Seq(1 .. Len(C))
    /\ \A c \in 1 .. Len(C) : l[c] # "absent" => Has(o, c)
    /\ \A c \in 1 .. Len(C) : C[c].state = "revoked" /\ ~ C[c].unseen => l[c] # "active"

\* A save leaves a default that is in the inventory.
LEMMA Saved ==
  ASSUME IInv, Certs(certs'), NEW l, NEW o, SaveInventory(l, o), Inventory(certs', l, o),
         default = 0 \/ Has(o, default)
  PROVE  DeviceInv(certs', local', order', default') /\ selected' \in Keys \cup {None}
<1> DEFINE first == FirstIn(o, l)
           active == {c \in 1 .. Len(certs') : l[c] = "active"}
           heirs == {c \in active \ {default} : certs'[c].key = certs'[default].key}
<1>1. /\ local' = l /\ order' = o /\ default' \in Default(l, o)
      /\ selected' = IF default' = 0 THEN selected ELSE certs'[default'].key
  BY DEF SaveInventory
<1>2. Default(l, o) = IF default = 0 THEN {IF first = 0 THEN 0 ELSE o[first]}
                      ELSE IF default \in active THEN {default}
                      ELSE IF heirs = {} THEN {0}
                      ELSE {c \in heirs : \A d \in heirs : certs'[d].from <= certs'[c].from}
  BY DEF Default, Issued, FirstIn
<1>3. first = 0 \/ first \in 1 .. Len(o)
  <2>1. Len(certs') \in Nat /\ o \in Seq(1 .. Len(certs'))
    BY DEF Inventory, Certs
  <2> QED
    BY <2>1, FirstActive
<1>4. \A c \in active : Has(o, c)
  BY DEF Inventory
<1>5. heirs \subseteq active
  OBVIOUS
<1> HIDE DEF first, active, heirs
<1>6. default' = 0 \/ Has(o, default')
  <2>1. CASE default = 0
    BY <1>1, <1>2, <1>3, <2>1 DEF Has
  <2>2. CASE default # 0 /\ default \in active
    BY <1>1, <1>2, <2>2
  <2>3. CASE default # 0 /\ default \notin active
    BY <1>1, <1>2, <1>4, <1>5, <2>3
  <2> QED
    BY <2>1, <2>2, <2>3
<1>7. DeviceInv(certs', local', order', default')
  BY <1>1, <1>6 DEF DeviceInv, Inventory
<1>8. selected' \in Keys \cup {None}
  <2>1. CASE default' = 0
    BY <1>1, <2>1, Facts
  <2>2. CASE default' # 0
    <3>1. default' \in 1 .. Len(certs')
      BY <1>6, <2>2, ElementOfSeq DEF Inventory, Has
    <3>2. certs'[default'].key \in Keys
      BY <3>1, CertFields DEF Certs
    <3> QED
      BY <1>1, <2>2, <3>2
  <2> QED
    BY <2>1, <2>2
<1> QED
  BY <1>7, <1>8

\* What the device holds before a step.
LEMMA Held ==
  ASSUME IInv
  PROVE  Inventory(certs, local, order) /\ (default = 0 \/ Has(order, default))
  BY DEF IInv, DeviceInv, Inventory

\* The lifecycle of one certificate changes.
LEMMA SetLifecycle ==
  ASSUME NEW C, NEW l, NEW o, Inventory(C, l, o), NEW c \in 1 .. Len(C), NEW s \in Lifecycle,
         NEW m, m = Put(l, c, s), s # "absent" => Has(o, c),
         C[c].state = "revoked" /\ ~ C[c].unseen => s # "active"
  PROVE  Inventory(C, m, o) /\ m[c] = s /\ \A e \in 1 .. Len(C) : e # c => m[e] = l[e]
<1>1. l \in Seq(Lifecycle) /\ Len(l) = Len(C) /\ c \in 1 .. Len(l)
  BY DEF Inventory
<1>2. /\ m \in Seq(Lifecycle) /\ Len(m) = Len(l)
      /\ \A e \in 1 .. Len(l) : m[e] = IF e = c THEN s ELSE l[e]
  BY <1>1, ExceptSeq DEF Put
<1> QED
  BY <1>1, <1>2 DEF Inventory

\* The certificates change, and none in use is revoked by this device.
LEMMA SameInventory ==
  ASSUME NEW C, NEW D, NEW l, NEW o, Inventory(C, l, o), Len(D) = Len(C),
         \A c \in 1 .. Len(C) : D[c].state = "revoked" /\ ~ D[c].unseen =>
             l[c] # "active"
  PROVE  Inventory(D, l, o)
  BY DEF Inventory

\* A certificate joins the inventory's order.
LEMMA Joined ==
  ASSUME NEW n \in Nat, NEW o \in Seq(1 .. n), NEW c \in 1 .. n, NEW p, p = Append(o, c)
  PROVE  p \in Seq(1 .. n) /\ Has(p, c) /\ \A d : Has(o, d) => Has(p, d)
<1>1. /\ p \in Seq(1 .. n) /\ Len(p) = Len(o) + 1 /\ p[Len(o) + 1] = c /\ Len(o) \in Nat
      /\ \A i \in 1 .. Len(o) : p[i] = o[i]
  BY AppendProperties
<1>2. \A i \in 1 .. Len(o) : i \in 1 .. Len(p)
  BY <1>1
<1>3. \A d : Has(o, d) => Has(p, d)
  BY <1>1, <1>2 DEF Has
<1>4. Len(o) + 1 \in 1 .. Len(p)
  BY <1>1
<1> QED
  BY <1>1, <1>3, <1>4 DEF Has

\* One more certificate exists.
LEMMA Extended ==
  ASSUME NEW C, NEW D, NEW l, NEW o, Inventory(C, l, o), NEW s \in Lifecycle, NEW m, m = Append(l, s),
         C \in Seq(CertRec), Len(D) = Len(C) + 1,
         \A c \in 1 .. Len(C) : D[c].state = "revoked" /\ ~ D[c].unseen =>
             l[c] # "active",
         D[Len(C) + 1].state # "revoked",
         NEW p \in Seq(1 .. Len(D)), \A d : Has(o, d) => Has(p, d), s # "absent" => Has(p, Len(C) + 1)
  PROVE  Inventory(D, m, p)
<1>1. l \in Seq(Lifecycle) /\ Len(l) = Len(C) /\ o \in Seq(1 .. Len(C)) /\ Len(C) \in Nat
  BY DEF Inventory
<1>3. /\ m \in Seq(Lifecycle) /\ Len(m) = Len(l) + 1 /\ m[Len(l) + 1] = s
      /\ \A e \in 1 .. Len(l) : m[e] = l[e]
  BY <1>1, AppendProperties
<1>5. \A c \in 1 .. Len(D) : c \in 1 .. Len(C) \/ c = Len(C) + 1
  BY <1>1
<1> QED
  BY <1>1, <1>3, <1>5 DEF Inventory

\* A step of the device: the service's part of it and the save.
LEMMA DeviceStep ==
  ASSUME IInv, NoneUnderWay, Certs(certs'), Later(certs, certs', now),
         UNCHANGED <<now, issuer, signing, answer, check>>, NEW l, NEW o, SaveInventory(l, o),
         Inventory(certs', l, o), default = 0 \/ Has(o, default)
  PROVE  IInv'
  BY Saved, CertsStep

LEMMA EnrollStep ==
  ASSUME IInv, NoneUnderWay, NEW k \in Keys, Enroll(k)
  PROVE  IInv'
<1> DEFINE n == Len(certs)
           l == Append(local, "active")
           o == Append(order, n + 1)
<1>1. /\ certs' = Append(certs, Certificate(k)) /\ SaveInventory(l, o)
      /\ UNCHANGED <<now, issuer, signing, answer, check>>
  BY DEF Enroll
<1>2. Certs(certs) /\ now \in Nat /\ certs \in Seq(CertRec) /\ n \in Nat
  BY Facts
<1>3. /\ Certs(certs') /\ Len(certs') = n + 1 /\ Later(certs, certs', now)
      /\ certs'[n + 1] = Certificate(k) /\ \A e \in 1 .. n : certs'[e] = certs[e]
  BY <1>1, <1>2, IssuedCert
<1>4. Inventory(certs, local, order) /\ (default = 0 \/ Has(order, default))
  BY Held
<1>5. order \in Seq(1 .. (n + 1)) /\ n + 1 \in 1 .. (n + 1) /\ n + 1 \in Nat
  BY <1>2, <1>4 DEF Inventory
<1>6. o \in Seq(1 .. (n + 1)) /\ Has(o, n + 1) /\ \A d : Has(order, d) => Has(o, d)
  <2> DEFINE e == n + 1
  <2>1. order \in Seq(1 .. e) /\ e \in 1 .. e /\ e \in Nat /\ o = Append(order, e)
    BY <1>5
  <2> HIDE DEF e, o
  <2>2. o \in Seq(1 .. e) /\ Has(o, e) /\ \A d : Has(order, d) => Has(o, d)
    BY <2>1, Joined
  <2> QED
    BY <2>2 DEF e
<1>7. \A c \in 1 .. n : certs'[c].state = "revoked" /\ ~ certs'[c].unseen =>
             local[c] # "active"
  BY <1>3, <1>4 DEF Inventory
<1>8. certs'[n + 1].state # "revoked"
  BY <1>3 DEF Certificate
<1>9. "active" \in Lifecycle
  BY DEF Lifecycle
<1>10. Inventory(certs', l, o)
  <2> HIDE DEF o
  <2> QED
    BY <1>2, <1>3, <1>4, <1>6, <1>7, <1>8, <1>9, Extended
<1> HIDE DEF l, o
<1> QED
  BY <1>1, <1>3, <1>4, <1>6, <1>10, DeviceStep

LEMMA JournalStep ==
  ASSUME IInv, NoneUnderWay, NEW c \in Issued, JournalRenewal(c)
  PROVE  IInv'
<1> DEFINE x == [certs[c] EXCEPT !.asked = TRUE]
           l == Put(local, c, "renewal_pending")
<1>0. x = [certs[c] EXCEPT !.asked = TRUE]
  OBVIOUS
<1>1. /\ Certs(certs) /\ certs[c] \in CertRec /\ CertInv(certs[c]) /\ now \in Nat
      /\ c \in 1 .. Len(certs)
  BY Facts, CertFields DEF Certs
<1>2. /\ SaveInventory(l, order) /\ UNCHANGED <<now, issuer, signing, answer, check>>
      /\ local[c] = "active"
  BY DEF JournalRenewal, Put
<1>3. certs' = Put(certs, c, x)
  <2>1. certs \in [1 .. Len(certs) -> CertRec]
    BY Facts
  <2> QED
    BY <1>1, <2>1 DEF JournalRenewal, Put, CertRec
<1> HIDE DEF x
<1>4. /\ x \in CertRec /\ CertInv(x) /\ LaterCert(certs[c], x, now)
      /\ x.state = certs[c].state /\ (x.unseen <=> certs[c].unseen)
  BY <1>0, <1>1, MarkedCert
<1>5. /\ Certs(certs') /\ Len(certs') = Len(certs) /\ Later(certs, certs', now)
      /\ certs'[c] = x /\ \A e \in 1 .. Len(certs) : e # c => certs'[e] = certs[e]
  BY <1>1, <1>3, <1>4, UpdatedCert
<1>6. Inventory(certs, local, order) /\ (default = 0 \/ Has(order, default))
  BY Held
<1>7. Inventory(certs', local, order)
  <2>1. \A e \in 1 .. Len(certs) : certs'[e].state = "revoked" /\ ~ certs'[e].unseen => local[e] # "active"
    BY <1>4, <1>5, <1>6 DEF Inventory
  <2> QED
    BY <1>5, <1>6, <2>1, SameInventory
<1>8. Has(order, c) /\ "renewal_pending" \in Lifecycle
  BY <1>1, <1>2, <1>6 DEF Inventory, Lifecycle
<1>9. Inventory(certs', l, order)
  BY <1>1, <1>5, <1>7, <1>8, SetLifecycle
<1> HIDE DEF l
<1> QED
  BY <1>2, <1>5, <1>6, <1>9, DeviceStep

\* The steps that change no certificate.
LEMMA InstallStep ==
  ASSUME IInv, NoneUnderWay, NEW c \in Issued, Install(c)
  PROVE  IInv'
<1>1. PICK d \in Issued :
          /\ local[d] = "absent" /\ certs[d].state = "valid" /\ certs' = certs
          /\ SaveInventory([local EXCEPT ![c] = "revoked", ![d] = "active"], Append(order, d))
  BY DEF Install
<1> DEFINE m == Put(local, c, "revoked")
           l == Put(m, d, "active")
           o == Append(order, d)
<1>2. /\ local[c] = "renewal_pending" /\ UNCHANGED <<now, issuer, signing, answer, check>>
      /\ SaveInventory(l, o)
  BY <1>1 DEF Install, Put
<1>3. /\ Certs(certs) /\ c \in 1 .. Len(certs) /\ d \in 1 .. Len(certs) /\ Len(certs) \in Nat
      /\ order \in Seq(1 .. Len(certs)) /\ CertInv(certs[d])
  BY Facts DEF Certs
<1>4. Inventory(certs, local, order) /\ (default = 0 \/ Has(order, default))
  BY Held
<1>5. o \in Seq(1 .. Len(certs)) /\ Has(o, d) /\ \A e : Has(order, e) => Has(o, e)
  BY <1>3, Joined
<1> HIDE DEF o
<1>6. Inventory(certs, local, o)
  BY <1>4, <1>5 DEF Inventory
<1>7. Has(o, c) /\ "revoked" \in Lifecycle /\ "active" \in Lifecycle
  BY <1>2, <1>3, <1>6 DEF Inventory, Lifecycle
<1>8. Inventory(certs, m, o)
  BY <1>3, <1>6, <1>7, SetLifecycle
<1> HIDE DEF m
<1>9. certs[d].state # "revoked"
  BY <1>1
<1>10. Inventory(certs, l, o)
  BY <1>3, <1>5, <1>7, <1>8, <1>9, SetLifecycle
<1> HIDE DEF l
<1>11. Later(certs, certs, now)
  BY SameCerts
<1> QED
  BY <1>1, <1>2, <1>3, <1>4, <1>5, <1>10, <1>11, DeviceStep

LEMMA RestoreStep ==
  ASSUME IInv, NoneUnderWay, NEW c \in Issued, Restore(c)
  PROVE  IInv'
<1> DEFINE l == Put(local, c, "active")
<1>1. /\ SaveInventory(l, order) /\ UNCHANGED <<now, issuer, signing, answer, check>>
      /\ local[c] = "renewal_pending" /\ certs' = certs /\ certs[c].state = "valid"
  BY DEF Restore, Put
<1>2. Certs(certs) /\ c \in 1 .. Len(certs) /\ CertInv(certs[c])
  BY Facts DEF Certs
<1>3. Inventory(certs, local, order) /\ (default = 0 \/ Has(order, default))
  BY Held
<1>4. Has(order, c) /\ "active" \in Lifecycle /\ certs[c].state # "revoked"
  BY <1>1, <1>2, <1>3 DEF Inventory, Lifecycle
<1>5. Inventory(certs, l, order)
  BY <1>2, <1>3, <1>4, SetLifecycle
<1> HIDE DEF l
<1>6. Later(certs, certs, now)
  BY SameCerts
<1> QED
  BY <1>1, <1>2, <1>3, <1>5, <1>6, DeviceStep

LEMMA RevokeHereStep ==
  ASSUME IInv, NoneUnderWay, NEW c \in Issued, RevokeHere(c)
  PROVE  IInv'
<1> DEFINE l == Put(local, c, "revoked")
<1>1. /\ SaveInventory(l, order) /\ UNCHANGED <<now, issuer, signing, answer, check>>
      /\ local[c] \in {"active", "renewal_pending"}
      /\ certs' = IF certs[c].state = "revoked" THEN certs ELSE Revoked(c, "compromise", "lost")
  BY DEF RevokeHere, Put
<1>2. /\ Certs(certs) /\ c \in 1 .. Len(certs) /\ CertInv(certs[c]) /\ certs[c] \in CertRec
      /\ now \in Nat
  BY Facts, CertFields DEF Certs
<1>3. Inventory(certs, local, order) /\ (default = 0 \/ Has(order, default))
  BY Held
<1>4. Has(order, c) /\ "revoked" \in Lifecycle
  BY <1>1, <1>2, <1>3 DEF Inventory, Lifecycle
<1>5. Inventory(certs, l, order) /\ l[c] = "revoked"
  BY <1>2, <1>3, <1>4, SetLifecycle
<1> HIDE DEF l
<1>6. Certs(certs') /\ Later(certs, certs', now) /\ Inventory(certs', l, order)
  <2>1. CASE certs[c].state = "revoked"
    BY <1>1, <1>2, <1>5, <2>1, SameCerts
  <2>2. CASE certs[c].state # "revoked"
    <3> DEFINE x == RevokedAs(certs[c], now, "compromise", "lost")
    <3>0. x = RevokedAs(certs[c], now, "compromise", "lost")
      OBVIOUS
    <3> HIDE DEF x
    <3>1. certs' = Put(certs, c, x)
      BY <1>1, <2>2, <3>0, RevokedIs
    <3>2. x \in CertRec /\ CertInv(x) /\ LaterCert(certs[c], x, now) /\ x.category = "compromise"
      BY <1>2, <2>2, <3>0, RevokedCert
    <3>3. /\ Certs(certs') /\ Len(certs') = Len(certs) /\ Later(certs, certs', now)
          /\ certs'[c] = x /\ \A e \in 1 .. Len(certs) : e # c => certs'[e] = certs[e]
      BY <1>2, <3>1, <3>2, UpdatedCert
    <3>4. \A e \in 1 .. Len(certs) : certs'[e].state = "revoked" /\ ~ certs'[e].unseen => l[e] # "active"
      BY <1>5, <3>3 DEF Inventory
    <3>5. Inventory(certs', l, order)
      BY <1>5, <3>3, <3>4, SameInventory
    <3> QED
      BY <3>3, <3>5
  <2> QED
    BY <2>1, <2>2
<1> QED
  BY <1>1, <1>3, <1>6, DeviceStep

\* A renewal revokes its predecessor and issues the replacement; the predecessor
\* is marked unseen unless the device still waits for it.
LEMMA IssueRenewalStep ==
  ASSUME IInv, NoneUnderWay, NEW c \in Issued, IssueRenewal(c)
  PROVE  IInv'
<1> DEFINE n == Len(certs)
           y == certs[c]
           z == Certificate(y.key)
           x == RevokedAs(y, now, "supersession", "renewed")
           unseen == local[c] # "renewal_pending"
           w == [x EXCEPT !.asked = FALSE, !.unseen = unseen]
           R == Revoked(c, "supersession", "renewed")
           A == Append(R, z)
<1>1. /\ y.state = "valid" /\ local' = Append(local, "absent")
      /\ order' = order /\ default' = default /\ selected' = selected
      /\ UNCHANGED <<now, issuer, signing, answer, check>>
  BY DEF IssueRenewal
<1>2. certs' = [A EXCEPT ![c].asked = FALSE, ![c].unseen = unseen]
  BY DEF IssueRenewal
<1>3. /\ Certs(certs) /\ certs \in Seq(CertRec) /\ n \in Nat /\ c \in 1 .. n /\ now \in Nat
      /\ y \in CertRec /\ CertInv(y) /\ y.key \in Keys
  BY Facts, CertFields DEF Certs
<1>4. x = RevokedAs(y, now, "supersession", "renewed")
  OBVIOUS
<1>5. R = Put(certs, c, x)
  <2> HIDE DEF x
  <2> QED
    BY <1>4, RevokedIs
<1>6. x \in CertRec /\ CertInv(x) /\ LaterCert(y, x, now)
      /\ x.category = "supersession" /\ x.key = y.key /\ x.state = "revoked" /\ x.at = now
  <2>1. y.state # "revoked" /\ y \in CertRec /\ CertInv(y) /\ now \in Nat
    BY <1>1, <1>3
  <2> HIDE DEF x, y
  <2> QED
    BY <1>4, <2>1, RevokedCert
<1>7. w \in CertRec /\ CertInv(w) /\ LaterCert(y, w, now) /\ (w.unseen <=> unseen) /\ w.state = "revoked"
  <2> HIDE DEF x, y, unseen
  <2>0. unseen \in BOOLEAN
    BY Zenon DEF unseen
  <2>1. w \in CertRec
    BY <1>6, <2>0 DEF CertRec
  <2>2. /\ w.key = x.key /\ w.from = x.from /\ w.state = x.state /\ w.at = x.at
        /\ w.category = x.category /\ w.reason = x.reason /\ w.unseen = unseen
    BY <1>6 DEF CertRec
  <2> HIDE DEF w
  <2>3. CertInv(w) /\ w.state = "revoked"
    BY <1>6, <2>2 DEF CertInv
  <2>4. LaterCert(y, w, now)
    BY <1>1, <1>6, <2>2 DEF LaterCert
  <2> QED
    BY <2>1, <2>2, <2>3, <2>4
<1>8. /\ R \in Seq(CertRec) /\ Len(R) = n /\ R[c] = x
      /\ \A e \in 1 .. n : e # c => R[e] = certs[e]
  <2> HIDE DEF x, R
  <2> QED
    BY <1>3, <1>5, <1>6, ExceptSeq DEF Put
<1>9. z \in CertRec /\ CertInv(z) /\ z.state # "revoked"
  BY <1>3 DEF Certificate, CertRec, CertStates, Categories, Reasons, CertInv
<1>10. /\ A \in Seq(CertRec) /\ Len(A) = n + 1 /\ A[n + 1] = z /\ A[c] = x
       /\ \A e \in 1 .. n : e # c => A[e] = certs[e]
  <2> HIDE DEF x, R, z
  <2> QED
    BY <1>3, <1>8, <1>9, AppendProperties
<1>11. certs' = Put(A, c, w)
  <2> HIDE DEF x, A, unseen
  <2>1. A \in [1 .. (n + 1) -> CertRec] /\ c \in 1 .. (n + 1)
    BY <1>3, <1>10
  <2> QED
    BY <1>2, <1>6, <1>10, <2>1 DEF Put, CertRec
<1> HIDE DEF x, A, unseen, R, z, w
<1>12. /\ certs' \in Seq(CertRec) /\ Len(certs') = n + 1 /\ certs'[n + 1] = z /\ certs'[c] = w
       /\ \A e \in 1 .. n : e # c => certs'[e] = certs[e]
  <2>1. c \in 1 .. Len(A)
    BY <1>3, <1>10
  <2>2. /\ certs' \in Seq(CertRec) /\ Len(certs') = Len(A)
        /\ \A e \in 1 .. Len(A) : certs'[e] = IF e = c THEN w ELSE A[e]
    BY <1>7, <1>10, <1>11, <2>1, ExceptSeq DEF Put
  <2> QED
    BY <1>3, <1>10, <2>1, <2>2
<1>13. \A e \in 1 .. Len(certs') : e \in 1 .. n \/ e = n + 1
  BY <1>3, <1>12
<1>14. Certs(certs')
  BY <1>3, <1>7, <1>9, <1>12, <1>13 DEF Certs
<1>15. Later(certs, certs', now)
  <2>1. \A v : LaterCert(v, v, now)
    BY DEF LaterCert
  <2> QED
    BY <1>3, <1>7, <1>12, <2>1 DEF Later
<1>16. Inventory(certs, local, order) /\ (default = 0 \/ Has(order, default))
  BY Held
<1>17. "absent" \in Lifecycle /\ order \in Seq(1 .. Len(certs'))
  BY <1>3, <1>12, <1>16 DEF Inventory, Lifecycle
<1>18. \A e \in 1 .. n : certs'[e].state = "revoked" /\ ~ certs'[e].unseen =>
             local[e] # "active"
  BY <1>7, <1>12, <1>16 DEF Inventory, unseen
<1>19. Inventory(certs', local', order)
  BY <1>1, <1>3, <1>9, <1>12, <1>16, <1>17, <1>18, Extended
<1>20. DeviceInv(certs', local', order', default')
  BY <1>1, <1>16, <1>19 DEF DeviceInv, Inventory
<1>21. selected' \in Keys \cup {None}
  BY <1>1, Facts
<1> QED
  BY <1>1, <1>14, <1>15, <1>20, <1>21, CertsStep
-----------------------------------------------------------------------------
\* What the signer is chosen from is in force.
LEMMA ResolvedStep ==
  ASSUME IInv, NoneUnderWay, NEW c \in Issued, Usable(c), Resolved(c)
  PROVE  IInv'
<1>1. /\ choice' = [cert |-> c, at |-> now] /\ archive' = archive /\ vols' = vols
      /\ UNCHANGED <<now, certs, issuer, local, order, default, selected, answer, check>>
  BY DEF Resolved, service, device
<1>2. /\ Certs(certs) /\ now \in Nat /\ issuer \in IssuerRec /\ selected \in Keys \cup {None}
      /\ c \in 1 .. Len(certs)
  BY Facts
<1>3. /\ DeviceInv(certs, local, order, default) /\ AnswerInv(answer, certs, issuer, now)
      /\ SigningInv(choice, archive, certs, now)
  BY DEF IInv
<1>4. local[c] = "active" /\ certs[c].from <= now /\ now < certs[c].from + Life
  <2>1. certs[c].from \in Nat
    BY <1>2, CertFields DEF Certs
  <2> QED
    BY <1>2, <2>1 DEF Usable, Until
<1>5. InForce(c, now, certs, now)
  BY <1>2, <1>3, <1>4 DEF InForce, DeviceInv
<1>6. choice'.cert = c /\ choice'.at = now
  BY <1>1
<1>7. SigningInv(choice', archive, certs, now)
  BY <1>3, <1>5, <1>6 DEF SigningInv
<1> QED
  BY <1>1, <1>2, <1>3, <1>7, IdleStep

LEMMA ResolveSteps ==
  ASSUME IInv, NoneUnderWay
  PROVE  /\ \A c \in Issued : ResolveNamed(c) => IInv'
         /\ ResolveFromCatalog => IInv'
         /\ \A k \in Keys : ResolveFromInventory(k) => IInv'
<1>1. \A c \in Issued : ResolveNamed(c) => IInv'
  BY ResolvedStep DEF ResolveNamed
<1>2. ASSUME ResolveFromCatalog PROVE IInv'
  <2>1. \E c \in Issued : Usable(c) /\ Resolved(c)
    BY <1>2 DEF ResolveFromCatalog, Newest
  <2> QED
    BY <2>1, ResolvedStep
<1>3. ASSUME NEW k \in Keys, ResolveFromInventory(k) PROVE IInv'
  <2> DEFINE newest == Newest({c \in Issued : Usable(c) /\ certs[c].key = k})
             last == LastIn(order, newest)
  <2>1. newest # {} /\ Resolved(order[last])
    BY <1>3 DEF ResolveFromInventory, LastIn
  <2>2. \A c \in newest : c \in Issued /\ Usable(c)
    BY DEF Newest
  <2> HIDE DEF newest
  <2>3. PICK c \in newest : TRUE
    BY <2>1
  <2>4. Has(order, c)
    BY <2>2, Held, Facts DEF Usable, Inventory
  <2>5. PICK j \in 1 .. Len(order) : order[j] \in newest
    BY <2>3, <2>4 DEF Has
  <2>6. Len(certs) \in Nat /\ order \in Seq(1 .. Len(certs))
    BY Facts
  <2>7. order[last] \in newest
    BY <2>5, <2>6, LastNewest
  <2> HIDE DEF last
  <2> QED
    BY <2>1, <2>2, <2>7, ResolvedStep
<1> QED
  BY <1>1, <1>2, <1>3

LEMMA SignStep ==
  ASSUME IInv, NoneUnderWay, Sign
  PROVE  IInv'
<1>1. /\ archive' = [cert |-> choice.cert, chosen |-> choice.at, signed |-> now] /\ choice' = None
      /\ vols' = vols /\ choice # None
      /\ UNCHANGED <<now, certs, issuer, local, order, default, selected, answer, check>>
  BY DEF Sign, service, device
<1>2. /\ Certs(certs) /\ now \in Nat /\ issuer \in IssuerRec /\ selected \in Keys \cup {None}
  BY Facts
<1>3. /\ DeviceInv(certs, local, order, default) /\ AnswerInv(answer, certs, issuer, now)
      /\ InForce(choice.cert, choice.at, certs, now)
  BY <1>1 DEF IInv, SigningInv
<1>4. archive'.cert = choice.cert /\ archive'.chosen = choice.at /\ archive'.signed = now
  BY <1>1
<1>5. SigningInv(choice', archive', certs, now)
  BY <1>1, <1>2, <1>3, <1>4 DEF SigningInv, InForce
<1> QED
  BY <1>1, <1>2, <1>3, <1>5, IdleStep

\* An answer is true when it is given.
LEMMA FetchStep ==
  ASSUME IInv, NoneUnderWay, NEW c \in Issued, Fetch(c)
  PROVE  IInv'
<1>1. PICK window \in 1 .. MaxWindow + 1, category \in {certs[c].category, "none"} :
          answer' = [cert |-> c, status |-> ServiceStatus(c), this |-> now, next |-> now + window,
                     at |-> certs[c].at, reason |-> certs[c].reason, category |-> category]
  BY DEF Fetch
<1>2. UNCHANGED <<now, certs, issuer, local, order, default, selected, choice, archive, vols, check>>
  BY DEF Fetch, service, device, signing
<1>3. /\ Certs(certs) /\ now \in Nat /\ issuer \in IssuerRec /\ selected \in Keys \cup {None}
      /\ c \in 1 .. Len(certs) /\ certs \in Seq(CertRec) /\ MaxWindow \in Nat /\ Len(certs) \in Nat
  BY Facts
<1>4. /\ DeviceInv(certs, local, order, default) /\ SigningInv(choice, archive, certs, now)
  BY DEF IInv
<1> DEFINE a == answer'
<1>5. /\ a.cert = c /\ a.status = ServiceStatus(c) /\ a.this = now /\ a.at = certs[c].at
      /\ a.reason = certs[c].reason /\ a.category = category
  BY <1>1
<1>6. /\ certs[c].at \in Nat /\ certs[c].reason \in Reasons /\ certs[c].category \in Categories
      /\ certs[c].state \in CertStates /\ certs[c].from \in Nat /\ Life \in Nat
  BY <1>3, CertFields, Facts
<1>7. /\ ServiceStatus(c) \in Statuses
      /\ ServiceStatus(c) = "valid" => issuer.state = "valid" /\ certs[c].state = "valid" /\ now < certs[c].from + Life
      /\ ServiceStatus(c) = "revoked" => certs[c].state = "revoked"
  <2>1. issuer = Healthy \/ issuer.state \in {"issuer_revoked", "issuer_suspended"}
    BY <1>3 DEF IssuerRec
  <2>2. CASE issuer = Healthy
    <3>1. issuer.state = "valid"
      BY <2>2 DEF Healthy
    <3>2. ServiceStatus(c) = IF certs[c].state # "valid" THEN certs[c].state
                             ELSE IF now >= Until(c) THEN "expired" ELSE "valid"
      BY <2>2 DEF ServiceStatus
    <3>3. ~ (now >= Until(c)) => now < certs[c].from + Life
      BY <1>3, <1>6 DEF Until
    <3> QED
      BY <1>6, <3>1, <3>2, <3>3 DEF CertStates, Statuses
  <2>3. CASE issuer # Healthy
    BY <2>1, <2>3 DEF ServiceStatus, Statuses
  <2> QED
    BY <2>2, <2>3
<1>8. a \in AnswerRec
  <2>1. c \in Nat /\ now + window \in Nat /\ category \in Categories
    BY <1>3, <1>6 DEF Categories
  <2> QED
    BY <1>1, <1>3, <1>6, <1>7, <2>1 DEF AnswerRec
<1>9. AnswerInv(answer', certs, issuer, now)
  <2> HIDE DEF a
  <2>1. AnswerInv(a, certs, issuer, now)
    BY <1>3, <1>5, <1>7, <1>8 DEF AnswerInv
  <2> QED
    BY <2>1 DEF a
<1> QED
  BY <1>2, <1>3, <1>4, <1>9, IdleStep
-----------------------------------------------------------------------------
\* Only the verification goes on.
LEMMA CheckStep ==
  ASSUME IInv, UNCHANGED <<now, service, device, signing, answer, budget>>, CheckInv', VerdictInv'
  PROVE  IInv'
<1>1. UNCHANGED <<now, certs, issuer, local, order, default, selected, choice, archive, vols, answer>>
  BY DEF service, device, signing
<1>2. BaseInv'
  BY <1>1 DEF IInv, BaseInv
<1> QED
  BY <1>1, <1>2 DEF IInv

\* A verdict that the volumes alone explain.
LEMMA VerdictStep ==
  ASSUME IInv, UNCHANGED <<now, service, device, signing, answer, budget>>, archive # None,
         NEW outcome, NEW v, NEW official, check' = Judged(outcome, v, official),
         outcome \in {"not_signed", "unverifiable", "error", "failed"},
         outcome = "not_signed" => \A i \in 1 .. Volumes : vols[i] \in {"stripped", "foreign"},
         outcome # "not_signed" => ~ Intact
  PROVE  IInv'
<1>1. check'.pc = "done" /\ check'.outcome = outcome
  BY DEF Judged
<1>2. vols' = vols /\ archive' = archive
  BY DEF signing
<1>3. CheckInv'
  BY <1>1, <1>2 DEF CheckInv
<1>4. Intact' <=> Intact
  BY <1>2 DEF Intact
<1>5. VerdictInv'
  BY <1>1, <1>2, <1>4 DEF VerdictInv
<1> QED
  BY <1>3, <1>5, CheckStep

\* An untouched archive has all its volumes.
LEMMA IntactIs ==
  ASSUME IInv, Intact
  PROVE  /\ vols = [i \in 1 .. Volumes |-> "own"] /\ Present(vols) = 1 .. Volumes
         /\ 1 \in 1 .. Volumes
<1>1. vols \in [1 .. Volumes -> Kinds] /\ Volumes \in Nat \ {0}
  BY Facts DEF IInv, BaseInv
<1> QED
  BY <1>1 DEF Intact, Present

\* Damage is not undone, and explains what it follows.
LEMMA DamageStep ==
  ASSUME IInv, NEW i \in 1 .. Volumes, Damage(i)
  PROVE  IInv'
<1>1. PICK d \in Damages : vols' = [vols EXCEPT ![i] = d]
  BY DEF Damage
<1>2. /\ vols[i] = "own"
      /\ UNCHANGED <<now, certs, issuer, local, order, default, selected, choice, archive, answer, check>>
  BY DEF Damage, service, device
<1>3. vols \in [1 .. Volumes -> Kinds] /\ 1 \in 1 .. Volumes
  BY Facts DEF IInv, BaseInv
<1>4. /\ vols' \in [1 .. Volumes -> Kinds] /\ vols'[i] # "own"
      /\ \A j \in 1 .. Volumes : j # i => vols'[j] = vols[j]
  BY <1>1, <1>3 DEF Kinds, Damages
<1>5. BaseInv'
  BY <1>2, <1>4 DEF IInv, BaseInv
<1>6. CheckInv'
  BY <1>2, <1>3, <1>4 DEF IInv, CheckInv
<1>7. ~ Intact'
  BY <1>4 DEF Intact
<1>8. VerdictInv'
  <2>1. VerdictInv
    BY DEF IInv
  <2>2. check.pc = "done" => check.outcome # "not_signed"
    BY <1>2, <2>1 DEF VerdictInv
  <2> QED
    BY <1>2, <1>7, <2>1, <2>2 DEF VerdictInv, RecentlyGood, InDate, BadSince, Until
<1> QED
  BY <1>2, <1>5, <1>6, <1>8 DEF IInv

LEMMA ReadMetadataStep ==
  ASSUME IInv, ReadMetadata
  PROVE  IInv'
<1> DEFINE foreign == {i \in Present(vols) : vols[i] = "foreign"}
<1>1. /\ archive # None /\ UNCHANGED <<now, service, device, signing, answer, budget>>
      /\ check' = IF foreign \notin {{}, Present(vols)} \/ Present(vols) = {} THEN Verdict("failed", now)
                  ELSE IF Present(vols) # 1 .. Volumes THEN Verdict("unverifiable", now)
                  ELSE [pc |-> "footers", first |-> vols[1]]
  BY DEF ReadMetadata
<1>2. Intact => foreign = {} /\ Present(vols) # {} /\ Present(vols) = 1 .. Volumes
  BY IntactIs DEF Intact
<1> HIDE DEF foreign
<1>3. CASE foreign \notin {{}, Present(vols)} \/ Present(vols) = {}
  <2>1. check' = Verdict("failed", now) /\ ~ Intact
    BY <1>1, <1>2, <1>3
  <2> QED
    BY <1>1, <2>1, VerdictStep DEF Verdict
<1>4. CASE /\ ~ (foreign \notin {{}, Present(vols)} \/ Present(vols) = {})
           /\ Present(vols) # 1 .. Volumes
  <2>1. check' = Verdict("unverifiable", now) /\ ~ Intact
    BY <1>1, <1>2, <1>4
  <2> QED
    BY <1>1, <2>1, VerdictStep DEF Verdict
<1>5. CASE /\ ~ (foreign \notin {{}, Present(vols)} \/ Present(vols) = {})
           /\ Present(vols) = 1 .. Volumes
  <2>1. check' = [pc |-> "footers", first |-> vols[1]]
    BY <1>1, <1>5
  <2>2. check'.pc = "footers" /\ check'.first = vols[1] /\ vols' = vols /\ archive' = archive
    BY <1>1, <2>1 DEF signing
  <2>3. vols[1] \in Kinds
    <3>1. vols \in [1 .. Volumes -> Kinds] /\ 1 \in 1 .. Volumes
      BY BudgetsAssumption DEF IInv, BaseInv
    <3> QED
      BY <3>1
  <2>4. CheckInv'
    BY <1>1, <2>2, <2>3 DEF CheckInv
  <2>5. VerdictInv'
    BY <2>2 DEF VerdictInv
  <2> QED
    BY <1>1, <2>4, <2>5, CheckStep
<1> QED
  BY <1>3, <1>4, <1>5

\* aggregate_public_footer_status: "unsigned" of all volumes or of none, and a
\* signed archive is seen as signed.
LEMMA AggregateIs ==
  ASSUME NEW seen \in [1 .. Volumes -> Kinds]
  PROVE  /\ Aggregate(seen) = "unsigned" =>
               \A i \in 1 .. Volumes : seen[i] \in {"stripped", "foreign"}
         /\ (\A i \in 1 .. Volumes : seen[i] = "own") => Aggregate(seen) = "signed"
<1> DEFINE footers == {Footer(seen[i]) : i \in 1 .. Volumes}
           f == CHOOSE g \in footers : TRUE
<1>0. 1 \in 1 .. Volumes /\ DOMAIN seen = 1 .. Volumes /\ Volumes \in Nat
  BY BudgetsAssumption
<1>1. Aggregate(seen) = IF Present(seen) # 1 .. Volumes \/ Cardinality(footers) > 1 THEN "unavailable" ELSE f
  BY <1>0 DEF Aggregate
<1>2. f \in footers /\ \A i \in 1 .. Volumes : Footer(seen[i]) \in footers
  BY <1>0
<1>3. IsFiniteSet(footers)
  <2> DEFINE S1 == {"unsigned"}
             S2 == S1 \cup {"unavailable"}
             S3 == S2 \cup {"not_authentic"}
             S4 == S3 \cup {"signed"}
  <2>1. IsFiniteSet(S1)
    BY FS_Singleton
  <2>2. IsFiniteSet(S2)
    <3> HIDE DEF S1
    <3> QED
      BY <2>1, FS_AddElement
  <2>3. IsFiniteSet(S3)
    <3> HIDE DEF S2
    <3> QED
      BY <2>2, FS_AddElement
  <2>4. IsFiniteSet(S4)
    <3> HIDE DEF S3
    <3> QED
      BY <2>3, FS_AddElement
  <2>5. footers \in SUBSET S4
    BY DEF Footer
  <2> HIDE DEF S4, footers
  <2> QED
    BY <2>4, <2>5, FS_Subset
<1>4. ASSUME Aggregate(seen) = "unsigned", NEW i \in 1 .. Volumes
      PROVE  seen[i] \in {"stripped", "foreign"}
  <2> HIDE DEF footers, f
  <2>1. f = "unsigned" /\ ~ (Cardinality(footers) > 1)
    BY <1>1, <1>4
  <2>2. Footer(seen[i]) = f
    BY <1>2, <1>3, <2>1, AtMostOne
  <2>3. seen[i] \in Kinds
    OBVIOUS
  <2> QED
    BY <2>1, <2>2, <2>3 DEF Footer, Kinds, Damages
<1>5. ASSUME \A i \in 1 .. Volumes : seen[i] = "own"
      PROVE  Aggregate(seen) = "signed"
  <2>1. Footer("own") = "signed"
    BY DEF Footer
  <2>2. footers = {"signed"}
    BY <1>0, <1>5, <2>1
  <2>3. Cardinality(footers) = 1
    BY <2>2, FS_Singleton
  <2>4. f = "signed"
    BY <1>2, <2>2
  <2>5. Present(seen) = 1 .. Volumes
    BY <1>0, <1>5 DEF Present
  <2> HIDE DEF footers, f
  <2> QED
    BY <1>1, <2>3, <2>4, <2>5
<1> QED
  BY <1>4, <1>5

\* The first volume that stayed open shows what the volume is, or what it was
\* before it was damaged.
LEMMA ReadFootersStep ==
  ASSUME IInv, ReadFooters
  PROVE  IInv'
<1>1. PICK first \in {vols[1]} \cup (IF vols[1] = "missing" THEN {} ELSE {check.first}) :
          check' = CASE Aggregate([vols EXCEPT ![1] = first]) = "unsigned"      -> Verdict("not_signed", now)
                     [] Aggregate([vols EXCEPT ![1] = first]) = "unavailable"   -> Verdict("unverifiable", now)
                     [] Aggregate([vols EXCEPT ![1] = first]) = "not_authentic" -> Verdict("failed", now)
                     [] OTHER -> [pc |-> "readers"]
  BY DEF ReadFooters
<1> DEFINE seen == [vols EXCEPT ![1] = first]
           A == Aggregate(seen)
<1>2. /\ check.pc = "footers" /\ UNCHANGED <<now, service, device, signing, answer, budget>>
  BY DEF ReadFooters
<1>3. /\ vols \in [1 .. Volumes -> Kinds] /\ 1 \in 1 .. Volumes
  BY BudgetsAssumption DEF IInv, BaseInv
<1>4. archive # None /\ check.first \in Kinds /\ (check.first # "own" => vols[1] = check.first)
  BY <1>2 DEF IInv, CheckInv
<1>5. first \in Kinds /\ (first # "own" => vols[1] = first)
  BY <1>1, <1>3, <1>4
<1>6. /\ seen \in [1 .. Volumes -> Kinds] /\ seen[1] = first
      /\ \A i \in 1 .. Volumes : i # 1 => seen[i] = vols[i]
  BY <1>3, <1>5
<1>7. /\ A = "unsigned" => check' = Verdict("not_signed", now)
      /\ A = "unavailable" => check' = Verdict("unverifiable", now)
      /\ A = "not_authentic" => check' = Verdict("failed", now)
      /\ A \notin {"unsigned", "unavailable", "not_authentic"} => check' = [pc |-> "readers"]
  <2>1. check' = CASE A = "unsigned"      -> Verdict("not_signed", now)
                   [] A = "unavailable"   -> Verdict("unverifiable", now)
                   [] A = "not_authentic" -> Verdict("failed", now)
                   [] OTHER -> [pc |-> "readers"]
    BY <1>1
  <2> HIDE DEF A
  <2> QED
    BY <2>1
<1> HIDE DEF seen
<1>8. /\ A = "unsigned" => \A i \in 1 .. Volumes : seen[i] \in {"stripped", "foreign"}
      /\ (\A i \in 1 .. Volumes : seen[i] = "own") => A = "signed"
  BY <1>6, AggregateIs
<1> HIDE DEF A
<1>9. A = "unsigned" => \A i \in 1 .. Volumes : vols[i] \in {"stripped", "foreign"}
  BY <1>5, <1>6, <1>8
<1>10. Intact => A = "signed"
  <2>1. Intact => \A i \in 1 .. Volumes : seen[i] = "own"
    BY <1>3, <1>5, <1>6 DEF Intact
  <2> QED
    BY <1>8, <2>1
<1>11. CASE A = "unsigned"
  BY <1>2, <1>4, <1>7, <1>9, <1>11, VerdictStep DEF Verdict
<1>12. CASE A = "unavailable"
  <2>1. ~ Intact
    BY <1>10, <1>12
  <2> QED
    BY <1>2, <1>4, <1>7, <1>12, <2>1, VerdictStep DEF Verdict
<1>13. CASE A = "not_authentic"
  <2>1. ~ Intact
    BY <1>10, <1>13
  <2> QED
    BY <1>2, <1>4, <1>7, <1>13, <2>1, VerdictStep DEF Verdict
<1>14. CASE A \notin {"unsigned", "unavailable", "not_authentic"}
  <2>1. check'.pc = "readers" /\ archive' = archive
    BY <1>2, <1>7, <1>14 DEF signing
  <2>2. CheckInv' /\ VerdictInv'
    BY <1>4, <2>1 DEF CheckInv, VerdictInv
  <2> QED
    BY <1>2, <2>2, CheckStep
<1> QED
  BY <1>11, <1>12, <1>13, <1>14

\* is_fresh_valid_for_valid_now: what a fresh answer calls valid was good within
\* the last window.
LEMMA FreshIsRecent ==
  ASSUME IInv, answer # None, NEW v \in Nat, FreshValid(answer, v)
  PROVE  RecentlyGood(answer.cert, v)
<1> DEFINE c == answer.cert
<1>1. /\ answer \in AnswerRec /\ c \in 1 .. Len(certs) /\ answer.status = "valid"
      /\ answer.this < certs[c].from + Life
      /\ certs[c].state # "valid" => certs[c].at >= answer.this
      /\ issuer.state # "valid" => issuer.at >= answer.this
  BY DEF IInv, AnswerInv, FreshValid
<1>2. answer.this \in Nat /\ answer.next \in Nat
  BY <1>1 DEF AnswerRec
<1>3. /\ Skew \in Nat /\ MaxWindow \in Nat /\ Life \in Nat
      /\ certs \in Seq(CertRec) /\ issuer \in IssuerRec
  BY Facts
<1>4. answer.this > v - Window
  BY <1>2, <1>3 DEF FreshValid, Window
<1>5. certs[c].at \in Nat /\ certs[c].from \in Nat
  BY <1>1, <1>3, CertFields
<1>6. issuer.state # "valid" => issuer.at \in Nat
  BY <1>3 DEF IssuerRec, Healthy
<1>7. Until(c) \in Nat /\ Until(c) >= answer.this
  <2>1. Until(c) = certs[c].from + Life
    BY DEF Until
  <2> HIDE DEF c
  <2> QED
    BY <1>1, <1>2, <1>3, <1>5, <2>1
<1>8. Window \in Nat
  BY <1>3 DEF Window
<1>9. ASSUME NEW t \in BadSince(c) \cup {Until(c)} PROVE t > v - Window
  <2>1. t \in Nat /\ t >= answer.this
    BY <1>1, <1>5, <1>6, <1>7, <1>9 DEF BadSince
  <2> QED
    BY <1>2, <1>4, <1>8, <2>1
<1> QED
  BY <1>9 DEF RecentlyGood

\* Derive over the three axes, for an archive nobody touched.
LEMMA Composed ==
  ASSUME IInv, archive # None, NEW v \in Nat, NEW official \in BOOLEAN, NEW outcome,
         outcome = Derive(TrustAxis(archive.cert, archive.signed, official),
                          TimeAxis(archive.cert, archive.signed, v),
                          StatusAxis(answer, archive.cert, archive.signed, v))
  PROVE  LET cert == certs[archive.cert]
             ofCert == answer # None /\ answer.cert = archive.cert
             revoked == ofCert /\ answer.status = "revoked"
         IN /\ outcome \in {"failed", "verified", "caveat"}
            /\ outcome = "failed" =>
                  \/ ~ official
                  \/ archive.signed >= Until(archive.cert)
                  \/ ofCert /\ answer.status = "suspended"
                  \/ revoked /\ (cert.category = "compromise" \/ archive.signed >= cert.at)
            /\ outcome \in {"verified", "caveat"} =>
                  /\ official
                  /\ ~ /\ revoked
                       /\ \/ archive.signed >= cert.at
                          \/ cert.category = "compromise" /\ answer.category # "none"
            /\ outcome = "verified" =>
                  RecentlyGood(archive.cert, v) /\ InDate(archive.cert, v) /\ archive.signed < Until(archive.cert)
<1> DEFINE c == archive.cert
           signed == archive.signed
           cert == certs[c]
           ofCert == answer # None /\ answer.cert = c
           revoked == ofCert /\ answer.status = "revoked"
           trust == TrustAxis(c, signed, official)
           time == TimeAxis(c, signed, v)
           status == StatusAxis(answer, c, signed, v)
<1>1. /\ c \in 1 .. Len(certs) /\ signed \in Nat /\ cert.from <= archive.chosen
      /\ archive.chosen <= signed /\ archive.chosen \in Nat
  BY DEF IInv, SigningInv, InForce
<1>2. /\ cert.from \in Nat /\ cert.at \in Nat /\ Life \in Nat /\ CertInv(cert)
      /\ cert.category \in Categories
  BY <1>1, CertFields, Facts DEF Certs
<1>3. Until(c) \in Nat /\ Until(c) = cert.from + Life /\ ~ (signed < cert.from)
  BY <1>1, <1>2 DEF Until
<1>4. /\ time = "expired_at_signing" => signed >= Until(c)
      /\ time = "valid_at_signing" => ~ (signed >= Until(c)) /\ ~ (v >= Until(c))
  BY <1>3 DEF TimeAxis
<1>5. /\ trust = "untrusted" => ~ official \/ signed >= Until(c)
      /\ ~ official => trust = "untrusted"
  BY <1>3 DEF TrustAxis, TimeAxis
<1>6. revoked => /\ cert.state = "revoked" /\ answer.at = cert.at /\ answer.reason = cert.reason
                 /\ answer.category \in {cert.category, "none"}
  BY DEF IInv, AnswerInv
<1>7. revoked => cert.category \in {"supersession", "compromise"}
  BY <1>2, <1>6 DEF CertInv
<1>8. revoked => \/ status = "before_revocation" /\ BeforeRevocation(answer, signed)
                 \/ status = "revoked" /\ ~ BeforeRevocation(answer, signed)
  BY DEF StatusAxis, Matches, FreshValid
<1>9. status = "revoked" => revoked
  BY DEF StatusAxis, Matches
<1>10. status = "suspended" => ofCert /\ answer.status = "suspended"
  BY DEF StatusAxis, Matches
<1>11. status = "fresh_valid" => ofCert /\ FreshValid(answer, v)
  BY DEF StatusAxis, Matches
<1>12. revoked /\ BeforeRevocation(answer, signed) =>
          ~ (signed >= cert.at) /\ ~ (cert.category = "compromise" /\ answer.category # "none")
  BY <1>1, <1>2, <1>6 DEF BeforeRevocation
<1>13. revoked /\ ~ BeforeRevocation(answer, signed) =>
          cert.category = "compromise" \/ signed >= cert.at
  <2> SUFFICES ASSUME revoked, cert.category # "compromise", ~ (signed >= cert.at)
               PROVE  BeforeRevocation(answer, signed)
    OBVIOUS
  <2>1. cert.category = "supersession" /\ cert.reason = "renewed"
    BY <1>2, <1>7 DEF CertInv
  <2>2. signed < answer.at
    BY <1>1, <1>2, <1>6
  <2> QED
    BY <1>6, <2>1, <2>2 DEF BeforeRevocation
<1> HIDE DEF trust, time, status
<1>14. outcome = Derive(trust, time, status)
  BY DEF trust, time, status
<1>15. outcome \in {"failed", "verified", "caveat"}
  BY <1>14 DEF Derive
<1>16. outcome = "failed" => \/ trust = "untrusted" \/ time = "expired_at_signing"
                             \/ status \in {"revoked", "suspended"}
  BY <1>14 DEF Derive
<1>17. outcome \in {"verified", "caveat"} => status \notin {"revoked", "suspended"} /\ trust # "untrusted"
  BY <1>14 DEF Derive
<1>18. outcome = "verified" => time = "valid_at_signing" /\ status = "fresh_valid"
  BY <1>14 DEF Derive
<1>19. ASSUME outcome = "failed"
       PROVE  \/ ~ official
              \/ signed >= Until(c)
              \/ ofCert /\ answer.status = "suspended"
              \/ revoked /\ (cert.category = "compromise" \/ signed >= cert.at)
  <2> HIDE DEF c, signed, cert, ofCert, revoked
  <2>1. revoked => cert.category = "compromise" \/ signed >= cert.at \/ status # "revoked"
    BY <1>8, <1>13
  <2> QED
    BY <1>4, <1>5, <1>9, <1>10, <1>16, <1>19, <2>1
<1>20. ASSUME outcome \in {"verified", "caveat"}
       PROVE  official /\ ~ (revoked /\ (signed >= cert.at \/ (cert.category = "compromise" /\ answer.category # "none")))
  <2> HIDE DEF c, signed, cert, ofCert, revoked
  <2> QED
    BY <1>5, <1>8, <1>12, <1>17, <1>20
<1>21. ASSUME outcome = "verified" PROVE RecentlyGood(c, v) /\ InDate(c, v) /\ signed < Until(c)
  <2>1. ofCert /\ FreshValid(answer, v) /\ v < Until(c) /\ signed < Until(c)
    BY <1>1, <1>3, <1>4, <1>11, <1>18, <1>21
  <2>2. answer # None /\ answer.cert = c
    BY <2>1
  <2>3. InDate(c, v)
    BY <2>1 DEF InDate
  <2> QED
    BY <2>1, <2>2, <2>3, FreshIsRecent
<1> QED
  BY <1>15, <1>19, <1>20, <1>21

LEMMA VerifyReadersStep ==
  ASSUME IInv, VerifyReaders
  PROVE  IInv'
<1> DEFINE composed(v, official) == Derive(TrustAxis(archive.cert, archive.signed, official),
                                 TimeAxis(archive.cert, archive.signed, v),
                                 StatusAxis(answer, archive.cert, archive.signed, v))
<1>1. PICK v \in Clocks, official \in BOOLEAN :
          \E outcome \in IF Present(vols) = {} THEN {"error"}
                         ELSE IF Intact THEN {composed(v, official)} ELSE {"failed", "unverifiable"} :
              check' = Judged(outcome, v, official)
  BY DEF VerifyReaders
<1>2. PICK outcome \in IF Present(vols) = {} THEN {"error"}
                       ELSE IF Intact THEN {composed(v, official)} ELSE {"failed", "unverifiable"} :
          check' = Judged(outcome, v, official)
  BY <1>1
<1>3. check.pc = "readers" /\ UNCHANGED <<now, service, device, signing, answer, budget>>
  BY DEF VerifyReaders
<1>4. archive # None /\ v \in Nat
  BY <1>3, Facts DEF IInv, CheckInv, Clocks
<1>5. Intact => Present(vols) # {}
  BY IntactIs
<1> HIDE DEF composed
<1>6. CASE ~ Intact
  <2>1. outcome \in {"error", "failed", "unverifiable"}
    BY <1>2, <1>6
  <2> QED
    BY <1>2, <1>3, <1>4, <1>6, <2>1, VerdictStep
<1>7. CASE Intact
  <2>1. outcome = composed(v, official)
    BY <1>2, <1>5, <1>7
  <2>2. check'.pc = "done" /\ check'.outcome = outcome /\ check'.clock = v /\ check'.official = official
    BY <1>2 DEF Judged
  <2>3. /\ vols' = vols /\ archive' = archive /\ answer' = answer /\ certs' = certs /\ issuer' = issuer
    BY <1>3 DEF signing, service
  <2>4. outcome = Derive(TrustAxis(archive.cert, archive.signed, official),
                         TimeAxis(archive.cert, archive.signed, v),
                         StatusAxis(answer, archive.cert, archive.signed, v))
    BY <2>1 DEF composed
  <2>5. LET cert == certs[archive.cert]
            ofCert == answer # None /\ answer.cert = archive.cert
            revoked == ofCert /\ answer.status = "revoked"
        IN /\ outcome \in {"failed", "verified", "caveat"}
           /\ outcome = "failed" =>
                 \/ ~ official
                 \/ archive.signed >= Until(archive.cert)
                 \/ ofCert /\ answer.status = "suspended"
                 \/ revoked /\ (cert.category = "compromise" \/ archive.signed >= cert.at)
           /\ outcome \in {"verified", "caveat"} =>
                 /\ official
                 /\ ~ /\ revoked
                      /\ \/ archive.signed >= cert.at
                         \/ cert.category = "compromise" /\ answer.category # "none"
           /\ outcome = "verified" =>
                 RecentlyGood(archive.cert, v) /\ InDate(archive.cert, v) /\ archive.signed < Until(archive.cert)
    BY <1>4, <2>4, Composed
  <2>6. CheckInv'
    BY <1>4, <2>2, <2>3 DEF CheckInv
  <2>7. /\ \A e : Until(e)' = Until(e)
        /\ \A e : RecentlyGood(e, v)' = RecentlyGood(e, v) /\ InDate(e, v)' = InDate(e, v)
    BY <2>3 DEF Until, RecentlyGood, InDate, BadSince
  <2>8. VerdictInv'
    BY <2>2, <2>3, <2>5, <2>7 DEF VerdictInv
  <2> QED
    BY <1>3, <2>6, <2>8, CheckStep
<1> QED
  BY <1>6, <1>7

LEMMA DismissStep ==
  ASSUME IInv, Dismiss
  PROVE  IInv'
<1>1. check'.pc = "idle" /\ UNCHANGED <<now, service, device, signing, answer, budget>>
  BY DEF Dismiss
<1>2. CheckInv' /\ VerdictInv'
  BY <1>1 DEF CheckInv, VerdictInv
<1> QED
  BY <1>1, <1>2, CheckStep

LEMMA Unchanged ==
  ASSUME IInv, UNCHANGED vars
  PROVE  IInv'
<1>1. /\ UNCHANGED <<now, service, device, signing, answer, budget>> /\ check' = check
      /\ UNCHANGED <<certs, issuer, archive, vols>>
  BY DEF vars, service, signing
<1>2. CheckInv'
  BY <1>1 DEF IInv, CheckInv
<1>3. VerdictInv'
  BY <1>1 DEF IInv, VerdictInv, RecentlyGood, InDate, BadSince, Until, Intact
<1> QED
  BY <1>1, <1>2, <1>3, CheckStep

LEMMA InitInv ==
  ASSUME Init
  PROVE  IInv
<1>1. /\ now = 0 /\ certs = <<>> /\ issuer = Healthy /\ local = <<>> /\ order = <<>>
      /\ default = 0 /\ selected = None /\ choice = None /\ archive = None
      /\ vols = [i \in 1 .. Volumes |-> "own"] /\ answer = None /\ check.pc = "idle"
  BY DEF Init
<1>2. BaseInv
  BY <1>1 DEF BaseInv, IssuerRec, Kinds
<1>3. DeviceInv(certs, local, order, default)
  BY <1>1 DEF DeviceInv
<1>4. AnswerInv(answer, certs, issuer, now) /\ SigningInv(choice, archive, certs, now)
  BY <1>1 DEF AnswerInv, SigningInv
<1>5. CheckInv /\ VerdictInv
  BY <1>1 DEF CheckInv, VerdictInv
<1> QED
  BY <1>2, <1>3, <1>4, <1>5 DEF IInv

LEMMA InvStep ==
  ASSUME IInv, [Next]_vars
  PROVE  IInv'
<1>1. CASE UNCHANGED vars
  BY <1>1, Unchanged
<1>2. CASE NoneUnderWay /\ (Tick \/ IssuerFails)
  BY <1>2, ClockSteps
<1>3. CASE \E c \in Issued : NoneUnderWay /\ IssueRenewal(c)
  BY <1>3, IssueRenewalStep
<1>4. CASE \E c \in Issued : NoneUnderWay /\ (RevokeElsewhere(c) \/ Suspend(c) \/ Reinstate(c))
  BY <1>4, ServiceSteps
<1>5. CASE \E k \in Keys : NoneUnderWay /\ Enroll(k)
  BY <1>5, EnrollStep
<1>6. CASE \E c \in Issued : NoneUnderWay /\ JournalRenewal(c)
  BY <1>6, JournalStep
<1>7. CASE \E c \in Issued : NoneUnderWay /\ Install(c)
  BY <1>7, InstallStep
<1>8. CASE \E c \in Issued : NoneUnderWay /\ Restore(c)
  BY <1>8, RestoreStep
<1>9. CASE \E c \in Issued : NoneUnderWay /\ RevokeHere(c)
  BY <1>9, RevokeHereStep
<1>10. CASE \/ \E c \in Issued : NoneUnderWay /\ ResolveNamed(c)
            \/ NoneUnderWay /\ ResolveFromCatalog
            \/ \E k \in Keys : NoneUnderWay /\ ResolveFromInventory(k)
  BY <1>10, ResolveSteps
<1>11. CASE NoneUnderWay /\ Sign
  BY <1>11, SignStep
<1>12. CASE \E c \in Issued : NoneUnderWay /\ Fetch(c)
  BY <1>12, FetchStep
<1>13. CASE \E i \in 1 .. Volumes : Damage(i)
  BY <1>13, DamageStep
<1>14. CASE ReadMetadata
  BY <1>14, ReadMetadataStep
<1>15. CASE ReadFooters
  BY <1>15, ReadFootersStep
<1>16. CASE VerifyReaders
  BY <1>16, VerifyReadersStep
<1>17. CASE Dismiss
  BY <1>17, DismissStep
<1> QED
  BY <1>1, <1>2, <1>3, <1>4, <1>5, <1>6, <1>7, <1>8, <1>9, <1>10, <1>11, <1>12, <1>13, <1>14,
     <1>15, <1>16, <1>17 DEF Next
-----------------------------------------------------------------------------
\* The inductive invariant holds of every behaviour: inventory, answers, choices
\* and verdicts stay consistent however renewals, revocations, damage and
\* verifications interleave.
THEOREM Invariance == Spec => []IInv
<1>1. Init => IInv
  BY InitInv
<1>2. IInv /\ [Next]_vars => IInv'
  BY InvStep
<1> QED
  BY <1>1, <1>2, PTL DEF Spec

\* is_fresh_valid_for_valid_now and its callers, for every lifetime, skew, window
\* and drift: "verified" and "valid now" are said only of a certificate that was
\* good and in date within the last window, however old the answer in hand is,
\* and that has not expired by the verifier's clock unless it is a contact's and
\* the caller does not give the end of its validity.
THEOREM VerifiedWasRecentlyGood == Spec => []VerifiedIsRecent
<1>1. IInv => VerifiedIsRecent
  <2> SUFFICES ASSUME IInv PROVE VerifiedIsRecent
    OBVIOUS
  <2>1. ASSUME NEW c \in Issued, NEW v \in Clocks
        PROVE  v \in Nat /\ Until(c) \in Nat
    <3>1. v \in Nat /\ certs[c].from \in Nat /\ Life \in Nat
      BY Facts, CertFields DEF Clocks
    <3> QED
      BY <3>1 DEF Until
  <2>2. ASSUME NEW c \in Issued, NEW v \in Clocks, NEW dated \in BOOLEAN,
               ContactStatus(answer, c, v, dated) = "valid_now"
        PROVE  RecentlyGood(c, v) /\ (dated => InDate(c, v))
    <3>1. answer # None /\ answer.cert = c /\ FreshValid(answer, v) /\ (dated => ~ (Until(c) <= v))
      BY <2>2 DEF ContactStatus, Matches
    <3>2. dated => InDate(c, v)
      BY <2>1, <3>1 DEF InDate
    <3> QED
      BY <2>1, <3>1, <3>2, FreshIsRecent
  <2>3. ASSUME NEW c \in Issued, NEW v \in Clocks, DocumentStatus(answer, c, v) = "valid_now"
        PROVE  RecentlyGood(c, v) /\ InDate(c, v)
    <3>1. answer # None /\ answer.cert = c /\ FreshValid(answer, v) /\ ~ (v >= Until(c))
      BY <2>3 DEF DocumentStatus, Matches
    <3>2. InDate(c, v)
      BY <2>1, <3>1 DEF InDate
    <3> QED
      BY <2>1, <3>1, <3>2, FreshIsRecent
  <2>4. check.pc = "done" /\ check.outcome = "verified" =>
          /\ RecentlyGood(archive.cert, check.clock) /\ InDate(archive.cert, check.clock)
          /\ archive.signed < Until(archive.cert)
    BY DEF IInv, VerdictInv
  <2> QED
    BY <2>2, <2>3, <2>4 DEF VerifiedIsRecent
<1> QED
  BY <1>1, Invariance, PTL

\* verify_tzap_archive_valid_now, for every number of volumes: what is said of an
\* archive has a cause in the archive, in its certificate or in the roots the
\* verifier accepts, although the volumes change between the three passes and the
\* status is older than the reading.
THEOREM VerdictsAreFair == Spec => []VerdictIsFair
<1>1. IInv => VerdictIsFair
  <2> SUFFICES ASSUME IInv PROVE VerdictIsFair
    OBVIOUS
  <2>1. /\ certs \in Seq(CertRec) /\ local \in Seq(Lifecycle) /\ Len(local) = Len(certs)
        /\ now \in Nat /\ selected \in Keys \cup {None}
    BY Facts
  <2>2. \A c \in Issued : certs[c].key \in Keys /\ certs[c].state \in {"valid", "suspended", "revoked"}
    BY <2>1, CertFields DEF Issued, CertStates
  <2>3. local \in [Issued -> Lifecycle]
    BY <2>1 DEF Issued
  <2>4. default \in {0} \cup ToSet(order)
    BY Held, Facts DEF Has, ToSet
  <2>5. /\ vols \in [1 .. Volumes -> Damages \cup {"own"}]
        /\ check.pc \in {"idle", "footers", "readers", "done"}
    BY DEF IInv, BaseInv, CheckInv, Kinds
  <2>6. TypeOK
    BY <2>1, <2>2, <2>3, <2>4, <2>5 DEF TypeOK
  <2>7. VerdictInv
    BY DEF IInv
  <2> QED
    BY <2>6, <2>7 DEF VerdictIsFair, VerdictInv
<1> QED
  BY <1>1, Invariance, PTL

\* tzap_x509_signing_options_from_catalog and the inventory's saves: for any
\* interleaving of choices and signing with enrollments, renewals and revocations,
\* the certificate under an archive was within its validity when the signer was
\* chosen, and was revoked before that only in a way this device took no part in.
THEOREM SignersWereInForce == Spec => []SignerWasInForce
<1>1. IInv => SignerWasInForce
  <2> SUFFICES ASSUME IInv, archive # None
               PROVE  /\ certs[archive.cert].from <= archive.chosen
                      /\ archive.chosen < Until(archive.cert)
                      /\ certs[archive.cert].state = "revoked" =>
                            archive.chosen <= certs[archive.cert].at \/ certs[archive.cert].unseen
    BY DEF SignerWasInForce
  <2> QED
    BY DEF IInv, SigningInv, InForce, Until
<1> QED
  BY <1>1, Invariance, PTL
=============================================================================
