---------------------------- MODULE ArchiveTrust ----------------------------
(***************************************************************************)
(* Which certificate signs an archive, and what is later said of it.       *)
(*                                                                         *)
(*   zmanager-core/src/tzap/x509.rs                  choice of the signer   *)
(*   zmanager-core/src/auth/identity_catalog_adapter.rs  default identity   *)
(*   zmanager-core/src/tzap/verification.rs, display.rs, open.rs            *)
(*                                       verification of a volume set       *)
(*   zmanager-tzap-hosted/src/auth/status_client.rs  status of the signer   *)
(*                                                                         *)
(* A device holds certificates of several signing keys, renews and revokes *)
(* them (module CertificateLifecycle is about those protocols; here each   *)
(* inventory save is one step) and signs an archive of several volumes.  A *)
(* verifier holds an answer of the status service, perhaps an old one, has *)
(* a clock of its own and reads the volumes in three passes while they may *)
(* still change.                                                           *)
(***************************************************************************)
EXTENDS Integers, Sequences, FiniteSets, SequencesExt

CONSTANTS
    Keys,         \* signing keys, each with the public scope it is certified for
    StagingKeys,  \* those certified under the staging root
    Life,         \* validity of a certificate
    Skew,         \* STATUS_FRESHNESS_SKEW_SECONDS
    MaxWindow,    \* MAX_POSITIVE_STATUS_WINDOW_SECONDS
    Drift,        \* how far a verifier's clock may be off
    Volumes,      \* volumes of an archive
    Budgets       \* bounds on what a behaviour contains; issues: enrollments and
                  \* renewals; events: revocations elsewhere, suspensions and
                  \* failures of the issuer; damage: changes to a volume; ticks: time

ASSUME KeysAssumption == StagingKeys \subseteq Keys
ASSUME TimesAssumption == {Life, Skew, MaxWindow, Drift} \subseteq Nat
ASSUME BudgetsAssumption ==
    Volumes \in Nat \ {0} /\ Budgets \subseteq [issues : Nat, events : Nat, damage : Nat, ticks : Nat]

VARIABLES
    now,
    certs,     \* what the service has issued, in order, and its state
    issuer,    \* the state of the issuing certificate
    local,     \* lifecycle of each certificate in the inventory
    order,     \* the inventory's order of certificates
    default,   \* default_signing_identity_id of the catalogue; 0: none
    selected,  \* history: the key of the last default identity
    choice,    \* signing options that were resolved and not yet used
    archive,   \* certificate and signing time of the signed archive
    vols,      \* what became of its volumes
    answer,    \* the status response the verifier holds
    check,     \* a verification of the archive, under way or done
    budget     \* what may still happen of it

service == <<certs, issuer>>
device == <<local, order, default, selected>>
signing == <<choice, archive, vols>>
vars == <<now, service, device, signing, answer, check, budget>>

None == [none |-> TRUE]
Issued == 1 .. Len(certs)
Until(c) == certs[c].from + Life
Lifecycle == {"absent", "active", "renewal_pending", "revoked"}
Healthy == [state |-> "valid", at |-> 0]

Init ==
    /\ now = 0
    /\ certs = <<>> /\ issuer = Healthy
    /\ local = <<>> /\ order = <<>>
    /\ default = 0 /\ selected = None
    /\ choice = None /\ archive = None
    /\ vols = [i \in 1 .. Volumes |-> "own"]
    /\ answer = None
    /\ check = [pc |-> "idle"]
    /\ budget \in Budgets

Spend(b) == budget[b] > 0 /\ budget' = [budget EXCEPT ![b] = @ - 1]
Tick == Spend("ticks") /\ now' = now + 1 /\ UNCHANGED <<service, device, signing, answer, check>>
-----------------------------------------------------------------------------
(* The service's certificates.  A renewal revokes its predecessor in the same *)
(* transaction; every other revocation is a compromise, whatever reason its   *)
(* caller gives.  unseen is history: the device took no part in the           *)
(* revocation and goes on with the certificate.                               *)

Certificate(k) ==
    [key |-> k, from |-> now, state |-> "valid", at |-> 0, category |-> "none",
     reason |-> "none", asked |-> FALSE, unseen |-> FALSE]

Revoked(c, category, reason) ==
    [certs EXCEPT ![c].state = "revoked", ![c].at = now,
                  ![c].category = category, ![c].reason = reason]

\* A submitted renewal is carried out, perhaps after the client gave it up.
IssueRenewal(c) ==
    /\ certs[c].asked /\ certs[c].state = "valid"
    /\ certs' = [Append(Revoked(c, "supersession", "renewed"), Certificate(certs[c].key))
                    EXCEPT ![c].asked = FALSE, ![c].unseen = local[c] # "renewal_pending"]
    /\ local' = Append(local, "absent")
    /\ Spend("issues")
    /\ UNCHANGED <<now, issuer, order, default, selected, signing, answer, check>>

RevokeElsewhere(c) ==
    /\ certs[c].state # "revoked"
    /\ \E reason \in {"renewed", "lost"} :
          certs' = [Revoked(c, "compromise", reason) EXCEPT ![c].unseen = TRUE]
    /\ Spend("events")
    /\ UNCHANGED <<now, issuer, device, signing, answer, check>>

Suspend(c) ==
    /\ certs[c].state = "valid"
    /\ certs' = [certs EXCEPT ![c].state = "suspended", ![c].at = now]
    /\ Spend("events")
    /\ UNCHANGED <<now, issuer, device, signing, answer, check>>

Reinstate(c) ==
    /\ certs[c].state = "suspended"
    /\ certs' = [certs EXCEPT ![c].state = "valid", ![c].at = 0]
    /\ UNCHANGED <<now, issuer, device, signing, answer, check, budget>>

IssuerFails ==
    /\ issuer = Healthy
    /\ \E s \in {"issuer_revoked", "issuer_suspended"} : issuer' = [state |-> s, at |-> now]
    /\ Spend("events")
    /\ UNCHANGED <<now, certs, device, signing, answer, check>>
-----------------------------------------------------------------------------
(* The inventory and its catalogue *)

\* certificate_is_usable_for_signing, catalog_identity_is_usable
UsableBlocked(c) == local[c] \in {"active", "renewal_pending"} /\ now >= certs[c].from /\ now < Until(c)
Usable(c) == local[c] = "active" /\ now >= certs[c].from /\ now < Until(c)

Newest(S) == {c \in S : \A d \in S : certs[d].from <= certs[c].from}

\* build_catalog_from_inventory makes the first active certificate the default,
\* preserve_default_signing_identity then keeps the one there was: as long as it
\* is active, or else as the newest active certificate of its key.
Default(l, o) ==
    LET active == {c \in Issued' : l[c] = "active"}
        first == SelectInSeq(o, LAMBDA c : l[c] = "active")
        heirs == {c \in active \ {default} : certs'[c].key = certs'[default].key}
    IN IF default = 0 THEN {IF first = 0 THEN 0 ELSE o[first]}
       ELSE IF default \in active THEN {default}
       ELSE IF heirs = {} THEN {0}
       ELSE {c \in heirs : \A d \in heirs : certs'[d].from <= certs'[c].from}

\* write_inventory_to_catalog of an inventory with lifecycles l in order o.
SaveInventory(l, o) ==
    /\ local' = l /\ order' = o
    /\ default' \in Default(l, o)
    /\ selected' = IF default' = 0 THEN selected ELSE certs'[default'].key

\* An enrollment that succeeds: the key has no certificate in use, here or there.
Enroll(k) ==
    /\ \A c \in Issued : certs[c].key = k =>
          /\ local[c] \in {"absent", "revoked"}
          /\ certs[c].state = "revoked" \/ now >= Until(c)
    /\ certs' = Append(certs, Certificate(k))
    /\ SaveInventory(Append(local, "active"), Append(order, Len(certs) + 1))
    /\ Spend("issues")
    /\ UNCHANGED <<now, issuer, signing, answer, check>>

\* renew_certificate journals the operation and then submits it.
JournalRenewal(c) ==
    /\ local[c] = "active"
    /\ certs' = [certs EXCEPT ![c].asked = TRUE]
    /\ SaveInventory([local EXCEPT ![c] = "renewal_pending"], order)
    /\ UNCHANGED <<now, issuer, signing, answer, check, budget>>

\* The replacement is installed, when it was issued or at a reconciliation.
Install(c) ==
    /\ local[c] = "renewal_pending"
    /\ certs[c].category = "supersession"
    /\ \E d \in Issued :
          /\ local[d] = "absent"
          /\ certs[d].key = certs[c].key /\ certs[d].state = "valid"
          /\ certs' = certs
          /\ SaveInventory([local EXCEPT ![c] = "revoked", ![d] = "active"], Append(order, d))
    /\ UNCHANGED <<now, issuer, signing, answer, check, budget>>

\* The service still shows the predecessor active: it is restored.
Restore(c) ==
    /\ local[c] = "renewal_pending" /\ certs[c].state = "valid"
    /\ certs' = certs
    /\ SaveInventory([local EXCEPT ![c] = "active"], order)
    /\ UNCHANGED <<now, issuer, signing, answer, check, budget>>

\* A revocation made on this device.
RevokeHere(c) ==
    /\ local[c] \in {"active", "renewal_pending"}
    /\ certs' = IF certs[c].state = "revoked" THEN certs ELSE Revoked(c, "compromise", "lost")
    /\ SaveInventory([local EXCEPT ![c] = "revoked"], order)
    /\ UNCHANGED <<now, issuer, signing, answer, check, budget>>
-----------------------------------------------------------------------------
(* Signing *)

Resolved(c) ==
    /\ choice = None /\ archive = None
    /\ choice' = [cert |-> c, at |-> now]
    /\ UNCHANGED <<now, service, device, archive, vols, answer, check, budget>>

\* The caller names the certificate.
ResolveNamed(c) == Usable(c) /\ Resolved(c)

\* select_catalog_signing_identity: the key of the default identity, or the only
\* key there is; of its usable certificates the newest.
ResolveFromCatalog ==
    LET usable == {c \in Issued : Usable(c)}
        keys == IF default # 0 THEN {certs[default].key} ELSE {certs[c].key : c \in usable}
    IN /\ Cardinality(keys) = 1
       /\ \E c \in Newest({d \in usable : certs[d].key \in keys}) : Resolved(c)

\* resolve_default_signing_certificate_id for the key the caller prefers: of
\* equally new certificates the last.
ResolveFromInventory(k) ==
    LET newest == Newest({c \in Issued : Usable(c) /\ certs[c].key = k})
        last == SelectLastInSeq(order, LAMBDA c : c \in newest)
    IN newest # {} /\ Resolved(order[last])

\* load_x509_signer reads the clock again; the archive is written and signed.
Sign ==
    /\ choice # None
    /\ archive' = [cert |-> choice.cert, chosen |-> choice.at, signed |-> now]
    /\ choice' = None
    /\ UNCHANGED <<now, service, device, vols, answer, check, budget>>
-----------------------------------------------------------------------------
(* The volumes after signing.  foreign: a volume of another, unsigned archive *)
(* with this name; stripped: without its signature footer; forged: a footer   *)
(* that was not made by its key; altered: only the data; torn: an end that    *)
(* cannot be read.                                                            *)

Damages == {"missing", "foreign", "stripped", "forged", "altered", "torn"}

Damage(i) ==
    /\ archive # None
    /\ vols[i] = "own"
    /\ \E d \in Damages : vols' = [vols EXCEPT ![i] = d]
    /\ Spend("damage")
    /\ UNCHANGED <<now, service, device, choice, archive, answer, check>>
-----------------------------------------------------------------------------
(* The status service's answer, as TzapStatusResponse::validate_shape admits it *)

ServiceStatus(c) ==
    IF issuer # Healthy THEN issuer.state
    ELSE IF certs[c].state # "valid" THEN certs[c].state
    ELSE IF now >= Until(c) THEN "expired" ELSE "valid"

\* The window may be longer than the client accepts; a service that predates
\* the category omits it.
Fetch(c) ==
    /\ \E window \in 1 .. MaxWindow + 1, category \in {certs[c].category, "none"} :
          answer' = [cert |-> c, status |-> ServiceStatus(c), this |-> now, next |-> now + window,
                     at |-> certs[c].at, reason |-> certs[c].reason, category |-> category]
    /\ UNCHANGED <<now, service, device, signing, check, budget>>

\* is_fresh_valid_for_valid_now
FreshValidUncapped(a, v) ==
    /\ a.status = "valid"
    /\ a.this <= v + Skew /\ a.next > v - Skew
    /\ a.next > a.this
FreshValid(a, v) ==
    /\ a.status = "valid"
    /\ a.this <= v + Skew /\ a.next > v - Skew
    /\ a.next > a.this
    /\ a.next - a.this <= MaxWindow

\* classify_archive_revocation
BeforeRevocation(a, signed) ==
    /\ IF a.category = "none" THEN a.reason = "renewed" ELSE a.category = "supersession"
    /\ signed < a.at

\* archive_status_matches, status_matches_document: an answer, or an echo of the
\* query, about something else.
Matches(a, c) == a.cert = c

\* compose_tzap_archive_verification_with_status
StatusAxis(a, c, signed, v) ==
    IF a = None \/ ~Matches(a, c) THEN "unavailable"
    ELSE IF FreshValid(a, v) THEN "fresh_valid"
    ELSE IF a.status = "revoked"
    THEN IF BeforeRevocation(a, signed) THEN "before_revocation" ELSE "revoked"
    ELSE IF a.status = "suspended" THEN "suspended" ELSE "unavailable"

\* TzapArchiveTimeCheck::classify
TimeAxis(c, signed, v) ==
    IF signed < certs[c].from \/ signed >= Until(c) THEN "expired_at_signing"
    ELSE IF v >= Until(c) THEN "expired_since_signing" ELSE "valid_at_signing"

\* classify_x509_trust_anchor: the chain is verified at the signing time.  Any
\* anchor but an official root is untrusted, and so is that one for a verifier
\* that leaves it out (include_official_tzap_root).
TrustAxis(c, signed, official) ==
    IF ~official \/ TimeAxis(c, signed, signed) = "expired_at_signing" THEN "untrusted"
    ELSE IF certs[c].key \in StagingKeys THEN "staging" ELSE "production"

\* TzapArchiveVerificationOutcome::derive
Derive(trust, time, status) ==
    IF trust = "untrusted" \/ time = "expired_at_signing" \/ status \in {"revoked", "suspended"}
    THEN "failed"
    ELSE IF trust = "production" /\ time = "valid_at_signing" /\ status = "fresh_valid"
    THEN "verified" ELSE "caveat"

\* classify_contact_status of a contact card that was verified offline; dated:
\* the caller gives the end of the certificate's validity.
ContactStatus(a, c, v, dated) ==
    IF dated /\ Until(c) <= v THEN "blocked"
    ELSE IF a = None THEN "offline"
    ELSE IF ~Matches(a, c) THEN "blocked"
    ELSE IF a.status # "valid" THEN "blocked"
    ELSE IF FreshValid(a, v) THEN "valid_now" ELSE "offline"

\* online_verification_result_from_status of an authentic document.
DocumentStatus(a, c, v) ==
    IF v < certs[c].from \/ v >= Until(c) \/ a = None THEN "invalid"
    ELSE IF Matches(a, c) /\ FreshValid(a, v) THEN "valid_now" ELSE "invalid"
-----------------------------------------------------------------------------
(* verify_tzap_archive_valid_now: three passes over the volumes *)

Clocks == {v \in now - Drift .. now + Drift : v >= 0}
Intact == \A i \in 1 .. Volumes : vols[i] = "own"
Present(seen) == {i \in DOMAIN seen : seen[i] # "missing"}
Judged(outcome, v, official) == [pc |-> "done", outcome |-> outcome, clock |-> v, official |-> official]

\* A verdict that no root was needed for.
Verdict(outcome, v) == Judged(outcome, v, TRUE)

\* summarize_tzap_public_metadata_from: headers of one archive, all there.  The
\* first volume stays open.
ReadMetadata ==
    /\ archive # None
    /\ check.pc = "idle"
    /\ LET foreign == {i \in Present(vols) : vols[i] = "foreign"}
       IN check' = IF foreign \notin {{}, Present(vols)} \/ Present(vols) = {} THEN Verdict("failed", now)
                   ELSE IF Present(vols) # 1 .. Volumes THEN Verdict("unverifiable", now)
                   ELSE [pc |-> "footers", first |-> vols[1]]
    /\ UNCHANGED <<now, service, device, signing, answer, budget>>

\* inspect_volume_footer
Footer(kind) ==
    CASE kind \in {"foreign", "stripped"} -> "unsigned"
      [] kind = "torn"                    -> "unavailable"
      [] kind = "forged"                  -> "not_authentic"
      [] OTHER                            -> "signed"

\* aggregate_public_footer_status: the volumes must agree.
AggregateAny(seen) ==
    LET footers == {Footer(seen[i]) : i \in DOMAIN seen}
    IN IF Present(seen) # DOMAIN seen \/ "unavailable" \in footers THEN "unavailable"
       ELSE IF "unsigned" \in footers THEN "unsigned"
       ELSE CHOOSE f \in footers : TRUE
Aggregate(seen) ==
    LET footers == {Footer(seen[i]) : i \in DOMAIN seen}
    IN IF Present(seen) # DOMAIN seen \/ Cardinality(footers) > 1 THEN "unavailable"
       ELSE CHOOSE f \in footers : TRUE

\* inspect_tzap_public_footer_signature_from; the open first volume may be the
\* file that was there before.
ReadFooters ==
    /\ check.pc = "footers"
    /\ \E first \in {vols[1]} \cup (IF vols[1] = "missing" THEN {} ELSE {check.first}) :
          check' = CASE Aggregate([vols EXCEPT ![1] = first]) = "unsigned"      -> Verdict("not_signed", now)
                     [] Aggregate([vols EXCEPT ![1] = first]) = "unavailable"   -> Verdict("unverifiable", now)
                     [] Aggregate([vols EXCEPT ![1] = first]) = "not_authentic" -> Verdict("failed", now)
                     [] OTHER -> [pc |-> "readers"]
    /\ UNCHANGED <<now, service, device, signing, answer, budget>>

\* public_no_key_verify_readers_with over the volumes as they are found now,
\* and the status.
VerifyReaders ==
    /\ check.pc = "readers"
    /\ \E v \in Clocks, official \in BOOLEAN :
          LET c == archive.cert
              composed == Derive(TrustAxis(c, archive.signed, official), TimeAxis(c, archive.signed, v),
                                 StatusAxis(answer, c, archive.signed, v))
          IN \E outcome \in IF Present(vols) = {} THEN {"error"}
                            ELSE IF Intact THEN {composed} ELSE {"failed", "unverifiable"} :
                check' = Judged(outcome, v, official)
    /\ UNCHANGED <<now, service, device, signing, answer, budget>>

\* The caller has shown the verdict.
Dismiss ==
    /\ check.pc = "done"
    /\ check' = [pc |-> "idle"]
    /\ UNCHANGED <<now, service, device, signing, answer, budget>>

\* A verification reads nothing but the volumes once it has begun: the clock and
\* the answer are parameters, and what a certificate says never changes.  So the
\* other steps are taken while none is under way.
NoneUnderWay == check.pc = "idle"

Next ==
    \/ NoneUnderWay /\ Tick
    \/ NoneUnderWay /\ IssuerFails
    \/ \E c \in Issued : NoneUnderWay /\ IssueRenewal(c)
    \/ \E c \in Issued : NoneUnderWay /\ RevokeElsewhere(c)
    \/ \E c \in Issued : NoneUnderWay /\ Suspend(c)
    \/ \E c \in Issued : NoneUnderWay /\ Reinstate(c)
    \/ \E k \in Keys : NoneUnderWay /\ Enroll(k)
    \/ \E c \in Issued : NoneUnderWay /\ JournalRenewal(c)
    \/ \E c \in Issued : NoneUnderWay /\ Install(c)
    \/ \E c \in Issued : NoneUnderWay /\ Restore(c)
    \/ \E c \in Issued : NoneUnderWay /\ RevokeHere(c)
    \/ \E c \in Issued : NoneUnderWay /\ ResolveNamed(c)
    \/ NoneUnderWay /\ ResolveFromCatalog
    \/ \E k \in Keys : NoneUnderWay /\ ResolveFromInventory(k)
    \/ NoneUnderWay /\ Sign
    \/ \E c \in Issued : NoneUnderWay /\ Fetch(c)
    \/ \E i \in 1 .. Volumes : Damage(i)
    \/ ReadMetadata \/ ReadFooters \/ VerifyReaders \/ Dismiss

Spec == Init /\ [][Next]_vars
-----------------------------------------------------------------------------
(* Properties *)

\* Every variable keeps the shape of what it stands for.
TypeOK ==
    /\ now \in Nat
    /\ \A c \in Issued : certs[c].key \in Keys /\ certs[c].state \in {"valid", "suspended", "revoked"}
    /\ local \in [Issued -> Lifecycle]
    /\ default \in {0} \cup ToSet(order) /\ selected \in Keys \cup {None}
    /\ vols \in [1 .. Volumes -> Damages \cup {"own"}]
    /\ check.pc \in {"idle", "footers", "readers", "done"}

\* Since when the certificate, or its issuer, has not been good.
BadSince(c) ==
    {certs[c].at : x \in {certs[c].state} \ {"valid"}} \cup {issuer.at : x \in {issuer.state} \ {"valid"}}
Window == Skew + MaxWindow
RecentlyGood(c, v) == \A t \in BadSince(c) \cup {Until(c)} : t > v - Window
InDate(c, v) == v < Until(c)

\* is_fresh_valid_for_valid_now and its three callers: whatever old answer the
\* verifier holds and however its clock is off within the tolerance, "verified",
\* or "valid now" for a contact or a document, is said only of a certificate that
\* was good, and in date, within the last window.  By that clock it has not even
\* expired, except for a contact whose caller does not give the end of validity.
VerifiedIsRecent ==
    /\ \A c \in Issued, v \in Clocks :
          /\ \A dated \in BOOLEAN : ContactStatus(answer, c, v, dated) = "valid_now" =>
                RecentlyGood(c, v) /\ (dated => InDate(c, v))
          /\ DocumentStatus(answer, c, v) = "valid_now" => RecentlyGood(c, v) /\ InDate(c, v)
    /\ check.pc = "done" /\ check.outcome = "verified" =>
          /\ RecentlyGood(archive.cert, check.clock) /\ InDate(archive.cert, check.clock)
          /\ archive.signed < Until(archive.cert)

\* verify_tzap_archive_valid_now: what is said of an archive has a cause in the
\* archive or in its certificate, although the volumes are read three times while
\* they change and the status is older than the reading.  An archive with a
\* signature left is not called unsigned; one that nobody touched fails only if
\* the verifier does not accept the official roots, or its certificate had
\* expired when it was signed, was suspended, or was revoked for a compromise or
\* before the signing; and with such a revocation in hand, or on another root, it
\* does not pass.
VerdictIsFair ==
    TypeOK /\ (check.pc = "done" =>
        LET cert == certs[archive.cert]
            ofCert == answer # None /\ answer.cert = archive.cert
            revoked == ofCert /\ answer.status = "revoked"
        IN /\ check.outcome = "not_signed" => \A i \in 1 .. Volumes : vols[i] \in {"stripped", "foreign"}
           /\ check.outcome \in {"unverifiable", "error"} => ~Intact
           /\ check.outcome = "failed" =>
                 \/ ~Intact
                 \/ ~check.official
                 \/ archive.signed >= Until(archive.cert)
                 \/ ofCert /\ answer.status = "suspended"
                 \/ revoked /\ (cert.category = "compromise" \/ archive.signed >= cert.at)
           /\ check.outcome \in {"verified", "caveat"} =>
                 /\ check.official
                 /\ ~ /\ revoked
                      /\ \/ archive.signed >= cert.at
                         \/ cert.category = "compromise" /\ answer.category # "none")

\* tzap_x509_signing_options_from_catalog and the saves of renew_certificate and
\* mark_certificate_revoked: the certificate under an archive was in force, as
\* far as this device can know, when the signer was chosen.  It was within its
\* validity, and a revocation earlier than the choice is one the device took no
\* part in: made elsewhere, or the end of a renewal it had given up.  (Nothing
\* asks the service before signing, so such a revocation, or a suspension, is
\* not noticed; VerdictIsFair says what a verifier makes of it.)
SignerWasInForce ==
    archive # None =>
        LET cert == certs[archive.cert]
        IN /\ cert.from <= archive.chosen /\ archive.chosen < Until(archive.cert)
           /\ cert.state = "revoked" => archive.chosen <= cert.at \/ cert.unseen

\* preserve_default_signing_identity: "a revoked default must update to the active
\* replacement with the same key" - the default identity goes over to another key
\* only when its own has no active certificate left.
DefaultFollowsKey ==
    [][selected # None /\ selected' # selected =>
          \A c \in Issued : certs[c].key = selected => local'[c] # "active"]_vars
=============================================================================
