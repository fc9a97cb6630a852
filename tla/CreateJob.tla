----------------------------- MODULE CreateJob -----------------------------
(***************************************************************************)
(* A creation in volumes, end to end: the job that runs a writer and       *)
(* reports to its caller (JobProgress) composed with the volumes the       *)
(* writer puts into the directory (VolumeSet).  ZIP and 7z write the whole *)
(* archive first and split it after the last entry; TZAP opens its sink    *)
(* before the first phase, fills the volumes while it emits, and commits   *)
(* them in a stage of its own.  Extractions, and creations without a       *)
(* volume size, leave the volumes alone.                                   *)
(***************************************************************************)
EXTENDS JobProgress, VolumeSet

allVars == <<jobVars, volumeVars>>

Volumes(step) == step /\ UNCHANGED jobVars
Job(step) == step /\ UNCHANGED volumeVars

(* The sink, or the temporary files of a split, are dropped.               *)
Dropped ==
    /\ vpc' = IF vpc = "idle" THEN "idle" ELSE "failed"
    /\ UNCHANGED <<req, dir, found, listed, todo, written, committed, intrusions>>
----------------------------------------------------------------------------
(* ZIP and 7z *)

SplitKinds == {"create", "sevenz"}

AllEntriesWritten ==
    stage = "running" /\ kind \in SplitKinds /\ work.entries = Entries /\ work.open = NoPath

SplitArchive ==
    /\ AllEntriesWritten
    /\ \/ ListVolumes /\ req'.format = IF kind = "create" THEN "zip" ELSE "sevenz"
       \/ EnsureAvailable \/ WriteVolume \/ AllWritten \/ RemoveVolume \/ AllRemoved
       \/ CommitVolume \/ AllCommitted \/ WriterFails

(* Every source was read before the split begins, in a solid 7z archive    *)
(* after its last entry was counted.                                       *)
BeforeSplit(p, n) == vpc = "idle" /\ SevenZRead(p, n)

(* The writer returns when the split has ended, or never began.            *)
SplitReturns(r) ==
    /\ kind \in SplitKinds => \/ vpc = "idle"
                              \/ vpc = "done" /\ r = "completed"
                              \/ vpc = "failed" /\ r = "failed"
    /\ Return(r)
----------------------------------------------------------------------------
(* TZAP *)

InWriter == stage = "running" /\ kind = "tzap"

(* The sources are collected before the sink is opened.                    *)
BeforeSink(p, skipped) == vpc = "idle" /\ CollectSource(p, skipped)

(* The sink checks the token at begin_archive and at every write.          *)
FillSink ==
    /\ InWriter
    /\ \/ phased.phase = NoPhase /\ ListVolumes /\ req'.format = "tzap"
       \/ phased.phase # NoPhase /\ ~token /\ EnsureAvailable
       \/ phased.phase \in {"EmittingPayload", "EmittingMetadata"} /\ ~token /\ WriteVolume
       \/ phased.phase # NoPhase /\ WriterFails

OpenedBefore(phase) == vpc # "idle" /\ PhaseStarted(phase)

FillReturns(r) ==
    /\ r = "completed" => vpc = "writing" /\ written = Count(req)
    /\ r = "cancelled" => vpc # "failed"
    /\ WriterReturns(r)
    /\ IF stage' = "committing" THEN UNCHANGED volumeVars ELSE Dropped

(* commit checks the token, then nothing stops it but a failure.           *)
CommitSink ==
    /\ stage = "committing"
    /\ \/ ~token /\ AllWritten
       \/ RemoveVolume \/ AllRemoved \/ CommitVolume \/ AllCommitted \/ CommitSidecar
       \/ WriterFails

CommitEnds(r) ==
    CASE r = "completed" -> vpc = "done"
      [] r = "failed"    -> vpc = "failed"
      [] r = "cancelled" -> vpc = "writing"

CommitSinkReturns(r) ==
    /\ stage = "committing" /\ CommitEnds(r)
    /\ CommitReturns(r)
    /\ IF r = "cancelled" THEN Dropped ELSE UNCHANGED volumeVars
----------------------------------------------------------------------------
CreateInit == JobInit /\ VolumeInit

Results == {"completed", "failed", "cancelled"}

CreateNext ==
    \/ Job(Tick \/ Cancel \/ PlanFails \/ Start \/ EntryFinished \/ SevenZEntry)
    \/ Job(AllReported \/ End)
    \/ \E p \in Paths, opened \in BOOLEAN : Job(EntryStarted(p, opened))
    \/ \E p \in Paths, skipped \in BOOLEAN : Job(BeforeSink(p, skipped))
    \/ \E p \in Paths : Job(UnreportedEntry(p))
    \/ \E n \in Sizes : Job(BytesProcessed(n))
    \/ \E phase \in JobPhase : Job(OpenedBefore(phase))
    \/ \E p \in Paths, n \in Sizes : Job(PlanningBytes(p, n) \/ BeforeSplit(p, n))
    \/ \E p \in Paths, n \in Sizes, last \in BOOLEAN : Job(SourceBytesRead(p, n, last))
    \/ \E r \in Results : Job(SplitReturns(r)) \/ FillReturns(r) \/ CommitSinkReturns(r)
    \/ Volumes(SplitArchive \/ FillSink \/ CommitSink)
    \/ \E p \in Path : Volumes(Intrude(p))

CreateSpec == CreateInit /\ [][CreateNext]_allVars
----------------------------------------------------------------------------
(* Every variable of the job and of the volumes keeps its shape.           *)
CreateTypeOK == JobTypeOK /\ VolumeTypeOK

(* What the caller is told is what happened to the destination: a job      *)
(* reported completed has all its volumes in place; a job reported         *)
(* cancelled, at whatever moment the request came, and one that failed     *)
(* before its volumes were complete, changed nothing.                      *)
OutcomeIsTrue ==
    /\ view.outcome = "completed" /\ vpc # "idle" =>
          \A p \in VolumePaths(req.format, Count(req)) : dir[p] = "new"
    /\ (view.outcome = "cancelled" \/ (view.outcome = "failed" /\ vpc # "idle" /\ written < Count(req))) =>
          \A p \in Path : dir[p] = found[p] \/ (found[p] = "none" /\ dir[p] = "other")

(* The destination is one archive at every moment, the one the caller was  *)
(* told of, and after success a reader gets the new one back.              *)
DestinationIsTrue == NeverMixed /\ ReadsBack /\ OutcomeIsTrue
============================================================================
