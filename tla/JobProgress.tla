---------------------------- MODULE JobProgress ----------------------------
(***************************************************************************)
(* What a caller sees of a running job: JobContext and its coalescer       *)
(* (zmanager-core/src/jobs), the sink that joins the per-entry jobs of a   *)
(* selection (engine/adapters/mod.rs), the phase progress of a TZAP        *)
(* writer (tzap/write.rs) and the projection JobProgressState a consumer   *)
(* keeps.  The state machine is the job: it works through its entries,     *)
(* reports what it did, and ends.  `work' is what was really done; the     *)
(* properties compare it with what the consumer was told.                  *)
(*                                                                         *)
(* A path is its identity (path_identity): the truncated display form and  *)
(* the 4 KiB limit on the recent paths are left out.  The limit is never   *)
(* met, because PROGRESS_PATH_DISPLAY_BYTES_LIMIT is a tenth of it and at  *)
(* most ten paths are kept.  The outer members of a Debian package, which  *)
(* report their length only as they finish, are left out.                  *)
(***************************************************************************)
EXTENDS Naturals, Sequences, FiniteSets

CONSTANTS
    Paths,       \* member paths of the archive
    Kinds,       \* which jobs run: see FlushingKinds, "zip"
    RecentLimit, \* PROGRESS_RECENT_PATH_LIMIT
    ByteStep,    \* max(PROGRESS_MIN_BYTE_STEP, 1% of the total)
    EntryStep,   \* PROGRESS_ENTRY_STEP
    ArchiveBytes, \* lengths a TZAP archive may have
    Interval,    \* PROGRESS_INTERVAL
    Entries,     \* bound: entries of the archive
    MaxBytes,    \* bound: bytes of all of them
    MaxTime      \* bound on the clock

NoPath  == "no path"
NoPhase == "no phase"

(* Which code drives the context.                                          *)
(*   create  run_engine_create_job_from_sources: ZIP, TAR, AppleArchive    *)
(*   sevenz  the same with 7z, which reports bytes and no entries          *)
(*   tzap    the same with the TZAP writer's phases                        *)
(*   native  full extraction through with_job_context                      *)
(*   each    selected_extract_each: one context for every entry            *)
(*   zip     ZipReadSession::extract                                       *)
FlushingKinds == {"create", "sevenz", "tzap", "native", "each"}
AllKinds      == FlushingKinds \cup {"zip"}
CreateKinds   == {"create", "sevenz", "tzap"}
LoopKinds     == AllKinds \ {"sevenz", "tzap"}

JobPhase == {"PlanningPayload", "PlanningMetadata", "EmittingPayload",
             "EmittingMetadata", "CommittingOutput"}
Outcomes == {"none", "completed", "failed", "cancelled"}

ASSUME JobAssumption ==
    /\ Kinds \subseteq AllKinds
    /\ NoPath \notin Paths
    /\ {RecentLimit, ByteStep, EntryStep, Interval} \subseteq Nat \ {0}
    /\ {Entries, MaxBytes, MaxTime} \subseteq Nat /\ ArchiveBytes \subseteq Nat

VARIABLES
    kind,    \* the kind of the job
    stage,   \* "idle", "running", "committing", "committed", "returned", "ended"
    result,  \* what the engine call returned
    token,   \* CancellationToken: cancellation was requested
    now,     \* the monotonic clock
    ctx,     \* JobContext: totals and coalescer of the current context
    phased,  \* TzapWriteJobProgress: active phase and phase coalescer
    batch,   \* BatchProgressSink: totals of finished and current entries
    view,    \* the consumer's JobProgressState
    told,    \* the totals of the last BytesProcessed event
    work     \* what the job did: the ground truth

jobVars == <<kind, stage, result, token, now, ctx, phased, batch, view, told, work>>
----------------------------------------------------------------------------
(* ProgressCoalescer *)

NewCoalescer(t) ==
    [bytes |-> 0, entries |-> 0, latest |-> NoPath, lastRaw |-> NoPath,
     recent |-> <<>>, lastEmitted |-> t, once |-> FALSE]

(* A path is taken from its first position, if it has one.                 *)
Without(recent, p) ==
    LET at == {i \in DOMAIN recent : recent[i] = p}
        i  == CHOOSE i \in at : \A j \in at : i <= j
    IN  IF at = {} THEN recent
        ELSE SubSeq(recent, 1, i - 1) \o SubSeq(recent, i + 1, Len(recent))

(* Mutant: the oldest path is not forgotten. *)
RememberUnbounded(recent, p) == Append(Without(recent, p), p)

(* A path moves to the newest place and the oldest one beyond the limit is *)
(* forgotten.                                                              *)
Remember(recent, p) ==
    LET grown == Append(Without(recent, p), p)
    IN  IF Len(grown) > RecentLimit THEN Tail(grown) ELSE grown

Recorded(c, p, bytes, entries) ==
    LET fresh == p # NoPath /\ c.lastRaw # p
    IN  [c EXCEPT !.bytes   = @ + bytes,
                  !.entries = @ + entries,
                  !.lastRaw = IF fresh THEN p ELSE @,
                  !.latest  = IF fresh THEN p ELSE @,
                  !.recent  = IF fresh THEN Remember(@, p) ELSE @]

Due(c) ==
    \/ ~c.once
    \/ c.bytes >= ByteStep
    \/ c.entries >= EntryStep
    \/ now - c.lastEmitted >= Interval

HasPending(c) == c.bytes > 0 \/ c.entries > 0

(* flush_at keeps last_raw_path: the next activity of the same member      *)
(* names no path.                                                          *)
Drained(c) ==
    [c EXCEPT !.bytes = 0, !.entries = 0, !.latest = NoPath, !.recent = <<>>,
              !.lastEmitted = now, !.once = TRUE]

(* record_activity_at: the coalescer after the call, and whether the       *)
(* call returns a batch.                                                   *)
Record(c, p, bytes, entries) ==
    LET r     == Recorded(c, p, bytes, entries)
        idle  == bytes = 0 /\ entries = 0
        flush == ~idle /\ Due(r)
    IN  [batched |-> flush,
         content |-> r,
         next    |-> IF idle THEN c ELSE IF flush THEN Drained(r) ELSE r]

Flush(c) == [batched |-> HasPending(c), content |-> c,
             next |-> IF HasPending(c) THEN Drained(c) ELSE c]
----------------------------------------------------------------------------
(* The events and their way to the consumer *)

PathEvent(type, p) == [type |-> type, path |-> p]

(* Mutant: the totals of an entry's own context reach the caller. *)
ThroughBatchRestarting(b, e) == [batch |-> b, event |-> e]

(* BatchProgressSink::emit: only the per-entry jobs of a selection go      *)
(* through it.                                                             *)
ThroughBatch(b, e) ==
    IF kind # "each" \/ e.type # "BytesProcessed"
    THEN [batch |-> b, event |-> e]
    ELSE [batch |-> [b EXCEPT !.current = e.bytes, !.currentEntries = e.entries],
          event |-> [e EXCEPT !.bytes = @ + b.finished,
                              !.entries = @ + b.finishedEntries]]

Larger(a, b) == IF a >= b THEN a ELSE b

(* The paths of a batch, remembered one after the other.                   *)
RememberAll(recent, paths) ==
    LET after[k \in 0 .. Len(paths)] ==
          IF k = 0 THEN recent ELSE Remember(after[k - 1], paths[k])
    IN  after[Len(paths)]

RecordPaths(v, p, recent) ==
    LET seen == RememberAll(v.recent, recent)
        last == IF recent = <<>> THEN v.current ELSE recent[Len(recent)]
    IN  [v EXCEPT !.recent  = IF p = NoPath THEN seen ELSE Remember(seen, p),
                  !.current = IF p = NoPath THEN last ELSE p]

(* JobProgressState::apply *)
Apply(v, e) ==
    IF v.outcome # "none" THEN v ELSE
    CASE e.type = "Started" -> v
      [] e.type = "EntryStarted" -> RecordPaths(v, e.path, <<>>)
      [] e.type = "EntryFinished" ->
           RecordPaths([v EXCEPT !.entries = @ + 1], e.path, <<>>)
      [] e.type = "BytesProcessed" ->
           RecordPaths([v EXCEPT !.bytes   = Larger(@, e.bytes),
                                 !.entries = Larger(@, e.entries)],
                       e.path, e.recent)
      [] e.type = "PhaseStarted" ->
           [v EXCEPT !.phase = e.phase, !.phaseBytes = 0]
      [] e.type = "PhaseBytesProcessed" ->
           LET base == IF v.phase = e.phase THEN v.phaseBytes ELSE 0
           IN  RecordPaths([v EXCEPT !.phase      = e.phase,
                                     !.phaseBytes = Larger(base, e.bytes)],
                           e.path, e.recent)
      [] e.type = "Completed" ->
           [v EXCEPT !.entries = Larger(@, e.entries),
                     !.bytes   = Larger(@, e.bytes), !.outcome = "completed"]
      [] e.type = "Failed" -> [v EXCEPT !.outcome = "failed"]
      [] e.type = "Cancelled" -> [v EXCEPT !.outcome = "cancelled"]

(* One event reaches the consumer: d is what the sink and the consumer     *)
(* know, and the result what they know afterwards.                         *)
Deliver(d, e) ==
    LET t == ThroughBatch(d.batch, e)
    IN  [batch |-> t.batch,
         view  |-> Apply(d.view, t.event),
         told  |-> IF e.type = "BytesProcessed"
                   THEN [bytes |-> t.event.bytes, entries |-> t.event.entries]
                   ELSE d.told]

(* A batch of the coalescer, if there is one, is sent with the totals.     *)
DeliverBytes(d, r, bytes, entries) ==
    IF r.batched
    THEN Deliver(d, [type |-> "BytesProcessed", path |-> r.content.latest,
                     recent |-> r.content.recent, bytes |-> bytes, entries |-> entries])
    ELSE d

DeliverPhaseBytes(d, r, phase, bytes) ==
    IF r.batched
    THEN Deliver(d, [type |-> "PhaseBytesProcessed", phase |-> phase,
                     path |-> r.content.latest, recent |-> r.content.recent,
                     bytes |-> bytes])
    ELSE d

Consumer == [batch |-> batch, view |-> view, told |-> told]
Emit(d) == batch' = d.batch /\ view' = d.view /\ told' = d.told
----------------------------------------------------------------------------
(* JobContext *)

NewContext == [bytes |-> 0, entries |-> 0, coalescer |-> NewCoalescer(now)]

(* flush_progress: the context and the consumer afterwards.                *)
FlushedContext(c) == [c EXCEPT !.coalescer = Flush(c.coalescer).next]
FlushProgress(d, c) == DeliverBytes(d, Flush(c.coalescer), c.bytes, c.entries)

(* TzapWriteJobProgress::flush_pending, after which the phase counter of   *)
(* the context includes what was pending.                                  *)
PhaseFlush == Flush(phased.coalescer)
PhaseTotal(r) == phased.bytes + (IF r.batched THEN r.content.bytes ELSE 0)
FlushPhase(d) ==
    IF phased.phase = NoPhase THEN d
    ELSE DeliverPhaseBytes(d, PhaseFlush, phased.phase, PhaseTotal(PhaseFlush))

----------------------------------------------------------------------------
JobInit ==
    /\ kind \in Kinds
    /\ stage = "idle" /\ result = "none" /\ token = FALSE /\ now = 0
    /\ ctx = NewContext
    /\ phased = [phase |-> NoPhase, bytes |-> 0, coalescer |-> NewCoalescer(0)]
    /\ batch = [finished |-> 0, finishedEntries |-> 0, current |-> 0, currentEntries |-> 0]
    /\ view = [bytes |-> 0, entries |-> 0, current |-> NoPath, recent |-> <<>>,
               phase |-> NoPhase, phaseBytes |-> 0, outcome |-> "none"]
    /\ told = [bytes |-> 0, entries |-> 0]
    /\ work = [bytes |-> 0, entries |-> 0, open |-> NoPath, active |-> NoPath,
               phaseBytes |-> 0]

Tick ==
    /\ stage \in {"running", "committing"} /\ now < MaxTime
    /\ now' = now + 1
    /\ UNCHANGED <<kind, stage, result, token, ctx, phased, batch, view, told, work>>

Cancel ==
    /\ stage \in {"idle", "running", "committing"} /\ ~token
    /\ token' = TRUE
    /\ UNCHANGED <<kind, stage, result, now, ctx, phased, batch, view, told, work>>

(* A creation whose planning fails reports the failure of a job that was   *)
(* never started.                                                          *)
PlanFails ==
    /\ stage = "idle" /\ kind \in CreateKinds
    /\ stage' = "ended" /\ result' = "failed"
    /\ Emit(Deliver(Consumer, [type |-> "Failed"]))
    /\ UNCHANGED <<kind, token, now, ctx, phased, work>>

Start ==
    /\ stage = "idle"
    /\ stage' = "running"
    /\ ctx' = NewContext
    /\ Emit(Deliver(Consumer, [type |-> "Started"]))
    /\ UNCHANGED <<kind, result, token, now, phased, work>>

(* entry_finished: the context and the consumer afterwards.                *)
FinishedIn(c, p) ==
    [c EXCEPT !.entries = @ + 1, !.coalescer = Record(c.coalescer, p, 0, 1).next]
Finished(d, c, p) ==
    DeliverBytes(Deliver(d, PathEvent("EntryFinished", p)),
                 Record(c.coalescer, p, 0, 1), c.bytes, c.entries + 1)

(* The entry loops check the token before every entry.  A selection makes  *)
(* a new context for each of them.  A creation leaves a source it cannot   *)
(* open with a warning, and without an event that finishes the entry.      *)
EntryStarted(p, opened) ==
    /\ stage = "running" /\ kind \in LoopKinds /\ ~token
    /\ work.open = NoPath /\ work.entries < Entries
    /\ opened \/ kind = "create"
    /\ work' = [work EXCEPT !.open = IF opened THEN p ELSE @, !.active = p]
    /\ ctx' = IF kind = "each" THEN NewContext ELSE ctx
    /\ Emit(Deliver(Consumer, PathEvent("EntryStarted", p)))
    /\ UNCHANGED <<kind, stage, result, token, now, phased>>

BytesProcessed(n) ==
    /\ stage = "running" /\ kind \in LoopKinds
    /\ work.open # NoPath /\ work.bytes + n <= MaxBytes
    /\ LET r == Record(ctx.coalescer, work.open, n, 0)
       IN  /\ ctx' = [ctx EXCEPT !.bytes = @ + n, !.coalescer = r.next]
           /\ Emit(DeliverBytes(Consumer, r, ctx.bytes + n, ctx.entries))
    /\ work' = [work EXCEPT !.bytes = @ + n]
    /\ UNCHANGED <<kind, stage, result, token, now, phased>>

(* The context of a selection's entry is flushed by with_job_context, and  *)
(* BatchProgressSink::finish_entry folds its totals into the batch.        *)
FinishEntry(b) ==
    [finished |-> b.finished + b.current,
     finishedEntries |-> b.finishedEntries + b.currentEntries,
     current |-> 0, currentEntries |-> 0]

EntryFinished ==
    /\ stage = "running" /\ kind \in LoopKinds /\ work.open # NoPath
    /\ LET p == work.open
           c == FinishedIn(ctx, p)
           f == Finished(Consumer, ctx, p)
           d == IF kind = "each" THEN FlushProgress(f, c) ELSE f
       IN  /\ ctx' = IF kind = "each" THEN FlushedContext(c) ELSE c
           /\ batch' = IF kind = "each" THEN FinishEntry(d.batch) ELSE d.batch
           /\ view' = d.view /\ told' = d.told
           /\ work' = [work EXCEPT !.entries = @ + 1, !.open = NoPath]
    /\ UNCHANGED <<kind, stage, result, token, now, phased>>

(* A 7z writer counts its entries in the report only.  A solid archive is  *)
(* read after all of them were counted, and the token is checked by the    *)
(* reader of the sources, which alone reports anything.                    *)
SevenZEntry ==
    /\ stage = "running" /\ kind = "sevenz" /\ work.entries < Entries
    /\ work' = [work EXCEPT !.entries = @ + 1]
    /\ UNCHANGED <<kind, stage, result, token, now, ctx, phased, batch, view, told>>

SevenZRead(p, n) ==
    /\ stage = "running" /\ kind = "sevenz" /\ ~token
    /\ n > 0 /\ work.bytes + n <= MaxBytes
    /\ LET r == Record(ctx.coalescer, p, n, 0)
       IN  /\ ctx' = [ctx EXCEPT !.bytes = @ + n, !.coalescer = r.next]
           /\ Emit(DeliverBytes(Consumer, r, ctx.bytes + n, ctx.entries))
    /\ work' = [work EXCEPT !.bytes = @ + n, !.active = p]
    /\ UNCHANGED <<kind, stage, result, token, now, phased>>
----------------------------------------------------------------------------
(* A TZAP creation first collects its sources: it starts every entry, and  *)
(* finishes the special files it will not write.                           *)
CollectSource(p, skipped) ==
    /\ stage = "running" /\ kind = "tzap" /\ ~token
    /\ phased.phase = NoPhase
    /\ skipped => work.entries < Entries
    /\ LET d == Deliver(Consumer, PathEvent("EntryStarted", p))
       IN  /\ ctx' = IF skipped THEN FinishedIn(ctx, p) ELSE ctx
           /\ Emit(IF skipped THEN Finished(d, ctx, p) ELSE d)
    /\ work' = [work EXCEPT !.entries = IF skipped THEN @ + 1 ELSE @]
    /\ UNCHANGED <<kind, stage, result, token, now, phased>>

(* The phases of a TZAP writer: planning may be repeated by the automatic  *)
(* volume sizing, single-pass writers begin with the payload.              *)
NextPhases(phase) ==
    CASE phase = NoPhase -> {"PlanningPayload", "EmittingPayload"}
      [] phase = "PlanningPayload" -> {"PlanningMetadata"}
      [] phase = "PlanningMetadata" -> {"PlanningPayload", "EmittingPayload"}
      [] phase = "EmittingPayload" -> {"EmittingMetadata"}
      [] OTHER -> {}

PhaseStarted(phase) ==
    /\ stage = "running" /\ kind = "tzap" /\ work.open = NoPath
    /\ phase \in NextPhases(phased.phase)
    /\ Emit(Deliver(FlushProgress(FlushPhase(Consumer), ctx),
                    [type |-> "PhaseStarted", phase |-> phase]))
    /\ phased' = [phase |-> phase, bytes |-> 0, coalescer |-> NewCoalescer(now)]
    /\ ctx' = FlushedContext(ctx)
    /\ work' = [work EXCEPT !.phaseBytes = 0]
    /\ UNCHANGED <<kind, stage, result, token, now>>

(* Planning reads the sources too, and reports it as phase progress only.  *)
PlanningBytes(p, n) ==
    /\ stage = "running" /\ kind = "tzap"
    /\ phased.phase = "PlanningPayload"
    /\ work.phaseBytes + n <= MaxBytes
    /\ LET r == Record(phased.coalescer, p, n, 0)
       IN  /\ phased' = [phased EXCEPT !.bytes = PhaseTotal(r), !.coalescer = r.next]
           /\ Emit(DeliverPhaseBytes(Consumer, r, phased.phase, PhaseTotal(r)))
    /\ work' = [work EXCEPT !.phaseBytes = @ + n, !.active = IF n > 0 THEN p ELSE @]
    /\ UNCHANGED <<kind, stage, result, token, now, ctx>>

(* source_bytes_read while the payload is emitted: the first bytes of an   *)
(* entry start it, its last bytes finish it, and the same bytes count for  *)
(* the phase and for the job.  The writer reports no empty entry.          *)
SourceBytesRead(p, n, last) ==
    /\ stage = "running" /\ kind = "tzap"
    /\ phased.phase = "EmittingPayload"
    /\ n > 0 /\ work.bytes + n <= MaxBytes
    /\ IF work.open = NoPath THEN work.entries < Entries ELSE p = work.open
    /\ LET pr == Record(phased.coalescer, p, n, 0)
           r  == Record(ctx.coalescer, p, n, 0)
           c  == [ctx EXCEPT !.bytes = @ + n, !.coalescer = r.next]
           d1 == IF work.open = NoPath THEN Deliver(Consumer, PathEvent("EntryStarted", p))
                                       ELSE Consumer
           d2 == DeliverPhaseBytes(d1, pr, phased.phase, PhaseTotal(pr))
           d3 == DeliverBytes(d2, r, c.bytes, c.entries)
       IN  /\ phased' = [phased EXCEPT !.bytes = PhaseTotal(pr), !.coalescer = pr.next]
           /\ ctx' = IF last THEN FinishedIn(c, p) ELSE c
           /\ Emit(IF last THEN Finished(d3, c, p) ELSE d3)
    /\ work' = [work EXCEPT !.bytes = @ + n, !.phaseBytes = @ + n, !.active = p,
                            !.open = IF last THEN NoPath ELSE p,
                            !.entries = IF last THEN @ + 1 ELSE @]
    /\ UNCHANGED <<kind, stage, result, token, now>>
----------------------------------------------------------------------------
(* The writer or the adapter returns: after the last entry, with an error  *)
(* anywhere, or cancelled at one of its checks of the token.               *)
Outcome(r) ==
    \/ /\ r = "completed"
       /\ work.open = NoPath
       /\ IF kind = "tzap" THEN phased.phase = "EmittingMetadata"
                            ELSE work.entries = Entries
    \/ r = "failed"
    \/ r = "cancelled" /\ token

FlushAtReturn(c) == IF kind \in FlushingKinds THEN FlushProgress(Consumer, c) ELSE Consumer
ContextAtReturn(c) == IF kind \in FlushingKinds THEN FlushedContext(c) ELSE c

(* Mutant: only a successful call flushes. *)
ReturnFlushingSuccess(r) ==
    /\ stage = "running" /\ kind # "tzap" /\ Outcome(r)
    /\ stage' = "returned" /\ result' = r
    /\ ctx' = IF r = "completed" THEN ContextAtReturn(ctx) ELSE ctx
    /\ Emit(IF r = "completed" THEN FlushAtReturn(ctx) ELSE Consumer)
    /\ work' = [work EXCEPT !.open = NoPath]
    /\ UNCHANGED <<kind, token, now, phased>>

(* with_job_context, run_engine_create_job_from_sources and the CLI flush  *)
(* the context whatever the engine returned; the ZIP session does not.     *)
Return(r) ==
    /\ stage = "running" /\ kind # "tzap" /\ Outcome(r)
    /\ stage' = "returned" /\ result' = r
    /\ ctx' = ContextAtReturn(ctx)
    /\ Emit(FlushAtReturn(ctx))
    /\ work' = [work EXCEPT !.open = NoPath]
    /\ UNCHANGED <<kind, token, now, phased>>

(* A TZAP writer's phase progress is flushed first; a successful one goes  *)
(* on to the commit unless the job was cancelled meanwhile.                *)
WriterReturns(r) ==
    /\ stage = "running" /\ kind = "tzap" /\ Outcome(r)
    /\ LET commits == r = "completed" /\ ~token
           to      == IF r = "completed" /\ token THEN "cancelled" ELSE r
           d       == FlushProgress(FlushPhase(Consumer), ctx)
       IN  /\ stage' = IF commits THEN "committing" ELSE "returned"
           /\ result' = IF commits THEN result ELSE to
           /\ ctx' = FlushedContext(ctx)
           /\ Emit(IF commits
                   THEN Deliver(d, [type |-> "PhaseStarted", phase |-> "CommittingOutput"])
                   ELSE d)
           /\ phased' = [phase |-> IF commits THEN "CommittingOutput" ELSE phased.phase,
                         bytes |-> IF commits THEN 0 ELSE PhaseTotal(PhaseFlush),
                         coalescer |-> PhaseFlush.next]
           /\ work' = [work EXCEPT !.open = NoPath,
                                   !.phaseBytes = IF commits THEN 0 ELSE @]
    /\ UNCHANGED <<kind, token, now>>

(* TzapArchiveFileSink::commit checks the token once more, before it       *)
(* touches anything: a cancellation that comes later has no effect.        *)
CommitReturns(r) ==
    /\ stage = "committing"
    /\ r = "cancelled" => token
    /\ stage' = IF r = "completed" THEN "committed" ELSE "returned"
    /\ result' = r
    /\ UNCHANGED <<kind, token, now, ctx, phased, batch, view, told, work>>

(* After the commit the entries the writer never mentioned are reported;   *)
(* when none is left the caller flushes the context.                       *)
UnreportedEntry(p) ==
    /\ stage = "committed" /\ work.entries < Entries
    /\ ctx' = FinishedIn(ctx, p)
    /\ Emit(Finished(Deliver(Consumer, PathEvent("EntryStarted", p)), ctx, p))
    /\ work' = [work EXCEPT !.entries = @ + 1, !.active = p]
    /\ UNCHANGED <<kind, stage, result, token, now, phased>>

AllReported ==
    /\ stage = "committed" /\ work.entries = Entries
    /\ stage' = "returned"
    /\ ctx' = FlushedContext(ctx)
    /\ Emit(FlushProgress(Consumer, ctx))
    /\ UNCHANGED <<kind, result, token, now, phased, work>>

(* What a successful call reports.  An entry that was skipped is finished  *)
(* but not among the written ones, and a TZAP writer reports the length of *)
(* the archive, not of what it read.  7z reports the lengths its sources   *)
(* had when they were planned: they are taken not to change.               *)
Reports ==
    IF result # "completed" THEN {[entries |-> 0, bytes |-> 0]}
    ELSE [entries : IF kind = "sevenz" THEN {work.entries} ELSE 0..work.entries,
          bytes   : IF kind = "tzap" THEN ArchiveBytes ELSE {work.bytes}]

LastEvent(r, report) ==
    CASE r = "completed" -> [type |-> "Completed", entries |-> report.entries,
                             bytes |-> report.bytes]
      [] r = "cancelled" /\ kind \in CreateKinds -> [type |-> "Cancelled"]
      [] OTHER -> [type |-> "Failed"]

(* The caller reports the outcome.  An extraction that succeeded can still *)
(* fail in ArchiveHandle::finish_operation.  Only the engine's create job  *)
(* tells a cancellation from a failure.                                    *)
End ==
    /\ stage = "returned"
    /\ \E r \in {result} \cup (IF kind \in CreateKinds THEN {} ELSE {"failed"}),
          report \in Reports :
          /\ result' = r
          /\ Emit(Deliver(Consumer, LastEvent(r, report)))
    /\ stage' = "ended"
    /\ UNCHANGED <<kind, token, now, ctx, phased, work>>

Sizes == 0..ByteStep

JobNext ==
    \/ Tick \/ Cancel \/ PlanFails \/ Start \/ EntryFinished \/ SevenZEntry
    \/ AllReported \/ End
    \/ \E p \in Paths, opened \in BOOLEAN : EntryStarted(p, opened)
    \/ \E p \in Paths, skipped \in BOOLEAN : CollectSource(p, skipped)
    \/ \E p \in Paths : UnreportedEntry(p)
    \/ \E n \in Sizes : BytesProcessed(n)
    \/ \E phase \in JobPhase : PhaseStarted(phase)
    \/ \E p \in Paths, n \in Sizes : PlanningBytes(p, n) \/ SevenZRead(p, n)
    \/ \E p \in Paths, n \in Sizes, last \in BOOLEAN : SourceBytesRead(p, n, last)
    \/ \E r \in {"completed", "failed", "cancelled"} :
          Return(r) \/ WriterReturns(r) \/ CommitReturns(r)

JobSpec == JobInit /\ [][JobNext]_jobVars
----------------------------------------------------------------------------
(* Every variable keeps the shape of what it stands for, and neither the   *)
(* coalescer nor the consumer keeps more recent paths than the limit.      *)
JobTypeOK ==
    /\ kind \in Kinds /\ token \in BOOLEAN /\ now \in 0..MaxTime
    /\ stage \in {"idle", "running", "committing", "committed", "returned", "ended"}
    /\ result \in Outcomes
    /\ view.outcome \in Outcomes
    /\ view.current \in Paths \cup {NoPath}
    /\ view.phase \in JobPhase \cup {NoPhase}
    /\ Len(view.recent) <= RecentLimit
    /\ Len(ctx.coalescer.recent) <= RecentLimit

(* The entry counter of a consumer is fed twice, one by one by             *)
(* EntryFinished and as a total by BytesProcessed, and across the contexts *)
(* of a selection: it is nevertheless exact at every moment, except that a *)
(* 7z creation shows no entry before it completes.  No counter of the view *)
(* runs ahead of the work, until the length of a complete TZAP archive is  *)
(* reported as its bytes.                                                  *)
ViewIsExact ==
    /\ view.entries = IF kind = "sevenz" /\ view.outcome # "completed" THEN 0 ELSE work.entries
    /\ kind # "tzap" \/ view.outcome # "completed" => view.bytes <= work.bytes
    /\ view.phaseBytes <= work.phaseBytes

(* docs/JOB_PROGRESS.md: pending progress is flushed before terminal       *)
(* lifecycle events, also when the job fails or is cancelled: a job that   *)
(* ended has told the consumer all the bytes it processed.  The sessions   *)
(* of ZIP archives have no such flush and promise it of a completed job    *)
(* only; a completed TZAP job shows no less.                               *)
EverythingReported ==
    stage = "ended" /\ (kind \in FlushingKinds \/ result = "completed") =>
        /\ view.bytes >= work.bytes
        /\ kind # "tzap" \/ result # "completed" => view.bytes = work.bytes
        /\ view.phaseBytes = work.phaseBytes

(* The totals of the BytesProcessed events, which the CLI prints without   *)
(* taking a maximum, never go backwards, across contexts either.           *)
TotalsNeverGoBack ==
    [][told'.bytes >= told.bytes /\ told'.entries >= told.entries]_jobVars

(* Although a batch names no path when the same member goes on after a     *)
(* flush, whenever nothing is pending the consumer shows the member that   *)
(* was active last.  While a TZAP creation only collects, and up to the    *)
(* first bytes it reads, none is.                                          *)
ShowsActiveMember ==
    (/\ stage = "running" /\ work.active # NoPath
     /\ ~HasPending(ctx.coalescer) /\ ~HasPending(phased.coalescer))
    => view.current = work.active

(* What a consumer shows is what happens: exact, complete at the end, and  *)
(* about the right member.                                                 *)
ViewIsTrue == ViewIsExact /\ EverythingReported /\ ShowsActiveMember
============================================================================
