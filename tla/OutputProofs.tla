---------------------------- MODULE OutputProofs ----------------------------
(***************************************************************************)
(* What the modules about written archives promise.  First AtomicOutput,   *)
(* for any number of calls, attempts, chunks and power losses, in every    *)
(* mix of ways to commit.  Then CreateJob: the volumes of a creation, for  *)
(* every archive and every size of a volume; what a job reports, for every *)
(* number of entries and every setting of the coalescer; and the two       *)
(* together.                                                               *)
(***************************************************************************)
EXTENDS AtomicOutput, CreateJob, FiniteSetTheorems, SequenceTheorems, TLAPS


\* Where a call may have a temporary file under its name.
MayHold == {"write", "sync", "commit", "remove", "remove_all", "rename", "check",
            "unlink", "drop", "dead"}

\* Where a call has one; after a failed create_new of a secret it has none.
Holds(w) ==
    \/ pc[w] \in {"write", "sync", "commit", "remove", "remove_all", "rename",
                  "check", "unlink"}
    \/ pc[w] = "drop" /\ mode[w] # "secret"

\* A temporary file is found at the name of its own call only.
NamedInv ==
    \A n \in Name, w \in Writer :
        temp[n] = w => n = TempPath(w) /\ pc[w] \in MayHold

OwnInv == \A w \in Writer : Holds(w) /\ ~ Colliding(w) => temp[TempPath(w)] = w

\* The way to commit decides where a call can be.
PathInv ==
    \A w \in Writer :
        /\ pc[w] \in {"sync", "sync_dir"} => Durable(w)
        /\ pc[w] \in {"remove", "remove_all"} => Replacing(w)
        /\ pc[w] = "rename" => Replacing(w) \/ (mode[w] = "refuse" /\ fs = "neither")
        /\ pc[w] = "check" => mode[w] = "refuse" /\ fs = "neither"
        /\ pc[w] = "unlink" => mode[w] = "refuse"
        /\ pc[w] = "collided" => mode[w] = "secret"

\* Nothing is moved before it is whole, and synced where the call promises it.
DataInv ==
    \A w \in Writer :
        /\ pc[w] \in {"sync", "commit", "remove", "remove_all", "rename", "check",
                      "unlink", "sync_dir"} => data[w] = Chunks
        /\ pc[w] \in {"commit", "sync_dir"} /\ Durable(w) => synced[w]
        /\ synced[w] => data[w] = Chunks

\* What the final path holds, now and after a power loss.
Sound(f) ==
    \A w \in Writer :
        f = w /\ ~ Colliding(w) =>
            IF Durable(w) THEN synced[w] ELSE losses > 0 \/ data[w] = Chunks

IInv ==
    TypeOK /\ NamedInv /\ OwnInv /\ PathInv /\ DataInv /\ Sound(final) /\ Sound(disk)
-----------------------------------------------------------------------------
LEMMA TempPathType == TypeOK => \A w \in Writer : TempPath(w) \in Name
  BY BoundAssumption DEF TypeOK, TempPath, Name, Stamp

\* Two calls with one name: threads that read the same clock, both writing
\* secrets or neither.
LEMMA SameName ==
  ASSUME NEW v \in Writer, NEW w \in Writer, v # w, TempPath(v) = TempPath(w)
  PROVE  /\ mode[v] = "secret" <=> mode[w] = "secret"
         /\ mode[v] = "secret" => Colliding(v) /\ Colliding(w)
  BY DEF TempPath, Colliding

LEMMA InitInv == Init => IInv
<1> SUFFICES ASSUME Init PROVE IInv
  OBVIOUS
<1>1. TypeOK
  BY BoundAssumption, NameAssumption DEF Init, TypeOK, PC
<1>2. NamedInv /\ OwnInv /\ PathInv /\ DataInv
  BY NameAssumption, BoundAssumption
     DEF Init, NamedInv, OwnInv, Holds, PathInv, DataInv, MayHold
<1>3. Sound(final) /\ Sound(disk)
  BY NameAssumption DEF Init, Sound
<1> QED
  BY <1>1, <1>2, <1>3 DEF IInv

\* Every step keeps the types.
LEMMA TypeStep == TypeOK /\ [Next]_vars => TypeOK'
<1> SUFFICES ASSUME TypeOK, [Next]_vars PROVE TypeOK'
  OBVIOUS
<1> USE TempPathType, BoundAssumption DEF TypeOK
<1>1. ASSUME NEW w \in Writer, Step(w) \/ Crash(w) PROVE TypeOK'
  <2> USE DEF Goto, Hold
  <2>p. \A l \in PC : [pc EXCEPT ![w] = l] \in [Writer -> PC]
    OBVIOUS
  <2>t. /\ TempPath(w) \in Name
        /\ \A f \in Writer \cup {Nothing} :
              [temp EXCEPT ![TempPath(w)] = f] \in [Name -> Writer \cup {Nothing}]
        /\ temp[TempPath(w)] \in Writer \cup {Nothing}
    OBVIOUS
  <2>1. CASE Open(w) \/ OpenFails(w) \/ SecretTaken(w)
    BY <2>1, <2>p, <2>t DEF Open, OpenFails, SecretTaken, PC
  <2>2. CASE OpenTaken(w) \/ SecretRetry(w)
    BY <2>2, <2>p, <2>t DEF OpenTaken, SecretRetry, NextAttempt, PC
  <2>3. CASE WriteChunk(w) \/ EndOfData(w) \/ WriteFails(w)
    BY <2>3, <2>p DEF WriteChunk, EndOfData, WriteFails, PC
  <2>8. CASE SyncFile(w)
    <3>1. synced' \in [Writer -> BOOLEAN]
      BY <2>8, Zenon DEF SyncFile
    <3> QED
      BY <2>8, <2>p, <3>1 DEF SyncFile, PC
  <2>4. CASE CommitReplace(w) \/ Rename(w) \/ CommitNoReplace(w)
    BY <2>4, <2>p, <2>t DEF CommitReplace, Rename, CommitNoReplace, Moved, NotMoved, PC
  <2>5. CASE SyncDirectory(w) \/ CommitRemove(w) \/ RemoveFinal(w) \/ CheckAbsent(w)
    BY <2>5, <2>p DEF SyncDirectory, CommitRemove, RemoveFinal, CheckAbsent, PC
  <2>6. CASE HardLink(w)
    BY <2>6, <2>p, <2>t DEF HardLink, FallsBack, PC
  <2>7. CASE UnlinkTemp(w) \/ DropTemp(w) \/ Crash(w)
    BY <2>7, <2>p, <2>t DEF UnlinkTemp, DropTemp, Crash, PC
  <2> QED
    BY <1>1, <2>1, <2>2, <2>3, <2>4, <2>5, <2>6, <2>7, <2>8 DEF Step
<1>2. CASE WriteBack
  BY <1>2 DEF WriteBack
<1>3. CASE PowerLoss
  BY <1>3 DEF PowerLoss, PC
<1>4. CASE UNCHANGED vars
  BY <1>4 DEF vars
<1> QED
  BY <1>1, <1>2, <1>3, <1>4 DEF Next

\* Every step keeps the temporary names apart.
LEMMA NameStep == IInv /\ Next => NamedInv' /\ OwnInv'
<1> SUFFICES ASSUME IInv, Next PROVE NamedInv' /\ OwnInv'
  OBVIOUS
<1> USE DEF IInv
<1>t. TypeOK'
  BY TypeStep
<1>1. ASSUME NEW w \in Writer, Step(w) \/ Crash(w) PROVE NamedInv' /\ OwnInv'
  <2> USE DEF Goto, Hold
  <2>0. /\ TempPath(w) \in Name
        /\ pc \in [Writer -> PC] /\ temp \in [Name -> Writer \cup {Nothing}]
        /\ mode' = mode
        /\ \A v \in Writer : Colliding(v)' <=> Colliding(v)
    <3>1. mode' = mode
      BY <1>1 DEF Step, Open, OpenTaken, OpenFails, SecretTaken, SecretRetry, WriteChunk,
         EndOfData, WriteFails, SyncFile, CommitReplace, SyncDirectory, CommitRemove,
         RemoveFinal, Rename, CommitNoReplace, HardLink, UnlinkTemp, CheckAbsent, DropTemp,
         Crash
    <3> QED
      BY <3>1, TempPathType DEF TypeOK, Colliding
  <2>a. ASSUME attempt' = attempt PROVE \A v \in Writer : TempPath(v)' = TempPath(v)
    BY <2>a, <2>0 DEF TempPath
  \* A call that gives up the file it holds takes no name from another one.
  <2>r. ASSUME attempt' = attempt, temp' = [temp EXCEPT ![TempPath(w)] = Nothing],
               pc' = [pc EXCEPT ![w] = pc'[w]],
               pc'[w] \in {"ok", "error", "sync_dir"},
               pc[w] = "drop" \/ Holds(w)
        PROVE  NamedInv' /\ OwnInv'
    <3>1. NamedInv'
      BY <2>r, <2>0, <2>a, NameAssumption DEF NamedInv
    <3>2. SUFFICES ASSUME NEW v \in Writer, Holds(v)', ~ Colliding(v)
                   PROVE  temp'[TempPath(v)] = v
      BY <3>1, <2>0, <2>a, <2>r DEF OwnInv
    <3>3. v # w /\ Holds(v)
      BY <2>r, <3>2, <2>0 DEF Holds
    <3>4. temp[TempPath(v)] = v
      BY <3>2, <3>3 DEF OwnInv
    <3>5. TempPath(v) # TempPath(w)
      <4> SUFFICES ASSUME TempPath(v) = TempPath(w) PROVE FALSE
        OBVIOUS
      <4>1. mode[w] # "secret" /\ mode[v] # "secret"
        BY <3>2, <3>3, SameName
      <4>2. Holds(w) /\ ~ Colliding(w)
        BY <2>r, <4>1 DEF Holds, Colliding
      <4> QED
        BY <4>2, <3>3, <3>4 DEF OwnInv
    <3> QED
      BY <3>4, <3>5, <2>r, <2>0
  \* A call that goes on with or without its file.
  <2>s. ASSUME attempt' = attempt, temp' = temp, pc' = [pc EXCEPT ![w] = pc'[w]],
               Holds(w)' => Holds(w),
               pc[w] \in MayHold => pc'[w] \in MayHold
        PROVE  NamedInv' /\ OwnInv'
    <3>1. NamedInv'
      BY <2>s, <2>0, <2>a, NameAssumption DEF NamedInv
    <3>2. \A v \in Writer : Holds(v)' => Holds(v)
      BY <2>s, <2>0 DEF Holds
    <3> QED
      BY <3>1, <3>2, <2>s, <2>0, <2>a DEF OwnInv
  <2>1. CASE Open(w)
    <3>0. /\ attempt' = attempt /\ temp' = [temp EXCEPT ![TempPath(w)] = w]
          /\ pc' = [pc EXCEPT ![w] = "write"]
          /\ temp[TempPath(w)] = Nothing /\ pc[w] = "open"
      BY <2>1 DEF Open
    <3>1. NamedInv'
      BY <3>0, <2>0, <2>a DEF NamedInv, MayHold
    <3>2. \A v \in Writer : v # w /\ Holds(v)' => Holds(v)
      BY <3>0, <2>0 DEF Holds
    <3>3. OwnInv'
      BY <3>0, <3>2, <2>0, <2>a, NameAssumption DEF OwnInv
    <3> QED
      BY <3>1, <3>3
  <2>2. CASE OpenFails(w) \/ SecretTaken(w)
    BY <2>2, <2>s, <2>0 DEF OpenFails, SecretTaken, Holds, MayHold
  \* The retries: the call holds nothing, so that a new name concerns nobody.
  <2>3. CASE OpenTaken(w) \/ SecretRetry(w)
    <3>0. /\ pc[w] \in {"open", "collided"}
          /\ pc' = [pc EXCEPT ![w] = "open"] \/ pc' = [pc EXCEPT ![w] = "error"]
          /\ \A v \in Writer : v # w => TempPath(v)' = TempPath(v)
          /\ \/ temp' = temp
             \/ temp' = [temp EXCEPT ![TempPath(w)] = Nothing] /\ mode[w] = "secret"
      <4>1. \A v \in Writer : v # w => attempt'[v] = attempt[v]
        BY <2>3 DEF OpenTaken, SecretRetry, NextAttempt, TypeOK
      <4> QED
        BY <2>3, <2>0, <4>1 DEF OpenTaken, SecretRetry, NextAttempt, PathInv, TempPath
    <3>1. \A n \in Name : temp[n] # w /\ temp'[n] \in {temp[n], Nothing}
      BY <3>0, <2>0 DEF NamedInv, MayHold
    <3>2. NamedInv'
      BY <3>0, <3>1, <2>0, NameAssumption DEF NamedInv, MayHold
    <3>3. SUFFICES ASSUME NEW v \in Writer, Holds(v)', ~ Colliding(v)
                   PROVE  temp'[TempPath(v)'] = v
      BY <3>2, <2>0 DEF OwnInv
    <3>4. v # w /\ Holds(v)
      BY <3>0, <3>3, <2>0 DEF Holds
    <3>5. temp[TempPath(v)] = v /\ TempPath(v)' = TempPath(v)
      BY <3>0, <3>3, <3>4 DEF OwnInv
    <3>6. mode[w] = "secret" => TempPath(v) # TempPath(w)
      BY <3>3, <3>4, SameName
    <3> QED
      BY <3>0, <3>5, <3>6, <2>0, TempPathType
  <2>4. CASE WriteChunk(w) \/ SyncFile(w) \/ SyncDirectory(w)
    BY <2>4, <2>s, <2>0 DEF WriteChunk, SyncFile, SyncDirectory, Holds, MayHold
  <2>5. CASE EndOfData(w) \/ WriteFails(w) \/ CheckAbsent(w)
    BY <2>5, <2>s, <2>0 DEF EndOfData, WriteFails, CheckAbsent, Holds, MayHold
  <2>6. CASE CommitRemove(w) \/ RemoveFinal(w)
    BY <2>6, <2>s, <2>0 DEF CommitRemove, RemoveFinal, Holds, MayHold
  <2>7. CASE CommitReplace(w) \/ Rename(w) \/ CommitNoReplace(w)
    BY <2>7, <2>r, <2>s, <2>0
       DEF CommitReplace, Rename, CommitNoReplace, Moved, NotMoved, Holds, MayHold
  <2>8. CASE HardLink(w)
    BY <2>8, <2>s, <2>0 DEF HardLink, FallsBack, Holds, MayHold
  <2>9. CASE UnlinkTemp(w) \/ DropTemp(w)
    BY <2>9, <2>r, <2>0 DEF UnlinkTemp, DropTemp, Holds
  <2>10. CASE Crash(w)
    BY <2>10, <2>s, <2>0 DEF Crash, Running, Holds, MayHold
  <2> QED
    BY <1>1, <2>1, <2>2, <2>3, <2>4, <2>5, <2>6, <2>7, <2>8, <2>9, <2>10 DEF Step
<1>2. CASE WriteBack
  BY <1>2 DEF WriteBack, NamedInv, OwnInv, Holds, Colliding, TempPath
<1>3. CASE PowerLoss
  BY <1>3 DEF PowerLoss, NamedInv, OwnInv, Holds, TempPath, MayHold, Running, TypeOK, PC
<1> QED
  BY <1>1, <1>2, <1>3 DEF Next

\* Every step keeps the order in which a file is written, synced and moved.
LEMMA DataStep == IInv /\ Next => PathInv' /\ DataInv'
<1> SUFFICES ASSUME IInv, Next PROVE PathInv' /\ DataInv'
  OBVIOUS
<1> USE DEF IInv
<1>1. ASSUME NEW w \in Writer, Step(w) \/ Crash(w) PROVE PathInv' /\ DataInv'
  <2> USE ModeAssumption, FilesystemAssumption
      DEF Goto, Hold, PathInv, DataInv, Durable, Replacing, TypeOK, PC
  <2>1. CASE Open(w) \/ OpenFails(w) \/ SecretTaken(w)
    BY <2>1 DEF Open, OpenFails, SecretTaken
  <2>2. CASE OpenTaken(w) \/ SecretRetry(w)
    BY <2>2 DEF OpenTaken, SecretRetry, NextAttempt
  <2>3. CASE WriteChunk(w)
    BY <2>3 DEF WriteChunk
  <2>4. CASE EndOfData(w) \/ WriteFails(w)
    BY <2>4 DEF EndOfData, WriteFails
  <2>5. CASE SyncFile(w)
    BY <2>5 DEF SyncFile
  <2>6. CASE CommitReplace(w)
    BY <2>6 DEF CommitReplace
  <2>7. CASE SyncDirectory(w) \/ RemoveFinal(w) \/ CheckAbsent(w)
    BY <2>7 DEF SyncDirectory, RemoveFinal, CheckAbsent
  <2>8. CASE CommitRemove(w)
    BY <2>8 DEF CommitRemove
  <2>9. CASE Rename(w) \/ CommitNoReplace(w)
    BY <2>9 DEF Rename, CommitNoReplace
  <2>10. CASE HardLink(w)
    BY <2>10 DEF HardLink, FallsBack
  <2>11. CASE UnlinkTemp(w) \/ DropTemp(w) \/ Crash(w)
    BY <2>11 DEF UnlinkTemp, DropTemp, Crash
  <2> QED
    BY <1>1, <2>1, <2>2, <2>3, <2>4, <2>5, <2>6, <2>7, <2>8, <2>9, <2>10, <2>11 DEF Step
<1>2. CASE WriteBack
  BY <1>2 DEF WriteBack, PathInv, DataInv, Durable, Replacing
<1>3. CASE PowerLoss
  BY <1>3 DEF PowerLoss, PathInv, DataInv, Durable, Replacing, Running, TypeOK, PC
<1> QED
  BY <1>1, <1>2, <1>3 DEF Next

\* What a move puts at the final path is the file of the call that moves, or
\* one of a pair of colliding writers.
LEMMA MovedIsOwn ==
  ASSUME IInv, NEW w \in Writer, Holds(w),
         NEW v \in Writer, temp[TempPath(w)] = v, ~ Colliding(v)
  PROVE  v = w
<1> SUFFICES ASSUME v # w PROVE FALSE
  OBVIOUS
<1>1. TempPath(w) = TempPath(v)
  BY TempPathType DEF IInv, NamedInv
<1>2. mode[w] # "secret"
  BY <1>1, SameName
<1> QED
  BY <1>2 DEF IInv, OwnInv, Colliding

\* Every step keeps what is at the final path, and on the medium, sound.
LEMMA SoundStep == IInv /\ Next => Sound(final)' /\ Sound(disk)'
<1> SUFFICES ASSUME IInv, Next PROVE Sound(final)' /\ Sound(disk)'
  OBVIOUS
<1> USE DEF IInv
<1>0. ASSUME NEW f, Sound(f), mode' = mode, losses' = losses,
             \A v \in Writer : synced[v] => synced'[v],
             \A v \in Writer : data[v] = Chunks => data'[v] = Chunks
      PROVE  \A v \in Writer :
                f = v /\ ~ Colliding(v)' =>
                   IF Durable(v)' THEN synced'[v] ELSE losses' > 0 \/ data'[v] = Chunks
  BY <1>0 DEF Sound, Colliding, Durable
<1>1. ASSUME NEW w \in Writer, Step(w) \/ Crash(w) PROVE Sound(final)' /\ Sound(disk)'
  <2>1. /\ mode' = mode /\ losses' = losses
        /\ \A v \in Writer : synced[v] => synced'[v]
        /\ \A v \in Writer : data[v] = Chunks => data'[v] = Chunks
    BY <1>1 DEF Step, Open, OpenTaken, OpenFails, SecretTaken, SecretRetry, WriteChunk,
       EndOfData, WriteFails, SyncFile, CommitReplace, SyncDirectory, CommitRemove,
       RemoveFinal, Rename, CommitNoReplace, HardLink, UnlinkTemp, CheckAbsent, DropTemp,
       Crash, TypeOK
  <2>2. \/ final' \in {final, Nothing}
        \/ /\ final' = temp[TempPath(w)]
           /\ pc[w] \in {"commit", "rename"}
           /\ synced' = synced /\ data' = data
    BY <1>1 DEF Step, Open, OpenTaken, OpenFails, SecretTaken, SecretRetry, WriteChunk,
       EndOfData, WriteFails, SyncFile, CommitReplace, SyncDirectory, CommitRemove,
       RemoveFinal, Rename, CommitNoReplace, HardLink, UnlinkTemp, CheckAbsent, DropTemp,
       Crash, Moved, NotMoved, FallsBack
  <2>3. disk' \in {disk, final}
    BY <1>1 DEF Step, Open, OpenTaken, OpenFails, SecretTaken, SecretRetry, WriteChunk,
       EndOfData, WriteFails, SyncFile, CommitReplace, SyncDirectory, CommitRemove,
       RemoveFinal, Rename, CommitNoReplace, HardLink, UnlinkTemp, CheckAbsent, DropTemp,
       Crash
  <2>4. Sound(disk)'
    BY <1>0, <2>1, <2>3 DEF Sound
  <2>5. CASE final' \in {final, Nothing}
    BY <1>0, <2>1, <2>4, <2>5, NameAssumption DEF Sound
  <2>6. CASE /\ final' = temp[TempPath(w)] /\ pc[w] \in {"commit", "rename"}
             /\ synced' = synced /\ data' = data
    <3> SUFFICES ASSUME NEW v \in Writer, final' = v, ~ Colliding(v)'
                 PROVE  IF Durable(v)' THEN synced'[v] ELSE data'[v] = Chunks
      BY <2>4 DEF Sound
    <3>1. v = w
      BY <2>1, <2>6, MovedIsOwn DEF Holds, Colliding
    <3>2. data[w] = Chunks /\ (Durable(w) => synced[w])
      BY <2>6 DEF DataInv, PathInv, Durable, Replacing
    <3> QED
      BY <2>1, <2>6, <3>1, <3>2 DEF Durable
  <2> QED
    BY <2>2, <2>5, <2>6
<1>2. CASE WriteBack
  BY <1>2 DEF WriteBack, Sound, Colliding, Durable
<1>3. CASE PowerLoss
  BY <1>3 DEF PowerLoss, Sound, Colliding, Durable, TypeOK
<1> QED
  BY <1>1, <1>2, <1>3 DEF Next

LEMMA InvStep == IInv /\ [Next]_vars => IInv'
<1>1. ASSUME IInv, Next PROVE IInv'
  <2>1. TypeOK'
    BY <1>1, TypeStep DEF IInv
  <2> QED
    BY <1>1, <2>1, NameStep, DataStep, SoundStep DEF IInv
<1>2. ASSUME IInv, UNCHANGED vars PROVE IInv'
  BY <1>2 DEF IInv, vars, TypeOK, NamedInv, OwnInv, Holds, Colliding, TempPath, PathInv,
     DataInv, Durable, Replacing, Sound
<1> QED
  BY <1>1, <1>2

LEMMA InvImplies == IInv => WholeOrNothing
<1> SUFFICES ASSUME IInv PROVE WholeOrNothing
  OBVIOUS
<1>1. WholeFile
  BY DEF IInv, Sound, DataInv, WholeFile, TypeOK
<1>2. TempIsOwn
  BY DEF IInv, OwnInv, Holds, TempIsOwn
<1>3. NothingLeftBehind
  BY DEF IInv, NamedInv, MayHold, NothingLeftBehind, Running
<1> QED
  BY <1>1, <1>2, <1>3 DEF IInv, WholeOrNothing

\* Whatever calls write one path, and whatever is killed, cancelled or cut off,
\* a file is at the final path whole or not at all, a temporary name stays with
\* its call, and a call that returned leaves none (atomic_file.rs).
THEOREM OutputIsWhole == Spec => []WholeOrNothing
<1>1. Spec => []IInv
  BY InitInv, InvStep, PTL DEF Spec
<1> QED
  BY <1>1, InvImplies, PTL

\* A file of a call that must not replace arrives by a system call that found
\* the path free.
LEMMA RefuseStep ==
  ASSUME IInv, [Next]_vars, NEW w \in Writer,
         final' = w, final # w, mode[w] = "refuse", losses' = losses, fs # "neither"
  PROVE  final = Nothing
<1>1. ASSUME NEW v \in Writer, Step(v) \/ Crash(v) PROVE final = Nothing
  <2>1. CASE CommitReplace(v) \/ Rename(v)
    <3>1. final' = temp[TempPath(v)] /\ Holds(v)
      BY <2>1 DEF CommitReplace, Rename, Moved, NotMoved, Holds
    <3>2. v = w
      BY <3>1, MovedIsOwn DEF Colliding
    <3> QED
      BY <2>1, <3>2 DEF CommitReplace, Rename, Durable, Replacing, IInv, PathInv
  <2>2. CASE CommitNoReplace(v) \/ HardLink(v)
    BY <2>2 DEF CommitNoReplace, HardLink
  <2>3. CASE RemoveFinal(v)
    BY <2>3, NameAssumption DEF RemoveFinal
  <2> QED
    BY <1>1, <2>1, <2>2, <2>3
       DEF Step, Open, OpenTaken, OpenFails, SecretTaken, SecretRetry, WriteChunk,
           EndOfData, WriteFails, SyncFile, SyncDirectory, CommitRemove, UnlinkTemp,
           CheckAbsent, DropTemp, Crash
<1>2. CASE WriteBack \/ PowerLoss
  BY <1>2 DEF WriteBack, PowerLoss, IInv, TypeOK
<1> QED
  BY <1>1, <1>2 DEF Next, vars

LEMMA NeitherStep ==
  ASSUME IInv, [Next]_vars, final # Nothing, disk # Nothing, final' = Nothing
  PROVE  \E w \in Writer : Replacing(w)
<1>1. ASSUME NEW v \in Writer, Step(v) \/ Crash(v) PROVE \E w \in Writer : Replacing(w)
  <2>1. CASE RemoveFinal(v)
    BY <2>1 DEF RemoveFinal, IInv, PathInv
  <2> QED
    BY <1>1, <2>1
       DEF Step, Open, OpenTaken, OpenFails, SecretTaken, SecretRetry, WriteChunk,
           EndOfData, WriteFails, SyncFile, SyncDirectory, CommitRemove, UnlinkTemp,
           CheckAbsent, DropTemp, Crash, CommitReplace, Rename, CommitNoReplace, HardLink,
           Moved, NotMoved
<1>2. CASE WriteBack \/ PowerLoss
  BY <1>2 DEF WriteBack, PowerLoss
<1> QED
  BY <1>1, <1>2 DEF Next, vars

\* No step loses what the final path held against the caller's policy: a commit
\* without replace finds the path free (commit_without_replace), and the writers
\* of the catalogue and of secrets never leave it empty.
THEOREM OutputLosesNothing == Spec => NothingIsLost
<1>1. Spec => []IInv
  BY InitInv, InvStep, PTL DEF Spec
<1>2. IInv /\ [Next]_vars =>
        [\A w \in Writer :
          (final' = w /\ final # w /\ mode[w] = "refuse" /\ losses' = losses
             /\ fs # "neither")
              => final = Nothing]_vars
  BY RefuseStep
<1>3. IInv /\ [Next]_vars =>
        [(final # Nothing /\ disk # Nothing /\ final' = Nothing)
          => \E w \in Writer : Replacing(w)]_vars
  BY NeitherStep
<1>4. Spec => RefuseNeverClobbers
  BY <1>1, <1>2, PTL DEF Spec, RefuseNeverClobbers
<1>5. Spec => NeverNeither
  BY <1>1, <1>3, PTL DEF Spec, NeverNeither
<1> QED
  BY <1>4, <1>5 DEF NothingIsLost
----------------------------------------------------------------------------
(* The volumes of a creation *)

(* The names a reader looks at: all but the sidecar.                       *)
Names == {Dest} \cup Part

(* The names the writer and the reader recognise.                          *)
Seen == {Dest} \cup Numbered(req.format)

(* Whether the volumes that were there are all listed: a bare name makes   *)
(* ZIP and 7z read an empty path.                                          *)
Lists == req.bare => req.format = "tzap"

(* A file that another program did not create meanwhile.                   *)
Ours(c) == c \notin {"none", "other"}

VolumesWritten == {"removing", "committing", "sidecar", "done"}

(* What the directory holds is what it held when it was listed, and what   *)
(* other programs created.                                                 *)
Untouched == \A p \in Path : dir[p] = found[p] \/ (found[p] = "none" /\ dir[p] = "other")

(* The counters and the paths to remove belong to the writer's position.   *)
Position ==
    /\ vpc = "idle" => written = 0
    /\ vpc \in {"idle", "listed", "writing"} => todo = {} /\ committed = 0 /\ Untouched
    /\ vpc = "removing" => committed = 0 /\ (todo # {} => req.replace)
    /\ vpc \in VolumesWritten => written = Count(req)
    /\ vpc \in {"sidecar", "done"} => committed = written
    /\ vpc = "failed" /\ written < Count(req) => Untouched

(* No new volume is in place before the commits begin, and every volume    *)
(* that was committed is in place.                                         *)
NewPlaced ==
    /\ vpc \in {"idle", "listed", "writing", "removing"} => \A p \in Path : dir[p] # "new"
    /\ vpc \in {"committing", "sidecar", "done"} =>
          \A i \in 1 .. committed : dir[VolumePath(req.format, written, i)] = "new"

(* The old files whose names are recognised are on the way out: listed,    *)
(* then to be removed, then gone.                                          *)
OldLeaves ==
    Lists =>
    /\ vpc \in {"listed", "writing"} => \A p \in Numbered(req.format) : Ours(dir[p]) => p \in listed
    /\ vpc = "writing" /\ ~req.replace => \A p \in Seen : ~Ours(dir[p])
    /\ vpc = "removing" => \A p \in Seen : Ours(dir[p]) => p \in todo
    /\ vpc \in {"committing", "sidecar", "done"} =>
          \A p \in Seen : Ours(dir[p]) =>
             dir[p] = "new" /\ \E i \in 1 .. committed : p = VolumePath(req.format, written, i)

(* No file becomes an old one.                                             *)
OldFound == \A p \in Path : dir[p] = "old" => found[p] = "old"

(* Foreign files come from intrusions only.                                *)
Foreign == intrusions = 0 => \A p \in Path : dir[p] # "other"

VolInv ==
    /\ VolumeTypeOK /\ Position /\ NewPlaced /\ Foreign /\ OldFound
    /\ vpc # "idle" => OldLeaves /\ (Lists => NeverMixed)

----------------------------------------------------------------------------
(* A request is one of the three formats and needs as many volumes as      *)
(* there are numbers.                                                      *)
LEMMA RequestFacts ==
    ASSUME NEW r \in Requests
    PROVE  /\ r.format \in {"zip", "sevenz", "tzap"} /\ r.replace \in BOOLEAN
           /\ r.archive \in Archives
           /\ Count(r) \in Part
BY VolumeAssumption DEF Requests

LEMMA PathFacts ==
    /\ MaxVolumes \in Nat /\ MaxIntrusions \in Nat
    /\ Names \subseteq Path /\ Part \subseteq Nat \ {0}
    /\ Sidecar \notin Names /\ Path = Names \cup {Sidecar}
    /\ Dest \in Names /\ Dest \notin Part
    /\ Seen \subseteq Names /\ Numbered(req.format) \subseteq Part
BY VolumeAssumption DEF Names, Path, Part, Dest, Sidecar, Seen, Numbered

(* Every volume has a name a reader looks at.                              *)
LEMMA VolumePathFacts ==
    ASSUME NEW r \in Requests, NEW n \in Part, NEW i \in 1 .. n
    PROVE  VolumePath(r.format, n, i) \in Names
BY RequestFacts, PathFacts DEF VolumePath, Names, Part

(* The directory at first holds nothing of the new archive and nothing of  *)
(* other programs.                                                         *)
LEMMA OldDirectoryFacts ==
    ASSUME NEW format, NEW d \in OldDirectories(format)
    PROVE  d \in [Path -> {"none", "old", "directory"}]
<1> DEFINE NoneOrOld == [Path -> {"none", "old"}]
<1>1. \A e \in NoneOrOld : \A p : [e EXCEPT ![p] = "directory"] \in [Path -> {"none", "old", "directory"}]
  OBVIOUS
<1>2. \A e \in NoneOrOld : e \in [Path -> {"none", "old", "directory"}]
  OBVIOUS
<1>3. WholeArchives(format) \subseteq NoneOrOld
  BY DEF WholeArchives
<1> HIDE DEF NoneOrOld
<1>4. CASE d \in WholeArchives(format)
  BY <1>2, <1>3, <1>4
<1>5. CASE d \in {[e EXCEPT ![p] = "directory"] : e \in WholeArchives(format), p \in DirectoriesAt}
  <2> PICK e \in WholeArchives(format), p \in DirectoriesAt : d = [e EXCEPT ![p] = "directory"]
    BY <1>5
  <2> QED BY <1>1, <1>3
<1> QED BY <1>4, <1>5 DEF OldDirectories

LEMMA VolInvInit == VolumeInit => VolInv
<1> SUFFICES ASSUME VolumeInit PROVE VolInv OBVIOUS
<1>1. dir \in [Path -> Contents] BY DEF VolumeInit, Contents
<1> QED
  BY <1>1, VolumeAssumption DEF VolumeInit, VolInv, VolumeTypeOK, VolumePC, Position, Untouched, NewPlaced, Foreign, OldFound, VolumesWritten

(* The facts about the volumes that an invariant's step can use.           *)
LEMMA Typed ==
    ASSUME VolInv, vpc # "idle"
    PROVE  /\ req \in Requests /\ req.replace \in BOOLEAN /\ Count(req) \in Part
           /\ dir \in [Path -> Contents] /\ found \in [Path -> Contents]
           /\ listed \subseteq Part /\ todo \subseteq listed \cup {Dest}
           /\ written \in Nat /\ committed \in Nat /\ intrusions \in Nat
           /\ written <= MaxVolumes /\ committed <= written /\ intrusions <= MaxIntrusions
BY RequestFacts, VolumeAssumption DEF VolInv, VolumeTypeOK

LEMMA ListVolumesStep == VolInv /\ ListVolumes => VolInv'
<1> SUFFICES ASSUME VolInv, ListVolumes PROVE VolInv' OBVIOUS
<1> PICK r \in Requests : \E d \in OldDirectories(r.format) :
          req' = r /\ dir' = d /\ found' = d /\ listed' = Existing(r, d)
  BY DEF ListVolumes
<1> PICK d \in OldDirectories(r.format) :
          req' = r /\ dir' = d /\ found' = d /\ listed' = Existing(r, d)
  OBVIOUS
<1>1. d \in [Path -> {"none", "old", "directory"}] BY OldDirectoryFacts
<1>2. vpc = "idle" /\ vpc' = "listed" /\ UNCHANGED <<todo, written, committed, intrusions>>
  BY DEF ListVolumes
<1>3. VolumeTypeOK'
  BY <1>1, <1>2 DEF VolumeTypeOK, VolInv, Position, Contents, VolumePC, Existing, Numbered
<1>4. Position'
  BY <1>1, <1>2 DEF VolInv, Position, Untouched, VolumesWritten
<1>5. NewPlaced' /\ Foreign'
  BY <1>1, <1>2 DEF NewPlaced, Foreign
<1>6. OldLeaves'
  BY <1>1, <1>2, RequestFacts DEF OldLeaves, Lists, Existing, Ours
<1>8. OldFound'
  BY <1>1 DEF OldFound
<1>7. NeverMixed'
  BY <1>1 DEF NeverMixed
<1> QED BY <1>3, <1>4, <1>5, <1>6, <1>7, <1>8, <1>2 DEF VolInv

LEMMA EnsureAvailableStep == VolInv /\ EnsureAvailable /\ vpc # "idle" => VolInv'
<1> SUFFICES ASSUME VolInv, EnsureAvailable, vpc # "idle" PROVE VolInv' OBVIOUS
<1> USE Typed, PathFacts
<1>3. VolumeTypeOK'
  BY DEF VolumeTypeOK, VolInv, EnsureAvailable, VolumePC, Position, Contents
<1>4. Position'
  BY DEF VolInv, EnsureAvailable, Position, Untouched, VolumesWritten
<1>5. NewPlaced' /\ Foreign'
  BY VolumePathFacts DEF VolInv, EnsureAvailable, NewPlaced, Foreign, Position, VolumesWritten
<1>6. OldLeaves'
  BY VolumePathFacts DEF Names, Available, VolInv, EnsureAvailable, OldLeaves, Lists, Ours, Position, Seen, Numbered
<1>7. (Lists => NeverMixed)'
  BY VolumePathFacts DEF VolInv, EnsureAvailable, NeverMixed, Lists, OldLeaves, NewPlaced, Ours, OldNumbered, OldFound, Seen
<1>8. OldFound'
  BY DEF VolInv, EnsureAvailable, OldFound
<1> QED BY <1>3, <1>4, <1>5, <1>6, <1>7, <1>8 DEF VolInv

LEMMA WriteVolumeStep == VolInv /\ WriteVolume /\ vpc # "idle" => VolInv'
<1> SUFFICES ASSUME VolInv, WriteVolume, vpc # "idle" PROVE VolInv' OBVIOUS
<1> USE Typed, PathFacts
<1>3. VolumeTypeOK'
  BY DEF Part, VolumeTypeOK, VolInv, WriteVolume, VolumePC, Position, Contents
<1>4. Position'
  BY DEF VolInv, WriteVolume, Position, Untouched, VolumesWritten
<1>5. NewPlaced' /\ Foreign'
  BY VolumePathFacts DEF VolInv, WriteVolume, NewPlaced, Foreign, Position, VolumesWritten
<1>6. OldLeaves'
  BY VolumePathFacts DEF VolInv, WriteVolume, OldLeaves, Lists, Ours, Position, Seen, Numbered
<1>7. (Lists => NeverMixed)'
  BY VolumePathFacts DEF VolInv, WriteVolume, NeverMixed, Lists, OldLeaves, NewPlaced, Ours, OldNumbered, OldFound, Seen
<1>8. OldFound'
  BY DEF VolInv, WriteVolume, OldFound
<1> QED BY <1>3, <1>4, <1>5, <1>6, <1>7, <1>8 DEF VolInv

LEMMA AllWrittenStep == VolInv /\ AllWritten /\ vpc # "idle" => VolInv'
<1> SUFFICES ASSUME VolInv, AllWritten, vpc # "idle" PROVE VolInv' OBVIOUS
<1> USE Typed, PathFacts
<1>3. VolumeTypeOK'
  BY DEF VolumeTypeOK, VolInv, AllWritten, VolumePC, Position, Contents
<1>4. Position'
  BY DEF VolInv, AllWritten, Position, Untouched, VolumesWritten
<1>5. NewPlaced' /\ Foreign'
  BY VolumePathFacts DEF VolInv, AllWritten, NewPlaced, Foreign, Position, VolumesWritten
<1>6. OldLeaves'
  BY VolumePathFacts DEF Names, VolInv, AllWritten, OldLeaves, Lists, Ours, Position, Seen, Numbered
<1>7. (Lists => NeverMixed)'
  BY VolumePathFacts DEF VolInv, AllWritten, NeverMixed, Lists, OldLeaves, NewPlaced, Ours, OldNumbered, OldFound, Seen
<1>8. OldFound'
  BY DEF VolInv, AllWritten, OldFound
<1> QED BY <1>3, <1>4, <1>5, <1>6, <1>7, <1>8 DEF VolInv

LEMMA RemoveVolumeStep == VolInv /\ RemoveVolume /\ vpc # "idle" => VolInv'
<1> SUFFICES ASSUME VolInv, RemoveVolume, vpc # "idle" PROVE VolInv' OBVIOUS
<1> USE Typed, PathFacts
<1>3. VolumeTypeOK'
  BY DEF VolumeTypeOK, VolInv, RemoveVolume, VolumePC, Position, Contents
<1>4. Position'
  BY DEF VolInv, RemoveVolume, Position, Untouched, VolumesWritten
<1>5. NewPlaced' /\ Foreign'
  BY VolumePathFacts DEF VolInv, RemoveVolume, NewPlaced, Foreign, Position, VolumesWritten
<1>6. OldLeaves'
  BY VolumePathFacts DEF VolInv, RemoveVolume, OldLeaves, Lists, Ours, Position, Seen, Numbered
<1>7. (Lists => NeverMixed)'
  BY VolumePathFacts DEF VolInv, RemoveVolume, NeverMixed, Lists, OldLeaves, NewPlaced, Ours, OldNumbered, OldFound, Seen
<1>8. OldFound'
  BY DEF VolInv, RemoveVolume, OldFound
<1> QED BY <1>3, <1>4, <1>5, <1>6, <1>7, <1>8 DEF VolInv

LEMMA AllRemovedStep == VolInv /\ AllRemoved /\ vpc # "idle" => VolInv'
<1> SUFFICES ASSUME VolInv, AllRemoved, vpc # "idle" PROVE VolInv' OBVIOUS
<1> USE Typed, PathFacts
<1>3. VolumeTypeOK'
  BY DEF VolumeTypeOK, VolInv, AllRemoved, VolumePC, Position, Contents
<1>4. Position'
  BY DEF VolInv, AllRemoved, Position, Untouched, VolumesWritten
<1>5. NewPlaced' /\ Foreign'
  BY VolumePathFacts DEF VolInv, AllRemoved, NewPlaced, Foreign, Position, VolumesWritten
<1>6. OldLeaves'
  BY VolumePathFacts DEF VolInv, AllRemoved, OldLeaves, Lists, Ours, Position, Seen, Numbered
<1>7. (Lists => NeverMixed)'
  BY VolumePathFacts DEF VolInv, AllRemoved, NeverMixed, Lists, OldLeaves, NewPlaced, Ours, OldNumbered, OldFound, Seen
<1>8. OldFound'
  BY DEF VolInv, AllRemoved, OldFound
<1> QED BY <1>3, <1>4, <1>5, <1>6, <1>7, <1>8 DEF VolInv

LEMMA CommitVolumeStep == VolInv /\ CommitVolume /\ vpc # "idle" => VolInv'
<1> SUFFICES ASSUME VolInv, CommitVolume, vpc # "idle" PROVE VolInv' OBVIOUS
<1> USE Typed, PathFacts
<1>3. VolumeTypeOK'
  <2>1. dir' \in [Path -> Contents] BY DEF CommitVolume, Contents
  <2> QED BY <2>1 DEF VolumeTypeOK, VolInv, CommitVolume, VolumePC, Position, Contents
<1>4. Position'
  BY DEF VolInv, CommitVolume, Position, Untouched, VolumesWritten
<1>5. NewPlaced' /\ Foreign'
  BY VolumePathFacts DEF VolInv, CommitVolume, NewPlaced, Foreign, Position, VolumesWritten
<1>6. OldLeaves'
  BY VolumePathFacts DEF VolInv, CommitVolume, OldLeaves, Lists, Ours, Position, Seen, Numbered
<1>7. (Lists => NeverMixed)'
  <2> SUFFICES ASSUME Lists, OldNumbered, NEW p \in Names, dir'[p] = "old" PROVE FALSE
    BY DEF NeverMixed, Lists, OldNumbered, CommitVolume, Numbered
  <2>1. dir[p] = "old" BY DEF CommitVolume
  <2>2. found[p] = "old" BY <2>1 DEF VolInv, OldFound
  <2>3. p \in Seen BY <2>2 DEF Names, Seen, OldNumbered
  <2> QED BY <2>1, <2>3 DEF VolInv, OldLeaves, CommitVolume, Ours
<1>8. OldFound'
  BY DEF VolInv, CommitVolume, OldFound
<1> QED BY <1>3, <1>4, <1>5, <1>6, <1>7, <1>8 DEF VolInv

LEMMA AllCommittedStep == VolInv /\ AllCommitted /\ vpc # "idle" => VolInv'
<1> SUFFICES ASSUME VolInv, AllCommitted, vpc # "idle" PROVE VolInv' OBVIOUS
<1> USE Typed, PathFacts
<1>3. VolumeTypeOK'
  BY DEF VolumeTypeOK, VolInv, AllCommitted, VolumePC, Position, Contents
<1>4. Position'
  BY DEF VolInv, AllCommitted, Position, Untouched, VolumesWritten
<1>5. NewPlaced' /\ Foreign'
  BY VolumePathFacts DEF VolInv, AllCommitted, NewPlaced, Foreign, Position, VolumesWritten
<1>6. OldLeaves'
  BY VolumePathFacts DEF VolInv, AllCommitted, OldLeaves, Lists, Ours, Position, Seen, Numbered
<1>7. (Lists => NeverMixed)'
  BY VolumePathFacts DEF VolInv, AllCommitted, NeverMixed, Lists, OldLeaves, NewPlaced, Ours, OldNumbered, OldFound, Seen
<1>8. OldFound'
  BY DEF VolInv, AllCommitted, OldFound
<1> QED BY <1>3, <1>4, <1>5, <1>6, <1>7, <1>8 DEF VolInv

LEMMA CommitSidecarStep == VolInv /\ CommitSidecar /\ vpc # "idle" => VolInv'
<1> SUFFICES ASSUME VolInv, CommitSidecar, vpc # "idle" PROVE VolInv' OBVIOUS
<1> USE Typed, PathFacts
<1>3. VolumeTypeOK'
  BY DEF VolumeTypeOK, VolInv, CommitSidecar, VolumePC, Position, Contents
<1>4. Position'
  BY DEF VolInv, CommitSidecar, Position, Untouched, VolumesWritten
<1>5. NewPlaced' /\ Foreign'
  BY VolumePathFacts DEF VolInv, CommitSidecar, NewPlaced, Foreign, Position, VolumesWritten
<1>6. OldLeaves'
  BY VolumePathFacts DEF VolInv, CommitSidecar, OldLeaves, Lists, Ours, Position, Seen, Numbered
<1>7. (Lists => NeverMixed)'
  BY VolumePathFacts DEF VolInv, CommitSidecar, NeverMixed, Lists, OldLeaves, NewPlaced, Ours, OldNumbered, OldFound, Seen
<1>8. OldFound'
  BY DEF VolInv, CommitSidecar, OldFound
<1> QED BY <1>3, <1>4, <1>5, <1>6, <1>7, <1>8 DEF VolInv

LEMMA WriterFailsStep == VolInv /\ WriterFails /\ vpc # "idle" => VolInv'
<1> SUFFICES ASSUME VolInv, WriterFails, vpc # "idle" PROVE VolInv' OBVIOUS
<1> USE Typed, PathFacts
<1>3. VolumeTypeOK'
  BY DEF VolumeTypeOK, VolInv, WriterFails, UnderReplacement, VolumePC, Position, Contents
<1>4. Position'
  BY DEF VolInv, WriterFails, UnderReplacement, Position, Untouched, VolumesWritten
<1>5. NewPlaced' /\ Foreign'
  BY VolumePathFacts DEF VolInv, WriterFails, UnderReplacement, NewPlaced, Foreign, Position, VolumesWritten
<1>6. OldLeaves'
  BY VolumePathFacts DEF VolInv, WriterFails, UnderReplacement, OldLeaves, Lists, Ours, Position, Seen, Numbered
<1>7. (Lists => NeverMixed)'
  BY VolumePathFacts DEF VolInv, WriterFails, UnderReplacement, NeverMixed, Lists, OldLeaves, NewPlaced, Ours, OldNumbered, OldFound, Seen
<1>8. OldFound'
  BY DEF VolInv, WriterFails, UnderReplacement, OldFound
<1> QED BY <1>3, <1>4, <1>5, <1>6, <1>7, <1>8 DEF VolInv

LEMMA DroppedStep == VolInv /\ Dropped /\ vpc # "idle" => VolInv'
<1> SUFFICES ASSUME VolInv, Dropped, vpc # "idle" PROVE VolInv' OBVIOUS
<1> USE Typed, PathFacts
<1>3. VolumeTypeOK'
  BY DEF VolumeTypeOK, VolInv, Dropped, VolumePC, Position, Contents
<1>4. Position'
  BY DEF VolumeTypeOK, VolumePC, VolInv, Dropped, Position, Untouched, VolumesWritten
<1>5. NewPlaced' /\ Foreign'
  BY VolumePathFacts DEF VolInv, Dropped, NewPlaced, Foreign, Position, VolumesWritten
<1>6. OldLeaves'
  BY VolumePathFacts DEF VolInv, Dropped, OldLeaves, Lists, Ours, Position, Seen, Numbered
<1>7. (Lists => NeverMixed)'
  BY VolumePathFacts DEF VolInv, Dropped, NeverMixed, Lists, OldLeaves, NewPlaced, Ours, OldNumbered, OldFound, Seen
<1>8. OldFound'
  BY DEF VolInv, Dropped, OldFound
<1> QED BY <1>3, <1>4, <1>5, <1>6, <1>7, <1>8 DEF VolInv

LEMMA IntrudeStep == ASSUME NEW q \in Path PROVE VolInv /\ Intrude(q) => VolInv'
<1> SUFFICES ASSUME VolInv, Intrude(q) PROVE VolInv' OBVIOUS
<1>a. vpc # "idle" BY DEF Intrude
<1> USE Typed, PathFacts, <1>a
<1>3. VolumeTypeOK'
  BY DEF VolumeTypeOK, VolInv, Intrude, VolumePC, Position, Contents
<1>4. Position'
  BY DEF VolInv, Intrude, Position, Untouched, VolumesWritten
<1>5. NewPlaced' /\ Foreign'
  BY VolumePathFacts DEF VolInv, Intrude, NewPlaced, Foreign, Position, VolumesWritten
<1>6. OldLeaves'
  BY VolumePathFacts DEF VolInv, Intrude, OldLeaves, Lists, Ours, Position, Seen, Numbered
<1>7. (Lists => NeverMixed)'
  BY VolumePathFacts DEF VolInv, Intrude, NeverMixed, Lists, OldLeaves, NewPlaced, Ours, OldNumbered, OldFound, Seen
<1>8. OldFound'
  BY DEF VolInv, Intrude, OldFound
<1> QED BY <1>3, <1>4, <1>5, <1>6, <1>7, <1>8 DEF VolInv

(* Every step of a creation is a step of the volumes' writer, drops its    *)
(* temporary files, or leaves the volumes alone.                           *)
LEMMA CreateVolumes ==
    [CreateNext]_allVars => VolumeNext \/ Dropped \/ UNCHANGED volumeVars
<1> SUFFICES ASSUME CreateNext PROVE VolumeNext \/ Dropped \/ UNCHANGED volumeVars
  BY DEF allVars
<1>1. CASE Volumes(SplitArchive \/ FillSink \/ CommitSink)
  BY <1>1 DEF Volumes, SplitArchive, FillSink, CommitSink, VolumeNext
<1>2. CASE \E p \in Path : Volumes(Intrude(p))
  BY <1>2 DEF Volumes, VolumeNext
<1>3. ASSUME NEW r \in Results, FillReturns(r) \/ CommitSinkReturns(r)
      PROVE  Dropped \/ UNCHANGED volumeVars
  BY <1>3 DEF FillReturns, CommitSinkReturns
<1> QED
  BY <1>1, <1>2, <1>3, Zenon DEF CreateNext, Job

LEMMA VolInvStep == VolInv /\ [CreateNext]_allVars => VolInv'
<1> SUFFICES ASSUME VolInv, [CreateNext]_allVars PROVE VolInv' OBVIOUS
<1>1. CASE UNCHANGED volumeVars
  BY <1>1 DEF volumeVars, VolInv, VolumeTypeOK, Position, Untouched, NewPlaced, Foreign,
              OldLeaves, OldFound, OldNumbered, Seen, Lists, NeverMixed
<1>2. CASE vpc = "idle" /\ Dropped
  <2>1. UNCHANGED volumeVars BY <1>2 DEF Dropped, volumeVars
  <2> QED BY <1>1, <2>1
<1>3. ASSUME vpc = "idle", VolumeNext PROVE ListVolumes
  BY <1>3 DEF VolumeNext, EnsureAvailable, WriteVolume, AllWritten, RemoveVolume, AllRemoved,
              CommitVolume, AllCommitted, CommitSidecar, WriterFails, Intrude
<1> QED
  BY <1>1, <1>2, <1>3, CreateVolumes, ListVolumesStep, EnsureAvailableStep, WriteVolumeStep,
     AllWrittenStep, RemoveVolumeStep, AllRemovedStep, CommitVolumeStep, AllCommittedStep,
     CommitSidecarStep, WriterFailsStep, DroppedStep, IntrudeStep DEF VolumeNext

LEMMA VolumesInvariant == CreateSpec => []VolInv
<1>1. CreateInit => VolInv BY VolInvInit DEF CreateInit
<1> QED BY <1>1, VolInvStep, PTL DEF CreateSpec

(* Without permission to replace, no file that was in the directory or     *)
(* that another program put there is changed, and with it none before      *)
(* every new volume is complete in its temporary file: ensure_split_       *)
(* destinations_available, the writers' loops and commit_with_file_replace *)
(* together, whatever step fails and whenever the job is cancelled.        *)
THEOREM OldKept == CreateSpec => OldKeptUntilWritten
<1> DEFINE Kept ==
      \A p \in Path : (vpc # "idle" /\ dir[p] # "none" /\ dir'[p] # dir[p]) =>
          req.replace /\ written = Count(req) /\ vpc \in {"removing", "committing", "sidecar"}
<1>1. ASSUME VolInv, [CreateNext]_allVars PROVE [Kept]_volumeVars
  <2> SUFFICES ASSUME NEW p \in Path, vpc # "idle", dir[p] # "none", dir'[p] # dir[p]
               PROVE  req.replace /\ written = Count(req) /\ vpc \in {"removing", "committing", "sidecar"}
    OBVIOUS
  <2>1. dir \in [Path -> Contents] BY <1>1, Typed
  <2>2. RemoveVolume \/ CommitVolume \/ CommitSidecar \/ WriterFails
    BY <1>1, <2>1, CreateVolumes
       DEF VolumeNext, Dropped, volumeVars, ListVolumes, EnsureAvailable, WriteVolume, AllWritten,
           AllRemoved, AllCommitted, Intrude
  <2>3. written = Count(req) /\ vpc \in {"removing", "committing", "sidecar"}
    BY <1>1, <2>1, <2>2 DEF VolInv, Position, VolumesWritten, RemoveVolume, CommitVolume, CommitSidecar, WriterFails, UnderReplacement
  <2>4. req.replace
    BY <1>1, <2>1, <2>2 DEF VolInv, Position, Replaceable, RemoveVolume, CommitVolume, CommitSidecar, WriterFails, UnderReplacement
  <2> QED BY <2>3, <2>4
<1>2. CreateSpec => []VolInv BY VolumesInvariant
<1> QED BY <1>1, <1>2, PTL DEF CreateSpec, OldKeptUntilWritten

----------------------------------------------------------------------------
(* What a reader finds *)

LEMMA MaxOfInterval == ASSUME NEW n \in Nat \ {0} PROVE Max(1 .. n) = n
<1>1. n \in 1 .. n /\ \A y \in 1 .. n : n >= y OBVIOUS
<1>2. \A x \in 1 .. n : (\A y \in 1 .. n : x >= y) => x = n BY <1>1
<1> QED BY <1>1, <1>2 DEF Max

LEMMA CardinalityOfInterval == ASSUME NEW n \in Nat PROVE Cardinality(1 .. n) = n
BY FS_Interval, 1 \in Int, n \in Int

(* The volume and the offset of a byte, as Location computes them, name    *)
(* the byte again.                                                         *)
LEMMA DivMod ==
    ASSUME NEW x \in Nat, NEW v \in Nat \ {0}
    PROVE  /\ x \div v \in Nat /\ x % v \in 0 .. v - 1
           /\ x = (x \div v) * v + (x % v)
OBVIOUS

LEMMA MulMono ==
    ASSUME NEW a \in Nat, NEW b \in Nat, NEW v \in Nat \ {0}, a * v < b * v
    PROVE  a < b
OBVIOUS

LEMMA MulLess ==
    ASSUME NEW a \in Nat, NEW b \in Nat, NEW v \in Nat \ {0}, a + 1 < b
    PROVE  a * v + v < b * v
OBVIOUS

LEMMA LocationBack ==
    ASSUME NEW size \in Nat, NEW o \in Nat, o + SignatureSize < size
    PROVE  DiskOffset(CeilDiv(size, VolumeSize), size, Location(o)) = <<o>>
<1> DEFINE V == VolumeSize
           x == o + SignatureSize
           k == x \div V
           m == x % V
           n == (size + V - 1) \div V
           rest == (size + V - 1) % V
<1>1. V \in Nat \ {0} /\ SignatureSize \in Nat /\ x \in Nat /\ size + V - 1 \in Nat
  BY VolumeAssumption
<1>2. k \in Nat /\ m \in 0 .. V - 1 /\ x = k * V + m
  BY <1>1, DivMod
<1>3. n \in Nat /\ rest \in 0 .. V - 1 /\ size + V - 1 = n * V + rest
  BY <1>1, DivMod
<1>4. Location(o) = [disk |-> k, offset |-> m] /\ CeilDiv(size, VolumeSize) = n
  BY DEF Location, CeilDiv
<1> HIDE DEF V, k, m, n, rest
<1>5. k * V < n * V
  BY <1>1, <1>2, <1>3
<1>6. k < n
  BY <1>1, <1>2, <1>3, <1>5, MulMono
<1>7. m < VolumeLength(n, size, k + 1)
  <2>1. CASE k + 1 < n
    BY <1>1, <1>2, <2>1 DEF VolumeLength, V
  <2>2. CASE k + 1 = n
    <3>1. n - 1 = k BY <1>2, <2>2
    <3>2. k * V \in Nat BY <1>1, <1>2
    <3>3. VolumeLength(n, size, k + 1) = size - k * V
      BY <1>3, <2>2, <3>1 DEF VolumeLength, V
    <3> QED BY <1>1, <1>2, <3>2, <3>3
  <2> QED BY <1>2, <1>3, <1>6, <2>1, <2>2
<1>8. k = 0 => m = x
  BY <1>1, <1>2
<1>9. k * V + m - SignatureSize = o
  <2>1. k * V \in Nat BY <1>1, <1>2
  <2> QED BY <1>1, <1>2, <2>1
<1>10. ~(k >= n) /\ ~(m >= VolumeLength(n, size, k + 1)) /\ ~(k = 0 /\ m < SignatureSize)
  <2>1. VolumeLength(n, size, k + 1) \in Int
    <3>1. (n - 1) * V \in Int BY <1>1, <1>3
    <3> QED BY <1>1, <3>1 DEF VolumeLength, V
  <2> QED BY <1>1, <1>2, <1>3, <1>6, <1>7, <1>8, <2>1
<1> QED BY <1>4, <1>9, <1>10 DEF DiskOffset, V

(* build_normalization_patches gives a split ZIP the directory it had      *)
(* before it was split.                                                    *)
LEMMA Rebased ==
    ASSUME NEW a \in Archives, NEW n, n = CeilDiv(ArchiveSize(a) + SignatureSize, VolumeSize)
    PROVE  Normalized(a, n) =
              [locals |-> [i \in 1 .. Len(a.locals) |-> <<a.locals[i]>>], start |-> <<a.start>>]
<1> DEFINE size == ArchiveSize(a) + SignatureSize
<1>1. /\ a.locals \in Seq(Nat) /\ a.start \in Nat /\ SignatureSize \in Nat
      /\ \A i \in 1 .. Len(a.locals) : a.locals[i] \in Nat /\ a.locals[i] < a.start
  BY VolumeAssumption
<1>2. size \in Nat /\ a.start + SignatureSize < size
  BY <1>1 DEF ArchiveSize
<1> HIDE DEF size
<1>3. n = CeilDiv(size, VolumeSize) BY DEF size
<1>4. DiskOffset(n, size, Location(a.start)) = <<a.start>>
  BY <1>1, <1>2, <1>3, LocationBack
<1>5. ASSUME NEW i \in 1 .. Len(a.locals)
      PROVE  DiskOffset(n, size, Location(a.locals[i])) = <<a.locals[i]>>
  BY <1>1, <1>2, <1>3, LocationBack
<1>6. /\ SplitDirectory(a).start = Location(a.start)
      /\ \A i \in 1 .. Len(a.locals) : SplitDirectory(a).locals[i] = Location(a.locals[i])
  BY DEF SplitDirectory
<1>7. [i \in 1 .. Len(a.locals) |-> DiskOffset(n, size, SplitDirectory(a).locals[i])]
         = [i \in 1 .. Len(a.locals) |-> <<a.locals[i]>>]
  BY <1>5, <1>6
<1> QED BY <1>4, <1>6, <1>7 DEF Normalized, size

(* The numbers that are taken once all volumes are in place.               *)
LEMMA PartsFound ==
    ASSUME VolInv, vpc = "done", Lists, intrusions = 0
    PROVE  /\ written \in Part
           /\ \A i \in 1 .. written : dir[VolumePath(req.format, written, i)] = "new"
           /\ \A p \in Seen : dir[p] # "none" =>
                 \E i \in 1 .. written : p = VolumePath(req.format, written, i)
           /\ written = Count(req)
<1> USE Typed, PathFacts
<1>1. written = Count(req) /\ committed = written
  BY DEF VolInv, Position, VolumesWritten
<1>2. \A p \in Path : dir[p] # "other" BY DEF VolInv, Foreign
<1> QED BY <1>1, <1>2 DEF VolInv, NewPlaced, OldLeaves, Ours

LEMMA SevenzFound ==
    ASSUME VolInv, vpc = "done", ~req.bare, req.format = "sevenz", intrusions = 0, NewNumbered
    PROVE  Discover(req, dir) = [i \in 1 .. written |-> VolumePath(req.format, written, i)]
<1> DEFINE parts == {p \in Numbered("sevenz") : dir[p] # "none"}
<1>1. /\ written \in Nat \ {0} /\ written <= MaxVolumes /\ written = Count(req)
      /\ \A i \in 1 .. written : dir[i] = "new"
      /\ \A p \in Numbered("sevenz") : dir[p] # "none" => p \in 1 .. written
  BY PartsFound, PathFacts DEF Lists, VolumePath, Part, Seen
<1>6. 1 .. written \subseteq Numbered("sevenz")
  <2>1. 1 .. written \subseteq Part BY <1>1, PathFacts DEF Part
  <2>2. 1 .. written \subseteq VolumePaths(req.format, Count(req))
    BY <1>1 DEF VolumePaths, VolumePath
  <2> QED BY <2>1, <2>2 DEF NewNumbered
<1>2. parts = 1 .. written
  BY <1>1, <1>6
<1>3. Max(parts) = written /\ Cardinality(parts) = written
  BY <1>1, <1>2, MaxOfInterval, CardinalityOfInterval
<1>5. 1 \in parts
  BY <1>1, <1>2
<1> HIDE DEF parts
<1>4. Discover7z(req, dir) = [i \in 1 .. written |-> i]
  BY <1>2, <1>3, <1>5 DEF Discover7z, parts
<1> QED BY <1>4 DEF Discover, VolumePath

LEMMA ZipFound ==
    ASSUME VolInv, vpc = "done", ~req.bare, req.format = "zip", intrusions = 0
    PROVE  Discover(req, dir) = [i \in 1 .. written |-> VolumePath(req.format, written, i)]
<1> DEFINE parts == {p \in Part : dir[p] # "none"}
           n == written
<1>1. /\ n \in Nat \ {0} /\ n <= MaxVolumes
      /\ \A i \in 1 .. n - 1 : dir[i] = "new"
      /\ dir[Dest] = "new"
      /\ \A p \in Part : dir[p] # "none" => p \in 1 .. n - 1
  <2>0. Seen = Names BY DEF Seen, Names, Numbered
  <2>1. /\ n \in Nat \ {0} /\ n <= MaxVolumes
        /\ \A i \in 1 .. n : dir[IF i = n THEN Dest ELSE i] = "new"
        /\ \A p \in Names : dir[p] # "none" => \E i \in 1 .. n : p = IF i = n THEN Dest ELSE i
    BY <2>0, PartsFound, PathFacts DEF Lists, VolumePath, Part
  <2> QED BY <2>1, PathFacts DEF Names
<1>2. parts = 1 .. (n - 1)
  BY <1>1, PathFacts DEF Part
<1>3. Discover(req, dir) = DiscoverZip(dir) BY DEF Discover
<1>4. CASE n = 1
  <2>1. 1 \in Part BY <1>1, PathFacts DEF Part
  <2>2. dir[1] = "none" BY <1>1, <1>4, <2>1
  <2>3. DiscoverZip(dir) = <<Dest>> BY <2>2 DEF DiscoverZip
  <2>4. <<Dest>> = [i \in 1 .. n |-> VolumePath("zip", n, i)]
    BY <1>4 DEF VolumePath
  <2> QED BY <1>3, <2>3, <2>4
<1>5. CASE n > 1
  <2>1. n - 1 \in Nat \ {0} /\ dir[1] = "new" BY <1>1, <1>5
  <2>2. Max(parts) = n - 1 /\ Cardinality(parts) = n - 1
    BY <1>2, <2>1, MaxOfInterval, CardinalityOfInterval
  <2> HIDE DEF parts
  <2>3. DiscoverZip(dir) = Append([i \in 1 .. n - 1 |-> i], Dest)
    BY <1>1, <1>2, <2>1, <2>2 DEF DiscoverZip, parts
  <2>4. Append([i \in 1 .. n - 1 |-> i], Dest) = [i \in 1 .. n |-> IF i = n THEN Dest ELSE i]
    <3> DEFINE s == [i \in 1 .. n - 1 |-> i]
               t == Append(s, Dest)
    <3>1. s \in Seq(Nat) /\ Len(s) = n - 1 /\ Dest \in Nat /\ \A i \in 1 .. n - 1 : s[i] = i
      BY <2>1 DEF Dest
    <3> HIDE DEF s
    <3>2. t \in Seq(Nat) /\ Len(t) = n /\ t[n] = Dest /\ \A i \in 1 .. n - 1 : t[i] = s[i]
      BY <1>1, <2>1, <3>1
    <3> HIDE DEF t
    <3>3. t = [i \in 1 .. n |-> t[i]] BY <3>2
    <3>4. \A i \in 1 .. n : t[i] = IF i = n THEN Dest ELSE i BY <1>1, <3>1, <3>2
    <3> QED BY <3>3, <3>4 DEF s, t
  <2> QED BY <1>3, <2>3, <2>4 DEF VolumePath
<1> QED BY <1>1, <1>4, <1>5

LEMMA ReadsBackHolds == VolInv /\ Lists => ReadsBack
<1> SUFFICES ASSUME VolInv, Lists, vpc = "done", req.format # "tzap" PROVE ReadsBack
  BY DEF ReadsBack
<1>1. req.format \in {"zip", "sevenz"} /\ ~req.bare /\ req.archive \in Archives
  BY Typed, RequestFacts DEF Lists
<1>2. intrusions = 0 /\ NewNumbered =>
        Discover(req, dir) = [i \in 1 .. written |-> VolumePath(req.format, written, i)]
  BY <1>1, SevenzFound, ZipFound
<1>3. ASSUME req.format = "zip", written > 1
      PROVE  written = CeilDiv(ArchiveSize(req.archive) + SignatureSize, VolumeSize)
  BY <1>3, Typed DEF VolInv, Position, VolumesWritten, Count
<1> QED BY <1>1, <1>2, <1>3, Rebased DEF ReadsBack
----------------------------------------------------------------------------
(* What a job keeps and what it tells *)

(* The shapes of what the job keeps.  A coalescer that names a path has    *)
(* something to report, names the one it heard of last, and one that names *)
(* none has no recent paths either.                                        *)
CoalescerOK(c) ==
    /\ DOMAIN c = {"bytes", "entries", "latest", "lastRaw", "recent", "lastEmitted", "once"}
    /\ c.bytes \in Nat /\ c.entries \in Nat
    /\ c.latest # NoPath => c.latest = c.lastRaw /\ HasPending(c)
    /\ c.latest = NoPath => c.recent = <<>>

ContextOK(c) ==
    /\ DOMAIN c = {"bytes", "entries", "coalescer"}
    /\ c.bytes \in Nat /\ c.entries \in Nat /\ CoalescerOK(c.coalescer)

PhasedOK(f) ==
    /\ DOMAIN f = {"phase", "bytes", "coalescer"}
    /\ f.bytes \in Nat /\ CoalescerOK(f.coalescer)

BatchOK(b) ==
    /\ DOMAIN b = {"finished", "finishedEntries", "current", "currentEntries"}
    /\ b.finished \in Nat /\ b.finishedEntries \in Nat
    /\ b.current \in Nat /\ b.currentEntries \in Nat

ViewOK(v) ==
    /\ DOMAIN v = {"bytes", "entries", "current", "recent", "phase", "phaseBytes", "outcome"}
    /\ v.bytes \in Nat /\ v.entries \in Nat /\ v.phaseBytes \in Nat

ToldOK(t) == DOMAIN t = {"bytes", "entries"} /\ t.bytes \in Nat /\ t.entries \in Nat

WorkOK(w) ==
    /\ DOMAIN w = {"bytes", "entries", "open", "active", "phaseBytes"}
    /\ w.bytes \in Nat /\ w.entries \in Nat /\ w.phaseBytes \in Nat

Shapes ==
    /\ ContextOK(ctx) /\ PhasedOK(phased) /\ BatchOK(batch) /\ ViewOK(view) /\ ToldOK(told)
    /\ WorkOK(work)
    /\ kind \in AllKinds /\ result \in Outcomes
    /\ stage \in {"idle", "running", "committing", "committed", "returned", "ended"}

(* The entries the events mention one by one: a 7z creation has none.      *)
Mentioned == IF kind = "sevenz" THEN 0 ELSE work.entries

(* What the consumer was told and what is pending add up to the work.      *)
Accounts ==
    /\ view.entries = IF view.outcome = "completed" THEN work.entries ELSE Mentioned
    /\ stage # "ended" => /\ view.bytes + ctx.coalescer.bytes = work.bytes
                          /\ told.bytes = view.bytes
    /\ told.entries <= Mentioned
    /\ told.bytes <= view.bytes
    /\ kind # "tzap" \/ view.outcome # "completed" => view.bytes <= work.bytes

(* The totals the context, or the batch with the context, would send are   *)
(* those of the work.                                                      *)
Totals ==
    /\ stage = "idle" => work.bytes = 0 /\ work.entries = 0 /\ work.open = NoPath
                         /\ work.active = NoPath /\ view.current = NoPath
                         /\ phased.coalescer.lastRaw = NoPath
    /\ kind # "each" => ctx.bytes = work.bytes /\ ctx.entries = Mentioned
    /\ kind = "each" /\ stage \in {"idle", "running"} /\ work.open = NoPath =>
          /\ batch.finished = work.bytes /\ batch.finishedEntries = work.entries
          /\ ctx.coalescer.bytes = 0 /\ ctx.coalescer.entries = 0
    /\ kind = "each" /\ stage = "running" /\ work.open # NoPath =>
          /\ batch.finished + ctx.bytes = work.bytes
          /\ batch.finishedEntries + ctx.entries = work.entries

(* The same for the phase of a TZAP writer.                                *)
PhaseAccounts ==
    /\ view.phase = phased.phase /\ view.phaseBytes = phased.bytes
    /\ view.phaseBytes + phased.coalescer.bytes = work.phaseBytes
    /\ phased.coalescer.entries = 0
    /\ phased.phase = NoPhase => phased.coalescer.bytes = 0
    /\ kind # "tzap" => phased.phase = NoPhase
    /\ stage # "running" => phased.coalescer.bytes = 0

(* Where the code has flushed the context.                                 *)
FlushedAt ==
    /\ stage \in {"committing", "committed"} => kind = "tzap"
    /\ stage \in {"committing", "committed"} \/ (stage = "returned" /\ kind \in FlushingKinds) =>
          ctx.coalescer.bytes = 0
    /\ EverythingReported

(* The consumer hears the outcome from the last event only, and it is the  *)
(* result of the call, except that only a creation tells a cancellation.   *)
OutcomeTold ==
    /\ stage # "ended" => view.outcome = "none"
    /\ view.outcome = "completed" => result = "completed"
    /\ view.outcome = "cancelled" => result = "cancelled" /\ kind \in CreateKinds
    /\ stage \in {"idle", "running", "committing"} => result = "none"
    /\ stage = "committed" => result = "completed"

(* Why the consumer shows the active member: every path that is pending    *)
(* is the active one's, and where none is pending it was shown.  A TZAP    *)
(* creation has no active member while it collects its sources.            *)
Planning == {"PlanningPayload", "PlanningMetadata"}
Active ==
    stage = "running" =>
    /\ work.active # NoPath /\ phased.coalescer.latest = NoPath
          /\ (kind = "sevenz" => ctx.coalescer.latest = NoPath) => view.current = work.active
    /\ phased.coalescer.latest \in {NoPath, work.active}
    /\ phased.coalescer.lastRaw \in {NoPath, work.active}
    /\ work.open # NoPath => work.open = work.active /\ view.current = work.active
    /\ kind = "tzap" /\ phased.phase # NoPhase => ctx.coalescer.latest \in {NoPath, work.active}
    /\ kind = "tzap" /\ phased.phase = NoPhase => work.active = NoPath /\ work.open = NoPath
    /\ kind = "tzap" /\ phased.phase \in Planning =>
          ctx.coalescer.latest = NoPath /\ work.open = NoPath
    /\ kind # "tzap" => phased.coalescer.latest = NoPath /\ phased.coalescer.lastRaw = NoPath
    /\ kind = "sevenz" => /\ work.open = NoPath
                          /\ ctx.coalescer.latest \in {NoPath, work.active}
                          /\ ctx.coalescer.lastRaw \in {NoPath, work.active}

JobInv ==
    Shapes /\ Accounts /\ Totals /\ PhaseAccounts /\ FlushedAt /\ OutcomeTold /\ Active

----------------------------------------------------------------------------
(* The coalescer *)

(* The path a batch names after an activity of member p: p, unless p was   *)
(* the last one heard of and the pending batch does not name it.           *)
Naming(c, p) == IF c.lastRaw # p THEN p ELSE c.latest

RecordOK(c, p, n, m, q) ==
    /\ CoalescerOK(q.next)
    /\ n = 0 /\ m = 0 => ~q.batched /\ q.next = c
    /\ CoalescerOK(q.content) \/ (n = 0 /\ m = 0)
    /\ n # 0 \/ m # 0 =>
         /\ q.content.bytes = c.bytes + n
         /\ q.content.latest = Naming(c, p)
         /\ q.next.lastRaw = p
    /\ q.batched =>
         /\ q.next.bytes = 0 /\ q.next.entries = 0
         /\ q.next.latest = NoPath
    /\ ~q.batched =>
         /\ q.next.bytes = c.bytes + n
         /\ q.next.entries = c.entries + m
         /\ n # 0 \/ m # 0 => q.next.latest = Naming(c, p)

LEMMA RecordFacts ==
    ASSUME NEW c, CoalescerOK(c), NEW p, p # NoPath, NEW n \in Nat, NEW m \in Nat
    PROVE  RecordOK(c, p, n, m, Record(c, p, n, m))
<1> DEFINE q == Record(c, p, n, m)
<1> SUFFICES RecordOK(c, p, n, m, q) OBVIOUS
<1> DEFINE r == Recorded(c, p, n, m)
<1>1. /\ DOMAIN r = {"bytes", "entries", "latest", "lastRaw", "recent", "lastEmitted", "once"}
      /\ r.bytes = c.bytes + n /\ r.entries = c.entries + m /\ r.lastRaw = p
      /\ r.latest = Naming(c, p)
      /\ c.lastRaw = p => r.recent = c.recent
  BY DEF CoalescerOK, Recorded, Naming
<1> HIDE DEF r
<1>2. n # 0 \/ m # 0 => CoalescerOK(r)
  BY <1>1 DEF CoalescerOK, HasPending, Naming
<1>4. /\ CoalescerOK(Drained(r)) /\ Drained(r).lastRaw = p /\ Drained(r).bytes = 0
      /\ Drained(r).entries = 0 /\ Drained(r).latest = NoPath
  BY <1>1 DEF CoalescerOK, Drained
<1>5. /\ q.batched <=> (~(n = 0 /\ m = 0) /\ Due(r))
      /\ q.content = r
      /\ q.next = IF n = 0 /\ m = 0 THEN c
                                   ELSE IF ~(n = 0 /\ m = 0) /\ Due(r) THEN Drained(r) ELSE r
  BY DEF Record, r
<1> HIDE DEF q
<1>6. c.bytes \in Nat /\ c.entries \in Nat BY DEF CoalescerOK
<1> HIDE DEF CoalescerOK
<1>7. CASE n = 0 /\ m = 0
  BY <1>5, <1>6, <1>7 DEF RecordOK
<1>8. CASE n # 0 \/ m # 0
  BY <1>1, <1>2, <1>4, <1>5, <1>8 DEF RecordOK
<1> QED BY <1>7, <1>8

LEMMA FlushFacts ==
    ASSUME NEW c, CoalescerOK(c)
    PROVE  /\ CoalescerOK(Flush(c).next) /\ Flush(c).content = c
           /\ Flush(c).batched <=> (c.bytes > 0 \/ c.entries > 0)
           /\ Flush(c).next.bytes = 0 /\ Flush(c).next.entries = 0
           /\ Flush(c).next.latest = NoPath /\ Flush(c).next.lastRaw = c.lastRaw
<1>2. /\ CoalescerOK(Drained(c)) /\ Drained(c).lastRaw = c.lastRaw /\ Drained(c).bytes = 0
      /\ Drained(c).entries = 0 /\ Drained(c).latest = NoPath
  BY DEF CoalescerOK, Drained
<1>3. /\ (Flush(c).batched <=> HasPending(c)) /\ Flush(c).content = c
      /\ Flush(c).next = IF HasPending(c) THEN Drained(c) ELSE c
  BY DEF Flush
<1>4. CASE HasPending(c)
  BY <1>2, <1>3, <1>4 DEF HasPending
<1>5. CASE ~HasPending(c)
  BY <1>3, <1>5 DEF HasPending, CoalescerOK
<1> QED BY <1>4, <1>5

LEMMA NewCoalescerFacts ==
    ASSUME NEW t
    PROVE  /\ CoalescerOK(NewCoalescer(t)) /\ NewCoalescer(t).bytes = 0
           /\ NewCoalescer(t).entries = 0
           /\ NewCoalescer(t).latest = NoPath /\ NewCoalescer(t).lastRaw = NoPath
BY DEF CoalescerOK, NewCoalescer
----------------------------------------------------------------------------
(* The events at the consumer *)

LEMMA RecordPathsFacts ==
    ASSUME NEW v, ViewOK(v), NEW p, NEW s, p = NoPath => s = <<>>
    PROVE  /\ ViewOK(RecordPaths(v, p, s))
           /\ RecordPaths(v, p, s).bytes = v.bytes /\ RecordPaths(v, p, s).entries = v.entries
           /\ RecordPaths(v, p, s).phase = v.phase
           /\ RecordPaths(v, p, s).phaseBytes = v.phaseBytes
           /\ RecordPaths(v, p, s).outcome = v.outcome
           /\ RecordPaths(v, p, s).current = IF p = NoPath THEN v.current ELSE p
BY DEF ViewOK, RecordPaths

(* What the sink and a consumer know while the job goes on.                *)
OpenConsumer(d) ==
    /\ DOMAIN d = {"batch", "view", "told"}
    /\ BatchOK(d.batch) /\ ViewOK(d.view) /\ ToldOK(d.told)
    /\ d.view.outcome = "none"

(* What a batch of progress adds in front of the totals of a context.      *)
Before(b) == IF kind = "each" THEN b.finished ELSE 0
EntriesBefore(b) == IF kind = "each" THEN b.finishedEntries ELSE 0

LEMMA LargerFacts == ASSUME NEW a \in Nat, NEW b \in Nat
    PROVE  /\ Larger(a, b) \in Nat /\ (a <= b => Larger(a, b) = b) /\ (b <= a => Larger(a, b) = a)
BY DEF Larger

LEMMA DeliverFacts ==
    ASSUME NEW d, NEW e
    PROVE  /\ DOMAIN Deliver(d, e) = {"batch", "view", "told"}
           /\ Deliver(d, e).batch = ThroughBatch(d.batch, e).batch
           /\ Deliver(d, e).view = Apply(d.view, ThroughBatch(d.batch, e).event)
           /\ e.type # "BytesProcessed" => Deliver(d, e).told = d.told
           /\ e.type = "BytesProcessed" =>
                Deliver(d, e).told = [bytes |-> ThroughBatch(d.batch, e).event.bytes,
                                      entries |-> ThroughBatch(d.batch, e).event.entries]
BY DEF Deliver

LEMMA OtherDelivered ==
    ASSUME NEW d, OpenConsumer(d), NEW e, e.type # "BytesProcessed"
    PROVE  /\ DOMAIN Deliver(d, e) = {"batch", "view", "told"}
           /\ Deliver(d, e).batch = d.batch /\ Deliver(d, e).told = d.told
           /\ Deliver(d, e).view = Apply(d.view, e)
<1>1. ThroughBatch(d.batch, e) = [batch |-> d.batch, event |-> e]
  BY DEF ThroughBatch
<1>2. ThroughBatch(d.batch, e).batch = d.batch /\ ThroughBatch(d.batch, e).event = e
  BY <1>1
<1>3. /\ DOMAIN Deliver(d, e) = {"batch", "view", "told"}
      /\ Deliver(d, e).batch = ThroughBatch(d.batch, e).batch
      /\ Deliver(d, e).view = Apply(d.view, ThroughBatch(d.batch, e).event)
      /\ e.type # "BytesProcessed" => Deliver(d, e).told = d.told
  BY DeliverFacts, Zenon
<1> QED BY <1>2, <1>3

LEMMA EntryStartedDelivered ==
    ASSUME NEW d, OpenConsumer(d), NEW p, p # NoPath, NEW e, e = Deliver(d, PathEvent("EntryStarted", p))
    PROVE  /\ OpenConsumer(e) /\ e.batch = d.batch /\ e.told = d.told
           /\ e.view.bytes = d.view.bytes /\ e.view.entries = d.view.entries
           /\ e.view.phase = d.view.phase /\ e.view.phaseBytes = d.view.phaseBytes
           /\ e.view.current = p
<1>1. /\ DOMAIN e = {"batch", "view", "told"} /\ e.batch = d.batch /\ e.told = d.told
      /\ e.view = Apply(d.view, PathEvent("EntryStarted", p))
  BY OtherDelivered DEF PathEvent
<1>2. e.view = RecordPaths(d.view, p, <<>>)
  BY <1>1 DEF Apply, OpenConsumer, PathEvent
<1> QED BY <1>1, <1>2, RecordPathsFacts DEF OpenConsumer

LEMMA EntryFinishedDelivered ==
    ASSUME NEW d, OpenConsumer(d), NEW p, p # NoPath, NEW e, e = Deliver(d, PathEvent("EntryFinished", p))
    PROVE  /\ OpenConsumer(e) /\ e.batch = d.batch /\ e.told = d.told
           /\ e.view.bytes = d.view.bytes /\ e.view.entries = d.view.entries + 1
           /\ e.view.phase = d.view.phase /\ e.view.phaseBytes = d.view.phaseBytes
           /\ e.view.current = p
<1> DEFINE w == [d.view EXCEPT !.entries = @ + 1]
<1>1. /\ DOMAIN e = {"batch", "view", "told"} /\ e.batch = d.batch /\ e.told = d.told
      /\ e.view = Apply(d.view, PathEvent("EntryFinished", p))
  BY OtherDelivered DEF PathEvent
<1>2. e.view = RecordPaths(w, p, <<>>)
  BY <1>1 DEF Apply, OpenConsumer, PathEvent
<1>3. /\ ViewOK(w) /\ w.bytes = d.view.bytes /\ w.entries = d.view.entries + 1
      /\ w.phase = d.view.phase /\ w.phaseBytes = d.view.phaseBytes /\ w.outcome = "none"
  BY DEF OpenConsumer, ViewOK
<1> HIDE DEF w
<1> QED BY <1>1, <1>2, <1>3, RecordPathsFacts DEF OpenConsumer

LEMMA PhaseStartedDelivered ==
    ASSUME NEW d, OpenConsumer(d), NEW phase,
           NEW e, e = Deliver(d, [type |-> "PhaseStarted", phase |-> phase])
    PROVE  /\ OpenConsumer(e) /\ e.batch = d.batch /\ e.told = d.told
           /\ e.view.bytes = d.view.bytes /\ e.view.entries = d.view.entries
           /\ e.view.phase = phase /\ e.view.phaseBytes = 0
           /\ e.view.current = d.view.current
<1>1. /\ DOMAIN e = {"batch", "view", "told"} /\ e.batch = d.batch /\ e.told = d.told
      /\ e.view = Apply(d.view, [type |-> "PhaseStarted", phase |-> phase])
  BY OtherDelivered
<1> DEFINE w == [d.view EXCEPT !.phase = phase, !.phaseBytes = 0]
<1>2. e.view = w
  BY <1>1 DEF Apply, OpenConsumer
<1>3. /\ ViewOK(w) /\ w.bytes = d.view.bytes /\ w.entries = d.view.entries
      /\ w.phase = phase /\ w.phaseBytes = 0 /\ w.outcome = "none"
      /\ w.current = d.view.current
  BY DEF OpenConsumer, ViewOK
<1> HIDE DEF w
<1> QED BY <1>1, <1>2, <1>3 DEF OpenConsumer

LEMMA PhaseBytesDelivered ==
    ASSUME NEW d, OpenConsumer(d), NEW r, r.batched, CoalescerOK(r.content),
           NEW b \in Nat, d.view.phaseBytes <= b,
           NEW e, e = DeliverPhaseBytes(d, r, d.view.phase, b)
    PROVE  /\ OpenConsumer(e) /\ e.batch = d.batch /\ e.told = d.told
           /\ e.view.bytes = d.view.bytes /\ e.view.entries = d.view.entries
           /\ e.view.phase = d.view.phase /\ e.view.phaseBytes = b
           /\ e.view.current = IF r.content.latest = NoPath THEN d.view.current
                                                            ELSE r.content.latest
<1> DEFINE x == [type |-> "PhaseBytesProcessed", phase |-> d.view.phase,
                 path |-> r.content.latest, recent |-> r.content.recent, bytes |-> b]
           w == [d.view EXCEPT !.phase = d.view.phase, !.phaseBytes = Larger(d.view.phaseBytes, b)]
<1>0. d.view.phaseBytes \in Nat /\ d.view.outcome = "none" BY DEF OpenConsumer, ViewOK
<1>a. Larger(d.view.phaseBytes, b) = b BY <1>0, LargerFacts
<1>b. /\ x.type = "PhaseBytesProcessed" /\ x.phase = d.view.phase /\ x.path = r.content.latest
      /\ x.recent = r.content.recent /\ x.bytes = b
  OBVIOUS
<1>c. e = Deliver(d, x) BY DEF DeliverPhaseBytes
<1> HIDE DEF x
<1>1. /\ DOMAIN e = {"batch", "view", "told"} /\ e.batch = d.batch /\ e.told = d.told
      /\ e.view = Apply(d.view, x)
  BY <1>b, <1>c, OtherDelivered
<1>2. e.view = RecordPaths(w, r.content.latest, r.content.recent)
  BY <1>0, <1>b, <1>1 DEF Apply
<1>3. /\ ViewOK(w) /\ w.bytes = d.view.bytes /\ w.entries = d.view.entries
      /\ w.phase = d.view.phase /\ w.phaseBytes = b /\ w.outcome = "none"
      /\ w.current = d.view.current
  BY <1>a DEF OpenConsumer, ViewOK
<1>4. r.content.latest = NoPath => r.content.recent = <<>>
  BY DEF CoalescerOK
<1> HIDE DEF w
<1> QED BY <1>1, <1>2, <1>3, <1>4, RecordPathsFacts DEF OpenConsumer

LEMMA BytesDelivered ==
    ASSUME NEW d, OpenConsumer(d), NEW r, r.batched, CoalescerOK(r.content),
           NEW b \in Nat, NEW n \in Nat,
           d.view.bytes <= b + Before(d.batch), d.view.entries = n + EntriesBefore(d.batch),
           NEW e, e = DeliverBytes(d, r, b, n)
    PROVE  /\ OpenConsumer(e)
           /\ e.batch.finished = d.batch.finished
           /\ e.batch.finishedEntries = d.batch.finishedEntries
           /\ kind = "each" => e.batch.current = b /\ e.batch.currentEntries = n
           /\ e.told.bytes = e.view.bytes /\ e.told.entries = e.view.entries
           /\ e.view.bytes = b + Before(d.batch) /\ e.view.entries = d.view.entries
           /\ e.view.phase = d.view.phase /\ e.view.phaseBytes = d.view.phaseBytes
           /\ e.view.current = IF r.content.latest = NoPath THEN d.view.current
                                                            ELSE r.content.latest
<1> DEFINE x == [type |-> "BytesProcessed", path |-> r.content.latest,
                 recent |-> r.content.recent, bytes |-> b, entries |-> n]
           t == ThroughBatch(d.batch, x)
<1>0. /\ d.view.bytes \in Nat /\ d.view.entries \in Nat /\ d.view.outcome = "none"
      /\ Before(d.batch) \in Nat /\ EntriesBefore(d.batch) \in Nat
  BY DEF OpenConsumer, ViewOK, BatchOK, Before, EntriesBefore
<1>b. /\ x.type = "BytesProcessed" /\ x.path = r.content.latest
      /\ x.recent = r.content.recent /\ x.bytes = b /\ x.entries = n
      /\ DOMAIN x = {"type", "path", "recent", "bytes", "entries"}
  OBVIOUS
<1>c. e = Deliver(d, x) BY DEF DeliverBytes
<1> HIDE DEF x
<1>d. /\ BatchOK(t.batch)
      /\ t.batch.finished = d.batch.finished /\ t.batch.finishedEntries = d.batch.finishedEntries
      /\ kind = "each" => t.batch.current = b /\ t.batch.currentEntries = n
      /\ t.event.type = "BytesProcessed" /\ t.event.path = r.content.latest
      /\ t.event.recent = r.content.recent
      /\ t.event.bytes = b + Before(d.batch) /\ t.event.entries = d.view.entries
  <2>1. CASE kind # "each"
    <3>1. t = [batch |-> d.batch, event |-> x] BY <2>1 DEF ThroughBatch
    <3> QED BY <1>0, <1>b, <2>1, <3>1 DEF Before, EntriesBefore, OpenConsumer
  <2>2. CASE kind = "each"
    <3>1. t = [batch |-> [d.batch EXCEPT !.current = x.bytes, !.currentEntries = x.entries],
               event |-> [x EXCEPT !.bytes = @ + d.batch.finished,
                                   !.entries = @ + d.batch.finishedEntries]]
      BY <1>b, <2>2 DEF ThroughBatch
    <3> DEFINE nb == [d.batch EXCEPT !.current = x.bytes, !.currentEntries = x.entries]
               ne == [x EXCEPT !.bytes = @ + d.batch.finished,
                               !.entries = @ + d.batch.finishedEntries]
    <3>2. BatchOK(d.batch) BY DEF OpenConsumer
    <3>3. /\ BatchOK(nb) /\ nb.finished = d.batch.finished
          /\ nb.finishedEntries = d.batch.finishedEntries
          /\ nb.current = b /\ nb.currentEntries = n
      BY <1>b, <3>2 DEF BatchOK
    <3>4. /\ ne.type = "BytesProcessed" /\ ne.path = r.content.latest
          /\ ne.recent = r.content.recent
          /\ ne.bytes = b + d.batch.finished /\ ne.entries = n + d.batch.finishedEntries
      BY <1>b
    <3>5. t.batch = nb /\ t.event = ne BY <3>1
    <3> HIDE DEF nb, ne, t
    <3> QED BY <2>2, <3>3, <3>4, <3>5 DEF Before, EntriesBefore
  <2> QED BY <2>1, <2>2
<1> HIDE DEF t
<1> DEFINE w == [d.view EXCEPT !.bytes = Larger(d.view.bytes, t.event.bytes),
                               !.entries = Larger(d.view.entries, t.event.entries)]
<1>1. /\ DOMAIN e = {"batch", "view", "told"} /\ e.batch = t.batch
      /\ e.told = [bytes |-> t.event.bytes, entries |-> t.event.entries]
      /\ e.view = Apply(d.view, t.event)
  BY <1>b, <1>c, DeliverFacts DEF t
<1>2. e.view = RecordPaths(w, r.content.latest, r.content.recent)
  BY <1>0, <1>d, <1>1 DEF Apply
<1>a. Larger(d.view.bytes, t.event.bytes) = t.event.bytes
      /\ Larger(d.view.entries, t.event.entries) = d.view.entries
  <2>1. t.event.bytes \in Nat /\ t.event.entries \in Nat
        /\ d.view.bytes <= t.event.bytes /\ t.event.entries <= d.view.entries
    BY <1>0, <1>d
  <2>2. d.view.bytes \in Nat /\ d.view.entries \in Nat /\ t.event.entries = d.view.entries
    BY <1>0, <1>d
  <2>3. Larger(d.view.bytes, t.event.bytes) = t.event.bytes BY <2>1, <2>2, LargerFacts
  <2>4. Larger(d.view.entries, t.event.entries) = d.view.entries BY <2>1, <2>2, LargerFacts
  <2> QED BY <2>3, <2>4
<1>3. /\ ViewOK(w) /\ w.bytes = b + Before(d.batch) /\ w.entries = d.view.entries
      /\ w.phase = d.view.phase /\ w.phaseBytes = d.view.phaseBytes /\ w.outcome = "none"
      /\ w.current = d.view.current
  BY <1>0, <1>a, <1>d DEF OpenConsumer, ViewOK
<1>4. r.content.latest = NoPath => r.content.recent = <<>>
  BY DEF CoalescerOK
<1>5. ToldOK(e.told) /\ e.told.bytes = w.bytes /\ e.told.entries = w.entries
  BY <1>0, <1>1, <1>3, <1>d DEF ToldOK
<1> HIDE DEF w
<1> QED BY <1>1, <1>2, <1>3, <1>4, <1>5, <1>d, RecordPathsFacts DEF OpenConsumer

----------------------------------------------------------------------------
(* A context and its consumer *)

(* What the consumer was told and what the context has pending are the     *)
(* totals the context would send.                                          *)
Balanced(d, c) ==
    /\ d.view.bytes + c.coalescer.bytes = c.bytes + Before(d.batch)
    /\ d.view.entries = c.entries + EntriesBefore(d.batch)
    /\ d.told.bytes = d.view.bytes /\ d.told.entries <= d.view.entries

(* The batch's finished entries and the phase are left alone.              *)
Besides(d, e) ==
    /\ e.batch.finished = d.batch.finished /\ e.batch.finishedEntries = d.batch.finishedEntries
    /\ e.view.phase = d.view.phase /\ e.view.phaseBytes = d.view.phaseBytes

(* The totals of the events never go back.                                 *)
ToldGrows(d, e) == e.told.bytes >= d.told.bytes /\ e.told.entries >= d.told.entries

Shown(current, latest) == IF latest = NoPath THEN current ELSE latest

LEMMA ContextFacts ==
    ASSUME NEW c, ContextOK(c), NEW n \in Nat, NEW m \in Nat, NEW k, CoalescerOK(k),
           NEW e, e = [c EXCEPT !.bytes = @ + n, !.entries = @ + m, !.coalescer = k]
    PROVE  /\ ContextOK(e) /\ e.bytes = c.bytes + n /\ e.entries = c.entries + m /\ e.coalescer = k
BY DEF ContextOK

LEMMA FlushedContextFacts ==
    ASSUME NEW c, ContextOK(c), NEW f, f = FlushedContext(c)
    PROVE  /\ ContextOK(f) /\ f.bytes = c.bytes /\ f.entries = c.entries
           /\ f.coalescer.bytes = 0 /\ f.coalescer.entries = 0
           /\ f.coalescer.latest = NoPath /\ f.coalescer.lastRaw = c.coalescer.lastRaw
<1>1. CoalescerOK(c.coalescer) BY DEF ContextOK
<1>2. f = [c EXCEPT !.coalescer = Flush(c.coalescer).next] BY DEF FlushedContext
<1> DEFINE k == Flush(c.coalescer).next
<1>3. /\ CoalescerOK(k) /\ k.bytes = 0 /\ k.entries = 0 /\ k.latest = NoPath
      /\ k.lastRaw = c.coalescer.lastRaw
  BY <1>1, FlushFacts
<1> HIDE DEF k
<1>4. f.coalescer = k /\ ContextOK(f) /\ f.bytes = c.bytes /\ f.entries = c.entries
  BY <1>2, <1>3 DEF ContextOK, k
<1> QED BY <1>3, <1>4

LEMMA FlushBalanced ==
    ASSUME NEW d, OpenConsumer(d), NEW c, ContextOK(c), Balanced(d, c),
           NEW e, e = FlushProgress(d, c)
    PROVE  /\ OpenConsumer(e) /\ Besides(d, e) /\ ToldGrows(d, e)
           /\ e.view.bytes = c.bytes + Before(d.batch)
           /\ e.told.bytes = e.view.bytes /\ e.told.entries <= e.view.entries
           /\ e.view.entries = d.view.entries
           /\ e.view.current = Shown(d.view.current, c.coalescer.latest)
           /\ kind = "each" /\ HasPending(c.coalescer) =>
                 e.batch.current = c.bytes /\ e.batch.currentEntries = c.entries
<1> DEFINE r == Flush(c.coalescer)
<1>0. /\ CoalescerOK(c.coalescer) /\ c.bytes \in Nat /\ c.entries \in Nat
      /\ c.coalescer.bytes \in Nat /\ c.coalescer.entries \in Nat
      /\ c.coalescer.latest # NoPath => HasPending(c.coalescer)
  BY DEF ContextOK, CoalescerOK
<1>1. /\ r.content = c.coalescer
      /\ r.batched <=> (c.coalescer.bytes > 0 \/ c.coalescer.entries > 0)
  BY <1>0, FlushFacts
<1>2. /\ d.view.bytes \in Nat /\ d.view.entries \in Nat /\ d.told.bytes \in Nat
      /\ d.told.entries \in Nat /\ Before(d.batch) \in Nat /\ EntriesBefore(d.batch) \in Nat
  BY DEF OpenConsumer, ViewOK, ToldOK, BatchOK, Before, EntriesBefore
<1>3. e = DeliverBytes(d, r, c.bytes, c.entries) BY DEF FlushProgress
<1> HIDE DEF r
<1>4. CASE r.batched
  <2>1. d.view.bytes <= c.bytes + Before(d.batch)
    BY <1>0, <1>2 DEF Balanced
  <2>2. /\ OpenConsumer(e) /\ Besides(d, e)
        /\ kind = "each" => e.batch.current = c.bytes /\ e.batch.currentEntries = c.entries
        /\ e.told.bytes = e.view.bytes /\ e.told.entries = e.view.entries
        /\ e.view.bytes = c.bytes + Before(d.batch) /\ e.view.entries = d.view.entries
        /\ e.view.current = Shown(d.view.current, c.coalescer.latest)
    BY <1>0, <1>1, <1>3, <1>4, <2>1, BytesDelivered DEF Balanced, Besides, Shown
  <2> QED BY <1>0, <1>2, <2>1, <2>2 DEF ToldGrows, Balanced
<1>5. CASE ~r.batched
  <2>1. e = d BY <1>3, <1>5 DEF DeliverBytes
  <2>2. c.coalescer.bytes = 0 /\ ~HasPending(c.coalescer)
    BY <1>0, <1>1, <1>5 DEF HasPending
  <2> QED BY <1>0, <1>2, <2>1, <2>2 DEF ToldGrows, Balanced, Besides, Shown
<1> QED BY <1>4, <1>5

LEMMA FlushNothing ==
    ASSUME NEW d, NEW c, ContextOK(c), ~HasPending(c.coalescer)
    PROVE  FlushProgress(d, c) = d
<1>1. CoalescerOK(c.coalescer) BY DEF ContextOK
<1>2. ~Flush(c.coalescer).batched BY <1>1, FlushFacts DEF HasPending
<1> QED BY <1>2 DEF FlushProgress, DeliverBytes

(* bytes_processed, or the bytes of an entry of a TZAP writer: what is     *)
(* known of the context f and the consumer e afterwards.                   *)
BytesCounted(d, c, p, n, r, f, e) ==
    /\ OpenConsumer(e) /\ Besides(d, e) /\ ToldGrows(d, e)
    /\ ContextOK(f) /\ f.bytes = c.bytes + n /\ f.entries = c.entries
    /\ Balanced(e, f)
    /\ e.view.entries = d.view.entries
    /\ d.view.current = p => e.view.current = p
    /\ n > 0 => f.coalescer.latest \in {NoPath, p}
    /\ n = 0 => f.coalescer.latest = c.coalescer.latest
    /\ n > 0 => f.coalescer.lastRaw = p
    /\ n > 0 /\ f.coalescer.latest = NoPath
          /\ (c.coalescer.lastRaw = p /\ c.coalescer.latest = NoPath => d.view.current = p)
       => e.view.current = p

LEMMA BytesBalanced ==
    ASSUME NEW d, OpenConsumer(d), NEW c, ContextOK(c), Balanced(d, c),
           NEW p, p # NoPath, NEW n \in Nat,
           NEW r, r = Record(c.coalescer, p, n, 0),
           NEW f, f = [c EXCEPT !.bytes = @ + n, !.coalescer = r.next],
           NEW e, e = DeliverBytes(d, r, c.bytes + n, c.entries)
    PROVE  BytesCounted(d, c, p, n, r, f, e)
<1>0. /\ CoalescerOK(c.coalescer) /\ c.bytes \in Nat /\ c.entries \in Nat
      /\ c.coalescer.bytes \in Nat /\ c.coalescer.entries \in Nat
      /\ c.coalescer.latest # NoPath => c.coalescer.latest = c.coalescer.lastRaw
  BY DEF ContextOK, CoalescerOK
<1>1. /\ CoalescerOK(r.next)
      /\ n = 0 => ~r.batched /\ r.next = c.coalescer
      /\ n # 0 => /\ CoalescerOK(r.content) /\ r.content.latest = Naming(c.coalescer, p)
                  /\ r.next.lastRaw = p
      /\ r.batched => r.next.bytes = 0 /\ r.next.latest = NoPath
      /\ ~r.batched => /\ r.next.bytes = c.coalescer.bytes + n
                       /\ n # 0 => r.next.latest = Naming(c.coalescer, p)
  <2>1. RecordOK(c.coalescer, p, n, 0, r) BY <1>0, RecordFacts
  <2> QED BY <2>1 DEF RecordOK
<1>2. /\ ContextOK(f) /\ f.bytes = c.bytes + n /\ f.entries = c.entries /\ f.coalescer = r.next
  BY <1>1 DEF ContextOK
<1>3. /\ Naming(c.coalescer, p) \in {NoPath, p}
      /\ Naming(c.coalescer, p) = NoPath => c.coalescer.lastRaw = p /\ c.coalescer.latest = NoPath
  BY <1>0 DEF Naming
<1>4. /\ d.view.bytes \in Nat /\ d.view.entries \in Nat /\ d.told.bytes \in Nat
      /\ d.told.entries \in Nat /\ Before(d.batch) \in Nat /\ EntriesBefore(d.batch) \in Nat
  BY DEF OpenConsumer, ViewOK, ToldOK, BatchOK, Before, EntriesBefore
<1>5. CASE r.batched
  <2>1. d.view.bytes <= (c.bytes + n) + Before(d.batch) /\ c.bytes + n \in Nat
    BY <1>0, <1>4 DEF Balanced
  <2>0. n # 0 /\ CoalescerOK(r.content) BY <1>1, <1>5
  <2>2. /\ OpenConsumer(e) /\ Besides(d, e)
        /\ e.told.bytes = e.view.bytes /\ e.told.entries = e.view.entries
        /\ e.view.bytes = (c.bytes + n) + Before(d.batch) /\ e.view.entries = d.view.entries
        /\ e.view.current = Shown(d.view.current, r.content.latest)
    BY <1>0, <1>5, <2>0, <2>1, BytesDelivered DEF Balanced, Besides, Shown
  <2>3. Before(e.batch) = Before(d.batch) /\ EntriesBefore(e.batch) = EntriesBefore(d.batch)
    BY <2>2 DEF Besides, Before, EntriesBefore
  <2>4. Balanced(e, f)
    BY <1>0, <1>1, <1>2, <1>4, <1>5, <2>2, <2>3 DEF Balanced
  <2>5. ToldGrows(d, e)
    BY <1>0, <1>4, <2>1, <2>2 DEF ToldGrows, Balanced
  <2> QED BY <1>1, <1>2, <1>3, <1>5, <2>0, <2>2, <2>4, <2>5 DEF Shown, BytesCounted
<1>6. CASE ~r.batched
  <2>1. e = d BY <1>6 DEF DeliverBytes
  <2>0. /\ f.coalescer.bytes = c.coalescer.bytes + n
        /\ f.bytes = c.bytes + n /\ f.entries = c.entries
    BY <1>1, <1>2, <1>6
  <2>2. Balanced(e, f)
    BY <1>0, <1>4, <2>0, <2>1 DEF Balanced
  <2> QED BY <1>0, <1>1, <1>2, <1>3, <1>4, <1>6, <2>1, <2>2 DEF ToldGrows, Besides, BytesCounted
<1> QED BY <1>5, <1>6

(* entry_finished.                                                         *)
LEMMA FinishedBalanced ==
    ASSUME NEW d, OpenConsumer(d), NEW c, ContextOK(c), Balanced(d, c),
           NEW p, p # NoPath,
           NEW f, f = FinishedIn(c, p),
           NEW e, e = Finished(d, c, p)
    PROVE  /\ OpenConsumer(e) /\ Besides(d, e) /\ ToldGrows(d, e)
           /\ ContextOK(f) /\ f.bytes = c.bytes /\ f.entries = c.entries + 1
           /\ Balanced(e, f)
           /\ e.view.entries = d.view.entries + 1
           /\ e.view.current = p
           /\ f.coalescer.latest \in {NoPath, p}
           /\ c.coalescer.bytes = 0 => f.coalescer.bytes = 0
           /\ \/ HasPending(f.coalescer)
              \/ /\ ~HasPending(f.coalescer)
                 /\ kind = "each" => e.batch.current = f.bytes /\ e.batch.currentEntries = f.entries
<1> DEFINE r == Record(c.coalescer, p, 0, 1)
           g == Deliver(d, PathEvent("EntryFinished", p))
<1>0. /\ CoalescerOK(c.coalescer) /\ c.bytes \in Nat /\ c.entries \in Nat
      /\ c.coalescer.bytes \in Nat /\ c.coalescer.entries \in Nat
      /\ c.coalescer.latest # NoPath => c.coalescer.latest = c.coalescer.lastRaw
  BY DEF ContextOK, CoalescerOK
<1>1. /\ CoalescerOK(r.next)
      /\ CoalescerOK(r.content) /\ r.content.latest = Naming(c.coalescer, p)
      /\ r.batched => r.next.bytes = 0 /\ r.next.entries = 0 /\ r.next.latest = NoPath
      /\ ~r.batched => /\ r.next.bytes = c.coalescer.bytes + 0
                       /\ r.next.entries = c.coalescer.entries + 1
                       /\ r.next.latest = Naming(c.coalescer, p)
  <2>1. RecordOK(c.coalescer, p, 0, 1, r) BY <1>0, RecordFacts
  <2> HIDE DEF r
  <2> QED BY <2>1 DEF RecordOK
<1>a. /\ OpenConsumer(g) /\ g.batch = d.batch /\ g.told = d.told
      /\ g.view.bytes = d.view.bytes /\ g.view.entries = d.view.entries + 1
      /\ g.view.phase = d.view.phase /\ g.view.phaseBytes = d.view.phaseBytes
      /\ g.view.current = p
  BY EntryFinishedDelivered
<1>b. e = DeliverBytes(g, r, c.bytes, c.entries + 1) BY DEF Finished
<1>c. f = [c EXCEPT !.entries = @ + 1, !.coalescer = r.next] BY DEF FinishedIn
<1> HIDE DEF r, g
<1>2. /\ ContextOK(f) /\ f.bytes = c.bytes /\ f.entries = c.entries + 1 /\ f.coalescer = r.next
  BY <1>1, <1>c DEF ContextOK
<1>3. Naming(c.coalescer, p) \in {NoPath, p}
  BY <1>0 DEF Naming
<1>4. /\ d.view.bytes \in Nat /\ d.view.entries \in Nat /\ d.told.bytes \in Nat
      /\ d.told.entries \in Nat /\ Before(d.batch) \in Nat /\ EntriesBefore(d.batch) \in Nat
  BY DEF OpenConsumer, ViewOK, ToldOK, BatchOK, Before, EntriesBefore
<1>5. CASE r.batched
  <2>1. /\ g.view.bytes <= c.bytes + Before(g.batch) /\ c.entries + 1 \in Nat
        /\ g.view.entries = (c.entries + 1) + EntriesBefore(g.batch)
    BY <1>0, <1>4, <1>a DEF Balanced
  <2>2. /\ OpenConsumer(e) /\ Besides(g, e)
        /\ kind = "each" => e.batch.current = c.bytes /\ e.batch.currentEntries = c.entries + 1
        /\ e.told.bytes = e.view.bytes /\ e.told.entries = e.view.entries
        /\ e.view.bytes = c.bytes + Before(g.batch) /\ e.view.entries = g.view.entries
        /\ e.view.current = Shown(g.view.current, r.content.latest)
    <3> DEFINE N == c.entries + 1
    <3>1. N \in Nat /\ c.bytes \in Nat /\ CoalescerOK(r.content) /\ OpenConsumer(g)
          /\ g.view.bytes <= c.bytes + Before(g.batch)
          /\ g.view.entries = N + EntriesBefore(g.batch)
          /\ e = DeliverBytes(g, r, c.bytes, N)
      BY <1>0, <1>1, <1>a, <1>b, <2>1
    <3> HIDE DEF N
    <3>2. /\ OpenConsumer(e)
          /\ e.batch.finished = g.batch.finished
          /\ e.batch.finishedEntries = g.batch.finishedEntries
          /\ kind = "each" => e.batch.current = c.bytes /\ e.batch.currentEntries = N
          /\ e.told.bytes = e.view.bytes /\ e.told.entries = e.view.entries
          /\ e.view.bytes = c.bytes + Before(g.batch) /\ e.view.entries = g.view.entries
          /\ e.view.phase = g.view.phase /\ e.view.phaseBytes = g.view.phaseBytes
          /\ e.view.current = IF r.content.latest = NoPath THEN g.view.current
                                                           ELSE r.content.latest
      BY <1>5, <3>1, BytesDelivered
    <3> QED BY <3>2 DEF Besides, Shown, N
  <2>3. /\ Besides(d, e)
        /\ Before(e.batch) = Before(d.batch) /\ EntriesBefore(e.batch) = EntriesBefore(d.batch)
    BY <1>a, <2>2 DEF Besides, Before, EntriesBefore
  <2>4. Balanced(e, f)
    BY <1>0, <1>1, <1>2, <1>4, <1>5, <1>a, <2>2, <2>3 DEF Balanced
  <2>5. ToldGrows(d, e)
    BY <1>0, <1>4, <1>a, <2>1, <2>2 DEF ToldGrows, Balanced
  <2>6. ~HasPending(f.coalescer) BY <1>1, <1>2, <1>5 DEF HasPending
  <2> QED BY <1>1, <1>2, <1>3, <1>5, <1>a, <2>2, <2>3, <2>4, <2>5, <2>6 DEF Shown
<1>6. CASE ~r.batched
  <2>1. e = g BY <1>6, <1>b DEF DeliverBytes
  <2>2. Balanced(e, f)
    BY <1>0, <1>1, <1>2, <1>4, <1>6, <1>a, <2>1 DEF Balanced
  <2>3. HasPending(f.coalescer) BY <1>0, <1>1, <1>2, <1>6 DEF HasPending
  <2> QED BY <1>0, <1>1, <1>2, <1>3, <1>4, <1>6, <1>a, <2>1, <2>2, <2>3 DEF ToldGrows, Besides
<1> QED BY <1>5, <1>6

----------------------------------------------------------------------------
(* The phase of a TZAP writer and its consumer *)

(* An event of the phase leaves the totals of the job alone.               *)
PhaseOnly(d, e) ==
    /\ e.batch = d.batch /\ e.told = d.told
    /\ e.view.bytes = d.view.bytes /\ e.view.entries = d.view.entries
    /\ e.view.phase = d.view.phase

PhaseKnown(d) ==
    /\ d.view.phase = phased.phase /\ d.view.phaseBytes = phased.bytes
    /\ phased.coalescer.entries = 0
    /\ phased.phase = NoPhase => phased.coalescer.bytes = 0

PhaseFlushed(d, e) ==
    /\ OpenConsumer(e) /\ PhaseOnly(d, e)
    /\ e.view.phaseBytes = phased.bytes + phased.coalescer.bytes
    /\ PhaseTotal(PhaseFlush) = phased.bytes + phased.coalescer.bytes
    /\ e.view.current = Shown(d.view.current, phased.coalescer.latest)

LEMMA FlushPhaseFacts ==
    ASSUME PhasedOK(phased), NEW d, OpenConsumer(d), PhaseKnown(d)
    PROVE  PhaseFlushed(d, FlushPhase(d))
<1> DEFINE r == PhaseFlush
           k == phased.coalescer
           e == FlushPhase(d)
<1> SUFFICES PhaseFlushed(d, e) OBVIOUS
<1>0. /\ CoalescerOK(k) /\ phased.bytes \in Nat /\ k.bytes \in Nat /\ k.entries = 0
      /\ k.latest # NoPath => HasPending(k)
  BY DEF PhasedOK, CoalescerOK, PhaseKnown
<1>1. r.content = k /\ (r.batched <=> (k.bytes > 0 \/ k.entries > 0))
  BY <1>0, FlushFacts DEF PhaseFlush
<1>a. e = IF phased.phase = NoPhase THEN d
          ELSE DeliverPhaseBytes(d, r, phased.phase, PhaseTotal(r))
  BY DEF FlushPhase
<1> HIDE DEF r, k, e
<1>2. PhaseTotal(r) = phased.bytes + k.bytes
  BY <1>0, <1>1 DEF PhaseTotal
<1>3. CASE r.batched
  <2>1. phased.phase # NoPhase
    BY <1>0, <1>1, <1>3 DEF PhaseKnown, k
  <2>2. e = DeliverPhaseBytes(d, r, d.view.phase, PhaseTotal(r))
    BY <1>a, <2>1 DEF PhaseKnown
  <2>3. PhaseTotal(r) \in Nat /\ d.view.phaseBytes <= PhaseTotal(r) /\ CoalescerOK(r.content)
    BY <1>0, <1>1, <1>2 DEF PhaseKnown
  <2>4. /\ OpenConsumer(e) /\ PhaseOnly(d, e) /\ e.view.phaseBytes = PhaseTotal(r)
        /\ e.view.current = Shown(d.view.current, r.content.latest)
    BY <1>3, <2>2, <2>3, PhaseBytesDelivered DEF PhaseOnly, Shown
  <2> QED BY <1>1, <1>2, <2>4 DEF PhaseFlushed, r, k
<1>4. CASE ~r.batched
  <2>1. e = d BY <1>a, <1>4 DEF DeliverPhaseBytes
  <2>2. k.bytes = 0 /\ k.latest = NoPath
    BY <1>0, <1>1, <1>4 DEF HasPending
  <2> QED BY <1>0, <1>2, <2>1, <2>2 DEF PhaseFlushed, PhaseOnly, PhaseKnown, Shown, r, k
<1> QED BY <1>3, <1>4

(* The next state of the phase after bytes of member p.                    *)
PhaseRecorded(d, p, n, r, e) ==
    /\ OpenConsumer(e) /\ PhaseOnly(d, e) /\ CoalescerOK(r.next) /\ r.next.entries = 0
    /\ PhaseTotal(r) \in Nat /\ e.view.phaseBytes = PhaseTotal(r)
    /\ PhaseTotal(r) + r.next.bytes = phased.bytes + phased.coalescer.bytes + n
    /\ n = 0 => e = d /\ r.next = phased.coalescer
    /\ n # 0 => /\ r.next.lastRaw = p
                /\ r.batched => /\ r.next.latest = NoPath
                                /\ e.view.current = Shown(d.view.current, Naming(phased.coalescer, p))
                /\ ~r.batched => e = d /\ r.next.latest = Naming(phased.coalescer, p)

LEMMA PhaseBytesFacts ==
    ASSUME PhasedOK(phased), NEW d, OpenConsumer(d), PhaseKnown(d),
           NEW p, p # NoPath, NEW n \in Nat,
           NEW r, r = Record(phased.coalescer, p, n, 0),
           NEW e, e = DeliverPhaseBytes(d, r, phased.phase, PhaseTotal(r))
    PROVE  PhaseRecorded(d, p, n, r, e)
<1> DEFINE k == phased.coalescer
<1>0. CoalescerOK(k) /\ phased.bytes \in Nat /\ k.bytes \in Nat /\ k.entries = 0
  BY DEF PhasedOK, CoalescerOK, PhaseKnown
<1>1. RecordOK(k, p, n, 0, r) BY <1>0, RecordFacts
<1> HIDE DEF k
<1>2. CASE r.batched
  <2>1. /\ n # 0 /\ CoalescerOK(r.content) /\ r.content.bytes = k.bytes + n
        /\ r.content.latest = Naming(k, p) /\ r.next.lastRaw = p /\ CoalescerOK(r.next)
        /\ r.next.bytes = 0 /\ r.next.entries = 0 /\ r.next.latest = NoPath
    BY <1>1, <1>2 DEF RecordOK
  <2>2. PhaseTotal(r) = phased.bytes + (k.bytes + n) /\ d.view.phaseBytes <= PhaseTotal(r)
        /\ PhaseTotal(r) \in Nat
    BY <1>0, <1>2, <2>1 DEF PhaseTotal, PhaseKnown
  <2>3. e = DeliverPhaseBytes(d, r, d.view.phase, PhaseTotal(r))
    BY DEF PhaseKnown
  <2>4. /\ OpenConsumer(e) /\ PhaseOnly(d, e) /\ e.view.phaseBytes = PhaseTotal(r)
        /\ e.view.current = Shown(d.view.current, r.content.latest)
    BY <1>2, <2>1, <2>2, <2>3, PhaseBytesDelivered DEF PhaseOnly, Shown
  <2> QED BY <1>0, <1>2, <2>1, <2>2, <2>4 DEF PhaseRecorded, k
<1>3. CASE ~r.batched
  <2>1. e = d BY <1>3 DEF DeliverPhaseBytes
  <2>2. PhaseTotal(r) = phased.bytes BY <1>0, <1>3 DEF PhaseTotal
  <2>3. /\ CoalescerOK(r.next) /\ r.next.bytes = k.bytes + n /\ r.next.entries = 0
        /\ n = 0 => r.next = k
        /\ n # 0 => r.next.lastRaw = p /\ r.next.latest = Naming(k, p)
    BY <1>0, <1>1, <1>3 DEF RecordOK
  <2> QED BY <1>0, <1>3, <2>1, <2>2, <2>3 DEF PhaseRecorded, PhaseOnly, PhaseKnown, k
<1> QED BY <1>2, <1>3

----------------------------------------------------------------------------
(* The last event *)

Closed(d, e, o) ==
    /\ DOMAIN e = {"batch", "view", "told"} /\ e.batch = d.batch /\ e.told = d.told
    /\ ViewOK(e.view) /\ e.view.outcome = o
    /\ e.view.phase = d.view.phase /\ e.view.phaseBytes = d.view.phaseBytes

LEMMA FailedDelivered ==
    ASSUME NEW d, OpenConsumer(d), NEW e, e = Deliver(d, [type |-> "Failed"])
    PROVE  /\ Closed(d, e, "failed")
           /\ e.view.bytes = d.view.bytes /\ e.view.entries = d.view.entries
<1> DEFINE w == [d.view EXCEPT !.outcome = "failed"]
<1>1. /\ DOMAIN e = {"batch", "view", "told"} /\ e.batch = d.batch /\ e.told = d.told
      /\ e.view = Apply(d.view, [type |-> "Failed"])
  BY OtherDelivered
<1>2. e.view = w BY <1>1 DEF Apply, OpenConsumer
<1>3. /\ ViewOK(w) /\ w.bytes = d.view.bytes /\ w.entries = d.view.entries
      /\ w.phase = d.view.phase /\ w.phaseBytes = d.view.phaseBytes /\ w.outcome = "failed"
  BY DEF OpenConsumer, ViewOK
<1> HIDE DEF w
<1> QED BY <1>1, <1>2, <1>3 DEF Closed

LEMMA CancelledDelivered ==
    ASSUME NEW d, OpenConsumer(d), NEW e, e = Deliver(d, [type |-> "Cancelled"])
    PROVE  /\ Closed(d, e, "cancelled")
           /\ e.view.bytes = d.view.bytes /\ e.view.entries = d.view.entries
<1> DEFINE w == [d.view EXCEPT !.outcome = "cancelled"]
<1>1. /\ DOMAIN e = {"batch", "view", "told"} /\ e.batch = d.batch /\ e.told = d.told
      /\ e.view = Apply(d.view, [type |-> "Cancelled"])
  BY OtherDelivered
<1>2. e.view = w BY <1>1 DEF Apply, OpenConsumer
<1>3. /\ ViewOK(w) /\ w.bytes = d.view.bytes /\ w.entries = d.view.entries
      /\ w.phase = d.view.phase /\ w.phaseBytes = d.view.phaseBytes /\ w.outcome = "cancelled"
  BY DEF OpenConsumer, ViewOK
<1> HIDE DEF w
<1> QED BY <1>1, <1>2, <1>3 DEF Closed

LEMMA CompletedDelivered ==
    ASSUME NEW d, OpenConsumer(d), NEW n \in Nat, NEW b \in Nat,
           NEW e, e = Deliver(d, [type |-> "Completed", entries |-> n, bytes |-> b])
    PROVE  /\ Closed(d, e, "completed")
           /\ e.view.bytes = Larger(d.view.bytes, b) /\ e.view.entries = Larger(d.view.entries, n)
<1> DEFINE x == [type |-> "Completed", entries |-> n, bytes |-> b]
           w == [d.view EXCEPT !.entries = Larger(d.view.entries, x.entries),
                               !.bytes = Larger(d.view.bytes, x.bytes), !.outcome = "completed"]
<1>0. x.type = "Completed" /\ x.entries = n /\ x.bytes = b OBVIOUS
<1> HIDE DEF x
<1>1. /\ DOMAIN e = {"batch", "view", "told"} /\ e.batch = d.batch /\ e.told = d.told
      /\ e.view = Apply(d.view, x)
  BY <1>0, OtherDelivered DEF x
<1>2. e.view = w BY <1>0, <1>1 DEF Apply, OpenConsumer
<1>3. d.view.bytes \in Nat /\ d.view.entries \in Nat BY DEF OpenConsumer, ViewOK
<1>4. Larger(d.view.bytes, b) \in Nat /\ Larger(d.view.entries, n) \in Nat
  BY <1>3, LargerFacts
<1>5. /\ ViewOK(w) /\ w.bytes = Larger(d.view.bytes, b) /\ w.entries = Larger(d.view.entries, n)
      /\ w.phase = d.view.phase /\ w.phaseBytes = d.view.phaseBytes /\ w.outcome = "completed"
  BY <1>0, <1>4 DEF OpenConsumer, ViewOK
<1> HIDE DEF w
<1> QED BY <1>1, <1>2, <1>5 DEF Closed

LEMMA StartedDelivered ==
    ASSUME NEW d, OpenConsumer(d), NEW e, e = Deliver(d, [type |-> "Started"])
    PROVE  e.batch = d.batch /\ e.told = d.told /\ e.view = d.view
<1>1. /\ e.batch = d.batch /\ e.told = d.told
      /\ e.view = Apply(d.view, [type |-> "Started"])
  BY OtherDelivered
<1> QED BY <1>1 DEF Apply, OpenConsumer
----------------------------------------------------------------------------
(* The steps of the job *)

(* The totals of the events do not go back in this step.                   *)
Grows == told'.bytes >= told.bytes /\ told'.entries >= told.entries

(* What the invariant says of the numbers.                                 *)
LEMMA Numbers ==
    ASSUME Shapes
    PROVE  /\ {work.bytes, work.entries, work.phaseBytes, view.bytes, view.entries, view.phaseBytes} \subseteq Nat
           /\ {told.bytes, told.entries, ctx.bytes, ctx.entries, phased.bytes} \subseteq Nat
           /\ {ctx.coalescer.bytes, ctx.coalescer.entries} \subseteq Nat
           /\ {phased.coalescer.bytes, phased.coalescer.entries} \subseteq Nat
           /\ {batch.finished, batch.finishedEntries, batch.current, batch.currentEntries} \subseteq Nat
BY DEF Shapes, WorkOK, ViewOK, ToldOK, ContextOK, PhasedOK, CoalescerOK, BatchOK

LEMMA ConsumerFacts ==
    ASSUME JobInv, stage # "ended"
    PROVE  /\ OpenConsumer(Consumer) /\ PhaseKnown(Consumer)
           /\ Consumer.batch = batch /\ Consumer.view = view /\ Consumer.told = told
           /\ kind # "each" \/ (stage = "running" /\ work.open # NoPath) => Balanced(Consumer, ctx)
           /\ kind # "each" => Before(batch) = 0 /\ EntriesBefore(batch) = 0
           /\ kind = "each" => Before(batch) = batch.finished /\ EntriesBefore(batch) = batch.finishedEntries
<1>1. /\ Consumer.batch = batch /\ Consumer.view = view /\ Consumer.told = told
      /\ DOMAIN Consumer = {"batch", "view", "told"}
  BY DEF Consumer
<1>2. OpenConsumer(Consumer)
  BY <1>1 DEF JobInv, Shapes, OutcomeTold, OpenConsumer
<1>3. PhaseKnown(Consumer)
  BY <1>1 DEF JobInv, PhaseAccounts, PhaseKnown
<1>4. kind # "each" \/ (stage = "running" /\ work.open # NoPath) => Balanced(Consumer, ctx)
  <2>1. CASE kind # "each"
    BY <1>1, Numbers, <2>1 DEF JobInv, OutcomeTold, Accounts, Mentioned, Totals, Balanced, Before, EntriesBefore
  <2>2. CASE kind = "each" /\ stage = "running" /\ work.open # NoPath
    BY <1>1, Numbers, <2>2 DEF JobInv, Accounts, Mentioned, Totals, Balanced, Before, EntriesBefore
  <2> QED BY <2>1, <2>2
<1> QED BY <1>1, <1>2, <1>3, <1>4 DEF Before, EntriesBefore

LEMMA JobInvInit == JobInit => JobInv
<1> SUFFICES ASSUME JobInit PROVE JobInv OBVIOUS
<1>1. ctx = [bytes |-> 0, entries |-> 0, coalescer |-> NewCoalescer(now)]
  BY DEF JobInit, NewContext
<1>2. Shapes
  BY <1>1, NewCoalescerFacts, JobAssumption
     DEF JobInit, Shapes, ContextOK, PhasedOK, BatchOK, ViewOK, ToldOK, WorkOK, Outcomes
<1>3. Accounts /\ Totals /\ PhaseAccounts /\ OutcomeTold /\ Active
  BY <1>1, NewCoalescerFacts
     DEF JobInit, Accounts, Mentioned, Totals, PhaseAccounts, OutcomeTold, Active
<1>4. FlushedAt
  BY DEF JobInit, FlushedAt, EverythingReported
<1> QED BY <1>2, <1>3, <1>4 DEF JobInv

LEMMA TickCancelStep == JobInv /\ (Tick \/ Cancel) => JobInv' /\ Grows
<1> SUFFICES ASSUME JobInv, Tick \/ Cancel PROVE JobInv' /\ Grows OBVIOUS
<1>1. UNCHANGED <<kind, stage, result, ctx, phased, batch, view, told, work>>
  BY DEF Tick, Cancel
<1>2. Grows BY <1>1, Numbers DEF Grows, JobInv
<1>3. JobInv'
  BY <1>1 DEF JobInv, Shapes, Accounts, Mentioned, Totals, PhaseAccounts, FlushedAt, EverythingReported,
              OutcomeTold, Active
<1> QED BY <1>2, <1>3

LEMMA CommitReturnsStep == ASSUME NEW r \in Results PROVE JobInv /\ CommitReturns(r) => JobInv' /\ Grows
<1> SUFFICES ASSUME JobInv, CommitReturns(r) PROVE JobInv' /\ Grows OBVIOUS
<1>1. UNCHANGED <<kind, ctx, phased, batch, view, told, work>> /\ stage = "committing"
      /\ stage' = (IF r = "completed" THEN "committed" ELSE "returned") /\ result' = r
      /\ result = "none" /\ r \in Outcomes
  BY DEF CommitReturns, JobInv, OutcomeTold, Results, Outcomes
<1>2. Grows BY <1>1, Numbers DEF Grows, JobInv
<1>3. Shapes' /\ Accounts'
  BY <1>1 DEF JobInv, Shapes, Accounts, Mentioned
<1>4. Totals'
  BY <1>1 DEF JobInv, Totals, Mentioned
<1>5. PhaseAccounts' /\ Active' /\ OutcomeTold'
  BY <1>1 DEF JobInv, PhaseAccounts, Active, OutcomeTold
<1>6. FlushedAt'
  BY <1>1 DEF JobInv, FlushedAt, EverythingReported
<1> QED BY <1>2, <1>3, <1>4, <1>5, <1>6 DEF JobInv

LEMMA PlanFailsStep == JobInv /\ PlanFails => JobInv' /\ Grows
<1> SUFFICES ASSUME JobInv, PlanFails PROVE JobInv' /\ Grows OBVIOUS
<1> DEFINE d == Consumer
           e == Deliver(d, [type |-> "Failed"])
<1>1. stage = "idle" /\ stage' = "ended" /\ result' = "failed" /\ kind \in CreateKinds
      /\ UNCHANGED <<kind, ctx, phased, work>>
      /\ batch' = e.batch /\ view' = e.view /\ told' = e.told
  BY DEF PlanFails, Emit
<1>2. OpenConsumer(d) /\ d.batch = batch /\ d.view = view /\ d.told = told
  BY <1>1, ConsumerFacts
<1> HIDE DEF d
<1>3. Closed(d, e, "failed") /\ e.view.bytes = d.view.bytes /\ e.view.entries = d.view.entries
  BY <1>2, FailedDelivered
<1> HIDE DEF e
<1>4. /\ batch' = batch /\ told' = told /\ ViewOK(view') /\ view'.outcome = "failed"
      /\ view'.bytes = view.bytes /\ view'.entries = view.entries
      /\ view'.phase = view.phase /\ view'.phaseBytes = view.phaseBytes
  BY <1>1, <1>2, <1>3 DEF Closed
<1> USE <1>1, <1>4, Numbers
<1>5. Shapes' BY DEF JobInv, Shapes, Outcomes
<1>6. Accounts' BY DEF JobInv, Accounts, Mentioned, OutcomeTold
<1>7. Totals' BY DEF JobInv, Totals, Mentioned
<1>8. PhaseAccounts' BY DEF JobInv, PhaseAccounts
<1>9. FlushedAt' BY DEF JobInv, FlushedAt, EverythingReported, Accounts, Mentioned, Totals, PhaseAccounts
<1>10. OutcomeTold' /\ Active' BY DEF OutcomeTold, Active
<1>11. Grows BY DEF Grows, JobInv
<1> QED BY <1>5, <1>6, <1>7, <1>8, <1>9, <1>10, <1>11 DEF JobInv

LEMMA StartStep == JobInv /\ Start => JobInv' /\ Grows
<1> SUFFICES ASSUME JobInv, Start PROVE JobInv' /\ Grows OBVIOUS
<1> DEFINE d == Consumer
           e == Deliver(d, [type |-> "Started"])
<1>1. stage = "idle" /\ stage' = "running" /\ ctx' = NewContext
      /\ UNCHANGED <<kind, result, phased, work>>
      /\ batch' = e.batch /\ view' = e.view /\ told' = e.told
  BY DEF Start, Emit
<1>2. OpenConsumer(d) /\ d.batch = batch /\ d.view = view /\ d.told = told
  BY <1>1, ConsumerFacts
<1> HIDE DEF d
<1>3. e.batch = d.batch /\ e.told = d.told /\ e.view = d.view
  BY <1>2, StartedDelivered
<1> HIDE DEF e
<1>4. batch' = batch /\ told' = told /\ view' = view
  BY <1>1, <1>2, <1>3
<1>5. /\ ContextOK(ctx') /\ ctx'.bytes = 0 /\ ctx'.entries = 0 /\ ctx'.coalescer.bytes = 0
      /\ ctx'.coalescer.entries = 0 /\ ctx'.coalescer.latest = NoPath
      /\ ctx'.coalescer.lastRaw = NoPath
  BY <1>1, NewCoalescerFacts DEF NewContext, ContextOK
<1> USE <1>1, <1>4, <1>5, Numbers
<1>6. Shapes' BY DEF JobInv, Shapes
<1>7. Accounts' BY DEF JobInv, Accounts, Mentioned, Totals
<1>8. Totals' BY DEF JobInv, Totals, Mentioned
<1>9. PhaseAccounts' BY DEF JobInv, PhaseAccounts
<1>10. FlushedAt' /\ OutcomeTold' BY DEF JobInv, FlushedAt, EverythingReported, OutcomeTold
<1>11. Active'
  <2>1. phased.coalescer.bytes = 0 /\ phased.coalescer.entries = 0 BY DEF JobInv, PhaseAccounts
  <2> QED BY <2>1 DEF JobInv, Active, Totals, Mentioned, Shapes, PhasedOK, CoalescerOK, HasPending, PhaseAccounts
<1>12. Grows BY DEF Grows, JobInv
<1> QED BY <1>6, <1>7, <1>8, <1>9, <1>10, <1>11, <1>12 DEF JobInv

LEMMA EntryStartedStep ==
    ASSUME NEW p \in Paths, NEW opened \in BOOLEAN
    PROVE  JobInv /\ EntryStarted(p, opened) => JobInv' /\ Grows
<1> SUFFICES ASSUME JobInv, EntryStarted(p, opened) PROVE JobInv' /\ Grows OBVIOUS
<1> DEFINE d == Consumer
           e == Deliver(d, PathEvent("EntryStarted", p))
<1>0. p # NoPath BY JobAssumption
<1>1. /\ stage = "running" /\ kind \notin {"sevenz", "tzap"} /\ work.open = NoPath
      /\ kind = "each" => opened
      /\ UNCHANGED <<kind, stage, result, phased>>
      /\ ctx' = IF kind = "each" THEN NewContext ELSE ctx
      /\ batch' = e.batch /\ view' = e.view /\ told' = e.told
      /\ work' = [work EXCEPT !.open = IF opened THEN p ELSE @, !.active = p]
  BY DEF EntryStarted, Emit, LoopKinds
<1>2. OpenConsumer(d) /\ d.batch = batch /\ d.view = view /\ d.told = told
  BY <1>1, ConsumerFacts
<1> HIDE DEF d
<1>3. /\ OpenConsumer(e) /\ e.batch = d.batch /\ e.told = d.told
      /\ e.view.bytes = d.view.bytes /\ e.view.entries = d.view.entries
      /\ e.view.phase = d.view.phase /\ e.view.phaseBytes = d.view.phaseBytes
      /\ e.view.current = p
  BY <1>0, <1>2, EntryStartedDelivered
<1> HIDE DEF e
<1>4. /\ batch' = batch /\ told' = told /\ ViewOK(view') /\ view'.outcome = "none"
      /\ view'.bytes = view.bytes /\ view'.entries = view.entries
      /\ view'.phase = view.phase /\ view'.phaseBytes = view.phaseBytes
      /\ view'.current = p
  BY <1>1, <1>2, <1>3 DEF OpenConsumer
<1>5. /\ WorkOK(work') /\ work'.bytes = work.bytes /\ work'.entries = work.entries
      /\ work'.phaseBytes = work.phaseBytes /\ work'.active = p
      /\ work'.open = IF opened THEN p ELSE NoPath
  BY <1>1 DEF JobInv, Shapes, WorkOK
<1>6. /\ ContextOK(ctx') /\ ctx'.coalescer.bytes = ctx.coalescer.bytes
      /\ kind # "each" => ctx' = ctx
      /\ kind = "each" => ctx'.bytes = 0 /\ ctx'.entries = 0
  <2>1. CASE kind = "each"
    <3>1. ctx' = [bytes |-> 0, entries |-> 0, coalescer |-> NewCoalescer(now)]
      BY <1>1, <2>1 DEF NewContext
    <3> QED BY <1>1, <2>1, <3>1, NewCoalescerFacts DEF ContextOK, JobInv, Totals, Mentioned
  <2>2. CASE kind # "each"
    BY <1>1, <2>2 DEF JobInv, Shapes
  <2> QED BY <2>1, <2>2
<1>7. phased.coalescer.latest = NoPath /\ phased.coalescer.lastRaw = NoPath
  BY <1>1 DEF JobInv, Active
<1> USE <1>0, <1>1, <1>4, <1>5, <1>6, Numbers
<1>8. Shapes' BY DEF JobInv, Shapes
<1>9. Accounts' BY DEF JobInv, Accounts, Mentioned, OutcomeTold
<1>10. Totals' BY DEF JobInv, Totals, Mentioned
<1>11. PhaseAccounts' BY DEF JobInv, PhaseAccounts
<1>12. FlushedAt' /\ OutcomeTold' BY DEF JobInv, FlushedAt, EverythingReported, OutcomeTold
<1>13. Active' BY <1>7 DEF Active
<1>14. Grows BY DEF Grows, JobInv
<1> QED BY <1>8, <1>9, <1>10, <1>11, <1>12, <1>13, <1>14 DEF JobInv

LEMMA BytesProcessedStep == ASSUME NEW n \in Sizes PROVE JobInv /\ BytesProcessed(n) => JobInv' /\ Grows
<1> SUFFICES ASSUME JobInv, BytesProcessed(n) PROVE JobInv' /\ Grows OBVIOUS
<1> DEFINE d == Consumer
           p == work.open
           r == Record(ctx.coalescer, p, n, 0)
           f == [ctx EXCEPT !.bytes = @ + n, !.coalescer = r.next]
           e == DeliverBytes(d, r, ctx.bytes + n, ctx.entries)
<1>0. n \in Nat BY JobAssumption DEF Sizes
<1>1. /\ stage = "running" /\ kind \notin {"sevenz", "tzap"} /\ p # NoPath
      /\ UNCHANGED <<kind, stage, result, phased>>
      /\ ctx' = f
      /\ batch' = e.batch /\ view' = e.view /\ told' = e.told
      /\ work' = [work EXCEPT !.bytes = @ + n]
  BY DEF BytesProcessed, Emit, LoopKinds
<1>2. /\ OpenConsumer(d) /\ d.batch = batch /\ d.view = view /\ d.told = told
      /\ Balanced(d, ctx) /\ ContextOK(ctx)
  BY <1>1, ConsumerFacts DEF JobInv, Shapes
<1>a. work.open = work.active /\ view.current = work.active
  BY <1>1 DEF JobInv, Active
<1> HIDE DEF d, p, r, f, e
<1>3. /\ OpenConsumer(e) /\ Besides(d, e) /\ ToldGrows(d, e)
      /\ ContextOK(f) /\ f.bytes = ctx.bytes + n /\ f.entries = ctx.entries
      /\ Balanced(e, f)
      /\ e.view.entries = d.view.entries
      /\ d.view.current = p => e.view.current = p
  <2>1. /\ r = Record(ctx.coalescer, p, n, 0)
        /\ f = [ctx EXCEPT !.bytes = @ + n, !.coalescer = r.next]
        /\ e = DeliverBytes(d, r, ctx.bytes + n, ctx.entries)
    BY DEF r, f, e
  <2>2. BytesCounted(d, ctx, p, n, r, f, e)
    BY <1>0, <1>1, <1>2, <2>1, BytesBalanced
  <2> QED BY <2>2 DEF BytesCounted
<1>4. /\ BatchOK(batch') /\ ToldOK(told') /\ ViewOK(view') /\ view'.outcome = "none"
      /\ batch'.finished = batch.finished /\ batch'.finishedEntries = batch.finishedEntries
      /\ view'.entries = view.entries /\ told'.entries <= view.entries
      /\ view'.phase = view.phase /\ view'.phaseBytes = view.phaseBytes
      /\ view'.current = view.current /\ told'.bytes = view'.bytes
  BY <1>1, <1>2, <1>3, <1>a DEF OpenConsumer, Besides, Balanced, p
<1>5. /\ WorkOK(work') /\ work'.bytes = work.bytes + n /\ work'.entries = work.entries
      /\ work'.phaseBytes = work.phaseBytes /\ work'.open = work.open /\ work'.active = work.active
  BY <1>0, <1>1 DEF JobInv, Shapes, WorkOK
<1>6. ContextOK(ctx') /\ ctx'.bytes = ctx.bytes + n /\ ctx'.entries = ctx.entries
  BY <1>1, <1>3
<1>7. view'.bytes + ctx'.coalescer.bytes = work'.bytes
  <2>1. view'.bytes + ctx'.coalescer.bytes = ctx'.bytes + Before(batch)
    BY <1>1, <1>2, <1>3 DEF Balanced, Before, Besides
  <2> QED BY <1>0, <1>1, <1>5, <1>6, <2>1, Numbers DEF Before, JobInv, Totals, Mentioned, p
<1> USE <1>0, <1>1, <1>4, <1>5, <1>6, Numbers
<1>8. Shapes' BY DEF JobInv, Shapes
<1>9. Accounts' 
  <2>1. ctx'.coalescer.bytes \in Nat /\ view'.bytes \in Nat BY DEF ContextOK, CoalescerOK, ViewOK
  <2> QED BY <1>7, <2>1 DEF JobInv, Accounts, Mentioned
<1>10. Totals' BY DEF JobInv, Totals, Mentioned, p
<1>11. PhaseAccounts' BY DEF JobInv, PhaseAccounts
<1>12. FlushedAt' /\ OutcomeTold' BY DEF JobInv, FlushedAt, EverythingReported, OutcomeTold
<1>13. Active' BY <1>a DEF JobInv, Active
<1>14. Grows BY <1>2, <1>3 DEF Grows, ToldGrows
<1> QED BY <1>8, <1>9, <1>10, <1>11, <1>12, <1>13, <1>14 DEF JobInv

LEMMA EntryFinishedStep == JobInv /\ EntryFinished => JobInv' /\ Grows
<1> SUFFICES ASSUME JobInv, EntryFinished PROVE JobInv' /\ Grows OBVIOUS
<1> DEFINE a == Consumer
           p == work.open
           c == FinishedIn(ctx, p)
           f == Finished(a, ctx, p)
           d == IF kind = "each" THEN FlushProgress(f, c) ELSE f
<1>1. /\ stage = "running" /\ kind \notin {"sevenz", "tzap"} /\ p # NoPath
      /\ UNCHANGED <<kind, stage, result, phased>>
      /\ ctx' = IF kind = "each" THEN FlushedContext(c) ELSE c
      /\ batch' = IF kind = "each" THEN FinishEntry(d.batch) ELSE d.batch
      /\ view' = d.view /\ told' = d.told
      /\ work' = [work EXCEPT !.entries = @ + 1, !.open = NoPath]
  BY DEF EntryFinished, LoopKinds
<1>2. /\ OpenConsumer(a) /\ a.batch = batch /\ a.view = view /\ a.told = told
      /\ Balanced(a, ctx) /\ ContextOK(ctx)
  BY <1>1, ConsumerFacts DEF JobInv, Shapes
<1>a. work.open = work.active /\ view.current = work.active
  BY <1>1 DEF JobInv, Active
<1> HIDE DEF a, p
<1>3. /\ OpenConsumer(f) /\ Besides(a, f) /\ ToldGrows(a, f)
      /\ ContextOK(c) /\ c.bytes = ctx.bytes /\ c.entries = ctx.entries + 1
      /\ Balanced(f, c)
      /\ f.view.entries = a.view.entries + 1
      /\ f.view.current = p
      /\ c.coalescer.latest \in {NoPath, p}
      /\ \/ HasPending(c.coalescer)
         \/ /\ ~HasPending(c.coalescer)
            /\ kind = "each" => f.batch.current = c.bytes /\ f.batch.currentEntries = c.entries
  BY <1>1, <1>2, FinishedBalanced
<1>b. d = IF kind = "each" THEN FlushProgress(f, c) ELSE f OBVIOUS
<1> HIDE DEF c, f, d
<1>5. /\ WorkOK(work') /\ work'.bytes = work.bytes /\ work'.entries = work.entries + 1
      /\ work'.phaseBytes = work.phaseBytes /\ work'.open = NoPath /\ work'.active = work.active
  BY <1>1 DEF JobInv, Shapes, WorkOK
<1>4. /\ OpenConsumer(d) /\ Besides(a, d) /\ ToldGrows(a, d)
      /\ d.view.entries = view.entries + 1 /\ d.view.current = p
      /\ d.told.bytes = d.view.bytes /\ d.told.entries <= d.view.entries
      /\ d.view.bytes + ctx'.coalescer.bytes = work.bytes
      /\ ContextOK(ctx') /\ ctx'.bytes = ctx.bytes /\ ctx'.entries = ctx.entries + 1
      /\ kind = "each" => /\ d.batch.current = ctx.bytes /\ d.batch.currentEntries = ctx.entries + 1
                          /\ ctx'.coalescer.bytes = 0 /\ ctx'.coalescer.entries = 0
  <2>1. CASE kind # "each"
    <3>1. d = f /\ ctx' = c /\ Before(f.batch) = 0 /\ ctx.bytes = work.bytes
      BY <1>1, <1>b, <2>1 DEF Before, JobInv, Totals, Mentioned
    <3> QED BY <1>2, <1>3, <2>1, <3>1, Numbers DEF Balanced, JobInv
  <2>2. CASE kind = "each"
    <3>1. d = FlushProgress(f, c) /\ ctx' = FlushedContext(c) BY <1>1, <1>b, <2>2
    <3>2. /\ Before(f.batch) = batch.finished /\ batch.finished + ctx.bytes = work.bytes
      BY <1>1, <1>2, <1>3, <2>2 DEF Before, Besides, JobInv, Totals, Mentioned, p
    <3>3. /\ ContextOK(ctx') /\ ctx'.bytes = c.bytes /\ ctx'.entries = c.entries
          /\ ctx'.coalescer.bytes = 0 /\ ctx'.coalescer.entries = 0
      BY <1>3, <3>1, FlushedContextFacts
    <3>4. /\ OpenConsumer(d) /\ Besides(f, d) /\ ToldGrows(f, d)
          /\ d.view.bytes = c.bytes + Before(f.batch)
          /\ d.told.bytes = d.view.bytes /\ d.told.entries <= d.view.entries
          /\ d.view.entries = f.view.entries
          /\ d.view.current = Shown(f.view.current, c.coalescer.latest)
          /\ HasPending(c.coalescer) =>
                d.batch.current = c.bytes /\ d.batch.currentEntries = c.entries
      BY <1>3, <2>2, <3>1, FlushBalanced
    <3>5. d.batch.current = c.bytes /\ d.batch.currentEntries = c.entries
      <4>1. CASE HasPending(c.coalescer) BY <3>4, <4>1
      <4>2. CASE ~HasPending(c.coalescer)
        <5>1. d = f BY <1>3, <3>1, <4>2, FlushNothing
        <5> QED BY <1>3, <2>2, <4>2, <5>1
      <4> QED BY <4>1, <4>2
    <3>6. Besides(a, d) BY <1>3, <3>4 DEF Besides
    <3>7. ToldGrows(a, d)
      <4>1. a.told.bytes \in Nat /\ f.told.bytes \in Nat /\ d.told.bytes \in Nat
            /\ a.told.entries \in Nat /\ f.told.entries \in Nat /\ d.told.entries \in Nat
        BY <1>2, <1>3, <3>4 DEF OpenConsumer, ToldOK
      <4> QED BY <1>3, <3>4, <4>1 DEF ToldGrows
    <3>8. d.view.current = p BY <1>3, <3>4 DEF Shown
    <3>9. d.view.bytes + ctx'.coalescer.bytes = work.bytes
      BY <1>3, <3>2, <3>3, <3>4, Numbers DEF JobInv
    <3> QED BY <1>2, <1>3, <3>3, <3>4, <3>5, <3>6, <3>7, <3>8, <3>9
  <2> QED BY <2>1, <2>2
<1>6. /\ BatchOK(batch')
      /\ kind = "each" => /\ batch'.finished = batch.finished + ctx.bytes
                          /\ batch'.finishedEntries = batch.finishedEntries + ctx.entries + 1
  <2>0. BatchOK(d.batch) /\ d.batch.finished = batch.finished
        /\ d.batch.finishedEntries = batch.finishedEntries
    BY <1>2, <1>4 DEF OpenConsumer, Besides
  <2>1. CASE kind # "each" BY <1>1, <2>0, <2>1
  <2>2. CASE kind = "each"
    <3>1. batch' = FinishEntry(d.batch) BY <1>1, <2>2
    <3>2. /\ BatchOK(batch')
          /\ batch'.finished = d.batch.finished + d.batch.current
          /\ batch'.finishedEntries = d.batch.finishedEntries + d.batch.currentEntries
      BY <2>0, <3>1 DEF FinishEntry, BatchOK
    <3> QED BY <1>4, <2>0, <2>2, <3>2, Numbers DEF JobInv
  <2> QED BY <2>1, <2>2
<1>7. /\ ToldOK(told') /\ ViewOK(view') /\ view'.outcome = "none"
      /\ view'.entries = view.entries + 1 /\ told'.entries <= view.entries + 1
      /\ view'.phase = view.phase /\ view'.phaseBytes = view.phaseBytes
      /\ view'.current = view.current /\ told'.bytes = view'.bytes
      /\ view'.bytes + ctx'.coalescer.bytes = work'.bytes
  BY <1>1, <1>2, <1>4, <1>5, <1>a DEF OpenConsumer, Besides, p
<1> USE <1>1, <1>5, <1>6, <1>7, Numbers
<1>8. Shapes' BY <1>4 DEF JobInv, Shapes
<1>9. Accounts'
  <2>1. ctx'.coalescer.bytes \in Nat /\ view'.bytes \in Nat BY <1>4 DEF ContextOK, CoalescerOK, ViewOK
  <2> QED BY <2>1 DEF JobInv, Accounts, Mentioned
<1>10. Totals' BY <1>4 DEF JobInv, Totals, Mentioned, p
<1>11. PhaseAccounts' BY DEF JobInv, PhaseAccounts
<1>12. FlushedAt' /\ OutcomeTold' BY DEF JobInv, FlushedAt, EverythingReported, OutcomeTold
<1>13. Active' BY <1>a DEF JobInv, Active
<1>14. Grows BY <1>2, <1>4 DEF Grows, ToldGrows
<1> QED BY <1>8, <1>9, <1>10, <1>11, <1>12, <1>13, <1>14 DEF JobInv

----------------------------------------------------------------------------
(* The steps of a 7z writer *)

LEMMA SevenZEntryStep == JobInv /\ SevenZEntry => JobInv' /\ Grows
<1> SUFFICES ASSUME JobInv, SevenZEntry PROVE JobInv' /\ Grows OBVIOUS
<1>1. /\ stage = "running" /\ kind = "sevenz"
      /\ UNCHANGED <<kind, stage, result, ctx, phased, batch, view, told>>
      /\ work' = [work EXCEPT !.entries = @ + 1]
  BY DEF SevenZEntry
<1>2. /\ WorkOK(work') /\ work'.bytes = work.bytes /\ work'.entries = work.entries + 1
      /\ work'.phaseBytes = work.phaseBytes /\ work'.open = work.open /\ work'.active = work.active
  BY <1>1 DEF JobInv, Shapes, WorkOK
<1> USE <1>1, <1>2, Numbers
<1>3. Shapes' BY DEF JobInv, Shapes
<1>4. Accounts' BY DEF JobInv, Accounts, Mentioned, OutcomeTold
<1>5. Totals' BY DEF JobInv, Totals, Mentioned
<1>6. PhaseAccounts' BY DEF JobInv, PhaseAccounts
<1>7. FlushedAt' /\ OutcomeTold' BY DEF JobInv, FlushedAt, EverythingReported, OutcomeTold
<1>8. Active' BY DEF JobInv, Active
<1>9. Grows BY DEF Grows, JobInv
<1> QED BY <1>3, <1>4, <1>5, <1>6, <1>7, <1>8, <1>9 DEF JobInv

LEMMA SevenZReadStep ==
    ASSUME NEW p \in Paths, NEW n \in Sizes
    PROVE  JobInv /\ SevenZRead(p, n) => JobInv' /\ Grows
<1> SUFFICES ASSUME JobInv, SevenZRead(p, n) PROVE JobInv' /\ Grows OBVIOUS
<1> DEFINE d == Consumer
           r == Record(ctx.coalescer, p, n, 0)
           f == [ctx EXCEPT !.bytes = @ + n, !.coalescer = r.next]
           e == DeliverBytes(d, r, ctx.bytes + n, ctx.entries)
<1>0. n \in Nat /\ p # NoPath BY JobAssumption DEF Sizes
<1>1. /\ stage = "running" /\ kind = "sevenz" /\ n > 0
      /\ UNCHANGED <<kind, stage, result, phased>>
      /\ ctx' = f
      /\ batch' = e.batch /\ view' = e.view /\ told' = e.told
      /\ work' = [work EXCEPT !.bytes = @ + n, !.active = p]
  BY DEF SevenZRead, Emit
<1>2. /\ OpenConsumer(d) /\ d.batch = batch /\ d.view = view /\ d.told = told
      /\ Balanced(d, ctx) /\ ContextOK(ctx)
  BY <1>1, ConsumerFacts DEF JobInv, Shapes
<1>a. /\ work.open = NoPath
      /\ phased.coalescer.latest = NoPath /\ phased.coalescer.lastRaw = NoPath
      /\ ctx.coalescer.lastRaw = p /\ ctx.coalescer.latest = NoPath => view.current = p
  BY <1>0, <1>1 DEF JobInv, Active
<1> HIDE DEF d, r, f, e
<1>3. /\ OpenConsumer(e) /\ Besides(d, e) /\ ToldGrows(d, e)
      /\ ContextOK(f) /\ f.bytes = ctx.bytes + n /\ f.entries = ctx.entries
      /\ Balanced(e, f)
      /\ e.view.entries = d.view.entries
      /\ f.coalescer.lastRaw = p /\ f.coalescer.latest \in {NoPath, p}
      /\ f.coalescer.latest = NoPath => e.view.current = p
  <2>1. /\ r = Record(ctx.coalescer, p, n, 0)
        /\ f = [ctx EXCEPT !.bytes = @ + n, !.coalescer = r.next]
        /\ e = DeliverBytes(d, r, ctx.bytes + n, ctx.entries)
    BY DEF r, f, e
  <2>2. BytesCounted(d, ctx, p, n, r, f, e)
    BY <1>0, <1>2, <2>1, BytesBalanced
  <2> QED BY <1>1, <1>2, <1>a, <2>2 DEF BytesCounted
<1>4. /\ BatchOK(batch') /\ ToldOK(told') /\ ViewOK(view') /\ view'.outcome = "none"
      /\ view'.entries = view.entries /\ told'.entries <= view.entries
      /\ view'.phase = view.phase /\ view'.phaseBytes = view.phaseBytes
      /\ told'.bytes = view'.bytes
  BY <1>1, <1>2, <1>3 DEF OpenConsumer, Besides, Balanced
<1>5. /\ WorkOK(work') /\ work'.bytes = work.bytes + n /\ work'.entries = work.entries
      /\ work'.phaseBytes = work.phaseBytes /\ work'.open = work.open /\ work'.active = p
  BY <1>0, <1>1 DEF JobInv, Shapes, WorkOK
<1>6. ContextOK(ctx') /\ ctx'.bytes = ctx.bytes + n /\ ctx'.entries = ctx.entries
  BY <1>1, <1>3
<1>7. view'.bytes + ctx'.coalescer.bytes = work'.bytes
  <2>1. Before(e.batch) = 0 BY <1>1 DEF Before
  <2>2. ctx'.bytes = work'.bytes BY <1>1, <1>5, <1>6 DEF JobInv, Totals
  <2> QED BY <1>1, <1>3, <1>5, <2>1, <2>2 DEF Balanced, WorkOK
<1> USE <1>0, <1>1, <1>4, <1>5, <1>6, Numbers
<1>8. Shapes' BY DEF JobInv, Shapes
<1>9. Accounts'
  <2>1. ctx'.coalescer.bytes \in Nat /\ view'.bytes \in Nat BY DEF ContextOK, CoalescerOK, ViewOK
  <2> QED BY <1>7, <2>1 DEF JobInv, Accounts, Mentioned, OutcomeTold
<1>10. Totals' BY DEF JobInv, Totals, Mentioned
<1>11. PhaseAccounts' BY DEF JobInv, PhaseAccounts
<1>12. FlushedAt' /\ OutcomeTold' BY DEF JobInv, FlushedAt, EverythingReported, OutcomeTold
<1>13. Active' BY <1>3, <1>a DEF Active
<1>14. Grows BY <1>2, <1>3 DEF Grows, ToldGrows
<1> QED BY <1>8, <1>9, <1>10, <1>11, <1>12, <1>13, <1>14 DEF JobInv

----------------------------------------------------------------------------
(* The steps of a TZAP writer *)

LEMMA CollectSourceStep ==
    ASSUME NEW p \in Paths, NEW skipped \in BOOLEAN
    PROVE  JobInv /\ CollectSource(p, skipped) => JobInv' /\ Grows
<1> SUFFICES ASSUME JobInv, CollectSource(p, skipped) PROVE JobInv' /\ Grows OBVIOUS
<1> DEFINE d == Consumer
           g == Deliver(d, PathEvent("EntryStarted", p))
           f == IF skipped THEN FinishedIn(ctx, p) ELSE ctx
           e == IF skipped THEN Finished(g, ctx, p) ELSE g
           m == IF skipped THEN 1 ELSE 0
<1>0. p # NoPath /\ m \in Nat BY JobAssumption
<1>1. /\ stage = "running" /\ kind = "tzap" /\ phased.phase = NoPhase
      /\ UNCHANGED <<kind, stage, result, phased>>
      /\ ctx' = f
      /\ batch' = e.batch /\ view' = e.view /\ told' = e.told
      /\ work' = [work EXCEPT !.entries = IF skipped THEN @ + 1 ELSE @]
  BY DEF CollectSource, Emit
<1>2. /\ OpenConsumer(d) /\ d.batch = batch /\ d.view = view /\ d.told = told
      /\ Balanced(d, ctx) /\ ContextOK(ctx)
  BY <1>1, ConsumerFacts DEF JobInv, Shapes
<1> HIDE DEF d
<1>3. /\ OpenConsumer(g) /\ g.batch = d.batch /\ g.told = d.told
      /\ g.view.bytes = d.view.bytes /\ g.view.entries = d.view.entries
      /\ g.view.phase = d.view.phase /\ g.view.phaseBytes = d.view.phaseBytes
  BY <1>0, <1>2, EntryStartedDelivered
<1> HIDE DEF g
<1>4. Balanced(g, ctx) BY <1>2, <1>3 DEF Balanced
<1>5. /\ OpenConsumer(e) /\ Besides(g, e) /\ ToldGrows(g, e)
      /\ ContextOK(f) /\ f.bytes = ctx.bytes /\ f.entries = ctx.entries + m
      /\ Balanced(e, f)
      /\ e.view.entries = g.view.entries + m
  <2>1. CASE skipped
    <3>1. f = FinishedIn(ctx, p) /\ e = Finished(g, ctx, p) /\ m = 1 BY <2>1
    <3> HIDE DEF e, f, m
    <3>2. /\ OpenConsumer(e) /\ Besides(g, e) /\ ToldGrows(g, e)
          /\ ContextOK(f) /\ f.bytes = ctx.bytes /\ f.entries = ctx.entries + 1
          /\ Balanced(e, f) /\ e.view.entries = g.view.entries + 1
      BY <1>0, <1>2, <1>3, <1>4, <3>1, FinishedBalanced
    <3> QED BY <3>1, <3>2
  <2>2. CASE ~skipped
    <3>1. f = ctx /\ e = g /\ m = 0 BY <2>2
    <3> HIDE DEF e, f, m
    <3>2. /\ ctx.entries \in Nat /\ g.view.entries \in Nat
          /\ g.told.bytes \in Nat /\ g.told.entries \in Nat
      BY <1>2, <1>3 DEF ContextOK, OpenConsumer, ViewOK, ToldOK
    <3> QED BY <1>2, <1>3, <1>4, <3>1, <3>2 DEF Besides, ToldGrows
  <2> QED BY <2>1, <2>2
<1>7. /\ WorkOK(work') /\ work'.bytes = work.bytes /\ work'.entries = work.entries + m
      /\ work'.phaseBytes = work.phaseBytes
      /\ work'.open = work.open /\ work'.active = work.active
  BY <1>1 DEF JobInv, Shapes, WorkOK
<1> HIDE DEF e, f, m
<1>6. /\ BatchOK(batch') /\ ToldOK(told') /\ ViewOK(view') /\ view'.outcome = "none"
      /\ view'.entries = view.entries + m /\ view'.phase = view.phase
      /\ view'.phaseBytes = view.phaseBytes /\ told'.bytes = view'.bytes
      /\ told'.entries <= view.entries + m
      /\ view'.bytes + ctx'.coalescer.bytes = ctx.bytes
  <2>1. Before(e.batch) = 0 BY <1>1 DEF Before
  <2>2. e.view.bytes + f.coalescer.bytes = ctx.bytes
    BY <1>5, <2>1, Numbers DEF Balanced, JobInv
  <2> QED BY <1>1, <1>2, <1>3, <1>5, <2>2 DEF OpenConsumer, Besides, Balanced
<1>a. ContextOK(ctx') /\ ctx'.bytes = ctx.bytes /\ ctx'.entries = ctx.entries + m
  BY <1>1, <1>5
<1>b. work.active = NoPath /\ work.open = NoPath /\ phased.coalescer.latest = NoPath
      /\ phased.coalescer.lastRaw = NoPath
  BY <1>1 DEF JobInv, Active
<1> USE <1>0, <1>1, <1>6, <1>7, <1>a, Numbers
<1>8. Shapes' BY DEF JobInv, Shapes
<1>9. Accounts'
  <2>1. ctx'.coalescer.bytes \in Nat /\ view'.bytes \in Nat BY DEF ContextOK, CoalescerOK, ViewOK
  <2>2. view.entries = work.entries /\ ctx.bytes = work.bytes
    BY DEF JobInv, Accounts, Mentioned, Totals, OutcomeTold
  <2> QED BY <2>1, <2>2 DEF Accounts, Mentioned
<1>10. Totals' BY DEF JobInv, Totals, Mentioned
<1>11. PhaseAccounts' BY DEF JobInv, PhaseAccounts
<1>12. FlushedAt' /\ OutcomeTold' BY DEF JobInv, FlushedAt, EverythingReported, OutcomeTold
<1>13. Active' BY <1>b DEF Active, Planning, NoPhase
<1>14. Grows BY <1>2, <1>3, <1>5 DEF Grows, ToldGrows
<1> QED BY <1>8, <1>9, <1>10, <1>11, <1>12, <1>13, <1>14 DEF JobInv

LEMMA PhaseKeepsBalance ==
    ASSUME NEW d, NEW e, NEW c, Balanced(d, c), PhaseOnly(d, e)
    PROVE  Balanced(e, c)
BY DEF Balanced, PhaseOnly

(* Where the writer flushes its phase and then its context, the consumer   *)
(* knows all the work and shows the active member.                         *)
AllKnown(e) ==
    /\ OpenConsumer(e) /\ ToldGrows(Consumer, e)
    /\ e.view.bytes = work.bytes /\ e.view.entries = work.entries
    /\ e.told.bytes = e.view.bytes /\ e.told.entries <= e.view.entries
    /\ e.view.phase = phased.phase /\ e.view.phaseBytes = work.phaseBytes
    /\ work.active # NoPath => e.view.current = work.active
    /\ PhaseTotal(PhaseFlush) = work.phaseBytes

LEMMA FlushBoth ==
    ASSUME JobInv, stage = "running", kind = "tzap"
    PROVE  AllKnown(FlushProgress(FlushPhase(Consumer), ctx))
<1> DEFINE a == Consumer
           d == FlushPhase(a)
           e == FlushProgress(d, ctx)
<1> SUFFICES AllKnown(e) OBVIOUS
<1>1. /\ OpenConsumer(a) /\ a.view = view /\ a.told = told /\ PhaseKnown(a)
      /\ Balanced(a, ctx) /\ ContextOK(ctx) /\ PhasedOK(phased)
  BY ConsumerFacts DEF JobInv, Shapes
<1>2. PhaseFlushed(a, d) BY <1>1, FlushPhaseFacts
<1> HIDE DEF d
<1>3. OpenConsumer(d) /\ PhaseOnly(a, d) /\ Balanced(d, ctx)
  BY <1>1, <1>2, PhaseKeepsBalance DEF PhaseFlushed
<1>4. /\ OpenConsumer(e) /\ Besides(d, e) /\ ToldGrows(d, e)
      /\ e.view.bytes = ctx.bytes + Before(d.batch)
      /\ e.told.bytes = e.view.bytes /\ e.told.entries <= e.view.entries
      /\ e.view.entries = d.view.entries
      /\ e.view.current = Shown(d.view.current, ctx.coalescer.latest)
  BY <1>1, <1>3, FlushBalanced
<1> HIDE DEF e
<1>5. e.view.bytes = work.bytes /\ e.view.entries = work.entries
  BY <1>1, <1>3, <1>4, Numbers DEF Before, PhaseOnly, JobInv, Totals, Mentioned, Accounts
<1>6. ToldGrows(Consumer, e)
  BY <1>3, <1>4 DEF ToldGrows, PhaseOnly
<1>7. /\ e.view.phase = phased.phase /\ e.view.phaseBytes = work.phaseBytes
      /\ PhaseTotal(PhaseFlush) = work.phaseBytes
  BY <1>1, <1>2, <1>3, <1>4 DEF PhaseFlushed, PhaseOnly, PhaseKnown, Besides, JobInv, PhaseAccounts
<1>8. work.active # NoPath => e.view.current = work.active
  BY <1>1, <1>2, <1>4 DEF PhaseFlushed, Shown, JobInv, Active
<1> QED BY <1>4, <1>5, <1>6, <1>7, <1>8 DEF AllKnown

LEMMA PhaseStartedStep == ASSUME NEW ph \in JobPhase PROVE JobInv /\ PhaseStarted(ph) => JobInv' /\ Grows
<1> SUFFICES ASSUME JobInv, PhaseStarted(ph) PROVE JobInv' /\ Grows OBVIOUS
<1> DEFINE a == Consumer
           d == FlushProgress(FlushPhase(a), ctx)
           e == Deliver(d, [type |-> "PhaseStarted", phase |-> ph])
<1>1. /\ stage = "running" /\ kind = "tzap" /\ work.open = NoPath
      /\ ph \in NextPhases(phased.phase)
      /\ UNCHANGED <<kind, stage, result>>
      /\ ctx' = FlushedContext(ctx)
      /\ phased' = [phase |-> ph, bytes |-> 0, coalescer |-> NewCoalescer(now)]
      /\ batch' = e.batch /\ view' = e.view /\ told' = e.told
      /\ work' = [work EXCEPT !.phaseBytes = 0]
  BY DEF PhaseStarted, Emit
<1>2. AllKnown(d) BY <1>1, FlushBoth
<1>a. a.told = told BY <1>1, ConsumerFacts
<1> HIDE DEF d
<1>3. /\ OpenConsumer(e) /\ e.batch = d.batch /\ e.told = d.told
      /\ e.view.bytes = d.view.bytes /\ e.view.entries = d.view.entries
      /\ e.view.phase = ph /\ e.view.phaseBytes = 0 /\ e.view.current = d.view.current
  BY <1>2, PhaseStartedDelivered DEF AllKnown
<1> HIDE DEF e
<1>4. /\ BatchOK(batch') /\ ToldOK(told') /\ ViewOK(view') /\ view'.outcome = "none"
      /\ view'.bytes = work.bytes /\ view'.entries = work.entries
      /\ told'.bytes = work.bytes /\ told'.entries <= work.entries
      /\ view'.phase = ph /\ view'.phaseBytes = 0
      /\ work.active # NoPath => view'.current = work.active
  BY <1>1, <1>2, <1>3 DEF OpenConsumer, AllKnown
<1>5. /\ WorkOK(work') /\ work'.bytes = work.bytes /\ work'.entries = work.entries
      /\ work'.phaseBytes = 0 /\ work'.open = NoPath /\ work'.active = work.active
  BY <1>1 DEF JobInv, Shapes, WorkOK
<1>6. /\ ContextOK(ctx') /\ ctx'.bytes = ctx.bytes /\ ctx'.entries = ctx.entries
      /\ ctx'.coalescer.bytes = 0 /\ ctx'.coalescer.latest = NoPath
  BY <1>1, FlushedContextFacts DEF JobInv, Shapes
<1>7. /\ PhasedOK(phased') /\ phased'.phase = ph /\ phased'.bytes = 0
      /\ phased'.coalescer.bytes = 0 /\ phased'.coalescer.entries = 0
      /\ phased'.coalescer.latest = NoPath /\ phased'.coalescer.lastRaw = NoPath
  BY <1>1, NewCoalescerFacts DEF PhasedOK
<1> USE <1>1, <1>4, <1>5, <1>6, <1>7, Numbers
<1>8. Shapes' BY DEF JobInv, Shapes
<1>9. Accounts' BY DEF JobInv, Accounts, Mentioned
<1>10. Totals' BY DEF JobInv, Totals, Mentioned
<1>11. PhaseAccounts' BY DEF PhaseAccounts
<1>12. FlushedAt' /\ OutcomeTold' BY DEF JobInv, FlushedAt, EverythingReported, OutcomeTold
<1>13. Active' BY DEF Active, JobPhase, NoPhase
<1>14. Grows BY <1>2, <1>3, <1>a DEF Grows, ToldGrows, AllKnown
<1> QED BY <1>8, <1>9, <1>10, <1>11, <1>12, <1>13, <1>14 DEF JobInv

(* Which path a phase event may name for member p.                         *)
LEMMA NamingPhase ==
    ASSUME JobInv, NEW p
    PROVE  Naming(phased.coalescer, p) \in {NoPath, p}
BY DEF Naming, JobInv, Shapes, PhasedOK, CoalescerOK

LEMMA PlanningBytesStep ==
    ASSUME NEW p \in Paths, NEW n \in Sizes
    PROVE  JobInv /\ PlanningBytes(p, n) => JobInv' /\ Grows
<1> SUFFICES ASSUME JobInv, PlanningBytes(p, n) PROVE JobInv' /\ Grows OBVIOUS
<1> DEFINE d == Consumer
           r == Record(phased.coalescer, p, n, 0)
           e == DeliverPhaseBytes(d, r, phased.phase, PhaseTotal(r))
<1>0. p # NoPath /\ n \in Nat BY JobAssumption DEF Sizes
<1>1. /\ stage = "running" /\ kind = "tzap" /\ phased.phase = "PlanningPayload"
      /\ UNCHANGED <<kind, stage, result, ctx>>
      /\ phased' = [phased EXCEPT !.bytes = PhaseTotal(r), !.coalescer = r.next]
      /\ batch' = e.batch /\ view' = e.view /\ told' = e.told
      /\ work' = [work EXCEPT !.phaseBytes = @ + n, !.active = IF n > 0 THEN p ELSE @]
  BY DEF PlanningBytes, Emit
<1>2. /\ OpenConsumer(d) /\ PhaseKnown(d) /\ d.view = view /\ d.told = told /\ d.batch = batch
      /\ PhasedOK(phased)
  BY <1>1, ConsumerFacts DEF JobInv, Shapes
<1> HIDE DEF d
<1>3. PhaseRecorded(d, p, n, r, e) BY <1>0, <1>2, PhaseBytesFacts
<1> HIDE DEF r, e
<1>4. /\ PhasedOK(phased') /\ phased'.phase = phased.phase /\ phased'.bytes = PhaseTotal(r)
      /\ phased'.coalescer = r.next
  <2>1. PhaseTotal(r) \in Nat /\ CoalescerOK(r.next) BY <1>3 DEF PhaseRecorded
  <2> QED BY <1>1, <1>2, <2>1 DEF PhasedOK
<1>5. /\ WorkOK(work') /\ work'.bytes = work.bytes /\ work'.entries = work.entries
      /\ work'.phaseBytes = work.phaseBytes + n /\ work'.open = work.open
      /\ work'.active = IF n > 0 THEN p ELSE work.active
  BY <1>0, <1>1 DEF JobInv, Shapes, WorkOK
<1>6. /\ batch' = batch /\ told' = told /\ ViewOK(view') /\ view'.outcome = "none"
      /\ view'.bytes = view.bytes /\ view'.entries = view.entries
      /\ view'.phase = view.phase /\ view'.phaseBytes = PhaseTotal(r)
  BY <1>1, <1>2, <1>3 DEF PhaseRecorded, PhaseOnly, OpenConsumer
<1>7. Active'
  <2>1. work.open = NoPath /\ ctx.coalescer.latest = NoPath
    BY <1>1 DEF JobInv, Active, Planning
  <2>2. CASE n = 0
    <3>1. r.next = phased.coalescer /\ view'.current = view.current /\ work'.active = work.active
      BY <1>0, <1>1, <1>2, <1>3, <1>5, <2>2 DEF PhaseRecorded
    <3> QED BY <1>1, <1>4, <1>5, <2>1, <3>1 DEF JobInv, Active
  <2>3. CASE n # 0
    <3>1. work'.active = p BY <1>0, <1>5, <2>3
    <3>2. r.next.lastRaw = p BY <1>3, <2>3 DEF PhaseRecorded
    <3>3. /\ r.next.latest \in {NoPath, p}
          /\ r.next.latest = NoPath => view'.current = p
      <4>0. Naming(phased.coalescer, p) \in {NoPath, p} BY NamingPhase
      <4>1. Naming(phased.coalescer, p) = NoPath => view.current = p
        BY <1>0, <1>1 DEF Naming, JobInv, Active
      <4>2. CASE r.batched
        BY <1>1, <1>2, <1>3, <2>3, <4>0, <4>1, <4>2 DEF PhaseRecorded, Shown
      <4>3. CASE ~r.batched
        BY <1>1, <1>2, <1>3, <2>3, <4>0, <4>1, <4>3 DEF PhaseRecorded
      <4> QED BY <4>2, <4>3
    <3> QED BY <1>1, <1>4, <1>5, <2>1, <3>1, <3>2, <3>3 DEF Active, NoPhase
  <2> QED BY <2>2, <2>3
<1> USE <1>0, <1>1, <1>4, <1>5, <1>6, Numbers
<1>8. Shapes' BY DEF JobInv, Shapes
<1>9. Accounts' BY DEF JobInv, Accounts, Mentioned
<1>10. Totals' BY DEF JobInv, Totals, Mentioned
<1>11. PhaseAccounts'
  <2>1. /\ PhaseTotal(r) + r.next.bytes = phased.bytes + phased.coalescer.bytes + n
        /\ r.next.entries = 0 /\ PhaseTotal(r) \in Nat
    BY <1>3 DEF PhaseRecorded
  <2>2. /\ view.phase = phased.phase /\ view.phaseBytes = phased.bytes
        /\ view.phaseBytes + phased.coalescer.bytes = work.phaseBytes
    BY DEF JobInv, PhaseAccounts
  <2>3. view'.phaseBytes + phased'.coalescer.bytes = work'.phaseBytes BY <2>1, <2>2
  <2>4. phased'.phase # NoPhase BY DEF NoPhase
  <2> QED BY <2>1, <2>2, <2>3, <2>4 DEF PhaseAccounts
<1>12. FlushedAt' /\ OutcomeTold' BY DEF JobInv, FlushedAt, EverythingReported, OutcomeTold
<1>14. Grows BY DEF Grows, JobInv
<1> QED BY <1>7, <1>8, <1>9, <1>10, <1>11, <1>12, <1>14 DEF JobInv

LEMMA SourceBytesReadStep ==
    ASSUME NEW p \in Paths, NEW n \in Sizes, NEW last \in BOOLEAN
    PROVE  JobInv /\ SourceBytesRead(p, n, last) => JobInv' /\ Grows
<1> SUFFICES ASSUME JobInv, SourceBytesRead(p, n, last) PROVE JobInv' /\ Grows OBVIOUS
<1> DEFINE d  == Consumer
           pr == Record(phased.coalescer, p, n, 0)
           r  == Record(ctx.coalescer, p, n, 0)
           c  == [ctx EXCEPT !.bytes = @ + n, !.coalescer = r.next]
           d1 == IF work.open = NoPath THEN Deliver(d, PathEvent("EntryStarted", p)) ELSE d
           d2 == DeliverPhaseBytes(d1, pr, phased.phase, PhaseTotal(pr))
           d3 == DeliverBytes(d2, r, c.bytes, c.entries)
           e  == IF last THEN Finished(d3, c, p) ELSE d3
<1>0. p # NoPath /\ n \in Nat BY JobAssumption DEF Sizes
<1>1. /\ stage = "running" /\ kind = "tzap" /\ phased.phase = "EmittingPayload" /\ n > 0
      /\ work.open # NoPath => p = work.open
      /\ UNCHANGED <<kind, stage, result>>
      /\ phased' = [phased EXCEPT !.bytes = PhaseTotal(pr), !.coalescer = pr.next]
      /\ ctx' = IF last THEN FinishedIn(c, p) ELSE c
      /\ batch' = e.batch /\ view' = e.view /\ told' = e.told
      /\ work' = [work EXCEPT !.bytes = @ + n, !.phaseBytes = @ + n, !.active = p,
                              !.open = IF last THEN NoPath ELSE p,
                              !.entries = IF last THEN @ + 1 ELSE @]
  BY DEF SourceBytesRead, Emit
<1>2. /\ OpenConsumer(d) /\ PhaseKnown(d) /\ d.view = view /\ d.told = told /\ d.batch = batch
      /\ PhasedOK(phased) /\ ContextOK(ctx) /\ Balanced(d, ctx)
  BY <1>1, ConsumerFacts DEF JobInv, Shapes
<1> HIDE DEF d
<1>3. /\ OpenConsumer(d1) /\ d1.batch = d.batch /\ d1.told = d.told
      /\ d1.view.bytes = d.view.bytes /\ d1.view.entries = d.view.entries
      /\ d1.view.phase = d.view.phase /\ d1.view.phaseBytes = d.view.phaseBytes
      /\ d1.view.current = p
  <2>1. CASE work.open = NoPath
    <3>1. d1 = Deliver(d, PathEvent("EntryStarted", p)) BY <2>1
    <3> QED BY <1>0, <1>2, <3>1, EntryStartedDelivered
  <2>2. CASE work.open # NoPath
    <3>1. d1 = d /\ view.current = p BY <1>1, <2>2 DEF JobInv, Active
    <3> QED BY <1>2, <3>1
  <2> QED BY <2>1, <2>2
<1> HIDE DEF d1
<1>4. PhaseKnown(d1) BY <1>2, <1>3 DEF PhaseKnown
<1>5. PhaseRecorded(d1, p, n, pr, d2) BY <1>0, <1>2, <1>3, <1>4, PhaseBytesFacts
<1> HIDE DEF pr, d2
<1>6. /\ OpenConsumer(d2) /\ PhaseOnly(d1, d2) /\ d2.view.phaseBytes = PhaseTotal(pr)
      /\ PhaseTotal(pr) \in Nat /\ CoalescerOK(pr.next) /\ pr.next.entries = 0
      /\ PhaseTotal(pr) + pr.next.bytes = phased.bytes + phased.coalescer.bytes + n
      /\ pr.next.lastRaw = p /\ pr.next.latest \in {NoPath, p} /\ d2.view.current = p
  <2>1. Naming(phased.coalescer, p) \in {NoPath, p} BY NamingPhase
  <2> QED BY <1>0, <1>1, <1>3, <1>5, <2>1 DEF PhaseRecorded, Shown
<1>7. Balanced(d2, ctx)
  <2>1. Balanced(d1, ctx) BY <1>2, <1>3 DEF Balanced
  <2> QED BY <1>6, <2>1, PhaseKeepsBalance
<1>8. BytesCounted(d2, ctx, p, n, r, c, d3)
  <2>1. CoalescerOK(r.next)
    <3>1. CoalescerOK(ctx.coalescer) BY <1>2 DEF ContextOK
    <3>2. RecordOK(ctx.coalescer, p, n, 0, r) BY <1>0, <3>1, RecordFacts
    <3> HIDE DEF r
    <3> QED BY <3>2 DEF RecordOK
  <2> HIDE DEF r
  <2>2. c.bytes = ctx.bytes + n /\ c.entries = ctx.entries BY <1>2, <2>1 DEF ContextOK
  <2> HIDE DEF c
  <2>3. /\ r = Record(ctx.coalescer, p, n, 0)
        /\ c = [ctx EXCEPT !.bytes = @ + n, !.coalescer = r.next]
        /\ d3 = DeliverBytes(d2, r, ctx.bytes + n, ctx.entries)
    BY <2>2 DEF r, c
  <2> HIDE DEF d3
  <2> QED BY <1>0, <1>2, <1>6, <1>7, <2>3, BytesBalanced
<1> HIDE DEF r, c, d3
<1>9. /\ OpenConsumer(d3) /\ Besides(d2, d3) /\ ToldGrows(d2, d3)
      /\ ContextOK(c) /\ c.bytes = ctx.bytes + n /\ c.entries = ctx.entries
      /\ Balanced(d3, c) /\ d3.view.entries = d2.view.entries
      /\ d3.view.current = p /\ c.coalescer.latest \in {NoPath, p}
  BY <1>1, <1>6, <1>8 DEF BytesCounted
<1>10. /\ OpenConsumer(e) /\ Besides(d2, e) /\ ToldGrows(d2, e)
       /\ ContextOK(ctx') /\ ctx'.bytes = ctx.bytes + n
       /\ ctx'.entries = IF last THEN ctx.entries + 1 ELSE ctx.entries
       /\ Balanced(e, ctx')
       /\ e.view.entries = IF last THEN d2.view.entries + 1 ELSE d2.view.entries
       /\ e.view.current = p /\ ctx'.coalescer.latest \in {NoPath, p}
  <2>1. CASE ~last
    <3>1. e = d3 /\ ctx' = c BY <1>1, <2>1
    <3> QED BY <1>9, <2>1, <3>1
  <2>2. CASE last
    <3>1. e = Finished(d3, c, p) /\ ctx' = FinishedIn(c, p) BY <1>1, <2>2
    <3> HIDE DEF e
    <3>2. /\ OpenConsumer(e) /\ Besides(d3, e) /\ ToldGrows(d3, e)
          /\ ContextOK(ctx') /\ ctx'.bytes = c.bytes /\ ctx'.entries = c.entries + 1
          /\ Balanced(e, ctx') /\ e.view.entries = d3.view.entries + 1
          /\ e.view.current = p /\ ctx'.coalescer.latest \in {NoPath, p}
      BY <1>0, <1>9, <3>1, FinishedBalanced
    <3>3. Besides(d2, e) BY <1>9, <3>2 DEF Besides
    <3>4. ToldGrows(d2, e)
      <4>1. /\ d2.told.bytes \in Nat /\ d3.told.bytes \in Nat /\ e.told.bytes \in Nat
            /\ d2.told.entries \in Nat /\ d3.told.entries \in Nat /\ e.told.entries \in Nat
        BY <1>6, <1>9, <3>2 DEF OpenConsumer, ToldOK
      <4> QED BY <1>9, <3>2, <4>1 DEF ToldGrows
    <3> QED BY <1>9, <2>2, <3>2, <3>3, <3>4
  <2> QED BY <2>1, <2>2
<1> HIDE DEF e
<1>11. /\ WorkOK(work') /\ work'.bytes = work.bytes + n /\ work'.phaseBytes = work.phaseBytes + n
       /\ work'.entries = (IF last THEN work.entries + 1 ELSE work.entries)
       /\ work'.open \in {NoPath, p} /\ work'.active = p
  BY <1>0, <1>1 DEF JobInv, Shapes, WorkOK
<1>12. /\ PhasedOK(phased') /\ phased'.phase = phased.phase /\ phased'.bytes = PhaseTotal(pr)
       /\ phased'.coalescer = pr.next
  BY <1>1, <1>2, <1>6 DEF PhasedOK
<1>13. /\ BatchOK(batch') /\ ToldOK(told') /\ ViewOK(view') /\ view'.outcome = "none"
       /\ view'.entries = (IF last THEN view.entries + 1 ELSE view.entries)
       /\ view'.phase = view.phase /\ view'.phaseBytes = PhaseTotal(pr)
       /\ view'.current = p
  BY <1>1, <1>2, <1>3, <1>6, <1>10 DEF OpenConsumer, Besides, PhaseOnly
<1>14. /\ view'.bytes + ctx'.coalescer.bytes = ctx'.bytes
       /\ told'.bytes = view'.bytes /\ told'.entries <= view'.entries
  <2>1. Before(e.batch) = 0 BY <1>1 DEF Before
  <2>2. ctx'.bytes \in Nat BY <1>10 DEF ContextOK
  <2> QED BY <1>1, <1>10, <2>1, <2>2 DEF Balanced
<1> USE <1>0, <1>1, <1>11, <1>12, <1>13, Numbers
<1>15. Shapes' BY <1>10 DEF JobInv, Shapes
<1>16. Accounts'
  <2>1. ctx'.coalescer.bytes \in Nat /\ view'.bytes \in Nat
    BY <1>10 DEF ContextOK, CoalescerOK, ViewOK
  <2> QED BY <1>10, <1>14, <2>1 DEF JobInv, Accounts, Mentioned, Totals
<1>17. Totals' BY <1>10 DEF JobInv, Totals, Mentioned
<1>18. PhaseAccounts' BY <1>6 DEF JobInv, PhaseAccounts, NoPhase
<1>19. FlushedAt' /\ OutcomeTold' BY DEF JobInv, FlushedAt, EverythingReported, OutcomeTold
<1>20. Active' BY <1>6, <1>10 DEF Active, Planning, NoPhase
<1>21. Grows
  <2>1. ToldGrows(d2, e) /\ d2.told = told BY <1>2, <1>3, <1>6, <1>10 DEF PhaseOnly
  <2> QED BY <2>1 DEF Grows, ToldGrows
<1> QED BY <1>15, <1>16, <1>17, <1>18, <1>19, <1>20, <1>21 DEF JobInv

----------------------------------------------------------------------------
(* The end of the job *)

LEMMA ReturnStep == ASSUME NEW r \in Results PROVE JobInv /\ Return(r) => JobInv' /\ Grows
<1> SUFFICES ASSUME JobInv, Return(r) PROVE JobInv' /\ Grows OBVIOUS
<1> DEFINE d == Consumer
           e == FlushAtReturn(ctx)
<1>1. /\ stage = "running" /\ kind # "tzap" /\ stage' = "returned" /\ result' = r
      /\ UNCHANGED <<kind, phased>>
      /\ ctx' = ContextAtReturn(ctx)
      /\ batch' = e.batch /\ view' = e.view /\ told' = e.told
      /\ work' = [work EXCEPT !.open = NoPath]
  BY DEF Return, Emit
<1>2. /\ OpenConsumer(d) /\ d.batch = batch /\ d.view = view /\ d.told = told /\ ContextOK(ctx)
      /\ kind # "each" \/ work.open # NoPath => Balanced(d, ctx)
      /\ kind # "each" => Before(batch) = 0
      /\ kind = "each" => Before(batch) = batch.finished
  BY <1>1, ConsumerFacts DEF JobInv, Shapes
<1>3. /\ OpenConsumer(e) /\ Besides(d, e) /\ ToldGrows(d, e)
      /\ e.view.bytes + ctx'.coalescer.bytes = work.bytes
      /\ e.told.bytes = e.view.bytes /\ e.told.entries <= e.view.entries
      /\ e.view.entries = view.entries
      /\ ContextOK(ctx') /\ ctx'.bytes = ctx.bytes /\ ctx'.entries = ctx.entries
      /\ kind \in FlushingKinds => ctx'.coalescer.bytes = 0
  <2>0. ASSUME e = d, ctx' = ctx PROVE
          /\ OpenConsumer(e) /\ Besides(d, e) /\ ToldGrows(d, e)
          /\ e.view.bytes + ctx'.coalescer.bytes = work.bytes
          /\ e.told.bytes = e.view.bytes /\ e.told.entries <= e.view.entries
          /\ e.view.entries = view.entries
          /\ ContextOK(ctx') /\ ctx'.bytes = ctx.bytes /\ ctx'.entries = ctx.entries
    BY <1>1, <1>2, <2>0, Numbers DEF Besides, ToldGrows, JobInv, Accounts, Mentioned
  <2>1. CASE kind \notin FlushingKinds
    <3>1. e = d /\ ctx' = ctx BY <1>1, <2>1 DEF FlushAtReturn, ContextAtReturn
    <3> QED BY <2>0, <2>1, <3>1
  <2>2. CASE kind \in FlushingKinds
    <3>1. e = FlushProgress(d, ctx) /\ ctx' = FlushedContext(ctx)
      BY <1>1, <2>2 DEF FlushAtReturn, ContextAtReturn
    <3>2. /\ ContextOK(ctx') /\ ctx'.bytes = ctx.bytes /\ ctx'.entries = ctx.entries
          /\ ctx'.coalescer.bytes = 0
      BY <1>2, <3>1, FlushedContextFacts
    <3> HIDE DEF e, d
    <3>3. CASE kind = "each" /\ work.open = NoPath
      <4>1. ~HasPending(ctx.coalescer) /\ ctx.coalescer.bytes = 0
        BY <1>1, <3>3 DEF HasPending, JobInv, Totals, Mentioned
      <4>2. e = d BY <1>2, <3>1, <4>1, FlushNothing
      <4> QED BY <1>1, <1>2, <3>2, <4>1, <4>2, Numbers DEF Besides, ToldGrows, JobInv, Accounts, Mentioned
    <3>4. CASE kind # "each" \/ work.open # NoPath
      <4>1. /\ OpenConsumer(e) /\ Besides(d, e) /\ ToldGrows(d, e)
            /\ e.view.bytes = ctx.bytes + Before(d.batch)
            /\ e.told.bytes = e.view.bytes /\ e.told.entries <= e.view.entries
            /\ e.view.entries = d.view.entries
        BY <1>2, <3>1, <3>4, FlushBalanced
      <4>2. ctx.bytes + Before(d.batch) = work.bytes
        BY <1>1, <1>2, <3>4, Numbers DEF JobInv, Totals, Mentioned
      <4> QED BY <1>2, <3>2, <4>1, <4>2, Numbers DEF JobInv
    <3> QED BY <3>3, <3>4
  <2> QED BY <2>1, <2>2
<1> HIDE DEF d, e
<1>4. /\ BatchOK(batch') /\ ToldOK(told') /\ ViewOK(view') /\ view'.outcome = "none"
      /\ view'.entries = view.entries /\ told'.bytes = view'.bytes /\ told'.entries <= view.entries
      /\ view'.phase = view.phase /\ view'.phaseBytes = view.phaseBytes
      /\ view'.bytes + ctx'.coalescer.bytes = work.bytes
  BY <1>1, <1>2, <1>3 DEF OpenConsumer, Besides
<1>5. /\ WorkOK(work') /\ work'.bytes = work.bytes /\ work'.entries = work.entries
      /\ work'.phaseBytes = work.phaseBytes
  BY <1>1 DEF JobInv, Shapes, WorkOK
<1> USE <1>1, <1>4, <1>5, Numbers
<1>8. Shapes' BY <1>3 DEF JobInv, Shapes, Results, Outcomes
<1>9. Accounts'
  <2>1. ctx'.coalescer.bytes \in Nat /\ view'.bytes \in Nat
    BY <1>3 DEF ContextOK, CoalescerOK, ViewOK
  <2> QED BY <2>1 DEF JobInv, Accounts, Mentioned, OutcomeTold
<1>10. Totals' BY <1>3 DEF JobInv, Totals, Mentioned
<1>11. PhaseAccounts' BY DEF JobInv, PhaseAccounts
<1>12. FlushedAt' /\ OutcomeTold' BY <1>3 DEF JobInv, FlushedAt, EverythingReported, OutcomeTold
<1>13. Active' BY DEF Active
<1>14. Grows BY <1>2, <1>3 DEF Grows, ToldGrows
<1> QED BY <1>8, <1>9, <1>10, <1>11, <1>12, <1>13, <1>14 DEF JobInv

LEMMA WriterReturnsStep == ASSUME NEW r \in Results PROVE JobInv /\ WriterReturns(r) => JobInv' /\ Grows
<1> SUFFICES ASSUME JobInv, WriterReturns(r) PROVE JobInv' /\ Grows OBVIOUS
<1> DEFINE commits == r = "completed" /\ ~token
           d == FlushProgress(FlushPhase(Consumer), ctx)
           x == Deliver(d, [type |-> "PhaseStarted", phase |-> "CommittingOutput"])
           e == IF commits THEN x ELSE d
<1>1. /\ stage = "running" /\ kind = "tzap" /\ UNCHANGED kind
      /\ stage' = IF commits THEN "committing" ELSE "returned"
      /\ result' = IF commits THEN result ELSE IF r = "completed" /\ token THEN "cancelled" ELSE r
      /\ ctx' = FlushedContext(ctx)
      /\ phased' = [phase |-> IF commits THEN "CommittingOutput" ELSE phased.phase,
                    bytes |-> IF commits THEN 0 ELSE PhaseTotal(PhaseFlush),
                    coalescer |-> PhaseFlush.next]
      /\ batch' = e.batch /\ view' = e.view /\ told' = e.told
      /\ work' = [work EXCEPT !.open = NoPath, !.phaseBytes = IF commits THEN 0 ELSE @]
  BY DEF WriterReturns, Emit
<1>2. AllKnown(d) BY <1>1, FlushBoth
<1>a. Consumer.told = told BY <1>1, ConsumerFacts
<1>b. PhaseTotal(PhaseFlush) = work.phaseBytes BY <1>2 DEF AllKnown
<1> HIDE DEF d
<1>3. /\ OpenConsumer(e) /\ e.batch = d.batch /\ e.told = d.told
      /\ e.view.bytes = d.view.bytes /\ e.view.entries = d.view.entries
      /\ e.view.phase = IF commits THEN "CommittingOutput" ELSE phased.phase
      /\ e.view.phaseBytes = IF commits THEN 0 ELSE work.phaseBytes
  <2>1. CASE commits
    <3>1. e = x BY <2>1
    <3> QED BY <1>2, <2>1, <3>1, PhaseStartedDelivered DEF AllKnown
  <2>2. CASE ~commits
    <3>1. e = d BY <2>2
    <3> QED BY <1>2, <2>2, <3>1 DEF AllKnown
  <2> QED BY <2>1, <2>2
<1> HIDE DEF e, commits
<1>4. /\ BatchOK(batch') /\ ToldOK(told') /\ ViewOK(view') /\ view'.outcome = "none"
      /\ view'.bytes = work.bytes /\ view'.entries = work.entries
      /\ told'.bytes = work.bytes /\ told'.entries <= work.entries
      /\ view'.phase = IF commits THEN "CommittingOutput" ELSE phased.phase
      /\ view'.phaseBytes = IF commits THEN 0 ELSE work.phaseBytes
  BY <1>1, <1>2, <1>3 DEF OpenConsumer, AllKnown
<1>5. /\ WorkOK(work') /\ work'.bytes = work.bytes /\ work'.entries = work.entries
      /\ work'.phaseBytes = IF commits THEN 0 ELSE work.phaseBytes
  BY <1>1 DEF JobInv, Shapes, WorkOK
<1>6. /\ ContextOK(ctx') /\ ctx'.bytes = ctx.bytes /\ ctx'.entries = ctx.entries
      /\ ctx'.coalescer.bytes = 0
  BY <1>1, FlushedContextFacts DEF JobInv, Shapes
<1>7. /\ PhasedOK(phased') /\ phased'.phase = (IF commits THEN "CommittingOutput" ELSE phased.phase)
      /\ phased'.bytes = (IF commits THEN 0 ELSE work.phaseBytes)
      /\ phased'.coalescer.bytes = 0 /\ phased'.coalescer.entries = 0
  <2>1. /\ CoalescerOK(PhaseFlush.next) /\ PhaseFlush.next.bytes = 0 /\ PhaseFlush.next.entries = 0
    <3>1. CoalescerOK(phased.coalescer) BY DEF JobInv, Shapes, PhasedOK
    <3> QED BY <3>1, FlushFacts DEF PhaseFlush
  <2>2. work.phaseBytes \in Nat BY Numbers DEF JobInv
  <2> QED BY <1>1, <1>b, <2>1, <2>2 DEF PhasedOK
<1> USE <1>1, <1>4, <1>5, <1>6, <1>7, Numbers
<1>8. Shapes' BY DEF JobInv, Shapes, Results, Outcomes
<1>9. Accounts' BY DEF JobInv, Accounts, Mentioned
<1>10. Totals' BY DEF JobInv, Totals, Mentioned
<1>11. PhaseAccounts' BY DEF PhaseAccounts, JobInv
<1>12. FlushedAt' /\ OutcomeTold' BY DEF JobInv, FlushedAt, EverythingReported, OutcomeTold
<1>13. Active' BY DEF Active
<1>14. Grows BY <1>2, <1>3, <1>a DEF Grows, ToldGrows, AllKnown
<1> QED BY <1>8, <1>9, <1>10, <1>11, <1>12, <1>13, <1>14 DEF JobInv

LEMMA UnreportedEntryStep == ASSUME NEW p \in Paths PROVE JobInv /\ UnreportedEntry(p) => JobInv' /\ Grows
<1> SUFFICES ASSUME JobInv, UnreportedEntry(p) PROVE JobInv' /\ Grows OBVIOUS
<1> DEFINE d == Consumer
           g == Deliver(d, PathEvent("EntryStarted", p))
           f == FinishedIn(ctx, p)
           e == Finished(g, ctx, p)
<1>0. p # NoPath BY JobAssumption
<1>1. /\ stage = "committed" /\ UNCHANGED <<kind, stage, result, phased>>
      /\ ctx' = f
      /\ batch' = e.batch /\ view' = e.view /\ told' = e.told
      /\ work' = [work EXCEPT !.entries = @ + 1, !.active = p]
  BY DEF UnreportedEntry, Emit
<1>k. kind = "tzap" /\ ctx.coalescer.bytes = 0 BY <1>1 DEF JobInv, FlushedAt
<1>2. /\ OpenConsumer(d) /\ d.batch = batch /\ d.view = view /\ d.told = told
      /\ Balanced(d, ctx) /\ ContextOK(ctx)
  BY <1>1, <1>k, ConsumerFacts DEF JobInv, Shapes
<1> HIDE DEF d
<1>3. /\ OpenConsumer(g) /\ g.batch = d.batch /\ g.told = d.told
      /\ g.view.bytes = d.view.bytes /\ g.view.entries = d.view.entries
      /\ g.view.phase = d.view.phase /\ g.view.phaseBytes = d.view.phaseBytes
  BY <1>0, <1>2, EntryStartedDelivered
<1> HIDE DEF g
<1>4. Balanced(g, ctx) BY <1>2, <1>3 DEF Balanced
<1>5. /\ OpenConsumer(e) /\ Besides(g, e) /\ ToldGrows(g, e)
      /\ ContextOK(f) /\ f.bytes = ctx.bytes /\ f.entries = ctx.entries + 1
      /\ Balanced(e, f)
      /\ e.view.entries = g.view.entries + 1
      /\ f.coalescer.bytes = 0
  BY <1>0, <1>2, <1>3, <1>4, <1>k, FinishedBalanced
<1> HIDE DEF e, f
<1>6. /\ BatchOK(batch') /\ ToldOK(told') /\ ViewOK(view') /\ view'.outcome = "none"
      /\ view'.entries = view.entries + 1 /\ view'.phase = view.phase
      /\ view'.phaseBytes = view.phaseBytes /\ told'.bytes = view'.bytes
      /\ told'.entries <= view.entries + 1
      /\ view'.bytes = ctx.bytes
  <2>1. Before(e.batch) = 0 BY <1>k DEF Before
  <2>2. e.view.bytes = ctx.bytes
    BY <1>5, <2>1, Numbers DEF Balanced, JobInv, OpenConsumer, ViewOK
  <2> QED BY <1>1, <1>2, <1>3, <1>5, <2>2 DEF OpenConsumer, Besides, Balanced
<1>7. /\ WorkOK(work') /\ work'.bytes = work.bytes /\ work'.entries = work.entries + 1
      /\ work'.phaseBytes = work.phaseBytes
  BY <1>1 DEF JobInv, Shapes, WorkOK
<1>a. /\ ContextOK(ctx') /\ ctx'.bytes = ctx.bytes /\ ctx'.entries = ctx.entries + 1
      /\ ctx'.coalescer.bytes = 0
  BY <1>1, <1>5
<1> USE <1>1, <1>k, <1>6, <1>7, <1>a, Numbers
<1>8. Shapes' BY DEF JobInv, Shapes
<1>9. Accounts' BY DEF JobInv, Accounts, Mentioned, Totals
<1>10. Totals' BY DEF JobInv, Totals, Mentioned
<1>11. PhaseAccounts' BY DEF JobInv, PhaseAccounts
<1>12. FlushedAt' /\ OutcomeTold' BY DEF JobInv, FlushedAt, EverythingReported, OutcomeTold
<1>13. Active' BY DEF Active
<1>14. Grows BY <1>2, <1>3, <1>5 DEF Grows, ToldGrows
<1> QED BY <1>8, <1>9, <1>10, <1>11, <1>12, <1>13, <1>14 DEF JobInv

LEMMA AllReportedStep == JobInv /\ AllReported => JobInv' /\ Grows
<1> SUFFICES ASSUME JobInv, AllReported PROVE JobInv' /\ Grows OBVIOUS
<1> DEFINE d == Consumer
           e == FlushProgress(d, ctx)
<1>1. /\ stage = "committed" /\ stage' = "returned" /\ UNCHANGED <<kind, result, phased, work>>
      /\ ctx' = FlushedContext(ctx)
      /\ batch' = e.batch /\ view' = e.view /\ told' = e.told
  BY DEF AllReported, Emit
<1>k. kind = "tzap" BY <1>1 DEF JobInv, FlushedAt
<1>2. /\ OpenConsumer(d) /\ d.batch = batch /\ d.view = view /\ d.told = told
      /\ Balanced(d, ctx) /\ ContextOK(ctx) /\ Before(d.batch) = 0
  BY <1>1, <1>k, ConsumerFacts DEF JobInv, Shapes
<1> HIDE DEF d
<1>3. /\ OpenConsumer(e) /\ Besides(d, e) /\ ToldGrows(d, e)
      /\ e.view.bytes = ctx.bytes + Before(d.batch)
      /\ e.told.bytes = e.view.bytes /\ e.told.entries <= e.view.entries
      /\ e.view.entries = d.view.entries
  BY <1>2, FlushBalanced
<1> HIDE DEF e
<1>4. /\ BatchOK(batch') /\ ToldOK(told') /\ ViewOK(view') /\ view'.outcome = "none"
      /\ view'.entries = view.entries /\ view'.phase = view.phase
      /\ view'.phaseBytes = view.phaseBytes /\ told'.bytes = view'.bytes
      /\ told'.entries <= view.entries /\ view'.bytes = ctx.bytes
  BY <1>1, <1>2, <1>3, Numbers DEF OpenConsumer, Besides, JobInv
<1>5. /\ ContextOK(ctx') /\ ctx'.bytes = ctx.bytes /\ ctx'.entries = ctx.entries
      /\ ctx'.coalescer.bytes = 0
  BY <1>1, <1>2, FlushedContextFacts
<1> USE <1>1, <1>k, <1>4, <1>5, Numbers
<1>8. Shapes' BY DEF JobInv, Shapes
<1>9. Accounts' BY DEF JobInv, Accounts, Mentioned, Totals
<1>10. Totals' BY DEF JobInv, Totals, Mentioned
<1>11. PhaseAccounts' BY DEF JobInv, PhaseAccounts
<1>12. FlushedAt' /\ OutcomeTold' BY DEF JobInv, FlushedAt, EverythingReported, OutcomeTold
<1>13. Active' BY DEF Active
<1>14. Grows BY <1>2, <1>3 DEF Grows, ToldGrows
<1> QED BY <1>8, <1>9, <1>10, <1>11, <1>12, <1>13, <1>14 DEF JobInv

LEMMA EndStep == JobInv /\ End => JobInv' /\ Grows
<1> SUFFICES ASSUME JobInv, End PROVE JobInv' /\ Grows OBVIOUS
<1> DEFINE d == Consumer
<1>0. PICK r \in {result} \cup (IF kind \in CreateKinds THEN {} ELSE {"failed"}), report \in Reports :
         result' = r /\ Emit(Deliver(Consumer, LastEvent(r, report)))
  BY DEF End
<1> DEFINE e == Deliver(d, LastEvent(r, report))
<1>1. /\ stage = "returned" /\ stage' = "ended" /\ UNCHANGED <<kind, ctx, phased, work>>
      /\ result' = r /\ batch' = e.batch /\ view' = e.view /\ told' = e.told
      /\ r \in Outcomes
  BY <1>0 DEF End, Emit, JobInv, Shapes, Outcomes
<1>2. /\ OpenConsumer(d) /\ d.batch = batch /\ d.view = view /\ d.told = told
  BY <1>1, ConsumerFacts
<1>3. /\ work.bytes \in Nat /\ work.entries \in Nat /\ view.entries = Mentioned
      /\ view.bytes \in Nat /\ view.bytes <= work.bytes
      /\ kind = "tzap" => view.bytes = work.bytes
  BY <1>1, Numbers DEF JobInv, Accounts, OutcomeTold, FlushedAt, FlushingKinds
<1>a. ASSUME r = "completed"
      PROVE  /\ report.entries \in Nat /\ report.bytes \in Nat
             /\ Larger(view.entries, report.entries) = work.entries
             /\ Larger(view.bytes, report.bytes) \in Nat
             /\ Larger(view.bytes, report.bytes) >= work.bytes
             /\ kind # "tzap" => Larger(view.bytes, report.bytes) = work.bytes
  <2>0. result = "completed" BY <1>a
  <2>1. /\ report.entries \in (IF kind = "sevenz" THEN {work.entries} ELSE 0..work.entries)
        /\ report.bytes \in (IF kind = "tzap" THEN ArchiveBytes ELSE {work.bytes})
    BY <2>0 DEF Reports
  <2>2. report.entries \in Nat /\ report.bytes \in Nat
    <3>1. ArchiveBytes \subseteq Nat BY JobAssumption
    <3>2. report.entries \in Nat BY <1>3, <2>1
    <3> QED BY <1>3, <2>1, <3>1, <3>2
  <2>3. Larger(view.entries, report.entries) = work.entries
    BY <1>3, <2>1, <2>2 DEF Mentioned, Larger
  <2> QED BY <1>3, <2>1, <2>2, <2>3 DEF Larger
<1> HIDE DEF d
<1>4. /\ batch' = batch /\ told' = told /\ ViewOK(view')
      /\ view'.phase = view.phase /\ view'.phaseBytes = view.phaseBytes
      /\ view'.entries = IF r = "completed" THEN work.entries ELSE view.entries
      /\ view'.bytes = IF r = "completed" THEN Larger(view.bytes, report.bytes) ELSE view.bytes
      /\ view'.outcome = "completed" <=> r = "completed"
      /\ view'.outcome = "cancelled" => r = "cancelled" /\ kind \in CreateKinds
  <2>1. CASE r = "completed"
    <3>1. e = Deliver(d, [type |-> "Completed", entries |-> report.entries, bytes |-> report.bytes])
      BY <2>1 DEF LastEvent
    <3> HIDE DEF e
    <3>2. /\ Closed(d, e, "completed") /\ e.view.bytes = Larger(d.view.bytes, report.bytes)
          /\ e.view.entries = Larger(d.view.entries, report.entries)
      BY <1>2, <1>a, <2>1, <3>1, CompletedDelivered
    <3> QED BY <1>1, <1>2, <1>a, <2>1, <3>2 DEF Closed
  <2>2. CASE r = "cancelled" /\ kind \in CreateKinds
    <3>1. e = Deliver(d, [type |-> "Cancelled"])
      BY <2>2 DEF LastEvent
    <3> HIDE DEF e
    <3>2. Closed(d, e, "cancelled") /\ e.view.bytes = d.view.bytes /\ e.view.entries = d.view.entries
      BY <1>2, <3>1, CancelledDelivered
    <3> QED BY <1>1, <1>2, <1>3, <2>2, <3>2 DEF Closed
  <2>3. CASE r # "completed" /\ ~(r = "cancelled" /\ kind \in CreateKinds)
    <3>1. e = Deliver(d, [type |-> "Failed"])
      BY <2>3 DEF LastEvent
    <3> HIDE DEF e
    <3>2. Closed(d, e, "failed") /\ e.view.bytes = d.view.bytes /\ e.view.entries = d.view.entries
      BY <1>2, <3>1, FailedDelivered
    <3> QED BY <1>1, <1>2, <1>3, <2>3, <3>2 DEF Closed
  <2> QED BY <2>1, <2>2, <2>3
<1> HIDE DEF e
<1> USE <1>1, <1>3, <1>4, <1>a, Numbers
<1>8. Shapes' BY DEF JobInv, Shapes
<1>9. Accounts' BY DEF JobInv, Accounts, Mentioned
<1>10. Totals' BY DEF JobInv, Totals, Mentioned
<1>11. PhaseAccounts' BY DEF JobInv, PhaseAccounts
<1>12. FlushedAt' BY DEF JobInv, FlushedAt, EverythingReported, Accounts, Mentioned, PhaseAccounts
<1>13. OutcomeTold' /\ Active' BY DEF OutcomeTold, Active
<1>14. Grows BY DEF Grows, JobInv
<1> QED BY <1>8, <1>9, <1>10, <1>11, <1>12, <1>13, <1>14 DEF JobInv
----------------------------------------------------------------------------
(* Every step of a creation is a step of the job, or leaves it alone.      *)
LEMMA JobInvStep == JobInv /\ [CreateNext]_allVars => JobInv' /\ [Grows]_jobVars
<1> SUFFICES ASSUME JobInv, [CreateNext]_allVars PROVE JobInv' /\ [Grows]_jobVars OBVIOUS
<1>1. CASE UNCHANGED jobVars
  BY <1>1 DEF jobVars, JobInv, Shapes, Accounts, Mentioned, Totals, PhaseAccounts, FlushedAt,
              EverythingReported, OutcomeTold, Active
<1>2. CASE Tick \/ Cancel \/ PlanFails \/ Start \/ EntryFinished \/ SevenZEntry
  BY <1>2, TickCancelStep, PlanFailsStep, StartStep, EntryFinishedStep, SevenZEntryStep
<1>a. CASE AllReported \/ End
  BY <1>a, AllReportedStep, EndStep
<1>3. CASE \E p \in Paths, opened \in BOOLEAN : EntryStarted(p, opened)
  BY <1>3, EntryStartedStep
<1>b. CASE \E p \in Paths, skipped \in BOOLEAN : CollectSource(p, skipped)
  BY <1>b, CollectSourceStep
<1>c. CASE \E p \in Paths : UnreportedEntry(p)
  BY <1>c, UnreportedEntryStep
<1>4. CASE \E n \in Sizes : BytesProcessed(n)
  BY <1>4, BytesProcessedStep
<1>5. CASE \E ph \in JobPhase : PhaseStarted(ph)
  BY <1>5, PhaseStartedStep
<1>6. CASE \E p \in Paths, n \in Sizes : PlanningBytes(p, n) \/ SevenZRead(p, n)
  BY <1>6, PlanningBytesStep, SevenZReadStep
<1>7. CASE \E p \in Paths, n \in Sizes, last \in BOOLEAN : SourceBytesRead(p, n, last)
  BY <1>7, SourceBytesReadStep
<1>8. CASE \E r \in Results : Return(r) \/ WriterReturns(r) \/ CommitReturns(r)
  BY <1>8, ReturnStep, WriterReturnsStep, CommitReturnsStep
<1>9. CASE CreateNext
  <2>1. CASE Job(Tick \/ Cancel \/ PlanFails \/ Start \/ EntryFinished \/ SevenZEntry)
    BY <2>1, <1>2 DEF Job
  <2>a. CASE Job(AllReported \/ End)
    BY <2>a, <1>a DEF Job
  <2>2. CASE \E p \in Paths, opened \in BOOLEAN : Job(EntryStarted(p, opened))
    BY <2>2, <1>3 DEF Job
  <2>b. CASE \E p \in Paths, skipped \in BOOLEAN : Job(BeforeSink(p, skipped))
    BY <2>b, <1>b DEF Job, BeforeSink
  <2>c. CASE \E p \in Paths : Job(UnreportedEntry(p))
    BY <2>c, <1>c DEF Job
  <2>3. CASE \E n \in Sizes : Job(BytesProcessed(n))
    BY <2>3, <1>4 DEF Job
  <2>4. CASE \E ph \in JobPhase : Job(OpenedBefore(ph))
    BY <2>4, <1>5 DEF Job, OpenedBefore
  <2>5. CASE \E p \in Paths, n \in Sizes : Job(PlanningBytes(p, n) \/ BeforeSplit(p, n))
    BY <2>5, <1>6 DEF Job, BeforeSplit
  <2>6. CASE \E p \in Paths, n \in Sizes, last \in BOOLEAN : Job(SourceBytesRead(p, n, last))
    BY <2>6, <1>7 DEF Job
  <2>7. CASE \E r \in Results : Job(SplitReturns(r)) \/ FillReturns(r) \/ CommitSinkReturns(r)
    BY <2>7, <1>8 DEF Job, SplitReturns, FillReturns, CommitSinkReturns
  <2>8. CASE Volumes(SplitArchive \/ FillSink \/ CommitSink) \/ \E p \in Path : Volumes(Intrude(p))
    BY <2>8, <1>1 DEF Volumes
  <2> QED BY <1>9, <2>1, <2>a, <2>2, <2>b, <2>c, <2>3, <2>4, <2>5, <2>6, <2>7, <2>8, Zenon DEF CreateNext
<1> QED BY <1>1, <1>9 DEF allVars

LEMMA JobInvariant == CreateSpec => []JobInv
<1>1. CreateInit => JobInv BY JobInvInit DEF CreateInit
<1>2. JobInv /\ [CreateNext]_allVars => JobInv' BY JobInvStep
<1> QED BY <1>1, <1>2, PTL DEF CreateSpec

(* What a consumer of a job's events shows is what happened: the entries   *)
(* are exact although they are fed twice (those of a 7z creation once it   *)
(* completes), no counter runs ahead but for the length of a complete TZAP *)
(* archive, nothing is left unreported at the end and the member shown is  *)
(* the one read last, for every number of entries, size, step and interval *)
(* of the coalescer.                                                       *)
THEOREM ViewTrue == CreateSpec => []ViewIsTrue
<1>1. JobInv => ViewIsTrue
  <2> SUFFICES ASSUME JobInv PROVE ViewIsTrue OBVIOUS
  <2>1. ViewIsExact BY Numbers DEF JobInv, Accounts, Mentioned, PhaseAccounts, ViewIsExact
  <2>2. EverythingReported BY DEF JobInv, FlushedAt
  <2>3. ShowsActiveMember
    BY DEF JobInv, Active, Shapes, PhasedOK, ContextOK, CoalescerOK, ShowsActiveMember
  <2> QED BY <2>1, <2>2, <2>3 DEF ViewIsTrue
<1> QED BY <1>1, JobInvariant, PTL

(* The totals of the BytesProcessed events, which the command line prints  *)
(* as they come, never go back: not at a flush, not when a selection makes *)
(* the context of its next entry, and not through BatchProgressSink.       *)
THEOREM TotalsGrow == CreateSpec => TotalsNeverGoBack
<1>1. JobInv /\ [CreateNext]_allVars => [Grows]_jobVars BY JobInvStep
<1> QED BY <1>1, JobInvariant, PTL DEF CreateSpec, TotalsNeverGoBack, Grows
----------------------------------------------------------------------------
(* Types of the job: what the lists of recent paths hold                   *)

RecentOK(s) == s \in Seq(Paths) /\ Len(s) <= RecentLimit

(* The order of the naturals, as a relation.                               *)
Below == {ss \in Nat \X Nat : ss[1] < ss[2]}

(* A set of naturals has a least element.                                  *)
LEMMA HasLeast ==
  ASSUME NEW S \in SUBSET Nat, S # {}
  PROVE  \E x \in S : \A y \in S : x =< y
<1>1. IsWellFoundedOn(Below, Nat)
  BY NatLessThanWellFounded DEF OpToRel, Below
<1>2. \E x \in S : \A y \in S : ~ (<<y, x>> \in Below)
  BY <1>1, WFMin
<1>3. \A x, y \in Nat : <<y, x>> \in Below <=> y < x
  BY DEF Below
<1>4. \A x, y \in Nat : ~ (y < x) => x =< y
  OBVIOUS
<1> QED
  BY <1>2, <1>3, <1>4

LEMMA WithoutShorter ==
    ASSUME NEW s \in Seq(Paths), NEW p
    PROVE  Without(s, p) \in Seq(Paths) /\ Len(Without(s, p)) <= Len(s)
<1> DEFINE at == {i \in DOMAIN s : s[i] = p}
           i == CHOOSE j \in at : \A k \in at : j <= k
<1>1. CASE at = {} BY <1>1 DEF Without
<1>2. CASE at # {}
  <2>1. \E j \in at : \A k \in at : j <= k
    <3>1. at \in SUBSET Nat OBVIOUS
    <3> QED BY <1>2, <3>1, HasLeast
  <2>2. i \in DOMAIN s BY <2>1
  <2>3. Without(s, p) = SubSeq(s, 1, i - 1) \o SubSeq(s, i + 1, Len(s)) BY <1>2 DEF Without
  <2> HIDE DEF i
  <2>4. i \in 1 .. Len(s) BY <2>2
  <2>5. SubSeq(s, 1, i - 1) \in Seq(Paths) /\ Len(SubSeq(s, 1, i - 1)) = i - 1
    BY <2>4
  <2>6. SubSeq(s, i + 1, Len(s)) \in Seq(Paths) /\ Len(SubSeq(s, i + 1, Len(s))) = Len(s) - i
    BY <2>4
  <2>7. \A x, y \in Seq(Paths) : x \o y \in Seq(Paths) /\ Len(x \o y) = Len(x) + Len(y)
    BY ConcatProperties
  <2>8. /\ Without(s, p) \in Seq(Paths)
        /\ Len(Without(s, p)) = Len(SubSeq(s, 1, i - 1)) + Len(SubSeq(s, i + 1, Len(s)))
    BY <2>3, <2>5, <2>6, <2>7
  <2>9. (i - 1) + (Len(s) - i) <= Len(s) BY <2>4
  <2> QED BY <2>5, <2>6, <2>8, <2>9
<1> QED BY <1>1, <1>2

LEMMA RememberFacts ==
    ASSUME NEW s, RecentOK(s), NEW p \in Paths
    PROVE  RecentOK(Remember(s, p))
<1> DEFINE w == Without(s, p)
           g == Append(w, p)
<1>1. w \in Seq(Paths) /\ Len(w) <= RecentLimit /\ RecentLimit \in Nat
  BY WithoutShorter, JobAssumption DEF RecentOK
<1>2. Remember(s, p) = IF Len(g) > RecentLimit THEN Tail(g) ELSE g
  BY DEF Remember
<1> HIDE DEF w
<1>3. g \in Seq(Paths) /\ g # <<>> /\ Len(g) = Len(w) + 1 BY <1>1, AppendProperties
<1> HIDE DEF g
<1>4. Tail(g) \in Seq(Paths) /\ Len(Tail(g)) = Len(w) BY <1>1, <1>3
<1> QED BY <1>1, <1>2, <1>3, <1>4 DEF RecentOK

(* The first n paths have been remembered.                                 *)
Remembers(s, paths, n, g) ==
    /\ g = [k \in 0 .. n |-> g[k]]
    /\ g[0] = s
    /\ \A k \in 1 .. n : g[k] = Remember(g[k - 1], paths[k])

LEMMA RemembersExist ==
    ASSUME NEW s, NEW paths, NEW n \in Nat
    PROVE  \E g : Remembers(s, paths, n, g)
<1> DEFINE Bad == {m \in Nat : ~ \E g : Remembers(s, paths, m, g)}
<1>0. SUFFICES ASSUME Bad # {} PROVE FALSE OBVIOUS
<1>1. PICK m \in Bad : \A y \in Bad : m =< y BY <1>0, HasLeast
<1>2. m # 0
  <2> DEFINE g == [k \in 0 .. 0 |-> s]
  <2>1. Remembers(s, paths, 0, g) BY DEF Remembers
  <2> QED BY <2>1
<1>3. m - 1 \in Nat /\ m - 1 \notin Bad BY <1>1, <1>2
<1>4. PICK h : Remembers(s, paths, m - 1, h) BY <1>3
<1> DEFINE g == [k \in 0 .. m |-> IF k = m THEN Remember(h[m - 1], paths[m]) ELSE h[k]]
<1>5. Remembers(s, paths, m, g)
  <2>1. g = [k \in 0 .. m |-> g[k]] OBVIOUS
  <2>2. g[0] = s BY <1>2, <1>4 DEF Remembers
  <2>3. ASSUME NEW k \in 1 .. m PROVE g[k] = Remember(g[k - 1], paths[k])
    <3>1. CASE k = m
      <4>1. g[k] = Remember(h[m - 1], paths[k]) BY <3>1
      <4>2. g[k - 1] = h[m - 1] BY <3>1
      <4> QED BY <4>1, <4>2
    <3>2. CASE k # m
      <4>1. k \in 1 .. m - 1 BY <3>2
      <4>2. g[k] = h[k] BY <4>1
      <4>3. g[k - 1] = h[k - 1] BY <4>1
      <4> QED BY <1>4, <4>1, <4>2, <4>3 DEF Remembers
    <3> QED BY <3>1, <3>2
  <2> HIDE DEF g
  <2> QED BY <2>1, <2>2, <2>3 DEF Remembers
<1> QED BY <1>5

(* Remembering the paths of a batch, however many, keeps to the limit.     *)
LEMMA RememberAllFacts ==
    ASSUME NEW s, RecentOK(s), NEW paths \in Seq(Paths)
    PROVE  RecentOK(RememberAll(s, paths))
<1> DEFINE n == Len(paths)
           F(g) == [k \in 0 .. n |-> IF k = 0 THEN s ELSE Remember(g[k - 1], paths[k])]
           a == CHOOSE g : g = F(g)
<1>0. n \in Nat OBVIOUS
<1>1. PICK g : Remembers(s, paths, n, g) BY <1>0, RemembersExist
<1>2. g = F(g)
  <2>1. ASSUME NEW k \in 0 .. n PROVE g[k] = F(g)[k]
    <3>1. CASE k = 0 BY <3>1, <1>1 DEF Remembers
    <3>2. CASE k # 0
      <4>1. k \in 1 .. n BY <3>2
      <4>2. F(g)[k] = Remember(g[k - 1], paths[k]) BY <4>1
      <4> QED BY <4>1, <4>2, <1>1 DEF Remembers
    <3> QED BY <3>1, <3>2
  <2>2. g = [k \in 0 .. n |-> g[k]] BY <1>1 DEF Remembers
  <2> HIDE DEF n
  <2> QED BY <2>1, <2>2
<1>3. RememberAll(s, paths) = a[n] BY DEF RememberAll
<1>4. a = F(a)
  <2> HIDE DEF F
  <2> QED BY <1>2
<1>5. /\ a[0] = s
      /\ \A k \in 1 .. n : a[k] = Remember(a[k - 1], paths[k])
  <2> HIDE DEF n, a
  <2> QED BY <1>0, <1>4
<1> HIDE DEF a, F
<1> DEFINE Bad == {k \in Nat : k =< n /\ ~ RecentOK(a[k])}
<1>6. SUFFICES ASSUME Bad # {} PROVE FALSE BY <1>0, <1>3
<1>7. PICK k \in Bad : \A j \in Bad : k =< j BY <1>6, HasLeast
<1>8. k \in Nat /\ k =< n /\ k # 0 BY <1>5, <1>7
<1>9. k \in 1 .. n /\ k - 1 \in Nat /\ k - 1 =< n /\ k - 1 \notin Bad BY <1>7, <1>8
<1>10. RecentOK(a[k - 1]) BY <1>9
<1>11. paths[k] \in Paths BY <1>9
<1> QED BY <1>5, <1>7, <1>9, <1>10, <1>11, RememberFacts

----------------------------------------------------------------------------
(* Types of what the consumer keeps                                        *)

MaybePath == Paths \cup {NoPath}
MaybePhase == JobPhase \cup {NoPhase}

ViewTyped(v) ==
    /\ DOMAIN v = {"bytes", "entries", "current", "recent", "phase", "phaseBytes", "outcome"}
    /\ v.current \in MaybePath /\ v.phase \in MaybePhase
    /\ v.outcome \in Outcomes /\ RecentOK(v.recent)

CoalescerTyped(c) ==
    /\ DOMAIN c = {"bytes", "entries", "latest", "lastRaw", "recent", "lastEmitted", "once"}
    /\ c.latest \in MaybePath /\ RecentOK(c.recent)

EventTyped(x) ==
    \/ x.type \in {"Started", "Completed", "Failed", "Cancelled"}
    \/ x.type \in {"EntryStarted", "EntryFinished"} /\ x.path \in Paths
    \/ x.type = "PhaseStarted" /\ x.phase \in JobPhase
    \/ /\ x.type = "BytesProcessed"
       /\ DOMAIN x = {"type", "path", "recent", "bytes", "entries"}
       /\ x.path \in MaybePath /\ RecentOK(x.recent)
    \/ /\ x.type = "PhaseBytesProcessed" /\ x.phase \in MaybePhase
       /\ x.path \in MaybePath /\ RecentOK(x.recent)

LEMMA RecordPathsTyped ==
    ASSUME NEW v, ViewTyped(v), NEW p \in MaybePath, NEW s, RecentOK(s)
    PROVE  ViewTyped(RecordPaths(v, p, s))
<1> DEFINE seen == RememberAll(v.recent, s)
           last == IF s = <<>> THEN v.current ELSE s[Len(s)]
           u == [v EXCEPT !.recent  = IF p = NoPath THEN seen ELSE Remember(seen, p),
                          !.current = IF p = NoPath THEN last ELSE p]
<1>1. RecentOK(seen) BY RememberAllFacts DEF ViewTyped, RecentOK
<1>2. last \in MaybePath
  <2>1. CASE s = <<>> BY <2>1 DEF ViewTyped
  <2>2. CASE s # <<>>
    <3>1. Len(s) \in 1 .. Len(s) BY <2>2 DEF RecentOK
    <3> QED BY <2>2, <3>1 DEF RecentOK, MaybePath
  <2> QED BY <2>1, <2>2
<1>3. RecordPaths(v, p, s) = u BY DEF RecordPaths
<1> HIDE DEF seen, last
<1>4. p # NoPath => RecentOK(Remember(seen, p)) BY <1>1, RememberFacts DEF MaybePath
<1>5. /\ DOMAIN u = DOMAIN v /\ u.phase = v.phase /\ u.outcome = v.outcome
      /\ u.recent = (IF p = NoPath THEN seen ELSE Remember(seen, p))
      /\ u.current = IF p = NoPath THEN last ELSE p
  BY DEF ViewTyped
<1> HIDE DEF u
<1> QED BY <1>1, <1>2, <1>3, <1>4, <1>5 DEF ViewTyped

LEMMA EmptyRecent == RecentOK(<<>>)
BY JobAssumption DEF RecentOK

LEMMA ApplyTyped ==
    ASSUME NEW v, ViewTyped(v), NEW x, EventTyped(x)
    PROVE  ViewTyped(Apply(v, x))
<1>1. CASE v.outcome # "none" BY <1>1 DEF Apply
<1> USE DEF Outcomes
<1>2. CASE v.outcome = "none"
  <2> USE <1>2
  <2>1. CASE x.type = "Started" BY <2>1 DEF Apply
  <2>2. CASE x.type \in {"Completed", "Failed", "Cancelled"}
    <3>1. CASE x.type = "Completed"
      <4>1. Apply(v, x) = [v EXCEPT !.entries = Larger(@, x.entries),
                                    !.bytes   = Larger(@, x.bytes), !.outcome = "completed"]
        BY <3>1 DEF Apply
      <4> QED BY <4>1 DEF ViewTyped
    <3>2. CASE x.type = "Failed"
      <4>1. Apply(v, x) = [v EXCEPT !.outcome = "failed"] BY <3>2 DEF Apply
      <4> QED BY <4>1 DEF ViewTyped
    <3>3. CASE x.type = "Cancelled"
      <4>1. Apply(v, x) = [v EXCEPT !.outcome = "cancelled"] BY <3>3 DEF Apply
      <4> QED BY <4>1 DEF ViewTyped
    <3> QED BY <2>2, <3>1, <3>2, <3>3
  <2>3. CASE x.type = "EntryStarted"
    <3>1. Apply(v, x) = RecordPaths(v, x.path, <<>>) BY <2>3 DEF Apply
    <3>2. x.path \in MaybePath BY <2>3 DEF EventTyped, MaybePath
    <3> QED BY <3>1, <3>2, EmptyRecent, RecordPathsTyped
  <2>4. CASE x.type = "EntryFinished"
    <3> DEFINE u == [v EXCEPT !.entries = @ + 1]
    <3>1. Apply(v, x) = RecordPaths(u, x.path, <<>>) BY <2>4 DEF Apply
    <3>2. x.path \in MaybePath BY <2>4 DEF EventTyped, MaybePath
    <3>3. ViewTyped(u) BY DEF ViewTyped
    <3> HIDE DEF u
    <3> QED BY <3>1, <3>2, <3>3, EmptyRecent, RecordPathsTyped
  <2>5. CASE x.type = "PhaseStarted"
    <3>1. Apply(v, x) = [v EXCEPT !.phase = x.phase, !.phaseBytes = 0] BY <2>5 DEF Apply
    <3>2. x.phase \in MaybePhase BY <2>5 DEF EventTyped, MaybePhase
    <3> QED BY <3>1, <3>2 DEF ViewTyped
  <2>6. CASE x.type = "BytesProcessed"
    <3> DEFINE u == [v EXCEPT !.bytes   = Larger(@, x.bytes),
                              !.entries = Larger(@, x.entries)]
    <3>1. Apply(v, x) = RecordPaths(u, x.path, x.recent) BY <2>6 DEF Apply
    <3>2. x.path \in MaybePath /\ RecentOK(x.recent) BY <2>6 DEF EventTyped
    <3>3. ViewTyped(u) BY DEF ViewTyped
    <3> HIDE DEF u
    <3> QED BY <3>1, <3>2, <3>3, RecordPathsTyped
  <2>7. CASE x.type = "PhaseBytesProcessed"
    <3> DEFINE base == IF v.phase = x.phase THEN v.phaseBytes ELSE 0
               u == [v EXCEPT !.phase      = x.phase,
                              !.phaseBytes = Larger(base, x.bytes)]
    <3>1. Apply(v, x) = RecordPaths(u, x.path, x.recent) BY <2>7 DEF Apply
    <3>2. x.path \in MaybePath /\ RecentOK(x.recent) /\ x.phase \in MaybePhase
      BY <2>7 DEF EventTyped
    <3> HIDE DEF base
    <3>3. ViewTyped(u) BY <3>2 DEF ViewTyped
    <3> HIDE DEF u
    <3> QED BY <3>1, <3>2, <3>3, RecordPathsTyped
  <2> QED BY <2>1, <2>2, <2>3, <2>4, <2>5, <2>6, <2>7 DEF EventTyped
<1> QED BY <1>1, <1>2

LEMMA DeliverTyped ==
    ASSUME NEW d, ViewTyped(d.view), NEW x, EventTyped(x)
    PROVE  ViewTyped(Deliver(d, x).view)
<1> DEFINE y == ThroughBatch(d.batch, x).event
<1>1. EventTyped(y)
  <2>1. CASE kind # "each" \/ x.type # "BytesProcessed"
    <3>1. y = x BY <2>1 DEF ThroughBatch
    <3> QED BY <3>1
  <2>2. CASE kind = "each" /\ x.type = "BytesProcessed"
    <3>1. y = [x EXCEPT !.bytes = @ + d.batch.finished, !.entries = @ + d.batch.finishedEntries]
      BY <2>2 DEF ThroughBatch
    <3>2. /\ DOMAIN x = {"type", "path", "recent", "bytes", "entries"}
          /\ x.path \in MaybePath /\ RecentOK(x.recent)
      BY <2>2 DEF EventTyped
    <3>3. /\ DOMAIN y = DOMAIN x /\ y.type = x.type /\ y.path = x.path /\ y.recent = x.recent
      BY <3>1, <3>2
    <3> HIDE DEF y
    <3> QED BY <2>2, <3>2, <3>3 DEF EventTyped
  <2> QED BY <2>1, <2>2
<1>2. Deliver(d, x).view = Apply(d.view, y) BY DeliverFacts
<1> HIDE DEF y
<1> QED BY <1>1, <1>2, ApplyTyped

LEMMA DrainedTyped == ASSUME NEW c, CoalescerTyped(c) PROVE CoalescerTyped(Drained(c))
<1>1. /\ DOMAIN Drained(c) = DOMAIN c
      /\ Drained(c).latest = NoPath /\ Drained(c).recent = <<>>
  BY DEF Drained, CoalescerTyped
<1> QED BY <1>1, EmptyRecent DEF CoalescerTyped, MaybePath

LEMMA RecordTyped ==
    ASSUME NEW c, CoalescerTyped(c), NEW p \in Paths, NEW n, NEW m,
           NEW r, r = Record(c, p, n, m)
    PROVE  CoalescerTyped(r.next) /\ CoalescerTyped(r.content)
<1> DEFINE q == Recorded(c, p, n, m)
           fresh == p # NoPath /\ c.lastRaw # p
<1>1. /\ DOMAIN q = DOMAIN c
      /\ q.latest = (IF fresh THEN p ELSE c.latest)
      /\ q.recent = (IF fresh THEN Remember(c.recent, p) ELSE c.recent)
  BY DEF Recorded, CoalescerTyped
<1>2. RecentOK(Remember(c.recent, p)) BY RememberFacts DEF CoalescerTyped
<1>3. r.content = q /\ r.next \in {c, q, Drained(q)} BY DEF Record
<1> HIDE DEF q
<1>4. CoalescerTyped(q) BY <1>1, <1>2 DEF CoalescerTyped, MaybePath
<1> QED BY <1>3, <1>4, DrainedTyped

LEMMA FlushTyped ==
    ASSUME NEW c, CoalescerTyped(c)
    PROVE  CoalescerTyped(Flush(c).next) /\ CoalescerTyped(Flush(c).content)
<1>1. Flush(c).content = c /\ Flush(c).next \in {c, Drained(c)} BY DEF Flush
<1> QED BY <1>1, DrainedTyped

LEMMA NewTyped == ASSUME NEW t PROVE CoalescerTyped(NewCoalescer(t))
BY EmptyRecent DEF NewCoalescer, CoalescerTyped, MaybePath

LEMMA DeliverBytesTyped ==
    ASSUME NEW d, ViewTyped(d.view), NEW r, CoalescerTyped(r.content), NEW b, NEW n
    PROVE  ViewTyped(DeliverBytes(d, r, b, n).view)
<1> DEFINE x == [type |-> "BytesProcessed", path |-> r.content.latest,
                 recent |-> r.content.recent, bytes |-> b, entries |-> n]
<1>1. EventTyped(x) BY DEF EventTyped, CoalescerTyped
<1>2. DeliverBytes(d, r, b, n) = IF r.batched THEN Deliver(d, x) ELSE d BY DEF DeliverBytes
<1> HIDE DEF x
<1> QED BY <1>1, <1>2, DeliverTyped

LEMMA DeliverPhaseBytesTyped ==
    ASSUME NEW d, ViewTyped(d.view), NEW r, CoalescerTyped(r.content),
           NEW ph \in MaybePhase, NEW b
    PROVE  ViewTyped(DeliverPhaseBytes(d, r, ph, b).view)
<1> DEFINE x == [type |-> "PhaseBytesProcessed", phase |-> ph, path |-> r.content.latest,
                 recent |-> r.content.recent, bytes |-> b]
<1>1. EventTyped(x) BY DEF EventTyped, CoalescerTyped
<1>2. DeliverPhaseBytes(d, r, ph, b) = IF r.batched THEN Deliver(d, x) ELSE d
  BY DEF DeliverPhaseBytes
<1> HIDE DEF x
<1> QED BY <1>1, <1>2, DeliverTyped

----------------------------------------------------------------------------
(* Types of the context, the phases and the work                           *)

ContextTyped(c) == DOMAIN c = {"bytes", "entries", "coalescer"} /\ CoalescerTyped(c.coalescer)
PhasesTyped(f) ==
    /\ DOMAIN f = {"phase", "bytes", "coalescer"}
    /\ f.phase \in MaybePhase /\ CoalescerTyped(f.coalescer)
WorkTyped(w) ==
    DOMAIN w = {"bytes", "entries", "open", "active", "phaseBytes"} /\ w.open \in MaybePath

Scalars ==
    /\ kind \in Kinds /\ token \in BOOLEAN /\ now \in 0 .. MaxTime /\ result \in Outcomes
    /\ stage \in {"idle", "running", "committing", "committed", "returned", "ended"}

Parts == ContextTyped(ctx) /\ PhasesTyped(phased) /\ WorkTyped(work) /\ ViewTyped(view)

LEMMA FlushedTyped == ASSUME NEW c, ContextTyped(c) PROVE ContextTyped(FlushedContext(c))
<1> DEFINE k == Flush(c.coalescer).next
<1>1. CoalescerTyped(k) BY FlushTyped DEF ContextTyped
<1>2. FlushedContext(c) = [c EXCEPT !.coalescer = k] BY DEF FlushedContext
<1> HIDE DEF k
<1> QED BY <1>1, <1>2 DEF ContextTyped

LEMMA FlushProgressTyped ==
    ASSUME NEW d, ViewTyped(d.view), NEW c, ContextTyped(c)
    PROVE  ViewTyped(FlushProgress(d, c).view)
<1> DEFINE r == Flush(c.coalescer)
<1>1. CoalescerTyped(r.content) BY FlushTyped DEF ContextTyped
<1>2. FlushProgress(d, c) = DeliverBytes(d, r, c.bytes, c.entries) BY DEF FlushProgress
<1> HIDE DEF r
<1> QED BY <1>1, <1>2, DeliverBytesTyped

LEMMA FlushPhaseTyped ==
    ASSUME NEW d, ViewTyped(d.view), PhasesTyped(phased)
    PROVE  ViewTyped(FlushPhase(d).view) /\ CoalescerTyped(PhaseFlush.next)
<1>1. CoalescerTyped(PhaseFlush.content) /\ CoalescerTyped(PhaseFlush.next)
  BY FlushTyped DEF PhaseFlush, PhasesTyped
<1>2. FlushPhase(d) = IF phased.phase = NoPhase THEN d
                      ELSE DeliverPhaseBytes(d, PhaseFlush, phased.phase, PhaseTotal(PhaseFlush))
  BY DEF FlushPhase
<1>3. phased.phase \in MaybePhase BY DEF PhasesTyped
<1> QED BY <1>1, <1>2, <1>3, DeliverPhaseBytesTyped

LEMMA FinishedTyped ==
    ASSUME NEW d, ViewTyped(d.view), NEW c, ContextTyped(c), NEW p \in Paths
    PROVE  ViewTyped(Finished(d, c, p).view) /\ ContextTyped(FinishedIn(c, p))
<1> DEFINE r == Record(c.coalescer, p, 0, 1)
           x == PathEvent("EntryFinished", p)
           g == Deliver(d, x)
<1>1. CoalescerTyped(r.next) /\ CoalescerTyped(r.content)
  BY RecordTyped DEF ContextTyped
<1>2. Finished(d, c, p) = DeliverBytes(g, r, c.bytes, c.entries + 1) BY DEF Finished
<1>3. FinishedIn(c, p) = [c EXCEPT !.entries = @ + 1, !.coalescer = r.next] BY DEF FinishedIn
<1>4. EventTyped(x) BY DEF EventTyped, PathEvent
<1> HIDE DEF r, x
<1>5. ViewTyped(g.view) BY <1>4, DeliverTyped
<1> HIDE DEF g
<1>6. ViewTyped(Finished(d, c, p).view) BY <1>1, <1>2, <1>5, DeliverBytesTyped
<1>7. ContextTyped(FinishedIn(c, p)) BY <1>1, <1>3 DEF ContextTyped
<1> QED BY <1>6, <1>7

LEMMA StartedTyped ==
    ASSUME NEW d, ViewTyped(d.view), NEW p \in Paths
    PROVE  ViewTyped(Deliver(d, PathEvent("EntryStarted", p)).view)
<1>1. EventTyped(PathEvent("EntryStarted", p)) BY DEF EventTyped, PathEvent
<1> QED BY <1>1, DeliverTyped

LEMMA ConsumerTyped == ASSUME ViewTyped(view) PROVE ViewTyped(Consumer.view)
BY DEF Consumer

LEMMA PartsInit == JobInit => Parts /\ Scalars
<1> SUFFICES ASSUME JobInit PROVE Parts /\ Scalars OBVIOUS
<1>1. ContextTyped(ctx)
  <2>1. ctx = [bytes |-> 0, entries |-> 0, coalescer |-> NewCoalescer(now)]
    BY DEF JobInit, NewContext
  <2> QED BY <2>1, NewTyped DEF ContextTyped
<1>2. PhasesTyped(phased)
  <2>1. phased = [phase |-> NoPhase, bytes |-> 0, coalescer |-> NewCoalescer(0)]
    BY DEF JobInit
  <2> QED BY <2>1, NewTyped DEF PhasesTyped, MaybePhase
<1>3. WorkTyped(work) BY DEF JobInit, WorkTyped, MaybePath
<1>4. ViewTyped(view)
  BY EmptyRecent DEF JobInit, ViewTyped, MaybePath, MaybePhase, Outcomes
<1>5. Scalars
  <2>1. token \in BOOLEAN BY Zenon DEF JobInit
  <2> QED BY <2>1, JobAssumption DEF JobInit, Scalars, Outcomes
<1> QED BY <1>1, <1>2, <1>3, <1>4, <1>5 DEF Parts

(* One step of the job, whatever the volumes do.                           *)
Moves ==
    /\ UNCHANGED kind
    /\ token' = token \/ token' = TRUE
    /\ now' = now \/ (now < MaxTime /\ now' = now + 1)
    /\ result' \in {result, "completed", "failed", "cancelled"}
    /\ stage' \in {stage, "running", "committing", "committed", "returned", "ended"}

LEMMA JobMoves == JobNext => Moves
<1> SUFFICES ASSUME JobNext PROVE Moves OBVIOUS
<1> USE DEF Moves
<1>1. CASE Tick BY <1>1 DEF Tick
<1>2. CASE Cancel BY <1>2 DEF Cancel
<1>3. CASE PlanFails \/ Start BY <1>3 DEF PlanFails, Start
<1>4. CASE EntryFinished \/ SevenZEntry \/ AllReported BY <1>4 DEF EntryFinished, SevenZEntry, AllReported
<1>5. CASE End BY <1>5 DEF End
<1>6. ASSUME NEW p \in Paths, UnreportedEntry(p) PROVE Moves BY <1>6 DEF UnreportedEntry
<1>a. ASSUME NEW p \in Paths, NEW opened \in BOOLEAN, EntryStarted(p, opened) PROVE Moves
  BY <1>a DEF EntryStarted
<1>b. ASSUME NEW p \in Paths, NEW skipped \in BOOLEAN, CollectSource(p, skipped) PROVE Moves
  BY <1>b DEF CollectSource
<1>7. ASSUME NEW n \in Sizes, BytesProcessed(n) PROVE Moves BY <1>7 DEF BytesProcessed
<1>8. ASSUME NEW ph \in JobPhase, PhaseStarted(ph) PROVE Moves BY <1>8 DEF PhaseStarted
<1>9. ASSUME NEW p \in Paths, NEW n \in Sizes, PlanningBytes(p, n) \/ SevenZRead(p, n) PROVE Moves
  BY <1>9 DEF PlanningBytes, SevenZRead
<1>10. ASSUME NEW p \in Paths, NEW n \in Sizes, NEW last \in BOOLEAN, SourceBytesRead(p, n, last)
       PROVE  Moves
  BY <1>10 DEF SourceBytesRead
<1>11. ASSUME NEW r \in Results, Return(r) PROVE Moves BY <1>11 DEF Return, Results
<1>12. ASSUME NEW r \in Results, WriterReturns(r) PROVE Moves
  <2>1. CASE r = "completed" /\ ~token BY <1>12, <2>1 DEF WriterReturns
  <2>2. CASE ~(r = "completed" /\ ~token) BY <1>12, <2>2 DEF WriterReturns, Results
  <2> QED BY <2>1, <2>2
<1>13. ASSUME NEW r \in Results, CommitReturns(r) PROVE Moves BY <1>13 DEF CommitReturns, Results
<1> HIDE DEF Moves
<1> QED BY <1>1, <1>2, <1>3, <1>4, <1>5, <1>6, <1>7, <1>8, <1>9, <1>10, <1>11, <1>12, <1>13,
           <1>a, <1>b, Zenon DEF JobNext, Results

LEMMA ScalarsStep == Scalars /\ JobNext => Scalars'
<1> SUFFICES ASSUME Scalars, JobNext PROVE Scalars' OBVIOUS
<1>1. Moves BY JobMoves
<1>2. token' \in BOOLEAN
  <2>1. token \in BOOLEAN /\ (token' = token \/ token' = TRUE) BY <1>1, Zenon DEF Scalars, Moves
  <2> QED BY <2>1, Zenon
<1>3. now' \in 0 .. MaxTime BY <1>1, JobAssumption DEF Scalars, Moves
<1> QED BY <1>1, <1>2, <1>3 DEF Scalars, Moves, Outcomes

LEMMA PartsStep == Parts /\ JobNext => Parts'
<1> SUFFICES ASSUME Parts, JobNext PROVE Parts' OBVIOUS
<1>0. ContextTyped(ctx) /\ PhasesTyped(phased) /\ WorkTyped(work) /\ ViewTyped(view)
      /\ ViewTyped(Consumer.view)
  BY ConsumerTyped DEF Parts
<1>1. CASE Tick \/ Cancel \/ \E r \in Results : CommitReturns(r)
  <2>1. UNCHANGED <<ctx, phased, work, view>> BY <1>1 DEF Tick, Cancel, CommitReturns
  <2> QED BY <1>0, <2>1 DEF Parts
<1>2. CASE PlanFails
  <2>1. EventTyped([type |-> "Failed"]) BY DEF EventTyped
  <2>2. UNCHANGED <<ctx, phased, work>> /\ view' = Deliver(Consumer, [type |-> "Failed"]).view
    BY <1>2 DEF PlanFails, Emit
  <2> QED BY <1>0, <2>1, <2>2, DeliverTyped DEF Parts
<1>3. CASE Start
  <2>1. EventTyped([type |-> "Started"]) BY DEF EventTyped
  <2>2. /\ UNCHANGED <<phased, work>> /\ view' = Deliver(Consumer, [type |-> "Started"]).view
        /\ ctx' = [bytes |-> 0, entries |-> 0, coalescer |-> NewCoalescer(now)]
    BY <1>3 DEF Start, Emit, NewContext
  <2>3. ContextTyped(ctx') BY <2>2, NewTyped DEF ContextTyped
  <2> QED BY <1>0, <2>1, <2>2, <2>3, DeliverTyped DEF Parts
<1>4. ASSUME NEW p \in Paths, NEW opened \in BOOLEAN, EntryStarted(p, opened) PROVE Parts'
  <2>1. /\ UNCHANGED phased /\ view' = Deliver(Consumer, PathEvent("EntryStarted", p)).view
        /\ work' = [work EXCEPT !.open = IF opened THEN p ELSE @, !.active = p]
        /\ ctx' \in {ctx, [bytes |-> 0, entries |-> 0, coalescer |-> NewCoalescer(now)]}
    BY <1>4 DEF EntryStarted, Emit, NewContext
  <2>2. ContextTyped(ctx') BY <1>0, <2>1, NewTyped DEF ContextTyped
  <2>3. WorkTyped(work') BY <1>0, <2>1 DEF WorkTyped, MaybePath
  <2> QED BY <1>0, <2>1, <2>2, <2>3, StartedTyped DEF Parts
<1>a. ASSUME NEW p \in Paths, NEW skipped \in BOOLEAN, CollectSource(p, skipped) PROVE Parts'
  <2> DEFINE g == Deliver(Consumer, PathEvent("EntryStarted", p))
  <2>1. /\ UNCHANGED phased /\ view' \in {g.view, Finished(g, ctx, p).view}
        /\ work' = [work EXCEPT !.entries = IF skipped THEN @ + 1 ELSE @]
        /\ ctx' \in {ctx, FinishedIn(ctx, p)}
    BY <1>a DEF CollectSource, Emit
  <2>2. ViewTyped(g.view) BY <1>0, StartedTyped
  <2> HIDE DEF g
  <2>3. WorkTyped(work') BY <1>0, <2>1 DEF WorkTyped
  <2>4. ViewTyped(Finished(g, ctx, p).view) /\ ContextTyped(FinishedIn(ctx, p))
    BY <1>0, <2>2, FinishedTyped
  <2> QED BY <1>0, <2>1, <2>2, <2>3, <2>4 DEF Parts
<1>5. ASSUME NEW p \in Paths, UnreportedEntry(p) PROVE Parts'
  <2> DEFINE g == Deliver(Consumer, PathEvent("EntryStarted", p))
  <2>1. /\ UNCHANGED phased /\ view' = Finished(g, ctx, p).view
        /\ work' = [work EXCEPT !.entries = @ + 1, !.active = p] /\ ctx' = FinishedIn(ctx, p)
    BY <1>5 DEF UnreportedEntry, Emit
  <2>2. ViewTyped(g.view) BY <1>0, StartedTyped
  <2> HIDE DEF g
  <2>3. WorkTyped(work') BY <1>0, <2>1 DEF WorkTyped
  <2> QED BY <1>0, <2>1, <2>2, <2>3, FinishedTyped DEF Parts
<1>6. ASSUME NEW n \in Sizes, BytesProcessed(n) PROVE Parts'
  <2> DEFINE r == Record(ctx.coalescer, work.open, n, 0)
  <2>1. /\ UNCHANGED phased /\ work.open # NoPath
        /\ view' = DeliverBytes(Consumer, r, ctx.bytes + n, ctx.entries).view
        /\ work' = [work EXCEPT !.bytes = @ + n]
        /\ ctx' = [ctx EXCEPT !.bytes = @ + n, !.coalescer = r.next]
    BY <1>6 DEF BytesProcessed, Emit
  <2>2. work.open \in Paths BY <1>0, <2>1 DEF WorkTyped, MaybePath
  <2>3. CoalescerTyped(r.next) /\ CoalescerTyped(r.content)
    BY <1>0, <2>2, RecordTyped DEF ContextTyped
  <2> HIDE DEF r
  <2>4. ContextTyped(ctx') BY <1>0, <2>1, <2>3 DEF ContextTyped
  <2>5. WorkTyped(work') BY <1>0, <2>1 DEF WorkTyped
  <2> QED BY <1>0, <2>1, <2>3, <2>4, <2>5, DeliverBytesTyped DEF Parts
<1>b. CASE SevenZEntry
  <2>1. UNCHANGED <<ctx, phased, view>> /\ work' = [work EXCEPT !.entries = @ + 1]
    BY <1>b DEF SevenZEntry
  <2>2. WorkTyped(work') BY <1>0, <2>1 DEF WorkTyped
  <2> QED BY <1>0, <2>1, <2>2 DEF Parts
<1>c. ASSUME NEW p \in Paths, NEW n \in Sizes, SevenZRead(p, n) PROVE Parts'
  <2> DEFINE r == Record(ctx.coalescer, p, n, 0)
  <2>1. /\ UNCHANGED phased
        /\ view' = DeliverBytes(Consumer, r, ctx.bytes + n, ctx.entries).view
        /\ work' = [work EXCEPT !.bytes = @ + n, !.active = p]
        /\ ctx' = [ctx EXCEPT !.bytes = @ + n, !.coalescer = r.next]
    BY <1>c DEF SevenZRead, Emit
  <2>3. CoalescerTyped(r.next) /\ CoalescerTyped(r.content)
    BY <1>0, RecordTyped DEF ContextTyped
  <2> HIDE DEF r
  <2>4. ContextTyped(ctx') BY <1>0, <2>1, <2>3 DEF ContextTyped
  <2>5. WorkTyped(work') BY <1>0, <2>1 DEF WorkTyped
  <2> QED BY <1>0, <2>1, <2>3, <2>4, <2>5, DeliverBytesTyped DEF Parts
<1>7. CASE EntryFinished
  <2> DEFINE p == work.open
             c == FinishedIn(ctx, p)
             f == Finished(Consumer, ctx, p)
  <2>1. /\ UNCHANGED phased /\ work.open # NoPath
        /\ view' = (IF kind = "each" THEN FlushProgress(f, c) ELSE f).view
        /\ ctx' = IF kind = "each" THEN FlushedContext(c) ELSE c
        /\ work' = [work EXCEPT !.entries = @ + 1, !.open = NoPath]
    BY <1>7 DEF EntryFinished
  <2>2. p \in Paths BY <1>0, <2>1 DEF WorkTyped, MaybePath
  <2>3. ViewTyped(f.view) /\ ContextTyped(c) BY <1>0, <2>2, FinishedTyped
  <2> HIDE DEF f, c
  <2>4. ViewTyped(FlushProgress(f, c).view) /\ ContextTyped(FlushedContext(c))
    BY <2>3, FlushProgressTyped, FlushedTyped
  <2>5. WorkTyped(work') BY <1>0, <2>1 DEF WorkTyped, MaybePath
  <2> QED BY <1>0, <2>1, <2>3, <2>4, <2>5 DEF Parts
<1>8. ASSUME NEW ph \in JobPhase, PhaseStarted(ph) PROVE Parts'
  <2> DEFINE d == FlushPhase(Consumer)
             e == FlushProgress(d, ctx)
             x == [type |-> "PhaseStarted", phase |-> ph]
  <2>1. /\ view' = Deliver(e, x).view
        /\ phased' = [phase |-> ph, bytes |-> 0, coalescer |-> NewCoalescer(now)]
        /\ ctx' = FlushedContext(ctx) /\ work' = [work EXCEPT !.phaseBytes = 0]
    BY <1>8 DEF PhaseStarted, Emit
  <2>2. ViewTyped(d.view) BY <1>0, FlushPhaseTyped
  <2> HIDE DEF d
  <2>3. ViewTyped(e.view) BY <1>0, <2>2, FlushProgressTyped
  <2>4. EventTyped(x) BY DEF EventTyped
  <2> HIDE DEF e, x
  <2>5. PhasesTyped(phased') BY <2>1, NewTyped DEF PhasesTyped, MaybePhase
  <2>6. WorkTyped(work') BY <1>0, <2>1 DEF WorkTyped
  <2> QED BY <1>0, <2>1, <2>3, <2>4, <2>5, <2>6, FlushedTyped, DeliverTyped DEF Parts
<1>9. ASSUME NEW p \in Paths, NEW n \in Sizes, PlanningBytes(p, n) PROVE Parts'
  <2> DEFINE r == Record(phased.coalescer, p, n, 0)
  <2>1. /\ view' = DeliverPhaseBytes(Consumer, r, phased.phase, PhaseTotal(r)).view
        /\ phased' = [phased EXCEPT !.bytes = PhaseTotal(r), !.coalescer = r.next]
        /\ UNCHANGED ctx
        /\ work' = [work EXCEPT !.phaseBytes = @ + n, !.active = IF n > 0 THEN p ELSE @]
    BY <1>9 DEF PlanningBytes, Emit
  <2>2. CoalescerTyped(r.next) /\ CoalescerTyped(r.content) BY <1>0, RecordTyped DEF PhasesTyped
  <2> HIDE DEF r
  <2>3. PhasesTyped(phased') BY <1>0, <2>1, <2>2 DEF PhasesTyped
  <2>4. WorkTyped(work') BY <1>0, <2>1 DEF WorkTyped
  <2>5. phased.phase \in MaybePhase BY <1>0 DEF PhasesTyped
  <2> QED BY <1>0, <2>1, <2>2, <2>3, <2>4, <2>5, DeliverPhaseBytesTyped DEF Parts
<1>10. ASSUME NEW p \in Paths, NEW n \in Sizes, NEW last \in BOOLEAN, SourceBytesRead(p, n, last)
       PROVE  Parts'
  <2> DEFINE pr == Record(phased.coalescer, p, n, 0)
             r  == Record(ctx.coalescer, p, n, 0)
             c  == [ctx EXCEPT !.bytes = @ + n, !.coalescer = r.next]
             d1 == IF work.open = NoPath THEN Deliver(Consumer, PathEvent("EntryStarted", p))
                                         ELSE Consumer
             d2 == DeliverPhaseBytes(d1, pr, phased.phase, PhaseTotal(pr))
             d3 == DeliverBytes(d2, r, c.bytes, c.entries)
  <2>1. /\ view' = (IF last THEN Finished(d3, c, p) ELSE d3).view
        /\ phased' = [phased EXCEPT !.bytes = PhaseTotal(pr), !.coalescer = pr.next]
        /\ ctx' = IF last THEN FinishedIn(c, p) ELSE c
        /\ work' = [work EXCEPT !.bytes = @ + n, !.phaseBytes = @ + n, !.active = p,
                                !.open = IF last THEN NoPath ELSE p,
                                !.entries = IF last THEN @ + 1 ELSE @]
    BY <1>10 DEF SourceBytesRead, Emit
  <2>2. CoalescerTyped(pr.next) /\ CoalescerTyped(pr.content) BY <1>0, RecordTyped DEF PhasesTyped
  <2>3. CoalescerTyped(r.next) /\ CoalescerTyped(r.content) BY <1>0, RecordTyped DEF ContextTyped
  <2> HIDE DEF pr, r
  <2>4. ContextTyped(c) BY <1>0, <2>3 DEF ContextTyped
  <2> HIDE DEF c
  <2>5. ViewTyped(d1.view) BY <1>0, StartedTyped
  <2>6. phased.phase \in MaybePhase BY <1>0 DEF PhasesTyped
  <2> HIDE DEF d1
  <2>7. ViewTyped(d2.view) BY <2>2, <2>5, <2>6, DeliverPhaseBytesTyped
  <2> HIDE DEF d2
  <2>8. ViewTyped(d3.view) BY <2>3, <2>7, DeliverBytesTyped
  <2> HIDE DEF d3
  <2>9. PhasesTyped(phased') BY <1>0, <2>1, <2>2 DEF PhasesTyped
  <2>10. WorkTyped(work')
    <3>1. work'.open = (IF last THEN NoPath ELSE p) /\ DOMAIN work' = DOMAIN work
      BY <1>0, <2>1 DEF WorkTyped
    <3> QED BY <1>0, <3>1 DEF WorkTyped, MaybePath
  <2>11. ViewTyped(Finished(d3, c, p).view) /\ ContextTyped(FinishedIn(c, p))
    BY <2>4, <2>8, FinishedTyped
  <2> QED BY <2>1, <2>4, <2>8, <2>9, <2>10, <2>11 DEF Parts
<1>11. ASSUME NEW r \in Results, Return(r) PROVE Parts'
  <2>1. /\ view' \in {Consumer.view, FlushProgress(Consumer, ctx).view}
        /\ ctx' \in {ctx, FlushedContext(ctx)} /\ UNCHANGED phased
        /\ work' = [work EXCEPT !.open = NoPath]
    BY <1>11 DEF Return, Emit, FlushAtReturn, ContextAtReturn
  <2>2. ViewTyped(FlushProgress(Consumer, ctx).view) BY <1>0, FlushProgressTyped
  <2>3. ContextTyped(FlushedContext(ctx)) BY <1>0, FlushedTyped
  <2>4. WorkTyped(work') BY <1>0, <2>1 DEF WorkTyped, MaybePath
  <2> QED BY <1>0, <2>1, <2>2, <2>3, <2>4 DEF Parts
<1>12. ASSUME NEW r \in Results, WriterReturns(r) PROVE Parts'
  <2> DEFINE d == FlushPhase(Consumer)
             e == FlushProgress(d, ctx)
             x == [type |-> "PhaseStarted", phase |-> "CommittingOutput"]
  <2>1. /\ view' \in {e.view, Deliver(e, x).view} /\ ctx' = FlushedContext(ctx)
        /\ DOMAIN phased' = {"phase", "bytes", "coalescer"}
        /\ phased'.phase \in {phased.phase, "CommittingOutput"}
        /\ phased'.coalescer = PhaseFlush.next
        /\ DOMAIN work' = DOMAIN work /\ work'.open = NoPath
    <3>0. DOMAIN work = {"bytes", "entries", "open", "active", "phaseBytes"}
      BY <1>0 DEF WorkTyped
    <3>1. CASE r = "completed" /\ ~token BY <1>12, <3>0, <3>1 DEF WriterReturns, Emit
    <3>2. CASE ~(r = "completed" /\ ~token) BY <1>12, <3>0, <3>2 DEF WriterReturns, Emit
    <3> QED BY <3>1, <3>2
  <2>2. ViewTyped(d.view) /\ CoalescerTyped(PhaseFlush.next) BY <1>0, FlushPhaseTyped
  <2> HIDE DEF d
  <2>3. ViewTyped(e.view) BY <1>0, <2>2, FlushProgressTyped
  <2>4. EventTyped(x) BY DEF EventTyped, JobPhase
  <2> HIDE DEF e, x
  <2>5. ViewTyped(Deliver(e, x).view) BY <2>3, <2>4, DeliverTyped
  <2>6. phased'.phase \in MaybePhase BY <1>0, <2>1 DEF PhasesTyped, MaybePhase, JobPhase
  <2>7. PhasesTyped(phased') BY <2>1, <2>2, <2>6 DEF PhasesTyped
  <2>8. WorkTyped(work') BY <1>0, <2>1 DEF WorkTyped, MaybePath
  <2> QED BY <1>0, <2>1, <2>3, <2>5, <2>7, <2>8, FlushedTyped DEF Parts
<1>13. CASE AllReported
  <2>1. /\ view' = FlushProgress(Consumer, ctx).view /\ ctx' = FlushedContext(ctx)
        /\ UNCHANGED <<phased, work>>
    BY <1>13 DEF AllReported, Emit
  <2> QED BY <1>0, <2>1, FlushProgressTyped, FlushedTyped DEF Parts
<1>14. CASE End
  <2>1. PICK r, report : /\ view' = Deliver(Consumer, LastEvent(r, report)).view
                         /\ UNCHANGED <<ctx, phased, work>>
    BY <1>14 DEF End, Emit
  <2>2. LastEvent(r, report).type \in {"Completed", "Cancelled", "Failed"} BY DEF LastEvent
  <2>3. EventTyped(LastEvent(r, report)) BY <2>2 DEF EventTyped
  <2> QED BY <1>0, <2>1, <2>3, DeliverTyped DEF Parts
<1> QED BY <1>1, <1>2, <1>3, <1>4, <1>5, <1>6, <1>7, <1>8, <1>9, <1>10, <1>11, <1>12, <1>13, <1>14,
           <1>a, <1>b, <1>c, Zenon DEF JobNext, Results

(* A step of a creation is a step of the job or leaves the job alone.      *)
LEMMA CreateIsJob == ASSUME CreateNext PROVE JobNext \/ UNCHANGED jobVars
<1>1. CASE Job(Tick \/ Cancel \/ PlanFails \/ Start \/ EntryFinished \/ SevenZEntry)
  BY <1>1 DEF Job, JobNext
<1>a. CASE Job(AllReported \/ End) BY <1>a DEF Job, JobNext
<1>2. CASE \E p \in Paths, opened \in BOOLEAN : Job(EntryStarted(p, opened)) BY <1>2 DEF Job, JobNext
<1>b. CASE \E p \in Paths, skipped \in BOOLEAN : Job(BeforeSink(p, skipped))
  BY <1>b DEF Job, BeforeSink, JobNext
<1>c. CASE \E p \in Paths : Job(UnreportedEntry(p)) BY <1>c DEF Job, JobNext
<1>3. CASE \E n \in Sizes : Job(BytesProcessed(n)) BY <1>3 DEF Job, JobNext
<1>4. CASE \E ph \in JobPhase : Job(OpenedBefore(ph)) BY <1>4 DEF Job, OpenedBefore, JobNext
<1>5. CASE \E p \in Paths, n \in Sizes : Job(PlanningBytes(p, n) \/ BeforeSplit(p, n))
  BY <1>5 DEF Job, BeforeSplit, JobNext
<1>6. CASE \E p \in Paths, n \in Sizes, last \in BOOLEAN : Job(SourceBytesRead(p, n, last))
  BY <1>6 DEF Job, JobNext
<1>7. CASE \E r \in Results : Job(SplitReturns(r)) \/ FillReturns(r) \/ CommitSinkReturns(r)
  BY <1>7 DEF Job, SplitReturns, FillReturns, CommitSinkReturns, JobNext, Results
<1>8. CASE Volumes(SplitArchive \/ FillSink \/ CommitSink) \/ \E p \in Path : Volumes(Intrude(p))
  BY <1>8 DEF Volumes
<1> QED BY <1>1, <1>a, <1>2, <1>b, <1>c, <1>3, <1>4, <1>5, <1>6, <1>7, <1>8, Zenon DEF CreateNext

LEMMA TypesStep == Parts /\ Scalars /\ [CreateNext]_allVars => Parts' /\ Scalars'
<1> SUFFICES ASSUME Parts, Scalars, [CreateNext]_allVars PROVE Parts' /\ Scalars' OBVIOUS
<1>1. CASE JobNext BY <1>1, PartsStep, ScalarsStep
<1>2. CASE UNCHANGED jobVars
  <2>1. UNCHANGED <<kind, stage, result, token, now, ctx, phased, view, work>>
    BY <1>2 DEF jobVars
  <2>2. token' \in BOOLEAN BY <2>1, Zenon DEF Scalars
  <2> QED BY <2>1, <2>2 DEF Parts, Scalars
<1> QED BY <1>1, <1>2, CreateIsJob DEF allVars

(* Every variable of a creation keeps its type, and neither the coalescer  *)
(* nor the consumer ever keeps more recent paths than the limit: for any   *)
(* paths, limits, archives and volumes.                                    *)
THEOREM CreateTypeCorrect == CreateSpec => []CreateTypeOK
<1> DEFINE Inv == VolInv /\ Parts /\ Scalars
<1>1. CreateInit => Inv BY VolInvInit, PartsInit DEF CreateInit
<1>2. Inv /\ [CreateNext]_allVars => Inv' BY VolInvStep, TypesStep
<1>3. Inv => CreateTypeOK
  <2> SUFFICES ASSUME VolInv, Parts, Scalars PROVE CreateTypeOK OBVIOUS
  <2>1. VolumeTypeOK BY DEF VolInv
  <2>2. token \in BOOLEAN BY Zenon DEF Scalars
  <2>3. JobTypeOK
    BY <2>2 DEF JobTypeOK, Scalars, Parts, ViewTyped, ContextTyped, CoalescerTyped, RecentOK,
               MaybePath, MaybePhase
  <2> QED BY <2>1, <2>3 DEF CreateTypeOK
<1> QED BY <1>1, <1>2, <1>3, PTL DEF CreateSpec

----------------------------------------------------------------------------
(* The job and its volumes *)

(* A writer that returned has stopped, and what it returned is what it did *)
(* to the directory.                                                       *)
Together ==
    /\ stage = "idle" \/ kind \notin CreateKinds => vpc = "idle"
    /\ stage = "running" /\ kind = "tzap" => vpc \in {"idle", "listed", "writing", "failed"}
    /\ stage \in {"committed", "returned", "ended"} => vpc \in {"idle", "done", "failed"}
    /\ result = "completed" => vpc \in {"idle", "done"}
    /\ result = "cancelled" => Untouched

LEMMA TogetherInit == CreateInit => Together
BY DEF CreateInit, JobInit, VolumeInit, Together

LEMMA UntouchedKept == ASSUME UNCHANGED <<dir, found>> PROVE Untouched' <=> Untouched
BY DEF Untouched

LEMMA TogetherStep == JobInv /\ VolInv /\ Together /\ [CreateNext]_allVars => Together'
<1> SUFFICES ASSUME JobInv, VolInv, Together, [CreateNext]_allVars PROVE Together' OBVIOUS
<1> USE DEF CreateKinds
<1>a. ASSUME UNCHANGED volumeVars PROVE UNCHANGED vpc /\ (Untouched' <=> Untouched)
  BY <1>a, UntouchedKept DEF volumeVars
<1>b. ASSUME UNCHANGED jobVars PROVE UNCHANGED <<kind, stage, result>>
  BY <1>b DEF jobVars
<1>c. ASSUME Dropped PROVE vpc' = (IF vpc = "idle" THEN "idle" ELSE "failed") /\ (Untouched' <=> Untouched)
  BY <1>c, UntouchedKept DEF Dropped
<1>d. vpc \in {"idle", "listed", "writing"} => Untouched
  BY DEF VolInv, Position
<1>e. stage \in {"idle", "running", "committing"} => result = "none"
  BY DEF JobInv, OutcomeTold
<1>f. stage \in {"committing", "committed"} => kind = "tzap"
  BY DEF JobInv, FlushedAt
<1>1. CASE UNCHANGED allVars
  BY <1>1, <1>a, <1>b DEF allVars, Together
<1>2. CASE \/ Job(Tick \/ Cancel \/ PlanFails \/ Start \/ EntryFinished \/ SevenZEntry)
           \/ Job(AllReported \/ End)
  <2>1. UNCHANGED volumeVars /\ UNCHANGED kind
    BY <1>2 DEF Job, Tick, Cancel, PlanFails, Start, EntryFinished, SevenZEntry, AllReported, End
  <2>2. \/ UNCHANGED <<stage, result>>
        \/ stage = "idle" /\ result' \in {"none", "failed"} /\ stage' \in {"running", "ended"}
        \/ stage \in {"committed", "returned"} /\ stage' \in {"returned", "ended"} /\ result' \in {result, "failed"}
    BY <1>2, <1>e DEF Job, Tick, Cancel, PlanFails, Start, EntryFinished, SevenZEntry, AllReported, End
  <2> QED BY <1>a, <2>1, <2>2 DEF Together
<1>3. CASE \/ \E p \in Paths, opened \in BOOLEAN : Job(EntryStarted(p, opened))
           \/ \E p \in Paths, skipped \in BOOLEAN : Job(BeforeSink(p, skipped))
           \/ \E p \in Paths : Job(UnreportedEntry(p))
           \/ \E n \in Sizes : Job(BytesProcessed(n))
           \/ \E ph \in JobPhase : Job(OpenedBefore(ph))
           \/ \E p \in Paths, n \in Sizes : Job(PlanningBytes(p, n) \/ BeforeSplit(p, n))
           \/ \E p \in Paths, n \in Sizes, last \in BOOLEAN : Job(SourceBytesRead(p, n, last))
  <2>1. UNCHANGED volumeVars /\ UNCHANGED <<kind, stage, result>>
    <3>1. CASE \E p \in Paths, opened \in BOOLEAN : Job(EntryStarted(p, opened))
      BY <3>1 DEF Job, EntryStarted
    <3>6. CASE \E p \in Paths, skipped \in BOOLEAN : Job(BeforeSink(p, skipped))
      BY <3>6 DEF Job, BeforeSink, CollectSource
    <3>7. CASE \E p \in Paths : Job(UnreportedEntry(p))
      BY <3>7 DEF Job, UnreportedEntry
    <3>2. CASE \E n \in Sizes : Job(BytesProcessed(n))
      BY <3>2 DEF Job, BytesProcessed
    <3>3. CASE \E ph \in JobPhase : Job(OpenedBefore(ph))
      BY <3>3 DEF Job, OpenedBefore, PhaseStarted
    <3>4. CASE \E p \in Paths, n \in Sizes : Job(PlanningBytes(p, n) \/ BeforeSplit(p, n))
      BY <3>4 DEF Job, BeforeSplit, PlanningBytes, SevenZRead
    <3>5. CASE \E p \in Paths, n \in Sizes, last \in BOOLEAN : Job(SourceBytesRead(p, n, last))
      BY <3>5 DEF Job, SourceBytesRead
    <3> QED BY <1>3, <3>1, <3>2, <3>3, <3>4, <3>5, <3>6, <3>7, Zenon
  <2> QED BY <1>a, <2>1 DEF Together
<1>4. ASSUME NEW r \in Results, Job(SplitReturns(r)) PROVE Together'
  <2>1. /\ UNCHANGED volumeVars /\ UNCHANGED kind /\ stage = "running" /\ kind # "tzap"
        /\ stage' = "returned" /\ result' = r
        /\ kind \in {"create", "sevenz"} =>
              \/ vpc = "idle"
              \/ vpc = "done" /\ r = "completed"
              \/ vpc = "failed" /\ r = "failed"
    BY <1>4 DEF Job, SplitReturns, Return, SplitKinds
  <2> QED BY <1>a, <1>d, <2>1 DEF Together
<1>5. ASSUME NEW r \in Results, FillReturns(r) PROVE Together'
  <2>1. /\ UNCHANGED kind /\ stage = "running" /\ kind = "tzap"
        /\ r = "cancelled" => vpc # "failed"
        /\ r = "completed" => vpc = "writing"
        /\ IF stage' = "committing" THEN UNCHANGED volumeVars ELSE Dropped
        /\ stage' \in {"committing", "returned"}
        /\ stage' = "committing" => result' = result
        /\ stage' = "returned" => \/ result' = r /\ r # "completed"
                                  \/ result' = "cancelled" /\ r = "completed"
    BY <1>5 DEF FillReturns, WriterReturns, Results
  <2>2. CASE stage' = "committing" BY <1>a, <1>e, <2>1, <2>2 DEF Together
  <2>3. CASE stage' = "returned" BY <1>c, <1>d, <2>1, <2>3 DEF Together
  <2> QED BY <2>1, <2>2, <2>3
<1>6. ASSUME NEW r \in Results, CommitSinkReturns(r) PROVE Together'
  <2>1. /\ UNCHANGED kind /\ stage = "committing" /\ kind = "tzap" /\ CommitEnds(r)
        /\ stage' = (IF r = "completed" THEN "committed" ELSE "returned") /\ result' = r
        /\ IF r = "cancelled" THEN Dropped ELSE UNCHANGED volumeVars
    BY <1>6, <1>f DEF CommitSinkReturns, CommitReturns
  <2>2. CASE r = "cancelled" BY <1>c, <1>d, <2>1, <2>2 DEF Together, CommitEnds
  <2>3. CASE r # "cancelled" BY <1>a, <2>1, <2>3 DEF Together, CommitEnds, Results
  <2> QED BY <2>2, <2>3
<1>7. CASE Volumes(SplitArchive \/ FillSink \/ CommitSink)
  <2>1. UNCHANGED <<kind, stage, result>> BY <1>7, <1>b DEF Volumes
  <2>2. CASE SplitArchive
    BY <1>e, <2>1, <2>2 DEF SplitArchive, AllEntriesWritten, SplitKinds, Together
  <2>3. CASE FillSink
    <3>1. vpc' \in {"listed", "writing", "failed"}
      BY <2>3 DEF FillSink, ListVolumes, EnsureAvailable, WriteVolume, WriterFails
    <3> QED BY <1>e, <2>1, <2>3, <3>1 DEF FillSink, InWriter, Together
  <2>4. CASE CommitSink
    BY <1>e, <1>f, <2>1, <2>4 DEF CommitSink, Together
  <2> QED BY <1>7, <2>2, <2>3, <2>4 DEF Volumes
<1>8. ASSUME NEW q \in Path, Volumes(Intrude(q)) PROVE Together'
  <2>1. /\ UNCHANGED <<kind, stage, result, vpc>> /\ vpc \notin {"idle", "done", "failed"}
    BY <1>8, <1>b DEF Volumes, Intrude
  <2>2. result = "none"
    BY <1>e, <2>1 DEF Together, JobInv, Shapes
  <2> QED BY <2>1, <2>2 DEF Together
<1> QED BY <1>1, <1>2, <1>3, <1>4, <1>5, <1>6, <1>7, <1>8, Zenon DEF CreateNext

(* What is reported to the caller is what happened to the destination.     *)
LEMMA OutcomeHolds == JobInv /\ VolInv /\ Together => OutcomeIsTrue
<1> SUFFICES ASSUME JobInv, VolInv, Together PROVE OutcomeIsTrue OBVIOUS
<1>1. ASSUME view.outcome = "completed", vpc # "idle"
      PROVE  \A p \in VolumePaths(req.format, Count(req)) : dir[p] = "new"
  <2>1. vpc = "done" BY <1>1 DEF JobInv, OutcomeTold, Together
  <2>2. committed = Count(req) /\ written = Count(req)
    BY <2>1 DEF VolInv, Position, VolumesWritten
  <2> QED BY <2>1, <2>2 DEF VolInv, NewPlaced, VolumePaths
<1>2. ASSUME view.outcome = "cancelled" PROVE Untouched
  BY <1>2 DEF JobInv, OutcomeTold, Together
<1>3. ASSUME view.outcome = "failed", vpc # "idle", written < Count(req) PROVE Untouched
  <2>1. stage = "ended" BY <1>3 DEF JobInv, OutcomeTold
  <2>2. vpc = "failed"
    BY <1>3, <2>1, Typed, PathFacts DEF Together, VolInv, Position, VolumesWritten
  <2> QED BY <1>3, <2>2 DEF VolInv, Position
<1> QED BY <1>1, <1>2, <1>3 DEF OutcomeIsTrue, Untouched

(* A creation in volumes leaves one archive at every moment, the one its   *)
(* caller was told of, and a reader gets it back: for every archive, size  *)
(* of a volume and number of volumes, with every failure, cancellation and *)
(* intrusion.  There are two exceptions.  A 7z set of more volumes than    *)
(* three digits number is neither read back nor listed for replacement     *)
(* (NeverMixed and ReadsBack exclude it).  A bare file name of a ZIP or 7z *)
(* creation makes existing_volume_paths list nothing: see create_bare.     *)
THEOREM DestinationTrue == CreateSpec => []((vpc # "idle" => Lists) => DestinationIsTrue)
<1> DEFINE Inv == JobInv /\ VolInv /\ Together
<1>1. CreateInit => Inv BY JobInvInit, VolInvInit, TogetherInit DEF CreateInit
<1>2. Inv /\ [CreateNext]_allVars => Inv' BY JobInvStep, VolInvStep, TogetherStep
<1>3. Inv => ((vpc # "idle" => Lists) => DestinationIsTrue)
  <2> SUFFICES ASSUME Inv, vpc # "idle" => Lists PROVE DestinationIsTrue OBVIOUS
  <2>1. NeverMixed
    <3>1. CASE vpc = "idle" BY <3>1 DEF VolInv, NewPlaced, NeverMixed
    <3>2. CASE vpc # "idle" BY <3>2 DEF VolInv
    <3> QED BY <3>1, <3>2
  <2>2. ReadsBack
    <3>1. CASE vpc = "idle" BY <3>1 DEF ReadsBack
    <3>2. CASE vpc # "idle" BY <3>2, ReadsBackHolds
    <3> QED BY <3>1, <3>2
  <2> QED BY <2>1, <2>2, OutcomeHolds DEF DestinationIsTrue
<1> QED BY <1>1, <1>2, <1>3, PTL DEF CreateSpec
============================================================================
