-------------------------- MODULE DeviceManagerProofs --------------------------
(* Theorems about DeviceManager and their proofs.                          *)
EXTENDS DeviceManager, SequenceTheorems, TLAPS

(* Where the main thread can be, and where a scan thread can. *)
MainAt ==
  {"idle", "cancelTest", "cancelClear", "cancelRead", "join", "terminate", "flush",
   "close", "openDb", "startPool", "startTest", "startCreate", "startReset",
   "startSet", "startPush"}

(* A scan thread in onScanTerminated, before the pool is freed and after. *)
Freeing == {"drain", "forget", "flush", "saveRest", "exit", "ended"}
Quitting == {"terminate"} \cup Freeing

(* A scan thread in its loop; in startScanFolder it holds a folder still. *)
Creating == {"startCreate", "startReset", "startSet"}
Enumerating ==
  {"read", "found", "push", "queue", "hung", "startTest", "startPush"} \cup Creating
Scanning == {"open"} \cup Enumerating

(* No device was ever scanned; then nothing else has happened either. *)
NotStarted ==
  /\ ~runThread
  /\ pc[Main] \in {"idle", "cancelTest", "terminate", "flush", "close", "openDb", "startPool"}

Starting == {"startTest", "startCreate", "startReset", "startSet", "startPush"}

(***************************************************************************)
(* The threads.  The main thread gets past cancelScan only when nothing    *)
(* was started, for otherwise it waits for a thread that ends the process. *)
(* A second scan thread is created only while the main thread waits, by    *)
(* the first one, in startScanFolder with the flag clear; the flag is set  *)
(* again after it, and stays set.  So at most one thread sees it clear and *)
(* leaves its loop.                                                        *)
(***************************************************************************)
ThreadInv ==
  /\ pc[Main] \in MainAt
  /\ \A t \in ScanThreads : pc[t] \in {"unborn", "test", "pop"} \cup Scanning \cup Quitting
  /\ \A t \in ScanThreads : pc[t] = "ended" => exited
  /\ NotStarted \/ pc[Main] \in {"startTest", "startCreate"}
       => \A t \in ScanThreads : pc[t] = "unborn"
  /\ pc[Main] \in {"terminate", "flush", "close", "openDb", "startPool", "startTest",
                   "startCreate", "startReset", "startSet"} => ~runThread
  /\ pc[Main] \in {"startPush", "cancelClear"} => runThread
  /\ pc[Main] \in {"startReset", "startSet"} =>
       \A t \in ScanThreads : pc[t] \in {"unborn", "test"} \cup Quitting
  /\ runThread \/ pc[Main] \in {"startReset", "startSet", "cancelRead", "join"}
       => thread # NoThread
  /\ pc[Main] = "join" => joined # NoThread
  /\ \A t \in ScanThreads : pc[t] \in Creating =>
       ~runThread /\ pc[Main] \in {"cancelRead", "join"}
  /\ \A s, t \in ScanThreads : s # t /\ pc[s] # "unborn" /\ pc[t] # "unborn" =>
       /\ pc[Main] \in {"cancelRead", "join"}
       /\ \/ runThread
          \/ pc[s] \in {"startReset", "startSet"} /\ pc[t] \in {"test"} \cup Quitting
          \/ pc[t] \in {"startReset", "startSet"} /\ pc[s] \in {"test"} \cup Quitting
  /\ \A s, t \in ScanThreads : pc[s] \in Quitting /\ pc[t] \in Quitting => s = t

(* Nobody extracts or saves. *)
Quiet == tasks = << >> /\ \A w \in Workers : at[w] = "idle"

(***************************************************************************)
(* The pool belongs to the one scan thread that left its loop: it alone    *)
(* frees it, and after that nobody extracts or saves.  The database is     *)
(* open, and stays so, once anything was started.                          *)
(***************************************************************************)
PoolInv ==
  /\ NotStarted => pool = "null" /\ queued = << >>
  /\ ~NotStarted /\ (\A t \in ScanThreads : pc[t] \notin Freeing) => pool = "open"
  /\ pool \in {"null", "gone"} => Quiet
  /\ \A t \in ScanThreads :
       /\ pc[t] = "drain" => pool = "closing"
       /\ pc[t] = "forget" => pool = "gone"
       /\ pc[t] \in {"flush", "saveRest", "exit"} => pool = "null"
  /\ \A w \in Workers : at[w] # "batch" => batch[w] = << >>
  /\ \A t \in Callers : pc[t] # "saveRest" => batch[t] = << >>
  /\ ~NotStarted \/ pc[Main] = "startPool" => conn = "open" /\ db \in Devices

(* What a file is pushed from, and the next device, is there. *)
NamesInv ==
  /\ pc[Main] # "idle" => devicePath \in Folders /\ deviceId \in Devices
  /\ \A t \in ScanThreads : pc[t] \in {"push", "queue"} => entry[t] \in MediaFiles

(* The steps of a caller t, of the main thread alone, and of a worker. *)
CallerStep(t) == StartScanFolder(t) \/ Terminate(t) \/ Flush(t) \/ SaveRest(t)
LoopStep(t) ==
  ScanThread(t) \/ FileFound(t) \/ PushFound(t) \/ QueueFound(t) \/ Undefined(t) \/ Exit(t)
MainOnly ==
  \/ \E d \in Devices : HandleDeviceInserted(d)
  \/ CancelScan \/ CloseDatabase \/ OpenDatabase \/ StartPool

(* Every step is one of these. *)
LEMMA StepCases ==
  ASSUME [Next]_vars
  PROVE  \/ /\ ~exited
            /\ \/ MainOnly
               \/ \E t \in Callers : CallerStep(t)
               \/ \E t \in ScanThreads : LoopStep(t)
               \/ \E w \in Workers : WorkerStep(w)
         \/ UNCHANGED vars
  BY DEF Next, Step, MainStep, ScanStep, CallerStep, LoopStep, MainOnly, Callers

(* A folder, an entry and a file exist. *)
LEMMA SomeEntry == /\ (CHOOSE d \in Folders : TRUE) \in Folders
                   /\ (CHOOSE e \in Entries : TRUE) \in Entries
                   /\ (CHOOSE f \in MediaFiles : TRUE) \in MediaFiles
                   /\ \A d \in Folders : Contents[d] \subseteq Entries
  BY ContentsAssumption, DevicesAssumption DEF Entries

(* Init establishes the types. *)
LEMMA TypeInit == Init => TypeOK /\ NamesInv
  <1> SUFFICES ASSUME Init
               PROVE  TypeOK /\ NamesInv
    OBVIOUS
  <1>1. /\ folder \in [ScanThreads -> Folders]
        /\ entry \in [ScanThreads -> Entries]
        /\ startFolder \in [Callers -> Folders]
        /\ task \in [Workers -> MediaFiles]
    BY SomeEntry DEF Init, ScannerInit, PoolInit
  <1>2. pc \in [Callers -> CallerLocations] /\ unread \in [ScanThreads -> SUBSET Entries]
    BY DEF Init, ScannerInit, CallerLocations
  <1>3. /\ foldersToScan \in Seq(Folders) /\ tasks \in Seq(MediaFiles)
        /\ queued \in Seq(MediaFiles) /\ batch \in [Savers -> Seq(MediaFiles)]
    BY EmptySeq DEF Init, ScannerInit, PoolInit
  <1>4. insertions \in 0..MaxInsertions
    BY BoundsAssumption DEF Init
  <1>5. /\ object \in [MediaFiles -> {"none", "live", "freed"}]
        /\ stored \in [Devices -> SUBSET MediaFiles]
        /\ at \in [Workers -> {"idle", "extract", "save", "batch"}]
        /\ poolThreads \subseteq Workers
    BY DEF Init, PoolInit
  <1>6. NamesInv
    BY CallersAssumption DEF Init, ScannerInit, NamesInv, Callers
  <1> QED
    BY <1>1, <1>2, <1>3, <1>4, <1>5, <1>6 DEF Init, ScannerInit, PoolInit, TypeOK

(* A transaction keeps the types. *)
LEMMA SaveBatchType ==
  ASSUME TypeOK, NEW t \in Savers, SaveBatch(t)
  PROVE  /\ object' \in [MediaFiles -> {"none", "live", "freed"}]
         /\ stored' \in [Devices -> SUBSET MediaFiles]
         /\ batch' \in [Savers -> Seq(MediaFiles)] /\ batch'[t] = << >>
         /\ \A s \in Savers \ {t} : batch'[s] = batch[s]
         /\ UNCHANGED queued
  <1>1. PICK F, S \in SUBSET (IF conn = "open" THEN Range(batch[t]) ELSE {}) :
          /\ object' = [f \in MediaFiles |-> IF f \in F THEN "freed" ELSE object[f]]
          /\ stored' = IF db \in Devices THEN [stored EXCEPT ![db] = @ \cup S]
                       ELSE stored
    BY DEF SaveBatch
  <1>2. Range(batch[t]) \subseteq MediaFiles
    BY ElementOfSeq DEF TypeOK, Range
  <1>3. S \subseteq MediaFiles
    BY <1>2
  <1>4. << >> \in Seq(MediaFiles)
    BY EmptySeq
  <1>5. object' \in [MediaFiles -> {"none", "live", "freed"}]
    BY <1>1 DEF TypeOK
  <1>6. stored' \in [Devices -> SUBSET MediaFiles]
    BY <1>1, <1>3 DEF TypeOK
  <1> QED
    BY <1>4, <1>5, <1>6 DEF TypeOK, SaveBatch

(* Every step keeps the types. *)
LEMMA TypeStep ==
  ASSUME TypeOK, NamesInv, [Next]_vars
  PROVE  TypeOK' /\ NamesInv'
  <1> USE CallersAssumption, WorkersAssumption
      DEF TypeOK, NamesInv, GoTo, Callers, Savers, threadVars, enumVars, poolVars,
          deviceVars, storeVars, scanVars, Unused
  <1>1. ASSUME NEW d \in Devices, HandleDeviceInserted(d)
        PROVE  TypeOK' /\ NamesInv'
    BY <1>1, DevicesAssumption, BoundsAssumption DEF HandleDeviceInserted, CallerLocations
  <1>2. CASE CancelScan
    <2>1. CASE CancelTest
      BY <1>2, <2>1 DEF CancelScan, CancelTest, CallerLocations
    <2>2. CASE CancelClear
      BY <1>2, <2>2 DEF CancelScan, CancelClear, CallerLocations
    <2>3. CASE CancelRead
      BY <1>2, <2>3 DEF CancelScan, CancelRead, CallerLocations
    <2>4. CASE CancelJoin
      BY <1>2, <2>4 DEF CancelScan, CancelJoin, CallerLocations
    <2> QED
      BY <1>2, <2>1, <2>2, <2>3, <2>4 DEF CancelScan
  <1>3. CASE CloseDatabase
    BY <1>3 DEF CloseDatabase, CallerLocations
  <1>4. CASE OpenDatabase
    BY <1>4 DEF OpenDatabase, CallerLocations
  <1>5. CASE StartPool
    BY <1>5 DEF StartPool, PoolStart, CallerLocations
  <1>6. ASSUME NEW t \in Callers, StartScanFolder(t)
        PROVE  TypeOK' /\ NamesInv'
    <2>1. CASE StartTest(t)
      BY <1>6, <2>1 DEF StartScanFolder, StartTest, CallerLocations
    <2>2. CASE StartCreate(t)
      <3>1. PICK u \in ScanThreads :
              /\ thread' = u
              /\ pc' = [pc EXCEPT ![u] = "test", ![t] = "startReset"]
        BY <2>2 DEF StartCreate
      <3>2. /\ UNCHANGED <<runThread, joined, foldersToScan, startFolder>>
            /\ UNCHANGED <<folder, unread, entry>>
        BY <2>2 DEF StartCreate
      <3>3. pc' \in [Callers -> CallerLocations]
        BY <3>1 DEF CallerLocations
      <3>4. pc[t] = "startCreate" /\ UNCHANGED <<devicePath, deviceId>>
        BY <1>6, <2>2 DEF StartScanFolder, StartCreate
      <3>5. /\ pc'[Main] # "idle" => pc[Main] # "idle"
            /\ \A s \in ScanThreads : pc'[s] \in {"push", "queue"} => pc'[s] = pc[s]
        BY <3>1, <3>4
      <3>6. NamesInv'
        BY <3>2, <3>4, <3>5
      <3> QED
        BY <1>6, <3>1, <3>2, <3>3, <3>6 DEF StartScanFolder
    <2>3. CASE StartReset(t)
      BY <1>6, <2>3 DEF StartScanFolder, StartReset, CallerLocations
    <2>4. CASE StartSet(t)
      BY <1>6, <2>4 DEF StartScanFolder, StartSet, CallerLocations
    <2>5. CASE StartPush(t)
      BY <1>6, <2>5, AppendProperties DEF StartScanFolder, StartPush, CallerLocations
    <2> QED
      BY <1>6, <2>1, <2>2, <2>3, <2>4, <2>5 DEF StartScanFolder
  <1>7. ASSUME NEW t \in Callers, Terminate(t)
        PROVE  TypeOK' /\ NamesInv'
    <2>1. pc' \in [Callers -> CallerLocations]
      BY <1>7 DEF Terminate, CallerLocations
    <2>2. pool' \in {"null", "open", "closing", "gone"} /\ poolThreads' \subseteq Workers
      BY <1>7 DEF Terminate, PoolFree, PoolDrained, PoolForget
    <2>3. UNCHANGED <<tasks, task, at>>
      BY <1>7 DEF Terminate, PoolFree, PoolDrained, PoolForget
    <2>4. /\ UNCHANGED <<runThread, thread, joined, foldersToScan, folder, unread, entry>>
          /\ UNCHANGED <<startFolder, deviceId, devicePath, insertions, conn, db>>
          /\ UNCHANGED <<queued, batch, object, stored, handled, exited>>
      BY <1>7 DEF Terminate
    <2>5. NamesInv'
      BY <1>7, <2>4 DEF Terminate
    <2> QED
      BY <2>1, <2>2, <2>3, <2>4, <2>5
  <1>8. ASSUME NEW t \in Callers, Flush(t)
        PROVE  TypeOK' /\ NamesInv'
    <2>1. pc' \in [Callers -> CallerLocations]
      BY <1>8 DEF Flush, AfterFlush, CallerLocations
    <2>2. batch' \in [Savers -> Seq(MediaFiles)]
      BY <1>8 DEF Flush
    <2>3. NamesInv'
      BY <1>8 DEF Flush, AfterFlush
    <2> QED
      BY <1>8, <2>1, <2>2, <2>3 DEF Flush
  <1>9. ASSUME NEW t \in Callers, SaveRest(t)
        PROVE  TypeOK' /\ NamesInv'
    <2>1. /\ object' \in [MediaFiles -> {"none", "live", "freed"}]
          /\ stored' \in [Devices -> SUBSET MediaFiles]
          /\ batch' \in [Savers -> Seq(MediaFiles)]
          /\ UNCHANGED queued
      BY <1>9, SaveBatchType DEF SaveRest
    <2> QED
      BY <1>9, <2>1 DEF SaveRest, AfterFlush, CallerLocations
  <1>10. ASSUME NEW t \in ScanThreads, ScanThread(t)
         PROVE  TypeOK' /\ NamesInv'
    <2>1. CASE ScanTest(t)
      BY <1>10, <2>1 DEF ScanThread, ScanTest, CallerLocations
    <2>2. CASE ScanPop(t)
      BY <1>10, <2>2, HeadTailProperties DEF ScanThread, ScanPop, CallerLocations
    <2>3. CASE ScanOpen(t)
      <3>1. pc' \in [Callers -> CallerLocations] /\ pc'[Main] = pc[Main]
        BY <2>3 DEF ScanOpen, CallerLocations
      <3>2. unread' \in [ScanThreads -> SUBSET Entries]
        BY <2>3, SomeEntry DEF ScanOpen
      <3>3. NamesInv'
        BY <1>10, <2>3 DEF ScanThread, ScanOpen
      <3> QED
        BY <1>10, <2>3, <3>1, <3>2, <3>3 DEF ScanThread, ScanOpen
    <2>4. CASE ScanRead(t)
      BY <1>10, <2>4 DEF ScanThread, ScanRead, CallerLocations
    <2>5. CASE ScanEnd(t)
      BY <1>10, <2>5 DEF ScanThread, ScanEnd, CallerLocations
    <2> QED
      BY <1>10, <2>1, <2>2, <2>3, <2>4, <2>5 DEF ScanThread
  <1>11. ASSUME NEW t \in ScanThreads, FileFound(t)
         PROVE  TypeOK' /\ NamesInv'
    <2>1. pc' \in [Callers -> CallerLocations]
      <3>1. pc' \in {pc, [pc EXCEPT ![t] = "read"], [pc EXCEPT ![t] = "startTest"],
                     [pc EXCEPT ![t] = "push"]}
        BY <1>11 DEF FileFound
      <3>2. {"read", "startTest", "push"} \subseteq CallerLocations
        BY DEF CallerLocations
      <3> QED
        BY <3>1, <3>2
    <2>2. startFolder' \in [Callers -> Folders]
      BY <1>11 DEF FileFound
    <2>4. handled' \subseteq Entries
      BY <1>11 DEF FileFound
    <2>3. NamesInv'
      BY <1>11, DevicesAssumption DEF FileFound
    <2> QED
      BY <1>11, <2>1, <2>2, <2>3, <2>4 DEF FileFound
  <1>12. ASSUME NEW t \in ScanThreads, PushFound(t)
         PROVE  TypeOK' /\ NamesInv'
    <2>1. /\ pc[t] = "push"
          /\ pc' = [pc EXCEPT ![t] = "read"] \/ pc' = [pc EXCEPT ![t] = "queue"]
      BY <1>12 DEF PushFound
    <2>2. pc' \in [Callers -> CallerLocations]
      <3>1. CASE pc' = [pc EXCEPT ![t] = "read"]
        BY <3>1 DEF CallerLocations
      <3>2. CASE pc' = [pc EXCEPT ![t] = "queue"]
        BY <3>2 DEF CallerLocations
      <3> QED
        BY <2>1, <3>1, <3>2
    <2>3. NamesInv'
      BY <1>12, <2>1 DEF PushFound
    <2> QED
      BY <1>12, <2>2, <2>3 DEF PushFound
  <1>18. ASSUME NEW t \in ScanThreads, QueueFound(t)
         PROVE  TypeOK' /\ NamesInv'
    <2>1. tasks' \in Seq(MediaFiles)
      BY <1>18, AppendProperties DEF QueueFound, PushFile
    <2>2. poolThreads' \subseteq Workers
      BY <1>18 DEF QueueFound, PushFile
    <2>3. NamesInv'
      BY <1>18 DEF QueueFound
    <2> QED
      BY <1>18, <2>1, <2>2, <2>3 DEF QueueFound, PushFile, CallerLocations
  <1>19. ASSUME NEW t \in ScanThreads, Undefined(t)
         PROVE  TypeOK' /\ NamesInv'
    <2>1. pc' \in {pc, [pc EXCEPT ![t] = "read"], [pc EXCEPT ![t] = "hung"]}
      BY <1>19 DEF Undefined
    <2>2. {"read", "hung"} \subseteq CallerLocations
      BY DEF CallerLocations
    <2>3. pc' \in [Callers -> CallerLocations]
      BY <2>1, <2>2
    <2>4. NamesInv'
      BY <1>19, <2>1 DEF Undefined
    <2> QED
      BY <1>19, <2>3, <2>4 DEF Undefined
  <1>13. ASSUME NEW t \in ScanThreads, Exit(t)
         PROVE  TypeOK' /\ NamesInv'
    BY <1>13 DEF Exit, CallerLocations
  <1>14. ASSUME NEW w \in Workers, Extract(w)
         PROVE  TypeOK' /\ NamesInv'
    <2>1. CASE TakeTask(w)
      BY <1>14, <2>1, HeadTailProperties DEF Extract, TakeTask
    <2>2. CASE ProcessFile(w)
      BY <1>14, <2>2 DEF Extract, ProcessFile
    <2> QED
      BY <1>14, <2>1, <2>2 DEF Extract
  <1>15. ASSUME NEW w \in Workers, FileMetadataExtracted(w)
         PROVE  TypeOK' /\ NamesInv'
    <2>1. Append(queued, task[w]) \in Seq(MediaFiles) /\ << >> \in Seq(MediaFiles)
      BY AppendProperties, EmptySeq
    <2> QED
      BY <1>15, <2>1 DEF FileMetadataExtracted
  <1>16. ASSUME NEW w \in Workers, SaveCachedFiles(w)
         PROVE  TypeOK' /\ NamesInv'
    <2>1. /\ object' \in [MediaFiles -> {"none", "live", "freed"}]
          /\ stored' \in [Devices -> SUBSET MediaFiles]
          /\ batch' \in [Savers -> Seq(MediaFiles)]
          /\ UNCHANGED queued
      BY <1>16, SaveBatchType DEF SaveCachedFiles
    <2> QED
      BY <1>16, <2>1 DEF SaveCachedFiles
  <1>17. CASE UNCHANGED vars
    BY <1>17 DEF vars
  <1> QED
    BY StepCases, <1>1, <1>2, <1>3, <1>4, <1>5, <1>6, <1>7, <1>8, <1>9, <1>10, <1>11,
       <1>12, <1>13, <1>14, <1>15, <1>16, <1>17, <1>18, <1>19
       DEF CallerStep, LoopStep, MainOnly, WorkerStep

(* Before the first insertion there is no thread, and no pool. *)
LEMMA ThreadInit == Init => ThreadInv /\ PoolInv
  <1> SUFFICES ASSUME Init
               PROVE  ThreadInv /\ PoolInv
    OBVIOUS
  <1>1. pc[Main] = "idle" /\ \A t \in ScanThreads : pc[t] = "unborn"
    BY CallersAssumption DEF Init, ScannerInit, Callers
  <1>2. ThreadInv
    BY <1>1 DEF Init, ScannerInit, ThreadInv, MainAt, Scanning, Enumerating, Creating,
       Quitting, Freeing
  <1>3. PoolInv
    BY <1>1, CallersAssumption
       DEF Init, ScannerInit, PoolInit, PoolInv, NotStarted, Quiet, Freeing, Savers, Callers
  <1> QED
    BY <1>2, <1>3

(* Every step keeps the order of the threads. *)
LEMMA ThreadStep ==
  ASSUME TypeOK, ThreadInv, PoolInv, [Next]_vars
  PROVE  ThreadInv'
  <1>1. pc \in [Callers -> CallerLocations] /\ {thread, joined} \subseteq ScanThreads \cup {NoThread}
    BY DEF TypeOK
  <1> USE CallersAssumption, <1>1
      DEF ThreadInv, GoTo, Callers, threadVars,
          MainAt, NotStarted, Scanning, Enumerating, Creating, Quitting, Freeing
  <1>2. ASSUME NEW d \in Devices, HandleDeviceInserted(d)
        PROVE  ThreadInv'
    BY <1>2 DEF HandleDeviceInserted
  <1>3. ASSUME CancelScan, ~exited
        PROVE  ThreadInv'
    <2>1. CASE CancelTest
      BY <1>3, <2>1 DEF CancelScan, CancelTest, Unused
    <2>2. CASE CancelClear
      BY <1>3, <2>2 DEF CancelScan, CancelClear, Unused
    <2>3. CASE CancelRead
      BY <1>3, <2>3 DEF CancelScan, CancelRead, Unused
    <2>4. CASE CancelJoin
      BY <1>3, <2>4 DEF CancelScan, CancelJoin, Unused
    <2> QED
      BY <1>3, <2>1, <2>2, <2>3, <2>4 DEF CancelScan
  <1>4. ASSUME CloseDatabase, ~exited
        PROVE  ThreadInv'
    BY <1>4 DEF CloseDatabase
  <1>5. CASE OpenDatabase
    BY <1>5 DEF OpenDatabase
  <1>6. CASE StartPool
    BY <1>6 DEF StartPool
  <1>7. ASSUME NEW t \in Callers, StartScanFolder(t)
        PROVE  ThreadInv'
    <2>1. UNCHANGED <<joined, exited>>
      BY <1>7 DEF StartScanFolder, StartTest, StartCreate, StartReset, StartSet, StartPush, Unused
    <2>2. CASE StartTest(t)
      BY <2>1, <2>2 DEF StartTest
    <2>3. CASE StartCreate(t)
      <3>1. PICK u \in ScanThreads :
              /\ pc[u] = "unborn" /\ thread' = u
              /\ pc' = [pc EXCEPT ![u] = "test", ![t] = "startReset"]
        BY <2>3 DEF StartCreate
      <3>2. UNCHANGED <<runThread, joined, exited>> /\ pc[t] = "startCreate"
        BY <2>1, <2>3 DEF StartCreate
      <3>3. /\ pc'[u] = "test" /\ pc'[t] = "startReset" /\ u # t
            /\ \A c \in Callers \ {u, t} : pc'[c] = pc[c]
        BY <3>1, <3>2
      <3> QED
        BY <3>1, <3>2, <3>3
    <2>4. CASE StartReset(t)
      BY <2>1, <2>4 DEF StartReset
    <2>5. CASE StartSet(t)
      <3>1. /\ pc[t] = "startSet" /\ runThread' = TRUE /\ UNCHANGED <<thread, joined, exited>>
            /\ pc'[t] = "startPush" /\ \A c \in Callers \ {t} : pc'[c] = pc[c]
        BY <2>1, <2>5 DEF StartSet
      <3>2. CASE t = Main
        BY <3>1, <3>2
      <3>3. CASE t \in ScanThreads
        <4>1. pc'[Main] = pc[Main] /\ pc[Main] \in {"cancelRead", "join"} /\ ~runThread
          BY <3>1, <3>3
        <4>2. \A s \in ScanThreads : pc'[s] \notin Creating
          BY <3>1, <3>3
        <4> QED
          BY <3>1, <3>3, <4>1, <4>2
      <3> QED
        BY <3>2, <3>3
    <2>6. CASE StartPush(t)
      BY <2>1, <2>6 DEF StartPush
    <2> QED
      BY <1>7, <2>2, <2>3, <2>4, <2>5, <2>6 DEF StartScanFolder
  <1>8. ASSUME NEW t \in Callers, Terminate(t)
        PROVE  ThreadInv'
    <2>1. UNCHANGED <<runThread, thread, joined, exited>>
      BY <1>8 DEF Terminate
    <2>2. CASE t = Main
      <3>1. pc[Main] = "terminate" /\ pc' = [pc EXCEPT ![Main] = "flush"]
        BY <1>8, <2>2 DEF Terminate, PoolInv, PoolFree
      <3> QED
        BY <2>1, <3>1
    <2>3. CASE t \in ScanThreads
      <3>1. /\ pc[t] \in {"terminate", "drain", "forget"}
            /\ pc'[t] \in {"drain", "forget", "flush"}
            /\ \A c \in Callers \ {t} : pc'[c] = pc[c]
        BY <1>8, <2>3 DEF Terminate
      <3> QED
        BY <2>1, <2>3, <3>1
    <2> QED
      BY <2>2, <2>3
  <1>9. ASSUME NEW t \in Callers, Flush(t)
        PROVE  ThreadInv'
    BY <1>9 DEF Flush, AfterFlush, PoolInv
  <1>10. ASSUME NEW t \in Callers, SaveRest(t)
        PROVE  ThreadInv'
    BY <1>10 DEF SaveRest, AfterFlush
  <1>11. ASSUME NEW t \in ScanThreads, ScanThread(t)
        PROVE  ThreadInv'
    <2>1. CASE ScanTest(t)
      BY <1>11, <2>1 DEF ScanThread, ScanTest, Unused
    <2>2. CASE ScanPop(t)
      BY <1>11, <2>2 DEF ScanThread, ScanPop, Unused
    <2>3. CASE ScanOpen(t)
      BY <1>11, <2>3 DEF ScanThread, ScanOpen, Unused
    <2>4. CASE ScanRead(t)
      BY <1>11, <2>4 DEF ScanThread, ScanRead, Unused
    <2>5. CASE ScanEnd(t)
      BY <1>11, <2>5 DEF ScanThread, ScanEnd, Unused
    <2> QED
      BY <1>11, <2>1, <2>2, <2>3, <2>4, <2>5 DEF ScanThread
  <1>12. ASSUME NEW t \in ScanThreads, FileFound(t)
         PROVE  ThreadInv'
    BY <1>12 DEF FileFound
  <1>13. ASSUME NEW t \in ScanThreads, PushFound(t)
         PROVE  ThreadInv'
    BY <1>13 DEF PushFound
  <1>17. ASSUME NEW t \in ScanThreads, QueueFound(t)
         PROVE  ThreadInv'
    BY <1>17 DEF QueueFound
  <1>18. ASSUME NEW t \in ScanThreads, Undefined(t)
         PROVE  ThreadInv'
    BY <1>18 DEF Undefined
  <1>14. ASSUME NEW t \in ScanThreads, Exit(t)
         PROVE  ThreadInv'
    BY <1>14 DEF Exit
  <1>15. ASSUME NEW w \in Workers, WorkerStep(w)
         PROVE  ThreadInv'
    BY <1>15 DEF WorkerStep, Extract, FileMetadataExtracted, SaveCachedFiles, scanVars
  <1>16. CASE UNCHANGED vars
    BY <1>16 DEF vars, scanVars
  <1> QED
    BY StepCases, <1>2, <1>3, <1>4, <1>5, <1>6, <1>7, <1>8, <1>9, <1>10, <1>11,
       <1>12, <1>13, <1>14, <1>15, <1>16, <1>17, <1>18 DEF CallerStep, LoopStep, MainOnly

(* Every step keeps the order in which the pool is used. *)
LEMMA PoolStep ==
  ASSUME TypeOK, NamesInv, ThreadInv, PoolInv, [Next]_vars
  PROVE  PoolInv'
  <1>1. /\ pc \in [Callers -> CallerLocations] /\ at \in [Workers -> {"idle", "extract", "save", "batch"}]
        /\ batch \in [Savers -> Seq(MediaFiles)]
    BY DEF TypeOK
  <1> USE CallersAssumption, WorkersAssumption, <1>1
      DEF PoolInv, GoTo, Callers, Savers, NotStarted, Quiet, Freeing,
          threadVars, poolVars, deviceVars, storeVars
  <1>2. ASSUME NEW d \in Devices, HandleDeviceInserted(d)
        PROVE  PoolInv'
    BY <1>2 DEF HandleDeviceInserted
  <1>3. ASSUME CancelScan, ~exited
        PROVE  PoolInv'
    <2>1. CASE CancelTest
      BY <1>3, <2>1 DEF CancelScan, CancelTest, Unused
    <2>2. CASE CancelClear
      BY <1>3, <2>2 DEF CancelScan, CancelClear, Unused
    <2>3. CASE CancelRead
      BY <1>3, <2>3 DEF CancelScan, CancelRead, Unused
    <2>4. CASE CancelJoin
      <3>1. joined \in ScanThreads /\ pc[joined] = "ended"
        BY <2>4 DEF CancelJoin, ThreadInv, TypeOK
      <3> QED
        BY <1>3, <3>1 DEF ThreadInv
    <2> QED
      BY <1>3, <2>1, <2>2, <2>3, <2>4 DEF CancelScan
  <1>4. CASE CloseDatabase
    <2>1. pc[Main] = "close" /\ pc'[Main] = "openDb" /\ ~runThread /\ ~runThread'
      BY <1>4 DEF CloseDatabase, ThreadInv
    <2>2. NotStarted /\ NotStarted'
      BY <2>1
    <2> QED
      BY <1>4, <2>1, <2>2 DEF CloseDatabase
  <1>5. CASE OpenDatabase
    <2>1. pc[Main] = "openDb" /\ ~runThread /\ ~runThread' /\ deviceId \in Devices
      BY <1>5 DEF OpenDatabase, ThreadInv, NamesInv
    <2>2. pc'[Main] \in {"startPool", "idle"}
      BY <1>5 DEF OpenDatabase
    <2>3. NotStarted /\ NotStarted'
      BY <2>1, <2>2
    <2> QED
      BY <1>5, <2>1, <2>2, <2>3 DEF OpenDatabase
  <1>6. CASE StartPool
    <2>1. pc[Main] = "startPool" /\ pc'[Main] = "startTest" /\ ~runThread /\ ~runThread'
      BY <1>6 DEF StartPool, ThreadInv
    <2>2. NotStarted /\ ~NotStarted'
      BY <2>1
    <2> QED
      BY <1>6, <2>1, <2>2 DEF StartPool, PoolStart, ThreadInv
  <1>7. ASSUME NEW t \in Callers, StartScanFolder(t)
        PROVE  PoolInv'
    <2>1. UNCHANGED Unused
      BY <1>7 DEF StartScanFolder
    <2>2. /\ pc[t] \in {"startTest", "startCreate", "startReset", "startSet", "startPush"}
          /\ pc'[t] \in {"startCreate", "startReset", "startSet", "startPush", "idle", "read"}
          /\ \A c \in Callers \ {t} :
               pc'[c] # pc[c] => pc[c] = "unborn" /\ pc'[c] = "test"
          /\ pc[Main] # "startPool" => pc'[Main] # "startPool"
      BY <1>7 DEF StartScanFolder, StartTest, StartCreate, StartReset, StartSet, StartPush
    <2>3. ~NotStarted /\ ~NotStarted'
      <3>1. CASE t = Main
        BY <1>7, <3>1 DEF StartScanFolder, StartTest, StartCreate, StartReset, StartSet,
           StartPush, ThreadInv
      <3>2. CASE t \in ScanThreads
        <4>1. pc[Main] # "startTest" /\ pc[Main] # "startCreate" /\ ~NotStarted
          BY <2>2, <3>2 DEF ThreadInv
        <4>2. UNCHANGED runThread \/ runThread' \/ pc[t] = "startReset"
          BY <1>7 DEF StartScanFolder, StartTest, StartCreate, StartReset, StartSet, StartPush
        <4>3. pc[t] = "startReset" => pc[Main] \in {"cancelRead", "join"}
          BY <3>2 DEF ThreadInv, Creating
        <4>4. pc'[Main] = pc[Main]
          BY <2>2, <3>2 DEF ThreadInv, MainAt
        <4> QED
          BY <4>1, <4>2, <4>3, <4>4
      <3> QED
        BY <3>1, <3>2
    <2> QED
      BY <2>1, <2>2, <2>3 DEF Unused
  <1>8. ASSUME NEW t \in Callers, Terminate(t)
        PROVE  PoolInv'
    <2>1. /\ UNCHANGED <<runThread, queued, conn, db, tasks, at>>
          /\ UNCHANGED batch
      BY <1>8 DEF Terminate, PoolFree, PoolDrained, PoolForget
    <2>2. CASE t = Main
      <3>1. pc[Main] = "terminate" /\ pc' = [pc EXCEPT ![Main] = "flush"] /\ UNCHANGED pool
        BY <1>8, <2>2 DEF Terminate, PoolFree, ThreadInv, MainAt
      <3> QED
        BY <2>1, <3>1
    <2>3. CASE t \in ScanThreads
      <3>1. \A c \in Callers \ {t} : pc'[c] = pc[c]
        BY <1>8 DEF Terminate
      <3>2. ~NotStarted /\ ~NotStarted'
        BY <1>8, <2>1, <2>3, <3>1 DEF Terminate, ThreadInv
      <3>3. \A s \in ScanThreads \ {t} : pc[s] \notin Freeing
        BY <1>8, <2>3 DEF Terminate, ThreadInv, Quitting
      <3>4. \/ pc[t] = "terminate" /\ pool = "open" /\ pc'[t] = "drain" /\ pool' = "closing"
            \/ pc[t] = "drain" /\ Quiet /\ pc'[t] = "forget" /\ pool' = "gone"
            \/ pc[t] = "forget" /\ pc'[t] = "flush" /\ pool' = "null"
        <4>1. pc[t] = "terminate" => pool = "open"
          BY <2>3, <3>2, <3>3
        <4> QED
          BY <1>8, <4>1 DEF Terminate, PoolFree, PoolDrained, PoolForget
      <3> QED
        BY <2>1, <2>3, <3>1, <3>2, <3>3, <3>4
    <2> QED
      BY <2>2, <2>3
  <1>9. ASSUME NEW t \in Callers, Flush(t)
        PROVE  PoolInv'
    <2>1. /\ UNCHANGED <<runThread, queued, conn, db, tasks, at, pool>>
          /\ \A c \in Callers \ {t} : pc'[c] = pc[c]
          /\ \A c \in Savers \ {t} : batch'[c] = batch[c]
          /\ pc[t] = "flush"
      BY <1>9 DEF Flush
    <2>2. CASE t = Main
      <3>1. pc'[Main] = "close" /\ UNCHANGED batch
        BY <1>9, <2>2 DEF Flush, AfterFlush, ThreadInv
      <3> QED
        BY <2>1, <2>2, <3>1
    <2>3. CASE t \in ScanThreads
      <3>1. \/ pc'[t] = "saveRest"
            \/ pc'[t] = "exit" /\ batch'[t] = batch[t]
        BY <1>9, <2>3 DEF Flush, AfterFlush
      <3> QED
        BY <2>1, <2>3, <3>1
    <2> QED
      BY <2>2, <2>3
  <1>10. ASSUME NEW t \in Callers, SaveRest(t)
         PROVE  PoolInv'
    <2>1. t \in ScanThreads
      BY <1>10 DEF SaveRest, ThreadInv, MainAt
    <2>2. /\ UNCHANGED <<runThread, queued, conn, db, tasks, at, pool>>
          /\ batch' = [batch EXCEPT ![t] = << >>]
          /\ pc[t] = "saveRest" /\ pc' = [pc EXCEPT ![t] = "exit"]
      BY <1>10, <2>1 DEF SaveRest, SaveBatch, AfterFlush
    <2> QED
      BY <2>1, <2>2
  <1>11. ASSUME NEW t \in ScanThreads, ScanThread(t)
         PROVE  PoolInv'
    <2>1. UNCHANGED Unused /\ UNCHANGED runThread
      BY <1>11 DEF ScanThread, ScanTest, ScanPop, ScanOpen, ScanRead, ScanEnd
    <2>2. /\ pc[t] \in {"test", "pop", "open", "read"}
          /\ pc'[t] \in {"test", "pop", "terminate", "open", "read", "found"}
          /\ \A c \in Callers \ {t} : pc'[c] = pc[c]
      BY <1>11 DEF ScanThread, ScanTest, ScanPop, ScanOpen, ScanRead, ScanEnd
    <2> QED
      BY <2>1, <2>2 DEF Unused
  <1>12. ASSUME NEW t \in ScanThreads, FileFound(t)
         PROVE  PoolInv'
    <2>1. /\ UNCHANGED <<runThread, queued, conn, db, tasks, at, pool>> /\ UNCHANGED batch
          /\ pc[t] = "found" /\ pc'[t] \in {"read", "startTest", "push"}
          /\ \A c \in Callers \ {t} : pc'[c] = pc[c]
      BY <1>12 DEF FileFound
    <2> QED
      BY <2>1
  <1>13. ASSUME NEW t \in ScanThreads, PushFound(t)
         PROVE  PoolInv'
    <2>1. /\ UNCHANGED <<runThread, queued, conn, db, tasks, at, pool>> /\ UNCHANGED batch
          /\ pc[t] = "push" /\ pc'[t] \in {"read", "queue"}
          /\ \A c \in Callers \ {t} : pc'[c] = pc[c]
      BY <1>13 DEF PushFound
    <2> QED
      BY <2>1
  <1>19. ASSUME NEW t \in ScanThreads, QueueFound(t)
         PROVE  PoolInv'
    <2>1. /\ UNCHANGED <<runThread, queued, conn, db, at, pool>> /\ UNCHANGED batch
          /\ pool \in {"open", "closing"}
          /\ pc[t] = "queue" /\ pc'[t] = "read"
          /\ \A c \in Callers \ {t} : pc'[c] = pc[c]
      BY <1>19 DEF QueueFound, PushFile
    <2> QED
      BY <2>1
  <1>20. ASSUME NEW t \in ScanThreads, Undefined(t)
         PROVE  PoolInv'
    <2>1. /\ UNCHANGED <<runThread, queued, conn, db, tasks, at, pool>> /\ UNCHANGED batch
          /\ pc[t] = "queue" /\ pc'[t] \in {"read", "hung", "queue"}
          /\ \A c \in Callers \ {t} : pc'[c] = pc[c]
      BY <1>20 DEF Undefined
    <2> QED
      BY <2>1
  <1>14. ASSUME NEW t \in ScanThreads, Exit(t)
         PROVE  PoolInv'
    BY <1>14 DEF Exit
  <1>15. ASSUME NEW w \in Workers, Extract(w)
         PROVE  PoolInv'
    <2>1. UNCHANGED <<runThread, pc, queued, batch, conn, db, pool>>
      BY <1>15 DEF Extract, TakeTask, ProcessFile, scanVars
    <2>2. ~Quiet /\ at[w] # "batch" /\ \A v \in Workers : at'[v] = "batch" => at[v] = "batch"
      BY <1>15 DEF Extract, TakeTask, ProcessFile
    <2>3. pool \notin {"null", "gone"}
      BY <2>2
    <2> QED
      BY <2>1, <2>2, <2>3, <1>15 DEF Extract, TakeTask, ProcessFile
  <1>16. ASSUME NEW w \in Workers, FileMetadataExtracted(w)
         PROVE  PoolInv'
    <2>1. UNCHANGED <<runThread, pc, conn, db, pool>> /\ at[w] = "save"
      BY <1>16 DEF FileMetadataExtracted, scanVars
    <2>2. pool \notin {"null", "gone"}
      BY <2>1
    <2>3. /\ \A c \in Callers : batch'[c] = batch[c]
          /\ \A v \in Workers : at'[v] # "batch" => batch'[v] = << >>
      BY <1>16 DEF FileMetadataExtracted
    <2> QED
      BY <2>1, <2>2, <2>3
  <1>17. ASSUME NEW w \in Workers, SaveCachedFiles(w)
         PROVE  PoolInv'
    <2>1. UNCHANGED <<runThread, pc, conn, db, pool, queued>> /\ at[w] = "batch"
      BY <1>17 DEF SaveCachedFiles, SaveBatch, scanVars
    <2>2. pool \notin {"null", "gone"}
      BY <2>1
    <2>3. /\ \A c \in Callers : batch'[c] = batch[c]
          /\ \A v \in Workers : at'[v] # "batch" => batch'[v] = << >>
      BY <1>17 DEF SaveCachedFiles, SaveBatch
    <2> QED
      BY <2>1, <2>2, <2>3
  <1>18. CASE UNCHANGED vars
    BY <1>18 DEF vars, scanVars
  <1> QED
    BY StepCases, <1>2, <1>3, <1>4, <1>5, <1>6, <1>7, <1>8, <1>9, <1>10, <1>11, <1>12,
       <1>13, <1>14, <1>15, <1>16, <1>17, <1>18, <1>19, <1>20
       DEF CallerStep, LoopStep, MainOnly, WorkerStep

(* Types, threads and the pool's owner are inductive together. *)
OwnerInv == TypeOK /\ NamesInv /\ ThreadInv /\ PoolInv

(* It is an invariant. *)
LEMMA OwnerInvariant == Spec => []OwnerInv
  <1>1. Init => OwnerInv
    BY TypeInit, ThreadInit DEF OwnerInv
  <1>2. OwnerInv /\ [Next]_vars => OwnerInv'
    BY TypeStep, ThreadStep, PoolStep DEF OwnerInv
  <1> QED
    BY <1>1, <1>2, PTL DEF Spec

(* Every variable of the program keeps its type, whatever fails. *)
THEOREM TrackerTypeCorrect == Spec => []TypeOK
  <1>1. OwnerInv => TypeOK
    BY DEF OwnerInv
  <1> QED
    BY <1>1, OwnerInvariant, PTL

(***************************************************************************)
(* When handleDeviceInserted or onScanTerminated flushes the persistor,    *)
(* no path waits for extraction, nobody extracts and nobody saves: what    *)
(* FileDatabasePersistor asks of its client.                               *)
(***************************************************************************)
THEOREM ExtractionEndsBeforeFlush == Spec => []FlushAfterExtraction
  <1>1. ASSUME OwnerInv, NEW t \in Callers, pc[t] \in {"flush", "saveRest"}
        PROVE  tasks = << >> /\ \A w \in Workers : at[w] = "idle" /\ batch[w] = << >>
    <2>1. CASE t = Main
      BY <1>1, <2>1 DEF OwnerInv, ThreadInv, PoolInv, MainAt, NotStarted, Quiet
    <2>2. CASE t \in ScanThreads
      BY <1>1, <2>2 DEF OwnerInv, PoolInv, Quiet
    <2> QED
      BY <2>1, <2>2 DEF Callers
  <1>2. OwnerInv => FlushAfterExtraction
    BY <1>1 DEF FlushAfterExtraction
  <1> QED
    BY <1>2, OwnerInvariant, PTL

(***************************************************************************)
(* terminate() is never entered for a pool that another thread is freeing, *)
(* although onScanTerminated and handleDeviceInserted call it from         *)
(* different threads and nothing protects the pointer.                     *)
(***************************************************************************)
THEOREM PoolIsFreedOnce == Spec => []PoolFreedOnce
  <1>1. ASSUME OwnerInv, NEW s \in Callers, NEW t \in Callers,
               pc[s] \in {"drain", "forget"}, pc[t] \in {"terminate", "drain", "forget"}
        PROVE  s = t
    <2>1. s \in ScanThreads
      BY <1>1 DEF OwnerInv, ThreadInv, MainAt, Callers
    <2>2. t # Main
      BY <1>1, <2>1 DEF OwnerInv, ThreadInv, MainAt, NotStarted
    <2> QED
      BY <1>1, <2>1, <2>2 DEF OwnerInv, ThreadInv, Quitting, Freeing, Callers
  <1>2. OwnerInv => PoolFreedOnce
    BY <1>1 DEF PoolFreedOnce
  <1> QED
    BY <1>2, OwnerInvariant, PTL

(***************************************************************************)
(* Nobody saves through the handle that Database::open leaves behind when  *)
(* sqlite3_open fails.                                                     *)
(***************************************************************************)
THEOREM StaleHandleIsNotUsed == Spec => []StaleHandleUnused
  <1>1. ASSUME OwnerInv, conn = "stale", NEW t \in Savers
        PROVE  batch[t] = << >>
    <2>1. NotStarted
      BY <1>1 DEF OwnerInv, PoolInv
    <2>2. CASE t \in Workers
      BY <1>1, <2>1, <2>2 DEF OwnerInv, PoolInv, Quiet
    <2>3. CASE t \in Callers
      BY <1>1, <2>1, <2>3 DEF OwnerInv, PoolInv, ThreadInv, NotStarted, Callers
    <2> QED
      BY <2>2, <2>3 DEF Savers
  <1>2. OwnerInv => StaleHandleUnused
    BY <1>1 DEF StaleHandleUnused
  <1> QED
    BY <1>2, OwnerInvariant, PTL

=============================================================================
