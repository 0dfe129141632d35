---------------------------- MODULE DeviceManager ----------------------------
(***************************************************************************)
(* Class DeviceManager (src/src/devicemanager/device-manager.{h,cpp}): it  *)
(* starts the scan and the extraction of an inserted device, and connects  *)
(* the scanner, the extraction pool and the persistor as their observer.   *)
(* The threads are the main loop's, the scan threads and the pool's.       *)
(*                                                                         *)
(* The persistor is used here at the level of FileStore: a batch is saved  *)
(* in one step (FileDatabasePersistor models how).  A File object is       *)
(* identified with the path it was read from.                              *)
(***************************************************************************)
EXTENDS FileSystemScanner, MetadataExtractPool, Functions

CONSTANTS
  Devices,        (* the devices that may be inserted                        *)
  RootOf,         (* the folder each device is mounted on                    *)
  BatchSize,      (* FILES_PER_TRANSACTION                                   *)
  MaxInsertions,  (* a bound: calls of handleDeviceInserted                  *)
  OpenMayFail     (* Database::open may throw                                *)

NoDevice == "none"

ASSUME DevicesAssumption ==
  /\ NoDevice \notin Devices
  /\ RootOf \in [Devices -> Folders]
  /\ Entries \subseteq MediaFiles \cup Folders
  /\ MediaFiles \cap Folders = {} /\ MediaFiles # {}

ASSUME WorkersAssumption == Workers \cap Callers = {}

ASSUME BoundsAssumption ==
  /\ BatchSize \in Nat \ {0} /\ MaxInsertions \in Nat
  /\ OpenMayFail \in BOOLEAN

VARIABLES
  deviceId,     (* m_deviceId                                                *)
  devicePath,   (* m_devicePath; NoDevice before the first insertion         *)
  insertions,   (* history: how often a device was inserted                  *)
  conn,         (* m_dbConn: null, open, or stale (closed and not NULL)      *)
  db,           (* the device whose database is open                         *)
  queued,       (* m_queuedFiles of the persistor                            *)
  batch,        (* the list each thread is saving                            *)
  object,       (* none, live, or freed: the File object of each path        *)
  stored,       (* history: the files committed to each device's database    *)
  handled,      (* history: entries pushed to the pool or to the scanner     *)
  exited        (* the process has ended                                     *)

deviceVars == <<deviceId, devicePath, insertions>>
storeVars == <<queued, batch, object, stored>>
vars == <<scanVars, poolVars, deviceVars, conn, db, storeVars, handled, exited>>

Savers == Callers \cup Workers

CallerLocations ==
  {"idle", "unborn", "startTest", "startCreate", "startReset", "startSet",
   "startPush", "cancelTest", "cancelClear", "cancelRead", "join", "test",
   "pop", "open", "read", "found", "push", "queue", "hung", "terminate",
   "drain", "forget", "flush", "saveRest", "close", "openDb", "startPool",
   "exit", "ended"}

TypeOK ==
  /\ runThread \in BOOLEAN /\ exited \in BOOLEAN
  /\ foldersToScan \in Seq(Folders)
  /\ {thread, joined} \subseteq ScanThreads \cup {NoThread}
  /\ pc \in [Callers -> CallerLocations]
  /\ folder \in [ScanThreads -> Folders]
  /\ unread \in [ScanThreads -> SUBSET Entries]
  /\ entry \in [ScanThreads -> Entries]
  /\ startFolder \in [Callers -> Folders]
  /\ pool \in {"null", "open", "closing", "gone"}
  /\ poolThreads \subseteq Workers
  /\ tasks \in Seq(MediaFiles)
  /\ task \in [Workers -> MediaFiles]
  /\ at \in [Workers -> {"idle", "extract", "save", "batch"}]
  /\ deviceId \in Devices \cup {NoDevice}
  /\ devicePath \in Folders \cup {NoDevice}
  /\ insertions \in 0..MaxInsertions
  /\ conn \in {"null", "open", "stale"}
  /\ db \in Devices \cup {NoDevice}
  /\ queued \in Seq(MediaFiles)
  /\ batch \in [Savers -> Seq(MediaFiles)]
  /\ object \in [MediaFiles -> {"none", "live", "freed"}]
  /\ stored \in [Devices -> SUBSET MediaFiles]
  /\ handled \subseteq Entries

Init ==
  /\ ScannerInit
  /\ PoolInit
  /\ deviceId = NoDevice
  /\ devicePath = NoDevice
  /\ insertions = 0
  /\ conn = "null"
  /\ db = NoDevice
  /\ queued = << >>
  /\ batch = [t \in Savers |-> << >>]
  /\ object = [f \in MediaFiles |-> "none"]
  /\ stored = [d \in Devices |-> {}]
  /\ handled = {}
  /\ exited = FALSE

-----------------------------------------------------------------------------
(* handleDeviceInserted, on the main thread. *)

(* The device is noted first, while the previous scan may be running. *)
HandleDeviceInserted(d) ==
  /\ pc[Main] = "idle"
  /\ insertions < MaxInsertions
  /\ insertions' = insertions + 1
  /\ deviceId' = d
  /\ devicePath' = RootOf[d]
  /\ GoTo(Main, "cancelTest")
  /\ UNCHANGED <<threadVars, foldersToScan, enumVars, startFolder, poolVars,
                 conn, db, storeVars, handled, exited>>

(* Database::close; closing a stale handle again may end the process. *)
CloseDatabase ==
  /\ pc[Main] = "close"
  /\ conn' = "null"
  /\ db' = NoDevice
  /\ exited' \in (IF conn = "stale" THEN BOOLEAN ELSE {FALSE})
  /\ GoTo(Main, "openDb")
  /\ UNCHANGED <<threadVars, foldersToScan, enumVars, startFolder, poolVars,
                 deviceVars, storeVars, handled>>

(* Mutant of OpenDatabase: the caller goes on after an error. *)
OpenDatabaseAndGoOn ==
  /\ pc[Main] = "openDb"
  /\ \/ conn' = "open" /\ db' = deviceId
     \/ OpenMayFail /\ conn' = "stale" /\ UNCHANGED db
  /\ GoTo(Main, "startPool")
  /\ UNCHANGED <<threadVars, foldersToScan, enumVars, startFolder, poolVars,
                 deviceVars, storeVars, handled, exited>>

(***************************************************************************)
(* Database::open (conn is "null" here).  When sqlite3_open fails, the     *)
(* handle is closed and m_dbConn keeps it; when the tables cannot be       *)
(* created the connection stays open.  Either error ends the insertion.    *)
(***************************************************************************)
OpenDatabase ==
  /\ pc[Main] = "openDb"
  /\ \/ /\ conn' = "open" /\ db' = deviceId
        /\ GoTo(Main, "startPool")
     \/ /\ OpenMayFail
        /\ conn' = "stale" /\ UNCHANGED db
        /\ GoTo(Main, "idle")
     \/ /\ OpenMayFail
        /\ conn' = "open" /\ db' = deviceId
        /\ GoTo(Main, "idle")
  /\ UNCHANGED <<threadVars, foldersToScan, enumVars, startFolder, poolVars,
                 deviceVars, storeVars, handled, exited>>

(* Mutant of StartPool: the scan is started with the device's id. *)
StartPoolAndScanId ==
  /\ pc[Main] = "startPool"
  /\ PoolStart
  /\ startFolder' = [startFolder EXCEPT ![Main] = deviceId]
  /\ GoTo(Main, "startTest")
  /\ UNCHANGED <<threadVars, foldersToScan, enumVars, deviceVars, conn, db,
                 storeVars, handled, exited>>

(* m_metadataExtractingPool.start(), and the call of startScanFolder. *)
StartPool ==
  /\ pc[Main] = "startPool"
  /\ PoolStart
  /\ startFolder' = [startFolder EXCEPT ![Main] = devicePath]
  /\ GoTo(Main, "startTest")
  /\ UNCHANGED <<threadVars, foldersToScan, enumVars, deviceVars, conn, db,
                 storeVars, handled, exited>>

-----------------------------------------------------------------------------
(* onFileFound, on scan thread t. *)

(* Only what lies directly on the device is handled. *)
FileFound(t) ==
  /\ pc[t] = "found"
  /\ IF folder[t] # devicePath THEN
        GoTo(t, "read") /\ UNCHANGED <<startFolder, handled>>
     ELSE IF entry[t] \in Folders THEN
        /\ startFolder' = [startFolder EXCEPT ![t] = entry[t]]
        /\ handled' = handled \cup {entry[t]}
        /\ GoTo(t, "startTest")
     ELSE
        /\ handled' = handled \cup {entry[t]}
        /\ GoTo(t, "push") /\ UNCHANGED startFolder
  /\ UNCHANGED <<threadVars, foldersToScan, enumVars, poolVars, deviceVars,
                 conn, db, storeVars, exited>>

(* pushFile, in two steps; after a refusal the path is leaked. *)
PushFound(t) ==
  /\ pc[t] = "push"
  /\ \/ PushAccepted /\ GoTo(t, "queue")
     \/ PushRefused /\ GoTo(t, "read")
  /\ UNCHANGED <<threadVars, foldersToScan, enumVars, startFolder, poolVars,
                 deviceVars, conn, db, storeVars, handled, exited>>

QueueFound(t) ==
  /\ pc[t] = "queue"
  /\ PushFile(entry[t])
  /\ GoTo(t, "read")
  /\ UNCHANGED <<threadVars, foldersToScan, enumVars, startFolder, deviceVars,
                 conn, db, storeVars, handled, exited>>

(***************************************************************************)
(* A push to a pool that was freed uses its memory: the path is lost (no   *)
(* thread of the pool takes anything after it was told to stop), or the    *)
(* thread waits for ever for a mutex that is no more, or the process ends. *)
(***************************************************************************)
Undefined(t) ==
  /\ pc[t] = "queue" /\ PushFreed
  /\ \/ \E next \in {"read", "hung"} : GoTo(t, next) /\ UNCHANGED exited
     \/ exited' = TRUE /\ UNCHANGED pc
  /\ UNCHANGED <<threadVars, foldersToScan, enumVars, startFolder, poolVars,
                 deviceVars, conn, db, storeVars, handled>>

-----------------------------------------------------------------------------
(***************************************************************************)
(* What handleDeviceInserted and onScanTerminated have in common, on       *)
(* caller t: the pool is terminated with WAIT_ALL, then the persistor is   *)
(* flushed.                                                                *)
(***************************************************************************)

Terminate(t) ==
  /\ \/ /\ pc[t] = "terminate" /\ pool = "null"
        /\ GoTo(t, "flush")
        /\ UNCHANGED poolVars
     \/ /\ pc[t] = "terminate" /\ PoolFree
        /\ GoTo(t, "drain")
     \/ /\ pc[t] = "drain" /\ PoolDrained
        /\ GoTo(t, "forget")
     \/ /\ pc[t] = "forget" /\ PoolForget
        /\ GoTo(t, "flush")
  /\ UNCHANGED <<threadVars, foldersToScan, enumVars, startFolder, deviceVars,
                 conn, db, storeVars, handled, exited>>

AfterFlush(t) == IF t = Main THEN "close" ELSE "exit"

(* flush saves the queue itself, and leaves the entries in it. *)
Flush(t) ==
  /\ pc[t] = "flush"
  /\ IF queued = << >>
     THEN GoTo(t, AfterFlush(t)) /\ UNCHANGED batch
     ELSE GoTo(t, "saveRest") /\ batch' = [batch EXCEPT ![t] = queued]
  /\ UNCHANGED <<threadVars, foldersToScan, enumVars, startFolder, poolVars,
                 deviceVars, conn, db, queued, object, stored, handled, exited>>

(***************************************************************************)
(* One transaction, of the batch's files: F are freed and S stored.  A     *)
(* file is freed if all its rows were accepted, and stored if its row in   *)
(* the files table was, unless COMMIT fails, which loses the batch.        *)
(* Without a connection every statement fails.                             *)
(***************************************************************************)
SaveBatch(t) ==
  /\ \E F, S \in SUBSET (IF conn = "open" THEN Range(batch[t]) ELSE {}) :
       /\ F \subseteq S \/ S = {}
       /\ object' = [f \in MediaFiles |-> IF f \in F THEN "freed" ELSE object[f]]
       /\ stored' = IF db \in Devices THEN [stored EXCEPT ![db] = @ \cup S]
                    ELSE stored
  /\ batch' = [batch EXCEPT ![t] = << >>]
  /\ UNCHANGED queued

SaveRest(t) ==
  /\ pc[t] = "saveRest"
  /\ SaveBatch(t)
  /\ GoTo(t, AfterFlush(t))
  /\ UNCHANGED <<threadVars, foldersToScan, enumVars, startFolder, poolVars,
                 deviceVars, conn, db, handled, exited>>

(* Mutant of Exit: onScanTerminated returns, and the scan thread ends. *)
ReturnInsteadOfExit(t) ==
  /\ pc[t] = "exit"
  /\ GoTo(t, "ended")
  /\ UNCHANGED <<threadVars, foldersToScan, enumVars, startFolder, poolVars,
                 deviceVars, conn, db, storeVars, handled, exited>>

(* onScanTerminated ends with exit(0), in the scan thread. *)
Exit(t) ==
  /\ pc[t] = "exit"
  /\ exited' = TRUE
  /\ GoTo(t, "ended")
  /\ UNCHANGED <<threadVars, foldersToScan, enumVars, startFolder, poolVars,
                 deviceVars, conn, db, storeVars, handled>>

-----------------------------------------------------------------------------
(* The threads of the pool. *)

Extract(w) ==
  /\ TakeTask(w) \/ ProcessFile(w)
  /\ UNCHANGED <<scanVars, deviceVars, conn, db, storeVars, handled, exited>>

(* onFileMetadataExtracted: saveFile queues the file or takes the queue. *)
FileMetadataExtracted(w) ==
  LET queue == Append(queued, task[w])
      full == Len(queue) >= BatchSize IN
  /\ at[w] = "save"
  /\ object' = [object EXCEPT ![task[w]] = "live"]
  /\ queued' = IF full THEN << >> ELSE queue
  /\ batch' = IF full THEN [batch EXCEPT ![w] = queue] ELSE batch
  /\ at' = [at EXCEPT ![w] = IF full THEN "batch" ELSE "idle"]
  /\ UNCHANGED <<scanVars, pool, poolThreads, tasks, task, deviceVars, conn, db,
                 stored, handled, exited>>

SaveCachedFiles(w) ==
  /\ at[w] = "batch"
  /\ SaveBatch(w)
  /\ at' = [at EXCEPT ![w] = "idle"]
  /\ UNCHANGED <<scanVars, pool, poolThreads, tasks, task, deviceVars, conn, db,
                 handled, exited>>

-----------------------------------------------------------------------------
Unused == <<poolVars, deviceVars, conn, db, storeVars, handled, exited>>

StartScanFolder(t) ==
  /\ \/ StartTest(t) \/ StartCreate(t) \/ StartReset(t) \/ StartSet(t)
     \/ StartPush(t)
  /\ UNCHANGED Unused

CancelScan ==
  /\ CancelTest \/ CancelClear \/ CancelRead \/ CancelJoin
  /\ UNCHANGED Unused

ScanThread(t) ==
  /\ ScanTest(t) \/ ScanPop(t) \/ ScanOpen(t) \/ ScanRead(t) \/ ScanEnd(t)
  /\ UNCHANGED Unused

MainStep ==
  \/ CancelScan \/ Terminate(Main) \/ Flush(Main) \/ SaveRest(Main)
  \/ CloseDatabase \/ OpenDatabase \/ StartPool \/ StartScanFolder(Main)

ScanStep(t) ==
  \/ ScanThread(t) \/ FileFound(t) \/ PushFound(t) \/ QueueFound(t)
  \/ Undefined(t) \/ StartScanFolder(t) \/ Terminate(t) \/ Flush(t)
  \/ SaveRest(t) \/ Exit(t)

WorkerStep(w) == Extract(w) \/ FileMetadataExtracted(w) \/ SaveCachedFiles(w)

Step ==
  \/ \E d \in Devices : HandleDeviceInserted(d)
  \/ MainStep
  \/ \E t \in ScanThreads : ScanStep(t)
  \/ \E w \in Workers : WorkerStep(w)

Next == ~exited /\ Step

Spec == Init /\ [][Next]_vars

(* Every thread that can run is scheduled; devices need not be inserted. *)
FairSpec ==
  /\ Spec
  /\ WF_vars(~exited /\ MainStep)
  /\ \A t \in ScanThreads : WF_vars(~exited /\ ScanStep(t))
  /\ \A w \in Workers : WF_vars(~exited /\ WorkerStep(w))

-----------------------------------------------------------------------------
(* Properties *)

(***************************************************************************)
(* When a thread flushes the persistor nobody is extracting or saving any  *)
(* more: terminate(WAIT_ALL) leaves no task, no busy thread and no batch.  *)
(* FileDatabasePersistor relies on it (its action Flush).                  *)
(***************************************************************************)
FlushAfterExtraction ==
  \A t \in Callers : pc[t] \in {"flush", "saveRest"} =>
    tasks = << >> /\ \A w \in Workers : at[w] = "idle" /\ batch[w] = << >>

(***************************************************************************)
(* Nobody saves a File object that was deleted.  flush() leaves deleted    *)
(* objects in the queue, so nothing may be saved from it afterwards.       *)
(***************************************************************************)
NoUseAfterFree ==
  \A t \in Savers : \A i \in DOMAIN batch[t] : object[batch[t][i]] = "live"

(* Two threads are never in terminate() with the same pool. *)
PoolFreedOnce ==
  \A s, t \in Callers :
    pc[s] \in {"drain", "forget"} /\ pc[t] \in {"terminate", "drain", "forget"}
      => s = t

(***************************************************************************)
(* A file is pushed to a pool that there is: the pool that pushFile found  *)
(* running is not freed by another thread before the path is queued.       *)
(* ("push one file to one of the threads for metadata extraction".)        *)
(***************************************************************************)
PushFindsPool == \A t \in ScanThreads : pc[t] = "queue" => ~PushFreed

(* What a device holds directly: the files that are extracted from it. *)
FilesOf(d) == Contents[RootOf[d]] \cap MediaFiles

(***************************************************************************)
(* A file is stored in the database of the device it lies on, although the *)
(* database, the scan and the extraction change hands at an insertion.     *)
(***************************************************************************)
StoredInItsDatabase == \A d \in Devices : stored[d] \subseteq FilesOf(d)

(* No path is extracted twice, by whatever threads. *)
ExtractedOnce ==
  /\ \A i, j \in DOMAIN tasks : tasks[i] = tasks[j] => i = j
  /\ \A i \in DOMAIN tasks : object[tasks[i]] = "none"
  /\ \A w \in Workers : at[w] \in {"extract", "save"} => object[task[w]] = "none"

(***************************************************************************)
(* scanFolder reports every entry it reads, and the reports are acted on:  *)
(* a file is pushed to the extraction pool, a folder to the scanner.       *)
(***************************************************************************)
EveryEntryHandled ==
  \A t \in ScanThreads : pc[t] = "read" =>
    Contents[folder[t]] \ unread[t] \subseteq handled

(* Until a second device is inserted the scan is not terminated. *)
ScannedUntilCancelled ==
  insertions <= 1 => \A t \in ScanThreads : pc[t] # "terminate"

(***************************************************************************)
(* After sqlite3_open has failed, m_dbConn is a handle that was closed.    *)
(* Nobody saves anything through it: the pool is not started, and the next *)
(* insertion finds an empty queue to flush.  (What it does do with the     *)
(* handle, in CloseDatabase, is to close it once more.)                    *)
(***************************************************************************)
StaleHandleUnused ==
  conn = "stale" => \A t \in Savers : batch[t] = << >>

(* cancelScan returns, or the process ends. *)
CancelReturns == pc[Main] = "cancelClear" ~> (pc[Main] = "terminate" \/ exited)

(* A scan thread that has left its loop ends the process. *)
TerminationExits ==
  \A t \in ScanThreads : pc[t] = "terminate" ~> exited

(* What was pushed to the pool is processed, or the process ends. *)
TasksAreProcessed ==
  \A f \in MediaFiles :
    f \in Range(tasks) ~>
      \/ exited
      \/ f \notin Range(tasks) /\ \A w \in Workers : at[w] # "idle" => task[w] # f

=============================================================================
