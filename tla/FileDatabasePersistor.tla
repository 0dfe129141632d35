------------------------ MODULE FileDatabasePersistor ------------------------
(***************************************************************************)
(* Class FileDatabasePersistor                                             *)
(* (src/src/database/file-database-persistor.{h,cpp}) on top of Database.  *)
(*                                                                         *)
(* Extraction threads hand over File objects with saveFile(); the thread   *)
(* whose file fills the queue takes the whole queue away and writes it in  *)
(* one transaction.  flush() writes what is left in the queue.  The client *)
(* is the one the program has: any number of extraction threads call       *)
(* saveFile() concurrently, and flush() is called after the extraction     *)
(* pool was terminated with WAIT_ALL, just before the process exits        *)
(* (DeviceManager::onScanTerminated).                                      *)
(*                                                                         *)
(* Every step that touches shared state (the write mutex, m_inTransaction, *)
(* a statement, the last rowid, a delete) is an action of its own, so that *)
(* the threads interleave as they can in the code.                         *)
(***************************************************************************)
EXTENDS Database, FiniteSets, Functions

CONSTANTS
  Workers,     (* the threads of the extraction pool                        *)
  Flusher,     (* the thread that calls flush()                             *)
  BatchSize    (* FILES_PER_TRANSACTION                                     *)

Threads == Workers \cup {Flusher}

ASSUME ThreadsAssumption == Flusher \notin Workers

ASSUME BatchSizeAssumption == BatchSize \in Nat \ {0}

VARIABLES
  queuedFiles,  (* m_queuedFiles                                             *)
  filesToSave,  (* each worker's local list filesToSave                      *)
  flushed,      (* flush() has been called: saveFile() is not called again   *)
  pc,           (* where each thread is in saveCachedFiles                   *)
  pos,          (* the position of its iterator fiter                        *)
  col,          (* the metadata table whose row it writes next               *)
  heap,         (* none: not allocated, live: allocated, freed: deleted      *)
  mId           (* m_db.m_Id of each File object                             *)

queueVars == <<queuedFiles, filesToSave, flushed>>
loopVars == <<pos, col>>
fileVars == <<heap, mId>>
vars == <<dbVars, queueVars, pc, loopVars, fileVars>>

(* The list a thread iterates over: flush() passes m_queuedFiles itself. *)
Batch(t) == IF t = Flusher THEN queuedFiles ELSE filesToSave[t]

HasFile(t) == pos[t] <= Len(Batch(t))
CurrentFile(t) == Batch(t)[pos[t]]

Locations ==
  {"idle", "lock", "begin", "beginSql", "beginSet", "insert", "rowid", "meta",
   "commit", "commitSql", "commitSet", "unlock", "failedUnlock", "rollback",
   "rollbackSql", "rollbackSet", "lastUnlock"}

TypeOK ==
  /\ writeLock \in BOOLEAN
  /\ holders \subseteq Threads
  /\ inTransaction \in BOOLEAN
  /\ sqlTxn \in BOOLEAN
  /\ rows \in [Tables -> Seq(Row)]
  /\ durable \in [Tables -> Nat]
  /\ lastRowid \in Nat
  /\ running \in BOOLEAN
  /\ queuedFiles \in Seq(Files)
  /\ filesToSave \in [Workers -> Seq(Files)]
  /\ flushed \in BOOLEAN
  /\ pc \in [Threads -> Locations]
  /\ pos \in [Threads -> Nat \ {0}]
  /\ col \in [Threads -> 1..(Len(MetaTables) + 1)]
  /\ heap \in [Files -> {"none", "live", "freed"}]
  /\ mId \in [Files -> Nat]

Init ==
  /\ DatabaseInit
  /\ queuedFiles = << >>
  /\ filesToSave = [w \in Workers |-> << >>]
  /\ flushed = FALSE
  /\ pc = [t \in Threads |-> "idle"]
  /\ pos = [t \in Threads |-> 1]
  /\ col = [t \in Threads |-> 1]
  /\ heap = [f \in Files |-> "none"]
  /\ mId = [f \in Files |-> 0]

-----------------------------------------------------------------------------
(* Entering saveCachedFiles. *)

GoTo(t, location) == pc' = [pc EXCEPT ![t] = location]

(* Mutant of SaveFile: the queue is copied but not cleared. *)
SaveFileKeepingQueue(w, f) ==
  LET queue == Append(queuedFiles, f) IN
  /\ pc[w] = "idle" /\ ~flushed
  /\ heap[f] = "none"
  /\ heap' = [heap EXCEPT ![f] = "live"]
  /\ queuedFiles' = queue
  /\ IF Len(queue) < BatchSize THEN UNCHANGED <<filesToSave, pc, pos>>
     ELSE /\ filesToSave' = [filesToSave EXCEPT ![w] = queue]
          /\ pos' = [pos EXCEPT ![w] = 1]
          /\ GoTo(w, "lock")
  /\ UNCHANGED <<dbVars, flushed, col, mId>>

(***************************************************************************)
(* saveFile: under m_queue_mutex the new file is queued and, when the      *)
(* queue is long enough, moved to the caller's own list.  The mutex is     *)
(* held for nothing else, so the critical section is one step.             *)
(***************************************************************************)
SaveFile(w, f) ==
  LET queue == Append(queuedFiles, f) IN
  /\ pc[w] = "idle" /\ ~flushed
  /\ heap[f] = "none"
  /\ heap' = [heap EXCEPT ![f] = "live"]
  /\ \/ /\ Len(queue) < BatchSize
        /\ queuedFiles' = queue
        /\ UNCHANGED <<filesToSave, pc, pos>>
     \/ /\ Len(queue) >= BatchSize
        /\ queuedFiles' = << >>
        /\ filesToSave' = [filesToSave EXCEPT ![w] = queue]
        /\ pos' = [pos EXCEPT ![w] = 1]
        /\ GoTo(w, "lock")
  /\ UNCHANGED <<dbVars, flushed, col, mId>>

(* Mutant of Flush: it does not wait for the extraction threads. *)
FlushWithoutWaiting ==
  /\ ~flushed
  /\ flushed' = TRUE
  /\ IF Len(queuedFiles) > 0 THEN GoTo(Flusher, "lock") ELSE UNCHANGED pc
  /\ UNCHANGED <<dbVars, queuedFiles, filesToSave, loopVars, fileVars>>

(***************************************************************************)
(* flush: the pool has been terminated, so no saveFile is in progress.     *)
(* The queue is saved where it is, and is not emptied afterwards.          *)
(***************************************************************************)
Flush ==
  /\ ~flushed
  /\ \A w \in Workers : pc[w] = "idle"
  /\ flushed' = TRUE
  /\ IF Len(queuedFiles) > 0 THEN GoTo(Flusher, "lock") ELSE UNCHANGED pc
  /\ UNCHANGED <<dbVars, queuedFiles, filesToSave, loopVars, fileVars>>

(* Returning from saveCachedFiles destroys the caller's local list. *)
Return(t) ==
  /\ GoTo(t, "idle")
  /\ filesToSave' = IF t = Flusher THEN filesToSave
                    ELSE [filesToSave EXCEPT ![t] = << >>]

-----------------------------------------------------------------------------
(* beginSave: the write mutex, then Database::beginTransaction. *)

BeginSaveLock(t) ==
  /\ pc[t] = "lock"
  /\ WriteLock(t)
  /\ GoTo(t, "begin")
  /\ UNCHANGED <<inTransaction, sqlVars, queueVars, loopVars, fileVars>>

BeginTest(t) ==
  /\ pc[t] = "begin"
  /\ GoTo(t, IF inTransaction THEN "insert" ELSE "beginSql")
  /\ UNCHANGED <<dbVars, queueVars, loopVars, fileVars>>

BeginSql(t) ==
  /\ pc[t] = "beginSql"
  /\ \/ BeginOk /\ GoTo(t, "beginSet")
     \/ BeginError /\ GoTo(t, "rollback")
  /\ UNCHANGED <<lockVars, inTransaction, running, queueVars, loopVars,
                 fileVars>>

BeginSet(t) ==
  /\ pc[t] = "beginSet"
  /\ inTransaction' = TRUE
  /\ GoTo(t, "insert")
  /\ UNCHANGED <<lockVars, sqlVars, running, queueVars, loopVars, fileVars>>

-----------------------------------------------------------------------------
(***************************************************************************)
(* The loop of saveCachedFiles.  A FilePersistenceError is caught inside   *)
(* the loop: the file is abandoned where it is (and not deleted) and the   *)
(* loop goes on with the next one.                                         *)
(***************************************************************************)

NextFile(t) ==
  /\ pos' = [pos EXCEPT ![t] = @ + 1]
  /\ GoTo(t, "insert")

(* Mutant of InsertFile: the file is deleted when it cannot be saved. *)
InsertFileDeletingOnError(t) ==
  /\ pc[t] = "insert" /\ HasFile(t)
  /\ \/ /\ InsertOk("files", [file |-> CurrentFile(t), fileId |-> 0])
        /\ GoTo(t, "rowid")
        /\ UNCHANGED <<pos, heap>>
     \/ /\ InsertError
        /\ heap' = [heap EXCEPT ![CurrentFile(t)] = "freed"]
        /\ NextFile(t)
  /\ UNCHANGED <<lockVars, inTransaction, running, queueVars, col, mId>>

(* The INSERT of saveFileMainDataAndGetDBId. *)
InsertFile(t) ==
  /\ pc[t] = "insert" /\ HasFile(t)
  /\ \/ /\ InsertOk("files", [file |-> CurrentFile(t), fileId |-> 0])
        /\ GoTo(t, "rowid")
        /\ UNCHANGED pos
     \/ /\ InsertError
        /\ NextFile(t)
  /\ UNCHANGED <<lockVars, inTransaction, running, queueVars, col, fileVars>>

(* Mutant of ReadRowId: the metadata tables are counted from zero. *)
ReadRowIdCountingFromZero(t) ==
  /\ pc[t] = "rowid"
  /\ mId' = [mId EXCEPT ![CurrentFile(t)] = lastRowid]
  /\ col' = [col EXCEPT ![t] = 0]
  /\ GoTo(t, "meta")
  /\ UNCHANGED <<dbVars, queueVars, pos, heap>>

(* Its return value, read from the connection by a second call. *)
ReadRowId(t) ==
  /\ pc[t] = "rowid"
  /\ mId' = [mId EXCEPT ![CurrentFile(t)] = lastRowid]
  /\ col' = [col EXCEPT ![t] = 1]
  /\ GoTo(t, "meta")
  /\ UNCHANGED <<dbVars, queueVars, pos, heap>>

(* Mutant of SaveMetadata: a file whose metadata is rejected is tried again. *)
SaveMetadataRetrying(t) ==
  LET row == [file |-> CurrentFile(t), fileId |-> mId[CurrentFile(t)]] IN
  /\ pc[t] = "meta" /\ col[t] <= Len(MetaTables)
  /\ \/ /\ InsertOk(MetaTables[col[t]], row)
        /\ col' = [col EXCEPT ![t] = @ + 1]
        /\ UNCHANGED pc
     \/ /\ InsertError
        /\ GoTo(t, "insert")
        /\ UNCHANGED col
  /\ UNCHANGED <<lockVars, inTransaction, running, queueVars, pos, fileVars>>

(***************************************************************************)
(* saveTitle, saveAlbum, ... : genericSaveMetadata for the next table.  An *)
(* empty value writes nothing.  (The test for an invalid file id cannot    *)
(* succeed: mId is positive here.)                                         *)
(***************************************************************************)
SaveMetadata(t) ==
  LET row == [file |-> CurrentFile(t), fileId |-> mId[CurrentFile(t)]] IN
  /\ pc[t] = "meta" /\ col[t] <= Len(MetaTables)
  /\ \/ /\ UNCHANGED sqlVars
        /\ col' = [col EXCEPT ![t] = @ + 1]
        /\ UNCHANGED <<pc, pos>>
     \/ /\ InsertOk(MetaTables[col[t]], row)
        /\ col' = [col EXCEPT ![t] = @ + 1]
        /\ UNCHANGED <<pc, pos>>
     \/ /\ InsertError
        /\ NextFile(t)
        /\ UNCHANGED col
  /\ UNCHANGED <<lockVars, inTransaction, running, queueVars, fileVars>>

(* delete *fiter, once all metadata is saved. *)
DeleteFile(t) ==
  /\ pc[t] = "meta" /\ col[t] > Len(MetaTables)
  /\ heap' = [heap EXCEPT ![CurrentFile(t)] = "freed"]
  /\ NextFile(t)
  /\ UNCHANGED <<dbVars, queueVars, col, mId>>

EndLoop(t) ==
  /\ pc[t] = "insert" /\ ~HasFile(t)
  /\ GoTo(t, "commit")
  /\ UNCHANGED <<dbVars, queueVars, loopVars, fileVars>>

-----------------------------------------------------------------------------
(* commitSave: Database::commitTransaction, then the write mutex. *)

CommitTest(t) ==
  /\ pc[t] = "commit"
  /\ GoTo(t, IF inTransaction THEN "commitSql" ELSE "unlock")
  /\ UNCHANGED <<dbVars, queueVars, loopVars, fileVars>>

CommitSql(t) ==
  /\ pc[t] = "commitSql"
  /\ \/ CommitOk /\ GoTo(t, "commitSet")
     \/ CommitError /\ GoTo(t, "failedUnlock")
  /\ UNCHANGED <<lockVars, inTransaction, running, queueVars, loopVars,
                 fileVars>>

(* Mutant of CommitSet: m_inTransaction is not reset. *)
CommitSetForgotten(t) ==
  /\ pc[t] = "commitSet"
  /\ GoTo(t, "unlock")
  /\ UNCHANGED <<dbVars, queueVars, loopVars, fileVars>>

CommitSet(t) ==
  /\ pc[t] = "commitSet"
  /\ inTransaction' = FALSE
  /\ GoTo(t, "unlock")
  /\ UNCHANGED <<lockVars, sqlVars, running, queueVars, loopVars, fileVars>>

CommitUnlock(t) ==
  /\ pc[t] = "unlock"
  /\ WriteUnlock(t)
  /\ Return(t)
  /\ UNCHANGED <<inTransaction, sqlVars, queuedFiles, flushed, loopVars,
                 fileVars>>

(* The catch clause of commitSave unlocks and throws again. *)
FailedUnlock(t) ==
  /\ pc[t] = "failedUnlock"
  /\ WriteUnlock(t)
  /\ GoTo(t, "rollback")
  /\ UNCHANGED <<inTransaction, sqlVars, queueVars, loopVars, fileVars>>

-----------------------------------------------------------------------------
(***************************************************************************)
(* The catch clause of saveCachedFiles, reached when beginSave failed (the *)
(* mutex is held) or when commitSave failed (it no longer is).             *)
(***************************************************************************)

RollbackTest(t) ==
  /\ pc[t] = "rollback"
  /\ GoTo(t, IF inTransaction THEN "rollbackSql" ELSE "lastUnlock")
  /\ UNCHANGED <<dbVars, queueVars, loopVars, fileVars>>

(* An error here leaves a catch clause as a Database::Error, which neither *)
(* saveFile's exception specification nor any caller of it accepts: the    *)
(* runtime ends the process.                                               *)
RollbackSql(t) ==
  /\ pc[t] = "rollbackSql"
  /\ \/ RollbackOk /\ UNCHANGED running
     \/ RollbackError /\ running' = FALSE
  /\ GoTo(t, "rollbackSet")
  /\ UNCHANGED <<lockVars, inTransaction, queueVars, loopVars, fileVars>>

RollbackSet(t) ==
  /\ pc[t] = "rollbackSet"
  /\ inTransaction' = FALSE
  /\ GoTo(t, "lastUnlock")
  /\ UNCHANGED <<lockVars, sqlVars, running, queueVars, loopVars, fileVars>>

(* Mutant of LastUnlock: a batch that failed returns with the mutex locked. *)
LastUnlockForgotten(t) ==
  /\ pc[t] = "lastUnlock"
  /\ Return(t)
  /\ UNCHANGED <<dbVars, queuedFiles, flushed, loopVars, fileVars>>

LastUnlock(t) ==
  /\ pc[t] = "lastUnlock"
  /\ WriteUnlock(t)
  /\ Return(t)
  /\ UNCHANGED <<inTransaction, sqlVars, queuedFiles, flushed, loopVars,
                 fileVars>>

-----------------------------------------------------------------------------
(* One step of saveCachedFiles on thread t. *)
SaveCachedFiles(t) ==
  \/ BeginSaveLock(t) \/ BeginTest(t) \/ BeginSql(t) \/ BeginSet(t)
  \/ InsertFile(t) \/ ReadRowId(t) \/ SaveMetadata(t) \/ DeleteFile(t)
  \/ EndLoop(t)
  \/ CommitTest(t) \/ CommitSql(t) \/ CommitSet(t) \/ CommitUnlock(t)
  \/ FailedUnlock(t)
  \/ RollbackTest(t) \/ RollbackSql(t) \/ RollbackSet(t) \/ LastUnlock(t)

Step ==
  \/ \E w \in Workers, f \in Files : SaveFile(w, f)
  \/ Flush
  \/ \E t \in Threads : SaveCachedFiles(t)

(* The process has been aborted, or has nothing left to do. *)
Terminated == ~running \/ (flushed /\ pc[Flusher] = "idle")

Next == (running /\ Step) \/ (Terminated /\ UNCHANGED vars)

Spec == Init /\ [][Next]_vars

(* The scheduler runs every thread that can run; callers may stop calling. *)
Fairness == \A t \in Threads : WF_vars(running /\ SaveCachedFiles(t))

FairSpec == Spec /\ Fairness

-----------------------------------------------------------------------------
(* Properties *)

(***************************************************************************)
(* At most one thread at a time is between writeLock() and writeUnlock(),  *)
(* and the mutex is locked exactly when there is one: the persistor        *)
(* unlocks as often as it locks, on its error paths too.                   *)
(***************************************************************************)
WriteLockExclusion ==
  /\ \A s, t \in holders : s = t
  /\ writeLock = (holders # {})

(***************************************************************************)
(* Between two batches m_inTransaction and SQLite agree that no            *)
(* transaction is open.  If they did not, the next beginTransaction would  *)
(* fail or would silently join the rows of another batch.                  *)
(***************************************************************************)
NoTransactionLeak == holders = {} => ~inTransaction /\ ~sqlTxn

(***************************************************************************)
(* Every metadata row carries the rowid of the files row of the very file  *)
(* the metadata was read from (executeInsertOrUpdate reads the rowid by a  *)
(* second call on the shared connection).                                  *)
(***************************************************************************)
RowsLinked ==
  \A tb \in Tables \ {"files"} : \A i \in DOMAIN rows[tb] :
    LET r == rows[tb][i] IN
    /\ r.fileId \in DOMAIN rows["files"]
    /\ rows["files"][r.fileId].file = r.file

(* Files with a committed row in table files. *)
Stored == {rows["files"][i].file : i \in 1..durable["files"]}

(* No file gets two rows in table files. *)
SavedOnce ==
  \A i, j \in DOMAIN rows["files"] :
    rows["files"][i].file = rows["files"][j].file => i = j

(***************************************************************************)
(* A File object is deleted only to be saved: once its batch is over and   *)
(* the write mutex is free again, the row of a deleted file is committed.  *)
(* (The object was the only copy of the extracted metadata.)               *)
(***************************************************************************)
DeletedIsStored ==
  holders = {} => \A f \in Files : heap[f] = "freed" => f \in Stored

(***************************************************************************)
(* A failed statement costs at most its batch: the process survives it.    *)
(* database.h says of commitTransaction and of rollbackTransaction that    *)
(* they do nothing when there is no active transaction.                    *)
(***************************************************************************)
ProcessSurvives == running

(***************************************************************************)
(* No thread touches a File object that was deleted, and none is deleted   *)
(* twice, although flush() iterates over the shared queue and leaves its   *)
(* deleted entries there.                                                  *)
(***************************************************************************)
NoUseAfterFree ==
  \A t \in Threads :
    /\ pc[t] # "idle" =>
         \A i \in DOMAIN Batch(t) : i >= pos[t] => heap[Batch(t)[i]] = "live"
    /\ pc[t] \in {"rowid", "meta"} => HasFile(t)

(***************************************************************************)
(* saveFile and flush implement the batches of FileStore.  A file counts   *)
(* as stored from the COMMIT that makes its row durable; a batch counts as *)
(* settled from that COMMIT, or from the BEGIN that failed.                *)
(***************************************************************************)
Unsettled ==
  {t \in Threads : pc[t] \in {"lock", "begin", "beginSql", "beginSet", "insert",
                              "rowid", "meta", "commit", "commitSql"}}

StageOf(f) ==
  CASE heap[f] = "none" -> "new"
    [] f \in Stored -> "stored"
    [] \E t \in Unsettled : f \in Range(Batch(t)) -> "taken"
    [] f \in Range(queuedFiles) /\ ~flushed -> "queued"
    [] OTHER -> "failed"

Store == INSTANCE FileStore WITH
  stage <- [f \in Files |-> StageOf(f)],
  batches <- {Range(Batch(t)) : t \in Unsettled},
  closed <- flushed

ImplementsFileStore == Store!Spec

(***************************************************************************)
(* Once flush() is called and returns or the process ends, nothing is left *)
(* behind: every batch that was begun comes to an end.  In particular no   *)
(* thread waits for ever for a mutex that nobody will unlock.              *)
(***************************************************************************)
EveryBatchEnds ==
  \A t \in Threads : pc[t] = "lock" ~> (pc[t] = "idle" \/ ~running)

=============================================================================
