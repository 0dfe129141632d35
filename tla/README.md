# A verification project for tracker-lite

tracker-lite scans a device that was inserted (a folder tree of media files),
extracts the metadata of every file in a pool of threads, and writes it to an
SQLite database. This directory holds a TLA+ model of the program, TLC
configurations that check it on small instances, and TLAPS proofs of theorems
about it. Paths below are relative to `src/` in the source tree.

    tlasany M.tla                            parse module M
    tlc -workers 2 -config X.cfg M           check configuration X of module M
    tlapm M.tla                              check the proofs of module M

## 1. Inventory of the system

Three kinds of threads run: the main loop's thread (`handleDeviceInserted`), the
scan threads made by `FileSystemScanner::startScanFolder`, and the threads of
the extraction pool.

    main ──handleDeviceInserted──► DeviceManager ──cancelScan/startScanFolder──► FileSystemScanner
                                    ▲   │  ▲                                        │ onFileFound
                                    │   │  └────────────────────────────────────────┘ onScanTerminated
              onFileMetadataExtracted   │ start / pushFile / terminate
                                    │   ▼
                               MetadataExtractPool ──► extractors (taglib) ──► StringEncoding
                                    │ saveFile (pool threads), flush (scan or main thread)
                                    ▼
                          FileDatabasePersistor ──► Database (SQLite connection, write mutex)

| component | state | operations | what makes it correct |
|---|---|---|---|
| `Database` (database/database.*) | connection, write mutex, `m_inTransaction` | `open`, `close`, `writeLock/Unlock`, `begin/commit/rollbackTransaction`, `executeInsertOrUpdate` | at most one writer; `m_inTransaction` agrees with SQLite; a closed handle is not used |
| `FileDatabasePersistor` (database/file-database-persistor.*) | queue of `File*`, its mutex | `saveFile`, `flush`, `saveCachedFiles` and its error paths | every file belongs to one batch and is settled once; rows are linked; no file object is used after `delete`; locks balance on error paths |
| `FileSystemScanner` (filesystem/*) | `b_runThread`, `m_thread`, queue of folders | `startScanFolder`, `cancelScan`, `scanThread`, `scanFolder` | one scan at a time; no callback after `cancelScan`; every file is reported |
| `MetadataExtractPool` (metadata/metadata-extract-pool.*) | the GLib pool, NULL when there is none | `start`, `pushFile`, `terminate`, `processFile` | what is pushed is processed before `terminate(WAIT_ALL)` returns; the pool is freed once |
| `DeviceManager` (devicemanager/*, tracker-lite.cpp) | device id and path; it owns all of the above | `handleDeviceInserted`, `onFileFound`, `onScanTerminated`, `onFileMetadataExtracted` | a file is stored in its own device's database, once; flush happens when nobody extracts; the second device gets scanned |
| extractors, registry (metadata/file-metadata-extractor.*, extractors/*) | a map from extension to extractor | `registerExtractor`, `getMetadataExtractorForFile`, `extractMetadata` | written before anyone reads it without a lock; each field is decoded from its tag |
| `StringEncoding` (common/string-encoding.*) | none | `convertStringToUTF8`: guess, table of encodings, raw copy | what is returned was decoded from the right encoding, or is the original |
| `Statistics` (common/statistics.*) | counters, a map per thread, end times | `newFileProcessed`, `newFileProcessedByThread`, `fsScanFinished`, `metadataExtractFinished`, `print` | every file is counted, and printed when nobody counts any more (there is no lock) |
| `Logging` (common/logging.*, console-logging.*) | level, delegates, a mutex | `setLogLevel`, `addLoggerDelegate`, `log` | a failure is printed; set up before other threads use it; nobody is blocked by it |

Behaviours that are hard to test, each listed with its line and its properties
in `PROJECT.json` under `hazards`: the flag and thread handle of the scanner are
shared without protection; a scan thread may start a second scan thread while
the first is being cancelled; `exit(0)` is called from a scan thread; the error
paths of a transaction unlock the write mutex in two places; the rowid of an
INSERT is read by a second call; file objects are deleted before their
transaction commits, and `flush` leaves deleted pointers in the queue; a
path may be pushed to a pool that another thread is freeing; the
database is swapped while extraction threads exist; a failed `open` leaves a
closed handle behind; counters and maps are shared by the pool's threads without
a lock; the result of `stat` is not looked at; a pool may have fewer threads than
were asked for, or none.

## 2. The modules

| module | models | kind |
|---|---|---|
| `Database` | class `Database`: mutex, flag, and the outcomes of SQLite's statements | steps used by the persistor |
| `FileDatabasePersistor` | class `FileDatabasePersistor` with any number of extraction threads and a flush | specification |
| `FileStore` | what the persistor promises its client | abstract specification, refined by the above |
| `FileSystemScanner` | class `FileSystemScanner` | steps used by the next one and by `DeviceManager` |
| `ScannerClient` | `FileSystemScanner` with a client that keeps to its header | specification |
| `ScanService` | what the scanner promises its client | abstract specification, refined by `ScannerClient` |
| `MetadataExtractPool` | class `MetadataExtractPool` over a GLib pool | steps used by `DeviceManager` and `Extraction`, and the abstract specification `PoolSpec` |
| `DeviceManager` | the whole program: main thread, scan threads, pool threads, persistor at the level of batches | specification |
| `StringEncoding` | conversion of a tag to UTF-8 | operators |
| `MetadataExtractors` | the registry of extractors, and `TagLibMetadataExtractor` | operators and steps used by `Extraction` |
| `Logging` | the logger and its console delegate | steps used by `Extraction` |
| `Statistics` | class `Statistics`, with its unlocked counters | steps used by `Extraction` |
| `Extraction` | a file's way from `pushFile` to the observer: `main`, the pool's threads in detail, `onScanTerminated` | specification, refines `PoolSpec` |
| `DatabaseProofs` | lemmas about the steps of `Database` | proofs |
| `FileDatabasePersistorProofs`, `FileStoreProofs` | the persistor's invariants; that it implements `FileStore` | proofs |
| `ScannerClientProofs`, `ScanServiceProofs` | the scanner's invariants; that it implements `ScanService` | proofs |
| `DeviceManagerProofs`, `DeviceStoreProofs` | the program: who owns the threads and the pool; where each folder and each file is | proofs |
| `ExtractionProofs` | the extraction's invariants; that it implements `PoolSpec` | proofs |
| `MCPersistor`, `MCScanner`, `MCTracker`, `MCExtraction` | the instances for TLC | |

Two specifications compose the components, at different places: `DeviceManager`
has the change of devices in every interleaving and the extraction in outline
(`ProcessFile` gives a file or an error); `Extraction` has one device and the
extraction in detail. `ImplementsPool` ties them together: in its terms the
threads of `Extraction` do nothing but what `MetadataExtractPool` says.

### Database and FileDatabasePersistor

The variables carry the names of the members they model (`queuedFiles` is
`m_queuedFiles`, `inTransaction` is `m_inTransaction`); `pc[t]` is where thread
`t` is in `saveCachedFiles`; `Batch(t)` is the list it iterates over, and
`pos[t]` its iterator. Three variables are history: `holders` (who is between
`writeLock` and `writeUnlock`), `heap` (was the `File` object deleted) and
`durable` (how much of each table is committed). SQLite is modelled from the way
the class uses it: a table is a sequence of rows, a rowid is a position,
`sqlTxn` says whether a transaction is open, and `Faults` selects the ways
statements may fail (see `FaultKinds`): a rejected INSERT (the SQL is built by
pasting values between quotes, so a quote in a title is enough), a BEGIN or
COMMIT that fails (busy), and the errors on which SQLite itself rolls back.

One SQL call is one step, because SQLite serialises the calls on a connection.
Everything between two calls is a step of its own: the test of
`m_inTransaction`, the call, the assignment, and the second call that reads the
rowid. `saveFile`'s critical section is one step, its mutex being held for
nothing else. `g_mutex_unlock` unlocks whoever holds the mutex; unlocking one
that is free is undefined, so it either does nothing or aborts the process
(`running`).

The client is the program's: pool threads call `saveFile`, and `flush` is called
when the pool has been terminated. That precondition of `Flush` is not assumed
for good: it is the property `FlushAfterExtraction` of `DeviceManager`.

An entry of `Files` stands for one `File` object and the path it describes. The
metadata tables are a parameter; each value may be empty, in which case nothing
is written.

### FileSystemScanner, ScannerClient, MetadataExtractPool, DeviceManager

`pc` holds the location of the main thread and of each scan thread, through
`startScanFolder`, `cancelScan`, `scanThread`, `scanFolder` and the observer's
callbacks, which run on the thread that calls them. `at` holds the location of
each pool thread. Reading the flag, creating a thread, writing the flag, and
reading the handle to join are separate steps, since nothing protects them.
(Creating a thread and assigning `m_thread` is one step: the comment of
`StartCreate` says why nobody can tell.) Queues are atomic (`GAsyncQueue`, the
tasks of a `GThreadPool`), but a call of `pushFile` is not: `PushFound` reads the
pointer and finds the pool running, or is refused; `QueueFound` queues the path,
in a pool that may have been told to stop since. If the pool was freed in
between, or the pointer was read just before it was cleared, the push uses freed
memory, and `Undefined` gives what may come of it: the path is lost, the scan
thread hangs, or the process ends.

The scanner is used twice. `ScannerClient` is the client its header describes:
one thread starts and cancels scans in any order, and callbacks return.
`ScanService` says what that client may rely on, in particular that no callback
comes between the return of `cancelScan` and the next `startScanFolder`.
`DeviceManager` is the client the program has: it calls `startScanFolder` from
`onFileFound`, on the scan thread, and ends the process in `onScanTerminated`.

`handleDeviceInserted` is, in order: note id and path, `cancelScan`, `terminate`
the pool, `flush`, `close`, `open`, `start` the pool, `startScanFolder`. It is a
sequence of actions at `pc[Main]`, and every other thread may step in between.
`onScanTerminated` shares `Terminate` and `Flush` and ends with `exit(0)`.

The persistor appears in `DeviceManager` as a queue and batches saved in one
step each, the level of `FileStore`. `SaveBatch` chooses which files are freed
and which are stored: a file whose metadata is rejected has its row and is not
freed, and a COMMIT that fails stores none of the batch and frees some of it all
the same. `ImplementsFileStore` justifies the queue and the batches for the
faults of run `persistor_batches`.

### Extraction, MetadataExtractors, StringEncoding, Statistics, Logging

`stage` is the line `main` has reached, and then the scan thread: extensions are
registered one by one (`Register`), the options are parsed or `main` returns
(`ParseOptions`), the logger is set up, the device is inserted. The scan is the
action `Push`, of files in any order, each once (`ExtractedOnce` of
`DeviceManager`); `ScanTerminated` to `PrintAndExit` are the lines of
`onScanTerminated`. `at[w]` is the line a pool thread has reached in
`threadFunction` and `processFile`:

    idle, extract, oldEntry or newEntry-addEntry, lookup, stat, tags, save, processed, increment
    lookup, warn, deliver, processed      (no extractor for the extension)
    tags, error, deliver, processed       (TagLib cannot read the file)

* *Statistics.* `++m_allFilesProcessed` is a read and a write, so increments can
  be lost. `m_processedByThread` is a `std::map`: while one thread is adding its
  entry (`adding`), any use of the map by another is undefined. From then on
  (`mapRaced`) `find` answers anything, any entries may be gone, and the process
  may end (`Crash`). Different entries are different nodes, so that incrementing
  them at the same time is safe. `mapRaced` and `countRaced` are history: the
  properties say that without such an encounter the numbers are exact, and what
  holds in spite of it.
* *Registry and logger* are written by `main` only; `RegisterExtractor`,
  `SetLogLevel` and `AddLoggerDelegate` are their steps.
* *Extraction.* A file has a suffix, an upper-cased suffix and a song: a tag for
  each field of `File::Metadata`, either Unicode or Latin-1 with what ICU and
  `g_convert` answer about it (a guess, its confidence, the encodings it decodes
  from). TagLib may fail at any time, and cannot succeed when the device is gone;
  whether `stat` succeeds makes no difference to where the file goes. A converted
  text is named by the encoding it was decoded from.
* *Logging.* The level is read before the mutex is taken, as in the code. Only
  messages about failed files are modelled, since only they are something a
  property is about; others take the mutex and release it in the same way.

## 3. What the runs show

| run | expectation | question | distinct states |
|---|---|---|---|
| `persistor_batches` | pass | While BEGIN and INSERTs fail, does the mutex exclude, does no transaction leak, are rows linked, are deleted files stored, and is `FileStore` implemented? | 17 337 |
| `persistor_faults` | pass | Under every fault, is no deleted `File` used and no file saved twice, and does every batch that waits for the mutex come to an end? | 574 072 |
| `persistor_exclusion` | violation | Does the mutex still exclude when COMMIT fails? | |
| `persistor_aborts` | violation | Does the process survive SQLite's own rollback? | |
| `tracker_safe` | pass | Two insertions, every interleaving, missing pool threads, failing `open`: nobody extracts during a flush, no deleted file is saved, the pool is freed once, files land in their own database, nothing is extracted twice, and nothing is saved through the handle a failed `open` left behind | 299 264 |
| `tracker_live` | pass | A terminated scan ends the process; pushed files are processed | 159 189 |
| `scanner_contract` | pass | With a client that keeps to the header: is there one scan thread at a time, is each joined once, is `ScanService` implemented, and does a cancellation reach a thread that is not asleep? | 88 597 |
| `extraction` | pass | From `main` to the statistics: is every failure reported, is each tag decoded in the order the comments give, what can be relied on in the statistics that are printed, is the unlocked set-up over before there are threads, do the threads implement the abstract pool, and does `terminate` return? | 228 030 |
| `tracker_recursion` | violation | Is every entry that is reported also handled? | |
| `tracker_start_race` | violation | Does a scan go on until it is cancelled? | |
| `tracker_cancel` | violation | Does `cancelScan` return? | |
| `tracker_push` | violation | Is the pool that a file is pushed to still there? | |

### What the violations say

Each is a disagreement between the code and a sentence of the repository, quoted
in `PROJECT.json` under `findings`.

* **persistor_exclusion.** `commitSave` unlocks in its catch clause and throws;
  the catch clause of `saveCachedFiles` rolls back *without the mutex* and
  unlocks again. A thread that took the mutex in between loses it, so that two
  threads are in the critical section.
* **persistor_aborts.** SQLite rolls a transaction back by itself on some errors
  and `m_inTransaction` stays true. COMMIT fails, ROLLBACK fails, and the error
  leaves the catch clause through an exception specification that forbids it.
* **tracker_push.** The device is inserted again while it is scanned. `cancelScan`
  clears the flag, the scan thread finds a folder and creates a second thread from
  its callback (the flag is clear), which sees the flag still clear, leaves its
  loop and terminates the pool, while the first one goes on to push the next file.
* **tracker_recursion.** `onFileFound` drops every entry whose parent is not the
  root of the device; the header promises a recursive scan.
* **tracker_start_race.** The scan thread exists before `b_runThread` is set. If
  it tests the flag first it ends the process with nothing scanned.
* **tracker_cancel.** Once all folders are scanned the scan thread blocks in
  `g_async_queue_pop`. `cancelScan` clears a flag that the thread does not see
  and joins it for ever.

### Observations without a run

What modelling the code showed beside these; each is in the modules as it is in
the code.

* A failed `sqlite3_open` leaves a closed handle in `m_dbConn`, and the next
  insertion closes it again (`CloseDatabase` of `DeviceManager`, where the
  process may end). `StaleHandleUnused` says that nobody saves through it.
* A `File` is deleted as soon as its rows are accepted, before the COMMIT. When that
  fails and SQLite rolls back, the whole batch is neither in the database nor in
  memory: `DeletedIsStored` is false with the fault `commitRollback`.
* `m_devicePath` is the new device's before the old scan is cancelled. If that path
  is a folder the old scan has still to read, its files are pushed, and stored in
  the old device's database: `StoredInItsDatabase` is false in the instance of
  `tracker_safe` with the second device mounted on `A/x`.
* The result of `stat` decides only whether the times and the size are filled in.
  If `stat` fails and TagLib can read the file all the same (a transient error, a
  device that is mounted again in between), the `File` is handed over, and stored,
  with these members uninitialised (`StatFile`).
* A guess that is trusted and does not convert is not followed by the table: the
  original bytes are stored, even if an entry of the table would have worked. The
  header says that the original is returned "if conversion was not possible";
  `DecodedInOrder` does not claim that.
* `composer` is filled with the artist (`SourceTag`): TagLib's generic tag has
  none. `DecodedInOrder` leaves it out.
* Increments of `m_allFilesProcessed` and entries of `m_processedByThread` can be
  lost (`Statistics`), and what is printed then misses a file; `PrintedInFull` and
  `CountedByThread` say what holds in spite of it.
* "Files Scanned" is always 0: `newFileScanned` is never called.
* After an extraction error the `File` is leaked (`LogFailure`).
* Without a single pool thread `terminate` waits for ever; the error that would
  have told is built and not thrown (`PoolStart`).

### How far a second device gets

Since `onScanTerminated` ends the process (`exit(0)`, marked "TODO remove"), a
scan thread never ends by itself, and the join in `cancelScan` never returns. So
`handleDeviceInserted` gets past `cancelScan` only when the flag is clear: at the
first insertion, and after an insertion whose `open` failed. In every other case
the second insertion either makes the scan thread leave its loop, and the
process ends from there, or waits for ever (`tracker_cancel`). The properties of
`tracker_safe` about a change of device hold in the program for that reason, and
their mutants show that they depend on it: without the join, or with a callback
that returns instead of exiting, files go to the wrong database, the pool is
freed twice, and deleted files are saved again. `scanner_contract` checks the
join itself, with callbacks that return.

### Bounds, and why they are enough

* *Two extraction threads, batches of two.* A batch of two has a first and a last
  file, so that a failure can hit one file and spare the other. Five files make
  two batches that overlap in two threads, and one file left for `flush`. The same
  instance shows in `persistor_faults` that nobody waits for the mutex for ever.
* *One metadata table.* The tables are filled by the same routine one after
  another; the theorems hold for any number.
* *Two insertions of two devices.* The second insertion meets every state the
  first one can leave; the same device may be inserted twice. A third insertion
  begins only after one whose `open` failed, since the main thread does not get
  past `cancelScan` otherwise; it meets what the second one met. The roots of the
  two are apart (see the observations).
* *Two scan threads.* No behaviour of `tracker_safe` creates a third: the
  instance has the same number of states with three, and one is always unborn.
* *Three requests and three threads* in `scanner_contract`: one scan that is
  cancelled, one that is started over what the first one left behind, and one
  more, each with a thread of its own, which is what a second join or a second
  live thread takes. The theorems hold for any number of both.
* *Folders.* The first device has two files and a folder that has a file and a
  folder: enough for a folder to be found by the scan thread and for entries two
  levels down. The safety properties were also checked, with the faults left
  out, on a root with one more file and three scan threads (1.1 million
  states).
* *Extraction.* Two threads race in pairs, which is all that an update of a
  counter or of the map tells apart; with `ThreadsMayFail` there may be one or
  none. Three files: of a registered extension in lower and in upper case, and of
  an extension nobody registered; more files than threads, so that a thread
  meets its own entry again. The tags of the first are the cases of the
  conversion: a trusted guess that converts, one trusted by one percent that does
  not, one that just fails to be trusted, and no guess and no conversion at all.
  Two of the thirteen extensions are registered.
* *Symmetry* (extraction threads, scan threads, files) is used only in runs
  without liveness properties. `persistor_faults`, which has one, makes the files
  in one order instead (`NextInTurn` of `MCPersistor`): they are interchangeable,
  and no fairness condition is about making them.

The `Tracker`, `Scanner` and `Extraction` configurations do not check for deadlock, since the
program does stop: the process exits, or it idles with the scan thread waiting
for a folder and the main loop waiting for a device, or `cancelScan` waits for a
sleeping thread.

### Fairness

`FairSpec` of the four specifications has weak fairness for each thread and
nothing else: the operating system runs every thread that can run. Waiting for a mutex,
a join, an empty queue or the pool is a disabled action. Weak fairness for a
thread that waits for a mutex says nothing while others keep taking it, but the
number of files is finite, and so is the number of times it is taken. Nobody is
obliged to call `saveFile`, `flush`, `startScanFolder` or `cancelScan`, to
insert or pull out a device, or to end a scan.
`tracker_live` has no missing pool threads, because a pool without threads never
drains (a listed hazard); `TerminateReturns` of `extraction` has them, and makes
an exception for a pool without any.

## 4. What is proved

The theorems hold for every value of the constants: any sets of threads and
files, any list of metadata tables and any batch size for the persistor; any
folders, threads and number of calls for the scanner; any files, tags,
extensions and threads, and every answer of ICU and `g_convert`, for the
extraction; any devices, folders, threads, number of insertions and batch size
for the whole program. Every safety property and every refinement that a passing
run checks has a theorem.

| theorem | states | hypothesis |
|---|---|---|
| `TypeCorrect` | `Spec => []TypeOK` | none: any faults |
| `MutexIsExclusive` | `Spec => []WriteLockExclusion` | `MildFaults` |
| `NoTransactionIsLeaked` | `Spec => []NoTransactionLeak` | `MildFaults` |
| `MetadataIsLinked` | `Spec => []RowsLinked` | `MildFaults` |
| `NoFileIsUsedAfterFree` | `Spec => []NoUseAfterFree` | none: any faults |
| `NoFileIsSavedTwice` | `Spec => []SavedOnce` | none: any faults |
| `NothingDeletedIsLost` | `Spec => []DeletedIsStored` | `MildFaults` |
| `PersistorImplementsFileStore` | `Spec => ImplementsFileStore` | `MildFaults` |
| `ScannerTypeCorrect` | `Spec => []TypeOK` of `ScannerClient` | none |
| `AtMostOneScanThread` | `Spec => []OneScanThread` | none |
| `NoThreadIsJoinedTwice` | `Spec => JoinedOnce` | none |
| `ScannerImplementsScanService` | `Spec => ImplementsScanService` | none |
| `TrackerTypeCorrect` | `Spec => []TypeOK` of `DeviceManager` | none |
| `ExtractionEndsBeforeFlush` | `Spec => []FlushAfterExtraction` | none |
| `PoolIsFreedOnce` | `Spec => []PoolFreedOnce` | none |
| `StaleHandleIsNotUsed` | `Spec => []StaleHandleUnused` | none |
| `NoPathIsExtractedTwice` | `Spec => []ExtractedOnce` | `PathsAreATree` |
| `NoObjectIsUsedAfterFree` | `Spec => []NoUseAfterFree` of `DeviceManager` | `PathsAreATree` |
| `FilesAreStoredAtHome` | `Spec => []StoredInItsDatabase` | `PathsAreATree`, `RootsApart` |
| `ExtractionTypeCorrect` | `Spec => []TypeOK` of `Extraction` | none |
| `SetUpIsSequential` | `Spec => SetUpBeforeThreads` | none |
| `TagsAreDecodedInOrder` | `Spec => []DecodedInOrder` | none |
| `NoFailureIsSilent` | `Spec => []FailuresAreReported` | none |
| `StatisticsAreComplete` | `Spec => []PrintedInFull` | none |
| `ThreadsCountEveryFile` | `Spec => []CountedByThread` | none |
| `DetailsImplementPool` | `Spec => ImplementsPool` | none |

### Hypotheses and assumptions

* `MildFaults` says that nothing but BEGIN and rejected INSERTs fail. In
  particular no COMMIT fails at all: one that leaves its transaction open breaks
  the exclusion just the same (`persistor_exclusion`). Nor can the rest be
  dropped: `persistor_aborts` is the counterexample for an INSERT on which SQLite
  rolls back, and a COMMIT on which it does loses files that were deleted.
* `PathsAreATree` is what a path is: an entry's path is its folder's with one
  more name (`onFileFound` builds it so), so it lies in one folder and is deeper
  than that. The parameter `Contents` alone would allow a folder to contain
  itself. (A file system with links is walked by paths all the same.) The
  instances of `MCTracker` are such trees.
* `RootsApart` says that no device is mounted on a folder below one that is
  scanned. It cannot be dropped either: with a second device mounted below the
  root of the first, TLC finds a file of one stored in the database of the other
  when the second is inserted. The other two theorems about files do without it.
* The `ASSUME`s of the modules: no table of metadata is called "files", a batch
  is not empty, the flusher is not an extraction thread; the client's thread and
  the NULL handle are not scan threads, and a folder has an entry; threads of the
  pool are neither scan threads nor the main thread (`WorkersAssumption`), and
  there is a media file (the model's threads have one in `task` before the
  first, which nothing reads); there are finitely many threads in the pool
  (`ThreadsAssumption` of `Extraction`: `THREAD_POOL_SIZE` is a number), each
  file has a suffix and a song, and the table's encodings are known to ICU. TLC
  evaluates them on every run.

### The persistor

*Type correctness* needs `TypeInv`. The type of a metadata row depends on its
thread being at a file of its batch (`AtFile`), which needs nobody to add to the
list `flush` iterates over (`FlushedFirst`), and the type of a rolled back table
depends on `durable` being within it (`SqlInv`, in `DatabaseProofs`).

*Exclusion* needs `ExclusionInv`: the holders of the mutex are exactly the
threads inside a save; the location of the holder determines `m_inTransaction`
and SQLite's transaction; and the locations on which the mutex is already lost
(`failedUnlock`, `rollbackSql`, `rollbackSet`) are not reached. From it, a holder
never sees a transaction that is not its own, so BEGIN, COMMIT and the test of
the flag always agree.

*Linking* needs `LinkInv` on top: at `rowid` the last rowid is that of the
thread's current file, and at `meta` `m_Id` is. By `ExclusionInv` no other thread
can INSERT in between.

*Use after free* needs `OwnInv`: a file is in one list, once, and is alive from
the thread's iterator onwards. That the list of the flusher is the queue itself,
where deleted pointers stay, is why it also says that nothing is with a worker
after `flush`. Neither the mutex nor the transaction matters here, so the
theorem holds under every fault. *Saving once* adds `RowInv`: a file that does
not exist yet, or that is still to be inserted, has no row. A rollback only
takes rows away.

*Deletion before COMMIT* needs `FreedInv`: a deleted file has a row, and the rows
that are not committed are those of the open transaction. When nobody holds the
mutex there is no transaction (`ExclusionInv`), so every row is committed.

*The refinement of `FileStore`* (`RefInv`) adds `StoreInv`: a row that is not
committed belongs to the batch of the thread that holds the mutex, and no file of
an unsettled batch is stored. The stages of a file then exclude each other
(`StagesExclude`), and each step is one of the abstract store or none: COMMIT
settles a batch, with the files that were rejected failing, a failed BEGIN
settles it with nothing stored, and everything else is hidden. `FileStore` counts
the queued files and the code takes the length of a list; they agree because no
file is queued twice (`QueueLength`).

### The scanner

*One scan thread* needs `ThreadInv`: outside `startScanFolder` and `cancelScan` a
clear flag means that no thread is alive, and a set flag that `m_thread` was
created after the last join. The race of `tracker_start_race` is in this model
too: it makes a thread end early, and does not break either fact, because the
flag is set afterwards.

*The refinement of `ScanService`* adds `ServiceInv`: no thread is alive while the
service is off. Since at most one thread is alive, the state of the service is
what that thread alone makes of it (`View`, `Alone`): the folder it has popped
and not opened is the first of the requests, the one it reads is the only one
visited, and what it has not read is what is left. A step is then compared with
the abstract one thread by thread (`LoopRefines`) and call by call
(`ClientRefines`).

### The whole program

*Who owns the pool.* `terminate` may be called by the main thread and by any scan
thread, and only `ThreadInv` keeps them apart: a scan thread that leaves its loop
ends the process and never returns, so the main thread, which would have to join
it, does not get past `cancelScan` once a scan was started; before that there is
no scan thread. Where two scan threads come from (`startScanFolder` on a scan
thread while the scan is cancelled) `ThreadInv` says that only one of them can be
on the way out. `PoolInv` ties the pool's state to the owner: `open` while the
threads are scanning, then closing, gone and null with the thread that frees it;
while it is not open nothing is in its queue, with its threads, or in their
batches (`Quiet`). A path that is on its way into the pool (`QueueFound`) is
queued only while the pool is open or waits for its threads, so that nothing
gets into one that has drained; a push to a pool that was freed
(`tracker_push`) puts nothing anywhere, and does not change who owns the pool.
The three properties follow without regard to files.

*Where a folder is.* `FolderInv` says that nothing is scanned twice: a folder that
was requested is in the queue, or with the thread about to push it, or with the
one that scans it, in one of these places, and what it has still to report was
not handled. `HandledInv` keeps a folder from being found below itself: what is
handled is deeper than the root, and was found in a folder that was requested.
This is where `PathsAreATree` comes in.

*Where a file is.* `OnceInv`: a file that was not handled is nowhere, and one that
was is in one place of the extraction. `BatchInv`: what is queued or in a batch is
alive, and no two of these lists share a file. The exception is the thread that
flushes: it deletes what the queue still points to, and the process ends with it.
`HomeInv`: what is in any of these places lies on the device whose database is
open; it is also what shows that a queue is empty whenever the database changes.

### The extraction

*The conversion* (`ConversionIsInOrder`) is a lemma about an operator: in the
only difficult case the entry that is chosen is the first that works, and one
exists because the table is finite (`FirstUsable`).

*What is handed over* (`TagsAreDecodedInOrder`) needs `OwnInv`: a path that is in the queue, or that a thread
works on, is nowhere else, because it was pushed once. Hence what one thread
writes to its `File` is neither another thread's nor handed over already, and
`FileInv` (what is known about a file, by the line its thread has reached) is
preserved.

*Failures* need `TraceInv`: a file that was pushed is in the queue, with a
thread, handed over, or printed; and `StageInv`, which ties the level and the
delegates of the logger, the state of the pool and the idleness of its threads
to the stage. *The refinement* maps the lines between `extract` and `save` to
one place of the abstract thread and the lines after it to `idle`; `StageInv`
gives the abstract pool its order.

*The counter* needs `CounterInv`: neither the counter nor what a thread has read
of it exceeds the number of files that are finished (`Finished`, the files pushed
less those in the queue and those with a thread), the counter is not zero once
one is finished, and it equals that number until two increments overlap. A write
of a stale value may lower the counter, but it finishes one file more than was
finished when the value was read. *The entries of the threads* need `MapInv`:
until the map is damaged the entries add up to the files counted, and a thread
that adds its entry has none. The community modules' sum over a set is a
recursive function, and the set of threads is a parameter: `IsSum` says that some
function satisfies the recursion and gives the number, `SumOfOneMore` that it
goes up by one with one entry, and `SumIsUnique` that only one function does, by
taking a least set of threads on which two would differ (proper inclusion is well
founded on finite sets, so this needs no induction schema). `MapThenSum` returns
from there to `MapThenSumSet`.

### How the invariants were found

Each was checked with TLC on the instance of a run before it was proved: those of
the persistor on `persistor_batches` and `persistor_faults`, the scanner's on
`scanner_contract`, the program's on `tracker_safe`, the extraction's on
`extraction`.

*Only model-checked:* the liveness properties `EveryBatchEnds`,
`CancelReturnsWhenAwake`, `TerminationExits`, `TasksAreProcessed` and
`TerminateReturns`, because fairness and `ENABLED` are beyond the proof system;
and the properties of the runs marked "violation", which TLC refutes.

## 5. What is left out, and why

* Strings: SQL text, paths, the bytes of a tag. A file, a folder, a table and an
  encoding are values. A value that SQL rejects is the fault `reject`.
* `DatabaseStatement`, `prepareStatement` and `saveParentFolderOrGetId`: the only
  call is commented out, so no state of the program reaches them (their static
  statement, which would outlive its database, is a matter for whoever revives
  that call). This is why `Database` and `FileDatabasePersistor` are listed as
  "partly". `getFileLastModified`, `newFileScanned`, `getLogLevel`,
  `removeObserver`, `newDeviceAdded`, `FORCE_TERMINATE`: never used.
* `checkAndCreateTables`: `open` either works, or fails with or without a
  connection.
* What the logger formats, and messages that are not about a failed file.
* A device that comes back. In `Extraction` it is pulled out for good. One that is
  mounted again would only make `stat` and TagLib disagree, and the outcome of
  `stat` is left out: the times and the size of a file, right or uninitialised.
* What GLib and the heap do with a pool that was freed, beyond the three outcomes
  of `Undefined`: a heap that is corrupted could break anything.
* Torn reads of `m_devicePath` (a `std::string` written by the main thread and
  read by scan threads): a read returns the old value or the new one. The same
  for the counters of `Statistics`.
* The destructors that run during `exit(0)` while other threads go on: `exited`
  ends the model.
* In `DeviceManager`, what failed COMMITs and rollbacks do to the mutex and to the
  process (`persistor_exclusion`, `persistor_aborts`): a batch succeeds, succeeds
  in part or is lost, and the process goes on.
* The properties of the whole program do not depend on how a push to a freed pool
  ends; that it happens is `tracker_push`.
* What the persistor does with a file between the observer's callback and the
  statistics is in `DeviceManager` (`FlushAfterExtraction`), not in `Extraction`.

## 6. Plan

Done: every component is modelled, except for the code that nothing calls; the
runs of section 3; and a theorem for every safety property and refinement they
check.

To prove next:

1. That `DeviceManager` restricted to its batches implements `FileStore`, so that
   the two levels of the persistor are tied by a theorem and not by the reading of
   section 2.
2. That `DeviceManager` implements `PoolSpec` seen from the pool, and that its
   scans are those of `ScanService` up to the first `onScanTerminated`.

To model, if the code changes: callbacks of a scan that goes on after
`onScanTerminated` returns (once the `exit(0)` marked "TODO remove" is removed),
where `tracker_safe`'s mutants show what would break; and the folder table, once
`saveParentFolderOrGetId` is called.
