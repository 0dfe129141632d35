--------------------------- MODULE DeviceStoreProofs ---------------------------
(***************************************************************************)
(* Every file of a device is extracted and stored at most once, in the     *)
(* database of its device: theorems about the files that go through        *)
(* DeviceManager.                                                          *)
(***************************************************************************)
EXTENDS DeviceManagerProofs

(***************************************************************************)
(* Paths: the parent of a path is a part of it, so a path lies in one      *)
(* folder, and deeper than that (onFileFound makes it as                   *)
(* parentFolder + "/" + fileName).                                         *)
(***************************************************************************)
Depths == {depth \in [Folders \cup Entries -> Nat] :
             \A d \in Folders : \A e \in Contents[d] : depth[e] > depth[d]}

PathsAreATree ==
  /\ \A c, d \in Folders : c # d => Contents[c] \cap Contents[d] = {}
  /\ Depths # {}

Depth == CHOOSE depth \in Depths : TRUE

(* The folders that devices are mounted on, ... *)
RootFolders == {RootOf[d] : d \in Devices}

(* ... and the case that none of them lies in a folder that is scanned.    *)
RootsApart == \A d \in Devices : RootOf[d] \notin Entries

(* The main thread has not yet pushed a device's folder. *)
NotPushed == NotStarted \/ pc[Main] \in Starting

(* Which device is noted, whose database is open, what is requested. *)
DeviceInv ==
  /\ pc[Main] # "idle" \/ ~NotStarted => deviceId \in Devices /\ devicePath = RootOf[deviceId]
  /\ pc[Main] = "startPool" => db = deviceId
  /\ pc[Main] \in Starting => startFolder[Main] = RootOf[db]

(* Before the root is pushed nothing is scanned. *)
PushInv ==
  NotPushed => /\ foldersToScan = << >> /\ handled = {}
               /\ \A t \in ScanThreads : pc[t] \notin Scanning

(* The root of the device whose database is open, or a folder that was     *)
(* handled: what is requested is one of these.                             *)
Known(d) == d = RootOf[db] \/ d \in handled

(* What is handled lies below the root, in folders that were requested. *)
HandledInv ==
  \A e \in handled : /\ Depth[e] > Depth[RootOf[db]]
                     /\ \A d \in Folders : e \in Contents[d] => Known(d)

(* A requested folder is in the queue, ... *)
QueueInv ==
  \A i \in DOMAIN foldersToScan :
    /\ Known(foldersToScan[i]) /\ Contents[foldersToScan[i]] \cap handled = {}
    /\ \A j \in DOMAIN foldersToScan : foldersToScan[i] = foldersToScan[j] => i = j
    /\ \A t \in ScanThreads :
         /\ pc[t] \in Scanning => folder[t] # foldersToScan[i]
         /\ pc[t] \in Starting => startFolder[t] # foldersToScan[i]

(* ... or with the thread that is about to push it, ... *)
StartInv ==
  \A t \in ScanThreads : pc[t] \in Starting =>
    /\ startFolder[t] \in handled /\ Contents[startFolder[t]] \cap handled = {}
    /\ \A s \in ScanThreads :
         pc[s] \in Starting /\ startFolder[s] = startFolder[t] => s = t

(* ... or with the thread that scans it, in one of these places. *)
HolderInv ==
  \A t \in ScanThreads : pc[t] \in Scanning =>
    /\ Known(folder[t])
    /\ \A s \in ScanThreads : pc[s] \in Scanning /\ folder[s] = folder[t] => s = t
    /\ \A s \in ScanThreads : pc[s] \in Starting => startFolder[s] # folder[t]
    /\ pc[t] = "open" => Contents[folder[t]] \cap handled = {}
    /\ pc[t] \in Enumerating => unread[t] \cap handled = {}
    /\ pc[t] = "found" => entry[t] \notin handled

(* What a thread of the scan has in hand comes from the folder it scans.   *)
EntryInv ==
  \A t \in ScanThreads :
    /\ pc[t] \in Enumerating => unread[t] \subseteq Contents[folder[t]]
    /\ pc[t] \in Enumerating \ {"read"} =>
         entry[t] \in Contents[folder[t]] /\ entry[t] \notin unread[t]
    /\ pc[t] \in {"push", "queue"} => entry[t] \in MediaFiles \cap handled /\ folder[t] \in RootFolders

(***************************************************************************)
(* No folder is requested twice and no entry handled twice: a folder is in *)
(* one place, and what it still has to report was not handled.             *)
(***************************************************************************)
FolderInv ==
  DeviceInv /\ PushInv /\ HandledInv /\ QueueInv /\ StartInv /\ HolderInv /\ EntryInv

(***************************************************************************)
(* Where a file is: waiting for a thread of the pool, or with one; queued  *)
(* by the persistor; in a batch.  Nowhere before it is handled, and in one *)
(* place after that.                                                       *)
(***************************************************************************)
Busy(w) == at[w] \in {"extract", "save"}

Unseen(f) ==
  /\ \A i \in DOMAIN tasks : tasks[i] # f
  /\ \A w \in Workers : Busy(w) => task[w] # f
  /\ object[f] = "none"

OnceInv ==
  /\ \A f \in MediaFiles : f \notin handled => Unseen(f)
  /\ \A t \in ScanThreads : pc[t] \in {"push", "queue"} => Unseen(entry[t])
  /\ \A i, j \in DOMAIN tasks : tasks[i] = tasks[j] => i = j
  /\ \A v, w \in Workers : Busy(v) /\ Busy(w) /\ task[v] = task[w] => v = w
  /\ \A w \in Workers : Busy(w) =>
       object[task[w]] = "none" /\ \A i \in DOMAIN tasks : tasks[i] # task[w]
  /\ \A i \in DOMAIN tasks : object[tasks[i]] = "none"

Saving == \E t \in ScanThreads : pc[t] \in {"saveRest", "exit", "ended"}

BatchInv ==
  /\ ~Saving => \A i \in DOMAIN queued : object[queued[i]] = "live"
  /\ \A t \in Savers : \A i \in DOMAIN batch[t] : object[batch[t][i]] = "live"
  /\ ~Saving => \A t \in Savers : \A i \in DOMAIN batch[t], j \in DOMAIN queued :
                  batch[t][i] # queued[j]
  /\ \A s, t \in Savers : s # t =>
       \A i \in DOMAIN batch[s], j \in DOMAIN batch[t] : batch[s][i] # batch[t][j]

(* What is extracted or saved lies on the device whose database is open. *)
HomeInv ==
  /\ \A i \in DOMAIN tasks : tasks[i] \in FilesOf(db)
  /\ \A w \in Workers : Busy(w) => task[w] \in FilesOf(db)
  /\ \A i \in DOMAIN queued : queued[i] \in FilesOf(db)
  /\ \A t \in Savers : \A i \in DOMAIN batch[t] : batch[t][i] \in FilesOf(db)
  /\ StoredInItsDatabase

(* What an entry is deeper than. *)
LEMMA TreeFacts ==
  ASSUME PathsAreATree
  PROVE  /\ \A d \in Folders : \A e \in Contents[d] : Depth[e] > Depth[d]
         /\ \A e \in Folders \cup Entries : Depth[e] \in Nat
         /\ \A c, d \in Folders : \A e \in Contents[c] : e \in Contents[d] => c = d
  <1>1. Depth \in Depths
    BY DEF PathsAreATree, Depth
  <1>2. \A c, d \in Folders : c # d => Contents[c] \cap Contents[d] = {}
    BY DEF PathsAreATree
  <1> QED
    BY <1>1, <1>2 DEF Depths

(* Before the first insertion. *)
LEMMA FolderInit == Init => FolderInv
  <1> SUFFICES ASSUME Init
               PROVE  FolderInv
    OBVIOUS
  <1>1. pc[Main] = "idle" /\ \A t \in ScanThreads : pc[t] = "unborn"
    BY CallersAssumption DEF Init, ScannerInit, Callers
  <1>2. foldersToScan = << >> /\ handled = {} /\ ~runThread
    BY DEF Init, ScannerInit
  <1>3. DOMAIN foldersToScan = {}
    BY <1>2
  <1> QED
    BY <1>1, <1>2, <1>3 DEF FolderInv, DeviceInv, PushInv, HandledInv, QueueInv, StartInv,
       HolderInv, EntryInv, NotStarted, Starting, Scanning, Enumerating, Creating

(***************************************************************************)
(* The steps that move no folder and no entry, and leave every scan thread *)
(* in its part of the loop.                                                *)
(***************************************************************************)
Idles ==
  /\ UNCHANGED <<deviceId, devicePath, handled, db, startFolder, foldersToScan>>
  /\ UNCHANGED <<folder, unread, entry>>
  /\ \A t \in ScanThreads :
       \/ pc'[t] = pc[t]
       \/ pc[t] \notin Scanning /\ pc'[t] \notin Scanning
       \/ pc[t] \in Starting /\ pc'[t] \in Starting
  /\ NotPushed' => NotPushed
  /\ pc'[Main] # "idle" \/ ~NotStarted' => pc[Main] # "idle" \/ ~NotStarted
  /\ pc'[Main] = "startPool" => pc[Main] = "startPool"
  /\ pc'[Main] \in Starting => pc[Main] \in Starting

(* They keep the invariant. *)
LEMMA FolderFrame ==
  ASSUME FolderInv, Idles
  PROVE  FolderInv'
  <1> USE DEF FolderInv, Idles
  <1>1. /\ \A t \in ScanThreads : pc'[t] \in Scanning => pc[t] \in Scanning
        /\ \A t \in ScanThreads : pc'[t] \in Enumerating => pc[t] \in Enumerating
        /\ \A t \in ScanThreads :
             pc'[t] \in Enumerating \ {"read"} => pc[t] \in Enumerating \ {"read"}
        /\ \A t \in ScanThreads :
             pc'[t] \in {"open", "found", "push", "queue"} => pc[t] = pc'[t]
        /\ \A t \in ScanThreads : pc'[t] \in Starting => pc[t] \in Starting
    BY DEF Scanning, Enumerating, Creating, Starting
  <1>2. DeviceInv'
    BY DEF DeviceInv
  <1>3. PushInv'
    BY <1>1 DEF PushInv
  <1>4. QueueInv'
    BY <1>1 DEF QueueInv, Known
  <1>5. HolderInv'
    BY <1>1 DEF HolderInv, Known
  <1>6. EntryInv'
    BY <1>1 DEF EntryInv
  <1>7. HandledInv'
    BY DEF HandledInv, Known
  <1>8. StartInv'
    BY <1>1 DEF StartInv
  <1> QED
    BY <1>2, <1>3, <1>4, <1>5, <1>6, <1>7, <1>8

(* A scan thread that scans keeps the device's folder from being pushed    *)
(* again: the scan was started.                                            *)
LEMMA ScanningIsPushed ==
  ASSUME PushInv, NEW t \in ScanThreads, pc[t] \in Scanning
  PROVE  ~NotPushed /\ ~NotStarted
  BY DEF PushInv, NotPushed

(* The steps of startScanFolder up to the push. *)
LEMMA StartIdles ==
  ASSUME OwnerInv, FolderInv, NEW t \in Callers,
         StartTest(t) \/ StartCreate(t) \/ StartReset(t) \/ StartSet(t),
         UNCHANGED Unused
  PROVE  Idles
  <1>1. pc \in [Callers -> CallerLocations]
    BY DEF OwnerInv, TypeOK
  <1> USE CallersAssumption, <1>1 DEF GoTo, Callers, Starting
  <1>2. /\ UNCHANGED <<deviceId, devicePath, handled, db, startFolder, foldersToScan>>
        /\ UNCHANGED <<folder, unread, entry>>
    BY DEF StartTest, StartCreate, StartReset, StartSet, Unused, deviceVars, enumVars
  <1>3. /\ pc[t] \in Starting /\ pc'[t] \in Starting
        /\ \A c \in Callers \ {t} : pc'[c] # pc[c] =>
             c \in ScanThreads /\ pc[c] = "unborn" /\ pc'[c] = "test"
    BY DEF StartTest, StartCreate, StartReset, StartSet, OwnerInv, ThreadInv, MainAt
  <1>4. UNCHANGED runThread \/ runThread' \/ pc[t] = "startReset"
    BY DEF StartTest, StartCreate, StartReset, StartSet, threadVars
  <1>5. \A s \in ScanThreads : \/ pc'[s] = pc[s]
                               \/ pc[s] \notin Scanning /\ pc'[s] \notin Scanning
                               \/ pc[s] \in Starting /\ pc'[s] \in Starting
    BY <1>3 DEF Scanning, Enumerating, Creating
  <1>6. CASE t = Main
    BY <1>2, <1>3, <1>5, <1>6 DEF Idles, NotPushed
  <1>7. CASE t \in ScanThreads
    <2>1. pc'[Main] = pc[Main]
      BY <1>3, <1>7
    <2>2. ~NotPushed /\ ~NotStarted
      BY <1>3, <1>7, ScanningIsPushed DEF FolderInv, Scanning, Enumerating, Creating
    <2>3. pc[t] = "startReset" => pc[Main] \in {"cancelRead", "join"}
      BY <1>7 DEF OwnerInv, ThreadInv, Creating
    <2>4. ~NotPushed' /\ ~NotStarted'
      BY <1>4, <2>1, <2>2, <2>3 DEF NotPushed, NotStarted
    <2> QED
      BY <1>2, <1>5, <2>1, <2>2, <2>4 DEF Idles
  <1> QED
    BY <1>6, <1>7

(* The other steps that move no folder and no entry. *)
LEMMA OtherIdles ==
  ASSUME OwnerInv, FolderInv, ~exited,
         \/ CancelScan
         \/ \E t \in Callers : Terminate(t) \/ Flush(t) \/ SaveRest(t)
         \/ \E t \in ScanThreads : ScanTest(t) /\ UNCHANGED Unused
         \/ \E t \in ScanThreads : Exit(t)
         \/ \E w \in Workers : WorkerStep(w)
         \/ UNCHANGED vars
  PROVE  Idles
  <1>1. pc \in [Callers -> CallerLocations]
    BY DEF OwnerInv, TypeOK
  <1> USE CallersAssumption, <1>1
      DEF GoTo, Callers, Starting, threadVars, enumVars, deviceVars, Unused
  <1>2. CASE CancelScan
    <2>1. CASE CancelJoin
      <3>1. joined \in ScanThreads /\ pc[joined] = "ended"
        BY <2>1 DEF CancelJoin, OwnerInv, ThreadInv, TypeOK
      <3> QED
        BY <3>1 DEF OwnerInv, ThreadInv
    <2>2. CASE CancelTest \/ CancelClear \/ CancelRead
      <3>1. /\ UNCHANGED <<deviceId, devicePath, handled, db, startFolder, foldersToScan>>
            /\ UNCHANGED <<folder, unread, entry>>
        BY <1>2, <2>2 DEF CancelScan, CancelTest, CancelClear, CancelRead
      <3>2. \A t \in ScanThreads : pc'[t] = pc[t]
        BY <2>2 DEF CancelTest, CancelClear, CancelRead
      <3>3. /\ NotPushed' => NotPushed
            /\ pc[Main] # "idle" /\ pc'[Main] # "startPool" /\ pc'[Main] \notin Starting
        BY <2>2 DEF CancelTest, CancelClear, CancelRead, NotPushed, NotStarted
      <3> QED
        BY <3>1, <3>2, <3>3 DEF Idles
    <2> QED
      BY <1>2, <2>1, <2>2 DEF CancelScan
  <1>3. ASSUME NEW t \in Callers, Terminate(t) \/ Flush(t) \/ SaveRest(t)
        PROVE  Idles
    <2>1. /\ UNCHANGED <<deviceId, devicePath, handled, db, startFolder, foldersToScan>>
          /\ UNCHANGED <<folder, unread, entry>> /\ UNCHANGED runThread
      BY <1>3 DEF Terminate, Flush, SaveRest
    <2>2. /\ pc[t] \in {"terminate", "drain", "forget", "flush", "saveRest"}
          /\ pc'[t] \in {"drain", "forget", "flush", "saveRest"}
               \cup (IF t = Main THEN {"close"} ELSE {"exit"})
          /\ \A c \in Callers \ {t} : pc'[c] = pc[c]
      BY <1>3 DEF Terminate, Flush, SaveRest, AfterFlush
    <2>3. \A s \in ScanThreads : \/ pc'[s] = pc[s]
                                 \/ pc[s] \notin Scanning /\ pc'[s] \notin Scanning
      BY <2>2 DEF Scanning, Enumerating, Creating
    <2>4. CASE t = Main
      <3>1. NotPushed
        BY <2>2, <2>4 DEF OwnerInv, ThreadInv, MainAt, NotPushed, NotStarted
      <3> QED
        BY <2>1, <2>2, <2>3, <2>4, <3>1 DEF Idles
    <2>5. CASE t \in ScanThreads
      BY <2>1, <2>2, <2>3, <2>5 DEF Idles, NotPushed, NotStarted
    <2> QED
      BY <2>4, <2>5
  <1>4. ASSUME NEW t \in ScanThreads, (ScanTest(t) /\ UNCHANGED Unused) \/ Exit(t)
        PROVE  Idles
    <2>1. /\ UNCHANGED <<deviceId, devicePath, handled, db, startFolder, foldersToScan>>
          /\ UNCHANGED <<folder, unread, entry>> /\ UNCHANGED runThread
      BY <1>4 DEF ScanTest, Exit
    <2>2. /\ pc[t] \in {"test", "exit"} /\ pc'[t] \in {"pop", "terminate", "ended"}
          /\ \A c \in Callers \ {t} : pc'[c] = pc[c]
      BY <1>4 DEF ScanTest, Exit
    <2>3. \A s \in ScanThreads : \/ pc'[s] = pc[s]
                                 \/ pc[s] \notin Scanning /\ pc'[s] \notin Scanning
      BY <2>2 DEF Scanning, Enumerating, Creating
    <2>4. pc'[Main] = pc[Main]
      BY <2>2
    <2> QED
      BY <2>1, <2>3, <2>4 DEF Idles, NotPushed, NotStarted
  <1>5. CASE (\E w \in Workers : WorkerStep(w)) \/ UNCHANGED vars
    <2>1. /\ UNCHANGED <<deviceId, devicePath, handled, db, startFolder, foldersToScan>>
          /\ UNCHANGED <<folder, unread, entry>> /\ UNCHANGED runThread /\ UNCHANGED pc
      BY <1>5 DEF WorkerStep, Extract, FileMetadataExtracted, SaveCachedFiles, scanVars, vars
    <2> QED
      BY <2>1 DEF Idles, NotPushed, NotStarted
  <1> QED
    BY <1>2, <1>3, <1>4, <1>5

(***************************************************************************)
(* The main thread's steps from the insertion to the push of the root.     *)
(***************************************************************************)
LEMMA InsertionKeepsFolders ==
  ASSUME OwnerInv, FolderInv,
         \/ \E d \in Devices : HandleDeviceInserted(d)
         \/ CloseDatabase \/ OpenDatabase \/ StartPool
  PROVE  FolderInv'
  <1>1. pc \in [Callers -> CallerLocations] /\ startFolder \in [Callers -> Folders]
    BY DEF OwnerInv, TypeOK
  <1> USE CallersAssumption, <1>1
      DEF GoTo, Callers, Starting, threadVars, enumVars, deviceVars
  <1>2. \A t \in ScanThreads : pc'[t] = pc[t]
    BY DEF HandleDeviceInserted, CloseDatabase, OpenDatabase, StartPool
  <1>3. UNCHANGED <<handled, foldersToScan>> /\ UNCHANGED <<folder, unread, entry, runThread>>
    BY DEF HandleDeviceInserted, CloseDatabase, OpenDatabase, StartPool
  <1>4. \A t \in ScanThreads : startFolder'[t] = startFolder[t]
    BY DEF HandleDeviceInserted, CloseDatabase, OpenDatabase, StartPool
  <1>5. NotPushed' => NotPushed
    <2>1. CASE \E d \in Devices : HandleDeviceInserted(d)
      BY <1>3, <2>1 DEF HandleDeviceInserted, NotPushed, NotStarted
    <2>2. CASE CloseDatabase \/ OpenDatabase \/ StartPool
      BY <2>2 DEF CloseDatabase, OpenDatabase, StartPool, OwnerInv, ThreadInv,
         NotPushed, NotStarted
    <2> QED
      BY <2>1, <2>2
  <1>6. PushInv'
    BY <1>2, <1>3, <1>5 DEF FolderInv, PushInv
  <1>7. EntryInv'
    BY <1>2, <1>3, <1>4 DEF FolderInv, EntryInv
  <1>8. CASE \E d \in Devices : HandleDeviceInserted(d)
    <2>1. UNCHANGED db
      BY <1>8 DEF HandleDeviceInserted
    <2>2. DeviceInv'
      BY <1>8 DEF HandleDeviceInserted, DeviceInv
    <2>3. QueueInv'
      BY <1>2, <1>3, <1>4, <2>1 DEF FolderInv, QueueInv, Known
    <2>4. HolderInv'
      BY <1>2, <1>3, <1>4, <2>1 DEF FolderInv, HolderInv, Known
    <2>5. HandledInv' /\ StartInv'
      BY <1>2, <1>3, <1>4, <2>1 DEF FolderInv, HandledInv, StartInv, Known
    <2> QED
      BY <1>6, <1>7, <2>2, <2>3, <2>4, <2>5 DEF FolderInv
  <1>9. CASE CloseDatabase \/ OpenDatabase \/ StartPool
    <2>1. NotPushed
      BY <1>9 DEF CloseDatabase, OpenDatabase, StartPool, OwnerInv, ThreadInv,
         NotPushed, NotStarted
    <2>2. /\ DOMAIN foldersToScan' = {} /\ handled' = {}
          /\ \A t \in ScanThreads : pc'[t] \notin Scanning
      BY <1>2, <1>3, <2>1 DEF FolderInv, PushInv
    <2>3. QueueInv' /\ HolderInv' /\ HandledInv' /\ StartInv'
      BY <2>2 DEF QueueInv, HolderInv, HandledInv, StartInv, Scanning, Enumerating, Creating
    <2>4. DeviceInv'
      BY <1>9 DEF CloseDatabase, OpenDatabase, StartPool, FolderInv, DeviceInv
    <2> QED
      BY <1>6, <1>7, <2>3, <2>4 DEF FolderInv
  <1> QED
    BY <1>8, <1>9

(* A folder is pushed: the root by the main thread, or an entry by a scan  *)
(* thread.                                                                 *)
LEMMA PushKeepsFolders ==
  ASSUME OwnerInv, FolderInv, NEW t \in Callers, StartPush(t), UNCHANGED Unused
  PROVE  FolderInv'
  <1>1. /\ pc \in [Callers -> CallerLocations] /\ startFolder \in [Callers -> Folders]
        /\ foldersToScan \in Seq(Folders)
    BY DEF OwnerInv, TypeOK
  <1> USE CallersAssumption, <1>1
      DEF GoTo, Callers, threadVars, enumVars, deviceVars, Unused
  <1> DEFINE q == foldersToScan
             n == Len(foldersToScan)
  <1>2. /\ UNCHANGED <<deviceId, devicePath, handled, db, startFolder, runThread>>
        /\ UNCHANGED <<folder, unread, entry>>
    BY DEF StartPush
  <1>3. /\ n \in Nat /\ DOMAIN q = 1..n /\ DOMAIN q' = 1..(n + 1)
        /\ \A i \in 1..n : q'[i] = q[i]
        /\ q'[n + 1] = startFolder[t]
    BY LenProperties, AppendProperties DEF StartPush
  <1> HIDE DEF q, n
  <1>4. CASE t = Main
    <2>1. pc[Main] = "startPush" /\ pc'[Main] = "idle" /\ runThread
          /\ \A s \in ScanThreads : pc'[s] = pc[s]
      BY <1>4 DEF StartPush, OwnerInv, ThreadInv
    <2>2. NotPushed /\ ~NotPushed' /\ ~NotStarted'
      BY <1>2, <2>1 DEF NotPushed, NotStarted, Starting
    <2>3. /\ foldersToScan = << >> /\ handled = {} /\ \A s \in ScanThreads : pc'[s] \notin Scanning
          /\ startFolder[Main] = RootOf[db]
      BY <2>1, <2>2 DEF FolderInv, PushInv, DeviceInv, Starting
    <2>4. n = 0
      BY <2>3 DEF n
    <2>5. DOMAIN q' = {1} /\ q'[1] = RootOf[db]
      BY <1>3, <1>4, <2>3, <2>4
    <2>6. \A s \in ScanThreads : pc'[s] \notin Enumerating /\ pc'[s] \notin Starting
      BY <2>3 DEF Starting, Scanning, Enumerating, Creating
    <2>7. QueueInv'
      BY <1>2, <2>3, <2>5, <2>6 DEF QueueInv, q, Known
    <2>8. DeviceInv' /\ PushInv'
      BY <1>2, <2>1, <2>2 DEF FolderInv, DeviceInv, PushInv, Starting
    <2>9. HandledInv' /\ StartInv' /\ HolderInv' /\ EntryInv'
      BY <1>2, <2>3, <2>6 DEF HandledInv, StartInv, HolderInv, EntryInv, Enumerating
    <2> QED
      BY <2>7, <2>8, <2>9 DEF FolderInv
  <1>5. CASE t \in ScanThreads
    <2>1. pc[t] = "startPush" /\ pc'[t] = "read" /\ \A c \in Callers \ {t} : pc'[c] = pc[c]
      BY <1>5 DEF StartPush
    <2>2. pc[t] \in Starting /\ pc'[t] \notin Starting
      BY <2>1 DEF Starting
    <2>3. /\ pc[t] \in Scanning /\ pc'[t] \in Scanning
          /\ pc[t] \in Enumerating /\ pc'[t] \in Enumerating
      BY <2>1 DEF Scanning, Enumerating, Creating
    <2>4. \A s \in ScanThreads : /\ pc'[s] \in Scanning => pc[s] \in Scanning
                                 /\ pc'[s] \in Enumerating => pc[s] \in Enumerating
                                 /\ pc'[s] \in Starting => pc[s] \in Starting /\ s # t
                                 /\ pc'[s] # "read" => pc'[s] = pc[s]
      BY <2>1, <2>2, <2>3
    <2>5. ~NotPushed /\ pc'[Main] = pc[Main]
      BY <1>5, <2>1, <2>3, ScanningIsPushed DEF FolderInv
    <2>6. DeviceInv' /\ PushInv'
      BY <1>2, <2>5 DEF FolderInv, DeviceInv, PushInv, NotPushed, NotStarted
    <2>7. QueueInv'
      <3> DEFINE new == startFolder[t]
      <3>1. /\ new \in handled /\ Contents[new] \cap handled = {}
            /\ \A s \in ScanThreads :
                 /\ pc[s] \in Scanning => folder[s] # new
                 /\ pc[s] \in Starting /\ s # t => startFolder[s] # new
            /\ \A i \in DOMAIN q : q[i] # new
        BY <1>5, <2>2 DEF FolderInv, QueueInv, StartInv, HolderInv, q
      <3>2. \A i \in DOMAIN q' : \/ i \in DOMAIN q /\ q'[i] = q[i]
                                 \/ i = n + 1 /\ q'[i] = new
        BY <1>3
      <3>3. \A i \in DOMAIN q :
              /\ Known(q[i]) /\ Contents[q[i]] \cap handled = {}
              /\ \A j \in DOMAIN q : q[i] = q[j] => i = j
              /\ \A s \in ScanThreads :
                   /\ pc[s] \in Scanning => folder[s] # q[i]
                   /\ pc[s] \in Starting => startFolder[s] # q[i]
        BY DEF FolderInv, QueueInv, q
      <3> HIDE DEF new
      <3>4. \A i \in DOMAIN q' :
              /\ Known(q'[i]) /\ Contents[q'[i]] \cap handled = {}
              /\ \A s \in ScanThreads :
                   /\ pc'[s] \in Scanning => folder[s] # q'[i]
                   /\ pc'[s] \in Starting => startFolder[s] # q'[i]
        BY <2>4, <3>1, <3>2, <3>3 DEF Known
      <3>5. \A i, j \in DOMAIN q' : q'[i] = q'[j] => i = j
        BY <3>1, <3>2, <3>3
      <3> QED
        BY <1>2, <3>4, <3>5 DEF QueueInv, q, Known
    <2>8. HandledInv' /\ StartInv'
      BY <1>2, <2>4 DEF FolderInv, HandledInv, StartInv, Known
    <2>9. HolderInv'
      BY <1>2, <2>4 DEF FolderInv, HolderInv, Known
    <2>10. EntryInv'
      BY <1>2, <2>4 DEF FolderInv, EntryInv
    <2> QED
      BY <2>6, <2>7, <2>8, <2>9, <2>10 DEF FolderInv
  <1> QED
    BY <1>4, <1>5

(* A scan thread takes a folder from the queue. *)
LEMMA PopKeepsFolders ==
  ASSUME OwnerInv, FolderInv, NEW t \in ScanThreads, ScanPop(t), UNCHANGED Unused
  PROVE  FolderInv'
  <1>1. /\ pc \in [Callers -> CallerLocations] /\ folder \in [ScanThreads -> Folders]
        /\ foldersToScan \in Seq(Folders)
    BY DEF OwnerInv, TypeOK
  <1> USE CallersAssumption, <1>1
      DEF GoTo, Callers, threadVars, enumVars, deviceVars, Unused
  <1> DEFINE q == foldersToScan
             n == Len(foldersToScan)
  <1>2. /\ UNCHANGED <<deviceId, devicePath, handled, db, startFolder, runThread>>
        /\ UNCHANGED <<unread, entry>>
        /\ pc[t] = "pop" /\ pc'[t] = "open" /\ \A c \in Callers \ {t} : pc'[c] = pc[c]
        /\ \A s \in ScanThreads \ {t} : folder'[s] = folder[s]
    BY DEF ScanPop
  <1>3. /\ n \in Nat /\ DOMAIN q = 1..n /\ 1 \in 1..n /\ folder'[t] = q[1]
        /\ DOMAIN q' = 1..(n - 1) /\ \A i \in 1..(n - 1) : q'[i] = q[i + 1]
    <2>1. q # << >> /\ q' = Tail(q) /\ folder'[t] = Head(q)
      BY DEF ScanPop
    <2>2. n \in Nat /\ DOMAIN q = 1..n /\ n > 0
      BY <2>1, LenProperties, EmptySeq
    <2>3. /\ Head(q) = q[1] /\ Tail(q) \in Seq(Folders) /\ Len(Tail(q)) = n - 1
          /\ \A i \in 1..Len(Tail(q)) : Tail(q)[i] = q[i + 1]
      BY <2>1, HeadTailProperties
    <2>4. DOMAIN Tail(q) = 1..Len(Tail(q))
      BY <2>3, LenProperties
    <2> QED
      BY <2>1, <2>2, <2>3, <2>4
  <1> HIDE DEF q, n
  <1>4. \A i \in DOMAIN q' : i + 1 \in DOMAIN q /\ i + 1 # 1 /\ q'[i] = q[i + 1]
    BY <1>3
  <1>5. 1 \in DOMAIN q
    BY <1>3
  <1>6. ~NotPushed /\ pc'[Main] = pc[Main]
    BY <1>2, <1>5 DEF FolderInv, PushInv, q
  <1>7. DeviceInv' /\ PushInv'
    BY <1>2, <1>6 DEF FolderInv, DeviceInv, PushInv, NotPushed, NotStarted
  <1>8. \A s \in ScanThreads \ {t} : pc'[s] = pc[s] /\ folder'[s] = folder[s]
    BY <1>2
  <1>9. EntryInv'
    BY <1>2, <1>8 DEF FolderInv, EntryInv, Starting, Enumerating, Creating
  <1>10. /\ pc[t] \notin Scanning /\ pc'[t] \notin Enumerating /\ pc'[t] \notin Starting
    BY <1>2 DEF Scanning, Enumerating, Starting, Creating
  <1>11. \A s \in ScanThreads : pc'[s] \in Starting => pc[s] \in Starting /\ s # t
    BY <1>8, <1>10
  <1>12. /\ Known(q[1]) /\ Contents[q[1]] \cap handled = {}
         /\ \A j \in DOMAIN q : q[j] = q[1] => j = 1
         /\ \A s \in ScanThreads : /\ pc[s] \in Scanning => folder[s] # q[1]
                                   /\ pc[s] \in Starting => startFolder[s] # q[1]
    BY <1>5 DEF FolderInv, QueueInv, q
  <1>13. QueueInv'
    <2>1. ASSUME NEW i \in DOMAIN q'
          PROVE  /\ Known(q'[i]) /\ Contents[q'[i]] \cap handled = {}
                 /\ \A j \in DOMAIN q' : q'[i] = q'[j] => i = j
                 /\ \A s \in ScanThreads :
                      /\ pc'[s] \in Scanning => folder'[s] # q'[i]
                      /\ pc'[s] \in Starting => startFolder[s] # q'[i]
      <3>1. /\ Known(q[i + 1]) /\ Contents[q[i + 1]] \cap handled = {}
            /\ \A j \in DOMAIN q : q[i + 1] = q[j] => i + 1 = j
            /\ \A s \in ScanThreads :
                 /\ pc[s] \in Scanning => folder[s] # q[i + 1]
                 /\ pc[s] \in Starting => startFolder[s] # q[i + 1]
        BY <1>4, <2>1 DEF FolderInv, QueueInv, q
      <3>2. folder'[t] # q'[i]
        BY <1>3, <1>4, <1>12, <2>1
      <3>3. \A j \in DOMAIN q' : q'[i] = q'[j] => i + 1 = j + 1
        BY <1>4, <2>1, <3>1
      <3>4. \A j \in DOMAIN q' : i + 1 = j + 1 => i = j
        BY <1>3, <2>1
      <3> QED
        BY <1>4, <1>8, <1>11, <2>1, <3>1, <3>2, <3>3, <3>4
    <2> QED
      BY <1>2, <2>1 DEF QueueInv, q, Known
  <1>14. HandledInv' /\ StartInv'
    BY <1>2, <1>11 DEF FolderInv, HandledInv, StartInv, Known
  <1>15. HolderInv'
    <2>1. ASSUME NEW s \in ScanThreads \ {t}, pc'[s] \in Scanning
          PROVE  pc[s] \in Scanning /\ folder[s] # q[1] /\ folder'[s] = folder[s]
      BY <1>8, <1>12, <2>1
    <2>2. /\ pc'[t] = "open" /\ folder'[t] = q[1]
          /\ pc'[t] # "found"
      BY <1>2, <1>3
    <2>3. ASSUME NEW s \in ScanThreads \ {t}, pc'[s] \in Scanning
          PROVE  /\ Known(folder'[s])
                 /\ \A u \in ScanThreads : pc'[u] \in Scanning /\ folder'[u] = folder'[s] => u = s
                 /\ \A u \in ScanThreads : pc'[u] \in Starting => startFolder[u] # folder'[s]
                 /\ pc'[s] = "open" => Contents[folder'[s]] \cap handled = {}
                 /\ pc'[s] \in Enumerating => unread[s] \cap handled = {}
                 /\ pc'[s] = "found" => entry[s] \notin handled
      BY <1>8, <1>11, <2>1, <2>2, <2>3 DEF FolderInv, HolderInv
    <2>4. /\ Known(folder'[t])
          /\ \A u \in ScanThreads : pc'[u] \in Scanning /\ folder'[u] = folder'[t] => u = t
          /\ \A u \in ScanThreads : pc'[u] \in Starting => startFolder[u] # folder'[t]
          /\ Contents[folder'[t]] \cap handled = {}
      BY <1>11, <1>12, <2>1, <2>2
    <2> QED
      BY <1>2, <1>10, <2>2, <2>3, <2>4 DEF HolderInv, Known
  <1> QED
    BY <1>7, <1>9, <1>13, <1>14, <1>15 DEF FolderInv

(* A scan thread opens its folder, reads an entry, or is done with it. *)
LEMMA EnumerationKeepsFolders ==
  ASSUME OwnerInv, FolderInv, NEW t \in ScanThreads,
         ScanOpen(t) \/ ScanRead(t) \/ ScanEnd(t), UNCHANGED Unused
  PROVE  FolderInv'
  <1>1. /\ pc \in [Callers -> CallerLocations] /\ folder \in [ScanThreads -> Folders]
        /\ unread \in [ScanThreads -> SUBSET Entries] /\ entry \in [ScanThreads -> Entries]
    BY DEF OwnerInv, TypeOK
  <1> USE CallersAssumption, <1>1
      DEF GoTo, Callers, threadVars, enumVars, deviceVars, Unused
  <1>2. /\ UNCHANGED <<deviceId, devicePath, handled, db, startFolder, runThread>>
        /\ UNCHANGED <<foldersToScan, folder>>
        /\ pc[t] \in {"open", "read"} /\ pc'[t] \in {"read", "test", "found"}
        /\ \A c \in Callers \ {t} : pc'[c] = pc[c]
        /\ \A s \in ScanThreads \ {t} : unread'[s] = unread[s] /\ entry'[s] = entry[s]
    BY DEF ScanOpen, ScanRead, ScanEnd
  <1>3. pc[t] \in Scanning
    BY <1>2 DEF Scanning, Enumerating
  <1>4. ~NotPushed /\ pc'[Main] = pc[Main]
    BY <1>2, <1>3, ScanningIsPushed DEF FolderInv
  <1>5. DeviceInv' /\ PushInv'
    BY <1>2, <1>4 DEF FolderInv, DeviceInv, PushInv, NotPushed, NotStarted
  <1>6. \A s \in ScanThreads : pc'[s] \in Scanning => pc[s] \in Scanning
    BY <1>2, <1>3
  <1>7. \A s \in ScanThreads : pc'[s] \in Starting => pc[s] \in Starting
    BY <1>2 DEF Starting
  <1>8. QueueInv' /\ HandledInv' /\ StartInv'
    BY <1>2, <1>6, <1>7 DEF FolderInv, QueueInv, HandledInv, StartInv, Known
  <1>9. \/ pc[t] = "open" /\ pc'[t] = "read" /\ unread'[t] = Contents[folder[t]]
        \/ pc'[t] = "test"
        \/ /\ pc[t] = "read" /\ pc'[t] = "found"
           /\ entry'[t] \in unread[t] /\ unread'[t] = unread[t] \ {entry'[t]}
    BY DEF ScanOpen, ScanRead, ScanEnd
  <1>10. /\ pc'[t] = "read" => unread'[t] = Contents[folder[t]] /\ pc[t] = "open"
         /\ pc'[t] = "found" =>
              /\ unread'[t] \subseteq unread[t] /\ entry'[t] \notin unread'[t]
              /\ entry'[t] \in unread[t] /\ pc[t] \in Enumerating
         /\ pc'[t] \notin {"open", "push", "queue"} /\ pc'[t] \notin Starting
         /\ pc'[t] \in Enumerating => pc'[t] \in {"read", "found"}
    BY <1>2, <1>9 DEF Enumerating, Starting, Creating
  <1>11. HolderInv'
    <2>1. ASSUME NEW s \in ScanThreads, pc'[s] \in Scanning
          PROVE  /\ pc'[s] = "open" => Contents[folder[s]] \cap handled = {}
                 /\ pc'[s] \in Enumerating => unread'[s] \cap handled = {}
                 /\ pc'[s] = "found" => entry'[s] \notin handled
      <3>1. CASE s = t
        BY <1>3, <1>10, <3>1 DEF FolderInv, HolderInv
      <3>2. CASE s # t
        BY <1>2, <1>6, <2>1, <3>2 DEF FolderInv, HolderInv
      <3> QED
        BY <3>1, <3>2
    <2>2. ASSUME NEW s \in ScanThreads, pc'[s] \in Scanning
          PROVE  /\ Known(folder[s])
                 /\ \A u \in ScanThreads : pc'[u] \in Scanning /\ folder[u] = folder[s] => u = s
                 /\ \A u \in ScanThreads : pc'[u] \in Starting => startFolder[u] # folder[s]
      BY <1>6, <1>7, <2>2 DEF FolderInv, HolderInv
    <2> QED
      BY <1>2, <2>1, <2>2 DEF HolderInv, Known
  <1>12. EntryInv'
    BY <1>2, <1>10 DEF FolderInv, EntryInv
  <1> QED
    BY <1>5, <1>8, <1>11, <1>12 DEF FolderInv

(***************************************************************************)
(* onFileFound: the entry that is handled now was not handled, nor is it   *)
(* in any of the places, for these hold the root and handled folders.      *)
(***************************************************************************)
LEMMA FoundIsNew ==
  ASSUME OwnerInv, FolderInv, PathsAreATree, NEW t \in ScanThreads, pc[t] = "found"
  PROVE  /\ entry[t] \notin handled /\ ~Known(entry[t]) /\ Known(folder[t])
         /\ entry[t] \in Contents[folder[t]] /\ entry[t] \notin unread[t]
         /\ Depth[entry[t]] > Depth[RootOf[db]]
         /\ entry[t] \in Folders => Contents[entry[t]] \cap (handled \cup {entry[t]}) = {}
         /\ \A d \in Folders : d # folder[t] => entry[t] \notin Contents[d]
  <1>1. pc[t] \in Scanning /\ pc[t] \in Enumerating \ {"read"}
    BY DEF Scanning, Enumerating
  <1>2. /\ entry[t] \notin handled /\ Known(folder[t])
        /\ entry[t] \in Contents[folder[t]] /\ entry[t] \notin unread[t]
    BY <1>1 DEF FolderInv, HolderInv, EntryInv
  <1>3. folder[t] \in Folders /\ entry[t] \in Entries /\ handled \subseteq Entries
    BY DEF OwnerInv, TypeOK
  <1>4. db \in Devices /\ RootOf[db] \in Folders
    BY <1>1, ScanningIsPushed, DevicesAssumption DEF OwnerInv, PoolInv, FolderInv
  <1>5. /\ Depth[entry[t]] > Depth[folder[t]]
        /\ Depth[entry[t]] \in Nat /\ Depth[folder[t]] \in Nat /\ Depth[RootOf[db]] \in Nat
    BY <1>2, <1>3, <1>4, TreeFacts
  <1>6. Depth[folder[t]] >= Depth[RootOf[db]]
    BY <1>2, <1>5 DEF Known, FolderInv, HandledInv
  <1>7. Depth[entry[t]] > Depth[RootOf[db]]
    BY <1>5, <1>6
  <1>8. ~Known(entry[t])
    BY <1>2, <1>5, <1>7 DEF Known
  <1>9. ASSUME entry[t] \in Folders, NEW x \in handled \cup {entry[t]}, x \in Contents[entry[t]]
        PROVE  FALSE
    <2>1. CASE x \in handled
      BY <1>8, <1>9, <2>1 DEF FolderInv, HandledInv
    <2>2. CASE x = entry[t]
      <3>1. Depth[entry[t]] > Depth[entry[t]]
        BY <1>9, <2>2, TreeFacts
      <3> QED
        BY <1>5, <3>1
    <2> QED
      BY <1>9, <2>1, <2>2
  <1>10. \A d \in Folders : d # folder[t] => entry[t] \notin Contents[d]
    BY <1>2, <1>3, TreeFacts
  <1> QED
    BY <1>2, <1>7, <1>8, <1>9, <1>10

(* onFileFound keeps the invariant. *)
LEMMA FoundKeepsFolders ==
  ASSUME OwnerInv, FolderInv, PathsAreATree, NEW t \in ScanThreads,
         FileFound(t) \/ PushFound(t) \/ QueueFound(t) \/ Undefined(t)
  PROVE  FolderInv'
  <1>1. /\ pc \in [Callers -> CallerLocations] /\ folder \in [ScanThreads -> Folders]
        /\ startFolder \in [Callers -> Folders] /\ entry \in [ScanThreads -> Entries]
        /\ foldersToScan \in Seq(Folders) /\ handled \subseteq Entries
    BY DEF OwnerInv, TypeOK
  <1> USE CallersAssumption, <1>1
      DEF GoTo, Callers, threadVars, enumVars, deviceVars
  <1> DEFINE e == entry[t]
  <1>2. /\ UNCHANGED <<deviceId, devicePath, db, runThread>>
        /\ UNCHANGED <<foldersToScan, folder, unread, entry>>
        /\ pc[t] \in {"found", "push", "queue"}
        /\ pc'[t] \in {"read", "startTest", "push", "queue", "hung"}
        /\ \A c \in Callers \ {t} : pc'[c] = pc[c] /\ startFolder'[c] = startFolder[c]
    BY DEF FileFound, PushFound, QueueFound, Undefined
  <1>3. /\ pc[t] \in Scanning /\ pc[t] \in Enumerating \ {"read"}
        /\ pc'[t] \in Scanning /\ pc'[t] \in Enumerating /\ pc'[t] \notin {"open", "found"}
    BY <1>2 DEF Scanning, Enumerating, Creating
  <1>4. ~NotPushed /\ ~NotStarted /\ pc'[Main] = pc[Main]
    BY <1>2, <1>3, ScanningIsPushed DEF FolderInv
  <1>5. startFolder'[Main] = startFolder[Main]
    BY <1>2
  <1>6. DeviceInv' /\ PushInv'
    BY <1>2, <1>4, <1>5 DEF FolderInv, DeviceInv, PushInv, NotPushed, NotStarted
  <1>7. \A s \in ScanThreads : pc'[s] \in Scanning => pc[s] \in Scanning
    BY <1>2, <1>3
  <1>8. \/ /\ pc'[t] \in {"read", "queue", "hung"} /\ UNCHANGED handled
           /\ startFolder'[t] = startFolder[t]
           /\ pc'[t] = "queue" => pc[t] \in {"push", "queue"}
        \/ /\ pc[t] = "found" /\ pc'[t] \in {"startTest", "push"}
           /\ folder[t] \in RootFolders /\ handled' = handled \cup {e}
           /\ pc'[t] = "startTest" => startFolder'[t] = e /\ e \in Folders
           /\ pc'[t] = "push" => e \in MediaFiles
    <2>1. devicePath \in RootFolders
      BY <1>4 DEF FolderInv, DeviceInv, RootFolders
    <2> QED
      BY <2>1, DevicesAssumption DEF FileFound, PushFound, QueueFound, Undefined
  <1>9. e \in Contents[folder[t]] /\ e \notin unread[t]
    BY <1>3 DEF FolderInv, EntryInv
  <1>10. EntryInv'
    BY <1>2, <1>3, <1>8, <1>9 DEF FolderInv, EntryInv
  <1>11. \A s \in ScanThreads \ {t} : pc'[s] = pc[s] /\ startFolder'[s] = startFolder[s]
    BY <1>2
  <1>12. CASE /\ pc'[t] \in {"read", "queue", "hung"} /\ UNCHANGED handled
              /\ startFolder'[t] = startFolder[t]
    <2>1. \A s \in ScanThreads : /\ pc'[s] \in Starting => pc[s] \in Starting
                                 /\ startFolder'[s] = startFolder[s]
      BY <1>11, <1>12 DEF Starting
    <2>2. \A s \in ScanThreads : /\ pc'[s] \in Enumerating => pc[s] \in Enumerating
                                 /\ pc'[s] \in {"open", "found"} => pc'[s] = pc[s]
      BY <1>3, <1>11
    <2>3. QueueInv' /\ HandledInv' /\ StartInv'
      BY <1>2, <1>7, <1>12, <2>1 DEF FolderInv, QueueInv, HandledInv, StartInv, Known
    <2>4. HolderInv'
      BY <1>2, <1>7, <1>12, <2>1, <2>2 DEF FolderInv, HolderInv, Known
    <2> QED
      BY <1>6, <1>10, <2>3, <2>4 DEF FolderInv
  <1>13. CASE /\ pc[t] = "found" /\ pc'[t] \in {"startTest", "push"} /\ handled' = handled \cup {e}
              /\ pc'[t] = "startTest" => startFolder'[t] = e /\ e \in Folders
    <2>1. /\ e \notin handled /\ ~Known(e) /\ Known(folder[t])
          /\ Depth[e] > Depth[RootOf[db]]
          /\ e \in Folders => Contents[e] \cap handled' = {}
          /\ \A d \in Folders : d # folder[t] => e \notin Contents[d]
      BY <1>13, FoundIsNew
    <2>2. \A d : Known(d)' <=> Known(d) \/ d = e
      BY <1>2, <1>13 DEF Known
    <2>3. /\ pc[t] \notin Starting
          /\ \A s \in ScanThreads : pc'[s] \in Starting =>
               \/ s = t /\ startFolder'[s] = e /\ e \in Folders
               \/ s # t /\ pc[s] \in Starting /\ startFolder'[s] = startFolder[s]
      BY <1>11, <1>13 DEF Starting
    <2>4. \A s \in ScanThreads : pc[s] \in Starting => pc[s] \in Scanning
      BY DEF Starting, Scanning, Enumerating, Creating
    <2> HIDE DEF e
    <2>5. HandledInv'
      <3>1. ASSUME NEW x \in handled'
            PROVE  /\ Depth[x] > Depth[RootOf[db]]
                   /\ \A d \in Folders : x \in Contents[d] => Known(d)
        <4>1. CASE x = e
          BY <2>1, <4>1
        <4>2. CASE x \in handled
          BY <4>2 DEF FolderInv, HandledInv
        <4> QED
          BY <1>13, <3>1, <4>1, <4>2
      <3> QED
        BY <1>2, <2>2, <3>1 DEF HandledInv
    (* what a place other than t's has to report is not the entry *)
    <2>6. \A d \in Folders : d # folder[t] /\ Contents[d] \cap handled = {} =>
            Contents[d] \cap handled' = {}
      BY <1>13, <2>1
    <2>7. QueueInv'
      <3>1. ASSUME NEW i \in DOMAIN foldersToScan
            PROVE  /\ Known(foldersToScan[i]) /\ foldersToScan[i] # folder[t]
                   /\ Contents[foldersToScan[i]] \cap handled' = {}
                   /\ \A s \in ScanThreads :
                        pc'[s] \in Starting => startFolder'[s] # foldersToScan[i]
        <4>1. /\ Known(foldersToScan[i]) /\ foldersToScan[i] # folder[t]
              /\ Contents[foldersToScan[i]] \cap handled = {}
              /\ \A s \in ScanThreads : pc[s] \in Starting => startFolder[s] # foldersToScan[i]
          BY <1>3, <3>1 DEF FolderInv, QueueInv
        <4>2. foldersToScan[i] \in Folders
          BY <3>1, ElementOfSeq
        <4>3. foldersToScan[i] # e
          BY <2>1, <4>1
        <4> QED
          BY <2>3, <2>6, <4>1, <4>2, <4>3
      <3>2. \A i \in DOMAIN foldersToScan :
              /\ \A j \in DOMAIN foldersToScan : foldersToScan[i] = foldersToScan[j] => i = j
              /\ \A s \in ScanThreads : pc'[s] \in Scanning => folder[s] # foldersToScan[i]
        BY <1>7 DEF FolderInv, QueueInv
      <3> QED
        BY <1>2, <2>2, <3>1, <3>2 DEF QueueInv
    <2>8. StartInv'
      <3>1. ASSUME NEW s \in ScanThreads \ {t}, pc'[s] \in Starting
            PROVE  /\ startFolder'[s] \in handled /\ startFolder'[s] # e
                   /\ Contents[startFolder'[s]] \cap handled' = {}
                   /\ \A u \in ScanThreads \ {t} :
                        pc'[u] \in Starting /\ startFolder'[u] = startFolder'[s] => u = s
        <4>1. pc[s] \in Starting /\ startFolder'[s] = startFolder[s]
          BY <2>3, <3>1
        <4>2. /\ startFolder[s] \in handled /\ Contents[startFolder[s]] \cap handled = {}
              /\ \A u \in ScanThreads :
                   pc[u] \in Starting /\ startFolder[u] = startFolder[s] => u = s
          BY <4>1 DEF FolderInv, StartInv
        <4>3. startFolder[s] # folder[t]
          BY <1>3, <4>1 DEF FolderInv, HolderInv
        <4>4. startFolder[s] \in Folders
          OBVIOUS
        <4> QED
          BY <2>1, <2>3, <2>6, <4>1, <4>2, <4>3, <4>4
      <3>2. \A s \in ScanThreads : pc'[s] \in Starting =>
              /\ startFolder'[s] \in handled'
              /\ Contents[startFolder'[s]] \cap handled' = {}
        BY <1>13, <2>1, <2>3, <3>1
      <3>3. \A s, u \in ScanThreads :
              pc'[s] \in Starting /\ pc'[u] \in Starting /\ startFolder'[u] = startFolder'[s]
                => u = s
        BY <2>3, <3>1
      <3> QED
        BY <3>2, <3>3 DEF StartInv
    <2>9. HolderInv'
      <3>1. ASSUME NEW s \in ScanThreads, pc'[s] \in Scanning
            PROVE  /\ Known(folder[s])
                   /\ \A u \in ScanThreads : pc'[u] \in Scanning /\ folder[u] = folder[s] => u = s
                   /\ \A u \in ScanThreads : pc'[u] \in Starting => startFolder'[u] # folder[s]
        <4>1. /\ Known(folder[s])
              /\ \A u \in ScanThreads : pc[u] \in Scanning /\ folder[u] = folder[s] => u = s
              /\ \A u \in ScanThreads : pc[u] \in Starting => startFolder[u] # folder[s]
          BY <1>7, <3>1 DEF FolderInv, HolderInv
        <4>2. folder[s] # e
          BY <2>1, <4>1
        <4> QED
          BY <1>7, <2>3, <4>1, <4>2
      <3>2. ASSUME NEW s \in ScanThreads \ {t}, pc'[s] \in Scanning
            PROVE  /\ pc'[s] = "open" => Contents[folder[s]] \cap handled' = {}
                   /\ pc'[s] \in Enumerating => unread[s] \cap handled' = {}
                   /\ pc'[s] = "found" => entry[s] \notin handled'
        <4>1. /\ pc'[s] = pc[s] /\ pc[s] \in Scanning /\ folder[s] \in Folders
          BY <1>11, <3>2
        <4>2. folder[s] # folder[t]
          BY <1>3, <3>2, <4>1 DEF FolderInv, HolderInv
        <4>3. e \notin Contents[folder[s]]
          BY <2>1, <4>1, <4>2
        <4>4. pc[s] \in Enumerating => unread[s] \subseteq Contents[folder[s]]
          BY <4>1 DEF FolderInv, EntryInv
        <4>5. pc[s] = "found" => entry[s] \in Contents[folder[s]]
          BY <4>1 DEF FolderInv, EntryInv, Enumerating
        <4>6. /\ pc[s] = "open" => Contents[folder[s]] \cap handled = {}
              /\ pc[s] \in Enumerating => unread[s] \cap handled = {}
              /\ pc[s] = "found" => entry[s] \notin handled
          BY <4>1 DEF FolderInv, HolderInv
        <4> QED
          BY <1>13, <4>1, <4>3, <4>4, <4>5, <4>6
      <3>3. unread[t] \cap handled' = {}
        BY <1>3, <1>9, <1>13 DEF FolderInv, HolderInv, e
      <3> QED
        BY <1>2, <1>3, <2>2, <3>1, <3>2, <3>3 DEF HolderInv
    <2> QED
      BY <1>6, <1>10, <2>5, <2>7, <2>8, <2>9 DEF FolderInv
  <1> QED
    BY <1>8, <1>12, <1>13

(* Every step keeps the invariant. *)
LEMMA FolderStep ==
  ASSUME OwnerInv, FolderInv, PathsAreATree, [Next]_vars
  PROVE  FolderInv'
  <1>1. ASSUME MainOnly, ~exited
        PROVE  FolderInv'
    BY <1>1, InsertionKeepsFolders, OtherIdles, FolderFrame DEF MainOnly
  <1>2. ASSUME NEW t \in Callers, CallerStep(t), ~exited
        PROVE  FolderInv'
    <2>1. CASE StartScanFolder(t)
      BY <2>1, StartIdles, PushKeepsFolders, FolderFrame DEF StartScanFolder
    <2>2. CASE Terminate(t) \/ Flush(t) \/ SaveRest(t)
      BY <1>2, <2>2, OtherIdles, FolderFrame
    <2> QED
      BY <1>2, <2>1, <2>2 DEF CallerStep
  <1>3. ASSUME NEW t \in ScanThreads, LoopStep(t), ~exited
        PROVE  FolderInv'
    <2>1. CASE ScanThread(t)
      BY <1>3, <2>1, OtherIdles, FolderFrame, PopKeepsFolders, EnumerationKeepsFolders
         DEF ScanThread
    <2>2. CASE FileFound(t) \/ PushFound(t) \/ QueueFound(t) \/ Undefined(t)
      BY <2>2, FoundKeepsFolders
    <2>3. CASE Exit(t)
      BY <1>3, <2>3, OtherIdles, FolderFrame
    <2> QED
      BY <1>3, <2>1, <2>2, <2>3 DEF LoopStep
  <1>4. ASSUME NEW w \in Workers, WorkerStep(w), ~exited
        PROVE  FolderInv'
    BY <1>4, OtherIdles, FolderFrame
  <1>5. CASE UNCHANGED vars
    <2>1. UNCHANGED <<runThread, deviceId, devicePath, handled, db, startFolder, foldersToScan>>
          /\ UNCHANGED <<folder, unread, entry, pc>>
      BY <1>5 DEF vars, scanVars, threadVars, enumVars, deviceVars
    <2> QED
      BY <2>1, FolderFrame DEF Idles, NotPushed, NotStarted
  <1> QED
    BY StepCases, <1>1, <1>2, <1>3, <1>4, <1>5

-----------------------------------------------------------------------------

(***************************************************************************)
(* A transaction frees objects of its own batch only, and stores them for  *)
(* the device whose database is open.                                      *)
(***************************************************************************)
LEMMA Transaction ==
  ASSUME TypeOK, NEW t \in Savers, SaveBatch(t)
  PROVE  /\ UNCHANGED queued /\ batch'[t] = << >>
         /\ \A s \in Savers \ {t} : batch'[s] = batch[s]
         /\ \A f \in MediaFiles : object'[f] # object[f] =>
              object'[f] = "freed" /\ \E i \in DOMAIN batch[t] : batch[t][i] = f
         /\ \A d \in Devices, f \in MediaFiles : f \in stored'[d] =>
              f \in stored[d] \/ (d = db /\ \E i \in DOMAIN batch[t] : batch[t][i] = f)
         /\ stored' \in [Devices -> SUBSET MediaFiles]
  <1>1. PICK F, S \in SUBSET (IF conn = "open" THEN Range(batch[t]) ELSE {}) :
          /\ object' = [f \in MediaFiles |-> IF f \in F THEN "freed" ELSE object[f]]
          /\ stored' = IF db \in Devices THEN [stored EXCEPT ![db] = @ \cup S]
                       ELSE stored
    BY DEF SaveBatch
  <1>2. \A f \in F \cup S : \E i \in DOMAIN batch[t] : batch[t][i] = f
    BY DEF Range
  <1>3. \A f \in MediaFiles : object'[f] # object[f] => object'[f] = "freed" /\ f \in F
    BY <1>1
  <1>4. \A d \in Devices, f \in MediaFiles : f \in stored'[d] =>
          f \in stored[d] \/ (d = db /\ f \in S)
    BY <1>1 DEF TypeOK
  <1> QED
    BY <1>2, <1>3, <1>4, SaveBatchType

(* Initially no file is anywhere. *)
LEMMA OnceInit == Init => OnceInv /\ BatchInv /\ HomeInv
  <1> SUFFICES ASSUME Init
               PROVE  OnceInv /\ BatchInv /\ HomeInv
    OBVIOUS
  <1>1. /\ \A t \in ScanThreads : pc[t] = "unborn"
        /\ DOMAIN tasks = {} /\ DOMAIN queued = {}
        /\ \A t \in Savers : DOMAIN batch[t] = {}
        /\ \A w \in Workers : at[w] = "idle"
        /\ \A f \in MediaFiles : object[f] = "none"
        /\ \A d \in Devices : stored[d] = {}
    BY CallersAssumption DEF Init, ScannerInit, PoolInit, Callers
  <1> QED
    BY <1>1 DEF OnceInv, BatchInv, HomeInv, Unseen, Busy, StoredInItsDatabase

(* No path becomes new to a thread of the pool or to its queue.            *)
LEMMA OnceFrame ==
  ASSUME TypeOK, OnceInv,
         UNCHANGED <<handled, tasks, task>>,
         \A w \in Workers : Busy(w)' => Busy(w),
         \A f \in MediaFiles : object[f] = "none" => object'[f] = "none",
         \A t \in ScanThreads : pc'[t] \in {"push", "queue"} =>
           pc[t] \in {"push", "queue"} /\ entry'[t] = entry[t],
         \A t \in ScanThreads : pc[t] \in {"push", "queue"} => entry[t] \in MediaFiles
  PROVE  OnceInv'
  <1>1. /\ \A i \in DOMAIN tasks : tasks[i] \in MediaFiles
        /\ \A w \in Workers : task[w] \in MediaFiles
    BY ElementOfSeq DEF TypeOK
  <1>2. \A f \in MediaFiles : Unseen(f) => Unseen(f)'
    BY DEF Unseen
  <1> QED
    BY <1>1, <1>2 DEF OnceInv

(* onFileFound chooses a path that was not handled, hence one not seen. *)
LEMMA FoundIsOnce ==
  ASSUME OwnerInv, FolderInv, OnceInv, NEW t \in ScanThreads, FileFound(t)
  PROVE  OnceInv'
  <1>1. /\ UNCHANGED <<tasks, task, at, object, entry, folder>>
        /\ pc[t] = "found" /\ pc'[t] # "queue" /\ \A s \in ScanThreads \ {t} : pc'[s] = pc[s]
    BY DEF FileFound, poolVars, storeVars, enumVars, GoTo, OwnerInv, TypeOK, Callers
  <1>2. \A f \in MediaFiles : Unseen(f)' <=> Unseen(f)
    BY <1>1 DEF Unseen, Busy
  <1>3. \A f \in MediaFiles : f \notin handled' => f \notin handled
    BY DEF FileFound
  <1>4. ASSUME pc'[t] = "push"
        PROVE  entry[t] \notin handled /\ entry[t] \in MediaFiles
    <2>1. pc[t] \in Scanning
      BY <1>1 DEF Scanning, Enumerating
    <2>2. entry[t] \notin Folders
      BY <1>4 DEF FileFound, GoTo, OwnerInv, TypeOK, Callers
    <2>3. entry[t] \notin handled
      BY <1>1, <2>1 DEF FolderInv, HolderInv
    <2>4. entry[t] \in Entries
      BY DEF OwnerInv, TypeOK
    <2> QED
      BY <2>2, <2>3, <2>4, DevicesAssumption
  <1>5. ASSUME NEW s \in ScanThreads, pc'[s] \in {"push", "queue"}
        PROVE  Unseen(entry[s]) /\ entry[s] \in MediaFiles
    <2>1. CASE s = t
      <3>1. pc'[t] = "push"
        BY <1>1, <1>5, <2>1
      <3>2. entry[t] \notin handled /\ entry[t] \in MediaFiles
        BY <1>4, <3>1
      <3> QED
        BY <2>1, <3>2 DEF OnceInv
    <2>2. CASE s # t
      BY <1>1, <1>5, <2>2 DEF OnceInv, OwnerInv, NamesInv
    <2> QED
      BY <2>1, <2>2
  <1> QED
    BY <1>1, <1>2, <1>3, <1>5 DEF OnceInv, Busy

(* The path is pushed to the pool. *)
LEMMA QueueIsOnce ==
  ASSUME OwnerInv, FolderInv, OnceInv, PathsAreATree, NEW t \in ScanThreads, QueueFound(t)
  PROVE  OnceInv'
  <1>1. /\ UNCHANGED <<task, at, object, entry, handled>>
        /\ pc[t] = "queue" /\ pc'[t] = "read"
        /\ \A s \in ScanThreads \ {t} : pc'[s] = pc[s]
    BY DEF QueueFound, PushFile, storeVars, enumVars, GoTo, OwnerInv, TypeOK, Callers
  <1>2. Unseen(entry[t]) /\ entry[t] \in MediaFiles /\ entry[t] \in handled
    BY <1>1 DEF OnceInv, OwnerInv, NamesInv, FolderInv, EntryInv
  <1>3. \A s \in ScanThreads \ {t} : pc[s] \in {"push", "queue"} => entry[s] # entry[t]
    <2>1. ASSUME NEW s \in ScanThreads, pc[s] \in {"push", "queue"}
          PROVE  entry[s] \in Contents[folder[s]] /\ pc[s] \in Scanning /\ folder[s] \in Folders
      BY <2>1 DEF FolderInv, EntryInv, Scanning, Enumerating, OwnerInv, TypeOK
    <2>2. \A s \in ScanThreads \ {t} : pc[s] \in {"push", "queue"} => folder[s] # folder[t]
      BY <1>1, <2>1 DEF FolderInv, HolderInv
    <2> QED
      BY <1>1, <2>1, <2>2, TreeFacts
  <1>4. tasks' = Append(tasks, entry[t])
    BY DEF QueueFound, PushFile
  <1>5. OnceInv'
    <2>1. tasks \in Seq(MediaFiles) /\ Len(tasks) \in Nat /\ DOMAIN tasks = 1..Len(tasks)
      BY LenProperties DEF OwnerInv, TypeOK
    <2>2. /\ DOMAIN tasks' = 1..(Len(tasks) + 1)
          /\ \A i \in 1..Len(tasks) : tasks'[i] = tasks[i]
          /\ tasks'[Len(tasks) + 1] = entry[t]
      BY <1>2, <1>4, <2>1, AppendProperties, LenProperties
    <2>3. \A i \in DOMAIN tasks' :
            \/ i \in DOMAIN tasks /\ tasks'[i] = tasks[i]
            \/ i = Len(tasks) + 1 /\ tasks'[i] = entry[t]
      BY <2>1, <2>2
    <2>4. \A f \in MediaFiles \ {entry[t]} : Unseen(f) => Unseen(f)'
      BY <1>1, <2>3 DEF Unseen, Busy
    <2>5. \A i, j \in DOMAIN tasks' : tasks'[i] = tasks'[j] => i = j
      BY <1>2, <2>3 DEF OnceInv, Unseen
    <2>6. \A i \in DOMAIN tasks' : object'[tasks'[i]] = "none"
      BY <1>1, <1>2, <2>3 DEF OnceInv, Unseen
    <2>7. \A w \in Workers : Busy(w) => \A i \in DOMAIN tasks' : tasks'[i] # task[w]
      BY <1>2, <2>3 DEF OnceInv, Unseen
    <2>8. ASSUME NEW s \in ScanThreads, pc'[s] \in {"push", "queue"}
          PROVE  Unseen(entry[s])'
      <3>1. s # t /\ pc[s] \in {"push", "queue"}
        BY <1>1, <2>8
      <3>2. entry[s] \in MediaFiles \ {entry[t]} /\ Unseen(entry[s])
        BY <1>3, <3>1 DEF OwnerInv, NamesInv, OnceInv
      <3>3. Unseen(entry[s])'
        BY <1>1, <2>3, <3>2 DEF Unseen, Busy
      <3> QED
        BY <3>3
    <2>9. \A f \in MediaFiles : f \notin handled' => Unseen(f)'
      BY <1>1, <1>2, <2>4 DEF OnceInv
    <2>10. /\ \A v, w \in Workers : Busy(v)' /\ Busy(w)' /\ task'[v] = task'[w] => v = w
           /\ \A w \in Workers : Busy(w)' => object'[task'[w]] = "none"
      BY <1>1 DEF OnceInv, Busy
    <2>11. \A w \in Workers : Busy(w)' => \A i \in DOMAIN tasks' : tasks'[i] # task'[w]
      BY <1>1, <2>7 DEF Busy
    <2> QED
      BY <2>5, <2>6, <2>8, <2>9, <2>10, <2>11 DEF OnceInv
  <1> QED
    BY <1>5

(* A thread of the pool takes the first path. *)
LEMMA TakeIsOnce ==
  ASSUME OwnerInv, OnceInv, NEW w \in Workers, TakeTask(w),
         UNCHANGED <<scanVars, object, handled>>
  PROVE  OnceInv'
  <1>1. /\ UNCHANGED <<object, entry, handled, pc>>
        /\ at[w] = "idle" /\ at'[w] = "extract" /\ tasks # << >>
        /\ tasks' = Tail(tasks) /\ task'[w] = Head(tasks)
        /\ \A v \in Workers \ {w} : at'[v] = at[v] /\ task'[v] = task[v]
    BY DEF TakeTask, scanVars, enumVars, OwnerInv, TypeOK
  <1>2. /\ tasks \in Seq(MediaFiles) /\ Len(tasks) \in Nat /\ DOMAIN tasks = 1..Len(tasks)
        /\ Len(tasks) > 0
    BY <1>1, LenProperties, EmptySeq DEF OwnerInv, TypeOK
  <1>3. /\ DOMAIN tasks' = 1..(Len(tasks) - 1) /\ task'[w] = tasks[1]
        /\ \A i \in 1..(Len(tasks) - 1) : tasks'[i] = tasks[i + 1]
    <2>1. /\ Head(tasks) = tasks[1] /\ Tail(tasks) \in Seq(MediaFiles)
          /\ Len(Tail(tasks)) = Len(tasks) - 1
          /\ \A i \in 1..Len(Tail(tasks)) : Tail(tasks)[i] = tasks[i + 1]
      BY <1>1, <1>2, HeadTailProperties
    <2>2. DOMAIN Tail(tasks) = 1..Len(Tail(tasks))
      BY <2>1, LenProperties
    <2> QED
      BY <1>1, <2>1, <2>2
  <1>4. /\ 1 \in DOMAIN tasks /\ tasks[1] \in MediaFiles
        /\ \A i \in DOMAIN tasks' : /\ i + 1 \in DOMAIN tasks /\ i + 1 # 1
                                    /\ tasks'[i] = tasks[i + 1]
    BY <1>2, <1>3, ElementOfSeq
  <1>5. \A i \in DOMAIN tasks' : tasks'[i] # tasks[1]
    BY <1>4 DEF OnceInv
  <1>6. \A i, j \in DOMAIN tasks' : tasks'[i] = tasks'[j] => i = j
    <2>1. \A i, j \in DOMAIN tasks' : tasks'[i] = tasks'[j] => i + 1 = j + 1
      BY <1>4 DEF OnceInv
    <2>2. \A i, j \in DOMAIN tasks' : i + 1 = j + 1 => i = j
      BY <1>3
    <2> QED
      BY <2>1, <2>2
  <1>7. \A f \in MediaFiles : Unseen(f) => Unseen(f)'
    <2> SUFFICES ASSUME NEW f \in MediaFiles, Unseen(f)
                 PROVE  Unseen(f)'
      OBVIOUS
    <2>1. f # tasks[1]
      BY <1>4 DEF Unseen
    <2> QED
      BY <1>1, <1>3, <1>4, <2>1 DEF Unseen, Busy
  <1>8. /\ \A t \in ScanThreads : pc'[t] \in {"push", "queue"} => Unseen(entry[t])'
        /\ \A f \in MediaFiles : f \notin handled' => Unseen(f)'
    BY <1>1, <1>7 DEF OnceInv, OwnerInv, NamesInv
  <1>9. /\ \A v \in Workers : Busy(v)' =>
             /\ object'[task'[v]] = "none"
             /\ \A i \in DOMAIN tasks' : tasks'[i] # task'[v]
        /\ \A v, u \in Workers : Busy(v)' /\ Busy(u)' /\ task'[v] = task'[u] => v = u
    BY <1>1, <1>3, <1>4, <1>5 DEF OnceInv, Busy
  <1>10. \A i \in DOMAIN tasks' : object'[tasks'[i]] = "none"
    BY <1>1, <1>4 DEF OnceInv
  <1> QED
    BY <1>6, <1>8, <1>9, <1>10 DEF OnceInv

(* The file that was extracted is queued, or completes a batch. *)
LEMMA QueuedIsOnce ==
  ASSUME OwnerInv, OnceInv, BatchInv, ~exited, NEW w \in Workers, FileMetadataExtracted(w)
  PROVE  OnceInv' /\ BatchInv'
  <1> USE WorkersAssumption
  <1>1. /\ UNCHANGED <<pc, entry, handled, tasks, task, stored>>
        /\ at[w] = "save" /\ at'[w] \in {"idle", "batch"}
        /\ \A v \in Workers \ {w} : at'[v] = at[v]
        /\ object' = [object EXCEPT ![task[w]] = "live"]
    BY DEF FileMetadataExtracted, scanVars, enumVars, OwnerInv, TypeOK
  <1>2. /\ task[w] \in MediaFiles /\ object[task[w]] = "none" /\ object'[task[w]] = "live"
        /\ \A f \in MediaFiles \ {task[w]} : object'[f] = object[f]
        /\ \A v \in Workers \ {w} : Busy(v) => task[v] # task[w]
        /\ \A i \in DOMAIN tasks : tasks[i] # task[w]
        /\ task[w] \in handled
    BY <1>1 DEF OnceInv, OwnerInv, TypeOK, Busy, Unseen
  <1>3. \A i \in DOMAIN tasks : tasks[i] \in MediaFiles
    BY ElementOfSeq DEF OwnerInv, TypeOK
  <1>4. \A f \in MediaFiles : Unseen(f) => Unseen(f)'
    BY <1>1, <1>2 DEF Unseen, Busy
  <1>5. OnceInv'
    <2>1. /\ \A t \in ScanThreads : pc'[t] \in {"push", "queue"} => Unseen(entry[t])'
          /\ \A f \in MediaFiles : f \notin handled' => Unseen(f)'
      BY <1>1, <1>4 DEF OnceInv, OwnerInv, NamesInv
    <2>2. \A v \in Workers : Busy(v)' => Busy(v) /\ v # w /\ task[v] \in MediaFiles
      BY <1>1 DEF Busy, OwnerInv, TypeOK
    <2>3. \A v \in Workers : Busy(v)' =>
            object'[task'[v]] = "none" /\ \A i \in DOMAIN tasks' : tasks'[i] # task'[v]
      BY <1>1, <1>2, <2>2 DEF OnceInv
    <2>4. /\ \A i \in DOMAIN tasks' : object'[tasks'[i]] = "none"
          /\ \A i, j \in DOMAIN tasks' : tasks'[i] = tasks'[j] => i = j
          /\ \A v, u \in Workers : Busy(v)' /\ Busy(u)' /\ task'[v] = task'[u] => v = u
      BY <1>1, <1>2, <1>3, <2>2 DEF OnceInv
    <2> QED
      BY <2>1, <2>3, <2>4 DEF OnceInv
  <1>6. ~Saving /\ ~Saving'
    <2>1. pool \notin {"null", "gone"}
      BY <1>1 DEF OwnerInv, PoolInv, Quiet
    <2> QED
      BY <1>1, <2>1 DEF OwnerInv, PoolInv, ThreadInv, Saving
  <1>7. /\ queued \in Seq(MediaFiles) /\ \A i \in DOMAIN queued : queued[i] \in MediaFiles
        /\ batch \in [Savers -> Seq(MediaFiles)]
        /\ \A t \in Savers : \A i \in DOMAIN batch[t] : batch[t][i] \in MediaFiles
        /\ w \in Savers
    BY ElementOfSeq DEF OwnerInv, TypeOK, Savers
  <1> DEFINE all == Append(queued, task[w])
  <1>8. \A i \in DOMAIN all : all[i] = task[w] \/ (i \in DOMAIN queued /\ all[i] = queued[i])
    <2>1. /\ Len(queued) \in Nat /\ DOMAIN queued = 1..Len(queued)
          /\ Len(all) = Len(queued) + 1 /\ DOMAIN all = 1..(Len(queued) + 1)
          /\ \A i \in 1..Len(queued) : all[i] = queued[i]
          /\ all[Len(queued) + 1] = task[w]
      BY <1>2, <1>7, LenProperties, AppendProperties
    <2>2. \A i \in 1..(Len(queued) + 1) : i \in 1..Len(queued) \/ i = Len(queued) + 1
      BY <2>1
    <2> QED
      BY <2>1, <2>2
  <1>9. \/ queued' = all /\ UNCHANGED batch
        \/ queued' = << >> /\ batch' = [batch EXCEPT ![w] = all]
    BY DEF FileMetadataExtracted
  <1>10. DOMAIN << >> = {}
    OBVIOUS
  <1> HIDE DEF all
  (* every file of the queue is live, and in no batch, with the new one *)
  <1>11. /\ \A i \in DOMAIN all : object'[all[i]] = "live"
         /\ \A t \in Savers : \A i \in DOMAIN batch[t], j \in DOMAIN all : batch[t][i] # all[j]
         /\ \A t \in Savers : \A i \in DOMAIN batch[t] : object'[batch[t][i]] = "live"
    <2>1. /\ \A i \in DOMAIN queued : object[queued[i]] = "live" /\ queued[i] # task[w]
          /\ \A t \in Savers : \A i \in DOMAIN batch[t] :
               object[batch[t][i]] = "live" /\ batch[t][i] # task[w]
          /\ \A t \in Savers : \A i \in DOMAIN batch[t], j \in DOMAIN queued :
               batch[t][i] # queued[j]
      BY <1>2, <1>6 DEF BatchInv
    <2>2. \A i \in DOMAIN all : object'[all[i]] = "live"
      BY <1>2, <1>7, <1>8, <2>1
    <2>3. \A t \in Savers : \A i \in DOMAIN batch[t], j \in DOMAIN all : batch[t][i] # all[j]
      BY <1>8, <2>1
    <2>4. \A t \in Savers : \A i \in DOMAIN batch[t] : object'[batch[t][i]] = "live"
      BY <1>2, <1>7, <2>1
    <2> QED
      BY <2>2, <2>3, <2>4
  <1>12. BatchInv'
    <2>1. CASE queued' = all /\ UNCHANGED batch
      BY <1>6, <1>11, <2>1 DEF BatchInv
    <2>2. CASE queued' = << >> /\ batch' = [batch EXCEPT ![w] = all]
      <3>1. /\ batch'[w] = all /\ \A t \in Savers \ {w} : batch'[t] = batch[t]
            /\ DOMAIN queued' = {}
        BY <1>7, <1>10, <2>2
      <3> QED
        BY <1>11, <3>1 DEF BatchInv
    <2> QED
      BY <1>9, <2>1, <2>2
  <1> QED
    BY <1>5, <1>12

(* The other steps of the callers move no path. *)
LEMMA CallersMoveNothing ==
  ASSUME OwnerInv,
         \/ MainOnly
         \/ \E t \in Callers : CallerStep(t)
         \/ \E t \in ScanThreads : ScanThread(t) \/ PushFound(t) \/ Undefined(t) \/ Exit(t)
  PROVE  /\ UNCHANGED <<handled, tasks, task, at>>
         /\ \A t \in ScanThreads :
              pc'[t] \in {"push", "queue"} =>
                pc[t] \in {"push", "queue"} /\ entry'[t] = entry[t]
         /\ \/ UNCHANGED <<object, stored>>
            \/ \E t \in Callers : SaveRest(t)
  <1>1. pc \in [Callers -> CallerLocations] /\ entry \in [ScanThreads -> Entries]
    BY DEF OwnerInv, TypeOK
  <1> USE CallersAssumption, <1>1
      DEF GoTo, Callers, threadVars, enumVars, poolVars, storeVars, Unused
  <1>2. CASE MainOnly
    BY <1>2 DEF MainOnly, HandleDeviceInserted, CancelScan, CancelTest, CancelClear, CancelRead,
       CancelJoin, CloseDatabase, OpenDatabase, StartPool, PoolStart
  <1>3. ASSUME NEW t \in Callers, StartScanFolder(t)
        PROVE  /\ UNCHANGED <<handled, tasks, task, at, object, stored>>
               /\ \A s \in ScanThreads :
                    pc'[s] \in {"push", "queue"} =>
                      pc[s] \in {"push", "queue"} /\ entry'[s] = entry[s]
    BY <1>3 DEF StartScanFolder, StartTest, StartCreate, StartReset, StartSet, StartPush
  <1>4. ASSUME NEW t \in Callers, Terminate(t) \/ Flush(t) \/ SaveRest(t)
        PROVE  /\ UNCHANGED <<handled, tasks, task, at>>
               /\ \A s \in ScanThreads :
                    pc'[s] \in {"push", "queue"} =>
                      pc[s] \in {"push", "queue"} /\ entry'[s] = entry[s]
               /\ UNCHANGED <<object, stored>> \/ SaveRest(t)
    BY <1>4 DEF Terminate, Flush, SaveRest, AfterFlush, PoolFree, PoolDrained, PoolForget
  <1>5. ASSUME NEW t \in ScanThreads,
               ScanThread(t) \/ PushFound(t) \/ Undefined(t) \/ Exit(t)
        PROVE  /\ UNCHANGED <<handled, tasks, task, at, object, stored>>
               /\ \A s \in ScanThreads :
                    pc'[s] \in {"push", "queue"} =>
                      pc[s] \in {"push", "queue"} /\ entry'[s] = entry[s]
    BY <1>5 DEF ScanThread, ScanTest, ScanPop, ScanOpen, ScanRead, ScanEnd, PushFound,
       Undefined, Exit
  <1> QED
    BY <1>2, <1>3, <1>4, <1>5 DEF CallerStep

(* Every path is extracted once. *)
LEMMA OnceStep ==
  ASSUME OwnerInv, FolderInv, OnceInv, BatchInv, PathsAreATree, [Next]_vars
  PROVE  OnceInv'
  <1>1. TypeOK /\ \A t \in ScanThreads : pc[t] \in {"push", "queue"} => entry[t] \in MediaFiles
    BY DEF OwnerInv, NamesInv
  <1>2. ASSUME NEW t \in Savers, SaveBatch(t)
        PROVE  \A f \in MediaFiles : object[f] = "none" => object'[f] = "none"
    BY <1>1, <1>2, Transaction DEF BatchInv
  <1>3. ASSUME \/ MainOnly
               \/ \E t \in Callers : CallerStep(t)
               \/ \E t \in ScanThreads : ScanThread(t) \/ PushFound(t) \/ Undefined(t) \/ Exit(t)
        PROVE  OnceInv'
    <2>1. /\ UNCHANGED <<handled, tasks, task, at>>
          /\ \A t \in ScanThreads :
               pc'[t] \in {"push", "queue"} =>
                pc[t] \in {"push", "queue"} /\ entry'[t] = entry[t]
          /\ \/ UNCHANGED <<object, stored>>
             \/ \E t \in Callers : SaveRest(t)
      BY <1>3, CallersMoveNothing
    <2>2. \A f \in MediaFiles : object[f] = "none" => object'[f] = "none"
      BY <1>2, <2>1 DEF SaveRest, Savers
    <2>3. \A w \in Workers : Busy(w)' => Busy(w)
      BY <2>1 DEF Busy
    <2> QED
      BY <1>1, <2>1, <2>2, <2>3, OnceFrame
  <1>4. ASSUME NEW t \in ScanThreads, FileFound(t) \/ QueueFound(t)
        PROVE  OnceInv'
    BY <1>4, FoundIsOnce, QueueIsOnce
  <1>5. ASSUME NEW w \in Workers, Extract(w)
        PROVE  OnceInv'
    <2>1. UNCHANGED <<scanVars, object, handled>> /\ UNCHANGED <<pc, entry>>
      BY <1>5 DEF Extract, storeVars, scanVars, enumVars
    <2>2. CASE TakeTask(w)
      BY <2>1, <2>2, TakeIsOnce
    <2>3. CASE ProcessFile(w)
      <3>1. UNCHANGED <<tasks, task>> /\ \A v \in Workers : Busy(v)' => Busy(v)
        BY <1>1, <2>3 DEF ProcessFile, Busy, TypeOK
      <3> QED
        BY <1>1, <2>1, <3>1, OnceFrame
    <2> QED
      BY <1>5, <2>2, <2>3 DEF Extract
  <1>6. ASSUME NEW w \in Workers, FileMetadataExtracted(w), ~exited
        PROVE  OnceInv'
    BY <1>6, QueuedIsOnce
  <1>7. ASSUME NEW w \in Workers, SaveCachedFiles(w)
        PROVE  OnceInv'
    <2>1. UNCHANGED <<handled, tasks, task, pc, entry>>
      BY <1>7 DEF SaveCachedFiles, scanVars, enumVars
    <2>2. \A v \in Workers : Busy(v)' => Busy(v)
      BY <1>1, <1>7 DEF SaveCachedFiles, Busy, TypeOK
    <2>3. \A f \in MediaFiles : object[f] = "none" => object'[f] = "none"
      BY <1>2, <1>7 DEF SaveCachedFiles, Savers
    <2> QED
      BY <1>1, <2>1, <2>2, <2>3, OnceFrame
  <1>8. CASE UNCHANGED vars
    <2>1. UNCHANGED <<handled, tasks, task, at, object, pc, entry>>
      BY <1>8 DEF vars, scanVars, enumVars, poolVars, storeVars
    <2> QED
      BY <1>1, <2>1, OnceFrame DEF Busy
  <1> QED
    BY StepCases, <1>3, <1>4, <1>5, <1>6, <1>7, <1>8 DEF LoopStep, WorkerStep

(* Nothing enters the queue or a batch, and nothing is freed. *)
LEMMA BatchFrame ==
  ASSUME BatchInv, UNCHANGED <<queued, batch, object>>, Saving => Saving'
  PROVE  BatchInv'
  BY DEF BatchInv

(* Every transaction frees objects that are in no other batch. *)
LEMMA TransactionKeepsOthers ==
  ASSUME OwnerInv, BatchInv, NEW t \in Savers, SaveBatch(t), Saving => Saving'
  PROVE  BatchInv'
  <1>1. /\ UNCHANGED queued /\ batch'[t] = << >> /\ DOMAIN batch'[t] = {}
        /\ \A s \in Savers \ {t} : batch'[s] = batch[s]
        /\ \A f \in MediaFiles : object'[f] # object[f] =>
             \E i \in DOMAIN batch[t] : batch[t][i] = f
    BY Transaction DEF OwnerInv
  <1>2. /\ \A i \in DOMAIN queued : queued[i] \in MediaFiles
        /\ \A s \in Savers : \A i \in DOMAIN batch[s] : batch[s][i] \in MediaFiles
    BY ElementOfSeq DEF OwnerInv, TypeOK
  <1>3. \A s \in Savers \ {t} : \A i \in DOMAIN batch[s] : object'[batch[s][i]] = "live"
    BY <1>1, <1>2 DEF BatchInv
  <1>4. ~Saving' => \A i \in DOMAIN queued : object'[queued[i]] = "live"
    BY <1>1, <1>2 DEF BatchInv
  <1> QED
    BY <1>1, <1>3, <1>4 DEF BatchInv

(* The flush takes what is in the queue, which is in no batch. *)
LEMMA FlushKeepsOthers ==
  ASSUME OwnerInv, BatchInv, ~exited, NEW t \in Callers, Flush(t)
  PROVE  BatchInv'
  <1>1. /\ pc \in [Callers -> CallerLocations] /\ batch \in [Savers -> Seq(MediaFiles)]
        /\ t \in Savers
    BY DEF OwnerInv, TypeOK, Savers
  <1>2. UNCHANGED <<queued, object>> /\ pc[t] = "flush"
    BY DEF Flush
  <1>3. CASE queued = << >>
    <2>1. UNCHANGED batch /\ \A s \in Callers \ {t} : pc'[s] = pc[s]
      BY <1>1, <1>3 DEF Flush, GoTo
    <2>2. Saving => Saving'
      BY <1>2, <2>1 DEF Saving, Callers
    <2> QED
      BY <1>2, <2>1, <2>2, BatchFrame
  <1>4. CASE queued # << >>
    <2>1. /\ pc'[t] = "saveRest" /\ batch'[t] = queued
          /\ \A s \in Savers \ {t} : batch'[s] = batch[s]
      BY <1>1, <1>4 DEF Flush, GoTo
    <2>2. t \in ScanThreads
      BY <1>2, <1>4 DEF OwnerInv, PoolInv, ThreadInv, NotStarted, Callers
    <2>3. ~Saving
      BY <1>2, <2>2 DEF OwnerInv, ThreadInv, Quitting, Freeing, Saving
    <2>4. Saving'
      BY <2>1, <2>2 DEF Saving
    <2> QED
      BY <1>2, <2>1, <2>3, <2>4 DEF BatchInv
  <1> QED
    BY <1>3, <1>4

(* Nobody frees what another thread has to save. *)
LEMMA BatchStep ==
  ASSUME OwnerInv, OnceInv, BatchInv, [Next]_vars
  PROVE  BatchInv'
  <1>1. pc \in [Callers -> CallerLocations]
    BY DEF OwnerInv, TypeOK
  <1> USE CallersAssumption, <1>1
      DEF GoTo, Callers, threadVars, enumVars, poolVars, storeVars, scanVars, Unused
  <1>2. CASE MainOnly
    <2>1. UNCHANGED <<queued, batch, object>> /\ \A s \in ScanThreads : pc'[s] = pc[s]
      BY <1>2 DEF MainOnly, HandleDeviceInserted, CancelScan, CancelTest, CancelClear,
         CancelRead, CancelJoin, CloseDatabase, OpenDatabase, StartPool
    <2> QED
      BY <2>1, BatchFrame DEF Saving
  <1>3. ASSUME NEW t \in Callers, StartScanFolder(t) \/ Terminate(t)
        PROVE  BatchInv'
    <2>1. UNCHANGED <<queued, batch, object>>
      BY <1>3 DEF StartScanFolder, Terminate
    <2>2. \A s \in ScanThreads : pc[s] \in {"saveRest", "exit", "ended"} => pc'[s] = pc[s]
      BY <1>3 DEF StartScanFolder, StartTest, StartCreate, StartReset, StartSet, StartPush,
         Terminate
    <2> QED
      BY <2>1, <2>2, BatchFrame DEF Saving
  <1>4. ASSUME NEW t \in Callers, SaveRest(t)
        PROVE  BatchInv'
    <2>1. t \in Savers /\ SaveBatch(t)
      BY <1>4 DEF SaveRest, Savers
    <2>2. t \in ScanThreads
      BY <1>4 DEF SaveRest, OwnerInv, ThreadInv, MainAt
    <2>3. pc'[t] = "exit"
      BY <1>4, <2>2 DEF SaveRest, AfterFlush
    <2>4. Saving'
      BY <2>2, <2>3 DEF Saving
    <2> QED
      BY <2>1, <2>4, TransactionKeepsOthers
  <1>5. ASSUME NEW t \in ScanThreads, LoopStep(t)
        PROVE  BatchInv'
    <2>1. UNCHANGED <<queued, batch, object>>
      BY <1>5 DEF LoopStep, ScanThread, FileFound, PushFound, QueueFound, PushFile,
         Undefined, Exit
    <2>2. \A s \in ScanThreads : pc[s] \in {"saveRest", "exit", "ended"} =>
            pc'[s] \in {"saveRest", "exit", "ended"}
      <3>1. CASE ScanThread(t)
        BY <3>1 DEF ScanThread, ScanTest, ScanPop, ScanOpen, ScanRead, ScanEnd
      <3>2. CASE FileFound(t) \/ PushFound(t) \/ QueueFound(t)
        BY <3>2 DEF FileFound, PushFound, QueueFound
      <3>3. CASE Undefined(t) \/ Exit(t)
        BY <3>3 DEF Undefined, Exit
      <3> QED
        BY <1>5, <3>1, <3>2, <3>3 DEF LoopStep
    <2> QED
      BY <2>1, <2>2, BatchFrame DEF Saving
  <1>6. ASSUME NEW w \in Workers, Extract(w)
        PROVE  BatchInv'
    <2>1. UNCHANGED <<queued, batch, object, pc>>
      BY <1>6 DEF Extract
    <2> QED
      BY <2>1, BatchFrame DEF Saving
  <1>7. ASSUME NEW w \in Workers, FileMetadataExtracted(w), ~exited
        PROVE  BatchInv'
    BY <1>7, QueuedIsOnce
  <1>8. ASSUME NEW w \in Workers, SaveCachedFiles(w)
        PROVE  BatchInv'
    <2>1. w \in Savers /\ SaveBatch(w) /\ UNCHANGED pc
      BY <1>8 DEF SaveCachedFiles, Savers
    <2> QED
      BY <2>1, TransactionKeepsOthers DEF Saving
  <1>9. CASE UNCHANGED vars
    BY <1>9, BatchFrame DEF vars, Saving
  <1> QED
    BY StepCases, <1>2, <1>3, <1>4, <1>5, <1>6, <1>7, <1>8, <1>9, FlushKeepsOthers
       DEF CallerStep, LoopStep, WorkerStep

-----------------------------------------------------------------------------

(* What is in hand stays, or becomes less, and the database is the same.   *)
LEMMA HomeFrame ==
  ASSUME HomeInv, UNCHANGED <<db, stored, tasks, task, queued, batch>>,
         \A w \in Workers : Busy(w)' => Busy(w)
  PROVE  HomeInv'
  BY DEF HomeInv, StoredInItsDatabase

(* The database changes hands only while nothing is in hand. *)
LEMMA NothingInHand ==
  ASSUME OwnerInv, NotStarted
  PROVE  /\ tasks = << >> /\ queued = << >>
         /\ \A w \in Workers : ~Busy(w)
         /\ \A t \in Savers : batch[t] = << >>
  <1>1. tasks = << >> /\ queued = << >> /\ \A w \in Workers : at[w] = "idle"
    BY DEF OwnerInv, PoolInv, Quiet
  <1>2. \A w \in Workers : ~Busy(w) /\ batch[w] = << >>
    BY <1>1 DEF OwnerInv, PoolInv, Busy
  <1>3. \A t \in Callers : pc[t] # "saveRest"
    BY DEF OwnerInv, ThreadInv, NotStarted, Callers
  <1> QED
    BY <1>1, <1>2, <1>3 DEF OwnerInv, PoolInv, Savers

(* Closing and opening a database finds nothing in hand. *)
LEMMA DatabaseStep ==
  ASSUME OwnerInv, HomeInv, CloseDatabase \/ OpenDatabase
  PROVE  HomeInv'
  <1>1. NotStarted
    BY DEF CloseDatabase, OpenDatabase, OwnerInv, ThreadInv, NotStarted
  <1>2. UNCHANGED <<stored, tasks, task, at, queued, batch>>
    BY DEF CloseDatabase, OpenDatabase, poolVars, storeVars
  <1>3. /\ DOMAIN tasks' = {} /\ DOMAIN queued' = {}
        /\ \A w \in Workers : ~Busy(w)'
        /\ \A t \in Savers : DOMAIN batch'[t] = {}
    <2>1. DOMAIN << >> = {}
      OBVIOUS
    <2> QED
      BY <1>1, <1>2, <2>1, NothingInHand DEF Busy
  <1> QED
    BY <1>2, <1>3 DEF HomeInv, StoredInItsDatabase

(* A file that is pushed lies on the device whose database is open. *)
LEMMA QueueIsHome ==
  ASSUME OwnerInv, FolderInv, HomeInv, RootsApart, NEW t \in ScanThreads, QueueFound(t)
  PROVE  HomeInv'
  <1>1. /\ UNCHANGED <<db, stored, task, at, queued, batch>> /\ pc[t] = "queue"
    BY DEF QueueFound, PushFile, storeVars
  <1>2. pc[t] \in Scanning /\ pc[t] \in Enumerating \ {"read"}
    BY <1>1 DEF Scanning, Enumerating
  <1>3. entry[t] \in FilesOf(db) /\ entry[t] \in MediaFiles
    <2>1. /\ entry[t] \in Contents[folder[t]] /\ entry[t] \in MediaFiles
          /\ folder[t] \in RootFolders /\ Known(folder[t])
      BY <1>1, <1>2 DEF FolderInv, EntryInv, HolderInv
    <2>2. folder[t] \notin handled
      BY <2>1 DEF RootsApart, RootFolders, OwnerInv, TypeOK
    <2> QED
      BY <2>1, <2>2 DEF Known, FilesOf
  <1>4. \A i \in DOMAIN tasks' : tasks'[i] \in FilesOf(db)
    <2>1. tasks' = Append(tasks, entry[t])
      BY DEF QueueFound, PushFile
    <2>2. \A i \in DOMAIN tasks' : tasks'[i] \in FilesOf(db)
      <3>1. tasks \in Seq(MediaFiles) /\ Len(tasks) \in Nat /\ DOMAIN tasks = 1..Len(tasks)
        BY LenProperties DEF OwnerInv, TypeOK
      <3>2. /\ DOMAIN tasks' = 1..(Len(tasks) + 1)
            /\ \A i \in 1..Len(tasks) : tasks'[i] = tasks[i]
            /\ tasks'[Len(tasks) + 1] = entry[t]
        BY <1>3, <2>1, <3>1, AppendProperties, LenProperties
      <3> QED
        BY <1>3, <3>1, <3>2 DEF HomeInv
    <2> QED
      BY <2>2
  <1> QED
    BY <1>1, <1>4 DEF HomeInv, StoredInItsDatabase, Busy

(* A thread of the pool takes a path, extracts it and hands it over. *)
LEMMA ExtractionIsHome ==
  ASSUME OwnerInv, HomeInv, NEW w \in Workers, Extract(w) \/ FileMetadataExtracted(w)
  PROVE  HomeInv'
  <1> USE WorkersAssumption
  <1>1. UNCHANGED <<db, stored>>
    BY DEF Extract, FileMetadataExtracted, storeVars
  <1>2. /\ tasks \in Seq(MediaFiles) /\ queued \in Seq(MediaFiles)
        /\ task \in [Workers -> MediaFiles]
        /\ at \in [Workers -> {"idle", "extract", "save", "batch"}]
        /\ batch \in [Savers -> Seq(MediaFiles)] /\ w \in Savers
    BY DEF OwnerInv, TypeOK, Savers
  <1>3. CASE Extract(w) /\ TakeTask(w)
    <2>1. /\ UNCHANGED <<queued, batch>> /\ tasks # << >>
          /\ tasks' = Tail(tasks) /\ task'[w] = Head(tasks)
          /\ \A v \in Workers \ {w} : at'[v] = at[v] /\ task'[v] = task[v]
      BY <1>2, <1>3 DEF Extract, TakeTask, storeVars
    <2>2. /\ Len(tasks) \in Nat /\ DOMAIN tasks = 1..Len(tasks) /\ Len(tasks) > 0
          /\ Head(tasks) = tasks[1]
      BY <1>2, <2>1, LenProperties, EmptySeq
    <2>3. /\ Tail(tasks) \in Seq(MediaFiles) /\ Len(Tail(tasks)) = Len(tasks) - 1
          /\ \A i \in 1..Len(Tail(tasks)) : Tail(tasks)[i] = tasks[i + 1]
      BY <1>2, <2>1, HeadTailProperties
    <2>4. DOMAIN Tail(tasks) = 1..Len(Tail(tasks))
      BY <2>3, LenProperties
    <2>5. /\ \A i \in DOMAIN tasks' : i + 1 \in DOMAIN tasks /\ tasks'[i] = tasks[i + 1]
          /\ 1 \in DOMAIN tasks
      BY <2>1, <2>2, <2>3, <2>4
    <2>6. \A v \in Workers : Busy(v)' => task'[v] \in FilesOf(db)
      BY <2>1, <2>2, <2>5 DEF HomeInv, Busy
    <2> QED
      BY <1>1, <2>1, <2>5, <2>6 DEF HomeInv, StoredInItsDatabase
  <1>4. CASE Extract(w) /\ ProcessFile(w)
    <2>1. UNCHANGED <<tasks, task, queued, batch>> /\ \A v \in Workers : Busy(v)' => Busy(v)
      BY <1>2, <1>4 DEF Extract, ProcessFile, storeVars, Busy
    <2> QED
      BY <1>1, <2>1, HomeFrame
  <1>5. CASE FileMetadataExtracted(w)
    <2> DEFINE all == Append(queued, task[w])
    <2>1. /\ UNCHANGED <<tasks, task>> /\ Busy(w)
          /\ \A v \in Workers : Busy(v)' => Busy(v)
      BY <1>2, <1>5 DEF FileMetadataExtracted, Busy
    <2>2. task[w] \in MediaFiles /\ task[w] \in FilesOf(db)
      BY <1>2, <2>1 DEF HomeInv
    <2>3. \A i \in DOMAIN all : all[i] \in FilesOf(db)
      <3>1. /\ Len(queued) \in Nat /\ DOMAIN queued = 1..Len(queued)
            /\ DOMAIN all = 1..(Len(queued) + 1)
            /\ \A i \in 1..Len(queued) : all[i] = queued[i]
            /\ all[Len(queued) + 1] = task[w]
        BY <1>2, <2>2, LenProperties, AppendProperties
      <3> HIDE DEF all
      <3> QED
        BY <2>2, <3>1 DEF HomeInv
    <2>4. \/ queued' = all /\ UNCHANGED batch
          \/ queued' = << >> /\ batch' = [batch EXCEPT ![w] = all]
      BY <1>5 DEF FileMetadataExtracted
    <2>5. DOMAIN << >> = {}
      OBVIOUS
    <2> HIDE DEF all
    <2>6. /\ \A i \in DOMAIN queued' : queued'[i] \in FilesOf(db)
          /\ \A t \in Savers : \A i \in DOMAIN batch'[t] : batch'[t][i] \in FilesOf(db)
      BY <1>2, <2>3, <2>4, <2>5 DEF HomeInv
    <2> QED
      BY <1>1, <2>1, <2>6 DEF HomeInv, StoredInItsDatabase
  <1> QED
    BY <1>3, <1>4, <1>5 DEF Extract

(* A transaction stores what lies on the device whose database is open. *)
LEMMA TransactionIsHome ==
  ASSUME OwnerInv, HomeInv, NEW t \in Savers, SaveBatch(t),
         UNCHANGED <<db, tasks, task>>, \A w \in Workers : Busy(w)' => Busy(w)
  PROVE  HomeInv'
  <1>1. /\ UNCHANGED queued /\ DOMAIN batch'[t] = {}
        /\ \A s \in Savers \ {t} : batch'[s] = batch[s]
        /\ \A d \in Devices, f \in MediaFiles : f \in stored'[d] =>
             f \in stored[d] \/ (d = db /\ \E i \in DOMAIN batch[t] : batch[t][i] = f)
        /\ \A d \in Devices : stored'[d] \subseteq MediaFiles
    BY Transaction DEF OwnerInv
  <1>2. StoredInItsDatabase'
    BY <1>1 DEF HomeInv, StoredInItsDatabase
  <1> QED
    BY <1>1, <1>2 DEF HomeInv

(* Every step keeps every file on its device. *)
LEMMA HomeStep ==
  ASSUME OwnerInv, FolderInv, HomeInv, RootsApart, [Next]_vars
  PROVE  HomeInv'
  <1> USE DEF poolVars, storeVars, Unused
  <1>1. CASE MainOnly /\ ~(CloseDatabase \/ OpenDatabase)
    <2>1. UNCHANGED <<db, stored, tasks, task, at, queued, batch>>
      BY <1>1 DEF MainOnly, HandleDeviceInserted, CancelScan, StartPool, PoolStart
    <2> QED
      BY <2>1, HomeFrame DEF Busy
  <1>2. ASSUME NEW t \in Callers, StartScanFolder(t) \/ Terminate(t)
        PROVE  HomeInv'
    <2>1. UNCHANGED <<db, stored, tasks, task, at, queued, batch>>
      BY <1>2 DEF StartScanFolder, Terminate, PoolFree, PoolDrained, PoolForget
    <2> QED
      BY <2>1, HomeFrame DEF Busy
  <1>3. ASSUME NEW t \in Callers, Flush(t)
        PROVE  HomeInv'
    <2>1. UNCHANGED <<db, stored, tasks, task, at, queued>>
      BY <1>3 DEF Flush
    <2>2. UNCHANGED batch \/ batch' = [batch EXCEPT ![t] = queued]
      BY <1>3 DEF Flush
    <2>3. \A s \in Savers : \A i \in DOMAIN batch'[s] : batch'[s][i] \in FilesOf(db)
      BY <2>2 DEF HomeInv, OwnerInv, TypeOK
    <2> QED
      BY <2>1, <2>3 DEF HomeInv, StoredInItsDatabase, Busy
  <1>4. ASSUME NEW t \in Callers, SaveRest(t)
        PROVE  HomeInv'
    <2>1. SaveBatch(t) /\ t \in Savers /\ UNCHANGED <<db, tasks, task, at>>
      BY <1>4 DEF SaveRest, Savers
    <2> QED
      BY <2>1, TransactionIsHome DEF Busy
  <1>5. ASSUME NEW t \in ScanThreads, LoopStep(t), ~QueueFound(t)
        PROVE  HomeInv'
    <2>1. UNCHANGED <<db, stored, tasks, task, at, queued, batch>>
      BY <1>5 DEF LoopStep, ScanThread, FileFound, PushFound, Undefined, Exit
    <2> QED
      BY <2>1, HomeFrame DEF Busy
  <1>6. ASSUME NEW w \in Workers, SaveCachedFiles(w)
        PROVE  HomeInv'
    <2>1. SaveBatch(w) /\ w \in Savers /\ UNCHANGED <<db, tasks, task>>
      BY <1>6 DEF SaveCachedFiles, Savers
    <2>2. \A v \in Workers : Busy(v)' => Busy(v)
      BY <1>6 DEF SaveCachedFiles, Busy, OwnerInv, TypeOK
    <2> QED
      BY <2>1, <2>2, TransactionIsHome
  <1>7. CASE UNCHANGED vars
    BY <1>7, HomeFrame DEF vars, Busy
  <1> QED
    BY StepCases, <1>1, <1>2, <1>3, <1>4, <1>5, <1>6, <1>7, DatabaseStep, QueueIsHome,
       ExtractionIsHome DEF MainOnly, CallerStep, LoopStep, WorkerStep

(* What holds of every file, wherever the devices are mounted. *)
StoreInv == OwnerInv /\ FolderInv /\ OnceInv /\ BatchInv

(* It is an invariant. *)
LEMMA StoreInvariant ==
  ASSUME PathsAreATree
  PROVE  Spec => []StoreInv
  <1>1. Init => StoreInv
    BY TypeInit, ThreadInit, FolderInit, OnceInit DEF StoreInv, OwnerInv
  <1>2. StoreInv /\ [Next]_vars => StoreInv'
    BY TypeStep, ThreadStep, PoolStep, FolderStep, OnceStep, BatchStep DEF StoreInv, OwnerInv
  <1> QED
    BY <1>1, <1>2, PTL DEF Spec

(***************************************************************************)
(* No path is extracted twice, by whatever threads, although onFileFound   *)
(* runs on scan threads and insertions change what it compares with.       *)
(***************************************************************************)
THEOREM NoPathIsExtractedTwice ==
  ASSUME PathsAreATree
  PROVE  Spec => []ExtractedOnce
  <1>1. StoreInv => ExtractedOnce
    BY DEF StoreInv, OnceInv, ExtractedOnce, Busy
  <1> QED
    BY <1>1, StoreInvariant, PTL

(***************************************************************************)
(* No thread saves a File object that another one, or an earlier batch,    *)
(* has deleted, although flush leaves deleted objects in the queue.        *)
(***************************************************************************)
THEOREM NoObjectIsUsedAfterFree ==
  ASSUME PathsAreATree
  PROVE  Spec => []NoUseAfterFree
  <1>1. StoreInv => NoUseAfterFree
    BY DEF StoreInv, BatchInv, NoUseAfterFree
  <1> QED
    BY <1>1, StoreInvariant, PTL

(***************************************************************************)
(* Every file is stored in the database of the device it lies on, although *)
(* the path of the device changes before its scan has ended and the        *)
(* database after it.  (A device mounted inside a folder of another may    *)
(* have its files stored in the other's database: hence RootsApart.)       *)
(***************************************************************************)
THEOREM FilesAreStoredAtHome ==
  ASSUME PathsAreATree, RootsApart
  PROVE  Spec => []StoredInItsDatabase
  <1>1. Init => StoreInv /\ HomeInv
    BY TypeInit, ThreadInit, FolderInit, OnceInit DEF StoreInv, OwnerInv
  <1>2. StoreInv /\ HomeInv /\ [Next]_vars => (StoreInv /\ HomeInv)'
    <2> SUFFICES ASSUME StoreInv, HomeInv, [Next]_vars
                 PROVE  StoreInv' /\ HomeInv'
      OBVIOUS
    <2>1. StoreInv'
      BY TypeStep, ThreadStep, PoolStep, FolderStep, OnceStep, BatchStep DEF StoreInv, OwnerInv
    <2>2. HomeInv'
      BY HomeStep DEF StoreInv
    <2> QED
      BY <2>1, <2>2
  <1>3. HomeInv => StoredInItsDatabase
    BY DEF HomeInv
  <1> QED
    BY <1>1, <1>2, <1>3, PTL DEF Spec

=============================================================================
