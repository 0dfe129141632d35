-------------------------- MODULE FileSystemScanner --------------------------
(***************************************************************************)
(* Class FileSystemScanner                                                 *)
(* (src/src/filesystem/filesystem-scanner.{h,cpp}): a queue of folders, a  *)
(* flag that keeps the scan thread running, and the handle of the thread   *)
(* that was created last.  Any thread may call startScanFolder; the client *)
(* thread also calls cancelScan.                                           *)
(*                                                                         *)
(* The flag and the handle are not protected by anything, so reading one,  *)
(* creating a thread and writing the flag are separate steps.  The         *)
(* observer's callbacks (onFileFound, onScanTerminated) are the            *)
(* locations "found" and "terminate" that the module leaves to             *)
(* DeviceManager, the only observer.                                       *)
(***************************************************************************)
EXTENDS Naturals, Sequences, FiniteSets

CONSTANTS
  Main,         (* the thread of the main loop                               *)
  ScanThreads,  (* the threads g_thread_new can create, a bound of the model *)
  Folders,      (* folders of the file system                                *)
  Contents,     (* what each folder contains: media files and folders        *)
  NoThread      (* m_thread before the first thread is created               *)

Callers == {Main} \cup ScanThreads

Entries == UNION {Contents[d] : d \in Folders}

ASSUME CallersAssumption == Main \notin ScanThreads /\ NoThread \notin ScanThreads

ASSUME ContentsAssumption == DOMAIN Contents = Folders /\ Entries # {}

VARIABLES
  runThread,      (* b_runThread                                             *)
  foldersToScan,  (* m_foldersToScan                                         *)
  thread,         (* m_thread                                                *)
  joined,         (* the thread that cancelScan waits for                    *)
  pc,             (* where each caller is; a thread starts as "unborn"       *)
  folder,         (* the folder a scan thread enumerates                     *)
  unread,         (* what its enumerator has not returned yet                *)
  entry,          (* the file a scan thread found last                       *)
  startFolder     (* the argument of a caller's startScanFolder              *)

threadVars == <<runThread, thread, joined>>
enumVars == <<folder, unread, entry>>
scanVars == <<threadVars, foldersToScan, pc, enumVars, startFolder>>

GoTo(t, location) == pc' = [pc EXCEPT ![t] = location]

ScannerInit ==
  /\ runThread = FALSE
  /\ foldersToScan = << >>
  /\ thread = NoThread
  /\ joined = NoThread
  /\ pc = [t \in Callers |-> IF t = Main THEN "idle" ELSE "unborn"]
  /\ folder = [t \in ScanThreads |-> CHOOSE d \in Folders : TRUE]
  /\ unread = [t \in ScanThreads |-> {}]
  /\ entry = [t \in ScanThreads |-> CHOOSE e \in Entries : TRUE]
  /\ startFolder = [t \in Callers |-> CHOOSE d \in Folders : TRUE]

-----------------------------------------------------------------------------
(* startScanFolder, called by thread t with the folder startFolder[t]. *)

(* Mutant of StartTest: a thread is created for every folder. *)
StartTestIgnoringFlag(t) ==
  /\ pc[t] = "startTest"
  /\ GoTo(t, "startCreate")
  /\ UNCHANGED <<threadVars, foldersToScan, enumVars, startFolder>>

StartTest(t) ==
  /\ pc[t] = "startTest"
  /\ GoTo(t, IF runThread THEN "startPush" ELSE "startCreate")
  /\ UNCHANGED <<threadVars, foldersToScan, enumVars, startFolder>>

(***************************************************************************)
(* The new thread runs at once; the flag is set only afterwards, ...       *)
(* m_thread is assigned in the same step: only cancelScan reads it, on the *)
(* main thread, which creates no thread meanwhile; and a reading between   *)
(* the creation and the assignment amounts to one before the creation.     *)
(***************************************************************************)
StartCreate(t) ==
  /\ pc[t] = "startCreate"
  /\ \E u \in ScanThreads :
       /\ pc[u] = "unborn"
       /\ thread' = u
       /\ pc' = [pc EXCEPT ![u] = "test", ![t] = "startReset"]
  /\ UNCHANGED <<runThread, joined, foldersToScan, enumVars, startFolder>>

(* ... after it was cleared once more (g_thread_new returns a thread). *)
StartReset(t) ==
  /\ pc[t] = "startReset"
  /\ runThread' = FALSE
  /\ GoTo(t, "startSet")
  /\ UNCHANGED <<thread, joined, foldersToScan, enumVars, startFolder>>

StartSet(t) ==
  /\ pc[t] = "startSet"
  /\ runThread' = TRUE
  /\ GoTo(t, "startPush")
  /\ UNCHANGED <<thread, joined, foldersToScan, enumVars, startFolder>>

StartPush(t) ==
  /\ pc[t] = "startPush"
  /\ foldersToScan' = Append(foldersToScan, startFolder[t])
  /\ GoTo(t, IF t = Main THEN "idle" ELSE "read")
  /\ UNCHANGED <<threadVars, enumVars, startFolder>>

-----------------------------------------------------------------------------
(* cancelScan, called by the main thread. *)

CancelTest ==
  /\ pc[Main] = "cancelTest"
  /\ GoTo(Main, IF runThread THEN "cancelClear" ELSE "terminate")
  /\ UNCHANGED <<threadVars, foldersToScan, enumVars, startFolder>>

(* Mutant of CancelClear: the flag stays set. *)
CancelClearForgotten ==
  /\ pc[Main] = "cancelClear"
  /\ GoTo(Main, "cancelRead")
  /\ UNCHANGED <<threadVars, foldersToScan, enumVars, startFolder>>

CancelClear ==
  /\ pc[Main] = "cancelClear"
  /\ runThread' = FALSE
  /\ GoTo(Main, "cancelRead")
  /\ UNCHANGED <<thread, joined, foldersToScan, enumVars, startFolder>>

(* The argument of g_thread_join is read without protection, too. *)
CancelRead ==
  /\ pc[Main] = "cancelRead"
  /\ joined' = thread
  /\ GoTo(Main, "join")
  /\ UNCHANGED <<runThread, thread, foldersToScan, enumVars, startFolder>>

(* Mutant of CancelJoin: it does not wait for the thread. *)
CancelWithoutJoin ==
  /\ pc[Main] = "join"
  /\ GoTo(Main, "terminate")
  /\ UNCHANGED <<threadVars, foldersToScan, enumVars, startFolder>>

CancelJoin ==
  /\ pc[Main] = "join"
  /\ pc[joined] = "ended"
  /\ GoTo(Main, "terminate")
  /\ UNCHANGED <<threadVars, foldersToScan, enumVars, startFolder>>

-----------------------------------------------------------------------------
(* scanThread and scanFolder, on scan thread t. *)

(* Mutant of ScanTest: the loop never ends. *)
ScanTestIgnoringFlag(t) ==
  /\ pc[t] = "test"
  /\ GoTo(t, "pop")
  /\ UNCHANGED <<threadVars, foldersToScan, enumVars, startFolder>>

ScanTest(t) ==
  /\ pc[t] = "test"
  /\ GoTo(t, IF runThread THEN "pop" ELSE "terminate")
  /\ UNCHANGED <<threadVars, foldersToScan, enumVars, startFolder>>

(* Mutant of ScanPop: the folder stays in the queue. *)
ScanPeek(t) ==
  /\ pc[t] = "pop" /\ foldersToScan # << >>
  /\ folder' = [folder EXCEPT ![t] = Head(foldersToScan)]
  /\ GoTo(t, "open")
  /\ UNCHANGED <<threadVars, foldersToScan, unread, entry, startFolder>>

(* g_async_queue_pop blocks while the queue is empty, cancelled or not. *)
ScanPop(t) ==
  /\ pc[t] = "pop" /\ foldersToScan # << >>
  /\ folder' = [folder EXCEPT ![t] = Head(foldersToScan)]
  /\ foldersToScan' = Tail(foldersToScan)
  /\ GoTo(t, "open")
  /\ UNCHANGED <<threadVars, unread, entry, startFolder>>

(* A cancelled scan drops the folder, and so does an error. *)
ScanOpen(t) ==
  /\ pc[t] = "open"
  /\ \/ /\ runThread
        /\ unread' = [unread EXCEPT ![t] = Contents[folder[t]]]
        /\ GoTo(t, "read")
     \/ /\ GoTo(t, "test")
        /\ UNCHANGED unread
  /\ UNCHANGED <<threadVars, foldersToScan, folder, entry, startFolder>>

(* Mutant of ScanRead: the folder's name is reported, not the entry's. *)
ScanReadFolder(t) ==
  /\ pc[t] = "read" /\ unread[t] # {}
  /\ entry' = [entry EXCEPT ![t] = folder[t]]
  /\ unread' = [unread EXCEPT ![t] = {}]
  /\ GoTo(t, "found")
  /\ UNCHANGED <<threadVars, foldersToScan, folder, startFolder>>

(* One entry, in no particular order; each is reported to the observer.    *)
(* Entries that are neither regular files nor folders are left out.        *)
ScanRead(t) ==
  /\ pc[t] = "read"
  /\ \E e \in unread[t] :
       /\ entry' = [entry EXCEPT ![t] = e]
       /\ unread' = [unread EXCEPT ![t] = @ \ {e}]
  /\ GoTo(t, "found")
  /\ UNCHANGED <<threadVars, foldersToScan, folder, startFolder>>

(* The enumeration ends at the last entry, or earlier with an error. *)
ScanEnd(t) ==
  /\ pc[t] = "read"
  /\ GoTo(t, "test")
  /\ unread' = [unread EXCEPT ![t] = {}]
  /\ UNCHANGED <<threadVars, foldersToScan, folder, entry, startFolder>>

=============================================================================
