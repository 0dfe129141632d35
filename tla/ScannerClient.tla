---------------------------- MODULE ScannerClient ----------------------------
(***************************************************************************)
(* FileSystemScanner with a client that keeps to its header                *)
(* (src/src/filesystem/filesystem-scanner.h): one thread calls             *)
(* startScanFolder and cancelScan, as often as it likes, and the callbacks *)
(* of the observer return.  (DeviceManager is a different client: it calls *)
(* startScanFolder from a callback, and ends the process in another.)      *)
(***************************************************************************)
EXTENDS FileSystemScanner

CONSTANTS MaxRequests   (* a bound: calls of startScanFolder                  *)

ASSUME MaxRequestsAssumption == MaxRequests \in Nat

VARIABLES
  requests,  (* how often startScanFolder was called                         *)
  on         (* history: it was called, and cancelScan did not return since  *)

clientVars == <<requests, on>>
vars == <<scanVars, clientVars>>

Locations ==
  {"idle", "startTest", "startCreate", "startReset", "startSet", "startPush",
   "cancelTest", "cancelClear", "cancelRead", "join", "terminate",
   "unborn", "test", "pop", "open", "read", "found", "ended"}

TypeOK ==
  /\ runThread \in BOOLEAN /\ on \in BOOLEAN
  /\ foldersToScan \in Seq(Folders)
  /\ {thread, joined} \subseteq ScanThreads \cup {NoThread}
  /\ pc \in [Callers -> Locations]
  /\ folder \in [ScanThreads -> Folders]
  /\ unread \in [ScanThreads -> SUBSET Entries]
  /\ entry \in [ScanThreads -> Entries]
  /\ startFolder \in [Callers -> Folders]
  /\ requests \in 0..MaxRequests

Init ==
  /\ ScannerInit
  /\ requests = 0
  /\ on = FALSE

-----------------------------------------------------------------------------
(* The client's thread. *)

Request(d) ==
  /\ pc[Main] = "idle" /\ requests < MaxRequests
  /\ requests' = requests + 1
  /\ on' = TRUE
  /\ startFolder' = [startFolder EXCEPT ![Main] = d]
  /\ GoTo(Main, "startTest")
  /\ UNCHANGED <<threadVars, foldersToScan, enumVars>>

StartScanFolder ==
  /\ \/ StartTest(Main) \/ StartCreate(Main) \/ StartReset(Main)
     \/ StartSet(Main) \/ StartPush(Main)
  /\ UNCHANGED clientVars

Cancel ==
  /\ pc[Main] = "idle"
  /\ GoTo(Main, "cancelTest")
  /\ UNCHANGED <<threadVars, foldersToScan, enumVars, startFolder, clientVars>>

CancelScan ==
  /\ CancelTest \/ CancelClear \/ CancelRead \/ CancelJoin
  /\ UNCHANGED clientVars

(* cancelScan has returned. *)
CancelReturned ==
  /\ pc[Main] = "terminate"
  /\ on' = FALSE
  /\ GoTo(Main, "idle")
  /\ UNCHANGED <<threadVars, foldersToScan, enumVars, startFolder, requests>>

-----------------------------------------------------------------------------
(* A scan thread, and the callbacks it calls. *)

OnFileFound(t) ==
  /\ pc[t] = "found"
  /\ GoTo(t, "read")
  /\ UNCHANGED <<threadVars, foldersToScan, enumVars, startFolder, clientVars>>

OnScanTerminated(t) ==
  /\ pc[t] = "terminate"
  /\ GoTo(t, "ended")
  /\ UNCHANGED <<threadVars, foldersToScan, enumVars, startFolder, clientVars>>

ScanThread(t) ==
  \/ /\ ScanTest(t) \/ ScanPop(t) \/ ScanOpen(t) \/ ScanRead(t) \/ ScanEnd(t)
     /\ UNCHANGED clientVars
  \/ OnFileFound(t)
  \/ OnScanTerminated(t)

ClientStep == StartScanFolder \/ CancelScan \/ CancelReturned

Next ==
  \/ \E d \in Folders : Request(d)
  \/ Cancel
  \/ ClientStep
  \/ \E t \in ScanThreads : ScanThread(t)

Spec == Init /\ [][Next]_vars

(* Every thread that can run does; the client need not call anything. *)
FairSpec ==
  /\ Spec
  /\ WF_vars(ClientStep)
  /\ \A t \in ScanThreads : WF_vars(ScanThread(t))

-----------------------------------------------------------------------------
(* Properties *)

Alive(t) == pc[t] \notin {"unborn", "ended"}

(***************************************************************************)
(* At most one scan thread is alive, and it is the one cancelScan would    *)
(* join: startScanFolder never creates a second one beside it, although it *)
(* decides so from a flag that the thread itself does not maintain.        *)
(***************************************************************************)
OneScanThread == \A t \in ScanThreads : Alive(t) => t = thread

(***************************************************************************)
(* The thread cancelScan waits for is a thread, and one that was not       *)
(* joined before: a GThread is released by its first g_thread_join.        *)
(***************************************************************************)
JoinedOnce ==
  [][CancelRead => thread # NoThread /\ thread # joined]_vars

(***************************************************************************)
(* The scanner implements ScanService; in particular no callback is called *)
(* between the return of cancelScan and the next startScanFolder.  A       *)
(* folder counts as requested until the thread that took it opens it, and  *)
(* onScanTerminated as called when a thread has ended.                     *)
(***************************************************************************)
At(location) == {t \in ScanThreads : pc[t] = location}

Opening == {<<folder[t]>> : t \in At("open")}
Visiting == At("read") \cup At("found")

Service == INSTANCE ScanService WITH
  on <- on,
  requests <- (IF Opening = {} THEN << >> ELSE CHOOSE s \in Opening : TRUE)
                \o foldersToScan,
  visited <- {folder[t] : t \in Visiting},
  left <- UNION {unread[t] : t \in Visiting},
  terminations <- Cardinality(At("ended"))

ImplementsScanService == Service!Spec

(***************************************************************************)
(* cancelScan returns, unless the scan thread already waits for a folder:  *)
(* a thread that scans, or has a folder to scan, sees the cancellation.    *)
(***************************************************************************)
Awake(t) == pc[t] # "pop" \/ foldersToScan # << >>

CancelReturnsWhenAwake ==
  pc[Main] = "join" /\ Awake(joined) ~> pc[Main] = "idle"

=============================================================================
