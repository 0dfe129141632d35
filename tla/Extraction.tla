----------------------------- MODULE Extraction -----------------------------
(***************************************************************************)
(* What happens to a file between pushFile and the observer, in full:      *)
(* main's preparations (src/src/tracker-lite.cpp), the threads of          *)
(* MetadataExtractPool with the statistics, the registry, the extractor    *)
(* and the logger they use, and the end of a scan in                       *)
(* DeviceManager::onScanTerminated.  One device is inserted; it may be     *)
(* pulled out at any time.                                                 *)
(***************************************************************************)
EXTENDS MetadataExtractPool, MetadataExtractors, Logging, Statistics,
        FiniteSetsExt

CONSTANTS
  Suffix,   (* what follows the last dot of each path, "" if there is none   *)
  Upper,    (* its upper case, by ::toupper                                  *)
  Songs     (* the tags of each file                                         *)

ASSUME FilesAssumption ==
  /\ MediaFiles # {}
  /\ Suffix \in [MediaFiles -> DOMAIN Upper]
  /\ Songs \in [MediaFiles -> Song]

(* THREAD_POOL_SIZE is a number. *)
ASSUME ThreadsAssumption == IsFiniteSet(Workers)

VARIABLES
  stage,      (* where main, and then the scan thread, is                    *)
  present,    (* the device is plugged in                                    *)
  pushed,     (* history: the files pushed to the pool                       *)
  metadata,   (* m_metadata of the File of each path                         *)
  handedOver  (* history: files given to the observers                       *)

fileVars == <<metadata, handedOver>>
vars == <<poolVars, registered, logVars, statVars, stage, present, pushed,
          fileVars>>

Stages ==
  {"register", "options", "logger", "insert", "scan", "free", "drain", "forget",
   "extracted", "print", "exited", "crashed"}

Locations ==
  {"idle", "extract", "newEntry", "addEntry", "oldEntry", "lookup", "stat",
   "tags", "save", "warn", "error", "deliver", "processed", "increment"}

NoMetadata == [field \in Fields |-> "empty"]

TypeOK ==
  /\ stage \in Stages
  /\ present \in BOOLEAN
  /\ pushed \subseteq MediaFiles
  /\ registered \subseteq Extensions
  /\ pool \in {"null", "open", "closing", "gone"}
  /\ poolThreads \subseteq Workers
  /\ tasks \in Seq(MediaFiles)
  /\ task \in [Workers -> MediaFiles]
  /\ at \in [Workers -> Locations]
  /\ logLevel \in LevelVerbose..LevelError
  /\ delegates \subseteq {Console}
  /\ logLocked \in BOOLEAN
  /\ printed \subseteq {Console} \X MediaFiles
  /\ allFilesProcessed \in Nat
  /\ reads \in [Workers -> Nat]
  /\ DOMAIN processedByThread \subseteq Workers
  /\ \A w \in DOMAIN processedByThread : processedByThread[w] \in Nat
  /\ adding \subseteq Workers
  /\ {mapRaced, countRaced, fsScanEnded, extractEnded} \subseteq BOOLEAN
  /\ metadata \in [MediaFiles -> [Fields -> Decoding]]
  /\ handedOver \subseteq MediaFiles

Init ==
  /\ PoolInit
  /\ LoggerInit
  /\ StatisticsInit(Workers)
  /\ registered = {}
  /\ stage = "register"
  /\ present = TRUE
  /\ pushed = {}
  /\ metadata = [f \in MediaFiles |-> NoMetadata]
  /\ handedOver = {}

-----------------------------------------------------------------------------
(* main, before there is any other thread. *)

(* Mutant of Register: extensions may be registered when they are needed. *)
RegisterAnyTime ==
  /\ stage \in {"register", "scan"}
  /\ \E e \in Extensions : RegisterExtractor(e)
  /\ stage' = IF stage = "register" THEN "options" ELSE stage
  /\ UNCHANGED <<poolVars, logVars, statVars, present, pushed, fileVars>>

Register ==
  /\ stage = "register"
  /\ \E e \in Extensions \ registered : RegisterExtractor(e)
  /\ stage' = IF registered' = Extensions THEN "options" ELSE stage
  /\ UNCHANGED <<poolVars, logVars, statVars, present, pushed, fileVars>>

(* Options that cannot be parsed, or no device: main returns. *)
ParseOptions ==
  /\ stage = "options"
  /\ stage' \in {"logger", "exited"}
  /\ UNCHANGED <<poolVars, registered, logVars, statVars, present, pushed,
                 fileVars>>

SetUpLogger ==
  /\ stage = "logger"
  /\ SetLogLevel(LevelVerbose) /\ AddLoggerDelegate(Console)
  /\ stage' = "insert"
  /\ UNCHANGED <<poolVars, registered, logLocked, printed, statVars, present,
                 pushed, fileVars>>

(* handleDeviceInserted; main then waits in its loop. *)
InsertDevice ==
  /\ stage = "insert"
  /\ PoolStart
  /\ stage' = "scan"
  /\ UNCHANGED <<registered, logVars, statVars, present, pushed, fileVars>>

-----------------------------------------------------------------------------
(* The scan thread: onFileFound and onScanTerminated. *)

Push(f) ==
  /\ stage = "scan" /\ f \notin pushed
  /\ PushAccepted /\ PushFile(f)
  /\ pushed' = pushed \cup {f}
  /\ UNCHANGED <<registered, logVars, statVars, stage, present, fileVars>>

ScanTerminated ==
  /\ stage = "scan"
  /\ FsScanFinished
  /\ stage' = "free"
  /\ UNCHANGED <<poolVars, registered, logVars, countVars, mapVars, present,
                 pushed, fileVars>>

Terminate ==
  /\ \/ stage = "free" /\ PoolFree /\ stage' = "drain"
     \/ stage = "drain" /\ PoolDrained /\ stage' = "forget"
     \/ stage = "forget" /\ PoolForget /\ stage' = "extracted"
  /\ UNCHANGED <<registered, logVars, statVars, present, pushed, fileVars>>

ExtractFinished ==
  /\ stage = "extracted"
  /\ MetadataExtractFinished
  /\ stage' = "print"
  /\ UNCHANGED <<poolVars, registered, logVars, countVars, mapVars, present,
                 pushed, fileVars>>

(* Statistics::print, and exit(0). *)
PrintAndExit ==
  /\ stage = "print"
  /\ stage' = "exited"
  /\ UNCHANGED <<poolVars, registered, logVars, statVars, present, pushed,
                 fileVars>>

-----------------------------------------------------------------------------
(* The threads of the pool: threadFunction and processFile. *)

Move(w, from, to) == at[w] = from /\ at' = [at EXCEPT ![w] = to]

Elsewhere == <<pool, poolThreads, tasks, task, registered, stage, present, pushed>>

Take(w) ==
  /\ TakeTask(w)
  /\ UNCHANGED <<registered, logVars, statVars, stage, present, pushed, fileVars>>

(* During a race find may miss the entry, or see one that is not linked. *)
NewFileProcessedByThread(w) ==
  /\ \/ /\ Move(w, "extract", "oldEntry") /\ FindEntry
        /\ HasEntry(w) \/ mapRaced'
     \/ /\ Move(w, "extract", "newEntry") /\ FindEntry
        /\ ~HasEntry(w) \/ mapRaced'
     \/ Move(w, "oldEntry", "lookup") /\ CountEntry(w)
     \/ Move(w, "newEntry", "addEntry") /\ BeginEntry(w)
     \/ Move(w, "addEntry", "lookup") /\ EndEntry(w)
  /\ UNCHANGED <<Elsewhere, logVars, countVars, timeVars, fileVars>>

(* The extension is upper-cased and looked up. *)
LookUp(w) ==
  /\ Move(w, "lookup",
          IF HasExtractor(Upper[Suffix[task[w]]]) THEN "stat" ELSE "warn")
  /\ UNCHANGED <<Elsewhere, logVars, statVars, fileVars>>

(***************************************************************************)
(* A new File, and its times and size if stat succeeds.  Nobody looks at   *)
(* the result: whether it fails or not, the extraction goes on, and these  *)
(* members, uninitialised if it failed, are not modelled.                  *)
(***************************************************************************)
StatFile(w) ==
  /\ Move(w, "stat", "tags")
  /\ UNCHANGED <<Elsewhere, logVars, statVars, fileVars>>

(* TagLib may not be able to read the file, and cannot if it is gone. *)
ExtractMetadata(w) ==
  /\ \/ /\ present
        /\ Move(w, "tags", "save")
        /\ metadata' = [metadata EXCEPT ![task[w]] = Metadata(Songs[task[w]])]
     \/ Move(w, "tags", "error") /\ UNCHANGED metadata
  /\ UNCHANGED <<Elsewhere, logVars, statVars, handedOver>>

(* The observers get the File; they own it from here. *)
NotifyObservers(w) ==
  /\ Move(w, "save", "processed")
  /\ handedOver' = handedOver \cup {task[w]}
  /\ UNCHANGED <<Elsewhere, logVars, statVars, metadata>>

(* Mutant of LogFailure: after the catch clause the observers are told. *)
LogFailureAndGoOn(w) ==
  /\ \/ Move(w, "warn", "processed") /\ UNCHANGED logVars
     \/ Move(w, "error", "save") /\ UNCHANGED logVars
  /\ UNCHANGED <<Elsewhere, statVars, fileVars>>

(* The catch clauses log; after an extraction error the File is leaked. *)
LogFailure(w) ==
  /\ \/ Filtered(LevelWarn) /\ Move(w, "warn", "processed") /\ UNCHANGED logVars
     \/ Filtered(LevelError) /\ Move(w, "error", "processed") /\ UNCHANGED logVars
     \/ ~Filtered(LevelWarn) /\ Move(w, "warn", "deliver") /\ LogLock
     \/ ~Filtered(LevelError) /\ Move(w, "error", "deliver") /\ LogLock
     \/ Move(w, "deliver", "processed") /\ LogDeliver(task[w])
  /\ UNCHANGED <<Elsewhere, statVars, fileVars>>

NewFileProcessed(w) ==
  /\ \/ Move(w, "processed", "increment") /\ ReadCounter(w)
     \/ Move(w, "increment", "idle") /\ WriteCounter(w)
  /\ UNCHANGED <<Elsewhere, logVars, mapVars, timeVars, fileVars>>

(* Using a map that was damaged may end the process. *)
Crash(w) ==
  /\ mapRaced /\ at[w] \in {"extract", "newEntry", "addEntry", "oldEntry"}
  /\ stage' = "crashed"
  /\ UNCHANGED <<poolVars, registered, logVars, statVars, present, pushed,
                 fileVars>>

-----------------------------------------------------------------------------
(* The device is pulled out, and does not come back. *)
RemoveDevice ==
  /\ present
  /\ present' = FALSE
  /\ UNCHANGED <<poolVars, registered, logVars, statVars, stage, pushed, fileVars>>

SequentialStep ==
  \/ Register \/ ParseOptions \/ SetUpLogger \/ InsertDevice
  \/ Terminate \/ ExtractFinished \/ PrintAndExit

WorkerStep(w) ==
  \/ Take(w) \/ NewFileProcessedByThread(w) \/ LookUp(w) \/ StatFile(w)
  \/ ExtractMetadata(w) \/ NotifyObservers(w) \/ LogFailure(w)
  \/ NewFileProcessed(w) \/ Crash(w)

Running == stage \notin {"exited", "crashed"}

Next ==
  /\ Running
  /\ \/ SequentialStep \/ ScanTerminated \/ RemoveDevice
     \/ \E f \in MediaFiles : Push(f)
     \/ \E w \in Workers : WorkerStep(w)

Spec == Init /\ [][Next]_vars

(* Threads that can run are scheduled; a scan need not end. *)
FairSpec ==
  /\ Spec
  /\ WF_vars(Running /\ SequentialStep)
  /\ \A w \in Workers : WF_vars(Running /\ WorkerStep(w))

-----------------------------------------------------------------------------
(* Properties *)

(***************************************************************************)
(* When the statistics are printed nobody updates them any more and both   *)
(* end times are set; what could be lost without a lock is bounded (a      *)
(* counter that was incremented does not print as zero, or as too much),   *)
(* and unless two threads met in the same one, nothing was.                *)
(***************************************************************************)
PrintedInFull ==
  stage = "print" =>
    /\ \A w \in Workers : at[w] = "idle"
    /\ fsScanEnded /\ extractEnded
    /\ allFilesProcessed <= Cardinality(pushed)
    /\ pushed # {} => allFilesProcessed >= 1
    /\ ~countRaced => allFilesProcessed = Cardinality(pushed)

(***************************************************************************)
(* Unless an entry was added while another thread used the map, every file *)
(* that was taken is counted for exactly one thread.                       *)
(***************************************************************************)
CountedByThread ==
  LET Count(w) == IF HasEntry(w) THEN processedByThread[w] ELSE 0 IN
  stage = "print" /\ ~mapRaced =>
    MapThenSumSet(Count, Workers) = Cardinality(pushed)

(***************************************************************************)
(* No file that was found disappears in silence: it is handed over, or its *)
(* failure was printed, by the time the statistics are.                    *)
(***************************************************************************)
FailuresAreReported ==
  stage = "print" =>
    \A f \in pushed : f \in handedOver \/ <<Console, f>> \in printed

(***************************************************************************)
(* A field of a File that is handed over is the tag of its name, decoded   *)
(* as the comments of convertCStringToUTF8 say: from a guess that is       *)
(* trusted, and without one with the table, in its order of priority.  (A  *)
(* trusted guess that does not convert leaves the text as it is, whatever  *)
(* the table could do; and the composer is the tag of the artist.  Neither *)
(* is claimed here.)                                                       *)
(***************************************************************************)
DecodedInOrder ==
  \A f \in handedOver : \A field \in Fields \ {"composer"} :
    LET tag == Songs[f][field] IN
    IF tag.latin1 THEN InOrder(tag.text, metadata[f][field])
    ELSE metadata[f][field] = "unicode"

(***************************************************************************)
(* The registry and the logger are written without a lock ("TODO thread    *)
(* synchronization"): never once another thread may read them.             *)
(***************************************************************************)
SetUpBeforeThreads ==
  [][registered' # registered \/ logLevel' # logLevel \/ delegates' # delegates
       => pool = "null" /\ poolThreads = {}]_vars

(* The abstract pool: a thread extracts, hands over, or is idle. *)
AbstractAt ==
  [w \in Workers |->
     CASE at[w] = "save" -> "save"
       [] at[w] \in {"extract", "newEntry", "addEntry", "oldEntry", "lookup",
                     "stat", "tags"} -> "extract"
       [] OTHER -> "idle"]

Pool == INSTANCE MetadataExtractPool WITH at <- AbstractAt

(* The threads do what DeviceManager takes them to do. *)
ImplementsPool == Pool!PoolSpec

(***************************************************************************)
(* terminate(WAIT_ALL) returns, even with fewer threads than were asked    *)
(* for, unless there is none at all (or the process ends).                 *)
(***************************************************************************)
TerminateReturns ==
  stage = "drain" ~> (~Running \/ poolThreads = {})

=============================================================================
