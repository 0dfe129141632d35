----------------------------- MODULE Statistics -----------------------------
(***************************************************************************)
(* Class Statistics (src/src/common/statistics.{h,cpp}): counters that the *)
(* pool's threads update without a lock.                                   *)
(*                                                                         *)
(* ++m_allFilesProcessed is a read and a write.  Using m_processedByThread *)
(* (a std::map, whose key is the thread) while another thread adds an      *)
(* entry to it is undefined: any entries may then be lost, and the process *)
(* may crash (Extraction's action Crash).  Entries of other threads are    *)
(* other nodes, and incrementing one disturbs nobody.                      *)
(***************************************************************************)
EXTENDS Naturals

VARIABLES
  allFilesProcessed,  (* m_allFilesProcessed                                 *)
  processedByThread,  (* m_processedByThread                                 *)
  adding,             (* threads in the middle of adding their entry         *)
  reads,              (* what each thread has read of m_allFilesProcessed    *)
  mapRaced,           (* history: the map was used while an entry was added  *)
  countRaced,         (* history: two increments overlapped                  *)
  fsScanEnded,        (* m_fsScanEndTime is set                              *)
  extractEnded        (* m_metadataExtractEndTime is set                     *)

countVars == <<allFilesProcessed, reads, countRaced>>
mapVars == <<processedByThread, adding, mapRaced>>
timeVars == <<fsScanEnded, extractEnded>>
statVars == <<countVars, mapVars, timeVars>>

(* The constructor's reset(); the end times are never reset. *)
StatisticsInit(threads) ==
  /\ allFilesProcessed = 0
  /\ processedByThread = << >>
  /\ adding = {}
  /\ reads = [t \in threads |-> 0]
  /\ mapRaced = FALSE
  /\ countRaced = FALSE
  /\ fsScanEnded = FALSE
  /\ extractEnded = FALSE

HasEntry(t) == t \in DOMAIN processedByThread

(* newFileProcessedByThread, in steps: find, ... *)
FindEntry ==
  /\ mapRaced' = (mapRaced \/ adding # {})
  /\ UNCHANGED <<processedByThread, adding>>

(* ... and, if it was not found, operator[] links a new entry, ... *)
BeginEntry(t) ==
  /\ adding' = adding \cup {t}
  /\ mapRaced' = (mapRaced \/ adding # {})
  /\ UNCHANGED processedByThread

(* Mutant of EndEntry: the first file of a thread is not counted. *)
EndEntryUncounted(t) ==
  /\ processedByThread' =
       [s \in DOMAIN processedByThread \cup {t} |->
          IF s = t THEN 0 ELSE processedByThread[s]]
  /\ adding' = adding \ {t}
  /\ UNCHANGED mapRaced

(* ... which is set to 1; after a race any entries may be gone; ... *)
EndEntry(t) ==
  /\ \E kept \in (IF mapRaced THEN SUBSET (DOMAIN processedByThread \cup {t})
                  ELSE {DOMAIN processedByThread \cup {t}}) :
       processedByThread' =
         [s \in kept |-> IF s = t THEN 1 ELSE processedByThread[s]]
  /\ adding' = adding \ {t}
  /\ UNCHANGED mapRaced

(* ... or, if it was found, the entry is incremented. *)
CountEntry(t) ==
  /\ processedByThread' =
       [s \in DOMAIN processedByThread \cup {t} |->
          IF s # t THEN processedByThread[s]
          ELSE IF HasEntry(t) THEN processedByThread[t] + 1 ELSE 1]
  /\ mapRaced' = (mapRaced \/ adding # {})
  /\ UNCHANGED adding

(* newFileProcessed: the counter is read ... *)
ReadCounter(t) ==
  /\ reads' = [reads EXCEPT ![t] = allFilesProcessed]
  /\ UNCHANGED <<allFilesProcessed, countRaced>>

(* ... and written; an increment in between is lost. *)
WriteCounter(t) ==
  /\ countRaced' = (countRaced \/ allFilesProcessed # reads[t])
  /\ allFilesProcessed' = reads[t] + 1
  /\ reads' = [reads EXCEPT ![t] = 0]

FsScanFinished == fsScanEnded' = TRUE /\ UNCHANGED extractEnded

MetadataExtractFinished == extractEnded' = TRUE /\ UNCHANGED fsScanEnded

=============================================================================
