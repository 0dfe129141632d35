--------------------------- MODULE ExtractionProofs ---------------------------
(* Theorems about Extraction and their proofs.                             *)
EXTENDS Extraction, SequenceTheorems, FiniteSetTheorems, WellFoundedInduction, TLAPS

(* The stages before there is a pool, and after it was drained. *)
SettingUp == {"register", "options", "logger", "insert"}
Drained == {"forget", "extracted", "print"}

(* Where a thread's file has not been handed over, and where its failure *)
(* has not been printed either.                                          *)
Before == {"extract", "newEntry", "addEntry", "oldEntry", "lookup", "stat",
           "tags", "save"}
Pending == Before \cup {"warn", "error", "deliver"}

(* The metadata of a file was extracted. *)
Extracted(f) == metadata[f] = Metadata(Songs[f])

(* The pool and the logger follow the stages. *)
StageInv ==
  /\ stage \in SettingUp =>
       pool = "null" /\ poolThreads = {} /\ \A w \in Workers : at[w] = "idle"
  /\ stage \in {"scan", "free"} => pool = "open"
  /\ stage = "drain" => pool = "closing"
  /\ stage = "forget" => pool = "gone"
  /\ stage \in {"insert", "scan", "free", "drain"} \cup Drained =>
       logLevel = LevelVerbose /\ delegates = {Console}
  /\ stage \in Drained => tasks = << >> /\ \A w \in Workers : at[w] = "idle"

(***************************************************************************)
(* A file that is in the queue, or that a thread works on, is nowhere      *)
(* else: it was pushed once.                                               *)
(***************************************************************************)
OwnInv ==
  /\ \A i, j \in 1..Len(tasks) : tasks[i] = tasks[j] => i = j
  /\ \A i \in 1..Len(tasks) : tasks[i] \in pushed /\ tasks[i] \notin handedOver
  /\ \A w \in Workers : at[w] # "idle" =>
       /\ task[w] \in pushed
       /\ \A i \in 1..Len(tasks) : tasks[i] # task[w]
       /\ \A v \in Workers : at[v] # "idle" /\ task[v] = task[w] => v = w
  /\ \A w \in Workers : at[w] \in Before => task[w] \notin handedOver
  /\ handedOver \subseteq pushed

(* What is known about a file, by where it is. *)
FileInv ==
  /\ \A w \in Workers : at[w] = "save" => Extracted(task[w])
  /\ \A f \in handedOver : Extracted(f)

(* A file that was pushed can be found. *)
TraceInv ==
  \A f \in pushed :
    \/ \E i \in 1..Len(tasks) : tasks[i] = f
    \/ \E w \in Workers : at[w] \in Pending /\ task[w] = f
    \/ f \in handedOver
    \/ <<Console, f>> \in printed

-----------------------------------------------------------------------------
(* The conversion of a text. *)

(* If an entry of the table works, there is a first one. *)
LEMMA FirstUsable ==
  ASSUME NEW text, Usable(text) # {}
  PROVE  \E i \in Usable(text) : \A j \in Usable(text) : i <= j
  <1> DEFINE U == Usable(text)
  <1>1. U \subseteq 1..9
    BY DEF Usable, AllowedEncodingsSize
  <1> SUFFICES ASSUME \A i \in U : \E j \in U : ~(i <= j)
               PROVE  FALSE
    OBVIOUS
  <1> HIDE DEF U
  <1>2. 1 \notin U
    BY <1>1
  <1>3. 2 \notin U
    BY <1>1, <1>2
  <1>4. 3 \notin U
    BY <1>1, <1>2, <1>3
  <1>5. 4 \notin U
    BY <1>1, <1>2, <1>3, <1>4
  <1>6. 5 \notin U
    BY <1>1, <1>2, <1>3, <1>4, <1>5
  <1>7. 6 \notin U
    BY <1>1, <1>2, <1>3, <1>4, <1>5, <1>6
  <1>8. 7 \notin U
    BY <1>1, <1>2, <1>3, <1>4, <1>5, <1>6, <1>7
  <1>9. 8 \notin U /\ 9 \notin U
    BY <1>1, <1>2, <1>3, <1>4, <1>5, <1>6, <1>7, <1>8
  <1> QED
    BY <1>1, <1>2, <1>3, <1>4, <1>5, <1>6, <1>7, <1>8, <1>9 DEF U

(* What convertCStringToUTF8 returns, for every text. *)
LEMMA ConversionIsInOrder ==
  ASSUME NEW text \in Text
  PROVE  /\ ConvertCStringToUTF8(text) \in Encodings \cup {Raw}
         /\ InOrder(text, ConvertCStringToUTF8(text))
  <1>1. CASE Trusted(text)
    <2>1. text.guess # NoGuess /\ text.guess \in Encodings \cup {NoGuess}
      BY <1>1 DEF Trusted, Text
    <2> QED
      BY <1>1, <2>1 DEF ConvertCStringToUTF8, InOrder
  <1>2. CASE ~Trusted(text) /\ Usable(text) # {}
    <2> DEFINE i == CHOOSE i \in Usable(text) : \A j \in Usable(text) : i <= j
    <2>1. i \in Usable(text) /\ \A j \in Usable(text) : i <= j
      BY <1>2, FirstUsable
    <2>2. ConvertCStringToUTF8(text) = AllowedEncodings[i]
      BY <1>2 DEF ConvertCStringToUTF8
    <2> HIDE DEF i
    <2>3. i \in 1..AllowedEncodingsSize /\ CanConvert(text, AllowedEncodings[i])
      BY <2>1 DEF Usable
    <2>4. ASSUME NEW k \in 1..AllowedEncodingsSize,
                 CanConvert(text, AllowedEncodings[k])
          PROVE  i \in 1..k
      <3>1. i <= k
        BY <2>1, <2>4 DEF Usable
      <3> QED
        BY <2>3, <3>1 DEF AllowedEncodingsSize
    <2> QED
      BY <1>2, <2>2, <2>3, <2>4, EncodingsAssumption DEF InOrder
  <1>3. CASE ~Trusted(text) /\ Usable(text) = {}
    BY <1>3 DEF ConvertCStringToUTF8, InOrder, Usable
  <1> QED
    BY <1>1, <1>2, <1>3

(* Every field of a song is converted to something it can be. *)
LEMMA MetadataType ==
  ASSUME NEW f \in MediaFiles
  PROVE  Metadata(Songs[f]) \in [Fields -> Decoding]
  <1> SUFFICES ASSUME NEW field \in Fields
               PROVE  Field(Songs[f][SourceTag(field)]) \in Decoding
    BY DEF Metadata
  <1> DEFINE tag == Songs[f][SourceTag(field)]
  <1>1. tag \in Tag
    BY FilesAssumption DEF Song, SourceTag, Fields
  <1> HIDE DEF tag
  <1>2. tag.text \in Text
    BY <1>1 DEF Tag
  <1> QED
    BY <1>2, ConversionIsInOrder DEF Field, Decoding, tag

(* A field that was extracted, other than the composer, is its tag. *)
LEMMA ExtractedIsInOrder ==
  ASSUME NEW f \in MediaFiles, Extracted(f), NEW field \in Fields \ {"composer"}
  PROVE  LET tag == Songs[f][field] IN
         IF tag.latin1 THEN InOrder(tag.text, metadata[f][field])
         ELSE metadata[f][field] = "unicode"
  <1> DEFINE tag == Songs[f][field]
  <1>1. tag \in Tag
    BY FilesAssumption DEF Song
  <1>2. metadata[f][field] = Field(tag)
    BY DEF Extracted, Metadata, SourceTag
  <1> HIDE DEF tag
  <1>3. tag.text \in Text
    BY <1>1 DEF Tag
  <1>4. IF tag.latin1 THEN InOrder(tag.text, metadata[f][field])
        ELSE metadata[f][field] = "unicode"
    BY <1>2, <1>3, ConversionIsInOrder DEF Field
  <1> QED
    BY <1>4 DEF tag

-----------------------------------------------------------------------------
(* Types *)

(* The initial state has the types. *)
LEMMA TypeInit == Init => TypeOK
  <1> SUFFICES ASSUME Init
               PROVE  TypeOK
    OBVIOUS
  <1> USE DEF Init, PoolInit, LoggerInit, StatisticsInit
  <1>1. task \in [Workers -> MediaFiles]
    BY FilesAssumption
  <1>2. tasks \in Seq(MediaFiles)
    BY EmptySeq
  <1>3. metadata \in [MediaFiles -> [Fields -> Decoding]]
    BY DEF NoMetadata, Decoding
  <1>4. at \in [Workers -> Locations] /\ reads \in [Workers -> Nat]
    BY DEF Locations
  <1>5. DOMAIN processedByThread = {}
    OBVIOUS
  <1>6. logLevel \in LevelVerbose..LevelError
    BY DEF LevelVerbose, LevelWarn, LevelError
  <1> QED
    BY <1>1, <1>2, <1>3, <1>4, <1>5, <1>6 DEF TypeOK, Stages

(* main and the scan thread keep the types. *)
LEMMA SequentialTypeStep ==
  ASSUME TypeOK, SequentialStep \/ ScanTerminated \/ \E f \in MediaFiles : Push(f)
  PROVE  TypeOK'
  <1> USE DEF TypeOK, Stages, poolVars, logVars, statVars, countVars, mapVars,
          timeVars, fileVars
  <1>1. CASE Register
    BY <1>1 DEF Register, RegisterExtractor
  <1>2. CASE ParseOptions
    BY <1>2 DEF ParseOptions
  <1>3. CASE SetUpLogger
    BY <1>3 DEF SetUpLogger, SetLogLevel, AddLoggerDelegate, LevelVerbose, LevelError
  <1>4. CASE InsertDevice
    BY <1>4 DEF InsertDevice, PoolStart
  <1>5. CASE Terminate
    BY <1>5 DEF Terminate, PoolFree, PoolDrained, PoolForget
  <1>6. CASE ScanTerminated \/ ExtractFinished \/ PrintAndExit
    BY <1>6 DEF ScanTerminated, FsScanFinished, ExtractFinished,
       MetadataExtractFinished, PrintAndExit
  <1>7. ASSUME NEW f \in MediaFiles, Push(f)
        PROVE  TypeOK'
    <2>1. tasks' \in Seq(MediaFiles)
      BY <1>7 DEF Push, PushFile
    <2> QED
      BY <1>7, <2>1 DEF Push, PushFile
  <1> QED
    BY <1>1, <1>2, <1>3, <1>4, <1>5, <1>6, <1>7 DEF SequentialStep

(* A thread of the pool keeps the types. *)
LEMMA WorkerTypeStep ==
  ASSUME TypeOK, NEW w \in Workers, WorkerStep(w)
  PROVE  TypeOK'
  <1> USE DEF TypeOK, poolVars, logVars, statVars, countVars, mapVars,
          timeVars, fileVars, Elsewhere, Locations, Move
  <1>1. CASE Take(w)
    <2>1. Head(tasks) \in MediaFiles /\ Tail(tasks) \in Seq(MediaFiles)
      BY <1>1, HeadTailProperties DEF Take, TakeTask
    <2> QED
      BY <1>1, <2>1 DEF Take, TakeTask
  <1>2. CASE NewFileProcessedByThread(w)
    <2>1. /\ at' \in [Workers -> Locations]
          /\ mapRaced' \in BOOLEAN
          /\ adding' \subseteq Workers
      BY <1>2 DEF NewFileProcessedByThread, FindEntry, CountEntry, BeginEntry, EndEntry
    <2>2. DOMAIN processedByThread' \subseteq Workers
      BY <1>2 DEF NewFileProcessedByThread, FindEntry, CountEntry, BeginEntry, EndEntry
    <2>3. \A s \in DOMAIN processedByThread' : processedByThread'[s] \in Nat
      <3>1. CASE CountEntry(w)
        BY <3>1 DEF CountEntry, HasEntry
      <3>2. CASE EndEntry(w)
        BY <3>2 DEF EndEntry
      <3>3. CASE UNCHANGED processedByThread
        BY <3>3
      <3> QED
        BY <1>2, <3>1, <3>2, <3>3 DEF NewFileProcessedByThread, FindEntry, BeginEntry
    <2> QED
      BY <1>2, <2>1, <2>2, <2>3 DEF NewFileProcessedByThread
  <1>3. CASE LookUp(w)
    BY <1>3 DEF LookUp
  <1>4. CASE StatFile(w)
    BY <1>4 DEF StatFile
  <1>5. CASE ExtractMetadata(w)
    <2> DEFINE m == Metadata(Songs[task[w]])
    <2>1. m \in [Fields -> Decoding]
      BY MetadataType
    <2>2. metadata' \in {[metadata EXCEPT ![task[w]] = m], metadata}
      BY <1>5 DEF ExtractMetadata
    <2> HIDE DEF m
    <2>3. metadata' \in [MediaFiles -> [Fields -> Decoding]]
      BY <2>1, <2>2
    <2> QED
      BY <1>5, <2>3 DEF ExtractMetadata
  <1>6. CASE NotifyObservers(w)
    BY <1>6 DEF NotifyObservers
  <1>7. CASE LogFailure(w)
    BY <1>7 DEF LogFailure, LogLock, LogDeliver, Output
  <1>8. CASE NewFileProcessed(w)
    <2>1. at' \in [Workers -> Locations]
      BY <1>8 DEF NewFileProcessed
    <2>2. /\ countRaced' \in BOOLEAN
          /\ reads' \in [Workers -> Nat]
          /\ allFilesProcessed' \in Nat
      <3>1. CASE ReadCounter(w)
        BY <3>1 DEF ReadCounter
      <3>2. CASE WriteCounter(w)
        <4>1. countRaced' \in BOOLEAN
          BY ONLY <3>2, Zenon DEF WriteCounter
        <4>2. /\ allFilesProcessed' = reads[w] + 1
              /\ reads' = [reads EXCEPT ![w] = 0]
          BY ONLY <3>2, Zenon DEF WriteCounter
        <4> QED
          BY <4>1, <4>2
      <3> QED
        BY <1>8, <3>1, <3>2 DEF NewFileProcessed
    <2> QED
      BY <1>8, <2>1, <2>2 DEF NewFileProcessed
  <1>9. CASE Crash(w)
    BY <1>9 DEF Crash, Stages
  <1> QED
    BY <1>1, <1>2, <1>3, <1>4, <1>5, <1>6, <1>7, <1>8, <1>9 DEF WorkerStep

(* Every step keeps the types. *)
LEMMA TypeStep ==
  ASSUME TypeOK, [Next]_vars
  PROVE  TypeOK'
  <1>1. CASE RemoveDevice
    BY <1>1 DEF RemoveDevice, TypeOK, poolVars, logVars, statVars, countVars,
       mapVars, timeVars, fileVars
  <1>2. CASE UNCHANGED vars
    BY <1>2 DEF vars, TypeOK, poolVars, logVars, statVars, countVars, mapVars,
       timeVars, fileVars
  <1> QED
    BY <1>1, <1>2, SequentialTypeStep, WorkerTypeStep DEF Next

(* Every variable keeps its type, whatever was lost without a lock. *)
THEOREM ExtractionTypeCorrect == Spec => []TypeOK
  BY TypeInit, TypeStep, PTL DEF Spec

-----------------------------------------------------------------------------
(* The stages *)

(***************************************************************************)
(* A step of a thread, for what the other parts do: the thread is in the   *)
(* pool or works already, its file is its own affair, and the rest of the  *)
(* program, but for the end of the process, is left alone.                 *)
(***************************************************************************)
LEMMA WorkerFrame ==
  ASSUME TypeOK, NEW w \in Workers, WorkerStep(w)
  PROVE  /\ UNCHANGED <<pool, poolThreads, registered, logLevel, delegates,
                        present, pushed, fsScanEnded, extractEnded>>
         /\ stage' \in {stage, "crashed"}
         /\ at' \in [Workers -> Locations]
         /\ \A v \in Workers \ {w} : at'[v] = at[v] /\ task'[v] = task[v]
         /\ \/ Take(w)
            \/ at[w] # "idle" /\ UNCHANGED <<tasks, task>>
  <1> USE DEF poolVars, logVars, statVars, countVars, mapVars, timeVars,
          fileVars, Elsewhere, Move
  <1>1. at' \in [Workers -> Locations]
    BY WorkerTypeStep DEF TypeOK
  <1>2. CASE Take(w)
    BY <1>1, <1>2 DEF Take, TakeTask, TypeOK
  <1>3. CASE NewFileProcessedByThread(w)
    BY <1>1, <1>3 DEF NewFileProcessedByThread, TypeOK
  <1>4. CASE LookUp(w) \/ StatFile(w) \/ ExtractMetadata(w) \/ NotifyObservers(w)
    BY <1>1, <1>4 DEF LookUp, StatFile, ExtractMetadata, NotifyObservers, TypeOK
  <1>5. CASE LogFailure(w)
    BY <1>1, <1>5 DEF LogFailure, LogLock, LogDeliver, TypeOK
  <1>6. CASE NewFileProcessed(w)
    BY <1>1, <1>6 DEF NewFileProcessed, TypeOK
  <1>7. CASE Crash(w)
    BY <1>1, <1>7 DEF Crash, TypeOK
  <1> QED
    BY <1>2, <1>3, <1>4, <1>5, <1>6, <1>7 DEF WorkerStep

(* main begins alone, without a pool. *)
LEMMA StageInit == Init => StageInv
  BY DEF Init, PoolInit, StageInv, SettingUp, Drained

(* Every step keeps the pool and the logger in line with the stages. *)
LEMMA StageStep ==
  ASSUME TypeOK, StageInv, [Next]_vars
  PROVE  StageInv'
  <1> USE DEF StageInv, SettingUp, Drained, poolVars, logVars, statVars, fileVars
  <1>1. CASE Register \/ ParseOptions
    BY <1>1 DEF Register, ParseOptions
  <1>2. CASE SetUpLogger
    BY <1>2 DEF SetUpLogger, SetLogLevel, AddLoggerDelegate, TypeOK
  <1>3. CASE InsertDevice
    BY <1>3 DEF InsertDevice, PoolStart
  <1>4. CASE Terminate
    BY <1>4 DEF Terminate, PoolFree, PoolDrained, PoolForget
  <1>5. CASE ScanTerminated \/ ExtractFinished \/ PrintAndExit
    BY <1>5 DEF ScanTerminated, ExtractFinished, PrintAndExit
  <1>6. ASSUME NEW f \in MediaFiles, Push(f)
        PROVE  StageInv'
    BY <1>6 DEF Push, PushFile
  <1>7. CASE RemoveDevice
    BY <1>7 DEF RemoveDevice
  <1>8. ASSUME NEW w \in Workers, WorkerStep(w)
        PROVE  StageInv'
    <2>1. stage \notin SettingUp \cup Drained
      BY <1>8, WorkerFrame DEF Take, TakeTask
    <2> QED
      BY <1>8, <2>1, WorkerFrame
  <1>9. CASE UNCHANGED vars
    BY <1>9 DEF vars
  <1> QED
    BY <1>1, <1>2, <1>3, <1>4, <1>5, <1>6, <1>7, <1>8, <1>9
       DEF Next, SequentialStep

(* In every state the variables have their types and follow the stages. *)
LEMMA StagesInvariant == Spec => [](TypeOK /\ StageInv)
  <1>1. Init => TypeOK /\ StageInv
    BY TypeInit, StageInit
  <1>2. TypeOK /\ StageInv /\ [Next]_vars => TypeOK' /\ StageInv'
    BY TypeStep, StageStep
  <1> QED
    BY <1>1, <1>2, PTL DEF Spec

(***************************************************************************)
(* The registry and the logger are written only while main is the only     *)
(* thread that uses them.                                                  *)
(***************************************************************************)
THEOREM SetUpIsSequential == Spec => SetUpBeforeThreads
  <1> DEFINE A == registered' # registered \/ logLevel' # logLevel
                    \/ delegates' # delegates => pool = "null" /\ poolThreads = {}
  <1>1. ASSUME TypeOK, StageInv, [Next]_vars
        PROVE  [A]_vars
    <2> USE <1>1 DEF StageInv, SettingUp, poolVars, logVars, statVars
    <2>1. CASE Register \/ SetUpLogger
      BY <2>1 DEF Register, SetUpLogger
    <2>2. CASE \/ ParseOptions \/ InsertDevice \/ Terminate \/ ExtractFinished
               \/ PrintAndExit \/ ScanTerminated \/ RemoveDevice
      BY <2>2 DEF ParseOptions, InsertDevice, Terminate, ExtractFinished,
         PrintAndExit, ScanTerminated, RemoveDevice
    <2>3. ASSUME NEW f \in MediaFiles, Push(f)
          PROVE  A
      BY <2>3 DEF Push
    <2>4. ASSUME NEW w \in Workers, WorkerStep(w)
          PROVE  A
      BY <2>4, WorkerFrame
    <2>5. CASE UNCHANGED vars
      BY <2>5
    <2> QED
      BY <1>1, <2>1, <2>2, <2>3, <2>4, <2>5 DEF Next, SequentialStep
  <1> QED
    BY <1>1, StagesInvariant, PTL DEF SetUpBeforeThreads, Spec

-----------------------------------------------------------------------------
(* Where a file is *)

(* Before anything is pushed nothing is owned, known or lost. *)
LEMMA OwnInit == Init => OwnInv /\ FileInv /\ TraceInv
  BY EmptySeq DEF Init, PoolInit, OwnInv, FileInv, TraceInv, Before

(* Pushing a file puts it at the end of the queue. *)
LEMMA PushOwn ==
  ASSUME TypeOK, StageInv, OwnInv, TraceInv, NEW f \in MediaFiles, Push(f)
  PROVE  OwnInv' /\ TraceInv'
  <1> USE DEF TypeOK, poolVars, logVars, fileVars
  <1>1. tasks' = Append(tasks, f) /\ f \notin pushed /\ pushed' = pushed \cup {f}
    BY DEF Push, PushFile, StageInv
  <1>2. UNCHANGED <<at, task, printed, handedOver>>
    BY DEF Push, PushFile
  <1>3. /\ Len(tasks) \in Nat
        /\ Len(tasks') = Len(tasks) + 1
        /\ \A i \in 1..Len(tasks) : tasks'[i] = tasks[i]
        /\ tasks'[Len(tasks) + 1] = f
    BY <1>1, LenProperties, AppendProperties
  <1>4. OwnInv'
    <2> HIDE DEF TypeOK
    <2>0. \A i \in 1..Len(tasks') :
            \/ i \in 1..Len(tasks) /\ tasks'[i] = tasks[i]
            \/ i = Len(tasks) + 1 /\ tasks'[i] = f
      BY <1>3
    <2>1. \A i, j \in 1..Len(tasks') : tasks'[i] = tasks'[j] => i = j
      BY <1>1, <2>0 DEF OwnInv
    <2>2. \A i \in 1..Len(tasks') :
            tasks'[i] \in pushed' /\ tasks'[i] \notin handedOver'
      BY <1>1, <1>2, <2>0 DEF OwnInv
    <2>3. ASSUME NEW w \in Workers, at'[w] # "idle"
          PROVE  /\ task'[w] \in pushed'
                 /\ \A i \in 1..Len(tasks') : tasks'[i] # task'[w]
                 /\ \A v \in Workers : at'[v] # "idle" /\ task'[v] = task'[w] => v = w
      BY <1>1, <1>2, <2>0, <2>3 DEF OwnInv
    <2>4. \A w \in Workers : at'[w] \in Before => task'[w] \notin handedOver'
      BY <1>2 DEF OwnInv
    <2>5. handedOver' \subseteq pushed'
      BY <1>1, <1>2 DEF OwnInv
    <2> QED
      BY <2>1, <2>2, <2>3, <2>4, <2>5 DEF OwnInv, Before
  <1>5. TraceInv'
    <2> SUFFICES ASSUME NEW g \in pushed'
                 PROVE  \/ \E i \in 1..Len(tasks') : tasks'[i] = g
                        \/ \E w \in Workers : at[w] \in Pending /\ task[w] = g
                        \/ g \in handedOver
                        \/ <<Console, g>> \in printed
      BY <1>2 DEF TraceInv
    <2>1. CASE g = f
      <3>1. Len(tasks) + 1 \in 1..Len(tasks')
        BY <1>3
      <3> QED
        BY <1>3, <2>1, <3>1
    <2>2. CASE \E i \in 1..Len(tasks) : tasks[i] = g
      BY <1>3, <2>2
    <2> QED
      BY <1>1, <2>1, <2>2 DEF TraceInv
  <1> QED
    BY <1>4, <1>5

(* Taking a file moves it from the queue to the thread. *)
LEMMA TakeOwn ==
  ASSUME TypeOK, OwnInv, TraceInv, NEW w \in Workers, Take(w)
  PROVE  OwnInv' /\ TraceInv'
  <1> USE DEF TypeOK, Locations, logVars, fileVars
  <1> DEFINE f == Head(tasks)
  <1>1. /\ at[w] = "idle" /\ tasks # << >>
        /\ task' = [task EXCEPT ![w] = f]
        /\ tasks' = Tail(tasks)
        /\ at' = [at EXCEPT ![w] = "extract"]
        /\ UNCHANGED <<pushed, handedOver, printed>>
    BY DEF Take, TakeTask
  <1>2. /\ Len(tasks) \in Nat \ {0}
        /\ Len(tasks') = Len(tasks) - 1
        /\ \A i \in 1..Len(tasks') : tasks'[i] = tasks[i + 1]
        /\ f = tasks[1]
    BY <1>1, EmptySeq, HeadTailProperties
  <1> HIDE DEF f
  <1>3. /\ f \in pushed /\ f \notin handedOver
        /\ \A i \in 1..Len(tasks') : tasks'[i] # f
        /\ \A v \in Workers : at[v] # "idle" => task[v] # f
    <2>1. 1 \in 1..Len(tasks)
      BY <1>2
    <2>2. f \in pushed /\ f \notin handedOver
      BY <1>2, <2>1 DEF OwnInv
    <2>3. ASSUME NEW i \in 1..Len(tasks')
          PROVE  tasks'[i] # f
      <3>1. i + 1 \in 1..Len(tasks) /\ i + 1 # 1
        BY <1>2
      <3>2. tasks[i + 1] # tasks[1]
        BY <2>1, <3>1 DEF OwnInv
      <3> QED
        BY <1>2, <3>2
    <2>4. \A v \in Workers : at[v] # "idle" => task[v] # f
      BY <1>2, <2>1 DEF OwnInv
    <2> QED
      BY <2>2, <2>3, <2>4
  <1>4. OwnInv'
    <2> DEFINE next(i) == i + 1
    <2>0. \A i \in 1..Len(tasks') :
            next(i) \in 1..Len(tasks) /\ tasks'[i] = tasks[next(i)]
      BY <1>2
    <2>1. ASSUME NEW i \in 1..Len(tasks'), NEW j \in 1..Len(tasks'),
                 tasks'[i] = tasks'[j]
          PROVE  i = j
      <3>1. next(i) = next(j)
        BY <2>0, <2>1 DEF OwnInv
      <3> QED
        BY <3>1
    <2>2. \A i \in 1..Len(tasks') : tasks'[i] \in pushed /\ tasks'[i] \notin handedOver
      BY <2>0 DEF OwnInv
    <2>3. ASSUME NEW v \in Workers, at'[v] # "idle"
          PROVE  /\ task'[v] \in pushed
                 /\ \A i \in 1..Len(tasks') : tasks'[i] # task'[v]
                 /\ \A u \in Workers : at'[u] # "idle" /\ task'[u] = task'[v] => u = v
      BY <1>1, <1>2, <1>3, <2>3 DEF OwnInv
    <2>4. \A v \in Workers : at'[v] \in Before => task'[v] \notin handedOver
      BY <1>1, <1>3 DEF OwnInv
    <2> QED
      BY <1>1, <2>1, <2>2, <2>3, <2>4 DEF OwnInv
  <1>5. ASSUME NEW g \in pushed
        PROVE  \/ \E i \in 1..Len(tasks') : tasks'[i] = g
               \/ \E v \in Workers : at'[v] \in Pending /\ task'[v] = g
               \/ g \in handedOver
               \/ <<Console, g>> \in printed
    <2>1. CASE \E i \in 1..Len(tasks) : tasks[i] = g
      <3>1. PICK i \in 1..Len(tasks) : tasks[i] = g
        BY <2>1
      <3>2. CASE i = 1
        BY <1>1, <1>2, <3>1, <3>2 DEF Pending, Before
      <3>3. CASE i # 1
        <4>1. i - 1 \in 1..Len(tasks') /\ (i - 1) + 1 = i
          BY <1>2, <3>3
        <4>2. tasks'[i - 1] = g
          BY <1>2, <3>1, <4>1
        <4> QED
          BY <4>1, <4>2
      <3> QED
        BY <3>2, <3>3
    <2>2. CASE \E v \in Workers : at[v] \in Pending /\ task[v] = g
      BY <1>1, <2>2 DEF Pending, Before
    <2> QED
      BY <2>1, <2>2 DEF TraceInv
  <1> QED
    BY <1>1, <1>4, <1>5 DEF TraceInv

(* The other steps of a thread leave the queue alone; the thread goes on   *)
(* with its file, hands it over, prints its failure, or is done with it.   *)
LEMMA WorkerOwn ==
  ASSUME TypeOK, StageInv, OwnInv, TraceInv, Running,
         NEW w \in Workers, WorkerStep(w), ~Take(w)
  PROVE  OwnInv' /\ TraceInv'
  <1> USE DEF Before, Pending
  <1>1. /\ at[w] # "idle"
        /\ UNCHANGED <<tasks, task, pushed>>
        /\ at' \in [Workers -> Locations]
        /\ \A v \in Workers \ {w} : at'[v] = at[v]
    BY WorkerFrame
  <1>2. /\ at'[w] \in Before => at[w] \in Before
        /\ handedOver' = handedOver \/ /\ handedOver' = handedOver \cup {task[w]}
                                       /\ at'[w] = "processed"
        /\ printed \subseteq printed'
        /\ \/ at'[w] \in Pending
           \/ at[w] \notin Pending
           \/ task[w] \in handedOver' \/ <<Console, task[w]>> \in printed'
    <2> USE DEF TypeOK, Move, logVars, fileVars
    <2>1. CASE NewFileProcessedByThread(w) \/ LookUp(w) \/ StatFile(w)
      BY <2>1 DEF NewFileProcessedByThread, LookUp, StatFile
    <2>2. CASE ExtractMetadata(w) \/ NotifyObservers(w) \/ NewFileProcessed(w)
      BY <2>2 DEF ExtractMetadata, NotifyObservers, NewFileProcessed
    <2>3. CASE LogFailure(w)
      <3>1. logLevel = LevelVerbose /\ delegates = {Console}
        BY <1>1 DEF StageInv, SettingUp, Drained, Running, Stages
      <3>2. ~Filtered(LevelWarn) /\ ~Filtered(LevelError)
        BY <3>1 DEF Filtered, LevelVerbose, LevelWarn, LevelError
      <3> QED
        BY <2>3, <3>1, <3>2 DEF LogFailure, LogLock, LogDeliver, Output
    <2>4. CASE Crash(w)
      BY <2>4 DEF Crash, poolVars
    <2> QED
      BY <2>1, <2>2, <2>3, <2>4 DEF WorkerStep
  <1>3. OwnInv'
    <2>1. /\ \A i, j \in 1..Len(tasks') : tasks'[i] = tasks'[j] => i = j
          /\ \A i \in 1..Len(tasks') : tasks'[i] \in pushed /\ tasks'[i] \notin handedOver'
      BY <1>1, <1>2 DEF OwnInv
    <2>2. ASSUME NEW v \in Workers, at'[v] # "idle"
          PROVE  /\ task'[v] \in pushed
                 /\ \A i \in 1..Len(tasks') : tasks'[i] # task'[v]
                 /\ \A u \in Workers : at'[u] # "idle" /\ task'[u] = task'[v] => u = v
      <3>1. at[v] # "idle" /\ \A u \in Workers : at'[u] # "idle" => at[u] # "idle"
        BY <1>1, <2>2
      <3> QED
        BY <1>1, <3>1 DEF OwnInv
    <2>3. ASSUME NEW v \in Workers, at'[v] \in Before
          PROVE  task'[v] \notin handedOver'
      <3>1. at[v] \in Before /\ task[v] \notin handedOver
        BY <1>1, <1>2, <2>3 DEF OwnInv
      <3>2. CASE handedOver' = handedOver
        BY <1>1, <3>1, <3>2
      <3>3. CASE handedOver' = handedOver \cup {task[w]} /\ at'[w] = "processed"
        <4>1. v # w
          BY <2>3, <3>3
        <4>2. task[v] # task[w]
          BY <1>1, <3>1, <4>1 DEF OwnInv
        <4> QED
          BY <1>1, <3>1, <3>3, <4>2
      <3> QED
        BY <1>2, <3>2, <3>3
    <2>4. handedOver' \subseteq pushed'
      BY <1>1, <1>2 DEF OwnInv
    <2> QED
      BY <1>1, <2>1, <2>2, <2>3, <2>4 DEF OwnInv
  <1>4. ASSUME NEW g \in pushed
        PROVE  \/ \E i \in 1..Len(tasks') : tasks'[i] = g
               \/ \E v \in Workers : at'[v] \in Pending /\ task'[v] = g
               \/ g \in handedOver'
               \/ <<Console, g>> \in printed'
    <2>1. CASE at[w] \in Pending /\ task[w] = g
      BY <1>1, <1>2, <2>1
    <2>2. CASE \E v \in Workers \ {w} : at[v] \in Pending /\ task[v] = g
      BY <1>1, <2>2
    <2> QED
      BY <1>1, <1>2, <2>1, <2>2 DEF TraceInv
  <1> QED
    BY <1>1, <1>3, <1>4 DEF TraceInv

(* Every step keeps each file in one place, and leaves a trace of it. *)
LEMMA OwnStep ==
  ASSUME TypeOK, StageInv, OwnInv, TraceInv, [Next]_vars
  PROVE  OwnInv' /\ TraceInv'
  <1>1. CASE SequentialStep \/ ScanTerminated \/ RemoveDevice
    <2>1. UNCHANGED <<tasks, task, at, printed, pushed, handedOver>>
      BY <1>1 DEF SequentialStep, Register, ParseOptions, SetUpLogger, InsertDevice,
         PoolStart, Terminate, PoolFree, PoolDrained, PoolForget, ExtractFinished,
         PrintAndExit, ScanTerminated, RemoveDevice, poolVars, logVars, fileVars
    <2> QED
      BY <2>1 DEF OwnInv, TraceInv
  <1>2. CASE UNCHANGED vars
    BY <1>2 DEF vars, poolVars, logVars, fileVars, OwnInv, TraceInv
  <1> QED
    BY <1>1, <1>2, PushOwn, TakeOwn, WorkerOwn DEF Next

-----------------------------------------------------------------------------
(* What is known about a file *)

(***************************************************************************)
(* A thread fills in the File of its own path only, and no other thread    *)
(* works on that path, and it was not handed over (OwnInv).                *)
(***************************************************************************)
LEMMA WorkerFile ==
  ASSUME TypeOK, OwnInv, FileInv, NEW w \in Workers, WorkerStep(w)
  PROVE  FileInv'
  <1> USE DEF TypeOK, Elsewhere, Move, poolVars, fileVars, Locations
  <1>1. CASE Take(w)
    <2>1. /\ task' = [task EXCEPT ![w] = Head(tasks)]
          /\ at' = [at EXCEPT ![w] = "extract"]
          /\ UNCHANGED <<present, metadata, handedOver>>
      BY <1>1 DEF Take, TakeTask
    <2> QED
      BY <2>1 DEF FileInv, Extracted
  <1>2. CASE \/ NewFileProcessedByThread(w) \/ LookUp(w) \/ LogFailure(w)
             \/ NewFileProcessed(w) \/ Crash(w)
    <2>1. /\ UNCHANGED <<task, present, metadata, handedOver>>
          /\ at' \in [Workers -> Locations]
          /\ at'[w] \notin {"tags", "save"} \/ at' = at
          /\ \A v \in Workers \ {w} : at'[v] = at[v]
      BY <1>2, WorkerFrame DEF NewFileProcessedByThread, LookUp, LogFailure,
         NewFileProcessed, Crash
    <2> QED
      BY <2>1 DEF FileInv, Extracted
  <1>3. ASSUME at[w] \in Before
        PROVE  /\ \A v \in Workers : at[v] # "idle" /\ v # w => task[v] # task[w]
               /\ task[w] \notin handedOver
    BY <1>3 DEF OwnInv, Before
  <1>4. CASE StatFile(w)
    <2>1. /\ at[w] = "stat" /\ at' = [at EXCEPT ![w] = "tags"]
          /\ UNCHANGED <<task, metadata, handedOver>>
      BY <1>4 DEF StatFile
    <2> QED
      BY <2>1 DEF FileInv, Extracted
  <1>5. CASE ExtractMetadata(w) /\ at'[w] = "save"
    <2> DEFINE m == Metadata(Songs[task[w]])
    <2>1. /\ at[w] = "tags" /\ at' = [at EXCEPT ![w] = "save"] /\ present
          /\ metadata' = [metadata EXCEPT ![task[w]] = m]
          /\ UNCHANGED <<task, present, handedOver>>
      BY <1>5 DEF ExtractMetadata
    <2>2. /\ \A v \in Workers : at[v] # "idle" /\ v # w => task[v] # task[w]
          /\ task[w] \notin handedOver
      BY <1>3, <2>1 DEF Before
    <2>3. Extracted(task[w])'
      BY <2>1 DEF FileInv, Extracted
    <2>4. ASSUME NEW f \in MediaFiles, f # task[w], Extracted(f)
          PROVE  Extracted(f)'
      BY <2>1, <2>4 DEF Extracted
    <2> HIDE DEF m
    <2> QED
      BY <2>1, <2>2, <2>3, <2>4 DEF FileInv
  <1>6. CASE ExtractMetadata(w) /\ at'[w] # "save"
    <2>1. /\ at' = [at EXCEPT ![w] = "error"]
          /\ UNCHANGED <<task, present, metadata, handedOver>>
      BY <1>6 DEF ExtractMetadata
    <2> QED
      BY <2>1 DEF FileInv, Extracted
  <1>7. CASE NotifyObservers(w)
    <2>1. /\ at[w] = "save" /\ at' = [at EXCEPT ![w] = "processed"]
          /\ handedOver' = handedOver \cup {task[w]}
          /\ UNCHANGED <<task, present, metadata>>
      BY <1>7 DEF NotifyObservers
    <2> QED
      BY <2>1 DEF FileInv, Extracted
  <1> QED
    BY <1>1, <1>2, <1>4, <1>5, <1>6, <1>7 DEF WorkerStep

(* Every step keeps what is known about each file. *)
LEMMA FileStep ==
  ASSUME TypeOK, OwnInv, FileInv, [Next]_vars
  PROVE  FileInv'
  <1>1. CASE \/ SequentialStep \/ ScanTerminated \/ RemoveDevice
             \/ \E f \in MediaFiles : Push(f)
    <2>1. /\ UNCHANGED <<task, at, metadata, handedOver>>
          /\ present' => present
      BY <1>1 DEF SequentialStep, Register, ParseOptions, SetUpLogger, InsertDevice,
         PoolStart, Terminate, PoolFree, PoolDrained, PoolForget, ExtractFinished,
         PrintAndExit, ScanTerminated, RemoveDevice, Push, PushFile, poolVars, fileVars
    <2> QED
      BY <2>1 DEF FileInv, Extracted
  <1>2. CASE UNCHANGED vars
    BY <1>2 DEF vars, poolVars, fileVars, FileInv, Extracted
  <1> QED
    BY <1>1, <1>2, WorkerFile DEF Next

(* In every state each file is in one place, known, and not lost. *)
LEMMA FilesInvariant ==
  Spec => [](TypeOK /\ StageInv /\ OwnInv /\ TraceInv /\ FileInv)
  <1> DEFINE IInv == TypeOK /\ StageInv /\ OwnInv /\ TraceInv /\ FileInv
  <1>1. Init => IInv
    BY TypeInit, StageInit, OwnInit
  <1>2. IInv /\ [Next]_vars => IInv'
    BY TypeStep, StageStep, OwnStep, FileStep
  <1> QED
    BY <1>1, <1>2, PTL DEF Spec

(***************************************************************************)
(* Every field of a File that is handed over, but for the composer, comes  *)
(* from the tag of its name, decoded in the order that the comments of     *)
(* convertCStringToUTF8 give, whatever the text of the tag is.             *)
(***************************************************************************)
THEOREM TagsAreDecodedInOrder == Spec => []DecodedInOrder
  <1>1. TypeOK /\ FileInv => DecodedInOrder
    BY ExtractedIsInOrder DEF TypeOK, FileInv, DecodedInOrder
  <1> QED
    BY <1>1, FilesInvariant, PTL

(***************************************************************************)
(* Whatever goes wrong with a file that was pushed: when the statistics    *)
(* are printed it was handed over, or the user was told.                   *)
(***************************************************************************)
THEOREM NoFailureIsSilent == Spec => []FailuresAreReported
  <1>1. TypeOK /\ StageInv /\ TraceInv => FailuresAreReported
    <2> SUFFICES ASSUME TypeOK, StageInv, TraceInv, stage = "print",
                        NEW f \in pushed
                 PROVE  f \in handedOver \/ <<Console, f>> \in printed
      BY DEF FailuresAreReported
    <2>1. tasks = << >> /\ \A w \in Workers : at[w] = "idle"
      BY DEF StageInv, Drained
    <2>2. Len(tasks) = 0
      BY <2>1, EmptySeq
    <2> QED
      BY <2>1, <2>2 DEF TraceInv, Pending, Before
  <1> QED
    BY <1>1, FilesInvariant, PTL

-----------------------------------------------------------------------------
(* Sums over a finite set *)

(* The element that MapThenSumSet adds first. *)
First(s) == CHOOSE x \in s : TRUE

(* g gives the sum of c over each set of threads, added up like that. *)
SumsUp(g, c) ==
  g = [s \in SUBSET Workers |-> IF s = {} THEN 0 ELSE c[First(s)] + g[s \ {First(s)}]]

(* n is the sum of c over all threads. *)
IsSum(c, n) ==
  \E g \in [SUBSET Workers -> Nat] : SumsUp(g, c) /\ n = g[Workers]

(* The first element of a set is one. *)
LEMMA FirstIsIn ==
  ASSUME NEW s \in SUBSET Workers, s # {}
  PROVE  First(s) \in s /\ First(s) \in Workers /\ s \ {First(s)} \in SUBSET Workers
  BY DEF First

(* Nothing was counted. *)
LEMMA SumOfZeros == IsSum([w \in Workers |-> 0], 0)
  <1> DEFINE zeros == [w \in Workers |-> 0]
             g == [s \in SUBSET Workers |-> 0]
  <1>1. g \in [SUBSET Workers -> Nat] /\ g[Workers] = 0
    OBVIOUS
  <1>2. ASSUME NEW s \in SUBSET Workers
        PROVE  g[s] = IF s = {} THEN 0 ELSE zeros[First(s)] + g[s \ {First(s)}]
    BY FirstIsIn
  <1>3. SumsUp(g, zeros)
    BY <1>2 DEF SumsUp
  <1> QED
    BY <1>1, <1>3 DEF IsSum

(* One more is counted for one thread. *)
LEMMA SumOfOneMore ==
  ASSUME NEW c \in [Workers -> Nat], NEW n, IsSum(c, n), NEW w \in Workers,
         NEW d \in [Workers -> Nat], d[w] = c[w] + 1,
         \A v \in Workers \ {w} : d[v] = c[v]
  PROVE  IsSum(d, n + 1)
  <1>1. PICK g \in [SUBSET Workers -> Nat] : SumsUp(g, c) /\ n = g[Workers]
    BY DEF IsSum
  <1> DEFINE one == [s \in SUBSET Workers |-> IF w \in s THEN 1 ELSE 0]
             h == [s \in SUBSET Workers |-> g[s] + one[s]]
  <1>2. \A s \in SUBSET Workers : h[s] = g[s] + one[s] /\ g[s] \in Nat /\ one[s] \in Nat
    OBVIOUS
  <1>3. h \in [SUBSET Workers -> Nat] /\ h[Workers] = n + 1
    <2>1. Workers \in SUBSET Workers /\ one[Workers] = 1
      OBVIOUS
    <2> HIDE DEF one
    <2>2. ASSUME NEW s \in SUBSET Workers
          PROVE  g[s] + one[s] \in Nat
      <3>1. g[s] \in Nat /\ one[s] \in Nat
        BY <1>2
      <3> QED
        BY <3>1
    <2>4. h \in [SUBSET Workers -> Nat]
      BY <2>2
    <2>3. h[Workers] = g[Workers] + 1
      BY <1>2, <2>1
    <2> QED
      BY <1>1, <2>3, <2>4
  <1>4. ASSUME NEW s \in SUBSET Workers
        PROVE  h[s] = IF s = {} THEN 0 ELSE d[First(s)] + h[s \ {First(s)}]
    <2>1. g[s] = IF s = {} THEN 0 ELSE c[First(s)] + g[s \ {First(s)}]
      BY <1>1 DEF SumsUp
    <2>2. CASE s = {}
      BY <2>1, <2>2
    <2>3. CASE s # {}
      <3> DEFINE x == First(s)
      <3>1. x \in s /\ x \in Workers /\ s \ {x} \in SUBSET Workers
        BY <2>3, FirstIsIn
      <3>2. g[s] = c[x] + g[s \ {x}] /\ g[s \ {x}] \in Nat /\ c[x] \in Nat /\ d[x] \in Nat
        BY <2>1, <2>3, <3>1
      <3>3. h[s] = g[s] + one[s] /\ h[s \ {x}] = g[s \ {x}] + one[s \ {x}]
        BY <3>1
      <3>4. d[x] + one[s \ {x}] = c[x] + one[s]
        BY <3>1
      <3> HIDE DEF x, h, one
      <3>5. one[s] \in Nat /\ one[s \ {x}] \in Nat
        BY DEF one
      <3>6. h[s] = d[x] + h[s \ {x}]
        BY <3>2, <3>3, <3>4, <3>5
      <3> QED
        BY <2>3, <3>6 DEF x
    <2> QED
      BY <2>2, <2>3
  <1>5. SumsUp(h, d)
    BY <1>4 DEF SumsUp
  <1> QED
    BY <1>3, <1>5 DEF IsSum

(* There is only one way to add up: by induction over the sets of threads. *)
LEMMA SumIsUnique ==
  ASSUME NEW c, NEW g, NEW h, SumsUp(g, c), SumsUp(h, c)
  PROVE  g[Workers] = h[Workers]
  <1> DEFINE T == {s \in SUBSET Workers : g[s] # h[s]}
  <1> SUFFICES ASSUME T # {}
               PROVE  FALSE
    OBVIOUS
  <1>1. /\ IsWellFoundedOn(StrictSubsetOrdering(Workers), SUBSET Workers)
        /\ T \subseteq SUBSET Workers
    BY ThreadsAssumption, FS_StrictSubsetOrderingWellFounded, FS_FiniteSubsetsOfFinite
  <1>2. PICK s \in T : \A r \in T : <<r, s>> \notin StrictSubsetOrdering(Workers)
    <2> HIDE DEF T
    <2> QED
      BY <1>1, WFMin
  <1>3. s \in SUBSET Workers /\ g[s] # h[s]
    OBVIOUS
  <1>4. /\ g[s] = IF s = {} THEN 0 ELSE c[First(s)] + g[s \ {First(s)}]
        /\ h[s] = IF s = {} THEN 0 ELSE c[First(s)] + h[s \ {First(s)}]
    BY <1>3 DEF SumsUp
  <1>5. s # {} /\ g[s \ {First(s)}] # h[s \ {First(s)}]
    BY <1>3, <1>4
  <1>6. s \ {First(s)} \in T /\ s \ {First(s)} \subseteq s /\ s \ {First(s)} # s
    BY <1>3, <1>5, FirstIsIn
  <1>7. <<s \ {First(s)}, s>> \in StrictSubsetOrdering(Workers)
    BY <1>3, <1>6 DEF StrictSubsetOrdering
  <1> QED
    BY <1>2, <1>6, <1>7

(* How many files each thread was counted for. *)
Counts == [w \in Workers |-> IF HasEntry(w) THEN processedByThread[w] ELSE 0]

(* What MapThenSumSet returns. *)
LEMMA MapThenSum ==
  ASSUME NEW n, IsSum(Counts, n)
  PROVE  LET Count(w) == IF HasEntry(w) THEN processedByThread[w] ELSE 0 IN
         MapThenSumSet(Count, Workers) = n
  <1> DEFINE Count(w) == IF HasEntry(w) THEN processedByThread[w] ELSE 0
             Adds(g) == g = [s \in SUBSET Workers |->
                              IF s = {} THEN 0
                              ELSE Count(CHOOSE x \in s : TRUE)
                                     + g[s \ {CHOOSE x \in s : TRUE}]]
             iter == CHOOSE g : Adds(g)
  <1>1. MapThenSumSet(Count, Workers) = iter[Workers]
    BY DEF MapThenSumSet, MapThenFoldSet
  <1>2. PICK g \in [SUBSET Workers -> Nat] : SumsUp(g, Counts) /\ n = g[Workers]
    BY DEF IsSum
  <1>3. \A s \in SUBSET Workers : s # {} =>
          Counts[First(s)] = Count(CHOOSE x \in s : TRUE)
    BY FirstIsIn DEF Counts, First
  <1> HIDE DEF Count
  <1>4. \A f : Adds(f) <=> SumsUp(f, Counts)
    <2> SUFFICES ASSUME NEW f
                 PROVE  Adds(f) <=> SumsUp(f, Counts)
      OBVIOUS
    <2> DEFINE one(s) == IF s = {} THEN 0
                         ELSE Count(CHOOSE x \in s : TRUE) + f[s \ {CHOOSE x \in s : TRUE}]
               other(s) == IF s = {} THEN 0 ELSE Counts[First(s)] + f[s \ {First(s)}]
    <2>1. \A s \in SUBSET Workers : one(s) = other(s)
      BY <1>3 DEF First
    <2> HIDE DEF one, other
    <2>2. [s \in SUBSET Workers |-> one(s)] = [s \in SUBSET Workers |-> other(s)]
      BY <2>1
    <2> QED
      BY <2>2 DEF SumsUp, one, other
  <1> HIDE DEF Adds
  <1>5. Adds(iter)
    BY <1>2, <1>4
  <1> HIDE DEF iter
  <1>6. iter[Workers] = n
    BY <1>2, <1>4, <1>5, SumIsUnique
  <1> QED
    BY <1>1, <1>6 DEF Count

-----------------------------------------------------------------------------
(* The statistics *)

(* The threads in some part of processFile, ... *)
In(L) == {w \in Workers : at[w] \in L}

(* ... with a file, ... *)
Busy == Locations \ {"idle"}

(* ... and with one that is not counted for the thread yet. *)
Uncounted == {"extract", "newEntry", "addEntry", "oldEntry"}

(* How many files were processed, and counted for their threads, so far. *)
Finished == Cardinality(pushed) - (Len(tasks) + Cardinality(In(Busy)))
Counted == Cardinality(pushed) - (Len(tasks) + Cardinality(In(Uncounted)))

(* The end times are set in the order of the stages. *)
TimeInv ==
  /\ stage \in {"free", "drain", "forget", "extracted", "print"} => fsScanEnded
  /\ stage = "print" => extractEnded

(***************************************************************************)
(* What a thread writes back is what it has read, and one more: never more *)
(* than the files that are finished then, and never zero.                  *)
(***************************************************************************)
CounterInv ==
  /\ allFilesProcessed <= Finished
  /\ \A w \in Workers : at[w] = "increment" => reads[w] <= Finished
  /\ Finished > 0 => allFilesProcessed > 0
  /\ ~countRaced => allFilesProcessed = Finished

(* Until the map is damaged a thread that adds its entry has none, and the *)
(* entries add up to the files that were counted.                          *)
MapInv ==
  ~mapRaced =>
    /\ \A w \in Workers : at[w] \in {"newEntry", "addEntry"} => ~HasEntry(w)
    /\ IsSum(Counts, Counted)

(* All that is known of the statistics. *)
StatsInv == IsFiniteSet(pushed) /\ TimeInv /\ CounterInv /\ MapInv

(* One thread goes from one part to another. *)
LEMMA OneMoves ==
  ASSUME NEW L, NEW w \in Workers, \A v \in Workers \ {w} : at'[v] = at[v]
  PROVE  /\ Cardinality(In(L)) \in Nat /\ Cardinality(In(L)') \in Nat
         /\ (at'[w] \in L <=> at[w] \in L) => In(L)' = In(L)
         /\ at[w] \notin L /\ at'[w] \in L => Cardinality(In(L)') = Cardinality(In(L)) + 1
         /\ at[w] \in L /\ at'[w] \notin L => Cardinality(In(L)) = Cardinality(In(L)') + 1
  <1>1. IsFiniteSet(In(L)) /\ IsFiniteSet(In(L)')
    BY ThreadsAssumption, FS_Subset DEF In
  <1>2. Cardinality(In(L)) \in Nat /\ Cardinality(In(L)') \in Nat
    BY <1>1, FS_CardinalityType
  <1>3. (at'[w] \in L <=> at[w] \in L) => In(L)' = In(L)
    BY DEF In
  <1>4. ASSUME at[w] \notin L, at'[w] \in L
        PROVE  Cardinality(In(L)') = Cardinality(In(L)) + 1
    <2>1. In(L)' = In(L) \cup {w} /\ w \notin In(L)
      BY <1>4 DEF In
    <2> QED
      BY <1>1, <2>1, FS_AddElement
  <1>5. ASSUME at[w] \in L, at'[w] \notin L
        PROVE  Cardinality(In(L)) = Cardinality(In(L)') + 1
    <2>1. In(L) = In(L)' \cup {w} /\ w \notin In(L)'
      BY <1>5 DEF In
    <2> QED
      BY <1>1, <2>1, FS_AddElement
  <1> QED
    BY <1>2, <1>3, <1>4, <1>5

(* The numbers of files are numbers. *)
LEMMA FilesAreCounted ==
  ASSUME TypeOK, IsFiniteSet(pushed)
  PROVE  /\ Cardinality(pushed) \in Nat /\ Len(tasks) \in Nat
         /\ \A L : Cardinality(In(L)) \in Nat
         /\ Finished \in Int /\ Counted \in Int
  <1>1. Cardinality(pushed) \in Nat /\ Len(tasks) \in Nat
    BY FS_CardinalityType, LenProperties DEF TypeOK
  <1>2. \A L : Cardinality(In(L)) \in Nat
    <2> SUFFICES ASSUME NEW L
                 PROVE  Cardinality(In(L)) \in Nat
      OBVIOUS
    <2>1. IsFiniteSet(In(L))
      BY ThreadsAssumption, FS_Subset DEF In
    <2> QED
      BY <2>1, FS_CardinalityType
  <1> QED
    BY <1>1, <1>2 DEF Finished, Counted

(* Before anything is found. *)
LEMMA StatsInit == Init => StatsInv
  <1> SUFFICES ASSUME Init
               PROVE  StatsInv
    OBVIOUS
  <1>1. /\ pushed = {} /\ tasks = << >> /\ \A w \in Workers : at[w] = "idle"
        /\ allFilesProcessed = 0 /\ DOMAIN processedByThread = {} /\ stage = "register"
    BY DEF Init, PoolInit, StatisticsInit
  <1>2. IsFiniteSet(pushed) /\ Cardinality(pushed) = 0 /\ Len(tasks) = 0
    BY <1>1, FS_EmptySet, EmptySeq
  <1>3. In(Busy) = {} /\ In(Uncounted) = {}
    BY <1>1 DEF In, Busy, Uncounted
  <1>4. Finished = 0 /\ Counted = 0
    BY <1>2, <1>3, FS_EmptySet DEF Finished, Counted
  <1>5. Counts = [w \in Workers |-> 0]
    BY <1>1 DEF Counts, HasEntry
  <1>6. MapInv
    BY <1>1, <1>4, <1>5, SumOfZeros DEF MapInv
  <1>7. CounterInv /\ TimeInv
    BY <1>1, <1>4 DEF CounterInv, TimeInv
  <1> QED
    BY <1>2, <1>6, <1>7 DEF StatsInv

(* The counters and the entries stay as they are, if nothing is finished.  *)
LEMMA StatsFrame ==
  ASSUME CounterInv, MapInv, Finished' = Finished, Counted' = Counted,
         UNCHANGED countVars, UNCHANGED mapVars,
         \A v \in Workers : /\ at'[v] = "increment" => at[v] = "increment"
                            /\ at'[v] \in {"newEntry", "addEntry"} => at'[v] = at[v]
  PROVE  CounterInv' /\ MapInv'
  <1> USE DEF countVars, mapVars
  <1>1. CounterInv'
    BY DEF CounterInv
  <1>2. Counts' = Counts
    BY DEF Counts, HasEntry
  <1>3. MapInv'
    BY <1>2 DEF MapInv, HasEntry
  <1> QED
    BY <1>1, <1>3

(* A file that is found is one more in the queue. *)
LEMMA PushStats ==
  ASSUME TypeOK, StageInv, StatsInv, NEW f \in MediaFiles, Push(f)
  PROVE  StatsInv'
  <1> USE DEF StatsInv
  <1>1. /\ f \notin pushed /\ pushed' = pushed \cup {f}
        /\ tasks' = Append(tasks, f) /\ UNCHANGED at
        /\ UNCHANGED countVars /\ UNCHANGED mapVars
        /\ UNCHANGED <<stage, fsScanEnded, extractEnded>>
    BY DEF Push, PushFile, StageInv, statVars, timeVars
  <1>2. IsFiniteSet(pushed') /\ Cardinality(pushed') = Cardinality(pushed) + 1
    BY <1>1, FS_AddElement
  <1>3. Len(tasks') = Len(tasks) + 1
    BY <1>1, AppendProperties DEF TypeOK
  <1>4. In(Busy)' = In(Busy) /\ In(Uncounted)' = In(Uncounted)
    BY <1>1 DEF In
  <1>5. Finished' = Finished /\ Counted' = Counted
    BY <1>2, <1>3, <1>4, FilesAreCounted DEF Finished, Counted
  <1>6. CounterInv' /\ MapInv'
    BY <1>1, <1>5, StatsFrame
  <1>7. TimeInv'
    BY <1>1 DEF TimeInv
  <1> QED
    BY <1>2, <1>6, <1>7

(* A thread takes a file: it is neither finished nor counted. *)
LEMMA TakeStats ==
  ASSUME TypeOK, StatsInv, NEW w \in Workers, Take(w)
  PROVE  CounterInv' /\ MapInv'
  <1> USE DEF StatsInv
  <1>1. /\ at[w] = "idle" /\ at'[w] = "extract" /\ tasks # << >> /\ tasks' = Tail(tasks)
        /\ \A v \in Workers \ {w} : at'[v] = at[v]
        /\ UNCHANGED pushed /\ UNCHANGED countVars /\ UNCHANGED mapVars
    BY DEF Take, TakeTask, TypeOK, statVars
  <1>2. Len(tasks) = Len(tasks') + 1 /\ Len(tasks') \in Nat
    <2>1. tasks \in Seq(MediaFiles) /\ Len(tasks) \in Nat /\ Len(tasks) > 0
      BY <1>1, LenProperties, EmptySeq DEF TypeOK
    <2> QED
      BY <1>1, <2>1, HeadTailProperties
  <1>3. \A L \in {Busy, Uncounted} : Cardinality(In(L)') = Cardinality(In(L)) + 1
    <2> SUFFICES ASSUME NEW L \in {Busy, Uncounted}
                 PROVE  Cardinality(In(L)') = Cardinality(In(L)) + 1
      OBVIOUS
    <2>1. at[w] \notin L /\ at'[w] \in L
      BY <1>1 DEF Busy, Uncounted, Locations
    <2> QED
      BY <1>1, <2>1, OneMoves
  <1>4. Finished' = Finished /\ Counted' = Counted
    <2> DEFINE p == Cardinality(pushed)
               n == Len(tasks)
               nn == Len(tasks')
               b == Cardinality(In(Busy))
               u == Cardinality(In(Uncounted))
               bb == Cardinality(In(Busy)')
               uu == Cardinality(In(Uncounted)')
    <2>1. p \in Nat /\ nn \in Nat /\ b \in Nat /\ u \in Nat
      BY <1>2, FilesAreCounted
    <2>2. n = nn + 1 /\ bb = b + 1 /\ uu = u + 1
      BY <1>2, <1>3
    <2>3. /\ Finished = p - (n + b) /\ Finished' = p - (nn + bb)
          /\ Counted = p - (n + u) /\ Counted' = p - (nn + uu)
      BY <1>1 DEF Finished, Counted
    <2> HIDE DEF p, n, nn, b, u, bb, uu
    <2> QED
      BY <2>1, <2>2, <2>3
  <1> QED
    BY <1>1, <1>4, StatsFrame

(***************************************************************************)
(* The other steps of a thread: its file may become counted, or finished.  *)
(***************************************************************************)
LEMMA FileMoves ==
  ASSUME TypeOK, IsFiniteSet(pushed), NEW w \in Workers,
         UNCHANGED <<pushed, tasks>>, \A v \in Workers \ {w} : at'[v] = at[v],
         at[w] \in Busy, at'[w] \in Uncounted => at[w] \in Uncounted
  PROVE  /\ Finished' = IF at'[w] \in Busy THEN Finished ELSE Finished + 1
         /\ Counted' = IF at[w] \in Uncounted /\ at'[w] \notin Uncounted
                       THEN Counted + 1 ELSE Counted
  <1> DEFINE p == Cardinality(pushed)
             n == Len(tasks)
             b == Cardinality(In(Busy))
             u == Cardinality(In(Uncounted))
             bb == Cardinality(In(Busy)')
             uu == Cardinality(In(Uncounted)')
  <1>1. p \in Nat /\ n \in Nat /\ b \in Nat /\ u \in Nat /\ bb \in Nat /\ uu \in Nat
    BY FilesAreCounted, OneMoves
  <1>2. bb = b \/ at'[w] \notin Busy
    BY OneMoves
  <1>3. at'[w] \in Busy => bb = b
    BY OneMoves
  <1>4. at'[w] \notin Busy => b = bb + 1
    BY OneMoves
  <1>5. at[w] \in Uncounted /\ at'[w] \notin Uncounted => u = uu + 1
    BY OneMoves
  <1>6. ~(at[w] \in Uncounted /\ at'[w] \notin Uncounted) => uu = u
    BY OneMoves
  <1>7. /\ Finished = p - (n + b) /\ Finished' = p - (n + bb)
        /\ Counted = p - (n + u) /\ Counted' = p - (n + uu)
    BY DEF Finished, Counted
  <1> HIDE DEF p, n, b, u, bb, uu
  <1> QED
    BY <1>1, <1>3, <1>4, <1>5, <1>6, <1>7

(* A thread counts its file for itself. *)
LEMMA EntryStats ==
  ASSUME TypeOK, StatsInv, NEW w \in Workers, NewFileProcessedByThread(w)
  PROVE  CounterInv' /\ MapInv'
  <1> USE DEF StatsInv, Move
  <1>1. /\ UNCHANGED <<pushed, tasks>> /\ UNCHANGED countVars
        /\ \A v \in Workers \ {w} : at'[v] = at[v]
        /\ at[w] \in Uncounted /\ at[w] \in Busy /\ at'[w] \in Busy /\ at'[w] # "increment"
    BY DEF NewFileProcessedByThread, Elsewhere, TypeOK, Busy, Uncounted, Locations
  <1>2. /\ Finished' = Finished
        /\ Counted' = IF at'[w] \in Uncounted THEN Counted ELSE Counted + 1
    BY <1>1, FileMoves
  <1>3. CounterInv'
    BY <1>1, <1>2 DEF CounterInv, countVars
  <1>4. ASSUME ~mapRaced'
        PROVE  /\ \A v \in Workers : at'[v] \in {"newEntry", "addEntry"} => ~HasEntry(v)'
               /\ IsSum(Counts', Counted')
    <2>1. /\ ~mapRaced
          /\ \A v \in Workers : at[v] \in {"newEntry", "addEntry"} => ~HasEntry(v)
          /\ IsSum(Counts, Counted)
      <3>1. \/ UNCHANGED mapRaced
            \/ mapRaced' = (mapRaced \/ adding # {})
        BY DEF NewFileProcessedByThread, FindEntry, CountEntry, BeginEntry, EndEntry
      <3>2. ~mapRaced
        BY <1>4, <3>1
      <3> QED
        BY <3>2 DEF MapInv
    <2>2. CASE UNCHANGED processedByThread
      <3>1. at'[w] \in Uncounted /\ (at'[w] \in {"newEntry", "addEntry"} => ~HasEntry(w))
        BY <1>4, <2>1, <2>2 DEF NewFileProcessedByThread, FindEntry, CountEntry, BeginEntry,
           EndEntry, Uncounted, TypeOK, HasEntry
      <3>2. Counts' = Counts
        BY <2>2 DEF Counts, HasEntry
      <3> QED
        BY <1>1, <1>2, <2>1, <2>2, <3>1, <3>2 DEF HasEntry
    <2>3. CASE /\ at'[w] = "lookup"
               /\ processedByThread' =
                    [s \in DOMAIN processedByThread \cup {w} |->
                       IF s # w THEN processedByThread[s]
                       ELSE IF HasEntry(w) THEN processedByThread[w] + 1 ELSE 1]
      <3>1. Counts \in [Workers -> Nat] /\ Counts' \in [Workers -> Nat]
        BY <2>3 DEF Counts, HasEntry, TypeOK
      <3>2. Counts'[w] = Counts[w] + 1 /\ \A v \in Workers \ {w} : Counts'[v] = Counts[v]
        BY <2>3 DEF Counts, HasEntry, TypeOK
      <3>3. Counted' = Counted + 1
        BY <1>2, <2>3 DEF Uncounted
      <3>4. IsSum(Counts', Counted')
        BY <2>1, <3>1, <3>2, <3>3, SumOfOneMore
      <3>5. \A v \in Workers \ {w} : HasEntry(v)' <=> HasEntry(v)
        BY <2>3 DEF HasEntry
      <3> QED
        BY <1>1, <2>1, <2>3, <3>4, <3>5
    <2>4. \/ UNCHANGED processedByThread
          \/ /\ at'[w] = "lookup"
             /\ processedByThread' =
                  [s \in DOMAIN processedByThread \cup {w} |->
                     IF s # w THEN processedByThread[s]
                     ELSE IF HasEntry(w) THEN processedByThread[w] + 1 ELSE 1]
      <3>1. CASE FindEntry \/ BeginEntry(w)
        BY <3>1 DEF FindEntry, BeginEntry
      <3>2. CASE at[w] = "oldEntry" /\ at' = [at EXCEPT ![w] = "lookup"] /\ CountEntry(w)
        BY <3>2 DEF CountEntry, TypeOK
      <3>3. CASE at[w] = "addEntry" /\ at' = [at EXCEPT ![w] = "lookup"] /\ EndEntry(w)
        <4>1. ~HasEntry(w)
          BY <2>1, <3>3
        <4>2. processedByThread' =
                [s \in DOMAIN processedByThread \cup {w} |->
                   IF s = w THEN 1 ELSE processedByThread[s]]
          BY <2>1, <3>3 DEF EndEntry
        <4> QED
          BY <3>3, <4>1, <4>2 DEF TypeOK
      <3> QED
        BY <3>1, <3>2, <3>3 DEF NewFileProcessedByThread
    <2> QED
      BY <2>2, <2>3, <2>4
  <1> QED
    BY <1>3, <1>4 DEF MapInv

(* A thread reads the counter, or writes it. *)
LEMMA CounterStats ==
  ASSUME TypeOK, StatsInv, NEW w \in Workers, NewFileProcessed(w)
  PROVE  CounterInv' /\ MapInv'
  <1> USE DEF StatsInv, Move
  <1>1. /\ UNCHANGED <<pushed, tasks>> /\ UNCHANGED mapVars
        /\ \A v \in Workers \ {w} : at'[v] = at[v]
        /\ at[w] \in {"processed", "increment"} /\ at'[w] \in {"increment", "idle"}
    BY DEF NewFileProcessed, Elsewhere, TypeOK
  <1>2. /\ Finished' = IF at'[w] \in Busy THEN Finished ELSE Finished + 1
        /\ Counted' = Counted
    <2>1. at[w] \in Busy /\ at[w] \notin Uncounted /\ at'[w] \notin Uncounted
      BY <1>1 DEF Busy, Uncounted, Locations
    <2> QED
      BY <1>1, <2>1, FileMoves
  <1>3. Finished \in Int /\ allFilesProcessed \in Nat /\ reads \in [Workers -> Nat]
    BY FilesAreCounted DEF TypeOK
  <1>4. MapInv'
    <2>1. Counts' = Counts
      BY <1>1 DEF Counts, HasEntry, mapVars
    <2> QED
      BY <1>1, <1>2, <2>1 DEF MapInv, HasEntry, mapVars
  <1>5. CASE at' = [at EXCEPT ![w] = "increment"] /\ ReadCounter(w)
    <2>1. at'[w] = "increment" /\ Finished' = Finished
      BY <1>2, <1>5 DEF TypeOK, Busy, Locations
    <2>2. /\ reads'[w] = allFilesProcessed /\ UNCHANGED <<allFilesProcessed, countRaced>>
          /\ \A v \in Workers \ {w} : reads'[v] = reads[v]
      BY <1>3, <1>5 DEF ReadCounter
    <2> QED
      BY <1>1, <1>4, <2>1, <2>2 DEF CounterInv
  <1>6. CASE at[w] = "increment" /\ at' = [at EXCEPT ![w] = "idle"] /\ WriteCounter(w)
    <2>1. at'[w] = "idle" /\ Finished' = Finished + 1
      BY <1>2, <1>6 DEF TypeOK, Busy
    <2>2. /\ allFilesProcessed' = reads[w] + 1 /\ \A v \in Workers \ {w} : reads'[v] = reads[v]
      BY ONLY <1>3, <1>6, Zenon DEF WriteCounter
    <2>3. ~countRaced' => ~countRaced /\ allFilesProcessed = reads[w]
      BY ONLY <1>6, Zenon DEF WriteCounter
    <2>4. reads[w] \in Nat /\ reads[w] <= Finished
      BY <1>3, <1>6 DEF CounterInv
    <2>5. \A v \in Workers : at'[v] = "increment" => reads'[v] <= Finished'
      BY <1>1, <1>3, <2>1, <2>2 DEF CounterInv
    <2>6. ~countRaced' => allFilesProcessed' = Finished'
      BY <2>1, <2>2, <2>3 DEF CounterInv
    <2>7. allFilesProcessed' <= Finished' /\ allFilesProcessed' > 0
      BY <1>3, <2>1, <2>2, <2>4
    <2> QED
      BY <1>4, <2>5, <2>6, <2>7 DEF CounterInv
  <1> QED
    BY <1>5, <1>6 DEF NewFileProcessed

(* A thread of the pool keeps the statistics. *)
LEMMA WorkerStats ==
  ASSUME TypeOK, StatsInv, NEW w \in Workers, WorkerStep(w)
  PROVE  StatsInv'
  <1> USE DEF StatsInv
  <1>1. /\ UNCHANGED <<pushed, fsScanEnded, extractEnded>> /\ stage' \in {stage, "crashed"}
        /\ \A v \in Workers \ {w} : at'[v] = at[v]
    BY WorkerFrame
  <1>2. IsFiniteSet(pushed') /\ TimeInv'
    BY <1>1 DEF TimeInv
  <1>3. CASE \/ LookUp(w) \/ StatFile(w) \/ ExtractMetadata(w) \/ NotifyObservers(w)
             \/ LogFailure(w)
    <2>1. /\ UNCHANGED tasks /\ UNCHANGED countVars /\ UNCHANGED mapVars
          /\ at[w] \in {"lookup", "stat", "tags", "save", "warn", "error", "deliver"}
          /\ at'[w] \in {"stat", "warn", "tags", "save", "error", "processed", "deliver"}
      BY <1>3 DEF LookUp, StatFile, ExtractMetadata, NotifyObservers, LogFailure, Move,
         Elsewhere, statVars, TypeOK
    <2>2. /\ at[w] \in Busy /\ at'[w] \in Busy
          /\ at[w] \notin Uncounted /\ at'[w] \notin Uncounted
      BY <2>1 DEF Busy, Uncounted, Locations
    <2>3. Finished' = Finished /\ Counted' = Counted
      BY <1>1, <2>1, <2>2, FileMoves
    <2> QED
      BY <1>1, <1>2, <2>1, <2>3, StatsFrame
  <1>4. CASE Crash(w)
    <2>1. UNCHANGED <<tasks, at>> /\ UNCHANGED countVars /\ UNCHANGED mapVars
      BY <1>4 DEF Crash, poolVars, statVars
    <2>2. Finished' = Finished /\ Counted' = Counted
      BY <1>1, <2>1 DEF Finished, Counted, In
    <2> QED
      BY <1>1, <1>2, <2>1, <2>2, StatsFrame
  <1> QED
    BY <1>2, <1>3, <1>4, TakeStats, EntryStats, CounterStats DEF WorkerStep

(* Every step keeps them. *)
LEMMA StatsStep ==
  ASSUME TypeOK, StageInv, StatsInv, [Next]_vars
  PROVE  StatsInv'
  <1>1. CASE SequentialStep \/ ScanTerminated \/ RemoveDevice \/ UNCHANGED vars
    <2>1. /\ UNCHANGED <<tasks, at, pushed>> /\ UNCHANGED countVars /\ UNCHANGED mapVars
      BY <1>1 DEF SequentialStep, Register, ParseOptions, SetUpLogger, InsertDevice,
         PoolStart, Terminate, PoolFree, PoolDrained, PoolForget, ExtractFinished,
         PrintAndExit, ScanTerminated, RemoveDevice, vars, poolVars, statVars
    <2>2. Finished' = Finished /\ Counted' = Counted
      BY <2>1 DEF Finished, Counted, In
    <2>3. TimeInv'
      BY <1>1 DEF SequentialStep, Register, ParseOptions, SetUpLogger, InsertDevice,
         Terminate, ExtractFinished, MetadataExtractFinished, PrintAndExit, ScanTerminated,
         FsScanFinished, RemoveDevice, vars, statVars, timeVars, StatsInv, TimeInv
    <2> QED
      BY <2>1, <2>2, <2>3, StatsFrame DEF StatsInv
  <1> QED
    BY <1>1, PushStats, WorkerStats DEF Next

(* They are an invariant, with the stages. *)
LEMMA StatsInvariant == Spec => [](TypeOK /\ StageInv /\ StatsInv)
  <1>1. Init => TypeOK /\ StageInv /\ StatsInv
    BY TypeInit, StageInit, StatsInit
  <1>2. TypeOK /\ StageInv /\ StatsInv /\ [Next]_vars => TypeOK' /\ StageInv' /\ StatsInv'
    BY TypeStep, StageStep, StatsStep
  <1> QED
    BY <1>1, <1>2, PTL DEF Spec

(* Nothing is left when the statistics are printed. *)
LEMMA AllAreFinished ==
  ASSUME TypeOK, StageInv, StatsInv, stage = "print"
  PROVE  /\ \A w \in Workers : at[w] = "idle"
         /\ Finished = Cardinality(pushed) /\ Counted = Cardinality(pushed)
         /\ Cardinality(pushed) \in Nat
  <1>1. tasks = << >> /\ \A w \in Workers : at[w] = "idle"
    BY DEF StageInv, Drained
  <1>2. In(Busy) = {} /\ In(Uncounted) = {} /\ Len(tasks) = 0
    BY <1>1, EmptySeq DEF In, Busy, Uncounted
  <1>3. Cardinality(pushed) \in Nat
    BY FilesAreCounted DEF StatsInv
  <1> QED
    BY <1>1, <1>2, <1>3, FS_EmptySet DEF Finished, Counted

(***************************************************************************)
(* Whatever increments are lost without a lock, when the statistics are    *)
(* printed nobody updates them, the end times are set, and the number of   *)
(* files is at most what it should be, and not zero; it is right unless    *)
(* two threads have met.                                                   *)
(***************************************************************************)
THEOREM StatisticsAreComplete == Spec => []PrintedInFull
  <1>1. TypeOK /\ StageInv /\ StatsInv => PrintedInFull
    <2> SUFFICES ASSUME TypeOK, StageInv, StatsInv, stage = "print"
                 PROVE  /\ \A w \in Workers : at[w] = "idle"
                        /\ fsScanEnded /\ extractEnded
                        /\ allFilesProcessed <= Cardinality(pushed)
                        /\ pushed # {} => allFilesProcessed >= 1
                        /\ ~countRaced => allFilesProcessed = Cardinality(pushed)
      BY DEF PrintedInFull
    <2>1. /\ \A w \in Workers : at[w] = "idle"
          /\ Finished = Cardinality(pushed) /\ Cardinality(pushed) \in Nat
      BY AllAreFinished
    <2>2. pushed # {} => Cardinality(pushed) > 0
      BY <2>1, FS_EmptySet DEF StatsInv
    <2>3. allFilesProcessed \in Nat
      BY DEF TypeOK
    <2> QED
      BY <2>1, <2>2, <2>3 DEF StatsInv, TimeInv, CounterInv
  <1> QED
    BY <1>1, StatsInvariant, PTL

(***************************************************************************)
(* Unless an entry was added while another thread used the map, every file *)
(* is counted for exactly one thread, however many threads there are.      *)
(***************************************************************************)
THEOREM ThreadsCountEveryFile == Spec => []CountedByThread
  <1>1. TypeOK /\ StageInv /\ StatsInv => CountedByThread
    <2> SUFFICES ASSUME TypeOK, StageInv, StatsInv, stage = "print", ~mapRaced
                 PROVE  LET Count(w) == IF HasEntry(w) THEN processedByThread[w] ELSE 0 IN
                        MapThenSumSet(Count, Workers) = Cardinality(pushed)
      BY DEF CountedByThread
    <2>1. IsSum(Counts, Cardinality(pushed))
      BY AllAreFinished DEF StatsInv, MapInv
    <2> QED
      BY <2>1, MapThenSum
  <1> QED
    BY <1>1, StatsInvariant, PTL

-----------------------------------------------------------------------------
(* The abstract pool *)

(* Both pools begin empty. *)
LEMMA PoolInitImplemented == Init => Pool!PoolInit
  BY DEF Init, PoolInit, Pool!PoolInit, AbstractAt

(* Where the abstract threads are, when one of the threads moves. *)
LEMMA AbstractMove ==
  ASSUME TypeOK, NEW w \in Workers, NEW to \in Locations,
         at' = [at EXCEPT ![w] = to]
  PROVE  AbstractAt' = [AbstractAt EXCEPT ![w] =
           IF to = "save" THEN "save" ELSE IF to \in Before THEN "extract" ELSE "idle"]
  BY DEF AbstractAt, TypeOK, Before

(* A step of a thread is a step of the abstract thread, or none. *)
LEMMA WorkerImplements ==
  ASSUME TypeOK, NEW w \in Workers, WorkerStep(w)
  PROVE  [Pool!PoolNext]_(Pool!poolVars)
  <1> USE DEF Elsewhere, Pool!PoolNext, Pool!poolVars
  <1>0. AbstractAt[w] = IF at[w] = "save" THEN "save"
                        ELSE IF at[w] \in Before THEN "extract" ELSE "idle"
    BY DEF AbstractAt, Before
  <1>1. CASE Take(w)
    <2>1. at[w] = "idle" /\ at' = [at EXCEPT ![w] = "extract"]
      BY <1>1 DEF Take, TakeTask
    <2>2. AbstractAt[w] = "idle" /\ AbstractAt' = [AbstractAt EXCEPT ![w] = "extract"]
      BY <1>0, <2>1, AbstractMove DEF Before, Locations
    <2>3. Pool!TakeTask(w)
      BY <1>1, <2>2 DEF Take, TakeTask, Pool!TakeTask
    <2> QED
      BY <2>3
  <1>2. CASE \/ NewFileProcessedByThread(w) \/ LookUp(w) \/ StatFile(w)
             \/ ExtractMetadata(w) \/ NotifyObservers(w) \/ LogFailure(w)
             \/ NewFileProcessed(w)
    <2>1. /\ UNCHANGED <<pool, poolThreads, tasks, task>>
          /\ \E to \in Locations :
               /\ at' = [at EXCEPT ![w] = to]
               /\ \/ at[w] \in Before \ {"save"} /\ to \in Before
                  \/ at[w] \in Before \ {"save"} /\ to \in {"warn", "error"}
                  \/ at[w] = "save" /\ to = "processed"
                  \/ at[w] \notin Before /\ to \notin Before
      BY <1>2 DEF NewFileProcessedByThread, LookUp, StatFile, ExtractMetadata,
         NotifyObservers, LogFailure, NewFileProcessed, Move, Before, Locations
    <2>2. PICK to \in Locations :
            /\ at' = [at EXCEPT ![w] = to]
            /\ \/ at[w] \in Before \ {"save"} /\ to \in Before
               \/ at[w] \in Before \ {"save"} /\ to \in {"warn", "error"}
               \/ at[w] = "save" /\ to = "processed"
               \/ at[w] \notin Before /\ to \notin Before
      BY <2>1
    <2> DEFINE there == IF to = "save" THEN "save"
                        ELSE IF to \in Before THEN "extract" ELSE "idle"
    <2>3. AbstractAt' = [AbstractAt EXCEPT ![w] = there]
      BY <2>2, AbstractMove
    <2>4. \/ AbstractAt[w] = "extract" /\ there \in {"save", "idle"}
          \/ AbstractAt[w] = "save" /\ there = "idle"
          \/ AbstractAt[w] = there
      BY <1>0, <2>2 DEF Before
    <2> HIDE DEF there
    <2>5. CASE AbstractAt[w] = "extract" /\ there \in {"save", "idle"}
      <3>1. Pool!ProcessFile(w)
        BY <2>1, <2>3, <2>5 DEF Pool!ProcessFile
      <3> QED
        BY <3>1
    <2>6. CASE AbstractAt[w] = "save" /\ there = "idle"
      <3>1. Pool!HandOver(w)
        BY <2>1, <2>3, <2>6 DEF Pool!HandOver
      <3> QED
        BY <3>1
    <2>7. CASE AbstractAt[w] = there
      <3>1. AbstractAt' = AbstractAt
        BY <2>3, <2>7 DEF AbstractAt
      <3> QED
        BY <2>1, <3>1
    <2> QED
      BY <2>4, <2>5, <2>6, <2>7
  <1>3. CASE Crash(w)
    BY <1>3 DEF Crash, poolVars, AbstractAt
  <1> QED
    BY <1>1, <1>2, <1>3 DEF WorkerStep

(* Every step is a step of the abstract pool, or none. *)
LEMMA PoolStepImplemented ==
  ASSUME TypeOK, StageInv, [Next]_vars
  PROVE  [Pool!PoolNext]_(Pool!poolVars)
  <1> USE DEF Pool!PoolNext, Pool!poolVars, AbstractAt
  <1>1. CASE \/ Register \/ ParseOptions \/ SetUpLogger \/ ExtractFinished
             \/ PrintAndExit \/ ScanTerminated \/ RemoveDevice
    BY <1>1 DEF Register, ParseOptions, SetUpLogger, ExtractFinished, PrintAndExit,
       ScanTerminated, RemoveDevice, poolVars
  <1>2. CASE InsertDevice
    <2>1. pool = "null" /\ Pool!PoolStart
      BY <1>2 DEF InsertDevice, PoolStart, Pool!PoolStart, StageInv, SettingUp
    <2> QED
      BY <2>1
  <1>3. CASE Terminate
    <2>1. \/ Pool!PoolFree
          \/ pool = "closing" /\ Pool!PoolDrained
          \/ pool = "gone" /\ Pool!PoolForget
      BY <1>3 DEF Terminate, PoolFree, PoolDrained, PoolForget, Pool!PoolFree,
         Pool!PoolDrained, Pool!PoolForget, StageInv
    <2> QED
      BY <2>1
  <1>4. ASSUME NEW f \in MediaFiles, Push(f)
        PROVE  [Pool!PoolNext]_(Pool!poolVars)
    <2>1. Pool!PushFile(f)
      BY <1>4 DEF Push, PushFile, Pool!PushFile
    <2> QED
      BY <2>1
  <1>5. CASE UNCHANGED vars
    BY <1>5 DEF vars, poolVars
  <1> QED
    BY <1>1, <1>2, <1>3, <1>4, <1>5, WorkerImplements DEF Next, SequentialStep

(***************************************************************************)
(* The threads in detail, with the statistics, the registry, the extractor *)
(* and the logger, do what DeviceManager takes the pool to do.             *)
(***************************************************************************)
THEOREM DetailsImplementPool == Spec => ImplementsPool
  BY PoolInitImplemented, PoolStepImplemented, StagesInvariant, PTL
     DEF Spec, ImplementsPool, Pool!PoolSpec

=============================================================================
