------------------------- MODULE ScannerClientProofs -------------------------
(* Theorems about ScannerClient and their proofs.                          *)
EXTENDS ScannerClient, SequenceTheorems, TLAPS

(* Where the client's thread is outside startScanFolder and cancelScan, or *)
(* in them before it has changed anything, or when they are done.          *)
Outside == {"idle", "startTest", "startPush", "cancelTest", "terminate"}

(***************************************************************************)
(* OneScanThread is not inductive.  What keeps startScanFolder from making *)
(* a second thread is that the flag is clear only when no thread is alive, *)
(* as long as the client is outside both operations; what keeps a thread   *)
(* from being joined twice is that a join leaves the flag clear, and that  *)
(* a set flag comes with a thread created after the last join.             *)
(***************************************************************************)
ThreadInv ==
  /\ OneScanThread
  /\ \/ pc[Main] = "startCreate"
     \/ ~runThread /\ pc[Main] \in Outside
     => \A t \in ScanThreads : ~Alive(t)
  /\ pc[Main] \in {"cancelRead", "join"} => ~runThread
  /\ pc[Main] = "join" => joined = thread
  /\ runThread \/ pc[Main] \in {"startReset", "startSet", "cancelClear", "cancelRead"}
       => thread # NoThread /\ thread # joined
  /\ \A t \in ScanThreads : pc[t] = "unborn" => t # thread /\ t # joined
  /\ pc[Main] \in Outside \cup {"startCreate", "startReset", "startSet",
                                "cancelClear", "cancelRead", "join"}

(* The scan threads' steps; the client's are the others. *)
Loop(t) ==
  \/ ScanTest(t) \/ ScanPop(t) \/ ScanOpen(t) \/ ScanRead(t) \/ ScanEnd(t)
  \/ OnFileFound(t) \/ OnScanTerminated(t)

(* A folder, and an entry, exist. *)
LEMMA SomeEntry == /\ (CHOOSE d \in Folders : TRUE) \in Folders
                   /\ (CHOOSE e \in Entries : TRUE) \in Entries
                   /\ \A d \in Folders : Contents[d] \subseteq Entries
  BY ContentsAssumption DEF Entries

(* Init establishes the types. *)
LEMMA TypeInit == Init => TypeOK
  <1> SUFFICES ASSUME Init
               PROVE  TypeOK
    OBVIOUS
  <1>1. /\ folder \in [ScanThreads -> Folders]
        /\ entry \in [ScanThreads -> Entries]
        /\ startFolder \in [Callers -> Folders]
    BY SomeEntry DEF Init, ScannerInit
  <1>2. pc \in [Callers -> Locations] /\ unread \in [ScanThreads -> SUBSET Entries]
    BY DEF Init, ScannerInit, Locations
  <1>3. foldersToScan \in Seq(Folders)
    BY EmptySeq DEF Init, ScannerInit
  <1>4. requests \in 0..MaxRequests
    BY MaxRequestsAssumption DEF Init
  <1> QED
    BY <1>1, <1>2, <1>3, <1>4 DEF Init, ScannerInit, TypeOK

(* Every step keeps the types. *)
LEMMA TypeStep ==
  ASSUME TypeOK, [Next]_vars
  PROVE  TypeOK'
  <1> USE DEF TypeOK, GoTo, Callers, threadVars, enumVars, clientVars
  <1>1. CASE \E d \in Folders : Request(d)
    BY <1>1, MaxRequestsAssumption DEF Request, Locations
  <1>2. CASE Cancel
    BY <1>2 DEF Cancel, Locations
  <1>3. CASE StartScanFolder
    <2>1. CASE StartTest(Main)
      BY <1>3, <2>1 DEF StartScanFolder, StartTest, Locations
    <2>2. CASE StartCreate(Main)
      BY <1>3, <2>2 DEF StartScanFolder, StartCreate, Locations
    <2>3. CASE StartReset(Main)
      BY <1>3, <2>3 DEF StartScanFolder, StartReset, Locations
    <2>4. CASE StartSet(Main)
      BY <1>3, <2>4 DEF StartScanFolder, StartSet, Locations
    <2>5. CASE StartPush(Main)
      BY <1>3, <2>5, CallersAssumption DEF StartScanFolder, StartPush, Locations
    <2> QED
      BY <1>3, <2>1, <2>2, <2>3, <2>4, <2>5 DEF StartScanFolder
  <1>4. CASE CancelScan \/ CancelReturned
    <2>1. CASE CancelTest
      BY <1>4, <2>1 DEF CancelScan, CancelTest, CancelReturned, Locations
    <2>2. CASE CancelClear
      BY <1>4, <2>2 DEF CancelScan, CancelClear, CancelReturned, Locations
    <2>3. CASE CancelRead
      BY <1>4, <2>3 DEF CancelScan, CancelRead, CancelReturned, Locations
    <2>4. CASE CancelJoin
      BY <1>4, <2>4 DEF CancelScan, CancelJoin, CancelReturned, Locations
    <2>5. CASE CancelReturned
      BY <2>5 DEF CancelReturned, Locations
    <2> QED
      BY <1>4, <2>1, <2>2, <2>3, <2>4, <2>5 DEF CancelScan
  <1>5. ASSUME NEW t \in ScanThreads, ScanThread(t)
        PROVE  TypeOK'
    <2>1. CASE ScanTest(t)
      BY <1>5, <2>1 DEF ScanThread, ScanTest, OnFileFound, OnScanTerminated, Locations
    <2>2. CASE ScanPop(t)
      BY <1>5, <2>2 DEF ScanThread, ScanPop, OnFileFound, OnScanTerminated, Locations
    <2>3. CASE ScanOpen(t)
      BY <1>5, <2>3, SomeEntry
         DEF ScanThread, ScanOpen, OnFileFound, OnScanTerminated, Locations
    <2>4. CASE ScanRead(t)
      BY <1>5, <2>4 DEF ScanThread, ScanRead, OnFileFound, OnScanTerminated, Locations
    <2>5. CASE ScanEnd(t)
      BY <1>5, <2>5 DEF ScanThread, ScanEnd, OnFileFound, OnScanTerminated, Locations
    <2>6. CASE OnFileFound(t) \/ OnScanTerminated(t)
      BY <1>5, <2>6 DEF OnFileFound, OnScanTerminated, Locations
    <2> QED
      BY <1>5, <2>1, <2>2, <2>3, <2>4, <2>5, <2>6 DEF ScanThread
  <1>6. CASE UNCHANGED vars
    BY <1>6 DEF vars, scanVars
  <1> QED
    BY <1>1, <1>2, <1>3, <1>4, <1>5, <1>6 DEF Next, ClientStep

(* Before the first call there is no thread. *)
LEMMA ThreadInit == Init => ThreadInv
  BY CallersAssumption
     DEF Init, ScannerInit, ThreadInv, OneScanThread, Alive, Outside, Callers

(* A scan thread changes its own location only, is not reborn, and leaves  *)
(* the flag and the handles alone.                                         *)
LEMMA LoopStep ==
  ASSUME TypeOK, NEW t \in ScanThreads, ScanThread(t)
  PROVE  /\ UNCHANGED threadVars
         /\ Alive(t)
         /\ pc'[t] # "unborn"
         /\ \A c \in Callers \ {t} : pc'[c] = pc[c]
  BY DEF TypeOK, ScanThread, ScanTest, ScanPop, ScanOpen, ScanRead, ScanEnd,
     OnFileFound, OnScanTerminated, GoTo, Alive, threadVars, Callers

(* Every step keeps the tie between the flag, the handles and the threads. *)
LEMMA ThreadStep ==
  ASSUME TypeOK, ThreadInv, [Next]_vars
  PROVE  ThreadInv'
  <1> USE CallersAssumption
      DEF TypeOK, ThreadInv, OneScanThread, Alive, Outside, GoTo, Callers, threadVars
  <1>1. CASE \E d \in Folders : Request(d)
    BY <1>1 DEF Request
  <1>2. CASE Cancel
    BY <1>2 DEF Cancel
  <1>3. CASE StartScanFolder
    <2>1. CASE StartTest(Main)
      BY <2>1 DEF StartTest
    <2>2. CASE StartCreate(Main)
      BY <2>2 DEF StartCreate
    <2>3. CASE StartReset(Main)
      BY <2>3 DEF StartReset
    <2>4. CASE StartSet(Main)
      BY <2>4 DEF StartSet
    <2>5. CASE StartPush(Main)
      BY <2>5 DEF StartPush
    <2> QED
      BY <1>3, <2>1, <2>2, <2>3, <2>4, <2>5 DEF StartScanFolder
  <1>4. CASE CancelScan
    <2>1. CASE CancelTest
      BY <2>1 DEF CancelTest
    <2>2. CASE CancelClear
      BY <2>2 DEF CancelClear
    <2>3. CASE CancelRead
      BY <2>3 DEF CancelRead
    <2>4. CASE CancelJoin
      BY <2>4 DEF CancelJoin
    <2> QED
      BY <1>4, <2>1, <2>2, <2>3, <2>4 DEF CancelScan
  <1>5. CASE CancelReturned
    BY <1>5 DEF CancelReturned
  <1>6. ASSUME NEW t \in ScanThreads, ScanThread(t)
        PROVE  ThreadInv'
    BY <1>6, LoopStep
  <1>7. CASE UNCHANGED vars
    BY <1>7 DEF vars, scanVars
  <1> QED
    BY <1>1, <1>2, <1>3, <1>4, <1>5, <1>6, <1>7 DEF Next, ClientStep

(* Every variable of the scanner and its client keeps its type. *)
THEOREM ScannerTypeCorrect == Spec => []TypeOK
  BY TypeInit, TypeStep, PTL DEF Spec

(* The two invariants together are inductive. *)
LEMMA ThreadsInvariant == Spec => [](TypeOK /\ ThreadInv)
  <1>1. Init => TypeOK /\ ThreadInv
    BY TypeInit, ThreadInit
  <1>2. TypeOK /\ ThreadInv /\ [Next]_vars => TypeOK' /\ ThreadInv'
    BY TypeStep, ThreadStep
  <1> QED
    BY <1>1, <1>2, PTL DEF Spec

(***************************************************************************)
(* However often startScanFolder and cancelScan are called, at most one    *)
(* scan thread is alive, and it is the one that cancelScan would join.     *)
(***************************************************************************)
THEOREM AtMostOneScanThread == Spec => []OneScanThread
  <1>1. ThreadInv => OneScanThread
    BY DEF ThreadInv
  <1> QED
    BY <1>1, ThreadsInvariant, PTL

(* cancelScan never joins a thread twice, and never joins no thread. *)
THEOREM NoThreadIsJoinedTwice == Spec => JoinedOnce
  <1>1. ThreadInv => [CancelRead => thread # NoThread /\ thread # joined]_vars
    BY DEF ThreadInv, CancelRead
  <1> QED
    BY <1>1, ThreadsInvariant, PTL DEF JoinedOnce

=============================================================================
