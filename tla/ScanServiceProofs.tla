--------------------------- MODULE ScanServiceProofs ---------------------------
(***************************************************************************)
(* FileSystemScanner with a client that keeps to its header implements     *)
(* ScanService, for every number of threads, folders and requests.         *)
(***************************************************************************)
EXTENDS ScannerClientProofs, FiniteSetTheorems

(***************************************************************************)
(* What the refinement needs beside ThreadInv: a scan thread, or a call of *)
(* startScanFolder, exists only while the service is on; a thread that is  *)
(* not enumerating has nothing left to report; and only finitely many      *)
(* threads have ended.                                                     *)
(***************************************************************************)
Starting == {"startTest", "startCreate", "startReset", "startSet", "startPush"}

ServiceInv ==
  /\ ~on => pc[Main] \notin Starting /\ \A t \in ScanThreads : ~Alive(t)
  /\ \A t \in ScanThreads :
       pc[t] \in {"unborn", "test", "pop", "open", "read", "found", "terminate", "ended"}
  /\ pc[Main] = "terminate" => ~runThread
  /\ IsFiniteSet(At("ended"))

(* The state of ScanService, as ScannerClient maps it. *)
Requested ==
  (IF Opening = {} THEN << >> ELSE CHOOSE s \in Opening : TRUE) \o foldersToScan
Visited == {folder[t] : t \in Visiting}
Left == UNION {unread[t] : t \in Visiting}

(* No scan thread but t is alive. *)
Alone(t) == \A u \in ScanThreads \ {t} : ~Alive(u)

(* What thread t alone makes of that state. *)
View(t) ==
  /\ Requested = IF pc[t] = "open" THEN <<folder[t]>> \o foldersToScan
                 ELSE foldersToScan
  /\ Visited = IF pc[t] \in {"read", "found"} THEN {folder[t]} ELSE {}
  /\ Left = IF pc[t] \in {"read", "found"} THEN unread[t] ELSE {}

(* The first folder of the requests can stand for itself or in the queue.  *)
LEMMA Requests ==
  ASSUME NEW q \in Seq(Folders), NEW x \in Folders
  PROVE  /\ << >> \o q = q
         /\ Append(q, x) \in Seq(Folders)
         /\ <<x>> \o q # << >> /\ Head(<<x>> \o q) = x /\ Tail(<<x>> \o q) = q
         /\ \A y \in Folders : Append(<<y>> \o q, x) = <<y>> \o Append(q, x)
         /\ q # << >> => <<Head(q)>> \o Tail(q) = q
  <1>1. << >> \o q = q
    BY ConcatEmptySeq
  <1>2. \A y \in Folders : <<y>> \in Seq(Folders) /\ Len(<<y>>) = 1 /\ <<y>>[1] = y
    OBVIOUS
  <1>3. Len(q) \in Nat /\ \A i \in 1..Len(q) : q[i] \in Folders
    BY LenProperties, ElementOfSeq
  <1>4. \A y \in Folders :
          /\ <<y>> \o q \in Seq(Folders) /\ Len(<<y>> \o q) = Len(q) + 1
          /\ (<<y>> \o q)[1] = y
          /\ \A i \in 1..Len(q) : (<<y>> \o q)[i + 1] = q[i]
    <2> SUFFICES ASSUME NEW y \in Folders
                 PROVE  /\ <<y>> \o q \in Seq(Folders) /\ Len(<<y>> \o q) = Len(q) + 1
                        /\ (<<y>> \o q)[1] = y
                        /\ \A i \in 1..Len(q) : (<<y>> \o q)[i + 1] = q[i]
      OBVIOUS
    <2>1. /\ <<y>> \o q \in Seq(Folders) /\ Len(<<y>> \o q) = Len(<<y>>) + Len(q)
          /\ \A i \in 1..(Len(<<y>>) + Len(q)) : (<<y>> \o q)[i] =
               IF i <= Len(<<y>>) THEN <<y>>[i] ELSE q[i - Len(<<y>>)]
      BY <1>2, ConcatProperties
    <2> DEFINE yq == <<y>> \o q
    <2>2. Len(yq) = Len(q) + 1 /\ \A i \in 1..(Len(q) + 1) :
                             yq[i] = IF i <= 1 THEN y ELSE q[i - 1]
      BY <1>2, <1>3, <2>1
    <2>3. \A i \in 1..Len(q) : i + 1 \in 1..(Len(q) + 1) /\ ~(i + 1 <= 1) /\ (i + 1) - 1 = i
      BY <1>3
    <2>4. 1 \in 1..(Len(q) + 1)
      BY <1>3
    <2> HIDE DEF yq
    <2>5. yq[1] = y /\ \A i \in 1..Len(q) : yq[i + 1] = q[i]
      BY <2>2, <2>3, <2>4
    <2> QED
      BY <2>1, <2>2, <2>5 DEF yq
  <1>5. \A y \in Folders : <<y>> \o q # << >> /\ Head(<<y>> \o q) = y /\ Tail(<<y>> \o q) = q
    <2> SUFFICES ASSUME NEW y \in Folders
                 PROVE  <<y>> \o q # << >> /\ Head(<<y>> \o q) = y /\ Tail(<<y>> \o q) = q
      OBVIOUS
    <2> DEFINE yq == <<y>> \o q
    <2>1. /\ yq \in Seq(Folders) /\ Len(yq) = Len(q) + 1 /\ yq[1] = y
          /\ \A i \in 1..Len(q) : yq[i + 1] = q[i]
      BY <1>4
    <2> HIDE DEF yq
    <2>2. yq # << >> /\ Head(yq) = y
      BY <1>3, <2>1, EmptySeq
    <2>3. /\ Tail(yq) \in Seq(Folders) /\ Len(Tail(yq)) = Len(yq) - 1
          /\ \A i \in 1..Len(Tail(yq)) : Tail(yq)[i] = yq[i + 1]
      BY <2>1, <2>2, HeadTailProperties
    <2>4. Tail(yq) = q
      BY <1>3, <2>1, <2>3, SeqEqual
    <2> QED
      BY <2>2, <2>4 DEF yq
  <1>6. \A y \in Folders : Append(<<y>> \o q, x) = <<y>> \o Append(q, x)
    <2> SUFFICES ASSUME NEW y \in Folders
                 PROVE  Append(<<y>> \o q, x) = <<y>> \o Append(q, x)
      OBVIOUS
    <2>1. Append(q, x) = q \o <<x>> /\ Append(<<y>> \o q, x) = (<<y>> \o q) \o <<x>>
      BY <1>4
    <2> QED
      BY <1>2, <2>1, ConcatAssociative
  <1>7. ASSUME q # << >>
        PROVE  <<Head(q)>> \o Tail(q) = q
    <2>1. Len(q) \in Nat \ {0} /\ 1 \in 1..Len(q)
      BY <1>3, <1>7, EmptySeq
    <2>2. SubSeq(q, 1, Len(q)) = <<q[1]>> \o SubSeq(q, 1 + 1, Len(q))
      BY <2>1, SubSeqRecursiveFirst
    <2>3. SubSeq(q, 1, Len(q)) = q /\ Tail(q) = SubSeq(q, 2, Len(q)) /\ Head(q) = q[1]
      BY <1>7, SubSeqFull, TailIsSubSeq
    <2> QED
      BY <2>2, <2>3
  <1> QED
    BY <1>1, <1>5, <1>6, <1>7

(* Before the first call there is nothing to report, and nobody to do it. *)
LEMMA ServiceInit == Init => ServiceInv
  <1> SUFFICES ASSUME Init
               PROVE  ServiceInv
    OBVIOUS
  <1>1. pc[Main] = "idle" /\ \A t \in ScanThreads : pc[t] = "unborn"
    BY CallersAssumption DEF Init, ScannerInit, Callers
  <1>2. At("ended") = {}
    BY <1>1 DEF At
  <1> QED
    BY <1>1, <1>2, FS_EmptySet DEF Init, ServiceInv, Starting, Alive

(***************************************************************************)
(* The client's steps create a thread at most; of a thread that runs they  *)
(* change nothing.                                                         *)
(***************************************************************************)
LEMMA ClientFrame ==
  ASSUME TypeOK,
         \/ \E d \in Folders : Request(d)
         \/ Cancel
         \/ ClientStep
         \/ UNCHANGED vars
  PROVE  /\ UNCHANGED <<folder, unread>>
         /\ \A t \in ScanThreads :
              pc'[t] # pc[t] => pc[t] = "unborn" /\ pc'[t] = "test"
         /\ \A location \in Locations \ {"unborn", "test"} :
              At(location)' = At(location)
  <1>1. /\ UNCHANGED <<folder, unread>>
        /\ \A t \in ScanThreads :
             pc'[t] # pc[t] => pc[t] = "unborn" /\ pc'[t] = "test"
    <2> USE CallersAssumption DEF TypeOK, GoTo, Callers, enumVars
    <2>1. CASE (\E d \in Folders : Request(d)) \/ Cancel
      BY <2>1 DEF Request, Cancel
    <2>2. CASE StartScanFolder
      BY <2>2 DEF StartScanFolder, StartTest, StartCreate, StartReset, StartSet, StartPush
    <2>3. CASE CancelScan \/ CancelReturned
      BY <2>3 DEF CancelScan, CancelTest, CancelClear, CancelRead, CancelJoin,
                  CancelReturned
    <2>4. CASE UNCHANGED vars
      BY <2>4 DEF vars, scanVars
    <2> QED
      BY <2>1, <2>2, <2>3, <2>4 DEF ClientStep
  <1>2. ASSUME NEW location \in Locations \ {"unborn", "test"}
        PROVE  At(location)' = At(location)
    BY <1>1 DEF At, Locations
  <1> QED
    BY <1>1, <1>2

(* A step of a scan thread moves that thread, to a location of the loop.   *)
LEMMA LoopFrame ==
  ASSUME TypeOK, NEW t \in ScanThreads, ScanThread(t)
  PROVE  /\ UNCHANGED <<on, threadVars>>
         /\ pc[t] \in {"test", "pop", "open", "read", "found", "terminate"}
         /\ pc'[t] \in {"test", "pop", "open", "read", "found", "terminate", "ended"}
         /\ pc'[t] = "ended" <=> pc[t] = "terminate"
         /\ \A c \in Callers \ {t} : pc'[c] = pc[c]
  BY DEF TypeOK, ScanThread, ScanTest, ScanPop, ScanOpen, ScanRead, ScanEnd,
     OnFileFound, OnScanTerminated, GoTo, threadVars, clientVars, Callers

(* The threads that have ended, after a step of scan thread t. *)
LEMMA EndedStep ==
  ASSUME TypeOK, NEW t \in ScanThreads, ScanThread(t)
  PROVE  /\ pc[t] = "terminate" => At("ended")' = At("ended") \cup {t}
         /\ pc[t] # "terminate" => At("ended")' = At("ended")
         /\ t \notin At("ended")
  BY LoopFrame DEF At, Callers

(* Every step keeps the invariant. *)
LEMMA ServiceInvStep ==
  ASSUME TypeOK, ThreadInv, ServiceInv, [Next]_vars
  PROVE  ServiceInv'
  <1>1. ASSUME \/ \E d \in Folders : Request(d)
               \/ Cancel
               \/ ClientStep
               \/ UNCHANGED vars
        PROVE  ServiceInv'
    <2>1. /\ \A t \in ScanThreads :
               pc'[t] # pc[t] => pc[t] = "unborn" /\ pc'[t] = "test"
          /\ At("ended")' = At("ended")
      BY <1>1, ClientFrame DEF Locations
    <2>2. \A t \in ScanThreads : pc'[t] \in
            {"unborn", "test", "pop", "open", "read", "found", "terminate", "ended"}
      BY <2>1 DEF ServiceInv
    <2>3. pc'[Main] = "terminate" => ~runThread'
      BY <1>1 DEF TypeOK, ThreadInv, ServiceInv, Request, Cancel, ClientStep,
         StartScanFolder, StartTest, StartCreate, StartReset, StartSet, StartPush,
         CancelScan, CancelTest, CancelClear, CancelRead, CancelJoin, CancelReturned,
         GoTo, Callers, threadVars, vars, scanVars
    <2>4. ASSUME ~on'
          PROVE  pc'[Main] \notin Starting /\ \A t \in ScanThreads : pc'[t] \in {"unborn", "ended"}
      <3>1. CASE CancelReturned
        <4>1. \A t \in ScanThreads : ~Alive(t)
          BY <3>1 DEF CancelReturned, ServiceInv, ThreadInv, Outside
        <4> QED
          BY <3>1, <4>1, CallersAssumption
             DEF CancelReturned, TypeOK, GoTo, Callers, Alive, Starting
      <3>2. CASE ~CancelReturned
        <4>1. /\ on' = on /\ ~on
              /\ \/ Cancel \/ CancelScan \/ StartScanFolder \/ UNCHANGED vars
          BY <1>1, <2>4, <3>2 DEF Request, Cancel, ClientStep, StartScanFolder, CancelScan,
             clientVars, vars
        <4>2. pc[Main] \notin Starting /\ \A t \in ScanThreads : ~Alive(t)
          BY <4>1 DEF ServiceInv
        <4>3. ~StartScanFolder
          BY <4>2 DEF Starting, StartScanFolder, StartTest, StartCreate, StartReset,
             StartSet, StartPush
        <4>4. \A t \in ScanThreads : pc'[t] = pc[t]
          BY <4>1, <4>3, CallersAssumption DEF TypeOK, Cancel, CancelScan, CancelTest,
             CancelClear, CancelRead, CancelJoin, GoTo, Callers, vars, scanVars
        <4>5. pc'[Main] \notin Starting
          BY <4>1, <4>2, <4>3 DEF TypeOK, Cancel, CancelScan, CancelTest, CancelClear,
             CancelRead, CancelJoin, GoTo, Callers, vars, scanVars, Starting
        <4> QED
          BY <4>2, <4>4, <4>5 DEF Alive
      <3> QED
        BY <3>1, <3>2
    <2> QED
      BY <2>1, <2>2, <2>3, <2>4 DEF ServiceInv, Alive
  <1>2. ASSUME NEW t \in ScanThreads, ScanThread(t)
        PROVE  ServiceInv'
    <2>1. /\ UNCHANGED <<on, threadVars>>
          /\ pc[t] \in {"test", "pop", "open", "read", "found", "terminate"}
          /\ pc'[t] \in {"test", "pop", "open", "read", "found", "terminate", "ended"}
          /\ \A c \in Callers \ {t} : pc'[c] = pc[c]
      BY <1>2, LoopFrame
    <2>2. on
      BY <2>1 DEF ServiceInv, Alive
    <2>3. pc'[Main] = pc[Main]
      BY <2>1, CallersAssumption DEF Callers
    <2>4. IsFiniteSet(At("ended"))'
      <3>1. IsFiniteSet(At("ended"))
        BY DEF ServiceInv
      <3>2. IsFiniteSet(At("ended") \cup {t})
        BY <3>1, FS_AddElement
      <3>3. At("ended")' = At("ended") \/ At("ended")' = At("ended") \cup {t}
        BY <1>2, EndedStep
      <3> QED
        BY <3>1, <3>2, <3>3
    <2> QED
      BY <2>1, <2>2, <2>3, <2>4 DEF ServiceInv, threadVars, Callers
  <1> QED
    BY <1>1, <1>2 DEF Next

(* The client's invariant and the service's, together. *)
LEMMA ServiceInvariant == Spec => [](TypeOK /\ ThreadInv /\ ServiceInv)
  <1>1. Init => TypeOK /\ ThreadInv /\ ServiceInv
    BY TypeInit, ThreadInit, ServiceInit
  <1>2. TypeOK /\ ThreadInv /\ ServiceInv /\ [Next]_vars
          => TypeOK' /\ ThreadInv' /\ ServiceInv'
    BY TypeStep, ThreadStep, ServiceInvStep
  <1> QED
    BY <1>1, <1>2, PTL DEF Spec

(* A thread that is alone makes the whole state of the service. *)
LEMMA ViewOfThread == TypeOK => \A t \in ScanThreads : Alone(t) => View(t)
  <1> SUFFICES ASSUME TypeOK, NEW t \in ScanThreads, Alone(t)
               PROVE  View(t)
    OBVIOUS
  <1>1. \A u \in ScanThreads \ {t} : pc[u] \notin {"open", "read", "found"}
    BY DEF Alone, Alive
  <1>2. Opening = IF pc[t] = "open" THEN {<<folder[t]>>} ELSE {}
    BY <1>1 DEF Opening, At
  <1>3. Visiting = IF pc[t] \in {"read", "found"} THEN {t} ELSE {}
    BY <1>1 DEF Visiting, At
  <1>4. << >> \o foldersToScan = foldersToScan
    BY Requests, SomeEntry DEF TypeOK
  <1>5. Requested = IF pc[t] = "open" THEN <<folder[t]>> \o foldersToScan
                    ELSE foldersToScan
    <2>1. CASE pc[t] = "open"
      <3>1. Opening # {} /\ (CHOOSE s \in Opening : TRUE) = <<folder[t]>>
        BY <1>2, <2>1
      <3> QED
        BY <2>1, <3>1 DEF Requested
    <2>2. CASE pc[t] # "open"
      BY <1>2, <1>4, <2>2 DEF Requested
    <2> QED
      BY <2>1, <2>2
  <1>6. /\ Visited = IF pc[t] \in {"read", "found"} THEN {folder[t]} ELSE {}
        /\ Left = IF pc[t] \in {"read", "found"} THEN unread[t] ELSE {}
    BY <1>3 DEF Visited, Left
  <1> QED
    BY <1>5, <1>6 DEF View

(* The same of the next state. *)
LEMMA ViewNext == TypeOK' => \A t \in ScanThreads : Alone(t)' => View(t)'
  <1>1. (TypeOK => \A t \in ScanThreads : Alone(t) => View(t))'
    BY ViewOfThread, PTL
  <1> QED
    BY <1>1

(***************************************************************************)
(* The steps of the service that the scanner's steps are, in the terms     *)
(* above.                                                                  *)
(***************************************************************************)
ServiceStep ==
  \/ /\ on' = TRUE
     /\ UNCHANGED <<Requested, Visited, Left, At("ended")>>
  \/ /\ Visited = {} /\ on' = FALSE
     /\ UNCHANGED <<Requested, Visited, Left, At("ended")>>
  \/ /\ on /\ \E d \in Folders : Requested' = Append(Requested, d)
     /\ UNCHANGED <<on, Visited, Left, At("ended")>>
  \/ /\ on /\ Visited = {} /\ Requested # << >>
     /\ Visited' = {Head(Requested)} /\ Left' = Contents[Head(Requested)]
     /\ Requested' = Tail(Requested)
     /\ UNCHANGED <<on, At("ended")>>
  \/ /\ on /\ Visited = {} /\ Requested # << >>
     /\ Requested' = Tail(Requested)
     /\ UNCHANGED <<on, Visited, Left, At("ended")>>
  \/ /\ on /\ \E e \in Left : Left' = Left \ {e}
     /\ UNCHANGED <<on, Requested, Visited, At("ended")>>
  \/ /\ Visited # {} /\ Visited' = {} /\ Left' = {}
     /\ UNCHANGED <<on, Requested, At("ended")>>
  \/ /\ on /\ Visited = {}
     /\ Cardinality(At("ended"))' = Cardinality(At("ended")) + 1
     /\ UNCHANGED <<on, Requested, Visited, Left>>
  \/ UNCHANGED <<on, Requested, Visited, Left, At("ended")>>

(* They are ScanService's own. *)
LEMMA ServiceStepIsServices ==
  ServiceStep => [Service!Next]_(Service!serviceVars)
  BY DEF ServiceStep, Requested, Visited, Left, Service!Next, Service!serviceVars,
     Service!Start, Service!Cancelled, Service!Request, Service!Visit, Service!Drop,
     Service!Report, Service!Leave, Service!Terminated

(* A folder that is pushed is requested, behind the one being opened. *)
LEMMA PushedIsRequested ==
  ASSUME TypeOK, NEW d \in Folders, UNCHANGED Opening,
         foldersToScan' = Append(foldersToScan, d)
  PROVE  Requested' = Append(Requested, d)
  <1>1. CASE Opening = {}
    <2>1. /\ << >> \o foldersToScan = foldersToScan
          /\ << >> \o Append(foldersToScan, d) = Append(foldersToScan, d)
      BY Requests DEF TypeOK
    <2> QED
      BY <1>1, <2>1 DEF Requested
  <1>2. CASE Opening # {}
    <2> DEFINE s == CHOOSE s \in Opening : TRUE
    <2>1. PICK t \in ScanThreads : s = <<folder[t]>>
      BY <1>2 DEF Opening, At
    <2>2. folder[t] \in Folders
      BY DEF TypeOK
    <2>3. Append(<<folder[t]>> \o foldersToScan, d)
            = <<folder[t]>> \o Append(foldersToScan, d)
      BY <2>2, Requests DEF TypeOK
    <2>4. Requested = s \o foldersToScan /\ Requested' = s \o foldersToScan'
      BY <1>2 DEF Requested
    <2> QED
      BY <2>1, <2>3, <2>4
  <1> QED
    BY <1>1, <1>2

(* The client's steps are steps of the service. *)
LEMMA ClientRefines ==
  ASSUME TypeOK, ThreadInv, ServiceInv,
         \/ \E d \in Folders : Request(d)
         \/ Cancel
         \/ ClientStep
         \/ UNCHANGED vars
  PROVE  ServiceStep
  <1>1. UNCHANGED <<folder, unread>>
    BY ClientFrame
  <1>2. /\ UNCHANGED At("open") /\ UNCHANGED At("read") /\ UNCHANGED At("found")
        /\ UNCHANGED At("ended")
    BY ClientFrame DEF Locations
  <1>3. UNCHANGED Opening
    BY <1>1, <1>2 DEF Opening
  <1>4. UNCHANGED Visiting
    BY <1>2 DEF Visiting
  <1>5. UNCHANGED Visited /\ UNCHANGED Left
    BY <1>1, <1>4 DEF Visited, Left
  <1>6. CASE \E d \in Folders : Request(d)
    <2>1. on' = TRUE /\ UNCHANGED foldersToScan
      BY <1>6 DEF Request
    <2>2. UNCHANGED Requested
      BY <1>3, <2>1 DEF Requested
    <2> QED
      BY <1>2, <1>5, <2>1, <2>2 DEF ServiceStep
  <1>7. CASE CancelReturned
    <2>1. on' = FALSE /\ UNCHANGED foldersToScan
      BY <1>7 DEF CancelReturned
    <2>2. UNCHANGED Requested
      BY <1>3, <2>1 DEF Requested
    <2>3. \A t \in ScanThreads : ~Alive(t)
      BY <1>7 DEF CancelReturned, ServiceInv, ThreadInv, Outside
    <2>4. Visited = {}
      BY <2>3 DEF Visited, Visiting, At, Alive
    <2> QED
      BY <1>2, <1>5, <2>1, <2>2, <2>4 DEF ServiceStep
  <1>8. CASE StartPush(Main) /\ StartScanFolder
    <2>1. startFolder[Main] \in Folders
      BY DEF TypeOK, Callers
    <2>2. foldersToScan' = Append(foldersToScan, startFolder[Main]) /\ UNCHANGED on
      BY <1>8 DEF StartPush, StartScanFolder, clientVars
    <2>3. Requested' = Append(Requested, startFolder[Main])
      BY <1>3, <2>1, <2>2, PushedIsRequested
    <2>4. on
      BY <1>8 DEF StartPush, ServiceInv, Starting
    <2> QED
      BY <1>2, <1>5, <2>1, <2>2, <2>3, <2>4 DEF ServiceStep
  <1>9. ASSUME ~(\E d \in Folders : Request(d)), ~CancelReturned,
               ~(StartPush(Main) /\ StartScanFolder)
        PROVE  ServiceStep
    <2>1. UNCHANGED <<on, foldersToScan>>
      BY <1>9 DEF Cancel, ClientStep, StartScanFolder, StartTest, StartCreate, StartReset,
         StartSet, CancelScan, CancelTest, CancelClear, CancelRead, CancelJoin,
         clientVars, vars, scanVars
    <2>2. UNCHANGED Requested
      BY <1>3, <2>1 DEF Requested
    <2> QED
      BY <1>2, <1>5, <2>1, <2>2 DEF ServiceStep
  <1> QED
    BY <1>6, <1>7, <1>8, <1>9

(* A scan thread that takes a step is alone, before it and after it. *)
LEMMA StepOfOne ==
  ASSUME TypeOK, TypeOK', ThreadInv, NEW t \in ScanThreads, ScanThread(t)
  PROVE  View(t) /\ View(t)'
  <1>1. pc[t] \notin {"unborn", "ended"} /\ \A c \in Callers \ {t} : pc'[c] = pc[c]
    BY LoopFrame
  <1>2. Alone(t)
    BY <1>1 DEF Alone, Alive, ThreadInv, OneScanThread
  <1>3. Alone(t)'
    BY <1>1, <1>2 DEF Alone, Alive, Callers
  <1> QED
    BY <1>2, <1>3, ViewOfThread, ViewNext

(* The scan threads' steps are steps of the service. *)
LEMMA LoopRefines ==
  ASSUME TypeOK, TypeOK', ThreadInv, ServiceInv, NEW t \in ScanThreads, ScanThread(t)
  PROVE  ServiceStep
  <1>1. View(t) /\ View(t)'
    BY StepOfOne
  <1>2. on /\ UNCHANGED on
    BY LoopFrame DEF ServiceInv, Alive
  <1>3. /\ pc[t] = "terminate" => At("ended")' = At("ended") \cup {t}
        /\ pc[t] # "terminate" => UNCHANGED At("ended")
        /\ t \notin At("ended")
    BY EndedStep
  <1>4. /\ Requested = IF pc[t] = "open" THEN <<folder[t]>> \o foldersToScan
                       ELSE foldersToScan
        /\ Visited = IF pc[t] \in {"read", "found"} THEN {folder[t]} ELSE {}
        /\ Left = IF pc[t] \in {"read", "found"} THEN unread[t] ELSE {}
    BY <1>1 DEF View
  <1>5. /\ Requested' = IF pc'[t] = "open" THEN <<folder'[t]>> \o foldersToScan'
                        ELSE foldersToScan'
        /\ Visited' = IF pc'[t] \in {"read", "found"} THEN {folder'[t]} ELSE {}
        /\ Left' = IF pc'[t] \in {"read", "found"} THEN unread'[t] ELSE {}
    BY <1>1 DEF View
  <1>6. /\ t \in Callers /\ pc \in [Callers -> Locations]
        /\ folder \in [ScanThreads -> Folders] /\ folder[t] \in Folders
        /\ unread \in [ScanThreads -> SUBSET Entries]
        /\ foldersToScan \in Seq(Folders)
    BY DEF TypeOK, Callers
  <1> USE DEF GoTo, threadVars
  <1>7. CASE ScanTest(t)
    <2>1. /\ pc[t] = "test" /\ pc'[t] \in {"pop", "terminate"}
          /\ UNCHANGED foldersToScan
      BY <1>6, <1>7 DEF ScanTest
    <2>2. UNCHANGED Requested /\ UNCHANGED Visited /\ UNCHANGED Left
      BY <1>4, <1>5, <2>1
    <2> QED
      BY <1>2, <1>3, <2>1, <2>2 DEF ServiceStep
  <1>8. CASE ScanPop(t)
    <2>1. /\ pc[t] = "pop" /\ pc'[t] = "open"
          /\ foldersToScan # << >> /\ foldersToScan' = Tail(foldersToScan)
          /\ folder'[t] = Head(foldersToScan)
      BY <1>6, <1>8 DEF ScanPop
    <2>2. <<Head(foldersToScan)>> \o Tail(foldersToScan) = foldersToScan
      BY <1>6, <2>1, Requests
    <2>3. Requested = foldersToScan
      BY <1>4, <2>1
    <2>4. Requested' = foldersToScan
      BY <1>5, <2>1, <2>2
    <2>5. UNCHANGED Visited /\ UNCHANGED Left
      BY <1>4, <1>5, <2>1
    <2> QED
      BY <1>2, <1>3, <2>1, <2>3, <2>4, <2>5 DEF ServiceStep
  <1>9. CASE ScanOpen(t)
    <2>1. pc[t] = "open" /\ UNCHANGED folder /\ UNCHANGED foldersToScan
      BY <1>9 DEF ScanOpen
    <2>2. \/ pc'[t] = "read" /\ unread'[t] = Contents[folder[t]]
          \/ pc'[t] = "test"
      BY <1>6, <1>9 DEF ScanOpen
    <2>3. Requested = <<folder[t]>> \o foldersToScan /\ Visited = {} /\ Left = {}
      BY <1>4, <2>1
    <2>4. /\ Requested # << >> /\ Head(Requested) = folder[t]
          /\ Tail(Requested) = foldersToScan
      BY <1>6, <2>3, Requests
    <2>5. Requested' = foldersToScan
      BY <1>5, <2>1, <2>2
    <2>6. CASE pc'[t] = "read" /\ unread'[t] = Contents[folder[t]]
      <3>1. Visited' = {folder[t]} /\ Left' = Contents[folder[t]]
        BY <1>5, <2>1, <2>6
      <3> QED
        BY <1>2, <1>3, <2>1, <2>3, <2>4, <2>5, <3>1 DEF ServiceStep
    <2>7. CASE pc'[t] = "test"
      <3>1. Visited' = {} /\ Left' = {}
        BY <1>5, <2>7
      <3> QED
        BY <1>2, <1>3, <2>1, <2>3, <2>4, <2>5, <3>1 DEF ServiceStep
    <2> QED
      BY <2>2, <2>6, <2>7
  <1>10. CASE ScanRead(t)
    <2>1. pc[t] = "read" /\ pc'[t] = "found" /\ UNCHANGED folder /\ UNCHANGED foldersToScan
      BY <1>6, <1>10 DEF ScanRead
    <2>2. PICK e \in unread[t] : unread'[t] = unread[t] \ {e}
      BY <1>6, <1>10 DEF ScanRead
    <2>3. UNCHANGED Requested /\ UNCHANGED Visited
      BY <1>4, <1>5, <2>1
    <2>4. e \in Left /\ Left' = Left \ {e}
      BY <1>4, <1>5, <2>1, <2>2
    <2> QED
      BY <1>2, <1>3, <2>1, <2>3, <2>4 DEF ServiceStep
  <1>11. CASE ScanEnd(t)
    <2>1. pc[t] = "read" /\ pc'[t] = "test" /\ UNCHANGED foldersToScan
      BY <1>6, <1>11 DEF ScanEnd
    <2>2. UNCHANGED Requested /\ Visited # {} /\ Visited' = {} /\ Left' = {}
      BY <1>4, <1>5, <2>1
    <2> QED
      BY <1>2, <1>3, <2>1, <2>2 DEF ServiceStep
  <1>12. CASE OnFileFound(t)
    <2>1. /\ pc[t] = "found" /\ pc'[t] = "read"
          /\ UNCHANGED folder /\ UNCHANGED unread /\ UNCHANGED foldersToScan
      BY <1>6, <1>12 DEF OnFileFound, enumVars
    <2>2. UNCHANGED Requested /\ UNCHANGED Visited /\ UNCHANGED Left
      BY <1>4, <1>5, <2>1
    <2> QED
      BY <1>2, <1>3, <2>1, <2>2 DEF ServiceStep
  <1>13. CASE OnScanTerminated(t)
    <2>1. pc[t] = "terminate" /\ pc'[t] = "ended" /\ UNCHANGED foldersToScan
      BY <1>6, <1>13 DEF OnScanTerminated
    <2>2. UNCHANGED Requested /\ UNCHANGED Visited /\ UNCHANGED Left /\ Visited = {}
      BY <1>4, <1>5, <2>1
    <2>3. Cardinality(At("ended") \cup {t}) = Cardinality(At("ended")) + 1
      BY <1>3, FS_AddElement DEF ServiceInv
    <2>4. At("ended")' = At("ended") \cup {t}
      BY <1>3, <2>1
    <2>5. Cardinality(At("ended"))' = Cardinality(At("ended")) + 1
      BY <2>3, <2>4
    <2> QED
      BY <1>2, <2>2, <2>5 DEF ServiceStep
  <1> QED
    BY <1>7, <1>8, <1>9, <1>10, <1>11, <1>12, <1>13 DEF ScanThread

(* Initially nothing is requested, visited or ended. *)
LEMMA ServiceInitRefines == Init => Service!Init
  <1> SUFFICES ASSUME Init
               PROVE  Service!Init
    OBVIOUS
  <1>1. \A location \in {"open", "read", "found", "ended"} : At(location) = {}
    BY CallersAssumption DEF Init, ScannerInit, Callers, At
  <1>2. Opening = {} /\ Visiting = {}
    BY <1>1 DEF Opening, Visiting
  <1>3. Requested = << >>
    BY <1>2, Requests, SomeEntry, EmptySeq DEF Requested, Init, ScannerInit
  <1>4. Visited = {} /\ Left = {}
    BY <1>2 DEF Visited, Left
  <1>5. Cardinality(At("ended")) = 0
    BY <1>1, FS_EmptySet
  <1> QED
    BY <1>3, <1>4, <1>5 DEF Init, Requested, Visited, Left, Service!Init

(***************************************************************************)
(* FileSystemScanner with a client that keeps to its header implements     *)
(* ScanService: the folders are scanned one at a time in the order of the  *)
(* requests, every entry is reported at most once per visit, and no        *)
(* callback is called after cancelScan has returned - for every number of  *)
(* threads, folders, entries and requests.                                 *)
(***************************************************************************)
THEOREM ScannerImplementsScanService == Spec => ImplementsScanService
  <1>1. TypeOK /\ ThreadInv /\ ServiceInv /\ [Next]_vars /\ TypeOK' => ServiceStep
    BY ClientRefines, LoopRefines DEF Next
  <1>2. TypeOK /\ ThreadInv /\ ServiceInv /\ [Next]_vars /\ TypeOK'
          => [Service!Next]_(Service!serviceVars)
    BY <1>1, ServiceStepIsServices
  <1> QED
    BY <1>2, ServiceInitRefines, ServiceInvariant, PTL
       DEF Spec, ImplementsScanService, Service!Spec

=============================================================================
