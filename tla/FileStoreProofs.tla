---------------------------- MODULE FileStoreProofs ----------------------------
(***************************************************************************)
(* FileDatabasePersistor implements FileStore, for every number of threads *)
(* and files, every batch size and every list of metadata tables, when     *)
(* neither COMMIT nor an INSERT ends a transaction by failing.             *)
(***************************************************************************)
EXTENDS FileDatabasePersistorProofs, FunctionTheorems, FiniteSetTheorems

(* The file is in the list of thread t. *)
InBatch(t, f) == \E i \in Entries(t) : Batch(t)[i] = f

(***************************************************************************)
(* What the refinement needs of the rows: those not committed yet belong   *)
(* to the batch of the thread that holds the mutex, so that its COMMIT     *)
(* settles no other batch; and no file is stored before its batch is.      *)
(***************************************************************************)
StoreInv ==
  /\ \A k \in 1..Len(rows["files"]) :
       k > durable["files"] => \E t \in holders : InBatch(t, rows["files"][k].file)
  /\ \A t \in Unsettled : \A i \in Entries(t) : Batch(t)[i] \notin Stored

(* Everything that is known of the persistor under mild faults. *)
RefInv ==
  TypeInv /\ ExclusionInv /\ LinkInv /\ FreedInv /\ OwnInv /\ RowInv /\ StoreInv

USE DEF Threads

-----------------------------------------------------------------------------
(* Lists and rows. *)

(* The set of the files of a batch, and a batch in progress is not empty.  *)
LEMMA BatchRange ==
  ASSUME TypeInv, NEW t \in Threads
  PROVE  /\ \A f : f \in Range(Batch(t)) <=> InBatch(t, f)
         /\ Range(Batch(t)) \subseteq Files
         /\ Batch(t) # << >> => Range(Batch(t)) # {}
  <1>1. /\ Batch(t) \in Seq(Files) /\ Len(Batch(t)) \in Nat
        /\ DOMAIN Batch(t) = 1..Len(Batch(t))
        /\ \A i \in Entries(t) : Batch(t)[i] \in Files
    BY BatchFacts, LenProperties
  <1>2. Batch(t) # << >> => 1 \in Entries(t)
    BY <1>1, EmptySeq DEF Entries
  <1> QED
    BY <1>1, <1>2 DEF Range, InBatch, Entries

(* The committed rows are the first ones.                                  *)
LEMMA StoredRows ==
  ASSUME TypeInv
  PROVE  /\ durable["files"] \in Nat /\ Len(rows["files"]) \in Nat
         /\ durable["files"] <= Len(rows["files"])
         /\ \A f : f \in Stored => HasRow(f)
  <1>1. /\ durable["files"] \in Nat /\ Len(rows["files"]) \in Nat
        /\ durable["files"] <= Len(rows["files"])
    BY TablesFacts, LenProperties DEF TypeInv, SqlInv
  <1> QED
    BY <1>1 DEF Stored, HasRow

(* Under mild faults COMMIT is the only statement that stores anything, and *)
(* it does not fail.                                                       *)
LEMMA StoredFrame ==
  ASSUME MildFaults, TypeInv, ExclusionInv, NEW t \in Threads, SaveCachedFiles(t)
  PROVE  IF CommitSql(t)
         THEN /\ CommitOk /\ pc'[t] = "commitSet"
              /\ rows' = rows /\ durable'["files"] = Len(rows["files"])
         ELSE durable' = durable /\ Stored' = Stored
  <1>1. CASE CommitSql(t)
    <2>1. t \in holders /\ sqlTxn
      BY <1>1 DEF CommitSql, ExclusionInv, InSave, Opened
    <2>2. ~CommitError
      BY <2>1 DEF CommitError, MildFaults
    <2> QED
      BY <1>1, <2>2, TablesFacts DEF CommitSql, CommitOk, GoTo, TypeInv, TypeOK
  <1>2. CASE ~CommitSql(t)
    <2>1. durable' = durable
      <3>1. CASE InsertFile(t) \/ SaveMetadata(t)
        <4>1. t \in holders /\ sqlTxn
          BY <3>1 DEF InsertFile, SaveMetadata, ExclusionInv, InSave, Opened
        <4> QED
          BY <3>1, <4>1 DEF InsertFile, SaveMetadata, InsertOk, InsertError,
             MildFaults, sqlVars
      <3>2. CASE BeginSql(t)
        BY <3>2 DEF BeginSql, BeginOk, BeginError, sqlVars
      <3>3. CASE RollbackSql(t)
        BY <3>3 DEF RollbackSql, ExclusionInv, InSave
      <3>4. CASE \/ BeginSaveLock(t) \/ BeginTest(t) \/ BeginSet(t)
                 \/ ReadRowId(t) \/ DeleteFile(t) \/ EndLoop(t)
                 \/ CommitTest(t) \/ CommitSet(t)
        BY <3>4 DEF BeginSaveLock, BeginTest, BeginSet, ReadRowId, DeleteFile,
           EndLoop, CommitTest, CommitSet, dbVars, sqlVars
      <3>5. CASE \/ CommitUnlock(t) \/ FailedUnlock(t) \/ RollbackTest(t)
                 \/ RollbackSet(t) \/ LastUnlock(t)
        BY <3>5 DEF CommitUnlock, FailedUnlock, RollbackTest, RollbackSet,
           LastUnlock, dbVars, sqlVars
      <3> QED
        BY <1>2, <3>1, <3>2, <3>3, <3>4, <3>5 DEF SaveCachedFiles
    <2>2. \A k \in 1..durable["files"] : rows'["files"][k] = rows["files"][k]
      BY FileRowsGrow, StoredRows
    <2> QED
      BY <1>2, <2>1, <2>2 DEF Stored
  <1> QED
    BY <1>1, <1>2

(* A batch is settled by its COMMIT or by the BEGIN that failed; no other  *)
(* step changes which batches are not.                                     *)
LEMMA UnsettledFrame ==
  ASSUME MildFaults, TypeInv, ExclusionInv, OwnInv, NEW t \in Threads,
         SaveCachedFiles(t)
  PROVE  /\ \A u \in Threads \ {t} : u \in Unsettled' <=> u \in Unsettled
         /\ t \in Unsettled \/ t \notin Unsettled'
         /\ t \in Unsettled => Batch(t)' = Batch(t) /\ Entries(t)' = Entries(t)
         /\ t \in Unsettled /\ t \notin Unsettled' =>
              CommitSql(t) \/ (BeginSql(t) /\ pc'[t] = "rollback")
         /\ CommitSql(t) => t \in Unsettled /\ t \notin Unsettled'
  <1> USE DEF TypeInv, TypeOK, Unsettled, GoTo
  <1>1. \A u \in Threads \ {t} : u \in Unsettled' <=> u \in Unsettled
    BY ListFrame
  <1>2. t \in Unsettled => Batch(t)' = Batch(t) /\ Entries(t)' = Entries(t)
    <2>1. ASSUME t \in Unsettled
          PROVE  ~Returns(t)
      <3>1. SaveCachedFiles(t) => pc'[t] # "idle" \/ pc[t] \in {"unlock", "lastUnlock"}
        BY StepFrame DEF SaveCachedFiles, Stays, Advances, NextFile,
           BeginSaveLock, BeginTest, BeginSql, BeginSet, InsertFile, ReadRowId,
           SaveMetadata, DeleteFile, EndLoop, CommitTest, CommitSql, CommitSet,
           CommitUnlock, FailedUnlock, RollbackTest, RollbackSql, RollbackSet,
           LastUnlock
      <3> QED
        BY <2>1, <3>1 DEF Returns, Return
    <2> QED
      BY <2>1, ListFrame
  <1>3. CASE CommitSql(t)
    BY <1>1, <1>2, <1>3, StoredFrame DEF CommitSql
  <1>4. CASE BeginSql(t)
    BY <1>1, <1>2, <1>4 DEF BeginSql, CommitSql
  <1>5. CASE InsertFile(t) \/ SaveMetadata(t) \/ DeleteFile(t)
    BY <1>1, <1>2, <1>5 DEF InsertFile, SaveMetadata, DeleteFile, NextFile, CommitSql
  <1>6. CASE \/ BeginSaveLock(t) \/ BeginTest(t) \/ BeginSet(t)
             \/ ReadRowId(t) \/ EndLoop(t) \/ CommitSet(t)
    BY <1>1, <1>2, <1>6 DEF BeginSaveLock, BeginTest, BeginSet, ReadRowId, EndLoop,
       CommitSet, CommitSql
  <1>7. CASE CommitTest(t)
    <2>1. inTransaction
      BY <1>7 DEF CommitTest, ExclusionInv, InSave, Opened
    <2>2. pc[t] = "commit" /\ pc' = [pc EXCEPT ![t] = "commitSql"]
      BY <1>7, <2>1 DEF CommitTest
    <2> QED
      BY <1>1, <1>2, <2>2 DEF CommitSql
  <1>8. CASE \/ CommitUnlock(t) \/ FailedUnlock(t) \/ RollbackTest(t)
             \/ RollbackSql(t) \/ RollbackSet(t) \/ LastUnlock(t)
    BY <1>1, <1>2, <1>8 DEF CommitUnlock, FailedUnlock, RollbackTest, RollbackSql,
       RollbackSet, LastUnlock, Return, CommitSql
  <1> QED
    BY <1>3, <1>4, <1>5, <1>6, <1>7, <1>8 DEF SaveCachedFiles

(* Before the first step there is nothing to settle.                       *)
LEMMA RefInit == Init => RefInv
  <1> SUFFICES ASSUME Init
               PROVE  RefInv
    OBVIOUS
  <1>1. /\ rows["files"] = << >> /\ \A tb \in Tables : rows[tb] = << >>
        /\ durable["files"] = 0 /\ sqlTxn = FALSE
    BY TablesFacts DEF Init, DatabaseInit
  <1>2. DOMAIN << >> = {} /\ Len(<< >>) = 0
    BY EmptySeq
  <1>3. LinkInv /\ FreedInv
    BY <1>1, <1>2 DEF Init, LinkInv, RowsLinked, FreedInv, Committed
  <1>4. StoreInv
    BY <1>1, <1>2 DEF Init, StoreInv, Unsettled
  <1> QED
    BY <1>3, <1>4, TypeInit, ExclusionInit, OwnInit DEF RefInv

(* Rows wait for the COMMIT of the batch they belong to, and for no other. *)
LEMMA StoreStep ==
  ASSUME MildFaults, RefInv, [Next]_vars
  PROVE  StoreInv'
  <1> USE DEF RefInv
  <1>1. ASSUME NEW w \in Workers, NEW f \in Files, SaveFile(w, f)
        PROVE  StoreInv'
    <2>1. UNCHANGED <<rows, durable, holders>> /\ Stored' = Stored
      BY <1>1 DEF SaveFile, dbVars, Stored
    <2>2. /\ heap[f] = "none" /\ pc[w] = "idle" /\ ~flushed
          /\ \/ UNCHANGED <<filesToSave, pos, pc>>
             \/ /\ filesToSave' = [filesToSave EXCEPT ![w] = Append(queuedFiles, f)]
                /\ pos' = [pos EXCEPT ![w] = 1]
                /\ pc' = [pc EXCEPT ![w] = "lock"]
      BY <1>1 DEF SaveFile, GoTo
    <2>3. \A u \in Workers \ {w} : Batch(u)' = Batch(u) /\ Entries(u)' = Entries(u)
      BY <2>2, BatchFacts DEF Batch, Entries, TypeInv, TypeOK
    <2>4. w \notin holders /\ Flusher \notin holders /\ Flusher \notin Unsettled'
      BY <2>2, ThreadsAssumption
         DEF ExclusionInv, InSave, TypeInv, TypeOK, FlushedFirst, Unsettled
    <2>5. holders \subseteq Workers \ {w}
      BY <2>4 DEF TypeInv, TypeOK
    <2>6. \A k \in 1..Len(rows'["files"]) :
            k > durable'["files"] =>
              \E t \in holders' : InBatch(t, rows["files"][k].file)'
      BY <2>1, <2>3, <2>5 DEF StoreInv, InBatch
    <2>7. ASSUME NEW t \in Unsettled', NEW i \in Entries(t)'
          PROVE  Batch(t)'[i] \notin Stored
      <3>1. CASE t # w
        <4>1. t \in Workers \ {w} /\ t \in Unsettled
          BY <2>2, <2>4, <3>1 DEF Unsettled, TypeInv, TypeOK
        <4> QED
          BY <2>3, <2>7, <4>1 DEF StoreInv
      <3>2. CASE t = w
        <4>1. pc'[w] = "lock" /\ pos'[w] = 1
          BY <2>2, <2>7, <3>2 DEF Unsettled, TypeInv, TypeOK
        <4>2. ToInsert(w, i)'
          BY <2>7, <3>2, <4>1, TypeStep DEF ToInsert, Entries, TypeInv, TypeOK
        <4>3. \/ Batch(t)'[i] = f
              \/ \E s \in Threads : \E j \in Entries(s) :
                   ToInsert(s, j) /\ Batch(t)'[i] = Batch(s)[j]
          BY <1>1, <2>7, <3>2, <4>2, SaveFileOwns
        <4>4. ~HasRow(Batch(t)'[i])
          BY <2>2, <4>3 DEF RowInv
        <4> QED
          BY <4>4, StoredRows
      <3> QED
        BY <3>1, <3>2
    <2> QED
      BY <2>1, <2>6, <2>7 DEF StoreInv
  <1>2. CASE Flush
    <2>1. /\ UNCHANGED <<rows, durable, holders, queuedFiles, filesToSave, pos>>
          /\ ~flushed /\ \A w \in Workers : pc[w] = "idle"
          /\ \/ pc' = pc
             \/ pc' = [pc EXCEPT ![Flusher] = "lock"]
      BY <1>2 DEF Flush, dbVars, loopVars, GoTo
    <2>2. /\ Stored' = Stored
          /\ \A t \in Threads : Batch(t)' = Batch(t) /\ Entries(t)' = Entries(t)
      BY <2>1 DEF Stored, Batch, Entries
    <2>3. \A t \in Unsettled' : t = Flusher
      BY <2>1 DEF Unsettled, TypeInv, TypeOK, FlushedFirst
    <2>4. ASSUME NEW i \in Entries(Flusher)
          PROVE  Batch(Flusher)[i] \notin Stored
      <3>1. pos[Flusher] = 1 /\ pc[Flusher] = "idle" /\ i >= 1
        BY <2>1, <2>4, BatchFacts DEF OwnInv, TypeInv, FlushedFirst, Entries
      <3>2. ToInsert(Flusher, i)
        BY <2>4, <3>1 DEF ToInsert
      <3> QED
        BY <2>4, <3>2, StoredRows DEF RowInv
    <2>5. \A t \in Unsettled' : \A i \in Entries(t)' : Batch(t)'[i] \notin Stored'
      BY <2>2, <2>3, <2>4
    <2>6. \A k \in 1..Len(rows'["files"]) :
            k > durable'["files"] =>
              \E t \in holders' : InBatch(t, rows["files"][k].file)'
      <3>1. holders \subseteq Threads
        BY DEF TypeInv, TypeOK
      <3>2. ASSUME NEW k \in 1..Len(rows["files"]), k > durable["files"]
            PROVE  \E t \in holders : InBatch(t, rows["files"][k].file)'
        <4>1. PICK t \in holders : InBatch(t, rows["files"][k].file)
          BY <3>2 DEF StoreInv
        <4>2. InBatch(t, rows["files"][k].file)'
          BY <2>1, <2>2, <3>1, <4>1 DEF InBatch
        <4> QED
          BY <4>2
      <3>3. rows' = rows /\ durable' = durable /\ holders' = holders
        BY <2>1
      <3> QED
        BY <3>2, <3>3
    <2> QED
      BY <2>5, <2>6 DEF StoreInv
  <1>3. ASSUME NEW t \in Threads, SaveCachedFiles(t)
        PROVE  StoreInv'
    <2>1. ASSUME NEW k \in 1..Len(rows'["files"]), k > durable'["files"]
          PROVE  \E u \in holders' : InBatch(u, rows["files"][k].file)'
      <3>1. /\ ~sqlTxn' => durable'["files"] = Len(rows'["files"])
            /\ durable'["files"] \in Nat /\ Len(rows'["files"]) \in Nat
        BY <1>3, FreedStep, TypeStep, TablesFacts, LenProperties
           DEF FreedInv, Committed, TypeInv, SqlInv
      <3>2. sqlTxn'
        BY <2>1, <3>1
      <3>3. ExclusionInv'
        BY ExclusionStep
      <3>4. PICK u \in Threads : u \in holders' /\ pc'[u] \in Opened \cup {"beginSet"}
        BY <3>2, <3>3, TypeStep DEF ExclusionInv, TypeInv, TypeOK
      <3>5. holders = {t} /\ u = t
        <4>1. u # t => pc'[u] = pc[u]
          BY <1>3, StepFrame
        <4>2. t # u => u \in holders
          BY <3>4, <4>1 DEF ExclusionInv, InSave, Opened
        <4>3. u # t => t \notin holders /\ t \notin holders'
          BY <3>3, <3>4, <4>2 DEF ExclusionInv
        <4>4. t \notin holders => pc[t] = "lock"
          BY <1>3, StepFrame DEF ExclusionInv, InSave
        <4>5. pc[t] = "lock" => BeginSaveLock(t)
          BY <1>3 DEF SaveCachedFiles, BeginTest, BeginSql, BeginSet,
             InsertFile, ReadRowId, SaveMetadata, DeleteFile, EndLoop, CommitTest,
             CommitSql, CommitSet, CommitUnlock, FailedUnlock, RollbackTest,
             RollbackSql, RollbackSet, LastUnlock
        <4>6. BeginSaveLock(t) => holders = {} /\ pc'[t] = "begin" /\ t \in holders'
          BY DEF BeginSaveLock, WriteLock, GoTo, ExclusionInv, TypeInv, TypeOK
        <4>7. u = t
          BY <4>2, <4>3, <4>4, <4>5, <4>6
        <4>8. t \in holders
          BY <3>4, <4>4, <4>5, <4>6, <4>7 DEF Opened
        <4> QED
          BY <4>7, <4>8 DEF ExclusionInv
      <3>6. Batch(t)' = Batch(t) /\ Entries(t)' = Entries(t)
        <4>1. ~Returns(t)
          BY <3>4, <3>5 DEF Returns, Return, GoTo, Opened, TypeInv, TypeOK
        <4> QED
          BY <1>3, <4>1, ListFrame
      <3>7. CASE k \in 1..Len(rows["files"])
        <4>1. rows'["files"][k] = rows["files"][k]
          BY <1>3, <3>7, FileRowsGrow
        <4>2. durable'["files"] >= durable["files"]
          BY <1>3, StoredFrame, StoredRows
        <4>3. k > durable["files"]
          BY <2>1, <3>1, <4>2, StoredRows
        <4>4. InBatch(t, rows["files"][k].file)
          BY <3>5, <3>7, <4>3 DEF StoreInv
        <4> QED
          BY <3>4, <3>5, <3>6, <4>1, <4>4 DEF InBatch
      <3>8. CASE k \notin 1..Len(rows["files"])
        <4>1. Inserts(t)
          BY <1>3, <2>1, <3>8, FileRowsGrow
        <4>2. /\ pos[t] \in Entries(t) /\ CurrentFile(t) = Batch(t)[pos[t]]
              /\ CurrentFile(t) \in Files
          BY <4>1, BatchFacts DEF Inserts, InsertFile, HasFile, CurrentFile, Entries
        <4>3. [file |-> CurrentFile(t), fileId |-> 0] \in Row
          BY <4>2 DEF Row
        <4>4. /\ Len(rows'["files"]) = Len(rows["files"]) + 1
              /\ rows'["files"][Len(rows["files"]) + 1].file = CurrentFile(t)
          BY <4>1, <4>3, InsertKeepsSqlInv, TablesFacts DEF Inserts, TypeInv
        <4>5. k = Len(rows["files"]) + 1
          BY <2>1, <3>8, <4>4, StoredRows
        <4> QED
          BY <3>4, <3>5, <3>6, <4>2, <4>4, <4>5 DEF InBatch
      <3> QED
        BY <3>7, <3>8
    <2>2. ASSUME NEW u \in Unsettled', NEW i \in Entries(u)'
          PROVE  Batch(u)'[i] \notin Stored'
      <3>1. u \in Unsettled /\ Batch(u)' = Batch(u) /\ Entries(u)' = Entries(u)
        BY <1>3, <2>2, UnsettledFrame, ListFrame DEF Unsettled
      <3>2. Batch(u)[i] \notin Stored
        BY <2>2, <3>1 DEF StoreInv
      <3>3. CASE ~CommitSql(t)
        BY <1>3, <3>1, <3>2, <3>3, StoredFrame
      <3>4. CASE CommitSql(t)
        <4>1. u # t /\ holders = {t} /\ u \in Threads
          BY <1>3, <2>2, <3>4, UnsettledFrame
             DEF CommitSql, ExclusionInv, InSave, Unsettled
        <4>2. /\ rows' = rows /\ durable'["files"] = Len(rows["files"])
          BY <1>3, <3>4, StoredFrame
        <4>3. ASSUME NEW k \in 1..Len(rows["files"])
              PROVE  rows["files"][k].file # Batch(u)[i]
          <5>1. CASE k > durable["files"]
            <6>1. InBatch(t, rows["files"][k].file)
              BY <4>1, <5>1 DEF StoreInv
            <6> QED
              BY <2>2, <3>1, <4>1, <6>1 DEF InBatch, OwnInv
          <5>2. CASE ~(k > durable["files"])
            <6>1. rows["files"][k].file \in Stored
              BY <5>2, StoredRows DEF Stored
            <6> QED
              BY <3>2, <6>1
          <5> QED
            BY <5>1, <5>2
        <4> QED
          BY <3>1, <4>2, <4>3 DEF Stored
      <3> QED
        BY <3>3, <3>4
    <2> QED
      BY <2>1, <2>2 DEF StoreInv
  <1>4. CASE UNCHANGED vars
    <2>1. /\ UNCHANGED <<rows, durable, holders>> /\ Stored' = Stored
          /\ Unsettled' = Unsettled
          /\ \A t \in Threads : Batch(t)' = Batch(t) /\ Entries(t)' = Entries(t)
      BY <1>4 DEF vars, dbVars, queueVars, Stored, Unsettled, Batch, Entries
    <2>2. holders \subseteq Threads /\ Unsettled \subseteq Threads
      BY DEF TypeInv, TypeOK, Unsettled
    <2> QED
      BY <2>1, <2>2 DEF StoreInv, InBatch
  <1> QED
    BY <1>1, <1>2, <1>3, <1>4 DEF Next, Step

(* All of it is inductive.                                                 *)
LEMMA RefStep ==
  ASSUME MildFaults, RefInv, [Next]_vars
  PROVE  RefInv'
  BY TypeStep, ExclusionStep, LinkStep, FreedStep, OwnStep, RowStep, StoreStep
     DEF RefInv

-----------------------------------------------------------------------------
(* The stages of a file. *)

Held(f) == \E t \in Unsettled : f \in Range(Batch(t))
InQueue(f) == f \in Range(queuedFiles) /\ ~flushed

(* The cases of StageOf exclude each other.                                *)
LEMMA StagesExclude ==
  ASSUME RefInv, NEW f \in Files
  PROVE  /\ heap[f] = "none" => f \notin Stored /\ ~Held(f) /\ ~InQueue(f)
         /\ f \in Stored => ~Held(f) /\ ~InQueue(f)
         /\ Held(f) => ~InQueue(f)
  <1> USE DEF RefInv
  <1>1. Unsettled \subseteq Threads /\ \A t \in Unsettled : pc[t] # "idle"
    BY DEF Unsettled
  <1>2. Held(f) => \E t \in Unsettled : \E i \in Entries(t) : Batch(t)[i] = f
    BY <1>1, BatchRange DEF Held, InBatch
  <1>3. InQueue(f) => ~flushed /\ \E i \in Entries(Flusher) : Batch(Flusher)[i] = f
    BY BatchRange, BatchFacts DEF InQueue, InBatch
  <1>4. heap[f] = "none" => f \notin Stored /\ ~Held(f) /\ ~InQueue(f)
    BY <1>1, <1>2, <1>3, StoredRows DEF OwnInv, RowInv
  <1>5. f \in Stored => ~Held(f)
    BY <1>2 DEF StoreInv
  <1>6. f \in Stored => ~InQueue(f)
    <2>1. ~flushed => \A i \in Entries(Flusher) : ToInsert(Flusher, i)
      <3>1. ASSUME ~flushed, NEW i \in Entries(Flusher)
            PROVE  ToInsert(Flusher, i)
        <4>1. pos[Flusher] = 1 /\ pc[Flusher] = "idle" /\ i >= 1
          BY <3>1, BatchFacts DEF OwnInv, TypeInv, FlushedFirst, Entries
        <4> QED
          BY <3>1, <4>1 DEF ToInsert
      <3> QED
        BY <3>1
    <2> QED
      BY <1>3, <2>1, StoredRows DEF RowInv
  <1>7. Held(f) => ~InQueue(f)
    <2>1. \A t \in Unsettled : t = Flusher => flushed
      BY <1>1 DEF TypeInv, FlushedFirst
    <2> QED
      BY <1>1, <1>2, <1>3, <2>1 DEF OwnInv
  <1> QED
    BY <1>4, <1>5, <1>6, <1>7

(* The stages of a file as a decision: one condition after the other. *)
StageChart(f) ==
  IF heap[f] = "none" THEN "new"
  ELSE IF f \in Stored THEN "stored"
  ELSE IF Held(f) THEN "taken"
  ELSE IF InQueue(f) THEN "queued" ELSE "failed"

(* StageOf, without CASE: the conditions exclude each other. *)
LEMMA StageIs == RefInv => \A f \in Files : StageOf(f) = StageChart(f)
  <1> SUFFICES ASSUME RefInv, NEW f \in Files
               PROVE  StageOf(f) = StageChart(f)
    OBVIOUS
  <1> USE DEF StageChart
  <1>1. /\ heap[f] = "none" => f \notin Stored /\ ~Held(f) /\ ~InQueue(f)
        /\ f \in Stored => ~Held(f) /\ ~InQueue(f)
        /\ Held(f) => ~InQueue(f)
    BY StagesExclude
  <1>2. StageOf(f) = CASE heap[f] = "none" -> "new"
                       [] f \in Stored -> "stored"
                       [] Held(f) -> "taken"
                       [] InQueue(f) -> "queued"
                       [] OTHER -> "failed"
    BY DEF StageOf, Held, InQueue
  <1>3. CASE heap[f] = "none"
    BY ONLY <1>1, <1>2, <1>3, Zenon
  <1>4. CASE heap[f] # "none" /\ f \in Stored
    BY ONLY <1>1, <1>2, <1>4, Zenon
  <1>5. CASE heap[f] # "none" /\ f \notin Stored /\ Held(f)
    BY ONLY <1>1, <1>2, <1>5, Zenon
  <1>6. CASE heap[f] # "none" /\ f \notin Stored /\ ~Held(f) /\ InQueue(f)
    BY ONLY <1>1, <1>2, <1>6, Zenon
  <1>7. CASE heap[f] # "none" /\ f \notin Stored /\ ~Held(f) /\ ~InQueue(f)
    BY ONLY <1>1, <1>2, <1>7, Zenon
  <1> QED
    BY <1>3, <1>4, <1>5, <1>6, <1>7

(* The same after a step. *)
LEMMA StageIsNext == RefInv' => \A f \in Files : StageOf(f)' = StageChart(f)'
  <1>1. (RefInv => \A f \in Files : StageOf(f) = StageChart(f))'
    BY StageIs, PTL
  <1> QED
    BY <1>1

(* FileStore counts the queued files; the code takes the queue's length.   *)
(* They agree because no file is queued twice.                             *)
LEMMA QueueLength ==
  ASSUME RefInv
  PROVE  /\ IsFiniteSet(Range(queuedFiles))
         /\ Cardinality(Range(queuedFiles)) = Len(queuedFiles)
         /\ Len(queuedFiles) \in Nat
         /\ Range(queuedFiles) = {} <=> Len(queuedFiles) = 0
  <1> DEFINE n == Len(queuedFiles)
  <1>1. /\ n \in Nat /\ DOMAIN queuedFiles = 1..n
        /\ queuedFiles \in [1..n -> Range(queuedFiles)]
        /\ \A y \in Range(queuedFiles) : \E i \in 1..n : queuedFiles[i] = y
        /\ \A i, j \in 1..n : queuedFiles[i] = queuedFiles[j] => i = j
    <2>1. queuedFiles \in Seq(Files)
      BY DEF RefInv, TypeInv, TypeOK
    <2>2. n \in Nat /\ DOMAIN queuedFiles = 1..n /\ queuedFiles \in [1..n -> Files]
      BY <2>1, LenProperties
    <2>3. \A i, j \in 1..n : queuedFiles[i] = queuedFiles[j] => i = j
      BY BatchFacts DEF RefInv, OwnInv, Entries
    <2> QED
      BY <2>2, <2>3 DEF Range
  <1> HIDE DEF n
  <1>2. queuedFiles \in Bijection(1..n, Range(queuedFiles))
    BY <1>1, Fun_IsBij
  <1>3. ExistsBijection(1..n, Range(queuedFiles))
    BY <1>2 DEF ExistsBijection
  <1>4. IsFiniteSet(1..n) /\ Cardinality(1..n) = n
    BY <1>1, FS_Interval
  <1>5. IsFiniteSet(Range(queuedFiles)) /\ Cardinality(Range(queuedFiles)) = n
    BY <1>3, <1>4, FS_Bijection
  <1>6. Range(queuedFiles) = {} <=> n = 0
    BY <1>5, FS_EmptySet
  <1> QED
    BY <1>1, <1>5, <1>6 DEF n

-----------------------------------------------------------------------------
(* The refinement, step by step. *)

StageMap == [f \in Files |-> StageOf(f)]
BatchesMap == {Range(Batch(t)) : t \in Unsettled}

(* FileStore's queued files are those in the queue, until flush().         *)
LEMMA QueuedIs ==
  ASSUME RefInv
  PROVE  Store!Queued = IF flushed THEN {} ELSE Range(queuedFiles)
  <1>1. Range(queuedFiles) \subseteq Files
    BY BatchRange, BatchFacts DEF RefInv
  <1>2. \A f \in Files : StageMap[f] = "queued" <=> InQueue(f)
    BY StageIs, StagesExclude DEF StageMap, StageChart
  <1>3. Store!Queued = {f \in Files : StageMap[f] = "queued"}
    BY DEF Store!Queued, StageMap
  <1> QED
    BY <1>1, <1>2, <1>3 DEF InQueue

(* FileStore counts with the Cardinality of the module it extends.         *)
LEMMA SameCardinality == \A S : Store!Cardinality(S) = Cardinality(S)
  BY DEF Store!Cardinality, Cardinality

(* Before the first step every file is new. *)
LEMMA StoreInitRefines == Init => Store!Init
  <1> SUFFICES ASSUME Init
               PROVE  Store!Init
    OBVIOUS
  <1>1. RefInv
    BY RefInit
  <1>2. \A f \in Files : StageOf(f) = "new"
    BY <1>1, StageIs DEF StageChart, Init
  <1>3. Unsettled = {}
    BY DEF Init, Unsettled
  <1> QED
    BY <1>2, <1>3 DEF Store!Init, Init

(* saveFile is Enqueue, or FillBatch when the queue is full. *)
LEMMA SaveFileRefines ==
  ASSUME MildFaults, RefInv, RefInv', NEW w \in Workers, NEW f \in Files,
         SaveFile(w, f)
  PROVE  Store!Enqueue(f) \/ Store!FillBatch(f)
  <1> DEFINE queue == Append(queuedFiles, f)
  <1>1. /\ pc[w] = "idle" /\ ~flushed /\ flushed' = flushed /\ heap[f] = "none"
        /\ heap' = [heap EXCEPT ![f] = "live"] /\ Stored' = Stored
        /\ heap \in [Files -> {"none", "live", "freed"}]
    BY DEF SaveFile, dbVars, Stored, RefInv, TypeInv, TypeOK
  <1>2. /\ Len(queue) = Len(queuedFiles) + 1 /\ Len(queuedFiles) \in Nat
        /\ Range(queue) = Range(queuedFiles) \cup {f}
    <2>1. /\ queuedFiles \in Seq(Files) /\ Len(queuedFiles) \in Nat
          /\ DOMAIN queuedFiles = 1..Len(queuedFiles)
      BY LenProperties DEF RefInv, TypeInv, TypeOK
    <2>2. /\ queue \in Seq(Files) /\ Len(queue) = Len(queuedFiles) + 1
          /\ DOMAIN queue = 1..(Len(queuedFiles) + 1)
          /\ \A i \in 1..Len(queuedFiles) : queue[i] = queuedFiles[i]
          /\ queue[Len(queuedFiles) + 1] = f
      BY <2>1, LenProperties
    <2> HIDE DEF queue
    <2> QED
      BY <2>1, <2>2 DEF Range
  <1>3. /\ StageMap[f] = "new" /\ Store!Queued = Range(queuedFiles)
        /\ Store!Cardinality(Store!Queued) = Len(queuedFiles)
    BY <1>1, StageIs, QueuedIs, QueueLength, SameCardinality DEF StageMap, StageChart
  <1>4. \A g \in Files : StageMap[g] = StageChart(g) /\ StageMap'[g] = StageChart(g)'
    BY StageIs, StageIsNext DEF StageMap
  <1>5. f \notin Stored /\ ~Held(f) /\ ~InQueue(f)
    BY <1>1, StagesExclude
  <1>6. Unsettled \ {w} = Unsettled' \ {w} /\ w \notin Unsettled
        /\ \A u \in Unsettled : u \in Workers \ {w} /\ Batch(u)' = Batch(u)
    <2>1. \/ UNCHANGED <<filesToSave, pc>>
          \/ /\ filesToSave' = [filesToSave EXCEPT ![w] = queue]
             /\ pc' = [pc EXCEPT ![w] = "lock"]
      BY DEF SaveFile, GoTo
    <2>2. \A u \in Workers : u # Flusher
      BY ThreadsAssumption
    <2> QED
      BY <1>1, <2>1, <2>2
         DEF Unsettled, Batch, RefInv, TypeInv, TypeOK, FlushedFirst
  <1> HIDE DEF queue
  <1>7. CASE Len(queue) < BatchSize /\ queuedFiles' = queue /\ UNCHANGED pc
    <2>1. Unsettled' = Unsettled
      BY <1>7 DEF Unsettled
    <2>2. BatchesMap' = BatchesMap /\ \A g : Held(g)' = Held(g)
      BY <1>6, <2>1 DEF BatchesMap, Held
    <2>3. \A g : InQueue(g)' <=> InQueue(g) \/ g = f
      BY <1>1, <1>2, <1>7 DEF InQueue
    <2>4. StageMap' = [StageMap EXCEPT ![f] = "queued"]
      <3>1. StageMap'[f] = "queued"
        BY <1>1, <1>4, <1>5, <2>2, <2>3 DEF StageChart
      <3>2. \A g \in Files \ {f} : StageMap'[g] = StageMap[g]
        BY <1>1, <1>4, <2>2, <2>3 DEF StageChart
      <3> QED
        BY <3>1, <3>2 DEF StageMap
    <2> QED
      BY <1>1, <1>2, <1>3, <1>7, <2>2, <2>4
         DEF Store!Enqueue, StageMap, BatchesMap
  <1>8. CASE /\ Len(queue) >= BatchSize /\ queuedFiles' = << >>
             /\ filesToSave' = [filesToSave EXCEPT ![w] = queue]
             /\ pc' = [pc EXCEPT ![w] = "lock"]
    <2> DEFINE B == Range(queuedFiles) \cup {f}
    <2>1. Unsettled' = Unsettled \cup {w} /\ Range(Batch(w)') = B
      <3>1. w \in Unsettled' /\ Unsettled' \subseteq Threads /\ Unsettled \subseteq Threads
        BY <1>8 DEF Unsettled, RefInv, TypeInv, TypeOK
      <3>2. Batch(w)' = queue
        BY <1>8, ThreadsAssumption DEF Batch, RefInv, TypeInv, TypeOK
      <3> QED
        BY <1>2, <1>6, <3>1, <3>2
    <2>2. /\ BatchesMap' = BatchesMap \cup {B}
          /\ \A g : Held(g)' <=> Held(g) \/ g \in B
      BY <1>6, <2>1 DEF BatchesMap, Held
    <2>3. \A g : ~InQueue(g)'
      BY <1>8, EmptySeq DEF InQueue, Range
    <2>4. StageMap' = [g \in Files |-> IF g \in B THEN "taken" ELSE StageMap[g]]
      <3>1. ASSUME NEW g \in Files, g \in B
            PROVE  StageMap'[g] = "taken"
        <4>1. g = f \/ InQueue(g)
          BY <1>1, <3>1 DEF InQueue
        <4>2. heap'[g] # "none" /\ g \notin Stored
          BY <1>1, <1>5, <4>1, StagesExclude
        <4> QED
          BY <1>1, <1>4, <2>2, <3>1, <4>2 DEF StageChart
      <3>2. ASSUME NEW g \in Files, g \notin B
            PROVE  StageMap'[g] = StageMap[g]
        <4>1. g # f /\ ~InQueue(g)
          BY <3>2 DEF InQueue
        <4> QED
          BY <1>1, <1>4, <2>2, <2>3, <3>2, <4>1 DEF StageChart
      <3> QED
        BY <3>1, <3>2 DEF StageMap
    <2> QED
      BY <1>1, <1>2, <1>3, <1>8, <2>2, <2>4
         DEF Store!FillBatch, Store!Take, StageMap, BatchesMap
  <1> QED
    BY <1>7, <1>8 DEF SaveFile, GoTo, queue

(* flush() is Close: what is left in the queue becomes the last batch. *)
LEMMA FlushRefines ==
  ASSUME MildFaults, RefInv, RefInv', Flush
  PROVE  Store!Close
  <1>1. /\ ~flushed /\ flushed' = TRUE /\ \A w \in Workers : pc[w] = "idle"
        /\ UNCHANGED <<queuedFiles, filesToSave, heap>> /\ Stored' = Stored
        /\ pc' = IF Len(queuedFiles) > 0 THEN [pc EXCEPT ![Flusher] = "lock"] ELSE pc
        /\ pc[Flusher] = "idle" /\ pc \in [Threads -> Locations]
    BY DEF Flush, GoTo, dbVars, fileVars, Stored, RefInv, TypeInv, TypeOK,
       FlushedFirst
  <1>2. /\ Unsettled = {} /\ BatchesMap = {}
        /\ Unsettled' = IF Len(queuedFiles) > 0 THEN {Flusher} ELSE {}
        /\ Batch(Flusher)' = queuedFiles
    BY <1>1 DEF Unsettled, BatchesMap, Batch
  <1>3. Store!Queued = Range(queuedFiles) /\ Len(queuedFiles) \in Nat
        /\ (Range(queuedFiles) = {} <=> Len(queuedFiles) = 0)
    BY <1>1, QueuedIs, QueueLength
  <1>4. \A g \in Files : StageMap[g] = StageChart(g) /\ StageMap'[g] = StageChart(g)'
    BY StageIs, StageIsNext DEF StageMap
  <1>5. \A g : ~InQueue(g)' /\ ~Held(g)
    BY <1>1, <1>2 DEF InQueue, Held
  <1>6. CASE Len(queuedFiles) > 0
    <2>1. BatchesMap' = {Range(queuedFiles)} /\ \A g : Held(g)' <=> g \in Range(queuedFiles)
      BY <1>2, <1>6 DEF BatchesMap, Held
    <2>2. \A g \in Files : g \in Range(queuedFiles) => heap[g] # "none" /\ g \notin Stored
      BY <1>1, StagesExclude DEF InQueue
    <2>3. ASSUME NEW g \in Files
          PROVE  StageMap'[g] = IF g \in Range(queuedFiles) THEN "taken" ELSE StageMap[g]
      BY <1>1, <1>4, <1>5, <2>1, <2>2 DEF StageChart, InQueue
    <2>4. StageMap' = [g \in Files |-> IF g \in Store!Queued THEN "taken"
                                       ELSE StageMap[g]]
      BY <1>3, <2>3 DEF StageMap
    <2>5. Store!Queued # {}
      BY <1>3, <1>6
    <2>6. Store!Take(Store!Queued)
      BY <1>2, <1>3, <2>1, <2>4 DEF Store!Take, StageMap, BatchesMap
    <2> QED
      BY <1>1, <1>2, <2>5, <2>6 DEF Store!Close, BatchesMap
  <1>7. CASE ~(Len(queuedFiles) > 0)
    <2>1. Range(queuedFiles) = {}
      BY <1>3, <1>7
    <2>2. BatchesMap' = {} /\ \A g : ~Held(g)' /\ ~InQueue(g)
      BY <1>2, <1>7, <2>1 DEF BatchesMap, Held, InQueue
    <2>3. \A g \in Files : StageMap'[g] = StageMap[g]
      BY <1>1, <1>4, <1>5, <2>2 DEF StageChart
    <2>4. StageMap' = StageMap
      BY <2>3 DEF StageMap
    <2>5. Store!Queued = {}
      BY <1>3, <2>1
    <2> QED
      BY <1>1, <1>2, <2>2, <2>4, <2>5 DEF Store!Close, StageMap, BatchesMap
  <1> QED
    BY <1>6, <1>7

(* The COMMIT of a batch, or the BEGIN that failed, is Settle: the files   *)
(* with a row are stored, the others are not and never will be.            *)
LEMMA SettleRefines ==
  ASSUME MildFaults, RefInv, RefInv', NEW t \in Threads, SaveCachedFiles(t),
         t \in Unsettled, t \notin Unsettled'
  PROVE  Range(Batch(t)) \in BatchesMap /\ Store!Settle(Range(Batch(t)))
  <1> USE DEF RefInv
  <1> DEFINE B == Range(Batch(t))
             S == {g \in B : g \in Stored'}
  <1>1. /\ UNCHANGED <<queuedFiles, flushed>>
        /\ \A u \in Threads \ {t} : Batch(u)' = Batch(u)
        /\ Unsettled' = Unsettled \ {t} /\ Unsettled \subseteq Threads
        /\ pc[t] # "idle"
    BY StepFrame, ListFrame, UnsettledFrame DEF Unsettled
  <1>2. \A g \in Files : heap'[g] = "none" <=> heap[g] = "none"
    <2>1. CommitSql(t) \/ BeginSql(t)
      BY UnsettledFrame
    <2> QED
      BY <2>1 DEF CommitSql, BeginSql, fileVars
  <1>3. /\ B \subseteq Files /\ B # {}
        /\ \A g : g \in B <=> \E i \in Entries(t) : Batch(t)[i] = g
        /\ \A u \in Threads \ {t} : \A g : g \in B => g \notin Range(Batch(u))
        /\ \A g : g \in B => ~InQueue(g)
    <2>1. /\ B \subseteq Files /\ (Batch(t) # << >> => B # {})
          /\ \A u \in Threads : \A g :
               g \in Range(Batch(u)) <=> \E i \in Entries(u) : Batch(u)[i] = g
      BY BatchRange DEF InBatch
    <2>2. Batch(t) # << >>
      BY <1>1, BatchFacts DEF OwnInv
    <2>3. \A u \in Threads \ {t} : \A g : g \in B => g \notin Range(Batch(u))
      BY <2>1 DEF OwnInv
    <2>4. \A g : g \in B => ~InQueue(g)
      BY <1>1, <2>3, BatchFacts DEF InQueue, TypeInv, FlushedFirst
    <2> QED
      BY <2>1, <2>2, <2>3, <2>4
  <1>4. \A g : g \notin B => (g \in Stored' <=> g \in Stored)
    <2>1. CASE CommitSql(t)
      <3>1. holders = {t} /\ rows' = rows /\ durable'["files"] = Len(rows["files"])
        BY <2>1, StoredFrame DEF CommitSql, ExclusionInv, InSave
      <3>2. \A k \in 1..Len(rows["files"]) :
              k > durable["files"] => rows["files"][k].file \in B
        BY <1>3, <3>1 DEF StoreInv, InBatch
      <3>3. \A k \in 1..Len(rows["files"]) : 
              k \in 1..durable["files"] \/ k > durable["files"]
        BY StoredRows
      <3>4. 1..durable["files"] \subseteq 1..Len(rows["files"])
        BY StoredRows
      <3> HIDE DEF B
      <3> QED
        BY <3>1, <3>2, <3>3, <3>4 DEF Stored
    <2>2. CASE ~CommitSql(t)
      BY <2>2, StoredFrame
    <2> QED
      BY <2>1, <2>2
  <1>5. \A g \in Files : StageMap[g] = StageChart(g) /\ StageMap'[g] = StageChart(g)'
    BY StageIs, StageIsNext DEF StageMap
  <1>6. \A g : Held(g)' <=> Held(g) /\ g \notin B
    <2>1. \A g : Held(g)' <=> \E u \in Unsettled \ {t} : g \in Range(Batch(u))
      BY <1>1 DEF Held
    <2> QED
      BY <1>1, <1>3, <2>1 DEF Held
  <1>7. BatchesMap' = BatchesMap \ {B} /\ B \in BatchesMap
    <2>1. BatchesMap' = {Range(Batch(u)) : u \in Unsettled \ {t}}
      BY <1>1 DEF BatchesMap
    <2>2. \A u \in Unsettled \ {t} : Range(Batch(u)) # B
      BY <1>1, <1>3
    <2> QED
      BY <2>1, <2>2 DEF BatchesMap
  <1>8. ASSUME NEW g \in Files
        PROVE  StageMap'[g] = IF g \in S THEN "stored"
                              ELSE IF g \in B THEN "failed" ELSE StageMap[g]
    <2>1. InQueue(g)' = InQueue(g)
      BY <1>1 DEF InQueue
    <2>2. CASE g \in B
      <3>1. heap[g] # "none" /\ ~InQueue(g) /\ ~Held(g)'
        BY <1>3, <1>6, <2>2 DEF OwnInv
      <3> QED
        BY <1>2, <1>5, <2>1, <2>2, <3>1 DEF StageChart
    <2>3. CASE g \notin B
      BY <1>2, <1>4, <1>5, <1>6, <2>1, <2>3 DEF StageChart
    <2> QED
      BY <2>2, <2>3
  <1>9. /\ S \in SUBSET B
        /\ StageMap' = [g \in Files |-> IF g \in S THEN "stored"
                                        ELSE IF g \in B THEN "failed"
                                        ELSE StageMap[g]]
    BY <1>8 DEF StageMap
  <1> HIDE DEF S, B
  <1>10. Store!Settle(B)
    BY <1>1, <1>7, <1>9 DEF Store!Settle, StageMap, BatchesMap
  <1> QED
    BY <1>7, <1>10 DEF B

(* Every other step inside a batch is invisible to the client. *)
LEMMA OtherStepsStutter ==
  ASSUME MildFaults, RefInv, RefInv', NEW t \in Threads, SaveCachedFiles(t),
         ~(t \in Unsettled /\ t \notin Unsettled')
  PROVE  UNCHANGED Store!storeVars
  <1> USE DEF RefInv
  <1>1. /\ UNCHANGED <<queuedFiles, flushed>>
        /\ Unsettled' = Unsettled /\ Unsettled \subseteq Threads
        /\ \A u \in Unsettled : Batch(u)' = Batch(u)
    BY StepFrame, ListFrame, UnsettledFrame DEF Unsettled
  <1>2. \A g \in Files : heap'[g] = "none" <=> heap[g] = "none"
    <2>1. \/ heap' = heap
          \/ heap' = [heap EXCEPT ![CurrentFile(t)] = "freed"] /\ HasFile(t)
      BY StepFrame DEF Stays, Advances, Returns
    <2>2. HasFile(t) => heap[CurrentFile(t)] # "none"
      BY BatchFacts DEF HasFile, CurrentFile, Entries, OwnInv
    <2> QED
      BY <2>1, <2>2 DEF TypeInv, TypeOK
  <1>3. Stored' = Stored
    BY StoredFrame, UnsettledFrame
  <1>4. BatchesMap' = BatchesMap
    BY <1>1 DEF BatchesMap
  <1>5. \A g : Held(g)' = Held(g) /\ InQueue(g)' = InQueue(g)
    BY <1>1 DEF Held, InQueue
  <1>6. \A g \in Files : StageMap[g] = StageChart(g) /\ StageMap'[g] = StageChart(g)'
    BY StageIs, StageIsNext DEF StageMap
  <1>7. \A g \in Files : StageMap'[g] = StageMap[g]
    BY <1>2, <1>3, <1>5, <1>6 DEF StageChart
  <1>8. StageMap' = StageMap
    BY <1>7 DEF StageMap
  <1> QED
    BY <1>1, <1>4, <1>8 DEF Store!storeVars, StageMap, BatchesMap

(* Every step of the persistor is a step of FileStore or a stutter. *)
LEMMA StoreStepRefines ==
  ASSUME MildFaults, RefInv, RefInv', [Next]_vars
  PROVE  [Store!Next]_(Store!storeVars)
  <1>1. ASSUME NEW w \in Workers, NEW f \in Files, SaveFile(w, f)
        PROVE  Store!Next
    BY <1>1, SaveFileRefines DEF Store!Next
  <1>2. CASE Flush
    BY <1>2, FlushRefines DEF Store!Next
  <1>3. ASSUME NEW t \in Threads, SaveCachedFiles(t)
        PROVE  Store!Next \/ UNCHANGED Store!storeVars
    <2>1. CASE t \in Unsettled /\ t \notin Unsettled'
      BY <1>3, <2>1, SettleRefines DEF Store!Next, BatchesMap
    <2>2. CASE ~(t \in Unsettled /\ t \notin Unsettled')
      BY <1>3, <2>2, OtherStepsStutter
    <2> QED
      BY <2>1, <2>2
  <1>4. CASE UNCHANGED vars
    <2>1. /\ flushed' = flushed /\ Unsettled' = Unsettled
          /\ \A t : Batch(t)' = Batch(t)
          /\ \A f : Held(f)' = Held(f) /\ InQueue(f)' = InQueue(f)
          /\ Stored' = Stored /\ heap' = heap
      BY <1>4 DEF vars, dbVars, queueVars, fileVars, Unsettled, Batch, Held,
         InQueue, Stored
    <2>2. \A g \in Files : StageMap[g] = StageChart(g) /\ StageMap'[g] = StageChart(g)'
      BY StageIs, StageIsNext DEF StageMap
    <2>3. \A g \in Files : StageMap'[g] = StageMap[g]
      BY <2>1, <2>2 DEF StageChart
    <2>4. StageMap' = StageMap /\ BatchesMap' = BatchesMap
      BY <2>1, <2>3 DEF StageMap, BatchesMap
    <2> QED
      BY <2>1, <2>4 DEF Store!storeVars, StageMap, BatchesMap
  <1> QED
    BY <1>1, <1>2, <1>3, <1>4 DEF Next, Step

(***************************************************************************)
(* If no COMMIT fails and no INSERT rolls back, saveFile and flush keep    *)
(* the promise of FileStore: files leave the queue a batch at a time,      *)
(* every file belongs to one batch, and one COMMIT or one failed BEGIN     *)
(* decides all the files of a batch, once.                                 *)
(***************************************************************************)
THEOREM PersistorImplementsFileStore ==
  ASSUME MildFaults
  PROVE  Spec => ImplementsFileStore
  <1>1. Init => RefInv
    BY RefInit
  <1>2. RefInv /\ [Next]_vars => RefInv'
    BY RefStep
  <1>3. Init => Store!Init
    BY StoreInitRefines
  <1>4. RefInv /\ RefInv' /\ [Next]_vars => [Store!Next]_(Store!storeVars)
    BY StoreStepRefines
  <1> QED
    BY <1>1, <1>2, <1>3, <1>4, PTL DEF Spec, ImplementsFileStore, Store!Spec

=============================================================================
