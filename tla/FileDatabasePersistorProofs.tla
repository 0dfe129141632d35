--------------------- MODULE FileDatabasePersistorProofs ---------------------
(* Theorems about FileDatabasePersistor and their proofs.                  *)
EXTENDS FileDatabasePersistor, DatabaseProofs

(* A thread in the middle of a file has a file to be in the middle of. *)
AtFile == \A t \in Threads : pc[t] \in {"rowid", "meta"} => HasFile(t)

(* flush() runs only after saveFile() has been called for the last time. *)
FlushedFirst == pc[Flusher] # "idle" => flushed

(***************************************************************************)
(* TypeOK is not inductive: the type of a metadata row depends on its      *)
(* thread being at a file of its batch, and so on nobody changing the      *)
(* batch; the type of a rolled back table on durable being within it.      *)
(***************************************************************************)
TypeInv == TypeOK /\ SqlInv /\ AtFile /\ FlushedFirst

USE DEF Threads

(* The files a batch consists of. *)
LEMMA CurrentFileType ==
  ASSUME TypeOK, NEW t \in Threads
  PROVE  /\ Batch(t) \in Seq(Files)
         /\ HasFile(t) => CurrentFile(t) \in Files
  <1>1. Batch(t) \in Seq(Files)
    BY DEF TypeOK, Batch
  <1>2. pos[t] \in Nat \ {0} /\ Len(Batch(t)) \in Nat
    BY <1>1, LenProperties DEF TypeOK
  <1> QED
    BY <1>1, <1>2, ElementOfSeq DEF HasFile, CurrentFile

(* A step that changes neither the queues nor an iterator keeps AtFile,    *)
(* unless it takes its thread to a location that needs a file.             *)
LEMMA StillAtFile ==
  ASSUME TypeInv, NEW t \in Threads, NEW loc \in Locations, GoTo(t, loc),
         UNCHANGED <<queueVars, pos>>,
         loc \in {"rowid", "meta"} => HasFile(t),
         pc[t] # "idle" \/ loc = "idle"
  PROVE  AtFile' /\ FlushedFirst' /\ pc' \in [Threads -> Locations]
  BY DEF TypeInv, TypeOK, AtFile, FlushedFirst, GoTo, HasFile, Batch, queueVars

(* Going on with the next file keeps AtFile: "insert" needs no file. *)
LEMMA IteratorMoves ==
  ASSUME TypeInv, NEW t \in Threads, NextFile(t), UNCHANGED queueVars,
         pc[t] # "idle"
  PROVE  /\ AtFile' /\ FlushedFirst'
         /\ pc' \in [Threads -> Locations]
         /\ pos' \in [Threads -> Nat \ {0}]
  BY DEF TypeInv, TypeOK, AtFile, FlushedFirst, NextFile, GoTo, HasFile, Batch,
     queueVars, Locations

(* A thread that returns gives up its own list and nobody else's. *)
LEMMA BatchReturns ==
  ASSUME TypeInv, NEW t \in Threads, Return(t),
         UNCHANGED <<queuedFiles, flushed, pos>>
  PROVE  /\ AtFile' /\ FlushedFirst'
         /\ pc' \in [Threads -> Locations]
         /\ filesToSave' \in [Workers -> Seq(Files)]
  <1>1. << >> \in Seq(Files)
    BY EmptySeq
  <1> QED
    BY <1>1 DEF TypeInv, TypeOK, AtFile, FlushedFirst, Return, GoTo, HasFile,
       Batch, Locations

(* Init establishes the invariant. *)
LEMMA TypeInit == Init => TypeInv
  <1> SUFFICES ASSUME Init
               PROVE  TypeInv
    OBVIOUS
  <1>1. << >> \in Seq(Files)
    BY EmptySeq
  <1>2. SqlInv
    BY SqlInit DEF Init
  <1>3. col \in [Threads -> 1..(Len(MetaTables) + 1)]
    BY TablesFacts DEF Init
  <1>4. TypeOK
    <2>1. queuedFiles \in Seq(Files) /\ filesToSave \in [Workers -> Seq(Files)]
      BY <1>1 DEF Init
    <2>2. /\ pc \in [Threads -> Locations]
          /\ pos \in [Threads -> Nat \ {0}]
          /\ heap \in [Files -> {"none", "live", "freed"}]
          /\ mId \in [Files -> Nat]
      BY DEF Init, Locations
    <2> QED
      BY <1>2, <1>3, <2>1, <2>2 DEF Init, DatabaseInit, TypeOK, SqlInv
  <1> QED
    BY <1>2, <1>4 DEF Init, TypeInv, AtFile, FlushedFirst

(* Every step keeps the invariant: one step of the proof for each action. *)
LEMMA TypeStep ==
  ASSUME TypeInv, [Next]_vars
  PROVE  TypeInv'
  <1> USE DEF TypeInv
  <1>1. ASSUME NEW w \in Workers, NEW f \in Files, SaveFile(w, f)
        PROVE  TypeInv'
    <2>1. Append(queuedFiles, f) \in Seq(Files) /\ << >> \in Seq(Files)
      BY EmptySeq DEF TypeOK
    <2>2. TypeOK'
      <3>1. /\ queuedFiles' \in Seq(Files)
            /\ filesToSave' \in [Workers -> Seq(Files)]
        BY <1>1, <2>1 DEF SaveFile, TypeOK
      <3>2. /\ pc' \in [Threads -> Locations]
            /\ pos' \in [Threads -> Nat \ {0}]
            /\ heap' \in [Files -> {"none", "live", "freed"}]
        <4>1. \/ UNCHANGED <<pc, pos>>
              \/ pc' = [pc EXCEPT ![w] = "lock"] /\ pos' = [pos EXCEPT ![w] = 1]
          BY <1>1 DEF SaveFile, GoTo
        <4>2. heap' = [heap EXCEPT ![f] = "live"]
          BY <1>1 DEF SaveFile
        <4>3. heap' \in [Files -> {"none", "live", "freed"}]
          BY <4>2 DEF TypeOK
        <4>4. pc' \in [Threads -> Locations]
          <5>1. "lock" \in Locations
            BY DEF Locations
          <5> QED
            BY <4>1, <5>1 DEF TypeOK
        <4>5. pos' \in [Threads -> Nat \ {0}]
          <5>1. w \in Threads /\ 1 \in Nat \ {0}
            OBVIOUS
          <5>2. pos \in [Threads -> Nat \ {0}]
            BY DEF TypeOK
          <5>3. pos' = pos \/ pos' = [pos EXCEPT ![w] = 1]
            BY <4>1
          <5> QED
            BY <5>1, <5>2, <5>3
        <4> QED
          BY <4>3, <4>4, <4>5
      <3>3. /\ writeLock' = writeLock /\ holders' = holders
            /\ inTransaction' = inTransaction /\ running' = running
            /\ flushed' = flushed /\ col' = col /\ mId' = mId
        BY <1>1 DEF SaveFile, dbVars
      <3>4. /\ sqlTxn' = sqlTxn /\ rows' = rows
            /\ durable' = durable /\ lastRowid' = lastRowid
        BY <1>1 DEF SaveFile, dbVars
      <3> QED
        BY <3>1, <3>2, <3>3, <3>4 DEF TypeOK
    <2>3. SqlInv'
      BY <1>1 DEF SaveFile, SqlInv, dbVars
    <2>4. AtFile' /\ FlushedFirst'
      BY <1>1, ThreadsAssumption DEF SaveFile, TypeOK, AtFile, FlushedFirst,
         HasFile, Batch, GoTo
    <2> QED
      BY <2>2, <2>3, <2>4
  <1>2. CASE Flush
    <2>1. TypeOK' /\ FlushedFirst'
      BY <1>2 DEF Flush, TypeOK, GoTo, Locations, dbVars, loopVars, fileVars,
         FlushedFirst
    <2>2. SqlInv'
      BY <1>2 DEF Flush, SqlInv, dbVars
    <2>3. AtFile'
      BY <1>2 DEF Flush, TypeOK, AtFile, HasFile, Batch, GoTo, loopVars
    <2> QED
      BY <2>1, <2>2, <2>3
  <1>3. ASSUME NEW t \in Threads, SaveCachedFiles(t)
        PROVE  TypeInv'
    <2> USE DEF Locations
    <2>1. CASE BeginSaveLock(t)
      BY <2>1, StillAtFile DEF BeginSaveLock, WriteLock, TypeOK, SqlInv, GoTo,
         sqlVars, queueVars, loopVars, fileVars
    <2>2. CASE BeginTest(t)
      BY <2>2, StillAtFile DEF BeginTest, TypeOK, SqlInv, GoTo, dbVars, queueVars,
         loopVars, fileVars
    <2>3. CASE BeginSql(t)
      BY <2>3, StillAtFile, OutcomesKeepSqlInv DEF BeginSql, TypeOK, SqlInv, GoTo,
         lockVars, queueVars, loopVars, fileVars
    <2>4. CASE BeginSet(t)
      BY <2>4, StillAtFile DEF BeginSet, TypeOK, SqlInv, GoTo, lockVars, sqlVars,
         queueVars, loopVars, fileVars
    <2>5. CASE InsertFile(t)
      <3>1. HasFile(t) /\ CurrentFile(t) \in Files
        BY <2>5, CurrentFileType DEF InsertFile
      <3>2. [file |-> CurrentFile(t), fileId |-> 0] \in Row
        BY <3>1 DEF Row
      <3>3. SqlInv'
        BY <2>5, <3>2, TablesFacts, InsertKeepsSqlInv, OutcomesKeepSqlInv
           DEF InsertFile
      <3>4. CASE GoTo(t, "rowid") /\ UNCHANGED pos
        BY <2>5, <3>1, <3>3, <3>4, StillAtFile DEF InsertFile, TypeOK, SqlInv,
           lockVars, queueVars, fileVars
      <3>5. CASE NextFile(t)
        BY <2>5, <3>3, <3>5, IteratorMoves DEF InsertFile, TypeOK, SqlInv,
           lockVars, queueVars, fileVars
      <3> QED
        BY <2>5, <3>4, <3>5 DEF InsertFile
    <2>6. CASE ReadRowId(t)
      <3>1. HasFile(t)
        BY <2>6 DEF ReadRowId, AtFile
      <3>2. AtFile' /\ FlushedFirst' /\ pc' \in [Threads -> Locations]
        BY <2>6, <3>1, StillAtFile DEF ReadRowId
      <3>3. mId' \in [Files -> Nat]
        BY <2>6 DEF ReadRowId, TypeOK
      <3>4. col' \in [Threads -> 1..(Len(MetaTables) + 1)]
        BY <2>6, TablesFacts DEF ReadRowId, TypeOK
      <3> QED
        BY <2>6, <3>2, <3>3, <3>4 DEF ReadRowId, TypeOK, SqlInv, dbVars, queueVars
    <2>7. CASE SaveMetadata(t)
      <3>1. HasFile(t) /\ CurrentFile(t) \in Files
        BY <2>7, CurrentFileType DEF SaveMetadata, AtFile
      <3> DEFINE row == [file |-> CurrentFile(t), fileId |-> mId[CurrentFile(t)]]
                 tb == MetaTables[col[t]]
      <3>2. row \in Row
        BY <3>1 DEF Row, TypeOK
      <3>3. tb \in Tables /\ col[t] + 1 \in 1..(Len(MetaTables) + 1)
        BY <2>7, TablesFacts DEF SaveMetadata, TypeOK
      <3>4. SqlInv'
        BY <2>7, <3>2, <3>3, InsertKeepsSqlInv, OutcomesKeepSqlInv
           DEF SaveMetadata, SqlInv, sqlVars
      <3>5. CASE UNCHANGED <<pc, pos>>
        BY <2>7, <3>3, <3>4, <3>5 DEF SaveMetadata, NextFile, GoTo, TypeOK,
           SqlInv, AtFile, FlushedFirst, HasFile, Batch, lockVars, queueVars,
           fileVars
      <3>6. CASE NextFile(t) /\ UNCHANGED col
        BY <2>7, <3>4, <3>6, IteratorMoves DEF SaveMetadata, TypeOK, SqlInv,
           lockVars, queueVars, fileVars
      <3> QED
        BY <2>7, <3>5, <3>6 DEF SaveMetadata
    <2>8. CASE DeleteFile(t)
      BY <2>8, IteratorMoves DEF DeleteFile, TypeOK, SqlInv, dbVars, queueVars
    <2>9. CASE EndLoop(t)
      BY <2>9, StillAtFile DEF EndLoop, TypeOK, SqlInv, GoTo, dbVars, queueVars,
         loopVars, fileVars
    <2>10. CASE CommitTest(t)
      BY <2>10, StillAtFile DEF CommitTest, TypeOK, SqlInv, GoTo, dbVars,
         queueVars, loopVars, fileVars
    <2>11. CASE CommitSql(t)
      BY <2>11, StillAtFile, OutcomesKeepSqlInv DEF CommitSql, TypeOK, SqlInv,
         GoTo, lockVars, queueVars, loopVars, fileVars
    <2>12. CASE CommitSet(t)
      BY <2>12, StillAtFile DEF CommitSet, TypeOK, SqlInv, GoTo, lockVars, sqlVars,
         queueVars, loopVars, fileVars
    <2>13. CASE CommitUnlock(t)
      BY <2>13, BatchReturns DEF CommitUnlock, WriteUnlock, TypeOK, SqlInv,
         sqlVars, loopVars, fileVars
    <2>14. CASE FailedUnlock(t)
      BY <2>14, StillAtFile DEF FailedUnlock, WriteUnlock, TypeOK, SqlInv, GoTo,
         sqlVars, queueVars, loopVars, fileVars
    <2>15. CASE RollbackTest(t)
      BY <2>15, StillAtFile DEF RollbackTest, TypeOK, SqlInv, GoTo, dbVars,
         queueVars, loopVars, fileVars
    <2>16. CASE RollbackSql(t)
      BY <2>16, StillAtFile, OutcomesKeepSqlInv DEF RollbackSql, TypeOK, SqlInv,
         GoTo, lockVars, queueVars, loopVars, fileVars
    <2>17. CASE RollbackSet(t)
      BY <2>17, StillAtFile DEF RollbackSet, TypeOK, SqlInv, GoTo, lockVars,
         sqlVars, queueVars, loopVars, fileVars
    <2>18. CASE LastUnlock(t)
      BY <2>18, BatchReturns DEF LastUnlock, WriteUnlock, TypeOK, SqlInv,
         sqlVars, loopVars, fileVars
    <2> QED
      BY <1>3, <2>1, <2>2, <2>3, <2>4, <2>5, <2>6, <2>7, <2>8, <2>9, <2>10,
         <2>11, <2>12, <2>13, <2>14, <2>15, <2>16, <2>17, <2>18
         DEF SaveCachedFiles
  <1>4. CASE UNCHANGED vars
    BY <1>4 DEF TypeOK, SqlInv, AtFile, FlushedFirst, HasFile, Batch, vars,
       dbVars, queueVars, loopVars, fileVars
  <1> QED
    BY <1>1, <1>2, <1>3, <1>4 DEF Next, Step

(* Every variable keeps its type, whatever statement fails. *)
THEOREM TypeCorrect == Spec => []TypeOK
  <1>1. TypeInv => TypeOK
    BY DEF TypeInv
  <1> QED
    BY <1>1, TypeInit, TypeStep, PTL DEF Spec

-----------------------------------------------------------------------------
(***************************************************************************)
(* Mutual exclusion, if a BEGIN may fail and an INSERT may be rejected     *)
(* (the transaction stays open), but no COMMIT fails at all and no INSERT  *)
(* makes SQLite roll back.  A COMMIT that fails is not harmless even if it *)
(* leaves the transaction open: the mutex is unlocked twice after it, and  *)
(* exclusion is lost (the run persistor_exclusion).                        *)
(***************************************************************************)
MildFaults == Faults \subseteq {"begin", "reject"}

(* The threads between beginSave's lock and the matching unlock. *)
InSave(t) == pc[t] \notin {"idle", "lock"}

Opened == {"insert", "rowid", "meta", "commit", "commitSql"}

(***************************************************************************)
(* What ties the lock to the program counters: the mutex is held exactly   *)
(* by the one thread inside a save; its location says what m_inTransaction *)
(* and SQLite's own transaction are; and the error paths that assume an    *)
(* open transaction or a lost mutex are not reached.                       *)
(***************************************************************************)
ExclusionInv ==
  /\ holders = {t \in Threads : InSave(t)}
  /\ \A s, t \in holders : s = t
  /\ writeLock = (holders # {})
  /\ holders = {} => ~inTransaction /\ ~sqlTxn
  /\ \A t \in holders :
       /\ pc[t] \notin {"failedUnlock", "rollbackSql", "rollbackSet"}
       /\ inTransaction <=> pc[t] \in Opened \cup {"commitSet"}
       /\ sqlTxn <=> pc[t] \in Opened \cup {"beginSet"}

(* Where a file's rowid comes from, and that it is the right one. *)
LinkInv ==
  /\ RowsLinked
  /\ \A t \in Threads :
       LET linked(id) == /\ id \in DOMAIN rows["files"]
                         /\ rows["files"][id].file = CurrentFile(t)
       IN /\ pc[t] = "rowid" => linked(lastRowid)
          /\ pc[t] = "meta" => linked(mId[CurrentFile(t)])

(* Before the first step nobody is in a save. *)
LEMMA ExclusionInit == Init => ExclusionInv
  BY DEF Init, DatabaseInit, ExclusionInv, InSave

(* A holder that unlocks and returns with no transaction open leaves       *)
(* nobody in a save.                                                       *)
LEMMA UnlockEndsSave ==
  ASSUME TypeInv, ExclusionInv, NEW t \in Threads, WriteUnlock(t), Return(t),
         pc[t] \in {"unlock", "lastUnlock"}, UNCHANGED <<inTransaction, sqlVars>>
  PROVE  ExclusionInv'
  <1> USE DEF ExclusionInv, InSave, Opened, TypeInv, TypeOK
  <1>1. t \in holders /\ holders = {t}
    OBVIOUS
  <1>2. holders' = {} /\ writeLock' = FALSE
    BY <1>1 DEF WriteUnlock
  <1>3. pc' = [pc EXCEPT ![t] = "idle"]
    BY DEF Return, GoTo
  <1>4. holders' = {u \in Threads : InSave(u)'}
    BY <1>1, <1>2, <1>3
  <1>5. ~inTransaction' /\ ~sqlTxn'
    BY <1>1 DEF sqlVars
  <1> QED
    BY <1>2, <1>4, <1>5

(* Under mild faults every step keeps the tie between lock, flag and        *)
(* transaction: one step of the proof for each action.                     *)
LEMMA ExclusionStep ==
  ASSUME MildFaults, TypeInv, ExclusionInv, [Next]_vars
  PROVE  ExclusionInv'
  <1> USE DEF ExclusionInv, InSave, Opened, TypeInv, TypeOK
  <1>1. ASSUME NEW w \in Workers, NEW f \in Files, SaveFile(w, f)
        PROVE  ExclusionInv'
    BY <1>1 DEF SaveFile, GoTo, dbVars
  <1>2. CASE Flush
    BY <1>2 DEF Flush, FlushedFirst, GoTo, dbVars
  <1>3. ASSUME NEW t \in Threads, SaveCachedFiles(t)
        PROVE  ExclusionInv'
    <2>1. CASE BeginSaveLock(t)
      <3>1. holders = {} /\ holders' = {t} /\ writeLock' = TRUE
        BY <2>1 DEF BeginSaveLock, WriteLock
      <3>2. pc' = [pc EXCEPT ![t] = "begin"]
        BY <2>1 DEF BeginSaveLock, GoTo
      <3>3. ~inTransaction' /\ ~sqlTxn'
        BY <2>1, <3>1 DEF BeginSaveLock, sqlVars
      <3>4. holders' = {u \in Threads : InSave(u)'}
        BY <3>1, <3>2
      <3> QED
        BY <3>1, <3>2, <3>3, <3>4
    <2>2. CASE BeginTest(t)
      BY <2>2 DEF BeginTest, dbVars, GoTo
    <2>3. CASE BeginSql(t)
      <3>1. t \in holders /\ ~inTransaction /\ ~sqlTxn
        BY <2>3 DEF BeginSql
      <3>2. UNCHANGED <<writeLock, holders, inTransaction>>
        BY <2>3 DEF BeginSql, lockVars
      <3>3. CASE BeginOk /\ GoTo(t, "beginSet")
        BY <2>3, <3>1, <3>2, <3>3 DEF BeginOk, GoTo, BeginSql
      <3>4. CASE BeginError /\ GoTo(t, "rollback")
        BY <2>3, <3>1, <3>2, <3>4 DEF BeginError, GoTo, BeginSql, sqlVars
      <3> QED
        BY <2>3, <3>3, <3>4 DEF BeginSql
    <2>4. CASE BeginSet(t)
      BY <2>4 DEF BeginSet, lockVars, sqlVars, GoTo
    <2>5. CASE InsertFile(t)
      BY <2>5 DEF InsertFile, lockVars, sqlVars, InsertOk, InsertError,
         NextFile, MildFaults, GoTo
    <2>6. CASE ReadRowId(t)
      BY <2>6 DEF ReadRowId, dbVars, GoTo
    <2>7. CASE SaveMetadata(t)
      BY <2>7 DEF SaveMetadata, lockVars, sqlVars, InsertOk, InsertError,
         NextFile, MildFaults, GoTo
    <2>8. CASE DeleteFile(t)
      BY <2>8 DEF DeleteFile, dbVars, NextFile, GoTo
    <2>9. CASE EndLoop(t)
      BY <2>9 DEF EndLoop, dbVars, GoTo
    <2>10. CASE CommitTest(t)
      BY <2>10 DEF CommitTest, dbVars, GoTo
    <2>11. CASE CommitSql(t)
      <3>1. t \in holders /\ sqlTxn /\ inTransaction
        BY <2>11 DEF CommitSql
      <3>2. ~CommitError
        BY <3>1 DEF CommitError, MildFaults
      <3>3. CommitOk /\ pc' = [pc EXCEPT ![t] = "commitSet"]
        BY <2>11, <3>2 DEF CommitSql, GoTo
      <3>4. UNCHANGED <<writeLock, holders, inTransaction>> /\ ~sqlTxn'
        BY <2>11, <3>3 DEF CommitSql, CommitOk, lockVars
      <3> QED
        BY <3>1, <3>3, <3>4
    <2>12. CASE CommitSet(t)
      BY <2>12 DEF CommitSet, lockVars, sqlVars, GoTo
    <2>13. CASE CommitUnlock(t)
      BY <2>13, UnlockEndsSave DEF CommitUnlock
    <2>14. CASE RollbackTest(t)
      BY <2>14 DEF RollbackTest, GoTo, dbVars
    <2>15. CASE LastUnlock(t)
      BY <2>15, UnlockEndsSave DEF LastUnlock
    <2>16. CASE FailedUnlock(t) \/ RollbackSql(t) \/ RollbackSet(t)
      BY <2>16 DEF FailedUnlock, RollbackSql, RollbackSet
    <2> QED
      BY <1>3, <2>1, <2>2, <2>3, <2>4, <2>5, <2>6, <2>7, <2>8, <2>9, <2>10,
         <2>11, <2>12, <2>13, <2>14, <2>15, <2>16
         DEF SaveCachedFiles
  <1>4. CASE UNCHANGED vars
    BY <1>4 DEF vars, dbVars
  <1> QED
    BY <1>1, <1>2, <1>3, <1>4 DEF Next, Step

(***************************************************************************)
(* If no COMMIT fails and no INSERT rolls back, the write mutex works for  *)
(* every number of threads and files: no two threads are between           *)
(* writeLock() and writeUnlock(), and the mutex is locked exactly when one *)
(* is, on the path of a BEGIN that fails, too.                             *)
(***************************************************************************)
THEOREM MutexIsExclusive ==
  ASSUME MildFaults
  PROVE  Spec => []WriteLockExclusion
  <1>1. Init => TypeInv /\ ExclusionInv
    BY TypeInit, ExclusionInit
  <1>2. TypeInv /\ ExclusionInv /\ [Next]_vars => (TypeInv /\ ExclusionInv)'
    BY TypeStep, ExclusionStep
  <1>3. ExclusionInv => WriteLockExclusion
    BY DEF ExclusionInv, WriteLockExclusion
  <1> QED
    BY <1>1, <1>2, <1>3, PTL DEF Spec

(***************************************************************************)
(* Under the same condition no batch leaves a transaction open, in SQLite  *)
(* or in m_inTransaction: the flag and SQLite agree between batches.       *)
(***************************************************************************)
THEOREM NoTransactionIsLeaked ==
  ASSUME MildFaults
  PROVE  Spec => []NoTransactionLeak
  <1>1. Init => TypeInv /\ ExclusionInv
    BY TypeInit, ExclusionInit
  <1>2. TypeInv /\ ExclusionInv /\ [Next]_vars => (TypeInv /\ ExclusionInv)'
    BY TypeStep, ExclusionStep
  <1>3. ExclusionInv => NoTransactionLeak
    BY DEF ExclusionInv, NoTransactionLeak
  <1> QED
    BY <1>1, <1>2, <1>3, PTL DEF Spec

-----------------------------------------------------------------------------
(* The rows of the metadata tables belong to the file they were read from. *)

(* Where thread t is with its file has not changed. *)
SameFile(t) == pc'[t] = pc[t] /\ CurrentFile(t)' = CurrentFile(t)

(* A step that writes no row and moves no thread to or from a rowid keeps  *)
(* every link.                                                             *)
LEMMA QuietStep ==
  ASSUME LinkInv, UNCHANGED <<rows, lastRowid, mId>>,
         \A t \in Threads : pc'[t] \in {"rowid", "meta"} => SameFile(t)
  PROVE  LinkInv'
  BY DEF LinkInv, RowsLinked, SameFile

(* Only the thread that takes a step moves its own iterator or list. *)
LEMMA OthersKeepTheirFile ==
  ASSUME TypeInv, NEW t \in Threads, SaveCachedFiles(t)
  PROVE  /\ \A u \in Threads \ {t} : SameFile(u)
         /\ pc'[t] \in {"rowid", "meta"} =>
              \/ InsertFile(t) /\ pc'[t] = "rowid" /\ CurrentFile(t)' = CurrentFile(t)
              \/ ReadRowId(t)
              \/ SaveMetadata(t) /\ SameFile(t)
  <1> USE DEF TypeInv, TypeOK, SameFile, CurrentFile, Batch, GoTo, queueVars,
              loopVars
  <1>1. CASE InsertFile(t)
    BY <1>1 DEF InsertFile, NextFile
  <1>2. CASE ReadRowId(t)
    BY <1>2 DEF ReadRowId
  <1>3. CASE SaveMetadata(t)
    BY <1>3 DEF SaveMetadata, NextFile
  <1>4. CASE DeleteFile(t)
    BY <1>4 DEF DeleteFile, NextFile
  <1>5. CASE CommitUnlock(t) \/ LastUnlock(t)
    BY <1>5 DEF CommitUnlock, LastUnlock, Return
  <1>6. CASE \/ BeginSaveLock(t) \/ BeginTest(t) \/ BeginSql(t) \/ BeginSet(t)
    BY <1>6 DEF BeginSaveLock, BeginTest, BeginSql, BeginSet
  <1>7. CASE \/ EndLoop(t) \/ CommitTest(t) \/ CommitSql(t) \/ CommitSet(t)
    BY <1>7 DEF EndLoop, CommitTest, CommitSql, CommitSet
  <1>8. CASE \/ FailedUnlock(t) \/ RollbackTest(t) \/ RollbackSql(t) \/ RollbackSet(t)
    BY <1>8 DEF FailedUnlock, RollbackTest, RollbackSql, RollbackSet
  <1> QED
    BY <1>1, <1>2, <1>3, <1>4, <1>5, <1>6, <1>7, <1>8 DEF SaveCachedFiles

(* A row appended to a table breaks no link, if it is itself linked. *)
LEMMA AppendKeepsLinks ==
  ASSUME TypeInv, RowsLinked, NEW tb \in Tables, NEW row \in Row,
         InsertOk(tb, row),
         tb = "files" \/ ( /\ row.fileId \in DOMAIN rows["files"]
                           /\ rows["files"][row.fileId].file = row.file )
  PROVE  /\ RowsLinked'
         /\ DOMAIN rows["files"] \subseteq DOMAIN rows'["files"]
         /\ \A i \in DOMAIN rows["files"] : rows'["files"][i] = rows["files"][i]
  <1>1. /\ \A x \in Tables : /\ rows[x] \in Seq(Row) /\ Len(rows[x]) \in Nat
                             /\ DOMAIN rows[x] = 1..Len(rows[x])
        /\ \A x \in Tables : /\ rows'[x] \in Seq(Row) /\ Len(rows'[x]) \in Nat
                             /\ DOMAIN rows'[x] = 1..Len(rows'[x])
    BY InsertKeepsSqlInv, LenProperties DEF TypeInv, SqlInv
  <1>2. /\ Len(rows'[tb]) = Len(rows[tb]) + 1
        /\ rows'[tb][Len(rows[tb]) + 1] = row
        /\ \A i \in 1..Len(rows[tb]) : rows'[tb][i] = rows[tb][i]
        /\ \A other \in Tables \ {tb} : rows'[other] = rows[other]
    BY InsertKeepsSqlInv DEF TypeInv
  <1>3. /\ DOMAIN rows["files"] \subseteq DOMAIN rows'["files"]
        /\ \A i \in DOMAIN rows["files"] : rows'["files"][i] = rows["files"][i]
    BY <1>1, <1>2, TablesFacts
  <1>4. ASSUME NEW x \in Tables \ {"files"}, NEW i \in DOMAIN rows'[x]
        PROVE  /\ rows'[x][i].fileId \in DOMAIN rows'["files"]
               /\ rows'["files"][rows'[x][i].fileId].file = rows'[x][i].file
    <2>1. CASE i \in DOMAIN rows[x]
      <3>1. rows'[x][i] = rows[x][i]
        BY <1>1, <1>2, <2>1
      <3>2. /\ rows[x][i].fileId \in DOMAIN rows["files"]
            /\ rows["files"][rows[x][i].fileId].file = rows[x][i].file
        BY <2>1 DEF RowsLinked
      <3> QED
        BY <1>3, <3>1, <3>2
    <2>2. CASE i \notin DOMAIN rows[x]
      <3>1. x = tb /\ i = Len(rows[tb]) + 1
        BY <1>1, <1>2, <1>4, <2>2
      <3>2. rows'[x][i] = row
        BY <1>2, <3>1
      <3> QED
        BY <1>3, <3>1, <3>2
    <2> QED
      BY <2>1, <2>2
  <1> QED
    BY <1>3, <1>4 DEF RowsLinked

(* Under mild faults only a successful INSERT changes rows or the rowid. *)
LEMMA RowsChangeByInsert ==
  ASSUME MildFaults, TypeInv, ExclusionInv, NEW t \in Threads,
         SaveCachedFiles(t), ~InsertFile(t), ~SaveMetadata(t)
  PROVE  UNCHANGED <<rows, lastRowid>>
  <1> USE DEF sqlVars, dbVars
  <1>1. CASE BeginSql(t)
    BY <1>1 DEF BeginSql, BeginOk, BeginError
  <1>2. CASE CommitSql(t)
    BY <1>2 DEF CommitSql, CommitOk, CommitError, DiscardPending, MildFaults,
       TypeInv, TypeOK
  <1>3. CASE RollbackSql(t)
    BY <1>3 DEF RollbackSql, ExclusionInv, InSave
  <1>4. CASE \/ BeginSaveLock(t) \/ BeginTest(t) \/ BeginSet(t) \/ ReadRowId(t)
             \/ DeleteFile(t) \/ EndLoop(t) \/ CommitTest(t) \/ CommitSet(t)
    BY <1>4 DEF BeginSaveLock, BeginTest, BeginSet, ReadRowId, DeleteFile,
       EndLoop, CommitTest, CommitSet
  <1>5. CASE \/ CommitUnlock(t) \/ FailedUnlock(t) \/ RollbackTest(t)
             \/ RollbackSet(t) \/ LastUnlock(t)
    BY <1>5 DEF CommitUnlock, FailedUnlock, RollbackTest, RollbackSet, LastUnlock
  <1> QED
    BY <1>1, <1>2, <1>3, <1>4, <1>5 DEF SaveCachedFiles

(* Under mild faults every step keeps the links: the INSERTs add linked    *)
(* rows, because the mutex keeps others from inserting in between.         *)
LEMMA LinkStep ==
  ASSUME MildFaults, TypeInv, ExclusionInv, LinkInv, [Next]_vars
  PROVE  LinkInv'
  <1>1. ASSUME NEW w \in Workers, NEW f \in Files, SaveFile(w, f)
        PROVE  LinkInv'
    <2>1. UNCHANGED <<rows, lastRowid, mId>>
      BY <1>1 DEF SaveFile, dbVars
    <2>2. ASSUME NEW t \in Threads, pc'[t] \in {"rowid", "meta"}
          PROVE  SameFile(t)
      <3>1. t # w /\ pc'[t] = pc[t] /\ pos'[t] = pos[t]
        BY <1>1, <2>2 DEF SaveFile, GoTo, TypeInv, TypeOK
      <3>2. t # Flusher
        BY <1>1, <2>2, <3>1 DEF SaveFile, TypeInv, FlushedFirst
      <3>3. filesToSave'[t] = filesToSave[t]
        <4>1. t \in Workers /\ filesToSave \in [Workers -> Seq(Files)]
          BY <3>2 DEF TypeInv, TypeOK
        <4>2. UNCHANGED filesToSave
              \/ filesToSave' = [filesToSave EXCEPT ![w] = Append(queuedFiles, f)]
          BY <1>1 DEF SaveFile
        <4> QED
          BY <3>1, <4>1, <4>2
      <3> QED
        BY <3>1, <3>2, <3>3 DEF SameFile, CurrentFile, Batch
    <2> QED
      BY <2>1, <2>2, QuietStep
  <1>2. CASE Flush
    <2>1. UNCHANGED <<rows, lastRowid, mId>>
      BY <1>2 DEF Flush, dbVars, fileVars
    <2>2. \A t \in Threads : pc'[t] \in {"rowid", "meta"} => SameFile(t)
      BY <1>2 DEF Flush, GoTo, SameFile, CurrentFile, Batch, loopVars, TypeInv,
         TypeOK
    <2> QED
      BY <2>1, <2>2, QuietStep
  <1>3. ASSUME NEW t \in Threads, SaveCachedFiles(t)
        PROVE  LinkInv'
    <2>1. \A u \in Threads \ {t} : SameFile(u)
      BY <1>3, OthersKeepTheirFile
    <2>2. ASSUME InSave(t)
          PROVE  \A u \in Threads \ {t} : pc[u] \notin {"rowid", "meta"}
      BY <2>2 DEF ExclusionInv, InSave
    <2>3. CASE InsertFile(t)
      <3>1. HasFile(t) /\ CurrentFile(t) \in Files /\ InSave(t)
        BY <2>3, CurrentFileType DEF InsertFile, TypeInv, InSave
      <3> DEFINE row == [file |-> CurrentFile(t), fileId |-> 0]
      <3>2. row \in Row
        BY <3>1 DEF Row
      <3>3. CASE InsertError /\ NextFile(t)
        <4>1. UNCHANGED <<rows, lastRowid, mId>>
          BY <2>3, <3>3 DEF InsertError, InsertFile, MildFaults, sqlVars, fileVars
        <4>2. pc'[t] = "insert"
          BY <3>3 DEF NextFile, GoTo, TypeInv, TypeOK
        <4> QED
          BY <2>1, <4>1, <4>2, QuietStep
      <3>4. CASE InsertOk("files", row) /\ GoTo(t, "rowid") /\ UNCHANGED pos
        <4>1. RowsLinked'
          BY <3>2, <3>4, AppendKeepsLinks, TablesFacts DEF LinkInv
        <4>2. CurrentFile(t)' = CurrentFile(t) /\ pc'[t] = "rowid"
          BY <2>3, <3>4 DEF InsertFile, CurrentFile, Batch, queueVars, GoTo,
             TypeInv, TypeOK
        <4>3. /\ lastRowid' \in DOMAIN rows'["files"]
              /\ rows'["files"][lastRowid'].file = CurrentFile(t)
          <5>1. /\ Len(rows'["files"]) = Len(rows["files"]) + 1
                /\ rows'["files"][Len(rows["files"]) + 1] = row
                /\ rows'["files"] \in Seq(Row) /\ rows["files"] \in Seq(Row)
            BY <3>2, <3>4, InsertKeepsSqlInv, TablesFacts DEF TypeInv, SqlInv
          <5>2. lastRowid' = Len(rows["files"]) + 1
            BY <3>4 DEF InsertOk
          <5> QED
            BY <5>1, <5>2, LenProperties
        <4>4. \A u \in Threads \ {t} : pc'[u] \notin {"rowid", "meta"}
          BY <2>1, <2>2, <3>1 DEF SameFile
        <4> QED
          BY <4>1, <4>2, <4>3, <4>4 DEF LinkInv
      <3> QED
        BY <2>3, <3>3, <3>4 DEF InsertFile
    <2>4. CASE ReadRowId(t)
      <3>1. UNCHANGED <<rows, lastRowid>> /\ InSave(t) /\ HasFile(t)
        BY <2>4 DEF ReadRowId, dbVars, InSave, TypeInv, AtFile
      <3>2. CurrentFile(t) \in Files /\ CurrentFile(t)' = CurrentFile(t)
        <4>1. CurrentFile(t) \in Files
          BY <3>1, CurrentFileType DEF TypeInv
        <4> QED
          BY <2>4, <4>1 DEF ReadRowId, CurrentFile, Batch, queueVars
      <3>3. pc'[t] = "meta" /\ mId'[CurrentFile(t)] = lastRowid
        <4>1. pc \in [Threads -> Locations] /\ mId \in [Files -> Nat]
          BY DEF TypeInv, TypeOK
        <4> QED
          BY <2>4, <3>2, <4>1 DEF ReadRowId, GoTo
      <3>4. \A u \in Threads \ {t} : pc'[u] \notin {"rowid", "meta"}
        BY <2>1, <2>2, <3>1 DEF SameFile
      <3>5. /\ lastRowid \in DOMAIN rows["files"]
            /\ rows["files"][lastRowid].file = CurrentFile(t)
        BY <2>4 DEF LinkInv, ReadRowId
      <3>6. RowsLinked'
        BY <3>1 DEF LinkInv, RowsLinked
      <3> QED
        BY <3>1, <3>2, <3>3, <3>4, <3>5, <3>6 DEF LinkInv
    <2>5. CASE SaveMetadata(t)
      <3>1. HasFile(t) /\ CurrentFile(t) \in Files /\ InSave(t)
        BY <2>5, CurrentFileType DEF SaveMetadata, TypeInv, AtFile, InSave
      <3> DEFINE id == mId[CurrentFile(t)]
                 row == [file |-> CurrentFile(t), fileId |-> id]
                 tb == MetaTables[col[t]]
      <3>2. row \in Row
        BY <3>1 DEF Row, TypeInv, TypeOK
      <3>3. id \in DOMAIN rows["files"] /\ rows["files"][id].file = CurrentFile(t)
        BY <2>5 DEF SaveMetadata, LinkInv
      <3>4. mId' = mId /\ pc[t] = "meta"
        BY <2>5 DEF SaveMetadata, fileVars
      <3>5. \A u \in Threads \ {t} : pc'[u] \notin {"rowid", "meta"}
        BY <2>1, <2>2, <3>1 DEF SameFile
      <3>6. pc'[t] \in {"rowid", "meta"} => SameFile(t) /\ pc[t] = "meta"
        BY <1>3, <2>5, <3>4, OthersKeepTheirFile DEF InsertFile, ReadRowId
      <3>7. CASE UNCHANGED <<rows, lastRowid>>
        BY <3>4, <3>5, <3>6, <3>7, QuietStep
      <3>8. CASE InsertOk(tb, row)
        <4>1. tb \in Tables
          BY <2>5, TablesFacts DEF SaveMetadata, TypeInv, TypeOK
        <4>2. /\ RowsLinked'
              /\ DOMAIN rows["files"] \subseteq DOMAIN rows'["files"]
              /\ \A i \in DOMAIN rows["files"] : rows'["files"][i] = rows["files"][i]
          BY <3>2, <3>3, <3>8, <4>1, AppendKeepsLinks DEF LinkInv
        <4> HIDE DEF row, tb
        <4> QED
          BY <3>3, <3>4, <3>5, <3>6, <4>2 DEF LinkInv, SameFile
      <3> QED
        BY <2>5, <3>7, <3>8 DEF SaveMetadata, InsertError, MildFaults, sqlVars
    <2>6. CASE ~InsertFile(t) /\ ~ReadRowId(t) /\ ~SaveMetadata(t)
      <3>1. UNCHANGED <<rows, lastRowid>>
        BY <1>3, <2>6, RowsChangeByInsert
      <3>2. mId' = mId
        BY <1>3, <2>6 DEF SaveCachedFiles, BeginSaveLock, BeginTest, BeginSql,
           BeginSet, DeleteFile, EndLoop, CommitTest, CommitSql, CommitSet,
           CommitUnlock, FailedUnlock, RollbackTest, RollbackSql, RollbackSet,
           LastUnlock, fileVars
      <3>3. pc'[t] \notin {"rowid", "meta"}
        BY <1>3, <2>6, OthersKeepTheirFile
      <3> QED
        BY <2>1, <3>1, <3>2, <3>3, QuietStep
    <2> QED
      BY <2>3, <2>4, <2>5, <2>6
  <1>4. CASE UNCHANGED vars
    <2>1. /\ UNCHANGED <<rows, lastRowid, mId>>
          /\ \A t \in Threads : SameFile(t)
      BY <1>4 DEF vars, dbVars, queueVars, loopVars, fileVars, SameFile,
         CurrentFile, Batch
    <2> QED
      BY <2>1, QuietStep
  <1> QED
    BY <1>1, <1>2, <1>3, <1>4 DEF Next, Step

(***************************************************************************)
(* Under the same condition the rowid that a second call on the shared     *)
(* connection returns is always that of the file just inserted: every      *)
(* metadata row refers to the files row of the file it was read from.      *)
(***************************************************************************)
THEOREM MetadataIsLinked ==
  ASSUME MildFaults
  PROVE  Spec => []RowsLinked
  <1> DEFINE IInv == TypeInv /\ ExclusionInv /\ LinkInv
  <1>1. Init => IInv
    <2>1. Init => RowsLinked
      <3>1. DOMAIN << >> = {}
        BY EmptySeq
      <3> QED
        BY <3>1 DEF Init, DatabaseInit, RowsLinked
    <2> QED
      BY <2>1, TypeInit, ExclusionInit DEF Init, LinkInv
  <1>2. IInv /\ [Next]_vars => IInv'
    BY TypeStep, ExclusionStep, LinkStep
  <1>3. IInv => RowsLinked
    BY DEF LinkInv
  <1> QED
    BY <1>1, <1>2, <1>3, PTL DEF Spec

-----------------------------------------------------------------------------
(***************************************************************************)
(* Which list a File object is in, whatever statement fails.               *)
(***************************************************************************)

(* The entries of the list of t, by position.                              *)
Entries(t) == 1..Len(Batch(t))

(* The files of t's list whose row t may still insert. *)
ToInsert(t, i) ==
  /\ i \in Entries(t) /\ i >= pos[t]
  /\ ~(i = pos[t] /\ pc[t] \in {"rowid", "meta"})

(* The file has a row in table files, committed or not. *)
HasRow(f) == \E k \in 1..Len(rows["files"]) : rows["files"][k].file = f

(***************************************************************************)
(* Every File object is at one position of one list, the shared queue or   *)
(* the list of one worker; those at or behind an iterator are live.  The   *)
(* queue is iterated over only by flush(), when all workers have returned, *)
(* and a worker that returned has no list.                                 *)
(***************************************************************************)
OwnInv ==
  /\ \A t \in Threads : \A i \in Entries(t) :
       /\ heap[Batch(t)[i]] # "none"
       /\ i >= pos[t] => heap[Batch(t)[i]] = "live"
  /\ \A s, t \in Threads : \A i \in Entries(s), j \in Entries(t) :
       Batch(s)[i] = Batch(t)[j] => s = t /\ i = j
  /\ \A w \in Workers : IF pc[w] = "idle" THEN filesToSave[w] = << >>
                        ELSE ~flushed /\ filesToSave[w] # << >>
  /\ ~flushed => pos[Flusher] = 1
  /\ pc[Flusher] # "idle" => queuedFiles # << >>

(* No file is inserted twice: neither a file that does not exist yet nor   *)
(* one that is still to be inserted has a row.                             *)
RowInv ==
  /\ SavedOnce
  /\ \A f \in Files : heap[f] = "none" => ~HasRow(f)
  /\ \A t \in Threads : \A i \in Entries(t) :
       ToInsert(t, i) => ~HasRow(Batch(t)[i])

(* Before the first step there is no list and no row.                      *)
LEMMA OwnInit == Init => OwnInv /\ RowInv
  <1> SUFFICES ASSUME Init
               PROVE  OwnInv /\ RowInv
    OBVIOUS
  <1>1. \A t \in Threads : Batch(t) = << >> /\ Entries(t) = {}
    BY DEF Init, Batch, Entries
  <1>2. rows["files"] = << >>
    BY TablesFacts DEF Init, DatabaseInit
  <1>3. OwnInv
    BY <1>1 DEF Init, OwnInv
  <1>4. DOMAIN rows["files"] = {} /\ \A f \in Files : ~HasRow(f)
    BY <1>2 DEF HasRow
  <1> QED
    BY <1>1, <1>3, <1>4 DEF RowInv, SavedOnce

(***************************************************************************)
(* What a step of saveCachedFiles changes outside the database: only its   *)
(* own iterator and list, and the File object it deletes, which is the one *)
(* its iterator leaves behind.                                             *)
(***************************************************************************)
Stays(t) == /\ UNCHANGED <<filesToSave, pos, heap>> /\ pc'[t] # "idle"
            /\ pc'[t] \in {"rowid", "meta"} <=> \/ pc[t] \in {"rowid", "meta"}
                                               \/ InsertFile(t)

Advances(t) == /\ UNCHANGED filesToSave /\ NextFile(t)
               /\ \/ heap' = heap
                  \/ heap' = [heap EXCEPT ![CurrentFile(t)] = "freed"] /\ HasFile(t)

Returns(t) == UNCHANGED <<pos, heap>> /\ Return(t) /\ pc[t] \notin {"rowid", "meta"}

(* A step of saveCachedFiles leaves the queue and the other threads alone. *)
LEMMA StepFrame ==
  ASSUME TypeInv, NEW t \in Threads, SaveCachedFiles(t)
  PROVE  /\ UNCHANGED <<queuedFiles, flushed>> /\ pc[t] # "idle"
         /\ \A u \in Threads \ {t} : pc'[u] = pc[u]
         /\ Stays(t) \/ Advances(t) \/ Returns(t)
  <1> USE DEF TypeInv, TypeOK, Stays, Advances, Returns, GoTo, queueVars,
              loopVars, fileVars
  <1>1. CASE InsertFile(t)
    BY <1>1 DEF InsertFile, NextFile
  <1>2. CASE ReadRowId(t)
    BY <1>2 DEF ReadRowId, InsertFile
  <1>3. CASE SaveMetadata(t)
    BY <1>3 DEF SaveMetadata, NextFile, InsertFile
  <1>4. CASE DeleteFile(t)
    BY <1>4 DEF DeleteFile, NextFile, AtFile
  <1>5. CASE CommitUnlock(t) \/ LastUnlock(t)
    BY <1>5 DEF CommitUnlock, LastUnlock, Return
  <1>6. CASE \/ BeginSaveLock(t) \/ BeginTest(t) \/ BeginSql(t) \/ BeginSet(t)
    BY <1>6 DEF BeginSaveLock, BeginTest, BeginSql, BeginSet, InsertFile
  <1>7. CASE \/ EndLoop(t) \/ CommitTest(t) \/ CommitSql(t) \/ CommitSet(t)
    BY <1>7 DEF EndLoop, CommitTest, CommitSql, CommitSet, InsertFile
  <1>8. CASE \/ FailedUnlock(t) \/ RollbackTest(t) \/ RollbackSql(t) \/ RollbackSet(t)
    BY <1>8 DEF FailedUnlock, RollbackTest, RollbackSql, RollbackSet, InsertFile
  <1> QED
    BY <1>1, <1>2, <1>3, <1>4, <1>5, <1>6, <1>7, <1>8 DEF SaveCachedFiles

(* The lengths that the positions in the lists are compared with. *)
LEMMA BatchFacts ==
  ASSUME TypeInv
  PROVE  /\ \A t \in Threads : /\ Batch(t) \in Seq(Files)
                               /\ Len(Batch(t)) \in Nat
                               /\ pos[t] \in Nat \ {0}
                               /\ \A i \in Entries(t) : Batch(t)[i] \in Files
         /\ \A w \in Workers : w # Flusher /\ Batch(w) = filesToSave[w]
         /\ Batch(Flusher) = queuedFiles
  <1>1. ASSUME NEW t \in Threads
        PROVE  /\ Batch(t) \in Seq(Files)
               /\ Len(Batch(t)) \in Nat
               /\ pos[t] \in Nat \ {0}
               /\ \A i \in Entries(t) : Batch(t)[i] \in Files
    <2>1. Batch(t) \in Seq(Files)
      BY CurrentFileType DEF TypeInv
    <2> QED
      BY <2>1, LenProperties, ElementOfSeq DEF Entries, TypeInv, TypeOK
  <1> QED
    BY <1>1, ThreadsAssumption DEF Batch

(* saveFile puts the new file at the end of the queue, or of the list that *)
(* the queue becomes; it is in no other list, since it did not exist.      *)
LEMMA SaveFileOwns ==
  ASSUME TypeInv, OwnInv, NEW w \in Workers, NEW f \in Files, SaveFile(w, f)
  PROVE  /\ OwnInv'
         /\ \A t \in Threads : \A i \in Entries(t)' :
              ToInsert(t, i)' =>
                \/ Batch(t)'[i] = f
                \/ \E s \in Threads : \E j \in Entries(s) :
                     ToInsert(s, j) /\ Batch(t)'[i] = Batch(s)[j]
  <1> DEFINE queue == Append(queuedFiles, f)
  <1>1. /\ queue \in Seq(Files) /\ Len(queue) = Len(queuedFiles) + 1
        /\ Len(queuedFiles) \in Nat
        /\ \A i \in 1..Len(queuedFiles) : queue[i] = queuedFiles[i]
        /\ queue[Len(queuedFiles) + 1] = f
    BY LenProperties DEF TypeInv, TypeOK
  <1>2. /\ ~flushed /\ pc[w] = "idle" /\ heap[f] = "none"
        /\ heap' = [heap EXCEPT ![f] = "live"] /\ flushed' = flushed
        /\ \/ /\ queuedFiles' = queue
              /\ UNCHANGED <<filesToSave, pc, pos>>
           \/ /\ queuedFiles' = << >>
              /\ filesToSave' = [filesToSave EXCEPT ![w] = queue]
              /\ pos' = [pos EXCEPT ![w] = 1]
              /\ pc' = [pc EXCEPT ![w] = "lock"]
    BY DEF SaveFile, GoTo
  <1> HIDE DEF queue
  <1>3. pos[Flusher] = 1 /\ pc[Flusher] = "idle" /\ filesToSave[w] = << >>
    BY <1>2 DEF OwnInv, TypeInv, FlushedFirst
  <1>4. /\ \A t \in Threads : \A i \in Entries(t) : /\ Batch(t)[i] \in Files
                                                    /\ Batch(t)[i] # f
        /\ \A g \in Files : g # f => heap'[g] = heap[g]
        /\ heap'[f] = "live"
    BY <1>2, BatchFacts DEF OwnInv, TypeInv, TypeOK
  <1>5. /\ \A i, j \in 1..Len(queue) : queue[i] = queue[j] => i = j
        /\ \A i \in 1..Len(queue) : heap'[queue[i]] = "live"
        /\ \A i \in 1..Len(queue) : \A u \in Workers : \A j \in Entries(u) :
             queue[i] # Batch(u)[j]
        /\ \A i \in 1..Len(queue) :
             \/ queue[i] = f
             \/ i \in Entries(Flusher) /\ ToInsert(Flusher, i) /\ queue[i] = Batch(Flusher)[i]
    <2>1. /\ Batch(Flusher) = queuedFiles /\ Entries(Flusher) = 1..Len(queuedFiles)
          /\ \A u \in Workers : u # Flusher
          /\ Flusher \in Threads
      BY BatchFacts DEF Entries
    <2>2. \A i \in Entries(Flusher) : /\ queue[i] = Batch(Flusher)[i]
                                      /\ queue[i] # f /\ queue[i] \in Files
                                      /\ heap[queue[i]] = "live" /\ i >= 1
                                      /\ ToInsert(Flusher, i)
      BY <1>1, <1>3, <1>4, <2>1 DEF OwnInv, ToInsert
    <2>3. \A i \in 1..Len(queue) : i \in Entries(Flusher) \/ i = Len(queuedFiles) + 1
      BY <1>1, <2>1
    <2>4. \A i \in 1..Len(queue) :
            \/ queue[i] = f
            \/ i \in Entries(Flusher) /\ ToInsert(Flusher, i) /\ queue[i] = Batch(Flusher)[i]
      BY <1>1, <2>2, <2>3
    <2>5. \A i \in 1..Len(queue) : heap'[queue[i]] = "live"
      BY <1>1, <1>4, <2>2, <2>3
    <2>6. \A i, j \in 1..Len(queue) : queue[i] = queue[j] => i = j
      BY <1>1, <2>1, <2>2, <2>3 DEF OwnInv
    <2>7. \A i \in 1..Len(queue) : \A u \in Workers : \A j \in Entries(u) :
            queue[i] # Batch(u)[j]
      BY <1>1, <1>4, <2>1, <2>2, <2>3 DEF OwnInv
    <2> QED
      BY <2>4, <2>5, <2>6, <2>7
  <1>6. ASSUME NEW u \in Workers, Batch(u)' = Batch(u), pos'[u] = pos[u],
               NEW i \in Entries(u)
        PROVE  /\ heap'[Batch(u)[i]] # "none"
               /\ i >= pos'[u] => heap'[Batch(u)[i]] = "live"
    BY <1>4, <1>6 DEF OwnInv
  <1>7. CASE queuedFiles' = queue /\ UNCHANGED <<filesToSave, pc, pos>>
    <2>1. /\ Batch(Flusher)' = queue /\ Entries(Flusher)' = 1..Len(queue)
          /\ \A u \in Workers : Batch(u)' = Batch(u) /\ Entries(u)' = Entries(u)
      BY <1>7, BatchFacts DEF Batch, Entries
    <2>2. OwnInv'
      <3>1. \A t \in Threads : \A i \in Entries(t)' :
              /\ heap'[Batch(t)'[i]] # "none"
              /\ i >= pos'[t] => heap'[Batch(t)'[i]] = "live"
        BY <1>5, <1>6, <1>7, <2>1
      <3>2. \A s, t \in Threads : \A i \in Entries(s)', j \in Entries(t)' :
              Batch(s)'[i] = Batch(t)'[j] => s = t /\ i = j
        BY <1>5, <2>1 DEF OwnInv
      <3> QED
        BY <1>2, <1>3, <1>7, <3>1, <3>2 DEF OwnInv
    <2>3. \A u \in Workers : \A i \in Entries(u) : ToInsert(u, i)' => ToInsert(u, i)
      BY <1>7, <2>1 DEF ToInsert
    <2> QED
      BY <1>5, <2>1, <2>2, <2>3
  <1>8. CASE /\ queuedFiles' = << >>
             /\ filesToSave' = [filesToSave EXCEPT ![w] = queue]
             /\ pos' = [pos EXCEPT ![w] = 1]
             /\ pc' = [pc EXCEPT ![w] = "lock"]
    <2>1. /\ filesToSave'[w] = queue /\ pos'[w] = 1 /\ pc'[w] = "lock"
          /\ \A u \in Workers \ {w} : filesToSave'[u] = filesToSave[u]
          /\ \A u \in Threads \ {w} : pos'[u] = pos[u] /\ pc'[u] = pc[u]
      BY <1>8 DEF TypeInv, TypeOK
    <2>2. /\ Batch(w)' = queue /\ Entries(w)' = 1..Len(queue)
          /\ Batch(Flusher)' = << >> /\ Entries(Flusher)' = {}
          /\ \A u \in Workers \ {w} : Batch(u)' = Batch(u) /\ Entries(u)' = Entries(u)
      BY <1>8, <2>1, BatchFacts DEF Batch, Entries
    <2>3. OwnInv'
      <3>1. \A t \in Threads : \A i \in Entries(t)' :
              /\ heap'[Batch(t)'[i]] # "none"
              /\ i >= pos'[t] => heap'[Batch(t)'[i]] = "live"
        BY <1>5, <1>6, <2>1, <2>2
      <3>2. \A s, t \in Threads : \A i \in Entries(s)', j \in Entries(t)' :
              Batch(s)'[i] = Batch(t)'[j] => s = t /\ i = j
        BY <1>5, <2>2 DEF OwnInv
      <3>3. queue # << >>
        BY <1>1
      <3>4. \A u \in Workers : IF pc'[u] = "idle" THEN filesToSave'[u] = << >>
                               ELSE ~flushed' /\ filesToSave'[u] # << >>
        BY <1>2, <2>1, <3>3 DEF OwnInv
      <3>5. pos'[Flusher] = 1 /\ pc'[Flusher] = "idle"
        BY <1>3, <2>1, BatchFacts
      <3> QED
        BY <3>1, <3>2, <3>4, <3>5 DEF OwnInv
    <2>4. \A u \in Workers \ {w} : \A i \in Entries(u) : ToInsert(u, i)' => ToInsert(u, i)
      BY <2>1, <2>2 DEF ToInsert
    <2> QED
      BY <1>5, <2>2, <2>3, <2>4
  <1> QED
    BY <1>2, <1>7, <1>8

(* A step of saveCachedFiles keeps every other list and iterator, and its  *)
(* own list unless it gives it up.                                         *)
LEMMA ListFrame ==
  ASSUME TypeInv, OwnInv, NEW t \in Threads, SaveCachedFiles(t)
  PROVE  /\ \A u \in Threads \ {t} : /\ Batch(u)' = Batch(u)
                                     /\ Entries(u)' = Entries(u)
                                     /\ pos'[u] = pos[u] /\ pc'[u] = pc[u]
         /\ ~Returns(t) => Batch(t)' = Batch(t) /\ Entries(t)' = Entries(t)
         /\ Returns(t) => \/ Batch(t)' = Batch(t) /\ Entries(t)' = Entries(t)
                          \/ t # Flusher /\ Batch(t)' = << >> /\ Entries(t)' = {}
         /\ pos'[t] = IF Advances(t) THEN pos[t] + 1 ELSE pos[t]
  <1>1. /\ pos \in [Threads -> Nat \ {0}] /\ pc \in [Threads -> Locations]
        /\ filesToSave \in [Workers -> Seq(Files)]
    BY DEF TypeInv, TypeOK
  <1>2. Advances(t) => /\ UNCHANGED filesToSave /\ pos'[t] = pos[t] + 1
                       /\ \A u \in Threads \ {t} : pos'[u] = pos[u]
    BY <1>1 DEF Advances, NextFile
  <1>3. /\ Stays(t) => UNCHANGED <<filesToSave, pos>>
        /\ Returns(t) => /\ UNCHANGED pos
                         /\ \A u \in Workers \ {t} : filesToSave'[u] = filesToSave[u]
                         /\ IF t = Flusher THEN UNCHANGED filesToSave
                            ELSE filesToSave'[t] = << >>
    BY <1>1 DEF Stays, Returns, Return
  <1>4. UNCHANGED queuedFiles /\ \A u \in Threads \ {t} : pc'[u] = pc[u]
    BY StepFrame
  <1> QED
    BY <1>2, <1>3, <1>4, StepFrame DEF Batch, Entries

(* Every step keeps the lists apart and their files allocated.             *)
LEMMA OwnStep ==
  ASSUME TypeInv, OwnInv, [Next]_vars
  PROVE  OwnInv'
  <1>1. ASSUME NEW w \in Workers, NEW f \in Files, SaveFile(w, f)
        PROVE  OwnInv'
    BY <1>1, SaveFileOwns
  <1>2. CASE Flush
    <2>1. /\ UNCHANGED <<queuedFiles, filesToSave, pos, heap>>
          /\ ~flushed /\ flushed' /\ \A w \in Workers : pc[w] = "idle"
          /\ \/ pc' = pc
             \/ Len(queuedFiles) > 0 /\ pc' = [pc EXCEPT ![Flusher] = "lock"]
      BY <1>2 DEF Flush, loopVars, fileVars, GoTo
    <2>2. \A t \in Threads : Batch(t)' = Batch(t) /\ Entries(t)' = Entries(t)
      BY <2>1 DEF Batch, Entries
    <2>3. \A w \in Workers : w # Flusher /\ pc'[w] = "idle" /\ filesToSave[w] = << >>
      BY <2>1, ThreadsAssumption DEF OwnInv, TypeInv, TypeOK
    <2>4. pc'[Flusher] # "idle" => queuedFiles # << >>
      <3>1. Len(<< >>) = 0
        BY EmptySeq
      <3> QED
        BY <2>1, <3>1 DEF TypeInv, FlushedFirst
    <2> QED
      BY <2>1, <2>2, <2>3, <2>4 DEF OwnInv
  <1>3. ASSUME NEW t \in Threads, SaveCachedFiles(t)
        PROVE  OwnInv'
    <2>1. /\ UNCHANGED <<queuedFiles, flushed>> /\ pc[t] # "idle"
          /\ Stays(t) \/ Advances(t) \/ Returns(t)
      BY <1>3, StepFrame
    <2>2. \A u \in Threads : \A i \in Entries(u)' :
             i \in Entries(u) /\ Batch(u)'[i] = Batch(u)[i]
      BY <1>3, ListFrame
    <2>3. \A s, u \in Threads : \A i \in Entries(s)', j \in Entries(u)' :
            Batch(s)'[i] = Batch(u)'[j] => s = u /\ i = j
      BY <2>2 DEF OwnInv
    <2>4. ASSUME NEW u \in Threads, NEW i \in Entries(u)'
          PROVE  /\ heap'[Batch(u)'[i]] # "none"
                 /\ i >= pos'[u] => heap'[Batch(u)'[i]] = "live"
      <3>1. /\ i \in Entries(u) /\ i \in Nat /\ Batch(u)'[i] = Batch(u)[i]
            /\ Batch(u)[i] \in Files
            /\ pos[t] \in Nat /\ pos[u] \in Nat
        BY <2>2, <2>4, BatchFacts DEF Entries
      <3>2. /\ heap[Batch(u)[i]] # "none"
            /\ i >= pos[u] => heap[Batch(u)[i]] = "live"
        BY <3>1 DEF OwnInv
      <3>3. CASE heap' = heap
        <4>1. pos'[u] >= pos[u]
          BY <1>3, <3>1, ListFrame
        <4> QED
          BY <1>3, <3>1, <3>2, <3>3, <4>1, ListFrame
      <3>4. CASE heap' = [heap EXCEPT ![CurrentFile(t)] = "freed"] /\ HasFile(t)
                 /\ Advances(t)
        <4>1. pos[t] \in Entries(t) /\ CurrentFile(t) = Batch(t)[pos[t]]
          BY <3>4, BatchFacts DEF HasFile, CurrentFile, Entries
        <4>2. heap \in [Files -> {"none", "live", "freed"}]
          BY DEF TypeInv, TypeOK
        <4>3. CASE u = t /\ i = pos[t]
          <5>1. pos'[t] = pos[t] + 1
            BY <1>3, <3>4, ListFrame
          <5> QED
            BY <3>1, <3>4, <4>1, <4>2, <4>3, <5>1
        <4>4. CASE ~(u = t /\ i = pos[t])
          <5>1. Batch(u)[i] # CurrentFile(t)
            BY <3>1, <4>1, <4>4 DEF OwnInv
          <5>2. i >= pos'[u] => i >= pos[u]
            BY <1>3, <3>1, ListFrame
          <5> QED
            BY <3>1, <3>2, <3>4, <4>2, <5>1, <5>2
        <4> QED
          BY <4>3, <4>4
      <3> QED
        BY <2>1, <3>3, <3>4 DEF Stays, Advances, Returns
    <2>5. \A w \in Workers : IF pc'[w] = "idle" THEN filesToSave'[w] = << >>
                             ELSE ~flushed' /\ filesToSave'[w] # << >>
      <3>1. ASSUME NEW w \in Workers, w # t
            PROVE  pc'[w] = pc[w] /\ filesToSave'[w] = filesToSave[w]
        BY <1>3, <3>1, ListFrame, BatchFacts DEF Batch
      <3>2. ASSUME t \in Workers
            PROVE  IF pc'[t] = "idle" THEN filesToSave'[t] = << >>
                   ELSE ~flushed' /\ filesToSave'[t] # << >>
        <4>1. CASE Stays(t)
          BY <2>1, <3>2, <4>1 DEF Stays, OwnInv
        <4>2. CASE Advances(t)
          BY <2>1, <3>2, <4>2 DEF Advances, NextFile, GoTo, OwnInv, TypeInv, TypeOK
        <4>3. CASE Returns(t)
          BY <3>2, <4>3, ThreadsAssumption DEF Returns, Return, GoTo, TypeInv, TypeOK
        <4> QED
          BY <2>1, <4>1, <4>2, <4>3
      <3> QED
        BY <2>1, <3>1, <3>2 DEF OwnInv
    <2>6. ~flushed' => pos'[Flusher] = 1
      <3>1. t = Flusher => flushed
        BY <2>1 DEF TypeInv, FlushedFirst
      <3> QED
        BY <1>3, <2>1, <3>1, ListFrame DEF OwnInv
    <2>7. pc'[Flusher] # "idle" => queuedFiles' # << >>
      BY <1>3, <2>1, ListFrame DEF OwnInv
    <2> QED
      BY <2>3, <2>4, <2>5, <2>6, <2>7 DEF OwnInv
  <1>4. CASE UNCHANGED vars
    BY <1>4 DEF OwnInv, Batch, Entries, vars, queueVars, loopVars, fileVars
  <1> QED
    BY <1>1, <1>2, <1>3, <1>4 DEF Next, Step

(***************************************************************************)
(* Whatever statements fail and however the threads overlap, no thread     *)
(* reads or deletes a File object that was deleted: not even flush(),      *)
(* which leaves the deleted files in the queue.                            *)
(***************************************************************************)
THEOREM NoFileIsUsedAfterFree == Spec => []NoUseAfterFree
  <1>1. Init => TypeInv /\ OwnInv
    BY TypeInit, OwnInit
  <1>2. TypeInv /\ OwnInv /\ [Next]_vars => (TypeInv /\ OwnInv)'
    BY TypeStep, OwnStep
  <1>3. TypeInv /\ OwnInv => NoUseAfterFree
    BY BatchFacts DEF OwnInv, TypeInv, AtFile, Entries, NoUseAfterFree
  <1> QED
    BY <1>1, <1>2, <1>3, PTL DEF Spec

(* The only step that adds a row to table files is a successful INSERT of  *)
(* its thread's file; the others keep the rows or a prefix of them.        *)
FewerRows ==
  \A k \in 1..Len(rows'["files"]) :
    k \in 1..Len(rows["files"]) /\ rows'["files"][k] = rows["files"][k]

Inserts(t) ==
  /\ InsertFile(t) /\ pc'[t] = "rowid"
  /\ InsertOk("files", [file |-> CurrentFile(t), fileId |-> 0])

(* A rollback keeps the rows that were committed. *)
LEMMA DiscardGivesFewerRows ==
  ASSUME SqlInv, DiscardPending
  PROVE  FewerRows
  <1> DEFINE files == rows["files"]  n == durable["files"]
  <1>1. files \in Seq(Row) /\ n \in Nat /\ n <= Len(files) /\ Len(files) \in Nat
    BY TablesFacts, LenProperties DEF SqlInv
  <1>2. \A k \in 1..n : files[k] \in Row
    BY <1>1, ElementOfSeq
  <1>3. rows'["files"] = SubSeq(files, 1, n)
    BY TablesFacts DEF DiscardPending
  <1> HIDE DEF files, n
  <1>4. /\ Len(SubSeq(files, 1, n)) = IF 1 <= n THEN n - 1 + 1 ELSE 0
        /\ \A k \in 1..(n - 1 + 1) : SubSeq(files, 1, n)[k] = files[1 + k - 1]
    BY <1>1, <1>2, SubSeqProperties
  <1>5. \A k \in 1..n : SubSeq(files, 1, n)[k] = files[k]
    BY <1>1, <1>4
  <1>6. Len(SubSeq(files, 1, n)) = n
    BY <1>1, <1>4
  <1>7. \A k \in 1..Len(SubSeq(files, 1, n)) : 
          k \in 1..Len(files) /\ SubSeq(files, 1, n)[k] = files[k]
    BY <1>1, <1>5, <1>6
  <1> QED
    BY <1>3, <1>7 DEF FewerRows, files

(* Whatever step it is, at most the thread's own insertion adds a row. *)
LEMMA RowsFrame ==
  ASSUME TypeInv, NEW t \in Threads, SaveCachedFiles(t)
  PROVE  FewerRows \/ Inserts(t)
  <1>1. ASSUME rows'["files"] = rows["files"]
        PROVE  FewerRows
    BY <1>1 DEF FewerRows
  <1>2. CASE InsertFile(t)
    <2>1. CASE InsertOk("files", [file |-> CurrentFile(t), fileId |-> 0])
               /\ GoTo(t, "rowid")
      BY <1>2, <2>1 DEF Inserts, GoTo, TypeInv, TypeOK
    <2>2. CASE InsertError
      BY <1>1, <2>2, DiscardGivesFewerRows DEF InsertError, sqlVars, TypeInv
    <2> QED
      BY <1>2, <2>1, <2>2 DEF InsertFile
  <1>3. CASE SaveMetadata(t)
    <2> DEFINE row == [file |-> CurrentFile(t), fileId |-> mId[CurrentFile(t)]]
    <2>1. CASE UNCHANGED sqlVars
      BY <1>1, <2>1 DEF sqlVars
    <2>2. CASE InsertOk(MetaTables[col[t]], row)
      <3>1. MetaTables[col[t]] \in Tables \ {"files"}
        BY <1>3, TablesFacts DEF SaveMetadata, TypeInv, TypeOK
      <3>2. rows'["files"] = rows["files"]
        BY <2>2, <3>1, TablesFacts DEF InsertOk, TypeInv, TypeOK
      <3> QED
        BY <1>1, <3>2
    <2>3. CASE InsertError
      BY <1>1, <2>3, DiscardGivesFewerRows DEF InsertError, sqlVars, TypeInv
    <2> QED
      BY <1>3, <2>1, <2>2, <2>3 DEF SaveMetadata
  <1>4. CASE BeginSql(t)
    BY <1>1, <1>4 DEF BeginSql, BeginOk, BeginError, sqlVars
  <1>5. CASE CommitSql(t)
    BY <1>1, <1>5, DiscardGivesFewerRows DEF CommitSql, CommitOk, CommitError,
       sqlVars, TypeInv
  <1>6. CASE RollbackSql(t)
    BY <1>1, <1>6, DiscardGivesFewerRows DEF RollbackSql, RollbackOk,
       RollbackError, sqlVars, TypeInv
  <1>7. CASE \/ BeginSaveLock(t) \/ BeginTest(t) \/ BeginSet(t) \/ ReadRowId(t)
             \/ DeleteFile(t) \/ EndLoop(t) \/ CommitTest(t) \/ CommitSet(t)
    BY <1>1, <1>7 DEF BeginSaveLock, BeginTest, BeginSet, ReadRowId, DeleteFile,
       EndLoop, CommitTest, CommitSet, dbVars, sqlVars
  <1>8. CASE \/ CommitUnlock(t) \/ FailedUnlock(t) \/ RollbackTest(t)
             \/ RollbackSet(t) \/ LastUnlock(t)
    BY <1>1, <1>8 DEF CommitUnlock, FailedUnlock, RollbackTest, RollbackSet,
       LastUnlock, dbVars, sqlVars
  <1> QED
    BY <1>2, <1>3, <1>4, <1>5, <1>6, <1>7, <1>8 DEF SaveCachedFiles

(* A file that was inserted, or is abandoned, is not inserted again.       *)
LEMMA ToInsertShrinks ==
  ASSUME TypeInv, OwnInv, NEW t \in Threads, SaveCachedFiles(t),
         NEW u \in Threads, NEW i \in Entries(u)', ToInsert(u, i)'
  PROVE  /\ i \in Entries(u) /\ Batch(u)'[i] = Batch(u)[i]
         /\ ToInsert(u, i)
         /\ Inserts(t) => ~(u = t /\ i = pos[t])
  <1>1. i \in Entries(u) /\ Batch(u)'[i] = Batch(u)[i] /\ i \in Nat
    BY ListFrame, BatchFacts DEF Entries
  <1>2. i >= pos'[u] /\ ~(i = pos'[u] /\ pc'[u] \in {"rowid", "meta"})
    BY DEF ToInsert
  <1>3. CASE u # t
    BY <1>1, <1>2, <1>3, ListFrame DEF ToInsert
  <1>4. CASE u = t /\ Advances(t)
    <2>1. i > pos[t]
      BY <1>1, <1>2, <1>4, ListFrame, BatchFacts
    <2> QED
      BY <1>1, <1>4, <2>1, BatchFacts DEF ToInsert
  <1>5. CASE u = t /\ Stays(t) /\ ~Advances(t)
    <2>1. pos'[t] = pos[t]
      BY <1>5, ListFrame
    <2> QED
      BY <1>1, <1>2, <1>5, <2>1 DEF ToInsert, Stays, Inserts
  <1>6. CASE u = t /\ Returns(t) /\ ~Advances(t)
    <2>1. pos'[t] = pos[t] /\ pc[t] \notin {"rowid", "meta"} /\ pc'[t] = "idle"
      BY <1>6, ListFrame DEF Returns, Return, GoTo, TypeInv, TypeOK
    <2> QED
      BY <1>1, <1>2, <1>6, <2>1 DEF ToInsert, Inserts
  <1> QED
    BY <1>3, <1>4, <1>5, <1>6, StepFrame

(* Rows that disappear are no obstacle; a row is added for a file that was *)
(* still to be inserted and is in no other place of a list.                *)
LEMMA RowStep ==
  ASSUME TypeInv, OwnInv, RowInv, [Next]_vars
  PROVE  RowInv'
  <1>1. ASSUME NEW w \in Workers, NEW f \in Files, SaveFile(w, f)
        PROVE  RowInv'
    <2>1. rows' = rows /\ heap[f] = "none" /\ heap' = [heap EXCEPT ![f] = "live"]
      BY <1>1 DEF SaveFile, dbVars
    <2>2. \A g \in Files : HasRow(g)' = HasRow(g)
      BY <2>1 DEF HasRow
    <2>3. ~HasRow(f)
      BY <2>1 DEF RowInv
    <2>4. \A t \in Threads : \A i \in Entries(t)' : ToInsert(t, i)' => ~HasRow(Batch(t)'[i])
      BY <1>1, <2>3, SaveFileOwns DEF RowInv
    <2>5. \A g \in Files : heap'[g] = "none" => ~HasRow(g)
      BY <2>1 DEF RowInv, TypeInv, TypeOK
    <2>6. SavedOnce'
      BY <2>1 DEF RowInv, SavedOnce
    <2> QED
      BY <2>1, <2>4, <2>5, <2>6 DEF RowInv, HasRow
  <1>2. CASE Flush
    <2>1. UNCHANGED <<queuedFiles, filesToSave, pos, heap, rows>>
      BY <1>2 DEF Flush, loopVars, fileVars, dbVars
    <2>2. \A t \in Threads : \A i : ToInsert(t, i)' => ToInsert(t, i)
      BY <1>2, <2>1 DEF Flush, GoTo, ToInsert, Entries, Batch, TypeInv, TypeOK,
         FlushedFirst
    <2> QED
      BY <2>1, <2>2 DEF RowInv, SavedOnce, HasRow, Batch, Entries
  <1>3. ASSUME NEW t \in Threads, SaveCachedFiles(t)
        PROVE  RowInv'
    <2>1. heap' \in [Files -> {"none", "live", "freed"}]
          /\ \A f \in Files : heap'[f] = "none" => heap[f] = "none"
      BY <1>3, StepFrame DEF Stays, Advances, Returns, TypeInv, TypeOK
    <2>2. CASE FewerRows
      <3>1. \A f : HasRow(f)' => HasRow(f)
        BY <2>2 DEF FewerRows, HasRow
      <3>2. SavedOnce'
        <4>1. DOMAIN rows["files"] = 1..Len(rows["files"])
              /\ DOMAIN rows'["files"] = 1..Len(rows'["files"])
          BY TypeStep, <1>3, TablesFacts, LenProperties DEF TypeInv, TypeOK, Next, Step
        <4> QED
          BY <2>2, <4>1 DEF FewerRows, RowInv, SavedOnce
      <3> QED
        BY <1>3, <2>1, <3>1, <3>2, ToInsertShrinks DEF RowInv
    <2>3. CASE Inserts(t)
      <3> DEFINE row == [file |-> CurrentFile(t), fileId |-> 0]
      <3>1. /\ pos[t] \in Entries(t) /\ CurrentFile(t) = Batch(t)[pos[t]]
            /\ ToInsert(t, pos[t]) /\ CurrentFile(t) \in Files
        BY <2>3, BatchFacts DEF Inserts, InsertFile, HasFile, CurrentFile, Entries,
           ToInsert
      <3>2. row \in Row
        BY <3>1 DEF Row
      <3>3. /\ Len(rows'["files"]) = Len(rows["files"]) + 1
            /\ rows'["files"][Len(rows["files"]) + 1].file = CurrentFile(t)
            /\ \A k \in 1..Len(rows["files"]) : rows'["files"][k] = rows["files"][k]
            /\ Len(rows["files"]) \in Nat
            /\ DOMAIN rows["files"] = 1..Len(rows["files"])
            /\ DOMAIN rows'["files"] = 1..Len(rows'["files"])
        BY <2>3, <3>2, InsertKeepsSqlInv, TablesFacts, LenProperties
           DEF Inserts, TypeInv, SqlInv
      <3>4. ~HasRow(CurrentFile(t))
        BY <3>1 DEF RowInv
      <3>5. \A f : HasRow(f)' => HasRow(f) \/ f = CurrentFile(t)
        BY <3>3 DEF HasRow
      <3>6. SavedOnce'
        <4>1. \A i \in 1..Len(rows["files"]) : rows["files"][i].file # CurrentFile(t)
          BY <3>4 DEF HasRow
        <4>2. \A i \in 1..Len(rows'["files"]) :
                \/ i \in 1..Len(rows["files"])
                \/ i = Len(rows["files"]) + 1
          BY <3>3
        <4>3. ASSUME NEW i \in 1..Len(rows'["files"]), NEW j \in 1..Len(rows'["files"]),
                     rows'["files"][i].file = rows'["files"][j].file
              PROVE  i = j
          BY <3>3, <4>1, <4>2, <4>3 DEF RowInv, SavedOnce
        <4> QED
          BY <3>3, <4>3 DEF SavedOnce
      <3>7. ASSUME NEW f \in Files, heap'[f] = "none"
            PROVE  ~HasRow(f)'
        <4>1. heap[f] = "none" /\ heap[CurrentFile(t)] # "none"
          BY <2>1, <3>1, <3>7 DEF OwnInv
        <4> QED
          BY <3>5, <4>1 DEF RowInv
      <3>8. ASSUME NEW u \in Threads, NEW i \in Entries(u)', ToInsert(u, i)'
            PROVE  ~HasRow(Batch(u)[i])'
        <4>1. /\ i \in Entries(u) /\ Batch(u)'[i] = Batch(u)[i]
              /\ ToInsert(u, i) /\ ~(u = t /\ i = pos[t])
          BY <1>3, <2>3, <3>8, ToInsertShrinks
        <4>2. Batch(u)[i] # CurrentFile(t)
          BY <3>1, <4>1 DEF OwnInv
        <4> QED
          BY <3>5, <4>1, <4>2 DEF RowInv
      <3> QED
        BY <3>6, <3>7, <3>8 DEF RowInv
    <2> QED
      BY <1>3, <2>2, <2>3, RowsFrame
  <1>4. CASE UNCHANGED vars
    BY <1>4 DEF RowInv, SavedOnce, HasRow, ToInsert, Batch, Entries, vars, dbVars,
       queueVars, loopVars, fileVars
  <1> QED
    BY <1>1, <1>2, <1>3, <1>4 DEF Next, Step

(***************************************************************************)
(* Whatever statements fail and however the threads overlap, no file is    *)
(* given a second row in table files: a batch that is rolled back, or a    *)
(* file whose metadata is rejected, is not tried again by anybody.         *)
(***************************************************************************)
THEOREM NoFileIsSavedTwice == Spec => []SavedOnce
  <1>1. Init => TypeInv /\ OwnInv /\ RowInv
    BY TypeInit, OwnInit
  <1>2. TypeInv /\ OwnInv /\ RowInv /\ [Next]_vars => (TypeInv /\ OwnInv /\ RowInv)'
    BY TypeStep, OwnStep, RowStep
  <1>3. RowInv => SavedOnce
    BY DEF RowInv
  <1> QED
    BY <1>1, <1>2, <1>3, PTL DEF Spec

-----------------------------------------------------------------------------
(* What a deleted file leaves behind, under mild faults.                   *)

(* Outside a transaction every row of table files is committed.            *)
Committed == ~sqlTxn => durable["files"] = Len(rows["files"])

(* A deleted file has a row, which the COMMIT of its batch makes durable.  *)
FreedInv == Committed /\ \A f \in Files : heap[f] = "freed" => HasRow(f)

(* Each outcome of a statement keeps committed and written rows together.  *)
LEMMA OutcomesKeepCommitted ==
  ASSUME SqlInv, Committed,
         \/ UNCHANGED sqlVars \/ DiscardPending \/ BeginOk \/ CommitOk
         \/ \E tb \in Tables, row \in Row : InsertOk(tb, row)
  PROVE  Committed'
  <1>1. /\ rows["files"] \in Seq(Row) /\ Len(rows["files"]) \in Nat
        /\ durable["files"] \in Nat /\ durable["files"] <= Len(rows["files"])
    BY TablesFacts, LenProperties DEF SqlInv
  <1>2. CASE UNCHANGED sqlVars
    BY <1>2 DEF Committed, sqlVars
  <1>3. CASE DiscardPending
    <2>1. rows'["files"] = SubSeq(rows["files"], 1, durable["files"])
      BY <1>3, TablesFacts DEF DiscardPending
    <2>2. \A k \in 1..durable["files"] : rows["files"][k] \in Row
      BY <1>1, ElementOfSeq
    <2>3. Len(SubSeq(rows["files"], 1, durable["files"])) =
            IF 1 <= durable["files"] THEN durable["files"] - 1 + 1 ELSE 0
      BY <1>1, <2>2, SubSeqProperties
    <2> QED
      BY <1>1, <1>3, <2>1, <2>3 DEF DiscardPending, Committed
  <1>4. CASE BeginOk
    BY <1>4 DEF BeginOk, Committed
  <1>5. CASE CommitOk
    BY <1>5, TablesFacts DEF CommitOk, Committed
  <1>6. ASSUME NEW tb \in Tables, NEW row \in Row, InsertOk(tb, row)
        PROVE  Committed'
    <2>1. /\ Len(rows'[tb]) = Len(rows[tb]) + 1
          /\ \A other \in Tables \ {tb} : rows'[other] = rows[other]
      BY <1>6, InsertKeepsSqlInv
    <2>2. ASSUME ~sqlTxn
          PROVE  durable' = [durable EXCEPT ![tb] = Len(rows[tb]) + 1]
      BY <1>6, <2>2 DEF InsertOk
    <2> QED
      BY <1>6, <2>1, <2>2, TablesFacts DEF Committed, InsertOk, SqlInv
  <1> QED
    BY <1>2, <1>3, <1>4, <1>5, <1>6

(* What a step of saveCachedFiles does to the SQLite side is one outcome   *)
(* of one statement, or nothing.                                           *)
LEMMA StepIsAnOutcome ==
  ASSUME TypeInv, NEW t \in Threads, SaveCachedFiles(t)
  PROVE  \/ UNCHANGED sqlVars \/ DiscardPending \/ BeginOk \/ CommitOk
         \/ \E tb \in Tables, row \in Row : InsertOk(tb, row)
  <1>1. CASE InsertFile(t)
    <2>1. [file |-> CurrentFile(t), fileId |-> 0] \in Row
      BY <1>1, CurrentFileType DEF InsertFile, Row, TypeInv
    <2> QED
      BY <1>1, <2>1, TablesFacts DEF InsertFile, InsertError
  <1>2. CASE SaveMetadata(t)
    <2>1. [file |-> CurrentFile(t), fileId |-> mId[CurrentFile(t)]] \in Row
      BY <1>2, CurrentFileType DEF SaveMetadata, Row, TypeInv, TypeOK, AtFile
    <2>2. col[t] <= Len(MetaTables) => MetaTables[col[t]] \in Tables
      BY TablesFacts DEF TypeInv, TypeOK
    <2> QED
      BY <1>2, <2>1, <2>2 DEF SaveMetadata, InsertError
  <1>3. CASE BeginSql(t) \/ CommitSql(t) \/ RollbackSql(t)
    BY <1>3 DEF BeginSql, BeginError, CommitSql, CommitError, RollbackSql,
       RollbackOk, RollbackError
  <1>4. CASE \/ BeginSaveLock(t) \/ BeginTest(t) \/ BeginSet(t) \/ ReadRowId(t)
             \/ DeleteFile(t) \/ EndLoop(t) \/ CommitTest(t) \/ CommitSet(t)
    BY <1>4 DEF BeginSaveLock, BeginTest, BeginSet, ReadRowId, DeleteFile,
       EndLoop, CommitTest, CommitSet, dbVars, sqlVars
  <1>5. CASE \/ CommitUnlock(t) \/ FailedUnlock(t) \/ RollbackTest(t)
             \/ RollbackSet(t) \/ LastUnlock(t)
    BY <1>5 DEF CommitUnlock, FailedUnlock, RollbackTest, RollbackSet,
       LastUnlock, dbVars, sqlVars
  <1> QED
    BY <1>1, <1>2, <1>3, <1>4, <1>5 DEF SaveCachedFiles

(* Under mild faults table files only grows.                               *)
LEMMA FileRowsGrow ==
  ASSUME MildFaults, TypeInv, ExclusionInv, NEW t \in Threads, SaveCachedFiles(t)
  PROVE  /\ Len(rows["files"]) <= Len(rows'["files"])
         /\ \A k \in 1..Len(rows["files"]) : rows'["files"][k] = rows["files"][k]
         /\ ~Inserts(t) => rows'["files"] = rows["files"]
  <1>1. Len(rows["files"]) \in Nat
    BY TablesFacts, LenProperties DEF TypeInv, SqlInv
  <1>2. CASE Inserts(t)
    <2>1. [file |-> CurrentFile(t), fileId |-> 0] \in Row
      BY <1>2, CurrentFileType DEF Inserts, InsertFile, Row, TypeInv
    <2> QED
      BY <1>1, <1>2, <2>1, InsertKeepsSqlInv, TablesFacts DEF Inserts, TypeInv
  <1>3. CASE ~Inserts(t)
    <2> SUFFICES rows'["files"] = rows["files"]
      BY <1>1, <1>3
    <2>1. CASE InsertFile(t)
      BY <1>3, <2>1 DEF Inserts, InsertFile, InsertError, MildFaults, sqlVars,
         GoTo, TypeInv, TypeOK
    <2>2. CASE SaveMetadata(t)
      <3>1. col[t] <= Len(MetaTables) => MetaTables[col[t]] \in Tables \ {"files"}
        BY TablesFacts DEF TypeInv, TypeOK
      <3> DEFINE row == [file |-> CurrentFile(t), fileId |-> mId[CurrentFile(t)]]
      <3>2. CASE UNCHANGED sqlVars
        BY <3>2 DEF sqlVars
      <3>3. CASE col[t] <= Len(MetaTables) /\ InsertOk(MetaTables[col[t]], row)
        BY <3>1, <3>3 DEF InsertOk, TypeInv, TypeOK
      <3> QED
        BY <2>2, <3>2, <3>3 DEF SaveMetadata, InsertError, MildFaults
    <2>3. CASE ~InsertFile(t) /\ ~SaveMetadata(t)
      BY <2>3, RowsChangeByInsert
    <2> QED
      BY <2>1, <2>2, <2>3
  <1> QED
    BY <1>2, <1>3

(* A File object is deleted at a point where its row has been written.     *)
LEMMA FreedStep ==
  ASSUME MildFaults, TypeInv, ExclusionInv, LinkInv, FreedInv, [Next]_vars
  PROVE  FreedInv'
  <1>1. ASSUME NEW w \in Workers, NEW f \in Files, SaveFile(w, f)
        PROVE  FreedInv'
    BY <1>1 DEF SaveFile, dbVars, FreedInv, Committed, HasRow, TypeInv, TypeOK
  <1>2. CASE Flush
    BY <1>2 DEF Flush, dbVars, fileVars, FreedInv, Committed, HasRow
  <1>3. ASSUME NEW t \in Threads, SaveCachedFiles(t)
        PROVE  FreedInv'
    <2>1. Committed'
      BY <1>3, StepIsAnOutcome, OutcomesKeepCommitted DEF TypeInv, FreedInv
    <2>2. \A f : HasRow(f) => HasRow(f)'
      <3>1. Len(rows["files"]) \in Nat /\ Len(rows'["files"]) \in Nat
        BY TypeStep, TablesFacts, LenProperties DEF TypeInv, SqlInv
      <3> QED
        BY <1>3, <3>1, FileRowsGrow DEF HasRow
    <2>3. CASE heap' = heap
      BY <2>1, <2>2, <2>3 DEF FreedInv
    <2>4. CASE DeleteFile(t)
      <3>1. /\ mId[CurrentFile(t)] \in DOMAIN rows["files"]
            /\ rows["files"][mId[CurrentFile(t)]].file = CurrentFile(t)
        BY <2>4 DEF LinkInv, DeleteFile
      <3>2. HasRow(CurrentFile(t))
        BY <3>1, TablesFacts, LenProperties DEF HasRow, TypeInv, TypeOK
      <3>3. heap' = [heap EXCEPT ![CurrentFile(t)] = "freed"]
        BY <2>4 DEF DeleteFile
      <3> QED
        BY <2>1, <2>2, <3>2, <3>3 DEF FreedInv, TypeInv, TypeOK
    <2>5. ~DeleteFile(t) => heap' = heap
      BY <1>3 DEF SaveCachedFiles, BeginSaveLock, BeginTest, BeginSql, BeginSet,
         InsertFile, ReadRowId, SaveMetadata, EndLoop, CommitTest, CommitSql,
         CommitSet, CommitUnlock, FailedUnlock, RollbackTest, RollbackSql,
         RollbackSet, LastUnlock, fileVars
    <2> QED
      BY <2>3, <2>4, <2>5
  <1>4. CASE UNCHANGED vars
    BY <1>4 DEF FreedInv, Committed, HasRow, vars, dbVars, fileVars
  <1> QED
    BY <1>1, <1>2, <1>3, <1>4 DEF Next, Step

(***************************************************************************)
(* If no COMMIT fails and no INSERT rolls back, no extracted metadata is   *)
(* lost with its object: once the write mutex is free, every deleted File  *)
(* object has its committed row.  (Else it may be: persistor_loss.)        *)
(***************************************************************************)
THEOREM NothingDeletedIsLost ==
  ASSUME MildFaults
  PROVE  Spec => []DeletedIsStored
  <1> DEFINE IInv == TypeInv /\ ExclusionInv /\ LinkInv /\ FreedInv
  <1>1. Init => IInv
    <2>1. Init => RowsLinked /\ FreedInv
      <3>1. DOMAIN << >> = {} /\ Len(<< >>) = 0
        BY EmptySeq
      <3> QED
        BY <3>1, TablesFacts DEF Init, DatabaseInit, RowsLinked, FreedInv, Committed
    <2> QED
      BY <2>1, TypeInit, ExclusionInit DEF Init, LinkInv
  <1>2. IInv /\ [Next]_vars => IInv'
    BY TypeStep, ExclusionStep, LinkStep, FreedStep
  <1>3. IInv => DeletedIsStored
    BY DEF ExclusionInv, FreedInv, Committed, HasRow, DeletedIsStored, Stored
  <1> QED
    BY <1>1, <1>2, <1>3, PTL DEF Spec

=============================================================================
