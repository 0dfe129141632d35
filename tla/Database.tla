------------------------------ MODULE Database ------------------------------
(***************************************************************************)
(* Class Database (src/src/database/database.{h,cpp}): one SQLite          *)
(* connection shared by all threads, a write mutex that callers are        *)
(* expected to hold, and a flag that remembers whether a transaction was   *)
(* started.  The part of SQLite that the class relies on (sqlite3_exec and *)
(* sqlite3_last_insert_rowid) is modelled from its use and is external.    *)
(*                                                                         *)
(* The module gives the steps of the class as actions on the variables     *)
(* below; FileDatabasePersistor puts them in the order the code does.      *)
(* A statement is one step (SQLite serialises calls on a connection), but  *)
(* testing m_inTransaction, executing a statement and assigning            *)
(* m_inTransaction are three steps, since nothing in the class makes them  *)
(* atomic when the write mutex is not held.                                *)
(***************************************************************************)
EXTENDS Naturals, Sequences

CONSTANTS
  Files,        (* File objects, and the media files they describe           *)
  MetaTables,   (* the metadata tables, in the order the persistor fills them *)
  Faults        (* the ways in which statements may fail, out of FaultKinds   *)

(***************************************************************************)
(* How a statement can fail.                                               *)
(*   begin           BEGIN fails and no transaction is open                *)
(*   reject          an INSERT fails and the transaction stays as it was   *)
(*                   (the values are spliced into the SQL between quotes,  *)
(*                   so a quote in a title or in a path is enough)         *)
(*   insertRollback  an INSERT fails and SQLite rolls the transaction back *)
(*                   (disk full, I/O error, out of memory)                 *)
(*   commitBusy      COMMIT fails and the transaction stays open           *)
(*   commitRollback  COMMIT fails and SQLite rolls the transaction back    *)
(***************************************************************************)
FaultKinds ==
  {"begin", "reject", "insertRollback", "commitBusy", "commitRollback"}

Tables == {"files"} \cup {MetaTables[i] : i \in 1..Len(MetaTables)}

(* A row: whose data it holds and, in a metadata table, its file_id column. *)
Row == [file : Files, fileId : Nat]

ASSUME FaultsAssumption == Faults \subseteq FaultKinds

ASSUME TablesAssumption ==
  /\ MetaTables \in Seq(STRING)
  /\ \A i \in 1..Len(MetaTables) : MetaTables[i] # "files"

VARIABLES
  writeLock,      (* m_mutextWriteLock is locked                              *)
  holders,        (* history: threads between writeLock() and writeUnlock()   *)
  inTransaction,  (* m_inTransaction                                          *)
  sqlTxn,         (* SQLite has an open transaction on m_dbConn               *)
  rows,           (* each table's rows, in insertion order; rowid = position  *)
  durable,        (* how many rows of each table are committed                *)
  lastRowid,      (* sqlite3_last_insert_rowid(m_dbConn)                      *)
  running         (* FALSE once the process has been aborted                  *)

sqlVars == <<sqlTxn, rows, durable, lastRowid>>
lockVars == <<writeLock, holders>>
dbVars == <<writeLock, holders, inTransaction, sqlTxn, rows, durable,
            lastRowid, running>>

DatabaseInit ==
  /\ writeLock = FALSE
  /\ holders = {}
  /\ inTransaction = FALSE
  /\ sqlTxn = FALSE
  /\ rows = [tb \in Tables |-> << >>]
  /\ durable = [tb \in Tables |-> 0]
  /\ lastRowid = 0
  /\ running = TRUE

-----------------------------------------------------------------------------
(* The write mutex. *)

(* Mutant of WriteLock: a lock that does not wait. *)
WriteLockWithoutWaiting(t) ==
  /\ writeLock' = TRUE
  /\ holders' = holders \cup {t}
  /\ UNCHANGED running

(* Database::writeLock: blocks while the mutex is locked. *)
WriteLock(t) ==
  /\ ~writeLock
  /\ writeLock' = TRUE
  /\ holders' = holders \cup {t}
  /\ UNCHANGED running

(***************************************************************************)
(* Database::writeUnlock.  g_mutex_unlock does not know who locked the     *)
(* mutex: it unlocks it, whoever holds it.  Unlocking a mutex that is not  *)
(* locked is undefined: GLib aborts the process when it notices, and       *)
(* otherwise nothing happens.                                              *)
(***************************************************************************)
WriteUnlock(t) ==
  /\ holders' = holders \ {t}
  /\ writeLock' = FALSE
  /\ running' \in (IF writeLock THEN {TRUE} ELSE BOOLEAN)

-----------------------------------------------------------------------------
(* SQLite: the outcome of each kind of statement. *)

(* Rows that were never committed disappear. *)
DiscardPending ==
  /\ sqlTxn' = FALSE
  /\ rows' = [tb \in Tables |-> SubSeq(rows[tb], 1, durable[tb])]
  /\ UNCHANGED <<durable, lastRowid>>

(* An INSERT that succeeds; outside a transaction it commits at once. *)
InsertOk(tb, row) ==
  /\ rows' = [rows EXCEPT ![tb] = Append(@, row)]
  /\ lastRowid' = Len(rows[tb]) + 1
  /\ durable' = IF sqlTxn THEN durable
                ELSE [durable EXCEPT ![tb] = Len(rows[tb]) + 1]
  /\ UNCHANGED sqlTxn

(* An INSERT that returns an error. *)
InsertError ==
  \/ "reject" \in Faults /\ UNCHANGED sqlVars
  \/ /\ "insertRollback" \in Faults
     /\ DiscardPending

BeginOk ==
  /\ ~sqlTxn
  /\ sqlTxn' = TRUE
  /\ UNCHANGED <<rows, durable, lastRowid>>

(* BEGIN inside a transaction is an error. *)
BeginError ==
  /\ sqlTxn \/ "begin" \in Faults
  /\ UNCHANGED sqlVars

CommitOk ==
  /\ sqlTxn
  /\ sqlTxn' = FALSE
  /\ durable' = [tb \in Tables |-> Len(rows[tb])]
  /\ UNCHANGED <<rows, lastRowid>>

(* COMMIT without a transaction is an error. *)
CommitError ==
  \/ ~sqlTxn /\ UNCHANGED sqlVars
  \/ "commitBusy" \in Faults /\ UNCHANGED sqlVars
  \/ "commitRollback" \in Faults /\ DiscardPending

RollbackOk == sqlTxn /\ DiscardPending

(* ROLLBACK without a transaction is an error. *)
RollbackError == ~sqlTxn /\ UNCHANGED sqlVars

=============================================================================
