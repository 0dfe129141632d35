---------------------------- MODULE DatabaseProofs ----------------------------
(* Lemmas about the statements of Database: what each outcome preserves.   *)
EXTENDS Database, SequenceTheorems, TLAPS

(***************************************************************************)
(* What is always true of the SQLite side, whoever holds the write mutex:  *)
(* no more rows are committed than there are.                              *)
(***************************************************************************)
SqlInv ==
  /\ sqlTxn \in BOOLEAN
  /\ rows \in [Tables -> Seq(Row)]
  /\ durable \in [Tables -> Nat]
  /\ lastRowid \in Nat
  /\ \A tb \in Tables : durable[tb] <= Len(rows[tb])

(* The files table and each metadata table are tables, and the metadata    *)
(* tables differ from the files table.                                     *)
LEMMA TablesFacts ==
  /\ "files" \in Tables
  /\ Len(MetaTables) \in Nat
  /\ \A i \in 1..Len(MetaTables) : MetaTables[i] \in Tables \ {"files"}
  <1>1. MetaTables \in Seq(STRING)
    BY TablesAssumption
  <1>2. Len(MetaTables) \in Nat
    BY <1>1, LenProperties
  <1> QED
    BY <1>2, TablesAssumption DEF Tables

(* No rows are committed in an empty database. *)
LEMMA SqlInit == DatabaseInit => SqlInv
  <1> SUFFICES ASSUME DatabaseInit
               PROVE  SqlInv
    OBVIOUS
  <1>1. rows = [tb \in Tables |-> << >>] /\ durable = [tb \in Tables |-> 0]
    BY DEF DatabaseInit
  <1>2. << >> \in Seq(Row) /\ Len(<< >>) = 0
    BY EmptySeq
  <1>3. rows \in [Tables -> Seq(Row)]
    BY <1>1, <1>2
  <1>4. \A tb \in Tables : Len(rows[tb]) = 0
    BY <1>1, <1>2
  <1>5. durable \in [Tables -> Nat] /\ \A tb \in Tables : durable[tb] = 0
    BY <1>1
  <1>6. sqlTxn \in BOOLEAN /\ lastRowid \in Nat
    BY DEF DatabaseInit
  <1> QED
    BY <1>3, <1>4, <1>5, <1>6 DEF SqlInv

(* Rows that are discarded leave a prefix: the committed rows. *)
LEMMA DiscardKeepsSqlInv ==
  ASSUME SqlInv, DiscardPending
  PROVE  SqlInv'
  <1> DEFINE kept(tb) == SubSeq(rows[tb], 1, durable[tb])
  <1>1. ASSUME NEW tb \in Tables
        PROVE  kept(tb) \in Seq(Row) /\ Len(kept(tb)) = durable[tb]
    <2>1. rows[tb] \in Seq(Row) /\ durable[tb] \in Nat /\ durable[tb] <= Len(rows[tb])
      BY DEF SqlInv
    <2>2. \A i \in 1..durable[tb] : rows[tb][i] \in Row
      BY <2>1, LenProperties, ElementOfSeq
    <2>3. /\ kept(tb) \in Seq(Row)
          /\ Len(kept(tb)) = IF 1 <= durable[tb] THEN durable[tb] - 1 + 1 ELSE 0
      BY <2>1, <2>2, SubSeqProperties
    <2> QED
      BY <2>1, <2>3
  <1>2. rows' = [tb \in Tables |-> kept(tb)]
    BY DEF DiscardPending
  <1> HIDE DEF kept
  <1>3. rows' \in [Tables -> Seq(Row)]
    BY <1>1, <1>2
  <1>4. \A tb \in Tables : durable'[tb] <= Len(rows'[tb])
    <2>1. \A tb \in Tables : durable[tb] \in Nat
      BY DEF SqlInv
    <2> QED
      BY <1>1, <1>2, <2>1 DEF DiscardPending
  <1> QED
    BY <1>3, <1>4 DEF SqlInv, DiscardPending

(* An INSERT appends one row of the right type to one table. *)
LEMMA InsertKeepsSqlInv ==
  ASSUME SqlInv, NEW tb \in Tables, NEW row \in Row, InsertOk(tb, row)
  PROVE  /\ SqlInv'
         /\ Len(rows'[tb]) = Len(rows[tb]) + 1
         /\ rows'[tb][Len(rows[tb]) + 1] = row
         /\ \A i \in 1..Len(rows[tb]) : rows'[tb][i] = rows[tb][i]
         /\ \A other \in Tables \ {tb} : rows'[other] = rows[other]
  <1>1. rows[tb] \in Seq(Row) /\ Len(rows[tb]) \in Nat
    BY LenProperties DEF SqlInv
  <1> DEFINE longer == Append(rows[tb], row)
  <1>2. /\ longer \in Seq(Row)
        /\ Len(longer) = Len(rows[tb]) + 1
        /\ longer[Len(rows[tb]) + 1] = row
        /\ \A i \in 1..Len(rows[tb]) : longer[i] = rows[tb][i]
    BY <1>1
  <1>3. rows' = [rows EXCEPT ![tb] = longer]
    BY DEF InsertOk
  <1> HIDE DEF longer
  <1>4. rows' \in [Tables -> Seq(Row)] /\ rows'[tb] = longer
    BY <1>2, <1>3 DEF SqlInv
  <1>5. \A other \in Tables \ {tb} : rows'[other] = rows[other]
    BY <1>3 DEF SqlInv
  <1>6. durable' \in [Tables -> Nat] /\ lastRowid' \in Nat /\ sqlTxn' \in BOOLEAN
    BY <1>1 DEF SqlInv, InsertOk
  <1>7. \A other \in Tables : durable'[other] <= Len(rows'[other])
    <2>1. \A other \in Tables : durable[other] \in Nat /\ durable[other] <= Len(rows[other])
      BY DEF SqlInv
    <2>2. durable'[tb] <= Len(rows'[tb])
      BY <1>1, <1>2, <1>4, <2>1 DEF InsertOk, SqlInv
    <2>3. \A other \in Tables \ {tb} : durable'[other] = durable[other]
      BY DEF InsertOk, SqlInv
    <2> QED
      BY <1>5, <2>1, <2>2, <2>3
  <1> QED
    BY <1>2, <1>4, <1>5, <1>6, <1>7 DEF SqlInv

(* Any other outcome of a statement keeps SqlInv too. *)
LEMMA OutcomesKeepSqlInv ==
  ASSUME SqlInv,
         \/ InsertError \/ BeginOk \/ BeginError \/ CommitOk \/ CommitError
         \/ RollbackOk \/ RollbackError
  PROVE  SqlInv'
  <1>1. CASE UNCHANGED sqlVars
    BY <1>1 DEF SqlInv, sqlVars
  <1>2. CASE DiscardPending
    BY <1>2, DiscardKeepsSqlInv
  <1>3. CASE BeginOk
    BY <1>3 DEF BeginOk, SqlInv
  <1>4. CASE CommitOk
    <2>1. \A tb \in Tables : Len(rows[tb]) \in Nat
      BY LenProperties DEF SqlInv
    <2>2. /\ durable' \in [Tables -> Nat]
          /\ \A tb \in Tables : durable'[tb] = Len(rows[tb])
      BY <1>4, <2>1 DEF CommitOk
    <2>3. sqlTxn' \in BOOLEAN /\ rows' = rows /\ lastRowid' = lastRowid
      BY <1>4 DEF CommitOk
    <2>4. \A tb \in Tables : durable'[tb] <= Len(rows'[tb])
      BY <2>1, <2>2, <2>3
    <2> QED
      BY <2>2, <2>3, <2>4 DEF SqlInv
  <1>5. \/ UNCHANGED sqlVars \/ DiscardPending \/ BeginOk \/ CommitOk
    BY DEF InsertError, BeginError, CommitError, RollbackOk, RollbackError
  <1> QED
    BY <1>1, <1>2, <1>3, <1>4, <1>5

=============================================================================
