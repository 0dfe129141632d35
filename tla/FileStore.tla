------------------------------ MODULE FileStore ------------------------------
(***************************************************************************)
(* What FileDatabasePersistor promises its client                          *)
(* (src/src/database/file-database-persistor.h): files are handed over one *)
(* at a time, leave the queue BatchSize at a time, and each batch is       *)
(* settled in one transaction, which stores some of its files and reports  *)
(* an error for the others.  Every file belongs to one batch, is settled   *)
(* once, and its outcome never changes.  Locks, statements, rowids and     *)
(* memory are left out.                                                    *)
(***************************************************************************)
EXTENDS Naturals, FiniteSets

CONSTANTS Files, BatchSize

VARIABLES
  stage,    (* where each file is                                            *)
  batches,  (* the batches that were taken from the queue and are not settled *)
  closed    (* flush() has been called                                       *)

storeVars == <<stage, batches, closed>>

Stages == {"new", "queued", "taken", "stored", "failed"}

Queued == {f \in Files : stage[f] = "queued"}

TypeOK ==
  /\ stage \in [Files -> Stages]
  /\ batches \subseteq SUBSET Files
  /\ closed \in BOOLEAN

Init ==
  /\ stage = [f \in Files |-> "new"]
  /\ batches = {}
  /\ closed = FALSE

(* The files of B leave the queue together. *)
Take(B) ==
  /\ stage' = [f \in Files |-> IF f \in B THEN "taken" ELSE stage[f]]
  /\ batches' = batches \cup {B}

(* saveFile, when the queue stays shorter than a batch. *)
Enqueue(f) ==
  /\ stage[f] = "new" /\ ~closed
  /\ Cardinality(Queued) + 1 < BatchSize
  /\ stage' = [stage EXCEPT ![f] = "queued"]
  /\ UNCHANGED <<batches, closed>>

(* saveFile, when the new file completes a batch. *)
FillBatch(f) ==
  /\ stage[f] = "new" /\ ~closed
  /\ Cardinality(Queued) + 1 >= BatchSize
  /\ Take(Queued \cup {f})
  /\ UNCHANGED closed

(* flush: what is left is a batch, and nothing follows. *)
Close ==
  /\ ~closed /\ batches = {}
  /\ closed' = TRUE
  /\ IF Queued # {} THEN Take(Queued) ELSE UNCHANGED <<stage, batches>>

(* One transaction decides all the files of a batch at once. *)
Settle(B) ==
  /\ \E S \in SUBSET B :
       stage' = [f \in Files |-> IF f \in S THEN "stored"
                                 ELSE IF f \in B THEN "failed" ELSE stage[f]]
  /\ batches' = batches \ {B}
  /\ UNCHANGED closed

Next ==
  \/ \E f \in Files : Enqueue(f) \/ FillBatch(f)
  \/ Close
  \/ \E B \in batches : Settle(B)

Spec == Init /\ [][Next]_storeVars

=============================================================================
