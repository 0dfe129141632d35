----------------------------- MODULE MCPersistor -----------------------------
(* Small instances of FileDatabasePersistor for TLC. *)
EXTENDS FileDatabasePersistor, SequencesExt

OneTable == <<"titles">>
TwoTables == <<"titles", "albums">>

Symmetric == Permutations(Workers) \cup Permutations(Files)

(***************************************************************************)
(* Files are interchangeable, so that they may as well be made in one      *)
(* order.  This takes the place of SYMMETRY, which liveness forbids.       *)
(***************************************************************************)
InTurn == SetToSeq(Files)

NextInTurn ==
  /\ Next
  /\ \A i, j \in DOMAIN InTurn :
       i < j /\ heap'[InTurn[i]] = "none" => heap'[InTurn[j]] = "none"

FairSpecInTurn == Init /\ [][NextInTurn]_vars /\ Fairness

=============================================================================
