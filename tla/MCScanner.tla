------------------------------ MODULE MCScanner ------------------------------
(* A small instance of ScannerClient for TLC. *)
EXTENDS ScannerClient

TwoFolders == {"A", "B"}
TwoFiles == [d \in TwoFolders |-> IF d = "A" THEN {"a1", "a2"} ELSE {"b1"}]

=============================================================================
