------------------------------ MODULE MCTracker ------------------------------
(* Small instances of DeviceManager for TLC. *)
EXTENDS DeviceManager, TLC

(* Two devices: the first has two files and a folder with a folder in it. *)
Media == {"a1", "a2", "x1", "b1"}
Directories == {"A", "A/x", "A/x/y", "B"}

Tree == [d \in Directories |->
           CASE d = "A" -> {"a1", "a2", "A/x"}
             [] d = "A/x" -> {"x1", "A/x/y"}
             [] d = "A/x/y" -> {}
             [] d = "B" -> {"b1"}]

Roots == [d \in {"dA", "dB"} |-> IF d = "dA" THEN "A" ELSE "B"]

(* One device with two files and an empty folder. *)
SmallMedia == {"a1", "a2"}
SmallDirectories == {"A", "A/x"}
SmallTree == [d \in SmallDirectories |-> IF d = "A" THEN {"a1", "a2", "A/x"} ELSE {}]
SmallRoots == [d \in {"dA"} |-> "A"]

Symmetric == Permutations(ScanThreads) \cup Permutations(Workers)

=============================================================================
