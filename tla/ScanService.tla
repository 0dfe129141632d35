----------------------------- MODULE ScanService -----------------------------
(***************************************************************************)
(* What FileSystemScanner promises its client                              *)
(* (src/src/filesystem/filesystem-scanner.h): folders are scanned one at a *)
(* time, in the order of the requests; every entry of a folder is reported *)
(* at most once per visit; and once cancelScan() has returned no callback  *)
(* is called until startScanFolder() is called again.  Folders that were   *)
(* not scanned before a cancellation stay in the queue.  Threads, the flag *)
(* that keeps them running and the handle to join are left out.            *)
(***************************************************************************)
EXTENDS Naturals, Sequences

CONSTANTS
  Folders,   (* folders of the file system                                   *)
  Contents   (* what each folder contains                                    *)

VARIABLES
  on,            (* started, and not cancelled since                         *)
  requests,      (* the folders that are still to be scanned                 *)
  visited,       (* the folder that is being scanned: none or one            *)
  left,          (* its entries that were not reported                       *)
  terminations   (* how often onScanTerminated was called                    *)

serviceVars == <<on, requests, visited, left, terminations>>

Init ==
  /\ on = FALSE
  /\ requests = << >>
  /\ visited = {}
  /\ left = {}
  /\ terminations = 0

(* startScanFolder is called; ... *)
Start ==
  /\ on' = TRUE
  /\ UNCHANGED <<requests, visited, left, terminations>>

(* ... it queues the folder, while earlier ones may be scanned already. *)
Request(d) ==
  /\ on
  /\ requests' = Append(requests, d)
  /\ UNCHANGED <<on, visited, left, terminations>>

Visit ==
  /\ on /\ visited = {} /\ requests # << >>
  /\ visited' = {Head(requests)}
  /\ left' = Contents[Head(requests)]
  /\ requests' = Tail(requests)
  /\ UNCHANGED <<on, terminations>>

(* A folder that cannot be opened, or that is met after a cancellation. *)
Drop ==
  /\ on /\ visited = {} /\ requests # << >>
  /\ requests' = Tail(requests)
  /\ UNCHANGED <<on, visited, left, terminations>>

(* onFileFound *)
Report ==
  /\ on /\ \E e \in left : left' = left \ {e}
  /\ UNCHANGED <<on, requests, visited, terminations>>

(* The folder was enumerated to its end, or an error ended it earlier. *)
Leave ==
  /\ visited # {}
  /\ visited' = {} /\ left' = {}
  /\ UNCHANGED <<on, requests, terminations>>

(* onScanTerminated *)
Terminated ==
  /\ on /\ visited = {}
  /\ terminations' = terminations + 1
  /\ UNCHANGED <<on, requests, visited, left>>

(* cancelScan returns. *)
Cancelled ==
  /\ visited = {}
  /\ on' = FALSE
  /\ UNCHANGED <<requests, visited, left, terminations>>

Next ==
  \/ Start \/ Cancelled
  \/ \E d \in Folders : Request(d)
  \/ Visit \/ Drop \/ Report \/ Leave \/ Terminated

Spec == Init /\ [][Next]_serviceVars

=============================================================================
