------------------------- MODULE MetadataExtractPool -------------------------
(***************************************************************************)
(* Class MetadataExtractPool                                               *)
(* (src/src/metadata/metadata-extract-pool.{h,cpp}): a GLib thread pool    *)
(* with exclusive threads, and a pointer to it that is NULL when there is  *)
(* none.  The pool itself is modelled from its use and is external.        *)
(*                                                                         *)
(* The module gives the steps of the class on the variables below;         *)
(* DeviceManager puts them in the order the code does.                     *)
(***************************************************************************)
EXTENDS Naturals, Sequences

CONSTANTS
  Workers,         (* the threads asked for, THREAD_POOL_SIZE                *)
  MediaFiles,      (* paths of regular files                                 *)
  ThreadsMayFail   (* the system may refuse to create threads                *)

ASSUME MayFailAssumption == ThreadsMayFail \in BOOLEAN

VARIABLES
  pool,         (* null: no pool; open; closing: in g_thread_pool_free;      *)
                (* gone: freed, and m_threadPool not NULL yet                *)
  poolThreads,  (* the threads the pool really has                           *)
  tasks,        (* the paths pushed and not taken by a thread                *)
  task,         (* the path each thread works on                             *)
  at            (* where each thread is: idle, extract, save or batch        *)

poolVars == <<pool, poolThreads, tasks, task, at>>

PoolInit ==
  /\ pool = "null"
  /\ poolThreads = {}
  /\ tasks = << >>
  /\ task = [w \in Workers |-> CHOOSE f \in MediaFiles : TRUE]
  /\ at = [w \in Workers |-> "idle"]

(* start: when GLib reports that it could not create every thread, the     *)
(* Error is constructed but not thrown, and the smaller pool is used.      *)
PoolStart ==
  /\ pool' = "open"
  /\ poolThreads' \in (IF ThreadsMayFail THEN SUBSET Workers ELSE {Workers})
  /\ UNCHANGED <<tasks, task, at>>

(***************************************************************************)
(* pushFile hands m_threadPool to g_thread_pool_push, and nothing keeps    *)
(* another thread from freeing the pool meanwhile.  GLib first looks       *)
(* whether the pool is running: it refuses one that is NULL or was told to *)
(* stop, and what it reads of one that is gone may be anything.            *)
(***************************************************************************)
PushAccepted == pool \in {"open", "gone"}
PushRefused == pool # "open"

(* Then it queues the path, and starts a thread if one is missing (failing *)
(* to is the error that pushFile logs).  While the pool waits for its      *)
(* threads this is still in time.                                          *)
PushFile(f) ==
  /\ pool \in {"open", "closing"}
  /\ tasks' = Append(tasks, f)
  /\ \/ UNCHANGED poolThreads
     \/ \E w \in Workers \ poolThreads : poolThreads' = poolThreads \cup {w}
  /\ UNCHANGED <<pool, task, at>>

(* In a pool that was freed since it does anything; Undefined in           *)
(* DeviceManager says what.                                                *)
PushFreed == pool \in {"gone", "null"}

(* terminate, in three steps: g_thread_pool_free is called, ... *)
PoolFree ==
  /\ pool = "open"
  /\ pool' = "closing"
  /\ UNCHANGED <<poolThreads, tasks, task, at>>

(* Mutant of PoolDrained: the tasks are not waited for. *)
PoolNotDrained ==
  /\ pool' = "gone"
  /\ UNCHANGED <<poolThreads, tasks, task, at>>

(* ... it returns when every task is done (immediate = FALSE, wait = TRUE), *)
PoolDrained ==
  /\ tasks = << >>
  /\ \A w \in Workers : at[w] = "idle"
  /\ pool' = "gone"
  /\ UNCHANGED <<poolThreads, tasks, task, at>>

(* ... and the pointer is cleared. *)
PoolForget ==
  /\ pool' = "null"
  /\ UNCHANGED <<poolThreads, tasks, task, at>>

(* Mutant of TakeTask: no task is taken once the pool is closing. *)
TakeTaskUnlessClosing(w) ==
  /\ w \in poolThreads /\ at[w] = "idle" /\ tasks # << >> /\ pool = "open"
  /\ task' = [task EXCEPT ![w] = Head(tasks)]
  /\ tasks' = Tail(tasks)
  /\ at' = [at EXCEPT ![w] = "extract"]
  /\ UNCHANGED <<pool, poolThreads>>

(* A thread of the pool takes the next path: threadFunction. *)
TakeTask(w) ==
  /\ w \in poolThreads /\ at[w] = "idle" /\ tasks # << >>
  /\ task' = [task EXCEPT ![w] = Head(tasks)]
  /\ tasks' = Tail(tasks)
  /\ at' = [at EXCEPT ![w] = "extract"]
  /\ UNCHANGED <<pool, poolThreads>>

(* processFile up to the observer's callback: there may be no extractor    *)
(* for the extension, and the extraction may fail (the File then leaks).   *)
ProcessFile(w) ==
  /\ at[w] = "extract"
  /\ \E next \in {"save", "idle"} : at' = [at EXCEPT ![w] = next]
  /\ UNCHANGED <<pool, poolThreads, tasks, task>>

(* The observer's callback returns. *)
HandOver(w) ==
  /\ at[w] = "save"
  /\ at' = [at EXCEPT ![w] = "idle"]
  /\ UNCHANGED <<pool, poolThreads, tasks, task>>

-----------------------------------------------------------------------------
(***************************************************************************)
(* The pool by itself, as DeviceManager relies on it: Extraction shows     *)
(* that what its threads do in detail implements this.                     *)
(***************************************************************************)
PoolNext ==
  \/ pool = "null" /\ PoolStart
  \/ \E f \in MediaFiles : PushFile(f)
  \/ PoolFree
  \/ pool = "closing" /\ PoolDrained
  \/ pool = "gone" /\ PoolForget
  \/ \E w \in Workers : TakeTask(w) \/ ProcessFile(w) \/ HandOver(w)

PoolSpec == PoolInit /\ [][PoolNext]_poolVars

=============================================================================
