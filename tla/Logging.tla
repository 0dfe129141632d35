------------------------------ MODULE Logging ------------------------------
(***************************************************************************)
(* Logging::Logger (src/src/common/logging.{h,cpp}): messages at or above  *)
(* a level go to every delegate, one message at a time.                    *)
(* Extraction uses it for the messages about a file that failed; the many  *)
(* others lock the mutex and unlock it in the same way, and wait for       *)
(* nothing in between.                                                     *)
(***************************************************************************)
EXTENDS Naturals

CONSTANT Console   (* the ConsoleLoggerMethod *)

VARIABLES
  logLevel,    (* m_logLevel                                                 *)
  delegates,   (* m_delegates                                                *)
  logLocked,   (* m_mutex is locked                                          *)
  printed      (* history: what each delegate has printed                    *)

logVars == <<logLevel, delegates, logLocked, printed>>

LevelVerbose == 0
LevelWarn == 3
LevelError == 4

LoggerInit ==
  /\ logLevel = LevelWarn
  /\ delegates = {}
  /\ logLocked = FALSE
  /\ printed = {}

(* Neither of these takes the lock. *)
SetLogLevel(level) == logLevel' = level

AddLoggerDelegate(delegate) == delegates' = delegates \cup {delegate}

(* Mutant of Filtered: the test is the other way round. *)
FilteredAbove(level) == level > logLevel

(* log returns early: the level is read before the mutex is locked. *)
Filtered(level) == level < logLevel

(* What the delegates do with a message: ConsoleLoggerMethod prints it, *)
(* whatever its level.                                                  *)
Output(message) == delegates \X {message}

LogLock ==
  /\ ~logLocked
  /\ logLocked' = TRUE
  /\ UNCHANGED <<logLevel, delegates, printed>>

(* Mutant of LogDeliver: the mutex is not unlocked. *)
LogDeliverLocked(message) ==
  /\ printed' = printed \cup Output(message)
  /\ UNCHANGED <<logLevel, delegates, logLocked>>

(* Every delegate gets the message, and the mutex is unlocked. *)
LogDeliver(message) ==
  /\ printed' = printed \cup Output(message)
  /\ logLocked' = FALSE
  /\ UNCHANGED <<logLevel, delegates>>

=============================================================================
