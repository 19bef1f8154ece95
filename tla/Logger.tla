------------------------------- MODULE Logger -------------------------------
(***************************************************************************)
(* common/logger.cpp: g_logger, one ofstream that all threads of a process *)
(* write to without a lock.  This module defines the steps of a call of    *)
(* LogDebug, LogInfo, LogWarning or LogError by a thread; the threads that *)
(* make the calls are those of Startup.                                    *)
(*                                                                         *)
(* Calls of one stream by two threads are a data race.  The model takes    *)
(* each member function of the stream as one step, which gives the orders  *)
(* of whole calls; what torn calls do to the stream's memory is left out.  *)
(* A line and its end are one write.                                       *)
(***************************************************************************)
EXTENDS Naturals

CONSTANTS
  Threads,
  None,                 \* no file
  MaxDay                \* bound: days that begin

VARIABLES
  log_level,            \* the types of lines that go to a file (log_level_, log_path_)
  at,                   \* where a thread is in its call: "idle" when in none
  szTemp,               \* the file a call wants
  file_,                \* the file the logger believes is open
  opened,               \* the file that is open
  good,                 \* neither failbit nor badbit
  day,
  alone,                \* the threads whose call no other has overlapped
  disturbed,            \* some calls have overlapped
  astray                \* some line went to a file not its own, or to none

stream == <<file_, opened, good>>
lines == <<alone, disturbed, astray>>
logger == <<log_level, at, szTemp, stream, day, lines>>

Types == {"DEBUG", "INFO", "WARNING", "ERROR"}

\* %Y%m%d.err for errors, %Y%m%d.log for the rest.
FileOf(type) == [day |-> day, ext |-> IF type = "ERROR" THEN "err" ELSE "log"]

LoggerInit ==
  /\ log_level = Types
  /\ at = [t \in Threads |-> "idle"]
  /\ szTemp = [t \in Threads |-> None]
  /\ file_ = None /\ opened = None /\ good = TRUE
  /\ day = 1
  /\ alone = {} /\ disturbed = FALSE /\ astray = FALSE
-----------------------------------------------------------------------------
\* The other threads that are in a call.
Others(t) == {u \in Threads \ {t} : at[u] # "idle"}

Idle(t) == at[t] = "idle"

\* Log2File up to NewLine: a line of this type is wanted, and its file named.
Log(t, type) ==
  IF type \in log_level
    THEN /\ at' = [at EXCEPT ![t] = "is_open"]
         /\ szTemp' = [szTemp EXCEPT ![t] = FileOf(type)]
         /\ alone' = IF Others(t) = {} THEN {t} ELSE {}
         /\ disturbed' = (disturbed \/ Others(t) # {})
         /\ UNCHANGED <<log_level, stream, day, astray>>
    ELSE UNCHANGED logger

\* NewLine: is_open() ...
IsOpen(t) ==
  /\ at[t] = "is_open"
  /\ at' = [at EXCEPT ![t] = IF opened = None THEN "assign" ELSE "compare"]
  /\ UNCHANGED <<log_level, szTemp, stream, day, lines>>

\* Mutant: a stream that is open is taken as it is.
Compare_Not(t) ==
  /\ at[t] = "compare"
  /\ at' = [at EXCEPT ![t] = "write"]
  /\ UNCHANGED <<log_level, szTemp, stream, day, lines>>

\* ... file_ != szTemp ...
Compare(t) ==
  /\ at[t] = "compare"
  /\ at' = [at EXCEPT ![t] = IF file_ = szTemp[t] THEN "write" ELSE "close"]
  /\ UNCHANGED <<log_level, szTemp, stream, day, lines>>

\* Mutant: the open file is left to open().
CloseFile_Not(t) ==
  /\ at[t] = "close"
  /\ at' = [at EXCEPT ![t] = "assign"]
  /\ UNCHANGED <<log_level, szTemp, stream, day, lines>>

\* ... close(), which fails when another thread has closed the stream ...
CloseFile(t) ==
  /\ at[t] = "close"
  /\ at' = [at EXCEPT ![t] = "assign"]
  /\ opened' = None
  /\ good' = (good /\ opened # None)
  /\ UNCHANGED <<log_level, szTemp, file_, day, lines>>

\* ... file_.assign(szTemp) ...
Assign(t) ==
  /\ at[t] = "assign"
  /\ at' = [at EXCEPT ![t] = "open"]
  /\ file_' = szTemp[t]
  /\ UNCHANGED <<log_level, szTemp, opened, good, day, lines>>

\* ... open(), which clears the state of the stream, and fails when another thread
\* has opened it.
OpenFile(t) ==
  /\ at[t] = "open"
  /\ at' = [at EXCEPT ![t] = "written"]
  /\ opened' = IF opened = None THEN szTemp[t] ELSE opened
  /\ good' = (opened = None)
  /\ UNCHANGED <<log_level, szTemp, file_, day, lines>>

\* The line and EndLine: nothing is written while the stream is in a failed state,
\* and a stream that is closed gets into one.  "written" comes after open().
Write(t) ==
  /\ at[t] \in {"write", "written"}
  /\ at' = [at EXCEPT ![t] = "idle"]
  /\ szTemp' = [szTemp EXCEPT ![t] = None]
  /\ good' = (good /\ opened # None)
  /\ astray' = (astray \/ ~good \/ opened # szTemp[t])
  /\ alone' = alone \ {t}
  /\ UNCHANGED <<log_level, file_, opened, day, disturbed>>

LogStep(t) ==
  IsOpen(t) \/ Compare(t) \/ CloseFile(t) \/ Assign(t) \/ OpenFile(t) \/ Write(t)

SetLogLevel(levels) ==
  /\ log_level' = levels
  /\ UNCHANGED <<at, szTemp, stream, day, lines>>

Midnight ==
  /\ day < MaxDay
  /\ day' = day + 1
  /\ UNCHANGED <<log_level, at, szTemp, stream, lines>>

\* What any user of the logger does to it.
LoggerNext ==
  \/ \E t \in Threads, type \in Types : Idle(t) /\ Log(t, type)
  \/ \E t \in Threads : LogStep(t)
  \/ \E levels \in SUBSET Types : SetLogLevel(levels)
  \/ Midnight

LoggerSpec == LoggerInit /\ [][LoggerNext]_logger
-----------------------------------------------------------------------------
(***************************************************************************)
(* Properties.                                                             *)
(***************************************************************************)
\* logger.cpp: errors are in one file of the day and the other lines in another,
\* across midnight and every change between them, until two calls overlap.
LineInItsFile == astray => disturbed

\* An overlap can leave the stream in a failed state, or file_ naming a file that
\* is not the open one, and then lines are lost or misplaced until the next change
\* of file.  That change, when no call overlaps it, repairs the stream.
ChangeOfFileRepairs ==
  \A t \in alone : at[t] = "written" => good /\ opened = szTemp[t] /\ file_ = szTemp[t]

=============================================================================
