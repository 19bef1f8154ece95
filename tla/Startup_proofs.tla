--------------------------- MODULE Startup_proofs ---------------------------
(***************************************************************************)
(* Proofs about Logger, for any threads that log in any way, and about     *)
(* Startup, for any number of workers, messages and days.  As long as no   *)
(* two calls of the logger overlap every line is in its file, and a change *)
(* of file that no other call overlaps repairs the stream; the threads of  *)
(* a server use the logger as Logger allows, so this holds of a server;    *)
(* and what the threads share is there when it is used.                    *)
(***************************************************************************)
EXTENDS Startup, TLAPS

(***************************************************************************)
(* The logger.                                                             *)
(***************************************************************************)
Places == {"idle", "is_open", "compare", "close", "assign", "open", "write", "written"}
Files == [day : Nat, ext : {"err", "log"}]

LogTypeOK ==
  /\ at \in [Threads -> Places]
  /\ szTemp \in [Threads -> Files \cup {None}]
  /\ good \in BOOLEAN /\ disturbed \in BOOLEAN /\ astray \in BOOLEAN
  /\ day \in Nat
  /\ alone \in SUBSET Threads

\* A call that none has overlapped is the only one, and is sure of the stream from
\* the moment it has found it closed or has closed it.
AloneInv ==
  \A t \in alone :
    /\ at[t] # "idle"
    /\ \A u \in Threads : at[u] # "idle" => u = t
    /\ at[t] \in {"assign", "open"} => opened = None
    /\ at[t] \in {"open", "written"} => file_ = szTemp[t]
    /\ at[t] = "written" => good /\ opened = szTemp[t]

\* Before the first overlap every call is alone, an open stream is good and is the
\* one that file_ names, and a call that writes to it has compared the names.
CalmInv ==
  ~ disturbed =>
    /\ ~ astray
    /\ opened # None => good /\ file_ = opened
    /\ \A t \in Threads :
         /\ at[t] # "idle" => t \in alone
         /\ at[t] \in {"compare", "close", "write"} => opened # None
         /\ at[t] = "write" => file_ = szTemp[t]

LogInv == LogTypeOK /\ AloneInv /\ CalmInv
-----------------------------------------------------------------------------
LEMMA LogInvInit == LoggerInit => LogInv
<1> SUFFICES ASSUME LoggerInit PROVE LogInv
  OBVIOUS
<1>1. good \in BOOLEAN /\ disturbed \in BOOLEAN /\ astray \in BOOLEAN /\ ~ astray
  BY Zenon DEF LoggerInit
<1>2. LogTypeOK
  BY <1>1 DEF LoggerInit, LogTypeOK, Places
<1>3. AloneInv
  BY DEF LoggerInit, AloneInv
<1>4. CalmInv
  BY <1>1 DEF LoggerInit, CalmInv
<1>5. QED
  BY <1>2, <1>3, <1>4 DEF LogInv

\* Every step of the logger keeps the invariant.
LEMMA LogInvNext == LogInv /\ [LoggerNext]_logger => LogInv'
<1> SUFFICES ASSUME LogInv, [LoggerNext]_logger PROVE LogInv'
  OBVIOUS
<1> USE DEF LogInv, LogTypeOK, AloneInv, CalmInv, Places, stream, lines
<1>1. ASSUME NEW t \in Threads, NEW type \in Types, Idle(t), Log(t, type) PROVE LogInv'
  <2>1. CASE type \in log_level
    <3>1. FileOf(type) \in Files
      BY DEF FileOf, Files
    <3>2. Others(t) = {} <=> \A u \in Threads : at[u] # "idle" => u = t
      BY DEF Others
    <3>3. disturbed' \in BOOLEAN /\ astray' \in BOOLEAN /\ good' \in BOOLEAN
      BY <1>1, <2>1, Zenon DEF Log
    <3>4. ~ disturbed' => ~ disturbed /\ Others(t) = {}
      BY <1>1, <2>1, Zenon DEF Log
    <3>5. LogTypeOK'
      BY <1>1, <2>1, <3>1, <3>3 DEF Log
    <3>6. AloneInv'
      BY <1>1, <2>1, <3>2 DEF Log
    <3>7. CalmInv'
      BY <1>1, <2>1, <3>2, <3>4 DEF Log, Idle
    <3>8. QED
      BY <3>5, <3>6, <3>7
  <2>2. CASE type \notin log_level
    BY <1>1, <2>2 DEF Log, logger
  <2>3. QED
    BY <2>1, <2>2
<1>2. ASSUME NEW t \in Threads, IsOpen(t) PROVE LogInv'
  BY <1>2 DEF IsOpen
<1>3. ASSUME NEW t \in Threads, Compare(t) PROVE LogInv'
  BY <1>3 DEF Compare
<1>4. ASSUME NEW t \in Threads, CloseFile(t) PROVE LogInv'
  BY <1>4 DEF CloseFile
<1>5. ASSUME NEW t \in Threads, Assign(t) PROVE LogInv'
  BY <1>5 DEF Assign
<1>6. ASSUME NEW t \in Threads, OpenFile(t) PROVE LogInv'
  <2>1. good' = (opened = None) /\ good' \in BOOLEAN
    BY <1>6, Zenon DEF OpenFile
  <2>2. opened = None => good'
    BY <2>1, Zenon
  <2>3. LogTypeOK'
    BY <1>6, <2>1 DEF OpenFile
  <2>4. AloneInv'
    BY <1>6, <2>2 DEF OpenFile
  <2>5. CalmInv'
    BY <1>6, <2>2 DEF OpenFile
  <2>6. QED
    BY <2>3, <2>4, <2>5
<1>7. ASSUME NEW t \in Threads, Write(t) PROVE LogInv'
  BY <1>7 DEF Write
<1>8. ASSUME NEW levels, SetLogLevel(levels) PROVE LogInv'
  BY <1>8 DEF SetLogLevel
<1>9. CASE Midnight
  BY <1>9 DEF Midnight
<1>10. CASE UNCHANGED logger
  BY <1>10 DEF logger
<1>11. QED
  BY <1>1, <1>2, <1>3, <1>4, <1>5, <1>6, <1>7, <1>8, <1>9, <1>10 DEF LoggerNext, LogStep

\* Any use of the logger keeps the invariant.
THEOREM LogInvariance == LoggerSpec => []LogInv
BY LogInvInit, LogInvNext, PTL DEF LoggerSpec

\* logger.cpp: until two calls overlap, errors are in one file of the day and the
\* other lines in another, for any number of threads and days.
THEOREM LinesInTheirFiles == LoggerSpec => []LineInItsFile
<1>1. LogInv => LineInItsFile
  BY DEF LogInv, CalmInv, LogTypeOK, LineInItsFile
<1>2. QED
  BY <1>1, LogInvariance, PTL

\* logger.cpp: whatever overlaps did to the stream, a change of file that no other
\* call overlaps leaves it good and with its file open.
THEOREM ChangesRepair == LoggerSpec => []ChangeOfFileRepairs
<1>1. LogInv => ChangeOfFileRepairs
  BY DEF LogInv, AloneInv, ChangeOfFileRepairs
<1>2. QED
  BY <1>1, LogInvariance, PTL
-----------------------------------------------------------------------------
(***************************************************************************)
(* A server as a user of the logger.                                       *)
(***************************************************************************)
\* Every step of a server is a step of the logger or leaves it alone.
LEMMA StepLogs == [Next]_vars => [LoggerNext]_logger
<1> SUFFICES ASSUME [Next]_vars PROVE [LoggerNext]_logger
  OBVIOUS
<1> USE DEF Types
<1>1. ASSUME NEW t \in Threads, NEW type \in Types, Idle(t), Log(t, type)
      PROVE  [LoggerNext]_logger
  BY <1>1 DEF LoggerNext
<1>2. ASSUME NEW t \in Threads, NEW from, NEW to, Go(t, from, to) PROVE Idle(t)
  BY <1>2 DEF Go
<1>3. CASE MainStep \/ CreateFails
  <2>1. CASE SetLogConfig
    BY <2>1 DEF SetLogConfig, LoggerNext
  <2>2. CASE ~ SetLogConfig
    BY <1>3, <2>2 DEF MainStep, LoadConfig, SetWorkNum, CreateSocket, CreateWorker, CreateFails,
                      Return, Destroy, Exit
  <2>3. QED
    BY <2>1, <2>2
<1>4. CASE SocketStep
  <2>1. Socket \in Threads
    BY ThreadAssumption
  <2>2. UNCHANGED logger \/ (Idle(Socket) /\ \E type \in Types : Log(Socket, type))
    BY <1>2, <1>4, <2>1
       DEF SocketStep, ThreadSocketCB, GetServerPort, GetDBlist, ThreadReturns, NewThreadSocket,
           GetServerIpPort, ConnectIpPort, StartServer, InitEventfd, Failure, OnRead, MQ2S_Push
  <2>3. QED
    BY <1>1, <2>1, <2>2
<1>5. ASSUME NEW w \in Threads, WorkerStep(w) PROVE [LoggerNext]_logger
  <2>1. UNCHANGED logger \/ (Idle(w) /\ \E type \in Types : Log(w, type))
    BY <1>2, <1>5
       DEF WorkerStep, PyInit, GameServerInit, OnServer, GetSqlParam, ConnectDB, MessageDispatch,
           MQ2C_Push, ExecuteQuery, DealQuerySqlOne, NextOfNull, ExecuteUpdate, DealUpdateSql
  <2>2. QED
    BY <1>1, <2>1
<1>6. ASSUME NEW t \in Threads, LogStep(t) PROVE [LoggerNext]_logger
  BY <1>6 DEF LoggerNext
<1>7. CASE MysqlDown \/ MysqlUp
  BY <1>7 DEF MysqlDown, MysqlUp
<1>8. CASE Midnight
  BY <1>8 DEF LoggerNext
<1>9. CASE UNCHANGED vars
  BY <1>9 DEF vars
<1>10. QED
  BY <1>3, <1>4, <1>5, <1>6, <1>7, <1>8, <1>9 DEF Next, ThreadStep, Logging

\* base_server.cpp and logger.cpp: a server is a user of the logger.
THEOREM ServerUsesLogger == Spec => LoggerSpec
<1>1. Init => LoggerInit
  BY DEF Init
<1>2. QED
  BY <1>1, StepLogs, PTL DEF Spec, LoggerSpec

\* logger.cpp: until two threads of a server log at a time every line is in its file.
THEOREM ServerLinesInTheirFiles == Spec => []LineInItsFile
BY ServerUsesLogger, LinesInTheirFiles, PTL

\* logger.cpp: a change of file that no other thread overlaps repairs the stream.
THEOREM ServerChangesRepair == Spec => []ChangeOfFileRepairs
BY ServerUsesLogger, ChangesRepair, PTL
-----------------------------------------------------------------------------
Ready == {"epoll", "eventfd"} \subseteq singletons

\* The main thread: the tree and the queue are there until Start returns.
MainInv ==
  /\ pc[Main] \in {"worker_num", "create_socket", "create", "join"} => tree = "parsed"
  /\ pc[Main] = "return" => tree # "freed"
  /\ pc[Main] \in {"load", "log", "worker_num", "create_socket", "create", "join"}
       => "mq" \in singletons

\* The other threads run only while the main thread creates and joins them.
RunInv == \A t \in Threads : pc[t] # "off" => pc[Main] \in {"create", "join"}

\* The socket thread sets up its side before it hands over the first message.
SocketInv ==
  /\ pc[Socket] # "return"
  /\ pc[Socket] = "db_list" => kind = "game"
  /\ pc[Socket] \in {"db1", "connect", "listen", "eventfd"} => "epoll" \in singletons
  /\ pc[Socket] \in {"loop", "push"} => Ready

\* A worker that is past its own set-up has, or has had, a message.
WorkerInv ==
  /\ mq2s # <<>> => Ready
  /\ \A w \in Workers : pc[w] \notin {"off", "start", "GameServer", "ConnectDB", "loop"} => Ready

\* All of it holds unless the configuration ends a thread early.
SharedInv ==
  /\ DOMAIN pc = Threads \cup {Main}
  /\ ~ EndsEarly => misused = FALSE /\ MainInv /\ RunInv /\ SocketInv /\ WorkerInv
-----------------------------------------------------------------------------
\* The invariant holds before anything runs.
LEMMA SharedInvInit == Init => SharedInv
BY ThreadAssumption DEF Init, SharedInv, MainInv, RunInv, SocketInv, WorkerInv, Ready, Workers

\* A step of the main thread keeps it: the main thread returns only before there are
\* other threads.
LEMMA MainKeepsShared == SharedInv /\ (MainStep \/ CreateFails) => SharedInv'
<1> SUFFICES ASSUME SharedInv, MainStep \/ CreateFails PROVE SharedInv'
  OBVIOUS
<1> USE ThreadAssumption DEF SharedInv, MainInv, RunInv, SocketInv, WorkerInv, Ready, Workers,
        EndsEarly, Has, shared, queue
<1>1. CASE LoadConfig
  BY <1>1 DEF LoadConfig, Go
<1>2. CASE SetLogConfig
  BY <1>2 DEF SetLogConfig, Go
<1>3. CASE SetWorkNum
  BY <1>3 DEF SetWorkNum, Go, ReadTree
<1>4. CASE CreateSocket
  BY <1>4 DEF CreateSocket, Created
<1>5. CASE CreateFails
  BY <1>5 DEF CreateFails
<1>6. CASE Return
  BY <1>6 DEF Return, Go
<1>7. CASE Destroy
  BY <1>7 DEF Destroy, Go
<1>8. CASE Exit
  BY <1>8 DEF Exit, Go
<1>9. ASSUME NEW w \in Workers, CreateWorker(w) PROVE SharedInv'
  BY <1>9 DEF CreateWorker, Created
<1>10. QED
  BY <1>1, <1>2, <1>3, <1>4, <1>5, <1>6, <1>7, <1>8, <1>9 DEF MainStep

\* A step of the socket thread keeps it: it returns early in no other configuration.
LEMMA SocketKeepsShared == SharedInv /\ SocketStep => SharedInv'
<1> SUFFICES ASSUME SharedInv, SocketStep PROVE SharedInv'
  OBVIOUS
<1> USE ThreadAssumption DEF SharedInv, MainInv, RunInv, SocketInv, WorkerInv, Ready, Workers,
        EndsEarly, Has, Go, ReadTree, Use, shared, queue
<1>1. CASE ThreadSocketCB
  BY <1>1 DEF ThreadSocketCB
<1>2. CASE GetServerPort
  BY <1>2 DEF GetServerPort
<1>3. CASE GetDBlist
  BY <1>3 DEF GetDBlist
<1>4. CASE ThreadReturns
  BY <1>4 DEF ThreadReturns
<1>5. CASE NewThreadSocket
  BY <1>5 DEF NewThreadSocket
<1>6. CASE GetServerIpPort
  BY <1>6 DEF GetServerIpPort
<1>7. CASE ConnectIpPort
  BY <1>7 DEF ConnectIpPort
<1>8. CASE StartServer
  BY <1>8 DEF StartServer
<1>9. CASE InitEventfd
  BY <1>9 DEF InitEventfd
<1>10. CASE Failure
  BY <1>10 DEF Failure
<1>11. CASE OnRead
  BY <1>11 DEF OnRead
<1>12. CASE MQ2S_Push
  BY <1>12 DEF MQ2S_Push
<1>13. QED
  BY <1>1, <1>2, <1>3, <1>4, <1>5, <1>6, <1>7, <1>8,
     <1>9, <1>10, <1>11, <1>12 DEF SocketStep

\* A step of a worker keeps it: it uses the EpollServer only with a message.
LEMMA WorkerKeepsShared == ASSUME NEW w \in Workers, SharedInv, WorkerStep(w) PROVE SharedInv'
<1> USE ThreadAssumption DEF SharedInv, MainInv, RunInv, SocketInv, WorkerInv, Ready, Workers,
        EndsEarly, Has, Go, ReadTree, Use, shared, queue
<1>1. CASE PyInit(w)
  BY <1>1 DEF PyInit
<1>2. CASE GameServerInit(w)
  BY <1>2 DEF GameServerInit
<1>3. CASE OnServer(w)
  BY <1>3 DEF OnServer
<1>4. CASE GetSqlParam(w)
  BY <1>4 DEF GetSqlParam
<1>5. CASE ConnectDB(w)
  BY <1>5 DEF ConnectDB
<1>6. CASE MessageDispatch(w)
  BY <1>6 DEF MessageDispatch
<1>7. CASE MQ2C_Push(w)
  BY <1>7 DEF MQ2C_Push
<1>8. CASE ExecuteQuery(w)
  BY <1>8 DEF ExecuteQuery
<1>9. CASE DealQuerySqlOne(w)
  BY <1>9 DEF DealQuerySqlOne
<1>10. CASE NextOfNull(w)
  BY <1>10 DEF NextOfNull
<1>11. CASE ExecuteUpdate(w)
  BY <1>11 DEF ExecuteUpdate
<1>12. CASE DealUpdateSql(w)
  BY <1>12 DEF DealUpdateSql
<1>13. QED
  BY <1>1, <1>2, <1>3, <1>4, <1>5, <1>6, <1>7, <1>8,
     <1>9, <1>10, <1>11, <1>12 DEF WorkerStep

\* base_server.h, thread_socket.h: what the threads of a server share is there
\* whenever one of them uses it, for any number of workers and any order of their
\* steps, unless the configuration ends a thread early.
THEOREM SharedSafe == Spec => []SharedAreThere
<1>1. SharedInv /\ [Next]_vars => SharedInv'
  <2> SUFFICES ASSUME SharedInv, [Next]_vars PROVE SharedInv'
    OBVIOUS
  <2>1. CASE UNCHANGED <<kind, config, pc, shared, queue>>
    BY <2>1 DEF SharedInv, MainInv, RunInv, SocketInv, WorkerInv, Ready, EndsEarly, Has, shared, queue
  <2>2. ASSUME NEW t \in Threads, t # Socket, WorkerStep(t) PROVE SharedInv'
    BY <2>2, WorkerKeepsShared DEF Workers
  <2>3. QED
    BY <2>1, <2>2, MainKeepsShared, SocketKeepsShared
       DEF Next, ThreadStep, Logging, MysqlDown, MysqlUp, vars
<1>2. SharedInv => SharedAreThere
  BY DEF SharedInv, SharedAreThere
<1>3. QED
  BY <1>1, <1>2, SharedInvInit, PTL DEF Spec
=============================================================================
