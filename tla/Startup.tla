------------------------------ MODULE Startup -------------------------------
(***************************************************************************)
(* A server from main() on: the main thread reads the configuration,       *)
(* starts the socket thread and the workers and waits for the workers; the *)
(* socket thread sets up its side and then hands messages to the workers,  *)
(* who need the queue and the eventfd to answer.  The game server and the  *)
(* database server differ in what the socket thread prepares and in what a *)
(* worker does; for the database server MySQL may be away.                 *)
(*                                                                         *)
(* The threads share the tree that the configuration was parsed to (a      *)
(* JsonHelper is copied with its pointer), the singletons MessageQueue and *)
(* EpollServer, and g_logger, whose steps are those of Logger: a thread    *)
(* goes on when its line is written.  What the queue and the sockets do is *)
(* in MessageQueue and EpollServer; here a push and a pop are one step.    *)
(***************************************************************************)
EXTENDS Logger, Sequences

CONSTANTS
  Main,                 \* the main thread
  Socket,               \* the socket thread; the other Threads are workers
  MaxMessages,          \* bound: messages the socket thread hands over
  MaxDowns              \* bound: times MySQL goes down

Workers == Threads \ {Socket}

ASSUME ThreadAssumption ==
  /\ Socket \in Threads /\ Main \notin Threads
  /\ \A w \in Workers : w \in Nat \ {0} /\ 1..w \subseteq Workers

VARIABLES
  kind,                 \* "game" or "db"
  config,               \* what config.json holds
  pc,                   \* where each thread is
  tree,                 \* the parsed configuration: "none", "parsed", "freed"
  singletons,           \* the objects that are there: "mq", "epoll", "eventfd"
  mq2s,                 \* messages for the workers
  npush,                \* messages pushed so far; a message is its number
  sql,                  \* what the message of a number is
  taken,                \* the message a worker is at
  answered,             \* the messages that MQ2C_Push has answered
  mysql,                \* MySQL is up
  session,              \* of a worker with MySQL: "none", "live", "lost"
  ndown,                \* times MySQL went down
  misused,              \* a shared object was used when it was not there
  over                  \* the process: "no", "exit", "crash"

shared == <<tree, singletons, misused>>
queue == <<mq2s, npush, sql, taken, answered>>
database == <<mysql, session, ndown>>
vars == <<logger, kind, config, pc, shared, queue, database, over>>

\* The items that a server asks for; one may be missing, and so may the file.  The
\* "mysql" items only decide whether a worker can connect, which is left open.
Items(k) ==
  {"log", "worker_num", "port"} \cup (IF k = "game" THEN {"db_list", "db1"} ELSE {})

\* Two workers of the game server would enter one Python interpreter at a time.
Configs(k) ==
  [file : BOOLEAN,
   items : {Items(k)} \cup {Items(k) \ {i} : i \in Items(k)},
   worker_num : IF k = "game" THEN {0, 1} ELSE Workers \cup {0}]

Init ==
  /\ LoggerInit
  /\ kind \in {"game", "db"}
  /\ config \in Configs(kind)
  /\ pc = [t \in Threads \cup {Main} |-> IF t = Main THEN "load" ELSE "off"]
  /\ tree = "none" /\ singletons = {"mq"} /\ misused = FALSE
  /\ mq2s = <<>> /\ npush = 0 /\ sql = <<>>
  /\ taken = [w \in Workers |-> 0] /\ answered = {}
  /\ mysql \in (IF kind = "db" THEN BOOLEAN ELSE {FALSE}) /\ session = [w \in Workers |-> "none"] /\ ndown = 0
  /\ over = "no"
-----------------------------------------------------------------------------
\* Thread t, whose last line is written, goes from one place to another.
Go(t, from, to) ==
  /\ over = "no"
  /\ t \in Threads => Idle(t)
  /\ pc[t] = from
  /\ pc' = [pc EXCEPT ![t] = to]
  /\ UNCHANGED <<kind, config>>

\* A look at the shared tree.
ReadTree ==
  /\ misused' = (misused \/ tree # "parsed")
  /\ UNCHANGED <<tree, singletons>>

\* A use of singletons.
Use(objects) ==
  /\ misused' = (misused \/ ~ objects \subseteq singletons)
  /\ UNCHANGED <<tree, singletons>>

Has(item) == item \in config.items
-----------------------------------------------------------------------------
(***************************************************************************)
(* The main thread.                                                        *)
(***************************************************************************)
\* ConfigReader: without a file GetAllConfig returns NULL, and string(NULL) throws.
LoadConfig ==
  /\ Go(Main, "load", "log")
  /\ over' = IF config.file THEN over ELSE "crash"
  /\ UNCHANGED <<logger, shared, queue, database>>

\* The first item that is asked for parses the text.
SetLogConfig ==
  /\ Go(Main, "log", IF Has("log") THEN "worker_num" ELSE "return")
  /\ tree' = "parsed"
  /\ IF Has("log") THEN \E levels \in {Types, Types \ {"DEBUG"}} : SetLogLevel(levels)
                   ELSE UNCHANGED logger
  /\ UNCHANGED <<singletons, misused, queue, database, over>>

SetWorkNum ==
  /\ Go(Main, "worker_num", IF Has("worker_num") THEN "create_socket" ELSE "return")
  /\ ReadTree
  /\ UNCHANGED <<logger, queue, database, over>>

\* CreateThread for the socket thread and then for each worker; then pthread_join of
\* workers that never return: with no worker Start is over at once.
Created(w) ==
  IF config.worker_num = 0 THEN "return" ELSE IF w = config.worker_num THEN "join" ELSE "create"

CreateSocket ==
  /\ over = "no" /\ pc[Main] = "create_socket"
  /\ pc' = [pc EXCEPT ![Main] = Created(0), ![Socket] = "start"]
  /\ UNCHANGED <<logger, kind, config, shared, queue, database, over>>

CreateWorker(w) ==
  /\ over = "no" /\ pc[Main] = "create"
  /\ pc[w] = "off" /\ (w > 1 => pc[w - 1] # "off")
  /\ pc' = [pc EXCEPT ![Main] = Created(w), ![w] = "start"]
  /\ UNCHANGED <<logger, kind, config, shared, queue, database, over>>

\* pthread_create may fail, and the process exits.
CreateFails ==
  /\ over = "no" /\ pc[Main] \in {"create_socket", "create"}
  /\ over' = "exit"
  /\ UNCHANGED <<logger, kind, config, pc, shared, queue, database>>

\* Start returns: ~JsonHelper and, in main(), the server with its queue.
Return ==
  /\ Go(Main, "return", "destroy")
  /\ misused' = (misused \/ tree = "freed")
  /\ tree' = IF tree = "none" THEN tree ELSE "freed"
  /\ UNCHANGED <<logger, singletons, queue, database, over>>

Destroy ==
  /\ Go(Main, "destroy", "exit")
  /\ singletons' = singletons \ {"mq"}
  /\ UNCHANGED <<logger, tree, misused, queue, database, over>>

Exit ==
  /\ Go(Main, "exit", "gone")
  /\ over' = "exit"
  /\ UNCHANGED <<logger, shared, queue, database>>

MainStep ==
  \/ LoadConfig \/ SetLogConfig \/ SetWorkNum
  \/ CreateSocket \/ (\E w \in Workers : CreateWorker(w))
  \/ Return \/ Destroy \/ Exit
-----------------------------------------------------------------------------
(***************************************************************************)
(* The socket thread.                                                      *)
(***************************************************************************)
ThreadSocketCB ==
  /\ Go(Socket, "start", "port")
  /\ Log(Socket, "DEBUG")
  /\ UNCHANGED <<shared, queue, database, over>>

GetServerPort ==
  /\ Go(Socket, "port",
        IF ~ Has("port") THEN "return" ELSE IF kind = "game" THEN "db_list" ELSE "epoll")
  /\ ReadTree
  /\ IF Has("port") THEN UNCHANGED logger ELSE Log(Socket, "ERROR")
  /\ UNCHANGED <<queue, database, over>>

GetDBlist ==
  /\ Go(Socket, "db_list", IF Has("db_list") THEN "epoll" ELSE "return")
  /\ ReadTree
  /\ IF Has("db_list") THEN UNCHANGED logger ELSE Log(Socket, "ERROR")
  /\ UNCHANGED <<queue, database, over>>

\* An early return: the copy of the JsonHelper frees the tree of all of them.
ThreadReturns ==
  /\ Go(Socket, "return", "gone")
  /\ misused' = (misused \/ tree = "freed")
  /\ tree' = "freed"
  /\ UNCHANGED <<logger, singletons, queue, database, over>>

\* ThreadSocket holds the EpollServer.
NewThreadSocket ==
  /\ Go(Socket, "epoll", IF kind = "game" THEN "db1" ELSE "listen")
  /\ singletons' = singletons \cup {"epoll"}
  /\ UNCHANGED <<logger, tree, misused, queue, database, over>>

\* The one server in db_list; an address that is not found is tried all the same.
GetServerIpPort ==
  /\ Go(Socket, "db1", "connect")
  /\ ReadTree
  /\ IF Has("db1") THEN UNCHANGED logger ELSE Log(Socket, "ERROR")
  /\ UNCHANGED <<queue, database, over>>

ConnectIpPort ==
  /\ Go(Socket, "connect", "listen")
  /\ Use({"epoll"})
  /\ Log(Socket, "INFO")
  /\ UNCHANGED <<queue, database, over>>

\* socket, bind and listen may fail, and the process exits after the line.
StartServer ==
  \E ok \in BOOLEAN :
    /\ Go(Socket, "listen", IF ok THEN "eventfd" ELSE "failure")
    /\ Log(Socket, IF ok THEN "INFO" ELSE "ERROR")
    /\ UNCHANGED <<shared, queue, database, over>>

InitEventfd ==
  \/ /\ Go(Socket, "eventfd", "loop")
     /\ singletons' = singletons \cup {"eventfd"}
     /\ UNCHANGED <<logger, tree, misused, queue, database, over>>
  \/ /\ Go(Socket, "eventfd", "failure")
     /\ Log(Socket, "ERROR")
     /\ UNCHANGED <<shared, queue, database, over>>

Failure ==
  /\ Go(Socket, "failure", "gone")
  /\ over' = "exit"
  /\ UNCHANGED <<logger, shared, queue, database>>

\* ev_run: a package of a client is handed to the workers, after a line about it.
OnRead ==
  /\ npush < MaxMessages
  /\ Go(Socket, "loop", "push")
  /\ Log(Socket, "DEBUG")
  /\ UNCHANGED <<shared, queue, database, over>>

MQ2S_Push ==
  /\ Go(Socket, "push", "loop")
  /\ Use({"mq"})
  /\ npush' = npush + 1
  /\ mq2s' = Append(mq2s, npush + 1)
  /\ \E s \in (IF kind = "db" THEN {"SQL_QUERY", "SQL_UPDATE"} ELSE {"OnServer"}) :
       sql' = Append(sql, s)
  /\ UNCHANGED <<logger, taken, answered, database, over>>

SocketStep ==
  \/ ThreadSocketCB \/ GetServerPort \/ GetDBlist \/ ThreadReturns
  \/ NewThreadSocket \/ GetServerIpPort \/ ConnectIpPort
  \/ StartServer \/ InitEventfd \/ Failure \/ OnRead \/ MQ2S_Push
-----------------------------------------------------------------------------
(***************************************************************************)
(* A worker.                                                               *)
(***************************************************************************)
\* Mutant: a script adds a timer as it is imported.
PyInit_AddsTimer(w) ==
  /\ kind = "game"
  /\ Go(w, "start", "GameServer")
  /\ Use({"mq", "epoll", "eventfd"})
  /\ Log(w, "INFO")
  /\ UNCHANGED <<queue, database, over>>

\* Game_Cpp2Py::Init runs the init of the scripts, which writes two lines.
PyInit(w) ==
  /\ kind = "game"
  /\ Go(w, "start", "GameServer")
  /\ Log(w, "INFO")
  /\ UNCHANGED <<shared, queue, database, over>>

GameServerInit(w) ==
  /\ Go(w, "GameServer", "loop")
  /\ Log(w, "DEBUG")
  /\ UNCHANGED <<shared, queue, database, over>>

\* DBServer::Thread_Worker_CB; what is missing is not noticed.
GetSqlParam(w) ==
  /\ kind = "db"
  /\ Go(w, "start", "ConnectDB")
  /\ ReadTree
  /\ Log(w, "DEBUG")
  /\ UNCHANGED <<queue, database, over>>

\* Mutant: ConnectDB tries until it has a session.
ConnectDB_Waits(w) ==
  /\ mysql
  /\ Go(w, "ConnectDB", "loop")
  /\ session' = [session EXCEPT ![w] = "live"]
  /\ Log(w, "DEBUG")
  /\ UNCHANGED <<shared, queue, mysql, ndown, over>>

\* CDBConn::Init returns 1 or 2 when it fails and ConnectDB looks for less than 0:
\* conn_success_ is true in any case.
ConnectDB(w) ==
  \E ok \in IF mysql THEN BOOLEAN ELSE {FALSE} :
    /\ Go(w, "ConnectDB", "loop")
    /\ session' = [session EXCEPT ![w] = IF ok THEN "live" ELSE "none"]
    /\ Log(w, IF ok THEN "DEBUG" ELSE "ERROR")
    /\ UNCHANGED <<shared, queue, mysql, ndown, over>>

\* MessageDispatch; OnServer, or the text of the request, is logged.
MessageDispatch(w) ==
  /\ mq2s # <<>>
  /\ Go(w, "loop", sql[Head(mq2s)])
  /\ Use({"mq"})
  /\ taken' = [taken EXCEPT ![w] = Head(mq2s)]
  /\ mq2s' = Tail(mq2s)
  /\ Log(w, "DEBUG")
  /\ UNCHANGED <<npush, sql, answered, database, over>>

\* The script answers, or makes a request, or neither.
OnServer(w) ==
  /\ \/ Go(w, "OnServer", "MQ2C_Push") /\ Log(w, "DEBUG")
     \/ Go(w, "OnServer", "loop") /\ UNCHANGED logger
  /\ UNCHANGED <<shared, queue, database, over>>

\* ExecuteQuery logs the query before anything else.
ExecuteQuery(w) ==
  /\ Go(w, "SQL_QUERY", "mysql_ping")
  /\ Log(w, "DEBUG")
  /\ UNCHANGED <<shared, queue, database, over>>

\* mysql_ping restores a session that was lost, never one that was not made.
Ping(w) ==
  /\ session' = [session EXCEPT ![w] = IF mysql /\ @ = "lost" THEN "live" ELSE @]
  /\ UNCHANGED <<mysql, ndown>>

\* mysql_real_query and mysql_store_result fail without a session, and for reasons of
\* their own with one: text of a client is part of the statement (Interface.py).
DealQuerySqlOne(w) ==
  /\ Ping(w)
  /\ \/ session'[w] = "live" /\ Go(w, "mysql_ping", "MQ2C_Push") /\ Log(w, "DEBUG")
     \/ Go(w, "mysql_ping", "Next") /\ Log(w, "ERROR")
  /\ UNCHANGED <<shared, queue, over>>

\* ExecuteQuery returned NULL and its Next() is called.
NextOfNull(w) ==
  /\ Go(w, "Next", "gone")
  /\ over' = "crash"
  /\ UNCHANGED <<logger, shared, queue, database>>

\* DealUpdateSql: an error, with a session or without one, is logged, and so is the result.
ExecuteUpdate(w) ==
  /\ Go(w, "SQL_UPDATE", "DealUpdateSql")
  /\ Ping(w)
  /\ (session'[w] = "live" /\ UNCHANGED logger) \/ Log(w, "ERROR")
  /\ UNCHANGED <<shared, queue, over>>

DealUpdateSql(w) ==
  /\ Go(w, "DealUpdateSql", "loop")
  /\ Log(w, "DEBUG")
  /\ UNCHANGED <<shared, queue, database, over>>

MQ2C_Push(w) ==
  /\ Go(w, "MQ2C_Push", "loop")
  /\ Use({"mq", "epoll", "eventfd"})
  /\ answered' = answered \cup {taken[w]}
  /\ UNCHANGED <<logger, mq2s, npush, sql, taken, database, over>>

WorkerStep(w) ==
  \/ PyInit(w) \/ GameServerInit(w) \/ OnServer(w)
  \/ GetSqlParam(w) \/ ConnectDB(w)
  \/ MessageDispatch(w) \/ MQ2C_Push(w)
  \/ ExecuteQuery(w) \/ DealQuerySqlOne(w) \/ NextOfNull(w)
  \/ ExecuteUpdate(w) \/ DealUpdateSql(w)
-----------------------------------------------------------------------------
MysqlDown ==
  /\ over = "no" /\ mysql /\ ndown < MaxDowns
  /\ mysql' = FALSE /\ ndown' = ndown + 1
  /\ session' = [w \in Workers |-> IF session[w] = "live" THEN "lost" ELSE session[w]]
  /\ UNCHANGED <<logger, kind, config, pc, shared, queue, over>>

MysqlUp ==
  /\ over = "no" /\ kind = "db" /\ ~ mysql
  /\ mysql' = TRUE
  /\ UNCHANGED <<logger, kind, config, pc, shared, queue, session, ndown, over>>

\* The steps of the logger itself.
Logging(A) ==
  /\ over = "no"
  /\ A
  /\ UNCHANGED <<kind, config, pc, shared, queue, database, over>>

ThreadStep(t) == (IF t = Socket THEN SocketStep ELSE WorkerStep(t)) \/ Logging(LogStep(t))

Next ==
  \/ MainStep \/ CreateFails
  \/ \E t \in Threads : ThreadStep(t)
  \/ MysqlDown \/ MysqlUp
  \/ Logging(Midnight)

Spec == Init /\ [][Next]_vars

\* The operating system runs every thread that can run.  Nothing is assumed of MySQL.
FairSpec ==
  /\ Spec
  /\ WF_vars(MainStep)
  /\ \A t \in Threads : WF_vars(ThreadStep(t))
-----------------------------------------------------------------------------
(***************************************************************************)
(* Properties.                                                             *)
(***************************************************************************)
\* The configurations that end a part of the process early: the socket thread
\* returns, or the main thread does with the socket thread running.
EndsEarly ==
  \/ ~ Has("port")
  \/ kind = "game" /\ ~ Has("db_list")
  \/ config.worker_num = 0

\* base_server.h, thread_socket.h: the threads share by pointer the configuration of
\* the main thread, the queue and the EpollServer, and no thread waits for another to
\* set them up or to be done with them.  They are there whenever one is used, unless
\* the configuration ends the socket thread or the main thread early.
SharedAreThere == misused => EndsEarly

\* db_server.cpp: every query the socket thread hands over is answered, or the server
\* goes down on it; a server that can answer no query does not stay.
QueryAnswered ==
  \A i \in 1..MaxMessages :
    (kind = "db" /\ i <= npush /\ sql[i] = "SQL_QUERY")
      ~> (i \in answered \/ over # "no" \/ config.worker_num = 0)

=============================================================================
