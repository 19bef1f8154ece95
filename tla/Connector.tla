----------------------------- MODULE Connector -----------------------------
(***************************************************************************)
(* common/connector.cpp and the FD_TYPE_CONNECT branches of                *)
(* common/epoll_server.cpp: the game server as a client of the database    *)
(* server.  init_timeout_cb connects and reconnects; requests of the       *)
(* worker go out and answers come back on the one connection.              *)
(*                                                                         *)
(* Unlike a Channel the Connector outlives its connection, buffers         *)
(* included.  A package is two bytes, so that a broken connection can tear *)
(* it; requests and answers are numbered in the order in which they are    *)
(* pushed.  The workers of the database server take requests in order and  *)
(* finish in any.  What a receiver makes of a package that it reads from   *)
(* its middle is not modelled: nothing happens after misread.              *)
(***************************************************************************)
EXTENDS Naturals, Sequences, FiniteSetsExt

CONSTANTS
  worker_num,           \* workers of the database server
  MaxPushes,            \* bound: requests of the worker
  MaxBreaks             \* bound: times the connection breaks

ASSUME WorkerAssumption == worker_num \in Nat \ {0}
ASSUME BoundAssumption == MaxPushes \in Nat /\ MaxBreaks \in Nat

VARIABLES
  link,                 \* the TCP connection: "up" or "down"
  success,              \* success_: the connector believes it is connected
  events,               \* what the connector's watcher waits for
  inBuf, outBuf,        \* the connector's buffers
  toServer, toClient,   \* bytes on the connection
  dbBuf,                \* the input buffer of the database server's channel
  dbq,                  \* mq2s_ of the database server: requests no worker has taken
  working,              \* requests that workers have taken and not done
  npush,                \* requests of the worker so far
  updates,              \* those that are SQL_UPDATE, which is not answered
  accepted,             \* requests written to outBuf, the others are deleted
  served,               \* requests taken by the workers of the database server
  replies,              \* for each answer they have pushed, the request it is for
  answered,             \* answers handed to the worker of the game server
  breaks,               \* times the connection broke
  misread               \* a receiver took the middle of a package for a header

requests == <<npush, updates, accepted>>
game == <<success, events, inBuf, outBuf, requests, answered>>
wires == <<toServer, toClient>>
workers == <<working, served, replies>>
server == <<dbBuf, dbq, workers>>
vars == <<link, game, wires, server, breaks, misread>>

Bytes(n) == <<[n |-> n, part |-> 1], [n |-> n, part |-> 2]>>

\* The packages at the front of a buffer, what is left of it, and whether every
\* package starts where one was written.
Packages(buf) == [i \in 1..(Len(buf) \div 2) |-> buf[2 * i - 1].n]
Rest(buf) == SubSeq(buf, 2 * (Len(buf) \div 2) + 1, Len(buf))
Framed(buf) == \A i \in 1..Len(buf) : buf[i].part = IF i % 2 = 1 THEN 1 ELSE 2

Init ==
  /\ link = "down" /\ success = FALSE /\ events = {}
  /\ inBuf = <<>> /\ outBuf = <<>> /\ toServer = <<>> /\ toClient = <<>>
  /\ dbBuf = <<>> /\ dbq = <<>> /\ working = {}
  /\ npush = 0 /\ updates = {} /\ accepted = {}
  /\ served = <<>> /\ replies = <<>> /\ answered = <<>>
  /\ breaks = 0 /\ misread = FALSE
-----------------------------------------------------------------------------
(***************************************************************************)
(* The socket thread of the game server.                                   *)
(***************************************************************************)
Interest(out) == IF out = <<>> THEN {"READ"} ELSE {"READ", "WRITE"}

\* GetUserfulConnector: there is one connector, and it believes it is connected.
GetUserfulConnector == success

\* libev calls connector_cb for an event the connector's watcher waits for.
connector_cb(event) == ~misread /\ success /\ event \in events

\* init_timeout_cb: OnTryConnect, when connect succeeds; when it fails nothing changes.
OnTryConnect ==
  /\ ~misread
  /\ ~success
  /\ link' = "up" /\ success' = TRUE /\ events' = {"READ"}
  /\ UNCHANGED <<inBuf, outBuf, requests, answered, wires, server, breaks, misread>>

\* Mutant: the watcher is not told of the output.
OnEventfd_Unarmed ==
  /\ ~misread
  /\ npush < MaxPushes
  /\ npush' = npush + 1
  /\ updates' \in {updates, updates \cup {npush + 1}}
  /\ IF GetUserfulConnector
       THEN /\ outBuf' = outBuf \o Bytes(npush + 1)
            /\ accepted' = accepted \cup {npush + 1}
            /\ UNCHANGED events
       ELSE UNCHANGED <<outBuf, events, accepted>>
  /\ UNCHANGED <<link, success, inBuf, answered, wires, server, breaks, misread>>

\* MQ2C_Push_Connector of a query or an update, and OnEventfd, MQ_TYPE_CONNECT: without
\* a usable connector the package is deleted.
OnEventfd ==
  /\ ~misread
  /\ npush < MaxPushes
  /\ npush' = npush + 1
  /\ updates' \in {updates, updates \cup {npush + 1}}
  /\ IF GetUserfulConnector
       THEN /\ outBuf' = outBuf \o Bytes(npush + 1)
            /\ accepted' = accepted \cup {npush + 1}
            /\ events' = Interest(outBuf')
       ELSE UNCHANGED <<outBuf, events, accepted>>
  /\ UNCHANGED <<link, success, inBuf, answered, wires, server, breaks, misread>>

\* Mutant: what was sent stays in the buffer unless it was everything.
OnWrite_Resend ==
  /\ connector_cb("WRITE")
  /\ Len(toServer) < 8
  /\ \E n \in 0..Len(outBuf) :
       /\ toServer' = IF link = "up" THEN toServer \o SubSeq(outBuf, 1, n) ELSE toServer
       /\ outBuf' = IF n = Len(outBuf) THEN <<>> ELSE outBuf
  /\ events' = Interest(outBuf')
  /\ UNCHANGED <<link, success, inBuf, requests, answered, toClient, server, breaks, misread>>

\* send takes n bytes; on a broken connection they are lost.
OnWrite ==
  /\ connector_cb("WRITE")
  /\ \E n \in 0..Len(outBuf) :
       /\ toServer' = IF link = "up" THEN toServer \o SubSeq(outBuf, 1, n) ELSE toServer
       /\ outBuf' = SubSeq(outBuf, n + 1, Len(outBuf))
  /\ events' = Interest(outBuf')
  /\ UNCHANGED <<link, success, inBuf, requests, answered, toClient, server, breaks, misread>>

\* OnRead: some bytes, every whole package to the worker, UpdateEvent.
OnRead ==
  /\ connector_cb("READ") /\ link = "up" /\ toClient # <<>>
  /\ \E n \in 1..Len(toClient) :
       LET buf == inBuf \o SubSeq(toClient, 1, n)
       IN /\ toClient' = SubSeq(toClient, n + 1, Len(toClient))
          /\ answered' = answered \o Packages(buf)
          /\ inBuf' = Rest(buf)
          /\ misread' = ~Framed(buf)
  /\ events' = Interest(outBuf)
  /\ UNCHANGED <<link, success, outBuf, requests, toServer, server, breaks>>

\* recv returns 0 or -1: RemoveEvent, and OnFdClosed closes the descriptor and
\* forgets it.  The buffers keep what they hold.
OnFdClosed ==
  /\ connector_cb("READ") /\ link = "down"
  /\ success' = FALSE /\ events' = {}
  /\ UNCHANGED <<link, inBuf, outBuf, requests, answered, wires, server, breaks, misread>>
-----------------------------------------------------------------------------
(***************************************************************************)
(* The database server, and the network between them.                      *)
(***************************************************************************)
\* The connection breaks; the database server's channel goes with its buffers.
Break ==
  /\ ~misread
  /\ link = "up" /\ breaks < MaxBreaks
  /\ link' = "down" /\ breaks' = breaks + 1
  /\ toServer' = <<>> /\ toClient' = <<>> /\ dbBuf' = <<>>
  /\ UNCHANGED <<game, dbq, workers, misread>>

\* OnRead of the database server.
ServerRead ==
  /\ ~misread
  /\ toServer # <<>>
  /\ \E n \in 1..Len(toServer) :
       LET buf == dbBuf \o SubSeq(toServer, 1, n)
       IN /\ toServer' = SubSeq(toServer, n + 1, Len(toServer))
          /\ dbq' = dbq \o Packages(buf)
          /\ dbBuf' = Rest(buf)
          /\ misread' = ~Framed(buf)
  /\ UNCHANGED <<link, game, toClient, workers, breaks>>

\* Mutant: a worker looks at the oldest request and takes it off when it is done.
MessageDispatch_Peek ==
  /\ ~misread
  /\ dbq # <<>> /\ Cardinality(working) < worker_num
  /\ served' = Append(served, Head(dbq))
  /\ working' = working \cup {Head(dbq)}
  /\ UNCHANGED <<link, game, wires, dbBuf, dbq, replies, breaks, misread>>

\* A DBWorker that is idle takes the oldest request.
MessageDispatch ==
  /\ ~misread
  /\ dbq # <<>> /\ Cardinality(working) < worker_num
  /\ dbq' = Tail(dbq)
  /\ working' = working \cup {Head(dbq)}
  /\ served' = Append(served, Head(dbq))
  /\ UNCHANGED <<link, game, wires, dbBuf, replies, breaks, misread>>

\* MQ2C_Push of an answer.  The socket thread drops it when the connection that the
\* request came from is gone, unless the next one got its descriptor.
MQ2C_Push(n) ==
  /\ replies' = Append(replies, n)
  /\ \/ link = "up" /\ toClient' = toClient \o Bytes(Len(replies) + 1)
     \/ breaks > 0 /\ UNCHANGED toClient

\* A worker is done with its request: a query is answered, an update is not.
ServerAnswer(n) ==
  /\ ~misread
  /\ n \in working
  /\ working' = working \ {n}
  /\ IF n \in updates THEN UNCHANGED <<replies, toClient>> ELSE MQ2C_Push(n)
  /\ UNCHANGED <<link, game, toServer, dbBuf, dbq, served, breaks, misread>>
-----------------------------------------------------------------------------
SocketThread == OnTryConnect \/ OnEventfd \/ OnWrite \/ OnRead \/ OnFdClosed

Next ==
  \/ SocketThread
  \/ Break \/ ServerRead
  \/ MessageDispatch \/ \E n \in working : ServerAnswer(n)

Spec == Init /\ [][Next]_vars

Requests == 1..MaxPushes

\* Both servers and all their workers keep running, libev serves every ready watcher,
\* and connect succeeds in the end; nothing makes a worker push or a connection break.
Fairness ==
  /\ WF_vars(OnTryConnect) /\ WF_vars(OnWrite)
  /\ WF_vars(OnRead) /\ WF_vars(OnFdClosed)
  /\ WF_vars(ServerRead) /\ WF_vars(MessageDispatch)
  /\ \A n \in Requests : WF_vars(ServerAnswer(n))

FairSpec == Spec /\ Fairness
-----------------------------------------------------------------------------
(***************************************************************************)
(* Properties.                                                             *)
(***************************************************************************)
Increasing(s) == \A i, j \in 1..Len(s) : i < j => s[i] < s[j]
Distinct(s) == \A i, j \in 1..Len(s) : s[i] = s[j] => i = j

\* No request reaches the workers of the database server twice or overtakes another,
\* however often the connection breaks; none is answered twice, whatever the workers
\* do at once; and the answers reach the game server at most once, in the order in which
\* the workers pushed them, which need not be that of the requests.
AtMostOnce ==
  ~misread => Increasing(served \o dbq) /\ Distinct(replies) /\ Increasing(answered)

\* On the first connection output waits for EV_WRITE, nobody loses its place in the
\* stream, and nothing is missing: neither a request that was accepted nor an answer.
FirstConnection ==
  breaks = 0 =>
    /\ success => events = Interest(outBuf)
    /\ ~misread
    /\ \A n \in accepted :
         \/ \E i \in 1..Len(served \o dbq) : (served \o dbq)[i] = n
         \/ \E i \in 1..Len(dbBuf \o toServer \o outBuf) : (dbBuf \o toServer \o outBuf)[i].n = n
    /\ \A k \in 1..Len(replies) :
         \/ \E i \in 1..Len(answered) : answered[i] = k
         \/ \E i \in 1..Len(inBuf \o toClient) : (inBuf \o toClient)[i].n = k

\* The answer to request n has been handed to the worker; an update has been taken.
Answered(n) == \E i \in 1..Len(answered) : replies[answered[i]] = n
Done(n) == IF n \in updates THEN \E i \in 1..Len(served) : served[i] = n ELSE Answered(n)

\* A query that was accepted is answered, and an update reaches a worker of the database,
\* if the connection holds.
AcceptedAnswered == \A n \in Requests : n \in accepted ~> breaks > 0 \/ Done(n)

=============================================================================
