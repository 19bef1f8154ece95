----------------------------- MODULE EpollServer -----------------------------
(***************************************************************************)
(* common/epoll_server.cpp and common/channel.cpp: the socket thread as    *)
(* the server of client connections.  Each libev callback is an action:    *)
(* accept, read, end of file or error, write, and one turn of the drain    *)
(* loop of OnEventfd.  The two lists of MessageQueue are plain sequences   *)
(* here (MessageQueue shows that they are FIFO pipes without lost          *)
(* wakeups), and one worker reads them, as in config.json.                 *)
(*                                                                         *)
(* A connection is known to the workers by its uniqid, and                 *)
(* GetUniqidFromFd makes the uniqid the file descriptor, which the kernel  *)
(* gives to the next connection once it is closed.  The model therefore    *)
(* tells a descriptor from the client behind it: messages and bytes carry, *)
(* besides what the code puts in them, the client they belong to.          *)
(*                                                                         *)
(* A package is two bytes, so that recv and send can tear it.  Timers and  *)
(* connectors are the subject of other modules.                            *)
(***************************************************************************)
EXTENDS Naturals, Sequences, FiniteSets, FiniteSetsExt

CONSTANTS
  Fds,                  \* file descriptors the kernel can give to connections
  Clients,              \* client connections, each made once
  NoClient,
  MaxPkgs,              \* bound: packages the clients send
  MaxReplies,           \* bound: messages the worker pushes to mq2c_
  MaxAddressees         \* bound: addressees that a message lists

ASSUME ClientAssumption == NoClient \notin Clients
ASSUME FdAssumption == Fds \subseteq Nat \ {0} /\ IsFiniteSet(Fds)
ASSUME BoundAssumption == MaxPkgs \in Nat /\ MaxReplies \in Nat /\ MaxAddressees \in Nat

VARIABLES
  peer,                 \* a client's end: "new", "open" or "closed"
  wire,                 \* bytes a client has sent and the server not received
  nsent,                \* packages each client has sent
  got,                  \* bytes each client has received
  backlog,              \* the listen queue
  owner,                \* the kernel's table: the client behind a descriptor
  chan,                 \* the keys of channel_map_
  inBuf, outBuf,        \* the buffers of each channel
  events,               \* the events each channel's watcher waits for
  mq2s, mq2c,           \* the lists of MessageQueue
  session,              \* the worker's view: the client it serves at a uniqid
  gone,                 \* clients whose CLOSE the worker has handled
  rcvd,                 \* packages of each client the worker has handled
  nreply,               \* messages the worker has pushed to mq2c_
  aborted               \* libev has aborted the process

network == <<peer, wire, nsent, got>>
channels == <<chan, inBuf, outBuf, events>>
worker == <<session, gone, rcvd, nreply>>
vars == <<network, backlog, owner, channels, mq2s, mq2c, worker, aborted>>

\* The n-th package of (for a reply: for) the clients `of', as bytes; when it is written
\* several times to one buffer, the bytes tell the copies apart.
Bytes(of, n) == <<[of |-> of, n |-> n, copy |-> 1, part |-> 1],
                  [of |-> of, n |-> n, copy |-> 1, part |-> 2]>>

Free == {fd \in Fds : owner[fd] = NoClient}

Init ==
  /\ peer = [c \in Clients |-> "new"]
  /\ wire = [c \in Clients |-> <<>>]
  /\ nsent = [c \in Clients |-> 0]
  /\ got = [c \in Clients |-> <<>>]
  /\ backlog = <<>>
  /\ owner = [fd \in Fds |-> NoClient]
  /\ chan = {}
  /\ inBuf = [fd \in Fds |-> <<>>]
  /\ outBuf = [fd \in Fds |-> <<>>]
  /\ events = [fd \in Fds |-> {}]
  /\ mq2s = <<>> /\ mq2c = <<>>
  /\ session = [fd \in Fds |-> NoClient]
  /\ gone = {}
  /\ rcvd = [c \in Clients |-> <<>>]
  /\ nreply = 0
  /\ aborted = FALSE
-----------------------------------------------------------------------------
(***************************************************************************)
(* Clients.                                                                *)
(***************************************************************************)
Connect(c) ==
  /\ peer[c] = "new"
  /\ peer' = [peer EXCEPT ![c] = "open"]
  /\ backlog' = Append(backlog, c)
  /\ UNCHANGED <<wire, nsent, got, owner, channels, mq2s, mq2c, worker, aborted>>

Send(c) ==
  /\ peer[c] = "open" /\ MapThenSumSet(LAMBDA d : nsent[d], Clients) < MaxPkgs
  /\ nsent' = [nsent EXCEPT ![c] = @ + 1]
  /\ wire' = [wire EXCEPT ![c] = @ \o Bytes({c}, nsent[c] + 1)]
  /\ UNCHANGED <<peer, got, backlog, owner, channels, mq2s, mq2c, worker, aborted>>

Close(c) ==
  /\ peer[c] = "open"
  /\ peer' = [peer EXCEPT ![c] = "closed"]
  /\ UNCHANGED <<wire, nsent, got, backlog, owner, channels, mq2s, mq2c, worker, aborted>>
-----------------------------------------------------------------------------
(***************************************************************************)
(* Socket thread.                                                          *)
(***************************************************************************)
\* UpdateEvent: always readable, and writable while there is output.
Interest(out) == IF out = <<>> THEN {"READ"} ELSE {"READ", "WRITE"}

\* AddEvent and RemoveEvent: the watcher of a descriptor is started and stopped.
AddEvent(fd) == events' = [events EXCEPT ![fd] = {"READ"}]
RemoveEvent(fd) == events' = [events EXCEPT ![fd] = {}]

\* AddChannel keeps the channel it finds under the descriptor, buffers included.
AddChannel(fd) ==
  /\ chan' = chan \cup {fd}
  /\ inBuf' = [inBuf EXCEPT ![fd] = IF fd \in chan THEN @ ELSE <<>>]
  /\ outBuf' = [outBuf EXCEPT ![fd] = IF fd \in chan THEN @ ELSE <<>>]

\* The name of a connection outside the socket thread, and back.
GetUniqidFromFd(fd) == fd
GetFdFromUniqid(uniqid) == uniqid

\* Mutant: the loop over the addressees ends at one that has no channel.
GetChannels_Break(uniqids) ==
  {i \in DOMAIN uniqids : \A j \in 1..i : GetFdFromUniqid(uniqids[j]) \in chan}

\* The places in a list of addressees for which GetChannel finds a channel.
GetChannels(uniqids) == {i \in DOMAIN uniqids : GetFdFromUniqid(uniqids[i]) \in chan}

\* How often the loop over the addressees comes to the descriptor fd and writes to it,
\* and what it has written then.
Times(uniqids, fd) == Cardinality({i \in GetChannels(uniqids) : GetFdFromUniqid(uniqids[i]) = fd})
Copies(pack, k) ==
  [i \in 1..(2 * k) |-> [pack[IF i % 2 = 1 THEN 1 ELSE 2] EXCEPT !.copy = (i + 1) \div 2]]

\* libev calls r_w_cb for a descriptor and an event its watcher waits for.
r_w_cb(fd, event) == ~aborted /\ fd \in chan /\ event \in events[fd]

\* accept takes the lowest free descriptor; AddEvent; AddChannel.
OnAccept ==
  /\ ~aborted
  /\ backlog # <<>> /\ Free # {}
  /\ LET fd == Min(Free)
     IN /\ owner' = [owner EXCEPT ![fd] = Head(backlog)]
        /\ AddEvent(fd)
        /\ AddChannel(fd)
  /\ backlog' = Tail(backlog)
  /\ UNCHANGED <<network, mq2s, mq2c, worker, aborted>>

\* accept fails, for lack of descriptors or of memory.  OnAccept logs that and
\* goes on with descriptor -1, which ev_io_start answers with a failed assertion.
OnAcceptError ==
  /\ ~aborted
  /\ backlog # <<>>
  /\ aborted' = TRUE
  /\ UNCHANGED <<network, backlog, owner, channels, mq2s, mq2c, worker>>

\* The messages for the whole packages at the front of a buffer, and the rest.
Packages(fd, buf) ==
  [i \in 1..(Len(buf) \div 2) |->
     [type |-> "PACK", uniqid |-> GetUniqidFromFd(fd), conn |-> owner[fd],
      pack |-> SubSeq(buf, 2 * i - 1, 2 * i)]]

\* Mutant: what is left of a read after its whole packages is thrown away.
Rest_Dropped(buf) == <<>>

Rest(buf) == SubSeq(buf, 2 * (Len(buf) \div 2) + 1, Len(buf))

\* recv returns some bytes; every whole package in the buffer is pushed.
OnRead(fd) ==
  /\ r_w_cb(fd, "READ")
  /\ \E n \in 1..Len(wire[owner[fd]]) :
       LET buf == inBuf[fd] \o SubSeq(wire[owner[fd]], 1, n)
       IN /\ wire' = [wire EXCEPT ![owner[fd]] = SubSeq(@, n + 1, Len(@))]
          /\ mq2s' = mq2s \o Packages(fd, buf)
          /\ inBuf' = [inBuf EXCEPT ![fd] = Rest(buf)]
  /\ events' = [events EXCEPT ![fd] = Interest(outBuf[fd])]
  /\ UNCHANGED <<peer, nsent, got, backlog, owner, chan, outBuf, mq2c, worker, aborted>>

CloseMessage(fd) ==
  [type |-> "CLOSE", uniqid |-> GetUniqidFromFd(fd), conn |-> owner[fd], pack |-> <<>>]

\* Mutant: the worker is not told.
OnFdClosed_Silent(fd) ==
  /\ owner' = [owner EXCEPT ![fd] = NoClient]
  /\ chan' = chan \ {fd}
  /\ RemoveEvent(fd)
  /\ inBuf' = [inBuf EXCEPT ![fd] = <<>>]
  /\ outBuf' = [outBuf EXCEPT ![fd] = <<>>]
  /\ UNCHANGED <<backlog, mq2s, mq2c, worker, aborted, nsent, got>>

\* Mutant: the close overtakes what was read before it.
OnFdClosed_Overtake(fd) ==
  /\ owner' = [owner EXCEPT ![fd] = NoClient]
  /\ chan' = chan \ {fd}
  /\ RemoveEvent(fd)
  /\ inBuf' = [inBuf EXCEPT ![fd] = <<>>]
  /\ outBuf' = [outBuf EXCEPT ![fd] = <<>>]
  /\ mq2s' = <<CloseMessage(fd)>> \o mq2s
  /\ UNCHANGED <<backlog, mq2c, worker, aborted, nsent, got>>

\* RemoveEvent and OnFdClosed: the channel leaves channel_map_ and is deleted,
\* which closes the descriptor; then the worker is told.
OnFdClosed(fd) ==
  /\ owner' = [owner EXCEPT ![fd] = NoClient]
  /\ chan' = chan \ {fd}
  /\ RemoveEvent(fd)
  /\ inBuf' = [inBuf EXCEPT ![fd] = <<>>]
  /\ outBuf' = [outBuf EXCEPT ![fd] = <<>>]
  /\ mq2s' = Append(mq2s, CloseMessage(fd))
  /\ UNCHANGED <<backlog, mq2c, worker, aborted, nsent, got>>

\* recv returns 0: the client has closed and everything it sent is read.
OnReadEof(fd) ==
  /\ r_w_cb(fd, "READ")
  /\ peer[owner[fd]] = "closed" /\ wire[owner[fd]] = <<>>
  /\ OnFdClosed(fd)
  /\ UNCHANGED <<peer, wire>>

\* recv returns -1: a reset, a timeout, or no data after all (EAGAIN), which
\* OnRead does not tell apart.  What the client sent and was not read is lost.
OnReadError(fd) ==
  /\ r_w_cb(fd, "READ")
  /\ OnFdClosed(fd)
  /\ peer' = [peer EXCEPT ![owner[fd]] = "closed"]
  /\ wire' = [wire EXCEPT ![owner[fd]] = <<>>]

\* Mutant: a partial send removes nothing from the buffer.
OnWrite_Resend(fd) ==
  /\ r_w_cb(fd, "WRITE")
  /\ \E n \in 0..Len(outBuf[fd]) :
       /\ Len(got[owner[fd]]) < 12
       /\ got' = [got EXCEPT ![owner[fd]] =
                    IF peer[owner[fd]] = "open" THEN @ \o SubSeq(outBuf[fd], 1, n) ELSE @]
       /\ outBuf' = [outBuf EXCEPT ![fd] = IF n = Len(@) THEN <<>> ELSE @]
  /\ events' = [events EXCEPT ![fd] = Interest(outBuf'[fd])]
  /\ UNCHANGED <<peer, wire, nsent, backlog, owner, chan, inBuf, mq2s, mq2c, worker, aborted>>

\* send takes n bytes in all; with n short of the buffer's length the last send
\* returned -1 and EV_WRITE stays.  What is sent to a closed client is lost.
OnWrite(fd) ==
  /\ r_w_cb(fd, "WRITE")
  /\ \E n \in 0..Len(outBuf[fd]) :
       /\ got' = [got EXCEPT ![owner[fd]] =
                    IF peer[owner[fd]] = "open" THEN @ \o SubSeq(outBuf[fd], 1, n) ELSE @]
       /\ outBuf' = [outBuf EXCEPT ![fd] = SubSeq(@, n + 1, Len(@))]
  /\ events' = [events EXCEPT ![fd] = Interest(outBuf'[fd])]
  /\ UNCHANGED <<peer, wire, nsent, backlog, owner, chan, inBuf, mq2s, mq2c, worker, aborted>>

\* One turn of the drain loop of OnEventfd: the package goes to the buffer of every
\* addressee that still has a channel, once for each time it is listed; the others are
\* skipped.
OnEventfd ==
  /\ ~aborted
  /\ mq2c # <<>>
  /\ LET times(fd) == Times(Head(mq2c).uniqids, fd)
     IN /\ outBuf' = [fd \in Fds |-> outBuf[fd] \o Copies(Head(mq2c).pack, times(fd))]
        /\ events' = [fd \in Fds |-> IF times(fd) > 0 THEN Interest(outBuf'[fd]) ELSE events[fd]]
  /\ mq2c' = Tail(mq2c)
  /\ UNCHANGED <<network, backlog, owner, chan, inBuf, mq2s, worker, aborted>>
-----------------------------------------------------------------------------
(***************************************************************************)
(* Worker.  GameWorker and DBWorker pop one message after the other.  What *)
(* they keep per uniqid is reduced to the client they serve there.         *)
(***************************************************************************)
\* The worker pops a message and the case of its type is taken.
MessageDispatch(type) ==
  /\ ~aborted
  /\ mq2s # <<>> /\ Head(mq2s).type = type
  /\ mq2s' = Tail(mq2s)

\* cpp2py: the package is handed to the scripts under its uniqid.
OnServer(m) ==
  /\ session' = [session EXCEPT ![m.uniqid] = m.conn]
  /\ rcvd' = [rcvd EXCEPT ![m.conn] = Append(@, m.pack)]

HandlePack ==
  /\ MessageDispatch("PACK")
  /\ OnServer(Head(mq2s))
  /\ UNCHANGED <<network, backlog, owner, channels, mq2c, gone, nreply, aborted>>

\* cpp2py: the scripts forget the connection.
OnPyFdClosed(m) ==
  /\ session' = [session EXCEPT ![m.uniqid] = NoClient]
  /\ gone' = gone \cup {m.conn}

HandleClose ==
  /\ MessageDispatch("CLOSE")
  /\ OnPyFdClosed(Head(mq2s))
  /\ UNCHANGED <<network, backlog, owner, channels, mq2c, rcvd, nreply, aborted>>

Serving == {fd \in Fds : session[fd] # NoClient}

\* MQ2C_Push or MQ2C_Push_Broadcast of one package, to the addressees in a list.
PushToSocket(uniqids, of) ==
  /\ ~aborted
  /\ nreply < MaxReplies
  /\ nreply' = nreply + 1
  /\ mq2c' = Append(mq2c, [uniqids |-> uniqids, pack |-> Bytes(of, nreply + 1)])
  /\ UNCHANGED <<network, backlog, owner, channels, mq2s, session, gone, rcvd, aborted>>

\* call_client, at once or later (a tick, a timer, an answer from the database).
Reply == \E fd \in Serving : PushToSocket(<<fd>>, {session[fd]})

\* broad_cast to some of the clients served: ChatRoom.talk lists the socket of every
\* player in the room, twice when two of them have logged in on it ...
BroadcastSome ==
  \E k \in 0..MaxAddressees : \E fds \in [1..k -> Serving] :
    PushToSocket(fds, {session[fds[i]] : i \in 1..k})

\* ... or to all of them, when MQ2C_Push_Broadcast fills in no addressees.
BroadcastAll == PushToSocket(<<>>, {session[fd] : fd \in Serving})
-----------------------------------------------------------------------------
SocketThread ==
  \/ OnAccept \/ OnAcceptError \/ OnEventfd
  \/ \E fd \in Fds : OnRead(fd) \/ OnReadEof(fd) \/ OnReadError(fd) \/ OnWrite(fd)
Worker == HandlePack \/ HandleClose \/ Reply \/ BroadcastSome \/ BroadcastAll
Client == \E c \in Clients : Connect(c) \/ Send(c) \/ Close(c)

Next == SocketThread \/ Worker \/ Client

Spec == Init /\ [][Next]_vars

(***************************************************************************)
(* epoll is level triggered and libev serves every ready watcher; a client *)
(* that stays open keeps reading, so OnWrite cannot return -1 for ever;    *)
(* the worker keeps popping.  Clients owe nothing else.                    *)
(***************************************************************************)
Fairness ==
  /\ WF_vars(OnAccept \/ OnAcceptError)
  /\ WF_vars(OnEventfd)
  /\ \A fd \in Fds : WF_vars(OnRead(fd) \/ OnReadEof(fd)) /\ WF_vars(OnWrite(fd))
  /\ WF_vars(HandlePack \/ HandleClose)

FairSpec == Spec /\ Fairness
-----------------------------------------------------------------------------
(***************************************************************************)
(* Properties.                                                             *)
(***************************************************************************)
\* The worker gets what each client sent, package by package, in order and
\* without a gap, however the bytes arrive and whoever had the descriptor before.
InboundIntegrity ==
  \A c \in Clients : rcvd[c] = [i \in 1..Len(rcvd[c]) |-> Bytes({c}, i)]

\* A byte sequence that only the end of the connection may have cut.
Whole(bytes) ==
  \A i \in 1..Len(bytes) :
    IF i % 2 = 1 THEN bytes[i].part = 1
    ELSE bytes[i] = [bytes[i - 1] EXCEPT !.part = 2]

\* The packages of a byte sequence are numbered upwards, and so are the copies of each.
InOrder(bytes) ==
  \A i, j \in 1..Len(bytes) :
    i < j /\ bytes[i].part = bytes[j].part =>
      \/ bytes[i].n < bytes[j].n
      \/ bytes[i].n = bytes[j].n /\ bytes[i].copy < bytes[j].copy

\* A client never receives a torn package, however send cuts the output and
\* although descriptors are reused, and the packages it receives keep the order
\* in which the worker pushed them: none is overtaken, and none is repeated but for the
\* copies that its message asks for by listing the client's descriptor several times.
OutboundWhole == \A c \in Clients : Whole(got[c]) /\ InOrder(got[c])

\* The worker's session at a uniqid never passes from one client to another
\* without the CLOSE of the first in between, and a client the worker has seen
\* closed does not come back: uniqid = fd is safe on the way in.
SessionProtocol ==
  [][\A fd \in Fds :
       session'[fd] # session[fd] =>
         /\ session[fd] = NoClient \/ session'[fd] = NoClient
         /\ session'[fd] \notin gone]_vars

\* Every connection the client closes is reported to the worker, unless accept
\* has failed before and taken the process with it.
CloseReported == \A c \in Clients : peer[c] = "closed" ~> c \in gone \/ aborted

\* Package n waits in mq2c_, and its message lists k times a descriptor that client c has.
Addressed(c, n, k) ==
  \E i \in 1..Len(mq2c) :
    /\ mq2c[i].pack[1].n = n
    /\ Cardinality({j \in DOMAIN mq2c[i].uniqids : owner[mq2c[i].uniqids[j]] = c}) >= k

\* The k-th copy of package n has arrived at client c.
Arrived(c, n, k) ==
  \E i \in 1..Len(got[c]) : got[c][i].n = n /\ got[c][i].copy = k /\ got[c][i].part = 2

\* A reply or a broadcast reaches every addressee it lists that stays connected, as often
\* as it is listed, whichever of the others have gone meanwhile and however send cuts
\* the output.
AddresseesServed ==
  \A c \in Clients, n \in 1..MaxReplies, k \in 1..MaxAddressees :
    Addressed(c, n, k) ~> Arrived(c, n, k) \/ peer[c] = "closed" \/ aborted

\* ClientProxy.send_data: what the worker sends to a client goes to that client.
DeliveredToAddressee ==
  \A c \in Clients : \A i \in 1..Len(got[c]) : c \in got[c][i].of

=============================================================================
