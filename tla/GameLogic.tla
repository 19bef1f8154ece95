----------------------------- MODULE GameLogic -----------------------------
(***************************************************************************)
(* The scripts of the game server that own the players: LoginMgr,          *)
(* ClientProxyManager, PlayerMgr (SaveObjMgr), Player (SaveObj) and        *)
(* ChatRoom, with the database behind them.  One worker runs the scripts,  *)
(* so a handler is one action; what interleaves is the order of the        *)
(* messages it handles: commands of clients, closed connections, ticks,    *)
(* and answers to queries that were made some time ago.                    *)
(*                                                                         *)
(* The columns of a player are reduced to its level and the chat channel   *)
(* that its data column holds.  Requests reach the database server in      *)
(* order; each of its workers takes one and serves it before the next.     *)
(* SqlExec shows that an answer finds its own callback, so a SELECT        *)
(* carries the object that waits for it.  A socket that is closed may come *)
(* back as another client.                                                 *)
(***************************************************************************)
EXTENDS Naturals, Sequences, SequencesExt

CONSTANTS
  Socks,                \* the sockets of clients (uniqids of the C++ side)
  Ids,                  \* player ids (uniqids of the scripts)
  None,                 \* no player id, no object, no row
  worker_num,           \* workers of the database server
  PersistentTime,       \* GameServerRepo.persistent_time, in ticks
  MaxLv,                \* bound: the highest level
  MaxRequests           \* bound: commands handled

ASSUME IdsAssumption == IsFiniteSet(Ids) /\ None \notin Ids
ASSUME BoundAssumption ==
  /\ worker_num \in Nat \ {0} /\ PersistentTime \in Nat \ {0}
  /\ MaxLv \in Nat \ {0}
  /\ MaxRequests \in Nat

VARIABLES
  client_map,           \* ClientProxyManager: the player id of a socket's proxy
  save_objs,            \* PlayerMgr: the Player object of an id
  toDb,                 \* requests on the way to the database, in order
  chat_channel,         \* ChatRoom: the ids that were added to a channel
  toGame,               \* answers on the way back, in order
  db,                   \* the player table
  nrequest,             \* commands handled so far
  shared,               \* players for which create_player added a second proxy
  strays,               \* players in memory whose client went before they came, or took another
  overtaken,            \* players one of whose requests was served before an earlier one
  replaced              \* <<player, columns>>: what an answer has replaced unsaved

scripts == <<client_map, save_objs, chat_channel>>
history == <<shared, strays>>
vars == <<scripts, toDb, toGame, db, nrequest, history, overtaken, replaced>>

Lvs == 1..MaxLv

\* CHANNEL_LIST holds 1 to 8; a new player is in 0, and set_channel knows only 1.
Channels == {0, 1}

\* The columns that matter.
Cols == [lv : Lvs, channel : Channels]

\* A Player: the socket of its clientproxy, its columns, _dirty and tick_num, and
\* whether set_channel has moved it since it was made.
Player == [sockfd : Socks, cols : Cols, dirty : BOOLEAN,
           tick_num : 0..(PersistentTime - 1), moved : BOOLEAN]

ASSUME NoneAssumption == None \notin Cols \cup Player

Select(id, s) == [op |-> "SELECT", id |-> id, sockfd |-> s, cols |-> None]
Insert(id, cols) == [op |-> "INSERT", id |-> id, sockfd |-> None, cols |-> cols]
Update(id, cols) == [op |-> "UPDATE", id |-> id, sockfd |-> None, cols |-> cols]

\* The columns after after_create; a row may also have been left by an earlier run.
NewCols == [lv |-> 1, channel |-> 0]

Init ==
  /\ client_map = [s \in Socks |-> None]
  /\ save_objs = [id \in Ids |-> None]
  /\ chat_channel = [c \in Channels |-> {}]
  /\ toDb = <<>> /\ toGame = <<>>
  /\ db \in [Ids -> {NewCols, [lv |-> 1, channel |-> 1], None}]
  /\ nrequest = 0
  /\ shared = {} /\ strays = {} /\ overtaken = {} /\ replaced = {}
-----------------------------------------------------------------------------
(***************************************************************************)
(* SaveObj and Player.                                                     *)
(***************************************************************************)
\* Player(id, clientproxy): setId leaves the new object dirty.
NewPlayer(s, cols) ==
  [sockfd |-> s, cols |-> cols, dirty |-> TRUE, tick_num |-> 0, moved |-> FALSE]

\* The setter of a column.
setAttr(obj, lv) == [obj EXCEPT !.cols.lv = lv, !.dirty = TRUE]

\* Mutant: the channel changes without update().
set_channel_Clean(obj) == [obj EXCEPT !.cols.channel = 1, !.moved = TRUE]

\* Player.set_channel: update() and the one channel; the room is not told.
set_channel(obj) == [obj EXCEPT !.cols.channel = 1, !.dirty = TRUE, !.moved = TRUE]

\* Mutant: destroy drops the references only.
destroy_NoSave(id) == <<>>

\* destroy: what it sends to the database.
destroy(id) ==
  IF save_objs[id] # None /\ save_objs[id].dirty THEN <<Update(id, save_objs[id].cols)>> ELSE <<>>

\* Mutant: the limit is tested with the wrong sign of equality.
Saves_Late(obj) == obj # None /\ obj.tick_num + 1 > PersistentTime /\ obj.dirty

\* SaveObj.OnTick: whether the object is saved at this tick, and what it becomes.
Saves(obj) == obj # None /\ obj.tick_num + 1 >= PersistentTime /\ obj.dirty

\* Mutant: one tick too many.
Ticked_Late(obj) ==
  IF obj = None THEN None
  ELSE IF obj.tick_num < PersistentTime THEN [obj EXCEPT !.tick_num = @ + 1]
  ELSE [obj EXCEPT !.tick_num = 0, !.dirty = FALSE]

Ticked(obj) ==
  IF obj = None THEN None
  ELSE IF obj.tick_num + 1 < PersistentTime THEN [obj EXCEPT !.tick_num = @ + 1]
  ELSE [obj EXCEPT !.tick_num = 0, !.dirty = FALSE]
-----------------------------------------------------------------------------
(***************************************************************************)
(* ClientProxyManager, PlayerMgr, ChatRoom and the parts of LoginMgr.      *)
(* Each handler is a new client_map, a new save_objs and what is sent to   *)
(* the database.                                                           *)
(***************************************************************************)
\* set_client_proxy and remove_client_proxy.
WithProxy(map, s, id) == [map EXCEPT ![s] = id]
WithoutProxy(map, s) == [map EXCEPT ![s] = None]

\* get_client_proxy_by_uniqid: some socket with that player.
SocksOf(id) == {s \in Socks : client_map[s] = id}

\* SaveObjMgr: GetObj finds an object, AddObj replaces what is there, DelObj.
GetObj(id) == save_objs[id] # None
AddObj(id, obj) == [save_objs EXCEPT ![id] = obj]
DelObj(id) == [save_objs EXCEPT ![id] = None]

\* SqlExec to the database server: on_load and on_save.
Push(requests) == toDb' = toDb \o requests

\* LoadObj: an object in memory is handed to _login_callback, which adds it again;
\* otherwise a new one asks for its row.
LoadObj(objs, id, s) == IF objs[id] = None THEN <<Select(id, s)>> ELSE <<>>

\* CreateObj hands out the object that is there; a new one is inserted into the
\* table by after_create and stays dirty.
CreateObj(id, s) ==
  IF GetObj(id)
    THEN UNCHANGED <<save_objs, toDb>>
    ELSE save_objs' = AddObj(id, NewPlayer(s, NewCols)) /\ Push(<<Insert(id, NewCols)>>)

\* protocol_parse: the player of a socket, for commands after the login.
protocol_parse(s) == {id \in Ids : client_map[s] = id /\ GetObj(id)}

\* add_player_2_channel; nothing takes a player out again.
add_player_2_channel(c, id) == [chat_channel EXCEPT ![c] = @ \cup {id}]

\* Mutant: everybody in memory is addressed.
Hearers_All(c) == {save_objs[id].sockfd : id \in {i \in Ids : GetObj(i)}}

\* talk: the sockets of the members of a channel that are in memory.
Hearers(c) == {save_objs[id].sockfd : id \in {i \in chat_channel[c] : GetObj(i)}}

\* The history of a step: players that lose touch with their client, until they go.
LoseTouch(ids) == strays' = {id \in strays \cup ids : save_objs'[id] # None}

\* And columns that were never saved, when an answer brings others.
Replace(a) ==
  replaced' = IF a.cols # None /\ save_objs[a.id] # None /\ save_objs[a.id].dirty
                 /\ save_objs[a.id].cols # a.cols
                THEN replaced \cup {<<a.id, save_objs[a.id].cols>>} ELSE replaced

\* Another player that the socket had until now.
Abandoned(s, id) == {client_map[s]} \ {id, None}
-----------------------------------------------------------------------------
(***************************************************************************)
(* Handlers of the commands and of a closed socket.  They share what       *)
(* dispatch_protocol and OnFdClosed say: one message more is handled.      *)
(***************************************************************************)
\* LoginMgr.create_player.
create_player(s, id) ==
  /\ shared' = IF SocksOf(id) \subseteq {s} THEN shared ELSE shared \cup {id}
  /\ client_map' = WithProxy(client_map, s, id)
  /\ CreateObj(id, s)
  /\ LoseTouch(Abandoned(s, id))

\* _check_relogin: another proxy has the player, to be kicked.
check_relogin(id) == SocksOf(id) # {}

\* Mutant: a login does not look for an earlier one.
login_player_NoKick(s, id) ==
  /\ client_map' = WithProxy(client_map, s, id)
  /\ Push(LoadObj(save_objs, id, s))
  /\ UNCHANGED <<save_objs, shared>>
  /\ LoseTouch(Abandoned(s, id))

\* _kick_player: one of its proxies goes, the player is saved and deleted.
kick_player(id, s, old) ==
  /\ client_map' = WithProxy(WithoutProxy(client_map, old), s, id)
  /\ save_objs' = DelObj(id)
  /\ Push(destroy(id) \o LoadObj(save_objs', id, s))

\* LoginMgr.login_player: _check_relogin and _kick_player, the new proxy, LoadObj.
login_player(s, id) ==
  /\ IF check_relogin(id)
       THEN \E old \in SocksOf(id) : kick_player(id, s, old)
       ELSE /\ client_map' = WithProxy(client_map, s, id)
            /\ Push(LoadObj(save_objs, id, s))
            /\ UNCHANGED save_objs
  /\ UNCHANGED shared
  /\ LoseTouch(Abandoned(s, id))

\* Mutant: the proxy goes, the player stays.
Leave_KeepObj(s) ==
  /\ client_map' = WithoutProxy(client_map, s)
  /\ UNCHANGED <<save_objs, toDb, history>>

\* What login_out_player and player_sockfd_close do: save and delete the player
\* of the socket's proxy, and the proxy.
Leave(s) ==
  IF client_map[s] = None
    THEN UNCHANGED <<client_map, save_objs, toDb, history>>
    ELSE /\ client_map' = WithoutProxy(client_map, s)
         /\ save_objs' = DelObj(client_map[s])
         /\ Push(destroy(client_map[s]))
         /\ UNCHANGED shared
         /\ LoseTouch({})

login_out_player(s) == Leave(s)

player_sockfd_close(s) == Leave(s)

\* proto_2_2: the player of the socket gets a higher level.  Without a player the
\* handler raises, which dispatch_protocol catches.
setLv(s) ==
  /\ \E id \in protocol_parse(s) :
       /\ save_objs[id].cols.lv < MaxLv
       /\ save_objs' = [save_objs EXCEPT ![id] = setAttr(@, @.cols.lv + 1)]
  /\ UNCHANGED <<client_map, toDb, history>>

\* proto_2_1.
setChannel(s) ==
  /\ \E id \in protocol_parse(s) : save_objs' = [save_objs EXCEPT ![id] = set_channel(@)]
  /\ UNCHANGED <<client_map, toDb, history>>

\* proto_2_3: what is said goes to Hearers; a player in channel 0 returns, and one in
\* a channel that nobody has entered raises.
talk(s) ==
  /\ \E id \in protocol_parse(s) : save_objs[id].cols.channel # 0
  /\ UNCHANGED <<client_map, save_objs, toDb, history>>

Handled ==
  /\ nrequest < MaxRequests
  /\ nrequest' = nrequest + 1
  /\ UNCHANGED <<chat_channel, toGame, db, overtaken, replaced>>

\* A command of a client; what its handler raises is caught.
dispatch_protocol(s) ==
  /\ Handled
  /\ \/ \E id \in Ids : create_player(s, id) \/ login_player(s, id)
     \/ login_out_player(s)
     \/ setLv(s)
     \/ setChannel(s)
     \/ talk(s)

\* The CLOSE of a socket, through cpp2py and pymain.
OnFdClosed(s) == Handled /\ player_sockfd_close(s)
-----------------------------------------------------------------------------
(***************************************************************************)
(* Ticks, and answers of the database.                                     *)
(***************************************************************************)
\* SaveObjMgr.OnTick: every object in memory; their UPDATEs concern different
\* rows, so any order will do.
TickObjs ==
  /\ Push(SetToSeq({Update(id, save_objs[id].cols) : id \in {i \in Ids : Saves(save_objs[i])}}))
  /\ save_objs' = [id \in Ids |-> Ticked(save_objs[id])]

\* A TICK, through cpp2py, pymain and GameServer.
OnTick ==
  /\ \E id \in Ids : GetObj(id)
  /\ TickObjs
  /\ UNCHANGED <<client_map, chat_channel, toGame, db, nrequest, history, overtaken, replaced>>

\* _login_callback without a player: the proxy that has the id now is told, and
\* removed.
login_failed(id) ==
  IF SocksOf(id) = {} THEN UNCHANGED client_map
  ELSE \E s \in SocksOf(id) : client_map' = WithoutProxy(client_map, s)

\* Mutant: a player enters the room of the channel it would have had if made anew.
loadFromDb_NoJoin(a) ==
  IF a.cols # None
    THEN /\ save_objs' = AddObj(a.id, NewPlayer(a.sockfd, a.cols))
         /\ chat_channel' = add_player_2_channel(NewCols.channel, a.id)
         /\ LoseTouch(IF client_map[a.sockfd] = a.id THEN {} ELSE {a.id})
         /\ UNCHANGED client_map
    ELSE UNCHANGED <<save_objs, chat_channel>> /\ login_failed(a.id) /\ LoseTouch({a.id})

\* loadFromDb of the object LoadObj made: with a row, _login_callback adds it
\* whatever is there, and after_load enters it into the room of its channel.
loadFromDb(a) ==
  IF a.cols # None
    THEN /\ save_objs' = AddObj(a.id, NewPlayer(a.sockfd, a.cols))
         /\ chat_channel' = add_player_2_channel(a.cols.channel, a.id)
         /\ LoseTouch(IF client_map[a.sockfd] = a.id THEN {} ELSE {a.id})
         /\ UNCHANGED client_map
    ELSE UNCHANGED <<save_objs, chat_channel>> /\ login_failed(a.id) /\ LoseTouch({a.id})

\* OnConnector of cpp2py and pymain: the answer to a SELECT reaches its callback.
OnConnector ==
  /\ toGame # <<>>
  /\ loadFromDb(Head(toGame)) /\ Replace(Head(toGame))
  /\ toGame' = Tail(toGame)
  /\ UNCHANGED <<toDb, db, nrequest, shared, overtaken>>
-----------------------------------------------------------------------------
(***************************************************************************)
(* DBWorker.                                                               *)
(***************************************************************************)
\* What a request makes of the row of its player: an INSERT fails when the row is
\* there, an UPDATE when it is not.
Row(row, r) ==
  IF (r.op = "INSERT" /\ row = None) \/ (r.op = "UPDATE" /\ row # None) THEN r.cols ELSE row

\* DealQuerySqlOne: the row, or {}.
Found(r) == [id |-> r.id, sockfd |-> r.sockfd, cols |-> db[r.id]]

\* The workers take the requests in order, so those they have taken are the oldest
\* ones; any of them may be done first.  A SELECT is answered.
DealSql(i) ==
  LET r == toDb[i]
  IN /\ db' = [db EXCEPT ![r.id] = Row(@, r)]
     /\ toGame' = IF r.op = "SELECT" THEN Append(toGame, Found(r)) ELSE toGame
     /\ toDb' = RemoveAt(toDb, i)
     /\ overtaken' = IF \E j \in 1..(i - 1) : toDb[j].id = r.id THEN overtaken \cup {r.id} ELSE overtaken
     /\ UNCHANGED <<scripts, nrequest, history, replaced>>

DBWorker == \E i \in 1..worker_num : i <= Len(toDb) /\ DealSql(i)
-----------------------------------------------------------------------------
Next ==
  \/ \E s \in Socks : dispatch_protocol(s) \/ OnFdClosed(s)
  \/ OnTick \/ OnConnector \/ DBWorker

Spec == Init /\ [][Next]_vars

\* init_timeout_cb pushes a tick every second; the workers of both servers keep
\* running, and none is overtaken for ever.
FairSpec ==
  /\ Spec
  /\ WF_vars(OnTick) /\ WF_vars(OnConnector)
  /\ WF_vars(toDb # <<>> /\ DealSql(1))
-----------------------------------------------------------------------------
(***************************************************************************)
(* Properties.                                                             *)
(***************************************************************************)
\* Every variable has its type.
TypeOK ==
  /\ client_map \in [Socks -> Ids \cup {None}]
  /\ save_objs \in [Ids -> Player \cup {None}]
  /\ chat_channel \in [Channels -> SUBSET Ids]
  /\ toDb \in Seq([op : {"SELECT"}, id : Ids, sockfd : Socks, cols : {None}] \cup
                  [op : {"INSERT", "UPDATE"}, id : Ids, sockfd : {None}, cols : Cols])
  /\ toGame \in Seq([id : Ids, sockfd : Socks, cols : Cols \cup {None}])
  /\ db \in [Ids -> Cols \cup {None}]
  /\ nrequest \in 0..MaxRequests
  /\ shared \subseteq Ids /\ strays \subseteq Ids /\ overtaken \subseteq Ids
  /\ replaced \subseteq Ids \X Cols

\* The requests of a kind under way for a player, and the UPDATEs that will find a row.
Under(id, op) == {i \in 1..Len(toDb) : toDb[i].id = id /\ toDb[i].op = op}
Finding(id) == {i \in Under(id, "UPDATE") : db[id] # None \/ \E j \in Under(id, "INSERT") : j < i}

\* The row a player has once the requests under way are served in order: what the last
\* UPDATE writes, or else the row that is there, or else what the first INSERT writes.
Written(id, cols) ==
  \/ \E i \in Finding(id) : toDb[i].cols = cols /\ \A j \in Finding(id) : j <= i
  \/ Finding(id) = {} /\ db[id] # None /\ db[id] = cols
  \/ /\ Finding(id) = {} /\ db[id] = None
     /\ \E i \in Under(id, "INSERT") : toDb[i].cols = cols /\ \A j \in Under(id, "INSERT") : i <= j

\* A player in memory that is not dirty has its columns in the table, or it will
\* have once the requests under way are served: unless, with several database
\* workers, requests of that player have overtaken each other.
CleanIsSaved ==
  \A id \in Ids :
    save_objs[id] # None /\ ~save_objs[id].dirty /\ id \notin overtaken =>
      Written(id, save_objs[id].cols)

\* A player that logs out, is kicked or loses its connection leaves nothing
\* unsaved behind.
LeavesSaved ==
  [][\A id \in Ids : \A cols \in Cols :
       save_objs[id] # None /\ save_objs[id].cols = cols /\ save_objs'[id] = None
       /\ id \notin overtaken => Written(id, cols)']_vars

\* The player has become something else: it only rises, and enters the channel.
Outgrown(id, cols) ==
  /\ save_objs[id] # None /\ save_objs[id].cols # cols
  /\ save_objs[id].cols.lv >= cols.lv /\ save_objs[id].cols.channel >= cols.channel

\* What a player has become gets into the table, unless the player becomes something
\* else before that, its requests have overtaken each other, or two of its loads have
\* overlapped: the row of the later answer then replaces what the player had become
\* since the earlier one, which is lost.
ChangeReachesDb ==
  \A id \in Ids, cols \in Cols :
    save_objs[id] # None /\ save_objs[id].cols = cols ~>
      db[id] = cols \/ Outgrown(id, cols) \/ id \in overtaken \/ <<id, cols>> \in replaced

\* No two connections command the same player, in whatever order logins, answers
\* and closes come: the second login kicks the first.  Only create_player, which
\* kicks nobody, can register a second one.
OneClientPerPlayer ==
  \A s, t \in Socks :
    client_map[s] # None /\ client_map[s] = client_map[t] => s = t \/ client_map[s] \in shared

\* pymain.OnFdClosed: with the socket goes its player.  So a player in memory has a
\* client, the proxy it sends to being the one registered for it, except in four
\* cases: its row came when the client had gone, or a missing row did after it had
\* been created; its client took another player; create_player gave it a second one.
PlayerHasClient ==
  \A id \in Ids :
    save_objs[id] # None /\ id \notin strays \cup shared => client_map[save_objs[id].sockfd] = id

\* Who commands a player in a channel hears it: its socket is addressed, unless it is not
\* the client of PlayerHasClient, or set_channel has moved the player since it was loaded.
MembersHear ==
  \A s \in Socks : \A id \in (Ids \ (strays \cup shared)) \cap {client_map[s]} :
    save_objs[id] # None /\ save_objs[id].cols.channel # 0 /\ ~save_objs[id].moved =>
      s \in Hearers(save_objs[id].cols.channel)

\* Nobody else hears it: a socket that is addressed has a player of that room, if all
\* its players have kept their clients.
OnlyMembersHear ==
  \A c \in Channels : \A s \in Hearers(c) :
    client_map[s] \in chat_channel[c] \/ \E id \in strays \cup shared : id \in chat_channel[c]

=============================================================================
