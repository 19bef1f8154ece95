----------------------------- MODULE AccountMgr -----------------------------
(***************************************************************************)
(* pyscript/logic/login/AccountMgr.py on top of SqlExec: the first         *)
(* commands of a client.  login_account looks a user up in the table       *)
(* account; if there is no row, the callback sends an INSERT and asks      *)
(* again; the second callback tells the client the id of the account.      *)
(* user_check asks for a player.  Answers go to the proxy that is in       *)
(* _account_list when they arrive, which need not be the one that asked.   *)
(*                                                                         *)
(* Requests are served in any order, as several DBWorkers may, and each    *)
(* can be lost; an INSERT can fail.  The flag `new' of user_check, which   *)
(* no property is about, is left out.                                      *)
(***************************************************************************)
EXTENDS SqlExec, FiniteSets

CONSTANTS
  Socks,                \* the sockets of clients
  Uids,                 \* user ids
  NoSock,               \* no proxy
  MaxQueries,           \* bound: queries made
  MaxFailures           \* bound: requests lost or refused

ASSUME SockAssumption == NoSock \notin Socks
ASSUME BoundAssumption == MaxQueries \in Nat /\ MaxFailures \in Nat

VARIABLES
  account_list,         \* _account_list: the socket of a user's proxy
  query,                \* for each query: its callback, user and proxy, and the login it serves
  data,                 \* what DBWorker found: an account id, 0 for no row
  inserts,              \* logins whose INSERT is on its way
  account,              \* the table: the id of a user's row, 0 if there is none
  ninsert,              \* AUTO_INCREMENT
  told,                 \* answers to logins, in order
  nfail                 \* requests lost or refused so far

accounts == <<account_list, query, data, inserts, account, ninsert, told>>
vars == <<sql, accounts, nfail>>

Init ==
  /\ SqlInit
  /\ account_list = [u \in Uids |-> NoSock]
  /\ query = <<>> /\ data = <<>> /\ inserts = {} /\ told = <<>>
  /\ account = [u \in Uids |-> 0] /\ ninsert = 0 /\ nfail = 0

Query(cb, uid, sock, login) == [cb |-> cb, uid |-> uid, sock |-> sock, login |-> login]

\* Logins whose first callback has not run: each may make one query more.
Unserved ==
  {n \in 1..nquery : query[n].cb = "_get_uniqid_cb" /\ \E p \in Pending : p[1] = n}

\* There is room for k queries besides those that callbacks may make.
Reserve(k) ==
  /\ nquery + k + Cardinality(Unserved) <= MaxQueries
  /\ Room(k + Cardinality(Unserved))
-----------------------------------------------------------------------------
(***************************************************************************)
(* Commands.                                                               *)
(***************************************************************************)
login_account(s, uid) ==
  /\ Reserve(2)
  /\ account_list' = [account_list EXCEPT ![uid] = s]
  /\ OnExec
  /\ query' = Append(query, Query("_get_uniqid_cb", uid, s, nquery + 1))
  /\ data' = Append(data, 0)
  /\ UNCHANGED <<inserts, account, ninsert, told, nfail>>

\* Without a proxy for the user nothing happens.
user_check(uid) ==
  /\ Reserve(1)
  /\ account_list[uid] # NoSock
  /\ OnExec
  /\ query' = Append(query, Query("_check_user_cb", uid, account_list[uid], nquery + 1))
  /\ data' = Append(data, 0)
  /\ UNCHANGED <<account_list, inserts, account, ninsert, told, nfail>>
-----------------------------------------------------------------------------
(***************************************************************************)
(* Callbacks.                                                              *)
(***************************************************************************)
\* What the proxy that is in _account_list now is told.
Answer(q, id) ==
  [login |-> q.login, uid |-> q.uid, id |-> id, sock |-> account_list[q.uid]]

\* Mutant: whoever gets no row is told so at once, and the query made anyway.
get_uniqid_cb_Both(q, id) ==
  /\ told' = IF account_list[q.uid] = NoSock THEN told
             ELSE Append(told, Answer(q, id))
  /\ query' = IF id # 0 THEN query ELSE Append(query, Query("_get_uniqid_cb2", q.uid, q.sock, q.login))
  /\ data' = IF id # 0 THEN data ELSE Append(data, 0)
  /\ inserts' = IF id # 0 THEN inserts ELSE inserts \cup {q.login}
  /\ UNCHANGED account_list

\* _get_uniqid_cb2: the proxy of the user is told, and forgotten if there is no id.
get_uniqid_cb2(q, id) ==
  /\ told' = IF account_list[q.uid] = NoSock THEN told
             ELSE Append(told, Answer(q, id))
  /\ account_list' = IF id = 0 THEN [account_list EXCEPT ![q.uid] = NoSock] ELSE account_list
  /\ UNCHANGED <<query, data, inserts>>

\* Mutant: the INSERT is sent, and nobody asks again.
get_uniqid_cb_InsertOnly(q, id) ==
  IF id # 0
    THEN get_uniqid_cb2(q, id)
    ELSE /\ inserts' = inserts \cup {q.login}
         /\ UNCHANGED <<account_list, query, data, told>>

\* _get_uniqid_cb: without a row an INSERT and a second query.
get_uniqid_cb(q, id) ==
  IF id # 0
    THEN get_uniqid_cb2(q, id)
    ELSE /\ inserts' = inserts \cup {q.login}
         /\ query' = Append(query, Query("_get_uniqid_cb2", q.uid, q.sock, q.login))
         /\ data' = Append(data, 0)
         /\ UNCHANGED <<account_list, told>>

Callback(q, id) ==
  CASE q.cb = "_get_uniqid_cb"  -> get_uniqid_cb(q, id)
    [] q.cb = "_get_uniqid_cb2" -> get_uniqid_cb2(q, id)
    [] q.cb = "_check_user_cb"  -> UNCHANGED <<account_list, query, data, inserts, told>>

\* The answer p reaches the worker: the callback that is found runs with its data.
OnAnswer(p) ==
  /\ IF Found(p) = 0 THEN UNCHANGED <<account_list, query, data, inserts, told>>
     ELSE Callback(query[Found(p)], data[p[1]])
  /\ OnCallback(p, query' # query)
  /\ UNCHANGED <<account, ninsert, nfail>>
-----------------------------------------------------------------------------
(***************************************************************************)
(* The database, and the connection to it.                                 *)
(***************************************************************************)
DealSelect(p) ==
  /\ DealQuery(p)
  /\ data' = [data EXCEPT ![p[1]] =
                 IF query[p[1]].cb = "_check_user_cb" THEN @ ELSE account[query[p[1]].uid]]
  /\ UNCHANGED <<account_list, query, inserts, account, ninsert, told, nfail>>

\* Mutant: a second row replaces the first.
Inserted_Replace(uid) == [account EXCEPT ![uid] = ninsert + 1]

\* uid is a unique key: the INSERT fails when there is a row.
Inserted(uid) == IF account[uid] # 0 THEN account ELSE [account EXCEPT ![uid] = ninsert + 1]

DealInsert(login) ==
  /\ inserts' = inserts \ {login}
  /\ account' = Inserted(query[login].uid)
  /\ ninsert' = ninsert + 1
  /\ UNCHANGED <<sql, account_list, query, data, told, nfail>>

Fail == nfail < MaxFailures /\ nfail' = nfail + 1

\* The INSERT is lost on the way, or MySQL refuses it.
FailInsert(login) ==
  /\ Fail
  /\ inserts' = inserts \ {login}
  /\ UNCHANGED <<sql, account_list, query, data, account, ninsert, told>>

DropQuery(p) == Fail /\ Drop(p) /\ UNCHANGED accounts
-----------------------------------------------------------------------------
Next ==
  \/ \E uid \in Uids : user_check(uid) \/ \E s \in Socks : login_account(s, uid)
  \/ \E p \in requests : DealSelect(p) \/ DropQuery(p)
  \/ \E p \in answers : OnAnswer(p)
  \/ \E login \in inserts : DealInsert(login) \/ FailInsert(login)

Spec == Init /\ [][Next]_vars

\* The database server and the worker of the game server keep running; nothing
\* makes a client ask or a connection break.
FairSpec ==
  /\ Spec
  /\ WF_vars(\E p \in requests : DealSelect(p))
  /\ WF_vars(\E p \in answers : OnAnswer(p))
  /\ WF_vars(\E login \in inserts : DealInsert(login))
-----------------------------------------------------------------------------
(***************************************************************************)
(* Properties.                                                             *)
(***************************************************************************)
\* A login is answered at most once, by one of its two queries.
AnsweredOnce == \A i, j \in 1..Len(told) : told[i].login = told[j].login => i = j

\* A user is told the same account id by every answer, and no two users the same
\* one, although overlapping logins each send an INSERT.
OneIdPerAccount ==
  \A i, j \in 1..Len(told) :
    told[i].id # 0 /\ told[j].id # 0 => (told[i].uid = told[j].uid <=> told[i].id = told[j].id)

\* Query n has been made; and it begins a login that has a query under way.
Made(n) == n \in DOMAIN query
Waiting(n) ==
  /\ Made(n) /\ query[n].cb = "_get_uniqid_cb"
  /\ \E p \in Pending : query[p[1]].login = n

\* A query of login n waits for its answer under an id that comes back as another one,
\* so that its callback is never found.
Garbled(n) == \E id \in DOMAIN sql_dict : Carried(id) # id /\ query[sql_dict[id]].login = n

\* The socket that made login n has been told; or a query of it is lost or garbled, or
\* the user's proxy is not its own, or no longer.
Settled(n) ==
  \/ \E i \in 1..Len(told) : told[i].login = n /\ told[i].sock = query[n].sock
  \/ \E m \in lost : query[m].login = n
  \/ Garbled(n)
  \/ account_list[query[n].uid] # query[n].sock

\* A login is answered in the end, on the socket that made it, unless one of its queries
\* is lost, one bears an id that is garbled on the way (those whose low byte is above
\* 127), or another login of the user or an answer without an id has taken its proxy.
EveryLoginAnswered == \A n \in 1..MaxQueries : Waiting(n) ~> Made(n) /\ Settled(n)
=============================================================================
