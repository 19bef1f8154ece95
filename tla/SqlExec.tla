------------------------------ MODULE SqlExec ------------------------------
(***************************************************************************)
(* pyscript/common/SqlExec.py and what becomes of a query: SqlManager      *)
(* gives it an id and keeps its callback under that id; the id travels in  *)
(* the 16-bit sub_id of the package header to the database server and      *)
(* back, and OnCallback runs the callback found under it.                  *)
(*                                                                         *)
(* Queries are numbered in the order in which they are made.  Those on     *)
(* their way are sets: with several DBWorkers they may be answered in any  *)
(* order, and OnEventfd drops one while the connector is down.  The module *)
(* defines the steps; AccountMgr, whose callbacks query again, takes them. *)
(***************************************************************************)
EXTENDS Stream

CONSTANTS
  MinSqlId,             \* the id with which add_sql_id starts (1),
  MaxSqlId,             \* and where it starts again (32000)
  MaxPending            \* a query is answered or lost before so many others are made

\* Ids from 65408 on are what a 16-bit field makes of others (Carried).  A callback
\* makes a query while its own is still open, and no id may come round meanwhile.
ASSUME IdAssumption ==
  /\ MinSqlId \in Nat \ {0} /\ MaxSqlId \in Nat
  /\ MinSqlId < MaxSqlId /\ MaxSqlId <= 65408
ASSUME PendingAssumption ==
  MaxPending \in Nat /\ 1 < MaxPending /\ MaxPending <= MaxSqlId - MinSqlId

VARIABLES
  sql_id,               \* _sql_id
  sql_dict,             \* sql_dict: the query whose callback is kept, or 0
  nquery,               \* queries made so far
  requests, answers,    \* <<query, id>> on the way to the database and back
  called,               \* <<query, callback>>: whose answer ran whose callback
  lost                  \* queries dropped for lack of a connector

sql == <<sql_id, sql_dict, nquery, requests, answers, called, lost>>

SqlIds == 1..65535

SqlInit ==
  /\ sql_id = MinSqlId
  /\ sql_dict = <<>>
  /\ nquery = 0
  /\ requests = {} /\ answers = {} /\ called = {} /\ lost = {}

\* Mutant: the ids start again one too early.
add_sql_id_Early(id) == IF id + 1 >= MaxSqlId - 1 THEN MinSqlId ELSE id + 1

add_sql_id(id) == IF id + 1 >= MaxSqlId THEN MinSqlId ELSE id + 1

\* dict[id] = query, and a dict without id.
Put(dict, id, query) == [k \in DOMAIN dict \cup {id} |-> IF k = id THEN query ELSE dict[k]]
Del(dict, id) == [k \in DOMAIN dict \ {id} |-> dict[k]]

Pending == requests \cup answers

\* Fewer than MaxPending queries have been made since a pending one, with k more.
Room(k) == \A p \in Pending : nquery + k - p[1] < MaxPending

\* SqlExec with a callback: SqlProxy, OnExec, on_load; then the id that is done is
\* deleted (0 when the query is not made by a callback).
Exec(done) ==
  LET id == add_sql_id(sql_id)
  IN /\ sql_id' = id
     /\ requests' = requests \cup {<<nquery + 1, id>>}
     /\ sql_dict' = Del(Put(sql_dict, id, nquery + 1), done)
     /\ nquery' = nquery + 1

OnExec == Exec(0) /\ UNCHANGED <<answers, called, lost>>

\* OnEventfd finds no usable connector and deletes the package.
Drop(p) ==
  /\ requests' = requests \ {p}
  /\ lost' = lost \cup {p[1]}
  /\ UNCHANGED <<sql_id, sql_dict, nquery, answers, called>>

\* DBWorker answers with the sub_id it has read from the request.
DealQuery(p) ==
  /\ requests' = requests \ {p}
  /\ answers' = answers \cup {<<p[1], Carried(p[2])>>}
  /\ UNCHANGED <<sql_id, sql_dict, nquery, called, lost>>

\* The query whose callback the answer p finds, or 0.
Found(p) == IF Carried(p[2]) \in DOMAIN sql_dict THEN sql_dict[Carried(p[2])] ELSE 0

\* OnConnector, OnCallback: the callback runs, and may make a query itself, before
\* its entry is deleted; an answer without a callback is ignored.
OnCallback(p, again) ==
  /\ answers' = answers \ {p}
  /\ called' = IF Found(p) = 0 THEN called ELSE called \cup {<<p[1], Found(p)>>}
  /\ IF again THEN Exec(Carried(p[2]))
     ELSE /\ sql_dict' = Del(sql_dict, Carried(p[2]))
          /\ UNCHANGED <<sql_id, nquery, requests>>
  /\ UNCHANGED lost
-----------------------------------------------------------------------------
(***************************************************************************)
(* Properties.                                                             *)
(***************************************************************************)
\* The callback of the query p[1] is kept under the id that p carries.
Kept(p) == p[2] \in DOMAIN sql_dict /\ sql_dict[p[2]] = p[1]

\* An answer runs the callback of its own query and of no other, although ids come
\* round again and lost queries leave their callbacks behind; and a query that can
\* still be answered has its callback in sql_dict, not overwritten by a later one,
\* unless its answer bears a number that no query has.
OwnCallback ==
  /\ \A c \in called : c[1] = c[2]
  /\ \A p \in requests : Kept(p)
  /\ \A p \in answers : p[2] < MaxSqlId => Kept(p)
=============================================================================
