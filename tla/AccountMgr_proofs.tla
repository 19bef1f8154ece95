------------------------ MODULE AccountMgr_proofs ------------------------
(***************************************************************************)
(* Proofs about AccountMgr and SqlExec, for any clients, any users, any    *)
(* number of queries and failures, and any MaxSqlId whose ids do not       *)
(* collide with what Carried makes of others.  The inductive invariant     *)
(* IInv says which id each query under way has, in terms of the last id    *)
(* given and the number of queries made since, and what the queries under  *)
(* way, the answers given and the table know of each other.                *)
(***************************************************************************)
EXTENDS AccountMgr, FiniteSetTheorems, SequenceTheorems, TLAPS

Callbacks == {"_get_uniqid_cb", "_get_uniqid_cb2", "_check_user_cb"}
Proxies == Socks \cup {NoSock}
Queries == [cb : Callbacks, uid : Uids, sock : Proxies, login : Nat]
Answers == [login : Nat, uid : Uids, id : Nat, sock : Proxies]

TypeInv ==
  /\ sql_id \in Nat /\ MinSqlId <= sql_id /\ sql_id < MaxSqlId
  /\ nquery \in Nat
  /\ requests \subseteq Nat \X Nat /\ answers \subseteq Nat \X Nat
  /\ account_list \in [Uids -> Proxies]
  /\ query \in Seq(Queries) /\ Len(query) = nquery
  /\ data \in Seq(Nat) /\ Len(data) = nquery
  /\ inserts \subseteq 1..nquery
  /\ account \in [Uids -> Nat] /\ ninsert \in Nat
  /\ told \in Seq(Answers)

\* The id that was given d queries before the id id.
IdBefore(id, d) == IF MinSqlId + d <= id THEN id - d ELSE id - d + (MaxSqlId - MinSqlId)

\* The id of the query n, if the ids have not come round since.
IdOf(n) == IdBefore(sql_id, nquery - n)

\* Even if the callbacks of all logins make their query, no id under way comes round.
RoomInv ==
  \A p \in Pending : /\ 0 < p[1] /\ p[1] <= nquery
                     /\ nquery + Cardinality(Unserved) - p[1] < MaxPending

\* Every query under way bears its id, and its callback is in sql_dict under it.
IdInv ==
  /\ requests \cap answers = {}
  /\ \A p, q \in Pending : p[1] = q[1] => p = q
  /\ \A p \in requests : p[2] = IdOf(p[1])
  /\ \A p \in answers : p[2] = Carried(IdOf(p[1]))
  /\ \A p \in Pending : IdOf(p[1]) \in DOMAIN sql_dict /\ sql_dict[IdOf(p[1])] = p[1]
  /\ \A id \in DOMAIN sql_dict : id \in Nat /\ id < MaxSqlId /\ sql_dict[id] # 0
  /\ \A c \in called : c[1] = c[2]

\* No login has two queries under way, or one after it has been answered.
LoginInv ==
  /\ \A n \in 1..nquery : query[n].login \in 1..nquery
  /\ \A p, q \in Pending : query[p[1]].login = query[q[1]].login => p = q
  /\ \A p \in Pending : \A i \in 1..Len(told) : told[i].login # query[p[1]].login
  /\ \A i \in 1..Len(told) : told[i].login <= nquery
  /\ AnsweredOnce

\* What has been read from the table, and what has been told, is still there.
AccountInv ==
  /\ \A u \in Uids : account[u] <= ninsert
  /\ \A u, v \in Uids : account[u] = account[v] /\ account[u] # 0 => u = v
  /\ \A n \in 1..nquery : data[n] # 0 => account[query[n].uid] = data[n]
  /\ \A i \in 1..Len(told) : told[i].id # 0 => account[told[i].uid] = told[i].id

IInv == TypeInv /\ RoomInv /\ IdInv /\ LoginInv /\ AccountInv
-----------------------------------------------------------------------------
(***************************************************************************)
(* Ids.                                                                    *)
(***************************************************************************)
\* A number that passes through the 16-bit field keeps its low byte; the high byte is
\* lost if the low one is above 127.
LEMMA CarriedByte ==
  ASSUME NEW id \in Nat, id < 65536
  PROVE  Carried(id) = IF (id % 256) < 128 THEN id ELSE 65280 + (id % 256)
<1>1. PICK hi \in Nat, lo \in Nat :
           /\ hi < 256 /\ lo < 256 /\ id = (hi * 256) + lo
           /\ hi = id \div 256 /\ lo = id % 256
  <2>1. (id \div 256) \in Nat /\ (id % 256) \in Nat
    OBVIOUS
  <2>2. (id \div 256) < 256 /\ (id % 256) < 256 /\ id = ((id \div 256) * 256) + (id % 256)
    OBVIOUS
  <2>3. QED
    BY <2>1, <2>2
<1>2. hi % 256 = hi
  BY <1>1
<1>3. WriteUint16(id) = <<hi, lo>>
  BY <1>1, <1>2 DEF WriteUint16
<1>4. Carried(id) = Or(SignedChar(hi), lo) % 65536
  BY <1>3 DEF Carried, ReadUint16
<1>5. CASE lo < 128 /\ hi < 128
  <2>1. Or(SignedChar(hi), lo) = id
    BY <1>1, <1>5 DEF Or, SignedChar
  <2>2. id % 65536 = id
    OBVIOUS
  <2>3. QED
    BY <1>1, <1>4, <1>5, <2>1, <2>2
<1>6. CASE lo < 128 /\ hi >= 128
  <2>1. Or(SignedChar(hi), lo) = id - 65536
    BY <1>1, <1>6 DEF Or, SignedChar
  <2>2. (id - 65536) % 65536 = id
    OBVIOUS
  <2>3. QED
    BY <1>1, <1>4, <1>6, <2>1, <2>2
<1>7. CASE lo >= 128
  <2>1. Or(SignedChar(hi), lo) = lo - 256
    BY <1>1, <1>7 DEF Or, SignedChar
  <2>2. (lo - 256) % 65536 = lo + 65280
    BY <1>1
  <2>3. QED
    BY <1>1, <1>4, <1>7, <2>1, <2>2
<1>8. QED
  BY <1>1, <1>5, <1>6, <1>7

\* A query id comes back as itself or as a number that is no query id, and does not
\* change on the second trip.
LEMMA CarriedId ==
  ASSUME NEW id \in Nat, MinSqlId <= id, id < MaxSqlId
  PROVE  /\ Carried(id) \in Nat
         /\ Carried(id) = id \/ Carried(id) >= MaxSqlId
         /\ Carried(Carried(id)) = Carried(id)
<1>1. id < 65408
  BY IdAssumption
<1>2. Carried(id) = IF (id % 256) < 128 THEN id ELSE 65280 + (id % 256)
  BY <1>1, CarriedByte
<1>3. CASE (id % 256) < 128
  BY <1>2, <1>3
<1>4. CASE ~((id % 256) < 128)
  <2>1. PICK lo \in Nat : lo = id % 256 /\ lo < 256 /\ lo >= 128
    BY <1>4
  <2>2. Carried(id) = 65280 + lo
    BY <1>2, <1>4, <2>1
  <2>3. (65280 + lo) % 256 = lo
    BY <2>1
  <2>4. Carried(65280 + lo) = 65280 + lo
    BY <2>1, <2>3, CarriedByte
  <2>5. QED
    BY <2>1, <2>2, <2>4, IdAssumption
<1>5. QED
  BY <1>3, <1>4

\* Ids stay in their range.
LEMMA IdRange ==
  ASSUME NEW id \in Nat, MinSqlId <= id, id < MaxSqlId
  PROVE  /\ add_sql_id(id) \in Nat /\ MinSqlId <= add_sql_id(id) /\ add_sql_id(id) < MaxSqlId
         /\ IdBefore(id, 0) = id
         /\ \A d \in Nat : d < MaxPending =>
              IdBefore(id, d) \in Nat /\ MinSqlId <= IdBefore(id, d) /\ IdBefore(id, d) < MaxSqlId
  BY IdAssumption, PendingAssumption DEF add_sql_id, IdBefore

\* A new id makes the others one older and differs from those in use.
LEMMA NewId ==
  ASSUME NEW id \in Nat, MinSqlId <= id, id < MaxSqlId, NEW d \in Nat, d + 1 < MaxPending
  PROVE  /\ IdBefore(add_sql_id(id), d + 1) = IdBefore(id, d)
         /\ IdBefore(id, d) # add_sql_id(id)
  BY IdAssumption, PendingAssumption DEF add_sql_id, IdBefore

\* Ids of different ages differ.
LEMMA OldIds ==
  ASSUME NEW id \in Nat, MinSqlId <= id, id < MaxSqlId, NEW d \in Nat, NEW e \in Nat,
         d < MaxPending, e < MaxPending, d # e
  PROVE  IdBefore(id, d) # IdBefore(id, e)
  BY IdAssumption, PendingAssumption DEF IdBefore
-----------------------------------------------------------------------------
(***************************************************************************)
(* Queries under way.                                                      *)
(***************************************************************************)
\* The queries under way are those made last, and their ids are in range.
LEMMA PendingFacts ==
  ASSUME TypeInv, RoomInv
  PROVE  /\ IsFiniteSet(Unserved) /\ Cardinality(Unserved) \in Nat
         /\ \A p \in Pending :
              /\ p[1] \in Nat /\ p[2] \in Nat /\ p[1] \in 1..nquery
              /\ nquery - p[1] \in Nat /\ nquery - p[1] < MaxPending
              /\ IdOf(p[1]) \in Nat /\ MinSqlId <= IdOf(p[1]) /\ IdOf(p[1]) < MaxSqlId
<1>1. IsFiniteSet(Unserved) /\ Cardinality(Unserved) \in Nat
  <2>1. IsFiniteSet(1..nquery)
    BY FS_Interval DEF TypeInv
  <2>2. Unserved \subseteq 1..nquery
    BY DEF Unserved
  <2>3. IsFiniteSet(Unserved)
    BY <2>1, <2>2, FS_Subset
  <2>4. QED
    BY <2>3, FS_CardinalityType
<1>2. ASSUME NEW p \in Pending
      PROVE  /\ p[1] \in Nat /\ p[2] \in Nat /\ p[1] \in 1..nquery
             /\ nquery - p[1] \in Nat /\ nquery - p[1] < MaxPending
             /\ IdOf(p[1]) \in Nat /\ MinSqlId <= IdOf(p[1]) /\ IdOf(p[1]) < MaxSqlId
  <2>1. p[1] \in Nat /\ p[2] \in Nat
    BY DEF Pending, TypeInv
  <2>2. 0 < p[1] /\ p[1] <= nquery /\ nquery + Cardinality(Unserved) - p[1] < MaxPending
    BY DEF RoomInv
  <2>3. p[1] \in 1..nquery /\ nquery - p[1] \in Nat /\ nquery - p[1] < MaxPending
    <3>1. nquery \in Nat /\ MaxPending \in Nat
      BY PendingAssumption DEF TypeInv
    <3>2. QED
      BY <1>1, <2>1, <2>2, <3>1
  <2>4. QED
    BY <2>1, <2>3, IdRange DEF TypeInv, IdOf
<1>3. QED
  BY <1>1, <1>2

\* An answer finds its own callback or none, and no other query has its id.
LEMMA AnswerFacts ==
  ASSUME TypeInv, RoomInv, IdInv, NEW p \in answers
  PROVE  /\ Found(p) = 0 \/ Found(p) = p[1]
         /\ Carried(p[2]) \in Nat
         /\ Carried(p[2]) = IdOf(p[1]) \/ Carried(p[2]) >= MaxSqlId
         /\ \A q \in Pending : q # p => IdOf(q[1]) # Carried(p[2])
<1> DEFINE id == IdOf(p[1])
<1>1. p \in Pending
  BY DEF Pending
<1>2. id \in Nat /\ MinSqlId <= id /\ id < MaxSqlId
  BY <1>1, PendingFacts
<1>3. p[2] = Carried(id)
  BY DEF IdInv
<1>4. /\ Carried(p[2]) \in Nat
      /\ Carried(p[2]) = id \/ Carried(p[2]) >= MaxSqlId
  BY <1>2, <1>3, CarriedId
<1>5. Found(p) = 0 \/ Found(p) = p[1]
  BY <1>1, <1>4, IdAssumption DEF Found, IdInv
<1>6. ASSUME NEW q \in Pending, q # p PROVE IdOf(q[1]) # Carried(p[2])
  <2>1. q[1] # p[1]
    BY <1>1, <1>6 DEF IdInv
  <2>2. /\ nquery - q[1] \in Nat /\ nquery - q[1] < MaxPending
        /\ nquery - p[1] \in Nat /\ nquery - p[1] < MaxPending
        /\ q[1] \in Nat /\ p[1] \in Nat /\ IdOf(q[1]) \in Nat /\ IdOf(q[1]) < MaxSqlId
    BY <1>1, PendingFacts
  <2>3. nquery - q[1] # nquery - p[1]
    BY <2>1, <2>2 DEF TypeInv
  <2>4. IdOf(q[1]) # id
    BY <2>2, <2>3, OldIds DEF TypeInv, IdOf
  <2>5. QED
    BY <1>4, <2>2, <2>4, IdAssumption
<1>7. QED
  BY <1>4, <1>5, <1>6

\* Exec gives the query an id that none of the queries S under way has, if they are
\* recent enough, and deletes the callback of none of them.
LEMMA ExecIds ==
  ASSUME TypeInv, RoomInv, IdInv, NEW done, Exec(done), done # add_sql_id(sql_id),
         NEW n, n = nquery + 1, NEW S \in SUBSET Pending,
         \A q \in S : nquery + 1 - q[1] < MaxPending /\ IdOf(q[1]) # done
  PROVE  /\ sql_id' \in Nat /\ MinSqlId <= sql_id' /\ sql_id' < MaxSqlId
         /\ nquery' = n
         /\ \A q \in S : /\ IdOf(q[1])' = IdOf(q[1])
                         /\ IdOf(q[1]) \in DOMAIN sql_dict'
                         /\ sql_dict'[IdOf(q[1])] = q[1]
         /\ IdOf(n)' = sql_id'
         /\ sql_id' \in DOMAIN sql_dict' /\ sql_dict'[sql_id'] = n
         /\ \A k \in DOMAIN sql_dict' : k \in Nat /\ k < MaxSqlId /\ sql_dict'[k] # 0
<1> DEFINE new == add_sql_id(sql_id)
<1>1. /\ sql_id' = new /\ nquery' = nquery + 1 /\ nquery \in Nat
      /\ sql_dict' = Del(Put(sql_dict, new, nquery + 1), done)
  BY DEF Exec, TypeInv
<1>2. new \in Nat /\ MinSqlId <= new /\ new < MaxSqlId
  BY IdRange DEF TypeInv
<1>3. /\ DOMAIN sql_dict' = (DOMAIN sql_dict \cup {new}) \ {done}
      /\ \A k \in DOMAIN sql_dict' : sql_dict'[k] = IF k = new THEN nquery + 1 ELSE sql_dict[k]
  BY <1>1 DEF Del, Put
<1>4. ASSUME NEW q \in S
      PROVE  /\ IdOf(q[1])' = IdOf(q[1])
             /\ IdOf(q[1]) \in DOMAIN sql_dict' /\ sql_dict'[IdOf(q[1])] = q[1]
  <2>1. /\ nquery - q[1] \in Nat /\ q[1] \in Nat
        /\ IdOf(q[1]) \in DOMAIN sql_dict /\ sql_dict[IdOf(q[1])] = q[1]
    BY PendingFacts DEF IdInv
  <2>2. (nquery - q[1]) + 1 < MaxPending /\ nquery + 1 - q[1] = (nquery - q[1]) + 1
    BY <1>1, <2>1
  <2>3. IdOf(q[1]) # new /\ IdBefore(new, (nquery - q[1]) + 1) = IdOf(q[1])
    BY <2>1, <2>2, NewId DEF IdOf, TypeInv
  <2>4. IdOf(q[1])' = IdOf(q[1])
    <3>1. nquery' - q[1] = (nquery - q[1]) + 1
      BY <1>1, <2>1, <2>2
    <3>2. IdOf(q[1])' = IdBefore(sql_id', nquery' - q[1])
      BY DEF IdOf, IdBefore
    <3>3. QED
      BY <1>1, <2>3, <3>1, <3>2
  <2>5. QED
    BY <1>3, <2>1, <2>3, <2>4
<1>5. IdOf(n)' = new
  <2>1. nquery' - n = 0
    BY <1>1
  <2>2. IdOf(n)' = IdBefore(sql_id', nquery' - n)
    BY DEF IdOf, IdBefore
  <2>3. QED
    BY <1>1, <1>2, <2>1, <2>2, IdRange
<1>6. QED
  BY <1>1, <1>2, <1>3, <1>4, <1>5 DEF IdInv
-----------------------------------------------------------------------------
(***************************************************************************)
(* The steps.                                                              *)
(***************************************************************************)
\* Initially nothing is under way and nothing has been told.
LEMMA InitInv == Init => IInv
<1> SUFFICES ASSUME Init PROVE IInv
  OBVIOUS
<1>1. TypeInv
  BY IdAssumption, PendingAssumption DEF Init, SqlInit, TypeInv, Proxies
<1>2. RoomInv /\ IdInv /\ LoginInv /\ AccountInv
  BY DEF Init, SqlInit, RoomInv, IdInv, LoginInv, AccountInv, AnsweredOnce, Pending
<1>3. QED
  BY <1>1, <1>2 DEF IInv

\* The types of what the sequences hold.
LEMMA ElementTypes ==
  ASSUME TypeInv
  PROVE  /\ \A n \in 1..nquery : /\ query[n].cb \in Callbacks /\ query[n].uid \in Uids
                                 /\ query[n].sock \in Proxies
                                 /\ query[n].login \in Nat /\ data[n] \in Nat
         /\ \A i \in 1..Len(told) : /\ told[i].login \in Nat /\ told[i].uid \in Uids
                                    /\ told[i].id \in Nat
<1>1. \A n \in 1..nquery : query[n] \in Queries /\ data[n] \in Nat
  BY ElementOfSeq DEF TypeInv
<1>2. \A i \in 1..Len(told) : told[i] \in Answers
  BY ElementOfSeq DEF TypeInv
<1>3. QED
  BY <1>1, <1>2 DEF Queries, Answers

\* A query at the end of query and data leaves the others where they are.
LEMMA QueryAppended ==
  ASSUME TypeInv, NEW q \in Queries,
         query' = Append(query, q), data' = Append(data, 0)
  PROVE  /\ query' \in Seq(Queries)
         /\ data' \in Seq(Nat)
         /\ Len(query') = nquery + 1 /\ Len(data') = nquery + 1
         /\ \A n \in 1..nquery : query'[n] = query[n] /\ data'[n] = data[n]
         /\ query'[nquery + 1] = q /\ data'[nquery + 1] = 0
<1>1. /\ query \in Seq(Queries) /\ Len(query) = nquery
      /\ data \in Seq(Nat) /\ Len(data) = nquery
  BY DEF TypeInv
<1>2. /\ query' \in Seq(Queries) /\ Len(query') = nquery + 1
      /\ (\A n \in 1..nquery : query'[n] = query[n]) /\ query'[nquery + 1] = q
  BY <1>1, AppendProperties
<1>3. /\ data' \in Seq(Nat) /\ Len(data') = nquery + 1
      /\ (\A n \in 1..nquery : data'[n] = data[n]) /\ data'[nquery + 1] = 0
  BY <1>1, AppendProperties
<1>4. QED
  BY <1>2, <1>3

\* A command of a client makes one query, and keeps room for what its callback makes.
LEMMA CommandStep ==
  ASSUME IInv, NEW cb \in {"_get_uniqid_cb", "_check_user_cb"}, NEW uid \in Uids, NEW s \in Proxies,
         account_list' \in [Uids -> Proxies],
         NEW k \in {1, 2}, k = IF cb = "_get_uniqid_cb" THEN 2 ELSE 1, Reserve(k), OnExec,
         query' = Append(query, Query(cb, uid, s, nquery + 1)), data' = Append(data, 0),
         UNCHANGED <<inserts, account, ninsert, told>>
  PROVE  IInv'
<1> USE DEF IInv
<1>n. PICK n : n = nquery + 1
  OBVIOUS
<1>new. PICK new : new = <<n, sql_id'>>
  OBVIOUS
<1>1. /\ nquery \in Nat /\ nquery' = n /\ n = nquery + 1 /\ n \in Nat
      /\ requests' = requests \cup {new} /\ answers' = answers /\ called' = called
      /\ Pending' = Pending \cup {new} /\ new[1] = n /\ new[2] = sql_id'
      /\ new \in Nat \X Nat
  <2>1. sql_id' \in Nat
    BY IdRange DEF OnExec, Exec, TypeInv
  <2>2. QED
    BY <1>n, <1>new, <2>1 DEF OnExec, Exec, TypeInv, Pending
<1>2. /\ IsFiniteSet(Unserved) /\ Cardinality(Unserved) \in Nat
      /\ \A p \in Pending : /\ p[1] \in Nat /\ p[2] \in Nat /\ p[1] \in 1..nquery
                            /\ nquery - p[1] \in Nat /\ nquery - p[1] < MaxPending
                            /\ MinSqlId <= IdOf(p[1])
  BY PendingFacts
<1>3. \A p \in Pending : nquery + (k + Cardinality(Unserved)) - p[1] < MaxPending
  BY DEF Reserve, Room
<1>4. /\ sql_id' \in Nat /\ MinSqlId <= sql_id' /\ sql_id' < MaxSqlId
      /\ \A q \in Pending : /\ IdOf(q[1])' = IdOf(q[1])
                            /\ IdOf(q[1]) \in DOMAIN sql_dict'
                            /\ sql_dict'[IdOf(q[1])] = q[1]
      /\ IdOf(n)' = sql_id'
      /\ sql_id' \in DOMAIN sql_dict' /\ sql_dict'[sql_id'] = n
      /\ \A i \in DOMAIN sql_dict' : i \in Nat /\ i < MaxSqlId /\ sql_dict'[i] # 0
  <2>1. Exec(0)
    BY DEF OnExec
  <2>2. 0 # add_sql_id(sql_id)
    BY IdRange, IdAssumption DEF TypeInv
  <2>3. \A q \in Pending : nquery + 1 - q[1] < MaxPending /\ IdOf(q[1]) # 0
    <3>1. TAKE q \in Pending
    <3>2. /\ nquery \in Nat /\ q[1] \in Nat /\ Cardinality(Unserved) \in Nat
          /\ MaxPending \in Nat /\ IdOf(q[1]) # 0
      BY <1>1, <1>2, PendingAssumption, IdAssumption
    <3>3. QED
      BY <1>3, <3>2
  <2>4. QED
    BY <1>1, <2>1, <2>2, <2>3, ExecIds
<1>5. /\ query' \in Seq(Queries) /\ data' \in Seq(Nat)
      /\ Len(query') = n /\ Len(data') = n
      /\ \A i \in 1..nquery : query'[i] = query[i] /\ data'[i] = data[i]
      /\ query'[n].cb = cb /\ query'[n].uid = uid /\ query'[n].login = n /\ data'[n] = 0
  <2>1. Query(cb, uid, s, n) \in Queries
    BY <1>1 DEF Query, Queries, Callbacks
  <2>2. /\ Query(cb, uid, s, n).cb = cb /\ Query(cb, uid, s, n).uid = uid
        /\ Query(cb, uid, s, n).login = n
    BY DEF Query
  <2>3. QED
    BY <1>1, <2>1, <2>2, QueryAppended
<1>6. TypeInv'
  BY <1>1, <1>4, <1>5 DEF TypeInv
<1>7. Cardinality(Unserved') = Cardinality(Unserved) + (k - 1)
  <2>1. Unserved' = {m \in 1..n : query'[m].cb = "_get_uniqid_cb"
                                  /\ \E p \in Pending' : p[1] = m}
    BY <1>1 DEF Unserved
  <2>2. n \notin 1..nquery /\ 1..n = (1..nquery) \cup {n} /\ n \notin Unserved
    BY <1>1 DEF Unserved
  <2>3. /\ \E p \in Pending' : p[1] = n
        /\ \A m \in 1..nquery : (\E p \in Pending' : p[1] = m) <=> \E p \in Pending : p[1] = m
    BY <1>1, <2>2
  <2>4. CASE cb = "_get_uniqid_cb"
    <3>1. Unserved' = Unserved \cup {n}
      BY <1>5, <2>1, <2>2, <2>3, <2>4 DEF Unserved
    <3>2. k = 2 /\ k - 1 = 1
      BY <2>4
    <3>3. Cardinality(Unserved \cup {n}) = Cardinality(Unserved) + 1
      BY <1>2, <2>2, FS_AddElement
    <3>4. QED
      BY <3>1, <3>2, <3>3
  <2>5. CASE cb # "_get_uniqid_cb"
    <3>1. Unserved' = Unserved
      BY <1>5, <2>1, <2>2, <2>3, <2>5 DEF Unserved
    <3>2. QED
      BY <1>2, <2>5, <3>1
  <2>6. QED
    BY <2>4, <2>5
<1>8. RoomInv'
  <2>1. /\ nquery \in Nat /\ Cardinality(Unserved) \in Nat /\ k \in Nat
        /\ MaxPending \in Nat /\ 1 < MaxPending /\ k <= 2
    BY <1>1, <1>2, PendingAssumption
  <2>2. ASSUME NEW p \in Pending
        PROVE  0 < p[1] /\ p[1] <= n /\ n + Cardinality(Unserved') - p[1] < MaxPending
    <3>1. p[1] \in Nat /\ 0 < p[1] /\ p[1] <= nquery
      BY <1>2, <2>1
    <3>2. QED
      BY <1>1, <1>3, <1>7, <2>1, <3>1
  <2>3. n + Cardinality(Unserved') - n < MaxPending
    <3>1. CASE Pending = {}
      <4>1. Unserved = {}
        BY <3>1 DEF Unserved
      <4>2. Cardinality(Unserved) = 0
        BY <4>1, FS_EmptySet
      <4>3. QED
        BY <1>1, <1>7, <2>1, <4>2
    <3>2. CASE Pending # {}
      <4>1. PICK q : q \in Pending
        BY <3>2
      <4>2. q[1] \in Nat /\ q[1] <= nquery
        BY <1>2, <2>1, <4>1
      <4>3. QED
        BY <1>1, <1>3, <1>7, <2>1, <4>1, <4>2
    <3>3. QED
      BY <3>1, <3>2
  <2>4. QED
    BY <1>1, <2>1, <2>2, <2>3 DEF RoomInv
<1>9. IdInv'
  <2>1. requests' \cup answers' = Pending'
    BY DEF Pending
  <2>2. ASSUME NEW p \in Pending', NEW q \in Pending', p[1] = q[1] PROVE p = q
    <3>1. \A r \in Pending : r[1] # n
      BY <1>1, <1>2
    <3>2. QED
      BY <1>1, <2>2, <3>1 DEF IdInv
  <2>3. \A p \in requests' : p[2] = IdOf(p[1])'
    BY <1>1, <1>4 DEF IdInv, Pending
  <2>4. \A p \in answers' : p[2] = Carried(IdOf(p[1]))'
    BY <1>1, <1>4 DEF IdInv, Pending, Carried
  <2>5. \A p \in Pending' : IdOf(p[1])' \in DOMAIN sql_dict' /\ sql_dict'[IdOf(p[1])'] = p[1]
    BY <1>1, <1>4
  <2>6. requests' \cap answers' = {}
    BY <1>1, <1>2 DEF IdInv, Pending
  <2>7. QED
    BY <1>1, <1>4, <2>2, <2>3, <2>4, <2>5, <2>6 DEF IdInv
<1>10. LoginInv'
  <2>1. /\ \A m \in 1..nquery : query'[m].login = query[m].login /\ query[m].login \in 1..nquery
        /\ n \notin 1..nquery /\ 1..n = (1..nquery) \cup {n}
    BY <1>1, <1>5 DEF LoginInv
  <2>2. \A m \in 1..n : query'[m].login \in 1..n
    BY <1>5, <2>1
  <2>3. \A p \in Pending : p[1] \in 1..nquery /\ query'[p[1]].login = query[p[1]].login
                           /\ query'[p[1]].login # n
    BY <1>2, <2>1
  <2>4. \A i \in 1..Len(told) : told[i].login <= nquery /\ told[i].login # n
    <3>1. TAKE i \in 1..Len(told)
    <3>2. told[i].login \in Nat
      BY ElementTypes
    <3>3. told[i].login <= nquery
      BY DEF LoginInv
    <3>4. QED
      BY <1>1, <3>2, <3>3
  <2>5. ASSUME NEW p \in Pending', NEW q \in Pending', query'[p[1]].login = query'[q[1]].login
        PROVE  p = q
    BY <1>1, <1>5, <2>3, <2>5 DEF LoginInv
  <2>8. ASSUME NEW p \in Pending', NEW i \in 1..Len(told) PROVE told[i].login # query'[p[1]].login
    BY <1>1, <1>5, <2>3, <2>4 DEF LoginInv
  <2>6. \A i \in 1..Len(told) : told[i].login <= n
    <3>1. TAKE i \in 1..Len(told)
    <3>2. told[i].login \in Nat
      BY ElementTypes
    <3>3. QED
      BY <1>1, <2>4, <3>2
  <2>7. QED
    BY <1>1, <2>2, <2>5, <2>6, <2>8 DEF LoginInv, AnsweredOnce
<1>11. AccountInv'
  BY <1>1, <1>5 DEF AccountInv
<1>12. QED
  BY <1>6, <1>8, <1>9, <1>10, <1>11

\* A request that is served becomes the answer to the same query.
LEMMA DealSelectStep ==
  ASSUME IInv, NEW p \in requests, DealSelect(p)
  PROVE  IInv'
<1> USE DEF IInv
<1>1. PICK a : a = <<p[1], Carried(p[2])>>
  OBVIOUS
<1>2. /\ requests' = requests \ {p} /\ answers' = answers \cup {a}
      /\ UNCHANGED <<sql_id, sql_dict, nquery, called>>
      /\ UNCHANGED <<account_list, query, inserts, account, ninsert, told>>
      /\ data' = [data EXCEPT ![p[1]] = IF query[p[1]].cb = "_check_user_cb" THEN @
                                        ELSE account[query[p[1]].uid]]
  BY <1>1 DEF DealSelect, DealQuery
<1>3. /\ p \in Pending /\ p[1] \in Nat /\ p[1] \in 1..nquery /\ IdOf(p[1]) \in Nat
      /\ MinSqlId <= IdOf(p[1]) /\ IdOf(p[1]) < MaxSqlId /\ p[2] = IdOf(p[1])
  BY PendingFacts DEF Pending, IdInv
<1>4. a[1] = p[1] /\ a[2] = Carried(IdOf(p[1])) /\ a \in Nat \X Nat
  BY <1>1, <1>3, CarriedId
<1>5. /\ Pending' = (Pending \ {p}) \cup {a} /\ a \notin requests \ {p}
      /\ \A q \in Pending' : q = a \/ (q \in Pending /\ q # p /\ q[1] # p[1])
  BY <1>2, <1>3, <1>4 DEF Pending, IdInv
<1>6. Unserved' = Unserved
  BY <1>2, <1>3, <1>4, <1>5 DEF Unserved
<1>7. TypeInv'
  <2>1. (IF query[p[1]].cb = "_check_user_cb" THEN data[p[1]] ELSE account[query[p[1]].uid]) \in Nat
    BY <1>3, ElementTypes DEF TypeInv
  <2>2. data' \in Seq(Nat) /\ Len(data') = nquery
    BY <1>2, <1>3, <2>1 DEF TypeInv
  <2>3. requests' \subseteq Nat \X Nat /\ answers' \subseteq Nat \X Nat
    BY <1>2, <1>4 DEF TypeInv
  <2>4. QED
    BY <1>2, <2>2, <2>3 DEF TypeInv
<1>8. RoomInv'
  BY <1>2, <1>3, <1>4, <1>5, <1>6 DEF RoomInv
<1>9. IdInv'
  <2>1. \A q \in Pending : IdOf(q[1])' = IdOf(q[1])
    BY <1>2 DEF IdOf, IdBefore
  <2>2. IdOf(a[1])' = IdOf(p[1])
    BY <1>2, <1>4 DEF IdOf, IdBefore
  <2>3. requests' \cap answers' = {}
    BY <1>2, <1>5 DEF IdInv
  <2>4. \A q, r \in Pending' : q[1] = r[1] => q = r
    BY <1>4, <1>5 DEF IdInv
  <2>5. \A q \in requests' : q[2] = IdOf(q[1])'
    BY <1>2, <2>1 DEF IdInv, Pending
  <2>6. \A q \in answers' : q[2] = Carried(IdOf(q[1]))'
    BY <1>2, <1>4, <2>1, <2>2 DEF IdInv, Pending, Carried
  <2>7. \A q \in Pending' : IdOf(q[1])' \in DOMAIN sql_dict' /\ sql_dict'[IdOf(q[1])'] = q[1]
    BY <1>2, <1>3, <1>4, <1>5, <2>1, <2>2 DEF IdInv
  <2>8. QED
    BY <1>2, <2>3, <2>4, <2>5, <2>6, <2>7 DEF IdInv
<1>10. LoginInv'
  <2>1. \A q, r \in Pending' : query[q[1]].login = query[r[1]].login => q = r
    BY <1>3, <1>4, <1>5 DEF LoginInv
  <2>2. \A q \in Pending' : \A i \in 1..Len(told) : told[i].login # query[q[1]].login
    BY <1>3, <1>4, <1>5 DEF LoginInv
  <2>3. QED
    BY <1>2, <2>1, <2>2 DEF LoginInv, AnsweredOnce
<1>11. AccountInv'
  <2>1. ASSUME NEW n \in 1..nquery, data'[n] # 0
        PROVE  account[query[n].uid] = data'[n]
    <3>1. data \in Seq(Nat) /\ Len(data) = nquery
      BY DEF TypeInv
    <3>2. /\ n # p[1] => data'[n] = data[n]
          /\ data'[p[1]] = IF query[p[1]].cb = "_check_user_cb" THEN data[p[1]]
                           ELSE account[query[p[1]].uid]
      BY <1>2, <1>3, <3>1
    <3>3. data[n] # 0 => account[query[n].uid] = data[n]
      BY DEF AccountInv
    <3>4. QED
      BY <2>1, <3>2, <3>3
  <2>2. QED
    BY <1>2, <2>1 DEF AccountInv
<1>12. QED
  BY <1>7, <1>8, <1>9, <1>10, <1>11

\* A request that is lost is under way no more.
LEMMA DropQueryStep ==
  ASSUME IInv, NEW p \in requests, DropQuery(p)
  PROVE  IInv'
<1> USE DEF IInv
<1>1. /\ requests' = requests \ {p}
      /\ UNCHANGED <<sql_id, sql_dict, nquery, answers, called>> /\ UNCHANGED accounts
  BY DEF DropQuery, Drop
<1>2. Pending' \subseteq Pending
  BY <1>1 DEF Pending
<1>3. /\ Unserved' \subseteq Unserved
      /\ Cardinality(Unserved') \in Nat /\ Cardinality(Unserved') <= Cardinality(Unserved)
      /\ Cardinality(Unserved) \in Nat
  <2>1. Unserved' \subseteq Unserved
    BY <1>1, <1>2 DEF Unserved, accounts
  <2>2. QED
    BY <2>1, PendingFacts, FS_Subset, FS_CardinalityType
<1>4. TypeInv'
  BY <1>1 DEF TypeInv, accounts
<1>5. RoomInv'
  <2>1. SUFFICES ASSUME NEW q \in Pending'
                 PROVE  /\ 0 < q[1] /\ q[1] <= nquery'
                        /\ nquery' + Cardinality(Unserved') - q[1] < MaxPending
    BY DEF RoomInv
  <2>2. nquery \in Nat /\ q[1] \in Nat /\ MaxPending \in Nat
    BY <1>2, PendingFacts, PendingAssumption DEF TypeInv
  <2>3. QED
    BY <1>1, <1>2, <1>3, <2>2 DEF RoomInv
<1>6. IdInv'
  BY <1>1 DEF IdInv, Pending, IdOf
<1>7. LoginInv' /\ AccountInv'
  BY <1>1, <1>2 DEF LoginInv, AccountInv, AnsweredOnce, accounts
<1>8. QED
  BY <1>4, <1>5, <1>6, <1>7

\* The table gets a row for a user that has none; no row is changed.
LEMMA InsertStep ==
  ASSUME IInv, NEW login \in inserts, DealInsert(login) \/ FailInsert(login)
  PROVE  IInv'
<1> USE DEF IInv
<1>1. /\ inserts' = inserts \ {login}
      /\ account' = account \/ account' = Inserted(query[login].uid)
      /\ ninsert' = ninsert \/ ninsert' = ninsert + 1
      /\ account' = account \/ ninsert' = ninsert + 1
      /\ UNCHANGED <<sql_id, sql_dict, nquery, requests, answers, called>>
      /\ UNCHANGED <<account_list, query, data, told>>
  BY DEF DealInsert, FailInsert, sql
<1>2. query[login].uid \in Uids
  BY ElementTypes DEF TypeInv
<1>3. /\ account \in [Uids -> Nat] /\ ninsert \in Nat /\ ninsert' \in Nat /\ ninsert <= ninsert'
      /\ account' \in [Uids -> Nat]
      /\ \A u \in Uids : account'[u] <= ninsert'
      /\ \A u \in Uids : account[u] # 0 => account'[u] = account[u]
      /\ \A u \in Uids : account'[u] # account[u] =>
                           u = query[login].uid /\ account'[u] = ninsert + 1
  <2>1. /\ account \in [Uids -> Nat] /\ ninsert \in Nat /\ ninsert' \in Nat /\ ninsert <= ninsert'
        /\ \A u \in Uids : account[u] \in Nat /\ account[u] <= ninsert
    BY <1>1 DEF TypeInv, AccountInv
  <2>2. CASE account' = account
    BY <1>1, <2>1, <2>2
  <2>3. CASE account' = Inserted(query[login].uid) /\ ninsert' = ninsert + 1
    <3>1. CASE account[query[login].uid] # 0
      BY <2>1, <2>3, <3>1 DEF Inserted
    <3>2. CASE account[query[login].uid] = 0
      <4>1. account' = [account EXCEPT ![query[login].uid] = ninsert + 1]
        BY <2>3, <3>2 DEF Inserted
      <4>2. QED
        BY <1>2, <2>1, <2>3, <3>2, <4>1
    <3>3. QED
      BY <3>1, <3>2
  <2>4. QED
    BY <1>1, <2>2, <2>3
<1>4. TypeInv'
  BY <1>1, <1>3 DEF TypeInv
<1>5. RoomInv' /\ IdInv' /\ LoginInv'
  BY <1>1 DEF RoomInv, IdInv, LoginInv, AnsweredOnce, Pending, Unserved, IdOf
<1>6. AccountInv'
  <2>1. ASSUME NEW u \in Uids, NEW v \in Uids, account'[u] = account'[v], account'[u] # 0
        PROVE  u = v
    <3>1. account[u] # ninsert + 1 /\ account[v] # ninsert + 1
      BY <1>3 DEF AccountInv
    <3>2. QED
      BY <1>3, <2>1, <3>1 DEF AccountInv
  <2>2. \A n \in 1..nquery : data[n] # 0 => account'[query[n].uid] = data[n]
    BY <1>3, ElementTypes DEF AccountInv
  <2>3. \A i \in 1..Len(told) : told[i].id # 0 => account'[told[i].uid] = told[i].id
    BY <1>3, ElementTypes DEF AccountInv
  <2>4. QED
    BY <1>1, <1>3, <2>1, <2>2, <2>3 DEF AccountInv
<1>7. QED
  BY <1>4, <1>5, <1>6

\* An answer that is handled is handled quietly, tells the login of its query what its
\* query has found, or makes the second query of its login.
LEMMA AnswerCases ==
  ASSUME IInv, NEW p \in answers, OnAnswer(p)
  PROVE  \/ /\ OnCallback(p, FALSE) /\ UNCHANGED <<query, data, inserts, account, ninsert>>
            /\ told' = told \/ told' = Append(told, Answer(query[p[1]], data[p[1]]))
            /\ account_list' \in [Uids -> Proxies]
         \/ /\ OnCallback(p, TRUE) /\ UNCHANGED <<account_list, told, account, ninsert>>
            /\ query[p[1]].cb = "_get_uniqid_cb" /\ Found(p) = p[1]
            /\ query' = Append(query, Query("_get_uniqid_cb2", query[p[1]].uid,
                                            query[p[1]].sock, query[p[1]].login))
            /\ data' = Append(data, 0)
            /\ inserts' = inserts \cup {query[p[1]].login}
<1> USE DEF IInv
<1>1. p \in Pending /\ p[1] \in 1..nquery /\ nquery \in Nat
  BY PendingFacts DEF Pending, TypeInv
<1>2. Found(p) = 0 \/ Found(p) = p[1]
  BY AnswerFacts
<1>3. UNCHANGED <<account, ninsert>> /\ OnCallback(p, query' # query)
  BY DEF OnAnswer
<1>4. query' = query => OnCallback(p, FALSE)
  BY <1>3 DEF OnCallback
<1>5. query' # query => OnCallback(p, TRUE)
  BY <1>3 DEF OnCallback
<1>6. CASE Found(p) = 0
  BY <1>3, <1>4, <1>6 DEF OnAnswer, TypeInv
<1>7. CASE Found(p) = p[1] /\ Found(p) # 0
  <2> DEFINE q == query[p[1]]
  <2>1. Callback(q, data[p[1]]) /\ q.cb \in Callbacks
    BY <1>1, <1>7, ElementTypes DEF OnAnswer
  <2>2. CASE q.cb = "_check_user_cb"
    BY <1>3, <1>4, <2>1, <2>2 DEF Callback, TypeInv
  <2>3. ASSUME get_uniqid_cb2(q, data[p[1]])
        PROVE  /\ OnCallback(p, FALSE) /\ UNCHANGED <<query, data, inserts>>
               /\ told' = told \/ told' = Append(told, Answer(q, data[p[1]]))
               /\ account_list' \in [Uids -> Proxies]
    BY <1>4, <2>3 DEF get_uniqid_cb2, TypeInv, Proxies
  <2>4. CASE q.cb = "_get_uniqid_cb2"
    BY <1>3, <2>1, <2>3, <2>4 DEF Callback
  <2>5. CASE q.cb = "_get_uniqid_cb"
    <3>1. get_uniqid_cb(q, data[p[1]])
      BY <2>1, <2>5 DEF Callback
    <3>2. CASE data[p[1]] # 0
      BY <1>3, <2>3, <3>1, <3>2 DEF get_uniqid_cb
    <3>3. CASE data[p[1]] = 0
      <4>1. /\ inserts' = inserts \cup {q.login}
            /\ query' = Append(query, Query("_get_uniqid_cb2", q.uid, q.sock, q.login))
            /\ data' = Append(data, 0) /\ told' = told
            /\ account_list' = account_list
        BY <3>1, <3>3 DEF get_uniqid_cb
      <4>2. Query("_get_uniqid_cb2", q.uid, q.sock, q.login) \in Queries
        BY <1>1, ElementTypes DEF Query, Queries, Callbacks
      <4>3. Len(query') = nquery + 1 /\ Len(query) = nquery
        BY <4>1, <4>2, QueryAppended DEF TypeInv
      <4>4. query' # query
        BY <1>1, <4>3
      <4>5. QED
        BY <1>3, <1>5, <1>7, <2>5, <4>1, <4>4
    <3>4. QED
      BY <3>2, <3>3
  <2>6. QED
    BY <2>1, <2>2, <2>4, <2>5 DEF Callbacks
<1>8. QED
  BY <1>2, <1>6, <1>7

\* An answer without a second query: nothing is left under way, and the login is told
\* at most once.
LEMMA AnsweredStep ==
  ASSUME IInv, NEW p \in answers, OnCallback(p, FALSE),
         UNCHANGED <<query, data, inserts, account, ninsert>>,
         told' = told \/ told' = Append(told, Answer(query[p[1]], data[p[1]])),
         account_list' \in [Uids -> Proxies]
  PROVE  IInv'
<1> USE DEF IInv
<1>1. /\ answers' = answers \ {p} /\ UNCHANGED <<sql_id, nquery, requests>>
      /\ sql_dict' = Del(sql_dict, Carried(p[2]))
      /\ called' = called \/ (Found(p) # 0 /\ called' = called \cup {<<p[1], Found(p)>>})
  BY DEF OnCallback
<1>2. p \in Pending /\ p[1] \in 1..nquery
  BY PendingFacts DEF Pending
<1>3. Pending' = Pending \ {p}
  BY <1>1 DEF Pending, IdInv
<1>4. /\ Unserved' \subseteq Unserved
      /\ Cardinality(Unserved') \in Nat /\ Cardinality(Unserved') <= Cardinality(Unserved)
      /\ Cardinality(Unserved) \in Nat
  <2>1. Unserved' \subseteq Unserved
    BY <1>1, <1>3 DEF Unserved
  <2>2. QED
    BY <2>1, PendingFacts, FS_Subset, FS_CardinalityType
<1>5. \/ told' = told
      \/ /\ told' \in Seq(Answers)
         /\ Len(told') = Len(told) + 1
         /\ \A i \in 1..Len(told) : told'[i] = told[i]
         /\ told'[Len(told) + 1].login = query[p[1]].login
         /\ told'[Len(told) + 1].uid = query[p[1]].uid
         /\ told'[Len(told) + 1].id = data[p[1]]
  <2>1. CASE told' = told
    BY <2>1
  <2>2. CASE told' = Append(told, Answer(query[p[1]], data[p[1]]))
    <3>1. PICK a \in Answers : /\ a = Answer(query[p[1]], data[p[1]])
                               /\ a.login = query[p[1]].login /\ a.uid = query[p[1]].uid
                               /\ a.id = data[p[1]]
      <4>1. /\ query[p[1]].uid \in Uids /\ query[p[1]].login \in Nat /\ data[p[1]] \in Nat
            /\ account_list[query[p[1]].uid] \in Proxies
        BY <1>2, ElementTypes DEF TypeInv
      <4>2. PICK a : a = Answer(query[p[1]], data[p[1]])
        OBVIOUS
      <4>3. a \in Answers
        BY <4>1, <4>2 DEF Answer, Answers
      <4>4. a.login = query[p[1]].login /\ a.uid = query[p[1]].uid /\ a.id = data[p[1]]
        BY <4>2 DEF Answer
      <4>5. QED
        BY <4>2, <4>3, <4>4
    <3>2. told \in Seq(Answers)
      BY DEF TypeInv
    <3>3. QED
      BY <2>2, <3>1, <3>2, AppendProperties
  <2>3. QED
    BY <2>1, <2>2
<1>6. Len(told) \in Nat /\ nquery \in Nat
  BY DEF TypeInv
<1>7. TypeInv'
  BY <1>1, <1>5 DEF TypeInv
<1>8. RoomInv'
  <2>1. SUFFICES ASSUME NEW q \in Pending'
                 PROVE  /\ 0 < q[1] /\ q[1] <= nquery'
                        /\ nquery' + Cardinality(Unserved') - q[1] < MaxPending
    BY DEF RoomInv
  <2>2. nquery \in Nat /\ q[1] \in Nat /\ MaxPending \in Nat /\ q \in Pending
    BY <1>3, <1>6, PendingFacts, PendingAssumption
  <2>3. QED
    BY <1>1, <1>4, <2>2 DEF RoomInv
<1>9. IdInv'
  <2>1. /\ DOMAIN sql_dict' = DOMAIN sql_dict \ {Carried(p[2])}
        /\ \A k \in DOMAIN sql_dict' : sql_dict'[k] = sql_dict[k]
    BY <1>1 DEF Del
  <2>2. \A q \in Pending' : q \in Pending /\ IdOf(q[1])' = IdOf(q[1]) /\ IdOf(q[1]) # Carried(p[2])
    BY <1>1, <1>3, AnswerFacts DEF IdOf, IdBefore
  <2>3. \A c \in called' : c[1] = c[2]
    BY <1>1, AnswerFacts DEF IdInv
  <2>4. \A q \in Pending' : IdOf(q[1])' \in DOMAIN sql_dict' /\ sql_dict'[IdOf(q[1])'] = q[1]
    BY <2>1, <2>2 DEF IdInv
  <2>5. \A q \in requests' : q[2] = IdOf(q[1])'
    BY <1>1, <2>2 DEF IdInv, Pending
  <2>6. \A q \in answers' : q[2] = Carried(IdOf(q[1]))'
    BY <1>1, <2>2 DEF IdInv, Pending, Carried
  <2>7. QED
    BY <1>1, <1>3, <2>1, <2>3, <2>4, <2>5, <2>6 DEF IdInv
<1>10. LoginInv'
  <2>1. CASE told' = told
    BY <1>1, <1>3, <2>1 DEF LoginInv, AnsweredOnce
  <2>2. CASE told' # told
    <3>1. 1..Len(told') = 1..Len(told) \cup {Len(told) + 1}
      BY <1>5, <1>6, <2>2
    <3>2. query[p[1]].login \in 1..nquery
      BY <1>2 DEF LoginInv
    <3>3. \A q \in Pending' : q \in Pending /\ query[q[1]].login # query[p[1]].login
      BY <1>2, <1>3 DEF LoginInv
    <3>4. \A q \in Pending' : \A i \in 1..Len(told') : told'[i].login # query[q[1]].login
      BY <1>5, <2>2, <3>1, <3>3 DEF LoginInv
    <3>5. \A i \in 1..Len(told') : told'[i].login <= nquery
      <4>1. \A i \in 1..Len(told) : told'[i].login <= nquery
        BY <1>5, <2>2 DEF LoginInv
      <4>2. told'[Len(told) + 1].login <= nquery
        BY <1>5, <1>6, <2>2, <3>2
      <4>3. QED
        BY <3>1, <4>1, <4>2
    <3>6. AnsweredOnce'
      <4>1. \A i, j \in 1..Len(told) : told'[i].login = told'[j].login => i = j
        BY <1>5, <2>2 DEF LoginInv, AnsweredOnce
      <4>2. \A i \in 1..Len(told) : told'[i].login # told'[Len(told) + 1].login
        BY <1>2, <1>5, <2>2 DEF LoginInv
      <4>3. QED
        BY <3>1, <4>1, <4>2 DEF AnsweredOnce
    <3>7. QED
      BY <1>1, <1>3, <3>4, <3>5, <3>6 DEF LoginInv
  <2>3. QED
    BY <2>1, <2>2
<1>11. AccountInv'
  <2>1. CASE told' = told
    BY <1>1, <2>1 DEF AccountInv
  <2>2. CASE told' # told
    <3>1. 1..Len(told') = 1..Len(told) \cup {Len(told) + 1}
      BY <1>5, <1>6, <2>2
    <3>2. \A i \in 1..Len(told') : told'[i].id # 0 => account[told'[i].uid] = told'[i].id
      BY <1>2, <1>5, <2>2, <3>1 DEF AccountInv
    <3>3. QED
      BY <1>1, <3>2 DEF AccountInv
  <2>3. QED
    BY <2>1, <2>2
<1>12. QED
  BY <1>7, <1>8, <1>9, <1>10, <1>11

\* The second query of a login takes the place of the first.
LEMMA AskedAgainStep ==
  ASSUME IInv, NEW p \in answers, OnCallback(p, TRUE),
         UNCHANGED <<account_list, told, account, ninsert>>,
         query[p[1]].cb = "_get_uniqid_cb", Found(p) = p[1],
         query' = Append(query, Query("_get_uniqid_cb2", query[p[1]].uid, query[p[1]].sock,
                                         query[p[1]].login)),
         data' = Append(data, 0), inserts' = inserts \cup {query[p[1]].login}
  PROVE  IInv'
<1> USE DEF IInv
<1>1. PICK n : n = nquery + 1
  OBVIOUS
<1>2. PICK new : new = <<n, sql_id'>>
  OBVIOUS
<1>3. /\ Exec(Carried(p[2])) /\ answers' = answers \ {p}
      /\ sql_id' = add_sql_id(sql_id) /\ nquery' = n
      /\ requests' = requests \cup {new}
      /\ called' = called \/ called' = called \cup {<<p[1], Found(p)>>}
      /\ nquery \in Nat /\ n = nquery + 1 /\ n \in Nat
  BY <1>1, <1>2 DEF OnCallback, Exec, TypeInv
<1>4. /\ p \in Pending /\ p[1] \in 1..nquery
      /\ nquery - p[1] \in Nat /\ p[1] \in Nat /\ MaxPending \in Nat
      /\ Cardinality(Unserved) \in Nat /\ IsFiniteSet(Unserved)
      /\ \A q \in Pending : /\ q[1] \in Nat /\ q[1] \in 1..nquery /\ q[1] <= nquery
                            /\ nquery + Cardinality(Unserved) - q[1] < MaxPending
  BY PendingFacts, PendingAssumption DEF Pending, RoomInv
<1>5. p[1] \in Unserved
  BY <1>4 DEF Unserved
<1>6. /\ Cardinality(Unserved) >= 1
      /\ Cardinality(Unserved \ {p[1]}) = Cardinality(Unserved) - 1
  <2>1. Cardinality(Unserved \ {p[1]}) = Cardinality(Unserved) - 1
    BY <1>4, <1>5, FS_RemoveElement
  <2>2. Cardinality(Unserved \ {p[1]}) \in Nat
    BY <1>4, FS_RemoveElement, FS_CardinalityType, FS_Subset
  <2>3. QED
    BY <1>4, <2>1, <2>2
<1>7. \A q \in Pending : nquery + 1 - q[1] < MaxPending
  BY <1>3, <1>4, <1>6
<1>8. Carried(p[2]) # add_sql_id(sql_id)
  <2>1. add_sql_id(sql_id) < MaxSqlId /\ add_sql_id(sql_id) \in Nat
    BY IdRange DEF TypeInv
  <2>2. (nquery - p[1]) + 1 < MaxPending
    BY <1>3, <1>4, <1>7
  <2>3. IdOf(p[1]) # add_sql_id(sql_id)
    BY <1>4, <2>2, NewId DEF IdOf, TypeInv
  <2>4. QED
    BY <2>1, <2>3, AnswerFacts, IdAssumption
<1>9. /\ sql_id' \in Nat /\ MinSqlId <= sql_id' /\ sql_id' < MaxSqlId
      /\ \A q \in Pending \ {p} : /\ IdOf(q[1])' = IdOf(q[1])
                                  /\ IdOf(q[1]) \in DOMAIN sql_dict'
                                  /\ sql_dict'[IdOf(q[1])] = q[1]
      /\ IdOf(n)' = sql_id'
      /\ sql_id' \in DOMAIN sql_dict' /\ sql_dict'[sql_id'] = n
      /\ \A k \in DOMAIN sql_dict' : k \in Nat /\ k < MaxSqlId /\ sql_dict'[k] # 0
  <2>1. \A q \in Pending \ {p} : nquery + 1 - q[1] < MaxPending /\ IdOf(q[1]) # Carried(p[2])
    BY <1>7, AnswerFacts
  <2>2. QED
    BY <1>1, <1>3, <1>8, <2>1, ExecIds
<1>10. /\ Pending' = (Pending \ {p}) \cup {new} /\ new[1] = n /\ new[2] = sql_id'
       /\ new \in Nat \X Nat /\ \A q \in Pending : q[1] # n /\ q # new
  <2>1. new[1] = n /\ new[2] = sql_id' /\ new \in Nat \X Nat
    BY <1>2, <1>3, <1>9
  <2>2. \A q \in Pending : q[1] # n /\ q # new
    BY <1>3, <1>4, <2>1
  <2>3. p \notin requests
    BY DEF IdInv
  <2>4. Pending' = (Pending \ {p}) \cup {new}
    BY <1>3, <2>2, <2>3 DEF Pending
  <2>5. QED
    BY <2>1, <2>2, <2>4
<1>11. /\ query' \in Seq(Queries) /\ data' \in Seq(Nat)
       /\ Len(query') = n /\ Len(data') = n
       /\ \A k \in 1..nquery : query'[k] = query[k] /\ data'[k] = data[k]
       /\ query'[n].cb = "_get_uniqid_cb2" /\ query'[n].uid = query[p[1]].uid
       /\ query'[n].login = query[p[1]].login /\ data'[n] = 0
  <2> DEFINE q == Query("_get_uniqid_cb2", query[p[1]].uid, query[p[1]].sock,
                                         query[p[1]].login)
  <2>1. q \in Queries
    BY <1>4, ElementTypes DEF Query, Queries, Callbacks
  <2>2. /\ q.cb = "_get_uniqid_cb2" /\ q.uid = query[p[1]].uid /\ q.login = query[p[1]].login
    BY DEF Query
  <2> HIDE DEF q
  <2>3. query' = Append(query, q)
    BY DEF q
  <2>4. QED
    BY <1>3, <2>1, <2>2, <2>3, QueryAppended
<1>12. query[p[1]].login \in 1..nquery /\ 1..n = (1..nquery) \cup {n} /\ n \notin 1..nquery
  <2>1. query[p[1]].login \in 1..nquery
    BY <1>4 DEF LoginInv
  <2>2. nquery \in Nat /\ n = nquery + 1
    BY <1>3
  <2>3. 1..n = (1..nquery) \cup {n} /\ n \notin 1..nquery
    BY <2>2
  <2>4. QED
    BY <2>1, <2>3
<1>13. TypeInv'
  <2>1. inserts' \subseteq 1..n
    BY <1>12 DEF TypeInv
  <2>2. QED
    BY <1>3, <1>9, <1>10, <1>11, <2>1 DEF TypeInv
<1>14. Cardinality(Unserved') <= Cardinality(Unserved) - 1 /\ Cardinality(Unserved') \in Nat
  <2>1. Unserved' \subseteq Unserved \ {p[1]}
    <3>1. \A k \in 1..n : (k # n /\ query'[k].cb = "_get_uniqid_cb") =>
                           k \in 1..nquery /\ query[k].cb = "_get_uniqid_cb"
      BY <1>11, <1>12
    <3>2. ~ (\E q \in Pending' : q[1] = p[1]) /\ \A q \in Pending' : q[1] # n => q \in Pending
      BY <1>3, <1>4, <1>10 DEF IdInv
    <3>3. QED
      BY <1>3, <1>11, <3>1, <3>2 DEF Unserved
  <2>2. IsFiniteSet(Unserved \ {p[1]})
    BY <1>4, FS_Subset
  <2>3. Cardinality(Unserved') <= Cardinality(Unserved \ {p[1]}) /\ IsFiniteSet(Unserved')
    BY <2>1, <2>2, FS_Subset
  <2>4. QED
    BY <1>6, <2>3, FS_CardinalityType
<1>15. RoomInv'
  <2>1. ASSUME NEW q \in Pending'
        PROVE  /\ 0 < q[1] /\ q[1] <= nquery'
               /\ nquery' + Cardinality(Unserved') - q[1] < MaxPending
    <3>1. CASE q \in Pending
      <4>1. /\ 0 < q[1] /\ q[1] <= nquery /\ q[1] \in Nat
            /\ nquery + Cardinality(Unserved) - q[1] < MaxPending
        BY <1>3, <1>4, <3>1
      <4>2. /\ nquery' = nquery + 1 /\ nquery \in Nat /\ MaxPending \in Nat
            /\ Cardinality(Unserved) \in Nat
        BY <1>3, <1>4
      <4>3. QED
        BY <1>14, <4>1, <4>2
    <3>2. CASE q = new
      BY <1>3, <1>4, <1>10, <1>14, <3>2
    <3>3. QED
      BY <1>10, <2>1, <3>1, <3>2
  <2>2. QED
    BY <2>1 DEF RoomInv
<1>16. IdInv'
  <2>1. \A q, r \in Pending' : q[1] = r[1] => q = r
    BY <1>10 DEF IdInv
  <2>2. \A q \in requests' : q[2] = IdOf(q[1])'
    BY <1>3, <1>9, <1>10 DEF IdInv, Pending
  <2>3. \A q \in answers' : q[2] = Carried(IdOf(q[1]))'
    BY <1>3, <1>9 DEF IdInv, Pending, Carried
  <2>4. \A q \in Pending' : IdOf(q[1])' \in DOMAIN sql_dict' /\ sql_dict'[IdOf(q[1])'] = q[1]
    BY <1>9, <1>10
  <2>5. requests' \cap answers' = {}
    BY <1>3, <1>10 DEF IdInv, Pending
  <2>6. \A c \in called' : c[1] = c[2]
    BY <1>3 DEF IdInv
  <2>7. QED
    BY <1>9, <2>1, <2>2, <2>3, <2>4, <2>5, <2>6 DEF IdInv
<1>17. LoginInv'
  <2>1. \A k \in 1..n : query'[k].login \in 1..n
    BY <1>11, <1>12 DEF LoginInv
  <2>2. \A q \in Pending \ {p} : /\ query'[q[1]].login = query[q[1]].login
                                 /\ query[q[1]].login # query[p[1]].login
    BY <1>4, <1>11 DEF LoginInv
  <2>n. query'[new[1]].login = query[p[1]].login
    BY <1>10, <1>11
  <2>l. /\ \A q, r \in Pending : query[q[1]].login = query[r[1]].login => q = r
        /\ \A q \in Pending : \A i \in 1..Len(told) : told[i].login # query[q[1]].login
    BY DEF LoginInv
  <2>3. ASSUME NEW q \in Pending', NEW r \in Pending', query'[q[1]].login = query'[r[1]].login
        PROVE  q = r
    <3>1. CASE q = new
      BY <1>10, <2>2, <2>3, <2>n, <3>1
    <3>2. CASE r = new
      BY <1>10, <2>2, <2>3, <2>n, <3>2
    <3>3. CASE q \in Pending \ {p} /\ r \in Pending \ {p}
      <4>1. query[q[1]].login = query[r[1]].login
        BY <2>2, <2>3, <3>3
      <4>2. QED
        BY <2>l, <3>3, <4>1
    <3>4. QED
      BY <1>10, <3>1, <3>2, <3>3
  <2>4. ASSUME NEW q \in Pending', NEW i \in 1..Len(told)
        PROVE  told[i].login # query'[q[1]].login
    <3>1. CASE q = new
      BY <1>4, <2>n, <2>l, <3>1
    <3>2. CASE q \in Pending \ {p}
      BY <2>2, <2>l, <3>2
    <3>3. QED
      BY <1>10, <3>1, <3>2
  <2>5. ASSUME NEW i \in 1..Len(told) PROVE told[i].login <= n
    <3>1. told[i].login \in Nat /\ told[i].login <= nquery
      BY ElementTypes DEF LoginInv
    <3>2. QED
      BY <1>3, <3>1
  <2>6. QED
    BY <1>3, <2>1, <2>3, <2>4, <2>5 DEF LoginInv, AnsweredOnce
<1>18. AccountInv'
  BY <1>3, <1>11, <1>12 DEF AccountInv
<1>19. QED
  BY <1>13, <1>15, <1>16, <1>17, <1>18
-----------------------------------------------------------------------------
(***************************************************************************)
(* Theorems.                                                               *)
(***************************************************************************)
\* The invariant is inductive.
THEOREM Invariant == Spec => []IInv
<1>1. ASSUME IInv, [Next]_vars PROVE IInv'
  <2>1. ASSUME NEW uid \in Uids, user_check(uid) PROVE IInv'
    <3>1. "_check_user_cb" # "_get_uniqid_cb"
      OBVIOUS
    <3>2. QED
      <4>1. /\ account_list[uid] \in Proxies /\ account_list' \in [Uids -> Proxies]
            /\ 1 = IF "_check_user_cb" = "_get_uniqid_cb" THEN 2 ELSE 1
        BY <1>1, <2>1, <3>1 DEF user_check, IInv, TypeInv
      <4>2. QED
        BY <1>1, <2>1, <4>1, CommandStep DEF user_check
  <2>2. ASSUME NEW uid \in Uids, NEW s \in Socks, login_account(s, uid) PROVE IInv'
    <3>1. s \in Proxies /\ account_list' \in [Uids -> Proxies]
      BY <1>1, <2>2 DEF login_account, IInv, TypeInv, Proxies
    <3>2. QED
      BY <1>1, <2>2, <3>1, CommandStep DEF login_account
  <2>3. ASSUME NEW p \in requests, DealSelect(p) PROVE IInv'
    BY <1>1, <2>3, DealSelectStep
  <2>4. ASSUME NEW p \in requests, DropQuery(p) PROVE IInv'
    BY <1>1, <2>4, DropQueryStep
  <2>5. ASSUME NEW p \in answers, OnAnswer(p) PROVE IInv'
    BY <1>1, <2>5, AnswerCases, AnsweredStep, AskedAgainStep
  <2>6. ASSUME NEW login \in inserts, DealInsert(login) \/ FailInsert(login) PROVE IInv'
    BY <1>1, <2>6, InsertStep
  <2>7. CASE UNCHANGED vars
    BY <1>1, <2>7 DEF vars, sql, accounts, IInv, TypeInv, RoomInv, IdInv, LoginInv, AccountInv,
       AnsweredOnce, Pending, Unserved, IdOf
  <2>8. QED
    BY <1>1, <2>1, <2>2, <2>3, <2>4, <2>5, <2>6, <2>7 DEF Next
<1>2. QED
  BY <1>1, InitInv, PTL DEF Spec

\* An answer runs the callback of its own query, and a query under way keeps its
\* callback, whatever ids come round, queries are lost and callbacks query again
\* (SqlManager.OnExec, OnCallback).
THEOREM CallbacksAreOwn == Spec => []OwnCallback
<1>1. ASSUME IInv PROVE OwnCallback
  <2>1. \A p \in requests : Kept(p)
    BY <1>1 DEF IInv, IdInv, Kept, Pending
  <2>2. ASSUME NEW p \in answers, p[2] < MaxSqlId PROVE Kept(p)
    <3>1. p \in Pending /\ p[2] = Carried(IdOf(p[1]))
      BY <1>1 DEF IInv, IdInv, Pending
    <3>2. Carried(IdOf(p[1])) \in Nat /\
          (Carried(IdOf(p[1])) = IdOf(p[1]) \/ Carried(IdOf(p[1])) >= MaxSqlId)
      BY <1>1, <3>1, PendingFacts, CarriedId DEF IInv
    <3>3. p[2] = IdOf(p[1])
      BY <2>2, <3>1, <3>2, IdAssumption
    <3>4. QED
      BY <1>1, <3>1, <3>3 DEF IInv, IdInv, Kept
  <2>3. QED
    BY <1>1, <2>1, <2>2 DEF OwnCallback, IInv, IdInv
<1>2. QED
  BY <1>1, Invariant, PTL

\* A login is answered at most once, by one of its two queries (AccountMgr._get_uniqid_cb,
\* _get_uniqid_cb2).
THEOREM LoginsAnsweredOnce == Spec => []AnsweredOnce
<1>1. IInv => AnsweredOnce
  BY DEF IInv, LoginInv
<1>2. QED
  BY <1>1, Invariant, PTL

\* Every answer tells a user the same account, and no two users the same one, although
\* overlapping logins each send an INSERT (AccountMgr._get_uniqid_cb and the unique key).
THEOREM AccountsAreUnique == Spec => []OneIdPerAccount
<1>1. ASSUME IInv PROVE OneIdPerAccount
  BY <1>1, ElementTypes DEF IInv, AccountInv, OneIdPerAccount
<1>2. QED
  BY <1>1, Invariant, PTL
===========================================================================
