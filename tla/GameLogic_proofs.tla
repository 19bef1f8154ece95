------------------------- MODULE GameLogic_proofs -------------------------
(***************************************************************************)
(* Proofs about GameLogic, for any number of sockets, players, levels,     *)
(* commands and database workers.  IInv adds to the invariants of the runs *)
(* what they rest on: a player in memory has a row, or an INSERT on its    *)
(* way, so that its UPDATE will not fail; and a row, once there, stays.    *)
(***************************************************************************)
EXTENDS GameLogic, FiniteSetTheorems, SequenceTheorems, TLAPS

Reads == [op : {"SELECT"}, id : Ids, sockfd : Socks, cols : {None}]
Writes == [op : {"INSERT", "UPDATE"}, id : Ids, sockfd : {None}, cols : Cols]
Requests == Reads \cup Writes
Answers == [id : Ids, sockfd : Socks, cols : Cols \cup {None}]

\* A player has a row, or will have one.
RowThere(id) == db[id] # None \/ Under(id, "INSERT") # {}

\* So has every player in memory; and an answer with a row was read from the table.
RowInv ==
  /\ \A id \in Ids : save_objs[id] # None => RowThere(id)
  /\ \A i \in 1..Len(toGame) : toGame[i].cols # None => db[toGame[i].id] # None

\* A player in memory is a member of the room of its channel, unless set_channel has
\* moved it.
RoomInv ==
  \A id \in Ids :
    save_objs[id] # None /\ save_objs[id].cols.channel # 0 /\ ~save_objs[id].moved =>
      id \in chat_channel[save_objs[id].cols.channel]

IInv ==
  /\ TypeOK
  /\ OneClientPerPlayer /\ PlayerHasClient
  /\ RoomInv
  /\ RowInv /\ CleanIsSaved
-----------------------------------------------------------------------------
(***************************************************************************)
(* Types.                                                                  *)
(***************************************************************************)
\* What the methods of a player make of it is a player again, for the same client.
LEMMA PlayerTypes ==
  /\ NewCols \in Cols
  /\ \A s \in Socks, cols \in Cols :
       /\ NewPlayer(s, cols) \in Player /\ NewPlayer(s, cols).sockfd = s
       /\ NewPlayer(s, cols).cols = cols /\ NewPlayer(s, cols).dirty
  /\ \A obj \in Player :
       /\ obj.sockfd \in Socks /\ obj.cols \in Cols /\ obj.cols.channel \in Channels
       /\ obj.cols.lv \in Nat /\ obj.dirty \in BOOLEAN
       /\ obj.cols.lv < MaxLv =>
            /\ setAttr(obj, obj.cols.lv + 1) \in Player
            /\ setAttr(obj, obj.cols.lv + 1).sockfd = obj.sockfd
            /\ setAttr(obj, obj.cols.lv + 1).dirty
            /\ setAttr(obj, obj.cols.lv + 1).moved = obj.moved
            /\ setAttr(obj, obj.cols.lv + 1).cols.channel = obj.cols.channel
       /\ set_channel(obj) \in Player /\ set_channel(obj).sockfd = obj.sockfd
       /\ set_channel(obj).dirty /\ set_channel(obj).moved
<1>1. NewCols \in Cols
  BY BoundAssumption DEF NewCols, Cols, Lvs, Channels
<1>2. ASSUME NEW s \in Socks, NEW cols \in Cols
      PROVE  /\ NewPlayer(s, cols) \in Player /\ NewPlayer(s, cols).sockfd = s
             /\ NewPlayer(s, cols).cols = cols /\ NewPlayer(s, cols).dirty
  BY BoundAssumption DEF NewPlayer, Player
<1>3. ASSUME NEW obj \in Player
      PROVE  /\ obj.sockfd \in Socks /\ obj.cols \in Cols /\ obj.cols.channel \in Channels
             /\ obj.cols.lv \in Nat /\ obj.dirty \in BOOLEAN
  BY <1>3, BoundAssumption DEF Player, Cols, Lvs
<1>4. ASSUME NEW obj \in Player, obj.cols.lv < MaxLv
      PROVE  /\ setAttr(obj, obj.cols.lv + 1) \in Player
             /\ setAttr(obj, obj.cols.lv + 1).sockfd = obj.sockfd
             /\ setAttr(obj, obj.cols.lv + 1).dirty
             /\ setAttr(obj, obj.cols.lv + 1).moved = obj.moved
             /\ setAttr(obj, obj.cols.lv + 1).cols.channel = obj.cols.channel
  <2> DEFINE new == setAttr(obj, obj.cols.lv + 1)
  <2>1. obj.cols.lv + 1 \in Lvs
    <3>1. obj.cols.lv \in Nat /\ MaxLv \in Nat
      BY <1>3, BoundAssumption
    <3>2. QED
      BY <1>4, <3>1 DEF Lvs
  <2>2. obj.cols \in [lv : Lvs, channel : Channels]
    BY DEF Player, Cols
  <2>3. /\ new = [obj EXCEPT !.cols = [obj.cols EXCEPT !.lv = obj.cols.lv + 1], !.dirty = TRUE]
    BY DEF setAttr, Player
  <2> HIDE DEF new
  <2>4. /\ [obj.cols EXCEPT !.lv = obj.cols.lv + 1] \in Cols
        /\ [obj.cols EXCEPT !.lv = obj.cols.lv + 1].channel = obj.cols.channel
    BY <2>1, <2>2 DEF Cols
  <2>5. /\ new \in Player /\ new.sockfd = obj.sockfd /\ new.dirty /\ new.moved = obj.moved
        /\ new.cols.channel = obj.cols.channel
    BY <2>3, <2>4 DEF Player
  <2>6. QED
    BY <2>5 DEF new
<1>5. ASSUME NEW obj \in Player
      PROVE  /\ set_channel(obj) \in Player /\ set_channel(obj).sockfd = obj.sockfd
             /\ set_channel(obj).dirty /\ set_channel(obj).moved
  BY <1>5 DEF set_channel, Player, Cols, Channels
<1>6. QED
  BY <1>1, <1>2, <1>3, <1>4, <1>5

\* A tick leaves a player its client, its columns and its room.
LEMMA TickedType ==
  ASSUME NEW obj \in Player \cup {None}
  PROVE  /\ Ticked(obj) \in Player \cup {None}
         /\ obj = None => Ticked(obj) = None
         /\ obj # None /\ Ticked(obj) # None =>
              /\ Ticked(obj).sockfd = obj.sockfd /\ Ticked(obj).cols = obj.cols
              /\ Ticked(obj).moved = obj.moved
              /\ ~Ticked(obj).dirty => ~obj.dirty \/ Saves(obj)
<1>1. CASE obj = None
  BY <1>1 DEF Ticked
<1>2. CASE obj # None /\ obj.tick_num + 1 < PersistentTime
  <2>1. obj \in Player /\ Ticked(obj) = [obj EXCEPT !.tick_num = @ + 1]
    BY <1>2 DEF Ticked
  <2>2. QED
    BY <1>2, <2>1, BoundAssumption DEF Player
<1>3. CASE obj # None /\ ~(obj.tick_num + 1 < PersistentTime)
  <2>1. obj \in Player /\ Ticked(obj) = [obj EXCEPT !.tick_num = 0, !.dirty = FALSE]
    BY <1>3 DEF Ticked
  <2>2. QED
    <3>1. obj.tick_num \in Nat /\ PersistentTime \in Nat \ {0} /\ 0 \in 0..(PersistentTime - 1)
      BY <2>1, BoundAssumption DEF Player
    <3>2. /\ Ticked(obj) \in Player /\ Ticked(obj).sockfd = obj.sockfd
          /\ Ticked(obj).cols = obj.cols /\ Ticked(obj).moved = obj.moved
      BY <2>1, <3>1 DEF Player
    <3>3. obj.tick_num + 1 >= PersistentTime
      BY <1>3, <3>1
    <3>4. ~obj.dirty \/ Saves(obj)
      BY <1>3, <3>3 DEF Saves
    <3>5. QED
      BY <1>3, <3>2, <3>4
<1>4. QED
  BY <1>1, <1>2, <1>3

\* And it leaves the player in memory.
LEMMA TickStays ==
  ASSUME NEW obj \in Player
  PROVE  Ticked(obj) # None
<1>1. obj # None
  BY NoneAssumption
<1>2. CASE obj.tick_num + 1 < PersistentTime
  <2>1. Ticked(obj) = [obj EXCEPT !.tick_num = @ + 1]
    BY <1>1, <1>2 DEF Ticked
  <2>2. obj.tick_num + 1 \in 0..(PersistentTime - 1)
    BY <1>2, BoundAssumption DEF Player
  <2>3. Ticked(obj) \in Player
    BY <2>1, <2>2 DEF Player
  <2>4. QED
    BY <2>3, NoneAssumption
<1>3. CASE ~(obj.tick_num + 1 < PersistentTime)
  <2>1. Ticked(obj) = [obj EXCEPT !.tick_num = 0, !.dirty = FALSE]
    BY <1>1, <1>3 DEF Ticked
  <2>2. 0 \in 0..(PersistentTime - 1)
    BY BoundAssumption
  <2>3. Ticked(obj) \in Player
    BY <2>1, <2>2 DEF Player
  <2>4. QED
    BY <2>3, NoneAssumption
<1>4. QED
  BY <1>2, <1>3

\* What is sent to the database is a sequence of requests.
LEMMA SentTypes ==
  ASSUME TypeOK, NEW id \in Ids
  PROVE  /\ destroy(id) \in Seq(Writes)
         /\ \A s \in Socks : LoadObj(save_objs, id, s) \in Seq(Reads)
         /\ Insert(id, NewCols) \in Writes
         /\ save_objs[id] # None => Update(id, save_objs[id].cols) \in Writes
<1>1. save_objs[id] # None => save_objs[id] \in Player
  BY DEF TypeOK
<1>2. save_objs[id] # None => Update(id, save_objs[id].cols) \in Writes
  BY <1>1, PlayerTypes DEF Update, Writes
<1>3. Insert(id, NewCols) \in Writes
  BY PlayerTypes DEF Insert, Writes
<1>4. destroy(id) \in Seq(Writes)
  BY <1>2 DEF destroy
<1>5. \A s \in Socks : LoadObj(save_objs, id, s) \in Seq(Reads)
  <2>1. ASSUME NEW s \in Socks PROVE LoadObj(save_objs, id, s) \in Seq(Reads)
    <3>1. Select(id, s) \in Reads
      BY DEF Select, Reads
    <3>2. QED
      BY <3>1 DEF LoadObj
  <2>2. QED
    BY <2>1
<1>6. QED
  BY <1>2, <1>3, <1>4, <1>5
-----------------------------------------------------------------------------
(***************************************************************************)
(* Sequences.                                                              *)
(***************************************************************************)
\* Removing an element moves those behind it forward.
LEMMA RemoveAtFacts ==
  ASSUME NEW S, NEW q \in Seq(S), NEW i \in 1..Len(q)
  PROVE  /\ RemoveAt(q, i) \in Seq(S)
         /\ Len(RemoveAt(q, i)) = Len(q) - 1
         /\ \A k \in 1..(i - 1) : RemoveAt(q, i)[k] = q[k]
         /\ \A k \in i..(Len(q) - 1) : RemoveAt(q, i)[k] = q[k + 1]
<1> DEFINE front == SubSeq(q, 1, i - 1)
           rest == SubSeq(q, i + 1, Len(q))
<1>1. Len(q) \in Nat /\ i \in Nat /\ 1 <= i /\ i <= Len(q) /\ \A k \in 1..Len(q) : q[k] \in S
  BY ElementOfSeq
<1>2. /\ front \in Seq(S) /\ Len(front) = i - 1
      /\ \A k \in 1..(i - 1) : front[k] = q[k]
  <2>1. \A k \in 1..(i - 1) : q[k] \in S
    BY <1>1
  <2>2. QED
    BY <1>1, <2>1, SubSeqProperties
<1>3. /\ rest \in Seq(S) /\ Len(rest) = Len(q) - i
      /\ \A k \in 1..(Len(q) - i) : rest[k] = q[i + k]
  <2>1. \A k \in (i + 1)..Len(q) : q[k] \in S
    BY <1>1
  <2>2. /\ rest \in Seq(S) /\ Len(rest) = IF i + 1 <= Len(q) THEN Len(q) - (i + 1) + 1 ELSE 0
        /\ \A k \in 1..(Len(q) - (i + 1) + 1) : rest[k] = q[(i + 1) + k - 1]
    BY <1>1, <2>1, SubSeqProperties
  <2>3. Len(rest) = Len(q) - i /\ Len(q) - (i + 1) + 1 = Len(q) - i
    BY <1>1, <2>2
  <2>4. ASSUME NEW k \in 1..(Len(q) - i) PROVE rest[k] = q[i + k]
    <3>1. (i + 1) + k - 1 = i + k
      BY <1>1
    <3>2. QED
      BY <2>2, <2>3, <3>1
  <2>5. QED
    BY <2>2, <2>3, <2>4
<1>4. RemoveAt(q, i) = front \o rest
  BY DEF RemoveAt
<1> HIDE DEF front, rest
<1>5. /\ front \o rest \in Seq(S) /\ Len(front \o rest) = Len(q) - 1
      /\ \A k \in 1..(Len(q) - 1) :
           (front \o rest)[k] = IF k <= i - 1 THEN front[k] ELSE rest[k - (i - 1)]
  <2>1. /\ front \o rest \in Seq(S) /\ Len(front \o rest) = Len(front) + Len(rest)
        /\ \A k \in 1..(Len(front) + Len(rest)) :
             (front \o rest)[k] = IF k <= Len(front) THEN front[k] ELSE rest[k - Len(front)]
    BY <1>2, <1>3, ConcatProperties
  <2>2. Len(front) = i - 1 /\ Len(front) + Len(rest) = Len(q) - 1
    BY <1>1, <1>2, <1>3
  <2>3. QED
    BY <2>1, <2>2
<1>6. ASSUME NEW k \in 1..(i - 1) PROVE (front \o rest)[k] = q[k]
  BY <1>1, <1>2, <1>5
<1>7. ASSUME NEW k \in i..(Len(q) - 1) PROVE (front \o rest)[k] = q[k + 1]
  <2>1. /\ k \in 1..(Len(q) - 1) /\ ~(k <= i - 1)
        /\ k - (i - 1) \in 1..(Len(q) - i) /\ i + (k - (i - 1)) = k + 1
    BY <1>1
  <2>2. QED
    BY <1>3, <1>5, <2>1
<1>8. QED
  BY <1>4, <1>5, <1>6, <1>7

\* SetToSeq lists every element of a finite set once.
LEMMA SetToSeqFacts ==
  ASSUME NEW S, IsFiniteSet(S)
  PROVE  /\ SetToSeq(S) \in Seq(S)
         /\ \A x \in S : \E k \in 1..Len(SetToSeq(S)) : SetToSeq(S)[k] = x
         /\ \A k, m \in 1..Len(SetToSeq(S)) : SetToSeq(S)[k] = SetToSeq(S)[m] => k = m
<1> DEFINE n == Cardinality(S)
           q == SetToSeq(S)
<1>1. n \in Nat /\ Bijection(1..n, S) # {}
  BY FS_CardinalityType DEF ExistsBijection
<1>2. \E f \in [1..n -> S] : IsInjective(f)
  BY <1>1 DEF Bijection, Injection
<1>3. q \in [1..n -> S] /\ IsInjective(q)
  BY <1>2 DEF SetToSeq
<1> HIDE DEF n, q
<1>4. q \in Injection(1..n, S)
  BY <1>3 DEF Injection
<1>5. Cardinality(1..n) = Cardinality(S)
  BY <1>1, FS_Interval DEF n
<1>6. q \in Surjection(1..n, S)
  BY <1>4, <1>5, FS_Injection
<1>7. q \in Seq(S) /\ Len(q) = n
  BY <1>1, <1>3
<1>8. \A x \in S : \E k \in 1..Len(q) : q[k] = x
  BY <1>6, <1>7 DEF Surjection
<1>9. \A k, m \in 1..Len(q) : q[k] = q[m] => k = m
  BY <1>3, <1>7 DEF IsInjective
<1>10. QED
  BY <1>7, <1>8, <1>9 DEF q

\* What a tick sends: one UPDATE for each player that is saved.
LEMMA TickSends ==
  ASSUME TypeOK,
         NEW q, q = SetToSeq({Update(id, save_objs[id].cols) : id \in {i \in Ids : Saves(save_objs[i])}})
  PROVE  /\ q \in Seq(Writes)
         /\ \A k \in 1..Len(q) : q[k].op = "UPDATE"
         /\ \A id \in Ids : Saves(save_objs[id]) =>
              \E k \in 1..Len(q) : /\ q[k] = Update(id, save_objs[id].cols)
                                   /\ \A m \in 1..Len(q) : q[m].id = id => m = k
         /\ \A k \in 1..Len(q) : Saves(save_objs[q[k].id])
<1> DEFINE Saved == {i \in Ids : Saves(save_objs[i])}
           U == {Update(id, save_objs[id].cols) : id \in Saved}
           g == [id \in Saved |-> Update(id, save_objs[id].cols)]
<1>1. U \subseteq Writes
  BY SentTypes DEF Saves
<1>2. IsFiniteSet(U)
  <2>1. IsFiniteSet(Saved)
    BY IdsAssumption, FS_Subset
  <2>2. g \in Surjection(Saved, U)
    BY DEF Surjection
  <2>3. QED
    BY <2>1, <2>2, FS_Surjection
<1>3. /\ q \in Seq(U)
      /\ \A x \in U : \E k \in 1..Len(q) : q[k] = x
      /\ \A k, m \in 1..Len(q) : q[k] = q[m] => k = m
  BY <1>2, SetToSeqFacts
<1>4. q \in Seq(Writes)
  BY <1>1, <1>3
<1>5. \A k \in 1..Len(q) : \E id \in Saved : q[k] = Update(id, save_objs[id].cols)
  <2>1. \A k \in 1..Len(q) : q[k] \in U
    BY <1>3, ElementOfSeq
  <2>2. QED
    BY <2>1
<1>6. \A id : Update(id, save_objs[id].cols).op = "UPDATE" /\ Update(id, save_objs[id].cols).id = id
  BY DEF Update
<1>7. ASSUME NEW id \in Ids, Saves(save_objs[id])
      PROVE  \E k \in 1..Len(q) : /\ q[k] = Update(id, save_objs[id].cols)
                                  /\ \A m \in 1..Len(q) : q[m].id = id => m = k
  <2>1. PICK k \in 1..Len(q) : q[k] = Update(id, save_objs[id].cols)
    BY <1>3, <1>7
  <2>2. \A m \in 1..Len(q) : q[m].id = id => q[m] = q[k]
    BY <1>5, <1>6, <2>1
  <2>3. QED
    BY <1>3, <2>1, <2>2
<1>8. ASSUME NEW k \in 1..Len(q) PROVE q[k].op = "UPDATE" /\ Saves(save_objs[q[k].id])
  <2>1. PICK id \in Saved : q[k] = Update(id, save_objs[id].cols)
    BY <1>5
  <2>2. QED
    BY <1>6, <2>1
<1>9. QED
  BY <1>4, <1>7, <1>8

\* Sending keeps the type of toDb, and what was under way is still where it was.
LEMMA PushFacts ==
  ASSUME TypeOK, NEW q, q \in Seq(Requests), Push(q)
  PROVE  /\ toDb' \in Seq(Requests) /\ Len(toDb') = Len(toDb) + Len(q)
         /\ Len(toDb) \in Nat /\ Len(q) \in Nat
         /\ \A k \in 1..Len(toDb) : toDb'[k] = toDb[k]
         /\ \A k \in 1..Len(q) : toDb'[Len(toDb) + k] = q[k]
<1>1. toDb \in Seq(Requests)
  BY DEF TypeOK, Requests, Reads, Writes
<1>2. /\ toDb' \in Seq(Requests) /\ Len(toDb') = Len(toDb) + Len(q)
      /\ \A k \in 1..(Len(toDb) + Len(q)) :
           toDb'[k] = IF k <= Len(toDb) THEN toDb[k] ELSE q[k - Len(toDb)]
  BY <1>1, ConcatProperties DEF Push
<1>3. Len(toDb) \in Nat /\ Len(q) \in Nat
  BY <1>1
<1>4. ASSUME NEW k \in 1..Len(q) PROVE toDb'[Len(toDb) + k] = q[k]
  <2>1. /\ Len(toDb) + k \in 1..(Len(toDb) + Len(q)) /\ ~(Len(toDb) + k <= Len(toDb))
        /\ (Len(toDb) + k) - Len(toDb) = k
    BY <1>3
  <2>2. QED
    BY <1>2, <2>1
<1>5. QED
  BY <1>2, <1>3, <1>4

\* The requests that the handlers send.
LEMMA SendsAreRequests ==
  ASSUME TypeOK, NEW id \in Ids, NEW s \in Socks
  PROVE  /\ destroy(id) \in Seq(Requests) /\ <<Insert(id, NewCols)>> \in Seq(Requests)
         /\ <<Select(id, s)>> \in Seq(Requests) /\ <<>> \in Seq(Requests)
         /\ destroy(id) \o <<Select(id, s)>> \in Seq(Requests)
<1>1. Select(id, s) \in Requests /\ Insert(id, NewCols) \in Requests
  BY SentTypes DEF Select, Reads, Requests
<1>2. destroy(id) = <<>> \/ destroy(id) = <<Update(id, save_objs[id].cols)>>
  BY DEF destroy
<1>3. destroy(id) \in Seq(Requests)
  <2>1. CASE save_objs[id] # None
    BY <1>2, <2>1, SentTypes DEF Requests
  <2>2. CASE save_objs[id] = None
    BY <2>2 DEF destroy
  <2>3. QED
    BY <2>1, <2>2
<1>4. <<Select(id, s)>> \in Seq(Requests)
  BY <1>1
<1>5. QED
  BY <1>1, <1>3, <1>4, ConcatProperties

\* Types hold initially.
LEMMA TypeInit == Init => TypeOK
  BY IdsAssumption, BoundAssumption, PlayerTypes
  DEF Init, TypeOK, Channels, Cols, Lvs

\* What LoseTouch and the other parts of the history keep.
LEMMA HistoryTypes ==
  ASSUME TypeOK, NEW s \in Socks, NEW id \in Ids, NEW ids, LoseTouch(ids),
         ids \subseteq Ids \/ ids = Abandoned(s, id)
  PROVE  strays' \subseteq Ids
  BY DEF TypeOK, LoseTouch, Abandoned

\* The relogin of a player: its socket is taken, it is saved and asked for again.
LEMMA KickSends ==
  ASSUME TypeOK, NEW s \in Socks, NEW id \in Ids, NEW old \in SocksOf(id),
         kick_player(id, s, old)
  PROVE  /\ save_objs' = DelObj(id) /\ save_objs'[id] = None
         /\ \A j \in Ids : j # id => save_objs'[j] = save_objs[j]
         /\ Push(destroy(id) \o <<Select(id, s)>>)
         /\ old \in Socks /\ client_map[old] = id
         /\ client_map' = [[client_map EXCEPT ![old] = None] EXCEPT ![s] = id]
<1>1. /\ save_objs' = DelObj(id) /\ save_objs'[id] = None
      /\ \A j \in Ids : j # id => save_objs'[j] = save_objs[j]
  BY DEF kick_player, DelObj, TypeOK
<1>2. LoadObj(save_objs', id, s) = <<Select(id, s)>>
  BY <1>1 DEF LoadObj
<1>3. QED
  BY <1>1, <1>2 DEF kick_player, SocksOf, WithProxy, WithoutProxy

\* The oldest answer.
LEMMA AnswerType ==
  ASSUME TypeOK, toGame # <<>>
  PROVE  /\ toGame \in Seq(Answers) /\ Head(toGame) \in Answers /\ Tail(toGame) \in Seq(Answers)
         /\ Head(toGame).id \in Ids /\ Head(toGame).sockfd \in Socks
         /\ Head(toGame).cols # None => Head(toGame).cols \in Cols
<1>1. toGame \in Seq(Answers)
  BY DEF TypeOK, Answers
<1>2. Head(toGame) \in Answers /\ Tail(toGame) \in Seq(Answers)
  BY <1>1, HeadTailProperties
<1>3. QED
  BY <1>1, <1>2 DEF Answers

\* Steps keep the types.
LEMMA TypeStep == TypeOK /\ [Next]_vars => TypeOK'
<1> SUFFICES ASSUME TypeOK, [Next]_vars PROVE TypeOK'
  OBVIOUS
<1>1. /\ toDb \in Seq(Requests) /\ client_map \in [Socks -> Ids \cup {None}]
      /\ save_objs \in [Ids -> Player \cup {None}]
      /\ \A id \in Ids : GetObj(id) => save_objs[id] \in Player
  BY DEF TypeOK, Requests, Reads, Writes, GetObj
<1>2. ASSUME NEW q, q \in Seq(Requests), Push(q) PROVE toDb' \in Seq(Requests)
  BY <1>2, PushFacts
<1>3. ASSUME client_map' \in [Socks -> Ids \cup {None}],
             save_objs' \in [Ids -> Player \cup {None}],
             toDb' \in Seq(Requests), shared' \subseteq Ids, strays' \subseteq Ids,
             Handled
      PROVE  TypeOK'
  <2>1. nrequest' \in 0..MaxRequests
    BY <1>3, BoundAssumption DEF Handled, TypeOK
  <2>2. QED
    BY <1>3, <2>1 DEF Handled, TypeOK, Requests, Reads, Writes
<1>4. ASSUME NEW s \in Socks, NEW id \in Ids, create_player(s, id), Handled PROVE TypeOK'
  <2>1. client_map' \in [Socks -> Ids \cup {None}] /\ shared' \subseteq Ids /\ strays' \subseteq Ids
    BY <1>1, <1>4, HistoryTypes DEF create_player, WithProxy, TypeOK
  <2>2. save_objs' \in [Ids -> Player \cup {None}]
    BY <1>1, <1>4, PlayerTypes DEF create_player, CreateObj, AddObj
  <2>3. toDb' \in Seq(Requests)
    BY <1>1, <1>2, <1>4, SendsAreRequests DEF create_player, CreateObj
  <2>4. QED
    BY <1>3, <1>4, <2>1, <2>2, <2>3
<1>5. ASSUME NEW s \in Socks, NEW id \in Ids, login_player(s, id), Handled PROVE TypeOK'
  <2>1. shared' \subseteq Ids /\ strays' \subseteq Ids
    BY <1>5, HistoryTypes DEF login_player, TypeOK
  <2>2. CASE check_relogin(id)
    <3>1. PICK old \in SocksOf(id) : kick_player(id, s, old)
      BY <1>5, <2>2 DEF login_player
    <3>2. /\ save_objs' = DelObj(id) /\ Push(destroy(id) \o <<Select(id, s)>>)
          /\ client_map' = [[client_map EXCEPT ![old] = None] EXCEPT ![s] = id]
      BY <3>1, KickSends
    <3>3. destroy(id) \o <<Select(id, s)>> \in Seq(Requests)
      BY SendsAreRequests
    <3>4. toDb' \in Seq(Requests)
      BY <1>2, <3>2, <3>3
    <3>5. save_objs' \in [Ids -> Player \cup {None}] /\ client_map' \in [Socks -> Ids \cup {None}]
      BY <1>1, <3>2 DEF DelObj
    <3>6. QED
      BY <1>3, <1>5, <2>1, <3>4, <3>5
  <2>3. CASE ~check_relogin(id)
    <3>1. toDb' \in Seq(Requests)
      BY <1>2, <1>5, <2>3, SendsAreRequests DEF login_player, LoadObj
    <3>2. client_map' \in [Socks -> Ids \cup {None}] /\ save_objs' = save_objs
      BY <1>1, <1>5, <2>3 DEF login_player, WithProxy
    <3>3. QED
      BY <1>1, <1>3, <1>5, <2>1, <3>1, <3>2
  <2>4. QED
    BY <2>2, <2>3
<1>6. ASSUME NEW s \in Socks, Leave(s), Handled PROVE TypeOK'
  <2>1. CASE client_map[s] = None
    BY <1>1, <1>3, <1>6, <2>1 DEF Leave, history, TypeOK
  <2>2. CASE client_map[s] # None
    <3>1. client_map[s] \in Ids
      BY <1>1, <2>2
    <3>2. toDb' \in Seq(Requests)
      BY <1>2, <1>6, <2>2, <3>1, SendsAreRequests DEF Leave
    <3>3. shared' \subseteq Ids /\ strays' \subseteq Ids
      BY <1>6, <2>2 DEF Leave, LoseTouch, TypeOK
    <3>4. client_map' \in [Socks -> Ids \cup {None}] /\ save_objs' \in [Ids -> Player \cup {None}]
      BY <1>1, <1>6, <2>2, <3>1 DEF Leave, WithoutProxy, DelObj
    <3>5. QED
      BY <1>3, <1>6, <3>2, <3>3, <3>4
  <2>3. QED
    BY <2>1, <2>2
<1>7. ASSUME NEW s \in Socks, setLv(s) \/ setChannel(s) \/ talk(s), Handled PROVE TypeOK'
  <2>1. UNCHANGED <<client_map, toDb, shared, strays>>
    BY <1>7 DEF setLv, setChannel, talk, history
  <2>2. save_objs' \in [Ids -> Player \cup {None}]
    <3>1. CASE setLv(s)
      <4>1. PICK id \in protocol_parse(s) :
              /\ save_objs[id].cols.lv < MaxLv
              /\ save_objs' = [save_objs EXCEPT ![id] = setAttr(@, @.cols.lv + 1)]
        BY <3>1 DEF setLv
      <4>2. setAttr(save_objs[id], save_objs[id].cols.lv + 1) \in Player
        BY <1>1, <4>1, PlayerTypes DEF protocol_parse
      <4>3. QED
        BY <1>1, <4>1, <4>2
    <3>2. CASE setChannel(s)
      <4>1. PICK id \in protocol_parse(s) : save_objs' = [save_objs EXCEPT ![id] = set_channel(@)]
        BY <3>2 DEF setChannel
      <4>2. set_channel(save_objs[id]) \in Player
        BY <1>1, PlayerTypes DEF protocol_parse
      <4>3. QED
        BY <1>1, <4>1, <4>2
    <3>3. CASE talk(s)
      BY <1>1, <3>3 DEF talk
    <3>4. QED
      BY <1>7, <3>1, <3>2, <3>3
  <2>3. QED
    BY <1>1, <1>3, <1>7, <2>1, <2>2 DEF TypeOK
<1>8. CASE OnTick
  <2>1. toDb' \in Seq(Requests)
    <3>1. PICK q : q = SetToSeq({Update(id, save_objs[id].cols) : id \in {i \in Ids : Saves(save_objs[i])}})
      OBVIOUS
    <3>2. q \in Seq(Requests)
      BY <3>1, TickSends DEF Requests
    <3>3. QED
      BY <1>2, <1>8, <3>1, <3>2 DEF OnTick, TickObjs
  <2>2. save_objs' \in [Ids -> Player \cup {None}]
    BY <1>1, <1>8, TickedType DEF OnTick, TickObjs
  <2>3. UNCHANGED <<client_map, chat_channel, toGame, db, nrequest, shared, strays, overtaken, replaced>>
    BY <1>8 DEF OnTick, history
  <2>4. QED
    BY <2>1, <2>2, <2>3 DEF TypeOK, Requests, Reads, Writes
<1>9. CASE OnConnector
  <2> DEFINE a == Head(toGame)
  <2>1. toGame # <<>>
    BY <1>9 DEF OnConnector
  <2>2. a \in Answers /\ toGame' \in Seq(Answers)
    BY <1>9, <2>1, AnswerType DEF OnConnector
  <2>3. a.id \in Ids /\ a.sockfd \in Socks /\ (a.cols # None => a.cols \in Cols)
    BY <2>1, AnswerType
  <2>4. loadFromDb(a) /\ UNCHANGED <<toDb, db, nrequest, shared, overtaken>>
    BY <1>9 DEF OnConnector
  <2> HIDE DEF a
  <2>5. strays' \subseteq Ids
    <3>1. PICK ids : LoseTouch(ids) /\ ids \subseteq Ids
      BY <2>3, <2>4 DEF loadFromDb
    <3>2. QED
      BY <3>1 DEF LoseTouch, TypeOK
  <2>6. /\ save_objs' \in [Ids -> Player \cup {None}]
        /\ chat_channel' \in [Channels -> SUBSET Ids]
        /\ client_map' \in [Socks -> Ids \cup {None}]
    <3>1. CASE a.cols # None
      <4>1. NewPlayer(a.sockfd, a.cols) \in Player /\ a.cols.channel \in Channels
        BY <2>3, <3>1, PlayerTypes DEF Cols
      <4>2. /\ save_objs' = AddObj(a.id, NewPlayer(a.sockfd, a.cols))
            /\ chat_channel' = add_player_2_channel(a.cols.channel, a.id)
            /\ client_map' = client_map
        BY <2>4, <3>1 DEF loadFromDb
      <4>3. QED
        BY <1>1, <2>3, <4>1, <4>2 DEF AddObj, add_player_2_channel, TypeOK
    <3>2. CASE a.cols = None
      BY <1>1, <2>4, <3>2 DEF loadFromDb, login_failed, WithoutProxy, TypeOK
    <3>3. QED
      BY <3>1, <3>2
  <2>7. replaced' \subseteq Ids \X Cols
    <3>1. Replace(a)
      BY <1>9 DEF OnConnector, a
    <3>2. save_objs[a.id] # None => save_objs[a.id].cols \in Cols
      BY <1>1, <2>3, PlayerTypes
    <3>3. replaced \subseteq Ids \X Cols
      BY DEF TypeOK
    <3>4. QED
      BY <2>3, <3>1, <3>2, <3>3 DEF Replace
  <2>8. QED
    BY <2>2, <2>4, <2>5, <2>6, <2>7 DEF TypeOK, Answers
<1>10. CASE DBWorker
  <2>1. PICK i \in 1..Len(toDb) : DealSql(i)
    BY <1>10, BoundAssumption DEF DBWorker
  <2> DEFINE r == toDb[i]
  <2>2. r \in Requests /\ r.id \in Ids
    BY <1>1, ElementOfSeq DEF Requests, Reads, Writes
  <2>3. Row(db[r.id], r) \in Cols \cup {None} /\ db' = [db EXCEPT ![r.id] = Row(@, r)]
    BY <2>1, <2>2 DEF DealSql, Row, Requests, Reads, Writes, TypeOK
  <2>4. toDb' \in Seq(Requests)
    BY <1>1, <2>1, RemoveAtFacts DEF DealSql
  <2>5. toGame' \in Seq(Answers)
    <3>1. r.op = "SELECT" => Found(r) \in Answers
      BY <2>2 DEF Found, Requests, Reads, Writes, Answers, TypeOK
    <3>2. toGame \in Seq(Answers)
      BY DEF TypeOK, Answers
    <3>3. toGame' = IF r.op = "SELECT" THEN Append(toGame, Found(r)) ELSE toGame
      BY <2>1 DEF DealSql
    <3> HIDE DEF r
    <3>4. QED
      BY <3>1, <3>2, <3>3, AppendProperties
  <2>6. /\ overtaken' \subseteq Ids
        /\ UNCHANGED <<client_map, save_objs, chat_channel, nrequest, shared, strays, replaced>>
    BY <2>1, <2>2 DEF DealSql, TypeOK, scripts, history
  <2> HIDE DEF r
  <2>7. QED
    BY <2>2, <2>3, <2>4, <2>5, <2>6 DEF TypeOK, Requests, Reads, Writes, Answers
<1>11. CASE UNCHANGED vars
  BY <1>11 DEF TypeOK, vars, scripts, history
<1>12. QED
  BY <1>4, <1>5, <1>6, <1>7, <1>8, <1>9, <1>10, <1>11
  DEF Next, dispatch_protocol, OnFdClosed, login_out_player, player_sockfd_close
-----------------------------------------------------------------------------
(***************************************************************************)
(* Players and their clients.                                              *)
(***************************************************************************)
\* Steps keep every player with one client, and every client with its player.
LEMMA ClientStep ==
  TypeOK /\ OneClientPerPlayer /\ PlayerHasClient /\ [Next]_vars =>
    OneClientPerPlayer' /\ PlayerHasClient'
<1> SUFFICES ASSUME TypeOK, OneClientPerPlayer, PlayerHasClient, [Next]_vars
             PROVE  OneClientPerPlayer' /\ PlayerHasClient'
  OBVIOUS
<1>1. /\ client_map \in [Socks -> Ids \cup {None}] /\ None \notin Ids
      /\ save_objs \in [Ids -> Player \cup {None}]
      /\ \A j \in Ids : save_objs[j] # None => save_objs[j] \in Player /\ save_objs[j].sockfd \in Socks
  BY IdsAssumption, PlayerTypes DEF TypeOK
<1>2. ASSUME NEW s \in Socks, NEW id \in Ids, create_player(s, id)
      PROVE  OneClientPerPlayer' /\ PlayerHasClient'
  <2>1. /\ client_map' = [client_map EXCEPT ![s] = id] /\ LoseTouch(Abandoned(s, id))
        /\ shared' = IF SocksOf(id) \subseteq {s} THEN shared ELSE shared \cup {id}
        /\ \A j \in Ids : j # id => save_objs'[j] = save_objs[j]
        /\ save_objs[id] # None => save_objs'[id] = save_objs[id]
        /\ save_objs[id] = None => save_objs'[id] = NewPlayer(s, NewCols)
    BY <1>1, <1>2 DEF create_player, WithProxy, CreateObj, GetObj, AddObj
  <2>2. OneClientPerPlayer'
    BY <1>1, <2>1 DEF OneClientPerPlayer, SocksOf
  <2>3. ASSUME NEW j \in Ids, save_objs'[j] # None, j \notin strays' \cup shared'
        PROVE  client_map'[save_objs'[j].sockfd] = j
    <3>1. j \notin strays \cup shared /\ j \notin Abandoned(s, id)
      BY <2>1, <2>3 DEF LoseTouch
    <3>2. CASE save_objs[j] # None
      BY <1>1, <2>1, <3>1, <3>2 DEF PlayerHasClient, Abandoned
    <3>3. CASE save_objs[j] = None
      BY <1>1, <2>1, <2>3, <3>3, PlayerTypes
    <3>4. QED
      BY <3>2, <3>3
  <2>4. QED
    BY <2>2, <2>3 DEF PlayerHasClient
<1>3. ASSUME NEW s \in Socks, NEW id \in Ids, login_player(s, id)
      PROVE  OneClientPerPlayer' /\ PlayerHasClient'
  <2>1. shared' = shared /\ LoseTouch(Abandoned(s, id))
    BY <1>3 DEF login_player
  <2>2. CASE check_relogin(id)
    <3>1. PICK old \in SocksOf(id) : kick_player(id, s, old)
      BY <1>3, <2>2 DEF login_player
    <3>2. /\ save_objs'[id] = None /\ \A j \in Ids : j # id => save_objs'[j] = save_objs[j]
          /\ old \in Socks /\ client_map[old] = id
          /\ client_map' = [[client_map EXCEPT ![old] = None] EXCEPT ![s] = id]
      <4>1. /\ save_objs' = DelObj(id) /\ save_objs'[id] = None
            /\ \A j \in Ids : j # id => save_objs'[j] = save_objs[j]
            /\ Push(destroy(id) \o <<Select(id, s)>>)
            /\ old \in Socks /\ client_map[old] = id
            /\ client_map' = [[client_map EXCEPT ![old] = None] EXCEPT ![s] = id]
        BY <3>1, KickSends
      <4>2. QED
        BY <4>1
    <3>3. \A t \in Socks : client_map'[t] = IF t = s THEN id ELSE IF t = old THEN None ELSE client_map[t]
      BY <1>1, <3>2
    <3>4. OneClientPerPlayer'
      <4>1. SUFFICES ASSUME NEW t \in Socks, NEW u \in Socks, t # u,
                            client_map'[t] # None, client_map'[t] = client_map'[u]
                     PROVE  client_map'[t] \in shared
        BY <2>1 DEF OneClientPerPlayer
      <4>2. \A v \in Socks : v # old /\ client_map[v] = id => id \in shared
        BY <1>1, <3>2 DEF OneClientPerPlayer
      <4>3. QED
        BY <1>1, <3>3, <4>1, <4>2 DEF OneClientPerPlayer
    <3>5. ASSUME NEW j \in Ids, save_objs'[j] # None, j \notin strays' \cup shared'
          PROVE  client_map'[save_objs'[j].sockfd] = j
      <4>1. j # id /\ j \notin strays \cup shared /\ j \notin Abandoned(s, id)
        BY <2>1, <3>2, <3>5 DEF LoseTouch
      <4>2. client_map[save_objs[j].sockfd] = j /\ save_objs'[j] = save_objs[j]
        BY <3>2, <3>5, <4>1 DEF PlayerHasClient
      <4>3. QED
        BY <1>1, <3>2, <3>3, <3>5, <4>1, <4>2 DEF Abandoned
    <3>6. QED
      BY <3>4, <3>5 DEF PlayerHasClient
  <2>3. CASE ~check_relogin(id)
    <3>1. /\ client_map' = [client_map EXCEPT ![s] = id] /\ save_objs' = save_objs
          /\ SocksOf(id) = {}
      BY <1>3, <2>3 DEF login_player, WithProxy, check_relogin
    <3>2. OneClientPerPlayer'
      BY <1>1, <2>1, <3>1 DEF OneClientPerPlayer, SocksOf
    <3>3. ASSUME NEW j \in Ids, save_objs'[j] # None, j \notin strays' \cup shared'
          PROVE  client_map'[save_objs'[j].sockfd] = j
      <4>1. j \notin strays \cup shared /\ j \notin Abandoned(s, id)
        BY <2>1, <3>1, <3>3 DEF LoseTouch
      <4>2. client_map[save_objs[j].sockfd] = j /\ save_objs'[j] = save_objs[j]
        BY <3>1, <3>3, <4>1 DEF PlayerHasClient
      <4>3. QED
        BY <1>1, <3>1, <3>3, <4>1, <4>2 DEF Abandoned
    <3>4. QED
      BY <3>2, <3>3 DEF PlayerHasClient
  <2>4. QED
    BY <2>2, <2>3
<1>4. ASSUME NEW s \in Socks, Leave(s) PROVE OneClientPerPlayer' /\ PlayerHasClient'
  <2>1. CASE client_map[s] = None
    BY <1>4, <2>1 DEF Leave, history, OneClientPerPlayer, PlayerHasClient
  <2>2. CASE client_map[s] # None
    <3>1. /\ client_map' = [client_map EXCEPT ![s] = None] /\ shared' = shared /\ LoseTouch({})
          /\ save_objs' = [save_objs EXCEPT ![client_map[s]] = None]
      BY <1>4, <2>2 DEF Leave, WithoutProxy, DelObj
    <3>2. OneClientPerPlayer'
      BY <1>1, <3>1 DEF OneClientPerPlayer
    <3>3. ASSUME NEW j \in Ids, save_objs'[j] # None, j \notin strays' \cup shared'
          PROVE  client_map'[save_objs'[j].sockfd] = j
      <4>1. j \notin strays \cup shared /\ j # client_map[s] /\ save_objs'[j] = save_objs[j]
        BY <1>1, <3>1, <3>3 DEF LoseTouch
      <4>2. client_map[save_objs[j].sockfd] = j
        BY <3>3, <4>1 DEF PlayerHasClient
      <4>3. QED
        BY <1>1, <3>1, <3>3, <4>1, <4>2
    <3>4. QED
      BY <3>2, <3>3 DEF PlayerHasClient
  <2>3. QED
    BY <2>1, <2>2
<1>5. ASSUME client_map' = client_map, shared' = shared, strays' = strays,
             \A j \in Ids : save_objs'[j] # None =>
               save_objs[j] # None /\ save_objs'[j].sockfd = save_objs[j].sockfd
      PROVE  OneClientPerPlayer' /\ PlayerHasClient'
  BY <1>5 DEF OneClientPerPlayer, PlayerHasClient
<1>6. ASSUME NEW s \in Socks, setLv(s) PROVE OneClientPerPlayer' /\ PlayerHasClient'
  <2>1. PICK id \in protocol_parse(s) :
          /\ save_objs[id].cols.lv < MaxLv
          /\ save_objs' = [save_objs EXCEPT ![id] = setAttr(@, @.cols.lv + 1)]
    BY <1>6 DEF setLv
  <2>2. id \in Ids /\ save_objs[id] \in Player /\ save_objs[id] # None
    BY <1>1 DEF protocol_parse, GetObj
  <2>3. setAttr(save_objs[id], save_objs[id].cols.lv + 1).sockfd = save_objs[id].sockfd
    BY <2>1, <2>2, PlayerTypes
  <2>4. UNCHANGED <<client_map, shared, strays>>
    BY <1>6 DEF setLv, history
  <2>5. QED
    BY <1>1, <1>5, <2>1, <2>2, <2>3, <2>4
<1>7. ASSUME NEW s \in Socks, setChannel(s) PROVE OneClientPerPlayer' /\ PlayerHasClient'
  <2>1. PICK id \in protocol_parse(s) : save_objs' = [save_objs EXCEPT ![id] = set_channel(@)]
    BY <1>7 DEF setChannel
  <2>2. id \in Ids /\ save_objs[id] \in Player /\ save_objs[id] # None
    BY <1>1 DEF protocol_parse, GetObj
  <2>3. set_channel(save_objs[id]).sockfd = save_objs[id].sockfd
    BY <2>2, PlayerTypes
  <2>4. UNCHANGED <<client_map, shared, strays>>
    BY <1>7 DEF setChannel, history
  <2>5. QED
    BY <1>1, <1>5, <2>1, <2>2, <2>3, <2>4
<1>8. ASSUME NEW s \in Socks, talk(s) PROVE OneClientPerPlayer' /\ PlayerHasClient'
  BY <1>5, <1>8 DEF talk, history
<1>9. CASE OnTick
  <2>1. /\ UNCHANGED <<client_map, shared, strays>>
        /\ save_objs' = [id \in Ids |-> Ticked(save_objs[id])]
    BY <1>9 DEF OnTick, TickObjs, history
  <2>2. QED
    BY <1>1, <1>5, <2>1, TickedType
<1>10. CASE OnConnector
  <2>1. PICK a : a = Head(toGame) /\ loadFromDb(a) /\ shared' = shared
    BY <1>10 DEF OnConnector
  <2>2. a.id \in Ids /\ a.sockfd \in Socks /\ (a.cols # None => a.cols \in Cols)
    BY <1>10, <2>1, AnswerType DEF OnConnector
  <2>3. CASE a.cols # None
    <3>1. /\ save_objs' = [save_objs EXCEPT ![a.id] = NewPlayer(a.sockfd, a.cols)]
          /\ client_map' = client_map
          /\ LoseTouch(IF client_map[a.sockfd] = a.id THEN {} ELSE {a.id})
      BY <2>1, <2>3 DEF loadFromDb, AddObj
    <3>2. NewPlayer(a.sockfd, a.cols).sockfd = a.sockfd
      BY <2>2, <2>3, PlayerTypes
    <3>3. OneClientPerPlayer'
      BY <2>1, <3>1 DEF OneClientPerPlayer
    <3>4. ASSUME NEW j \in Ids, save_objs'[j] # None, j \notin strays' \cup shared'
          PROVE  client_map'[save_objs'[j].sockfd] = j
      <4>1. j \notin strays \cup shared /\ (j = a.id => client_map[a.sockfd] = a.id)
        BY <2>1, <3>1, <3>4 DEF LoseTouch
      <4>2. QED
        BY <1>1, <2>2, <3>1, <3>2, <3>4, <4>1 DEF PlayerHasClient
    <3>5. QED
      BY <3>3, <3>4 DEF PlayerHasClient
  <2>4. CASE a.cols = None
    <3>1. save_objs' = save_objs /\ login_failed(a.id) /\ LoseTouch({a.id})
      BY <2>1, <2>4 DEF loadFromDb
    <3>2. \A t \in Socks : client_map'[t] = client_map[t]
                           \/ (client_map[t] = a.id /\ client_map'[t] = None)
      BY <1>1, <3>1 DEF login_failed, SocksOf, WithoutProxy
    <3>3. OneClientPerPlayer'
      BY <2>1, <3>2 DEF OneClientPerPlayer
    <3>4. ASSUME NEW j \in Ids, save_objs'[j] # None, j \notin strays' \cup shared'
          PROVE  client_map'[save_objs'[j].sockfd] = j
      <4>1. j \notin strays \cup shared /\ j # a.id /\ save_objs'[j] = save_objs[j]
        BY <2>1, <3>1, <3>4 DEF LoseTouch
      <4>2. QED
        BY <1>1, <2>2, <3>2, <3>4, <4>1 DEF PlayerHasClient
    <3>5. QED
      BY <3>3, <3>4 DEF PlayerHasClient
  <2>5. QED
    BY <2>3, <2>4
<1>11. CASE DBWorker
  <2>1. UNCHANGED <<client_map, save_objs, shared, strays>>
    BY <1>11 DEF DBWorker, DealSql, scripts, history
  <2>2. QED
    BY <1>5, <2>1
<1>12. CASE UNCHANGED vars
  BY <1>5, <1>12 DEF vars, scripts, history
<1>13. QED
  BY <1>2, <1>3, <1>4, <1>6, <1>7, <1>8, <1>9, <1>10, <1>11, <1>12
  DEF Next, dispatch_protocol, OnFdClosed, login_out_player, player_sockfd_close
-----------------------------------------------------------------------------
(***************************************************************************)
(* Rooms.                                                                  *)
(***************************************************************************)
\* A step that moves nobody but to a channel whose room it enters keeps RoomInv.
LEMMA RoomStep == TypeOK /\ RoomInv /\ [Next]_vars => RoomInv'
<1> SUFFICES ASSUME TypeOK, RoomInv, [Next]_vars PROVE RoomInv'
  OBVIOUS
<1>1. /\ save_objs \in [Ids -> Player \cup {None}]
      /\ chat_channel \in [Channels -> SUBSET Ids]
      /\ client_map \in [Socks -> Ids \cup {None}]
  BY DEF TypeOK
<1>2. ASSUME chat_channel' = chat_channel,
             \A j \in Ids : save_objs'[j] # None =>
               \/ /\ save_objs[j] # None /\ save_objs'[j].moved = save_objs[j].moved
                  /\ save_objs'[j].cols.channel = save_objs[j].cols.channel
               \/ save_objs'[j].cols.channel = 0
               \/ save_objs'[j].moved
      PROVE  RoomInv'
  BY <1>2 DEF RoomInv
<1>3. ASSUME NEW s \in Socks, NEW id \in Ids, create_player(s, id), Handled PROVE RoomInv'
  <2>1. NewPlayer(s, NewCols).cols.channel = 0
    BY DEF NewPlayer, NewCols
  <2>2. QED
    BY <1>1, <1>2, <1>3, <2>1 DEF create_player, CreateObj, AddObj, Handled
<1>4. ASSUME NEW s \in Socks, NEW id \in Ids, login_player(s, id), Handled PROVE RoomInv'
  <2>1. \A j \in Ids : save_objs'[j] # None => save_objs'[j] = save_objs[j]
    BY <1>1, <1>4 DEF login_player, kick_player, DelObj
  <2>2. QED
    BY <1>2, <1>4, <2>1 DEF Handled
<1>5. ASSUME NEW s \in Socks, Leave(s), Handled PROVE RoomInv'
  <2>1. \A j \in Ids : save_objs'[j] # None => save_objs'[j] = save_objs[j]
    BY <1>1, <1>5 DEF Leave, DelObj
  <2>2. QED
    BY <1>2, <1>5, <2>1 DEF Handled
<1>6. ASSUME NEW s \in Socks, setLv(s), Handled PROVE RoomInv'
  <2>1. PICK id \in protocol_parse(s) :
          /\ save_objs[id].cols.lv < MaxLv
          /\ save_objs' = [save_objs EXCEPT ![id] = setAttr(@, @.cols.lv + 1)]
    BY <1>6 DEF setLv
  <2>2. id \in Ids /\ save_objs[id] \in Player /\ save_objs[id] # None
    BY <1>1 DEF protocol_parse, GetObj
  <2>3. /\ setAttr(save_objs[id], save_objs[id].cols.lv + 1).moved = save_objs[id].moved
        /\ setAttr(save_objs[id], save_objs[id].cols.lv + 1).cols.channel = save_objs[id].cols.channel
    BY <2>1, <2>2, PlayerTypes
  <2>4. QED
    BY <1>1, <1>2, <1>6, <2>1, <2>2, <2>3 DEF Handled
<1>7. ASSUME NEW s \in Socks, setChannel(s), Handled PROVE RoomInv'
  <2>1. PICK id \in protocol_parse(s) : save_objs' = [save_objs EXCEPT ![id] = set_channel(@)]
    BY <1>7 DEF setChannel
  <2>2. id \in Ids /\ save_objs[id] \in Player
    BY <1>1 DEF protocol_parse, GetObj
  <2>3. set_channel(save_objs[id]).moved
    BY <2>2, PlayerTypes
  <2>4. QED
    BY <1>1, <1>2, <1>7, <2>1, <2>2, <2>3 DEF Handled
<1>8. ASSUME NEW s \in Socks, talk(s), Handled PROVE RoomInv'
  BY <1>2, <1>8 DEF talk, Handled
<1>9. CASE OnTick
  <2>1. chat_channel' = chat_channel /\ save_objs' = [id \in Ids |-> Ticked(save_objs[id])]
    BY <1>9 DEF OnTick, TickObjs
  <2>2. QED
    BY <1>1, <1>2, <2>1, TickedType
<1>10. CASE OnConnector
  <2>1. PICK a : a = Head(toGame) /\ loadFromDb(a)
    BY <1>10 DEF OnConnector
  <2>2. a.id \in Ids /\ a.sockfd \in Socks /\ (a.cols # None => a.cols \in Cols)
    BY <1>10, <2>1, AnswerType DEF OnConnector
  <2>3. CASE a.cols # None
    <3>1. /\ save_objs' = [save_objs EXCEPT ![a.id] = NewPlayer(a.sockfd, a.cols)]
          /\ chat_channel' = [chat_channel EXCEPT ![a.cols.channel] = @ \cup {a.id}]
      BY <2>1, <2>3 DEF loadFromDb, AddObj, add_player_2_channel
    <3>2. NewPlayer(a.sockfd, a.cols).cols = a.cols /\ a.cols.channel \in Channels
      BY <2>2, <2>3, PlayerTypes DEF Cols
    <3>3. QED
      BY <1>1, <2>2, <3>1, <3>2, PlayerTypes DEF RoomInv
  <2>4. CASE a.cols = None
    BY <1>2, <2>1, <2>4 DEF loadFromDb
  <2>5. QED
    BY <2>3, <2>4
<1>11. CASE DBWorker
  BY <1>2, <1>11 DEF DBWorker, DealSql, scripts
<1>12. CASE UNCHANGED vars
  BY <1>2, <1>12 DEF vars, scripts
<1>13. QED
  BY <1>3, <1>4, <1>5, <1>6, <1>7, <1>8, <1>9, <1>10, <1>11, <1>12
  DEF Next, dispatch_protocol, OnFdClosed, login_out_player, player_sockfd_close
-----------------------------------------------------------------------------
(***************************************************************************)
(* What the table will hold.                                               *)
(***************************************************************************)
\* Nothing is sent, nothing is served.
LEMMA WrittenSame ==
  ASSUME UNCHANGED <<toDb, db>>, NEW id, NEW cols
  PROVE  /\ Written(id, cols) => Written(id, cols)'
         /\ RowThere(id) => RowThere(id)'
  BY DEF Written, RowThere, Finding, Under

\* Sending loses no row; sending nothing for a player but SELECTs changes nothing for it.
LEMMA WrittenPushOther ==
  ASSUME TypeOK, NEW q, q \in Seq(Requests), Push(q), db' = db, NEW id \in Ids, NEW cols
  PROVE  /\ RowThere(id) => RowThere(id)'
         /\ (\A k \in 1..Len(q) : q[k].id = id => q[k].op = "SELECT") =>
              (Written(id, cols) => Written(id, cols)')
<1>1. /\ Len(toDb') = Len(toDb) + Len(q) /\ Len(toDb) \in Nat /\ Len(q) \in Nat
      /\ \A k \in 1..Len(toDb) : toDb'[k] = toDb[k]
      /\ \A k \in 1..Len(q) : toDb'[Len(toDb) + k] = q[k]
  BY PushFacts
<1>2. /\ 1..Len(toDb) \subseteq 1..Len(toDb')
      /\ \A i \in 1..Len(toDb') : i \in 1..Len(toDb) \/ \E k \in 1..Len(q) : i = Len(toDb) + k
  <2>1. ASSUME NEW i \in 1..Len(toDb'), i \notin 1..Len(toDb)
        PROVE  \E k \in 1..Len(q) : i = Len(toDb) + k
    <3>1. i - Len(toDb) \in 1..Len(q) /\ i = Len(toDb) + (i - Len(toDb))
      BY <1>1, <2>1
    <3>2. QED
      BY <3>1
  <2>2. QED
    BY <1>1, <2>1
<1>3. \A op : Under(id, op) \subseteq Under(id, op)'
  BY <1>1, <1>2 DEF Under
<1>4. RowThere(id) => RowThere(id)'
  BY <1>3 DEF RowThere
<1>5. ASSUME \A k \in 1..Len(q) : q[k].id = id => q[k].op = "SELECT", Written(id, cols)
      PROVE  Written(id, cols)'
  <2>1. ASSUME NEW op, op # "SELECT" PROVE Under(id, op)' = Under(id, op)
    <3>1. ASSUME NEW i \in Under(id, op)' PROVE i \in Under(id, op)
      BY <1>1, <1>2, <1>5, <2>1, <3>1 DEF Under
    <3>2. QED
      BY <1>3, <3>1
  <2>2. /\ Under(id, "UPDATE")' = Under(id, "UPDATE") /\ Under(id, "INSERT")' = Under(id, "INSERT")
    BY <2>1
  <2>3. Finding(id)' = Finding(id)
    BY <2>2 DEF Finding
  <2>4. \A i \in Finding(id) \cup Under(id, "INSERT") : toDb'[i] = toDb[i]
    BY <1>1 DEF Finding, Under
  <2>5. QED
    BY <1>5, <2>2, <2>3, <2>4 DEF Written
<1>6. QED
  BY <1>4, <1>5

\* The one UPDATE that is sent for a player with a row is what will be in the table.
LEMMA WrittenPushUpdate ==
  ASSUME TypeOK, NEW q, q \in Seq(Requests), Push(q), db' = db, NEW id \in Ids, RowThere(id),
         NEW k \in 1..Len(q), q[k].id = id, q[k].op = "UPDATE",
         \A m \in 1..Len(q) : q[m].id = id /\ q[m].op = "UPDATE" => m = k
  PROVE  Written(id, q[k].cols)'
<1>1. /\ Len(toDb') = Len(toDb) + Len(q) /\ Len(toDb) \in Nat /\ Len(q) \in Nat
      /\ \A i \in 1..Len(toDb) : toDb'[i] = toDb[i]
      /\ \A i \in 1..Len(q) : toDb'[Len(toDb) + i] = q[i]
  BY PushFacts
<1>2. PICK n : n = Len(toDb) + k
  OBVIOUS
<1>3. n \in Under(id, "UPDATE")' /\ toDb'[n] = q[k] /\ n \in Nat
  BY <1>1, <1>2 DEF Under
<1>4. \A i \in 1..Len(toDb) : i < n
  BY <1>1, <1>2
<1>5. n \in Finding(id)'
  <2>1. CASE db[id] # None
    BY <1>3, <2>1 DEF Finding
  <2>2. CASE Under(id, "INSERT") # {}
    <3>1. PICK j \in Under(id, "INSERT") : TRUE
      BY <2>2
    <3>2. j \in 1..Len(toDb) /\ j < n /\ j \in Under(id, "INSERT")'
      BY <1>1, <1>4 DEF Under
    <3>3. QED
      BY <1>3, <3>2 DEF Finding
  <2>3. QED
    BY <2>1, <2>2 DEF RowThere
<1>6. ASSUME NEW j \in Finding(id)' PROVE j <= n
  <2>1. j \in 1..Len(toDb') /\ toDb'[j].id = id /\ toDb'[j].op = "UPDATE"
    BY DEF Finding, Under
  <2>2. CASE j \in 1..Len(toDb)
    BY <1>3, <1>4, <2>2
  <2>3. CASE j \notin 1..Len(toDb)
    <3>1. j - Len(toDb) \in 1..Len(q) /\ j = Len(toDb) + (j - Len(toDb))
      BY <1>1, <2>1, <2>3
    <3>2. j - Len(toDb) = k
      BY <1>1, <2>1, <3>1
    <3>3. QED
      BY <1>2, <1>3, <3>1, <3>2
  <2>4. QED
    BY <2>2, <2>3
<1>7. \E i \in Finding(id)' : toDb'[i].cols = q[k].cols /\ \A j \in Finding(id)' : j <= i
  BY <1>3, <1>5, <1>6
<1>8. PICK c : c = q[k].cols
  OBVIOUS
<1>9. Written(id, c)'
  BY <1>7, <1>8 DEF Written
<1>10. QED
  BY <1>8, <1>9

\* Serving a request takes it out of toDb and moves those behind it forward: old is
\* where a request was, new where it is.
LEMMA DealFacts ==
  ASSUME TypeOK, NEW i \in 1..Len(toDb), DealSql(i)
  PROVE  \E old, new :
           /\ \A k \in 1..Len(toDb') :
                /\ old[k] \in 1..Len(toDb) /\ old[k] # i /\ new[old[k]] = k
                /\ toDb'[k] = toDb[old[k]]
           /\ \A k \in 1..Len(toDb) : k # i =>
                /\ new[k] \in 1..Len(toDb') /\ old[new[k]] = k
           /\ \A j, k \in 1..Len(toDb') : j <= k <=> old[j] <= old[k]
           /\ \A j, k \in 1..Len(toDb) : j # i /\ k # i => (j <= k <=> new[j] <= new[k])
<1>1. toDb \in Seq(Requests) /\ toDb' = RemoveAt(toDb, i)
  BY DEF TypeOK, Requests, Reads, Writes, DealSql
<1>2. /\ Len(toDb') = Len(toDb) - 1
      /\ \A k \in 1..(i - 1) : toDb'[k] = toDb[k]
      /\ \A k \in i..(Len(toDb) - 1) : toDb'[k] = toDb[k + 1]
  BY <1>1, RemoveAtFacts
<1>3. Len(toDb) \in Nat
  BY <1>1
<1>4. PICK n \in Nat : n = Len(toDb)
  BY <1>3
<1>5. PICK old : old = [k \in 1..(n - 1) |-> IF k < i THEN k ELSE k + 1]
  OBVIOUS
<1>6. PICK new : new = [k \in 1..n |-> IF k < i THEN k ELSE k - 1]
  OBVIOUS
<1>7. ASSUME NEW k \in 1..(n - 1)
      PROVE  /\ old[k] \in 1..n /\ old[k] # i /\ new[old[k]] = k
             /\ toDb'[k] = toDb[old[k]]
  <2>1. CASE k < i
    BY <1>2, <1>4, <1>5, <1>6, <2>1
  <2>2. CASE ~(k < i)
    <3>1. old[k] = k + 1 /\ k + 1 \in 1..n /\ ~(k + 1 < i) /\ (k + 1) - 1 = k /\ k \in i..(n - 1)
      BY <1>4, <1>5, <2>2
    <3>2. QED
      BY <1>2, <1>4, <1>6, <3>1
  <2>3. QED
    BY <2>1, <2>2
<1>8. ASSUME NEW k \in 1..n, k # i PROVE new[k] \in 1..(n - 1) /\ old[new[k]] = k
  <2>1. CASE k < i
    BY <1>4, <1>5, <1>6, <2>1
  <2>2. CASE ~(k < i)
    <3>1. new[k] = k - 1 /\ k - 1 \in 1..(n - 1) /\ ~(k - 1 < i) /\ (k - 1) + 1 = k
      BY <1>4, <1>6, <1>8, <2>2
    <3>2. QED
      BY <1>5, <3>1
  <2>3. QED
    BY <2>1, <2>2
<1>9. \A j, k \in 1..(n - 1) : j <= k <=> old[j] <= old[k]
  BY <1>4, <1>5
<1>10. \A j, k \in 1..n : j # i /\ k # i => (j <= k <=> new[j] <= new[k])
  BY <1>4, <1>6
<1>11. Len(toDb') = n - 1
  BY <1>2, <1>4
<1>12. WITNESS old, new
<1>13. QED
  BY <1>4, <1>7, <1>8, <1>9, <1>10, <1>11

\* A row stays; and serving the oldest request of a player takes it into account.
LEMMA WrittenDeal ==
  ASSUME TypeOK, NEW i \in 1..Len(toDb), DealSql(i), NEW id \in Ids, NEW cols \in Cols
  PROVE  /\ db[id] # None => db'[id] # None
         /\ RowThere(id) => RowThere(id)'
         /\ id \notin overtaken' /\ Written(id, cols) => Written(id, cols)'
<1>1. PICK r : r = toDb[i]
  OBVIOUS
<1>2. /\ db' = [db EXCEPT ![r.id] = Row(@, r)] /\ db \in [Ids -> Cols \cup {None}]
      /\ overtaken' = IF \E j \in 1..(i - 1) : toDb[j].id = r.id THEN overtaken \cup {r.id} ELSE overtaken
  BY <1>1 DEF DealSql, TypeOK
<1>3. /\ r \in Requests /\ r.id \in Ids
      /\ r.op \in {"SELECT", "INSERT", "UPDATE"} /\ (r.op # "SELECT" => r.cols \in Cols)
  <2>1. toDb \in Seq(Requests)
    BY DEF TypeOK, Requests, Reads, Writes
  <2>2. r \in Requests
    BY <1>1, <2>1, ElementOfSeq
  <2>3. QED
    BY <2>2 DEF Requests, Reads, Writes
<1>4. PICK old, new :
        /\ \A k \in 1..Len(toDb') :
             /\ old[k] \in 1..Len(toDb) /\ old[k] # i /\ new[old[k]] = k
             /\ toDb'[k] = toDb[old[k]]
        /\ \A k \in 1..Len(toDb) : k # i =>
             /\ new[k] \in 1..Len(toDb') /\ old[new[k]] = k
        /\ \A j, k \in 1..Len(toDb') : j <= k <=> old[j] <= old[k]
        /\ \A j, k \in 1..Len(toDb) : j # i /\ k # i => (j <= k <=> new[j] <= new[k])
  BY DealFacts
<1>5. /\ \A op : \A k \in Under(id, op)' : old[k] \in Under(id, op) /\ new[old[k]] = k /\ toDb'[k] = toDb[old[k]]
      /\ \A op : \A k \in Under(id, op) : k # i =>
           new[k] \in Under(id, op)' /\ old[new[k]] = k /\ toDb'[new[k]] = toDb[k]
  BY <1>4 DEF Under
<1>6. /\ \A j \in Under(id, "INSERT")', k \in Under(id, "UPDATE")' : j < k => old[j] < old[k]
      /\ \A j \in Under(id, "INSERT"), k \in Under(id, "UPDATE") : j # i /\ k # i /\ j < k => new[j] < new[k]
  <2>1. Len(toDb) \in Nat /\ Len(toDb') \in Nat
    <3>1. toDb \in Seq(Requests) /\ toDb' = RemoveAt(toDb, i)
      BY DEF TypeOK, Requests, Reads, Writes, DealSql
    <3>2. toDb' \in Seq(Requests)
      BY <3>1, RemoveAtFacts
    <3>3. QED
      BY <3>1, <3>2
  <2>2. ASSUME NEW j \in Under(id, "INSERT")', NEW k \in Under(id, "UPDATE")', j < k
        PROVE  old[j] < old[k]
    <3>1. j \in 1..Len(toDb') /\ k \in 1..Len(toDb') /\ ~(k <= j)
      BY <2>1, <2>2 DEF Under
    <3>2. ~(old[k] <= old[j]) /\ old[j] \in 1..Len(toDb) /\ old[k] \in 1..Len(toDb)
      BY <1>4, <3>1
    <3>3. QED
      BY <2>1, <3>2
  <2>3. ASSUME NEW j \in Under(id, "INSERT"), NEW k \in Under(id, "UPDATE"), j # i, k # i, j < k
        PROVE  new[j] < new[k]
    <3>1. j \in 1..Len(toDb) /\ k \in 1..Len(toDb) /\ ~(k <= j)
      BY <2>1, <2>3 DEF Under
    <3>2. ~(new[k] <= new[j]) /\ new[j] \in 1..Len(toDb') /\ new[k] \in 1..Len(toDb')
      BY <1>4, <2>3, <3>1
    <3>3. QED
      BY <2>1, <3>2
  <2>4. QED
    BY <2>2, <2>3
<1>7. db[id] # None => db'[id] # None
  BY <1>2, <1>3, NoneAssumption DEF Row
<1>8. ASSUME RowThere(id) PROVE RowThere(id)'
  <2>1. CASE db[id] # None
    BY <1>7, <2>1 DEF RowThere
  <2>2. CASE db[id] = None
    <3>1. PICK j \in Under(id, "INSERT") : TRUE
      BY <1>8, <2>2 DEF RowThere
    <3>2. CASE j = i
      <4>1. r.id = id /\ r.op = "INSERT"
        BY <1>1, <3>2 DEF Under
      <4>2. db'[id] = r.cols /\ r.cols # None
        BY <1>2, <1>3, <2>2, <4>1, NoneAssumption DEF Row
      <4>3. QED
        BY <4>2 DEF RowThere
    <3>3. CASE j # i
      BY <1>5, <3>3 DEF RowThere
    <3>4. QED
      BY <3>2, <3>3
  <2>3. QED
    BY <2>1, <2>2
<1>9. ASSUME id \notin overtaken', Written(id, cols) PROVE Written(id, cols)'
  <2>1. /\ \A op, j, m : j \in Under(id, op)' /\ m \in Under(id, op) /\ m # i =>
             (old[j] <= m => j <= new[m]) /\ (m <= old[j] => new[m] <= j)
    BY <1>4, <1>5 DEF Under
  <2>2. \A m \in Finding(id) : m \in Under(id, "UPDATE")
    BY DEF Finding
  <2>3. \A k \in Finding(id)' : k \in Under(id, "UPDATE")'
    BY DEF Finding
  <2>4. ASSUME NEW m \in Finding(id), m # i, toDb[m].cols = cols, \A j \in Finding(id) : j <= m,
               \A k \in Finding(id)' : old[k] \in Finding(id),
               new[m] \in Finding(id)'
        PROVE  Written(id, cols)'
    <3>1. toDb'[new[m]] = toDb[m] /\ \A k \in Finding(id)' : k <= new[m]
      BY <1>5, <2>1, <2>2, <2>3, <2>4
    <3>2. QED
      BY <2>4, <3>1 DEF Written
  <2>5. CASE /\ db'[id] = db[id] /\ i \notin Finding(id)
             /\ db[id] # None \/ i \notin Under(id, "INSERT")
    <3>1. ASSUME NEW k \in Finding(id)' PROVE old[k] \in Finding(id)
      BY <1>5, <1>6, <2>5, <3>1 DEF Finding
    <3>2. ASSUME NEW k \in Finding(id) PROVE k # i /\ new[k] \in Finding(id)'
      BY <1>5, <1>6, <2>5, <3>2 DEF Finding
    <3>3. CASE \E m \in Finding(id) : toDb[m].cols = cols /\ \A j \in Finding(id) : j <= m
      BY <2>4, <3>1, <3>2, <3>3
    <3>4. CASE Finding(id) = {} /\ db[id] # None /\ db[id] = cols
      BY <2>5, <3>1, <3>4 DEF Written
    <3>5. CASE /\ Finding(id) = {} /\ db[id] = None
               /\ \E m \in Under(id, "INSERT") : toDb[m].cols = cols /\ \A j \in Under(id, "INSERT") : m <= j
      <4>1. PICK m \in Under(id, "INSERT") : toDb[m].cols = cols /\ \A j \in Under(id, "INSERT") : m <= j
        BY <3>5
      <4>2. m # i
        BY <2>5, <3>5, <4>1
      <4>3. new[m] \in Under(id, "INSERT")' /\ toDb'[new[m]].cols = cols
        BY <1>5, <4>1, <4>2
      <4>4. \A j \in Under(id, "INSERT")' : new[m] <= j
        BY <1>5, <2>1, <4>1, <4>2
      <4>5. QED
        BY <2>5, <3>1, <3>5, <4>3, <4>4 DEF Written
    <3>6. QED
      BY <1>9, <3>3, <3>4, <3>5 DEF Written
  <2>6. CASE r.id # id
    <3>1. i \notin Under(id, "INSERT") /\ i \notin Finding(id)
      BY <1>1, <2>6 DEF Finding, Under
    <3>2. QED
      BY <1>2, <1>3, <2>5, <2>6, <3>1
  <2>7. CASE r.id = id
    <3>1. \A op, k : k \in Under(id, op) => i <= k
      <4>1. \A j \in 1..(i - 1) : toDb[j].id # id
        BY <1>2, <1>3, <1>9, <2>7
      <4>2. Len(toDb) \in Nat
        BY DEF TypeOK
      <4>3. QED
        BY <4>1, <4>2 DEF Under
    <3>2. CASE r.op = "SELECT"
      BY <1>1, <1>2, <1>3, <2>2, <2>5, <2>7, <3>2 DEF Row, Under
    <3>3. CASE r.op = "INSERT" /\ db[id] # None
      BY <1>1, <1>2, <1>3, <2>2, <2>5, <2>7, <3>3 DEF Row, Under
    <3>4. CASE r.op = "UPDATE" /\ db[id] = None
      <4>1. i \notin Finding(id) /\ i \notin Under(id, "INSERT")
        <5>1. Len(toDb) \in Nat
          BY DEF TypeOK
        <5>2. ASSUME NEW j \in Under(id, "INSERT") PROVE ~(j < i)
          <6>1. i <= j /\ j \in 1..Len(toDb)
            BY <3>1 DEF Under
          <6>2. QED
            BY <5>1, <6>1
        <5>3. QED
          BY <1>1, <3>4, <5>2 DEF Finding, Under
      <4>2. QED
        BY <1>2, <1>3, <2>5, <2>7, <3>4, <4>1 DEF Row
    <3>5. CASE r.op = "INSERT" /\ db[id] = None
      <4>1. db'[id] = r.cols /\ r.cols # None /\ i \in Under(id, "INSERT") /\ i \notin Under(id, "UPDATE")
        BY <1>1, <1>2, <1>3, <2>7, <3>5, NoneAssumption DEF Row, Under
      <4>2. Finding(id) = Under(id, "UPDATE") /\ Finding(id)' = Under(id, "UPDATE")'
        <5>1. Len(toDb) \in Nat
          BY DEF TypeOK
        <5>2. ASSUME NEW k \in Under(id, "UPDATE") PROVE i < k
          <6>1. i <= k /\ k # i /\ k \in 1..Len(toDb)
            BY <3>1, <4>1 DEF Under
          <6>2. QED
            BY <5>1, <6>1
        <5>3. QED
          BY <4>1, <5>2 DEF Finding
      <4>3. /\ \A k \in Finding(id)' : old[k] \in Finding(id)
            /\ \A k \in Finding(id) : k # i /\ new[k] \in Finding(id)'
        <5>1. \A k \in Under(id, "UPDATE")' : old[k] \in Under(id, "UPDATE")
          BY <1>5
        <5>2. \A k \in Under(id, "UPDATE") : k # i /\ new[k] \in Under(id, "UPDATE")'
          BY <1>5, <4>1
        <5>3. QED
          BY <4>2, <5>1, <5>2
      <4>4. CASE \E m \in Finding(id) : toDb[m].cols = cols /\ \A j \in Finding(id) : j <= m
        BY <2>4, <4>3, <4>4
      <4>5. CASE /\ Finding(id) = {}
                 /\ \E m \in Under(id, "INSERT") : toDb[m].cols = cols /\ \A j \in Under(id, "INSERT") : m <= j
        <5>1. PICK m \in Under(id, "INSERT") : toDb[m].cols = cols /\ \A j \in Under(id, "INSERT") : m <= j
          BY <4>5
        <5>2. m = i
          <6>1. Len(toDb) \in Nat
            BY DEF TypeOK
          <6>2. m <= i /\ i <= m
            BY <3>1, <4>1, <5>1
          <6>3. QED
            BY <6>1, <6>2 DEF Under
        <5>3. db'[id] = cols /\ Finding(id)' = {}
          BY <1>1, <4>1, <4>3, <4>5, <5>1, <5>2
        <5>4. QED
          BY <4>1, <5>3 DEF Written
      <4>6. QED
        BY <1>9, <3>5, <4>4, <4>5 DEF Written
    <3>6. CASE r.op = "UPDATE" /\ db[id] # None
      <4>1. db'[id] = r.cols /\ r.cols # None /\ i \in Under(id, "UPDATE")
        BY <1>1, <1>2, <1>3, <2>7, <3>6, NoneAssumption DEF Row, Under
      <4>2. Finding(id) = Under(id, "UPDATE") /\ Finding(id)' = Under(id, "UPDATE")'
        BY <3>6, <4>1 DEF Finding
      <4>3. PICK m \in Finding(id) : toDb[m].cols = cols /\ \A j \in Finding(id) : j <= m
        BY <1>9, <3>6, <4>1, <4>2 DEF Written
      <4>4. CASE m # i
        <5>1. new[m] \in Finding(id)' /\ \A k \in Finding(id)' : old[k] \in Finding(id)
          BY <1>5, <4>2, <4>4
        <5>2. QED
          BY <2>4, <4>3, <4>4, <5>1
      <4>5. CASE m = i
        <5>1. ASSUME NEW k \in Finding(id)' PROVE FALSE
          <6>1. /\ old[k] \in Under(id, "UPDATE") /\ old[k] # i
                /\ old[k] \in 1..Len(toDb) /\ Len(toDb) \in Nat
            BY <1>4, <1>5, <2>3 DEF Under, TypeOK
          <6>2. old[k] <= i /\ i <= old[k]
            BY <3>1, <4>2, <4>3, <4>5, <6>1
          <6>3. QED
            BY <6>1, <6>2
        <5>2. db'[id] = cols
          BY <1>1, <4>1, <4>3, <4>5
        <5>3. QED
          BY <4>1, <5>1, <5>2 DEF Written
      <4>6. QED
        BY <4>4, <4>5
    <3>7. QED
      BY <1>3, <3>2, <3>3, <3>4, <3>5, <3>6
  <2>8. QED
    BY <2>6, <2>7
<1>10. QED
  BY <1>7, <1>8, <1>9
-----------------------------------------------------------------------------
(***************************************************************************)
(* Saving.                                                                 *)
(***************************************************************************)
\* A step that loses no row and makes no player clean keeps what is saved, if it sends
\* nothing for the clean players.
LEMMA SavedBy ==
  ASSUME RowInv, CleanIsSaved, UNCHANGED <<toGame, db, overtaken>>,
         \A j \in Ids : RowThere(j) => RowThere(j)',
         \A j \in Ids : save_objs'[j] # None => save_objs[j] # None \/ RowThere(j)',
         \A j \in Ids : save_objs'[j] # None /\ ~save_objs'[j].dirty =>
           /\ save_objs[j] # None /\ ~save_objs[j].dirty /\ save_objs'[j].cols = save_objs[j].cols
           /\ \A cols : Written(j, cols) => Written(j, cols)'
  PROVE  RowInv' /\ CleanIsSaved'
<1>1. RowInv'
  BY DEF RowInv
<1>2. SUFFICES ASSUME NEW j \in Ids, save_objs'[j] # None, ~save_objs'[j].dirty, j \notin overtaken'
               PROVE  Written(j, save_objs[j].cols)'
  BY <1>1 DEF CleanIsSaved
<1>3. PICK c : c = save_objs'[j].cols
  OBVIOUS
<1>4. Written(j, c)'
  BY <1>2, <1>3 DEF CleanIsSaved
<1>5. QED
  BY <1>3, <1>4

\* A player that is saved and deleted is in the table as it was, once its requests are
\* served: with its UPDATE, if it is dirty.
LEMMA DestroyWrites ==
  ASSUME TypeOK, RowInv, CleanIsSaved, NEW id \in Ids, NEW s \in Socks, NEW q, Push(q), db' = db,
         q = destroy(id) \/ q = destroy(id) \o <<Select(id, s)>>,
         save_objs[id] # None, id \notin overtaken, NEW cols, cols = save_objs[id].cols
  PROVE  Written(id, cols)'
<1>1. q \in Seq(Requests)
  BY SendsAreRequests
<1>2. CASE save_objs[id].dirty
  <2>1. destroy(id) = <<Update(id, cols)>>
    BY <1>2 DEF destroy
  <2>2. /\ 1 \in 1..Len(q) /\ q[1] = Update(id, cols)
        /\ \A m \in 1..Len(q) : m = 1 \/ q[m] = Select(id, s)
    <3>1. CASE q = <<Update(id, cols)>>
      BY <3>1
    <3>2. CASE q = <<Update(id, cols), Select(id, s)>>
      BY <3>2
    <3>3. q = <<Update(id, cols)>> \/ q = <<Update(id, cols), Select(id, s)>>
      BY <2>1
    <3>4. QED
      BY <3>1, <3>2, <3>3
  <2>3. /\ q[1].id = id /\ q[1].op = "UPDATE" /\ q[1].cols = cols
        /\ \A m \in 1..Len(q) : q[m].id = id /\ q[m].op = "UPDATE" => m = 1
    BY <2>2 DEF Update, Select
  <2>4. RowThere(id)
    BY DEF RowInv
  <2>5. PICK k \in 1..Len(q) : k = 1
    BY <2>2
  <2>6. Written(id, q[k].cols)'
    BY <1>1, <2>3, <2>4, <2>5, WrittenPushUpdate
  <2>7. QED
    BY <2>3, <2>5, <2>6
<1>3. CASE ~save_objs[id].dirty
  <2>1. destroy(id) = <<>>
    BY <1>3 DEF destroy
  <2>2. \A m \in 1..Len(q) : q[m] = Select(id, s)
    BY <2>1
  <2>3. \A m \in 1..Len(q) : q[m].op = "SELECT"
    BY <2>2 DEF Select
  <2>4. Written(id, cols)
    BY <1>3 DEF CleanIsSaved
  <2>5. QED
    BY <1>1, <2>3, <2>4, WrittenPushOther
<1>4. QED
  BY <1>2, <1>3

\* What destroy and a relogin send is for their player only.
LEMMA SentFor ==
  ASSUME TypeOK, NEW id \in Ids, NEW s \in Socks, NEW q,
         q = destroy(id) \/ q = destroy(id) \o <<Select(id, s)>>
  PROVE  \A k \in 1..Len(q) : q[k].id = id
<1>1. destroy(id) = <<>> \/ destroy(id) = <<Update(id, save_objs[id].cols)>>
  BY DEF destroy
<1>2. \A k \in 1..Len(q) : q[k] = Select(id, s) \/ q[k] = Update(id, save_objs[id].cols)
  BY <1>1
<1>3. QED
  BY <1>2 DEF Select, Update

\* Commands and closed connections leave every clean player saved.
LEMMA HandlerSaved ==
  ASSUME TypeOK, RowInv, CleanIsSaved, Handled, NEW s \in Socks,
         \/ \E id \in Ids : create_player(s, id) \/ login_player(s, id)
         \/ Leave(s) \/ setLv(s) \/ setChannel(s) \/ talk(s)
  PROVE  RowInv' /\ CleanIsSaved'
<1>1. /\ UNCHANGED <<toGame, db, overtaken>>
      /\ save_objs \in [Ids -> Player \cup {None}]
      /\ client_map \in [Socks -> Ids \cup {None}]
  BY DEF Handled, TypeOK
<1>2. ASSUME NEW q, q \in Seq(Requests), Push(q), NEW j \in Ids
      PROVE  /\ RowThere(j) => RowThere(j)'
             /\ (\A k \in 1..Len(q) : q[k].id = j => q[k].op = "SELECT") =>
                  \A cols : Written(j, cols) => Written(j, cols)'
  <2>1. ASSUME NEW cols
        PROVE  /\ RowThere(j) => RowThere(j)'
               /\ (\A k \in 1..Len(q) : q[k].id = j => q[k].op = "SELECT") =>
                    (Written(j, cols) => Written(j, cols)')
    BY <1>1, <1>2, WrittenPushOther
  <2>2. QED
    BY <2>1
<1>3. ASSUME UNCHANGED toDb, NEW j \in Ids
      PROVE  /\ RowThere(j) => RowThere(j)'
             /\ \A cols : Written(j, cols) => Written(j, cols)'
  BY <1>1, <1>3, WrittenSame
<1>4. ASSUME NEW id \in Ids, create_player(s, id) PROVE RowInv' /\ CleanIsSaved'
  <2>1. CASE save_objs[id] # None
    <3>1. UNCHANGED <<save_objs, toDb>>
      BY <1>4, <2>1 DEF create_player, CreateObj, GetObj
    <3>2. QED
      BY <1>1, <1>3, <3>1, SavedBy
  <2>2. CASE save_objs[id] = None
    <3>1. PICK q : q = <<Insert(id, NewCols)>>
      OBVIOUS
    <3>2. q \in Seq(Requests) /\ Push(q) /\ save_objs' = [save_objs EXCEPT ![id] = NewPlayer(s, NewCols)]
      BY <1>4, <2>2, <3>1, SendsAreRequests DEF create_player, CreateObj, GetObj, AddObj
    <3>3. NewPlayer(s, NewCols).dirty
      BY PlayerTypes
    <3>4. \A k \in 1..Len(q) : q[k].id = id
      BY <3>1 DEF Insert
    <3>5. RowThere(id)'
      <4>1. /\ Len(toDb') = Len(toDb) + Len(q) /\ Len(toDb) \in Nat /\ Len(q) = 1
            /\ toDb'[Len(toDb) + 1] = q[1]
        <5>1. Len(q) = 1 /\ 1 \in 1..Len(q)
          BY <3>1
        <5>2. /\ Len(toDb') = Len(toDb) + Len(q) /\ Len(toDb) \in Nat
              /\ \A k \in 1..Len(q) : toDb'[Len(toDb) + k] = q[k]
          BY <3>2, PushFacts
        <5>3. QED
          BY <5>1, <5>2
      <4>2. q[1].id = id /\ q[1].op = "INSERT"
        BY <3>1 DEF Insert
      <4>3. Len(toDb) + 1 \in Under(id, "INSERT")'
        BY <4>1, <4>2 DEF Under
      <4>4. QED
        BY <4>3 DEF RowThere
    <3>6. QED
      BY <1>1, <1>2, <3>2, <3>3, <3>4, <3>5, SavedBy
  <2>3. QED
    BY <2>1, <2>2
<1>5. ASSUME NEW id \in Ids, NEW t \in Socks, NEW q, q = destroy(id) \/ q = destroy(id) \o <<Select(id, t)>>,
             Push(q), save_objs'[id] = None, \A j \in Ids : j # id => save_objs'[j] = save_objs[j]
      PROVE  RowInv' /\ CleanIsSaved'
  <2>1. q \in Seq(Requests)
    BY <1>5, SendsAreRequests
  <2>2. \A k \in 1..Len(q) : q[k].id = id
    BY <1>5, SentFor
  <2>3. QED
    BY <1>1, <1>2, <1>5, <2>1, <2>2, SavedBy
<1>6. ASSUME NEW id \in Ids, login_player(s, id) PROVE RowInv' /\ CleanIsSaved'
  <2>1. CASE check_relogin(id)
    <3>1. PICK old \in SocksOf(id) : kick_player(id, s, old)
      BY <1>6, <2>1 DEF login_player
    <3>2. /\ save_objs'[id] = None /\ \A j \in Ids : j # id => save_objs'[j] = save_objs[j]
          /\ Push(destroy(id) \o <<Select(id, s)>>)
      BY <3>1, KickSends
    <3>3. QED
      BY <1>5, <3>2
  <2>2. CASE ~check_relogin(id)
    <3>1. PICK q : q = LoadObj(save_objs, id, s)
      OBVIOUS
    <3>2. q \in Seq(Requests) /\ Push(q) /\ save_objs' = save_objs
      BY <1>6, <2>2, <3>1, SendsAreRequests DEF login_player, LoadObj
    <3>3. \A k \in 1..Len(q) : q[k].op = "SELECT"
      BY <3>1 DEF LoadObj, Select
    <3>4. QED
      BY <1>1, <1>2, <3>2, <3>3, SavedBy
  <2>3. QED
    BY <2>1, <2>2
<1>7. ASSUME Leave(s) PROVE RowInv' /\ CleanIsSaved'
  <2>1. CASE client_map[s] = None
    <3>1. UNCHANGED <<save_objs, toDb>>
      BY <1>7, <2>1 DEF Leave
    <3>2. QED
      BY <1>1, <1>3, <3>1, SavedBy
  <2>2. CASE client_map[s] # None
    <3>1. PICK id \in Ids : id = client_map[s]
      BY <1>1, <2>2
    <3>2. Push(destroy(id)) /\ save_objs' = [save_objs EXCEPT ![id] = None]
      BY <1>7, <2>2, <3>1 DEF Leave, DelObj
    <3>3. QED
      BY <1>1, <1>5, <3>2
  <2>3. QED
    BY <2>1, <2>2
<1>8. ASSUME setLv(s) PROVE RowInv' /\ CleanIsSaved'
  <2>1. PICK id \in protocol_parse(s) :
          /\ save_objs[id].cols.lv < MaxLv
          /\ save_objs' = [save_objs EXCEPT ![id] = setAttr(@, @.cols.lv + 1)]
    BY <1>8 DEF setLv
  <2>2. id \in Ids /\ save_objs[id] \in Player /\ save_objs[id] # None /\ toDb' = toDb
    BY <1>1, <1>8 DEF protocol_parse, GetObj, setLv
  <2>3. setAttr(save_objs[id], save_objs[id].cols.lv + 1).dirty
    BY <2>1, <2>2, PlayerTypes
  <2>4. QED
    BY <1>1, <1>3, <2>1, <2>2, <2>3, SavedBy
<1>9. ASSUME setChannel(s) PROVE RowInv' /\ CleanIsSaved'
  <2>1. PICK id \in protocol_parse(s) : save_objs' = [save_objs EXCEPT ![id] = set_channel(@)]
    BY <1>9 DEF setChannel
  <2>2. id \in Ids /\ save_objs[id] \in Player /\ save_objs[id] # None /\ toDb' = toDb
    BY <1>1, <1>9 DEF protocol_parse, GetObj, setChannel
  <2>3. set_channel(save_objs[id]).dirty
    BY <2>2, PlayerTypes
  <2>4. QED
    BY <1>1, <1>3, <2>1, <2>2, <2>3, SavedBy
<1>10. ASSUME talk(s) PROVE RowInv' /\ CleanIsSaved'
  <2>1. UNCHANGED <<save_objs, toDb>>
    BY <1>10 DEF talk
  <2>2. QED
    BY <1>1, <1>3, <2>1, SavedBy
<1>11. QED
  BY <1>4, <1>6, <1>7, <1>8, <1>9, <1>10

\* A tick saves the players that it makes clean.
LEMMA TickSaved ==
  ASSUME TypeOK, RowInv, CleanIsSaved, OnTick
  PROVE  RowInv' /\ CleanIsSaved'
<1>1. PICK q : q = SetToSeq({Update(id, save_objs[id].cols) : id \in {i \in Ids : Saves(save_objs[i])}})
  OBVIOUS
<1>2. /\ q \in Seq(Requests)
      /\ \A k \in 1..Len(q) : q[k].op = "UPDATE"
      /\ \A id \in Ids : Saves(save_objs[id]) =>
           \E k \in 1..Len(q) : /\ q[k] = Update(id, save_objs[id].cols)
                                /\ \A m \in 1..Len(q) : q[m].id = id => m = k
      /\ \A k \in 1..Len(q) : Saves(save_objs[q[k].id])
  <2>1. q \in Seq(Requests)
    BY <1>1, TickSends DEF Requests
  <2>2. QED
    BY <1>1, <2>1, TickSends
<1>3. /\ Push(q) /\ UNCHANGED <<toGame, db, overtaken>>
      /\ save_objs' = [id \in Ids |-> Ticked(save_objs[id])]
  BY <1>1 DEF OnTick, TickObjs
<1>4. ASSUME NEW j \in Ids, save_objs'[j] # None
      PROVE  /\ save_objs[j] # None /\ save_objs'[j].cols = save_objs[j].cols
             /\ ~save_objs'[j].dirty => ~save_objs[j].dirty \/ Saves(save_objs[j])
  <2>1. save_objs[j] \in Player \cup {None} /\ save_objs'[j] = Ticked(save_objs[j])
    BY <1>3 DEF TypeOK
  <2>2. QED
    BY <1>4, <2>1, TickedType
<1>5. RowInv'
  <2>1. \A j \in Ids : RowThere(j) => RowThere(j)'
    BY <1>2, <1>3, WrittenPushOther
  <2>2. QED
    BY <1>3, <1>4, <2>1 DEF RowInv
<1>6. SUFFICES ASSUME NEW j \in Ids, save_objs'[j] # None, ~save_objs'[j].dirty, j \notin overtaken'
               PROVE  Written(j, save_objs[j].cols)'
  BY <1>5 DEF CleanIsSaved
<1>7. PICK c : c = save_objs'[j].cols
  OBVIOUS
<1>8. c = save_objs[j].cols /\ save_objs[j] # None
  BY <1>4, <1>6, <1>7
<1>9. CASE Saves(save_objs[j])
  <2>1. PICK k \in 1..Len(q) : /\ q[k] = Update(j, save_objs[j].cols)
                               /\ \A m \in 1..Len(q) : q[m].id = j => m = k
    BY <1>2, <1>9
  <2>2. q[k].id = j /\ q[k].op = "UPDATE" /\ q[k].cols = c
    BY <1>8, <2>1 DEF Update
  <2>3. RowThere(j)
    BY <1>8 DEF RowInv
  <2>4. Written(j, q[k].cols)'
    BY <1>2, <1>3, <2>1, <2>2, <2>3, WrittenPushUpdate
  <2>5. QED
    BY <1>7, <2>2, <2>4
<1>10. CASE ~Saves(save_objs[j])
  <2>1. \A k \in 1..Len(q) : q[k].id # j
    BY <1>2, <1>10
  <2>2. ~save_objs[j].dirty
    BY <1>4, <1>6, <1>10
  <2>3. Written(j, c)
    BY <1>3, <1>6, <1>8, <2>2 DEF CleanIsSaved
  <2>4. Written(j, c)'
    BY <1>2, <1>3, <2>1, <2>3, WrittenPushOther
  <2>5. QED
    BY <1>7, <2>4
<1>11. QED
  BY <1>9, <1>10

\* An answer with a row makes its player dirty; one without a row changes no player.
LEMMA AnswerSaved ==
  ASSUME TypeOK, RowInv, CleanIsSaved, OnConnector
  PROVE  RowInv' /\ CleanIsSaved'
<1>1. PICK a : a = Head(toGame)
  OBVIOUS
<1>2. /\ toGame \in Seq(Answers) /\ toGame # <<>> /\ toGame' = Tail(toGame)
      /\ UNCHANGED <<toDb, db, overtaken>> /\ loadFromDb(a)
      /\ a.id \in Ids /\ a.sockfd \in Socks /\ (a.cols # None => a.cols \in Cols)
  BY <1>1, AnswerType DEF OnConnector
<1>3. /\ Len(toGame) \in Nat /\ 1 \in 1..Len(toGame) /\ a = toGame[1]
      /\ Len(toGame') = Len(toGame) - 1
      /\ \A i \in 1..Len(toGame') : toGame'[i] = toGame[i + 1] /\ i + 1 \in 1..Len(toGame)
  BY <1>1, <1>2, HeadTailProperties
<1>4. a.cols # None => RowThere(a.id)
  BY <1>3 DEF RowInv, RowThere
<1>5. \A j \in Ids :
        /\ save_objs'[j] # None => save_objs[j] # None \/ (j = a.id /\ a.cols # None)
        /\ save_objs'[j] # None /\ ~save_objs'[j].dirty => save_objs'[j] = save_objs[j]
  <2>1. CASE a.cols # None
    <3>1. save_objs' = [save_objs EXCEPT ![a.id] = NewPlayer(a.sockfd, a.cols)]
      BY <1>2, <2>1 DEF loadFromDb, AddObj
    <3>2. NewPlayer(a.sockfd, a.cols).dirty
      BY <1>2, <2>1, PlayerTypes
    <3>3. QED
      BY <1>2, <2>1, <3>1, <3>2 DEF TypeOK
  <2>2. CASE a.cols = None
    BY <1>2, <2>2 DEF loadFromDb
  <2>3. QED
    BY <2>1, <2>2
<1>6. RowInv'
  <2>1. \A j \in Ids : save_objs'[j] # None => RowThere(j)'
    BY <1>2, <1>4, <1>5, WrittenSame DEF RowInv
  <2>2. \A i \in 1..Len(toGame') : toGame'[i].cols # None => db'[toGame'[i].id] # None
    BY <1>2, <1>3 DEF RowInv
  <2>3. QED
    BY <2>1, <2>2 DEF RowInv
<1>7. SUFFICES ASSUME NEW j \in Ids, save_objs'[j] # None, ~save_objs'[j].dirty, j \notin overtaken'
               PROVE  Written(j, save_objs[j].cols)'
  BY <1>6 DEF CleanIsSaved
<1>8. PICK c : c = save_objs'[j].cols
  OBVIOUS
<1>9. Written(j, c)
  BY <1>2, <1>5, <1>7, <1>8 DEF CleanIsSaved
<1>10. Written(j, c)'
  BY <1>2, <1>9, WrittenSame
<1>11. QED
  BY <1>8, <1>10

\* The database workers serve what is saved in time, and answer with rows that stay.
LEMMA WorkerSaved ==
  ASSUME TypeOK, RowInv, CleanIsSaved, DBWorker
  PROVE  RowInv' /\ CleanIsSaved'
<1>1. PICK i \in 1..Len(toDb) : DealSql(i)
  BY BoundAssumption DEF DBWorker
<1>2. PICK r : r = toDb[i]
  OBVIOUS
<1>3. /\ save_objs' = save_objs
      /\ toGame' = IF r.op = "SELECT" THEN Append(toGame, Found(r)) ELSE toGame
      /\ overtaken \subseteq overtaken'
  BY <1>1, <1>2 DEF DealSql, scripts
<1>4. NewCols \in Cols
  BY PlayerTypes
<1>5. \A j \in Ids : (db[j] # None => db'[j] # None) /\ (RowThere(j) => RowThere(j)')
  BY <1>1, <1>4, WrittenDeal
<1>6. RowInv'
  <2>1. \A j \in Ids : save_objs'[j] # None => RowThere(j)'
    BY <1>3, <1>5 DEF RowInv
  <2>2. toGame \in Seq(Answers) /\ \A n \in 1..Len(toGame) : toGame[n].id \in Ids
    <3>1. toGame \in Seq(Answers)
      BY DEF TypeOK, Answers
    <3>2. \A n \in 1..Len(toGame) : toGame[n] \in Answers
      BY <3>1, ElementOfSeq
    <3>3. QED
      BY <3>1, <3>2 DEF Answers
  <2>3. ASSUME NEW n \in 1..Len(toGame'), toGame'[n].cols # None PROVE db'[toGame'[n].id] # None
    <3>1. CASE r.op # "SELECT"
      BY <1>3, <1>5, <2>2, <2>3, <3>1 DEF RowInv
    <3>2. CASE r.op = "SELECT"
      <4>1. toDb \in Seq(Requests)
        BY DEF TypeOK, Requests, Reads, Writes
      <4>2. r \in Requests
        BY <1>2, <4>1, ElementOfSeq
      <4>3. r.id \in Ids /\ r.sockfd \in Socks
        BY <3>2, <4>2 DEF Requests, Reads, Writes
      <4>4. Found(r) \in Answers /\ Found(r).id = r.id /\ Found(r).cols = db[r.id]
        BY <4>3 DEF Found, Answers, TypeOK
      <4>5. /\ Len(toGame') = Len(toGame) + 1 /\ Len(toGame) \in Nat
            /\ \A k \in 1..Len(toGame) : toGame'[k] = toGame[k]
            /\ toGame'[Len(toGame) + 1] = Found(r)
        BY <1>3, <2>2, <3>2, <4>4, AppendProperties
      <4>6. CASE n \in 1..Len(toGame)
        BY <1>5, <2>2, <2>3, <4>5, <4>6 DEF RowInv
      <4>7. CASE n \notin 1..Len(toGame)
        <5>1. toGame'[n] = Found(r)
          BY <2>3, <4>5, <4>7
        <5>2. QED
          BY <1>5, <2>3, <4>3, <4>4, <5>1
      <4>8. QED
        BY <4>6, <4>7
    <3>3. QED
      BY <3>1, <3>2
  <2>4. QED
    BY <2>1, <2>3 DEF RowInv
<1>7. SUFFICES ASSUME NEW j \in Ids, save_objs'[j] # None, ~save_objs'[j].dirty, j \notin overtaken'
               PROVE  Written(j, save_objs[j].cols)'
  BY <1>6 DEF CleanIsSaved
<1>8. PICK c : c = save_objs'[j].cols
  OBVIOUS
<1>9. Written(j, c) /\ c \in Cols
  <2>1. save_objs[j] \in Player
    BY <1>3, <1>7 DEF TypeOK
  <2>2. QED
    BY <1>3, <1>7, <1>8, <2>1, PlayerTypes DEF CleanIsSaved
<1>10. Written(j, c)'
  BY <1>1, <1>7, <1>9, WrittenDeal
<1>11. QED
  BY <1>8, <1>10
-----------------------------------------------------------------------------
\* No player is in memory initially, and nothing is under way.
LEMMA InvInit == Init => IInv
<1> SUFFICES ASSUME Init PROVE IInv
  OBVIOUS
<1>1. /\ TypeOK /\ \A id \in Ids : save_objs[id] = None
      /\ \A s \in Socks : client_map[s] = None
      /\ Len(toGame) = 0
  BY TypeInit DEF Init
<1>2. OneClientPerPlayer /\ PlayerHasClient /\ RoomInv /\ CleanIsSaved
  BY <1>1 DEF OneClientPerPlayer, PlayerHasClient, RoomInv, CleanIsSaved
<1>3. RowInv
  BY <1>1 DEF RowInv
<1>4. QED
  BY <1>1, <1>2, <1>3 DEF IInv

LEMMA InvStep == IInv /\ [Next]_vars => IInv'
<1> SUFFICES ASSUME IInv, [Next]_vars PROVE IInv'
  OBVIOUS
<1>1. TypeOK /\ OneClientPerPlayer /\ PlayerHasClient /\ RoomInv /\ RowInv /\ CleanIsSaved
  BY DEF IInv
<1>2. TypeOK' /\ OneClientPerPlayer' /\ PlayerHasClient' /\ RoomInv'
  BY <1>1, TypeStep, ClientStep, RoomStep
<1>3. RowInv' /\ CleanIsSaved'
  <2>1. ASSUME NEW s \in Socks, dispatch_protocol(s) \/ OnFdClosed(s) PROVE RowInv' /\ CleanIsSaved'
    <3>1. /\ Handled
          /\ \/ \E id \in Ids : create_player(s, id) \/ login_player(s, id)
             \/ Leave(s) \/ setLv(s) \/ setChannel(s) \/ talk(s)
      BY <2>1 DEF dispatch_protocol, OnFdClosed, login_out_player, player_sockfd_close
    <3>2. QED
      BY <1>1, <3>1, HandlerSaved
  <2>2. CASE UNCHANGED vars
    <3>1. UNCHANGED <<save_objs, toDb, toGame, db, overtaken>>
      BY <2>2 DEF vars, scripts
    <3>2. \A j, cols : (Written(j, cols) => Written(j, cols)') /\ (RowThere(j) => RowThere(j)')
      BY <3>1, WrittenSame
    <3>3. QED
      BY <1>1, <3>1, <3>2, SavedBy
  <2>3. QED
    BY <1>1, <2>1, <2>2, TickSaved, AnswerSaved, WorkerSaved DEF Next
<1>4. QED
  BY <1>2, <1>3 DEF IInv

\* Every reachable state satisfies IInv.
THEOREM Invariant == Spec => []IInv
<1>1. Init => IInv
  BY InvInit
<1>2. IInv /\ [Next]_vars => IInv'
  BY InvStep
<1>3. QED
  BY <1>1, <1>2, PTL DEF Spec

\* The variables keep their types: no handler leaves a proxy, a player, a request or an
\* answer of a shape that another one cannot take.
THEOREM TypesHold == Spec => []TypeOK
<1>1. IInv => TypeOK
  BY DEF IInv
<1>2. QED
  BY <1>1, Invariant, PTL

\* No two connections command one player, unless create_player registered the second.
THEOREM OneClient == Spec => []OneClientPerPlayer
<1>1. IInv => OneClientPerPlayer
  BY DEF IInv
<1>2. QED
  BY <1>1, Invariant, PTL

\* A player in memory is that of the client it sends to, but for the four cases of strays
\* and shared.
THEOREM ClientOfPlayer == Spec => []PlayerHasClient
<1>1. IInv => PlayerHasClient
  BY DEF IInv
<1>2. QED
  BY <1>1, Invariant, PTL

\* Who commands a player in a channel is addressed by what is said there, unless another
\* socket has taken the player over or set_channel has moved it (ChatRoom.talk).
THEOREM EveryMemberHears == Spec => []MembersHear
<1>1. IInv => MembersHear
  <2> SUFFICES ASSUME IInv, NEW s \in Socks, NEW id \in Ids, id \notin strays \cup shared,
                      client_map[s] = id, save_objs[id] # None,
                      save_objs[id].cols.channel # 0, ~save_objs[id].moved
               PROVE  s \in Hearers(save_objs[id].cols.channel)
    BY DEF MembersHear
  <2>1. /\ id \in chat_channel[save_objs[id].cols.channel]
        /\ chat_channel \in [Channels -> SUBSET Ids]
    BY DEF IInv, RoomInv, TypeOK
  <2>2. save_objs[id].sockfd \in Socks /\ client_map[save_objs[id].sockfd] = id
    <3>1. save_objs[id] \in Player
      BY DEF IInv, TypeOK
    <3>2. QED
      BY <3>1, PlayerTypes DEF IInv, PlayerHasClient
  <2>3. s = save_objs[id].sockfd
    BY <2>2, IdsAssumption DEF IInv, OneClientPerPlayer
  <2>4. QED
    BY <2>1, <2>3 DEF Hearers, GetObj
<1>2. QED
  BY <1>1, Invariant, PTL

\* Who is addressed has a player of the room, if all its players have kept their clients.
THEOREM NobodyElseHears == Spec => []OnlyMembersHear
<1>1. IInv => OnlyMembersHear
  <2> SUFFICES ASSUME IInv, NEW c \in Channels, NEW s \in Hearers(c),
                      \A id \in strays \cup shared : id \notin chat_channel[c]
               PROVE  client_map[s] \in chat_channel[c]
    BY DEF OnlyMembersHear
  <2>1. chat_channel[c] \subseteq Ids
    BY DEF IInv, TypeOK
  <2>2. PICK id \in chat_channel[c] : save_objs[id] # None /\ save_objs[id].sockfd = s
    BY DEF Hearers, GetObj
  <2>3. client_map[s] = id
    BY <2>1, <2>2 DEF IInv, PlayerHasClient
  <2>4. QED
    BY <2>2, <2>3
<1>2. QED
  BY <1>1, Invariant, PTL

\* A player that is not dirty has its columns in the table, or on their way into it.
THEOREM CleanPlayersAreSaved == Spec => []CleanIsSaved
<1>1. IInv => CleanIsSaved
  BY DEF IInv
<1>2. QED
  BY <1>1, Invariant, PTL

\* A player that leaves memory, by a logout, a relogin or a closed connection, is in the
\* table as it was, once the requests under way are served.
THEOREM NothingIsLost == Spec => LeavesSaved
<1> DEFINE Left == \A id \in Ids : \A cols \in Cols :
       save_objs[id] # None /\ save_objs[id].cols = cols /\ save_objs'[id] = None
       /\ id \notin overtaken => Written(id, cols)'
<1>1. IInv /\ [Next]_vars => [Left]_vars
  <2> SUFFICES ASSUME IInv, Next PROVE Left
    OBVIOUS
  <2> SUFFICES ASSUME NEW id \in Ids, NEW cols \in Cols,
                      save_objs[id] # None, save_objs[id].cols = cols, save_objs'[id] = None,
                      id \notin overtaken
               PROVE  Written(id, cols)'
    OBVIOUS
  <2>1. /\ TypeOK /\ RowInv /\ CleanIsSaved
        /\ save_objs \in [Ids -> Player \cup {None}] /\ client_map \in [Socks -> Ids \cup {None}]
    BY DEF IInv, TypeOK
  <2>2. ASSUME NEW s \in Socks, NEW q, q = destroy(id) \/ q = destroy(id) \o <<Select(id, s)>>,
               Push(q), Handled
        PROVE  Written(id, cols)'
    BY <2>1, <2>2, DestroyWrites DEF Handled
  <2>3. ASSUME NEW s \in Socks, NEW j \in Ids, login_player(s, j), Handled PROVE Written(id, cols)'
    <3>1. check_relogin(j)
      BY <2>3 DEF login_player
    <3>2. PICK old \in SocksOf(j) : kick_player(j, s, old)
      BY <2>3, <3>1 DEF login_player
    <3>3. j = id /\ Push(destroy(j) \o <<Select(j, s)>>)
      BY <2>1, <3>2, KickSends
    <3>4. QED
      BY <2>2, <2>3, <3>3
  <2>4. ASSUME NEW s \in Socks, Leave(s), Handled PROVE Written(id, cols)'
    <3>1. client_map[s] # None
      BY <2>4 DEF Leave
    <3>2. client_map[s] = id /\ Push(destroy(id))
      BY <2>1, <2>4, <3>1 DEF Leave, DelObj
    <3>3. QED
      BY <2>2, <2>4, <3>2
  <2>5. ASSUME NEW s \in Socks, NEW j \in Ids, create_player(s, j) PROVE FALSE
    <3>1. save_objs' = save_objs \/ (j # id /\ save_objs' = [save_objs EXCEPT ![j] = NewPlayer(s, NewCols)])
      BY <2>5 DEF create_player, CreateObj, GetObj, AddObj
    <3>2. QED
      BY <2>1, <3>1
  <2>6. ASSUME NEW s \in Socks, setLv(s) \/ setChannel(s) \/ talk(s) PROVE FALSE
    <3>1. PICK j \in Ids, obj \in Player : save_objs' = save_objs \/ save_objs' = [save_objs EXCEPT ![j] = obj]
      <4>1. CASE setLv(s)
        <5>1. PICK j \in protocol_parse(s) :
                /\ save_objs[j].cols.lv < MaxLv
                /\ save_objs' = [save_objs EXCEPT ![j] = setAttr(@, @.cols.lv + 1)]
          BY <4>1 DEF setLv
        <5>2. j \in Ids /\ save_objs[j] \in Player
          BY <2>1 DEF protocol_parse, GetObj
        <5>3. setAttr(save_objs[j], save_objs[j].cols.lv + 1) \in Player
          BY <5>1, <5>2, PlayerTypes
        <5>4. save_objs' = [save_objs EXCEPT ![j] = setAttr(save_objs[j], save_objs[j].cols.lv + 1)]
          BY <2>1, <5>1, <5>2
        <5>5. QED
          BY <5>2, <5>3, <5>4
      <4>2. CASE setChannel(s)
        <5>1. PICK j \in protocol_parse(s) : save_objs' = [save_objs EXCEPT ![j] = set_channel(@)]
          BY <4>2 DEF setChannel
        <5>2. j \in Ids /\ save_objs[j] \in Player
          BY <2>1 DEF protocol_parse, GetObj
        <5>3. set_channel(save_objs[j]) \in Player
          BY <5>2, PlayerTypes
        <5>4. save_objs' = [save_objs EXCEPT ![j] = set_channel(save_objs[j])]
          BY <2>1, <5>1, <5>2
        <5>5. QED
          BY <5>2, <5>3, <5>4
      <4>3. CASE talk(s)
        BY <2>1, <4>3 DEF talk
      <4>4. QED
        BY <2>6, <4>1, <4>2, <4>3
    <3>2. QED
      BY <2>1, <3>1, NoneAssumption
  <2>7. CASE OnTick
    <3>1. save_objs'[id] = Ticked(save_objs[id]) /\ save_objs[id] \in Player
      BY <2>1, <2>7 DEF OnTick, TickObjs
    <3>2. Ticked(save_objs[id]) # None
      BY <3>1, NoneAssumption, TickStays
    <3>3. QED
      BY <3>1, <3>2
  <2>8. CASE OnConnector
    <3>1. PICK a : a = Head(toGame) /\ loadFromDb(a)
      BY <2>8 DEF OnConnector
    <3>2. a.id \in Ids /\ a.sockfd \in Socks /\ (a.cols # None => a.cols \in Cols)
      BY <2>1, <2>8, <3>1, AnswerType DEF OnConnector
    <3>3. CASE a.cols # None
      <4>1. save_objs' = [save_objs EXCEPT ![a.id] = NewPlayer(a.sockfd, a.cols)]
        BY <3>1, <3>3 DEF loadFromDb, AddObj
      <4>2. NewPlayer(a.sockfd, a.cols) \in Player
        BY <3>2, <3>3, PlayerTypes
      <4>3. QED
        BY <2>1, <4>1, <4>2, NoneAssumption
    <3>4. CASE a.cols = None
      BY <3>1, <3>4 DEF loadFromDb
    <3>5. QED
      BY <3>3, <3>4
  <2>9. CASE DBWorker
    BY <2>9 DEF DBWorker, DealSql, scripts
  <2>10. QED
    BY <2>3, <2>4, <2>5, <2>6, <2>7, <2>8, <2>9
    DEF Next, dispatch_protocol, OnFdClosed, login_out_player, player_sockfd_close
<1>2. QED
  BY <1>1, Invariant, PTL DEF Spec, LeavesSaved
=============================================================================
