------------------------- MODULE EpollServer_proofs -------------------------
(***************************************************************************)
(* Proofs about EpollServer, for any set of descriptors and of clients and *)
(* any number of packages: the use of the descriptor as the name of a      *)
(* connection is safe on the way in, no package is torn, lost before its   *)
(* connection's end or reordered on the way in, and none is torn, or       *)
(* repeated more often than its message asks for, on the way out.          *)
(***************************************************************************)
EXTENDS EpollServer, SequenceTheorems, FiniteSetTheorems, WellFoundedInduction, TLAPS

Byte == [of : SUBSET Clients, n : Nat, copy : Nat, part : {1, 2}]
Message == [type : {"PACK", "CLOSE"}, uniqid : Fds, conn : Clients, pack : Seq(Byte)]
Output == [uniqids : Seq(Fds), pack : {Bytes(of, n) : of \in SUBSET Clients, n \in Nat}]

TypeInv ==
  /\ peer \in [Clients -> {"new", "open", "closed"}]
  /\ wire \in [Clients -> Seq(Byte)] /\ nsent \in [Clients -> Nat]
  /\ got \in [Clients -> Seq(Byte)]
  /\ backlog \in Seq(Clients)
  /\ owner \in [Fds -> Clients \cup {NoClient}] /\ chan \subseteq Fds
  /\ inBuf \in [Fds -> Seq(Byte)] /\ outBuf \in [Fds -> Seq(Byte)]
  /\ events \in [Fds -> SUBSET {"READ", "WRITE"}]
  /\ mq2s \in Seq(Message) /\ mq2c \in Seq(Output)
  /\ session \in [Fds -> Clients \cup {NoClient}] /\ gone \subseteq Clients
  /\ rcvd \in [Clients -> Seq(Seq(Byte))]
  /\ nreply \in Nat /\ aborted \in BOOLEAN

\* The client c has not been accepted yet.
Fresh(c) == peer[c] = "new" \/ \E i \in 1..Len(backlog) : backlog[i] = c

OwnInv ==
  /\ chan = {fd \in Fds : owner[fd] # NoClient}
  /\ \A fd, fe \in chan : owner[fd] = owner[fe] => fd = fe
  /\ \A fd \in chan : ~Fresh(owner[fd])
  /\ \A i, j \in 1..Len(backlog) : backlog[i] = backlog[j] => i = j
  /\ \A i \in 1..Len(backlog) : peer[backlog[i]] # "new"

Msgs == 1..Len(mq2s)

\* The k-th message for the worker says that c has gone.
CloseAt(k, c) == k \in Msgs /\ mq2s[k].type = "CLOSE" /\ mq2s[k].conn = c

\* A client is known under one uniqid.
HomeInv ==
  /\ \A i, j \in Msgs : mq2s[i].conn = mq2s[j].conn => mq2s[i].uniqid = mq2s[j].uniqid
  /\ \A i \in Msgs, fd \in Fds : session[fd] = mq2s[i].conn => mq2s[i].uniqid = fd
  /\ \A i \in Msgs, fd \in chan : owner[fd] = mq2s[i].conn => mq2s[i].uniqid = fd
  /\ \A fd \in chan, fe \in Fds : session[fe] = owner[fd] => fe = fd

\* Clients who have gone, or have not come yet, have no message, session or channel.
LifeInv ==
  /\ \A i \in Msgs : mq2s[i].conn \notin gone /\ ~Fresh(mq2s[i].conn)
  /\ \A fd \in Fds : session[fd] # NoClient => session[fd] \notin gone /\ ~Fresh(session[fd])
  /\ \A fd \in chan : owner[fd] \notin gone
  /\ \A c \in gone : ~Fresh(c)

\* CLOSE is the last message of a client.
LastInv ==
  /\ \A i, j \in Msgs : i < j /\ mq2s[i].type = "CLOSE" => mq2s[i].conn # mq2s[j].conn
  /\ \A i \in Msgs, fd \in chan : mq2s[i].type = "CLOSE" => mq2s[i].conn # owner[fd]

\* Between two clients at the same descriptor is the CLOSE of the first.
BetweenInv ==
  /\ \A i, j \in Msgs :
       i < j /\ mq2s[i].uniqid = mq2s[j].uniqid /\ mq2s[i].conn # mq2s[j].conn =>
         \E k \in Msgs : k < j /\ CloseAt(k, mq2s[i].conn)
  /\ \A fd \in Fds, j \in Msgs :
       mq2s[j].uniqid = fd /\ session[fd] # NoClient /\ session[fd] # mq2s[j].conn =>
         \E k \in Msgs : k < j /\ CloseAt(k, session[fd])
  /\ \A i \in Msgs :
       mq2s[i].conn # owner[mq2s[i].uniqid] => \E k \in Msgs : CloseAt(k, mq2s[i].conn)
  /\ \A fd \in Fds :
       session[fd] # NoClient /\ session[fd] # owner[fd] => \E k \in Msgs : CloseAt(k, session[fd])

SessionInv == HomeInv /\ LifeInv /\ LastInv /\ BetweenInv

\* The bytes s are the packages of c from number F + 1 to number N.
Stream(c, F, N, s) ==
  /\ F <= N /\ Len(s) = 2 * (N - F)
  /\ \A k \in 1..(N - F) :
       /\ s[2 * k - 1] = [of |-> {c}, n |-> F + k, copy |-> 1, part |-> 1]
       /\ s[2 * k] = [of |-> {c}, n |-> F + k, copy |-> 1, part |-> 2]

PackAt(i, c) == i \in Msgs /\ mq2s[i].type = "PACK" /\ mq2s[i].conn = c

\* The packages of c up to number F have been pushed to the worker, and those it has
\* not handled are in mq2s; the others are in the buffer and on the wire.
Flow(c, F) ==
  /\ Len(rcvd[c]) <= F
  /\ \A i \in 1..Len(rcvd[c]) : rcvd[c][i] = Bytes({c}, i)
  /\ \A i \in Msgs : PackAt(i, c) => \E k \in (Len(rcvd[c]) + 1)..F : mq2s[i].pack = Bytes({c}, k)
  /\ \A k \in (Len(rcvd[c]) + 1)..F : \E i \in Msgs : PackAt(i, c) /\ mq2s[i].pack = Bytes({c}, k)
  /\ Fresh(c) => F = 0 /\ Stream(c, 0, nsent[c], wire[c])
  /\ \A fd \in chan : owner[fd] = c => Stream(c, F, nsent[c], inBuf[fd] \o wire[c])

\* The packages of a client wait in mq2s in the order of their numbers.
PacksInOrder ==
  \A i, j \in Msgs :
    i < j /\ mq2s[i].type = "PACK" /\ mq2s[j].type = "PACK" /\ mq2s[i].conn = mq2s[j].conn =>
      mq2s[i].pack[1].n < mq2s[j].pack[1].n

InboundInv == PacksInOrder /\ \A c \in Clients : \E F \in Nat : Flow(c, F)

Number(j) == mq2c[j].pack[1].n

\* Bytes that are whole packages in the order of their numbers.
Packed(s) == Whole(s) /\ InOrder(s) /\ Len(s) % 2 = 0

\* Bytes that were pushed before all that waits in mq2c.
Before(s) == \A i \in 1..Len(s) : s[i].n <= nreply /\ \A j \in 1..Len(mq2c) : s[i].n < Number(j)

Delivered(s) == Packed(s) /\ Before(s)

OutInv ==
  /\ \A j \in 1..Len(mq2c) : /\ Number(j) \in 1..nreply
                             /\ \E of \in SUBSET Clients : mq2c[j].pack = Bytes(of, Number(j))
  /\ \A i, j \in 1..Len(mq2c) : i < j => Number(i) < Number(j)
  /\ \A c \in Clients : Whole(got[c]) /\ InOrder(got[c])
  /\ \A c \in Clients : Fresh(c) => got[c] = <<>>
  /\ \A fd \in chan : peer[owner[fd]] = "open" => Delivered(got[owner[fd]] \o outBuf[fd])

IInv == TypeInv /\ OwnInv /\ SessionInv /\ InboundInv /\ OutInv
-----------------------------------------------------------------------------
(***************************************************************************)
(* Sequences and sets.                                                     *)
(***************************************************************************)
\* accept finds a lowest descriptor among the free ones.
LEMMA Lowest ==
  ASSUME NEW T \in SUBSET Nat, T # {}
  PROVE  Min(T) \in T
<1>1. IsWellFoundedOn(OpToRel(<, Nat), Nat)
  BY NatLessThanWellFounded
<1>2. \E x \in T : \A y \in T : ~(<<y, x>> \in OpToRel(<, Nat))
  BY <1>1, WFMin
<1>3. PICK x \in T : \A y \in T : ~(y < x)
  BY <1>2 DEF OpToRel
<1>4. \A y \in T : x <= y
  BY <1>3
<1>5. QED
  BY <1>4 DEF Min

LEMMA Regroup ==
  ASSUME NEW s \in Seq(Byte), NEW t \in Seq(Byte), NEW u \in Seq(Byte)
  PROVE  (s \o t) \o u = s \o (t \o u)
  BY ConcatAssociative

LEMMA JoinFacts ==
  ASSUME NEW s \in Seq(Byte), NEW u \in Seq(Byte)
  PROVE  /\ Len(s) \in Nat /\ Len(u) \in Nat /\ Len(s \o u) = Len(s) + Len(u)
         /\ \A i \in 1..Len(s) : (s \o u)[i] = s[i]
         /\ \A i \in 1..Len(u) : (s \o u)[Len(s) + i] = u[i]
<1>1. /\ Len(s) \in Nat /\ Len(u) \in Nat /\ Len(s \o u) = Len(s) + Len(u)
      /\ \A i \in 1..(Len(s) + Len(u)) : (s \o u)[i] = IF i <= Len(s) THEN s[i] ELSE u[i - Len(s)]
  BY ConcatProperties
<1>2. PICK l, m, t : l \in Nat /\ m \in Nat /\ l = Len(s) /\ m = Len(u) /\ t = s \o u
  BY <1>1
<1>3. \A i \in 1..(l + m) : t[i] = IF i <= l THEN s[i] ELSE u[i - l]
  BY <1>1, <1>2
<1>4. \A i \in 1..l : t[i] = s[i]
  BY <1>2, <1>3
<1>5. ASSUME NEW i \in 1..m PROVE t[l + i] = u[i]
  <2>1. l + i \in 1..(l + m) /\ ~(l + i <= l) /\ (l + i) - l = i
    BY <1>2
  <2>2. t[l + i] = u[(l + i) - l]
    BY <1>3, <2>1
  <2>3. QED
    BY <2>1, <2>2
<1>6. QED
  BY <1>1, <1>2, <1>4, <1>5

\* Bytes taken off the front of a sequence, and the others.
Cut(s, n, f, left) ==
  /\ f = SubSeq(s, 1, n) /\ left = SubSeq(s, n + 1, Len(s))
  /\ f \o left = s /\ Len(f) = n
  /\ \A t \in Seq(Byte) : t \o s = (t \o f) \o left /\ s \o t = f \o (left \o t)

LEMMA CutAt ==
  ASSUME NEW s \in Seq(Byte), NEW n \in 0..Len(s)
  PROVE  \E f, left \in Seq(Byte) : Cut(s, n, f, left)
<1>1. Len(s) \in Nat /\ n \in Nat /\ \A i \in 1..Len(s) : s[i] \in Byte
  BY ElementOfSeq
<1>2. \A i \in 1..n : s[i] \in Byte
  BY <1>1
<1>3. \A i \in (n + 1)..Len(s) : s[i] \in Byte
  BY <1>1
<1>4. SubSeq(s, 1, n) \in Seq(Byte) /\ Len(SubSeq(s, 1, n)) = IF 1 <= n THEN n - 1 + 1 ELSE 0
  BY <1>1, <1>2, SubSeqProperties
<1>5. SubSeq(s, n + 1, Len(s)) \in Seq(Byte)
  BY <1>1, <1>3, SubSeqProperties
<1>6. /\ 1 \in 1..(Len(s) + 1) /\ n \in (1 - 1)..Len(s) /\ Len(s) \in n..Len(s)
  BY <1>1
<1>7. SubSeq(s, 1, n) \o SubSeq(s, n + 1, Len(s)) = SubSeq(s, 1, Len(s))
  BY <1>6, ConcatAdjacentSubSeq
<1>8. Len(SubSeq(s, 1, n)) = n
  BY <1>1, <1>4
<1>9. SubSeq(s, 1, Len(s)) = s
  BY SubSeqFull
<1>10. PICK f \in Seq(Byte), left \in Seq(Byte) :
          /\ f = SubSeq(s, 1, n) /\ left = SubSeq(s, n + 1, Len(s))
          /\ f \o left = s /\ Len(f) = n
  BY <1>4, <1>5, <1>7, <1>8, <1>9
<1>11. ASSUME NEW t \in Seq(Byte)
       PROVE  t \o s = (t \o f) \o left /\ s \o t = f \o (left \o t)
  <2>1. (t \o f) \o left = t \o (f \o left)
    BY Regroup, Zenon
  <2>2. (f \o left) \o t = f \o (left \o t)
    BY Regroup, Zenon
  <2>3. QED
    BY <1>10, <2>1, <2>2
<1>12. Cut(s, n, f, left)
  BY <1>10, <1>11 DEF Cut
<1>13. QED
  BY <1>12, Zenon

\* A package is two bytes.
LEMMA BytesFacts ==
  ASSUME NEW of \in SUBSET Clients, NEW n \in Nat
  PROVE  /\ Bytes(of, n) \in Seq(Byte) /\ Len(Bytes(of, n)) = 2
         /\ Bytes(of, n)[1] = [of |-> of, n |-> n, copy |-> 1, part |-> 1]
         /\ Bytes(of, n)[2] = [of |-> of, n |-> n, copy |-> 1, part |-> 2]
<1>1. PICK x, y : x = [of |-> of, n |-> n, copy |-> 1, part |-> 1] /\ y = [of |-> of, n |-> n, copy |-> 1, part |-> 2]
  OBVIOUS
<1>2. x \in Byte /\ y \in Byte
  BY <1>1 DEF Byte
<1>3. PICK b : b = <<x, y>>
  OBVIOUS
<1>4. b \in Seq(Byte) /\ Len(b) = 2 /\ b[1] = x /\ b[2] = y
  BY <1>2, <1>3
<1>5. b = Bytes(of, n)
  BY <1>1, <1>3 DEF Bytes
<1>6. QED
  BY <1>1, <1>4, <1>5

\* The i-th byte of the copies.
CopyByte(of, n, i) ==
  [of |-> of, n |-> n, copy |-> (i + 1) \div 2, part |-> IF i % 2 = 1 THEN 1 ELSE 2]

LEMMA CopiesFacts ==
  ASSUME NEW of \in SUBSET Clients, NEW n \in Nat, NEW k \in Nat
  PROVE  /\ Copies(Bytes(of, n), k) \in Seq(Byte) /\ Len(Copies(Bytes(of, n), k)) = 2 * k
         /\ \A i \in 1..(2 * k) : Copies(Bytes(of, n), k)[i] = CopyByte(of, n, i)
<1>1. PICK b : /\ b = Bytes(of, n)
               /\ b[1] = [of |-> of, n |-> n, copy |-> 1, part |-> 1]
               /\ b[2] = [of |-> of, n |-> n, copy |-> 1, part |-> 2]
  BY BytesFacts
<1>2. PICK m \in Nat : m = 2 * k
  OBVIOUS
<1>3. PICK c : c = Copies(Bytes(of, n), k)
  OBVIOUS
<1>4. c = [i \in 1..m |-> [b[IF i % 2 = 1 THEN 1 ELSE 2] EXCEPT !.copy = (i + 1) \div 2]]
  BY <1>1, <1>2, <1>3 DEF Copies
<1>5. ASSUME NEW i \in 1..m PROVE c[i] = CopyByte(of, n, i) /\ c[i] \in Byte
  <2>1. PICK q \in Nat : q = (i + 1) \div 2
    OBVIOUS
  <2>2. c[i] = [b[IF i % 2 = 1 THEN 1 ELSE 2] EXCEPT !.copy = q]
    BY <1>4, <2>1
  <2>3. c[i] = [of |-> of, n |-> n, copy |-> q, part |-> IF i % 2 = 1 THEN 1 ELSE 2]
    <3>1. CASE i % 2 = 1
      BY <1>1, <2>2, <3>1
    <3>2. CASE i % 2 # 1
      BY <1>1, <2>2, <3>2
    <3>3. QED
      BY <3>1, <3>2
  <2>4. QED
    BY <2>1, <2>3 DEF CopyByte, Byte
<1>6. c \in Seq(Byte) /\ Len(c) = m
  <2>1. c \in [1..m -> Byte]
    BY <1>4, <1>5
  <2>2. QED
    BY <2>1
<1>7. QED
  BY <1>2, <1>3, <1>5, <1>6

LEMMA NumberOfBytes == \A of \in SUBSET Clients, c \in Clients, n \in Nat :
                         Bytes(of, n)[1].n = n /\ Bytes({c}, n)[1].n = n
  BY DEF Bytes

\* What OnRead makes of the whole packages in a buffer, and what it keeps.
LEMMA PackagesFacts ==
  ASSUME NEW fd \in Fds, owner[fd] \in Clients, NEW buf \in Seq(Byte)
  PROVE  \E h \in Nat :
           /\ 2 * h <= Len(buf) /\ Packages(fd, buf) \in Seq(Message) /\ Rest(buf) \in Seq(Byte)
           /\ Len(Packages(fd, buf)) = h
           /\ \A i \in 1..h :
                /\ Packages(fd, buf)[i].type = "PACK" /\ Packages(fd, buf)[i].uniqid = fd
                /\ Packages(fd, buf)[i].conn = owner[fd]
                /\ Packages(fd, buf)[i].pack = <<buf[2 * i - 1], buf[2 * i]>>
           /\ \E front \in Seq(Byte) :
                /\ front \o Rest(buf) = buf /\ Len(front) = 2 * h
                /\ \A t \in Seq(Byte) : buf \o t = front \o (Rest(buf) \o t)
<1>1. PICK h \in Nat : h = Len(buf) \div 2 /\ 2 * h <= Len(buf)
  <2>1. PICK l \in Nat : l = Len(buf)
    OBVIOUS
  <2>2. l \div 2 \in Nat /\ 2 * (l \div 2) <= l
    BY <2>1
  <2>3. QED
    BY <2>1, <2>2
<1>2. Len(buf) \in Nat /\ \A i \in 1..Len(buf) : buf[i] \in Byte
  BY ElementOfSeq
<1>3. PICK pk : pk = Packages(fd, buf)
  OBVIOUS
<1>4. pk = [i \in 1..h |-> [type |-> "PACK", uniqid |-> fd, conn |-> owner[fd],
                            pack |-> SubSeq(buf, 2 * i - 1, 2 * i)]]
  BY <1>1, <1>3 DEF Packages, GetUniqidFromFd
<1>5. ASSUME NEW i \in 1..h
      PROVE  SubSeq(buf, 2 * i - 1, 2 * i) \in Seq(Byte)
             /\ SubSeq(buf, 2 * i - 1, 2 * i) = <<buf[2 * i - 1], buf[2 * i]>>
  <2>1. /\ 2 * i - 1 \in Int /\ 2 * i \in Int /\ 2 * i - (2 * i - 1) + 1 = 2
        /\ 2 * i - 1 <= 2 * i /\ 2 * i \in 1..Len(buf) /\ 2 * i - 1 \in 1..Len(buf)
        /\ (2 * i - 1) + 1 - 1 = 2 * i - 1 /\ (2 * i - 1) + 2 - 1 = 2 * i
    BY <1>1, <1>2
  <2>2. \A j \in (2 * i - 1)..(2 * i) : buf[j] \in Byte
    BY <1>2, <2>1
  <2>3. PICK a, b : a = 2 * i - 1 /\ b = 2 * i
    OBVIOUS
  <2>4. /\ SubSeq(buf, a, b) \in Seq(Byte) /\ Len(SubSeq(buf, a, b)) = IF a <= b THEN b - a + 1 ELSE 0
        /\ \A j \in 1..(b - a + 1) : SubSeq(buf, a, b)[j] = buf[a + j - 1]
    BY <2>1, <2>2, <2>3, SubSeqProperties
  <2>5. PICK s \in Seq(Byte) : s = SubSeq(buf, a, b)
    BY <2>4
  <2>6. Len(s) = 2 /\ s[1] = buf[a] /\ s[2] = buf[b]
    BY <2>1, <2>3, <2>4, <2>5
  <2>7. buf[a] \in Byte /\ buf[b] \in Byte
    BY <1>2, <2>1, <2>3
  <2>8. PICK t : t = <<buf[a], buf[b]>>
    OBVIOUS
  <2>9. t \in Seq(Byte) /\ Len(t) = 2 /\ t[1] = buf[a] /\ t[2] = buf[b]
    BY <2>7, <2>8
  <2>10. \A j \in 1..Len(s) : s[j] = t[j]
    <3>1. 1..Len(s) = {1, 2}
      BY <2>6
    <3>2. QED
      BY <2>6, <2>9, <3>1
  <2>11. s = t
    BY <2>6, <2>9, <2>10, SeqEqual
  <2>12. QED
    BY <2>3, <2>5, <2>8, <2>11
<1>6. /\ pk \in Seq(Message) /\ Len(pk) = h
      /\ \A i \in 1..h : /\ pk[i].type = "PACK" /\ pk[i].uniqid = fd /\ pk[i].conn = owner[fd]
                         /\ pk[i].pack = <<buf[2 * i - 1], buf[2 * i]>>
  <2>1. ASSUME NEW i \in 1..h
        PROVE  [type |-> "PACK", uniqid |-> fd, conn |-> owner[fd],
                pack |-> SubSeq(buf, 2 * i - 1, 2 * i)] \in Message
    BY <1>5 DEF Message
  <2>2. \A i \in 1..h : pk[i] \in Message
    BY <1>4, <2>1
  <2>3. pk \in [1..h -> Message]
    BY <1>4, <2>1
  <2>4. pk \in Seq(Message) /\ Len(pk) = h
    BY <1>1, <2>3
  <2>5. \A i \in 1..h : /\ pk[i].type = "PACK" /\ pk[i].uniqid = fd /\ pk[i].conn = owner[fd]
                        /\ pk[i].pack = SubSeq(buf, 2 * i - 1, 2 * i)
    BY <1>4
  <2>6. QED
    BY <1>5, <2>4, <2>5
<1>7. PICK front \in Seq(Byte) :
        /\ front \o Rest(buf) = buf /\ Len(front) = 2 * h /\ Rest(buf) \in Seq(Byte)
        /\ \A t \in Seq(Byte) : buf \o t = front \o (Rest(buf) \o t)
  <2>1. PICK m : m = 2 * h
    OBVIOUS
  <2>2. m \in 0..Len(buf)
    BY <1>1, <1>2, <2>1
  <2>3. PICK f, left \in Seq(Byte) : Cut(buf, m, f, left)
    BY <2>2, CutAt, Zenon
  <2>4. left = Rest(buf)
    BY <1>1, <2>1, <2>3 DEF Rest, Cut
  <2>5. /\ f \o Rest(buf) = buf /\ Len(f) = 2 * h /\ Rest(buf) \in Seq(Byte)
        /\ \A t \in Seq(Byte) : buf \o t = f \o (Rest(buf) \o t)
    BY <2>1, <2>3, <2>4 DEF Cut
  <2>6. QED
    BY <2>5, Zenon
<1>8. QED
  BY <1>1, <1>3, <1>6, <1>7, Zenon
-----------------------------------------------------------------------------
(***************************************************************************)
(* Types, descriptors and channels.                                        *)
(***************************************************************************)
LEMMA ChannelFacts ==
  ASSUME TypeInv, OwnInv, NEW fd \in chan
  PROVE  fd \in Fds /\ owner[fd] \in Clients /\ owner[fd] # NoClient
  BY DEF TypeInv, OwnInv

LEMMA AcceptFacts ==
  ASSUME TypeInv, OwnInv, OnAccept
  PROVE  \E fd \in Fds, c \in Clients, t \in Seq(Clients) :
           /\ fd \notin chan /\ owner[fd] = NoClient /\ c = Head(backlog) /\ t = Tail(backlog)
           /\ owner' = [owner EXCEPT ![fd] = c] /\ chan' = chan \cup {fd}
           /\ inBuf' = [inBuf EXCEPT ![fd] = <<>>] /\ outBuf' = [outBuf EXCEPT ![fd] = <<>>]
           /\ events' = [events EXCEPT ![fd] = {"READ"}] /\ backlog' = t /\ backlog # <<>>
           /\ Len(t) = Len(backlog) - 1 /\ \A i \in 1..Len(t) : t[i] = backlog[i + 1]
           /\ c = backlog[1]
<1>1. Free \in SUBSET Nat /\ Free # {}
  BY FdAssumption DEF OnAccept, Free
<1>2. PICK fd : fd = Min(Free)
  OBVIOUS
<1>3. fd \in Free
  BY <1>1, <1>2, Lowest
<1>4. fd \in Fds /\ owner[fd] = NoClient /\ fd \notin chan
  BY <1>3 DEF Free, OwnInv
<1>5. backlog \in Seq(Clients) /\ backlog # <<>>
  BY DEF OnAccept, TypeInv
<1>6. /\ Head(backlog) \in Clients /\ Tail(backlog) \in Seq(Clients)
      /\ Len(Tail(backlog)) = Len(backlog) - 1
      /\ \A i \in 1..Len(Tail(backlog)) : Tail(backlog)[i] = backlog[i + 1]
  BY <1>5, HeadTailProperties
<1>7. Head(backlog) = backlog[1]
  BY <1>5
<1>8. /\ owner' = [owner EXCEPT ![fd] = Head(backlog)] /\ chan' = chan \cup {fd}
      /\ inBuf' = [inBuf EXCEPT ![fd] = <<>>] /\ outBuf' = [outBuf EXCEPT ![fd] = <<>>]
      /\ events' = [events EXCEPT ![fd] = {"READ"}] /\ backlog' = Tail(backlog)
  BY <1>2, <1>4 DEF OnAccept, AddEvent, AddChannel
<1>9. QED
  BY <1>4, <1>5, <1>6, <1>7, <1>8, Zenon

\* OnRead: whole packages leave the front of what the client has sent.
ReadOf(fd, front, rest, left, p) ==
  /\ wire' = [wire EXCEPT ![owner[fd]] = left]
  /\ inBuf' = [inBuf EXCEPT ![fd] = rest]
  /\ mq2s' = mq2s \o p
  /\ inBuf[fd] \o wire[owner[fd]] = front \o (rest \o left)
  /\ Len(front) = 2 * Len(p)
  /\ \A i \in 1..Len(p) :
       /\ p[i].type = "PACK" /\ p[i].uniqid = fd /\ p[i].conn = owner[fd]
       /\ p[i].pack = <<front[2 * i - 1], front[2 * i]>>

LEMMA ReadFacts ==
  ASSUME TypeInv, OwnInv, NEW fd \in Fds, OnRead(fd)
  PROVE  /\ fd \in chan /\ owner[fd] \in Clients
         /\ \E front, rest, left \in Seq(Byte), p \in Seq(Message) : ReadOf(fd, front, rest, left, p)
<1>1. fd \in chan /\ owner[fd] \in Clients
  BY ChannelFacts DEF OnRead, r_w_cb
<1>2. PICK c : c = owner[fd]
  OBVIOUS
<1>3. c \in Clients /\ wire[c] \in Seq(Byte) /\ inBuf[fd] \in Seq(Byte) /\ Len(wire[c]) \in Nat
  BY <1>1, <1>2 DEF TypeInv
<1>4. PICK n \in 1..Len(wire[c]) :
        /\ wire' = [wire EXCEPT ![c] = SubSeq(@, n + 1, Len(@))]
        /\ mq2s' = mq2s \o Packages(fd, inBuf[fd] \o SubSeq(wire[c], 1, n))
        /\ inBuf' = [inBuf EXCEPT ![fd] = Rest(inBuf[fd] \o SubSeq(wire[c], 1, n))]
  BY <1>2 DEF OnRead
<1>5. PICK w \in Seq(Byte), held \in Seq(Byte) : w = wire[c] /\ held = inBuf[fd]
  BY <1>3
<1>6. n \in 0..Len(w)
  BY <1>3, <1>5
<1>7. PICK f, left \in Seq(Byte) : Cut(w, n, f, left)
  BY <1>6, CutAt, Zenon
<1>8. PICK buf \in Seq(Byte) : buf = held \o f
  BY ConcatProperties
<1>9. PICK h \in Nat :
        /\ 2 * h <= Len(buf) /\ Packages(fd, buf) \in Seq(Message) /\ Rest(buf) \in Seq(Byte)
        /\ Len(Packages(fd, buf)) = h
        /\ \A i \in 1..h :
             /\ Packages(fd, buf)[i].type = "PACK" /\ Packages(fd, buf)[i].uniqid = fd
             /\ Packages(fd, buf)[i].conn = owner[fd]
             /\ Packages(fd, buf)[i].pack = <<buf[2 * i - 1], buf[2 * i]>>
        /\ \E front \in Seq(Byte) :
             /\ front \o Rest(buf) = buf /\ Len(front) = 2 * h
             /\ \A t \in Seq(Byte) : buf \o t = front \o (Rest(buf) \o t)
  BY <1>1, PackagesFacts
<1>10. PICK p \in Seq(Message), rest \in Seq(Byte) : p = Packages(fd, buf) /\ rest = Rest(buf)
  BY <1>9
<1>11. PICK front \in Seq(Byte) :
          /\ front \o rest = buf /\ Len(front) = 2 * h
          /\ \A t \in Seq(Byte) : buf \o t = front \o (rest \o t)
  BY <1>9, <1>10
<1>12. \A i \in 1..h : <<buf[2 * i - 1], buf[2 * i]>> = <<front[2 * i - 1], front[2 * i]>>
  <2>1. /\ Len(front) \in Nat /\ Len(rest) \in Nat
        /\ \A i \in 1..(Len(front) + Len(rest)) :
             (front \o rest)[i] = IF i <= Len(front) THEN front[i] ELSE rest[i - Len(front)]
    BY ConcatProperties
  <2>2. ASSUME NEW i \in 1..(2 * h) PROVE buf[i] = front[i]
    <3>1. i <= Len(front) /\ i \in 1..(Len(front) + Len(rest)) /\ front \o rest = buf
      BY <1>11, <2>1
    <3>2. QED
      BY <2>1, <3>1
  <2>3. \A i \in 1..h : 2 * i - 1 \in 1..(2 * h) /\ 2 * i \in 1..(2 * h)
    OBVIOUS
  <2>4. QED
    BY <2>2, <2>3
<1>13. held \o w = front \o (rest \o left)
  <2>1. held \o w = (held \o f) \o left
    BY <1>7 DEF Cut
  <2>2. buf \o left = front \o (rest \o left)
    BY <1>11
  <2>3. QED
    BY <1>8, <2>1, <2>2
<1>14. /\ wire' = [wire EXCEPT ![owner[fd]] = left] /\ inBuf' = [inBuf EXCEPT ![fd] = rest]
       /\ mq2s' = mq2s \o p
  BY <1>2, <1>3, <1>4, <1>5, <1>7, <1>8, <1>10 DEF TypeInv, Cut
<1>15. \A i \in 1..Len(p) : /\ p[i].type = "PACK" /\ p[i].uniqid = fd /\ p[i].conn = owner[fd]
                            /\ p[i].pack = <<front[2 * i - 1], front[2 * i]>>
  BY <1>9, <1>10, <1>12
<1>16. inBuf[fd] \o wire[owner[fd]] = front \o (rest \o left)
  BY <1>2, <1>5, <1>13
<1>17. ReadOf(fd, front, rest, left, p)
  BY <1>9, <1>10, <1>11, <1>14, <1>15, <1>16 DEF ReadOf
<1>18. QED
  BY <1>1, <1>17, Zenon

\* OnReadEof and OnReadError: one CLOSE for the client behind the descriptor.
LEMMA CloseFacts ==
  ASSUME TypeInv, OwnInv, NEW fd \in Fds, OnReadEof(fd) \/ OnReadError(fd)
  PROVE  /\ fd \in chan /\ CloseMessage(fd) \in Message /\ mq2s' = Append(mq2s, CloseMessage(fd))
         /\ CloseMessage(fd).type = "CLOSE" /\ CloseMessage(fd).uniqid = fd
         /\ CloseMessage(fd).conn = owner[fd] /\ owner[fd] \in Clients
         /\ owner' = [owner EXCEPT ![fd] = NoClient] /\ chan' = chan \ {fd}
         /\ inBuf' = [inBuf EXCEPT ![fd] = <<>>] /\ outBuf' = [outBuf EXCEPT ![fd] = <<>>]
         /\ events' = [events EXCEPT ![fd] = {}]
         /\ peer' \in {peer, [peer EXCEPT ![owner[fd]] = "closed"]}
         /\ wire' \in {wire, [wire EXCEPT ![owner[fd]] = <<>>]}
         /\ UNCHANGED <<nsent, got, backlog, mq2c, worker, aborted>>
<1>1. fd \in chan /\ OnFdClosed(fd)
  BY DEF OnReadEof, OnReadError, r_w_cb
<1>2. owner[fd] \in Clients
  BY <1>1, ChannelFacts
<1>3. <<>> \in Seq(Byte)
  OBVIOUS
<1>4. /\ CloseMessage(fd) \in Message
      /\ CloseMessage(fd).type = "CLOSE" /\ CloseMessage(fd).uniqid = fd
      /\ CloseMessage(fd).conn = owner[fd]
  BY <1>2, <1>3 DEF CloseMessage, GetUniqidFromFd, Message
<1>5. /\ peer' \in {peer, [peer EXCEPT ![owner[fd]] = "closed"]}
      /\ wire' \in {wire, [wire EXCEPT ![owner[fd]] = <<>>]}
  BY DEF OnReadEof, OnReadError
<1>6. QED
  BY <1>1, <1>2, <1>4, <1>5 DEF OnFdClosed, RemoveEvent

\* OnWrite: bytes leave the front of the output, to the client if it is there.
WriteOf(fd, f, left) ==
  /\ outBuf[fd] = f \o left
  /\ outBuf' = [outBuf EXCEPT ![fd] = left]
  /\ got' = IF peer[owner[fd]] = "open" THEN [got EXCEPT ![owner[fd]] = @ \o f] ELSE got

LEMMA WriteFacts ==
  ASSUME TypeInv, OwnInv, NEW fd \in Fds, OnWrite(fd)
  PROVE  fd \in chan /\ owner[fd] \in Clients /\ \E f, left \in Seq(Byte) : WriteOf(fd, f, left)
<1>1. fd \in chan /\ owner[fd] \in Clients
  BY ChannelFacts DEF OnWrite, r_w_cb
<1>2. outBuf[fd] \in Seq(Byte) /\ Len(outBuf[fd]) \in Nat
  BY DEF TypeInv
<1>3. PICK n \in 0..Len(outBuf[fd]) :
        /\ got' = [got EXCEPT ![owner[fd]] =
                     IF peer[owner[fd]] = "open" THEN @ \o SubSeq(outBuf[fd], 1, n) ELSE @]
        /\ outBuf' = [outBuf EXCEPT ![fd] = SubSeq(@, n + 1, Len(@))]
  BY DEF OnWrite
<1>4. PICK f, left \in Seq(Byte) : Cut(outBuf[fd], n, f, left)
  BY <1>2, CutAt, Zenon
<1>5. outBuf' = [outBuf EXCEPT ![fd] = left]
  BY <1>3, <1>4 DEF TypeInv, Cut
<1>6. got' = IF peer[owner[fd]] = "open" THEN [got EXCEPT ![owner[fd]] = @ \o f] ELSE got
  BY <1>1, <1>3, <1>4 DEF TypeInv, Cut
<1>7. outBuf[fd] = f \o left
  BY <1>4 DEF Cut
<1>8. WriteOf(fd, f, left)
  BY <1>5, <1>6, <1>7 DEF WriteOf
<1>9. QED
  BY <1>1, <1>8, Zenon

\* The worker and OnEventfd take the first message off a list.
LEMMA DispatchFacts ==
  ASSUME TypeInv, NEW type \in {"PACK", "CLOSE"}, MessageDispatch(type)
  PROVE  \E m \in Message, t \in Seq(Message) :
           /\ m = Head(mq2s) /\ m = mq2s[1] /\ m.type = type /\ mq2s' = t /\ 1 \in Msgs
           /\ Len(mq2s) = Len(t) + 1 /\ \A i \in 1..Len(t) : t[i] = mq2s[i + 1]
<1>1. mq2s \in Seq(Message) /\ mq2s # <<>> /\ Head(mq2s).type = type /\ mq2s' = Tail(mq2s)
  BY DEF TypeInv, MessageDispatch
<1>2. /\ Head(mq2s) \in Message /\ Tail(mq2s) \in Seq(Message)
      /\ Len(Tail(mq2s)) = Len(mq2s) - 1
      /\ \A i \in 1..Len(Tail(mq2s)) : Tail(mq2s)[i] = mq2s[i + 1]
  BY <1>1, HeadTailProperties
<1>3. Head(mq2s) = mq2s[1] /\ Len(mq2s) \in Nat /\ Len(mq2s) # 0
  BY <1>1
<1>4. 1 \in Msgs /\ Len(mq2s) = Len(Tail(mq2s)) + 1
  BY <1>2, <1>3 DEF Msgs
<1>5. QED
  BY <1>1, <1>2, <1>3, <1>4, Zenon

LEMMA TimesType == \A uniqids \in Seq(Fds), fd \in Fds : Times(uniqids, fd) \in Nat
<1> SUFFICES ASSUME NEW uniqids \in Seq(Fds), NEW fd \in Fds PROVE Times(uniqids, fd) \in Nat
  OBVIOUS
<1>1. PICK l \in Nat : DOMAIN uniqids = 1..l
  BY LenProperties
<1>2. PICK T : T = {i \in GetChannels(uniqids) : GetFdFromUniqid(uniqids[i]) = fd}
  OBVIOUS
<1>3. T \subseteq 1..l
  BY <1>1, <1>2 DEF GetChannels
<1>4. IsFiniteSet(T)
  <2>1. IsFiniteSet(1..l)
    BY FS_Interval
  <2>2. QED
    BY <1>3, <2>1, FS_Subset, Zenon
<1>5. Cardinality(T) \in Nat
  BY <1>4, FS_CardinalityType
<1>6. QED
  BY <1>2, <1>5 DEF Times

LEMMA EventfdFacts ==
  ASSUME TypeInv, OnEventfd
  PROVE  \E m \in Output, t \in Seq(Output), times \in [Fds -> Nat] :
           /\ m = mq2c[1] /\ mq2c' = t /\ 1 \in 1..Len(mq2c)
           /\ Len(mq2c) = Len(t) + 1 /\ \A i \in 1..Len(t) : t[i] = mq2c[i + 1]
           /\ outBuf' = [fd \in Fds |-> outBuf[fd] \o Copies(m.pack, times[fd])]
           /\ events' = [fd \in Fds |-> IF times[fd] > 0 THEN Interest(outBuf'[fd]) ELSE events[fd]]
<1>1. mq2c \in Seq(Output) /\ mq2c # <<>> /\ mq2c' = Tail(mq2c)
  BY DEF TypeInv, OnEventfd
<1>2. /\ Head(mq2c) \in Output /\ Tail(mq2c) \in Seq(Output)
      /\ Len(Tail(mq2c)) = Len(mq2c) - 1
      /\ \A i \in 1..Len(Tail(mq2c)) : Tail(mq2c)[i] = mq2c[i + 1]
  BY <1>1, HeadTailProperties
<1>3. Head(mq2c) = mq2c[1] /\ Len(mq2c) \in Nat /\ Len(mq2c) # 0
  BY <1>1
<1>4. 1 \in 1..Len(mq2c) /\ Len(mq2c) = Len(Tail(mq2c)) + 1
  BY <1>2, <1>3
<1>5. PICK m \in Output : m = Head(mq2c)
  BY <1>2
<1>6. PICK times : times = [fd \in Fds |-> Times(m.uniqids, fd)]
  OBVIOUS
<1>7. times \in [Fds -> Nat]
  <2>1. m.uniqids \in Seq(Fds)
    BY DEF Output
  <2>2. QED
    BY <1>6, <2>1, TimesType
<1>8. /\ outBuf' = [fd \in Fds |-> outBuf[fd] \o Copies(m.pack, times[fd])]
      /\ events' = [fd \in Fds |-> IF times[fd] > 0 THEN Interest(outBuf'[fd]) ELSE events[fd]]
  BY <1>5, <1>6 DEF OnEventfd
<1>9. QED
  BY <1>1, <1>2, <1>3, <1>4, <1>5, <1>7, <1>8, Zenon

LEMMA OutputType ==
  \A fds \in Seq(Fds), of \in SUBSET Clients, n \in Nat :
    [uniqids |-> fds, pack |-> Bytes(of, n)] \in Output
<1> SUFFICES ASSUME NEW fds \in Seq(Fds), NEW of \in SUBSET Clients, NEW n \in Nat
             PROVE  [uniqids |-> fds, pack |-> Bytes(of, n)] \in Output
  OBVIOUS
<1>1. PICK b : b = Bytes(of, n)
  OBVIOUS
<1>2. b \in {Bytes(o, k) : o \in SUBSET Clients, k \in Nat}
  BY <1>1
<1>3. QED
  BY <1>1, <1>2 DEF Output

\* The worker's sends, whoever they are for.
LEMMA PushFacts ==
  ASSUME TypeInv, Reply \/ BroadcastSome \/ BroadcastAll
  PROVE  \E fds \in Seq(Fds), of \in SUBSET Clients : PushToSocket(fds, of)
<1>1. \A fd \in Serving : session[fd] \in Clients /\ fd \in Fds
  BY DEF TypeInv, Serving
<1>2. CASE Reply
  <2>1. PICK fd \in Serving : PushToSocket(<<fd>>, {session[fd]})
    BY <1>2 DEF Reply
  <2>2. <<fd>> \in Seq(Fds) /\ {session[fd]} \in SUBSET Clients
    BY <1>1
  <2>3. QED
    BY <2>1, <2>2, Zenon
<1>3. CASE BroadcastSome
  <2>0. PICK k \in 0..MaxAddressees :
          \E fds \in [1..k -> Serving] : PushToSocket(fds, {session[fds[i]] : i \in 1..k})
    BY <1>3 DEF BroadcastSome
  <2>1. PICK fds \in [1..k -> Serving] : PushToSocket(fds, {session[fds[i]] : i \in 1..k})
    BY <2>0
  <2>2. k \in Nat /\ fds \in [1..k -> Fds]
    BY <1>1, BoundAssumption
  <2>3. fds \in Seq(Fds)
    BY <2>2
  <2>4. {session[fds[i]] : i \in 1..k} \in SUBSET Clients
    BY <1>1
  <2>5. QED
    BY <2>1, <2>3, <2>4, Zenon
<1>4. CASE BroadcastAll
  <2>1. <<>> \in Seq(Fds) /\ {session[fd] : fd \in Serving} \in SUBSET Clients
    BY <1>1
  <2>2. QED
    BY <1>4, <2>1, Zenon DEF BroadcastAll
<1>5. QED
  BY <1>2, <1>3, <1>4

-----------------------------------------------------------------------------
LEMMA InitTypes == Init => TypeInv /\ OwnInv
<1> SUFFICES ASSUME Init PROVE TypeInv /\ OwnInv
  OBVIOUS
<1>1. /\ <<>> \in Seq(Byte) /\ <<>> \in Seq(Clients) /\ <<>> \in Seq(Message)
      /\ <<>> \in Seq(Output) /\ <<>> \in Seq(Seq(Byte)) /\ Len(<<>>) = 0
  OBVIOUS
<1>2. TypeInv
  BY <1>1 DEF Init, TypeInv
<1>3. OwnInv
  BY <1>1 DEF Init, OwnInv
<1>4. QED
  BY <1>2, <1>3

LEMMA InterestType == \A out : Interest(out) \in SUBSET {"READ", "WRITE"}
  BY DEF Interest

LEMMA TypeStep == TypeInv /\ OwnInv /\ [Next]_vars => TypeInv'
<1> SUFFICES ASSUME TypeInv, OwnInv, [Next]_vars PROVE TypeInv'
  OBVIOUS
<1>1. ASSUME NEW c \in Clients, Connect(c) PROVE TypeInv'
  <2>1. Append(backlog, c) \in Seq(Clients)
    BY AppendProperties DEF TypeInv
  <2>2. QED
    BY <1>1, <2>1 DEF Connect, TypeInv, channels, worker
<1>2. ASSUME NEW c \in Clients, Send(c) PROVE TypeInv'
  <2>1. nsent[c] \in Nat /\ nsent[c] + 1 \in Nat /\ {c} \in SUBSET Clients /\ wire[c] \in Seq(Byte)
    BY DEF TypeInv
  <2>2. PICK b \in Seq(Byte) : b = Bytes({c}, nsent[c] + 1)
    BY <2>1, BytesFacts
  <2>3. wire[c] \o b \in Seq(Byte)
    BY <2>1, ConcatProperties
  <2>4. /\ nsent' = [nsent EXCEPT ![c] = nsent[c] + 1] /\ wire' = [wire EXCEPT ![c] = wire[c] \o b]
        /\ UNCHANGED <<peer, got, backlog, owner, channels, mq2s, mq2c, worker, aborted>>
    BY <1>2, <2>2 DEF Send, TypeInv
  <2>5. QED
    BY <2>1, <2>3, <2>4 DEF TypeInv, channels, worker
<1>3. ASSUME NEW c \in Clients, Close(c) PROVE TypeInv'
  BY <1>3 DEF Close, TypeInv, channels, worker
<1>4. CASE OnAccept
  <2>1. PICK fd \in Fds, c \in Clients, t \in Seq(Clients) :
          /\ owner' = [owner EXCEPT ![fd] = c] /\ chan' = chan \cup {fd}
          /\ inBuf' = [inBuf EXCEPT ![fd] = <<>>] /\ outBuf' = [outBuf EXCEPT ![fd] = <<>>]
          /\ events' = [events EXCEPT ![fd] = {"READ"}] /\ backlog' = t
    BY <1>4, AcceptFacts
  <2>2. <<>> \in Seq(Byte)
    OBVIOUS
  <2>3. UNCHANGED <<network, mq2s, mq2c, worker, aborted>>
    BY <1>4 DEF OnAccept
  <2>4. QED
    BY <2>1, <2>2, <2>3 DEF TypeInv, network, worker
<1>5. CASE OnAcceptError
  BY <1>5 DEF OnAcceptError, TypeInv, network, channels, worker
<1>6. CASE OnEventfd
  <2>1. PICK m \in Output, t \in Seq(Output), times \in [Fds -> Nat] :
          /\ mq2c' = t
          /\ outBuf' = [fd \in Fds |-> outBuf[fd] \o Copies(m.pack, times[fd])]
          /\ events' = [fd \in Fds |-> IF times[fd] > 0 THEN Interest(outBuf'[fd]) ELSE events[fd]]
    BY <1>6, EventfdFacts
  <2>2. PICK of \in SUBSET Clients, n \in Nat : m.pack = Bytes(of, n)
    BY DEF Output
  <2>3. \A k \in Nat : Copies(m.pack, k) \in Seq(Byte)
    BY <2>2, CopiesFacts
  <2>4. \A fd \in Fds : outBuf[fd] \in Seq(Byte) /\ Copies(m.pack, times[fd]) \in Seq(Byte)
    BY <2>3 DEF TypeInv
  <2>5. outBuf' \in [Fds -> Seq(Byte)]
    <3>1. \A fd \in Fds : outBuf[fd] \o Copies(m.pack, times[fd]) \in Seq(Byte)
      BY <2>4, ConcatProperties
    <3>2. QED
      BY <2>1, <3>1
  <2>6. events' \in [Fds -> SUBSET {"READ", "WRITE"}]
    BY <2>1, InterestType DEF TypeInv
  <2>7. UNCHANGED <<network, backlog, owner, chan, inBuf, mq2s, worker, aborted>>
    BY <1>6 DEF OnEventfd
  <2>8. QED
    BY <2>1, <2>5, <2>6, <2>7 DEF TypeInv, network, worker
<1>7. ASSUME NEW fd \in Fds, OnRead(fd) PROVE TypeInv'
  <2>1. PICK front, rest, left \in Seq(Byte), p \in Seq(Message) : ReadOf(fd, front, rest, left, p)
    BY <1>7, ReadFacts
  <2>2. mq2s \o p \in Seq(Message)
    BY ConcatProperties DEF TypeInv
  <2>3. /\ wire' \in [Clients -> Seq(Byte)] /\ inBuf' \in [Fds -> Seq(Byte)] /\ mq2s' \in Seq(Message)
    BY <2>1, <2>2 DEF TypeInv, ReadOf
  <2>4. /\ events' = [events EXCEPT ![fd] = Interest(outBuf[fd])]
        /\ UNCHANGED <<peer, nsent, got, backlog, owner, chan, outBuf, mq2c, worker, aborted>>
    BY <1>7 DEF OnRead
  <2>5. events' \in [Fds -> SUBSET {"READ", "WRITE"}]
    BY <2>4, InterestType DEF TypeInv
  <2>6. QED
    BY <2>3, <2>4, <2>5 DEF TypeInv, worker
<1>8. ASSUME NEW fd \in Fds, OnReadEof(fd) \/ OnReadError(fd) PROVE TypeInv'
  <2>1. PICK m \in Message : m = CloseMessage(fd)
    BY <1>8, CloseFacts
  <2>2. Append(mq2s, m) \in Seq(Message)
    BY AppendProperties DEF TypeInv
  <2>3. <<>> \in Seq(Byte)
    OBVIOUS
  <2>4. /\ mq2s' = Append(mq2s, m) /\ owner' = [owner EXCEPT ![fd] = NoClient] /\ chan' = chan \ {fd}
        /\ inBuf' = [inBuf EXCEPT ![fd] = <<>>] /\ outBuf' = [outBuf EXCEPT ![fd] = <<>>]
        /\ events' = [events EXCEPT ![fd] = {}]
        /\ UNCHANGED <<nsent, got, backlog, mq2c, worker, aborted>>
    BY <1>8, <2>1, CloseFacts
  <2>5. /\ peer' \in {peer, [peer EXCEPT ![owner[fd]] = "closed"]}
        /\ wire' \in {wire, [wire EXCEPT ![owner[fd]] = <<>>]}
    BY <1>8, CloseFacts
  <2>6. peer' \in [Clients -> {"new", "open", "closed"}] /\ wire' \in [Clients -> Seq(Byte)]
    BY <2>3, <2>5 DEF TypeInv
  <2>7. QED
    BY <2>2, <2>3, <2>4, <2>6 DEF TypeInv, worker
<1>9. ASSUME NEW fd \in Fds, OnWrite(fd) PROVE TypeInv'
  <2>1. PICK f, left \in Seq(Byte) : WriteOf(fd, f, left)
    BY <1>9, WriteFacts
  <2>2. \A c \in Clients : got[c] \o f \in Seq(Byte)
    BY ConcatProperties DEF TypeInv
  <2>3. got' \in [Clients -> Seq(Byte)] /\ outBuf' \in [Fds -> Seq(Byte)]
    BY <2>1, <2>2 DEF TypeInv, WriteOf
  <2>4. /\ events' = [events EXCEPT ![fd] = Interest(outBuf'[fd])]
        /\ UNCHANGED <<peer, wire, nsent, backlog, owner, chan, inBuf, mq2s, mq2c, worker, aborted>>
    BY <1>9 DEF OnWrite
  <2>5. events' \in [Fds -> SUBSET {"READ", "WRITE"}]
    BY <2>4, InterestType DEF TypeInv
  <2>6. QED
    BY <2>3, <2>4, <2>5 DEF TypeInv, worker
<1>10. CASE HandlePack
  <2>1. PICK m \in Message, t \in Seq(Message) : m = Head(mq2s) /\ mq2s' = t
    BY <1>10, DispatchFacts DEF HandlePack
  <2>2. m.uniqid \in Fds /\ m.conn \in Clients /\ m.pack \in Seq(Byte)
    BY DEF Message
  <2>3. rcvd[m.conn] \in Seq(Seq(Byte))
    BY <2>2 DEF TypeInv
  <2>4. Append(rcvd[m.conn], m.pack) \in Seq(Seq(Byte))
    BY <2>2, <2>3, AppendProperties
  <2>5. /\ session' = [session EXCEPT ![m.uniqid] = m.conn]
        /\ rcvd' = [rcvd EXCEPT ![m.conn] = Append(rcvd[m.conn], m.pack)]
        /\ UNCHANGED <<network, backlog, owner, channels, mq2c, gone, nreply, aborted>>
    BY <1>10, <2>1, <2>2 DEF HandlePack, OnServer, TypeInv
  <2>6. QED
    BY <2>1, <2>2, <2>4, <2>5 DEF TypeInv, network, channels
<1>11. CASE HandleClose
  <2>1. PICK m \in Message, t \in Seq(Message) : m = Head(mq2s) /\ mq2s' = t
    BY <1>11, DispatchFacts DEF HandleClose
  <2>2. m.uniqid \in Fds /\ m.conn \in Clients
    BY DEF Message
  <2>3. /\ session' = [session EXCEPT ![m.uniqid] = NoClient] /\ gone' = gone \cup {m.conn}
        /\ UNCHANGED <<network, backlog, owner, channels, mq2c, rcvd, nreply, aborted>>
    BY <1>11, <2>1 DEF HandleClose, OnPyFdClosed
  <2>4. QED
    BY <2>1, <2>2, <2>3 DEF TypeInv, network, channels
<1>12. CASE Reply \/ BroadcastSome \/ BroadcastAll
  <2>1. PICK fds \in Seq(Fds), of \in SUBSET Clients : PushToSocket(fds, of)
    BY <1>12, PushFacts
  <2>2. nreply \in Nat /\ nreply + 1 \in Nat
    BY DEF TypeInv
  <2>3. PICK b : b = Bytes(of, nreply + 1)
    OBVIOUS
  <2>4. PICK m \in Output : m = [uniqids |-> fds, pack |-> b]
    BY <2>2, <2>3, OutputType
  <2>5. Append(mq2c, m) \in Seq(Output)
    BY AppendProperties DEF TypeInv
  <2>6. QED
    BY <2>1, <2>2, <2>3, <2>4, <2>5 DEF PushToSocket, TypeInv, network, channels
<1>13. CASE UNCHANGED vars
  BY <1>13 DEF vars, network, channels, worker, TypeInv
<1>14. QED
  BY <1>1, <1>2, <1>3, <1>4, <1>5, <1>6, <1>7, <1>8, <1>9, <1>10, <1>11, <1>12, <1>13
     DEF Next, SocketThread, Worker, Client

\* A client does not become fresh again, and one that is accepted was.
LEMMA FreshStep ==
  ASSUME TypeInv, OwnInv, [Next]_vars, NEW d \in Clients
  PROVE  Fresh(d)' => Fresh(d)
<1>1. ASSUME NEW c \in Clients, Connect(c) PROVE Fresh(d)' => Fresh(d)
  <2>1. /\ peer[c] = "new" /\ peer' = [peer EXCEPT ![c] = "open"]
        /\ backlog \in Seq(Clients) /\ backlog' = Append(backlog, c)
    BY <1>1 DEF Connect, TypeInv
  <2>2. /\ Len(backlog) \in Nat /\ Len(backlog') = Len(backlog) + 1
        /\ \A i \in 1..Len(backlog) : backlog'[i] = backlog[i]
        /\ backlog'[Len(backlog) + 1] = c
    BY <2>1, AppendProperties
  <2>3. CASE d = c
    BY <2>1, <2>3 DEF Fresh
  <2>4. CASE d # c
    <3>1. \A i \in 1..Len(backlog') : i \in 1..Len(backlog) \/ i = Len(backlog) + 1
      BY <2>2
    <3>2. peer'[d] = peer[d]
      BY <2>1, <2>4 DEF TypeInv
    <3>3. QED
      BY <2>2, <2>4, <3>1, <3>2 DEF Fresh
  <2>5. QED
    BY <2>3, <2>4
<1>2. CASE OnAccept
  <2>1. PICK t \in Seq(Clients) :
          /\ backlog' = t /\ Len(t) = Len(backlog) - 1
          /\ \A i \in 1..Len(t) : t[i] = backlog[i + 1]
    BY <1>2, AcceptFacts
  <2>2. \A i \in 1..Len(t) : i + 1 \in 1..Len(backlog)
    BY <2>1 DEF TypeInv
  <2>3. peer' = peer
    BY <1>2 DEF OnAccept, network
  <2>4. QED
    BY <2>1, <2>2, <2>3 DEF Fresh
<1>3. ASSUME NEW fd \in Fds, OnReadEof(fd) \/ OnReadError(fd) PROVE Fresh(d)' => Fresh(d)
  <2>1. backlog' = backlog /\ peer' \in {peer, [peer EXCEPT ![owner[fd]] = "closed"]}
    BY <1>3, CloseFacts
  <2>2. peer'[d] = "new" => peer[d] = "new"
    BY <2>1 DEF TypeInv
  <2>3. QED
    BY <2>1, <2>2 DEF Fresh
<1>4. ASSUME backlog' = backlog, peer'[d] = "new" => peer[d] = "new"
      PROVE  Fresh(d)' => Fresh(d)
  BY <1>4 DEF Fresh
<1>5. ASSUME NEW c \in Clients, Send(c) \/ Close(c) PROVE Fresh(d)' => Fresh(d)
  BY <1>4, <1>5 DEF Send, Close, TypeInv
<1>6. CASE OnAcceptError \/ OnEventfd
  BY <1>4, <1>6 DEF OnAcceptError, OnEventfd, network
<1>7. ASSUME NEW fd \in Fds, OnRead(fd) \/ OnWrite(fd) PROVE Fresh(d)' => Fresh(d)
  BY <1>4, <1>7 DEF OnRead, OnWrite
<1>8. CASE HandlePack \/ HandleClose
  BY <1>4, <1>8 DEF HandlePack, HandleClose, network
<1>9. CASE Reply \/ BroadcastSome \/ BroadcastAll
  BY <1>4, <1>9, PushFacts DEF PushToSocket, network
<1>10. CASE UNCHANGED vars
  BY <1>4, <1>10 DEF vars, network
<1>11. QED
  BY <1>1, <1>2, <1>3, <1>5, <1>6, <1>7, <1>8, <1>9, <1>10
     DEF Next, SocketThread, Worker, Client

\* A descriptor is one client's, and a client is accepted once.
LEMMA OwnStep == TypeInv /\ OwnInv /\ [Next]_vars => OwnInv'
<1> SUFFICES ASSUME TypeInv, OwnInv, [Next]_vars PROVE OwnInv'
  OBVIOUS
<1>0. \A d \in Clients : Fresh(d)' => Fresh(d)
  BY FreshStep
<1>1. ASSUME NEW c \in Clients, Connect(c) PROVE OwnInv'
  <2>1. /\ peer[c] = "new" /\ peer' = [peer EXCEPT ![c] = "open"]
        /\ chan' = chan /\ owner' = owner
    BY <1>1 DEF Connect, channels
  <2>2. /\ Len(backlog) \in Nat /\ Len(backlog') = Len(backlog) + 1
        /\ \A i \in 1..Len(backlog) : backlog'[i] = backlog[i]
        /\ backlog'[Len(backlog) + 1] = c
    BY <1>1, AppendProperties DEF Connect, TypeInv
  <2>3. \A d \in Clients : Fresh(d)' => Fresh(d)
    BY <1>0
  <2>4. \A fd \in chan : ~Fresh(owner[fd])'
    BY <2>1, <2>3, ChannelFacts DEF OwnInv
  <2>5. \A i \in 1..Len(backlog) : backlog[i] \in Clients /\ backlog[i] # c
    <3>1. \A i \in 1..Len(backlog) : backlog[i] \in Clients
      BY ElementOfSeq DEF TypeInv
    <3>2. QED
      BY <2>1, <3>1 DEF OwnInv
  <2>6. \A i, j \in 1..Len(backlog') : backlog'[i] = backlog'[j] => i = j
    <3>1. \A i \in 1..Len(backlog') : i \in 1..Len(backlog) \/ i = Len(backlog) + 1
      BY <2>2
    <3>2. QED
      BY <2>2, <2>5, <3>1 DEF OwnInv
  <2>7. \A i \in 1..Len(backlog') : peer'[backlog'[i]] # "new"
    <3>1. \A i \in 1..Len(backlog') : i \in 1..Len(backlog) \/ i = Len(backlog) + 1
      BY <2>2
    <3>2. QED
      BY <2>1, <2>2, <2>5, <3>1 DEF OwnInv, TypeInv
  <2>8. QED
    BY <2>1, <2>4, <2>6, <2>7 DEF OwnInv
<1>2. CASE OnAccept
  <2>1. PICK fd \in Fds, c \in Clients, t \in Seq(Clients) :
          /\ fd \notin chan /\ owner[fd] = NoClient
          /\ owner' = [owner EXCEPT ![fd] = c] /\ chan' = chan \cup {fd} /\ backlog' = t
          /\ Len(t) = Len(backlog) - 1 /\ \A i \in 1..Len(t) : t[i] = backlog[i + 1]
          /\ c = backlog[1] /\ backlog # <<>>
    BY <1>2, AcceptFacts
  <2>2. peer' = peer
    BY <1>2 DEF OnAccept, network
  <2>3. /\ Len(backlog) \in Nat /\ 1 \in 1..Len(backlog)
        /\ \A i \in 1..Len(t) : i + 1 \in 1..Len(backlog) /\ i + 1 # 1
        /\ \A i \in 1..Len(backlog) : i = 1 \/ \E k \in 1..Len(t) : i = k + 1
    <3>1. Len(backlog) \in Nat /\ Len(backlog) # 0
      BY <2>1 DEF TypeInv
    <3>2. 1 \in 1..Len(backlog) /\ \A i \in 1..Len(t) : i + 1 \in 1..Len(backlog) /\ i + 1 # 1
      BY <2>1, <3>1
    <3>3. ASSUME NEW i \in 1..Len(backlog), i # 1 PROVE \E k \in 1..Len(t) : i = k + 1
      <4>1. i - 1 \in 1..Len(t) /\ i = (i - 1) + 1
        BY <2>1, <3>1, <3>3
      <4>2. QED
        BY <4>1
    <3>4. QED
      BY <3>1, <3>2, <3>3
  <2>4. ~Fresh(c)'
    <3>1. peer[c] # "new" /\ \A k \in 1..Len(t) : t[k] # c
      BY <2>1, <2>3 DEF OwnInv
    <3>2. QED
      BY <2>1, <2>2, <3>1 DEF Fresh
  <2>5. \A d \in Clients : Fresh(d)' => Fresh(d)
    BY <1>0
  <2>6. Fresh(c)
    BY <2>1, <2>3 DEF Fresh
  <2>7. \A fe \in chan : owner'[fe] = owner[fe] /\ owner[fe] # c
    BY <2>1, <2>6, ChannelFacts DEF OwnInv, TypeInv
  <2>8. c # NoClient /\ owner'[fd] = c
    BY <2>1, ClientAssumption DEF TypeInv
  <2>9. chan' = {fe \in Fds : owner'[fe] # NoClient}
    BY <2>1, <2>8 DEF OwnInv, TypeInv
  <2>10. \A fe, ff \in chan' : owner'[fe] = owner'[ff] => fe = ff
    BY <2>1, <2>7, <2>8 DEF OwnInv
  <2>11. ASSUME NEW fe \in chan' PROVE ~Fresh(owner[fe])'
    <3>1. PICK d : d = owner'[fe]
      OBVIOUS
    <3>2. CASE fe = fd
      BY <2>4, <2>8, <3>1, <3>2 DEF Fresh
    <3>3. CASE fe # fd
      <4>1. d = owner[fe] /\ fe \in chan
        BY <2>1, <2>7, <3>1, <3>3
      <4>2. d \in Clients /\ ~Fresh(d)
        BY <4>1, ChannelFacts DEF OwnInv
      <4>3. ~Fresh(d)'
        BY <2>5, <4>2
      <4>4. QED
        BY <3>1, <4>3 DEF Fresh
    <3>4. QED
      BY <3>2, <3>3
  <2>12. /\ \A i, j \in 1..Len(t) : t[i] = t[j] => i = j
         /\ \A i \in 1..Len(t) : peer[t[i]] # "new"
    <3>1. ASSUME NEW i \in 1..Len(t), NEW j \in 1..Len(t), t[i] = t[j] PROVE i = j
      <4>1. i + 1 = j + 1
        BY <2>1, <2>3, <3>1 DEF OwnInv
      <4>2. QED
        BY <4>1
    <3>2. QED
      BY <2>1, <2>3, <3>1 DEF OwnInv
  <2>13. QED
    BY <2>1, <2>2, <2>9, <2>10, <2>11, <2>12 DEF OwnInv
<1>3. ASSUME NEW fd \in Fds, OnReadEof(fd) \/ OnReadError(fd) PROVE OwnInv'
  <2>1. /\ owner' = [owner EXCEPT ![fd] = NoClient] /\ chan' = chan \ {fd} /\ backlog' = backlog
        /\ peer' \in {peer, [peer EXCEPT ![owner[fd]] = "closed"]} /\ owner[fd] \in Clients
    BY <1>3, CloseFacts
  <2>2. \A d \in Clients : peer'[d] = "new" => peer[d] = "new"
    BY <2>1 DEF TypeInv
  <2>3. \A d \in Clients : Fresh(d)' => Fresh(d)
    BY <1>0
  <2>4. \A i \in 1..Len(backlog) : backlog[i] \in Clients
    BY ElementOfSeq DEF TypeInv
  <2>5. ASSUME NEW fe \in chan' PROVE ~Fresh(owner[fe])'
    <3>1. PICK d : d = owner'[fe]
      OBVIOUS
    <3>2. fe \in chan /\ d = owner[fe]
      BY <2>1, <3>1 DEF TypeInv
    <3>3. d \in Clients /\ ~Fresh(d)
      BY <3>2, ChannelFacts DEF OwnInv
    <3>4. ~Fresh(d)'
      BY <2>3, <3>3
    <3>5. QED
      BY <3>1, <3>4 DEF Fresh
  <2>6. chan' = {fe \in Fds : owner'[fe] # NoClient}
    BY <2>1 DEF OwnInv, TypeInv
  <2>7. \A fe, ff \in chan' : owner'[fe] = owner'[ff] => fe = ff
    BY <2>1 DEF OwnInv, TypeInv
  <2>8. QED
    BY <2>1, <2>2, <2>4, <2>5, <2>6, <2>7 DEF OwnInv
<1>4. ASSUME UNCHANGED <<chan, owner, backlog>>, \A c \in Clients : peer'[c] = "new" <=> peer[c] = "new"
      PROVE  OwnInv'
  <2>1. \A d \in Clients : Fresh(d)' => Fresh(d)
    BY <1>0
  <2>2. \A i \in 1..Len(backlog) : backlog[i] \in Clients
    BY ElementOfSeq DEF TypeInv
  <2>3. ASSUME NEW fd \in chan PROVE ~Fresh(owner[fd])'
    <3>1. PICK d : d = owner[fd] /\ d = owner'[fd]
      BY <1>4
    <3>2. d \in Clients /\ ~Fresh(d)
      BY <3>1, ChannelFacts DEF OwnInv
    <3>3. ~Fresh(d)'
      BY <2>1, <3>2
    <3>4. QED
      BY <3>1, <3>3 DEF Fresh
  <2>4. QED
    BY <1>4, <2>2, <2>3 DEF OwnInv
<1>5. ASSUME NEW c \in Clients, Send(c) \/ Close(c) PROVE OwnInv'
  BY <1>4, <1>5 DEF Send, Close, channels, TypeInv
<1>6. CASE OnAcceptError \/ OnEventfd
  BY <1>4, <1>6 DEF OnAcceptError, OnEventfd, channels, network
<1>7. ASSUME NEW fd \in Fds, OnRead(fd) \/ OnWrite(fd) PROVE OwnInv'
  BY <1>4, <1>7 DEF OnRead, OnWrite
<1>8. CASE HandlePack \/ HandleClose
  BY <1>4, <1>8 DEF HandlePack, HandleClose, channels, network
<1>9. CASE Reply \/ BroadcastSome \/ BroadcastAll
  BY <1>4, <1>9, PushFacts DEF PushToSocket, channels, network
<1>10. CASE UNCHANGED vars
  BY <1>4, <1>10 DEF vars, channels, network
<1>11. QED
  BY <1>1, <1>2, <1>3, <1>5, <1>6, <1>7, <1>8, <1>9, <1>10
     DEF Next, SocketThread, Worker, Client

-----------------------------------------------------------------------------
(***************************************************************************)
(* The worker's sessions.                                                  *)
(***************************************************************************)
LEMMA InitSession == Init => SessionInv
<1> SUFFICES ASSUME Init PROVE SessionInv
  OBVIOUS
<1>1. Msgs = {} /\ chan = {} /\ gone = {} /\ \A fd \in Fds : session[fd] = NoClient
  BY DEF Init, Msgs
<1>2. QED
  BY <1>1 DEF SessionInv, HomeInv, LifeInv, LastInv, BetweenInv

\* What is put at the end of mq2s: the messages before it stay where they are.
Pushed(fd) ==
  /\ \A i \in Msgs : i \in Msgs' /\ mq2s'[i] = mq2s[i]
  /\ \A i \in Msgs' : \/ i \in Msgs
                      \/ /\ mq2s'[i].conn = owner[fd] /\ mq2s'[i].uniqid = fd
                         /\ \A k \in Msgs : k < i

LEMMA SessionPush ==
  ASSUME TypeInv, OwnInv, SessionInv, NEW fd \in chan, Pushed(fd),
         UNCHANGED <<session, gone>>, \A d \in Clients : Fresh(d)' => Fresh(d),
         \/ /\ UNCHANGED <<owner, chan>>
            /\ \A i \in Msgs' : i \in Msgs \/ mq2s'[i].type = "PACK"
         \/ /\ owner' = [owner EXCEPT ![fd] = NoClient] /\ chan' = chan \ {fd}
            /\ \E k \in Msgs' : k \notin Msgs /\ Msgs' = Msgs \cup {k} /\ mq2s'[k].type = "CLOSE"
  PROVE  SessionInv'
<1>1. fd \in Fds /\ owner[fd] \in Clients /\ owner[fd] # NoClient
  BY ChannelFacts
<1>2. \A i \in Msgs : mq2s[i] \in Message
  BY ElementOfSeq DEF Msgs, TypeInv
<1>3. \A i \in Msgs : mq2s[i].conn \in Clients /\ mq2s[i].uniqid \in Fds
  BY <1>2 DEF Message
<1>4. \A i \in Msgs : i \in Msgs' /\ mq2s'[i] = mq2s[i]
  BY DEF Pushed
<1>5. \A i \in Msgs' : \/ i \in Msgs
                       \/ /\ mq2s'[i].conn = owner[fd] /\ mq2s'[i].uniqid = fd
                          /\ \A k \in Msgs : k < i
  BY DEF Pushed
<1>6. ASSUME NEW k, NEW c, CloseAt(k, c) PROVE CloseAt(k, c)'
  BY <1>4, <1>6 DEF CloseAt
<1>7. \A fe \in chan' : fe \in chan /\ owner'[fe] = owner[fe]
  BY DEF TypeInv
<1>8. Msgs \subseteq Int /\ Msgs' \subseteq Int
  BY DEF Msgs
<1>9. HomeInv'
  <2>1. \A i, j \in Msgs' : mq2s'[i].conn = mq2s'[j].conn => mq2s'[i].uniqid = mq2s'[j].uniqid
    BY <1>4, <1>5 DEF SessionInv, HomeInv
  <2>2. \A i \in Msgs', fe \in Fds : session[fe] = mq2s'[i].conn => mq2s'[i].uniqid = fe
    BY <1>4, <1>5 DEF SessionInv, HomeInv
  <2>3. \A i \in Msgs', fe \in chan : owner[fe] = mq2s'[i].conn => mq2s'[i].uniqid = fe
    BY <1>4, <1>5 DEF SessionInv, HomeInv, OwnInv
  <2>4. QED
    BY <1>7, <2>1, <2>2, <2>3 DEF SessionInv, HomeInv
<1>10. LifeInv'
  <2>1. ASSUME NEW i \in Msgs' PROVE mq2s'[i].conn \notin gone /\ ~Fresh(mq2s[i].conn)'
    <3>1. PICK d : d = mq2s'[i].conn
      OBVIOUS
    <3>2. d \in Clients /\ d \notin gone /\ ~Fresh(d)
      BY <1>1, <1>3, <1>4, <1>5, <3>1 DEF SessionInv, LifeInv, OwnInv
    <3>3. ~Fresh(d)'
      BY <3>2
    <3>4. QED
      BY <3>1, <3>2, <3>3 DEF Fresh
  <2>2. ASSUME NEW fe \in Fds, session[fe] # NoClient
        PROVE  session[fe] \notin gone /\ ~Fresh(session[fe])'
    <3>1. PICK d : d = session'[fe] /\ d = session[fe]
      OBVIOUS
    <3>2. d \in Clients /\ d \notin gone /\ ~Fresh(d)
      BY <2>2, <3>1 DEF SessionInv, LifeInv, TypeInv
    <3>3. ~Fresh(d)'
      BY <3>2
    <3>4. QED
      BY <3>1, <3>2, <3>3 DEF Fresh
  <2>3. \A c \in gone : ~Fresh(c)'
    BY DEF SessionInv, LifeInv, TypeInv
  <2>4. QED
    BY <1>7, <2>1, <2>2, <2>3 DEF SessionInv, LifeInv
<1>11. ASSUME NEW i \in Msgs', NEW j \in Msgs', i < j, mq2s'[i].uniqid = mq2s'[j].uniqid,
             mq2s'[i].conn # mq2s'[j].conn
      PROVE  \E k \in Msgs' : k < j /\ CloseAt(k, mq2s[i].conn)'
  <2>1. i \in Msgs
    BY <1>4, <1>5, <1>8, <1>11
  <2>2. PICK d : d = mq2s[i].conn /\ d = mq2s'[i].conn
    BY <1>4, <2>1
  <2>3. \E k \in Msgs : k < j /\ CloseAt(k, d)
    <3>1. CASE j \in Msgs
      BY <1>4, <1>11, <2>1, <2>2, <3>1 DEF SessionInv, BetweenInv
    <3>2. CASE j \notin Msgs
      BY <1>4, <1>5, <1>11, <2>1, <2>2, <3>2 DEF SessionInv, BetweenInv
    <3>3. QED
      BY <3>1, <3>2
  <2>4. \E k \in Msgs' : k < j /\ CloseAt(k, d)'
    BY <1>4, <1>6, <2>3
  <2>5. QED
    BY <2>2, <2>4 DEF CloseAt
<1>12. ASSUME NEW fe \in Fds, NEW j \in Msgs', mq2s'[j].uniqid = fe, session[fe] # NoClient,
             session[fe] # mq2s'[j].conn
      PROVE  \E k \in Msgs' : k < j /\ CloseAt(k, session[fe])'
  <2>1. PICK d : d = session[fe] /\ d = session'[fe]
    OBVIOUS
  <2>2. \E k \in Msgs : k < j /\ CloseAt(k, d)
    <3>1. CASE j \in Msgs
      BY <1>4, <1>12, <2>1, <3>1 DEF SessionInv, BetweenInv
    <3>2. CASE j \notin Msgs
      BY <1>4, <1>5, <1>12, <2>1, <3>2 DEF SessionInv, BetweenInv
    <3>3. QED
      BY <3>1, <3>2
  <2>3. \E k \in Msgs' : k < j /\ CloseAt(k, d)'
    BY <1>4, <1>6, <2>2
  <2>4. QED
    BY <2>1, <2>3 DEF CloseAt
<1>13. CASE UNCHANGED <<owner, chan>> /\ \A i \in Msgs' : i \in Msgs \/ mq2s'[i].type = "PACK"
  <2>1. LastInv'
    <3>1. ASSUME NEW i \in Msgs', NEW j \in Msgs', i < j, mq2s'[i].type = "CLOSE"
          PROVE  mq2s'[i].conn # mq2s'[j].conn
      <4>1. i \in Msgs /\ mq2s'[i] = mq2s[i]
        BY <1>4, <1>13, <3>1
      <4>2. QED
        BY <1>4, <1>5, <3>1, <4>1 DEF SessionInv, LastInv
    <3>2. ASSUME NEW i \in Msgs', NEW fe \in chan', mq2s'[i].type = "CLOSE"
          PROVE  mq2s'[i].conn # owner'[fe]
      BY <1>4, <1>13, <3>2 DEF SessionInv, LastInv
    <3>3. QED
      BY <3>1, <3>2 DEF LastInv
  <2>2. BetweenInv'
    <3>1. ASSUME NEW i \in Msgs', mq2s'[i].conn # owner'[mq2s'[i].uniqid]
          PROVE  \E k \in Msgs' : CloseAt(k, mq2s[i].conn)'
      <4>1. i \in Msgs /\ mq2s'[i] = mq2s[i]
        BY <1>4, <1>5, <1>13, <3>1
      <4>2. PICK d : d = mq2s[i].conn /\ d = mq2s'[i].conn
        BY <4>1
      <4>3. PICK k \in Msgs : CloseAt(k, d)
        BY <1>13, <3>1, <4>1, <4>2 DEF SessionInv, BetweenInv
      <4>4. k \in Msgs' /\ CloseAt(k, d)'
        BY <1>4, <1>6, <4>3
      <4>5. QED
        BY <4>2, <4>4 DEF CloseAt
    <3>2. ASSUME NEW fe \in Fds, session[fe] # NoClient, session[fe] # owner'[fe]
          PROVE  \E k \in Msgs' : CloseAt(k, session[fe])'
      <4>1. PICK d : d = session[fe] /\ d = session'[fe]
        OBVIOUS
      <4>2. PICK k \in Msgs : CloseAt(k, d)
        BY <1>13, <3>2, <4>1 DEF SessionInv, BetweenInv
      <4>3. k \in Msgs' /\ CloseAt(k, d)'
        BY <1>4, <1>6, <4>2
      <4>4. QED
        BY <4>1, <4>3 DEF CloseAt
    <3>3. QED
      BY <1>11, <1>12, <3>1, <3>2 DEF BetweenInv
  <2>3. QED
    BY <1>9, <1>10, <2>1, <2>2 DEF SessionInv
<1>14. CASE /\ owner' = [owner EXCEPT ![fd] = NoClient] /\ chan' = chan \ {fd}
            /\ \E k \in Msgs' : k \notin Msgs /\ Msgs' = Msgs \cup {k} /\ mq2s'[k].type = "CLOSE"
  <2>0. PICK l \in Msgs' : /\ l \notin Msgs /\ Msgs' = Msgs \cup {l} /\ mq2s'[l].type = "CLOSE"
                           /\ mq2s'[l].conn = owner[fd] /\ mq2s'[l].uniqid = fd
                           /\ \A k \in Msgs : k < l
    BY <1>5, <1>14
  <2>1. LastInv'
    <3>1. ASSUME NEW i \in Msgs', NEW j \in Msgs', i < j, mq2s'[i].type = "CLOSE"
          PROVE  mq2s'[i].conn # mq2s'[j].conn
      <4>1. i \in Msgs /\ mq2s'[i] = mq2s[i]
        BY <1>4, <1>8, <2>0, <3>1
      <4>2. QED
        BY <1>4, <1>5, <3>1, <4>1 DEF SessionInv, LastInv
    <3>2. ASSUME NEW i \in Msgs', NEW fe \in chan', mq2s'[i].type = "CLOSE"
          PROVE  mq2s'[i].conn # owner'[fe]
      BY <1>4, <1>5, <1>7, <1>14, <3>2 DEF SessionInv, LastInv, OwnInv
    <3>3. QED
      BY <3>1, <3>2 DEF LastInv
  <2>2. BetweenInv'
    <3>1. ASSUME NEW i \in Msgs', mq2s'[i].conn # owner'[mq2s'[i].uniqid]
          PROVE  \E k \in Msgs' : CloseAt(k, mq2s[i].conn)'
      <4>1. PICK d : d = mq2s'[i].conn
        OBVIOUS
      <4>2. CASE d = owner[fd]
        <5>1. CloseAt(l, d)'
          BY <2>0, <4>2 DEF CloseAt
        <5>2. QED
          BY <4>1, <5>1 DEF CloseAt
      <4>3. CASE d # owner[fd]
        <5>1. i \in Msgs /\ mq2s'[i] = mq2s[i]
          BY <1>4, <1>5, <4>1, <4>3
        <5>2. d # owner[mq2s[i].uniqid]
          BY <1>3, <1>14, <3>1, <4>1, <4>3, <5>1 DEF TypeInv
        <5>3. PICK k \in Msgs : CloseAt(k, d)
          BY <4>1, <5>1, <5>2 DEF SessionInv, BetweenInv
        <5>4. k \in Msgs' /\ CloseAt(k, d)'
          BY <1>4, <1>6, <5>3
        <5>5. QED
          BY <4>1, <5>4 DEF CloseAt
      <4>4. QED
        BY <4>2, <4>3
    <3>2. ASSUME NEW fe \in Fds, session[fe] # NoClient, session[fe] # owner'[fe]
          PROVE  \E k \in Msgs' : CloseAt(k, session[fe])'
      <4>1. PICK d : d = session[fe] /\ d = session'[fe]
        OBVIOUS
      <4>2. CASE d = owner[fd]
        <5>1. CloseAt(l, d)'
          BY <2>0, <4>2 DEF CloseAt
        <5>2. QED
          BY <4>1, <5>1 DEF CloseAt
      <4>3. CASE d # owner[fd]
        <5>1. d # owner[fe]
          BY <1>14, <3>2, <4>1, <4>3 DEF TypeInv
        <5>2. PICK k \in Msgs : CloseAt(k, d)
          BY <3>2, <4>1, <5>1 DEF SessionInv, BetweenInv
        <5>3. k \in Msgs' /\ CloseAt(k, d)'
          BY <1>4, <1>6, <5>2
        <5>4. QED
          BY <4>1, <5>3 DEF CloseAt
      <4>4. QED
        BY <4>2, <4>3
    <3>3. QED
      BY <1>11, <1>12, <3>1, <3>2 DEF BetweenInv
  <2>3. QED
    BY <1>9, <1>10, <2>1, <2>2 DEF SessionInv
<1>15. QED
  BY <1>13, <1>14

\* A step that leaves messages, sessions and owners alone.
LEMMA SessionQuiet ==
  ASSUME TypeInv, OwnInv, SessionInv, UNCHANGED <<mq2s, session, gone, owner, chan>>,
         \A d \in Clients : Fresh(d)' => Fresh(d)
  PROVE  SessionInv'
<1>1. \A i \in Msgs : mq2s[i] \in Message
  BY ElementOfSeq DEF Msgs, TypeInv
<1>2. \A i \in Msgs : mq2s[i].conn \in Clients
  BY <1>1 DEF Message
<1>3. Msgs' = Msgs
  BY DEF Msgs
<1>4. HomeInv' /\ LastInv'
  BY <1>3 DEF SessionInv, HomeInv, LastInv
<1>5. BetweenInv'
  BY <1>3 DEF SessionInv, BetweenInv, CloseAt
<1>6. ASSUME NEW i \in Msgs PROVE ~Fresh(mq2s[i].conn)'
  <2>1. PICK d : d = mq2s[i].conn /\ d = mq2s'[i].conn
    OBVIOUS
  <2>2. ~Fresh(d)'
    BY <1>2, <2>1 DEF SessionInv, LifeInv
  <2>3. QED
    BY <2>1, <2>2 DEF Fresh
<1>7. ASSUME NEW fd \in Fds, session[fd] # NoClient PROVE ~Fresh(session[fd])'
  <2>1. PICK d : d = session[fd] /\ d = session'[fd]
    OBVIOUS
  <2>2. ~Fresh(d)'
    BY <1>7, <2>1 DEF SessionInv, LifeInv, TypeInv
  <2>3. QED
    BY <2>1, <2>2 DEF Fresh
<1>8. \A c \in gone : ~Fresh(c)'
  BY DEF SessionInv, LifeInv, TypeInv
<1>9. LifeInv'
  BY <1>3, <1>6, <1>7, <1>8 DEF SessionInv, LifeInv
<1>10. QED
  BY <1>4, <1>5, <1>9 DEF SessionInv

\* The client that is accepted is new to the worker.
LEMMA SessionAccept ==
  ASSUME TypeInv, OwnInv, SessionInv, UNCHANGED <<mq2s, session, gone>>,
         NEW fd \in Fds, NEW c \in Clients, Fresh(c), fd \notin chan, owner[fd] = NoClient,
         owner' = [owner EXCEPT ![fd] = c], chan' = chan \cup {fd},
         \A d \in Clients : Fresh(d)' => Fresh(d)
  PROVE  SessionInv'
<1>1. \A i \in Msgs : mq2s[i] \in Message
  BY ElementOfSeq DEF Msgs, TypeInv
<1>2. \A i \in Msgs : mq2s[i].conn \in Clients /\ mq2s[i].uniqid \in Fds
  BY <1>1 DEF Message
<1>3. Msgs' = Msgs
  BY DEF Msgs
<1>4. /\ \A i \in Msgs : mq2s[i].conn # c /\ mq2s[i].conn # NoClient
      /\ \A fe \in Fds : session[fe] # c
      /\ c \notin gone /\ c # NoClient
  BY <1>2, ClientAssumption DEF SessionInv, LifeInv
<1>5. owner'[fd] = c /\ \A fe \in Fds : fe # fd => owner'[fe] = owner[fe]
  BY DEF TypeInv
<1>6. HomeInv'
  BY <1>3, <1>4, <1>5 DEF SessionInv, HomeInv, TypeInv
<1>7. LastInv'
  BY <1>3, <1>4, <1>5 DEF SessionInv, LastInv, TypeInv
<1>8. BetweenInv'
  <2>1. ASSUME NEW i \in Msgs, mq2s[i].conn # owner'[mq2s[i].uniqid]
        PROVE  \E k \in Msgs : CloseAt(k, mq2s[i].conn)
    <3>1. mq2s[i].conn # owner[mq2s[i].uniqid]
      BY <1>2, <1>4, <1>5, <2>1
    <3>2. QED
      BY <3>1 DEF SessionInv, BetweenInv
  <2>2. ASSUME NEW fe \in Fds, session[fe] # NoClient, session[fe] # owner'[fe]
        PROVE  \E k \in Msgs : CloseAt(k, session[fe])
    <3>1. session[fe] # owner[fe]
      BY <1>4, <1>5, <2>2
    <3>2. QED
      BY <2>2, <3>1 DEF SessionInv, BetweenInv
  <2>3. QED
    BY <1>3, <2>1, <2>2 DEF SessionInv, BetweenInv, CloseAt
<1>9. ASSUME NEW i \in Msgs PROVE ~Fresh(mq2s[i].conn)'
  <2>1. PICK d : d = mq2s[i].conn /\ d = mq2s'[i].conn
    OBVIOUS
  <2>2. ~Fresh(d)'
    BY <1>2, <2>1 DEF SessionInv, LifeInv
  <2>3. QED
    BY <2>1, <2>2 DEF Fresh
<1>10. ASSUME NEW fe \in Fds, session[fe] # NoClient PROVE ~Fresh(session[fe])'
  <2>1. PICK d : d = session[fe] /\ d = session'[fe]
    OBVIOUS
  <2>2. ~Fresh(d)'
    BY <1>10, <2>1 DEF SessionInv, LifeInv, TypeInv
  <2>3. QED
    BY <2>1, <2>2 DEF Fresh
<1>11. \A d \in gone : ~Fresh(d)'
  BY DEF SessionInv, LifeInv, TypeInv
<1>12. LifeInv'
  BY <1>3, <1>4, <1>5, <1>9, <1>10, <1>11 DEF SessionInv, LifeInv, TypeInv
<1>13. QED
  BY <1>6, <1>7, <1>8, <1>12 DEF SessionInv

\* The worker takes the first message; the others move up.
Popped ==
  /\ \A i \in Msgs' : i + 1 \in Msgs /\ mq2s'[i] = mq2s[i + 1]
  /\ \A i \in Msgs : i # 1 => i - 1 \in Msgs' /\ mq2s'[i - 1] = mq2s[i]

LEMMA PopFacts ==
  ASSUME TypeInv, NEW type \in {"PACK", "CLOSE"}, MessageDispatch(type)
  PROVE  /\ Popped /\ 1 \in Msgs /\ mq2s[1].type = type /\ Head(mq2s) = mq2s[1]
         /\ mq2s[1] \in Message /\ mq2s[1].conn \in Clients /\ mq2s[1].uniqid \in Fds
<1>1. PICK m \in Message, t \in Seq(Message) :
        /\ m = Head(mq2s) /\ m = mq2s[1] /\ m.type = type /\ mq2s' = t /\ 1 \in Msgs
        /\ Len(mq2s) = Len(t) + 1 /\ \A i \in 1..Len(t) : t[i] = mq2s[i + 1]
  BY DispatchFacts
<1>2. Len(t) \in Nat /\ Msgs' = 1..Len(t) /\ Msgs = 1..(Len(t) + 1)
  BY <1>1 DEF Msgs
<1>3. \A i \in Msgs' : i + 1 \in Msgs /\ mq2s'[i] = mq2s[i + 1]
  BY <1>1, <1>2
<1>4. ASSUME NEW i \in Msgs, i # 1 PROVE i - 1 \in Msgs' /\ mq2s'[i - 1] = mq2s[i]
  <2>1. i - 1 \in Msgs' /\ (i - 1) + 1 = i
    BY <1>2, <1>4
  <2>2. QED
    BY <1>3, <2>1
<1>5. QED
  BY <1>1, <1>3, <1>4 DEF Popped, Message

LEMMA SessionPop ==
  ASSUME TypeInv, OwnInv, SessionInv, Popped, 1 \in Msgs, mq2s[1] \in Message,
         NEW c \in Clients, c = mq2s[1].conn, NEW u \in Fds, u = mq2s[1].uniqid,
         UNCHANGED <<owner, chan>>, \A d \in Clients : Fresh(d)' => Fresh(d),
         \/ /\ mq2s[1].type = "PACK"
            /\ session' = [session EXCEPT ![u] = c] /\ gone' = gone
         \/ /\ mq2s[1].type = "CLOSE"
            /\ session' = [session EXCEPT ![u] = NoClient] /\ gone' = gone \cup {c}
  PROVE  SessionInv' /\ (session[u] = NoClient \/ session[u] = c)
<1>1. \A i \in Msgs' : i + 1 \in Msgs /\ mq2s'[i] = mq2s[i + 1]
  BY DEF Popped
<1>2. \A i \in Msgs : i # 1 => i - 1 \in Msgs' /\ mq2s'[i - 1] = mq2s[i]
  BY DEF Popped
<1>3. Msgs \subseteq Nat /\ Msgs' \subseteq Nat /\ (\A i \in Msgs : 1 <= i) /\ \A i \in Msgs' : 1 <= i
  BY DEF Msgs
<1>4. \A i \in Msgs : mq2s[i] \in Message
  BY ElementOfSeq DEF Msgs, TypeInv
<1>5. \A i \in Msgs : mq2s[i].conn \in Clients /\ mq2s[i].conn # NoClient /\ mq2s[i].uniqid \in Fds
  BY <1>4, ClientAssumption DEF Message
<1>6. session[u] = NoClient \/ session[u] = c
  BY <1>3 DEF SessionInv, BetweenInv
<1>7. \A fe \in Fds : fe # u => session'[fe] = session[fe]
  BY DEF TypeInv
<1>8. c # NoClient /\ session'[u] \in {c, NoClient} /\ (session'[u] = c => mq2s[1].type = "PACK")
  BY <1>5 DEF TypeInv
<1>9. \A i \in Msgs' : 1 < i + 1 /\ i + 1 # 1
  BY <1>3
<1>10. mq2s[1].type = "CLOSE" => \A i \in Msgs' : mq2s[i + 1].conn # c
  BY <1>1, <1>9 DEF SessionInv, LastInv
\* A CLOSE that is not the first message is still there.
<1>11. ASSUME NEW k \in Msgs, NEW d, CloseAt(k, d), mq2s[1].type = "PACK" \/ d # c
       PROVE  k - 1 \in Msgs' /\ CloseAt(k - 1, d)'
  <2>1. k # 1
    BY <1>11 DEF CloseAt
  <2>2. k - 1 \in Msgs' /\ mq2s'[k - 1] = mq2s[k]
    BY <1>2, <2>1
  <2>3. PICK l : l = k - 1
    OBVIOUS
  <2>4. CloseAt(l, d)'
    BY <1>11, <2>2, <2>3 DEF CloseAt
  <2>5. QED
    BY <2>2, <2>3, <2>4 DEF CloseAt
<1>12. HomeInv'
  <2>1. \A i, j \in Msgs' : mq2s'[i].conn = mq2s'[j].conn => mq2s'[i].uniqid = mq2s'[j].uniqid
    BY <1>1 DEF SessionInv, HomeInv
  <2>2. ASSUME NEW i \in Msgs', NEW fe \in Fds, session'[fe] = mq2s'[i].conn
        PROVE  mq2s'[i].uniqid = fe
    <3>1. CASE fe = u
      <4>1. mq2s[i + 1].conn = mq2s[1].conn
        BY <1>1, <1>5, <1>8, <2>2, <3>1
      <4>2. QED
        BY <1>1, <3>1, <4>1 DEF SessionInv, HomeInv
    <3>2. CASE fe # u
      BY <1>1, <1>7, <2>2, <3>2 DEF SessionInv, HomeInv
    <3>3. QED
      BY <3>1, <3>2
  <2>3. \A i \in Msgs', fe \in chan : owner[fe] = mq2s'[i].conn => mq2s'[i].uniqid = fe
    BY <1>1 DEF SessionInv, HomeInv
  <2>4. ASSUME NEW fd \in chan, NEW fe \in Fds, session'[fe] = owner[fd] PROVE fe = fd
    <3>1. CASE fe = u
      <4>1. owner[fd] = mq2s[1].conn
        BY <1>8, <2>4, <3>1, ChannelFacts
      <4>2. QED
        BY <3>1, <4>1 DEF SessionInv, HomeInv
    <3>2. CASE fe # u
      BY <1>7, <2>4, <3>2 DEF SessionInv, HomeInv
    <3>3. QED
      BY <3>1, <3>2
  <2>5. QED
    BY <2>1, <2>2, <2>3, <2>4 DEF HomeInv
<1>13. LifeInv'
  <2>1. ASSUME NEW i \in Msgs' PROVE mq2s'[i].conn \notin gone' /\ ~Fresh(mq2s[i].conn)'
    <3>1. PICK d : d = mq2s'[i].conn /\ d = mq2s[i + 1].conn
      BY <1>1
    <3>2. d \in Clients /\ ~Fresh(d) /\ d \notin gone
      BY <1>1, <1>5, <3>1 DEF SessionInv, LifeInv
    <3>3. d \notin gone'
      BY <1>10, <3>1, <3>2
    <3>4. ~Fresh(d)'
      BY <3>2
    <3>5. QED
      BY <3>1, <3>3, <3>4 DEF Fresh
  <2>2. ASSUME NEW fe \in Fds, session'[fe] # NoClient
        PROVE  session'[fe] \notin gone' /\ ~Fresh(session[fe])'
    <3>1. PICK d : d = session'[fe]
      OBVIOUS
    <3>2. d \in Clients /\ ~Fresh(d) /\ d \notin gone'
      <4>1. CASE fe = u
        <5>1. d = c /\ mq2s[1].type = "PACK"
          BY <1>8, <2>2, <3>1, <4>1
        <5>2. QED
          BY <5>1 DEF SessionInv, LifeInv
      <4>2. CASE fe # u
        <5>1. d = session[fe]
          BY <1>7, <3>1, <4>2
        <5>2. d # c
          BY <4>2, <5>1 DEF SessionInv, HomeInv
        <5>3. QED
          BY <2>2, <3>1, <5>1, <5>2 DEF SessionInv, LifeInv, TypeInv
      <4>3. QED
        BY <4>1, <4>2
    <3>3. ~Fresh(d)'
      BY <3>2
    <3>4. QED
      BY <3>1, <3>2, <3>3 DEF Fresh
  <2>3. ASSUME NEW fd \in chan PROVE owner[fd] \notin gone'
    BY DEF SessionInv, LifeInv, LastInv
  <2>4. ASSUME NEW d \in gone' PROVE ~Fresh(d)'
    <3>1. d \in Clients /\ ~Fresh(d)
      BY DEF SessionInv, LifeInv, TypeInv
    <3>2. QED
      BY <3>1
  <2>5. QED
    BY <2>1, <2>2, <2>3, <2>4 DEF LifeInv
<1>14. LastInv'
  <2>1. ASSUME NEW i \in Msgs', NEW j \in Msgs', i < j, mq2s'[i].type = "CLOSE"
        PROVE  mq2s'[i].conn # mq2s'[j].conn
    <3>1. i + 1 < j + 1
      BY <1>3, <2>1
    <3>2. QED
      BY <1>1, <2>1, <3>1 DEF SessionInv, LastInv
  <2>2. \A i \in Msgs', fd \in chan : mq2s'[i].type = "CLOSE" => mq2s'[i].conn # owner[fd]
    BY <1>1 DEF SessionInv, LastInv
  <2>3. QED
    BY <2>1, <2>2 DEF LastInv
<1>15. BetweenInv'
  <2>1. ASSUME NEW i \in Msgs', NEW j \in Msgs', i < j, mq2s'[i].uniqid = mq2s'[j].uniqid,
               mq2s'[i].conn # mq2s'[j].conn
        PROVE  \E k \in Msgs' : k < j /\ CloseAt(k, mq2s[i].conn)'
    <3>1. PICK d : d = mq2s'[i].conn /\ d = mq2s[i + 1].conn
      BY <1>1
    <3>2. i + 1 < j + 1
      BY <1>3, <2>1
    <3>3. PICK k \in Msgs : k < j + 1 /\ CloseAt(k, d)
      BY <1>1, <2>1, <3>1, <3>2 DEF SessionInv, BetweenInv
    <3>4. mq2s[1].type = "PACK" \/ d # c
      BY <1>10, <3>1
    <3>5. PICK l : l = k - 1
      OBVIOUS
    <3>6. l \in Msgs' /\ CloseAt(l, d)' /\ l < j
      BY <1>3, <1>11, <3>3, <3>4, <3>5
    <3>7. CloseAt(l, mq2s[i].conn)'
      BY <3>1, <3>6 DEF CloseAt
    <3>8. QED
      BY <3>6, <3>7
  <2>2. ASSUME NEW fe \in Fds, NEW j \in Msgs', mq2s'[j].uniqid = fe, session'[fe] # NoClient,
               session'[fe] # mq2s'[j].conn
        PROVE  \E k \in Msgs' : k < j /\ CloseAt(k, session[fe])'
    <3>1. PICK d : d = session'[fe]
      OBVIOUS
    <3>2. PICK k \in Msgs : k < j + 1 /\ CloseAt(k, d) /\ (mq2s[1].type = "PACK" \/ d # c)
      <4>1. CASE fe = u
        <5>1. d = c /\ mq2s[1].type = "PACK"
          BY <1>8, <2>2, <3>1, <4>1
        <5>2. QED
          BY <1>1, <1>9, <2>2, <3>1, <4>1, <5>1 DEF SessionInv, BetweenInv
      <4>2. CASE fe # u
        <5>1. d = session[fe]
          BY <1>7, <3>1, <4>2
        <5>2. d # c
          BY <4>2, <5>1 DEF SessionInv, HomeInv
        <5>3. QED
          BY <1>1, <2>2, <3>1, <5>1, <5>2 DEF SessionInv, BetweenInv
      <4>3. QED
        BY <4>1, <4>2
    <3>3. PICK l : l = k - 1
      OBVIOUS
    <3>4. l \in Msgs' /\ CloseAt(l, d)' /\ l < j
      BY <1>3, <1>11, <3>2, <3>3
    <3>5. CloseAt(l, session[fe])'
      BY <3>1, <3>4 DEF CloseAt
    <3>6. QED
      BY <3>4, <3>5
  <2>3. ASSUME NEW i \in Msgs', mq2s'[i].conn # owner[mq2s'[i].uniqid]
        PROVE  \E k \in Msgs' : CloseAt(k, mq2s[i].conn)'
    <3>1. PICK d : d = mq2s'[i].conn /\ d = mq2s[i + 1].conn
      BY <1>1
    <3>2. PICK k \in Msgs : CloseAt(k, d)
      BY <1>1, <2>3, <3>1 DEF SessionInv, BetweenInv
    <3>3. mq2s[1].type = "PACK" \/ d # c
      BY <1>10, <3>1
    <3>4. PICK l : l = k - 1
      OBVIOUS
    <3>5. l \in Msgs' /\ CloseAt(l, d)'
      BY <1>11, <3>2, <3>3, <3>4
    <3>6. CloseAt(l, mq2s[i].conn)'
      BY <3>1, <3>5 DEF CloseAt
    <3>7. QED
      BY <3>5, <3>6
  <2>4. ASSUME NEW fe \in Fds, session'[fe] # NoClient, session'[fe] # owner[fe]
        PROVE  \E k \in Msgs' : CloseAt(k, session[fe])'
    <3>1. PICK d : d = session'[fe]
      OBVIOUS
    <3>2. PICK k \in Msgs : CloseAt(k, d) /\ (mq2s[1].type = "PACK" \/ d # c)
      <4>1. CASE fe = u
        <5>1. d = c /\ mq2s[1].type = "PACK"
          BY <1>8, <2>4, <3>1, <4>1
        <5>2. QED
          BY <2>4, <3>1, <4>1, <5>1 DEF SessionInv, BetweenInv
      <4>2. CASE fe # u
        <5>1. d = session[fe]
          BY <1>7, <3>1, <4>2
        <5>2. d # c
          BY <4>2, <5>1 DEF SessionInv, HomeInv
        <5>3. QED
          BY <2>4, <3>1, <5>1, <5>2 DEF SessionInv, BetweenInv
      <4>3. QED
        BY <4>1, <4>2
    <3>3. PICK l : l = k - 1
      OBVIOUS
    <3>4. l \in Msgs' /\ CloseAt(l, d)'
      BY <1>11, <3>2, <3>3
    <3>5. CloseAt(l, session[fe])'
      BY <3>1, <3>4 DEF CloseAt
    <3>6. QED
      BY <3>4, <3>5
  <2>5. QED
    BY <2>1, <2>2, <2>3, <2>4 DEF BetweenInv
<1>16. QED
  BY <1>6, <1>12, <1>13, <1>14, <1>15 DEF SessionInv

\* OnRead pushes packages, OnReadEof and OnReadError a CLOSE, for the client behind fd.
LEMMA ReadPushes ==
  ASSUME TypeInv, OwnInv, NEW fd \in Fds, OnRead(fd)
  PROVE  /\ fd \in chan /\ Pushed(fd) /\ UNCHANGED <<owner, chan, session, gone>>
         /\ \A i \in Msgs' : i \in Msgs \/ mq2s'[i].type = "PACK"
<1>1. fd \in chan /\ UNCHANGED <<owner, chan, session, gone>>
  BY ReadFacts DEF OnRead, worker
<1>2. PICK front, rest, left \in Seq(Byte), p \in Seq(Message) : ReadOf(fd, front, rest, left, p)
  BY ReadFacts
<1>3. PICK q \in Seq(Message) : q = mq2s
  BY DEF TypeInv
<1>4. mq2s' = q \o p /\ \A i \in 1..Len(p) : p[i].type = "PACK" /\ p[i].uniqid = fd /\ p[i].conn = owner[fd]
  BY <1>2, <1>3 DEF ReadOf
<1>5. /\ Len(q) \in Nat /\ Len(p) \in Nat /\ Len(mq2s') = Len(q) + Len(p)
      /\ \A i \in 1..(Len(q) + Len(p)) : mq2s'[i] = IF i <= Len(q) THEN q[i] ELSE p[i - Len(q)]
  BY <1>4, ConcatProperties
<1>6. Msgs = 1..Len(q) /\ Msgs' = 1..(Len(q) + Len(p))
  BY <1>3, <1>5 DEF Msgs
<1>7. \A i \in Msgs : i \in Msgs' /\ mq2s'[i] = mq2s[i]
  BY <1>3, <1>5, <1>6
<1>8. ASSUME NEW i \in Msgs', i \notin Msgs
      PROVE  /\ mq2s'[i].conn = owner[fd] /\ mq2s'[i].uniqid = fd /\ mq2s'[i].type = "PACK"
             /\ \A k \in Msgs : k < i
  <2>1. i > Len(q) /\ i - Len(q) \in 1..Len(p) /\ mq2s'[i] = p[i - Len(q)]
    BY <1>5, <1>6, <1>8
  <2>2. QED
    BY <1>4, <1>5, <1>6, <2>1
<1>9. QED
  BY <1>1, <1>7, <1>8 DEF Pushed

LEMMA ClosePushes ==
  ASSUME TypeInv, OwnInv, NEW fd \in Fds, OnReadEof(fd) \/ OnReadError(fd)
  PROVE  /\ fd \in chan /\ Pushed(fd) /\ UNCHANGED <<session, gone>>
         /\ owner' = [owner EXCEPT ![fd] = NoClient] /\ chan' = chan \ {fd}
         /\ \E k \in Msgs' : k \notin Msgs /\ Msgs' = Msgs \cup {k} /\ mq2s'[k].type = "CLOSE"
<1>1. PICK m \in Message : m = CloseMessage(fd)
  BY CloseFacts
<1>2. /\ fd \in chan /\ mq2s' = Append(mq2s, m) /\ UNCHANGED <<session, gone>>
      /\ m.type = "CLOSE" /\ m.uniqid = fd /\ m.conn = owner[fd]
      /\ owner' = [owner EXCEPT ![fd] = NoClient] /\ chan' = chan \ {fd}
  BY <1>1, CloseFacts DEF worker
<1>3. /\ Len(mq2s) \in Nat /\ Len(mq2s') = Len(mq2s) + 1
      /\ \A i \in 1..Len(mq2s) : mq2s'[i] = mq2s[i]
      /\ mq2s'[Len(mq2s) + 1] = m
  BY <1>2, AppendProperties DEF TypeInv
<1>4. PICK k : k = Len(mq2s) + 1
  OBVIOUS
<1>5. k \in Msgs' /\ k \notin Msgs /\ Msgs' = Msgs \cup {k} /\ mq2s'[k] = m /\ \A i \in Msgs : i < k
  BY <1>3, <1>4 DEF Msgs
<1>6. \A i \in Msgs : i \in Msgs' /\ mq2s'[i] = mq2s[i]
  BY <1>3, <1>5 DEF Msgs
<1>7. Pushed(fd)
  BY <1>2, <1>5, <1>6 DEF Pushed
<1>8. QED
  BY <1>2, <1>5, <1>7

\* What a step may do to the session at a uniqid.
ProtocolStep ==
  \A fd \in Fds :
    session'[fd] # session[fd] =>
      /\ session[fd] = NoClient \/ session'[fd] = NoClient
      /\ session'[fd] \notin gone

LEMMA SessionStep ==
  TypeInv /\ OwnInv /\ SessionInv /\ [Next]_vars => SessionInv' /\ ProtocolStep
<1> SUFFICES ASSUME TypeInv, OwnInv, SessionInv, [Next]_vars PROVE SessionInv' /\ ProtocolStep
  OBVIOUS
<1>1. \A d \in Clients : Fresh(d)' => Fresh(d)
  BY FreshStep
<1>2. session' = session => ProtocolStep
  BY DEF ProtocolStep
<1>3. ASSUME UNCHANGED <<mq2s, session, gone, owner, chan>> PROVE SessionInv' /\ ProtocolStep
  BY <1>1, <1>2, <1>3, SessionQuiet
<1>4. ASSUME NEW c \in Clients, Connect(c) \/ Send(c) \/ Close(c) PROVE SessionInv' /\ ProtocolStep
  BY <1>3, <1>4 DEF Connect, Send, Close, channels, worker
<1>5. CASE OnAcceptError \/ OnEventfd
  BY <1>3, <1>5 DEF OnAcceptError, OnEventfd, channels, worker
<1>6. CASE OnAccept
  <2>1. PICK fd \in Fds, c \in Clients :
          /\ fd \notin chan /\ owner[fd] = NoClient
          /\ owner' = [owner EXCEPT ![fd] = c] /\ chan' = chan \cup {fd}
          /\ backlog # <<>> /\ c = backlog[1]
    BY <1>6, AcceptFacts
  <2>2. 1 \in 1..Len(backlog)
    BY <2>1 DEF TypeInv
  <2>3. Fresh(c)
    BY <2>1, <2>2 DEF Fresh
  <2>4. UNCHANGED <<mq2s, session, gone>>
    BY <1>6 DEF OnAccept, worker
  <2>5. QED
    BY <1>1, <1>2, <2>1, <2>3, <2>4, SessionAccept
<1>7. ASSUME NEW fd \in Fds, OnRead(fd) PROVE SessionInv' /\ ProtocolStep
  BY <1>1, <1>2, <1>7, ReadPushes, SessionPush
<1>8. ASSUME NEW fd \in Fds, OnReadEof(fd) \/ OnReadError(fd) PROVE SessionInv' /\ ProtocolStep
  BY <1>1, <1>2, <1>8, ClosePushes, SessionPush
<1>9. ASSUME NEW fd \in Fds, OnWrite(fd) PROVE SessionInv' /\ ProtocolStep
  BY <1>3, <1>9 DEF OnWrite, worker
<1>10. CASE HandlePack
  <2>1. /\ Popped /\ 1 \in Msgs /\ mq2s[1].type = "PACK" /\ Head(mq2s) = mq2s[1]
        /\ mq2s[1] \in Message /\ mq2s[1].conn \in Clients /\ mq2s[1].uniqid \in Fds
    BY <1>10, PopFacts DEF HandlePack
  <2>2. PICK c \in Clients, u \in Fds : c = mq2s[1].conn /\ u = mq2s[1].uniqid
    BY <2>1
  <2>3. session' = [session EXCEPT ![u] = c] /\ UNCHANGED <<gone, owner, chan>>
    BY <1>10, <2>1, <2>2 DEF HandlePack, OnServer, channels
  <2>4. SessionInv' /\ (session[u] = NoClient \/ session[u] = c)
    BY <1>1, <2>1, <2>2, <2>3, SessionPop
  <2>5. c \notin gone
    BY <2>1, <2>2 DEF SessionInv, LifeInv
  <2>6. QED
    BY <2>3, <2>4, <2>5 DEF ProtocolStep, TypeInv
<1>11. CASE HandleClose
  <2>1. /\ Popped /\ 1 \in Msgs /\ mq2s[1].type = "CLOSE" /\ Head(mq2s) = mq2s[1]
        /\ mq2s[1] \in Message /\ mq2s[1].conn \in Clients /\ mq2s[1].uniqid \in Fds
    BY <1>11, PopFacts DEF HandleClose
  <2>2. PICK c \in Clients, u \in Fds : c = mq2s[1].conn /\ u = mq2s[1].uniqid
    BY <2>1
  <2>3. /\ session' = [session EXCEPT ![u] = NoClient] /\ gone' = gone \cup {c}
        /\ UNCHANGED <<owner, chan>>
    BY <1>11, <2>1, <2>2 DEF HandleClose, OnPyFdClosed, channels
  <2>4. SessionInv'
    BY <1>1, <2>1, <2>2, <2>3, SessionPop
  <2>5. NoClient \notin gone
    BY ClientAssumption DEF TypeInv
  <2>6. QED
    BY <2>3, <2>4, <2>5 DEF ProtocolStep, TypeInv
<1>12. CASE Reply \/ BroadcastSome \/ BroadcastAll
  BY <1>3, <1>12, PushFacts DEF PushToSocket, channels
<1>13. CASE UNCHANGED vars
  BY <1>3, <1>13 DEF vars, channels, worker
<1>14. QED
  BY <1>4, <1>5, <1>6, <1>7, <1>8, <1>9, <1>10, <1>11, <1>12, <1>13
     DEF Next, SocketThread, Worker, Client

-----------------------------------------------------------------------------
(***************************************************************************)
(* The way in.                                                             *)
(***************************************************************************)
\* Send puts one more package at the end of a stream.
LEMMA StreamGrows ==
  ASSUME NEW c \in Clients, NEW F \in Nat, NEW N \in Nat, NEW s \in Seq(Byte), Stream(c, F, N, s)
  PROVE  Stream(c, F, N + 1, s \o Bytes({c}, N + 1))
<1>1. PICK b \in Seq(Byte) :
        /\ b = Bytes({c}, N + 1) /\ Len(b) = 2
        /\ b[1] = [of |-> {c}, n |-> N + 1, copy |-> 1, part |-> 1] /\ b[2] = [of |-> {c}, n |-> N + 1, copy |-> 1, part |-> 2]
  <2>1. {c} \in SUBSET Clients /\ N + 1 \in Nat
    OBVIOUS
  <2>2. QED
    BY <2>1, BytesFacts
<1>2. PICK t : t = s \o b
  OBVIOUS
<1>3. /\ Len(s) \in Nat /\ Len(t) = Len(s) + 2
      /\ \A i \in 1..Len(s) : t[i] = s[i]
      /\ t[Len(s) + 1] = b[1] /\ t[Len(s) + 2] = b[2]
  <2>1. /\ Len(s) \in Nat /\ Len(t) = Len(s) + Len(b) /\ (\A i \in 1..Len(s) : t[i] = s[i])
        /\ \A i \in 1..Len(b) : t[Len(s) + i] = b[i]
    BY <1>2, JoinFacts
  <2>2. 1 \in 1..Len(b) /\ 2 \in 1..Len(b)
    BY <1>1
  <2>3. QED
    BY <1>1, <2>1, <2>2
<1>4. F <= N /\ Len(s) = 2 * (N - F)
  BY DEF Stream
<1>5. PICK M \in Nat : M = N + 1
  OBVIOUS
<1>6. ASSUME NEW k \in 1..(M - F)
      PROVE  /\ t[2 * k - 1] = [of |-> {c}, n |-> F + k, copy |-> 1, part |-> 1]
             /\ t[2 * k] = [of |-> {c}, n |-> F + k, copy |-> 1, part |-> 2]
  <2>1. CASE k <= N - F
    <3>1. k \in 1..(N - F) /\ 2 * k - 1 \in 1..Len(s) /\ 2 * k \in 1..Len(s)
      BY <1>4, <1>5, <2>1
    <3>2. t[2 * k - 1] = s[2 * k - 1] /\ t[2 * k] = s[2 * k]
      BY <1>3, <3>1
    <3>3. QED
      BY <3>1, <3>2 DEF Stream
  <2>2. CASE k > N - F
    <3>1. F + k = N + 1 /\ 2 * k - 1 = Len(s) + 1 /\ 2 * k = Len(s) + 2
      BY <1>4, <1>5, <2>2
    <3>2. QED
      BY <1>1, <1>3, <3>1
  <2>3. QED
    BY <1>4, <1>5, <2>1, <2>2
<1>7. F <= M /\ Len(t) = 2 * (M - F)
  BY <1>3, <1>4, <1>5
<1>8. Stream(c, F, M, t)
  BY <1>6, <1>7 DEF Stream
<1>9. QED
  BY <1>1, <1>2, <1>5, <1>8

\* The bytes s are the h packages of c after number F, as OnRead cuts them.
Shed(c, F, h, s) == \A k \in 1..h : <<s[2 * k - 1], s[2 * k]>> = Bytes({c}, F + k)

\* Whole packages leave the front of a stream.
LEMMA StreamShrinks ==
  ASSUME NEW c \in Clients, NEW F \in Nat, NEW N \in Nat, NEW h \in Nat,
         NEW front \in Seq(Byte), NEW s \in Seq(Byte), Len(front) = 2 * h,
         Stream(c, F, N, front \o s)
  PROVE  Stream(c, F + h, N, s) /\ Shed(c, F, h, front)
<1>1. PICK t : t = front \o s
  OBVIOUS
<1>2. /\ Len(s) \in Nat /\ Len(t) = 2 * h + Len(s)
      /\ \A i \in 1..(2 * h) : t[i] = front[i]
      /\ \A i \in 1..Len(s) : t[2 * h + i] = s[i]
  BY <1>1, JoinFacts
<1>3. /\ F <= N /\ Len(t) = 2 * (N - F)
      /\ \A k \in 1..(N - F) : /\ t[2 * k - 1] = [of |-> {c}, n |-> F + k, copy |-> 1, part |-> 1]
                               /\ t[2 * k] = [of |-> {c}, n |-> F + k, copy |-> 1, part |-> 2]
  BY <1>1 DEF Stream
<1>4. F + h <= N /\ Len(s) = 2 * (N - (F + h))
  BY <1>2, <1>3
<1>5. ASSUME NEW k \in 1..h PROVE <<front[2 * k - 1], front[2 * k]>> = Bytes({c}, F + k)
  <2>1. k \in 1..(N - F) /\ 2 * k - 1 \in 1..(2 * h) /\ 2 * k \in 1..(2 * h)
    BY <1>4
  <2>2. t[2 * k - 1] = front[2 * k - 1] /\ t[2 * k] = front[2 * k]
    BY <1>2, <2>1
  <2>3. QED
    BY <1>3, <2>1, <2>2 DEF Bytes
<1>6. ASSUME NEW k \in 1..(N - (F + h))
      PROVE  /\ s[2 * k - 1] = [of |-> {c}, n |-> F + h + k, copy |-> 1, part |-> 1]
             /\ s[2 * k] = [of |-> {c}, n |-> F + h + k, copy |-> 1, part |-> 2]
  <2>1. PICK m : m = h + k
    OBVIOUS
  <2>2. /\ m \in 1..(N - F) /\ F + m = F + h + k
        /\ 2 * k - 1 \in 1..Len(s) /\ 2 * k \in 1..Len(s)
        /\ 2 * h + (2 * k - 1) = 2 * m - 1 /\ 2 * h + 2 * k = 2 * m
    BY <1>2, <1>4, <2>1
  <2>3. t[2 * h + (2 * k - 1)] = s[2 * k - 1] /\ t[2 * h + 2 * k] = s[2 * k]
    BY <1>2, <2>2
  <2>4. t[2 * m - 1] = s[2 * k - 1] /\ t[2 * m] = s[2 * k]
    BY <2>2, <2>3
  <2>5. QED
    BY <1>3, <2>2, <2>4
<1>7. QED
  BY <1>4, <1>5, <1>6 DEF Stream, Shed

\* The packages of c that wait in mq2s stay the same.
SamePacks(c) ==
  /\ \A i \in Msgs' : PackAt(i, c)' => \E j \in Msgs : PackAt(j, c) /\ mq2s[j].pack = mq2s'[i].pack
  /\ \A j \in Msgs : PackAt(j, c) => \E i \in Msgs' : PackAt(i, c)' /\ mq2s'[i].pack = mq2s[j].pack

LEMMA FlowQuiet ==
  ASSUME NEW c \in Clients, NEW F \in Nat, Flow(c, F), SamePacks(c),
         rcvd'[c] = rcvd[c], nsent'[c] = nsent[c],
         Fresh(c)' => Fresh(c) /\ wire'[c] = wire[c],
         \A fd \in chan' : owner'[fd] = c =>
           fd \in chan /\ owner[fd] = c /\ inBuf'[fd] = inBuf[fd] /\ wire'[c] = wire[c]
  PROVE  Flow(c, F)'
<1>1. Len(rcvd'[c]) <= F /\ \A i \in 1..Len(rcvd'[c]) : rcvd'[c][i] = Bytes({c}, i)
  BY DEF Flow
<1>2. ASSUME NEW i \in Msgs', PackAt(i, c)'
      PROVE  \E k \in (Len(rcvd'[c]) + 1)..F : mq2s'[i].pack = Bytes({c}, k)
  <2>1. PICK j \in Msgs : PackAt(j, c) /\ mq2s[j].pack = mq2s'[i].pack
    BY <1>2 DEF SamePacks
  <2>2. PICK k \in (Len(rcvd[c]) + 1)..F : mq2s[j].pack = Bytes({c}, k)
    BY <2>1 DEF Flow
  <2>3. QED
    BY <2>1, <2>2
<1>3. ASSUME NEW k \in (Len(rcvd'[c]) + 1)..F
      PROVE  \E i \in Msgs' : PackAt(i, c)' /\ mq2s'[i].pack = Bytes({c}, k)
  <2>1. PICK j \in Msgs : PackAt(j, c) /\ mq2s[j].pack = Bytes({c}, k)
    BY DEF Flow
  <2>2. QED
    BY <2>1 DEF SamePacks
<1>4. Fresh(c)' => F = 0 /\ Stream(c, 0, nsent'[c], wire'[c])
  BY DEF Flow
<1>5. \A fd \in chan' : owner'[fd] = c => Stream(c, F, nsent'[c], inBuf'[fd] \o wire'[c])
  BY DEF Flow
<1>6. QED
  BY <1>1, <1>2, <1>3, <1>4, <1>5 DEF Flow

LEMMA InitInbound == Init => InboundInv
<1> SUFFICES ASSUME Init PROVE InboundInv
  OBVIOUS
<1>1. Msgs = {} /\ chan = {} /\ Len(<<>>) = 0
  BY DEF Init, Msgs
<1>2. PacksInOrder
  BY <1>1 DEF PacksInOrder
<1>3. ASSUME NEW c \in Clients PROVE Flow(c, 0)
  <2>1. rcvd[c] = <<>> /\ wire[c] = <<>> /\ nsent[c] = 0
    BY DEF Init
  <2>2. Stream(c, 0, nsent[c], wire[c])
    BY <1>1, <2>1 DEF Stream
  <2>3. QED
    BY <1>1, <2>1, <2>2 DEF Flow
<1>4. \A c \in Clients : \E F \in Nat : Flow(c, F)
  BY <1>3
<1>5. QED
  BY <1>2, <1>4 DEF InboundInv

\* A step that leaves the messages to the worker, and what clients send, alone.
LEMMA InboundQuiet ==
  ASSUME TypeInv, OwnInv, InboundInv, UNCHANGED <<mq2s, rcvd, nsent, wire>>,
         \A d \in Clients : Fresh(d)' => Fresh(d),
         \A fd \in chan' : fd \in chan /\ owner'[fd] = owner[fd] /\ inBuf'[fd] = inBuf[fd]
  PROVE  InboundInv'
<1>1. Msgs' = Msgs
  BY DEF Msgs
<1>2. PacksInOrder'
  BY <1>1 DEF InboundInv, PacksInOrder
<1>3. ASSUME NEW c \in Clients PROVE \E F \in Nat : Flow(c, F)'
  <2>1. PICK F \in Nat : Flow(c, F)
    BY DEF InboundInv
  <2>2. SamePacks(c)
    BY <1>1 DEF SamePacks, PackAt
  <2>3. Flow(c, F)'
    BY <2>1, <2>2, FlowQuiet
  <2>4. QED
    BY <2>3
<1>4. QED
  BY <1>2, <1>3 DEF InboundInv

LEMMA InboundSend ==
  ASSUME TypeInv, OwnInv, InboundInv, NEW c \in Clients, Send(c),
         \A d \in Clients : Fresh(d)' => Fresh(d)
  PROVE  InboundInv'
<1>1. PICK b \in Seq(Byte), N \in Nat : N = nsent[c] /\ b = Bytes({c}, N + 1)
  <2>1. nsent[c] \in Nat /\ nsent[c] + 1 \in Nat /\ {c} \in SUBSET Clients
    BY DEF TypeInv
  <2>2. QED
    BY <2>1, BytesFacts
<1>2. /\ nsent' = [nsent EXCEPT ![c] = N + 1] /\ wire' = [wire EXCEPT ![c] = wire[c] \o b]
      /\ UNCHANGED <<owner, chan, inBuf, mq2s, rcvd>>
  BY <1>1 DEF Send, channels, worker, TypeInv
<1>3. Msgs' = Msgs
  BY <1>2 DEF Msgs
<1>4. PacksInOrder'
  BY <1>2, <1>3 DEF InboundInv, PacksInOrder
<1>5. ASSUME NEW d \in Clients PROVE \E F \in Nat : Flow(d, F)'
  <2>1. PICK F \in Nat : Flow(d, F)
    BY DEF InboundInv
  <2>2. SamePacks(d)
    BY <1>2, <1>3 DEF SamePacks, PackAt
  <2>3. CASE d # c
    <3>1. nsent'[d] = nsent[d] /\ wire'[d] = wire[d]
      BY <1>2, <2>3 DEF TypeInv
    <3>2. Flow(d, F)'
      BY <1>2, <2>1, <2>2, <3>1, FlowQuiet
    <3>3. QED
      BY <3>2
  <2>4. CASE d = c
    <3>1. nsent'[d] = N + 1 /\ wire'[d] = wire[d] \o b /\ wire[d] \in Seq(Byte)
      BY <1>2, <2>4 DEF TypeInv
    <3>2. Fresh(d)' => F = 0 /\ Stream(d, 0, nsent'[d], wire'[d])
      BY <1>1, <2>1, <2>4, <3>1, StreamGrows DEF Flow
    <3>3. ASSUME NEW fd \in chan, owner[fd] = d
          PROVE  Stream(d, F, nsent'[d], inBuf'[fd] \o wire'[d])
      <4>1. PICK h \in Seq(Byte), w \in Seq(Byte) : h = inBuf[fd] /\ w = wire[d]
        BY DEF TypeInv, OwnInv
      <4>2. Stream(d, F, N, h \o w) /\ h \o w \in Seq(Byte)
        BY <1>1, <2>1, <2>4, <3>3, <4>1, ConcatProperties DEF Flow
      <4>3. Stream(d, F, N + 1, (h \o w) \o b)
        BY <1>1, <2>4, <4>2, StreamGrows
      <4>4. (h \o w) \o b = h \o (w \o b)
        BY Regroup, Zenon
      <4>5. QED
        BY <1>2, <3>1, <4>1, <4>3, <4>4
    <3>4. /\ Len(rcvd'[d]) <= F /\ \A i \in 1..Len(rcvd'[d]) : rcvd'[d][i] = Bytes({d}, i)
          /\ \A i \in Msgs' : PackAt(i, d)' =>
               \E k \in (Len(rcvd'[d]) + 1)..F : mq2s'[i].pack = Bytes({d}, k)
          /\ \A k \in (Len(rcvd'[d]) + 1)..F :
               \E i \in Msgs' : PackAt(i, d)' /\ mq2s'[i].pack = Bytes({d}, k)
      BY <1>2, <1>3, <2>1 DEF Flow, PackAt
    <3>5. Flow(d, F)'
      BY <1>2, <3>2, <3>3, <3>4 DEF Flow
    <3>6. QED
      BY <3>5
  <2>5. QED
    BY <2>3, <2>4
<1>6. QED
  BY <1>4, <1>5 DEF InboundInv

\* The buffer of a client that is accepted is empty: all it sent is on the wire.
LEMMA InboundAccept ==
  ASSUME TypeInv, OwnInv, InboundInv, OnAccept, \A d \in Clients : Fresh(d)' => Fresh(d)
  PROVE  InboundInv'
<1>1. PICK fd \in Fds, c \in Clients :
        /\ fd \notin chan /\ owner' = [owner EXCEPT ![fd] = c] /\ chan' = chan \cup {fd}
        /\ inBuf' = [inBuf EXCEPT ![fd] = <<>>] /\ backlog # <<>> /\ c = backlog[1]
  BY AcceptFacts
<1>2. UNCHANGED <<mq2s, rcvd, nsent, wire>>
  BY DEF OnAccept, network, worker
<1>3. 1 \in 1..Len(backlog)
  BY <1>1 DEF TypeInv
<1>4. Fresh(c)
  BY <1>1, <1>3 DEF Fresh
<1>5. Msgs' = Msgs
  BY <1>2 DEF Msgs
<1>6. PacksInOrder'
  BY <1>2, <1>5 DEF InboundInv, PacksInOrder
<1>7. /\ owner'[fd] = c /\ inBuf'[fd] = <<>>
      /\ \A fe \in chan : fe # fd /\ owner'[fe] = owner[fe] /\ inBuf'[fe] = inBuf[fe]
  BY <1>1 DEF TypeInv, OwnInv
<1>8. ASSUME NEW d \in Clients PROVE \E F \in Nat : Flow(d, F)'
  <2>1. PICK F \in Nat : Flow(d, F)
    BY DEF InboundInv
  <2>2. SamePacks(d)
    BY <1>2, <1>5 DEF SamePacks, PackAt
  <2>3. CASE d # c
    <3>1. Flow(d, F)'
      BY <1>1, <1>2, <1>7, <2>1, <2>2, <2>3, FlowQuiet
    <3>2. QED
      BY <3>1
  <2>4. CASE d = c
    <3>1. F = 0 /\ Stream(d, 0, nsent[d], wire[d])
      BY <1>4, <2>1, <2>4 DEF Flow
    <3>2. <<>> \o wire[d] = wire[d]
      BY ConcatEmptySeq DEF TypeInv
    <3>3. \A fe \in chan' : owner'[fe] = d => fe = fd
      BY <1>1, <1>4, <1>7, <2>4 DEF OwnInv
    <3>4. \A fe \in chan' : owner'[fe] = d => Stream(d, F, nsent'[d], inBuf'[fe] \o wire'[d])
      BY <1>2, <1>7, <3>1, <3>2, <3>3
    <3>5. Fresh(d)' => F = 0 /\ Stream(d, 0, nsent'[d], wire'[d])
      BY <1>2, <3>1
    <3>6. /\ Len(rcvd'[d]) <= F /\ \A i \in 1..Len(rcvd'[d]) : rcvd'[d][i] = Bytes({d}, i)
          /\ \A i \in Msgs' : PackAt(i, d)' =>
               \E k \in (Len(rcvd'[d]) + 1)..F : mq2s'[i].pack = Bytes({d}, k)
          /\ \A k \in (Len(rcvd'[d]) + 1)..F :
               \E i \in Msgs' : PackAt(i, d)' /\ mq2s'[i].pack = Bytes({d}, k)
      BY <1>2, <1>5, <2>1 DEF Flow, PackAt
    <3>7. Flow(d, F)'
      BY <3>4, <3>5, <3>6 DEF Flow
    <3>8. QED
      BY <3>7
  <2>5. QED
    BY <2>3, <2>4
<1>9. QED
  BY <1>6, <1>8 DEF InboundInv

\* The packages OnRead pushes are the next ones of their client.
LEMMA InboundRead ==
  ASSUME TypeInv, OwnInv, InboundInv, NEW fd \in Fds, OnRead(fd),
         \A d \in Clients : Fresh(d)' => Fresh(d)
  PROVE  InboundInv'
<1>1. fd \in chan /\ owner[fd] \in Clients /\ UNCHANGED <<owner, chan, nsent, rcvd>>
  BY ReadFacts DEF OnRead, worker
<1>2. PICK front \in Seq(Byte), rest \in Seq(Byte), left \in Seq(Byte), p \in Seq(Message) :
        ReadOf(fd, front, rest, left, p)
  BY ReadFacts
<1>3. PICK c \in Clients : c = owner[fd]
  BY <1>1
<1>4. PICK q \in Seq(Message) : q = mq2s
  BY DEF TypeInv
<1>5. PICK F \in Nat : Flow(c, F)
  BY DEF InboundInv
<1>6. PICK h \in Nat : h = Len(p)
  OBVIOUS
<1>7. PICK s \in Seq(Byte) : s = rest \o left
  BY ConcatProperties
<1>8. Stream(c, F, nsent[c], front \o s) /\ Len(front) = 2 * h
  BY <1>1, <1>2, <1>3, <1>5, <1>6, <1>7 DEF Flow, ReadOf
<1>9. /\ Stream(c, F + h, nsent[c], s)
      /\ \A k \in 1..h : <<front[2 * k - 1], front[2 * k]>> = Bytes({c}, F + k)
  <2>1. PICK N \in Nat : N = nsent[c]
    BY DEF TypeInv
  <2>2. Stream(c, F, N, front \o s) /\ Len(front) = 2 * h
    BY <1>8, <2>1
  <2>3. Stream(c, F + h, N, s) /\ Shed(c, F, h, front)
    BY <2>2, StreamShrinks
  <2>4. QED
    BY <2>1, <2>3 DEF Shed
<1>10. /\ mq2s' = q \o p
       /\ \A i \in 1..h : p[i].type = "PACK" /\ p[i].conn = c /\ p[i].pack = Bytes({c}, F + i)
  BY <1>2, <1>3, <1>4, <1>6, <1>9 DEF ReadOf
<1>11. PICK l \in Nat : l = Len(q)
  OBVIOUS
<1>12. /\ Msgs = 1..l /\ Msgs' = 1..(l + h)
       /\ \A i \in 1..(l + h) : mq2s'[i] = IF i <= l THEN q[i] ELSE p[i - l]
  <2>1. Len(q \o p) = Len(q) + Len(p)
        /\ \A i \in 1..(Len(q) + Len(p)) : (q \o p)[i] = IF i <= Len(q) THEN q[i] ELSE p[i - Len(q)]
    BY ConcatProperties
  <2>2. QED
    BY <1>4, <1>6, <1>10, <1>11, <2>1 DEF Msgs
<1>13. \A i \in Msgs : i \in Msgs' /\ mq2s'[i] = mq2s[i]
  BY <1>4, <1>12
\* The messages after those of mq2s are the packages of c from F + 1 on.
<1>14. ASSUME NEW i \in Msgs', i \notin Msgs
       PROVE  /\ i - l \in 1..h /\ mq2s'[i].type = "PACK" /\ mq2s'[i].conn = c
              /\ mq2s'[i].pack = Bytes({c}, F + (i - l))
  <2>1. i - l \in 1..h /\ ~(i <= l) /\ i \in 1..(l + h)
    BY <1>12, <1>14
  <2>2. mq2s'[i] = p[i - l]
    BY <1>12, <2>1
  <2>3. QED
    BY <1>10, <2>1, <2>2
<1>15. ASSUME NEW k \in 1..h
       PROVE  /\ l + k \in Msgs' /\ mq2s'[l + k].type = "PACK" /\ mq2s'[l + k].conn = c
              /\ mq2s'[l + k].pack = Bytes({c}, F + k)
  <2>1. l + k \in Msgs' /\ l + k \notin Msgs /\ (l + k) - l = k
    BY <1>12
  <2>2. QED
    BY <1>14, <2>1
<1>16. \A k \in Nat : Bytes({c}, k)[1].n = k
  BY NumberOfBytes, Zenon
\* Those of c in mq2s have numbers up to F.
<1>17. ASSUME NEW i \in Msgs, mq2s[i].type = "PACK", mq2s[i].conn = c
       PROVE  mq2s[i].pack[1].n \in Nat /\ mq2s[i].pack[1].n <= F
  <2>1. PICK k \in (Len(rcvd[c]) + 1)..F : mq2s[i].pack = Bytes({c}, k)
    BY <1>5, <1>17 DEF Flow, PackAt
  <2>2. Len(rcvd[c]) \in Nat
    BY DEF TypeInv
  <2>3. k \in Nat /\ k <= F
    BY <2>2
  <2>4. QED
    BY <1>16, <2>1, <2>3
<1>18. PacksInOrder'
  <2>1. ASSUME NEW i \in Msgs', NEW j \in Msgs', i < j, mq2s'[i].type = "PACK",
               mq2s'[j].type = "PACK", mq2s'[i].conn = mq2s'[j].conn
        PROVE  mq2s'[i].pack[1].n < mq2s'[j].pack[1].n
    <3>1. CASE j \in Msgs
      <4>1. i \in Msgs
        BY <1>12, <2>1, <3>1
      <4>2. QED
        BY <1>13, <2>1, <3>1, <4>1 DEF InboundInv, PacksInOrder
    <3>2. CASE j \notin Msgs
      <4>1. /\ j - l \in 1..h /\ mq2s'[j].conn = c /\ mq2s'[j].pack = Bytes({c}, F + (j - l))
        BY <1>14, <3>2
      <4>2. F + (j - l) \in Nat /\ F < F + (j - l)
        BY <4>1
      <4>3. mq2s'[j].pack[1].n = F + (j - l)
        BY <1>16, <4>1, <4>2
      <4>4. CASE i \in Msgs
        <5>1. mq2s'[i].pack[1].n \in Nat /\ mq2s'[i].pack[1].n <= F
          BY <1>13, <1>17, <2>1, <4>1, <4>4
        <5>2. QED
          BY <4>2, <4>3, <5>1
      <4>5. CASE i \notin Msgs
        <5>1. i - l \in 1..h /\ mq2s'[i].pack = Bytes({c}, F + (i - l))
          BY <1>14, <4>5
        <5>2. F + (i - l) \in Nat /\ F + (i - l) < F + (j - l)
          BY <1>12, <2>1, <4>1, <5>1
        <5>3. QED
          BY <1>16, <4>3, <5>1, <5>2
      <4>6. QED
        BY <4>4, <4>5
    <3>3. QED
      BY <3>1, <3>2
  <2>2. QED
    BY <2>1 DEF PacksInOrder
<1>19. /\ inBuf'[fd] = rest /\ wire'[c] = left
       /\ \A d \in Clients : d # c => wire'[d] = wire[d]
       /\ \A fe \in Fds : fe # fd => inBuf'[fe] = inBuf[fe]
  BY <1>2, <1>3 DEF ReadOf, TypeInv
<1>20. ~Fresh(c)
  BY <1>1, <1>3 DEF OwnInv
<1>21. ASSUME NEW d \in Clients, d # c PROVE \E G \in Nat : Flow(d, G)'
  <2>1. PICK G \in Nat : Flow(d, G)
    BY DEF InboundInv
  <2>2. SamePacks(d)
    <3>1. ASSUME NEW i \in Msgs', PackAt(i, d)'
          PROVE  \E j \in Msgs : PackAt(j, d) /\ mq2s[j].pack = mq2s'[i].pack
      <4>1. mq2s'[i].conn = d /\ mq2s'[i].type = "PACK"
        BY <3>1 DEF PackAt
      <4>2. i \in Msgs
        BY <1>14, <1>21, <4>1
      <4>3. PackAt(i, d) /\ mq2s[i].pack = mq2s'[i].pack
        BY <1>13, <4>1, <4>2 DEF PackAt
      <4>4. QED
        BY <4>2, <4>3
    <3>2. ASSUME NEW j \in Msgs, PackAt(j, d)
          PROVE  \E i \in Msgs' : PackAt(i, d)' /\ mq2s'[i].pack = mq2s[j].pack
      <4>1. j \in Msgs' /\ PackAt(j, d)' /\ mq2s'[j].pack = mq2s[j].pack
        BY <1>13, <3>2 DEF PackAt
      <4>2. QED
        BY <4>1
    <3>3. QED
      BY <3>1, <3>2 DEF SamePacks
  <2>3. \A fe \in chan : owner[fe] = d => fe # fd /\ fe \in Fds
    BY <1>3, <1>21 DEF TypeInv
  <2>4. Flow(d, G)'
    BY <1>1, <1>19, <1>21, <2>1, <2>2, <2>3, FlowQuiet
  <2>5. QED
    BY <2>4
<1>22. Flow(c, F + h)'
  <2>1. PICK L \in Nat : L = Len(rcvd[c]) /\ rcvd'[c] = rcvd[c]
    BY <1>1 DEF TypeInv
  <2>2. /\ L <= F /\ \A i \in 1..L : rcvd[c][i] = Bytes({c}, i)
        /\ \A i \in Msgs : PackAt(i, c) => \E k \in (L + 1)..F : mq2s[i].pack = Bytes({c}, k)
        /\ \A k \in (L + 1)..F : \E i \in Msgs : PackAt(i, c) /\ mq2s[i].pack = Bytes({c}, k)
    BY <1>5, <2>1 DEF Flow
  <2>3. PICK G \in Nat : G = F + h
    OBVIOUS
  <2>4. ASSUME NEW i \in Msgs', PackAt(i, c)'
        PROVE  \E k \in (L + 1)..G : mq2s'[i].pack = Bytes({c}, k)
    <3>1. CASE i \in Msgs
      <4>1. PackAt(i, c) /\ mq2s'[i] = mq2s[i]
        BY <1>13, <2>4, <3>1 DEF PackAt
      <4>2. PICK k \in (L + 1)..F : mq2s[i].pack = Bytes({c}, k)
        BY <2>2, <3>1, <4>1
      <4>3. k \in (L + 1)..G
        BY <2>3
      <4>4. QED
        BY <4>1, <4>2, <4>3
    <3>2. CASE i \notin Msgs
      <4>1. i - l \in 1..h /\ mq2s'[i].pack = Bytes({c}, F + (i - l))
        BY <1>14, <3>2
      <4>2. F + (i - l) \in (L + 1)..G
        BY <1>12, <2>2, <2>3, <4>1
      <4>3. QED
        BY <4>1, <4>2
    <3>3. QED
      BY <3>1, <3>2
  <2>5. ASSUME NEW k \in (L + 1)..G
        PROVE  \E i \in Msgs' : PackAt(i, c)' /\ mq2s'[i].pack = Bytes({c}, k)
    <3>1. CASE k <= F
      <4>1. k \in (L + 1)..F
        BY <2>3, <3>1
      <4>2. PICK i \in Msgs : PackAt(i, c) /\ mq2s[i].pack = Bytes({c}, k)
        BY <2>2, <4>1
      <4>3. i \in Msgs' /\ PackAt(i, c)' /\ mq2s'[i].pack = Bytes({c}, k)
        BY <1>13, <4>2 DEF PackAt
      <4>4. QED
        BY <4>3
    <3>2. CASE ~(k <= F)
      <4>1. PICK m \in 1..h : k = F + m
        <5>1. k - F \in 1..h /\ k = F + (k - F)
          BY <2>3, <3>2
        <5>2. QED
          BY <5>1
      <4>2. PICK i : i = l + m
        OBVIOUS
      <4>3. i \in Msgs' /\ PackAt(i, c)' /\ mq2s'[i].pack = Bytes({c}, k)
        BY <1>15, <4>1, <4>2 DEF PackAt
      <4>4. QED
        BY <4>3
    <3>3. QED
      BY <3>1, <3>2
  <2>6. \A fe \in chan : owner[fe] = c => fe = fd
    BY <1>1, <1>3 DEF OwnInv
  <2>7. \A fe \in chan' : owner'[fe] = c => Stream(c, G, nsent'[c], inBuf'[fe] \o wire'[c])
    BY <1>1, <1>7, <1>9, <1>19, <2>3, <2>6
  <2>8. ~Fresh(c)'
    BY <1>20
  <2>9. L <= G
    BY <2>2, <2>3
  <2>10. Flow(c, G)'
    BY <2>1, <2>2, <2>4, <2>5, <2>7, <2>8, <2>9 DEF Flow
  <2>11. QED
    BY <2>3, <2>10
<1>23. \A d \in Clients : \E G \in Nat : Flow(d, G)'
  <2>1. F + h \in Nat
    OBVIOUS
  <2>2. QED
    BY <1>21, <1>22, <2>1
<1>24. QED
  BY <1>18, <1>23 DEF InboundInv

\* A CLOSE is no package, and its client has no channel any more.
LEMMA InboundClose ==
  ASSUME TypeInv, OwnInv, InboundInv, NEW fd \in Fds, OnReadEof(fd) \/ OnReadError(fd),
         \A d \in Clients : Fresh(d)' => Fresh(d)
  PROVE  InboundInv'
<1>1. /\ Pushed(fd) /\ owner' = [owner EXCEPT ![fd] = NoClient] /\ chan' = chan \ {fd} /\ fd \in chan
      /\ \E k \in Msgs' : k \notin Msgs /\ Msgs' = Msgs \cup {k} /\ mq2s'[k].type = "CLOSE"
  BY ClosePushes
<1>2. /\ inBuf' = [inBuf EXCEPT ![fd] = <<>>] /\ UNCHANGED <<nsent, rcvd>>
      /\ wire' \in {wire, [wire EXCEPT ![owner[fd]] = <<>>]} /\ owner[fd] \in Clients
  BY CloseFacts DEF worker
<1>3. PICK l \in Msgs' : l \notin Msgs /\ Msgs' = Msgs \cup {l} /\ mq2s'[l].type = "CLOSE"
  BY <1>1
<1>4. \A i \in Msgs : i \in Msgs' /\ mq2s'[i] = mq2s[i]
  BY <1>1 DEF Pushed
<1>5. PacksInOrder'
  BY <1>3, <1>4 DEF InboundInv, PacksInOrder
<1>6. ASSUME NEW d \in Clients PROVE \E F \in Nat : Flow(d, F)'
  <2>1. PICK F \in Nat : Flow(d, F)
    BY DEF InboundInv
  <2>2. SamePacks(d)
    BY <1>3, <1>4 DEF SamePacks, PackAt
  <2>3. Fresh(d)' => Fresh(d) /\ wire'[d] = wire[d]
    <3>1. Fresh(d) => d # owner[fd]
      BY <1>1 DEF OwnInv
    <3>2. QED
      BY <1>2, <3>1 DEF TypeInv
  <2>4. \A fe \in chan' : owner'[fe] = d =>
          fe \in chan /\ owner[fe] = d /\ inBuf'[fe] = inBuf[fe] /\ wire'[d] = wire[d]
    BY <1>1, <1>2 DEF TypeInv, OwnInv
  <2>5. Flow(d, F)'
    BY <1>2, <2>1, <2>2, <2>3, <2>4, FlowQuiet
  <2>6. QED
    BY <2>5
<1>7. QED
  BY <1>5, <1>6 DEF InboundInv

LEMMA PopInOrder ==
  ASSUME InboundInv, Popped
  PROVE  PacksInOrder'
<1>1. Msgs' \subseteq Nat
  BY DEF Msgs
<1>2. ASSUME NEW i \in Msgs', NEW j \in Msgs', i < j, mq2s'[i].type = "PACK",
             mq2s'[j].type = "PACK", mq2s'[i].conn = mq2s'[j].conn
      PROVE  mq2s'[i].pack[1].n < mq2s'[j].pack[1].n
  <2>1. i + 1 \in Msgs /\ j + 1 \in Msgs /\ mq2s'[i] = mq2s[i + 1] /\ mq2s'[j] = mq2s[j + 1]
    BY DEF Popped
  <2>2. i + 1 < j + 1
    <3>1. i \in Nat /\ j \in Nat /\ i < j
      BY <1>1, <1>2
    <3>2. QED
      BY <3>1
  <2>3. QED
    BY <1>2, <2>1, <2>2 DEF InboundInv, PacksInOrder
<1>3. QED
  BY <1>2 DEF PacksInOrder

\* The message that leaves mq2s is not a package of d.
LEMMA PopSame ==
  ASSUME Popped, NEW d \in Clients, ~PackAt(1, d)
  PROVE  SamePacks(d)
<1>1. ASSUME NEW i \in Msgs', PackAt(i, d)'
      PROVE  \E j \in Msgs : PackAt(j, d) /\ mq2s[j].pack = mq2s'[i].pack
  <2>1. i + 1 \in Msgs /\ mq2s'[i] = mq2s[i + 1]
    BY DEF Popped
  <2>2. PICK j : j = i + 1
    OBVIOUS
  <2>3. j \in Msgs /\ PackAt(j, d) /\ mq2s[j].pack = mq2s'[i].pack
    BY <1>1, <2>1, <2>2 DEF PackAt
  <2>4. QED
    BY <2>3
<1>2. ASSUME NEW j \in Msgs, PackAt(j, d)
      PROVE  \E i \in Msgs' : PackAt(i, d)' /\ mq2s'[i].pack = mq2s[j].pack
  <2>1. j # 1
    BY <1>2
  <2>2. PICK i : i = j - 1
    OBVIOUS
  <2>3. i \in Msgs' /\ mq2s'[i] = mq2s[j]
    BY <2>1, <2>2 DEF Popped
  <2>4. PackAt(i, d)'
    BY <1>2, <2>3 DEF PackAt
  <2>5. QED
    BY <2>3, <2>4
<1>3. QED
  BY <1>1, <1>2 DEF SamePacks

\* The package the worker takes is the next one of its client.
LEMMA InboundPack ==
  ASSUME TypeInv, OwnInv, InboundInv, HandlePack, \A d \in Clients : Fresh(d)' => Fresh(d)
  PROVE  InboundInv'
<1>1. /\ Popped /\ 1 \in Msgs /\ mq2s[1].type = "PACK" /\ Head(mq2s) = mq2s[1]
      /\ mq2s[1] \in Message /\ mq2s[1].conn \in Clients
  BY PopFacts DEF HandlePack
<1>2. PICK c \in Clients : c = mq2s[1].conn
  BY <1>1
<1>3. /\ rcvd' = [rcvd EXCEPT ![c] = Append(rcvd[c], mq2s[1].pack)]
      /\ UNCHANGED <<wire, nsent, owner, chan, inBuf>>
  BY <1>1, <1>2 DEF HandlePack, OnServer, network, channels, TypeInv
<1>4. PacksInOrder'
  BY <1>1, PopInOrder
<1>5. ASSUME NEW d \in Clients, d # c PROVE \E F \in Nat : Flow(d, F)'
  <2>1. PICK F \in Nat : Flow(d, F)
    BY DEF InboundInv
  <2>2. SamePacks(d)
    BY <1>1, <1>2, <1>5, PopSame DEF PackAt
  <2>3. rcvd'[d] = rcvd[d]
    BY <1>3, <1>5 DEF TypeInv
  <2>4. Flow(d, F)'
    BY <1>3, <2>1, <2>2, <2>3, FlowQuiet
  <2>5. QED
    BY <2>4
<1>6. PICK F \in Nat : Flow(c, F)
  BY DEF InboundInv
<1>7. PICK L \in Nat : L = Len(rcvd[c])
  BY DEF TypeInv
<1>8. /\ L <= F /\ \A i \in 1..L : rcvd[c][i] = Bytes({c}, i)
      /\ \A i \in Msgs : PackAt(i, c) => \E k \in (L + 1)..F : mq2s[i].pack = Bytes({c}, k)
      /\ \A k \in (L + 1)..F : \E i \in Msgs : PackAt(i, c) /\ mq2s[i].pack = Bytes({c}, k)
  BY <1>6, <1>7 DEF Flow
<1>9. \A k \in Nat : Bytes({c}, k)[1].n = k
  BY NumberOfBytes, Zenon
<1>10. \A i \in Msgs : i # 1 => 1 < i
  BY DEF Msgs
<1>11. mq2s[1].pack = Bytes({c}, L + 1) /\ L + 1 <= F
  <2>1. PackAt(1, c)
    BY <1>1, <1>2 DEF PackAt
  <2>2. PICK k \in (L + 1)..F : mq2s[1].pack = Bytes({c}, k)
    BY <1>1, <1>8, <2>1
  <2>3. k \in Nat /\ L + 1 \in Nat /\ L + 1 <= k /\ k <= F /\ L + 1 \in (L + 1)..F
    BY <1>7
  <2>4. PICK i \in Msgs : PackAt(i, c) /\ mq2s[i].pack = Bytes({c}, L + 1)
    BY <1>8, <2>3
  <2>5. mq2s[1].pack[1].n = k /\ mq2s[i].pack[1].n = L + 1
    <3>1. Bytes({c}, k)[1].n = k /\ Bytes({c}, L + 1)[1].n = L + 1
      BY <1>9, <2>3
    <3>2. QED
      BY <2>2, <2>4, <3>1
  <2>6. i # 1 => k < L + 1
    BY <1>10, <2>1, <2>4, <2>5 DEF InboundInv, PacksInOrder, PackAt
  <2>7. i = 1
    BY <2>3, <2>6
  <2>8. QED
    BY <2>3, <2>4, <2>7
<1>12. PICK M \in Nat : M = L + 1
  OBVIOUS
<1>13. Len(rcvd'[c]) = M /\ \A i \in 1..M : rcvd'[c][i] = Bytes({c}, i)
  <2>1. rcvd[c] \in Seq(Seq(Byte)) /\ mq2s[1].pack \in Seq(Byte)
    BY <1>1 DEF TypeInv, Message
  <2>2. PICK r \in Seq(Seq(Byte)), b \in Seq(Byte) : r = rcvd[c] /\ b = mq2s[1].pack
    BY <2>1
  <2>3. /\ Len(Append(r, b)) = Len(r) + 1
        /\ \A i \in 1..Len(r) : Append(r, b)[i] = r[i]
        /\ Append(r, b)[Len(r) + 1] = b
    BY AppendProperties
  <2>4. rcvd'[c] = Append(r, b)
    BY <1>3, <2>2 DEF TypeInv
  <2>5. Len(rcvd'[c]) = M /\ rcvd'[c][M] = Bytes({c}, M) /\ \A i \in 1..L : rcvd'[c][i] = rcvd[c][i]
    BY <1>7, <1>11, <1>12, <2>2, <2>3, <2>4
  <2>6. \A i \in 1..M : i \in 1..L \/ i = M
    BY <1>12
  <2>7. QED
    BY <1>8, <2>5, <2>6
<1>14. ASSUME NEW i \in Msgs', PackAt(i, c)'
       PROVE  \E k \in (M + 1)..F : mq2s'[i].pack = Bytes({c}, k)
  <2>1. PICK j : j = i + 1
    OBVIOUS
  <2>2. j \in Msgs /\ mq2s'[i] = mq2s[j] /\ j # 1
    <3>1. i \in Nat /\ i # 0
      BY DEF Msgs
    <3>2. QED
      BY <1>1, <2>1, <3>1 DEF Popped
  <2>3. PackAt(j, c) /\ 1 < j
    BY <1>10, <1>14, <2>2 DEF PackAt
  <2>4. PICK k \in (L + 1)..F : mq2s[j].pack = Bytes({c}, k)
    BY <1>8, <2>2, <2>3
  <2>5. k \in Nat /\ L + 1 \in Nat
    BY <1>7
  <2>6. mq2s[1].pack[1].n = L + 1 /\ mq2s[j].pack[1].n = k
    BY <1>9, <1>11, <2>4, <2>5
  <2>7. L + 1 < k
    BY <1>1, <1>2, <2>2, <2>3, <2>6 DEF InboundInv, PacksInOrder, PackAt
  <2>8. k \in (M + 1)..F
    BY <1>12, <2>7
  <2>9. QED
    BY <2>2, <2>4, <2>8
<1>15. ASSUME NEW k \in (M + 1)..F
       PROVE  \E i \in Msgs' : PackAt(i, c)' /\ mq2s'[i].pack = Bytes({c}, k)
  <2>1. k \in (L + 1)..F /\ k \in Nat /\ L + 1 \in Nat /\ k # L + 1
    BY <1>12
  <2>2. PICK j \in Msgs : PackAt(j, c) /\ mq2s[j].pack = Bytes({c}, k)
    BY <1>8, <2>1
  <2>3. j # 1
    <3>1. mq2s[1].pack[1].n = L + 1 /\ mq2s[j].pack[1].n = k
      BY <1>9, <1>11, <2>1, <2>2
    <3>2. QED
      BY <2>1, <3>1
  <2>4. PICK i : i = j - 1
    OBVIOUS
  <2>5. i \in Msgs' /\ mq2s'[i] = mq2s[j]
    BY <1>1, <2>3, <2>4 DEF Popped
  <2>6. PackAt(i, c)'
    BY <2>2, <2>5 DEF PackAt
  <2>7. QED
    BY <2>2, <2>5, <2>6
<1>16. M <= F
  BY <1>11, <1>12
<1>17. Fresh(c)' => F = 0 /\ Stream(c, 0, nsent'[c], wire'[c])
  BY <1>3, <1>6 DEF Flow
<1>18. \A fd \in chan' : owner'[fd] = c => Stream(c, F, nsent'[c], inBuf'[fd] \o wire'[c])
  BY <1>3, <1>6 DEF Flow
<1>19. Flow(c, F)'
  BY <1>13, <1>14, <1>15, <1>16, <1>17, <1>18 DEF Flow
<1>20. \A d \in Clients : \E G \in Nat : Flow(d, G)'
  BY <1>5, <1>19
<1>21. QED
  BY <1>4, <1>20 DEF InboundInv

LEMMA InboundStep ==
  TypeInv /\ OwnInv /\ InboundInv /\ [Next]_vars => InboundInv'
<1> SUFFICES ASSUME TypeInv, OwnInv, InboundInv, [Next]_vars PROVE InboundInv'
  OBVIOUS
<1>1. \A d \in Clients : Fresh(d)' => Fresh(d)
  BY FreshStep
<1>2. ASSUME UNCHANGED <<mq2s, rcvd, nsent, wire, chan, owner, inBuf>> PROVE InboundInv'
  BY <1>1, <1>2, InboundQuiet
<1>3. ASSUME NEW c \in Clients, Connect(c) \/ Close(c) PROVE InboundInv'
  BY <1>2, <1>3 DEF Connect, Close, channels, worker
<1>4. ASSUME NEW c \in Clients, Send(c) PROVE InboundInv'
  BY <1>1, <1>4, InboundSend
<1>5. CASE OnAccept
  BY <1>1, <1>5, InboundAccept
<1>6. CASE OnAcceptError \/ OnEventfd
  BY <1>2, <1>6 DEF OnAcceptError, OnEventfd, network, channels, worker
<1>7. ASSUME NEW fd \in Fds, OnRead(fd) PROVE InboundInv'
  BY <1>1, <1>7, InboundRead
<1>8. ASSUME NEW fd \in Fds, OnReadEof(fd) \/ OnReadError(fd) PROVE InboundInv'
  BY <1>1, <1>8, InboundClose
<1>9. ASSUME NEW fd \in Fds, OnWrite(fd) PROVE InboundInv'
  BY <1>2, <1>9 DEF OnWrite, worker
<1>10. CASE HandlePack
  BY <1>1, <1>10, InboundPack
<1>11. CASE HandleClose
  <2>1. Popped /\ 1 \in Msgs /\ mq2s[1].type = "CLOSE"
    BY <1>11, PopFacts DEF HandleClose
  <2>2. UNCHANGED <<rcvd, nsent, wire, chan, owner, inBuf>>
    BY <1>11 DEF HandleClose, network, channels
  <2>3. ASSUME NEW d \in Clients PROVE \E F \in Nat : Flow(d, F)'
    <3>1. PICK F \in Nat : Flow(d, F)
      BY DEF InboundInv
    <3>2. SamePacks(d)
      BY <2>1, PopSame DEF PackAt
    <3>3. Flow(d, F)'
      BY <1>1, <2>2, <3>1, <3>2, FlowQuiet
    <3>4. QED
      BY <3>3
  <2>4. QED
    BY <2>1, <2>3, PopInOrder DEF InboundInv
<1>12. CASE Reply \/ BroadcastSome \/ BroadcastAll
  BY <1>2, <1>12, PushFacts DEF PushToSocket, network, channels
<1>13. CASE UNCHANGED vars
  BY <1>2, <1>13 DEF vars, network, channels, worker
<1>14. QED
  BY <1>3, <1>4, <1>5, <1>6, <1>7, <1>8, <1>9, <1>10, <1>11, <1>12, <1>13
     DEF Next, SocketThread, Worker, Client

-----------------------------------------------------------------------------
(***************************************************************************)
(* The way out.                                                            *)
(***************************************************************************)
LEMMA EvenFacts ==
  /\ \A l, j \in Nat : l % 2 = 0 => (l + j) % 2 = j % 2
  /\ \A k \in Nat : (2 * k) % 2 = 0
  OBVIOUS

LEMMA OddFacts == \A i \in Nat \ {0} : i % 2 = 1 \/ i - 1 >= 1
  OBVIOUS

\* What a client has received is the front of what it is sent.
LEMMA PrefixFacts ==
  ASSUME NEW s \in Seq(Byte), NEW t \in Seq(Byte), Whole(s \o t), InOrder(s \o t)
  PROVE  Whole(s) /\ InOrder(s)
<1>1. PICK u : u = s \o t
  OBVIOUS
<1>2. /\ Len(s) \in Nat /\ Len(t) \in Nat /\ Len(u) = Len(s) + Len(t)
      /\ \A i \in 1..Len(s) : i \in 1..Len(u) /\ u[i] = s[i]
  <2>1. /\ Len(s) \in Nat /\ Len(t) \in Nat /\ Len(s \o t) = Len(s) + Len(t)
        /\ \A i \in 1..(Len(s) + Len(t)) : (s \o t)[i] = IF i <= Len(s) THEN s[i] ELSE t[i - Len(s)]
    BY ConcatProperties
  <2>2. QED
    BY <1>1, <2>1
<1>3. InOrder(s)
  <2>1. InOrder(u)
    BY <1>1
  <2>2. SUFFICES ASSUME NEW i \in 1..Len(s), NEW j \in 1..Len(s), i < j, s[i].part = s[j].part
                 PROVE  \/ s[i].n < s[j].n
                        \/ s[i].n = s[j].n /\ s[i].copy < s[j].copy
    BY Zenon DEF InOrder
  <2>3. i \in 1..Len(u) /\ j \in 1..Len(u) /\ u[i] = s[i] /\ u[j] = s[j]
    BY <1>2, Zenon
  <2>4. u[i].part = u[j].part
    BY <2>2, <2>3
  <2>5. u[i].n < u[j].n \/ (u[i].n = u[j].n /\ u[i].copy < u[j].copy)
    BY <2>1, <2>2, <2>3, <2>4, Zenon DEF InOrder
  <2>6. QED
    BY <2>3, <2>5, Zenon
<1>4. ASSUME NEW i \in 1..Len(s)
      PROVE  IF i % 2 = 1 THEN s[i].part = 1 ELSE s[i] = [s[i - 1] EXCEPT !.part = 2]
  <2>1. IF i % 2 = 1 THEN u[i].part = 1 ELSE u[i] = [u[i - 1] EXCEPT !.part = 2]
    BY <1>1, <1>2 DEF Whole
  <2>2. u[i] = s[i]
    BY <1>2
  <2>3. i \in Nat \ {0} /\ i <= Len(s)
    BY <1>2
  <2>4. i % 2 = 1 \/ u[i - 1] = s[i - 1]
    <3>1. i % 2 = 1 \/ i - 1 >= 1
      BY <2>3, OddFacts
    <3>2. i - 1 >= 1 => i - 1 \in 1..Len(s)
      BY <1>2, <2>3
    <3>3. QED
      BY <1>2, <3>1, <3>2
  <2>5. QED
    BY <2>1, <2>2, <2>4
<1>5. QED
  BY <1>3, <1>4 DEF Whole

\* The bytes u are those of s and others of the package number n.
Extends(u, s, n) == \A i \in 1..Len(u) : u[i].n = n \/ \E k \in 1..Len(s) : u[i] = s[k]

\* The copies of a package are whole, and one after the other.
LEMMA CopiesPacked ==
  ASSUME NEW of \in SUBSET Clients, NEW n \in Nat, NEW k \in Nat
  PROVE  /\ Copies(Bytes(of, n), k) \in Seq(Byte) /\ Packed(Copies(Bytes(of, n), k))
         /\ \A i \in 1..Len(Copies(Bytes(of, n), k)) : Copies(Bytes(of, n), k)[i].n = n
<1>1. PICK c \in Seq(Byte), m \in Nat :
        /\ c = Copies(Bytes(of, n), k) /\ m = 2 * k
        /\ Len(c) = m /\ \A i \in 1..m : c[i] = CopyByte(of, n, i)
  BY CopiesFacts
<1>2. \A i \in 1..m : c[i].n = n
  BY <1>1 DEF CopyByte
<1>3. ASSUME NEW i \in 1..m
      PROVE  IF i % 2 = 1 THEN c[i].part = 1 ELSE c[i] = [c[i - 1] EXCEPT !.part = 2]
  <2>1. CASE i % 2 = 1
    BY <1>1, <2>1 DEF CopyByte
  <2>2. CASE i % 2 # 1
    <3>1. i - 1 \in 1..m /\ (i - 1) % 2 = 1 /\ ((i - 1) + 1) \div 2 = (i + 1) \div 2
      BY <2>2
    <3>2. PICK q : q = (i + 1) \div 2
      OBVIOUS
    <3>3. /\ c[i] = [of |-> of, n |-> n, copy |-> q, part |-> 2]
          /\ c[i - 1] = [of |-> of, n |-> n, copy |-> q, part |-> 1]
      BY <1>1, <2>2, <3>1, <3>2 DEF CopyByte
    <3>4. QED
      BY <2>2, <3>3
  <2>3. QED
    BY <2>1, <2>2
<1>4. ASSUME NEW i \in 1..m, NEW j \in 1..m, i < j, c[i].part = c[j].part
      PROVE  c[i].n = c[j].n /\ c[i].copy < c[j].copy
  <2>1. /\ c[i].copy = (i + 1) \div 2 /\ c[j].copy = (j + 1) \div 2
        /\ c[i].part = CopyByte(of, n, i).part /\ c[j].part = CopyByte(of, n, j).part
    <3>1. c[i] = CopyByte(of, n, i) /\ c[j] = CopyByte(of, n, j)
      BY <1>1
    <3>2. \A x : CopyByte(of, n, x).copy = (x + 1) \div 2
      BY Zenon DEF CopyByte
    <3>3. QED
      BY <3>1, <3>2
  <2>2. (i % 2 = 1) <=> (j % 2 = 1)
    <3>1. CopyByte(of, n, i).part = CopyByte(of, n, j).part
      BY <1>4, <2>1
    <3>2. \A x : IF x % 2 = 1 THEN CopyByte(of, n, x).part = 1 ELSE CopyByte(of, n, x).part = 2
      BY DEF CopyByte
    <3>3. 1 # 2
      OBVIOUS
    <3>4. QED
      BY <3>1, <3>2, <3>3
  <2>3. (i + 1) \div 2 < (j + 1) \div 2
    BY <1>4, <2>2
  <2>4. QED
    BY <1>2, <2>1, <2>3
<1>5. Whole(c) /\ InOrder(c)
  BY <1>1, <1>3, <1>4 DEF Whole, InOrder
<1>6. Len(c) % 2 = 0
  BY <1>1, EvenFacts
<1>7. QED
  BY <1>1, <1>2, <1>5, <1>6 DEF Packed

\* More copies of a package with a higher number.
LEMMA PackedGrows ==
  ASSUME NEW s \in Seq(Byte), Packed(s), NEW n \in Nat, \A i \in 1..Len(s) : s[i].n < n,
         NEW b \in Seq(Byte), Packed(b), \A i \in 1..Len(b) : b[i].n = n
  PROVE  Packed(s \o b) /\ Extends(s \o b, s, n)
<1>1. PICK u : u = s \o b
  OBVIOUS
<1>2. PICK l \in Nat, m \in Nat : l = Len(s) /\ m = Len(b)
  OBVIOUS
<1>3. Len(u) = l + m /\ (\A i \in 1..l : u[i] = s[i]) /\ \A i \in 1..m : u[l + i] = b[i]
  BY <1>1, <1>2, JoinFacts
<1>4. ASSUME NEW i \in 1..Len(u), i \notin 1..l PROVE \E k \in 1..m : i = l + k
  <2>1. i - l \in 1..m /\ i = l + (i - l)
    BY <1>3, <1>4
  <2>2. QED
    BY <2>1
<1>5. l % 2 = 0 /\ m % 2 = 0 /\ \A j \in Nat : (l + j) % 2 = j % 2
  BY <1>2, EvenFacts DEF Packed
<1>6. ASSUME NEW i \in 1..Len(u)
      PROVE  IF i % 2 = 1 THEN u[i].part = 1 ELSE u[i] = [u[i - 1] EXCEPT !.part = 2]
  <2>1. CASE i \in 1..l
    <3>1. IF i % 2 = 1 THEN s[i].part = 1 ELSE s[i] = [s[i - 1] EXCEPT !.part = 2]
      BY <1>2, <2>1 DEF Packed, Whole
    <3>2. i % 2 = 1 \/ u[i - 1] = s[i - 1]
      <4>1. i \in Nat \ {0} /\ i <= l
        BY <2>1
      <4>2. i % 2 = 1 \/ i - 1 >= 1
        BY <4>1, OddFacts
      <4>3. i - 1 >= 1 => i - 1 \in 1..l
        BY <4>1
      <4>4. QED
        BY <1>3, <4>2, <4>3
    <3>3. u[i] = s[i]
      BY <1>3, <2>1
    <3>4. QED
      BY <3>1, <3>2, <3>3
  <2>2. CASE i \notin 1..l
    <3>1. PICK k \in 1..m : i = l + k
      BY <1>4, <2>2
    <3>2. IF k % 2 = 1 THEN b[k].part = 1 ELSE b[k] = [b[k - 1] EXCEPT !.part = 2]
      BY <1>2 DEF Packed, Whole
    <3>3. k % 2 = 1 \/ u[i - 1] = b[k - 1]
      <4>1. k \in Nat \ {0} /\ k <= m
        OBVIOUS
      <4>2. k % 2 = 1 \/ k - 1 >= 1
        BY <4>1, OddFacts
      <4>3. k - 1 >= 1 => k - 1 \in 1..m /\ i - 1 = l + (k - 1)
        BY <3>1, <4>1
      <4>4. QED
        BY <1>3, <4>2, <4>3
    <3>4. u[i] = b[k] /\ i % 2 = k % 2
      <4>1. k \in Nat
        OBVIOUS
      <4>2. (l + k) % 2 = k % 2 /\ u[l + k] = b[k]
        BY <1>3, <1>5, <4>1
      <4>3. QED
        BY <3>1, <4>2, Zenon
    <3>5. QED
      BY <3>2, <3>3, <3>4
  <2>3. QED
    BY <2>1, <2>2
<1>7. Whole(u)
  BY <1>6 DEF Whole
<1>8. InOrder(u)
  <2>1. SUFFICES ASSUME NEW i \in 1..Len(u), NEW j \in 1..Len(u), i < j, u[i].part = u[j].part
                 PROVE  u[i].n < u[j].n \/ (u[i].n = u[j].n /\ u[i].copy < u[j].copy)
    BY DEF InOrder
  <2>2. CASE j \in 1..l
    <3>1. i \in 1..l
      BY <1>3, <2>1, <2>2
    <3>2. u[i] = s[i] /\ u[j] = s[j]
      BY <1>3, <2>2, <3>1
    <3>3. QED
      BY <1>2, <2>1, <2>2, <3>1, <3>2 DEF Packed, InOrder
  <2>3. CASE j \notin 1..l
    <3>1. PICK h \in 1..m : j = l + h
      BY <1>4, <2>3
    <3>2. u[j] = b[h] /\ b[h].n = n
      BY <1>2, <1>3, <3>1
    <3>3. CASE i \in 1..l
      <4>1. u[i] = s[i] /\ s[i].n < n
        BY <1>2, <1>3, <3>3
      <4>2. QED
        BY <3>2, <4>1
    <3>4. CASE i \notin 1..l
      <4>1. PICK k \in 1..m : i = l + k
        BY <1>4, <3>4
      <4>2. u[i] = b[k] /\ k < h
        BY <1>3, <2>1, <3>1, <4>1
      <4>3. QED
        BY <1>2, <2>1, <3>2, <4>2 DEF Packed, InOrder
    <3>5. QED
      BY <3>3, <3>4
  <2>4. QED
    BY <2>2, <2>3
<1>9. Packed(u)
  BY <1>3, <1>5, <1>7, <1>8 DEF Packed
<1>10. ASSUME NEW i \in 1..Len(u)
       PROVE  u[i].n = n \/ \E k \in 1..Len(s) : u[i] = s[k]
  <2>1. CASE i \in 1..l
    BY <1>2, <1>3, <2>1
  <2>2. CASE i \notin 1..l
    BY <1>2, <1>3, <1>4, <2>2
  <2>3. QED
    BY <2>1, <2>2
<1>11. Extends(u, s, n)
  BY <1>10 DEF Extends
<1>12. QED
  BY <1>1, <1>9, <1>11

LEMMA InitOut == Init => OutInv
<1> SUFFICES ASSUME Init PROVE OutInv
  OBVIOUS
<1>1. /\ mq2c = <<>> /\ Len(<<>>) = 0 /\ 1..0 = {} /\ chan = {}
      /\ \A c \in Clients : got[c] = <<>>
  BY DEF Init
<1>2. Whole(<<>>) /\ InOrder(<<>>)
  BY <1>1 DEF Whole, InOrder
<1>3. QED
  BY <1>1, <1>2 DEF OutInv

\* A step that pushes nothing, sends nothing and connects nobody to a channel.
LEMMA OutQuiet ==
  ASSUME TypeInv, OwnInv, OutInv, UNCHANGED <<mq2c, nreply, got>>,
         \A d \in Clients : Fresh(d)' => Fresh(d),
         \A fd \in chan' : fd \in chan /\ owner'[fd] = owner[fd] /\ outBuf'[fd] = outBuf[fd],
         \A fd \in chan : peer'[owner[fd]] = "open" => peer[owner[fd]] = "open"
  PROVE  OutInv'
<1>1. /\ \A j \in 1..Len(mq2c') : Number(j)' \in 1..nreply'
                                  /\ \E of \in SUBSET Clients : mq2c'[j].pack = Bytes(of, Number(j)')
      /\ \A i, j \in 1..Len(mq2c') : i < j => Number(i)' < Number(j)'
      /\ \A c \in Clients : Whole(got'[c]) /\ InOrder(got'[c])
  BY DEF OutInv, Number
<1>2. \A c \in Clients : Fresh(c)' => got'[c] = <<>>
  BY DEF OutInv
<1>3. ASSUME NEW fd \in chan', peer'[owner'[fd]] = "open"
      PROVE  Delivered(got[owner[fd]] \o outBuf[fd])'
  <2>1. Delivered(got[owner[fd]] \o outBuf[fd])
    BY <1>3 DEF OutInv
  <2>2. PICK s : s = got[owner[fd]] \o outBuf[fd] /\ s = got'[owner'[fd]] \o outBuf'[fd]
    BY <1>3
  <2>3. Delivered(s)'
    BY <2>1, <2>2 DEF Delivered, Before, Number
  <2>4. QED
    BY <2>2, <2>3
<1>4. QED
  BY <1>1, <1>2, <1>3 DEF OutInv

LEMMA OutAccept ==
  ASSUME TypeInv, OwnInv, OutInv, OnAccept, \A d \in Clients : Fresh(d)' => Fresh(d)
  PROVE  OutInv'
<1>1. PICK fd \in Fds, c \in Clients :
        /\ fd \notin chan /\ owner' = [owner EXCEPT ![fd] = c] /\ chan' = chan \cup {fd}
        /\ outBuf' = [outBuf EXCEPT ![fd] = <<>>] /\ backlog # <<>> /\ c = backlog[1]
  BY AcceptFacts
<1>2. UNCHANGED <<mq2c, nreply, got, peer>>
  BY DEF OnAccept, network, worker
<1>3. 1 \in 1..Len(backlog)
  BY <1>1 DEF TypeInv
<1>4. Fresh(c)
  BY <1>1, <1>3 DEF Fresh
<1>5. /\ owner'[fd] = c /\ outBuf'[fd] = <<>> /\ got'[c] = <<>>
      /\ \A fe \in chan : fe # fd /\ owner'[fe] = owner[fe] /\ outBuf'[fe] = outBuf[fe]
  BY <1>1, <1>2, <1>4 DEF TypeInv, OwnInv, OutInv
<1>6. /\ \A j \in 1..Len(mq2c') : Number(j)' \in 1..nreply'
                                  /\ \E of \in SUBSET Clients : mq2c'[j].pack = Bytes(of, Number(j)')
      /\ \A i, j \in 1..Len(mq2c') : i < j => Number(i)' < Number(j)'
      /\ \A d \in Clients : Whole(got'[d]) /\ InOrder(got'[d])
  BY <1>2 DEF OutInv, Number
<1>7. \A d \in Clients : Fresh(d)' => got'[d] = <<>>
  BY <1>2 DEF OutInv
<1>8. ASSUME NEW fe \in chan', peer'[owner'[fe]] = "open"
      PROVE  Delivered(got[owner[fe]] \o outBuf[fe])'
  <2>1. CASE fe = fd
    <3>1. PICK s : s = <<>> /\ Len(s) = 0
      OBVIOUS
    <3>2. got'[owner'[fe]] \o outBuf'[fe] = s
      BY <1>5, <2>1, <3>1
    <3>3. Len(s) % 2 = 0 /\ 1..Len(s) = {}
      BY <3>1
    <3>4. Packed(s)
      BY <3>3 DEF Packed, Whole, InOrder
    <3>5. Delivered(s)'
      BY <3>3, <3>4 DEF Delivered, Before
    <3>6. QED
      BY <3>2, <3>5
  <2>2. CASE fe # fd
    <3>1. fe \in chan /\ peer[owner[fe]] = "open"
      BY <1>1, <1>2, <1>5, <1>8, <2>2
    <3>2. Delivered(got[owner[fe]] \o outBuf[fe])
      BY <3>1 DEF OutInv
    <3>3. PICK s : s = got[owner[fe]] \o outBuf[fe] /\ s = got'[owner'[fe]] \o outBuf'[fe]
      BY <1>2, <1>5, <3>1
    <3>4. Delivered(s)'
      BY <1>2, <3>2, <3>3 DEF Delivered, Before, Number
    <3>5. QED
      BY <3>3, <3>4
  <2>3. QED
    BY <2>1, <2>2
<1>9. QED
  BY <1>6, <1>7, <1>8 DEF OutInv

\* Bytes go from the buffer to the client: what the two hold together stays.
LEMMA OutWrite ==
  ASSUME TypeInv, OwnInv, OutInv, NEW fd \in Fds, OnWrite(fd),
         \A d \in Clients : Fresh(d)' => Fresh(d)
  PROVE  OutInv'
<1>1. fd \in chan /\ owner[fd] \in Clients /\ UNCHANGED <<peer, owner, chan, mq2c, nreply>>
  BY WriteFacts DEF OnWrite, worker
<1>2. PICK f \in Seq(Byte), left \in Seq(Byte) : WriteOf(fd, f, left)
  BY WriteFacts
<1>3. PICK c \in Clients, g \in Seq(Byte) : c = owner[fd] /\ g = got[c]
  BY <1>1 DEF TypeInv
<1>4. /\ outBuf[fd] = f \o left /\ outBuf'[fd] = left
      /\ \A fe \in Fds : fe # fd => outBuf'[fe] = outBuf[fe]
      /\ peer[c] = "open" => got'[c] = g \o f
      /\ peer[c] # "open" => got' = got
      /\ \A d \in Clients : d # c => got'[d] = got[d]
  BY <1>2, <1>3 DEF WriteOf, TypeInv
<1>5. \A fe \in chan : fe # fd => owner[fe] # c /\ fe \in Fds /\ owner[fe] \in Clients
  BY <1>1, <1>3 DEF OwnInv, TypeInv
<1>6. (g \o f) \o left = g \o (f \o left)
  BY Regroup, Zenon
<1>7. peer[c] = "open" => Delivered((g \o f) \o left)
  BY <1>1, <1>3, <1>4, <1>6 DEF OutInv
<1>8. peer[c] = "open" => Whole(g \o f) /\ InOrder(g \o f)
  <2>1. PICK u \in Seq(Byte) : u = g \o f
    BY ConcatProperties
  <2>2. ASSUME peer[c] = "open" PROVE Whole(u \o left) /\ InOrder(u \o left)
    BY <1>7, <2>1, <2>2 DEF Delivered, Packed
  <2>3. QED
    BY <2>1, <2>2, PrefixFacts
<1>9. \A d \in Clients : Whole(got'[d]) /\ InOrder(got'[d])
  BY <1>4, <1>8 DEF OutInv
<1>10. \A d \in Clients : Fresh(d)' => got'[d] = <<>>
  BY <1>1, <1>3, <1>4 DEF OutInv, OwnInv
<1>11. /\ \A j \in 1..Len(mq2c') : Number(j)' \in 1..nreply'
                                   /\ \E of \in SUBSET Clients : mq2c'[j].pack = Bytes(of, Number(j)')
       /\ \A i, j \in 1..Len(mq2c') : i < j => Number(i)' < Number(j)'
  BY <1>1 DEF OutInv, Number
<1>12. ASSUME NEW fe \in chan', peer'[owner'[fe]] = "open"
       PROVE  Delivered(got[owner[fe]] \o outBuf[fe])'
  <2>1. fe \in chan /\ peer[owner[fe]] = "open"
    BY <1>1, <1>12
  <2>2. PICK s : s = got'[owner'[fe]] \o outBuf'[fe]
    OBVIOUS
  <2>3. Delivered(s)
    <3>1. CASE fe = fd
      <4>1. s = (g \o f) \o left
        BY <1>1, <1>3, <1>4, <2>1, <2>2, <3>1
      <4>2. QED
        BY <1>3, <1>7, <2>1, <3>1, <4>1
    <3>2. CASE fe # fd
      <4>1. s = got[owner[fe]] \o outBuf[fe]
        BY <1>1, <1>4, <1>5, <2>1, <2>2, <3>2
      <4>2. QED
        BY <2>1, <4>1 DEF OutInv
    <3>3. QED
      BY <3>1, <3>2
  <2>4. Delivered(s)'
    BY <1>1, <2>3 DEF Delivered, Before, Number
  <2>5. QED
    BY <2>2, <2>4
<1>13. QED
  BY <1>9, <1>10, <1>11, <1>12 DEF OutInv

\* The message OnEventfd takes is older than those that stay, and its package goes
\* whole to the end of what each addressee is sent.
LEMMA OutEventfd ==
  ASSUME TypeInv, OwnInv, OutInv, OnEventfd, \A d \in Clients : Fresh(d)' => Fresh(d)
  PROVE  OutInv'
<1>1. PICK m \in Output, t \in Seq(Output), times \in [Fds -> Nat] :
        /\ m = mq2c[1] /\ mq2c' = t /\ 1 \in 1..Len(mq2c)
        /\ Len(mq2c) = Len(t) + 1 /\ \A i \in 1..Len(t) : t[i] = mq2c[i + 1]
        /\ outBuf' = [fd \in Fds |-> outBuf[fd] \o Copies(m.pack, times[fd])]
  BY EventfdFacts
<1>2. UNCHANGED <<peer, got, owner, chan, nreply>>
  BY DEF OnEventfd, network, worker
<1>3. PICK l \in Nat : l = Len(t)
  OBVIOUS
<1>4. /\ 1..Len(mq2c') = 1..l /\ 1..Len(mq2c) = 1..(l + 1)
      /\ \A j \in 1..l : j + 1 \in 1..(l + 1) /\ 1 < j + 1
  BY <1>1, <1>3
<1>5. \A j \in 1..l : mq2c'[j] = mq2c[j + 1] /\ Number(j)' = Number(j + 1)
  BY <1>1, <1>3 DEF Number
<1>6. \A j \in 1..Len(mq2c') : Number(j)' \in 1..nreply'
                               /\ \E of \in SUBSET Clients : mq2c'[j].pack = Bytes(of, Number(j)')
  <2>1. \A j \in 1..(l + 1) : Number(j) \in 1..nreply
                              /\ \E of \in SUBSET Clients : mq2c[j].pack = Bytes(of, Number(j))
    BY <1>4 DEF OutInv
  <2>2. ASSUME NEW j \in 1..l
        PROVE  Number(j)' \in 1..nreply'
               /\ \E of \in SUBSET Clients : mq2c'[j].pack = Bytes(of, Number(j)')
    <3>1. PICK k : k = j + 1
      OBVIOUS
    <3>2. k \in 1..(l + 1) /\ mq2c'[j] = mq2c[k] /\ Number(j)' = Number(k)
      BY <1>4, <1>5, <3>1
    <3>3. QED
      BY <1>2, <2>1, <3>2
  <2>3. QED
    BY <1>4, <2>2
<1>7. \A i, j \in 1..Len(mq2c') : i < j => Number(i)' < Number(j)'
  <2>1. ASSUME NEW i \in 1..l, NEW j \in 1..l, i < j PROVE Number(i)' < Number(j)'
    <3>1. PICK a, b : a = i + 1 /\ b = j + 1
      OBVIOUS
    <3>2. /\ a \in 1..(l + 1) /\ b \in 1..(l + 1) /\ a < b
          /\ Number(i)' = Number(a) /\ Number(j)' = Number(b)
      BY <1>4, <1>5, <2>1, <3>1
    <3>3. QED
      BY <1>4, <3>2 DEF OutInv
  <2>2. QED
    BY <1>4, <2>1
<1>8. PICK n \in Nat : n = Number(1) /\ n <= nreply /\ \A j \in 1..l : n < Number(j)'
  <2>1. Number(1) \in 1..nreply /\ nreply \in Nat
    BY <1>1 DEF OutInv, TypeInv
  <2>2. ASSUME NEW j \in 1..l PROVE Number(1) < Number(j)'
    <3>1. PICK k : k = j + 1
      OBVIOUS
    <3>2. k \in 1..(l + 1) /\ 1 < k /\ Number(j)' = Number(k)
      BY <1>4, <1>5, <3>1
    <3>3. QED
      BY <1>1, <1>4, <3>2 DEF OutInv
  <2>3. QED
    BY <2>1, <2>2
<1>9. PICK of \in SUBSET Clients : m.pack = Bytes(of, n)
  BY <1>1, <1>8 DEF OutInv
\* What came before the first message comes before the others.
<1>10. ASSUME NEW s \in Seq(Byte), Before(s) PROVE Before(s)'
  <2>1. ASSUME NEW i \in 1..Len(s)
        PROVE  s[i].n <= nreply /\ \A j \in 1..l : s[i].n < Number(j)'
    <3>1. s[i].n <= nreply /\ \A k \in 1..(l + 1) : s[i].n < Number(k)
      BY <1>4, <1>10 DEF Before
    <3>2. QED
      BY <1>4, <1>5, <3>1
  <2>2. QED
    BY <1>2, <1>4, <2>1 DEF Before
<1>11. ASSUME NEW s \in Seq(Byte), Delivered(s), NEW k \in Nat
       PROVE  Copies(m.pack, k) \in Seq(Byte) /\ Delivered(s \o Copies(m.pack, k))'
  <2>1. \A i \in 1..Len(s) : s[i].n < n
    BY <1>1, <1>8, <1>11 DEF Delivered, Before
  <2>2. Packed(s)
    BY <1>11 DEF Delivered
  <2>3. PICK b \in Seq(Byte) : /\ b = Copies(m.pack, k) /\ Packed(b)
                               /\ \A i \in 1..Len(b) : b[i].n = n
    <3>1. PICK d : d = Copies(Bytes(of, n), k)
      OBVIOUS
    <3>2. d \in Seq(Byte) /\ Packed(d) /\ \A i \in 1..Len(d) : d[i].n = n
      BY <3>1, CopiesPacked
    <3>3. QED
      BY <1>9, <3>1, <3>2
  <2>4. PICK u : u = s \o b /\ Packed(u) /\ Extends(u, s, n)
    BY <2>1, <2>2, <2>3, PackedGrows
  <2>5. \A h \in 1..Len(s) : s[h].n <= nreply /\ \A j \in 1..l : s[h].n < Number(j)'
    BY <1>2, <1>4, <1>10, <1>11 DEF Delivered, Before
  <2>6. \A i \in 1..Len(u) : u[i].n <= nreply /\ \A j \in 1..l : u[i].n < Number(j)'
    BY <1>8, <2>4, <2>5 DEF Extends
  <2>7. Before(u)'
    BY <1>2, <1>4, <2>6 DEF Before
  <2>8. Delivered(u)'
    BY <2>4, <2>7 DEF Delivered
  <2>9. QED
    BY <2>3, <2>4, <2>8
<1>12. ASSUME NEW fd \in chan', peer'[owner'[fd]] = "open"
       PROVE  Delivered(got[owner[fd]] \o outBuf[fd])'
  <2>1. PICK g \in Seq(Byte), o \in Seq(Byte) :
          g = got[owner[fd]] /\ o = outBuf[fd] /\ got'[owner'[fd]] = g
    BY <1>2, ChannelFacts DEF TypeInv
  <2>2. PICK s \in Seq(Byte) : s = g \o o
    BY ConcatProperties
  <2>3. Delivered(s)
    BY <1>2, <1>12, <2>1, <2>2 DEF OutInv
  <2>4. fd \in Fds
    BY <1>2 DEF TypeInv
  <2>5. PICK k, b : k \in Nat /\ k = times[fd] /\ b = Copies(m.pack, k)
    BY <2>4
  <2>6. b \in Seq(Byte) /\ Delivered(s \o b)'
    BY <1>11, <2>3, <2>5
  <2>7. outBuf'[fd] = o \o b
    BY <1>1, <2>1, <2>4, <2>5
  <2>8. (g \o o) \o b = g \o (o \o b)
    BY <2>6, Regroup, Zenon
  <2>9. PICK u : u = s \o b
    OBVIOUS
  <2>10. got'[owner'[fd]] \o outBuf'[fd] = u
    BY <2>1, <2>2, <2>7, <2>8, <2>9
  <2>11. Delivered(u)'
    BY <2>6, <2>9
  <2>12. QED
    BY <2>10, <2>11
<1>13. \A c \in Clients : Whole(got'[c]) /\ InOrder(got'[c])
  BY <1>2 DEF OutInv
<1>14. \A c \in Clients : Fresh(c)' => got'[c] = <<>>
  BY <1>2 DEF OutInv
<1>15. QED
  BY <1>6, <1>7, <1>12, <1>13, <1>14 DEF OutInv

\* The message the worker pushes has a new number.
LEMMA OutPush ==
  ASSUME TypeInv, OwnInv, OutInv, NEW fds \in Seq(Fds), NEW of \in SUBSET Clients,
         PushToSocket(fds, of), \A d \in Clients : Fresh(d)' => Fresh(d)
  PROVE  OutInv'
<1>1. PICK n \in Nat, r \in Nat : r = nreply /\ n = r + 1
  BY DEF TypeInv
<1>2. PICK m \in Output : m = [uniqids |-> fds, pack |-> Bytes(of, n)]
  BY OutputType
<1>3. /\ mq2c' = Append(mq2c, m) /\ nreply' = n
      /\ UNCHANGED <<peer, got, owner, chan, outBuf>>
  BY <1>1, <1>2 DEF PushToSocket, network, channels
<1>4. PICK l \in Nat : l = Len(mq2c)
  BY DEF TypeInv
<1>5. /\ Len(mq2c') = l + 1 /\ (\A j \in 1..l : mq2c'[j] = mq2c[j]) /\ mq2c'[l + 1] = m
  BY <1>3, <1>4, AppendProperties DEF TypeInv
<1>6. \A j \in 1..(l + 1) : j \in 1..l \/ j = l + 1
  OBVIOUS
<1>7. m.pack = Bytes(of, n) /\ Bytes(of, n)[1].n = n
  BY <1>2 DEF Bytes
<1>8. Number(l + 1)' = n /\ \A j \in 1..l : Number(j)' = Number(j)
  BY <1>5, <1>7 DEF Number
<1>9. \A j \in 1..l : Number(j) \in 1..r
                      /\ \E o \in SUBSET Clients : mq2c[j].pack = Bytes(o, Number(j))
  BY <1>1, <1>4 DEF OutInv
<1>10. \A j \in 1..(l + 1) : Number(j)' \in 1..n
                             /\ \E o \in SUBSET Clients : mq2c'[j].pack = Bytes(o, Number(j)')
  <2>1. ASSUME NEW j \in 1..l
        PROVE  Number(j)' \in 1..n
               /\ \E o \in SUBSET Clients : mq2c'[j].pack = Bytes(o, Number(j)')
    <3>1. Number(j)' = Number(j) /\ mq2c'[j] = mq2c[j]
      BY <1>5, <1>8
    <3>2. Number(j) \in 1..n
      BY <1>1, <1>9
    <3>3. QED
      BY <1>9, <3>1, <3>2
  <2>2. n \in 1..n /\ mq2c'[l + 1].pack = Bytes(of, n)
    BY <1>1, <1>5, <1>7
  <2>3. QED
    BY <1>6, <1>8, <2>1, <2>2
<1>11. \A i, j \in 1..(l + 1) : i < j => Number(i)' < Number(j)'
  <2>1. ASSUME NEW i \in 1..(l + 1), NEW j \in 1..(l + 1), i < j PROVE Number(i)' < Number(j)'
    <3>1. i \in 1..l
      BY <2>1
    <3>2. CASE j \in 1..l
      BY <1>4, <1>8, <2>1, <3>1, <3>2 DEF OutInv
    <3>3. CASE j = l + 1
      <4>1. Number(i)' = Number(i) /\ Number(j)' = n /\ Number(i) \in 1..r
        BY <1>8, <1>9, <3>1, <3>3
      <4>2. QED
        BY <1>1, <4>1
    <3>4. QED
      BY <1>6, <3>2, <3>3
  <2>2. QED
    BY <2>1
<1>12. ASSUME NEW s \in Seq(Byte), Delivered(s) PROVE Delivered(s)'
  <2>1. ASSUME NEW i \in 1..Len(s)
        PROVE  s[i].n <= n /\ \A j \in 1..(l + 1) : s[i].n < Number(j)'
    <3>1. s[i].n <= r /\ \A j \in 1..l : s[i].n < Number(j)
      BY <1>1, <1>4, <1>12 DEF Delivered, Before
    <3>2. s[i].n \in Nat
      <4>1. s[i] \in Byte
        BY ElementOfSeq
      <4>2. QED
        BY <4>1 DEF Byte
    <3>3. s[i].n < n
      BY <1>1, <3>1, <3>2
    <3>4. QED
      BY <1>6, <1>8, <3>1, <3>2, <3>3
  <2>2. QED
    BY <1>3, <1>5, <1>12, <2>1 DEF Delivered, Before
<1>13. ASSUME NEW fd \in chan', peer'[owner'[fd]] = "open"
       PROVE  Delivered(got[owner[fd]] \o outBuf[fd])'
  <2>1. PICK g \in Seq(Byte), o \in Seq(Byte) : g = got[owner[fd]] /\ o = outBuf[fd]
    BY <1>3, ChannelFacts DEF TypeInv
  <2>2. PICK s \in Seq(Byte) : s = g \o o
    BY ConcatProperties
  <2>3. Delivered(s)
    BY <1>3, <1>13, <2>1, <2>2 DEF OutInv
  <2>4. Delivered(s)'
    BY <1>12, <2>3
  <2>5. got'[owner'[fd]] \o outBuf'[fd] = s
    BY <1>3, <2>1, <2>2
  <2>6. QED
    BY <2>4, <2>5
<1>14. \A c \in Clients : Whole(got'[c]) /\ InOrder(got'[c])
  BY <1>3 DEF OutInv
<1>15. \A c \in Clients : Fresh(c)' => got'[c] = <<>>
  BY <1>3 DEF OutInv
<1>16. QED
  BY <1>3, <1>5, <1>10, <1>11, <1>13, <1>14, <1>15 DEF OutInv

LEMMA OutStep ==
  TypeInv /\ OwnInv /\ OutInv /\ [Next]_vars => OutInv'
<1> SUFFICES ASSUME TypeInv, OwnInv, OutInv, [Next]_vars PROVE OutInv'
  OBVIOUS
<1>1. \A d \in Clients : Fresh(d)' => Fresh(d)
  BY FreshStep
<1>2. ASSUME UNCHANGED <<mq2c, nreply, got, chan, owner, outBuf, peer>> PROVE OutInv'
  BY <1>1, <1>2, OutQuiet
<1>3. ASSUME NEW c \in Clients, Connect(c) PROVE OutInv'
  <2>1. /\ peer[c] = "new" /\ peer' = [peer EXCEPT ![c] = "open"]
        /\ UNCHANGED <<mq2c, nreply, got, chan, owner, outBuf>>
    BY <1>3 DEF Connect, channels, worker
  <2>2. \A fd \in chan : owner[fd] # c
    BY <2>1 DEF OwnInv, Fresh
  <2>3. \A fd \in chan : peer'[owner[fd]] = "open" => peer[owner[fd]] = "open"
    BY <2>1, <2>2, ChannelFacts DEF TypeInv
  <2>4. QED
    BY <1>1, <2>1, <2>3, OutQuiet
<1>4. ASSUME NEW c \in Clients, Send(c) PROVE OutInv'
  BY <1>2, <1>4 DEF Send, channels, worker
<1>5. ASSUME NEW c \in Clients, Close(c) PROVE OutInv'
  <2>1. /\ peer' = [peer EXCEPT ![c] = "closed"]
        /\ UNCHANGED <<mq2c, nreply, got, chan, owner, outBuf>>
    BY <1>5 DEF Close, channels, worker
  <2>2. \A fd \in chan : peer'[owner[fd]] = "open" => peer[owner[fd]] = "open"
    BY <2>1, ChannelFacts DEF TypeInv
  <2>3. QED
    BY <1>1, <2>1, <2>2, OutQuiet
<1>6. CASE OnAccept
  BY <1>1, <1>6, OutAccept
<1>7. CASE OnAcceptError
  BY <1>2, <1>7 DEF OnAcceptError, network, channels, worker
<1>8. CASE OnEventfd
  BY <1>1, <1>8, OutEventfd
<1>9. ASSUME NEW fd \in Fds, OnRead(fd) PROVE OutInv'
  BY <1>2, <1>9 DEF OnRead, worker
<1>10. ASSUME NEW fd \in Fds, OnReadEof(fd) \/ OnReadError(fd) PROVE OutInv'
  <2>1. /\ owner' = [owner EXCEPT ![fd] = NoClient] /\ chan' = chan \ {fd}
        /\ outBuf' = [outBuf EXCEPT ![fd] = <<>>]
        /\ peer' \in {peer, [peer EXCEPT ![owner[fd]] = "closed"]} /\ owner[fd] \in Clients
        /\ UNCHANGED <<mq2c, nreply, got>>
    BY <1>10, CloseFacts DEF worker
  <2>2. \A fe \in chan' : fe \in chan /\ owner'[fe] = owner[fe] /\ outBuf'[fe] = outBuf[fe]
    BY <2>1 DEF TypeInv
  <2>3. \A fe \in chan : peer'[owner[fe]] = "open" => peer[owner[fe]] = "open"
    BY <2>1, ChannelFacts DEF TypeInv
  <2>4. QED
    BY <1>1, <2>1, <2>2, <2>3, OutQuiet
<1>11. ASSUME NEW fd \in Fds, OnWrite(fd) PROVE OutInv'
  BY <1>1, <1>11, OutWrite
<1>12. CASE HandlePack \/ HandleClose
  BY <1>2, <1>12 DEF HandlePack, HandleClose, network, channels
<1>13. CASE Reply \/ BroadcastSome \/ BroadcastAll
  BY <1>1, <1>13, PushFacts, OutPush
<1>14. CASE UNCHANGED vars
  BY <1>2, <1>14 DEF vars, network, channels, worker
<1>15. QED
  BY <1>3, <1>4, <1>5, <1>6, <1>7, <1>8, <1>9, <1>10, <1>11, <1>12, <1>13, <1>14
     DEF Next, SocketThread, Worker, Client
-----------------------------------------------------------------------------
\* Descriptors, sessions and both directions of every connection are as described
\* above, whatever the clients, the kernel and the worker do.
THEOREM Invariant == Spec => []IInv
<1>1. Init => IInv
  BY InitTypes, InitSession, InitInbound, InitOut DEF IInv
<1>2. IInv /\ [Next]_vars => IInv'
  BY TypeStep, OwnStep, SessionStep, InboundStep, OutStep DEF IInv
<1>3. QED
  BY <1>1, <1>2, PTL DEF Spec

\* The descriptor is a safe name for a connection on the way in: GetUniqidFromFd gives
\* two clients the same uniqid, but the worker's session there passes from one to the
\* other only through the CLOSE of the first.
THEOREM UniqidIsSafe == Spec => SessionProtocol
<1>1. IInv /\ [Next]_vars => ProtocolStep
  BY SessionStep DEF IInv
<1>2. IInv /\ [Next]_vars =>
        [\A fd \in Fds : session'[fd] # session[fd] =>
           /\ session[fd] = NoClient \/ session'[fd] = NoClient
           /\ session'[fd] \notin gone]_vars
  BY <1>1 DEF ProtocolStep
<1>3. QED
  BY <1>2, Invariant, PTL DEF Spec, SessionProtocol

\* The worker gets the packages of each client whole, in order and without a gap:
\* OnRead cuts them out of what recv returns however that is torn.
THEOREM InboundIsWhole == Spec => []InboundIntegrity
<1>1. ASSUME IInv, NEW c \in Clients PROVE rcvd[c] = [i \in 1..Len(rcvd[c]) |-> Bytes({c}, i)]
  <2>1. PICK F \in Nat : Flow(c, F)
    BY <1>1 DEF IInv, InboundInv
  <2>2. rcvd[c] \in Seq(Seq(Byte))
    BY <1>1 DEF IInv, TypeInv
  <2>3. rcvd[c] = [i \in 1..Len(rcvd[c]) |-> rcvd[c][i]]
    BY <2>2, LenProperties
  <2>4. \A i \in 1..Len(rcvd[c]) : rcvd[c][i] = Bytes({c}, i)
    BY <2>1 DEF Flow
  <2>5. QED
    BY <2>3, <2>4
<1>2. IInv => InboundIntegrity
  BY <1>1 DEF InboundIntegrity
<1>3. QED
  BY <1>2, Invariant, PTL

\* No client receives a torn or overtaken package, or one more often than its message
\* lists the client's descriptor, however OnWrite cuts the output and although OnEventfd
\* and the kernel reuse descriptors.
THEOREM OutboundIsWhole == Spec => []OutboundWhole
<1>1. IInv => OutboundWhole
  BY DEF IInv, OutInv, OutboundWhole
<1>2. QED
  BY <1>1, Invariant, PTL
=============================================================================
