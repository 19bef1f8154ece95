-------------------------- MODULE Connector_proofs --------------------------
(***************************************************************************)
(* Proofs about Connector, for any number of requests, of workers of the   *)
(* database server and of broken connections.  The bytes on their way to   *)
(* the database, wherever they are, form one stream, and so do those on    *)
(* their way back; every step takes something off the front of a stream,   *)
(* adds a whole package at its end, or, when the connection breaks, loses  *)
(* a part of it.                                                           *)
(***************************************************************************)
EXTENDS Connector, SequenceTheorems, TLAPS

Byte == [n : Nat, part : {1, 2}]

\* The streams, and the requests that have reached the database server.
Out == (dbBuf \o toServer) \o outBuf
In == inBuf \o toClient
Arrived == served \o dbq

\* The numbers in a sequence, and those of the packages that start in a stream.
Elements(s) == {s[i] : i \in 1..Len(s)}
Headers(s) == {s[i].n : i \in {k \in 1..Len(s) : s[k].part = 1}}
Below(A, B) == \A a \in A, b \in B : a < b

\* The packages of a stream start in the order of their numbers; a whole stream consists
\* of packages from their first to their last byte.
Ascends(s) == \A i, j \in 1..Len(s) : i < j /\ s[i].part = 1 /\ s[j].part = 1 => s[i].n < s[j].n
Whole(s) == Framed(s) /\ Len(s) % 2 = 0

TypeInv ==
  /\ link \in {"up", "down"} /\ success \in BOOLEAN
  /\ inBuf \in Seq(Byte) /\ outBuf \in Seq(Byte) /\ dbBuf \in Seq(Byte)
  /\ toServer \in Seq(Byte) /\ toClient \in Seq(Byte)
  /\ dbq \in Seq(Nat) /\ served \in Seq(Nat) /\ answered \in Seq(Nat)
  /\ replies \in Seq(Nat) /\ working \subseteq Nat
  /\ npush \in Nat /\ breaks \in Nat /\ misread \in BOOLEAN
  /\ link = "down" => toServer = <<>> /\ toClient = <<>> /\ dbBuf = <<>>

\* What arrived is older than what is under way, and what came back has been pushed.
OrderInv ==
  /\ Increasing(Arrived) /\ Ascends(Out) /\ Below(Elements(Arrived), Headers(Out))
  /\ Elements(Arrived) \cup Headers(Out) \subseteq 1..npush
  /\ Increasing(answered) /\ Ascends(In) /\ Below(Elements(answered), Headers(In))
  /\ Elements(answered) \cup Headers(In) \subseteq 1..Len(replies)

\* A request that a worker has taken is not answered yet, or answered once.
WorkInv ==
  /\ Distinct(replies)
  /\ Elements(replies) \cup working \subseteq Elements(served)
  /\ working \cap Elements(replies) = {}

\* Until the connection breaks the streams are whole and hold every request and answer.
FirstInv ==
  /\ ~misread
  /\ success <=> link = "up"
  /\ IF success THEN events = Interest(outBuf) ELSE outBuf = <<>>
  /\ Whole(Out) /\ Whole(In)
  /\ accepted \subseteq Elements(Arrived) \cup Headers(Out)
  /\ 1..Len(replies) \subseteq Elements(answered) \cup Headers(In)

StreamInv == (~misread => OrderInv) /\ WorkInv /\ (breaks = 0 => FirstInv)

IInv == TypeInv /\ StreamInv
-----------------------------------------------------------------------------
(***************************************************************************)
(* Sequences.                                                              *)
(***************************************************************************)
LEMMA SplitAt ==
  ASSUME NEW S, NEW s \in Seq(S), NEW n \in 0..Len(s)
  PROVE  /\ SubSeq(s, 1, n) \in Seq(S) /\ SubSeq(s, n + 1, Len(s)) \in Seq(S)
         /\ Len(SubSeq(s, 1, n)) = n
         /\ SubSeq(s, 1, n) \o SubSeq(s, n + 1, Len(s)) = s
<1>1. Len(s) \in Nat /\ n \in Nat /\ \A i \in 1..Len(s) : s[i] \in S
  BY ElementOfSeq
<1>2. \A i \in 1..n : s[i] \in S
  BY <1>1
<1>3. \A i \in (n + 1)..Len(s) : s[i] \in S
  BY <1>1
<1>4. SubSeq(s, 1, n) \in Seq(S) /\ Len(SubSeq(s, 1, n)) = IF 1 <= n THEN n - 1 + 1 ELSE 0
  BY <1>1, <1>2, SubSeqProperties
<1>5. SubSeq(s, n + 1, Len(s)) \in Seq(S)
  BY <1>1, <1>3, SubSeqProperties
<1>6. /\ 1 \in 1..(Len(s) + 1) /\ n \in (1 - 1)..Len(s) /\ Len(s) \in n..Len(s)
  BY <1>1
<1>7. SubSeq(s, 1, n) \o SubSeq(s, n + 1, Len(s)) = SubSeq(s, 1, Len(s))
  BY <1>6, ConcatAdjacentSubSeq
<1>8. Len(SubSeq(s, 1, n)) = n
  BY <1>1, <1>4
<1>9. SubSeq(s, 1, Len(s)) = s
  BY SubSeqFull
<1>10. QED
  BY <1>4, <1>5, <1>7, <1>8, <1>9

\* What is in s \o t, and where.
LEMMA InConcat ==
  ASSUME NEW S, NEW s \in Seq(S), NEW t \in Seq(S)
  PROVE  /\ s \o t \in Seq(S) /\ Len(s \o t) = Len(s) + Len(t)
         /\ Len(s) \in Nat /\ Len(t) \in Nat
         /\ \A i \in 1..Len(s) : i \in 1..Len(s \o t) /\ (s \o t)[i] = s[i]
         /\ \A i \in 1..Len(t) : Len(s) + i \in 1..Len(s \o t) /\ (s \o t)[Len(s) + i] = t[i]
         /\ \A i \in 1..Len(s \o t) : i \in 1..Len(s) \/ \E k \in 1..Len(t) : i = Len(s) + k
<1>1. Len(s) \in Nat /\ Len(t) \in Nat
  OBVIOUS
<1>2. /\ s \o t \in Seq(S) /\ Len(s \o t) = Len(s) + Len(t)
      /\ \A i \in 1..(Len(s) + Len(t)) : (s \o t)[i] = IF i <= Len(s) THEN s[i] ELSE t[i - Len(s)]
  BY ConcatProperties
<1>3. \A i \in 1..Len(s) : i \in 1..Len(s \o t) /\ (s \o t)[i] = s[i]
  BY <1>1, <1>2
<1>4. ASSUME NEW i \in 1..Len(t)
      PROVE  Len(s) + i \in 1..Len(s \o t) /\ (s \o t)[Len(s) + i] = t[i]
  <2>1. Len(s) + i \in 1..(Len(s) + Len(t)) /\ ~(Len(s) + i <= Len(s)) /\ (Len(s) + i) - Len(s) = i
    BY <1>1
  <2>2. QED
    BY <1>2, <2>1
<1>5. ASSUME NEW i \in 1..Len(s \o t), i \notin 1..Len(s)
      PROVE  \E k \in 1..Len(t) : i = Len(s) + k
  <2>1. i - Len(s) \in 1..Len(t) /\ i = Len(s) + (i - Len(s))
    BY <1>1, <1>2, <1>5
  <2>2. QED
    BY <2>1
<1>6. QED
  BY <1>1, <1>2, <1>3, <1>4, <1>5

\* Numbers that increase, in a concatenation.
LEMMA ElementsConcat ==
  ASSUME NEW s \in Seq(Nat), NEW t \in Seq(Nat)
  PROVE  /\ Elements(s \o t) = Elements(s) \cup Elements(t)
         /\ Increasing(s \o t) <=> Increasing(s) /\ Increasing(t) /\ Below(Elements(s), Elements(t))
<1>1. /\ Len(s \o t) = Len(s) + Len(t) /\ Len(s) \in Nat /\ Len(t) \in Nat
      /\ \A i \in 1..Len(s) : i \in 1..Len(s \o t) /\ (s \o t)[i] = s[i]
      /\ \A i \in 1..Len(t) : Len(s) + i \in 1..Len(s \o t) /\ (s \o t)[Len(s) + i] = t[i]
      /\ \A i \in 1..Len(s \o t) : i \in 1..Len(s) \/ \E k \in 1..Len(t) : i = Len(s) + k
  BY InConcat
<1>2. Elements(s \o t) = Elements(s) \cup Elements(t)
  <2>1. \A x \in Elements(s \o t) : x \in Elements(s) \/ x \in Elements(t)
    BY <1>1 DEF Elements
  <2>2. \A x \in Elements(s) : x \in Elements(s \o t)
    BY <1>1 DEF Elements
  <2>3. \A x \in Elements(t) : x \in Elements(s \o t)
    BY <1>1 DEF Elements
  <2>4. QED
    BY <2>1, <2>2, <2>3
<1>3. ASSUME Increasing(s), Increasing(t), Below(Elements(s), Elements(t))
      PROVE  Increasing(s \o t)
  <2>1. SUFFICES ASSUME NEW i \in 1..Len(s \o t), NEW j \in 1..Len(s \o t), i < j
                 PROVE  (s \o t)[i] < (s \o t)[j]
    BY DEF Increasing
  <2>2. CASE j \in 1..Len(s)
    <3>1. i \in 1..Len(s)
      BY <1>1, <2>1, <2>2
    <3>2. QED
      BY <1>1, <1>3, <2>1, <2>2, <3>1 DEF Increasing
  <2>3. CASE j \notin 1..Len(s)
    <3>1. PICK l \in 1..Len(t) : j = Len(s) + l
      BY <1>1, <2>3
    <3>2. CASE i \in 1..Len(s)
      BY <1>1, <1>3, <3>1, <3>2 DEF Below, Elements
    <3>3. CASE i \notin 1..Len(s)
      <4>1. PICK k \in 1..Len(t) : i = Len(s) + k
        BY <1>1, <3>3
      <4>2. k < l
        BY <1>1, <2>1, <3>1, <4>1
      <4>3. QED
        BY <1>1, <1>3, <3>1, <4>1, <4>2 DEF Increasing
    <3>4. QED
      BY <3>2, <3>3
  <2>4. QED
    BY <2>2, <2>3
<1>4. ASSUME Increasing(s \o t)
      PROVE  Increasing(s) /\ Increasing(t) /\ Below(Elements(s), Elements(t))
  <2>1. Increasing(s)
    <3>1. SUFFICES ASSUME NEW i \in 1..Len(s), NEW j \in 1..Len(s), i < j PROVE s[i] < s[j]
      BY DEF Increasing
    <3>2. (s \o t)[i] < (s \o t)[j]
      BY <1>1, <1>4, <3>1 DEF Increasing
    <3>3. QED
      BY <1>1, <3>2
  <2>2. Increasing(t)
    <3>1. SUFFICES ASSUME NEW i \in 1..Len(t), NEW j \in 1..Len(t), i < j PROVE t[i] < t[j]
      BY DEF Increasing
    <3>2. Len(s) + i < Len(s) + j
      BY <1>1, <3>1
    <3>3. (s \o t)[Len(s) + i] < (s \o t)[Len(s) + j]
      BY <1>1, <1>4, <3>2 DEF Increasing
    <3>4. QED
      BY <1>1, <3>3
  <2>3. Below(Elements(s), Elements(t))
    <3>1. SUFFICES ASSUME NEW i \in 1..Len(s), NEW j \in 1..Len(t) PROVE s[i] < t[j]
      BY DEF Below, Elements
    <3>2. i < Len(s) + j
      BY <1>1
    <3>3. (s \o t)[i] < (s \o t)[Len(s) + j]
      BY <1>1, <1>4, <3>2 DEF Increasing
    <3>4. QED
      BY <1>1, <3>3
  <2>4. QED
    BY <2>1, <2>2, <2>3
<1>5. QED
  BY <1>2, <1>3, <1>4

\* Packages that start in order, in a concatenation.
LEMMA HeadersConcat ==
  ASSUME NEW s \in Seq(Byte), NEW t \in Seq(Byte)
  PROVE  /\ Headers(s \o t) = Headers(s) \cup Headers(t)
         /\ Ascends(s \o t) <=> Ascends(s) /\ Ascends(t) /\ Below(Headers(s), Headers(t))
<1>1. /\ Len(s \o t) = Len(s) + Len(t) /\ Len(s) \in Nat /\ Len(t) \in Nat
      /\ \A i \in 1..Len(s) : i \in 1..Len(s \o t) /\ (s \o t)[i] = s[i]
      /\ \A i \in 1..Len(t) : Len(s) + i \in 1..Len(s \o t) /\ (s \o t)[Len(s) + i] = t[i]
      /\ \A i \in 1..Len(s \o t) : i \in 1..Len(s) \/ \E k \in 1..Len(t) : i = Len(s) + k
  BY InConcat
<1>2. Headers(s \o t) = Headers(s) \cup Headers(t)
  <2>1. ASSUME NEW i \in 1..Len(s \o t), (s \o t)[i].part = 1
        PROVE  (s \o t)[i].n \in Headers(s) \cup Headers(t)
    <3>1. CASE i \in 1..Len(s)
      BY <1>1, <2>1, <3>1 DEF Headers
    <3>2. CASE i \notin 1..Len(s)
      <4>1. PICK k \in 1..Len(t) : i = Len(s) + k
        BY <1>1, <3>2
      <4>2. t[k].part = 1 /\ t[k].n = (s \o t)[i].n
        BY <1>1, <2>1, <4>1
      <4>3. QED
        BY <4>2 DEF Headers
    <3>3. QED
      BY <3>1, <3>2
  <2>2. ASSUME NEW i \in 1..Len(s), s[i].part = 1 PROVE s[i].n \in Headers(s \o t)
    BY <1>1, <2>2 DEF Headers
  <2>3. ASSUME NEW i \in 1..Len(t), t[i].part = 1 PROVE t[i].n \in Headers(s \o t)
    <3>1. Len(s) + i \in {k \in 1..Len(s \o t) : (s \o t)[k].part = 1}
      BY <1>1, <2>3
    <3>2. QED
      BY <1>1, <3>1 DEF Headers
  <2>4. QED
    BY <2>1, <2>2, <2>3 DEF Headers
<1>3. ASSUME Ascends(s), Ascends(t), Below(Headers(s), Headers(t))
      PROVE  Ascends(s \o t)
  <2>1. SUFFICES ASSUME NEW i \in 1..Len(s \o t), NEW j \in 1..Len(s \o t), i < j,
                        (s \o t)[i].part = 1, (s \o t)[j].part = 1
                 PROVE  (s \o t)[i].n < (s \o t)[j].n
    BY DEF Ascends
  <2>2. CASE j \in 1..Len(s)
    <3>1. i \in 1..Len(s)
      BY <1>1, <2>1, <2>2
    <3>2. QED
      BY <1>1, <1>3, <2>1, <2>2, <3>1 DEF Ascends
  <2>3. CASE j \notin 1..Len(s)
    <3>1. PICK l \in 1..Len(t) : j = Len(s) + l
      BY <1>1, <2>3
    <3>2. CASE i \in 1..Len(s)
      <4>1. s[i].n \in Headers(s) /\ t[l].n \in Headers(t)
        BY <1>1, <2>1, <3>1, <3>2 DEF Headers
      <4>2. QED
        BY <1>1, <1>3, <3>1, <3>2, <4>1 DEF Below
    <3>3. CASE i \notin 1..Len(s)
      <4>1. PICK k \in 1..Len(t) : i = Len(s) + k
        BY <1>1, <3>3
      <4>2. k < l
        BY <1>1, <2>1, <3>1, <4>1
      <4>3. QED
        BY <1>1, <1>3, <2>1, <3>1, <4>1, <4>2 DEF Ascends
    <3>4. QED
      BY <3>2, <3>3
  <2>4. QED
    BY <2>2, <2>3
<1>4. ASSUME Ascends(s \o t)
      PROVE  Ascends(s) /\ Ascends(t) /\ Below(Headers(s), Headers(t))
  <2>1. Ascends(s)
    <3>1. SUFFICES ASSUME NEW i \in 1..Len(s), NEW j \in 1..Len(s), i < j, s[i].part = 1, s[j].part = 1
                   PROVE  s[i].n < s[j].n
      BY DEF Ascends
    <3>2. (s \o t)[i].n < (s \o t)[j].n
      BY <1>1, <1>4, <3>1 DEF Ascends
    <3>3. QED
      BY <1>1, <3>2
  <2>2. Ascends(t)
    <3>1. SUFFICES ASSUME NEW i \in 1..Len(t), NEW j \in 1..Len(t), i < j, t[i].part = 1, t[j].part = 1
                   PROVE  t[i].n < t[j].n
      BY DEF Ascends
    <3>2. Len(s) + i < Len(s) + j
      BY <1>1, <3>1
    <3>3. (s \o t)[Len(s) + i].n < (s \o t)[Len(s) + j].n
      BY <1>1, <1>4, <3>1, <3>2 DEF Ascends
    <3>4. QED
      BY <1>1, <3>3
  <2>3. Below(Headers(s), Headers(t))
    <3>1. SUFFICES ASSUME NEW i \in 1..Len(s), NEW j \in 1..Len(t), s[i].part = 1, t[j].part = 1
                   PROVE  s[i].n < t[j].n
      BY DEF Below, Headers
    <3>2. i < Len(s) + j
      BY <1>1
    <3>3. (s \o t)[i].n < (s \o t)[Len(s) + j].n
      BY <1>1, <1>4, <3>1, <3>2 DEF Ascends
    <3>4. QED
      BY <1>1, <3>3
  <2>4. QED
    BY <2>1, <2>2, <2>3
<1>5. QED
  BY <1>2, <1>3, <1>4

\* The front of a framed stream is framed; and so is the rest, behind whole packages.
LEMMA FramedConcat ==
  ASSUME NEW s \in Seq(Byte), NEW t \in Seq(Byte)
  PROVE  /\ Framed(s \o t) => Framed(s)
         /\ Whole(s) => (Whole(s \o t) <=> Whole(t))
<1>1. /\ Len(s \o t) = Len(s) + Len(t) /\ Len(s) \in Nat /\ Len(t) \in Nat
      /\ \A i \in 1..Len(s) : i \in 1..Len(s \o t) /\ (s \o t)[i] = s[i]
      /\ \A i \in 1..Len(t) : Len(s) + i \in 1..Len(s \o t) /\ (s \o t)[Len(s) + i] = t[i]
      /\ \A i \in 1..Len(s \o t) : i \in 1..Len(s) \/ \E k \in 1..Len(t) : i = Len(s) + k
  BY InConcat
<1>2. ASSUME Framed(s \o t) PROVE Framed(s)
  BY <1>1, <1>2 DEF Framed
<1>3. ASSUME Whole(s) PROVE Whole(s \o t) <=> Whole(t)
  <2>1. PICK n \in Nat : n = Len(s) /\ n % 2 = 0
    BY <1>1, <1>3 DEF Whole
  <2>2. \A m \in Nat : (n + m) % 2 = m % 2
    BY <2>1
  <2>3. Len(s \o t) % 2 = Len(t) % 2
    BY <1>1, <2>1, <2>2
  <2>4. ASSUME Framed(s \o t) PROVE Framed(t)
    <3>1. SUFFICES ASSUME NEW i \in 1..Len(t) PROVE t[i].part = IF i % 2 = 1 THEN 1 ELSE 2
      BY DEF Framed
    <3>2. (s \o t)[Len(s) + i].part = IF (Len(s) + i) % 2 = 1 THEN 1 ELSE 2
      BY <1>1, <2>4 DEF Framed
    <3>3. (Len(s) + i) % 2 = i % 2
      BY <2>1, <2>2
    <3>4. QED
      BY <1>1, <3>2, <3>3
  <2>5. ASSUME Framed(t) PROVE Framed(s \o t)
    <3>1. SUFFICES ASSUME NEW i \in 1..Len(s \o t)
                   PROVE  (s \o t)[i].part = IF i % 2 = 1 THEN 1 ELSE 2
      BY DEF Framed
    <3>2. CASE i \in 1..Len(s)
      BY <1>1, <1>3, <3>2 DEF Whole, Framed
    <3>3. CASE i \notin 1..Len(s)
      <4>1. PICK k \in 1..Len(t) : i = Len(s) + k
        BY <1>1, <3>3
      <4>2. i % 2 = k % 2
        BY <2>1, <2>2, <4>1
      <4>3. QED
        BY <1>1, <2>5, <4>1, <4>2 DEF Framed
    <3>4. QED
      BY <3>2, <3>3
  <2>6. QED
    BY <2>3, <2>4, <2>5 DEF Whole
<1>4. QED
  BY <1>2, <1>3

\* A package is whole and starts with its number.
LEMMA BytesFacts ==
  ASSUME NEW n \in Nat
  PROVE  /\ Bytes(n) \in Seq(Byte) /\ Headers(Bytes(n)) = {n}
         /\ Ascends(Bytes(n)) /\ Whole(Bytes(n))
<1>1. PICK b : b = Bytes(n)
  OBVIOUS
<1>2. /\ b \in Seq(Byte) /\ Len(b) = 2 /\ 1..Len(b) = {1, 2}
      /\ b[1].n = n /\ b[1].part = 1 /\ b[2].part = 2
  BY <1>1 DEF Bytes, Byte
<1>3. Headers(b) = {n}
  BY <1>2 DEF Headers
<1>4. Ascends(b)
  BY <1>2 DEF Ascends
<1>5. Whole(b)
  BY <1>2 DEF Whole, Framed
<1>6. QED
  BY <1>1, <1>2, <1>3, <1>4, <1>5

\* Reading takes the whole packages off the front of a buffer; if it is framed their
\* numbers are those of the packages.
LEMMA PackagesFacts ==
  ASSUME NEW buf \in Seq(Byte)
  PROVE  /\ Packages(buf) \in Seq(Nat) /\ Rest(buf) \in Seq(Byte)
         /\ \E front \in Seq(Byte) :
              /\ front \o Rest(buf) = buf
              /\ Framed(buf) =>
                   /\ Whole(front) /\ Elements(Packages(buf)) = Headers(front)
                   /\ Ascends(front) => Increasing(Packages(buf))
<1>1. PICK k \in Nat : k = Len(buf) \div 2 /\ 2 * k <= Len(buf)
  <2>1. PICK l \in Nat : l = Len(buf)
    OBVIOUS
  <2>2. l \div 2 \in Nat /\ 2 * (l \div 2) <= l
    BY <2>1
  <2>3. QED
    BY <2>1, <2>2
<1>2. Len(buf) \in Nat /\ \A i \in 1..Len(buf) : buf[i].n \in Nat
  <2>1. \A i \in 1..Len(buf) : buf[i] \in Byte
    BY ElementOfSeq
  <2>2. QED
    BY <2>1 DEF Byte
<1>3. PICK pk : pk = Packages(buf)
  OBVIOUS
<1>4. \A i \in 1..k : 2 * i - 1 \in 1..(2 * k) /\ (2 * i - 1) % 2 = 1
  BY <1>1
<1>5. pk = [i \in 1..k |-> buf[2 * i - 1].n]
  BY <1>1, <1>3 DEF Packages
<1>6. pk \in Seq(Nat) /\ Len(pk) = k /\ \A i \in 1..k : pk[i] = buf[2 * i - 1].n
  <2>1. \A i \in 1..k : buf[2 * i - 1].n \in Nat
    BY <1>1, <1>2, <1>4
  <2>2. QED
    BY <1>5, <2>1
<1>7. PICK front : front = SubSeq(buf, 1, 2 * k)
  OBVIOUS
<1>8. /\ front \in Seq(Byte) /\ Rest(buf) \in Seq(Byte) /\ front \o Rest(buf) = buf
      /\ Len(front) = 2 * k
  <2>1. 2 * k \in 0..Len(buf)
    BY <1>1, <1>2
  <2>2. QED
    BY <1>1, <1>7, <2>1, SplitAt DEF Rest
<1>9. \A i \in 1..(2 * k) : front[i] = buf[i]
  BY <1>8, InConcat
<1>10. ASSUME Framed(buf)
       PROVE  /\ Whole(front) /\ Elements(pk) = Headers(front)
              /\ Ascends(front) => Increasing(pk)
  <2>1. Framed(front)
    <3>1. Framed(front \o Rest(buf))
      BY <1>8, <1>10, Zenon
    <3>2. QED
      BY <1>8, <3>1, FramedConcat, Zenon
  <2>2. Whole(front)
    BY <1>1, <1>8, <2>1 DEF Whole
  <2>3. \A i \in 1..k : /\ 2 * i - 1 \in 1..Len(front)
                        /\ front[2 * i - 1].part = 1 /\ front[2 * i - 1].n = pk[i]
    BY <1>4, <1>6, <1>8, <1>9, <2>1 DEF Framed
  <2>4. ASSUME NEW j \in 1..Len(front), front[j].part = 1
        PROVE  \E i \in 1..k : j = 2 * i - 1
    <3>1. j % 2 = 1
      BY <2>1, <2>4 DEF Framed
    <3>2. PICK m \in Nat : m = j /\ m % 2 = 1 /\ 1 <= m /\ m <= 2 * k
      BY <1>8, <3>1
    <3>3. (m + 1) \div 2 \in 1..k /\ m = 2 * ((m + 1) \div 2) - 1
      BY <3>2
    <3>4. QED
      BY <3>2, <3>3
  <2>5. Elements(pk) = Headers(front)
    <3>1. Elements(pk) \subseteq Headers(front)
      BY <1>6, <2>3 DEF Elements, Headers
    <3>2. ASSUME NEW j \in 1..Len(front), front[j].part = 1 PROVE front[j].n \in Elements(pk)
      <4>1. PICK i \in 1..k : j = 2 * i - 1
        BY <2>4, <3>2
      <4>2. QED
        BY <1>6, <2>3, <4>1 DEF Elements
    <3>3. QED
      BY <3>1, <3>2 DEF Headers
  <2>6. ASSUME Ascends(front) PROVE Increasing(pk)
    <3>1. SUFFICES ASSUME NEW i \in 1..k, NEW j \in 1..k, i < j PROVE pk[i] < pk[j]
      BY <1>6 DEF Increasing
    <3>2. 2 * i - 1 < 2 * j - 1
      BY <3>1
    <3>3. QED
      BY <2>3, <2>6, <3>2 DEF Ascends
  <2>7. QED
    BY <2>2, <2>5, <2>6
<1>11. QED
  BY <1>3, <1>6, <1>8, <1>10
-----------------------------------------------------------------------------
(***************************************************************************)
(* The streams.                                                            *)
(***************************************************************************)
LEMMA StreamTypes ==
  ASSUME TypeInv
  PROVE  /\ Out \in Seq(Byte) /\ In \in Seq(Byte) /\ Arrived \in Seq(Nat)
         /\ dbBuf \o toServer \in Seq(Byte)
  BY ConcatProperties DEF TypeInv, Out, In, Arrived

\* Bytes that are taken off the front of a sequence.
LEMMA Cut ==
  ASSUME NEW s \in Seq(Byte), NEW n \in 0..Len(s)
  PROVE  \E f, left \in Seq(Byte) :
           /\ f = SubSeq(s, 1, n) /\ left = SubSeq(s, n + 1, Len(s)) /\ s = f \o left
<1>1. /\ SubSeq(s, 1, n) \in Seq(Byte) /\ SubSeq(s, n + 1, Len(s)) \in Seq(Byte)
      /\ SubSeq(s, 1, n) \o SubSeq(s, n + 1, Len(s)) = s
  BY SplitAt
<1>2. QED
  BY <1>1, Zenon

LEMMA Regroup ==
  ASSUME NEW s \in Seq(Byte), NEW t \in Seq(Byte), NEW u \in Seq(Byte)
  PROVE  (s \o t) \o u = s \o (t \o u)
  BY ConcatAssociative

LEMMA RegroupNumbers ==
  ASSUME NEW s \in Seq(Nat), NEW t \in Seq(Nat), NEW u \in Seq(Nat)
  PROVE  (s \o t) \o u = s \o (t \o u)
  BY ConcatAssociative

LEMMA One ==
  ASSUME NEW h \in Nat
  PROVE  \E one \in Seq(Nat) : one = <<h>> /\ Elements(one) = {h}
<1>1. PICK one : one = <<h>>
  OBVIOUS
<1>2. one \in Seq(Nat) /\ Len(one) = 1 /\ 1..1 = {1} /\ one[1] = h
  BY <1>1
<1>3. Elements(one) = {h}
  BY <1>2 DEF Elements
<1>4. QED
  BY <1>1, <1>2, <1>3

\* A sequence is its first element and the others.
LEMMA HeadTailIsConcat ==
  ASSUME NEW s \in Seq(Nat), s # <<>>
  PROVE  s = <<Head(s)>> \o Tail(s)
<1>1. PICK h \in Nat, t \in Seq(Nat) :
        /\ h = Head(s) /\ t = Tail(s) /\ Len(t) = Len(s) - 1
        /\ \A i \in 1..Len(t) : t[i] = s[i + 1]
  <2>1. /\ Head(s) \in Nat /\ Tail(s) \in Seq(Nat) /\ Len(Tail(s)) = Len(s) - 1
        /\ \A i \in 1..Len(Tail(s)) : Tail(s)[i] = s[i + 1]
    BY HeadTailProperties
  <2>2. QED
    BY <2>1, Zenon
<1>2. h = s[1] /\ Len(s) \in Nat /\ Len(s) # 0
  BY <1>1, EmptySeq
<1>3. PICK one : one = <<h>> /\ Len(one) = 1 /\ one[1] = h /\ one \in Seq(Nat)
  <2>1. PICK one : one = <<h>>
    OBVIOUS
  <2>2. Len(one) = 1 /\ one[1] = h /\ one \in Seq(Nat)
    BY <2>1
  <2>3. QED
    BY <2>1, <2>2
<1>4. PICK w : w = one \o t
  OBVIOUS
<1>5. /\ w \in Seq(Nat) /\ Len(w) = Len(one) + Len(t)
      /\ \A i \in 1..(Len(one) + Len(t)) : w[i] = IF i <= Len(one) THEN one[i] ELSE t[i - Len(one)]
  BY <1>3, <1>4, ConcatProperties
<1>6. Len(w) = Len(s)
  BY <1>1, <1>2, <1>3, <1>5
<1>7. ASSUME NEW i \in 1..Len(s) PROVE w[i] = s[i]
  <2>1. CASE i = 1
    BY <1>2, <1>3, <1>5, <1>6, <2>1
  <2>2. CASE i # 1
    <3>1. i - 1 \in 1..Len(t) /\ (i - 1) + 1 = i /\ ~(i <= 1)
      BY <1>1, <1>2, <2>2
    <3>2. QED
      BY <1>1, <1>2, <1>3, <1>5, <1>6, <3>1
  <2>3. QED
    BY <2>1, <2>2
<1>8. w = s
  BY <1>5, <1>6, <1>7, SeqEqual
<1>9. QED
  BY <1>1, <1>3, <1>4, <1>8

\* A receiver that has held bytes takes the bytes f off the wire and leaves some.
LEMMA Taken ==
  ASSUME NEW held \in Seq(Byte), NEW f \in Seq(Byte), NEW left \in Seq(Byte)
  PROVE  /\ Packages(held \o f) \in Seq(Nat) /\ Rest(held \o f) \in Seq(Byte)
         /\ Framed(held \o (f \o left)) => Framed(held \o f)
         /\ \E front \in Seq(Byte) :
              /\ held \o (f \o left) = front \o (Rest(held \o f) \o left)
              /\ Framed(held \o f) =>
                   /\ Whole(front) /\ Elements(Packages(held \o f)) = Headers(front)
                   /\ Ascends(front) => Increasing(Packages(held \o f))
<1>1. PICK buf \in Seq(Byte) : buf = held \o f
  BY ConcatProperties
<1>2. held \o (f \o left) = buf \o left
  <2>1. (held \o f) \o left = held \o (f \o left)
    BY Regroup, Zenon
  <2>2. QED
    BY <1>1, <2>1
<1>3. Framed(held \o (f \o left)) => Framed(buf)
  BY <1>2, FramedConcat
<1>4. Packages(buf) \in Seq(Nat) /\ Rest(buf) \in Seq(Byte)
  BY PackagesFacts
<1>5. PICK front \in Seq(Byte) :
        /\ front \o Rest(buf) = buf
        /\ Framed(buf) =>
             /\ Whole(front) /\ Elements(Packages(buf)) = Headers(front)
             /\ Ascends(front) => Increasing(Packages(buf))
  BY PackagesFacts
<1>6. buf \o left = front \o (Rest(buf) \o left)
  <2>1. PICK r \in Seq(Byte) : r = Rest(buf)
    BY <1>4
  <2>2. (front \o r) \o left = front \o (r \o left)
    BY Regroup, Zenon
  <2>3. QED
    BY <1>5, <2>1, <2>2
<1>7. QED
  BY <1>1, <1>2, <1>3, <1>4, <1>5, <1>6

\* The order after it: what was at the front of the stream has joined what came out of it.
LEMMA Moved ==
  ASSUME NEW a \in Seq(Nat), NEW p \in Seq(Nat), NEW front \in Seq(Byte), NEW rest \in Seq(Byte),
         Increasing(a), Ascends(front \o rest), Below(Elements(a), Headers(front \o rest)),
         Elements(p) = Headers(front), Ascends(front) => Increasing(p)
  PROVE  /\ Increasing(a \o p) /\ Ascends(rest) /\ Below(Elements(a \o p), Headers(rest))
         /\ Elements(a \o p) \cup Headers(rest) = Elements(a) \cup Headers(front \o rest)
<1>1. /\ Ascends(front) /\ Ascends(rest) /\ Below(Headers(front), Headers(rest))
      /\ Headers(front \o rest) = Headers(front) \cup Headers(rest)
  BY HeadersConcat
<1>2. /\ Elements(a \o p) = Elements(a) \cup Elements(p)
      /\ Increasing(a \o p) <=> Increasing(a) /\ Increasing(p) /\ Below(Elements(a), Elements(p))
  BY ElementsConcat
<1>3. Below(Elements(a), Elements(p))
  BY <1>1 DEF Below
<1>4. Below(Elements(a \o p), Headers(rest))
  BY <1>1, <1>2 DEF Below
<1>5. QED
  BY <1>1, <1>2, <1>3, <1>4

LEMMA InitInv == Init => IInv
<1> SUFFICES ASSUME Init PROVE IInv
  OBVIOUS
<1>1. TypeInv
  <2>1. <<>> \in Seq(Byte) /\ <<>> \in Seq(Nat)
    OBVIOUS
  <2>2. QED
    BY <2>1 DEF Init, TypeInv
<1>2. /\ Out = <<>> /\ In = <<>> /\ Arrived = <<>> /\ answered = <<>> /\ served = <<>>
      /\ replies = <<>> /\ working = {}
  BY DEF Init, Out, In, Arrived
<1>3. /\ Elements(Arrived) = {} /\ Headers(Out) = {} /\ Elements(answered) = {} /\ Headers(In) = {}
      /\ Elements(replies) = {} /\ 1..Len(replies) = {}
  BY <1>2 DEF Elements, Headers
<1>4. OrderInv
  BY <1>2, <1>3 DEF OrderInv, Increasing, Ascends, Below
<1>5. FirstInv
  BY <1>2, <1>3 DEF Init, FirstInv, Whole, Framed
<1>6. WorkInv
  BY <1>2, <1>3 DEF WorkInv, Distinct
<1>7. QED
  BY <1>1, <1>4, <1>5, <1>6 DEF IInv, StreamInv
-----------------------------------------------------------------------------
(***************************************************************************)
(* The steps.                                                              *)
(***************************************************************************)
LEMMA TypeStep == TypeInv /\ [Next]_vars => TypeInv'
<1> SUFFICES ASSUME TypeInv, [Next]_vars PROVE TypeInv'
  OBVIOUS
<1>1. CASE OnTryConnect
  BY <1>1 DEF OnTryConnect, TypeInv, requests, wires, server, workers
<1>2. CASE OnEventfd
  <2>1. outBuf \in Seq(Byte) /\ npush \in Nat /\ npush + 1 \in Nat
    BY DEF TypeInv
  <2>2. PICK b \in Seq(Byte) : b = Bytes(npush + 1)
    BY <2>1, BytesFacts
  <2>3. outBuf \o b \in Seq(Byte)
    BY <2>1, ConcatProperties
  <2>4. outBuf' \in Seq(Byte) /\ npush' \in Nat
    BY <1>2, <2>1, <2>2, <2>3 DEF OnEventfd
  <2>5. QED
    BY <1>2, <2>4 DEF OnEventfd, TypeInv, wires, server, workers
<1>3. CASE OnWrite
  <2>1. outBuf \in Seq(Byte) /\ toServer \in Seq(Byte)
    BY DEF TypeInv
  <2>2. PICK n \in 0..Len(outBuf) :
          /\ toServer' = IF link = "up" THEN toServer \o SubSeq(outBuf, 1, n) ELSE toServer
          /\ outBuf' = SubSeq(outBuf, n + 1, Len(outBuf))
    BY <1>3 DEF OnWrite
  <2>3. SubSeq(outBuf, 1, n) \in Seq(Byte) /\ SubSeq(outBuf, n + 1, Len(outBuf)) \in Seq(Byte)
    BY <2>1, SplitAt
  <2>4. toServer \o SubSeq(outBuf, 1, n) \in Seq(Byte)
    BY <2>1, <2>3, ConcatProperties
  <2>5. /\ outBuf' \in Seq(Byte) /\ toServer' \in Seq(Byte)
        /\ link = "down" => toServer' = toServer
    BY <2>1, <2>2, <2>3, <2>4
  <2>6. QED
    BY <1>3, <2>5 DEF OnWrite, TypeInv, requests, server, workers
<1>4. CASE OnRead
  <2>1. /\ inBuf \in Seq(Byte) /\ toClient \in Seq(Byte) /\ Len(toClient) \in Nat
        /\ answered \in Seq(Nat)
    BY DEF TypeInv
  <2>2. PICK n \in 1..Len(toClient) :
          /\ toClient' = SubSeq(toClient, n + 1, Len(toClient))
          /\ answered' = answered \o Packages(inBuf \o SubSeq(toClient, 1, n))
          /\ inBuf' = Rest(inBuf \o SubSeq(toClient, 1, n))
          /\ misread' = ~Framed(inBuf \o SubSeq(toClient, 1, n))
    BY <1>4 DEF OnRead
  <2>3. PICK f, left \in Seq(Byte) :
          f = SubSeq(toClient, 1, n) /\ left = SubSeq(toClient, n + 1, Len(toClient))
    <3>1. n \in 0..Len(toClient)
      BY <2>1
    <3>2. QED
      BY <2>1, <3>1, Cut
  <2>4. PICK buf : buf = inBuf \o f
    OBVIOUS
  <2>5. Packages(buf) \in Seq(Nat) /\ Rest(buf) \in Seq(Byte)
    BY <2>1, <2>4, Taken
  <2>6. answered \o Packages(buf) \in Seq(Nat)
    BY <2>1, <2>5, ConcatProperties
  <2>7. /\ answered' \in Seq(Nat) /\ inBuf' \in Seq(Byte) /\ toClient' \in Seq(Byte)
        /\ misread' \in BOOLEAN /\ link = "up"
    BY <1>4, <2>2, <2>3, <2>4, <2>5, <2>6 DEF OnRead
  <2>8. QED
    BY <1>4, <2>5, <2>7 DEF OnRead, TypeInv, requests, server, workers
<1>5. CASE OnFdClosed
  BY <1>5 DEF OnFdClosed, TypeInv, requests, wires, server, workers
<1>6. CASE Break
  <2>1. <<>> \in Seq(Byte)
    OBVIOUS
  <2>2. QED
    BY <1>6, <2>1 DEF Break, TypeInv, game, requests, workers
<1>7. CASE ServerRead
  <2>1. /\ dbBuf \in Seq(Byte) /\ toServer \in Seq(Byte) /\ Len(toServer) \in Nat
        /\ dbq \in Seq(Nat)
    BY DEF TypeInv
  <2>2. PICK n \in 1..Len(toServer) :
          /\ toServer' = SubSeq(toServer, n + 1, Len(toServer))
          /\ dbq' = dbq \o Packages(dbBuf \o SubSeq(toServer, 1, n))
          /\ dbBuf' = Rest(dbBuf \o SubSeq(toServer, 1, n))
          /\ misread' = ~Framed(dbBuf \o SubSeq(toServer, 1, n))
    BY <1>7 DEF ServerRead
  <2>3. PICK f, left \in Seq(Byte) :
          f = SubSeq(toServer, 1, n) /\ left = SubSeq(toServer, n + 1, Len(toServer))
    <3>1. n \in 0..Len(toServer)
      BY <2>1
    <3>2. QED
      BY <2>1, <3>1, Cut
  <2>4. PICK buf : buf = dbBuf \o f
    OBVIOUS
  <2>5. Packages(buf) \in Seq(Nat) /\ Rest(buf) \in Seq(Byte)
    BY <2>1, <2>4, Taken
  <2>6. dbq \o Packages(buf) \in Seq(Nat)
    BY <2>1, <2>5, ConcatProperties
  <2>7. /\ dbq' \in Seq(Nat) /\ dbBuf' \in Seq(Byte) /\ toServer' \in Seq(Byte)
        /\ misread' \in BOOLEAN /\ link # "down"
    BY <1>7, <2>2, <2>3, <2>4, <2>5, <2>6 DEF ServerRead, TypeInv
  <2>8. QED
    BY <1>7, <2>5, <2>7 DEF ServerRead, TypeInv, game, requests, workers
<1>8. CASE MessageDispatch
  <2>1. dbq \in Seq(Nat) /\ dbq # <<>> /\ served \in Seq(Nat) /\ working \subseteq Nat
    BY <1>8 DEF MessageDispatch, TypeInv
  <2>2. PICK h \in Nat : h = Head(dbq)
    BY <2>1, HeadTailProperties
  <2>3. Tail(dbq) \in Seq(Nat)
    BY <2>1, HeadTailProperties
  <2>4. Append(served, h) \in Seq(Nat)
    BY <2>1, <2>2, AppendProperties
  <2>5. dbq' \in Seq(Nat) /\ served' \in Seq(Nat) /\ working' \subseteq Nat
    BY <1>8, <2>1, <2>2, <2>3, <2>4 DEF MessageDispatch
  <2>6. QED
    BY <1>8, <2>5 DEF MessageDispatch, TypeInv, game, requests, wires
<1>9. ASSUME NEW n \in working, ServerAnswer(n) PROVE TypeInv'
  <2>1. n \in Nat /\ replies \in Seq(Nat) /\ toClient \in Seq(Byte) /\ Len(replies) + 1 \in Nat
    BY DEF TypeInv
  <2>2. Append(replies, n) \in Seq(Nat)
    BY <2>1, AppendProperties
  <2>3. PICK b \in Seq(Byte) : b = Bytes(Len(replies) + 1)
    BY <2>1, BytesFacts
  <2>4. toClient \o b \in Seq(Byte)
    BY <2>1, ConcatProperties
  <2>5. /\ replies' \in Seq(Nat) /\ working' \subseteq Nat /\ toClient' \in Seq(Byte)
        /\ link = "down" => toClient' = toClient
    BY <1>9, <2>1, <2>2, <2>3, <2>4 DEF ServerAnswer, MQ2C_Push, TypeInv
  <2>6. QED
    BY <1>9, <2>5 DEF ServerAnswer, TypeInv, game, requests
<1>10. CASE UNCHANGED vars
  BY <1>10 DEF vars, game, requests, wires, server, workers, TypeInv
<1>11. QED
  BY <1>1, <1>2, <1>3, <1>4, <1>5, <1>6, <1>7, <1>8, <1>9, <1>10 DEF Next, SocketThread

LEMMA QuietStep ==
  ASSUME TypeInv, StreamInv, OnTryConnect \/ OnFdClosed \/ UNCHANGED vars
  PROVE  StreamInv'
<1>1. /\ Out' = Out /\ In' = In /\ Arrived' = Arrived /\ npush' = npush /\ breaks' = breaks
      /\ answered' = answered /\ served' = served /\ misread' = misread /\ outBuf' = outBuf
      /\ accepted' = accepted /\ replies' = replies /\ working' = working
  BY DEF OnTryConnect, OnFdClosed, vars, game, requests, wires, server, workers, Out, In, Arrived
<1>2. (misread \/ OrderInv') /\ WorkInv'
  BY <1>1 DEF StreamInv, OrderInv, WorkInv
<1>3. ASSUME breaks = 0 PROVE FirstInv'
  <2>1. FirstInv
    BY <1>3 DEF StreamInv
  <2>2. CASE OnTryConnect
    <3>1. ~success /\ outBuf = <<>>
      BY <2>1, <2>2 DEF OnTryConnect, FirstInv
    <3>2. events' = Interest(outBuf')
      BY <1>1, <2>2, <3>1 DEF OnTryConnect, Interest
    <3>3. QED
      BY <1>1, <2>1, <2>2, <3>2 DEF OnTryConnect, FirstInv
  <2>3. CASE OnFdClosed
    BY <2>1, <2>3 DEF OnFdClosed, connector_cb, FirstInv
  <2>4. CASE UNCHANGED vars
    BY <1>1, <2>1, <2>4 DEF vars, game, requests, FirstInv
  <2>5. QED
    BY <2>2, <2>3, <2>4
<1>4. QED
  BY <1>1, <1>2, <1>3 DEF StreamInv

LEMMA PushStep ==
  ASSUME TypeInv, StreamInv, OnEventfd
  PROVE  StreamInv'
<1>1. /\ In' = In /\ Arrived' = Arrived /\ npush' = npush + 1 /\ breaks' = breaks
      /\ answered' = answered /\ served' = served /\ ~misread /\ ~misread'
      /\ success' = success /\ link' = link /\ npush \in Nat
      /\ replies' = replies /\ working' = working
  BY DEF OnEventfd, wires, server, workers, In, Arrived, TypeInv
<1>2. OrderInv /\ WorkInv'
  BY <1>1 DEF StreamInv, WorkInv
<1>3. CASE ~success
  <2>1. Out' = Out /\ outBuf' = outBuf /\ events' = events /\ accepted' = accepted
    BY <1>3 DEF OnEventfd, GetUserfulConnector, wires, server, Out
  <2>2. Elements(Arrived) \cup Headers(Out) \subseteq 1..(npush + 1)
    BY <1>1, <1>2 DEF OrderInv
  <2>3. OrderInv'
    BY <1>1, <1>2, <2>1, <2>2 DEF OrderInv
  <2>4. breaks = 0 => FirstInv'
    BY <1>1, <2>1 DEF StreamInv, FirstInv
  <2>5. QED
    BY <1>1, <1>2, <2>3, <2>4 DEF StreamInv
<1>4. CASE success
  <2>1. PICK b \in Seq(Byte) : b = Bytes(npush + 1)
    BY <1>1, BytesFacts
  <2>2. Headers(b) = {npush + 1} /\ Ascends(b) /\ Whole(b)
    BY <1>1, <2>1, BytesFacts
  <2>3. PICK o : o = Out'
    OBVIOUS
  <2>4. Out \in Seq(Byte) /\ outBuf \in Seq(Byte) /\ dbBuf \o toServer \in Seq(Byte)
    BY StreamTypes DEF TypeInv
  <2>5. o = Out \o b
    <3>1. o = (dbBuf \o toServer) \o (outBuf \o b)
      BY <1>4, <2>1, <2>3 DEF OnEventfd, GetUserfulConnector, wires, server, Out
    <3>2. ((dbBuf \o toServer) \o outBuf) \o b = (dbBuf \o toServer) \o (outBuf \o b)
      BY <2>4, Regroup, Zenon
    <3>3. QED
      BY <3>1, <3>2 DEF Out
  <2>6. /\ Headers(o) = Headers(Out) \cup {npush + 1}
        /\ Ascends(o) <=> Ascends(Out) /\ Ascends(b) /\ Below(Headers(Out), {npush + 1})
    <3>1. /\ Headers(Out \o b) = Headers(Out) \cup Headers(b)
          /\ Ascends(Out \o b) <=> Ascends(Out) /\ Ascends(b) /\ Below(Headers(Out), Headers(b))
      BY <2>4, HeadersConcat, Zenon
    <3>2. QED
      BY <2>2, <2>5, <3>1
  <2>7. /\ Below(Headers(Out), {npush + 1})
        /\ Below(Elements(Arrived), Headers(Out) \cup {npush + 1})
        /\ Elements(Arrived) \cup Headers(Out) \cup {npush + 1} \subseteq 1..(npush + 1)
    BY <1>1, <1>2 DEF OrderInv, Below
  <2>8. Ascends(o) /\ Below(Elements(Arrived), Headers(o))
    BY <1>2, <2>2, <2>6, <2>7 DEF OrderInv
  <2>9. OrderInv'
    BY <1>1, <1>2, <2>3, <2>6, <2>7, <2>8 DEF OrderInv
  <2>10. ASSUME breaks = 0 PROVE FirstInv'
    <3>1. FirstInv
      BY <2>10 DEF StreamInv
    <3>2. Whole(o)
      BY <2>2, <2>4, <2>5, <3>1, FramedConcat DEF FirstInv
    <3>3. accepted' = accepted \cup {npush + 1} /\ events' = Interest(outBuf')
      BY <1>4 DEF OnEventfd, GetUserfulConnector
    <3>4. accepted' \subseteq Elements(Arrived) \cup Headers(o)
      BY <2>6, <3>1, <3>3 DEF FirstInv
    <3>5. QED
      BY <1>1, <1>4, <2>3, <3>1, <3>2, <3>3, <3>4 DEF FirstInv
  <2>11. QED
    BY <1>1, <1>2, <2>9, <2>10 DEF StreamInv
<1>5. QED
  BY <1>3, <1>4 DEF TypeInv

LEMMA WriteStep ==
  ASSUME TypeInv, StreamInv, OnWrite
  PROVE  StreamInv'
<1>1. /\ In' = In /\ Arrived' = Arrived /\ npush' = npush /\ breaks' = breaks
      /\ answered' = answered /\ served' = served /\ ~misread /\ ~misread' /\ dbBuf' = dbBuf
      /\ success /\ success' = success /\ link' = link /\ accepted' = accepted
      /\ events' = Interest(outBuf') /\ replies' = replies /\ working' = working
  BY DEF OnWrite, connector_cb, requests, server, workers, In, Arrived, TypeInv
<1>2. OrderInv /\ WorkInv'
  BY <1>1 DEF StreamInv, WorkInv
<1>3. PICK n \in 0..Len(outBuf) :
        /\ toServer' = IF link = "up" THEN toServer \o SubSeq(outBuf, 1, n) ELSE toServer
        /\ outBuf' = SubSeq(outBuf, n + 1, Len(outBuf))
  BY DEF OnWrite
<1>4. /\ outBuf \in Seq(Byte) /\ toServer \in Seq(Byte) /\ dbBuf \in Seq(Byte)
      /\ dbBuf \o toServer \in Seq(Byte)
  BY StreamTypes DEF TypeInv
<1>5. PICK f, left \in Seq(Byte) :
        /\ f = SubSeq(outBuf, 1, n) /\ left = SubSeq(outBuf, n + 1, Len(outBuf))
        /\ outBuf = f \o left
  BY <1>4, Cut
<1>6. CASE link = "up"
  <2>1. Out' = (dbBuf \o (toServer \o f)) \o left
    BY <1>1, <1>3, <1>5, <1>6 DEF Out
  <2>2. (dbBuf \o toServer) \o f = dbBuf \o (toServer \o f)
    BY <1>4, Regroup, Zenon
  <2>3. ((dbBuf \o toServer) \o f) \o left = (dbBuf \o toServer) \o (f \o left)
    BY <1>4, Regroup, Zenon
  <2>4. Out' = Out
    BY <1>5, <2>1, <2>2, <2>3 DEF Out
  <2>5. OrderInv'
    BY <1>1, <1>2, <2>4 DEF OrderInv
  <2>6. breaks = 0 => FirstInv'
    BY <1>1, <2>4 DEF StreamInv, FirstInv
  <2>7. QED
    BY <1>1, <1>2, <2>5, <2>6 DEF StreamInv
<1>7. CASE link = "down"
  <2>1. toServer = <<>> /\ toServer' = <<>> /\ dbBuf = <<>> /\ dbBuf' = <<>>
    BY <1>1, <1>3, <1>7 DEF TypeInv
  <2>2. <<>> \o <<>> = <<>> /\ \A s \in Seq(Byte) : <<>> \o s = s
    BY ConcatEmptySeq, EmptySeq
  <2>3. Out = outBuf /\ Out' = left
    BY <1>3, <1>4, <1>5, <2>1, <2>2 DEF Out
  <2>4. Ascends(left) /\ Headers(left) \subseteq Headers(Out)
    <3>1. /\ Headers(f \o left) = Headers(f) \cup Headers(left)
          /\ Ascends(f \o left) => Ascends(left)
      BY HeadersConcat, Zenon
    <3>2. QED
      BY <1>2, <1>5, <2>3, <3>1 DEF OrderInv
  <2>5. OrderInv'
    BY <1>1, <1>2, <2>3, <2>4 DEF OrderInv, Below
  <2>6. breaks # 0
    BY <1>1, <1>7 DEF StreamInv, FirstInv
  <2>7. QED
    BY <1>1, <1>2, <2>5, <2>6 DEF StreamInv
<1>8. QED
  BY <1>6, <1>7 DEF TypeInv

LEMMA ReadStep ==
  ASSUME TypeInv, StreamInv, OnRead
  PROVE  StreamInv'
<1>1. /\ Out' = Out /\ Arrived' = Arrived /\ npush' = npush /\ breaks' = breaks
      /\ served' = served /\ ~misread /\ outBuf' = outBuf
      /\ success /\ success' = success /\ link' = link /\ accepted' = accepted
      /\ events' = Interest(outBuf') /\ replies' = replies /\ working' = working
  BY DEF OnRead, connector_cb, requests, server, workers, Out, Arrived, TypeInv
<1>2. OrderInv /\ WorkInv'
  BY <1>1 DEF StreamInv, WorkInv
<1>3. PICK n \in 1..Len(toClient) :
        /\ toClient' = SubSeq(toClient, n + 1, Len(toClient))
        /\ answered' = answered \o Packages(inBuf \o SubSeq(toClient, 1, n))
        /\ inBuf' = Rest(inBuf \o SubSeq(toClient, 1, n))
        /\ misread' = ~Framed(inBuf \o SubSeq(toClient, 1, n))
  BY DEF OnRead
<1>4. inBuf \in Seq(Byte) /\ toClient \in Seq(Byte) /\ answered \in Seq(Nat) /\ Len(toClient) \in Nat
  BY DEF TypeInv
<1>5. PICK f, left \in Seq(Byte) :
        /\ f = SubSeq(toClient, 1, n) /\ left = SubSeq(toClient, n + 1, Len(toClient))
        /\ toClient = f \o left
  <2>1. n \in 0..Len(toClient)
    BY <1>4
  <2>2. QED
    BY <1>4, <2>1, Cut
<1>6. PICK p \in Seq(Nat), rest \in Seq(Byte) :
        p = Packages(inBuf \o f) /\ rest = Rest(inBuf \o f)
  BY <1>4, Taken
<1>7. PICK front \in Seq(Byte) :
        /\ inBuf \o (f \o left) = front \o (rest \o left)
        /\ Framed(inBuf \o f) =>
             /\ Whole(front) /\ Elements(p) = Headers(front)
             /\ Ascends(front) => Increasing(p)
  <2>1. \E front \in Seq(Byte) :
          /\ inBuf \o (f \o left) = front \o (Rest(inBuf \o f) \o left)
          /\ Framed(inBuf \o f) =>
               /\ Whole(front) /\ Elements(Packages(inBuf \o f)) = Headers(front)
               /\ Ascends(front) => Increasing(Packages(inBuf \o f))
    BY <1>4, Taken, Zenon
  <2>2. QED
    BY <1>6, <2>1, Zenon
<1>8. PICK in \in Seq(Byte) : in = rest \o left
  BY ConcatProperties
<1>9. In = front \o in /\ In' = in /\ answered' = answered \o p
  BY <1>3, <1>5, <1>6, <1>7, <1>8 DEF In
<1>10. Framed(inBuf \o f) <=> ~misread'
  BY <1>3, <1>5
<1>11. ASSUME ~misread' PROVE OrderInv'
  <2>1. Ascends(front) /\ Elements(p) = Headers(front) /\ Increasing(p)
    BY <1>2, <1>7, <1>8, <1>9, <1>10, <1>11, HeadersConcat DEF OrderInv
  <2>2. Increasing(answered) /\ Ascends(front \o in) /\ Below(Elements(answered), Headers(front \o in))
    BY <1>2, <1>9 DEF OrderInv
  <2>3. /\ Increasing(answered \o p) /\ Ascends(in) /\ Below(Elements(answered \o p), Headers(in))
        /\ Elements(answered \o p) \cup Headers(in) = Elements(answered) \cup Headers(front \o in)
    BY <1>4, <2>1, <2>2, Moved
  <2>4. QED
    BY <1>1, <1>2, <1>9, <2>3 DEF OrderInv
<1>12. ASSUME breaks = 0 PROVE FirstInv'
  <2>1. FirstInv
    BY <1>12 DEF StreamInv
  <2>2. Framed(inBuf \o f)
    <3>1. Framed(inBuf \o (f \o left))
      BY <1>5, <2>1 DEF FirstInv, Whole, In
    <3>2. QED
      BY <1>4, <3>1, Taken
  <2>3. Whole(in)
    BY <1>7, <1>8, <1>9, <2>1, <2>2, FramedConcat DEF FirstInv
  <2>4. 1..Len(replies) \subseteq Elements(answered \o p) \cup Headers(in)
    <3>1. Elements(p) = Headers(front)
      BY <1>7, <2>2
    <3>2. Headers(front \o in) = Headers(front) \cup Headers(in)
      BY HeadersConcat
    <3>3. Elements(answered \o p) = Elements(answered) \cup Elements(p)
      BY <1>4, ElementsConcat
    <3>4. QED
      BY <1>9, <2>1, <3>1, <3>2, <3>3 DEF FirstInv
  <2>5. QED
    BY <1>1, <1>9, <1>10, <2>1, <2>2, <2>3, <2>4 DEF FirstInv
<1>13. QED
  BY <1>1, <1>2, <1>11, <1>12 DEF StreamInv

LEMMA ServerReadStep ==
  ASSUME TypeInv, StreamInv, ServerRead
  PROVE  StreamInv'
<1>1. /\ In' = In /\ npush' = npush /\ breaks' = breaks /\ events' = events
      /\ served' = served /\ answered' = answered /\ ~misread /\ outBuf' = outBuf
      /\ success' = success /\ link' = link /\ accepted' = accepted
      /\ replies' = replies /\ working' = working
  BY DEF ServerRead, game, requests, workers, In
<1>2. OrderInv /\ WorkInv'
  BY <1>1 DEF StreamInv, WorkInv
<1>3. PICK n \in 1..Len(toServer) :
        /\ toServer' = SubSeq(toServer, n + 1, Len(toServer))
        /\ dbq' = dbq \o Packages(dbBuf \o SubSeq(toServer, 1, n))
        /\ dbBuf' = Rest(dbBuf \o SubSeq(toServer, 1, n))
        /\ misread' = ~Framed(dbBuf \o SubSeq(toServer, 1, n))
  BY DEF ServerRead
<1>4. /\ dbBuf \in Seq(Byte) /\ toServer \in Seq(Byte) /\ Len(toServer) \in Nat
      /\ outBuf \in Seq(Byte) /\ served \in Seq(Nat) /\ dbq \in Seq(Nat) /\ Arrived \in Seq(Nat)
      /\ dbBuf \o toServer \in Seq(Byte)
  BY StreamTypes DEF TypeInv
<1>5. PICK f, left \in Seq(Byte) :
        /\ f = SubSeq(toServer, 1, n) /\ left = SubSeq(toServer, n + 1, Len(toServer))
        /\ toServer = f \o left
  <2>1. n \in 0..Len(toServer)
    BY <1>4
  <2>2. QED
    BY <1>4, <2>1, Cut
<1>6. PICK p \in Seq(Nat), rest \in Seq(Byte) :
        p = Packages(dbBuf \o f) /\ rest = Rest(dbBuf \o f)
  BY <1>4, Taken
<1>7. PICK front \in Seq(Byte) :
        /\ dbBuf \o (f \o left) = front \o (rest \o left)
        /\ Framed(dbBuf \o f) =>
             /\ Whole(front) /\ Elements(p) = Headers(front)
             /\ Ascends(front) => Increasing(p)
  <2>1. \E front \in Seq(Byte) :
          /\ dbBuf \o (f \o left) = front \o (Rest(dbBuf \o f) \o left)
          /\ Framed(dbBuf \o f) =>
               /\ Whole(front) /\ Elements(Packages(dbBuf \o f)) = Headers(front)
               /\ Ascends(front) => Increasing(Packages(dbBuf \o f))
    BY <1>4, Taken, Zenon
  <2>2. QED
    BY <1>6, <2>1, Zenon
<1>8. PICK mid \in Seq(Byte) : mid = rest \o left
  BY ConcatProperties
<1>9. PICK out \in Seq(Byte) : out = mid \o outBuf
  BY <1>4, ConcatProperties
<1>10. Out' = out
  BY <1>1, <1>3, <1>5, <1>6, <1>8, <1>9 DEF Out
<1>11. Out = front \o out
  <2>1. (front \o mid) \o outBuf = front \o (mid \o outBuf)
    <3>1. outBuf \in Seq(Byte)
      BY <1>4
    <3>2. QED
      BY <3>1, Regroup, ZenonT(60)
  <2>2. QED
    BY <1>5, <1>7, <1>8, <1>9, <2>1 DEF Out
<1>12. Arrived' = Arrived \o p
  <2>1. (served \o dbq) \o p = served \o (dbq \o p)
    BY <1>4, RegroupNumbers, Zenon
  <2>2. QED
    BY <1>1, <1>3, <1>5, <1>6, <2>1 DEF Arrived
<1>13. Framed(dbBuf \o f) <=> ~misread'
  BY <1>3, <1>5
<1>14. ASSUME ~misread'
       PROVE  /\ Increasing(Arrived \o p) /\ Ascends(out)
              /\ Below(Elements(Arrived \o p), Headers(out))
              /\ Elements(Arrived \o p) \cup Headers(out) = Elements(Arrived) \cup Headers(front \o out)
              /\ Elements(Arrived \o p) = Elements(Arrived) \cup Elements(p)
  <2>1. Ascends(front) /\ Elements(p) = Headers(front) /\ Increasing(p)
    BY <1>2, <1>7, <1>11, <1>13, <1>14, HeadersConcat DEF OrderInv
  <2>2. Increasing(Arrived) /\ Ascends(front \o out) /\ Below(Elements(Arrived), Headers(front \o out))
    BY <1>2, <1>11 DEF OrderInv
  <2>3. QED
    BY <1>4, <2>1, <2>2, Moved, ElementsConcat
<1>15. ASSUME ~misread' PROVE OrderInv'
  BY <1>1, <1>2, <1>10, <1>11, <1>12, <1>14, <1>15 DEF OrderInv
<1>16. ASSUME breaks = 0 PROVE FirstInv'
  <2>1. FirstInv
    BY <1>16 DEF StreamInv
  <2>2. Framed(dbBuf \o f)
    <3>1. Framed(dbBuf \o toServer)
      BY <1>4, <2>1, FramedConcat DEF FirstInv, Whole, Out
    <3>2. Framed(dbBuf \o (f \o left))
      BY <1>5, <3>1
    <3>3. QED
      BY <1>4, <3>2, Taken, Zenon
  <2>3. Whole(out)
    BY <1>7, <1>11, <2>1, <2>2, FramedConcat DEF FirstInv
  <2>4. accepted \subseteq Elements(Arrived \o p) \cup Headers(out)
    BY <1>11, <1>13, <1>14, <2>1, <2>2 DEF FirstInv
  <2>5. QED
    BY <1>1, <1>10, <1>12, <1>13, <2>1, <2>2, <2>3, <2>4 DEF FirstInv
<1>17. QED
  BY <1>1, <1>2, <1>15, <1>16 DEF StreamInv

LEMMA DispatchStep ==
  ASSUME TypeInv, StreamInv, MessageDispatch
  PROVE  StreamInv'
<1>1. /\ Out' = Out /\ In' = In /\ npush' = npush /\ breaks' = breaks /\ events' = events
      /\ answered' = answered /\ ~misread /\ ~misread' /\ outBuf' = outBuf
      /\ success' = success /\ link' = link /\ accepted' = accepted /\ replies' = replies
  BY DEF MessageDispatch, game, requests, wires, Out, In, TypeInv
<1>2. OrderInv /\ WorkInv
  BY <1>1 DEF StreamInv
<1>3. served \in Seq(Nat) /\ dbq \in Seq(Nat) /\ dbq # <<>>
  BY DEF TypeInv, MessageDispatch
<1>4. PICK h \in Nat, t \in Seq(Nat) : h = Head(dbq) /\ t = Tail(dbq)
  BY <1>3, HeadTailProperties
<1>5. served' = Append(served, h) /\ dbq' = t /\ working' = working \cup {h}
  BY <1>4 DEF MessageDispatch
<1>6. PICK one \in Seq(Nat) : one = <<h>> /\ Elements(one) = {h}
  BY One
<1>7. served' = served \o one
  BY <1>3, <1>5, <1>6, AppendIsConcat
<1>8. dbq = one \o t
  BY <1>3, <1>4, <1>6, HeadTailIsConcat
<1>9. Arrived' = Arrived
  <2>1. (served \o one) \o t = served \o (one \o t)
    BY <1>3, RegroupNumbers, Zenon
  <2>2. QED
    BY <1>5, <1>7, <1>8, <2>1 DEF Arrived
<1>10. Elements(served \o one) = Elements(served) \cup {h} /\ h \notin Elements(served)
  <2>1. Elements(served \o one) = Elements(served) \cup Elements(one)
    BY <1>3, ElementsConcat, Zenon
  <2>2. Increasing(served \o dbq) => Below(Elements(served), Elements(dbq))
    BY <1>3, ElementsConcat, Zenon
  <2>3. Elements(one \o t) = Elements(one) \cup Elements(t)
    BY ElementsConcat, Zenon
  <2>4. \A a \in Elements(served) : a < h
    BY <1>2, <1>6, <1>8, <2>2, <2>3 DEF OrderInv, Arrived, Below
  <2>5. QED
    BY <1>6, <2>1, <2>4
<1>11. OrderInv'
  BY <1>1, <1>2, <1>9 DEF OrderInv
<1>12. WorkInv'
  BY <1>1, <1>2, <1>5, <1>7, <1>10 DEF WorkInv
<1>13. breaks = 0 => FirstInv'
  BY <1>1, <1>9 DEF StreamInv, FirstInv
<1>14. QED
  BY <1>1, <1>11, <1>12, <1>13 DEF StreamInv

LEMMA AnswerStep ==
  ASSUME TypeInv, StreamInv, NEW n \in working, ServerAnswer(n)
  PROVE  StreamInv'
<1>1. /\ Out' = Out /\ Arrived' = Arrived /\ npush' = npush /\ breaks' = breaks /\ events' = events
      /\ inBuf' = inBuf /\ answered' = answered /\ ~misread /\ ~misread' /\ outBuf' = outBuf
      /\ success' = success /\ link' = link /\ accepted' = accepted /\ served' = served
      /\ working' = working \ {n}
  BY DEF ServerAnswer, game, requests, Out, Arrived, TypeInv
<1>2. OrderInv /\ WorkInv
  BY <1>1 DEF StreamInv
<1>3. /\ inBuf \in Seq(Byte) /\ toClient \in Seq(Byte) /\ In \in Seq(Byte)
      /\ replies \in Seq(Nat) /\ n \in Nat /\ Len(replies) \in Nat
  BY StreamTypes DEF TypeInv
<1>4. CASE n \in updates
  <2>1. In' = In /\ replies' = replies
    BY <1>1, <1>4 DEF ServerAnswer, In
  <2>2. OrderInv' /\ WorkInv'
    BY <1>1, <1>2, <2>1 DEF OrderInv, WorkInv
  <2>3. breaks = 0 => FirstInv'
    BY <1>1, <2>1 DEF StreamInv, FirstInv
  <2>4. QED
    BY <1>1, <2>2, <2>3 DEF StreamInv
<1>5. CASE n \notin updates
  <2>1. PICK k \in Nat : k = Len(replies) + 1
    BY <1>3
  <2>2. /\ replies' = Append(replies, n)
        /\ \/ toClient' = toClient \o Bytes(k)
           \/ breaks # 0 /\ toClient' = toClient
    BY <1>5, <2>1 DEF ServerAnswer, MQ2C_Push, TypeInv
  <2>3. /\ Len(replies') = k /\ replies'[k] = n
        /\ \A i \in 1..Len(replies) : replies'[i] = replies[i]
        /\ 1..k = 1..Len(replies) \cup {k} /\ k \notin 1..Len(replies)
    BY <1>3, <2>1, <2>2, AppendProperties
  <2>4. PICK b \in Seq(Byte) : b = Bytes(k) /\ Headers(b) = {k} /\ Ascends(b) /\ Whole(b)
    BY BytesFacts
  <2>5. PICK in : in = In'
    OBVIOUS
  <2>6. in = In \o b \/ (breaks # 0 /\ in = In)
    <3>1. (inBuf \o toClient) \o b = inBuf \o (toClient \o b)
      BY <1>3, Regroup, Zenon
    <3>2. toClient' = toClient \o b \/ (breaks # 0 /\ toClient' = toClient)
      BY <2>2, <2>4, Zenon
    <3>3. in = inBuf \o toClient'
      BY <1>1, <2>5 DEF In
    <3>4. QED
      BY <3>1, <3>2, <3>3, Zenon DEF In
  <2>7. /\ Headers(In \o b) = Headers(In) \cup {k}
        /\ Ascends(In \o b) <=> Ascends(In) /\ Below(Headers(In), {k})
    <3>1. /\ Headers(In \o b) = Headers(In) \cup Headers(b)
          /\ Ascends(In \o b) <=> Ascends(In) /\ Ascends(b) /\ Below(Headers(In), Headers(b))
      BY <1>3, HeadersConcat, Zenon
    <3>2. QED
      BY <2>4, <3>1
  <2>8. Below(Elements(answered) \cup Headers(In), {k})
    BY <1>2, <1>3, <2>1 DEF OrderInv, Below
  <2>9. /\ Ascends(in) /\ Below(Elements(answered), Headers(in))
        /\ Elements(answered) \cup Headers(in) \subseteq 1..k
    BY <1>2, <2>3, <2>6, <2>7, <2>8 DEF OrderInv, Below
  <2>10. OrderInv'
    BY <1>1, <1>2, <2>3, <2>5, <2>9 DEF OrderInv
  <2>11. WorkInv'
    <3>1. Elements(replies') = Elements(replies) \cup {n}
      BY <2>3 DEF Elements
    <3>2. Distinct(replies')
      BY <1>2, <2>3 DEF WorkInv, Distinct, Elements
    <3>3. QED
      BY <1>1, <1>2, <3>1, <3>2 DEF WorkInv
  <2>12. ASSUME breaks = 0 PROVE FirstInv'
    <3>1. FirstInv
      BY <2>12 DEF StreamInv
    <3>2. Whole(in) /\ Headers(in) = Headers(In) \cup {k}
      BY <1>3, <2>4, <2>6, <2>7, <2>12, <3>1, FramedConcat DEF FirstInv
    <3>3. 1..Len(replies') \subseteq Elements(answered') \cup Headers(in)
      BY <1>1, <2>3, <3>1, <3>2 DEF FirstInv
    <3>4. QED
      BY <1>1, <2>5, <3>1, <3>2, <3>3 DEF FirstInv
  <2>13. QED
    BY <1>1, <2>10, <2>11, <2>12 DEF StreamInv
<1>6. QED
  BY <1>4, <1>5

LEMMA BreakStep ==
  ASSUME TypeInv, StreamInv, Break
  PROVE  StreamInv'
<1>1. /\ Arrived' = Arrived /\ npush' = npush /\ breaks' # 0 /\ inBuf' = inBuf
      /\ outBuf' = outBuf /\ served' = served /\ answered' = answered /\ ~misread
      /\ toServer' = <<>> /\ toClient' = <<>> /\ dbBuf' = <<>>
      /\ replies' = replies /\ working' = working
  BY DEF Break, game, requests, workers, Arrived, TypeInv
<1>2. OrderInv /\ WorkInv'
  BY <1>1 DEF StreamInv, WorkInv
<1>3. /\ inBuf \in Seq(Byte) /\ toClient \in Seq(Byte) /\ outBuf \in Seq(Byte)
      /\ dbBuf \o toServer \in Seq(Byte)
  BY StreamTypes DEF TypeInv
<1>4. <<>> \o <<>> = <<>> /\ \A s \in Seq(Byte) : <<>> \o s = s /\ s \o <<>> = s
  BY ConcatEmptySeq, EmptySeq
<1>5. Out' = outBuf /\ In' = inBuf
  BY <1>1, <1>3, <1>4 DEF Out, In
<1>6. Ascends(outBuf) /\ Headers(outBuf) \subseteq Headers(Out)
  <2>1. /\ Headers((dbBuf \o toServer) \o outBuf) = Headers(dbBuf \o toServer) \cup Headers(outBuf)
        /\ Ascends((dbBuf \o toServer) \o outBuf) => Ascends(outBuf)
    BY <1>3, HeadersConcat, Zenon
  <2>2. QED
    BY <1>2, <2>1 DEF OrderInv, Out
<1>7. Ascends(inBuf) /\ Headers(inBuf) \subseteq Headers(In)
  <2>1. /\ Headers(inBuf \o toClient) = Headers(inBuf) \cup Headers(toClient)
        /\ Ascends(inBuf \o toClient) => Ascends(inBuf)
    BY <1>3, HeadersConcat, Zenon
  <2>2. QED
    BY <1>2, <2>1 DEF OrderInv, In
<1>8. OrderInv'
  BY <1>1, <1>2, <1>5, <1>6, <1>7 DEF OrderInv, Below
<1>9. QED
  BY <1>1, <1>2, <1>8 DEF StreamInv
-----------------------------------------------------------------------------
(***************************************************************************)
(* The theorems.                                                           *)
(***************************************************************************)
\* The connection holds two streams of packages, in the order they were written
\* in, and until it breaks no package of them is torn or missing.
THEOREM Invariant == Spec => []IInv
<1>1. Init => IInv
  BY InitInv
<1>2. IInv /\ [Next]_vars => IInv'
  <2>1. SUFFICES ASSUME TypeInv, StreamInv, [Next]_vars PROVE StreamInv'
    BY TypeStep DEF IInv
  <2>2. CASE \E n \in working : ServerAnswer(n)
    BY <2>1, <2>2, AnswerStep
  <2>3. QED
    BY <2>1, <2>2, QuietStep, PushStep, WriteStep, ReadStep, ServerReadStep, DispatchStep, BreakStep
       DEF Next, SocketThread
<1>3. QED
  BY <1>1, <1>2, PTL DEF Spec

\* Whatever Connector resends after OnFdClosed and a new OnTryConnect, and however many
\* workers answer at once: no request is served twice or out of order or answered twice,
\* and the answers are handed on at most once, in the order in which they were pushed.
THEOREM NothingTwice == Spec => []AtMostOnce
<1>1. IInv => AtMostOnce
  BY DEF IInv, StreamInv, OrderInv, WorkInv, AtMostOnce, Arrived
<1>2. QED
  BY <1>1, Invariant, PTL

\* Until the first break, OnEventfd and OnWrite keep the watcher armed while there is
\* output, nobody misreads a package, and neither a request that was accepted nor an
\* answer that a worker pushed is lost.
THEOREM FirstConnectionHolds == Spec => []FirstConnection
<1>1. IInv => FirstConnection
  <2>1. SUFFICES ASSUME IInv, breaks = 0 PROVE FirstConnection
    BY DEF FirstConnection
  <2>2. FirstInv
    BY <2>1 DEF IInv, StreamInv
  <2>3. ASSUME NEW n \in accepted
        PROVE  \/ \E i \in 1..Len(Arrived) : Arrived[i] = n
               \/ \E i \in 1..Len(Out) : Out[i].n = n
    BY <2>2, <2>3 DEF FirstInv, Elements, Headers
  <2>4. ASSUME NEW k \in 1..Len(replies)
        PROVE  \/ \E i \in 1..Len(answered) : answered[i] = k
               \/ \E i \in 1..Len(In) : In[i].n = k
    BY <2>2, <2>4 DEF FirstInv, Elements, Headers
  <2>5. QED
    BY <2>2, <2>3, <2>4 DEF FirstInv, FirstConnection, Arrived, Out, In
<1>2. QED
  BY <1>1, Invariant, PTL
=============================================================================
