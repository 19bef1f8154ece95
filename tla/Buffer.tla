------------------------------- MODULE Buffer -------------------------------
(***************************************************************************)
(* common/buffer.cpp, min_pow of common/util.cpp, the way OnRead of        *)
(* EpollServer fills an input buffer and ReadPackage of Channel recognises *)
(* packages in it.  Only sizes are kept: m_alloc_size is what the object   *)
(* believes, room is what realloc really gave it.  The framing properties  *)
(* are about the bytes the buffer holds, m_write_offset of them, when they *)
(* begin with the header of a package.                                     *)
(***************************************************************************)
EXTENDS Stream

CONSTANTS
  READ_BUF_SIZE,        \* what OnRead passes to recv
  MAX_BUF_SIZE,         \* the size Extend wants to stop at
  Lengths               \* lengths of what is written and read

\* (num & (num - 1)) = 0, for a positive int.
PowerOfTwo(num) == \E k \in 0..30 : num = 2 ^ k

\* The limit is 2^12.  Of a sound buffer no more than 2^30 bytes are asked, so that the
\* ints of Extend and min_pow do not overflow.
ASSUME SizeAssumption ==
  /\ READ_BUF_SIZE \in Nat \ {0} /\ Lengths \subseteq Nat
  /\ PowerOfTwo(MAX_BUF_SIZE)
  /\ \A len \in Lengths \cup {READ_BUF_SIZE} : MAX_BUF_SIZE + len <= 1073741824

VARIABLES
  m_alloc_size,
  m_write_offset,
  room,                 \* the size of the memory m_buffer points to
  within,               \* whether Extend was never asked for more than MAX_BUF_SIZE
  met                   \* whether the last Extend left the space it was asked for

vars == <<m_alloc_size, m_write_offset, room, within, met>>

Init ==
  /\ m_alloc_size = 0 /\ m_write_offset = 0 /\ room = 0
  /\ within = TRUE /\ met = TRUE

\* The loop of min_pow: r is shifted left as often as num can be shifted right.
Shift[num \in Nat] == IF num = 0 THEN 1 ELSE 2 * Shift[num \div 2]

min_pow(num) ==
  IF num <= 1 \/ PowerOfTwo(num) THEN num ELSE Shift[num]

\* Mutant: what the buffer already holds is forgotten.
Extend_NoOffset(len) ==
  LET size == min_pow(len)
  IN /\ m_alloc_size' = size
     /\ room' = IF size > MAX_BUF_SIZE THEN room ELSE size
     /\ within' = (within /\ m_write_offset + len <= MAX_BUF_SIZE)
     /\ met' = (room' >= m_write_offset + len)

\* Buffer::Extend.  Above the limit the test `before_size = MAX_BUF_SIZE' is an
\* assignment, always true: Extend returns with the new m_alloc_size and without
\* realloc.
Extend(len) ==
  LET size == min_pow(m_write_offset + len)
  IN /\ m_alloc_size' = size
     /\ room' = IF size > MAX_BUF_SIZE THEN room ELSE size
     /\ within' = (within /\ m_write_offset + len <= MAX_BUF_SIZE)
     /\ met' = (room' >= m_write_offset + len)

\* The memory is still what the object uses: what comes after a write beyond
\* room is undefined and is left out.
Sound == m_write_offset <= room

\* Buffer::Write.
Write(len) ==
  /\ Sound
  /\ IF m_write_offset + len > m_alloc_size
       THEN Extend(len)
       ELSE UNCHANGED <<m_alloc_size, room, within, met>>
  /\ m_write_offset' = m_write_offset + len

\* Buffer::Read.
Read(len) ==
  /\ Sound
  /\ m_write_offset' = IF len > m_write_offset THEN 0 ELSE m_write_offset - len
  /\ UNCHANGED <<m_alloc_size, room, within, met>>

\* OnRead: room for READ_BUF_SIZE bytes, recv of len of them, IncWriteOffset.
Recv(len) ==
  /\ Sound
  /\ len <= READ_BUF_SIZE
  /\ IF m_alloc_size - m_write_offset < READ_BUF_SIZE
       THEN Extend(READ_BUF_SIZE)
       ELSE UNCHANGED <<m_alloc_size, room, within, met>>
  /\ m_write_offset' = m_write_offset + len

Next == \E len \in Lengths : Write(len) \/ Read(len) \/ Recv(len)

Spec == Init /\ [][Next]_vars
-----------------------------------------------------------------------------
(***************************************************************************)
(* Properties.                                                             *)
(***************************************************************************)
\* As long as nobody has asked for more than MAX_BUF_SIZE, m_alloc_size is the
\* truth, what was written fits, and OnRead can pass READ_BUF_SIZE to recv.
SoundBelowLimit ==
  within =>
    m_alloc_size = room /\ m_write_offset <= room /\ met

\* No package is cut in the wrong place: when ReadPackage takes a package from
\* what the buffer holds, the length it has read is the length SetMsg wrote.
NeverMisframed ==
  \A length \in {m_write_offset, m_write_offset + 1, m_write_offset + 128} \cup 1..300 :
    IsPduAvailable(WriteInt32(length), m_write_offset) => ReadUint32(WriteInt32(length)) = length

\* package.h: the length field is the length of the whole package, so a package
\* that is completely in the buffer is recognised.
WholePackageRecognised ==
  m_write_offset >= PACKAGE_HEADER_LEN => IsPduAvailable(WriteInt32(m_write_offset), m_write_offset)
=============================================================================
