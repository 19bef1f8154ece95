------------------------------- MODULE Stream -------------------------------
(***************************************************************************)
(* common/stream.cpp and common/package.cpp: how the numbers in the header *)
(* of a package are written and read back.                                 *)
(*                                                                         *)
(* util.h makes uchar_t a plain char, which is signed in this build, so a  *)
(* byte of 128 or more is read as a negative int before it is or-ed into   *)
(* the result.  A uint32_t is represented by the int32_t with the same     *)
(* bits: a negative number stands for one above 2^31.                      *)
(***************************************************************************)
EXTENDS Integers, Sequences

PACKAGE_HEADER_LEN == 8

\* CByteStream::WriteInt32 and WriteUint16: most significant byte first.
WriteInt32(data) ==
  <<(data \div 16777216) % 256, (data \div 65536) % 256, (data \div 256) % 256, data % 256>>
WriteUint16(data) == <<(data \div 256) % 256, data % 256>>

\* A byte as an int: the conversion of a signed char.
SignedChar(byte) == IF byte >= 128 THEN byte - 256 ELSE byte

\* Mutant: only seven bits of the lower byte are used.
Or_SevenBits(high, byte) == high * 256 + (byte % 128)

\* (high << 8) | byte: a negative byte has ones in all the higher places.
Or(high, byte) ==
  IF SignedChar(byte) < 0 THEN SignedChar(byte) ELSE high * 256 + byte

ReadUint32(buf) == Or(Or(Or(SignedChar(buf[1]), buf[2]), buf[3]), buf[4])
ReadUint16(buf) == Or(SignedChar(buf[1]), buf[2]) % 65536

\* Package::IsPduAvailable, for a buffer that holds len bytes and starts with
\* the four bytes buf; the comparison is one of unsigned numbers.
IsPduAvailable(buf, len) ==
  /\ len >= PACKAGE_HEADER_LEN
  /\ ReadUint32(buf) >= 0 /\ ReadUint32(buf) <= len
  /\ ReadUint32(buf) # 0

\* What a 16-bit field of the header is after one trip over the wire.
Carried(data) == ReadUint16(WriteUint16(data))
=============================================================================
