-------------------------------- MODULE Sds --------------------------------
(***************************************************************************)
(* The sizes of a dynamic string (sds.c, sds.h): which of the headers it   *)
(* has, the len and alloc that header's fields hold, at their width, and   *)
(* the size of the allocation behind it.  The bytes are left out.          *)
(*                                                                         *)
(* A type is the number of bits of its length.  SDS_TYPE_64 needs lengths  *)
(* from 2^32 on, which no instance reaches.                                *)
(***************************************************************************)
EXTENDS Integers

SdsTypes == {5, 8, 16, 32}
SDS_MAX_PREALLOC == 1024 * 1024

sdsHdrSize(type) == CASE type = 5 -> 1 [] type = 8 -> 3 [] type = 16 -> 5 [] type = 32 -> 9

sdsReqType(n) == CASE n < 32 -> 5 [] n \in 32 .. 255 -> 8 [] n \in 256 .. 65535 -> 16 [] n > 65535 -> 32

\* What a field of the header keeps of a length (below 2^31 all of it, for 32 bits).
Kept(type, n) == IF type = 32 THEN n ELSE n % 2^type

\* An allocation of n bytes is a multiple of the allocator's unit, of which s_malloc_usable
\* reports all.
Usable(n) == ((n + 7) \div 8) * 8

\* A type 5 string has no alloc: sdsalloc gives its length.
String(type, len, alloc, mem) ==
  [type |-> type, len |-> Kept(type, len),
   alloc |-> IF type = 5 THEN Kept(5, len) ELSE Kept(type, alloc), mem |-> mem]
sdsavail(s) == IF s.type = 5 THEN 0 ELSE s.alloc - s.len
sdssetlen(s, n) == String(s.type, n, s.alloc, s.mem)

\* The alloc of a block that holds a header of the type, capped to what its field can say.
AllocOf(type, mem) ==
  LET usable == mem - sdsHdrSize(type) - 1
  IN  IF type # 32 /\ usable > 2^type - 1 THEN 2^type - 1 ELSE usable

sdsnewlen(n) ==
  LET type == IF n = 0 THEN 8 ELSE sdsReqType(n)
      mem == Usable(sdsHdrSize(type) + n + 1)
  IN  String(type, n, AllocOf(type, mem), mem)

_sdsMakeRoomFor(s, addlen, greedy) ==
  LET reqlen == s.len + addlen
      newlen == IF ~ greedy THEN reqlen
                ELSE IF reqlen < SDS_MAX_PREALLOC THEN reqlen * 2 ELSE reqlen + SDS_MAX_PREALLOC
      type == IF sdsReqType(newlen) = 5 THEN 8 ELSE sdsReqType(newlen)
      mem == Usable(sdsHdrSize(type) + newlen + 1)
  IN  IF sdsavail(s) >= addlen THEN s ELSE String(type, s.len, AllocOf(type, mem), mem)

\* The old header stays unless the string becomes one of the two small types: then alloc is
\* its length.
sdsRemoveFreeSpace(s) ==
  LET type == IF sdsReqType(s.len) > 8 THEN s.type ELSE sdsReqType(s.len)
  IN  IF sdsavail(s) = 0 THEN s
      ELSE String(type, s.len, s.len, Usable(sdsHdrSize(type) + s.len + 1))

sdsResize(s, size) ==
  LET req == IF sdsReqType(size) = 5 THEN 8 ELSE sdsReqType(size)
      type == IF req < s.type /\ req > 8 THEN s.type ELSE req
      len == IF size < s.len THEN size ELSE s.len
  IN  IF s.alloc = size THEN s
      ELSE String(type, len, size, Usable(sdsHdrSize(type) + size + 1))

\* sdsrange(s, start, -1).
sdsrange(s, start) == sdssetlen(s, IF start >= s.len THEN 0 ELSE s.len - start)

\* The header and alloc bytes with their terminator lie within the allocation.
Sound(s) ==
  /\ s.type \in SdsTypes /\ {s.len, s.alloc} \subseteq Nat
  /\ s.len <= s.alloc
  /\ sdsHdrSize(s.type) + s.alloc + 1 <= s.mem
=============================================================================
