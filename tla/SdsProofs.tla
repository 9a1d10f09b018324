----------------------------- MODULE SdsProofs -----------------------------
(***************************************************************************)
(* The header, the grant and the terminator of a string are right after     *)
(* every sequence of calls, for every width of the header's fields, every   *)
(* preallocation limit and all texts; and every call does to the text what  *)
(* its comment says, by a comparison of the bytes before and after.         *)
(***************************************************************************)
EXTENDS Sds, SequenceTheorems, TLAPS

\* A header that agrees with itself and with its block.
Good(h) ==
    /\ h \in [type : SdsType, len : Nat, alloc : Nat, size : Nat]
    /\ h.len <= sdsalloc(h)
    /\ sdsalloc(h) <= MaxLen[h.type]
    /\ sdsalloc(h) < h.size

\* A call that puts a kept part of the text and new bytes into a block with room for them.
Puts(from, keep, text) ==
    /\ Good(hdr')
    /\ hdr'.len = keep + Len(text)
    /\ buf' = Written(hdr'.size, from, keep, text)

\* The three invariants lean on each other: the terminator has a place because the
\* header tells the size of the block, and the increment that the client announces fits
\* because of the grant.
SdsInv ==
    /\ HeaderOK
    /\ GrantHolds
    /\ Terminated
    /\ status \in {"live", "null", "aborted", "freed"}

-----------------------------------------------------------------------------
(* Headers *)

\* What the proofs use of the assumptions.
LEMMA Widest ==
    /\ \A type \in SdsType : MaxLen[type] \in Nat
    /\ MaxLen[SDS_TYPE_64] \in Nat /\ MaxText \in Nat /\ SDS_MAX_PREALLOC \in Nat
    /\ 2 * MaxText <= MaxLen[SDS_TYPE_64]
    /\ MaxText + SDS_MAX_PREALLOC <= MaxLen[SDS_TYPE_64]
    /\ MaxText <= MaxLen[SDS_TYPE_64]
<1>1. \A type \in SdsType : MaxLen[type] \in Nat
  BY HeaderAssumption
<1>2. SDS_TYPE_64 \in SdsType
  BY DEF SDS_TYPE_64, SdsType
<1>3. MaxLen[SDS_TYPE_64] \in Nat /\ MaxText \in Nat /\ SDS_MAX_PREALLOC \in Nat
  BY <1>1, <1>2, HeaderAssumption, SdsAssumption
<1>4. 2 * MaxText <= MaxLen[SDS_TYPE_64] /\ MaxText + SDS_MAX_PREALLOC <= MaxLen[SDS_TYPE_64]
  BY SdsAssumption
<1> QED
  BY <1>1, <1>3, <1>4

\* A length up to the widest field gets a type that holds it.
LEMMA ReqTypeFits ==
    ASSUME NEW n \in Nat, n <= MaxLen[SDS_TYPE_64]
    PROVE  sdsReqType(n) \in SdsType /\ n <= MaxLen[sdsReqType(n)]
BY HeaderAssumption
DEF sdsReqType, SdsType, SDS_TYPE_5, SDS_TYPE_8, SDS_TYPE_16, SDS_TYPE_32, SDS_TYPE_64

\* Setting a length within the allocated space keeps a header right.
LEMMA SetLen ==
    ASSUME NEW h, Good(h), NEW n \in Nat, n <= sdsalloc(h)
    PROVE  /\ Good(sdssetlen(h, n))
           /\ sdssetlen(h, n).len = n
           /\ sdssetlen(h, n).size = h.size
BY HeaderAssumption DEF Good, sdssetlen, sdsalloc, Field, SdsType, SDS_TYPE_5

\* A new block that is large enough, filled in by sdssetlen and sdssetalloc.
LEMMA NewBlock ==
    ASSUME NEW type \in SdsType, NEW len \in Nat, NEW space \in Nat,
           len <= space, space <= MaxLen[type],
           type = SDS_TYPE_5 => len = space
    PROVE  LET h == sdssetalloc(sdssetlen(Block(type, space), len), space)
           IN  /\ Good(h) /\ h.len = len
               /\ sdsalloc(h) = space /\ h.type = type /\ h.size = space + 1
<1>1. MaxLen[type] \in Nat
  BY HeaderAssumption
<1>2. Field(type, len) = len /\ Field(type, space) = space
  BY <1>1 DEF Field
<1>3. sdssetlen(Block(type, space), len)
        = [type |-> type, len |-> len, alloc |-> 0, size |-> space + 1]
  BY <1>2 DEF sdssetlen, Block
<1>4. CASE type = SDS_TYPE_5
  BY <1>1, <1>3, <1>4 DEF Good, sdssetalloc, sdsalloc
<1>5. CASE type # SDS_TYPE_5
  BY <1>1, <1>2, <1>3, <1>5 DEF Good, sdssetalloc, sdsalloc
<1> QED
  BY <1>4, <1>5

\* sdsMakeRoomFor gives the room it was asked for, in the block and in the header.
LEMMA RoomMade ==
    ASSUME NEW h, Good(h), NEW n \in Nat, h.len + n <= MaxText
    PROVE  LET room == sdsMakeRoomFor(h, n)
           IN  /\ Good(room) /\ room.len = h.len
               /\ h.len + n <= sdsalloc(room)
               /\ n > 0 => room.type # SDS_TYPE_5
<1> DEFINE space == NewSpace(h, n)
           type == IF sdsReqType(space) = SDS_TYPE_5 THEN SDS_TYPE_8 ELSE sdsReqType(space)
<1>1. h.len \in Nat /\ h.type \in SdsType
  BY DEF Good
<1>2. CASE sdsavail(h) >= n
  <2>1. sdsMakeRoomFor(h, n) = h
    BY <1>2 DEF sdsMakeRoomFor
  <2>2. h.len + n <= sdsalloc(h) /\ (n > 0 => h.type # SDS_TYPE_5)
    BY <1>1, <1>2 DEF sdsavail, sdsalloc, Good
  <2> QED
    BY <2>1, <2>2
<1>3. CASE ~(sdsavail(h) >= n)
  <2>1. space \in Nat /\ h.len + n <= space /\ space <= MaxLen[SDS_TYPE_64]
    BY <1>1, Widest DEF NewSpace
  <2>2. type \in SdsType /\ type # SDS_TYPE_5 /\ space <= MaxLen[type]
    <3>1. sdsReqType(space) \in SdsType /\ space <= MaxLen[sdsReqType(space)]
      BY <2>1, ReqTypeFits
    <3>2. MaxLen[SDS_TYPE_5] <= MaxLen[SDS_TYPE_8] /\ MaxLen[SDS_TYPE_5] \in Nat
          /\ MaxLen[SDS_TYPE_8] \in Nat
      BY HeaderAssumption DEF SdsType, SDS_TYPE_5, SDS_TYPE_8
    <3> QED
      BY <2>1, <3>1, <3>2 DEF SdsType, SDS_TYPE_5, SDS_TYPE_8
  <2>3. sdsMakeRoomFor(h, n) = sdssetalloc(sdssetlen(Block(type, space), h.len), space)
    BY <1>3 DEF sdsMakeRoomFor
  <2>4. h.len <= space
    BY <1>1, <2>1
  <2> HIDE DEF space, type
  <2> QED
    BY <1>1, <2>1, <2>2, <2>3, <2>4, NewBlock
<1> QED
  BY <1>2, <1>3

\* sdsRemoveFreeSpace leaves a block that just holds the text.
LEMMA TightBlock ==
    ASSUME NEW h, Good(h), h.len <= MaxText
    PROVE  LET tight == sdsRemoveFreeSpace(h) IN Good(tight) /\ tight.len = h.len
<1> DEFINE type == sdsReqType(h.len)
<1>1. h.len \in Nat /\ h.type \in SdsType /\ h.alloc \in Nat
  BY DEF Good
<1>2. CASE sdsavail(h) = 0
  BY <1>2 DEF sdsRemoveFreeSpace
<1>3. CASE sdsavail(h) # 0 /\ type > SDS_TYPE_8
  <2>1. sdsRemoveFreeSpace(h) = sdssetalloc([h EXCEPT !.size = h.len + 1], h.len)
    BY <1>3 DEF sdsRemoveFreeSpace
  <2>2. h.type # SDS_TYPE_5 /\ h.len <= MaxLen[h.type]
    BY <1>1, <1>3, HeaderAssumption DEF sdsavail, sdsalloc, Good, SdsType
  <2>3. [h EXCEPT !.size = h.len + 1]
          = [type |-> h.type, len |-> h.len, alloc |-> h.alloc, size |-> h.len + 1]
    BY DEF Good
  <2>4. sdsRemoveFreeSpace(h)
          = [type |-> h.type, len |-> h.len, alloc |-> h.len, size |-> h.len + 1]
    BY <2>1, <2>2, <2>3 DEF sdssetalloc, Field
  <2> QED
    BY <1>1, <2>2, <2>4 DEF Good, sdsalloc
<1>4. CASE sdsavail(h) # 0 /\ ~(type > SDS_TYPE_8)
  <2>1. sdsRemoveFreeSpace(h) = sdssetalloc(sdssetlen(Block(type, h.len), h.len), h.len)
    BY <1>4 DEF sdsRemoveFreeSpace
  <2>2. h.len <= MaxLen[SDS_TYPE_64]
    BY <1>1, Widest
  <2>3. type \in SdsType /\ h.len <= MaxLen[type]
    BY <1>1, <2>2, ReqTypeFits
  <2> HIDE DEF type
  <2> QED
    BY <1>1, <2>1, <2>3, NewBlock
<1> QED
  BY <1>2, <1>3, <1>4

-----------------------------------------------------------------------------
(* Texts *)

\* What a call writes: the kept bytes and the new ones are bytes, a terminator follows.
LEMMA WrittenRight ==
    ASSUME HeaderOK, Terminated,
           NEW size \in Nat, NEW from \in Nat, NEW keep \in Nat, keep > 0 => from + keep <= hdr.len,
           NEW text \in Seq(Char), keep + Len(text) < size
    PROVE  LET w == Written(size, from, keep, text)
           IN  /\ w \in [1..size -> Char \cup {Junk}]
               /\ \A i \in 1..(keep + Len(text)) : w[i] \in Char
               /\ w[keep + Len(text) + 1] = NUL
<1> DEFINE n == Len(text)
           w == Written(size, from, keep, text)
<1>1. n \in Nat /\ hdr.len \in Nat
  BY DEF HeaderOK
<1>2. \A i \in 1..n : text[i] \in Char
  OBVIOUS
<1>3. \A i \in 1..keep : buf[from + i] \in Char
  BY <1>1 DEF Terminated
<1>4. w = [i \in 1..size |-> IF i <= keep THEN buf[from + i]
                            ELSE IF i <= keep + n THEN text[i - keep]
                            ELSE IF i = keep + n + 1 THEN NUL ELSE Junk]
  BY DEF Written
<1> HIDE DEF w, n
<1>5. \A i \in 1..(keep + n) : w[i] \in Char
  <2> TAKE i \in 1..(keep + n)
  <2>1. CASE i <= keep
    BY <1>1, <1>3, <1>4, <2>1
  <2>2. CASE i > keep
    <3>1. w[i] = text[i - keep] /\ i - keep \in 1..n
      BY <1>1, <1>4, <2>2 DEF n
    <3> QED
      BY <1>2, <3>1
  <2> QED
    BY <1>1, <2>1, <2>2
<1>6. w[keep + n + 1] = NUL
  BY <1>1, <1>4 DEF n
<1>7. \A i \in 1..size : w[i] \in Char \cup {Junk}
  <2> TAKE i \in 1..size
  <2>1. CASE i <= keep + n
    BY <1>1, <1>5, <2>1
  <2>2. CASE ~(i <= keep + n)
    BY <1>1, <1>4, <2>2, SdsAssumption
  <2> QED
    BY <2>1, <2>2
<1> QED
  BY <1>4, <1>5, <1>6, <1>7 DEF n, w

\* So such a call keeps the header and the terminator right.
LEMMA PutsRight ==
    ASSUME HeaderOK, Terminated,
           NEW from \in Nat, NEW keep \in Nat, keep > 0 => from + keep <= hdr.len,
           NEW text \in Seq(Char), keep + Len(text) <= MaxText,
           Puts(from, keep, text)
    PROVE  HeaderOK' /\ Terminated'
<1>1. hdr'.size \in Nat /\ keep + Len(text) < hdr'.size
  BY DEF Puts, Good, sdsalloc
<1>2. Terminated'
  BY <1>1, WrittenRight DEF Terminated, Puts
<1>3. HeaderOK'
  BY DEF HeaderOK, Good, sdsalloc, Puts
<1> QED
  BY <1>2, <1>3

-----------------------------------------------------------------------------
(* Calls *)

LEMMA InitInv == SdsInit => SdsInv
<1> SUFFICES ASSUME SdsInit PROVE SdsInv
  OBVIOUS
<1>1. PICK text \in Texts :
        /\ Len(text) <= MaxText
        /\ hdr = sdsnewlen(Len(text))
        /\ buf = [i \in 1..(Len(text) + 1) |-> IF i <= Len(text) THEN text[i] ELSE NUL]
  BY DEF SdsInit
<1> DEFINE n == Len(text)
           type == IF n = 0 THEN SDS_TYPE_8 ELSE sdsReqType(n)
<1>2. text \in Seq(Char) /\ n \in Nat
  BY SdsAssumption
<1>3. type \in SdsType /\ n <= MaxLen[type]
  <2>1. n <= MaxLen[SDS_TYPE_64]
    BY <1>1, <1>2, Widest
  <2>2. sdsReqType(n) \in SdsType /\ n <= MaxLen[sdsReqType(n)]
    BY <1>2, <2>1, ReqTypeFits
  <2>3. SDS_TYPE_8 \in SdsType /\ 0 <= MaxLen[SDS_TYPE_8]
    BY Widest DEF SDS_TYPE_8, SdsType
  <2> QED
    BY <2>2, <2>3
<1>4. hdr = sdssetalloc(sdssetlen(Block(type, n), n), n)
  BY <1>1 DEF sdsnewlen
<1> HIDE DEF type
<1>5. Good(hdr) /\ hdr.len = n /\ hdr.size = n + 1
  BY <1>2, <1>3, <1>4, NewBlock
<1>6. HeaderOK
  BY <1>1, <1>5 DEF HeaderOK, Good
<1>7. Terminated
  <2>1. buf \in [1..hdr.size -> Char \cup {Junk}]
    BY <1>1, <1>2, <1>5, SdsAssumption
  <2>2. \A i \in 1..hdr.len : buf[i] \in Char
    BY <1>1, <1>2, <1>5
  <2>3. buf[hdr.len + 1] = NUL
    BY <1>1, <1>2, <1>5
  <2> QED
    BY <2>1, <2>2, <2>3 DEF Terminated
<1>8. GrantHolds /\ status \in {"live", "null", "aborted", "freed"}
  BY <1>6, Widest DEF SdsInit, GrantHolds, HeaderOK
<1> QED
  BY <1>6, <1>7, <1>8 DEF SdsInv

\* After a call that returns a string nothing is promised.
LEMMA AfterReturn ==
    ASSUME Returns, HeaderOK', Terminated'
    PROVE  SdsInv'
BY Widest DEF Returns, SdsInv, GrantHolds, HeaderOK

\* The usual end of a call: the length is set in a header with room for it.
LEMMA SetPuts ==
    ASSUME NEW room, Good(room),
           NEW from \in Nat, NEW keep \in Nat, NEW text \in Seq(Char),
           keep + Len(text) <= sdsalloc(room),
           hdr' = sdssetlen(room, keep + Len(text)),
           buf' = Written(room.size, from, keep, text)
    PROVE  Puts(from, keep, text)
<1>1. keep + Len(text) \in Nat
  OBVIOUS
<1> QED
  BY <1>1, SetLen DEF Puts

LEMMA CallInv ==
    ASSUME SdsInv, Returns,
           NEW from \in Nat, NEW keep \in Nat, keep > 0 => from + keep <= hdr.len,
           NEW text \in Seq(Char), keep + Len(text) <= MaxText,
           Puts(from, keep, text)
    PROVE  SdsInv'
<1>1. HeaderOK /\ Terminated
  BY DEF SdsInv
<1>2. HeaderOK' /\ Terminated'
  BY <1>1, PutsRight
<1> QED
  BY <1>2, AfterReturn

\* What the proofs of the calls start from.
LEMMA Now ==
    ASSUME SdsInv
    PROVE  /\ Good(hdr) /\ hdr.len \in Nat /\ hdr.len <= MaxText
           /\ sdsalloc(hdr) \in Nat /\ hdr.len <= sdsalloc(hdr)
           /\ <<>> \in Seq(Char) /\ Len(<<>>) = 0
BY DEF SdsInv, HeaderOK, Good, sdsalloc

LEMMA AppendPuts ==
    ASSUME SdsInv, NEW text \in Texts, sdscatlen(text)
    PROVE  Puts(0, hdr.len, text) /\ SdsInv'
<1> DEFINE room == sdsMakeRoomFor(hdr, Len(text))
<1>1. text \in Seq(Char) /\ Len(text) \in Nat
  BY SdsAssumption
<1>2. /\ Returns
      /\ hdr.len + Len(text) <= MaxText
      /\ hdr' = sdssetlen(room, hdr.len + Len(text))
      /\ buf' = Written(room.size, 0, hdr.len, text)
  BY DEF sdscatlen
<1>3. Good(room) /\ hdr.len + Len(text) <= sdsalloc(room)
  BY <1>1, <1>2, Now, RoomMade
<1> HIDE DEF room
<1>4. 0 \in Nat /\ hdr.len \in Nat /\ 0 + hdr.len <= hdr.len
  BY Now
<1>5. Puts(0, hdr.len, text)
  BY <1>1, <1>2, <1>3, <1>4, SetPuts
<1> QED
  BY <1>1, <1>2, <1>4, <1>5, CallInv

LEMMA CopyPuts ==
    ASSUME SdsInv, NEW text \in Texts, sdscpylen(text)
    PROVE  Puts(0, 0, text) /\ SdsInv'
<1> DEFINE room == IF sdsalloc(hdr) < Len(text) THEN sdsMakeRoomFor(hdr, Len(text) - hdr.len)
                   ELSE hdr
<1>1. text \in Seq(Char) /\ Len(text) \in Nat
  BY SdsAssumption
<1>2. /\ Returns
      /\ Len(text) <= MaxText
      /\ hdr' = sdssetlen(room, Len(text))
      /\ buf' = Written(room.size, 0, 0, text)
  BY DEF sdscpylen
<1>3. Good(room) /\ Len(text) <= sdsalloc(room)
  <2>1. CASE sdsalloc(hdr) < Len(text)
    <3>1. Len(text) - hdr.len \in Nat /\ hdr.len + (Len(text) - hdr.len) = Len(text)
      BY <1>1, <2>1, Now
    <3> QED
      BY <1>2, <2>1, <3>1, Now, RoomMade
  <2>2. CASE ~(sdsalloc(hdr) < Len(text))
    BY <1>1, <2>2, Now
  <2> QED
    BY <2>1, <2>2
<1> HIDE DEF room
<1>4. 0 \in Nat /\ 0 + 0 <= hdr.len /\ 0 + Len(text) = Len(text)
  BY <1>1, Now
<1>5. Puts(0, 0, text)
  BY <1>1, <1>2, <1>3, <1>4, SetPuts
<1> QED
  BY <1>1, <1>2, <1>4, <1>5, CallInv

LEMMA GrowPuts ==
    ASSUME SdsInv, NEW n \in Sizes, sdsgrowzero(n)
    PROVE  /\ [i \in 1..(n - hdr.len) |-> NUL] \in Seq(Char)
           /\ Puts(0, hdr.len, [i \in 1..(n - hdr.len) |-> NUL])
           /\ SdsInv'
<1> DEFINE more  == n - hdr.len
           zeros == [i \in 1..more |-> NUL]
           room  == sdsMakeRoomFor(hdr, more)
<1>1. /\ Returns /\ n > hdr.len /\ n <= MaxText
      /\ hdr' = sdssetlen(room, n)
      /\ buf' = Written(room.size, 0, hdr.len, zeros)
  BY DEF sdsgrowzero
<1>2. n \in Nat /\ more \in Nat /\ hdr.len + more = n
  BY <1>1, Now, SdsAssumption
<1>3. zeros \in Seq(Char) /\ Len(zeros) = more
  BY <1>2, SdsAssumption
<1>4. Good(room) /\ n <= sdsalloc(room)
  BY <1>1, <1>2, Now, RoomMade
<1> HIDE DEF room, zeros, more
<1>5. 0 \in Nat /\ 0 + hdr.len <= hdr.len /\ hdr.len + Len(zeros) = n
  BY <1>2, <1>3, Now
<1>6. Puts(0, hdr.len, zeros)
  BY <1>1, <1>3, <1>4, <1>5, Now, SetPuts
<1>7. SdsInv'
  BY <1>1, <1>3, <1>5, <1>6, Now, CallInv
<1> QED
  BY <1>3, <1>6, <1>7 DEF zeros, more

\* The calls that keep a part of the text.
LEMMA ShortenPuts ==
    ASSUME SdsInv, NEW from \in Nat, NEW count \in Nat, count > 0 => from + count <= hdr.len,
           Shorten(from, count)
    PROVE  Puts(from, count, <<>>) /\ SdsInv'
<1>1. /\ Returns
      /\ hdr' = sdssetlen(hdr, count)
      /\ buf' = Written(hdr.size, from, count, <<>>)
  BY DEF Shorten
<1>2. count + Len(<<>>) = count /\ count <= sdsalloc(hdr) /\ count <= MaxText
  BY Now, Widest
<1>3. Puts(from, count, <<>>)
  BY <1>1, <1>2, Now, SetPuts
<1> QED
  BY <1>1, <1>2, <1>3, Now, CallInv

LEMMA RangePuts ==
    ASSUME SdsInv, NEW start \in Indexes, NEW end \in Indexes, sdsrange(start, end)
    PROVE  LET part == RangePart(hdr.len, start, end)
           IN  /\ part.from \in Nat /\ part.count \in Nat
               /\ part.count > 0 => part.from + part.count <= hdr.len
               /\ Puts(part.from, part.count, <<>>)
               /\ SdsInv'
<1> DEFINE n    == hdr.len
           from == Clamp(n, start)
           last == IF Clamp(n, end) >= n THEN n - 1 ELSE Clamp(n, end)
           part == RangePart(n, start, end)
<1>1. n \in Nat /\ n > 0 /\ Shorten(part.from, part.count)
  BY Now DEF sdsrange
<1>2. start \in Int /\ end \in Int
  BY SdsAssumption
<1>3. from \in Nat /\ last \in Nat /\ last < n
  BY <1>1, <1>2 DEF Clamp
<1>4. part = [from |-> from, count |-> IF from > last \/ from >= n THEN 0 ELSE last - from + 1]
  BY DEF RangePart
<1> HIDE DEF from, last
<1>5. part.from \in Nat /\ part.count \in Nat /\ (part.count > 0 => part.from + part.count <= n)
  BY <1>1, <1>3, <1>4
<1> HIDE DEF part
<1>6. Puts(part.from, part.count, <<>>) /\ SdsInv'
  BY <1>1, <1>5, ShortenPuts
<1> QED
  BY <1>5, <1>6 DEF part

LEMMA TrimInv ==
    ASSUME SdsInv, NEW c \in Char, sdstrim(c)
    PROVE  SdsInv'
<1> DEFINE kept == {i \in 1..hdr.len : buf[i] \notin {c, NUL}}
<1>1. CASE kept = {} /\ Shorten(0, 0)
  BY <1>1, Now, ShortenPuts
<1>2. CASE \E sp, ep \in kept :
             (\A i \in kept : sp <= i /\ i <= ep) /\ Shorten(sp - 1, ep - sp + 1)
  <2>1. PICK sp \in kept, ep \in kept :
          (\A i \in kept : sp <= i /\ i <= ep) /\ Shorten(sp - 1, ep - sp + 1)
    BY <1>2
  <2>2. sp \in 1..hdr.len /\ ep \in 1..hdr.len /\ sp <= ep
    BY <2>1
  <2>3. sp - 1 \in Nat /\ ep - sp + 1 \in Nat /\ (sp - 1) + (ep - sp + 1) <= hdr.len
    BY <2>2, Now
  <2> QED
    BY <2>1, <2>3, ShortenPuts
<1> QED
  BY <1>1, <1>2 DEF sdstrim

LEMMA CutInv ==
    ASSUME SdsInv, NEW n \in Sizes, TrimRight(n) \/ sdsupdatelen(n)
    PROVE  SdsInv'
<1>1. CASE TrimRight(n)
  <2>1. n \in 1..hdr.len /\ Shorten(0, hdr.len - n)
    BY <1>1 DEF TrimRight
  <2>2. hdr.len - n \in Nat /\ 0 \in Nat /\ 0 + (hdr.len - n) <= hdr.len
    BY <2>1, Now
  <2> QED
    BY <2>1, <2>2, ShortenPuts
<1>2. CASE sdsupdatelen(n)
  <2>1. PICK strlen \in 0..(n - 1) : n \in 1..hdr.len /\ Shorten(0, strlen)
    BY <1>2 DEF sdsupdatelen
  <2>2. strlen \in Nat /\ 0 \in Nat /\ 0 + strlen <= hdr.len
    BY <2>1, Now
  <2> QED
    BY <2>1, <2>2, ShortenPuts
<1> QED
  BY <1>1, <1>2

\* The promise: with a grant the header has the room, and no type 5.
LEMMA MakeRoomPuts ==
    ASSUME SdsInv, NEW n \in Sizes, MakeRoom(n)
    PROVE  Puts(0, hdr.len, <<>>) /\ SdsInv'
<1> DEFINE room == sdsMakeRoomFor(hdr, n)
<1>1. /\ status' = "live" /\ granted' = n /\ hdr.len + n <= MaxText
      /\ hdr' = room /\ buf' = Written(hdr'.size, 0, hdr.len, <<>>)
  BY DEF MakeRoom
<1>2. n \in Nat
  BY SdsAssumption
<1>3. /\ Good(room) /\ room.len = hdr.len /\ hdr.len + n <= sdsalloc(room)
      /\ n > 0 => room.type # SDS_TYPE_5
  BY <1>1, <1>2, Now, RoomMade
<1> HIDE DEF room
<1>4. 0 + hdr.len <= hdr.len /\ hdr.len + Len(<<>>) = hdr.len
  BY Now
<1>5. Puts(0, hdr.len, <<>>)
  BY <1>1, <1>3, <1>4 DEF Puts
<1>6. HeaderOK /\ Terminated
  BY DEF SdsInv
<1>7. HeaderOK' /\ Terminated'
  BY <1>4, <1>5, <1>6, Now, PutsRight
<1>8. GrantHolds'
  BY <1>1, <1>2, <1>3, Now DEF GrantHolds, sdsalloc
<1> QED
  BY <1>1, <1>5, <1>7, <1>8 DEF SdsInv

LEMMA TightPuts ==
    ASSUME SdsInv, RemoveFreeSpace
    PROVE  Puts(0, hdr.len, <<>>) /\ SdsInv'
<1> DEFINE tight == sdsRemoveFreeSpace(hdr)
<1>1. Returns /\ hdr' = tight /\ buf' = Written(hdr'.size, 0, hdr.len, <<>>)
  BY DEF RemoveFreeSpace
<1>2. Good(tight) /\ tight.len = hdr.len
  BY Now, TightBlock
<1> HIDE DEF tight
<1>3. 0 + hdr.len <= hdr.len /\ hdr.len + Len(<<>>) = hdr.len
  BY Now
<1>4. Puts(0, hdr.len, <<>>)
  BY <1>1, <1>2, <1>3 DEF Puts
<1> QED
  BY <1>1, <1>3, <1>4, Now, CallInv

\* The increment that the client announces is within the grant.
LEMMA IncrementPuts ==
    ASSUME SdsInv, NEW text \in Texts, sdsIncrLen(text)
    PROVE  Puts(0, hdr.len, text) /\ SdsInv'
<1>1. text \in Seq(Char) /\ Len(text) \in Nat
  BY SdsAssumption
<1>2. /\ Len(text) <= granted /\ Returns
      /\ hdr' = sdssetlen(hdr, hdr.len + Len(text))
      /\ buf' = Written(hdr.size, 0, hdr.len, text)
  BY DEF sdsIncrLen
<1>3. /\ granted \in Nat /\ hdr.len + granted <= MaxText
      /\ granted > 0 => hdr.type # SDS_TYPE_5 /\ hdr.len + granted <= hdr.alloc
  BY DEF SdsInv, GrantHolds
<1>4. hdr.len + Len(text) <= sdsalloc(hdr)
  <2>1. CASE granted = 0
    BY <1>1, <1>2, <2>1, Now
  <2>2. CASE granted > 0
    <3>1. sdsalloc(hdr) = hdr.alloc /\ hdr.alloc \in Nat /\ hdr.len + granted <= hdr.alloc
      BY <1>3, <2>2, Now DEF sdsalloc, Good
    <3> QED
      BY <1>1, <1>2, <1>3, <3>1, Now
  <2> QED
    BY <1>3, <2>1, <2>2
<1>5. hdr.len + Len(text) <= MaxText /\ 0 + hdr.len <= hdr.len
  BY <1>1, <1>2, <1>3, Now, Widest
<1>6. Puts(0, hdr.len, text)
  BY <1>1, <1>2, <1>4, Now, SetPuts
<1> QED
  BY <1>1, <1>2, <1>5, <1>6, Now, CallInv

\* Only an increment of 0 on a string of type 5 fails the assertion.
LEMMA AbortInv ==
    ASSUME SdsInv, NEW text \in Texts, IncrLenAborts(text)
    PROVE  SdsInv'
<1>1. Len(text) \in Nat
  BY SdsAssumption
<1>2. /\ Len(text) <= granted /\ ~IncrLenAsserts(hdr, Len(text))
      /\ status' = "aborted" /\ hdr' = hdr /\ buf' = buf /\ granted' = granted
  BY DEF IncrLenAborts
<1>3. granted \in Nat /\ (granted > 0 => hdr.type # SDS_TYPE_5 /\ hdr.len + granted <= hdr.alloc)
  BY DEF SdsInv, GrantHolds
<1>4. hdr.type = SDS_TYPE_5
  <2> SUFFICES ASSUME hdr.type # SDS_TYPE_5 PROVE FALSE
    OBVIOUS
  <2>1. hdr.alloc \in Nat /\ hdr.len <= hdr.alloc
    BY Now DEF Good, sdsalloc
  <2>2. hdr.alloc - hdr.len >= Len(text)
    BY <1>1, <1>2, <1>3, <2>1, Now
  <2> QED
    BY <1>1, <1>2, <2>2 DEF IncrLenAsserts
<1>5. GrantHolds'
  BY <1>2, <1>3, <1>4 DEF SdsInv, GrantHolds
<1>6. HeaderOK' /\ Terminated'
  BY <1>2 DEF SdsInv, HeaderOK, Terminated
<1> QED
  BY <1>2, <1>5, <1>6 DEF SdsInv

\* The calls that leave the string as it is.
LEMMA SameInv ==
    ASSUME SdsInv, hdr' = hdr, buf' = buf,
           \/ granted' = granted /\ status' = status
           \/ granted' = 0 /\ status' = "null"
           \/ granted' = granted /\ status' = "freed"
    PROVE  SdsInv'
<1>1. HeaderOK' /\ Terminated'
  BY DEF SdsInv, HeaderOK, Terminated
<1>2. GrantHolds'
  BY Now, Widest DEF SdsInv, GrantHolds
<1> QED
  BY <1>1, <1>2 DEF SdsInv

-----------------------------------------------------------------------------

LEMMA StepInv == SdsInv /\ [SdsNext]_dvars => SdsInv'
<1> SUFFICES ASSUME SdsInv, [SdsNext]_dvars PROVE SdsInv'
  OBVIOUS
<1>1. ASSUME NEW text \in Texts,
             sdscatlen(text) \/ sdscpylen(text) \/ sdsIncrLen(text) \/ IncrLenAborts(text)
      PROVE  SdsInv'
  BY <1>1, AppendPuts, CopyPuts, IncrementPuts, AbortInv
<1>2. ASSUME NEW n \in Sizes, sdsgrowzero(n) \/ MakeRoom(n) \/ TrimRight(n) \/ sdsupdatelen(n)
      PROVE  SdsInv'
  BY <1>2, GrowPuts, MakeRoomPuts, CutInv
<1>3. ASSUME NEW n \in Sizes, OutOfMemory(n) PROVE SdsInv'
  BY <1>3, SameInv DEF OutOfMemory
<1>4. ASSUME NEW i \in Indexes, NEW j \in Indexes, sdsrange(i, j) PROVE SdsInv'
  BY <1>4, RangePuts
<1>5. ASSUME NEW c \in Char, sdstrim(c) PROVE SdsInv'
  BY <1>5, TrimInv
<1>6. CASE sdsclear
  BY <1>6, Now, ShortenPuts DEF sdsclear
<1>7. CASE RemoveFreeSpace
  BY <1>7, TightPuts
<1>8. CASE sdsfree
  BY <1>8, SameInv DEF sdsfree
<1>9. CASE UNCHANGED dvars
  BY <1>9, SameInv DEF dvars
<1> QED
  BY <1>1, <1>2, <1>3, <1>4, <1>5, <1>6, <1>7, <1>8, <1>9 DEF SdsNext

\* The header, the promise of free space and the terminator of a string of sds.c stay
\* right through every sequence of calls that keeps the rules of its comments.
THEOREM StringCorrect == SdsSpec => []SdsInv
<1>1. SdsInit => SdsInv
  BY InitInv
<1>2. SdsInv /\ [SdsNext]_dvars => SdsInv'
  BY StepInv
<1> QED
  BY <1>1, <1>2, PTL DEF SdsSpec

\* No call of sds.c stores a length that its header cuts off or writes behind the block.
THEOREM HeaderCorrect == SdsSpec => []HeaderOK
<1>1. SdsInv => HeaderOK
  BY DEF SdsInv
<1> QED
  BY <1>1, StringCorrect, PTL

\* The room that sdsMakeRoomFor promised is there when sdsIncrLen announces its use.
THEOREM GrantCorrect == SdsSpec => []GrantHolds
<1>1. SdsInv => GrantHolds
  BY DEF SdsInv
<1> QED
  BY <1>1, StringCorrect, PTL

\* The text is written bytes and ends with the terminator, whatever calls came before.
THEOREM TerminatorCorrect == SdsSpec => []Terminated
<1>1. SdsInv => Terminated
  BY DEF SdsInv
<1> QED
  BY <1>1, StringCorrect, PTL

-----------------------------------------------------------------------------
(* The text *)

\* The text as bytes of the block.
LEMMA TextBytes ==
    ASSUME SdsInv
    PROVE  /\ Text \in Seq(Char) /\ Len(Text) = hdr.len
           /\ \A i \in 1..hdr.len : Text[i] = buf[i]
<1>1. \A i \in 1..hdr.len : buf[i] \in Char
  BY DEF SdsInv, Terminated
<1>2. hdr.len \in Nat
  BY Now
<1> QED
  BY <1>1, <1>2, SubSeqProperties DEF Text

\* A part of the block within the text is a part of the text.
LEMMA PartBytes ==
    ASSUME SdsInv, NEW i \in Nat \ {0}, NEW j \in Int, j <= hdr.len
    PROVE  /\ SubSeq(buf, i, j) = SubSeq(Text, i, j)
           /\ SubSeq(buf, i, j) \in Seq(Char)
           /\ Len(SubSeq(buf, i, j)) = IF i <= j THEN j - i + 1 ELSE 0
           /\ \A k \in 1..(j - i + 1) : SubSeq(buf, i, j)[k] = buf[i + k - 1]
<1>1. hdr.len \in Nat /\ \A k \in i..j : k \in 1..hdr.len
  BY Now
<1>2. \A k \in i..j : buf[k] \in Char /\ Text[k] \in Char /\ Text[k] = buf[k]
  BY <1>1, TextBytes DEF SdsInv, Terminated
<1>3. /\ SubSeq(buf, i, j) \in Seq(Char)
      /\ Len(SubSeq(buf, i, j)) = IF i <= j THEN j - i + 1 ELSE 0
      /\ \A k \in 1..(j - i + 1) : SubSeq(buf, i, j)[k] = buf[i + k - 1]
  BY <1>2, SubSeqProperties
<1>4. /\ SubSeq(Text, i, j) \in Seq(Char)
      /\ Len(SubSeq(Text, i, j)) = IF i <= j THEN j - i + 1 ELSE 0
      /\ \A k \in 1..(j - i + 1) : SubSeq(Text, i, j)[k] = Text[i + k - 1]
  BY <1>2, SubSeqProperties
<1>5. \A k \in 1..Len(SubSeq(buf, i, j)) : SubSeq(buf, i, j)[k] = SubSeq(Text, i, j)[k]
  <2> TAKE k \in 1..Len(SubSeq(buf, i, j))
  <2>1. k \in 1..(j - i + 1) /\ i + k - 1 \in i..j
    BY <1>3
  <2> QED
    BY <2>1, <1>2, <1>3, <1>4
<1> QED
  BY <1>3, <1>4, <1>5, SeqEqual

\* A call leaves the kept bytes and the new ones.
LEMMA TextAfter ==
    ASSUME SdsInv,
           NEW from \in Nat, NEW keep \in Nat, keep > 0 => from + keep <= hdr.len,
           NEW text \in Seq(Char), Puts(from, keep, text)
    PROVE  Text' = SubSeq(Text, from + 1, from + keep) \o text
<1> DEFINE n == Len(text)
           size == hdr'.size
           kept == SubSeq(buf, from + 1, from + keep)
<1>1. n \in Nat /\ size \in Nat /\ keep + n < size /\ hdr'.len = keep + n
  BY DEF Puts, Good, sdsalloc
<1>2. HeaderOK /\ Terminated
  BY DEF SdsInv
<1>3. \A i \in 1..(keep + n) : buf'[i] \in Char
  BY <1>1, <1>2, WrittenRight DEF Puts
<1>4. buf' = [i \in 1..size |-> IF i <= keep THEN buf[from + i]
                               ELSE IF i <= keep + n THEN text[i - keep]
                               ELSE IF i = keep + n + 1 THEN NUL ELSE Junk]
  BY DEF Written, Puts
<1> HIDE DEF size
<1>5. /\ Text' \in Seq(Char) /\ Len(Text') = keep + n
      /\ \A i \in 1..(keep + n) : Text'[i] = buf'[i]
  BY <1>1, <1>3, SubSeqProperties DEF Text
<1>6. /\ kept \in Seq(Char) /\ Len(kept) = keep
      /\ \A i \in 1..keep : kept[i] = buf[from + i]
      /\ kept = SubSeq(Text, from + 1, from + keep)
  <2>1. CASE keep = 0
    <3>1. from + 1 \in Int /\ from + keep \in Int /\ from + keep < from + 1
      BY <2>1
    <3>2. kept = <<>> /\ SubSeq(Text, from + 1, from + keep) = <<>>
      BY <3>1, SubSeqEmpty
    <3> QED
      BY <2>1, <3>2, Now
  <2>2. CASE keep > 0
    <3>1. from + 1 \in Nat \ {0} /\ from + keep \in Int /\ from + keep <= hdr.len
      BY <2>2
    <3> QED
      BY <2>2, <3>1, PartBytes
  <2> QED
    BY <2>1, <2>2
<1> HIDE DEF n, kept
<1>7. /\ kept \o text \in Seq(Char) /\ Len(kept \o text) = keep + n
      /\ \A i \in 1..(keep + n) : (kept \o text)[i] = IF i <= keep THEN kept[i] ELSE text[i - keep]
  BY <1>6, ConcatProperties DEF n
<1>8. \A i \in 1..(keep + n) : Text'[i] = (kept \o text)[i]
  <2> TAKE i \in 1..(keep + n)
  <2>1. i \in 1..size
    BY <1>1 DEF n
  <2>2. buf'[i] = IF i <= keep THEN buf[from + i] ELSE text[i - keep]
    BY <1>1, <1>4, <2>1
  <2>3. Text'[i] = buf'[i]
    BY <1>5
  <2>4. (kept \o text)[i] = IF i <= keep THEN kept[i] ELSE text[i - keep]
    BY <1>7
  <2>5. i <= keep => kept[i] = buf[from + i]
    BY <1>1, <1>6
  <2> QED
    BY <2>2, <2>3, <2>4, <2>5
<1>9. Text' = kept \o text
  BY <1>5, <1>7, <1>8, SeqEqual
<1> QED
  BY <1>6, <1>9

\* The calls that keep the whole text, in the same block or another one.
LEMMA TextAppended ==
    ASSUME SdsInv, NEW text \in Seq(Char), Puts(0, hdr.len, text)
    PROVE  Text' = Text \o text
<1>1. hdr.len \in Nat /\ 0 + hdr.len = hdr.len /\ 0 + 1 = 1
  BY Now
<1>2. Text' = SubSeq(Text, 0 + 1, 0 + hdr.len) \o text
  BY <1>1, TextAfter
<1>3. SubSeq(Text, 1, hdr.len) = Text
  BY TextBytes, SubSeqFull
<1> QED
  BY <1>1, <1>2, <1>3

LEMMA TextKept ==
    ASSUME SdsInv, Puts(0, hdr.len, <<>>)
    PROVE  Text' = Text
<1>1. Text' = Text \o <<>>
  BY Now, TextAppended
<1> QED
  BY <1>1, TextBytes, ConcatEmptySeq

\* The calls that keep a part.
LEMMA TextShortened ==
    ASSUME SdsInv, NEW from \in Nat, NEW count \in Nat, count > 0 => from + count <= hdr.len,
           Puts(from, count, <<>>)
    PROVE  Text' = SubSeq(Text, from + 1, from + count)
<1>1. Text' = SubSeq(Text, from + 1, from + count) \o <<>>
  BY Now, TextAfter
<1>2. SubSeq(Text, from + 1, from + count) \in Seq(Char)
  <2>1. CASE count = 0
    <3>1. SubSeq(Text, from + 1, from + count) = <<>>
      BY <2>1, SubSeqEmpty
    <3> QED
      BY <3>1, Now
  <2>2. CASE count > 0
    <3>1. from + 1 \in Nat \ {0} /\ from + count \in Int /\ from + count <= hdr.len
      BY <2>2
    <3> QED
      BY <3>1, PartBytes
  <2> QED
    BY <2>1, <2>2
<1> QED
  BY <1>1, <1>2, ConcatEmptySeq

-----------------------------------------------------------------------------
(* The calls *)

LEMMA CopyDoes ==
    ASSUME SdsInv, NEW text \in Texts, sdscpylen(text)
    PROVE  Text' = text
<1>1. text \in Seq(Char) /\ Puts(0, 0, text) /\ 0 \in Nat
  BY CopyPuts, SdsAssumption
<1>2. Text' = SubSeq(Text, 0 + 1, 0 + 0) \o text
  BY <1>1, TextAfter
<1>3. SubSeq(Text, 0 + 1, 0 + 0) = <<>>
  BY SubSeqEmpty
<1> QED
  BY <1>1, <1>2, <1>3, ConcatEmptySeq

LEMMA TrimRightDoes ==
    ASSUME SdsInv, NEW n \in Sizes, TrimRight(n)
    PROVE  Text' = SubSeq(Text, 1, Len(Text) - n)
<1>1. n \in 1..hdr.len /\ Shorten(0, hdr.len - n)
  BY DEF TrimRight
<1>2. hdr.len - n \in Nat /\ 0 \in Nat /\ 0 + (hdr.len - n) <= hdr.len
      /\ 0 + (hdr.len - n) = hdr.len - n
  BY <1>1, Now
<1>3. Text' = SubSeq(Text, 0 + 1, 0 + (hdr.len - n))
  BY <1>1, <1>2, ShortenPuts, TextShortened
<1> QED
  BY <1>2, <1>3, TextBytes

\* Negative indexes count from the end, and indexes outside the text are clamped.
LEMMA RangeDoes ==
    ASSUME SdsInv, NEW i \in Indexes, NEW j \in Indexes, sdsrange(i, j)
    PROVE  Text' = Interval(Text, i, j)
<1> DEFINE n == hdr.len
           part == RangePart(n, i, j)
           first == IF Position(Text, i) < 1 THEN 1 ELSE Position(Text, i)
           last  == IF Position(Text, j) > n THEN n
                    ELSE IF Position(Text, j) < 1 THEN 1 ELSE Position(Text, j)
<1>1. n \in Nat /\ n > 0 /\ i \in Int /\ j \in Int /\ Len(Text) = n
  BY Now, TextBytes, SdsAssumption DEF sdsrange
<1>2. Interval(Text, i, j) = SubSeq(Text, first, last)
  BY <1>1 DEF Interval
<1>3. first \in Nat /\ last \in Nat /\ last <= n /\ first > 0
  BY <1>1 DEF Position
<1>4. part = [from |-> first - 1, count |-> IF first > last THEN 0 ELSE last - first + 1]
  <2>1. Clamp(n, i) = first - 1
    BY <1>1 DEF Clamp, Position
  <2>2. (IF Clamp(n, j) >= n THEN n - 1 ELSE Clamp(n, j)) = last - 1
    BY <1>1 DEF Clamp, Position
  <2>3. part = [from |-> first - 1,
                count |-> IF first - 1 > last - 1 \/ first - 1 >= n THEN 0
                          ELSE (last - 1) - (first - 1) + 1]
    BY <2>1, <2>2 DEF RangePart
  <2> HIDE DEF first, last, n
  <2>4. (IF first - 1 > last - 1 \/ first - 1 >= n THEN 0 ELSE (last - 1) - (first - 1) + 1)
          = IF first > last THEN 0 ELSE last - first + 1
    BY <1>1, <1>3
  <2> QED
    BY <2>3, <2>4
<1>5. /\ part.from \in Nat /\ part.count \in Nat
      /\ part.count > 0 => part.from + part.count <= hdr.len
      /\ Puts(part.from, part.count, <<>>)
  BY RangePuts
<1> HIDE DEF first, last, part
<1>6. Text' = SubSeq(Text, part.from + 1, part.from + part.count)
  BY <1>5, TextShortened
<1>7. CASE first > last
  <2>1. part.from + part.count < part.from + 1 /\ part.from + 1 \in Int
        /\ part.from + part.count \in Int
    BY <1>3, <1>4, <1>7
  <2>2. SubSeq(Text, part.from + 1, part.from + part.count) = <<>>
    BY <2>1, SubSeqEmpty
  <2>3. SubSeq(Text, first, last) = <<>>
    BY <1>3, <1>7, SubSeqEmpty
  <2> QED
    BY <1>2, <1>6, <2>2, <2>3
<1>8. CASE ~(first > last)
  <2>1. part.from + 1 = first /\ part.from + part.count = last
    BY <1>3, <1>4, <1>8
  <2> QED
    BY <1>2, <1>6, <2>1
<1> QED
  BY <1>7, <1>8

\* Everything that is cut off is in the set, and what is left starts and ends outside it.
LEMMA TrimDoes ==
    ASSUME SdsInv, NEW c \in Char, sdstrim(c)
    PROVE  IsStripped(Text', Text, c)
<1> DEFINE kept == {i \in 1..hdr.len : buf[i] \notin {c, NUL}}
<1>1. /\ Text \in Seq(Char) /\ Len(Text) = hdr.len /\ hdr.len \in Nat
      /\ DOMAIN Text = 1..hdr.len
      /\ \A i \in 1..hdr.len : Text[i] = buf[i]
  BY TextBytes, Now, LenProperties
<1>2. CASE kept = {} /\ Shorten(0, 0)
  <2>1. Text' = SubSeq(Text, 0 + 1, 0 + 0)
    BY <1>1, <1>2, ShortenPuts, TextShortened
  <2>2. Text' = SubSeq(Text, 1, 0) /\ Text' = <<>>
    BY <2>1, SubSeqEmpty
  <2>3. \A k \in DOMAIN Text : Text[k] \in {c, NUL}
    BY <1>1, <1>2
  <2>4. 1 \in 1..(Len(Text) + 1) /\ 0 \in 0..Len(Text)
    BY <1>1
  <2> QED
    BY <2>2, <2>3, <2>4 DEF IsStripped
<1>3. CASE \E sp, ep \in kept :
             (\A i \in kept : sp <= i /\ i <= ep) /\ Shorten(sp - 1, ep - sp + 1)
  <2>1. PICK sp \in kept, ep \in kept :
          (\A i \in kept : sp <= i /\ i <= ep) /\ Shorten(sp - 1, ep - sp + 1)
    BY <1>3
  <2>2. /\ sp \in 1..hdr.len /\ ep \in 1..hdr.len /\ sp <= ep
        /\ buf[sp] \notin {c, NUL} /\ buf[ep] \notin {c, NUL}
    BY <2>1
  <2>3. /\ sp - 1 \in Nat /\ ep - sp + 1 \in Nat /\ (sp - 1) + (ep - sp + 1) <= hdr.len
        /\ (sp - 1) + 1 = sp /\ (sp - 1) + (ep - sp + 1) = ep
    BY <1>1, <2>2
  <2>4. Puts(sp - 1, ep - sp + 1, <<>>)
    BY <2>1, <2>3, ShortenPuts
  <2>5. Text' = SubSeq(Text, (sp - 1) + 1, (sp - 1) + (ep - sp + 1))
    BY <2>3, <2>4, TextShortened
  <2>6. Text' = SubSeq(Text, sp, ep)
    BY <2>3, <2>5
  <2>7. \A k \in sp..ep : Text[k] \in Char
    BY <1>1, <2>2
  <2>8. /\ Len(Text') = ep - sp + 1
        /\ \A k \in 1..(ep - sp + 1) : Text'[k] = Text[sp + k - 1]
    BY <1>1, <2>2, <2>6, <2>7, SubSeqProperties
  <2>9. Text'[1] = Text[sp] /\ Text'[Len(Text')] = Text[ep]
    <3>1. /\ 1 \in 1..(ep - sp + 1) /\ ep - sp + 1 \in 1..(ep - sp + 1)
          /\ sp + 1 - 1 = sp /\ sp + (ep - sp + 1) - 1 = ep
      BY <1>1, <2>2
    <3> QED
      BY <2>8, <3>1
  <2>10. Text'[1] \notin {c, NUL} /\ Text'[Len(Text')] \notin {c, NUL}
    BY <1>1, <2>2, <2>9
  <2>11. \A k \in DOMAIN Text : (k < sp \/ k > ep) => Text[k] \in {c, NUL}
    BY <1>1, <2>1, <2>2
  <2>12. sp \in 1..(Len(Text) + 1) /\ ep \in 0..Len(Text)
    BY <1>1, <2>2
  <2> QED
    BY <2>6, <2>10, <2>11, <2>12 DEF IsStripped
<1> QED
  BY <1>2, <1>3 DEF sdstrim

LEMMA StepDoes == SdsInv => CallDoes
<1> SUFFICES ASSUME SdsInv PROVE CallDoes
  OBVIOUS
<1>1. ASSUME NEW t \in Texts, sdscatlen(t) \/ sdsIncrLen(t) PROVE Text' = Text \o t
  <2>1. t \in Seq(Char)
    BY SdsAssumption
  <2> QED
    BY <1>1, <2>1, AppendPuts, IncrementPuts, TextAppended
<1>2. ASSUME NEW n \in Sizes, sdsgrowzero(n)
      PROVE  Text' = Text \o [i \in 1..(n - Len(Text)) |-> NUL]
  BY <1>2, GrowPuts, TextBytes, TextAppended
<1>3. ASSUME NEW n \in Sizes, MakeRoom(n) PROVE Text' = Text
  BY <1>3, MakeRoomPuts, TextKept
<1>4. ASSUME NEW n \in Sizes, OutOfMemory(n) PROVE Text' = Text
  BY <1>4 DEF OutOfMemory, Text
<1>5. ASSUME sdsclear PROVE Text' = <<>>
  <2>1. Text' = SubSeq(Text, 0 + 1, 0 + 0)
    BY <1>5, Now, ShortenPuts, TextShortened DEF sdsclear
  <2> QED
    BY <2>1, SubSeqEmpty
<1>6. ASSUME RemoveFreeSpace PROVE Text' = Text
  BY <1>6, TightPuts, TextKept
<1> QED
  BY <1>1, <1>2, <1>3, <1>4, <1>5, <1>6, CopyDoes, TrimRightDoes, RangeDoes, TrimDoes
  DEF CallDoes

\* Every call of sds.c leaves the text that its comment announces, whatever the length,
\* the header type, the free space and the calls before.
THEOREM CallsCorrect == SdsSpec => CallsDo
<1>1. SdsInv /\ [SdsNext]_dvars => [CallDoes]_dvars
  BY StepDoes
<1> QED
  BY <1>1, StringCorrect, PTL DEF SdsSpec, CallsDo
=============================================================================
