----------------------------- MODULE SdsHeader -----------------------------
(***************************************************************************)
(* sds.h and sds.c: the header of a string.  A header type stores the       *)
(* length, and all but the smallest the allocated space, in fields of its   *)
(* width.  `size` is what the program cannot see: the bytes that malloc     *)
(* gave for the text and its terminator.                                    *)
(***************************************************************************)
EXTENDS Integers

CONSTANTS
    MaxLen,             \* by type, the largest length its fields hold: 31, 255, ...
    SDS_MAX_PREALLOC

SDS_TYPE_5 == 0
SDS_TYPE_8 == 1
SDS_TYPE_16 == 2
SDS_TYPE_32 == 3
SDS_TYPE_64 == 4
SdsType == 0..4

ASSUME HeaderAssumption ==
    /\ MaxLen \in [SdsType -> Nat]
    /\ MaxLen[SDS_TYPE_5] > 0
    /\ \A t, u \in SdsType : t < u => MaxLen[t] < MaxLen[u]
    /\ SDS_MAX_PREALLOC \in Nat

\* A value stored in a field of the header.
Field(type, n) == IF n <= MaxLen[type] THEN n ELSE n % (MaxLen[type] + 1)

\* Mutant: a limit is taken for a length that fits.
sdsReqTypeOffByOne(n) ==
    IF n <= MaxLen[SDS_TYPE_5] + 1 THEN SDS_TYPE_5
    ELSE IF n <= MaxLen[SDS_TYPE_8] + 1 THEN SDS_TYPE_8
    ELSE IF n <= MaxLen[SDS_TYPE_16] + 1 THEN SDS_TYPE_16
    ELSE IF n <= MaxLen[SDS_TYPE_32] + 1 THEN SDS_TYPE_32
    ELSE SDS_TYPE_64

\* The smallest type that holds n, on a 64-bit machine.
sdsReqType(n) ==
    IF n <= MaxLen[SDS_TYPE_5] THEN SDS_TYPE_5
    ELSE IF n <= MaxLen[SDS_TYPE_8] THEN SDS_TYPE_8
    ELSE IF n <= MaxLen[SDS_TYPE_16] THEN SDS_TYPE_16
    ELSE IF n <= MaxLen[SDS_TYPE_32] THEN SDS_TYPE_32
    ELSE SDS_TYPE_64

sdslen(h)   == h.len
sdsalloc(h) == IF h.type = SDS_TYPE_5 THEN h.len ELSE h.alloc
sdsavail(h) == sdsalloc(h) - h.len

sdssetlen(h, n) == [h EXCEPT !.len = Field(h.type, n)]

\* Type 5 has no such field.
sdssetalloc(h, n) ==
    IF h.type = SDS_TYPE_5 THEN h ELSE [h EXCEPT !.alloc = Field(h.type, n)]

\* A block for n bytes and the terminator.
Block(type, n) == [type |-> type, len |-> 0, alloc |-> 0, size |-> n + 1]

sdsnewlen(n) ==
    LET type == IF n = 0 THEN SDS_TYPE_8 ELSE sdsReqType(n)
    IN  sdssetalloc(sdssetlen(Block(type, n), n), n)

\* Mutant: the new block has room for the bytes to add only.
sdsMakeRoomForShort(h, n) ==
    LET type == IF sdsReqType(n) = SDS_TYPE_5 THEN SDS_TYPE_8 ELSE sdsReqType(n)
    IN  IF sdsavail(h) >= n THEN h
        ELSE sdssetalloc(sdssetlen(Block(type, n), h.len), n)

\* Greedy space for later additions; never a type that cannot remember it.
NewSpace(h, n) ==
    IF h.len + n < SDS_MAX_PREALLOC THEN 2 * (h.len + n) ELSE h.len + n + SDS_MAX_PREALLOC

sdsMakeRoomFor(h, n) ==
    LET space == NewSpace(h, n)
        type  == IF sdsReqType(space) = SDS_TYPE_5 THEN SDS_TYPE_8 ELSE sdsReqType(space)
    IN  IF sdsavail(h) >= n THEN h
        ELSE sdssetalloc(sdssetlen(Block(type, space), h.len), space)

\* The header is replaced by a smaller one for short strings only.
sdsRemoveFreeSpace(h) ==
    LET type == sdsReqType(h.len)
    IN  IF sdsavail(h) = 0 THEN h
        ELSE IF type > SDS_TYPE_8 THEN sdssetalloc([h EXCEPT !.size = h.len + 1], h.len)
        ELSE sdssetalloc(sdssetlen(Block(type, h.len), h.len), h.len)

\* The assertions of sdsIncrLen.  For type 5 they allow an increment that the block has
\* no room for, and refuse an increment of 0.
IncrLenAsserts(h, k) ==
    IF h.type = SDS_TYPE_5
    THEN (k > 0 /\ h.len + k <= MaxLen[SDS_TYPE_5]) \/ (k < 0 /\ h.len >= -k)
    ELSE (k >= 0 /\ h.alloc - h.len >= k) \/ (k < 0 /\ h.len >= -k)

\* sdsrange: where the kept part starts, from 0, and its length.
Clamp(n, i) == IF i >= 0 THEN i ELSE IF n + i < 0 THEN 0 ELSE n + i

\* Mutant: the byte at end is left out.
RangeExclusive(n, start, end) ==
    LET from == Clamp(n, start)
        to   == IF Clamp(n, end) >= n THEN n - 1 ELSE Clamp(n, end)
    IN  [from |-> from, count |-> IF from > to \/ from >= n THEN 0 ELSE to - from]

RangePart(n, start, end) ==
    LET from == Clamp(n, start)
        to   == IF Clamp(n, end) >= n THEN n - 1 ELSE Clamp(n, end)
    IN  [from |-> from, count |-> IF from > to \/ from >= n THEN 0 ELSE to - from + 1]
=============================================================================
