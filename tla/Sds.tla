-------------------------------- MODULE Sds --------------------------------
(***************************************************************************)
(* sds.c: one dynamic string and the calls of a client that keeps the rules *)
(* of the comments in sds.c.  buf is the text with its terminator and the   *)
(* free space; a byte of a new block that nobody has written is Junk.       *)
(***************************************************************************)
EXTENDS SdsHeader, Sequences

CONSTANTS
    Char,       \* bytes; NUL is one of them
    NUL,
    Junk,
    Texts,      \* the texts that the client passes
    Sizes,      \* the sizes that the client asks for
    Indexes,    \* the indexes of sdsrange
    MaxText     \* bound: no longer text is made

ASSUME SdsAssumption ==
    /\ NUL \in Char
    /\ Junk \notin Char
    /\ Texts \subseteq Seq(Char)
    /\ Sizes \subseteq Nat
    /\ Indexes \subseteq Int
    /\ MaxText \in Nat
    /\ \A t \in Texts : Len(t) <= MaxLen[SDS_TYPE_64]
    /\ 2 * MaxText <= MaxLen[SDS_TYPE_64]
    /\ MaxText + SDS_MAX_PREALLOC <= MaxLen[SDS_TYPE_64]

VARIABLES
    hdr,
    buf,
    granted,    \* the free bytes that sdsMakeRoomFor has promised to the client
    status      \* "live", "null" after a malloc that failed, "aborted", "freed"

dvars == <<hdr, buf, granted, status>>

Text == SubSeq(buf, 1, hdr.len)

-----------------------------------------------------------------------------
(* Calls *)

\* Mutant: the terminator is not written.
WrittenUnterminated(size, from, keep, text) ==
    [i \in 1..size |->
        IF i <= keep THEN buf[from + i]
        ELSE IF i <= keep + Len(text) THEN text[i - keep]
        ELSE Junk]

\* keep bytes of the old text from offset `from`, then the new text, then the
\* terminator.  What is behind it nobody reads before writing it.
Written(size, from, keep, text) ==
    [i \in 1..size |->
        IF i <= keep THEN buf[from + i]
        ELSE IF i <= keep + Len(text) THEN text[i - keep]
        ELSE IF i = keep + Len(text) + 1 THEN NUL
        ELSE Junk]

Usable == status \in {"live", "null"}

Returns == Usable /\ status' = "live" /\ granted' = 0

SdsInit ==
    /\ \E text \in Texts :
          /\ Len(text) <= MaxText
          /\ hdr = sdsnewlen(Len(text))
          /\ buf = [i \in 1..(Len(text) + 1) |-> IF i <= Len(text) THEN text[i] ELSE NUL]
    /\ granted = 0
    /\ status = "live"

\* Also sdscat and sdscatsds, which count the bytes of their argument first.
sdscatlen(text) ==
    LET room == sdsMakeRoomFor(hdr, Len(text))
    IN  /\ Returns
        /\ hdr.len + Len(text) <= MaxText
        /\ hdr' = sdssetlen(room, hdr.len + Len(text))
        /\ buf' = Written(room.size, 0, hdr.len, text)

\* Also sdscpy.
sdscpylen(text) ==
    LET room == IF sdsalloc(hdr) < Len(text) THEN sdsMakeRoomFor(hdr, Len(text) - hdr.len)
                ELSE hdr
    IN  /\ Returns
        /\ Len(text) <= MaxText
        /\ hdr' = sdssetlen(room, Len(text))
        /\ buf' = Written(room.size, 0, 0, text)

sdsgrowzero(n) ==
    LET room == sdsMakeRoomFor(hdr, n - hdr.len)
    IN  /\ Returns
        /\ n > hdr.len /\ n <= MaxText
        /\ hdr' = sdssetlen(room, n)
        /\ buf' = Written(room.size, 0, hdr.len, [i \in 1..(n - hdr.len) |-> NUL])

\* sdsMakeRoomFor, called by the client.
MakeRoom(n) ==
    LET room == sdsMakeRoomFor(hdr, n)
    IN  /\ Usable /\ status' = "live"
        /\ hdr.len + n <= MaxText
        /\ granted' = n
        /\ hdr' = room
        /\ buf' = Written(room.size, 0, hdr.len, <<>>)

RemoveFreeSpace ==
    LET tight == sdsRemoveFreeSpace(hdr)
    IN  /\ Returns
        /\ hdr' = tight
        /\ buf' = Written(tight.size, 0, hdr.len, <<>>)

\* The client writes a text of the granted size behind the string and announces it.
sdsIncrLen(text) ==
    /\ Len(text) <= granted
    /\ IncrLenAsserts(hdr, Len(text))
    /\ Returns
    /\ hdr' = sdssetlen(hdr, hdr.len + Len(text))
    /\ buf' = Written(hdr.size, 0, hdr.len, text)

\* The same, when the assertion fails.
IncrLenAborts(text) ==
    /\ Len(text) <= granted
    /\ ~IncrLenAsserts(hdr, Len(text))
    /\ Usable /\ status' = "aborted"
    /\ UNCHANGED <<hdr, buf, granted>>

\* The calls that only shorten the text, in its block.
Shorten(from, count) ==
    /\ Returns
    /\ hdr' = sdssetlen(hdr, count)
    /\ buf' = Written(hdr.size, from, count, <<>>)

sdsclear == Shorten(0, 0)

\* sdsIncrLen with a negative increment.
TrimRight(n) == n \in 1..hdr.len /\ IncrLenAsserts(hdr, -n) /\ Shorten(0, hdr.len - n)

\* The client writes a terminator at byte i and lets sdsupdatelen count with strlen.
sdsupdatelen(i) ==
    /\ i \in 1..hdr.len
    /\ \E strlen \in 0..(i - 1) :
          /\ strlen = i - 1 \/ buf[strlen + 1] = NUL
          /\ \A j \in 1..strlen : buf[j] # NUL
          /\ Shorten(0, strlen)

sdsrange(start, end) ==
    LET part == RangePart(hdr.len, start, end)
    IN  hdr.len > 0 /\ Shorten(part.from, part.count)

\* strchr also finds the terminator of cset, so a NUL byte is trimmed with any set.
sdstrim(c) ==
    LET kept == {i \in 1..hdr.len : buf[i] \notin {c, NUL}}
    IN  \/ kept = {} /\ Shorten(0, 0)
        \/ \E sp, ep \in kept :
              (\A i \in kept : sp <= i /\ i <= ep) /\ Shorten(sp - 1, ep - sp + 1)

\* sdsMakeRoomFor for n bytes, or sdsRemoveFreeSpace, gets no block and returns NULL,
\* and so do the functions that call them, before they write; the client still has the
\* old string.
OutOfMemory(n) ==
    /\ Usable
    /\ sdsavail(hdr) < n \/ sdsavail(hdr) > 0
    /\ status' = "null"
    /\ granted' = 0
    /\ UNCHANGED <<hdr, buf>>

sdsfree ==
    /\ Usable
    /\ status' = "freed"
    /\ UNCHANGED <<hdr, buf, granted>>

SdsNext ==
    \/ \E text \in Texts :
          sdscatlen(text) \/ sdscpylen(text) \/ sdsIncrLen(text) \/ IncrLenAborts(text)
    \/ \E n \in Sizes :
          sdsgrowzero(n) \/ MakeRoom(n) \/ TrimRight(n) \/ sdsupdatelen(n) \/ OutOfMemory(n)
    \/ \E i, j \in Indexes : sdsrange(i, j)
    \/ \E c \in Char : sdstrim(c)
    \/ sdsclear \/ RemoveFreeSpace \/ sdsfree

SdsSpec == SdsInit /\ [][SdsNext]_dvars

-----------------------------------------------------------------------------
(* Properties *)

\* The fields of the header agree with each other, with the width of their type and
\* with the block: no call stores a value that its field cuts off, or writes a byte
\* behind the block.
HeaderOK ==
    /\ hdr \in [type : SdsType, len : Nat, alloc : Nat, size : Nat]
    /\ hdr.len <= sdsalloc(hdr)
    /\ sdsalloc(hdr) <= MaxLen[hdr.type]
    /\ sdsalloc(hdr) < hdr.size
    /\ hdr.len <= MaxText

\* What sdsMakeRoomFor promised holds until the next call: that many bytes have a
\* place in the block and in the header, before the terminator, and sdsIncrLen accepts
\* them.  Its assertion fails only for an increment of 0 on a string of type 5.
GrantHolds ==
    /\ granted \in Nat
    /\ hdr.len + granted <= MaxText
    /\ granted > 0 => hdr.type # SDS_TYPE_5 /\ hdr.len + granted <= hdr.alloc
    /\ status = "aborted" => hdr.type = SDS_TYPE_5 /\ granted = 0

\* The text is bytes that some call has written, and a terminator follows it.
Terminated ==
    /\ buf \in [1..hdr.size -> Char \cup {Junk}]
    /\ \A i \in 1..hdr.len : buf[i] \in Char
    /\ buf[hdr.len + 1] = NUL

Position(text, i) == IF i >= 0 THEN i + 1 ELSE Len(text) + i + 1

\* The bytes from start to end; an end before the first byte counts as the first.
Interval(text, start, end) ==
    LET from == Position(text, start)
        to   == Position(text, end)
    IN  SubSeq(text, IF from < 1 THEN 1 ELSE from,
               IF to > Len(text) THEN Len(text) ELSE IF to < 1 THEN 1 ELSE to)

IsStripped(new, text, c) ==
    \E i \in 1..(Len(text) + 1), j \in 0..Len(text) :
        /\ new = SubSeq(text, i, j)
        /\ \A k \in DOMAIN text : (k < i \/ k > j) => text[k] \in {c, NUL}
        /\ new # <<>> => new[1] \notin {c, NUL} /\ new[Len(new)] \notin {c, NUL}

\* What each call does to the text, as its comment says.
CallDoes ==
    /\ \A t \in Texts :
          /\ (sdscatlen(t) \/ sdsIncrLen(t)) => Text' = Text \o t
          /\ sdscpylen(t) => Text' = t
    /\ \A n \in Sizes :
          /\ sdsgrowzero(n) => Text' = Text \o [i \in 1..(n - Len(Text)) |-> NUL]
          /\ TrimRight(n) => Text' = SubSeq(Text, 1, Len(Text) - n)
          /\ (MakeRoom(n) \/ OutOfMemory(n)) => Text' = Text
    /\ \A i, j \in Indexes : sdsrange(i, j) => Text' = Interval(Text, i, j)
    /\ \A c \in Char : sdstrim(c) => IsStripped(Text', Text, c)
    /\ sdsclear => Text' = <<>>
    /\ RemoveFreeSpace => Text' = Text

\* Every call does that whatever the header, the free space and the calls before:
\* nothing is lost when the block moves or the header changes its type, and a call that
\* fails changes nothing.
CallsDo == [][CallDoes]_dvars
=============================================================================
