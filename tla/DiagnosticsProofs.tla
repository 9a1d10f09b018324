------------------------- MODULE DiagnosticsProofs -------------------------
(***************************************************************************)
(* The positions of reports and nodes, for every source and every parser.   *)
(* The counters of the scanner are compared with the row and the column     *)
(* that a reader counts, and the difference is followed through the scan.   *)
(***************************************************************************)
EXTENDS Diagnostics, SequenceTheorems, FiniteSetTheorems, WellFoundedInduction, TLAPS

-----------------------------------------------------------------------------
(* Numbers *)

\* A nonempty set of numbers has a least one.
LEMMA LeastNumber ==
    ASSUME NEW K, K \subseteq Nat, K # {}
    PROVE  \E k \in K : \A j \in K : k <= j
<1>1. PICK k \in K : \A j \in K : ~(<<j, k>> \in OpToRel(<, Nat))
  BY WFMin, NatLessThanWellFounded
<1>2. \A j \in K : <<j, k>> \in OpToRel(<, Nat) <=> j < k
  BY DEF OpToRel
<1>3. \A j \in K : j \in Nat /\ k \in Nat /\ ~(j < k)
  BY <1>1, <1>2
<1> QED
  BY <1>3

\* A bounded one has a greatest.
LEMMA Greatest ==
    ASSUME NEW n \in Nat, NEW S, S \subseteq 0..n, S # {}
    PROVE  Max(S) \in S /\ \A x \in S : x <= Max(S)
<1> DEFINE K == {n - x : x \in S}
<1>1. K \subseteq Nat /\ K # {}
  <2>1. \A x \in S : n - x \in Nat
    OBVIOUS
  <2>2. PICK x \in S : TRUE
    OBVIOUS
  <2>3. n - x \in K
    BY <2>2
  <2> QED
    BY <2>1, <2>3
<1>2. PICK k \in K : \A j \in K : k <= j
  <2> HIDE DEF K
  <2> QED
    BY <1>1, LeastNumber
<1>3. PICK m \in S : k = n - m
  BY <1>2
<1>4. \A x \in S : m >= x
  <2> TAKE x \in S
  <2>1. k <= n - x
    BY <1>2
  <2> QED
    BY <1>3, <2>1
<1>5. \A x \in S : Max(S) >= x /\ Max(S) \in S
  BY <1>4 DEF Max
<1> QED
  BY <1>5

LEMMA GreatestIs ==
    ASSUME NEW n \in Nat, NEW S, S \subseteq 0..n, NEW m \in S, \A x \in S : x <= m
    PROVE  Max(S) = m
<1>1. Max(S) \in S /\ \A x \in S : x <= Max(S)
  BY Greatest
<1>2. Max(S) \in 0..n /\ m \in 0..n
  BY <1>1
<1>3. Max(S) <= m /\ m <= Max(S)
  BY <1>1
<1> QED
  BY <1>2, <1>3

-----------------------------------------------------------------------------
(* Lexemes *)

Lexemes == Tokens \cup Breaks \cup {Blank, Unexpected}

ShortKinds == {"div", "letter", "unexpected"}

LEMMA LexemeFacts ==
    ASSUME NEW l \in Lexemes
    PROVE  /\ l.yyleng \in 1..4
           /\ IsBreak(l) => l.kind \notin ShortKinds /\ ~IsToken(l)
           /\ l.kind = "CR" => IsBreak(l)
           /\ l.kind \in {"div", "letter"} => l.yyleng = 3 /\ IsToken(l)
           /\ l.kind = "unexpected" => l.yyleng = 1
BY DEF Lexemes, Tokens, Breaks, Blank, Unexpected, Lexeme, IsBreak, IsToken, ShortKinds

-----------------------------------------------------------------------------
(* Columns as a reader counts them *)

\* f gives the column behind each lexeme of t.
Ends(t, f) ==
    /\ f \in [0..Len(t) -> Nat] /\ f[0] = 0
    /\ \A j \in 1..Len(t) : f[j] = IF IsBreak(t[j]) THEN 0 ELSE f[j - 1] + t[j].yyleng

Measured(t) == \E f : Ends(t, f)

\* The equation at one place.
EndAt(t, f, j) == f[j] = IF IsBreak(t[j]) THEN 0 ELSE f[j - 1] + t[j].yyleng

\* Nothing else solves the equation of TrueEnd.
LEMMA TrueEndIs ==
    ASSUME NEW t, Len(t) \in Nat, NEW f, Ends(t, f), NEW i \in 0..Len(t)
    PROVE  TrueEnd(t, i) = f[i]
<1> DEFINE N == Len(t)
           Right(g) == g = [j \in 0..N |-> IF j = 0 THEN 0 ELSE IF IsBreak(t[j]) THEN 0
                                           ELSE g[j - 1] + t[j].yyleng]
           end == CHOOSE g : Right(g)
<1>1. TrueEnd(t, i) = end[i]
  BY DEF TrueEnd
<1>2. Right(f)
  <2>1. \A j \in 0..N : f[j] = IF j = 0 THEN 0 ELSE IF IsBreak(t[j]) THEN 0
                               ELSE f[j - 1] + t[j].yyleng
    BY DEF Ends
  <2> QED
    BY <2>1 DEF Ends
<1>3. Right(end)
  BY <1>2
<1> HIDE DEF end
<1>4. ASSUME NEW q \in 0..N, end[q] # f[q] PROVE FALSE
  <2> DEFINE K == {j \in 0..N : end[j] # f[j]}
  <2>1. K \subseteq Nat /\ K # {}
    BY <1>4
  <2>2. PICK k \in K : \A j \in K : k <= j
    <3> HIDE DEF K
    <3> QED
      BY <2>1, LeastNumber
  <2>3. k \in 0..N /\ end[k] # f[k]
    BY <2>2
  <2>4. k # 0
    BY <1>2, <1>3, <2>3
  <2>5. k - 1 \in 0..N /\ k - 1 \notin K
    BY <2>2, <2>3, <2>4
  <2>6. end[k - 1] = f[k - 1]
    BY <2>5
  <2>7. /\ end[k] = IF IsBreak(t[k]) THEN 0 ELSE end[k - 1] + t[k].yyleng
        /\ f[k] = IF IsBreak(t[k]) THEN 0 ELSE f[k - 1] + t[k].yyleng
    BY <1>2, <1>3, <2>3, <2>4, Zenon
  <2> QED
    BY <2>3, <2>6, <2>7
<1> QED
  BY <1>1, <1>4

-----------------------------------------------------------------------------
(* One more lexeme *)

\* What a lexeme behind the text leaves of it.
LEMMA Behind1 ==
    ASSUME NEW t \in Seq(Lexemes), NEW l \in Lexemes
    PROVE  /\ Append(t, l) \in Seq(Lexemes) /\ Len(t) \in Nat /\ Len(Append(t, l)) = Len(t) + 1
           /\ Append(t, l)[Len(t) + 1] = l /\ Append(t, l) # <<>> /\ Last(Append(t, l)) = l
           /\ \A j \in 1..Len(t) : Append(t, l)[j] = t[j] /\ t[j] \in Lexemes
<1>1. Append(t, l) \in Seq(Lexemes) /\ Len(t) \in Nat /\ Len(Append(t, l)) = Len(t) + 1
  BY AppendProperties, LenProperties
<1>2. /\ Append(t, l)[Len(t) + 1] = l
      /\ \A j \in 1..Len(t) : Append(t, l)[j] = t[j] /\ t[j] \in Lexemes
  BY AppendProperties, ElementOfSeq
<1>3. Append(t, l) # <<>>
  BY <1>1
<1> QED
  BY <1>1, <1>2, <1>3 DEF Last

\* The breaks up to a lexeme, and where its line starts.
BreaksTo(t, i) == {j \in 1..i : IsBreak(t[j])}

LEMMA BreaksKept ==
    ASSUME NEW t \in Seq(Lexemes), NEW l \in Lexemes, NEW i \in 0..Len(t)
    PROVE  BreaksTo(Append(t, l), i) = BreaksTo(t, i)
<1>1. \A j \in 1..i : Append(t, l)[j] = t[j]
  BY Behind1
<1> QED
  BY <1>1 DEF BreaksTo

LEMMA BreaksGrow ==
    ASSUME NEW t \in Seq(Lexemes), NEW l \in Lexemes
    PROVE  BreaksTo(Append(t, l), Len(t) + 1) =
             BreaksTo(t, Len(t)) \cup (IF IsBreak(l) THEN {Len(t) + 1} ELSE {})
<1> DEFINE n == Len(t)
           u == Append(t, l)
<1>1. n \in Nat /\ u[n + 1] = l /\ \A j \in 1..n : u[j] = t[j]
  BY Behind1
<1> HIDE DEF n, u
<1>2. 1..(n + 1) = (1..n) \cup {n + 1}
  BY <1>1
<1>3. BreaksTo(u, n + 1) = BreaksTo(t, n) \cup (IF IsBreak(l) THEN {n + 1} ELSE {})
  BY <1>1, <1>2 DEF BreaksTo
<1> QED
  BY <1>3 DEF n, u

LEMMA RowIs ==
    ASSUME NEW t, NEW i
    PROVE  /\ TrueRow(t, i) = 1 + Cardinality(BreaksTo(t, i))
           /\ LineStart(t, i) = Max({0} \cup BreaksTo(t, i))
BY DEF TrueRow, LineStart, BreaksTo

LEMMA BreaksFinite ==
    ASSUME NEW t, NEW i \in Nat
    PROVE  /\ IsFiniteSet(BreaksTo(t, i)) /\ Cardinality(BreaksTo(t, i)) \in Nat
           /\ BreaksTo(t, i) \subseteq 1..i /\ TrueRow(t, i) \in Nat /\ LineStart(t, i) \in 0..i
<1>1. BreaksTo(t, i) \subseteq 1..i
  BY DEF BreaksTo
<1>2. IsFiniteSet(1..i)
  BY FS_Interval
<1>3. IsFiniteSet(BreaksTo(t, i)) /\ Cardinality(BreaksTo(t, i)) \in Nat
  BY <1>1, <1>2, FS_Subset, FS_CardinalityType
<1>4. {0} \cup BreaksTo(t, i) \subseteq 0..i /\ {0} \cup BreaksTo(t, i) # {}
  BY <1>1
<1>5. LineStart(t, i) \in {0} \cup BreaksTo(t, i)
  BY <1>4, Greatest, RowIs
<1>6. TrueRow(t, i) \in Nat
  <2>1. TrueRow(t, i) = 1 + Cardinality(BreaksTo(t, i))
    BY RowIs
  <2> QED
    BY <1>3, <2>1
<1> QED
  BY <1>1, <1>3, <1>4, <1>5, <1>6

\* The row a reader counts: one more behind a break, and otherwise the same.
LEMMA RowGrows ==
    ASSUME NEW t \in Seq(Lexemes), NEW l \in Lexemes
    PROVE  /\ \A i \in 0..Len(t) : TrueRow(Append(t, l), i) = TrueRow(t, i)
           /\ TrueRow(Append(t, l), Len(t) + 1) = TrueRow(t, Len(t)) + (IF IsBreak(l) THEN 1 ELSE 0)
<1>1. \A i \in 0..Len(t) : TrueRow(Append(t, l), i) = TrueRow(t, i)
  BY BreaksKept, RowIs
<1> DEFINE n == Len(t)
           B == BreaksTo(t, n)
           C == BreaksTo(Append(t, l), n + 1)
<1>2. n \in Nat
  BY Behind1
<1>3. IsFiniteSet(B) /\ Cardinality(B) \in Nat /\ B \subseteq 1..n
  BY <1>2, BreaksFinite
<1>4. C = B \cup (IF IsBreak(l) THEN {n + 1} ELSE {})
  BY BreaksGrow
<1>5. TrueRow(t, n) = 1 + Cardinality(B) /\ TrueRow(Append(t, l), n + 1) = 1 + Cardinality(C)
  BY RowIs
<1> HIDE DEF n, B, C
<1>6. n + 1 \notin B
  BY <1>2, <1>3
<1>7. CASE IsBreak(l)
  <2>1. Cardinality(C) = Cardinality(B) + 1
    BY <1>3, <1>4, <1>6, <1>7, FS_AddElement
  <2> QED
    BY <1>1, <1>3, <1>5, <1>7, <2>1 DEF n
<1>8. CASE ~IsBreak(l)
  <2>1. C = B
    BY <1>4, <1>8
  <2> QED
    BY <1>1, <1>3, <1>5, <1>8, <2>1 DEF n
<1> QED
  BY <1>7, <1>8

\* Where the line starts.
LEMMA LineGrows ==
    ASSUME NEW t \in Seq(Lexemes), NEW l \in Lexemes
    PROVE  LineStart(Append(t, l), Len(t) + 1) =
             IF IsBreak(l) THEN Len(t) + 1 ELSE LineStart(t, Len(t))
<1> DEFINE n == Len(t)
           B == {0} \cup BreaksTo(t, n)
           C == {0} \cup BreaksTo(Append(t, l), n + 1)
<1>1. n \in Nat /\ BreaksTo(t, n) \subseteq 1..n
  BY Behind1, BreaksFinite
<1>2. C = B \cup (IF IsBreak(l) THEN {n + 1} ELSE {}) /\ B \subseteq 0..n
  BY <1>1, BreaksGrow
<1>3. LineStart(t, n) = Max(B) /\ LineStart(Append(t, l), n + 1) = Max(C)
  BY RowIs
<1> HIDE DEF n, B, C
<1>4. CASE IsBreak(l)
  <2>1. C \subseteq 0..(n + 1) /\ n + 1 \in C /\ \A x \in C : x <= n + 1
    BY <1>1, <1>2, <1>4
  <2>2. Max(C) = n + 1
    <3>1. n + 1 \in Nat
      BY <1>1
    <3> QED
      BY <2>1, <3>1, GreatestIs, Zenon
  <2> QED
    BY <1>3, <1>4, <2>2 DEF n
<1>5. CASE ~IsBreak(l)
  BY <1>2, <1>3, <1>5 DEF n
<1> QED
  BY <1>4, <1>5

\* The lexemes counted short on the line, and the lone returns.
LEMMA ShortGrows ==
    ASSUME NEW t \in Seq(Lexemes), NEW l \in Lexemes
    PROVE  Short(Append(t, l), Len(t) + 1) =
             IF IsBreak(l) THEN {}
             ELSE Short(t, Len(t)) \cup (IF l.kind \in ShortKinds THEN {Len(t) + 1} ELSE {})
<1> DEFINE n == Len(t)
           u == Append(t, l)
           s == LineStart(t, n)
           r == LineStart(u, n + 1)
<1>1. n \in Nat /\ u[n + 1] = l /\ \A j \in 1..n : u[j] = t[j]
  BY Behind1
<1>2. s \in 0..n
  BY <1>1, BreaksFinite
<1>3. r = IF IsBreak(l) THEN n + 1 ELSE s
  BY LineGrows
<1>4. /\ Short(u, n + 1) = {j \in (r + 1)..(n + 1) : u[j].kind \in ShortKinds}
      /\ Short(t, n) = {j \in (s + 1)..n : t[j].kind \in ShortKinds}
  BY DEF Short, ShortKinds
<1> HIDE DEF n, u, s, r
<1>5. CASE IsBreak(l)
  <2>1. (r + 1)..(n + 1) = {}
    BY <1>1, <1>3, <1>5
  <2> QED
    BY <1>4, <1>5, <2>1 DEF n, u
<1>6. CASE ~IsBreak(l)
  <2>1. (r + 1)..(n + 1) = ((s + 1)..n) \cup {n + 1}
    BY <1>1, <1>2, <1>3, <1>6
  <2>2. \A j \in (s + 1)..n : u[j] = t[j]
    BY <1>1, <1>2
  <2>3. Short(u, n + 1) = Short(t, n) \cup (IF l.kind \in ShortKinds THEN {n + 1} ELSE {})
    BY <1>1, <1>4, <2>1, <2>2
  <2> QED
    BY <1>6, <2>3 DEF n, u
<1> QED
  BY <1>5, <1>6

LEMMA LoneCRGrows ==
    ASSUME NEW t \in Seq(Lexemes), NEW l \in Lexemes
    PROVE  LoneCR(Append(t, l), Len(t) + 1) =
             LoneCR(t, Len(t)) \cup (IF l.kind = "CR" THEN {Len(t) + 1} ELSE {})
<1> DEFINE n == Len(t)
           u == Append(t, l)
<1>1. n \in Nat /\ u[n + 1] = l /\ \A j \in 1..n : u[j] = t[j]
  BY Behind1
<1> HIDE DEF n, u
<1>2. 1..(n + 1) = (1..n) \cup {n + 1}
  BY <1>1
<1>3. LoneCR(u, n + 1) = LoneCR(t, n) \cup (IF l.kind = "CR" THEN {n + 1} ELSE {})
  BY <1>1, <1>2 DEF LoneCR
<1> QED
  BY <1>3 DEF n, u

\* The column a reader counts: zero behind a break, and otherwise the length is added.
LEMMA EndGrows ==
    ASSUME NEW t \in Seq(Lexemes), NEW l \in Lexemes, Measured(t)
    PROVE  /\ Measured(Append(t, l))
           /\ \A i \in 0..Len(t) : TrueEnd(Append(t, l), i) = TrueEnd(t, i) /\ TrueEnd(t, i) \in Nat
           /\ TrueEnd(Append(t, l), Len(t) + 1) =
                IF IsBreak(l) THEN 0 ELSE TrueEnd(t, Len(t)) + l.yyleng
<1> DEFINE n == Len(t)
           u == Append(t, l)
           last(f) == IF IsBreak(l) THEN 0 ELSE f[n] + l.yyleng
           grown(f) == [j \in 0..(n + 1) |-> IF j = n + 1 THEN last(f) ELSE f[j]]
<1>1. PICK f : Ends(t, f)
  BY DEF Measured
<1>2. /\ n \in Nat /\ Len(u) = n + 1 /\ u[n + 1] = l
      /\ \A j \in 1..n : u[j] = t[j]
  BY Behind1
<1>3. l.yyleng \in Nat
  BY LexemeFacts
<1>4. f \in [0..n -> Nat] /\ f[0] = 0
  BY <1>1 DEF Ends
<1>5. \A j \in 1..n : f[j] = IF IsBreak(t[j]) THEN 0 ELSE f[j - 1] + t[j].yyleng
  BY <1>1 DEF Ends
<1> HIDE DEF n, u
<1>6. last(f) \in Nat
  BY <1>2, <1>3, <1>4
<1> DEFINE g == grown(f)
<1>7. g \in [0..(n + 1) -> Nat] /\ g[n + 1] = last(f) /\ \A j \in 0..n : g[j] = f[j]
  BY <1>2, <1>4, <1>6
<1> HIDE DEF g
<1>8. Ends(u, g)
  <2>1. \A j \in 1..n : j \in 0..n /\ j - 1 \in 0..n
    BY <1>2
  <2>2. \A j \in 1..n : g[j] = IF IsBreak(u[j]) THEN 0 ELSE g[j - 1] + u[j].yyleng
    BY <1>2, <1>5, <1>7, <2>1
  <2>3. g[n + 1] = IF IsBreak(u[n + 1]) THEN 0 ELSE g[(n + 1) - 1] + u[n + 1].yyleng
    <3>1. (n + 1) - 1 = n /\ n \in 0..n
      BY <1>2
    <3> QED
      BY <1>2, <1>7, <3>1
  <2>4. \A j \in 1..(n + 1) : j \in 1..n \/ j = n + 1
    BY <1>2
  <2>5. \A j \in 1..(n + 1) : g[j] = IF IsBreak(u[j]) THEN 0 ELSE g[j - 1] + u[j].yyleng
    <3>1. \A j \in 1..n : EndAt(u, g, j)
      BY <2>2 DEF EndAt
    <3>2. EndAt(u, g, n + 1)
      BY <2>3 DEF EndAt
    <3>3. \A j \in 1..(n + 1) : EndAt(u, g, j)
      BY <2>4, <3>1, <3>2
    <3> QED
      BY <3>3 DEF EndAt
  <2>6. g[0] = 0
    BY <1>2, <1>4, <1>7
  <2> QED
    BY <1>2, <1>7, <2>5, <2>6 DEF Ends
<1>9. \A i \in 0..n : TrueEnd(t, i) = f[i]
  <2>1. Len(t) = n
    BY DEF n
  <2> QED
    BY <1>1, <1>2, <2>1, TrueEndIs
<1>10. \A i \in 0..(n + 1) : TrueEnd(u, i) = g[i]
  BY <1>2, <1>8, TrueEndIs
<1>11. Measured(u)
  BY <1>8 DEF Measured
<1>12. \A i \in 0..n : TrueEnd(u, i) = TrueEnd(t, i) /\ TrueEnd(t, i) \in Nat
  <2>1. \A i \in 0..n : i \in 0..(n + 1)
    BY <1>2
  <2> QED
    BY <1>4, <1>7, <1>9, <1>10, <2>1
<1>13. TrueEnd(u, n + 1) = IF IsBreak(l) THEN 0 ELSE TrueEnd(t, n) + l.yyleng
  <2>1. n + 1 \in 0..(n + 1) /\ n \in 0..n
    BY <1>2
  <2> QED
    BY <1>7, <1>9, <1>10, <2>1
<1> QED
  BY <1>11, <1>12, <1>13 DEF n, u

-----------------------------------------------------------------------------
(* No two lexemes end at one place *)

Before(t, j, k) ==
    \/ TrueRow(t, j) < TrueRow(t, k)
    \/ TrueRow(t, j) = TrueRow(t, k) /\ TrueEnd(t, j) < TrueEnd(t, k)

BeforeAt(t, k) == \A j \in 1..(k - 1) : Before(t, j, k)
Ordered(t)     == \A k \in 1..Len(t) : BeforeAt(t, k)

LEMMA OrderGrows ==
    ASSUME NEW t \in Seq(Lexemes), NEW l \in Lexemes, Measured(t), Ordered(t)
    PROVE  Ordered(Append(t, l))
<1> DEFINE n == Len(t)
           u == Append(t, l)
<1>1. n \in Nat /\ Len(u) = n + 1
  BY Behind1
<1>2. l.yyleng \in 1..4
  BY LexemeFacts
<1>3. \A i \in 0..n : TrueRow(u, i) = TrueRow(t, i) /\ TrueRow(t, i) \in Nat
  BY <1>1, RowGrows, BreaksFinite
<1>4. \A i \in 0..n : TrueEnd(u, i) = TrueEnd(t, i) /\ TrueEnd(t, i) \in Nat
  BY EndGrows
<1>5. /\ TrueRow(u, n + 1) = TrueRow(t, n) + (IF IsBreak(l) THEN 1 ELSE 0)
      /\ TrueEnd(u, n + 1) = IF IsBreak(l) THEN 0 ELSE TrueEnd(t, n) + l.yyleng
  BY RowGrows, EndGrows
<1>6. \A k \in 1..n : \A j \in 1..(k - 1) : Before(t, j, k)
  BY DEF Ordered, BeforeAt
<1> HIDE DEF n, u
<1>7. \A k \in 1..n : \A j \in 1..(k - 1) : Before(u, j, k)
  <2> TAKE k \in 1..n
  <2> TAKE j \in 1..(k - 1)
  <2>1. j \in 0..n /\ k \in 0..n
    BY <1>1
  <2> QED
    BY <1>3, <1>4, <1>6, <2>1 DEF Before
<1>8. ASSUME NEW j \in 1..n PROVE Before(u, j, n + 1)
  <2>1. n \in 0..n /\ j \in 0..n
    BY <1>1
  <2>2. /\ TrueRow(u, j) \in Nat /\ TrueEnd(u, j) \in Nat
        /\ TrueRow(u, n) \in Nat /\ TrueEnd(u, n) \in Nat
        /\ TrueRow(u, n + 1) = TrueRow(u, n) + (IF IsBreak(l) THEN 1 ELSE 0)
        /\ TrueEnd(u, n + 1) = IF IsBreak(l) THEN 0 ELSE TrueEnd(u, n) + l.yyleng
    BY <1>3, <1>4, <1>5, <2>1
  <2>3. j = n \/ Before(u, j, n)
    <3>1. j = n \/ j \in 1..(n - 1)
      BY <1>1
    <3>2. j # n => n \in 1..n
      BY <1>1
    <3> QED
      BY <1>7, <3>1, <3>2
  <2>4. Before(u, n, n + 1)
    BY <1>2, <2>2 DEF Before
  <2> QED
    BY <1>2, <2>2, <2>3, <2>4 DEF Before
<1>9. \A k \in 1..(n + 1) : k \in 1..n \/ k = n + 1
  BY <1>1
<1>10. \A k \in 1..(n + 1) : BeforeAt(u, k)
  <2>1. BeforeAt(u, n + 1)
    <3>1. (n + 1) - 1 = n
      BY <1>1
    <3> QED
      BY <1>8, <3>1 DEF BeforeAt
  <2>2. \A k \in 1..n : BeforeAt(u, k)
    BY <1>7 DEF BeforeAt
  <2> QED
    BY <1>9, <2>1, <2>2
<1> QED
  BY <1>1, <1>10 DEF Ordered, u

-----------------------------------------------------------------------------
(* The counters *)

\* The counters are never ahead of the reader, and they are right until something is
\* counted short.
RowRight(t, row) ==
    /\ row \in Nat /\ row <= TrueRow(t, Len(t))
    /\ row = TrueRow(t, Len(t)) <=> LoneCR(t, Len(t)) = {}
ColumnRight(t, column) ==
    /\ column \in Nat /\ column <= TrueEnd(t, Len(t))
    /\ column = TrueEnd(t, Len(t)) <=> Short(t, Len(t)) = {}
    /\ t # <<>> /\ IsToken(Last(t)) /\ Last(t).kind \notin {"div", "letter"} =>
         column >= Last(t).yyleng

Source(t) == t \in Seq(Lexemes) /\ Measured(t) /\ Ordered(t)

Scanned ==
    /\ Source(text)
    /\ lex_row_num = yylineno
    /\ RowRight(text, lex_row_num) /\ ColumnRight(text, lex_column_num)

\* What is reported is where the counters are, and a node spans the last token.
Reported ==
    report.kind \in {"syntax", "misuse"} =>
        report.row = lex_row_num /\ report.column = lex_column_num
Noted ==
    node # NoNode =>
        /\ text # <<>> /\ IsToken(Last(text))
        /\ \E i \in DOMAIN text : node = Span(i)

PositionsInv == Scanned /\ Reported /\ Noted

LEMMA NothingScanned == Source(<<>>) /\ RowRight(<<>>, 1) /\ ColumnRight(<<>>, 0)
<1>1. Len(<<>>) = 0 /\ <<>> \in Seq(Lexemes)
  BY EmptySeq
<1>2. Ends(<<>>, [j \in 0..0 |-> 0])
  BY <1>1 DEF Ends
<1>3. Measured(<<>>)
  BY <1>2 DEF Measured
<1>4. Ordered(<<>>)
  BY <1>1 DEF Ordered
<1>5. TrueEnd(<<>>, 0) = 0
  <2>1. TrueEnd(<<>>, 0) = [j \in 0..0 |-> 0][0]
    <3> DEFINE f == [j \in 0..0 |-> 0]
    <3>1. Ends(<<>>, f)
      BY <1>2
    <3> HIDE DEF f
    <3> QED
      BY <1>1, <3>1, TrueEndIs DEF f
  <2> QED
    BY <2>1
<1>6. BreaksTo(<<>>, 0) = {} /\ LoneCR(<<>>, 0) = {}
  BY DEF BreaksTo, LoneCR
<1>7. TrueRow(<<>>, 0) = 1
  <2>1. Cardinality({}) = 0
    BY FS_EmptySet
  <2>2. TrueRow(<<>>, 0) = 1 + Cardinality(BreaksTo(<<>>, 0))
    BY RowIs
  <2>3. TrueRow(<<>>, 0) = 1 + 0
    BY <1>6, <2>1, <2>2, Zenon
  <2> QED
    BY <2>3
<1>8. Short(<<>>, 0) = {}
  <2>1. LineStart(<<>>, 0) = 0
    BY BreaksFinite
  <2> QED
    BY <2>1 DEF Short
<1> QED
  BY <1>1, <1>3, <1>4, <1>5, <1>6, <1>7, <1>8 DEF Source, RowRight, ColumnRight

LEMMA SourceGrows ==
    ASSUME NEW t, Source(t), NEW l \in Lexemes
    PROVE  Source(Append(t, l))
BY Behind1, EndGrows, OrderGrows DEF Source

\* The row: one more behind a break that is not a lone return.
LEMMA RowStep ==
    ASSUME NEW t, Source(t), NEW l \in Lexemes, NEW row, RowRight(t, row),
           NEW next, next = IF IsBreak(l) /\ l.kind # "CR" THEN row + 1 ELSE row
    PROVE  RowRight(Append(t, l), next)
<1> DEFINE n == Len(t)
           u == Append(t, l)
<1>1. t \in Seq(Lexemes)
  BY DEF Source
<1>2. n \in Nat /\ Len(u) = n + 1
  BY <1>1, Behind1
<1>3. TrueRow(u, n + 1) = TrueRow(t, n) + (IF IsBreak(l) THEN 1 ELSE 0) /\ TrueRow(t, n) \in Nat
  BY <1>1, <1>2, RowGrows, BreaksFinite
<1>4. LoneCR(u, n + 1) = LoneCR(t, n) \cup (IF l.kind = "CR" THEN {n + 1} ELSE {})
  BY <1>1, LoneCRGrows
<1>5. /\ row \in Nat /\ row <= TrueRow(t, n)
      /\ row = TrueRow(t, n) <=> LoneCR(t, n) = {}
  BY DEF RowRight
<1>6. l.kind = "CR" => IsBreak(l)
  BY LexemeFacts
<1> HIDE DEF n, u
<1>7. /\ next \in Nat /\ next <= TrueRow(u, n + 1)
      /\ next = TrueRow(u, n + 1) <=> LoneCR(u, n + 1) = {}
  <2>1. CASE l.kind = "CR"
    <3>1. LoneCR(u, n + 1) # {}
      BY <1>4, <2>1
    <3> QED
      BY <1>3, <1>5, <1>6, <2>1, <3>1
  <2>2. CASE l.kind # "CR"
    <3>1. LoneCR(u, n + 1) = LoneCR(t, n)
      BY <1>4, <2>2
    <3> QED
      BY <1>3, <1>5, <2>2, <3>1
  <2> QED
    BY <2>1, <2>2
<1> QED
  BY <1>2, <1>7 DEF RowRight, u

\* The column: zero behind a break, and as much more as the scanner counts.
Step(l) == IF l.kind = "unexpected" THEN 0 ELSE Counted(l)

LEMMA ColumnStep ==
    ASSUME NEW t, Source(t), NEW l \in Lexemes, NEW column, ColumnRight(t, column),
           NEW next, next = IF IsBreak(l) THEN 0 ELSE column + Step(l)
    PROVE  ColumnRight(Append(t, l), next)
<1> DEFINE n == Len(t)
           u == Append(t, l)
<1>1. t \in Seq(Lexemes) /\ Measured(t)
  BY DEF Source
<1>2. n \in Nat /\ Len(u) = n + 1 /\ Last(u) = l
  BY <1>1, Behind1
<1>3. /\ TrueEnd(u, n + 1) = IF IsBreak(l) THEN 0 ELSE TrueEnd(t, n) + l.yyleng
      /\ TrueEnd(t, n) \in Nat
  BY <1>1, <1>2, EndGrows
<1>4. Short(u, n + 1) = IF IsBreak(l) THEN {}
                        ELSE Short(t, n) \cup (IF l.kind \in ShortKinds THEN {n + 1} ELSE {})
  BY <1>1, ShortGrows
<1>5. /\ column \in Nat /\ column <= TrueEnd(t, n)
      /\ column = TrueEnd(t, n) <=> Short(t, n) = {}
  BY DEF ColumnRight
<1>6. /\ l.yyleng \in 1..4
      /\ l.kind \in ShortKinds => Step(l) \in Nat /\ Step(l) < l.yyleng
      /\ l.kind \notin ShortKinds => Step(l) = l.yyleng
      /\ IsBreak(l) => ~IsToken(l)
  BY LexemeFacts DEF Step, Counted, ShortKinds
<1>7. l.kind = "unexpected" => ~IsToken(l)
  BY DEF Lexemes, Tokens, Breaks, Blank, Unexpected, Lexeme, IsToken
<1> HIDE DEF n, u
<1>8. /\ next \in Nat /\ next <= TrueEnd(u, n + 1)
      /\ next = TrueEnd(u, n + 1) <=> Short(u, n + 1) = {}
  <2>1. CASE IsBreak(l)
    BY <1>3, <1>4, <2>1
  <2>2. CASE ~IsBreak(l) /\ l.kind \in ShortKinds
    <3>1. Short(u, n + 1) # {}
      BY <1>4, <2>2
    <3> QED
      BY <1>3, <1>5, <1>6, <2>2, <3>1
  <2>3. CASE ~IsBreak(l) /\ l.kind \notin ShortKinds
    <3>1. Short(u, n + 1) = Short(t, n)
      BY <1>4, <2>3
    <3> QED
      BY <1>3, <1>5, <1>6, <2>3, <3>1
  <2> QED
    BY <2>1, <2>2, <2>3
<1>9. IsToken(l) /\ l.kind \notin {"div", "letter"} => next >= l.yyleng
  <2>1. IsToken(l) /\ l.kind \notin {"div", "letter"} => ~IsBreak(l) /\ l.kind \notin ShortKinds
    BY <1>6, <1>7 DEF ShortKinds
  <2> QED
    BY <1>5, <1>6, <2>1
<1> QED
  BY <1>2, <1>8, <1>9 DEF ColumnRight, u

-----------------------------------------------------------------------------
(* The invariant, for one action after the other *)

LEMMA PositionsInit == DiagnosticsInit => PositionsInv
<1> SUFFICES ASSUME DiagnosticsInit PROVE PositionsInv
  OBVIOUS
<1> USE DEF DiagnosticsInit
<1>1. Scanned
  BY NothingScanned DEF Scanned
<1>2. Reported
  BY DEF Reported, NoReport
<1>3. Noted
  BY DEF Noted
<1> QED
  BY <1>1, <1>2, <1>3 DEF PositionsInv

\* A lexeme that leaves the row alone.
LEMMA KeepRow ==
    ASSUME Scanned, NEW l \in Lexemes, ~IsBreak(l), report = NoReport,
           text' = Append(text, l), lex_column_num' = lex_column_num + Step(l), node' = NoNode,
           UNCHANGED <<lex_row_num, yylineno, report>>
    PROVE  PositionsInv'
<1>1. Source(text')
  BY SourceGrows DEF Scanned
<1>2. RowRight(text', lex_row_num')
  BY RowStep DEF Scanned
<1>3. ColumnRight(text', lex_column_num')
  BY ColumnStep DEF Scanned
<1>4. Scanned'
  BY <1>1, <1>2, <1>3 DEF Scanned
<1>5. Reported'
  BY DEF Reported, NoReport
<1>6. Noted'
  BY DEF Noted
<1> QED
  BY <1>4, <1>5, <1>6 DEF PositionsInv

\* Nothing is reported while the scanner goes on.
Going == phase = "scan" => report = NoReport

LEMMA GoingOn == Going /\ [DiagnosticsNext]_dgvars => Going'
BY DEF Going, DiagnosticsNext, dgvars, ScanToken, ScanBreak, ScanBlank, ScanUnexpected, MakeNode,
       SyntaxError, EndUnexpected, Misuse

LEMMA PositionsNext == PositionsInv /\ Going /\ [DiagnosticsNext]_dgvars => PositionsInv'
<1> SUFFICES ASSUME PositionsInv, Going, [DiagnosticsNext]_dgvars PROVE PositionsInv'
  OBVIOUS
<1>1. ASSUME NEW l \in Tokens, ScanToken(l) PROVE PositionsInv'
  <2>1. l \in Lexemes /\ ~IsBreak(l) /\ Step(l) = Counted(l)
    BY DEF Lexemes, Tokens, Breaks, Lexeme, IsBreak, Step
  <2>2. Scanned /\ report = NoReport
    BY <1>1 DEF PositionsInv, Going, ScanToken, MayFollow
  <2> QED
    BY <1>1, <2>1, <2>2, KeepRow DEF ScanToken
<1>2. ASSUME NEW l \in Breaks, ScanBreak(l) PROVE PositionsInv'
  <2>1. l \in Lexemes /\ IsBreak(l)
    BY DEF Lexemes, IsBreak
  <2>2. Scanned /\ report = NoReport
    BY <1>2 DEF PositionsInv, Going, ScanBreak, MayFollow
  <2>3. Source(text')
    BY <1>2, <2>1, <2>2, SourceGrows DEF Scanned, ScanBreak
  <2>4. lex_row_num' = IF IsBreak(l) /\ l.kind # "CR" THEN lex_row_num + 1 ELSE lex_row_num
    BY <1>2, <2>1, <2>2 DEF ScanBreak, Scanned
  <2>5. RowRight(text', lex_row_num')
    BY <1>2, <2>1, <2>2, <2>4, RowStep DEF Scanned, ScanBreak
  <2>6. ColumnRight(text', lex_column_num')
    BY <1>2, <2>1, <2>2, ColumnStep DEF Scanned, ScanBreak
  <2>7. Scanned'
    BY <1>2, <2>3, <2>5, <2>6 DEF Scanned, ScanBreak
  <2>8. Reported' /\ Noted'
    BY <1>2, <2>2 DEF Reported, NoReport, Noted, ScanBreak
  <2> QED
    BY <2>7, <2>8 DEF PositionsInv
<1>3. CASE ScanBlank
  <2>1. Blank \in Lexemes /\ ~IsBreak(Blank) /\ Step(Blank) = 1
    BY DEF Lexemes, Blank, Breaks, Lexeme, IsBreak, Step, Counted
  <2>2. Scanned /\ report = NoReport
    BY <1>3 DEF PositionsInv, Going, ScanBlank, MayFollow
  <2> QED
    BY <1>3, <2>1, <2>2, KeepRow DEF ScanBlank
<1>4. CASE ScanUnexpected
  <2>1. Unexpected \in Lexemes /\ ~IsBreak(Unexpected) /\ Step(Unexpected) = 0
    BY DEF Lexemes, Unexpected, Breaks, Lexeme, IsBreak, Step
  <2>2. Scanned /\ report = NoReport
    BY <1>4 DEF PositionsInv, Going, ScanUnexpected, MayFollow
  <2>3. lex_column_num' = lex_column_num + Step(Unexpected)
    BY <1>4, <2>1, <2>2 DEF ScanUnexpected, Scanned, ColumnRight
  <2> QED
    BY <1>4, <2>1, <2>2, <2>3, KeepRow DEF ScanUnexpected
<1>5. ASSUME NEW i \in DOMAIN text, MakeNode(i) PROVE PositionsInv'
  <2>1. Scanned' /\ Reported'
    BY <1>5 DEF PositionsInv, Scanned, Reported, MakeNode
  <2>2. Noted'
    <3>1. Span(i)' = Span(i)
      BY <1>5 DEF MakeNode, Span, yyleng
    <3> QED
      BY <1>5, <3>1 DEF MakeNode, Noted, AtToken
  <2> QED
    BY <2>1, <2>2 DEF PositionsInv
<1>6. ASSUME report'.kind \in {"syntax", "misuse"} =>
                report'.row = lex_row_num /\ report'.column = lex_column_num,
             UNCHANGED <<text, lex_column_num, lex_row_num, yylineno, node>>
      PROVE  PositionsInv'
  <2>1. Scanned' /\ Reported'
    BY <1>6 DEF PositionsInv, Scanned, Reported
  <2>2. Noted'
    BY <1>6 DEF PositionsInv, Noted, Span, yyleng
  <2> QED
    BY <2>1, <2>2 DEF PositionsInv
<1>7. ASSUME NEW message PROVE print_error(message).kind = "syntax" =>
        /\ print_error(message).row = lex_row_num
        /\ print_error(message).column = lex_column_num
  BY DEF print_error, NoReport
<1>8. ASSUME NEW message PROVE print_error(message).kind # "misuse"
  BY DEF print_error, NoReport
<1>9. ASSUME NEW expected \in Expected, SyntaxError(expected) PROVE PositionsInv'
  BY <1>6, <1>7, <1>8, <1>9 DEF SyntaxError
<1>10. ASSUME NEW expected \in Expected, EndUnexpected(expected) PROVE PositionsInv'
  BY <1>6, <1>7, <1>8, <1>10 DEF EndUnexpected
<1>11. CASE Misuse
  BY <1>6, <1>11 DEF Misuse, NoReport
<1>12. CASE UNCHANGED dgvars
  <2>1. report'.kind \in {"syntax", "misuse"} =>
          report'.row = lex_row_num /\ report'.column = lex_column_num
    BY <1>12 DEF dgvars, PositionsInv, Reported
  <2> QED
    BY <1>6, <1>12, <2>1 DEF dgvars
<1> QED
  BY <1>1, <1>2, <1>3, <1>4, <1>5, <1>9, <1>10, <1>11, <1>12 DEF DiagnosticsNext

LEMMA PositionsHold == DiagnosticsSpec => [](PositionsInv /\ Going)
<1>1. DiagnosticsInit => PositionsInv /\ Going
  BY PositionsInit DEF DiagnosticsInit, Going
<1>2. PositionsInv /\ Going /\ [DiagnosticsNext]_dgvars => (PositionsInv /\ Going)'
  BY PositionsNext, GoingOn
<1> QED
  BY <1>1, <1>2, PTL DEF DiagnosticsSpec

-----------------------------------------------------------------------------
(* The results *)

\* A report, of a syntax error or of a misuse of the tree, names the row of the offending
\* lexeme just when no lone return came before it, and the column of its end just when
\* nothing on its line was counted short: ReportPoints, for every source.
THEOREM ReportsCorrect == DiagnosticsSpec => []ReportPoints
<1>1. PositionsInv => ReportPoints
  <2> SUFFICES ASSUME PositionsInv, report.kind \in {"syntax", "misuse"}
               PROVE  LET i == Len(text)
                      IN  /\ report.row = TrueRow(text, i) <=> LoneCR(text, i) = {}
                          /\ report.column = TrueEnd(text, i) <=> Short(text, i) = {}
    BY DEF ReportPoints
  <2>1. report.row = lex_row_num /\ report.column = lex_column_num
    BY DEF PositionsInv, Reported
  <2>2. RowRight(text, lex_row_num) /\ ColumnRight(text, lex_column_num)
    BY DEF PositionsInv, Scanned
  <2> QED
    BY <2>1, <2>2 DEF RowRight, ColumnRight
<1> QED
  BY <1>1, PositionsHold, PTL

\* The last token is the last lexeme when the parser works, and no lexeme before it ends
\* where it does.
LEMMA LastIsToken ==
    ASSUME Source(text), text # <<>>, IsToken(Last(text))
    PROVE  /\ LastToken = Len(text) /\ Len(text) \in Nat \ {0}
           /\ text[Len(text)] = Last(text) /\ Last(text) \in Lexemes
<1> DEFINE n == Len(text)
<1>1. text \in Seq(Lexemes) /\ n \in Nat /\ DOMAIN text = 1..n /\ n # 0
  BY LenProperties, EmptySeq DEF Source
<1>2. Last(text) = text[n]
  BY DEF Last
<1>3. n \in DOMAIN text
  BY <1>1
<1>4. n \in TokensRead /\ TokensRead \subseteq 1..n
  BY <1>1, <1>2, <1>3 DEF TokensRead
<1>5. TokensRead \subseteq 0..n /\ \A x \in TokensRead : x <= n
  BY <1>1, <1>4
<1>6. Max(TokensRead) = n
  <2> HIDE DEF n
  <2> QED
    BY <1>1, <1>4, <1>5, GreatestIs
<1>7. Last(text) \in Lexemes
  BY <1>1, <1>2, <1>3, ElementOfSeq
<1> QED
  BY <1>1, <1>2, <1>6, <1>7 DEF LastToken

\* Two lexemes that end at one place are the same.
LEMMA OnePlace ==
    ASSUME NEW t, Source(t), NEW j \in 1..Len(t), NEW k \in 1..Len(t), Before(t, j, k)
    PROVE  ~(TrueRow(t, k) = TrueRow(t, j) /\ TrueEnd(t, k) = TrueEnd(t, j))
<1>1. Len(t) \in Nat /\ t \in Seq(Lexemes) /\ Measured(t)
  BY LenProperties DEF Source
<1>2. j \in Nat /\ k \in Nat
  BY <1>1
<1>3. TrueRow(t, j) \in Nat /\ TrueRow(t, k) \in Nat
  BY <1>2, BreaksFinite
<1>4. TrueEnd(t, j) \in Nat /\ TrueEnd(t, k) \in Nat
  <2>1. Blank \in Lexemes /\ j \in 0..Len(t) /\ k \in 0..Len(t)
    BY <1>1 DEF Lexemes
  <2> QED
    BY <1>1, <2>1, EndGrows
<1> QED
  BY <1>3, <1>4 DEF Before

\* A node spans the token that the scanner is at, in its row: its own when it is made at
\* once, the next one's otherwise. Where the counters are right the span is exact, and it
\* begins before the line only when its own token is counted short: SpanCovers, for every
\* source.
THEOREM SpansCorrect == DiagnosticsSpec => []SpanCovers
<1>1. PositionsInv => SpanCovers
  <2> SUFFICES ASSUME PositionsInv, node # NoNode PROVE SpanCovers
    BY DEF SpanCovers
  <2> DEFINE n == Len(text)
  <2>1. /\ Source(text) /\ RowRight(text, lex_row_num) /\ ColumnRight(text, lex_column_num)
        /\ text # <<>> /\ IsToken(Last(text))
    BY DEF PositionsInv, Scanned, Noted
  <2>2. /\ LastToken = n /\ n \in Nat \ {0}
        /\ text[n] = Last(text) /\ Last(text) \in Lexemes
    BY <2>1, LastIsToken
  <2>3. PICK i \in DOMAIN text : node = Span(i)
    BY DEF PositionsInv, Noted
  <2>4. i \in 1..n
    <3>1. text \in Seq(Lexemes)
      BY <2>1 DEF Source
    <3> QED
      BY <2>3, <3>1, LenProperties
  <2>5. yyleng = text[n].yyleng /\ text[n].yyleng \in 1..4
    BY <2>1, <2>2, LexemeFacts DEF yyleng
  <2>6. /\ node.of = i /\ node.start_row = lex_row_num /\ node.end_row = lex_row_num
        /\ node.start_column = lex_column_num - text[n].yyleng
        /\ node.end_column = lex_column_num
    BY <2>3, <2>5 DEF Span
  <2>7. /\ lex_row_num \in Nat /\ lex_column_num \in Nat
        /\ lex_row_num = TrueRow(text, n) <=> LoneCR(text, n) = {}
    BY <2>1 DEF RowRight, ColumnRight
  <2>8. lex_column_num = TrueEnd(text, n) <=> Short(text, n) = {}
    BY <2>1 DEF ColumnRight
  <2>9. node.start_row = node.end_row /\ node.start_column < node.end_column
    BY <2>5, <2>6, <2>7
  <2>10. (TrueRow(text, n) = TrueRow(text, i) /\ TrueEnd(text, n) = TrueEnd(text, i)) <=> i = n
    <3>1. i = n \/ i \in 1..(n - 1)
      BY <2>2, <2>4
    <3>2. n \in 1..n
      BY <2>2
    <3>3. CASE i \in 1..(n - 1)
      <4>1. Before(text, i, n)
        BY <2>1, <3>2, <3>3 DEF Source, Ordered, BeforeAt
      <4>2. i # n
        BY <2>2, <3>3
      <4> QED
        BY <2>1, <2>4, <3>2, <4>1, <4>2, OnePlace
    <3> QED
      BY <3>1, <3>3
  <2>11. Short(text, n) \cup LoneCR(text, n) = {} =>
           /\ node.end_row = TrueRow(text, n)
           /\ node.end_column = TrueEnd(text, n)
           /\ node.start_column = TrueEnd(text, n) - text[n].yyleng
           /\ (node.end_row = TrueRow(text, node.of) /\ node.end_column = TrueEnd(text, node.of))
                <=> node.of = n
    BY <2>6, <2>7, <2>8, <2>10
  <2>12. node.start_column < 0 => n \in Short(text, n)
    <3> SUFFICES ASSUME node.start_column < 0 PROVE n \in Short(text, n)
      OBVIOUS
    <3>1. text[n].kind \in {"div", "letter"}
      <4>1. text[n].kind \notin {"div", "letter"} => lex_column_num >= text[n].yyleng
        BY <2>1, <2>2 DEF ColumnRight
      <4> QED
        BY <2>5, <2>6, <2>7, <4>1
    <3>2. LineStart(text, n) \in 0..n
      BY <2>2, BreaksFinite
    <3>3. LineStart(text, n) # n
      <4>1. ~IsBreak(text[n])
        BY <2>1, <2>2, LexemeFacts
      <4>2. LineStart(text, n) \in {0} \cup BreaksTo(text, n)
        <5>1. {0} \cup BreaksTo(text, n) \subseteq 0..n
          BY <2>2, BreaksFinite
        <5> QED
          BY <2>2, <5>1, Greatest, RowIs
      <4> QED
        BY <2>2, <4>1, <4>2 DEF BreaksTo
    <3> QED
      BY <2>2, <3>1, <3>2, <3>3 DEF Short
  <2> HIDE DEF n
  <2> QED
    BY <2>2, <2>9, <2>11, <2>12 DEF SpanCovers
<1> QED
  BY <1>1, PositionsHold, PTL

-----------------------------------------------------------------------------
(* The report of a syntax error *)

\* Every name of a token differs from the pieces about it.
Names  == {"word", "sign", "div", "letter", "LF", "CR", "CRLF", "LFCR", "blank", "unexpected",
           "$end"}
Pieces == {Error, Comma, UnexpectedIs, ExpectingAre} \cup Names \cup {"expected"}

LEMMA PiecesDiffer ==
    /\ Error # UnexpectedIs /\ Error # ExpectingAre /\ Comma # UnexpectedIs
    /\ Comma # ExpectingAre /\ UnexpectedIs # ExpectingAre
    /\ \A token \in Names : token # Comma /\ token # ExpectingAre
BY Zenon DEF Error, Comma, UnexpectedIs, ExpectingAre, Names

\* What comes behind a piece of the message is what comes behind its first place.
LEMMA BehindIs ==
    ASSUME NEW m \in Seq(Pieces), NEW piece, NEW k \in 1..Len(m), m[k] = piece,
           \A j \in 1..(k - 1) : m[j] # piece
    PROVE  Behind(m, piece) = SubSeq(m, k + 1, Len(m))
<1> DEFINE I == {i \in 1..Len(m) : m[i] = piece}
<1>1. Len(m) \in Nat
  BY LenProperties
<1>2. k \in I /\ I \subseteq Nat /\ \A j \in I : k <= j
  BY <1>1
<1>3. SelectInSeq(m, LAMBDA p : p = piece) = IF I # {} THEN Min(I) ELSE 0
  BY DEF SelectInSeq
<1>4. Contains(m, piece)
  BY DEF Contains
<1> HIDE DEF I
<1>5. Min(I) = k
  <2>1. Min(I) \in I /\ \A j \in I : Min(I) <= j
    BY <1>2 DEF Min
  <2>2. Min(I) <= k /\ k <= Min(I) /\ Min(I) \in Nat /\ k \in Nat
    BY <1>2, <2>1
  <2> QED
    BY <2>2
<1>6. SelectInSeq(m, LAMBDA p : p = piece) = k
  BY <1>2, <1>3, <1>5
<1> QED
  BY <1>4, <1>6 DEF Behind

Listed(e) == Len(e) \in 1..4

LEMMA MessageIs ==
    ASSUME NEW token \in Pieces, NEW e \in Seq(Pieces)
    PROVE  LET m == Message(token, e)
           IN  /\ m \in Seq(Pieces)
               /\ m[1] = Error /\ m[2] = Comma /\ m[3] = UnexpectedIs /\ m[4] = token
               /\ ~Listed(e) => Len(m) = 4
               /\ Listed(e) => /\ Len(m) = 6 + Len(e)
                               /\ m[5] = Comma /\ m[6] = ExpectingAre
                               /\ \A i \in 1..Len(e) : m[6 + i] = e[i]
<1> DEFINE a == <<Error, Comma, UnexpectedIs, token>>
           x == <<Comma, ExpectingAre>>
           m == Message(token, e)
<1>1. /\ a \in Seq(Pieces) /\ Len(a) = 4
      /\ a[1] = Error /\ a[2] = Comma /\ a[3] = UnexpectedIs /\ a[4] = token
  BY DEF Pieces
<1>2. x \in Seq(Pieces) /\ Len(x) = 2 /\ x[1] = Comma /\ x[2] = ExpectingAre
  BY DEF Pieces
<1>3. Len(e) \in Nat /\ (e = <<>> <=> Len(e) = 0)
  BY LenProperties, EmptySeq
<1>4. m = a \o (IF e = <<>> \/ Len(e) > 4 THEN <<>> ELSE x \o e)
  BY DEF Message
<1> HIDE DEF a, x, m
<1>5. CASE ~Listed(e)
  <2>1. m = a
    <3>1. e = <<>> \/ Len(e) > 4
      <4>1. \A k \in Nat : k \notin 1..4 => k = 0 \/ k > 4
        OBVIOUS
      <4> QED
        BY <1>3, <1>5, <4>1, Zenon DEF Listed
    <3>2. m = a \o <<>>
      BY <1>4, <3>1
    <3> QED
      BY <1>1, <3>2, ConcatEmptySeq
  <2> QED
    BY <1>1, <1>5, <2>1 DEF m
<1>6. CASE Listed(e)
  <2>1. m = a \o (x \o e)
    <3>1. \A k \in 1..4 : k # 0 /\ ~(k > 4)
      OBVIOUS
    <3> QED
      BY <1>3, <1>4, <1>6, <3>1, Zenon DEF Listed
  <2> DEFINE y == x \o e
  <2>2. /\ y \in Seq(Pieces) /\ Len(y) = 2 + Len(e)
        /\ \A i \in 1..(2 + Len(e)) : y[i] = IF i <= 2 THEN x[i] ELSE e[i - 2]
    <3>1. /\ x \o e \in Seq(Pieces) /\ Len(x \o e) = Len(x) + Len(e)
          /\ \A i \in 1..(Len(x) + Len(e)) : (x \o e)[i] =
                IF i <= Len(x) THEN x[i] ELSE e[i - Len(x)]
      BY <1>2, ConcatProperties, Zenon
    <3> HIDE DEF y
    <3>2. /\ y \in Seq(Pieces) /\ Len(y) = Len(x) + Len(e)
          /\ \A i \in 1..(Len(x) + Len(e)) : y[i] = IF i <= Len(x) THEN x[i] ELSE e[i - Len(x)]
      BY <3>1, Zenon DEF y
    <3> QED
      BY <1>2, <3>2
  <2> HIDE DEF y
  <2>3. m = a \o y
    BY <2>1 DEF y
  <2>4. /\ m \in Seq(Pieces) /\ Len(m) = 4 + Len(y)
        /\ \A i \in 1..(4 + Len(y)) : m[i] = IF i <= 4 THEN a[i] ELSE y[i - 4]
    <3>1. /\ a \o y \in Seq(Pieces) /\ Len(a \o y) = Len(a) + Len(y)
          /\ \A i \in 1..(Len(a) + Len(y)) : (a \o y)[i] =
                IF i <= Len(a) THEN a[i] ELSE y[i - Len(a)]
      BY <1>1, <2>2, ConcatProperties, Zenon
    <3> QED
      BY <1>1, <2>3, <3>1
  <2>5. m[1] = a[1] /\ m[2] = a[2] /\ m[3] = a[3] /\ m[4] = a[4]
    BY <1>3, <2>2, <2>4
  <2>6. m[5] = x[1] /\ m[6] = x[2]
    BY <1>3, <2>2, <2>4
  <2>7. ASSUME NEW i \in 1..Len(e) PROVE m[6 + i] = e[i]
    <3>1. 6 + i \in 1..(4 + Len(y)) /\ ~(6 + i <= 4) /\ (6 + i) - 4 = 2 + i
      BY <1>3, <2>2
    <3>2. 2 + i \in 1..(2 + Len(e)) /\ ~(2 + i <= 2) /\ (2 + i) - 2 = i
      BY <1>3
    <3> QED
      BY <2>2, <2>4, <3>1, <3>2
  <2>8. Len(m) = 6 + Len(e)
    BY <1>3, <2>2, <2>4
  <2> QED
    BY <1>1, <1>2, <1>6, <2>4, <2>5, <2>6, <2>7, <2>8 DEF m
<1> QED
  BY <1>5, <1>6

\* The report names the token and the expected ones, or nothing is printed.
LEMMA PrintedIs ==
    ASSUME NEW token \in Names, NEW e \in Seq(Pieces)
    PROVE  LET r == print_error(Message(token, e))
           IN  IF Listed(e)
               THEN r.kind = "syntax" /\ r.unexpected = token /\ r.expecting = e
               ELSE r = [NoReport EXCEPT !.kind = "crash"]
<1> DEFINE m == Message(token, e)
           b == Behind(m, UnexpectedIs)
<1>1. /\ m \in Seq(Pieces)
      /\ m[1] = Error /\ m[2] = Comma /\ m[3] = UnexpectedIs /\ m[4] = token
      /\ ~Listed(e) => Len(m) = 4
      /\ Listed(e) => /\ Len(m) = 6 + Len(e)
                      /\ m[5] = Comma /\ m[6] = ExpectingAre
                      /\ \A i \in 1..Len(e) : m[6 + i] = e[i]
  BY MessageIs DEF Pieces
<1>2. Len(e) \in Nat /\ Len(m) \in Nat /\ Len(m) >= 4
  <2>1. Len(e) \in Nat
    BY LenProperties
  <2> QED
    BY <1>1, <2>1
<1> HIDE DEF m
<1>3. b = SubSeq(m, 4, Len(m))
  <2>1. 3 \in 1..Len(m) /\ \A j \in 1..(3 - 1) : m[j] # UnexpectedIs
    BY <1>1, <1>2, PiecesDiffer
  <2>2. Behind(m, UnexpectedIs) = SubSeq(m, 3 + 1, Len(m))
    BY <1>1, <2>1, BehindIs
  <2> QED
    BY <2>2
<1> HIDE DEF b
<1>4. /\ b \in Seq(Pieces) /\ Len(b) = Len(m) - 3
      /\ \A i \in 1..(Len(m) - 3) : b[i] = m[3 + i]
  <2>1. \A i \in 4..Len(m) : m[i] \in Pieces
    BY <1>1, <1>2, ElementOfSeq
  <2>2. /\ SubSeq(m, 4, Len(m)) \in Seq(Pieces)
        /\ Len(SubSeq(m, 4, Len(m))) = IF 4 <= Len(m) THEN Len(m) - 4 + 1 ELSE 0
        /\ \A i \in 1..(Len(m) - 4 + 1) : SubSeq(m, 4, Len(m))[i] = m[4 + i - 1]
    BY <1>2, <2>1, SubSeqProperties
  <2> QED
    BY <1>2, <1>3, <2>2
<1>5. b # <<>> /\ Head(b) = token
  <2>1. b[1] = m[4] /\ Len(b) > 0
    BY <1>2, <1>4
  <2> QED
    BY <1>1, <2>1
<1>6. CASE ~Listed(e)
  <2>1. Len(m) = 4 /\ Len(b) = 1
    BY <1>1, <1>4, <1>6
  <2>2. b[1] = m[4]
    BY <1>4, <2>1
  <2>3. \A i \in 1..Len(b) : i = 1
    BY <2>1
  <2>4. \A i \in 1..Len(b) : b[i] # Comma
    BY <1>1, <2>2, <2>3, PiecesDiffer
  <2>5. ~Contains(b, Comma)
    BY <2>4 DEF Contains
  <2> QED
    BY <1>6, <2>5 DEF print_error, b, m
<1>7. CASE Listed(e)
  <2>1. Contains(b, Comma)
    <3>1. 2 \in 1..Len(b) /\ b[2] = m[5]
      BY <1>1, <1>2, <1>4, <1>7 DEF Listed
    <3> QED
      BY <1>1, <1>7, <3>1 DEF Contains
  <2>2. Behind(m, ExpectingAre) = e
    <3>1. 6 \in 1..Len(m) /\ m[6] = ExpectingAre
      BY <1>1, <1>2, <1>7
    <3>2. \A j \in 1..(6 - 1) : m[j] # ExpectingAre
      <4>1. m[1] # ExpectingAre /\ m[2] # ExpectingAre /\ m[3] # ExpectingAre /\ m[4] # ExpectingAre
        BY <1>1, PiecesDiffer
      <4>2. m[5] # ExpectingAre
        BY <1>1, <1>7, PiecesDiffer
      <4>3. \A j \in 1..(6 - 1) : j = 1 \/ j = 2 \/ j = 3 \/ j = 4 \/ j = 5
        OBVIOUS
      <4> QED
        BY <4>1, <4>2, <4>3
    <3>3. Behind(m, ExpectingAre) = SubSeq(m, 6 + 1, Len(m))
      BY <1>1, <3>1, <3>2, BehindIs
    <3> DEFINE c == SubSeq(m, 7, Len(m))
    <3>4. \A i \in 7..Len(m) : m[i] \in Pieces
      BY <1>1, <1>2, ElementOfSeq
    <3>5. /\ c \in Seq(Pieces)
          /\ Len(c) = IF 7 <= Len(m) THEN Len(m) - 7 + 1 ELSE 0
          /\ \A i \in 1..(Len(m) - 7 + 1) : c[i] = m[7 + i - 1]
      BY <1>2, <3>4, SubSeqProperties
    <3> HIDE DEF c
    <3>6. Len(c) = Len(e)
      BY <1>1, <1>2, <1>7, <3>5 DEF Listed
    <3>7. \A i \in 1..Len(c) : c[i] = e[i]
      <4> TAKE i \in 1..Len(c)
      <4>1. i \in 1..(Len(m) - 7 + 1) /\ i \in 1..Len(e) /\ 7 + i - 1 = 6 + i
        BY <1>1, <1>2, <1>7, <3>6
      <4> QED
        BY <1>1, <1>7, <3>5, <4>1
    <3>8. c = e
      BY <3>5, <3>6, <3>7, SeqEqual
    <3> QED
      BY <3>3, <3>8 DEF c
  <2> QED
    BY <1>5, <1>7, <2>1, <2>2 DEF print_error, b, m
<1> QED
  BY <1>6, <1>7

LEMMA ExpectedText == ASSUME NEW e \in Expected PROVE e \in Seq(Pieces)
<1>1. PICK n \in 0..MaxExpected : e = [i \in 1..n |-> "expected"]
  BY DEF Expected
<1>2. n \in Nat
  BY <1>1, DiagnosticsAssumption
<1>3. e \in [1..n -> Pieces]
  BY <1>1 DEF Pieces
<1> QED
  BY <1>2, <1>3, SeqDef

\* A syntax error is reported with the offending token and all that could have come when
\* bison lists at most four, and ends in a crash with nothing printed when it lists none:
\* ReportsExactly, for every number of tokens that a state of the parser accepts.
THEOREM MessageCorrect == DiagnosticsSpec => ReportsExactly
<1> DEFINE A == \A expected \in Expected :
          /\ SyntaxError(expected) =>
                IF Len(expected) \in 1..4
                THEN report'.unexpected = Last(text).kind /\ report'.expecting = expected
                ELSE report' = [NoReport EXCEPT !.kind = "crash"]
          /\ EndUnexpected(expected) => (report'.kind = "crash" <=> Len(expected) \notin 1..4)
<1>1. PositionsInv /\ [DiagnosticsNext]_dgvars => [A]_dgvars
  <2> SUFFICES ASSUME PositionsInv, NEW expected \in Expected
               PROVE  /\ SyntaxError(expected) =>
                           IF Len(expected) \in 1..4
                           THEN report'.unexpected = Last(text).kind /\ report'.expecting = expected
                           ELSE report' = [NoReport EXCEPT !.kind = "crash"]
                      /\ EndUnexpected(expected) =>
                           (report'.kind = "crash" <=> Len(expected) \notin 1..4)
    OBVIOUS
  <2>1. expected \in Seq(Pieces)
    BY ExpectedText
  <2>2. ASSUME SyntaxError(expected)
        PROVE  IF Listed(expected)
               THEN report'.unexpected = Last(text).kind /\ report'.expecting = expected
               ELSE report' = [NoReport EXCEPT !.kind = "crash"]
    <3>1. Source(text) /\ text # <<>> /\ IsToken(Last(text))
      BY <2>2 DEF PositionsInv, Scanned, SyntaxError, AtToken
    <3>2. Last(text) \in Lexemes
      BY <3>1, LastIsToken
    <3> DEFINE token == Last(text).kind
    <3>3. token \in Names
      BY <3>2 DEF Names, Lexemes, Tokens, Breaks, Blank, Unexpected, Lexeme
    <3>4. report' = print_error(Message(token, expected))
      BY <2>2 DEF SyntaxError
    <3> HIDE DEF token
    <3>5. IF Listed(expected)
          THEN report'.unexpected = token /\ report'.expecting = expected
          ELSE report' = [NoReport EXCEPT !.kind = "crash"]
      BY <2>1, <3>3, <3>4, PrintedIs
    <3> QED
      BY <3>5 DEF token
  <2>3. ASSUME EndUnexpected(expected)
        PROVE  report'.kind = "crash" <=> ~Listed(expected)
    <3>1. report' = print_error(Message("$end", expected))
      BY <2>3 DEF EndUnexpected
    <3>2. IF Listed(expected) THEN report'.kind = "syntax"
          ELSE report' = [NoReport EXCEPT !.kind = "crash"]
      <4>1. "$end" \in Names
        BY DEF Names
      <4> QED
        BY <2>1, <3>1, <4>1, PrintedIs
    <3> QED
      BY <3>2 DEF NoReport
  <2> QED
    BY <2>2, <2>3 DEF Listed
<1> QED
  BY <1>1, PositionsHold, PTL DEF DiagnosticsSpec, ReportsExactly
=============================================================================
