----------------------------- MODULE TableProofs -----------------------------
(***************************************************************************)
(* What holds of SymbolTable for every set of programs, every vocabulary   *)
(* and every length of declaration: the walk keeps its types and scopes,   *)
(* the table holds exactly what the program declares, and what the code    *)
(* generator may rely on because of it.                                    *)
(***************************************************************************)
EXTENDS SymbolTable, SequenceTheorems, WellFoundedInduction, FiniteSetTheorems, TLAPS

-----------------------------------------------------------------------------
(* Searching the list *)

\* A nonempty set of positions has a first one, which is what FirstIndex is: the
\* loop of get_symbol stops at the first match.
LEMMA FirstIndexIsLeast ==
    ASSUME NEW K, K \subseteq Nat, K # {}
    PROVE  FirstIndex(K) \in K /\ \A j \in K : FirstIndex(K) <= j
<1>1. \E k \in K : \A j \in K : k <= j
  <2>1. PICK k \in K : \A j \in K : ~(<<j, k>> \in OpToRel(<, Nat))
    BY WFMin, NatLessThanWellFounded
  <2>2. \A j \in K : <<j, k>> \in OpToRel(<, Nat) <=> j < k
    BY DEF OpToRel
  <2>3. \A j \in K : j \in Nat /\ k \in Nat /\ ~(j < k)
    BY <2>1, <2>2
  <2>4. QED
    BY <2>3
<1>2. QED
  BY <1>1 DEF FirstIndex

\* Appending to the list adds to the set of its entries, and to nothing else.
LEMMA EntriesOfConcat ==
    ASSUME NEW s \in Seq(Symbol), NEW t \in Seq(Symbol)
    PROVE  Entries(s \o t) = Entries(s) \cup Entries(t)
<1>1. /\ Len(s) \in Nat /\ Len(t) \in Nat
      /\ Len(s \o t) = Len(s) + Len(t)
      /\ \A k \in 1..Len(s) + Len(t) :
            (s \o t)[k] = IF k <= Len(s) THEN s[k] ELSE t[k - Len(s)]
  BY ConcatProperties, LenProperties
<1>2. Entries(s \o t) \subseteq Entries(s) \cup Entries(t)
  <2>1. SUFFICES ASSUME NEW k \in 1..Len(s) + Len(t)
                 PROVE  (s \o t)[k] \in Entries(s) \cup Entries(t)
    BY <1>1 DEF Entries
  <2>2. CASE k <= Len(s)
    BY <1>1, <2>2 DEF Entries
  <2>3. CASE ~(k <= Len(s))
    <3>1. k - Len(s) \in 1..Len(t)
      BY <1>1, <2>3
    <3>2. QED
      BY <1>1, <2>3, <3>1 DEF Entries
  <2>4. QED
    BY <2>2, <2>3
<1>3. Entries(s) \subseteq Entries(s \o t)
  BY <1>1 DEF Entries
<1>4. Entries(t) \subseteq Entries(s \o t)
  <2>1. SUFFICES ASSUME NEW k \in 1..Len(t)
                 PROVE  t[k] \in Entries(s \o t)
    BY DEF Entries
  <2>2. k + Len(s) \in 1..Len(s) + Len(t) /\ ~(k + Len(s) <= Len(s)) /\ k + Len(s) - Len(s) = k
    BY <1>1
  <2>3. (s \o t)[k + Len(s)] = t[k]
    BY <1>1, <2>2
  <2>4. QED
    BY <1>1, <2>2, <2>3 DEF Entries
<1>5. QED
  BY <1>2, <1>3, <1>4

\* The entries of one appended symbol.
LEMMA EntriesOfOne ==
    ASSUME NEW x \in Symbol
    PROVE  <<x>> \in Seq(Symbol) /\ Entries(<<x>>) = {x}
BY DEF Entries

\* What get_symbol returns is in the list, under the name and scope asked for;
\* it returns NULL exactly when no entry has them.
LEMMA GetSymbolFinds ==
    ASSUME NEW table \in Seq(Symbol), NEW n, NEW s
    PROVE  LET meant == {d \in Entries(table) : d.name = n /\ d.scope = s}
           IN  IF meant = {} THEN get_symbol(table, n, s) = NULL
               ELSE get_symbol(table, n, s) \in meant
<1> DEFINE K == Matches(table, n, s)
           meant == {d \in Entries(table) : d.name = n /\ d.scope = s}
<1>1. meant = {} <=> K = {}
  BY DEF Matches, Entries
<1>2. CASE K = {}
  BY <1>1, <1>2 DEF get_symbol, FirstOf
<1>3. CASE K # {}
  <2>1. K \subseteq Nat
    BY LenProperties DEF Matches
  <2>2. FirstIndex(K) \in K
    BY <2>1, <1>3, FirstIndexIsLeast
  <2>3. table[FirstIndex(K)] \in meant
    BY <2>2 DEF Matches, Entries
  <2>4. QED
    BY <1>1, <1>3, <2>3 DEF get_symbol, FirstOf
<1>4. QED
  BY <1>2, <1>3

\* Appending never changes an answer that was not NULL.
LEMMA GetSymbolStable ==
    ASSUME NEW table \in Seq(Symbol), NEW more \in Seq(Symbol), NEW n, NEW s,
           get_symbol(table, n, s) # NULL
    PROVE  get_symbol(table \o more, n, s) = get_symbol(table, n, s)
<1> DEFINE K == Matches(table, n, s)
           L == Matches(table \o more, n, s)
<1>1. /\ Len(table) \in Nat /\ Len(more) \in Nat
      /\ Len(table \o more) = Len(table) + Len(more)
      /\ \A k \in 1..Len(table) : (table \o more)[k] = table[k]
  BY ConcatProperties, LenProperties
<1>2. K # {} /\ K \subseteq Nat /\ L \subseteq Nat
  BY <1>1 DEF get_symbol, FirstOf, Matches
<1>3. K = L \cap 1..Len(table)
  BY <1>1 DEF Matches
<1>4. FirstIndex(K) \in K /\ \A j \in K : FirstIndex(K) <= j
  BY <1>2, FirstIndexIsLeast
<1>5. FirstIndex(L) \in L /\ \A j \in L : FirstIndex(L) <= j
  BY <1>2, <1>3, FirstIndexIsLeast
<1>6. FirstIndex(L) \in 1..Len(table)
  <2>1. L \subseteq 1..Len(table) + Len(more)
    BY <1>1 DEF Matches
  <2>2. FirstIndex(L) \in 1..Len(table) + Len(more)
    BY <1>5, <2>1
  <2>3. FirstIndex(K) \in L /\ FirstIndex(K) \in 1..Len(table)
    BY <1>3, <1>4
  <2>4. FirstIndex(L) <= FirstIndex(K)
    BY <1>5, <2>3
  <2>5. QED
    BY <1>1, <2>2, <2>3, <2>4
<1>7. FirstIndex(L) = FirstIndex(K)
  <2>1. FirstIndex(L) \in K /\ FirstIndex(K) \in L
    BY <1>3, <1>4, <1>5, <1>6
  <2>2. FirstIndex(L) <= FirstIndex(K) /\ FirstIndex(K) <= FirstIndex(L)
    BY <1>4, <1>5, <2>1
  <2>3. FirstIndex(L) \in Nat /\ FirstIndex(K) \in Nat
    BY <1>2, <2>1
  <2>4. QED
    BY <2>2, <2>3
<1>8. QED
  BY <1>1, <1>2, <1>3, <1>6, <1>7 DEF get_symbol, FirstOf
-----------------------------------------------------------------------------
(* What the tree gives the walk *)

\* A declaration of a block of a program has the shape its production gives it.
LEMMA DeclFacts ==
    ASSUME NEW a, IsAst(a), NEW b \in 1..Len(a), NEW j \in 1..Len(a[b].decls)
    PROVE  /\ a[b] \in Block
           /\ a[b].decls \in Seq(Declaration)
           /\ a[b].decls[j] \in Declaration
           /\ DeclShape(a[b].decls[j])
<1>1. a \in Seq(Block)
  BY DEF IsAst
<1>2. a[b] \in Block
  BY <1>1, ElementOfSeq
<1>3. a[b].decls \in Seq(Declaration)
  BY <1>2 DEF Block
<1>4. a[b].decls[j] \in Declaration
  BY <1>3, ElementOfSeq
<1>5. DeclShape(a[b].decls[j])
  BY DEF IsAst
<1>6. QED
  BY <1>2, <1>3, <1>4, <1>5

LEMMA BlockFacts ==
    ASSUME NEW a, IsAst(a)
    PROVE  /\ Len(a) \in Nat \ {0}
           /\ \A b \in 1..Len(a) : /\ a[b] \in Block
                                   /\ a[b].id \in Identifier
                                   /\ a[b].result \in BasicType \cup {NULL}
                                   /\ Len(a[b].decls) \in Nat
<1>1. a \in Seq(Block) /\ a # <<>>
  BY DEF IsAst
<1>2. Len(a) \in Nat \ {0}
  BY <1>1, EmptySeq, LenProperties
<1>3. ASSUME NEW b \in 1..Len(a)
      PROVE  /\ a[b] \in Block
             /\ a[b].id \in Identifier
             /\ a[b].result \in BasicType \cup {NULL}
             /\ a[b].decls \in Seq(Declaration)
  <2>1. a[b] \in Block
    BY <1>1, ElementOfSeq
  <2>2. QED
    BY <2>1 DEF Block
<1>4. QED
  BY <1>2, <1>3, LenProperties

\* Each group of symbols that one visit appends is well typed, and its entries are
\* the symbols of the declaration visited.
LEMMA VarEntriesFacts ==
    ASSUME NEW ids \in Seq(Identifier), NEW type \in BasicType \cup Identifier,
           NEW s \in Identifier
    PROVE  /\ VarEntries(ids, type, s) \in Seq(Symbol)
           /\ Entries(VarEntries(ids, type, s)) =
                 {MkSymbol(ids[k], type, 0, s, 0, 0) : k \in 1..Len(ids)}
<1>1. Len(ids) \in Nat /\ \A k \in 1..Len(ids) : ids[k] \in Identifier
  BY LenProperties, ElementOfSeq
<1>2. \A k \in 1..Len(ids) : MkSymbol(ids[k], type, 0, s, 0, 0) \in Symbol
  BY <1>1 DEF MkSymbol, Symbol, SymbolType
<1>3. Len(VarEntries(ids, type, s)) = Len(ids)
  BY <1>1 DEF VarEntries
<1>4. QED
  BY <1>1, <1>2, <1>3 DEF VarEntries, Entries

LEMMA ParameterEntriesFacts ==
    ASSUME NEW d \in Declaration, NEW s \in Identifier, d.type \in BasicType
    PROVE  /\ ParameterEntries(d, s) \in Seq(Symbol)
           /\ Entries(ParameterEntries(d, s)) =
                 {MkSymbol(d.ids[k], d.type, 0, s, k, Ref(d.kind)) : k \in 1..Len(d.ids)}
<1>1. d.ids \in Seq(Identifier)
  BY DEF Declaration
<1>2. Len(d.ids) \in Nat /\ \A k \in 1..Len(d.ids) : d.ids[k] \in Identifier
  BY <1>1, LenProperties, ElementOfSeq
<1>3. Ref(d.kind) \in 0..2
  BY DEF Ref
<1>4. \A k \in 1..Len(d.ids) : MkSymbol(d.ids[k], d.type, 0, s, k, Ref(d.kind)) \in Symbol
  BY <1>2, <1>3 DEF MkSymbol, Symbol, SymbolType
<1>5. ParameterEntries(d, s) \in [1..Len(d.ids) -> Symbol]
  BY <1>4 DEF ParameterEntries
<1>6. ParameterEntries(d, s) \in Seq(Symbol) /\ Len(ParameterEntries(d, s)) = Len(d.ids)
  BY <1>2, <1>5
<1>7. \A k \in 1..Len(d.ids) :
         ParameterEntries(d, s)[k] = MkSymbol(d.ids[k], d.type, 0, s, k, Ref(d.kind))
  BY DEF ParameterEntries
<1>8. QED
  BY <1>6, <1>7 DEF Entries

LEMMA DimensionEntriesFacts ==
    ASSUME NEW d \in Declaration, d.kind = "ARRAY", DeclShape(d)
    PROVE  /\ DimensionEntries(d) \in Seq(Symbol)
           /\ Entries(DimensionEntries(d)) =
                 {MkSymbol(DimensionName[k], d.type, d.periods[k].end, d.id, 0, 0) :
                     k \in 1..Len(d.periods)}
<1>1. /\ d.periods \in Seq(Period) /\ d.type \in BasicType /\ d.id \in Identifier
      /\ Len(d.periods) <= MaxDimension
  BY DEF Declaration, DeclShape
<1>2. Len(d.periods) \in Nat /\ \A k \in 1..Len(d.periods) : d.periods[k] \in Period
  BY <1>1, LenProperties, ElementOfSeq
<1>3. \A k \in 1..Len(d.periods) : DimensionName[k] \in Identifier /\ d.periods[k].end \in Nat
  BY <1>1, <1>2, DimensionAssumption DEF Period
<1>4. \A k \in 1..Len(d.periods) :
         MkSymbol(DimensionName[k], d.type, d.periods[k].end, d.id, 0, 0) \in Symbol
  BY <1>1, <1>3 DEF MkSymbol, Symbol, SymbolType
<1>5. DimensionEntries(d) \in [1..Len(d.periods) -> Symbol]
  BY <1>4 DEF DimensionEntries
<1>6. DimensionEntries(d) \in Seq(Symbol) /\ Len(DimensionEntries(d)) = Len(d.periods)
  BY <1>2, <1>5
<1>7. \A k \in 1..Len(d.periods) :
         DimensionEntries(d)[k] = MkSymbol(DimensionName[k], d.type, d.periods[k].end, d.id, 0, 0)
  BY DEF DimensionEntries
<1>8. QED
  BY <1>6, <1>7 DEF Entries

-----------------------------------------------------------------------------
(* The walk: types, cursor and scopes *)

WalkInv == TypeOK /\ CursorOK /\ ScopeDiscipline /\ FramesOK

LEMMA WalkInit == Init => WalkInv
<1>1. SUFFICES ASSUME Init PROVE WalkInv
  OBVIOUS
<1>2. IsAst(ast)
  BY <1>1, ProgramsAssumption DEF Init
<1>3. Len(ast) \in Nat \ {0}
  BY <1>2, BlockFacts
<1>4. TypeOK
  BY <1>1, IdentifierAssumption DEF Init, TypeOK
<1>5. CursorOK
  BY <1>1, <1>3 DEF Init, CursorOK
<1>6. ScopeDiscipline /\ FramesOK
  BY <1>1 DEF Init, ScopeDiscipline, FramesOK
<1>7. QED
  BY <1>4, <1>5, <1>6 DEF WalkInv

\* Before a declaration the cursor points at one, of a known shape, and the current
\* scope is the block.
LEMMA AtDeclarationFacts ==
    ASSUME WalkInv, NEW kinds, AtDeclaration(kinds)
    PROVE  /\ IsAst(ast) /\ Len(ast) \in Nat
           /\ blk \in 1..Len(ast) /\ i \in 1..Len(ast[blk].decls)
           /\ Len(ast[blk].decls) \in Nat
           /\ decl \in Declaration /\ DeclShape(decl) /\ decl.kind \in kinds
           /\ scope = ast[blk].id /\ scope \in Identifier
           /\ pre_scope = NULL
<1>1. IsAst(ast)
  BY ProgramsAssumption DEF WalkInv, TypeOK
<1>2. /\ Len(ast) \in Nat
      /\ blk \in 1..Len(ast)
  BY <1>1, BlockFacts DEF AtDeclaration, WalkInv, CursorOK
<1>3. Len(ast[blk].decls) \in Nat
  BY <1>1, <1>2, BlockFacts
<1>4. i \in 1..Len(ast[blk].decls)
  BY <1>2, <1>3 DEF AtDeclaration, WalkInv, TypeOK
<1>5. decl \in Declaration /\ DeclShape(decl)
  BY <1>1, <1>2, <1>4, DeclFacts DEF decl
<1>6. scope = ast[blk].id /\ scope \in Identifier /\ pre_scope = NULL
  BY DEF AtDeclaration, WalkInv, ScopeDiscipline, FramesOK, TypeOK
<1>7. QED
  BY <1>1, <1>2, <1>3, <1>4, <1>5, <1>6 DEF AtDeclaration

\* The same inside a record.
LEMMA RecordFacts ==
    ASSUME WalkInv, pc = "RECORD"
    PROVE  /\ IsAst(ast) /\ Len(ast) \in Nat
           /\ blk = 1 /\ blk \in 1..Len(ast) /\ i \in 1..Len(ast[blk].decls)
           /\ Len(ast[blk].decls) \in Nat
           /\ decl \in Declaration /\ DeclShape(decl) /\ decl.kind = "RECORD"
           /\ decl.id \in Identifier
           /\ decl.members \in Seq(Member) /\ Len(decl.members) \in Nat
           /\ m \in 1..Len(decl.members) + 1
           /\ scope = decl.id /\ pre_scope = ast[1].id /\ ast[1].id \in Identifier
<1>1. IsAst(ast)
  BY ProgramsAssumption DEF WalkInv, TypeOK
<1>2. Len(ast) \in Nat /\ blk = 1 /\ blk \in 1..Len(ast)
  BY <1>1, BlockFacts DEF WalkInv, CursorOK
<1>3. Len(ast[blk].decls) \in Nat /\ ast[1].id \in Identifier
  BY <1>1, <1>2, BlockFacts
<1>4. i \in 1..Len(ast[blk].decls)
  BY <1>2, <1>3 DEF WalkInv, TypeOK, CursorOK
<1>5. decl \in Declaration /\ DeclShape(decl)
  BY <1>1, <1>2, <1>4, DeclFacts DEF decl
<1>6. decl.kind = "RECORD"
  BY DEF WalkInv, CursorOK
<1>7. decl.id \in Identifier /\ decl.members \in Seq(Member)
  BY <1>5, <1>6 DEF Declaration, DeclShape
<1>8. Len(decl.members) \in Nat
  BY <1>7, LenProperties
<1>9. m \in 1..Len(decl.members) + 1
  BY <1>8 DEF WalkInv, TypeOK, CursorOK
<1>10. scope = decl.id /\ pre_scope = ast[1].id
  BY DEF WalkInv, ScopeDiscipline, FramesOK
<1>11. QED
  BY <1>1, <1>2, <1>3, <1>4, <1>5, <1>6, <1>7, <1>8, <1>9, <1>10

\* What each kind of declaration appends is a list of symbols.
LEMMA AppendedTyped ==
    ASSUME WalkInv, NEW kinds, AtDeclaration(kinds)
    PROVE  /\ decl.kind \in {"VAR_PARAMETER", "VALUE_PARAMETER"} =>
                 ParameterEntries(decl, scope) \in Seq(Symbol)
           /\ decl.kind = "CONST_DECLARATION" =>
                 MkSymbol(decl.id, "const", 0, scope, 0, 0) \in Symbol
           /\ decl.kind = "VAR_DECLARATION" =>
                 VarEntries(decl.ids, decl.type, scope) \in Seq(Symbol)
           /\ decl.kind = "ARRAY" =>
                 /\ DimensionEntries(decl) \in Seq(Symbol)
                 /\ MkSymbol(decl.id, "array", Len(decl.periods), scope, 0, 0) \in Symbol
<1>1. decl \in Declaration /\ DeclShape(decl) /\ scope \in Identifier
  BY AtDeclarationFacts
<1>2. CASE decl.kind \in {"VAR_PARAMETER", "VALUE_PARAMETER"}
  <2>1. decl.type \in BasicType
    BY <1>1, <1>2 DEF DeclShape
  <2>2. QED
    BY <1>1, <1>2, <2>1, ParameterEntriesFacts
<1>3. CASE decl.kind = "CONST_DECLARATION"
  <2>1. decl.id \in Identifier
    BY <1>1, <1>3 DEF Declaration, DeclShape
  <2>2. QED
    BY <1>1, <1>3, <2>1 DEF MkSymbol, Symbol, SymbolType, Keyword
<1>4. CASE decl.kind = "VAR_DECLARATION"
  <2>1. decl.ids \in Seq(Identifier) /\ decl.type \in BasicType \cup Identifier
    BY <1>1, <1>4 DEF Declaration, DeclShape
  <2>2. QED
    BY <1>1, <1>4, <2>1, VarEntriesFacts
<1>5. CASE decl.kind = "ARRAY"
  <2>1. decl.id \in Identifier /\ decl.periods \in Seq(Period)
    BY <1>1, <1>5 DEF Declaration, DeclShape
  <2>2. Len(decl.periods) \in Nat
    BY <2>1, LenProperties
  <2>3. MkSymbol(decl.id, "array", Len(decl.periods), scope, 0, 0) \in Symbol
    BY <1>1, <2>1, <2>2 DEF MkSymbol, Symbol, SymbolType, Keyword
  <2>4. QED
    BY <1>1, <1>5, <2>3, DimensionEntriesFacts
<1>6. CASE decl.kind = "RECORD"
  BY <1>6
<1>7. QED
  BY <1>1, <1>2, <1>3, <1>4, <1>5, <1>6 DEF Declaration

\* Symbols that are no parameters: the look-up by position passes them by.
NoParameter(group) == \A k \in 1..Len(group) : group[k].arg = 0

\* Until the table is destroyed a step only appends to it, and only the visit of a
\* parameter group appends parameters.
LEMMA AppendsOnly ==
    ASSUME WalkInv, [Next]_vars
    PROVE  \/ Destroy
           \/ \E group \in Seq(Symbol) :
                 syms' = syms \o group /\ (Parameter \/ NoParameter(group))
<1> DEFINE Appended == \E group \in Seq(Symbol) :
                          syms' = syms \o group /\ (Parameter \/ NoParameter(group))
<1>1. IsAst(ast) /\ ast[1].id \in Identifier /\ Len(ast) \in Nat \ {0} /\ syms \in Seq(Symbol)
  BY ProgramsAssumption, BlockFacts DEF WalkInv, TypeOK
<1>2. ASSUME NEW x \in Symbol, syms' = syms \o <<x>>, x.arg = 0
      PROVE  Appended
  <2>1. <<x>> \in Seq(Symbol)
    BY EntriesOfOne
  <2>2. NoParameter(<<x>>)
    BY <1>2 DEF NoParameter
  <2>3. QED
    BY <1>2, <2>1, <2>2
<1>3. ASSUME syms' = syms
      PROVE  Appended
  <2>1. <<>> \in Seq(Symbol) /\ syms \o <<>> = syms
    BY <1>1, EmptySeq, ConcatEmptySeq
  <2>2. NoParameter(<<>>)
    BY DEF NoParameter
  <2>3. QED
    BY <1>3, <2>1, <2>2
<1>4. CASE ProgramHead
  <2> DEFINE x == MkSymbol(ast[1].id, "program", 0, "null", 0, 0)
  <2>1. x \in Symbol /\ x.arg = 0
    BY <1>1, IdentifierAssumption DEF MkSymbol, Symbol, SymbolType, Keyword
  <2>2. QED
    BY <1>2, <1>4, <2>1 DEF ProgramHead, add_symbol
<1>5. CASE SubprogramHead
  <2> DEFINE type == IF ast[blk].result # NULL THEN ast[blk].result ELSE "program"
             x == MkSymbol(ast[blk].id, type, 0, ast[blk].id, 0, 0)
  <2>1. ast[blk].id \in Identifier /\ ast[blk].result \in BasicType \cup {NULL}
    BY <1>1, <1>5, BlockFacts DEF SubprogramHead
  <2>2. x \in Symbol /\ x.arg = 0
    BY <2>1 DEF MkSymbol, Symbol, SymbolType, Keyword
  <2>3. syms' = syms \o <<x>>
    BY <1>5 DEF SubprogramHead, add_symbol
  <2>4. QED
    BY <1>2, <2>2, <2>3
<1>6. CASE Parameter
  <2>1. ParameterEntries(decl, scope) \in Seq(Symbol)
    BY <1>6, AppendedTyped DEF Parameter, AtDeclaration
  <2>2. QED
    BY <1>6, <2>1 DEF Parameter, add_symbol
<1>7. CASE ConstDeclaration
  <2> DEFINE x == MkSymbol(decl.id, "const", 0, scope, 0, 0)
  <2>1. x \in Symbol /\ x.arg = 0
    BY <1>7, AppendedTyped DEF ConstDeclaration, AtDeclaration, MkSymbol
  <2>2. QED
    BY <1>2, <1>7, <2>1 DEF ConstDeclaration, add_symbol
<1>8. CASE VarDeclaration
  <2> DEFINE group == VarEntries(decl.ids, decl.type, scope)
  <2>1. group \in Seq(Symbol)
    BY <1>8, AppendedTyped DEF VarDeclaration, AtDeclaration
  <2>2. NoParameter(group)
    BY <2>1, LenProperties DEF NoParameter, VarEntries, MkSymbol
  <2>3. QED
    BY <1>8, <2>1, <2>2 DEF VarDeclaration, add_symbol
<1>9. CASE ArrayType
  <2> DEFINE own == MkSymbol(decl.id, "array", Len(decl.periods), scope, 0, 0)
             dims == DimensionEntries(decl)
  <2>1. dims \in Seq(Symbol) /\ own \in Symbol
    BY <1>9, AppendedTyped DEF ArrayType, AtDeclaration
  <2>2. <<own>> \in Seq(Symbol)
    BY <2>1, EntriesOfOne
  <2>3. \A k \in 1..Len(dims) : dims[k].arg = 0
    BY <2>1, LenProperties DEF DimensionEntries, MkSymbol
  <2>4. own.arg = 0 /\ Len(<<own>>) = 1 /\ <<own>>[1] = own
    BY DEF MkSymbol
  <2> HIDE DEF own, dims
  <2>5. /\ dims \o <<own>> \in Seq(Symbol)
        /\ Len(dims) \in Nat
        /\ Len(dims \o <<own>>) = Len(dims) + 1
        /\ \A k \in 1..Len(dims) + 1 :
              (dims \o <<own>>)[k] = IF k <= Len(dims) THEN dims[k] ELSE <<own>>[k - Len(dims)]
    BY <2>1, <2>2, <2>4, ConcatProperties, LenProperties
  <2>6. ASSUME NEW k \in 1..Len(dims) + 1 PROVE (dims \o <<own>>)[k].arg = 0
    <3>1. CASE k <= Len(dims)
      BY <2>3, <2>5, <3>1
    <3>2. CASE ~(k <= Len(dims))
      <4>1. k - Len(dims) = 1
        BY <2>5, <3>2
      <4>2. QED
        BY <2>4, <2>5, <3>2, <4>1
    <3>3. QED
      BY <3>1, <3>2
  <2>7. NoParameter(dims \o <<own>>)
    BY <2>5, <2>6 DEF NoParameter
  <2>8. syms' = syms \o (dims \o <<own>>)
    BY <1>9 DEF ArrayType, add_symbol, own, dims
  <2>9. QED
    BY <2>5, <2>7, <2>8
<1>10. CASE RecordMember
  <2> DEFINE group == VarEntries(decl.members[m].ids, decl.members[m].type, scope)
  <2>1. /\ decl.members \in Seq(Member) /\ Len(decl.members) \in Nat
        /\ m \in 1..Len(decl.members) /\ scope \in Identifier
    BY <1>10, RecordFacts DEF RecordMember
  <2>2. decl.members[m] \in Member
    BY <2>1, ElementOfSeq
  <2>3. /\ decl.members[m].ids \in Seq(Identifier)
        /\ decl.members[m].type \in BasicType \cup Identifier
    BY <2>2 DEF Member
  <2>4. group \in Seq(Symbol)
    BY <2>1, <2>3, VarEntriesFacts
  <2>5. NoParameter(group)
    BY <2>4, LenProperties DEF NoParameter, VarEntries, MkSymbol
  <2>6. QED
    BY <1>10, <2>4, <2>5 DEF RecordMember, add_symbol
<1>11. CASE RecordEnd
  <2> DEFINE x == MkSymbol(decl.id, "record", Len(decl.members), ast[1].id, 0, 0)
  <2>1. decl.id \in Identifier /\ Len(decl.members) \in Nat /\ pre_scope = ast[1].id
    BY <1>11, RecordFacts DEF RecordEnd
  <2>2. x \in Symbol /\ x.arg = 0
    BY <1>1, <2>1 DEF MkSymbol, Symbol, SymbolType, Keyword
  <2>3. QED
    BY <1>2, <1>11, <2>1, <2>2 DEF RecordEnd, add_symbol
<1>12. CASE RecordBegin \/ SkipLocalType \/ DeclarationsEnd \/ SubprogramEnd \/ ProgramEnd
            \/ UNCHANGED vars
  BY <1>3, <1>12 DEF RecordBegin, SkipLocalType, DeclarationsEnd, SubprogramEnd, ProgramEnd, vars
<1>13. QED
  BY <1>4, <1>5, <1>6, <1>7, <1>8, <1>9, <1>10, <1>11, <1>12 DEF Next

\* No step of the walk breaks its bookkeeping: each saved scope is restored where
\* the construct that saved it ends.
LEMMA WalkStep == WalkInv /\ [Next]_vars => WalkInv'
<1>1. SUFFICES ASSUME WalkInv, [Next]_vars PROVE WalkInv'
  OBVIOUS
<1>2. IsAst(ast) /\ ast[1].id \in Identifier /\ Len(ast) \in Nat \ {0} /\ syms \in Seq(Symbol)
  BY <1>1, ProgramsAssumption, BlockFacts DEF WalkInv, TypeOK
<1>3. syms' \in Seq(Symbol)
  <2>1. CASE Destroy
    BY <2>1 DEF Destroy
  <2>2. ASSUME NEW group \in Seq(Symbol), syms' = syms \o group
        PROVE  syms' \in Seq(Symbol)
    BY <1>2, <2>2, ConcatProperties
  <2>3. QED
    BY <1>1, <2>1, <2>2, AppendsOnly
<1>4. CASE ProgramHead
  <2>1. Len(ast[1].decls) \in Nat
    BY <1>2, BlockFacts
  <2>2. TypeOK'
    BY <1>1, <1>2, <1>3, <1>4 DEF ProgramHead, WalkInv, TypeOK
  <2>3. CursorOK'
    BY <1>1, <1>2, <1>4, <2>1 DEF ProgramHead, WalkInv, TypeOK, CursorOK
  <2>4. ScopeDiscipline' /\ FramesOK'
    BY <1>1, <1>4 DEF ProgramHead, WalkInv, ScopeDiscipline, FramesOK
  <2>5. QED
    BY <2>2, <2>3, <2>4 DEF WalkInv
<1>5. CASE SubprogramHead
  <2>1. ast[blk].id \in Identifier /\ Len(ast[blk].decls) \in Nat
    BY <1>2, <1>5, BlockFacts DEF SubprogramHead
  <2>2. TypeOK'
    BY <1>1, <1>2, <1>3, <1>5, <2>1 DEF SubprogramHead, WalkInv, TypeOK
  <2>3. CursorOK'
    BY <1>1, <1>2, <1>5, <2>1 DEF SubprogramHead, WalkInv, TypeOK, CursorOK
  <2>4. ScopeDiscipline' /\ FramesOK'
    BY <1>1, <1>2, <1>5 DEF SubprogramHead, WalkInv, ScopeDiscipline, FramesOK
  <2>5. QED
    BY <2>2, <2>3, <2>4 DEF WalkInv
<1>6. CASE \E kinds : AtDeclaration(kinds) /\ NextDeclaration /\ ast' = ast /\ UNCHANGED scopes
  <2>1. PICK kinds : AtDeclaration(kinds) /\ NextDeclaration /\ ast' = ast /\ UNCHANGED scopes
    BY <1>6
  <2>2. /\ blk \in 1..Len(ast) /\ i \in 1..Len(ast[blk].decls)
        /\ Len(ast[blk].decls) \in Nat
    BY <1>1, <2>1, AtDeclarationFacts
  <2>3. pc = "DECLARATION"
    BY <2>1 DEF AtDeclaration
  <2>4. TypeOK'
    BY <1>1, <1>3, <2>1 DEF NextDeclaration, scopes, WalkInv, TypeOK
  <2>5. CursorOK'
    BY <1>1, <2>1, <2>2, <2>3 DEF NextDeclaration, WalkInv, CursorOK
  <2>6. ScopeDiscipline' /\ FramesOK'
    BY <1>1, <2>1, <2>3 DEF NextDeclaration, scopes, WalkInv, ScopeDiscipline, FramesOK
  <2>7. QED
    BY <2>4, <2>5, <2>6 DEF WalkInv
<1>7. CASE Parameter \/ ConstDeclaration \/ VarDeclaration \/ ArrayType \/ SkipLocalType
  BY <1>6, <1>7 DEF Parameter, ConstDeclaration, VarDeclaration, ArrayType, SkipLocalType
<1>8. CASE RecordBegin
  <2>1. /\ AtDeclaration({"RECORD"}) /\ decl.kind = "RECORD" /\ pc = "DECLARATION"
        /\ blk = 1
    BY <1>8 DEF RecordBegin, AtDeclaration
  <2>2. /\ i \in 1..Len(ast[blk].decls) /\ Len(ast[blk].decls) \in Nat
        /\ decl \in Declaration /\ DeclShape(decl)
        /\ scope = ast[blk].id
    BY <1>1, <2>1, AtDeclarationFacts
  <2>3. decl.id \in Identifier /\ Len(decl.members) \in Nat
    BY <2>1, <2>2, LenProperties DEF Declaration, DeclShape
  <2>4. decl' = decl
    BY <1>8 DEF RecordBegin, decl
  <2>5. TypeOK'
    BY <1>1, <1>2, <1>8, <2>3 DEF RecordBegin, WalkInv, TypeOK
  <2>6. CursorOK'
    BY <1>1, <1>2, <1>8, <2>1, <2>2, <2>3, <2>4 DEF RecordBegin, WalkInv, CursorOK
  <2>7. ScopeDiscipline'
    BY <1>8, <2>4 DEF RecordBegin, ScopeDiscipline
  <2>8. FramesOK'
    BY <1>1, <1>8, <2>1, <2>2 DEF RecordBegin, WalkInv, FramesOK
  <2>9. QED
    BY <2>5, <2>6, <2>7, <2>8 DEF WalkInv
<1>9. CASE RecordMember
  <2>1. pc = "RECORD" /\ pc' = "RECORD" /\ decl' = decl
    BY <1>9 DEF RecordMember, decl
  <2>2. /\ decl.members \in Seq(Member) /\ Len(decl.members) \in Nat
        /\ m \in 1..Len(decl.members) /\ scope \in Identifier
    BY <1>1, <1>9, <2>1, RecordFacts DEF RecordMember
  <2>3. TypeOK'
    BY <1>1, <1>3, <1>9 DEF RecordMember, scopes, WalkInv, TypeOK
  <2>4. CursorOK'
    BY <1>1, <1>9, <2>1, <2>2 DEF RecordMember, WalkInv, CursorOK
  <2>5. ScopeDiscipline' /\ FramesOK'
    BY <1>1, <1>9, <2>1 DEF RecordMember, scopes, WalkInv, ScopeDiscipline, FramesOK
  <2>6. QED
    BY <2>3, <2>4, <2>5 DEF WalkInv
<1>10. CASE RecordEnd
  <2>1. pc = "RECORD"
    BY <1>10 DEF RecordEnd
  <2>2. /\ blk = 1 /\ i \in 1..Len(ast[blk].decls) /\ Len(ast[blk].decls) \in Nat
        /\ decl.id \in Identifier /\ Len(decl.members) \in Nat
        /\ pre_scope = ast[1].id
    BY <1>1, <2>1, RecordFacts
  <2>3. TypeOK'
    BY <1>1, <1>2, <1>3, <1>10, <2>2 DEF RecordEnd, WalkInv, TypeOK
  <2>4. CursorOK'
    BY <1>1, <1>2, <1>10, <2>2 DEF RecordEnd, WalkInv, CursorOK
  <2>5. ScopeDiscipline' /\ FramesOK'
    BY <1>1, <1>10, <2>1, <2>2 DEF RecordEnd, WalkInv, ScopeDiscipline, FramesOK
  <2>6. QED
    BY <2>3, <2>4, <2>5 DEF WalkInv
<1>11. CASE DeclarationsEnd
  <2>1. TypeOK'
    BY <1>1, <1>11 DEF DeclarationsEnd, scopes, WalkInv, TypeOK
  <2>2. CursorOK'
    BY <1>1, <1>2, <1>11 DEF DeclarationsEnd, WalkInv, CursorOK
  <2>3. ScopeDiscipline' /\ FramesOK'
    BY <1>1, <1>11 DEF DeclarationsEnd, scopes, WalkInv, ScopeDiscipline, FramesOK
  <2>4. QED
    BY <2>1, <2>2, <2>3 DEF WalkInv
<1>12. CASE SubprogramEnd
  <2>1. temp_sub_program_name = ast[1].id /\ blk \in 1..Len(ast) /\ blk > 1
    BY <1>1, <1>2, <1>12 DEF SubprogramEnd, WalkInv, FramesOK, CursorOK
  <2>2. TypeOK'
    BY <1>1, <1>2, <1>12, <2>1 DEF SubprogramEnd, WalkInv, TypeOK
  <2>3. CursorOK'
    BY <1>1, <1>2, <1>12, <2>1 DEF SubprogramEnd, WalkInv, CursorOK
  <2>4. ScopeDiscipline' /\ FramesOK'
    BY <1>1, <1>2, <1>12, <2>1 DEF SubprogramEnd, WalkInv, ScopeDiscipline, FramesOK
  <2>5. QED
    BY <2>2, <2>3, <2>4 DEF WalkInv
<1>13. CASE ProgramEnd
  <2>1. blk = Len(ast) + 1 /\ blk > 1 /\ temp_scope = "null"
    BY <1>1, <1>2, <1>13 DEF ProgramEnd, WalkInv, CursorOK, FramesOK
  <2>2. TypeOK'
    BY <1>1, <1>13, <2>1, IdentifierAssumption DEF ProgramEnd, WalkInv, TypeOK
  <2>3. CursorOK'
    BY <1>1, <1>2, <1>13, <2>1 DEF ProgramEnd, WalkInv, CursorOK
  <2>4. ScopeDiscipline' /\ FramesOK'
    BY <1>1, <1>13, <2>1 DEF ProgramEnd, WalkInv, ScopeDiscipline, FramesOK
  <2>5. QED
    BY <2>2, <2>3, <2>4 DEF WalkInv
<1>14. CASE Destroy
  <2>1. TypeOK'
    BY <1>1, <1>14, EmptySeq DEF Destroy, scopes, WalkInv, TypeOK
  <2>2. CursorOK' /\ ScopeDiscipline' /\ FramesOK'
    BY <1>1, <1>14 DEF Destroy, scopes, WalkInv, CursorOK, ScopeDiscipline, FramesOK
  <2>3. QED
    BY <2>1, <2>2 DEF WalkInv
<1>15. CASE UNCHANGED vars
  BY <1>1, <1>15 DEF vars, cursor, scopes, WalkInv, TypeOK, CursorOK, ScopeDiscipline,
                     FramesOK, decl
<1>16. QED
  BY <1>1, <1>4, <1>5, <1>7, <1>8, <1>9, <1>10, <1>11, <1>12, <1>13, <1>14, <1>15
     DEF Next

\* Spec keeps every variable in its type, and in particular the current scope is
\* always a name.
THEOREM TypeCorrect == Spec => []TypeOK
<1>1. Spec => []WalkInv
  BY WalkInit, WalkStep, PTL DEF Spec
<1>2. WalkInv => TypeOK
  BY DEF WalkInv
<1>3. QED
  BY <1>1, <1>2, PTL

\* Every name is entered under the scope of the innermost construct around it.
THEOREM ScopeCorrect == Spec => []ScopeDiscipline
<1>1. Spec => []WalkInv
  BY WalkInit, WalkStep, PTL DEF Spec
<1>2. WalkInv => ScopeDiscipline
  BY DEF WalkInv
<1>3. QED
  BY <1>1, <1>2, PTL

-----------------------------------------------------------------------------
(* The symbols of a part of the program *)

\* One more declaration walked over adds its symbols, if the walk visits it.
LEMMA VisitedStep ==
    ASSUME NEW a, NEW b, NEW n \in Nat
    PROVE  /\ VisitedSymbols(a, b, 0) = {}
           /\ VisitedSymbols(a, b, n + 1) =
                 VisitedSymbols(a, b, n)
                 \cup (IF Visited(b, a[b].decls[n + 1])
                       THEN DeclSymbols(a[b].decls[n + 1], a[b].id) ELSE {})
<1>1. 1..0 = {}
  OBVIOUS
<1>2. VisitedSymbols(a, b, 0) = {}
  BY <1>1 DEF VisitedSymbols
<1> DEFINE S(j) == DeclSymbols(a[b].decls[j], a[b].id)
           V(j) == Visited(b, a[b].decls[j])
<1> HIDE DEF S, V
<1>3. 1..n + 1 = 1..n \cup {n + 1}
  OBVIOUS
<1>4. UNION {S(j) : j \in {k \in 1..n + 1 : V(k)}} =
         (UNION {S(j) : j \in {k \in 1..n : V(k)}}) \cup (IF V(n + 1) THEN S(n + 1) ELSE {})
  BY <1>3
<1>5. QED
  BY <1>2, <1>4 DEF S, V, VisitedSymbols

\* A finished block passes all of its symbols.
LEMMA BlockPassed ==
    ASSUME NEW a, NEW n \in Nat
    PROVE  UNION {BlockSymbols(a, b) : b \in 1..n + 1} =
              (UNION {BlockSymbols(a, b) : b \in 1..n}) \cup BlockSymbols(a, n + 1)
<1> DEFINE B(b) == BlockSymbols(a, b)
<1> HIDE DEF B
<1>1. 1..n + 1 = 1..n \cup {n + 1}
  OBVIOUS
<1>2. UNION {B(b) : b \in 1..n + 1} = (UNION {B(b) : b \in 1..n}) \cup B(n + 1)
  BY <1>1
<1>3. QED
  BY <1>2 DEF B

\* One more VAR_DECLARATION of a record.
LEMMA MembersPassed ==
    ASSUME NEW d, NEW n \in Nat
    PROVE  /\ UNION {MemberSymbols(d, k) : k \in 1..0} = {}
           /\ UNION {MemberSymbols(d, k) : k \in 1..n + 1} =
                 (UNION {MemberSymbols(d, k) : k \in 1..n}) \cup MemberSymbols(d, n + 1)
<1> DEFINE M(k) == MemberSymbols(d, k)
<1> HIDE DEF M
<1>1. 1..0 = {} /\ 1..n + 1 = 1..n \cup {n + 1}
  OBVIOUS
<1>2. UNION {M(k) : k \in 1..0} = {}
  BY <1>1
<1>3. UNION {M(k) : k \in 1..n + 1} = (UNION {M(k) : k \in 1..n}) \cup M(n + 1)
  BY <1>1
<1>4. QED
  BY <1>2, <1>3 DEF M

\* Walking over a declaration passes exactly the symbols of that declaration.
LEMMA DeclarationPassed ==
    ASSUME WalkInv, NEW kinds, AtDeclaration(kinds), NextDeclaration, ast' = ast
    PROVE  Passed' = Passed \cup (IF Visited(blk, decl) THEN DeclSymbols(decl, scope) ELSE {})
<1>1. /\ i \in Nat \ {0} /\ pc = "DECLARATION" /\ scope = ast[blk].id
  BY AtDeclarationFacts DEF AtDeclaration, WalkInv, TypeOK
<1>2. i - 1 \in Nat /\ (i - 1) + 1 = i /\ (i + 1) - 1 = i
  BY <1>1
<1>3. VisitedSymbols(ast, blk, i) =
         VisitedSymbols(ast, blk, i - 1)
         \cup (IF Visited(blk, decl) THEN DeclSymbols(decl, scope) ELSE {})
  <2>1. VisitedSymbols(ast, blk, (i - 1) + 1) =
           VisitedSymbols(ast, blk, i - 1)
           \cup (IF Visited(blk, ast[blk].decls[(i - 1) + 1])
                 THEN DeclSymbols(ast[blk].decls[(i - 1) + 1], ast[blk].id) ELSE {})
    BY <1>2, VisitedStep
  <2>2. QED
    BY <1>1, <1>2, <2>1 DEF decl
<1> DEFINE before == UNION {BlockSymbols(ast, b) : b \in 1..(blk - 1)}
<1>4. Passed = before \cup {HeadSymbol(ast, blk)} \cup VisitedSymbols(ast, blk, i - 1)
  BY <1>1 DEF Passed
<1>5. pc' = "DECLARATION" /\ blk' = blk /\ i' = i + 1
  BY <1>1 DEF NextDeclaration
<1>6. Passed' = before \cup {HeadSymbol(ast, blk)} \cup VisitedSymbols(ast, blk, i)
  BY <1>2, <1>5 DEF Passed
<1>7. QED
  BY <1>3, <1>4, <1>6

-----------------------------------------------------------------------------
(* The table *)

LEMMA ExactInit == Init => TableExact
<1>1. SUFFICES ASSUME Init PROVE TableExact
  OBVIOUS
<1>2. Entries(<<>>) = {}
  BY DEF Entries
<1>3. 1..(1 - 1) = {}
  OBVIOUS
<1>4. QED
  BY <1>1, <1>2, <1>3 DEF Init, TableExact, Passed

\* The step of every action that appends `group` and so walks over `more`.
LEMMA AppendExact ==
    ASSUME TableExact, pc # "DESTROYED", syms \in Seq(Symbol), NEW group \in Seq(Symbol),
           syms' = syms \o group, Passed' = Passed \cup Entries(group)
    PROVE  TableExact'
<1>1. Entries(syms) = Passed
  BY DEF TableExact
<1>2. Entries(syms') = Entries(syms) \cup Entries(group)
  BY EntriesOfConcat
<1>3. QED
  BY <1>1, <1>2 DEF TableExact

\* Each step of the walk appends to the table exactly what it walks over.
LEMMA ExactStep == WalkInv /\ TableExact /\ [Next]_vars => TableExact'
<1>1. SUFFICES ASSUME WalkInv, TableExact, [Next]_vars PROVE TableExact'
  OBVIOUS
<1>2. IsAst(ast) /\ ast[1].id \in Identifier /\ Len(ast) \in Nat \ {0} /\ syms \in Seq(Symbol)
  BY <1>1, ProgramsAssumption, BlockFacts DEF WalkInv, TypeOK
<1> DEFINE before(n) == UNION {BlockSymbols(ast, b) : b \in 1..n}
<1>3. CASE ProgramHead
  <2>1. HeadSymbol(ast, 1) = MkSymbol(ast[1].id, "program", 0, "null", 0, 0)
    BY DEF HeadSymbol
  <2>2. HeadSymbol(ast, 1) \in Symbol
    BY <1>2, <2>1, IdentifierAssumption DEF MkSymbol, Symbol, SymbolType, Keyword
  <2>3. i = 1 /\ blk = 1 /\ pc = "HEAD" /\ ast' = ast /\ blk' = 1 /\ i' = 1 /\ pc' = "DECLARATION"
    BY <1>1, <1>3 DEF ProgramHead, WalkInv, CursorOK
  <2>4. Passed = before(1 - 1)
    BY <2>3 DEF Passed
  <2>5. Passed' = before(1 - 1) \cup {HeadSymbol(ast, 1)}
    BY <2>3, VisitedStep DEF Passed
  <2>6. syms' = syms \o <<HeadSymbol(ast, 1)>>
    BY <1>3, <2>1 DEF ProgramHead, add_symbol
  <2>7. QED
    BY <1>1, <1>2, <2>2, <2>3, <2>4, <2>5, <2>6, EntriesOfOne, AppendExact
<1>4. CASE SubprogramHead
  <2>1. blk \in 2..Len(ast) /\ i = 1 /\ pc = "HEAD"
        /\ ast' = ast /\ blk' = blk /\ i' = 1 /\ pc' = "DECLARATION"
    BY <1>1, <1>4 DEF SubprogramHead, WalkInv, CursorOK
  <2>2. ast[blk].id \in Identifier /\ ast[blk].result \in BasicType \cup {NULL}
    BY <1>2, <2>1, BlockFacts
  <2>3. HeadSymbol(ast, blk) =
           MkSymbol(ast[blk].id, IF ast[blk].result = NULL THEN "program" ELSE ast[blk].result,
                    0, ast[blk].id, 0, 0)
    BY <1>2, <2>1 DEF HeadSymbol
  <2>4. HeadSymbol(ast, blk) \in Symbol
    BY <2>2, <2>3 DEF MkSymbol, Symbol, SymbolType, Keyword
  <2>5. Passed = before(blk - 1)
    BY <2>1 DEF Passed
  <2>6. Passed' = before(blk - 1) \cup {HeadSymbol(ast, blk)}
    BY <2>1, VisitedStep DEF Passed
  <2>7. syms' = syms \o <<HeadSymbol(ast, blk)>>
    <3>1. (IF ast[blk].result # NULL THEN ast[blk].result ELSE "program")
             = (IF ast[blk].result = NULL THEN "program" ELSE ast[blk].result)
      OBVIOUS
    <3>2. QED
      BY <1>4, <2>3, <3>1 DEF SubprogramHead, add_symbol
  <2>8. QED
    BY <1>1, <1>2, <2>1, <2>4, <2>5, <2>6, <2>7, EntriesOfOne, AppendExact
<1>5. CASE Parameter
  <2> DEFINE kinds == {"VAR_PARAMETER", "VALUE_PARAMETER"}
  <2>1. AtDeclaration(kinds) /\ NextDeclaration /\ ast' = ast /\ pc = "DECLARATION"
    BY <1>5 DEF Parameter, AtDeclaration
  <2>2. decl \in Declaration /\ DeclShape(decl) /\ decl.kind \in kinds /\ scope \in Identifier
    BY <1>1, <2>1, AtDeclarationFacts
  <2>3. decl.type \in BasicType
    BY <2>2 DEF DeclShape
  <2>4. /\ ParameterEntries(decl, scope) \in Seq(Symbol)
        /\ Entries(ParameterEntries(decl, scope)) = DeclSymbols(decl, scope)
    BY <2>2, <2>3, ParameterEntriesFacts DEF DeclSymbols
  <2>5. Passed' = Passed \cup Entries(ParameterEntries(decl, scope))
    BY <1>1, <2>1, <2>2, <2>4, DeclarationPassed DEF Visited
  <2>6. QED
    BY <1>1, <1>2, <1>5, <2>1, <2>4, <2>5, AppendExact DEF Parameter, add_symbol
<1>6. CASE ConstDeclaration
  <2> DEFINE new == MkSymbol(decl.id, "const", 0, scope, 0, 0)
  <2>1. /\ AtDeclaration({"CONST_DECLARATION"}) /\ NextDeclaration /\ ast' = ast
        /\ pc = "DECLARATION" /\ decl.kind = "CONST_DECLARATION"
    BY <1>6 DEF ConstDeclaration, AtDeclaration
  <2>2. new \in Symbol
    BY <1>1, <2>1, AppendedTyped
  <2>3. DeclSymbols(decl, scope) = {new}
    BY <2>1 DEF DeclSymbols
  <2>4. <<new>> \in Seq(Symbol) /\ Entries(<<new>>) = {new}
    BY <2>2, EntriesOfOne
  <2>5. Passed' = Passed \cup Entries(<<new>>)
    BY <1>1, <2>1, <2>3, <2>4, DeclarationPassed DEF Visited
  <2>6. QED
    BY <1>1, <1>2, <1>6, <2>1, <2>4, <2>5, AppendExact DEF ConstDeclaration, add_symbol
<1>7. CASE VarDeclaration
  <2> DEFINE group == VarEntries(decl.ids, decl.type, scope)
  <2>1. /\ AtDeclaration({"VAR_DECLARATION"}) /\ NextDeclaration /\ ast' = ast
        /\ pc = "DECLARATION" /\ decl.kind = "VAR_DECLARATION"
    BY <1>7 DEF VarDeclaration, AtDeclaration
  <2>2. decl \in Declaration /\ DeclShape(decl) /\ scope \in Identifier
    BY <1>1, <2>1, AtDeclarationFacts
  <2>3. decl.ids \in Seq(Identifier) /\ decl.type \in BasicType \cup Identifier
    BY <2>1, <2>2 DEF Declaration, DeclShape
  <2>4. group \in Seq(Symbol) /\ Entries(group) = DeclSymbols(decl, scope)
    BY <2>1, <2>2, <2>3, VarEntriesFacts DEF DeclSymbols
  <2>5. Passed' = Passed \cup Entries(group)
    BY <1>1, <2>1, <2>4, DeclarationPassed DEF Visited
  <2>6. QED
    BY <1>1, <1>2, <1>7, <2>1, <2>4, <2>5, AppendExact DEF VarDeclaration, add_symbol
<1>8. CASE ArrayType
  <2> DEFINE own == MkSymbol(decl.id, "array", Len(decl.periods), scope, 0, 0)
             group == DimensionEntries(decl) \o <<own>>
  <2>1. /\ AtDeclaration({"ARRAY"}) /\ NextDeclaration /\ ast' = ast
        /\ pc = "DECLARATION" /\ blk = 1 /\ decl.kind = "ARRAY"
    BY <1>8 DEF ArrayType, AtDeclaration
  <2>2. decl \in Declaration /\ DeclShape(decl)
    BY <1>1, <2>1, AtDeclarationFacts
  <2>3. DimensionEntries(decl) \in Seq(Symbol) /\ own \in Symbol
    BY <1>1, <2>1, AppendedTyped
  <2>4. <<own>> \in Seq(Symbol) /\ Entries(<<own>>) = {own}
    BY <2>3, EntriesOfOne
  <2>5. group \in Seq(Symbol) /\ Entries(group) = Entries(DimensionEntries(decl)) \cup {own}
    BY <2>3, <2>4, EntriesOfConcat, ConcatProperties
  <2>6. DeclSymbols(decl, scope) = Entries(DimensionEntries(decl)) \cup {own}
    BY <2>1, <2>2, DimensionEntriesFacts DEF DeclSymbols
  <2>7. Passed' = Passed \cup Entries(group)
    BY <1>1, <2>1, <2>5, <2>6, DeclarationPassed DEF Visited
  <2>8. QED
    BY <1>1, <1>2, <1>8, <2>1, <2>5, <2>7, AppendExact DEF ArrayType, add_symbol
<1>9. CASE SkipLocalType
  <2> DEFINE kinds == {"ARRAY", "RECORD"}
  <2>1. /\ AtDeclaration(kinds) /\ NextDeclaration /\ ast' = ast
        /\ blk > 1 /\ decl.kind \in kinds /\ syms' = syms
    BY <1>9 DEF SkipLocalType, AtDeclaration
  <2>2. blk # 1
    BY <1>1, <2>1 DEF WalkInv, TypeOK
  <2>3. Passed' = Passed
    BY <1>1, <2>1, <2>2, DeclarationPassed DEF Visited
  <2>4. QED
    BY <1>1, <2>1, <2>3 DEF TableExact, AtDeclaration
<1>10. CASE RecordBegin
  <2>1. /\ pc = "DECLARATION" /\ pc' = "RECORD" /\ m' = 1
        /\ ast' = ast /\ blk' = blk /\ i' = i /\ syms' = syms /\ decl' = decl
    BY <1>10 DEF RecordBegin, AtDeclaration, decl
  <2>2. UNION {MemberSymbols(decl, k) : k \in 1..(1 - 1)} = {}
    BY MembersPassed
  <2>3. Passed' = Passed
    BY <2>1, <2>2 DEF Passed
  <2>4. QED
    BY <1>1, <2>1, <2>3 DEF TableExact
<1>11. CASE RecordMember
  <2> DEFINE group == VarEntries(decl.members[m].ids, decl.members[m].type, scope)
  <2>1. /\ pc = "RECORD" /\ pc' = "RECORD" /\ m' = m + 1
        /\ ast' = ast /\ blk' = blk /\ i' = i /\ decl' = decl
    BY <1>11 DEF RecordMember, decl
  <2>2. /\ decl.members \in Seq(Member) /\ Len(decl.members) \in Nat
        /\ m \in 1..Len(decl.members) /\ scope = decl.id /\ scope \in Identifier
    BY <1>1, <1>11, <2>1, RecordFacts DEF RecordMember
  <2>3. decl.members[m] \in Member
    BY <2>2, ElementOfSeq
  <2>4. /\ decl.members[m].ids \in Seq(Identifier)
        /\ decl.members[m].type \in BasicType \cup Identifier
    BY <2>3 DEF Member
  <2>5. group \in Seq(Symbol) /\ Entries(group) = MemberSymbols(decl, m)
    BY <2>2, <2>4, VarEntriesFacts DEF MemberSymbols
  <2>6. m - 1 \in Nat /\ (m - 1) + 1 = m /\ (m + 1) - 1 = m
    BY <2>2
  <2>7. UNION {MemberSymbols(decl, k) : k \in 1..m} =
           (UNION {MemberSymbols(decl, k) : k \in 1..(m - 1)}) \cup MemberSymbols(decl, m)
    <3>1. UNION {MemberSymbols(decl, k) : k \in 1..(m - 1) + 1} =
             (UNION {MemberSymbols(decl, k) : k \in 1..(m - 1)})
             \cup MemberSymbols(decl, (m - 1) + 1)
      BY <2>6, MembersPassed
    <3>2. QED
      BY <2>6, <3>1
  <2> DEFINE others == before(blk - 1) \cup {HeadSymbol(ast, blk)} \cup VisitedSymbols(ast, blk, i - 1)
  <2>8. Passed = others \cup (UNION {MemberSymbols(decl, k) : k \in 1..(m - 1)})
    BY <2>1 DEF Passed
  <2>9. Passed' = others \cup (UNION {MemberSymbols(decl, k) : k \in 1..m})
    BY <2>1, <2>6 DEF Passed
  <2>10. Passed' = Passed \cup Entries(group)
    BY <2>5, <2>7, <2>8, <2>9
  <2>11. QED
    BY <1>1, <1>2, <1>11, <2>1, <2>5, <2>10, AppendExact DEF RecordMember, add_symbol
<1>12. CASE RecordEnd
  <2> DEFINE own == MkSymbol(decl.id, "record", Len(decl.members), ast[1].id, 0, 0)
             members == UNION {MemberSymbols(decl, k) : k \in 1..Len(decl.members)}
             others == before(blk - 1) \cup {HeadSymbol(ast, blk)}
  <2>1. /\ pc = "RECORD" /\ pc' = "DECLARATION" /\ i' = i + 1 /\ m > Len(decl.members)
        /\ ast' = ast /\ blk' = blk
    BY <1>12 DEF RecordEnd
  <2>2. /\ blk = 1 /\ i \in 1..Len(ast[blk].decls) /\ Len(ast[blk].decls) \in Nat
        /\ decl.kind = "RECORD" /\ decl.id \in Identifier
        /\ Len(decl.members) \in Nat /\ m \in 1..Len(decl.members) + 1
        /\ pre_scope = ast[1].id
    BY <1>1, <2>1, RecordFacts
  <2>3. m - 1 = Len(decl.members) /\ i - 1 \in Nat /\ (i - 1) + 1 = i /\ (i + 1) - 1 = i
    BY <2>1, <2>2
  <2>4. own \in Symbol
    BY <1>2, <2>2 DEF MkSymbol, Symbol, SymbolType, Keyword
  <2>5. <<own>> \in Seq(Symbol) /\ Entries(<<own>>) = {own}
    BY <2>4, EntriesOfOne
  <2>6. DeclSymbols(decl, ast[1].id) = members \cup {own}
    BY <2>2 DEF DeclSymbols
  <2>7. VisitedSymbols(ast, blk, i) = VisitedSymbols(ast, blk, i - 1) \cup members \cup {own}
    <3>1. VisitedSymbols(ast, blk, (i - 1) + 1) =
             VisitedSymbols(ast, blk, i - 1)
             \cup (IF Visited(blk, ast[blk].decls[(i - 1) + 1])
                   THEN DeclSymbols(ast[blk].decls[(i - 1) + 1], ast[blk].id) ELSE {})
      BY <2>3, VisitedStep
    <3>2. Visited(blk, decl)
      BY <2>2 DEF Visited
    <3>3. QED
      BY <2>2, <2>3, <2>6, <3>1, <3>2 DEF decl
  <2>8. Passed = others \cup VisitedSymbols(ast, blk, i - 1) \cup members
    BY <2>1, <2>3 DEF Passed
  <2>9. Passed' = others \cup VisitedSymbols(ast, blk, i)
    BY <2>1, <2>3 DEF Passed
  <2>10. Passed' = Passed \cup Entries(<<own>>)
    BY <2>5, <2>7, <2>8, <2>9
  <2>11. syms' = syms \o <<own>>
    BY <1>12, <2>2 DEF RecordEnd, add_symbol
  <2>12. QED
    BY <1>1, <1>2, <2>1, <2>5, <2>10, <2>11, AppendExact
<1>13. ASSUME pc = "DECLARATION", pc' = "HEAD", blk \in 1..Len(ast),
              i = Len(ast[blk].decls) + 1, blk' = blk + 1, ast' = ast, syms' = syms
       PROVE  TableExact'
  <2>1. Len(ast[blk].decls) \in Nat
    BY <1>2, <1>13, BlockFacts
  <2>2. i - 1 = Len(ast[blk].decls) /\ blk - 1 \in Nat /\ (blk - 1) + 1 = blk /\ (blk + 1) - 1 = blk
    BY <1>2, <1>13, <2>1
  <2>3. BlockSymbols(ast, blk) = {HeadSymbol(ast, blk)} \cup VisitedSymbols(ast, blk, i - 1)
    BY <2>2 DEF BlockSymbols
  <2>4. before(blk) = before(blk - 1) \cup BlockSymbols(ast, blk)
    <3>1. before((blk - 1) + 1) = before(blk - 1) \cup BlockSymbols(ast, (blk - 1) + 1)
      BY <2>2, BlockPassed
    <3>2. QED
      BY <2>2, <3>1
  <2>5. Passed = before(blk - 1) \cup {HeadSymbol(ast, blk)} \cup VisitedSymbols(ast, blk, i - 1)
    BY <1>13 DEF Passed
  <2>6. Passed' = before(blk)
    BY <1>13, <2>2 DEF Passed
  <2>7. QED
    BY <1>1, <1>13, <2>3, <2>4, <2>5, <2>6 DEF TableExact
<1>14. CASE DeclarationsEnd
  <2>1. Len(ast[1].decls) \in Nat /\ i = Len(ast[1].decls) + 1
    BY <1>1, <1>2, <1>14, BlockFacts DEF DeclarationsEnd, WalkInv, TypeOK, CursorOK
  <2>2. QED
    BY <1>2, <1>13, <1>14, <2>1 DEF DeclarationsEnd
<1>15. CASE SubprogramEnd
  <2>1. blk \in 1..Len(ast)
    BY <1>1, <1>2, <1>15 DEF SubprogramEnd, WalkInv, TypeOK, CursorOK
  <2>2. Len(ast[blk].decls) \in Nat
    BY <1>2, <2>1, BlockFacts
  <2>3. i = Len(ast[blk].decls) + 1
    BY <1>1, <1>15, <2>2 DEF SubprogramEnd, WalkInv, TypeOK, CursorOK
  <2>4. QED
    BY <1>13, <1>15, <2>1, <2>3 DEF SubprogramEnd
<1>16. CASE ProgramEnd
  <2>1. Passed' = Passed
    BY <1>16 DEF ProgramEnd, Passed
  <2>2. QED
    BY <1>1, <1>16, <2>1 DEF ProgramEnd, TableExact
<1>17. CASE Destroy
  BY <1>17 DEF Destroy, TableExact
<1>18. CASE UNCHANGED vars
  BY <1>1, <1>18 DEF vars, cursor, TableExact, Passed, decl
<1>19. QED
  BY <1>1, <1>3, <1>4, <1>5, <1>6, <1>7, <1>8, <1>9, <1>10, <1>11, <1>12, <1>14, <1>15,
     <1>16, <1>17, <1>18 DEF Next

-----------------------------------------------------------------------------
(* What follows *)

\* The symbols of the part walked over are symbols of the program.
LEMMA PassedDeclared == WalkInv => Passed \subseteq Declared(ast)
<1>1. SUFFICES ASSUME WalkInv, NEW x \in Passed PROVE x \in Declared(ast)
  BY DEF Passed
<1>2. IsAst(ast) /\ Len(ast) \in Nat \ {0}
  BY <1>1, ProgramsAssumption, BlockFacts DEF WalkInv, TypeOK
<1>3. blk \in 1..Len(ast) + 1
  BY <1>1 DEF WalkInv, CursorOK
<1>4. ASSUME NEW b \in 1..Len(ast), x \in BlockSymbols(ast, b)
      PROVE  x \in Declared(ast)
  BY <1>4 DEF Declared
<1>5. CASE \E b \in 1..(blk - 1) : x \in BlockSymbols(ast, b)
  <2>1. 1..(blk - 1) \subseteq 1..Len(ast)
    BY <1>2, <1>3
  <2>2. QED
    BY <1>4, <1>5, <2>1
<1>6. CASE pc \in {"DECLARATION", "RECORD"} /\
           x \in {HeadSymbol(ast, blk)} \cup VisitedSymbols(ast, blk, i - 1)
  <2>1. blk \in 1..Len(ast) /\ i \in Nat \ {0} /\ i <= Len(ast[blk].decls) + 1
    BY <1>1, <1>3, <1>6 DEF WalkInv, TypeOK, CursorOK
  <2>2. Len(ast[blk].decls) \in Nat
    BY <1>2, <2>1, BlockFacts
  <2>3. 1..(i - 1) \subseteq 1..Len(ast[blk].decls)
    BY <2>1, <2>2
  <2>4. VisitedSymbols(ast, blk, i - 1) \subseteq VisitedSymbols(ast, blk, Len(ast[blk].decls))
    BY <2>3 DEF VisitedSymbols
  <2>5. x \in BlockSymbols(ast, blk)
    BY <1>6, <2>4 DEF BlockSymbols
  <2>6. QED
    BY <1>4, <2>1, <2>5
<1>7. CASE pc = "RECORD" /\ \E k \in 1..(m - 1) : x \in MemberSymbols(decl, k)
  <2>1. /\ blk = 1 /\ blk \in 1..Len(ast) /\ i \in 1..Len(ast[blk].decls)
        /\ decl.kind = "RECORD" /\ Len(decl.members) \in Nat
        /\ m \in 1..Len(decl.members) + 1
    BY <1>1, <1>7, RecordFacts
  <2>2. 1..(m - 1) \subseteq 1..Len(decl.members)
    BY <2>1
  <2>3. x \in DeclSymbols(decl, ast[blk].id)
    <3>1. \E k \in 1..Len(decl.members) : x \in MemberSymbols(decl, k)
      BY <1>7, <2>2
    <3>2. x \in UNION {MemberSymbols(decl, k) : k \in 1..Len(decl.members)}
      BY <3>1
    <3>3. QED
      BY <2>1, <3>2 DEF DeclSymbols
  <2>4. Visited(blk, ast[blk].decls[i])
    BY <2>1 DEF Visited
  <2>5. x \in VisitedSymbols(ast, blk, Len(ast[blk].decls))
    BY <2>1, <2>3, <2>4 DEF VisitedSymbols, decl
  <2>6. QED
    BY <1>4, <2>1, <2>5 DEF BlockSymbols
<1>8. QED
  BY <1>5, <1>6, <1>7 DEF Passed

\* When the walk is over it has passed the whole program.
LEMMA PassedAll ==
    ASSUME WalkInv, blk = Len(ast) + 1, pc \notin {"DECLARATION", "RECORD"}
    PROVE  Passed = Declared(ast)
<1>1. Len(ast) \in Nat
  BY ProgramsAssumption, BlockFacts DEF WalkInv, TypeOK
<1>2. blk - 1 = Len(ast)
  BY <1>1
<1>3. QED
  BY <1>2 DEF Passed, Declared

LEMMA Invariant == Spec => [](WalkInv /\ TableExact)
<1>1. Init => WalkInv /\ TableExact
  BY WalkInit, ExactInit
<1>2. (WalkInv /\ TableExact) /\ [Next]_vars => (WalkInv /\ TableExact)'
  BY WalkStep, ExactStep
<1>3. QED
  BY <1>1, <1>2, PTL DEF Spec

\* At every moment the list holds the symbols of the declarations walked over, all
\* of them and no others.
THEOREM TableCorrect == Spec => []TableExact
BY Invariant, PTL

\* When code generation starts, get_symbol finds a declaration of the name asked
\* for in the scope asked for if the program has one, and NULL otherwise.
THEOREM LookupCorrect == Spec => []LookupExact
<1>1. WalkInv /\ TableExact => LookupExact
  <2>1. SUFFICES ASSUME WalkInv, TableExact, pc = "DONE", NEW n \in Identifier, NEW s \in Identifier
                 PROVE  LET found == get_symbol(syms, n, s)
                            meant == {d \in Declared(ast) : d.name = n /\ d.scope = s}
                        IN  IF meant = {} THEN found = NULL ELSE found \in meant
    BY DEF LookupExact
  <2>2. blk = Len(ast) + 1 /\ syms \in Seq(Symbol)
    BY <2>1 DEF WalkInv, TypeOK, CursorOK
  <2>3. Entries(syms) = Declared(ast)
    BY <2>1, <2>2, PassedAll DEF TableExact
  <2>4. QED
    BY <2>2, <2>3, GetSymbolFinds
<1>2. QED
  BY <1>1, Invariant, PTL

\* No answer of get_symbol is changed by what is declared later.
THEOREM AnswersStable == Spec => StableLookup
<1> DEFINE A == \A n, s \in Identifier :
                   get_symbol(syms, n, s) # NULL =>
                      \/ get_symbol(syms', n, s) = get_symbol(syms, n, s)
                      \/ pc' = "DESTROYED"
<1>1. WalkInv /\ [Next]_vars => A
  <2>1. SUFFICES ASSUME WalkInv, [Next]_vars, NEW n \in Identifier, NEW s \in Identifier,
                        get_symbol(syms, n, s) # NULL
                 PROVE  \/ get_symbol(syms', n, s) = get_symbol(syms, n, s)
                        \/ pc' = "DESTROYED"
    OBVIOUS
  <2>2. CASE Destroy
    BY <2>2 DEF Destroy
  <2>3. ASSUME NEW group \in Seq(Symbol), syms' = syms \o group
        PROVE  get_symbol(syms', n, s) = get_symbol(syms, n, s)
    BY <2>1, <2>3, GetSymbolStable DEF WalkInv, TypeOK
  <2>4. QED
    BY <2>1, <2>2, <2>3, AppendsOnly
<1>2. QED
  BY <1>1, Invariant, PTL DEF Spec, StableLookup

\* The linked list implements the abstract environment: a set that only grows, only
\* with declared symbols, and is complete when it is offered.
THEOREM Refinement == Spec => ImplementsEnvironment
<1>1. Init => E!EnvInit
  BY DEF Init, E!EnvInit, Entries
<1>2. ASSUME WalkInv, TableExact, WalkInv', TableExact', [Next]_vars
      PROVE  [E!EnvNext]_(E!evars)
  <2> DEFINE phase == IF pc \in {"HEAD", "DECLARATION", "RECORD"} THEN "BUILDING"
                      ELSE IF pc = "DONE" THEN "BUILT" ELSE "DESTROYED"
  <2>1. CASE Destroy
    <3>1. ast' = ast /\ phase = "BUILT" /\ phase' = "DESTROYED" /\ Entries(syms') = {}
      BY <2>1 DEF Destroy, Entries
    <3>2. QED
      BY <3>1 DEF E!EnvNext, E!Discard
  <2>2. CASE ProgramEnd
    <3>1. blk = Len(ast) + 1 /\ pc = "HEAD"
      BY <1>2, <2>2, ProgramsAssumption, BlockFacts DEF ProgramEnd, WalkInv, TypeOK, CursorOK
    <3>2. Entries(syms) = Declared(ast)
      BY <1>2, <3>1, PassedAll DEF TableExact
    <3>3. ast' = ast /\ syms' = syms /\ phase = "BUILDING" /\ phase' = "BUILT"
      BY <2>2 DEF ProgramEnd
    <3>4. QED
      BY <3>2, <3>3 DEF E!EnvNext, E!Offer
  <2>3. CASE UNCHANGED vars
    BY <2>3 DEF vars, cursor, E!evars
  <2>4. CASE ~Destroy /\ ~ProgramEnd /\ Next
    <3>1. ast' = ast /\ phase = "BUILDING" /\ phase' = "BUILDING" /\ pc' # "DESTROYED"
      BY <2>4 DEF Next, ProgramHead, SubprogramHead, Parameter, ConstDeclaration, VarDeclaration,
                  ArrayType, RecordBegin, RecordMember, RecordEnd, SkipLocalType, DeclarationsEnd,
                  SubprogramEnd, AtDeclaration, NextDeclaration
    <3>2. PICK group \in Seq(Symbol) : syms' = syms \o group
      BY <1>2, <2>4, AppendsOnly
    <3>3. Entries(syms) \subseteq Entries(syms')
      BY <1>2, <3>2, EntriesOfConcat DEF WalkInv, TypeOK
    <3>4. Entries(syms') \subseteq Declared(ast)
      <4>1. (Passed \subseteq Declared(ast))'
        BY <1>2, PassedDeclared, PTL
      <4>2. QED
        BY <1>2, <3>1, <4>1 DEF TableExact
    <3>5. QED
      BY <3>1, <3>3, <3>4 DEF E!EnvNext, E!Enter
  <2>5. QED
    BY <1>2, <2>1, <2>2, <2>3, <2>4
<1>3. QED
  BY <1>1, <1>2, Invariant, PTL DEF Spec, ImplementsEnvironment, E!EnvSpec
-----------------------------------------------------------------------------
(* Looking up a parameter by its position *)

ByArg(table, arg, s) == {k \in 1..Len(table) : table[k].arg = arg /\ table[k].scope = s}

\* A list is searched to its end before what is appended to it.
LEMMA ByArgOfConcat ==
    ASSUME NEW table \in Seq(Symbol), NEW more \in Seq(Symbol), NEW k, NEW s
    PROVE  get_symbol_by_arg(table \o more, k, s) =
              IF get_symbol_by_arg(table, k, s) # NULL THEN get_symbol_by_arg(table, k, s)
              ELSE get_symbol_by_arg(more, k, s)
<1> DEFINE K == ByArg(table, k, s)
           M == ByArg(more, k, s)
           L == ByArg(table \o more, k, s)
           n == Len(table)
<1>1. /\ n \in Nat /\ Len(more) \in Nat
      /\ Len(table \o more) = n + Len(more)
      /\ \A j \in 1..n + Len(more) :
            (table \o more)[j] = IF j <= n THEN table[j] ELSE more[j - n]
  BY ConcatProperties, LenProperties
<1>2. K \subseteq Nat /\ M \subseteq Nat /\ L \subseteq Nat
  BY <1>1 DEF ByArg
<1>3. K = L \cap 1..n
  BY <1>1 DEF ByArg
<1>4. \A j \in L : j \notin K => j > n /\ j - n \in M
  BY <1>1 DEF ByArg
<1>5. \A j \in M : j + n \in L
  BY <1>1 DEF ByArg
<1>6. CASE K # {}
  <2>1. FirstIndex(K) \in K /\ \A j \in K : FirstIndex(K) <= j
    BY <1>2, <1>6, FirstIndexIsLeast
  <2>2. FirstIndex(L) \in L /\ \A j \in L : FirstIndex(L) <= j
    BY <1>2, <1>3, <1>6, FirstIndexIsLeast
  <2>3. FirstIndex(L) \in K
    <3>1. FirstIndex(K) \in L /\ FirstIndex(K) <= n
      BY <1>1, <1>3, <2>1
    <3>2. FirstIndex(L) <= FirstIndex(K)
      BY <2>2, <3>1
    <3>3. FirstIndex(L) \in Nat /\ FirstIndex(K) \in Nat
      BY <1>2, <2>1, <2>2
    <3>4. QED
      BY <1>1, <1>4, <2>2, <3>1, <3>2, <3>3
  <2>4. FirstIndex(L) = FirstIndex(K)
    <3>1. FirstIndex(L) <= FirstIndex(K) /\ FirstIndex(K) <= FirstIndex(L)
      BY <1>3, <2>1, <2>2, <2>3
    <3>2. FirstIndex(L) \in Nat /\ FirstIndex(K) \in Nat
      BY <1>2, <2>1, <2>3
    <3>3. QED
      BY <3>1, <3>2
  <2>5. table[FirstIndex(K)] \in Symbol /\ (table \o more)[FirstIndex(K)] = table[FirstIndex(K)]
    <3>1. FirstIndex(K) \in 1..n
      BY <1>3, <2>1
    <3>2. QED
      BY <1>1, <3>1, ElementOfSeq
  <2>6. L # {}
    BY <2>2
  <2>7. QED
    BY <1>6, <2>4, <2>5, <2>6, NullSymbolAssumption DEF get_symbol_by_arg, FirstOf, ByArg
<1>7. CASE K = {}
  <2>1. get_symbol_by_arg(table, k, s) = NULL
    BY <1>7 DEF get_symbol_by_arg, FirstOf, ByArg
  <2>2. CASE M = {}
    <3>1. L = {}
      BY <1>4, <1>7, <2>2
    <3>2. QED
      BY <2>1, <2>2, <3>1 DEF get_symbol_by_arg, FirstOf, ByArg
  <2>3. CASE M # {}
    <3>1. FirstIndex(M) \in M /\ \A j \in M : FirstIndex(M) <= j
      BY <1>2, <2>3, FirstIndexIsLeast
    <3>2. L # {}
      BY <1>5, <3>1
    <3>3. FirstIndex(L) \in L /\ \A j \in L : FirstIndex(L) <= j
      BY <1>2, <3>2, FirstIndexIsLeast
    <3>4. FirstIndex(L) > n /\ FirstIndex(L) - n \in M /\ FirstIndex(M) + n \in L
      BY <1>4, <1>5, <1>7, <3>1, <3>3
    <3>5. FirstIndex(L) <= FirstIndex(M) + n /\ FirstIndex(M) <= FirstIndex(L) - n
      BY <3>1, <3>3, <3>4
    <3>6. FirstIndex(L) \in Nat /\ FirstIndex(M) \in Nat
      BY <1>2, <3>1, <3>3
    <3>7. FirstIndex(L) - n = FirstIndex(M) /\ ~(FirstIndex(L) <= n)
      BY <1>1, <3>4, <3>5, <3>6
    <3>8. FirstIndex(L) \in 1..n + Len(more)
      BY <1>1, <3>3 DEF ByArg
    <3>9. (table \o more)[FirstIndex(L)] = more[FirstIndex(M)]
      BY <1>1, <3>7, <3>8
    <3>10. QED
      BY <2>1, <2>3, <3>2, <3>9 DEF get_symbol_by_arg, FirstOf, ByArg
  <2>4. QED
    BY <2>2, <2>3
<1>8. QED
  BY <1>6, <1>7

\* The subprograms whose name no other subprogram has.
Sole(b) == b \in 2..Len(ast) /\ \A d \in 2..Len(ast) : ast[b].id = ast[d].id => b = d

\* The groups with at least k names among the first n declarations of block b.
LongGroups(b, k, n) ==
    {j \in 1..n : ast[b].decls[j].kind \in ParameterKind /\ k <= Len(ast[b].decls[j].ids)}

GroupSymbol(b, k, j) ==
    MkSymbol(ast[b].decls[j].ids[k], ast[b].decls[j].type, 0, ast[b].id, k,
             Ref(ast[b].decls[j].kind))

GroupAnswer(b, k, n) ==
    IF LongGroups(b, k, n) = {} THEN NULL
    ELSE GroupSymbol(b, k, FirstIndex(LongGroups(b, k, n)))

\* How many declarations of block b the walk has passed.
Walked(b) ==
    CASE b < blk -> Len(ast[b].decls)
      [] b = blk -> IF pc \in {"DECLARATION", "RECORD"} THEN i - 1 ELSE 0
      [] OTHER -> 0

\* Of the groups passed, the first that is long enough answers.
GroupsInv ==
    pc # "DESTROYED" =>
        \A b \in 2..Len(ast), k \in Nat \ {0} :
            Sole(b) => get_symbol_by_arg(syms, k, ast[b].id) = GroupAnswer(b, k, Walked(b))

LEMMA GroupsInit == Init => GroupsInv
<1>1. SUFFICES ASSUME Init, NEW b \in 2..Len(ast), NEW k \in Nat \ {0}
               PROVE  get_symbol_by_arg(syms, k, ast[b].id) = GroupAnswer(b, k, Walked(b))
  BY DEF GroupsInv
<1>2. Walked(b) = 0
  BY <1>1 DEF Init, Walked
<1>3. LongGroups(b, k, 0) = {}
  BY DEF LongGroups
<1>4. QED
  BY <1>1, <1>2, <1>3 DEF Init, GroupAnswer, get_symbol_by_arg, FirstOf

\* One more declaration: a group that is long enough answers if none before it is.
LEMMA AnswerStep ==
    ASSUME NEW b, NEW k, NEW n \in Nat
    PROVE  LET long == /\ ast[b].decls[n + 1].kind \in ParameterKind
                       /\ k <= Len(ast[b].decls[n + 1].ids)
           IN  GroupAnswer(b, k, n + 1) =
                  IF LongGroups(b, k, n) = {} /\ long THEN GroupSymbol(b, k, n + 1)
                  ELSE GroupAnswer(b, k, n)
<1> DEFINE long(j) == ast[b].decls[j].kind \in ParameterKind /\ k <= Len(ast[b].decls[j].ids)
           K == LongGroups(b, k, n)
           L == LongGroups(b, k, n + 1)
<1>1. K = {j \in 1..n : long(j)} /\ L = {j \in 1..n + 1 : long(j)}
  BY DEF LongGroups
<1> HIDE DEF long
<1>2. L = K \cup (IF long(n + 1) THEN {n + 1} ELSE {})
  BY <1>1
<1>3. K \subseteq 1..n
  BY <1>1
<1> HIDE DEF K, L
<1>4. CASE ~long(n + 1)
  BY <1>2, <1>4 DEF GroupAnswer, long, K, L
<1>5. CASE long(n + 1) /\ K = {}
  <2>1. L = {n + 1}
    BY <1>2, <1>5
  <2>2. FirstIndex(L) = n + 1
    BY <2>1, FirstIndexIsLeast
  <2>3. QED
    BY <1>5, <2>1, <2>2 DEF GroupAnswer, long, K, L
<1>6. CASE long(n + 1) /\ K # {}
  <2>1. FirstIndex(K) \in K /\ \A j \in K : FirstIndex(K) <= j
    <3>1. K \subseteq Nat
      BY <1>3
    <3>2. QED
      BY <1>6, <3>1, FirstIndexIsLeast
  <2>2. L # {} /\ L \subseteq Nat
    BY <1>2, <1>3, <1>6
  <2>3. FirstIndex(L) \in L /\ \A j \in L : FirstIndex(L) <= j
    BY <2>2, FirstIndexIsLeast
  <2>4. FirstIndex(L) = FirstIndex(K)
    <3>1. FirstIndex(K) \in 1..n /\ FirstIndex(L) \in Nat
      BY <1>3, <2>1, <2>2, <2>3
    <3>2. FirstIndex(L) <= FirstIndex(K)
      BY <1>2, <2>1, <2>3
    <3>3. FirstIndex(L) \in K
      BY <1>2, <2>3, <3>1, <3>2
    <3>4. FirstIndex(K) <= FirstIndex(L)
      BY <2>1, <3>3
    <3>5. QED
      BY <3>1, <3>2, <3>4
  <2>5. QED
    BY <1>6, <2>2, <2>4 DEF GroupAnswer, long, K, L
<1>7. QED
  BY <1>4, <1>5, <1>6 DEF long

\* A parameter found is no null pointer.
LEMMA GroupSymbolRight ==
    ASSUME IsAst(ast), NEW b \in 1..Len(ast), NEW j \in 1..Len(ast[b].decls),
           ast[b].decls[j].kind \in ParameterKind,
           NEW k \in Nat \ {0}, k <= Len(ast[b].decls[j].ids)
    PROVE  GroupSymbol(b, k, j) \in Symbol
<1>1. /\ ast[b].id \in Identifier
      /\ ast[b].decls[j] \in Declaration
      /\ DeclShape(ast[b].decls[j])
  BY DeclFacts, BlockFacts
<1>2. ast[b].decls[j].ids \in Seq(Identifier) /\ ast[b].decls[j].type \in BasicType
  BY <1>1 DEF Declaration, DeclShape, ParameterKind
<1>3. ast[b].decls[j].ids[k] \in Identifier
  <2>1. k \in 1..Len(ast[b].decls[j].ids)
    BY <1>2, LenProperties
  <2>2. QED
    BY <1>2, <2>1, ElementOfSeq
<1>4. Ref(ast[b].decls[j].kind) \in 0..2
  BY DEF Ref
<1>5. QED
  BY <1>1, <1>2, <1>3, <1>4 DEF GroupSymbol, MkSymbol, Symbol, SymbolType

\* In one step the walk passes nothing of a subprogram, or its next declaration.
LEMMA WalkedStep ==
    ASSUME WalkInv, [Next]_vars, NEW b \in 2..Len(ast)
    PROVE  /\ ast' = ast
           /\ \/ Walked(b)' = Walked(b) /\ ~Parameter
              \/ /\ b # blk /\ Walked(b)' = Walked(b)
              \/ /\ b = blk /\ i \in 1..Len(ast[b].decls)
                 /\ Walked(b) = i - 1 /\ Walked(b)' = i
                 /\ Parameter \/ decl.kind \notin ParameterKind
<1>1. /\ IsAst(ast) /\ Len(ast) \in Nat \ {0}
      /\ blk \in 1..Len(ast) + 1 /\ i \in Nat \ {0}
      /\ Len(ast[b].decls) \in Nat
  BY ProgramsAssumption, BlockFacts DEF WalkInv, TypeOK, CursorOK
<1>2. CASE \E kinds : AtDeclaration(kinds) /\ NextDeclaration /\ ast' = ast
                    /\ (Parameter \/ decl.kind \notin ParameterKind)
  <2>1. PICK kinds : AtDeclaration(kinds) /\ NextDeclaration /\ ast' = ast
                     /\ (Parameter \/ decl.kind \notin ParameterKind)
    BY <1>2
  <2>2. i \in 1..Len(ast[blk].decls) /\ pc = "DECLARATION" /\ blk \in 1..Len(ast)
    BY <2>1, AtDeclarationFacts DEF AtDeclaration
  <2>3. pc' = pc /\ blk' = blk /\ i' = i + 1
    BY <2>1 DEF NextDeclaration
  <2>4. (i + 1) - 1 = i
    BY <1>1
  <2>5. QED
    BY <1>1, <2>1, <2>2, <2>3, <2>4 DEF Walked
<1>3. CASE Parameter \/ ConstDeclaration \/ VarDeclaration \/ ArrayType \/ SkipLocalType
  BY <1>2, <1>3 DEF Parameter, ConstDeclaration, VarDeclaration, ArrayType, SkipLocalType,
                    AtDeclaration, ParameterKind
<1>4. CASE ProgramHead \/ DeclarationsEnd
  <2>1. ast' = ast /\ blk = 1 /\ blk' \in {1, 2} /\ (blk' = 1 \/ pc' = "HEAD")
    BY <1>4 DEF ProgramHead, DeclarationsEnd
  <2>2. ~Parameter
    <3>1. blk' # blk \/ pc' # pc
      BY <1>4 DEF ProgramHead, DeclarationsEnd
    <3>2. QED
      BY <3>1 DEF Parameter, NextDeclaration
  <2>3. QED
    BY <1>1, <2>1, <2>2 DEF Walked
<1>5. CASE SubprogramHead
  <2>1. /\ ast' = ast /\ blk' = blk /\ i' = i /\ i = 1 /\ pc = "HEAD" /\ pc' = "DECLARATION"
        /\ ~Parameter
    BY <1>5 DEF SubprogramHead, Parameter, AtDeclaration, WalkInv, CursorOK
  <2>2. QED
    BY <1>1, <2>1 DEF Walked
<1>6. CASE RecordBegin \/ RecordMember \/ RecordEnd
  <2>1. /\ ast' = ast /\ blk' = blk /\ blk = 1
    BY <1>6 DEF RecordBegin, RecordMember, RecordEnd, WalkInv, CursorOK
  <2>2. ~Parameter
    BY <1>6 DEF RecordBegin, RecordMember, RecordEnd, Parameter, AtDeclaration
  <2>3. QED
    BY <1>1, <2>1, <2>2 DEF Walked
<1>7. CASE SubprogramEnd
  <2>1. /\ ast' = ast /\ blk' = blk + 1 /\ pc = "DECLARATION" /\ pc' = "HEAD" /\ blk > 1
        /\ i > Len(ast[blk].decls) /\ i <= Len(ast[blk].decls) + 1
    BY <1>7 DEF SubprogramEnd, WalkInv, CursorOK
  <2>2. blk = b => i - 1 = Len(ast[b].decls)
    BY <1>1, <2>1
  <2>3. ~Parameter
    BY <1>1, <2>1 DEF Parameter, AtDeclaration, NextDeclaration
  <2>4. QED
    BY <1>1, <2>1, <2>2, <2>3 DEF Walked
<1>8. CASE ProgramEnd \/ Destroy
  <2>1. /\ ast' = ast /\ blk' = blk /\ pc \in {"HEAD", "DONE"}
        /\ pc' \in {"DONE", "DESTROYED"} /\ ~Parameter
    BY <1>8 DEF ProgramEnd, Destroy, Parameter, AtDeclaration
  <2>2. QED
    BY <1>1, <2>1 DEF Walked
<1>9. CASE UNCHANGED vars
  <2>1. ast' = ast /\ pc' = pc /\ blk' = blk /\ i' = i
    BY <1>9 DEF vars, cursor
  <2>2. ~Parameter
    BY <1>1, <2>1 DEF Parameter, NextDeclaration
  <2>3. QED
    BY <2>1, <2>2 DEF Walked
<1>10. QED
  BY <1>3, <1>4, <1>5, <1>6, <1>7, <1>8, <1>9 DEF Next

LEMMA GroupsStep == WalkInv /\ GroupsInv /\ [Next]_vars => GroupsInv'
<1>1. SUFFICES ASSUME WalkInv, GroupsInv, [Next]_vars, ~Destroy, pc # "DESTROYED",
                      NEW b \in 2..Len(ast), NEW k \in Nat \ {0}, Sole(b), ast' = ast
               PROVE  get_symbol_by_arg(syms', k, ast[b].id) = GroupAnswer(b, k, Walked(b)')
  <2>1. SUFFICES ASSUME WalkInv, GroupsInv, [Next]_vars, pc' # "DESTROYED",
                        NEW b \in 2..Len(ast'), NEW k \in Nat \ {0}, Sole(b)'
                 PROVE  get_symbol_by_arg(syms', k, ast'[b].id) = GroupAnswer(b, k, Walked(b))'
    BY DEF GroupsInv
  <2>2. ast' = ast
    BY <2>1 DEF Next, vars, ProgramHead, SubprogramHead, Parameter, ConstDeclaration,
                VarDeclaration, ArrayType, RecordBegin, RecordMember, RecordEnd, SkipLocalType,
                DeclarationsEnd, SubprogramEnd, ProgramEnd, Destroy
  <2>3. ~Destroy /\ pc # "DESTROYED"
    BY <2>1 DEF Next, vars, cursor, ProgramHead, SubprogramHead, Parameter, ConstDeclaration,
                VarDeclaration, ArrayType, RecordBegin, RecordMember, RecordEnd, SkipLocalType,
                DeclarationsEnd, SubprogramEnd, ProgramEnd, Destroy, AtDeclaration
  <2>4. GroupAnswer(b, k, Walked(b))' = GroupAnswer(b, k, Walked(b)')
    BY <2>2 DEF GroupAnswer, LongGroups, GroupSymbol
  <2>5. Sole(b)
    BY <2>1, <2>2 DEF Sole
  <2>6. QED
    BY <1>1, <2>1, <2>2, <2>3, <2>4, <2>5
<1>2. /\ IsAst(ast) /\ syms \in Seq(Symbol) /\ Len(ast) \in Nat \ {0}
      /\ b \in 1..Len(ast) /\ Len(ast[b].decls) \in Nat
  BY <1>1, ProgramsAssumption, BlockFacts DEF WalkInv, TypeOK
<1>3. get_symbol_by_arg(syms, k, ast[b].id) = GroupAnswer(b, k, Walked(b))
  BY <1>1 DEF GroupsInv
<1>4. CASE Parameter
  <2> DEFINE group == ParameterEntries(decl, scope)
             positions == ByArg(group, k, ast[b].id)
  <2>1. AtDeclaration(ParameterKind) /\ syms' = syms \o group /\ pc = "DECLARATION"
    BY <1>4 DEF Parameter, add_symbol, ParameterKind, AtDeclaration
  <2>2. /\ blk \in 1..Len(ast) /\ i \in 1..Len(ast[blk].decls) /\ scope = ast[blk].id
        /\ decl \in Declaration /\ DeclShape(decl) /\ decl.kind \in ParameterKind
        /\ scope \in Identifier
    BY <1>1, <2>1, AtDeclarationFacts
  <2>3. blk \in 2..Len(ast)
    <3>1. DeclRank[decl.kind] = 1
      BY <2>2 DEF DeclRank, ParameterKind
    <3>2. blk # 1
      BY <1>2, <2>2, <3>1 DEF IsAst, decl
    <3>3. QED
      BY <1>2, <2>2, <3>2
  <2>4. group \in Seq(Symbol) /\ decl.ids \in Seq(Identifier)
    BY <1>1, <2>1, <2>2, AppendedTyped DEF ParameterKind, Declaration
  <2>5. Len(decl.ids) \in Nat /\ Len(group) = Len(decl.ids)
        /\ \A j \in 1..Len(decl.ids) : group[j].arg = j /\ group[j].scope = scope
    BY <2>4, LenProperties DEF ParameterEntries, MkSymbol
  <2>6. get_symbol_by_arg(syms', k, ast[b].id) =
           IF GroupAnswer(b, k, Walked(b)) # NULL THEN GroupAnswer(b, k, Walked(b))
           ELSE get_symbol_by_arg(group, k, ast[b].id)
    BY <1>2, <1>3, <2>1, <2>4, ByArgOfConcat
  <2>7. CASE b # blk
    <3>1. Walked(b)' = Walked(b)
      BY <1>1, <1>4, <2>7, WalkedStep
    <3>2. ast[b].id # scope
      BY <1>1, <2>2, <2>3, <2>7 DEF Sole
    <3>3. positions = {}
      BY <2>5, <3>2 DEF ByArg
    <3>4. get_symbol_by_arg(group, k, ast[b].id) = NULL
      BY <3>3 DEF get_symbol_by_arg, FirstOf, ByArg
    <3>5. QED
      BY <2>6, <3>1, <3>4
  <2>8. CASE b = blk
    <3>1. Walked(b) = i - 1 /\ Walked(b)' = i /\ i - 1 \in Nat /\ (i - 1) + 1 = i
      BY <1>1, <1>2, <1>4, <2>2, <2>8, WalkedStep
    <3>2. GroupAnswer(b, k, i) =
             IF LongGroups(b, k, i - 1) = {} /\ k <= Len(decl.ids) THEN GroupSymbol(b, k, i)
             ELSE GroupAnswer(b, k, i - 1)
      <4>1. GroupAnswer(b, k, (i - 1) + 1) =
               IF /\ LongGroups(b, k, i - 1) = {}
                  /\ ast[b].decls[(i - 1) + 1].kind \in ParameterKind
                  /\ k <= Len(ast[b].decls[(i - 1) + 1].ids)
               THEN GroupSymbol(b, k, (i - 1) + 1) ELSE GroupAnswer(b, k, i - 1)
        BY <3>1, AnswerStep
      <4>2. QED
        BY <2>2, <2>8, <3>1, <4>1 DEF decl
    <3>3. CASE LongGroups(b, k, i - 1) # {}
      <4> DEFINE first == FirstIndex(LongGroups(b, k, i - 1))
      <4>1. LongGroups(b, k, i - 1) \subseteq Nat
        BY <3>1 DEF LongGroups
      <4>2. first \in LongGroups(b, k, i - 1)
        BY <3>3, <4>1, FirstIndexIsLeast
      <4> HIDE DEF first
      <4>3. /\ first \in 1..Len(ast[b].decls) /\ ast[b].decls[first].kind \in ParameterKind
            /\ k <= Len(ast[b].decls[first].ids)
        <5>1. /\ first \in 1..(i - 1) /\ ast[b].decls[first].kind \in ParameterKind
              /\ k <= Len(ast[b].decls[first].ids)
          BY <4>2 DEF LongGroups
        <5>2. i \in 1..Len(ast[b].decls)
          BY <1>2, <2>2, <2>8
        <5> QED
          BY <3>1, <5>1, <5>2
      <4>4. GroupSymbol(b, k, first) # NULL
        BY <1>2, <4>3, GroupSymbolRight, NullSymbolAssumption
      <4>5. GroupAnswer(b, k, i - 1) # NULL
        BY <3>3, <4>4 DEF GroupAnswer, first
      <4>6. QED
        BY <2>6, <3>1, <3>2, <3>3, <4>5
    <3>4. CASE LongGroups(b, k, i - 1) = {} /\ k <= Len(decl.ids)
      <4>1. positions = {k}
        BY <2>2, <2>5, <2>8, <3>4 DEF ByArg
      <4>2. FirstIndex(positions) = k
        BY <4>1, FirstIndexIsLeast
      <4>3. get_symbol_by_arg(group, k, ast[b].id) = group[k]
        BY <4>1, <4>2 DEF get_symbol_by_arg, FirstOf, ByArg
      <4>4. group[k] = GroupSymbol(b, k, i)
        <5>1. k \in 1..Len(decl.ids)
          BY <2>5, <3>4
        <5>2. QED
          BY <2>2, <2>8, <5>1 DEF ParameterEntries, GroupSymbol, decl
      <4>5. GroupAnswer(b, k, i - 1) = NULL
        BY <3>4 DEF GroupAnswer
      <4>6. QED
        BY <2>6, <3>1, <3>2, <3>4, <4>3, <4>4, <4>5
    <3>5. CASE LongGroups(b, k, i - 1) = {} /\ ~(k <= Len(decl.ids))
      <4>1. positions = {}
        BY <2>5, <3>5 DEF ByArg
      <4>2. get_symbol_by_arg(group, k, ast[b].id) = NULL
        BY <4>1 DEF get_symbol_by_arg, FirstOf, ByArg
      <4>3. QED
        BY <2>6, <3>1, <3>2, <3>5, <4>2
    <3>6. QED
      BY <3>3, <3>4, <3>5
  <2>9. QED
    BY <2>7, <2>8
<1>5. CASE ~Parameter
  <2>1. PICK group \in Seq(Symbol) : syms' = syms \o group /\ NoParameter(group)
    BY <1>1, <1>5, AppendsOnly
  <2>2. ByArg(group, k, ast[b].id) = {}
    BY <2>1 DEF ByArg, NoParameter
  <2>3. get_symbol_by_arg(group, k, ast[b].id) = NULL
    BY <2>2 DEF get_symbol_by_arg, FirstOf, ByArg
  <2>4. get_symbol_by_arg(syms', k, ast[b].id) = GroupAnswer(b, k, Walked(b))
    BY <1>2, <1>3, <2>1, <2>3, ByArgOfConcat
  <2>5. CASE Walked(b)' = Walked(b)
    BY <2>4, <2>5
  <2>6. CASE Walked(b)' # Walked(b)
    <3>1. /\ b = blk /\ i \in 1..Len(ast[b].decls) /\ Walked(b) = i - 1 /\ Walked(b)' = i
          /\ decl.kind \notin ParameterKind
      BY <1>1, <1>5, <2>6, WalkedStep
    <3>2. i - 1 \in Nat /\ (i - 1) + 1 = i /\ ast[b].decls[i].kind \notin ParameterKind
      BY <1>2, <3>1 DEF decl
    <3>3. GroupAnswer(b, k, (i - 1) + 1) = GroupAnswer(b, k, i - 1)
      BY <3>2, AnswerStep
    <3>4. QED
      BY <2>4, <3>1, <3>2, <3>3
  <2>7. QED
    BY <2>5, <2>6
<1>6. QED
  BY <1>4, <1>5

\* The groups of a head are the first declarations of its block.
LEMMA ParamsFirst ==
    ASSUME NEW a, IsAst(a), NEW b \in 1..Len(a)
    PROVE  LET n == Len(Params(a[b]))
           IN  /\ Params(a[b]) \in Seq(Declaration)
               /\ n \in 0..Len(a[b].decls)
               /\ \A j \in 1..n : Params(a[b])[j] = a[b].decls[j]
               /\ \A j \in 1..Len(a[b].decls) : a[b].decls[j].kind \in ParameterKind <=> j <= n
<1> DEFINE decls == a[b].decls
           N == Len(decls)
           P == {j \in 1..N : decls[j].kind \in ParameterKind}
           rest == (1..N) \ P
<1>1. N \in Nat /\ decls \in Seq(Declaration)
  BY BlockFacts, DeclFacts DEF Block
<1>2. \A j \in 1..N : decls[j] \in Declaration
  BY <1>1, ElementOfSeq
<1>3. \A j \in 1..N :
         /\ DeclRank[decls[j].kind] \in 1..4
         /\ decls[j].kind \in ParameterKind <=> DeclRank[decls[j].kind] = 1
  BY <1>2 DEF Declaration, DeclRank, ParameterKind
<1>4. \A j, k \in 1..N : j <= k => DeclRank[decls[j].kind] <= DeclRank[decls[k].kind]
  BY DEF IsAst, DeclOrder
<1>5. \A j, k \in 1..N : j <= k /\ k \in P => j \in P
  <2> DEFINE r(j) == DeclRank[decls[j].kind]
  <2>1. \A j \in 1..N : r(j) \in 1..4 /\ (j \in P <=> r(j) = 1)
    BY <1>3
  <2>2. \A j, k \in 1..N : j <= k => r(j) <= r(k)
    BY <1>4
  <2> HIDE DEF r, P, N
  <2>3. QED
    BY <2>1, <2>2
<1>6. \E n \in 0..N : P = 1..n
  <2>1. CASE rest = {}
    BY <1>1, <2>1
  <2>2. CASE rest # {}
    <3>1. rest \subseteq Nat
      BY <1>1
    <3> HIDE DEF rest
    <3>2. FirstIndex(rest) \in rest /\ \A j \in rest : FirstIndex(rest) <= j
      BY <2>2, <3>1, FirstIndexIsLeast
    <3> DEFINE f == FirstIndex(rest)
    <3> HIDE DEF f
    <3>3. f \in 1..N /\ f \notin P /\ \A j \in 1..N : j \notin P => f <= j
      BY <3>2 DEF f, rest
    <3>4. \A j \in 1..N : j \in P <=> j < f
      BY <1>1, <1>5, <3>3
    <3>5. P = 1..(f - 1) /\ f - 1 \in 0..N
      BY <1>1, <3>3, <3>4
    <3>6. QED
      BY <3>5
  <2>3. QED
    BY <2>1, <2>2
<1>7. PICK n \in 0..N : P = 1..n
  BY <1>6
<1>8. Cardinality(P) = n
  <2>1. Cardinality(1..n) = IF 1 > n THEN 0 ELSE n - 1 + 1
    BY <1>1, FS_Interval
  <2>2. Cardinality(1..n) = n
    BY <1>1, <2>1
  <2>3. QED
    BY <1>7, <2>2
<1>9. Params(a[b]) = SubSeq(decls, 1, n)
  BY <1>8 DEF Params
<1>10. /\ Params(a[b]) \in Seq(Declaration) /\ Len(Params(a[b])) = n
       /\ \A j \in 1..n : Params(a[b])[j] = decls[j]
  <2>1. n \in Int /\ 1 \in Int /\ \A j \in 1..n : decls[j] \in Declaration
    BY <1>1, <1>2
  <2>2. /\ SubSeq(decls, 1, n) \in Seq(Declaration)
        /\ Len(SubSeq(decls, 1, n)) = IF 1 <= n THEN n - 1 + 1 ELSE 0
        /\ \A j \in 1..(n - 1 + 1) : SubSeq(decls, 1, n)[j] = decls[1 + j - 1]
    BY <2>1, SubSeqProperties
  <2>3. n - 1 + 1 = n /\ \A j \in 1..n : 1 + j - 1 = j
    BY <1>1
  <2> HIDE DEF decls, N
  <2>4. Len(SubSeq(decls, 1, n)) = n
    BY <1>1, <2>2
  <2>5. QED
    BY <1>9, <2>2, <2>3, <2>4
<1>11. \A j \in 1..N : decls[j].kind \in ParameterKind <=> j <= n
  BY <1>1, <1>7
<1>12. QED
  BY <1>10, <1>11

\* When the walk is over, the first group of the head that is long enough answers.
LEMMA FirstGroup ==
    ASSUME WalkInv, GroupsInv, pc = "DONE", NEW b \in 2..Len(ast), Sole(b), NEW k \in Nat \ {0}
    PROVE  LET params == Params(ast[b])
               long  == {g \in 1..Len(params) : k <= Len(params[g].ids)}
               found == get_symbol_by_arg(syms, k, ast[b].id)
               p     == params[FirstIndex(long)]
           IN  IF long = {} THEN found = NULL
               ELSE found = MkSymbol(p.ids[k], p.type, 0, ast[b].id, k, Ref(p.kind))
<1> DEFINE params == Params(ast[b])
           long  == {g \in 1..Len(params) : k <= Len(params[g].ids)}
           found == get_symbol_by_arg(syms, k, ast[b].id)
           decls == ast[b].decls
<1>1. IsAst(ast) /\ Len(ast) \in Nat \ {0} /\ b \in 1..Len(ast) /\ b < blk
  BY ProgramsAssumption, BlockFacts DEF WalkInv, TypeOK, CursorOK
<1>2. found = GroupAnswer(b, k, Len(decls))
  BY <1>1 DEF GroupsInv, Walked
<1>3. /\ Len(params) \in 0..Len(decls) /\ Len(decls) \in Nat
      /\ \A j \in 1..Len(params) : params[j] = decls[j]
      /\ \A j \in 1..Len(decls) : decls[j].kind \in ParameterKind <=> j <= Len(params)
  BY <1>1, ParamsFirst, BlockFacts
<1> HIDE DEF params, decls
<1>4. LongGroups(b, k, Len(decls)) = long
  BY <1>3 DEF LongGroups, decls
<1>5. CASE long = {}
  BY <1>2, <1>4, <1>5 DEF GroupAnswer, params
<1>6. CASE long # {}
  <2>1. long \subseteq Nat
    BY <1>3
  <2>2. FirstIndex(long) \in long
    BY <1>6, <2>1, FirstIndexIsLeast
  <2>3. params[FirstIndex(long)] = decls[FirstIndex(long)]
    BY <1>3, <2>2
  <2>4. found = GroupSymbol(b, k, FirstIndex(long))
    BY <1>2, <1>4, <1>6 DEF GroupAnswer
  <2>5. QED
    BY <1>6, <2>3, <2>4 DEF GroupSymbol, params, decls
<1>7. QED
  BY <1>5, <1>6

\* The look-up of a call by the number of its argument answers with the first group of
\* the head that has so many names, in every program: later groups count from 1 again
\* and are seen only beyond the length of those before them.
THEOREM FirstGroupCorrect == Spec => []FirstGroupAnswers
<1>1. WalkInv /\ GroupsInv => FirstGroupAnswers
  BY FirstGroup DEF FirstGroupAnswers, Sole
<1>2. Init => WalkInv /\ GroupsInv
  BY WalkInit, GroupsInit
<1>3. (WalkInv /\ GroupsInv) /\ [Next]_vars => (WalkInv /\ GroupsInv)'
  BY WalkStep, GroupsStep
<1>4. QED
  BY <1>1, <1>2, <1>3, PTL DEF Spec
=============================================================================
