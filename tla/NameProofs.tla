----------------------------- MODULE NameProofs -----------------------------
(***************************************************************************)
(* What the code generator prints for a name and for a declaration, in     *)
(* every program: what a look-up means in terms of the declarations, where *)
(* each item stands in the printed text, and that the two agree with the   *)
(* heads, with the constants printed before and with what has been printed *)
(* of the declarations that the walk has gone past.                        *)
(*                                                                         *)
(* The table is destroyed while the text stays, so the invariants on the   *)
(* text never mention the table: they say of each printed item what its    *)
(* reference means in the tree.                                            *)
(***************************************************************************)
EXTENDS CompilerProofs, FiniteSetTheorems

-----------------------------------------------------------------------------
(* The tree and its symbols *)

LEMMA FirstIsLeast ==
    ASSUME NEW K, K \subseteq Nat, K # {}
    PROVE  FirstIndex(K) \in K /\ \A j \in K : FirstIndex(K) <= j
BY ConstantsRight, Proved!FirstIndexIsLeast DEF Proved!FirstIndex, FirstIndex

\* A declaration of a block of a program has the shape its production gives it.
LEMMA TreeFacts ==
    ASSUME NEW a, IsAst(a)
    PROVE  /\ Len(a) \in Nat \ {0}
           /\ \A b \in 1..Len(a) :
                 /\ a[b] \in Block /\ a[b].id \in Identifier
                 /\ a[b].decls \in Seq(Declaration) /\ Len(a[b].decls) \in Nat
                 /\ a[b].body \in Seq(Reference) /\ Len(a[b].body) \in Nat
                 /\ \A j \in 1..Len(a[b].decls) :
                       a[b].decls[j] \in Declaration /\ DeclShape(a[b].decls[j])
                 /\ \A j \in 1..Len(a[b].body) : a[b].body[j] \in Reference
<1>1. a \in Seq(Block) /\ a # <<>>
  BY DEF IsAst
<1>2. Len(a) \in Nat \ {0}
  BY <1>1, EmptySeq, LenProperties
<1>3. ASSUME NEW b \in 1..Len(a)
      PROVE  /\ a[b] \in Block /\ a[b].id \in Identifier
             /\ a[b].decls \in Seq(Declaration) /\ a[b].body \in Seq(Reference)
  <2>1. a[b] \in Block
    BY <1>1, ElementOfSeq
  <2> QED
    BY <2>1 DEF Block
<1>4. ASSUME NEW b \in 1..Len(a)
      PROVE  /\ Len(a[b].decls) \in Nat /\ Len(a[b].body) \in Nat
             /\ \A j \in 1..Len(a[b].decls) : a[b].decls[j] \in Declaration
             /\ \A j \in 1..Len(a[b].body) : a[b].body[j] \in Reference
  BY <1>3, LenProperties, ElementOfSeq
<1>5. \A b \in 1..Len(a) : \A j \in 1..Len(a[b].decls) : DeclShape(a[b].decls[j])
  BY DEF IsAst
<1> QED
  BY <1>2, <1>3, <1>4, <1>5

\* A symbol of the program is that of the head of a block or comes from one of its
\* declarations.
LEMMA SymbolOrigin ==
    ASSUME NEW a, IsAst(a), NEW d
    PROVE  d \in Declared(a) <=>
              \E c \in 1..Len(a) :
                 \/ d = HeadSymbol(a, c)
                 \/ \E j \in 1..Len(a[c].decls) :
                       Visited(c, a[c].decls[j]) /\ d \in DeclSymbols(a[c].decls[j], a[c].id)
<1>1. \A c \in 1..Len(a) :
         d \in BlockSymbols(a, c) <=>
            \/ d = HeadSymbol(a, c)
            \/ \E j \in 1..Len(a[c].decls) :
                  Visited(c, a[c].decls[j]) /\ d \in DeclSymbols(a[c].decls[j], a[c].id)
  BY DEF BlockSymbols, VisitedSymbols
<1> QED
  BY <1>1 DEF Declared

\* The declaration a look-up answers with, when there is only one of its name there.
Answer(a, n, s) ==
    LET meant == {d \in Declared(a) : d.name = n /\ d.scope = s}
    IN  IF meant = {} THEN NULL ELSE CHOOSE d \in meant : TRUE

\* The table answers with the declaration, as long as it is complete.
LEMMA LookUp ==
    ASSUME UniqueKeys(ast), syms \in Seq(Symbol), Entries(syms) = Declared(ast), NEW n, NEW s
    PROVE  get_symbol(syms, n, s) = Answer(ast, n, s)
<1> DEFINE meant == {d \in Declared(ast) : d.name = n /\ d.scope = s}
<1>1. IF meant = {} THEN get_symbol(syms, n, s) = NULL ELSE get_symbol(syms, n, s) \in meant
  <2>1. syms \in Seq(Proved!Symbol)
    BY DEF Proved!Symbol, Symbol, Proved!SymbolType, SymbolType,
           Proved!BasicType, Proved!Keyword, BasicType, Keyword
  <2>2. Proved!get_symbol(syms, n, s) = get_symbol(syms, n, s)
    BY DEF Proved!get_symbol, get_symbol, Proved!FirstOf, FirstOf, Proved!Matches, Matches,
           Proved!FirstIndex, FirstIndex
  <2>3. Proved!Entries(syms) = Declared(ast)
    BY SameSymbols
  <2> QED
    BY <2>1, <2>2, <2>3, ConstantsRight, Proved!GetSymbolFinds
<1>2. CASE meant = {}
  BY <1>1, <1>2 DEF Answer
<1>3. CASE meant # {}
  <2>1. Answer(ast, n, s) \in meant
    BY <1>3 DEF Answer
  <2> QED
    BY <1>1, <1>3, <2>1 DEF UniqueKeys
<1> QED
  BY <1>2, <1>3

\* An answer is a declaration of that name in that scope, and each one is the answer.
LEMMA AnswerIs ==
    ASSUME NEW a, IsAst(a), UniqueKeys(a), NEW n, NEW s
    PROVE  /\ Answer(a, n, s) # NULL =>
                 /\ Answer(a, n, s) \in Declared(a)
                 /\ Answer(a, n, s).name = n /\ Answer(a, n, s).scope = s
           /\ \A d \in Declared(a) : d.name = n /\ d.scope = s =>
                 Answer(a, n, s) = d
<1> DEFINE meant == {d \in Declared(a) : d.name = n /\ d.scope = s}
<1>1. CASE meant = {}
  BY <1>1 DEF Answer
<1>2. CASE meant # {}
  <2>1. Answer(a, n, s) \in meant
    BY <1>2 DEF Answer
  <2> QED
    BY <2>1 DEF UniqueKeys
<1> QED
  BY <1>1, <1>2

\* The symbols of a declaration, by its kind.
LEMMA SymbolKinds ==
    ASSUME NEW e, NEW s, NEW d
    PROVE  /\ e.kind \in ParameterKind =>
                 (d \in DeclSymbols(e, s) <=>
                     \E k \in 1..Len(e.ids) : d = MkSymbol(e.ids[k], e.type, 0, s, k, Ref(e.kind)))
           /\ e.kind = "CONST_DECLARATION" =>
                 (d \in DeclSymbols(e, s) <=> d = MkSymbol(e.id, "const", 0, s, 0, 0))
           /\ e.kind = "ARRAY" =>
                 (d \in DeclSymbols(e, s) <=>
                     \/ d = MkSymbol(e.id, "array", Len(e.periods), s, 0, 0)
                     \/ \E k \in 1..Len(e.periods) :
                           d = MkSymbol(DimensionName[k], e.type, e.periods[k].end, e.id, 0, 0))
           /\ e.kind = "RECORD" =>
                 (d \in DeclSymbols(e, s) <=>
                     \/ d = MkSymbol(e.id, "record", Len(e.members), s, 0, 0)
                     \/ \E k \in 1..Len(e.members) : \E l \in 1..Len(e.members[k].ids) :
                           d = MkSymbol(e.members[k].ids[l], e.members[k].type, 0, e.id, 0, 0))
           /\ e.kind = "VAR_DECLARATION" =>
                 (d \in DeclSymbols(e, s) <=>
                     \E k \in 1..Len(e.ids) : d = MkSymbol(e.ids[k], e.type, 0, s, 0, 0))
<1>1. CASE e.kind \in ParameterKind
  BY <1>1 DEF DeclSymbols, ParameterKind
<1>2. CASE e.kind = "CONST_DECLARATION"
  BY <1>2 DEF DeclSymbols, ParameterKind
<1>3. CASE e.kind = "ARRAY"
  BY <1>3 DEF DeclSymbols, ParameterKind
<1>4. CASE e.kind = "RECORD"
  <2>1. DeclSymbols(e, s) = (UNION {MemberSymbols(e, k) : k \in 1..Len(e.members)})
                               \cup {MkSymbol(e.id, "record", Len(e.members), s, 0, 0)}
    BY <1>4 DEF DeclSymbols
  <2> QED
    BY <1>4, <2>1 DEF MemberSymbols, ParameterKind
<1>5. CASE e.kind = "VAR_DECLARATION"
  BY <1>5 DEF DeclSymbols, ParameterKind
<1> QED
  BY <1>1, <1>2, <1>3, <1>4, <1>5

\* The entries of an identifier list are identifiers.
LEMMA SymbolsTyped ==
    ASSUME NEW a, IsAst(a)
    PROVE  Declared(a) \subseteq Symbol /\ NULL \notin Declared(a)
<1> SUFFICES ASSUME NEW d \in Declared(a) PROVE d \in Symbol
  BY NullSymbolAssumption
<1>1. PICK c \in 1..Len(a) :
         \/ d = HeadSymbol(a, c)
         \/ \E j \in 1..Len(a[c].decls) :
               Visited(c, a[c].decls[j]) /\ d \in DeclSymbols(a[c].decls[j], a[c].id)
  BY SymbolOrigin
<1>2. a[c].id \in Identifier /\ a[c].result \in BasicType \cup {NULL} /\ a[1].id \in Identifier
  BY TreeFacts DEF Block
<1>3. /\ "null" \in Identifier
      /\ {"program", "const", "array", "record"} \subseteq SymbolType
      /\ BasicType \cup Identifier \subseteq SymbolType
  BY IdentifierAssumption DEF SymbolType, Keyword
<1> HIDE DEF SymbolType
<1>4. CASE d = HeadSymbol(a, c)
  BY <1>2, <1>3, <1>4 DEF HeadSymbol, MkSymbol, Symbol
<1>5. ASSUME NEW j \in 1..Len(a[c].decls), d \in DeclSymbols(a[c].decls[j], a[c].id)
      PROVE  d \in Symbol
  <2> DEFINE e == a[c].decls[j]
  <2>1. e \in Declaration /\ DeclShape(e)
    BY TreeFacts
  <2> HIDE DEF e
  <2>2. /\ e.ids \in Seq(Identifier) /\ e.id \in Identifier \cup {NULL}
        /\ e.type \in BasicType \cup Identifier \cup {NULL}
        /\ e.periods \in Seq(Period) /\ e.members \in Seq(Member)
        /\ e.kind \in {"CONST_DECLARATION", "ARRAY", "RECORD"} => e.id \in Identifier
        /\ e.kind \notin {"CONST_DECLARATION", "RECORD"} => e.type \in BasicType \cup Identifier
        /\ Len(e.periods) <= MaxDimension
    BY <2>1 DEF Declaration, DeclShape
  <2>3. /\ \A k \in 1..Len(e.ids) : e.ids[k] \in Identifier /\ k \in Nat
        /\ Len(e.periods) \in Nat /\ Len(e.members) \in Nat
        /\ \A k \in 1..Len(e.periods) : e.periods[k].end \in Nat
        /\ \A k \in 1..Len(e.members) : e.members[k] \in Member
    <3>1. \A k \in 1..Len(e.ids) : e.ids[k] \in Identifier /\ k \in Nat
      BY <2>2, ElementOfSeq, LenProperties
    <3>2. Len(e.periods) \in Nat /\ Len(e.members) \in Nat
      BY <2>2, LenProperties
    <3>3. \A k \in 1..Len(e.periods) : e.periods[k] \in Period
      BY <2>2, ElementOfSeq
    <3>4. \A k \in 1..Len(e.members) : e.members[k] \in Member
      BY <2>2, ElementOfSeq
    <3> QED
      BY <3>1, <3>2, <3>3, <3>4 DEF Period
  <2>4. \A k \in 1..Len(e.periods) : DimensionName[k] \in Identifier
    BY <2>2, <2>3, DimensionAssumption
  <2>5. \A k \in 1..Len(e.members) :
           /\ e.members[k].type \in BasicType \cup Identifier
           /\ \A l \in 1..Len(e.members[k].ids) : e.members[k].ids[l] \in Identifier
    <3> TAKE k \in 1..Len(e.members)
    <3>1. e.members[k].type \in BasicType \cup Identifier /\ e.members[k].ids \in Seq(Identifier)
      BY <2>3 DEF Member
    <3> QED
      BY <3>1, ElementOfSeq
  <2>6. d \in DeclSymbols(e, a[c].id)
    BY <1>5 DEF e
  <2>7. CASE e.kind \in ParameterKind
    <3>1. Ref(e.kind) \in 0..2
      BY DEF Ref
    <3> QED
      BY <1>2, <1>3, <2>2, <2>3, <2>6, <2>7, <3>1, SymbolKinds DEF MkSymbol, Symbol, ParameterKind
  <2>8. CASE e.kind = "CONST_DECLARATION"
    BY <1>2, <1>3, <2>2, <2>6, <2>8, SymbolKinds DEF MkSymbol, Symbol
  <2>9. CASE e.kind = "ARRAY"
    <3>1. e.id \in Identifier /\ e.type \in SymbolType
      BY <1>3, <2>2, <2>9
    <3>2. \/ d = MkSymbol(e.id, "array", Len(e.periods), a[c].id, 0, 0)
          \/ \E k \in 1..Len(e.periods) :
                d = MkSymbol(DimensionName[k], e.type, e.periods[k].end, e.id, 0, 0)
      BY <2>6, <2>9, SymbolKinds
    <3>3. MkSymbol(e.id, "array", Len(e.periods), a[c].id, 0, 0) \in Symbol
      BY <1>2, <1>3, <2>3, <3>1 DEF MkSymbol, Symbol
    <3>4. \A k \in 1..Len(e.periods) :
             MkSymbol(DimensionName[k], e.type, e.periods[k].end, e.id, 0, 0) \in Symbol
      BY <2>3, <2>4, <3>1 DEF MkSymbol, Symbol
    <3> QED
      BY <3>2, <3>3, <3>4
  <2>10. CASE e.kind = "RECORD"
    <3>1. e.id \in Identifier
      BY <2>2, <2>10
    <3>2. \/ d = MkSymbol(e.id, "record", Len(e.members), a[c].id, 0, 0)
          \/ \E k \in 1..Len(e.members) : \E l \in 1..Len(e.members[k].ids) :
                d = MkSymbol(e.members[k].ids[l], e.members[k].type, 0, e.id, 0, 0)
      BY <2>6, <2>10, SymbolKinds
    <3>3. MkSymbol(e.id, "record", Len(e.members), a[c].id, 0, 0) \in Symbol
      BY <1>2, <1>3, <2>3, <3>1 DEF MkSymbol, Symbol
    <3>4. \A k \in 1..Len(e.members) : \A l \in 1..Len(e.members[k].ids) :
             MkSymbol(e.members[k].ids[l], e.members[k].type, 0, e.id, 0, 0) \in Symbol
      BY <1>3, <2>5, <3>1 DEF MkSymbol, Symbol
    <3> QED
      BY <3>2, <3>3, <3>4
  <2>11. CASE e.kind = "VAR_DECLARATION"
    BY <1>2, <1>3, <2>2, <2>3, <2>6, <2>11, SymbolKinds DEF MkSymbol, Symbol
  <2> QED
    BY <2>1, <2>7, <2>8, <2>9, <2>10, <2>11 DEF Declaration, ParameterKind
<1> QED
  BY <1>1, <1>4, <1>5

\* What a scope holds that is the scope of a subprogram: its own symbols, and that of
\* the program when the subprogram is called `null`.
LEMMA InSubprogram ==
    ASSUME NEW a, IsAst(a), Hygienic(a), NEW b \in 2..Len(a),
           NEW d \in Declared(a), d.scope = a[b].id
    PROVE  \/ d = HeadSymbol(a, b) \/ d = HeadSymbol(a, 1)
           \/ \E j \in 1..Len(a[b].decls) :
                 /\ a[b].decls[j].kind \notin {"ARRAY", "RECORD"}
                 /\ d \in DeclSymbols(a[b].decls[j], a[b].id)
<1>1. PICK c \in 1..Len(a) :
         \/ d = HeadSymbol(a, c)
         \/ \E j \in 1..Len(a[c].decls) :
               Visited(c, a[c].decls[j]) /\ d \in DeclSymbols(a[c].decls[j], a[c].id)
  BY SymbolOrigin
<1>2. /\ Len(a) \in Nat \ {0} /\ b \in 1..Len(a) /\ 1 \in 1..Len(a) /\ b # 1
      /\ \A e \in 1..Len(a) : a[b].id = a[e].id => b = e
  BY TreeFacts DEF Hygienic
<1>3. CASE d = HeadSymbol(a, c)
  BY <1>2, <1>3 DEF HeadSymbol, MkSymbol
<1>4. ASSUME NEW j \in 1..Len(a[c].decls), Visited(c, a[c].decls[j]),
             d \in DeclSymbols(a[c].decls[j], a[c].id)
      PROVE  \E l \in 1..Len(a[b].decls) :
                /\ a[b].decls[l].kind \notin {"ARRAY", "RECORD"}
                /\ d \in DeclSymbols(a[b].decls[l], a[b].id)
  <2> DEFINE e == a[c].decls[j]
  <2>1. e \in Declaration
    BY TreeFacts
  <2>2. CASE e.kind \in {"ARRAY", "RECORD"}
    <3>1. c = 1 /\ j \in Types(a[1])
      BY <1>4, <2>2 DEF Visited, Types
    <3>2. a[b].id # e.id /\ a[b].id # a[1].id
      BY <1>2, <3>1 DEF Hygienic
    <3>3. d.scope \in {e.id, a[c].id}
      BY <1>4, <2>2, SymbolKinds DEF MkSymbol
    <3> QED
      BY <3>1, <3>2, <3>3
  <2>3. CASE e.kind \notin {"ARRAY", "RECORD"}
    <3>1. d.scope = a[c].id
      BY <1>4, <2>1, <2>3, SymbolKinds DEF MkSymbol, Declaration, ParameterKind
    <3> QED
      BY <1>2, <1>4, <2>3, <3>1
  <2> QED
    BY <2>2, <2>3
<1> QED
  BY <1>1, <1>3, <1>4

\* A declaration that the walk visits gives its symbols to the program.
LEMMA SymbolGiven ==
    ASSUME NEW a, IsAst(a), NEW c \in 1..Len(a), NEW j \in 1..Len(a[c].decls),
           Visited(c, a[c].decls[j])
    PROVE  DeclSymbols(a[c].decls[j], a[c].id) \subseteq Declared(a)
BY SymbolOrigin

-----------------------------------------------------------------------------
(* How a name is printed *)

\* Form, with the declaration in place of what the table finds.
FormOf(a, n, s) ==
    LET sym == Answer(a, n, s)
    IN  IF sym = NULL THEN "plain"
        ELSE IF sym.arg # 0 /\ sym.ref = 2 THEN "deref"
        ELSE IF sym.name = sym.scope THEN "result"
        ELSE "plain"

\* The names that the head of block b passes by reference.
ByReferenceNames(a, b) ==
    UNION {Range(a[b].decls[j].ids) :
              j \in {l \in 1..Len(a[b].decls) : a[b].decls[l].kind = "VAR_PARAMETER"}}

\* A name is dereferenced in a subprogram when it is a parameter passed by reference.
LEMMA DerefForm ==
    ASSUME NEW a, IsAst(a), Hygienic(a), NEW b \in 2..Len(a), NEW n
    PROVE  FormOf(a, n, a[b].id) = "deref" <=> n \in ByReferenceNames(a, b)
<1> DEFINE sym == Answer(a, n, a[b].id)
<1>1. UniqueKeys(a) /\ b \in 1..Len(a) /\ a[b].id \in Identifier
  BY TreeFacts DEF Hygienic
<1>2. ASSUME FormOf(a, n, a[b].id) = "deref" PROVE n \in ByReferenceNames(a, b)
  <2>1. sym # NULL /\ sym.arg # 0 /\ sym.ref = 2
    BY <1>2 DEF FormOf
  <2>2. sym \in Declared(a) /\ sym.name = n /\ sym.scope = a[b].id
    BY <1>1, <2>1, AnswerIs
  <2> HIDE DEF sym
  <2>3. sym # HeadSymbol(a, b) /\ sym # HeadSymbol(a, 1)
    BY <2>1 DEF HeadSymbol, MkSymbol
  <2>4. PICK j \in 1..Len(a[b].decls) :
                /\ a[b].decls[j].kind \notin {"ARRAY", "RECORD"}
                /\ sym \in DeclSymbols(a[b].decls[j], a[b].id)
    BY <2>2, <2>3, InSubprogram
  <2> DEFINE e == a[b].decls[j]
  <2>5. e \in Declaration
    BY <1>1, TreeFacts
  <2>6. e.kind \in ParameterKind
    BY <2>1, <2>4, <2>5, SymbolKinds DEF MkSymbol, Declaration, ParameterKind
  <2>7. PICK k \in 1..Len(e.ids) : sym = MkSymbol(e.ids[k], e.type, 0, a[b].id, k, Ref(e.kind))
    BY <2>4, <2>6, SymbolKinds
  <2>8. n = e.ids[k] /\ Ref(e.kind) = 2
    BY <2>1, <2>2, <2>7 DEF MkSymbol
  <2>9. e.kind = "VAR_PARAMETER"
    BY <2>6, <2>8 DEF Ref, ParameterKind
  <2>10. e.ids \in Seq(Identifier)
    BY <2>5 DEF Declaration
  <2>11. n \in Range(e.ids)
    BY <2>8, <2>10 DEF Range
  <2> QED
    BY <2>9, <2>11 DEF ByReferenceNames
<1>3. ASSUME n \in ByReferenceNames(a, b) PROVE FormOf(a, n, a[b].id) = "deref"
  <2>1. PICK j \in 1..Len(a[b].decls) :
                a[b].decls[j].kind = "VAR_PARAMETER" /\ n \in Range(a[b].decls[j].ids)
    BY <1>3 DEF ByReferenceNames
  <2> DEFINE e == a[b].decls[j]
  <2>2. e.ids \in Seq(Identifier)
    BY <1>1, TreeFacts DEF Declaration
  <2>3. PICK k \in 1..Len(e.ids) : n = e.ids[k]
    BY <2>1, <2>2 DEF Range
  <2> DEFINE d == MkSymbol(n, e.type, 0, a[b].id, k, 2)
  <2>4. Ref(e.kind) = 2 /\ e.kind \in ParameterKind /\ Visited(b, e)
    BY <2>1 DEF Ref, ParameterKind, Visited
  <2>5. d \in DeclSymbols(e, a[b].id)
    BY <2>3, <2>4, SymbolKinds
  <2>6. d \in Declared(a)
    BY <1>1, <2>4, <2>5, SymbolGiven
  <2>7. d.name = n /\ d.scope = a[b].id /\ d.ref = 2 /\ d.arg = k /\ k # 0
    BY <2>2, LenProperties DEF MkSymbol
  <2> HIDE DEF d
  <2>8. sym = d /\ d # NULL
    BY <1>1, <2>6, <2>7, AnswerIs, SymbolsTyped
  <2> QED
    BY <2>7, <2>8 DEF FormOf
<1> QED
  BY <1>2, <1>3

\* A name is printed as a result in a subprogram when it is the name of the subprogram.
LEMMA ResultForm ==
    ASSUME NEW a, IsAst(a), Hygienic(a), NEW b \in 2..Len(a), NEW n
    PROVE  FormOf(a, n, a[b].id) = "result" <=> n = a[b].id
<1> DEFINE sym == Answer(a, n, a[b].id)
<1>1. UniqueKeys(a) /\ b \in 1..Len(a) /\ b # 1
  BY TreeFacts DEF Hygienic
<1>2. ASSUME FormOf(a, n, a[b].id) = "result" PROVE n = a[b].id
  BY <1>1, <1>2, AnswerIs DEF FormOf
<1>3. ASSUME n = a[b].id PROVE FormOf(a, n, a[b].id) = "result"
  <2> DEFINE d == HeadSymbol(a, b)
  <2>1. d \in Declared(a)
    BY <1>1, SymbolOrigin
  <2>2. d.name = n /\ d.scope = a[b].id /\ d.arg = 0
    BY <1>1, <1>3 DEF HeadSymbol, MkSymbol
  <2> HIDE DEF d
  <2>3. sym = d /\ d # NULL
    BY <1>1, <2>1, <2>2, AnswerIs, SymbolsTyped
  <2> QED
    BY <1>3, <2>2, <2>3 DEF FormOf
<1> QED
  BY <1>2, <1>3

\* The parameter groups of a block are its first declarations.
LEMMA ParamsAre ==
    ASSUME NEW a, IsAst(a), NEW b \in 1..Len(a)
    PROVE  LET n == Len(Params(a[b]))
           IN  /\ n \in 0..Len(a[b].decls)
               /\ \A j \in 1..n : Params(a[b])[j] = a[b].decls[j]
               /\ \A j \in 1..Len(a[b].decls) : a[b].decls[j].kind \in ParameterKind <=> j <= n
<1>1. Proved!IsAst(a)
  BY DEF Proved!IsAst, IsAst, Proved!Block, Block, Proved!DeclOrder, DeclOrder,
         Proved!DeclShape, DeclShape, Proved!DeclRank, DeclRank, Proved!Declaration, Declaration,
         Proved!Member, Member, Proved!Period, Period, Proved!Reference, Reference,
         Proved!BasicType, Proved!Keyword, BasicType, Keyword
<1>2. Proved!Params(a[b]) = Params(a[b]) /\ Proved!ParameterKind = ParameterKind
  BY DEF Proved!Params, Params, Proved!ParameterKind, ParameterKind,
         Proved!Cardinality, Cardinality
<1> QED
  BY <1>1, <1>2, ConstantsRight, Proved!ParamsFirst

\* Does the head of block b pass its parameter number k by reference?  The groups count
\* from 1 each, and the first that has a number k answers.
ByReferenceAt(a, b, k) ==
    LET params == Params(a[b])
        long   == {g \in 1..Len(params) : k <= Len(params[g].ids)}
    IN  long # {} /\ params[FirstIndex(long)].kind = "VAR_PARAMETER"

\* The table as the generator finds it.
LEMMA TableReady ==
    ASSUME MainInv, TableInv, stage = "GENERATE", root = "PROGRAM_STRUCT"
    PROVE  /\ IsAst(ast) /\ syms \in Seq(Symbol) /\ Entries(syms) = Declared(ast)
           /\ Hygienic(ast) => \A b \in 2..Len(ast), k \in Nat \ {0} :
                 ByReference(ast[b].id, k) <=> ByReferenceAt(ast, b, k)
<1>1. pc = "DONE" /\ Entries(syms) = Declared(ast)
  BY Complete
<1>2. IsAst(ast)
  BY CompiledAssumption DEF TableInv, Proved!WalkInv, Proved!TypeOK
<1>3. syms \in Seq(Symbol)
  BY DEF TableInv, Proved!WalkInv, Proved!TypeOK, Proved!Symbol, Symbol, Proved!SymbolType, SymbolType,
         Proved!BasicType, Proved!Keyword, BasicType, Keyword
<1>4. ASSUME Hygienic(ast), NEW b \in 2..Len(ast), NEW k \in Nat \ {0}
      PROVE  ByReference(ast[b].id, k) <=> ByReferenceAt(ast, b, k)
  <2> DEFINE params == Params(ast[b])
             long  == {g \in 1..Len(params) : k <= Len(params[g].ids)}
             found == get_symbol_by_arg(syms, k, ast[b].id)
             p     == params[FirstIndex(long)]
  <2>1. Proved!Sole(b)
    BY <1>2, <1>4, TreeFacts DEF Proved!Sole, Hygienic
  <2>2. IF long = {} THEN found = NULL
        ELSE found = MkSymbol(p.ids[k], p.type, 0, ast[b].id, k, Ref(p.kind))
    <3>1. /\ Proved!Params(ast[b]) = params /\ Proved!ParameterKind = ParameterKind
      BY DEF Proved!Params, Params, Proved!ParameterKind, ParameterKind,
             Proved!Cardinality, Cardinality
    <3>2. \A K : Proved!FirstIndex(K) = FirstIndex(K)
      BY DEF Proved!FirstIndex, FirstIndex
    <3>3. Proved!get_symbol_by_arg(syms, k, ast[b].id) = found
      BY <3>2 DEF Proved!get_symbol_by_arg, get_symbol_by_arg, Proved!FirstOf, FirstOf
    <3>4. \A n, t, s, r : Proved!MkSymbol(n, t, 0, s, k, r) = MkSymbol(n, t, 0, s, k, r)
      BY DEF Proved!MkSymbol, MkSymbol
    <3>5. \A kind : Proved!Ref(kind) = Ref(kind)
      BY DEF Proved!Ref, Ref
    <3> HIDE DEF params
    <3> QED
      BY <1>1, <2>1, <3>1, <3>2, <3>3, <3>4, <3>5, ConstantsRight, Proved!FirstGroup DEF TableInv
  <2>3. ByReference(ast[b].id, k) <=> found # NULL /\ found.ref = 2
    BY DEF ByReference
  <2>4. CASE long = {}
    BY <2>2, <2>3, <2>4 DEF ByReferenceAt
  <2>5. CASE long # {}
    <3>1. found.arg = k /\ found.ref = Ref(p.kind)
      <4>1. found = MkSymbol(p.ids[k], p.type, 0, ast[b].id, k, Ref(p.kind))
        BY <2>2, <2>5
      <4> HIDE DEF found, p
      <4> QED
        BY <4>1 DEF MkSymbol
    <3>2. found # NULL
      <4> DEFINE g == FirstIndex(long)
                 decls == ast[b].decls
      <4>1. b \in 1..Len(ast)
        BY <1>2, TreeFacts
      <4>2. /\ Len(params) \in 0..Len(decls) /\ Len(decls) \in Nat
            /\ \A j \in 1..Len(params) : params[j] = decls[j]
            /\ \A j \in 1..Len(decls) : decls[j].kind \in ParameterKind <=> j <= Len(params)
        BY <1>2, <4>1, ParamsAre, TreeFacts
      <4>3. g \in long
        <5>1. long \subseteq Nat
          BY <4>2
        <5> HIDE DEF long
        <5> QED
          BY <2>5, <5>1, FirstIsLeast
      <4> HIDE DEF g
      <4>4. g \in 1..Len(decls) /\ params[g] = decls[g] /\ decls[g].kind \in ParameterKind
        <5> HIDE DEF params, decls
        <5> QED
          BY <4>2, <4>3
      <4>5. k \in 1..Len(decls[g].ids)
        <5>1. decls[g].ids \in Seq(Identifier)
          BY <1>2, <4>1, <4>4, TreeFacts DEF Declaration
        <5>2. k <= Len(decls[g].ids)
          BY <4>3, <4>4
        <5> QED
          BY <5>1, <5>2, LenProperties
      <4>6. found = MkSymbol(decls[g].ids[k], decls[g].type, 0, ast[b].id, k, Ref(decls[g].kind))
        BY <2>2, <2>5, <4>4 DEF g
      <4>7. found \in DeclSymbols(decls[g], ast[b].id)
        BY <4>4, <4>5, <4>6, SymbolKinds
      <4>8. Visited(b, decls[g])
        BY <4>4 DEF Visited, ParameterKind
      <4> QED
        BY <1>2, <4>1, <4>4, <4>7, <4>8, SymbolGiven, SymbolsTyped
    <3> QED
      BY <2>3, <2>5, <3>1, <3>2 DEF ByReferenceAt, Ref
  <2> QED
    BY <2>4, <2>5
<1> QED
  BY <1>1, <1>2, <1>3, <1>4

\* What item x shows of reference r, when it is printed under scope s.
Prints(a, x, r, s) ==
    /\ x.id = r.id
    /\ r.kind = "VARIABLE" =>
          LET sym == Answer(a, r.id, s)
          IN  /\ x.item = "name" /\ x.form = FormOf(a, r.id, s)
              /\ x.member = IF sym = NULL THEN NULL ELSE r.member
              /\ x.index = [k \in 1..Len(r.args) |->
                              [id   |-> r.args[k],
                               form |-> FormOf(a, r.args[k], IF sym = NULL THEN s ELSE sym.type)]]
    /\ r.kind # "VARIABLE" =>
          /\ x.item = r.kind
          /\ DOMAIN x.args = 1..Len(r.args) /\ Len(x.args) = Len(r.args)
          /\ \A k \in 1..Len(r.args) :
                x.args[k].id = r.args[k] /\ x.args[k].form = FormOf(a, r.args[k], s)
    /\ r.kind = "PROCEDURE_CALL" =>
          \A b \in 2..Len(a) : a[b].id = r.id =>
             \A k \in 1..Len(r.args) : x.args[k].mark <=> ByReferenceAt(a, b, k)

LEMMA ReferencePrinted ==
    ASSUME IsAst(ast), Hygienic(ast), syms \in Seq(Symbol), Entries(syms) = Declared(ast),
           \A b \in 2..Len(ast), k \in Nat \ {0} :
              ByReference(ast[b].id, k) <=> ByReferenceAt(ast, b, k),
           NEW r \in Reference, NEW s
    PROVE  Prints(ast, ReferenceItem(r, s), r, s)
<1> DEFINE x == ReferenceItem(r, s)
           args == r.args
<1> SUFFICES Prints(ast, x, r, s)
  OBVIOUS
<1>1. \A n, t : get_symbol(syms, n, t) = Answer(ast, n, t)
  BY LookUp DEF Hygienic
<1>2. \A n, t : Form(n, t) = FormOf(ast, n, t)
  BY <1>1 DEF Form, FormOf
<1>3. \A n, t : IndexScope(n, t) = IF Answer(ast, n, t) = NULL THEN t ELSE Answer(ast, n, t).type
  BY <1>1 DEF IndexScope
<1>4. args \in Seq(Identifier) /\ Len(args) \in Nat /\ DOMAIN args = 1..Len(args)
  BY LenProperties DEF Reference
<1>5. CASE r.kind = "VARIABLE"
  <2>1. x = VariableItem(r, s)
    BY <1>5 DEF ReferenceItem
  <2>2. /\ x.id = r.id /\ x.item = "name" /\ x.form = Form(r.id, s)
        /\ x.member = IF get_symbol(syms, r.id, s) = NULL THEN NULL ELSE r.member
        /\ x.index = [k \in 1..Len(args) |->
                        [id |-> args[k], form |-> Form(args[k], IndexScope(r.id, s))]]
    BY <2>1 DEF VariableItem
  <2> HIDE DEF x
  <2> QED
    BY <1>1, <1>2, <1>3, <1>5, <2>2 DEF Prints
<1>6. ASSUME NEW marked, x = CallItem(r, s, marked), r.kind # "VARIABLE"
      PROVE  /\ x.id = r.id /\ x.item = r.kind
             /\ DOMAIN x.args = 1..Len(args) /\ Len(x.args) = Len(args)
             /\ \A k \in 1..Len(args) :
                   /\ x.args[k].id = args[k] /\ x.args[k].form = FormOf(ast, args[k], s)
                   /\ x.args[k].mark <=> k \in marked
  <2>1. /\ x.id = r.id /\ x.item = r.kind
        /\ x.args = [k \in 1..Len(args) |->
                       [id |-> args[k], form |-> Form(args[k], s), mark |-> k \in marked]]
    BY <1>6 DEF CallItem
  <2> HIDE DEF x
  <2>2. DOMAIN x.args = 1..Len(args) /\ Len(x.args) = Len(args)
    BY <1>4, <2>1
  <2>3. \A k \in 1..Len(args) :
           x.args[k].id = args[k] /\ x.args[k].form = FormOf(ast, args[k], s)
    BY <1>2, <2>1
  <2>4. \A k \in 1..Len(args) : x.args[k].mark <=> k \in marked
    <3> TAKE k \in 1..Len(args)
    <3>1. x.args[k] = [id |-> args[k], form |-> Form(args[k], s), mark |-> k \in marked]
      BY <2>1, Zenon
    <3>2. [id |-> args[k], form |-> Form(args[k], s), mark |-> k \in marked].mark <=> k \in marked
      BY Zenon
    <3> QED
      BY <3>1, <3>2, Zenon
  <2> QED
    BY <2>1, <2>2, <2>3, <2>4
<1>7. CASE r.kind = "FACTOR"
  <2>1. x = CallItem(r, s, {})
    BY <1>7 DEF ReferenceItem
  <2> HIDE DEF x
  <2> QED
    BY <1>6, <1>7, <2>1 DEF Prints
<1>8. CASE r.kind = "PROCEDURE_CALL" /\ r.id = "read"
  <2>1. x = CallItem(r, s, DOMAIN args)
    BY <1>8 DEF ReferenceItem
  <2>2. \A b \in 2..Len(ast) : ast[b].id # r.id
    BY <1>8 DEF Hygienic
  <2> HIDE DEF x
  <2> QED
    BY <1>6, <1>8, <2>1, <2>2 DEF Prints
<1>9. CASE r.kind = "PROCEDURE_CALL" /\ r.id # "read"
  <2> DEFINE marked == {k \in DOMAIN args : ByReference(r.id, k)}
  <2>1. x = CallItem(r, s, marked)
    BY <1>9 DEF ReferenceItem
  <2>2. \A b \in 2..Len(ast) : ast[b].id = r.id =>
           \A k \in 1..Len(args) : k \in marked <=> ByReferenceAt(ast, b, k)
    BY <1>4
  <2> HIDE DEF x, marked
  <2> QED
    BY <1>6, <1>9, <2>1, <2>2 DEF Prints
<1> QED
  BY <1>5, <1>7, <1>8, <1>9 DEF Reference

-----------------------------------------------------------------------------
(* Where an item stands *)

Heads == {"function", "main"}

\* The items that print names of statements.
Uses == Call \cup {"name"}

\* f is the last head at or before position k of the text o.
IsHead(o, f, k) ==
    /\ f \in 1..k /\ o[f].item \in Heads
    /\ \A j \in (f + 1)..k : o[j].item \notin Heads

NoHead(o, k) == \A j \in 1..k : o[j].item \notin Heads

\* HeadItem of a tree that is given.
HeadOf(a, item, b) ==
    [item   |-> item, id |-> a[b].id,
     result |-> IF a[b].result = NULL THEN "void" ELSE var_type_change(a[b].result),
     params |-> LET params == Params(a[b])
                IN  [g \in 1..Len(params) |->
                       [k \in 1..Len(params[g].ids) |->
                          [type    |-> var_type_change(params[g].type),
                           pointer |-> params[g].kind = "VAR_PARAMETER",
                           id      |-> params[g].ids[k]]]]]

LEMMA HeadIs == \A item, b : HeadItem(item, b) = HeadOf(ast, item, b)
BY DEF HeadItem, HeadOf

\* The head of the C function that a block becomes.
FunctionOf(a, b) == IF b = 1 THEN Simple("main", NULL) ELSE HeadOf(a, "function", b)

LEMMA FunctionFacts ==
    \A a, b : /\ FunctionOf(a, b).item = IF b = 1 THEN "main" ELSE "function"
              /\ b # 1 => FunctionOf(a, b).id = a[b].id
BY DEF FunctionOf, HeadOf, Simple

\* Position k is inside the C function of block b.
Within(a, o, b, k) == \E f \in 1..k : IsHead(o, f, k) /\ o[f] = FunctionOf(a, b)

\* Enclosing finds the last head.
LEMMA EnclosingIs ==
    ASSUME NEW k \in Nat
    PROVE  /\ Enclosing(k) # 0 => IsHead(out, Enclosing(k), k)
           /\ \A f : IsHead(out, f, k) => Enclosing(k) = f
           /\ Enclosing(k) = 0 <=> NoHead(out, k)
<1> DEFINE heads == {j \in 1..k : out[j].item \in Heads}
<1>1. Enclosing(k) = IF heads = {} THEN 0 ELSE Max(heads)
  BY DEF Enclosing, Heads
<1>2. ASSUME heads # {}
      PROVE  Max(heads) \in heads /\ \A j \in heads : j <= Max(heads)
  <2> DEFINE after == {k - j : j \in heads}
  <2>1. after \subseteq Nat /\ after # {}
    BY <1>2
  <2>2. FirstIndex(after) \in after /\ \A j \in after : FirstIndex(after) <= j
    <3> HIDE DEF after
    <3> QED
      BY <2>1, FirstIsLeast
  <2>3. PICK last \in heads : FirstIndex(after) = k - last
    BY <2>2
  <2>4. \A j \in heads : j \in Nat /\ last >= j
    <3> TAKE j \in heads
    <3>1. k - last <= k - j
      BY <2>2, <2>3
    <3>2. j \in Nat /\ last \in Nat
      OBVIOUS
    <3> HIDE DEF heads
    <3> QED
      BY <3>1, <3>2
  <2>5. \E x \in heads : \A y \in heads : x >= y
    BY <2>4
  <2>6. Max(heads) \in heads /\ \A y \in heads : Max(heads) >= y
    <3> HIDE DEF heads
    <3> QED
      BY <2>5 DEF Max
  <2> QED
    BY <2>6
<1>3. Enclosing(k) # 0 => IsHead(out, Enclosing(k), k)
  <2> SUFFICES ASSUME Enclosing(k) # 0 PROVE IsHead(out, Enclosing(k), k)
    OBVIOUS
  <2>1. Enclosing(k) \in heads /\ \A j \in heads : j <= Enclosing(k)
    BY <1>1, <1>2
  <2> QED
    BY <2>1 DEF IsHead
<1>4. ASSUME NEW f, IsHead(out, f, k) PROVE Enclosing(k) = f
  <2>1. f \in heads /\ \A j \in heads : j <= f
    BY <1>4 DEF IsHead
  <2>2. Max(heads) \in heads /\ f <= Max(heads) /\ Enclosing(k) = Max(heads)
    BY <1>1, <1>2, <2>1
  <2> HIDE DEF heads
  <2>3. Max(heads) <= f
    BY <2>1, <2>2
  <2>4. f \in Nat /\ Max(heads) \in Nat
    BY <2>1, <2>2 DEF heads
  <2> QED
    BY <2>2, <2>3, <2>4
<1>5. Enclosing(k) = 0 <=> NoHead(out, k)
  <2>1. NoHead(out, k) <=> heads = {}
    BY DEF NoHead
  <2>2. heads # {} => Enclosing(k) # 0
    BY <1>1, <1>2
  <2> QED
    BY <1>1, <2>1, <2>2
<1> QED
  BY <1>3, <1>4, <1>5

\* What is printed stays where it is when more is printed.
Longer(o, more) ==
    /\ Len(o) \in Nat /\ Len(more) \in Nat /\ Len(o) <= Len(more)
    /\ \A k \in 1..Len(o) : more[k] = o[k]

LEMMA WithinStays ==
    ASSUME NEW a, NEW o, NEW more, Longer(o, more), NEW k \in 1..Len(o), NEW b
    PROVE  /\ \A f : IsHead(more, f, k) <=> IsHead(o, f, k)
           /\ Within(a, more, b, k) <=> Within(a, o, b, k)
           /\ NoHead(more, k) <=> NoHead(o, k)
<1>1. \A f : f \in 1..k => f \in 1..Len(o) /\ more[f] = o[f]
  BY DEF Longer
<1>2. \A f \in 1..k : \A j \in (f + 1)..k : j \in 1..Len(o) /\ more[j] = o[j]
  BY DEF Longer
<1>3. \A f : IsHead(more, f, k) <=> IsHead(o, f, k)
  BY <1>1, <1>2 DEF IsHead
<1>4. NoHead(more, k) <=> NoHead(o, k)
  BY <1>1 DEF NoHead
<1> QED
  BY <1>1, <1>3, <1>4 DEF Within

\* A function goes on until the next head.
LEMMA WithinGoesOn ==
    ASSUME NEW a, NEW o, NEW more, Longer(o, more), NEW b, Within(a, o, b, Len(o)),
           NEW n \in Len(o)..Len(more), \A k \in (Len(o) + 1)..n : more[k].item \notin Heads
    PROVE  Within(a, more, b, n)
<1>1. PICK f \in 1..Len(o) : IsHead(o, f, Len(o)) /\ o[f] = FunctionOf(a, b)
  BY DEF Within
<1>2. f \in 1..n /\ more[f] = o[f]
  BY <1>1 DEF Longer
<1>3. \A j \in (f + 1)..n : more[j].item \notin Heads
  <2> TAKE j \in (f + 1)..n
  <2>1. CASE j <= Len(o)
    <3>1. j \in (f + 1)..Len(o) /\ j \in 1..Len(o)
      BY <2>1 DEF Longer
    <3> QED
      BY <1>1, <3>1 DEF IsHead, Longer
  <2>2. CASE ~(j <= Len(o))
    <3>1. j \in (Len(o) + 1)..n
      BY <2>2 DEF Longer
    <3> QED
      BY <3>1
  <2> QED
    BY <2>1, <2>2
<1> QED
  BY <1>1, <1>2, <1>3 DEF IsHead, Within

LEMMA NoHeadGoesOn ==
    ASSUME NEW o, NEW more, Longer(o, more), NoHead(o, Len(o)),
           \A k \in (Len(o) + 1)..Len(more) : more[k].item \notin Heads
    PROVE  NoHead(more, Len(more))
<1> SUFFICES ASSUME NEW k \in 1..Len(more) PROVE more[k].item \notin Heads
  BY DEF NoHead
<1> QED
  BY DEF NoHead, Longer

-----------------------------------------------------------------------------
(* What each printed item is *)

\* A constant called id has been printed by position k.
Defined(o, k, id) == \E j \in 1..k : o[j] = Simple("define", id)

ConstOf(a, b, id) == \E d \in Range(a[b].decls) : d.kind = "CONST_DECLARATION" /\ d.id = id

\* The blocks whose constants are printed before the statements of block b are.
Above(a, b) == IF b = 1 THEN 1..Len(a) ELSE 1..b

\* The scope that statements are printed under: main keeps that of the last subprogram.
Scope(a, b) == IF b = 1 THEN a[Len(a)].id ELSE a[b].id

ResultOf(a, b) == Simple("result", var_type_change(a[b].id))

HeadOK(a, o, k) ==
    /\ o[k].item = "function" =>
          \E b \in 2..Len(a) : /\ o[k] = HeadOf(a, "function", b)
                               /\ a[b].result # NULL => k + 1 \in 1..Len(o) /\ o[k + 1] = ResultOf(a, b)
    /\ o[k].item = "prototype" => \E b \in 2..Len(a) : o[k] = HeadOf(a, "prototype", b)

\* A use of names shows a reference of the block it stands in, and the constants of the
\* blocks above it are those printed before it.
UseOK(a, o, k) ==
    o[k].item \in Uses =>
       \E b \in 1..Len(a) :
          /\ Within(a, o, b, k)
          /\ Hygienic(a) =>
                \E r \in 1..Len(a[b].body) : Prints(a, o[k], a[b].body[r], Scope(a, b))
          /\ \A id : Defined(o, k, id) <=> \E c \in Above(a, b) : ConstOf(a, c, id)

TextOK(a, o) == \A k \in 1..Len(o) : HeadOK(a, o, k) /\ UseOK(a, o, k)

LEMMA DefinedStays ==
    ASSUME NEW o, NEW more, Longer(o, more), NEW k \in 0..Len(o), NEW id
    PROVE  Defined(more, k, id) <=> Defined(o, k, id)
<1>1. \A j \in 1..k : j \in 1..Len(o) /\ more[j] = o[j]
  BY DEF Longer
<1> QED
  BY <1>1 DEF Defined

LEMMA TextGrows ==
    ASSUME NEW a, NEW o, NEW more, Longer(o, more), TextOK(a, o),
           \A k \in (Len(o) + 1)..Len(more) : HeadOK(a, more, k) /\ UseOK(a, more, k)
    PROVE  TextOK(a, more)
<1> SUFFICES ASSUME NEW k \in 1..Len(o) PROVE HeadOK(a, more, k) /\ UseOK(a, more, k)
  BY DEF TextOK, Longer
<1>1. /\ HeadOK(a, o, k) /\ UseOK(a, o, k)
      /\ k \in 1..Len(more) /\ more[k] = o[k]
      /\ k + 1 \in 1..Len(o) => k + 1 \in 1..Len(more) /\ more[k + 1] = o[k + 1]
  BY DEF TextOK, Longer
<1>2. HeadOK(a, more, k)
  BY <1>1 DEF HeadOK
<1>3. UseOK(a, more, k)
  <2>1. \A b : Within(a, more, b, k) <=> Within(a, o, b, k)
    BY WithinStays
  <2>2. \A id : Defined(more, k, id) <=> Defined(o, k, id)
    BY DefinedStays DEF Longer
  <2> QED
    BY <1>1, <2>1, <2>2 DEF UseOK
<1> QED
  BY <1>2, <1>3

\* Printing makes the text longer.
LEMMA Grown ==
    ASSUME NEW S, out \in Seq(S), NEW T, NEW items \in Seq(T), emit(items)
    PROVE  /\ \E U : out' \in Seq(U)
           /\ Longer(out, out') /\ Len(out') = Len(out) + Len(items)
           /\ \A k \in 1..Len(items) : out'[Len(out) + k] = items[k]
<1> DEFINE U == S \cup T
           n == Len(out)
<1>1. out \in Seq(U) /\ items \in Seq(U)
  BY SeqMonotonic
<1> HIDE DEF U
<1>2. /\ out' \in Seq(U) /\ Len(out') = n + Len(items)
      /\ \A k \in 1..(n + Len(items)) : out'[k] = IF k <= n THEN out[k] ELSE items[k - n]
      /\ n \in Nat /\ Len(items) \in Nat
  BY <1>1, ConcatProperties, LenProperties DEF emit
<1> HIDE DEF n
<1>3. \A k \in 1..n : out'[k] = out[k]
  BY <1>2
<1>4. \A k \in 1..Len(items) : out'[n + k] = items[k]
  <2> TAKE k \in 1..Len(items)
  <2>1. n + k \in 1..(n + Len(items)) /\ ~(n + k <= n) /\ (n + k) - n = k
    BY <1>2
  <2> QED
    BY <1>2, <2>1
<1> QED
  BY <1>2, <1>3, <1>4 DEF n, Longer

LEMMA GrownByOne ==
    ASSUME \E S : out \in Seq(S), NEW x, emit(<<x>>)
    PROVE  /\ \E U : out' \in Seq(U)
           /\ Longer(out, out') /\ Len(out') = Len(out) + 1
           /\ out'[Len(out')] = x
<1>1. <<x>> \in Seq({x}) /\ Len(<<x>>) = 1 /\ <<x>>[1] = x
  OBVIOUS
<1> HIDE DEF emit
<1>2. PICK S : out \in Seq(S)
  OBVIOUS
<1>3. /\ \E U : out' \in Seq(U)
      /\ Longer(out, out') /\ Len(out') = Len(out) + Len(<<x>>)
      /\ \A k \in 1..Len(<<x>>) : out'[Len(out) + k] = <<x>>[k]
  BY <1>1, <1>2, Grown
<1> QED
  BY <1>1, <1>3

\* One more item, if it is no head: the place stays, and only a #define defines.
LEMMA OneMore ==
    ASSUME NEW o, NEW more, Longer(o, more), Len(more) = Len(o) + 1
    PROVE  /\ \A id : Defined(more, Len(more), id) <=>
                         Defined(o, Len(o), id) \/ more[Len(more)] = Simple("define", id)
           /\ more[Len(more)].item \notin Heads =>
                 /\ NoHead(o, Len(o)) => NoHead(more, Len(more))
                 /\ \A a, b : Within(a, o, b, Len(o)) => Within(a, more, b, Len(more))
<1> DEFINE n == Len(o)
<1>1. n \in Nat /\ Len(more) = n + 1 /\ \A k \in 1..n : more[k] = o[k]
  BY DEF Longer
<1>2. ASSUME NEW id
      PROVE  Defined(more, n + 1, id) <=> Defined(o, n, id) \/ more[n + 1] = Simple("define", id)
  <2>1. \A j : j \in 1..(n + 1) <=> j \in 1..n \/ j = n + 1
    BY <1>1
  <2> HIDE DEF n
  <2> QED
    BY <1>1, <2>1 DEF Defined
<1>3. ASSUME more[n + 1].item \notin Heads
      PROVE  \A k \in (n + 1)..Len(more) : more[k].item \notin Heads
  <2>1. \A k \in (n + 1)..Len(more) : k = n + 1
    BY <1>1
  <2> QED
    BY <1>3, <2>1
<1>4. Len(more) \in n..Len(more)
  BY <1>1
<1> QED
  BY <1>1, <1>2, <1>3, <1>4, NoHeadGoesOn, WithinGoesOn

-----------------------------------------------------------------------------
(* Where the walk stands *)

\* What the walk knows of the last head and of scope_.
PlaceInv ==
    /\ \E S : out \in Seq(S)
    /\ gpc = "HEAD" => gi = 1
    /\ gpc \in {"HEAD", "PROTOTYPE"} \/ (gpc = "DECLARATION" /\ gblk = 1) => NoHead(out, Len(out))
    /\ gpc = "DECLARATION" => scope_ = ast[gblk].id
    /\ gpc = "DECLARATION" /\ gblk > 1 => Within(ast, out, gblk, Len(out))
    /\ gpc = "PROTOTYPE" => gblk > 1 /\ scope_ = ast[gblk - 1].id
    /\ gpc = "SUBPROGRAM" =>
          gblk > 1 /\ scope_ = ast[IF gblk = 2 THEN Len(ast) ELSE gblk - 1].id
    /\ gpc = "STATEMENT" => scope_ = Scope(ast, gblk) /\ Within(ast, out, gblk, Len(out))

\* The walk has gone past declaration j of block c.
GoneBy(c, j) ==
    \/ gpc = "DECLARATION" /\ (c < gblk \/ (c = gblk /\ j < gi))
    \/ gpc = "PROTOTYPE" /\ c = 1
    \/ gpc = "SUBPROGRAM" /\ c < gblk
    \/ gpc = "STATEMENT" /\ (gblk = 1 \/ c <= gblk)
    \/ gpc = "DONE"

\* The constants printed are those of the declarations gone past.
ConstantsInv ==
    \A id : Defined(out, Len(out), id) <=>
               \E c \in 1..Len(ast) : \E j \in 1..Len(ast[c].decls) :
                  /\ GoneBy(c, j)
                  /\ ast[c].decls[j].kind = "CONST_DECLARATION" /\ ast[c].decls[j].id = id

TextInv == TextOK(ast, out)

\* The steps that print the rest go past no declaration.
LEMMA GoneSame ==
    ASSUME IsAst(ast), GenTypeOK, PlaceInv, ast' = ast,
           \/ GenProgramHead \/ GenDeclarationsEnd \/ GenPrototype \/ GenPrototypesEnd
           \/ GenSubprogram \/ GenBodyBegin \/ GenReference \/ GenSubprogramEnd
           \/ GenMain \/ GenMainEnd \/ UNCHANGED <<gpc, gblk, gi>>,
           NEW c \in 1..Len(ast), NEW j \in 1..Len(ast[c].decls)
    PROVE  GoneBy(c, j)' <=> GoneBy(c, j)
<1>1. /\ Len(ast) \in Nat \ {0} /\ Len(ast[c].decls) \in Nat
      /\ gblk \in 1..Len(ast) + 1 /\ gi \in Nat \ {0}
  BY TreeFacts DEF GenTypeOK
<1> USE <1>1 DEF GoneBy
<1>2. CASE GenProgramHead
  BY <1>2 DEF GenProgramHead, PlaceInv
<1>3. CASE GenDeclarationsEnd
  BY <1>3 DEF GenDeclarationsEnd
<1>4. CASE GenPrototype
  BY <1>4 DEF GenPrototype
<1>5. CASE GenPrototypesEnd
  BY <1>5 DEF GenPrototypesEnd
<1>6. CASE GenSubprogram
  BY <1>6 DEF GenSubprogram
<1>7. CASE GenBodyBegin
  BY <1>7 DEF GenBodyBegin
<1>8. CASE GenReference
  BY <1>8 DEF GenReference
<1>9. CASE GenSubprogramEnd
  BY <1>9 DEF GenSubprogramEnd
<1>10. CASE GenMain
  BY <1>10 DEF GenMain
<1>11. CASE GenMainEnd
  BY <1>11 DEF GenMainEnd
<1>12. CASE UNCHANGED <<gpc, gblk, gi>>
  BY <1>12
<1> QED
  BY <1>2, <1>3, <1>4, <1>5, <1>6, <1>7, <1>8, <1>9, <1>10, <1>11, <1>12

\* The others go past the one they stand at.
LEMMA GoneNext ==
    ASSUME IsAst(ast), GenTypeOK, ast' = ast, GenConst \/ GenRecord \/ GenVar \/ GenSkip
    PROVE  /\ gblk \in 1..Len(ast) /\ gi \in 1..Len(ast[gblk].decls)
           /\ \A c \in 1..Len(ast) : \A j \in 1..Len(ast[c].decls) :
                 GoneBy(c, j)' <=> GoneBy(c, j) \/ (c = gblk /\ j = gi)
<1>1. /\ gpc = "DECLARATION" /\ gpc' = gpc /\ gblk' = gblk /\ gi' = gi + 1
      /\ gi <= Len(ast[gblk].decls)
  BY DEF GenConst, GenRecord, GenVar, GenSkip, AtGenDeclaration, ScopeAfterVar, MemberScope
<1>2. gblk \in 1..Len(ast) /\ gi \in Nat \ {0} /\ Len(ast) \in Nat
  BY <1>1, TreeFacts DEF GenTypeOK
<1>3. Len(ast[gblk].decls) \in Nat
  BY <1>2, TreeFacts
<1>4. \A c \in 1..Len(ast) : \A j \in 1..Len(ast[c].decls) :
                 GoneBy(c, j)' <=> GoneBy(c, j) \/ (c = gblk /\ j = gi)
  <2> TAKE c \in 1..Len(ast)
  <2> TAKE j \in 1..Len(ast[c].decls)
  <2>1. Len(ast[c].decls) \in Nat
    BY TreeFacts
  <2>2. j < gi + 1 <=> j < gi \/ j = gi
    BY <1>2, <2>1
  <2> QED
    BY <1>1, <1>2, <2>2 DEF GoneBy
<1> QED
  BY <1>1, <1>2, <1>3, <1>4

LEMMA ConstantsInit == CompilerInit => PlaceInv /\ ConstantsInv /\ TextInv
<1> SUFFICES ASSUME CompilerInit PROVE PlaceInv /\ ConstantsInv /\ TextInv
  OBVIOUS
<1>1. out = <<>> /\ gpc = "HEAD" /\ gi = 1
  BY DEF CompilerInit, GenInit
<1>2. out \in Seq({}) /\ Len(out) = 0
  BY <1>1
<1>3. PlaceInv
  BY <1>1, <1>2 DEF PlaceInv, NoHead
<1>4. ConstantsInv
  BY <1>1, <1>2 DEF ConstantsInv, Defined, GoneBy
<1>5. TextInv
  BY <1>2 DEF TextInv, TextOK
<1> QED
  BY <1>3, <1>4, <1>5

\* The constants follow the declarations.
LEMMA ConstantsStep ==
    ASSUME IsAst(ast), GenTypeOK, PlaceInv, ConstantsInv, ast' = ast,
           GenNext \/ UNCHANGED <<gpc, gblk, gi>>,
           \A id : Defined(out', Len(out'), id) <=>
                     Defined(out, Len(out), id) \/ (GenConst /\ id = gdecl.id)
    PROVE  ConstantsInv'
<1> DEFINE Const(c, j, id) ==
               ast[c].decls[j].kind = "CONST_DECLARATION" /\ ast[c].decls[j].id = id
<1>1. gi \in Nat
  BY DEF GenTypeOK
<1>2. SUFFICES \A c \in 1..Len(ast) : \A j \in 1..Len(ast[c].decls) :
                  \A id : Const(c, j, id) =>
                     (GoneBy(c, j)' <=> GoneBy(c, j) \/ (GenConst /\ c = gblk /\ j = gi))
  <2>1. GenConst => gblk \in 1..Len(ast) /\ gi \in 1..Len(ast[gblk].decls)
    BY GoneNext
  <2>2. GenConst => \A id : Const(gblk, gi, id) <=> id = gdecl.id
    BY DEF GenConst, AtGenDeclaration, gdecl
  <2>3. \A id : Defined(out, Len(out), id) <=>
                  \E c \in 1..Len(ast) : \E j \in 1..Len(ast[c].decls) :
                     GoneBy(c, j) /\ Const(c, j, id)
    BY DEF ConstantsInv
  <2> HIDE DEF Const
  <2>4. \A id : Defined(out', Len(out'), id) <=>
                  \E c \in 1..Len(ast) : \E j \in 1..Len(ast[c].decls) :
                     GoneBy(c, j)' /\ Const(c, j, id)
    BY <1>2, <2>1, <2>2, <2>3
  <2> QED
    BY <2>4 DEF ConstantsInv, Const
<1>3. CASE GenConst
  BY <1>3, GoneNext
<1>4. CASE GenRecord \/ GenVar \/ GenSkip
  <2>1. gdecl.kind # "CONST_DECLARATION" /\ ~GenConst
    BY <1>4 DEF GenRecord, GenVar, GenSkip, GenConst, AtGenDeclaration
  <2> QED
    BY <1>4, <2>1, GoneNext DEF gdecl
<1>5. CASE \/ GenProgramHead \/ GenDeclarationsEnd \/ GenPrototype \/ GenPrototypesEnd
           \/ GenSubprogram \/ GenBodyBegin \/ GenReference \/ GenSubprogramEnd
           \/ GenMain \/ GenMainEnd \/ UNCHANGED <<gpc, gblk, gi>>
  <2>1. ~GenConst
    <3>1. SUFFICES ASSUME GenConst PROVE FALSE
      OBVIOUS
    <3>2. /\ gpc = "DECLARATION" /\ gpc' = gpc /\ gi' = gi + 1 /\ gi <= Len(ast[gblk].decls)
          /\ gblk' = gblk
      BY <3>1 DEF GenConst, AtGenDeclaration
    <3> QED
      BY <1>1, <1>5, <3>2
      DEF GenProgramHead, GenDeclarationsEnd, GenPrototype, GenPrototypesEnd, GenSubprogram,
          GenBodyBegin, GenReference, GenSubprogramEnd, GenMain, GenMainEnd
  <2> QED
    BY <1>5, <2>1, GoneSame
<1> QED
  BY <1>3, <1>4, <1>5 DEF GenNext

-----------------------------------------------------------------------------
(* The steps of the walk *)

\* A reference is printed as a use of names.
LEMMA ReferenceUses ==
    ASSUME NEW r \in Reference, NEW s
    PROVE  ReferenceItem(r, s).item \in Uses
BY DEF ReferenceItem, VariableItem, CallItem, Reference, Uses, Call

\* The step prints nothing, or one item that is no head.
PrintsAtMost(x) == UNCHANGED out \/ (x.item \notin Heads /\ emit(<<x>>))

LEMMA StaysPut ==
    ASSUME \E S : out \in Seq(S), ast' = ast, NEW x, PrintsAtMost(x)
    PROVE  /\ \E U : out' \in Seq(U)
           /\ Longer(out, out')
           /\ NoHead(out, Len(out)) => NoHead(out', Len(out'))
           /\ \A b : Within(ast, out, b, Len(out)) => Within(ast', out', b, Len(out'))
           /\ \A id : Defined(out', Len(out'), id) <=>
                         \/ Defined(out, Len(out), id)
                         \/ out' # out /\ x = Simple("define", id)
           /\ \A k \in (Len(out) + 1)..Len(out') : k = Len(out') /\ out'[k] = x
<1>1. Len(out) \in Nat
  BY LenProperties
<1>2. CASE UNCHANGED out
  BY <1>1, <1>2 DEF Longer
<1>3. CASE x.item \notin Heads /\ emit(<<x>>)
  <2>1. /\ \E U : out' \in Seq(U)
        /\ Longer(out, out') /\ Len(out') = Len(out) + 1 /\ out'[Len(out')] = x
    BY <1>3, GrownByOne
  <2>2. /\ NoHead(out, Len(out)) => NoHead(out', Len(out'))
        /\ \A b : Within(ast, out, b, Len(out)) => Within(ast, out', b, Len(out'))
        /\ \A id : Defined(out', Len(out'), id) <=>
                      Defined(out, Len(out), id) \/ x = Simple("define", id)
    BY <1>3, <2>1, OneMore
  <2>3. out' # out
    BY <1>1, <2>1
  <2>4. \A k \in (Len(out) + 1)..Len(out') : k = Len(out')
    BY <1>1, <2>1
  <2> QED
    BY <2>1, <2>2, <2>3, <2>4
<1> QED
  BY <1>2, <1>3 DEF PrintsAtMost

\* What a step other than the two that open a function prints.
LEMMA StepPrints ==
    ASSUME IsAst(ast), GenTypeOK, \E S : out \in Seq(S), GenNext, ~GenSubprogram, ~GenMain
    PROVE  \E x : /\ PrintsAtMost(x)
                  /\ GenConst => emit(<<x>>) /\ x = Simple("define", gdecl.id)
                  /\ GenReference => emit(<<x>>) /\ x = ReferenceItem(ast[gblk].body[gi], scope_)
                  /\ GenPrototype => emit(<<x>>) /\ x = HeadOf(ast, "prototype", gblk)
                  /\ ~GenReference => x.item \notin Uses
                  /\ ~GenPrototype => x.item # "prototype"
                  /\ ~GenConst => x.item # "define"
<1> DEFINE Shown(x) ==
               /\ PrintsAtMost(x)
               /\ GenConst => emit(<<x>>) /\ x = Simple("define", gdecl.id)
               /\ GenReference => emit(<<x>>) /\ x = ReferenceItem(ast[gblk].body[gi], scope_)
               /\ GenPrototype => emit(<<x>>) /\ x = HeadOf(ast, "prototype", gblk)
               /\ ~GenReference => x.item \notin Uses
               /\ ~GenPrototype => x.item # "prototype"
               /\ ~GenConst => x.item # "define"
           none == Simple("none", NULL)
<1> SUFFICES \E x : Shown(x)
  OBVIOUS
<1>1. /\ GenConst => /\ gpc = "DECLARATION" /\ gi <= Len(ast[gblk].decls)
                      /\ gdecl.kind = "CONST_DECLARATION"
      /\ GenReference => gpc = "STATEMENT" /\ gi <= Len(ast[gblk].body)
      /\ GenPrototype => gpc = "PROTOTYPE" /\ gblk <= Len(ast)
  BY DEF GenConst, GenReference, GenPrototype, AtGenDeclaration
<1>2. none.item \notin Heads \cup Uses \cup {"prototype", "define"}
  BY DEF Simple, Heads, Uses, Call
<1>3. CASE \/ GenProgramHead \/ GenSkip \/ GenDeclarationsEnd \/ GenPrototypesEnd
           \/ GenBodyBegin \/ GenMainEnd
  <2>1. UNCHANGED out /\ ~GenConst /\ ~GenReference /\ ~GenPrototype
    <3>1. /\ gblk \in Int /\ gi \in Int /\ Len(ast) \in Int
          /\ gpc \in {"DECLARATION", "STATEMENT"} =>
                Len(ast[gblk].decls) \in Int /\ Len(ast[gblk].body) \in Int
      BY TreeFacts DEF GenTypeOK
    <3>2. UNCHANGED out
      BY <1>3 DEF GenProgramHead, GenSkip, GenDeclarationsEnd, GenPrototypesEnd,
                  GenBodyBegin, GenMainEnd
    <3>3. GenSkip => gpc = "DECLARATION" /\ gdecl.kind # "CONST_DECLARATION"
      BY DEF GenSkip, AtGenDeclaration
    <3>4. CASE GenSkip
      BY <1>1, <3>2, <3>3, <3>4
    <3>5. CASE ~GenSkip
      BY <1>1, <1>3, <3>1, <3>2, <3>5 DEF GenProgramHead, GenDeclarationsEnd, GenPrototypesEnd,
                                          GenBodyBegin, GenMainEnd
    <3> QED
      BY <3>4, <3>5
  <2>2. Shown(none)
    BY <1>2, <2>1 DEF PrintsAtMost
  <2> QED
    BY <2>2
<1>4. CASE GenConst
  <2> DEFINE x == Simple("define", gdecl.id)
  <2>1. x.item = "define" /\ emit(<<x>>)
    BY <1>4 DEF GenConst, Simple
  <2>2. "define" \notin Heads \cup Uses
    BY DEF Heads, Uses, Call
  <2>3. Shown(x)
    BY <1>1, <1>4, <2>1, <2>2 DEF PrintsAtMost
  <2> QED
    BY <2>3
<1>5. CASE GenRecord \/ GenVar
  <2>1. PICK x : emit(<<x>>) /\ x.item \in {"struct", "var"}
    <3> DEFINE rec == [item |-> "struct", id |-> gdecl.id,
                       fields |-> [k \in 1..Len(gdecl.members) |->
                           VarItem(gdecl.members[k].ids, gdecl.members[k].type,
                                   MemberScope(gdecl.members, k, scope_))]]
               var == VarItem(gdecl.ids, gdecl.type, scope_)
    <3>1. rec.item = "struct" /\ var.item = "var"
      BY DEF VarItem
    <3>2. emit(<<rec>>) \/ emit(<<var>>)
      BY <1>5 DEF GenRecord, GenVar
    <3> HIDE DEF rec, var
    <3> QED
      BY <3>1, <3>2
  <2>2. ~GenConst /\ ~GenReference /\ ~GenPrototype
    BY <1>1, <1>5 DEF GenRecord, GenVar, AtGenDeclaration
  <2>3. x.item \notin Heads \cup Uses \cup {"prototype", "define"}
    BY <2>1 DEF Heads, Uses, Call
  <2>4. Shown(x)
    BY <2>1, <2>2, <2>3 DEF PrintsAtMost
  <2> QED
    BY <2>4
<1>6. CASE GenPrototype
  <2> DEFINE x == HeadOf(ast, "prototype", gblk)
  <2>1. x.item = "prototype" /\ emit(<<x>>)
    BY <1>6, HeadIs DEF GenPrototype, HeadOf
  <2>2. "prototype" \notin Heads \cup Uses
    BY DEF Heads, Uses, Call
  <2> HIDE DEF x
  <2>3. x = HeadOf(ast, "prototype", gblk)
    BY DEF x
  <2>4. Shown(x)
    BY <1>1, <1>6, <2>1, <2>2, <2>3 DEF PrintsAtMost
  <2> QED
    BY <2>4
<1>7. CASE GenReference
  <2> DEFINE x == ReferenceItem(ast[gblk].body[gi], scope_)
  <2>1. ast[gblk].body[gi] \in Reference
    BY <1>1, <1>7, TreeFacts DEF GenTypeOK
  <2>2. x.item \in Uses /\ emit(<<x>>)
    BY <1>7, <2>1, ReferenceUses DEF GenReference
  <2> HIDE DEF x
  <2>3. x = ReferenceItem(ast[gblk].body[gi], scope_)
    BY DEF x
  <2>4. x.item \notin Heads \cup {"prototype", "define"}
    BY <2>2 DEF Heads, Uses, Call
  <2>5. Shown(x)
    BY <1>1, <1>7, <2>2, <2>3, <2>4 DEF PrintsAtMost
  <2> QED
    BY <2>5
<1>8. CASE GenSubprogramEnd
  <2> DEFINE x == IF ast[gblk].result = NULL THEN none
                  ELSE Simple("return", var_type_change(ast[gblk].id))
  <2>1. out \o <<>> = out
    OBVIOUS
  <2>2. UNCHANGED out \/ emit(<<x>>)
    BY <1>8, <2>1 DEF GenSubprogramEnd, emit
  <2>3. x.item \notin Heads \cup Uses \cup {"prototype", "define"}
    BY DEF Simple, Heads, Uses, Call
  <2>4. ~GenConst /\ ~GenReference /\ ~GenPrototype
    <3>1. gpc = "STATEMENT" /\ gpc' = "SUBPROGRAM"
      BY <1>8 DEF GenSubprogramEnd
    <3>2. GenReference => gpc' = gpc
      BY DEF GenReference
    <3> QED
      BY <1>1, <3>1, <3>2
  <2> HIDE DEF x
  <2>5. Shown(x)
    BY <2>2, <2>3, <2>4 DEF PrintsAtMost
  <2> QED
    BY <2>5
<1> QED
  BY <1>3, <1>4, <1>5, <1>6, <1>7, <1>8 DEF GenNext

\* The first item of what is printed is the head of a function.
LEMMA Opened ==
    ASSUME NEW a, NEW o, NEW more, Longer(o, more), NEW b, Len(more) > Len(o),
           more[Len(o) + 1] = FunctionOf(a, b),
           \A k \in (Len(o) + 2)..Len(more) : more[k].item \notin Heads
    PROVE  Within(a, more, b, Len(more))
<1> DEFINE f == Len(o) + 1
<1>1. f \in 1..Len(more) /\ f + 1 = Len(o) + 2
  BY DEF Longer
<1>2. more[f].item \in Heads
  BY FunctionFacts DEF Heads
<1> HIDE DEF f
<1>3. IsHead(more, f, Len(more))
  BY <1>1, <1>2 DEF IsHead
<1> QED
  BY <1>1, <1>3 DEF Within, f

\* The two steps that open a C function.
LEMMA FunctionBegins ==
    ASSUME IsAst(ast), GenTypeOK, PlaceInv, ast' = ast, GenSubprogram \/ GenMain
    PROVE  LET b == IF GenSubprogram THEN gblk ELSE 1
           IN  /\ \E U : out' \in Seq(U)
               /\ Longer(out, out') /\ Len(out') > Len(out)
               /\ GenSubprogram => b \in 2..Len(ast)
               /\ ~GenSubprogram => GenMain
               /\ out'[Len(out) + 1] = FunctionOf(ast, b)
               /\ b # 1 /\ ast[b].result # NULL =>
                     Len(out') = Len(out) + 2 /\ out'[Len(out) + 2] = ResultOf(ast, b)
               /\ b = 1 \/ ast[b].result = NULL => Len(out') = Len(out) + 1
<1>1. PICK S : out \in Seq(S)
  BY DEF PlaceInv
<1>2. Len(out) \in Nat
  BY <1>1, LenProperties
<1>3. CASE GenSubprogram
  <2>1. gblk \in 2..Len(ast)
    BY <1>3, TreeFacts DEF GenSubprogram, GenTypeOK, PlaceInv
  <2> DEFINE x == FunctionOf(ast, gblk)
             y == ResultOf(ast, gblk)
             items == IF ast[gblk].result = NULL THEN <<x>> ELSE <<x, y>>
  <2>2. HeadItem("function", gblk) = x
    BY <2>1, HeadIs DEF FunctionOf
  <2>3. ResultItem(gblk) = IF ast[gblk].result = NULL THEN <<>> ELSE <<y>>
    BY DEF ResultItem, ResultOf
  <2>4. emit(<<HeadItem("function", gblk)>> \o ResultItem(gblk))
    BY <1>3 DEF GenSubprogram
  <2> HIDE DEF x, y
  <2>5. <<x>> \o <<>> = <<x>> /\ <<x>> \o <<y>> = <<x, y>>
    <3> DEFINE pair == <<x>> \o <<y>>
    <3>1. <<x>> \in Seq({x, y}) /\ <<y>> \in Seq({x, y}) /\ <<x, y>> \in Seq({x, y})
      OBVIOUS
    <3>2. <<x>> \o <<>> = <<x>>
      BY <3>1
    <3>3. /\ pair \in Seq({x, y}) /\ Len(pair) = 2
          /\ \A k \in 1..2 : pair[k] = IF k <= 1 THEN <<x>>[k] ELSE <<y>>[k - 1]
      BY <3>1, ConcatProperties
    <3>4. pair[1] = x /\ pair[2] = y
      BY <3>3
    <3> HIDE DEF pair
    <3>5. pair = <<x, y>>
      BY <3>1, <3>3, <3>4, SeqEqual
    <3> QED
      BY <3>2, <3>5 DEF pair
  <2>6. emit(items)
    BY <2>2, <2>3, <2>4, <2>5
  <2>7. /\ items \in Seq({x, y})
        /\ Len(items) = IF ast[gblk].result = NULL THEN 1 ELSE 2
        /\ items[1] = x /\ (ast[gblk].result # NULL => items[2] = y)
    OBVIOUS
  <2> HIDE DEF items
  <2>8. /\ \E U : out' \in Seq(U)
        /\ Longer(out, out') /\ Len(out') = Len(out) + Len(items)
        /\ \A k \in 1..Len(items) : out'[Len(out) + k] = items[k]
    BY <1>1, <2>6, <2>7, Grown
  <2>9. /\ out'[Len(out) + 1] = x
        /\ ast[gblk].result # NULL => out'[Len(out) + 2] = y
    BY <2>7, <2>8
  <2> QED
    BY <1>2, <1>3, <2>1, <2>7, <2>8, <2>9 DEF x, y
<1>4. CASE ~GenSubprogram
  <2>1. GenMain
    BY <1>4
  <2> DEFINE x == FunctionOf(ast, 1)
  <2>2. emit(<<x>>)
    BY <2>1 DEF GenMain, FunctionOf
  <2> HIDE DEF x
  <2>3. /\ \E U : out' \in Seq(U)
        /\ Longer(out, out') /\ Len(out') = Len(out) + 1 /\ out'[Len(out')] = x
    BY <1>1, <2>2, GrownByOne
  <2> QED
    BY <1>2, <1>4, <2>1, <2>3 DEF x
<1> QED
  BY <1>3, <1>4

LEMMA PlaceStep ==
    ASSUME IsAst(ast), GenTypeOK, PlaceInv, ast' = ast,
           GenNext \/ (UNCHANGED <<gpc, gblk, gi, scope_>> /\ (UnknownRoot \/ UNCHANGED out))
    PROVE  PlaceInv'
<1>1. /\ Len(ast) \in Nat \ {0} /\ gblk \in 1..Len(ast) + 1 /\ gi \in Nat \ {0}
      /\ gpc \in {"DECLARATION", "STATEMENT"} => gblk <= Len(ast)
      /\ \E S : out \in Seq(S)
  BY TreeFacts DEF GenTypeOK, PlaceInv
<1>2. CASE GenSubprogram \/ GenMain
  <2> DEFINE b == IF GenSubprogram THEN gblk ELSE 1
  <2>1. /\ \E U : out' \in Seq(U)
        /\ Longer(out, out') /\ Len(out') > Len(out) /\ Len(out') <= Len(out) + 2
        /\ GenSubprogram => b \in 2..Len(ast)
        /\ ~GenSubprogram => GenMain
        /\ out'[Len(out) + 1] = FunctionOf(ast, b)
        /\ Len(out') = Len(out) + 2 => out'[Len(out) + 2] = ResultOf(ast, b)
    BY <1>2, FunctionBegins DEF Longer
  <2> HIDE DEF b
  <2>2. \A k \in (Len(out) + 2)..Len(out') : out'[k].item \notin Heads
    <3> TAKE k \in (Len(out) + 2)..Len(out')
    <3>1. k = Len(out) + 2 /\ Len(out') = Len(out) + 2
      BY <2>1 DEF Longer
    <3>2. out'[k] = ResultOf(ast, b)
      BY <2>1, <3>1
    <3> QED
      BY <3>2 DEF ResultOf, Simple, Heads
  <2>3. Within(ast, out', b, Len(out'))
    BY <2>1, <2>2, Opened
  <2>4. CASE GenSubprogram
    <3>1. /\ gpc' = "DECLARATION" /\ gi' = 1 /\ gblk' = gblk /\ scope_' = ast[gblk].id /\ b = gblk
      BY <2>4 DEF GenSubprogram, b
    <3> QED
      BY <2>1, <2>3, <2>4, <3>1 DEF PlaceInv
  <2>5. CASE ~GenSubprogram
    <3>1. /\ gpc = "SUBPROGRAM" /\ gblk > Len(ast)
          /\ gpc' = "STATEMENT" /\ gi' = 1 /\ gblk' = 1 /\ scope_' = scope_ /\ b = 1
      BY <2>1, <2>5 DEF GenMain, b
    <3>2. scope_' = Scope(ast, 1)
      BY <1>1, <3>1 DEF PlaceInv, Scope
    <3> QED
      BY <2>1, <2>3, <3>1, <3>2 DEF PlaceInv
  <2> QED
    BY <2>4, <2>5
<1>3. ASSUME NEW x, PrintsAtMost(x)
      PROVE  /\ \E U : out' \in Seq(U)
             /\ NoHead(out, Len(out)) => NoHead(out', Len(out'))
             /\ \A b : Within(ast, out, b, Len(out)) => Within(ast', out', b, Len(out'))
  BY <1>1, <1>3, StaysPut
<1>4. CASE UNCHANGED <<gpc, gblk, gi, scope_>> /\ (UnknownRoot \/ UNCHANGED out)
  <2> DEFINE x == Simple("unknown type", NULL)
  <2>1. x.item \notin Heads
    BY DEF Simple, Heads
  <2>2. PrintsAtMost(x)
    BY <1>4, <2>1 DEF PrintsAtMost, UnknownRoot
  <2> HIDE DEF x
  <2> QED
    BY <1>3, <1>4, <2>2 DEF PlaceInv
<1>5. CASE GenNext /\ ~GenSubprogram /\ ~GenMain
  <2>1. /\ \E U : out' \in Seq(U)
        /\ NoHead(out, Len(out)) => NoHead(out', Len(out'))
        /\ \A b : Within(ast, out, b, Len(out)) => Within(ast', out', b, Len(out'))
    BY <1>1, <1>3, <1>5, StepPrints
  <2> USE <1>1, <2>1 DEF PlaceInv
  <2>2. CASE GenProgramHead
    BY <2>2 DEF GenProgramHead
  <2>3. CASE GenConst \/ GenRecord \/ GenVar \/ GenSkip
    <3>1. UNCHANGED <<gpc, gblk, scope_>> /\ gpc = "DECLARATION"
      BY <2>3 DEF GenConst, GenRecord, GenVar, GenSkip, AtGenDeclaration, ScopeAfterVar, MemberScope
    <3> QED
      BY <3>1
  <2>4. CASE GenDeclarationsEnd
    BY <2>4 DEF GenDeclarationsEnd
  <2>5. CASE GenPrototype
    BY <2>5 DEF GenPrototype
  <2>6. CASE GenPrototypesEnd
    BY <2>6 DEF GenPrototypesEnd
  <2>7. CASE GenBodyBegin
    BY <2>7 DEF GenBodyBegin, Scope
  <2>8. CASE GenReference
    BY <2>8 DEF GenReference
  <2>9. CASE GenSubprogramEnd
    BY <2>9 DEF GenSubprogramEnd, Scope
  <2>10. CASE GenMainEnd
    BY <2>10 DEF GenMainEnd
  <2> QED
    BY <1>5, <2>2, <2>3, <2>4, <2>5, <2>6, <2>7, <2>8, <2>9, <2>10 DEF GenNext
<1> QED
  BY <1>2, <1>4, <1>5

\* A step prints a #define for a constant declaration, and none otherwise.
LEMMA DefinedStep ==
    ASSUME IsAst(ast), GenTypeOK, PlaceInv, ast' = ast,
           GenNext \/ (UNCHANGED <<gpc, gblk, gi, scope_>> /\ (UnknownRoot \/ UNCHANGED out)),
           NEW id
    PROVE  Defined(out', Len(out'), id) <=>
              Defined(out, Len(out), id) \/ (GenConst /\ GenNext /\ id = gdecl.id)
<1>1. \E S : out \in Seq(S)
  BY DEF PlaceInv
<1>2. Simple("define", id).item = "define" /\ "define" \notin Heads
  BY DEF Simple, Heads
<1>3. CASE GenSubprogram \/ GenMain
  <2> DEFINE b == IF GenSubprogram THEN gblk ELSE 1
  <2>1. /\ Longer(out, out') /\ Len(out') > Len(out) /\ Len(out') <= Len(out) + 2
        /\ out'[Len(out) + 1] = FunctionOf(ast, b)
        /\ Len(out') = Len(out) + 2 => out'[Len(out) + 2] = ResultOf(ast, b)
    BY <1>3, FunctionBegins DEF Longer
  <2> HIDE DEF b
  <2>2. FunctionOf(ast, b).item # "define" /\ ResultOf(ast, b).item # "define"
    BY FunctionFacts DEF ResultOf, Simple
  <2>3. ~GenConst
    BY <1>3 DEF GenSubprogram, GenMain, GenConst, AtGenDeclaration
  <2>4. \A j \in (Len(out) + 1)..Len(out') : out'[j] # Simple("define", id)
    <3> TAKE j \in (Len(out) + 1)..Len(out')
    <3>1. j = Len(out) + 1 \/ (j = Len(out) + 2 /\ Len(out') = Len(out) + 2)
      BY <2>1 DEF Longer
    <3>2. out'[j] \in {FunctionOf(ast, b), ResultOf(ast, b)}
      BY <2>1, <3>1
    <3> QED
      BY <1>2, <2>2, <3>2
  <2>5. \A j : j \in 1..Len(out') <=> j \in 1..Len(out) \/ j \in (Len(out) + 1)..Len(out')
    BY <2>1 DEF Longer
  <2> QED
    BY <2>1, <2>3, <2>4, <2>5 DEF Defined, Longer
<1>4. CASE GenNext /\ ~GenSubprogram /\ ~GenMain
  <2>1. PICK x : /\ PrintsAtMost(x)
                 /\ GenConst => emit(<<x>>) /\ x = Simple("define", gdecl.id)
                 /\ ~GenConst => x.item # "define"
    BY <1>1, <1>4, StepPrints
  <2>2. Defined(out', Len(out'), id) <=>
           Defined(out, Len(out), id) \/ (out' # out /\ x = Simple("define", id))
    BY <1>1, <2>1, StaysPut
  <2>3. CASE GenConst
    <3>1. Len(out') = Len(out) + 1 /\ Len(out) \in Nat
      BY <1>1, <2>1, <2>3, GrownByOne DEF Longer
    <3>2. out' # out
      BY <3>1
    <3>3. x = Simple("define", id) <=> id = gdecl.id
      BY <2>1, <2>3 DEF Simple
    <3> QED
      BY <1>4, <2>2, <2>3, <3>2, <3>3
  <2>4. CASE ~GenConst
    BY <1>2, <2>1, <2>2, <2>4
  <2> QED
    BY <2>3, <2>4
<1>5. CASE UNCHANGED <<gpc, gblk, gi, scope_>> /\ (UnknownRoot \/ UNCHANGED out)
  <2> DEFINE x == Simple("unknown type", NULL)
  <2>1. x.item \notin Heads /\ x # Simple("define", id)
    BY DEF Simple, Heads
  <2>2. PrintsAtMost(x)
    BY <1>5, <2>1 DEF PrintsAtMost, UnknownRoot
  <2> HIDE DEF x
  <2>3. Defined(out', Len(out'), id) <=> Defined(out, Len(out), id)
    BY <1>1, <2>1, <2>2, StaysPut
  <2>4. ~GenConst
    <3>1. GenConst => gi' = gi + 1
      BY DEF GenConst
    <3>2. gi \in Nat /\ gi' = gi
      BY <1>5 DEF GenTypeOK
    <3> QED
      BY <3>1, <3>2
  <2> QED
    BY <2>3, <2>4
<1> QED
  BY <1>3, <1>4, <1>5

\* The constants printed before a statement are those of the blocks above it.
LEMMA ConstantsAbove ==
    ASSUME IsAst(ast), GenTypeOK, ConstantsInv, gpc = "STATEMENT", NEW id
    PROVE  Defined(out, Len(out), id) <=> \E c \in Above(ast, gblk) : ConstOf(ast, c, id)
<1>1. gblk \in 1..Len(ast) /\ Len(ast) \in Nat
  BY TreeFacts DEF GenTypeOK
<1>2. \A c : c \in Above(ast, gblk) <=> c \in 1..Len(ast) /\ (gblk = 1 \/ c <= gblk)
  BY <1>1 DEF Above
<1>3. \A c \in 1..Len(ast) : \A j \in 1..Len(ast[c].decls) :
         GoneBy(c, j) <=> gblk = 1 \/ c <= gblk
  BY DEF GoneBy
<1>4. \A c \in 1..Len(ast) :
         ConstOf(ast, c, id) <=>
            \E j \in 1..Len(ast[c].decls) :
               ast[c].decls[j].kind = "CONST_DECLARATION" /\ ast[c].decls[j].id = id
  <2> TAKE c \in 1..Len(ast)
  <2>1. ast[c].decls \in Seq(Declaration)
    BY TreeFacts
  <2>2. \A d : d \in Range(ast[c].decls) <=> \E j \in 1..Len(ast[c].decls) : d = ast[c].decls[j]
    BY <2>1 DEF Range
  <2> QED
    BY <2>2 DEF ConstOf
<1> QED
  BY <1>2, <1>3, <1>4 DEF ConstantsInv

LEMMA TextStep ==
    ASSUME MainInv, TableInv, GenTypeOK, PlaceInv, ConstantsInv, TextInv, ast' = ast, PlaceInv',
           \/ Generate
           \/ UNCHANGED <<gpc, gblk, gi, scope_>> /\ (UnknownRoot \/ UNCHANGED out)
    PROVE  TextInv'
<1>1. IsAst(ast) /\ \E S : out \in Seq(S)
  BY CompiledAssumption DEF TableInv, Proved!WalkInv, Proved!TypeOK, PlaceInv
<1>2. SUFFICES /\ Longer(out, out')
               /\ \A k \in (Len(out) + 1)..Len(out') : HeadOK(ast, out', k) /\ UseOK(ast, out', k)
  BY TextGrows DEF TextInv
<1>3. ASSUME NEW k, out'[k].item \notin {"function", "prototype"} \cup Uses
      PROVE  HeadOK(ast, out', k) /\ UseOK(ast, out', k)
  BY <1>3 DEF HeadOK, UseOK
<1>4. CASE UNCHANGED <<gpc, gblk, gi, scope_>> /\ (UnknownRoot \/ UNCHANGED out)
  <2> DEFINE x == Simple("unknown type", NULL)
  <2>1. x.item \notin Heads \cup {"function", "prototype"} \cup Uses
    BY DEF Simple, Heads, Uses, Call
  <2>2. PrintsAtMost(x)
    BY <1>4, <2>1 DEF PrintsAtMost, UnknownRoot
  <2> HIDE DEF x
  <2> QED
    BY <1>1, <1>3, <2>1, <2>2, StaysPut
<1>5. CASE Generate /\ (GenSubprogram \/ GenMain)
  <2> DEFINE b == IF GenSubprogram THEN gblk ELSE 1
  <2>1. /\ Longer(out, out') /\ Len(out') > Len(out)
        /\ GenSubprogram => b \in 2..Len(ast)
        /\ out'[Len(out) + 1] = FunctionOf(ast, b)
        /\ b # 1 /\ ast[b].result # NULL =>
              Len(out') = Len(out) + 2 /\ out'[Len(out) + 2] = ResultOf(ast, b)
        /\ b = 1 \/ ast[b].result = NULL => Len(out') = Len(out) + 1
        /\ ~GenSubprogram => b = 1
    BY <1>1, <1>5, FunctionBegins
  <2> HIDE DEF b
  <2> DEFINE f == Len(out) + 1
  <2>2. f \in Nat /\ f + 1 = Len(out) + 2 /\ f \in 1..Len(out')
    BY <2>1 DEF Longer
  <2>3. HeadOK(ast, out', f)
    <3>1. b = 1 => out'[f].item = "main"
      BY <2>1, FunctionFacts
    <3>2. b # 1 => out'[f] = HeadOf(ast, "function", b) /\ out'[f].item = "function"
      BY <2>1, FunctionFacts DEF FunctionOf
    <3>3. b # 1 /\ ast[b].result # NULL => f + 1 \in 1..Len(out') /\ out'[f + 1] = ResultOf(ast, b)
      BY <2>1, <2>2
    <3> HIDE DEF f
    <3> QED
      BY <2>1, <3>1, <3>2, <3>3 DEF HeadOK
  <2>4. UseOK(ast, out', f)
    <3>1. out'[f].item \in Heads
      BY <2>1, FunctionFacts DEF Heads
    <3> HIDE DEF f
    <3> QED
      BY <3>1 DEF UseOK, Heads, Uses, Call
  <2>5. ASSUME NEW k \in (Len(out) + 1)..Len(out'), k # f
        PROVE  HeadOK(ast, out', k) /\ UseOK(ast, out', k)
    <3>1. k = Len(out) + 2 /\ Len(out') = Len(out) + 2
      BY <2>1, <2>5 DEF Longer
    <3>2. out'[k] = ResultOf(ast, b)
      BY <2>1, <3>1 DEF Longer
    <3>3. out'[k].item = "result"
      BY <3>2 DEF ResultOf, Simple
    <3> QED
      BY <1>3, <3>3 DEF Uses, Call
  <2> QED
    BY <2>1, <2>3, <2>4, <2>5
<1>6. CASE Generate /\ ~GenSubprogram /\ ~GenMain
  <2>1. GenNext /\ stage = "GENERATE" /\ root = "PROGRAM_STRUCT"
    BY <1>6 DEF Generate
  <2>2. PICK x : /\ PrintsAtMost(x)
                 /\ GenReference => emit(<<x>>) /\ x = ReferenceItem(ast[gblk].body[gi], scope_)
                 /\ GenPrototype => emit(<<x>>) /\ x = HeadOf(ast, "prototype", gblk)
                 /\ ~GenReference => x.item \notin Uses
                 /\ ~GenPrototype => x.item # "prototype"
    BY <1>1, <1>6, <2>1, StepPrints
  <2>3. /\ Longer(out, out')
        /\ \A b : Within(ast, out, b, Len(out)) => Within(ast', out', b, Len(out'))
        /\ \A k \in (Len(out) + 1)..Len(out') : k = Len(out') /\ out'[k] = x
    BY <1>1, <2>2, StaysPut
  <2>4. ASSUME out' # out PROVE x.item # "function"
    BY <2>2, <2>4 DEF PrintsAtMost, Heads
  <2>5. ASSUME NEW k \in (Len(out) + 1)..Len(out')
        PROVE  HeadOK(ast, out', k) /\ UseOK(ast, out', k)
    <3>1. k = Len(out') /\ out'[k] = x /\ Len(out) \in Nat
      BY <2>3, <2>5 DEF Longer
    <3>2. x.item # "function"
      <4>1. out' # out
        BY <2>5, <3>1
      <4> QED
        BY <2>4, <4>1
    <3>3. CASE ~GenReference /\ ~GenPrototype
      BY <1>3, <2>2, <3>1, <3>2, <3>3
    <3>4. CASE GenPrototype
      <4>1. x = HeadOf(ast, "prototype", gblk) /\ gblk \in 2..Len(ast)
        <5>1. gpc = "PROTOTYPE" /\ gblk <= Len(ast)
          BY <3>4 DEF GenPrototype
        <5> QED
          BY <1>1, <2>2, <3>4, <5>1, TreeFacts DEF GenTypeOK, PlaceInv
      <4>2. x.item = "prototype"
        BY <4>1 DEF HeadOf
      <4>3. "prototype" \notin Uses
        BY DEF Uses, Call
      <4> QED
        BY <3>1, <4>1, <4>2, <4>3 DEF HeadOK, UseOK
    <3>5. CASE GenReference
      <4> DEFINE r == ast[gblk].body[gi]
      <4>1. gpc = "STATEMENT" /\ gi <= Len(ast[gblk].body) /\ gblk \in 1..Len(ast)
        BY <1>1, <3>5, TreeFacts DEF GenReference, GenTypeOK
      <4>2. gi \in 1..Len(ast[gblk].body) /\ r \in Reference
        BY <1>1, <4>1, TreeFacts DEF GenTypeOK
      <4>3. x = ReferenceItem(r, scope_) /\ scope_ = Scope(ast, gblk)
            /\ Within(ast, out, gblk, Len(out))
        BY <2>2, <3>5, <4>1 DEF PlaceInv
      <4> HIDE DEF r
      <4>4. Hygienic(ast) => Prints(ast, x, r, Scope(ast, gblk))
        BY <1>1, <2>1, <4>2, <4>3, TableReady, ReferencePrinted
      <4>5. Within(ast, out', gblk, k)
        BY <2>3, <3>1, <4>3
      <4>6. \A id : Defined(out', k, id) <=> \E c \in Above(ast, gblk) : ConstOf(ast, c, id)
        <5> TAKE id
        <5>1. x # Simple("define", id)
          <6>1. x.item \in Uses
            BY <4>2, <4>3, ReferenceUses
          <6> QED
            BY <6>1 DEF Simple, Uses, Call
        <5>2. Defined(out', Len(out'), id) <=> Defined(out, Len(out), id)
          BY <1>1, <2>2, <5>1, StaysPut
        <5> QED
          BY <1>1, <3>1, <4>1, <5>2, ConstantsAbove
      <4>7. UseOK(ast, out', k)
        BY <3>1, <4>1, <4>2, <4>4, <4>5, <4>6 DEF UseOK, r
      <4>8. x.item \in Uses
        BY <4>2, <4>3, ReferenceUses
      <4> QED
        BY <3>1, <3>2, <4>7, <4>8 DEF HeadOK, Uses, Call
    <3> QED
      BY <3>3, <3>4, <3>5
  <2> QED
    BY <2>3, <2>5
<1> QED
  BY <1>4, <1>5, <1>6

-----------------------------------------------------------------------------
(* The inductive invariant *)

NamesInv == MainInv /\ TableInv /\ GenTypeOK /\ PlaceInv /\ ConstantsInv /\ TextInv

LEMMA NamesInit == CompilerInit => NamesInv
BY MainInit, TableInit, TreeRight, GenTypeInit, ConstantsInit DEF NamesInv

LEMMA NamesStep == NamesInv /\ [CompilerNext]_cvars => NamesInv'
<1> SUFFICES ASSUME NamesInv, [CompilerNext]_cvars PROVE NamesInv'
  OBVIOUS
<1>1. MainInv /\ TableInv /\ GenTypeOK /\ PlaceInv /\ ConstantsInv /\ TextInv
  BY DEF NamesInv
<1>2. MainInv' /\ TableInv' /\ GenTypeOK' /\ ast' = ast
  BY <1>1, MainStep, TableStepInv, TreeRight, GenTypeStep, AstFixed
<1>3. \/ Generate
      \/ UNCHANGED <<gpc, gblk, gi, scope_>> /\ (UnknownRoot \/ UNCHANGED out)
  BY GenOrStutter
<1>4. IsAst(ast)
  BY <1>1, CompiledAssumption DEF TableInv, Proved!WalkInv, Proved!TypeOK
<1>5. \/ GenNext
      \/ UNCHANGED <<gpc, gblk, gi, scope_>> /\ (UnknownRoot \/ UNCHANGED out)
  BY <1>3 DEF Generate
<1>6. PlaceInv'
  BY <1>1, <1>2, <1>4, <1>5, PlaceStep
<1>7. ConstantsInv'
  <2>1. GenConst => GenNext
    BY DEF GenNext
  <2>2. \A id : Defined(out', Len(out'), id) <=>
                  Defined(out, Len(out), id) \/ (GenConst /\ id = gdecl.id)
    BY <1>1, <1>2, <1>4, <1>5, <2>1, DefinedStep
  <2> QED
    BY <1>1, <1>2, <1>4, <1>5, <2>2, ConstantsStep
<1>8. TextInv'
  BY <1>1, <1>2, <1>3, <1>6, TextStep
<1> QED
  BY <1>2, <1>6, <1>7, <1>8 DEF NamesInv

LEMMA NamesRight == CompilerSpec => []NamesInv
BY NamesInit, NamesStep, PTL DEF CompilerSpec

-----------------------------------------------------------------------------
(* Reading the text back *)

\* A use of names in a C function shows a reference of the block with that head.
LEMMA UseMeans ==
    ASSUME NamesInv, Hygienic(ast), NEW k \in 1..Len(out), In(k, "function"),
           out[k].item \in Uses
    PROVE  \E b \in 2..Len(ast) :
              /\ Enclosing(k) \in 1..k
              /\ out[Enclosing(k)] = HeadOf(ast, "function", b)
              /\ \E r \in Reference : Prints(ast, out[k], r, ast[b].id)
              /\ \A id : Defined(out, k, id) <=> \E c \in Above(ast, b) : ConstOf(ast, c, id)
<1>1. IsAst(ast) /\ k \in Nat
  BY CompiledAssumption DEF NamesInv, TableInv, Proved!WalkInv, Proved!TypeOK
<1>2. PICK b \in 1..Len(ast) :
         /\ Within(ast, out, b, k)
         /\ \E r \in 1..Len(ast[b].body) : Prints(ast, out[k], ast[b].body[r], Scope(ast, b))
         /\ \A id : Defined(out, k, id) <=> \E c \in Above(ast, b) : ConstOf(ast, c, id)
  BY DEF NamesInv, TextInv, TextOK, UseOK
<1>3. PICK f \in 1..k : IsHead(out, f, k) /\ out[f] = FunctionOf(ast, b)
  BY <1>2 DEF Within
<1>4. Enclosing(k) = f /\ out[f].item = "function"
  BY <1>1, <1>3, EnclosingIs DEF In
<1>5. b # 1 /\ b \in 2..Len(ast) /\ FunctionOf(ast, b) = HeadOf(ast, "function", b)
  <2>1. b # 1
    BY <1>3, <1>4, FunctionFacts
  <2>2. b \in 2..Len(ast)
    BY <1>1, <2>1, TreeFacts
  <2> QED
    BY <2>1, <2>2 DEF FunctionOf
<1>6. \E r \in Reference : Prints(ast, out[k], r, ast[b].id)
  BY <1>1, <1>2, <1>5, TreeFacts DEF Scope
<1> QED
  BY <1>2, <1>3, <1>4, <1>5, <1>6

\* The names an item prints, by the reference it shows.
LEMMA NamesMean ==
    \A k, s : \A r \in Reference : Prints(ast, out[k], r, s) =>
           /\ \A n \in Names(k) : n.form = FormOf(ast, n.id, s)
           /\ out[k].item = "name" =>
                 /\ r.kind = "VARIABLE" /\ out[k].id = r.id
                 /\ Answer(ast, r.id, s) = NULL =>
                       \A n \in Range(out[k].index) : n.form = FormOf(ast, n.id, s)
<1> TAKE k, s
<1> TAKE r \in Reference
<1> HAVE Prints(ast, out[k], r, s)
<1> DEFINE x == out[k]
<1>1. r.kind \in {"VARIABLE", "PROCEDURE_CALL", "FACTOR"} /\ Len(r.args) \in Nat
  BY LenProperties DEF Reference
<1>2. CASE r.kind = "VARIABLE"
  <2>1. /\ x.item = "name" /\ x.id = r.id /\ x.form = FormOf(ast, r.id, s)
        /\ x.index = [j \in 1..Len(r.args) |->
                        [id   |-> r.args[j],
                         form |-> FormOf(ast, r.args[j], IF Answer(ast, r.id, s) = NULL
                                                         THEN s ELSE Answer(ast, r.id, s).type)]]
    BY <1>2 DEF Prints
  <2>2. Names(k) = {[id |-> x.id, form |-> x.form]}
    BY <2>1 DEF Names
  <2>3. Answer(ast, r.id, s) = NULL =>
           \A n \in Range(x.index) : n.form = FormOf(ast, n.id, s)
    BY <2>1 DEF Range
  <2> QED
    BY <1>2, <2>1, <2>2, <2>3
<1>3. CASE r.kind # "VARIABLE"
  <2>1. /\ x.item = r.kind /\ DOMAIN x.args = 1..Len(r.args)
        /\ \A j \in 1..Len(r.args) :
              x.args[j].id = r.args[j] /\ x.args[j].form = FormOf(ast, r.args[j], s)
    BY <1>3 DEF Prints
  <2>2. Names(k) = {[id |-> a.id, form |-> a.form] : a \in Range(x.args)}
    BY <1>1, <1>3, <2>1 DEF Names
  <2>3. \A a \in Range(x.args) : a.form = FormOf(ast, a.id, s)
    BY <2>1 DEF Range
  <2> QED
    BY <1>1, <1>3, <2>1, <2>2, <2>3
<1> QED
  BY <1>2, <1>3

\* The pointers of a printed head are the names it passes by reference.
LEMMA PointersAre ==
    ASSUME IsAst(ast), NEW b \in 1..Len(ast), NEW f, out[f] = HeadOf(ast, "function", b)
    PROVE  Pointers(f) = ByReferenceNames(ast, b)
<1> DEFINE params == Params(ast[b])
           printed == out[f].params
           decls == ast[b].decls
<1>1. /\ Len(params) \in 0..Len(decls) /\ Len(decls) \in Nat
      /\ \A j \in 1..Len(params) : params[j] = decls[j]
      /\ \A j \in 1..Len(decls) : decls[j].kind \in ParameterKind <=> j <= Len(params)
  BY ParamsAre, TreeFacts
<1>2. printed = [g \in 1..Len(params) |->
                   [k \in 1..Len(params[g].ids) |->
                      [type    |-> var_type_change(params[g].type),
                       pointer |-> params[g].kind = "VAR_PARAMETER",
                       id      |-> params[g].ids[k]]]]
  BY DEF HeadOf
<1>3. Pointers(f) = {q.id : q \in {p \in UNION {Range(group) : group \in Range(printed)} : p.pointer}}
  BY DEF Pointers
<1>4. \A j \in 1..Len(decls) : decls[j].ids \in Seq(Identifier)
  BY TreeFacts DEF Declaration
<1> HIDE DEF params, printed, decls
<1> DEFINE made(g, k) == [type    |-> var_type_change(params[g].type),
                          pointer |-> params[g].kind = "VAR_PARAMETER",
                          id      |-> params[g].ids[k]]
<1>5. \A p : p \in UNION {Range(group) : group \in Range(printed)} <=>
                \E g \in 1..Len(params) : \E k \in 1..Len(params[g].ids) : p = made(g, k)
  <2>1. /\ DOMAIN printed = 1..Len(params)
        /\ \A g \in 1..Len(params) :
              /\ DOMAIN printed[g] = 1..Len(params[g].ids)
              /\ \A k \in 1..Len(params[g].ids) : printed[g][k] = made(g, k)
    BY <1>2
  <2>2. \A p : p \in UNION {Range(group) : group \in Range(printed)} <=>
                  \E g \in DOMAIN printed : \E k \in DOMAIN printed[g] : p = printed[g][k]
    BY DEF Range
  <2> HIDE DEF made
  <2> TAKE p
  <2>3. ASSUME NEW g \in 1..Len(params), NEW k \in 1..Len(params[g].ids), p = made(g, k)
        PROVE  p \in UNION {Range(group) : group \in Range(printed)}
    <3>1. g \in DOMAIN printed /\ k \in DOMAIN printed[g] /\ p = printed[g][k]
      BY <2>1, <2>3
    <3> QED
      BY <2>2, <3>1
  <2>4. ASSUME NEW g \in DOMAIN printed, NEW k \in DOMAIN printed[g], p = printed[g][k]
        PROVE  \E h \in 1..Len(params) : \E l \in 1..Len(params[h].ids) : p = made(h, l)
    <3>1. g \in 1..Len(params) /\ k \in 1..Len(params[g].ids) /\ p = made(g, k)
      BY <2>1, <2>4
    <3> QED
      BY <3>1
  <2> QED
    BY <2>2, <2>3, <2>4
<1>6. \A n : n \in Pointers(f) <=>
                \E g \in 1..Len(params) : \E k \in 1..Len(params[g].ids) :
                   params[g].kind = "VAR_PARAMETER" /\ n = params[g].ids[k]
  <2>1. \A g, k : made(g, k).id = params[g].ids[k]
    OBVIOUS
  <2>2. \A g, k : made(g, k).pointer <=> params[g].kind = "VAR_PARAMETER"
    BY Zenon
  <2> DEFINE all == UNION {Range(group) : group \in Range(printed)}
  <2> HIDE DEF made, all
  <2>3. Pointers(f) = {q.id : q \in {p \in all : p.pointer}}
    BY <1>3 DEF all
  <2>4. \A n : n \in Pointers(f) <=> \E p \in all : p.pointer /\ n = p.id
    BY <2>3, Zenon
  <2>5. \A p : p \in all <=>
           \E g \in 1..Len(params) : \E k \in 1..Len(params[g].ids) : p = made(g, k)
    BY <1>5 DEF all
  <2> TAKE n
  <2>6. ASSUME n \in Pointers(f)
        PROVE  \E g \in 1..Len(params) : \E k \in 1..Len(params[g].ids) :
                  params[g].kind = "VAR_PARAMETER" /\ n = params[g].ids[k]
    <3>1. PICK p \in all : p.pointer /\ n = p.id
      BY <2>4, <2>6, Zenon
    <3>2. PICK g \in 1..Len(params) : \E k \in 1..Len(params[g].ids) : p = made(g, k)
      BY <2>5
    <3>3. PICK k \in 1..Len(params[g].ids) : p = made(g, k)
      BY <3>2
    <3>4. params[g].kind = "VAR_PARAMETER"
      BY <2>2, <3>1, <3>3, Zenon
    <3>5. n = params[g].ids[k]
      BY <2>1, <3>1, <3>3
    <3> QED
      BY <3>4, <3>5
  <2>7. ASSUME NEW g \in 1..Len(params), NEW k \in 1..Len(params[g].ids),
               params[g].kind = "VAR_PARAMETER", n = params[g].ids[k]
        PROVE  n \in Pointers(f)
    <3>1. made(g, k) \in all
      BY <2>5
    <3>2. made(g, k).pointer /\ n = made(g, k).id
      BY <2>1, <2>2, <2>7, Zenon
    <3> QED
      BY <2>4, <3>1, <3>2, Zenon
  <2> QED
    BY <2>6, <2>7
<1>7. \A n : n \in ByReferenceNames(ast, b) <=>
                \E j \in 1..Len(decls) : decls[j].kind = "VAR_PARAMETER" /\ n \in Range(decls[j].ids)
  BY DEF ByReferenceNames, decls
<1>8. \A j \in 1..Len(decls) : \A n :
         n \in Range(decls[j].ids) <=> \E k \in 1..Len(decls[j].ids) : n = decls[j].ids[k]
  BY <1>4 DEF Range
<1>9. \A n : n \in Pointers(f) <=> n \in ByReferenceNames(ast, b)
  <2> TAKE n
  <2>1. ASSUME n \in Pointers(f) PROVE n \in ByReferenceNames(ast, b)
    <3>1. PICK g \in 1..Len(params) : \E k \in 1..Len(params[g].ids) :
                   params[g].kind = "VAR_PARAMETER" /\ n = params[g].ids[k]
      BY <1>6, <2>1
    <3>2. g \in 1..Len(decls) /\ params[g] = decls[g]
      BY <1>1
    <3>3. n \in Range(decls[g].ids) /\ decls[g].kind = "VAR_PARAMETER"
      BY <1>8, <3>1, <3>2
    <3> QED
      BY <1>7, <3>2, <3>3
  <2>2. ASSUME n \in ByReferenceNames(ast, b) PROVE n \in Pointers(f)
    <3>1. PICK j \in 1..Len(decls) : decls[j].kind = "VAR_PARAMETER" /\ n \in Range(decls[j].ids)
      BY <1>7, <2>2
    <3>2. j \in 1..Len(params) /\ params[j] = decls[j]
      BY <1>1, <3>1 DEF ParameterKind
    <3>3. PICK k \in 1..Len(decls[j].ids) : n = decls[j].ids[k]
      BY <1>8, <3>1
    <3>4. k \in 1..Len(params[j].ids) /\ n = params[j].ids[k] /\ params[j].kind = "VAR_PARAMETER"
      BY <3>1, <3>2, <3>3
    <3> QED
      BY <1>6, <3>2, <3>4
  <2> QED
    BY <2>1, <2>2
<1> QED
  BY <1>9

\* An item that is no use prints no names.
LEMMA NoNames ==
    ASSUME NEW k, out[k].item \notin Uses
    PROVE  Names(k) = {} /\ IndexNames(k) = {}
BY DEF Names, IndexNames, Uses, Call

\* Inside a C function of any program, a name is dereferenced exactly when the head
\* printed for that function declares it as a pointer: the scopes of the two walks, the
\* parameters, and the table agree.
THEOREM DereferenceCorrect == CompilerSpec => []DereferenceMatchesHead
<1>1. NamesInv => DereferenceMatchesHead
  <2> SUFFICES ASSUME NamesInv, Hygienic(ast), NEW k \in 1..Len(out), In(k, "function"),
                      NEW n \in Names(k) \cup IndexNames(k)
               PROVE  n.form = "deref" <=> n.id \in Pointers(Enclosing(k))
    BY DEF DereferenceMatchesHead
  <2>1. IsAst(ast)
    BY CompiledAssumption DEF NamesInv, TableInv, Proved!WalkInv, Proved!TypeOK
  <2>2. out[k].item \in Uses
    BY NoNames
  <2>3. PICK b \in 2..Len(ast) :
           /\ out[Enclosing(k)] = HeadOf(ast, "function", b)
           /\ \E r \in Reference : Prints(ast, out[k], r, ast[b].id)
    BY <2>2, UseMeans
  <2>4. PICK r \in Reference : Prints(ast, out[k], r, ast[b].id)
    BY <2>3
  <2> DEFINE s == ast[b].id
  <2>5. n.form = FormOf(ast, n.id, s)
    <3> HIDE DEF s
    <3>0. /\ \A u \in Names(k) : u.form = FormOf(ast, u.id, s)
          /\ out[k].item = "name" =>
                /\ out[k].id = r.id
                /\ Answer(ast, r.id, s) = NULL =>
                      \A u \in Range(out[k].index) : u.form = FormOf(ast, u.id, s)
      BY <2>4, NamesMean, Zenon DEF s
    <3>1. CASE n \in Names(k)
      BY <3>0, <3>1
    <3>2. CASE n \in IndexNames(k)
      <4>1. /\ out[k].item = "name" /\ n \in Range(out[k].index)
            /\ ~DeclaredIn(out[k].id, out[Enclosing(k)].id)
        BY <3>2 DEF IndexNames
      <4>2. out[k].id = r.id /\ out[Enclosing(k)].id = s
        BY <2>3, <3>0, <4>1 DEF HeadOf, s
      <4>3. Answer(ast, r.id, s) = NULL
        <5>1. UniqueKeys(ast)
          BY DEF Hygienic
        <5> QED
          BY <2>1, <4>1, <4>2, <5>1, AnswerIs DEF DeclaredIn
      <4> QED
        BY <3>0, <4>1, <4>3
    <3> QED
      BY <3>1, <3>2
  <2>6. Pointers(Enclosing(k)) = ByReferenceNames(ast, b)
    BY <2>1, <2>3, PointersAre, TreeFacts
  <2> QED
    BY <2>1, <2>5, <2>6, DerefForm
<1> QED
  BY <1>1, NamesRight, PTL

\* Of the names of a program, the translation of types changes just those.
LEMMA RespelledExactly ==
    ASSUME NEW id \in Identifier
    PROVE  var_type_change(id) = id <=> id \notin Respelled
<1> DEFINE Keys == {"integer", "real", "boolean", "char", "double"} \cup Respelled
<1>1. DOMAIN CName = Keys
  BY DEF CName, Respelled
<1>2. id \notin {"integer", "real", "boolean", "char"}
  BY IdentifierAssumption DEF BasicType
<1>3. CASE id \in Respelled
  <2>1. /\ CName["shortint"] # "shortint" /\ CName["longint"] # "longint"
        /\ CName["int64"] # "int64" /\ CName["byte"] # "byte" /\ CName["word"] # "word"
        /\ CName["dword"] # "dword" /\ CName["qword"] # "qword"
    BY DEF CName
  <2>2. \A key \in Respelled : CName[key] # key
    BY <2>1 DEF Respelled
  <2> QED
    BY <1>1, <1>3, <2>2 DEF var_type_change
<1>4. CASE id = "double"
  <2>1. CName["double"] = "double" /\ "double" \notin Respelled
    BY DEF CName, Respelled
  <2> QED
    BY <1>1, <1>4, <2>1 DEF var_type_change
<1>5. CASE id \notin Respelled \cup {"double"}
  BY <1>1, <1>2, <1>5 DEF var_type_change
<1> QED
  BY <1>3, <1>4, <1>5

\* The name of a function is printed as its result variable inside that function and
\* nowhere else in it, in any program, and the variable declared behind its head is that
\* one, but for the seven names of functions that are printed there as a type.
THEOREM ResultCorrect == CompilerSpec => []ResultMatches
<1>1. NamesInv => ResultMatches
  <2> SUFFICES ASSUME NamesInv, Hygienic(ast), NEW k \in 1..Len(out), In(k, "function"),
                      NEW n \in Names(k)
               PROVE  /\ n.form = "result" <=> n.id = out[Enclosing(k)].id
                      /\ n.form = "result" /\ out[Enclosing(k)].result # "void" =>
                            (out[Enclosing(k) + 1] = Simple("result", n.id)
                               <=> n.id \notin Respelled)
    BY DEF ResultMatches
  <2> DEFINE f == Enclosing(k)
  <2>1. IsAst(ast)
    BY CompiledAssumption DEF NamesInv, TableInv, Proved!WalkInv, Proved!TypeOK
  <2>2. out[k].item \in Uses
    BY NoNames
  <2>3. PICK b \in 2..Len(ast) :
           /\ f \in 1..k /\ out[f] = HeadOf(ast, "function", b)
           /\ \E r \in Reference : Prints(ast, out[k], r, ast[b].id)
    BY <2>2, UseMeans
  <2>4. n.form = FormOf(ast, n.id, ast[b].id)
    <3>1. \A u \in Names(k) : u.form = FormOf(ast, u.id, ast[b].id)
      BY <2>3, NamesMean, Zenon
    <3> QED
      BY <3>1
  <2>5. out[f].id = ast[b].id /\ out[f].item = "function"
    BY <2>3 DEF HeadOf
  <2>6. n.form = "result" <=> n.id = out[f].id
    BY <2>1, <2>4, <2>5, ResultForm
  <2>7. ASSUME n.form = "result", out[f].result # "void"
        PROVE  out[f + 1] = Simple("result", n.id) <=> n.id \notin Respelled
    <3>1. f \in 1..Len(out)
      BY <2>3
    <3>2. HeadOK(ast, out, f)
      BY <3>1 DEF NamesInv, TextInv, TextOK
    <3>3. PICK c \in 2..Len(ast) :
             /\ out[f] = HeadOf(ast, "function", c)
             /\ ast[c].result # NULL => out[f + 1] = ResultOf(ast, c)
      BY <2>5, <3>2 DEF HeadOK
    <3>4. ast[c].result # NULL /\ out[f].id = ast[c].id
      BY <2>7, <3>3 DEF HeadOf
    <3>5. out[f + 1] = Simple("result", var_type_change(n.id))
      BY <2>6, <2>7, <3>3, <3>4 DEF ResultOf
    <3>6. n.id \in Identifier
      BY <2>1, <2>6, <2>7, <3>4, TreeFacts
    <3>7. var_type_change(n.id) = n.id <=> n.id \notin Respelled
      BY <3>6, RespelledExactly
    <3> QED
      BY <3>5, <3>7 DEF Simple
  <2> QED
    BY <2>6, <2>7
<1> QED
  BY <1>1, NamesRight, PTL

\* The blocks above b declare id as a constant exactly when Pascal's scope rules, or
\* a #define that outlives its function, make it one.
LEMMA ConstantOrRenamed ==
    ASSUME IsAst(ast), NEW b \in 1..Len(ast), NEW id
    PROVE  (\E c \in Above(ast, b) : ConstOf(ast, c, id)) <=> IsConstant(id, b) \/ Renamed(id, b)
<1>1. Len(ast) \in Nat \ {0}
  BY TreeFacts
<1>2. \A c : ConstOf(ast, c, id) <=> ConstantOf(id, c)
  BY DEF ConstOf, ConstantOf
<1>3. \A c : c \in Above(ast, b) <=> c = b \/ c = 1 \/ (c \in 2..Len(ast) /\ (b = 1 \/ c < b))
  BY <1>1 DEF Above
<1> QED
  BY <1>2, <1>3 DEF IsConstant, Renamed

\* A name that a statement uses is replaced by a constant in C exactly when it is one in
\* Pascal, but for the names that are Renamed, which all are, in any program.
THEOREM ConstantsCorrect == CompilerSpec => []ConstantsKept
<1>1. NamesInv => ConstantsKept
  <2> SUFFICES ASSUME NamesInv, Hygienic(ast), NEW k \in 1..Len(out), NEW b \in 1..Len(ast),
                      \/ In(k, "function") /\ out[Enclosing(k)].id = ast[b].id
                      \/ In(k, "main") /\ b = 1,
                      NEW n \in Names(k)
               PROVE  Defined(out, k, n.id) <=> IsConstant(n.id, b) \/ Renamed(n.id, b)
    BY DEF ConstantsKept, Defined
  <2>1. IsAst(ast)
    BY CompiledAssumption DEF NamesInv, TableInv, Proved!WalkInv, Proved!TypeOK
  <2>2. out[k].item \in Uses
    BY NoNames
  <2>3. CASE In(k, "function") /\ out[Enclosing(k)].id = ast[b].id
    <3>1. PICK c \in 2..Len(ast) :
             /\ out[Enclosing(k)] = HeadOf(ast, "function", c)
             /\ \A id : Defined(out, k, id) <=> \E e \in Above(ast, c) : ConstOf(ast, e, id)
      BY <2>2, <2>3, UseMeans
    <3>2. ast[c].id = ast[b].id /\ c \in 1..Len(ast)
      BY <2>1, <2>3, <3>1, TreeFacts DEF HeadOf
    <3>3. c = b
      BY <3>2 DEF Hygienic
    <3> QED
      BY <2>1, <3>1, <3>3, ConstantOrRenamed
  <2>4. CASE In(k, "main") /\ b = 1
    <3>1. PICK c \in 1..Len(ast) :
             /\ Within(ast, out, c, k)
             /\ \A id : Defined(out, k, id) <=> \E e \in Above(ast, c) : ConstOf(ast, e, id)
      BY <2>2 DEF NamesInv, TextInv, TextOK, UseOK
    <3>2. PICK f \in 1..k : IsHead(out, f, k) /\ out[f] = FunctionOf(ast, c)
      BY <3>1 DEF Within
    <3>3. out[f].item = "main"
      BY <2>4, <3>2, EnclosingIs DEF In
    <3>4. c = b
      BY <2>4, <3>2, <3>3, FunctionFacts
    <3> QED
      BY <2>1, <3>1, <3>4, ConstantOrRenamed
  <2> QED
    BY <2>3, <2>4
<1> QED
  BY <1>1, NamesRight, PTL

\* A procedure call passes addresses exactly for the parameters that the printed
\* prototype declares as pointers, when there is one parameter group, in any program.
THEOREM CallMarksCorrect == CompilerSpec => []CallMatchesPrototype
<1>1. NamesInv => CallMatchesPrototype
  <2> SUFFICES ASSUME NamesInv, Hygienic(ast), NEW k \in 1..Len(out), NEW j \in 1..Len(out),
                      out[k].item = "PROCEDURE_CALL", out[j].item = "prototype",
                      out[k].id = out[j].id, Len(out[j].params) <= 1,
                      NEW a \in 1..Len(out[k].args)
               PROVE  out[k].args[a].mark <=>
                         \E group \in Range(out[j].params) : a <= Len(group) /\ group[a].pointer
    BY DEF CallMatchesPrototype
  <2>1. IsAst(ast)
    BY CompiledAssumption DEF NamesInv, TableInv, Proved!WalkInv, Proved!TypeOK
  <2>2. UseOK(ast, out, k) /\ HeadOK(ast, out, j)
    BY DEF NamesInv, TextInv, TextOK
  <2>3. PICK c \in 1..Len(ast) : \E r \in 1..Len(ast[c].body) :
           Prints(ast, out[k], ast[c].body[r], Scope(ast, c))
    BY <2>2 DEF UseOK, Uses, Call
  <2>4. PICK r \in Reference : Prints(ast, out[k], r, Scope(ast, c))
    BY <2>1, <2>3, TreeFacts
  <2>5. PICK b \in 2..Len(ast) : out[j] = HeadOf(ast, "prototype", b)
    BY <2>2 DEF HeadOK
  <2> DEFINE params == Params(ast[b])
             printed == out[j].params
             long == {g \in 1..Len(params) : a <= Len(params[g].ids)}
  <2>6. out[k].args[a].mark <=> ByReferenceAt(ast, b, a)
    <3>1. r.kind = "PROCEDURE_CALL" /\ out[k].id = r.id /\ Len(out[k].args) = Len(r.args)
      BY <2>4 DEF Prints, Reference
    <3>2. ast[b].id = r.id
      BY <2>5, <3>1 DEF HeadOf
    <3>3. \A l \in 1..Len(r.args) : out[k].args[l].mark <=> ByReferenceAt(ast, b, l)
      BY <2>4, <3>1, <3>2 DEF Prints
    <3> QED
      BY <3>1, <3>3
  <2>7. /\ Len(params) \in 0..Len(ast[b].decls) /\ Len(ast[b].decls) \in Nat
        /\ \A g \in 1..Len(params) : params[g].ids \in Seq(Identifier)
    <3> DEFINE decls == ast[b].decls
    <3>1. b \in 1..Len(ast)
      BY <2>1, TreeFacts
    <3>2. /\ Len(params) \in 0..Len(decls) /\ Len(decls) \in Nat
          /\ \A g \in 1..Len(params) : params[g] = decls[g]
          /\ \A g \in 1..Len(decls) : decls[g] \in Declaration
      BY <2>1, <3>1, ParamsAre, TreeFacts
    <3> HIDE DEF params, decls
    <3>3. \A g \in 1..Len(params) : params[g].ids \in Seq(Identifier)
      BY <3>2 DEF Declaration
    <3> QED
      BY <3>2, <3>3 DEF decls
  <2>8. printed = [g \in 1..Len(params) |->
                     [l \in 1..Len(params[g].ids) |->
                        [type    |-> var_type_change(params[g].type),
                         pointer |-> params[g].kind = "VAR_PARAMETER",
                         id      |-> params[g].ids[l]]]]
    BY <2>5 DEF HeadOf
  <2>9. ByReferenceAt(ast, b, a) <=>
           long # {} /\ params[FirstIndex(long)].kind = "VAR_PARAMETER"
    BY DEF ByReferenceAt
  <2>10. Len(printed) = Len(params) /\ DOMAIN printed = 1..Len(params)
    BY <2>7, <2>8
  <2>11. CASE Len(params) = 0
    BY <2>6, <2>7, <2>9, <2>10, <2>11 DEF Range
  <2>12. CASE Len(params) = 1
    <3> DEFINE group == printed[1]
               p == params[1]
    <3>1. /\ group = [l \in 1..Len(p.ids) |->
                        [type    |-> var_type_change(p.type),
                         pointer |-> p.kind = "VAR_PARAMETER",
                         id      |-> p.ids[l]]]
          /\ Len(p.ids) \in Nat
      BY <2>7, <2>8, <2>12, LenProperties
    <3>2. Range(printed) = {group}
      BY <2>10, <2>12 DEF Range
    <3>3. long = IF a <= Len(p.ids) THEN {1} ELSE {}
      BY <2>12
    <3>4. FirstIndex({1}) = 1
      <4>1. {1} \subseteq Nat /\ {1} # {}
        OBVIOUS
      <4>2. FirstIndex({1}) \in {1}
        BY <4>1, FirstIsLeast, Zenon
      <4> QED
        BY <4>2
    <3> HIDE DEF group, p, long
    <3>5. Len(group) = Len(p.ids)
      BY <3>1
    <3>6. a \in 1..Len(p.ids) => (group[a].pointer <=> p.kind = "VAR_PARAMETER")
      <4> SUFFICES ASSUME a \in 1..Len(p.ids)
                   PROVE  group[a].pointer <=> p.kind = "VAR_PARAMETER"
        OBVIOUS
      <4> DEFINE one == [type    |-> var_type_change(p.type),
                         pointer |-> p.kind = "VAR_PARAMETER",
                         id      |-> p.ids[a]]
      <4>1. group[a] = one
        BY <3>1
      <4>2. one.pointer <=> p.kind = "VAR_PARAMETER"
        BY Zenon
      <4> HIDE DEF one
      <4> QED
        BY <4>1, <4>2, Zenon
    <3>7. a \in Nat /\ 1 <= a
      OBVIOUS
    <3>8. ByReferenceAt(ast, b, a) <=> a <= Len(p.ids) /\ p.kind = "VAR_PARAMETER"
      BY <2>9, <3>3, <3>4 DEF p
    <3>9. (\E g \in Range(printed) : a <= Len(g) /\ g[a].pointer) <=>
             a <= Len(p.ids) /\ group[a].pointer
      BY <3>2, <3>5, Zenon
    <3>10. a <= Len(p.ids) => a \in 1..Len(p.ids)
      BY <3>1, <3>7
    <3> QED
      BY <2>6, <3>6, <3>8, <3>9, <3>10, Zenon
  <2>13. Len(params) = 0 \/ Len(params) = 1
    <3> DEFINE n == Len(params)
    <3>1. n <= 1
      BY <2>10
    <3>2. n \in Nat
      BY <2>7
    <3> HIDE DEF n
    <3>3. n = 0 \/ n = 1
      BY <3>1, <3>2
    <3> QED
      BY <3>3 DEF n
  <2> QED
    BY <2>11, <2>12, <2>13
<1> QED
  BY <1>1, NamesRight, PTL

-----------------------------------------------------------------------------
(* The main program *)

\* The items of main stand in the order of its statements, after its head.
MainTextInv ==
    /\ root = "PROGRAM" => gpc = "HEAD"
    /\ gpc = "STATEMENT" /\ gblk = 1 =>
          LET f == Len(out) - (gi - 1)
          IN  /\ IsHead(out, f, Len(out))
              /\ gi - 1 <= Len(ast[1].body)
              /\ Hygienic(ast) =>
                    \A r \in 1..(gi - 1) :
                       Prints(ast, out[f + r], ast[1].body[r], Scope(ast, 1))

LEMMA MainTextInit == CompilerInit => MainTextInv
BY DEF CompilerInit, GenInit, MainTextInv

LEMMA MainTextStep ==
    ASSUME NamesInv, MainTextInv, [CompilerNext]_cvars
    PROVE  MainTextInv'
<1>1. IsAst(ast) /\ ast' = ast /\ GenTypeOK /\ PlaceInv /\ MainInv /\ TableInv
  BY CompiledAssumption, AstFixed DEF NamesInv, TableInv, Proved!WalkInv, Proved!TypeOK
<1>2. (\E S : out \in Seq(S)) /\ Len(out) \in Nat /\ gi \in Nat \ {0}
  BY <1>1, LenProperties DEF PlaceInv, GenTypeOK
<1>3. root' = root \/ (root = "PROGRAM" /\ UNCHANGED gvars)
  <2>1. CASE Accept \/ Reject
    BY <1>1, <2>1 DEF Accept, Reject, MainInv
  <2>2. CASE CannotOpen \/ Open \/ EmptyStatement \/ ErrorWithoutComma \/ SkipTable
    BY <2>2 DEF CannotOpen, Open, EmptyStatement, ErrorWithoutComma, SkipTable
  <2>3. CASE BuildTable \/ TableBuilt \/ UnknownRoot \/ Generate \/ Generated \/ DestroyTable
    BY <2>3 DEF BuildTable, TableBuilt, UnknownRoot, Generate, Generated, DestroyTable, mvars
  <2>4. CASE UNCHANGED cvars
    BY <2>4 DEF cvars, mvars
  <2> QED
    BY <2>1, <2>2, <2>3, <2>4 DEF CompilerNext
<1>4. CASE root = "PROGRAM" \/ ~Generate
  <2>1. UNCHANGED <<gpc, gblk, gi>> /\ (UnknownRoot \/ UNCHANGED out)
    BY <1>4, GenOrStutter DEF Generate
  <2>2. CASE root = "PROGRAM" \/ UnknownRoot
    BY <1>3, <2>1, <2>2 DEF MainTextInv, UnknownRoot, gvars
  <2>3. CASE root # "PROGRAM" /\ ~UnknownRoot
    BY <1>1, <1>3, <2>1, <2>3 DEF MainTextInv
  <2> QED
    BY <2>2, <2>3
<1>5. CASE Generate /\ root # "PROGRAM"
  <2>1. GenNext /\ root' = root /\ stage = "GENERATE" /\ root = "PROGRAM_STRUCT"
    BY <1>3, <1>5 DEF Generate, mvars
  <2>2. CASE GenMain
    <3>1. /\ ~GenSubprogram /\ gpc' = "STATEMENT" /\ gblk' = 1 /\ gi' = 1
      BY <1>1, <1>2, <2>2, TreeFacts DEF GenMain, GenSubprogram, GenTypeOK
    <3>2. /\ Longer(out, out') /\ out'[Len(out) + 1] = FunctionOf(ast, 1)
          /\ Len(out') = Len(out) + 1
      BY <1>1, <2>2, <3>1, FunctionBegins
    <3>3. Len(out') \in Nat \ {0} /\ out'[Len(out')].item \in Heads
      BY <1>2, <3>2, FunctionFacts DEF Heads
    <3>4. IsHead(out', Len(out'), Len(out'))
      BY <3>3 DEF IsHead
    <3>5. Len(out') - (1 - 1) = Len(out') /\ 1 - 1 = 0
      BY <3>3
    <3>6. Len(ast[1].body) \in Nat
      BY <1>1, TreeFacts
    <3> QED
      BY <1>1, <2>1, <3>1, <3>4, <3>5, <3>6 DEF MainTextInv
  <2>3. CASE GenReference /\ gblk = 1
    <3> DEFINE f == Len(out) - (gi - 1)
               x == ReferenceItem(ast[1].body[gi], scope_)
    <3>1. /\ gpc = "STATEMENT" /\ gi <= Len(ast[1].body) /\ emit(<<x>>)
          /\ gi' = gi + 1 /\ gpc' = gpc /\ gblk' = 1
      BY <2>3 DEF GenReference
    <3>2. 1 \in 1..Len(ast) /\ gi \in 1..Len(ast[1].body)
      BY <1>1, <1>2, <3>1, TreeFacts
    <3>3. ast[1].body[gi] \in Reference
      BY <1>1, <3>2, TreeFacts
    <3>4. x.item \notin Heads
      BY <3>3, ReferenceUses DEF Uses, Call, Heads
    <3>5. Hygienic(ast) => Prints(ast, x, ast[1].body[gi], Scope(ast, 1))
      <4>1. scope_ = Scope(ast, 1)
        BY <1>1, <2>3, <3>1 DEF PlaceInv
      <4> QED
        BY <1>1, <2>1, <3>3, <4>1, TableReady, ReferencePrinted
    <3> HIDE DEF x
    <3>6. Longer(out, out') /\ Len(out') = Len(out) + 1 /\ out'[Len(out')] = x
      BY <1>2, <3>1, GrownByOne
    <3>7. /\ IsHead(out, f, Len(out))
          /\ Hygienic(ast) => \A r \in 1..(gi - 1) :
                                 Prints(ast, out[f + r], ast[1].body[r], Scope(ast, 1))
      BY <2>3, <3>1 DEF MainTextInv
    <3>8. /\ f \in 1..Len(out) /\ Len(out') - (gi' - 1) = f /\ gi' - 1 = gi
          /\ f + gi = Len(out')
      BY <1>2, <3>1, <3>6, <3>7 DEF IsHead
    <3> HIDE DEF f
    <3>9. IsHead(out', f, Len(out'))
      <4>1. \A j \in (f + 1)..Len(out') : j = Len(out') \/ (j \in (f + 1)..Len(out) /\ j \in 1..Len(out))
        BY <1>2, <3>6, <3>8
      <4> QED
        BY <3>4, <3>6, <3>7, <3>8, <4>1 DEF IsHead, Longer
    <3>10. ASSUME Hygienic(ast), NEW r \in 1..gi
           PROVE  Prints(ast, out'[f + r], ast[1].body[r], Scope(ast, 1))
      <4>1. CASE r = gi
        BY <3>5, <3>6, <3>8, <3>10, <4>1
      <4>2. CASE r # gi
        <5>1. r \in 1..(gi - 1) /\ f + r \in 1..Len(out)
          BY <1>2, <3>6, <3>8, <4>2
        <5> QED
          BY <3>6, <3>7, <3>10, <5>1 DEF Longer
      <4> QED
        BY <4>1, <4>2
    <3> QED
      BY <1>1, <2>1, <3>1, <3>2, <3>8, <3>9, <3>10 DEF MainTextInv
  <2>4. CASE ~GenMain /\ ~(GenReference /\ gblk = 1)
    <3>1. ~(gpc' = "STATEMENT" /\ gblk' = 1)
      <4>1. gblk \in Int
        BY <1>1 DEF GenTypeOK
      <4>2. CASE GenReference
        BY <2>4, <4>2 DEF GenReference
      <4>3. CASE GenConst \/ GenRecord \/ GenVar \/ GenSkip
        BY <4>3 DEF GenConst, GenRecord, GenVar, GenSkip, AtGenDeclaration, ScopeAfterVar, MemberScope
      <4>4. CASE ~(GenReference \/ GenConst \/ GenRecord \/ GenVar \/ GenSkip)
        BY <2>1, <2>4, <4>1, <4>4
        DEF GenNext, GenProgramHead, GenDeclarationsEnd, GenPrototype, GenPrototypesEnd,
            GenSubprogram, GenBodyBegin, GenSubprogramEnd, GenMainEnd
      <4> QED
        BY <4>2, <4>3, <4>4
    <3> QED
      BY <2>1, <3>1 DEF MainTextInv
  <2> QED
    BY <2>2, <2>3, <2>4
<1> QED
  BY <1>4, <1>5

LEMMA MainTextRight == CompilerSpec => [](NamesInv /\ MainTextInv)
<1>1. CompilerInit => NamesInv /\ MainTextInv
  BY NamesInit, MainTextInit
<1>2. (NamesInv /\ MainTextInv) /\ [CompilerNext]_cvars => (NamesInv /\ MainTextInv)'
  BY NamesStep, MainTextStep
<1> QED
  BY <1>1, <1>2, PTL DEF CompilerSpec

\* A program without subprograms has no parameters, and only its own name can be taken
\* for a result.
LEMMA PlainForm ==
    ASSUME NEW a, IsAst(a), UniqueKeys(a), Len(a) = 1, NEW n, Answer(a, n, a[1].id) # NULL
    PROVE  FormOf(a, n, a[1].id) = IF n = a[1].id THEN "result" ELSE "plain"
<1> DEFINE sym == Answer(a, n, a[1].id)
<1>1. sym \in Declared(a) /\ sym.name = n /\ sym.scope = a[1].id
  BY AnswerIs
<1> HIDE DEF sym
<1>2. sym.arg = 0
  <2>1. \A c \in 1..Len(a) : c = 1
    OBVIOUS
  <2>2. \/ sym = HeadSymbol(a, 1)
        \/ \E j \in 1..Len(a[1].decls) : sym \in DeclSymbols(a[1].decls[j], a[1].id)
    BY <1>1, <2>1, SymbolOrigin
  <2>3. CASE sym = HeadSymbol(a, 1)
    BY <2>3 DEF HeadSymbol, MkSymbol
  <2>4. ASSUME NEW j \in 1..Len(a[1].decls), sym \in DeclSymbols(a[1].decls[j], a[1].id)
        PROVE  sym.arg = 0
    <3> DEFINE e == a[1].decls[j]
    <3>1. e \in Declaration /\ DeclRank[e.kind] > 1
      BY TreeFacts DEF IsAst
    <3>2. e.kind \notin ParameterKind
      BY <3>1 DEF DeclRank, ParameterKind
    <3>3. sym \in DeclSymbols(e, a[1].id)
      BY <2>4
    <3> HIDE DEF e
    <3> QED
      BY <3>1, <3>2, <3>3, SymbolKinds DEF MkSymbol, Declaration, ParameterKind
  <2> QED
    BY <2>2, <2>3, <2>4
<1> QED
  BY <1>1, <1>2 DEF FormOf, sym

\* In a program without subprograms main prints every declared variable as it stands,
\* but for one with the name of the program, and keeps the members that statements
\* select, whatever program it is.
THEOREM MainCorrect == CompilerSpec => []MainWithoutSubprograms
<1>1. NamesInv /\ MainTextInv => MainWithoutSubprograms
  <2> SUFFICES ASSUME NamesInv, MainTextInv, Hygienic(ast), Len(ast) = 1, gpc = "STATEMENT",
                      NEW r \in 1..(gi - 1),
                      ast[1].body[r].kind = "VARIABLE",
                      DeclaredIn(ast[1].body[r].id, ast[1].id)
               PROVE  /\ out[Enclosing(Len(out)) + r].form =
                            IF ast[1].body[r].id = ast[1].id THEN "result" ELSE "plain"
                      /\ out[Enclosing(Len(out)) + r].member = ast[1].body[r].member
    BY DEF MainWithoutSubprograms
  <2> DEFINE f == Len(out) - (gi - 1)
             ref == ast[1].body[r]
             x == out[Enclosing(Len(out)) + r]
  <2>1. IsAst(ast) /\ UniqueKeys(ast)
    BY CompiledAssumption DEF NamesInv, TableInv, Proved!WalkInv, Proved!TypeOK, Hygienic
  <2>2. gblk = 1
    BY DEF NamesInv, GenTypeOK
  <2>3. IsHead(out, f, Len(out)) /\ Prints(ast, out[f + r], ref, Scope(ast, 1))
    BY <2>2 DEF MainTextInv
  <2>4. Enclosing(Len(out)) = f
    <3>1. Len(out) \in Nat
      BY LenProperties DEF NamesInv, PlaceInv
    <3> HIDE DEF f
    <3> QED
      BY <2>3, <3>1, EnclosingIs
  <2>5. Scope(ast, 1) = ast[1].id
    BY DEF Scope
  <2>6. Answer(ast, ref.id, ast[1].id) # NULL
    <3>1. PICK d \in Declared(ast) : d.name = ref.id /\ d.scope = ast[1].id
      BY DEF DeclaredIn
    <3>2. d # NULL
      BY <2>1, SymbolsTyped
    <3> QED
      BY <2>1, <3>1, <3>2, AnswerIs
  <2>7. x.form = FormOf(ast, ref.id, ast[1].id) /\ x.member = ref.member
    BY <2>3, <2>4, <2>5, <2>6 DEF Prints
  <2> QED
    BY <2>1, <2>6, <2>7, PlainForm
<1> QED
  BY <1>1, MainTextRight, PTL

-----------------------------------------------------------------------------
(* The types of a program *)

\* The symbol of a declared type itself, and those of its dimensions.
TypeSymbol(e) ==
    IF e.kind = "ARRAY" THEN MkSymbol(e.id, "array", Len(e.periods), ast[1].id, 0, 0)
    ELSE MkSymbol(e.id, "record", Len(e.members), ast[1].id, 0, 0)

DimensionSymbol(e, k) == MkSymbol(DimensionName[k], e.type, e.periods[k].end, e.id, 0, 0)

\* A declared type is an array or a record and has a symbol for each of its parts.
LEMMA TypeSymbols ==
    ASSUME IsAst(ast), NEW type, NEW e \in TypeDecl(type)
    PROVE  /\ e.id = type /\ type \in Identifier /\ e.kind \in {"ARRAY", "RECORD"}
           /\ e \in Range(ast[1].decls)
           /\ TypeSymbol(e) \in Declared(ast)
           /\ e.kind = "ARRAY" =>
                 /\ Len(e.periods) \in 1..MaxDimension
                 /\ \A k \in 1..Len(e.periods) : DimensionSymbol(e, k) \in Declared(ast)
<1>1. PICK j \in Types(ast[1]) : e = ast[1].decls[j] /\ e.id = type
  BY DEF TypeDecl
<1>2. 1 \in 1..Len(ast) /\ j \in 1..Len(ast[1].decls) /\ e.kind \in {"ARRAY", "RECORD"}
  BY <1>1, TreeFacts DEF Types
<1>3. /\ e \in Declaration /\ DeclShape(e) /\ ast[1].decls \in Seq(Declaration)
  BY <1>1, <1>2, TreeFacts
<1>4. e \in Range(ast[1].decls)
  BY <1>1, <1>2, <1>3 DEF Range
<1>5. e.id \in Identifier
  BY <1>2, <1>3 DEF Declaration, DeclShape
<1>6. DeclSymbols(e, ast[1].id) \subseteq Declared(ast)
  BY <1>1, <1>2, SymbolGiven DEF Visited
<1>7. TypeSymbol(e) \in DeclSymbols(e, ast[1].id)
  BY <1>2, SymbolKinds DEF TypeSymbol
<1>8. ASSUME e.kind = "ARRAY"
      PROVE  /\ Len(e.periods) \in 1..MaxDimension
             /\ \A k \in 1..Len(e.periods) : DimensionSymbol(e, k) \in Declared(ast)
  <2>1. e.periods \in Seq(Period) /\ e.periods # <<>> /\ Len(e.periods) <= MaxDimension
    BY <1>3, <1>8 DEF Declaration, DeclShape
  <2>2. Len(e.periods) \in 1..MaxDimension
    BY <2>1, EmptySeq, LenProperties, DimensionAssumption
  <2>3. \A k \in 1..Len(e.periods) : DimensionSymbol(e, k) \in DeclSymbols(e, ast[1].id)
    BY <1>8, SymbolKinds DEF DimensionSymbol
  <2> QED
    BY <1>6, <2>2, <2>3
<1> QED
  BY <1>1, <1>2, <1>4, <1>5, <1>6, <1>7, <1>8

\* The declarations of one type agree, if there are several.
LEMMA OneType ==
    ASSUME IsAst(ast), UniqueKeys(ast), NEW type, NEW e \in TypeDecl(type), NEW f \in TypeDecl(type)
    PROVE  /\ e.kind = f.kind
           /\ e.kind = "ARRAY" => Len(e.periods) = Len(f.periods)
<1>1. /\ TypeSymbol(e) \in Declared(ast) /\ TypeSymbol(f) \in Declared(ast)
      /\ e.id = type /\ f.id = type
      /\ e.kind \in {"ARRAY", "RECORD"} /\ f.kind \in {"ARRAY", "RECORD"}
  BY TypeSymbols
<1>2. /\ TypeSymbol(e).name = type /\ TypeSymbol(e).scope = ast[1].id
      /\ TypeSymbol(f).name = type /\ TypeSymbol(f).scope = ast[1].id
  BY <1>1 DEF TypeSymbol, MkSymbol
<1>3. TypeSymbol(e) = TypeSymbol(f)
  BY <1>1, <1>2 DEF UniqueKeys
<1>4. \A g : /\ TypeSymbol(g).type = IF g.kind = "ARRAY" THEN "array" ELSE "record"
             /\ g.kind = "ARRAY" => TypeSymbol(g).dimension = Len(g.periods)
  BY DEF TypeSymbol, MkSymbol
<1> HIDE DEF TypeSymbol
<1>5. (IF e.kind = "ARRAY" THEN "array" ELSE "record") = (IF f.kind = "ARRAY" THEN "array" ELSE "record")
  BY <1>3, <1>4
<1> QED
  BY <1>1, <1>3, <1>4, <1>5

\* A record has its own symbol and those of its members.
LEMMA RecordSymbols ==
    ASSUME NEW e \in Declaration, e.kind = "RECORD", NEW s, NEW d \in DeclSymbols(e, s)
    PROVE  \/ d = MkSymbol(e.id, "record", Len(e.members), s, 0, 0)
           \/ d.scope = e.id /\ \E v \in Range(e.members) : d.name \in Range(v.ids)
<1> DEFINE own == MkSymbol(e.id, "record", Len(e.members), s, 0, 0)
           member(k, l) == MkSymbol(e.members[k].ids[l], e.members[k].type, 0, e.id, 0, 0)
<1>1. d = own \/ \E k \in 1..Len(e.members) : \E l \in 1..Len(e.members[k].ids) : d = member(k, l)
  BY SymbolKinds
<1>2. ASSUME NEW k \in 1..Len(e.members), NEW l \in 1..Len(e.members[k].ids), d = member(k, l)
      PROVE  d.scope = e.id /\ \E v \in Range(e.members) : d.name \in Range(v.ids)
  <2>1. d.scope = e.id /\ d.name = e.members[k].ids[l]
    BY <1>2 DEF MkSymbol
  <2>2. e.members \in Seq(Member)
    BY DEF Declaration
  <2>3. e.members[k] \in Range(e.members) /\ e.members[k] \in Member
    BY <2>2, ElementOfSeq DEF Range
  <2> DEFINE ids == e.members[k].ids
  <2>4. ids \in Seq(Identifier)
    BY <2>3 DEF Member
  <2>5. \A n \in 1..Len(ids) : ids[n] \in Range(ids)
    <3> HIDE DEF ids
    <3> QED
      BY <2>4 DEF Range
  <2>6. d.name \in Range(ids)
    BY <1>2, <2>1, <2>5
  <2> QED
    BY <2>1, <2>3, <2>6
<1> HIDE DEF own, member
<1>3. CASE d = own
  BY <1>3 DEF own
<1> QED
  BY <1>1, <1>2, <1>3

\* A symbol that is called like a dimension in the scope of a type is a dimension of it.
LEMMA InType ==
    ASSUME IsAst(ast), Hygienic(ast), NEW type, \A c \in 1..Len(ast) : ast[c].id # type,
           NEW d \in Declared(ast), d.scope = type,
           NEW k \in 1..MaxDimension, d.name = DimensionName[k]
    PROVE  \E e \in TypeDecl(type) :
              e.kind = "ARRAY" /\ k <= Len(e.periods) /\ d = DimensionSymbol(e, k)
<1>1. PICK c \in 1..Len(ast) :
         \/ d = HeadSymbol(ast, c)
         \/ \E j \in 1..Len(ast[c].decls) :
               Visited(c, ast[c].decls[j]) /\ d \in DeclSymbols(ast[c].decls[j], ast[c].id)
  BY SymbolOrigin
<1>2. DimensionName[k] \in Range(DimensionName)
  BY DimensionAssumption DEF Range
<1>3. d # HeadSymbol(ast, c)
  <2>1. ast[1].id # d.name
    BY <1>2 DEF Hygienic
  <2> QED
    BY <2>1 DEF HeadSymbol, MkSymbol
<1>4. PICK j \in 1..Len(ast[c].decls) :
         Visited(c, ast[c].decls[j]) /\ d \in DeclSymbols(ast[c].decls[j], ast[c].id)
  BY <1>1, <1>3
<1> DEFINE e == ast[c].decls[j]
<1>5. e \in Declaration /\ DeclShape(e) /\ Visited(c, e) /\ d \in DeclSymbols(e, ast[c].id)
  BY <1>4, TreeFacts
<1>6. CASE e.kind \notin {"ARRAY", "RECORD"}
  <2>1. d.scope = ast[c].id
    BY <1>5, <1>6, SymbolKinds DEF MkSymbol, Declaration, ParameterKind
  <2> QED
    BY <2>1
<1>7. CASE e.kind \in {"ARRAY", "RECORD"}
  <2>1. c = 1 /\ j \in Types(ast[1]) /\ ast[c].id # type
    BY <1>5, <1>7 DEF Visited, Types
  <2>2. CASE e.kind = "RECORD"
    <3>1. d # MkSymbol(e.id, "record", Len(e.members), ast[c].id, 0, 0)
      BY <2>1 DEF MkSymbol
    <3>2. e = ast[1].decls[j]
      BY <2>1
    <3> HIDE DEF e
    <3>3. PICK v \in Range(e.members) : d.name \in Range(v.ids)
      BY <1>5, <2>2, <3>1, RecordSymbols
    <3>4. Range(v.ids) \cap Range(DimensionName) = {}
      BY <2>1, <3>2, <3>3 DEF Hygienic
    <3> QED
      BY <1>2, <3>3, <3>4
  <2>3. CASE e.kind = "ARRAY"
    <3>1. d # MkSymbol(e.id, "array", Len(e.periods), ast[c].id, 0, 0)
      BY <2>1 DEF MkSymbol
    <3>2. PICK l \in 1..Len(e.periods) :
             d = MkSymbol(DimensionName[l], e.type, e.periods[l].end, e.id, 0, 0)
      BY <1>5, <2>3, <3>1, SymbolKinds
    <3>3. d.name = DimensionName[l] /\ d.scope = e.id
      BY <3>2 DEF MkSymbol
    <3>4. l \in 1..MaxDimension
      <4>1. e.periods \in Seq(Period) /\ Len(e.periods) <= MaxDimension
        BY <1>5 DEF Declaration, DeclShape
      <4> QED
        BY <4>1, LenProperties, DimensionAssumption
    <3>5. l = k
      BY <3>3, <3>4, DimensionAssumption
    <3>6. k <= Len(e.periods)
      <4>1. Len(e.periods) \in Nat
        BY <1>5, LenProperties DEF Declaration
      <4> QED
        BY <3>5, <4>1
    <3>7. e \in TypeDecl(type)
      BY <2>1, <3>3 DEF TypeDecl
    <3> QED
      BY <2>3, <3>2, <3>5, <3>6, <3>7 DEF DimensionSymbol
  <2> QED
    BY <1>7, <2>2, <2>3
<1> QED
  BY <1>6, <1>7

\* A symbol of the program called like a type is that type's, or no type.
LEMMA NamedLikeType ==
    ASSUME IsAst(ast), Hygienic(ast), NEW type, \A c \in 1..Len(ast) : ast[c].id # type,
           NEW d \in Declared(ast), d.name = type, d.scope = ast[1].id
    PROVE  \/ d.type \notin {"array", "record"}
           \/ \E e \in TypeDecl(type) : d = TypeSymbol(e)
<1>1. PICK c \in 1..Len(ast) :
         \/ d = HeadSymbol(ast, c)
         \/ \E j \in 1..Len(ast[c].decls) :
               Visited(c, ast[c].decls[j]) /\ d \in DeclSymbols(ast[c].decls[j], ast[c].id)
  BY SymbolOrigin
<1>2. d # HeadSymbol(ast, c)
  <2>1. HeadSymbol(ast, c).name = ast[c].id
    BY DEF HeadSymbol, MkSymbol
  <2> QED
    BY <2>1
<1>3. PICK j \in 1..Len(ast[c].decls) :
         Visited(c, ast[c].decls[j]) /\ d \in DeclSymbols(ast[c].decls[j], ast[c].id)
  BY <1>1, <1>2
<1> DEFINE e == ast[c].decls[j]
<1>4. e \in Declaration /\ DeclShape(e) /\ Visited(c, e) /\ d \in DeclSymbols(e, ast[c].id)
  BY <1>3, TreeFacts
<1>5. CASE e.kind \notin {"ARRAY", "RECORD"}
  <2>1. d.type \in {e.type, "const"} /\ (e.kind # "CONST_DECLARATION" => d.type = e.type)
    BY <1>4, <1>5, SymbolKinds DEF MkSymbol, Declaration, ParameterKind
  <2>2. e.kind = "CONST_DECLARATION" => d.type = "const"
    BY <1>4, SymbolKinds DEF MkSymbol
  <2>3. e.kind # "CONST_DECLARATION" => e.type \in BasicType \cup Identifier
    BY <1>4, <1>5 DEF Declaration, DeclShape
  <2> QED
    BY <2>1, <2>2, <2>3, IdentifierAssumption DEF Keyword, BasicType
<1>6. CASE e.kind \in {"ARRAY", "RECORD"}
  <2>1. c = 1 /\ 1 \in 1..Len(ast) /\ j \in Types(ast[1])
    BY <1>4, <1>6, TreeFacts DEF Visited, Types
  <2>2. e.id # ast[1].id
    BY <2>1 DEF Hygienic
  <2>3. d = TypeSymbol(e)
    <3>1. CASE e.kind = "ARRAY"
      <4>1. \A k : MkSymbol(DimensionName[k], e.type, e.periods[k].end, e.id, 0, 0).scope = e.id
        BY DEF MkSymbol
      <4>2. d = MkSymbol(e.id, "array", Len(e.periods), ast[c].id, 0, 0)
        BY <1>4, <2>2, <3>1, <4>1, SymbolKinds
      <4> QED
        BY <2>1, <3>1, <4>2 DEF TypeSymbol
    <3>2. CASE e.kind = "RECORD"
      <4>1. c = 1 /\ e.id # ast[1].id
        BY <2>1, <2>2
      <4> HIDE DEF e
      <4>2. d = MkSymbol(e.id, "record", Len(e.members), ast[1].id, 0, 0)
        BY <1>4, <3>2, <4>1, RecordSymbols
      <4> QED
        BY <3>2, <4>2 DEF TypeSymbol
    <3> QED
      BY <1>6, <3>1, <3>2
  <2>4. e.id = type
    <3>1. TypeSymbol(e).name = e.id
      BY DEF TypeSymbol, MkSymbol
    <3> QED
      BY <2>3, <3>1
  <2>5. e \in TypeDecl(type)
    BY <2>1, <2>4 DEF TypeDecl
  <2> QED
    BY <2>3, <2>5
<1> QED
  BY <1>1, <1>5, <1>6

-----------------------------------------------------------------------------
(* What TYPE and IDLIST look up *)

\* The generator finds dimension k of an array type that has one, and nothing else.
LEMMA DimensionAnswer ==
    ASSUME IsAst(ast), Hygienic(ast), NEW type, \A c \in 1..Len(ast) : ast[c].id # type,
           NEW k \in 1..MaxDimension
    PROVE  /\ TypeDecl(type) = {} => Answer(ast, DimensionName[k], type) = NULL
           /\ \A e \in TypeDecl(type) :
                 Answer(ast, DimensionName[k], type) =
                    IF e.kind = "ARRAY" /\ k <= Len(e.periods) THEN DimensionSymbol(e, k) ELSE NULL
<1> DEFINE found == Answer(ast, DimensionName[k], type)
<1>1. UniqueKeys(ast) /\ k \in Nat
  BY DimensionAssumption DEF Hygienic
<1>2. found # NULL =>
         \E e \in TypeDecl(type) :
            e.kind = "ARRAY" /\ k <= Len(e.periods) /\ found = DimensionSymbol(e, k)
  <2> SUFFICES ASSUME found # NULL
               PROVE  \E e \in TypeDecl(type) :
                         e.kind = "ARRAY" /\ k <= Len(e.periods) /\ found = DimensionSymbol(e, k)
    OBVIOUS
  <2>1. found \in Declared(ast) /\ found.name = DimensionName[k] /\ found.scope = type
    BY <1>1, AnswerIs
  <2> HIDE DEF found
  <2> QED
    BY <2>1, InType
<1> HIDE DEF found
<1>3. ASSUME NEW e \in TypeDecl(type)
      PROVE  found = IF e.kind = "ARRAY" /\ k <= Len(e.periods) THEN DimensionSymbol(e, k) ELSE NULL
  <2>1. CASE e.kind = "ARRAY" /\ k <= Len(e.periods)
    <3>1. /\ e.id = type /\ Len(e.periods) \in Nat
          /\ \A l \in 1..Len(e.periods) : DimensionSymbol(e, l) \in Declared(ast)
      BY <2>1, TypeSymbols
    <3>2. DimensionSymbol(e, k) \in Declared(ast)
      BY <1>1, <2>1, <3>1
    <3>3. DimensionSymbol(e, k).name = DimensionName[k] /\ DimensionSymbol(e, k).scope = type
      BY <3>1 DEF DimensionSymbol, MkSymbol
    <3> QED
      BY <1>1, <2>1, <3>2, <3>3, AnswerIs DEF found
  <2>2. CASE ~(e.kind = "ARRAY" /\ k <= Len(e.periods))
    <3>1. ASSUME NEW g \in TypeDecl(type), g.kind = "ARRAY", k <= Len(g.periods) PROVE FALSE
      BY <1>1, <2>2, <3>1, OneType
    <3> QED
      BY <1>2, <2>2, <3>1
  <2> QED
    BY <2>1, <2>2
<1> QED
  BY <1>2, <1>3 DEF found

\* The dimensions printed for a type are the bounds of its array declaration.
LEMMA DimensionsAre ==
    ASSUME IsAst(ast), Hygienic(ast), syms \in Seq(Symbol), Entries(syms) = Declared(ast),
           NEW type, \A c \in 1..Len(ast) : ast[c].id # type
    PROVE  /\ TypeDecl(type) = {} => Dimensions(type) = <<>>
           /\ \A e \in TypeDecl(type) :
                 Dimensions(type) = IF e.kind = "ARRAY" THEN [k \in 1..Len(e.periods) |-> e.periods[k].end]
                                    ELSE <<>>
<1> DEFINE dimension(k) == get_symbol(syms, DimensionName[k], type)
           missing == {k \in 1..MaxDimension : dimension(k) = NULL}
           count == IF missing = {} THEN MaxDimension ELSE FirstIndex(missing) - 1
<1>1. Dimensions(type) = [k \in 1..count |-> dimension(k).dimension]
  BY DEF Dimensions
<1>2. UniqueKeys(ast) /\ MaxDimension \in Nat \ {0}
  BY DimensionAssumption DEF Hygienic
<1>3. \A k : dimension(k) = Answer(ast, DimensionName[k], type)
  BY <1>2, LookUp
<1> HIDE DEF dimension
<1>4. missing # {} => FirstIndex(missing) \in missing /\ \A k \in missing : FirstIndex(missing) <= k
  <2>1. missing \subseteq Nat
    BY <1>2
  <2> HIDE DEF missing
  <2> QED
    BY <2>1, FirstIsLeast
<1>5. ASSUME \A k \in 1..MaxDimension : dimension(k) = NULL
      PROVE  Dimensions(type) = <<>>
  <2>1. 1 \in missing
    BY <1>2, <1>5
  <2>2. FirstIndex(missing) \in 1..MaxDimension /\ FirstIndex(missing) <= 1
    BY <1>4, <2>1
  <2>3. count = 0
    <3> DEFINE first == FirstIndex(missing)
    <3>1. first = 1 /\ missing # {}
      BY <1>2, <2>1, <2>2
    <3> QED
      BY <3>1
  <2> HIDE DEF count
  <2>4. Dimensions(type) = [k \in 1..0 |-> dimension(k).dimension]
    BY <1>1, <2>3
  <2> QED
    BY <2>4
<1>6. CASE TypeDecl(type) = {}
  BY <1>3, <1>5, <1>6, DimensionAnswer
<1>7. ASSUME NEW e \in TypeDecl(type)
      PROVE  Dimensions(type) = IF e.kind = "ARRAY" THEN [k \in 1..Len(e.periods) |-> e.periods[k].end]
                                ELSE <<>>
  <2>1. CASE e.kind # "ARRAY"
    BY <1>3, <1>5, <2>1, DimensionAnswer
  <2>2. CASE e.kind = "ARRAY"
    <3> DEFINE n == Len(e.periods)
    <3>1. n \in 1..MaxDimension /\ \A k \in 1..n : DimensionSymbol(e, k) \in Declared(ast)
      BY <2>2, TypeSymbols
    <3>2. \A k \in 1..n : DimensionSymbol(e, k) # NULL
      BY <3>1, SymbolsTyped
    <3>3. \A k \in 1..MaxDimension : dimension(k) = IF k <= n THEN DimensionSymbol(e, k) ELSE NULL
      BY <1>3, <2>2, DimensionAnswer
    <3> HIDE DEF n
    <3>4. \A k \in 1..MaxDimension : k \in missing <=> k > n
      BY <1>2, <3>1, <3>2, <3>3
    <3>5. count = n
      <4> DEFINE first == FirstIndex(missing)
      <4>1. CASE missing = {}
        <5>1. ~(n + 1 \in 1..MaxDimension)
          BY <3>1, <3>4, <4>1
        <5> QED
          BY <1>2, <3>1, <4>1, <5>1
      <4>2. CASE missing # {}
        <5>1. first \in missing /\ \A k \in missing : first <= k
          BY <1>4, <4>2
        <5>2. first \in 1..MaxDimension /\ first > n
          BY <3>4, <5>1
        <5>3. n + 1 \in missing
          BY <1>2, <3>1, <3>4, <5>2
        <5> HIDE DEF first
        <5>4. first = n + 1
          BY <3>1, <5>1, <5>2, <5>3
        <5> QED
          BY <3>1, <4>2, <5>4 DEF first
      <4> QED
        BY <4>1, <4>2
    <3>6. \A k \in 1..n : dimension(k).dimension = e.periods[k].end
      <4> TAKE k \in 1..n
      <4>1. dimension(k) = DimensionSymbol(e, k)
        BY <1>2, <3>1, <3>3
      <4> QED
        BY <4>1 DEF DimensionSymbol, MkSymbol
    <3> HIDE DEF count
    <3>7. Dimensions(type) = [k \in 1..n |-> e.periods[k].end]
      BY <1>1, <3>5, <3>6
    <3> QED
      BY <2>2, <3>7 DEF n
  <2> QED
    BY <2>1, <2>2
<1> QED
  BY <1>6, <1>7

\* The spellings that is_basic_type knows have a C name, and no type is declared like one.
LEMMA BasicTypes ==
    ASSUME IsAst(ast), NEW type
    PROVE  /\ is_basic_type(type) => type \in DOMAIN CName
           /\ type \in BasicType => TypeDecl(type) = {}
<1>1. is_basic_type(type) => type \in DOMAIN CName
  BY DEF is_basic_type, BasicType, CName
<1>2. ASSUME type \in BasicType, NEW e \in TypeDecl(type) PROVE FALSE
  BY <1>2, TypeSymbols, IdentifierAssumption
<1> QED
  BY <1>1, <1>2

\* The type and the dimensions printed for a variable of the program are the meaning of
\* its declared type.
LEMMA GlobalVariable ==
    ASSUME IsAst(ast), Hygienic(ast), syms \in Seq(Symbol), Entries(syms) = Declared(ast),
           NEW ids, NEW type \in BasicType \cup Identifier, \A c \in 1..Len(ast) : ast[c].id # type
    PROVE  VarItem(ids, type, ast[1].id) = PrintedAs(ids, type)
<1> DEFINE s == ast[1].id
           sym == get_symbol(syms, type, s)
           d == CHOOSE e \in TypeDecl(type) : TRUE
<1>1. UniqueKeys(ast)
  BY DEF Hygienic
<1>2. sym = Answer(ast, type, s)
  BY <1>1, LookUp
<1>3. CASE is_basic_type(type)
  <2>1. type \in DOMAIN CName /\ TypeDecl(type) = {}
    BY <1>3, BasicTypes DEF is_basic_type
  <2>2. TypeText(type, s) = CType(CName[type])
    BY <1>3, <2>1 DEF TypeText, var_type_change
  <2>3. Dimensions(type) = <<>>
    BY <2>1, DimensionsAre
  <2>4. Meaning(type) = [type |-> CType(CName[type]), dims |-> <<>>]
    BY <1>3 DEF Meaning
  <2> QED
    BY <2>2, <2>3, <2>4 DEF VarItem, PrintedAs
<1>4. CASE ~is_basic_type(type) /\ TypeDecl(type) = {}
  <2>1. sym # NULL => sym.type \notin {"array", "record"}
    <3> SUFFICES ASSUME sym # NULL PROVE sym.type \notin {"array", "record"}
      OBVIOUS
    <3>1. sym \in Declared(ast) /\ sym.name = type /\ sym.scope = s
      BY <1>1, <1>2, AnswerIs
    <3> HIDE DEF sym
    <3> QED
      BY <1>4, <3>1, NamedLikeType
  <2>2. TypeText(type, s) = NoType
    <3> HIDE DEF sym
    <3>1. TypeText(type, s) =
             CASE is_basic_type(type) -> CType(var_type_change(type))
               [] ~is_basic_type(type) /\ sym = NULL -> NoType
               [] ~is_basic_type(type) /\ sym # NULL ->
                     CASE sym.type = "array"  -> CType(var_type_change(get_symbol(syms, DimensionName[1], type).type))
                       [] sym.type = "record" -> CStruct(sym.name)
                       [] OTHER -> NoType
      BY DEF TypeText, sym
    <3> QED
      BY <1>4, <2>1, <3>1
  <2>3. Dimensions(type) = <<>>
    BY <1>4, DimensionsAre
  <2>4. Meaning(type) = [type |-> NoType, dims |-> <<>>]
    BY <1>4 DEF Meaning
  <2> QED
    BY <2>2, <2>3, <2>4 DEF VarItem, PrintedAs
<1>5. CASE ~is_basic_type(type) /\ TypeDecl(type) # {}
  <2>1. d \in TypeDecl(type)
    BY <1>5
  <2>2. /\ d.kind \in {"ARRAY", "RECORD"} /\ d.id = type
        /\ TypeSymbol(d) \in Declared(ast)
        /\ d.kind = "ARRAY" => Len(d.periods) \in 1..MaxDimension
    BY <2>1, TypeSymbols
  <2>3. Dimensions(type) = IF d.kind = "ARRAY" THEN [k \in 1..Len(d.periods) |-> d.periods[k].end]
                           ELSE <<>>
    BY <2>1, DimensionsAre
  <2>4. Meaning(type) = IF d.kind = "RECORD" THEN [type |-> CStruct(d.id), dims |-> <<>>]
                        ELSE [type |-> CType(var_type_change(d.type)),
                              dims |-> [k \in 1..Len(d.periods) |-> d.periods[k].end]]
    BY <1>5 DEF Meaning
  <2>5. d.kind = "ARRAY" => get_symbol(syms, DimensionName[1], type).type = d.type
    <3> SUFFICES ASSUME d.kind = "ARRAY"
                 PROVE  get_symbol(syms, DimensionName[1], type).type = d.type
      OBVIOUS
    <3> HIDE DEF d
    <3>1. 1 \in 1..MaxDimension /\ 1 <= Len(d.periods)
      BY <2>2, DimensionAssumption
    <3>2. get_symbol(syms, DimensionName[1], type) = DimensionSymbol(d, 1)
      BY <1>1, <2>1, <3>1, DimensionAnswer, LookUp
    <3> QED
      BY <3>2 DEF DimensionSymbol, MkSymbol
  <2> HIDE DEF d
  <2>6. TypeSymbol(d).name = type /\ TypeSymbol(d).scope = s
        /\ TypeSymbol(d).type = IF d.kind = "ARRAY" THEN "array" ELSE "record"
    BY <2>2 DEF TypeSymbol, MkSymbol
  <2>7. sym = TypeSymbol(d) /\ sym # NULL
    BY <1>1, <1>2, <2>2, <2>6, AnswerIs, SymbolsTyped
  <2> HIDE DEF sym
  <2>8. TypeText(type, s) = IF d.kind = "ARRAY" THEN CType(var_type_change(d.type)) ELSE CStruct(type)
    <3>1. TypeText(type, s) =
             CASE is_basic_type(type) -> CType(var_type_change(type))
               [] ~is_basic_type(type) /\ sym = NULL -> NoType
               [] ~is_basic_type(type) /\ sym # NULL ->
                     CASE sym.type = "array"  -> CType(var_type_change(get_symbol(syms, DimensionName[1], type).type))
                       [] sym.type = "record" -> CStruct(sym.name)
                       [] OTHER -> NoType
      BY DEF TypeText, sym
    <3> QED
      BY <1>5, <2>2, <2>5, <2>6, <2>7, <3>1
  <2>9. TypeText(type, s) = Meaning(type).type /\ Dimensions(type) = Meaning(type).dims
    BY <2>2, <2>3, <2>4, <2>8
  <2> QED
    BY <2>9 DEF VarItem, PrintedAs
<1> QED
  BY <1>3, <1>4, <1>5

\* A variable of a subprogram gets a C type for a basic type only, but the dimensions of
\* the program's array with the name of its type.
LEMMA LocalVariable ==
    ASSUME IsAst(ast), Hygienic(ast), syms \in Seq(Symbol), Entries(syms) = Declared(ast),
           NEW b \in 2..Len(ast), NEW e, e.type \in BasicType \cup Identifier,
           \A c \in 1..Len(ast) : ast[c].id # e.type
    PROVE  VarItem(e.ids, e.type, ast[b].id) = LocalDeclaration(e)
<1> DEFINE type == e.type
           s == ast[b].id
           sym == get_symbol(syms, type, s)
<1>1. UniqueKeys(ast) /\ b \in 1..Len(ast)
  BY TreeFacts DEF Hygienic
<1>2. sym = Answer(ast, type, s)
  BY <1>1, LookUp
<1>3. sym # NULL => sym.type \notin {"array", "record"}
  <2> SUFFICES ASSUME sym # NULL PROVE sym.type \notin {"array", "record"}
    OBVIOUS
  <2>1. sym \in Declared(ast) /\ sym.name = type /\ sym.scope = s
    BY <1>1, <1>2, AnswerIs
  <2> HIDE DEF sym
  <2>2. \A c \in 1..Len(ast) : sym # HeadSymbol(ast, c)
    <3>1. \A c : HeadSymbol(ast, c).name = ast[c].id
      BY DEF HeadSymbol, MkSymbol
    <3> QED
      BY <2>1, <3>1
  <2>3. PICK j \in 1..Len(ast[b].decls) :
           ast[b].decls[j].kind \notin {"ARRAY", "RECORD"} /\ sym \in DeclSymbols(ast[b].decls[j], s)
    BY <1>1, <2>1, <2>2, InSubprogram
  <2> DEFINE x == ast[b].decls[j]
  <2>4. /\ x \in Declaration /\ DeclShape(x) /\ sym \in DeclSymbols(x, s)
        /\ x.kind \notin {"ARRAY", "RECORD"}
    BY <1>1, <2>3, TreeFacts
  <2> HIDE DEF x, s
  <2>5. x.kind = "CONST_DECLARATION" => sym.type = "const"
    BY <2>4, SymbolKinds DEF MkSymbol
  <2>6. x.kind # "CONST_DECLARATION" => sym.type = x.type /\ x.type \in BasicType \cup Identifier
    BY <2>4, SymbolKinds DEF MkSymbol, Declaration, DeclShape, ParameterKind
  <2> QED
    BY <2>5, <2>6, IdentifierAssumption DEF Keyword, BasicType
<1>4. TypeText(type, s) = IF is_basic_type(type) THEN CType(CName[type]) ELSE NoType
  <2> HIDE DEF sym
  <2>1. TypeText(type, s) =
           CASE is_basic_type(type) -> CType(var_type_change(type))
             [] ~is_basic_type(type) /\ sym = NULL -> NoType
             [] ~is_basic_type(type) /\ sym # NULL ->
                   CASE sym.type = "array"  -> CType(var_type_change(get_symbol(syms, DimensionName[1], type).type))
                     [] sym.type = "record" -> CStruct(sym.name)
                     [] OTHER -> NoType
    BY DEF TypeText, sym
  <2>2. is_basic_type(type) => var_type_change(type) = CName[type]
    BY BasicTypes DEF var_type_change
  <2> HIDE DEF type, s
  <2> QED
    BY <1>3, <2>1, <2>2
<1>5. Dimensions(type) = Meaning(type).dims
  <2>1. VarItem(e.ids, type, ast[1].id) = PrintedAs(e.ids, type)
    BY GlobalVariable
  <2> QED
    BY <2>1 DEF VarItem, PrintedAs
<1> QED
  BY <1>4, <1>5 DEF VarItem, LocalDeclaration

-----------------------------------------------------------------------------
(* What has been printed of the declarations *)

\* The item of a declaration, in the program and in a subprogram.
ItemOf(c, e) ==
    IF c # 1 THEN LocalDeclaration(e)
    ELSE IF e.kind = "RECORD"
         THEN [item |-> "struct", id |-> e.id,
               fields |-> [n \in 1..Len(e.members) |->
                             PrintedAs(e.members[n].ids, e.members[n].type)]]
         ELSE PrintedAs(e.ids, e.type)

\* It stands where it belongs.
Shown(o, c, e) ==
    \E k \in 1..Len(o) :
       /\ o[k] = ItemOf(c, e)
       /\ e.kind = "VAR_DECLARATION" =>
             IF c = 1 THEN NoHead(o, k) ELSE Within(ast, o, c, k)

\* What an item can be shown for: constants are ConstantsInv's.
HasItem(c, e) == e.kind = "VAR_DECLARATION" \/ (e.kind = "RECORD" /\ c = 1)

DeclarationsInv ==
    /\ gpc = "HEAD" => gblk = 1
    /\ Hygienic(ast) =>
          \A c \in 1..Len(ast) : \A j \in 1..Len(ast[c].decls) :
             GoneBy(c, j) /\ HasItem(c, ast[c].decls[j]) => Shown(out, c, ast[c].decls[j])

LEMMA DeclarationsInit == CompilerInit => DeclarationsInv
BY DEF CompilerInit, GenInit, DeclarationsInv, GoneBy

LEMMA ShownStays ==
    ASSUME NEW more, Longer(out, more), ast' = ast, NEW c, NEW e, Shown(out, c, e)
    PROVE  Shown(more, c, e)
<1>1. PICK k \in 1..Len(out) :
         /\ out[k] = ItemOf(c, e)
         /\ e.kind = "VAR_DECLARATION" =>
               IF c = 1 THEN NoHead(out, k) ELSE Within(ast, out, c, k)
  BY DEF Shown
<1>2. k \in 1..Len(more) /\ more[k] = out[k]
  BY DEF Longer
<1>3. /\ NoHead(more, k) <=> NoHead(out, k)
      /\ Within(ast, more, c, k) <=> Within(ast, out, c, k)
  BY WithinStays
<1> QED
  BY <1>1, <1>2, <1>3 DEF Shown

\* Every step leaves what is printed where it is.
LEMMA LongerStep ==
    ASSUME IsAst(ast), GenTypeOK, PlaceInv, ast' = ast, GenNext
    PROVE  Longer(out, out')
<1>1. CASE GenSubprogram \/ GenMain
  BY <1>1, FunctionBegins
<1>2. CASE ~GenSubprogram /\ ~GenMain
  <2>1. \E S : out \in Seq(S)
    BY DEF PlaceInv
  <2>2. \E x : PrintsAtMost(x)
    BY <1>2, <2>1, StepPrints
  <2> QED
    BY <2>1, <2>2, StaysPut
<1> QED
  BY <1>1, <1>2

LEMMA LongerStutter ==
    ASSUME \E S : out \in Seq(S), UnknownRoot \/ UNCHANGED out
    PROVE  Longer(out, out')
<1>1. Len(out) \in Nat
  BY LenProperties
<1>2. CASE UnknownRoot
  BY <1>2, GrownByOne DEF UnknownRoot
<1>3. CASE UNCHANGED out
  BY <1>1, <1>3 DEF Longer
<1> QED
  BY <1>2, <1>3

\* A step that prints a declaration shows it.
LEMMA DeclarationShown ==
    ASSUME MainInv, TableInv, GenTypeOK, PlaceInv, PlaceInv', Generate, ast' = ast,
           Hygienic(ast), GenConst \/ GenRecord \/ GenVar \/ GenSkip,
           HasItem(gblk, ast[gblk].decls[gi])
    PROVE  Shown(out', gblk, ast[gblk].decls[gi])
<1> DEFINE e == ast[gblk].decls[gi]
<1>1. /\ IsAst(ast) /\ syms \in Seq(Symbol) /\ Entries(syms) = Declared(ast)
      /\ \E S : out \in Seq(S)
  BY TableReady DEF Generate, PlaceInv
<1>2. gblk \in 1..Len(ast) /\ gi \in 1..Len(ast[gblk].decls) /\ Len(ast) \in Nat \ {0}
  BY <1>1, GoneNext, TreeFacts
<1>3. e \in Declaration /\ DeclShape(e) /\ ast[gblk].decls \in Seq(Declaration)
  BY <1>1, <1>2, TreeFacts
<1>4. e \in Range(ast[gblk].decls) /\ gdecl = e
  BY <1>2, <1>3 DEF Range, gdecl
<1>5. gpc = "DECLARATION" /\ gpc' = gpc /\ gblk' = gblk
  BY DEF GenConst, GenRecord, GenVar, GenSkip, AtGenDeclaration, ScopeAfterVar, MemberScope
<1>6. scope_ = ast[gblk].id
  BY <1>5 DEF PlaceInv
<1>7. /\ \A c \in 1..Len(ast) : ast[c].id # e.type
      /\ \A c \in 1..Len(ast) : \A v \in Range(e.members) : ast[c].id # v.type
  BY <1>2, <1>4 DEF Hygienic
<1> HIDE DEF e
<1>8. CASE e.kind = "VAR_DECLARATION"
  <2> DEFINE x == VarItem(e.ids, e.type, ast[gblk].id)
  <2>1. GenVar
    BY <1>4, <1>8 DEF GenConst, GenRecord, GenVar, GenSkip, AtGenDeclaration, ScopeAfterVar, MemberScope
  <2>2. emit(<<x>>)
    BY <1>4, <1>6, <2>1 DEF GenVar
  <2>3. e.type \in BasicType \cup Identifier
    BY <1>3, <1>8 DEF Declaration, DeclShape
  <2>4. x = ItemOf(gblk, e)
    <3>1. CASE gblk = 1
      BY <1>1, <1>7, <1>8, <2>3, <3>1, GlobalVariable DEF ItemOf
    <3>2. CASE gblk # 1
      <4>1. gblk \in 2..Len(ast)
        BY <1>2, <3>2
      <4> QED
        BY <1>1, <1>7, <2>3, <3>2, <4>1, LocalVariable DEF ItemOf
    <3> QED
      BY <3>1, <3>2
  <2> HIDE DEF x
  <2>5. Longer(out, out') /\ Len(out') = Len(out) + 1 /\ out'[Len(out')] = x
    BY <1>1, <2>2, GrownByOne
  <2>6. IF gblk = 1 THEN NoHead(out', Len(out')) ELSE Within(ast, out', gblk, Len(out'))
    BY <1>2, <1>5 DEF PlaceInv
  <2>7. Len(out') \in 1..Len(out')
    BY <2>5 DEF Longer
  <2> QED
    BY <2>4, <2>5, <2>6, <2>7 DEF Shown, e
<1>9. CASE e.kind = "RECORD" /\ gblk = 1
  <2> DEFINE x == [item |-> "struct", id |-> e.id,
                   fields |-> [n \in 1..Len(e.members) |->
                                 VarItem(e.members[n].ids, e.members[n].type, ast[1].id)]]
  <2>1. GenRecord
    BY <1>4, <1>9 DEF GenConst, GenRecord, GenVar, GenSkip, AtGenDeclaration, ScopeAfterVar, MemberScope
  <2>2. emit(<<x>>)
    BY <1>4, <1>6, <1>9, <2>1 DEF GenRecord, MemberScope, ScopeAfterVar
  <2>3. \A n \in 1..Len(e.members) :
           VarItem(e.members[n].ids, e.members[n].type, ast[1].id)
              = PrintedAs(e.members[n].ids, e.members[n].type)
    <3> TAKE n \in 1..Len(e.members)
    <3>1. e.members \in Seq(Member)
      BY <1>3 DEF Declaration
    <3>2. e.members[n] \in Range(e.members) /\ e.members[n] \in Member
      BY <3>1, ElementOfSeq DEF Range
    <3>3. e.members[n].type \in BasicType \cup Identifier
      BY <3>2 DEF Member
    <3> QED
      BY <1>1, <1>7, <3>2, <3>3, GlobalVariable
  <2>4. x = ItemOf(gblk, e)
    BY <1>9, <2>3 DEF ItemOf
  <2> HIDE DEF x
  <2>5. Longer(out, out') /\ Len(out') = Len(out) + 1 /\ out'[Len(out')] = x
    BY <1>1, <2>2, GrownByOne
  <2>6. Len(out') \in 1..Len(out')
    BY <2>5 DEF Longer
  <2> QED
    BY <1>9, <2>4, <2>5, <2>6 DEF Shown, e
<1> QED
  BY <1>8, <1>9 DEF HasItem, e

LEMMA DeclarationsStep ==
    ASSUME NamesInv, NamesInv', DeclarationsInv, [CompilerNext]_cvars
    PROVE  DeclarationsInv'
<1>1. /\ IsAst(ast) /\ ast' = ast /\ GenTypeOK /\ PlaceInv /\ MainInv /\ TableInv /\ PlaceInv'
      /\ \E S : out \in Seq(S)
  BY CompiledAssumption, AstFixed DEF NamesInv, TableInv, Proved!WalkInv, Proved!TypeOK, PlaceInv
<1>2. \/ Generate
      \/ UNCHANGED <<gpc, gblk, gi>> /\ (UnknownRoot \/ UNCHANGED out)
  BY GenOrStutter
<1>3. Longer(out, out')
  BY <1>1, <1>2, LongerStep, LongerStutter DEF Generate
<1>4. (gpc = "HEAD" => gblk = 1)'
  <2>1. CASE UNCHANGED <<gpc, gblk, gi>>
    BY <2>1 DEF DeclarationsInv
  <2>2. CASE GenNext
    BY <2>2 DEF DeclarationsInv, GenNext, GenProgramHead, GenConst, GenRecord, GenVar, GenSkip,
                GenDeclarationsEnd, GenPrototype, GenPrototypesEnd, GenSubprogram, GenBodyBegin,
                GenReference, GenSubprogramEnd, GenMain, GenMainEnd, AtGenDeclaration
  <2> QED
    BY <1>2, <2>1, <2>2 DEF Generate
<1>5. ASSUME Hygienic(ast), NEW c \in 1..Len(ast), NEW j \in 1..Len(ast[c].decls),
             GoneBy(c, j)', HasItem(c, ast[c].decls[j])
      PROVE  Shown(out', c, ast[c].decls[j])
  <2>1. CASE GoneBy(c, j)
    BY <1>1, <1>3, <1>5, <2>1, ShownStays DEF DeclarationsInv
  <2>2. CASE ~GoneBy(c, j)
    <3>1. Generate /\ (GenConst \/ GenRecord \/ GenVar \/ GenSkip)
      <4>1. SUFFICES ASSUME \/ UNCHANGED <<gpc, gblk, gi>>
                            \/ Generate /\ ~(GenConst \/ GenRecord \/ GenVar \/ GenSkip)
                     PROVE  FALSE
        BY <1>2
      <4>2. \/ GenProgramHead \/ GenDeclarationsEnd \/ GenPrototype \/ GenPrototypesEnd
            \/ GenSubprogram \/ GenBodyBegin \/ GenReference \/ GenSubprogramEnd
            \/ GenMain \/ GenMainEnd \/ UNCHANGED <<gpc, gblk, gi>>
        BY <4>1 DEF Generate, GenNext
      <4> QED
        BY <1>1, <1>5, <2>2, <4>2, GoneSame
    <3>2. c = gblk /\ j = gi
      BY <1>1, <1>5, <2>2, <3>1, GoneNext
    <3> QED
      BY <1>1, <1>5, <3>1, <3>2, DeclarationShown
  <2> QED
    BY <2>1, <2>2
<1>6. \A c, e : Shown(out, c, e)' <=> Shown(out', c, e)
  <2>1. \A c, e : ItemOf(c, e)' = ItemOf(c, e)
    BY <1>1 DEF ItemOf, LocalDeclaration, PrintedAs, Meaning, TypeDecl
  <2> QED
    BY <1>1, <2>1 DEF Shown
<1>7. Hygienic(ast) =>
         \A c \in 1..Len(ast) : \A j \in 1..Len(ast[c].decls) :
            GoneBy(c, j)' /\ HasItem(c, ast[c].decls[j]) => Shown(out, c, ast[c].decls[j])'
  BY <1>1, <1>5, <1>6
<1> QED
  BY <1>1, <1>4, <1>7 DEF DeclarationsInv

LEMMA DeclarationsRight == CompilerSpec => [](NamesInv /\ DeclarationsInv)
<1>1. CompilerInit => NamesInv /\ DeclarationsInv
  BY NamesInit, DeclarationsInit
<1>2. (NamesInv /\ DeclarationsInv) /\ [CompilerNext]_cvars => (NamesInv /\ DeclarationsInv)'
  BY NamesStep, DeclarationsStep
<1> QED
  BY <1>1, <1>2, PTL DEF CompilerSpec

\* The declarations that count as printed are those the walk has gone past.
LEMMA PrintedGone ==
    ASSUME IsAst(ast), GenTypeOK, DeclarationsInv, NEW b \in 1..Len(ast), DeclarationsPrinted(b),
           NEW j \in 1..Len(ast[b].decls)
    PROVE  GoneBy(b, j)
<1>1. gblk \in Int /\ b >= 1
  BY DEF GenTypeOK
<1> QED
  BY <1>1 DEF GenTypeOK, DeclarationsInv, DeclarationsPrinted, GoneBy

\* Once the declarations of a block have been printed, each variable and each member of
\* a record stands there with the C type and the dimensions of its declared type, and
\* each constant has its #define, whatever the program declares around it.
THEOREM DeclarationsCorrect == CompilerSpec => []DeclarationsMatch
<1>1. NamesInv /\ DeclarationsInv => DeclarationsMatch
  <2> SUFFICES ASSUME NamesInv, DeclarationsInv, Hygienic(ast), NEW b \in 1..Len(ast),
                      DeclarationsPrinted(b)
               PROVE  IF b = 1 THEN GlobalDeclarations ELSE LocalDeclarations(b)
    BY DEF DeclarationsMatch
  <2>1. IsAst(ast) /\ GenTypeOK /\ ConstantsInv
    BY CompiledAssumption DEF NamesInv, TableInv, Proved!WalkInv, Proved!TypeOK
  <2>2. ASSUME NEW d \in Range(ast[b].decls)
        PROVE  /\ d \in Declaration
               /\ HasItem(b, d) => Shown(out, b, d)
               /\ d.kind = "CONST_DECLARATION" => Defined(out, Len(out), d.id)
    <3>1. ast[b].decls \in Seq(Declaration)
      BY <2>1, TreeFacts
    <3>2. PICK j \in 1..Len(ast[b].decls) : d = ast[b].decls[j]
      BY <3>1 DEF Range
    <3>3. GoneBy(b, j) /\ d \in Declaration
      BY <2>1, <3>2, PrintedGone, TreeFacts
    <3>4. HasItem(b, d) => Shown(out, b, d)
      BY <3>2, <3>3 DEF DeclarationsInv
    <3>5. d.kind = "CONST_DECLARATION" => Defined(out, Len(out), d.id)
      BY <2>1, <3>2, <3>3 DEF ConstantsInv
    <3> QED
      BY <3>3, <3>4, <3>5
  <2>3. CASE b = 1
    <3> SUFFICES ASSUME NEW d \in Range(ast[1].decls), d.kind # "ARRAY"
                 PROVE  \E k \in 1..Len(out) :
                           CASE d.kind = "VAR_DECLARATION" ->
                                   Enclosing(k) = 0 /\ out[k] = PrintedAs(d.ids, d.type)
                             [] d.kind = "RECORD" ->
                                   /\ out[k].item = "struct" /\ out[k].id = d.id
                                   /\ out[k].fields = [n \in 1..Len(d.members) |->
                                        PrintedAs(d.members[n].ids, d.members[n].type)]
                             [] d.kind = "CONST_DECLARATION" -> out[k] = Simple("define", d.id)
      BY <2>3 DEF GlobalDeclarations
    <3>1. /\ d \in Declaration
          /\ HasItem(1, d) => Shown(out, 1, d)
          /\ d.kind = "CONST_DECLARATION" => Defined(out, Len(out), d.id)
      BY <2>2, <2>3
    <3>2. CASE d.kind = "VAR_DECLARATION"
      <4>1. PICK k \in 1..Len(out) : out[k] = PrintedAs(d.ids, d.type) /\ NoHead(out, k)
        BY <3>1, <3>2 DEF HasItem, Shown, ItemOf
      <4>2. Enclosing(k) = 0
        BY <4>1, EnclosingIs
      <4> QED
        BY <3>2, <4>1, <4>2
    <3>3. CASE d.kind = "RECORD"
      <4>1. PICK k \in 1..Len(out) :
               out[k] = [item |-> "struct", id |-> d.id,
                         fields |-> [n \in 1..Len(d.members) |->
                                       PrintedAs(d.members[n].ids, d.members[n].type)]]
        BY <2>3, <3>1, <3>3 DEF HasItem, Shown, ItemOf
      <4> QED
        BY <3>3, <4>1
    <3>4. CASE d.kind = "CONST_DECLARATION"
      BY <3>1, <3>4 DEF Defined
    <3>5. d.kind \notin ParameterKind
      <4>1. ast[1].decls \in Seq(Declaration)
        BY <2>1, TreeFacts
      <4>2. PICK j \in 1..Len(ast[1].decls) : d = ast[1].decls[j]
        BY <4>1 DEF Range
      <4>3. DeclRank[d.kind] > 1
        BY <2>1, <4>2 DEF IsAst
      <4> QED
        BY <4>3 DEF DeclRank, ParameterKind
    <3> QED
      BY <3>1, <3>2, <3>3, <3>4, <3>5 DEF Declaration, ParameterKind
  <2>4. CASE b # 1
    <3> SUFFICES ASSUME NEW d \in Range(ast[b].decls), d.kind = "VAR_DECLARATION"
                 PROVE  \E k \in 1..Len(out) :
                           /\ In(k, "function") /\ out[Enclosing(k)].id = ast[b].id
                           /\ out[k] = LocalDeclaration(d)
      BY <2>4 DEF LocalDeclarations
    <3>1. PICK k \in 1..Len(out) : out[k] = LocalDeclaration(d) /\ Within(ast, out, b, k)
      BY <2>2, <2>4 DEF HasItem, Shown, ItemOf
    <3>2. PICK f \in 1..k : IsHead(out, f, k) /\ out[f] = FunctionOf(ast, b)
      BY <3>1 DEF Within
    <3>3. Enclosing(k) = f /\ f # 0
      BY <3>2, EnclosingIs
    <3>4. out[f].item = "function" /\ out[f].id = ast[b].id
      BY <2>4, <3>2, FunctionFacts
    <3> QED
      BY <3>1, <3>3, <3>4 DEF In
  <2> QED
    BY <2>3, <2>4
<1> QED
  BY <1>1, DeclarationsRight, PTL
=============================================================================
