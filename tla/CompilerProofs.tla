--------------------------- MODULE CompilerProofs ---------------------------
(***************************************************************************)
(* The two walks of the compiler, one after the other, on every tree: the   *)
(* first one still is the walk whose table is proved exact in TableProofs,  *)
(* the second one reads that table only when it is complete, stays inside   *)
(* the tree and announces every subprogram before it prints a call.         *)
(***************************************************************************)
EXTENDS Compiler, SequenceTheorems, TLAPS

Proved == INSTANCE TableProofs

\* What TableProofs assumes holds here.
LEMMA ConstantsRight ==
    /\ Proved!IdentifierAssumption /\ Proved!DimensionAssumption /\ Proved!NullAssumption
    /\ Proved!NullSymbolAssumption /\ Proved!ProgramsAssumption
<1>1. Proved!IdentifierAssumption /\ Proved!NullAssumption
  BY IdentifierAssumption, NullAssumption
  DEF Proved!IdentifierAssumption, Proved!NullAssumption,
      Proved!BasicType, Proved!Keyword, BasicType, Keyword
<1>2. Proved!DimensionAssumption
  BY DimensionAssumption DEF Proved!DimensionAssumption
<1>3. Proved!NullSymbolAssumption
  BY NullSymbolAssumption
  DEF Proved!NullSymbolAssumption, Proved!Symbol, Symbol, Proved!SymbolType, SymbolType,
      Proved!BasicType, Proved!Keyword, BasicType, Keyword
<1>4. Proved!ProgramsAssumption
  BY CompiledAssumption
  DEF Proved!ProgramsAssumption, Proved!IsAst, IsAst, Proved!Block, Block,
      Proved!DeclOrder, DeclOrder, Proved!DeclShape, DeclShape, Proved!DeclRank, DeclRank,
      Proved!Declaration, Declaration, Proved!Member, Member, Proved!Period, Period,
      Proved!Reference, Reference, Proved!BasicType, Proved!Keyword, BasicType, Keyword
<1> QED
  BY <1>1, <1>2, <1>3, <1>4

\* The walk of the compiler and the walk of TableProofs are one.
LEMMA SameWalk == (Table!Init <=> Proved!Init) /\ (Table!Next <=> Proved!Next)
BY DEF Table!Init, Table!Next, Table!add_symbol, Table!VarEntries, Table!ParameterEntries,
       Table!DimensionEntries, Table!decl, Table!AtDeclaration, Table!NextDeclaration,
       Table!MkSymbol, Table!Ref, Table!cursor, Table!scopes,
       Table!ProgramHead, Table!SubprogramHead, Table!Parameter, Table!ConstDeclaration,
       Table!VarDeclaration, Table!ArrayType, Table!RecordBegin, Table!RecordMember,
       Table!RecordEnd, Table!SkipLocalType, Table!DeclarationsEnd, Table!SubprogramEnd,
       Table!ProgramEnd, Table!Destroy,
       Proved!Init, Proved!Next, Proved!add_symbol, Proved!VarEntries, Proved!ParameterEntries,
       Proved!DimensionEntries, Proved!decl, Proved!AtDeclaration, Proved!NextDeclaration,
       Proved!MkSymbol, Proved!Ref, Proved!cursor, Proved!scopes,
       Proved!ProgramHead, Proved!SubprogramHead, Proved!Parameter, Proved!ConstDeclaration,
       Proved!VarDeclaration, Proved!ArrayType, Proved!RecordBegin, Proved!RecordMember,
       Proved!RecordEnd, Proved!SkipLocalType, Proved!DeclarationsEnd, Proved!SubprogramEnd,
       Proved!ProgramEnd, Proved!Destroy

LEMMA SameSymbols == Proved!Declared(ast) = Declared(ast) /\ Proved!Entries(syms) = Entries(syms)
BY DEF Proved!Declared, Declared, Proved!BlockSymbols, BlockSymbols, Proved!HeadSymbol, HeadSymbol,
       Proved!VisitedSymbols, VisitedSymbols, Proved!Visited, Visited, Proved!DeclSymbols,
       DeclSymbols, Proved!MemberSymbols, MemberSymbols, Proved!MkSymbol, MkSymbol,
       Proved!Ref, Ref, Proved!Entries, Entries

-----------------------------------------------------------------------------
(* The order of the two walks *)

\* What main has done in each stage.
MainInv ==
    /\ root \in {"PROGRAM", "PROGRAM_STRUCT"}
    /\ stage \in {"OPEN", "PARSE"} => root = "PROGRAM"
    /\ root = "PROGRAM" => pc = "HEAD" /\ syms = <<>>
    /\ root = "PROGRAM_STRUCT" /\ stage \in {"GENERATE", "DESTROY"} => pc = "DONE"

TableInv == Proved!WalkInv /\ Proved!TableExact /\ Proved!GroupsInv

LEMMA MainInit == CompilerInit => MainInv
BY DEF CompilerInit, MainInv, Table!Init

LEMMA MainStep == MainInv /\ [CompilerNext]_cvars => MainInv'
<1> SUFFICES ASSUME MainInv, [CompilerNext]_cvars PROVE MainInv'
  OBVIOUS
<1> USE DEF MainInv, tvars
<1>1. CASE CannotOpen
  BY <1>1 DEF CannotOpen, Exit
<1>2. CASE Open
  BY <1>2 DEF Open
<1>3. CASE Accept
  BY <1>3 DEF Accept
<1>4. CASE Reject
  BY <1>4 DEF Reject
<1>5. CASE EmptyStatement
  BY <1>5 DEF EmptyStatement, Exit
<1>6. CASE ErrorWithoutComma
  BY <1>6 DEF ErrorWithoutComma, Exit
<1>7. CASE SkipTable
  BY <1>7 DEF SkipTable
<1>8. CASE BuildTable
  BY <1>8 DEF BuildTable, mvars
<1>9. CASE TableBuilt
  BY <1>9 DEF TableBuilt
<1>10. CASE UnknownRoot
  BY <1>10 DEF UnknownRoot
<1>11. CASE Generate
  BY <1>11 DEF Generate, mvars
<1>12. CASE Generated
  BY <1>12 DEF Generated
<1>13. CASE DestroyTable
  BY <1>13 DEF DestroyTable, Exit
<1>14. CASE UNCHANGED cvars
  BY <1>14 DEF cvars, mvars
<1> QED
  BY <1>1, <1>2, <1>3, <1>4, <1>5, <1>6, <1>7, <1>8, <1>9, <1>10, <1>11, <1>12, <1>13, <1>14
  DEF CompilerNext

\* Every step of the compiler is a step of the table's walk or leaves it alone.
LEMMA WalkOrStutter ==
    ASSUME MainInv, [CompilerNext]_cvars
    PROVE  [Table!Next]_<<ast, syms, tvars>>
<1>1. CASE BuildTable
  BY <1>1 DEF BuildTable
<1>2. CASE DestroyTable
  <2>1. CASE root = "PROGRAM"
    BY <1>2, <2>1 DEF DestroyTable, MainInv, tvars
  <2>2. CASE root = "PROGRAM_STRUCT"
    <3>1. pc = "DONE"
      BY <1>2, <2>2 DEF DestroyTable, MainInv
    <3>2. Table!Destroy
      BY <1>2, <3>1 DEF DestroyTable, Table!Destroy, Table!scopes
    <3> QED
      BY <3>2 DEF Table!Next
  <2> QED
    BY <2>1, <2>2 DEF MainInv
<1>3. CASE UNCHANGED cvars
  BY <1>3 DEF cvars
<1>4. CASE CannotOpen \/ Open \/ Accept \/ Reject \/ EmptyStatement \/ ErrorWithoutComma
  BY <1>4 DEF CannotOpen, Open, Accept, Reject, EmptyStatement, ErrorWithoutComma
<1>5. CASE SkipTable \/ TableBuilt \/ UnknownRoot \/ Generate \/ Generated
  BY <1>5 DEF SkipTable, TableBuilt, UnknownRoot, Generate, Generated
<1> QED
  BY <1>1, <1>2, <1>3, <1>4, <1>5 DEF CompilerNext

LEMMA TableInit == CompilerInit => TableInv
<1>1. CompilerInit => Proved!Init
  BY SameWalk DEF CompilerInit
<1> QED
  BY <1>1, ConstantsRight, Proved!WalkInit, Proved!ExactInit, Proved!GroupsInit DEF TableInv

LEMMA TableStepInv == MainInv /\ TableInv /\ [CompilerNext]_cvars => TableInv'
<1> SUFFICES ASSUME MainInv, TableInv, [CompilerNext]_cvars PROVE TableInv'
  OBVIOUS
<1>1. [Table!Next]_<<ast, syms, tvars>>
  BY WalkOrStutter
<1>2. [Proved!Next]_(Proved!vars)
  <2>1. CASE Table!Next
    BY <2>1, SameWalk
  <2>2. CASE UNCHANGED <<ast, syms, tvars>>
    BY <2>2 DEF tvars, Proved!vars, Proved!cursor, Proved!scopes
  <2> QED
    BY <1>1, <2>1, <2>2
<1> QED
  BY <1>2, ConstantsRight, Proved!WalkStep, Proved!ExactStep, Proved!GroupsStep DEF TableInv

LEMMA WalksInv == CompilerSpec => [](MainInv /\ TableInv)
<1>1. CompilerInit => MainInv /\ TableInv
  BY MainInit, TableInit
<1>2. (MainInv /\ TableInv) /\ [CompilerNext]_cvars => (MainInv /\ TableInv)'
  BY MainStep, TableStepInv
<1> QED
  BY <1>1, <1>2, PTL DEF CompilerSpec

LEMMA Complete ==
    ASSUME MainInv, TableInv, stage = "GENERATE", root = "PROGRAM_STRUCT"
    PROVE  pc = "DONE" /\ Entries(syms) = Declared(ast)
<1>1. pc = "DONE"
  BY DEF MainInv
<1>2. blk = Len(ast) + 1
  BY <1>1 DEF TableInv, Proved!WalkInv, Proved!CursorOK
<1>3. Proved!Passed = Proved!Declared(ast)
  BY <1>1, <1>2, ConstantsRight, Proved!PassedAll DEF TableInv
<1>4. Proved!Entries(syms) = Proved!Passed
  BY <1>1 DEF TableInv, Proved!TableExact
<1> QED
  BY <1>1, <1>3, <1>4, SameSymbols

\* The code generator reads a table that holds every symbol of the program and no
\* other, whatever program it is.
THEOREM TableCompleteCorrect == CompilerSpec => []TableComplete
<1>1. MainInv /\ TableInv => TableComplete
  BY Complete DEF TableComplete
<1> QED
  BY <1>1, WalksInv, PTL

-----------------------------------------------------------------------------
(* The walk of the code generator *)

\* The tree, as far as the walk depends on it.
TreeOK ==
    /\ Len(ast) \in Nat \ {0}
    /\ \A b \in 1..Len(ast) : ast[b].id \in Identifier

LEMMA TreeRight == TableInv => TreeOK
<1> SUFFICES ASSUME TableInv PROVE TreeOK
  OBVIOUS
<1>1. IsAst(ast)
  BY CompiledAssumption DEF TableInv, Proved!WalkInv, Proved!TypeOK
<1>2. ast \in Seq(Block) /\ ast # <<>>
  BY <1>1 DEF IsAst
<1>3. Len(ast) \in Nat \ {0} /\ \A b \in 1..Len(ast) : ast[b] \in Block
  BY <1>2
<1> QED
  BY <1>3 DEF TreeOK, Block

LEMMA GenTypeInit == TreeOK /\ CompilerInit => GenTypeOK
BY NullAssumption DEF CompilerInit, GenInit, GenTypeOK, TreeOK

\* A step of main or of the other walk leaves the cursor of the generator alone.
LEMMA GenOrStutter ==
    ASSUME [CompilerNext]_cvars
    PROVE  \/ Generate
           \/ UNCHANGED <<gpc, gblk, gi, scope_>> /\ (UnknownRoot \/ UNCHANGED out)
<1>1. CASE UNCHANGED cvars
  BY <1>1 DEF cvars, gvars
<1>2. CASE CannotOpen \/ Open \/ Accept \/ Reject \/ EmptyStatement \/ ErrorWithoutComma
  BY <1>2 DEF CannotOpen, Open, Accept, Reject, EmptyStatement, ErrorWithoutComma, gvars
<1>3. CASE SkipTable \/ BuildTable \/ TableBuilt \/ UnknownRoot \/ Generated \/ DestroyTable
  BY <1>3 DEF SkipTable, BuildTable, TableBuilt, UnknownRoot, Generated, DestroyTable, gvars
<1> QED
  BY <1>1, <1>2, <1>3 DEF CompilerNext

\* The tree never changes.
LEMMA AstFixed ==
    ASSUME [CompilerNext]_cvars, MainInv
    PROVE  ast' = ast
<1>1. [Table!Next]_<<ast, syms, tvars>>
  BY WalkOrStutter
<1>2. Table!Next => ast' = ast
  BY DEF Table!Next, Table!ProgramHead, Table!SubprogramHead, Table!Parameter,
         Table!ConstDeclaration, Table!VarDeclaration, Table!ArrayType, Table!RecordBegin,
         Table!RecordMember, Table!RecordEnd, Table!SkipLocalType, Table!DeclarationsEnd,
         Table!SubprogramEnd, Table!ProgramEnd, Table!Destroy
<1> QED
  BY <1>1, <1>2

LEMMA GenTypeStep ==
    ASSUME MainInv, TreeOK, GenTypeOK, [CompilerNext]_cvars
    PROVE  GenTypeOK'
<1>1. ast' = ast
  BY AstFixed
<1>2. /\ gblk \in 1..Len(ast) + 1 /\ gi \in Nat \ {0} /\ scope_ \in Identifier \cup {NULL}
      /\ gpc \in {"HEAD", "DECLARATION", "PROTOTYPE", "SUBPROGRAM", "STATEMENT", "DONE"}
      /\ scope_ = NULL => gpc = "HEAD"
      /\ gpc \in {"DECLARATION", "STATEMENT"} => gblk <= Len(ast)
      /\ Len(ast) \in Nat \ {0} /\ NULL \notin Identifier
      /\ \A b \in 1..Len(ast) : ast[b].id \in Identifier
  BY NullAssumption DEF GenTypeOK, TreeOK
<1>3. CASE UNCHANGED <<gpc, gblk, gi, scope_>>
  BY <1>1, <1>3 DEF GenTypeOK
<1>4. CASE GenNext
  <2> USE <1>1, <1>2 DEF GenTypeOK
  <2>1. CASE GenProgramHead
    BY <2>1 DEF GenProgramHead
  <2>2. CASE GenConst \/ GenRecord \/ GenVar \/ GenSkip
    BY <2>2 DEF GenConst, GenRecord, GenVar, GenSkip, AtGenDeclaration, ScopeAfterVar, MemberScope
  <2>3. CASE GenDeclarationsEnd
    BY <2>3 DEF GenDeclarationsEnd
  <2>4. CASE GenPrototype
    BY <2>4 DEF GenPrototype
  <2>5. CASE GenPrototypesEnd
    BY <2>5 DEF GenPrototypesEnd
  <2>6. CASE GenSubprogram
    BY <2>6 DEF GenSubprogram
  <2>7. CASE GenBodyBegin
    BY <2>7 DEF GenBodyBegin
  <2>8. CASE GenReference
    BY <2>8 DEF GenReference
  <2>9. CASE GenSubprogramEnd
    BY <2>9 DEF GenSubprogramEnd
  <2>10. CASE GenMain
    BY <2>10 DEF GenMain
  <2>11. CASE GenMainEnd
    BY <2>11 DEF GenMainEnd
  <2> QED
    BY <1>4, <2>1, <2>2, <2>3, <2>4, <2>5, <2>6, <2>7, <2>8, <2>9, <2>10, <2>11 DEF GenNext
<1> QED
  BY <1>3, <1>4, GenOrStutter DEF Generate

LEMMA GenInv == CompilerSpec => [](MainInv /\ TreeOK /\ GenTypeOK)
<1>1. CompilerInit => MainInv /\ TableInv /\ GenTypeOK
  BY MainInit, TableInit, TreeRight, GenTypeInit
<1>2. (MainInv /\ TableInv /\ GenTypeOK) /\ [CompilerNext]_cvars
        => (MainInv /\ TableInv /\ GenTypeOK)'
  BY MainStep, TableStepInv, TreeRight, GenTypeStep
<1>3. MainInv /\ TableInv /\ GenTypeOK => MainInv /\ TreeOK /\ GenTypeOK
  BY TreeRight
<1> QED
  BY <1>1, <1>2, <1>3, PTL DEF CompilerSpec

\* The walk of the generator stays inside every tree, and never looks a name up before
\* scope_ has been set.
THEOREM GenTypeCorrect == CompilerSpec => []GenTypeOK
BY GenInv, PTL

-----------------------------------------------------------------------------
(* Prototypes before calls *)

Call == {"PROCEDURE_CALL", "FACTOR"}

Announced(b) == \E j \in 1..Len(out) : out[j].item = "prototype" /\ out[j].id = ast[b].id

AllAnnounced == \A b \in 2..Len(ast) : Announced(b)

\* The prototypes printed so far, and all of them once subprograms are printed.
AnnounceInv ==
    /\ \E S : out \in Seq(S)
    /\ gpc = "PROTOTYPE" => gblk > 1 /\ \A b \in 2..(gblk - 1) : Announced(b)
    /\ gpc \in {"SUBPROGRAM", "STATEMENT", "DONE"} => AllAnnounced
    /\ gpc = "DECLARATION" /\ gblk > 1 => AllAnnounced
    /\ PrototypesFirst

\* What is printed is never taken back, and calls among it are printed when all
\* subprograms are announced.
LEMMA Emitted ==
    ASSUME \E S : out \in Seq(S), PrototypesFirst,
           NEW T, NEW items \in Seq(T), emit(items), ast' = ast,
           \A k \in 1..Len(items) : items[k].item \in Call => AllAnnounced
    PROVE  /\ \E S : out' \in Seq(S)
           /\ \A b \in Int : Announced(b) => Announced(b)'
           /\ PrototypesFirst'
           /\ Len(items) = 1 => Len(out') \in Nat \ {0} /\ out'[Len(out')] = items[1]
<1>1. PICK S : out \in Seq(S)
  OBVIOUS
<1> DEFINE U == S \cup T
           n == Len(out)
           more == Len(items)
<1>2. out \in Seq(U) /\ items \in Seq(U)
  BY <1>1, SeqMonotonic
<1> HIDE DEF U
<1>3. /\ out' \in Seq(U) /\ Len(out') = n + more
      /\ \A k \in 1..(n + more) : out'[k] = IF k <= n THEN out[k] ELSE items[k - n]
      /\ n \in Nat /\ more \in Nat
  BY <1>2, ConcatProperties, LenProperties DEF emit
<1> HIDE DEF n, more
<1>4. \A k \in 1..n : k \in 1..Len(out') /\ out'[k] = out[k]
  BY <1>3
<1>5. ASSUME NEW b \in Int, Announced(b) PROVE Announced(b)'
  BY <1>4, <1>5 DEF Announced, n
<1>6. ASSUME NEW k \in 1..Len(out'), NEW b \in 2..Len(ast), out'[k].item \in Call,
             out'[k].id = ast[b].id
      PROVE  \E j \in 1..k : out'[j].item = "prototype" /\ out'[j].id = ast[b].id
  <2>1. CASE k <= n
    <3>1. k \in 1..n /\ out'[k] = out[k]
      BY <1>3, <1>6, <2>1
    <3>2. PICK j \in 1..k : out[j].item = "prototype" /\ out[j].id = ast[b].id
      BY <1>6, <3>1 DEF PrototypesFirst, Call, n
    <3>3. j \in 1..n
      BY <1>3, <3>1
    <3> QED
      BY <1>4, <3>2, <3>3
  <2>2. CASE ~(k <= n)
    <3>1. k - n \in 1..more /\ out'[k] = items[k - n]
      BY <1>3, <1>6, <2>2
    <3>2. Announced(b)
      BY <1>6, <3>1 DEF AllAnnounced, more
    <3>3. PICK j \in 1..n : out[j].item = "prototype" /\ out[j].id = ast[b].id
      BY <3>2 DEF Announced, n
    <3>4. j \in 1..k
      BY <1>3, <1>6, <2>2
    <3> QED
      BY <1>4, <3>3, <3>4
  <2> QED
    BY <2>1, <2>2
<1>7. PrototypesFirst'
  BY <1>6 DEF PrototypesFirst, Call
<1>8. more = 1 => Len(out') \in Nat \ {0} /\ out'[Len(out')] = items[1]
  BY <1>3
<1> QED
  BY <1>3, <1>5, <1>7, <1>8 DEF more

\* One item printed.
LEMMA EmittedOne ==
    ASSUME \E S : out \in Seq(S), PrototypesFirst, ast' = ast,
           NEW x, emit(<<x>>), x.item \in Call => AllAnnounced
    PROVE  /\ \E S : out' \in Seq(S)
           /\ \A b \in Int : Announced(b) => Announced(b)'
           /\ PrototypesFirst'
           /\ Len(out') \in Nat \ {0} /\ out'[Len(out')] = x
<1>1. <<x>> \in Seq({x}) /\ Len(<<x>>) = 1 /\ <<x>>[1] = x
  OBVIOUS
<1>2. \A k \in 1..Len(<<x>>) : <<x>>[k].item \in Call => AllAnnounced
  BY <1>1
<1> QED
  BY <1>1, <1>2, Emitted

LEMMA AnnounceInit == TreeOK /\ CompilerInit => AnnounceInv
<1> SUFFICES ASSUME TreeOK, CompilerInit PROVE AnnounceInv
  OBVIOUS
<1>1. out = <<>> /\ gpc = "HEAD"
  BY DEF CompilerInit, GenInit
<1>2. out \in Seq({}) /\ Len(out) = 0
  BY <1>1
<1> QED
  BY <1>1, <1>2 DEF AnnounceInv, PrototypesFirst

\* Nothing is printed.
LEMMA AnnounceQuiet ==
    ASSUME TreeOK, GenTypeOK, AnnounceInv, ast' = ast, out' = out,
           \/ UNCHANGED <<gpc, gblk>>
           \/ GenProgramHead \/ GenSkip \/ GenDeclarationsEnd \/ GenPrototypesEnd
           \/ GenBodyBegin \/ GenMainEnd
    PROVE  AnnounceInv'
<1>1. /\ \E S : out' \in Seq(S)
      /\ PrototypesFirst'
      /\ \A b \in Int : Announced(b)' <=> Announced(b)
      /\ AllAnnounced' <=> AllAnnounced
  BY DEF AnnounceInv, PrototypesFirst, Announced, AllAnnounced
<1>2. gblk \in Nat /\ Len(ast) \in Nat
  BY DEF TreeOK, GenTypeOK
<1>3. CASE UNCHANGED <<gpc, gblk>> \/ GenProgramHead \/ GenSkip \/ GenBodyBegin \/ GenMainEnd
  BY <1>1, <1>3 DEF AnnounceInv, GenProgramHead, GenSkip, GenBodyBegin, GenMainEnd, AtGenDeclaration
<1>4. CASE GenDeclarationsEnd
  BY <1>1, <1>4 DEF AnnounceInv, GenDeclarationsEnd
<1>5. CASE GenPrototypesEnd
  <2>1. \A b \in 2..Len(ast) : b \in 2..(gblk - 1)
    BY <1>2, <1>5 DEF GenPrototypesEnd
  <2>2. AllAnnounced
    BY <1>5, <2>1 DEF AnnounceInv, AllAnnounced, GenPrototypesEnd
  <2> QED
    BY <1>1, <1>5, <2>2 DEF AnnounceInv, GenPrototypesEnd
<1> QED
  BY <1>3, <1>4, <1>5

\* A call may be printed only when everything is announced.
MayPrint(x) == x.item \in Call => AllAnnounced

\* One item is printed, which is no prototype.
LEMMA AnnounceOne ==
    ASSUME TreeOK, GenTypeOK, AnnounceInv, ast' = ast,
           \/ GenConst \/ GenRecord \/ GenVar \/ GenReference \/ GenMain
           \/ (UnknownRoot /\ UNCHANGED <<gpc, gblk>>)
    PROVE  AnnounceInv'
<1>1. \A b \in 2..Len(ast) : b \in Int
  BY DEF TreeOK
<1>2. ASSUME NEW x, emit(<<x>>), MayPrint(x),
             (gpc' = gpc /\ gblk' = gblk) \/ (AllAnnounced /\ gpc' = "STATEMENT")
      PROVE  AnnounceInv'
  <2>1. /\ \E S : out' \in Seq(S)
        /\ \A b \in Int : Announced(b) => Announced(b)'
        /\ PrototypesFirst'
    BY <1>2, EmittedOne DEF AnnounceInv, MayPrint
  <2>2. AllAnnounced => AllAnnounced'
    BY <1>1, <2>1 DEF AllAnnounced
  <2>3. gblk \in Nat /\ \A b \in 2..(gblk - 1) : b \in Int
    BY DEF TreeOK, GenTypeOK
  <2> QED
    BY <1>2, <2>1, <2>2, <2>3 DEF AnnounceInv
<1>3. CASE GenConst
  <2> DEFINE x == Simple("define", gdecl.id)
  <2>1. emit(<<x>>) /\ gpc' = gpc /\ gblk' = gblk
    BY <1>3 DEF GenConst
  <2>2. MayPrint(x)
    BY DEF MayPrint, Simple, Call
  <2> HIDE DEF x
  <2> QED
    BY <1>2, <2>1, <2>2
<1>4. CASE GenRecord
  <2> DEFINE x == [item |-> "struct", id |-> gdecl.id,
                   fields |-> [k \in 1..Len(gdecl.members) |->
                                 VarItem(gdecl.members[k].ids, gdecl.members[k].type, scope_)]]
  <2>1. emit(<<x>>) /\ gpc' = gpc /\ gblk' = gblk
    BY <1>4 DEF GenRecord, MemberScope, ScopeAfterVar
  <2>2. MayPrint(x)
    BY DEF MayPrint, Call
  <2> HIDE DEF x
  <2> QED
    BY <1>2, <2>1, <2>2
<1>5. CASE GenVar
  <2> DEFINE x == VarItem(gdecl.ids, gdecl.type, scope_)
  <2>1. emit(<<x>>) /\ gpc' = gpc /\ gblk' = gblk
    BY <1>5 DEF GenVar, ScopeAfterVar
  <2>2. MayPrint(x)
    BY DEF MayPrint, VarItem, Call
  <2> HIDE DEF x
  <2> QED
    BY <1>2, <2>1, <2>2
<1>6. CASE GenReference
  <2> DEFINE x == ReferenceItem(ast[gblk].body[gi], scope_)
  <2>1. emit(<<x>>) /\ gpc' = gpc /\ gblk' = gblk /\ gpc = "STATEMENT"
    BY <1>6 DEF GenReference
  <2>2. AllAnnounced /\ MayPrint(x)
    BY <2>1 DEF AnnounceInv, MayPrint
  <2> HIDE DEF x
  <2> QED
    BY <1>2, <2>1, <2>2
<1>7. CASE GenMain
  <2> DEFINE x == Simple("main", NULL)
  <2>1. emit(<<x>>) /\ gpc = "SUBPROGRAM" /\ gpc' = "STATEMENT"
    BY <1>7 DEF GenMain
  <2>2. AllAnnounced /\ MayPrint(x)
    BY <2>1 DEF AnnounceInv, MayPrint, Simple, Call
  <2> HIDE DEF x
  <2> QED
    BY <1>2, <2>1, <2>2
<1>8. CASE UnknownRoot /\ UNCHANGED <<gpc, gblk>>
  <2> DEFINE x == Simple("unknown type", NULL)
  <2>1. emit(<<x>>) /\ gpc' = gpc /\ gblk' = gblk
    BY <1>8 DEF UnknownRoot
  <2>2. MayPrint(x)
    BY DEF MayPrint, Simple, Call
  <2> HIDE DEF x
  <2> QED
    BY <1>2, <2>1, <2>2
<1> QED
  BY <1>3, <1>4, <1>5, <1>6, <1>7, <1>8

LEMMA AnnouncePrototype ==
    ASSUME TreeOK, GenTypeOK, AnnounceInv, ast' = ast, GenPrototype
    PROVE  AnnounceInv'
<1> DEFINE x == HeadItem("prototype", gblk)
<1>1. /\ emit(<<x>>) /\ x.item = "prototype" /\ x.id = ast[gblk].id /\ x.item \notin Call
      /\ gpc = "PROTOTYPE" /\ gpc' = "PROTOTYPE" /\ gblk' = gblk + 1
  BY DEF GenPrototype, HeadItem, Call
<1> HIDE DEF x
<1>2. /\ \E S : out' \in Seq(S)
      /\ \A b \in Int : Announced(b) => Announced(b)'
      /\ PrototypesFirst'
      /\ Len(out') \in Nat \ {0} /\ out'[Len(out')] = x
  BY <1>1, EmittedOne DEF AnnounceInv
<1>3. gblk \in Nat /\ gblk > 1 /\ \A b \in 2..(gblk - 1) : Announced(b)
  BY <1>1 DEF AnnounceInv, GenTypeOK, TreeOK
<1>4. ASSUME NEW b \in Int, b = gblk PROVE Announced(b)'
  <2>1. Len(out') \in 1..Len(out') /\ out'[Len(out')].item = "prototype"
        /\ out'[Len(out')].id = ast'[b].id
    BY <1>1, <1>2, <1>4
  <2> QED
    BY <2>1 DEF Announced
<1>5. \A b \in 2..gblk : Announced(b)'
  <2> TAKE b \in 2..gblk
  <2>1. CASE b = gblk
    BY <1>3, <1>4, <2>1
  <2>2. CASE b # gblk
    <3>1. b \in 2..(gblk - 1) /\ b \in Int
      BY <1>3, <2>2
    <3> QED
      BY <1>2, <1>3, <3>1
  <2> QED
    BY <2>1, <2>2
<1>6. gblk' > 1 /\ gblk' - 1 = gblk
  BY <1>1, <1>3
<1> QED
  BY <1>1, <1>2, <1>5, <1>6 DEF AnnounceInv

\* The items around the body of a C function.
LEMMA AnnounceFunction ==
    ASSUME TreeOK, GenTypeOK, AnnounceInv, ast' = ast, GenSubprogram \/ GenSubprogramEnd
    PROVE  AnnounceInv'
<1>1. AllAnnounced
  BY DEF AnnounceInv, GenSubprogram, GenSubprogramEnd
<1>2. \E T : \E items \in Seq(T) : emit(items)
  <2>1. CASE GenSubprogram
    <3> DEFINE x == HeadItem("function", gblk)
               y == Simple("result", var_type_change(ast[gblk].id))
    <3>1. emit(<<x>> \o ResultItem(gblk))
      BY <2>1 DEF GenSubprogram
    <3>2. <<x>> \o ResultItem(gblk) \in Seq({x, y})
      <4>1. <<x>> \in Seq({x, y}) /\ <<y>> \in Seq({x, y}) /\ <<>> \in Seq({x, y})
        OBVIOUS
      <4>2. ResultItem(gblk) = <<>> \/ ResultItem(gblk) = <<y>>
        BY DEF ResultItem
      <4> HIDE DEF x, y
      <4> QED
        BY <4>1, <4>2, ConcatProperties
    <3> QED
      BY <3>1, <3>2
  <2>2. CASE GenSubprogramEnd
    <3> DEFINE y == Simple("return", var_type_change(ast[gblk].id))
               items == IF ast[gblk].result = NULL THEN <<>> ELSE <<y>>
    <3>1. emit(items)
      BY <2>2 DEF GenSubprogramEnd
    <3>2. items \in Seq({y})
      <4>1. <<>> \in Seq({y}) /\ <<y>> \in Seq({y})
        OBVIOUS
      <4> HIDE DEF y
      <4> QED
        BY <4>1
    <3> QED
      BY <3>1, <3>2
  <2> QED
    BY <2>1, <2>2
<1>3. PICK T : \E items \in Seq(T) : emit(items)
  BY <1>2
<1>4. PICK items \in Seq(T) : emit(items)
  BY <1>3
<1>5. /\ \E S : out' \in Seq(S)
      /\ \A b \in Int : Announced(b) => Announced(b)'
      /\ PrototypesFirst'
  BY <1>1, <1>4, Emitted DEF AnnounceInv
<1>6. AllAnnounced'
  BY <1>1, <1>5 DEF AllAnnounced, TreeOK
<1>7. gpc' \in {"DECLARATION", "SUBPROGRAM"}
  BY DEF GenSubprogram, GenSubprogramEnd
<1> QED
  BY <1>5, <1>6, <1>7 DEF AnnounceInv

LEMMA AnnounceStep ==
    ASSUME MainInv, TreeOK, GenTypeOK, AnnounceInv, [CompilerNext]_cvars
    PROVE  AnnounceInv'
<1>1. ast' = ast
  BY AstFixed
<1>2. CASE UNCHANGED <<gpc, gblk, gi, scope_>> /\ (UnknownRoot \/ UNCHANGED out)
  BY <1>1, <1>2, AnnounceQuiet, AnnounceOne
<1>3. CASE Generate
  <2>1. CASE GenProgramHead \/ GenSkip \/ GenDeclarationsEnd \/ GenPrototypesEnd
             \/ GenBodyBegin \/ GenMainEnd
    <3>1. out' = out
      BY <2>1 DEF GenProgramHead, GenSkip, GenDeclarationsEnd, GenPrototypesEnd,
                  GenBodyBegin, GenMainEnd
    <3> QED
      BY <1>1, <2>1, <3>1, AnnounceQuiet
  <2>2. CASE GenConst \/ GenRecord \/ GenVar \/ GenReference \/ GenMain
    BY <1>1, <2>2, AnnounceOne
  <2> QED
    BY <1>1, <1>3, <2>1, <2>2, AnnouncePrototype, AnnounceFunction DEF Generate, GenNext
<1> QED
  BY <1>2, <1>3, GenOrStutter

\* A C function is called only after its prototype, in whatever order the subprograms of
\* the program call each other.
THEOREM PrototypesCorrect == CompilerSpec => []PrototypesFirst
<1> DEFINE AllInv == MainInv /\ TableInv /\ GenTypeOK /\ AnnounceInv
<1>1. CompilerInit => AllInv
  BY MainInit, TableInit, TreeRight, GenTypeInit, AnnounceInit
<1>2. AllInv /\ [CompilerNext]_cvars => AllInv'
  BY MainStep, TableStepInv, TreeRight, GenTypeStep, AnnounceStep
<1>3. AllInv => PrototypesFirst
  BY DEF AnnounceInv
<1> QED
  BY <1>1, <1>2, <1>3, PTL DEF CompilerSpec
=============================================================================
