------------------------------ MODULE Symbols ------------------------------
(***************************************************************************)
(* struct symbol, the two look-ups of sybtable.c over the linked list, and *)
(* the set of symbols that a program declares: what the list should hold,  *)
(* said without a walk, a cursor or a current scope.                       *)
(***************************************************************************)
EXTENDS PascalAst, SequencesExt

SymbolType == BasicType \cup Identifier \cup Keyword

Symbol == [name : Identifier, type : SymbolType, dimension : Nat,
           scope : Identifier, arg : Nat, ref : 0..2]

ASSUME NullSymbolAssumption == NULL \notin Symbol

MkSymbol(name, type, dimension, scope, arg, ref) ==
    [name |-> name, type |-> type, dimension |-> dimension,
     scope |-> scope, arg |-> arg, ref |-> ref]

\* The list is searched from its head.
FirstIndex(K) == CHOOSE k \in K : \A j \in K : k <= j

FirstOf(table, K) == IF K = {} THEN NULL ELSE table[FirstIndex(K)]

\* Mutant: the search compares names only.
MatchesAnyScope(table, name, scope) == {k \in 1..Len(table) : table[k].name = name}

Matches(table, name, scope) ==
    {k \in 1..Len(table) : table[k].name = name /\ table[k].scope = scope}

get_symbol(table, name, scope) == FirstOf(table, Matches(table, name, scope))

Entries(table) == {table[k] : k \in 1..Len(table)}

get_symbol_by_arg(table, arg, scope) ==
    FirstOf(table, {k \in 1..Len(table) : table[k].arg = arg /\ table[k].scope = scope})

-----------------------------------------------------------------------------
(* What a program declares. *)

Ref(kind) == CASE kind = "VAR_PARAMETER" -> 2
               [] kind = "VALUE_PARAMETER" -> 1
               [] OTHER -> 0

\* The formal parameters of a subprogram, by position.
Formals(b) ==
    FoldLeft(LAMBDA formals, p :
                formals \o [k \in 1..Len(p.ids) |->
                               [id |-> p.ids[k], type |-> p.type, ref |-> Ref(p.kind)]],
             <<>>, Params(b))

HeadSymbol(ast, b) ==
    IF b = 1 THEN MkSymbol(ast[1].id, "program", 0, "null", 0, 0)
    ELSE MkSymbol(ast[b].id, IF ast[b].result = NULL THEN "program" ELSE ast[b].result,
                  0, ast[b].id, 0, 0)

MemberSymbols(d, m) ==
    {MkSymbol(d.members[m].ids[k], d.members[m].type, 0, d.id, 0, 0) :
        k \in 1..Len(d.members[m].ids)}

\* The symbols of declaration d of block b, whose names live in scope s: a type
\* is a scope of its own, for the names of its dimensions or of its members.
DeclSymbols(d, s) ==
    CASE d.kind \in {"VAR_PARAMETER", "VALUE_PARAMETER"} ->
            {MkSymbol(d.ids[k], d.type, 0, s, k, Ref(d.kind)) : k \in 1..Len(d.ids)}
      [] d.kind = "CONST_DECLARATION" -> {MkSymbol(d.id, "const", 0, s, 0, 0)}
      [] d.kind = "ARRAY" ->
            {MkSymbol(DimensionName[k], d.type, d.periods[k].end, d.id, 0, 0) : k \in 1..Len(d.periods)}
            \cup {MkSymbol(d.id, "array", Len(d.periods), s, 0, 0)}
      [] d.kind = "RECORD" ->
            (UNION {MemberSymbols(d, m) : m \in 1..Len(d.members)})
            \cup {MkSymbol(d.id, "record", Len(d.members), s, 0, 0)}
      [] d.kind = "VAR_DECLARATION" ->
            {MkSymbol(d.ids[k], d.type, 0, s, 0, 0) : k \in 1..Len(d.ids)}

\* The types a subprogram declares are parsed, but no walk visits them.
Visited(b, d) == b = 1 \/ d.kind \notin {"ARRAY", "RECORD"}

\* The symbols of the first n declarations of block b.
VisitedSymbols(ast, b, n) ==
    UNION {DeclSymbols(ast[b].decls[j], ast[b].id) :
              j \in {k \in 1..n : Visited(b, ast[b].decls[k])}}

BlockSymbols(ast, b) == {HeadSymbol(ast, b)} \cup VisitedSymbols(ast, b, Len(ast[b].decls))

Declared(ast) == UNION {BlockSymbols(ast, b) : b \in 1..Len(ast)}

\* No name is declared twice, with different meanings, in one scope.
UniqueKeys(ast) ==
    \A s, t \in Declared(ast) : s.name = t.name /\ s.scope = t.scope => s = t
=============================================================================
