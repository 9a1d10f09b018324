---------------------------- MODULE SymbolTable ----------------------------
(***************************************************************************)
(* sybtable.c: do_ge_table walks the tree and appends one struct symbol    *)
(* for each name it meets, under the scope that the global `scope` holds   *)
(* at that moment; destroy_syb_table frees the list.                       *)
(*                                                                         *)
(* The recursive descent is a cursor: pc says which kind of node is being  *)
(* visited, blk which block, i which of its declarations, m which member   *)
(* of a record.  `scope` is the C global; temp_scope,                      *)
(* temp_sub_program_name and pre_scope are the C locals in which           *)
(* PROGRAM_STRUCT, SUBPROGRAM and RECORD save it, NULL while the frame     *)
(* they belong to does not exist.                                          *)
(***************************************************************************)
EXTENDS Symbols

CONSTANT Programs   \* the trees the walk is started on

ASSUME ProgramsAssumption == \A p \in Programs : IsAst(p)

VARIABLES
    ast,
    pc,         \* "HEAD", "DECLARATION", "RECORD", "DONE" or "DESTROYED"
    blk, i, m,
    syms,       \* the list from head to end
    scope,
    temp_scope, temp_sub_program_name, pre_scope

cursor == <<pc, blk, i, m>>
scopes == <<scope, temp_scope, temp_sub_program_name, pre_scope>>
vars == <<ast, cursor, syms, scopes>>

Init ==
    /\ ast \in Programs
    /\ pc = "HEAD" /\ blk = 1 /\ i = 1 /\ m = 1
    /\ syms = <<>>
    /\ scope = "null"
    /\ temp_scope = NULL /\ temp_sub_program_name = NULL /\ pre_scope = NULL

\* Mutant: the list grows at its head.
add_symbol_first(table, new) == new \o table

add_symbol(table, new) == table \o new

\* What the loop over an IDLIST adds in one VAR_DECLARATION.
VarEntries(ids, type, s) == [k \in 1..Len(ids) |-> MkSymbol(ids[k], type, 0, s, 0, 0)]

\* Mutant: positions count from 0.
ParameterEntriesFromZero(d, s) ==
    [k \in 1..Len(d.ids) |-> MkSymbol(d.ids[k], d.type, 0, s, k - 1, Ref(d.kind))]

\* PARAMETER sets arg to 1, and each identifier of its IDLIST takes arg++.
ParameterEntries(d, s) ==
    [k \in 1..Len(d.ids) |-> MkSymbol(d.ids[k], d.type, 0, s, k, Ref(d.kind))]

\* Mutant: the range is stored by its other end.
DimensionEntriesFromBegin(d) ==
    [k \in 1..Len(d.periods) |-> MkSymbol(DimensionName[k], d.type, d.periods[k].begin, d.id, 0, 0)]

DimensionEntries(d) ==
    [k \in 1..Len(d.periods) |-> MkSymbol(DimensionName[k], d.type, d.periods[k].end, d.id, 0, 0)]

decl == ast[blk].decls[i]

\* The walk stands before a declaration of one of these kinds.
AtDeclaration(kinds) ==
    pc = "DECLARATION" /\ i <= Len(ast[blk].decls) /\ decl.kind \in kinds

NextDeclaration == i' = i + 1 /\ UNCHANGED <<pc, blk, m>>

ProgramHead ==
    /\ pc = "HEAD" /\ blk = 1
    /\ temp_scope' = scope
    /\ syms' = add_symbol(syms, <<MkSymbol(ast[1].id, "program", 0, "null", 0, 0)>>)
    /\ scope' = ast[1].id
    /\ pc' = "DECLARATION"
    /\ UNCHANGED <<ast, blk, i, m, temp_sub_program_name, pre_scope>>

\* Mutant: the scope of the program is not saved.
SubprogramHeadUnsaved ==
    /\ pc = "HEAD" /\ blk \in 2..Len(ast)
    /\ scope' = ast[blk].id
    /\ syms' = add_symbol(syms, <<HeadSymbol(ast, blk)>>)
    /\ pc' = "DECLARATION"
    /\ UNCHANGED <<ast, blk, i, m, temp_scope, temp_sub_program_name, pre_scope>>

SubprogramHead ==
    /\ pc = "HEAD" /\ blk \in 2..Len(ast)
    /\ temp_sub_program_name' = scope
    /\ scope' = ast[blk].id
    /\ syms' = LET type == IF ast[blk].result # NULL THEN ast[blk].result ELSE "program"
               IN  add_symbol(syms, <<MkSymbol(ast[blk].id, type, 0, scope', 0, 0)>>)
    /\ pc' = "DECLARATION"
    /\ UNCHANGED <<ast, blk, i, m, temp_scope, pre_scope>>

Parameter ==
    /\ AtDeclaration({"VAR_PARAMETER", "VALUE_PARAMETER"})
    /\ syms' = add_symbol(syms, ParameterEntries(decl, scope))
    /\ NextDeclaration
    /\ UNCHANGED <<ast, scopes>>

ConstDeclaration ==
    /\ AtDeclaration({"CONST_DECLARATION"})
    /\ syms' = add_symbol(syms, <<MkSymbol(decl.id, "const", 0, scope, 0, 0)>>)
    /\ NextDeclaration
    /\ UNCHANGED <<ast, scopes>>

VarDeclaration ==
    /\ AtDeclaration({"VAR_DECLARATION"})
    /\ syms' = add_symbol(syms, VarEntries(decl.ids, decl.type, scope))
    /\ NextDeclaration
    /\ UNCHANGED <<ast, scopes>>

ArrayType ==
    /\ AtDeclaration({"ARRAY"}) /\ blk = 1
    /\ syms' = add_symbol(syms, DimensionEntries(decl)
                   \o <<MkSymbol(decl.id, "array", Len(decl.periods), scope, 0, 0)>>)
    /\ NextDeclaration
    /\ UNCHANGED <<ast, scopes>>

RecordBegin ==
    /\ AtDeclaration({"RECORD"}) /\ blk = 1
    /\ pre_scope' = scope
    /\ scope' = decl.id
    /\ pc' = "RECORD" /\ m' = 1
    /\ UNCHANGED <<ast, blk, i, syms, temp_scope, temp_sub_program_name>>

RecordMember ==
    /\ pc = "RECORD" /\ m <= Len(decl.members)
    /\ syms' = add_symbol(syms, VarEntries(decl.members[m].ids, decl.members[m].type, scope))
    /\ m' = m + 1
    /\ UNCHANGED <<ast, pc, blk, i, scopes>>

RecordEnd ==
    /\ pc = "RECORD" /\ m > Len(decl.members)
    /\ scope' = pre_scope
    /\ syms' = add_symbol(syms,
                   <<MkSymbol(decl.id, "record", Len(decl.members), scope', 0, 0)>>)
    /\ pre_scope' = NULL
    /\ pc' = "DECLARATION" /\ i' = i + 1 /\ m' = 1
    /\ UNCHANGED <<ast, blk, temp_scope, temp_sub_program_name>>

\* Mutant: the loop over a body does not step over a type.
SkipLocalTypeStays ==
    /\ AtDeclaration({"ARRAY", "RECORD"}) /\ blk > 1
    /\ UNCHANGED vars

\* SUBPROGRAM_BODY visits its constants and variables only.
SkipLocalType ==
    /\ AtDeclaration({"ARRAY", "RECORD"}) /\ blk > 1
    /\ NextDeclaration
    /\ UNCHANGED <<ast, syms, scopes>>

\* PROGRAM_STRUCT goes on to its SUBPROGRAM_DECLARATIONS_LIST.
DeclarationsEnd ==
    /\ pc = "DECLARATION" /\ blk = 1 /\ i > Len(ast[1].decls)
    /\ pc' = "HEAD" /\ blk' = 2 /\ i' = 1
    /\ UNCHANGED <<ast, m, syms, scopes>>

\* Mutant: the scope of the program is not restored.
SubprogramEndUnrestored ==
    /\ pc = "DECLARATION" /\ blk > 1 /\ i > Len(ast[blk].decls)
    /\ temp_sub_program_name' = NULL
    /\ pc' = "HEAD" /\ blk' = blk + 1 /\ i' = 1
    /\ UNCHANGED <<ast, m, syms, scope, temp_scope, pre_scope>>

\* Mutant: only the first subprogram is visited.
SubprogramEndLast ==
    /\ pc = "DECLARATION" /\ blk > 1 /\ i > Len(ast[blk].decls)
    /\ scope' = temp_sub_program_name
    /\ temp_sub_program_name' = NULL
    /\ pc' = "HEAD" /\ blk' = Len(ast) + 1 /\ i' = 1
    /\ UNCHANGED <<ast, m, syms, temp_scope, pre_scope>>

SubprogramEnd ==
    /\ pc = "DECLARATION" /\ blk > 1 /\ i > Len(ast[blk].decls)
    /\ scope' = temp_sub_program_name
    /\ temp_sub_program_name' = NULL
    /\ pc' = "HEAD" /\ blk' = blk + 1 /\ i' = 1
    /\ UNCHANGED <<ast, m, syms, temp_scope, pre_scope>>

ProgramEnd ==
    /\ pc = "HEAD" /\ blk > Len(ast)
    /\ scope' = temp_scope
    /\ temp_scope' = NULL
    /\ pc' = "DONE"
    /\ UNCHANGED <<ast, blk, i, m, syms, temp_sub_program_name, pre_scope>>

\* destroy_syb_table, once the code has been generated.
Destroy ==
    /\ pc = "DONE"
    /\ syms' = <<>>
    /\ pc' = "DESTROYED"
    /\ UNCHANGED <<ast, blk, i, m, scopes>>

Next ==
    \/ ProgramHead \/ SubprogramHead
    \/ Parameter \/ ConstDeclaration \/ VarDeclaration \/ ArrayType
    \/ RecordBegin \/ RecordMember \/ RecordEnd \/ SkipLocalType
    \/ DeclarationsEnd \/ SubprogramEnd \/ ProgramEnd \/ Destroy

\* The compiler is one thread: while a step remains it is taken.
Spec == Init /\ [][Next]_vars /\ WF_vars(Next)
-----------------------------------------------------------------------------
(* Properties *)

\* Every variable keeps its type: in particular the current scope is always a
\* name, never the NULL of a frame that has not saved it.
TypeOK ==
    /\ ast \in Programs
    /\ pc \in {"HEAD", "DECLARATION", "RECORD", "DONE", "DESTROYED"}
    /\ blk \in Nat \ {0} /\ i \in Nat \ {0} /\ m \in Nat \ {0}
    /\ syms \in Seq(Symbol)
    /\ scope \in Identifier
    /\ {temp_scope, temp_sub_program_name, pre_scope} \subseteq Identifier \cup {NULL}

\* The cursor stays inside the tree.
CursorOK ==
    /\ blk \in 1..Len(ast) + 1
    /\ pc = "HEAD" => i = 1
    /\ pc \in {"DECLARATION", "RECORD"} => blk <= Len(ast) /\ i <= Len(ast[blk].decls) + 1
    /\ pc = "RECORD" =>
          /\ blk = 1 /\ i <= Len(ast[blk].decls) /\ decl.kind = "RECORD"
          /\ m <= Len(decl.members) + 1
    /\ pc \in {"DONE", "DESTROYED"} => blk = Len(ast) + 1

\* The scope a name is entered under is the innermost construct that encloses
\* it, however many subprograms and records were entered and left before.
ScopeDiscipline ==
    scope = CASE pc = "HEAD" /\ blk = 1 -> "null"
              [] pc = "HEAD" /\ blk > 1 -> ast[1].id
              [] pc = "DECLARATION" -> ast[blk].id
              [] pc = "RECORD" -> decl.id
              [] pc \in {"DONE", "DESTROYED"} -> "null"

\* A saved scope is the scope of the construct outside the one being visited.
FramesOK ==
    /\ temp_scope = IF (pc = "HEAD" /\ blk = 1) \/ pc \in {"DONE", "DESTROYED"}
                    THEN NULL ELSE "null"
    /\ temp_sub_program_name = IF pc = "DECLARATION" /\ blk > 1 THEN ast[1].id ELSE NULL
    /\ pre_scope = IF pc = "RECORD" THEN ast[1].id ELSE NULL

\* The symbols of the part of the program that the walk has passed.
Passed ==
    (UNION {BlockSymbols(ast, b) : b \in 1..(blk - 1)})
    \cup (IF pc \in {"DECLARATION", "RECORD"}
          THEN {HeadSymbol(ast, blk)} \cup VisitedSymbols(ast, blk, i - 1) ELSE {})
    \cup (IF pc = "RECORD" THEN UNION {MemberSymbols(decl, k) : k \in 1..(m - 1)}
          ELSE {})

\* At every moment the table holds the symbols of the declarations already walked
\* over, all of them and no others, each with the scope, position and passing mode
\* it has in the program.
TableExact == pc # "DESTROYED" => Entries(syms) = Passed

\* When the code generator starts, get_symbol answers for every name and every
\* scope with a declaration of that name there (the only one, if the program
\* declares no name twice), and with NULL exactly for the names that are not
\* declared there.
LookupExact ==
    pc = "DONE" =>
        \A n, s \in Identifier :
            LET found == get_symbol(syms, n, s)
                meant == {d \in Declared(ast) : d.name = n /\ d.scope = s}
            IN  IF meant = {} THEN found = NULL ELSE found \in meant

\* What get_symbol_by_arg(k, f) answers for the only subprogram called f: the
\* k-th name of the first parameter group that has k names.  A later group starts
\* again at 1, so a call never sees it unless it is longer than every group
\* before it.
FirstGroupAnswers ==
    pc = "DONE" =>
        \A b \in {c \in 2..Len(ast) : \A d \in 2..Len(ast) : ast[c].id = ast[d].id => c = d} :
            LET params == Params(ast[b])
            IN  \A k \in 1..Len(Formals(ast[b])) + 1 :
                    LET long  == {g \in 1..Len(params) : k <= Len(params[g].ids)}
                        found == get_symbol_by_arg(syms, k, ast[b].id)
                        p     == params[FirstIndex(long)]
                    IN  IF long = {} THEN found = NULL
                        ELSE found = MkSymbol(p.ids[k], p.type, 0, ast[b].id, k, Ref(p.kind))

\* The passing mode ("1 by value, 2 by reference") that the table gives for the
\* k-th actual parameter of a call is the one the k-th formal parameter has.
ArgumentIsPosition ==
    pc = "DONE" /\ UniqueKeys(ast) =>
        \A b \in 2..Len(ast) : \A k \in 1..Len(Formals(ast[b])) :
            LET found == get_symbol_by_arg(syms, k, ast[b].id)
            IN  found # NULL /\ found.ref = Formals(ast[b])[k].ref

\* Until the table is destroyed an answer, once given, is never changed by a
\* later declaration: what the walk has seen is not shadowed by what it sees next.
StableLookup ==
    [][\A n, s \in Identifier :
          get_symbol(syms, n, s) # NULL =>
             \/ get_symbol(syms', n, s) = get_symbol(syms, n, s)
             \/ pc' = "DESTROYED"]_vars

\* The list implements the abstract environment.
E == INSTANCE Environment WITH
        program <- ast,
        phase <- IF pc \in {"HEAD", "DECLARATION", "RECORD"} THEN "BUILDING"
                 ELSE IF pc = "DONE" THEN "BUILT" ELSE "DESTROYED",
        env <- Entries(syms)

ImplementsEnvironment == E!EnvSpec

\* Every walk ends, and the table is then destroyed.
Termination == <>(pc = "DESTROYED" /\ syms = <<>>)
=============================================================================
