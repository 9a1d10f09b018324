------------------------------ MODULE CodeGen ------------------------------
(***************************************************************************)
(* codegen.c: do_generate walks the same tree as sybtable.c and prints the *)
(* C program.  It decides how to print a name by looking it up in the      *)
(* symbol table under the scope that the global scope_ holds; the table is *)
(* only read.                                                              *)
(*                                                                         *)
(* out is the printed program as a sequence of items: the properties are   *)
(* about which names carry a `*`, a `_`, an `&`, a member or a type, and   *)
(* about the order of the items, never about spacing or braces.            *)
(***************************************************************************)
EXTENDS Symbols

VARIABLES
    ast, syms,          \* the tree and the finished table
    gpc,                \* the kind of node that do_generate visits next
    gblk, gi,           \* the block, and the declaration or statement in it
    scope_,             \* the C global
    out

gvars == <<gpc, gblk, gi, scope_, out>>

-----------------------------------------------------------------------------
(* Types *)

\* The spellings of basic types that is_basic_type compares with.
is_basic_type(type) == type \in BasicType \ {"INTEGER"}

\* Any other text is its own translation.  All but the first four are identifiers,
\* which are translated too where the code passes a name instead of a type.
CName == [integer |-> "int", boolean |-> "int", real |-> "float", char |-> "char",
          shortint |-> "short", longint |-> "long", int64 |-> "long long",
          byte |-> "unsigned short", word |-> "unsigned int", dword |-> "unsigned long",
          qword |-> "unsigned long long", double |-> "double"]

var_type_change(type) == IF type \in DOMAIN CName THEN CName[type] ELSE type

CType(text)    == [struct |-> FALSE, text |-> text]
CStruct(text)  == [struct |-> TRUE, text |-> text]
NoType         == CType(NULL)

\* The text printed for a TYPE node.
TypeText(type, s) ==
    LET sym == get_symbol(syms, type, s)
        dimension1 == get_symbol(syms, DimensionName[1], type)
    IN  CASE is_basic_type(type) -> CType(var_type_change(type))
          [] ~is_basic_type(type) /\ sym = NULL -> NoType
          [] ~is_basic_type(type) /\ sym # NULL ->
                CASE sym.type = "array"  -> CType(var_type_change(dimension1.type))
                  [] sym.type = "record" -> CStruct(sym.name)
                  [] OTHER -> NoType

\* Mutant: the last dimension is left out.
DimensionsButLast(type) ==
    LET dimension(k) == get_symbol(syms, DimensionName[k], type)
        missing == {k \in 1..MaxDimension : dimension(k) = NULL}
        count   == IF missing = {} THEN MaxDimension ELSE FirstIndex(missing) - 1
    IN  [k \in 1..(IF count = 0 THEN 0 ELSE count - 1) |-> dimension(k).dimension]

\* IDLIST asks for dimension1, dimension2, ... in the scope named like the type
\* of the variables, until one is missing.
Dimensions(type) ==
    LET dimension(k) == get_symbol(syms, DimensionName[k], type)
        missing == {k \in 1..MaxDimension : dimension(k) = NULL}
        count   == IF missing = {} THEN MaxDimension ELSE FirstIndex(missing) - 1
    IN  [k \in 1..count |-> dimension(k).dimension]

VarItem(ids, type, s) ==
    [item |-> "var", ids |-> ids, type |-> TypeText(type, s), dims |-> Dimensions(type)]

-----------------------------------------------------------------------------
(* Names *)

\* Mutant: the name of the function gets no `_`.
FormWithoutResult(id, s) ==
    LET sym == get_symbol(syms, id, s)
    IN  IF sym # NULL /\ sym.arg # 0 /\ sym.ref = 2 THEN "deref" ELSE "plain"

\* How VARIABLE prints an identifier: `*x`, `_x` or `x`.
Form(id, s) ==
    LET sym == get_symbol(syms, id, s)
    IN  IF sym = NULL THEN "plain"
        ELSE IF sym.arg # 0 /\ sym.ref = 2 THEN "deref"
        ELSE IF sym.name = sym.scope THEN "result"
        ELSE "plain"

\* The index expressions of x[..] are printed in the scope named like the type of
\* x, when x is known.
IndexScope(id, s) ==
    LET sym == get_symbol(syms, id, s) IN IF sym = NULL THEN s ELSE sym.type

\* Mutant: a member is printed for no variable.
VariableItemWithoutMember(r, s) ==
    [item   |-> "name", id |-> r.id, form |-> Form(r.id, s), member |-> NULL,
     index  |-> [k \in 1..Len(r.args) |->
                    [id |-> r.args[k], form |-> Form(r.args[k], IndexScope(r.id, s))]]]

VariableItem(r, s) ==
    [item   |-> "name", id |-> r.id, form |-> Form(r.id, s),
     member |-> IF get_symbol(syms, r.id, s) = NULL THEN NULL ELSE r.member,
     index  |-> [k \in 1..Len(r.args) |->
                    [id |-> r.args[k], form |-> Form(r.args[k], IndexScope(r.id, s))]]]

\* The arguments of a call; `&` is printed before those at the marked positions.
CallItem(r, s, marked) ==
    [item |-> r.kind, id |-> r.id,
     args |-> [k \in 1..Len(r.args) |->
                  [id |-> r.args[k], form |-> Form(r.args[k], s), mark |-> k \in marked]]]

\* Mutant: the arguments of a call count from 0.
ByReferenceFromZero(f, k) ==
    LET sym == get_symbol_by_arg(syms, k - 1, f) IN sym # NULL /\ sym.ref = 2

ByReference(f, k) ==
    LET sym == get_symbol_by_arg(syms, k, f) IN sym # NULL /\ sym.ref = 2

ReferenceItem(r, s) ==
    CASE r.kind = "VARIABLE" -> VariableItem(r, s)
      [] r.kind = "PROCEDURE_CALL" /\ r.id = "read" -> CallItem(r, s, DOMAIN r.args)
      [] r.kind = "PROCEDURE_CALL" /\ r.id # "read" ->
            CallItem(r, s, {k \in DOMAIN r.args : ByReference(r.id, k)})
      [] r.kind = "FACTOR" -> CallItem(r, s, {})

-----------------------------------------------------------------------------
(* The walk *)

\* SUBPROGRAM_HEAD: each parameter group prints its own list.
HeadItem(item, b) ==
    [item   |-> item, id |-> ast[b].id,
     result |-> IF ast[b].result = NULL THEN "void" ELSE var_type_change(ast[b].result),
     params |-> LET params == Params(ast[b])
                IN  [g \in 1..Len(params) |->
                       [k \in 1..Len(params[g].ids) |->
                          [type    |-> var_type_change(params[g].type),
                           pointer |-> params[g].kind = "VAR_PARAMETER",
                           id      |-> params[g].ids[k]]]]]

Simple(item, id) == [item |-> item, id |-> id]

gdecl == ast[gblk].decls[gi]

AtGenDeclaration(kinds) ==
    gpc = "DECLARATION" /\ gi <= Len(ast[gblk].decls) /\ gdecl.kind \in kinds

emit(items) == out' = out \o items

\* Mutant: PROGRAM_HEAD sets no scope.
GenProgramHeadUnscoped ==
    /\ gpc = "HEAD" /\ gblk = 1
    /\ gpc' = "DECLARATION"
    /\ UNCHANGED <<gblk, gi, scope_, out>>

GenProgramHead ==
    /\ gpc = "HEAD" /\ gblk = 1
    /\ scope_' = ast[1].id
    /\ gpc' = "DECLARATION"
    /\ UNCHANGED <<gblk, gi, out>>

\* Mutant: the constants of a subprogram are not printed.
GenConstOfProgram ==
    /\ AtGenDeclaration({"CONST_DECLARATION"})
    /\ emit(IF gblk = 1 THEN <<Simple("define", gdecl.id)>> ELSE <<>>)
    /\ gi' = gi + 1
    /\ UNCHANGED <<gpc, gblk, scope_>>

GenConst ==
    /\ AtGenDeclaration({"CONST_DECLARATION"})
    /\ emit(<<Simple("define", gdecl.id)>>)
    /\ gi' = gi + 1
    /\ UNCHANGED <<gpc, gblk, scope_>>

\* Mutant: scope_ is not put back.
ScopeAfterVarKept(type, s) == type

\* VAR_DECLARATION saves scope_, sets it to the name of the type for IDLIST, and puts
\* it back: what scope_ is after it when it was s before.
ScopeAfterVar(type, s) == s

\* RECORD sets no scope: its first member is printed under the scope of the program,
\* each other one under the scope that the member before it leaves.
MemberScope(members, k, s) ==
    IF k = 1 THEN s ELSE ScopeAfterVar(members[k - 1].type, s)

GenRecord ==
    /\ AtGenDeclaration({"RECORD"}) /\ gblk = 1
    /\ emit(<<[item |-> "struct", id |-> gdecl.id,
                fields |-> [k \in 1..Len(gdecl.members) |->
                              VarItem(gdecl.members[k].ids, gdecl.members[k].type,
                                      MemberScope(gdecl.members, k, scope_))]]>>)
    /\ scope_' = MemberScope(gdecl.members, Len(gdecl.members) + 1, scope_)
    /\ gi' = gi + 1
    /\ UNCHANGED <<gpc, gblk>>

GenVar ==
    /\ AtGenDeclaration({"VAR_DECLARATION"})
    /\ emit(<<VarItem(gdecl.ids, gdecl.type, scope_)>>)
    /\ scope_' = ScopeAfterVar(gdecl.type, scope_)
    /\ gi' = gi + 1
    /\ UNCHANGED <<gpc, gblk>>

\* Nothing is printed for an array type, for the types of a subprogram, nor for
\* parameters, which the head has printed.
GenSkip ==
    /\ \/ AtGenDeclaration({"ARRAY", "VAR_PARAMETER", "VALUE_PARAMETER"})
       \/ AtGenDeclaration({"RECORD"}) /\ gblk > 1
    /\ gi' = gi + 1
    /\ UNCHANGED <<gpc, gblk, scope_, out>>

\* Mutant: no prototypes are printed.
GenDeclarationsEndUnannounced ==
    /\ gpc = "DECLARATION" /\ gblk = 1 /\ gi > Len(ast[1].decls)
    /\ gpc' = "SUBPROGRAM" /\ gblk' = 2 /\ gi' = 1
    /\ UNCHANGED <<scope_, out>>

\* PROGRAM_STRUCT has printed its variables.
GenDeclarationsEnd ==
    /\ gpc = "DECLARATION" /\ gblk = 1 /\ gi > Len(ast[1].decls)
    /\ gpc' = "PROTOTYPE" /\ gblk' = 2 /\ gi' = 1
    /\ UNCHANGED <<scope_, out>>

\* generate_subprogram_defs runs SUBPROGRAM_HEAD, which sets scope_.
GenPrototype ==
    /\ gpc = "PROTOTYPE" /\ gblk <= Len(ast)
    /\ scope_' = ast[gblk].id
    /\ emit(<<HeadItem("prototype", gblk)>>)
    /\ gblk' = gblk + 1
    /\ UNCHANGED <<gpc, gi>>

GenPrototypesEnd ==
    /\ gpc = "PROTOTYPE" /\ gblk > Len(ast)
    /\ gpc' = "SUBPROGRAM" /\ gblk' = 2
    /\ UNCHANGED <<gi, scope_, out>>

\* A function also declares the variable that holds its result.
ResultItem(b) ==
    IF ast[b].result = NULL THEN <<>>
    ELSE <<Simple("result", var_type_change(ast[b].id))>>

\* Mutant: the head is printed, but its scope is not entered.
GenSubprogramUnscoped ==
    /\ gpc = "SUBPROGRAM" /\ gblk <= Len(ast)
    /\ emit(<<HeadItem("function", gblk)>> \o ResultItem(gblk))
    /\ gpc' = "DECLARATION" /\ gi' = 1
    /\ UNCHANGED <<gblk, scope_>>

GenSubprogram ==
    /\ gpc = "SUBPROGRAM" /\ gblk <= Len(ast)
    /\ scope_' = ast[gblk].id
    /\ emit(<<HeadItem("function", gblk)>> \o ResultItem(gblk))
    /\ gpc' = "DECLARATION" /\ gi' = 1
    /\ UNCHANGED gblk

GenBodyBegin ==
    /\ gpc = "DECLARATION" /\ gblk > 1 /\ gi > Len(ast[gblk].decls)
    /\ gpc' = "STATEMENT" /\ gi' = 1
    /\ UNCHANGED <<gblk, scope_, out>>

GenReference ==
    /\ gpc = "STATEMENT" /\ gi <= Len(ast[gblk].body)
    /\ emit(<<ReferenceItem(ast[gblk].body[gi], scope_)>>)
    /\ gi' = gi + 1
    /\ UNCHANGED <<gpc, gblk, scope_>>

\* SUBPROGRAM leaves scope_ as SUBPROGRAM_HEAD set it.
GenSubprogramEnd ==
    /\ gpc = "STATEMENT" /\ gblk > 1 /\ gi > Len(ast[gblk].body)
    /\ emit(IF ast[gblk].result = NULL THEN <<>>
             ELSE <<Simple("return", var_type_change(ast[gblk].id))>>)
    /\ gpc' = "SUBPROGRAM" /\ gblk' = gblk + 1
    /\ UNCHANGED <<gi, scope_>>

GenMain ==
    /\ gpc = "SUBPROGRAM" /\ gblk > Len(ast)
    /\ emit(<<Simple("main", NULL)>>)
    /\ gpc' = "STATEMENT" /\ gblk' = 1 /\ gi' = 1
    /\ UNCHANGED scope_

GenMainEnd ==
    /\ gpc = "STATEMENT" /\ gblk = 1 /\ gi > Len(ast[1].body)
    /\ gpc' = "DONE"
    /\ UNCHANGED <<gblk, gi, scope_, out>>

GenInit == gpc = "HEAD" /\ gblk = 1 /\ gi = 1 /\ scope_ = NULL /\ out = <<>>

GenNext ==
    \/ GenProgramHead \/ GenConst \/ GenRecord \/ GenVar \/ GenSkip \/ GenDeclarationsEnd
    \/ GenPrototype \/ GenPrototypesEnd \/ GenSubprogram \/ GenBodyBegin
    \/ GenReference \/ GenSubprogramEnd \/ GenMain \/ GenMainEnd
-----------------------------------------------------------------------------
(* Reading the printed program back *)

\* Programs in which no scope name is used by two constructs, no subprogram is called
\* `read`, no variable has a subprogram for its type, and neither the program nor a
\* member of a record is called like a dimension.  Other programs are accepted too;
\* of what is printed for them only BracketsExactly speaks.
Types(b) == {j \in 1..Len(b.decls) : b.decls[j].kind \in {"ARRAY", "RECORD"}}

Hygienic(a) ==
    /\ UniqueKeys(a)
    /\ \A b, c \in 1..Len(a) : a[b].id = a[c].id => b = c
    /\ a[1].id \notin Range(DimensionName)
    /\ \A b \in 2..Len(a) : a[b].id # "read"
    /\ \A b, c \in 1..Len(a) : \A d \in Range(a[b].decls) :
          /\ a[c].id # d.type
          /\ \A v \in Range(d.members) : a[c].id # v.type
    /\ \A j \in Types(a[1]) :
          /\ \A b \in 1..Len(a) : a[b].id # a[1].decls[j].id
          /\ \A v \in Range(a[1].decls[j].members) :
                Range(v.ids) \cap Range(DimensionName) = {}

\* The head of the C function that item k is printed in; 0 outside of all.
Enclosing(k) ==
    LET heads == {j \in 1..k : out[j].item \in {"function", "main"}}
    IN  IF heads = {} THEN 0 ELSE Max(heads)

In(k, item) == Enclosing(k) # 0 /\ out[Enclosing(k)].item = item

\* The names that item k prints, but for those inside the brackets of an array.
Names(k) ==
    CASE out[k].item = "name" -> {[id |-> out[k].id, form |-> out[k].form]}
      [] out[k].item \in {"PROCEDURE_CALL", "FACTOR"} ->
            {[id |-> a.id, form |-> a.form] : a \in Range(out[k].args)}
      [] OTHER -> {}

\* The indices of an array the function itself does not declare.
DeclaredIn(id, s) == \E d \in Declared(ast) : d.name = id /\ d.scope = s

IndexNames(k) ==
    IF out[k].item = "name" /\ ~DeclaredIn(out[k].id, out[Enclosing(k)].id)
    THEN Range(out[k].index) ELSE {}

\* The parameters that head k declares as pointers.
Pointers(k) ==
    {q.id : q \in {p \in UNION {Range(group) : group \in Range(out[k].params)} : p.pointer}}

-----------------------------------------------------------------------------
(* Properties *)

\* The walk stays inside the tree, and no name is ever looked up before scope_
\* has been set.
GenTypeOK ==
    /\ gpc \in {"HEAD", "DECLARATION", "PROTOTYPE", "SUBPROGRAM", "STATEMENT", "DONE"}
    /\ gblk \in 1..Len(ast) + 1
    /\ gi \in Nat \ {0}
    /\ scope_ \in Identifier \cup {NULL}
    /\ scope_ = NULL => gpc = "HEAD"
    /\ gpc \in {"DECLARATION", "STATEMENT"} => gblk <= Len(ast)

\* Inside a C function a name is dereferenced exactly when the head printed for
\* that function declares it as a pointer.
DereferenceMatchesHead ==
    Hygienic(ast) =>
        \A k \in 1..Len(out) : In(k, "function") =>
            \A n \in Names(k) \cup IndexNames(k) :
                n.form = "deref" <=> n.id \in Pointers(Enclosing(k))

\* The names of functions that the translation of types takes for a type and spells
\* otherwise: `double` keeps its spelling, and keywords are no names.
Respelled == {"shortint", "longint", "int64", "byte", "word", "dword", "qword"}

\* Inside a C function the name of the function itself is printed as the result
\* variable `_f` and no other name is.  The variable declared right behind the head is
\* that `_f`, for a function with any name but the seven that are Respelled: those
\* declare one variable and assign another.  A procedure has no result variable: a
\* Pascal procedure does not use its name as a variable.
ResultMatches ==
    Hygienic(ast) =>
        \A k \in 1..Len(out) : In(k, "function") =>
            \A n \in Names(k) :
                LET f == Enclosing(k)
                IN  /\ n.form = "result" <=> n.id = out[f].id
                    /\ n.form = "result" /\ out[f].result # "void" =>
                          (out[f + 1] = Simple("result", n.id) <=> n.id \notin Respelled)

\* What a type of the program means in C.
TypeDecl(type) ==
    {ast[1].decls[j] : j \in {k \in Types(ast[1]) : ast[1].decls[k].id = type}}

Meaning(type) ==
    CASE is_basic_type(type) -> [type |-> CType(CName[type]), dims |-> <<>>]
      [] ~is_basic_type(type) /\ TypeDecl(type) = {} -> [type |-> NoType, dims |-> <<>>]
      [] ~is_basic_type(type) /\ TypeDecl(type) # {} ->
            LET d == CHOOSE d \in TypeDecl(type) : TRUE
            IN  IF d.kind = "RECORD" THEN [type |-> CStruct(d.id), dims |-> <<>>]
                ELSE [type |-> CType(var_type_change(d.type)), dims |-> [k \in 1..Len(d.periods) |-> d.periods[k].end]]

PrintedAs(ids, type) ==
    [item |-> "var", ids |-> ids, type |-> Meaning(type).type, dims |-> Meaning(type).dims]

\* Every global variable, and every member of a record, is printed with the C type
\* and the dimensions of its declared type;
\* only an undeclared type or a spelling that is_basic_type does not know leaves it
\* without a type.
GlobalDeclarations ==
    \A d \in Range(ast[1].decls) : d.kind # "ARRAY" =>
        \E k \in 1..Len(out) :
            CASE d.kind = "VAR_DECLARATION" ->
                    Enclosing(k) = 0 /\ out[k] = PrintedAs(d.ids, d.type)
              [] d.kind = "RECORD" ->
                    /\ out[k].item = "struct" /\ out[k].id = d.id
                    /\ out[k].fields = [n \in 1..Len(d.members) |->
                                          PrintedAs(d.members[n].ids, d.members[n].type)]
              [] d.kind = "CONST_DECLARATION" -> out[k] = Simple("define", d.id)

\* The types of a subprogram are never entered, and the types of the program are not
\* looked up in it: a local variable gets a C type for a basic type only, but the
\* dimensions of a global array with the name of its type.
LocalDeclaration(d) ==
    [item |-> "var", ids |-> d.ids,
     type |-> IF is_basic_type(d.type) THEN CType(CName[d.type]) ELSE NoType,
     dims |-> Meaning(d.type).dims]

LocalDeclarations(b) ==
    \A d \in Range(ast[b].decls) : d.kind = "VAR_DECLARATION" =>
        \E k \in 1..Len(out) :
            /\ In(k, "function") /\ out[Enclosing(k)].id = ast[b].id
            /\ out[k] = LocalDeclaration(d)

DeclarationsPrinted(b) ==
    \/ gblk > b /\ (b = 1 \/ gpc # "PROTOTYPE")
    \/ gpc \in {"STATEMENT", "DONE"} /\ gblk \in {1, b}

\* Once the declarations of a block have been printed, each of them is there as
\* described above, whatever else is declared around it.
DeclarationsMatch ==
    Hygienic(ast) =>
        \A b \in 1..Len(ast) : DeclarationsPrinted(b) =>
            IF b = 1 THEN GlobalDeclarations ELSE LocalDeclarations(b)

\* The names that block b enters in the scope `name`: its own, and those of its
\* declarations, but for the types of a subprogram.
EntersIn(b, name) ==
    LET visited == {d \in Range(ast[b].decls) : Visited(b, d)}
    IN  (IF name = (IF b = 1 THEN "null" ELSE ast[b].id) THEN {ast[b].id} ELSE {})
        \cup (IF name = ast[b].id THEN UNION {Range(d.ids) \cup {d.id} : d \in visited} ELSE {})

\* What a look-up of dimension1 in the scope named like a type meets: the type itself,
\* if it is an array of the program, or else a member of a record of that name, or a
\* name entered by a subprogram, or by the program, of that name.
IsArray(type) == \E d \in TypeDecl(type) : d.kind = "ARRAY"

TakenForDimension(type) ==
    \/ \E d \in TypeDecl(type) : \E v \in Range(d.members) : DimensionName[1] \in Range(v.ids)
    \/ \E b \in 1..Len(ast) : DimensionName[1] \in EntersIn(b, type)

\* Every variable, of the program and of its subprograms, is printed with brackets
\* exactly when its type is an array of the program or has a name under which something
\* else is called dimension1, whatever names the program uses twice: the look-up by
\* name (IDLIST) does not see whether the type it asks for is an array, nor a type.
BracketsExactly ==
    \A b \in 1..Len(ast) : DeclarationsPrinted(b) =>
        \A d \in Range(ast[b].decls) : d.kind = "VAR_DECLARATION" =>
            \E k \in 1..Len(out) :
                /\ IF b = 1 THEN Enclosing(k) = 0
                   ELSE In(k, "function") /\ out[Enclosing(k)].id = ast[b].id
                /\ out[k].item = "var" /\ out[k].ids = d.ids
                /\ out[k].dims # <<>> <=> IsArray(d.type) \/ TakenForDimension(d.type)

ConstantOf(id, b) ==
    \E d \in Range(ast[b].decls) : d.kind = "CONST_DECLARATION" /\ d.id = id

\* What Pascal's scope rules say of a name in block b.
IsConstant(id, b) ==
    ConstantOf(id, b) \/ (ConstantOf(id, 1) /\ ~DeclaredIn(id, ast[b].id))

\* A #define does not end with its C function: the name of a constant of the program
\* that the block declares anew, or of a subprogram printed before.
Renamed(id, b) ==
    \/ DeclaredIn(id, ast[b].id) /\ ConstantOf(id, 1)
    \/ \E c \in 2..Len(ast) : (b = 1 \/ c < b) /\ ConstantOf(id, c)

\* A name that a statement uses is replaced by a constant in C exactly when it is one
\* in Pascal, but for the names that are Renamed, which all are replaced.
ConstantsKept ==
    Hygienic(ast) =>
        \A k \in 1..Len(out), b \in 1..Len(ast) :
            (In(k, "function") /\ out[Enclosing(k)].id = ast[b].id) \/ (In(k, "main") /\ b = 1) =>
                \A n \in Names(k) :
                    (\E j \in 1..k : out[j] = Simple("define", n.id))
                        <=> IsConstant(n.id, b) \/ Renamed(n.id, b)

\* A procedure call passes an address exactly for the parameters that the printed
\* prototype declares as pointers, when the procedure has one parameter group.
CallMatchesPrototype ==
    Hygienic(ast) =>
        \A k, j \in 1..Len(out) :
            /\ out[k].item = "PROCEDURE_CALL" /\ out[j].item = "prototype"
            /\ out[k].id = out[j].id /\ Len(out[j].params) <= 1
            => \A a \in 1..Len(out[k].args) :
                  out[k].args[a].mark <=>
                      \E group \in Range(out[j].params) : a <= Len(group) /\ group[a].pointer

\* A subprogram is called only after its prototype has been printed, even when it
\* is declared after its caller.
PrototypesFirst ==
    \A k \in 1..Len(out), b \in 2..Len(ast) :
        out[k].item \in {"PROCEDURE_CALL", "FACTOR"} /\ out[k].id = ast[b].id =>
            \E j \in 1..k : out[j].item = "prototype" /\ out[j].id = ast[b].id

\* In a program without subprograms, main prints every declared variable as it
\* stands, but for one that has the name of the program and is taken for the result
\* of a function, and keeps the member that a statement selects.
MainWithoutSubprograms ==
    Hygienic(ast) /\ Len(ast) = 1 /\ gpc = "STATEMENT" =>
        \A r \in 1..(gi - 1) :
            LET ref  == ast[1].body[r]
                item == out[Enclosing(Len(out)) + r]
            IN  ref.kind = "VARIABLE" /\ DeclaredIn(ref.id, ast[1].id) =>
                    /\ item.form = IF ref.id = ast[1].id THEN "result" ELSE "plain"
                    /\ item.member = ref.member

\* A global array has at least as many elements as the range it is declared with,
\* "atoi(period_end) - atoi(period_begin) + 1" in each dimension.
ArrayHoldsItsRange ==
    Hygienic(ast) =>
        \A k \in 1..Len(out), d \in Range(ast[1].decls) :
            /\ Enclosing(k) = 0 /\ out[k].item = "var"
            /\ d.kind = "VAR_DECLARATION" /\ d.ids = out[k].ids
            => \A a \in TypeDecl(d.type) : \A n \in 1..Len(a.periods) :
                  out[k].dims[n] >= a.periods[n].end - a.periods[n].begin + 1

\* x.member, where the program declares x as a variable of a record type with that
\* member.
IsMemberOfRecord(r) ==
    \E d \in Range(ast[1].decls) :
        /\ d.kind = "VAR_DECLARATION" /\ r.id \in Range(d.ids)
        /\ \E t \in TypeDecl(d.type) :
              \E k \in 1..Len(t.members) : r.member \in Range(t.members[k].ids)

\* A member of a global record that the main program selects reaches the C text,
\* with or without subprograms between the declaration and the statement.
MainKeepsMembers ==
    Hygienic(ast) /\ gpc = "STATEMENT" /\ gblk = 1 =>
        \A r \in 1..(gi - 1) :
            IsMemberOfRecord(ast[1].body[r]) =>
                out[Enclosing(Len(out)) + r].member = ast[1].body[r].member
=============================================================================
