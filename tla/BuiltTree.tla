----------------------------- MODULE BuiltTree -----------------------------
(***************************************************************************)
(* The tree of PascalAst that the walks of sybtable.c and codegen.c see     *)
(* when they read, with the getters of ast.c, the heap that Parser has      *)
(* built: the heads and declarations; statements are left out (Statements   *)
(* reads them from the heap).                                               *)
(***************************************************************************)
EXTENDS Reading

CONSTANTS
    Identifier, MaxDimension, DimensionName,    \* as in PascalAst
    Number                                      \* the values of the texts of T_NUM

\* A getter answers NULL for a text that is missing.
Ast == INSTANCE PascalAst WITH NULL <- NoText

-----------------------------------------------------------------------------
(* Reading the heap *)

TextAt(n, key) == ast_node_get_attr_str_value(heap, n, key)
NodeOf(n, key)    == ast_node_get_attr_node_value(heap, n, key)

\* The values of a LIST node, by a loop over its attributes; none for a NULL node.
Texts(n) ==
    IF n = Nil THEN <<>>
    ELSE LET attrs == Attrs(heap, n) IN [i \in DOMAIN attrs |-> heap.attr[attrs[i]].text]
Nodes(n) ==
    IF n = Nil THEN <<>>
    ELSE LET attrs == Attrs(heap, n) IN [i \in DOMAIN attrs |-> heap.attr[attrs[i]].node]

\* The list of a part that may be missing, behind its own node.
Listed(n, part, list) == IF NodeOf(n, part) = Nil THEN <<>> ELSE Nodes(NodeOf(NodeOf(n, part), list))

Map(nodes, Read1(_)) == [i \in DOMAIN nodes |-> Read1(nodes[i])]

VarOf(n) ==
    Ast!VarDecl(Texts(NodeOf(n, "IDLIST")), TextAt(NodeOf(n, "TYPE"), "BASIC_TYPE"))

TypeOf(n) ==
    IF heap.node[n].type = "RECORD"
    THEN Ast!RecordDecl(TextAt(n, "ID"),
             Map(Nodes(NodeOf(n, "TYPE_RECORD_DECLARATION")),
                 LAMBDA m : [ids |-> VarOf(m).ids, type |-> VarOf(m).type]))
    ELSE Ast!ArrayDecl(TextAt(n, "ID"),
             Map(Nodes(NodeOf(n, "PERIOD_LIST")),
                 LAMBDA m : [begin |-> Number[TextAt(m, "PERIOD_BEGIN")],
                             end   |-> Number[TextAt(m, "PERIOD_END")]]),
             TextAt(n, "BASIC_TYPE"))

\* A PARAMETER has one of two parts; VAR_PARAMETER holds the other one.
ParameterOf(n) ==
    LET var   == NodeOf(n, "VAR_PARAMETER")
        value == NodeOf(IF var = Nil THEN n ELSE var, "VALUE_PARAMETER")
        ids   == Texts(NodeOf(value, "IDLIST"))
        type  == TextAt(value, "BASIC_TYPE")
    IN  IF var = Nil THEN Ast!ValueParameter(ids, type) ELSE Ast!VarParameter(ids, type)

DeclarationsOf(n) ==
    Map(Listed(n, "CONST_DECLARATIONS", "CONST_DECLARATION_LIST"),
        LAMBDA m : Ast!ConstDecl(TextAt(m, "ID")))
    \o Map(Listed(n, "TYPE_DECLARATIONS", "TYPE_DECLARATION_LIST"), TypeOf)
    \o Map(Listed(n, "VAR_DECLARATIONS", "VAR_DECLARATION_LIST"), VarOf)

BlockOf(head, parameters, body) ==
    [id |-> TextAt(head, "ID"), result |-> TextAt(head, "BASIC_TYPE"),
     decls |-> parameters \o DeclarationsOf(body), body |-> <<>>]

SubprogramOf(n) ==
    LET head == NodeOf(n, "SUBPROGRAM_HEAD")
    IN  BlockOf(head, Map(Listed(head, "FORMAL_PARAMETER", "PARAMETER_LIST"), ParameterOf),
                NodeOf(n, "SUBPROGRAM_BODY"))

ProgramOf(n) ==
    <<BlockOf(NodeOf(n, "PROGRAM_HEAD"), <<>>, n)>>
    \o Map(Nodes(NodeOf(n, "SUBPROGRAM_DECLARATIONS_LIST")), SubprogramOf)

-----------------------------------------------------------------------------
(* Properties *)

Reductions(prods) == Cardinality({i \in 1..at : input[i].prod \in prods})

Declared(program, kind) ==
    FoldLeft(LAMBDA n, b : n + Len(SelectSeq(b.decls, LAMBDA d : d.kind = kind)), 0, program)

Members(program) ==
    FoldLeft(LAMBDA n, b : FoldLeft(LAMBDA k, d : k + Len(d.members), n, b.decls), 0, program)

\* For every accepted program the tree that the walks see is one of those that
\* SymbolTable, CodeGen and Compiler start from, and it has a declaration for each one
\* in the source: no look-up by key hides one behind another.
BuildsAst ==
    phase = "accepted" =>
        LET program == ProgramOf(root)
        IN  /\ Ast!IsAst(program)
            /\ Len(program) = Reductions({"subprogram"}) + 1
            /\ Declared(program, "CONST_DECLARATION") = Reductions({"const_define"})
            /\ Declared(program, "RECORD") = Reductions({"type_record"})
            /\ Declared(program, "ARRAY") = Reductions({"type_array"})
            /\ Declared(program, "VAR_PARAMETER") = Reductions({"parameter_var"})
            /\ Declared(program, "VALUE_PARAMETER") = Reductions({"parameter_value"})
            /\ Declared(program, "VAR_DECLARATION") + Members(program) = Reductions({"var_assign"})
=============================================================================
