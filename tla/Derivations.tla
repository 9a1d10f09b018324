---------------------------- MODULE Derivations ----------------------------
(***************************************************************************)
(* Derivations of programs, as the inputs of Parser: the items of the parts *)
(* of a production in order and then its reduction.                         *)
(***************************************************************************)
EXTENDS Sequences, SequencesExt, Naturals

T(text) == <<[text |-> text, prod |-> ""]>>
R(prod) == <<[text |-> "", prod |-> prod]>>
Empty   == R("empty")

\* x_list with at least one element; the rest is derived from the right.
ListIn(list, rest, elements) ==
    FlattenSeq(elements) \o Empty
    \o FlattenSeq([i \in 1..(Len(elements) - 1) |-> R(rest)]) \o R(list)

Ids(names) == ListIn("idlist", "idlist_", [i \in DOMAIN names |-> T(names[i])])

-----------------------------------------------------------------------------
(* Expressions *)

Num(t)      == T(t) \o R("factor_num")
Plain(id)   == T(id) \o Empty \o R("variable")
Member(id, m) == T(id) \o T(m) \o R("variable_member")
Args(exps)  == ListIn("expression_list", "expression_list_", exps)
Index(id, exps) == T(id) \o Args(exps) \o R("id_varpart") \o R("variable")
Var(v)      == v \o R("factor_variable")
Call(id, exps) == T(id) \o Args(exps) \o R("factor_call")
Paren(e)    == e \o R("factor_paren")
Not(f)      == f \o R("factor_not")
Minus(f)    == f \o R("factor_minus")

Term(f)         == f \o R("term")
Mul(t, op, f)   == t \o R(op) \o f \o R("term_mulop")
Simple(t)       == t \o R("simple_expression")
Add(s, op, t)   == s \o R(op) \o t \o R("simple_addop")
Exp(s)          == s \o R("expression")
Rel(s, op, s2)  == s \o R(op) \o s2 \o R("expression_relop")

FactorExp(f) == Exp(Simple(Term(f)))
X(id) == FactorExp(Var(Plain(id)))

-----------------------------------------------------------------------------
(* Statements *)

Assign(v, e)    == v \o e \o R("assignment")
Do(id)          == T(id) \o R("procedure_call") \o R("call_statement")
DoWith(id, exps) == T(id) \o Args(exps) \o R("procedure_call_args") \o R("call_statement")
Compound(stmts) == ListIn("statement_list", "statement_list_", stmts) \o R("compound_statement")
Begin(stmts)    == Compound(stmts) \o R("block_statement")
If(e, s)        == e \o s \o Empty \o R("if_statement")
IfElse(e, s, s2) == e \o s \o s2 \o R("else_part") \o R("if_statement")
For(id, e, e2, s) == T(id) \o e \o e2 \o s \o R("for_statement")
While(e, s)     == e \o s \o R("while_statement")

\* A statement of each kind around s.
Around(s) ==
    {Begin(<<s>>), If(X("x"), s), IfElse(X("x"), s, Do("f")),
     IfElse(X("x"), Do("f"), s), While(X("x"), s),
     For("i", X("x"), X("y"), s), Begin(<<s, Do("f")>>), Begin(<<Do("f"), s>>)}

SimpleStatement ==
    {Empty, Assign(Plain("x"), X("y")), Do("f"), DoWith("f", <<X("x")>>)}

-----------------------------------------------------------------------------
(* Declarations *)

Consts(values) ==
    ListIn("const_declaration", "const_declaration_", values) \o R("const_declarations")
Const(id, kind, v) == T(id) \o T(v) \o R(kind) \o R("const_define")
Types(defines) ==
    ListIn("type_declaration", "type_declaration_", defines) \o R("type_declarations")
Decls(assigns) == ListIn("var_declaration", "var_declaration_", assigns)
Vars(assigns)  == Decls(assigns) \o R("var_declarations")
Of(names, type) == Ids(names) \o T(type) \o R("type") \o R("var_assign")
Record(id, assigns) == T(id) \o Decls(assigns) \o R("type_record")
Bounds(b, e) == T(b) \o T(e) \o R("period")
Array(id, ranges, type) ==
    T(id) \o ListIn("period_list", "period_list_", ranges) \o T(type) \o R("type_array")

ByValue(names, type) == Ids(names) \o T(type) \o R("value_parameter")
ValueParam(names, type) == ByValue(names, type) \o R("parameter_value")
VarParam(names, type) == ByValue(names, type) \o R("var_parameter") \o R("parameter_var")
Formal(groups) == ListIn("parameter_list", "parameter_list_", groups) \o R("formal_parameter")

Body(consts, types, vars, compound) ==
    consts \o types \o vars \o compound \o R("subprogram_body")
Procedure(id, formal, body) == T(id) \o formal \o R("procedure_head") \o body \o R("subprogram")
Function(id, formal, type, body) ==
    T(id) \o formal \o T(type) \o R("function_head") \o body \o R("subprogram")
Subs(subs) == ListIn("subprogram_declarations", "subprogram_declarations_", subs)

Program(head, consts, types, vars, subs, compound) ==
    head \o consts \o types \o vars \o subs \o compound \o R("program_body")
    \o R("program_struct")
Named(id)        == T(id) \o R("program_head")
Files(id, names) == T(id) \o Ids(names) \o R("program_head_files")

\* A program that only has statements.
Main(stmts) == Program(Named("p"), Empty, Empty, Empty, Empty, Compound(stmts))
=============================================================================
