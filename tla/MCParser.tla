------------------------------ MODULE MCParser ------------------------------
(***************************************************************************)
(* Inputs for BuiltTree: every production, lists of one to three elements, each *)
(* optional part present and absent, and the empty statement wherever the    *)
(* grammar has a statement.                                                  *)
(***************************************************************************)
EXTENDS BuiltTree

D == INSTANCE Derivations

StatementInputs ==
    {D!Main(<<s>>) : s \in D!SimpleStatement}
    \cup {D!Main(<<s>>) : s \in UNION {D!Around(t) : t \in D!SimpleStatement}}
    \cup {D!Main(<<s>>) : s \in UNION {D!Around(t) : t \in D!Around(D!Empty)}}
    \cup {D!Main(<<s, t, u>>) : s, t, u \in {D!Empty, D!Do("f"), D!Do("g")}}

ExpressionInputs ==
    {D!Main(<<D!Assign(v, e)>>) :
        v \in {D!Member("r", "x"), D!Index("t", <<D!X("x"), D!X("y"), D!X("z")>>)},
        e \in {D!Rel(D!Simple(D!Term(D!Num("1"))), op, D!Simple(D!Term(D!Minus(D!Num("2"))))) :
                  op \in {"RELOP_CGT", "RELOP_CLT", "RELOP_CEQ", "RELOP_CNE", "RELOP_CGE",
                          "RELOP_CLE"}}
              \cup {D!Exp(D!Add(D!Simple(D!Term(D!Not(D!Var(D!Plain("x"))))), op,
                                D!Mul(D!Term(D!Num("1")), op2, D!Call("f", <<D!X("x"), D!X("y")>>)))) :
                       op \in {"ADDOP_PLUS", "ADDOP_MINUS", "ADDOP_OR"},
                       op2 \in {"MULOP_AND", "MULOP_MOD", "MULOP_DIV", "MULOP_MUL"}}}

Constants ==
    {D!Empty, D!Consts(<<D!Const("c", "const_num", "1"), D!Const("d", "const_minus", "2"),
                         D!Const("e", "const_letter", "'a'")>>)}
Types ==
    {D!Empty, D!Types(<<D!Record("r", <<D!Of(<<"x", "y">>, "integer"), D!Of(<<"z">>, "t")>>),
                        D!Array("t", <<D!Bounds("1", "2"), D!Bounds("0", "3")>>, "real")>>)}
Variables == {D!Empty, D!Vars(<<D!Of(<<"x", "y", "z">>, "integer"), D!Of(<<"a">>, "r")>>)}

Heads ==
    {D!Empty, D!Formal(<<D!VarParam(<<"x">>, "integer")>>),
     D!Formal(<<D!ValueParam(<<"x", "y">>, "real"), D!VarParam(<<"z">>, "char")>>)}

SubprogramParts ==
    {D!Empty}
    \cup {D!Subs(<<D!Procedure("f", h, D!Body(c, D!Empty, v, D!Compound(<<D!Do("f")>>))),
                   D!Function("g", h, "integer", D!Body(D!Empty, t, D!Empty, D!Compound(<<D!Do("f")>>)))>>) :
             h \in Heads, c \in Constants, t \in Types, v \in Variables}

DeclarationInputs ==
    {D!Program(h, c, t, v, D!Empty, D!Compound(<<D!Do("f")>>)) :
        h \in {D!Named("p"), D!Files("p", <<"input", "output">>)},
        c \in Constants, t \in Types, v \in Variables}
    \cup {D!Program(D!Named("p"), D!Empty, D!Empty, D!Empty, s, D!Compound(<<D!Do("f")>>)) :
             s \in SubprogramParts}

MCIdentifier ==
    {"null", "p", "input", "output", "c", "d", "e", "r", "t", "a", "x", "y", "z", "f", "g",
     "dimension1", "dimension2"}
MCDimensionName == <<"dimension1", "dimension2">>
MCNumber == "0" :> 0 @@ "1" :> 1 @@ "2" :> 2 @@ "3" :> 3

MCType == STRING
MCKey  == STRING
MCWord == STRING

MCInputs == StatementInputs \cup ExpressionInputs \cup DeclarationInputs
=============================================================================
