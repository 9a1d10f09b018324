----------------------------- MODULE MCCompiler -----------------------------
(***************************************************************************)
(* Small programs for Compiler.  The statements use every name in every    *)
(* way: plain, indexed, with a member, as an argument, as a result; in the *)
(* program, in a subprogram that declares the name and in one that does    *)
(* not; a subprogram calls itself, the one before it and the one after it. *)
(***************************************************************************)
EXTENDS Compiler

MCIdentifier ==
    {"null", "p", "f", "g", "x", "y", "z", "t", "r", "read", "word", "double",
     "dimension1", "dimension2"}

To(b, e) == [begin |-> b, end |-> e]

MCDimensionName == <<"dimension1", "dimension2">>

MkBlock(id, result, decls, body) ==
    [id |-> id, result |-> result, decls |-> decls, body |-> body]

Globals ==
    {<<VarDecl(<<"x", "y", "p">>, "integer"), VarDecl(<<"z">>, "INTEGER")>>,
     <<ConstDecl("y"), ArrayDecl("t", <<To(0, 3), To(1, 2)>>, "real"),
       RecordDecl("r", <<[ids |-> <<"x">>, type |-> "integer"],
                         [ids |-> <<"y", "z">>, type |-> "t"]>>),
       VarDecl(<<"x">>, "t"), VarDecl(<<"z">>, "r")>>,
     \* a member called like a dimension, an array called like a subprogram
     <<RecordDecl("r", <<[ids |-> <<"dimension1">>, type |-> "char"]>>),
       ArrayDecl("f", <<To(1, 1)>>, "char"), VarDecl(<<"x">>, "f"), VarDecl(<<"z">>, "r")>>}

\* What the program's own statements do.
MainBody ==
    <<Variable("x"), Indexed("x", <<"y">>), MemberOf("z", "x"), Variable("p"),
      ProcedureCall("read", <<"x">>)>>

MainCalls(subs) ==
    [k \in 1..Len(subs) |->
        IF subs[k].result = NULL THEN ProcedureCall(subs[k].id, <<"x", "y">>)
        ELSE FunctionCall(subs[k].id, <<"x">>)]

Compilation(decls, subs) == <<MkBlock("p", NULL, decls, MainBody \o MainCalls(subs))>> \o subs

ParameterLists ==
    {<<>>, <<ValueParameter(<<"x">>, "integer")>>, <<VarParameter(<<"y", "x">>, "real")>>,
     <<VarParameter(<<"y">>, "INTEGER"), ValueParameter(<<"x", "z">>, "char")>>,
     <<ValueParameter(<<"y">>, "char"), VarParameter(<<"x">>, "boolean")>>}

Locals ==
    {<<>>, <<ConstDecl("z"), ArrayDecl("r", <<To(1, 2)>>, "integer"),
             RecordDecl("t", <<[ids |-> <<"x">>, type |-> "char"]>>), VarDecl(<<"g">>, "t")>>}

\* The body of subprogram `id` that also calls `other`.
SubBody(id, result, other) ==
    <<IF result = NULL THEN ProcedureCall(id, <<"y", "x">>) ELSE Variable(id),
      Indexed("x", <<"y">>), Variable("y"), MemberOf("z", "x"),
      ProcedureCall(other, <<"x", "y">>), FunctionCall(other, <<"y">>)>>

Subprograms(id, other) ==
    {MkBlock(id, result, params \o locals, SubBody(id, result, other)) :
        result \in {NULL, "integer"}, params \in ParameterLists, locals \in Locals}

\* Functions called like a type of other Pascals, or like the program's array; with a
\* parameter called like a dimension, or a variable that has the function for its type.
NameClashes ==
    {MkBlock(id, "real", <<ValueParameter(<<parameter>>, "char")>> \o locals, SubBody(id, "real", id)) :
        id \in {"word", "double", "t"}, parameter \in {"x", "dimension1"},
        locals \in {<<>>} \cup {<<VarDecl(<<"z">>, type)>> : type \in {"word", "double", "t"}}}

MCPrograms ==
    {<<MkBlock("dimension1", NULL, <<VarDecl(<<"x">>, "null")>>, <<>>)>>}
    \cup {Compilation(decls, <<f>>) : decls \in Globals, f \in NameClashes}
    \cup {Compilation(decls, <<>>) : decls \in Globals}
    \cup {Compilation(decls, <<f>>) : decls \in Globals, f \in Subprograms("f", "f")}
    \cup {Compilation(decls, <<f, g>>) : decls \in Globals,
             f \in {MkBlock("f", NULL, params \o locals, SubBody("f", NULL, "g")) :
                       params \in ParameterLists, locals \in Locals},
             g \in {MkBlock("g", "real", params, SubBody("g", "real", "f")) :
                       params \in ParameterLists}}
=============================================================================
