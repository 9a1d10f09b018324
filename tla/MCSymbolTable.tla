--------------------------- MODULE MCSymbolTable ---------------------------
(***************************************************************************)
(* Small programs for SymbolTable: a program with every mixture of         *)
(* constants, array and record types and variables, followed by up to two  *)
(* subprograms with up to two parameter groups and with local              *)
(* declarations.  Names are reused across scopes and, in some programs,    *)
(* within one: nothing in the front end rejects that.                      *)
(***************************************************************************)
EXTENDS SymbolTable

MCIdentifier ==
    {"null", "p", "f", "g", "x", "y", "z", "t", "r", "dimension1", "dimension2"}

To(b, e) == [begin |-> b, end |-> e]

MCDimensionName == <<"dimension1", "dimension2">>

\* The declarations of the program block.
Globals ==
    {<<>>,
     <<ConstDecl("z"), VarDecl(<<"x", "y">>, "integer")>>,
     <<ArrayDecl("t", <<To(0, 3), To(1, 2)>>, "real"), VarDecl(<<"x">>, "t"), VarDecl(<<"y">>, "INTEGER")>>,
     <<RecordDecl("r", <<[ids |-> <<"x", "y">>, type |-> "integer"],
                         [ids |-> <<"z">>, type |-> "t"]>>),
       ArrayDecl("t", <<To(1, 1)>>, "char"), VarDecl(<<"x">>, "r")>>,
     \* two records in a row, a type called like a subprogram, a member called
     \* like a dimension
     <<RecordDecl("f", <<[ids |-> <<"dimension1">>, type |-> "integer"]>>),
       RecordDecl("null", <<[ids |-> <<"p">>, type |-> "f"]>>)>>,
     \* one name twice in one scope
     <<ConstDecl("x"), ArrayDecl("x", <<To(1, 2)>>, "boolean"), VarDecl(<<"x", "p">>, "x")>>}

ParameterLists ==
    LET groups == {ValueParameter(<<"x">>, "integer"), VarParameter(<<"y">>, "real"),
                   VarParameter(<<"x", "y">>, "integer")}
    IN  {<<>>} \cup {<<d>> : d \in groups}
        \cup {<<d, e>> : d \in groups, e \in groups \cup {ValueParameter(<<"z", "t">>, "char")}}

Locals ==
    {<<>>, <<ConstDecl("z"), VarDecl(<<"g">>, "t")>>,
     <<ArrayDecl("t", <<To(1, 2)>>, "integer"), RecordDecl("r", <<[ids |-> <<"x">>, type |-> "t"]>>),
       VarDecl(<<"z">>, "t")>>}

MkBlock(id, result, decls) == [id |-> id, result |-> result, decls |-> decls, body |-> <<>>]

Subprograms(id) ==
    {MkBlock(id, result, params \o locals) :
        result \in {NULL, "integer"}, params \in ParameterLists, locals \in Locals}

ProgramBlocks == {MkBlock("p", NULL, decls) : decls \in Globals}

\* The second subprogram is "g", or a second "f", after a few of the first ones.
MCPrograms ==
    {<<p>> : p \in ProgramBlocks}
    \cup {<<p, f>> : p \in ProgramBlocks, f \in Subprograms("f")}
    \cup {<<p, f, g>> : p \in ProgramBlocks,
             f \in {MkBlock("f", NULL, params) : params \in ParameterLists},
             g \in {MkBlock("g", "integer", <<VarParameter(<<"x">>, "integer")>> \o locals) :
                       locals \in Locals}
                   \cup {MkBlock("f", "real", <<ValueParameter(<<"x", "z">>, "char")>>)}}
=============================================================================
