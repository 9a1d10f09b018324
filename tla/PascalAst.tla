----------------------------- MODULE PascalAst -----------------------------
(***************************************************************************)
(* The abstract syntax tree that pascal.y builds and that sybtable.c and   *)
(* codegen.c walk, reduced to what the two walks read: who declares which  *)
(* name, with which type, and which names the statements refer to.         *)
(*                                                                         *)
(* A program is a nonempty sequence of blocks.  Block 1 is the program     *)
(* itself, the others are its subprograms in source order (the grammar has *)
(* no nested subprograms).  The declarations of a block are one sequence   *)
(* in source order, so the order of the grammar is a predicate, DeclOrder. *)
(***************************************************************************)
EXTENDS Naturals, Sequences, FiniteSets

CONSTANTS
    Identifier,     \* the texts of T_ID
    MaxDimension,   \* the longest PERIOD_LIST considered
    DimensionName,  \* k |-> the text "dimension<k>"
    NULL            \* a C null pointer; an attribute the node does not have

\* The texts of T_BASIC_TYPE.  The lexer takes any mix of cases; the capital
\* spelling stands for the ones is_basic_type does not know.
BasicType == {"integer", "INTEGER", "real", "boolean", "char"}

\* The texts the walks use for the type of a symbol that has no declared type.
\* They are keywords, so no identifier is spelt like one.
Keyword == {"program", "const", "array", "record"}

ASSUME IdentifierAssumption ==
    /\ "null" \in Identifier
    /\ Identifier \cap (BasicType \cup Keyword) = {}

ASSUME DimensionAssumption ==
    /\ MaxDimension \in Nat \ {0}
    /\ DimensionName \in [1..MaxDimension -> Identifier]
    /\ \A j, k \in 1..MaxDimension : DimensionName[j] = DimensionName[k] => j = k

ASSUME NullAssumption ==
    NULL \notin Identifier \cup BasicType \cup Keyword

\* One VAR_DECLARATION inside a RECORD.
Member == [ids : Seq(Identifier), type : BasicType \cup Identifier]

\* The range of one dimension of an array.
Period == [begin : Nat, end : Nat]

\* One declaration.  A field its kind does not have is NULL or empty.
Declaration ==
    [kind    : {"VAR_PARAMETER", "VALUE_PARAMETER", "CONST_DECLARATION",
                "ARRAY", "RECORD", "VAR_DECLARATION"},
     id      : Identifier \cup {NULL},
     ids     : Seq(Identifier),
     type    : BasicType \cup Identifier \cup {NULL},
     periods : Seq(Period),
     members : Seq(Member)]

\* One name in a statement: a VARIABLE (with its MEMBER, or the variables of its
\* index expressions), a PROCEDURE_CALL or a FACTOR that calls a function (with
\* the variables passed).
Reference ==
    [kind   : {"VARIABLE", "PROCEDURE_CALL", "FACTOR"},
     id     : Identifier,
     member : Identifier \cup {NULL},
     args   : Seq(Identifier)]

Block == [id     : Identifier,
          result : BasicType \cup {NULL},
          decls  : Seq(Declaration),
          body   : Seq(Reference)]

\* The production of a declaration fixes which fields it has.
DeclShape(d) ==
    /\ d.kind \in {"CONST_DECLARATION", "ARRAY", "RECORD"} <=> d.id # NULL
    /\ d.kind \in {"CONST_DECLARATION", "RECORD"} <=> d.type = NULL
    /\ d.kind \in {"VAR_PARAMETER", "VALUE_PARAMETER", "ARRAY"} => d.type \in BasicType
    /\ d.kind \in {"CONST_DECLARATION", "ARRAY", "RECORD"} <=> d.ids = <<>>
    /\ d.kind = "ARRAY" <=> d.periods # <<>>
    /\ d.kind = "RECORD" <=> d.members # <<>>
    /\ Len(d.periods) <= MaxDimension
    /\ \A k \in 1..Len(d.members) : d.members[k].ids # <<>>

\* The order in which program_body and subprogram_body take their parts.
DeclRank == [VAR_PARAMETER |-> 1, VALUE_PARAMETER |-> 1, CONST_DECLARATION |-> 2,
             ARRAY |-> 3, RECORD |-> 3, VAR_DECLARATION |-> 4]

DeclOrder(decls) ==
    \A j, k \in 1..Len(decls) : j <= k => DeclRank[decls[j].kind] <= DeclRank[decls[k].kind]

IsAst(ast) ==
    /\ ast \in Seq(Block)
    /\ ast # <<>>
    /\ ast[1].result = NULL
    /\ \A j \in 1..Len(ast[1].decls) : DeclRank[ast[1].decls[j].kind] > 1
    /\ \A b \in 1..Len(ast) :
          /\ DeclOrder(ast[b].decls)
          /\ \A j \in 1..Len(ast[b].decls) : DeclShape(ast[b].decls[j])

-----------------------------------------------------------------------------
(* The productions that make a declaration. *)

MkDecl(kind, id, ids, type, periods, members) ==
    [kind |-> kind, id |-> id, ids |-> ids, type |-> type, periods |-> periods, members |-> members]

VarParameter(ids, type)   == MkDecl("VAR_PARAMETER", NULL, ids, type, <<>>, <<>>)
ValueParameter(ids, type) == MkDecl("VALUE_PARAMETER", NULL, ids, type, <<>>, <<>>)
ConstDecl(id)             == MkDecl("CONST_DECLARATION", id, <<>>, NULL, <<>>, <<>>)
ArrayDecl(id, periods, type) == MkDecl("ARRAY", id, <<>>, type, periods, <<>>)
RecordDecl(id, members)   == MkDecl("RECORD", id, <<>>, NULL, <<>>, members)
VarDecl(ids, type)        == MkDecl("VAR_DECLARATION", NULL, ids, type, <<>>, <<>>)

Variable(id)            == [kind |-> "VARIABLE", id |-> id, member |-> NULL, args |-> <<>>]
MemberOf(id, member)    == [kind |-> "VARIABLE", id |-> id, member |-> member, args |-> <<>>]
Indexed(id, indices)    == [kind |-> "VARIABLE", id |-> id, member |-> NULL, args |-> indices]
ProcedureCall(id, args) == [kind |-> "PROCEDURE_CALL", id |-> id, member |-> NULL, args |-> args]
FunctionCall(id, args)  == [kind |-> "FACTOR", id |-> id, member |-> NULL, args |-> args]

ParameterKind == {"VAR_PARAMETER", "VALUE_PARAMETER"}

\* The parameter groups of a block: DeclOrder puts them before everything else.
Params(b) ==
    SubSeq(b.decls, 1, Cardinality({j \in 1..Len(b.decls) : b.decls[j].kind \in ParameterKind}))
=============================================================================
