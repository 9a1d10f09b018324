---------------------------- MODULE Statements ----------------------------
(***************************************************************************)
(* codegen.c: do_generate for the statements and expressions of the tree    *)
(* that Parser has built.  What it prints is a sequence of tokens, one for  *)
(* each fprintf; newlines and tabs are left out.  Statements are visited by *)
(* one action for each branch of do_generate, with the C call stack in      *)
(* `work`; an expression is printed by one operator.                        *)
(*                                                                          *)
(* The symbol table is a parameter: CodeGen models the look-ups.            *)
(***************************************************************************)
EXTENDS Parser, CReading

CONSTANTS
    Form,       \* by scope and name, how the look-up lets VARIABLE print it:
                \* "plain", "deref", "result", or "unknown" if there is no symbol
    ByRef,      \* by name, the positions of the var parameters of a subprogram
    LongName    \* the names of 50 bytes and more

\* scope_ is the scope of the block ("here"), or named like the type of an array
\* while its index is printed ("index").
ASSUME FormAssumption ==
    /\ DOMAIN Form = {"here", "index"}
    /\ \A s \in DOMAIN Form : \A x \in DOMAIN Form[s] :
          Form[s][x] \in {"plain", "deref", "result", "unknown"}

VARIABLES
    work,   \* what is left to do, the innermost call first
    out     \* the printed tokens

svars == <<pvars, work, out>>

-----------------------------------------------------------------------------
(* Expressions *)

Value(n, key)    == ast_node_get_attr_node_value(heap, n, key)
StrValue(n, key) == ast_node_get_attr_str_value(heap, n, key)
FirstAttr(n)     == heap.attr[heap.node[n].first]

OperatorText ==
    [RELOP_CEQ |-> " == ", RELOP_CNE |-> " != ", RELOP_CGE |-> " >= ", RELOP_CLE |-> " <= ",
     RELOP_CGT |-> " > ", RELOP_CLT |-> " < ", ADDOP_PLUS |-> " + ", ADDOP_MINUS |-> " - ",
     ADDOP_OR |-> " || ", MULOP_MUL |-> " * ", MULOP_DIV |-> " / ", MULOP_AND |-> " && ",
     MULOP_MOD |-> " % "]

NameText(id, form) ==
    CASE form = "deref" -> <<"*", id>>
      [] form = "result" -> <<"_" \o id>>
      [] OTHER -> <<id>>

RECURSIVE do_generate(_, _)

\* A loop over the attributes from a on, each printed between before and after, with
\* commas between them if they are separated.
RECURSIVE Each(_, _, _, _, _)
Each(a, s, before, after, separator) ==
    IF a = Nil THEN <<>>
    ELSE before \o do_generate(heap.attr[a].node, s) \o after
         \o (IF heap.attr[a].next = Nil THEN <<>> ELSE separator)
         \o Each(heap.attr[a].next, s, before, after, separator)

\* The index expressions are printed in the scope named like the variable's type;
\* the member of an unknown variable is not printed.
VariableText(n, s) ==
    LET id     == StrValue(n, "ID")
        form   == Form[s][id]
        member == StrValue(n, "MEMBER")
    IN  NameText(id, form) \o
        CASE member # NoText /\ form # "unknown" -> <<".", member>>
          [] member # NoText /\ form = "unknown" -> <<>>
          [] OTHER -> do_generate(Value(n, "ID_VARPART"), IF form = "unknown" THEN s ELSE "index")

\* Mutant: an expression in parentheses loses them.
FactorTextBare(n, s) ==
    CASE FirstAttr(n).key = "NUM" -> <<StrValue(n, "NUM")>>
      [] FirstAttr(n).key = "ID" ->
            <<StrValue(n, "ID"), "(">> \o do_generate(Value(n, "EXPRESSION_LIST"), s) \o <<")">>
      [] FirstAttr(n).key \in {"VARIABLE", "EXPRESSION"} -> do_generate(FirstAttr(n).node, s)
      [] FirstAttr(n).key = "TYPE" ->
            (IF FirstAttr(n).text = "T_NOT" THEN <<"!">> ELSE <<"-">>)
            \o do_generate(Value(n, "FACTOR"), s)

FactorText(n, s) ==
    CASE FirstAttr(n).key = "NUM" -> <<StrValue(n, "NUM")>>
      [] FirstAttr(n).key = "ID" ->
            <<StrValue(n, "ID"), "(">> \o do_generate(Value(n, "EXPRESSION_LIST"), s) \o <<")">>
      [] FirstAttr(n).key = "VARIABLE" -> do_generate(Value(n, "VARIABLE"), s)
      [] FirstAttr(n).key = "EXPRESSION" -> <<"(">> \o do_generate(Value(n, "EXPRESSION"), s) \o <<")">>
      [] FirstAttr(n).key = "TYPE" ->
            (IF FirstAttr(n).text = "T_NOT" THEN <<"!">> ELSE <<"-">>)
            \o do_generate(Value(n, "FACTOR"), s)

\* The operands of an operation in the order of the attributes, without parentheses.
do_generate(n, s) ==
    IF n = Nil THEN <<>>
    ELSE LET type == heap.node[n].type IN
         CASE type \in DOMAIN OperatorText -> <<OperatorText[type]>>
           [] type = "EXPRESSION_LIST" -> Each(heap.node[n].first, s, <<>>, <<>>, <<",">>)
           [] type = "ID_VARPART" ->
                 Each(heap.node[FirstAttr(n).node].first, s, <<"[">>, <<"]">>, <<>>)
           [] type \in {"EXPRESSION", "SIMPLE_EXPRESSION", "TERM"} ->
                 Each(heap.node[n].first, s, <<>>, <<>>, <<>>)
           [] type = "VARIABLE" -> VariableText(n, s)
           [] type = "FACTOR" -> FactorText(n, s)

-----------------------------------------------------------------------------
(* Statements *)

Visit(n)   == [node |-> n, text |-> <<>>]
Then(text) == [node |-> Nil, text |-> text]
Child(n, key) == IF Value(n, key) = Nil THEN <<>> ELSE <<Visit(Value(n, key))>>

Expr(n, key) == do_generate(Value(n, key), "here")

Block(n, key) == <<Then(<<"{">>)>> \o Child(n, key) \o <<Then(<<"}">>)>>

\* The tests of do_generate in their order.  The first attribute of a compound
\* statement is a node, whose bytes are never "WHILE".
StatementCase(n) ==
    IF FirstAttr(n).text = "WHILE" THEN "while"
    ELSE IF Value(n, "VARIABLE") # Nil THEN "assignment"
    ELSE IF Value(n, "PROCEDURE_CALL") # Nil THEN "call"
    ELSE IF Value(n, "COMPOUND_STATEMENT") # Nil THEN "compound"
    ELSE IF FirstAttr(n).text = "IF" /\ Value(n, "EXPRESSION") # Nil
            /\ Value(n, "STATEMENT") # Nil THEN "if"
    ELSE IF FirstAttr(n).text = "FOR" /\ Value(n, "EXPRESSION_BEGIN") # Nil
            /\ Value(n, "EXPRESSION_END") # Nil /\ Value(n, "STATEMENT") # Nil THEN "for"
    ELSE "nothing"

Generating == phase = "generating" /\ Running(heap) /\ work # <<>>
Top == Head(work)
AtNode(type) == Generating /\ Top.node # Nil /\ heap.node[Top.node].type = type
AtStatement(case) == AtNode("STATEMENT") /\ StatementCase(Top.node) = case

Parsed == <<input, at, values, meant, root, new_types>>

\* Prints the tokens, then the calls in next are made.
Emit(text, next) ==
    /\ out' = out \o text
    /\ work' = next \o Tail(work)
    /\ UNCHANGED <<heap, phase, Parsed>>

GenStart ==
    /\ phase = "accepted"
    /\ phase' = "generating"
    /\ work' = Child(root, "COMPOUND_STATEMENT")
    /\ UNCHANGED <<heap, Parsed, out>>

\* No braces: a block in the source is a sequence in C.
GenSequence ==
    \E type \in {"COMPOUND_STATEMENT", "STATEMENT_LIST", "ELSE_PART"} :
        /\ AtNode(type)
        /\ Emit(<<>>,
                 CASE type = "COMPOUND_STATEMENT" -> Child(Top.node, "STATEMENT_LIST")
                   [] type = "STATEMENT_LIST" ->
                        LET attrs == Attrs(heap, Top.node)
                        IN  [i \in DOMAIN attrs |-> Visit(heap.attr[attrs[i]].node)]
                   [] type = "ELSE_PART" -> Child(Top.node, "STATEMENT"))

GenWhile ==
    /\ AtStatement("while")
    /\ Emit(<<"while", "(">> \o Expr(Top.node, "EXPRESSION") \o <<")">>,
             Block(Top.node, "STATEMENT"))

GenAssignment ==
    /\ AtStatement("assignment")
    /\ Emit(Expr(Top.node, "VARIABLE") \o <<" = ">> \o Expr(Top.node, "EXPRESSION") \o <<";">>,
             <<>>)

GenSubstatement ==
    \/ AtStatement("call") /\ Emit(<<>>, Child(Top.node, "PROCEDURE_CALL"))
    \/ AtStatement("compound") /\ Emit(<<>>, Child(Top.node, "COMPOUND_STATEMENT"))

\* Mutant: no ELSE part.
GenIfThen ==
    /\ AtStatement("if")
    /\ Emit(<<"if", "(">> \o Expr(Top.node, "EXPRESSION") \o <<")">>,
             Block(Top.node, "STATEMENT"))

GenIf ==
    /\ AtStatement("if")
    /\ Emit(<<"if", "(">> \o Expr(Top.node, "EXPRESSION") \o <<")">>,
             Block(Top.node, "STATEMENT")
             \o IF Value(Top.node, "ELSE_PART") = Nil THEN <<>>
                ELSE <<Then(<<"else">>)>> \o Block(Top.node, "ELSE_PART"))

Crash == heap' = Undefined(heap) /\ UNCHANGED <<phase, Parsed, work, out>>

\* The variable is the second attribute, copied into 50 bytes and not looked up.
GenFor ==
    /\ AtStatement("for")
    /\ LET i == heap.attr[FirstAttr(Top.node).next].text
       IN  IF i \in LongName THEN Crash
           ELSE Emit(<<"for", "(", i, " = ">> \o Expr(Top.node, "EXPRESSION_BEGIN")
                      \o <<";", i, " <= ">> \o Expr(Top.node, "EXPRESSION_END")
                      \o <<";", i, "++", ")">>,
                      Block(Top.node, "STATEMENT"))

\* An if or for whose body is empty prints nothing.
GenNothing == AtStatement("nothing") /\ Emit(<<>>, <<>>)

GenThen == Generating /\ Top.node = Nil /\ Emit(Top.text, <<>>)

-----------------------------------------------------------------------------
(* Calls *)

CallName == StrValue(Top.node, "ID")
CallList == Value(Top.node, "EXPRESSION_LIST")

\* generate_read and generate_write: one %d for each argument.
FormatText(list) ==
    <<"\"">> \o [i \in DOMAIN Attrs(heap, list) |-> "%d"] \o <<"\"", ",">>

\* The arguments from a on; k counts them.
RECURSIVE ArgsText(_, _, _)
ArgsText(a, f, k) ==
    IF a = Nil THEN <<>>
    ELSE (IF f \in DOMAIN ByRef /\ k \in ByRef[f] THEN <<"&">> ELSE <<>>)
         \o do_generate(heap.attr[a].node, "here")
         \o (IF heap.attr[a].next = Nil THEN <<>> ELSE <<",">>)
         \o ArgsText(heap.attr[a].next, f, k + 1)

\* The list is node->first_attr->next->value.
GenRead ==
    /\ AtNode("PROCEDURE_CALL") /\ CallName = "read"
    /\ IF FirstAttr(Top.node).next = Nil THEN Crash
       ELSE Emit(<<"scanf", "(">> \o FormatText(heap.attr[FirstAttr(Top.node).next].node)
                  \o <<"&">> \o Each(heap.node[CallList].first, "here", <<>>, <<>>, <<",", "&">>)
                  \o <<")", ";">>, <<>>)

\* Mutant: write without arguments is printed like any other call.
GenWriteUnchecked ==
    /\ AtNode("PROCEDURE_CALL") /\ CallName = "write"
    /\ Emit(<<"printf", "(">>
             \o (IF CallList = Nil THEN <<>>
                 ELSE FormatText(CallList) \o ArgsText(heap.node[CallList].first, CallName, 1))
             \o <<")", ";">>, <<>>)

GenWrite ==
    /\ AtNode("PROCEDURE_CALL") /\ CallName = "write"
    /\ IF CallList = Nil THEN Crash
       ELSE Emit(<<"printf", "(">> \o FormatText(CallList)
                  \o ArgsText(heap.node[CallList].first, CallName, 1) \o <<")", ";">>, <<>>)

GenCall ==
    /\ AtNode("PROCEDURE_CALL") /\ CallName \notin {"read", "write"}
    /\ Emit(<<CallName, "(">>
             \o (IF CallList = Nil THEN <<>> ELSE ArgsText(heap.node[CallList].first, CallName, 1))
             \o <<")", ";">>, <<>>)

GenEnd ==
    /\ phase = "generating" /\ Running(heap) /\ work = <<>>
    /\ phase' = "generated"
    /\ UNCHANGED <<heap, Parsed, work, out>>

GenNext ==
    \/ GenStart \/ GenSequence \/ GenWhile \/ GenAssignment \/ GenSubstatement \/ GenIf \/ GenFor
    \/ GenNothing \/ GenThen \/ GenRead \/ GenWrite \/ GenCall \/ GenEnd

StatementsInit == ParserInit /\ work = <<>> /\ out = <<>>

StatementsNext == (ParserNext /\ UNCHANGED <<work, out>>) \/ GenNext

StatementsSpec == StatementsInit /\ [][StatementsNext]_svars
=============================================================================
