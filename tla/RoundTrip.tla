----------------------------- MODULE RoundTrip -----------------------------
(***************************************************************************)
(* What the printed C means against what the Pascal source means: the C     *)
(* text, as a C compiler groups it, is compared with the text that the      *)
(* source stands for.  The source is the history variable `meant` of        *)
(* Parser, so the whole way from the productions over the heap to the       *)
(* printed tokens is in between.                                            *)
(***************************************************************************)
EXTENDS Statements

-----------------------------------------------------------------------------
(* The source *)

FieldsOf(t, key) == SelectSeq(t.fields, LAMBDA f : f.key = key)
Has(t, key)      == FieldsOf(t, key) # <<>>
Part(t, key)     == FieldsOf(t, key)[1].nodes[1]
TextOf(t, key)   == IF Has(t, key) THEN FieldsOf(t, key)[1].text ELSE NoText
Elements(t)      == [i \in DOMAIN t.fields |-> t.fields[i].nodes[1]]

Source == Part(meant[1], "COMPOUND_STATEMENT")

ByReference(f, k) ==
    \/ f = "read"
    \/ f \in DOMAIN ByRef /\ k \in ByRef[f]

RECURSIVE Subtrees(_)
Subtrees(t) ==
    {t} \cup UNION {Subtrees(n) : n \in UNION {ToSet(f.nodes) : f \in ToSet(t.fields)}}

-----------------------------------------------------------------------------
(* The C program that the source stands for, in the brackets of CReading. *)

RECURSIVE Want(_)

WantName(id) == LET text == NameText(id, Form["here"][id])
                IN  IF Len(text) = 1 THEN text ELSE Bracket(text)

RECURSIVE WantAll(_, _, _, _)
\* The elements of a list from k on, as arguments of f.
WantAll(list, f, k, separator) ==
    IF k > Len(list) THEN <<>>
    ELSE (IF k = 1 THEN <<>> ELSE separator)
         \o (IF ByReference(f, k) THEN Bracket(<<"&">> \o Want(list[k])) ELSE Want(list[k]))
         \o WantAll(list, f, k + 1, separator)

\* None when there is no list, also for a read or a write.
ArgumentsOf(t) ==
    IF Has(t, "EXPRESSION_LIST") THEN Elements(Part(t, "EXPRESSION_LIST")) ELSE <<>>

WantArgs(t, f) == WantAll(ArgumentsOf(t), f, 1, <<",">>)

WantFormat(t) == <<"\"">> \o [i \in DOMAIN ArgumentsOf(t) |-> "%d"] \o <<"\"", ",">>

WantOperation(t, left, op, right) ==
    IF Has(t, op) THEN Bracket(Want(Part(t, left)) \o <<OperatorText[Part(t, op).type]>>
                               \o Want(Part(t, right)))
    ELSE Want(t.fields[1].nodes[1])

WantBlock(t) == <<"{">> \o (IF Has(t, "STATEMENT") THEN Want(Part(t, "STATEMENT")) ELSE <<>>) \o <<"}">>

WantStatement(t) ==
    CASE TextOf(t, "TYPE") = "WHILE" ->
            <<"while", "(">> \o Want(Part(t, "EXPRESSION")) \o <<")">> \o WantBlock(t)
      [] TextOf(t, "TYPE") = "ASSIGNMENT" ->
            Bracket(Want(Part(t, "VARIABLE")) \o <<" = ">> \o Want(Part(t, "EXPRESSION"))) \o <<";">>
      [] TextOf(t, "TYPE") = "PROCEDURE_CALL" -> Want(Part(t, "PROCEDURE_CALL"))
      [] TextOf(t, "TYPE") = "IF" ->
            <<"if", "(">> \o Want(Part(t, "EXPRESSION")) \o <<")">> \o WantBlock(t)
            \o IF Has(t, "ELSE_PART") THEN <<"else">> \o WantBlock(Part(t, "ELSE_PART")) ELSE <<>>
      [] TextOf(t, "TYPE") = "FOR" ->
            LET i == WantName(TextOf(t, "ID"))
            IN  <<"for", "(">> \o Bracket(i \o <<" = ">> \o Want(Part(t, "EXPRESSION_BEGIN")))
                \o <<";">> \o Bracket(i \o <<" <= ">> \o Want(Part(t, "EXPRESSION_END")))
                \o <<";">> \o i \o <<"++", ")">> \o WantBlock(t)
      [] OTHER -> Want(Part(t, "COMPOUND_STATEMENT"))

WantCall(t) ==
    LET f == TextOf(t, "ID")
    IN  CASE f = "read" -> <<"scanf", "(">> \o WantFormat(t) \o WantArgs(t, f) \o <<")", ";">>
          [] f = "write" -> <<"printf", "(">> \o WantFormat(t) \o WantArgs(t, f) \o <<")", ";">>
          [] OTHER -> <<f, "(">> \o WantArgs(t, f) \o <<")", ";">>

WantVariable(t) ==
    WantName(TextOf(t, "ID"))
    \o (IF Has(t, "MEMBER") THEN <<".", TextOf(t, "MEMBER")>> ELSE <<>>)
    \o (IF Has(t, "ID_VARPART")
        THEN <<"[">> \o WantAll(Elements(Part(Part(t, "ID_VARPART"), "EXPRESSION_LIST")), "[]", 1,
                                <<"]", "[">>) \o <<"]">>
        ELSE <<>>)

WantFactor(t) ==
    CASE Has(t, "NUM") -> <<TextOf(t, "NUM")>>
      [] Has(t, "ID") -> <<TextOf(t, "ID"), "(">> \o WantArgs(t, TextOf(t, "ID")) \o <<")">>
      [] Has(t, "TYPE") -> Bracket((IF TextOf(t, "TYPE") = "T_NOT" THEN <<"!">> ELSE <<"-">>)
                                   \o Want(Part(t, "FACTOR")))
      [] OTHER -> Want(t.fields[1].nodes[1])

Want(t) ==
    CASE t.type = "COMPOUND_STATEMENT" ->
            WantAll(Elements(Part(t, "STATEMENT_LIST")), "", 1, <<>>)
      [] t.type = "STATEMENT" -> WantStatement(t)
      [] t.type = "PROCEDURE_CALL" -> WantCall(t)
      [] t.type = "EXPRESSION" ->
            WantOperation(t, "SIMPLE_EXPRESSION_HEAD", "RELOP", "SIMPLE_EXPRESSION_TAIL")
      [] t.type = "SIMPLE_EXPRESSION" -> WantOperation(t, "SIMPLE_EXPRESSION", "ADDOP", "TERM")
      [] t.type = "TERM" -> WantOperation(t, "TERM", "MULOP", "FACTOR")
      [] t.type = "FACTOR" -> WantFactor(t)
      [] t.type = "VARIABLE" -> WantVariable(t)

-----------------------------------------------------------------------------
(* Where the translation is known to differ, as conditions on the source. *)

RECURSIVE TopOperator(_)
\* The operator applied last in an expression that is not in parentheses.
TopOperator(t) ==
    LET op == SelectSeq(t.fields, LAMBDA f : f.key \in {"RELOP", "ADDOP", "MULOP"})
    IN  CASE op # <<>> -> op[1].nodes[1].type
          [] op = <<>> /\ t.type = "FACTOR" -> ""
          [] op = <<>> /\ t.type # "FACTOR" -> TopOperator(t.fields[1].nodes[1])

Logical    == {"ADDOP_OR", "MULOP_AND"}
Comparison == {"RELOP_CGT", "RELOP_CLT", "RELOP_CEQ", "RELOP_CNE", "RELOP_CGE", "RELOP_CLE"}

\* An IF or FOR whose body is the empty statement.
BodyEmpty(t) == TextOf(t, "TYPE") \in {"IF", "FOR"} /\ ~Has(t, "STATEMENT")

\* Pascal's `and` binds like `*` and `or` like `+`, above a comparison; in C both bind
\* below one.
LogicalOperand(t) ==
    /\ t.type \in {"EXPRESSION", "SIMPLE_EXPRESSION", "TERM"}
    /\ Len(t.fields) = 3
    /\ TopOperator(t) \notin Logical
    /\ \E f \in {t.fields[1], t.fields[3]} : TopOperator(f.nodes[1]) \in Logical

\* The final value of a FOR is printed as an operand of <=.
BoundUngrouped(t) ==
    TextOf(t, "TYPE") = "FOR" /\ TopOperator(Part(t, "EXPRESSION_END")) \in Logical \cup Comparison

\* Two signs are printed as one token.
DoubleMinus(t) ==
    /\ t.type = "FACTOR" /\ TextOf(t, "TYPE") = "T_MINUS"
    /\ TextOf(Part(t, "FACTOR"), "TYPE") = "T_MINUS"

ArgumentsByReference(t) ==
    {ArgumentsOf(t)[k] : k \in {j \in DOMAIN ArgumentsOf(t) : ByReference(TextOf(t, "ID"), j)}}

\* A function in an expression is not given the address of a var argument.
NoAddress(t) == t.type = "FACTOR" /\ Has(t, "ID") /\ ArgumentsByReference(t) # {}

\* The & of a procedure's argument takes the first operand only.
AddressOfOperation(t) ==
    /\ t.type = "PROCEDURE_CALL"
    /\ \E e \in ArgumentsByReference(t) : TopOperator(e) # ""

Printed(t, s) == [name   |-> NameText(TextOf(t, "ID"), Form[s][TextOf(t, "ID")]),
                  member |-> Has(t, "MEMBER") /\ Form[s][TextOf(t, "ID")] # "unknown"]

\* A variable in an index is not found where the index is printed.
IndexElsewhere(t) ==
    /\ t.type = "VARIABLE" /\ Has(t, "ID_VARPART") /\ Form["here"][TextOf(t, "ID")] # "unknown"
    /\ \E v \in Subtrees(Part(t, "ID_VARPART")) :
          v.type = "VARIABLE" /\ Printed(v, "index") # Printed(v, "here")

MemberLost(t) == t.type = "VARIABLE" /\ Has(t, "MEMBER") /\ ~Printed(t, "here").member

\* The loop variable is printed as it is written.
LoopVariable(t) ==
    TextOf(t, "TYPE") = "FOR" /\ Form["here"][TextOf(t, "ID")] \in {"deref", "result"}

Misprinted(t) ==
    \/ LogicalOperand(t) \/ BoundUngrouped(t) \/ DoubleMinus(t) \/ NoAddress(t)
    \/ AddressOfOperation(t) \/ IndexElsewhere(t) \/ MemberLost(t) \/ LoopVariable(t)

\* The statements that do_generate comes to.
RECURSIVE Reached(_)
Reached(t) ==
    IF BodyEmpty(t) THEN {}
    ELSE {t} \cup UNION {Reached(n) : n \in UNION {ToSet(f.nodes) : f \in ToSet(t.fields)}}

Crashes(t) ==
    \/ /\ t.type = "PROCEDURE_CALL" /\ TextOf(t, "ID") \in {"read", "write"}
       /\ ~Has(t, "EXPRESSION_LIST")
    \/ TextOf(t, "TYPE") = "FOR" /\ TextOf(t, "ID") \in LongName

-----------------------------------------------------------------------------
(* Properties *)

Control == {"if", "else", "while", "for", "{", "}", ";"}
ControlTokens(s) == SelectSeq(s, LAMBDA token : token \in Control)

\* The C program has the conditionals, the loops and the statements of the source, in
\* the same places, exactly when no THEN part and no body of a FOR is empty: such a
\* statement disappears with its ELSE part, its condition and its bounds.
ControlKept ==
    phase = "generated" =>
        (ControlTokens(out) = ControlTokens(Want(Source))
            <=> \A t \in Subtrees(Source) : ~BodyEmpty(t))

\* Otherwise every expression groups in C as it does in Pascal and names the same
\* objects, with an & and a %d for each argument that needs one, exactly when no part
\* of the source is in the list above: there is no further kind of wrong output, and
\* none of the list is harmless.
ExpressionsKept ==
    phase = "generated" /\ (\A t \in Subtrees(Source) : ~BodyEmpty(t)) =>
        (CReading(out) = Want(Source) <=> \A t \in Subtrees(Source) : ~Misprinted(t))

\* Code generation has undefined behaviour exactly for a read or write without
\* arguments and a loop variable with a long name, in a statement that is printed.
CrashesExactly ==
    /\ phase = "generated" => \A t \in Reached(Source) : ~Crashes(t)
    /\ phase = "generating" /\ ~Running(heap) => \E t \in Reached(Source) : Crashes(t)
=============================================================================
