------------------------------- MODULE Parser -------------------------------
(***************************************************************************)
(* pascal.y: the semantic actions of the productions, on the heap of ast.c. *)
(*                                                                          *)
(* bison's automaton is not modelled: an input is a derivation in the order *)
(* in which an LALR parser meets it, a text where a token with a text is    *)
(* shifted and a production where it is reduced.  `values` is the semantic  *)
(* stack without the tokens that have no value.                             *)
(***************************************************************************)
EXTENDS AstHeap

CONSTANT Inputs     \* derivations

VARIABLES
    heap,
    input,      \* the derivation
    at,         \* how much of it the parser has seen
    values,     \* the semantic stack
    meant,      \* history: what the values on the stack stand for, and the program at last
    root,       \* the C global
    new_types,  \* the names of type declarations, a UT_array
    phase       \* "parse", "accepted", "rejected"

pvars == <<heap, input, at, values, meant, root, new_types, phase>>

Token(text)   == [text |-> text, prod |-> ""]
Reduce(prod)  == [text |-> NoText, prod |-> prod]

-----------------------------------------------------------------------------
(* The productions.  A position counts the symbols that have a value. *)

Str(key, position) == [op |-> "str", key |-> key, position |-> position, text |-> NoText]
Sub(key, position) == [op |-> "sub", key |-> key, position |-> position, text |-> NoText]
Lit(key, text)     == [op |-> "lit", key |-> key, position |-> 0, text |-> text]

\* A production that makes a node; its parts are attributes in the order of the calls.
Node(type, arity, parts) ==
    [shape |-> "node", type |-> type, arity |-> arity, parts |-> parts, key |-> ""]

\* x_list: x x_list_ makes a LIST node, x_list_: , x x_list_ an attribute in front
\* of the rest.
ListOf(type, key) == [shape |-> "list", type |-> type, arity |-> 2, parts |-> <<>>, key |-> key]
RestOf(key)       == [shape |-> "rest", type |-> "", arity |-> 2, parts |-> <<>>, key |-> key]

ListForms ==
    [idlist             |-> ListOf("IDLIST", "ID"),
     idlist_            |-> RestOf("ID"),
     const_declaration  |-> ListOf("CONST_DECLARATION_LIST", "CONST_DECLARATION"),
     const_declaration_ |-> RestOf("CONST_DECLARATION"),
     type_declaration   |-> ListOf("TYPE_DECLARATION_LIST", "TYPE_DEFINE"),
     type_declaration_  |-> RestOf("TYPE_DEFINE"),
     var_declaration    |-> ListOf("VAR_DECLARATION_LIST", "VAR_DECLARATION"),
     var_declaration_   |-> RestOf("VAR_DECLARATION"),
     period_list        |-> ListOf("PERIOD_LIST", "PERIOD"),
     period_list_       |-> RestOf("PERIOD"),
     subprogram_declarations  |-> ListOf("SUBPROGRAM_DECLARATIONS_LIST", "SUBPROGRAM"),
     subprogram_declarations_ |-> RestOf("SUBPROGRAM"),
     parameter_list     |-> ListOf("PARAMETER_LIST", "PARAMETER"),
     parameter_list_    |-> RestOf("PARAMETER"),
     statement_list     |-> ListOf("STATEMENT_LIST", "STATEMENT"),
     statement_list_    |-> RestOf("STATEMENT"),
     expression_list    |-> ListOf("EXPRESSION_LIST", "EXPRESSION"),
     expression_list_   |-> RestOf("EXPRESSION")]

Declarations ==
    [program_head       |-> Node("PROGRAM_HEAD", 1, <<Str("ID", 1)>>),
     program_head_files |-> Node("PROGRAM_HEAD", 2, <<Str("ID", 1), Sub("IDLIST", 2)>>),
     program_body       |-> Node("PROGRAM_BODY", 5,
                               <<Sub("CONST_DECLARATIONS", 1), Sub("TYPE_DECLARATIONS", 2),
                                 Sub("VAR_DECLARATIONS", 3),
                                 Sub("SUBPROGRAM_DECLARATIONS_LIST", 4),
                                 Sub("COMPOUND_STATEMENT", 5)>>),
     const_declarations |-> Node("CONST_DECLARATIONS", 1, <<Sub("CONST_DECLARATION_LIST", 1)>>),
     const_define       |-> Node("CONST_DECLARATION", 2, <<Str("ID", 1), Sub("CONST_VALUE", 2)>>),
     const_num          |-> Node("CONST_VALUE", 1, <<Str("T_NUM", 1)>>),
     const_minus        |-> Node("CONST_VALUE", 1, <<Str("T_MINUS", 1)>>),
     const_letter       |-> Node("CONST_VALUE", 1, <<Str("T_LETTER", 1)>>),
     type_declarations  |-> Node("TYPE_DECLARATIONS", 1, <<Sub("TYPE_DECLARATION_LIST", 1)>>),
     type_record        |-> Node("RECORD", 2, <<Str("ID", 1), Sub("TYPE_RECORD_DECLARATION", 2)>>),
     type_array         |-> Node("ARRAY", 3, <<Str("ID", 1), Str("BASIC_TYPE", 3),
                                               Sub("PERIOD_LIST", 2)>>),
     var_declarations   |-> Node("VAR_DECLARATIONS", 1, <<Sub("VAR_DECLARATION_LIST", 1)>>),
     var_assign         |-> Node("VAR_DECLARATION", 2, <<Sub("IDLIST", 1), Sub("TYPE", 2)>>),
     type               |-> Node("TYPE", 1, <<Str("BASIC_TYPE", 1)>>),
     period             |-> Node("PERIOD", 2, <<Str("PERIOD_BEGIN", 1), Str("PERIOD_END", 2)>>)]

Subprograms ==
    [subprogram         |-> Node("SUBPROGRAM", 2, <<Sub("SUBPROGRAM_HEAD", 1),
                                                    Sub("SUBPROGRAM_BODY", 2)>>),
     procedure_head     |-> Node("SUBPROGRAM_HEAD", 2, <<Str("ID", 1), Sub("FORMAL_PARAMETER", 2)>>),
     function_head      |-> Node("SUBPROGRAM_HEAD", 3, <<Str("ID", 1), Sub("FORMAL_PARAMETER", 2),
                                                         Str("BASIC_TYPE", 3)>>),
     formal_parameter   |-> Node("FORMAL_PARAMETER", 1, <<Sub("PARAMETER_LIST", 1)>>),
     parameter_var      |-> Node("PARAMETER", 1, <<Sub("VAR_PARAMETER", 1)>>),
     parameter_value    |-> Node("PARAMETER", 1, <<Sub("VALUE_PARAMETER", 1)>>),
     var_parameter      |-> Node("VAR_PARAMETER", 1, <<Sub("VALUE_PARAMETER", 1)>>),
     value_parameter    |-> Node("VALUE_PARAMETER", 2, <<Sub("IDLIST", 1), Str("BASIC_TYPE", 2)>>),
     subprogram_body    |-> Node("SUBPROGRAM_BODY", 4,
                               <<Sub("CONST_DECLARATIONS", 1), Sub("TYPE_DECLARATIONS", 2),
                                 Sub("VAR_DECLARATIONS", 3), Sub("COMPOUND_STATEMENT", 4)>>)]

\* The lexer never yields T_READ or T_WRITE: their productions are not reached.
Statements ==
    [compound_statement |-> Node("COMPOUND_STATEMENT", 1, <<Sub("STATEMENT_LIST", 1)>>),
     assignment         |-> Node("STATEMENT", 2, <<Lit("TYPE", "ASSIGNMENT"), Sub("VARIABLE", 1),
                                                   Sub("EXPRESSION", 2)>>),
     call_statement     |-> Node("STATEMENT", 1, <<Lit("TYPE", "PROCEDURE_CALL"),
                                                   Sub("PROCEDURE_CALL", 1)>>),
     block_statement    |-> Node("STATEMENT", 1, <<Sub("COMPOUND_STATEMENT", 1)>>),
     if_statement       |-> Node("STATEMENT", 3, <<Lit("TYPE", "IF"), Sub("EXPRESSION", 1),
                                                   Sub("STATEMENT", 2), Sub("ELSE_PART", 3)>>),
     for_statement      |-> Node("STATEMENT", 4, <<Lit("TYPE", "FOR"), Str("ID", 1),
                                                   Sub("EXPRESSION_BEGIN", 2),
                                                   Sub("EXPRESSION_END", 3), Sub("STATEMENT", 4)>>),
     while_statement    |-> Node("STATEMENT", 2, <<Lit("TYPE", "WHILE"), Sub("EXPRESSION", 1),
                                                   Sub("STATEMENT", 2)>>),
     else_part          |-> Node("ELSE_PART", 1, <<Sub("STATEMENT", 1)>>),
     procedure_call     |-> Node("PROCEDURE_CALL", 1, <<Str("ID", 1)>>),
     procedure_call_args |-> Node("PROCEDURE_CALL", 2, <<Str("ID", 1), Sub("EXPRESSION_LIST", 2)>>)]

Expressions ==
    [variable           |-> Node("VARIABLE", 2, <<Str("ID", 1), Sub("ID_VARPART", 2)>>),
     variable_member    |-> Node("VARIABLE", 2, <<Str("ID", 1), Str("MEMBER", 2)>>),
     id_varpart         |-> Node("ID_VARPART", 1, <<Sub("EXPRESSION_LIST", 1)>>),
     expression_relop   |-> Node("EXPRESSION", 3, <<Sub("SIMPLE_EXPRESSION_HEAD", 1),
                                                    Sub("RELOP", 2),
                                                    Sub("SIMPLE_EXPRESSION_TAIL", 3)>>),
     expression         |-> Node("EXPRESSION", 1, <<Sub("SIMPLE_EXPRESSION", 1)>>),
     simple_addop       |-> Node("SIMPLE_EXPRESSION", 3, <<Sub("SIMPLE_EXPRESSION", 1),
                                                           Sub("ADDOP", 2), Sub("TERM", 3)>>),
     simple_expression  |-> Node("SIMPLE_EXPRESSION", 1, <<Sub("TERM", 1)>>),
     term_mulop         |-> Node("TERM", 3, <<Sub("TERM", 1), Sub("MULOP", 2), Sub("FACTOR", 3)>>),
     term               |-> Node("TERM", 1, <<Sub("FACTOR", 1)>>),
     factor_num         |-> Node("FACTOR", 1, <<Str("NUM", 1)>>),
     factor_variable    |-> Node("FACTOR", 1, <<Sub("VARIABLE", 1)>>),
     factor_call        |-> Node("FACTOR", 2, <<Str("ID", 1), Sub("EXPRESSION_LIST", 2)>>),
     factor_paren       |-> Node("FACTOR", 1, <<Sub("EXPRESSION", 1)>>),
     factor_not         |-> Node("FACTOR", 1, <<Lit("TYPE", "T_NOT"), Sub("FACTOR", 1)>>),
     factor_minus       |-> Node("FACTOR", 1, <<Lit("TYPE", "T_MINUS"), Sub("FACTOR", 1)>>)]

\* relop, addop and mulop: a node without attributes.
Operators ==
    [op \in {"RELOP_CGT", "RELOP_CLT", "RELOP_CEQ", "RELOP_CNE", "RELOP_CGE", "RELOP_CLE",
             "ADDOP_PLUS", "ADDOP_MINUS", "ADDOP_OR",
             "MULOP_AND", "MULOP_MOD", "MULOP_DIV", "MULOP_MUL"} |-> Node(op, 0, <<>>)]

\* The alternatives with $$ = NULL, and the start symbol.
Others ==
    [empty          |-> [Node("", 0, <<>>) EXCEPT !.shape = "empty"],
     program_struct |-> [Node("PROGRAM_STRUCT", 2, <<Sub("PROGRAM_HEAD", 1)>>)
                            EXCEPT !.shape = "program"]]

\* The alternatives of g after those of f.
Or(f, g) == [x \in DOMAIN f \cup DOMAIN g |-> IF x \in DOMAIN f THEN f[x] ELSE g[x]]

Production ==
    Or(Expressions, Or(Statements, Or(ListForms, Or(Operators, Or(Declarations,
       Or(Subprograms, Others))))))

-----------------------------------------------------------------------------
(* Derivations, by the kinds of the values (%union, %type) *)

Gives(p) ==
    CASE p.shape = "empty" -> "null"
      [] p.shape = "rest" -> "attr"
      [] OTHER -> "node"

\* The elements of lists: only a statement can be empty.
ElementKinds(key) ==
    CASE key = "ID" -> {"text"}
      [] key = "STATEMENT" -> {"node", "null"}
      [] OTHER -> {"node"}

Takes(p, kinds) ==
    /\ \A i \in DOMAIN p.parts :
          /\ p.parts[i].op = "str" => kinds[p.parts[i].position] = "text"
          /\ p.parts[i].op = "sub" => kinds[p.parts[i].position] \in {"node", "null"}
    /\ p.shape \in {"list", "rest"} =>
          kinds[1] \in ElementKinds(p.key) /\ kinds[2] \in {"attr", "null"}
    /\ p.shape = "program" => kinds[2] = "node"

Upper(stack, n) == SubSeq(stack, Len(stack) - n + 1, Len(stack))
Lower(stack, n) == SubSeq(stack, 1, Len(stack) - n)

\* The kinds of the values on the stack after k items of d.
Kinds(d) ==
    LET kinds[k \in 0..Len(d)] ==
            IF k = 0 THEN <<>>
            ELSE LET p == Production[d[k].prod]
                     stack == kinds[k - 1]
                 IN  IF d[k].prod = "" THEN Append(stack, "text")
                     ELSE Append(Lower(stack, p.arity), Gives(p))
    IN  kinds

\* The right-hand side of each production is on the stack when it is reduced, and the
\* start symbol is on no right-hand side.
IsDerivation(d) ==
    /\ d \in Seq([text : Word \cup {NoText}, prod : DOMAIN Production \cup {""}])
    /\ \A k \in DOMAIN d :
          IF d[k].prod = "" THEN d[k].text \in Word
          ELSE LET p == Production[d[k].prod]
                   stack == Kinds(d)[k - 1]
               IN  /\ p.arity <= Len(stack)
                   /\ Takes(p, Upper(stack, p.arity))
                   /\ p.shape = "program" => k = Len(d)

ASSUME InputsAssumption == \A d \in Inputs : IsDerivation(d)

ASSUME ProductionAssumption ==
    /\ "PROGRAM" \in Type
    /\ \A x \in DOMAIN Production :
          /\ Production[x].shape \in {"node", "list", "program"} => Production[x].type \in Type
          /\ Production[x].shape \in {"list", "rest"} => Production[x].key \in Key
          /\ \A i \in DOMAIN Production[x].parts :
                /\ Production[x].parts[i].key \in Key
                /\ Production[x].parts[i].op = "lit" => Production[x].parts[i].text \in Word

-----------------------------------------------------------------------------
(* The semantic actions *)

Text(t)    == [kind |-> "text", text |-> t, ref |-> Nil]
NodeAt(n)  == [kind |-> "node", text |-> NoText, ref |-> n]
AttrAt(a)  == [kind |-> "attr", text |-> NoText, ref |-> a]
NULL       == [kind |-> "null", text |-> NoText, ref |-> Nil]

AddPart(h, n, part, args) ==
    CASE part.op = "str" -> ast_node_set_attr_str(h, n, part.key, args[part.position].text)
      [] part.op = "lit" -> ast_node_set_attr_str(h, n, part.key, part.text)
      [] part.op = "sub" -> ast_node_attr_node_append(h, n, part.key, args[part.position].ref)

AddParts(h, n, parts, args) ==
    LET after[k \in 0..Len(parts)] ==
            IF k = 0 THEN h
            ELSE LET g == after[k - 1]
                 IN  IF Running(g) THEN AddPart(g, n, parts[k], args) ELSE g
    IN  after[Len(parts)]

\* The attribute for one element of a list.
Element(h, key, element) ==
    IF element.kind = "text" THEN ast_node_attr_create_str(h, key, element.text)
    ELSE ast_node_attr_create_node(h, key, element.ref)

Follow(h, a, rest) == IF Running(h) THEN ast_node_attr_append(h, a, rest.ref) ELSE h

\* Mutant: the rest of the list is attached to the node instead of the element.
MakeListOverwritten(h, p, args) ==
    LET node == ast_node_create(h, p.type)
        elem == Element(node, p.key, args[1])
        rest == IF args[2].ref = Nil THEN NewAttr(elem) ELSE args[2].ref
    IN  IF Running(elem) THEN set_first_attr(elem, NewNode(node), rest) ELSE elem

\* Mutant: first_attr is assigned the rest of the list.
MakeListRestOnly(h, p, args) ==
    LET node == ast_node_create(h, p.type)
        elem == Element(node, p.key, args[1])
    IN  IF Running(elem) THEN set_first_attr(elem, NewNode(node), args[2].ref) ELSE elem

MakeList(h, p, args) ==
    LET node == ast_node_create(h, p.type)
        elem == Element(node, p.key, args[1])
    IN  IF Running(elem)
        THEN Follow(set_first_attr(elem, NewNode(node), NewAttr(elem)), NewAttr(elem), args[2])
        ELSE elem

MakeRest(h, p, args) ==
    LET elem == Element(h, p.key, args[1]) IN Follow(elem, NewAttr(elem), args[2])

MakeNode(h, p, args) ==
    LET node == ast_node_create(h, p.type) IN AddParts(node, NewNode(node), p.parts, args)

append_array_type(types, name) == Append(types, name)

-----------------------------------------------------------------------------
(* What a derivation means, without a heap: a tree is a record of its type   *)
(* and its fields in order; a list in the making has the type "rest".        *)

Leaf(t)           == [text |-> t, type |-> "text", fields |-> <<>>]
Nothing           == [text |-> NoText, type |-> "null", fields |-> <<>>]
TreeOf(type, fields) == [text |-> NoText, type |-> type, fields |-> fields]

Field(key, value) == [key |-> key, text |-> value.text,
                      nodes |-> IF value.type = "text" THEN <<>> ELSE <<value>>]

\* A part whose value is NULL makes no field.
PartFields(part, args) ==
    CASE part.op = "lit" -> <<Field(part.key, Leaf(part.text))>>
      [] part.op # "lit" /\ args[part.position] = Nothing -> <<>>
      [] OTHER -> <<Field(part.key, args[part.position])>>

NodeFields(p, args) ==
    FoldLeft(LAMBDA fields, part : fields \o PartFields(part, args), <<>>, p.parts)

MeaningOf(p, args) ==
    CASE p.shape = "empty" -> Nothing
      [] p.shape = "node" -> TreeOf(p.type, NodeFields(p, args))
      [] p.shape = "list" -> TreeOf(p.type, <<Field(p.key, args[1])>> \o args[2].fields)
      [] p.shape = "rest" -> TreeOf("rest", <<Field(p.key, args[1])>> \o args[2].fields)
      [] p.shape = "program" -> TreeOf(p.type, NodeFields(p, args) \o args[2].fields)

-----------------------------------------------------------------------------
(* The parser *)

Item == input[at + 1]
P    == Production[Item.prod]
Args == Upper(values, P.arity)
Below == Lower(values, P.arity)
MeantArgs  == Upper(meant, P.arity)
MeantBelow == Lower(meant, P.arity)

Parsing == phase = "parse" /\ Running(heap)

Reducing(shape) ==
    /\ Parsing
    /\ at < Len(input)
    /\ Item.prod # ""
    /\ P.shape = shape
    /\ at' = at + 1
    /\ meant' = Append(MeantBelow, MeaningOf(P, MeantArgs))
    /\ UNCHANGED <<input, phase>>

\* main makes a placeholder for the root before it parses.
ParserInit ==
    /\ heap = ast_node_create(EmptyHeap, "PROGRAM")
    /\ root = 1
    /\ input \in Inputs
    /\ at = 0
    /\ values = <<>>
    /\ meant = <<>>
    /\ new_types = <<>>
    /\ phase = "parse"

Shift ==
    /\ Parsing
    /\ at < Len(input)
    /\ Item.prod = ""
    /\ at' = at + 1
    /\ values' = Append(values, Text(Item.text))
    /\ meant' = Append(meant, Leaf(Item.text))
    /\ UNCHANGED <<heap, input, root, new_types, phase>>

ReduceNode ==
    /\ Reducing("node")
    /\ heap' = MakeNode(heap, P, Args)
    /\ values' = Append(Below, NodeAt(NewNode(heap) + 1))
    /\ new_types' = IF P.type \in {"ARRAY", "RECORD"}
                    THEN append_array_type(new_types, Args[1].text) ELSE new_types
    /\ UNCHANGED root

ReduceList ==
    /\ Reducing("list")
    /\ heap' = MakeList(heap, P, Args)
    /\ values' = Append(Below, NodeAt(NewNode(heap) + 1))
    /\ UNCHANGED <<root, new_types>>

ReduceRest ==
    /\ Reducing("rest")
    /\ heap' = MakeRest(heap, P, Args)
    /\ values' = Append(Below, AttrAt(NewAttr(heap) + 1))
    /\ UNCHANGED <<root, new_types>>

ReduceEmpty ==
    /\ Reducing("empty")
    /\ values' = Append(values, NULL)
    /\ UNCHANGED <<heap, root, new_types>>

\* Mutant: the body is not joined to the program.
ReduceProgramHeadOnly ==
    /\ Reducing("program")
    /\ heap' = MakeNode(heap, P, Args)
    /\ root' = NewNode(heap')
    /\ values' = Below
    /\ UNCHANGED new_types

\* The attributes of the body are moved to the new node, the body is destroyed.
ReduceProgram ==
    /\ Reducing("program")
    /\ LET node == MakeNode(heap, P, Args)
       IN  /\ heap' = ast_node_extend(node, NewNode(node), Args[2].ref)
           /\ root' = NewNode(node)
    /\ values' = Below
    /\ UNCHANGED new_types

\* A syntax error can come before any token, also after the final dot.  The
\* values on the stack are not freed.
SyntaxError ==
    /\ Parsing
    /\ phase' = "rejected"
    /\ values' = <<>>
    /\ UNCHANGED <<heap, input, at, meant, root, new_types>>

Accept ==
    /\ Parsing
    /\ at = Len(input)
    /\ phase' = "accepted"
    /\ UNCHANGED <<heap, input, at, values, meant, root, new_types>>

ParserNext ==
    \/ Shift \/ ReduceNode \/ ReduceList \/ ReduceRest \/ ReduceEmpty \/ ReduceProgram
    \/ SyntaxError \/ Accept

ParserSpec == ParserInit /\ [][ParserNext]_pvars

-----------------------------------------------------------------------------
(* Properties *)

\* Every node but the placeholder is in one place: on the stack, the root, or in one
\* attribute; every attribute is on the stack or in one list.  So each production
\* keeps the obligations of AstClient.
EveryObjectOnce ==
    Parsing =>
        /\ \A n \in 2..Len(heap.node) :
              Cardinality({a \in DOMAIN heap.attr : heap.attr[a].node = n})
              + Cardinality({m \in DOMAIN heap.node : heap.node[m].next = n})
              + Cardinality({i \in DOMAIN values : values[i] = NodeAt(n)})
              + (IF root = n THEN 1 ELSE 0) = (IF heap.node[n].live THEN 1 ELSE 0)
        /\ \A a \in DOMAIN heap.attr :
              Cardinality({b \in DOMAIN heap.attr : heap.attr[b].next = a})
              + Cardinality({n \in DOMAIN heap.node : heap.node[n].first = a})
              + Cardinality({i \in DOMAIN values : values[i] = AttrAt(a)}) = 1

\* The only production that does not return is a statement list with an empty
\* statement as an element (ast_node_attr_create_node asserts); an empty statement
\* after THEN, ELSE or DO is accepted.
AbortsOnEmptyElement ==
    ~Running(heap) =>
        /\ heap.status = "aborted"
        /\ input[at].prod \in {"statement_list", "statement_list_"}
        /\ Last(meant).fields[1].nodes = <<Nothing>>
=============================================================================
