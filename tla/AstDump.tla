------------------------------ MODULE AstDump ------------------------------
(***************************************************************************)
(* ast_node_dump_json of ast.c: the text of step0.json as a sequence of     *)
(* tokens.  "name" is the name of a member with its colon, "value" a string *)
(* or null; positions and escapes are left out.  The members' names are     *)
(* compared by the property that needs them.                                *)
(***************************************************************************)
EXTENDS AstHeap

\* The node types that strstr finds "LIST" in.
ListType ==
    {"IDLIST", "CONST_DECLARATION_LIST", "TYPE_DECLARATION_LIST", "VAR_DECLARATION_LIST",
     "PERIOD_LIST", "SUBPROGRAM_DECLARATIONS_LIST", "PARAMETER_LIST", "STATEMENT_LIST",
     "VARIABLE_LIST", "EXPRESSION_LIST"}

RECURSIVE DumpMember(_, _), DumpMembers(_, _), DumpElements(_, _), DumpNodes(_, _)

\* Mutant: a comma after the last one too.
CommaAlways(p) == <<",">>

Comma(p) == IF p = Nil THEN <<>> ELSE <<",">>

\* _ast_node_attr_dump_fp for one attribute.
DumpMember(h, a) ==
    <<"name">> \o
    IF h.attr[a].kind = "AST_NODE" THEN DumpNodes(h, h.attr[a].node) ELSE <<"value">>

\* The attributes from a on, with commas between them.
DumpMembers(h, a) ==
    IF a = Nil THEN <<>>
    ELSE DumpMember(h, a) \o Comma(h.attr[a].next) \o DumpMembers(h, h.attr[a].next)

\* { "type": t, "attrs": members }
DumpObject(members) ==
    <<"{", "name", "value", ",", "name">>
    \o (IF members = <<>> THEN <<"value">> ELSE <<"{">> \o members \o <<"}">>) \o <<"}">>

\* An object for each attribute from a on.
DumpElements(h, a) ==
    IF a = Nil THEN <<>>
    ELSE DumpObject(DumpMember(h, a)) \o Comma(h.attr[a].next) \o DumpElements(h, h.attr[a].next)

\* A LIST node is an array with an object of its own for each attribute.
DumpNode(h, n) ==
    IF h.node[n].type \in ListType
    THEN <<"[">> \o DumpElements(h, h.node[n].first) \o <<"]">>
    ELSE DumpObject(DumpMembers(h, h.node[n].first))

\* Siblings are dumped one after the other, without brackets.
DumpNodes(h, n) ==
    IF n = Nil THEN <<>>
    ELSE DumpNode(h, n) \o Comma(h.node[n].next) \o DumpNodes(h, h.node[n].next)

ast_node_dump_json(h, n) == DumpNodes(h, n)

-----------------------------------------------------------------------------
(* JSON: the position after the value that starts at i, or 0. *)

At(tokens, i) == IF i \in DOMAIN tokens THEN tokens[i] ELSE "end"

RECURSIVE JsonValue(_, _), JsonItems(_, _, _)

\* The items up to the closing bracket; a member of an object starts with its name.
JsonItems(tokens, i, close) ==
    LET named == At(tokens, i) = "name"
        after == IF (close = "}") # named THEN 0
                 ELSE JsonValue(tokens, IF named THEN i + 1 ELSE i)
    IN  CASE after = 0 -> 0
          [] after # 0 /\ At(tokens, after) = "," -> JsonItems(tokens, after + 1, close)
          [] after # 0 /\ At(tokens, after) = close -> after + 1
          [] OTHER -> 0

JsonValue(tokens, i) ==
    CASE At(tokens, i) = "value" -> i + 1
      [] At(tokens, i) = "{" -> JsonItems(tokens, i + 1, "}")
      [] At(tokens, i) = "[" -> IF At(tokens, i + 1) = "]" THEN i + 2
                                ELSE JsonItems(tokens, i + 1, "]")
      [] OTHER -> 0

IsJson(tokens) == JsonValue(tokens, 1) = Len(tokens) + 1
=============================================================================
