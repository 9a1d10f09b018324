------------------------------ MODULE AstHeap ------------------------------
(***************************************************************************)
(* ast.c: the nodes and attributes of a syntax tree as C objects that point *)
(* at each other.  The operators carry the names of the C functions: each   *)
(* takes a heap and gives the heap after the call.                          *)
(*                                                                          *)
(* heap.node and heap.attr hold the objects in the order of their malloc,   *)
(* a pointer is a position in one of them and 0 is NULL.  An address is not *)
(* used again after free, so a use after free is visible.                   *)
(*                                                                          *)
(* ASTNode.prev is left out: malloc'ed nodes get NULL and no function       *)
(* assigns it afterwards; what DL_DELETE makes of a NULL prev is modelled.  *)
(***************************************************************************)
EXTENDS Integers, Sequences, FiniteSets, SequencesExt

CONSTANTS
    Type,       \* the types of nodes
    Key,        \* the keys of attributes
    Word        \* the texts and integers they may hold

Nil == 0
Shared == "&value"      \* the address of the static int of ast_node_attr_create_integer

\* Answers of the getters: no text, and a failed assertion or a wild pointer.
NoText    == ""
CrashText == "crash"
CrashNode == -1

AttrKind == {"CONST_STRING", "STRING", "INTEGER", "AST_NODE"}

\* struct ASTNode and struct ASTNodeAttr.
NodeRecord == [type : Type, first : Nat, next : Nat, live : BOOLEAN]
AttrRecord == [key : Key, kind : AttrKind, text : Word \cup {NoText, Shared},
               node : Nat, next : Nat, live : BOOLEAN]

EmptyHeap == [node |-> <<>>, attr |-> <<>>, cell |-> NoText, status |-> "running"]

Running(h)   == h.status = "running"
Abort(h)     == [h EXCEPT !.status = "aborted"]     \* an assert fails
Undefined(h) == [h EXCEPT !.status = "undefined"]   \* undefined behaviour

-----------------------------------------------------------------------------
(* Lists linked by `next` (utlist.h).  objs is heap.node or heap.attr. *)

\* LL_FOREACH: the elements of the list that starts at p.
Chain(objs, p) ==
    LET from[q \in 0..Len(objs)] ==
            IF q = Nil THEN <<>> ELSE <<q>> \o from[objs[q].next]
    IN  from[p]

\* Mutant: the second list takes the place of the tail of the first.
LL_CONCAT_second(objs, head, add) ==
    IF head = Nil THEN [objs |-> objs, head |-> add]
    ELSE [objs |-> [objs EXCEPT ![head].next = add], head |-> head]

LL_CONCAT(objs, head, add) ==
    IF head = Nil THEN [objs |-> objs, head |-> add]
    ELSE [objs |-> [objs EXCEPT ![Last(Chain(objs, head))].next = add], head |-> head]

LL_APPEND(objs, head, add) == LL_CONCAT([objs EXCEPT ![add].next = Nil], head, add)

-----------------------------------------------------------------------------
(* Attributes *)

Attrs(h, n) == Chain(h.attr, h.node[n].first)

\* The newest objects.
NewNode(h) == Len(h.node)
NewAttr(h) == Len(h.attr)

ast_node_create(h, type) ==
    [h EXCEPT !.node = Append(@, [type |-> type, first |-> Nil, next |-> Nil, live |-> TRUE])]

create_attr(h, key, kind, text, node) ==
    [h EXCEPT !.attr = Append(@, [key |-> key, kind |-> kind, text |-> text, node |-> node,
                                  next |-> Nil, live |-> TRUE])]

ast_node_attr_create_str(h, key, str)       == create_attr(h, key, "STRING", str, Nil)
ast_node_attr_create_const_str(h, key, val) == create_attr(h, key, "CONST_STRING", val, Nil)

ast_node_attr_create_integer(h, key, val) ==
    [create_attr(h, key, "INTEGER", Shared, Nil) EXCEPT !.cell = val]

\* Mutant: NULL is accepted.
ast_node_attr_create_node_unchecked(h, key, node) ==
    create_attr(h, key, "AST_NODE", NoText, node)

ast_node_attr_create_node(h, key, node) ==
    IF node = Nil THEN Abort(h) ELSE create_attr(h, key, "AST_NODE", NoText, node)

ast_node_attach_attr(h, n, a) ==
    LET list == LL_APPEND(h.attr, h.node[n].first, a)
    IN  [h EXCEPT !.attr = list.objs, !.node[n].first = list.head]

\* node->first_attr = attr, as the productions for lists write it.
set_first_attr(h, n, a) == [h EXCEPT !.node[n].first = a]

\* attr->next = sub_attr: the name says append, the code replaces.
ast_node_attr_append(h, a, sub) == [h EXCEPT !.attr[a].next = sub]

\* The positions in the list of n where an attribute has the key.
Matches(h, n, key) ==
    LET list == Attrs(h, n) IN {i \in DOMAIN list : h.attr[list[i]].key = key}

\* Mutant: the last attribute with the key answers.
ast_node_get_attr_last(h, n, key) ==
    IF Matches(h, n, key) = {} THEN Nil ELSE Attrs(h, n)[Max(Matches(h, n, key))]

ast_node_get_attr(h, n, key) ==
    IF Matches(h, n, key) = {} THEN Nil ELSE Attrs(h, n)[Min(Matches(h, n, key))]

-----------------------------------------------------------------------------
(* Set, get *)

\* An attribute that exists is overwritten if it has the kind; sds_free of the
\* string it held passes to free() an address inside the allocated block.
ast_node_set_attr_str(h, n, key, value) ==
    LET a == ast_node_get_attr(h, n, key) IN
    CASE a = Nil ->
            LET made == ast_node_attr_create_str(h, key, value)
            IN  ast_node_attach_attr(made, n, NewAttr(made))
      [] a # Nil /\ h.attr[a].kind = "STRING" -> Undefined(h)
      [] OTHER -> Abort(h)

ast_node_set_attr_const_str(h, n, key, value) ==
    LET a == ast_node_get_attr(h, n, key) IN
    CASE a = Nil ->
            LET made == ast_node_attr_create_const_str(h, key, value)
            IN  ast_node_attach_attr(made, n, NewAttr(made))
      [] a # Nil /\ h.attr[a].kind = "CONST_STRING" -> [h EXCEPT !.attr[a].text = value]
      [] OTHER -> Abort(h)

\* Mutant: a later value is written to where the address points.
ast_node_set_attr_integer_through(h, n, key, value) ==
    LET a == ast_node_get_attr(h, n, key) IN
    CASE a = Nil ->
            LET made == ast_node_attr_create_integer(h, key, value)
            IN  ast_node_attach_attr(made, n, NewAttr(made))
      [] a # Nil /\ h.attr[a].kind = "INTEGER" -> [h EXCEPT !.cell = value]
      [] OTHER -> Abort(h)

\* The first value goes to the shared cell, a later one replaces the address.
ast_node_set_attr_integer(h, n, key, value) ==
    LET a == ast_node_get_attr(h, n, key) IN
    CASE a = Nil ->
            LET made == ast_node_attr_create_integer(h, key, value)
            IN  ast_node_attach_attr(made, n, NewAttr(made))
      [] a # Nil /\ h.attr[a].kind = "INTEGER" -> [h EXCEPT !.attr[a].text = value]
      [] OTHER -> Abort(h)

ast_node_get_attr_str_value(h, n, key) ==
    LET a == ast_node_get_attr(h, n, key) IN
    CASE a = Nil -> NoText
      [] a # Nil /\ h.attr[a].kind = "STRING" -> h.attr[a].text
      [] OTHER -> CrashText

ast_node_get_attr_node_value(h, n, key) ==
    LET a == ast_node_get_attr(h, n, key) IN
    CASE a = Nil -> Nil
      [] a # Nil /\ h.attr[a].kind = "AST_NODE" -> h.attr[a].node
      [] OTHER -> CrashNode

ast_node_get_attr_integer_value(h, n, key) ==
    LET a == ast_node_get_attr(h, n, key) IN
    IF a # Nil /\ h.attr[a].kind = "INTEGER" /\ h.attr[a].text = Shared THEN h.cell
    ELSE CrashText

-----------------------------------------------------------------------------
(* Nodes in attributes, joining, destroying *)

\* Mutant: the siblings are replaced by the new one.
ast_node_attr_node_append_only(h, n, key, sub) ==
    LET a == ast_node_get_attr(h, n, key) IN
    CASE sub = Nil -> h
      [] sub # Nil /\ a = Nil ->
            LET made == ast_node_attr_create_node(h, key, sub)
            IN  ast_node_attach_attr(made, n, NewAttr(made))
      [] OTHER -> [h EXCEPT !.attr[a].node = sub]

\* Mutant: NULL is refused instead of ignored.
ast_node_attr_node_append_strict(h, n, key, sub) ==
    IF sub = Nil THEN Abort(h) ELSE ast_node_attr_node_append_only(h, n, key, sub)

\* The assertion that sub is not attached looks at sub->next (and prev): a node
\* that is the last of its siblings, or the only one, passes it.
ast_node_attr_node_append(h, n, key, sub) ==
    LET a == ast_node_get_attr(h, n, key) IN
    CASE sub = Nil -> h
      [] sub # Nil /\ h.node[sub].next # Nil -> Abort(h)
      [] sub # Nil /\ h.node[sub].next = Nil /\ a = Nil ->
            LET made == ast_node_attr_create_node(h, key, sub)
            IN  ast_node_attach_attr(made, n, NewAttr(made))
      [] OTHER ->
            IF h.attr[a].kind # "AST_NODE" THEN Abort(h)
            ELSE [h EXCEPT !.node = LL_APPEND(h.node, h.attr[a].node, sub).objs]

\* A node held by an attribute has prev = NULL, so DL_DELETE asserts; sdsfree is
\* given the attribute instead of the string.
ast_node_attr_destroy(h, a) ==
    CASE h.attr[a].next # Nil -> Abort(h)
      [] h.attr[a].next = Nil /\ h.attr[a].kind = "AST_NODE" -> Abort(h)
      [] h.attr[a].next = Nil /\ h.attr[a].kind = "STRING" -> Undefined(h)
      [] OTHER -> [h EXCEPT !.attr[a].live = FALSE]

\* LL_DELETE takes the first attribute out of the list but leaves its next, so a
\* second attribute makes the first fail the assertion of ast_node_attr_destroy.
ast_node_destroy(h, n) ==
    LET first == h.node[n].first
        gone  == IF first = Nil THEN h ELSE ast_node_attr_destroy(h, first)
    IN  CASE h.node[n].next # Nil -> Abort(h)
          [] h.node[n].next = Nil /\ Running(gone) ->
                [gone EXCEPT !.node[n].live = FALSE, !.node[n].first = Nil]
          [] OTHER -> gone

ast_node_extend(h, origin, extended) ==
    LET list == LL_CONCAT(h.attr, h.node[origin].first, h.node[extended].first)
    IN  ast_node_destroy([h EXCEPT !.attr = list.objs, !.node[origin].first = list.head,
                                   !.node[extended].first = Nil], extended)
=============================================================================
