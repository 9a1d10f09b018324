----------------------------- MODULE AstClient -----------------------------
(***************************************************************************)
(* A caller of ast.c, as pascal.y and test_ast.c are.  It keeps the nodes   *)
(* (held) and the attributes (loose) it has made and gives each of them     *)
(* away once: the functions do not check that, nor that an attribute that   *)
(* is attached or appended to stands alone, so these are its obligations.   *)
(***************************************************************************)
EXTENDS AstHeap

CONSTANTS
    Text,                   \* texts and integers, in the order of their use
    MaxNodes, MaxAttrs,     \* bounds on the objects ever made, of each kind
    MaxObjects              \* and together

ASSUME ClientAssumption ==
    /\ MaxNodes \in Nat /\ MaxAttrs \in Nat
    /\ Text \in Seq(Word) /\ Len(Text) > MaxAttrs
    /\ {NoText, Shared, CrashText} \cap Word = {}

VARIABLES heap, held, loose

vars == <<heap, held, loose>>

Init ==
    /\ heap = EmptyHeap
    /\ held = {}
    /\ loose = {}

\* A call: the heap after it, and what the caller then holds if it returns.
Call(h, nodes, attrs) ==
    /\ Running(heap)
    /\ Len(h.node) <= MaxNodes /\ Len(h.attr) <= MaxAttrs
    /\ Len(h.node) + Len(h.attr) <= MaxObjects
    /\ heap' = h
    /\ held'  = IF Running(h) THEN nodes ELSE held
    /\ loose' = IF Running(h) THEN attrs ELSE loose

\* A text that tells the attribute made next from the ones made before.
FreshText == Text[Len(heap.attr) + 1]

Alone(a) == heap.attr[a].next = Nil

CreateNode(type) ==
    LET h == ast_node_create(heap, type) IN Call(h, held \cup {NewNode(h)}, loose)

CreateText(key) ==
    \E h \in {ast_node_attr_create_str(heap, key, FreshText),
              ast_node_attr_create_const_str(heap, key, FreshText),
              ast_node_attr_create_integer(heap, key, FreshText)} :
        Call(h, held, loose \cup {NewAttr(h)})

CreateNodeAttr(key, sub) ==
    LET h == ast_node_attr_create_node(heap, key, sub)
    IN  Call(h, held \ {sub}, loose \cup {NewAttr(h)})

SetText(n, key) ==
    \E h \in {ast_node_set_attr_str(heap, n, key, FreshText),
              ast_node_set_attr_const_str(heap, n, key, FreshText),
              ast_node_set_attr_integer(heap, n, key, FreshText)} :
        Call(h, held, loose)

AppendNode(n, key, sub) ==
    /\ sub # n
    /\ Call(ast_node_attr_node_append(heap, n, key, sub), held \ {sub}, loose)

AttachAttr(n, a) ==
    /\ Alone(a)
    /\ Call(ast_node_attach_attr(heap, n, a), held, loose \ {a})

\* The two steps of a production for a list: the first attribute is put in
\* place, then the rest of the list behind it.
SetFirstAttr(n, a) ==
    /\ heap.node[n].first = Nil
    /\ Call(set_first_attr(heap, n, a), held, loose \ {a})

AppendAttr(a, rest) ==
    /\ a # rest
    /\ Alone(a)
    /\ Call(ast_node_attr_append(heap, a, rest), held, loose \ {rest})

Extend(n, m) ==
    /\ m # n
    /\ Call(ast_node_extend(heap, n, m), held \ {m}, loose)

DestroyNode(n) == Call(ast_node_destroy(heap, n), held \ {n}, loose)

DestroyAttr(a) == Call(ast_node_attr_destroy(heap, a), held, loose \ {a})

Next ==
    \/ \E type \in Type : CreateNode(type)
    \/ \E key \in Key :
          CreateText(key) \/ \E n \in held : SetText(n, key)
    \/ \E key \in Key, sub \in held \cup {Nil} :
          CreateNodeAttr(key, sub) \/ \E n \in held : AppendNode(n, key, sub)
    \/ \E n \in held, a \in loose : AttachAttr(n, a) \/ SetFirstAttr(n, a)
    \/ \E n \in held, rest \in loose :
          heap.node[n].first # Nil /\ AppendAttr(heap.node[n].first, rest)
    \/ \E a \in loose, rest \in loose \cup {Nil} : AppendAttr(a, rest)
    \/ \E n, m \in held : Extend(n, m)
    \/ \E n \in held : DestroyNode(n)
    \/ \E a \in loose : DestroyAttr(a)

Spec == Init /\ [][Next]_vars

-----------------------------------------------------------------------------
(* The tree the heap stands for *)

AttributeOf(h, a) ==
    [key |-> h.attr[a].key, kind |-> h.attr[a].kind, text |-> h.attr[a].text,
     nodes |-> Chain(h.node, h.attr[a].node)]

AttributesFrom(h, a) ==
    LET chain == Chain(h.attr, a) IN [i \in DOMAIN chain |-> AttributeOf(h, chain[i])]

LiveNodes == {n \in DOMAIN heap.node : heap.node[n].live}
LiveAttrs == {a \in DOMAIN heap.attr : heap.attr[a].live}

NodeTrees  == [n \in LiveNodes |-> AttributesFrom(heap, heap.node[n].first)]
LooseLists == [a \in loose |-> AttributesFrom(heap, a)]

Tree == INSTANCE AstTree WITH
    Id    <- 1..(MaxNodes + MaxAttrs),
    Value <- Word \cup {NoText, Shared},
    tree  <- NodeTrees,
    list  <- LooseLists

-----------------------------------------------------------------------------
(* Properties *)

TypeOK ==
    /\ heap.node \in Seq(NodeRecord) /\ heap.attr \in Seq(AttrRecord)
    /\ \A a \in DOMAIN heap.attr : heap.attr[a].kind = "AST_NODE" <=> heap.attr[a].node # Nil
    /\ heap.cell \in Word \cup {NoText}
    /\ heap.status \in {"running", "aborted", "undefined"}
    /\ held \subseteq DOMAIN heap.node /\ loose \subseteq DOMAIN heap.attr

\* The pointers to an object, the caller's included.
NodeOwners(n) ==
    Cardinality({m \in LiveNodes : heap.node[m].next = n})
    + Cardinality({a \in LiveAttrs : heap.attr[a].node = n})
    + Cardinality({m \in held : m = n})

AttrOwners(a) ==
    Cardinality({b \in LiveAttrs : heap.attr[b].next = a})
    + Cardinality({n \in LiveNodes : heap.node[n].first = a})
    + Cardinality({b \in loose : b = a})

\* As long as calls return, every object has exactly one owner and a freed one has
\* none: append, concatenation and extend neither share nor lose what they move
\* (LL_APPEND, LL_CONCAT, ast_node_extend), and nothing points to freed memory.
OneOwner ==
    Running(heap) =>
        /\ \A n \in DOMAIN heap.node : NodeOwners(n) = IF heap.node[n].live THEN 1 ELSE 0
        /\ \A a \in DOMAIN heap.attr : AttrOwners(a) = IF heap.attr[a].live THEN 1 ELSE 0

\* ast.c implements sequences of attributes and of nodes: each call that returns
\* makes one step of AstTree, in the order of the calls, and each call that does
\* not return has moved nothing.
ImplementsTree == Tree!TreeSpec

\* What a getter has answered stays the answer until the node is joined to another
\* or destroyed: no later attribute with the same key, append or extend hides it
\* (ast_node_get_attr takes the first match).
AnswersStable ==
    [][\A n \in held \cap held', key \in Key :
          LET text == ast_node_get_attr_str_value(heap, n, key)
              node == ast_node_get_attr_node_value(heap, n, key)
          IN  /\ text # NoText => ast_node_get_attr_str_value(heap', n, key) = text
              /\ node # Nil => ast_node_get_attr_node_value(heap', n, key) = node]_vars

\* The value that the integer getter answers for a node is lost in two ways and no other:
\* making an integer attribute, for any node or for none, puts the new value in the place
\* of every other, since all share one static int; and setting the attribute itself a
\* second time puts the value in the place of the address that the getter follows.
IntegersShared ==
    [][\A n \in held \cap held', key \in Key :
          LET a      == ast_node_get_attr(heap, n, key)
              before == ast_node_get_attr_integer_value(heap, n, key)
              after  == ast_node_get_attr_integer_value(heap', n, key)
              made   == {b \in DOMAIN heap'.attr \ DOMAIN heap.attr : heap'.attr[b].kind = "INTEGER"}
          IN  before # CrashText =>
                  after = IF heap'.attr[a].text # heap.attr[a].text THEN CrashText
                          ELSE IF made # {} THEN FreshText ELSE before]_vars

\* ast.h:71-74 says of ast_node_destroy that it frees the node with its
\* sub-objects and attributes: for every node that is not attached, it returns
\* and they are gone.
DestroyFrees ==
    Running(heap) =>
        \A n \in held :
            LET h == ast_node_destroy(heap, n)
            IN  /\ Running(h)
                /\ ~h.node[n].live
                /\ \A a \in ToSet(Attrs(heap, n)) : ~h.attr[a].live
=============================================================================
