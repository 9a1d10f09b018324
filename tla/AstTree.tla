------------------------------ MODULE AstTree ------------------------------
(***************************************************************************)
(* What ast.c promises, without pointers, to a caller that hands over each  *)
(* object it has made once.  A node has a sequence of attributes; an        *)
(* attribute has a key, a kind, and a text or a sequence of nodes.  The     *)
(* caller also holds sequences of attributes that belong to no node yet.    *)
(* Nothing is shared and nothing is lost: one step makes one new object or  *)
(* moves one that belongs to nobody, whole, to the end of something else.   *)
(***************************************************************************)
EXTENDS Naturals, Sequences, SequencesExt

CONSTANTS
    Id,         \* the names of nodes and of lists
    Key,        \* the keys
    Value       \* the texts

VARIABLES
    tree,       \* node |-> its attributes, for every node that exists
    list        \* list |-> its attributes, for every list that belongs to no node

treeVars == <<tree, list>>

Attribute ==
    [key : Key, kind : {"CONST_STRING", "STRING", "INTEGER", "AST_NODE"},
     text : Value, nodes : Seq(Id)]

Without(f, x) == [y \in DOMAIN f \ {x} |-> f[y]]
With(f, x, v) == [y \in DOMAIN f \cup {x} |-> IF y = x THEN v ELSE f[y]]

Subs(attributes) == UNION {ToSet(attributes[i].nodes) : i \in DOMAIN attributes}
Owned ==
    (UNION {Subs(tree[n]) : n \in DOMAIN tree}) \cup (UNION {Subs(list[a]) : a \in DOMAIN list})
Root  == DOMAIN tree \ Owned

\* An attribute made from nothing: it owns at most a root.
New(attribute) ==
    /\ attribute \in Attribute
    /\ Len(attribute.nodes) <= 1
    /\ ToSet(attribute.nodes) \subseteq Root

TreeInit ==
    /\ tree = <<>>
    /\ list = <<>>

Create(n) ==
    /\ n \notin DOMAIN tree
    /\ tree' = With(tree, n, <<>>)
    /\ UNCHANGED list

CreateList(a) ==
    /\ a \in DOMAIN list' \ DOMAIN list
    /\ Len(list'[a]) = 1
    /\ New(list'[a][1])
    /\ list' = With(list, a, list'[a])
    /\ UNCHANGED tree

\* A new attribute becomes the last one of a node.
Attach(n) ==
    /\ n \in DOMAIN tree'
    /\ tree'[n] # <<>>
    /\ New(Last(tree'[n]))
    /\ n \notin ToSet(Last(tree'[n]).nodes)
    /\ tree' = [tree EXCEPT ![n] = Append(@, Last(tree'[n]))]
    /\ UNCHANGED list

AttachList(n, a) ==
    /\ n \notin Subs(list[a])
    /\ tree' = [tree EXCEPT ![n] = @ \o list[a]]
    /\ list' = Without(list, a)

JoinLists(a, b) ==
    /\ a # b
    /\ list' = Without([list EXCEPT ![a] = @ \o list[b]], b)
    /\ UNCHANGED tree

\* The first attribute of n with its key.
FirstWithKey(n, i) == \A j \in 1..(i - 1) : tree[n][j].key # tree[n][i].key

AppendNode(n, i, sub) ==
    /\ tree[n][i].kind = "AST_NODE"
    /\ sub \in Root \ {n}
    /\ tree' = [tree EXCEPT ![n][i].nodes = Append(@, sub)]
    /\ UNCHANGED list

Overwrite(n, i) ==
    /\ tree[n][i].kind \in {"CONST_STRING", "INTEGER"}
    /\ n \in DOMAIN tree' /\ i \in DOMAIN tree'[n]
    /\ tree' = [tree EXCEPT ![n][i].text = tree'[n][i].text]
    /\ UNCHANGED list

Extend(n, m) ==
    /\ m \in Root \ {n}
    /\ tree' = Without([tree EXCEPT ![n] = @ \o tree[m]], m)
    /\ UNCHANGED list

\* Only what owns neither a node nor a string is ever given up.
Disposable(attributes) ==
    \A i \in DOMAIN attributes : attributes[i].kind \in {"CONST_STRING", "INTEGER"}

Free(n) ==
    /\ n \in Root
    /\ Disposable(tree[n])
    /\ tree' = Without(tree, n)
    /\ UNCHANGED list

FreeList(a) ==
    /\ Disposable(list[a])
    /\ list' = Without(list, a)
    /\ UNCHANGED tree

TreeNext ==
    \/ \E n \in Id : Create(n)
    \/ \E a \in Id : CreateList(a)
    \/ \E n \in DOMAIN tree :
          \/ Attach(n)
          \/ Free(n)
          \/ \E a \in DOMAIN list : AttachList(n, a)
          \/ \E m \in DOMAIN tree : Extend(n, m)
          \/ \E i \in DOMAIN tree[n] :
                /\ FirstWithKey(n, i)
                /\ Overwrite(n, i) \/ \E sub \in DOMAIN tree : AppendNode(n, i, sub)
    \/ \E a \in DOMAIN list :
          \/ FreeList(a)
          \/ \E b \in DOMAIN list : JoinLists(a, b)

TreeSpec == TreeInit /\ [][TreeNext]_treeVars
=============================================================================
