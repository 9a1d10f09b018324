------------------------------ MODULE Reading ------------------------------
(***************************************************************************)
(* The heap that Parser builds, read back: what a pointer stands for, and   *)
(* the file step0.json.                                                     *)
(***************************************************************************)
EXTENDS Parser, AstDump

\* What the heap holds at a pointer.
RECURSIVE ReadAttrs(_, _)
ReadAttrs(h, a) ==
    LET attrs == Chain(h.attr, a)
        read(n) == TreeOf(h.node[n].type, ReadAttrs(h, h.node[n].first))
    IN  [i \in DOMAIN attrs |->
            [key |-> h.attr[attrs[i]].key, text |-> h.attr[attrs[i]].text,
             nodes |-> LET nodes == Chain(h.node, h.attr[attrs[i]].node)
                       IN  [j \in DOMAIN nodes |-> read(nodes[j])]]]

ReadNode(h, n) == TreeOf(h.node[n].type, ReadAttrs(h, h.node[n].first))

Read(h, v) ==
    CASE v.kind = "text" -> Leaf(v.text)
      [] v.kind = "null" -> Nothing
      [] v.kind = "node" -> ReadNode(h, v.ref)
      [] v.kind = "attr" -> TreeOf("rest", ReadAttrs(h, v.ref))

IsProgram(k) == k > 0 /\ input[k].prod = "program_struct"

-----------------------------------------------------------------------------
(* Properties *)

\* Each value on the semantic stack reads, at every moment, as the part of the
\* source it stands for: fields and list elements in source order, although lists
\* are linked from the last element to the first, and no later reduction disturbs
\* an earlier value.
StackReads ==
    Parsing /\ ~IsProgram(at) =>
        /\ Len(values) = Len(meant)
        /\ \A i \in DOMAIN values : Read(heap, values[i]) = meant[i]

\* The root is the placeholder or the whole program, also when a syntax error
\* follows, and a reduction replaces it at most once.
RootIsWhole ==
    Running(heap) =>
        ReadNode(heap, root) =
            IF \E k \in 1..at : IsProgram(k) THEN meant[1]
            ELSE TreeOf("PROGRAM", <<>>)

\* step0.json is JSON with distinct names in each object, whatever was parsed:
\* repeated keys occur in LIST nodes only and no attribute has two nodes.
DumpIsJson ==
    phase # "parse" =>
        /\ IsJson(ast_node_dump_json(heap, root))
        /\ \A n \in DOMAIN heap.node :
              heap.node[n].live /\ heap.node[n].type \notin ListType =>
                  \A i, j \in DOMAIN Attrs(heap, n) :
                      heap.attr[Attrs(heap, n)[i]].key = heap.attr[Attrs(heap, n)[j]].key => i = j
=============================================================================
