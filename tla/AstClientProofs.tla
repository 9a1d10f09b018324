-------------------------- MODULE AstClientProofs --------------------------
(***************************************************************************)
(* What holds of the heap of ast.c for every sequence of calls: every       *)
(* object has exactly one owner, and the heap implements sequences of       *)
(* attributes and of nodes.  Each call is matched with one step of AstTree. *)
(***************************************************************************)
EXTENDS AstClient, AstHeapProofs

-----------------------------------------------------------------------------
(* The caller *)

\* Between two calls: the objects have their types, and while calls return the
\* heap is sound for what the caller holds.
HeapInv ==
    /\ Typed(heap) /\ Len(heap.attr) <= MaxAttrs
    /\ held \subseteq 1..Len(heap.node) /\ loose \subseteq 1..Len(heap.attr)
    /\ Running(heap) => Sound(heap, held, loose)

LEMMA HeapInit == Init => HeapInv
<1> SUFFICES ASSUME Init PROVE HeapInv
  OBVIOUS
<1>1. heap = EmptyHeap /\ held = {} /\ loose = {}
  BY DEF Init
<1>2. Len(heap.attr) = 0
  BY <1>1 DEF EmptyHeap
<1>3. Sound(heap, held, loose)
  BY <1>1, EmptyIsSound
<1> QED
  BY <1>1, <1>2, <1>3, ClientAssumption DEF HeapInv, Sound

LEMMA CallKeeps ==
    ASSUME HeapInv, NEW h, NEW nodes, NEW attrs,
           Outcome(heap, h, nodes, attrs), Call(h, nodes, attrs)
    PROVE  HeapInv'
<1>1. /\ heap' = h /\ Len(h.attr) <= MaxAttrs /\ Typed(h)
      /\ held'  = IF Running(h) THEN nodes ELSE held
      /\ loose' = IF Running(h) THEN attrs ELSE loose
  BY DEF Call, Outcome
<1>2. CASE Running(h)
  <2>1. Sound(h, nodes, attrs)
    BY <1>2 DEF Outcome
  <2>2. nodes \subseteq 1..Len(h.node) /\ attrs \subseteq 1..Len(h.attr)
    BY <2>1 DEF Sound, NodeLists, AttrLists, Lists
  <2> QED
    BY <1>1, <1>2, <2>1, <2>2 DEF HeapInv
<1>3. CASE ~Running(h)
  <2>1. /\ Len(heap.node) \in Nat /\ Len(heap.attr) \in Nat
        /\ Len(h.node) \in Nat /\ Len(h.attr) \in Nat
    BY LenProperties DEF HeapInv, Outcome, Typed
  <2>2. 1..Len(heap.node) \subseteq 1..Len(h.node) /\ 1..Len(heap.attr) \subseteq 1..Len(h.attr)
    BY <2>1 DEF Outcome
  <2> QED
    BY <1>1, <1>3, <2>2 DEF HeapInv
<1> QED
  BY <1>2, <1>3

LEMMA FreshTextIsWord == HeapInv => FreshText \in Word
<1> SUFFICES ASSUME HeapInv PROVE FreshText \in Word
  OBVIOUS
<1>1. Len(heap.attr) \in Nat /\ Len(heap.attr) <= MaxAttrs
  BY LenProperties DEF HeapInv, Typed
<1>2. MaxAttrs \in Nat /\ Text \in Seq(Word) /\ Len(Text) > MaxAttrs /\ Len(Text) \in Nat
  BY ClientAssumption, LenProperties
<1>3. Len(heap.attr) + 1 \in 1..Len(Text) /\ DOMAIN Text = 1..Len(Text)
  BY <1>1, <1>2
<1> QED
  BY <1>2, <1>3, ElementOfSeq DEF FreshText

LEMMA HeapStep == HeapInv /\ [Next]_vars => HeapInv'
<1> SUFFICES ASSUME HeapInv, [Next]_vars PROVE HeapInv'
  OBVIOUS
<1>1. CASE UNCHANGED vars
  BY <1>1 DEF vars, HeapInv, Running
<1>2. CASE Next
  <2>1. Running(heap)
    BY <1>2 DEF Next, Call, CreateNode, CreateText, SetText, CreateNodeAttr, AppendNode,
                AttachAttr, SetFirstAttr, AppendAttr, Extend, DestroyNode, DestroyAttr
  <2>2. Sound(heap, held, loose)
    BY <2>1 DEF HeapInv
  <2>3. FreshText \in Word
    BY FreshTextIsWord
  <2>4. ASSUME NEW type \in Type, CreateNode(type) PROVE HeapInv'
    <3> DEFINE h == ast_node_create(heap, type)
    <3>1. Outcome(heap, h, held \cup {NewNode(h)}, loose)
      BY <2>2, CreateNodeOutcome
    <3>2. Call(h, held \cup {NewNode(h)}, loose)
      BY <2>4 DEF CreateNode
    <3> HIDE DEF h
    <3> QED
      BY <3>1, <3>2, CallKeeps
  <2>5. ASSUME NEW key \in Key, CreateText(key) PROVE HeapInv'
    <3>1. PICK h \in {ast_node_attr_create_str(heap, key, FreshText),
                      ast_node_attr_create_const_str(heap, key, FreshText),
                      ast_node_attr_create_integer(heap, key, FreshText)} :
                   Call(h, held, loose \cup {NewAttr(h)})
      BY <2>5 DEF CreateText
    <3>2. Created(heap, h, held, loose)
      BY <2>2, <2>3, <3>1, CreateText3
    <3>3. Outcome(heap, h, held, loose \cup {NewAttr(h)})
      BY <3>2, CreatedOutcome
    <3> QED
      BY <3>1, <3>3, CallKeeps
  <2>6. ASSUME NEW key \in Key, NEW n \in held, SetText(n, key) PROVE HeapInv'
    <3>1. PICK h \in {ast_node_set_attr_str(heap, n, key, FreshText),
                      ast_node_set_attr_const_str(heap, n, key, FreshText),
                      ast_node_set_attr_integer(heap, n, key, FreshText)} : Call(h, held, loose)
      BY <2>6 DEF SetText
    <3>2. Outcome(heap, h, held, loose)
      BY <2>2, <2>3, <3>1, SetTextOutcome
    <3> QED
      BY <3>1, <3>2, CallKeeps
  <2>7. ASSUME NEW key \in Key, NEW sub \in held \cup {Nil}, CreateNodeAttr(key, sub)
        PROVE  HeapInv'
    <3> DEFINE h == ast_node_attr_create_node(heap, key, sub)
    <3>1. Outcome(heap, h, held \ {sub}, loose \cup {NewAttr(h)})
      BY <2>2, CreateNodeAttrOutcome
    <3>2. Call(h, held \ {sub}, loose \cup {NewAttr(h)})
      BY <2>7 DEF CreateNodeAttr
    <3> HIDE DEF h
    <3> QED
      BY <3>1, <3>2, CallKeeps
  <2>8. ASSUME NEW key \in Key, NEW sub \in held \cup {Nil}, NEW n \in held, AppendNode(n, key, sub)
        PROVE  HeapInv'
    <3> DEFINE h == ast_node_attr_node_append(heap, n, key, sub)
    <3>1. sub # n /\ Call(h, held \ {sub}, loose)
      BY <2>8 DEF AppendNode
    <3>2. Outcome(heap, h, held \ {sub}, loose)
      BY <2>2, <3>1, AppendNodeOutcome
    <3> HIDE DEF h
    <3> QED
      BY <3>1, <3>2, CallKeeps
  <2>9. ASSUME NEW n \in held, NEW a \in loose, AttachAttr(n, a) PROVE HeapInv'
    <3> DEFINE h == ast_node_attach_attr(heap, n, a)
    <3>1. heap.attr[a].next = Nil /\ Call(h, held, loose \ {a})
      BY <2>9 DEF AttachAttr, Alone
    <3>2. Outcome(heap, h, held, loose \ {a})
      BY <2>2, <3>1, AttachOutcome
    <3> HIDE DEF h
    <3> QED
      BY <3>1, <3>2, CallKeeps
  <2>10. ASSUME NEW n \in held, NEW a \in loose, SetFirstAttr(n, a) PROVE HeapInv'
    <3> DEFINE h == set_first_attr(heap, n, a)
    <3>1. heap.node[n].first = Nil /\ Call(h, held, loose \ {a})
      BY <2>10 DEF SetFirstAttr
    <3>2. Outcome(heap, h, held, loose \ {a})
      BY <2>2, <3>1, SetFirstOutcome
    <3> HIDE DEF h
    <3> QED
      BY <3>1, <3>2, CallKeeps
  <2>11. ASSUME NEW a \in Live(heap.attr), Unlinked(Nexts(heap.attr), Len(heap.attr), a),
                NEW rest \in loose \cup {Nil}, AppendAttr(a, rest)
         PROVE  HeapInv'
    <3> DEFINE h == ast_node_attr_append(heap, a, rest)
    <3>1. a # rest /\ heap.attr[a].next = Nil /\ Call(h, held, loose \ {rest})
      BY <2>11 DEF AppendAttr, Alone
    <3>2. Outcome(heap, h, held, loose \ {rest})
      BY <2>2, <2>11, <3>1, AppendOutcome
    <3> HIDE DEF h
    <3> QED
      BY <3>1, <3>2, CallKeeps
  <2>12. ASSUME NEW n \in held, NEW rest \in loose,
                heap.node[n].first # Nil, AppendAttr(heap.node[n].first, rest)
         PROVE  HeapInv'
    <3>1. /\ heap.node[n].first \in Live(heap.attr)
          /\ Unlinked(Nexts(heap.attr), Len(heap.attr), heap.node[n].first)
      BY <2>2, <2>12, FirstApart
    <3> QED
      BY <2>11, <2>12, <3>1
  <2>13. ASSUME NEW a \in loose, NEW rest \in loose \cup {Nil}, AppendAttr(a, rest) PROVE HeapInv'
    <3>1. a \in Live(heap.attr) /\ Unlinked(Nexts(heap.attr), Len(heap.attr), a)
      BY <2>2, LooseApart
    <3> QED
      BY <2>11, <2>13, <3>1
  <2>14. ASSUME NEW n \in held, NEW m \in held, Extend(n, m) PROVE HeapInv'
    <3> DEFINE h == ast_node_extend(heap, n, m)
    <3>1. m # n /\ Call(h, held \ {m}, loose)
      BY <2>14 DEF Extend
    <3>2. Outcome(heap, h, held \ {m}, loose)
      BY <2>1, <2>2, <3>1, ExtendOutcome
    <3> HIDE DEF h
    <3> QED
      BY <3>1, <3>2, CallKeeps
  <2>15. ASSUME NEW n \in held, DestroyNode(n) PROVE HeapInv'
    <3> DEFINE h == ast_node_destroy(heap, n)
    <3>1. Call(h, held \ {n}, loose)
      BY <2>15 DEF DestroyNode
    <3>2. Outcome(heap, h, held \ {n}, loose)
      BY <2>1, <2>2, DestroyNodeOutcome
    <3> HIDE DEF h
    <3> QED
      BY <3>1, <3>2, CallKeeps
  <2>16. ASSUME NEW a \in loose, DestroyAttr(a) PROVE HeapInv'
    <3> DEFINE h == ast_node_attr_destroy(heap, a)
    <3>1. Call(h, held, loose \ {a})
      BY <2>16 DEF DestroyAttr
    <3>2. Outcome(heap, h, held, loose \ {a})
      BY <2>2, DestroyAttrOutcome
    <3> HIDE DEF h
    <3> QED
      BY <3>1, <3>2, CallKeeps
  <2> QED
    BY <1>2, <2>4, <2>5, <2>6, <2>7, <2>8, <2>9, <2>10, <2>12, <2>13, <2>14, <2>15, <2>16 DEF Next
<1> QED
  BY <1>1, <1>2

-----------------------------------------------------------------------------
(* Theorems *)

\* The heap keeps the types of its objects, whatever calls are made and whether or
\* not they return: an attribute has a node exactly when it is an AST_NODE, and the
\* caller holds only what was made (ast.c).
THEOREM HeapTypeCorrect == Spec => []TypeOK
<1>1. HeapInv => TypeOK
  <2> SUFFICES ASSUME HeapInv PROVE TypeOK
    OBVIOUS
  <2>1. heap.node \in Seq(NodeRecord) /\ heap.attr \in Seq(AttrRecord)
    BY DEF HeapInv, Typed
  <2>2. DOMAIN heap.node = 1..Len(heap.node) /\ DOMAIN heap.attr = 1..Len(heap.attr)
    BY <2>1
  <2>3. \A a \in DOMAIN heap.attr : heap.attr[a].kind = "AST_NODE" <=> heap.attr[a].node # Nil
    BY <2>2 DEF HeapInv, Typed
  <2>4. heap.cell \in Word \cup {NoText} /\ heap.status \in {"running", "aborted", "undefined"}
    BY DEF HeapInv, Typed
  <2>5. held \subseteq DOMAIN heap.node /\ loose \subseteq DOMAIN heap.attr
    BY <2>2 DEF HeapInv
  <2> QED
    BY <2>1, <2>3, <2>4, <2>5 DEF TypeOK, NodeRecord, AttrRecord
<1> QED
  BY <1>1, HeapInit, HeapStep, PTL DEF Spec

\* Every object that exists has exactly one owner and a freed one none, after every
\* sequence of calls that return: the list functions of ast.c neither share nor lose
\* what they move (LL_APPEND, LL_CONCAT, ast_node_extend).
THEOREM OwnerCorrect == Spec => []OneOwner
<1>1. HeapInv => OneOwner
  <2> SUFFICES ASSUME HeapInv, Running(heap)
               PROVE  /\ \A n \in DOMAIN heap.node :
                             NodeOwners(n) = IF heap.node[n].live THEN 1 ELSE 0
                      /\ \A a \in DOMAIN heap.attr :
                             AttrOwners(a) = IF heap.attr[a].live THEN 1 ELSE 0
    BY DEF OneOwner
  <2> DEFINE L == Len(heap.node)
             M == Len(heap.attr)
  <2>1. Sound(heap, held, loose)
    BY DEF HeapInv
  <2>2. /\ Lists(L, M, Nexts(heap.node), Subs(heap.attr), held, Live(heap.node))
        /\ Lists(M, L, Nexts(heap.attr), Firsts(heap.node), loose, Live(heap.attr))
    BY <2>1 DEF Sound, NodeLists, AttrLists
  <2>3. DOMAIN heap.node = 1..L /\ DOMAIN heap.attr = 1..M
    BY DEF HeapInv, Typed
  <2>4. LiveNodes = Live(heap.node) /\ LiveAttrs = Live(heap.attr)
    BY <2>3 DEF LiveNodes, LiveAttrs, Live
  <2>5. /\ \A x \in 1..L : /\ Nexts(heap.node)[x] = heap.node[x].next
                           /\ Firsts(heap.node)[x] = heap.node[x].first
        /\ \A x \in 1..M : /\ Nexts(heap.attr)[x] = heap.attr[x].next
                           /\ Subs(heap.attr)[x] = heap.attr[x].node
    BY DEF Nexts, Firsts, Subs
  <2>6. /\ \A x \in 1..L : x \in Live(heap.node) <=> heap.node[x].live
        /\ \A x \in 1..M : x \in Live(heap.attr) <=> heap.attr[x].live
        /\ Live(heap.node) \subseteq 1..L /\ Live(heap.attr) \subseteq 1..M
    BY DEF Live
  <2>7. /\ \A x \in 1..L : heap.node[x].first # Nil => x \in Live(heap.node)
        /\ \A x \in 1..M : heap.attr[x].node # Nil => x \in Live(heap.attr)
    BY <2>1, <2>6 DEF Sound, DeadEmpty
  <2>8. /\ \A x \in 1..L : heap.node[x].next # Nil => x \in Live(heap.node)
        /\ \A x \in 1..M : heap.attr[x].next # Nil => x \in Live(heap.attr)
    BY <2>2, <2>5 DEF Lists, Apart
  <2> HIDE DEF L, M
  <2>9. ASSUME NEW n \in 1..L PROVE NodeOwners(n) = IF heap.node[n].live THEN 1 ELSE 0
    <3>1. n # Nil
      BY DEF Nil
    <3>2. {m \in LiveNodes : heap.node[m].next = n} = {x \in 1..L : Nexts(heap.node)[x] = n}
      BY <2>4, <2>5, <2>6, <2>8, <3>1
    <3>3. {a \in LiveAttrs : heap.attr[a].node = n} = {y \in 1..M : Subs(heap.attr)[y] = n}
      BY <2>4, <2>5, <2>6, <2>7, <3>1
    <3>4. Cardinality({x \in 1..L : Nexts(heap.node)[x] = n})
          + Cardinality({y \in 1..M : Subs(heap.attr)[y] = n})
          + Cardinality({r \in held : r = n}) = IF n \in Live(heap.node) THEN 1 ELSE 0
      BY <2>2, OwnersCounted
    <3>5. n \in Live(heap.node) <=> heap.node[n].live
      BY <2>6
    <3> QED
      BY <3>2, <3>3, <3>4, <3>5 DEF NodeOwners
  <2>10. ASSUME NEW a \in 1..M PROVE AttrOwners(a) = IF heap.attr[a].live THEN 1 ELSE 0
    <3>1. a # Nil
      BY DEF Nil
    <3>2. {b \in LiveAttrs : heap.attr[b].next = a} = {x \in 1..M : Nexts(heap.attr)[x] = a}
      BY <2>4, <2>5, <2>6, <2>8, <3>1
    <3>3. {n \in LiveNodes : heap.node[n].first = a} = {y \in 1..L : Firsts(heap.node)[y] = a}
      BY <2>4, <2>5, <2>6, <2>7, <3>1
    <3>4. Cardinality({x \in 1..M : Nexts(heap.attr)[x] = a})
          + Cardinality({y \in 1..L : Firsts(heap.node)[y] = a})
          + Cardinality({r \in loose : r = a}) = IF a \in Live(heap.attr) THEN 1 ELSE 0
      BY <2>2, OwnersCounted
    <3>5. a \in Live(heap.attr) <=> heap.attr[a].live
      BY <2>6
    <3> QED
      BY <3>2, <3>3, <3>4, <3>5 DEF AttrOwners
  <2> QED
    BY <2>3, <2>9, <2>10
<1> QED
  BY <1>1, HeapInit, HeapStep, PTL DEF Spec

-----------------------------------------------------------------------------
(* What LL_FOREACH visits *)

Orderly(objs) ==
    /\ Len(objs) \in Nat
    /\ Nexts(objs) \in [1..Len(objs) -> 0..Len(objs)]
    /\ Ending(Nexts(objs), Len(objs))

Chains(objs) == [p \in 0..Len(objs) |-> Chain(objs, p)]

LEMMA SoundOrderly ==
    ASSUME NEW h, NEW nodes, NEW attrs, Sound(h, nodes, attrs)
    PROVE  Orderly(h.node) /\ Orderly(h.attr)
BY DEF Sound, NodeLists, AttrLists, Lists, Orderly

LEMMA ChainsAre ==
    ASSUME NEW objs, Orderly(objs),
           NEW f \in [0..Len(objs) -> Seq(1..Len(objs))], Walk(Nexts(objs), Len(objs), f)
    PROVE  Chains(objs) = f
<1> DEFINE L == Len(objs)
           next == Nexts(objs)
<1>1. /\ L \in Nat /\ next \in [1..L -> 0..L] /\ f \in [0..L -> Seq(1..L)] /\ Walk(next, L, f)
      /\ LinkedBy(objs, next, L)
  BY DEF Orderly, LinkedBy
<1>2. Chains(objs) = [p \in 0..L |-> Chain(objs, p)]
  BY DEF Chains
<1> HIDE DEF L, next
<1>3. \A p \in 0..L : Chain(objs, p) = f[p]
  BY <1>1, ChainIs, Zenon
<1> QED
  BY <1>1, <1>2, <1>3

LEMMA ChainsWalk ==
    ASSUME NEW objs, Orderly(objs)
    PROVE  /\ Chains(objs) \in [0..Len(objs) -> Seq(1..Len(objs))]
           /\ Walk(Nexts(objs), Len(objs), Chains(objs))
<1>1. PICK f \in [0..Len(objs) -> Seq(1..Len(objs))] : Walk(Nexts(objs), Len(objs), f)
  BY DEF Orderly, Ending
<1> QED
  BY <1>1, ChainsAre

LEMMA ChainFacts ==
    ASSUME NEW objs, Orderly(objs), NEW p \in 1..Len(objs)
    PROVE  /\ Chain(objs, p) \in Seq(1..Len(objs)) /\ Len(Chain(objs, p)) \in Nat \ {0}
           /\ Chain(objs, p)[1] = p /\ Linked(Nexts(objs), Chain(objs, p))
<1> DEFINE L == Len(objs)
           next == Nexts(objs)
           f == Chains(objs)
<1>1. /\ L \in Nat /\ next \in [1..L -> 0..L] /\ f \in [0..L -> Seq(1..L)] /\ Walk(next, L, f)
  BY ChainsWalk DEF Orderly
<1>2. Chain(objs, p) = f[p]
  BY DEF Chains
<1> HIDE DEF L, next, f
<1>3. f[p][1] = p /\ Linked(next, f[p])
  BY <1>1, WalkFirst, WalkSteps DEF L
<1>4. f[p] \in Seq(1..L) /\ Len(f[p]) \in Nat /\ Len(f[p]) # 0
  BY <1>1, <1>3, LenProperties DEF Linked, L
<1> QED
  BY <1>2, <1>3, <1>4 DEF L, next

LEMMA ChainNil == ASSUME NEW objs, Orderly(objs) PROVE Chain(objs, Nil) = <<>>
<1>1. Chains(objs)[Nil] = <<>>
  BY ChainsWalk DEF Walk
<1>2. Nil \in 0..Len(objs)
  BY DEF Orderly, Nil
<1> QED
  BY <1>1, <1>2 DEF Chains

LEMMA ChainInSeq ==
    ASSUME NEW objs, Orderly(objs), NEW p \in 0..Len(objs)
    PROVE  Chain(objs, p) \in Seq(1..Len(objs))
BY ChainsWalk DEF Chains

\* A list of one element.
LEMMA ChainAlone ==
    ASSUME NEW objs, Orderly(objs), NEW p \in 1..Len(objs), objs[p].next = Nil
    PROVE  Chain(objs, p) = <<p>>
<1>1. Walk(Nexts(objs), Len(objs), Chains(objs)) /\ p \in 0..Len(objs) /\ Nil \in 0..Len(objs)
  BY ChainsWalk DEF Orderly, Nil
<1>2. Chains(objs)[p] = <<p>> \o Chains(objs)[Nexts(objs)[p]] /\ Nexts(objs)[p] = Nil
  BY <1>1 DEF Walk, Nexts
<1>3. Chains(objs)[p] = <<p>> \o <<>>
  BY <1>1, <1>2 DEF Walk
<1>4. Chains(objs)[p] = Chain(objs, p) /\ <<p>> \in Seq(1..Len(objs))
  BY <1>1 DEF Chains
<1> QED
  BY <1>3, <1>4, ConcatEmptySeq

LEMMA ChainsSame ==
    ASSUME NEW s, Orderly(s), NEW t, Len(t) = Len(s), Nexts(t) = Nexts(s)
    PROVE  Chains(t) = Chains(s)
<1>1. Orderly(t)
  BY DEF Orderly
<1>2. /\ Chains(s) \in [0..Len(t) -> Seq(1..Len(t))]
      /\ Walk(Nexts(t), Len(t), Chains(s))
  BY ChainsWalk
<1> QED
  BY <1>1, <1>2, ChainsAre

LEMMA ChainsGrown ==
    ASSUME NEW s, Orderly(s), NEW t, Orderly(t), OneMore(s, t), t[Len(s) + 1].next = Nil
    PROVE  Chains(t) = Grown(Chains(s), Len(s))
<1> DEFINE L == Len(s)
           f == Chains(s)
           next == Nexts(s)
           more == Nexts(t)
<1>1. L \in Nat /\ Len(t) = L + 1 /\ \A j \in 1..L : t[j] = s[j]
  BY DEF OneMore
<1>2. /\ next \in [1..L -> 0..L] /\ f \in [0..L -> Seq(1..L)] /\ Walk(next, L, f)
      /\ more \in [1..(L + 1) -> 0..(L + 1)]
  BY <1>1, ChainsWalk DEF Orderly
<1>3. more[L + 1] = Nil /\ \A p \in 1..L : more[p] = next[p]
  <2>1. L + 1 \in 1..(L + 1) /\ \A p \in 1..L : p \in 1..(L + 1)
    BY <1>1
  <2> QED
    BY <1>1, <2>1 DEF Nexts
<1> HIDE DEF L, f, next, more
<1>4. Grown(f, L) \in [0..(L + 1) -> Seq(1..(L + 1))] /\ Walk(more, L + 1, Grown(f, L))
  BY <1>1, <1>2, <1>3, WalkGrow
<1>5. Chains(t) = Grown(f, L)
  BY <1>1, <1>4, ChainsAre DEF more
<1> QED
  BY <1>5 DEF f, L

\* A pointer that no `next` repeats.
Leads(objs, p) == p \in 0..Len(objs) /\ (p # Nil => Unlinked(Nexts(objs), Len(objs), p))

\* No two objects have the same `next`.
Unshared(objs) ==
    \A x, y \in 1..Len(objs) : Nexts(objs)[x] = Nexts(objs)[y] /\ Nexts(objs)[x] # Nil => x = y

Disjoint(s, t) == \A i \in 1..Len(s), j \in 1..Len(t) : s[i] # t[j]

LEMMA HeadsApart ==
    ASSUME NEW objs, Orderly(objs), Unshared(objs),
           NEW p \in 1..Len(objs), NEW q \in 1..Len(objs),
           Leads(objs, p), Leads(objs, q), p # q
    PROVE  Disjoint(Chain(objs, p), Chain(objs, q))
<1> DEFINE L == Len(objs)
           next == Nexts(objs)
           s == Chain(objs, p)
           t == Chain(objs, q)
<1>1. L \in Nat /\ next \in [1..L -> 0..L]
  BY DEF Orderly
<1>2. /\ s \in Seq(1..L) /\ t \in Seq(1..L) /\ Linked(next, s) /\ Linked(next, t)
      /\ s[1] = p /\ t[1] = q
  BY ChainFacts
<1>3. Separate(next, L, s[1], t[1])
  <2>1. p # Nil /\ q # Nil
    BY DEF Nil, Orderly
  <2>2. \A x \in 1..L : next[x] # p /\ next[x] # q
    BY <2>1 DEF Leads, Unlinked
  <2> QED
    BY <1>2, <2>2 DEF Separate, Unshared
<1> HIDE DEF L, next, s, t
<1>4. ASSUME NEW i \in 1..Len(s), NEW j \in 1..Len(t) PROVE s[i] # t[j]
  BY <1>1, <1>2, <1>3, LinkedApart
<1> QED
  BY <1>4 DEF Disjoint, s, t

\* An element is followed by one element less than the one before it.
LEMMA ChainBehind ==
    ASSUME NEW objs, Orderly(objs), NEW p \in 1..Len(objs)
    PROVE  \A k \in Nat :
              k < Len(Chain(objs, p)) =>
                  Len(Chain(objs, Chain(objs, p)[k + 1])) = Len(Chain(objs, p)) - k
<1> DEFINE L == Len(objs)
           next == Nexts(objs)
           f == Chains(objs)
           s == f[p]
           Bad == {k \in Nat : k < Len(s) /\ Len(f[s[k + 1]]) # Len(s) - k}
<1>1. L \in Nat /\ next \in [1..L -> 0..L] /\ f \in [0..L -> Seq(1..L)] /\ Walk(next, L, f)
  BY ChainsWalk DEF Orderly
<1>2. s \in Seq(1..L) /\ Len(s) \in Nat /\ Linked(next, s) /\ s[1] = p
  <2>1. s = Chain(objs, p)
    BY DEF Chains
  <2> QED
    BY <2>1, ChainFacts
<1>3. \A q \in 1..L : Len(f[q]) = Len(f[next[q]]) + 1 /\ Len(f[next[q]]) \in Nat
  <2> HIDE DEF L, next, f
  <2> QED
    BY <1>1, WalkUnfolds
<1>4. \A k \in 1..Len(s) : s[k] \in 1..L
  BY <1>2, ElementOfSeq
<1> HIDE DEF s, f, next, L
<1>5. Bad = {}
  <2> SUFFICES ASSUME Bad # {} PROVE FALSE
    OBVIOUS
  <2>1. PICK k \in Bad : \A j \in Bad : k <= j
    BY LeastNumber
  <2>2. k \in Nat /\ k < Len(s) /\ Len(f[s[k + 1]]) # Len(s) - k
    BY <2>1
  <2>3. CASE k = 0
    BY <1>2, <2>2, <2>3 DEF s
  <2>4. CASE k # 0
    <3>1. /\ k - 1 \in Nat /\ k - 1 < Len(s) /\ (k - 1) + 1 = k
          /\ k \in 1..Len(s) - 1 /\ k \in 1..Len(s)
      BY <1>2, <2>2, <2>4
    <3>2. Len(f[s[k]]) = Len(s) - (k - 1)
      <4>1. k - 1 \notin Bad
        BY <2>1, <2>2, <3>1
      <4> QED
        BY <3>1, <4>1
    <3>3. next[s[k]] = s[k + 1]
      BY <1>2, <3>1 DEF Linked
    <3>4. Len(f[s[k]]) = Len(f[s[k + 1]]) + 1 /\ Len(f[s[k + 1]]) \in Nat
      BY <1>3, <1>4, <3>1, <3>3
    <3> DEFINE x == Len(f[s[k + 1]])
               y == Len(s)
    <3>5. y \in Nat /\ k \in Nat /\ x \in Nat /\ x # y - k /\ x + 1 = y - (k - 1)
      BY <1>2, <2>2, <3>2, <3>4
    <3> HIDE DEF x, y
    <3> QED
      BY <3>5
  <2> QED
    BY <2>3, <2>4
<1>6. \A k \in Nat : k < Len(s) => Len(f[s[k + 1]]) = Len(s) - k
  BY <1>5
<1>7. \A q \in 0..L : f[q] = Chain(objs, q)
  BY DEF f, L, Chains
<1> QED
  <2> TAKE k \in Nat
  <2> HAVE k < Len(Chain(objs, p))
  <2>1. s = Chain(objs, p)
    BY <1>1, <1>7 DEF L, s
  <2>2. k + 1 \in 1..Len(s)
    BY <1>2, <2>1
  <2>3. s[k + 1] \in 1..L
    BY <1>4, <2>2
  <2>4. f[s[k + 1]] = Chain(objs, s[k + 1])
    <3>1. s[k + 1] \in 0..L
      BY <1>1, <2>3
    <3> QED
      BY <1>7, <3>1, Zenon
  <2> QED
    BY <1>6, <2>1, <2>4

\* No element occurs twice in a list.
LEMMA NoRepetition ==
    ASSUME NEW objs, Orderly(objs), NEW p \in 1..Len(objs),
           NEW i \in 1..Len(Chain(objs, p)), NEW j \in 1..Len(Chain(objs, p)),
           Chain(objs, p)[i] = Chain(objs, p)[j]
    PROVE  i = j
<1> DEFINE s == Chain(objs, p)
<1>1. Len(s) \in Nat /\ \A k \in Nat : k < Len(s) => Len(Chain(objs, s[k + 1])) = Len(s) - k
  BY ChainFacts, ChainBehind
<1> HIDE DEF s
<1>2. i \in 1..Len(s) /\ j \in 1..Len(s) /\ s[i] = s[j]
  BY DEF s
<1>3. /\ i - 1 \in Nat /\ i - 1 < Len(s) /\ (i - 1) + 1 = i
      /\ j - 1 \in Nat /\ j - 1 < Len(s) /\ (j - 1) + 1 = j
  BY <1>1, <1>2
<1>4. Len(Chain(objs, s[i])) = Len(s) - (i - 1) /\ Len(Chain(objs, s[j])) = Len(s) - (j - 1)
  BY <1>1, <1>3
<1> QED
  BY <1>1, <1>2, <1>4

\* The lists when r is put behind the list that starts at head.
JoinedAt(s, t, head, r) ==
    \A p \in 0..Len(s) : Leads(s, p) =>
        Chain(t, p) = IF p = head THEN Chain(s, head) \o Chain(s, r) ELSE Chain(s, p)

LEMMA ChainsJoined ==
    ASSUME NEW s, Orderly(s), Unshared(s),
           NEW head \in 1..Len(s), NEW r \in 1..Len(s), Leads(s, head), Leads(s, r), head # r,
           NEW t, Len(t) = Len(s), Nexts(t) = [Nexts(s) EXCEPT ![TailOf(s, head)] = r]
    PROVE  JoinedAt(s, t, head, r)
<1> DEFINE L == Len(s)
           next == Nexts(s)
           f == Chains(s)
           e == TailOf(s, head)
           more == [next EXCEPT ![e] = r]
           len == Len(f[head])
<1>1. L \in Nat /\ next \in [1..L -> 0..L] /\ f \in [0..L -> Seq(1..L)] /\ Walk(next, L, f)
  BY ChainsWalk DEF Orderly
<1>2. \A p \in 0..L : f[p] = Chain(s, p)
  BY DEF Chains
<1>3. f[head] \in Seq(1..L) /\ len \in Nat /\ len # 0 /\ next[f[head][len]] = Nil
  <2>1. head \in 0..L /\ f[head] = Chain(s, head)
    BY <1>1, <1>2
  <2> HIDE DEF f
  <2> QED
    BY <2>1, ChainFacts DEF Linked
<1>4. e = f[head][len]
  BY <1>1, <1>2 DEF TailOf, Last
<1>5. e \in 1..L /\ next[e] = Nil
  <2>1. len \in 1..len
    BY <1>3
  <2>2. f[head][len] \in 1..L
    BY <1>3, <2>1, ElementOfSeq
  <2> HIDE DEF e, f, len
  <2> QED
    BY <1>3, <1>4, <2>2
<1>6. ASSUME NEW p \in 1..L, Leads(s, p), p # head
      PROVE  \A i \in 1..Len(f[p]) : f[p][i] # e
  <2>1. Disjoint(Chain(s, p), Chain(s, head))
    BY <1>6, HeadsApart
  <2>2. Chain(s, p) = f[p] /\ Chain(s, head) = f[head]
    BY <1>1, <1>2
  <2> HIDE DEF f, e
  <2>3. Len(f[head]) \in 1..Len(f[head])
    BY <1>3 DEF len
  <2> QED
    BY <1>4, <2>1, <2>2, <2>3 DEF Disjoint, len
<1>7. r \in 1..L /\ head \in 1..L /\ r \in 0..L /\ head \in 0..L
  BY <1>1
<1>8. Chains(t) = Behind(f, L, e, r)
  <2> HIDE DEF f, e, L, next
  <2>1. Without(f, r, e)
    BY <1>6, <1>7 DEF Without
  <2>2. Behind(f, L, e, r) \in [0..L -> Seq(1..L)] /\ Walk(more, L, Behind(f, L, e, r))
    BY <1>1, <1>5, <1>7, <2>1, WalkJoin
  <2>3. Len(t) = L /\ Nexts(t) = more
    BY DEF L, e, next
  <2>4. more \in [1..L -> 0..L]
    BY <1>1, <1>7
  <2> HIDE DEF more
  <2>5. Orderly(t)
    BY <1>1, <2>2, <2>3, <2>4 DEF Orderly, Ending
  <2> QED
    BY <2>2, <2>3, <2>5, ChainsAre
<1> SUFFICES ASSUME NEW p \in 0..L, Leads(s, p)
             PROVE  Chain(t, p) = IF p = head THEN Chain(s, head) \o Chain(s, r) ELSE Chain(s, p)
  BY DEF JoinedAt
<1>9. Chain(t, p) = IF \E i \in 1..Len(f[p]) : f[p][i] = e THEN f[p] \o f[r] ELSE f[p]
  <2>1. Chain(t, p) = Chains(t)[p]
    BY DEF Chains
  <2> HIDE DEF f, e
  <2> QED
    BY <1>8, <2>1 DEF Behind
<1>10. f[p] = Chain(s, p) /\ f[r] = Chain(s, r)
  BY <1>2, <1>7
<1> HIDE DEF f, e, next
<1>11. CASE p = head
  <2>1. len \in 1..Len(f[p]) /\ f[p][len] = e
    BY <1>3, <1>4, <1>11 DEF len
  <2> QED
    BY <1>9, <1>10, <1>11, <2>1
<1>12. CASE p = Nil
  <2>1. f[p] = <<>> /\ head # Nil
    BY <1>1, <1>7, <1>12 DEF Walk, Nil
  <2> QED
    BY <1>9, <1>10, <1>12, <2>1
<1>13. CASE p # head /\ p # Nil
  <2>1. p \in 1..L
    BY <1>13 DEF Nil
  <2> QED
    BY <1>6, <1>9, <1>10, <1>13, <2>1
<1> QED
  BY <1>11, <1>12, <1>13

-----------------------------------------------------------------------------
(* The attributes of a list *)

Mapped(h, s) == [i \in DOMAIN s |-> AttributeOf(h, s[i])]

LEMMA FromIsMapped ==
    ASSUME NEW h, NEW p PROVE AttributesFrom(h, p) = Mapped(h, Chain(h.attr, p))
BY DEF AttributesFrom, Mapped

LEMMA MappedSeq ==
    ASSUME NEW h, NEW R, NEW s \in Seq(R)
    PROVE  /\ Mapped(h, s) \in Seq({AttributeOf(h, b) : b \in R})
           /\ Len(Mapped(h, s)) = Len(s) /\ DOMAIN Mapped(h, s) = 1..Len(s)
           /\ \A i \in 1..Len(s) : Mapped(h, s)[i] = AttributeOf(h, s[i])
<1>1. DOMAIN s = 1..Len(s) /\ Len(s) \in Nat /\ \A i \in 1..Len(s) : s[i] \in R
  BY LenProperties, ElementOfSeq
<1> DEFINE m == Mapped(h, s)
           S == {AttributeOf(h, b) : b \in R}
<1>2. /\ m \in [1..Len(s) -> S]
      /\ \A i \in 1..Len(s) : m[i] = AttributeOf(h, s[i])
  BY <1>1 DEF Mapped
<1> HIDE DEF m, S
<1>3. m \in Seq(S) /\ Len(m) = Len(s) /\ DOMAIN m = 1..Len(s)
  BY <1>1, <1>2
<1> QED
  BY <1>2, <1>3 DEF m, S

MapOfConcat(h, s, t) == Mapped(h, s \o t) = Mapped(h, s) \o Mapped(h, t)

LEMMA MappedConcat ==
    ASSUME NEW h, NEW R, NEW s \in Seq(R), NEW t \in Seq(R)
    PROVE  MapOfConcat(h, s, t)
<1> DEFINE S == {AttributeOf(h, b) : b \in R}
           u == s \o t
           x == Mapped(h, s)
           y == Mapped(h, t)
           z == Mapped(h, u)
<1>1. /\ u \in Seq(R) /\ Len(u) = Len(s) + Len(t) /\ Len(s) \in Nat /\ Len(t) \in Nat
      /\ \A i \in 1..Len(u) : u[i] = IF i <= Len(s) THEN s[i] ELSE t[i - Len(s)]
  BY ConcatProperties, LenProperties
<1> HIDE DEF u
<1>2. /\ x \in Seq(S) /\ y \in Seq(S) /\ z \in Seq(S)
      /\ Len(x) = Len(s) /\ Len(y) = Len(t) /\ Len(z) = Len(u)
      /\ \A i \in 1..Len(s) : x[i] = AttributeOf(h, s[i])
      /\ \A i \in 1..Len(t) : y[i] = AttributeOf(h, t[i])
      /\ \A i \in 1..Len(u) : z[i] = AttributeOf(h, u[i])
  BY <1>1, MappedSeq
<1> HIDE DEF x, y, z, S
<1>3. /\ x \o y \in Seq(S) /\ Len(x \o y) = Len(s) + Len(t)
      /\ \A i \in 1..Len(s) + Len(t) :
            (x \o y)[i] = IF i <= Len(s) THEN x[i] ELSE y[i - Len(s)]
  <2>1. /\ x \o y \in Seq(S) /\ Len(x \o y) = Len(x) + Len(y)
        /\ \A i \in 1..Len(x) + Len(y) :
              (x \o y)[i] = IF i <= Len(x) THEN x[i] ELSE y[i - Len(x)]
    <3>1. x \in Seq(S) /\ y \in Seq(S)
      BY <1>2
    <3> QED
      BY <3>1, ConcatProperties
  <2> QED
    BY <1>2, <2>1, Zenon
<1>4. ASSUME NEW i \in 1..Len(z) PROVE z[i] = (x \o y)[i]
  <2>1. i \in 1..Len(u) /\ i \in 1..Len(s) + Len(t)
    BY <1>1, <1>2
  <2>2. CASE i <= Len(s)
    <3>1. i \in 1..Len(s)
      BY <1>1, <2>1, <2>2
    <3> QED
      BY <1>1, <1>2, <1>3, <2>1, <2>2, <3>1
  <2>3. CASE ~(i <= Len(s))
    <3>1. i - Len(s) \in 1..Len(t)
      BY <1>1, <2>1, <2>3
    <3>2. z[i] = AttributeOf(h, t[i - Len(s)])
      BY <1>1, <1>2, <2>1, <2>3
    <3> QED
      BY <1>2, <1>3, <2>1, <2>3, <3>1, <3>2
  <2> QED
    BY <2>2, <2>3
<1>5. z = x \o y
  <2> DEFINE w == x \o y
  <2>1. w \in Seq(S) /\ z \in Seq(S) /\ Len(w) = Len(z) /\ \A i \in 1..Len(z) : z[i] = w[i]
    BY <1>1, <1>2, <1>3, <1>4
  <2> HIDE DEF w
  <2>2. z = w
    BY <2>1, SeqEqual
  <2> QED
    BY <2>2 DEF w
<1> QED
  BY <1>5 DEF MapOfConcat, x, y, z, u

\* h2 has the attributes of h but for those in B.
AttributesBut(h, h2, B) ==
    \A b \in 1..Len(h.attr) : b \notin B => AttributeOf(h2, b) = AttributeOf(h, b)

LEMMA MappedKept ==
    ASSUME NEW h, NEW h2, NEW B, AttributesBut(h, h2, B),
           NEW s \in Seq(1..Len(h.attr)), \A i \in 1..Len(s) : s[i] \notin B
    PROVE  Mapped(h2, s) = Mapped(h, s)
<1>1. DOMAIN s = 1..Len(s) /\ \A i \in 1..Len(s) : s[i] \in 1..Len(h.attr)
  BY LenProperties, ElementOfSeq
<1>2. \A i \in 1..Len(s) : AttributeOf(h2, s[i]) = AttributeOf(h, s[i])
  BY <1>1 DEF AttributesBut
<1> QED
  BY <1>1, <1>2 DEF Mapped

-----------------------------------------------------------------------------
(* The lists of a sound heap *)

\* Lists that belong to different nodes or to the caller start apart.
AttrHeads(h, attrs) ==
    /\ Orderly(h.attr) /\ Unshared(h.attr)
    /\ \A n \in 1..Len(h.node) : Leads(h.attr, h.node[n].first)
    /\ \A n, m \in 1..Len(h.node) :
          h.node[n].first = h.node[m].first /\ h.node[n].first # Nil => n = m
    /\ \A n \in 1..Len(h.node) : h.node[n].first \notin attrs
    /\ \A a \in attrs : a \in 1..Len(h.attr) /\ Leads(h.attr, a)

NodeHeads(h, nodes) ==
    /\ Orderly(h.node) /\ Unshared(h.node)
    /\ \A b \in 1..Len(h.attr) : Leads(h.node, h.attr[b].node)
    /\ \A b, c \in 1..Len(h.attr) :
          h.attr[b].node = h.attr[c].node /\ h.attr[b].node # Nil => b = c
    /\ \A b \in 1..Len(h.attr) : h.attr[b].node \notin nodes
    /\ \A n \in nodes : n \in 1..Len(h.node) /\ Leads(h.node, n)

LEMMA SoundHeads ==
    ASSUME NEW h, NEW nodes, NEW attrs, Sound(h, nodes, attrs)
    PROVE  AttrHeads(h, attrs) /\ NodeHeads(h, nodes)
<1> DEFINE L == Len(h.node)
           M == Len(h.attr)
<1>1. Orderly(h.node) /\ Orderly(h.attr)
  BY SoundOrderly
<1>2. /\ Lists(L, M, Nexts(h.node), Subs(h.attr), nodes, Live(h.node))
      /\ Lists(M, L, Nexts(h.attr), Firsts(h.node), attrs, Live(h.attr))
  BY DEF Sound, NodeLists, AttrLists
<1>3. /\ \A n \in 1..L : Firsts(h.node)[n] = h.node[n].first
      /\ \A b \in 1..M : Subs(h.attr)[b] = h.attr[b].node
  BY DEF Firsts, Subs
<1>4. AttrHeads(h, attrs)
  <2>1. Unshared(h.attr)
    BY <1>2 DEF Lists, Apart, Unshared
  <2>2. ASSUME NEW n \in 1..L PROVE Leads(h.attr, h.node[n].first)
    <3>1. h.node[n].first \in 0..M
      BY <1>2, <1>3 DEF Lists
    <3>2. ASSUME h.node[n].first # Nil PROVE Unlinked(Nexts(h.attr), M, h.node[n].first)
      BY <1>2, <1>3, <3>2 DEF Lists, Apart, Unlinked
    <3> QED
      BY <3>1, <3>2 DEF Leads
  <2>3. \A n, m \in 1..L : h.node[n].first = h.node[m].first /\ h.node[n].first # Nil => n = m
    BY <1>2, <1>3 DEF Lists, Apart
  <2>4. \A n \in 1..L : h.node[n].first \notin attrs
    BY <1>2, <1>3 DEF Lists, Apart
  <2>5. ASSUME NEW a \in attrs PROVE a \in 1..M /\ Leads(h.attr, a)
    <3>1. a \in 1..M /\ Unlinked(Nexts(h.attr), M, a)
      BY <1>2 DEF Lists, Apart, Unlinked
    <3> QED
      BY <3>1 DEF Leads
  <2> QED
    BY <1>1, <2>1, <2>2, <2>3, <2>4, <2>5 DEF AttrHeads
<1>5. NodeHeads(h, nodes)
  <2>1. Unshared(h.node)
    BY <1>2 DEF Lists, Apart, Unshared
  <2>2. ASSUME NEW b \in 1..M PROVE Leads(h.node, h.attr[b].node)
    <3>1. h.attr[b].node \in 0..L
      BY <1>2, <1>3 DEF Lists
    <3>2. ASSUME h.attr[b].node # Nil PROVE Unlinked(Nexts(h.node), L, h.attr[b].node)
      BY <1>2, <1>3, <3>2 DEF Lists, Apart, Unlinked
    <3> QED
      BY <3>1, <3>2 DEF Leads
  <2>3. \A b, c \in 1..M : h.attr[b].node = h.attr[c].node /\ h.attr[b].node # Nil => b = c
    BY <1>2, <1>3 DEF Lists, Apart
  <2>4. \A b \in 1..M : h.attr[b].node \notin nodes
    BY <1>2, <1>3 DEF Lists, Apart
  <2>5. ASSUME NEW n \in nodes PROVE n \in 1..L /\ Leads(h.node, n)
    <3>1. n \in 1..L /\ Unlinked(Nexts(h.node), L, n)
      BY <1>2 DEF Lists, Apart, Unlinked
    <3> QED
      BY <3>1 DEF Leads
  <2> QED
    BY <1>1, <2>1, <2>2, <2>3, <2>4, <2>5 DEF NodeHeads
<1> QED
  BY <1>4, <1>5

\* A node the caller holds is in no attribute.
LEMMA HeldInNone ==
    ASSUME NEW h, NEW nodes, NEW attrs, Sound(h, nodes, attrs),
           NEW n \in nodes, NEW b \in 1..Len(h.attr)
    PROVE  n \notin ToSet(AttributeOf(h, b).nodes)
<1> DEFINE s == Chain(h.node, h.attr[b].node)
<1>1. AttributeOf(h, b).nodes = s
  BY DEF AttributeOf
<1>2. NodeHeads(h, nodes)
  BY SoundHeads
<1>3. CASE h.attr[b].node = Nil
  <2>1. s = <<>>
    BY <1>2, <1>3, ChainNil DEF NodeHeads
  <2> QED
    BY <1>1, <2>1 DEF ToSet
<1>4. CASE h.attr[b].node # Nil
  <2>1. /\ h.attr[b].node \in 1..Len(h.node) /\ Leads(h.node, h.attr[b].node)
        /\ n \in 1..Len(h.node) /\ Leads(h.node, n) /\ h.attr[b].node # n
        /\ Orderly(h.node) /\ Unshared(h.node)
    BY <1>2, <1>4 DEF NodeHeads, Leads, Nil
  <2>2. Disjoint(s, Chain(h.node, n))
    BY <2>1, HeadsApart
  <2>3. Chain(h.node, n)[1] = n /\ 1 \in 1..Len(Chain(h.node, n))
    BY <2>1, ChainFacts
  <2>4. DOMAIN s = 1..Len(s)
    BY <2>1, ChainFacts
  <2>5. \A i \in 1..Len(s) : s[i] # n
    BY <2>2, <2>3 DEF Disjoint
  <2> QED
    BY <1>1, <2>4, <2>5 DEF ToSet
<1> QED
  BY <1>3, <1>4

-----------------------------------------------------------------------------
(* The tree a heap stands for, and the lists that belong to no node *)

TreeOf(h) == [n \in Live(h.node) |-> AttributesFrom(h, h.node[n].first)]

ListOf(h, attrs) == [a \in attrs |-> AttributesFrom(h, a)]

\* The lists of h stand for the same in h2.
SameLists(h, h2) == \A p \in 0..Len(h.attr) : AttributesFrom(h2, p) = AttributesFrom(h, p)

LEMMA ListsStay ==
    ASSUME NEW h, NEW h2, SameLists(h, h2), NEW attrs, attrs \subseteq 0..Len(h.attr)
    PROVE  ListOf(h2, attrs) = ListOf(h, attrs)
BY DEF SameLists, ListOf

\* The attributes of h are those of h2 when neither kind of list changes.
LEMMA SameChains ==
    ASSUME NEW h, NEW nodes, NEW attrs, Sound(h, nodes, attrs), NEW h2,
           \A b \in 1..Len(h.attr) : /\ h2.attr[b].key = h.attr[b].key
                                     /\ h2.attr[b].kind = h.attr[b].kind
                                     /\ h2.attr[b].text = h.attr[b].text
                                     /\ h2.attr[b].node = h.attr[b].node,
           \A p \in 0..Len(h.node) : Chain(h2.node, p) = Chain(h.node, p),
           \A p \in 0..Len(h.attr) : Chain(h2.attr, p) = Chain(h.attr, p)
    PROVE  SameLists(h, h2) /\ AttributesBut(h, h2, {})
<1>1. AttributesBut(h, h2, {})
  <2>1. \A b \in 1..Len(h.attr) : h.attr[b].node \in 0..Len(h.node)
    BY SoundHeads DEF NodeHeads, Leads
  <2> QED
    BY <2>1 DEF AttributesBut, AttributeOf
<1>2. ASSUME NEW p \in 0..Len(h.attr) PROVE AttributesFrom(h2, p) = AttributesFrom(h, p)
  <2> DEFINE s == Chain(h.attr, p)
  <2>1. s \in Seq(1..Len(h.attr)) /\ Chain(h2.attr, p) = s
    BY SoundOrderly, ChainInSeq
  <2> HIDE DEF s
  <2>2. Mapped(h2, s) = Mapped(h, s)
    BY <1>1, <2>1, MappedKept
  <2> QED
    BY <2>1, <2>2, FromIsMapped DEF s
<1> QED
  BY <1>1, <1>2 DEF SameLists

\* A node changes but for the pointer to its sibling.
LEMMA SiblingStays ==
    ASSUME NEW h, NEW nodes, NEW attrs, Sound(h, nodes, attrs),
           NEW n \in Live(h.node), NEW rec, rec.next = h.node[n].next,
           NEW h2, NodeChange(h, n, rec, h2)
    PROVE  SameLists(h, h2) /\ Nexts(h2.node) = Nexts(h.node)
<1>1. /\ h2.attr = h.attr /\ SameBut(h.node, h2.node, n)
      /\ Nexts(h2.node) = [Nexts(h.node) EXCEPT ![n] = rec.next]
  BY DEF NodeChange
<1>2. Nexts(h2.node) = Nexts(h.node) /\ Len(h2.node) = Len(h.node)
  <2>1. [Nexts(h.node) EXCEPT ![n] = h.node[n].next] = Nexts(h.node)
    BY NodeKept, Zenon
  <2>2. Nexts(h2.node) = [Nexts(h.node) EXCEPT ![n] = h.node[n].next]
    BY <1>1, Zenon
  <2>3. Nexts(h2.node) = Nexts(h.node)
    BY <2>1, <2>2, Zenon
  <2> QED
    BY <1>1, <2>3 DEF SameBut
<1>3. Chains(h2.node) = Chains(h.node)
  BY <1>2, SoundOrderly, ChainsSame
<1>4. \A p \in 0..Len(h.node) : Chain(h2.node, p) = Chain(h.node, p)
  <2>1. \A p \in 0..Len(h.node) : /\ Chains(h2.node)[p] = Chain(h2.node, p)
                                  /\ Chains(h.node)[p] = Chain(h.node, p)
    BY <1>2 DEF Chains
  <2> QED
    BY <1>3, <2>1
<1> QED
  BY <1>1, <1>2, <1>4, SameChains

\* node->first_attr = rec.first.
LEMMA TreeSet ==
    ASSUME NEW h, NEW nodes, NEW attrs, Sound(h, nodes, attrs),
           NEW n \in Live(h.node), NEW rec, rec.next = h.node[n].next, rec.live,
           rec.first \in 0..Len(h.attr), NEW h2, NodeChange(h, n, rec, h2)
    PROVE  TreeOf(h2) = [TreeOf(h) EXCEPT ![n] = AttributesFrom(h, rec.first)]
<1>1. SameLists(h, h2)
  BY SiblingStays
<1>2. SameBut(h.node, h2.node, n) /\ h2.node[n] = rec
  BY DEF NodeChange
<1>3. Live(h2.node) = Live(h.node)
  <2>1. h.node[n].live
    BY DEF Live
  <2> QED
    BY <1>2, <2>1, LiveKept
<1>4. \A m \in Live(h.node) : h.node[m].first \in 0..Len(h.attr) /\ (m # n => h2.node[m] = h.node[m])
  <2>1. AttrHeads(h, attrs)
    BY SoundHeads
  <2> QED
    BY <1>2, <2>1 DEF AttrHeads, Leads, SameBut, Live
<1>5. ASSUME NEW m \in Live(h.node)
      PROVE  AttributesFrom(h2, h2.node[m].first)
             = IF m = n THEN AttributesFrom(h, rec.first) ELSE AttributesFrom(h, h.node[m].first)
  <2>1. CASE m = n
    BY <1>1, <1>2, <2>1 DEF SameLists
  <2>2. CASE m # n
    BY <1>1, <1>4, <2>2 DEF SameLists
  <2> QED
    BY <2>1, <2>2
<1>6. TreeOf(h2) = [m \in Live(h.node) |-> IF m = n THEN AttributesFrom(h, rec.first)
                                           ELSE AttributesFrom(h, h.node[m].first)]
  BY <1>3, <1>5 DEF TreeOf
<1> QED
  BY <1>6 DEF TreeOf

\* free(node).
LEMMA TreeFreed ==
    ASSUME NEW h, NEW nodes, NEW attrs, Sound(h, nodes, attrs),
           NEW n \in Live(h.node), NEW rec, rec.next = h.node[n].next, ~rec.live,
           NEW h2, NodeChange(h, n, rec, h2)
    PROVE  TreeOf(h2) = Tree!Without(TreeOf(h), n)
<1>1. SameLists(h, h2)
  BY SiblingStays
<1>2. SameBut(h.node, h2.node, n) /\ h2.node[n] = rec
  BY DEF NodeChange
<1>3. Live(h2.node) = Live(h.node) \ {n}
  BY <1>2, LiveChanged
<1>4. \A m \in Live(h.node) \ {n} : h.node[m].first \in 0..Len(h.attr) /\ h2.node[m] = h.node[m]
  <2>1. AttrHeads(h, attrs)
    BY SoundHeads
  <2> QED
    BY <1>2, <2>1 DEF AttrHeads, Leads, SameBut, Live
<1>5. \A m \in Live(h.node) \ {n} :
          AttributesFrom(h2, h2.node[m].first) = AttributesFrom(h, h.node[m].first)
  BY <1>1, <1>4 DEF SameLists
<1> QED
  BY <1>3, <1>5 DEF TreeOf, Tree!Without

\* An attribute changes but for its value and its place.
LEMMA PlaceStays ==
    ASSUME NEW h, NEW nodes, NEW attrs, Sound(h, nodes, attrs), NEW a \in 1..Len(h.attr),
           NEW rec, rec.next = h.attr[a].next, NEW h2, AttrChange(h, a, rec, h2)
    PROVE  \A p \in 0..Len(h.attr) : Chain(h2.attr, p) = Chain(h.attr, p)
<1>1. /\ SameBut(h.attr, h2.attr, a)
      /\ Nexts(h2.attr) = [Nexts(h.attr) EXCEPT ![a] = h.attr[a].next]
  BY DEF AttrChange
<1>2. [Nexts(h.attr) EXCEPT ![a] = h.attr[a].next] = Nexts(h.attr)
  <2>1. /\ Nexts(h.attr) \in [1..Len(h.attr) -> 0..Len(h.attr)]
        /\ Nexts(h.attr)[a] = h.attr[a].next
    BY SoundOrderly DEF Orderly, Nexts
  <2> QED
    BY <2>1, SameValue
<1>3. Nexts(h2.attr) = Nexts(h.attr)
  BY <1>1, <1>2, Zenon
<1>4. Len(h2.attr) = Len(h.attr)
  BY <1>1 DEF SameBut
<1>5. Chains(h2.attr) = Chains(h.attr)
  BY <1>3, <1>4, SoundOrderly, ChainsSame
<1>6. \A p \in 0..Len(h.attr) : /\ Chains(h2.attr)[p] = Chain(h2.attr, p)
                                /\ Chains(h.attr)[p] = Chain(h.attr, p)
  BY <1>4 DEF Chains
<1> QED
  BY <1>5, <1>6

\* free(attr).
LEMMA AttrFreedLists ==
    ASSUME NEW h, NEW nodes, NEW attrs, Sound(h, nodes, attrs), NEW a \in Live(h.attr),
           NEW h2, AttrChange(h, a, [h.attr[a] EXCEPT !.live = FALSE], h2)
    PROVE  SameLists(h, h2)
<1> DEFINE rec == [h.attr[a] EXCEPT !.live = FALSE]
<1>1. /\ rec.key = h.attr[a].key /\ rec.kind = h.attr[a].kind /\ rec.text = h.attr[a].text
      /\ rec.node = h.attr[a].node /\ rec.next = h.attr[a].next
  BY AttrFacts DEF AttrRecord
<1>2. AttrChange(h, a, rec, h2)
  OBVIOUS
<1> HIDE DEF rec
<1>3. \A p \in 0..Len(h.attr) : Chain(h2.attr, p) = Chain(h.attr, p)
  BY <1>1, <1>2, AttrFacts, PlaceStays
<1>4. h2.node = h.node /\ SameBut(h.attr, h2.attr, a) /\ h2.attr[a] = rec
  BY <1>2 DEF AttrChange
<1>5. \A b \in 1..Len(h.attr) : /\ h2.attr[b].key = h.attr[b].key
                                /\ h2.attr[b].kind = h.attr[b].kind
                                /\ h2.attr[b].text = h.attr[b].text
                                /\ h2.attr[b].node = h.attr[b].node
  BY <1>1, <1>4 DEF SameBut
<1> QED
  BY <1>3, <1>4, <1>5, SameChains

LEMMA TreeStays ==
    ASSUME NEW h, NEW nodes, NEW attrs, Sound(h, nodes, attrs),
           NEW h2, SameLists(h, h2), h2.node = h.node
    PROVE  TreeOf(h2) = TreeOf(h)
<1>1. \A n \in Live(h.node) : h.node[n].first \in 0..Len(h.attr)
  BY SoundHeads DEF AttrHeads, Leads, Live
<1> QED
  BY <1>1 DEF TreeOf, SameLists

LEMMA ListLost ==
    ASSUME NEW h, NEW attrs, NEW a
    PROVE  ListOf(h, attrs \ {a}) = Tree!Without(ListOf(h, attrs), a)
BY DEF ListOf, Tree!Without

\* a is the attribute i of n.
Element(h, n, i, a) ==
    n \in Live(h.node) /\ i \in 1..Len(Attrs(h, n)) /\ Attrs(h, n)[i] = a

\* Nothing changes but what a node points to besides its attributes and its life.
SameFirsts(h, h2) ==
    /\ Live(h2.node) = Live(h.node)
    /\ \A n \in Live(h.node) : h2.node[n].first = h.node[n].first

\* The attribute i of n is another.
Replaced(h, h2, n, i, attribute, attrs) ==
    /\ TreeOf(h2) = [TreeOf(h) EXCEPT ![n][i] = attribute]
    /\ ListOf(h2, attrs) = ListOf(h, attrs)

\* One attribute changes its value: the tree changes at its place.
LEMMA ElementChanged ==
    ASSUME NEW h, NEW nodes, NEW attrs, Sound(h, nodes, attrs),
           NEW n, NEW i, NEW a, Element(h, n, i, a),
           NEW h2, AttributesBut(h, h2, {a}), SameFirsts(h, h2),
           \A p \in 0..Len(h.attr) : Chain(h2.attr, p) = Chain(h.attr, p)
    PROVE  Replaced(h, h2, n, i, AttributeOf(h2, a), attrs)
<1> DEFINE p == h.node[n].first
           M == Len(h.attr)
           s == Chain(h.attr, p)
<1>1. /\ Orderly(h.attr) /\ Unshared(h.attr)
      /\ \A m \in Live(h.node) : m \in 1..Len(h.node) /\ Leads(h.attr, h.node[m].first)
      /\ \A m \in Live(h.node) : h.node[m].first = h.node[n].first /\ h.node[m].first # Nil => m = n
      /\ p \notin attrs
      /\ \A b \in attrs : b \in 1..M /\ Leads(h.attr, b)
  BY SoundHeads DEF AttrHeads, Live, Element
<1>2. n \in Live(h.node) /\ i \in 1..Len(s) /\ s[i] = a
  BY DEF Element, Attrs
<1>3. p # Nil
  <2> SUFFICES ASSUME p = Nil PROVE FALSE
    OBVIOUS
  <2>1. s = <<>>
    BY <1>1, ChainNil
  <2> QED
    BY <1>2, <2>1
<1>4. p \in 1..M /\ Leads(h.attr, p)
  BY <1>1, <1>2, <1>3 DEF Leads, Nil
<1>5. s \in Seq(1..M)
  BY <1>1, <1>4, ChainFacts
<1>6. ASSUME NEW q \in 0..M, Leads(h.attr, q), q # p
      PROVE  AttributesFrom(h2, q) = AttributesFrom(h, q)
  <2> DEFINE t == Chain(h.attr, q)
  <2>1. t \in Seq(1..M) /\ Chain(h2.attr, q) = t
    BY <1>1, ChainInSeq
  <2>2. \A j \in 1..Len(t) : t[j] \notin {a}
    <3>1. CASE q = Nil
      BY <1>1, <3>1, ChainNil
    <3>2. CASE q # Nil
      <4>1. q \in 1..M
        BY <3>2 DEF Nil
      <4>2. Disjoint(t, s)
        BY <1>1, <1>4, <1>6, <4>1, HeadsApart
      <4> QED
        BY <1>2, <4>2 DEF Disjoint
    <3> QED
      BY <3>1, <3>2
  <2> HIDE DEF t
  <2>3. Mapped(h2, t) = Mapped(h, t)
    BY <2>1, <2>2, MappedKept DEF M
  <2> QED
    BY <2>1, <2>3, FromIsMapped DEF t
<1>7. AttributesFrom(h2, p) = [AttributesFrom(h, p) EXCEPT ![i] = AttributeOf(h2, a)]
  <2>1. Chain(h2.attr, p) = s
    BY <1>4
  <2>2. \A j \in 1..Len(s) : s[j] = a => j = i
    BY <1>1, <1>2, <1>4, NoRepetition
  <2>3. /\ AttributesFrom(h2, p) = Mapped(h2, s)
        /\ AttributesFrom(h, p) = Mapped(h, s)
    BY <2>1, FromIsMapped
  <2> HIDE DEF s
  <2>4. DOMAIN s = 1..Len(s) /\ \A j \in 1..Len(s) : s[j] \in 1..M
    BY <1>5, LenProperties, ElementOfSeq
  <2>5. \A j \in 1..Len(s) : j # i => AttributeOf(h2, s[j]) = AttributeOf(h, s[j])
    BY <2>2, <2>4 DEF AttributesBut, M
  <2>6. Mapped(h2, s) = [Mapped(h, s) EXCEPT ![i] = AttributeOf(h2, a)]
    BY <1>2, <2>4, <2>5 DEF Mapped
  <2> QED
    BY <2>3, <2>6
<1>8. ListOf(h2, attrs) = ListOf(h, attrs)
  <2>1. \A b \in attrs : AttributesFrom(h2, b) = AttributesFrom(h, b)
    <3> HIDE DEF p
    <3>1. \A b \in attrs : b \in 0..M /\ b # p
      BY <1>1
    <3> QED
      BY <1>1, <1>6, <3>1
  <2> QED
    BY <2>1 DEF ListOf
<1>9. TreeOf(h2) = [TreeOf(h) EXCEPT ![n][i] = AttributeOf(h2, a)]
  <2>1. ASSUME NEW m \in Live(h.node)
        PROVE  AttributesFrom(h2, h2.node[m].first)
               = IF m = n THEN [AttributesFrom(h, p) EXCEPT ![i] = AttributeOf(h2, a)]
                 ELSE AttributesFrom(h, h.node[m].first)
    <3>1. h2.node[m].first = h.node[m].first
      BY DEF SameFirsts
    <3>2. CASE m = n
      BY <1>7, <3>1, <3>2
    <3>3. CASE m # n
      <4>1. h.node[m].first # p /\ h.node[m].first \in 0..M /\ Leads(h.attr, h.node[m].first)
        BY <1>1, <1>2, <1>3, <3>3 DEF Leads
      <4> QED
        BY <1>6, <3>1, <3>3, <4>1
    <3> QED
      BY <3>2, <3>3
  <2> DEFINE new == [AttributesFrom(h, p) EXCEPT ![i] = AttributeOf(h2, a)]
  <2> HIDE DEF new
  <2>2. TreeOf(h2) = [m \in Live(h.node) |-> IF m = n THEN new ELSE AttributesFrom(h, h.node[m].first)]
    BY <2>1 DEF TreeOf, SameFirsts, new
  <2>3. TreeOf(h2) = [TreeOf(h) EXCEPT ![n] = new]
    BY <2>2 DEF TreeOf
  <2>4. TreeOf(h)[n] = AttributesFrom(h, p)
    BY <1>2 DEF TreeOf
  <2> QED
    BY <2>3, <2>4 DEF new
<1> QED
  BY <1>8, <1>9 DEF Replaced

\* The attributes of the list that starts at a come behind those of head.
JoinedLists(h, h2, head, a) ==
    \A p \in 0..Len(h.attr) : Leads(h.attr, p) =>
        AttributesFrom(h2, p) = IF p = head THEN AttributesFrom(h, head) \o AttributesFrom(h, a)
                                ELSE AttributesFrom(h, p)

\* LL_CONCAT.
LEMMA AttrsLinked ==
    ASSUME NEW h, NEW nodes, NEW attrs, Sound(h, nodes, attrs),
           NEW head \in 1..Len(h.attr), Leads(h.attr, head), NEW a \in attrs, head # a,
           TailOf(h.attr, head) \in Live(h.attr),
           NEW h2, AttrChange(h, TailOf(h.attr, head),
                              [h.attr[TailOf(h.attr, head)] EXCEPT !.next = a], h2)
    PROVE  JoinedLists(h, h2, head, a)
<1> DEFINE M == Len(h.attr)
           e == TailOf(h.attr, head)
           rec == [h.attr[e] EXCEPT !.next = a]
<1>1. /\ Orderly(h.attr) /\ Unshared(h.attr) /\ a \in 1..M /\ Leads(h.attr, a)
  BY SoundHeads DEF AttrHeads
<1>2. /\ rec.key = h.attr[e].key /\ rec.kind = h.attr[e].kind /\ rec.text = h.attr[e].text
      /\ rec.node = h.attr[e].node /\ rec.next = a
  BY AttrFacts DEF AttrRecord
<1>3. AttrChange(h, e, rec, h2)
  OBVIOUS
<1> HIDE DEF rec
<1>4. /\ h2.node = h.node /\ SameBut(h.attr, h2.attr, e) /\ h2.attr[e] = rec
      /\ Nexts(h2.attr) = [Nexts(h.attr) EXCEPT ![e] = a] /\ Len(h2.attr) = M
  BY <1>2, <1>3 DEF AttrChange, SameBut
<1>5. JoinedAt(h.attr, h2.attr, head, a)
  BY <1>1, <1>4, ChainsJoined
<1> HIDE DEF e
<1>6. AttributesBut(h, h2, {})
  <2>1. \A b \in 1..M : /\ h2.attr[b].key = h.attr[b].key
                        /\ h2.attr[b].kind = h.attr[b].kind
                        /\ h2.attr[b].text = h.attr[b].text
                        /\ h2.attr[b].node = h.attr[b].node
    BY <1>2, <1>4 DEF SameBut
  <2> QED
    BY <1>4, <2>1 DEF AttributesBut, AttributeOf
<1>7. ASSUME NEW s \in Seq(1..M) PROVE Mapped(h2, s) = Mapped(h, s)
  BY <1>6, MappedKept
<1> SUFFICES ASSUME NEW p \in 0..M, Leads(h.attr, p)
             PROVE  AttributesFrom(h2, p)
                    = IF p = head THEN AttributesFrom(h, head) \o AttributesFrom(h, a)
                      ELSE AttributesFrom(h, p)
  BY DEF JoinedLists
<1> DEFINE s == Chain(h.attr, p)
           t == Chain(h.attr, a)
<1>8. s \in Seq(1..M) /\ t \in Seq(1..M)
  BY <1>1, ChainInSeq
<1>9. /\ AttributesFrom(h, p) = Mapped(h, s) /\ AttributesFrom(h, a) = Mapped(h, t)
      /\ AttributesFrom(h2, p) = Mapped(h2, Chain(h2.attr, p))
  BY FromIsMapped
<1>10. Chain(h2.attr, p) = IF p = head THEN s \o t ELSE s
  BY <1>5 DEF JoinedAt
<1> HIDE DEF s, t
<1>11. CASE p = head
  <2>1. s \o t \in Seq(1..M) /\ MapOfConcat(h, s, t)
    BY <1>8, ConcatProperties, MappedConcat
  <2> QED
    BY <1>7, <1>9, <1>10, <1>11, <2>1 DEF MapOfConcat
<1>12. CASE p # head
  BY <1>7, <1>8, <1>9, <1>10, <1>12
<1> QED
  BY <1>11, <1>12

\* The nodes of h keep their siblings.
SameSiblings(h, h2) == \A m \in 1..Len(h.node) : h2.node[m].next = h.node[m].next

\* The list that starts at a goes behind the attributes of n.
Gained(h, h2, n, a, attrs) ==
    /\ TreeOf(h2) = [TreeOf(h) EXCEPT ![n] = @ \o AttributesFrom(h, a)]
    /\ ListOf(h2, attrs \ {a}) = Tree!Without(ListOf(h, attrs), a)
    /\ SameSiblings(h, h2)

\* A list is put behind the attributes of n.
LEMMA JoinedTree ==
    ASSUME NEW h, NEW nodes, NEW attrs, Sound(h, nodes, attrs),
           NEW n \in Live(h.node), h.node[n].first # Nil, NEW a \in attrs,
           NEW h2, JoinedLists(h, h2, h.node[n].first, a), h2.node = h.node
    PROVE  Gained(h, h2, n, a, attrs)
<1>1. /\ \A m \in Live(h.node) : /\ Leads(h.attr, h.node[m].first)
                                 /\ h.node[m].first \in 0..Len(h.attr)
      /\ \A m \in Live(h.node) : h.node[m].first = h.node[n].first => m = n
      /\ \A b \in attrs : b # h.node[n].first /\ b \in 0..Len(h.attr) /\ Leads(h.attr, b)
  BY SoundHeads DEF AttrHeads, Live, Leads
<1>2. \A m \in Live(h.node) :
        AttributesFrom(h2, h.node[m].first)
        = IF m = n THEN AttributesFrom(h, h.node[n].first) \o AttributesFrom(h, a)
          ELSE AttributesFrom(h, h.node[m].first)
  BY <1>1 DEF JoinedLists
<1>3. TreeOf(h2) = [TreeOf(h) EXCEPT ![n] = @ \o AttributesFrom(h, a)]
  BY <1>2 DEF TreeOf
<1>4. \A b \in attrs : AttributesFrom(h2, b) = AttributesFrom(h, b)
  BY <1>1 DEF JoinedLists
<1>5. ListOf(h2, attrs \ {a}) = Tree!Without(ListOf(h, attrs), a)
  BY <1>4 DEF ListOf, Tree!Without
<1> QED
  BY <1>3, <1>5 DEF Gained, SameSiblings

\* The list that starts at a goes behind the one that starts at head.
Appended(h, h2, head, a, attrs) ==
    /\ TreeOf(h2) = TreeOf(h)
    /\ ListOf(h2, attrs \ {a})
       = Tree!Without([ListOf(h, attrs) EXCEPT ![head] = @ \o ListOf(h, attrs)[a]], a)
    /\ SameSiblings(h, h2)

\* A list is put behind another.
LEMMA JoinedLoose ==
    ASSUME NEW h, NEW nodes, NEW attrs, Sound(h, nodes, attrs),
           NEW head \in attrs, NEW a \in attrs, head # a,
           NEW h2, JoinedLists(h, h2, head, a), h2.node = h.node
    PROVE  Appended(h, h2, head, a, attrs)
<1>1. /\ \A m \in Live(h.node) : /\ Leads(h.attr, h.node[m].first) /\ h.node[m].first # head
                                 /\ h.node[m].first \in 0..Len(h.attr)
      /\ \A b \in attrs : b \in 0..Len(h.attr) /\ Leads(h.attr, b)
  BY SoundHeads DEF AttrHeads, Live, Leads
<1>2. \A m \in Live(h.node) :
        AttributesFrom(h2, h.node[m].first) = AttributesFrom(h, h.node[m].first)
  BY <1>1 DEF JoinedLists
<1>3. TreeOf(h2) = TreeOf(h)
  BY <1>2 DEF TreeOf
<1>4. \A b \in attrs :
         AttributesFrom(h2, b) = IF b = head THEN AttributesFrom(h, head) \o AttributesFrom(h, a)
                                 ELSE AttributesFrom(h, b)
  BY <1>1 DEF JoinedLists
<1>5. ListOf(h2, attrs \ {a})
      = Tree!Without([ListOf(h, attrs) EXCEPT ![head] = @ \o ListOf(h, attrs)[a]], a)
  BY <1>4 DEF ListOf, Tree!Without
<1> QED
  BY <1>3, <1>5 DEF Appended, SameSiblings

WithNodes(attribute, nodes) == [attribute EXCEPT !.nodes = nodes]

LEMMA NodesReplaced ==
    ASSUME NEW key, NEW kind, NEW text, NEW s, NEW t
    PROVE  WithNodes([key |-> key, kind |-> kind, text |-> text, nodes |-> s], t)
           = [key |-> key, kind |-> kind, text |-> text, nodes |-> t]
BY DEF WithNodes

\* The node sub is the last of the attribute b.
LastSibling(h, h2, b, sub) ==
    /\ AttributesBut(h, h2, {b}) /\ SameFirsts(h, h2)
    /\ AttributeOf(h2, b) = [AttributeOf(h, b) EXCEPT !.nodes = Append(@, sub)]

\* A node comes behind those of the attribute b.
LEMMA NodeBehind ==
    ASSUME NEW h, NEW nodes, NEW attrs, Sound(h, nodes, attrs),
           NEW b \in 1..Len(h.attr), h.attr[b].node # Nil,
           NEW sub \in nodes, h.node[sub].next = Nil,
           TailOf(h.node, h.attr[b].node) \in Live(h.node),
           NEW h2, SiblingIs(h, TailOf(h.node, h.attr[b].node), sub, h2)
    PROVE  LastSibling(h, h2, b, sub)
<1> DEFINE L == Len(h.node)
           head == h.attr[b].node
           e == TailOf(h.node, head)
           rec == [h.node[e] EXCEPT !.next = sub]
<1>1. /\ Orderly(h.node) /\ Unshared(h.node) /\ sub \in 1..L /\ Leads(h.node, sub)
      /\ head \in 1..L /\ Leads(h.node, head) /\ head # sub
      /\ \A c \in 1..Len(h.attr) : h.attr[c].node \in 0..L /\ Leads(h.node, h.attr[c].node)
      /\ \A c \in 1..Len(h.attr) : h.attr[c].node = head => c = b
  BY SoundHeads DEF NodeHeads, Leads, Nil
<1>2. rec.first = h.node[e].first /\ rec.live = h.node[e].live /\ rec.next = sub
  BY NodeKept DEF NodeRecord
<1>3. NodeChange(h, e, rec, h2)
  BY DEF SiblingIs
<1> HIDE DEF rec
<1>4. /\ h2.attr = h.attr /\ SameBut(h.node, h2.node, e) /\ h2.node[e] = rec
      /\ Nexts(h2.node) = [Nexts(h.node) EXCEPT ![e] = sub] /\ Len(h2.node) = L
  BY <1>2, <1>3 DEF NodeChange, SameBut
<1>5. JoinedAt(h.node, h2.node, head, sub)
  BY <1>1, <1>4, ChainsJoined
<1>6. Chain(h.node, sub) = <<sub>>
  BY <1>1, ChainAlone
<1>7. AttributesBut(h, h2, {b})
  <2>1. \A c \in 1..Len(h.attr) : c # b => Chain(h2.node, h.attr[c].node) = Chain(h.node, h.attr[c].node)
    BY <1>1, <1>5 DEF JoinedAt
  <2> QED
    BY <1>4, <2>1 DEF AttributesBut, AttributeOf
<1>8. SameFirsts(h, h2)
  <2>1. Live(h2.node) = Live(h.node)
    BY <1>2, <1>4, LiveKept
  <2>2. \A n \in Live(h.node) : h2.node[n].first = h.node[n].first
    BY <1>2, <1>4 DEF SameBut, Live
  <2> QED
    BY <2>1, <2>2 DEF SameFirsts
<1>9. Chain(h2.node, head) = Append(Chain(h.node, head), sub)
  <2>1. Chain(h2.node, head) = Chain(h.node, head) \o <<sub>>
    BY <1>1, <1>5, <1>6 DEF JoinedAt
  <2> DEFINE s == Chain(h.node, head)
  <2>2. s \in Seq(1..L)
    BY <1>1, ChainFacts
  <2> HIDE DEF s
  <2>3. s \o <<sub>> = Append(s, sub)
    BY <1>1, <2>2
  <2> QED
    BY <2>1, <2>3 DEF s
<1>10. AttributeOf(h2, b) = [AttributeOf(h, b) EXCEPT !.nodes = Append(@, sub)]
  <2> DEFINE s == Chain(h.node, head)
             t == Append(s, sub)
             key == h.attr[b].key
             kind == h.attr[b].kind
             text == h.attr[b].text
  <2>1. /\ AttributeOf(h2, b) = [key |-> key, kind |-> kind, text |-> text, nodes |-> t]
        /\ AttributeOf(h, b) = [key |-> key, kind |-> kind, text |-> text, nodes |-> s]
    BY <1>4, <1>9 DEF AttributeOf
  <2>2. AttributeOf(h, b).nodes = s
    BY <2>1
  <2> HIDE DEF s, t, key, kind, text
  <2>3. WithNodes(AttributeOf(h, b), t) = AttributeOf(h2, b)
    BY <2>1, NodesReplaced
  <2> QED
    BY <2>2, <2>3 DEF WithNodes, t
<1> QED
  BY <1>7, <1>8, <1>10 DEF LastSibling

\* malloc of a node.
LEMMA NodeGrown ==
    ASSUME NEW h, NEW nodes, NEW attrs, Sound(h, nodes, attrs),
           NEW h2, NEW nodes2, NEW attrs2, Sound(h2, nodes2, attrs2),
           h2.attr = h.attr, OneMore(h.node, h2.node),
           h2.node[Len(h.node) + 1].next = Nil, h2.node[Len(h.node) + 1].first = Nil,
           h2.node[Len(h.node) + 1].live
    PROVE  /\ TreeOf(h2) = Tree!With(TreeOf(h), Len(h.node) + 1, <<>>)
           /\ SameLists(h, h2)
<1> DEFINE L == Len(h.node)
           s == h.node
           t == h2.node
<1>1. Orderly(h.node) /\ Orderly(h2.node) /\ Orderly(h.attr) /\ L \in Nat
  BY SoundOrderly DEF OneMore
<1>2. Chains(h2.node) = Grown(Chains(h.node), L)
  BY <1>1, ChainsGrown
<1>3. \A p \in 0..L : Chain(h2.node, p) = Chain(h.node, p)
  <2>1. Len(h2.node) = L + 1
    BY DEF OneMore
  <2>2. \A p \in 0..L : /\ Chains(h2.node)[p] = Chain(h2.node, p)
                        /\ Chains(h.node)[p] = Chain(h.node, p)
                        /\ p \in 0..(L + 1) /\ p # L + 1
    BY <1>1, <2>1 DEF Chains
  <2> HIDE DEF L
  <2> QED
    BY <1>2, <2>2 DEF Grown
<1>4. SameLists(h, h2)
  BY <1>3, SameChains
<1>5. Live(h2.node) = Live(h.node) \cup {L + 1}
  <2> HIDE DEF s, t
  <2>1. Live(t) = Live(s) \cup {Len(s) + 1}
    BY LiveAdded DEF s, t
  <2> QED
    BY <2>1 DEF s, t
<1>6. \A m \in Live(h.node) : m # L + 1 /\ h2.node[m] = h.node[m] /\ h.node[m].first \in 0..Len(h.attr)
  <2>1. \A m \in Live(h.node) : m \in 1..L /\ h2.node[m] = h.node[m]
    BY DEF Live, OneMore
  <2>2. \A m \in 1..L : m # L + 1
    BY <1>1
  <2>3. \A m \in Live(h.node) : h.node[m].first \in 0..Len(h.attr)
    BY <2>1, SoundHeads DEF AttrHeads, Leads
  <2> QED
    BY <2>1, <2>2, <2>3
<1>7. AttributesFrom(h2, Nil) = <<>>
  <2>1. Chain(h2.attr, Nil) = <<>>
    BY <1>1, ChainNil
  <2>2. Mapped(h2, <<>>) = <<>>
    BY DEF Mapped
  <2> QED
    BY <2>1, <2>2, FromIsMapped
<1> HIDE DEF L
<1>8. \A m \in Live(h.node) \cup {L + 1} :
        AttributesFrom(h2, h2.node[m].first)
        = IF m = L + 1 THEN <<>> ELSE AttributesFrom(h, h.node[m].first)
  BY <1>4, <1>6, <1>7 DEF SameLists, L
<1> DEFINE T == TreeOf(h)
<1>9. DOMAIN T = Live(h.node) /\ \A m \in Live(h.node) : T[m] = AttributesFrom(h, h.node[m].first)
  BY DEF TreeOf
<1> HIDE DEF T
<1>10. TreeOf(h2) = [m \in Live(h.node) \cup {L + 1} |-> IF m = L + 1 THEN <<>> ELSE T[m]]
  BY <1>5, <1>6, <1>8, <1>9 DEF TreeOf
<1>11. TreeOf(h2) = Tree!With(T, L + 1, <<>>)
  BY <1>9, <1>10 DEF Tree!With
<1> QED
  BY <1>4, <1>11 DEF L, T

\* malloc of an attribute.
LEMMA AttrsGrown ==
    ASSUME NEW h, NEW nodes, NEW attrs, Sound(h, nodes, attrs),
           NEW h2, NEW nodes2, NEW attrs2, Sound(h2, nodes2, attrs2),
           h2.node = h.node, OneMore(h.attr, h2.attr), h2.attr[Len(h.attr) + 1].next = Nil
    PROVE  /\ SameLists(h, h2)
           /\ AttributesFrom(h2, Len(h.attr) + 1) = <<AttributeOf(h2, Len(h.attr) + 1)>>
<1> DEFINE M == Len(h.attr)
<1>1. Orderly(h.attr) /\ Orderly(h2.attr) /\ M \in Nat /\ Len(h2.attr) = M + 1
  BY SoundOrderly DEF OneMore
<1>2. Chains(h2.attr) = Grown(Chains(h.attr), M)
  BY <1>1, ChainsGrown
<1>3. \A p \in 0..M : Chain(h2.attr, p) = Chain(h.attr, p)
  <2>1. \A p \in 0..M : /\ Chains(h2.attr)[p] = Chain(h2.attr, p)
                        /\ Chains(h.attr)[p] = Chain(h.attr, p)
                        /\ p \in 0..(M + 1) /\ p # M + 1
    BY <1>1 DEF Chains
  <2> HIDE DEF M
  <2> QED
    BY <1>2, <2>1 DEF Grown
<1>4. SameLists(h, h2)
  BY <1>3, SameChains DEF OneMore
<1>5. Chain(h2.attr, M + 1) = <<M + 1>>
  BY <1>1, ChainAlone
<1>6. AttributesFrom(h2, M + 1) = <<AttributeOf(h2, M + 1)>>
  BY <1>5, FromIsMapped DEF Mapped
<1> QED
  BY <1>4, <1>6

-----------------------------------------------------------------------------
(* What a call does to the tree and to the lists *)

LEMMA NoAttributes ==
    ASSUME NEW h, NEW nodes, NEW attrs, Sound(h, nodes, attrs)
    PROVE  AttributesFrom(h, Nil) = <<>>
<1>1. Chain(h.attr, Nil) = <<>>
  BY SoundOrderly, ChainNil
<1> QED
  BY <1>1, FromIsMapped DEF Mapped

LEMMA FromInSeq ==
    ASSUME NEW h, NEW nodes, NEW attrs, Sound(h, nodes, attrs), NEW p \in 0..Len(h.attr)
    PROVE  AttributesFrom(h, p) \in Seq({AttributeOf(h, b) : b \in 1..Len(h.attr)})
<1> DEFINE s == Chain(h.attr, p)
<1>1. s \in Seq(1..Len(h.attr))
  BY SoundOrderly, ChainInSeq
<1> HIDE DEF s
<1>2. Mapped(h, s) \in Seq({AttributeOf(h, b) : b \in 1..Len(h.attr)})
  BY <1>1, MappedSeq
<1> QED
  BY <1>2, FromIsMapped DEF s

\* No node the caller has made stands among siblings.
HeldAlone(h, nodes) == \A n \in nodes : h.node[n].next = Nil

LEMMA AloneStays ==
    ASSUME NEW h, NEW nodes, NEW attrs, Sound(h, nodes, attrs), HeldAlone(h, nodes),
           NEW h2, SameSiblings(h, h2), NEW nodes2, nodes2 \subseteq nodes
    PROVE  HeldAlone(h2, nodes2)
BY NodeFacts DEF HeldAlone, SameSiblings

LEMMA SiblingsOfChange ==
    ASSUME NEW h, NEW nodes, NEW attrs, Sound(h, nodes, attrs),
           NEW n \in Live(h.node), NEW rec, rec.next = h.node[n].next,
           NEW h2, NodeChange(h, n, rec, h2)
    PROVE  SameSiblings(h, h2)
<1>1. SameBut(h.node, h2.node, n) /\ h2.node[n] = rec
  BY DEF NodeChange
<1> QED
  BY <1>1 DEF SameBut, SameSiblings

LEMMA FirstGained ==
    ASSUME NEW h, NEW nodes, NEW attrs, Sound(h, nodes, attrs), NEW n \in nodes, NEW a \in attrs,
           h.node[n].first = Nil,
           NEW h2, NodeChange(h, n, [h.node[n] EXCEPT !.first = a], h2)
    PROVE  Gained(h, h2, n, a, attrs)
<1> DEFINE rec == [h.node[n] EXCEPT !.first = a]
<1>1. n \in Live(h.node) /\ h.node[n] \in NodeRecord /\ h.node[n].live
  BY NodeFacts
<1>2. a \in 0..Len(h.attr) /\ attrs \ {a} \subseteq 0..Len(h.attr)
  <2>1. AttrHeads(h, attrs)
    BY SoundHeads
  <2> QED
    BY <2>1 DEF AttrHeads, Leads
<1>3. rec.next = h.node[n].next /\ rec.live /\ rec.first = a
  BY <1>1 DEF NodeRecord
<1>4. NodeChange(h, n, rec, h2)
  OBVIOUS
<1> HIDE DEF rec
<1>5. TreeOf(h2) = [TreeOf(h) EXCEPT ![n] = AttributesFrom(h, a)]
  <2>1. rec.first \in 0..Len(h.attr)
    BY <1>2, <1>3
  <2>2. TreeOf(h2) = [TreeOf(h) EXCEPT ![n] = AttributesFrom(h, rec.first)]
    BY <1>1, <1>3, <1>4, <2>1, TreeSet
  <2> QED
    BY <1>3, <2>2
<1>6. TreeOf(h)[n] = <<>>
  BY <1>1, NoAttributes DEF TreeOf
<1>7. <<>> \o AttributesFrom(h, a) = AttributesFrom(h, a)
  BY <1>2, FromInSeq, ConcatEmptySeq
<1>8. SameLists(h, h2) /\ SameSiblings(h, h2)
  BY <1>1, <1>3, <1>4, SiblingStays, SiblingsOfChange
<1>9. ListOf(h2, attrs \ {a}) = Tree!Without(ListOf(h, attrs), a)
  BY <1>2, <1>8, ListsStay, ListLost
<1> QED
  BY <1>5, <1>6, <1>7, <1>8, <1>9 DEF Gained

LEMMA LastGained ==
    ASSUME NEW h, NEW nodes, NEW attrs, Sound(h, nodes, attrs), NEW n \in nodes, NEW a \in attrs,
           h.node[n].first # Nil, TailOf(h.attr, h.node[n].first) \in Live(h.attr),
           NEW h2, AttrChange(h, TailOf(h.attr, h.node[n].first),
                              [h.attr[TailOf(h.attr, h.node[n].first)] EXCEPT !.next = a], h2)
    PROVE  Gained(h, h2, n, a, attrs)
<1> DEFINE head == h.node[n].first
<1>1. n \in Live(h.node) /\ n \in 1..Len(h.node)
  BY NodeFacts
<1>2. head \in 1..Len(h.attr) /\ Leads(h.attr, head) /\ head # a
  <2>1. AttrHeads(h, attrs)
    BY SoundHeads
  <2> QED
    BY <1>1, <2>1 DEF AttrHeads, Leads, Nil
<1>3. JoinedLists(h, h2, head, a)
  <2> HIDE DEF head
  <2>1. /\ TailOf(h.attr, head) \in Live(h.attr)
        /\ AttrChange(h, TailOf(h.attr, head), [h.attr[TailOf(h.attr, head)] EXCEPT !.next = a], h2)
    BY DEF head
  <2> QED
    BY <1>2, <2>1, AttrsLinked
<1>4. h2.node = h.node
  BY DEF AttrChange
<1> QED
  BY <1>1, <1>3, <1>4, JoinedTree

LEMMA JoinedGained ==
    ASSUME NEW h, NEW nodes, NEW attrs, Sound(h, nodes, attrs), NEW n \in nodes, NEW a \in attrs
    PROVE  /\ Sound(Joined(h, n, a), nodes, attrs \ {a})
           /\ Gained(h, Joined(h, n, a), n, a, attrs)
<1> DEFINE h2 == Joined(h, n, a)
<1>1. CASE h.node[n].first = Nil
  <2> DEFINE rec == [h.node[n] EXCEPT !.first = a]
  <2>1. Sound(h2, nodes, attrs \ {a}) /\ NodeChange(h, n, rec, h2)
    BY <1>1, JoinedFirst
  <2> HIDE DEF h2
  <2>2. Gained(h, h2, n, a, attrs)
    BY <1>1, <2>1, FirstGained
  <2> QED
    BY <2>1, <2>2 DEF h2
<1>2. CASE h.node[n].first # Nil
  <2> DEFINE e == TailOf(h.attr, h.node[n].first)
  <2>1. /\ Sound(h2, nodes, attrs \ {a}) /\ AttrChange(h, e, [h.attr[e] EXCEPT !.next = a], h2)
        /\ e \in Live(h.attr)
    BY <1>2, JoinedLast
  <2> HIDE DEF h2
  <2>2. Gained(h, h2, n, a, attrs)
    BY <1>2, <2>1, LastGained
  <2> QED
    BY <2>1, <2>2 DEF h2
<1> QED
  BY <1>1, <1>2

LEMMA AttachGains ==
    ASSUME NEW h, NEW nodes, NEW attrs, Sound(h, nodes, attrs),
           NEW n \in nodes, NEW a \in attrs, h.attr[a].next = Nil
    PROVE  Gained(h, ast_node_attach_attr(h, n, a), n, a, attrs)
<1>1. ast_node_attach_attr(h, n, a) = Joined(h, n, a)
  BY AttachJoins
<1>2. Gained(h, Joined(h, n, a), n, a, attrs)
  BY JoinedGained
<1> QED
  BY <1>1, <1>2

LEMMA SetFirstGains ==
    ASSUME NEW h, NEW nodes, NEW attrs, Sound(h, nodes, attrs),
           NEW n \in nodes, NEW a \in attrs, h.node[n].first = Nil
    PROVE  Gained(h, set_first_attr(h, n, a), n, a, attrs)
<1> DEFINE rec == [h.node[n] EXCEPT !.first = a]
           h2  == set_first_attr(h, n, a)
<1>1. h2 = PutNode(h, n, rec)
  BY DEF set_first_attr, PutNode
<1>2. NodeChange(h, n, rec, PutNode(h, n, rec))
  BY FirstTaken
<1> HIDE DEF h2
<1>3. NodeChange(h, n, rec, h2)
  BY <1>1, <1>2
<1>4. Gained(h, h2, n, a, attrs)
  BY <1>3, FirstGained
<1> QED
  BY <1>4 DEF h2

LEMMA AppendGains ==
    ASSUME NEW h, NEW nodes, NEW attrs, Sound(h, nodes, attrs),
           NEW n \in nodes, h.node[n].first # Nil, h.attr[h.node[n].first].next = Nil,
           NEW rest \in attrs
    PROVE  Gained(h, ast_node_attr_append(h, h.node[n].first, rest), n, rest, attrs)
<1> DEFINE first == h.node[n].first
           e  == TailOf(h.attr, first)
           h2 == ast_node_attr_append(h, first, rest)
<1>1. /\ first \in Live(h.attr) /\ Unlinked(Nexts(h.attr), Len(h.attr), first)
      /\ first # rest /\ h.attr[first].next = Nil
  BY FirstApart
<1>2. Followed(h, h2, first, rest) /\ e = first
  <2> HIDE DEF first
  <2>1. Free(h, attrs, first, rest)
    BY <1>1 DEF Free
  <2> QED
    BY <2>1, AppendLinks
<1> HIDE DEF h2
<1>3. e \in Live(h.attr) /\ AttrChange(h, e, [h.attr[e] EXCEPT !.next = rest], h2)
  <2> HIDE DEF first, e
  <2> QED
    BY <1>1, <1>2 DEF Followed
<1>4. Gained(h, h2, n, rest, attrs)
  BY <1>3, LastGained
<1> QED
  BY <1>4 DEF h2

LEMMA AppendJoinsLists ==
    ASSUME NEW h, NEW nodes, NEW attrs, Sound(h, nodes, attrs),
           NEW a \in attrs, h.attr[a].next = Nil, NEW rest \in attrs, a # rest
    PROVE  Appended(h, ast_node_attr_append(h, a, rest), a, rest, attrs)
<1> DEFINE e  == TailOf(h.attr, a)
           h2 == ast_node_attr_append(h, a, rest)
<1>1. a \in Live(h.attr) /\ Unlinked(Nexts(h.attr), Len(h.attr), a)
  BY LooseApart
<1>2. Followed(h, h2, a, rest) /\ e = a
  <2>1. Free(h, attrs, a, rest)
    BY <1>1 DEF Free
  <2> QED
    BY <2>1, AppendLinks
<1> HIDE DEF h2
<1>3. e \in Live(h.attr) /\ AttrChange(h, e, [h.attr[e] EXCEPT !.next = rest], h2)
  <2> HIDE DEF e
  <2> QED
    BY <1>1, <1>2 DEF Followed
<1>4. a \in 1..Len(h.attr) /\ Leads(h.attr, a)
  <2>1. AttrHeads(h, attrs)
    BY SoundHeads
  <2> QED
    BY <2>1 DEF AttrHeads
<1>5. JoinedLists(h, h2, a, rest)
  BY <1>3, <1>4, AttrsLinked
<1>6. h2.node = h.node
  BY <1>2 DEF AttrChange, Followed
<1>7. Appended(h, h2, a, rest, attrs)
  BY <1>5, <1>6, JoinedLoose
<1> QED
  BY <1>7 DEF h2

\* An attribute that owns sub, if there is one, and nothing else.
Owner(attribute, sub) ==
    /\ attribute \in Tree!Attribute
    /\ attribute.nodes = IF sub = Nil THEN <<>> ELSE <<sub>>

\* A new attribute, in no list.
Made(h, h2, sub) ==
    /\ h2.node = h.node /\ SameLists(h, h2)
    /\ NewAttr(h2) = Len(h.attr) + 1
    /\ AttributesFrom(h2, NewAttr(h2)) = <<AttributeOf(h2, NewAttr(h2))>>
    /\ Owner(AttributeOf(h2, NewAttr(h2)), sub)

LEMMA CreateMakes ==
    ASSUME NEW h, NEW nodes, NEW attrs, Sound(h, nodes, attrs), Len(h.node) <= MaxNodes,
           HeldAlone(h, nodes),
           NEW key \in Key, NEW kind \in AttrKind, NEW text \in Word \cup {NoText, Shared},
           NEW sub \in nodes \cup {Nil}, kind = "AST_NODE" <=> sub # Nil
    PROVE  Made(h, create_attr(h, key, kind, text, sub), sub)
<1> DEFINE rec == [key |-> key, kind |-> kind, text |-> text, node |-> sub,
                   next |-> Nil, live |-> TRUE]
           h2 == create_attr(h, key, kind, text, sub)
           M  == Len(h.attr)
           a  == NewAttr(h2)
<1>1. Sound(h2, nodes \ {sub}, attrs \cup {a})
  BY CreateAttr DEF Created
<1>2. h2 = [h EXCEPT !.attr = Append(h.attr, rec)]
  BY DEF create_attr
<1>3. h2.node = h.node /\ h2.attr = Append(h.attr, rec)
  BY <1>2 DEF Sound, Typed
<1>4. sub \in 0..Len(h.node) /\ Len(h.node) \in Nat /\ M \in Nat
  <2>1. Len(h.node) \in Nat /\ M \in Nat
    BY DEF Sound, NodeLists, Lists
  <2> QED
    BY <2>1, NodeFacts DEF Nil
<1>5. rec \in AttrRecord /\ h.attr \in Seq(AttrRecord)
  <2>1. sub \in Nat /\ Nil \in Nat
    BY <1>4 DEF Nil
  <2> QED
    BY <2>1 DEF AttrRecord, Sound, Typed
<1>6. /\ rec.key = key /\ rec.kind = kind /\ rec.text = text /\ rec.node = sub
      /\ rec.next = Nil
  OBVIOUS
<1> HIDE DEF rec, h2
<1>7. OneMore(h.attr, h2.attr) /\ h2.attr[M + 1] = rec
  BY <1>3, <1>5, OneAdded
<1>8. a = M + 1
  BY <1>7 DEF NewAttr, OneMore
<1> HIDE DEF a
<1>9. SameLists(h, h2) /\ AttributesFrom(h2, M + 1) = <<AttributeOf(h2, M + 1)>>
  BY <1>1, <1>3, <1>6, <1>7, AttrsGrown
<1>10. Chain(h2.node, sub) = IF sub = Nil THEN <<>> ELSE <<sub>>
  <2>1. Orderly(h.node)
    BY SoundOrderly
  <2>2. CASE sub = Nil
    BY <1>3, <2>1, <2>2, ChainNil
  <2>3. CASE sub # Nil
    <3>1. sub \in 1..Len(h.node) /\ h.node[sub].next = Nil
      BY <1>4, <2>3 DEF HeldAlone, Nil
    <3> QED
      BY <1>3, <2>1, <2>3, <3>1, ChainAlone
  <2> QED
    BY <2>2, <2>3
<1>11. AttributeOf(h2, M + 1) = [key |-> key, kind |-> kind, text |-> text,
                                 nodes |-> IF sub = Nil THEN <<>> ELSE <<sub>>]
  BY <1>6, <1>7, <1>10 DEF AttributeOf
<1>12. (IF sub = Nil THEN <<>> ELSE <<sub>>) \in Seq(1..(MaxNodes + MaxAttrs))
  <2>1. CASE sub = Nil
    BY <2>1
  <2>2. CASE sub # Nil
    <3>1. sub \in 1..(MaxNodes + MaxAttrs)
      BY <1>4, <2>2, ClientAssumption DEF Nil
    <3> QED
      BY <2>2, <3>1
  <2> QED
    BY <2>1, <2>2
<1>13. Owner(AttributeOf(h2, M + 1), sub)
  <2> DEFINE nodesOf == IF sub = Nil THEN <<>> ELSE <<sub>>
  <2>1. nodesOf \in Seq(1..(MaxNodes + MaxAttrs))
    BY <1>12
  <2>2. AttributeOf(h2, M + 1) = [key |-> key, kind |-> kind, text |-> text, nodes |-> nodesOf]
    BY <1>11
  <2> HIDE DEF nodesOf
  <2>3. AttributeOf(h2, M + 1) \in Tree!Attribute /\ AttributeOf(h2, M + 1).nodes = nodesOf
    BY <2>1, <2>2 DEF Tree!Attribute, AttrKind
  <2> QED
    BY <2>3 DEF Owner, nodesOf
<1> QED
  BY <1>3, <1>8, <1>9, <1>13 DEF Made, h2, a

LEMMA CellMakes ==
    ASSUME NEW h, NEW h1, NEW val, NEW sub, Made(h, h1, sub),
           NEW R, NEW S, NEW T, NEW U, h1 \in [node : R, attr : S, cell : T, status : U]
    PROVE  Made(h, [h1 EXCEPT !.cell = val], sub)
<1> DEFINE h2 == [h1 EXCEPT !.cell = val]
<1>1. h2.node = h1.node /\ h2.attr = h1.attr
  OBVIOUS
<1> HIDE DEF h2
<1>2. NewAttr(h2) = NewAttr(h1) /\ \A a : AttributeOf(h2, a) = AttributeOf(h1, a)
  BY <1>1 DEF NewAttr, AttributeOf
<1>3. \A a : AttributesFrom(h2, a) = AttributesFrom(h1, a)
  BY <1>1, <1>2 DEF AttributesFrom
<1>4. Made(h, h2, sub)
  BY <1>1, <1>2, <1>3 DEF Made, SameLists
<1> QED
  BY <1>4 DEF h2

\* The three functions that make an attribute with a text.
LEMMA TextMakes ==
    ASSUME NEW h, NEW nodes, NEW attrs, Sound(h, nodes, attrs), Len(h.node) <= MaxNodes,
           HeldAlone(h, nodes), NEW key \in Key, NEW val \in Word
    PROVE  /\ Made(h, ast_node_attr_create_str(h, key, val), Nil)
           /\ Made(h, ast_node_attr_create_const_str(h, key, val), Nil)
           /\ Made(h, ast_node_attr_create_integer(h, key, val), Nil)
<1>1. ASSUME NEW kind \in AttrKind, kind # "AST_NODE", NEW text \in Word \cup {NoText, Shared}
      PROVE  /\ Made(h, create_attr(h, key, kind, text, Nil), Nil)
             /\ Typed(create_attr(h, key, kind, text, Nil))
  <2>1. Nil \in nodes \cup {Nil} /\ (kind = "AST_NODE" <=> Nil # Nil)
    BY <1>1
  <2>2. Made(h, create_attr(h, key, kind, text, Nil), Nil)
    BY <2>1, CreateMakes
  <2>3. Created(h, create_attr(h, key, kind, text, Nil), nodes \ {Nil}, attrs)
    BY <2>1, CreateAttr
  <2> QED
    BY <2>2, <2>3 DEF Created, Sound
<1>2. Made(h, ast_node_attr_create_str(h, key, val), Nil)
  BY <1>1 DEF ast_node_attr_create_str, AttrKind
<1>3. Made(h, ast_node_attr_create_const_str(h, key, val), Nil)
  BY <1>1 DEF ast_node_attr_create_const_str, AttrKind
<1>4. Made(h, ast_node_attr_create_integer(h, key, val), Nil)
  <2> DEFINE h1 == create_attr(h, key, "INTEGER", Shared, Nil)
  <2>1. Made(h, h1, Nil) /\ Typed(h1)
    BY <1>1 DEF AttrKind
  <2> HIDE DEF h1
  <2>2. Made(h, [h1 EXCEPT !.cell = val], Nil)
    BY <2>1, CellMakes DEF Typed
  <2> QED
    BY <2>2 DEF h1, ast_node_attr_create_integer
<1> QED
  BY <1>2, <1>3, <1>4

\* Made and held by the caller: a list of its own.
Listed(h, h2, attrs) ==
    ListOf(h2, attrs \cup {NewAttr(h2)})
    = Tree!With(ListOf(h, attrs), NewAttr(h2), <<AttributeOf(h2, NewAttr(h2))>>)

LEMMA MadeLists ==
    ASSUME NEW h, NEW nodes, NEW attrs, Sound(h, nodes, attrs),
           NEW h2, NEW sub, Made(h, h2, sub)
    PROVE  /\ TreeOf(h2) = TreeOf(h) /\ SameSiblings(h, h2)
           /\ Listed(h, h2, attrs) /\ NewAttr(h2) \notin attrs
<1> DEFINE a == NewAttr(h2)
           list == <<AttributeOf(h2, a)>>
<1>1. h2.node = h.node /\ SameLists(h, h2) /\ AttributesFrom(h2, a) = list /\ a = Len(h.attr) + 1
  BY DEF Made
<1>2. attrs \subseteq 1..Len(h.attr) /\ Len(h.attr) \in Nat
  BY DEF Sound, AttrLists, Lists
<1>3. TreeOf(h2) = TreeOf(h) /\ SameSiblings(h, h2)
  BY <1>1, TreeStays DEF SameSiblings
<1>4. a \notin attrs
  BY <1>1, <1>2
<1>5. \A b \in attrs : AttributesFrom(h2, b) = AttributesFrom(h, b)
  BY <1>1, <1>2 DEF SameLists
<1> HIDE DEF a, list
<1>6. ListOf(h2, attrs \cup {a}) = Tree!With(ListOf(h, attrs), a, list)
  BY <1>1, <1>4, <1>5 DEF ListOf, Tree!With
<1> QED
  BY <1>3, <1>4, <1>6 DEF a, list, Listed

\* Made and attached: the last attribute of n.
Attached(h, h2, n, sub, attrs) ==
    /\ \E attribute : /\ Owner(attribute, sub)
                      /\ TreeOf(h2) = [TreeOf(h) EXCEPT ![n] = Append(@, attribute)]
    /\ ListOf(h2, attrs) = ListOf(h, attrs)
    /\ SameSiblings(h, h2)

LEMMA MadeAttaches ==
    ASSUME NEW h, NEW nodes0, NEW nodes, NEW attrs, Sound(h, nodes0, attrs),
           NEW made, Created(h, made, nodes, attrs), NEW sub, Made(h, made, sub),
           NEW n \in nodes
    PROVE  Attached(h, ast_node_attach_attr(made, n, NewAttr(made)), n, sub, attrs)
<1> DEFINE a  == NewAttr(made)
           h2 == ast_node_attach_attr(made, n, a)
           list == <<AttributeOf(made, a)>>
<1>1. Sound(made, nodes, attrs \cup {a}) /\ made.attr[a].next = Nil
  BY DEF Created
<1>2. /\ TreeOf(made) = TreeOf(h) /\ SameSiblings(h, made) /\ a \notin attrs
      /\ ListOf(made, attrs \cup {a}) = Tree!With(ListOf(h, attrs), a, list)
  BY MadeLists DEF Listed
<1>3. AttributesFrom(made, a) = list /\ Owner(AttributeOf(made, a), sub) /\ made.node = h.node
  BY DEF Made
<1>4. Gained(made, h2, n, a, attrs \cup {a})
  <2> HIDE DEF a
  <2> QED
    BY <1>1, AttachGains
<1>5. n \in Live(h.node) /\ n \in 1..Len(h.node)
  BY <1>1, <1>3, NodeFacts
<1>6. TreeOf(h)[n] \in Seq({AttributeOf(h, b) : b \in 1..Len(h.attr)})
  <2>1. h.node[n].first \in 0..Len(h.attr)
    <3>1. AttrHeads(h, attrs)
      BY SoundHeads
    <3> QED
      BY <1>5, <3>1 DEF AttrHeads, Leads
  <2>2. TreeOf(h)[n] = AttributesFrom(h, h.node[n].first)
    BY <1>5 DEF TreeOf
  <2> QED
    BY <2>1, <2>2, FromInSeq
<1> DEFINE t == TreeOf(h)[n]
           x == AttributeOf(made, a)
<1>7. t \o <<x>> = Append(t, x)
  <2> DEFINE R == {AttributeOf(h, b) : b \in 1..Len(h.attr)}
  <2>1. t \in Seq(R)
    BY <1>6
  <2> HIDE DEF t, x, R
  <2>2. t \in Seq(R \cup {x}) /\ <<x>> \in Seq(R \cup {x})
    BY <2>1
  <2> QED
    BY <2>2
<1> HIDE DEF h2
<1>8. TreeOf(h2) = [TreeOf(h) EXCEPT ![n] = t \o <<x>>]
  BY <1>2, <1>3, <1>4 DEF Gained
<1>9. TreeOf(h2) = [TreeOf(h) EXCEPT ![n] = Append(@, x)]
  BY <1>7, <1>8
<1>10. ListOf(h2, attrs) = ListOf(h, attrs)
  <2> HIDE DEF a, x, list
  <2>1. ListOf(h2, (attrs \cup {a}) \ {a}) = Tree!Without(ListOf(made, attrs \cup {a}), a)
    BY <1>4 DEF Gained
  <2>2. (attrs \cup {a}) \ {a} = attrs
    BY <1>2
  <2>3. ListOf(made, attrs) = Tree!Without(ListOf(made, attrs \cup {a}), a)
    BY <2>2, ListLost
  <2>4. ListOf(made, attrs) = ListOf(h, attrs)
    <3>1. attrs \subseteq 0..Len(h.attr)
      BY DEF Sound, AttrLists, Lists
    <3> QED
      BY <3>1, ListsStay DEF Made
  <2> QED
    BY <2>1, <2>2, <2>3, <2>4
<1>11. SameSiblings(h, h2)
  BY <1>2, <1>3, <1>4 DEF Gained, SameSiblings
<1> HIDE DEF x
<1>12. Attached(h, h2, n, sub, attrs)
  BY <1>3, <1>9, <1>10, <1>11 DEF Attached, x
<1> QED
  BY <1>12 DEF h2

\* The attribute i of n answers for its key.
Answers(tree, n, i) ==
    /\ n \in DOMAIN tree /\ i \in DOMAIN tree[n]
    /\ \A j \in 1..(i - 1) : tree[n][j].key # tree[n][i].key

LEMMA Found ==
    ASSUME NEW h, NEW nodes, NEW attrs, Sound(h, nodes, attrs), NEW n \in nodes, NEW key,
           NEW a, a = ast_node_get_attr(h, n, key), a # Nil
    PROVE  \E i : /\ Element(h, n, i, a) /\ Answers(TreeOf(h), n, i)
                  /\ TreeOf(h)[n][i] = AttributeOf(h, a)
<1> DEFINE s == Attrs(h, n)
           S == Matches(h, n, key)
           i == Min(S)
<1>1. S # {} /\ a = s[i]
  BY DEF ast_node_get_attr
<1>2. n \in Live(h.node) /\ n \in 1..Len(h.node) /\ h.node[n].first \in 0..Len(h.attr)
  <2>1. AttrHeads(h, attrs) /\ n \in Live(h.node) /\ n \in 1..Len(h.node)
    BY SoundHeads, NodeFacts
  <2> QED
    BY <2>1 DEF AttrHeads, Leads
<1>3. s \in Seq(1..Len(h.attr))
  BY <1>2, SoundOrderly, ChainInSeq DEF Attrs
<1>4. DOMAIN s = 1..Len(s) /\ Len(s) \in Nat /\ \A j \in 1..Len(s) : s[j] \in 1..Len(h.attr)
  BY <1>3, LenProperties, ElementOfSeq
<1>5. i \in S /\ \A j \in S : i <= j
  <2>1. S \subseteq Nat
    BY <1>4 DEF Matches
  <2> HIDE DEF S
  <2>2. \E k \in S : \A j \in S : k <= j
    BY <1>1, <2>1, LeastNumber
  <2> QED
    BY <2>2 DEF Min
<1>6. \A j \in 1..Len(s) : j \in S <=> h.attr[s[j]].key = key
  BY <1>4 DEF Matches
<1>7. i \in 1..Len(s)
  BY <1>4, <1>5 DEF Matches
<1>8. TreeOf(h)[n] = Mapped(h, s)
  BY <1>2, FromIsMapped DEF TreeOf, Attrs
<1> HIDE DEF s, S, i
<1>9. DOMAIN Mapped(h, s) = 1..Len(s) /\ \A j \in 1..Len(s) : Mapped(h, s)[j] = AttributeOf(h, s[j])
  BY <1>3, MappedSeq
<1>10. \A j \in 1..Len(s) : Mapped(h, s)[j].key = h.attr[s[j]].key
  BY <1>9 DEF AttributeOf
<1>11. \A j \in 1..(i - 1) : Mapped(h, s)[j].key # Mapped(h, s)[i].key
  <2> TAKE j \in 1..(i - 1)
  <2>1. j \in 1..Len(s) /\ ~(i <= j)
    BY <1>4, <1>7
  <2>2. h.attr[s[j]].key # key /\ h.attr[s[i]].key = key
    BY <1>5, <1>6, <1>7, <2>1
  <2> QED
    BY <1>7, <1>10, <2>1, <2>2
<1>12. Answers(TreeOf(h), n, i)
  <2>1. n \in DOMAIN TreeOf(h)
    BY <1>2 DEF TreeOf
  <2> QED
    BY <1>7, <1>8, <1>9, <1>11, <2>1 DEF Answers
<1>13. Element(h, n, i, a) /\ TreeOf(h)[n][i] = AttributeOf(h, a)
  BY <1>1, <1>2, <1>7, <1>8, <1>9 DEF Element, s
<1> QED
  BY <1>12, <1>13

\* An attribute of n has another text: the one that answers for a key, and no string.
Overwritten(h, h2, n, attrs) ==
    /\ \E i, val : /\ Answers(TreeOf(h), n, i)
                   /\ TreeOf(h)[n][i].kind \in {"CONST_STRING", "INTEGER"}
                   /\ TreeOf(h2) = [TreeOf(h) EXCEPT ![n][i].text = val]
    /\ ListOf(h2, attrs) = ListOf(h, attrs)
    /\ SameSiblings(h, h2)

WithText(attribute, text) == [attribute EXCEPT !.text = text]

LEMMA TextReplaced ==
    ASSUME NEW key, NEW kind, NEW text, NEW s, NEW t
    PROVE  WithText([key |-> key, kind |-> kind, text |-> text, nodes |-> s], t)
           = [key |-> key, kind |-> kind, text |-> t, nodes |-> s]
BY DEF WithText

LEMMA TextOverwrites ==
    ASSUME NEW h, NEW nodes, NEW attrs, Sound(h, nodes, attrs), NEW n \in nodes, NEW key,
           NEW a, a = ast_node_get_attr(h, n, key), a # Nil,
           h.attr[a].kind \in {"CONST_STRING", "INTEGER"}, NEW val \in Word
    PROVE  Overwritten(h, [h EXCEPT !.attr[a].text = val], n, attrs)
<1> DEFINE h2 == [h EXCEPT !.attr[a].text = val]
           rec == [h.attr[a] EXCEPT !.text = val]
<1>1. a \in 1..Len(h.attr)
  BY GetAttr
<1>2. AttrChange(h, a, rec, h2)
  BY <1>1, TextRewritten DEF Rewritten
<1>3. /\ rec.key = h.attr[a].key /\ rec.kind = h.attr[a].kind /\ rec.text = val
      /\ rec.node = h.attr[a].node /\ rec.next = h.attr[a].next
  <2>1. h.attr[a] \in AttrRecord
    <3> DEFINE s == h.attr
    <3>1. s \in Seq(AttrRecord)
      BY DEF Sound, Typed
    <3> HIDE DEF s
    <3>2. \A i \in 1..Len(s) : s[i] \in AttrRecord
      BY <3>1, ElementOfSeq
    <3> QED
      BY <1>1, <3>2 DEF s
  <2> QED
    BY <2>1 DEF AttrRecord
<1> HIDE DEF h2, rec
<1>4. /\ h2.node = h.node /\ SameBut(h.attr, h2.attr, a) /\ h2.attr[a] = rec
  BY <1>2 DEF AttrChange
<1>5. \A p \in 0..Len(h.attr) : Chain(h2.attr, p) = Chain(h.attr, p)
  BY <1>1, <1>2, <1>3, PlaceStays
<1>6. AttributesBut(h, h2, {a})
  BY <1>4 DEF AttributesBut, AttributeOf, SameBut
<1>7. SameFirsts(h, h2) /\ SameSiblings(h, h2)
  BY <1>4 DEF SameFirsts, SameSiblings
<1>8. PICK i : /\ Element(h, n, i, a) /\ Answers(TreeOf(h), n, i)
               /\ TreeOf(h)[n][i] = AttributeOf(h, a)
  BY Found
<1>9. Replaced(h, h2, n, i, AttributeOf(h2, a), attrs)
  BY <1>5, <1>6, <1>7, <1>8, ElementChanged
<1>10. AttributeOf(h2, a) = WithText(AttributeOf(h, a), val)
  <2> DEFINE s == Chain(h.node, h.attr[a].node)
             key2 == h.attr[a].key
             kind == h.attr[a].kind
             text == h.attr[a].text
  <2>1. /\ AttributeOf(h2, a) = [key |-> key2, kind |-> kind, text |-> val, nodes |-> s]
        /\ AttributeOf(h, a) = [key |-> key2, kind |-> kind, text |-> text, nodes |-> s]
    BY <1>3, <1>4 DEF AttributeOf
  <2> HIDE DEF s, key2, kind, text
  <2> QED
    BY <2>1, TextReplaced
<1>11. TreeOf(h2) = [TreeOf(h) EXCEPT ![n][i].text = val]
  <2> DEFINE T == TreeOf(h)
             x == AttributeOf(h2, a)
  <2>1. TreeOf(h2) = [T EXCEPT ![n][i] = x]
    BY <1>9 DEF Replaced
  <2>2. x = [T[n][i] EXCEPT !.text = val]
    BY <1>8, <1>10 DEF WithText
  <2> HIDE DEF T, x
  <2>3. TreeOf(h2) = [T EXCEPT ![n][i].text = val]
    BY <2>1, <2>2
  <2> QED
    BY <2>3 DEF T
<1>12. TreeOf(h)[n][i].kind \in {"CONST_STRING", "INTEGER"}
  BY <1>8 DEF AttributeOf
<1>13. Overwritten(h, h2, n, attrs)
  BY <1>7, <1>8, <1>9, <1>11, <1>12 DEF Overwritten, Replaced
<1> QED
  BY <1>13 DEF h2

\* A node is put behind those of the attribute of n that answers for a key.
NodeAppended(h, h2, n, sub, attrs) ==
    /\ \E i : /\ Answers(TreeOf(h), n, i)
              /\ TreeOf(h)[n][i].kind = "AST_NODE"
              /\ TreeOf(h2) = [TreeOf(h) EXCEPT ![n][i].nodes = Append(@, sub)]
    /\ ListOf(h2, attrs) = ListOf(h, attrs)

LEMMA NodeAppends ==
    ASSUME NEW h, NEW nodes, NEW attrs, Sound(h, nodes, attrs), HeldAlone(h, nodes),
           NEW n \in nodes, NEW key,
           NEW a, a = ast_node_get_attr(h, n, key), a # Nil, h.attr[a].kind = "AST_NODE",
           NEW sub \in nodes, TailOf(h.node, h.attr[a].node) \in Live(h.node),
           NEW h2, SiblingIs(h, TailOf(h.node, h.attr[a].node), sub, h2)
    PROVE  NodeAppended(h, h2, n, sub, attrs)
<1>1. a \in 1..Len(h.attr)
  BY GetAttr
<1>2. h.attr[a].node # Nil /\ h.node[sub].next = Nil
  BY <1>1 DEF Sound, Typed, HeldAlone
<1>3. /\ AttributesBut(h, h2, {a}) /\ SameFirsts(h, h2)
      /\ AttributeOf(h2, a) = [AttributeOf(h, a) EXCEPT !.nodes = Append(@, sub)]
  <2>1. LastSibling(h, h2, a, sub)
    BY <1>1, <1>2, NodeBehind
  <2> QED
    BY <2>1 DEF LastSibling
<1>4. h2.attr = h.attr
  BY DEF NodeChange, SiblingIs
<1>5. PICK i : /\ Element(h, n, i, a) /\ Answers(TreeOf(h), n, i)
               /\ TreeOf(h)[n][i] = AttributeOf(h, a)
  BY Found
<1>6. Replaced(h, h2, n, i, AttributeOf(h2, a), attrs)
  BY <1>3, <1>4, <1>5, ElementChanged
<1>7. TreeOf(h2) = [TreeOf(h) EXCEPT ![n][i].nodes = Append(@, sub)]
  <2> DEFINE T == TreeOf(h)
             x == AttributeOf(h2, a)
  <2>1. TreeOf(h2) = [T EXCEPT ![n][i] = x]
    BY <1>6 DEF Replaced
  <2>2. x = [T[n][i] EXCEPT !.nodes = Append(T[n][i].nodes, sub)]
    BY <1>3, <1>5
  <2> HIDE DEF T, x
  <2>3. TreeOf(h2) = [T EXCEPT ![n][i].nodes = Append(T[n][i].nodes, sub)]
    BY <2>1, <2>2
  <2> QED
    BY <2>3 DEF T
<1>8. TreeOf(h)[n][i].kind = "AST_NODE"
  BY <1>5 DEF AttributeOf
<1> QED
  BY <1>5, <1>6, <1>7, <1>8 DEF NodeAppended, Replaced

-----------------------------------------------------------------------------
(* What each function of ast.c does to the tree *)

\* The call has stopped the program before it changed a list or a node.
Refused(h, h2) == ~Running(h2) /\ h2.node = h.node /\ h2.attr = h.attr

LEMMA RefusedSame ==
    ASSUME NEW h, NEW h2, Refused(h, h2), NEW attrs
    PROVE  TreeOf(h2) = TreeOf(h) /\ ListOf(h2, attrs) = ListOf(h, attrs)
<1>1. h2.node = h.node /\ h2.attr = h.attr
  BY DEF Refused
<1>2. \A a : AttributeOf(h2, a) = AttributeOf(h, a)
  BY <1>1 DEF AttributeOf
<1>3. \A p : AttributesFrom(h2, p) = AttributesFrom(h, p)
  BY <1>1, <1>2 DEF AttributesFrom
<1> QED
  BY <1>1, <1>3 DEF TreeOf, ListOf

LEMMA Stops ==
    ASSUME NEW h, NEW nodes, NEW attrs, Sound(h, nodes, attrs)
    PROVE  Refused(h, Abort(h)) /\ Refused(h, Undefined(h))
BY DEF Refused, Abort, Undefined, Running, Sound, Typed

\* ast_node_create
LEMMA CreateEffect ==
    ASSUME NEW h, NEW nodes, NEW attrs, Sound(h, nodes, attrs), Running(h), HeldAlone(h, nodes),
           NEW type \in Type, NEW h2, h2 = ast_node_create(h, type)
    PROVE  /\ Running(h2) /\ NewNode(h2) = Len(h.node) + 1 /\ Len(h.node) \in Nat
           /\ HeldAlone(h2, nodes \cup {NewNode(h2)})
           /\ TreeOf(h2) = Tree!With(TreeOf(h), Len(h.node) + 1, <<>>)
           /\ ListOf(h2, attrs) = ListOf(h, attrs)
<1> DEFINE rec == [type |-> type, first |-> Nil, next |-> Nil, live |-> TRUE]
<1>1. /\ h.node \in Seq(NodeRecord) /\ Len(h.node) \in Nat
      /\ attrs \subseteq 0..Len(h.attr) /\ nodes \subseteq 1..Len(h.node)
  BY DEF Sound, Typed, NodeLists, AttrLists, Lists
<1>2. rec \in NodeRecord /\ rec.next = Nil /\ rec.first = Nil /\ rec.live
  BY DEF NodeRecord, Nil
<1>3. h2 = [h EXCEPT !.node = Append(@, rec)]
  BY DEF ast_node_create
<1>4. h2.node = Append(h.node, rec) /\ h2.attr = h.attr /\ h2.status = h.status
  BY <1>3 DEF Sound, Typed
<1> HIDE DEF rec
<1>5. OneMore(h.node, h2.node) /\ h2.node[Len(h.node) + 1] = rec
  <2> DEFINE s == h.node
  <2>1. s \in Seq(NodeRecord) /\ h2.node = Append(s, rec)
    BY <1>1, <1>4
  <2> HIDE DEF s
  <2>2. OneMore(s, Append(s, rec)) /\ Append(s, rec)[Len(s) + 1] = rec
    BY <1>2, <2>1, OneAdded
  <2>3. OneMore(s, h2.node) /\ h2.node[Len(s) + 1] = rec
    BY <2>1, <2>2, Zenon
  <2> QED
    BY <2>3 DEF s
<1>6. Sound(h2, nodes \cup {Len(h.node) + 1}, attrs)
  BY <1>2, <1>3, NodeAdded
<1>7. TreeOf(h2) = Tree!With(TreeOf(h), Len(h.node) + 1, <<>>) /\ SameLists(h, h2)
  BY <1>2, <1>4, <1>5, <1>6, NodeGrown
<1>8. ListOf(h2, attrs) = ListOf(h, attrs)
  BY <1>1, <1>7, ListsStay
<1>9. NewNode(h2) = Len(h.node) + 1
  BY <1>5 DEF OneMore, NewNode
<1>10. HeldAlone(h2, nodes \cup {NewNode(h2)})
  BY <1>1, <1>2, <1>5, <1>9 DEF HeldAlone, OneMore
<1> QED
  BY <1>1, <1>4, <1>7, <1>8, <1>9, <1>10 DEF Running

\* ast_node_attr_create_str, _const_str and _integer
LEMMA CreateTextEffect ==
    ASSUME NEW h, NEW nodes, NEW attrs, Sound(h, nodes, attrs), Running(h), HeldAlone(h, nodes),
           Len(h.node) <= MaxNodes, NEW key \in Key, NEW val \in Word,
           NEW h2 \in {ast_node_attr_create_str(h, key, val),
                       ast_node_attr_create_const_str(h, key, val),
                       ast_node_attr_create_integer(h, key, val)}
    PROVE  Running(h2) /\ Made(h, h2, Nil) /\ HeldAlone(h2, nodes)
<1>1. Created(h, h2, nodes, attrs)
  BY CreateText3
<1>2. Made(h, h2, Nil)
  BY TextMakes
<1>3. SameSiblings(h, h2)
  BY <1>2 DEF Made, SameSiblings
<1>4. HeldAlone(h2, nodes)
  BY <1>3, AloneStays
<1> QED
  BY <1>1, <1>2, <1>4 DEF Created, Running

\* ast_node_attr_create_node
LEMMA CreateNodeAttrEffect ==
    ASSUME NEW h, NEW nodes, NEW attrs, Sound(h, nodes, attrs), Running(h), HeldAlone(h, nodes),
           Len(h.node) <= MaxNodes, NEW key \in Key, NEW sub \in nodes \cup {Nil},
           NEW h2, h2 = ast_node_attr_create_node(h, key, sub)
    PROVE  \/ Refused(h, h2)
           \/ Running(h2) /\ sub \in nodes /\ Made(h, h2, sub) /\ HeldAlone(h2, nodes \ {sub})
<1>1. CASE sub = Nil
  BY <1>1, Stops DEF ast_node_attr_create_node
<1>2. CASE sub # Nil
  <2>1. "AST_NODE" \in AttrKind /\ NoText \in Word \cup {NoText, Shared}
    BY DEF AttrKind
  <2>2. h2 = create_attr(h, key, "AST_NODE", NoText, sub)
    BY <1>2 DEF ast_node_attr_create_node
  <2>3. Created(h, h2, nodes \ {sub}, attrs)
    BY <1>2, <2>1, <2>2, CreateAttr
  <2>4. Made(h, h2, sub)
    BY <1>2, <2>1, <2>2, CreateMakes
  <2>5. SameSiblings(h, h2)
    BY <2>4 DEF Made, SameSiblings
  <2>6. HeldAlone(h2, nodes \ {sub})
    BY <2>5, AloneStays
  <2> QED
    BY <1>2, <2>3, <2>4, <2>6 DEF Created, Running
<1> QED
  BY <1>1, <1>2

\* ast_node_set_attr_str, _const_str and _integer
LEMMA SetTextEffect ==
    ASSUME NEW h, NEW nodes, NEW attrs, Sound(h, nodes, attrs), Running(h), HeldAlone(h, nodes),
           Len(h.node) <= MaxNodes, NEW n \in nodes, NEW key \in Key, NEW val \in Word,
           NEW h2 \in {ast_node_set_attr_str(h, n, key, val),
                       ast_node_set_attr_const_str(h, n, key, val),
                       ast_node_set_attr_integer(h, n, key, val)}
    PROVE  \/ Refused(h, h2)
           \/ /\ Running(h2) /\ HeldAlone(h2, nodes)
              /\ Attached(h, h2, n, Nil, attrs) \/ Overwritten(h, h2, n, attrs)
<1> DEFINE a == ast_node_get_attr(h, n, key)
<1>1. Refused(h, Abort(h)) /\ Refused(h, Undefined(h))
  BY Stops
<1>2. ASSUME NEW made \in {ast_node_attr_create_str(h, key, val),
                           ast_node_attr_create_const_str(h, key, val),
                           ast_node_attr_create_integer(h, key, val)},
             h2 = ast_node_attach_attr(made, n, NewAttr(made))
      PROVE  Running(h2) /\ HeldAlone(h2, nodes) /\ Attached(h, h2, n, Nil, attrs)
  <2>1. Created(h, made, nodes, attrs)
    BY CreateText3
  <2>2. Made(h, made, Nil)
    BY TextMakes
  <2>3. Attached(h, h2, n, Nil, attrs)
    BY <1>2, <2>1, <2>2, MadeAttaches
  <2>4. HeldAlone(h2, nodes)
    BY <2>3, AloneStays DEF Attached
  <2>5. Running(h2)
    BY <1>2, <2>1 DEF Created, Sound, Typed, Running, ast_node_attach_attr
  <2> QED
    BY <2>3, <2>4, <2>5
<1>3. ASSUME a # Nil, h.attr[a].kind \in {"CONST_STRING", "INTEGER"},
             h2 = [h EXCEPT !.attr[a].text = val]
      PROVE  Running(h2) /\ HeldAlone(h2, nodes) /\ Overwritten(h, h2, n, attrs)
  <2>1. Overwritten(h, h2, n, attrs)
    BY <1>3, TextOverwrites
  <2>2. HeldAlone(h2, nodes)
    BY <2>1, AloneStays DEF Overwritten
  <2>3. Running(h2)
    BY <1>3 DEF Running, Sound, Typed
  <2> QED
    BY <2>1, <2>2, <2>3
<1>4. CASE a = Nil
  <2> HIDE DEF a
  <2>1. \E made \in {ast_node_attr_create_str(h, key, val),
                     ast_node_attr_create_const_str(h, key, val),
                     ast_node_attr_create_integer(h, key, val)} :
           h2 = ast_node_attach_attr(made, n, NewAttr(made))
    BY <1>4 DEF a, ast_node_set_attr_str, ast_node_set_attr_const_str, ast_node_set_attr_integer
  <2> QED
    BY <1>2, <2>1
<1>5. CASE a # Nil
  <2> HIDE DEF a
  <2>1. \/ h2 \in {Abort(h), Undefined(h)}
        \/ h.attr[a].kind \in {"CONST_STRING", "INTEGER"} /\ h2 = [h EXCEPT !.attr[a].text = val]
    BY <1>5 DEF a, ast_node_set_attr_str, ast_node_set_attr_const_str, ast_node_set_attr_integer
  <2> QED
    BY <1>1, <1>3, <1>5, <2>1
<1> QED
  BY <1>4, <1>5

\* ast_node_attr_node_append
LEMMA AppendNodeEffect ==
    ASSUME NEW h, NEW nodes, NEW attrs, Sound(h, nodes, attrs), Running(h), HeldAlone(h, nodes),
           Len(h.node) <= MaxNodes, NEW n \in nodes, NEW key \in Key,
           NEW sub \in nodes \cup {Nil}, sub # n,
           NEW h2, h2 = ast_node_attr_node_append(h, n, key, sub)
    PROVE  \/ Refused(h, h2)
           \/ sub = Nil /\ h2 = h
           \/ /\ sub \in nodes /\ Running(h2) /\ HeldAlone(h2, nodes \ {sub})
              /\ Attached(h, h2, n, sub, attrs) \/ NodeAppended(h, h2, n, sub, attrs)
<1> DEFINE a == ast_node_get_attr(h, n, key)
<1>1. CASE sub = Nil
  BY <1>1 DEF ast_node_attr_node_append
<1>2. ASSUME sub # Nil PROVE sub \in nodes /\ h.node[sub].next = Nil
  BY <1>2 DEF HeldAlone
<1>3. CASE sub # Nil /\ a = Nil
  <2> DEFINE made == ast_node_attr_create_node(h, key, sub)
  <2>1. h2 = ast_node_attach_attr(made, n, NewAttr(made))
    BY <1>2, <1>3 DEF ast_node_attr_node_append
  <2>2. made = create_attr(h, key, "AST_NODE", NoText, sub)
    BY <1>3 DEF ast_node_attr_create_node
  <2>3. "AST_NODE" \in AttrKind /\ NoText \in Word \cup {NoText, Shared}
    BY DEF AttrKind
  <2>4. Created(h, made, nodes \ {sub}, attrs) /\ Made(h, made, sub)
    <3>1. Created(h, create_attr(h, key, "AST_NODE", NoText, sub), nodes \ {sub}, attrs)
      BY <1>3, <2>3, CreateAttr
    <3>2. Made(h, create_attr(h, key, "AST_NODE", NoText, sub), sub)
      BY <1>3, <2>3, CreateMakes
    <3> QED
      BY <2>2, <3>1, <3>2
  <2> HIDE DEF made
  <2>5. Attached(h, h2, n, sub, attrs)
    <3>1. n \in nodes \ {sub}
      BY <1>3
    <3> QED
      BY <2>1, <2>4, <3>1, MadeAttaches
  <2>6. HeldAlone(h2, nodes \ {sub})
    BY <2>5, AloneStays DEF Attached
  <2>7. Running(h2)
    BY <2>1, <2>4 DEF Created, Sound, Typed, Running, ast_node_attach_attr
  <2> QED
    BY <1>2, <1>3, <2>5, <2>6, <2>7
<1>4. CASE sub # Nil /\ a # Nil /\ h.attr[a].kind # "AST_NODE"
  <2>1. h2 = Abort(h)
    BY <1>2, <1>4 DEF ast_node_attr_node_append
  <2> QED
    BY <2>1, Stops
<1>5. CASE sub # Nil /\ a # Nil /\ h.attr[a].kind = "AST_NODE"
  <2> HIDE DEF a
  <2> DEFINE p == h.attr[a].node
             e == TailOf(h.node, p)
  <2>1. a = ast_node_get_attr(h, n, key) /\ a \in 1..Len(h.attr)
    <3>1. a = ast_node_get_attr(h, n, key)
      BY DEF a
    <3> QED
      BY <1>5, <3>1, GetAttr
  <2>2. SiblingIs(h, e, sub, h2) /\ e \in Live(h.node)
    <3>1. /\ SiblingIs(h, e, sub, ast_node_attr_node_append(h, n, key, sub))
          /\ e \in Live(h.node)
      BY <1>2, <1>5, <2>1, AppendNodeLinks
    <3> QED
      BY <3>1
  <2>3. NodeAppended(h, h2, n, sub, attrs)
    BY <1>2, <1>5, <2>1, <2>2, NodeAppends
  <2>4. SameBut(h.node, h2.node, e) /\ h2.status = h.status
    <3> HIDE DEF e
    <3> QED
      BY <2>2 DEF SiblingIs, NodeChange
  <2>5. e \notin nodes
    <3>1. p # Nil /\ p \in 0..Len(h.node) /\ Orderly(h.node)
      <4>1. NodeHeads(h, nodes) /\ p # Nil
        BY <1>5, <2>1, SoundHeads DEF Sound, Typed
      <4> QED
        BY <2>1, <4>1 DEF NodeHeads, Leads
    <3> DEFINE s == Chain(h.node, p)
    <3>2. s \in Seq(1..Len(h.node)) /\ 1 \in 1..Len(s)
      <4>1. p \in 1..Len(h.node)
        BY <3>1 DEF Nil
      <4> QED
        BY <3>1, <4>1, ChainFacts, ChainInSeq
    <3>3. AttributeOf(h, a).nodes = s
      BY DEF AttributeOf
    <3>4. e = s[Len(s)]
      BY DEF TailOf, Last
    <3> HIDE DEF s, e
    <3>5. e \in ToSet(s)
      <4>1. DOMAIN s = 1..Len(s) /\ Len(s) \in Nat
        BY <3>2, LenProperties
      <4> QED
        BY <3>2, <3>4, <4>1 DEF ToSet
    <3>6. \A m \in nodes : m \notin ToSet(AttributeOf(h, a).nodes)
      BY <2>1, HeldInNone
    <3> QED
      BY <3>3, <3>5, <3>6
  <2> HIDE DEF e
  <2>6. HeldAlone(h2, nodes \ {sub})
    <3> SUFFICES ASSUME NEW m \in nodes PROVE h2.node[m].next = Nil
      BY DEF HeldAlone
    <3>1. m \in 1..Len(h.node) /\ m # e
      BY <2>5, NodeFacts
    <3> QED
      BY <2>4, <3>1 DEF SameBut, HeldAlone
  <2> QED
    BY <1>2, <1>5, <2>3, <2>4, <2>6 DEF Running
<1> QED
  BY <1>1, <1>3, <1>4, <1>5

\* A node loses its attributes.
LEMMA EmptiedEffect ==
    ASSUME NEW h, NEW nodes, NEW attrs, Sound(h, nodes, attrs), NEW n \in nodes,
           NEW h2, Emptied(h, n, h2)
    PROVE  /\ TreeOf(h2) = [TreeOf(h) EXCEPT ![n] = <<>>]
           /\ SameLists(h, h2) /\ SameSiblings(h, h2) /\ h2.status = h.status
           /\ h2.node[n].first = Nil
<1> DEFINE rec == [h.node[n] EXCEPT !.first = Nil]
<1>1. n \in Live(h.node) /\ h.node[n] \in NodeRecord /\ h.node[n].live
  BY NodeFacts
<1>2. rec.next = h.node[n].next /\ rec.live /\ rec.first = Nil
  BY <1>1 DEF NodeRecord
<1>3. NodeChange(h, n, rec, h2)
  BY DEF Emptied
<1> HIDE DEF rec
<1>4. rec.first \in 0..Len(h.attr)
  BY <1>2, SoundOrderly DEF Orderly, Nil
<1>5. TreeOf(h2) = [TreeOf(h) EXCEPT ![n] = AttributesFrom(h, rec.first)]
  BY <1>1, <1>2, <1>3, <1>4, TreeSet
<1>6. TreeOf(h2) = [TreeOf(h) EXCEPT ![n] = <<>>]
  <2>1. AttributesFrom(h, rec.first) = <<>>
    BY <1>2, NoAttributes
  <2> QED
    BY <1>5, <2>1, Zenon
<1>7. SameLists(h, h2) /\ SameSiblings(h, h2)
  BY <1>1, <1>2, <1>3, SiblingStays, SiblingsOfChange
<1>8. h2.status = h.status /\ h2.node[n] = rec
  BY <1>3 DEF NodeChange
<1> QED
  BY <1>2, <1>6, <1>7, <1>8

\* A node is freed.
LEMMA GoneEffect ==
    ASSUME NEW h, NEW nodes, NEW attrs, Sound(h, nodes, attrs), NEW n \in nodes,
           NEW h2, NodeGone(h, n, h2)
    PROVE  /\ TreeOf(h2) = Tree!Without(TreeOf(h), n)
           /\ SameLists(h, h2) /\ SameSiblings(h, h2) /\ h2.status = h.status
<1> DEFINE rec == [h.node[n] EXCEPT !.live = FALSE]
<1>1. n \in Live(h.node) /\ h.node[n] \in NodeRecord
  BY NodeFacts
<1>2. rec.next = h.node[n].next /\ ~rec.live
  BY <1>1 DEF NodeRecord
<1>3. NodeChange(h, n, rec, h2)
  BY DEF NodeGone
<1> HIDE DEF rec
<1>4. TreeOf(h2) = Tree!Without(TreeOf(h), n)
  BY <1>1, <1>2, <1>3, TreeFreed
<1>5. SameLists(h, h2) /\ SameSiblings(h, h2)
  BY <1>1, <1>2, <1>3, SiblingStays, SiblingsOfChange
<1>6. h2.status = h.status
  BY <1>3 DEF NodeChange
<1> QED
  BY <1>4, <1>5, <1>6

LEMMA AttrsInHeap ==
    ASSUME NEW h, NEW nodes, NEW attrs, Sound(h, nodes, attrs)
    PROVE  attrs \subseteq 0..Len(h.attr)
BY DEF Sound, AttrLists, Lists

LEMMA JoinedOther ==
    ASSUME NEW h, NEW nodes, NEW attrs, Sound(h, nodes, attrs), NEW n \in nodes, NEW m \in nodes,
           m # n, NEW a
    PROVE  Joined(h, n, a).node[m] = h.node[m]
<1>1. m \in DOMAIN h.node
  <2> DEFINE s == h.node
  <2>1. s \in Seq(NodeRecord) /\ m \in 1..Len(s)
    BY NodeFacts DEF Sound, Typed
  <2> HIDE DEF s
  <2>2. m \in DOMAIN s
    BY <2>1, LenProperties
  <2> QED
    BY <2>2 DEF s
<1>2. \E p, s : Joined(h, n, a) = [h EXCEPT !.attr = s, !.node[n].first = p]
  BY DEF Joined
<1> QED
  BY <1>1, <1>2 DEF Sound, Typed

\* The attributes of m are behind those of n, and m is left with none.
Drained(h, h1, n, m, nodes, attrs) ==
    /\ Sound(h1, nodes, attrs) /\ h1.status = h.status /\ h1.node[m].first = Nil
    /\ TreeOf(h1) = [[TreeOf(h) EXCEPT ![n] = @ \o TreeOf(h)[m]] EXCEPT ![m] = <<>>]
    /\ ListOf(h1, attrs) = ListOf(h, attrs)
    /\ SameSiblings(h, h1)

LEMMA MovedDrains ==
    ASSUME NEW h, NEW nodes, NEW attrs, Sound(h, nodes, attrs),
           NEW n \in nodes, NEW m \in nodes, m # n,
           NEW h1, Moved(h, n, m, h1, nodes, attrs)
    PROVE  Drained(h, h1, n, m, nodes, attrs)
<1> DEFINE f == h.node[m].first
           T == TreeOf(h)
           R == {AttributeOf(h, b) : b \in 1..Len(h.attr)}
<1>1. n \in Live(h.node) /\ m \in Live(h.node)
  BY NodeFacts
<1>2. /\ T[n] = AttributesFrom(h, h.node[n].first) /\ T[m] = AttributesFrom(h, f)
      /\ DOMAIN T = Live(h.node) /\ T = [x \in Live(h.node) |-> T[x]]
  BY <1>1 DEF TreeOf
<1>3. T[n] \in Seq(R)
  <2>1. h.node[n].first \in 0..Len(h.attr)
    <3>1. AttrHeads(h, attrs)
      BY SoundHeads
    <3> QED
      BY <1>1, <3>1 DEF AttrHeads, Leads, Live
  <2> QED
    BY <1>2, <2>1, FromInSeq
<1>4. CASE f = Nil
  <2>1. h1 = h
    BY <1>4 DEF Moved
  <2>2. T[m] = <<>>
    BY <1>2, <1>4, NoAttributes
  <2>3. T[n] \o T[m] = T[n]
    <3> HIDE DEF T, R
    <3> QED
      BY <1>3, <2>2, ConcatEmptySeq
  <2>4. [[T EXCEPT ![n] = T[n] \o T[m]] EXCEPT ![m] = <<>>] = T
    <3> HIDE DEF T
    <3> QED
      BY <1>1, <1>2, <2>2, <2>3
  <2>5. SameSiblings(h, h)
    BY DEF SameSiblings
  <2> QED
    BY <1>4, <2>1, <2>4, <2>5 DEF Drained
<1>5. CASE f # Nil
  <2>1. PICK g : /\ Sound(g, nodes, attrs \cup {f}) /\ Emptied(h, m, g)
                 /\ h1 = Joined(g, n, f)
    BY <1>5 DEF Moved
  <2>2. f \notin attrs /\ f \in 0..Len(h.attr)
    <3>1. f \in Live(h.attr) /\ f \notin attrs
      BY <1>5, FirstApart
    <3> QED
      BY <3>1, AttrFacts
  <2>3. /\ TreeOf(g) = [T EXCEPT ![m] = <<>>] /\ SameLists(h, g) /\ SameSiblings(h, g)
        /\ g.status = h.status /\ g.node[m].first = Nil
    <3> HIDE DEF T
    <3> QED
      BY <2>1, EmptiedEffect DEF T
  <2> HIDE DEF f
  <2>4. /\ Sound(h1, nodes, (attrs \cup {f}) \ {f})
        /\ Gained(g, h1, n, f, attrs \cup {f})
    BY <2>1, JoinedGained
  <2>5. (attrs \cup {f}) \ {f} = attrs
    BY <2>2
  <2>6. h1.status = g.status
    BY <2>1 DEF Joined, Sound, Typed
  <2>7. h1.node[m] = g.node[m]
    BY <2>1, JoinedOther
  <2>8. AttributesFrom(g, f) = T[m]
    BY <1>2, <2>2, <2>3 DEF SameLists
  <2>9. TreeOf(h1) = [TreeOf(g) EXCEPT ![n] = @ \o T[m]]
    BY <2>4, <2>8 DEF Gained
  <2>10. TreeOf(h1) = [[T EXCEPT ![n] = T[n] \o T[m]] EXCEPT ![m] = <<>>]
    <3> HIDE DEF T
    <3> QED
      BY <1>1, <1>2, <2>3, <2>9
  <2>11. ListOf(h1, attrs) = ListOf(h, attrs)
    <3>1. ListOf(h1, attrs) = ListOf(g, attrs)
      BY <2>4, <2>5, ListLost DEF Gained
    <3>2. ListOf(g, attrs) = ListOf(h, attrs)
      BY <2>3, AttrsInHeap, ListsStay
    <3> QED
      BY <3>1, <3>2
  <2>12. SameSiblings(h, h1)
    <3>1. SameSiblings(g, h1)
      BY <2>4 DEF Gained
    <3>2. Len(g.node) = Len(h.node)
      BY <2>1 DEF Emptied, NodeChange, SameBut
    <3> QED
      BY <2>3, <3>1, <3>2 DEF SameSiblings
  <2> QED
    BY <2>3, <2>4, <2>5, <2>6, <2>7, <2>10, <2>11, <2>12 DEF Drained
<1> QED
  BY <1>4, <1>5

\* ast_node_extend
Merged(tree, n, m) == Tree!Without([tree EXCEPT ![n] = @ \o tree[m]], m)

LEMMA ExtendEffect ==
    ASSUME NEW h, NEW nodes, NEW attrs, Sound(h, nodes, attrs), Running(h), HeldAlone(h, nodes),
           NEW n \in nodes, NEW m \in nodes, m # n, NEW h2, h2 = ast_node_extend(h, n, m)
    PROVE  /\ Running(h2) /\ HeldAlone(h2, nodes \ {m})
           /\ TreeOf(h2) = Merged(TreeOf(h), n, m)
           /\ ListOf(h2, attrs) = ListOf(h, attrs)
<1>1. PICK h1 : Moved(h, n, m, h1, nodes, attrs) /\ h2 = ast_node_destroy(h1, m)
  BY ExtendMoves
<1>2. Drained(h, h1, n, m, nodes, attrs)
  BY <1>1, MovedDrains
<1>3. Sound(h1, nodes, attrs) /\ Running(h1) /\ h1.node[m].first = Nil /\ SameSiblings(h, h1)
  BY <1>2 DEF Drained, Running
<1>4. HeldAlone(h1, nodes)
  BY <1>3, AloneStays
<1>5. NodeGone(h1, m, h2)
  <2>1. h1.node[m].next = Nil
    BY <1>4 DEF HeldAlone
  <2> QED
    BY <1>1, <1>3, <2>1, DestroyEmpty
<1>6. /\ TreeOf(h2) = Tree!Without(TreeOf(h1), m)
      /\ SameLists(h1, h2) /\ SameSiblings(h1, h2) /\ h2.status = h1.status
  BY <1>3, <1>5, GoneEffect
<1>7. HeldAlone(h2, nodes \ {m})
  BY <1>3, <1>4, <1>6, AloneStays
<1>8. TreeOf(h2) = Tree!Without([TreeOf(h) EXCEPT ![n] = @ \o TreeOf(h)[m]], m)
  <2> DEFINE U == [TreeOf(h) EXCEPT ![n] = @ \o TreeOf(h)[m]]
  <2>1. TreeOf(h1) = [U EXCEPT ![m] = <<>>]
    BY <1>2 DEF Drained
  <2> HIDE DEF U
  <2>2. Tree!Without([U EXCEPT ![m] = <<>>], m) = Tree!Without(U, m)
    BY DEF Tree!Without
  <2>3. TreeOf(h2) = Tree!Without(U, m)
    BY <1>6, <2>1, <2>2
  <2> QED
    BY <2>3 DEF U
<1>9. ListOf(h2, attrs) = ListOf(h, attrs)
  <2>1. ListOf(h2, attrs) = ListOf(h1, attrs)
    BY <1>3, <1>6, AttrsInHeap, ListsStay
  <2> QED
    BY <1>2, <2>1 DEF Drained
<1> QED
  BY <1>3, <1>6, <1>7, <1>8, <1>9 DEF Running, Merged

\* The attributes that can be freed own nothing.
Plain(kind) == kind \in {"CONST_STRING", "INTEGER"}

LEMMA PlainIs == \A kind \in AttrKind : kind \notin {"AST_NODE", "STRING"} => Plain(kind)
BY DEF AttrKind, Plain

\* A list of one attribute that owns nothing.
LEMMA OneDisposable ==
    ASSUME NEW h, NEW nodes, NEW attrs, Sound(h, nodes, attrs),
           NEW a \in Live(h.attr), h.attr[a].next = Nil,
           h.attr[a].kind \notin {"AST_NODE", "STRING"}
    PROVE  Tree!Disposable(AttributesFrom(h, a))
<1>1. a \in 1..Len(h.attr) /\ h.attr[a].kind \in AttrKind
  BY AttrFacts DEF AttrRecord
<1>2. Plain(h.attr[a].kind)
  BY <1>1, PlainIs
<1>3. Chain(h.attr, a) = <<a>>
  BY <1>1, SoundOrderly, ChainAlone
<1>4. AttributesFrom(h, a) = Mapped(h, <<a>>)
  BY <1>3, FromIsMapped
<1>5. DOMAIN Mapped(h, <<a>>) = {1} /\ Mapped(h, <<a>>)[1] = AttributeOf(h, a)
  BY DEF Mapped
<1>6. AttributeOf(h, a).kind = h.attr[a].kind
  BY DEF AttributeOf
<1> DEFINE s == AttributesFrom(h, a)
<1>7. DOMAIN s = {1} /\ s[1].kind = h.attr[a].kind
  BY <1>4, <1>5, <1>6
<1> HIDE DEF s
<1>8. Tree!Disposable(s)
  BY <1>2, <1>7 DEF Tree!Disposable, Plain
<1> QED
  BY <1>8 DEF s

\* An attribute of the caller is freed.
LEMMA AttrGoneEffect ==
    ASSUME NEW h, NEW nodes, NEW attrs, Sound(h, nodes, attrs), NEW a \in Live(h.attr),
           NEW h2, AttrGone(h, a, h2)
    PROVE  SameLists(h, h2) /\ h2.node = h.node /\ h2.status = h.status
<1>1. SameLists(h, h2)
  BY AttrFreedLists DEF AttrGone
<1> QED
  BY <1>1 DEF AttrGone, AttrChange

\* ast_node_attr_destroy
LEMMA DestroyAttrEffect ==
    ASSUME NEW h, NEW nodes, NEW attrs, Sound(h, nodes, attrs), Running(h), HeldAlone(h, nodes),
           NEW a \in attrs, NEW h2, h2 = ast_node_attr_destroy(h, a)
    PROVE  \/ Refused(h, h2)
           \/ /\ Running(h2) /\ HeldAlone(h2, nodes) /\ TreeOf(h2) = TreeOf(h)
              /\ ListOf(h2, attrs \ {a}) = Tree!Without(ListOf(h, attrs), a)
              /\ Tree!Disposable(ListOf(h, attrs)[a])
<1>1. CASE h.attr[a].next # Nil \/ h.attr[a].kind \in {"AST_NODE", "STRING"}
  <2>1. h2 \in {Abort(h), Undefined(h)}
    BY <1>1 DEF ast_node_attr_destroy
  <2> QED
    BY <2>1, Stops
<1>2. CASE h.attr[a].next = Nil /\ h.attr[a].kind \notin {"AST_NODE", "STRING"}
  <2>1. a \in Live(h.attr) /\ h.attr[a].node = Nil /\ a \in 1..Len(h.attr)
    BY <1>2, LooseApart, AttrFacts
  <2> DEFINE rec == [h.attr[a] EXCEPT !.live = FALSE]
  <2>2. AttrChange(h, a, rec, PutAttr(h, a, rec))
    BY <1>2, <2>1, AttrFreed
  <2>3. h2 = PutAttr(h, a, rec)
    BY <1>2 DEF ast_node_attr_destroy, PutAttr
  <2>4. AttrGone(h, a, h2)
    BY <2>2, <2>3 DEF AttrGone
  <2>5. SameLists(h, h2) /\ h2.node = h.node /\ h2.status = h.status
    BY <2>1, <2>4, AttrGoneEffect
  <2>6. TreeOf(h2) = TreeOf(h)
    BY <2>5, TreeStays
  <2>7. ListOf(h2, attrs \ {a}) = Tree!Without(ListOf(h, attrs), a)
    <3>1. ListOf(h2, attrs) = ListOf(h, attrs)
      BY <2>5, AttrsInHeap, ListsStay
    <3> QED
      BY <3>1, ListLost
  <2>8. Tree!Disposable(ListOf(h, attrs)[a])
    <3>1. ListOf(h, attrs)[a] = AttributesFrom(h, a)
      BY DEF ListOf
    <3> QED
      BY <1>2, <2>1, <3>1, OneDisposable
  <2> QED
    BY <2>5, <2>6, <2>7, <2>8 DEF Running, HeldAlone
<1> QED
  BY <1>1, <1>2

\* ast_node_destroy
LEMMA DestroyNodeEffect ==
    ASSUME NEW h, NEW nodes, NEW attrs, Sound(h, nodes, attrs), Running(h), HeldAlone(h, nodes),
           NEW n \in nodes, NEW h2, h2 = ast_node_destroy(h, n)
    PROVE  \/ Refused(h, h2)
           \/ /\ Running(h2) /\ HeldAlone(h2, nodes \ {n})
              /\ TreeOf(h2) = Tree!Without(TreeOf(h), n)
              /\ ListOf(h2, attrs) = ListOf(h, attrs)
              /\ Tree!Disposable(TreeOf(h)[n])
<1> DEFINE first == h.node[n].first
           gone  == ast_node_attr_destroy(h, first)
<1>1. h.node[n].next = Nil /\ n \in Live(h.node)
  BY NodeFacts DEF HeldAlone
<1>2. TreeOf(h)[n] = AttributesFrom(h, first)
  BY <1>1 DEF TreeOf
<1>3. CASE first = Nil
  <2>1. NodeGone(h, n, h2)
    BY <1>1, <1>3, DestroyEmpty
  <2>2. /\ TreeOf(h2) = Tree!Without(TreeOf(h), n)
        /\ SameLists(h, h2) /\ SameSiblings(h, h2) /\ h2.status = h.status
    BY <2>1, GoneEffect
  <2>3. HeldAlone(h2, nodes \ {n})
    BY <2>2, AloneStays
  <2>4. ListOf(h2, attrs) = ListOf(h, attrs)
    BY <2>2, AttrsInHeap, ListsStay
  <2>5. Tree!Disposable(TreeOf(h)[n])
    <3>1. TreeOf(h)[n] = <<>>
      BY <1>2, <1>3, NoAttributes
    <3> QED
      BY <3>1 DEF Tree!Disposable
  <2> QED
    BY <2>2, <2>3, <2>4, <2>5 DEF Running
<1>4. CASE first # Nil /\ ~Running(gone)
  <2>1. h2 = gone
    BY <1>1, <1>4 DEF ast_node_destroy
  <2>2. gone \in {Abort(h), Undefined(h)}
    <3>1. gone # [h EXCEPT !.attr[first].live = FALSE]
      BY <1>4 DEF Running, Sound, Typed
    <3> QED
      BY <3>1 DEF ast_node_attr_destroy
  <2> QED
    BY <2>1, <2>2, Stops
<1>5. CASE first # Nil /\ Running(gone)
  <2>1. /\ Dismantled(h, n, h2, nodes, attrs) /\ h.attr[first].next = Nil
        /\ h.attr[first].kind \notin {"AST_NODE", "STRING"}
    BY <1>1, <1>5, DestroyWithAttr
  <2>2. first \in Live(h.attr) /\ first \notin attrs
    BY <1>5, FirstApart
  <2>3. PICK h1, h3 : /\ Sound(h1, nodes, attrs \cup {first}) /\ Emptied(h, n, h1)
                      /\ Sound(h3, nodes, attrs) /\ AttrGone(h1, first, h3)
                      /\ NodeGone(h3, n, h2)
    BY <2>1 DEF Dismantled
  <2>4. Tree!Disposable(TreeOf(h)[n])
    BY <1>2, <2>1, <2>2, OneDisposable
  <2> HIDE DEF first, gone
  <2>5. /\ TreeOf(h1) = [TreeOf(h) EXCEPT ![n] = <<>>]
        /\ SameLists(h, h1) /\ SameSiblings(h, h1) /\ h1.status = h.status
        /\ h1.attr = h.attr /\ Len(h1.node) = Len(h.node)
    <3>1. h1.attr = h.attr /\ Len(h1.node) = Len(h.node)
      BY <2>3 DEF Emptied, NodeChange, SameBut
    <3> QED
      BY <2>3, <3>1, EmptiedEffect
  <2>6. first \in Live(h1.attr)
    BY <2>2, <2>5
  <2>7. SameLists(h1, h3) /\ h3.node = h1.node /\ h3.status = h1.status
    BY <2>3, <2>6, AttrGoneEffect
  <2>8. TreeOf(h3) = TreeOf(h1)
    BY <2>3, <2>7, TreeStays
  <2>9. /\ TreeOf(h2) = Tree!Without(TreeOf(h3), n)
        /\ SameLists(h3, h2) /\ SameSiblings(h3, h2) /\ h2.status = h3.status
    BY <2>3, GoneEffect
  <2>10. TreeOf(h2) = Tree!Without(TreeOf(h), n)
    <3> DEFINE U == TreeOf(h)
    <3>1. TreeOf(h3) = [U EXCEPT ![n] = <<>>]
      BY <2>5, <2>8
    <3> HIDE DEF U
    <3>2. Tree!Without([U EXCEPT ![n] = <<>>], n) = Tree!Without(U, n)
      BY DEF Tree!Without
    <3>3. TreeOf(h2) = Tree!Without(U, n)
      BY <2>9, <3>1, <3>2
    <3> QED
      BY <3>3 DEF U
  <2>11. ListOf(h2, attrs) = ListOf(h, attrs)
    <3>1. ListOf(h1, attrs) = ListOf(h, attrs)
      BY <2>5, AttrsInHeap, ListsStay
    <3>2. ListOf(h3, attrs) = ListOf(h1, attrs)
      BY <2>3, <2>5, <2>7, AttrsInHeap, ListsStay
    <3>3. ListOf(h2, attrs) = ListOf(h3, attrs)
      BY <2>3, <2>9, AttrsInHeap, ListsStay
    <3> QED
      BY <3>1, <3>2, <3>3
  <2>12. HeldAlone(h2, nodes \ {n})
    <3>1. HeldAlone(h1, nodes)
      BY <2>5, AloneStays
    <3>2. HeldAlone(h3, nodes)
      BY <2>7, <3>1 DEF HeldAlone
    <3> QED
      BY <2>3, <2>9, <3>2, AloneStays
  <2> QED
    BY <2>4, <2>5, <2>7, <2>9, <2>10, <2>11, <2>12 DEF Running
<1> QED
  BY <1>3, <1>4, <1>5

-----------------------------------------------------------------------------
(* The caller's steps *)

\* Besides HeapInv: the number of nodes; no node of the caller has a sibling, so that
\* no assertion on `next` can fail for it; and a call that does not return leaves the
\* heap sound, too.
TreeInv ==
    /\ Len(heap.node) <= MaxNodes
    /\ Running(heap) => HeldAlone(heap, held)
    /\ Sound(heap, held, loose)

LEMMA TreesAre == HeapInv => NodeTrees = TreeOf(heap) /\ LooseLists = ListOf(heap, loose)
<1> SUFFICES ASSUME HeapInv PROVE NodeTrees = TreeOf(heap)
  BY DEF LooseLists, ListOf
<1> DEFINE s == heap.node
<1>1. DOMAIN s = 1..Len(s)
  <2>1. s \in Seq(NodeRecord)
    BY DEF HeapInv, Typed
  <2> HIDE DEF s
  <2> QED
    BY <2>1, LenProperties
<1>2. LiveNodes = Live(s)
  BY <1>1 DEF LiveNodes, Live
<1> QED
  BY <1>2 DEF NodeTrees, TreeOf

\* The names AstTree and this module both have.
LEMMA SameNames == \A s : Tree!ToSet(s) = ToSet(s) /\ Tree!Last(s) = Last(s)
BY DEF Tree!ToSet, ToSet, Tree!Last, Last

\* A node of the caller belongs to no attribute.
LEMMA HeldInNoList ==
    ASSUME NEW h, NEW nodes, NEW attrs, Sound(h, nodes, attrs),
           NEW n \in nodes, NEW p \in 0..Len(h.attr)
    PROVE  n \notin Tree!Subs(AttributesFrom(h, p))
<1> DEFINE s == Chain(h.attr, p)
<1>1. s \in Seq(1..Len(h.attr))
  BY SoundOrderly, ChainInSeq
<1>2. AttributesFrom(h, p) = Mapped(h, s)
  BY FromIsMapped
<1> HIDE DEF s
<1>3. /\ DOMAIN Mapped(h, s) = 1..Len(s)
      /\ \A i \in 1..Len(s) : Mapped(h, s)[i] = AttributeOf(h, s[i])
  BY <1>1, MappedSeq
<1>4. \A i \in 1..Len(s) : s[i] \in 1..Len(h.attr)
  BY <1>1, ElementOfSeq
<1>5. \A i \in 1..Len(s) : n \notin ToSet(Mapped(h, s)[i].nodes)
  BY <1>3, <1>4, HeldInNone
<1> QED
  BY <1>2, <1>3, <1>5, SameNames DEF Tree!Subs

LEMMA FirstInHeap ==
    ASSUME NEW h, NEW nodes, NEW attrs, Sound(h, nodes, attrs), NEW n \in Live(h.node)
    PROVE  h.node[n].first \in 0..Len(h.attr)
<1>1. AttrHeads(h, attrs)
  BY SoundHeads
<1> QED
  BY <1>1 DEF AttrHeads, Leads, Live

\* What the tree of a heap is made of.
TreeFacts(T, S) ==
    /\ \A m \in DOMAIN T : T[m] \in Seq(S)
    /\ T = [m \in DOMAIN T |-> T[m]]
    /\ \A e \in S : e = [key |-> e.key, kind |-> e.kind, text |-> e.text, nodes |-> e.nodes]

LEMMA TreeIs ==
    ASSUME NEW h, NEW nodes, NEW attrs, Sound(h, nodes, attrs)
    PROVE  /\ TreeFacts(TreeOf(h), {AttributeOf(h, b) : b \in 1..Len(h.attr)})
           /\ \A n \in nodes : n \in DOMAIN TreeOf(h)
<1> DEFINE S == {AttributeOf(h, b) : b \in 1..Len(h.attr)}
           T == TreeOf(h)
<1>1. /\ DOMAIN T = Live(h.node)
      /\ \A m \in Live(h.node) : T[m] = AttributesFrom(h, h.node[m].first)
      /\ T = [m \in DOMAIN T |-> T[m]]
  BY DEF TreeOf
<1>2. \A e \in S : e = [key |-> e.key, kind |-> e.kind, text |-> e.text, nodes |-> e.nodes]
  BY DEF AttributeOf
<1> HIDE DEF T, S
<1>3. \A m \in Live(h.node) : T[m] \in Seq(S)
  BY <1>1, FirstInHeap, FromInSeq DEF S
<1>4. \A n \in nodes : n \in DOMAIN T
  BY <1>1, NodeFacts
<1>5. TreeFacts(T, S)
  BY <1>1, <1>2, <1>3 DEF TreeFacts
<1> QED
  BY <1>4, <1>5 DEF S, T

\* A node of the caller is a root.
LEMMA HeldIsRoot ==
    ASSUME HeapInv, Running(heap), NEW n \in held
    PROVE  n \in Tree!Root /\ \A a \in loose : n \notin Tree!Subs(LooseLists[a])
<1>1. /\ Sound(heap, held, loose)
      /\ NodeTrees = TreeOf(heap) /\ LooseLists = ListOf(heap, loose)
  BY TreesAre DEF HeapInv
<1>2. \A m \in Live(heap.node) : n \notin Tree!Subs(AttributesFrom(heap, heap.node[m].first))
  BY <1>1, FirstInHeap, HeldInNoList
<1>3. \A a \in loose : n \notin Tree!Subs(AttributesFrom(heap, a))
  BY <1>1, AttrsInHeap, HeldInNoList
<1>4. n \in Live(heap.node)
  BY <1>1, NodeFacts
<1>5. /\ DOMAIN NodeTrees = Live(heap.node) /\ DOMAIN LooseLists = loose
      /\ \A m \in Live(heap.node) : NodeTrees[m] = AttributesFrom(heap, heap.node[m].first)
      /\ \A a \in loose : LooseLists[a] = AttributesFrom(heap, a)
  BY <1>1 DEF TreeOf, ListOf
<1> QED
  BY <1>2, <1>3, <1>4, <1>5 DEF Tree!Root, Tree!Owned

\* A call maps the tree of the heap before it to that of the heap after it.
Mapping(h, attrs) ==
    /\ NodeTrees = TreeOf(heap) /\ NodeTrees' = TreeOf(h)
    /\ LooseLists = ListOf(heap, loose) /\ LooseLists' = ListOf(h, attrs)

LEMMA CallMaps ==
    ASSUME HeapInv, HeapInv', NEW h, NEW nodes, NEW attrs, Call(h, nodes, attrs)
    PROVE  Mapping(h, IF Running(h) THEN attrs ELSE loose)
<1>1. heap' = h /\ loose' = IF Running(h) THEN attrs ELSE loose
  BY DEF Call
<1>2. NodeTrees = TreeOf(heap) /\ LooseLists = ListOf(heap, loose)
  BY TreesAre
<1>3. LooseLists' = ListOf(h, IF Running(h) THEN attrs ELSE loose)
  BY <1>1 DEF LooseLists, ListOf
<1>4. NodeTrees' = TreeOf(h)
  <2>1. h.node \in Seq(NodeRecord)
    BY <1>1 DEF HeapInv, Typed
  <2>2. DOMAIN h.node = 1..Len(h.node)
    <3> DEFINE s == h.node
    <3>1. s \in Seq(NodeRecord)
      BY <2>1
    <3> HIDE DEF s
    <3>2. DOMAIN s = 1..Len(s)
      BY <3>1, LenProperties
    <3> QED
      BY <3>2 DEF s
  <2>3. LiveNodes' = Live(h.node)
    BY <1>1, <2>2 DEF LiveNodes, Live
  <2> QED
    BY <1>1, <2>3 DEF NodeTrees, TreeOf
<1> QED
  BY <1>2, <1>3, <1>4 DEF Mapping

LEMMA CallHolds ==
    ASSUME HeapInv', NEW h, NEW nodes, NEW attrs, Call(h, nodes, attrs), Running(h),
           HeldAlone(h, nodes)
    PROVE  TreeInv'
BY DEF Call, TreeInv, HeapInv

Stepped == [Tree!TreeNext]_(Tree!treeVars)

LEMMA RefusedStutters ==
    ASSUME HeapInv, HeapInv', TreeInv, NEW h, NEW nodes, NEW attrs, Call(h, nodes, attrs),
           Refused(heap, h)
    PROVE  Stepped /\ TreeInv'
<1>1. ~Running(h)
  BY DEF Refused
<1>2. Mapping(h, loose)
  BY <1>1, CallMaps
<1>3. NodeTrees' = NodeTrees /\ LooseLists' = LooseLists
  BY <1>2, RefusedSame DEF Mapping
<1>4. TreeInv'
  <2>1. Typed(h) /\ h.node = heap.node /\ h.attr = heap.attr
    BY DEF Refused, Call, HeapInv
  <2>2. Sound(h, held, loose)
    BY <2>1 DEF TreeInv, Sound, NodeLists, AttrLists, DeadEmpty
  <2> QED
    BY <1>1, <2>2 DEF Call, TreeInv
<1> QED
  BY <1>3, <1>4 DEF Stepped, Tree!treeVars

\* An attribute made for a root, or for no node, is a new one.
LEMMA OwnerIsNew ==
    ASSUME HeapInv, Running(heap), NEW sub \in held \cup {Nil},
           NEW attribute, Owner(attribute, sub)
    PROVE  Tree!New(attribute)
<1>1. attribute \in Tree!Attribute /\ attribute.nodes = IF sub = Nil THEN <<>> ELSE <<sub>>
  BY DEF Owner
<1>2. CASE sub = Nil
  BY <1>1, <1>2 DEF Tree!New, Tree!ToSet
<1>3. CASE sub # Nil
  <2>1. sub \in Tree!Root
    BY <1>3, HeldIsRoot
  <2>2. Len(<<sub>>) = 1 /\ Tree!ToSet(<<sub>>) = {sub}
    BY DEF Tree!ToSet
  <2> QED
    BY <1>1, <1>3, <2>1, <2>2 DEF Tree!New
<1> QED
  BY <1>2, <1>3

\* An attribute is put behind those of a node: Tree!Attach.
LEMMA AttachedStep ==
    ASSUME HeapInv, Running(heap), NEW n \in held, NEW sub \in held \cup {Nil}, sub # n,
           NEW h, Attached(heap, h, n, sub, loose), Mapping(h, loose)
    PROVE  Stepped
<1> DEFINE T == TreeOf(heap)
           S == {AttributeOf(heap, b) : b \in 1..Len(heap.attr)}
<1>1. Sound(heap, held, loose)
  BY DEF HeapInv
<1>2. NodeTrees = T /\ NodeTrees' = TreeOf(h) /\ LooseLists' = LooseLists
  BY DEF Mapping, Attached
<1>3. PICK attribute : Owner(attribute, sub) /\ TreeOf(h) = [T EXCEPT ![n] = Append(@, attribute)]
  BY DEF Attached
<1>4. n \in DOMAIN T /\ T[n] \in Seq(S)
  <2>1. n \in DOMAIN T /\ TreeFacts(T, S)
    BY <1>1, TreeIs
  <2> HIDE DEF T, S
  <2> QED
    BY <2>1 DEF TreeFacts
<1> HIDE DEF T, S
<1>5. Append(T[n], attribute) # <<>> /\ Tree!Last(Append(T[n], attribute)) = attribute
  <2> DEFINE t == T[n]
             R == S \cup {attribute}
  <2>1. t \in Seq(R) /\ attribute \in R
    BY <1>4
  <2> HIDE DEF t, R
  <2>2. Len(Append(t, attribute)) = Len(t) + 1 /\ Len(t) \in Nat
        /\ Append(t, attribute)[Len(t) + 1] = attribute
    BY <2>1
  <2>3. Append(t, attribute) # <<>> /\ Tree!Last(Append(t, attribute)) = attribute
    BY <2>2 DEF Tree!Last
  <2> QED
    BY <2>3 DEF t
<1> DEFINE t == Append(T[n], attribute)
<1>6. NodeTrees' = [T EXCEPT ![n] = t]
  BY <1>2, <1>3
<1>7. n \in DOMAIN NodeTrees' /\ NodeTrees'[n] = t
  BY <1>4, <1>6
<1>8. Tree!New(attribute)
  BY <1>3, OwnerIsNew
<1>9. n \notin Tree!ToSet(attribute.nodes)
  <2>1. attribute.nodes = IF sub = Nil THEN <<>> ELSE <<sub>>
    BY <1>3 DEF Owner
  <2> QED
    BY <2>1 DEF Tree!ToSet
<1>10. NodeTrees' = [NodeTrees EXCEPT ![n] = Append(@, attribute)]
  BY <1>2, <1>6
<1>11. NodeTrees'[n] # <<>> /\ Tree!Last(NodeTrees'[n]) = attribute
  BY <1>5, <1>7
<1>12. Tree!Attach(n)
  BY <1>2, <1>7, <1>8, <1>9, <1>10, <1>11 DEF Tree!Attach
<1> QED
  BY <1>2, <1>4, <1>12 DEF Stepped, Tree!TreeNext

\* A text is replaced: Tree!Overwrite.
LEMMA OverwrittenStep ==
    ASSUME HeapInv, Running(heap), NEW n \in held,
           NEW h, Overwritten(heap, h, n, loose), Mapping(h, loose)
    PROVE  Stepped
<1> DEFINE T == TreeOf(heap)
           S == {AttributeOf(heap, b) : b \in 1..Len(heap.attr)}
<1>1. Sound(heap, held, loose)
  BY DEF HeapInv
<1>2. NodeTrees = T /\ NodeTrees' = TreeOf(h) /\ LooseLists' = LooseLists
  BY DEF Mapping, Overwritten
<1>3. PICK i, val : /\ Answers(T, n, i) /\ T[n][i].kind \in {"CONST_STRING", "INTEGER"}
                    /\ TreeOf(h) = [T EXCEPT ![n][i].text = val]
  BY DEF Overwritten
<1>4. TreeFacts(T, S)
  BY <1>1, TreeIs
<1> HIDE DEF T, S
<1>5. /\ n \in DOMAIN T /\ i \in DOMAIN T[n]
      /\ \A j \in 1..(i - 1) : T[n][j].key # T[n][i].key
  BY <1>3 DEF Answers
<1>6. /\ T[n] \in Seq(S) /\ T[n][i] \in S
      /\ T[n][i] = [key |-> T[n][i].key, kind |-> T[n][i].kind, text |-> T[n][i].text,
                    nodes |-> T[n][i].nodes]
  <2>1. T[n] \in Seq(S)
    BY <1>4, <1>5 DEF TreeFacts
  <2> DEFINE t == T[n]
  <2>2. t \in Seq(S) /\ i \in DOMAIN t
    BY <1>5, <2>1
  <2> HIDE DEF t
  <2>3. t[i] \in S
    BY <2>2, ElementOfSeq, LenProperties
  <2> QED
    BY <1>4, <2>1, <2>3 DEF TreeFacts, t
<1>7. /\ n \in DOMAIN TreeOf(h) /\ i \in DOMAIN TreeOf(h)[n] /\ TreeOf(h)[n][i].text = val
  BY <1>3, <1>5, <1>6
<1>8. Tree!Overwrite(n, i)
  BY <1>2, <1>3, <1>7 DEF Tree!Overwrite
<1>9. Tree!FirstWithKey(n, i)
  BY <1>2, <1>5 DEF Tree!FirstWithKey
<1> QED
  BY <1>2, <1>5, <1>8, <1>9 DEF Stepped, Tree!TreeNext

\* A node is put behind those of an attribute: Tree!AppendNode.
LEMMA NodeAppendedStep ==
    ASSUME HeapInv, Running(heap), NEW n \in held, NEW sub \in held, sub # n,
           NEW h, NodeAppended(heap, h, n, sub, loose), Mapping(h, loose)
    PROVE  Stepped
<1> DEFINE T == TreeOf(heap)
<1>1. NodeTrees = T /\ NodeTrees' = TreeOf(h) /\ LooseLists' = LooseLists
  BY DEF Mapping, NodeAppended
<1>2. PICK i : /\ Answers(T, n, i) /\ T[n][i].kind = "AST_NODE"
               /\ TreeOf(h) = [T EXCEPT ![n][i].nodes = Append(@, sub)]
  BY DEF NodeAppended
<1> HIDE DEF T
<1>3. /\ n \in DOMAIN T /\ i \in DOMAIN T[n]
      /\ \A j \in 1..(i - 1) : T[n][j].key # T[n][i].key
  BY <1>2 DEF Answers
<1>4. sub \in Tree!Root
  BY HeldIsRoot
<1>5. Tree!AppendNode(n, i, sub) /\ Tree!FirstWithKey(n, i)
  BY <1>1, <1>2, <1>3, <1>4 DEF Tree!AppendNode, Tree!FirstWithKey
<1>6. sub \in DOMAIN NodeTrees
  BY <1>4 DEF Tree!Root
<1> QED
  BY <1>1, <1>3, <1>5, <1>6 DEF Stepped, Tree!TreeNext

\* A list is put behind the attributes of a node: Tree!AttachList.
LEMMA GainedStep ==
    ASSUME HeapInv, Running(heap), NEW n \in held, NEW a \in loose,
           NEW h, Gained(heap, h, n, a, loose), Mapping(h, loose \ {a})
    PROVE  Stepped
<1>1. /\ NodeTrees = TreeOf(heap) /\ LooseLists = ListOf(heap, loose)
      /\ NodeTrees' = [NodeTrees EXCEPT ![n] = @ \o AttributesFrom(heap, a)]
      /\ LooseLists' = Tree!Without(LooseLists, a)
  BY DEF Mapping, Gained
<1>2. LooseLists[a] = AttributesFrom(heap, a) /\ a \in DOMAIN LooseLists
  BY <1>1 DEF ListOf
<1>3. n \notin Tree!Subs(LooseLists[a]) /\ n \in Tree!Root
  BY HeldIsRoot
<1>4. Tree!AttachList(n, a)
  BY <1>1, <1>2, <1>3 DEF Tree!AttachList
<1> QED
  BY <1>2, <1>3, <1>4 DEF Stepped, Tree!TreeNext, Tree!Root

\* A list is put behind another: Tree!JoinLists.
LEMMA AppendedStep ==
    ASSUME HeapInv, NEW a \in loose, NEW rest \in loose, a # rest,
           NEW h, Appended(heap, h, a, rest, loose), Mapping(h, loose \ {rest})
    PROVE  Stepped
<1>1. /\ LooseLists = ListOf(heap, loose) /\ NodeTrees' = NodeTrees
      /\ LooseLists' = Tree!Without([LooseLists EXCEPT ![a] = @ \o LooseLists[rest]], rest)
  BY DEF Mapping, Appended
<1>2. a \in DOMAIN LooseLists /\ rest \in DOMAIN LooseLists
  BY <1>1 DEF ListOf
<1>3. Tree!JoinLists(a, rest)
  BY <1>1 DEF Tree!JoinLists
<1> QED
  BY <1>2, <1>3 DEF Stepped, Tree!TreeNext

\* An attribute is made: Tree!CreateList.
LEMMA MadeStep ==
    ASSUME HeapInv, Running(heap), NEW sub \in held \cup {Nil},
           NEW h, Made(heap, h, sub), NewAttr(h) <= MaxAttrs,
           Mapping(h, loose \cup {NewAttr(h)})
    PROVE  Stepped
<1> DEFINE a == NewAttr(h)
           attribute == AttributeOf(h, a)
<1>1. Sound(heap, held, loose)
  BY DEF HeapInv
<1>2. /\ TreeOf(h) = TreeOf(heap) /\ a \notin loose
      /\ ListOf(h, loose \cup {a}) = Tree!With(ListOf(heap, loose), a, <<attribute>>)
  <2>1. TreeOf(h) = TreeOf(heap) /\ a \notin loose /\ Listed(heap, h, loose)
    BY <1>1, MadeLists
  <2> QED
    BY <2>1 DEF Listed
<1>3. Owner(attribute, sub) /\ a = Len(heap.attr) + 1
  BY DEF Made
<1>4. a \in 1..(MaxNodes + MaxAttrs)
  <2>1. Len(heap.attr) \in Nat /\ MaxNodes \in Nat /\ MaxAttrs \in Nat
    BY <1>1, ClientAssumption DEF Sound, AttrLists, Lists
  <2> QED
    BY <1>3, <2>1
<1> HIDE DEF a, attribute
<1>5. /\ LooseLists = ListOf(heap, loose) /\ NodeTrees' = NodeTrees
      /\ LooseLists' = Tree!With(LooseLists, a, <<attribute>>)
  BY <1>2 DEF Mapping, a
<1>6. DOMAIN LooseLists = loose
  BY <1>5 DEF ListOf
<1>7. a \in DOMAIN LooseLists' /\ LooseLists'[a] = <<attribute>>
  BY <1>5 DEF Tree!With
<1>8. Tree!New(attribute)
  BY <1>3, OwnerIsNew
<1>9. Tree!CreateList(a)
  BY <1>2, <1>5, <1>6, <1>7, <1>8 DEF Tree!CreateList
<1> QED
  BY <1>4, <1>9 DEF Stepped, Tree!TreeNext

LEMMA CreateNodeStep ==
    ASSUME HeapInv, HeapInv', TreeInv, Running(heap), NEW type \in Type, CreateNode(type)
    PROVE  Stepped /\ TreeInv'
<1> DEFINE h == ast_node_create(heap, type)
           n == Len(heap.node) + 1
<1>1. Call(h, held \cup {NewNode(h)}, loose)
  BY DEF CreateNode
<1>2. Sound(heap, held, loose) /\ HeldAlone(heap, held)
  BY DEF HeapInv, TreeInv
<1>3. /\ Running(h) /\ NewNode(h) = n /\ Len(heap.node) \in Nat
      /\ HeldAlone(h, held \cup {NewNode(h)})
      /\ TreeOf(h) = Tree!With(TreeOf(heap), n, <<>>)
      /\ ListOf(h, loose) = ListOf(heap, loose)
  BY <1>2, CreateEffect
<1> HIDE DEF h
<1>4. Mapping(h, loose)
  BY <1>1, <1>3, CallMaps
<1>5. /\ NodeTrees = TreeOf(heap) /\ LooseLists' = LooseLists
      /\ NodeTrees' = Tree!With(NodeTrees, n, <<>>)
  BY <1>3, <1>4 DEF Mapping
<1>6. n \notin DOMAIN NodeTrees
  BY <1>3, <1>5 DEF TreeOf, Live
<1>7. n \in 1..(MaxNodes + MaxAttrs)
  <2>1. Len(h.node) <= MaxNodes
    BY <1>1 DEF Call
  <2> QED
    BY <1>3, <2>1, ClientAssumption DEF NewNode
<1>8. Tree!Create(n)
  BY <1>5, <1>6 DEF Tree!Create
<1>9. TreeInv'
  BY <1>1, <1>3, CallHolds
<1> QED
  BY <1>7, <1>8, <1>9 DEF Stepped, Tree!TreeNext

LEMMA NewAttrBounded ==
    ASSUME NEW h, NEW nodes, NEW attrs, Call(h, nodes, attrs) PROVE NewAttr(h) <= MaxAttrs
BY DEF Call, NewAttr

LEMMA CreateTextStep ==
    ASSUME HeapInv, HeapInv', TreeInv, Running(heap), NEW key \in Key, CreateText(key)
    PROVE  Stepped /\ TreeInv'
<1>1. PICK h \in {ast_node_attr_create_str(heap, key, FreshText),
                  ast_node_attr_create_const_str(heap, key, FreshText),
                  ast_node_attr_create_integer(heap, key, FreshText)} :
          Call(h, held, loose \cup {NewAttr(h)})
  BY DEF CreateText
<1>2. /\ Sound(heap, held, loose) /\ HeldAlone(heap, held) /\ Len(heap.node) <= MaxNodes
      /\ FreshText \in Word
  BY FreshTextIsWord DEF HeapInv, TreeInv
<1>3. Running(h) /\ Made(heap, h, Nil) /\ HeldAlone(h, held)
  BY <1>1, <1>2, CreateTextEffect
<1>4. Mapping(h, loose \cup {NewAttr(h)}) /\ NewAttr(h) <= MaxAttrs
  BY <1>1, <1>3, CallMaps, NewAttrBounded
<1>5. Stepped
  BY <1>3, <1>4, MadeStep
<1>6. TreeInv'
  BY <1>1, <1>3, CallHolds
<1> QED
  BY <1>5, <1>6

LEMMA CreateNodeAttrStep ==
    ASSUME HeapInv, HeapInv', TreeInv, Running(heap), NEW key \in Key,
           NEW sub \in held \cup {Nil}, CreateNodeAttr(key, sub)
    PROVE  Stepped /\ TreeInv'
<1> DEFINE h == ast_node_attr_create_node(heap, key, sub)
<1>1. Call(h, held \ {sub}, loose \cup {NewAttr(h)})
  BY DEF CreateNodeAttr
<1>2. Sound(heap, held, loose) /\ HeldAlone(heap, held) /\ Len(heap.node) <= MaxNodes
  BY DEF HeapInv, TreeInv
<1>3. \/ Refused(heap, h)
      \/ Running(h) /\ sub \in held /\ Made(heap, h, sub) /\ HeldAlone(h, held \ {sub})
  BY <1>2, CreateNodeAttrEffect
<1> HIDE DEF h
<1>4. CASE Refused(heap, h)
  BY <1>1, <1>4, RefusedStutters
<1>5. CASE Running(h) /\ sub \in held /\ Made(heap, h, sub) /\ HeldAlone(h, held \ {sub})
  <2>1. Mapping(h, loose \cup {NewAttr(h)}) /\ NewAttr(h) <= MaxAttrs
    BY <1>1, <1>5, CallMaps, NewAttrBounded
  <2>2. Stepped
    BY <1>5, <2>1, MadeStep
  <2>3. TreeInv'
    BY <1>1, <1>5, CallHolds
  <2> QED
    BY <2>2, <2>3
<1> QED
  BY <1>3, <1>4, <1>5

LEMMA SetTextStep ==
    ASSUME HeapInv, HeapInv', TreeInv, Running(heap), NEW key \in Key, NEW n \in held,
           SetText(n, key)
    PROVE  Stepped /\ TreeInv'
<1>1. PICK h \in {ast_node_set_attr_str(heap, n, key, FreshText),
                  ast_node_set_attr_const_str(heap, n, key, FreshText),
                  ast_node_set_attr_integer(heap, n, key, FreshText)} : Call(h, held, loose)
  BY DEF SetText
<1>2. /\ Sound(heap, held, loose) /\ HeldAlone(heap, held) /\ Len(heap.node) <= MaxNodes
      /\ FreshText \in Word
  BY FreshTextIsWord DEF HeapInv, TreeInv
<1>3. \/ Refused(heap, h)
      \/ /\ Running(h) /\ HeldAlone(h, held)
         /\ Attached(heap, h, n, Nil, loose) \/ Overwritten(heap, h, n, loose)
  BY <1>1, <1>2, SetTextEffect
<1>4. CASE Refused(heap, h)
  BY <1>1, <1>4, RefusedStutters
<1>5. CASE /\ Running(h) /\ HeldAlone(h, held)
           /\ Attached(heap, h, n, Nil, loose) \/ Overwritten(heap, h, n, loose)
  <2>1. Mapping(h, loose)
    BY <1>1, <1>5, CallMaps
  <2>2. n # Nil
    BY <1>2, NodeFacts DEF Nil
  <2>3. Stepped
    BY <1>5, <2>1, <2>2, AttachedStep, OverwrittenStep
  <2>4. TreeInv'
    BY <1>1, <1>5, CallHolds
  <2> QED
    BY <2>3, <2>4
<1> QED
  BY <1>3, <1>4, <1>5

LEMMA AppendNodeStep ==
    ASSUME HeapInv, HeapInv', TreeInv, Running(heap), NEW key \in Key, NEW n \in held,
           NEW sub \in held \cup {Nil}, AppendNode(n, key, sub)
    PROVE  Stepped /\ TreeInv'
<1> DEFINE h == ast_node_attr_node_append(heap, n, key, sub)
<1>1. sub # n /\ Call(h, held \ {sub}, loose)
  BY DEF AppendNode
<1>2. Sound(heap, held, loose) /\ HeldAlone(heap, held) /\ Len(heap.node) <= MaxNodes
  BY DEF HeapInv, TreeInv
<1>3. \/ Refused(heap, h)
      \/ sub = Nil /\ h = heap
      \/ /\ sub \in held /\ Running(h) /\ HeldAlone(h, held \ {sub})
         /\ Attached(heap, h, n, sub, loose) \/ NodeAppended(heap, h, n, sub, loose)
  BY <1>1, <1>2, AppendNodeEffect
<1> HIDE DEF h
<1>4. CASE Refused(heap, h)
  BY <1>1, <1>4, RefusedStutters
<1>5. CASE sub = Nil /\ h = heap
  <2>1. Mapping(heap, loose)
    BY <1>1, <1>5, CallMaps
  <2>2. Stepped
    BY <2>1 DEF Mapping, Stepped, Tree!treeVars
  <2>3. Running(h) /\ HeldAlone(h, held \ {sub})
    BY <1>2, <1>5 DEF HeldAlone
  <2>4. TreeInv'
    BY <1>1, <2>3, CallHolds
  <2> QED
    BY <2>2, <2>4
<1>6. CASE /\ sub \in held /\ Running(h) /\ HeldAlone(h, held \ {sub})
           /\ Attached(heap, h, n, sub, loose) \/ NodeAppended(heap, h, n, sub, loose)
  <2>1. Mapping(h, loose)
    BY <1>1, <1>6, CallMaps
  <2>2. Stepped
    BY <1>1, <1>6, <2>1, AttachedStep, NodeAppendedStep
  <2>3. TreeInv'
    BY <1>1, <1>6, CallHolds
  <2> QED
    BY <2>2, <2>3
<1> QED
  BY <1>3, <1>4, <1>5, <1>6

\* What each call that puts a list behind the attributes of a node has in common.
LEMMA GainedCall ==
    ASSUME HeapInv, HeapInv', TreeInv, Running(heap), NEW n \in held, NEW a \in loose,
           NEW h, Running(h), Gained(heap, h, n, a, loose), Call(h, held, loose \ {a})
    PROVE  Stepped /\ TreeInv'
<1>1. Sound(heap, held, loose) /\ HeldAlone(heap, held)
  BY DEF HeapInv, TreeInv
<1>2. Mapping(h, loose \ {a})
  BY CallMaps
<1>3. HeldAlone(h, held)
  BY <1>1, AloneStays DEF Gained
<1>4. TreeInv'
  BY <1>3, CallHolds
<1>5. Stepped
  BY <1>2, GainedStep
<1> QED
  BY <1>4, <1>5

LEMMA AttachAttrStep ==
    ASSUME HeapInv, HeapInv', TreeInv, Running(heap), NEW n \in held, NEW a \in loose,
           AttachAttr(n, a)
    PROVE  Stepped /\ TreeInv'
<1> DEFINE h == ast_node_attach_attr(heap, n, a)
<1>1. Call(h, held, loose \ {a}) /\ heap.attr[a].next = Nil /\ Sound(heap, held, loose)
  BY DEF AttachAttr, Alone, HeapInv
<1>2. Gained(heap, h, n, a, loose)
  BY <1>1, AttachGains
<1>3. Running(h)
  BY <1>1 DEF Running, Sound, Typed, ast_node_attach_attr
<1> HIDE DEF h
<1> QED
  BY <1>1, <1>2, <1>3, GainedCall

LEMMA SetFirstAttrStep ==
    ASSUME HeapInv, HeapInv', TreeInv, Running(heap), NEW n \in held, NEW a \in loose,
           SetFirstAttr(n, a)
    PROVE  Stepped /\ TreeInv'
<1> DEFINE h == set_first_attr(heap, n, a)
<1>1. Call(h, held, loose \ {a}) /\ heap.node[n].first = Nil /\ Sound(heap, held, loose)
  BY DEF SetFirstAttr, HeapInv
<1>2. Gained(heap, h, n, a, loose)
  BY <1>1, SetFirstGains
<1>3. Running(h)
  BY <1>1 DEF Running, Sound, Typed, set_first_attr
<1> HIDE DEF h
<1> QED
  BY <1>1, <1>2, <1>3, GainedCall

LEMMA AppendToNodeStep ==
    ASSUME HeapInv, HeapInv', TreeInv, Running(heap), NEW n \in held, NEW rest \in loose,
           heap.node[n].first # Nil, AppendAttr(heap.node[n].first, rest)
    PROVE  Stepped /\ TreeInv'
<1> DEFINE first == heap.node[n].first
           h == ast_node_attr_append(heap, first, rest)
<1>1. Call(h, held, loose \ {rest}) /\ heap.attr[first].next = Nil /\ Sound(heap, held, loose)
  BY DEF AppendAttr, Alone, HeapInv
<1>2. Gained(heap, h, n, rest, loose)
  BY <1>1, AppendGains
<1>3. Running(h)
  BY <1>1 DEF Running, Sound, Typed, ast_node_attr_append
<1> HIDE DEF h
<1> QED
  BY <1>1, <1>2, <1>3, GainedCall

LEMMA AppendToListStep ==
    ASSUME HeapInv, HeapInv', TreeInv, Running(heap), NEW a \in loose,
           NEW rest \in loose \cup {Nil}, AppendAttr(a, rest)
    PROVE  Stepped /\ TreeInv'
<1> DEFINE h == ast_node_attr_append(heap, a, rest)
<1>1. /\ Call(h, held, loose \ {rest}) /\ a # rest /\ heap.attr[a].next = Nil
      /\ Sound(heap, held, loose) /\ HeldAlone(heap, held)
  BY DEF AppendAttr, Alone, HeapInv, TreeInv
<1>2. Running(h)
  BY <1>1 DEF Running, Sound, Typed, ast_node_attr_append
<1>3. CASE rest = Nil
  <2>1. a \in Live(heap.attr) /\ Nil \notin loose
    BY <1>1, LooseApart DEF HeapInv, Nil
  <2>2. h = heap
    BY <1>1, <1>3, <2>1, AppendNothing
  <2> HIDE DEF h
  <2>3. loose \ {rest} = loose
    BY <1>3, <2>1
  <2>4. Mapping(heap, loose)
    BY <1>1, <1>2, <2>2, <2>3, CallMaps
  <2>5. Stepped
    BY <2>4 DEF Mapping, Stepped, Tree!treeVars
  <2>6. TreeInv'
    BY <1>1, <1>2, <2>2, CallHolds
  <2> QED
    BY <2>5, <2>6
<1>4. CASE rest \in loose
  <2>1. Appended(heap, h, a, rest, loose)
    BY <1>1, <1>4, AppendJoinsLists
  <2> HIDE DEF h
  <2>2. Mapping(h, loose \ {rest})
    BY <1>1, <1>2, CallMaps
  <2>3. Stepped
    BY <1>1, <1>4, <2>1, <2>2, AppendedStep
  <2>4. HeldAlone(h, held)
    BY <1>1, <2>1, AloneStays DEF Appended
  <2>5. TreeInv'
    BY <1>1, <1>2, <2>4, CallHolds
  <2> QED
    BY <2>3, <2>5
<1> QED
  BY <1>3, <1>4

LEMMA ExtendStep ==
    ASSUME HeapInv, HeapInv', TreeInv, Running(heap), NEW n \in held, NEW m \in held, Extend(n, m)
    PROVE  Stepped /\ TreeInv'
<1> DEFINE h == ast_node_extend(heap, n, m)
<1>1. /\ Call(h, held \ {m}, loose) /\ m # n
      /\ Sound(heap, held, loose) /\ HeldAlone(heap, held)
  BY DEF Extend, HeapInv, TreeInv
<1>2. /\ Running(h) /\ HeldAlone(h, held \ {m})
      /\ TreeOf(h) = Merged(TreeOf(heap), n, m)
      /\ ListOf(h, loose) = ListOf(heap, loose)
  BY <1>1, ExtendEffect
<1> HIDE DEF h
<1>3. Mapping(h, loose)
  BY <1>1, <1>2, CallMaps
<1>4. m \in Tree!Root /\ n \in Tree!Root
  BY HeldIsRoot
<1>5. Tree!Extend(n, m)
  BY <1>1, <1>2, <1>3, <1>4 DEF Mapping, Merged, Tree!Extend
<1>6. TreeInv'
  BY <1>1, <1>2, CallHolds
<1> QED
  BY <1>4, <1>5, <1>6 DEF Stepped, Tree!TreeNext, Tree!Root

LEMMA DestroyNodeStep ==
    ASSUME HeapInv, HeapInv', TreeInv, Running(heap), NEW n \in held, DestroyNode(n)
    PROVE  Stepped /\ TreeInv'
<1> DEFINE h == ast_node_destroy(heap, n)
<1>1. Call(h, held \ {n}, loose) /\ Sound(heap, held, loose) /\ HeldAlone(heap, held)
  BY DEF DestroyNode, HeapInv, TreeInv
<1>2. \/ Refused(heap, h)
      \/ /\ Running(h) /\ HeldAlone(h, held \ {n})
         /\ TreeOf(h) = Tree!Without(TreeOf(heap), n)
         /\ ListOf(h, loose) = ListOf(heap, loose)
         /\ Tree!Disposable(TreeOf(heap)[n])
  BY <1>1, DestroyNodeEffect
<1> HIDE DEF h
<1>3. CASE Refused(heap, h)
  BY <1>1, <1>3, RefusedStutters
<1>4. CASE ~Refused(heap, h)
  <2>1. Mapping(h, loose)
    BY <1>1, <1>2, <1>4, CallMaps
  <2>2. n \in Tree!Root
    BY HeldIsRoot
  <2>3. Tree!Free(n)
    BY <1>2, <1>4, <2>1, <2>2 DEF Mapping, Tree!Free
  <2>4. TreeInv'
    BY <1>1, <1>2, <1>4, CallHolds
  <2> QED
    BY <2>2, <2>3, <2>4 DEF Stepped, Tree!TreeNext, Tree!Root
<1> QED
  BY <1>3, <1>4

LEMMA DestroyAttrStep ==
    ASSUME HeapInv, HeapInv', TreeInv, Running(heap), NEW a \in loose, DestroyAttr(a)
    PROVE  Stepped /\ TreeInv'
<1> DEFINE h == ast_node_attr_destroy(heap, a)
<1>1. Call(h, held, loose \ {a}) /\ Sound(heap, held, loose) /\ HeldAlone(heap, held)
  BY DEF DestroyAttr, HeapInv, TreeInv
<1>2. \/ Refused(heap, h)
      \/ /\ Running(h) /\ HeldAlone(h, held) /\ TreeOf(h) = TreeOf(heap)
         /\ ListOf(h, loose \ {a}) = Tree!Without(ListOf(heap, loose), a)
         /\ Tree!Disposable(ListOf(heap, loose)[a])
  BY <1>1, DestroyAttrEffect
<1> HIDE DEF h
<1>3. CASE Refused(heap, h)
  BY <1>1, <1>3, RefusedStutters
<1>4. CASE ~Refused(heap, h)
  <2>1. Mapping(h, loose \ {a})
    BY <1>1, <1>2, <1>4, CallMaps
  <2>2. Tree!FreeList(a) /\ a \in DOMAIN LooseLists
    BY <1>2, <1>4, <2>1 DEF Mapping, Tree!FreeList, ListOf
  <2>3. TreeInv'
    BY <1>1, <1>2, <1>4, CallHolds
  <2> QED
    BY <2>2, <2>3 DEF Stepped, Tree!TreeNext
<1> QED
  BY <1>3, <1>4

-----------------------------------------------------------------------------
(* What a getter answers *)

\* The attributes with the key, and what the first of them gives.
Asked(attributes, key) == {i \in DOMAIN attributes : attributes[i].key = key}

TextIn(attributes, key) ==
    LET first == attributes[Min(Asked(attributes, key))] IN
    IF Asked(attributes, key) = {} THEN NoText
    ELSE IF first.kind = "STRING" THEN first.text ELSE CrashText

NodeIn(attributes, key) ==
    LET first == attributes[Min(Asked(attributes, key))] IN
    IF Asked(attributes, key) = {} THEN Nil
    ELSE IF first.kind = "AST_NODE" THEN first.nodes[1] ELSE CrashNode

LEMMA LeastOf ==
    ASSUME NEW K, K \subseteq Nat, K # {}
    PROVE  Min(K) \in K /\ \A j \in K : Min(K) <= j
<1>1. \E k \in K : \A j \in K : k <= j
  BY LeastNumber
<1> QED
  BY <1>1 DEF Min

\* The getters look at the tree only.
LEMMA GettersRead ==
    ASSUME NEW h, NEW nodes, NEW attrs, Sound(h, nodes, attrs), NEW n \in nodes, NEW key
    PROVE  /\ ast_node_get_attr_str_value(h, n, key) = TextIn(TreeOf(h)[n], key)
           /\ ast_node_get_attr_node_value(h, n, key) = NodeIn(TreeOf(h)[n], key)
<1> DEFINE s == Attrs(h, n)
           t == TreeOf(h)[n]
           K == Matches(h, n, key)
           a == ast_node_get_attr(h, n, key)
<1>1. n \in Live(h.node) /\ n \in 1..Len(h.node) /\ h.node[n].first \in 0..Len(h.attr)
  BY NodeFacts, FirstInHeap
<1>2. s \in Seq(1..Len(h.attr))
  BY <1>1, SoundOrderly, ChainInSeq DEF Attrs
<1>3. DOMAIN s = 1..Len(s) /\ Len(s) \in Nat /\ \A j \in 1..Len(s) : s[j] \in 1..Len(h.attr)
  BY <1>2, LenProperties, ElementOfSeq
<1>4. t = Mapped(h, s)
  BY <1>1, FromIsMapped DEF TreeOf, Attrs
<1>5. K = {j \in 1..Len(s) : h.attr[s[j]].key = key}
  BY <1>3 DEF Matches
<1>6. a = IF K = {} THEN Nil ELSE s[Min(K)]
  BY DEF ast_node_get_attr
<1> HIDE DEF s, t, K, a
<1>7. DOMAIN t = 1..Len(s) /\ \A j \in 1..Len(s) : t[j] = AttributeOf(h, s[j])
  BY <1>2, <1>4, MappedSeq
<1>8. Asked(t, key) = K
  <2>1. \A j \in 1..Len(s) : t[j].key = h.attr[s[j]].key
    BY <1>7 DEF AttributeOf
  <2> QED
    BY <1>5, <1>7, <2>1 DEF Asked
<1>9. CASE K = {}
  <2>1. TextIn(t, key) = NoText /\ NodeIn(t, key) = Nil
    BY <1>8, <1>9 DEF TextIn, NodeIn
  <2>2. a = Nil
    BY <1>6, <1>9
  <2> QED
    BY <2>1, <2>2 DEF ast_node_get_attr_str_value, ast_node_get_attr_node_value, a, t
<1>10. CASE K # {}
  <2> DEFINE i == Min(K)
  <2>1. i \in 1..Len(s)
    <3>1. K \subseteq Nat
      BY <1>3, <1>5
    <3>2. i \in K
      BY <1>10, <3>1, LeastOf
    <3> QED
      BY <1>5, <3>2
  <2>2. a = s[i] /\ t[i] = AttributeOf(h, s[i]) /\ s[i] \in 1..Len(h.attr)
    BY <1>3, <1>6, <1>7, <1>10, <2>1
  <2> HIDE DEF i
  <2>3. a # Nil /\ a \in 1..Len(h.attr)
    BY <2>2 DEF Nil
  <2>4. /\ t[i].kind = h.attr[a].kind /\ t[i].text = h.attr[a].text
        /\ t[i].nodes = Chain(h.node, h.attr[a].node)
    BY <2>2 DEF AttributeOf
  <2>5. h.attr[a].kind = "AST_NODE" => t[i].nodes[1] = h.attr[a].node
    <3> SUFFICES ASSUME h.attr[a].kind = "AST_NODE" PROVE t[i].nodes[1] = h.attr[a].node
      OBVIOUS
    <3>1. h.attr[a].node # Nil /\ h.attr[a].node \in 0..Len(h.node) /\ Orderly(h.node)
      <4>1. NodeHeads(h, nodes) /\ h.attr[a].node # Nil
        BY <2>3, SoundHeads DEF Sound, Typed
      <4> QED
        BY <2>3, <4>1 DEF NodeHeads, Leads
    <3>2. h.attr[a].node \in 1..Len(h.node)
      BY <3>1 DEF Nil
    <3> QED
      BY <2>4, <3>1, <3>2, ChainFacts
  <2>6. /\ TextIn(t, key) = IF t[i].kind = "STRING" THEN t[i].text ELSE CrashText
        /\ NodeIn(t, key) = IF t[i].kind = "AST_NODE" THEN t[i].nodes[1] ELSE CrashNode
    BY <1>8, <1>10 DEF TextIn, NodeIn, i
  <2>7. /\ ast_node_get_attr_str_value(h, n, key)
           = IF h.attr[a].kind = "STRING" THEN h.attr[a].text ELSE CrashText
        /\ ast_node_get_attr_node_value(h, n, key)
           = IF h.attr[a].kind = "AST_NODE" THEN h.attr[a].node ELSE CrashNode
    BY <2>3 DEF ast_node_get_attr_str_value, ast_node_get_attr_node_value, a
  <2> QED
    BY <2>4, <2>5, <2>6, <2>7 DEF t
<1> QED
  BY <1>9, <1>10

\* The attributes of s come first in t, with what a getter answers from them.
Continued(s, t) ==
    /\ DOMAIN s = 1..Len(s) /\ DOMAIN t = 1..Len(t)
    /\ Len(s) \in Nat /\ Len(t) \in Nat /\ Len(s) <= Len(t)
    /\ \A i \in 1..Len(s) :
          /\ t[i].key = s[i].key /\ t[i].kind = s[i].kind
          /\ s[i].kind = "STRING" => t[i].text = s[i].text
          /\ s[i].kind = "AST_NODE" => t[i].nodes[1] = s[i].nodes[1]

LEMMA AnswersContinue ==
    ASSUME NEW s, NEW t, Continued(s, t), NEW key
    PROVE  /\ TextIn(s, key) # NoText => TextIn(t, key) = TextIn(s, key)
           /\ NodeIn(s, key) # Nil => NodeIn(t, key) = NodeIn(s, key)
<1> DEFINE K == Asked(s, key)
           L == Asked(t, key)
<1>1. /\ K = {i \in 1..Len(s) : s[i].key = key} /\ L = {i \in 1..Len(t) : t[i].key = key}
      /\ Len(s) \in Nat /\ Len(t) \in Nat /\ Len(s) <= Len(t)
      /\ \A i \in 1..Len(s) :
            /\ t[i].key = s[i].key /\ t[i].kind = s[i].kind
            /\ s[i].kind = "STRING" => t[i].text = s[i].text
            /\ s[i].kind = "AST_NODE" => t[i].nodes[1] = s[i].nodes[1]
  BY DEF Continued, Asked
<1>2. CASE K = {}
  BY <1>2 DEF TextIn, NodeIn
<1>3. CASE K # {}
  <2> HIDE DEF K, L
  <2>1. K \subseteq Nat /\ L \subseteq Nat /\ K \subseteq L
    BY <1>1
  <2>2. L # {}
    BY <1>3, <2>1
  <2>3. Min(K) \in K /\ \A j \in K : Min(K) <= j
    BY <1>3, <2>1, LeastOf
  <2>4. Min(L) \in L /\ \A j \in L : Min(L) <= j
    BY <2>1, <2>2, LeastOf
  <2> DEFINE i == Min(K)
             k == Min(L)
  <2>5. i \in K /\ k \in L /\ (\A j \in K : i <= j) /\ \A j \in L : k <= j
    BY <2>3, <2>4
  <2> HIDE DEF i, k
  <2>6. k <= i /\ k \in Nat /\ i \in Nat
    BY <2>1, <2>5
  <2>7. k \in K
    <3>1. i \in 1..Len(s) /\ k \in 1..Len(t)
      BY <1>1, <2>5
    <3>2. k \in 1..Len(s)
      BY <1>1, <2>6, <3>1
    <3> QED
      BY <1>1, <2>5, <3>2
  <2>8. i = k
    BY <2>5, <2>6, <2>7
  <2>9. i \in 1..Len(s)
    BY <1>1, <2>5
  <2> QED
    BY <1>1, <1>3, <2>2, <2>8, <2>9 DEF TextIn, NodeIn, K, L, i, k
<1> QED
  BY <1>2, <1>3

Attributes(S) ==
    \A e \in S :
        /\ e = [key |-> e.key, kind |-> e.kind, text |-> e.text, nodes |-> e.nodes]
        /\ e.nodes \in Seq(Nat) /\ (e.kind = "AST_NODE" => e.nodes # <<>>)

LEMMA SameContinues == ASSUME NEW S, NEW s \in Seq(S) PROVE Continued(s, s)
BY DEF Continued

LEMMA ConcatContinues ==
    ASSUME NEW S, NEW s \in Seq(S), NEW t \in Seq(S) PROVE Continued(s, s \o t)
<1>1. /\ s \o t \in Seq(S) /\ Len(s \o t) = Len(s) + Len(t) /\ Len(s) \in Nat /\ Len(t) \in Nat
      /\ \A i \in 1..Len(s) : (s \o t)[i] = s[i]
  BY ConcatProperties, LenProperties
<1> DEFINE u == s \o t
<1>2. DOMAIN s = 1..Len(s) /\ DOMAIN u = 1..Len(u)
  BY <1>1, LenProperties
<1> HIDE DEF u
<1>3. Len(s) <= Len(u) /\ Len(u) \in Nat /\ \A i \in 1..Len(s) : u[i] = s[i]
  BY <1>1 DEF u
<1>4. Continued(s, u)
  BY <1>1, <1>2, <1>3 DEF Continued
<1> QED
  BY <1>4 DEF u

LEMMA AppendContinues ==
    ASSUME NEW S, NEW s \in Seq(S), NEW e PROVE Continued(s, Append(s, e))
<1> DEFINE R == S \cup {e}
           u == Append(s, e)
<1>1. s \in Seq(R) /\ e \in R
  OBVIOUS
<1> HIDE DEF R
<1>2. /\ u \in Seq(R) /\ Len(u) = Len(s) + 1 /\ Len(s) \in Nat
      /\ \A i \in 1..Len(s) : u[i] = s[i]
  BY <1>1, AppendProperties, LenProperties
<1>3. DOMAIN s = 1..Len(s) /\ DOMAIN u = 1..Len(u)
  BY <1>1, <1>2, LenProperties
<1> HIDE DEF u
<1>4. Continued(s, u)
  BY <1>2, <1>3 DEF Continued
<1> QED
  BY <1>4 DEF u

\* One attribute changes what no getter answers from it.
LEMMA ChangeContinues ==
    ASSUME NEW S, NEW s \in Seq(S), NEW i \in DOMAIN s, NEW e,
           e.key = s[i].key, e.kind = s[i].kind,
           s[i].kind = "STRING" => e.text = s[i].text,
           s[i].kind = "AST_NODE" => e.nodes[1] = s[i].nodes[1]
    PROVE  Continued(s, [s EXCEPT ![i] = e])
<1> DEFINE u == [s EXCEPT ![i] = e]
<1>1. DOMAIN s = 1..Len(s) /\ Len(s) \in Nat
  BY LenProperties
<1>2. /\ DOMAIN u = DOMAIN s /\ u[i] = e /\ \A j \in DOMAIN s : j # i => u[j] = s[j]
  OBVIOUS
<1>3. Len(u) = Len(s)
  <2> DEFINE R == S \cup {e}
  <2>1. s \in Seq(R) /\ i \in 1..Len(s) /\ e \in R
    BY <1>1
  <2> HIDE DEF R
  <2> QED
    BY <2>1, ExceptSeq
<1> HIDE DEF u
<1>4. Continued(s, u)
  BY <1>1, <1>2, <1>3 DEF Continued
<1> QED
  BY <1>4 DEF u

LEMMA TextContinues ==
    ASSUME NEW S, Attributes(S), NEW s \in Seq(S), NEW i \in DOMAIN s,
           s[i].kind \in {"CONST_STRING", "INTEGER"}, NEW val
    PROVE  Continued(s, [s EXCEPT ![i].text = val])
<1> DEFINE e == [s[i] EXCEPT !.text = val]
<1>1. s[i] \in S
  BY ElementOfSeq, LenProperties
<1>2. e.key = s[i].key /\ e.kind = s[i].kind /\ e.nodes = s[i].nodes
  BY <1>1 DEF Attributes
<1>3. [s EXCEPT ![i].text = val] = [s EXCEPT ![i] = e]
  OBVIOUS
<1> HIDE DEF e
<1>4. Continued(s, [s EXCEPT ![i] = e])
  BY <1>2, ChangeContinues
<1> QED
  BY <1>3, <1>4

LEMMA NodesContinue ==
    ASSUME NEW S, Attributes(S), NEW s \in Seq(S), NEW i \in DOMAIN s,
           s[i].kind = "AST_NODE", NEW sub
    PROVE  Continued(s, [s EXCEPT ![i].nodes = Append(@, sub)])
<1> DEFINE e == [s[i] EXCEPT !.nodes = Append(@, sub)]
           nodes == s[i].nodes
<1>1. s[i] \in S
  BY ElementOfSeq, LenProperties
<1>2. e.key = s[i].key /\ e.kind = s[i].kind /\ e.text = s[i].text /\ e.nodes = Append(nodes, sub)
  BY <1>1 DEF Attributes
<1>3. nodes \in Seq(Nat) /\ nodes # <<>>
  BY <1>1 DEF Attributes
<1>4. [s EXCEPT ![i].nodes = Append(@, sub)] = [s EXCEPT ![i] = e]
  OBVIOUS
<1> HIDE DEF e, nodes
<1>5. Append(nodes, sub)[1] = nodes[1]
  <2> DEFINE R == Nat \cup {sub}
  <2>1. nodes \in Seq(R) /\ sub \in R
    BY <1>3
  <2> HIDE DEF R
  <2>2. 1 \in 1..Len(nodes)
    BY <1>3, <2>1, EmptySeq, LenProperties
  <2> QED
    BY <2>1, <2>2, AppendProperties
<1>6. Continued(s, [s EXCEPT ![i] = e])
  BY <1>2, <1>5, ChangeContinues DEF nodes
<1> QED
  BY <1>4, <1>6

\* Every step of AstTree continues the attributes of a node that stays.
LEMMA StepContinues ==
    ASSUME Stepped, NEW S, Attributes(S),
           \A m \in DOMAIN NodeTrees : NodeTrees[m] \in Seq(S),
           \A a \in DOMAIN LooseLists : LooseLists[a] \in Seq(S),
           NEW n, n \in DOMAIN NodeTrees, n \in DOMAIN NodeTrees'
    PROVE  Continued(NodeTrees[n], NodeTrees'[n])
<1> DEFINE s == NodeTrees[n]
           t == NodeTrees'[n]
<1>1. s \in Seq(S)
  OBVIOUS
<1>2. ASSUME t = s PROVE Continued(s, t)
  <2> HIDE DEF s, t
  <2> QED
    BY <1>1, <1>2, SameContinues
<1>3. CASE NodeTrees' = NodeTrees
  BY <1>2, <1>3
<1>4. ASSUME NEW m, Tree!Create(m) PROVE Continued(s, t)
  BY <1>2, <1>4 DEF Tree!Create, Tree!With
<1>5. ASSUME NEW m \in DOMAIN NodeTrees, Tree!Attach(m) PROVE Continued(s, t)
  <2>1. NodeTrees' = [NodeTrees EXCEPT ![m] = Append(@, Tree!Last(NodeTrees'[m]))]
    BY <1>5 DEF Tree!Attach
  <2>2. CASE m = n
    <3>1. \E e : t = Append(s, e)
      BY <2>1, <2>2
    <3> HIDE DEF s, t
    <3> QED
      BY <1>1, <3>1, AppendContinues
  <2>3. CASE m # n
    BY <1>2, <2>1, <2>3
  <2> QED
    BY <2>2, <2>3
<1>6. ASSUME NEW m \in DOMAIN NodeTrees, NEW a \in DOMAIN LooseLists, Tree!AttachList(m, a)
      PROVE  Continued(s, t)
  <2>1. NodeTrees' = [NodeTrees EXCEPT ![m] = @ \o LooseLists[a]]
    BY <1>6 DEF Tree!AttachList
  <2>2. CASE m = n
    <3>1. t = s \o LooseLists[a] /\ LooseLists[a] \in Seq(S)
      BY <2>1, <2>2
    <3> HIDE DEF s, t
    <3> QED
      BY <1>1, <3>1, ConcatContinues
  <2>3. CASE m # n
    BY <1>2, <2>1, <2>3
  <2> QED
    BY <2>2, <2>3
<1>7. ASSUME NEW m \in DOMAIN NodeTrees, NEW k \in DOMAIN NodeTrees, Tree!Extend(m, k)
      PROVE  Continued(s, t)
  <2>1. NodeTrees' = Tree!Without([NodeTrees EXCEPT ![m] = @ \o NodeTrees[k]], k)
    BY <1>7 DEF Tree!Extend
  <2>2. t = [NodeTrees EXCEPT ![m] = @ \o NodeTrees[k]][n]
    BY <2>1 DEF Tree!Without
  <2>3. CASE m = n
    <3>1. t = s \o NodeTrees[k] /\ NodeTrees[k] \in Seq(S)
      BY <2>2, <2>3
    <3> HIDE DEF s, t
    <3> QED
      BY <1>1, <3>1, ConcatContinues
  <2>4. CASE m # n
    BY <1>2, <2>2, <2>4
  <2> QED
    BY <2>3, <2>4
<1>8. ASSUME NEW m \in DOMAIN NodeTrees, NEW i \in DOMAIN NodeTrees[m], Tree!Overwrite(m, i)
      PROVE  Continued(s, t)
  <2>1. /\ NodeTrees' = [NodeTrees EXCEPT ![m][i].text = NodeTrees'[m][i].text]
        /\ NodeTrees[m][i].kind \in {"CONST_STRING", "INTEGER"}
    BY <1>8 DEF Tree!Overwrite
  <2>2. CASE m = n
    <3>1. /\ t = [s EXCEPT ![i].text = NodeTrees'[m][i].text]
          /\ i \in DOMAIN s /\ s[i].kind \in {"CONST_STRING", "INTEGER"}
      BY <2>1, <2>2
    <3>2. \E val : t = [s EXCEPT ![i].text = val]
      BY <3>1
    <3> HIDE DEF s, t
    <3> QED
      BY <1>1, <3>1, <3>2, TextContinues
  <2>3. CASE m # n
    BY <1>2, <2>1, <2>3
  <2> QED
    BY <2>2, <2>3
<1>9. ASSUME NEW m \in DOMAIN NodeTrees, NEW i \in DOMAIN NodeTrees[m], NEW sub,
             Tree!AppendNode(m, i, sub)
      PROVE  Continued(s, t)
  <2>1. /\ NodeTrees' = [NodeTrees EXCEPT ![m][i].nodes = Append(@, sub)]
        /\ NodeTrees[m][i].kind = "AST_NODE"
    BY <1>9 DEF Tree!AppendNode
  <2>2. CASE m = n
    <3>1. /\ t = [s EXCEPT ![i].nodes = Append(@, sub)]
          /\ i \in DOMAIN s /\ s[i].kind = "AST_NODE"
      BY <2>1, <2>2
    <3> HIDE DEF s, t
    <3> QED
      BY <1>1, <3>1, NodesContinue
  <2>3. CASE m # n
    BY <1>2, <2>1, <2>3
  <2> QED
    BY <2>2, <2>3
<1>10. ASSUME NEW m, Tree!Free(m) PROVE Continued(s, t)
  BY <1>2, <1>10 DEF Tree!Free, Tree!Without
<1>11. ASSUME NEW a, \/ Tree!CreateList(a) \/ Tree!FreeList(a)
                     \/ \E b : Tree!JoinLists(a, b)
       PROVE  NodeTrees' = NodeTrees
  BY <1>11 DEF Tree!CreateList, Tree!FreeList, Tree!JoinLists
<1> HIDE DEF s, t
<1>12. \/ NodeTrees' = NodeTrees
       \/ \E m : Tree!Create(m) \/ Tree!Free(m)
       \/ \E a : \/ Tree!CreateList(a) \/ Tree!FreeList(a)
                \/ \E b : Tree!JoinLists(a, b)
       \/ \E m \in DOMAIN NodeTrees :
             \/ Tree!Attach(m)
             \/ \E a \in DOMAIN LooseLists : Tree!AttachList(m, a)
             \/ \E k \in DOMAIN NodeTrees : Tree!Extend(m, k)
             \/ \E i \in DOMAIN NodeTrees[m] :
                   Tree!Overwrite(m, i) \/ \E sub : Tree!AppendNode(m, i, sub)
  <2>1. CASE Tree!TreeNext
    BY <2>1, Zenon DEF Tree!TreeNext
  <2>2. CASE UNCHANGED Tree!treeVars
    BY <2>2 DEF Tree!treeVars
  <2> QED
    BY <2>1, <2>2 DEF Stepped
<1>13. ASSUME NodeTrees' = NodeTrees PROVE Continued(s, t)
  BY <1>3, <1>13 DEF s, t
<1>14. Continued(s, t)
  <2>1. ASSUME NEW m \in DOMAIN NodeTrees,
               \/ Tree!Attach(m)
               \/ \E a \in DOMAIN LooseLists : Tree!AttachList(m, a)
               \/ \E k \in DOMAIN NodeTrees : Tree!Extend(m, k)
               \/ \E i \in DOMAIN NodeTrees[m] :
                     Tree!Overwrite(m, i) \/ \E sub : Tree!AppendNode(m, i, sub)
        PROVE  Continued(s, t)
    BY <1>5, <1>6, <1>7, <1>8, <1>9, <2>1
  <2>2. ASSUME NEW m, Tree!Create(m) \/ Tree!Free(m) PROVE Continued(s, t)
    BY <1>4, <1>10, <2>2
  <2>3. ASSUME NEW a, \/ Tree!CreateList(a) \/ Tree!FreeList(a)
                      \/ \E b : Tree!JoinLists(a, b)
        PROVE  Continued(s, t)
    BY <1>11, <1>13, <2>3
  <2> QED
    BY <1>12, <1>13, <2>1, <2>2, <2>3
<1> QED
  BY <1>14 DEF s, t

\* The attributes of a sound heap are attributes.
LEMMA AttributesAre ==
    ASSUME NEW h, NEW nodes, NEW attrs, Sound(h, nodes, attrs)
    PROVE  Attributes({AttributeOf(h, b) : b \in 1..Len(h.attr)})
<1> SUFFICES ASSUME NEW b \in 1..Len(h.attr)
             PROVE  /\ AttributeOf(h, b).nodes \in Seq(Nat)
                    /\ AttributeOf(h, b).kind = "AST_NODE" => AttributeOf(h, b).nodes # <<>>
  BY DEF Attributes, AttributeOf
<1> DEFINE p == h.attr[b].node
           s == Chain(h.node, p)
<1>1. AttributeOf(h, b).nodes = s /\ AttributeOf(h, b).kind = h.attr[b].kind
  BY DEF AttributeOf
<1>2. p \in 0..Len(h.node) /\ Orderly(h.node)
  <2>1. NodeHeads(h, nodes)
    BY SoundHeads
  <2> QED
    BY <2>1 DEF NodeHeads, Leads
<1>3. h.attr[b].kind = "AST_NODE" => p # Nil
  BY DEF Sound, Typed
<1>4. s \in Seq(Nat)
  <2>1. s \in Seq(1..Len(h.node))
    BY <1>2, ChainInSeq
  <2> HIDE DEF s
  <2> QED
    BY <2>1
<1>5. p # Nil => s # <<>>
  <2> SUFFICES ASSUME p # Nil PROVE s # <<>>
    OBVIOUS
  <2>1. p \in 1..Len(h.node)
    BY <1>2 DEF Nil
  <2>2. Len(s) \in Nat \ {0}
    BY <1>2, <2>1, ChainFacts
  <2> HIDE DEF s
  <2> QED
    BY <2>2
<1> QED
  BY <1>1, <1>3, <1>4, <1>5

-----------------------------------------------------------------------------
(* Theorems *)

LEMMA TreeInit == Init => TreeInv /\ Tree!TreeInit
<1> SUFFICES ASSUME Init PROVE TreeInv /\ Tree!TreeInit
  OBVIOUS
<1>1. heap.node = <<>> /\ held = {} /\ loose = {} /\ Len(heap.node) = 0
  BY DEF Init, EmptyHeap
<1>2. TreeInv
  <2>1. Sound(heap, held, loose)
    BY HeapInit DEF HeapInv, Init, EmptyHeap, Running
  <2> QED
    BY <1>1, <2>1, ClientAssumption DEF TreeInv, HeldAlone
<1>3. LiveNodes = {}
  BY <1>1 DEF LiveNodes
<1>4. \A f : DOMAIN f = {} /\ f = [x \in {} |-> f[x]] => f = <<>>
  OBVIOUS
<1>5. NodeTrees = <<>> /\ LooseLists = <<>>
  BY <1>1, <1>3 DEF NodeTrees, LooseLists
<1> QED
  BY <1>2, <1>5 DEF Tree!TreeInit

LEMMA TreeStep == HeapInv /\ HeapInv' /\ TreeInv /\ [Next]_vars => Stepped /\ TreeInv'
<1> SUFFICES ASSUME HeapInv, HeapInv', TreeInv, [Next]_vars PROVE Stepped /\ TreeInv'
  OBVIOUS
<1>1. CASE UNCHANGED vars
  <2>1. heap' = heap /\ held' = held /\ loose' = loose
    BY <1>1 DEF vars
  <2>2. NodeTrees' = NodeTrees /\ LooseLists' = LooseLists
    BY <2>1 DEF NodeTrees, LooseLists, LiveNodes
  <2>3. TreeInv'
    BY <2>1 DEF TreeInv
  <2> QED
    BY <2>2, <2>3 DEF Stepped, Tree!treeVars
<1>2. CASE Next
  <2>1. Running(heap)
    BY <1>2 DEF Next, Call, CreateNode, CreateText, SetText, CreateNodeAttr, AppendNode,
                AttachAttr, SetFirstAttr, AppendAttr, Extend, DestroyNode, DestroyAttr
  <2> QED
    BY <1>2, <2>1, CreateNodeStep, CreateTextStep, CreateNodeAttrStep, SetTextStep,
       AppendNodeStep, AttachAttrStep, SetFirstAttrStep, AppendToNodeStep, AppendToListStep,
       ExtendStep, DestroyNodeStep, DestroyAttrStep DEF Next
<1> QED
  BY <1>1, <1>2

\* ast.c implements sequences of attributes and of nodes: each call that returns makes
\* one step of AstTree, and each call that does not return has moved nothing, after
\* any number of calls in any order (LL_APPEND, LL_CONCAT, the getters' first match).
THEOREM TreeImplemented == Spec => ImplementsTree
<1>1. HeapInv /\ HeapInv' /\ TreeInv /\ [Next]_vars => [Tree!TreeNext]_(Tree!treeVars) /\ TreeInv'
  BY TreeStep DEF Stepped
<1> QED
  BY <1>1, TreeInit, HeapInit, HeapStep, PTL DEF Spec, ImplementsTree, Tree!TreeSpec

LEMMA AnswersStep ==
    ASSUME HeapInv, HeapInv', TreeInv, TreeInv', Stepped,
           NEW n \in held, n \in held', NEW key
    PROVE  LET text == ast_node_get_attr_str_value(heap, n, key)
               node == ast_node_get_attr_node_value(heap, n, key)
           IN  /\ text # NoText => ast_node_get_attr_str_value(heap', n, key) = text
               /\ node # Nil => ast_node_get_attr_node_value(heap', n, key) = node
<1> DEFINE S == {AttributeOf(heap, b) : b \in 1..Len(heap.attr)}
<1>1. Sound(heap, held, loose) /\ Sound(heap', held', loose')
  BY DEF TreeInv
<1>2. NodeTrees = TreeOf(heap) /\ LooseLists = ListOf(heap, loose) /\ NodeTrees' = TreeOf(heap')
  <2>1. NodeTrees = TreeOf(heap) /\ LooseLists = ListOf(heap, loose)
    BY TreesAre
  <2>2. (NodeTrees = TreeOf(heap))'
    BY TreesAre, PTL
  <2> QED
    BY <2>1, <2>2
<1>3. n \in DOMAIN NodeTrees /\ n \in DOMAIN NodeTrees'
  BY <1>1, <1>2, TreeIs
<1>4. Attributes(S) /\ \A m \in DOMAIN NodeTrees : NodeTrees[m] \in Seq(S)
  BY <1>1, <1>2, AttributesAre, TreeIs DEF TreeFacts
<1>5. \A a \in DOMAIN LooseLists : LooseLists[a] \in Seq(S)
  <2>1. DOMAIN LooseLists = loose /\ \A a \in loose : LooseLists[a] = AttributesFrom(heap, a)
    BY <1>2 DEF ListOf
  <2> QED
    BY <1>1, <2>1, AttrsInHeap, FromInSeq
<1> HIDE DEF S
<1>6. Continued(NodeTrees[n], NodeTrees'[n])
  BY <1>3, <1>4, <1>5, StepContinues
<1>7. /\ ast_node_get_attr_str_value(heap, n, key) = TextIn(NodeTrees[n], key)
      /\ ast_node_get_attr_node_value(heap, n, key) = NodeIn(NodeTrees[n], key)
  BY <1>1, <1>2, GettersRead
<1>8. /\ ast_node_get_attr_str_value(heap', n, key) = TextIn(NodeTrees'[n], key)
      /\ ast_node_get_attr_node_value(heap', n, key) = NodeIn(NodeTrees'[n], key)
  BY <1>1, <1>2, GettersRead
<1> QED
  BY <1>6, <1>7, <1>8, AnswersContinue

\* What a getter has answered for a node it answers as long as the node is neither
\* joined to another nor destroyed, whatever is set, appended, attached or joined to it:
\* the first match stays the first (ast_node_get_attr), its string is never replaced
\* and the first of its nodes stays the first.
THEOREM AnswersKept == Spec => AnswersStable
<1> DEFINE A == \A n \in held \cap held', key \in Key :
                   LET text == ast_node_get_attr_str_value(heap, n, key)
                       node == ast_node_get_attr_node_value(heap, n, key)
                   IN  /\ text # NoText => ast_node_get_attr_str_value(heap', n, key) = text
                       /\ node # Nil => ast_node_get_attr_node_value(heap', n, key) = node
<1>1. HeapInv /\ HeapInv' /\ TreeInv /\ [Next]_vars => A /\ TreeInv'
  BY TreeStep, AnswersStep
<1>2. HeapInv /\ HeapInv' /\ TreeInv /\ [Next]_vars => TreeInv'
  BY TreeStep
<1> QED
  BY <1>1, <1>2, TreeInit, HeapInit, HeapStep, PTL DEF Spec, AnswersStable
=============================================================================
