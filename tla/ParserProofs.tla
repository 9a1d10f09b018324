---------------------------- MODULE ParserProofs ----------------------------
(***************************************************************************)
(* What holds of the parser for every derivation: whatever productions are *)
(* reduced, in whatever order, the semantic actions keep the heap of ast.c *)
(* a forest whose roots are the program and the values on the stack, and   *)
(* only an empty statement in a statement list can stop them.              *)
(***************************************************************************)
EXTENDS Parser, AstHeapProofs

-----------------------------------------------------------------------------
(* The productions *)

Placed(part, n) == part.op \in {"str", "sub", "lit"} /\ (part.op # "lit" => part.position \in 1..n)

\* The part takes the value at a position.
At(part, k) == part.op # "lit" /\ part.position = k

Unlike(a, b) ==
    /\ a.key # b.key
    /\ a.op # "lit" /\ b.op # "lit" => a.position # b.position

PartsOK(p) ==
    /\ Len(p.parts) \in Nat /\ DOMAIN p.parts = 1..Len(p.parts)
    /\ \A i \in DOMAIN p.parts : Placed(p.parts[i], p.arity)
    /\ \A i, j \in DOMAIN p.parts : i # j => Unlike(p.parts[i], p.parts[j])

Covered(p) == \A k \in 1..p.arity : \E i \in DOMAIN p.parts : At(p.parts[i], k)

\* A production for a node takes each of its values into one attribute, and no two
\* attributes have the same key.
NodeRow(p) == p.shape = "node" /\ p.arity \in Nat /\ PartsOK(p) /\ Covered(p)

LEMMA Row1 ==
    ASSUME NEW type, NEW n \in Nat, NEW a,
           Placed(a, n),
           \A k \in 1..n : At(a, k)
    PROVE  NodeRow(Node(type, n, <<a>>))
<1> DEFINE s == <<a>>
           p == Node(type, n, s)
<1>1. p.shape = "node" /\ p.arity = n /\ p.parts = s
  BY DEF Node
<1>2. DOMAIN s = {1} /\ Len(s) = 1
  OBVIOUS
<1>3. s[1] = a
  OBVIOUS
<1> HIDE DEF p, s
<1>4. DOMAIN s = 1..Len(s) /\ Len(s) \in Nat
  BY <1>2
<1>5. PartsOK(p)
  BY <1>1, <1>2, <1>3, <1>4 DEF PartsOK, Unlike
<1>6. Covered(p)
  BY <1>1, <1>2, <1>3 DEF Covered
<1> QED
  BY <1>1, <1>5, <1>6 DEF NodeRow, p, s

LEMMA Row2 ==
    ASSUME NEW type, NEW n \in Nat, NEW a, NEW b,
           Placed(a, n), Placed(b, n),
           Unlike(a, b),
           \A k \in 1..n : At(a, k) \/ At(b, k)
    PROVE  NodeRow(Node(type, n, <<a, b>>))
<1> DEFINE s == <<a, b>>
           p == Node(type, n, s)
<1>1. p.shape = "node" /\ p.arity = n /\ p.parts = s
  BY DEF Node
<1>2. DOMAIN s = {1, 2} /\ Len(s) = 2
  OBVIOUS
<1>3. s[1] = a /\ s[2] = b
  OBVIOUS
<1> HIDE DEF p, s
<1>4. DOMAIN s = 1..Len(s) /\ Len(s) \in Nat
  BY <1>2
<1>5. PartsOK(p)
  BY <1>1, <1>2, <1>3, <1>4 DEF PartsOK, Unlike
<1>6. Covered(p)
  BY <1>1, <1>2, <1>3 DEF Covered
<1> QED
  BY <1>1, <1>5, <1>6 DEF NodeRow, p, s

LEMMA Row3 ==
    ASSUME NEW type, NEW n \in Nat, NEW a, NEW b, NEW c,
           Placed(a, n), Placed(b, n), Placed(c, n),
           Unlike(a, b), Unlike(a, c), Unlike(b, c),
           \A k \in 1..n : At(a, k) \/ At(b, k) \/ At(c, k)
    PROVE  NodeRow(Node(type, n, <<a, b, c>>))
<1> DEFINE s == <<a, b, c>>
           p == Node(type, n, s)
<1>1. p.shape = "node" /\ p.arity = n /\ p.parts = s
  BY DEF Node
<1>2. DOMAIN s = {1, 2, 3} /\ Len(s) = 3
  OBVIOUS
<1>3. s[1] = a /\ s[2] = b /\ s[3] = c
  OBVIOUS
<1> HIDE DEF p, s
<1>4. DOMAIN s = 1..Len(s) /\ Len(s) \in Nat
  BY <1>2
<1>5. PartsOK(p)
  BY <1>1, <1>2, <1>3, <1>4 DEF PartsOK, Unlike
<1>6. Covered(p)
  BY <1>1, <1>2, <1>3 DEF Covered
<1> QED
  BY <1>1, <1>5, <1>6 DEF NodeRow, p, s

LEMMA Row4 ==
    ASSUME NEW type, NEW n \in Nat, NEW a, NEW b, NEW c, NEW d,
           Placed(a, n), Placed(b, n), Placed(c, n), Placed(d, n),
           Unlike(a, b), Unlike(a, c), Unlike(a, d), Unlike(b, c), Unlike(b, d), Unlike(c, d),
           \A k \in 1..n : At(a, k) \/ At(b, k) \/ At(c, k) \/ At(d, k)
    PROVE  NodeRow(Node(type, n, <<a, b, c, d>>))
<1> DEFINE s == <<a, b, c, d>>
           p == Node(type, n, s)
<1>1. p.shape = "node" /\ p.arity = n /\ p.parts = s
  BY DEF Node
<1>2. DOMAIN s = {1, 2, 3, 4} /\ Len(s) = 4
  OBVIOUS
<1>3. s[1] = a /\ s[2] = b /\ s[3] = c /\ s[4] = d
  OBVIOUS
<1> HIDE DEF p, s
<1>4. DOMAIN s = 1..Len(s) /\ Len(s) \in Nat
  BY <1>2
<1>5. PartsOK(p)
  BY <1>1, <1>2, <1>3, <1>4 DEF PartsOK, Unlike
<1>6. Covered(p)
  BY <1>1, <1>2, <1>3 DEF Covered
<1> QED
  BY <1>1, <1>5, <1>6 DEF NodeRow, p, s

LEMMA Row5 ==
    ASSUME NEW type, NEW n \in Nat, NEW a, NEW b, NEW c, NEW d, NEW e,
           Placed(a, n), Placed(b, n), Placed(c, n), Placed(d, n), Placed(e, n),
           Unlike(a, b), Unlike(a, c), Unlike(a, d), Unlike(a, e), Unlike(b, c), Unlike(b, d),
           Unlike(b, e), Unlike(c, d), Unlike(c, e), Unlike(d, e),
           \A k \in 1..n : At(a, k) \/ At(b, k) \/ At(c, k) \/ At(d, k) \/ At(e, k)
    PROVE  NodeRow(Node(type, n, <<a, b, c, d, e>>))
<1> DEFINE s == <<a, b, c, d, e>>
           p == Node(type, n, s)
<1>1. p.shape = "node" /\ p.arity = n /\ p.parts = s
  BY DEF Node
<1>2. DOMAIN s = {1, 2, 3, 4, 5} /\ Len(s) = 5
  OBVIOUS
<1>3. s[1] = a /\ s[2] = b /\ s[3] = c /\ s[4] = d /\ s[5] = e
  OBVIOUS
<1> HIDE DEF p, s
<1>4. DOMAIN s = 1..Len(s) /\ Len(s) \in Nat
  BY <1>2
<1>5. PartsOK(p)
  BY <1>1, <1>2, <1>3, <1>4 DEF PartsOK, Unlike
<1>6. Covered(p)
  BY <1>1, <1>2, <1>3 DEF Covered
<1> QED
  BY <1>1, <1>5, <1>6 DEF NodeRow, p, s

LEMMA ExpressionsSound == \A x \in DOMAIN Expressions : NodeRow(Expressions[x])
<1> USE DEF Str, Sub, Lit, Placed, Unlike, At
<1>1. NodeRow(Node("VARIABLE", 2, <<Str("ID", 1), Sub("ID_VARPART", 2)>>))
  BY Row2
<1>2. NodeRow(Node("VARIABLE", 2, <<Str("ID", 1), Str("MEMBER", 2)>>))
  BY Row2
<1>3. NodeRow(Node("ID_VARPART", 1, <<Sub("EXPRESSION_LIST", 1)>>))
  BY Row1
<1>4. NodeRow(Node("EXPRESSION", 3, <<Sub("SIMPLE_EXPRESSION_HEAD", 1), Sub("RELOP", 2),
                   Sub("SIMPLE_EXPRESSION_TAIL", 3)>>))
  BY Row3
<1>5. NodeRow(Node("EXPRESSION", 1, <<Sub("SIMPLE_EXPRESSION", 1)>>))
  BY Row1
<1>6. NodeRow(Node("SIMPLE_EXPRESSION", 3, <<Sub("SIMPLE_EXPRESSION", 1), Sub("ADDOP", 2),
                   Sub("TERM", 3)>>))
  BY Row3
<1>7. NodeRow(Node("SIMPLE_EXPRESSION", 1, <<Sub("TERM", 1)>>))
  BY Row1
<1>8. NodeRow(Node("TERM", 3, <<Sub("TERM", 1), Sub("MULOP", 2), Sub("FACTOR", 3)>>))
  BY Row3
<1>9. NodeRow(Node("TERM", 1, <<Sub("FACTOR", 1)>>))
  BY Row1
<1>10. NodeRow(Node("FACTOR", 1, <<Str("NUM", 1)>>))
  BY Row1
<1>11. NodeRow(Node("FACTOR", 1, <<Sub("VARIABLE", 1)>>))
  BY Row1
<1>12. NodeRow(Node("FACTOR", 2, <<Str("ID", 1), Sub("EXPRESSION_LIST", 2)>>))
  BY Row2
<1>13. NodeRow(Node("FACTOR", 1, <<Sub("EXPRESSION", 1)>>))
  BY Row1
<1>14. NodeRow(Node("FACTOR", 1, <<Lit("TYPE", "T_NOT"), Sub("FACTOR", 1)>>))
  BY Row2
<1>15. NodeRow(Node("FACTOR", 1, <<Lit("TYPE", "T_MINUS"), Sub("FACTOR", 1)>>))
  BY Row2
<1> QED
  BY <1>1, <1>2, <1>3, <1>4, <1>5, <1>6, <1>7, <1>8, <1>9, <1>10, <1>11, <1>12, <1>13, <1>14, <1>15 DEF Expressions

LEMMA StatementsSound == \A x \in DOMAIN Statements : NodeRow(Statements[x])
<1> USE DEF Str, Sub, Lit, Placed, Unlike, At
<1>1. NodeRow(Node("COMPOUND_STATEMENT", 1, <<Sub("STATEMENT_LIST", 1)>>))
  BY Row1
<1>2. NodeRow(Node("STATEMENT", 2, <<Lit("TYPE", "ASSIGNMENT"), Sub("VARIABLE", 1),
                   Sub("EXPRESSION", 2)>>))
  BY Row3
<1>3. NodeRow(Node("STATEMENT", 1, <<Lit("TYPE", "PROCEDURE_CALL"), Sub("PROCEDURE_CALL", 1)>>))
  BY Row2
<1>4. NodeRow(Node("STATEMENT", 1, <<Sub("COMPOUND_STATEMENT", 1)>>))
  BY Row1
<1>5. NodeRow(Node("STATEMENT", 3, <<Lit("TYPE", "IF"), Sub("EXPRESSION", 1),
                   Sub("STATEMENT", 2), Sub("ELSE_PART", 3)>>))
  BY Row4
<1>6. NodeRow(Node("STATEMENT", 4, <<Lit("TYPE", "FOR"), Str("ID", 1),
                   Sub("EXPRESSION_BEGIN", 2), Sub("EXPRESSION_END", 3), Sub("STATEMENT", 4)>>))
  BY Row5
<1>7. NodeRow(Node("STATEMENT", 2, <<Lit("TYPE", "WHILE"), Sub("EXPRESSION", 1),
                   Sub("STATEMENT", 2)>>))
  BY Row3
<1>8. NodeRow(Node("ELSE_PART", 1, <<Sub("STATEMENT", 1)>>))
  BY Row1
<1>9. NodeRow(Node("PROCEDURE_CALL", 1, <<Str("ID", 1)>>))
  BY Row1
<1>10. NodeRow(Node("PROCEDURE_CALL", 2, <<Str("ID", 1), Sub("EXPRESSION_LIST", 2)>>))
  BY Row2
<1> QED
  BY <1>1, <1>2, <1>3, <1>4, <1>5, <1>6, <1>7, <1>8, <1>9, <1>10 DEF Statements

LEMMA DeclarationsSound == \A x \in DOMAIN Declarations : NodeRow(Declarations[x])
<1> USE DEF Str, Sub, Lit, Placed, Unlike, At
<1>1. NodeRow(Node("PROGRAM_HEAD", 1, <<Str("ID", 1)>>))
  BY Row1
<1>2. NodeRow(Node("PROGRAM_HEAD", 2, <<Str("ID", 1), Sub("IDLIST", 2)>>))
  BY Row2
<1>3. NodeRow(Node("PROGRAM_BODY", 5, <<Sub("CONST_DECLARATIONS", 1),
                   Sub("TYPE_DECLARATIONS", 2), Sub("VAR_DECLARATIONS", 3),
                   Sub("SUBPROGRAM_DECLARATIONS_LIST", 4), Sub("COMPOUND_STATEMENT", 5)>>))
  BY Row5
<1>4. NodeRow(Node("CONST_DECLARATIONS", 1, <<Sub("CONST_DECLARATION_LIST", 1)>>))
  BY Row1
<1>5. NodeRow(Node("CONST_DECLARATION", 2, <<Str("ID", 1), Sub("CONST_VALUE", 2)>>))
  BY Row2
<1>6. NodeRow(Node("CONST_VALUE", 1, <<Str("T_NUM", 1)>>))
  BY Row1
<1>7. NodeRow(Node("CONST_VALUE", 1, <<Str("T_MINUS", 1)>>))
  BY Row1
<1>8. NodeRow(Node("CONST_VALUE", 1, <<Str("T_LETTER", 1)>>))
  BY Row1
<1>9. NodeRow(Node("TYPE_DECLARATIONS", 1, <<Sub("TYPE_DECLARATION_LIST", 1)>>))
  BY Row1
<1>10. NodeRow(Node("RECORD", 2, <<Str("ID", 1), Sub("TYPE_RECORD_DECLARATION", 2)>>))
  BY Row2
<1>11. NodeRow(Node("ARRAY", 3, <<Str("ID", 1), Str("BASIC_TYPE", 3), Sub("PERIOD_LIST", 2)>>))
  BY Row3
<1>12. NodeRow(Node("VAR_DECLARATIONS", 1, <<Sub("VAR_DECLARATION_LIST", 1)>>))
  BY Row1
<1>13. NodeRow(Node("VAR_DECLARATION", 2, <<Sub("IDLIST", 1), Sub("TYPE", 2)>>))
  BY Row2
<1>14. NodeRow(Node("TYPE", 1, <<Str("BASIC_TYPE", 1)>>))
  BY Row1
<1>15. NodeRow(Node("PERIOD", 2, <<Str("PERIOD_BEGIN", 1), Str("PERIOD_END", 2)>>))
  BY Row2
<1> QED
  BY <1>1, <1>2, <1>3, <1>4, <1>5, <1>6, <1>7, <1>8, <1>9, <1>10, <1>11, <1>12, <1>13, <1>14, <1>15 DEF Declarations

LEMMA SubprogramsSound == \A x \in DOMAIN Subprograms : NodeRow(Subprograms[x])
<1> USE DEF Str, Sub, Lit, Placed, Unlike, At
<1>1. NodeRow(Node("SUBPROGRAM", 2, <<Sub("SUBPROGRAM_HEAD", 1), Sub("SUBPROGRAM_BODY", 2)>>))
  BY Row2
<1>2. NodeRow(Node("SUBPROGRAM_HEAD", 2, <<Str("ID", 1), Sub("FORMAL_PARAMETER", 2)>>))
  BY Row2
<1>3. NodeRow(Node("SUBPROGRAM_HEAD", 3, <<Str("ID", 1), Sub("FORMAL_PARAMETER", 2),
                   Str("BASIC_TYPE", 3)>>))
  BY Row3
<1>4. NodeRow(Node("FORMAL_PARAMETER", 1, <<Sub("PARAMETER_LIST", 1)>>))
  BY Row1
<1>5. NodeRow(Node("PARAMETER", 1, <<Sub("VAR_PARAMETER", 1)>>))
  BY Row1
<1>6. NodeRow(Node("PARAMETER", 1, <<Sub("VALUE_PARAMETER", 1)>>))
  BY Row1
<1>7. NodeRow(Node("VAR_PARAMETER", 1, <<Sub("VALUE_PARAMETER", 1)>>))
  BY Row1
<1>8. NodeRow(Node("VALUE_PARAMETER", 2, <<Sub("IDLIST", 1), Str("BASIC_TYPE", 2)>>))
  BY Row2
<1>9. NodeRow(Node("SUBPROGRAM_BODY", 4, <<Sub("CONST_DECLARATIONS", 1),
                   Sub("TYPE_DECLARATIONS", 2), Sub("VAR_DECLARATIONS", 3),
                   Sub("COMPOUND_STATEMENT", 4)>>))
  BY Row4
<1> QED
  BY <1>1, <1>2, <1>3, <1>4, <1>5, <1>6, <1>7, <1>8, <1>9 DEF Subprograms

ListRow(x, p) ==
    /\ p.shape \in {"list", "rest"} /\ p.arity = 2
    /\ p.key = "STATEMENT" => x \in {"statement_list", "statement_list_"}

LEMMA ListFormsSound == \A x \in DOMAIN ListForms : ListRow(x, ListForms[x])
<1>1. \A type, key : LET p == ListOf(type, key) IN p.shape = "list" /\ p.arity = 2 /\ p.key = key
  BY DEF ListOf
<1>2. \A key : LET p == RestOf(key) IN p.shape = "rest" /\ p.arity = 2 /\ p.key = key
  BY DEF RestOf
<1>3. \A x \in DOMAIN ListForms :
         \/ \E type, key : ListForms[x] = ListOf(type, key)
                           /\ (key = "STATEMENT" => x = "statement_list")
         \/ \E key : ListForms[x] = RestOf(key) /\ (key = "STATEMENT" => x = "statement_list_")
  BY DEF ListForms
<1> QED
  BY <1>1, <1>2, <1>3 DEF ListRow

LEMMA OperatorsSound == \A x \in DOMAIN Operators : NodeRow(Operators[x])
<1> SUFFICES ASSUME NEW x \in DOMAIN Operators PROVE NodeRow(Operators[x])
  OBVIOUS
<1> DEFINE p == Operators[x]
<1>1. p = Node(x, 0, <<>>)
  BY DEF Operators
<1> HIDE DEF p
<1>2. p.shape = "node" /\ p.arity = 0 /\ p.parts = <<>>
  BY <1>1 DEF Node
<1>3. DOMAIN p.parts = {} /\ Len(p.parts) = 0
  BY <1>2
<1>4. NodeRow(p)
  BY <1>2, <1>3 DEF NodeRow, PartsOK, Covered
<1> QED
  BY <1>4 DEF p

EmptyRow(p) == p.shape = "empty" /\ p.arity = 0

ProgramRow(p) == p.shape = "program" /\ p.arity = 2 /\ p.parts = <<Sub("PROGRAM_HEAD", 1)>>

LEMMA OthersSound == \A x \in DOMAIN Others : EmptyRow(Others[x]) \/ ProgramRow(Others[x])
<1>1. EmptyRow([Node("", 0, <<>>) EXCEPT !.shape = "empty"])
  BY DEF EmptyRow, Node
<1>2. ProgramRow([Node("PROGRAM_STRUCT", 2, <<Sub("PROGRAM_HEAD", 1)>>) EXCEPT !.shape = "program"])
  BY DEF ProgramRow, Node
<1>3. DOMAIN Others = {"empty", "program_struct"}
  BY DEF Others
<1>4. /\ Others["empty"] = [Node("", 0, <<>>) EXCEPT !.shape = "empty"]
      /\ Others["program_struct"]
         = [Node("PROGRAM_STRUCT", 2, <<Sub("PROGRAM_HEAD", 1)>>) EXCEPT !.shape = "program"]
  BY DEF Others
<1> QED
  BY <1>1, <1>2, <1>3, <1>4

Row(x, p) == NodeRow(p) \/ ListRow(x, p) \/ EmptyRow(p) \/ ProgramRow(p)

Rows(f) == \A x \in DOMAIN f : Row(x, f[x])

LEMMA OrRows ==
    ASSUME NEW f, NEW g, Rows(f), Rows(g)
    PROVE  Rows(Or(f, g))
BY DEF Rows, Or

LEMMA ProductionSound == \A x \in DOMAIN Production : Row(x, Production[x])
<1>1. Rows(Expressions) /\ Rows(Statements) /\ Rows(Declarations) /\ Rows(Subprograms)
  BY ExpressionsSound, StatementsSound, DeclarationsSound, SubprogramsSound DEF Rows, Row
<1>2. Rows(ListForms) /\ Rows(Operators) /\ Rows(Others)
  BY ListFormsSound, OperatorsSound, OthersSound DEF Rows, Row
<1>3. \A f, g : Rows(f) /\ Rows(g) => Rows(Or(f, g))
  BY OrRows
<1>4. Rows(Production)
  BY <1>1, <1>2, <1>3 DEF Production
<1> QED
  BY <1>4 DEF Rows

-----------------------------------------------------------------------------
(* Derivations *)

\* The kinds of the values after item k of d, given those before it.
KindsAfter(d, k, stack) ==
    LET p == Production[d[k].prod]
    IN  IF d[k].prod = "" THEN Append(stack, "text")
        ELSE Append(Lower(stack, p.arity), Gives(p))

SolvesKinds(d, n, g) ==
    g = [k \in 0..n |-> IF k = 0 THEN <<>> ELSE KindsAfter(d, k, g[k - 1])]

\* The recursive function exists: the first length without one does not.
LEMMA KindsExist ==
    ASSUME NEW d, NEW n \in Nat
    PROVE  \E g : SolvesKinds(d, n, g)
<1> DEFINE Bad == {m \in Nat : ~ \E g : SolvesKinds(d, m, g)}
<1>1. ASSUME Bad # {} PROVE FALSE
  <2>1. PICK m \in Bad : \A j \in Bad : m <= j
    <3>1. Bad \subseteq Nat
      OBVIOUS
    <3> HIDE DEF Bad
    <3> QED
      BY <1>1, <3>1, LeastNumber
  <2>2. m \in Nat /\ ~ \E g : SolvesKinds(d, m, g)
    BY <2>1
  <2>3. CASE m = 0
    <3>1. SolvesKinds(d, 0, [k \in 0..0 |-> <<>>])
      BY DEF SolvesKinds
    <3> QED
      BY <2>2, <2>3, <3>1
  <2>4. CASE m # 0
    <3>1. m - 1 \in Nat /\ m - 1 \notin Bad
      BY <2>1, <2>2, <2>4
    <3>2. PICK g : SolvesKinds(d, m - 1, g)
      BY <3>1
    <3> DEFINE h == [k \in 0..m |-> IF k = m THEN KindsAfter(d, m, g[m - 1]) ELSE g[k]]
    <3>3. ASSUME NEW k \in 0..m
          PROVE  h[k] = IF k = 0 THEN <<>> ELSE KindsAfter(d, k, h[k - 1])
      <4>1. CASE k = 0
        <5>1. h[k] = g[k] /\ k \in 0..m - 1
          BY <2>2, <2>4, <4>1
        <5> QED
          BY <3>2, <4>1, <5>1 DEF SolvesKinds
      <4>2. CASE k # 0
        <5>1. k - 1 \in 0..m /\ k - 1 # m
          BY <2>2, <4>2
        <5>2. h[k - 1] = g[k - 1]
          BY <5>1
        <5>3. CASE k = m
          BY <4>2, <5>2, <5>3
        <5>4. CASE k # m
          <6>1. h[k] = g[k] /\ k \in 0..m - 1
            BY <2>2, <5>4
          <6>2. g[k] = KindsAfter(d, k, g[k - 1])
            BY <3>2, <4>2, <6>1 DEF SolvesKinds
          <6> HIDE DEF h
          <6> QED
            BY <4>2, <5>2, <6>1, <6>2
        <5> QED
          BY <5>3, <5>4
      <4> QED
        BY <4>1, <4>2
    <3>4. SolvesKinds(d, m, h)
      <4>1. h = [k \in 0..m |-> h[k]]
        OBVIOUS
      <4> HIDE DEF h
      <4> QED
        BY <3>3, <4>1 DEF SolvesKinds
    <3> HIDE DEF h
    <3> QED
      BY <2>2, <3>4
  <2> QED
    BY <2>3, <2>4
<1> QED
  BY <1>1

LEMMA KindsUnfold ==
    ASSUME NEW d, Len(d) \in Nat
    PROVE  /\ Kinds(d)[0] = <<>>
           /\ \A k \in 1..Len(d) : Kinds(d)[k] = KindsAfter(d, k, Kinds(d)[k - 1])
<1> DEFINE kinds == CHOOSE g : SolvesKinds(d, Len(d), g)
<1>1. Kinds(d) = kinds
  BY DEF Kinds, SolvesKinds, KindsAfter
<1>2. SolvesKinds(d, Len(d), kinds)
  BY KindsExist
<1> HIDE DEF kinds
<1>3. SolvesKinds(d, Len(d), Kinds(d))
  BY <1>1, <1>2
<1>4. Kinds(d)[0] = <<>>
  BY <1>3 DEF SolvesKinds
<1>5. ASSUME NEW k \in 1..Len(d) PROVE Kinds(d)[k] = KindsAfter(d, k, Kinds(d)[k - 1])
  <2>1. k \in 0..Len(d) /\ k # 0
    OBVIOUS
  <2> QED
    BY <1>3, <2>1 DEF SolvesKinds
<1> QED
  BY <1>4, <1>5

-----------------------------------------------------------------------------
(* The attributes of a new node *)

NextPart(h, n, part, args) == IF Running(h) THEN AddPart(h, n, part, args) ELSE h

SolvesParts(h, n, parts, args, m, g) ==
    g = [k \in 0..m |-> IF k = 0 THEN h ELSE NextPart(g[k - 1], n, parts[k], args)]

LEMMA PartsExist ==
    ASSUME NEW h, NEW n, NEW parts, NEW args, NEW m \in Nat
    PROVE  \E g : SolvesParts(h, n, parts, args, m, g)
<1> DEFINE Solves(j, g) == SolvesParts(h, n, parts, args, j, g)
           Bad == {j \in Nat : ~ \E g : Solves(j, g)}
<1>1. ASSUME Bad # {} PROVE FALSE
  <2>1. PICK j \in Bad : \A i \in Bad : j <= i
    <3>1. Bad \subseteq Nat
      OBVIOUS
    <3> HIDE DEF Bad
    <3> QED
      BY <1>1, <3>1, LeastNumber
  <2>2. j \in Nat /\ ~ \E g : Solves(j, g)
    BY <2>1
  <2>3. CASE j = 0
    <3>1. Solves(0, [k \in 0..0 |-> h])
      BY DEF SolvesParts
    <3> QED
      BY <2>2, <2>3, <3>1
  <2>4. CASE j # 0
    <3>1. j - 1 \in Nat /\ j - 1 \notin Bad
      BY <2>1, <2>2, <2>4
    <3>2. PICK g : SolvesParts(h, n, parts, args, j - 1, g)
      BY <3>1
    <3> DEFINE f == [k \in 0..j |-> IF k = j THEN NextPart(g[j - 1], n, parts[j], args) ELSE g[k]]
    <3>3. ASSUME NEW k \in 0..j
          PROVE  f[k] = IF k = 0 THEN h ELSE NextPart(f[k - 1], n, parts[k], args)
      <4>1. CASE k = 0
        <5>1. f[k] = g[k] /\ k \in 0..j - 1
          BY <2>2, <2>4, <4>1
        <5> QED
          BY <3>2, <4>1, <5>1 DEF SolvesParts
      <4>2. CASE k # 0
        <5>1. k - 1 \in 0..j /\ k - 1 # j
          BY <2>2, <4>2
        <5>2. f[k - 1] = g[k - 1]
          BY <5>1
        <5>3. CASE k = j
          BY <4>2, <5>2, <5>3
        <5>4. CASE k # j
          <6>1. f[k] = g[k] /\ k \in 0..j - 1
            BY <2>2, <5>4
          <6>2. g[k] = NextPart(g[k - 1], n, parts[k], args)
            BY <3>2, <4>2, <6>1 DEF SolvesParts
          <6> HIDE DEF f
          <6> QED
            BY <4>2, <5>2, <6>1, <6>2
        <5> QED
          BY <5>3, <5>4
      <4> QED
        BY <4>1, <4>2
    <3>4. SolvesParts(h, n, parts, args, j, f)
      <4>1. f = [k \in 0..j |-> f[k]]
        OBVIOUS
      <4> HIDE DEF f
      <4> QED
        BY <3>3, <4>1 DEF SolvesParts
    <3> HIDE DEF f
    <3> QED
      BY <2>2, <3>4
  <2> QED
    BY <2>3, <2>4
<1> QED
  BY <1>1

\* One after the other, as long as the calls return.
PartsInOrder(h, n, parts, args, after) ==
    /\ after[0] = h
    /\ \A k \in 1..Len(parts) : after[k] = NextPart(after[k - 1], n, parts[k], args)

LEMMA PartsUnfold ==
    ASSUME NEW h, NEW n, NEW parts, NEW args, Len(parts) \in Nat
    PROVE  \E after : /\ PartsInOrder(h, n, parts, args, after)
                      /\ AddParts(h, n, parts, args) = after[Len(parts)]
<1> DEFINE after == CHOOSE g : SolvesParts(h, n, parts, args, Len(parts), g)
<1>1. AddParts(h, n, parts, args) = after[Len(parts)]
  BY DEF AddParts, SolvesParts, NextPart
<1>2. SolvesParts(h, n, parts, args, Len(parts), after)
  BY PartsExist
<1> HIDE DEF after
<1>3. after[0] = h
  BY <1>2 DEF SolvesParts
<1>4. ASSUME NEW k \in 1..Len(parts)
      PROVE  after[k] = NextPart(after[k - 1], n, parts[k], args)
  <2>1. k \in 0..Len(parts) /\ k # 0
    OBVIOUS
  <2> QED
    BY <1>2, <2>1 DEF SolvesParts
<1> QED
  BY <1>1, <1>3, <1>4 DEF PartsInOrder

\* The heap of a parser that holds these nodes and attributes: no node has a sibling,
\* no attribute has been freed, and every call has returned.
Whole(h, nodes, attrs) ==
    /\ Sound(h, nodes, attrs) /\ Running(h)
    /\ \A m \in 1..Len(h.node) : h.node[m].next = Nil
    /\ \A a \in 1..Len(h.attr) : h.attr[a].live

\* made is h with one attribute more, which nothing points to.
AttrMade(h, made, key) ==
    /\ made.node = h.node /\ Len(h.attr) \in Nat
    /\ Len(made.attr) = Len(h.attr) + 1
    /\ made.attr[Len(h.attr) + 1].key = key /\ made.attr[Len(h.attr) + 1].next = Nil
    /\ \A a \in 1..Len(h.attr) : made.attr[a] = h.attr[a]

LEMMA AttrIsMade ==
    ASSUME NEW h, NEW nodes, NEW attrs, Whole(h, nodes, attrs),
           NEW key \in Key, NEW kind \in AttrKind, NEW text \in Word \cup {NoText, Shared},
           NEW node \in nodes \cup {Nil}, kind = "AST_NODE" <=> node # Nil,
           NEW made, made = create_attr(h, key, kind, text, node)
    PROVE  /\ Whole(made, nodes \ {node}, attrs \cup {Len(h.attr) + 1})
           /\ AttrMade(h, made, key)
<1> DEFINE rec == [key |-> key, kind |-> kind, text |-> text, node |-> node,
                   next |-> Nil, live |-> TRUE]
<1>1. made = AddAttr(h, rec)
  BY DEF create_attr, AddAttr
<1>2. node \in Nat /\ Len(h.node) \in Nat /\ Len(h.attr) \in Nat
  BY DEF Whole, Sound, NodeLists, Lists, Nil
<1>3. /\ rec \in AttrRecord /\ rec.live /\ rec.next = Nil /\ rec.node = node
      /\ rec.kind = kind /\ rec.key = key
  BY <1>2 DEF AttrRecord, Nil
<1>4. h.attr \in Seq(AttrRecord) /\ made.attr = Append(h.attr, rec)
  BY <1>1 DEF AddAttr, Whole, Sound, Typed
<1> HIDE DEF rec
<1>5. OneMore(h.attr, made.attr) /\ made.attr[Len(h.attr) + 1] = rec
  BY <1>3, <1>4, OneAdded
<1>6. AttrGrown(h, rec, made, nodes, attrs)
  <2>1. FreshAttr(rec) /\ rec.node \in nodes \cup {Nil}
    BY <1>3 DEF FreshAttr
  <2> QED
    BY <1>1, <2>1, AttrAdded DEF Whole
<1>7. AttrMade(h, made, key)
  BY <1>2, <1>3, <1>5, <1>6 DEF AttrMade, OneMore, AttrGrown
<1>8. ASSUME NEW a \in 1..Len(made.attr) PROVE made.attr[a].live
  <2>1. a \in 1..Len(h.attr) \/ a = Len(h.attr) + 1
    BY <1>2, <1>5 DEF OneMore
  <2>2. CASE a \in 1..Len(h.attr)
    <3>1. made.attr[a] = h.attr[a]
      BY <1>5, <2>2 DEF OneMore
    <3> QED
      BY <2>2, <3>1 DEF Whole
  <2>3. CASE a = Len(h.attr) + 1
    BY <1>3, <1>5, <2>3
  <2> QED
    BY <2>1, <2>2, <2>3
<1> QED
  BY <1>3, <1>6, <1>7, <1>8 DEF Whole, AttrGrown, Running

LEMMA NotBehindItself ==
    ASSUME NEW h, NEW nodes, NEW attrs, Sound(h, nodes, attrs), NEW a \in 1..Len(h.attr)
    PROVE  h.attr[a].next # a
<1> DEFINE L == Len(h.attr)
           next == Nexts(h.attr)
<1>1. L \in Nat /\ next \in [1..L -> 0..L] /\ Ending(next, L) /\ next[a] = h.attr[a].next
  BY DEF Sound, AttrLists, Lists, Nexts
<1>2. PICK f \in [0..L -> Seq(1..L)] : Walk(next, L, f)
  BY <1>1 DEF Ending
<1>3. Len(f[next[a]]) \in Nat /\ Len(f[a]) = Len(f[next[a]]) + 1
  <2> HIDE DEF next, L
  <2>1. a \in 1..L
    BY DEF L
  <2> QED
    BY <1>1, <1>2, <2>1, WalkUnfolds
<1> QED
  BY <1>1, <1>3

\* h2 is h with one attribute more, at the end of the list of n.
Grew(h, h2, n, key) ==
    /\ Len(h2.node) = Len(h.node) /\ Len(h.attr) \in Nat /\ Len(h2.attr) = Len(h.attr) + 1
    /\ h2.attr[Len(h.attr) + 1].key = key /\ h2.attr[Len(h.attr) + 1].next = Nil
    /\ \A a \in 1..Len(h.attr) :
          /\ h2.attr[a].key = h.attr[a].key
          /\ h2.attr[a].next \in {h.attr[a].next, Len(h.attr) + 1}
    /\ h2.node[n].first \in {h.node[n].first, Len(h.attr) + 1}

LEMMA MadeIsAttached ==
    ASSUME NEW h, NEW made, NEW nodes, NEW attrs, NEW key, AttrMade(h, made, key),
           Whole(made, nodes, attrs \cup {Len(h.attr) + 1}), Len(h.attr) + 1 \notin attrs,
           NEW n \in nodes, NEW h2, h2 = ast_node_attach_attr(made, n, NewAttr(made))
    PROVE  Whole(h2, nodes, attrs) /\ Grew(h, h2, n, key)
<1> DEFINE a == Len(h.attr) + 1
           more == attrs \cup {a}
<1>1. NewAttr(made) = a /\ made.attr[a].next = Nil /\ a \in 1..Len(made.attr) /\ a # Nil
  BY DEF AttrMade, NewAttr, Nil
<1>2. Sound(made, nodes, more) /\ Running(made) /\ more \ {a} = attrs /\ a \in more
  BY DEF Whole
<1> HIDE DEF more
<1>3. h2 = Joined(made, n, a)
  BY <1>1, <1>2, AttachJoins
<1>4. n \in 1..Len(made.node) /\ made.node[n] \in NodeRecord
  BY <1>2, NodeFacts
<1> HIDE DEF a
<1>5. CASE made.node[n].first = Nil
  <2> DEFINE rec == [made.node[n] EXCEPT !.first = a]
  <2>1. Sound(h2, nodes, attrs) /\ NodeChange(made, n, rec, h2)
    <3> DEFINE j == Joined(made, n, a)
    <3>1. Sound(j, nodes, more \ {a}) /\ NodeChange(made, n, rec, j)
      BY <1>2, <1>5, JoinedFirst
    <3> HIDE DEF j, rec
    <3>2. j = h2
      BY <1>3 DEF j
    <3> QED
      BY <1>2, <3>1, <3>2
  <2>2. rec.next = made.node[n].next /\ rec.first = a
    BY <1>4 DEF NodeRecord
  <2> HIDE DEF rec
  <2>3. h2.attr = made.attr /\ h2.status = made.status /\ Len(h2.node) = Len(made.node)
        /\ \A m \in 1..Len(made.node) : h2.node[m] = IF m = n THEN rec ELSE made.node[m]
    BY <1>4, <2>1 DEF NodeChange, SameBut
  <2>4. Whole(h2, nodes, attrs)
    BY <1>4, <2>1, <2>2, <2>3 DEF Whole, Running
  <2>5. Grew(h, h2, n, key)
    BY <1>4, <2>2, <2>3 DEF Grew, AttrMade, a
  <2> QED
    BY <2>4, <2>5
<1>6. CASE made.node[n].first # Nil
  <2> DEFINE e   == TailOf(made.attr, made.node[n].first)
             rec == [made.attr[e] EXCEPT !.next = a]
  <2>1. Sound(h2, nodes, attrs) /\ AttrChange(made, e, rec, h2) /\ e \in Live(made.attr)
    BY <1>2, <1>3, <1>6, JoinedLast
  <2> HIDE DEF e
  <2>2. made.attr[e] \in AttrRecord /\ e \in 1..Len(made.attr) /\ made.attr[e].live
    BY <1>2, <2>1, AttrFacts
  <2>3. /\ rec.next = a /\ rec.key = made.attr[e].key /\ rec.live = made.attr[e].live
    BY <2>2 DEF AttrRecord
  <2> HIDE DEF rec
  <2>4. h2.node = made.node /\ h2.status = made.status /\ Len(h2.attr) = Len(made.attr)
        /\ \A b \in 1..Len(made.attr) : h2.attr[b] = IF b = e THEN rec ELSE made.attr[b]
    BY <2>1, <2>2 DEF AttrChange, SameBut
  <2>5. Whole(h2, nodes, attrs)
    BY <2>1, <2>2, <2>3, <2>4 DEF Whole, Running
  <2>6. e # a
    <3>1. e = a => h2.attr[a].next = a
      BY <2>2, <2>3, <2>4
    <3> QED
      BY <1>1, <2>1, <2>4, <3>1, NotBehindItself
  <2>7. Grew(h, h2, n, key)
    <3>1. a = Len(h.attr) + 1 /\ h2.attr[a] = made.attr[a]
      BY <1>1, <2>4, <2>6 DEF a
    <3>2. ASSUME NEW b \in 1..Len(h.attr)
          PROVE  /\ h2.attr[b].key = h.attr[b].key
                 /\ h2.attr[b].next \in {h.attr[b].next, a}
      <4>1. b \in 1..Len(made.attr) /\ made.attr[b] = h.attr[b]
        BY DEF AttrMade
      <4>2. h2.attr[b] = IF b = e THEN rec ELSE made.attr[b]
        BY <2>4, <4>1
      <4> QED
        BY <2>3, <4>1, <4>2
    <3> QED
      BY <2>4, <3>1, <3>2 DEF Grew, AttrMade
  <2> QED
    BY <2>5, <2>7
<1> QED
  BY <1>5, <1>6

LEMMA ChainOfNil ==
    ASSUME NEW h, NEW nodes, NEW attrs, Sound(h, nodes, attrs)
    PROVE  Chain(h.attr, Nil) = <<>>
<1> DEFINE N == Len(h.attr)
           next == Nexts(h.attr)
<1>1. N \in Nat /\ next \in [1..N -> 0..N] /\ LinkedBy(h.attr, next, N) /\ Nil \in 0..N
  BY DEF Sound, AttrLists, Lists, LinkedBy, Nil
<1>2. PICK f \in [0..N -> Seq(1..N)] : Walk(next, N, f)
  BY DEF Sound, AttrLists, Lists, Ending
<1> HIDE DEF N, next
<1>3. Chain(h.attr, Nil) = f[Nil]
  BY <1>1, <1>2, ChainIs, Zenon
<1> QED
  BY <1>2, <1>3 DEF Walk

\* The objects after L point only to each other.
ClosedAbove(h, L) ==
    \A a \in L + 1..Len(h.attr) : h.attr[a].next \in {Nil} \cup L + 1..Len(h.attr)

LEMMA ListAbove ==
    ASSUME NEW h, NEW nodes, NEW attrs, Sound(h, nodes, attrs),
           NEW L \in Nat, ClosedAbove(h, L), NEW p \in L + 1..Len(h.attr)
    PROVE  LET s == Chain(h.attr, p) IN \A i \in DOMAIN s : s[i] \in L + 1..Len(h.attr)
<1> DEFINE N == Len(h.attr)
           next == Nexts(h.attr)
           s == Chain(h.attr, p)
<1>1. N \in Nat /\ next \in [1..N -> 0..N] /\ LinkedBy(h.attr, next, N) /\ p \in 1..N
  BY DEF Sound, AttrLists, Lists, LinkedBy
<1>2. PICK f \in [0..N -> Seq(1..N)] : Walk(next, N, f)
  BY DEF Sound, AttrLists, Lists, Ending
<1>3. \A a \in L + 1..N : a \in 1..N /\ next[a] = h.attr[a].next
  BY DEF Nexts
<1> HIDE DEF next
<1>4. s = f[p]
  <2>1. p \in 0..N
    BY <1>1
  <2> HIDE DEF N
  <2> QED
    BY <1>1, <1>2, <2>1, ChainIs, Zenon DEF N
<1>5. s \in Seq(1..N) /\ s[1] = p /\ Linked(next, s)
  <2>1. f[p] \in Seq(1..N)
    BY <1>1
  <2> HIDE DEF N, s
  <2> QED
    BY <1>1, <1>2, <1>4, <2>1, WalkFirst, WalkSteps
<1>6. \A a \in L + 1..N : next[a] # Nil => next[a] \in L + 1..N
  BY <1>3 DEF ClosedAbove
<1> HIDE DEF s, N
<1>7. Len(s) \in Nat /\ DOMAIN s = 1..Len(s) /\ \A i \in 1..Len(s) : s[i] \in 1..N
  BY <1>5, LenProperties, ElementOfSeq
<1> DEFINE Bad == {i \in Nat : i \in 1..Len(s) /\ s[i] \notin L + 1..N}
<1>8. ASSUME Bad # {} PROVE FALSE
  <2>1. PICK i \in Bad : \A j \in Bad : i <= j
    <3>1. Bad \subseteq Nat
      OBVIOUS
    <3> HIDE DEF Bad
    <3> QED
      BY <1>8, <3>1, LeastNumber
  <2>2. i \in 1..Len(s) /\ s[i] \notin L + 1..N
    BY <2>1
  <2>3. i # 1
    BY <1>5, <2>2 DEF N
  <2>4. i - 1 \in 1..Len(s) - 1 /\ i - 1 \in Nat /\ i - 1 \in 1..Len(s) /\ (i - 1) + 1 = i
    BY <1>7, <2>2, <2>3
  <2>5. s[i - 1] \in L + 1..N
    <3>1. i - 1 \notin Bad
      BY <2>1, <2>4
    <3> QED
      BY <2>4, <3>1
  <2>6. next[s[i - 1]] = s[i]
    BY <1>5, <2>4 DEF Linked
  <2>7. s[i] # Nil
    BY <1>7, <2>2 DEF Nil
  <2> QED
    BY <1>6, <2>2, <2>5, <2>6, <2>7
<1> QED
  BY <1>7, <1>8 DEF s, N

\* The attributes after L are those that the first k parts have given to n.
Building(h, n, L, parts, k) ==
    /\ L \in Nat /\ Len(h.attr) \in Nat /\ L <= Len(h.attr)
    /\ h.node[n].first \in {Nil} \cup L + 1..Len(h.attr)
    /\ ClosedAbove(h, L)
    /\ \A a \in L + 1..Len(h.attr) : \E i \in 1..k : h.attr[a].key = parts[i].key

LEMMA KeyIsNew ==
    ASSUME NEW h, NEW nodes, NEW attrs, Sound(h, nodes, attrs), NEW n,
           NEW L, NEW parts, NEW k, Building(h, n, L, parts, k),
           NEW key, \A i \in 1..k : parts[i].key # key
    PROVE  ast_node_get_attr(h, n, key) = Nil
<1> DEFINE list == Attrs(h, n)
<1>1. \A i \in DOMAIN list : h.attr[list[i]].key # key
  <2>1. CASE h.node[n].first = Nil
    <3>1. list = <<>>
      <4>1. h.node[n].first \in 0..Len(h.attr)
        BY <2>1 DEF Building, Nil
      <4> QED
        BY <2>1, <4>1, ChainOfNil DEF Attrs
    <3> QED
      BY <3>1
  <2>2. CASE h.node[n].first # Nil
    <3>1. h.node[n].first \in L + 1..Len(h.attr) /\ L \in Nat /\ ClosedAbove(h, L)
      BY <2>2 DEF Building
    <3>2. \A i \in DOMAIN list : list[i] \in L + 1..Len(h.attr)
      BY <3>1, ListAbove DEF Attrs
    <3> HIDE DEF list
    <3> QED
      BY <3>2 DEF Building
  <2> QED
    BY <2>1, <2>2
<1>2. Matches(h, n, key) = {}
  BY <1>1 DEF Matches
<1> QED
  BY <1>2 DEF ast_node_get_attr

\* The node that a part takes from the parser.
TakenBy(part, args) == IF part.op = "sub" THEN {args[part.position].ref} \ {Nil} ELSE {}

\* What a part needs: its text, or a node other than n.
Ready(part, args, nodes, n) ==
    /\ part.key \in Key
    /\ part.op = "lit" => part.text \in Word
    /\ part.op = "str" => args[part.position].text \in Word
    /\ part.op = "sub" => args[part.position].ref \in (nodes \ {n}) \cup {Nil}

LEMMA TextAdds ==
    ASSUME NEW h, NEW nodes, NEW attrs, Whole(h, nodes, attrs), NEW n \in nodes,
           NEW key \in Key, NEW text \in Word, ast_node_get_attr(h, n, key) = Nil,
           NEW h2, h2 = ast_node_set_attr_str(h, n, key, text)
    PROVE  Whole(h2, nodes, attrs) /\ Grew(h, h2, n, key)
<1> DEFINE made == create_attr(h, key, "STRING", text, Nil)
           a == Len(h.attr) + 1
<1>1. h2 = ast_node_attach_attr(made, n, NewAttr(made))
  BY DEF ast_node_set_attr_str, ast_node_attr_create_str
<1>2. Whole(made, nodes \ {Nil}, attrs \cup {a}) /\ AttrMade(h, made, key)
  <2> HIDE DEF made
  <2>1. "STRING" \in AttrKind /\ "STRING" # "AST_NODE"
    BY DEF AttrKind
  <2> QED
    BY <2>1, AttrIsMade DEF made
<1>3. nodes \ {Nil} = nodes /\ a \notin attrs
  BY DEF Whole, Sound, NodeLists, AttrLists, Lists, Nil
<1> HIDE DEF made
<1>4. Whole(made, nodes, attrs \cup {Len(h.attr) + 1}) /\ Len(h.attr) + 1 \notin attrs
  BY <1>2, <1>3
<1> QED
  BY <1>1, <1>2, <1>4, MadeIsAttached

LEMMA NodeAdds ==
    ASSUME NEW h, NEW nodes, NEW attrs, Whole(h, nodes, attrs), NEW n \in nodes,
           NEW key \in Key, NEW sub \in nodes, sub # n, ast_node_get_attr(h, n, key) = Nil,
           NEW h2, h2 = ast_node_attr_node_append(h, n, key, sub)
    PROVE  Whole(h2, nodes \ {sub}, attrs) /\ Grew(h, h2, n, key)
<1> DEFINE made == create_attr(h, key, "AST_NODE", NoText, sub)
           a == Len(h.attr) + 1
<1>1. sub \in 1..Len(h.node) /\ sub # Nil /\ h.node[sub].next = Nil
  BY DEF Whole, Sound, NodeLists, Lists, Nil
<1>2. h2 = ast_node_attach_attr(made, n, NewAttr(made))
  BY <1>1 DEF ast_node_attr_node_append, ast_node_attr_create_node
<1>3. Whole(made, nodes \ {sub}, attrs \cup {a}) /\ AttrMade(h, made, key)
  <2> HIDE DEF made
  <2>1. "AST_NODE" \in AttrKind /\ NoText \in Word \cup {NoText, Shared}
    BY DEF AttrKind
  <2> QED
    BY <1>1, <2>1, AttrIsMade DEF made
<1>4. a \notin attrs
  BY DEF Whole, Sound, AttrLists, Lists
<1>5. n \in nodes \ {sub}
  OBVIOUS
<1> HIDE DEF made
<1>6. Whole(made, nodes \ {sub}, attrs \cup {Len(h.attr) + 1}) /\ Len(h.attr) + 1 \notin attrs
  BY <1>3, <1>4
<1> DEFINE others == nodes \ {sub}
<1> HIDE DEF others
<1> QED
  BY <1>2, <1>3, <1>5, <1>6, MadeIsAttached

LEMMA PartAdds ==
    ASSUME NEW h, NEW nodes, NEW attrs, Whole(h, nodes, attrs), NEW n \in nodes,
           NEW part, NEW args, part.op \in {"str", "sub", "lit"}, Ready(part, args, nodes, n),
           ast_node_get_attr(h, n, part.key) = Nil,
           NEW h2, h2 = AddPart(h, n, part, args)
    PROVE  /\ Whole(h2, nodes \ TakenBy(part, args), attrs)
           /\ h2 = h \/ Grew(h, h2, n, part.key)
<1>1. CASE part.op = "str"
  <2>1. h2 = ast_node_set_attr_str(h, n, part.key, args[part.position].text)
    BY <1>1 DEF AddPart
  <2>2. TakenBy(part, args) = {} /\ nodes \ {} = nodes
    BY <1>1 DEF TakenBy
  <2>3. part.key \in Key /\ args[part.position].text \in Word
    BY <1>1 DEF Ready
  <2> QED
    BY <2>1, <2>2, <2>3, TextAdds
<1>2. CASE part.op = "lit"
  <2>1. h2 = ast_node_set_attr_str(h, n, part.key, part.text)
    BY <1>2 DEF AddPart
  <2>2. TakenBy(part, args) = {} /\ nodes \ {} = nodes
    BY <1>2 DEF TakenBy
  <2>3. part.key \in Key /\ part.text \in Word
    BY <1>2 DEF Ready
  <2> QED
    BY <2>1, <2>2, <2>3, TextAdds
<1>3. CASE part.op = "sub"
  <2> DEFINE sub == args[part.position].ref
  <2>1. h2 = ast_node_attr_node_append(h, n, part.key, sub)
    BY <1>3 DEF AddPart
  <2>2. part.key \in Key /\ sub \in (nodes \ {n}) \cup {Nil} /\ TakenBy(part, args) = {sub} \ {Nil}
    BY <1>3 DEF Ready, TakenBy
  <2> HIDE DEF sub
  <2>3. CASE sub = Nil
    <3>1. h2 = h /\ nodes \ TakenBy(part, args) = nodes
      BY <2>1, <2>2, <2>3 DEF ast_node_attr_node_append
    <3> QED
      BY <3>1
  <2>4. CASE sub # Nil
    <3>1. sub \in nodes /\ sub # n /\ TakenBy(part, args) = {sub}
      BY <2>2, <2>4
    <3> QED
      BY <2>1, <2>2, <3>1, NodeAdds
  <2> QED
    BY <2>3, <2>4
<1> QED
  BY <1>1, <1>2, <1>3

LEMMA BuildingGrows ==
    ASSUME NEW h, NEW n, NEW L, NEW parts, NEW k \in Nat, Building(h, n, L, parts, k),
           NEW h2, h2 = h \/ Grew(h, h2, n, parts[k + 1].key)
    PROVE  Building(h2, n, L, parts, k + 1)
<1>1. \A i \in 1..k : i \in 1..k + 1
  OBVIOUS
<1>2. CASE h2 = h
  BY <1>1, <1>2 DEF Building
<1>3. CASE Grew(h, h2, n, parts[k + 1].key)
  <2> DEFINE N == Len(h.attr)
  <2>1. /\ L \in Nat /\ N \in Nat /\ L <= N /\ Len(h2.attr) = N + 1
        /\ h.node[n].first \in {Nil} \cup L + 1..N
        /\ h2.node[n].first \in {h.node[n].first, N + 1}
        /\ h2.attr[N + 1].key = parts[k + 1].key /\ h2.attr[N + 1].next = Nil
        /\ \A a \in 1..N : /\ h2.attr[a].key = h.attr[a].key
                           /\ h2.attr[a].next \in {h.attr[a].next, N + 1}
        /\ \A a \in L + 1..N : /\ h.attr[a].next \in {Nil} \cup L + 1..N
                               /\ \E i \in 1..k : h.attr[a].key = parts[i].key
    BY <1>3 DEF Building, Grew, ClosedAbove
  <2> HIDE DEF N
  <2>2. N + 1 \in L + 1..N + 1 /\ \A b \in L + 1..N : b \in L + 1..N + 1 /\ b \in 1..N
    <3> SUFFICES ASSUME L \in Nat, N \in Nat, L <= N
                 PROVE  N + 1 \in L + 1..N + 1 /\ \A b \in L + 1..N : b \in L + 1..N + 1 /\ b \in 1..N
      BY <2>1
    <3> QED
      OBVIOUS
  <2>3. h2.node[n].first \in {Nil} \cup L + 1..N + 1
    BY <2>1, <2>2, Zenon
  <2>4. h2.attr[N + 1].next \in {Nil} \cup L + 1..N + 1
    BY <2>1, Zenon
  <2>5. \E i \in 1..k + 1 : h2.attr[N + 1].key = parts[i].key
    <3>1. k + 1 \in 1..k + 1
      OBVIOUS
    <3> QED
      BY <2>1, <3>1, Zenon
  <2>6. ASSUME NEW a \in L + 1..N + 1, a # N + 1
        PROVE  /\ h2.attr[a].next \in {Nil} \cup L + 1..N + 1
               /\ \E i \in 1..k + 1 : h2.attr[a].key = parts[i].key
    <3>1. a \in L + 1..N
      <4> SUFFICES ASSUME L \in Nat, N \in Nat
                   PROVE  a \in L + 1..N
        BY <2>1
      <4> QED
        BY <2>6
    <3>2. a \in 1..N
      BY <2>2, <3>1, Zenon
    <3>3. h2.attr[a].next \in {h.attr[a].next, N + 1} /\ h.attr[a].next \in {Nil} \cup L + 1..N
      BY <2>1, <3>1, <3>2, Zenon
    <3>4. \E i \in 1..k : h2.attr[a].key = parts[i].key
      <4>1. h2.attr[a].key = h.attr[a].key
        BY <2>1, <3>2, Zenon
      <4>2. \E i \in 1..k : h.attr[a].key = parts[i].key
        BY <2>1, <3>1, Zenon
      <4> QED
        BY <4>1, <4>2, Zenon
    <3>5. h2.attr[a].next \in {Nil} \cup L + 1..N + 1
      BY <2>2, <3>3, Zenon
    <3> QED
      BY <1>1, <3>4, <3>5, Zenon
  <2>7. \A a \in L + 1..N + 1 : /\ h2.attr[a].next \in {Nil} \cup L + 1..N + 1
                                 /\ \E i \in 1..k + 1 : h2.attr[a].key = parts[i].key
    BY <2>4, <2>5, <2>6, Zenon
  <2>8. Len(h2.attr) \in Nat /\ L <= Len(h2.attr)
    BY <2>1
  <2> QED
    BY <2>1, <2>3, <2>7, <2>8 DEF Building, ClosedAbove
<1> QED
  BY <1>2, <1>3

Taken(parts, args, k) == UNION {TakenBy(parts[i], args) : i \in 1..k}

LEMMA TakenGrows ==
    ASSUME NEW parts, NEW args, NEW k \in Nat
    PROVE  /\ Taken(parts, args, 0) = {}
           /\ Taken(parts, args, k + 1) = Taken(parts, args, k) \cup TakenBy(parts[k + 1], args)
<1>1. 1..0 = {} /\ 1..k + 1 = 1..k \cup {k + 1}
  OBVIOUS
<1> QED
  BY <1>1, Zenon DEF Taken

\* No two parts take the same node.
Distinct(parts, args) ==
    \A i, j \in DOMAIN parts :
        i # j => TakenBy(parts[i], args) \cap TakenBy(parts[j], args) = {}

AllReady(parts, args, nodes, n) == \A i \in DOMAIN parts : Ready(parts[i], args, nodes, n)

\* The parts of a production go one after the other to a new node, which then holds
\* the nodes that they took; no call fails.
LEMMA PartsAdd ==
    ASSUME NEW h, NEW nodes, NEW attrs, Whole(h, nodes, attrs),
           NEW n \in nodes, h.node[n].first = Nil,
           NEW p, PartsOK(p), NEW args, Distinct(p.parts, args),
           AllReady(p.parts, args, nodes, n),
           NEW h2, h2 = AddParts(h, n, p.parts, args)
    PROVE  /\ Whole(h2, nodes \ Taken(p.parts, args, Len(p.parts)), attrs)
           /\ Len(h2.node) = Len(h.node)
<1> DEFINE parts == p.parts
           m == Len(parts)
           L == Len(h.attr)
<1>1. m \in Nat /\ DOMAIN parts = 1..m
  BY DEF PartsOK
<1>2. PICK after : PartsInOrder(h, n, parts, args, after) /\ h2 = after[m]
  <2> HIDE DEF parts
  <2>1. h2 = AddParts(h, n, parts, args)
    BY DEF parts
  <2> QED
    BY <1>1, <2>1, PartsUnfold
<1> DEFINE Good(k) == /\ Whole(after[k], nodes \ Taken(parts, args, k), attrs)
                      /\ Building(after[k], n, L, parts, k)
                      /\ Len(after[k].node) = Len(h.node)
<1>3. /\ \A i \in 1..m : Placed(parts[i], p.arity) /\ Ready(parts[i], args, nodes, n)
      /\ \A i, j \in 1..m : i # j =>
            parts[i].key # parts[j].key /\ TakenBy(parts[i], args) \cap TakenBy(parts[j], args) = {}
  BY <1>1 DEF PartsOK, Unlike, Distinct, AllReady
<1> HIDE DEF parts
<1>4. Good(0)
  <2>1. after[0] = h
    BY <1>2 DEF PartsInOrder
  <2>2. nodes \ Taken(parts, args, 0) = nodes
    <3>1. Taken(parts, args, 0) = {}
      BY TakenGrows
    <3> QED
      BY <3>1
  <2>3. L \in Nat
    BY DEF Whole, Sound, AttrLists, Lists
  <2>4. Building(h, n, L, parts, 0)
    BY <2>3 DEF Building, ClosedAbove
  <2> QED
    BY <2>1, <2>2, <2>4
<1>5. ASSUME NEW k \in Nat, k < m, Good(k) PROVE Good(k + 1)
  <2> DEFINE j == k + 1
             left == nodes \ Taken(parts, args, k)
             part == parts[j]
  <2>1. j \in 1..m /\ j - 1 = k
    BY <1>1, <1>5
  <2>2. /\ part.op \in {"str", "sub", "lit"} /\ Ready(part, args, nodes, n)
        /\ \A i \in 1..k : parts[i].key # part.key
        /\ \A i \in 1..k : TakenBy(parts[i], args) \cap TakenBy(part, args) = {}
    <3>1. \A i \in 1..k : i \in 1..m /\ i # j
      BY <1>1, <1>5
    <3> QED
      BY <1>3, <2>1, <3>1 DEF Placed
  <2>3. n \in left /\ Ready(part, args, left, n)
    <3>1. \A i \in 1..k : Ready(parts[i], args, nodes, n)
      BY <1>1, <1>3, <1>5
    <3>2. n \notin Taken(parts, args, k)
      BY <3>1 DEF Taken, TakenBy, Ready
    <3>3. part.op = "sub" /\ args[part.position].ref # Nil
             => args[part.position].ref \notin Taken(parts, args, k)
      <4> HIDE DEF part
      <4>1. SUFFICES ASSUME part.op = "sub", args[part.position].ref # Nil
                     PROVE  args[part.position].ref \notin Taken(parts, args, k)
        OBVIOUS
      <4>2. args[part.position].ref \in TakenBy(part, args)
        BY <4>1 DEF TakenBy
      <4> QED
        BY <2>2, <4>2 DEF Taken
    <3> HIDE DEF part
    <3> QED
      BY <2>2, <3>2, <3>3 DEF Ready
  <2>4. after[j] = AddPart(after[k], n, part, args)
    <3>1. after[j] = NextPart(after[j - 1], n, parts[j], args)
      BY <1>2, <2>1 DEF PartsInOrder
    <3>2. Running(after[k])
      BY <1>5 DEF Whole
    <3> QED
      BY <2>1, <3>1, <3>2 DEF NextPart
  <2>5. ast_node_get_attr(after[k], n, part.key) = Nil
    <3> DEFINE g == after[k]
    <3>1. Sound(g, left, attrs) /\ Building(g, n, L, parts, k)
      BY <1>5 DEF Whole
    <3> HIDE DEF g, left, part, L
    <3>2. ast_node_get_attr(g, n, part.key) = Nil
      BY <2>2, <3>1, KeyIsNew
    <3> QED
      BY <3>2 DEF g
  <2>6. /\ Whole(after[j], left \ TakenBy(part, args), attrs)
        /\ after[j] = after[k] \/ Grew(after[k], after[j], n, part.key)
    <3> DEFINE g == after[k]
               g2 == after[j]
    <3>1. Whole(g, left, attrs) /\ ast_node_get_attr(g, n, part.key) = Nil
          /\ g2 = AddPart(g, n, part, args)
      BY <1>5, <2>4, <2>5
    <3> HIDE DEF g, g2, left, part
    <3>2. Whole(g2, left \ TakenBy(part, args), attrs) /\ (g2 = g \/ Grew(g, g2, n, part.key))
      BY <2>2, <2>3, <3>1, PartAdds
    <3> QED
      BY <3>2 DEF g, g2
  <2>7. left \ TakenBy(part, args) = nodes \ Taken(parts, args, j)
    BY TakenGrows
  <2>8. Building(after[j], n, L, parts, j)
    <3> DEFINE g == after[k]
               g2 == after[j]
    <3>1. Building(g, n, L, parts, k) /\ (g2 = g \/ Grew(g, g2, n, parts[k + 1].key))
      BY <1>5, <2>6
    <3> HIDE DEF g, g2, L
    <3>2. Building(g2, n, L, parts, k + 1)
      BY <3>1, BuildingGrows
    <3> QED
      BY <3>2 DEF g2
  <2>9. Len(after[j].node) = Len(h.node)
    BY <1>5, <2>6 DEF Grew
  <2> HIDE DEF left, part
  <2> QED
    BY <2>6, <2>7, <2>8, <2>9
<1> DEFINE Bad == {k \in Nat : k <= m /\ ~Good(k)}
<1>6. ASSUME Bad # {} PROVE FALSE
  <2>1. PICK k \in Bad : \A i \in Bad : k <= i
    <3>1. Bad \subseteq Nat
      OBVIOUS
    <3> HIDE DEF Bad
    <3> QED
      BY <1>6, <3>1, LeastNumber
  <2>2. k \in Nat /\ k <= m /\ ~Good(k)
    BY <2>1
  <2> HIDE DEF Good, m
  <2>3. k # 0
    BY <1>4, <2>2
  <2>4. k - 1 \in Nat /\ k - 1 < m /\ k - 1 <= m /\ (k - 1) + 1 = k
    BY <1>1, <2>2, <2>3
  <2>5. Good(k - 1)
    <3>1. k - 1 \notin Bad
      BY <2>1, <2>4
    <3> QED
      BY <2>4, <3>1
  <2>6. Good((k - 1) + 1)
    BY <1>5, <2>4, <2>5
  <2> QED
    BY <2>2, <2>4, <2>6
<1>7. Good(m)
  <2> HIDE DEF Good, m
  <2> QED
    BY <1>1, <1>6
<1> QED
  BY <1>2, <1>7 DEF parts

LEMMA WholeNodeChange ==
    ASSUME NEW h, NEW nodes, NEW attrs, Whole(h, nodes, attrs),
           NEW n, NEW rec, rec.next = Nil, NEW h2, NodeChange(h, n, rec, h2),
           NEW nodes2, NEW attrs2, Sound(h2, nodes2, attrs2)
    PROVE  /\ Whole(h2, nodes2, attrs2)
           /\ Len(h2.node) = Len(h.node) /\ Len(h2.attr) = Len(h.attr)
<1>1. h2.attr = h.attr /\ h2.status = h.status /\ SameBut(h.node, h2.node, n) /\ h2.node[n] = rec
  BY DEF NodeChange
<1> QED
  BY <1>1 DEF Whole, SameBut, Running

LEMMA WholeAttrChange ==
    ASSUME NEW h, NEW nodes, NEW attrs, Whole(h, nodes, attrs),
           NEW a, NEW rec, rec.live, NEW h2, AttrChange(h, a, rec, h2),
           NEW nodes2, NEW attrs2, Sound(h2, nodes2, attrs2)
    PROVE  /\ Whole(h2, nodes2, attrs2)
           /\ Len(h2.node) = Len(h.node) /\ Len(h2.attr) = Len(h.attr)
<1>1. h2.node = h.node /\ h2.status = h.status /\ SameBut(h.attr, h2.attr, a) /\ h2.attr[a] = rec
  BY DEF AttrChange
<1> QED
  BY <1>1 DEF Whole, SameBut, Running

\* made is h with an empty node more.
NodeMade(h, made) ==
    /\ Len(h.node) \in Nat /\ Len(made.node) = Len(h.node) + 1 /\ made.attr = h.attr
    /\ made.node[Len(h.node) + 1].first = Nil

LEMMA NodeIsMade ==
    ASSUME NEW h, NEW nodes, NEW attrs, Whole(h, nodes, attrs), NEW type \in Type,
           NEW made, made = ast_node_create(h, type)
    PROVE  /\ Whole(made, nodes \cup {Len(h.node) + 1}, attrs)
           /\ NodeMade(h, made) /\ nodes \subseteq 1..Len(h.node)
<1> DEFINE rec == [type |-> type, first |-> Nil, next |-> Nil, live |-> TRUE]
<1>1. made = [h EXCEPT !.node = Append(@, rec)]
  BY DEF ast_node_create
<1>2. rec \in NodeRecord /\ rec.live /\ rec.next = Nil /\ rec.first = Nil
  BY DEF NodeRecord, Nil
<1>3. h.node \in Seq(NodeRecord) /\ made.node = Append(h.node, rec)
  BY <1>1 DEF Whole, Sound, Typed
<1> HIDE DEF rec
<1>4. OneMore(h.node, made.node) /\ made.node[Len(h.node) + 1] = rec
  BY <1>2, <1>3, OneAdded
<1>5. /\ Sound(made, nodes \cup {Len(h.node) + 1}, attrs) /\ made.status = h.status
      /\ Len(made.node) = Len(h.node) + 1 /\ made.attr = h.attr
  BY <1>1, <1>2, NodeAdded DEF Whole
<1>6. ASSUME NEW m \in 1..Len(made.node) PROVE made.node[m].next = Nil
  <2>1. Len(h.node) \in Nat /\ (m \in 1..Len(h.node) \/ m = Len(h.node) + 1)
    BY <1>4 DEF OneMore
  <2>2. CASE m \in 1..Len(h.node)
    <3>1. made.node[m] = h.node[m]
      BY <1>4, <2>2 DEF OneMore
    <3> QED
      BY <2>2, <3>1 DEF Whole
  <2>3. CASE m = Len(h.node) + 1
    BY <1>2, <1>4, <2>3
  <2> QED
    BY <2>1, <2>2, <2>3
<1>7. Whole(made, nodes \cup {Len(h.node) + 1}, attrs)
  BY <1>5, <1>6 DEF Whole, Running
<1>8. NodeMade(h, made)
  BY <1>2, <1>4, <1>5 DEF NodeMade, OneMore
<1>9. nodes \subseteq 1..Len(h.node)
  BY DEF Whole, Sound, NodeLists, Lists
<1> QED
  BY <1>7, <1>8, <1>9

\* A value that becomes an element: a text or a node that the parser holds.
Fits(v, nodes) ==
    \/ v.kind = "text" /\ v.text \in Word /\ v.ref = Nil
    \/ v.kind = "node" /\ v.ref \in nodes

LEMMA ElementIsMade ==
    ASSUME NEW h, NEW nodes, NEW attrs, Whole(h, nodes, attrs),
           NEW key \in Key, NEW v, Fits(v, nodes), NEW made, made = Element(h, key, v)
    PROVE  /\ Whole(made, nodes \ {v.ref}, attrs \cup {Len(h.attr) + 1})
           /\ AttrMade(h, made, key)
<1>1. CASE v.kind = "text"
  <2>1. v.text \in Word /\ v.ref = Nil
    BY <1>1 DEF Fits
  <2>2. made = create_attr(h, key, "STRING", v.text, Nil)
    BY <1>1 DEF Element, ast_node_attr_create_str
  <2>3. "STRING" \in AttrKind /\ "STRING" # "AST_NODE"
    BY DEF AttrKind
  <2>4. Whole(made, nodes \ {Nil}, attrs \cup {Len(h.attr) + 1}) /\ AttrMade(h, made, key)
    BY <2>1, <2>2, <2>3, AttrIsMade
  <2> QED
    BY <2>1, <2>4
<1>2. CASE v.kind # "text"
  <2> DEFINE sub == v.ref
  <2>1. sub \in nodes
    BY <1>2 DEF Fits
  <2>2. sub # Nil
    BY <2>1 DEF Whole, Sound, NodeLists, Lists, Nil
  <2>3. made = create_attr(h, key, "AST_NODE", NoText, sub)
    BY <1>2, <2>2 DEF Element, ast_node_attr_create_node
  <2>4. "AST_NODE" \in AttrKind /\ NoText \in Word \cup {NoText, Shared}
    BY DEF AttrKind
  <2> HIDE DEF sub
  <2>5. Whole(made, nodes \ {sub}, attrs \cup {Len(h.attr) + 1}) /\ AttrMade(h, made, key)
    BY <2>1, <2>2, <2>3, <2>4, AttrIsMade
  <2> QED
    BY <2>5 DEF sub
<1> QED
  BY <1>1, <1>2

\* a is the only element of its list, v the rest of one that the parser holds.
Ahead(h, attrs, a, v) ==
    /\ a \in Live(h.attr) /\ Unlinked(Nexts(h.attr), Len(h.attr), a) /\ h.attr[a].next = Nil
    /\ v.ref \in attrs \cup {Nil} /\ a # v.ref

LEMMA FollowLinks ==
    ASSUME NEW h, NEW nodes, NEW attrs, Whole(h, nodes, attrs),
           NEW a, NEW v, Ahead(h, attrs, a, v), NEW h2, h2 = Follow(h, a, v)
    PROVE  Whole(h2, nodes, attrs \ {v.ref}) /\ Len(h2.node) = Len(h.node)
<1> USE DEF Ahead
<1> DEFINE rest == v.ref
<1>1. h2 = ast_node_attr_append(h, a, rest)
  BY DEF Whole, Follow
<1>2. Sound(h, nodes, attrs)
  BY DEF Whole
<1> HIDE DEF rest
<1>3. CASE rest = Nil
  <2>1. h2 = h
    BY <1>1, <1>2, <1>3, AppendNothing
  <2>2. attrs \ {rest} = attrs
    BY <1>2, <1>3 DEF Sound, AttrLists, Lists, Nil
  <2> QED
    BY <2>1, <2>2 DEF rest
<1>4. CASE rest # Nil
  <2>1. Free(h, attrs, a, rest)
    BY <1>4 DEF Free, rest
  <2> DEFINE rec == [h.attr[a] EXCEPT !.next = rest]
  <2>2. Sound(h2, nodes, attrs \ {rest}) /\ AttrChange(h, a, rec, h2)
    <3>1. Sound(h2, nodes, attrs \ {rest}) /\ Followed(h, h2, a, rest)
      BY <1>1, <1>2, <2>1, AppendLinks
    <3> QED
      BY <3>1 DEF Followed
  <2>3. rec.live
    <3>1. h.attr[a] \in AttrRecord /\ h.attr[a].live
      BY <1>2, AttrFacts
    <3> QED
      BY <3>1 DEF AttrRecord
  <2> HIDE DEF rec
  <2>4. Whole(h2, nodes, attrs \ {rest}) /\ Len(h2.node) = Len(h.node)
    BY <2>2, <2>3, WholeAttrChange
  <2> QED
    BY <2>4 DEF rest
<1> QED
  BY <1>3, <1>4

\* x_list_: one attribute in front of the rest.
LEMMA RestIsMade ==
    ASSUME NEW h, NEW nodes, NEW attrs, Whole(h, nodes, attrs),
           NEW p, p.key \in Key, NEW args, Fits(args[1], nodes), args[2].ref \in attrs \cup {Nil},
           NEW h2, h2 = MakeRest(h, p, args)
    PROVE  /\ Whole(h2, nodes \ {args[1].ref}, (attrs \cup {Len(h.attr) + 1}) \ {args[2].ref})
           /\ Len(h2.node) = Len(h.node)
           /\ attrs \subseteq 1..Len(h.attr) /\ Len(h.attr) \in Nat
<1> DEFINE elem == Element(h, p.key, args[1])
           a    == Len(h.attr) + 1
           left == nodes \ {args[1].ref}
           more == attrs \cup {a}
<1>1. Whole(elem, left, more) /\ AttrMade(h, elem, p.key)
  <2> DEFINE v == args[1]
  <2> HIDE DEF v, elem
  <2>1. Fits(v, nodes) /\ elem = Element(h, p.key, v)
    BY DEF v, elem
  <2>2. Whole(elem, nodes \ {v.ref}, attrs \cup {Len(h.attr) + 1}) /\ AttrMade(h, elem, p.key)
    BY <2>1, ElementIsMade
  <2> QED
    BY <2>2 DEF v
<1>2. h2 = Follow(elem, a, args[2])
  BY <1>1 DEF MakeRest, NewAttr, AttrMade
<1>3. attrs \subseteq 1..Len(h.attr) /\ Len(h.attr) \in Nat
  BY DEF Whole, Sound, AttrLists, Lists
<1>4. a # args[2].ref /\ args[2].ref \in more \cup {Nil} /\ a \in more
  BY <1>3 DEF Nil
<1>5. elem.attr[a].next = Nil /\ elem.node = h.node
  BY <1>1 DEF AttrMade
<1> HIDE DEF elem, a, more, left
<1>6. a \in Live(elem.attr) /\ Unlinked(Nexts(elem.attr), Len(elem.attr), a)
  BY <1>1, <1>4, LooseApart DEF Whole
<1> DEFINE v == args[2]
<1>7. Whole(elem, left, more) /\ h2 = Follow(elem, a, v) /\ Ahead(elem, more, a, v)
  BY <1>1, <1>2, <1>4, <1>5, <1>6 DEF Ahead
<1> HIDE DEF v
<1>8. Whole(h2, left, more \ {v.ref}) /\ Len(h2.node) = Len(elem.node)
  <2> DEFINE g == elem
             all == more
             new == Follow(g, a, v)
  <2>1. Whole(g, left, all) /\ h2 = new /\ Ahead(g, all, a, v)
    BY <1>7
  <2>2. new = Follow(g, a, v)
    OBVIOUS
  <2> HIDE DEF g, all, new
  <2>3. Whole(new, left, all \ {v.ref}) /\ Len(new.node) = Len(g.node)
    BY <2>1, <2>2, FollowLinks
  <2> QED
    BY <2>1, <2>3 DEF g, all
<1> QED
  BY <1>3, <1>5, <1>8 DEF v, left, more, a

\* x_list: a node with the element and what follows it.
LEMMA ListIsMade ==
    ASSUME NEW h, NEW nodes, NEW attrs, Whole(h, nodes, attrs),
           NEW p, p.key \in Key, p.type \in Type,
           NEW args, Fits(args[1], nodes), args[2].ref \in attrs \cup {Nil},
           NEW h2, h2 = MakeList(h, p, args)
    PROVE  /\ Whole(h2, (nodes \ {args[1].ref}) \cup {Len(h.node) + 1}, attrs \ {args[2].ref})
           /\ Len(h2.node) = Len(h.node) + 1
           /\ nodes \subseteq 1..Len(h.node) /\ Len(h.node) \in Nat
<1> DEFINE n    == Len(h.node) + 1
           a    == Len(h.attr) + 1
           node == ast_node_create(h, p.type)
           elem == Element(node, p.key, args[1])
           g    == set_first_attr(elem, n, a)
           left == (nodes \ {args[1].ref}) \cup {n}
           more == attrs \cup {a}
<1>1. Whole(node, nodes \cup {n}, attrs) /\ NodeMade(h, node) /\ nodes \subseteq 1..Len(h.node)
  <2> HIDE DEF node
  <2>1. node = ast_node_create(h, p.type)
    BY DEF node
  <2>2. Whole(node, nodes \cup {Len(h.node) + 1}, attrs) /\ NodeMade(h, node)
        /\ nodes \subseteq 1..Len(h.node)
    BY <2>1, NodeIsMade
  <2> QED
    BY <2>2
<1>2. /\ Len(node.node) = n /\ node.attr = h.attr /\ node.node[n].first = Nil
      /\ Len(h.node) \in Nat
  BY <1>1 DEF NodeMade
<1>3. args[1].ref # n /\ (nodes \cup {n}) \ {args[1].ref} = left
  <2>1. args[1].ref \in nodes \cup {Nil}
    BY DEF Fits
  <2>2. args[1].ref # n
    BY <1>1, <1>2, <2>1 DEF Nil
  <2> QED
    BY <2>2
<1> HIDE DEF node
<1>4. Whole(elem, left, more) /\ AttrMade(node, elem, p.key)
  <2> DEFINE v == args[1]
             all == nodes \cup {n}
  <2>1. Whole(node, all, attrs) /\ Fits(v, all) /\ elem = Element(node, p.key, v)
    BY <1>1 DEF Fits
  <2>2. left = all \ {v.ref} /\ more = attrs \cup {Len(node.attr) + 1}
    BY <1>2, <1>3
  <2> HIDE DEF v, elem, all, left, more
  <2>3. Whole(elem, all \ {v.ref}, attrs \cup {Len(node.attr) + 1}) /\ AttrMade(node, elem, p.key)
    BY <2>1, ElementIsMade
  <2> QED
    BY <2>2, <2>3
<1>5. elem.node = node.node /\ elem.attr[a].next = Nil /\ Len(elem.attr) = a
  BY <1>2, <1>4 DEF AttrMade
<1>6. h2 = Follow(g, a, args[2])
  <2>1. Running(elem) /\ NewNode(node) = n /\ NewAttr(elem) = a
    BY <1>2, <1>4, <1>5 DEF Whole, NewNode, NewAttr
  <2>2. h2 = IF Running(elem)
             THEN Follow(set_first_attr(elem, NewNode(node), NewAttr(elem)), NewAttr(elem), args[2])
             ELSE elem
    BY DEF MakeList, node
  <2> HIDE DEF elem, n, a
  <2> QED
    BY <2>1, <2>2
<1>7. attrs \subseteq 1..Len(h.attr) /\ Len(h.attr) \in Nat
  BY DEF Whole, Sound, AttrLists, Lists
<1>8. a # args[2].ref /\ a # Nil /\ a \in more /\ more \ {a} = attrs /\ n \in left
  BY <1>7 DEF Nil
<1> HIDE DEF elem, left, more
<1> DEFINE rec == [elem.node[n] EXCEPT !.first = a]
<1>9. Sound(g, left, attrs) /\ NodeChange(elem, n, rec, g)
  <2> DEFINE put == PutNode(elem, n, rec)
  <2>1. g = put
    BY DEF set_first_attr, PutNode
  <2>2. Sound(elem, left, more) /\ elem.node[n].first = Nil
    BY <1>2, <1>4, <1>5 DEF Whole
  <2> HIDE DEF n, a
  <2>3. Sound(put, left, more \ {a}) /\ NodeChange(elem, n, rec, put)
    BY <1>8, <2>2, FirstTaken
  <2> HIDE DEF put, g
  <2> QED
    BY <1>8, <2>1, <2>3
<1>10. elem.node[n] \in NodeRecord /\ elem.node[n].next = Nil
  BY <1>4, <1>8, NodeFacts DEF Whole
<1>11. rec.next = Nil /\ rec.first = a
  BY <1>10 DEF NodeRecord
<1> HIDE DEF g, rec, n, a
<1>12. Whole(g, left, attrs) /\ Len(g.node) = Len(elem.node)
  BY <1>4, <1>9, <1>11, WholeNodeChange
<1>13. g.node[n].first = a /\ g.attr = elem.attr
  BY <1>9, <1>11 DEF NodeChange
<1>14. a \in Live(g.attr) /\ Unlinked(Nexts(g.attr), Len(g.attr), a)
  BY <1>8, <1>9, <1>13, FirstApart
<1> DEFINE v == args[2]
<1>15. h2 = Follow(g, a, v) /\ Ahead(g, attrs, a, v)
  BY <1>5, <1>6, <1>8, <1>13, <1>14 DEF Ahead
<1> HIDE DEF v
<1>16. Whole(h2, left, attrs \ {v.ref}) /\ Len(h2.node) = Len(g.node)
  BY <1>12, <1>15, FollowLinks
<1> QED
  BY <1>1, <1>2, <1>5, <1>12, <1>16 DEF v, left, n

\* A production for a node: the node has taken its parts.
LEMMA PartsAreJoined ==
    ASSUME NEW h, NEW nodes, NEW attrs, Whole(h, nodes, attrs),
           NEW p, p.type \in Type, PartsOK(p), NEW args, Distinct(p.parts, args),
           AllReady(p.parts, args, nodes, Nil),
           NEW h2, h2 = MakeNode(h, p, args)
    PROVE  /\ Whole(h2, (nodes \ Taken(p.parts, args, Len(p.parts))) \cup {Len(h.node) + 1}, attrs)
           /\ Len(h2.node) = Len(h.node) + 1
           /\ nodes \subseteq 1..Len(h.node) /\ Len(h.node) \in Nat
<1> DEFINE n    == Len(h.node) + 1
           node == ast_node_create(h, p.type)
           all  == nodes \cup {n}
           gone == Taken(p.parts, args, Len(p.parts))
<1>1. Whole(node, all, attrs) /\ NodeMade(h, node) /\ nodes \subseteq 1..Len(h.node)
  <2> HIDE DEF node
  <2>1. node = ast_node_create(h, p.type)
    BY DEF node
  <2>2. Whole(node, nodes \cup {Len(h.node) + 1}, attrs) /\ NodeMade(h, node)
        /\ nodes \subseteq 1..Len(h.node)
    BY <2>1, NodeIsMade
  <2> QED
    BY <2>2
<1>2. /\ Len(node.node) = n /\ node.node[n].first = Nil /\ Len(h.node) \in Nat
      /\ n \notin nodes /\ n # Nil
  BY <1>1 DEF NodeMade, Nil
<1>3. h2 = AddParts(node, n, p.parts, args)
  BY <1>2 DEF MakeNode, NewNode
<1>4. AllReady(p.parts, args, all, n)
  BY <1>2 DEF AllReady, Ready
<1>5. n \notin gone
  <2>1. \A i \in DOMAIN p.parts : n \notin TakenBy(p.parts[i], args)
    BY <1>2 DEF AllReady, Ready, TakenBy
  <2> QED
    BY <2>1 DEF Taken, PartsOK
<1> HIDE DEF node, all
<1>6. n \in all
  BY DEF all
<1> HIDE DEF n
<1>7. Whole(h2, all \ Taken(p.parts, args, Len(p.parts)), attrs) /\ Len(h2.node) = Len(node.node)
  <2> DEFINE new == AddParts(node, n, p.parts, args)
  <2>1. new = AddParts(node, n, p.parts, args) /\ Whole(node, all, attrs) /\ node.node[n].first = Nil
    BY <1>1, <1>2
  <2> HIDE DEF new
  <2>2. Whole(new, all \ Taken(p.parts, args, Len(p.parts)), attrs) /\ Len(new.node) = Len(node.node)
    BY <1>4, <1>6, <2>1, PartsAdd
  <2> QED
    BY <1>3, <2>2 DEF new
<1>8. all \ gone = (nodes \ gone) \cup {n}
  BY <1>5 DEF all
<1> HIDE DEF gone
<1>9. Whole(h2, (nodes \ gone) \cup {n}, attrs) /\ Len(h2.node) = n
  BY <1>2, <1>7, <1>8 DEF gone
<1> QED
  BY <1>1, <1>2, <1>9 DEF gone, n

\* ast_node_extend moves the attributes of m and frees m.
LEMMA BodyIsJoined ==
    ASSUME NEW h, NEW nodes, NEW attrs, Whole(h, nodes, attrs),
           NEW n \in nodes, NEW m \in nodes, m # n, NEW h2, h2 = ast_node_extend(h, n, m)
    PROVE  Whole(h2, nodes \ {m}, attrs) /\ Len(h2.node) = Len(h.node)
<1> DEFINE f == h.node[m].first
<1>1. Sound(h, nodes, attrs)
  BY DEF Whole
<1>2. PICK h1 : Moved(h, n, m, h1, nodes, attrs) /\ h2 = ast_node_destroy(h1, m)
  BY <1>1, ExtendMoves
<1>3. Whole(h1, nodes, attrs) /\ Len(h1.node) = Len(h.node) /\ h1.node[m].first = Nil
  <2>1. CASE f = Nil
    BY <1>2, <2>1 DEF Moved
  <2>2. CASE f # Nil
    <3> DEFINE more == attrs \cup {f}
               rec  == [h.node[m] EXCEPT !.first = Nil]
    <3>1. PICK g : Sound(g, nodes, more) /\ Emptied(h, m, g) /\ h1 = Joined(g, n, f)
      BY <1>2, <2>2 DEF Moved
    <3>2. f \in more /\ more \ {f} = attrs
      BY <1>1, <2>2, FirstApart
    <3>3. h.node[m] \in NodeRecord /\ h.node[m].next = Nil
      BY <1>1, NodeFacts DEF Whole
    <3>4. rec.next = Nil /\ rec.first = Nil
      BY <3>3 DEF NodeRecord
    <3>5. NodeChange(h, m, rec, g)
      BY <3>1 DEF Emptied
    <3> HIDE DEF f, more, rec
    <3>6. Whole(g, nodes, more) /\ Len(g.node) = Len(h.node)
      BY <3>1, <3>4, <3>5, WholeNodeChange
    <3>7. g.node[m].first = Nil
      BY <3>4, <3>5 DEF NodeChange
    <3>8. CASE g.node[n].first = Nil
      <4> DEFINE r == [g.node[n] EXCEPT !.first = f]
      <4>1. Sound(h1, nodes, attrs) /\ NodeChange(g, n, r, h1)
        <5> DEFINE j == Joined(g, n, f)
        <5>1. Sound(j, nodes, more \ {f}) /\ NodeChange(g, n, r, j)
          BY <3>1, <3>2, <3>8, JoinedFirst
        <5> HIDE DEF j, r
        <5>2. j = h1
          BY <3>1 DEF j
        <5> QED
          BY <3>2, <5>1, <5>2
      <4>2. g.node[n] \in NodeRecord /\ g.node[n].next = Nil
        BY <3>6, NodeFacts DEF Whole
      <4>3. r.next = Nil
        BY <4>2 DEF NodeRecord
      <4> HIDE DEF r
      <4>4. Whole(h1, nodes, attrs) /\ Len(h1.node) = Len(g.node)
        BY <3>6, <4>1, <4>3, WholeNodeChange
      <4>5. h1.node[m] = g.node[m]
        <5>1. m \in 1..Len(g.node)
          BY <3>1, NodeFacts
        <5> QED
          BY <4>1, <5>1 DEF NodeChange, SameBut
      <4> QED
        BY <3>6, <3>7, <4>4, <4>5
    <3>9. CASE g.node[n].first # Nil
      <4> DEFINE e == TailOf(g.attr, g.node[n].first)
                 r == [g.attr[e] EXCEPT !.next = f]
      <4>1. Sound(h1, nodes, attrs) /\ AttrChange(g, e, r, h1) /\ e \in Live(g.attr)
        <5> DEFINE j == Joined(g, n, f)
        <5>1. Sound(j, nodes, more \ {f}) /\ AttrChange(g, e, r, j) /\ e \in Live(g.attr)
          BY <3>1, <3>2, <3>9, JoinedLast
        <5> HIDE DEF j, r, e
        <5>2. j = h1
          BY <3>1 DEF j
        <5> QED
          BY <3>2, <5>1, <5>2
      <4> HIDE DEF e
      <4>2. r.live
        <5>1. g.attr[e] \in AttrRecord /\ g.attr[e].live
          BY <3>1, <4>1, AttrFacts
        <5> QED
          BY <5>1 DEF AttrRecord
      <4> HIDE DEF r
      <4>3. Whole(h1, nodes, attrs) /\ Len(h1.node) = Len(g.node)
        BY <3>6, <4>1, <4>2, WholeAttrChange
      <4>4. h1.node = g.node
        BY <4>1 DEF AttrChange
      <4> QED
        BY <3>6, <3>7, <4>3, <4>4
    <3> QED
      BY <3>8, <3>9
  <2> QED
    BY <2>1, <2>2
<1> DEFINE rec == [h1.node[m] EXCEPT !.live = FALSE]
<1>4. h1.node[m] \in NodeRecord /\ h1.node[m].next = Nil
  BY <1>3, NodeFacts DEF Whole
<1>5. rec.next = Nil
  BY <1>4 DEF NodeRecord
<1>6. Sound(h2, nodes \ {m}, attrs) /\ NodeChange(h1, m, rec, h2)
  <2>1. Sound(h2, nodes \ {m}, attrs) /\ NodeGone(h1, m, h2)
    BY <1>2, <1>3, <1>4, DestroyEmpty DEF Whole
  <2> QED
    BY <2>1 DEF NodeGone
<1> HIDE DEF rec
<1>7. Whole(h2, nodes \ {m}, attrs) /\ Len(h2.node) = Len(h1.node)
  BY <1>3, <1>5, <1>6, WholeNodeChange
<1> QED
  BY <1>3, <1>7

-----------------------------------------------------------------------------
(* The semantic stack *)

Value == {Text(t) : t \in Word} \cup {NodeAt(n) : n \in Nat \ {Nil}}
         \cup {AttrAt(a) : a \in Nat \ {Nil}} \cup {NULL}

Kind == {"text", "node", "attr", "null"}

LEMMA ValueFacts ==
    ASSUME NEW v \in Value
    PROVE  /\ v.kind \in Kind
           /\ v.kind = "text" => v.text \in Word /\ v.ref = Nil
           /\ v.kind = "null" => v.ref = Nil
           /\ v.kind = "node" => v = NodeAt(v.ref) /\ v.ref # Nil
           /\ v.kind = "attr" => v = AttrAt(v.ref) /\ v.ref # Nil
<1>1. CASE \E t \in Word : v = Text(t)
  BY <1>1 DEF Text, Kind
<1>2. CASE \E n \in Nat \ {Nil} : v = NodeAt(n)
  BY <1>2 DEF NodeAt, Kind
<1>3. CASE \E a \in Nat \ {Nil} : v = AttrAt(a)
  BY <1>3 DEF AttrAt, Kind
<1>4. CASE v = NULL
  BY <1>4 DEF NULL, Kind
<1> QED
  BY <1>1, <1>2, <1>3, <1>4 DEF Value

\* What the values of a kind point to.
Refs(s, kind) == {s[i].ref : i \in {j \in DOMAIN s : s[j].kind = kind}}

Pointing(kind) == kind \in {"node", "attr"}

\* No two values point to the same object.
OneEach(s) ==
    \A i, j \in DOMAIN s :
        Pointing(s[i].kind) /\ s[i].kind = s[j].kind /\ s[i].ref = s[j].ref => i = j

IsStack(s) == s \in Seq(Value) /\ OneEach(s)

LEMMA LowerFacts ==
    ASSUME NEW S, NEW s \in Seq(S), NEW n \in Nat, n <= Len(s)
    PROVE  /\ Lower(s, n) \in Seq(S) /\ Len(Lower(s, n)) = Len(s) - n
           /\ DOMAIN Lower(s, n) = 1..Len(s) - n /\ Len(s) \in Nat
           /\ \A i \in 1..Len(s) - n : i \in 1..Len(s) /\ Lower(s, n)[i] = s[i]
<1> DEFINE m == Len(s) - n
<1>1. Len(s) \in Nat /\ m \in Nat /\ m <= Len(s) /\ \A i \in 1..Len(s) : s[i] \in S
  BY LenProperties, ElementOfSeq
<1>2. Lower(s, n) = SubSeq(s, 1, m)
  BY DEF Lower
<1>3. SubSeq(s, 1, m) = [i \in 1..m |-> s[i]]
  BY <1>1
<1>4. [i \in 1..m |-> s[i]] \in Seq(S) /\ Len([i \in 1..m |-> s[i]]) = m
  BY <1>1
<1> HIDE DEF m
<1>5. \A i \in 1..m : i \in 1..Len(s) /\ Lower(s, n)[i] = s[i]
  BY <1>1, <1>2, <1>3
<1>6. Lower(s, n) \in Seq(S) /\ Len(Lower(s, n)) = m /\ DOMAIN Lower(s, n) = 1..m
  BY <1>2, <1>3, <1>4
<1> QED
  BY <1>1, <1>5, <1>6 DEF m

LEMMA UpperFacts ==
    ASSUME NEW S, NEW s \in Seq(S), NEW n \in Nat, n <= Len(s)
    PROVE  /\ Upper(s, n) \in Seq(S) /\ Len(Upper(s, n)) = n
           /\ DOMAIN Upper(s, n) = 1..n
           /\ \A i \in 1..n : /\ Len(s) - n + i \in 1..Len(s)
                              /\ Upper(s, n)[i] = s[Len(s) - n + i]
<1> DEFINE m == Len(s) - n
           u == [i \in 1..n |-> s[m + i]]
<1>1. Len(s) \in Nat /\ m \in Nat /\ m + n = Len(s) /\ \A i \in 1..Len(s) : s[i] \in S
  BY LenProperties, ElementOfSeq
<1>2. Upper(s, n) = SubSeq(s, m + 1, Len(s))
  BY DEF Upper
<1>3. SubSeq(s, m + 1, Len(s)) = u
  <2> HIDE DEF m
  <2>1. SubSeq(s, m + 1, Len(s)) = [i \in 1..(1 + Len(s) - (m + 1)) |-> s[i + (m + 1) - 1]]
    BY <1>1 DEF SubSeq
  <2>2. 1 + Len(s) - (m + 1) = n /\ \A i \in 1..n : i + (m + 1) - 1 = m + i
    BY <1>1
  <2> QED
    BY <2>1, <2>2
<1>4. \A i \in 1..n : m + i \in 1..Len(s)
  <2> HIDE DEF m
  <2> QED
    BY <1>1
<1>5. u \in Seq(S) /\ Len(u) = n /\ DOMAIN u = 1..n /\ \A i \in 1..n : u[i] = s[m + i]
  <2> HIDE DEF m
  <2> QED
    BY <1>1, <1>4
<1> HIDE DEF m, u
<1>6. Upper(s, n) = u
  BY <1>2, <1>3
<1> QED
  BY <1>4, <1>5, <1>6 DEF m

LEMMA StackSplit ==
    ASSUME NEW s, IsStack(s), NEW n \in Nat, n <= Len(s)
    PROVE  /\ IsStack(Lower(s, n)) /\ OneEach(Upper(s, n))
           /\ \A i \in 1..n : Upper(s, n)[i] \in Value
           /\ \A kind \in {"node", "attr"} :
                 /\ Refs(s, kind) = Refs(Lower(s, n), kind) \cup Refs(Upper(s, n), kind)
                 /\ Refs(Lower(s, n), kind) \cap Refs(Upper(s, n), kind) = {}
<1> DEFINE low == Lower(s, n)
           up  == Upper(s, n)
           m   == Len(s) - n
<1>1. /\ low \in Seq(Value) /\ DOMAIN low = 1..m /\ Len(s) \in Nat
      /\ \A i \in 1..m : i \in 1..Len(s) /\ low[i] = s[i]
  BY LowerFacts DEF IsStack
<1>2. /\ up \in Seq(Value) /\ DOMAIN up = 1..n /\ Len(up) = n
      /\ \A i \in 1..n : m + i \in 1..Len(s) /\ up[i] = s[m + i]
  BY UpperFacts DEF IsStack
<1>3. m \in Nat /\ m + n = Len(s) /\ DOMAIN s = 1..Len(s)
  BY <1>1 DEF IsStack
<1> HIDE DEF low, up, m
<1>4. OneEach(low) /\ OneEach(up)
  <2>1. OneEach(low)
    BY <1>1, <1>3 DEF IsStack, OneEach
  <2>2. ASSUME NEW i \in 1..n, NEW j \in 1..n, m + i = m + j PROVE i = j
    BY <1>3, <2>2
  <2>3. ASSUME NEW i \in 1..n, NEW j \in 1..n, Pointing(up[i].kind), up[i].kind = up[j].kind,
               up[i].ref = up[j].ref
        PROVE  i = j
    <3>1. up[i] = s[m + i] /\ up[j] = s[m + j] /\ m + i \in DOMAIN s /\ m + j \in DOMAIN s
      BY <1>2, <1>3
    <3>2. m + i = m + j
      BY <2>3, <3>1 DEF IsStack, OneEach
    <3> QED
      BY <2>2, <3>2
  <2>4. OneEach(up)
    BY <1>2, <2>3 DEF OneEach
  <2> QED
    BY <2>1, <2>4
<1>5. \A i \in 1..n : up[i] \in Value
  BY <1>2, ElementOfSeq
<1>6. \A i \in 1..Len(s) : i \in 1..m \/ \E j \in 1..n : i = m + j
  <2> SUFFICES ASSUME NEW i \in 1..Len(s), i \notin 1..m PROVE \E j \in 1..n : i = m + j
    OBVIOUS
  <2>1. i - m \in 1..n /\ i = m + (i - m)
    BY <1>1, <1>3
  <2> QED
    BY <2>1
<1>7. ASSUME NEW kind \in {"node", "attr"}
      PROVE  /\ Refs(s, kind) = Refs(low, kind) \cup Refs(up, kind)
             /\ Refs(low, kind) \cap Refs(up, kind) = {}
  <2>1. Refs(low, kind) \subseteq Refs(s, kind)
    BY <1>1, <1>3 DEF Refs
  <2>2. Refs(up, kind) \subseteq Refs(s, kind)
    BY <1>2, <1>3 DEF Refs
  <2>3. Refs(s, kind) \subseteq Refs(low, kind) \cup Refs(up, kind)
    <3> SUFFICES ASSUME NEW i \in 1..Len(s), s[i].kind = kind
                 PROVE  s[i].ref \in Refs(low, kind) \cup Refs(up, kind)
      BY <1>3 DEF Refs
    <3>1. CASE i \in 1..m
      BY <1>1, <3>1 DEF Refs
    <3>2. CASE \E j \in 1..n : i = m + j
      BY <1>2, <3>2 DEF Refs
    <3> QED
      BY <1>6, <3>1, <3>2
  <2>4. ASSUME NEW i \in 1..m, low[i].kind = kind, NEW j \in 1..n, up[j].kind = kind,
               low[i].ref = up[j].ref
        PROVE  FALSE
    <3>1. m + j \in 1..Len(s) /\ i \in 1..Len(s) /\ i # m + j
      BY <1>1, <1>2, <1>3
    <3>2. low[i] = s[i] /\ up[j] = s[m + j]
      BY <1>1, <1>2
    <3> QED
      BY <1>3, <2>4, <3>1, <3>2 DEF IsStack, OneEach, Pointing
  <2>5. Refs(low, kind) \cap Refs(up, kind) = {}
    BY <1>1, <1>2, <2>4 DEF Refs
  <2> QED
    BY <2>1, <2>2, <2>3, <2>5
<1> QED
  BY <1>1, <1>4, <1>5, <1>7 DEF IsStack, low, up

LEMMA StackGrows ==
    ASSUME NEW s, IsStack(s), NEW v \in Value, Pointing(v.kind) => v.ref \notin Refs(s, v.kind)
    PROVE  /\ IsStack(Append(s, v))
           /\ \A kind \in {"node", "attr"} :
                 Refs(Append(s, v), kind)
                 = Refs(s, kind) \cup (IF v.kind = kind THEN {v.ref} ELSE {})
<1> DEFINE t == Append(s, v)
           n == Len(s)
<1>1. /\ t \in Seq(Value) /\ n \in Nat /\ DOMAIN t = 1..n + 1 /\ DOMAIN s = 1..n
      /\ t[n + 1] = v /\ \A i \in 1..n : t[i] = s[i]
  BY AppendProperties, LenProperties DEF IsStack
<1> HIDE DEF t, n
<1>2. \A i \in 1..n + 1 : i \in 1..n \/ i = n + 1
  BY <1>1
<1>3. \A i \in 1..n : i \in 1..n + 1 /\ i # n + 1
  BY <1>1
<1>4. n + 1 \in 1..n + 1
  BY <1>1
<1>5. OneEach(t)
  <2> SUFFICES ASSUME NEW i \in 1..n + 1, NEW j \in 1..n + 1, Pointing(t[i].kind),
                      t[i].kind = t[j].kind, t[i].ref = t[j].ref
               PROVE  i = j
    BY <1>1 DEF OneEach
  <2>1. CASE i \in 1..n /\ j \in 1..n
    BY <1>1, <2>1 DEF IsStack, OneEach
  <2>2. CASE i \in 1..n /\ j = n + 1
    <3>1. s[i].ref \in Refs(s, v.kind) /\ v.ref = s[i].ref /\ Pointing(v.kind)
      BY <1>1, <2>2 DEF Refs
    <3> QED
      BY <3>1
  <2>3. CASE j \in 1..n /\ i = n + 1
    <3>1. s[j].ref \in Refs(s, v.kind) /\ v.ref = s[j].ref /\ Pointing(v.kind)
      BY <1>1, <2>3 DEF Refs
    <3> QED
      BY <3>1
  <2> QED
    BY <1>2, <2>1, <2>2, <2>3
<1>6. ASSUME NEW kind \in {"node", "attr"}
      PROVE  Refs(t, kind) = Refs(s, kind) \cup (IF v.kind = kind THEN {v.ref} ELSE {})
  <2>1. Refs(s, kind) \subseteq Refs(t, kind)
    BY <1>1, <1>3 DEF Refs
  <2>2. v.kind = kind => v.ref \in Refs(t, kind)
    BY <1>1, <1>4 DEF Refs
  <2>3. ASSUME NEW i \in 1..n + 1, t[i].kind = kind
        PROVE  t[i].ref \in Refs(s, kind) \cup (IF v.kind = kind THEN {v.ref} ELSE {})
    <3>1. CASE i \in 1..n
      BY <1>1, <2>3, <3>1 DEF Refs
    <3>2. CASE i = n + 1
      BY <1>1, <2>3, <3>2
    <3> QED
      BY <1>2, <3>1, <3>2
  <2>4. Refs(t, kind) \subseteq Refs(s, kind) \cup (IF v.kind = kind THEN {v.ref} ELSE {})
    BY <1>1, <2>3 DEF Refs
  <2> QED
    BY <2>1, <2>2, <2>4
<1> QED
  BY <1>1, <1>5, <1>6 DEF IsStack, t

\* What the parser holds: the placeholder and the root, and what is on the stack.
Held(r, s) == {1, r} \cup Refs(s, "node")

Holds(h, r, s) ==
    /\ IsStack(s) /\ 1 \notin Refs(s, "node") /\ r \notin Refs(s, "node")
    /\ Whole(h, Held(r, s), Refs(s, "attr"))

LEMMA HeldFacts ==
    ASSUME NEW h, NEW r, NEW s, Holds(h, r, s)
    PROVE  /\ Len(h.node) \in Nat /\ Held(r, s) \subseteq 1..Len(h.node)
           /\ Len(h.attr) \in Nat /\ Refs(s, "attr") \subseteq 1..Len(h.attr)
           /\ Nil \notin Held(r, s) /\ Nil \notin Refs(s, "attr")
BY DEF Holds, Whole, Sound, NodeLists, AttrLists, Lists, Nil

\* The values of the right-hand side give way to a new node ...
LEMMA NodeIsPushed ==
    ASSUME NEW h, NEW r, NEW s, Holds(h, r, s), NEW n \in Nat, n <= Len(s), NEW h2,
           NEW new, new = Len(h.node) + 1,
           Whole(h2, (Held(r, s) \ Refs(Upper(s, n), "node")) \cup {new},
                 Refs(s, "attr") \ Refs(Upper(s, n), "attr"))
    PROVE  Holds(h2, r, Append(Lower(s, n), NodeAt(new)))
<1> DEFINE low == Lower(s, n)
           up  == Upper(s, n)
           v   == NodeAt(new)
           t   == Append(low, v)
<1>1. IsStack(s)
  BY DEF Holds
<1>2. /\ IsStack(low)
      /\ Refs(s, "node") = Refs(low, "node") \cup Refs(up, "node")
      /\ Refs(low, "node") \cap Refs(up, "node") = {}
      /\ Refs(s, "attr") = Refs(low, "attr") \cup Refs(up, "attr")
      /\ Refs(low, "attr") \cap Refs(up, "attr") = {}
  BY <1>1, StackSplit
<1>3. new \notin Held(r, s) /\ new # Nil /\ new \in Nat
  BY HeldFacts DEF Nil
<1>4. v \in Value /\ v.kind = "node" /\ v.ref = new
  BY <1>3 DEF Value, NodeAt
<1> HIDE DEF low, up, v
<1>5. Pointing(v.kind) => v.ref \notin Refs(low, v.kind)
  BY <1>2, <1>3, <1>4 DEF Held
<1>6. IsStack(t) /\ Refs(t, "node") = Refs(low, "node") \cup {new} /\ Refs(t, "attr") = Refs(low, "attr")
  <2>1. /\ IsStack(t)
        /\ \A kind \in {"node", "attr"} :
              Refs(t, kind) = Refs(low, kind) \cup (IF v.kind = kind THEN {v.ref} ELSE {})
    <3>1. IsStack(low) /\ v \in Value
      BY <1>2, <1>4
    <3> QED
      BY <1>5, <3>1, StackGrows
  <2> HIDE DEF t
  <2>2. Refs(t, "node") = Refs(low, "node") \cup {new}
    BY <1>4, <2>1
  <2>3. Refs(t, "attr") = Refs(low, "attr")
    BY <1>4, <2>1
  <2> QED
    BY <2>1, <2>2, <2>3
<1> HIDE DEF t
<1>7. 1 \notin Refs(s, "node") /\ r \notin Refs(s, "node")
  BY DEF Holds
<1>8. /\ (Held(r, s) \ Refs(up, "node")) \cup {new} = Held(r, t)
      /\ Refs(s, "attr") \ Refs(up, "attr") = Refs(t, "attr")
  BY <1>2, <1>6, <1>7 DEF Held
<1>9. Whole(h2, Held(r, t), Refs(t, "attr"))
  BY <1>8 DEF up
<1>10. 1 \notin Refs(t, "node") /\ r \notin Refs(t, "node")
  BY <1>2, <1>3, <1>6, <1>7 DEF Held
<1>11. Holds(h2, r, t)
  BY <1>6, <1>9, <1>10 DEF Holds
<1> QED
  BY <1>11 DEF t, v, low

\* ... or to a new attribute.
LEMMA AttrIsPushed ==
    ASSUME NEW h, NEW r, NEW s, Holds(h, r, s), NEW n \in Nat, n <= Len(s), NEW h2,
           NEW new, new = Len(h.attr) + 1,
           Whole(h2, Held(r, s) \ Refs(Upper(s, n), "node"),
                 (Refs(s, "attr") \cup {new}) \ Refs(Upper(s, n), "attr"))
    PROVE  Holds(h2, r, Append(Lower(s, n), AttrAt(new)))
<1> DEFINE low == Lower(s, n)
           up  == Upper(s, n)
           v   == AttrAt(new)
           t   == Append(low, v)
<1>1. IsStack(s)
  BY DEF Holds
<1>2. /\ IsStack(low)
      /\ Refs(s, "node") = Refs(low, "node") \cup Refs(up, "node")
      /\ Refs(low, "node") \cap Refs(up, "node") = {}
      /\ Refs(s, "attr") = Refs(low, "attr") \cup Refs(up, "attr")
      /\ Refs(low, "attr") \cap Refs(up, "attr") = {}
  BY <1>1, StackSplit
<1>3. new \notin Refs(s, "attr") /\ new # Nil /\ new \in Nat
  BY HeldFacts DEF Nil
<1>4. v \in Value /\ v.kind = "attr" /\ v.ref = new
  BY <1>3 DEF Value, AttrAt
<1> HIDE DEF low, up, v
<1>5. Pointing(v.kind) => v.ref \notin Refs(low, v.kind)
  BY <1>2, <1>3, <1>4
<1>6. IsStack(t) /\ Refs(t, "node") = Refs(low, "node") /\ Refs(t, "attr") = Refs(low, "attr") \cup {new}
  <2>1. /\ IsStack(t)
        /\ \A kind \in {"node", "attr"} :
              Refs(t, kind) = Refs(low, kind) \cup (IF v.kind = kind THEN {v.ref} ELSE {})
    <3>1. IsStack(low) /\ v \in Value
      BY <1>2, <1>4
    <3> QED
      BY <1>5, <3>1, StackGrows
  <2> HIDE DEF t
  <2>2. Refs(t, "attr") = Refs(low, "attr") \cup {new}
    BY <1>4, <2>1
  <2>3. Refs(t, "node") = Refs(low, "node")
    BY <1>4, <2>1
  <2> QED
    BY <2>1, <2>2, <2>3
<1> HIDE DEF t
<1>7. 1 \notin Refs(s, "node") /\ r \notin Refs(s, "node")
  BY DEF Holds
<1>8. /\ Held(r, s) \ Refs(up, "node") = Held(r, t)
      /\ (Refs(s, "attr") \cup {new}) \ Refs(up, "attr") = Refs(t, "attr")
  BY <1>2, <1>3, <1>6, <1>7 DEF Held
<1>9. Whole(h2, Held(r, t), Refs(t, "attr"))
  BY <1>8 DEF up
<1>10. 1 \notin Refs(t, "node") /\ r \notin Refs(t, "node")
  BY <1>2, <1>6, <1>7
<1>11. Holds(h2, r, t)
  BY <1>6, <1>9, <1>10 DEF Holds
<1> QED
  BY <1>11 DEF t, v, low

\* A value without an object.
LEMMA PlainIsPushed ==
    ASSUME NEW h, NEW r, NEW s, Holds(h, r, s), NEW v \in Value, ~Pointing(v.kind)
    PROVE  Holds(h, r, Append(s, v))
<1> DEFINE t == Append(s, v)
<1>1. /\ IsStack(t)
      /\ \A kind \in {"node", "attr"} :
            Refs(t, kind) = Refs(s, kind) \cup (IF v.kind = kind THEN {v.ref} ELSE {})
  BY StackGrows DEF Holds
<1> HIDE DEF t
<1>2. Refs(t, "node") = Refs(s, "node") /\ Refs(t, "attr") = Refs(s, "attr")
  BY <1>1 DEF Pointing
<1>3. Holds(h, r, t)
  BY <1>1, <1>2 DEF Holds, Held
<1> QED
  BY <1>3 DEF t

LEMMA LowerNone ==
    ASSUME NEW S, NEW s \in Seq(S)
    PROVE  Lower(s, 0) = s /\ 0 <= Len(s)
<1> DEFINE low == Lower(s, 0)
<1>1. Len(s) \in Nat /\ Len(s) - 0 = Len(s) /\ 0 <= Len(s)
  BY LenProperties
<1>2. low \in Seq(S) /\ Len(low) = Len(s) /\ \A i \in 1..Len(s) : low[i] = s[i]
  BY <1>1, LowerFacts
<1> HIDE DEF low
<1>3. low = s
  BY <1>2, SeqEqual
<1> QED
  BY <1>1, <1>3 DEF low

\* The derivation knows the kinds of the values.
SameKinds(s, kinds) ==
    kinds \in Seq(Kind) /\ Len(kinds) = Len(s) /\ \A i \in 1..Len(s) : kinds[i] = s[i].kind

LEMMA KindsMove ==
    ASSUME NEW s, s \in Seq(Value), NEW kinds, SameKinds(s, kinds),
           NEW n \in Nat, n <= Len(s), NEW v \in Value
    PROVE  SameKinds(Append(Lower(s, n), v), Append(Lower(kinds, n), v.kind))
<1> DEFINE low  == Lower(s, n)
           klow == Lower(kinds, n)
           m    == Len(s) - n
           g    == v.kind
<1>1. g \in Kind
  BY ValueFacts
<1>2. low \in Seq(Value) /\ Len(low) = m /\ \A i \in 1..m : i \in 1..Len(s) /\ low[i] = s[i]
  BY LowerFacts
<1>3. klow \in Seq(Kind) /\ Len(klow) = m /\ \A i \in 1..m : klow[i] = kinds[i]
  BY LowerFacts DEF SameKinds
<1>4. m \in Nat
  BY LenProperties
<1> HIDE DEF low, klow, m
<1>5. \A i \in 1..m : klow[i] = low[i].kind
  BY <1>2, <1>3 DEF SameKinds
<1> HIDE DEF g
<1> DEFINE t  == Append(low, v)
           kt == Append(klow, g)
<1>6. /\ Len(t) = m + 1 /\ t[m + 1] = v /\ \A i \in 1..m : t[i] = low[i]
  BY <1>2, AppendProperties
<1>7. /\ kt \in Seq(Kind) /\ Len(kt) = m + 1 /\ kt[m + 1] = g /\ \A i \in 1..m : kt[i] = klow[i]
  BY <1>1, <1>3, AppendProperties
<1> HIDE DEF t, kt
<1>8. ASSUME NEW i \in 1..m + 1 PROVE kt[i] = t[i].kind
  <2>1. CASE i \in 1..m
    BY <1>5, <1>6, <1>7, <2>1
  <2>2. CASE i = m + 1
    BY <1>6, <1>7, <2>2 DEF g
  <2>3. i \in 1..m \/ i = m + 1
    BY <1>4
  <2> QED
    BY <2>1, <2>2, <2>3
<1>9. SameKinds(t, kt)
  BY <1>6, <1>7, <1>8 DEF SameKinds
<1> QED
  BY <1>9 DEF t, kt, low, klow, g

IsSequence(m) == \E S : m \in Seq(S)

\* Where the stack has NULL the source has nothing; the rest of a list means a list.
Stands(v, x) ==
    /\ v.kind = "null" => x = Nothing
    /\ v.kind = "attr" => IsSequence(x.fields)

Means(s, m) ==
    IsSequence(m) /\ Len(m) = Len(s) /\ \A i \in 1..Len(s) : Stands(s[i], m[i])

LEMMA MeansMoves ==
    ASSUME NEW s, s \in Seq(Value), NEW m, Means(s, m),
           NEW n \in Nat, n <= Len(s), NEW v \in Value, NEW x, Stands(v, x)
    PROVE  Means(Append(Lower(s, n), v), Append(Lower(m, n), x))
<1>1. PICK S : m \in Seq(S)
  BY DEF Means, IsSequence
<1> DEFINE low  == Lower(s, n)
           mlow == Lower(m, n)
           k    == Len(s) - n
           T    == S \cup {x}
<1>2. low \in Seq(Value) /\ Len(low) = k /\ \A i \in 1..k : i \in 1..Len(s) /\ low[i] = s[i]
  BY LowerFacts
<1>3. mlow \in Seq(S) /\ Len(mlow) = k /\ \A i \in 1..k : mlow[i] = m[i]
  BY <1>1, LowerFacts DEF Means
<1>4. k \in Nat
  BY LenProperties
<1> HIDE DEF low, mlow, k
<1>5. \A i \in 1..k : Stands(low[i], mlow[i])
  BY <1>2, <1>3 DEF Means
<1>6. mlow \in Seq(T) /\ x \in T
  <2>1. \A i \in 1..Len(mlow) : mlow[i] \in T
    BY <1>3, ElementOfSeq
  <2> HIDE DEF T
  <2>2. mlow \in Seq(T)
    BY <1>3, <2>1, LenProperties
  <2> QED
    BY <2>2 DEF T
<1> HIDE DEF T
<1> DEFINE t  == Append(low, v)
           mt == Append(mlow, x)
<1>7. /\ Len(t) = k + 1 /\ t[k + 1] = v /\ \A i \in 1..k : t[i] = low[i]
  BY <1>2, AppendProperties
<1>8. /\ mt \in Seq(T) /\ Len(mt) = k + 1 /\ mt[k + 1] = x /\ \A i \in 1..k : mt[i] = mlow[i]
  BY <1>3, <1>6, AppendProperties
<1> HIDE DEF t, mt
<1>9. ASSUME NEW i \in 1..k + 1 PROVE Stands(t[i], mt[i])
  <2>1. CASE i \in 1..k
    BY <1>5, <1>7, <1>8, <2>1
  <2>2. CASE i = k + 1
    BY <1>7, <1>8, <2>2
  <2>3. i \in 1..k \/ i = k + 1
    BY <1>4
  <2> QED
    BY <2>1, <2>2, <2>3
<1>10. IsSequence(mt)
  BY <1>8 DEF IsSequence
<1>11. Means(t, mt)
  BY <1>7, <1>8, <1>9, <1>10 DEF Means
<1> QED
  BY <1>11 DEF t, mt, low, mlow

LEMMA DerivationStep ==
    ASSUME NEW d \in Inputs, NEW k \in 1..Len(d)
    PROVE  /\ Len(d) \in Nat /\ Kinds(d)[0] = <<>>
           /\ d[k].prod = "" => /\ d[k].text \in Word
                                /\ Kinds(d)[k] = Append(Kinds(d)[k - 1], "text")
           /\ d[k].prod # "" =>
                 LET p     == Production[d[k].prod]
                     stack == Kinds(d)[k - 1]
                 IN  /\ d[k].prod \in DOMAIN Production
                     /\ p.arity <= Len(stack) /\ Takes(p, Upper(stack, p.arity))
                     /\ p.shape = "program" => k = Len(d)
                     /\ Kinds(d)[k] = Append(Lower(stack, p.arity), Gives(p))
<1> DEFINE Items == [text : Word \cup {NoText}, prod : DOMAIN Production \cup {""}]
<1>1. IsDerivation(d)
  BY InputsAssumption
<1>2. d \in Seq(Items)
  BY <1>1 DEF IsDerivation
<1>3. Len(d) \in Nat /\ DOMAIN d = 1..Len(d) /\ d[k] \in Items
  <2> HIDE DEF Items
  <2> QED
    BY <1>2, LenProperties, ElementOfSeq
<1>4. d[k].prod \in DOMAIN Production \cup {""}
  BY <1>3
<1>5. Kinds(d)[0] = <<>> /\ Kinds(d)[k] = KindsAfter(d, k, Kinds(d)[k - 1])
  BY <1>3, KindsUnfold
<1>6. CASE d[k].prod = ""
  BY <1>1, <1>3, <1>5, <1>6 DEF IsDerivation, KindsAfter
<1>7. CASE d[k].prod # ""
  BY <1>1, <1>3, <1>4, <1>5, <1>7 DEF IsDerivation, KindsAfter
<1> QED
  BY <1>6, <1>7

-----------------------------------------------------------------------------
(* The right-hand side of a production *)

\* The values that a production takes from the stack.
Suit(p, args) ==
    /\ DOMAIN args = 1..p.arity /\ OneEach(args)
    /\ \A i \in 1..p.arity : args[i] \in Value
    /\ Takes(p, [i \in 1..p.arity |-> args[i].kind])

LEMMA UpperSuits ==
    ASSUME NEW s, IsStack(s), NEW kinds, SameKinds(s, kinds),
           NEW p, p.arity \in Nat, p.arity <= Len(s), Takes(p, Upper(kinds, p.arity))
    PROVE  Suit(p, Upper(s, p.arity))
<1> DEFINE n  == p.arity
           up == Upper(s, n)
           m  == Len(s) - n
<1>0. n \in Nat /\ n <= Len(s)
  OBVIOUS
<1> HIDE DEF n
<1>1. /\ DOMAIN up = 1..n /\ OneEach(up) /\ \A i \in 1..n : up[i] \in Value
      /\ \A i \in 1..n : m + i \in 1..Len(s) /\ up[i] = s[m + i]
  <2>1. OneEach(up) /\ \A i \in 1..n : up[i] \in Value
    BY <1>0, StackSplit
  <2>2. s \in Seq(Value)
    BY DEF IsStack
  <2>3. DOMAIN up = 1..n /\ \A i \in 1..n : m + i \in 1..Len(s) /\ up[i] = s[m + i]
    BY <1>0, <2>2, UpperFacts
  <2> QED
    BY <2>1, <2>3
<1>2. Upper(kinds, n) = [i \in 1..n |-> up[i].kind]
  <2> DEFINE ku == Upper(kinds, n)
  <2>1. /\ ku \in Seq(Kind) /\ DOMAIN ku = 1..n
        /\ \A i \in 1..n : ku[i] = kinds[m + i]
    <3>1. kinds \in Seq(Kind) /\ Len(kinds) = Len(s)
      BY DEF SameKinds
    <3>2. n <= Len(kinds)
      BY <1>0, <3>1
    <3>3. /\ ku \in Seq(Kind) /\ DOMAIN ku = 1..n
          /\ \A i \in 1..n : ku[i] = kinds[Len(kinds) - n + i]
      BY <1>0, <3>1, <3>2, UpperFacts
    <3> HIDE DEF ku
    <3> QED
      BY <3>1, <3>3
  <2> HIDE DEF ku, up, m
  <2>2. \A i \in 1..n : ku[i] = up[i].kind
    BY <1>1, <2>1 DEF SameKinds
  <2>3. ku = [i \in 1..n |-> ku[i]]
    BY <2>1
  <2>4. ku = [i \in 1..n |-> up[i].kind]
    BY <2>2, <2>3
  <2> QED
    BY <2>4 DEF ku
<1> HIDE DEF up
<1>3. Suit(p, up)
  BY <1>1, <1>2 DEF Suit, n
<1> QED
  BY <1>3 DEF up, n

Keyed(p) ==
    \A i \in DOMAIN p.parts :
        p.parts[i].key \in Key /\ (p.parts[i].op = "lit" => p.parts[i].text \in Word)

LEMMA PartSuits ==
    ASSUME NEW p, PartsOK(p), Keyed(p), NEW args, Suit(p, args),
           NEW nodes, Refs(args, "node") \subseteq nodes, Nil \notin nodes,
           NEW i \in DOMAIN p.parts
    PROVE  /\ Ready(p.parts[i], args, nodes, Nil)
           /\ TakenBy(p.parts[i], args) \subseteq Refs(args, "node")
           /\ \A r \in TakenBy(p.parts[i], args) :
                 /\ p.parts[i].op = "sub"
                 /\ args[p.parts[i].position].kind = "node" /\ args[p.parts[i].position].ref = r
<1> DEFINE part == p.parts[i]
           k    == part.position
           v    == args[k]
<1>1. part.op \in {"str", "sub", "lit"} /\ (part.op # "lit" => k \in 1..p.arity)
  BY DEF PartsOK, Placed
<1>2. part.key \in Key /\ (part.op = "lit" => part.text \in Word)
  BY DEF Keyed
<1>3. /\ part.op = "str" => v.kind = "text"
      /\ part.op = "sub" => v.kind \in {"node", "null"}
  BY <1>1 DEF Suit, Takes
<1>4. part.op # "lit" => v \in Value /\ k \in DOMAIN args
  BY <1>1 DEF Suit
<1> HIDE DEF part
<1>5. part.op = "str" => v.text \in Word
  BY <1>3, <1>4, ValueFacts
<1>6. part.op = "sub" => \/ v.kind = "null" /\ v.ref = Nil
                         \/ v.kind = "node" /\ v.ref # Nil
  BY <1>3, <1>4, ValueFacts
<1> HIDE DEF k
<1>7. v.kind = "node" /\ part.op = "sub" => v.ref \in Refs(args, "node")
  BY <1>4 DEF Refs
<1> HIDE DEF v
<1>8. Ready(part, args, nodes, Nil)
  BY <1>2, <1>5, <1>6, <1>7 DEF Ready, v, k
<1>9. \A r \in TakenBy(part, args) :
         part.op = "sub" /\ v.kind = "node" /\ v.ref = r /\ r \in Refs(args, "node")
  BY <1>6, <1>7 DEF TakenBy, v, k
<1> QED
  BY <1>8, <1>9 DEF v, k, part

LEMMA PartsSuit ==
    ASSUME NEW p, PartsOK(p), Keyed(p), NEW args, Suit(p, args),
           NEW nodes, Refs(args, "node") \subseteq nodes, Nil \notin nodes
    PROVE  AllReady(p.parts, args, nodes, Nil) /\ Distinct(p.parts, args)
<1>1. AllReady(p.parts, args, nodes, Nil)
  BY PartSuits DEF AllReady
<1>2. ASSUME NEW i \in DOMAIN p.parts, NEW j \in DOMAIN p.parts, i # j,
             NEW r \in TakenBy(p.parts[i], args), r \in TakenBy(p.parts[j], args)
      PROVE  FALSE
  <2> DEFINE a == p.parts[i].position
             b == p.parts[j].position
  <2>1. p.parts[i].op = "sub" /\ args[a].kind = "node" /\ args[a].ref = r
    BY <1>2, PartSuits
  <2>2. p.parts[j].op = "sub" /\ args[b].kind = "node" /\ args[b].ref = r
    BY <1>2, PartSuits
  <2>3. a \in 1..p.arity /\ b \in 1..p.arity
    BY <2>1, <2>2 DEF PartsOK, Placed
  <2>4. a # b
    BY <1>2, <2>1, <2>2 DEF PartsOK, Unlike
  <2> HIDE DEF a, b
  <2> QED
    BY <2>1, <2>2, <2>3, <2>4 DEF Suit, OneEach, Pointing
<1>3. Distinct(p.parts, args)
  BY <1>2 DEF Distinct
<1> QED
  BY <1>1, <1>3

\* A production for a node takes every node from the right-hand side, and there is no
\* list among the values.
LEMMA NodeRowTakes ==
    ASSUME NEW p, NodeRow(p), Keyed(p), NEW args, Suit(p, args),
           NEW nodes, Refs(args, "node") \subseteq nodes, Nil \notin nodes
    PROVE  /\ Taken(p.parts, args, Len(p.parts)) = Refs(args, "node")
           /\ Refs(args, "attr") = {}
<1>1. PartsOK(p) /\ Covered(p) /\ DOMAIN p.parts = 1..Len(p.parts)
  BY DEF NodeRow, PartsOK
<1>2. Taken(p.parts, args, Len(p.parts)) \subseteq Refs(args, "node")
  <2>1. \A i \in DOMAIN p.parts : TakenBy(p.parts[i], args) \subseteq Refs(args, "node")
    BY <1>1, PartSuits
  <2> QED
    BY <1>1, <2>1 DEF Taken
<1>3. ASSUME NEW k \in 1..p.arity, Pointing(args[k].kind)
      PROVE  args[k].kind = "node" /\ args[k].ref \in Taken(p.parts, args, Len(p.parts))
  <2>1. PICK i \in DOMAIN p.parts : At(p.parts[i], k)
    BY <1>1 DEF Covered
  <2> DEFINE part == p.parts[i]
  <2>2. part.position = k /\ part.op # "lit" /\ part.op \in {"str", "sub", "lit"}
    BY <1>1, <2>1 DEF At, PartsOK, Placed
  <2>3. /\ part.op = "str" => args[k].kind = "text"
        /\ part.op = "sub" => args[k].kind \in {"node", "null"}
    BY <2>2 DEF Suit, Takes
  <2>4. part.op = "sub" /\ args[k].kind = "node"
    BY <1>3, <2>2, <2>3 DEF Pointing
  <2>5. args[k].ref # Nil
    BY <2>4, ValueFacts DEF Suit
  <2>6. args[k].ref \in TakenBy(part, args)
    BY <2>2, <2>4, <2>5 DEF TakenBy
  <2> QED
    BY <1>1, <2>4, <2>6 DEF Taken
<1>4. Refs(args, "node") \subseteq Taken(p.parts, args, Len(p.parts))
  BY <1>3 DEF Refs, Suit, Pointing
<1>5. Refs(args, "attr") = {}
  BY <1>3 DEF Refs, Suit, Pointing
<1> QED
  BY <1>2, <1>4, <1>5

\* The element of a list, and the rest of it.
LEMMA ListTakes ==
    ASSUME NEW x, NEW p, ListRow(x, p), NEW args, Suit(p, args),
           NEW nodes, Refs(args, "node") \subseteq nodes, Nil \notin nodes
    PROVE  /\ Fits(args[1], nodes) \/ args[1].kind = "null"
           /\ args[1].kind = "null" => p.key = "STATEMENT"
           /\ args[2].ref \in Refs(args, "attr") \cup {Nil} /\ args[2].kind \in {"attr", "null"}
           /\ nodes \ {args[1].ref} = nodes \ Refs(args, "node")
           /\ \A attrs : Nil \notin attrs => attrs \ {args[2].ref} = attrs \ Refs(args, "attr")
<1> DEFINE u == args[1]
           v == args[2]
<1>1. DOMAIN args = {1, 2} /\ u \in Value /\ v \in Value
  <2>1. 1..p.arity = {1, 2}
    BY DEF ListRow
  <2> QED
    BY <2>1 DEF Suit
<1>2. u.kind \in ElementKinds(p.key) /\ v.kind \in {"attr", "null"}
  BY DEF Suit, Takes, ListRow
<1>3. u.kind \in {"text", "node", "null"} /\ (u.kind = "null" => p.key = "STATEMENT")
  BY <1>2 DEF ElementKinds
<1> HIDE DEF u, v
<1>4. Refs(args, "node") = IF u.kind = "node" THEN {u.ref} ELSE {}
  BY <1>1, <1>2 DEF Refs, u, v
<1>5. Refs(args, "attr") = IF v.kind = "attr" THEN {v.ref} ELSE {}
  BY <1>1, <1>3 DEF Refs, u, v
<1>6. /\ u.kind = "text" => u.text \in Word /\ u.ref = Nil
      /\ u.kind = "null" => u.ref = Nil
      /\ v.kind = "null" => v.ref = Nil
  BY <1>1, ValueFacts
<1>7. Fits(u, nodes) \/ u.kind = "null"
  BY <1>3, <1>4, <1>6 DEF Fits
<1>8. v.ref \in Refs(args, "attr") \cup {Nil}
  BY <1>2, <1>5, <1>6
<1>9. nodes \ {u.ref} = nodes \ Refs(args, "node")
  BY <1>3, <1>4, <1>6
<1>10. \A attrs : Nil \notin attrs => attrs \ {v.ref} = attrs \ Refs(args, "attr")
  BY <1>2, <1>5, <1>6
<1> QED
  BY <1>2, <1>3, <1>7, <1>8, <1>9, <1>10 DEF u, v

-----------------------------------------------------------------------------
(* The inductive invariant: while the parser runs, the heap is a forest whose roots *)
(* are the placeholder, the root and the values; until the last reduction the stack *)
(* has the kinds that the derivation expects.                                       *)

OnTheWay == root = 1 /\ SameKinds(values, Kinds(input)[at]) /\ Means(values, meant)

ParserInv ==
    /\ input \in Inputs /\ at \in 0..Len(input)
    /\ Parsing => Holds(heap, root, values)
    /\ Parsing /\ at < Len(input) => OnTheWay
    /\ AbortsOnEmptyElement

LEMMA ReductionFacts ==
    ASSUME ParserInv, NEW shape, Reducing(shape)
    PROVE  /\ Holds(heap, root, values) /\ OnTheWay
           /\ Len(input) \in Nat /\ at \in Nat /\ at + 1 \in 1..Len(input)
           /\ Row(Item.prod, P) /\ P.shape = shape /\ Keyed(P)
           /\ shape \in {"node", "list", "program"} => P.type \in Type
           /\ shape \in {"list", "rest"} => P.key \in Key
           /\ P.arity \in Nat /\ P.arity <= Len(values) /\ Suit(P, Args)
           /\ shape = "program" => at + 1 = Len(input)
           /\ Kinds(input)[at + 1] = Append(Lower(Kinds(input)[at], P.arity), Gives(P))
<1> DEFINE k == at + 1
           kinds == Kinds(input)[at]
<1>1. /\ input \in Inputs /\ at \in 0..Len(input) /\ Holds(heap, root, values) /\ OnTheWay
      /\ at < Len(input) /\ Item.prod # "" /\ P.shape = shape
  BY DEF ParserInv, Reducing
<1>2. Len(input) \in Nat
  <2>1. \A d \in Inputs : d \in Seq([text : Word \cup {NoText}, prod : DOMAIN Production \cup {""}])
    BY InputsAssumption DEF IsDerivation
  <2>2. \A S : \A d \in Seq(S) : Len(d) \in Nat
    BY LenProperties
  <2> QED
    BY <1>1, <2>1, <2>2
<1>3. k \in 1..Len(input) /\ k - 1 = at /\ at \in Nat /\ Item = input[k] /\ P = Production[Item.prod]
  <2>1. at \in 0..Len(input) /\ at < Len(input)
    BY <1>1
  <2>2. k \in 1..Len(input) /\ k - 1 = at /\ at \in Nat
    BY <1>2, <2>1
  <2>3. Item = input[k] /\ P = Production[Item.prod]
    BY DEF Item, P
  <2> QED
    BY <2>2, <2>3
<1>4. /\ Item.prod \in DOMAIN Production
      /\ P.arity <= Len(kinds) /\ Takes(P, Upper(kinds, P.arity))
      /\ P.shape = "program" => k = Len(input)
      /\ Kinds(input)[k] = Append(Lower(kinds, P.arity), Gives(P))
  <2> DEFINE d == input
             p == Production[d[k].prod]
             stack == Kinds(d)[k - 1]
  <2>1. d[k].prod # "" /\ d \in Inputs /\ stack = kinds /\ p = P
    BY <1>1, <1>3
  <2>2. /\ d[k].prod \in DOMAIN Production
        /\ p.arity <= Len(stack) /\ Takes(p, Upper(stack, p.arity))
        /\ p.shape = "program" => k = Len(d)
        /\ Kinds(d)[k] = Append(Lower(stack, p.arity), Gives(p))
    BY <1>3, <2>1, DerivationStep
  <2> HIDE DEF p, stack, kinds, k
  <2> QED
    BY <1>3, <2>1, <2>2
<1>5. Row(Item.prod, P)
  BY <1>3, <1>4, ProductionSound
<1>6. P.arity \in Nat
  BY <1>5 DEF Row, NodeRow, ListRow, EmptyRow, ProgramRow
<1>7. Keyed(P) /\ (shape \in {"node", "list", "program"} => P.type \in Type)
      /\ (shape \in {"list", "rest"} => P.key \in Key)
  BY <1>1, <1>3, <1>4, ProductionAssumption DEF Keyed
<1>8. P.arity <= Len(values) /\ Suit(P, Args)
  <2>1. IsStack(values) /\ SameKinds(values, kinds)
    BY <1>1 DEF Holds, OnTheWay
  <2>2. P.arity <= Len(values)
    BY <1>4, <2>1 DEF SameKinds
  <2> HIDE DEF kinds
  <2> QED
    BY <1>4, <1>6, <2>1, <2>2, UpperSuits DEF Args
<1> QED
  BY <1>1, <1>2, <1>3, <1>4, <1>5, <1>6, <1>7, <1>8

\* A reduction that returns keeps the invariant if the new value is in order.
LEMMA ReductionEnds ==
    ASSUME ParserInv, NEW shape, Reducing(shape), shape # "program",
           NEW v \in Value, v.kind = Gives(P), values' = Append(Below, v), root' = root,
           Holds(heap', root, Append(Below, v)), Stands(v, MeaningOf(P, MeantArgs))
    PROVE  ParserInv'
<1>1. /\ OnTheWay /\ Holds(heap, root, values)
      /\ Len(input) \in Nat /\ at \in Nat /\ at + 1 \in 1..Len(input)
      /\ P.arity \in Nat /\ P.arity <= Len(values)
      /\ Kinds(input)[at + 1] = Append(Lower(Kinds(input)[at], P.arity), Gives(P))
  BY ReductionFacts
<1>2. /\ input' = input /\ at' = at + 1 /\ phase' = phase /\ input \in Inputs
      /\ meant' = Append(MeantBelow, MeaningOf(P, MeantArgs))
  BY DEF Reducing, ParserInv
<1>3. values \in Seq(Value)
  BY <1>1 DEF Holds, IsStack
<1>4. SameKinds(values', Kinds(input)[at + 1])
  <2> DEFINE kinds == Kinds(input)[at]
             n == P.arity
  <2>1. n \in Nat /\ n <= Len(values) /\ SameKinds(values, kinds)
    BY <1>1 DEF OnTheWay
  <2> HIDE DEF kinds, n
  <2>2. SameKinds(Append(Lower(values, n), v), Append(Lower(kinds, n), v.kind))
    BY <1>3, <2>1, KindsMove
  <2> QED
    BY <1>1, <2>2 DEF n, kinds, Below
<1>5. Means(values', meant')
  <2> DEFINE n == P.arity
             x == MeaningOf(P, MeantArgs)
  <2>1. n \in Nat /\ n <= Len(values) /\ Means(values, meant) /\ Stands(v, x)
    BY <1>1 DEF OnTheWay
  <2> HIDE DEF n, x
  <2>2. Means(Append(Lower(values, n), v), Append(Lower(meant, n), x))
    BY <1>3, <2>1, MeansMoves
  <2> QED
    BY <1>2, <2>2 DEF n, x, Below, MeantBelow
<1>6. root = 1
  BY <1>1 DEF OnTheWay
<1>7. Holds(heap', root', values')
  OBVIOUS
<1>8. OnTheWay'
  BY <1>2, <1>4, <1>5, <1>6 DEF OnTheWay
<1>9. AbortsOnEmptyElement'
  BY <1>7 DEF Holds, Whole, AbortsOnEmptyElement
<1>10. input' \in Inputs /\ at' \in 0..Len(input')
  BY <1>1, <1>2
<1> QED
  BY <1>7, <1>8, <1>9, <1>10 DEF ParserInv

LEMMA NewValues ==
    /\ \A n \in Nat : NodeAt(n + 1) \in Value /\ NodeAt(n + 1).kind = "node"
    /\ \A a \in Nat : AttrAt(a + 1) \in Value /\ AttrAt(a + 1).kind = "attr"
    /\ \A t \in Word : Text(t) \in Value /\ Text(t).kind = "text"
    /\ NULL \in Value /\ NULL.kind = "null"
<1>1. \A n \in Nat : n + 1 \in Nat \ {Nil}
  BY DEF Nil
<1>2. /\ \A n \in Nat \ {Nil} : NodeAt(n) \in Value /\ AttrAt(n) \in Value
      /\ \A t \in Word : Text(t) \in Value
      /\ NULL \in Value
  BY DEF Value
<1>3. /\ \A n : NodeAt(n).kind = "node" /\ AttrAt(n).kind = "attr" /\ Text(n).kind = "text"
      /\ NULL.kind = "null"
  BY DEF NodeAt, AttrAt, Text, NULL
<1> QED
  BY <1>1, <1>2, <1>3

LEMMA NodeStep ==
    ASSUME ParserInv, ReduceNode
    PROVE  ParserInv'
<1> DEFINE nodes == Held(root, values)
           attrs == Refs(values, "attr")
           new   == Len(heap.node) + 1
           v     == NodeAt(new)
<1>1. /\ Reducing("node") /\ heap' = MakeNode(heap, P, Args) /\ root' = root
      /\ values' = Append(Below, v)
  BY DEF ReduceNode, NewNode
<1>2. /\ Holds(heap, root, values) /\ P.type \in Type
      /\ Row(Item.prod, P) /\ P.shape = "node" /\ Keyed(P)
      /\ P.arity \in Nat /\ P.arity <= Len(values) /\ Suit(P, Args)
  BY <1>1, ReductionFacts
<1>3. NodeRow(P)
  BY <1>2 DEF Row, ListRow, EmptyRow, ProgramRow
<1>4. Refs(Args, "node") \subseteq nodes /\ Nil \notin nodes
  <2>1. Refs(Args, "node") \subseteq Refs(values, "node")
    BY <1>2, StackSplit DEF Holds, Args
  <2> QED
    BY <1>2, <2>1, HeldFacts DEF Held
<1>5. /\ AllReady(P.parts, Args, nodes, Nil) /\ Distinct(P.parts, Args)
      /\ Taken(P.parts, Args, Len(P.parts)) = Refs(Args, "node") /\ Refs(Args, "attr") = {}
      /\ PartsOK(P)
  <2> HIDE DEF nodes
  <2>1. PartsOK(P)
    BY <1>3 DEF NodeRow
  <2>2. AllReady(P.parts, Args, nodes, Nil) /\ Distinct(P.parts, Args)
    BY <1>2, <1>4, <2>1, PartsSuit
  <2>3. Taken(P.parts, Args, Len(P.parts)) = Refs(Args, "node") /\ Refs(Args, "attr") = {}
    BY <1>2, <1>3, <1>4, NodeRowTakes
  <2> QED
    BY <2>1, <2>2, <2>3
<1>6. Whole(heap', (nodes \ Refs(Args, "node")) \cup {new}, attrs \ Refs(Args, "attr"))
  <2> DEFINE h2 == MakeNode(heap, P, Args)
  <2>1. Whole(heap, nodes, attrs) /\ h2 = MakeNode(heap, P, Args)
    BY <1>2 DEF Holds
  <2> HIDE DEF h2, nodes, attrs
  <2>2. Whole(h2, (nodes \ Taken(P.parts, Args, Len(P.parts))) \cup {Len(heap.node) + 1}, attrs)
    BY <1>2, <1>5, <2>1, PartsAreJoined
  <2>3. attrs \ Refs(Args, "attr") = attrs
    BY <1>5
  <2> QED
    BY <1>1, <1>5, <2>2, <2>3 DEF h2
<1>7. Holds(heap', root, Append(Below, v))
  <2> DEFINE h2 == heap'
             n  == P.arity
  <2>1. /\ Holds(heap, root, values) /\ n \in Nat /\ n <= Len(values)
        /\ Whole(h2, (Held(root, values) \ Refs(Upper(values, n), "node")) \cup {new},
                 Refs(values, "attr") \ Refs(Upper(values, n), "attr"))
    BY <1>2, <1>6 DEF Args
  <2> HIDE DEF h2, n
  <2>2. Holds(h2, root, Append(Lower(values, n), NodeAt(new)))
    BY <2>1, NodeIsPushed
  <2> QED
    BY <2>2 DEF h2, n, Below
<1>8. v \in Value /\ v.kind = "node" /\ Gives(P) = "node"
  <2>1. Len(heap.node) \in Nat
    BY <1>2, HeldFacts
  <2>2. Gives(P) = "node"
    BY <1>2 DEF Gives
  <2> QED
    BY <2>1, <2>2, NewValues
<1>9. Stands(v, MeaningOf(P, MeantArgs))
  BY <1>8 DEF Stands
<1> HIDE DEF v
<1> QED
  BY <1>1, <1>7, <1>8, <1>9, ReductionEnds

LEMMA UpperStands ==
    ASSUME NEW s, s \in Seq(Value), NEW m, Means(s, m), NEW n \in Nat, n <= Len(s)
    PROVE  \A i \in 1..n : Stands(Upper(s, n)[i], Upper(m, n)[i])
<1>1. PICK S : m \in Seq(S)
  BY DEF Means, IsSequence
<1>2. Len(m) = Len(s) /\ \A i \in 1..Len(s) : Stands(s[i], m[i])
  BY DEF Means
<1>3. \A i \in 1..n : Len(s) - n + i \in 1..Len(s) /\ Upper(s, n)[i] = s[Len(s) - n + i]
  BY UpperFacts
<1>4. \A i \in 1..n : Upper(m, n)[i] = m[Len(m) - n + i]
  <2>1. n <= Len(m)
    BY <1>2
  <2> QED
    BY <1>1, <2>1, UpperFacts
<1> QED
  BY <1>2, <1>3, <1>4

LEMMA ListMeans ==
    ASSUME NEW p, p.shape \in {"list", "rest"}, NEW args, IsSequence(args[2].fields)
    PROVE  LET m == MeaningOf(p, args)
           IN  IsSequence(m.fields) /\ m.fields[1] = Field(p.key, args[1])
<1> DEFINE f    == Field(p.key, args[1])
           rest == args[2].fields
           all  == <<f>> \o rest
<1>1. MeaningOf(p, args).fields = all
  BY DEF MeaningOf, TreeOf
<1>2. PICK S : rest \in Seq(S)
  BY DEF IsSequence
<1> HIDE DEF f, rest
<1>3. <<f>> \in Seq(S \cup {f}) /\ rest \in Seq(S \cup {f})
  <2>1. \A i \in 1..Len(rest) : rest[i] \in S \cup {f}
    BY <1>2, ElementOfSeq
  <2>2. Len(rest) \in Nat /\ rest = [i \in 1..Len(rest) |-> rest[i]]
    BY <1>2, LenProperties
  <2> DEFINE T == S \cup {f}
  <2>3. f \in T
    OBVIOUS
  <2> HIDE DEF T
  <2>4. <<f>> \in Seq(T)
    BY <2>3
  <2>5. rest \in Seq(T)
    BY <2>1, <2>2 DEF T
  <2> QED
    BY <2>4, <2>5 DEF T
<1>4. all \in Seq(S \cup {f}) /\ all[1] = f
  <2> DEFINE T == S \cup {f}
             e == <<f>>
  <2>1. e \in Seq(T) /\ rest \in Seq(T) /\ Len(e) = 1 /\ e[1] = f
    BY <1>3
  <2> HIDE DEF T, e
  <2>2. e \o rest \in Seq(T) /\ (e \o rest)[1] = e[1]
    BY <2>1, ConcatProperties
  <2> QED
    BY <2>1, <2>2 DEF T, e
<1>5. IsSequence(all)
  BY <1>4 DEF IsSequence
<1> QED
  BY <1>1, <1>4, <1>5 DEF f

\* What ReduceList and ReduceRest have in common.
LEMMA ListFacts ==
    ASSUME ParserInv, NEW shape \in {"list", "rest"}, Reducing(shape)
    PROVE  LET nodes == Held(root, values)
               attrs == Refs(values, "attr")
           IN  /\ Holds(heap, root, values) /\ ListRow(Item.prod, P) /\ P.key \in Key
               /\ Len(heap.node) \in Nat /\ Len(heap.attr) \in Nat
               /\ P.arity \in Nat /\ P.arity <= Len(values)
               /\ Fits(Args[1], nodes) \/ Args[1].kind = "null"
               /\ Args[1].kind = "null" => P.key = "STATEMENT"
               /\ Args[2].ref \in attrs \cup {Nil}
               /\ nodes \ {Args[1].ref} = nodes \ Refs(Args, "node")
               /\ \A more : Nil \notin more => more \ {Args[2].ref} = more \ Refs(Args, "attr")
               /\ Nil \notin attrs
<1> DEFINE nodes == Held(root, values)
           attrs == Refs(values, "attr")
<1>1. /\ Holds(heap, root, values) /\ Row(Item.prod, P) /\ P.shape = shape /\ P.key \in Key
      /\ P.arity \in Nat /\ P.arity <= Len(values) /\ Suit(P, Args)
  BY ReductionFacts
<1>2. ListRow(Item.prod, P)
  BY <1>1 DEF Row, NodeRow, EmptyRow, ProgramRow
<1>3. Len(heap.node) \in Nat /\ Len(heap.attr) \in Nat /\ Nil \notin nodes /\ Nil \notin attrs
  BY <1>1, HeldFacts
<1>4. Refs(Args, "node") \subseteq nodes /\ Refs(Args, "attr") \subseteq attrs
  <2>1. /\ Refs(Args, "node") \subseteq Refs(values, "node")
        /\ Refs(Args, "attr") \subseteq Refs(values, "attr")
    BY <1>1, StackSplit DEF Holds, Args
  <2> QED
    BY <2>1 DEF Held
<1> HIDE DEF nodes, attrs
<1>5. /\ Fits(Args[1], nodes) \/ Args[1].kind = "null"
      /\ Args[1].kind = "null" => P.key = "STATEMENT"
      /\ Args[2].ref \in Refs(Args, "attr") \cup {Nil}
      /\ nodes \ {Args[1].ref} = nodes \ Refs(Args, "node")
      /\ \A more : Nil \notin more => more \ {Args[2].ref} = more \ Refs(Args, "attr")
  BY <1>1, <1>2, <1>3, <1>4, ListTakes
<1>6. Args[2].ref \in attrs \cup {Nil}
  BY <1>4, <1>5
<1> QED
  BY <1>1, <1>2, <1>3, <1>5, <1>6 DEF nodes, attrs

\* What a list in the making stands for.
LEMMA ListMeansFields ==
    ASSUME ParserInv, NEW shape \in {"list", "rest"}, Reducing(shape)
    PROVE  LET m == MeaningOf(P, MeantArgs)
           IN  /\ IsSequence(m.fields) /\ m.fields[1] = Field(P.key, MeantArgs[1])
               /\ Args[1].kind = "null" => MeantArgs[1] = Nothing
<1>1. /\ Holds(heap, root, values) /\ OnTheWay /\ P.shape = shape /\ Row(Item.prod, P)
      /\ P.arity \in Nat /\ P.arity <= Len(values) /\ Suit(P, Args)
  BY ReductionFacts
<1>2. P.arity = 2 /\ P.shape \in {"list", "rest"}
  BY <1>1 DEF Row, NodeRow, ListRow, EmptyRow, ProgramRow
<1>3. values \in Seq(Value) /\ Means(values, meant)
  BY <1>1 DEF Holds, IsStack, OnTheWay
<1>4. Stands(Args[1], MeantArgs[1]) /\ Stands(Args[2], MeantArgs[2])
  <2> DEFINE n == P.arity
  <2>1. n \in Nat /\ n <= Len(values) /\ 1 \in 1..n /\ 2 \in 1..n
    BY <1>1, <1>2
  <2> HIDE DEF n
  <2>2. \A i \in 1..n : Stands(Upper(values, n)[i], Upper(meant, n)[i])
    BY <1>3, <2>1, UpperStands
  <2> QED
    BY <2>1, <2>2 DEF n, Args, MeantArgs
<1>5. Args[2].kind \in {"attr", "null"}
  BY <1>1, <1>2 DEF Suit, Takes
<1>6. IsSequence(MeantArgs[2].fields)
  <2>1. CASE Args[2].kind = "attr"
    BY <1>4, <2>1 DEF Stands
  <2>2. CASE Args[2].kind = "null"
    <3>1. MeantArgs[2].fields = <<>>
      BY <1>4, <2>2 DEF Stands, Nothing
    <3>2. <<>> \in Seq({})
      OBVIOUS
    <3> QED
      BY <3>1, <3>2 DEF IsSequence
  <2> QED
    BY <1>5, <2>1, <2>2
<1>7. Args[1].kind = "null" => MeantArgs[1] = Nothing
  BY <1>4 DEF Stands
<1> QED
  BY <1>2, <1>6, <1>7, ListMeans

\* An empty statement as an element: the parser aborts.
LEMMA EmptyElementStops ==
    ASSUME ParserInv, NEW shape \in {"list", "rest"}, Reducing(shape),
           Args[1].kind = "null", heap'.status = "aborted"
    PROVE  ParserInv'
<1> DEFINE m == MeaningOf(P, MeantArgs)
<1>1. /\ Holds(heap, root, values) /\ OnTheWay
      /\ Len(input) \in Nat /\ at \in Nat /\ at + 1 \in 1..Len(input)
      /\ P.arity \in Nat /\ P.arity <= Len(values)
  BY ReductionFacts
<1>2. Item.prod \in {"statement_list", "statement_list_"}
  BY ListFacts DEF ListRow
<1>3. m.fields[1].nodes = <<Nothing>>
  <2>1. m.fields[1] = Field(P.key, Nothing)
    BY ListMeansFields
  <2> HIDE DEF m
  <2> QED
    BY <2>1 DEF Field, Nothing
<1>4. /\ input' = input /\ at' = at + 1 /\ input \in Inputs
      /\ meant' = Append(MeantBelow, m)
  BY DEF Reducing, ParserInv
<1>5. Last(meant') = m
  <2>1. Means(values, meant)
    BY <1>1 DEF OnTheWay
  <2>2. PICK S : meant \in Seq(S)
    BY <2>1 DEF Means, IsSequence
  <2>3. MeantBelow \in Seq(S)
    <3>1. P.arity <= Len(meant)
      BY <1>1, <2>1 DEF Means
    <3> QED
      BY <1>1, <2>2, <3>1, LowerFacts DEF MeantBelow
  <2> HIDE DEF m
  <2>4. Len(Append(MeantBelow, m)) = Len(MeantBelow) + 1
        /\ Append(MeantBelow, m)[Len(MeantBelow) + 1] = m
    BY <2>3
  <2> QED
    BY <1>4, <2>4 DEF Last
<1>6. ~Running(heap')
  BY DEF Running
<1>7. AbortsOnEmptyElement'
  BY <1>2, <1>3, <1>4, <1>5 DEF AbortsOnEmptyElement, Item
<1>8. input' \in Inputs /\ at' \in 0..Len(input')
  BY <1>1, <1>4
<1> QED
  BY <1>6, <1>7, <1>8 DEF ParserInv, Parsing

LEMMA RestStep ==
    ASSUME ParserInv, ReduceRest
    PROVE  ParserInv'
<1> DEFINE nodes == Held(root, values)
           attrs == Refs(values, "attr")
           new   == Len(heap.attr) + 1
           v     == AttrAt(new)
<1>1. /\ Reducing("rest") /\ heap' = MakeRest(heap, P, Args) /\ root' = root
      /\ values' = Append(Below, v)
  BY DEF ReduceRest, NewAttr
<1>2. /\ Holds(heap, root, values) /\ P.key \in Key
      /\ Len(heap.attr) \in Nat /\ P.arity \in Nat /\ P.arity <= Len(values)
      /\ Fits(Args[1], nodes) \/ Args[1].kind = "null"
      /\ Args[2].ref \in attrs \cup {Nil}
      /\ nodes \ {Args[1].ref} = nodes \ Refs(Args, "node")
      /\ \A more : Nil \notin more => more \ {Args[2].ref} = more \ Refs(Args, "attr")
      /\ Nil \notin attrs
  BY <1>1, ListFacts
<1>3. CASE Args[1].kind = "null"
  <2>1. Args[1].ref = Nil
    <3>1. Suit(P, Args) /\ P.arity = 2
      BY <1>1, ReductionFacts, ListFacts DEF ListRow
    <3>2. Args[1] \in Value
      BY <3>1 DEF Suit
    <3> QED
      BY <1>3, <3>2, ValueFacts
  <2>2. heap'.status = "aborted"
    <3>1. Element(heap, P.key, Args[1]) = Abort(heap)
      BY <1>3, <2>1 DEF Element, ast_node_attr_create_node
    <3>2. Abort(heap).status = "aborted" /\ ~Running(Abort(heap))
      BY <1>2 DEF Abort, Running, Holds, Whole, Sound, Typed
    <3> QED
      BY <1>1, <3>1, <3>2 DEF MakeRest, Follow
  <2> QED
    BY <1>1, <1>3, <2>2, EmptyElementStops
<1>4. CASE Args[1].kind # "null"
  <2> DEFINE h2 == MakeRest(heap, P, Args)
             p  == P
             args == Args
  <2>1. Whole(h2, nodes \ {Args[1].ref}, (attrs \cup {new}) \ {Args[2].ref})
    <3>1. /\ Whole(heap, nodes, attrs) /\ h2 = MakeRest(heap, p, args) /\ p.key \in Key
          /\ Fits(args[1], nodes) /\ args[2].ref \in attrs \cup {Nil}
      BY <1>2, <1>4 DEF Holds
    <3> HIDE DEF h2, nodes, attrs, p, args
    <3>2. Whole(h2, nodes \ {args[1].ref}, (attrs \cup {Len(heap.attr) + 1}) \ {args[2].ref})
      BY <3>1, RestIsMade
    <3> QED
      BY <3>2 DEF args
  <2>2. Nil \notin attrs \cup {new}
    BY <1>2 DEF Nil
  <2>3. Whole(h2, nodes \ Refs(Args, "node"), (attrs \cup {new}) \ Refs(Args, "attr"))
    BY <1>2, <2>1, <2>2
  <2>4. Holds(heap', root, Append(Below, v))
    <3> DEFINE n == P.arity
    <3>1. /\ Holds(heap, root, values) /\ n \in Nat /\ n <= Len(values)
          /\ Whole(h2, Held(root, values) \ Refs(Upper(values, n), "node"),
                   (Refs(values, "attr") \cup {new}) \ Refs(Upper(values, n), "attr"))
      BY <1>2, <2>3 DEF Args
    <3>2. heap' = h2
      BY <1>1
    <3> HIDE DEF h2, n
    <3>3. Holds(h2, root, Append(Lower(values, n), AttrAt(new)))
      BY <3>1, AttrIsPushed
    <3> QED
      BY <3>2, <3>3 DEF n, Below
  <2>5. v \in Value /\ v.kind = "attr"
    BY <1>2, NewValues
  <2>6. Gives(P) = "attr"
    BY <1>1 DEF Gives, Reducing
  <2>7. Stands(v, MeaningOf(P, MeantArgs))
    <3>1. IsSequence(MeaningOf(P, MeantArgs).fields)
      BY <1>1, ListMeansFields
    <3> QED
      BY <2>5, <3>1 DEF Stands
  <2> HIDE DEF v
  <2> QED
    BY <1>1, <2>4, <2>5, <2>6, <2>7, ReductionEnds
<1> QED
  BY <1>3, <1>4

LEMMA ListStep ==
    ASSUME ParserInv, ReduceList
    PROVE  ParserInv'
<1> DEFINE nodes == Held(root, values)
           attrs == Refs(values, "attr")
           new   == Len(heap.node) + 1
           v     == NodeAt(new)
<1>1. /\ Reducing("list") /\ heap' = MakeList(heap, P, Args) /\ root' = root
      /\ values' = Append(Below, v)
  BY DEF ReduceList, NewNode
<1>2. /\ Holds(heap, root, values) /\ P.key \in Key
      /\ Len(heap.node) \in Nat /\ P.arity \in Nat /\ P.arity <= Len(values)
      /\ Fits(Args[1], nodes) \/ Args[1].kind = "null"
      /\ Args[2].ref \in attrs \cup {Nil}
      /\ nodes \ {Args[1].ref} = nodes \ Refs(Args, "node")
      /\ \A more : Nil \notin more => more \ {Args[2].ref} = more \ Refs(Args, "attr")
      /\ Nil \notin attrs
  BY <1>1, ListFacts
<1>3. P.type \in Type /\ Suit(P, Args) /\ P.arity = 2
  BY <1>1, ReductionFacts, ListFacts DEF ListRow
<1>4. CASE Args[1].kind = "null"
  <2>1. Args[1].ref = Nil
    <3>1. Args[1] \in Value
      BY <1>3 DEF Suit
    <3> QED
      BY <1>4, <3>1, ValueFacts
  <2>2. heap'.status = "aborted"
    <3> DEFINE node == ast_node_create(heap, P.type)
    <3>1. node.status = heap.status /\ Running(node)
      BY <1>2 DEF ast_node_create, Holds, Whole, Sound, Typed, Running
    <3>2. Abort(node).status = "aborted" /\ ~Running(Abort(node))
      BY <1>2 DEF ast_node_create, Abort, Running, Holds, Whole, Sound, Typed
    <3>3. MakeList(heap, P, Args) = LET elem == Element(node, P.key, Args[1])
                                    IN  IF Running(elem)
                                        THEN Follow(set_first_attr(elem, NewNode(node), NewAttr(elem)),
                                                    NewAttr(elem), Args[2])
                                        ELSE elem
      BY DEF MakeList
    <3> HIDE DEF node
    <3>4. Element(node, P.key, Args[1]) = Abort(node)
      BY <1>4, <2>1 DEF Element, ast_node_attr_create_node
    <3> QED
      BY <1>1, <3>2, <3>3, <3>4
  <2> QED
    BY <1>1, <1>4, <2>2, EmptyElementStops
<1>5. CASE Args[1].kind # "null"
  <2> DEFINE h2 == MakeList(heap, P, Args)
             p  == P
             args == Args
  <2>1. Whole(h2, (nodes \ {Args[1].ref}) \cup {new}, attrs \ {Args[2].ref})
    <3>1. /\ Whole(heap, nodes, attrs) /\ h2 = MakeList(heap, p, args)
          /\ p.key \in Key /\ p.type \in Type
          /\ Fits(args[1], nodes) /\ args[2].ref \in attrs \cup {Nil}
      BY <1>2, <1>3, <1>5 DEF Holds
    <3> HIDE DEF h2, nodes, attrs, p, args
    <3>2. Whole(h2, (nodes \ {args[1].ref}) \cup {Len(heap.node) + 1}, attrs \ {args[2].ref})
      BY <3>1, ListIsMade
    <3> QED
      BY <3>2 DEF args
  <2>2. Whole(h2, (nodes \ Refs(Args, "node")) \cup {new}, attrs \ Refs(Args, "attr"))
    BY <1>2, <2>1
  <2>3. Holds(heap', root, Append(Below, v))
    <3> DEFINE n == P.arity
    <3>1. /\ Holds(heap, root, values) /\ n \in Nat /\ n <= Len(values)
          /\ Whole(h2, (Held(root, values) \ Refs(Upper(values, n), "node")) \cup {new},
                   Refs(values, "attr") \ Refs(Upper(values, n), "attr"))
      BY <1>2, <2>2 DEF Args
    <3>2. heap' = h2
      BY <1>1
    <3> HIDE DEF h2, n
    <3>3. Holds(h2, root, Append(Lower(values, n), NodeAt(new)))
      BY <3>1, NodeIsPushed
    <3> QED
      BY <3>2, <3>3 DEF n, Below
  <2>4. v \in Value /\ v.kind = "node"
    BY <1>2, NewValues
  <2>5. Gives(P) = "node"
    BY <1>1 DEF Gives, Reducing
  <2>6. Stands(v, MeaningOf(P, MeantArgs))
    BY <2>4 DEF Stands
  <2> HIDE DEF v
  <2> QED
    BY <1>1, <2>3, <2>4, <2>5, <2>6, ReductionEnds
<1> QED
  BY <1>4, <1>5

LEMMA EmptyStep ==
    ASSUME ParserInv, ReduceEmpty
    PROVE  ParserInv'
<1>1. Reducing("empty") /\ heap' = heap /\ root' = root /\ values' = Append(values, NULL)
  BY DEF ReduceEmpty
<1>2. Holds(heap, root, values) /\ Row(Item.prod, P) /\ P.shape = "empty"
  BY <1>1, ReductionFacts
<1>3. P.arity = 0
  BY <1>2 DEF Row, NodeRow, ListRow, EmptyRow, ProgramRow
<1>4. Below = values
  BY <1>2, <1>3, LowerNone DEF Below, Holds, IsStack
<1>5. NULL \in Value /\ NULL.kind = "null" /\ Gives(P) = "null"
  BY <1>2, NewValues DEF Gives
<1>6. Holds(heap', root, Append(Below, NULL))
  BY <1>1, <1>2, <1>4, <1>5, PlainIsPushed DEF Pointing
<1>7. Stands(NULL, MeaningOf(P, MeantArgs))
  <2>1. MeaningOf(P, MeantArgs) = Nothing
    BY <1>2 DEF MeaningOf
  <2> QED
    BY <1>5, <2>1 DEF Stands
<1> QED
  BY <1>1, <1>4, <1>5, <1>6, <1>7, ReductionEnds

LEMMA ShiftStep ==
    ASSUME ParserInv, Shift
    PROVE  ParserInv'
<1> DEFINE v == Text(Item.text)
           x == Leaf(Item.text)
           kinds == Kinds(input)[at]
<1>1. /\ input \in Inputs /\ at \in 0..Len(input) /\ at < Len(input)
      /\ Holds(heap, root, values) /\ OnTheWay /\ Item.prod = ""
      /\ input' = input /\ at' = at + 1 /\ heap' = heap /\ root' = root
      /\ values' = Append(values, v) /\ meant' = Append(meant, x)
  BY DEF Shift, ParserInv
<1>2. Len(input) \in Nat
  <2>1. \A d \in Inputs : d \in Seq([text : Word \cup {NoText}, prod : DOMAIN Production \cup {""}])
    BY InputsAssumption DEF IsDerivation
  <2>2. \A S : \A d \in Seq(S) : Len(d) \in Nat
    BY LenProperties
  <2> QED
    BY <1>1, <2>1, <2>2
<1>3. at + 1 \in 1..Len(input) /\ (at + 1) - 1 = at /\ at + 1 \in 0..Len(input)
  <2>1. at \in 0..Len(input) /\ at < Len(input)
    BY <1>1
  <2> QED
    BY <1>2, <2>1
<1>4. Item.text \in Word /\ Kinds(input)[at + 1] = Append(kinds, "text")
  <2> DEFINE d == input
             k == at + 1
  <2>1. d \in Inputs /\ k \in 1..Len(d) /\ k - 1 = at /\ Item = d[k]
    BY <1>1, <1>3 DEF Item
  <2> HIDE DEF d, k
  <2>2. d[k].text \in Word /\ Kinds(d)[k] = Append(Kinds(d)[k - 1], "text")
    BY <1>1, <2>1, DerivationStep
  <2> QED
    BY <2>1, <2>2 DEF d, k
<1>5. v \in Value /\ v.kind = "text" /\ Stands(v, x)
  <2>1. v \in Value /\ v.kind = "text"
    BY <1>4, NewValues
  <2> QED
    BY <2>1 DEF Stands
<1> HIDE DEF v, x, kinds
<1>6. values \in Seq(Value) /\ SameKinds(values, kinds) /\ Means(values, meant) /\ root = 1
  BY <1>1 DEF Holds, IsStack, OnTheWay, kinds
<1>7. Lower(values, 0) = values /\ Lower(kinds, 0) = kinds /\ Lower(meant, 0) = meant
      /\ 0 <= Len(values) /\ 0 \in Nat
  <2>1. kinds \in Seq(Kind)
    BY <1>6 DEF SameKinds
  <2>2. PICK S : meant \in Seq(S)
    BY <1>6 DEF Means, IsSequence
  <2> QED
    BY <1>6, <2>1, <2>2, LowerNone
<1>8. SameKinds(values', Kinds(input)[at + 1])
  <2>1. SameKinds(Append(Lower(values, 0), v), Append(Lower(kinds, 0), v.kind))
    BY <1>5, <1>6, <1>7, KindsMove
  <2> QED
    BY <1>1, <1>4, <1>5, <1>7, <2>1
<1>9. Means(values', meant')
  <2>1. Means(Append(Lower(values, 0), v), Append(Lower(meant, 0), x))
    BY <1>5, <1>6, <1>7, MeansMoves
  <2> QED
    BY <1>1, <1>7, <2>1
<1>10. Holds(heap', root', values')
  BY <1>1, <1>5, PlainIsPushed DEF Pointing
<1>11. OnTheWay'
  BY <1>1, <1>6, <1>8, <1>9 DEF OnTheWay
<1>12. AbortsOnEmptyElement'
  BY <1>10 DEF Holds, Whole, AbortsOnEmptyElement
<1> QED
  BY <1>1, <1>3, <1>10, <1>11, <1>12 DEF ParserInv

\* The program takes its head as a part and joins the body; there is no list among the
\* values.
LEMMA ProgramTakes ==
    ASSUME NEW p, ProgramRow(p), NEW args, Suit(p, args)
    PROVE  LET head == Taken(p.parts, args, Len(p.parts))
           IN  /\ PartsOK(p)
               /\ Refs(args, "node") = head \cup {args[2].ref} /\ args[2].ref \notin head
               /\ Refs(args, "attr") = {}
<1> DEFINE head == Taken(p.parts, args, Len(p.parts))
           u == args[1]
           v == args[2]
<1>1. /\ p.arity = 2 /\ p.shape = "program" /\ DOMAIN p.parts = 1..1 /\ Len(p.parts) = 1
      /\ p.parts[1].op = "sub" /\ p.parts[1].position = 1
  BY DEF ProgramRow, Sub
<1>2. PartsOK(p)
  BY <1>1 DEF PartsOK, Placed, Unlike
<1>3. DOMAIN args = {1, 2} /\ u \in Value /\ v \in Value
  <2>1. 1..p.arity = {1, 2}
    BY <1>1
  <2> QED
    BY <2>1 DEF Suit
<1>4. u.kind \in {"node", "null"} /\ v.kind = "node"
  BY <1>1 DEF Suit, Takes
<1>5. head = {u.ref} \ {Nil}
  <2>1. 1..1 = {1}
    OBVIOUS
  <2>2. head = TakenBy(p.parts[1], args)
    BY <1>1, <2>1 DEF Taken
  <2> QED
    BY <1>1, <2>2 DEF TakenBy
<1>6. u.kind = "null" => u.ref = Nil
  BY <1>3, ValueFacts
<1>7. v.ref # Nil /\ (u.kind = "node" => u.ref # Nil)
  BY <1>3, <1>4, ValueFacts
<1>8. u.kind = "node" => u.ref # v.ref
  <2> SUFFICES ASSUME u.kind = "node", u.ref = v.ref PROVE FALSE
    OBVIOUS
  <2>1. 1 \in DOMAIN args /\ 2 \in DOMAIN args /\ OneEach(args)
    BY <1>3 DEF Suit
  <2>2. Pointing(args[1].kind) /\ args[1].kind = args[2].kind /\ args[1].ref = args[2].ref
    BY <1>4 DEF Pointing
  <2>3. 1 = 2
    BY <2>1, <2>2 DEF OneEach
  <2> QED
    BY <2>3
<1> HIDE DEF u, v, head
<1>9. Refs(args, "node") = head \cup {v.ref}
  <2>1. CASE u.kind = "node"
    <3>1. head = {u.ref}
      BY <1>5, <1>7, <2>1
    <3> QED
      BY <1>3, <1>4, <2>1, <3>1 DEF Refs, u, v
  <2>2. CASE u.kind = "null"
    <3>1. head = {}
      BY <1>5, <1>6, <2>2
    <3> QED
      BY <1>3, <1>4, <2>2, <3>1 DEF Refs, u, v
  <2> QED
    BY <1>4, <2>1, <2>2
<1>10. v.ref \notin head
  BY <1>4, <1>5, <1>6, <1>7, <1>8
<1>11. Refs(args, "attr") = {}
  BY <1>3, <1>4 DEF Refs, u, v
<1> QED
  BY <1>2, <1>9, <1>10, <1>11 DEF head, v

LEMMA ProgramStep ==
    ASSUME ParserInv, ReduceProgram
    PROVE  ParserInv'
<1> DEFINE nodes == Held(root, values)
           attrs == Refs(values, "attr")
           new   == Len(heap.node) + 1
           made  == MakeNode(heap, P, Args)
           m     == Args[2].ref
           head  == Taken(P.parts, Args, Len(P.parts))
           low   == Refs(Below, "node")
<1>1. /\ Reducing("program") /\ heap' = ast_node_extend(made, NewNode(made), m)
      /\ root' = NewNode(made) /\ values' = Below
  BY DEF ReduceProgram
<1>2. /\ Holds(heap, root, values) /\ root = 1 /\ P.type \in Type
      /\ Row(Item.prod, P) /\ P.shape = "program" /\ Keyed(P)
      /\ P.arity \in Nat /\ P.arity <= Len(values) /\ Suit(P, Args)
      /\ Len(input) \in Nat /\ at + 1 \in 1..Len(input) /\ at + 1 = Len(input)
  BY <1>1, ReductionFacts DEF OnTheWay
<1>3. /\ PartsOK(P) /\ Refs(Args, "node") = head \cup {m} /\ m \notin head
      /\ Refs(Args, "attr") = {}
  <2>1. ProgramRow(P)
    BY <1>2 DEF Row, NodeRow, ListRow, EmptyRow
  <2> QED
    BY <1>2, <2>1, ProgramTakes
<1>4. /\ IsStack(Below)
      /\ Refs(values, "node") = low \cup Refs(Args, "node") /\ low \cap Refs(Args, "node") = {}
      /\ Refs(values, "attr") = Refs(Below, "attr") \cup Refs(Args, "attr")
  BY <1>2, StackSplit DEF Holds, Args, Below
<1>5. 1 \notin Refs(values, "node")
  BY <1>2 DEF Holds
<1>6. /\ Whole(made, (nodes \ head) \cup {new}, attrs) /\ NewNode(made) = new
      /\ nodes \subseteq 1..Len(heap.node) /\ Len(heap.node) \in Nat
  <2> DEFINE h2 == MakeNode(heap, P, Args)
  <2>1. Whole(heap, nodes, attrs) /\ h2 = MakeNode(heap, P, Args)
    BY <1>2 DEF Holds
  <2>2. Refs(Args, "node") \subseteq nodes /\ Nil \notin nodes
    BY <1>2, <1>4, HeldFacts DEF Held
  <2> HIDE DEF h2, nodes, attrs
  <2>3. AllReady(P.parts, Args, nodes, Nil) /\ Distinct(P.parts, Args)
    BY <1>2, <1>3, <2>2, PartsSuit
  <2>4. /\ Whole(h2, (nodes \ Taken(P.parts, Args, Len(P.parts))) \cup {Len(heap.node) + 1}, attrs)
        /\ Len(h2.node) = Len(heap.node) + 1
        /\ nodes \subseteq 1..Len(heap.node) /\ Len(heap.node) \in Nat
    <3>1. PartsOK(P) /\ P.type \in Type
      BY <1>2, <1>3
    <3> QED
      BY <2>1, <2>3, <3>1, PartsAreJoined
  <2> QED
    BY <2>4 DEF h2, NewNode
<1>7. new \notin nodes
  BY <1>6
<1>8. m \in nodes /\ m # new /\ m \in (nodes \ head) \cup {new} /\ new \in (nodes \ head) \cup {new}
  BY <1>3, <1>4, <1>7 DEF Held
<1>9. Whole(heap', ((nodes \ head) \cup {new}) \ {m}, attrs)
  <2> DEFINE all == (nodes \ head) \cup {new}
             h2  == ast_node_extend(made, new, m)
  <2>1. Whole(made, all, attrs) /\ new \in all /\ m \in all /\ m # new
    BY <1>6, <1>8
  <2>2. h2 = ast_node_extend(made, new, m) /\ heap' = h2
    BY <1>1, <1>6
  <2> HIDE DEF all, h2, made, new, m
  <2>3. Whole(h2, all \ {m}, attrs)
    BY <2>1, <2>2, BodyIsJoined
  <2> QED
    BY <2>2, <2>3 DEF all
<1> HIDE DEF made, m, head, low, new
<1>10. ((nodes \ head) \cup {new}) \ {m} = Held(new, Below)
  BY <1>2, <1>3, <1>4, <1>5, <1>7, <1>8 DEF Held, low
<1>11. 1 \notin Refs(Below, "node") /\ new \notin Refs(Below, "node")
  BY <1>4, <1>5, <1>7 DEF Held, low
<1>12. Whole(heap', Held(new, Below), Refs(Below, "attr"))
  BY <1>3, <1>4, <1>9, <1>10
<1>13. Holds(heap', root', values')
  BY <1>1, <1>4, <1>6, <1>11, <1>12 DEF Holds
<1>14. AbortsOnEmptyElement'
  BY <1>13 DEF Holds, Whole, AbortsOnEmptyElement
<1>15. input' = input /\ at' = Len(input) /\ input \in Inputs
  BY <1>1, <1>2 DEF Reducing, ParserInv
<1>16. at' \in 0..Len(input') /\ ~(at' < Len(input'))
  BY <1>2, <1>15
<1> QED
  BY <1>13, <1>14, <1>15, <1>16 DEF ParserInv

LEMMA ParserStep == ParserInv /\ [ParserNext]_pvars => ParserInv'
<1> SUFFICES ASSUME ParserInv, [ParserNext]_pvars PROVE ParserInv'
  OBVIOUS
<1>1. CASE UNCHANGED pvars
  BY <1>1 DEF pvars, ParserInv, Parsing, OnTheWay, AbortsOnEmptyElement
<1>2. CASE SyntaxError \/ Accept
  <2>1. /\ input' = input /\ at' = at /\ heap' = heap /\ ~Parsing' /\ Running(heap)
    BY <1>2 DEF SyntaxError, Accept, Parsing
  <2>2. AbortsOnEmptyElement'
    BY <2>1 DEF AbortsOnEmptyElement
  <2> QED
    BY <2>1, <2>2 DEF ParserInv
<1> QED
  BY <1>1, <1>2, ShiftStep, NodeStep, ListStep, RestStep, EmptyStep, ProgramStep DEF ParserNext

LEMMA ParserStart == ParserInit => ParserInv
<1> SUFFICES ASSUME ParserInit PROVE ParserInv
  OBVIOUS
<1>1. /\ heap = ast_node_create(EmptyHeap, "PROGRAM") /\ root = 1 /\ input \in Inputs
      /\ at = 0 /\ values = <<>> /\ meant = <<>>
  BY DEF ParserInit
<1>2. Whole(EmptyHeap, {}, {}) /\ Len(EmptyHeap.node) = 0
  <2>1. /\ EmptyHeap.node = <<>> /\ EmptyHeap.attr = <<>> /\ Running(EmptyHeap)
    BY DEF EmptyHeap, Running
  <2>2. Len(EmptyHeap.node) = 0 /\ Len(EmptyHeap.attr) = 0
    BY <2>1
  <2> QED
    BY <2>1, <2>2, EmptyIsSound DEF Whole
<1>3. Whole(heap, {1}, {})
  <2> DEFINE made == ast_node_create(EmptyHeap, "PROGRAM")
  <2>1. "PROGRAM" \in Type
    BY ProductionAssumption
  <2>2. made = ast_node_create(EmptyHeap, "PROGRAM")
    OBVIOUS
  <2> HIDE DEF made
  <2>3. Whole(made, {} \cup {Len(EmptyHeap.node) + 1}, {})
    BY <1>2, <2>1, <2>2, NodeIsMade
  <2>4. {} \cup {Len(EmptyHeap.node) + 1} = {1}
    BY <1>2
  <2> QED
    BY <1>1, <2>2, <2>3, <2>4
<1>4. /\ values \in Seq(Value) /\ DOMAIN values = {} /\ Len(values) = 0
  BY <1>1
<1>5. /\ IsStack(values) /\ Refs(values, "node") = {} /\ Refs(values, "attr") = {}
      /\ Held(root, values) = {1}
  BY <1>1, <1>4 DEF IsStack, OneEach, Refs, Held
<1>6. Holds(heap, root, values)
  BY <1>3, <1>5 DEF Holds
<1>7. Len(input) \in Nat
  <2>1. \A d \in Inputs : d \in Seq([text : Word \cup {NoText}, prod : DOMAIN Production \cup {""}])
    BY InputsAssumption DEF IsDerivation
  <2>2. \A S : \A d \in Seq(S) : Len(d) \in Nat
    BY LenProperties
  <2> QED
    BY <1>1, <2>1, <2>2
<1>8. at < Len(input) => OnTheWay
  <2> SUFFICES ASSUME at < Len(input) PROVE OnTheWay
    OBVIOUS
  <2>1. 1 \in 1..Len(input)
    BY <1>1, <1>7
  <2>2. Kinds(input)[0] = <<>>
    BY <1>1, <2>1, DerivationStep
  <2>3. SameKinds(values, <<>>)
    BY <1>4 DEF SameKinds
  <2>4. Means(values, <<>>)
    <3>1. <<>> \in Seq({})
      OBVIOUS
    <3> QED
      BY <1>4, <3>1 DEF Means, IsSequence
  <2> QED
    BY <1>1, <2>2, <2>3, <2>4 DEF OnTheWay
<1>9. AbortsOnEmptyElement
  BY <1>3 DEF Whole, AbortsOnEmptyElement
<1>10. at \in 0..Len(input)
  BY <1>1, <1>7
<1> QED
  BY <1>1, <1>6, <1>8, <1>9, <1>10 DEF ParserInv

\* The invariant holds for every derivation: whatever production is reduced, the heap of
\* the semantic actions stays a forest whose roots are the program and the values.
THEOREM ParserKeepsHeap == ParserSpec => []ParserInv
BY ParserStart, ParserStep, PTL DEF ParserSpec

-----------------------------------------------------------------------------
(* Properties *)

\* An object that the stack holds has one place on it.
LEMMA OnePlace ==
    ASSUME NEW s, IsStack(s), NEW n
    PROVE  /\ Cardinality({i \in DOMAIN s : s[i] = NodeAt(n)})
              = IF n \in Refs(s, "node") THEN 1 ELSE 0
           /\ Cardinality({i \in DOMAIN s : s[i] = AttrAt(n)})
              = IF n \in Refs(s, "attr") THEN 1 ELSE 0
<1> DEFINE N == {i \in DOMAIN s : s[i] = NodeAt(n)}
           A == {i \in DOMAIN s : s[i] = AttrAt(n)}
<1>1. DOMAIN s = 1..Len(s) /\ \A i \in 1..Len(s) : s[i] \in Value
  BY LenProperties, ElementOfSeq DEF IsStack
<1>2. /\ NodeAt(n).kind = "node" /\ NodeAt(n).ref = n
      /\ AttrAt(n).kind = "attr" /\ AttrAt(n).ref = n
  BY DEF NodeAt, AttrAt
<1>3. \A x, y \in N : x = y
  BY <1>2 DEF IsStack, OneEach, Pointing
<1>4. \A x, y \in A : x = y
  BY <1>2 DEF IsStack, OneEach, Pointing
<1>5. N # {} <=> n \in Refs(s, "node")
  <2>1. \A i \in DOMAIN s : s[i].kind = "node" => s[i] = NodeAt(s[i].ref)
    BY <1>1, ValueFacts
  <2> QED
    BY <1>2, <2>1 DEF Refs
<1>6. A # {} <=> n \in Refs(s, "attr")
  <2>1. \A i \in DOMAIN s : s[i].kind = "attr" => s[i] = AttrAt(s[i].ref)
    BY <1>1, ValueFacts
  <2> QED
    BY <1>2, <2>1 DEF Refs
<1> HIDE DEF N, A
<1>7. Cardinality(N) = IF n \in Refs(s, "node") THEN 1 ELSE 0
  BY <1>3, <1>5, AtMostOne
<1>8. Cardinality(A) = IF n \in Refs(s, "attr") THEN 1 ELSE 0
  BY <1>4, <1>6, AtMostOne
<1> QED
  BY <1>7, <1>8 DEF N, A

\* EveryObjectOnce of one object.
OneNode(h, r, s, n) ==
    Cardinality({a \in DOMAIN h.attr : h.attr[a].node = n})
    + Cardinality({m \in DOMAIN h.node : h.node[m].next = n})
    + Cardinality({i \in DOMAIN s : s[i] = NodeAt(n)})
    + (IF r = n THEN 1 ELSE 0) = (IF h.node[n].live THEN 1 ELSE 0)

OneAttr(h, s, a) ==
    Cardinality({b \in DOMAIN h.attr : h.attr[b].next = a})
    + Cardinality({n \in DOMAIN h.node : h.node[n].first = a})
    + Cardinality({i \in DOMAIN s : s[i] = AttrAt(a)}) = 1

LEMMA NodeOnce ==
    ASSUME NEW h, NEW r, NEW s, Holds(h, r, s), NEW n \in 2..Len(h.node)
    PROVE  OneNode(h, r, s, n)
<1> DEFINE A == {a \in DOMAIN h.attr : h.attr[a].node = n}
           B == {m \in DOMAIN h.node : h.node[m].next = n}
           C == {i \in DOMAIN s : s[i] = NodeAt(n)}
           D == {x \in Held(r, s) : x = n}
           L == Len(h.node)
           M == Len(h.attr)
<1>1. /\ Lists(L, M, Nexts(h.node), Subs(h.attr), Held(r, s), Live(h.node))
      /\ IsStack(s) /\ r \notin Refs(s, "node")
      /\ DOMAIN h.node = 1..L /\ DOMAIN h.attr = 1..M /\ L \in Nat
  BY LenProperties DEF Holds, Whole, Sound, NodeLists, Typed
<1>2. n \in 1..L /\ n # 1
  BY <1>1
<1>3. /\ {x \in 1..L : Nexts(h.node)[x] = n} = B
      /\ {y \in 1..M : Subs(h.attr)[y] = n} = A
      /\ n \in Live(h.node) <=> h.node[n].live
  BY <1>1, <1>2 DEF Nexts, Subs, Live
<1>4. Cardinality({x \in 1..L : Nexts(h.node)[x] = n}) + Cardinality({y \in 1..M : Subs(h.attr)[y] = n})
      + Cardinality(D) = IF n \in Live(h.node) THEN 1 ELSE 0
  BY <1>1, <1>2, OwnersCounted
<1>5. Cardinality(C) = IF n \in Refs(s, "node") THEN 1 ELSE 0
  BY <1>1, OnePlace
<1>6. Cardinality(D) = IF n \in Held(r, s) THEN 1 ELSE 0
  <2>1. \A x, y \in D : x = y
    OBVIOUS
  <2>2. D = {} <=> n \notin Held(r, s)
    OBVIOUS
  <2> HIDE DEF D
  <2> QED
    BY <2>1, <2>2, AtMostOne
<1>7. n \in Held(r, s) <=> r = n \/ n \in Refs(s, "node")
  BY <1>2 DEF Held
<1>8. Cardinality(A) \in Nat /\ Cardinality(B) \in Nat
  <2>1. IsFiniteSet(1..L) /\ IsFiniteSet(1..M)
    <3>1. L \in Int /\ M \in Int /\ 1 \in Int
      BY <1>1 DEF Lists
    <3> HIDE DEF L, M
    <3> QED
      BY <3>1, FS_Interval
  <2>2. A \subseteq 1..M /\ B \subseteq 1..L
    BY <1>1
  <2> QED
    BY <2>1, <2>2, FS_Subset, FS_CardinalityType
<1> HIDE DEF A, B, C, D
<1>9. Cardinality(A) + Cardinality(B) + Cardinality(C) + (IF r = n THEN 1 ELSE 0)
      = (IF h.node[n].live THEN 1 ELSE 0)
  <2>1. Cardinality(B) + Cardinality(A) + Cardinality(D) = IF h.node[n].live THEN 1 ELSE 0
    BY <1>3, <1>4
  <2>2. /\ Cardinality(D) = Cardinality(C) + (IF r = n THEN 1 ELSE 0)
        /\ Cardinality(C) \in Nat
    BY <1>1, <1>5, <1>6, <1>7
  <2> DEFINE a == Cardinality(A)
             b == Cardinality(B)
             c == Cardinality(C)
             d == Cardinality(D)
             e == IF r = n THEN 1 ELSE 0
  <2>3. b + a + d = (IF h.node[n].live THEN 1 ELSE 0) /\ d = c + e
        /\ a \in Nat /\ b \in Nat /\ c \in Nat /\ e \in Nat
    BY <1>8, <2>1, <2>2
  <2> HIDE DEF a, b, c, d, e
  <2>4. a + b + c + e = b + a + d
    BY <2>3
  <2> QED
    BY <2>3, <2>4 DEF a, b, c, e
<1> QED
  BY <1>9 DEF A, B, C, OneNode

LEMMA AttrOnce ==
    ASSUME NEW h, NEW r, NEW s, Holds(h, r, s), NEW a \in DOMAIN h.attr
    PROVE  OneAttr(h, s, a)
<1> DEFINE A == {b \in DOMAIN h.attr : h.attr[b].next = a}
           B == {n \in DOMAIN h.node : h.node[n].first = a}
           C == {i \in DOMAIN s : s[i] = AttrAt(a)}
           D == {x \in Refs(s, "attr") : x = a}
           L == Len(h.attr)
           M == Len(h.node)
<1>1. /\ Lists(L, M, Nexts(h.attr), Firsts(h.node), Refs(s, "attr"), Live(h.attr))
      /\ IsStack(s) /\ DOMAIN h.node = 1..M /\ DOMAIN h.attr = 1..L
      /\ \A b \in 1..L : h.attr[b].live
  BY LenProperties DEF Holds, Whole, Sound, AttrLists, Typed
<1>2. a \in 1..L /\ a \in Live(h.attr)
  BY <1>1 DEF Live
<1>3. /\ {x \in 1..L : Nexts(h.attr)[x] = a} = A
      /\ {y \in 1..M : Firsts(h.node)[y] = a} = B
  BY <1>1 DEF Nexts, Firsts
<1>4. Cardinality({x \in 1..L : Nexts(h.attr)[x] = a}) + Cardinality({y \in 1..M : Firsts(h.node)[y] = a})
      + Cardinality(D) = IF a \in Live(h.attr) THEN 1 ELSE 0
  BY <1>1, <1>2, OwnersCounted
<1>5. Cardinality(C) = IF a \in Refs(s, "attr") THEN 1 ELSE 0
  BY <1>1, OnePlace
<1>6. Cardinality(D) = IF a \in Refs(s, "attr") THEN 1 ELSE 0
  <2>1. \A x, y \in D : x = y
    OBVIOUS
  <2>2. D = {} <=> a \notin Refs(s, "attr")
    OBVIOUS
  <2> HIDE DEF D
  <2> QED
    BY <2>1, <2>2, AtMostOne
<1> HIDE DEF A, B, C, D
<1>7. Cardinality(A) + Cardinality(B) + Cardinality(C) = 1
  BY <1>2, <1>3, <1>4, <1>5, <1>6
<1> QED
  BY <1>7 DEF A, B, C, OneAttr

\* Whatever is parsed, every node but the placeholder is in one place and every attribute
\* in one list or on the stack: no semantic action of pascal.y shares an object or loses
\* one, and ast_node_extend frees only the emptied body.
THEOREM ObjectsOnce == ParserSpec => []EveryObjectOnce
<1>1. ASSUME ParserInv PROVE EveryObjectOnce
  <2> SUFFICES ASSUME Parsing PROVE EveryObjectOnce
    BY DEF EveryObjectOnce
  <2>1. Holds(heap, root, values)
    BY <1>1 DEF ParserInv
  <2>2. \A n \in 2..Len(heap.node) : OneNode(heap, root, values, n)
    BY <2>1, NodeOnce
  <2>3. \A a \in DOMAIN heap.attr : OneAttr(heap, values, a)
    BY <2>1, AttrOnce
  <2> QED
    BY <2>2, <2>3, Zenon DEF EveryObjectOnce, OneNode, OneAttr
<1> QED
  BY <1>1, ParserKeepsHeap, PTL

\* Of all calls that the semantic actions make, only ast_node_attr_create_node for an
\* empty statement in a statement list can fail.
THEOREM AbortsOnlyThere == ParserSpec => []AbortsOnEmptyElement
<1>1. ParserInv => AbortsOnEmptyElement
  BY DEF ParserInv
<1> QED
  BY <1>1, ParserKeepsHeap, PTL
=============================================================================
