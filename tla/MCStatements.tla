--------------------------- MODULE MCStatements ---------------------------
(***************************************************************************)
(* Inputs for RoundTrip: expressions with up to three operators of each     *)
(* priority, signs, names of each form alone, in an index and with a        *)
(* member, calls with each kind of argument, and nested statements with     *)
(* empty parts.                                                             *)
(***************************************************************************)
EXTENDS RoundTrip

D == INSTANCE Derivations

\* x, y and i are global; l is local, p a var parameter and f the function that is
\* printed, which an index does not see; u is not declared.
MCForm ==
    [here  |-> [x |-> "plain", y |-> "plain", i |-> "plain", t |-> "plain", r |-> "plain",
                l |-> "plain", p |-> "deref", f |-> "result", u |-> "unknown", long |-> "plain"],
     index |-> [x |-> "plain", y |-> "plain", i |-> "plain", t |-> "plain", r |-> "plain",
                l |-> "unknown", p |-> "unknown", f |-> "unknown", u |-> "unknown",
                long |-> "plain"]]

MCByRef    == [q |-> {2}, g |-> {1}, write |-> {}]
MCLongName == {"long"}

X == D!Var(D!Plain("x"))
Terms1 == {D!Mul(D!Term(X), op, X) : op \in {"MULOP_AND", "MULOP_MUL"}}
Terms2 == {D!Mul(s, op, X) : s \in Terms1, op \in {"MULOP_AND", "MULOP_MUL"}}
Terms  == {D!Term(X)} \cup Terms1
Simples1 == {D!Add(D!Simple(s), op, t) : s, t \in Terms, op \in {"ADDOP_OR", "ADDOP_PLUS"}}
Simples2 == {D!Add(s, op, t) : s \in Simples1, t \in Terms, op \in {"ADDOP_OR", "ADDOP_PLUS"}}
SmallSimples ==
    {D!Simple(s) : s \in Terms}
    \cup {D!Add(D!Simple(D!Term(X)), op, D!Term(X)) : op \in {"ADDOP_OR", "ADDOP_PLUS"}}

Operations ==
    {D!Exp(D!Simple(s)) : s \in Terms \cup Terms2}
    \cup {D!Exp(s) : s \in Simples1 \cup Simples2}
    \cup {D!Rel(s, "RELOP_CEQ", t) : s, t \in SmallSimples}
    \cup {D!Rel(D!Simple(D!Term(X)), op,
                D!Add(D!Simple(D!Mul(D!Term(X), op3, X)), "ADDOP_MINUS", D!Term(D!Num("1")))) :
             op \in Comparison, op3 \in {"MULOP_DIV", "MULOP_MOD"}}

Factors ==
    {X, D!Paren(D!X("x")), D!Num("1"), D!Call("h", <<D!X("x"), D!X("y")>>), D!Call("g", <<D!X("x")>>),
     D!Paren(D!Rel(D!Simple(D!Term(X)), "RELOP_CLT", D!Simple(D!Term(X)))),
     D!Paren(D!Exp(D!Add(D!Simple(D!Term(X)), "ADDOP_OR", D!Term(X))))}
Signed  == {D!Not(f) : f \in Factors} \cup {D!Minus(f) : f \in Factors}
Signed2 == {D!Not(f) : f \in Signed} \cup {D!Minus(f) : f \in Signed}
                \cup {D!Minus(D!Paren(D!FactorExp(f))) : f \in Signed}
Unaries == Factors \cup Signed \cup Signed2

Names == {"x", "l", "p", "f", "u"}
Variables ==
    {D!Plain(v) : v \in Names} \cup {D!Member(v, "m") : v \in {"r", "l", "u"}}
    \cup {D!Index("t", <<D!X(v)>>) : v \in Names} \cup {D!Index("u", <<D!X(v)>>) : v \in Names}
    \cup {D!Index("t", <<D!X("x"), D!FactorExp(D!Var(D!Member(v, "m")))>>) : v \in {"r", "l", "u"}}
    \cup {D!Index("t", <<D!FactorExp(D!Var(D!Index("t", <<D!X(v)>>)))>>) : v \in Names}

Arguments ==
    {D!X("x"), D!X("p"), D!FactorExp(D!Var(D!Index("t", <<D!X("x"), D!X("y")>>))),
     D!Exp(D!Add(D!Simple(D!Term(X)), "ADDOP_PLUS", D!Term(X))),
     D!FactorExp(D!Paren(D!Exp(D!Add(D!Simple(D!Term(X)), "ADDOP_PLUS", D!Term(X)))))}

Assignments ==
    {D!Assign(D!Plain("x"), e) : e \in Operations \cup {D!FactorExp(f) : f \in Unaries}}
    \cup {D!Assign(v, D!X("x")) : v \in Variables}

Calls ==
    {D!Do(f) : f \in {"q", "read", "write"}}
    \cup {D!DoWith(f, <<e>>) : f \in {"q", "g", "read", "write"}, e \in Arguments}
    \cup {D!DoWith(f, <<d, e>>) : f \in {"q", "read", "write"}, d, e \in Arguments}

Bounds ==
    {D!X("x"), D!Exp(D!Add(D!Simple(D!Term(X)), "ADDOP_PLUS", D!Term(X))),
     D!Exp(D!Add(D!Simple(D!Term(X)), "ADDOP_OR", D!Term(X))),
     D!Rel(D!Simple(D!Term(X)), "RELOP_CLT", D!Simple(D!Term(X)))}
Loops == {D!For(i, b, e, s) : i \in {"i", "p", "f", "long"}, b, e \in Bounds,
                              s \in {D!Empty, D!Do("q")}}

\* Statements of each kind around each other, with empty and crashing parts.
Nested ==
    UNION {D!Around(s) : s \in UNION {D!Around(t) : t \in {D!Empty, D!Do("write"), D!Do("q")}}}

MCType == STRING
MCKey  == STRING
MCWord == STRING

MCInputs == {D!Main(<<s>>) : s \in Assignments \cup Calls \cup Loops \cup Nested}
=============================================================================
