----------------------------- MODULE CReading -----------------------------
(***************************************************************************)
(* How a C compiler groups the tokens of the printed program: the same      *)
(* tokens with a pair of parentheses around every application of an         *)
(* operator and none elsewhere, so that two texts group alike exactly when  *)
(* they are equal.  A token is the text of one fprintf; binary operators    *)
(* have spaces around them, prefix operators have none.                     *)
(***************************************************************************)
LOCAL INSTANCE Integers
LOCAL INSTANCE Sequences
LOCAL INSTANCE FiniteSets
LOCAL INSTANCE FiniteSetsExt
LOCAL INSTANCE SequencesExt

Precedence ==
    [op \in {" = ", " || ", " && ", " == ", " != ", " > ", " < ", " >= ", " <= ",
             " + ", " - ", " * ", " / ", " % "} |->
        CASE op = " = " -> 0
          [] op = " || " -> 1
          [] op = " && " -> 2
          [] op \in {" == ", " != "} -> 3
          [] op \in {" > ", " < ", " >= ", " <= "} -> 4
          [] op \in {" + ", " - "} -> 5
          [] op \in {" * ", " / ", " % "} -> 6]

Depth(s, i) == Cardinality({k \in 1..i : s[k] \in {"(", "["}})
               - Cardinality({k \in 1..(i - 1) : s[k] \in {")", "]"}})

Bracket(s) == <<"(">> \o s \o <<")">>

\* Two signs in a row are one token of C.
Decrement(s) == Len(s) > 1 /\ s[1] = "-" /\ s[2] = "-"

RECURSIVE Group(_), Parts(_, _)

\* The parts of a call, an index or a control clause: cuts are the positions of the
\* delimiters, in order.
Parts(s, cuts) ==
    IF cuts = <<>> THEN <<>>
    ELSE LET from == cuts[1]
             upto == IF Len(cuts) = 1 THEN Len(s) + 1 ELSE cuts[2]
         IN  <<s[from]>> \o Group(SubSeq(s, from + 1, upto - 1)) \o Parts(s, Tail(cuts))

\* All binary operators associate to the left.
Group(s) ==
    LET binary == {i \in DOMAIN s : s[i] \in DOMAIN Precedence /\ Depth(s, i) = 0}
        least  == Min({Precedence[s[i]] : i \in binary})
        split  == Max({i \in binary : Precedence[s[i]] = least})
        cuts   == SetToSortSeq({i \in DOMAIN s : s[i] \in {"(", ")", "[", "]", ",", ";"}
                                                 /\ Depth(s, i) = 1}, <)
    IN  CASE s = <<>> -> <<>>
          [] s # <<>> /\ binary # {} ->
                Bracket(Group(SubSeq(s, 1, split - 1)) \o <<s[split]>>
                        \o Group(SubSeq(s, split + 1, Len(s))))
          [] s # <<>> /\ binary = {} ->
                CASE Decrement(s) ->
                        Bracket(<<"--">> \o Group(SubSeq(s, 3, Len(s))))
                  [] s[1] \in {"-", "!", "*", "&"} /\ ~Decrement(s) ->
                        Bracket(<<s[1]>> \o Group(Tail(s)))
                  [] s[1] = "(" -> Group(SubSeq(s, 2, Len(s) - 1))
                  [] s[1] \notin {"-", "!", "*", "&", "("} ->
                        SubSeq(s, 1, IF cuts = <<>> THEN Len(s) ELSE cuts[1] - 1)
                        \o Parts(s, cuts)

\* A sequence of statements.
RECURSIVE CReading(_)
CReading(s) ==
    LET ends == {i \in DOMAIN s : s[i] \in {";", "{", "}"} /\ Depth(s, i) = 0}
        end  == Min(ends)
    IN  IF ends = {} THEN Group(s)
        ELSE Group(SubSeq(s, 1, end - 1)) \o <<s[end]>> \o CReading(SubSeq(s, end + 1, Len(s)))
=============================================================================
