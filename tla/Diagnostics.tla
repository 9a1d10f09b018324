---------------------------- MODULE Diagnostics ----------------------------
(***************************************************************************)
(* pascal.l, error.c and the positions of pascal.y: the counters of the     *)
(* scanner, the position a new node gets, and the two reports, of a syntax  *)
(* error and of a misuse of the AST.  `text` is the source up to where the  *)
(* scanner is, a sequence of lexemes; columns are counted from 0.           *)
(***************************************************************************)
EXTENDS Integers, Sequences, SequencesExt, FiniteSetsExt

CONSTANTS
    MaxLexemes,     \* bound: the source is no longer
    MaxExpected     \* bound: no state of the parser accepts more tokens

ASSUME DiagnosticsAssumption == MaxLexemes \in Nat /\ MaxExpected \in Nat

VARIABLES
    text,
    lex_column_num,
    lex_row_num,
    yylineno,
    node,       \* the node just made: its token and its position
    report,     \* what is printed before the parser ends
    phase       \* "scan", "ended"

dgvars == <<text, lex_column_num, lex_row_num, yylineno, node, report, phase>>

-----------------------------------------------------------------------------
(* Lexemes *)

Lexeme(kind, yyleng) == [kind |-> kind, yyleng |-> yyleng]

\* Keywords, names and numbers, the signs; `div` and a quoted letter apart.
Tokens ==
    {Lexeme("word", 2), Lexeme("word", 4), Lexeme("sign", 1), Lexeme("div", 3),
     Lexeme("letter", 3)}
Blank      == Lexeme("blank", 1)
Unexpected == Lexeme("unexpected", 1)
Breaks     == {Lexeme("LF", 1), Lexeme("CR", 1), Lexeme("CRLF", 2), Lexeme("LFCR", 2)}

IsToken(l) == l \in Tokens
IsBreak(l) == l \in Breaks

\* flex takes the longest match, so a line feed and a return next to each other are one
\* lexeme.
Separate(l, m) ==
    /\ l.kind = "LF" => m.kind \notin {"CR", "CRLF"}
    /\ l.kind = "CR" => m.kind \notin {"LF", "LFCR"}

MayFollow(l) ==
    /\ phase = "scan" /\ Len(text) < MaxLexemes
    /\ text # <<>> => Separate(Last(text), l)

NoNode   == [of |-> 0, start_row |-> 0, start_column |-> 0, end_row |-> 0, end_column |-> 0]
NoReport == [kind |-> "none", row |-> 0, column |-> 0, unexpected |-> "", expecting |-> <<>>]

yyleng == IF text = <<>> THEN 0 ELSE Last(text).yyleng

-----------------------------------------------------------------------------
(* The scanner *)

DiagnosticsInit ==
    /\ text = <<>>
    /\ lex_column_num = 0 /\ lex_row_num = 1 /\ yylineno = 1
    /\ node = NoNode /\ report = NoReport
    /\ phase = "scan"

\* `div` shares its rule with `/`, and the rule of a quoted letter counts one too.
Counted(l) == IF l.kind \in {"div", "letter"} THEN 1 ELSE l.yyleng

ScanToken(l) ==
    /\ MayFollow(l)
    /\ text' = Append(text, l)
    /\ lex_column_num' = lex_column_num + Counted(l)
    /\ node' = NoNode
    /\ UNCHANGED <<lex_row_num, yylineno, report, phase>>

ScanBlank ==
    /\ MayFollow(Blank)
    /\ text' = Append(text, Blank)
    /\ lex_column_num' = lex_column_num + 1
    /\ node' = NoNode
    /\ UNCHANGED <<lex_row_num, yylineno, report, phase>>

\* The message is printed, the counter stays, and the scanner goes on.
ScanUnexpected ==
    /\ MayFollow(Unexpected)
    /\ text' = Append(text, Unexpected)
    /\ node' = NoNode
    /\ UNCHANGED <<lex_column_num, lex_row_num, yylineno, report, phase>>

\* Mutant: the column counter starts again after a line feed alone only.
ScanBreakLineFeed(l) ==
    /\ MayFollow(l)
    /\ text' = Append(text, l)
    /\ yylineno' = IF l.kind = "CR" THEN yylineno ELSE yylineno + 1
    /\ lex_column_num' = IF l.kind = "LF" THEN 0 ELSE lex_column_num
    /\ lex_row_num' = yylineno'
    /\ node' = NoNode
    /\ UNCHANGED <<report, phase>>

\* flex counts line feeds in yylineno before the rule runs; a return alone is none.
ScanBreak(l) ==
    /\ MayFollow(l)
    /\ text' = Append(text, l)
    /\ yylineno' = IF l.kind = "CR" THEN yylineno ELSE yylineno + 1
    /\ lex_column_num' = 0
    /\ lex_row_num' = yylineno'
    /\ node' = NoNode
    /\ UNCHANGED <<report, phase>>

-----------------------------------------------------------------------------
(* The parser, when the scanner has returned a token *)

TokensRead == {i \in DOMAIN text : IsToken(text[i])}
LastToken  == Max(TokensRead)
AtToken    == phase = "scan" /\ text # <<>> /\ IsToken(Last(text))

\* Mutant: the span of the token is counted from its end.
SpanFromEnd(i) ==
    [of |-> i, start_row |-> lex_row_num, start_column |-> lex_column_num,
     end_row |-> lex_row_num, end_column |-> lex_column_num + yyleng]

\* ast_node_pos_create with the counters of this moment.
Span(i) ==
    [of |-> i, start_row |-> lex_row_num, start_column |-> lex_column_num - yyleng,
     end_row |-> lex_row_num, end_column |-> lex_column_num]

\* A production that ends with the token text[i] is reduced, either at once or when the
\* next token has been read to see that no longer production fits.
MakeNode(i) ==
    /\ AtToken
    /\ node = NoNode
    /\ i \in TokensRead /\ Cardinality({j \in TokensRead : j > i}) <= 1
    /\ node' = Span(i)
    /\ UNCHANGED <<text, lex_column_num, lex_row_num, yylineno, report, phase>>

\* The pieces of bison's message; each name of a token is one, too.
Error        == "syntax error"
Comma        == ", "
UnexpectedIs == "unexpected "
ExpectingAre == "expecting "

\* bison's message: the tokens it could have taken are listed if they are four at most.
Message(token, expected) ==
    <<Error, Comma, UnexpectedIs, token>>
        \o (IF expected = <<>> \/ Len(expected) > 4 THEN <<>>
            ELSE <<Comma, ExpectingAre>> \o expected)

\* strstr and strchr: what comes behind the piece, or NULL.
NULL == <<"NULL">>
Behind(message, piece) ==
    IF Contains(message, piece)
    THEN SubSeq(message, SelectInSeq(message, LAMBDA p : p = piece) + 1, Len(message))
    ELSE NULL

\* Mutant: the expected tokens are looked for at the comma, too.
print_error_at_comma(message) ==
    [kind |-> "syntax", row |-> lex_row_num, column |-> lex_column_num,
     unexpected |-> Head(Behind(message, UnexpectedIs)), expecting |-> Behind(message, Comma)]

\* error_string_devider ends the name of the token at a comma, whether there is one or
\* not; nothing has been printed then.
print_error(message) ==
    IF ~Contains(Behind(message, UnexpectedIs), Comma)
    THEN [NoReport EXCEPT !.kind = "crash"]
    ELSE [kind |-> "syntax", row |-> lex_row_num, column |-> lex_column_num,
          unexpected |-> Head(Behind(message, UnexpectedIs)),
          expecting |-> Behind(message, ExpectingAre)]

SyntaxError(expected) ==
    /\ AtToken
    /\ report' = print_error(Message(Last(text).kind, expected))
    /\ phase' = "ended"
    /\ UNCHANGED <<text, lex_column_num, lex_row_num, yylineno, node>>

\* The source ends where the program does not.
EndUnexpected(expected) ==
    /\ phase = "scan"
    /\ report' = print_error(Message("$end", expected))
    /\ phase' = "ended"
    /\ UNCHANGED <<text, lex_column_num, lex_row_num, yylineno, node>>

\* error_with_pos, before an assertion of ast.c fails in a production.
Misuse ==
    /\ AtToken
    /\ report' = [NoReport EXCEPT !.kind = "misuse", !.row = lex_row_num,
                                  !.column = lex_column_num]
    /\ phase' = "ended"
    /\ UNCHANGED <<text, lex_column_num, lex_row_num, yylineno, node>>

\* By the number of tokens the parser could have taken.
Expected == {[i \in 1..n |-> "expected"] : n \in 0..MaxExpected}

DiagnosticsNext ==
    \/ \E l \in Tokens : ScanToken(l)
    \/ \E l \in Breaks : ScanBreak(l)
    \/ ScanBlank \/ ScanUnexpected
    \/ \E i \in DOMAIN text : MakeNode(i)
    \/ \E expected \in Expected : SyntaxError(expected) \/ EndUnexpected(expected)
    \/ Misuse

DiagnosticsSpec == DiagnosticsInit /\ [][DiagnosticsNext]_dgvars

-----------------------------------------------------------------------------
(* Properties: the positions as a reader of the source counts them *)

\* The line of t[i] begins behind the last break up to it.
LineStart(t, i) == Max({0} \cup {j \in 1..i : IsBreak(t[j])})
TrueRow(t, i)   == 1 + Cardinality({j \in 1..i : IsBreak(t[j])})
TrueEnd(t, i) ==
    LET end[j \in 0..Len(t)] ==
            IF j = 0 THEN 0 ELSE IF IsBreak(t[j]) THEN 0 ELSE end[j - 1] + t[j].yyleng
    IN  end[i]

\* The lexemes that the scanner counts short, on the line of t[i] up to it.
Short(t, i)  == {j \in (LineStart(t, i) + 1)..i : t[j].kind \in {"div", "letter", "unexpected"}}
LoneCR(t, i) == {j \in 1..i : t[j].kind = "CR"}

\* A report names the row of the offending token unless a lone return came before it,
\* and the column of its end unless something on its line was counted short; lines
\* before have no influence on the column, columns none on the row.
ReportPoints ==
    report.kind \in {"syntax", "misuse"} =>
        LET i == Len(text)
        IN  /\ report.row = TrueRow(text, i) <=> LoneCR(text, i) = {}
            /\ report.column = TrueEnd(text, i) <=> Short(text, i) = {}

\* A node made from its token at once spans it, one made with the next token already read
\* spans that token instead, in its row, as long as the counters are right; and a span
\* begins before its line only when its own token is counted short.
SpanCovers ==
    node # NoNode =>
        LET i == LastToken
        IN  /\ node.start_row = node.end_row /\ node.start_column < node.end_column
            /\ Short(text, i) \cup LoneCR(text, i) = {} =>
                  /\ node.end_row = TrueRow(text, i)
                  /\ node.end_column = TrueEnd(text, i)
                  /\ node.start_column = TrueEnd(text, i) - text[i].yyleng
                  /\ (/\ node.end_row = TrueRow(text, node.of)
                      /\ node.end_column = TrueEnd(text, node.of)) <=> node.of = i
            /\ node.start_column < 0 => i \in Short(text, i)

\* A syntax error is reported with the token and the tokens that could have come, unless
\* bison lists none, because there are none or more than four: then nothing is printed.
ReportsExactly ==
    [][\A expected \in Expected :
          /\ SyntaxError(expected) =>
                IF Len(expected) \in 1..4
                THEN report'.unexpected = Last(text).kind /\ report'.expecting = expected
                ELSE report' = [NoReport EXCEPT !.kind = "crash"]
          /\ EndUnexpected(expected) => (report'.kind = "crash" <=> Len(expected) \notin 1..4)]_dgvars
=============================================================================
