------------------------------ MODULE Compiler ------------------------------
(***************************************************************************)
(* main.c: open the source, parse it, build the symbol table, print the C  *)
(* program, destroy the table, exit.  The table is built by SymbolTable and*)
(* the program printed by CodeGen; this module is the order of the two and *)
(* what main does with a source that cannot be read or parsed.             *)
(***************************************************************************)
EXTENDS CodeGen

CONSTANT Programs

ASSUME CompiledAssumption == \A p \in Programs : IsAst(p)

VARIABLES
    pc, blk, i, m, scope, temp_scope, temp_sub_program_name, pre_scope,
                \* the walk that builds the table
    stage,      \* "OPEN", "PARSE", "TABLE", "GENERATE", "DESTROY" or "EXIT"
    root,       \* the type of the node that `root` points to
    source,     \* is the source a program?  "unread", "valid" or "invalid"
    status      \* the exit status, NULL while the compiler runs

tvars == <<pc, blk, i, m, scope, temp_scope, temp_sub_program_name, pre_scope>>
mvars == <<stage, root, source, status>>
cvars == <<ast, syms, tvars, gvars, mvars>>

Table == INSTANCE SymbolTable

CompilerInit ==
    /\ Table!Init
    /\ GenInit
    /\ stage = "OPEN" /\ root = "PROGRAM" /\ source = "unread" /\ status = NULL

Exit(code) == stage' = "EXIT" /\ status' = code

\* Neither argv[1] nor ../sample_pas/<argv[1]>.pas can be opened.
CannotOpen ==
    /\ stage = "OPEN"
    /\ Exit(255)
    /\ UNCHANGED <<ast, syms, tvars, gvars, root, source>>

Open ==
    /\ stage = "OPEN"
    /\ stage' = "PARSE"
    /\ UNCHANGED <<ast, syms, tvars, gvars, root, source, status>>

Accept ==
    /\ stage = "PARSE"
    /\ root' = "PROGRAM_STRUCT" /\ source' = "valid" /\ stage' = "TABLE"
    /\ UNCHANGED <<ast, syms, tvars, gvars, status>>

\* yyerror has reported the error and yyparse returns 1, which main ignores.  An
\* error before the final `.` leaves the root that main created; what follows the
\* `.` is read after program_struct has been reduced.
Reject ==
    /\ stage = "PARSE"
    /\ root' \in {"PROGRAM", "PROGRAM_STRUCT"}
    /\ source' = "invalid" /\ stage' = "TABLE"
    /\ UNCHANGED <<ast, syms, tvars, gvars, status>>

\* A statement list with an empty statement stops the parser on an assertion:
\* an attribute must have a node.
EmptyStatement ==
    /\ stage = "PARSE"
    /\ Exit(134) /\ source' = "valid"
    /\ UNCHANGED <<ast, syms, tvars, gvars, root>>

\* print_error cuts the parser's message at its comma, and a message that lists no
\* expected tokens has none.
ErrorWithoutComma ==
    /\ stage = "PARSE"
    /\ Exit(139) /\ source' = "invalid"
    /\ UNCHANGED <<ast, syms, tvars, gvars, root>>

\* do_ge_table knows no node PROGRAM.
SkipTable ==
    /\ stage = "TABLE" /\ root = "PROGRAM"
    /\ stage' = "GENERATE"
    /\ UNCHANGED <<ast, syms, tvars, gvars, root, source, status>>

BuildTable ==
    /\ stage = "TABLE" /\ root = "PROGRAM_STRUCT" /\ pc # "DONE"
    /\ Table!Next
    /\ UNCHANGED <<gvars, mvars>>

\* Mutant: generation does not wait for the table.
TableBuiltEarly ==
    /\ stage = "TABLE"
    /\ stage' = "GENERATE"
    /\ UNCHANGED <<ast, syms, tvars, gvars, root, source, status>>

TableBuilt ==
    /\ stage = "TABLE" /\ pc = "DONE"
    /\ stage' = "GENERATE"
    /\ UNCHANGED <<ast, syms, tvars, gvars, root, source, status>>

\* do_generate prints a diagnostic among the C text.
UnknownRoot ==
    /\ stage = "GENERATE" /\ root = "PROGRAM"
    /\ emit(<<Simple("unknown type", NULL)>>)
    /\ stage' = "DESTROY"
    /\ UNCHANGED <<ast, syms, tvars, gpc, gblk, gi, scope_, root, source, status>>

Generate ==
    /\ stage = "GENERATE" /\ root = "PROGRAM_STRUCT"
    /\ GenNext
    /\ UNCHANGED <<ast, syms, tvars, mvars>>

Generated ==
    /\ stage = "GENERATE" /\ gpc = "DONE"
    /\ stage' = "DESTROY"
    /\ UNCHANGED <<ast, syms, tvars, gvars, root, source, status>>

\* Mutant: main waits for a table that was never built.
DestroyTableIfBuilt ==
    /\ stage = "DESTROY" /\ pc = "DONE"
    /\ syms' = <<>> /\ pc' = "DESTROYED"
    /\ Exit(0)
    /\ UNCHANGED <<ast, blk, i, m, scope, temp_scope, temp_sub_program_name, pre_scope,
                   gvars, root, source>>

\* destroy_syb_table is the last call of main, which then returns 0.
DestroyTable ==
    /\ stage = "DESTROY"
    /\ syms' = <<>>
    /\ pc' = IF pc = "DONE" THEN "DESTROYED" ELSE pc
    /\ Exit(0)
    /\ UNCHANGED <<ast, blk, i, m, scope, temp_scope, temp_sub_program_name, pre_scope,
                   gvars, root, source>>

CompilerNext ==
    \/ CannotOpen \/ Open \/ Accept \/ Reject \/ EmptyStatement \/ ErrorWithoutComma
    \/ SkipTable \/ BuildTable \/ TableBuilt
    \/ UnknownRoot \/ Generate \/ Generated \/ DestroyTable

CompilerSpec == CompilerInit /\ [][CompilerNext]_cvars /\ WF_cvars(CompilerNext)
-----------------------------------------------------------------------------
(* Properties *)

\* While C is being printed the table answers for the whole program: it was
\* finished before the first item and is not destroyed before the last.
TableComplete ==
    stage = "GENERATE" /\ root = "PROGRAM_STRUCT" =>
        Entries(syms) = Declared(ast)

\* Whatever the source, the compiler exits, and with an empty table.
CompilerExits == <>(stage = "EXIT" /\ status # NULL /\ syms = <<>>)

\* A source that is not a program makes the translation fail: the exit status is
\* not 0.
FailureReported == stage = "EXIT" /\ status = 0 => source = "valid"
=============================================================================
