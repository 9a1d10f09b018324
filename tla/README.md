# pascal2c in TLA+

pascal2c translates a Pascal dialect to C. It is one process and one thread: `main.c` parses the source into a tree
(`pascal.l`, `pascal.y`, `ast.c`), one walk over the tree builds a symbol table (`sybtable.c`), a second walk prints C
(`codegen.c`) and reads the table. Nothing runs concurrently and nothing is persisted. What is hard is *protocol* and
*ownership*: the parser hands objects to functions that trust it to hand each over once; both walks keep "where am I" in
a C global that the visit of a construct overwrites and must put back; the second walk relies on numbers, scopes and
dimension names that the first one chose; a failed look-up prints nothing and goes on.

## 1. The system

| Component | State | Operations | Talks to | What is hard, and what makes it correct |
|---|---|---|---|---|
| Lexer `pascal.l` | `lex_column_num`, `lex_row_num`, `yylineno` | one rule per token | parser (token, text), error report and nodes (position) | counters updated by hand in each rule: a position is the number of characters before it |
| Parser `pascal.y` | the semantic stack, the global `root`, `new_types` | one action per production | AST heap; sets `root` when a program is reduced | an action builds from what earlier ones left; a NULL statement meets an assertion; every node ends up in one place of the tree |
| AST heap `ast.c` | nodes and attributes, each in a list linked by `next`; one static cell | create, attach, set, append, extend, destroy, get | parser, both walks | ownership and the shape of lists after each operation; append to a list that already has a tail |
| JSON dump `ast.c` | none | print the tree | writes `step0.json` | commas and braces follow from `next` pointers; names in one object differ |
| Syntax error report `error.c` | none | `yyerror`, `print_error`, `error_with_pos` | reads the lexer's counters | cuts the parser's message at a comma that may be absent |
| Symbol table `sybtable.c` | `head`, `end`, `scope`; locals that save the scope | `do_ge_table`, `add_symbol`, `get_symbol`, `get_symbol_by_arg`, `destroy_syb_table` | reads the tree; read by the generator | save and restore of `scope`; order of restoring and entering; parameter numbers; the table is what the program declares, no more and no less |
| Code generator `codegen.c`, declarations and scopes | `scope_`, the output file | `do_generate` and a helper per construct | reads tree and table | whether a name is printed as `x`, `*x`, `_x` or `&x` is decided by a look-up far from the head that declares it; the two must agree |
| Code generator `codegen.c`, statements and expressions | the output file, the C call stack | a branch of `do_generate` per node, `generate_read`, `generate_write` | reads tree and table | the C text groups by C's rules, the source by Pascal's; a part that is missing makes a branch not match |
| Driver `main.c` | `root`, the two files, the exit status | open, parse, dump, build, generate, destroy | all of the above | the table is complete during generation; every source makes it exit; the status tells whether it worked |
| Dynamic strings `3rd_parties/sds` | a block: header, text, terminator, free space | make, grow, shrink, edit | makes the token texts of the lexer | the header type depends on the length and changes as the string grows; lengths, terminator and block must move together |
| Lists and arrays `3rd_parties/ut*` | | macros | AST heap, parser, symbol table | only the macros that the compiler expands matter; they are modelled where they are used |
| Test harness `ci_test/run_tests.py` | one result per case | translate, compile, run, compare | runs the compiler and tests its exit status | which failure is noticed at which step |
| `tests/test_ast.c`, `scripts/codegen.py`, CMake files | | | | no state of the program |

PROJECT.json lists each of them under `components` with what is modelled, and under `hazards` each place where this
code can go wrong in a way a test would hardly reach, with the properties that watch it or the reason none does.

## 2. The modules

An arrow reads "is extended by"; what a module takes with INSTANCE is in parentheses.

```
AstHeap ──> AstClient (AstTree) ──> MCAstClient                                        TLC
   ├──────> AstDump ─────┐
   └──────> Parser ──> Reading ──> BuiltTree (PascalAst) ──> MCParser (Derivations)    TLC
               └──> Statements ──> RoundTrip ──> MCStatements (Derivations)            TLC
       CReading ──────┘
AstHeap ──> AstHeapProofs                                                              TLAPS
               ├──> AstClientProofs, with AstClient                                    TLAPS
               └──> ParserProofs, with Parser                                          TLAPS

PascalAst ──> Symbols ──> SymbolTable (Environment) ──> MCSymbolTable                  TLC
                │             └──> TableProofs                                         TLAPS
                └──> CodeGen ──> Compiler (SymbolTable) ──> MCCompiler                 TLC
                                     └──> CompilerProofs (TableProofs)                 TLAPS
                                            └──> NameProofs                            TLAPS

SdsHeader ──> Sds ──> MCSds                                                            TLC
               └──> SdsProofs                                                          TLAPS
Diagnostics ──> MCDiagnostics                                                          TLC
               └──> DiagnosticsProofs                                                  TLAPS
```

### From the source to the tree

**AstHeap** is `ast.c` as operators on a heap: each carries the name of its C function and gives the heap after the call.
A pointer is a position in the sequence of objects of its kind, in the order of their `malloc`, so a freed object keeps its
address and a use after free is visible. The types of nodes, the keys and the texts are constants (`Type`, `Key`,
`Word`); `NodeRecord` and `AttrRecord` are the two structs. `status` is `"running"`, `"aborted"` (an `assert`) or `"undefined"`. The one
static `int` that all integer attributes share is `cell`. `prev` of a node is always NULL; what `DL_DELETE` makes of that
is modelled.

**AstClient** is an arbitrary caller of these functions that gives each object away once; the production actions and
`test_ast.c` are such callers. **AstTree** is what `ast.c` promises to it: nodes with sequences of attributes, where a step
makes one object or moves a whole one to the end of something else. `ImplementsTree` is the refinement; the map reads the
lists of the heap.

**Parser** is the actions of `pascal.y` over AstHeap, with the semantic stack. A production is a record that says
which node, list or attribute its action builds, in the order of its calls; `Reduce` is one step. bison's automaton is
not modelled: an input is a derivation, the tokens with a text and the reductions in bison's order (**Derivations** writes
them), and a syntax error can come before any token. `IsDerivation` says what the grammar guarantees of one, by
the kinds of the values that `%union` and `%type` declare: the right-hand side is on the stack when a production is
reduced, and the start symbol comes last. `meant` is a history variable: the tree that the source stands for,
built without the heap. **AstDump** is `ast_node_dump_json`. **Reading** reads a value off the heap, to compare it with
`meant`, and has the properties that follow the tree downwards.

**BuiltTree** joins this half to the next: it reads the heap with the getters the walks use, in the order they use them,
into a tree of PascalAst.

**Statements** is the branches of `do_generate` for statements (one action per branch, the C call stack in `work`) and the
printing of expressions (one operator), over the heap that Parser has built. The answers of the symbol table are the
constants `Form` and `ByRef`, whose correctness is what CodeGen is about. **CReading** is how a C compiler groups the
tokens; **RoundTrip** compares that with what `meant` stands for.

**Diagnostics** is the counters of `pascal.l`, the position a node takes (`pascal.y`) and the reports of `error.c`. A
lexeme is its kind and its length. A node can be made when its last token has been read or one token later.

### From the tree to C

**PascalAst** is the tree, as data. A program is a sequence of blocks; block 1 is the program and the others its
subprograms (the grammar does not nest them). A block has a name, a result type, its declarations in source order and the
names its statements use. `IsAst` is what the grammar guarantees: program blocks have no parameters, declarations come as
parameters, constants, types, variables. Texts are members of `Identifier`. `"INTEGER"` stands for the spellings of a
basic type that the lexer accepts and `is_basic_type` does not know (`Integer` with one capital is known, a word in
capitals is not). `DimensionName` is the text `dimension1`, `dimension2`, ..., which are ordinary identifiers.
Control statements and expressions are flattened to the references in them, in order.

**Symbols** is `struct symbol`, the two look-ups (a search from the head of the list), and `Declared(ast)`: the set of
symbols a program declares, defined on the tree alone. `NULL` is a C null pointer.

**SymbolTable** is `sybtable.c`. The recursion of `do_ge_table` is a cursor (`pc` the kind of node visited, `blk` the
block, `i` its declaration, `m` the member of a record); one action is one node of the C `switch`. `syms` is the list,
`scope` the C global. The C locals that save it are variables that hold `NULL` while their frame does not exist:
`temp_scope` (PROGRAM_STRUCT), `temp_sub_program_name` (SUBPROGRAM), `pre_scope` (RECORD). The ARRAY visit reads
and writes nothing between its entries, so it is one action; RECORD is three (`RecordBegin`, `RecordMember`, `RecordEnd`)
because its members are nodes of their own that are entered under the scope RECORD has set. `SkipLocalType` is the loop of
SUBPROGRAM_BODY stepping over the types a subprogram declares. `Destroy` is `destroy_syb_table`. A list of nodes visited
with one text each is one append (`VarEntries`, `ParameterEntries`, `DimensionEntries`).

**Environment** is what the table promises to the compiler, without a list, a cursor or a scope: a set of symbols that
only grows, holds only what the program declares, is offered when it holds all of it and is thrown away as a whole.
`ImplementsEnvironment` is the refinement, `env <- Entries(syms)`.

**CodeGen** is the rest of `codegen.c`. Its cursor is `gpc`, `gblk`, `gi`; `scope_` is the C global; `out` is the printed
program as a sequence of items (a variable declaration with C type and dimensions, a `#define`, a prototype, a head, a use
of a name with its form, a call with the mark of each argument, `main`). `Form`, `IndexScope`, `ByReference`, `TypeText`
and `Dimensions` are the look-ups that decide what is printed. VAR_DECLARATION sets `scope_` to the type's name while it
prints dimensions and puts it back within the same visit: `ScopeAfterVar` is what it leaves, and a record prints each member
under the scope that the one before it has left (`MemberScope`). VARIABLE does the same for indices, where the other scope is
the parameter of a helper (`IndexScope`). The headers and layout of C are left out.

**Compiler** is `main.c`: it composes the walk of SymbolTable (`Table!Next`) with that of CodeGen (`GenNext`) in the order
of the calls in `main`, and has the ways the parse can end as actions: `Accept`, `Reject` (reported, status of `yyparse`
ignored, root either still the placeholder or already the program), `EmptyStatement` (assertion), `ErrorWithoutComma`
(the report itself crashes). The other half justifies each of them: `BuildsAst` and `RootIsWhole` for the trees and roots,
`AbortsOnEmptyElement` for the assertion, `ReportsExactly` for the crash.

### Strings

**SdsHeader** is the five header types of `sds.h`, with their widths as a constant; **Sds** is one string and a client
that keeps the rules of the comments in `sds.c`. `buf` is the text, the terminator and the free space, where a byte
nobody has written is `Junk`; `size`, which the program cannot see, is what `malloc` gave; `granted` is what
`sdsMakeRoomFor` has promised. Growing and shrinking can fail for want of memory. The scanner makes each token text with
`sdsnew` and the tree keeps it; no other call of the library is reached from the compiler, so the rest of Sds is the
library's own contract.

Definitions marked `Mutant` are plausible faults of the operator after them, used to see that a property can fail; no
specification uses them.

## 3. What the runs check

`ast_heap` (MCAstClient, about 110 000 states, under two minutes) makes every sequence of calls of `ast.c` that creates up
to three nodes and three attributes, four objects together, with two keys.

- `OneOwner`: as long as calls return, each object has one owner and a freed one none.
- `ImplementsTree` (refinement): each call that returns is one step of AstTree, and one that aborts has moved nothing.
- `AnswersStable`: what a getter of strings or nodes has answered stays the answer, whatever is attached, appended or
  extended later.
- `IntegersShared`: the integer getter's answer is lost when an integer attribute is made for whatever node, which
  changes every answer, or when the attribute is set again, which puts a number where the getter follows an address;
  and in no other way.

`parser` (MCParser, about 17 000 states) reduces derivations that use every production, with lists of one to three
elements, each optional part present and absent, an empty statement wherever there is a statement, and a syntax error
before any token.

- `StackReads`: each semantic value reads as the part of the source it stands for, at every moment.
- `RootIsWhole`: the root is the placeholder or the whole program, also after a syntax error.
- `EveryObjectOnce`: each object is in one place; this is the obligation that AstClient assumes of a caller.
- `AbortsOnEmptyElement`: the only production that does not return is a list with an empty statement as an element.
- `DumpIsJson`: `step0.json` is JSON with distinct names in each object.
- `BuildsAst`: what the walks read from the heap is a tree of PascalAst with a declaration for each one of the source.

`statements` (MCStatements, about 58 000 states) prints expressions with up to three operators of each
priority, signs, names of each form alone, in an index and with a member, calls with each kind of argument, and nested
statements with empty parts.

- `ControlKept`: the C program has the control structure of the source exactly when no THEN part and no FOR body is empty.
- `ExpressionsKept`: every expression groups in C as in Pascal, with an `&` where one is needed, exactly when the source
  has none of eight patterns (`Misprinted`): a logical operator under a comparison, a FOR bound with one, two signs in
  a row, a var argument of a function in an expression, `&` before an operation, an index printed in another scope, a lost
  member, a FOR variable that needs `*` or `_`. The equivalence says that each pattern does harm and nothing else does.
- `CrashesExactly`: generation has undefined behaviour for `read`/`write` without arguments and long FOR variables only.

`symbol_table` (MCSymbolTable, 966 programs, about 14 000 states) runs the walk on every program of its set.

- `TypeOK`: the current scope is always a name, never the content of a local that nothing was saved in.
- `ScopeDiscipline`: a name is entered under the innermost construct around it, whatever was entered and left before.
- `TableExact`: at every moment the list holds the symbols of the declarations walked over, no others.
- `LookupExact`: `get_symbol` finds a declaration if and only if there is one in that scope.
- `FirstGroupAnswers`: what `get_symbol_by_arg` really answers when a head has several groups.
- `StableLookup`: no later declaration changes an answer.
- `ImplementsEnvironment` (refinement) and `Termination`.

`compiler` (MCCompiler, 286 programs, about 33 000 states) runs the whole compiler on programs with statements.

- `GenTypeOK`; `scope_` is set before any look-up.
- `DereferenceMatchesHead`: in each C function a name is dereferenced exactly if the printed head has it as a pointer.
- `ResultMatches`: the function's own name, and no other, becomes the result variable, and that variable is the one
  declared behind the head, except for functions called `word`, `byte` and five other names that `var_type_change`
  respells (`codegen.c:178`): those declare one variable and assign another.
- `DeclarationsMatch`: globals, record members and locals get the C type and dimensions of their declared type, but for
  three cases it names: an unknown type, a spelling `is_basic_type` does not know, and a local of a declared type, which
  gets no C type (for an array, the dimensions of that type all the same).
- `BracketsExactly`: in any program, hygienic or not, a variable has brackets exactly when its type is an array of the
  program or has the name of something else under which `dimension1` is entered: a record with a member of that name, a
  subprogram with a parameter or variable of that name.
- `ConstantsKept`: a name in a statement is replaced by a `#define` exactly when it is a constant in Pascal, but for names
  declared anew and for constants of subprograms printed before, which are all replaced: a `#define` has no scope.
- `CallMatchesPrototype`: `&` exactly where the prototype has a pointer, for procedures with at most one group.
- `PrototypesFirst`: forward calls see a prototype.
- `MainWithoutSubprograms`: without subprograms `main` keeps names and members, but for a variable with the name of the
  program, which becomes a result variable that nothing declares.
- `TableComplete`: the table is complete for all of the generation. `CompilerExits`: every source, also a broken one,
  makes it exit.

`sds` (MCSds, about 3 000 states) makes every sequence of calls on a string of up to four bytes, with header types of widths
1, 2, 4, 6 and 12 and a preallocation limit of 3, so that three limits and both ways of growing are crossed.

- `HeaderOK`: lengths fit their fields, and field and block agree. `GrantHolds`: granted space is there when it is used.
- `Terminated`: the text is bytes some call has written, and a terminator follows. `CallsDo`: each call does to the text
  what its comment says, and one that fails changes nothing.

`diagnostics` (MCDiagnostics, about 260 000 states) scans every source of up to four lexemes.

- `ReportPoints`: a report has the row and column of its token exactly when nothing before was miscounted.
- `SpanCovers`: a node made one token late spans that token; a span begins before its line only for a token counted short.
- `ReportsExactly`: a syntax error is reported exactly when bison lists one to four expected tokens.

Most properties of `compiler` assume `Hygienic(ast)`: no two constructs use one name as a scope, no name is declared twice in
a scope, no subprogram is called `read`, the program is not called like a dimension, no record member is called like one,
and no declaration names a block as its type. The compiler accepts other programs as well and the run contains them (a type
called like a subprogram, a member, a parameter or a program called `dimension1`); of what is printed for them only
`BracketsExactly` speaks.

Five runs show a disagreement between the code and what the repository says of it; each checks one property:

| Run | Shows |
|---|---|
| `parameter_groups` | `arg` restarts at 1 with each parameter group, so a number does not identify a parameter (`sybtable.c:184`, `sybtable.h:27-28`) |
| `main_scope` | `scope_` still names the last subprogram when `main` is printed, and `x.a` of a global record becomes `x` (`codegen.c:208`, `basic_record.pas`) |
| `array_bounds` | the C dimension is the upper bound; 0..3 gets three elements (`codegen.c:58`, `sybtable.c:144`) |
| `exit_status` | a syntax error ends with status 0, which `run_tests.py:25` reads as success (`main.c:39`) |
| `ast_destroy` | destroying a node aborts or frees a wrong address as soon as it has a second attribute, a string or a sub-node (`ast.c:27`, `ast.h:74`) |

Bounds. The interesting cases need two of a thing: two subprograms (the second is entered after the first was left, calls
the first and is called by it), two parameter groups with one or two names (numbers repeat), two records in a row, two
dimensions, two groups of members, a name that is global, parameter, local and member at once, a name declared twice. The
program sets are built from these; `MaxDimension = 2` bounds the dimensions, and no counter is cut otherwise because each
walk is finite. A third subprogram or group adds nothing the walks can tell from the second: after each subprogram the
state of the walk is the one before it, which `ScopeDiscipline` and the proof state for every number of them.
`MaxObjects = 4`: an append or a join involves two objects and at most two that they own, and the second element of a list
is the first that is not its head. Lists in the parser have up to three elements because the production for the rest of a
list is used for the first time by the second and by itself for the third. Three operators of each priority have every
pair of neighbours in both orders. `MaxText = 4` bounds a string. `MaxLexemes = 4` allows a break, a token that is miscounted,
a token and the look-ahead behind it; `MaxExpected = 5` is one more than bison lists.

Deadlock is not checked (`CHECK_DEADLOCK FALSE`): the compiler, the walk and the parser stop at their end, a caller of
`ast.c` stops when a call has aborted or no object is left to make, a string that is freed stays freed.

Fairness is stated for the two modules that have liveness properties: `WF_vars(Next)` in SymbolTable and
`WF_cvars(CompilerNext)` in Compiler, one thread that takes a step as long as there is one. No step waits for anything
outside the process except `fopen` and the parse, whose outcomes are alternatives. The other modules describe a caller
that may stop at any time (AstClient, Sds) or promise nothing but safety.

## 4. Modelled from outside

Whether a source is a program is an input of `parser` and an outcome of the parse step of Compiler. That bison reduces in
the order of a rightmost derivation in reverse, looks one token ahead when it must and lists up to four expected
tokens is taken from how `pascal.y` and `error.c` rely on it; so is flex's longest match for line ends and its
counting of `yylineno`. Of the C library, `malloc` may fail where the code tests for it (sds). The printed program is not
executed: how a C compiler groups its tokens is CReading, and everything else is agreement between printed items.

## 5. What is proved

Eight modules hold proofs that tlapm checks, for every value of the constants.

| Theorem | Module | States |
|---|---|---|
| `TypeCorrect` | TableProofs | `Spec => []TypeOK` |
| `ScopeCorrect` | TableProofs | `Spec => []ScopeDiscipline` |
| `TableCorrect` | TableProofs | `Spec => []TableExact` |
| `LookupCorrect` | TableProofs | `Spec => []LookupExact` |
| `FirstGroupCorrect` | TableProofs | `Spec => []FirstGroupAnswers` |
| `AnswersStable` | TableProofs | `Spec => StableLookup` |
| `Refinement` | TableProofs | `Spec => ImplementsEnvironment` |
| `TableCompleteCorrect` | CompilerProofs | `CompilerSpec => []TableComplete` |
| `GenTypeCorrect` | CompilerProofs | `CompilerSpec => []GenTypeOK` |
| `PrototypesCorrect` | CompilerProofs | `CompilerSpec => []PrototypesFirst` |
| `DereferenceCorrect` | NameProofs | `CompilerSpec => []DereferenceMatchesHead` |
| `ResultCorrect` | NameProofs | `CompilerSpec => []ResultMatches` |
| `ConstantsCorrect` | NameProofs | `CompilerSpec => []ConstantsKept` |
| `CallMarksCorrect` | NameProofs | `CompilerSpec => []CallMatchesPrototype` |
| `MainCorrect` | NameProofs | `CompilerSpec => []MainWithoutSubprograms` |
| `DeclarationsCorrect` | NameProofs | `CompilerSpec => []DeclarationsMatch` |
| `HeapTypeCorrect` | AstClientProofs | `Spec => []TypeOK` |
| `OwnerCorrect` | AstClientProofs | `Spec => []OneOwner` |
| `TreeImplemented` | AstClientProofs | `Spec => ImplementsTree` |
| `AnswersKept` | AstClientProofs | `Spec => AnswersStable` |
| `ParserKeepsHeap` | ParserProofs | `ParserSpec => []ParserInv` |
| `ObjectsOnce` | ParserProofs | `ParserSpec => []EveryObjectOnce` |
| `AbortsOnlyThere` | ParserProofs | `ParserSpec => []AbortsOnEmptyElement` |
| `HeaderCorrect` | SdsProofs | `SdsSpec => []HeaderOK` |
| `GrantCorrect` | SdsProofs | `SdsSpec => []GrantHolds` |
| `TerminatorCorrect` | SdsProofs | `SdsSpec => []Terminated` |
| `CallsCorrect` | SdsProofs | `SdsSpec => CallsDo` |
| `ReportsCorrect` | DiagnosticsProofs | `DiagnosticsSpec => []ReportPoints` |
| `SpansCorrect` | DiagnosticsProofs | `DiagnosticsSpec => []SpanCovers` |
| `MessageCorrect` | DiagnosticsProofs | `DiagnosticsSpec => ReportsExactly` |

Assumptions: `IdentifierAssumption` (keywords and basic types are not identifiers; `"null"`, the scope outside the program,
is one), `DimensionAssumption` (dimension names differ), `NullAssumption` and `NullSymbolAssumption` (a null pointer is
none of the values), `ProgramsAssumption` and `CompiledAssumption` (the trees have the shape the grammar gives them, which
`BuildsAst` checks for the parser), `ClientAssumption` (a caller of `ast.c` has more texts than attributes, and none of them
is one of the marks of AstHeap), `InputsAssumption` (an input of the parser is a derivation, of any length),
`ProductionAssumption` (`Type`, `Key` and `Word` hold what the productions write), `HeaderAssumption` (the header types have increasing widths), `SdsAssumption` (the
client's texts fit the widest header), `DiagnosticsAssumption` (the bounds are numbers: of any size, so the theorems are
about sources of every length). TLC evaluates all of them.

The table. `ScopeDiscipline` is not inductive: the step that leaves a subprogram or a record copies a saved scope, so
one must know what was saved (`FramesOK`), and where the cursor stands (`CursorOK`: a record is visited in block 1 only,
so that its saved scope is the program's). `WalkInv == TypeOK /\ CursorOK /\ ScopeDiscipline /\ FramesOK` is inductive
(`WalkInit`, `WalkStep`). `TableExact` rests on it: what a step appends is computed from `scope`, what it should append
from the tree, and `WalkInv` says they agree (`ExactStep`); with it `WalkInv /\ TableExact` is inductive (`Invariant`). `AppendsOnly` says that every step
but `Destroy` appends to the list; with `GetSymbolStable` (a look-up in an extended list answers as before, if it answered)
this gives `AnswersStable`. When the walk is done `Passed` is `Declared(ast)` (`PassedAll`), and a search of a list finds
an element exactly if there is one (`GetSymbolFinds`), hence `LookupCorrect`. `TableExact` is about the set of entries, and
`get_symbol_by_arg` depends on their order; `GroupsInv` says what it answers for the groups walked over so far,
hence `FirstGroupCorrect`. For `Refinement` each step maps to `Enter`,
`Offer` (ProgramEnd), `Discard` (Destroy) or a stutter; `PassedDeclared` keeps `env` within what is declared.

The compiler. CompilerProofs instantiates TableProofs for the table inside `main`. `MainInv` says what `main` has
done in each stage. With it every step of Compiler is a step of the walk or leaves the table alone (`WalkOrStutter`), so
the lemmas about the walk give `TableInv`; a walk that is done has passed everything, which is `TableComplete`.
`GenTypeOK` is inductive with `MainInv` and `TreeOK` (the tree does not change). For `PrototypesFirst` the invariant
`AnnounceInv` says which prototypes are in `out` at each place of the generator's cursor: those of the blocks before the
cursor during the first pass, all of them after it. Calls are emitted only in the second pass (`Emitted`,
`AnnounceOne`).

The printed text. What must be related here never exists at one moment: the table answers while an item is printed, the head
that an answer must agree with was printed before, and in the end the table is gone while the text stays. So the
invariants on the text never mention the table. `Answer`, `FormOf`, `ByReferenceAt` and `Prints` say what an item shows
of a reference in terms of the declarations alone; `TableReady` and `ReferencePrinted` show once, from `TableComplete` and
`FirstGroupCorrect`, that the generator prints just that. Then

- `PlaceInv`: at each place of the cursor, which head is the last one in the text, and what `scope_` is. It is not what
  one would expect: during the prototypes `scope_` is the block before, at the first body it is the last subprogram, in
  `main` the last one again (`Scope`), which is the reason for the finding `main_scope`.
- `TextInv`: every item that uses names stands under the head of some block, shows one of its references under the scope
  of that block, and has above it the `#define`s of the blocks printed until then; a function's head is followed by its
  result variable. Items never change once printed (`Longer`), which is why it stays true.
- `ConstantsInv`: the `#define`s in the text are the constants gone past by the cursor (`GoneBy`), no others. It needs
  the order of the whole walk, as a `#define` reaches all that follows.
- `MainTextInv`: the items of `main` are one for each statement, in order.
- `DeclarationsInv`: each declaration gone past is in the text, in the place it belongs to, with the type and dimensions
  that its declared type means.

The first three with the invariants of CompilerProofs are `NamesInv`, which is inductive (`NamesStep`); the other two are
inductive relative to it. Each theorem then compares two items of the text that were printed from one tree:
`DereferenceCorrect` a form with the pointers of the head above (`PointersAre`), `CallMarksCorrect` a call with any
prototype of its name, `ConstantsCorrect` a name with the `#define`s above it. `DeclarationsCorrect` needs the two look-ups of
TYPE and the loop over `dimension1`, `dimension2`, ...: for a hygienic program the dimensions found are those of the array and
the loop ends at their number (`DimensionsAre`), since no entry under the array's name can be missed or added.

The heap. `OneOwner` counts pointers, which says too little: two attributes that point to each other have one owner each,
and `LL_CONCAT` would run forever on them. `HeapInv` says instead of both kinds of object (`Sound`): every list ends
(`Ending`: a function gives the finite list from each object, so that nothing runs in a circle); no object has two pointers to
it and none points to a freed one (`Apart`); every live object has a pointer or is the caller's (`Kept`); a freed object
points to nothing (`DeadEmpty`). The lists are proved about without recursion on them. `ChainIs` says that what
`LL_FOREACH` visits is what `Ending` gives, by the shortest list for which it would not be; `LinkedApart` that lists with different
first elements that nothing points to have no element in common; `EndingJoin` that the list made by `LL_CONCAT` ends. With these
there is one lemma for each way a pointer moves, whatever the objects are: `ListsNew` and `ListsOther` (`malloc`),
`ListsTake`, `ListsRelease`, `ListsFree`, `ListsJoin`. Each function of `ast.c` is a sequence of these moves (`Outcome`, `JoinOutcome`,
`DestroyNodeOutcome`, `ExtendOutcome`), also where the code does them in an order in which no moment between is
sound: `ast_node_destroy` frees the attribute before the node lets go of it. `OwnersCounted` turns `Apart` and `Kept` back into the
sum of three cardinalities. A call that does not return keeps the types only, which is all that `OneOwner` asks of it.

The tree of the heap. `HeapInv` is enough to read sequences off the heap, not to show that each call does to them what
AstTree says. `TreeInv` adds what a caller never sees: a node it holds has no sibling behind it (`HeldAlone`), because only
appending a node gives one and takes the node away, so that no assertion on `next` fails after something was written; and
a call that does not return leaves the lists sound, because it has changed no node and no attribute (`Refused`).
`HeldIsRoot` turns "held" into the `Root` of AstTree, which is what makes an append legal there. For the lists, `ChainsGrown` (a new object), `ChainsJoined`
(`LL_CONCAT`) and `ChainsSame` (a write next to them) say what becomes of all chains at once; `HeadsApart` and `ChainBehind`,
that a chain which is changed is the only one to change. From these each function gets its effect on the tree in one of a few
shapes, `Gained`, `Appended`, `Attached`, `Overwritten`, `NodeAppended`, `Drained` (the lemmas that end in `Effect`), and each
action of the caller is matched with one step of AstTree (the lemmas that end in `Step`). `TreeImplemented` follows
with `TreeStep`. `AnswersKept` is then about AstTree alone: `GettersRead` says that the getters of `ast.c` read the sequences
of the tree, `Continued` that a sequence has become longer, has longer sequences of nodes or other texts where a text may change,
`StepContinues` that every step of AstTree continues every node that exists before and after it, and `AnswersContinue` that a
continued sequence answers as before.

The parser. AstClient assumes a caller that gives each object away once; ParserProofs shows that `pascal.y` is one,
for every derivation. `EveryObjectOnce` counts pointers at one moment and says neither that lists end nor that what a
production takes is there to be taken. `ParserInv` says that the heap is sound for what the parser holds, the placeholder,
the root and the values (`Holds`, with `Sound` of AstHeapProofs and no two values the same, `OneEach`); that no node has a
sibling and no attribute is freed (`Whole`), which is why no assertion on attachment is ever met; and, until the last
reduction, that the values have the kinds the derivation expects and that what stands for NULL on the stack is nothing in
the source (`OnTheWay`). The table of productions is looked at once: `ProductionSound` says that a production for a node takes each of
its values into one attribute and uses no key twice (`NodeRow`), so that `ast_node_get_attr` finds none and nothing is
overwritten, and that a production for a list has the one shape of all lists (`ListRow`). From there on a production is any
record of such a shape. `PartsAdd` follows the calls of one action, part by part: after k of them the new node has the first k keys
and has taken the nodes of the first k parts (`Building`). `ListIsMade`, `RestIsMade` and `BodyIsJoined` are the same for lists and for
`ast_node_extend`, where the body is empty when it is destroyed, so that `ast_node_destroy` meets none of its failures.
`StackSplit` divides what is held between the right-hand side and the rest of the stack. Each action has one lemma
(`ShiftStep`, `NodeStep`, `ListStep`, `RestStep`, `EmptyStep`, `ProgramStep`); `EmptyElementStops` is the one way to leave
the invariant's first part, and `ListTakes` says that only an element with the key STATEMENT can get there.

The strings. `HeaderOK` is not inductive either: whether a length fits depends on the block, whether the block is right
on the type that was chosen for the length before. `SdsInv` joins the header, the block, the grant, the terminator and the
writing of bytes, and is inductive (`InitInv`, `StepInv`). Every call that ends in `Written` is one case of `PutsRight`
with the block it writes to; `RoomMade` and `TightBlock` are about the two ways the block changes. For `CallsDo` the text is read
off the block before and after each call.

The positions. `TrueRow` and `TrueEnd` count what a reader counts, from the whole source; the scanner counts from one lexeme
to the next. `TrueEnd` is a recursive function: `TrueEndIs` says that no other function solves its equation, so a source with
one more lexeme has the columns of the source before it and one more (`EndGrows`; `RowGrows`, `ShortGrows` and `LoneCRGrows`
are the same for the other counts). `PositionsInv` says that a counter is never ahead of the reader and is right exactly
until something was counted short (`RowRight`, `ColumnRight`), that a report is where the counters are, and that a node
was made from them at the last token. `SpanCovers` also needs that no two lexemes end at one place
(`Ordered`, kept by `OrderGrows`). For `ReportsExactly` the message is cut at the pieces that bison puts into it (`BehindIs`,
`PrintedIs`).

Only model-checked: everything about modules with RECURSIVE operators, which walk trees (AstDump, Reading, BuiltTree,
CReading, Statements, RoundTrip), because the SMT solver is not available to a proof in such a module and what they compute
for every tree is an induction over data: `StackReads`, `RootIsWhole`, `DumpIsJson`, `BuildsAst`, `ControlKept`,
`ExpressionsKept` and `CrashesExactly`; and the liveness properties `Termination` and `CompilerExits`, which need fairness
and ENABLED. Of AstClient, Parser, SymbolTable, CodeGen, Compiler, Sds and Diagnostics every safety property that a passing run
checks is proved, both refinements included, but for `BracketsExactly` and `IntegersShared`.

## 6. What the models show beyond the findings

Facts a reader of the code may not expect, each within a property above:

- A lone carriage return does not count as a row; `div` and a quoted letter count one column, unexpected characters none;
  a node whose production needs a look-ahead takes the position of the token behind it (`ReportPoints`, `SpanCovers`).
- All integer attributes share one cell, so the second changes what the first reads (`IntegersShared`).
- `ast.h:119-120` says that `ast_node_attach_attr` panics when the key is there already. It does not look: the second
  attribute is attached, and the getters go on answering with the first (`ImplementsTree`, `AnswersStable`). No production
  uses a key twice (`ParserKeepsHeap`).
- An IF without a THEN part or a FOR without a body leaves no trace in C (`ControlKept`).
- `sdstrim` also trims NUL bytes, whatever the set; `sdsrange` with an end before the first byte keeps that byte; the
  assertion of `sdsIncrLen` on the smallest header tests the field and not the block (`CallsDo`, `GrantHolds`).
- A procedure called `read` is called with `&` before every argument, whatever its head says, because the name is tested
  before the table is asked (`CallMatchesPrototype`).
- A variable with the name of the program is printed in `main` as a result variable that no function declares
  (`MainWithoutSubprograms`).
- Declarations whose type is named like a block, or a program named like a dimension, make the look-up of a dimension answer
  with a variable or parameter: hygiene of scopes alone does not exclude it (`BracketsExactly`).
- A function called `word` declares `unsigned int` as its result variable and assigns `_word` (`ResultMatches`).
- A local array of a type the program declares is printed with its dimensions and without a type (`DeclarationsMatch`).

## 7. Not modelled, and the plan

Not modelled: flex's matching and bison's tables with their "memory exhausted"; layout, newlines, and formats of `printf`
and `scanf` other than the number of `%d`; the sizes of buffers and the number of digits of a dimension
(`codegen.c:48`, `sybtable.c:115`), since texts have no length here, except the FOR variable; the missing separator between
parameter groups (`codegen.c:215`), since a head is a list of groups; `print_symbol_table`, which only prints; the
unit test, the node-code script and the build files, which hold no state of the program; the test harness
`run_tests.py`, one straight line of calls per case; functions of sds and macros of the `ut*` headers that nothing calls;
`read_statement`, `write_statement` and `variable_list` of the grammar, whose tokens the lexer never returns; what a C
compiler does with the printed program beyond grouping.
