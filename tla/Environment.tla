---------------------------- MODULE Environment ----------------------------
(***************************************************************************)
(* What the symbol table promises to the rest of the compiler: a set of    *)
(* symbols that only ever grows, never holds a symbol the program does not *)
(* declare, is offered to the code generator only when it holds them all,  *)
(* and is then thrown away as a whole.                                     *)
(***************************************************************************)
CONSTANTS
    Programs,       \* the programs considered
    Declared(_)     \* the symbols that a program declares

VARIABLES
    program,    \* the program being compiled
    phase,      \* "BUILDING", "BUILT" or "DESTROYED"
    env         \* the set of symbols known so far

evars == <<program, phase, env>>

EnvInit ==
    /\ program \in Programs
    /\ phase = "BUILDING"
    /\ env = {}

Enter ==
    /\ phase = "BUILDING"
    /\ env \subseteq env'
    /\ env' \subseteq Declared(program)
    /\ UNCHANGED <<program, phase>>

Offer ==
    /\ phase = "BUILDING"
    /\ env = Declared(program)
    /\ phase' = "BUILT"
    /\ UNCHANGED <<program, env>>

Discard ==
    /\ phase = "BUILT"
    /\ phase' = "DESTROYED"
    /\ env' = {}
    /\ UNCHANGED program

EnvNext == Enter \/ Offer \/ Discard

EnvSpec == EnvInit /\ [][EnvNext]_evars
=============================================================================
