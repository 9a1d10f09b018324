---------------------------- MODULE MCAstClient ----------------------------
(***************************************************************************)
(* A caller of ast.c that makes a handful of objects.                       *)
(***************************************************************************)
EXTENDS AstClient

MCText == <<"a", "b", "c", "d">>
=============================================================================
