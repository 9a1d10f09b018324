--------------------------- MODULE MCDiagnostics ---------------------------
(* Sources of up to four lexemes, and parser states with up to five tokens to take. *)
EXTENDS Diagnostics
=============================================================================
