------------------------------- MODULE MCSds -------------------------------
(***************************************************************************)
(* Sds with small header types: every type is reached, and texts up to four *)
(* bytes cross three of their limits and the limit of the preallocation.    *)
(***************************************************************************)
EXTENDS Sds

MCMaxLen == [t \in SdsType |-> <<1, 2, 4, 6, 12>>[t + 1]]
MCTexts  == {<<>>, <<"a">>, <<"b">>, <<"NUL", "a">>, <<"a", "NUL", "b">>, <<"b", "a", "a", "b">>}
MCSizes  == 0..4
MCIndexes == {-5, -2, -1, 0, 1, 4}
=============================================================================
