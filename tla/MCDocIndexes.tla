---------------------------- MODULE MCDocIndexes ----------------------------
(***************************************************************************)
(* A small repository with a document of every kind the script tells       *)
(* apart: directly under docs/, a sub-folder's README, a file two folders  *)
(* down, one in a skipped folder and one with a space in its name, whose   *)
(* second piece is a path at the top.                                      *)
(***************************************************************************)
EXTENDS DocIndexes

Spaced == <<"docs", "my notes.md">>

mcDocuments ==
  {<<"docs", "README.md">>, <<"docs", "CLI.md">>,
   <<"docs", "runs", "README.md">>, <<"docs", "runs", "2026", "a.md">>,
   <<"artifacts", "log.md">>, Spaced}

mcPieces ==
  [f \in mcDocuments \cup {<<"INDEX.md">>, <<"docs", "INDEX.md">>} |->
     IF f = Spaced THEN {<<"docs", "my">>, <<"notes.md">>} ELSE {f}]

(* The least repository in which the indexes refer to each other.          *)
fewDocuments == {<<"README.md">>, <<"docs", "CLI.md">>}

fewPieces == [f \in fewDocuments \cup {<<"INDEX.md">>, <<"docs", "INDEX.md">>} |-> {f}]
=============================================================================
