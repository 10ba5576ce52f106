------------------------------ MODULE MCEditor ------------------------------
(***************************************************************************)
(* Files to edit: none or empty, one line, several lines, and one as long  *)
(* as a file may be.                                                       *)
(***************************************************************************)
EXTENDS Editor

SomeContents == {<<>>, <<"a">>, <<"a", NL, "a">>, <<"a", "a", NL, "a", "a">>}
=============================================================================
