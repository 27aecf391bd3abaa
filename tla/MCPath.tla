------------------------------- MODULE MCPath -------------------------------
(* Every text of up to five characters, over two letters, and bases as deep *)
(* as two directories.                                                      *)
EXTENDS PathOperations

\* Freed storage may hold a separator or a letter by the time it is read.
SomeLeftovers == {"\\", "b"}

SomeOperands == {<<>>, <<"a">>, <<".", ".">>, <<"\\">>, <<"\\", "b">>,
                 <<"\\", "b", "\\", "b">>, <<"b", "/", "b">>}
=============================================================================
