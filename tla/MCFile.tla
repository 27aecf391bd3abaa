------------------------------- MODULE MCFile -------------------------------
(* Two Files, or a FileSink, or a FileSource, over two volumes, and paths  *)
(* to the file, to a directory and to nothing.                             *)
EXTENDS File, TLC

CONSTANTS f1, f2

TwoVolumes == <<"v1", "v2">>

Alone(kind) == [f \in Files |-> IF f = f1 THEN kind ELSE None]

SomeClasses == {[f \in Files |-> "File"], Alone("FileSink"), Alone("FileSource")}

SomeTexts ==
  {<<"\\", "d", "/", ".", ".", "\\", "f">>, <<"d", "\\", "f">>, <<"d">>}

Symmetry == Permutations(Files)
=============================================================================
