---------------------------- MODULE MCTextReader ----------------------------
(* Sources of three bytes behind a buffer of two.  A file leaves out what  *)
(* the others hold already.                                                *)
EXTENDS TextReader

FileSet == {<<"Letter", "CR", "LF">>, <<"CR", "LF", "Letter">>,
            <<"Lead", "Cont", "Letter">>, <<"Lead", "LF", "Cont">>,
            <<"Lead", "Lead", "Cont">>, <<"Letter", "Space", "Lead">>,
            <<"Letter", "Space", "Letter">>, <<"Letter", "Letter", "Letter">>}
=============================================================================
