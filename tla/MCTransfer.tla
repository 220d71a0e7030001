----------------------------- MODULE MCTransfer -----------------------------
(* Sources for Transfer's model checking: what a Read of the source, or a    *)
(* Write to a Writer, may give.                                              *)
EXTENDS Transfer

Even == {<<2, "nil">>, <<4, "nil">>, <<0, "EOF">>}
=============================================================================
