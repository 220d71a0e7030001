--------------------------- MODULE MCNamedStream ---------------------------
(* Instances of NamedStream for TLC.                                       *)
EXTENDS NamedStream

\* Enough for a pipe that cannot write, with the far hop full, and for one
\* byte on the way back.
MaxBytesDef == [fwd |-> 3, back |-> 1]
=============================================================================
