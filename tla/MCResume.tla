------------------------------ MODULE MCResume ------------------------------
(* An instance of Resume for TLC: a message is two bytes and a buffer      *)
(* three, in about the proportion of 22 or 23 to 32.                       *)
EXTENDS Resume
=============================================================================
