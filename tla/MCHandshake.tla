---------------------------- MODULE MCHandshake ----------------------------
(* Instances of Handshake for TLC; the configuration gives the constants. *)
EXTENDS Handshake
=============================================================================
