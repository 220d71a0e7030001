----------------------------- MODULE MCSession -----------------------------
(* Instances of Session for TLC. The configurations name the streams and   *)
(* the callers as model values; the caller s1 is a handler that closes its *)
(* own session.                                                            *)
EXTENDS Session
=============================================================================
