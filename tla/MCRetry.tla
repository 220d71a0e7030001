------------------------------ MODULE MCRetry ------------------------------
(* Instances of Retry for TLC. With a minimum of 2 units and a limit of 15 *)
(* the products of the attempts are 2, 4, 8, and then 16 and more, which   *)
(* no longer fit.                                                          *)
EXTENDS Retry
=============================================================================
