---------------------------- MODULE MCServerWire ----------------------------
(* Instances of ServerWire for TLC; clients are interchangeable, and so    *)
(* are the callers of Close.                                               *)
EXTENDS ServerWire, TLC

Symmetry == Permutations(Users) \cup Permutations(Clients)
=============================================================================
