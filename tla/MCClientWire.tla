---------------------------- MODULE MCClientWire ----------------------------
(* Instances of ClientWire for TLC; callers of Close are interchangeable.  *)
EXTENDS ClientWire, TLC

Symmetry == Permutations(Users)
=============================================================================
