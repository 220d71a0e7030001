----------------------------- MODULE MCRegistry -----------------------------
(* Instances of Registry for TLC: client a has two sessions, a1 and its     *)
(* successor a2, which provide the same name; client b has one.             *)
EXTENDS Registry

CONSTANTS a1, a2, b1,   \* sessions
          na, nb,       \* the names of a and of b
          r1, r2        \* streams

ProvidesDef == [s \in {a1, a2, b1} |-> IF s = b1 THEN {nb} ELSE {na}]

\* b calls a, a calls the hub; nb is also handled by the hub.
FromDef == [r \in {r1, r2} |-> IF r = r1 THEN b1 ELSE a1]
WantsDef == [r \in {r1, r2} |-> IF r = r1 THEN na ELSE nb]
=============================================================================
