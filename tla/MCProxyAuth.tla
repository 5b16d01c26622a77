----------------------------- MODULE MCProxyAuth -----------------------------
(* A small instance of ProxyAuth for TLC. *)
EXTENDS ProxyAuth, TLC

CONSTANTS p1, p2, x, s1, s2

\* The second run has the first one's credential as well as its own.
HandedOn == [p \in {p1, p2} |-> IF p = p1 THEN {p1} ELSE {p1, p2}]

SlotSymmetry == Permutations({s1, s2})
=============================================================================
