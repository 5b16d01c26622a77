----------------------------- MODULE MCProxyTLS ------------------------------
(* A small instance of ProxyTLS for TLC. *)
EXTENDS ProxyTLS, TLC

CONSTANTS c1, c2, github, other

\* One renewal with no file, one that does not load, and one without github.com.
MissingGens == {3}
BrokenGens  == {3, 5}
Certificates == [g \in 1 .. MaxGen |-> IF g = MaxGen THEN {} ELSE {github}]

ConnSymmetry == Permutations({c1, c2})
=============================================================================
