----------------------------- MODULE MCReporter -----------------------------
(* Small instances of Reporter for TLC. *)
EXTENDS Reporter, TLC

CONSTANTS r1, r2, i1

OneIssue == [r \in {r1, r2} |-> i1]

\* Runs of one issue are interchangeable.
RunSymmetry == Permutations({r1, r2})
=============================================================================
