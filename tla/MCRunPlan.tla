----------------------------- MODULE MCRunPlan ------------------------------
(* A small instance of RunPlan for TLC. *)
EXTENDS RunPlan

CONSTANTS a, b

\* An agent that does its work.
Good == [NotRun EXCEPT !.answer = "completed", !.commits = TRUE]

\* Everything a completed phase may report and leave, and the ways not to complete.
Reporting ==
    {x \in AgentType : x.answer = "completed" /\ x.git = "stays" /\ x.pushes = "no"
                       /\ ~(x.fixed /\ x.dirty)} \cup
    {[NotRun EXCEPT !.dirty = d] : d \in BOOLEAN} \cup
    {[NotRun EXCEPT !.answer = "error", !.dirty = TRUE], [NotRun EXCEPT !.answer = "failed"]} \cup
    {[NotRun EXCEPT !.answer = "blocked", !.commits = c] : c \in BOOLEAN}

\* What an agent may do to git besides.
Straying ==
    {[Good EXCEPT !.git = g] : g \in {"leaves", "returns", "rewrites"}} \cup
    {[Good EXCEPT !.git = "rewrites", !.commits = FALSE]} \cup
    {[Good EXCEPT !.pushes = p] : p \in {"pushes", "forces"}}

AnyAgent == Reporting \cup Straying

OneOfEach == [r \in {a, b} |-> IF r = a THEN AnyAgent ELSE {Good}]
=============================================================================
