----------------------------- MODULE ReportOnce -----------------------------
(***************************************************************************)
(* What the watching half of the orchestrator promises, with no informer,  *)
(* no cache, no page and no process in it: every run that ends is told     *)
(* about once, and never before it ended.  A run is forgotten when its Job *)
(* is deleted: a comment may still come, none has to.                      *)
(***************************************************************************)
CONSTANT Runs

VARIABLES
    ending,   \* [Runs -> {"open", "ended", "forgotten"}]
    told      \* [Runs -> {"untold", "told", "repeated"}]

Init ==
    /\ ending = [r \in Runs |-> "open"]
    /\ told = [r \in Runs |-> "untold"]

\* The run comes to its ending.
End(r) ==
    /\ ending[r] = "open"
    /\ ending' = [ending EXCEPT ![r] = "ended"]
    /\ UNCHANGED told

\* The run's Job, the only record of the ending, is deleted.
Forget(r) ==
    /\ ending[r] = "ended"
    /\ ending' = [ending EXCEPT ![r] = "forgotten"]
    /\ UNCHANGED told

\* The issue is told.  There is no step to "repeated".
Tell(r) ==
    /\ ending[r] # "open"
    /\ told[r] = "untold"
    /\ told' = [told EXCEPT ![r] = "told"]
    /\ UNCHANGED ending

Next == \E r \in Runs : End(r) \/ Forget(r) \/ Tell(r)

\* An ended run does not stay both known and untold.
Settle(r) == ending[r] = "ended" /\ told[r] = "untold" /\ (Tell(r) \/ Forget(r))

Spec == Init /\ [][Next]_<<ending, told>>

FairSpec == Spec /\ \A r \in Runs : WF_<<ending, told>>(Settle(r))
=============================================================================
