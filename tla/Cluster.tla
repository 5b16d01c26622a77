------------------------------- MODULE Cluster -------------------------------
(***************************************************************************)
(* The Kubernetes namespace the runs live in, as the orchestrator uses it: *)
(* one Job per issue (JobName is a function of the issue alone), one pod   *)
(* per Job, and a Job controller that brings the Job to its ending.  All   *)
(* of it but JobName and Create is Kubernetes' own code: it is modelled    *)
(* from what informer.go and job.go rely on.                               *)
(*                                                                         *)
(* A run is identified by its uid and carries the issue it works for, so   *)
(* the Job and the pod of a run are indexed by the run.  That two Jobs of  *)
(* one issue have one name is the rule NameFree.                           *)
(***************************************************************************)
EXTENDS Integers

CONSTANTS
    Runs,      \* run uids: one per attempt to work on an issue
    Issues,    \* GitHub issues; each has exactly one Job name
    IssueOf    \* the issue a run works for

ASSUME IssueOfAssumption == IssueOf \in [Runs -> Issues]

VARIABLES
    job,       \* [Runs -> JobStates]
    pod        \* [Runs -> PodStates]

clusterVars == <<job, pod>>

(***************************************************************************)
(* "interim" is FailureTarget or SuccessCriteriaMet, which the controller  *)
(* sets before the pod has stopped; "ended" is a True Complete or Failed.  *)
(* A Job that is deleted is "collected" when it had ended (the TTL, or a   *)
(* human) and "dropped" when it had not.                                   *)
(***************************************************************************)
JobPresent == {"active", "interim", "ended"}
JobStates  == JobPresent \cup {"absent", "dropped", "collected"}

(***************************************************************************)
(* "live" covers pending and running.  A terminated agent container left a *)
(* result blob as its termination message, or died silently.               *)
(***************************************************************************)
PodPresent == {"live", "blob", "silent"}
PodStates  == PodPresent \cup {"none", "gone"}

ClusterTypeOK ==
    /\ job \in [Runs -> JobStates]
    /\ pod \in [Runs -> PodStates]

ClusterInit ==
    /\ job = [r \in Runs |-> "absent"]
    /\ pod = [r \in Runs |-> "none"]

-----------------------------------------------------------------------------

\* The Job name of issue i is not taken.
NameFree(i) == \A r \in Runs : IssueOf[r] = i => job[r] \notin JobPresent

\* The Jobs an API list answers with for issue i: none, or the one holding the name.
Listed(i) ==
    {[run |-> r, cond |-> job[r]] : r \in {q \in Runs : IssueOf[q] = i /\ job[q] \in JobPresent}}

\* Create: the apiserver accepts the Job of a fresh run, and its pod follows.
Create(r) ==
    /\ job[r] = "absent"
    /\ NameFree(IssueOf[r])
    /\ job' = [job EXCEPT ![r] = "active"]
    /\ pod' = [pod EXCEPT ![r] = "live"]

\* The agent container terminates, having written its blob or nothing.
PodStops(r) ==
    /\ pod[r] = "live"
    /\ \E left \in {"blob", "silent"} : pod' = [pod EXCEPT ![r] = left]
    /\ UNCHANGED job

\* The pod object goes: deadline, eviction, a drained node, garbage collection.
PodGone(r) ==
    /\ pod[r] \in PodPresent
    /\ pod' = [pod EXCEPT ![r] = "gone"]
    /\ UNCHANGED job

\* The controller decides the Job's fate, at the pod's end or at activeDeadlineSeconds.
JobInterim(r) ==
    /\ job[r] = "active"
    /\ job' = [job EXCEPT ![r] = "interim"]
    /\ UNCHANGED pod

\* The terminal condition, deferred until no pod of the Job is running.
JobEnds(r) ==
    /\ job[r] = "interim"
    /\ pod[r] # "live"
    /\ job' = [job EXCEPT ![r] = "ended"]
    /\ UNCHANGED pod

\* ttlSecondsAfterFinished, or a human with kubectl.
JobRemoved(r) ==
    /\ job[r] \in JobPresent
    /\ job' = [job EXCEPT ![r] = IF job[r] = "ended" THEN "collected" ELSE "dropped"]
    /\ UNCHANGED pod

\* Kubernetes' own steps.
ClusterNext ==
    \E r \in Runs :
        \/ PodStops(r)
        \/ PodGone(r)
        \/ JobInterim(r)
        \/ JobEnds(r)
        \/ JobRemoved(r)

\* The run came to an ending a human is owed a comment about.
Ended(r) == job[r] \in {"ended", "collected"}

\* The ending as ReportOnce knows it.
Ending(r) ==
    IF job[r] = "ended" THEN "ended" ELSE IF job[r] = "collected" THEN "forgotten" ELSE "open"
=============================================================================
