---------------------------- MODULE Orchestrator -----------------------------
(***************************************************************************)
(* The orchestrator end to end: Webhook and the command line create Jobs,  *)
(* the Job controller ends them, and the watching half tells their issues. *)
(* Of the watching half only the promise is used, ReportOnce, which        *)
(* Reporter is shown to keep.                                              *)
(***************************************************************************)
EXTENDS Webhook

VARIABLES
    told,    \* [Runs -> {"untold", "told", "repeated"}], as in ReportOnce
    met      \* ghost: [Runs -> the run, not ended, whose Job the request's create made or met]

orchVars == <<whVars, told, met>>

Watcher == INSTANCE ReportOnce WITH ending <- [r \in Runs |-> Ending(r)]

OrchInit == WebhookInit /\ Watcher!Init /\ met = [r \in Runs |-> {}]

\* The run at work under the name of the request, once its create was executed.
AtWork(r) == {q \in Runs : IssueOf[q] = IssueOf[r] /\ job'[q] \in {"active", "interim"}}

\* The apiserver answers: the Job it made, or the one that has the name.
Meets ==
    met' = [r \in Runs |-> IF ~Started(result[r]) /\ Started(result'[r])
                           THEN AtWork(r) ELSE met[r]]

\* The watcher's step, whatever number of its own it takes.
Tells(r) == UNCHANGED <<whVars, met>> /\ Watcher!Tell(r)

OrchNext ==
    \/ WebhookNext /\ Meets /\ UNCHANGED told
    \/ \E r \in Runs : Tells(r)

OrchSpec == OrchInit /\ [][OrchNext]_orchVars

\* Settle of ReportOnce: one who is not forgotten first is told.
TellsInTime(r) == job[r] = "ended" /\ Tells(r)

\* What Build asks of the Job controller: activeDeadlineSeconds ends every Job, and
\* its pod is stopped.
ControllerEnds(r) ==
    /\ JobInterim(r) \/ JobEnds(r) \/ (job[r] = "interim" /\ PodStops(r))
    /\ UNCHANGED <<webhookVars, told, met>>

HandlerRuns(r) == Handle(r) /\ UNCHANGED <<told, met>>

OrchFairSpec ==
    /\ OrchSpec
    /\ \A r \in Runs :
        WF_orchVars(HandlerRuns(r)) /\ WF_orchVars(ControllerEnds(r)) /\ WF_orchVars(TellsInTime(r))

-----------------------------------------------------------------------------
(* Properties *)

\* "For that day a re-run of a failed issue reports `exists` ... and does nothing": the
\* create met a Job that had ended, and no run answers the request.
Swallowed(r) == result[r] = "exists" /\ met[r] = {}

\* Whoever was accepted hears of it afterwards: of the run the request started, or of the
\* one that was at work when it came, unless that run's Job is deleted first.  Only a
\* retry that an ended Job swallows is accepted and never heard of.
AcceptedIsTold ==
    \A r \in Runs : Accepted(r) ~>
        Swallowed(r) \/ \E q \in met[r] : told[q] = "told" \/ job[q] \in {"dropped", "collected"}
=============================================================================
