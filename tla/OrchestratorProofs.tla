------------------------- MODULE OrchestratorProofs --------------------------
(***************************************************************************)
(* What TLAPS proves about Orchestrator: composed with the watching half,  *)
(* the front-end keeps what it keeps alone, and nobody is told but who is  *)
(* due.                                                                    *)
(***************************************************************************)
EXTENDS Orchestrator, WebhookProofs

\* The front-end does not notice the watcher.
LEMMA WebhookIsKept == [OrchNext]_orchVars => [WebhookNext]_whVars
BY DEF OrchNext, Tells, orchVars

\* One step of the cluster brings one run one ending further, or none.
LEMMA EndingStep ==
    ASSUME ClusterTypeOK, NEW q \in Runs,
           Create(q) \/ PodStops(q) \/ PodGone(q) \/ JobInterim(q) \/ JobEnds(q) \/ JobRemoved(q)
    PROVE  /\ \A r \in Runs \ {q} : Ending(r)' = Ending(r)
           /\ \/ Ending(q)' = Ending(q)
              \/ Ending(q) = "open" /\ Ending(q)' = "ended"
              \/ Ending(q) = "ended" /\ Ending(q)' = "forgotten"
<1>1. \A r \in Runs \ {q} : job'[r] = job[r]
    BY DEF Create, PodStops, PodGone, JobInterim, JobEnds, JobRemoved, ClusterTypeOK
<1>2. \/ job'[q] = job[q]
      \/ job[q] = "absent" /\ job'[q] = "active"
      \/ job[q] = "active" /\ job'[q] = "interim"
      \/ job[q] = "interim" /\ job'[q] = "ended"
      \/ job'[q] = IF job[q] = "ended" THEN "collected" ELSE "dropped"
  <2>1. CASE PodStops(q) \/ PodGone(q)
    BY <2>1 DEF PodStops, PodGone
  <2>2. CASE Create(q) \/ JobInterim(q) \/ JobEnds(q) \/ JobRemoved(q)
    BY <2>2 DEF Create, JobInterim, JobEnds, JobRemoved, ClusterTypeOK
  <2> QED
    BY <2>1, <2>2
<1>3. job'[q] = (IF job[q] = "ended" THEN "collected" ELSE "dropped") =>
          job[q] \in JobPresent \/ job'[q] = job[q]
  BY DEF Create, PodStops, PodGone, JobInterim, JobEnds, JobRemoved, ClusterTypeOK, JobPresent
<1> QED
    BY <1>1, <1>2, <1>3 DEF Ending, JobPresent

\* A step of one run's ending is a step of the abstract specification.
LEMMA EndingsRefine ==
    ASSUME NEW q \in Runs, told' = told,
           \A r \in Runs \ {q} : Ending(r)' = Ending(r),
           \/ Ending(q)' = Ending(q)
           \/ Ending(q) = "open" /\ Ending(q)' = "ended"
           \/ Ending(q) = "ended" /\ Ending(q)' = "forgotten"
    PROVE  [Watcher!Next]_<<[r \in Runs |-> Ending(r)], told>>
<1>1. CASE Ending(q)' = Ending(q)
  <2>1. \A r \in Runs : Ending(r)' = Ending(r)
    BY <1>1
  <2> QED
    BY <2>1
<1>2. CASE Ending(q) = "open" /\ Ending(q)' = "ended"
  <2>1. \A r \in Runs : Ending(r)' = IF r = q THEN "ended" ELSE Ending(r)
    BY <1>2
  <2>2. [r \in Runs |-> Ending(r)]' = [[r \in Runs |-> Ending(r)] EXCEPT ![q] = "ended"]
    BY <2>1
  <2>3. Watcher!End(q)
    BY <1>2, <2>2 DEF Watcher!End
  <2> QED
    BY <2>3 DEF Watcher!Next
<1>3. CASE Ending(q) = "ended" /\ Ending(q)' = "forgotten"
  <2>1. \A r \in Runs : Ending(r)' = IF r = q THEN "forgotten" ELSE Ending(r)
    BY <1>3
  <2>2. [r \in Runs |-> Ending(r)]' = [[r \in Runs |-> Ending(r)] EXCEPT ![q] = "forgotten"]
    BY <2>1
  <2>3. Watcher!Forget(q)
    BY <1>3, <2>2 DEF Watcher!Forget
  <2> QED
    BY <2>3 DEF Watcher!Next
<1> QED
    BY <1>1, <1>2, <1>3

\* Of the front-end's steps, only the apiserver's and Kubernetes' own touch a Job.
LEMMA WebhookRefines ==
    ASSUME WebhookInv, WebhookNext, told' = told
    PROVE  [Watcher!Next]_<<[r \in Runs |-> Ending(r)], told>>
<1>1. ClusterTypeOK
    BY DEF WebhookInv, WebhookTypeOK
<1>2. \/ job' = job
      \/ \E q \in Runs : Create(q) \/ PodStops(q) \/ PodGone(q) \/ JobInterim(q) \/ JobEnds(q)
                         \/ JobRemoved(q)
  <2>1. CASE \E r \in Runs : CreateExecuted(r)
    BY <2>1 DEF CreateExecuted, Makes, clusterVars
  <2>2. CASE ClusterNext
    BY <2>2 DEF ClusterNext
  <2>3. CASE \E r \in Runs : Deliver(r) \/ GitHubHangsUp(r) \/ Handle(r) \/ CreateLost(r) \/ Command(r)
    BY <2>3 DEF Deliver, GitHubHangsUp, Handle, Refuse, Start, Accept, StartFails, CreateLost,
                Command, RunCommand, CommandReturns, clusterVars
  <2>4. CASE Boot \/ Sigterm \/ ShutdownReturns \/ Killed
    BY <2>4 DEF Boot, Sigterm, ShutdownReturns, Killed, ProcessDies, clusterVars
  <2> QED
    BY <2>1, <2>2, <2>3, <2>4 DEF WebhookNext, Apiserver
<1>3. CASE job' = job
    BY <1>3 DEF Ending
<1>4. ASSUME NEW q \in Runs, Create(q) \/ PodStops(q) \/ PodGone(q) \/ JobInterim(q)
                             \/ JobEnds(q) \/ JobRemoved(q)
      PROVE  [Watcher!Next]_<<[r \in Runs |-> Ending(r)], told>>
    BY <1>1, <1>4, EndingStep, EndingsRefine
<1> QED
    BY <1>2, <1>3, <1>4

\* What the watcher tells, it was promised to.
LEMMA OrchRefines ==
    ASSUME WebhookInv, [OrchNext]_orchVars
    PROVE  [Watcher!Next]_<<[r \in Runs |-> Ending(r)], told>>
<1>1. CASE WebhookNext /\ UNCHANGED told
    BY <1>1, WebhookRefines
<1>2. ASSUME NEW r \in Runs, Tells(r)
      PROVE  [Watcher!Next]_<<[q \in Runs |-> Ending(q)], told>>
    BY <1>2 DEF Tells, Watcher!Next
<1>3. CASE UNCHANGED orchVars
  <2>1. job' = job /\ told' = told
    BY <1>3 DEF orchVars, whVars, clusterVars
  <2> QED
    BY <2>1 DEF Ending
<1> QED
    BY <1>1, <1>2, <1>3 DEF OrchNext

\* Who was told about had ended, and nobody is told twice.
ToldInv ==
    /\ told \in [Runs -> {"untold", "told"}]
    /\ \A r \in Runs : told[r] = "told" => Ending(r) # "open"

\* A step of the abstract watcher keeps ToldInv: runs end for good and are told of once.
LEMMA ToldStep ==
    ASSUME ToldInv, [Watcher!Next]_<<[r \in Runs |-> Ending(r)], told>>
    PROVE  ToldInv'
<1>1. CASE UNCHANGED <<[r \in Runs |-> Ending(r)], told>>
  <2>1. told' = told /\ \A r \in Runs : Ending(r)' = Ending(r)
    BY <1>1
  <2> QED
    BY <2>1 DEF ToldInv
<1>2. ASSUME NEW q \in Runs, Watcher!End(q) \/ Watcher!Forget(q)
      PROVE  ToldInv'
  <2>1. told' = told /\ \A r \in Runs : Ending(r)' # "open" \/ Ending(r)' = Ending(r)
    BY <1>2 DEF Watcher!End, Watcher!Forget
  <2> QED
    BY <2>1 DEF ToldInv
<1>3. ASSUME NEW q \in Runs, Watcher!Tell(q)
      PROVE  ToldInv'
  <2>1. /\ Ending(q) # "open" /\ told' = [told EXCEPT ![q] = "told"]
        /\ \A r \in Runs : Ending(r)' = Ending(r)
    BY <1>3 DEF Watcher!Tell
  <2> QED
    BY <2>1 DEF ToldInv
<1> QED
    BY <1>1, <1>2, <1>3 DEF Watcher!Next

\* Whoever an issue is told about had ended and was due: its Job names it alone and, if it was
\* delivered, the delivery was the trigger.
ToldIsDue ==
    \A r \in Runs : told[r] # "untold" =>
        /\ told[r] = "told" /\ Ended(r) /\ object[r] = <<r>>
        /\ r \in Commands \/ Passes(r)

-----------------------------------------------------------------------------
(* Theorems *)

\* Composed with the watcher, the front-end behaves as it does alone; what is proved of it
\* holds end to end.
THEOREM FrontEndIsKept ==
    OrchSpec => WebhookSpec /\ [](OneJobPerIssue /\ AcceptedHasRun /\ OnlyTheTrigger
                                                 /\ AuthenticatesAsItself)
<1>1. OrchInit => WebhookInit
    BY DEF OrchInit
<1>2. OrchSpec => WebhookSpec
    BY <1>1, WebhookIsKept, PTL DEF OrchSpec, WebhookSpec
<1> QED
    BY <1>2, OneJob, AcceptedRuns, TriggerOnly, OwnIdentity, PTL

\* From the label to the comment: nobody's run is told about but one that was asked for in the
\* way the documentation allows, and it is told about after its end and once.
THEOREM OnlyTheDueAreTold == OrchSpec => []ToldIsDue
<1>1. OrchInit => ToldInv
    BY DEF OrchInit, Watcher!Init, ToldInv
<1>2. ToldInv /\ [Watcher!Next]_<<[r \in Runs |-> Ending(r)], told>> => ToldInv'
    BY ToldStep
<1>3. WebhookInv /\ [OrchNext]_orchVars =>
          [Watcher!Next]_<<[r \in Runs |-> Ending(r)], told>>
    BY OrchRefines
<1>4. WebhookInv /\ ToldInv => ToldIsDue
  <2> SUFFICES ASSUME WebhookInv, ToldInv, NEW r \in Runs, told[r] # "untold"
               PROVE  /\ told[r] = "told" /\ Ended(r) /\ object[r] = <<r>>
                      /\ r \in Commands \/ Passes(r)
    BY DEF ToldIsDue
  <2>1. told[r] = "told" /\ Ending(r) # "open"
    BY DEF ToldInv
  <2>2. Ended(r) /\ job[r] # "absent"
    BY <2>1 DEF Ending, Ended
  <2> QED
    BY <2>1, <2>2, JobIsDue
<1>5. OrchSpec => []WebhookInv
    BY FrontEndIsKept, WebhookInvariance, PTL
<1> QED
    BY <1>1, <1>2, <1>3, <1>4, <1>5, PTL DEF OrchSpec
=============================================================================
