------------------------------- MODULE Webhook -------------------------------
(***************************************************************************)
(* orchestrator/webhook.go with `serve` and `run` of cmd/orchestrator: the *)
(* HTTP front-end that turns a GitHub delivery into a Job, and the command *)
(* line that turns what a human typed into one.                            *)
(*                                                                         *)
(* Every POST GitHub sends, first delivery or redelivery, is a request of  *)
(* its own and would start a run of its own (Start picks a fresh uid), so  *)
(* a request is named by the run it would start: Runs are the requests.    *)
(* A command is one too.  A request asks for the issue its Text spells;    *)
(* what Cluster calls an issue is the Job name that text has.              *)
(* Handlers run concurrently; the apiserver answers creates in any order;  *)
(* GitHub hangs up after 10s; the process is rolled, drained or killed.    *)
(***************************************************************************)
EXTENDS Cluster, Identity, FiniteSets

CONSTANTS
    Events,      \* label events; a redelivery is a second request of one event
    EventOf,     \* the event a request delivers
    Text,        \* [Runs -> the issue as the request spells it]
    Commands,    \* the requests that are typed: orchestrator run
    PayloadsOf,  \* [Runs -> what its delivery may look like]
    MaxKills     \* bound: SIGKILLs, and drains that ran out of time

ASSUME TextAssumption == Text \in [Runs -> Seq(DOMAIN Fold)]
ASSUME NameAssumption ==
    \A r \in Runs : \A run \in ParseIssue(Text[r]) : IssueOf[r] = JobName(run)
ASSUME CommandsAssumption == Commands \subseteq Runs
ASSUME EventOfAssumption == EventOf \in [Runs -> Events]
ASSUME BoundAssumption == MaxKills \in Nat

VARIABLES
    server,      \* "up", "draining" (SIGTERM received) or "down"
    req,         \* [Runs -> [stage, payload, code]]: the request and its handler
    wire,        \* requests whose create is on its way to the apiserver
    result,      \* [Runs -> what the apiserver said]
    github,      \* [Runs -> how the delivery stands on the App's page]
    kills,
    template,    \* cfg.Template: the Job every Job of the server is copied from
    object       \* [Runs -> the Job built for the request]

builderVars == <<template, object>>
webhookVars == <<builderVars, server, req, wire, result, github, kills>>
whVars      == <<clusterVars, webhookVars>>

-----------------------------------------------------------------------------
(* The guards of ServeHTTP *)

PayloadType ==
    [secret : BOOLEAN, fits : BOOLEAN, signed : BOOLEAN, event : {"issues", "ping"},
     json : BOOLEAN, action : {"labeled", "closed"}, label : {"ready", "other", "absent"},
     number : {0, 1}, state : {"open", "closed"}, sender : {"User", "ghost", "Bot"}]

ASSUME PayloadsAssumption == PayloadsOf \in [Runs -> SUBSET PayloadType]

\* The requests whose text is owner/repo#n.
Spelled == {r \in Runs : ParseIssue(Text[r]) # {}}

\* The authorization: a person, and one that still exists.
AnySender(p) == p.sender # "Bot"
Authorized(p) == p.sender \notin {"Bot", "ghost"}

\* The early returns in their order: what must hold, and the answer if it does not.
Checks(r, p) == <<
    <<p.secret,             500>>,
    <<p.fits,               413>>,
    <<p.signed,             401>>,
    <<p.event = "issues",   200>>,
    <<p.json,               400>>,
    <<p.action = "labeled", 200>>,
    <<p.label # "absent",   200>>,
    <<p.label = "ready",    200>>,
    <<p.number > 0,         200>>,
    <<p.state = "open",     200>>,
    <<Authorized(p),        200>>,
    <<r \in Spelled,          400>> >>

FailedChecks(r) ==
    LET checks == Checks(r, req[r].payload) IN {k \in DOMAIN checks : ~checks[k][1]}

\* The payload reaches Start.
Passes(r) == FailedChecks(r) = {}

\* The answer of the first check that fails.
Refusal(r) == Checks(r, req[r].payload)[Min(FailedChecks(r))][2]

Success(code) == code \in {200, 202}

-----------------------------------------------------------------------------

\* Of a Job, the runs whose identity and credential its environment lists; the chart's
\* template lists none.
Rendered == <<>>

\* Build: the run's variables behind those that are there.
Built(t, r) == Append(t, r)

\* The template after it: Build works on a DeepCopy.
TemplateAfter(t, r) == t

Stages == {"unsent", "received", "waiting", "answered", "lost"}
Running == {"received", "waiting"}

Codes == {0, 1, 200, 202, 400, 401, 413, 500}

Requests == [stage : Stages, payload : PayloadType, dry : BOOLEAN, code : Codes]

WebhookTypeOK ==
    /\ ClusterTypeOK
    /\ server \in {"up", "draining", "down"}
    /\ req \in [Runs -> Requests]
    /\ \A r \in Runs : req[r].payload \in PayloadsOf[r]
    /\ wire \subseteq Runs
    /\ result \in [Runs -> {"none", "created", "exists", "error"}]
    /\ github \in [Runs -> {"none", "pending", "delivered", "failed"}]
    /\ kills \in 0 .. MaxKills
    /\ template \in Seq(Runs)
    /\ object \in [Runs -> Seq(Runs)]

WebhookInit ==
    /\ ClusterInit
    /\ server = "down"
    /\ \E arrives \in {f \in [Runs -> UNION {PayloadsOf[r] : r \in Runs}] :
                          \A r \in Runs : f[r] \in PayloadsOf[r]} :
        req = [r \in Runs |-> [stage |-> "unsent", payload |-> arrives[r], dry |-> FALSE,
                               code |-> 0]]
    /\ wire = {}
    /\ result = [r \in Runs |-> "none"]
    /\ github = [r \in Runs |-> "none"]
    /\ kills = 0
    /\ template = Rendered
    /\ object = [r \in Runs |-> Rendered]

\* GitHub hears the answer unless it has hung up.
Hears(r, code) ==
    github' = IF github[r] = "pending"
              THEN [github EXCEPT ![r] = IF Success(code) THEN "delivered" ELSE "failed"]
              ELSE github

\* The handler, or the command, is done.
Answer(r, code) ==
    req' = [req EXCEPT ![r] = [stage |-> "answered", payload |-> req[r].payload,
                               dry |-> req[r].dry, code |-> code]]

\* GitHub delivers, or a human presses redeliver; no listener, no delivery.
Deliver(r) ==
    /\ r \notin Commands
    /\ req[r].stage = "unsent"
    /\ IF server = "up"
       THEN /\ req' = [req EXCEPT ![r].stage = "received"]
            /\ github' = [github EXCEPT ![r] = "pending"]
       ELSE /\ req' = [req EXCEPT ![r].stage = "lost"]
            /\ github' = [github EXCEPT ![r] = "failed"]
    /\ UNCHANGED <<clusterVars, builderVars, server, wire, result, kills>>

\* GitHub gives up on the delivery; the handler does not notice.
GitHubHangsUp(r) ==
    /\ github[r] = "pending"
    /\ github' = [github EXCEPT ![r] = "failed"]
    /\ UNCHANGED <<clusterVars, builderVars, server, req, wire, result, kills>>

\* A guard fails: the handler answers and nothing else happens.
Refuse(r) ==
    /\ req[r].stage = "received"
    /\ ~Passes(r)
    /\ Answer(r, Refusal(r))
    /\ Hears(r, Refusal(r))
    /\ UNCHANGED <<clusterVars, builderVars, server, wire, result, kills>>

\* startRun, of the server: one template for all its requests.
Builds(r) ==
    /\ object' = [object EXCEPT ![r] = Built(template, r)]
    /\ template' = TemplateAfter(template, r)

StartInGoroutine(r) ==
    /\ req[r].stage = "received"
    /\ Passes(r)
    /\ Answer(r, 202)
    /\ Hears(r, 202)
    /\ Builds(r)
    /\ wire' = wire \cup {r}
    /\ UNCHANGED <<clusterVars, server, result, kills>>

\* Start: a fresh uid, a Job built and its create sent under a detached context.
Start(r) ==
    /\ req[r].stage = "received"
    /\ Passes(r)
    /\ req' = [req EXCEPT ![r].stage = "waiting"]
    /\ Builds(r)
    /\ wire' = wire \cup {r}
    /\ UNCHANGED <<clusterVars, server, result, github, kills>>

MakesAny(r) == NameFree(IssueOf[r])

\* The create makes a Job: the name is free, and DryRun is not among its options.
Makes(r) == NameFree(IssueOf[r]) /\ ~req[r].dry

\* The apiserver executes a create: the Job, or AlreadyExists.  A dry run is answered
\* like any other and makes nothing.
CreateExecuted(r) ==
    /\ r \in wire
    /\ wire' = wire \ {r}
    /\ result' = [result EXCEPT ![r] = IF NameFree(IssueOf[r]) THEN "created" ELSE "exists"]
    /\ IF Makes(r) THEN Create(r) ELSE UNCHANGED clusterVars
    /\ UNCHANGED <<builderVars, server, req, github, kills>>

\* A create never reaches the apiserver.
CreateLost(r) ==
    /\ r \in wire
    /\ wire' = wire \ {r}
    /\ result' = [result EXCEPT ![r] = "error"]
    /\ UNCHANGED <<clusterVars, builderVars, server, req, github, kills>>

\* Create swallows AlreadyExists: either answer means a run is there.
Started(answer) == answer \in {"created", "exists"}

\* The create's answer arrives, and the handler's.
Accept(r) ==
    /\ r \notin Commands
    /\ req[r].stage = "waiting"
    /\ Started(result[r])
    /\ Answer(r, 202)
    /\ Hears(r, 202)
    /\ UNCHANGED <<clusterVars, builderVars, server, wire, result, kills>>

\* The create failed or its 30s are over, executed or not.
StartFails(r) ==
    /\ r \notin Commands
    /\ req[r].stage = "waiting"
    /\ Answer(r, 500)
    /\ Hears(r, 500)
    /\ UNCHANGED <<clusterVars, builderVars, server, wire, result, kills>>

-----------------------------------------------------------------------------
(* The command line *)

\* run: what does not parse is fatal; else the same build and create, perhaps dry.
RunCommand(r) ==
    /\ r \in Commands
    /\ req[r].stage = "unsent"
    /\ IF r \notin Spelled
       THEN Answer(r, 1) /\ UNCHANGED <<wire, object>>
       ELSE /\ \E dry \in BOOLEAN :
                  req' = [req EXCEPT ![r] = [stage |-> "waiting", payload |-> req[r].payload,
                                             dry |-> dry, code |-> req[r].code]]
            /\ wire' = wire \cup {r}
            /\ object' = [object EXCEPT ![r] = Built(Rendered, r)]
    /\ UNCHANGED <<clusterVars, template, server, result, github, kills>>

\* It waits for the apiserver without a deadline, and exits 0 or 1.  Interrupted, it is a
\* command that never returns: a create on its way is not called back.
CommandReturns(r) ==
    /\ r \in Commands
    /\ req[r].stage = "waiting" /\ result[r] # "none"
    /\ Answer(r, IF Started(result[r]) THEN 0 ELSE 1)
    /\ UNCHANGED <<clusterVars, builderVars, server, wire, result, github, kills>>

-----------------------------------------------------------------------------
(* The process *)

Boot ==
    /\ server = "down"
    /\ server' = "up"
    /\ template' = Rendered
    /\ UNCHANGED <<clusterVars, object, req, wire, result, github, kills>>

\* SIGTERM: Shutdown closes the listeners.
Sigterm ==
    /\ server = "up"
    /\ server' = "draining"
    /\ UNCHANGED <<clusterVars, builderVars, req, wire, result, github, kills>>

\* The handlers in flight end with the process; GitHub sees the connection break.
ProcessDies ==
    /\ server' = "down"
    /\ req' = [r \in Runs |-> IF r \notin Commands /\ req[r].stage \in Running
                              THEN [req[r] EXCEPT !.stage = "lost"] ELSE req[r]]
    /\ github' = [r \in Runs |-> IF github[r] = "pending" THEN "failed" ELSE github[r]]
    /\ UNCHANGED <<clusterVars, builderVars, wire, result>>

NoWait == TRUE

\* <-done: Shutdown returned because no handler is running.
Drained == \A r \in Runs \ Commands : req[r].stage \notin Running

ShutdownReturns == server = "draining" /\ Drained /\ ProcessDies /\ UNCHANGED kills

\* SIGKILL, or the 20s of Shutdown are over.
Killed == server # "down" /\ kills < MaxKills /\ ProcessDies /\ kills' = kills + 1

-----------------------------------------------------------------------------

Handle(r) == Refuse(r) \/ Start(r) \/ Accept(r) \/ StartFails(r)

Apiserver(r) == CreateExecuted(r) \/ CreateLost(r)

Command(r) == RunCommand(r) \/ CommandReturns(r)

WebhookNext ==
    \/ \E r \in Runs : Deliver(r) \/ GitHubHangsUp(r) \/ Handle(r) \/ Apiserver(r) \/ Command(r)
    \/ Boot \/ Sigterm \/ ShutdownReturns \/ Killed
    \/ ClusterNext /\ UNCHANGED webhookVars

WebhookSpec == WebhookInit /\ [][WebhookNext]_whVars

\* A handler that can go on goes on: Start's context bounds the only wait in it.
WebhookFairSpec == WebhookSpec /\ \A r \in Runs : WF_whVars(Handle(r))

-----------------------------------------------------------------------------
(* Properties *)

\* Whom a request is for: GitHub has no two issues that differ in case only.
AskedFor == [r \in Runs |-> Folded(Text[r])]

SameIssue(q, r) == AskedFor[q] = AskedFor[r]

\* Green on the App's page, or exit 0 and no dry run: whoever asked goes away content.
Accepted(r) ==
    IF r \in Commands THEN req[r].stage = "answered" /\ req[r].code = 0 /\ ~req[r].dry
    ELSE github[r] = "delivered" /\ Passes(r)

\* What was accepted has a run: its own, or one of the same issue that was there when
\* the create collided.  No loss hides behind a 2xx or an exit 0, and no lookalike
\* issue's run is taken for it.
AcceptedHasRun ==
    \A r \in Runs : Accepted(r) => \E q \in Runs : SameIssue(q, r) /\ job[q] # "absent"

\* Of what is delivered, only a signed ready label, put by a person on an open issue,
\* becomes a Job, whatever else arrives around it.
OnlyTheTrigger ==
    \A r \in Runs \ Commands : job[r] # "absent" =>
        LET p == req[r].payload
        IN  /\ p.secret /\ p.signed /\ p.event = "issues" /\ p.action = "labeled"
            /\ p.label = "ready" /\ p.number > 0 /\ p.state = "open" /\ p.sender = "User"

\* Two runs of one issue are never in the cluster together: redeliveries, second
\* labels, commands and other spellings of it collide on the Job name.
OneJobPerIssue ==
    \A q, r \in Runs : q # r /\ SameIssue(q, r) =>
        ~(job[q] \in JobPresent /\ job[r] \in JobPresent)

\* The run is read back out of its claim as it was put in.
ReadBack ==
    {r \in Runs : \E run \in ParseIssue(Text[r]) :
        ParseRun(Claim(run, <<"uid">>)) =
            {[owner |-> run.owner, repo |-> run.repo, issue |-> run.issue, uid |-> <<"uid">>]}}

\* The sandbox of a Job that was created authenticates as the run it was created for, and
\* as no other: the Job carries the identity and the credential of its own run only,
\* however many were built from the one template before it, and the proxy reads the
\* claim back as the very run the Job is annotated with.
AuthenticatesAsItself ==
    \A r \in Runs : job[r] # "absent" => object[r] = <<r>> /\ r \in ReadBack

-----------------------------------------------------------------------------
(* The inductive invariant *)

Sent(r) == r \in wire \/ result[r] # "none"

\* A create is sent once, for a request that passed, and its Job names that request alone.
SendIsDue(r) ==
    /\ Sent(r) => /\ r \in Spelled /\ (r \in Commands \/ Passes(r))
                  /\ object[r] = <<r>>
                  /\ req[r].stage \notin {"unsent", "received"}
    /\ r \in wire => result[r] = "none"
    /\ req[r].stage = "waiting" => Sent(r)

\* A Job is one whose create was executed.
JobIsCreated(r) == job[r] # "absent" => result[r] = "created" /\ ~req[r].dry

\* Whatever became of it since.
NameHadJob(i) == \E q \in Runs : IssueOf[q] = i /\ job[q] # "absent"

\* What is answered well was answered so by the apiserver, and the name has had a Job.
AnswerIsTrue(r) ==
    /\ Started(result[r]) /\ ~req[r].dry => NameHadJob(IssueOf[r])
    /\ Accepted(r) => Started(result[r])
    /\ IF r \in Commands THEN req[r].stage # "received" ELSE ~req[r].dry

NamesAreHeldOnce ==
    \A q, r \in Runs : q # r /\ IssueOf[q] = IssueOf[r] =>
        ~(job[q] \in JobPresent /\ job[r] \in JobPresent)

WebhookInv ==
    /\ WebhookTypeOK
    /\ template = Rendered
    /\ \A r \in Runs : SendIsDue(r) /\ JobIsCreated(r) /\ AnswerIsTrue(r)
    /\ NamesAreHeldOnce

-----------------------------------------------------------------------------
(* Liveness, and what the documentation promises *)

\* A received delivery is answered, unless the process is killed: a rollout alone
\* loses none.
AnsweredUnlessKilled ==
    \A r \in Runs : req[r].stage = "received" ~> (req[r].stage = "answered" \/ kills > 0)

\* "Webhook redelivery [resolves] to the same mechanism: the Job name."  One label event is
\* one run, also when it is delivered again after its run ended and the TTL took the Job.
RedeliveryIsIdempotent ==
    \A q, r \in Runs : q # r /\ EventOf[q] = EventOf[r] /\ Text[q] = Text[r] =>
        [](job[q] = "collected" /\ req[r].stage = "unsent" => [](job[r] = "absent"))
=============================================================================
