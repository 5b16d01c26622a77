# Verification of the-implementer

TLA+ models of the-implementer, the configurations that check them with TLC, and
theorems about them that TLAPS checks. Every definition is translated from the source
(`src/`); `PROJECT.json` names, for each, the file, the lines and the symbol it stands
for, and for each property a mutation of the code that breaks it.

## The system

A maintainer puts the label `ready` on a GitHub issue. The *orchestrator* turns the
webhook delivery into a Kubernetes Job; the Job's pod, the *sandbox*, lets an agent work
on the issue, review its work and push a branch; the orchestrator's other half watches
the Job and writes the outcome on the issue. The pod holds no credential: everything it
sends goes through the *proxy*, which knows the pod by its address and a derived secret,
and puts the real credentials on the requests that are due one.

| part | source | state it keeps | operations | talks to |
|---|---|---|---|---|
| Webhook front-end | `orchestrator/webhook.go`, `serve` and `startRun` in `cmd/orchestrator/main.go` | the Job template, read at boot; the rest the apiserver has | the guards of a delivery, `Start`, drain and shutdown | GitHub (deliveries), apiserver (create) |
| Command line | `run`, `watch`, `cred` in `cmd/orchestrator/main.go` | none | `run` builds and creates as the webhook does, perhaps dry | apiserver |
| Job builder | `orchestrator/job.go`, `jobname.go` | none; one template for all Jobs | `Build`, `Create`, `Phase`, `JobName`, `ParseIssue` | apiserver |
| Reporter | `orchestrator/informer.go`, `comment.go`, `watch` in `main.go` | informer cache and queue, `done`; the comment thread is the only durable record | `Watch`, `Reconcile`, `report`, `podOf`, `read`, `GitHub.Report`, `reported` | apiserver (watch, list), GitHub (list comments, create one) |
| Run plan | `sandbox/phase.sh`, `result.go` | the working tree and branch, the phases' results | preflight, clone, brief, three agent phases, verdict, push, report | the remote, the termination message and exit code the Reporter reads |
| Proxy: authentication | `proxy/auth.go`, `pods.go`, `identity.go` | the pod informer's index by address, a failure budget per address | `authenticate`, `identify`, `Pods.Run` | the pods' statuses |
| Proxy: connections | `proxy/proxy.go` | one goroutine per connection | dispatch, tunnel, intercept, the keep-alive loop | upstreams |
| Proxy: credentials | `proxy/creds.go`, `gar.go`, `mint.go`, `google.go` | the host table; one installation token per run, behind one lock | `For`, `swap`, `token` | GitHub's App API, the metadata server |
| Proxy: certificate | `proxy/cert.go` | the loaded pair and its timestamp | `current` | the mounted Secret, which the kubelet swaps |
| Proxy: model route | `proxy/vertex.go` | none | `rewriteVertex`, `ServeHTTP` | Vertex |
| Proxy: boot | `cmd/proxy/main.go` | none | loads the certificate, checks the credentials against it, listens | |
| Charts | `charts/` | none | configuration: one `serve` replica, the Job's deadline, its TTL, no retries | |

What is hard in it, and what the properties are for (each hazard stands at its line in
`PROJECT.json`):

- *Exactly one comment per run* (Reporter). The process keeps nothing across a restart.
  It reads the thread page by page, then posts; it may be killed anywhere, lose the
  answer to a POST that was executed, and share the thread with people and bots.
  A comment that is deleted moves the others across the page boundary.
- *A true comment* (Reporter). A Job announces its fate before its pod has stopped; the
  pod of an earlier run of the issue has the same Job name; the handler works on a cache.
- *Every ending is told* (Reporter). A failed report is retried by the resync alone.
- *One run per issue* (Webhook). Redeliveries, second labels and rollouts race; the only
  arbiter is the Job's name, which must be one for the spellings of an issue and another
  for an issue whose name reads alike.
- *The run's own identity* (Job builder). It is typed or delivered, becomes a Job's
  annotations, a claim in an environment variable, and is read back by the proxy; every
  Job is built from one shared template.
- *From the label to the comment* (both halves). What was accepted must be heard of, across
  collisions, rollouts, kills and the Job's deadline.
- *No accepted delivery without a run* (Webhook). GitHub hangs up after ten seconds; the
  create runs on under a context of its own; SIGTERM and SIGKILL come at any time.
- *The result says what happened* (Run plan). Each phase may die, leave work uncommitted,
  or report what is not so; it has git and the network, and the script counts on HEAD and
  pushes `$BRANCH`. There are two result channels, blob and exit code, and either may fail.
- *Which run is calling* (Proxy). The cache shows addresses late, and twice.
- *Which credential leaves* (Proxy). Connections of several runs share the minter, and a
  host may be spelled so that two rules disagree about it.
- *What a model call may be* (Proxy). The path is the sandbox's own; it picks the host,
  and Google's identity goes with it.
- *Serving through a renewal* (Proxy). The Secret is swapped between the stat and the reads,
  and between the boot's check, the decision on a CONNECT and its handshake.

## Modules

| module | models | checked by | proofs |
|---|---|---|---|
| `Cluster` | the namespace: Jobs, their pods, `Create`, the Job name as the lock of an issue | through Reporter and Webhook | used by `ReporterProofs` and `WebhookProofs` |
| `Reporter` | the whole of `informer.go`, with the process's lifecycle | `reporter_*` | `ReporterProofs` |
| `ReportOnce` | abstract: every ended run is told once | `reporter_live` (refinement); assumed by `Orchestrator` | safety half in `ReporterProofs` |
| `Identity` | `ParseIssue`, `JobName`, `slugify`, `Cred`'s claim, `parseRun`, as operators | through Webhook | `WebhookProofs` |
| `Webhook` | `webhook.go`, `serve`, `run`, `Build` | `webhook_*`, `orchestrator` | `WebhookProofs` |
| `Orchestrator` | Webhook and ReportOnce over one Cluster | `orchestrator` | `OrchestratorProofs` |
| `RunPlan` | `phase.sh` | `run_plan` | `RunPlanProofs` |
| `CertReload` | `cert.go` | `proxy_tls` | `CertReloadProofs` |
| `ProxyTLS` | the three users of `cert.go`: boot, CONNECT, handshake | `proxy_tls` | `ProxyTLSProofs` |
| `ProxyAuth` | `auth.go`, `pods.go`, `identity.go` | `proxy_auth` | `ProxyAuthProofs` |
| `Creds` | `creds.go`, `gar.go` as operators | through ProxyConn | `ProxyPortProofs` |
| `ProxyConn` | `proxy.go`, `mint.go` | `proxy_port` | `ProxyPortProofs` |
| `ModelRoute` | `vertex.go` and its configuration, as operators | through ProxyPort | `ProxyPortProofs` |
| `ProxyPort` | the port: ProxyConn's CONNECTs and, beside them, model calls | `proxy_port` | `ProxyPortProofs` |

`Reporter` and `Webhook` extend `Cluster`; `Webhook` extends `Identity`; `Orchestrator`
extends `Webhook` and instantiates `ReportOnce`; `ProxyTLS` extends `CertReload`;
`ProxyConn` extends `Creds`; `ProxyPort` extends `ProxyConn` and `ModelRoute`. Each `MC`
module gives its module's constants small values. A `Proofs` module extends the module it is about;
`OrchestratorProofs` extends `WebhookProofs` too, so what is proved of the front-end is
carried to the composition and not proved again.

### Cluster

A run is its uid. `job[r]` and `pod[r]` are the Job and the pod of run `r`; two runs of
one issue want one Job name, so `Create(r)` needs `NameFree(IssueOf[r])`. Kubernetes'
part is modelled from what the code relies on: a Job first announces its fate
(`interim`: FailureTarget, SuccessCriteriaMet) and reaches Complete or Failed (`ended`)
only when its pod runs no more, which is the API's own rule and what `terminal` waits
for; a pod may vanish at any time; a Job may be deleted at any time.

### Reporter

| variable | code |
|---|---|
| `thread` | the issue's comments, oldest first: author kind, whose marker, whether it leads, what it quotes |
| `mode` | no process, `Watch`, or `watch -once` (`Reconcile`) |
| `cache`, `queue` | the informer's store and the events its handler has not taken |
| `cur` | the `report` in progress: its run, the API call it is at, its page, the outcome read |
| `done` | `Reporter.done` |
| `listed`, `errs` | what `Reconcile` listed and the errors it joined |
| `orphans` | POSTs their sender gave up on and GitHub has not executed |

One action per API call: `TakeEvent` (the early returns), `ReadPod` (`podOf`, `read`),
`TokenMinted`, `ReadPage` (one page of `reported`), `SendPost`, `PostLands`,
`PostReturns`. Between any two the cluster moves, others comment, a call fails
(`CallFails`, which may lose the answer of an executed POST) or the process dies
(`Crash`); others delete their comments (`CommentDeleted`). Three variables are history.
`shifted`: a comment on a page already read was deleted while the scan went on, so that the
next page starts one comment too late. `late`: GitHub executed a POST its sender had given
up on (`OrphanLands`). `mimicked`: the runs whose marker a bot other than the App has put
at the start of a comment, which is all that `reported` asks of one. `ObserveChange`, `ObserveDelete` and `Resync` are the informer. The second run
of an issue is a run whose `Create` comes after the first one's Job was deleted.

`ReportOnce` is the promise without the machinery: a run ends, its record may be
forgotten, the issue is told, once. `Reporter` maps to it by `Ending` and `Told`.

### Identity

A text is a sequence of pieces: words, and separators. `ParseIssue` is a set, empty for an
error. `JobName` is a slug and a hash of the case-folded identity; the hash is the identity
itself, so two of them never collide (the code truncates it to 32 bits). `Claim` and
`ParseRun` are the two ends of the proxy credential's user name.

### Webhook

A request, delivered or typed (`Commands`), is named by the run it would start; `Text` is
the issue as it spells it, and `IssueOf` the Job name of that. `Checks` lists the guards of
`ServeHTTP` in their order with their answers; `Start` builds the Job and sends the create;
`CreateExecuted`, `CreateLost` are the apiserver's side, `Accept` and `StartFails` the
handler's, `GitHubHangsUp` GitHub's. `RunCommand` and `CommandReturns` are `run`, dry or
not. `Sigterm`, `ShutdownReturns`, `Killed`, `Boot` are the process. `github` is what the
delivery looks like on the App's page. `template` and `object` are the shared template and
the Job built from it, as the runs whose identity each carries.

A redelivery is a second request with the event and the text of the first. That a run
exists for every accepted delivery is not said of one whose answer was lost: a delivery that
is red on the App's page may have its run, which is the case the Job's name is for.

### Orchestrator

`Webhook` and the promise of the other half, `ReportOnce`, over one namespace, from the
label to the comment: the Job controller ends what the webhook created, the watcher tells.
That `Reporter` keeps the promise is `reporter_live`'s matter. `met` is history: the run at
work whose Job a request's create made or met. `Swallowed` is the request for which there
was none, because the Job that had the name had ended: `job.go:238-244` says that such a
retry is answered `exists` and does nothing.

### RunPlan

Each run is a `phase.sh` at one of the `Working` steps, on its way out with its blob
written or not (`Exiting`), or exited. An agent phase does anything in `Agents`: it answers
or dies; leaves the branch, comes back to it or rewrites it; commits or not; pushes the
branch, or forces it; leaves changes or not. `head` and `branch` are the commits since
`BASE_SHA` on HEAD and on `$BRANCH`, `on` says that HEAD is the branch: the script counts
the former (`HasCommits`) and pushes the latter (`Push`). A commit is known by its phase
and its author, and a history is the set of its commits. `PhaseStatus`, `Verdict`,
`CommitsLeftover`, `ExitCode` are the script's decisions; `Die` and `Killed` end it early
at every step, and a failed write of the blob is logged and no more (`Reports`). Several
runs share the branch name on one `remote`, and `forced` is history: some agent forced a
push. In one phase an agent makes one move of each kind, in the order HEAD, commit, push,
changes left over; what it does in several is the sequence of three phases.

### CertReload

The mount's content is a generation, renewed by `Swap` between any two steps of one call
of `current`: `Stat`, `ReadCrt`, `ReadKey`, `Install`. `still` is history: the mount held
still since the call began. Two generations with one timestamp are not modelled.

### ProxyTLS

`caller` is who holds the mutex of `current`: the boot (`Main`), or a connection that
decides (`AskIntercepts`, `Decide`) or shakes hands (`ClientHello`, `Handshake`). The boot
asks for every credentialed host in turn (`AskForHost`, `HostChecked`) and listens when all
were found. `NamedBy` says which hosts a generation of the certificate names; `promised`
is history: the generation the boot found a host on.

### ProxyAuth

`holder` is the truth about an address, `pod` what the apiserver says, `cache` what the
informer saw last. Each lags behind the one before: an address is used before it is
published and released before the phase says so. A request is admitted by its address's
budget (`Arrive`), its credential is checked (`CheckCredential`), its address looked up
until one pod has it or the wait ends (`Resolve`, `GiveUp`, `WaitEnds`). `Holds` says
which runs' credentials a pod has; in the checked instance one pod has another's.

### Creds and ProxyConn

A host name is a sequence of pieces with `"."` among them, which is what the patterns
tell apart; a header is its shape and what is in its halves, of which there are six shapes:
in three of them, which no client sends, the code does not look for a sentinel (no scheme,
a Basic value that is no base64, or without a colon). A connection is dispatched
on the CONNECT authority alone; `ReadRequest` applies the pin and the swap;
`TakeCached`, `StartMint`, `MintReturns`, `MintFails` are `minter.token`, with its lock
as `lock` and expiries against the clock `now`. A token is what GitHub made it: the run it
was minted for and an `ExpiresAt` counted from some moment since GitHub was asked (`asked`);
the round trip has no deadline, so a token may be old when it arrives. The cache, `tokens`,
is by the run a token is looked up for, which is another matter than the run it was minted
for. A tunnel is its two ends and its two copiers, and the ends whose peer does not read
(`full`, by `Dawdles`), where a write blocks. `NobodyParked` says that after a half-close no
copier waits for an end nobody will close; one that is `Blocked` in a write waits for its
peer. A connection that is over makes room for the next. The steps between the answer of `token` and `RoundTrip` do no I/O and are one.

### ModelRoute and ProxyPort

A path is the sequence of its segments, an empty one where two slashes meet. `Rewritten` is
`rewriteVertex`, empty for a refusal, built of its steps `Appended`, `Versioned`, `IsClean`
and `IsModelCall`; `Resolved` is what a server makes of a path; `Boots` is what the configuration must be for the proxy to start.
`ProxyPort` adds the request that is not a CONNECT: 501, 405, 400, 502, or sent, after which
the connection is as new.

## Runs

| run | what it shows | bounds | distinct states |
|---|---|---|---|
| `reporter_safety` | never two comments for a run unless a deletion moved the page being read or a POST came late (`AtMostOneComment`), none before its ending (`ActiveIsUncommented`), none quoting another run's pod (`ReportIsOwn`), none hiding a blob (`BlobNotLost`), no run silenced but by another bot that leads with its marker (`DoneIsRecorded`); the proof's `IInv` | two runs of one issue, pages of one comment, 1 crash or failing call, late POSTs, 1 foreign comment: a person's or a bot's, led by a marker or quoting it, which may be deleted | 2.9 million |
| `reporter_live` | `KeepsPromise`: Reporter implements ReportOnce, fairness and all | two runs, 2 crashes or failing calls | 148 thousand |
| `reporter_late_post` | *violated*: a POST that reached GitHub is found by the next process either way (`FoundEitherWay`) | 1 crash or failing call | |
| `reporter_collected` | *violated*: a collected Job was reported on (`CollectedWasReported`) | | |
| `reporter_mimicked` | *violated*: only comments the App itself wrote count (`OnlyOwnCount`) | no failure, 1 foreign comment | |
| `orchestrator` | `OnlyTheTrigger`: a delivery that differs from the trigger in any one field starts nothing; `AuthenticatesAsItself`: a Job's sandbox authenticates as the run it was made for, never as another whose Job was built before it; `AnsweredUnlessKilled`: a rollout answers all it received; `AcceptedIsTold`: whoever was accepted hears, afterwards, of the run his request started or of the one that was at work when it came, unless an ended Job swallowed it | two deliveries of one issue in two spellings, one of them every payload one field away; 1 kill | 127 thousand |
| `webhook_race` | `OneJobPerIssue`; `AcceptedHasRun`: a green delivery or an exit 0 has a run of its own issue; `AuthenticatesAsItself`, with names no claim can carry; the proof's `WebhookInv` | one issue delivered and typed in another case, its lookalike and a name with a comma typed, dry or not; a sender that may be gone; a rollout, 1 kill | 2.1 million |
| `webhook_redelivery` | *violated*: an event whose Job the TTL collected after its end makes no second run when it is delivered again (`RedeliveryIsIdempotent`) | one event, twice, word for word | |
| `run_plan` | `SuccessIsPushed`: what is called a success is a branch the remote has, with the commits that were counted; `WorkIsPushed`: and with all that the phases made; `CompletedIsReviewed`; `ChannelsAgree`: exit 0 is a run that pushed, and its blob says its verdict or could not be written; the proof's `PlanInv` | two runs; the agents of one do in each phase anything to report and leave, or one thing to HEAD, the branch or the remote | 3.6 million |
| `proxy_tls` | `NeverStuck`, `FreshAnswer`; the proof's `TLSInv`, which holds `KeepsServing` and `CertReload`'s own invariant; `DecidedIsPresented`: an interception is presented a certificate for its host, and `CredentialedIsIntercepted`: no credentialed host is tunnelled, unless a renewal really dropped the host | two boots, two connections, two hosts, 7 renewals: one missing, one broken, the last without the host | 342 thousand |
| `proxy_auth` | `IdentityIsEarned`, `FirstRequestWaits`, `FailuresAreBounded`, `SettledCacheIsTrue`; the proof's `AuthInv` | two runs on one address, two requests at a time, three in all, a budget of one, one refill | 2.6 million |
| `proxy_port` | `CredentialIsDue`, `NoSentinelUpstream`, `TunnelIsDueNothing`, `TokenOutlivesRequest`, `MintedOnce`, `NobodyParked`; `ModelCallIsDue`: what leaves is one inference call, to the host of its own location, and Google's identity goes to Google only; the proof's `PortInv` | two connections, two runs, four names and a spelling of one of them, six headers, tokens of life 3 and skew 1, time up to 2; eleven paths in two forms under every configuration | 360 thousand |

Why the bounds are enough. Pages of one comment put the marker beyond the first page as
soon as there are two comments, and on a page boundary always. Two runs of one issue are
what a re-run needs, and by symmetry a third adds no new pair. `MaxFaults` counts crashes
and failing calls together: with one a POST is lost, or its answer, and repeated while it
may still land; with two, in the liveness run, the repetition is lost too. `MaxQueue` bounds events waiting, not
events seen: it is above the number of Jobs the liveness run keeps in its cache, so that
a resync cannot keep the queue from draining. One address suffices for recycling, for
addresses share nothing but the pods. Seven renewals are more than a call has steps, so each gap of a
call, and each gap between two calls of one connection, may have its own. The four texts of
`webhook_race` are an issue, its other spelling, the issue it shares a slug with, and one
that no claim could carry; the slug of the first is longer than what fits, so that it is
cut at a dash. The eleven paths have one for each refusal and each spelling the route
accepts, among them a project called `locations` and one called `..`. A clock that goes to
2 with a life of 3 and a skew of 1 passes the moment a token of the first instant stops
being of use, and lets a round trip take as long. In `run_plan` the agents of the second
run only do their work: what matters of it is that its branch, pushed at any moment, meets
the other's. Renewals, faults, foreign comments, requests and kills are counted in guards
only, by bounds named `Max...` in the modules.

Symmetry is used only in runs without liveness.

`CHECK_DEADLOCK FALSE` stands in every configuration whose system may really come to
rest: all runs ended and reported, all requests answered, all connections closed.

### Fairness

`reporter_live` assumes that a dead `watch` is started again (the chart deploys `serve`
only; `watch` is an operator's or a supervisor's to keep running), that the informer
catches up with the apiserver, that the resync timer fires (client-go does both), that
`watch -once` returns when its list is handled, and that the handler goroutine goes on
when it can: each of its calls either answers or fails. Nothing is assumed of the
cluster, and failing is not assumed to stop but by its bound: a GitHub that fails for
ever keeps the promise from nobody's fault.

`orchestrator` assumes that a handler of the webhook that can go on does; the only wait in
it, the create, has a timeout, which is why `StartFails` is always possible. For
`AcceptedIsTold` it assumes further that the Job controller brings every Job to its
terminal condition (the chart's `activeDeadlineSeconds` ends every run, and the condition
waits for a pod that is then being killed), and the fairness of `ReportOnce`, which
`reporter_live` shows `Reporter` to have. Neither Boot nor GitHub nor anybody's redelivery
is assumed. No other run has fairness.

## Findings

1. *A comment may be doubled* (`reporter_late_post`). `main.go:291` says of a cancelled
   call that "Nothing is lost: a POST that reached GitHub left the marker, and the next
   process relists and finds it either way", and ADR 0004 that a restart there costs one
   comment. The next process may read the thread before GitHub executes the POST: it is
   then found neither way.
2. *A collected Job may be unreported* (`reporter_collected`). `informer.go:236` says that a
   deleted Job "was already reported on". A Job that ended while the process was down, or
   while its reports failed, and then was deleted, is not.
3. *Another bot can silence a report* (`reporter_mimicked`). `informer.go:116` and ADR 0004
   say that "only comments the App itself wrote count". `informer.go:136` counts those of
   any Bot that begin with the marker, so one that imports or reposts comments may leave a
   run without its report. `informer.go:119-121` gives the reason for the wider test.
4. *A redelivery may run twice* (`webhook_redelivery`). ADR 0004 has the Job name absorb
   redeliveries. It does while the Job exists, which is a day after its end; GitHub
   redelivers for three. The run delivers one event twice, word for word.

## What is proved

Every theorem is of the whole specification and for every value of the constants that
their assumptions allow: any number of runs, pods, connections, hosts, any texts, and any
value of the `Max...` bounds, which the proofs never use but as types. Each `Proofs`
module has the same shape: an inductive invariant, written beside the properties in the
module it is about and checked there by TLC (it is an invariant of that module's run); one
lemma for each action, or for each kind of step; the invariant as a theorem; and a theorem
for each property it implies. (`ToldInv`, the invariant of the abstract watcher, is in
`OrchestratorProofs`; `CertReload`'s is checked as a part of `TLSInv`.) Every invariant and
action property of a passing run has its theorem, under the assumptions below.

Where a proof needs an induction over data it takes the least counterexample instead: the
library says of the naturals that they are well-founded and that a well-founded set's
parts have minimal elements, and both can be cited of a set (`LeastOf`).

### Reporter

- `TypeCorrect`: the types.
- `CommentsAreTrue`, `ReportsAreOwn`, `BlobsAreRead`: `ActiveIsUncommented`, `ReportIsOwn`,
  `BlobNotLost`, with or without late POSTs.
- `OneComment`: `AtMostOneComment`. It excepts the behaviours in which a deletion moved a
  page being read, and those in which GitHub executed a POST its sender had given up on
  (finding 1); the exceptions are all of it: a comment deleted at any other time, or behind
  the scan's place, does no harm, and nor does a POST given up on that never lands.
- `DoneIsTrue`: `DoneIsRecorded`. Its exception is finding 3, and nobody else's comment is
  one: a person who pastes the marker, or a bot that quotes it, silences nothing.
- `OnceCompletes`: `OnceIsComplete`, which `watch -once` owes to its keeping each run's
  error beside the queue of those still to be handled. It is proved only: it is a question
  of two issues at least, and with one, as in the runs, there is one Job to list.
- `ImplementsReportOnce`: the initial states and the steps of `Reporter` map to those of
  `ReportOnce` or to stutters, in every behaviour in which no deletion moves a page being
  read and no POST comes late.

The safety properties are not inductive: that no comment for `r` is on the thread when the
POST lands depends on what the scan has read so far. `IInv` adds what `report` relies on
while it works: `Truthful` (whatever the cache, the queue, the call in progress, the
thread and the POSTs on their way say of a run is true: it ended, the outcome is its own,
and hides no blob, which is stable since an ended run's pod has stopped), `Remembered`
(a call that saw its comment created has it on the thread), `ExactlyOnce` (the pages
read so far hold no comment for the run: nobody but this call can add one, for the only
other way, an executed orphan, is what `late` records; a deletion behind the scan's place
leaves that as it is, and one before it is what `shifted` records) and `OnceTracked` (an ended run
that `watch -once` listed is in its queue, in its call, or dealt with; that the list
becomes a queue without losing anybody is `PermutationIsComplete`, and that taking the
head loses only the head is `TailKeeps`). Each conjunct has its preservation lemma, by
the steps that can disturb it (`ThreadSteps`, `CallSteps`, `QueueSteps`, `OrphanSteps`,
`OnceTrackedStep`).

### Webhook and Identity

`WebhookProofs` has two halves. The first is about texts, of any length over any words.
A text that parses is the string of the run it parses to (`ParsedIsSpelled`). Two such
texts fold to one exactly when they name one Job (`NameIsOfFolding`, `FoldingIsOfName`),
so the Job's name is a lock on the issue: no looser, which would let an issue run twice,
and no tighter, which would let `a-b/c#1` block `a/b-c#1`. A claim whose names have no
comma is read back as the run it was made of (`ClaimIsReadBack`), and what `ParseIssue`
lets through has none (`SpelledIsReadBack`).

The second is about requests: `WebhookInvariance`, `OneJob` (`OneJobPerIssue`),
`AcceptedRuns` (`AcceptedHasRun`), `TriggerOnly` (`OnlyTheTrigger`) and `OwnIdentity`
(`AuthenticatesAsItself`). None of the four is inductive, because a create outlives
everybody who waits for it: GitHub hangs up, the handler is drained, the process is
killed, and the apiserver executes it still. `WebhookInv` says of what is on the wire, and
not of what is in the process, that it is due, names its own run alone and is there once
(`SendIsDue`); that a Job is one whose create was executed (`JobIsCreated`); that a good
answer was the apiserver's (`AnswerIsTrue`), where "exists" is true of the name and says
nothing of whose Job it was; and that a name is held once (`NamesAreHeldOnce`). The
template is what the chart rendered in every state: that is what makes `object` the run's
own.

### Orchestrator

- `FrontEndIsKept`: composed with the watcher, the front-end satisfies its own
  specification, and so the four properties above.
- `OnlyTheDueAreTold` (`ToldIsDue`): from the label to the comment, who is told about a run
  asked for it in the documented way, and that very run has ended.

### Run plan

`RunPlanProofs`, for any number of runs on one branch and any behaviour of their agents:
`PlanInvariance`, `ResultsAreTrue` (`SuccessIsPushed`), `WorkIsKept` (`WorkIsPushed`),
`ExitCodesAreTrue` (`ChannelsAgree`) and `CompletionIsReviewed` (`CompletedIsReviewed`).

What the script checks and what it only asks for are kept apart. That a success has been
reviewed, and that the exit code agrees with the blob, holds whatever the agents do. That
what was counted is what was pushed does not: a push of `$BRANCH` says nothing of a HEAD
that has left it, and a push that somebody forces later takes it away. The prompts forbid
both. `Kept` (the run's agents end on the branch, nobody forces) and `Obeyed` (they leave
HEAD and history alone) are these premises, and the properties say no more than they give:
a run whose agents stray and return, rewrite their own commits or push early is covered by
`SuccessIsPushed`.

`PlanInv` adds what the script has behind it at each step. While HEAD is the branch they
have the same commits (`Attached`), through every move an agent makes. All that was produced
is in HEAD (`WorkKept`), for what a phase leaves in the tree is committed before the next
one starts. And (`ResultKept`) nothing is said before the exit; past the push, wherever
the run is killed, what stands in blob and code has the verdict behind it and the branch on
the remote, where no other run
can replace it but by force: a run's commits are not behind another's.

### Proxy: certificate

`CertReloadProofs`, for every set of missing and broken generations and any number of
renewals: `CertInvariance`, `NeverStuckOnOld` and `AnswersAreFresh` (with `KeepsServing`).
The invariant orders what is remembered, loaded and mounted (`mod <= cert <= disk`): a
reload that raced a swap remembers too old a timestamp, never too new, and so the next
stat finds the difference.

`ProxyTLSProofs`, for any number of connections, hosts, renewals and boots:
`TLSInvariance`, `DecisionsHold`, `CredentialsAreIntercepted`, and `ProcessServes`, which
carries the results about one `current` over to the process that calls it from three
places. `TLSInv` adds to `CertReload`'s invariant that a call in progress installs nothing
older than what is loaded and answers with what is loaded (`Onwards`), that past its boot
the process has found every credentialed host on a generation it still has or has
replaced by a later one (`BootKept`), and the same of the host of a connection that is
intercepted (`ConnKept`). A host that was found and is then missing is therefore missing
from a later generation, which is what `DroppedSince` says; an error of `current` cannot
be the reason, for something is loaded. The proof takes the steps of `current` once
(`CertOfStep`), whoever called it.

### Proxy: authentication

`ProxyAuthProofs`, for any pods, addresses, credentials and slots: `AuthInvariance`,
`CallersAreWhoTheySay` (`IdentityIsEarned`), `FirstRequestsWait` (`FirstRequestWaits`),
`GuessesAreBounded` (`FailuresAreBounded`) and `CaughtUpIsTrue` (`SettledCacheIsTrue`).
`AddressesAreTrue` is what the lagging views have in common: an address they name is one
the pod had, and has if it is live; `RequestsAreTrue` and `AnswerIsTrue` carry it through
a request, whose address may change hands while it is looked up. `BudgetIsKept` is the
strengthening behind the bound on failures: the failures no token paid for (`Unpaid`)
grow only when the bucket is empty, by requests that were already admitted; so while a
token is left they are those of the earlier refills, and at none those and the requests in
flight make up at most one round more. The bound itself is not inductive: nothing in it
says how many of the requests in flight are still to fail.

### Proxy: the port

`ProxyPortProofs`, for any connections, runs, hosts, SANs, patterns and headers:
`PortInvariance`, `CredentialsAreDue` (`CredentialIsDue`), `TokensOutlive`
(`TokenOutlivesRequest`), `SentinelsAreSwapped` (`NoSentinelUpstream`), `TunnelsEnd`
(`NobodyParked`), `OneMint` (the action property `MintedOnce`), `TunnelsAreDueNothing`
(`TunnelIsDueNothing`) and `ModelCallsAreDue` (`ModelCallIsDue`). `ConnInv` follows a request through its
connection: at each stage what it waits for and what it may leave with (`InOrder`,
`MayLeave`), the lock held by exactly the one connection whose mint is at GitHub, and by
it only because its run has no token of use, a token cached for the run it was minted for,
and none living longer than `TTL` from now. That is why a token is minted once, whoever
asks, and why the skew is enough: the one exception `TokenOutlivesRequest` makes is a fresh
token whose own round trip took the rest of its life. Where several
patterns match a host the code takes whichever the map yields, so what leaves is due by
one of the credentials of the host, and the properties say so. `PortInv` adds the model
calls (`CallOk`).

`TunnelsAreDueNothing` has a hypothesis, and it is a real one. `NewCreds` tries each
pattern of a credential by one sample host (`creds.go:86-94`). That one sample stands for
all hosts of the pattern (`OneSampleIsEnough`: a wildcard SAN that covers it covers them
all) unless some SAN is the sample to the letter, which covers the sample and nothing
else. The theorem assumes no certificate has the sample's name on it.

`ModelCallsAreDue` rests on two facts about data. A path without empty segments and dots is
what its server makes of it, however long it is (`CleanIsResolved`, by the least prefix for
which it would not be so); so what `rewriteVertex` looked at is what is served. And a host
built around any location at all ends in `.googleapis.com` (`HostsOfGoogle`).

### Assumptions

Those the modules state of their constants, checked by TLC in the runs that use them:

- Reporter: finitely many runs and issues, a page is not empty, `NoRun` is no run.
- Webhook: a text is a sequence of pieces that fold, a word to a word (`FoldAssumption`);
  no separator is a word (`SeparatorsAssumption`); `IssueOf` is `JobName`
  (`NameAssumption`).
- Proxy: the values that stand for nobody are nobody; a burst of one at least and finitely
  many slots (`BurstAssumption`, `SlotsAssumption`); names, SANs, patterns and paths are
  sequences, all but the paths not empty (`NameAssumption`, `PathsAssumption`); `NewCreds` accepts, for otherwise there is no proxy
  (`BootAssumption`); a header that is not there has no halves, and the sandbox has no token
  of the proxy's to send (`CarriedAssumption`); the skew is shorter than a token's life
  (`TimeAssumption`).

Beside them what the models take from the world: one watching process (`informer.go`
forbids two), the Job controller's deferral of the terminal condition, and that the
remote's branch of an issue is written by runs of the issue only.

### Only model-checked

Liveness: the liveness half of `KeepsPromise`, `AnsweredUnlessKilled`, `AcceptedIsTold`.
Fairness, and ENABLED in it, are beyond the proof system's backends.

## What is not modelled

- The text of comments, prompts and logs, and the contents of the PodSpec: data no property
  tells apart. Of what `Build` writes, the identity and the credential are modelled.
- A collision of the truncated hash in a Job's name (32 bits), and of two uids.
- Two watching processes at once: `informer.go:178` says not to run two.
- Two `serve` processes overlapping in a rollout: they share nothing but the apiserver,
  where the handlers of one process race already; in the model a rollout loses the
  deliveries that arrive in between, which is the worse case.
- HMACs and base64: a comparison that holds or not, a header that decodes or not.
- How the Google identity is found (`google.go`), which is library code; that it may fail
  is modelled.
- The headers and the streaming of a model call, which are `httputil.ReverseProxy`'s.
- A mint that never comes back: `mint.go` names the stall as its limit.
- The boot's other checks (a missing variable, an empty key), each fatal before the
  listener exists; the charts, the end-to-end tests and the prototypes.

## Plan

Done, in this order: Reporter over Cluster with its proofs, Webhook, RunPlan, CertReload
with its proofs, ProxyAuth, Creds, ProxyConn; then deleted comments in Reporter (the proofs
with it), ProxyTLS, ModelRoute and ProxyPort, Identity, the command line and the template
in Webhook, Orchestrator.

Proved since: RunPlan, the proxy's port and its authentication, Webhook with Identity,
`OnceIsComplete`, and Orchestrator on top of them. Every invariant and action property that
a passing run checks has its theorem.

Next:

1. The liveness properties as far as they are safety: that `AnsweredUnlessKilled` has no
   state in which a received delivery can take no step, and that each of a report's steps
   brings it nearer its end, as action properties with a measure.
2. `ProxyAuth` and `ProxyPort` composed: the run a connection has is the one its address was
   resolved to, so that a token leaves for the run whose pod sent the request.
3. The two ends of a run composed: what `phase.sh` writes is what `read` reads, so that the
   comment says what the phases did.
