------------------------------ MODULE Reporter ------------------------------
(***************************************************************************)
(* orchestrator/informer.go: the process that watches the Jobs of the runs *)
(* and gives every ending one issue comment.  It keeps nothing across a    *)
(* restart; the comment thread is its exactly-once record.                 *)
(*                                                                         *)
(* Three actors interleave: the cluster (module Cluster), GitHub with the  *)
(* people and bots that write on the thread, and the orchestrator process, *)
(* whose informer fills a cache and an event queue that one handler        *)
(* goroutine drains.  Between any two of the handler's API calls the       *)
(* others may move, and the process may be killed.                         *)
(***************************************************************************)
EXTENDS Cluster, Sequences, FiniteSets, SequencesExt

CONSTANTS
    NoRun,        \* no run
    PageSize,     \* comments per page of the thread (100 in the code)
    LatePost,     \* may a POST its sender gave up on still be executed later
    MaxQueue,     \* bound: events waiting for the handler
    MaxFaults,    \* bound: API calls that fail and times the process is killed
    MaxNoise      \* bound: comments by others

ASSUME FiniteAssumption   == IsFiniteSet(Runs) /\ IsFiniteSet(Issues)
ASSUME NoRunAssumption    == NoRun \notin Runs
ASSUME PageSizeAssumption == PageSize \in Nat \ {0}
ASSUME LatePostAssumption == LatePost \in BOOLEAN

VARIABLES
    thread,    \* [Issues -> Seq(Comments)], oldest first
    orphans,   \* POSTs given up on by their sender and not executed yet
    mode,      \* "down", "watch" (Watch) or "once" (Reconcile, watch -once)
    cache,     \* [Issues -> Job last seen by the informer]
    queue,     \* Jobs handed to the handler and not taken yet
    cur,       \* the call of report in progress
    done,      \* Reporter.done
    listed,    \* "once": what the list answered
    errs,      \* "once": the runs whose report returned an error
    shifted,   \* ghost: a page was read at an offset that a deletion had moved
    late,      \* ghost: a POST its sender gave up on has been executed
    mimicked,  \* ghost: the runs whose marker another bot has led with
    faults, noise

githubVars  == <<thread, orphans>>
processVars == <<mode, cache, queue, cur, done, listed, errs>>
boundVars   == <<faults, noise, shifted, late, mimicked>>
vars        == <<clusterVars, githubVars, processVars, boundVars>>

-----------------------------------------------------------------------------
(* Data *)

MaybeRun == Runs \cup {NoRun}
JobSeen  == [run : Runs, cond : JobPresent]
NotSeen  == [run |-> NoRun, cond |-> "absent"]

\* What a report says: the blob, or the reason there is none, and whose pod it read.
Outcomes == [says : {"blob", "reason"}, from : MaybeRun]
Unread   == [says |-> "reason", from |-> NoRun]

\* by: who wrote it.  mark: the run whose marker it carries.  lead: the marker
\* is the very start of the body.
Comments == [by : {"app", "bot", "user"}, mark : Runs, lead : BOOLEAN, body : Outcomes]

Stages == {"idle", "pod", "token", "read", "post", "sent", "landed"}
Calls  == [stage : Stages, run : MaybeRun, pos : Nat, body : Outcomes]
Idle   == [stage |-> "idle", run |-> NoRun, pos |-> 0, body |-> Unread]

TypeOK ==
    /\ ClusterTypeOK
    /\ thread \in [Issues -> Seq(Comments)]
    /\ orphans \in Seq(Comments)
    /\ mode \in {"down", "watch", "once"}
    /\ cache \in [Issues -> JobSeen \cup {NotSeen}]
    /\ queue \in Seq(JobSeen)
    /\ cur \in Calls
    /\ cur.stage # "idle" => cur.run \in Runs
    /\ done \subseteq Runs
    /\ listed \subseteq JobSeen
    /\ errs \subseteq Runs
    /\ faults \in Nat /\ noise \in Nat
    /\ shifted \in BOOLEAN /\ late \in BOOLEAN /\ mimicked \subseteq Runs

Init ==
    /\ ClusterInit
    /\ thread = [i \in Issues |-> <<>>]
    /\ orphans = <<>>
    /\ mode = "down"
    /\ cache = [i \in Issues |-> NotSeen]
    /\ queue = <<>>
    /\ cur = Idle
    /\ done = {}
    /\ listed = {}
    /\ errs = {}
    /\ faults = 0 /\ noise = 0 /\ shifted = FALSE /\ late = FALSE /\ mimicked = {}

-----------------------------------------------------------------------------
(* The process and its informer *)

\* Watch: a fresh process, an empty cache.  The first list arrives through Observe.
StartWatch ==
    /\ mode = "down"
    /\ mode' = "watch"
    /\ UNCHANGED <<clusterVars, githubVars, boundVars, cache, queue, cur, done, listed, errs>>

AllListed == UNION {Listed(i) : i \in Issues}

\* Reconcile: one list of the runs, each reported in the order of the answer.
StartOnce ==
    /\ mode = "down"
    /\ mode' = "once"
    /\ listed' = AllListed
    /\ queue' \in SetToSeqs(AllListed)
    /\ UNCHANGED <<clusterVars, githubVars, boundVars, cache, cur, done, errs>>

\* Watch's report func: the informer calls it on Add and Update alike.
Notify(s) == queue' = Append(queue, s)

\* A Job was added or changed since the informer last saw its name.
ObserveChange(i) ==
    /\ mode = "watch"
    /\ Len(queue) < MaxQueue
    /\ \E s \in Listed(i) :
        /\ s # cache[i]
        /\ cache' = [cache EXCEPT ![i] = s]
        /\ Notify(s)
    /\ UNCHANGED <<clusterVars, githubVars, boundVars, mode, cur, done, listed, errs>>

\* A Job was deleted: the cache forgets it and no handler is registered.
ObserveDelete(i) ==
    /\ mode = "watch"
    /\ cache[i] # NotSeen
    /\ Listed(i) = {}
    /\ cache' = [cache EXCEPT ![i] = NotSeen]
    /\ UNCHANGED <<clusterVars, githubVars, boundVars, mode, queue, cur, done, listed, errs>>

NothingCached == {}

\* The Jobs in the informer's cache.
Cached == {cache[i] : i \in Issues} \ {NotSeen}

\* Every ten minutes, everything in the cache is handed over again as Updates.
\* Bound: not before the handler has drained what it has.
Resync ==
    /\ mode = "watch"
    /\ queue = <<>>
    /\ Cached # {}
    /\ queue' \in SetToSeqs(Cached)
    /\ UNCHANGED <<clusterVars, githubVars, boundVars, mode, cache, cur, done, listed, errs>>

MarkerLast(c) == [by |-> "app", mark |-> c.run, lead |-> FALSE, body |-> c.body]

\* Comment: the body Report posts, the marker first.
CommentOf(c) == [by |-> "app", mark |-> c.run, lead |-> TRUE, body |-> c.body]

\* Everything but the thread dies with the process.  A POST it had sent and
\* that GitHub had not executed is lost, or, with LatePost, executed later.
Orphaned ==
    IF LatePost /\ cur.stage = "sent"
    THEN Append(orphans, CommentOf(cur))
    ELSE orphans

ProcessGone ==
    /\ mode' = "down"
    /\ cache' = [i \in Issues |-> NotSeen]
    /\ queue' = <<>>
    /\ cur' = Idle
    /\ done' = {}
    /\ listed' = {}
    /\ errs' = {}

\* SIGKILL, SIGTERM (which cancels the context of the call in progress), a crash.
Crash ==
    /\ mode # "down"
    /\ faults < MaxFaults
    /\ faults' = faults + 1
    /\ orphans' = Orphaned
    /\ ProcessGone
    /\ UNCHANGED <<clusterVars, thread, noise, shifted, late, mimicked>>

\* watch -once returns when every listed run was handled.
OnceReturns ==
    /\ mode = "once"
    /\ queue = <<>>
    /\ cur.stage = "idle"
    /\ ProcessGone
    /\ UNCHANGED <<clusterVars, githubVars, boundVars>>

-----------------------------------------------------------------------------
(* report, one API call at a time *)

AnyCondition(s) == s.cond \in {"interim", "ended"}

\* terminal: the Job has a True Complete or Failed condition.
Terminal(s) == s.cond = "ended"

\* report's early returns: not ended, or done already.
Due(s) == Terminal(s) /\ s.run \notin done

\* The handler takes the next event and returns early or starts on the pod list.
TakeEvent ==
    /\ mode # "down"
    /\ cur.stage = "idle"
    /\ queue # <<>>
    /\ queue' = Tail(queue)
    /\ cur' = IF Due(Head(queue))
              THEN [Idle EXCEPT !.stage = "pod", !.run = Head(queue).run]
              ELSE Idle
    /\ UNCHANGED <<clusterVars, githubVars, boundVars, mode, cache, done, listed, errs>>

PodsOfJobName(r) == {q \in Runs : IssueOf[q] = IssueOf[r] /\ pod[q] \in PodPresent}

\* podOf matches the run uid of the pod's annotation, not the Job name.
PodsOf(r) == {q \in Runs : q = r /\ pod[q] \in PodPresent}

\* podOf and Outcome.read: the blob if that pod has one, else why there is none.
ReadPod ==
    /\ cur.stage = "pod"
    /\ \/ \E q \in PodsOf(cur.run) :
            cur' = [cur EXCEPT !.stage = "token",
                               !.body = [says |-> IF pod[q] = "blob" THEN "blob" ELSE "reason",
                                         from |-> q]]
       \/ /\ PodsOf(cur.run) = {}
          /\ cur' = [cur EXCEPT !.stage = "token", !.body = Unread]
    /\ UNCHANGED <<clusterVars, githubVars, boundVars, mode, cache, queue, done, listed, errs>>

\* GitHub.client: a token was minted.
TokenMinted ==
    /\ cur.stage = "token"
    /\ cur' = [cur EXCEPT !.stage = "read", !.pos = 0]
    /\ UNCHANGED <<clusterVars, githubVars, boundVars, mode, cache, queue, done, listed, errs>>

AnybodyMarks(c, r) == c.lead /\ c.mark = r

\* reported's test of one comment: by a Bot, and the marker is its prefix.
Marks(c, r) == c.by # "user" /\ c.lead /\ c.mark = r

\* The positions on the page that follows the first n comments of thread t.
PageAfter(t, n) == {k \in DOMAIN t : n < k /\ k <= n + PageSize}

FirstPageOnly(t, n) == FALSE

\* There is a page after the one that follows the first n comments (NextPage # 0).
MorePages(t, n) == Len(t) > n + PageSize

\* report marks the run done and returns.
Finished ==
    /\ done' = done \cup {cur.run}
    /\ cur' = Idle

\* reported reads one page of the thread: found, next page, or not reported.
ReadPage ==
    /\ cur.stage = "read"
    /\ LET t     == thread[IssueOf[cur.run]]
           found == \E k \in PageAfter(t, cur.pos) : Marks(t[k], cur.run)
       IN  \/ found /\ Finished
           \/ /\ ~found /\ MorePages(t, cur.pos)
              /\ cur' = [cur EXCEPT !.pos = @ + PageSize]
              /\ UNCHANGED done
           \/ /\ ~found /\ ~MorePages(t, cur.pos)
              /\ cur' = [cur EXCEPT !.stage = "post"]
              /\ UNCHANGED done
    /\ UNCHANGED <<clusterVars, githubVars, boundVars, mode, cache, queue, listed, errs>>

\* CreateComment: the request leaves the process.
SendPost ==
    /\ cur.stage = "post"
    /\ cur' = [cur EXCEPT !.stage = "sent"]
    /\ UNCHANGED <<clusterVars, githubVars, boundVars, mode, cache, queue, done, listed, errs>>

\* GitHub executes the request.
PostLands ==
    /\ cur.stage = "sent"
    /\ thread' = [thread EXCEPT ![IssueOf[cur.run]] = Append(@, CommentOf(cur))]
    /\ cur' = [cur EXCEPT !.stage = "landed"]
    /\ UNCHANGED <<clusterVars, boundVars, orphans, mode, cache, queue, done, listed, errs>>

\* The 201 arrives.
PostReturns ==
    /\ cur.stage = "landed"
    /\ Finished
    /\ UNCHANGED <<clusterVars, githubVars, boundVars, mode, cache, queue, listed, errs>>

\* Any of the calls returns an error: report gives up and does not mark the run
\* done.  The answer to a POST may be lost after the comment was created.
CallFails ==
    /\ cur.stage \notin {"idle", "post"}
    /\ faults < MaxFaults
    /\ faults' = faults + 1
    /\ orphans' = Orphaned
    /\ errs' = IF mode = "once" THEN errs \cup {cur.run} ELSE errs
    /\ cur' = Idle
    /\ UNCHANGED <<clusterVars, thread, noise, shifted, late, mimicked, mode, cache,
                   queue, done, listed>>

-----------------------------------------------------------------------------
(* GitHub's side of the thread *)

\* A POST its sender gave up on is executed after all.
OrphanLands ==
    /\ \E k \in DOMAIN orphans :
        /\ thread' = [thread EXCEPT ![IssueOf[orphans[k].mark]] = Append(@, orphans[k])]
        /\ orphans' = RemoveAt(orphans, k)
    /\ late' = TRUE
    /\ UNCHANGED <<clusterVars, processVars, faults, noise, shifted, mimicked>>

\* What somebody else writes with run r's marker in it: a user or a bot, who leads with
\* the marker or quotes it behind other text.
Foreign(r) == [by : {"bot", "user"}, mark : {r}, lead : BOOLEAN, body : {Unread}]

\* One of them is written.
OthersComment ==
    /\ noise < MaxNoise
    /\ noise' = noise + 1
    /\ \E r \in Runs : \E c \in Foreign(r) :
        /\ job[r] # "absent"
        /\ thread' = [thread EXCEPT ![IssueOf[r]] = Append(@, c)]
        /\ mimicked' = IF c.by = "bot" /\ c.lead THEN mimicked \cup {r} ELSE mimicked
    /\ UNCHANGED <<clusterVars, processVars, orphans, faults, shifted, late>>

\* The next page starts where cur.pos comments end, whichever they are by then.
Shifts(i, k) == cur.stage = "read" /\ i = IssueOf[cur.run] /\ k <= cur.pos

\* Somebody deletes a comment that is not the App's.
CommentDeleted ==
    /\ \E i \in Issues : \E k \in DOMAIN thread[i] :
        /\ thread[i][k].by # "app"
        /\ thread' = [thread EXCEPT ![i] = RemoveAt(@, k)]
        /\ shifted' = (shifted \/ Shifts(i, k))
    /\ UNCHANGED <<clusterVars, processVars, orphans, faults, noise, late, mimicked>>

-----------------------------------------------------------------------------

\* The cluster moves; Jobs are created by the webhook or the command line.
ClusterSteps ==
    /\ ClusterNext \/ \E r \in Runs : Create(r)
    /\ UNCHANGED <<githubVars, processVars, boundVars>>

Handler ==
    \/ TakeEvent \/ ReadPod \/ TokenMinted \/ ReadPage
    \/ SendPost \/ PostLands \/ PostReturns

Informer ==
    \/ \E i \in Issues : ObserveChange(i) \/ ObserveDelete(i)
    \/ Resync

Next ==
    \/ ClusterSteps
    \/ StartWatch \/ StartOnce \/ Crash \/ OnceReturns
    \/ Informer
    \/ Handler \/ CallFails
    \/ OrphanLands \/ OthersComment \/ CommentDeleted

Spec == Init /\ [][Next]_vars

(***************************************************************************)
(* The kubelet or an operator restarts a dead process; a running one's     *)
(* informer catches up with the API server, its resync timer fires, and    *)
(* the handler goroutine makes progress.  Nothing is assumed of the        *)
(* cluster, of failures, or of the people on the thread.                   *)
(***************************************************************************)
Fairness ==
    /\ WF_vars(StartWatch)
    /\ WF_vars(OnceReturns)
    /\ WF_vars(Handler)
    /\ WF_vars(Resync)
    /\ \A i \in Issues : WF_vars(ObserveChange(i)) /\ WF_vars(ObserveDelete(i))

FairSpec == Spec /\ Fairness

-----------------------------------------------------------------------------
(* Properties *)

\* The App's own comment for run r.
ReportOf(c, r) == c.by = "app" /\ c.mark = r

\* Some comment on the thread is the App's for run r.
Recorded(r) == \E k \in DOMAIN thread[IssueOf[r]] : ReportOf(thread[IssueOf[r]][k], r)

\* There are no two of them.
OneReport(r) ==
    \A j, k \in DOMAIN thread[IssueOf[r]] :
        ReportOf(thread[IssueOf[r]][j], r) /\ ReportOf(thread[IssueOf[r]][k], r) => j = k

\* No run has two comments, whatever the crashes, lost answers, resyncs and other
\* commenters (Report: "the thread is the exactly-once record").  Two things alone can keep
\* the marker from the scan: the deletion of a comment on a page already read, and a POST
\* that GitHub executes after its sender gave up on it.
AtMostOneComment == ~shifted /\ ~late => \A r \in Runs : OneReport(r)

\* "Nothing is lost: a POST that reached GitHub left the marker, and the next process
\* relists and finds it either way."
FoundEitherWay == ~shifted => \A r \in Runs : OneReport(r)

\* A run whose Job is still active has no comment: what Phase calls `active` is
\* exactly what the informer has not commented on.
ActiveIsUncommented == \A r \in Runs : Recorded(r) => Ended(r)

\* What a comment quotes was read off the pod of the run it names, also when an
\* earlier run of the same issue left its pod behind under the same Job name.
ReportIsOwn ==
    \A i \in Issues : \A k \in DOMAIN thread[i] :
        LET c == thread[i][k] IN c.by = "app" => c.body.from \in {c.mark, NoRun}

\* A comment that gives a reason instead of the result was not written over a
\* blob: while the run's pod still holds one, the comment quotes it.
BlobNotLost ==
    \A i \in Issues : \A k \in DOMAIN thread[i] :
        LET c == thread[i][k]
        IN  c.by = "app" /\ pod[c.mark] = "blob" => c.body.says = "blob"

\* A run is silenced, by the fast path or by what stands on the thread, by nothing but
\* another bot that leads with its marker: what is in done is on the thread, whatever
\* users paste and bots quote.
DoneIsRecorded == \A r \in done : Recorded(r) \/ r \in mimicked

\* "Only comments the App itself wrote count": a run in done has one.
OnlyOwnCount == \A r \in done : Recorded(r)

\* watch -once leaves no ended run of its list unreported unless it returns that run's
\* error, or another bot has silenced it: one failure does not stop the others.
OnceIsComplete ==
    mode = "once" /\ queue = <<>> /\ cur.stage = "idle" =>
        \A s \in listed :
            Terminal(s) => Recorded(s.run) \/ s.run \in errs \/ s.run \in mimicked

\* The promise of ReportOnce, as Reporter's state shows it.
Told(r) == IF ~Recorded(r) THEN "untold" ELSE IF OneReport(r) THEN "told" ELSE "repeated"

Promise == INSTANCE ReportOnce WITH ending <- [r \in Runs |-> Ending(r)],
                                    told   <- [r \in Runs |-> Told(r)]

\* The informer implements ReportOnce: told once, never early, and eventually.
KeepsPromise == Promise!FairSpec

\* "One [Job] deleted after [it reached a condition] was already reported on."
CollectedWasReported == \A r \in Runs : job[r] = "collected" => Recorded(r)

-----------------------------------------------------------------------------
(* The inductive invariant behind the safety properties *)

\* The terminal condition came after the pod stopped.
EndedPodStopped == \A r \in Runs : Ended(r) => pod[r] # "live"

\* A Job the informer holds as ended has ended, however late it is handled.
SeenIsTrue ==
    /\ \A k \in DOMAIN queue : Terminal(queue[k]) => Ended(queue[k].run)
    /\ \A i \in Issues : Terminal(cache[i]) => Ended(cache[i].run)

\* b may be said of run r: its own pod, and a reason only where there is no blob.
BodyOk(b, r) == b.from \in {r, NoRun} /\ (b.says = "reason" => pod[r] # "blob")

CallOk ==
    /\ cur.stage # "idle" => Ended(cur.run)
    /\ cur.stage \notin {"idle", "pod"} => BodyOk(cur.body, cur.run)

\* Comment c may be on issue i: what Report posts, or something reported rejects.
CommentOk(c, i) ==
    /\ c.by = "app" => c.lead /\ IssueOf[c.mark] = i /\ Ended(c.mark) /\ BodyOk(c.body, c.mark)
    /\ c.by = "bot" /\ c.lead => c.mark \in mimicked

ThreadOk  == \A i \in Issues : \A k \in DOMAIN thread[i] : CommentOk(thread[i][k], i)
OrphansOk == \A k \in DOMAIN orphans :
                 orphans[k].by = "app" /\ CommentOk(orphans[k], IssueOf[orphans[k].mark])

Truthful == EndedPodStopped /\ SeenIsTrue /\ CallOk /\ ThreadOk /\ OrphansOk

\* A call that saw its comment created, and the memory of finished ones.
Remembered == (cur.stage = "landed" => Recorded(cur.run)) /\ DoneIsRecorded

\* The pages reported has read hold no comment for its run, nor does the whole
\* thread once it decided to post.
ScanIsClean ==
    LET t == thread[IssueOf[cur.run]]
    IN  /\ cur.stage = "read" =>
               cur.pos <= Len(t) /\ \A k \in DOMAIN t : k <= cur.pos => ~ReportOf(t[k], cur.run)
        /\ cur.stage \in {"post", "sent"} => ~Recorded(cur.run)

ExactlyOnce == (~shifted /\ ~late => ScanIsClean) /\ AtMostOneComment

\* An ended run of the list is waiting its turn, being reported on, or dealt with.
OnceTracked ==
    mode = "once" => \A s \in listed : Terminal(s) =>
        \/ \E k \in DOMAIN queue : queue[k] = s
        \/ cur.stage # "idle" /\ cur.run = s.run
        \/ s.run \in done \cup errs

\* While report reads a thread and posts, all it relies on stays true: the run has
\* ended, the body is its own, and no other comment for it can appear.
IInv == TypeOK /\ Truthful /\ Remembered /\ ExactlyOnce /\ OnceTracked
=============================================================================
