------------------------------- MODULE RunPlan -------------------------------
(***************************************************************************)
(* sandbox/phase.sh: what a run's pod does.  Every run here works on one   *)
(* issue, hence on one branch of one remote.  The Job name keeps them      *)
(* apart, except for the pod a deleted Job leaves behind, so they may      *)
(* overlap.  The agents have git and the network: between two lines of the *)
(* script they may commit, leave the branch, rewrite it and push it.  Any  *)
(* step may end the script early, with die's blob or, killed or stopped by *)
(* `set -e`, with what it has written by then.                             *)
(***************************************************************************)
CONSTANTS
    Runs, NoRun,
    Agents       \* what a run's agent phases may do

ASSUME NoRunAssumption == NoRun \notin Runs

Phases == {"implement", "review", "ponytail"}

\* answer: the last result message ("none": the process died first; "error": is_error,
\* whatever status survives in it; "failed": any other status).  fixed: it reported fixes.
\* git: first it stays where HEAD is, leaves $BRANCH (or detaches HEAD), returns to it, or
\* rewrites what was committed since BASE_SHA.  commits: then it commits.  pushes: then it
\* pushes $BRANCH itself, or forces it.  dirty: it leaves changes uncommitted.
AgentType ==
    [answer : {"none", "error", "completed", "blocked", "failed"}, fixed : BOOLEAN,
     git : {"stays", "leaves", "returns", "rewrites"}, commits : BOOLEAN,
     pushes : {"no", "pushes", "forces"}, dirty : BOOLEAN]

ASSUME AgentsAssumption == Agents \in [Runs -> SUBSET AgentType]

\* The commits a run may make since its BASE_SHA: an agent's own of a phase, and the run
\* plan's of what that phase left.  A set of them is a history: one is behind another when
\* it is a subset of it.
Commits == Phases \X {"agent", "left"}

VARIABLES
    pc,        \* [Runs -> where the script is]
    did,       \* [Runs -> [Phases -> what the phase did]]
    head,      \* [Runs -> BASE_SHA..HEAD]
    branch,    \* [Runs -> BASE_SHA..$BRANCH, of the clone]
    on,        \* [Runs -> HEAD is $BRANCH]
    blob,      \* [Runs -> the status in the termination message]
    code,      \* [Runs -> exit code; 1 for any failing exit, 137 for a signal]
    remote,    \* the remote's $BRANCH: whose it is, and its commits
    forced     \* ghost: some agent has forced a push

localVars == <<head, branch, on>>
vars      == <<pc, did, localVars, blob, code, remote, forced>>

NotRun  == [answer |-> "none", fixed |-> FALSE, git |-> "stays", commits |-> FALSE,
            pushes |-> "no", dirty |-> FALSE]
\* Where the script goes from a step, when nothing dies.
After   == [preflight |-> "clone", clone |-> "check", check |-> "brief", brief |-> "implement",
            implement |-> "review", review |-> "ponytail", ponytail |-> "push", push |-> "report"]
Working == {"preflight", "clone", "check", "brief"} \cup Phases \cup {"push", "report"}
\* The blob is written, or could not be: what is left is the exit.
Exiting == {"exit0", "exit1"}
Verdicts == {"completed", "completed_unreviewed", "blocked", "failed"}

TypeOK ==
    /\ pc \in [Runs -> Working \cup Exiting \cup {"exited"}]
    /\ did \in [Runs -> [Phases -> AgentType]]
    /\ head \in [Runs -> SUBSET Commits]
    /\ branch \in [Runs -> SUBSET Commits]
    /\ on \in [Runs -> BOOLEAN]
    /\ blob \in [Runs -> Verdicts \cup {"none"}]
    /\ code \in [Runs -> {0, 1, 137}]
    /\ remote \in [by : Runs \cup {NoRun}, has : SUBSET Commits]
    /\ forced \in BOOLEAN

Init ==
    /\ pc = [r \in Runs |-> "preflight"]
    /\ did = [r \in Runs |-> [p \in Phases |-> NotRun]]
    /\ head = [r \in Runs |-> {}]
    /\ branch = [r \in Runs |-> {}]
    /\ on = [r \in Runs |-> TRUE]
    /\ blob = [r \in Runs |-> "none"]
    /\ code = [r \in Runs |-> 137]
    /\ remote = [by |-> NoRun, has |-> {}]
    /\ forced = FALSE

-----------------------------------------------------------------------------
(* A phase's status and the run's verdict *)

StatusSurvives(a) == a.answer = "error" \/ a.answer = "completed"

\* is_error fails the phase whatever status survives in the result.
SaysCompleted(a) == a.answer = "completed"

\* run_phase: PH_STATUS.  Of what an agent does to HEAD only a commit is new in _base..HEAD.
PhaseStatus(a) ==
    LET reported == a.answer \notin {"none", "error"}
        said     == IF SaysCompleted(a) THEN "completed"
                    ELSE IF a.answer = "none" THEN "no_result" ELSE a.answer
    IN  IF a.dirty
        THEN IF said = "completed" THEN "dirty" ELSE said
        ELSE IF a.fixed /\ reported /\ ~a.commits THEN "not_committed" ELSE said

VerdictIsStatus(d) == PhaseStatus(d["implement"])

\* STATUS, one of exactly four values.
Verdict(d) ==
    LET implement == PhaseStatus(d["implement"])
    IN  IF implement \in {"completed", "dirty"}
        THEN IF PhaseStatus(d["review"]) = "completed" /\ PhaseStatus(d["ponytail"]) = "completed"
             THEN "completed" ELSE "completed_unreviewed"
        ELSE IF implement = "blocked" THEN "blocked" ELSE "failed"

CommitsIfReported(a) == a.dirty /\ a.answer \notin {"none", "error"}

\* The run plan commits what the phase left in the tree, dead phase or not.
CommitsLeftover(a) == a.dirty

-----------------------------------------------------------------------------
(* git *)

\* HEAD after what the agent does to it, and after its commit.
Moved(r, a) ==
    CASE a.git = "rewrites" -> {}
      [] a.git = "returns"  -> branch[r]
      [] OTHER              -> head[r]

Committed(r, a) == Moved(r, a) \cup (IF a.commits THEN {<<pc[r], "agent">>} ELSE {})

\* HEAD is $BRANCH when the agent is done, and what $BRANCH is then.
EndsOn(r, a) == a.git = "returns" \/ (on[r] /\ a.git # "leaves")

EndsAt(r, a) == IF EndsOn(r, a) THEN Committed(r, a) ELSE branch[r]

\* The commit of the run plan, wherever HEAD is.
Leftover(r, a) == IF CommitsLeftover(a) THEN {<<pc[r], "left">>} ELSE {}

AlwaysAccepts(r, local) == TRUE

\* The remote takes a branch it does not have, or what descends from what it has.  A run's
\* commits do not descend from another's; a branch without any may be anybody's BASE_SHA.
RemoteAccepts(r, local) ==
    remote.by = NoRun \/ remote.has = {} \/ (remote.by = r /\ remote.has \subseteq local)

\* The agent's own push of $BRANCH; what is refused changes nothing.
AgentPush(r, a) ==
    /\ remote' = IF \/ a.pushes = "forces"
                    \/ a.pushes = "pushes" /\ RemoteAccepts(r, EndsAt(r, a))
                 THEN [by |-> r, has |-> EndsAt(r, a)] ELSE remote
    /\ forced' = (forced \/ a.pushes = "forces")

-----------------------------------------------------------------------------
(* The script *)

Goes(r, p) == pc' = [pc EXCEPT ![r] = p]

\* report: a failed write is logged, and the script goes on to its exit.
Reports(r, status, exit) ==
    /\ Goes(r, exit)
    /\ \E written \in {status, "none"} : blob' = [blob EXCEPT ![r] = written]
    /\ UNCHANGED code

Exit(r) ==
    /\ pc[r] \in Exiting
    /\ Goes(r, "exited")
    /\ code' = [code EXCEPT ![r] = IF pc[r] = "exit0" THEN 0 ELSE 1]
    /\ UNCHANGED <<did, localVars, blob, remote, forced>>

\* die: the blob says failed; without jq or a writable channel there is none.
Die(r) ==
    /\ pc[r] \in Working \ {"report"}
    /\ Reports(r, "failed", "exit1")
    /\ UNCHANGED <<did, localVars, remote, forced>>

\* A signal, or `set -e` on a command without a die: the blob stays what it is, and so does
\* whatever was pushed.
Killed(r) ==
    /\ pc[r] # "exited"
    /\ Goes(r, "exited")
    /\ \E c \in {1, 137} : code' = [code EXCEPT ![r] = c]
    /\ UNCHANGED <<did, localVars, blob, remote, forced>>

\* preflight, the clone and the brief, when nothing dies.
Proceeds(r) ==
    /\ pc[r] \in {"preflight", "clone", "brief"}
    /\ Goes(r, After[pc[r]])
    /\ UNCHANGED <<did, localVars, blob, code, remote, forced>>

\* ls-remote finds no branch of this name, or fails, which reads the same.
CheckBranch(r) ==
    /\ pc[r] = "check"
    /\ \E found \in {remote.by # NoRun, FALSE} : ~found /\ Goes(r, "brief")
    /\ UNCHANGED <<did, localVars, blob, code, remote, forced>>

\* run_phase: the agent does something; the run plan commits what it left behind.
RunPhase(r) ==
    /\ pc[r] \in Phases
    /\ \E a \in Agents[r] :
        /\ did' = [did EXCEPT ![r][pc[r]] = a]
        /\ head' = [head EXCEPT ![r] = Committed(r, a) \cup Leftover(r, a)]
        /\ branch' = [branch EXCEPT ![r] =
                          EndsAt(r, a) \cup IF EndsOn(r, a) THEN Leftover(r, a) ELSE {}]
        /\ on' = [on EXCEPT ![r] = EndsOn(r, a)]
        /\ AgentPush(r, a)
    /\ Goes(r, After[pc[r]])
    /\ UNCHANGED <<blob, code>>

AnyCount(r) == TRUE

\* COMMITS, counted on HEAD.
HasCommits(r) == head[r] # {}

\* No commits: nothing to push, never a completed run.
NothingToPush(r) ==
    /\ pc[r] = "push"
    /\ ~HasCommits(r)
    /\ Reports(r, IF Verdict(did[r]) = "blocked" THEN "blocked" ELSE "failed", "exit1")
    /\ UNCHANGED <<did, localVars, remote, forced>>

\* git push of $BRANCH, wherever HEAD is, and of nothing new if an agent pushed it before.
\* When its answer is lost, the branch is there and the script dies.
Push(r) ==
    /\ pc[r] = "push"
    /\ HasCommits(r)
    /\ RemoteAccepts(r, branch[r])
    /\ remote' = [by |-> r, has |-> branch[r]]
    /\ \/ Goes(r, "report") /\ UNCHANGED <<blob, code>>
       \/ Reports(r, "failed", "exit1")
    /\ UNCHANGED <<did, localVars, forced>>

AlwaysZero(status) == "exit0"

\* The Job condition must agree with a failed verdict.
ExitCode(status) == IF status = "failed" THEN "exit1" ELSE "exit0"

\* report of a run that pushed.
Report(r) ==
    /\ pc[r] = "report"
    /\ LET status == Verdict(did[r]) IN Reports(r, status, ExitCode(status))
    /\ UNCHANGED <<did, localVars, remote, forced>>

Next ==
    \E r \in Runs :
        \/ Proceeds(r) \/ CheckBranch(r) \/ RunPhase(r)
        \/ NothingToPush(r) \/ Push(r) \/ Report(r) \/ Exit(r)
        \/ Die(r) \/ Killed(r)

Spec == Init /\ [][Next]_vars

-----------------------------------------------------------------------------
(* Properties *)

SaysSuccess(r) == blob[r] \in {"completed", "completed_unreviewed"}

\* The commits that were counted are the branch the remote has.
OnRemote(r) == remote = [by |-> r, has |-> head[r]] /\ head[r] # {}

\* What the prompts ask of git, so far as the push relies on it: the agents of the run end
\* on $BRANCH, and no agent of any run forces a push.
Kept(r) == on[r] /\ ~forced

\* A blob that calls the run completed names a branch the remote has, and it is this run's
\* branch with this run's commits, also when runs race for it, agents rewrite it or push it
\* early.  That the agents end on $BRANCH is not checked by the script, which counts on HEAD
\* and pushes $BRANCH: where they do not, this says nothing.
SuccessIsPushed == \A r \in Runs : SaysSuccess(r) /\ Kept(r) => OnRemote(r)

\* What the phases of run r produced, committed by themselves or left in the tree.
Produced(r) ==
    {<<p, "agent">> : p \in {q \in Phases : did[r][q].commits}} \cup
    {<<p, "left">>  : p \in {q \in Phases : did[r][q].dirty}}

\* The agents left HEAD and history alone; pushing the branch is not excluded.
Obeyed(r) == \A p \in Phases : did[r][p].git = "stays"

\* "Work is not dropped on the way past just because the phase that produced it never
\* reported": a run called completed has all of it on the remote.
WorkIsPushed ==
    \A r \in Runs : SaysSuccess(r) /\ Obeyed(r) /\ ~forced =>
        remote = [by |-> r, has |-> Produced(r)]

\* Only a reviewed run is called completed: no phase died, and each review phase left
\* its work committed by itself.
CompletedIsReviewed ==
    \A r \in Runs : blob[r] = "completed" =>
        /\ \A p \in Phases : did[r][p].answer = "completed"
        /\ \A p \in {"review", "ponytail"} :
               ~did[r][p].dirty /\ (did[r][p].fixed => did[r][p].commits)

\* The two result channels agree: exit 0 is a run that pushed and whose verdict is not
\* failed, and its blob is that verdict, or missing because it could not be written.
ChannelsAgree ==
    \A r \in Runs : code[r] = 0 =>
        /\ Verdict(did[r]) # "failed" /\ blob[r] \in {Verdict(did[r]), "none"}
        /\ Kept(r) => OnRemote(r)

-----------------------------------------------------------------------------
(* The inductive invariant *)

\* While HEAD is $BRANCH, they have the same commits.
Attached == \A r \in Runs : on[r] => head[r] = branch[r]

\* The phases that are not behind the script have not run.
Ahead(p) ==
    CASE p \in {"preflight", "clone", "check", "brief", "implement"} -> Phases
      [] p = "review"   -> {"review", "ponytail"}
      [] p = "ponytail" -> {"ponytail"}
      [] OTHER          -> {}

\* All that was produced is in HEAD, and what is to come was not produced yet.
WorkKept ==
    \A r \in Runs :
        /\ \A p \in Ahead(pc[r]) : did[r][p] = NotRun
        /\ Obeyed(r) => on[r] /\ head[r] = Produced(r)

\* A run that exits well, or says it went well, has the verdict for it and has pushed.
ResultKept ==
    \A r \in Runs :
        /\ pc[r] \in Working => blob[r] = "none"
        /\ pc[r] # "exited" => code[r] = 137
        /\ pc[r] \in {"report", "exit0"} \/ SaysSuccess(r) \/ code[r] = 0 =>
               (Kept(r) => OnRemote(r))
        /\ SaysSuccess(r) => blob[r] = Verdict(did[r])
        /\ pc[r] = "exit0" \/ code[r] = 0 =>
               Verdict(did[r]) # "failed" /\ blob[r] \in {Verdict(did[r]), "none"}

PlanInv == TypeOK /\ Attached /\ WorkKept /\ ResultKept
=============================================================================
