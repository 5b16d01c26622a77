---------------------------- MODULE RunPlanProofs ----------------------------
(***************************************************************************)
(* Proofs about RunPlan, for any number of runs that overlap on one issue  *)
(* and whatever their agents do, to git and the remote as well.            *)
(***************************************************************************)
EXTENDS RunPlan, TLAPS

-----------------------------------------------------------------------------
(* The verdict *)

\* The verdict is one of the four, whatever the phases did.
LEMMA VerdictIsOne ==
    ASSUME NEW d \in [Phases -> AgentType]
    PROVE  Verdict(d) \in Verdicts
BY DEF Verdict, Verdicts

\* A phase whose status is completed answered so, left nothing uncommitted, and committed
\* the fixes it reports.
LEMMA StatusIsEarned ==
    ASSUME NEW a \in AgentType
    PROVE  /\ PhaseStatus(a) = "completed" =>
                a.answer = "completed" /\ ~a.dirty /\ (a.fixed => a.commits)
           /\ PhaseStatus(a) = "dirty" => a.answer = "completed"
BY DEF PhaseStatus, SaysCompleted, AgentType

\* A completed verdict is one of three phases that completed.
LEMMA VerdictIsEarned ==
    ASSUME NEW d \in [Phases -> AgentType], Verdict(d) = "completed"
    PROVE  /\ \A p \in Phases : d[p].answer = "completed"
           /\ \A p \in {"review", "ponytail"} : ~d[p].dirty /\ (d[p].fixed => d[p].commits)
<1>1. /\ PhaseStatus(d["implement"]) \in {"completed", "dirty"}
      /\ PhaseStatus(d["review"]) = "completed"
      /\ PhaseStatus(d["ponytail"]) = "completed"
    BY DEF Verdict
<1>2. d["implement"] \in AgentType /\ d["review"] \in AgentType /\ d["ponytail"] \in AgentType
    BY DEF Phases
<1> QED
    BY <1>1, <1>2, StatusIsEarned DEF Phases

-----------------------------------------------------------------------------
(* What the invariant says of one run *)

AttachedOf(r) == on[r] => head[r] = branch[r]

WorkOf(r) ==
    /\ \A p \in Ahead(pc[r]) : did[r][p] = NotRun
    /\ Obeyed(r) => on[r] /\ head[r] = Produced(r)

HasPushed(r) == Kept(r) => OnRemote(r)

ResultOf(r) ==
    /\ pc[r] \in Working => blob[r] = "none"
    /\ pc[r] # "exited" => code[r] = 137
    /\ pc[r] \in {"report", "exit0"} \/ SaysSuccess(r) \/ code[r] = 0 => HasPushed(r)
    /\ SaysSuccess(r) => blob[r] = Verdict(did[r])
    /\ pc[r] = "exit0" \/ code[r] = 0 =>
           Verdict(did[r]) # "failed" /\ blob[r] \in {Verdict(did[r]), "none"}

\* The invariant is the type and what it says of each run.
LEMMA RunByRun ==
    /\ PlanInv <=> TypeOK /\ \A r \in Runs : AttachedOf(r) /\ WorkOf(r) /\ ResultOf(r)
    /\ PlanInv' <=> TypeOK' /\ \A r \in Runs : AttachedOf(r)' /\ WorkOf(r)' /\ ResultOf(r)'
BY DEF PlanInv, Attached, WorkKept, ResultKept, AttachedOf, WorkOf, ResultOf, HasPushed

\* What a run pushed stays on the remote until somebody forces: no other run's commits
\* descend from its own.
LEMMA NobodyReplaces ==
    ASSUME NEW q \in Runs, NEW r \in Runs, q # r, OnRemote(q), NEW local
    PROVE  ~RemoteAccepts(r, local)
BY NoRunAssumption DEF OnRemote, RemoteAccepts

\* A step of run r that leaves the others as they are, and what they pushed unless it
\* forces, keeps the invariant if it keeps it for r.
LEMMA RunStep ==
    ASSUME PlanInv, NEW r \in Runs, TypeOK', forced => forced',
           \A q \in Runs \ {r} :
               /\ pc'[q] = pc[q] /\ did'[q] = did[q]
               /\ head'[q] = head[q] /\ branch'[q] = branch[q] /\ on'[q] = on[q]
               /\ blob'[q] = blob[q] /\ code'[q] = code[q]
               /\ OnRemote(q) /\ ~forced' => remote' = remote,
           AttachedOf(r)', WorkOf(r)', ResultOf(r)'
    PROVE  PlanInv'
<1> SUFFICES ASSUME NEW q \in Runs \ {r} PROVE AttachedOf(q)' /\ WorkOf(q)' /\ ResultOf(q)'
    BY RunByRun
<1>1. AttachedOf(q) /\ WorkOf(q) /\ ResultOf(q)
    BY RunByRun
<1>2. AttachedOf(q)' /\ WorkOf(q)'
    BY <1>1 DEF AttachedOf, WorkOf, Obeyed, Produced
<1>3. HasPushed(q) => HasPushed(q)'
    BY DEF HasPushed, Kept, OnRemote
<1> QED
    BY <1>1, <1>2, <1>3 DEF ResultOf, SaysSuccess

\* A step of run r that only goes on, or ends, keeps what is true of the work.
LEMMA WorkStays ==
    ASSUME NEW r \in Runs, AttachedOf(r), WorkOf(r), UNCHANGED <<did, localVars>>,
           Ahead(pc'[r]) \subseteq Ahead(pc[r])
    PROVE  AttachedOf(r)' /\ WorkOf(r)'
BY DEF AttachedOf, WorkOf, Obeyed, Produced, localVars

\* So does one that leaves the agents' work and the remote alone, if what it says is true.
LEMMA LocalStep ==
    ASSUME PlanInv, NEW r \in Runs, UNCHANGED <<did, localVars, remote, forced>>,
           NEW p \in Working \cup Exiting \cup {"exited"}, Goes(r, p),
           Ahead(p) \subseteq Ahead(pc[r]),
           blob' \in [Runs -> Verdicts \cup {"none"}], code' \in [Runs -> {0, 1, 137}],
           \A q \in Runs \ {r} : blob'[q] = blob[q] /\ code'[q] = code[q],
           ResultOf(r)'
    PROVE  PlanInv'
<1>1. TypeOK /\ AttachedOf(r) /\ WorkOf(r)
    BY RunByRun
<1>2. /\ pc' \in [Runs -> Working \cup Exiting \cup {"exited"}] /\ pc'[r] = p
      /\ \A q \in Runs \ {r} : pc'[q] = pc[q]
    BY <1>1 DEF TypeOK, Goes
<1>3. TypeOK'
    BY <1>1, <1>2 DEF TypeOK, localVars
<1>4. AttachedOf(r)' /\ WorkOf(r)'
    BY <1>1, <1>2, WorkStays
<1> QED
    BY <1>2, <1>3, <1>4, RunStep DEF localVars

-----------------------------------------------------------------------------
(* The invariant is inductive *)

\* Nothing has run, and nothing is pushed.
LEMMA PlanInitHolds == Init => PlanInv
<1> SUFFICES ASSUME Init PROVE PlanInv
    OBVIOUS
<1>1. NotRun \in AgentType
    BY DEF NotRun, AgentType
<1>2. TypeOK
    BY <1>1 DEF Init, TypeOK, Working
<1> SUFFICES ASSUME NEW r \in Runs PROVE AttachedOf(r) /\ WorkOf(r) /\ ResultOf(r)
    BY <1>2, RunByRun
<1>3. did[r] = [p \in Phases |-> NotRun] /\ head[r] = {} /\ branch[r] = {} /\ on[r]
    BY DEF Init
<1>4. Produced(r) = {}
    BY <1>3 DEF Produced, NotRun
<1>5. Ahead(pc[r]) = Phases
    BY DEF Init, Ahead
<1>6. AttachedOf(r) /\ WorkOf(r)
    BY <1>3, <1>4, <1>5 DEF AttachedOf, WorkOf
<1>7. pc[r] = "preflight" /\ blob[r] = "none" /\ code[r] = 137
    BY DEF Init
<1>8. ResultOf(r)
    BY <1>7 DEF ResultOf, SaysSuccess
<1> QED
    BY <1>6, <1>8

\* A run that goes on with nothing but its place changed, and not to its report, keeps it.
LEMMA WalkStep ==
    ASSUME PlanInv, NEW r \in Runs, pc[r] \in {"preflight", "clone", "check", "brief"},
           NEW p \in {"clone", "check", "brief", "implement"}, Goes(r, p),
           UNCHANGED <<did, localVars, blob, code, remote, forced>>
    PROVE  PlanInv'
<1>1. TypeOK /\ ResultOf(r)
    BY RunByRun
<1>2. p \in Working /\ pc[r] \in Working /\ Ahead(p) = Ahead(pc[r])
    BY DEF Working, Phases, Ahead
<1>3. pc'[r] = p
    BY <1>1 DEF TypeOK, Goes
<1>4. blob[r] = "none" /\ code[r] = 137
    BY <1>1, <1>2 DEF ResultOf
<1>5. ResultOf(r)'
    BY <1>2, <1>3, <1>4 DEF ResultOf, SaysSuccess
<1> QED
    BY <1>1, <1>2, <1>5, LocalStep DEF TypeOK

\* A report that may fail to be written, and what exits after it.
LEMMA ReportsStep ==
    ASSUME PlanInv, NEW r \in Runs, pc[r] \in Working, NEW status \in Verdicts,
           NEW exit \in Exiting, Reports(r, status, exit),
           UNCHANGED <<did, localVars, remote, forced>>,
           status \in {"completed", "completed_unreviewed"} \/ exit = "exit0" =>
               HasPushed(r) /\ status = Verdict(did[r]),
           exit = "exit0" => status # "failed"
    PROVE  PlanInv'
<1>1. TypeOK /\ ResultOf(r)
    BY RunByRun
<1>2. PICK written \in {status, "none"} : blob' = [blob EXCEPT ![r] = written]
    BY DEF Reports
<1>3. /\ blob' \in [Runs -> Verdicts \cup {"none"}] /\ blob'[r] = written
      /\ \A q \in Runs \ {r} : blob'[q] = blob[q]
    BY <1>1, <1>2 DEF TypeOK
<1>4. Goes(r, exit) /\ pc'[r] = exit /\ code' = code
    BY <1>1 DEF Reports, TypeOK, Goes
<1>5. Ahead(exit) \subseteq Ahead(pc[r])
    BY DEF Exiting, Ahead
<1>6. code'[r] = 137
    BY <1>1, <1>4 DEF ResultOf, Working, Phases
<1>7. HasPushed(r) => HasPushed(r)'
    BY DEF HasPushed, Kept, OnRemote, localVars
<1>8. exit \notin Working /\ exit # "report"
    BY DEF Exiting, Working, Phases
<1>9. ResultOf(r)'
    BY <1>2, <1>3, <1>4, <1>6, <1>7, <1>8 DEF ResultOf, SaysSuccess
<1> QED
    BY <1>1, <1>3, <1>4, <1>5, <1>9, LocalStep DEF TypeOK

\* The exit says what the script had decided.
LEMMA ExitStep ==
    ASSUME PlanInv, NEW r \in Runs, Exit(r)
    PROVE  PlanInv'
<1>1. TypeOK /\ ResultOf(r) /\ pc[r] \in {"exit0", "exit1"}
    BY RunByRun DEF Exit, Exiting
<1>2. Goes(r, "exited") /\ pc'[r] = "exited" /\ blob' = blob
    BY <1>1 DEF Exit, TypeOK, Goes
<1>3. /\ code' \in [Runs -> {0, 1, 137}] /\ (code'[r] = 0 => pc[r] = "exit0")
      /\ \A q \in Runs \ {r} : code'[q] = code[q]
    BY <1>1 DEF Exit, TypeOK
<1>4. UNCHANGED <<did, localVars, remote, forced>>
    BY DEF Exit
<1>5. HasPushed(r) => HasPushed(r)'
    BY <1>4 DEF HasPushed, Kept, OnRemote, localVars
<1>6. "exited" \notin Working /\ Ahead("exited") \subseteq Ahead(pc[r])
    BY DEF Working, Phases, Ahead
<1>7. ResultOf(r)'
    BY <1>1, <1>2, <1>3, <1>4, <1>5, <1>6 DEF ResultOf, SaysSuccess
<1> QED
    BY <1>1, <1>2, <1>3, <1>4, <1>6, <1>7, LocalStep DEF TypeOK

\* What kills the script leaves it no exit of its own.
LEMMA KilledStep ==
    ASSUME PlanInv, NEW r \in Runs, Killed(r)
    PROVE  PlanInv'
<1>1. TypeOK /\ ResultOf(r)
    BY RunByRun
<1>2. Goes(r, "exited") /\ pc'[r] = "exited" /\ blob' = blob
    BY <1>1 DEF Killed, TypeOK, Goes
<1>3. /\ code' \in [Runs -> {0, 1, 137}] /\ code'[r] # 0
      /\ \A q \in Runs \ {r} : code'[q] = code[q]
    BY <1>1 DEF Killed, TypeOK
<1>4. UNCHANGED <<did, localVars, remote, forced>>
    BY DEF Killed
<1>5. HasPushed(r) => HasPushed(r)'
    BY <1>4 DEF HasPushed, Kept, OnRemote, localVars
<1>6. "exited" \notin Working /\ Ahead("exited") \subseteq Ahead(pc[r])
    BY DEF Working, Phases, Ahead
<1>7. ResultOf(r)'
    BY <1>1, <1>2, <1>3, <1>4, <1>5, <1>6 DEF ResultOf, SaysSuccess
<1> QED
    BY <1>1, <1>2, <1>3, <1>4, <1>6, <1>7, LocalStep DEF TypeOK

\* Agents that did not stray leave HEAD on $BRANCH with all the phase produced, the run
\* plan's commit of it included; and a push that is not forced takes nobody's branch.
LEMMA PhaseStep ==
    ASSUME PlanInv, NEW r \in Runs, RunPhase(r)
    PROVE  PlanInv'
<1>1. /\ TypeOK /\ AttachedOf(r) /\ WorkOf(r) /\ ResultOf(r)
      /\ pc[r] \in Phases /\ UNCHANGED <<blob, code>>
    BY RunByRun DEF RunPhase
<1>2. PICK a \in Agents[r] :
        /\ did' = [did EXCEPT ![r][pc[r]] = a]
        /\ head' = [head EXCEPT ![r] = Committed(r, a) \cup Leftover(r, a)]
        /\ branch' = [branch EXCEPT ![r] =
                          EndsAt(r, a) \cup IF EndsOn(r, a) THEN Leftover(r, a) ELSE {}]
        /\ on' = [on EXCEPT ![r] = EndsOn(r, a)]
        /\ AgentPush(r, a)
    BY DEF RunPhase
<1>3. a \in AgentType
    BY AgentsAssumption
<1>4. /\ did' \in [Runs -> [Phases -> AgentType]]
      /\ did'[r] = [did[r] EXCEPT ![pc[r]] = a]
      /\ \A q \in Runs \ {r} : did'[q] = did[q]
    BY <1>1, <1>2, <1>3 DEF TypeOK
<1>5. /\ Committed(r, a) \in SUBSET Commits /\ Leftover(r, a) \in SUBSET Commits
      /\ EndsAt(r, a) \in SUBSET Commits /\ EndsOn(r, a) \in BOOLEAN
  <2>1. Moved(r, a) \in SUBSET Commits
    BY <1>1 DEF Moved, TypeOK
  <2>2. <<pc[r], "agent">> \in Commits /\ <<pc[r], "left">> \in Commits
    BY <1>1 DEF Commits
  <2>3. Committed(r, a) \in SUBSET Commits /\ Leftover(r, a) \in SUBSET Commits
    BY <2>1, <2>2 DEF Committed, Leftover
  <2> QED
    BY <1>1, <2>3 DEF EndsAt, EndsOn, TypeOK
<1>6. /\ head' \in [Runs -> SUBSET Commits] /\ head'[r] = Committed(r, a) \cup Leftover(r, a)
      /\ \A q \in Runs \ {r} : head'[q] = head[q]
    BY <1>1, <1>2, <1>5 DEF TypeOK
<1>7. /\ branch' \in [Runs -> SUBSET Commits]
      /\ branch'[r] = EndsAt(r, a) \cup IF EndsOn(r, a) THEN Leftover(r, a) ELSE {}
      /\ \A q \in Runs \ {r} : branch'[q] = branch[q]
    BY <1>1, <1>2, <1>5 DEF TypeOK
<1>8. /\ on' \in [Runs -> BOOLEAN] /\ on'[r] = EndsOn(r, a)
      /\ \A q \in Runs \ {r} : on'[q] = on[q]
    BY <1>1, <1>2, <1>5 DEF TypeOK
<1>9. /\ remote' \in [by : Runs \cup {NoRun}, has : SUBSET Commits] /\ forced' \in BOOLEAN
      /\ forced => forced'
    BY <1>1, <1>2, <1>5 DEF TypeOK, AgentPush
<1>10. /\ Goes(r, After[pc[r]]) /\ After["implement"] = "review"
       /\ After["review"] = "ponytail" /\ After["ponytail"] = "push"
    BY DEF RunPhase, After
<1>11. /\ pc' \in [Runs -> Working \cup Exiting \cup {"exited"}] /\ pc'[r] = After[pc[r]]
       /\ pc'[r] \in {"review", "ponytail", "push"}
       /\ \A q \in Runs \ {r} : pc'[q] = pc[q]
    BY <1>1, <1>10 DEF TypeOK, Goes, Phases, Working
<1>12. TypeOK'
    BY <1>1, <1>4, <1>6, <1>7, <1>8, <1>9, <1>11 DEF TypeOK
<1>13. ASSUME NEW q \in Runs \ {r}, OnRemote(q), ~forced'
       PROVE  remote' = remote
    BY <1>2, <1>13, NobodyReplaces DEF AgentPush
<1>14. AttachedOf(r)'
    BY <1>6, <1>7, <1>8 DEF AttachedOf, EndsAt
<1>15. pc[r] \in Ahead(pc[r]) /\ Ahead(pc'[r]) \subseteq Ahead(pc[r]) \ {pc[r]}
    BY <1>1, <1>10, <1>11 DEF Phases, Ahead
<1>16. \A p \in Ahead(pc[r]) : did[r][p] = NotRun
    BY <1>1 DEF WorkOf
<1>17. ASSUME Obeyed(r)' PROVE on'[r] /\ head'[r] = Produced(r)'
  <2>1. a.git = "stays" /\ did'[r] \in [Phases -> AgentType] /\ did[r] \in [Phases -> AgentType]
    BY <1>1, <1>4, <1>17 DEF Obeyed, TypeOK
  <2>2. did[r][pc[r]] = NotRun
    BY <1>15, <1>16
  <2>3. Obeyed(r)
    BY <1>1, <1>4, <1>17, <2>1, <2>2 DEF Obeyed, NotRun
  <2>4. on[r] /\ head[r] = Produced(r)
    BY <1>1, <2>3 DEF WorkOf
  <2>5. on'[r]
    BY <1>8, <2>1, <2>4 DEF EndsOn
  <2>6. head'[r] = head[r] \cup (IF a.commits THEN {<<pc[r], "agent">>} ELSE {})
                           \cup (IF a.dirty THEN {<<pc[r], "left">>} ELSE {})
    BY <1>6, <2>1 DEF Committed, Moved, Leftover, CommitsLeftover
  <2>7. ~did[r][pc[r]].commits /\ ~did[r][pc[r]].dirty
    BY <2>2 DEF NotRun
  <2>8. /\ did'[r][pc[r]] = a
        /\ \A p \in Phases \ {pc[r]} : did'[r][p] = did[r][p]
    BY <1>1, <1>4, <2>1
  <2>9. /\ {q \in Phases : did'[r][q].commits} =
               {q \in Phases : did[r][q].commits} \cup (IF a.commits THEN {pc[r]} ELSE {})
        /\ {q \in Phases : did'[r][q].dirty} =
               {q \in Phases : did[r][q].dirty} \cup (IF a.dirty THEN {pc[r]} ELSE {})
    BY <1>1, <2>7, <2>8
  <2>10. Produced(r)' = Produced(r) \cup (IF a.commits THEN {<<pc[r], "agent">>} ELSE {})
                                    \cup (IF a.dirty THEN {<<pc[r], "left">>} ELSE {})
    BY <2>9 DEF Produced
  <2> QED
    BY <2>4, <2>5, <2>6, <2>10
<1>18. \A p \in Ahead(pc'[r]) : did'[r][p] = NotRun
    BY <1>1, <1>4, <1>15, <1>16 DEF TypeOK
<1>19. WorkOf(r)'
    BY <1>17, <1>18 DEF WorkOf
<1>20. blob[r] = "none" /\ code[r] = 137
    BY <1>1 DEF ResultOf, Working, Phases
<1>21. ResultOf(r)'
    BY <1>1, <1>11, <1>20 DEF ResultOf, SaysSuccess
<1> QED
    BY <1>1, <1>4, <1>6, <1>7, <1>8, <1>9, <1>11, <1>12, <1>13, <1>14, <1>19, <1>21, RunStep

\* A push on $BRANCH puts the counted commits on the remote, and takes nobody's branch.
LEMMA PushStep ==
    ASSUME PlanInv, NEW r \in Runs, Push(r)
    PROVE  PlanInv'
<1>1. /\ TypeOK /\ AttachedOf(r) /\ WorkOf(r) /\ ResultOf(r)
      /\ pc[r] = "push" /\ head[r] # {} /\ RemoteAccepts(r, branch[r])
      /\ remote' = [by |-> r, has |-> branch[r]] /\ UNCHANGED <<did, localVars, forced>>
    BY RunByRun DEF Push, HasCommits
<1>2. HasPushed(r)'
    BY <1>1 DEF HasPushed, Kept, OnRemote, AttachedOf, localVars
<1>3. \A q \in Runs \ {r} : ~OnRemote(q)
    BY <1>1, NobodyReplaces
<1>4. remote' \in [by : Runs \cup {NoRun}, has : SUBSET Commits]
    BY <1>1 DEF TypeOK
<1>5. blob[r] = "none" /\ code[r] = 137
    BY <1>1 DEF ResultOf, Working
<1>6. CASE Goes(r, "report") /\ UNCHANGED <<blob, code>>
  <2>1. /\ pc' \in [Runs -> Working \cup Exiting \cup {"exited"}] /\ pc'[r] = "report"
        /\ \A q \in Runs \ {r} : pc'[q] = pc[q]
    BY <1>1, <1>6 DEF TypeOK, Goes, Working
  <2>2. TypeOK'
    BY <1>1, <1>4, <1>6, <2>1 DEF TypeOK, localVars
  <2>3. Ahead(pc'[r]) \subseteq Ahead(pc[r])
    BY <1>1, <2>1 DEF Ahead
  <2>4. AttachedOf(r)' /\ WorkOf(r)'
    BY <1>1, <2>3, WorkStays
  <2>5. ResultOf(r)'
    BY <1>2, <1>5, <1>6, <2>1 DEF ResultOf, SaysSuccess
  <2> QED
    BY <1>1, <1>3, <1>6, <2>1, <2>2, <2>4, <2>5, RunStep DEF localVars
<1>7. CASE Reports(r, "failed", "exit1")
  <2>1. PICK written \in {"failed", "none"} : blob' = [blob EXCEPT ![r] = written]
    BY <1>7 DEF Reports
  <2>2. /\ blob' \in [Runs -> Verdicts \cup {"none"}] /\ blob'[r] = written
        /\ \A q \in Runs \ {r} : blob'[q] = blob[q]
    BY <1>1, <2>1 DEF TypeOK, Verdicts
  <2>3. /\ pc' \in [Runs -> Working \cup Exiting \cup {"exited"}] /\ pc'[r] = "exit1"
        /\ code' = code /\ \A q \in Runs \ {r} : pc'[q] = pc[q]
    BY <1>1, <1>7 DEF Reports, TypeOK, Goes, Exiting
  <2>4. TypeOK'
    BY <1>1, <1>4, <2>2, <2>3 DEF TypeOK, localVars
  <2>5. Ahead(pc'[r]) \subseteq Ahead(pc[r])
    BY <1>1, <2>3 DEF Ahead
  <2>6. AttachedOf(r)' /\ WorkOf(r)'
    BY <1>1, <2>5, WorkStays
  <2>7. ResultOf(r)'
    BY <1>5, <2>2, <2>3 DEF ResultOf, SaysSuccess, Working, Phases
  <2> QED
    BY <1>1, <1>3, <2>2, <2>3, <2>4, <2>6, <2>7, RunStep DEF localVars
<1> QED
    BY <1>6, <1>7 DEF Push

\* Every step keeps the invariant.
LEMMA PlanStepHolds == PlanInv /\ [Next]_vars => PlanInv'
<1> SUFFICES ASSUME PlanInv, [Next]_vars PROVE PlanInv'
    OBVIOUS
<1>1. ASSUME NEW r \in Runs, Proceeds(r) PROVE PlanInv'
  <2>1. /\ After["preflight"] = "clone" /\ After["clone"] = "check"
        /\ After["brief"] = "implement"
    BY DEF After
  <2> QED
    BY <1>1, <2>1, WalkStep DEF Proceeds
<1>2. ASSUME NEW r \in Runs, CheckBranch(r) PROVE PlanInv'
    BY <1>2, WalkStep DEF CheckBranch
<1>3. ASSUME NEW r \in Runs, NothingToPush(r) PROVE PlanInv'
    BY <1>3, ReportsStep DEF NothingToPush, Verdicts, Exiting, Working
<1>4. ASSUME NEW r \in Runs, Die(r) PROVE PlanInv'
    BY <1>4, ReportsStep DEF Die, Verdicts, Exiting
<1>5. ASSUME NEW r \in Runs, Report(r) PROVE PlanInv'
  <2> DEFINE status == Verdict(did[r])
  <2>1. /\ pc[r] = "report" /\ Reports(r, status, ExitCode(status))
        /\ UNCHANGED <<did, localVars, remote, forced>>
    BY <1>5 DEF Report
  <2>2. TypeOK /\ ResultOf(r)
    BY RunByRun
  <2>3. HasPushed(r)
    BY <2>1, <2>2 DEF ResultOf
  <2>4. status \in Verdicts
    BY <2>2, VerdictIsOne DEF TypeOK
  <2>5. ExitCode(status) \in Exiting /\ (ExitCode(status) = "exit0" => status # "failed")
    BY DEF ExitCode, Exiting
  <2>6. pc[r] \in Working
    BY <2>1 DEF Working
  <2>7. status = Verdict(did[r])
    OBVIOUS
  <2> HIDE DEF status
  <2> QED
    BY <2>1, <2>3, <2>4, <2>5, <2>6, <2>7, ReportsStep
<1>6. CASE UNCHANGED vars
    BY <1>6, RunByRun
    DEF vars, localVars, TypeOK, AttachedOf, WorkOf, ResultOf, HasPushed, Kept, OnRemote,
        Obeyed, Produced, SaysSuccess
<1> QED
    BY <1>1, <1>2, <1>3, <1>4, <1>5, <1>6, PhaseStep, PushStep, ExitStep, KilledStep DEF Next

-----------------------------------------------------------------------------
(* What the blob, the exit code and the branch say *)

\* The invariant is inductive: it holds in every reachable state.
THEOREM PlanInvariance == Spec => []PlanInv
BY PlanInitHolds, PlanStepHolds, PTL DEF Spec

\* A run its blob calls completed has its branch on the remote, with the commits that were
\* counted, however many runs race for the branch, as long as its agents end on the branch
\* and nobody forces a push.
THEOREM ResultsAreTrue == Spec => []SuccessIsPushed
<1>1. PlanInv => SuccessIsPushed
    BY RunByRun DEF ResultOf, HasPushed, SuccessIsPushed
<1> QED
    BY <1>1, PlanInvariance, PTL

\* All that the phases of a run its blob calls completed produced is on the remote, also
\* what a phase left in the tree, died or not.
THEOREM WorkIsKept == Spec => []WorkIsPushed
<1>1. PlanInv => WorkIsPushed
  <2> SUFFICES ASSUME PlanInv, NEW r \in Runs, SaysSuccess(r), Obeyed(r), ~forced
               PROVE  remote = [by |-> r, has |-> Produced(r)]
    BY DEF WorkIsPushed
  <2>1. HasPushed(r) /\ on[r] /\ head[r] = Produced(r)
    BY RunByRun DEF ResultOf, WorkOf
  <2> QED
    BY <2>1 DEF HasPushed, Kept, OnRemote
<1> QED
    BY <1>1, PlanInvariance, PTL

\* A run that exits well has a verdict that is not failed and has pushed, and its blob is
\* that verdict or could not be written, wherever runs race, die or are killed.
THEOREM ExitCodesAreTrue == Spec => []ChannelsAgree
<1>1. PlanInv => ChannelsAgree
    BY RunByRun DEF ResultOf, HasPushed, ChannelsAgree
<1> QED
    BY <1>1, PlanInvariance, PTL

\* A run its blob calls completed was reviewed: all three phases completed, and the two
\* that review left their fixes committed.
THEOREM CompletionIsReviewed == Spec => []CompletedIsReviewed
<1>1. PlanInv => CompletedIsReviewed
  <2> SUFFICES ASSUME PlanInv, NEW r \in Runs, blob[r] = "completed"
               PROVE  /\ \A p \in Phases : did[r][p].answer = "completed"
                      /\ \A p \in {"review", "ponytail"} :
                             ~did[r][p].dirty /\ (did[r][p].fixed => did[r][p].commits)
    BY DEF CompletedIsReviewed
  <2>1. did[r] \in [Phases -> AgentType] /\ Verdict(did[r]) = "completed"
    BY RunByRun DEF TypeOK, ResultOf, SaysSuccess
  <2> QED
    BY <2>1, VerdictIsEarned
<1> QED
    BY <1>1, PlanInvariance, PTL
=============================================================================
