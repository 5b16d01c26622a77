--------------------------- MODULE ReporterProofs ---------------------------
(***************************************************************************)
(* Proofs about Reporter, for every set of runs and issues and every bound.*)
(***************************************************************************)
EXTENDS Reporter, FiniteSetTheorems, SequenceTheorems, TLAPS

USE DEF JobPresent, JobStates, PodPresent, PodStates

-----------------------------------------------------------------------------
(* Sequences of what a list or a resync hands over *)

\* A permutation of a finite set of Jobs is a queue.
LEMMA PermutationIsQueue ==
    ASSUME NEW T, IsFiniteSet(T), T \subseteq JobSeen, NEW q \in SetToSeqs(T)
    PROVE  q \in Seq(JobSeen) /\ \A k \in DOMAIN q : q[k] \in T
<1>1. Cardinality(T) \in Nat
    BY FS_CardinalityType
<1>2. q \in [1..Cardinality(T) -> T]
    BY DEF SetToSeqs
<1>3. q \in Seq(T)
    BY <1>1, <1>2
<1> QED
    BY <1>2, <1>3

\* The API list of the runs is a finite set of Jobs, each as the cluster has it.
LEMMA ListIsFinite ==
    ASSUME TypeOK
    PROVE  /\ IsFiniteSet(AllListed)
           /\ AllListed \subseteq JobSeen
           /\ \A s \in AllListed : job[s.run] = s.cond
<1> DEFINE Q == {r \in Runs : job[r] \in JobPresent}
           f == [r \in Q |-> [run |-> r, cond |-> job[r]]]
<1>1. IsFiniteSet(Q)
    BY FS_Subset, FiniteAssumption
<1>2. AllListed = {f[r] : r \in Q}
  <2>1. ASSUME NEW s, s \in AllListed  PROVE  \E r \in Q : s = f[r]
    BY <2>1 DEF AllListed, Listed
  <2>2. ASSUME NEW r \in Q  PROVE  f[r] \in AllListed
    <3>1. f[r] \in Listed(IssueOf[r])
      BY DEF Listed
    <3>2. IssueOf[r] \in Issues
      BY IssueOfAssumption
    <3> QED
      BY <3>1, <3>2 DEF AllListed
  <2> HIDE DEF f, Q
  <2> QED
    BY <2>1, <2>2
<1>3. f \in Surjection(Q, AllListed)
    BY <1>2 DEF Surjection
<1>4. IsFiniteSet(AllListed)
    BY <1>1, <1>3, FS_Surjection
<1>5. \A s \in AllListed : s \in JobSeen /\ job[s.run] = s.cond
  <2>1. \A r \in Q : f[r] \in JobSeen /\ job[f[r].run] = f[r].cond
    BY DEF JobSeen
  <2> HIDE DEF f
  <2> QED
    BY <1>2, <2>1
<1> QED
    BY <1>4, <1>5

\* The informer's cache is a finite set of Jobs.
LEMMA CacheIsFinite ==
    ASSUME TypeOK
    PROVE  IsFiniteSet(Cached) /\ Cached \subseteq JobSeen
<1>1. cache \in Surjection(Issues, {cache[i] : i \in Issues})
    BY DEF TypeOK, Surjection
<1>2. IsFiniteSet({cache[i] : i \in Issues})
    BY <1>1, FS_Surjection, FiniteAssumption
<1>3. IsFiniteSet(Cached)
    BY <1>2, FS_Subset DEF Cached
<1> QED
    BY <1>3 DEF Cached, TypeOK

\* Taking one element out of a sequence leaves the others, those behind it one earlier.
LEMMA RemoveAtKeeps ==
    ASSUME NEW S, NEW q \in Seq(S), NEW k \in DOMAIN q
    PROVE  /\ RemoveAt(q, k) \in Seq(S)
           /\ Len(RemoveAt(q, k)) = Len(q) - 1
           /\ DOMAIN RemoveAt(q, k) = 1 .. Len(q) - 1
           /\ \A j \in 1 .. Len(q) - 1 : RemoveAt(q, k)[j] = IF j < k THEN q[j] ELSE q[j + 1]
           /\ \A j \in DOMAIN RemoveAt(q, k) : \E m \in DOMAIN q : RemoveAt(q, k)[j] = q[m]
<1> DEFINE a == SubSeq(q, 1, k - 1)
           b == SubSeq(q, k + 1, Len(q))
<1>1. k \in 1 .. Len(q) /\ Len(q) \in Nat
    BY LenProperties
<1>2. a \in Seq(S) /\ Len(a) = k - 1 /\ \A j \in 1 .. k - 1 : a[j] = q[j]
    BY <1>1, SubSeqProperties
<1>3. b \in Seq(S) /\ Len(b) = Len(q) - k /\ \A j \in 1 .. Len(q) - k : b[j] = q[k + j]
    BY <1>1, SubSeqProperties
<1> HIDE DEF a, b
<1>4. a \o b \in Seq(S) /\ Len(a \o b) = Len(q) - 1
    BY <1>1, <1>2, <1>3, ConcatProperties
<1>5. ASSUME NEW j \in 1 .. Len(q) - 1
      PROVE  /\ (a \o b)[j] = IF j < k THEN q[j] ELSE q[j + 1]
             /\ \E m \in 1 .. Len(q) : (a \o b)[j] = q[m]
  <2>1. CASE j <= k - 1
    <3>1. (a \o b)[j] = a[j] /\ a[j] = q[j]
      BY <1>1, <1>2, <1>3, <2>1, ConcatProperties
    <3>2. j \in 1 .. Len(q) /\ j < k
      BY <1>1, <2>1
    <3> QED
      BY <3>1, <3>2
  <2>2. CASE j > k - 1
    <3>1. (a \o b)[j] = b[j - Len(a)]
      BY <1>1, <1>2, <1>3, <2>2, ConcatProperties
    <3>2. /\ j - Len(a) \in 1 .. Len(q) - k /\ k + (j - Len(a)) \in 1 .. Len(q)
          /\ k + (j - Len(a)) = j + 1 /\ ~(j < k)
      BY <1>1, <1>2, <2>2
    <3> QED
      BY <1>3, <3>1, <3>2
  <2>3. j <= k - 1 \/ j > k - 1
    BY <1>1
  <2> QED
    BY <2>1, <2>2, <2>3
<1>6. RemoveAt(q, k) = a \o b
    BY DEF RemoveAt, a, b
<1> QED
    BY <1>4, <1>5, <1>6, LenProperties

-----------------------------------------------------------------------------
(* Type correctness *)

\* A comment of somebody else's: whose thread it joins and what it marks.
LEMMA ForeignType ==
    ASSUME OthersComment
    PROVE  \E r \in Runs, c \in Comments :
              /\ c.by # "app" /\ c.mark = r
              /\ thread' = [thread EXCEPT ![IssueOf[r]] = Append(@, c)]
              /\ mimicked' = IF c.by = "bot" /\ c.lead THEN mimicked \cup {r} ELSE mimicked
<1>1. \A r \in Runs : \A c \in Foreign(r) : c \in Comments /\ c.by # "app" /\ c.mark = r
    BY DEF Foreign, Comments, Unread, Outcomes, MaybeRun
<1> QED
    BY <1>1 DEF OthersComment

\* The program starts in a well-typed state.
LEMMA TypeInit == Init => TypeOK
<1>1. Init => shifted \in BOOLEAN /\ late \in BOOLEAN
    BY DEF Init
<1> QED
    BY <1>1 DEF Init, TypeOK, ClusterInit, ClusterTypeOK, NotSeen, JobSeen, Idle, Calls, Stages,
                Unread, Outcomes, MaybeRun

\* The handler at rest, and the comment a call would post, are well typed.
LEMMA IdleType == Idle \in Calls /\ Idle.stage = "idle"
BY DEF Idle, Calls, Stages, Unread, Outcomes, MaybeRun

\* What the call in progress would post, and what it leaves behind, are well typed.
LEMMA CommentType ==
    ASSUME TypeOK, cur.stage # "idle"
    PROVE  /\ CommentOf(cur) \in Comments
           /\ IssueOf[cur.run] \in Issues
           /\ Orphaned \in Seq(Comments)
<1>1. cur.run \in Runs /\ cur.body \in Outcomes
    BY DEF TypeOK, Calls
<1>2. CommentOf(cur) \in Comments
    BY <1>1 DEF CommentOf, Comments
<1> QED
    BY <1>1, <1>2, IssueOfAssumption DEF Orphaned, CommentOf, TypeOK

\* Every step keeps the types.
LEMMA TypeStep == TypeOK /\ [Next]_vars => TypeOK'
<1> SUFFICES ASSUME TypeOK, [Next]_vars  PROVE TypeOK'
    OBVIOUS
<1> USE DEF TypeOK, clusterVars, githubVars, processVars, boundVars
<1>1. CASE ClusterSteps
    BY <1>1 DEF ClusterSteps, ClusterNext, ClusterTypeOK, Create, PodStops, PodGone,
                JobInterim, JobEnds, JobRemoved
<1>2. CASE StartWatch
    BY <1>2 DEF StartWatch, ClusterTypeOK
<1>3. CASE StartOnce
    BY <1>3, ListIsFinite, PermutationIsQueue DEF StartOnce, ClusterTypeOK
<1>4. ASSUME NEW i \in Issues, ObserveChange(i)  PROVE TypeOK'
    BY <1>4 DEF ObserveChange, Notify, Listed, JobSeen, ClusterTypeOK
<1>5. ASSUME NEW i \in Issues, ObserveDelete(i)  PROVE TypeOK'
    BY <1>5 DEF ObserveDelete, ClusterTypeOK
<1>6. CASE Resync
    BY <1>6, CacheIsFinite, PermutationIsQueue DEF Resync, ClusterTypeOK
<1>7. CASE Crash
  <2>1. Orphaned \in Seq(Comments)
    BY CommentType DEF Orphaned
  <2> QED
    BY <1>7, <2>1, IdleType DEF Crash, ProcessGone, ClusterTypeOK
<1>8. CASE CallFails
    BY <1>8, CommentType, IdleType DEF CallFails, ClusterTypeOK
<1>9. CASE OnceReturns
    BY <1>9, IdleType DEF OnceReturns, ProcessGone, ClusterTypeOK
<1>10. CASE TakeEvent
  <2>1. Head(queue) \in JobSeen /\ Tail(queue) \in Seq(JobSeen)
    BY <1>10 DEF TakeEvent
  <2>2. cur' \in Calls /\ (cur'.stage # "idle" => cur'.run \in Runs)
    BY <1>10, <2>1 DEF TakeEvent, JobSeen, Idle, Calls, Stages, Unread, Outcomes, MaybeRun
  <2> QED
    BY <1>10, <2>1, <2>2 DEF TakeEvent, ClusterTypeOK
<1>11. CASE ReadPod
  <2>1. cur' \in Calls /\ cur'.run = cur.run
    <3>1. Unread \in Outcomes
      BY DEF Unread, Outcomes, MaybeRun
    <3>2. CASE cur' = [cur EXCEPT !.stage = "token", !.body = Unread]
      BY <3>1, <3>2 DEF Calls, Stages
    <3>3. ASSUME NEW q \in Runs, NEW says \in {"blob", "reason"},
                 cur' = [cur EXCEPT !.stage = "token", !.body = [says |-> says, from |-> q]]
          PROVE  cur' \in Calls /\ cur'.run = cur.run
      <4>1. [says |-> says, from |-> q] \in Outcomes
        BY DEF Outcomes, MaybeRun
      <4> QED
        BY <3>3, <4>1 DEF Calls, Stages
    <3> QED
      BY <1>11, <3>2, <3>3 DEF ReadPod, PodsOf
  <2> QED
    BY <1>11, <2>1 DEF ReadPod, ClusterTypeOK
<1>12. CASE TokenMinted \/ SendPost
  <2>1. cur' \in Calls /\ cur'.run = cur.run /\ cur.stage # "idle"
    <3>1. CASE TokenMinted
      BY <3>1 DEF TokenMinted, Calls, Stages
    <3>2. CASE SendPost
      BY <3>2 DEF SendPost, Calls, Stages
    <3> QED
      BY <1>12, <3>1, <3>2
  <2> QED
    BY <1>12, <2>1 DEF TokenMinted, SendPost, ClusterTypeOK
<1>13. CASE ReadPage
  <2>1. cur.stage = "read" /\ cur.run \in Runs
    BY <1>13 DEF ReadPage
  <2>2. /\ cur' \in Calls
        /\ cur'.stage # "idle" => cur'.run = cur.run
    <3>1. CASE Finished
      BY <3>1, IdleType DEF Finished
    <3>2. CASE cur' = [cur EXCEPT !.pos = @ + PageSize]
      <4>1. cur.pos + PageSize \in Nat
        BY PageSizeAssumption DEF Calls
      <4> QED
        BY <3>2, <4>1 DEF Calls
    <3>3. CASE cur' = [cur EXCEPT !.stage = "post"]
      BY <3>3 DEF Calls, Stages
    <3> QED
      BY <1>13, <3>1, <3>2, <3>3 DEF ReadPage
  <2>3. done' \subseteq Runs
    BY <1>13, <2>1 DEF ReadPage, Finished
  <2> QED
    BY <1>13, <2>1, <2>2, <2>3 DEF ReadPage, ClusterTypeOK
<1>14. CASE PostLands
  <2>1. cur' \in Calls /\ cur'.run = cur.run /\ cur.run \in Runs
    BY <1>14 DEF PostLands, Calls, Stages
  <2>2. thread' \in [Issues -> Seq(Comments)]
    BY <1>14, CommentType DEF PostLands
  <2> QED
    BY <1>14, <2>1, <2>2 DEF PostLands, ClusterTypeOK
<1>15. CASE PostReturns
    BY <1>15, IdleType DEF PostReturns, Finished, ClusterTypeOK
<1>16. CASE OrphanLands
  <2>1. PICK k \in DOMAIN orphans :
            /\ thread' = [thread EXCEPT ![IssueOf[orphans[k].mark]] = Append(@, orphans[k])]
            /\ orphans' = RemoveAt(orphans, k)
    BY <1>16 DEF OrphanLands
  <2>2. orphans[k] \in Comments /\ IssueOf[orphans[k].mark] \in Issues
    <3>1. orphans[k] \in Comments
      BY ElementOfSeq
    <3> QED
      BY <3>1, IssueOfAssumption DEF Comments
  <2>3. orphans' \in Seq(Comments)
    BY <2>1, RemoveAtKeeps
  <2>4. thread' \in [Issues -> Seq(Comments)]
    BY <2>1, <2>2
  <2> QED
    BY <1>16, <2>3, <2>4 DEF OrphanLands, ClusterTypeOK
<1>17. CASE OthersComment
  <2>1. PICK r \in Runs, c \in Comments :
            /\ thread' = [thread EXCEPT ![IssueOf[r]] = Append(@, c)]
            /\ mimicked' = IF c.by = "bot" /\ c.lead THEN mimicked \cup {r} ELSE mimicked
    BY <1>17, ForeignType
  <2>2. mimicked' \subseteq Runs
    BY <2>1
  <2>3. thread' \in [Issues -> Seq(Comments)]
    BY <2>1, IssueOfAssumption
  <2> QED
    BY <1>17, <2>2, <2>3 DEF OthersComment, ClusterTypeOK
<1>18. CASE CommentDeleted
  <2>1. thread' \in [Issues -> Seq(Comments)]
    BY <1>18, RemoveAtKeeps DEF CommentDeleted
  <2>2. shifted' \in BOOLEAN
    BY <1>18 DEF CommentDeleted, Shifts
  <2> QED
    BY <1>18, <2>1, <2>2 DEF CommentDeleted, ClusterTypeOK
<1>19. CASE UNCHANGED vars
    BY <1>19 DEF vars, ClusterTypeOK
<1> QED
    BY <1>1, <1>2, <1>3, <1>4, <1>5, <1>6, <1>7, <1>8, <1>9, <1>10, <1>11, <1>12, <1>13,
       <1>14, <1>15, <1>16, <1>17, <1>18, <1>19 DEF Next, Informer, Handler

\* Reporter's variables always have their types.
THEOREM TypeCorrect == Spec => []TypeOK
BY TypeInit, TypeStep, PTL DEF Spec

-----------------------------------------------------------------------------
(* Which steps touch what *)

\* An ended run stays ended, its pod stays stopped and never comes to hold a blob.
LEMMA EndedIsStable ==
    ASSUME TypeOK, EndedPodStopped, [Next]_vars
    PROVE  /\ EndedPodStopped'
           /\ \A r \in Runs : Ended(r) =>
                 Ended(r)' /\ (pod[r] # "blob" => pod'[r] # "blob")
<1> USE DEF TypeOK, ClusterTypeOK, EndedPodStopped, Ended
<1>1. CASE UNCHANGED clusterVars
    BY <1>1 DEF clusterVars
<1>2. CASE ClusterNext
    BY <1>2 DEF ClusterNext, PodStops, PodGone, JobInterim, JobEnds, JobRemoved
<1>3. ASSUME NEW r \in Runs, Create(r)
      PROVE  /\ EndedPodStopped'
             /\ \A q \in Runs : Ended(q) => Ended(q)' /\ (pod[q] # "blob" => pod'[q] # "blob")
    BY <1>3 DEF Create
<1>4. ClusterNext \/ (\E r \in Runs : Create(r)) \/ UNCHANGED clusterVars
    BY DEF vars, Next, ClusterSteps, StartWatch, StartOnce, Crash, OnceReturns, Informer,
           ObserveChange, ObserveDelete, Resync, Handler, TakeEvent, ReadPod, TokenMinted,
           ReadPage, SendPost, PostLands, PostReturns, CallFails, OrphanLands, OthersComment,
           CommentDeleted
<1> QED
    BY <1>1, <1>2, <1>3, <1>4

\* Who was mimicked stays so.
LEMMA MimicryIsForever == ASSUME [Next]_vars  PROVE mimicked \subseteq mimicked'
BY DEF vars, boundVars, Next, ClusterSteps, StartWatch, StartOnce, Crash, OnceReturns,
       Informer, ObserveChange, ObserveDelete, Resync, Handler, TakeEvent, ReadPod,
       TokenMinted, ReadPage, SendPost, PostLands, PostReturns, CallFails, OrphanLands,
       OthersComment, CommentDeleted

\* What may be on a thread may stay on it.
LEMMA CommentIsStable ==
    ASSUME TypeOK, EndedPodStopped, [Next]_vars
    PROVE  /\ \A b \in Outcomes, r \in Runs : Ended(r) /\ BodyOk(b, r) => BodyOk(b, r)'
           /\ \A c \in Comments, i \in Issues : CommentOk(c, i) => CommentOk(c, i)'
<1>1. \A b \in Outcomes, r \in Runs : Ended(r) /\ BodyOk(b, r) => BodyOk(b, r)'
    BY EndedIsStable DEF BodyOk
<1>2. \A c \in Comments, i \in Issues : CommentOk(c, i) => CommentOk(c, i)'
    BY <1>1, EndedIsStable, MimicryIsForever DEF CommentOk, Comments
<1> QED
    BY <1>1, <1>2

\* The thread grows in three steps only, and shrinks in one.
LEMMA ThreadSteps ==
    ASSUME [Next]_vars
    PROVE  thread' = thread \/ PostLands \/ OrphanLands \/ OthersComment \/ CommentDeleted
BY DEF vars, clusterVars, githubVars, Next, ClusterSteps, StartWatch, StartOnce, Crash,
       OnceReturns, Informer, ObserveChange, ObserveDelete, Resync, Handler, TakeEvent,
       ReadPod, TokenMinted, ReadPage, SendPost, PostReturns, CallFails

\* The steps that move the call of report, or end it.
LEMMA CallSteps ==
    ASSUME [Next]_vars
    PROVE  \/ cur' = cur \/ cur' = Idle
           \/ TakeEvent \/ ReadPod \/ TokenMinted \/ ReadPage \/ SendPost \/ PostLands
BY DEF vars, processVars, Next, ClusterSteps, StartWatch, StartOnce, Crash, ProcessGone,
       OnceReturns, Informer, ObserveChange, ObserveDelete, Resync, Handler, PostReturns,
       Finished, CallFails, OrphanLands, OthersComment,
           CommentDeleted

\* The steps that hand Jobs to the handler.
LEMMA QueueSteps ==
    ASSUME [Next]_vars
    PROVE  \/ UNCHANGED <<queue, cache>>
           \/ StartOnce \/ Resync \/ TakeEvent
           \/ \E i \in Issues : ObserveChange(i) \/ ObserveDelete(i)
           \/ ProcessGone
BY DEF vars, processVars, Next, ClusterSteps, StartWatch, Crash, OnceReturns, Informer,
       Handler, ReadPod, TokenMinted, ReadPage, SendPost, PostLands, PostReturns, CallFails,
       OrphanLands, OthersComment, CommentDeleted

\* The POSTs given up on change in three steps.
LEMMA OrphanSteps ==
    ASSUME [Next]_vars
    PROVE  orphans' = orphans \/ orphans' = Orphaned \/ OrphanLands
BY DEF vars, githubVars, Next, ClusterSteps, StartWatch, StartOnce, Crash, OnceReturns,
       Informer, ObserveChange, ObserveDelete, Resync, Handler, TakeEvent, ReadPod,
       TokenMinted, ReadPage, SendPost, PostLands, PostReturns, CallFails, OthersComment,
       CommentDeleted

-----------------------------------------------------------------------------
(* What a comment says is true of its run *)

\* Nothing is claimed of any run at the start.
LEMMA TruthfulInit == Init => Truthful
BY DEF Init, ClusterInit, Truthful, EndedPodStopped, Ended, SeenIsTrue, Terminal, NotSeen,
       CallOk, Idle, ThreadOk, OrphansOk

\* What the informer believes to have ended has ended.
LEMMA SeenStep == TypeOK /\ Truthful /\ [Next]_vars => SeenIsTrue'
<1> SUFFICES ASSUME TypeOK, Truthful, [Next]_vars  PROVE SeenIsTrue'
    OBVIOUS
<1> USE DEF SeenIsTrue, Terminal
<1>1. \A r \in Runs : Ended(r) => Ended(r)'
    BY EndedIsStable DEF Truthful
<1>2. \A k \in DOMAIN queue : queue[k] \in JobSeen
    BY ElementOfSeq DEF TypeOK
<1>3. \A i \in Issues : cache[i] \in JobSeen \/ cache[i] = NotSeen
    BY DEF TypeOK
<1>4. \A s \in AllListed : s \in JobSeen /\ (Terminal(s) => Ended(s.run))
    BY ListIsFinite DEF Ended
<1>5. CASE UNCHANGED <<queue, cache>>
    BY <1>1, <1>2, <1>3, <1>5 DEF Truthful, JobSeen, NotSeen
<1>6. CASE StartOnce
    BY <1>1, <1>3, <1>4, <1>6, ListIsFinite, PermutationIsQueue
       DEF StartOnce, Truthful, JobSeen, NotSeen
<1>7. CASE Resync
  <2>1. \A s \in Cached : s \in JobSeen /\ (Terminal(s) => Ended(s.run))
    BY <1>3 DEF Cached, Truthful
  <2>2. \A k \in DOMAIN queue' : queue'[k] \in Cached
    BY <1>7, CacheIsFinite, PermutationIsQueue DEF Resync
  <2> QED
    BY <1>1, <1>3, <1>7, <2>1, <2>2 DEF Resync, Truthful, JobSeen, NotSeen
<1>8. CASE TakeEvent
  <2>1. \A k \in DOMAIN Tail(queue) : \E m \in DOMAIN queue : Tail(queue)[k] = queue[m]
    BY <1>8 DEF TakeEvent, TypeOK
  <2> QED
    BY <1>1, <1>2, <1>3, <1>8, <2>1 DEF TakeEvent, Truthful, JobSeen, NotSeen
<1>9. ASSUME NEW i \in Issues, ObserveChange(i)  PROVE SeenIsTrue'
  <2>1. PICK s \in Listed(i) :
            cache' = [cache EXCEPT ![i] = s] /\ queue' = Append(queue, s)
    BY <1>9 DEF ObserveChange, Notify
  <2>2. s \in JobSeen /\ (Terminal(s) => Ended(s.run))
    BY <1>4 DEF AllListed
  <2>3. \A k \in DOMAIN queue' : queue'[k] = s \/ \E m \in DOMAIN queue : queue'[k] = queue[m]
    BY <2>1 DEF TypeOK
  <2>4. \A j \in Issues : cache'[j] = s \/ cache'[j] = cache[j]
    BY <2>1 DEF TypeOK
  <2>5. \A q \in JobSeen \cup {NotSeen} :
            Terminal(q) /\ Ended(q.run) => job'[q.run] \in {"ended", "collected"}
    BY <1>1 DEF JobSeen, NotSeen, Ended
  <2>6. \A k \in DOMAIN queue' :
            Terminal(queue'[k]) => job'[queue'[k].run] \in {"ended", "collected"}
    BY <1>2, <2>2, <2>3, <2>5 DEF Truthful
  <2>7. \A j \in Issues :
            Terminal(cache'[j]) => job'[cache'[j].run] \in {"ended", "collected"}
    BY <1>3, <2>2, <2>4, <2>5 DEF Truthful
  <2> QED
    BY <2>6, <2>7 DEF Ended
<1>10. ASSUME NEW i \in Issues, ObserveDelete(i)  PROVE SeenIsTrue'
  <2>1. queue' = queue /\ \A j \in Issues : cache'[j] = NotSeen \/ cache'[j] = cache[j]
    BY <1>10 DEF ObserveDelete, TypeOK
  <2> QED
    BY <1>1, <1>2, <1>3, <2>1 DEF Truthful, JobSeen, NotSeen
<1>11. CASE ProcessGone
    BY <1>11 DEF ProcessGone, NotSeen
<1> QED
    BY <1>5, <1>6, <1>7, <1>8, <1>9, <1>10, <1>11, QueueSteps

\* The call in progress is about an ended run and holds a body that is its own.
LEMMA CallStep == TypeOK /\ Truthful /\ [Next]_vars => CallOk'
<1> SUFFICES ASSUME TypeOK, Truthful, [Next]_vars  PROVE CallOk'
    OBVIOUS
<1> USE DEF CallOk
<1>1. /\ \A r \in Runs : Ended(r) => Ended(r)'
      /\ \A b \in Outcomes, r \in Runs : Ended(r) /\ BodyOk(b, r) => BodyOk(b, r)'
    BY EndedIsStable, CommentIsStable DEF Truthful
<1>2. cur.body \in Outcomes /\ (cur.stage # "idle" => cur.run \in Runs)
    BY DEF TypeOK, Calls
<1>3. ASSUME cur.stage \notin {"idle", "pod"}, cur'.run = cur.run, cur'.body = cur.body
      PROVE  CallOk'
    BY <1>1, <1>2, <1>3 DEF Truthful
<1>4. CASE cur' = cur
    BY <1>1, <1>2, <1>4 DEF Truthful
<1>5. CASE cur' = Idle
    BY <1>5, IdleType
<1>6. CASE TakeEvent
  <2>1. CASE cur' = [Idle EXCEPT !.stage = "pod", !.run = Head(queue).run] /\ Due(Head(queue))
    <3>1. Head(queue) \in JobSeen /\ Ended(Head(queue).run)
      BY <1>6, <2>1 DEF TakeEvent, Due, Truthful, SeenIsTrue, TypeOK
    <3> QED
      BY <1>1, <2>1, <3>1 DEF Idle, JobSeen
  <2> QED
    BY <1>5, <1>6, <2>1 DEF TakeEvent
<1>7. CASE ReadPod
  <2>1. Ended(cur.run) /\ pod[cur.run] # "live" /\ cur.run \in Runs
    BY <1>2, <1>7 DEF ReadPod, Truthful, EndedPodStopped
  <2>2. /\ cur'.run = cur.run
        /\ cur'.body.from \in {cur.run, NoRun}
        /\ cur'.body.says = "reason" => pod[cur.run] # "blob"
    <3>1. ASSUME PodsOf(cur.run) = {}, cur' = [cur EXCEPT !.stage = "token", !.body = Unread]
          PROVE  cur'.run = cur.run /\ cur'.body = Unread /\ pod[cur.run] # "blob"
      BY <2>1, <3>1 DEF PodsOf, TypeOK, Calls
    <3>2. CASE PodsOf(cur.run) = {}
      BY <1>7, <3>1, <3>2 DEF ReadPod, Unread
    <3>3. ASSUME NEW q \in PodsOf(cur.run),
                 cur' = [cur EXCEPT !.stage = "token",
                                    !.body = [says |-> IF pod[q] = "blob" THEN "blob" ELSE "reason",
                                              from |-> q]]
          PROVE  /\ cur'.run = cur.run
                 /\ cur'.body.from = cur.run
                 /\ cur'.body.says = "reason" => pod[cur.run] # "blob"
      <4> DEFINE said == IF pod[q] = "blob" THEN "blob" ELSE "reason"
      <4>1. cur' = [cur EXCEPT !.stage = "token", !.body = [says |-> said, from |-> q]]
        BY <3>3
      <4>2. said = "reason" => pod[q] # "blob"
        OBVIOUS
      <4> HIDE DEF said
      <4>3. cur'.run = cur.run /\ q = cur.run /\ cur'.body.says = said /\ cur'.body.from = q
        BY <4>1 DEF PodsOf, TypeOK, Calls
      <4> QED
        BY <4>2, <4>3
    <3> QED
      BY <1>7, <3>2, <3>3 DEF ReadPod
  <2> QED
    BY <1>1, <1>7, <2>1, <2>2 DEF BodyOk, ReadPod, clusterVars
<1>8. CASE TokenMinted \/ SendPost \/ PostLands
    BY <1>3, <1>8 DEF TokenMinted, SendPost, PostLands, TypeOK, Calls
<1>9. CASE ReadPage
  <2>1. cur' = Idle \/ (cur.stage = "read" /\ cur'.run = cur.run /\ cur'.body = cur.body)
    BY <1>9 DEF ReadPage, Finished, TypeOK, Calls
  <2> QED
    BY <1>3, <1>5, <2>1
<1> QED
    BY <1>4, <1>5, <1>6, <1>7, <1>8, <1>9, CallSteps

\* The comment the call in progress would post may be on its issue.
LEMMA PostIsOk ==
    ASSUME TypeOK, Truthful, cur.stage = "sent"
    PROVE  /\ CommentOk(CommentOf(cur), IssueOf[cur.run])
           /\ CommentOf(cur).by = "app" /\ CommentOf(cur).mark = cur.run
BY DEF Truthful, CallOk, CommentOk, CommentOf

\* One comment more at the end of one thread.
LEMMA OneMore ==
    ASSUME TypeOK, NEW c \in Comments, NEW i \in Issues,
           thread' = [thread EXCEPT ![i] = Append(@, c)]
    PROVE  /\ \A j \in Issues : j # i => thread'[j] = thread[j]
           /\ DOMAIN thread'[i] = DOMAIN thread[i] \cup {Len(thread[i]) + 1}
           /\ \A k \in DOMAIN thread[i] : thread'[i][k] = thread[i][k]
           /\ thread'[i][Len(thread[i]) + 1] = c
           /\ Len(thread[i]) \in Nat /\ DOMAIN thread[i] = 1 .. Len(thread[i])
           /\ Len(thread'[i]) = Len(thread[i]) + 1
<1>1. thread[i] \in Seq(Comments) /\ thread'[i] = Append(thread[i], c)
    BY DEF TypeOK
<1>2. Len(thread[i]) \in Nat /\ DOMAIN thread[i] = 1 .. Len(thread[i])
    BY <1>1, LenProperties
<1>3. \A j \in Issues : j # i => thread'[j] = thread[j]
    BY DEF TypeOK
<1> QED
    BY <1>1, <1>2, <1>3, AppendProperties

\* One comment of another's less on one thread: what is left keeps its order, and the
\* App's comments are all there.
LEMMA OneLess ==
    ASSUME TypeOK, CommentDeleted
    PROVE  \E i \in Issues : \E k \in DOMAIN thread[i] :
              /\ k \in 1 .. Len(thread[i]) /\ Len(thread[i]) \in Nat
              /\ DOMAIN thread[i] = 1 .. Len(thread[i])
              /\ thread[i][k].by # "app"
              /\ shifted' = (shifted \/ Shifts(i, k))
              /\ \A j \in Issues : j # i => thread'[j] = thread[j]
              /\ DOMAIN thread'[i] = 1 .. Len(thread[i]) - 1
              /\ Len(thread'[i]) = Len(thread[i]) - 1
              /\ \A m \in 1 .. Len(thread[i]) - 1 :
                    thread'[i][m] = IF m < k THEN thread[i][m] ELSE thread[i][m + 1]
<1>1. PICK i \in Issues : \E k \in DOMAIN thread[i] :
          /\ thread[i][k].by # "app"
          /\ thread' = [thread EXCEPT ![i] = RemoveAt(@, k)]
          /\ shifted' = (shifted \/ Shifts(i, k))
    BY DEF CommentDeleted
<1>2. PICK k \in DOMAIN thread[i] :
          /\ thread[i][k].by # "app"
          /\ thread' = [thread EXCEPT ![i] = RemoveAt(@, k)]
          /\ shifted' = (shifted \/ Shifts(i, k))
    BY <1>1
<1>3. thread[i] \in Seq(Comments) /\ thread'[i] = RemoveAt(thread[i], k)
    BY <1>2 DEF TypeOK
<1>4. Len(thread[i]) \in Nat /\ DOMAIN thread[i] = 1 .. Len(thread[i])
    BY <1>3, LenProperties
<1>5. \A j \in Issues : j # i => thread'[j] = thread[j]
    BY <1>2 DEF TypeOK
<1>6. /\ DOMAIN thread'[i] = 1 .. Len(thread[i]) - 1
      /\ Len(thread'[i]) = Len(thread[i]) - 1
      /\ \A m \in 1 .. Len(thread[i]) - 1 :
            thread'[i][m] = IF m < k THEN thread[i][m] ELSE thread[i][m + 1]
  <2>1. PICK q \in Seq(Comments) : q = thread[i]
    BY <1>3
  <2>2. /\ Len(RemoveAt(q, k)) = Len(q) - 1
        /\ DOMAIN RemoveAt(q, k) = 1 .. Len(q) - 1
        /\ \A m \in 1 .. Len(q) - 1 : RemoveAt(q, k)[m] = IF m < k THEN q[m] ELSE q[m + 1]
    BY <2>1, RemoveAtKeeps
  <2> QED
    BY <1>3, <2>1, <2>2
<1>7. k \in 1 .. Len(thread[i])
    BY <1>4
<1> WITNESS i \in Issues
<1> WITNESS k \in DOMAIN thread[i]
<1> QED
    BY <1>2, <1>4, <1>5, <1>6, <1>7

\* A deletion neither hides nor doubles a comment of the App.
LEMMA DeletionIsSilent ==
    ASSUME TypeOK, CommentDeleted, NEW r \in Runs
    PROVE  Recorded(r)' = Recorded(r) /\ OneReport(r)' = OneReport(r)
<1> DEFINE i == IssueOf[r]
           Old(k) == k \in DOMAIN thread[i] /\ ReportOf(thread[i][k], r)
           New(k) == k \in DOMAIN thread'[i] /\ ReportOf(thread'[i][k], r)
<1>1. i \in Issues
    BY IssueOfAssumption
<1>2. /\ Recorded(r) = \E k \in DOMAIN thread[i] : Old(k)
      /\ Recorded(r)' = \E k \in DOMAIN thread'[i] : New(k)
      /\ OneReport(r) = \A j, k \in DOMAIN thread[i] : Old(j) /\ Old(k) => j = k
      /\ OneReport(r)' = \A j, k \in DOMAIN thread'[i] : New(j) /\ New(k) => j = k
    BY DEF Recorded, OneReport, ReportOf
<1>3. CASE thread'[i] = thread[i]
    BY <1>2, <1>3
<1>4. ASSUME NEW k \in 1 .. Len(thread[i]), Len(thread[i]) \in Nat,
             DOMAIN thread[i] = 1 .. Len(thread[i]), thread[i][k].by # "app",
             DOMAIN thread'[i] = 1 .. Len(thread[i]) - 1,
             \A m \in 1 .. Len(thread[i]) - 1 :
                 thread'[i][m] = IF m < k THEN thread[i][m] ELSE thread[i][m + 1]
      PROVE  Recorded(r)' = Recorded(r) /\ OneReport(r)' = OneReport(r)
  <2> DEFINE n == Len(thread[i])
             Up(m) == IF m < k THEN m ELSE m + 1
             Down(m) == IF m < k THEN m ELSE m - 1
  <2>1. ~Old(k)
    BY <1>4 DEF ReportOf
  <2>2. \A m \in 1 .. n - 1 : Up(m) \in 1 .. n /\ (New(m) <=> Old(Up(m)))
    BY <1>4
  <2>3. \A m \in 1 .. n : Old(m) => m # k
    BY <2>1
  <2>4. \A m \in 1 .. n : m # k => Down(m) \in 1 .. n - 1 /\ Up(Down(m)) = m
    BY <1>4
  <2>5. \A a, b \in 1 .. n - 1 : Up(a) = Up(b) => a = b
    BY <1>4
  <2>6. DOMAIN thread[i] = 1 .. n /\ DOMAIN thread'[i] = 1 .. n - 1
    BY <1>4
  <2> HIDE DEF Old, New, Up, Down, n
  <2>7. \A m \in 1 .. n : Old(m) => Down(m) \in 1 .. n - 1 /\ New(Down(m)) /\ Up(Down(m)) = m
    BY <2>2, <2>3, <2>4
  <2>8. Recorded(r)' = Recorded(r)
    BY <1>2, <2>2, <2>6, <2>7
  <2>9. (\A a, b \in 1 .. n : Old(a) /\ Old(b) => a = b)
            <=> (\A a, b \in 1 .. n - 1 : New(a) /\ New(b) => a = b)
    BY <2>2, <2>5, <2>7
  <2> QED
    BY <1>2, <2>6, <2>8, <2>9
<1> QED
    BY <1>1, <1>3, <1>4, OneLess

\* A comment that may be there joins comments that may be there.
LEMMA ThreadStep == TypeOK /\ Truthful /\ [Next]_vars => ThreadOk'
<1> SUFFICES ASSUME TypeOK, Truthful, [Next]_vars  PROVE ThreadOk'
    OBVIOUS
<1> USE DEF ThreadOk
<1>1. \A c \in Comments, i \in Issues : CommentOk(c, i) => CommentOk(c, i)'
    BY CommentIsStable DEF Truthful
<1>2. \A i \in Issues : \A k \in DOMAIN thread[i] : thread[i][k] \in Comments
    BY ElementOfSeq DEF TypeOK
<1>3. \A i \in Issues : \A k \in DOMAIN thread[i] : CommentOk(thread[i][k], i)
    BY DEF Truthful
<1>4. CASE thread' = thread
    BY <1>1, <1>2, <1>3, <1>4 DEF CommentOk, BodyOk
<1>5. ASSUME NEW c \in Comments, NEW i \in Issues, CommentOk(c, i),
             thread' = [thread EXCEPT ![i] = Append(@, c)]
      PROVE  ThreadOk'
  <2>1. \A j \in Issues : \A k \in DOMAIN thread'[j] :
            (j = i /\ thread'[j][k] = c) \/ (k \in DOMAIN thread[j] /\ thread'[j][k] = thread[j][k])
    BY <1>5, OneMore
  <2> QED
    BY <1>1, <1>2, <1>3, <1>5, <2>1 DEF CommentOk, BodyOk
<1>6. CASE PostLands
    BY <1>5, <1>6, CommentType, PostIsOk DEF PostLands
<1>7. CASE OrphanLands
  <2>1. PICK k \in DOMAIN orphans :
            thread' = [thread EXCEPT ![IssueOf[orphans[k].mark]] = Append(@, orphans[k])]
    BY <1>7 DEF OrphanLands
  <2>2. orphans[k] \in Comments
    BY ElementOfSeq DEF TypeOK
  <2>3. IssueOf[orphans[k].mark] \in Issues /\ CommentOk(orphans[k], IssueOf[orphans[k].mark])
    BY <2>2, IssueOfAssumption DEF Comments, Truthful, OrphansOk
  <2> QED
    BY <1>5, <2>1, <2>2, <2>3
<1>8. CASE OthersComment
  <2>1. PICK r \in Runs, c \in Comments :
            /\ c.by # "app" /\ c.mark = r
            /\ thread' = [thread EXCEPT ![IssueOf[r]] = Append(@, c)]
            /\ mimicked' = IF c.by = "bot" /\ c.lead THEN mimicked \cup {r} ELSE mimicked
    BY <1>8, ForeignType
  <2>2. IssueOf[r] \in Issues
    BY IssueOfAssumption
  <2>3. c.by = "bot" /\ c.lead => c.mark \in mimicked'
    BY <2>1
  <2>4. \A j \in Issues : \A k \in DOMAIN thread'[j] :
            (j = IssueOf[r] /\ thread'[j][k] = c)
                \/ (k \in DOMAIN thread[j] /\ thread'[j][k] = thread[j][k])
    BY <2>1, <2>2, OneMore
  <2> QED
    BY <1>1, <1>2, <1>3, <2>1, <2>3, <2>4 DEF CommentOk, BodyOk
<1>9. CASE CommentDeleted
  <2>1. PICK i \in Issues :
            /\ Len(thread[i]) \in Nat /\ DOMAIN thread[i] = 1 .. Len(thread[i])
            /\ \A j \in Issues : j # i => thread'[j] = thread[j]
            /\ DOMAIN thread'[i] = 1 .. Len(thread[i]) - 1
            /\ \E d \in 1 .. Len(thread[i]) : \A m \in 1 .. Len(thread[i]) - 1 :
                  thread'[i][m] = IF m < d THEN thread[i][m] ELSE thread[i][m + 1]
    BY <1>9, OneLess
  <2>2. ASSUME NEW k \in DOMAIN thread'[i]
        PROVE  \E m \in DOMAIN thread[i] : thread'[i][k] = thread[i][m]
    <3>1. k \in DOMAIN thread[i] /\ k + 1 \in DOMAIN thread[i]
      BY <2>1
    <3>2. thread'[i][k] = thread[i][k] \/ thread'[i][k] = thread[i][k + 1]
      BY <2>1
    <3> QED
      BY <3>1, <3>2
  <2>3. \A j \in Issues : \A k \in DOMAIN thread'[j] :
            \E m \in DOMAIN thread[j] : thread'[j][k] = thread[j][m]
    BY <2>1, <2>2
  <2> QED
    BY <1>1, <1>2, <1>3, <2>3 DEF CommentOk, BodyOk
<1> QED
    BY <1>4, <1>6, <1>7, <1>8, <1>9, ThreadSteps

\* A POST given up on was a comment that may be on its issue, and stays one.
LEMMA OrphanStep == TypeOK /\ Truthful /\ [Next]_vars => OrphansOk'
<1> SUFFICES ASSUME TypeOK, Truthful, [Next]_vars  PROVE OrphansOk'
    OBVIOUS
<1> USE DEF OrphansOk
<1>1. \A c \in Comments, i \in Issues : CommentOk(c, i) => CommentOk(c, i)'
    BY CommentIsStable DEF Truthful
<1>2. \A k \in DOMAIN orphans :
          orphans[k] \in Comments /\ orphans[k].by = "app"
                /\ CommentOk(orphans[k], IssueOf[orphans[k].mark])
    BY ElementOfSeq DEF TypeOK, Truthful
<1>3. ASSUME \A k \in DOMAIN orphans' :
                \/ \E m \in DOMAIN orphans : orphans'[k] = orphans[m]
                \/ cur.stage = "sent" /\ orphans'[k] = CommentOf(cur)
      PROVE  OrphansOk'
  <2>1. \A c \in Comments : IssueOf[c.mark] \in Issues
    BY IssueOfAssumption DEF Comments
  <2>2. \A c \in Comments :
            c.by = "app" /\ CommentOk(c, IssueOf[c.mark]) => CommentOk(c, IssueOf[c.mark])'
    BY <1>1, <2>1
  <2>3. \A k \in DOMAIN orphans' : \E c \in Comments :
            orphans'[k] = c /\ c.by = "app" /\ CommentOk(c, IssueOf[c.mark])
    BY <1>2, <1>3, CommentType, PostIsOk
  <2> QED
    BY <2>2, <2>3 DEF CommentOk, BodyOk
<1>4. CASE orphans' = orphans
    BY <1>3, <1>4
<1>5. CASE orphans' = Orphaned
  <2>1. CASE orphans' = orphans
    BY <1>3, <2>1
  <2>2. CASE cur.stage = "sent" /\ orphans' = Append(orphans, CommentOf(cur))
    BY <1>3, <2>2, CommentType, AppendProperties DEF TypeOK
  <2> QED
    BY <1>5, <2>1, <2>2 DEF Orphaned, CommentOf
<1>6. CASE OrphanLands
  <2>1. PICK k \in DOMAIN orphans : orphans' = RemoveAt(orphans, k)
    BY <1>6 DEF OrphanLands
  <2>2. \A j \in DOMAIN orphans' : \E m \in DOMAIN orphans : orphans'[j] = orphans[m]
    BY <2>1, RemoveAtKeeps DEF TypeOK
  <2> QED
    BY <1>3, <2>2
<1> QED
    BY <1>4, <1>5, <1>6, OrphanSteps

\* No step makes a belief, a call or a comment untrue of its run.
LEMMA TruthfulStep == TypeOK /\ Truthful /\ [Next]_vars => Truthful'
BY EndedIsStable, SeenStep, CallStep, ThreadStep, OrphanStep DEF Truthful

\* What Truthful says of every comment.
LEMMA TruthfulMeans ==
    ASSUME TypeOK, Truthful
    PROVE  ActiveIsUncommented /\ ReportIsOwn /\ BlobNotLost
<1>1. \A i \in Issues : \A k \in DOMAIN thread[i] :
          thread[i][k] \in Comments /\ CommentOk(thread[i][k], i)
    BY ElementOfSeq DEF TypeOK, Truthful, ThreadOk
<1>2. ActiveIsUncommented
    BY <1>1, IssueOfAssumption DEF ActiveIsUncommented, Recorded, ReportOf, CommentOk
<1>3. ReportIsOwn
    BY <1>1 DEF ReportIsOwn, CommentOk, BodyOk
<1>4. \A c \in Comments : c.body.says \in {"blob", "reason"}
    BY DEF Comments, Outcomes
<1>5. BlobNotLost
    BY <1>1, <1>4 DEF BlobNotLost, CommentOk, BodyOk
<1> QED
    BY <1>2, <1>3, <1>5

\* Whatever fails, restarts, or lands late: no comment is about a run that has not
\* ended, quotes another run's pod, or hides a result that is there to be read.
THEOREM CommentsAreTrue == Spec => [](ActiveIsUncommented /\ ReportIsOwn /\ BlobNotLost)
<1>1. Init => TypeOK /\ Truthful
    BY TypeInit, TruthfulInit
<1>2. TypeOK /\ Truthful /\ [Next]_vars => (TypeOK /\ Truthful)'
    BY TypeStep, TruthfulStep
<1>3. TypeOK /\ Truthful => ActiveIsUncommented /\ ReportIsOwn /\ BlobNotLost
    BY TruthfulMeans
<1> QED
    BY <1>1, <1>2, <1>3, PTL DEF Spec

\* What a comment quotes was read off the pod of its own run, whoever else left a pod under
\* the Job name.
THEOREM ReportsAreOwn == Spec => []ReportIsOwn
BY CommentsAreTrue, PTL

\* No comment gives a reason where there is a blob to be read.
THEOREM BlobsAreRead == Spec => []BlobNotLost
BY CommentsAreTrue, PTL

-----------------------------------------------------------------------------
(* Told once *)

\* One comment more, of whatever run, at the end of one thread, or none, or one less.
LEMMA ThreadGrows ==
    ASSUME TypeOK, [Next]_vars
    PROVE  thread' = thread \/ CommentDeleted \/ \E c \in Comments, i \in Issues :
               /\ thread' = [thread EXCEPT ![i] = Append(@, c)]
               /\ c.by = "app" => \/ PostLands /\ c = CommentOf(cur) /\ i = IssueOf[cur.run]
                                 \/ OrphanLands
<1>1. CASE PostLands
    BY <1>1, CommentType DEF PostLands
<1>2. CASE OrphanLands
  <2>1. PICK k \in DOMAIN orphans :
            thread' = [thread EXCEPT ![IssueOf[orphans[k].mark]] = Append(@, orphans[k])]
    BY <1>2 DEF OrphanLands
  <2>2. orphans[k] \in Comments
    BY ElementOfSeq DEF TypeOK
  <2>3. IssueOf[orphans[k].mark] \in Issues
    BY <2>2, IssueOfAssumption DEF Comments
  <2> QED
    BY <1>2, <2>1, <2>2, <2>3
<1>3. CASE OthersComment
  <2>1. PICK r \in Runs, c \in Comments :
            c.by # "app" /\ thread' = [thread EXCEPT ![IssueOf[r]] = Append(@, c)]
    BY <1>3, ForeignType
  <2>2. IssueOf[r] \in Issues
    BY IssueOfAssumption
  <2> QED
    BY <2>1, <2>2
<1> QED
    BY <1>1, <1>2, <1>3, ThreadSteps

\* The App's comments are not taken back.
LEMMA RecordedStays ==
    ASSUME TypeOK, [Next]_vars, NEW r \in Runs, Recorded(r)
    PROVE  Recorded(r)'
<1>1. PICK k \in DOMAIN thread[IssueOf[r]] : ReportOf(thread[IssueOf[r]][k], r)
    BY DEF Recorded
<1>2. CASE thread' = thread
    BY <1>1, <1>2 DEF Recorded
<1>3. ASSUME NEW c \in Comments, NEW i \in Issues,
             thread' = [thread EXCEPT ![i] = Append(@, c)]
      PROVE  k \in DOMAIN thread'[IssueOf[r]] /\ thread'[IssueOf[r]][k] = thread[IssueOf[r]][k]
    BY <1>3, OneMore, IssueOfAssumption
<1> QED
    BY <1>1, <1>2, <1>3, ThreadGrows, DeletionIsSilent DEF Recorded, ReportOf

\* Nothing is remembered at the start.
LEMMA RememberedInit == Init => Remembered
BY DEF Init, Remembered, DoneIsRecorded, Idle

\* A run enters done after its comment was seen on the thread or answered for.
LEMMA RememberedStep == TypeOK /\ Truthful /\ Remembered /\ [Next]_vars => Remembered'
<1> SUFFICES ASSUME TypeOK, Truthful, Remembered, [Next]_vars  PROVE Remembered'
    OBVIOUS
<1> USE DEF Remembered, DoneIsRecorded
<1>1. \A r \in Runs : Recorded(r) => Recorded(r)'
    BY RecordedStays
<1>2. cur.stage # "idle" => cur.run \in Runs
    BY DEF TypeOK
<1>3. (cur.stage = "landed" => Recorded(cur.run))'
  <2>1. CASE cur' = cur
    BY <1>1, <1>2, <2>1 DEF Recorded, ReportOf
  <2>2. CASE cur' = Idle
    BY <2>2, IdleType
  <2>3. CASE PostLands
    <3> DEFINE i == IssueOf[cur.run]
    <3>1. cur.stage = "sent" /\ cur'.run = cur.run /\ i \in Issues
      BY <2>3, CommentType DEF PostLands, TypeOK, Calls
    <3>2. thread' = [thread EXCEPT ![i] = Append(@, CommentOf(cur))] /\ CommentOf(cur) \in Comments
      BY <2>3, <3>1, CommentType DEF PostLands
    <3>3. /\ Len(thread[i]) + 1 \in DOMAIN thread'[i]
          /\ thread'[i][Len(thread[i]) + 1] = CommentOf(cur)
      BY <3>1, <3>2, OneMore
    <3>4. CommentOf(cur).by = "app" /\ CommentOf(cur).mark = cur.run
      BY <3>1, PostIsOk
    <3> QED
      BY <3>1, <3>3, <3>4 DEF Recorded, ReportOf
  <2>4. CASE TakeEvent \/ ReadPod \/ TokenMinted \/ ReadPage \/ SendPost
    BY <2>4, IdleType DEF TakeEvent, Idle, ReadPod, TokenMinted, ReadPage, Finished, SendPost,
                          TypeOK, Calls
  <2> QED
    BY <2>1, <2>2, <2>3, <2>4, CallSteps
<1>4. \A r \in done' :
          r \in done \/ (r = cur.run /\ r \in Runs /\ (Recorded(r) \/ r \in mimicked))
  <2>1. CASE done' \subseteq done
    BY <2>1
  <2>2. CASE PostReturns
    BY <1>2, <2>2 DEF PostReturns, Finished
  <2>3. CASE ReadPage /\ Finished
    <3>1. PICK k \in DOMAIN thread[IssueOf[cur.run]] : Marks(thread[IssueOf[cur.run]][k], cur.run)
      BY <2>3, IdleType DEF ReadPage, PageAfter, Finished, TypeOK, Calls
    <3>2. thread[IssueOf[cur.run]][k] \in Comments
      BY <1>2, <2>3, ElementOfSeq, IssueOfAssumption DEF ReadPage, TypeOK
    <3>3. ReportOf(thread[IssueOf[cur.run]][k], cur.run) \/ cur.run \in mimicked
      <4>1. CommentOk(thread[IssueOf[cur.run]][k], IssueOf[cur.run])
        BY <1>2, <2>3, IssueOfAssumption DEF ReadPage, Truthful, ThreadOk
      <4>2. thread[IssueOf[cur.run]][k].by \in {"app", "bot", "user"}
        BY <3>2 DEF Comments
      <4> QED
        BY <3>1, <4>1, <4>2 DEF Marks, ReportOf, CommentOk
    <3> QED
      BY <1>2, <2>3, <3>3 DEF ReadPage, Finished, Recorded
  <2> QED
    BY <2>1, <2>2, <2>3
       DEF vars, processVars, Next, ClusterSteps, StartWatch, StartOnce, Crash, ProcessGone,
           OnceReturns, Informer, ObserveChange, ObserveDelete, Resync, Handler, TakeEvent,
           ReadPod, TokenMinted, ReadPage, SendPost, PostLands, CallFails, OrphanLands,
           OthersComment, CommentDeleted
<1>5. \A r \in done' : Recorded(r)' \/ r \in mimicked'
    BY <1>1, <1>4, MimicryIsForever DEF TypeOK
<1> HIDE DEF Remembered
<1> QED
    BY <1>3, <1>5 DEF Remembered, Recorded, ReportOf

\* No thread has a comment at the start.
LEMMA ExactlyOnceInit == Init => ExactlyOnce
<1> SUFFICES ASSUME Init  PROVE ExactlyOnce
    OBVIOUS
<1>1. \A i \in Issues : thread[i] = <<>>
    BY DEF Init
<1>2. AtMostOneComment
    BY <1>1, IssueOfAssumption DEF AtMostOneComment, OneReport
<1>3. cur.stage = "idle"
    BY DEF Init, Idle
<1> QED
    BY <1>2, <1>3 DEF ExactlyOnce, ScanIsClean

\* A comment that reported rejects is not the run's report.
LEMMA UnmarkedIsNoReport ==
    ASSUME TypeOK, Truthful, NEW i \in Issues, NEW k \in DOMAIN thread[i], NEW r \in Runs,
           ~Marks(thread[i][k], r)
    PROVE  ~ReportOf(thread[i][k], r)
<1>1. CommentOk(thread[i][k], i)
    BY DEF Truthful, ThreadOk
<1> QED
    BY <1>1 DEF CommentOk, Marks, ReportOf

\* The scan of the thread stays clean: only the call in progress could spoil it, and a
\* deletion before its offset or a POST that comes late.
LEMMA ScanStep ==
    ASSUME TypeOK, Truthful, ScanIsClean, [Next]_vars, ~shifted', ~late'
    PROVE  ScanIsClean'
<1> DEFINE i == IssueOf[cur.run]
           t == thread[i]
<1> USE DEF ScanIsClean
<1>1. cur.stage # "idle" =>
          /\ cur.run \in Runs /\ i \in Issues /\ t \in Seq(Comments)
          /\ Len(t) \in Nat /\ DOMAIN t = 1 .. Len(t) /\ cur.pos \in Nat
    BY IssueOfAssumption, LenProperties DEF TypeOK, Calls
<1>2. ~OrphanLands
    BY DEF OrphanLands
<1>3. CASE cur' = cur
  <2>1. CASE thread' = thread
    BY <1>3, <2>1 DEF Recorded, ReportOf
  <2>2. ASSUME NEW c \in Comments, NEW j \in Issues, c.by # "app",
               thread' = [thread EXCEPT ![j] = Append(@, c)], cur.stage \in {"read", "post", "sent"}
        PROVE  ScanIsClean'
    <3>1. /\ Len(t) <= Len(thread'[i])
          /\ \A k \in DOMAIN thread'[i] : k \in DOMAIN t \/ (k = Len(t) + 1 /\ thread'[i][k] = c)
          /\ \A k \in DOMAIN t : thread'[i][k] = t[k]
      BY <1>1, <2>2, OneMore
    <3>2. \A k \in DOMAIN thread'[i] :
              \/ k \in DOMAIN t /\ thread'[i][k] = t[k]
              \/ k = Len(t) + 1 /\ ~ReportOf(thread'[i][k], cur.run)
      BY <2>2, <3>1 DEF ReportOf
    <3>3. CASE cur.stage = "read"
      <4>1. cur.pos <= Len(thread'[i])
        BY <1>1, <3>1, <3>3
      <4>2. \A k \in DOMAIN thread'[i] : k <= cur.pos => ~ReportOf(thread'[i][k], cur.run)
        BY <1>1, <3>2, <3>3
      <4> QED
        BY <1>3, <3>3, <4>1, <4>2 DEF ReportOf
    <3>4. CASE cur.stage \in {"post", "sent"}
      BY <1>3, <3>2, <3>4 DEF Recorded, ReportOf
    <3> QED
      BY <2>2, <3>3, <3>4
  <2>3. CASE cur.stage \notin {"read", "post", "sent"}
    BY <1>3, <2>3
  <2>4. ~PostLands
    BY <1>3 DEF PostLands, TypeOK, Calls
  <2>5. CASE CommentDeleted /\ cur.stage = "read"
    <3>1. CASE thread'[i] = thread[i]
      BY <1>3, <2>5, <3>1 DEF ReportOf
    <3>2. ASSUME NEW k \in 1 .. Len(t), ~Shifts(i, k), Len(thread'[i]) = Len(t) - 1,
                 DOMAIN thread'[i] = 1 .. Len(t) - 1,
                 \A m \in 1 .. Len(t) - 1 : thread'[i][m] = IF m < k THEN t[m] ELSE t[m + 1]
          PROVE  ScanIsClean'
      <4>1. cur.pos < k /\ k <= Len(t)
        BY <1>1, <2>5, <3>2 DEF Shifts
      <4>2. cur.pos <= Len(thread'[i])
        BY <1>1, <2>5, <3>2, <4>1
      <4>3. \A m \in DOMAIN thread'[i] : m <= cur.pos => ~ReportOf(thread'[i][m], cur.run)
        BY <1>1, <2>5, <3>2, <4>1 DEF ReportOf
      <4> QED
        BY <1>3, <2>5, <4>2, <4>3 DEF ReportOf
    <3> QED
      BY <1>1, <2>5, <3>1, <3>2, OneLess
  <2>6. CASE CommentDeleted /\ cur.stage \in {"post", "sent"}
    <3>1. PICK q \in Runs : q = cur.run
      BY <1>1, <2>6
    <3>2. ~Recorded(q)'
      BY <2>6, <3>1, DeletionIsSilent
    <3> QED
      BY <1>3, <2>6, <3>1, <3>2 DEF Recorded, ReportOf
  <2> QED
    BY <1>2, <2>1, <2>2, <2>3, <2>4, <2>5, <2>6, ThreadGrows
<1>4. CASE cur' = Idle
    BY <1>4, IdleType
<1>5. CASE TakeEvent \/ ReadPod \/ PostLands
    BY <1>5, IdleType DEF TakeEvent, ReadPod, PostLands, Idle, TypeOK, Calls
<1>6. CASE TokenMinted
    BY <1>1, <1>6 DEF TokenMinted, TypeOK, Calls, githubVars
<1>7. CASE SendPost
    BY <1>7 DEF SendPost, TypeOK, Calls, githubVars, Recorded, ReportOf
<1>8. CASE ReadPage
  <2>1. cur.stage = "read" /\ thread' = thread
    BY <1>8 DEF ReadPage, githubVars
  <2>2. ASSUME NEW k \in DOMAIN t, k <= cur.pos + PageSize,
               \A m \in PageAfter(t, cur.pos) : ~Marks(t[m], cur.run)
        PROVE  ~ReportOf(t[k], cur.run)
    <3>1. CASE k <= cur.pos
      BY <2>1, <3>1
    <3>2. CASE k \in PageAfter(t, cur.pos)
      BY <1>1, <2>1, <2>2, <3>2, UnmarkedIsNoReport
    <3> QED
      BY <1>1, <2>1, <2>2, <3>1, <3>2 DEF PageAfter
  <2>3. CASE cur' = Idle
    BY <1>4, <2>3
  <2>4. ASSUME cur' = [cur EXCEPT !.pos = @ + PageSize], MorePages(t, cur.pos),
               \A m \in PageAfter(t, cur.pos) : ~Marks(t[m], cur.run)
        PROVE  ScanIsClean'
    <3>1. cur'.stage = "read" /\ cur'.run = cur.run /\ cur'.pos = cur.pos + PageSize
      BY <2>1, <2>4 DEF TypeOK, Calls
    <3>2. cur'.pos <= Len(t)
      BY <1>1, <2>1, <2>4, <3>1, PageSizeAssumption DEF MorePages
    <3>3. \A k \in DOMAIN t : k <= cur'.pos => ~ReportOf(t[k], cur.run)
      BY <2>2, <2>4, <3>1
    <3> QED
      BY <2>1, <3>1, <3>2, <3>3 DEF ReportOf
  <2>5. ASSUME cur' = [cur EXCEPT !.stage = "post"], ~MorePages(t, cur.pos),
               \A m \in PageAfter(t, cur.pos) : ~Marks(t[m], cur.run)
        PROVE  ScanIsClean'
    <3>1. cur'.stage = "post" /\ cur'.run = cur.run
      BY <2>1, <2>5 DEF TypeOK, Calls
    <3>2. \A k \in DOMAIN t : k <= cur.pos + PageSize
      BY <1>1, <2>1, <2>5, PageSizeAssumption DEF MorePages
    <3>3. ~Recorded(cur.run)
      BY <2>2, <2>5, <3>2 DEF Recorded
    <3> QED
      BY <2>1, <3>1, <3>3 DEF Recorded, ReportOf
  <2> QED
    BY <1>8, <2>3, <2>4, <2>5 DEF ReadPage, Finished
<1> QED
    BY <1>3, <1>4, <1>5, <1>6, <1>7, <1>8, CallSteps

\* The one step that adds a comment of the App finds none for its run.
LEMMA OnceStep ==
    ASSUME TypeOK, Truthful, ~shifted, ~late, ScanIsClean, AtMostOneComment, [Next]_vars, ~late'
    PROVE  AtMostOneComment'
<1> SUFFICES ASSUME NEW r \in Runs  PROVE OneReport(r)'
    BY DEF AtMostOneComment
<1> DEFINE i == IssueOf[r]
<1>1. i \in Issues /\ OneReport(r)
    BY IssueOfAssumption DEF AtMostOneComment
<1>2. CASE thread' = thread
    BY <1>1, <1>2 DEF OneReport, ReportOf
<1>3. ASSUME NEW c \in Comments, NEW j \in Issues,
             thread' = [thread EXCEPT ![j] = Append(@, c)],
             c.by = "app" => PostLands /\ c = CommentOf(cur)
      PROVE  OneReport(r)'
  <2>1. CASE j # i \/ ~ReportOf(c, r)
    <3>1. \A k \in DOMAIN thread'[i] : ReportOf(thread'[i][k], r) =>
              k \in DOMAIN thread[i] /\ ReportOf(thread[i][k], r)
      BY <1>1, <1>3, <2>1, OneMore
    <3> QED
      BY <1>1, <3>1 DEF OneReport, ReportOf
  <2>2. CASE j = i /\ ReportOf(c, r)
    <3>1. cur.stage = "sent" /\ r = cur.run
      BY <1>3, <2>2 DEF ReportOf, PostLands, CommentOf
    <3>2. \A k \in DOMAIN thread[i] : ~ReportOf(thread[i][k], r)
      BY <3>1 DEF ScanIsClean, Recorded
    <3>3. \A k \in DOMAIN thread'[i] : ReportOf(thread'[i][k], r) => k = Len(thread[i]) + 1
      BY <1>1, <1>3, <2>2, <3>2, OneMore
    <3> QED
      BY <3>3 DEF OneReport, ReportOf
  <2> QED
    BY <2>1, <2>2
<1>4. ~OrphanLands
    BY DEF OrphanLands
<1>5. CASE CommentDeleted
    BY <1>1, <1>5, DeletionIsSilent
<1> QED
    BY <1>2, <1>3, <1>4, <1>5, ThreadGrows

\* What was shifted stays so, and so does what came late.
LEMMA HistoryIsForever == [Next]_vars => (~shifted' => ~shifted) /\ (~late' => ~late)
<1> USE DEF vars, boundVars, Next, ClusterSteps, StartWatch, StartOnce, Crash, OnceReturns,
            Informer, ObserveChange, ObserveDelete, Resync, Handler, TakeEvent, ReadPod,
            TokenMinted, ReadPage, SendPost, PostLands, PostReturns, CallFails, OrphanLands,
            OthersComment, CommentDeleted
<1>1. ASSUME [Next]_vars, ~shifted'  PROVE ~shifted
    BY <1>1
<1>2. ASSUME [Next]_vars, ~late'  PROVE ~late
    BY <1>2
<1> QED
    BY <1>1, <1>2

\* Every step keeps one comment per run and the scan clean, until a deletion shifts the scan
\* or a POST comes late.
LEMMA ExactlyOnceStep == TypeOK /\ Truthful /\ ExactlyOnce /\ [Next]_vars => ExactlyOnce'
<1> SUFFICES ASSUME TypeOK, Truthful, ExactlyOnce, [Next]_vars  PROVE ExactlyOnce'
    OBVIOUS
<1>1. (~shifted /\ ~late => ScanIsClean) /\ AtMostOneComment
    BY DEF ExactlyOnce
<1>2. ~shifted' /\ ~late' => ScanIsClean' /\ AtMostOneComment'
    BY <1>1, HistoryIsForever, ScanStep, OnceStep
<1>3. shifted' \/ late' => AtMostOneComment'
    BY DEF AtMostOneComment
<1> QED
    BY <1>2, <1>3 DEF ExactlyOnce

-----------------------------------------------------------------------------
(* watch -once *)

\* A permutation of a finite set leaves nothing of it out.
LEMMA PermutationIsComplete ==
    ASSUME NEW T, IsFiniteSet(T), NEW q \in SetToSeqs(T), NEW s \in T
    PROVE  \E k \in DOMAIN q : q[k] = s
<1> DEFINE D == 1 .. Cardinality(T)
<1>1. Cardinality(T) \in Nat
    BY FS_CardinalityType
<1>2. q \in [D -> T] /\ \A i, j \in D : i # j => q[i] # q[j]
    BY DEF SetToSeqs
<1>3. q \in Injection(D, T)
    BY <1>2 DEF Injection, IsInjective
<1>4. Cardinality(D) = Cardinality(T)
    BY <1>1, FS_Interval
<1> HIDE DEF D
<1>5. q \in Surjection(D, T)
    BY <1>3, <1>4, FS_Injection
<1> QED
    BY <1>2, <1>5 DEF Surjection

\* The head of the queue is taken, the others stay in it.
LEMMA TailKeeps ==
    ASSUME NEW S, NEW q \in Seq(S), q # <<>>, NEW k \in DOMAIN q, q[k] # Head(q)
    PROVE  \E j \in DOMAIN Tail(q) : Tail(q)[j] = q[k]
<1>1. Tail(q) \in Seq(S) /\ Len(Tail(q)) = Len(q) - 1 /\ Len(q) \in Nat
    BY HeadTailProperties, LenProperties
<1>2. k \in 1 .. Len(q) /\ k # 1
    BY LenProperties, HeadTailProperties
<1>3. k - 1 \in 1 .. Len(q) - 1 /\ Tail(q)[k - 1] = q[k]
    BY <1>1, <1>2
<1> QED
    BY <1>1, <1>3, LenProperties

\* Nothing of the list is lost between its answer and a comment or an error.
LEMMA OnceTrackedStep == TypeOK /\ OnceTracked /\ [Next]_vars => OnceTracked'
<1> SUFFICES ASSUME TypeOK, OnceTracked, [Next]_vars, mode' = "once",
                    NEW s \in listed', Terminal(s)
             PROVE  \/ \E k \in DOMAIN queue' : queue'[k] = s
                    \/ cur'.stage # "idle" /\ cur'.run = s.run
                    \/ s.run \in done' \cup errs'
    BY DEF OnceTracked, Terminal
<1>1. CASE StartOnce
    BY <1>1, ListIsFinite, PermutationIsComplete DEF StartOnce
<1>2. CASE ~StartOnce
  <2>1. mode = "once" /\ listed' = listed
    BY <1>2 DEF vars, processVars, Next, ClusterSteps, StartWatch, Crash, ProcessGone,
           OnceReturns, Informer, ObserveChange, ObserveDelete, Resync, Handler, TakeEvent,
           ReadPod, TokenMinted, ReadPage, SendPost, PostLands, PostReturns, CallFails,
           OrphanLands, OthersComment, CommentDeleted
  <2>2. \/ \E k \in DOMAIN queue : queue[k] = s
        \/ cur.stage # "idle" /\ cur.run = s.run
        \/ s.run \in done \cup errs
    BY <2>1 DEF OnceTracked
  <2>3. CASE TakeEvent
    <3>1. /\ cur.stage = "idle" /\ queue # <<>> /\ queue' = Tail(queue)
          /\ done' = done /\ errs' = errs
          /\ cur' = IF Due(Head(queue))
                    THEN [Idle EXCEPT !.stage = "pod", !.run = Head(queue).run]
                    ELSE Idle
      BY <2>3 DEF TakeEvent
    <3>2. CASE s = Head(queue)
      <4>1. CASE Due(s)
        <5>1. cur'.stage = "pod" /\ cur'.run = s.run
          BY <3>1, <3>2, <4>1 DEF Idle
        <5> QED
          BY <5>1
      <4>2. CASE ~Due(s)
        BY <3>1, <4>2 DEF Due
      <4> QED
        BY <4>1, <4>2
    <3>3. ASSUME NEW k \in DOMAIN queue, queue[k] = s, s # Head(queue)
          PROVE  \E j \in DOMAIN queue' : queue'[j] = s
      <4>1. \E j \in DOMAIN Tail(queue) : Tail(queue)[j] = queue[k]
        BY <3>1, <3>3, TailKeeps DEF TypeOK
      <4> QED
        BY <3>1, <3>3, <4>1
    <3> QED
      BY <2>2, <3>1, <3>2, <3>3
  <2>4. CASE ReadPod \/ TokenMinted \/ SendPost \/ PostLands
    <3>1. /\ queue' = queue /\ done' = done /\ errs' = errs
          /\ cur.stage # "idle" /\ cur'.stage # "idle" /\ cur'.run = cur.run
      BY <2>4 DEF ReadPod, TokenMinted, SendPost, PostLands, TypeOK, Calls
    <3> QED
      BY <2>2, <3>1
  <2>5. CASE ReadPage \/ PostReturns
    <3>1. /\ queue' = queue /\ errs' = errs /\ cur.stage # "idle"
          /\ \/ done' = done /\ cur'.stage # "idle" /\ cur'.run = cur.run
             \/ done' = done \cup {cur.run}
      BY <2>5 DEF ReadPage, PostReturns, Finished, TypeOK, Calls
    <3> QED
      BY <2>2, <3>1
  <2>6. CASE CallFails
    <3>1. queue' = queue /\ done' = done /\ errs' = errs \cup {cur.run}
      BY <2>1, <2>6 DEF CallFails
    <3> QED
      BY <2>2, <3>1
  <2>7. CASE UNCHANGED <<queue, cur, done, errs>>
    BY <2>2, <2>7
  <2> QED
    BY <1>2, <2>1, <2>3, <2>4, <2>5, <2>6, <2>7
       DEF vars, processVars, Next, ClusterSteps, StartWatch, Crash, ProcessGone, OnceReturns,
           Informer, ObserveChange, ObserveDelete, Resync, Handler, OrphanLands, OthersComment,
           CommentDeleted
<1> QED
    BY <1>1, <1>2

-----------------------------------------------------------------------------

\* IInv is inductive.
THEOREM Invariance == Spec => []IInv
<1>1. Init => IInv
  <2>1. Init => OnceTracked
    BY DEF Init, OnceTracked
  <2> QED
    BY <2>1, TypeInit, TruthfulInit, RememberedInit, ExactlyOnceInit DEF IInv
<1>2. IInv /\ [Next]_vars => IInv'
    BY TypeStep, TruthfulStep, RememberedStep, ExactlyOnceStep, OnceTrackedStep DEF IInv
<1> QED
    BY <1>1, <1>2, PTL DEF Spec

\* No run has two comments, for any number of crashes, failures, lost answers and other
\* comments, until GitHub executes a POST its sender gave up on, or a comment on a page
\* already read is deleted during the scan.
THEOREM OneComment == Spec => []AtMostOneComment
<1>1. IInv => AtMostOneComment
    BY DEF IInv, ExactlyOnce
<1> QED
    BY <1>1, Invariance, PTL

\* What the process remembers as reported is on the thread, unless another bot led with
\* the run's marker: nothing else that users paste and bots quote silences a run.
THEOREM DoneIsTrue == Spec => []DoneIsRecorded
<1>1. IInv => DoneIsRecorded
    BY DEF IInv, Remembered
<1> QED
    BY <1>1, Invariance, PTL

\* watch -once deals with every ended run of its list: it is commented on, or its error is
\* among those returned, whichever other runs failed and wherever, unless another bot led
\* with its marker.
THEOREM OnceCompletes == Spec => []OnceIsComplete
<1>1. IInv => OnceIsComplete
  <2> SUFFICES ASSUME IInv, mode = "once", queue = <<>>, cur.stage = "idle", NEW s \in listed,
                      Terminal(s)
               PROVE  Recorded(s.run) \/ s.run \in errs \/ s.run \in mimicked
    BY DEF OnceIsComplete
  <2>1. s.run \in done \cup errs
    BY DEF IInv, OnceTracked
  <2> QED
    BY <2>1 DEF IInv, Remembered, DoneIsRecorded
<1> QED
    BY <1>1, Invariance, PTL

-----------------------------------------------------------------------------
(* The informer implements ReportOnce *)

\* Without a step that touches them, what the abstract state shows stays.
LEMMA PromiseSteady ==
    ASSUME NEW r \in Runs
    PROVE  /\ job' = job => (Ending(r)' = Ending(r))
           /\ thread' = thread => (Told(r)' = Told(r))
BY DEF Ending, Told, Recorded, OneReport, ReportOf

\* At the start no run has ended and none was told of.
LEMMA PromiseInit == Init => Promise!Init
<1> SUFFICES ASSUME Init, NEW r \in Runs  PROVE Ending(r) = "open" /\ Told(r) = "untold"
    BY DEF Promise!Init
<1>1. thread[IssueOf[r]] = <<>>
    BY IssueOfAssumption DEF Init
<1> QED
    BY <1>1 DEF Init, ClusterInit, Ending, Told, Recorded

\* The cluster's steps: a run ends, a Job is forgotten, or nothing shows.
LEMMA ClusterRefines ==
    ASSUME TypeOK, ClusterSteps
    PROVE  [Promise!Next]_<<[r \in Runs |-> Ending(r)], [r \in Runs |-> Told(r)]>>
<1>1. [r \in Runs |-> Told(r)]' = [r \in Runs |-> Told(r)]
    BY PromiseSteady DEF ClusterSteps, githubVars
<1>2. PICK q \in Runs :
          \/ Create(q) \/ PodStops(q) \/ PodGone(q)
          \/ JobInterim(q) \/ JobEnds(q) \/ JobRemoved(q)
    BY DEF ClusterSteps, ClusterNext
<1>3. \A r \in Runs : r # q => job'[r] = job[r]
    BY <1>2 DEF Create, PodStops, PodGone, JobInterim, JobEnds, JobRemoved, TypeOK, ClusterTypeOK
<1>4. \A r \in Runs : r # q => Ending(r)' = Ending(r)
    BY <1>3 DEF Ending
<1>5. \/ Ending(q)' = Ending(q)
      \/ Ending(q) = "open" /\ Ending(q)' = "ended"
      \/ Ending(q) = "ended" /\ Ending(q)' = "forgotten"
    BY <1>2 DEF Create, PodStops, PodGone, JobInterim, JobEnds, JobRemoved, TypeOK,
                ClusterTypeOK, Ending
<1>6. CASE Ending(q)' = Ending(q)
    BY <1>1, <1>4, <1>6
<1>7. CASE Ending(q) = "open" /\ Ending(q)' = "ended"
    BY <1>1, <1>4, <1>7 DEF Promise!Next, Promise!End
<1>8. CASE Ending(q) = "ended" /\ Ending(q)' = "forgotten"
    BY <1>1, <1>4, <1>8 DEF Promise!Next, Promise!Forget
<1> QED
    BY <1>5, <1>6, <1>7, <1>8

\* The thread's steps: the App's comment tells, everybody else's shows nothing.
LEMMA ThreadRefines ==
    ASSUME IInv, IInv', ~shifted, ~shifted', ~late, ~late', [Next]_vars, job' = job
    PROVE  [Promise!Next]_<<[r \in Runs |-> Ending(r)], [r \in Runs |-> Told(r)]>>
<1> USE DEF IInv
<1>1. [r \in Runs |-> Ending(r)]' = [r \in Runs |-> Ending(r)]
    BY PromiseSteady
<1>2. CASE thread' = thread
    BY <1>1, <1>2, PromiseSteady
<1>3. ASSUME NEW c \in Comments, NEW i \in Issues, NEW r \in Runs,
             thread' = [thread EXCEPT ![i] = Append(@, c)],
             IssueOf[r] # i \/ ~ReportOf(c, r)
      PROVE  Told(r)' = Told(r)
  <2> DEFINE j == IssueOf[r]
  <2>1. j \in Issues
    BY IssueOfAssumption
  <2>2. /\ \A k \in DOMAIN thread'[j] : ReportOf(thread'[j][k], r) =>
                k \in DOMAIN thread[j] /\ thread'[j][k] = thread[j][k]
        /\ \A k \in DOMAIN thread[j] :
                k \in DOMAIN thread'[j] /\ thread'[j][k] = thread[j][k]
    BY <1>3, <2>1, OneMore
  <2> QED
    BY <2>2 DEF Told, Recorded, OneReport, ReportOf
<1>4. ASSUME NEW c \in Comments, NEW i \in Issues, c.by # "app",
             thread' = [thread EXCEPT ![i] = Append(@, c)]
      PROVE  UNCHANGED <<[r \in Runs |-> Ending(r)], [r \in Runs |-> Told(r)]>>
  <2>1. \A r \in Runs : Told(r)' = Told(r)
    BY <1>3, <1>4 DEF ReportOf
  <2> QED
    BY <1>1, <2>1
<1>5. CASE PostLands
  <2>1. /\ cur.stage = "sent" /\ cur.run \in Runs /\ Ended(cur.run) /\ ~Recorded(cur.run)
        /\ thread' = [thread EXCEPT ![IssueOf[cur.run]] = Append(@, CommentOf(cur))]
        /\ CommentOf(cur) \in Comments /\ IssueOf[cur.run] \in Issues
        /\ cur' = [cur EXCEPT !.stage = "landed"]
    BY <1>5, CommentType DEF PostLands, TypeOK, Truthful, CallOk, ExactlyOnce, ScanIsClean
  <2>2. \A r \in Runs : r # cur.run => Told(r)' = Told(r)
    BY <1>3, <2>1 DEF ReportOf, CommentOf
  <2>3. Told(cur.run) = "untold" /\ Ending(cur.run) # "open"
    BY <2>1 DEF Told, Ending, Ended
  <2>4. \E q \in Runs : q = cur.run /\ Recorded(q)' /\ OneReport(q)'
    <3>1. cur'.stage = "landed" /\ cur'.run = cur.run
      BY <2>1 DEF TypeOK, Calls
    <3>2. PICK q \in Runs : q = cur.run
      BY <2>1
    <3>3. Recorded(q)'
      BY <3>1, <3>2 DEF Remembered, Recorded, ReportOf
    <3>4. OneReport(q)'
      BY DEF ExactlyOnce, AtMostOneComment
    <3> QED
      BY <3>2, <3>3, <3>4
  <2>5. PICK q \in Runs : q = cur.run /\ Told(q)' = "told"
    BY <2>4 DEF Told
  <2> QED
    BY <1>1, <2>2, <2>3, <2>5 DEF Promise!Next, Promise!Tell
<1>6. ~OrphanLands
    BY DEF OrphanLands
<1>7. CASE CommentDeleted
  <2>1. \A r \in Runs : Told(r)' = Told(r)
    BY <1>7, DeletionIsSilent DEF Told
  <2> QED
    BY <1>1, <2>1
<1> QED
    BY <1>2, <1>4, <1>5, <1>6, <1>7, ThreadGrows

\* The safety half of the promise: told once, never before the ending, as long as the
\* scan was not shifted and no POST came late.
THEOREM ImplementsReportOnce == Spec /\ []~shifted /\ []~late => Promise!Spec
<1>1. IInv /\ IInv' /\ ~shifted /\ ~shifted' /\ ~late /\ ~late' /\ [Next]_vars =>
          [Promise!Next]_<<[r \in Runs |-> Ending(r)], [r \in Runs |-> Told(r)]>>
  <2>1. [Next]_vars => job' = job \/ ClusterSteps
    BY DEF vars, clusterVars, Next, StartWatch, StartOnce, Crash, OnceReturns, Informer,
           ObserveChange, ObserveDelete, Resync, Handler, TakeEvent, ReadPod, TokenMinted,
           ReadPage, SendPost, PostLands, PostReturns, CallFails, OrphanLands, OthersComment,
           CommentDeleted
  <2> QED
    BY <2>1, ClusterRefines, ThreadRefines DEF IInv
<1> QED
    BY <1>1, PromiseInit, Invariance, PTL DEF Spec, Promise!Spec
=============================================================================
