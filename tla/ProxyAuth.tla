------------------------------ MODULE ProxyAuth ------------------------------
(***************************************************************************)
(* proxy/auth.go, pods.go and identity.go: which run is calling.           *)
(*                                                                         *)
(* The proxy knows a caller by its source address, which it looks up in an *)
(* informer's cache of the namespace's pods.  The cache lags: an address   *)
(* is used before its pod's status names it, and after its pod has given   *)
(* it back it may belong to another pod while the cache still shows the    *)
(* first, or shows both.  The CONNECT route asks for the run's credential  *)
(* as well; the model route has the address only.                          *)
(*                                                                         *)
(* A run has one pod, named by the run.                                    *)
(***************************************************************************)
EXTENDS Integers, FiniteSets

CONSTANTS
    Runs,        \* the pods of runs, each carrying its run's identity
    Others,      \* pods of the namespace that are no run
    NoPod,
    IPs, NoIP,
    Holds,       \* the run credentials a pod has
    Slots,       \* requests handled at one time
    Burst,       \* the failure budget of an address (5 in the code)
    MaxReqs,     \* bound: requests
    MaxRefills   \* bound: tokens an address is given back (one a second)

Pods == Runs \cup Others

ASSUME PodsAssumption  == Runs \cap Others = {} /\ NoPod \notin Pods /\ NoIP \notin IPs
ASSUME HoldsAssumption == Holds \in [Pods -> SUBSET Runs]
ASSUME BurstAssumption == Burst \in Nat \ {0} /\ MaxRefills \in Nat /\ MaxReqs \in Nat
ASSUME SlotsAssumption == IsFiniteSet(Slots) /\ Slots # {}

VARIABLES
    holder,      \* [IPs -> the pod whose network sandbox has the address]
    held,        \* history: [IPs -> the pods that ever had it]
    pod,         \* [Pods -> the Pod object in the apiserver]
    cache,       \* [Pods -> the Pod object as the informer last saw it]
    req,         \* [Slots -> the request in that slot]
    answer,      \* the request answered last
    tokens,      \* failLimiter: [IPs -> tokens left]
    failed,      \* history: [IPs -> failures since the proxy booted]
    refilled,    \* history: [IPs -> tokens given back since then]
    sent         \* requests sent

podVars == <<holder, held, pod>>
limVars == <<tokens, failed, refilled>>
vars    == <<podVars, cache, req, answer, limVars, sent>>

-----------------------------------------------------------------------------

\* The Pod object: "stopped" is a pod whose phase still reads Running though its
\* containers are gone and its address was released.
Phases == {"absent", "live", "stopped", "terminated"}
Object == [phase : Phases, ip : IPs \cup {NoIP}]
NoObject == [phase |-> "absent", ip |-> NoIP]

\* cred: what Proxy-Authorization holds; "wrong" is whatever does not hold up, "right"
\* the credential of the run it claims.  waited: the lookup's wait is over.
Codes == {0, 200, 403, 407, 429}

Requests ==
    [stage : {"free", "admitted", "resolving"},
     route : {"connect", "model"}, from : Pods \cup {NoPod}, ip : IPs \cup {NoIP},
     cred : {"absent", "wrong", "right"}, claim : Runs \cup {NoPod},
     code : Codes, as : Runs \cup {NoPod}, waited : BOOLEAN]

NoRequest ==
    [stage |-> "free", route |-> "connect", from |-> NoPod, ip |-> NoIP, cred |-> "absent",
     claim |-> NoPod, code |-> 0, as |-> NoPod, waited |-> FALSE]

TypeOK ==
    /\ holder \in [IPs -> Pods \cup {NoPod}]
    /\ held \in [IPs -> SUBSET Pods]
    /\ pod \in [Pods -> Object] /\ cache \in [Pods -> Object]
    /\ req \in [Slots -> Requests] /\ answer \in Requests
    /\ tokens \in [IPs -> 0 .. Burst]
    /\ failed \in [IPs -> Nat]
    /\ refilled \in [IPs -> Nat]
    /\ sent \in 0 .. MaxReqs

Init ==
    /\ holder = [ip \in IPs |-> NoPod]
    /\ held = [ip \in IPs |-> {}]
    /\ pod = [p \in Pods |-> NoObject]
    /\ cache = [p \in Pods |-> NoObject]
    /\ req = [s \in Slots |-> NoRequest]
    /\ answer = NoRequest
    /\ tokens = [ip \in IPs |-> Burst]
    /\ failed = [ip \in IPs |-> 0]
    /\ refilled = [ip \in IPs |-> 0]
    /\ sent = 0

-----------------------------------------------------------------------------
(* Pods, their addresses, and the cache that lags behind them *)

\* The network sandbox comes up with a free address; the status does not say so yet.
PodStarts(p) ==
    /\ pod[p] = NoObject
    /\ \E ip \in IPs :
        /\ holder[ip] = NoPod
        /\ holder' = [holder EXCEPT ![ip] = p]
        /\ held' = [held EXCEPT ![ip] = @ \cup {p}]
    /\ pod' = [pod EXCEPT ![p].phase = "live"]
    /\ UNCHANGED <<cache, req, answer, limVars, sent>>

\* The kubelet publishes status.podIP, on its own cadence.
PublishIP(p) ==
    /\ pod[p].phase = "live"
    /\ \E ip \in IPs : holder[ip] = p /\ pod[p].ip # ip /\ pod' = [pod EXCEPT ![p].ip = ip]
    /\ UNCHANGED <<holder, held, cache, req, answer, limVars, sent>>

\* The containers end and the address goes back to the pool, before any status says so.
PodStops(p) ==
    /\ pod[p].phase = "live"
    /\ holder' = [ip \in IPs |-> IF holder[ip] = p THEN NoPod ELSE holder[ip]]
    /\ pod' = [pod EXCEPT ![p].phase = "stopped"]
    /\ UNCHANGED <<held, cache, req, answer, limVars, sent>>

\* The phase becomes Succeeded or Failed; the object stays, podIP and all.  (An object
\* that is deleted leaves the index just so.)
PublishPhase(p) ==
    /\ pod[p].phase = "stopped"
    /\ pod' = [pod EXCEPT ![p].phase = "terminated"]
    /\ UNCHANGED <<holder, held, cache, req, answer, limVars, sent>>

\* The informer catches up with one pod.
Observe(p) ==
    /\ cache[p] # pod[p]
    /\ cache' = [cache EXCEPT ![p] = pod[p]]
    /\ UNCHANGED <<podVars, req, answer, limVars, sent>>

EveryPhase(o) == o.phase # "absent"

\* terminated: a pod in a final phase no longer holds its address.
HoldsIP(o) == o.phase \in {"live", "stopped"}

\* The index: the pods the cache shows at an address.
ByPodIP(ip) == {p \in Pods : HoldsIP(cache[p]) /\ cache[p].ip = ip}

-----------------------------------------------------------------------------
(* One request *)

\* The request is answered with code c, as run p if that is 200.
Answers(s, c, p) ==
    /\ answer' = [req[s] EXCEPT !.code = c, !.as = p]
    /\ req' = [req EXCEPT ![s] = NoRequest]

\* What a pod may send from its address: one of its credentials, or something else.
Sendable(ip) ==
    [stage : {"free"}, route : {"connect", "model"}, from : {holder[ip]}, ip : {ip},
     cred : {"absent", "wrong", "right"}, claim : Runs \cup {NoPod},
     code : {0}, as : {NoPod}, waited : {FALSE}]

Sensible(r) ==
    /\ r.cred = "absent" <=> r.claim = NoPod
    /\ r.cred = "right" => r.claim \in Holds[r.from]
    /\ r.route = "model" => r.cred = "absent"

\* A request arrives.  The budget is looked at before anything else.
Arrive(s) ==
    /\ req[s].stage = "free"
    /\ sent < MaxReqs
    /\ sent' = sent + 1
    /\ \E ip \in IPs : holder[ip] # NoPod /\ \E r \in Sendable(ip) :
        /\ Sensible(r)
        /\ \/ /\ tokens[ip] >= 1
              /\ req' = [req EXCEPT ![s] = [r EXCEPT !.stage = "admitted"]]
              /\ UNCHANGED answer
           \/ /\ tokens[ip] < 1
              /\ answer' = [r EXCEPT !.code = 429]
              /\ UNCHANGED req
    /\ UNCHANGED <<podVars, cache, limVars>>

AllowNothing(ip) == UNCHANGED tokens
AllowBelowZero(ip) == tokens' = [tokens EXCEPT ![ip] = @ - 1]

\* lim.Allow: a token, if one is left by now.
Allow(ip) == tokens' = [tokens EXCEPT ![ip] = IF @ > 0 THEN @ - 1 ELSE 0]

\* A failure that costs a token.
Fail(s, c) ==
    /\ Answers(s, c, NoPod)
    /\ Allow(req[s].ip)
    /\ failed' = [failed EXCEPT ![req[s].ip] = @ + 1]
    /\ UNCHANGED refilled

AnyPassword(r) == r.cred \in {"wrong", "right"}

\* hmac.Equal: the password is the one Cred derives from the claim.
RightSecret(r) == r.cred = "right"

\* The credential, statelessly.  An absent one is a challenge and costs nothing.
CheckCredential(s) ==
    /\ req[s].stage = "admitted"
    /\ \/ /\ req[s].route = "model" \/ RightSecret(req[s])
          /\ req' = [req EXCEPT ![s].stage = "resolving"]
          /\ UNCHANGED <<answer, limVars>>
       \/ /\ req[s].route = "connect" /\ req[s].cred = "absent"
          /\ Answers(s, 407, NoPod)
          /\ UNCHANGED limVars
       \/ /\ req[s].cred # "absent" /\ ~RightSecret(req[s])
          /\ Fail(s, 407)
    /\ UNCHANGED <<podVars, cache, sent>>

\* The pod is a run's, and on the CONNECT route the run is the claim.
Agrees(r, p) == p \in Runs /\ (r.route = "connect" => p = r.claim)

\* Exactly one pod at the address: it decides.
Resolve(s) ==
    /\ req[s].stage = "resolving"
    /\ \E p \in Pods :
        /\ ByPodIP(req[s].ip) = {p}
        /\ \/ /\ Agrees(req[s], p)
              /\ Answers(s, 200, IF req[s].route = "connect" THEN req[s].claim ELSE p)
              /\ UNCHANGED limVars
           \/ ~Agrees(req[s], p) /\ Fail(s, 403)
    /\ UNCHANGED <<podVars, cache, sent>>

Impatient(s) == TRUE

\* resolveWait is over, or the caller hung up.
WaitIsOver(s) == req[s].waited

\* None or several: the lookup is repeated until the wait is over.
GiveUp(s) ==
    /\ req[s].stage = "resolving"
    /\ \A p \in Pods : ByPodIP(req[s].ip) # {p}
    /\ WaitIsOver(s)
    /\ Fail(s, 403)
    /\ UNCHANGED <<podVars, cache, sent>>

\* Time passes, or the caller leaves, while a lookup waits for the cache.
WaitEnds(s) ==
    /\ req[s].stage = "resolving"
    /\ ~req[s].waited
    /\ req' = [req EXCEPT ![s].waited = TRUE]
    /\ UNCHANGED <<podVars, cache, answer, limVars, sent>>

-----------------------------------------------------------------------------

\* rate.Limiter gives a token back every second.
Refill(ip) ==
    /\ tokens[ip] < Burst
    /\ refilled[ip] < MaxRefills
    /\ tokens' = [tokens EXCEPT ![ip] = @ + 1]
    /\ refilled' = [refilled EXCEPT ![ip] = @ + 1]
    /\ UNCHANGED <<podVars, cache, req, answer, failed, sent>>

\* The proxy is restarted: WatchPods lists the pods before the first request.
Reboot ==
    /\ cache' = pod
    /\ req' = [s \in Slots |-> NoRequest]
    /\ answer' = NoRequest
    /\ tokens' = [ip \in IPs |-> Burst]
    /\ failed' = [ip \in IPs |-> 0]
    /\ refilled' = [ip \in IPs |-> 0]
    /\ UNCHANGED <<podVars, sent>>

Handle(s) == CheckCredential(s) \/ Resolve(s) \/ GiveUp(s)

Kubelet(p) == PodStarts(p) \/ PublishIP(p) \/ PodStops(p) \/ PublishPhase(p)

Next ==
    \/ \E p \in Pods : Kubelet(p) \/ Observe(p)
    \/ \E s \in Slots : Arrive(s) \/ Handle(s) \/ WaitEnds(s)
    \/ \E ip \in IPs : Refill(ip)
    \/ Reboot

Spec == Init /\ [][Next]_vars

-----------------------------------------------------------------------------
(* Properties *)

\* A run's identity is given only to a caller at an address that run's pod had and, on
\* the CONNECT route, with that run's credential: a cache that shows a recycled
\* address under its previous holder grants the new holder nothing of it.
IdentityIsEarned ==
    answer.code = 200 =>
        /\ answer.as \in held[answer.ip]
        /\ answer.route = "connect" => answer.as \in Holds[answer.from]

\* A correct request from an address no other pod ever had is refused only after the
\* whole wait: a run's first request may race its own pod's status update.
FirstRequestWaits ==
    answer.code = 403 /\ answer.cred = "right" /\ answer.claim = answer.from
    /\ held[answer.ip] = {answer.from} => answer.waited

\* What an address may get wrong is its burst and what it was given back, and no more
\* than that but for the requests in flight: the budget is looked at before the
\* checks and taken from after them, so they may overrun it, each refill anew.
FailuresAreBounded ==
    \A ip \in IPs :
        failed[ip] <= Burst + refilled[ip] + (refilled[ip] + 1) * (Cardinality(Slots) - 1)

\* The kubelet has published and the informer has seen all there is to see.
Settled ==
    /\ cache = pod
    /\ \A p \in Pods : pod[p].phase # "stopped"
    /\ \A ip \in IPs, p \in Pods : holder[ip] = p => pod[p].ip = ip

\* A cache that has caught up answers every address with the pod that has it, though
\* finished pods are kept, with the address they had, beside the run that has it now.
SettledCacheIsTrue ==
    Settled => \A ip \in IPs : ByPodIP(ip) = IF holder[ip] = NoPod THEN {} ELSE {holder[ip]}

-----------------------------------------------------------------------------
(* The inductive invariant *)

\* An address belongs to a live pod that had it since; what an object or its copy in the
\* cache names is an address its pod had, and still has if the pod is live.
AddressesAreTrue ==
    /\ \A ip \in IPs :
        holder[ip] # NoPod => holder[ip] \in held[ip] /\ pod[holder[ip]].phase = "live"
    /\ \A p \in Pods :
        /\ pod[p].ip # NoIP => /\ p \in held[pod[p].ip]
                               /\ pod[p].phase = "live" => holder[pod[p].ip] = p
        /\ cache[p].ip # NoIP => p \in held[cache[p].ip]

\* A request was sent from its address by a pod that had it; what is resolved on the
\* CONNECT route has shown its credential.
RequestsAreTrue ==
    \A s \in Slots : req[s].stage # "free" =>
        /\ req[s].ip \in IPs /\ req[s].from \in held[req[s].ip] /\ Sensible(req[s])
        /\ req[s].stage = "resolving" /\ req[s].route = "connect" => RightSecret(req[s])

\* The answer's two properties, and what keeps them while addresses move on.
AnswerIsTrue ==
    /\ IdentityIsEarned /\ FirstRequestWaits
    /\ answer.code \in {200, 403} => answer.ip \in IPs /\ answer.from \in held[answer.ip]

InFlight(ip) == {s \in Slots : req[s].stage # "free" /\ req[s].ip = ip}

\* Failures that no token paid for.
Unpaid(ip) == failed[ip] - Burst - refilled[ip] + tokens[ip]

\* n rounds of all the slots but one.
Rounds(n) == n * (Cardinality(Slots) - 1)

\* While a token is left only the overruns before the refills behind it are unpaid; at
\* none, each request in flight may be one more, and no other is admitted.
BudgetIsKept ==
    \A ip \in IPs :
        IF tokens[ip] > 0 THEN Unpaid(ip) <= Rounds(refilled[ip])
        ELSE Unpaid(ip) + Cardinality(InFlight(ip)) <= Rounds(refilled[ip] + 1)

AuthInv == TypeOK /\ AddressesAreTrue /\ RequestsAreTrue /\ AnswerIsTrue /\ BudgetIsKept
=============================================================================
