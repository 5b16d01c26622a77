--------------------------- MODULE ProxyAuthProofs ---------------------------
(***************************************************************************)
(* Proofs about ProxyAuth, for any pods, addresses, slots, budgets and     *)
(* credentials handed around: who is taken for whom while the cache lags,  *)
(* and what a source may get wrong.                                        *)
(***************************************************************************)
EXTENDS ProxyAuth, FiniteSetTheorems, TLAPS

-----------------------------------------------------------------------------
(* The slots and the budget *)

\* There is at least one slot, and they can be counted.
LEMMA SlotsAre == Cardinality(Slots) \in Nat \ {0}
BY SlotsAssumption, FS_CardinalityType, FS_EmptySet

\* One refill more is one round more.
LEMMA RoundsAre ==
    ASSUME NEW n \in Nat
    PROVE  /\ Rounds(n) \in Nat /\ Rounds(0) = 0
           /\ Rounds(n + 1) = Rounds(n) + Cardinality(Slots) - 1
<1> DEFINE k == Cardinality(Slots) - 1
<1>1. k \in Nat
    BY SlotsAre
<1>2. /\ n * k \in Nat /\ 0 * k = 0 /\ (n + 1) * k = n * k + k
    BY <1>1
<1>3. Rounds(n) = n * k /\ Rounds(0) = 0 * k /\ Rounds(n + 1) = (n + 1) * k
    BY DEF Rounds
<1> QED
    BY <1>1, <1>2, <1>3, SlotsAre

\* The requests in flight from an address can be counted, and fit the slots.
LEMMA InFlightIs ==
    ASSUME NEW ip \in IPs
    PROVE  /\ IsFiniteSet(InFlight(ip)) /\ Cardinality(InFlight(ip)) \in Nat
           /\ Cardinality(InFlight(ip)) <= Cardinality(Slots)
BY SlotsAssumption, FS_Subset, FS_CardinalityType DEF InFlight

\* A request that is answered is in flight no more.
LEMMA FreedIs ==
    ASSUME TypeOK, NEW s \in Slots, req[s].stage # "free",
           req' = [req EXCEPT ![s] = NoRequest], NEW ip \in IPs
    PROVE  /\ Cardinality(InFlight(ip))' \in Nat
           /\ Cardinality(InFlight(ip))' =
                  IF req[s].ip = ip THEN Cardinality(InFlight(ip)) - 1
                                    ELSE Cardinality(InFlight(ip))
           /\ req[s].ip = ip => Cardinality(InFlight(ip))' < Cardinality(Slots)
<1>1. InFlight(ip)' = InFlight(ip) \ {s}
    BY DEF InFlight, TypeOK, NoRequest
<1>2. s \in InFlight(ip) <=> req[s].ip = ip
    BY DEF InFlight
<1>3. /\ IsFiniteSet(InFlight(ip)) /\ Cardinality(InFlight(ip)) \in Nat
      /\ Cardinality(InFlight(ip)) <= Cardinality(Slots)
    BY InFlightIs
<1>4. /\ IsFiniteSet(InFlight(ip) \ {s})
      /\ Cardinality(InFlight(ip) \ {s}) =
             IF s \in InFlight(ip) THEN Cardinality(InFlight(ip)) - 1
                                   ELSE Cardinality(InFlight(ip))
    BY <1>3, FS_RemoveElement
<1>5. Cardinality(InFlight(ip) \ {s}) \in Nat
    BY <1>4, FS_CardinalityType
<1> QED
    BY <1>1, <1>2, <1>3, <1>4, <1>5, SlotsAre

\* The types the budget is counted in.
LEMMA BudgetTypes ==
    ASSUME TypeOK, NEW ip \in IPs
    PROVE  /\ tokens[ip] \in 0 .. Burst /\ failed[ip] \in Nat /\ refilled[ip] \in Nat
           /\ Burst \in Nat /\ Unpaid(ip) \in Int
           /\ Unpaid(ip) = failed[ip] - Burst - refilled[ip] + tokens[ip]
BY BurstAssumption DEF TypeOK, Unpaid

\* A request that ends and costs nothing.
LEMMA FreeOfCharge ==
    ASSUME AuthInv, NEW s \in Slots, req[s].stage # "free",
           req' = [req EXCEPT ![s] = NoRequest], UNCHANGED limVars
    PROVE  BudgetIsKept'
<1> SUFFICES ASSUME NEW ip \in IPs
             PROVE  IF tokens'[ip] > 0 THEN Unpaid(ip)' <= Rounds(refilled[ip])'
                    ELSE Unpaid(ip)' + Cardinality(InFlight(ip))' <= Rounds(refilled[ip] + 1)'
    BY DEF BudgetIsKept
<1>1. /\ tokens' = tokens /\ Unpaid(ip)' = Unpaid(ip)
      /\ Rounds(refilled[ip])' = Rounds(refilled[ip])
      /\ Rounds(refilled[ip] + 1)' = Rounds(refilled[ip] + 1)
    BY DEF limVars, Unpaid, Rounds
<1>2. /\ Cardinality(InFlight(ip))' <= Cardinality(InFlight(ip))
      /\ Cardinality(InFlight(ip))' \in Nat /\ Cardinality(InFlight(ip)) \in Nat
  <2>1. /\ Cardinality(InFlight(ip))' \in Nat /\ Cardinality(InFlight(ip)) \in Nat
        /\ Cardinality(InFlight(ip))' =
               IF req[s].ip = ip THEN Cardinality(InFlight(ip)) - 1
                                 ELSE Cardinality(InFlight(ip))
    BY FreedIs, InFlightIs DEF AuthInv
  <2> QED
    BY <2>1
<1>3. Unpaid(ip) \in Int /\ tokens[ip] \in Nat /\ refilled[ip] \in Nat
    BY BudgetTypes DEF AuthInv
<1>4. Rounds(refilled[ip]) \in Nat /\ Rounds(refilled[ip] + 1) \in Nat
    BY <1>3, RoundsAre
<1> QED
    BY <1>1, <1>2, <1>3, <1>4 DEF AuthInv, BudgetIsKept

\* A request that ends in a failure: a token pays for it, or it was one of those in flight.
LEMMA Charged ==
    ASSUME AuthInv, NEW s \in Slots, req[s].stage # "free",
           req' = [req EXCEPT ![s] = NoRequest], Allow(req[s].ip),
           failed' = [failed EXCEPT ![req[s].ip] = @ + 1], refilled' = refilled
    PROVE  BudgetIsKept'
<1> SUFFICES ASSUME NEW ip \in IPs
             PROVE  IF tokens'[ip] > 0 THEN Unpaid(ip)' <= Rounds(refilled[ip])'
                    ELSE Unpaid(ip)' + Cardinality(InFlight(ip))' <= Rounds(refilled[ip] + 1)'
    BY DEF BudgetIsKept
<1>1. /\ tokens'[ip] = IF ip # req[s].ip THEN tokens[ip]
                       ELSE IF tokens[ip] > 0 THEN tokens[ip] - 1 ELSE 0
      /\ failed'[ip] = IF ip # req[s].ip THEN failed[ip] ELSE failed[ip] + 1
    BY DEF AuthInv, TypeOK, Allow
<1>2. /\ Rounds(refilled[ip])' = Rounds(refilled[ip])
      /\ Rounds(refilled[ip] + 1)' = Rounds(refilled[ip] + 1)
    BY DEF Rounds
<1>3. /\ tokens[ip] \in 0 .. Burst /\ failed[ip] \in Nat /\ refilled[ip] \in Nat
      /\ Burst \in Nat /\ Unpaid(ip) \in Int
      /\ Unpaid(ip) = failed[ip] - Burst - refilled[ip] + tokens[ip]
    BY BudgetTypes DEF AuthInv
<1>4. /\ Rounds(refilled[ip]) \in Nat
      /\ Rounds(refilled[ip] + 1) = Rounds(refilled[ip]) + Cardinality(Slots) - 1
      /\ Cardinality(Slots) \in Nat
    BY <1>3, RoundsAre, SlotsAre
<1>5. Unpaid(ip)' = failed'[ip] - Burst - refilled[ip] + tokens'[ip]
    BY <1>1 DEF Unpaid
<1>6. /\ Cardinality(InFlight(ip))' \in Nat /\ Cardinality(InFlight(ip)) \in Nat
      /\ Cardinality(InFlight(ip))' =
             IF req[s].ip = ip THEN Cardinality(InFlight(ip)) - 1 ELSE Cardinality(InFlight(ip))
      /\ req[s].ip = ip => Cardinality(InFlight(ip))' < Cardinality(Slots)
  <2>1. TypeOK
    BY DEF AuthInv
  <2>2. Cardinality(InFlight(ip)) \in Nat
    BY InFlightIs
  <2> QED
    BY <2>1, <2>2, FreedIs
<1>7. IF tokens[ip] > 0 THEN Unpaid(ip) <= Rounds(refilled[ip])
      ELSE Unpaid(ip) + Cardinality(InFlight(ip)) <= Rounds(refilled[ip] + 1)
    BY DEF AuthInv, BudgetIsKept
<1>8. CASE ip # req[s].ip
    BY <1>1, <1>2, <1>3, <1>4, <1>5, <1>6, <1>7, <1>8
<1>9. CASE ip = req[s].ip /\ tokens[ip] > 0
  <2>1. Unpaid(ip)' = Unpaid(ip) /\ Unpaid(ip) <= Rounds(refilled[ip])
    BY <1>1, <1>3, <1>5, <1>7, <1>9
  <2>2. Unpaid(ip)' + Cardinality(InFlight(ip))' <= Rounds(refilled[ip] + 1)
    BY <1>3, <1>4, <1>6, <1>9, <2>1
  <2> QED
    BY <1>2, <2>1, <2>2
<1>10. CASE ip = req[s].ip /\ ~(tokens[ip] > 0)
  <2>1. tokens'[ip] = 0 /\ Unpaid(ip)' = Unpaid(ip) + 1
    BY <1>1, <1>3, <1>5, <1>10
  <2>2. Unpaid(ip)' + Cardinality(InFlight(ip))' = Unpaid(ip) + Cardinality(InFlight(ip))
    BY <1>3, <1>6, <1>10, <2>1
  <2> QED
    BY <1>2, <1>7, <1>10, <2>1, <2>2
<1> QED
    BY <1>8, <1>9, <1>10

\* The bound on what an address may get wrong is the sum of the budget.
LEMMA BudgetIsTheBound == AuthInv => FailuresAreBounded
<1> SUFFICES ASSUME AuthInv, NEW ip \in IPs
             PROVE  failed[ip] <= Burst + refilled[ip]
                                  + (refilled[ip] + 1) * (Cardinality(Slots) - 1)
    BY DEF FailuresAreBounded
<1>1. /\ tokens[ip] \in 0 .. Burst /\ failed[ip] \in Nat /\ refilled[ip] \in Nat
      /\ Burst \in Nat
      /\ Unpaid(ip) = failed[ip] - Burst - refilled[ip] + tokens[ip]
    BY BudgetTypes DEF AuthInv
<1>2. /\ Rounds(refilled[ip]) \in Nat
      /\ Rounds(refilled[ip] + 1) = Rounds(refilled[ip]) + Cardinality(Slots) - 1
      /\ Cardinality(Slots) \in Nat \ {0}
      /\ Cardinality(InFlight(ip)) \in Nat
    BY <1>1, RoundsAre, SlotsAre, InFlightIs
<1>3. IF tokens[ip] > 0 THEN Unpaid(ip) <= Rounds(refilled[ip])
      ELSE Unpaid(ip) + Cardinality(InFlight(ip)) <= Rounds(refilled[ip] + 1)
    BY DEF AuthInv, BudgetIsKept
<1>4. failed[ip] <= Burst + refilled[ip] + Rounds(refilled[ip] + 1)
    BY <1>1, <1>2, <1>3
<1> QED
    BY <1>4 DEF Rounds

-----------------------------------------------------------------------------
(* Addresses *)

\* The proxy starts with full budgets, an empty cache and no pod.
LEMMA AuthInitHolds == Init => AuthInv
<1> SUFFICES ASSUME Init PROVE AuthInv
    OBVIOUS
<1>1. NoRequest \in Requests /\ NoObject \in Object
    BY DEF NoRequest, Requests, Codes, NoObject, Object, Phases
<1>2. TypeOK
    BY <1>1, BurstAssumption DEF Init, TypeOK
<1>3. AddressesAreTrue /\ RequestsAreTrue
    BY DEF Init, AddressesAreTrue, RequestsAreTrue, NoObject, NoRequest
<1>4. AnswerIsTrue
    BY DEF Init, AnswerIsTrue, IdentityIsEarned, FirstRequestWaits, NoRequest
<1>5. BudgetIsKept
  <2> SUFFICES ASSUME NEW ip \in IPs
               PROVE  tokens[ip] > 0 /\ Unpaid(ip) <= Rounds(refilled[ip])
    BY DEF BudgetIsKept
  <2>1. tokens[ip] = Burst /\ failed[ip] = 0 /\ refilled[ip] = 0 /\ Burst \in Nat \ {0}
    BY BurstAssumption DEF Init
  <2>2. Unpaid(ip) = 0
    BY <2>1 DEF Unpaid
  <2> QED
    BY <2>1, <2>2, RoundsAre
<1> QED
    BY <1>2, <1>3, <1>4, <1>5 DEF AuthInv

\* What an address had it had, whoever has it next: neither requests nor the answer notice.
LEMMA AddressesMove ==
    ASSUME AuthInv, held' \in [IPs -> SUBSET Pods], \A ip \in IPs : held[ip] \subseteq held'[ip],
           UNCHANGED <<req, answer, limVars>>
    PROVE  RequestsAreTrue' /\ AnswerIsTrue' /\ BudgetIsKept'
<1>1. RequestsAreTrue'
    BY DEF AuthInv, RequestsAreTrue, Sensible, RightSecret
<1>2. AnswerIsTrue'
    BY DEF AuthInv, AnswerIsTrue, IdentityIsEarned, FirstRequestWaits
<1>3. BudgetIsKept'
    BY DEF AuthInv, BudgetIsKept, InFlight, Unpaid, Rounds, limVars
<1> QED
    BY <1>1, <1>2, <1>3

\* A pod takes an address nobody holds: no later holder is forgotten.
LEMMA PodStartsStep ==
    ASSUME AuthInv, NEW p \in Pods, PodStarts(p)
    PROVE  AuthInv'
<1>1. PICK ip \in IPs : /\ holder[ip] = NoPod
                        /\ holder' = [holder EXCEPT ![ip] = p]
                        /\ held' = [held EXCEPT ![ip] = @ \cup {p}]
    BY DEF PodStarts
<1>2. /\ pod' = [pod EXCEPT ![p].phase = "live"] /\ pod[p] = NoObject
      /\ UNCHANGED <<cache, req, answer, limVars, sent>>
    BY DEF PodStarts
<1>3. /\ pod'[p].phase = "live" /\ pod'[p].ip = NoIP /\ pod'[p] \in Object
      /\ \A q \in Pods : q # p => pod'[q] = pod[q]
    BY <1>2 DEF AuthInv, TypeOK, NoObject, Object, Phases
<1>4. /\ held' \in [IPs -> SUBSET Pods] /\ \A j \in IPs : held[j] \subseteq held'[j]
      /\ p \in held'[ip]
      /\ holder'[ip] = p /\ \A j \in IPs : j # ip => holder'[j] = holder[j]
    BY <1>1 DEF AuthInv, TypeOK
<1>5. TypeOK'
  <2>1. pod' \in [Pods -> Object]
    BY <1>2, <1>3 DEF AuthInv, TypeOK
  <2>2. holder' \in [IPs -> Pods \cup {NoPod}]
    BY <1>1 DEF AuthInv, TypeOK
  <2> QED
    BY <1>2, <1>4, <2>1, <2>2 DEF AuthInv, TypeOK, limVars
<1>6. AddressesAreTrue'
  <2>1. ASSUME NEW j \in IPs, holder'[j] # NoPod
        PROVE  holder'[j] \in held'[j] /\ pod'[holder'[j]].phase = "live"
    <3>1. CASE j = ip
        BY <1>3, <1>4, <3>1
    <3>2. CASE j # ip
        BY <1>3, <1>4, <2>1, <3>2 DEF AuthInv, AddressesAreTrue, TypeOK
    <3> QED
        BY <3>1, <3>2
  <2>2. ASSUME NEW q \in Pods, pod'[q].ip # NoIP
        PROVE  /\ q \in held'[pod'[q].ip]
               /\ pod'[q].phase = "live" => holder'[pod'[q].ip] = q
    <3>1. q # p /\ pod'[q] = pod[q] /\ pod[q].ip \in IPs
        BY <1>3, <2>2 DEF AuthInv, TypeOK, Object
    <3>2. q \in held[pod[q].ip] /\ (pod[q].phase = "live" => holder[pod[q].ip] = q)
        BY <2>2, <3>1 DEF AuthInv, AddressesAreTrue
    <3> QED
        BY <1>1, <1>4, <3>1, <3>2, PodsAssumption
  <2>3. ASSUME NEW q \in Pods, cache'[q].ip # NoIP
        PROVE  q \in held'[cache'[q].ip]
    BY <1>2, <1>4, <2>3 DEF AuthInv, AddressesAreTrue, TypeOK, Object
  <2> QED
    BY <2>1, <2>2, <2>3 DEF AddressesAreTrue
<1> QED
    BY <1>2, <1>4, <1>5, <1>6, AddressesMove DEF AuthInv

\* A pod that stops leaves its address, and the cache may be behind.
LEMMA PodStopsStep ==
    ASSUME AuthInv, NEW p \in Pods, PodStops(p)
    PROVE  AuthInv'
<1>1. /\ holder' = [ip \in IPs |-> IF holder[ip] = p THEN NoPod ELSE holder[ip]]
      /\ pod' = [pod EXCEPT ![p].phase = "stopped"]
      /\ UNCHANGED <<held, cache, req, answer, limVars, sent>>
    BY DEF PodStops
<1>2. /\ pod'[p].phase = "stopped" /\ pod'[p].ip = pod[p].ip /\ pod'[p] \in Object
      /\ \A q \in Pods : q # p => pod'[q] = pod[q]
    BY <1>1 DEF AuthInv, TypeOK, Object, Phases
<1>3. TypeOK'
  <2>1. pod' \in [Pods -> Object] /\ holder' \in [IPs -> Pods \cup {NoPod}]
    BY <1>1, <1>2 DEF AuthInv, TypeOK
  <2> QED
    BY <1>1, <2>1 DEF AuthInv, TypeOK, limVars
<1>4. AddressesAreTrue'
  <2>1. ASSUME NEW j \in IPs, holder'[j] # NoPod
        PROVE  holder'[j] \in held'[j] /\ pod'[holder'[j]].phase = "live"
    BY <1>1, <1>2, <2>1 DEF AuthInv, AddressesAreTrue, TypeOK
  <2>2. ASSUME NEW q \in Pods, pod'[q].ip # NoIP
        PROVE  /\ q \in held'[pod'[q].ip]
               /\ pod'[q].phase = "live" => holder'[pod'[q].ip] = q
    <3>1. pod[q].ip = pod'[q].ip /\ pod[q].ip \in IPs
        BY <1>2, <2>2 DEF AuthInv, TypeOK, Object
    <3>2. q \in held[pod[q].ip] /\ (pod[q].phase = "live" => holder[pod[q].ip] = q)
        BY <2>2, <3>1 DEF AuthInv, AddressesAreTrue
    <3> QED
        BY <1>1, <1>2, <3>1, <3>2
  <2>3. ASSUME NEW q \in Pods, cache'[q].ip # NoIP
        PROVE  q \in held'[cache'[q].ip]
    BY <1>1, <2>3 DEF AuthInv, AddressesAreTrue
  <2> QED
    BY <2>1, <2>2, <2>3 DEF AddressesAreTrue
<1> QED
    BY <1>1, <1>3, <1>4, AddressesMove DEF AuthInv, TypeOK

\* The status of one pod moves on, or what the informer knows of it.
LEMMA StatusStep ==
    ASSUME AuthInv, NEW p \in Pods, PublishIP(p) \/ PublishPhase(p) \/ Observe(p)
    PROVE  AuthInv'
<1>1. UNCHANGED <<holder, held, req, answer, limVars, sent>>
    BY DEF PublishIP, PublishPhase, Observe, podVars
<1>2. /\ AddressesAreTrue
      /\ pod \in [Pods -> Object] /\ cache \in [Pods -> Object] /\ holder \in [IPs -> Pods \cup {NoPod}]
    BY DEF AuthInv, TypeOK
<1>3. /\ pod' \in [Pods -> Object] /\ cache' \in [Pods -> Object] /\ AddressesAreTrue'
  <2>1. CASE PublishIP(p)
    <3>1. PICK ip \in IPs : holder[ip] = p /\ pod' = [pod EXCEPT ![p].ip = ip]
        BY <2>1 DEF PublishIP
    <3>2. /\ pod'[p].ip = ip /\ pod'[p].phase = "live" /\ pod'[p] \in Object
          /\ \A q \in Pods : q # p => pod'[q] = pod[q]
          /\ cache' = cache
        BY <1>2, <2>1, <3>1 DEF PublishIP, Object
    <3>3. p \in held[ip] /\ p # NoPod
        BY <1>2, <3>1, PodsAssumption DEF AddressesAreTrue
    <3> QED
        BY <1>1, <1>2, <3>1, <3>2, <3>3 DEF AddressesAreTrue
  <2>2. CASE PublishPhase(p)
    <3>1. /\ pod'[p].ip = pod[p].ip /\ pod'[p].phase = "terminated" /\ pod'[p] \in Object
          /\ pod[p].phase = "stopped"
          /\ \A q \in Pods : q # p => pod'[q] = pod[q]
          /\ cache' = cache /\ pod' = [pod EXCEPT ![p].phase = "terminated"]
        BY <1>2, <2>2 DEF PublishPhase, Object, Phases
    <3> QED
        BY <1>1, <1>2, <3>1 DEF AddressesAreTrue
  <2>3. CASE Observe(p)
    <3>1. cache' = [cache EXCEPT ![p] = pod[p]] /\ pod' = pod
        BY <2>3 DEF Observe, podVars
    <3> QED
        BY <1>1, <1>2, <3>1 DEF AddressesAreTrue
  <2> QED
    BY <2>1, <2>2, <2>3
<1>4. TypeOK'
    BY <1>1, <1>3 DEF AuthInv, TypeOK, limVars
<1> QED
    BY <1>1, <1>3, <1>4, AddressesMove DEF AuthInv, TypeOK

-----------------------------------------------------------------------------
(* Requests *)

\* The pods the cache shows at an address had it.
LEMMA ShownHadIt ==
    ASSUME AuthInv, NEW ip \in IPs
    PROVE  ByPodIP(ip) \subseteq held[ip]
BY PodsAssumption DEF ByPodIP, AuthInv, AddressesAreTrue

\* A request as it arrives.
LEMMA SendableIs ==
    ASSUME AuthInv, NEW ip \in IPs, holder[ip] # NoPod, NEW r \in Sendable(ip), Sensible(r)
    PROVE  /\ r \in Requests /\ r.ip = ip /\ r.from \in held[ip] /\ r.code = 0
           /\ [r EXCEPT !.stage = "admitted"] \in Requests
           /\ [r EXCEPT !.code = 429] \in Requests
<1>1. holder[ip] \in Pods /\ holder[ip] \in held[ip]
    BY DEF AuthInv, TypeOK, AddressesAreTrue
<1>2. r.ip = ip /\ r.from = holder[ip] /\ r.code = 0
    BY DEF Sendable
<1>3. r = [stage |-> r.stage, route |-> r.route, from |-> r.from, ip |-> r.ip, cred |-> r.cred,
           claim |-> r.claim, code |-> r.code, as |-> r.as, waited |-> r.waited]
    BY DEF Sendable
<1>4. /\ r.stage = "free" /\ r.route \in {"connect", "model"}
      /\ r.cred \in {"absent", "wrong", "right"}
      /\ r.claim \in Runs \cup {NoPod} /\ r.as = NoPod /\ r.waited = FALSE
    BY DEF Sendable
<1>5. r \in Requests
    BY <1>1, <1>2, <1>3, <1>4 DEF Requests, Codes
<1> QED
    BY <1>1, <1>2, <1>5 DEF Requests, Codes

\* A request comes from the pod at its address; the budget is looked at and left as it is.
LEMMA ArriveStep ==
    ASSUME AuthInv, NEW s \in Slots, Arrive(s)
    PROVE  AuthInv'
<1>1. PICK ip \in IPs : holder[ip] # NoPod /\ \E r \in Sendable(ip) :
        /\ Sensible(r)
        /\ \/ /\ tokens[ip] >= 1
              /\ req' = [req EXCEPT ![s] = [r EXCEPT !.stage = "admitted"]]
              /\ UNCHANGED answer
           \/ /\ tokens[ip] < 1
              /\ answer' = [r EXCEPT !.code = 429]
              /\ UNCHANGED req
    BY DEF Arrive
<1>2. PICK r \in Sendable(ip) :
        /\ Sensible(r)
        /\ \/ /\ tokens[ip] >= 1
              /\ req' = [req EXCEPT ![s] = [r EXCEPT !.stage = "admitted"]]
              /\ UNCHANGED answer
           \/ /\ tokens[ip] < 1
              /\ answer' = [r EXCEPT !.code = 429]
              /\ UNCHANGED req
    BY <1>1
<1>3. /\ UNCHANGED <<holder, held, pod, cache, tokens, failed, refilled>>
      /\ req[s].stage = "free" /\ sent' = sent + 1 /\ sent < MaxReqs
    BY DEF Arrive, podVars, limVars
<1>4. /\ r \in Requests /\ r.ip = ip /\ r.from \in held[ip] /\ r.code = 0
      /\ [r EXCEPT !.stage = "admitted"] \in Requests
      /\ [r EXCEPT !.code = 429] \in Requests
    BY <1>1, <1>2, SendableIs
<1>5. sent' \in 0 .. MaxReqs
    BY <1>3, BurstAssumption DEF AuthInv, TypeOK
<1>6. AddressesAreTrue'
    BY <1>3 DEF AuthInv, AddressesAreTrue
<1>7. CASE tokens[ip] >= 1 /\ req' = [req EXCEPT ![s] = [r EXCEPT !.stage = "admitted"]]
           /\ UNCHANGED answer
  <2> DEFINE q == [r EXCEPT !.stage = "admitted"]
  <2>1. /\ q.stage = "admitted" /\ q.ip = ip /\ q.from = r.from /\ q.route = r.route
        /\ q.cred = r.cred /\ q.claim = r.claim
    BY <1>4 DEF Requests
  <2>2. q \in Requests /\ req' = [req EXCEPT ![s] = q]
    BY <1>4, <1>7
  <2> HIDE DEF q
  <2>3. TypeOK'
    BY <1>3, <1>5, <1>7, <2>2 DEF AuthInv, TypeOK
  <2>4. Sensible(q)
    BY <1>2, <2>1 DEF Sensible
  <2>5. req'[s] = q /\ \A t \in Slots : t # s => req'[t] = req[t]
    BY <2>2 DEF AuthInv, TypeOK
  <2>6. RequestsAreTrue'
    <3> SUFFICES ASSUME NEW t \in Slots, req'[t].stage # "free"
                 PROVE  /\ req'[t].ip \in IPs /\ req'[t].from \in held'[req'[t].ip]
                        /\ Sensible(req'[t])
                        /\ req'[t].stage = "resolving" /\ req'[t].route = "connect"
                           => RightSecret(req'[t])
        BY DEF RequestsAreTrue
    <3>1. CASE t = s
        BY <1>3, <1>4, <2>1, <2>4, <2>5, <3>1
    <3>2. CASE t # s
        BY <1>3, <2>5, <3>2 DEF AuthInv, RequestsAreTrue
    <3> QED
        BY <3>1, <3>2
  <2>7. AnswerIsTrue'
    BY <1>3, <1>7 DEF AuthInv, AnswerIsTrue, IdentityIsEarned, FirstRequestWaits
  <2>8. BudgetIsKept'
    <3> SUFFICES ASSUME NEW j \in IPs
                 PROVE  IF tokens[j] > 0 THEN Unpaid(j) <= Rounds(refilled[j])
                        ELSE Unpaid(j) + Cardinality(InFlight(j))' <= Rounds(refilled[j] + 1)
        BY <1>3 DEF BudgetIsKept, Unpaid, Rounds
    <3>2. tokens[j] \in Nat
        BY BudgetTypes DEF AuthInv
    <3>1. ASSUME ~(tokens[j] > 0) PROVE InFlight(j)' = InFlight(j)
      <4>1. j # ip
        BY <1>7, <3>2, <3>1
      <4> QED
        BY <1>3, <2>1, <2>5, <4>1 DEF InFlight
    <3> QED
        BY <3>1, <3>2 DEF AuthInv, BudgetIsKept
  <2> QED
    BY <1>6, <2>3, <2>6, <2>7, <2>8 DEF AuthInv
<1>8. CASE answer' = [r EXCEPT !.code = 429] /\ UNCHANGED req
  <2>1. TypeOK'
    BY <1>3, <1>4, <1>5, <1>8 DEF AuthInv, TypeOK
  <2>2. RequestsAreTrue'
    BY <1>3, <1>8 DEF AuthInv, RequestsAreTrue
  <2>3. answer'.code = 429
    BY <1>4, <1>8 DEF Requests
  <2>4. AnswerIsTrue'
    BY <2>3 DEF AnswerIsTrue, IdentityIsEarned, FirstRequestWaits
  <2>5. BudgetIsKept'
    BY <1>3, <1>8 DEF AuthInv, BudgetIsKept, InFlight, Unpaid, Rounds
  <2> QED
    BY <1>6, <2>1, <2>2, <2>4, <2>5 DEF AuthInv
<1> QED
    BY <1>2, <1>7, <1>8

\* How a request ends: a failure costs a token.
EndsWith(s, c, p) ==
    \/ Answers(s, c, p) /\ UNCHANGED limVars
    \/ Fail(s, c) /\ p = NoPod

\* What a 200 and a 403 must have behind them.
IsDue(r, c, p) ==
    /\ c = 200 => p \in held[r.ip] /\ (r.route = "connect" => p \in Holds[r.from])
    /\ c = 403 /\ r.cred = "right" /\ r.claim = r.from /\ held[r.ip] = {r.from} => r.waited

\* A request is answered: its slot is free, and a failure costs what it costs.
LEMMA AnswersStep ==
    ASSUME AuthInv, NEW s \in Slots, req[s].stage # "free",
           NEW c \in Codes, NEW p \in Runs \cup {NoPod},
           EndsWith(s, c, p), IsDue(req[s], c, p), UNCHANGED <<podVars, cache, sent>>
    PROVE  AuthInv'
<1>1. /\ req' = [req EXCEPT ![s] = NoRequest]
      /\ UNCHANGED <<holder, held, pod, cache, sent>>
    BY DEF EndsWith, Answers, Fail, podVars
<1>2. req[s] \in Requests /\ NoRequest \in Requests /\ NoRequest.stage = "free"
    BY DEF AuthInv, TypeOK, NoRequest, Requests, Codes
<1>3. /\ answer' \in Requests /\ answer'.code = c /\ answer'.as = p
      /\ answer'.ip = req[s].ip /\ answer'.from = req[s].from /\ answer'.route = req[s].route
      /\ answer'.cred = req[s].cred /\ answer'.claim = req[s].claim
      /\ answer'.waited = req[s].waited
  <2> DEFINE q == req[s]
  <2>1. q \in Requests /\ answer' = [q EXCEPT !.code = c, !.as = p]
    BY <1>2 DEF EndsWith, Answers, Fail
  <2> HIDE DEF q
  <2>3. /\ answer'.code = c /\ answer'.as = p
        /\ answer'.ip = q.ip /\ answer'.from = q.from /\ answer'.route = q.route
        /\ answer'.cred = q.cred /\ answer'.claim = q.claim /\ answer'.waited = q.waited
    BY <2>1 DEF Requests
  <2>2. answer' \in Requests
    <3>1. answer' = [stage |-> q.stage, route |-> q.route, from |-> q.from, ip |-> q.ip,
                     cred |-> q.cred, claim |-> q.claim, code |-> c, as |-> p,
                     waited |-> q.waited]
      BY <2>1 DEF Requests
    <3>2. /\ q.stage \in {"free", "admitted", "resolving"} /\ q.route \in {"connect", "model"}
          /\ q.from \in Pods \cup {NoPod} /\ q.ip \in IPs \cup {NoIP}
          /\ q.cred \in {"absent", "wrong", "right"} /\ q.claim \in Runs \cup {NoPod}
          /\ q.waited \in BOOLEAN
      BY <2>1 DEF Requests
    <3> QED
      BY <3>1, <3>2 DEF Requests
  <2> QED
    BY <2>2, <2>3 DEF q
<1>4. req[s].ip \in IPs /\ req[s].from \in held[req[s].ip]
    BY DEF AuthInv, RequestsAreTrue
<1>5. tokens' \in [IPs -> 0 .. Burst] /\ failed' \in [IPs -> Nat] /\ refilled' \in [IPs -> Nat]
  <2>1. CASE UNCHANGED limVars
    BY <2>1 DEF AuthInv, TypeOK, limVars
  <2>2. CASE Fail(s, c)
    <3>1. tokens' = [tokens EXCEPT ![req[s].ip] =
                        IF tokens[req[s].ip] > 0 THEN tokens[req[s].ip] - 1 ELSE 0]
        BY <2>2 DEF Fail, Allow, AuthInv, TypeOK
    <3>2. (IF tokens[req[s].ip] > 0 THEN tokens[req[s].ip] - 1 ELSE 0) \in 0 .. Burst
        BY <1>4, BudgetTypes DEF AuthInv
    <3>3. failed[req[s].ip] + 1 \in Nat
        BY <1>4 DEF AuthInv, TypeOK
    <3> QED
        BY <2>2, <3>1, <3>2, <3>3 DEF Fail, AuthInv, TypeOK
  <2> QED
    BY <2>1, <2>2 DEF EndsWith
<1>6. TypeOK'
    BY <1>1, <1>2, <1>3, <1>5 DEF AuthInv, TypeOK
<1>7. AddressesAreTrue'
    BY <1>1 DEF AuthInv, AddressesAreTrue
<1>8. RequestsAreTrue'
  <2>1. req'[s].stage = "free" /\ \A t \in Slots : t # s => req'[t] = req[t]
    BY <1>1, <1>2 DEF AuthInv, TypeOK
  <2> QED
    BY <1>1, <2>1 DEF AuthInv, RequestsAreTrue
<1>9. AnswerIsTrue'
    BY <1>1, <1>3, <1>4 DEF IsDue, AnswerIsTrue, IdentityIsEarned, FirstRequestWaits
<1>10. BudgetIsKept'
  <2>1. CASE UNCHANGED limVars
    BY <1>1, <2>1, FreeOfCharge
  <2>2. CASE Fail(s, c)
    BY <1>1, <2>2, Charged DEF Fail
  <2> QED
    BY <2>1, <2>2 DEF EndsWith
<1> QED
    BY <1>6, <1>7, <1>8, <1>9, <1>10 DEF AuthInv

\* A request that stays in flight, further on.
LEMMA StaysStep ==
    ASSUME AuthInv, NEW s \in Slots, NEW r \in Requests, req[s].stage # "free",
           req' = [req EXCEPT ![s] = r], r.stage # "free",
           r.ip = req[s].ip, r.from = req[s].from, Sensible(r),
           r.stage = "resolving" /\ r.route = "connect" => RightSecret(r),
           UNCHANGED <<podVars, cache, answer, limVars, sent>>
    PROVE  AuthInv'
<1>1. req'[s] = r /\ \A t \in Slots : t # s => req'[t] = req[t]
    BY DEF AuthInv, TypeOK
<1>2. UNCHANGED <<holder, held, pod, cache, answer, tokens, failed, refilled, sent>>
    BY DEF podVars, limVars
<1>3. TypeOK' /\ AddressesAreTrue' /\ AnswerIsTrue'
    BY <1>2 DEF AuthInv, TypeOK, AddressesAreTrue, AnswerIsTrue, IdentityIsEarned,
                FirstRequestWaits
<1>4. RequestsAreTrue'
    BY <1>1, <1>2 DEF AuthInv, RequestsAreTrue
<1>5. \A ip \in IPs : InFlight(ip)' = InFlight(ip)
    BY <1>1 DEF InFlight
<1>6. BudgetIsKept'
    BY <1>2, <1>5 DEF AuthInv, BudgetIsKept, Unpaid, Rounds
<1> QED
    BY <1>3, <1>4, <1>6 DEF AuthInv

\* A request that goes on to the lookup has shown its credential; a wrong one costs a token.
LEMMA CheckCredentialStep ==
    ASSUME AuthInv, NEW s \in Slots, CheckCredential(s)
    PROVE  AuthInv'
<1>1. /\ req[s].stage = "admitted" /\ UNCHANGED <<podVars, cache, sent>>
      /\ req[s] \in Requests /\ Sensible(req[s])
    BY DEF CheckCredential, AuthInv, TypeOK, RequestsAreTrue
<1>2. 407 \in Codes /\ IsDue(req[s], 407, NoPod)
    BY DEF Codes, IsDue
<1>3. CASE /\ req[s].route = "model" \/ RightSecret(req[s])
           /\ req' = [req EXCEPT ![s].stage = "resolving"]
           /\ UNCHANGED <<answer, limVars>>
  <2> DEFINE r == [req[s] EXCEPT !.stage = "resolving"]
  <2>1. /\ r \in Requests /\ req' = [req EXCEPT ![s] = r] /\ r.stage = "resolving"
        /\ r.ip = req[s].ip /\ r.from = req[s].from /\ r.route = req[s].route
        /\ r.cred = req[s].cred /\ r.claim = req[s].claim
    BY <1>1, <1>3 DEF Requests
  <2> HIDE DEF r
  <2>2. Sensible(r) /\ (r.stage = "resolving" /\ r.route = "connect" => RightSecret(r))
    BY <1>1, <1>3, <2>1 DEF Sensible, RightSecret
  <2> QED
    BY <1>1, <1>3, <2>1, <2>2, StaysStep
<1>4. CASE Answers(s, 407, NoPod) /\ UNCHANGED limVars
    BY <1>1, <1>2, <1>4, AnswersStep DEF EndsWith
<1>5. CASE Fail(s, 407)
    BY <1>1, <1>2, <1>5, AnswersStep DEF EndsWith
<1> QED
    BY <1>3, <1>4, <1>5 DEF CheckCredential

\* The one pod the cache shows had the address, and what it is taken for was claimed with the
\* run's credential; a first request whose pod is the only one ever there agrees.
LEMMA ResolveStep ==
    ASSUME AuthInv, NEW s \in Slots, Resolve(s)
    PROVE  AuthInv'
<1>1. PICK p \in Pods :
        /\ ByPodIP(req[s].ip) = {p}
        /\ \/ /\ Agrees(req[s], p)
              /\ Answers(s, 200, IF req[s].route = "connect" THEN req[s].claim ELSE p)
              /\ UNCHANGED limVars
           \/ ~Agrees(req[s], p) /\ Fail(s, 403)
    BY DEF Resolve
<1>2. /\ req[s].stage = "resolving" /\ UNCHANGED <<podVars, cache, sent>>
      /\ req[s] \in Requests /\ Sensible(req[s]) /\ req[s].ip \in IPs
      /\ req[s].route = "connect" => RightSecret(req[s])
    BY DEF Resolve, AuthInv, TypeOK, RequestsAreTrue
<1>3. p \in held[req[s].ip]
    BY <1>1, <1>2, ShownHadIt
<1>4. 200 \in Codes /\ 403 \in Codes
    BY DEF Codes
<1>5. CASE /\ Agrees(req[s], p) /\ UNCHANGED limVars
           /\ Answers(s, 200, IF req[s].route = "connect" THEN req[s].claim ELSE p)
  <2>1. p \in Runs /\ (req[s].route = "connect" => p = req[s].claim)
    BY <1>5 DEF Agrees
  <2>2. EndsWith(s, 200, p)
    BY <1>5, <2>1 DEF EndsWith
  <2>3. IsDue(req[s], 200, p)
    BY <1>2, <1>3, <2>1 DEF IsDue, Sensible, RightSecret
  <2> QED
    BY <1>2, <1>4, <2>1, <2>2, <2>3, AnswersStep
<1>6. CASE ~Agrees(req[s], p) /\ Fail(s, 403)
  <2>1. req[s].cred = "right" => req[s].claim \in Runs
    BY <1>2, HoldsAssumption DEF Sensible, AuthInv, RequestsAreTrue, TypeOK
  <2>2. IsDue(req[s], 403, NoPod)
    BY <1>3, <1>6, <2>1 DEF IsDue, Agrees
  <2> QED
    BY <1>2, <1>4, <1>6, <2>2, AnswersStep DEF EndsWith
<1> QED
    BY <1>1, <1>5, <1>6

\* A lookup that is given up, or whose wait is over, settles on no identity.
LEMMA WaitStep ==
    ASSUME AuthInv, NEW s \in Slots, GiveUp(s) \/ WaitEnds(s)
    PROVE  AuthInv'
<1>1. /\ req[s].stage = "resolving" /\ UNCHANGED <<podVars, cache, sent>>
      /\ req[s] \in Requests /\ Sensible(req[s])
      /\ req[s].route = "connect" => RightSecret(req[s])
    BY DEF GiveUp, WaitEnds, AuthInv, TypeOK, RequestsAreTrue
<1>2. CASE GiveUp(s)
  <2>1. 403 \in Codes /\ IsDue(req[s], 403, NoPod)
    BY <1>2 DEF Codes, IsDue, GiveUp, WaitIsOver
  <2> QED
    BY <1>1, <1>2, <2>1, AnswersStep DEF GiveUp, EndsWith
<1>3. CASE WaitEnds(s)
  <2> DEFINE r == [req[s] EXCEPT !.waited = TRUE]
  <2>1. /\ r \in Requests /\ req' = [req EXCEPT ![s] = r] /\ r.stage = "resolving"
        /\ r.ip = req[s].ip /\ r.from = req[s].from /\ r.route = req[s].route
        /\ r.cred = req[s].cred /\ r.claim = req[s].claim
    BY <1>1, <1>3 DEF Requests, WaitEnds
  <2> HIDE DEF r
  <2>2. Sensible(r) /\ (r.stage = "resolving" /\ r.route = "connect" => RightSecret(r))
    BY <1>1, <2>1 DEF Sensible, RightSecret
  <2> QED
    BY <1>1, <1>3, <2>1, <2>2, StaysStep DEF WaitEnds
<1> QED
    BY <1>2, <1>3

\* A token given back allows another round.
LEMMA RefillStep ==
    ASSUME AuthInv, NEW ip \in IPs, Refill(ip)
    PROVE  AuthInv'
<1>1. /\ tokens' = [tokens EXCEPT ![ip] = @ + 1] /\ refilled' = [refilled EXCEPT ![ip] = @ + 1]
      /\ tokens[ip] < Burst /\ UNCHANGED <<holder, held, pod, cache, req, answer, failed, sent>>
    BY DEF Refill, podVars
<1>2. TypeOK'
  <2>1. tokens[ip] + 1 \in 0 .. Burst /\ refilled[ip] + 1 \in Nat
    BY <1>1, BudgetTypes DEF AuthInv
  <2> QED
    BY <1>1, <2>1 DEF AuthInv, TypeOK
<1>3. AddressesAreTrue' /\ RequestsAreTrue' /\ AnswerIsTrue'
    BY <1>1 DEF AuthInv, AddressesAreTrue, RequestsAreTrue, AnswerIsTrue, IdentityIsEarned,
                FirstRequestWaits
<1>4. BudgetIsKept'
  <2> SUFFICES ASSUME NEW j \in IPs
               PROVE  IF tokens'[j] > 0 THEN Unpaid(j)' <= Rounds(refilled'[j])
                      ELSE Unpaid(j)' + Cardinality(InFlight(j)) <= Rounds(refilled'[j] + 1)
    BY <1>1 DEF BudgetIsKept, Rounds, InFlight
  <2>1. IF tokens[j] > 0 THEN Unpaid(j) <= Rounds(refilled[j])
        ELSE Unpaid(j) + Cardinality(InFlight(j)) <= Rounds(refilled[j] + 1)
    BY DEF AuthInv, BudgetIsKept
  <2>2. /\ tokens[j] \in 0 .. Burst /\ failed[j] \in Nat /\ refilled[j] \in Nat
        /\ Burst \in Nat /\ Unpaid(j) \in Int
        /\ Unpaid(j) = failed[j] - Burst - refilled[j] + tokens[j]
    BY BudgetTypes DEF AuthInv
  <2>3. Unpaid(j)' = failed[j] - Burst - refilled'[j] + tokens'[j]
    BY <1>1 DEF Unpaid
  <2>4. CASE j # ip
    <3>1. tokens'[j] = tokens[j] /\ refilled'[j] = refilled[j]
      BY <1>1, <2>4 DEF AuthInv, TypeOK
    <3> QED
      BY <2>1, <2>2, <2>3, <3>1
  <2>5. CASE j = ip
    <3>1. tokens'[j] = tokens[j] + 1 /\ refilled'[j] = refilled[j] + 1
      BY <1>1, <2>5 DEF AuthInv, TypeOK
    <3>2. Unpaid(j)' = Unpaid(j) /\ tokens'[j] > 0
      BY <2>2, <2>3, <3>1
    <3>3. /\ Rounds(refilled[j]) \in Nat /\ Rounds(refilled[j] + 1) \in Nat
          /\ Rounds(refilled[j] + 1) >= Rounds(refilled[j])
      BY <2>2, RoundsAre, SlotsAre
    <3>4. Cardinality(InFlight(j)) \in Nat
      BY InFlightIs
    <3>5. Unpaid(j) <= Rounds(refilled[j] + 1)
      BY <2>1, <2>2, <3>3, <3>4
    <3> QED
      BY <3>1, <3>2, <3>5
  <2> QED
    BY <2>4, <2>5
<1> QED
    BY <1>2, <1>3, <1>4 DEF AuthInv

\* A restart forgets requests and budgets, and lists the pods as they are.
LEMMA RebootStep == ASSUME AuthInv, Reboot PROVE AuthInv'
<1>1. /\ cache' = pod /\ req' = [s \in Slots |-> NoRequest] /\ answer' = NoRequest
      /\ tokens' = [ip \in IPs |-> Burst] /\ failed' = [ip \in IPs |-> 0]
      /\ refilled' = [ip \in IPs |-> 0] /\ UNCHANGED <<holder, held, pod, sent>>
    BY DEF Reboot, podVars
<1>2. NoRequest \in Requests /\ NoRequest.stage = "free" /\ NoRequest.code = 0
    BY DEF NoRequest, Requests, Codes
<1>3. TypeOK'
    BY <1>1, <1>2, BurstAssumption DEF AuthInv, TypeOK
<1>4. AddressesAreTrue'
    BY <1>1 DEF AuthInv, AddressesAreTrue
<1>5. RequestsAreTrue' /\ AnswerIsTrue'
    BY <1>1, <1>2 DEF RequestsAreTrue, AnswerIsTrue, IdentityIsEarned, FirstRequestWaits
<1>6. BudgetIsKept'
  <2> SUFFICES ASSUME NEW ip \in IPs
               PROVE  tokens'[ip] > 0 /\ Unpaid(ip)' <= Rounds(refilled[ip])'
    BY DEF BudgetIsKept
  <2>1. tokens'[ip] = Burst /\ failed'[ip] = 0 /\ refilled'[ip] = 0 /\ Burst \in Nat \ {0}
    BY <1>1, BurstAssumption
  <2>2. Unpaid(ip)' = 0
    BY <2>1 DEF Unpaid
  <2>3. Rounds(refilled[ip])' = Rounds(0)
    BY <2>1 DEF Rounds
  <2> QED
    BY <2>1, <2>2, <2>3, RoundsAre
<1> QED
    BY <1>3, <1>4, <1>5, <1>6 DEF AuthInv

\* AuthInv is inductive: every step keeps it.
LEMMA AuthStepHolds == AuthInv /\ [Next]_vars => AuthInv'
<1> SUFFICES ASSUME AuthInv, [Next]_vars PROVE AuthInv'
    OBVIOUS
<1>1. CASE UNCHANGED vars
  <2>1. UNCHANGED <<holder, held, pod, cache, req, answer, limVars, sent>>
    BY <1>1 DEF vars, podVars
  <2>2. TypeOK' /\ AddressesAreTrue'
    BY <2>1 DEF AuthInv, TypeOK, AddressesAreTrue, limVars
  <2>3. held' \in [IPs -> SUBSET Pods] /\ \A ip \in IPs : held[ip] \subseteq held'[ip]
    BY <2>1 DEF AuthInv, TypeOK
  <2> QED
    BY <2>1, <2>2, <2>3, AddressesMove DEF AuthInv
<1> QED
    BY <1>1, PodStartsStep, PodStopsStep, StatusStep, ArriveStep, CheckCredentialStep,
       ResolveStep, WaitStep, RefillStep, RebootStep DEF Next, Kubelet, Handle

-----------------------------------------------------------------------------
(* Who is taken for whom *)

\* The invariant is inductive: it holds in every reachable state.
THEOREM AuthInvariance == Spec => []AuthInv
BY AuthInitHolds, AuthStepHolds, PTL DEF Spec

\* An identity is given only at an address its pod had and, on the CONNECT route, to a caller
\* that holds the run's credential, however far the cache lags behind.
THEOREM CallersAreWhoTheySay == Spec => []IdentityIsEarned
<1>1. AuthInv => IdentityIsEarned
    BY DEF AuthInv, AnswerIsTrue
<1> QED
    BY <1>1, AuthInvariance, PTL

\* A run's first request is not refused before the wait for its pod is over.
THEOREM FirstRequestsWait == Spec => []FirstRequestWaits
<1>1. AuthInv => FirstRequestWaits
    BY DEF AuthInv, AnswerIsTrue
<1> QED
    BY <1>1, AuthInvariance, PTL

\* An address gets wrong what its tokens pay for, and the requests in flight at each of the
\* moments they ran out, however its requests interleave.
THEOREM GuessesAreBounded == Spec => []FailuresAreBounded
BY BudgetIsTheBound, AuthInvariance, PTL

\* A cache that has caught up takes no finished pod for the holder of a recycled address,
\* and misses none.
THEOREM CaughtUpIsTrue == Spec => []SettledCacheIsTrue
<1>1. AuthInv => SettledCacheIsTrue
  <2> SUFFICES ASSUME AuthInv, Settled, NEW ip \in IPs
               PROVE  ByPodIP(ip) = IF holder[ip] = NoPod THEN {} ELSE {holder[ip]}
    BY DEF SettledCacheIsTrue
  <2>1. ASSUME NEW p \in Pods
        PROVE  HoldsIP(cache[p]) /\ cache[p].ip = ip <=> holder[ip] = p
    <3>1. cache[p] = pod[p] /\ pod[p].phase # "stopped"
      BY DEF Settled
    <3>2. ASSUME HoldsIP(cache[p]), cache[p].ip = ip PROVE holder[ip] = p
      BY <3>1, <3>2, PodsAssumption DEF HoldsIP, AuthInv, AddressesAreTrue
    <3>3. ASSUME holder[ip] = p PROVE HoldsIP(cache[p]) /\ cache[p].ip = ip
      BY <3>1, <3>3, PodsAssumption DEF HoldsIP, Settled, AuthInv, AddressesAreTrue
    <3> QED
      BY <3>2, <3>3
  <2>2. holder[ip] \in Pods \cup {NoPod}
    BY DEF AuthInv, TypeOK
  <2> QED
    BY <2>1, <2>2, PodsAssumption DEF ByPodIP
<1> QED
    BY <1>1, AuthInvariance, PTL
=============================================================================
