--------------------------- MODULE ProxyPortProofs ---------------------------
(***************************************************************************)
(* Proofs about the proxy's port, for any runs, connections, hosts,        *)
(* certificates, credentials and headers: whose token leaves, with which   *)
(* request and for which host.                                             *)
(***************************************************************************)
EXTENDS ProxyPort, SequenceTheorems, WellFoundedInduction, TLAPS

-----------------------------------------------------------------------------
(* Names and patterns *)

\* A suffix, position by position.
LEMMA SuffixIs ==
    ASSUME NEW A, NEW B, NEW s \in Seq(A), NEW t \in Seq(B)
    PROVE  IsSuffix(s, t) <=> /\ Len(s) <= Len(t)
                              /\ \A i \in 1 .. Len(s) : s[i] = t[i + Len(t) - Len(s)]
<1> DEFINE r == Reverse(s)
           q == Reverse(t)
<1>1. /\ r = [i \in 1 .. Len(s) |-> s[Len(s) - i + 1]]
      /\ q = [i \in 1 .. Len(t) |-> t[Len(t) - i + 1]]
    BY DEF Reverse
<1>2. r \in Seq(A) /\ Len(r) = Len(s) /\ q \in Seq(B) /\ Len(q) = Len(t)
    BY <1>1
<1>3. ASSUME Len(s) <= Len(t)
      PROVE  SubSeq(r, 1, Len(r)) = SubSeq(q, 1, Len(r)) <=>
                 \A j \in 1 .. Len(s) : r[j] = q[j]
    BY <1>2, <1>3
<1>4. ASSUME Len(s) <= Len(t)
      PROVE  (\A j \in 1 .. Len(s) : r[j] = q[j]) <=>
             \A i \in 1 .. Len(s) : s[i] = t[i + Len(t) - Len(s)]
  <2>1. ASSUME \A j \in 1 .. Len(s) : r[j] = q[j], NEW i \in 1 .. Len(s)
        PROVE  s[i] = t[i + Len(t) - Len(s)]
    <3> DEFINE j == Len(s) - i + 1
    <3>1. j \in 1 .. Len(s) /\ j \in 1 .. Len(t)
        BY <1>4
    <3>2. r[j] = s[Len(s) - j + 1] /\ q[j] = t[Len(t) - j + 1] /\ r[j] = q[j]
        BY <1>1, <2>1, <3>1
    <3>3. Len(s) - j + 1 = i /\ Len(t) - j + 1 = i + Len(t) - Len(s)
        OBVIOUS
    <3> QED
        BY <3>2, <3>3
  <2>2. ASSUME \A i \in 1 .. Len(s) : s[i] = t[i + Len(t) - Len(s)], NEW j \in 1 .. Len(s)
        PROVE  r[j] = q[j]
    <3>1. Len(s) - j + 1 \in 1 .. Len(s) /\ j \in 1 .. Len(t)
        BY <1>4
    <3> QED
        BY <1>1, <2>2, <3>1
  <2> QED
    BY <2>1, <2>2
<1> QED
    BY <1>2, <1>3, <1>4 DEF IsSuffix, IsPrefix

\* A pattern's host is the rest of the pattern behind one label, or part of one.
LEMMA LabelBefore ==
    ASSUME NEW A, NEW B, NEW s \in Seq(A), NEW t \in Seq(B)
    PROVE  IsLabelBefore(t, s) <=>
               /\ Len(s) < Len(t)
               /\ \A i \in 1 .. Len(s) : s[i] = t[i + Len(t) - Len(s)]
               /\ \A k \in 1 .. Len(t) - Len(s) : t[k] # "."
BY SuffixIs DEF IsLabelBefore

\* NewCreds's one sample stands for every host of its pattern: a SAN that covers the sample,
\* and is not the sample itself, covers them all.
LEMMA OneSampleIsEnough ==
    ASSUME NEW A, NEW B, NEW C,
           NEW pat \in Seq(A), NEW san \in Seq(B), NEW name \in Seq(C),
           pat # <<>>, san # <<>>, Head(pat) = "*" => san # Sample(pat),
           Covers(san, Sample(pat)), MatchHost(pat, name)
    PROVE  Covers(san, name)
<1>1. CASE Head(pat) # "*"
    BY <1>1 DEF Sample, MatchHost
<1>2. CASE Head(pat) = "*"
  <2> DEFINE p == Tail(pat)
             s == Tail(san)
             x == Sample(pat)
  <2>1. /\ p \in Seq(A) /\ s \in Seq(B) /\ x = <<"x">> \o p
        /\ x \in Seq(A \cup {"x"}) /\ Len(x) = Len(p) + 1
        /\ \A i \in 1 .. Len(p) : x[i + 1] = p[i]
    BY <1>2 DEF Sample
  <2>2. IsLabelBefore(name, p) /\ Head(san) = "*" /\ IsLabelBefore(x, s)
    BY <1>2 DEF MatchHost, Covers
  <2> HIDE DEF p, s, x
  <2>3. /\ Len(p) < Len(name)
        /\ \A i \in 1 .. Len(p) : p[i] = name[i + Len(name) - Len(p)]
        /\ \A k \in 1 .. Len(name) - Len(p) : name[k] # "."
    <3>1. p \in Seq(A) /\ name \in Seq(C) /\ IsLabelBefore(name, p)
        BY <2>1, <2>2
    <3> QED
        BY <3>1, LabelBefore
  <2>4. /\ Len(s) < Len(x)
        /\ \A i \in 1 .. Len(s) : s[i] = x[i + Len(x) - Len(s)]
        /\ \A k \in 1 .. Len(x) - Len(s) : x[k] # "."
    <3>1. s \in Seq(B) /\ x \in Seq(A \cup {"x"}) /\ IsLabelBefore(x, s)
        BY <2>1, <2>2
    <3> QED
        BY <3>1, LabelBefore
  <2>5. Len(s) < Len(name)
    BY <2>1, <2>3, <2>4
  <2>6. ASSUME NEW i \in 1 .. Len(s)
        PROVE  s[i] = name[i + Len(name) - Len(s)]
    <3> DEFINE j == i + Len(p) - Len(s)
    <3>1. j \in 1 .. Len(p) /\ j + 1 = i + Len(x) - Len(s)
        BY <2>1, <2>3, <2>4
    <3>2. s[i] = x[j + 1] /\ x[j + 1] = p[j] /\ p[j] = name[j + Len(name) - Len(p)]
        BY <2>1, <2>3, <2>4, <3>1
    <3>3. j + Len(name) - Len(p) = i + Len(name) - Len(s)
        BY <2>1
    <3> QED
        BY <3>2, <3>3
  <2>7. ASSUME NEW k \in 1 .. Len(name) - Len(s)
        PROVE  name[k] # "."
    <3>1. CASE k <= Len(name) - Len(p)
        BY <2>1, <2>3, <2>4, <3>1
    <3>2. CASE k > Len(name) - Len(p)
      <4> DEFINE j == k - (Len(name) - Len(p))
      <4>1. j \in 1 .. Len(p) /\ j + 1 \in 1 .. Len(x) - Len(s)
        BY <2>1, <2>3, <2>4, <3>2
      <4>2. x[j + 1] # "." /\ x[j + 1] = p[j] /\ p[j] = name[j + Len(name) - Len(p)]
        BY <2>1, <2>3, <2>4, <4>1
      <4>3. j + Len(name) - Len(p) = k
        BY <2>1
      <4> QED
        BY <4>2, <4>3
    <3> QED
        BY <2>1, <3>1, <3>2
  <2>8. IsLabelBefore(name, s)
    BY <2>1, <2>5, <2>6, <2>7, LabelBefore
  <2> QED
    BY <2>2, <2>8 DEF Covers, s
<1> QED
    BY <1>1, <1>2

\* So what the certificate does not cover, no credential's pattern matches.
LEMMA UncoveredIsUndue ==
    ASSUME \A cr \in Credentials : \A pat \in cr.hosts :
               Head(pat) = "*" => Sample(pat) \notin SANs,
           NEW h \in Spelled, ~Intercepts(h)
    PROVE  ~Credentialed(h)
<1> SUFFICES ASSUME NEW cr \in Credentials, NEW pat \in cr.hosts, MatchHost(pat, h.name)
             PROVE  FALSE
    BY DEF Credentialed
<1>1. h.name \in Names
    BY DEF Spelled
<1>2. /\ pat # <<>> /\ pat \in Seq(Range(pat))
      /\ h.name \in Seq(Range(h.name))
    BY <1>1, NameAssumption
<1>3. PICK san \in SANs : Covers(san, Sample(pat))
    BY BootAssumption DEF NewCredsAccepts
<1>4. san # <<>> /\ san \in Seq(Range(san))
    BY NameAssumption
<1>5. Covers(san, h.name)
    BY <1>2, <1>3, <1>4, OneSampleIsEnough
<1> QED
    BY <1>5 DEF Intercepts, Normal

-----------------------------------------------------------------------------
(* Paths *)

\* A set of naturals that is not empty has a least member.
LEMMA LeastOf ==
    ASSUME NEW T \in SUBSET Nat, T # {}
    PROVE  \E n \in T : \A m \in T : n <= m
<1> DEFINE R == OpToRel(<, Nat)
<1>1. \A m, n \in Nat : <<m, n>> \in R <=> m < n
    BY DEF OpToRel
<1>2. IsWellFoundedOn(R, Nat)
    BY NatLessThanWellFounded
<1> HIDE DEF R
<1>3. PICK n \in T : \A m \in T : ~(<<m, n>> \in R)
    BY <1>2, WFMin
<1>4. n \in Nat /\ \A m \in T : m \in Nat /\ ~(m < n)
    BY <1>1, <1>3
<1>5. \A m \in T : n <= m
    BY <1>4
<1> QED
    BY <1>5

\* A path with nothing to resolve in it is resolved to itself, however long it is.
LEMMA CleanIsResolved ==
    ASSUME NEW S, NEW path \in Seq(S), IsClean(path)
    PROVE  Resolved(path) = path
<1> DEFINE N == Len(path)
           F(f) == [n \in 0 .. N |-> IF n = 0 THEN <<>> ELSE Taken(f[n - 1], path[n])]
           prefix == [n \in 0 .. N |-> SubSeq(path, 1, n)]
           seen == CHOOSE f : f = F(f)
<1>1. Resolved(path) = seen[N]
    BY DEF Resolved
<1>2. ASSUME NEW n \in 1 .. N
      PROVE  Taken(SubSeq(path, 1, n - 1), path[n]) = SubSeq(path, 1, n)
  <2>1. n \in DOMAIN path
    OBVIOUS
  <2>3. path[n] \notin {"", ".", ".."}
    BY <2>1 DEF IsClean
  <2>2. Append(SubSeq(path, 1, n - 1), path[n]) = SubSeq(path, 1, n)
    OBVIOUS
  <2> QED
    BY <2>3, <2>2 DEF Taken
<1>3. prefix = F(prefix)
  <2>1. SubSeq(path, 1, 0) = <<>>
    OBVIOUS
  <2>2. \A n \in 0 .. N : prefix[n] = F(prefix)[n]
    BY <1>2, <2>1
  <2> QED
    BY <2>2
<1>4. seen = F(seen)
    BY <1>3
<1> HIDE DEF seen
<1>5. \A n \in 0 .. N : seen[n] = SubSeq(path, 1, n)
  <2> DEFINE T == {n \in 0 .. N : seen[n] # SubSeq(path, 1, n)}
  <2> SUFFICES ASSUME T # {} PROVE FALSE
    OBVIOUS
  <2>0. T \in SUBSET Nat
    OBVIOUS
  <2>1. PICK n \in T : \A m \in T : n <= m
    BY <2>0, LeastOf
  <2>2. n # 0
    BY <1>4, <2>1
  <2>3. seen[n - 1] = SubSeq(path, 1, n - 1)
    BY <2>1, <2>2
  <2>4. seen[n] = Taken(seen[n - 1], path[n])
    BY <1>4, <2>2
  <2> QED
    BY <1>2, <2>2, <2>3, <2>4
<1> QED
    BY <1>1, <1>5

\* Of a path, rewriteVertex makes a path.
LEMMA RewrittenIsPath ==
    ASSUME NEW path \in Paths, NEW up \in Rewritten(path)
    PROVE  up \in Seq(Range(up))
<1> DEFINE S == Range(path) \cup {"v1"}
           named == {k \in 2 .. Len(path) : path[k] # ""}
<1>1. path \in Seq(S) /\ Len(path) \in Nat /\ "v1" \in S
    BY PathsAssumption
<1> HIDE DEF S
<1>2. /\ Appended(path) = IF named = {} THEN <<>> ELSE SubSeq(path, Min(named), Len(path))
      /\ named \subseteq 2 .. Len(path)
    BY DEF Appended
<1> HIDE DEF named
<1>3. Appended(path) \in Seq(S)
  <2>1. CASE named = {}
    BY <1>2, <2>1
  <2>2. CASE named # {}
    <3>1. \A k \in 2 .. Len(path) : k \in Nat /\ k \in 1 .. Len(path)
        BY <1>1
    <3>2. named \in SUBSET Nat
        BY <1>2, <3>1
    <3>3. PICK k \in named : \A m \in named : k <= m
        BY <2>2, <3>2, LeastOf
    <3> DEFINE m == Min(named)
    <3>4. m \in named
        BY <3>3 DEF Min
    <3>5. m \in 1 .. Len(path) /\ Appended(path) = SubSeq(path, m, Len(path))
        BY <1>2, <2>2, <3>1, <3>4
    <3> HIDE DEF m
    <3>6. SubSeq(path, m, Len(path)) \in Seq(S)
        BY <1>1, <3>5
    <3> QED
        BY <3>5, <3>6
  <2> QED
    BY <2>1, <2>2
<1>4. <<"v1">> \o Appended(path) \in Seq(S)
  <2>1. <<"v1">> \in Seq(S)
    BY <1>1
  <2> QED
    BY <1>3, <2>1, ConcatProperties
<1>5. Versioned(Appended(path)) \in Seq(S)
    BY <1>4, <1>3 DEF Versioned
<1>6. up \in Seq(S)
    BY <1>5 DEF Rewritten
<1> QED
    BY <1>6 DEF Range

-----------------------------------------------------------------------------
(* The connections and the minter *)

\* The idle connection's request is of the type of the others.
LEMMA NoRequestIsOne == NoRequest \in Request
BY TimeAssumption DEF NoRequest, Request, NoHeader, Headers, Halves

\* So is the connection that is to come, and its tunnel.
LEMMA NewIsOne == NewConnection \in Connection /\ InOrder(NewConnection) /\ NewTunnel \in Tunnel
BY NoRequestIsOne DEF NewConnection, Connection, Stages, InOrder, NewTunnel, Tunnel, Ends

\* No connection is open, no token cached.
LEMMA ConnInitHolds == Init => ConnInv
<1> SUFFICES ASSUME Init PROVE ConnInv
    OBVIOUS
<1>1. conn \in [Conns -> Connection] /\ tun \in [Conns -> Tunnel]
    BY NewIsOne DEF Init
<1>2. TypeOK
    BY <1>1, TimeAssumption DEF Init, TypeOK, Token, NoToken
<1>3. ASSUME NEW c \in Conns
      PROVE  InOrder(conn[c]) /\ Ended(tun[c]) /\ conn[c].stage = "new" /\ lock # c
    BY NobodyAssumption, NewIsOne DEF Init, NewConnection, NewTunnel, Ended
<1> QED
    BY <1>2, <1>3 DEF ConnInv, Init

\* A step of one connection that neither takes the lock nor gives it back.
LEMMA QuietStep ==
    ASSUME ConnInv, NEW c \in Conns, NEW k \in Connection, InOrder(k),
           conn[c].stage # "minting", k.stage # "minting",
           conn' = [conn EXCEPT ![c] = k], UNCHANGED <<tun, minter, now>>
    PROVE  ConnInv'
<1>1. TypeOK'
    BY DEF ConnInv, TypeOK, minter
<1>2. conn'[c] = k /\ \A q \in Conns : q # c => conn'[q] = conn[q]
    BY DEF ConnInv, TypeOK
<1>3. ASSUME NEW q \in Conns
      PROVE  (/\ InOrder(conn[q]) /\ Ended(tun[q])
              /\ conn[q].stage = "minting" <=> lock = q
              /\ conn[q].stage = "minting" => ~Usable(conn[q].run))'
  <2>1. CASE q = c
      BY <1>2, <2>1 DEF ConnInv, minter
  <2>2. CASE q # c
      BY <1>2, <2>2 DEF ConnInv, Usable, minter
  <2> QED
      BY <2>1, <2>2
<1> QED
    BY <1>1, <1>3 DEF ConnInv, minter

\* A connection that is done with its request, and holds no lock, disturbs nobody: it reads
\* the next one, or is over.
LEMMA DoneStep ==
    ASSUME ConnInv, NEW c \in Conns, ReadsOn(c) \/ Closes(c),
           conn[c].stage \notin {"new", "calling", "minting"},
           UNCHANGED <<tun, minter, now>>
    PROVE  ConnInv'
<1>1. /\ conn \in [Conns -> Connection] /\ conn[c] \in Connection
      /\ conn[c].run \in Runs /\ conn[c].host \in Asked
    BY DEF ConnInv, TypeOK, InOrder
<1>2. CASE ReadsOn(c)
  <2> DEFINE k == [conn[c] EXCEPT !.stage = "reading", !.req = NoRequest]
  <2>1. /\ k \in Connection /\ conn' = [conn EXCEPT ![c] = k]
        /\ k.stage = "reading" /\ k.run = conn[c].run /\ k.host = conn[c].host
    BY <1>1, <1>2, NoRequestIsOne DEF ReadsOn, Connection, Stages
  <2> HIDE DEF k
  <2>2. InOrder(k)
    BY <1>1, <2>1 DEF InOrder
  <2> QED
    BY <2>1, <2>2, QuietStep
<1>3. CASE Closes(c)
    BY <1>3, NewIsOne, QuietStep DEF Closes, NewConnection
<1> QED
    BY <1>2, <1>3

\* The CONNECT decides by the certificate whether a tunnel is opened or a handshake begins.
LEMMA DispatchStep ==
    ASSUME ConnInv, NEW c \in Conns, Dispatch(c)
    PROVE  ConnInv'
<1>1. conn[c].stage = "new" /\ conn \in [Conns -> Connection] /\ conn[c] \in Connection
    BY DEF Dispatch, ConnInv, TypeOK
<1>2. CASE Closes(c)
    BY <1>1, <1>2, NewIsOne, QuietStep DEF Closes, NewConnection, Dispatch
<1>3. ASSUME NEW run \in Runs, NEW h \in Asked,
             conn' = [conn EXCEPT ![c].stage = IF Intercepts(h) THEN "handshake" ELSE "copying",
                                  ![c].run = run, ![c].host = h]
      PROVE  ConnInv'
  <2> DEFINE stage == IF Intercepts(h) THEN "handshake" ELSE "copying"
             k == [conn[c] EXCEPT !.stage = stage, !.run = run, !.host = h]
  <2>1. stage \in {"handshake", "copying"} /\ (stage = "copying" => ~Intercepts(h))
    OBVIOUS
  <2>2. conn' = [conn EXCEPT ![c] = k]
    BY <1>1, <1>3
  <2> HIDE DEF stage
  <2>3. k \in Connection /\ k.stage = stage /\ k.run = run /\ k.host = h
    BY <1>1, <2>1 DEF Connection, Stages
  <2> HIDE DEF k
  <2>4. InOrder(k)
    BY <2>1, <2>3 DEF InOrder
  <2> QED
    BY <1>1, <2>1, <2>2, <2>3, <2>4, QuietStep DEF Dispatch
<1> QED
    BY <1>2, <1>3 DEF Dispatch

\* A step of the tunnels alone.
LEMMA RetunnelStep ==
    ASSUME ConnInv, UNCHANGED <<conn, minter, now>>, tun' \in [Conns -> Tunnel],
           \A q \in Conns : Ended(tun'[q])
    PROVE  ConnInv'
<1>1. TypeOK'
    BY DEF ConnInv, TypeOK, minter
<1>2. (\A q \in Conns : /\ InOrder(conn[q])
                        /\ conn[q].stage = "minting" <=> lock = q
                        /\ conn[q].stage = "minting" => ~Usable(conn[q].run))'
    BY DEF ConnInv, Usable, minter
<1> QED
    BY <1>1, <1>2 DEF ConnInv, minter

\* The ends and the copiers of a tunnel.
LEMMA TunnelStep ==
    ASSUME ConnInv, NEW c \in Conns, HangsUp(c) \/ Dawdles(c) \/ Copiers(c)
    PROVE  ConnInv'
<1>1. UNCHANGED <<conn, minter, now>>
    BY DEF HangsUp, Dawdles, Copiers
<1>2. \E t \in Tunnel : tun' = [tun EXCEPT ![c] = t] /\ Ended(t)
  <2>1. tun \in [Conns -> Tunnel] /\ tun[c] \in Tunnel /\ Ended(tun[c])
    BY DEF ConnInv, TypeOK
  <2>2. CASE HangsUp(c)
    <3>1. CASE tun[c].up = "open" /\ tun' = [tun EXCEPT ![c].up = "eof"]
      <4>1. /\ [tun[c] EXCEPT !.up = "eof"] \in Tunnel
            /\ tun' = [tun EXCEPT ![c] = [tun[c] EXCEPT !.up = "eof"]]
        BY <2>1, <3>1 DEF Tunnel, Ends
      <4> QED
        BY <2>1, <3>1, <4>1 DEF Ended, Tunnel
    <3>2. CASE tun[c].down = "open" /\ tun' = [tun EXCEPT ![c].down = "eof"]
      <4>1. /\ [tun[c] EXCEPT !.down = "eof"] \in Tunnel
            /\ tun' = [tun EXCEPT ![c] = [tun[c] EXCEPT !.down = "eof"]]
        BY <2>1, <3>2 DEF Tunnel, Ends
      <4> QED
        BY <2>1, <3>2, <4>1 DEF Ended, Tunnel
    <3> QED
      BY <2>2, <3>1, <3>2 DEF HangsUp
  <2>3. CASE Copiers(c)
    <3>1. /\ OutEnds(tun[c]) \in Tunnel /\ Ended(OutEnds(tun[c]))
          /\ BackEnds(tun[c]) \in Tunnel /\ Ended(BackEnds(tun[c]))
        BY <2>1 DEF Tunnel, Ends, OutEnds, BackEnds, Ended
    <3> QED
        BY <2>1, <2>3, <3>1 DEF Copiers
  <2>4. CASE Dawdles(c)
    <3>1. PICK full \in SUBSET {"up", "down"} : tun' = [tun EXCEPT ![c].full = full]
      <4>1. PICK end \in {"up", "down"} :
                tun' = [tun EXCEPT ![c].full = IF end \in @ THEN @ \ {end} ELSE @ \cup {end}]
        BY <2>4 DEF Dawdles
      <4>2. tun[c].full \in SUBSET {"up", "down"}
        BY <2>1 DEF Tunnel
      <4> QED
        BY <2>1, <4>1, <4>2
    <3>2. /\ [tun[c] EXCEPT !.full = full] \in Tunnel
          /\ tun' = [tun EXCEPT ![c] = [tun[c] EXCEPT !.full = full]]
        BY <2>1, <3>1 DEF Tunnel
    <3> QED
        BY <2>1, <3>2 DEF Ended, Tunnel
  <2> QED
    BY <2>2, <2>3, <2>4
<1>3. tun' \in [Conns -> Tunnel] /\ \A q \in Conns : Ended(tun'[q])
    BY <1>2 DEF ConnInv, TypeOK
<1> QED
    BY <1>1, <1>3, RetunnelStep

\* A tunnel that is over makes room for a new connection.
LEMMA ReturnsStep ==
    ASSUME ConnInv, NEW c \in Conns, TunnelReturns(c)
    PROVE  ConnInv'
<1>1. /\ conn[c].stage = "copying" /\ UNCHANGED <<minter, now>>
      /\ conn' = [conn EXCEPT ![c] = NewConnection]
      /\ tun' = [tun EXCEPT ![c] = NewTunnel]
    BY DEF TunnelReturns, Closes
<1>2. /\ conn'[c] = NewConnection /\ \A q \in Conns : q # c => conn'[q] = conn[q]
      /\ tun'[c] = NewTunnel /\ \A q \in Conns : q # c => tun'[q] = tun[q]
    BY <1>1 DEF ConnInv, TypeOK
<1>3. TypeOK'
    BY <1>1, NewIsOne DEF ConnInv, TypeOK, minter
<1>4. ASSUME NEW q \in Conns
      PROVE  (/\ InOrder(conn[q]) /\ Ended(tun[q])
              /\ conn[q].stage = "minting" <=> lock = q
              /\ conn[q].stage = "minting" => ~Usable(conn[q].run))'
  <2>1. CASE q = c
    BY <1>1, <1>2, <2>1, NewIsOne DEF ConnInv, NewConnection, NewTunnel, Ended, minter
  <2>2. CASE q # c
    BY <1>1, <1>2, <2>2 DEF ConnInv, Usable, minter
  <2> QED
    BY <2>1, <2>2
<1> QED
    BY <1>1, <1>3, <1>4 DEF ConnInv, minter

\* What is sent goes with its request to where the connection was opened to.
LEMMA ForwardIs ==
    ASSUME ConnInv, NEW c \in Conns, NEW req \in Request, Forward(c, req),
           conn[c].stage \in {"reading", "locking", "minting"},
           MayLeave(req, conn[c].host, conn[c].run)
    PROVE  \E k \in Connection : /\ conn' = [conn EXCEPT ![c] = k] /\ InOrder(k)
                                 /\ k.stage = "forwarded"
<1> DEFINE k == [conn[c] EXCEPT !.stage = "forwarded", !.req = req]
<1>1. conn \in [Conns -> Connection] /\ conn[c] \in Connection /\ InOrder(conn[c])
    BY DEF ConnInv, TypeOK
<1>2. /\ k \in Connection /\ conn' = [conn EXCEPT ![c] = k]
      /\ k.stage = "forwarded" /\ k.req = req /\ k.run = conn[c].run /\ k.host = conn[c].host
    BY <1>1 DEF Forward, Connection, Stages
<1> HIDE DEF k
<1>3. InOrder(k)
    BY <1>1, <1>2 DEF InOrder
<1> QED
    BY <1>2, <1>3

\* What is done to a header that arrives: without a credential it may leave as it is, one
\* the proxy attaches replaces it, and so does one it asked the minter for.
LEMMA HeadersMayLeave ==
    ASSUME NEW hdr \in Carried
    PROVE  /\ ~Bears(hdr)
           /\ \A cr \in Credentials :
               /\ ~Wants(cr, hdr) => Presentable(hdr)
               /\ Wants(cr, hdr) => Presentable(Swapped(cr, hdr))
               /\ Swapped(cr, hdr) \in Headers
<1>1. hdr \in Headers /\ ~Bears(hdr)
    BY AskedAssumption, CarriedAssumption DEF Bears
<1>2. /\ "user" \in Replaceable(hdr) <=> hdr.shape \in {"basic", "token"} /\ hdr.user = "sentinel"
      /\ "pass" \in Replaceable(hdr) <=> hdr.shape \in {"basic", "token"} /\ hdr.pass = "sentinel"
    BY DEF Replaceable
<1>3. Replaceable(hdr) # {} <=> "user" \in Replaceable(hdr) \/ "pass" \in Replaceable(hdr)
    BY DEF Replaceable
<1>4. ASSUME NEW cr \in Credentials, ~Wants(cr, hdr)
      PROVE  Presentable(hdr)
    BY <1>1, <1>2, <1>3, <1>4, CarriedAssumption DEF Wants, Presentable, Headers, Halves
<1>5. ASSUME NEW cr \in Credentials, Wants(cr, hdr)
      PROVE  Presentable(Swapped(cr, hdr))
  <2>1. CASE cr.attach
    BY <2>1 DEF Swapped, Presentable
  <2>2. CASE ~cr.attach
    <3>1. hdr.shape \in {"basic", "token"}
        BY <1>2, <1>3, <1>5, <2>2 DEF Wants
    <3> QED
        BY <1>2, <2>2, <3>1 DEF Swapped, Presentable
  <2> QED
    BY <2>1, <2>2
<1>6. ASSUME NEW cr \in Credentials
      PROVE  Swapped(cr, hdr) \in Headers
    BY <1>1 DEF Swapped, Headers, Halves
<1> QED
    BY <1>1, <1>4, <1>5, <1>6

\* What a host is due is among the configured credentials.
LEMMA ForIsCredentials == \A h : For(h) \subseteq Credentials
BY DEF For

\* The next request of a connection: forwarded, refused, or held for a token.
LEMMA ReadRequestStep ==
    ASSUME ConnInv, NEW c \in Conns, ReadRequest(c)
    PROVE  ConnInv'
<1>1. /\ conn[c].stage = "reading" /\ UNCHANGED <<tun, minter, now>>
      /\ conn \in [Conns -> Connection] /\ conn[c] \in Connection
      /\ conn[c].host \in Asked /\ conn[c].run \in Runs
    BY DEF ReadRequest, ConnInv, TypeOK, InOrder
<1>2. PICK hdr \in Carried, inner \in Asked :
        LET req == [NoRequest EXCEPT !.hdr = hdr, !.to = PinnedTo(c, inner)]
        IN  \/ For(conn[c].host) = {} /\ Forward(c, req)
            \/ \E cr \in For(conn[c].host) :
                \/ ~Wants(cr, hdr) /\ Forward(c, req)
                \/ /\ cr.attach
                   /\ Forward(c, [req EXCEPT !.hdr = Swapped(cr, hdr)]) \/ Closes(c)
                \/ /\ Wants(cr, hdr) /\ ~cr.attach
                   /\ \E repo \in Runs :
                       conn' = [conn EXCEPT ![c].stage = "locking",
                                            ![c].req = [req EXCEPT !.repo = repo]]
    BY DEF ReadRequest
<1> DEFINE req == [NoRequest EXCEPT !.hdr = hdr, !.to = PinnedTo(c, inner)]
           sw(cr) == [req EXCEPT !.hdr = Swapped(cr, hdr)]
<1>3. /\ req \in Request /\ req.hdr = hdr /\ req.to = conn[c].host /\ req.scope = NoRun
      /\ hdr \in Headers
  <2>1. hdr \in Headers /\ conn[c].host \in Asked \cup {Nowhere}
    BY <1>1, AskedAssumption
  <2>2. NoRequest \in Request /\ NoRequest.scope = NoRun
    BY NoRequestIsOne DEF NoRequest
  <2> QED
    BY <2>1, <2>2 DEF Request, PinnedTo
<1>4. ASSUME NEW cr \in For(conn[c].host)
      PROVE  /\ sw(cr) \in Request /\ sw(cr).hdr = Swapped(cr, hdr)
             /\ sw(cr).to = conn[c].host /\ sw(cr).scope = NoRun
    BY <1>3, HeadersMayLeave, ForIsCredentials DEF Request
<1> HIDE DEF req, sw
<1>5. ASSUME NEW r \in Request, Forward(c, r), MayLeave(r, conn[c].host, conn[c].run)
      PROVE  ConnInv'
  <2>1. PICK k \in Connection : /\ conn' = [conn EXCEPT ![c] = k] /\ InOrder(k)
                                /\ k.stage = "forwarded"
    BY <1>1, <1>5, ForwardIs
  <2> QED
    BY <1>1, <2>1, QuietStep
<1>6. CASE For(conn[c].host) = {} /\ Forward(c, req)
  <2>1. MayLeave(req, conn[c].host, conn[c].run)
    BY <1>3, <1>6, HeadersMayLeave DEF MayLeave
  <2> QED
    BY <1>3, <1>5, <1>6, <2>1
<1>7. ASSUME NEW cr \in For(conn[c].host), ~Wants(cr, hdr), Forward(c, req)
      PROVE  ConnInv'
  <2>1. MayLeave(req, conn[c].host, conn[c].run)
    BY <1>3, <1>7, HeadersMayLeave, ForIsCredentials DEF MayLeave
  <2> QED
    BY <1>3, <1>5, <1>7, <2>1
<1>8. ASSUME NEW cr \in For(conn[c].host), cr.attach, Forward(c, sw(cr))
      PROVE  ConnInv'
  <2>1. MayLeave(sw(cr), conn[c].host, conn[c].run)
    BY <1>4, <1>8, HeadersMayLeave, ForIsCredentials DEF MayLeave, Wants
  <2> QED
    BY <1>4, <1>5, <1>8, <2>1
<1>9. CASE Closes(c)
    BY <1>1, <1>9, DoneStep
<1>10. ASSUME NEW cr \in For(conn[c].host), Wants(cr, hdr), ~cr.attach, NEW repo \in Runs,
              conn' = [conn EXCEPT ![c].stage = "locking",
                                   ![c].req = [req EXCEPT !.repo = repo]]
       PROVE  ConnInv'
  <2> DEFINE it == [req EXCEPT !.repo = repo]
             k == [conn[c] EXCEPT !.stage = "locking", !.req = it]
  <2>1. /\ it \in Request /\ it.hdr = hdr /\ it.to = conn[c].host /\ it.scope = NoRun
        /\ conn' = [conn EXCEPT ![c].stage = "locking", ![c].req = it]
    BY <1>3, <1>10 DEF Request
  <2> HIDE DEF it
  <2>2. /\ k \in Connection /\ conn' = [conn EXCEPT ![c] = k] /\ k.stage = "locking"
        /\ k.req = it /\ k.run = conn[c].run /\ k.host = conn[c].host
    BY <1>1, <2>1 DEF Connection, Stages
  <2> HIDE DEF k
  <2>3. Replaceable(hdr) # {}
    BY <1>10 DEF Wants
  <2>4. InOrder(k)
    BY <1>1, <1>10, <2>1, <2>2, <2>3 DEF InOrder
  <2> QED
    BY <1>1, <2>2, <2>4, QuietStep
<1> QED
    BY <1>2, <1>6, <1>7, <1>8, <1>9, <1>10 DEF req, sw

\* The request that waited for a token, with one in it.
LEMMA TokenOnIt ==
    ASSUME ConnInv, NEW c \in Conns, conn[c].stage \in {"locking", "minting"},
           NEW token \in Token, token.of = conn[c].run, token.exp <= now + TTL,
           NEW since \in 0 .. now,
           token.exp - now > Skew \/ now - since >= TTL - Skew
    PROVE  /\ WithToken(c, token, since) \in Request
           /\ MayLeave(WithToken(c, token, since), conn[c].host, conn[c].run)
<1> DEFINE cr == CHOOSE d \in For(conn[c].host) : ~d.attach
           w  == WithToken(c, token, since)
<1>1. /\ conn[c] \in Connection /\ conn[c].req \in Request /\ conn[c].run \in Runs
      /\ conn[c].req.hdr \in Carried /\ Replaceable(conn[c].req.hdr) # {}
      /\ conn[c].req.to = conn[c].host
      /\ \E d \in For(conn[c].host) : ~d.attach
    BY DEF ConnInv, TypeOK, InOrder, Connection
<1>2. cr \in For(conn[c].host) /\ ~cr.attach
    BY <1>1
<1>3. w = [conn[c].req EXCEPT !.hdr = Swapped(cr, @), !.repo = NoRun, !.scope = token.of,
                              !.left = token.exp - now, !.trip = now - since]
    BY DEF WithToken
<1> HIDE DEF cr, w
<1>4. /\ Swapped(cr, conn[c].req.hdr) \in Headers
      /\ Presentable(Swapped(cr, conn[c].req.hdr))
    BY <1>1, <1>2, HeadersMayLeave, ForIsCredentials DEF Wants
<1>5. /\ now \in 0 .. MaxTime /\ token.exp \in 0 .. MaxTime + TTL
      /\ token.of \in Runs \cup {NoRun}
    BY DEF ConnInv, TypeOK, Token
<1>6. token.exp - now \in -MaxTime .. TTL /\ now - since \in 0 .. MaxTime
    BY <1>5, TimeAssumption
<1>7. /\ w \in Request /\ w.hdr = Swapped(cr, conn[c].req.hdr)
      /\ w.to = conn[c].host /\ w.scope = conn[c].run
      /\ w.left = token.exp - now /\ w.trip = now - since
    BY <1>1, <1>3, <1>4, <1>5, <1>6 DEF Request
<1>8. MayLeave(w, conn[c].host, conn[c].run)
    BY <1>2, <1>4, <1>7 DEF MayLeave
<1> QED
    BY <1>7, <1>8 DEF w

\* The cached token goes on the request.
LEMMA TakeCachedStep ==
    ASSUME ConnInv, NEW c \in Conns, TakeCached(c)
    PROVE  ConnInv'
<1> DEFINE token == tokens[ScopedTo(c)]
           w == WithToken(c, token, now)
<1>1. /\ conn[c].stage = "locking" /\ UNCHANGED <<tun, minter, now>>
      /\ conn[c].run \in Runs /\ ScopedTo(c) = conn[c].run /\ Forward(c, w)
    BY DEF TakeCached, ConnInv, InOrder, ScopedTo
<1>2. /\ token \in Token /\ now < token.exp - Skew /\ now \in 0 .. MaxTime
      /\ token = NoToken \/ (token.of = conn[c].run /\ token.exp <= now + TTL)
    BY <1>1 DEF TakeCached, Usable, ConnInv, TypeOK
<1> HIDE DEF token
<1>3. token # NoToken /\ token.exp - now > Skew /\ now \in 0 .. now
    BY <1>2, TimeAssumption DEF NoToken, Token
<1>4. w \in Request /\ MayLeave(w, conn[c].host, conn[c].run)
    BY <1>1, <1>2, <1>3, TokenOnIt
<1> HIDE DEF w
<1>5. PICK k \in Connection : /\ conn' = [conn EXCEPT ![c] = k] /\ InOrder(k)
                              /\ k.stage = "forwarded"
    BY <1>1, <1>4, ForwardIs
<1> QED
    BY <1>1, <1>5, QuietStep

\* A request takes the lock: it found no token of use.
LEMMA StartMintStep ==
    ASSUME ConnInv, NEW c \in Conns, StartMint(c)
    PROVE  ConnInv'
<1>1. /\ conn[c].stage = "locking" /\ lock = NoConn /\ lock' = c /\ asked' = now
      /\ ~Usable(conn[c].run) /\ UNCHANGED <<tun, tokens, now>>
      /\ conn \in [Conns -> Connection] /\ conn[c] \in Connection /\ InOrder(conn[c])
    BY DEF StartMint, LockFree, ScopedTo, ConnInv, TypeOK
<1> DEFINE k == [conn[c] EXCEPT !.stage = "minting"]
<1>2. /\ k \in Connection /\ conn' = [conn EXCEPT ![c] = k] /\ k.stage = "minting"
      /\ k.req = conn[c].req /\ k.run = conn[c].run /\ k.host = conn[c].host
    BY <1>1 DEF StartMint, Connection, Stages
<1> HIDE DEF k
<1>3. InOrder(k)
    BY <1>1, <1>2 DEF InOrder
<1>4. conn'[c] = k /\ \A q \in Conns : q # c => conn'[q] = conn[q]
    BY <1>1, <1>2
<1>5. TypeOK'
    BY <1>1, <1>2 DEF ConnInv, TypeOK
<1>6. ASSUME NEW q \in Conns
      PROVE  (/\ InOrder(conn[q]) /\ Ended(tun[q])
              /\ conn[q].stage = "minting" <=> lock = q
              /\ conn[q].stage = "minting" => ~Usable(conn[q].run))'
  <2>1. CASE q = c
    BY <1>1, <1>2, <1>3, <1>4, <2>1 DEF ConnInv, Usable
  <2>2. CASE q # c
    BY <1>1, <1>4, <2>2, NobodyAssumption DEF ConnInv, Usable
  <2> QED
    BY <2>1, <2>2
<1>7. asked' <= now'
    BY <1>1 DEF ConnInv, TypeOK
<1> QED
    BY <1>1, <1>5, <1>6, <1>7 DEF ConnInv

\* The lock is given back, by the one that had it: nobody is minting.
LEMMA UnlockStep ==
    ASSUME ConnInv, NEW c \in Conns, conn[c].stage = "minting", NEW k \in Connection,
           InOrder(k), k.stage # "minting", conn' = [conn EXCEPT ![c] = k], lock' = NoConn,
           asked' = 0, UNCHANGED <<tun, now>>, tokens' \in [Runs -> Token],
           \A r \in Runs :
               tokens'[r] = NoToken \/ (tokens'[r].of = r /\ tokens'[r].exp <= now' + TTL)
    PROVE  ConnInv'
<1>1. conn'[c] = k /\ \A q \in Conns : q # c => conn'[q] = conn[q]
    BY DEF ConnInv, TypeOK
<1>2. TypeOK' /\ asked' <= now'
    BY TimeAssumption DEF ConnInv, TypeOK
<1>3. lock = c
    BY DEF ConnInv
<1>4. ASSUME NEW q \in Conns
      PROVE  (/\ InOrder(conn[q]) /\ Ended(tun[q])
              /\ conn[q].stage # "minting" /\ lock # q)'
  <2>1. CASE q = c
    BY <1>1, <2>1, NobodyAssumption DEF ConnInv
  <2>2. CASE q # c
    BY <1>1, <1>3, <2>2, NobodyAssumption DEF ConnInv
  <2> QED
    BY <2>1, <2>2
<1> QED
    BY <1>2, <1>4 DEF ConnInv

\* A mint that comes back, however late, or does not.
LEMMA MintStep ==
    ASSUME ConnInv, NEW c \in Conns, MintReturns(c) \/ MintFails(c)
    PROVE  ConnInv'
<1>1. /\ conn[c].stage = "minting" /\ lock' = NoConn /\ asked' = 0 /\ UNCHANGED <<tun, now>>
      /\ conn[c].run \in Runs /\ asked \in 0 .. now /\ now \in 0 .. MaxTime
      /\ tokens \in [Runs -> Token]
      /\ \A r \in Runs : tokens[r] = NoToken \/ (tokens[r].of = r /\ tokens[r].exp <= now + TTL)
    BY DEF MintReturns, MintFails, ConnInv, TypeOK, InOrder
<1>2. CASE MintReturns(c)
  <2>1. PICK at \in asked .. now :
            LET token == [of |-> ScopedTo(c), exp |-> at + TTL]
            IN  /\ tokens' = [tokens EXCEPT ![ScopedTo(c)] = token]
                /\ Forward(c, WithToken(c, token, asked))
    BY <1>2 DEF MintReturns
  <2> DEFINE token == [of |-> conn[c].run, exp |-> at + TTL]
             w == WithToken(c, token, asked)
  <2>2. tokens' = [tokens EXCEPT ![conn[c].run] = token] /\ Forward(c, w)
    BY <2>1 DEF ScopedTo
  <2>3. at \in Nat /\ asked <= at /\ at <= now /\ asked \in Nat /\ now \in Nat
    BY <1>1, <2>1
  <2>4. token \in Token /\ token.of = conn[c].run /\ token.exp = at + TTL
    BY <1>1, <2>3, TimeAssumption DEF Token
  <2> HIDE DEF token
  <2>5. /\ token.exp <= now + TTL
        /\ token.exp - now > Skew \/ now - asked >= TTL - Skew
    BY <2>3, <2>4, TimeAssumption
  <2>6. w \in Request /\ MayLeave(w, conn[c].host, conn[c].run)
    BY <1>1, <2>4, <2>5, TokenOnIt
  <2> HIDE DEF w
  <2>7. PICK k \in Connection : /\ conn' = [conn EXCEPT ![c] = k] /\ InOrder(k)
                                /\ k.stage = "forwarded"
    BY <1>1, <2>2, <2>6, ForwardIs
  <2>8. /\ tokens' \in [Runs -> Token]
        /\ \A r \in Runs :
               tokens'[r] = NoToken \/ (tokens'[r].of = r /\ tokens'[r].exp <= now' + TTL)
    BY <1>1, <2>2, <2>4, <2>5
  <2> QED
    BY <1>1, <2>7, <2>8, UnlockStep
<1>3. CASE MintFails(c)
  <2>1. conn' = [conn EXCEPT ![c] = NewConnection] /\ tokens' = tokens
    BY <1>3 DEF Closes, MintFails
  <2> QED
    BY <1>1, <2>1, NewIsOne, UnlockStep DEF NewConnection
<1> QED
    BY <1>2, <1>3

\* The clock runs: no token becomes of use by that.
LEMMA TickStep == ASSUME ConnInv, Tick PROVE ConnInv'
<1>1. /\ now \in 0 .. MaxTime /\ now < MaxTime /\ now' = now + 1 /\ MaxTime \in Nat
      /\ tokens \in [Runs -> Token] /\ asked \in 0 .. MaxTime /\ asked <= now
      /\ UNCHANGED <<conn, tun, lock, asked, tokens>>
    BY TimeAssumption DEF Tick, ConnInv, TypeOK, minter
<1>2. TypeOK' /\ asked' <= now'
    BY <1>1 DEF ConnInv, TypeOK
<1>3. ASSUME NEW r \in Runs
      PROVE  /\ tokens'[r] = NoToken \/ (tokens'[r].of = r /\ tokens'[r].exp <= now' + TTL)
             /\ Usable(r)' => Usable(r)
  <2>1. tokens[r].exp \in 0 .. MaxTime + TTL
    BY <1>1 DEF Token
  <2>2. tokens[r] = NoToken \/ (tokens[r].of = r /\ tokens[r].exp <= now + TTL)
    BY DEF ConnInv
  <2> QED
    BY <1>1, <2>1, <2>2, TimeAssumption DEF Usable
<1>4. ASSUME NEW q \in Conns
      PROVE  (/\ InOrder(conn[q]) /\ Ended(tun[q])
              /\ conn[q].stage = "minting" <=> lock = q
              /\ conn[q].stage = "minting" => ~Usable(conn[q].run))'
  <2>1. conn[q].stage = "minting" => conn[q].run \in Runs
    BY DEF ConnInv, InOrder
  <2>2. (conn[q].stage = "minting" => ~Usable(conn[q].run))'
    BY <1>1, <1>3, <2>1 DEF ConnInv
  <2> QED
    BY <1>1, <2>2 DEF ConnInv
<1> QED
    BY <1>2, <1>3, <1>4 DEF ConnInv

\* ConnInv is inductive: every step of the connections and the minter keeps it.
LEMMA ConnStepHolds == ConnInv /\ [Next]_vars => ConnInv'
<1> SUFFICES ASSUME ConnInv, [Next]_vars PROVE ConnInv'
    OBVIOUS
<1>1. ASSUME NEW c \in Conns, Handshake(c) PROVE ConnInv'
    BY <1>1, DoneStep DEF Handshake
<1>2. ASSUME NEW c \in Conns, Eof(c) PROVE ConnInv'
    BY <1>2, DoneStep DEF Eof
<1>3. ASSUME NEW c \in Conns, Respond(c) PROVE ConnInv'
    BY <1>3, DoneStep DEF Respond
<1>4. CASE UNCHANGED vars
    BY <1>4 DEF vars, minter, ConnInv, TypeOK, Usable
<1> QED
    BY <1>1, <1>2, <1>3, <1>4, DispatchStep, TunnelStep, ReturnsStep, ReadRequestStep, TakeCachedStep,
       StartMintStep, MintStep, TickStep DEF Next, Swap

\* Nobody mints over a token of use: the one that is at GitHub went there for want of one,
\* and nobody else writes the cache.
LEMMA MintsOnce ==
    ASSUME ConnInv, [Next]_vars, NEW r \in Runs, Usable(r)
    PROVE  tokens'[r] = tokens[r]
<1>1. ASSUME NEW c \in Conns, MintReturns(c) PROVE tokens'[r] = tokens[r]
  <2>1. conn[c].run # r /\ \E token : tokens' = [tokens EXCEPT ![conn[c].run] = token]
    BY <1>1 DEF MintReturns, ScopedTo, ConnInv
  <2> QED
    BY <2>1 DEF ConnInv, TypeOK
<1>2. ASSUME NEW c \in Conns, ~MintReturns(c),
             Dispatch(c) \/ HangsUp(c) \/ Dawdles(c) \/ Copiers(c) \/ TunnelReturns(c)
             \/ Handshake(c) \/ ReadRequest(c) \/ Eof(c) \/ Swap(c) \/ Respond(c)
      PROVE  tokens'[r] = tokens[r]
    BY <1>2 DEF minter, Dispatch, HangsUp, Dawdles, Copiers, TunnelReturns, Handshake,
                ReadRequest, Eof, Swap, TakeCached, StartMint, MintFails, Respond
<1>3. CASE Tick \/ UNCHANGED vars
    BY <1>3 DEF Tick, vars, minter
<1> QED
    BY <1>1, <1>2, <1>3 DEF Next

-----------------------------------------------------------------------------
(* The model route beside them *)

\* A step of a connection that is new or being answered.
LEMMA CallStep ==
    ASSUME ConnInv, NEW c \in Conns, conn[c].stage \in {"new", "calling"},
           conn' = [conn EXCEPT ![c].stage = "calling"] \/ Closes(c),
           UNCHANGED <<tun, minter, now>>
    PROVE  /\ ConnInv' /\ \A q \in Conns : q # c => conn'[q] = conn[q]
           /\ conn'[c].stage = IF Closes(c) THEN "new" ELSE "calling"
<1>1. conn \in [Conns -> Connection] /\ conn[c] \in Connection
    BY DEF ConnInv, TypeOK
<1>2. CASE Closes(c)
  <2>1. conn' = [conn EXCEPT ![c] = NewConnection] /\ NewConnection.stage = "new"
    BY <1>2 DEF Closes, NewConnection
  <2> QED
    BY <1>1, <1>2, <2>1, NewIsOne, QuietStep
<1>3. CASE conn' = [conn EXCEPT ![c].stage = "calling"] /\ ~Closes(c)
  <2> DEFINE k == [conn[c] EXCEPT !.stage = "calling"]
  <2>1. k \in Connection /\ conn' = [conn EXCEPT ![c] = k] /\ k.stage = "calling"
    BY <1>1, <1>3 DEF Connection, Stages
  <2> HIDE DEF k
  <2>2. InOrder(k)
    BY <2>1 DEF InOrder
  <2> QED
    BY <1>1, <1>3, <2>1, <2>2, QuietStep
<1> QED
    BY <1>2, <1>3

\* What CONNECTs do is no business of the calls.
LEMMA CallsApart ==
    ASSUME ConnInv, Next, NEW q \in Conns
    PROVE  conn'[q].stage = "calling" <=> conn[q].stage = "calling"
<1>1. conn \in [Conns -> Connection]
    BY DEF ConnInv, TypeOK
<1>2. ASSUME NEW c \in Conns,
             NEW from \in Stages \ {"calling"}, NEW to \in Stages \ {"calling"},
             conn[c].stage = from, conn'[c].stage = to, \A d \in Conns \ {c} : conn'[d] = conn[d]
      PROVE  conn'[q].stage = "calling" <=> conn[q].stage = "calling"
    BY <1>2
<1>3. ASSUME NEW c \in Conns, conn[c].stage \in Stages \ {"calling"},
             \/ ReadsOn(c) \/ Closes(c) \/ \E req : Forward(c, req)
      PROVE  conn'[q].stage = "calling" <=> conn[q].stage = "calling"
  <2>1. /\ conn'[c].stage \in {"reading", "new", "forwarded"}
        /\ \A d \in Conns \ {c} : conn'[d] = conn[d]
    BY <1>1, <1>3 DEF ReadsOn, Closes, Forward, Connection, NewConnection
  <2> QED
    BY <1>2, <1>3, <2>1 DEF Stages
<1>4. ASSUME NEW c \in Conns, Dispatch(c)
      PROVE  conn'[q].stage = "calling" <=> conn[q].stage = "calling"
  <2>1. CASE Closes(c)
    BY <1>3, <1>4, <2>1 DEF Dispatch, Stages
  <2>2. ASSUME NEW stage \in {"handshake", "copying"}, NEW run, NEW h,
               conn' = [conn EXCEPT ![c].stage = stage, ![c].run = run, ![c].host = h]
        PROVE  conn'[q].stage = "calling" <=> conn[q].stage = "calling"
    <3>1. conn'[c].stage = stage /\ \A d \in Conns \ {c} : conn'[d] = conn[d]
        BY <1>1, <2>2 DEF Connection
    <3> QED
        BY <1>2, <1>4, <3>1 DEF Dispatch, Stages
  <2>3. ASSUME NEW run \in Runs, NEW h \in Asked,
               conn' = [conn EXCEPT
                            ![c].stage = IF Intercepts(h) THEN "handshake" ELSE "copying",
                            ![c].run = run, ![c].host = h]
        PROVE  conn'[q].stage = "calling" <=> conn[q].stage = "calling"
    <3> DEFINE stage == IF Intercepts(h) THEN "handshake" ELSE "copying"
    <3>1. stage \in {"handshake", "copying"}
        OBVIOUS
    <3>2. conn' = [conn EXCEPT ![c].stage = stage, ![c].run = run, ![c].host = h]
        BY <2>3
    <3> HIDE DEF stage
    <3> QED
        BY <2>2, <3>1, <3>2
  <2> QED
    BY <1>4, <2>1, <2>3 DEF Dispatch
<1>5. ASSUME NEW c \in Conns, ReadRequest(c)
      PROVE  conn'[q].stage = "calling" <=> conn[q].stage = "calling"
  <2>1. \/ \E req : Forward(c, req)
        \/ Closes(c)
        \/ \E req : conn' = [conn EXCEPT ![c].stage = "locking", ![c].req = req]
    BY <1>5 DEF ReadRequest
  <2>2. ASSUME NEW req, conn' = [conn EXCEPT ![c].stage = "locking", ![c].req = req]
        PROVE  conn'[c].stage = "locking" /\ \A d \in Conns \ {c} : conn'[d] = conn[d]
    BY <1>1, <2>2 DEF Connection
  <2> QED
    BY <1>2, <1>3, <1>5, <2>1, <2>2 DEF ReadRequest, Stages
<1>6. ASSUME NEW c \in Conns,
             TunnelReturns(c) \/ Handshake(c) \/ Eof(c) \/ Respond(c) \/ MintFails(c)
      PROVE  conn'[q].stage = "calling" <=> conn[q].stage = "calling"
  <2>1. conn[c].stage \in Stages \ {"calling"} /\ (ReadsOn(c) \/ Closes(c))
    BY <1>6 DEF TunnelReturns, Handshake, Eof, Respond, MintFails, Stages
  <2> QED
    BY <1>3, <2>1
<1>7. ASSUME NEW c \in Conns, TakeCached(c) \/ MintReturns(c)
      PROVE  conn'[q].stage = "calling" <=> conn[q].stage = "calling"
  <2>1. conn[c].stage \in Stages \ {"calling"} /\ \E req : Forward(c, req)
    BY <1>7 DEF TakeCached, MintReturns, Stages
  <2> QED
    BY <1>3, <2>1
<1>8. ASSUME NEW c \in Conns, StartMint(c)
      PROVE  conn'[q].stage = "calling" <=> conn[q].stage = "calling"
    BY <1>1, <1>8 DEF StartMint, Connection
<1>9. ASSUME NEW c \in Conns, HangsUp(c) \/ Dawdles(c) \/ Copiers(c)
      PROVE  conn'[q].stage = "calling" <=> conn[q].stage = "calling"
    BY <1>9 DEF HangsUp, Dawdles, Copiers
<1>10. CASE Tick
    BY <1>10 DEF Tick
<1>11. ASSUME NEW c \in Conns, Swap(c)
       PROVE  conn'[q].stage = "calling" <=> conn[q].stage = "calling"
    BY <1>6, <1>7, <1>8, <1>11 DEF Swap
<1> QED
    BY <1>4, <1>5, <1>6, <1>9, <1>10, <1>11 DEF Next

\* The listener starts with no connection and no call.
LEMMA PortInitHolds == PortInit => PortInv
<1> SUFFICES ASSUME PortInit PROVE PortInv
    OBVIOUS
<1>1. ConnInv /\ \A c \in Conns : conn[c].stage = "new"
    BY ConnInitHolds DEF PortInit, Init, NewConnection
<1> QED
    BY <1>1 DEF PortInit, PortInv, NoCall, Answers, CallOk

\* A refusal, or a call that leaves as rewriteVertex made it.
LEMMA AnsweredStep ==
    ASSUME PortInv, NEW c \in Conns, NEW answer, Answered(c, answer),
           answer.answer \in Answers \ {"none"},
           CallOk(answer)
    PROVE  PortInv'
<1>1. ConnInv' /\ conn'[c].stage = "calling" /\ \A q \in Conns : q # c => conn'[q] = conn[q]
  <2>1. /\ conn \in [Conns -> Connection] /\ conn' = [conn EXCEPT ![c].stage = "calling"]
        /\ ConnInv /\ conn[c].stage = "new" /\ UNCHANGED <<tun, minter, now>>
    BY DEF Answered, PortInv, ConnInv, TypeOK
  <2>2. conn'[c].stage = "calling"
    BY <2>1 DEF Connection
  <2> QED
    BY <2>1, <2>2, CallStep
<1>2. /\ env' = env /\ DOMAIN call' = Conns
      /\ call'[c] = answer /\ \A q \in Conns : q # c => call'[q] = call[q]
    BY DEF Answered, PortInv
<1>3. ASSUME NEW q \in Conns
      PROVE  (/\ call[q].answer \in Answers
              /\ conn[q].stage = "calling" <=> call[q].answer # "none"
              /\ CallOk(call[q]))'
  <2>1. CASE q = c
    BY <1>1, <1>2, <2>1 DEF CallOk, Upstream, IdentityOn
  <2>2. CASE q # c
    BY <1>1, <1>2, <2>2 DEF PortInv, CallOk, Upstream, IdentityOn
  <2> QED
    BY <2>1, <2>2
<1> QED
    BY <1>1, <1>2, <1>3 DEF PortInv

\* A model call that returns leaves its connection with no call of its own.
LEMMA ReturnStep ==
    ASSUME PortInv, NEW c \in Conns, CallReturns(c)
    PROVE  PortInv'
<1>1. ConnInv /\ conn[c].stage = "calling" /\ Closes(c) /\ UNCHANGED <<tun, minter, now>>
    BY DEF CallReturns, PortInv
<1>2. ConnInv' /\ conn'[c].stage = "new" /\ \A q \in Conns : q # c => conn'[q] = conn[q]
    BY <1>1, CallStep
<1>3. /\ env' = env /\ DOMAIN call' = Conns
      /\ call'[c] = NoCall /\ \A q \in Conns : q # c => call'[q] = call[q]
    BY DEF CallReturns, PortInv
<1>4. ASSUME NEW q \in Conns
      PROVE  (/\ call[q].answer \in Answers
              /\ conn[q].stage = "calling" <=> call[q].answer # "none"
              /\ CallOk(call[q]))'
  <2>1. CASE q = c
    BY <1>2, <1>3, <2>1 DEF NoCall, Answers, CallOk
  <2>2. CASE q # c
    BY <1>2, <1>3, <2>2 DEF PortInv, CallOk, Upstream, IdentityOn
  <2> QED
    BY <2>1, <2>2
<1> QED
    BY <1>2, <1>3, <1>4 DEF PortInv

\* PortInv is inductive: every step of the listener keeps it.
LEMMA PortStepHolds == PortInv /\ [PortNext]_portVars => PortInv'
<1> SUFFICES ASSUME PortInv, [PortNext]_portVars PROVE PortInv'
    OBVIOUS
<1>1. CASE Next /\ UNCHANGED <<env, call>>
  <2>1. ConnInv' /\ \A q \in Conns : conn'[q].stage = "calling" <=> conn[q].stage = "calling"
    BY <1>1, ConnStepHolds, CallsApart DEF PortInv
  <2> QED
    BY <1>1, <2>1 DEF PortInv, CallOk, Upstream, IdentityOn
<1>2. ASSUME NEW c \in Conns, NotServed(c) \/ RefusesCall(c) \/ IdentityFails(c)
      PROVE  PortInv'
  <2>1. PICK status \in {"501", "405", "400", "502"} : Answered(c, Refused(status))
    BY <1>2 DEF NotServed, RefusesCall, IdentityFails
  <2>2. Refused(status).answer = status
    BY DEF Refused, NoCall
  <2> QED
    BY <2>1, <2>2, AnsweredStep DEF Answers, CallOk
<1>3. ASSUME NEW c \in Conns, SendsCall(c)
      PROVE  PortInv'
  <2>1. PICK path \in Paths : \E up \in Rewritten(path) :
            Answered(c, [answer |-> "sent", up |-> up, to |-> Upstream(up),
                         as |-> IdentityOn(env)])
    BY <1>3 DEF SendsCall
  <2>2. PICK up \in Rewritten(path) :
            Answered(c, [answer |-> "sent", up |-> up, to |-> Upstream(up),
                         as |-> IdentityOn(env)])
    BY <2>1
  <2>3. IsClean(up) /\ IsModelCall(up)
    BY DEF Rewritten
  <2>4. up \in Seq(Range(up))
    BY RewrittenIsPath
  <2> QED
    BY <2>2, <2>3, <2>4, AnsweredStep DEF Answers, CallOk
<1>4. CASE UNCHANGED portVars
  <2>1. ConnInv'
    BY <1>4, ConnStepHolds DEF PortInv, portVars
  <2> QED
    BY <1>4, <2>1 DEF PortInv, portVars, vars, CallOk, Upstream, IdentityOn
<1> QED
    BY <1>1, <1>2, <1>3, <1>4, ReturnStep DEF PortNext

-----------------------------------------------------------------------------
(* What leaves the proxy *)

\* The invariant is inductive: it holds in every reachable state.
THEOREM PortInvariance == PortSpec => []PortInv
BY PortInitHolds, PortStepHolds, PTL DEF PortSpec

\* A credential leaves only for the host of its connection, which is one of its own, and a
\* GitHub token is the one of the run that was authenticated.
THEOREM CredentialsAreDue == PortSpec => []CredentialIsDue
<1>1. PortInv => CredentialIsDue
    BY DEF PortInv, ConnInv, InOrder, MayLeave, CredentialIsDue, Leaving
<1> QED
    BY <1>1, PortInvariance, PTL

\* A GitHub token has more than the skew left when it leaves, unless its own round trip took
\* the rest of its life.
THEOREM TokensOutlive == PortSpec => []TokenOutlivesRequest
<1>1. PortInv => TokenOutlivesRequest
    BY DEF PortInv, ConnInv, InOrder, MayLeave, TokenOutlivesRequest, Leaving
<1> QED
    BY <1>1, PortInvariance, PTL

\* Where a credential is due no sentinel leaves in its place.
THEOREM SentinelsAreSwapped == PortSpec => []NoSentinelUpstream
<1>1. PortInv => NoSentinelUpstream
  <2> SUFFICES ASSUME PortInv, NEW c \in Conns, Leaving(c), Credentialed(conn[c].host)
               PROVE  Presentable(conn[c].req.hdr)
    BY DEF NoSentinelUpstream, Presentable
  <2>1. For(conn[c].host) # {}
    BY DEF Credentialed, For, Normal
  <2> QED
    BY <2>1 DEF PortInv, ConnInv, InOrder, MayLeave, Leaving
<1> QED
    BY <1>1, PortInvariance, PTL

\* A host some credential's pattern matches is never tunnelled, provided no SAN is, to the
\* letter, the one sample NewCreds tried the pattern by: such a SAN covers the sample and
\* no other host of the pattern, which NewCreds does not notice.
THEOREM TunnelsAreDueNothing ==
    ASSUME \A cr \in Credentials : \A pat \in cr.hosts :
               Head(pat) = "*" => Sample(pat) \notin SANs
    PROVE  PortSpec => []TunnelIsDueNothing
<1>1. PortInv => TunnelIsDueNothing
  <2> SUFFICES ASSUME PortInv, NEW c \in Conns, conn[c].stage = "copying"
               PROVE  ~Credentialed(conn[c].host)
    BY DEF TunnelIsDueNothing
  <2>1. conn[c].host \in Spelled /\ ~Intercepts(conn[c].host)
    BY AskedAssumption DEF PortInv, ConnInv, InOrder
  <2> QED
    BY <2>1, UncoveredIsUndue
<1> QED
    BY <1>1, PortInvariance, PTL

\* Whichever side of a tunnel ends first, its copier ends the other side's too.
THEOREM TunnelsEnd == PortSpec => []NobodyParked
<1>1. PortInv => NobodyParked
  <2> SUFFICES ASSUME PortInv, NEW c \in Conns,
                      tun[c].up # "open" \/ tun[c].down # "open"
               PROVE  \/ tun[c].out /\ tun[c].back
                      \/ ~tun[c].out /\ tun[c].down # "open"
                      \/ ~tun[c].back /\ tun[c].up # "open"
    BY DEF NobodyParked
  <2>1. Ended(tun[c]) /\ tun[c] \in Tunnel
    BY DEF PortInv, ConnInv, TypeOK
  <2> QED
    BY <2>1 DEF Ended, Tunnel
<1> QED
    BY <1>1, PortInvariance, PTL

\* A token of use is never minted over, however many connections of however many runs ask.
THEOREM OneMint == PortSpec => MintedOnce
<1>1. PortInv /\ [PortNext]_portVars => [\A r \in Runs : Usable(r) => tokens'[r] = tokens[r]]_vars
  <2> SUFFICES ASSUME PortInv, [PortNext]_portVars, NEW r \in Runs, Usable(r)
               PROVE  tokens'[r] = tokens[r]
    OBVIOUS
  <2>1. CASE [Next]_vars
    BY <2>1, MintsOnce DEF PortInv
  <2>2. CASE \E c \in Conns : \/ NotServed(c) \/ RefusesCall(c) \/ IdentityFails(c)
                              \/ SendsCall(c) \/ CallReturns(c)
    BY <2>2 DEF NotServed, RefusesCall, IdentityFails, SendsCall, Answered, CallReturns,
                minter
  <2> QED
    BY <2>1, <2>2 DEF PortNext, portVars
<1> QED
    BY <1>1, PortInvariance, PTL DEF PortSpec, MintedOnce

\* A host of Google's, with whatever location in its name, ends like one; the seam does not.
LEMMA HostsOfGoogle == /\ \A loc : IsSuffix(GoogleApis, VertexHost(loc))
                       /\ ~IsSuffix(GoogleApis, Seam)
<1> DEFINE S(loc) == {"aiplatform", ".", "rep", "-", "googleapis", "com", loc}
<1>1. GoogleApis = <<".", "googleapis", ".", "com">> /\ Len(GoogleApis) = 4
    BY DEF GoogleApis
<1>2. ASSUME NEW T, NEW a \in Seq(T), GoogleApis \in Seq(T)
      PROVE  IsSuffix(GoogleApis, a \o GoogleApis)
  <2>1. /\ a \o GoogleApis \in Seq(T) /\ Len(a \o GoogleApis) = Len(a) + 4
        /\ \A i \in 1 .. 4 : (a \o GoogleApis)[i + Len(a)] = GoogleApis[i]
    BY <1>1, <1>2, ConcatProperties
  <2>2. Len(a) \in Nat
    BY <1>2, LenProperties
  <2> DEFINE t == a \o GoogleApis
             g == GoogleApis
  <2>3. g \in Seq(T) /\ t \in Seq(T) /\ Len(g) = 4 /\ Len(t) = Len(a) + 4
        /\ \A i \in 1 .. 4 : g[i] = t[i + Len(a)]
    BY <1>1, <1>2, <2>1
  <2> HIDE DEF t, g
  <2>4. Len(g) <= Len(t) /\ \A i \in 1 .. Len(g) : g[i] = t[i + Len(t) - Len(g)]
    BY <2>2, <2>3
  <2>5. IsSuffix(g, t)
    BY <2>3, <2>4, SuffixIs
  <2> QED
    BY <2>5 DEF t, g
<1>3. ASSUME NEW loc
      PROVE  IsSuffix(GoogleApis, VertexHost(loc))
  <2>1. /\ GoogleApis \in Seq(S(loc)) /\ <<"aiplatform">> \in Seq(S(loc))
        /\ <<"aiplatform", ".", loc, ".", "rep">> \in Seq(S(loc))
        /\ <<loc, "-", "aiplatform">> \in Seq(S(loc))
    BY <1>1
  <2>2. /\ IsSuffix(GoogleApis, <<"aiplatform">> \o GoogleApis)
        /\ IsSuffix(GoogleApis, <<"aiplatform", ".", loc, ".", "rep">> \o GoogleApis)
        /\ IsSuffix(GoogleApis, <<loc, "-", "aiplatform">> \o GoogleApis)
    BY <1>2, <2>1
  <2> QED
    BY <2>2 DEF VertexHost
<1>4. ~IsSuffix(GoogleApis, Seam)
  <2> DEFINE g == GoogleApis
             P == {".", "googleapis", "com", "seam"}
  <2>1. g \in Seq(P) /\ Seam \in Seq(P) /\ Len(Seam) = 1 /\ Len(g) = 4
    BY <1>1 DEF Seam
  <2> HIDE DEF g, P
  <2>2. IsSuffix(g, Seam) => Len(g) <= Len(Seam)
    BY <2>1, SuffixIs
  <2>3. ~IsSuffix(g, Seam)
    BY <2>1, <2>2
  <2> QED
    BY <2>3 DEF g
<1> QED
    BY <1>3, <1>4

\* What its server makes of a model call's path is the path that was looked at, so that it is
\* one inference call still, for the location its host was chosen by; and Google's identity
\* goes to Google only.
THEOREM ModelCallsAreDue == PortSpec => []ModelCallIsDue
<1>1. PortInv => ModelCallIsDue
  <2> SUFFICES ASSUME PortInv, NEW c \in Conns, call[c].answer = "sent"
               PROVE  LET up == Resolved(call[c].up)
                      IN  /\ IsModelCall(up)
                          /\ call[c].to = IF env.seam THEN Seam ELSE VertexHost(up[5])
                          /\ call[c].as = "google" <=> IsSuffix(GoogleApis, call[c].to)
    BY DEF ModelCallIsDue
  <2> DEFINE k == call[c]
  <2>1. CallOk(k)
    BY DEF PortInv
  <2>2. Resolved(k.up) = k.up
    BY <2>1, CleanIsResolved DEF CallOk
  <2>3. /\ IsModelCall(k.up) /\ k.as = IF env.seam THEN "stub" ELSE "google"
        /\ k.to = IF env.seam THEN Seam ELSE VertexHost(k.up[5])
    BY <2>1 DEF CallOk, Upstream, IdentityOn, Location
  <2> QED
    BY <2>2, <2>3, HostsOfGoogle
<1> QED
    BY <1>1, PortInvariance, PTL
=============================================================================
