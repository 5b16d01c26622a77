------------------------------ MODULE ProxyConn ------------------------------
(***************************************************************************)
(* proxy/proxy.go and mint.go: what becomes of an authenticated CONNECT.   *)
(* A host on the certificate is intercepted and its requests are served    *)
(* one after the other, each with the credential its host is due; any      *)
(* other host is tunnelled.                                                *)
(*                                                                         *)
(* Connections run concurrently.  They share the minter: one installation  *)
(* token per run, behind one lock that is held across the round trip to    *)
(* GitHub, while the clock runs.                                           *)
(***************************************************************************)
EXTENDS Creds

CONSTANTS
    Runs, NoRun,
    Conns, NoConn,
    Asked,         \* the hosts, as spelled, a CONNECT may name
    Carried,       \* the Authorization headers a request may carry
    TTL,           \* life of an installation token (an hour)
    Skew,          \* refreshSkew (five minutes)
    MaxTime        \* bound: the clock

ASSUME NobodyAssumption == NoRun \notin Runs /\ NoConn \notin Conns
ASSUME AskedAssumption  == Asked \subseteq Spelled /\ Carried \subseteq Headers
\* A header that is not there has no halves; what the sandbox sends bears no token of the
\* proxy's.
ASSUME CarriedAssumption ==
    \A hdr \in Carried :
        /\ "token" \notin {hdr.user, hdr.pass}
        /\ hdr.shape = "none" => hdr.user = "empty" /\ hdr.pass = "empty"
ASSUME TimeAssumption   == TTL \in Nat /\ Skew \in Nat /\ Skew < TTL /\ MaxTime \in Nat

VARIABLES
    conn,     \* [Conns -> the connection, and the request on it]
    tun,      \* [Conns -> the two ends of its tunnel and their copiers]
    lock,     \* minter.mu: the connection whose request holds it
    asked,    \* when that request found no token of use and went to GitHub
    tokens,   \* minter.tokens: [Runs -> the cached token, by the run it is looked up for]
    now

minter == <<lock, asked, tokens>>
vars   == <<conn, tun, minter, now>>

-----------------------------------------------------------------------------

Nowhere  == [name |-> <<>>, cased |-> FALSE, rooted |-> FALSE]
NoHeader == [shape |-> "none", user |-> "empty", pass |-> "empty"]

\* A request: its Authorization header, the run whose repository its path names (while a
\* token is being got for it), where it goes, and of the token on it the run it was minted
\* for, the life left in it, and how long GitHub was waited for.
Request == [hdr : Headers, repo : Runs \cup {NoRun}, to : Asked \cup {Nowhere},
            scope : Runs \cup {NoRun}, left : -MaxTime .. TTL, trip : 0 .. MaxTime]
NoRequest == [hdr |-> NoHeader, repo |-> NoRun, to |-> Nowhere, scope |-> NoRun,
              left |-> 0, trip |-> 0]

\* A token: what GitHub minted it for, and its ExpiresAt.
Token   == [of : Runs \cup {NoRun}, exp : 0 .. MaxTime + TTL]
NoToken == [of |-> NoRun, exp |-> 0]

\* "calling" is a model call under way: see ProxyPort.
Stages == {"new", "calling", "copying", "handshake", "reading", "locking", "minting",
           "forwarded"}

\* run: who authenticate said is calling.  host: the CONNECT authority.
Connection == [stage : Stages, run : Runs \cup {NoRun}, host : Asked \cup {Nowhere}, req : Request]
NewConnection == [stage |-> "new", run |-> NoRun, host |-> Nowhere, req |-> NoRequest]

\* out copies down to up, back copies up to down; TRUE is done.  full: the ends whose peer
\* does not read, so that a copier that writes to one is blocked there.
Ends   == {"open", "eof", "closed"}
Tunnel == [up : Ends, down : Ends, out : BOOLEAN, back : BOOLEAN, full : SUBSET {"up", "down"}]
NewTunnel == [up |-> "open", down |-> "open", out |-> FALSE, back |-> FALSE, full |-> {}]

TypeOK ==
    /\ conn \in [Conns -> Connection]
    /\ tun \in [Conns -> Tunnel]
    /\ lock \in Conns \cup {NoConn}
    /\ asked \in 0 .. MaxTime
    /\ tokens \in [Runs -> Token]
    /\ now \in 0 .. MaxTime

Init ==
    /\ conn = [c \in Conns |-> NewConnection]
    /\ tun = [c \in Conns |-> NewTunnel]
    /\ lock = NoConn
    /\ asked = 0
    /\ tokens = [r \in Runs |-> NoToken]
    /\ now = 0

\* The next request of the connection is read.
ReadsOn(c) == conn' = [conn EXCEPT ![c].stage = "reading", ![c].req = NoRequest]

\* The connection is over and makes room for another.
Closes(c) == conn' = [conn EXCEPT ![c] = NewConnection]

-----------------------------------------------------------------------------
(* The CONNECT and the tunnel *)

\* ServeHTTP: the authority alone decides.  A connection whose tunnel cannot be dialled is
\* answered 502 and kept, and one that cannot be hijacked is closed: either way it is new.
Dispatch(c) ==
    /\ conn[c].stage = "new"
    /\ \/ \E run \in Runs, h \in Asked :
            conn' = [conn EXCEPT ![c].stage = IF Intercepts(h) THEN "handshake" ELSE "copying",
                                 ![c].run = run, ![c].host = h]
       \/ Closes(c)
    /\ UNCHANGED <<tun, minter, now>>

\* The client or the upstream hangs up, or does with its half.
HangsUp(c) ==
    /\ conn[c].stage = "copying"
    /\ \/ tun[c].up = "open" /\ tun' = [tun EXCEPT ![c].up = "eof"]
       \/ tun[c].down = "open" /\ tun' = [tun EXCEPT ![c].down = "eof"]
    /\ UNCHANGED <<conn, minter, now>>

\* A peer stops reading, until what is written to it no longer goes through; or it reads
\* again, or is gone.
Dawdles(c) ==
    /\ conn[c].stage = "copying"
    /\ \E end \in {"up", "down"} :
        /\ tun[c][end] # "closed"
        /\ tun' = [tun EXCEPT ![c].full =
                       IF end \in @ THEN @ \ {end} ELSE @ \cup {end}]
    /\ UNCHANGED <<conn, minter, now>>

ClosesItsSource(t) == [t EXCEPT !.out = TRUE, !.down = "closed"]

\* A copier that is done closes the end the other one reads.
OutEnds(t) == [t EXCEPT !.out = TRUE, !.up = "closed", !.full = @ \ {"up"}]
BackEnds(t) == [t EXCEPT !.back = TRUE, !.down = "closed", !.full = @ \ {"down"}]

\* What a copier reads is over, or what it writes to; one that is blocked in its write sees
\* neither.
Copiers(c) ==
    /\ conn[c].stage = "copying"
    /\ tun[c].up # "open" \/ tun[c].down # "open"
    /\ \/ ~tun[c].out /\ "up" \notin tun[c].full /\ tun' = [tun EXCEPT ![c] = OutEnds(@)]
       \/ ~tun[c].back /\ "down" \notin tun[c].full /\ tun' = [tun EXCEPT ![c] = BackEnds(@)]
    /\ UNCHANGED <<conn, minter, now>>

\* <-done, and the deferred closes.
TunnelReturns(c) ==
    /\ conn[c].stage = "copying"
    /\ tun[c].out /\ tun[c].back
    /\ Closes(c)
    /\ tun' = [tun EXCEPT ![c] = NewTunnel]
    /\ UNCHANGED <<minter, now>>

-----------------------------------------------------------------------------
(* The interception *)

\* The client trusts the CA and speaks TLS, or the connection is over.
Handshake(c) ==
    /\ conn[c].stage = "handshake"
    /\ ReadsOn(c) \/ Closes(c)
    /\ UNCHANGED <<tun, minter, now>>

\* THE PIN: the target is the CONNECT authority, never the inner request's.
PinnedTo(c, inner) == conn[c].host

\* What RoundTrip sends.
Forward(c, req) == conn' = [conn EXCEPT ![c].stage = "forwarded", ![c].req = req]

\* serve: the next request.  Only the GitHub credential comes from the minter; the
\* one that is attached is the proxy's own identity, and may be unavailable.
ReadRequest(c) ==
    /\ conn[c].stage = "reading"
    /\ \E hdr \in Carried, inner \in Asked :
        LET req == [NoRequest EXCEPT !.hdr = hdr, !.to = PinnedTo(c, inner)]
        IN  \/ For(conn[c].host) = {} /\ Forward(c, req)
            \/ \E cr \in For(conn[c].host) :
                \/ ~Wants(cr, hdr) /\ Forward(c, req)
                \/ /\ cr.attach
                   /\ Forward(c, [req EXCEPT !.hdr = Swapped(cr, hdr)]) \/ Closes(c)
                \/ /\ Wants(cr, hdr) /\ ~cr.attach
                   /\ \E repo \in Runs :
                       conn' = [conn EXCEPT ![c].stage = "locking",
                                            ![c].req = [req EXCEPT !.repo = repo]]
    /\ UNCHANGED <<tun, minter, now>>

\* The client is done.
Eof(c) ==
    /\ conn[c].stage = "reading"
    /\ Closes(c)
    /\ UNCHANGED <<tun, minter, now>>

ToTheLast(r) == now < tokens[r].exp

\* The cached token is of use: more than the skew is left of it.
Usable(r) == now < tokens[r].exp - Skew

UrlRepo(c) == conn[c].req.repo

\* THE SCOPE: the run that was authenticated, never the repository the path names.
ScopedTo(c) == conn[c].run

\* The request with a token in it that GitHub was waited for since then.
WithToken(c, token, since) ==
    LET cr == CHOOSE d \in For(conn[c].host) : ~d.attach
    IN  [conn[c].req EXCEPT !.hdr = Swapped(cr, @), !.repo = NoRun, !.scope = token.of,
                            !.left = token.exp - now, !.trip = now - since]

Unlocked(c) == TRUE

\* mu is held from before the cache is read until the mint is back.
LockFree(c) == lock = NoConn

\* The cached token will do.
TakeCached(c) ==
    /\ conn[c].stage = "locking"
    /\ LockFree(c)
    /\ Usable(ScopedTo(c))
    /\ Forward(c, WithToken(c, tokens[ScopedTo(c)], now))
    /\ UNCHANGED <<tun, minter, now>>

\* There is none, or it is too close to its expiry.
StartMint(c) ==
    /\ conn[c].stage = "locking"
    /\ LockFree(c)
    /\ ~Usable(ScopedTo(c))
    /\ lock' = c
    /\ asked' = now
    /\ conn' = [conn EXCEPT ![c].stage = "minting"]
    /\ UNCHANGED <<tun, tokens, now>>

\* GitHub minted at some moment since it was asked: the token is cached and goes on the
\* request, whatever is left of it.
MintReturns(c) ==
    /\ conn[c].stage = "minting"
    /\ \E at \in asked .. now :
        LET token == [of |-> ScopedTo(c), exp |-> at + TTL]
        IN  /\ tokens' = [tokens EXCEPT ![ScopedTo(c)] = token]
            /\ Forward(c, WithToken(c, token, asked))
    /\ lock' = NoConn
    /\ asked' = 0
    /\ UNCHANGED <<tun, now>>

\* No installation, or no answer: nothing is cached, and the request is a 502.
MintFails(c) ==
    /\ conn[c].stage = "minting"
    /\ lock' = NoConn
    /\ asked' = 0
    /\ Closes(c)
    /\ UNCHANGED <<tun, tokens, now>>

\* The response goes back; the connection lives on, or either side ended it.
Respond(c) ==
    /\ conn[c].stage = "forwarded"
    /\ ReadsOn(c) \/ Closes(c)
    /\ UNCHANGED <<tun, minter, now>>

Tick ==
    /\ now < MaxTime
    /\ now' = now + 1
    /\ UNCHANGED <<conn, tun, minter>>

Swap(c) == TakeCached(c) \/ StartMint(c) \/ MintReturns(c) \/ MintFails(c)

Next ==
    \/ \E c \in Conns :
        \/ Dispatch(c) \/ HangsUp(c) \/ Dawdles(c) \/ Copiers(c) \/ TunnelReturns(c)
        \/ Handshake(c) \/ ReadRequest(c) \/ Eof(c) \/ Swap(c) \/ Respond(c)
    \/ Tick

Spec == Init /\ [][Next]_vars

-----------------------------------------------------------------------------
(* Properties *)

Leaving(c) == conn[c].stage = "forwarded"
Bears(hdr)  == hdr.user = "token" \/ hdr.pass = "token"

\* Some credential's pattern matches the host, however it is spelled.
Credentialed(h) == \E cr \in Credentials : \E pat \in cr.hosts : MatchHost(pat, h.name)

\* A credential leaves for the host of the CONNECT only, and only if that host is one
\* of the credential's own; a GitHub token is the authenticated run's, whatever run
\* holds the other connections and whatever repository the request names.
CredentialIsDue ==
    \A c \in Conns : Leaving(c) /\ Bears(conn[c].req.hdr) =>
        /\ conn[c].req.to = conn[c].host
        /\ \E cr \in For(conn[c].host) :
            conn[c].req.scope = IF cr.attach THEN NoRun ELSE conn[c].run

\* No sentinel goes to a host that is due a credential: the request is made with the
\* credential or not at all.  The header shapes no client sends, in which the code does not
\* look for one, are excepted: no scheme, a Basic value that does not decode, or that has
\* no colon.
NoSentinelUpstream ==
    \A c \in Conns : Leaving(c) /\ Credentialed(conn[c].host) =>
        LET hdr == conn[c].req.hdr
        IN  "sentinel" \in {hdr.user, hdr.pass} =>
                hdr.shape \in {"noscheme", "undecodable", "nocolon"}

\* What is tunnelled is due nothing: however a host is spelled, the certificate covers
\* every host some credential's pattern matches, as NewCreds's one sample promised.
TunnelIsDueNothing ==
    \A c \in Conns : conn[c].stage = "copying" => ~Credentialed(conn[c].host)

\* A token that leaves has more than the skew left, so far as the minter can help it: the
\* one exception is a fresh token whose own round trip, on which there is no deadline, took
\* the rest of its life.
TokenOutlivesRequest ==
    \A c \in Conns : Leaving(c) /\ conn[c].req.scope # NoRun =>
        conn[c].req.left > Skew \/ conn[c].req.trip >= TTL - Skew

\* A token of use is not minted over: concurrent requests of a run share one mint.
MintedOnce == [][\A r \in Runs : Usable(r) => tokens'[r] = tokens[r]]_vars

\* A copier is blocked in a write its peer does not take.
Blocked(t) == (~t.out /\ "up" \in t.full) \/ (~t.back /\ "down" \in t.full)

\* A half-close ends the pair instead of parking it: a tunnel one side of which hung up is
\* not waiting for the other side to hang up too.  It may wait for a peer that still holds
\* its end and does not read what is written there: closing what the copier reads does not
\* wake it.
NobodyParked ==
    \A c \in Conns :
        conn[c].stage = "copying" /\ (tun[c].up # "open" \/ tun[c].down # "open") =>
            \/ tun[c].out /\ tun[c].back
            \/ ~tun[c].out /\ tun[c].down # "open"
            \/ ~tun[c].back /\ tun[c].up # "open"
            \/ Blocked(tun[c])

-----------------------------------------------------------------------------
(* The inductive invariant *)

\* A header that may leave for a host that is due a credential.
Presentable(hdr) ==
    "sentinel" \in {hdr.user, hdr.pass} => hdr.shape \in {"noscheme", "undecodable", "nocolon"}

\* A request that may leave for the host its connection was opened to, by the run that is
\* calling.
MayLeave(req, host, run) ==
    /\ req.to = host
    /\ Bears(req.hdr) => \E cr \in For(host) : req.scope = IF cr.attach THEN NoRun ELSE run
    /\ For(host) # {} => Presentable(req.hdr)
    /\ req.scope # NoRun => req.left > Skew \/ req.trip >= TTL - Skew

\* What a connection at its stage has behind it: a request that waits for a token has a
\* place for it and goes to the CONNECT's host.
InOrder(k) ==
    /\ k.stage \notin {"new", "calling"} => k.run \in Runs /\ k.host \in Asked
    /\ k.stage = "copying" => ~Intercepts(k.host)
    /\ k.stage \in {"locking", "minting"} =>
        /\ k.req.hdr \in Carried /\ Replaceable(k.req.hdr) # {}
        /\ k.req.to = k.host /\ k.req.scope = NoRun
        /\ \E cr \in For(k.host) : ~cr.attach
    /\ k.stage = "forwarded" => MayLeave(k.req, k.host, k.run)

\* An end is closed by the copier that writes to it, on its way out.
Ended(t) == (t.out => t.up = "closed") /\ (t.back => t.down = "closed")

\* The lock is held by the one request that is at GitHub, and by it only because no token
\* of use is there; a token is cached for the run it was minted for, and none outlives the
\* hour from now.
ConnInv ==
    /\ TypeOK
    /\ \A c \in Conns :
        /\ InOrder(conn[c]) /\ Ended(tun[c])
        /\ conn[c].stage = "minting" <=> lock = c
        /\ conn[c].stage = "minting" => ~Usable(conn[c].run)
    /\ asked <= now
    /\ \A r \in Runs : tokens[r] = NoToken \/ (tokens[r].of = r /\ tokens[r].exp <= now + TTL)
=============================================================================
