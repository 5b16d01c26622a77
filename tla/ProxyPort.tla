------------------------------ MODULE ProxyPort ------------------------------
(***************************************************************************)
(* The proxy's one port: ProxyConn's CONNECTs, and beside them the one     *)
(* route that is not a CONNECT, the sandbox's model calls (Server.model,   *)
(* Vertex.ServeHTTP).  A connection that was answered without being        *)
(* hijacked is kept alive, and its next request may be either.             *)
(***************************************************************************)
EXTENDS ProxyConn, ModelRoute

CONSTANTS
    Paths    \* the paths a request may name

ASSUME PathsAssumption == \A path \in Paths : path \in Seq(Range(path))

VARIABLES
    env,     \* what the operator turned on; read once, at boot
    call     \* [Conns -> the model call being answered on it]

portVars == <<vars, env, call>>

\* What is sent, to which host and under whose identity; of a refusal, its status.
Answers  == {"none", "501", "405", "400", "502", "sent"}
NoCall   == [answer |-> "none", up |-> <<>>, to |-> <<>>, as |-> "nobody"]
Refused(status) == [NoCall EXCEPT !.answer = status]

Seam == <<"seam">>

PortInit ==
    /\ Init
    /\ env \in {e \in Environment : Boots(e)}
    /\ call = [c \in Conns |-> NoCall]

\* The base of the end-to-end seam, if it is there, stands in for the validated host.
Upstream(up) == IF env.seam THEN Seam ELSE VertexHost(Location(up))

\* A request that is not a CONNECT, from a pod of some run.
Answered(c, answer) ==
    /\ conn[c].stage = "new"
    /\ call' = [call EXCEPT ![c] = answer]
    /\ conn' = [conn EXCEPT ![c].stage = "calling"]
    /\ UNCHANGED <<tun, minter, now, env>>

NotServed(c) ==
    \E form \in {"origin", "absolute"}, path \in Paths :
        ~OnModelRoute(env, form, path) /\ Answered(c, Refused("501"))

\* Not a POST, or not an inference call.
RefusesCall(c) ==
    \E form \in {"origin", "absolute"}, path \in Paths :
        /\ OnModelRoute(env, form, path)
        /\ \/ Answered(c, Refused("405"))
           \/ Rewritten(path) = {} /\ Answered(c, Refused("400"))

\* The identity is asked for per request, and fails before anything is dialled.
IdentityFails(c) ==
    \E form \in {"origin", "absolute"}, path \in Paths :
        /\ OnModelRoute(env, form, path) /\ Rewritten(path) # {} /\ ~env.seam
        /\ Answered(c, Refused("502"))

SendsCall(c) ==
    \E form \in {"origin", "absolute"}, path \in Paths :
        /\ OnModelRoute(env, form, path)
        /\ \E up \in Rewritten(path) :
            Answered(c, [answer |-> "sent", up |-> up, to |-> Upstream(up),
                         as |-> IdentityOn(env)])

\* The answer, a refusal, or a 502 for want of an answer is written: the connection is kept
\* for its next request, or either side ended it.
CallReturns(c) ==
    /\ conn[c].stage = "calling"
    /\ Closes(c)
    /\ call' = [call EXCEPT ![c] = NoCall]
    /\ UNCHANGED <<tun, minter, now, env>>

PortNext ==
    \/ Next /\ UNCHANGED <<env, call>>
    \/ \E c \in Conns :
        NotServed(c) \/ RefusesCall(c) \/ IdentityFails(c) \/ SendsCall(c) \/ CallReturns(c)

PortSpec == PortInit /\ [][PortNext]_portVars

-----------------------------------------------------------------------------
(* Properties *)

\* What a server makes of one more segment: an empty one or a dot is nothing, two dots
\* undo the segment before.
Taken(seen, seg) ==
    CASE seg \in {"", "."} -> seen
      [] seg = ".."        -> IF seen = <<>> THEN seen ELSE Front(seen)
      [] OTHER             -> Append(seen, seg)

\* What it makes of a path.
Resolved(path) ==
    LET seen[n \in 0 .. Len(path)] == IF n = 0 THEN <<>> ELSE Taken(seen[n - 1], path[n])
    IN  seen[Len(path)]

\* A model call that leaves is one inference call still when its upstream has resolved
\* the path, and the host it goes to is the one of the location that path names,
\* whatever the project is called; Google's identity goes to Google only, and the seam
\* gets the worthless one.
ModelCallIsDue ==
    \A c \in Conns : call[c].answer = "sent" =>
        LET up == Resolved(call[c].up)
        IN  /\ IsModelCall(up)
            /\ call[c].to = IF env.seam THEN Seam ELSE VertexHost(up[5])
            /\ call[c].as = "google" <=> IsSuffix(GoogleApis, call[c].to)

\* A call k that was sent is still what rewriteVertex made it, under the identity and to the
\* host the boot chose.
CallOk(k) ==
    k.answer = "sent" =>
        /\ k.up \in Seq(Range(k.up)) /\ IsClean(k.up) /\ IsModelCall(k.up)
        /\ k.to = Upstream(k.up) /\ k.as = IdentityOn(env)

\* The inductive invariant, the types in it.  Only a connection that is being answered has
\* an answer.
PortInv ==
    /\ ConnInv
    /\ env \in Environment /\ Boots(env)
    /\ DOMAIN call = Conns
    /\ \A c \in Conns :
        /\ call[c].answer \in Answers
        /\ conn[c].stage = "calling" <=> call[c].answer # "none"
        /\ CallOk(call[c])
=============================================================================
