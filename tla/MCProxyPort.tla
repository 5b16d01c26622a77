----------------------------- MODULE MCProxyPort -----------------------------
(* A small instance of ProxyPort for TLC. *)
EXTENDS ProxyPort, TLC

CONSTANTS r1, r2, c1, c2

GitHub   == <<"github", ".", "com">>
GoInEU   == <<"eu", "-go", ".", "pkg", ".", "dev">>
DockerEU == <<"eu", "-docker", ".", "pkg", ".", "dev">>
TooDeep  == <<"a", ".", "eu", "-go", ".", "pkg", ".", "dev">>

AllNames == {GitHub, GoInEU, DockerEU, TooDeep}
TheSANs  == {GitHub, <<"*", ".", "pkg", ".", "dev">>}

TheCredentials ==
    {[name |-> "github", hosts |-> {GitHub}, attach |-> FALSE],
     [name |-> "gar", hosts |-> {<<"*", "-go", ".", "pkg", ".", "dev">>}, attach |-> TRUE]}

Plain(n) == [name |-> n, cased |-> FALSE, rooted |-> FALSE]

TheAsked ==
    {Plain(n) : n \in AllNames} \cup {[Plain(GoInEU) EXCEPT !.cased = TRUE, !.rooted = TRUE]}

\* git's two spellings, gh's, the sandbox's own, none, and what no client sends.
TheCarried ==
    {[shape |-> "none", user |-> "empty", pass |-> "empty"],
     [shape |-> "basic", user |-> "own", pass |-> "sentinel"],
     [shape |-> "basic", user |-> "sentinel", pass |-> "empty"],
     [shape |-> "token", user |-> "empty", pass |-> "sentinel"],
     [shape |-> "basic", user |-> "own", pass |-> "own"],
     [shape |-> "undecodable", user |-> "sentinel", pass |-> "empty"]}

Call(project, loc, model) ==
    <<"projects", project, "locations", loc, "publishers", "anthropic", "models", model>>

\* The version given or not, a slash too many, a project called locations; what reaches
\* for another resource, is no inference call, or is not under the prefix.
ThePaths ==
    {<<"vertex", "v1">> \o Call("p", "global", "m:rawPredict"),
     <<"vertex">> \o Call("p", "eu", "m:rawPredict"),
     <<"vertex", "">> \o Call("locations", "us-east5", "m:rawPredict"),
     <<"vertex", "v1">> \o Call("..", "eu", "m:rawPredict"),
     <<"vertex", "v1">> \o Call("p", "evil.com", "m:rawPredict"),
     <<"vertex", "v1", "projects", "p", "locations", "eu", "customJobs">>,
     <<"vertex", "v1">> \o Call("p", "eu", "m:predict"),
     <<"vertex">>, <<"vertex", "">>, <<"vertex", "v1">>,
     Call("p", "eu", "m:rawPredict")}

ConnSymmetry == Permutations({c1, c2}) \cup Permutations({r1, r2})
=============================================================================
