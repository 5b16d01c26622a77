----------------------------- MODULE ModelRoute ------------------------------
(***************************************************************************)
(* proxy/vertex.go and the part of cmd/proxy that configures it: which of  *)
(* the sandbox's requests is a model call, where it goes, and whose        *)
(* identity is on it.                                                      *)
(*                                                                         *)
(* A path is the sequence of its segments, an empty one where two slashes  *)
(* meet; a host name is a sequence of pieces, as in Creds.                 *)
(***************************************************************************)
EXTENDS Integers, Sequences, FiniteSetsExt

CONSTANTS
    Locations,    \* segments in the alphabet of a location
    ModelCalls    \* segments <model>:<verb> whose verb is an inference call

\* What the operator turned on: the model route, and the end-to-end seam.
Environment == [vertex : BOOLEAN, seam : BOOLEAN]

\* main: the seam without the route is fatal.
Boots(env) == env.seam => env.vertex

-----------------------------------------------------------------------------

\* The request line's path and not a whole URL for some other host.
OriginForm(form) == form = "origin"

\* model: the route is on and the path is under /vertex/; else this is a 501.
OnModelRoute(env, form, path) ==
    env.vertex /\ OriginForm(form) /\ Len(path) >= 2 /\ path[1] = "vertex"

\* TrimPrefix, TrimLeft "/".
Appended(path) ==
    LET named == {k \in 2 .. Len(path) : path[k] # ""}
    IN  IF named = {} THEN <<>> ELSE SubSeq(path, Min(named), Len(path))

\* The API version may or may not be in what the client appended.
Versioned(path) ==
    IF Len(path) >= 2 /\ path[1] = "v1" THEN path ELSE <<"v1">> \o path

\* path.Clean leaves it alone.
IsClean(path) == \A k \in DOMAIN path : path[k] \notin {"", ".", ".."}

\* vertexModelCall.
IsModelCall(path) ==
    /\ Len(path) = 9
    /\ <<path[1], path[2], path[4], path[6], path[8]>>
           = <<"v1", "projects", "locations", "publishers", "models">>
    /\ path[5] \in Locations
    /\ path[9] \in ModelCalls

ScannedLocation(path) == path[Min({k \in DOMAIN path : path[k] = "locations"}) + 1]

\* The capture of the one match.
Location(path) == path[5]

GoogleApis == <<".", "googleapis", ".", "com">>

VertexHost(loc) ==
    CASE loc = "global"       -> <<"aiplatform">> \o GoogleApis
      [] loc \in {"eu", "us"} -> <<"aiplatform", ".", loc, ".", "rep">> \o GoogleApis
      [] OTHER                -> <<loc, "-", "aiplatform">> \o GoogleApis

\* rewriteVertex: the upstream path, unless it is refused.
Rewritten(path) == {up \in {Versioned(Appended(path))} : IsClean(up) /\ IsModelCall(up)}

\* NewVertex: with the seam, the token is a worthless one.
IdentityOn(env) == IF env.seam THEN "stub" ELSE "google"
=============================================================================
