-------------------------------- MODULE Creds --------------------------------
(***************************************************************************)
(* proxy/creds.go and gar.go: which credential a host is due, and what the *)
(* swap does to an Authorization header.                                   *)
(*                                                                         *)
(* A host name is a sequence of pieces, "." among them, so that a pattern  *)
(* may stand for part of a label: <<"*", "-go", ".", "pkg", ".", "dev">>.  *)
(* A name as spelled adds mixed case and the dot of the root.              *)
(***************************************************************************)
EXTENDS Integers, Sequences, FiniteSets, SequencesExt

CONSTANTS
    Names,        \* host names a client may ask for
    SANs,         \* names and wildcards on the proxy's certificate
    Credentials   \* [name, hosts, attach]

\* A name, a pattern or a SAN is never empty.
ASSUME NameAssumption ==
    /\ \A n \in Names \cup SANs \cup UNION {cr.hosts : cr \in Credentials} :
        n # <<>> /\ n \in Seq(Range(n))
    /\ \A cr \in Credentials : cr.attach \in BOOLEAN

Spelled == [name : Names, cased : BOOLEAN, rooted : BOOLEAN]

\* ToLower and TrimSuffix ".".
Normal(h) == h.name

\* The whole leftmost label, or a part of it, before suffix.
IsLabelBefore(name, suffix) ==
    LET n == Len(name) - Len(suffix)
    IN  n > 0 /\ IsSuffix(suffix, name) /\ \A k \in 1 .. n : name[k] # "."

AnyDepthBefore(pat, name) ==
    IF Head(pat) = "*" THEN Len(name) >= Len(pat) /\ IsSuffix(Tail(pat), name) ELSE pat = name

\* A leading "*" stands for one or more characters within the leftmost label.
MatchHost(pat, name) ==
    IF Head(pat) = "*" THEN IsLabelBefore(name, Tail(pat)) ELSE pat = name

\* x509: a wildcard is a whole label; case and the root's dot do not count.
Covers(san, name) ==
    IF Head(san) = "*" THEN IsLabelBefore(name, Tail(san)) ELSE san = name

Intercepts(h) == \E san \in SANs : Covers(san, Normal(h))

\* NewCreds refuses what the certificate does not cover, by one sample of a pattern,
\* and a host two credentials claim.
Sample(pat) == IF Head(pat) = "*" THEN <<"x">> \o Tail(pat) ELSE pat

NewCredsAccepts ==
    /\ \A cr \in Credentials : cr.hosts # {} /\
           \A pat \in cr.hosts : \E san \in SANs : Covers(san, Sample(pat))
    /\ \A a, b \in Credentials : a # b => a.hosts \cap b.hosts = {}

ASSUME BootAssumption == NewCredsAccepts

\* For: an exact name beats a pattern; of several patterns, whichever the map yields.
For(h) ==
    LET exact == {cr \in Credentials : Normal(h) \in cr.hosts}
    IN  IF exact # {} THEN exact
        ELSE {cr \in Credentials : \E pat \in cr.hosts : MatchHost(pat, Normal(h))}

-----------------------------------------------------------------------------

\* An Authorization header: "basic" has user and pass; "nocolon" is a Basic value with
\* no colon in it, "undecodable" one that is not base64, "noscheme" a value with no space:
\* what they hold is in user.  Any other scheme is "token", with its value in pass.  A half
\* that is not there is "empty".
Halves  == {"sentinel", "own", "empty", "token"}
Headers == [shape : {"none", "basic", "nocolon", "undecodable", "noscheme", "token"},
            user : Halves, pass : Halves]

PasswordOnly(hdr) == {half \in {"pass"} : hdr.shape = "basic" /\ hdr[half] = "sentinel"}

\* The halves the swap replaces.
Replaceable(hdr) ==
    {half \in {"user", "pass"} : hdr.shape \in {"basic", "token"} /\ hdr[half] = "sentinel"}

\* A token is asked for only where one has a place to go.
Wants(cr, hdr) == cr.attach \/ Replaceable(hdr) # {}

\* The header that leaves, once the token is there.
Swapped(cr, hdr) ==
    IF cr.attach THEN [shape |-> "token", user |-> "empty", pass |-> "token"]
    ELSE [shape |-> hdr.shape,
          user |-> IF "user" \in Replaceable(hdr) THEN "token" ELSE hdr.user,
          pass |-> IF "pass" \in Replaceable(hdr) THEN "token" ELSE hdr.pass]
=============================================================================
