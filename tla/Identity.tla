------------------------------ MODULE Identity -------------------------------
(***************************************************************************)
(* proxy/identity.go, orchestrator/jobname.go and ParseIssue: the spellings *)
(* of a run.  It is typed or delivered as owner/repo#n, it names its Job,  *)
(* and it is claimed by its sandbox as a comma-joined user name that the   *)
(* proxy reads back.                                                       *)
(*                                                                         *)
(* A text is a sequence of pieces: a word, or one of the separators.  The  *)
(* pieces of an instance are such that no two sequences of them spell the  *)
(* same text.                                                              *)
(***************************************************************************)
EXTENDS Integers, Sequences, FiniteSetsExt, SequencesExt

CONSTANTS
    Fold,       \* [Pieces -> Pieces]: lower case
    Words,      \* the pieces of letters and digits
    Numbers,    \* the words of digits only
    MaxSlug     \* the pieces of a name that fit before the hash (54 characters)

ASSUME FoldAssumption ==
    /\ Words \subseteq DOMAIN Fold /\ Numbers \subseteq Words
    /\ \A p \in DOMAIN Fold : Fold[p] \in Words <=> p \in Words
ASSUME SeparatorsAssumption == {"/", "#", ",", ".", "_", "-"} \cap Words = {}
ASSUME SlugAssumption == MaxSlug \in Nat

Folded(text) == [k \in DOMAIN text |-> Fold[text[k]]]

AnyName(text) == TRUE

\* GitHub's alphabet.
IsGitHubName(text) == \A k \in DOMAIN text : text[k] \in Words \cup {".", "_", "-"}

\* strings.Cut: what is before and after the first sep, if there is one.
Cut(text, sep) ==
    {<<SubSeq(text, 1, k - 1), SubSeq(text, k + 1, Len(text))>> :
        k \in {j \in DOMAIN text : text[j] = sep /\ \A i \in 1 .. j - 1 : text[i] # sep}}

\* ParseIssue: the run a text spells, if it is owner/repo#n.
ParseIssue(text) ==
    {run \in UNION {{[owner |-> c[1], repo |-> d[1], issue |-> d[2]] : d \in Cut(c[2], "#")} :
                    c \in Cut(text, "/")} :
        /\ run.owner # <<>> /\ run.repo # <<>> /\ run.issue # <<>>
        /\ \A k \in DOMAIN run.issue : run.issue[k] \in Numbers
        /\ IsGitHubName(run.owner) /\ IsGitHubName(run.repo)}

\* Run.String.
String(run) == run.owner \o <<"/">> \o run.repo \o <<"#">> \o run.issue

-----------------------------------------------------------------------------

\* strings.Trim of dashes.
Trim(text) ==
    LET kept == {k \in DOMAIN text : text[k] # "-"}
    IN  IF kept = {} THEN <<>> ELSE SubSeq(text, Min(kept), Max(kept))

Slugify(text) ==
    Trim([k \in DOMAIN text |-> IF text[k] \in Words THEN Fold[text[k]] ELSE "-"])

SlugOf(run) == Slugify(run.owner \o <<"-">> \o run.repo \o <<"-">> \o run.issue)

HashOfSlug(run) == SlugOf(run)
HashOfRaw(run)  == String(run)

\* A hash of the raw identity, case-folded; two identities never share one.
Hash(run) == Folded(String(run))

\* Cut to what fits, and trimmed again; without a slug, the bare hash.
JobName(run) ==
    LET slug == SlugOf(run)
    IN  [slug |-> Trim(SubSeq(slug, 1, Min({MaxSlug, Len(slug)}))), hash |-> Hash(run)]

-----------------------------------------------------------------------------

\* Cred's user name, which the HMAC covers.
Claim(run, uid) == run.owner \o <<",">> \o run.repo \o <<",">> \o run.issue \o <<",">> \o uid

\* strings.Split, into four.
Fields(text, sep) ==
    {f \in UNION {UNION {{<<a[1], b[1], c[1], c[2]>> : c \in Cut(b[2], sep)} : b \in Cut(a[2], sep)} :
                  a \in Cut(text, sep)} : Cut(f[4], sep) = {}}

\* parseRun: four fields and none of them empty.
ParseRun(user) ==
    {[owner |-> f[1], repo |-> f[2], issue |-> f[3], uid |-> f[4]] :
        f \in {g \in Fields(user, ",") : \A k \in 1 .. 4 : g[k] # <<>>}}
=============================================================================
