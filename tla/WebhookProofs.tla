---------------------------- MODULE WebhookProofs ----------------------------
(***************************************************************************)
(* What TLAPS proves about Webhook and Identity, for any requests, texts,  *)
(* payloads, commands and kills.                                           *)
(*                                                                         *)
(* Two halves.  The first is about texts: a text that parses is the        *)
(* string of its run, so a Job name depends on no more of it than its      *)
(* folding and on no less, and the proxy reads back the very run that was  *)
(* claimed.  The second is about requests: WebhookInv is inductive, and    *)
(* the properties follow from it and from the first half.                  *)
(***************************************************************************)
EXTENDS Webhook, SequenceTheorems, TLAPS

\* What texts are made of.
Pieces == DOMAIN Fold

-----------------------------------------------------------------------------
(* Texts *)

\* Two texts with a separator between them.
Join(a, sep, b) == a \o <<sep>> \o b

\* t is a, the piece sep, and b, piece by piece.
IsJoin(t, a, sep, b) ==
    /\ Len(t) = Len(a) + 1 + Len(b)
    /\ \A k \in 1 .. Len(a) : t[k] = a[k]
    /\ t[Len(a) + 1] = sep
    /\ \A k \in 1 .. Len(b) : t[Len(a) + 1 + k] = b[k]

\* What is joined is so, piece by piece.
LEMMA Joined ==
    ASSUME NEW S, NEW a \in Seq(S), NEW b \in Seq(S), NEW sep \in S
    PROVE  Join(a, sep, b) \in Seq(S) /\ IsJoin(Join(a, sep, b), a, sep, b)
<1>1. <<sep>> \in Seq(S) /\ Len(<<sep>>) = 1 /\ <<sep>>[1] = sep
    OBVIOUS
<1>2. /\ a \o <<sep>> \in Seq(S) /\ Len(a \o <<sep>>) = Len(a) + 1
      /\ \A k \in 1 .. Len(a) + 1 : (a \o <<sep>>)[k] = IF k <= Len(a) THEN a[k] ELSE <<sep>>[k - Len(a)]
    BY <1>1, ConcatProperties
<1>3. Len(a) \in Nat /\ Len(b) \in Nat
    BY LenProperties
<1>4. /\ a \o <<sep>> \o b \in Seq(S) /\ Len(a \o <<sep>> \o b) = Len(a) + 1 + Len(b)
      /\ \A k \in 1 .. Len(a) + 1 + Len(b) :
            (a \o <<sep>> \o b)[k] = IF k <= Len(a) + 1 THEN (a \o <<sep>>)[k] ELSE b[k - (Len(a) + 1)]
    BY <1>2, ConcatProperties
<1> QED
    BY <1>1, <1>2, <1>3, <1>4 DEF Join, IsJoin

\* The separator is nowhere in the text.
HasNo(a, sep) == \A k \in DOMAIN a : a[k] # sep

\* A text is cut at the separator that was put into it, if its first part has none.
LEMMA CutOfJoined ==
    ASSUME NEW S, NEW a \in Seq(S), NEW b \in Seq(S), NEW sep \in S,
           HasNo(a, sep)
    PROVE  Cut(Join(a, sep, b), sep) = {<<a, b>>}
<1> DEFINE text == Join(a, sep, b)
<1>0. text \in Seq(S) /\ IsJoin(text, a, sep, b)
    BY Joined
<1>1. /\ text \in Seq(S) /\ Len(text) = Len(a) + 1 + Len(b)
      /\ \A k \in 1 .. Len(a) : text[k] = a[k]
      /\ text[Len(a) + 1] = sep
      /\ \A k \in 1 .. Len(b) : text[Len(a) + 1 + k] = b[k]
    BY <1>0 DEF IsJoin
<1>2. Len(a) \in Nat /\ Len(b) \in Nat /\ DOMAIN a = 1 .. Len(a) /\ DOMAIN b = 1 .. Len(b)
      /\ DOMAIN text = 1 .. Len(text)
    BY <1>1, LenProperties
<1> HIDE DEF text
<1>3. {j \in DOMAIN text : text[j] = sep /\ \A i \in 1 .. j - 1 : text[i] # sep} = {Len(a) + 1}
  <2>1. Len(a) + 1 \in DOMAIN text /\ \A i \in 1 .. (Len(a) + 1) - 1 : text[i] # sep
    <3>1. Len(a) + 1 \in 1 .. Len(text) /\ (Len(a) + 1) - 1 = Len(a)
      BY <1>1, <1>2
    <3>2. \A i \in 1 .. Len(a) : text[i] = a[i] /\ a[i] # sep
      BY <1>1, <1>2 DEF HasNo
    <3> QED
      BY <1>2, <3>1, <3>2
  <2>2. ASSUME NEW j \in DOMAIN text, text[j] = sep, \A i \in 1 .. j - 1 : text[i] # sep
        PROVE  j = Len(a) + 1
    <3>1. j \in Int /\ 1 <= j
      BY <1>1, <1>2
    <3>2. ~(j < Len(a) + 1)
      <4>1. j < Len(a) + 1 => j \in 1 .. Len(a)
        BY <3>1, <1>2
      <4> QED
        BY <4>1, <1>1, <1>2, <2>2 DEF HasNo
    <3>3. ~(Len(a) + 1 < j)
      <4>1. Len(a) + 1 < j => Len(a) + 1 \in 1 .. j - 1
        BY <3>1, <1>2
      <4> QED
        BY <4>1, <1>1, <2>2
    <3> QED
      BY <3>1, <3>2, <3>3, <1>2
  <2> QED
    BY <1>1, <2>1, <2>2
<1>4. SubSeq(text, 1, Len(a)) = a
  <2>1. /\ SubSeq(text, 1, Len(a)) \in Seq(S) /\ Len(SubSeq(text, 1, Len(a))) = Len(a)
        /\ \A i \in 1 .. Len(a) : SubSeq(text, 1, Len(a))[i] = text[i]
    BY <1>1, <1>2, SubSeqProperties
  <2> QED
    BY <2>1, <1>1, SeqEqual
<1>5. SubSeq(text, Len(a) + 2, Len(text)) = b
  <2>1. /\ SubSeq(text, Len(a) + 2, Len(text)) \in Seq(S)
        /\ Len(SubSeq(text, Len(a) + 2, Len(text))) = Len(b)
        /\ \A i \in 1 .. Len(b) : SubSeq(text, Len(a) + 2, Len(text))[i] = text[Len(a) + 1 + i]
    BY <1>1, <1>2, SubSeqProperties
  <2> QED
    BY <2>1, <1>1, SeqEqual
<1>6. Cut(text, sep) = {<<SubSeq(text, 1, k - 1), SubSeq(text, k + 1, Len(text))>> : k \in {Len(a) + 1}}
    BY <1>3 DEF Cut
<1>7. Cut(text, sep) = {<<SubSeq(text, 1, Len(a)), SubSeq(text, Len(a) + 2, Len(text))>>}
    BY <1>2, <1>6
<1> QED
    BY <1>4, <1>5, <1>7 DEF text

\* A text is its pieces before k, the one at k, and those behind it.
LEMMA SplitIsJoined ==
    ASSUME NEW S, NEW text \in Seq(S), NEW k \in 1 .. Len(text)
    PROVE  text = Join(SubSeq(text, 1, k - 1), text[k], SubSeq(text, k + 1, Len(text)))
<1>1. Len(text) \in Nat
    BY LenProperties
<1>2. SubSeq(text, 1, k) = SubSeq(text, 1, k - 1) \o <<text[k]>>
  <2>1. 1 \in 1 .. Len(text) /\ k \in 1 .. Len(text)
    BY <1>1
  <2> QED
    BY <2>1, SubSeqRecursiveSecond
<1>3. SubSeq(text, 1, k) \o SubSeq(text, k + 1, Len(text)) = SubSeq(text, 1, Len(text))
  <2>1. 1 \in 1 .. Len(text) + 1 /\ k \in 1 - 1 .. Len(text) /\ Len(text) \in k .. Len(text)
    BY <1>1
  <2> QED
    BY <2>1, ConcatAdjacentSubSeq
<1> QED
    BY <1>2, <1>3, SubSeqFull DEF Join

\* What is cut is joined again by the separator.
LEMMA CutIsJoined ==
    ASSUME NEW S, NEW text \in Seq(S), NEW sep, NEW c \in Cut(text, sep)
    PROVE  /\ c[1] \in Seq(S) /\ c[2] \in Seq(S)
           /\ sep \in S
           /\ text = Join(c[1], sep, c[2])
<1>1. PICK k \in DOMAIN text : /\ text[k] = sep
                               /\ c = <<SubSeq(text, 1, k - 1), SubSeq(text, k + 1, Len(text))>>
    BY DEF Cut
<1>2. Len(text) \in Nat /\ k \in 1 .. Len(text) /\ \A i \in 1 .. Len(text) : text[i] \in S
    BY LenProperties, ElementOfSeq
<1>3. SubSeq(text, 1, k - 1) \in Seq(S) /\ SubSeq(text, k + 1, Len(text)) \in Seq(S)
    BY <1>2, SubSeqProperties
<1>4. text = Join(SubSeq(text, 1, k - 1), text[k], SubSeq(text, k + 1, Len(text)))
    BY <1>2, SplitIsJoined
<1> QED
    BY <1>1, <1>2, <1>3, <1>4

\* Where three parts are joined, it does not matter which are joined first.
LEMMA JoinIsAssociative ==
    ASSUME NEW S, NEW a \in Seq(S), NEW b \in Seq(S), NEW c \in Seq(S), NEW d \in S, NEW e \in S
    PROVE  Join(Join(a, d, b), e, c) = Join(a, d, Join(b, e, c))
<1> DEFINE Cat(s, t) == s \o t
           x == <<d>>
           y == <<e>>
<1>1. x \in Seq(S) /\ y \in Seq(S)
    OBVIOUS
<1>2. \A s, t \in Seq(S) : Cat(s, t) \in Seq(S)
    BY ConcatProperties
<1>3. \A s, t, u \in Seq(S) : (s \o t) \o u = s \o (t \o u)
    BY ONLY ConcatAssociative
<1>4. \A s, t, u \in Seq(S) : Cat(Cat(s, t), u) = Cat(s, Cat(t, u))
    BY ONLY <1>3
<1>5. /\ Join(Join(a, d, b), e, c) = Cat(Cat(Cat(Cat(a, x), b), y), c)
      /\ Join(a, d, Join(b, e, c)) = Cat(Cat(a, x), Cat(Cat(b, y), c))
    BY DEF Join
<1> HIDE DEF Cat, x, y
<1>6. Cat(a, x) \in Seq(S) /\ Cat(b, y) \in Seq(S)
    BY <1>1, <1>2
<1>7. Cat(Cat(Cat(a, x), b), y) = Cat(Cat(a, x), Cat(b, y))
    BY <1>1, <1>4, <1>6
<1>8. Cat(Cat(Cat(a, x), Cat(b, y)), c) = Cat(Cat(a, x), Cat(Cat(b, y), c))
    BY <1>4, <1>6
<1> QED
    BY <1>5, <1>7, <1>8

-----------------------------------------------------------------------------
(* Runs *)

\* A text that parses is the string of the run it parses to, whose owner and repository
\* are GitHub's names.
LEMMA ParsedIsSpelled ==
    ASSUME NEW text \in Seq(Pieces), NEW run \in ParseIssue(text)
    PROVE  /\ run.owner \in Seq(Pieces) /\ run.repo \in Seq(Pieces) /\ run.issue \in Seq(Pieces)
           /\ run.owner # <<>> /\ run.repo # <<>> /\ run.issue # <<>>
           /\ IsGitHubName(run.owner) /\ IsGitHubName(run.repo)
           /\ \A k \in DOMAIN run.issue : run.issue[k] \in Numbers
           /\ {"/", "#"} \subseteq Pieces
           /\ String(run) = text
<1>1. PICK c \in Cut(text, "/") : \E d \in Cut(c[2], "#") :
          run = [owner |-> c[1], repo |-> d[1], issue |-> d[2]]
    BY DEF ParseIssue
<1>2. PICK d \in Cut(c[2], "#") : run = [owner |-> c[1], repo |-> d[1], issue |-> d[2]]
    BY <1>1
<1>3. c[1] \in Seq(Pieces) /\ c[2] \in Seq(Pieces) /\ "/" \in Pieces /\ text = Join(c[1], "/", c[2])
  <2>1. text \in Seq(Pieces) /\ c \in Cut(text, "/")
    OBVIOUS
  <2> QED
    BY ONLY <2>1, CutIsJoined
<1>4. d[1] \in Seq(Pieces) /\ d[2] \in Seq(Pieces) /\ "#" \in Pieces /\ c[2] = Join(d[1], "#", d[2])
  <2>1. c[2] \in Seq(Pieces) /\ d \in Cut(c[2], "#")
    BY <1>3
  <2> QED
    BY ONLY <2>1, CutIsJoined
<1>5. run.owner = c[1] /\ run.repo = d[1] /\ run.issue = d[2]
    BY <1>2
<1>6. String(run) = text
  <2>1. String(run) = Join(Join(run.owner, "/", run.repo), "#", run.issue)
    BY DEF String, Join
  <2>2. Join(Join(run.owner, "/", run.repo), "#", run.issue)
            = Join(run.owner, "/", Join(run.repo, "#", run.issue))
    BY <1>3, <1>4, <1>5, JoinIsAssociative
  <2>3. text = Join(run.owner, "/", Join(run.repo, "#", run.issue))
    BY <1>3, <1>4, <1>5
  <2> QED
    BY ONLY <2>1, <2>2, <2>3
<1>7. /\ run.owner # <<>> /\ run.repo # <<>> /\ run.issue # <<>>
      /\ IsGitHubName(run.owner) /\ IsGitHubName(run.repo)
      /\ \A k \in DOMAIN run.issue : run.issue[k] \in Numbers
    BY DEF ParseIssue
<1> QED
    BY <1>3, <1>4, <1>5, <1>6, <1>7

\* A slug before its dashes are trimmed.
Dashed(text) == [k \in DOMAIN text |-> IF text[k] \in Words THEN Fold[text[k]] ELSE "-"]

\* Two texts that fold to one differ in no word but in its case.
LEMMA DashedIsFolded ==
    ASSUME NEW s \in Seq(Pieces), NEW t \in Seq(Pieces), Folded(s) = Folded(t)
    PROVE  Dashed(s) = Dashed(t)
<1>1. DOMAIN Folded(s) = DOMAIN s /\ DOMAIN Folded(t) = DOMAIN t
    BY DEF Folded
<1>2. DOMAIN s = DOMAIN t
    BY <1>1
<1>3. ASSUME NEW k \in DOMAIN s
      PROVE  Fold[s[k]] = Fold[t[k]] /\ (s[k] \in Words <=> t[k] \in Words)
  <2>1. Folded(s)[k] = Fold[s[k]] /\ Folded(t)[k] = Fold[t[k]]
    BY <1>2 DEF Folded
  <2>2. s[k] \in Pieces /\ t[k] \in Pieces
    BY <1>2, LenProperties, ElementOfSeq
  <2> QED
    BY <2>1, <2>2, FoldAssumption DEF Pieces
<1> QED
    BY <1>2, <1>3 DEF Dashed

\* The dashes that join a slug stand where the string has its separators.
LEMMA SlugIsOfString ==
    ASSUME NEW owner \in Seq(Pieces), NEW repo \in Seq(Pieces), NEW issue \in Seq(Pieces),
           {"/", "#"} \subseteq Pieces
    PROVE  Dashed(owner \o <<"-">> \o repo \o <<"-">> \o issue)
               = Dashed(owner \o <<"/">> \o repo \o <<"#">> \o issue)
<1> DEFINE P == Pieces \cup {"-"}
           l == Join(owner, "-", repo)
           m == Join(owner, "/", repo)
           s == Join(l, "-", issue)
           t == Join(m, "#", issue)
<1>1. owner \in Seq(P) /\ repo \in Seq(P) /\ issue \in Seq(P)
    BY SeqMonotonic
<1>2. "-" \in P /\ "/" \in P /\ "#" \in P
    OBVIOUS
<1> HIDE DEF P
<1>3. l \in Seq(P) /\ IsJoin(l, owner, "-", repo)
    BY <1>1, <1>2, Joined
<1>4. m \in Seq(P) /\ IsJoin(m, owner, "/", repo)
    BY <1>1, <1>2, Joined
<1>5. Len(owner) \in Nat /\ Len(repo) \in Nat /\ Len(issue) \in Nat
    BY LenProperties
<1> HIDE DEF l, m
<1>6. s \in Seq(P) /\ IsJoin(s, l, "-", issue)
    BY <1>1, <1>2, <1>3, Joined
<1>7. t \in Seq(P) /\ IsJoin(t, m, "#", issue)
    BY <1>1, <1>2, <1>4, Joined
<1> HIDE DEF s, t
<1>8. Len(l) \in Nat /\ Len(m) = Len(l) /\ Len(l) = Len(owner) + 1 + Len(repo)
    BY <1>3, <1>4, <1>5 DEF IsJoin
<1>9. Len(s) \in Nat /\ Len(t) = Len(s) /\ Len(s) = Len(l) + 1 + Len(issue)
    BY <1>5, <1>6, <1>7, <1>8 DEF IsJoin
<1>10. ASSUME NEW k \in 1 .. Len(s)
       PROVE  s[k] = t[k] \/ (s[k] = "-" /\ t[k] \in {"/", "#"})
  <2>1. CASE k \in 1 .. Len(owner)
    <3>1. k \in 1 .. Len(l) /\ k \in 1 .. Len(m)
      BY <2>1, <1>5, <1>8
    <3>2. s[k] = l[k] /\ t[k] = m[k]
      BY <3>1, <1>6, <1>7 DEF IsJoin
    <3> QED
      BY <2>1, <3>2, <1>3, <1>4 DEF IsJoin
  <2>2. CASE k = Len(owner) + 1
    <3>1. k \in 1 .. Len(l) /\ k \in 1 .. Len(m)
      BY <2>2, <1>5, <1>8
    <3>2. s[k] = l[k] /\ t[k] = m[k]
      BY <3>1, <1>6, <1>7 DEF IsJoin
    <3> QED
      BY <2>2, <3>2, <1>3, <1>4 DEF IsJoin
  <2>3. CASE k > Len(owner) + 1 /\ k <= Len(l)
    <3> DEFINE i == k - (Len(owner) + 1)
    <3>1. k \in 1 .. Len(l) /\ k \in 1 .. Len(m) /\ i \in 1 .. Len(repo) /\ Len(owner) + 1 + i = k
      BY <2>3, <1>5, <1>8
    <3> HIDE DEF i
    <3>2. s[k] = l[k] /\ t[k] = m[k]
      BY <3>1, <1>6, <1>7 DEF IsJoin
    <3>3. l[k] = repo[i] /\ m[k] = repo[i]
      <4>1. l[Len(owner) + 1 + i] = repo[i]
        BY <3>1, <1>3 DEF IsJoin
      <4>2. m[Len(owner) + 1 + i] = repo[i]
        BY <3>1, <1>4 DEF IsJoin
      <4> QED
        BY <3>1, <4>1, <4>2
    <3> QED
      BY <3>2, <3>3
  <2>4. CASE k = Len(l) + 1
    BY <2>4, <1>6, <1>7, <1>8 DEF IsJoin
  <2>5. CASE k > Len(l) + 1
    <3> DEFINE i == k - (Len(l) + 1)
    <3>1. i \in 1 .. Len(issue) /\ Len(l) + 1 + i = k
      BY <2>5, <1>5, <1>8, <1>9
    <3> HIDE DEF i
    <3>2. s[Len(l) + 1 + i] = issue[i]
      BY <3>1, <1>6 DEF IsJoin
    <3>3. t[Len(m) + 1 + i] = issue[i]
      BY <3>1, <1>7 DEF IsJoin
    <3> QED
      BY <3>1, <3>2, <3>3, <1>8
  <2>6. k \in Int /\ 1 <= k /\ Len(owner) \in Int /\ Len(l) \in Int
    BY <1>5, <1>8, <1>9
  <2>7. \/ k \in 1 .. Len(owner) \/ k = Len(owner) + 1 \/ (k > Len(owner) + 1 /\ k <= Len(l))
        \/ k = Len(l) + 1 \/ k > Len(l) + 1
    BY ONLY <2>6
  <2> QED
    BY <2>1, <2>2, <2>3, <2>4, <2>5, <2>7
<1>11. DOMAIN s = 1 .. Len(s) /\ DOMAIN t = 1 .. Len(s)
    BY <1>6, <1>7, <1>9, LenProperties
<1>12. "-" \notin Words /\ "/" \notin Words /\ "#" \notin Words
    BY SeparatorsAssumption
<1>13. Dashed(s) = Dashed(t)
    BY <1>10, <1>11, <1>12 DEF Dashed
<1> QED
    BY <1>13 DEF s, t, l, m, Join

\* The text decides the slug, and no more of it than its folding.
LEMMA SlugIsOfText ==
    ASSUME NEW text \in Seq(Pieces), NEW run \in ParseIssue(text)
    PROVE  SlugOf(run) = Trim(Dashed(text))
<1>1. /\ run.owner \in Seq(Pieces) /\ run.repo \in Seq(Pieces) /\ run.issue \in Seq(Pieces)
      /\ {"/", "#"} \subseteq Pieces /\ String(run) = text
    BY ParsedIsSpelled
<1>2. SlugOf(run) = Trim(Dashed(run.owner \o <<"-">> \o run.repo \o <<"-">> \o run.issue))
    BY DEF SlugOf, Slugify, Dashed
<1>3. Dashed(run.owner \o <<"-">> \o run.repo \o <<"-">> \o run.issue)
          = Dashed(run.owner \o <<"/">> \o run.repo \o <<"#">> \o run.issue)
    BY <1>1, SlugIsOfString
<1>4. run.owner \o <<"/">> \o run.repo \o <<"#">> \o run.issue = text
    BY <1>1 DEF String
<1> QED
    BY <1>2, <1>3, <1>4

\* Two spellings of one issue name one Job.
LEMMA NameIsOfFolding ==
    ASSUME NEW s \in Seq(Pieces), NEW t \in Seq(Pieces), Folded(s) = Folded(t),
           NEW run \in ParseIssue(s), NEW other \in ParseIssue(t)
    PROVE  JobName(run) = JobName(other)
<1>1. SlugOf(run) = SlugOf(other)
    BY SlugIsOfText, DashedIsFolded
<1>2. Hash(run) = Hash(other)
    BY ParsedIsSpelled DEF Hash
<1> QED
    BY <1>1, <1>2 DEF JobName

\* Two texts that name one Job are spellings of one issue.
LEMMA FoldingIsOfName ==
    ASSUME NEW s \in Seq(Pieces), NEW t \in Seq(Pieces),
           NEW run \in ParseIssue(s), NEW other \in ParseIssue(t), JobName(run) = JobName(other)
    PROVE  Folded(s) = Folded(t)
<1>1. JobName(run).hash = Hash(run) /\ JobName(other).hash = Hash(other)
    BY DEF JobName
<1>2. Hash(run) = Folded(s) /\ Hash(other) = Folded(t)
    BY ParsedIsSpelled DEF Hash
<1> QED
    BY <1>1, <1>2

-----------------------------------------------------------------------------
(* Claims *)

\* Four fields with no separator in them are split as they were joined.
LEMMA FieldsOfJoined ==
    ASSUME NEW S, NEW sep \in S,
           NEW a \in Seq(S), NEW b \in Seq(S), NEW c \in Seq(S), NEW d \in Seq(S),
           HasNo(a, sep), HasNo(b, sep), HasNo(c, sep), HasNo(d, sep)
    PROVE  Fields(Join(Join(Join(a, sep, b), sep, c), sep, d), sep) = {<<a, b, c, d>>}
<1>1. PICK x : x = Join(c, sep, d)
    OBVIOUS
<1>2. PICK y : y = Join(b, sep, x)
    OBVIOUS
<1>3. PICK z : z = Join(a, sep, y)
    OBVIOUS
<1>4. x \in Seq(S) /\ Cut(x, sep) = {<<c, d>>}
  <2>1. Join(c, sep, d) \in Seq(S)
    BY Joined
  <2>2. Cut(Join(c, sep, d), sep) = {<<c, d>>}
    BY CutOfJoined
  <2> QED
    BY <1>1, <2>1, <2>2
<1>5. y \in Seq(S) /\ Cut(y, sep) = {<<b, x>>}
  <2>1. Join(b, sep, x) \in Seq(S)
    BY <1>4, Joined
  <2>2. Cut(Join(b, sep, x), sep) = {<<b, x>>}
    BY <1>4, CutOfJoined
  <2> QED
    BY <1>2, <2>1, <2>2
<1>6. z \in Seq(S) /\ Cut(z, sep) = {<<a, y>>}
  <2>1. Join(a, sep, y) \in Seq(S)
    BY <1>5, Joined
  <2>2. Cut(Join(a, sep, y), sep) = {<<a, y>>}
    BY <1>5, CutOfJoined
  <2> QED
    BY <1>3, <2>1, <2>2
<1>7. Cut(d, sep) = {}
    BY DEF Cut, HasNo
<1>8. Join(Join(Join(a, sep, b), sep, c), sep, d) = z
  <2>1. PICK w \in Seq(S) : w = Join(a, sep, b)
    BY Joined
  <2>2. Join(Join(w, sep, c), sep, d) = Join(w, sep, x)
    BY <1>1, JoinIsAssociative
  <2>3. Join(w, sep, x) = Join(a, sep, y)
    BY <1>2, <1>4, <2>1, JoinIsAssociative
  <2> QED
    BY <1>3, <2>1, <2>2, <2>3
<1>9. UNION {{<<a, f[1], g[1], g[2]>> : g \in Cut(f[2], sep)} : f \in Cut(y, sep)} = {<<a, b, c, d>>}
  <2>1. {<<a, b, g[1], g[2]>> : g \in Cut(x, sep)} = {<<a, b, c, d>>}
    BY <1>4
  <2>2. {{<<a, f[1], g[1], g[2]>> : g \in Cut(f[2], sep)} : f \in Cut(y, sep)}
            = {{<<a, b, g[1], g[2]>> : g \in Cut(x, sep)}}
    BY <1>5
  <2> QED
    BY <2>1, <2>2
<1>10. UNION {UNION {{<<e[1], f[1], g[1], g[2]>> : g \in Cut(f[2], sep)} : f \in Cut(e[2], sep)} :
                  e \in Cut(z, sep)} = {<<a, b, c, d>>}
    BY <1>6, <1>9
<1>11. Fields(z, sep) = {<<a, b, c, d>>}
    BY <1>7, <1>10 DEF Fields
<1> QED
    BY <1>8, <1>11

\* The separator of the fields of a claim.
Comma == ","

\* A comma is in no name.
LEMMA CommaIsForeign == Comma \notin Words \cup {".", "_", "-"}
BY SeparatorsAssumption DEF Comma

\* The claim of a run that was parsed, with whatever uid has no comma in it, is read back as
\* that run with that uid.
LEMMA ClaimIsReadBack ==
    ASSUME NEW text \in Seq(Pieces), NEW run \in ParseIssue(text),
           NEW P, Pieces \subseteq P, Comma \in P,
           NEW uid \in Seq(P), uid # <<>>, HasNo(uid, Comma)
    PROVE  ParseRun(Claim(run, uid)) =
               {[owner |-> run.owner, repo |-> run.repo, issue |-> run.issue, uid |-> uid]}
<1> DEFINE f == <<run.owner, run.repo, run.issue, uid>>
<1>1. /\ run.owner \in Seq(Pieces) /\ run.repo \in Seq(Pieces) /\ run.issue \in Seq(Pieces)
      /\ run.owner # <<>> /\ run.repo # <<>> /\ run.issue # <<>>
      /\ IsGitHubName(run.owner) /\ IsGitHubName(run.repo)
      /\ \A k \in DOMAIN run.issue : run.issue[k] \in Numbers
    BY ParsedIsSpelled
<1>2. run.owner \in Seq(P) /\ run.repo \in Seq(P) /\ run.issue \in Seq(P)
    BY <1>1, SeqMonotonic
<1>3. HasNo(run.owner, Comma) /\ HasNo(run.repo, Comma)
    BY <1>1, CommaIsForeign DEF IsGitHubName, HasNo
<1>4. HasNo(run.issue, Comma)
    BY <1>1, CommaIsForeign, FoldAssumption DEF HasNo
<1>5. Claim(run, uid) = Join(Join(Join(run.owner, Comma, run.repo), Comma, run.issue), Comma, uid)
    BY DEF Claim, Join, Comma
<1>6. Fields(Claim(run, uid), Comma) = {f}
  <2>1. Fields(Join(Join(Join(run.owner, Comma, run.repo), Comma, run.issue), Comma, uid), Comma) = {f}
    BY <1>2, <1>3, <1>4, FieldsOfJoined
  <2> QED
    BY <1>5, <2>1
<1>7. f[1] = run.owner /\ f[2] = run.repo /\ f[3] = run.issue /\ f[4] = uid
    OBVIOUS
<1> HIDE DEF f
<1>8. \A k \in 1 .. 4 : f[k] # <<>>
    BY <1>1, <1>7
<1>9. ParseRun(Claim(run, uid)) =
          {[owner |-> e[1], repo |-> e[2], issue |-> e[3], uid |-> e[4]] :
              e \in {g \in Fields(Claim(run, uid), Comma) : \A k \in 1 .. 4 : g[k] # <<>>}}
    BY DEF ParseRun, Comma
<1> QED
    BY <1>6, <1>7, <1>8, <1>9

\* What parses is read back.
LEMMA SpelledIsReadBack == Spelled \subseteq ReadBack
<1> DEFINE P == Pieces \cup {Comma, "uid"}
<1> SUFFICES ASSUME NEW r \in Spelled PROVE r \in ReadBack
    OBVIOUS
<1>1. r \in Runs /\ Text[r] \in Seq(Pieces) /\ ParseIssue(Text[r]) # {}
    BY TextAssumption DEF Spelled, Pieces
<1>2. PICK run \in ParseIssue(Text[r]) : TRUE
    BY <1>1
<1>3. <<"uid">> \in Seq(P) /\ <<"uid">> # <<>> /\ Pieces \subseteq P /\ Comma \in P
    OBVIOUS
<1>4. HasNo(<<"uid">>, Comma)
  <2>1. Comma # "uid"
    BY DEF Comma
  <2> QED
    BY <2>1 DEF HasNo
<1> HIDE DEF P
<1>5. ParseRun(Claim(run, <<"uid">>)) =
          {[owner |-> run.owner, repo |-> run.repo, issue |-> run.issue, uid |-> <<"uid">>]}
    BY <1>1, <1>3, <1>4, ClaimIsReadBack
<1> QED
    BY <1>1, <1>5 DEF ReadBack

-----------------------------------------------------------------------------
(* The checks *)

\* Of a few checks that fail, one is the first.
LEMMA FirstOfTwelve ==
    ASSUME NEW S, S \subseteq 1 .. 12, S # {}
    PROVE  Min(S) \in S
<1>1. \E x \in S : \A y \in S : x <= y
  <2> SUFFICES ASSUME \A x \in S : \E y \in S : y < x PROVE FALSE
    OBVIOUS
  <2>1. 1 \notin S
    OBVIOUS
  <2>2. 2 \notin S
    BY <2>1
  <2>3. 3 \notin S
    BY <2>1, <2>2
  <2>4. 4 \notin S
    BY <2>1, <2>2, <2>3
  <2>5. 5 \notin S
    BY <2>1, <2>2, <2>3, <2>4
  <2>6. 6 \notin S
    BY <2>1, <2>2, <2>3, <2>4, <2>5
  <2>7. 7 \notin S
    BY <2>1, <2>2, <2>3, <2>4, <2>5, <2>6
  <2>8. 8 \notin S
    BY <2>1, <2>2, <2>3, <2>4, <2>5, <2>6, <2>7
  <2>9. 9 \notin S
    BY <2>1, <2>2, <2>3, <2>4, <2>5, <2>6, <2>7, <2>8
  <2>10. 10 \notin S
    BY <2>1, <2>2, <2>3, <2>4, <2>5, <2>6, <2>7, <2>8, <2>9
  <2>11. 11 \notin S
    BY <2>1, <2>2, <2>3, <2>4, <2>5, <2>6, <2>7, <2>8, <2>9, <2>10
  <2>12. 12 \notin S
    BY <2>1, <2>2, <2>3, <2>4, <2>5, <2>6, <2>7, <2>8, <2>9, <2>10, <2>11
  <2>13. PICK x \in S : x \in 1 .. 12
    OBVIOUS
  <2> QED
    BY <2>1, <2>2, <2>3, <2>4, <2>5, <2>6, <2>7, <2>8, <2>9, <2>10, <2>11, <2>12, <2>13
<1> QED
    BY <1>1 DEF Min

\* A refusal is one of the answers.
LEMMA RefusalIsCode ==
    ASSUME NEW r, ~Passes(r)
    PROVE  Refusal(r) \in Codes
<1>1. FailedChecks(r) \subseteq 1 .. 12
    BY DEF FailedChecks, Checks
<1>2. Min(FailedChecks(r)) \in 1 .. 12
    BY <1>1, FirstOfTwelve DEF Passes
<1>3. \A k \in 1 .. 12 : Checks(r, req[r].payload)[k][2] \in Codes
    BY DEF Checks, Codes
<1> QED
    BY <1>2, <1>3 DEF Refusal

\* What reached Start is the trigger.
LEMMA PassesIsTrigger ==
    ASSUME NEW r, Passes(r)
    PROVE  LET p == req[r].payload
           IN  /\ p.secret /\ p.signed /\ p.event = "issues" /\ p.action = "labeled"
               /\ p.label = "ready" /\ p.number > 0 /\ p.state = "open" /\ Authorized(p)
               /\ r \in Spelled
<1> DEFINE checks == Checks(r, req[r].payload)
<1>1. \A k \in DOMAIN checks : checks[k][1]
    BY DEF Passes, FailedChecks
<1>2. DOMAIN checks = 1 .. 12
    BY DEF Checks
<1>3. checks[1][1] /\ checks[3][1] /\ checks[4][1] /\ checks[6][1] /\ checks[8][1] /\ checks[9][1]
      /\ checks[10][1] /\ checks[11][1] /\ checks[12][1]
    BY <1>1, <1>2
<1> QED
    BY <1>3 DEF Checks

\* The checks look at the payload alone.
LEMMA PassesKept ==
    ASSUME NEW r, req'[r].payload = req[r].payload
    PROVE  Passes(r)' <=> Passes(r)
BY DEF Passes, FailedChecks

-----------------------------------------------------------------------------
(* The invariant *)

\* What is said of one request but of its name.
OwnInv(r) ==
    /\ SendIsDue(r) /\ JobIsCreated(r)
    /\ Accepted(r) => Started(result[r])
    /\ IF r \in Commands THEN req[r].stage # "received" ELSE ~req[r].dry

\* Nothing has been asked and nothing sent.
LEMMA WebhookInitHolds == WebhookInit => WebhookInv
<1> SUFFICES ASSUME WebhookInit PROVE WebhookInv
    OBVIOUS
<1>1. PICK arrives \in [Runs -> UNION {PayloadsOf[r] : r \in Runs}] :
          /\ \A r \in Runs : arrives[r] \in PayloadsOf[r]
          /\ req = [r \in Runs |-> [stage |-> "unsent", payload |-> arrives[r], dry |-> FALSE,
                                    code |-> 0]]
    BY DEF WebhookInit
<1>2. \A r \in Runs : arrives[r] \in PayloadType
    BY <1>1, PayloadsAssumption
<1>3. ASSUME NEW r \in Runs
      PROVE  /\ req[r] \in Requests /\ req[r].payload \in PayloadsOf[r]
             /\ req[r].stage = "unsent" /\ req[r].dry = FALSE
    BY <1>1, <1>2 DEF Requests, Stages, Codes
<1>4. req \in [Runs -> Requests]
    BY <1>1, <1>3
<1>5. WebhookTypeOK
  <2>1. ClusterTypeOK
    BY DEF WebhookInit, ClusterInit, ClusterTypeOK, JobStates, JobPresent, PodStates, PodPresent
  <2>2. Rendered \in Seq(Runs)
    BY DEF Rendered
  <2>3. template \in Seq(Runs) /\ object \in [Runs -> Seq(Runs)]
    BY <2>2 DEF WebhookInit
  <2>4. server \in {"up", "draining", "down"} /\ wire \subseteq Runs /\ kills \in 0 .. MaxKills
    BY BoundAssumption DEF WebhookInit
  <2>5. /\ result \in [Runs -> {"none", "created", "exists", "error"}]
        /\ github \in [Runs -> {"none", "pending", "delivered", "failed"}]
    BY DEF WebhookInit
  <2> QED
    BY <1>3, <1>4, <2>1, <2>3, <2>4, <2>5 DEF WebhookTypeOK
<1> HIDE DEF WebhookInit
<1>6. ASSUME NEW r \in Runs
      PROVE  /\ job[r] = "absent" /\ r \notin wire /\ result[r] = "none" /\ github[r] = "none"
    BY DEF WebhookInit, ClusterInit
<1>7. template = Rendered
    BY DEF WebhookInit
<1>8. \A r \in Runs : SendIsDue(r) /\ JobIsCreated(r)
    BY <1>3, <1>6 DEF SendIsDue, Sent, JobIsCreated
<1>9. \A r \in Runs : AnswerIsTrue(r)
    BY <1>3, <1>6 DEF AnswerIsTrue, Started, Accepted
<1>10. NamesAreHeldOnce
    BY <1>6 DEF NamesAreHeldOnce, JobPresent
<1> QED
    BY <1>5, <1>7, <1>8, <1>9, <1>10 DEF WebhookInv

\* A step of request r that leaves the other requests as they are keeps the invariant if it
\* keeps it for r: Jobs are not unmade, a name is taken when it is free, and a good answer
\* comes with a Job.
LEMMA RequestStep ==
    ASSUME WebhookInv, WebhookTypeOK', template' = template, NEW r \in Runs,
           \A q \in Runs \ {r} :
               /\ req'[q] = req[q] /\ (q \in wire' <=> q \in wire) /\ result'[q] = result[q]
               /\ github'[q] = github[q] /\ object'[q] = object[q] /\ job'[q] = job[q],
           job[r] # "absent" => job'[r] # "absent",
           job'[r] \in JobPresent => job[r] \in JobPresent \/ NameFree(IssueOf[r]),
           Started(result[r])' /\ ~req'[r].dry =>
               (Started(result[r]) /\ ~req[r].dry) \/ ~NameFree(IssueOf[r]) \/ job'[r] # "absent",
           OwnInv(r)'
    PROVE  WebhookInv'
<1>1. ASSUME NEW q \in Runs, q # r PROVE (SendIsDue(q) /\ JobIsCreated(q))'
  <2>1. SendIsDue(q) /\ JobIsCreated(q)
    BY DEF WebhookInv
  <2>2. Passes(q)' <=> Passes(q)
    BY <1>1, PassesKept
  <2>3. /\ req'[q] = req[q] /\ (q \in wire' <=> q \in wire) /\ result'[q] = result[q]
        /\ object'[q] = object[q] /\ job'[q] = job[q]
    BY <1>1
  <2> QED
    BY <2>1, <2>2, <2>3 DEF SendIsDue, JobIsCreated, Sent
<1>2. ASSUME NEW i, NameHadJob(i) PROVE NameHadJob(i)'
  <2>1. PICK q \in Runs : IssueOf[q] = i /\ job[q] # "absent"
    BY <1>2 DEF NameHadJob
  <2>2. job'[q] # "absent"
    BY <2>1
  <2> QED
    BY <2>1, <2>2 DEF NameHadJob
<1>3. ASSUME NEW q \in Runs, q # r PROVE AnswerIsTrue(q)'
  <2>1. AnswerIsTrue(q)
    BY DEF WebhookInv
  <2>2. Passes(q)' <=> Passes(q)
    BY <1>3, PassesKept
  <2>3. req'[q] = req[q] /\ result'[q] = result[q] /\ github'[q] = github[q]
    BY <1>3
  <2>4. NameHadJob(IssueOf[q]) => NameHadJob(IssueOf[q])'
    BY <1>2
  <2>5. Accepted(q)' <=> Accepted(q)
    BY <2>2, <2>3 DEF Accepted
  <2> QED
    BY <2>1, <2>3, <2>4, <2>5 DEF AnswerIsTrue, Started
<1>4. AnswerIsTrue(r)'
  <2>1. ASSUME Started(result[r])', ~req'[r].dry PROVE NameHadJob(IssueOf[r])'
    <3>1. CASE Started(result[r]) /\ ~req[r].dry
      <4>1. NameHadJob(IssueOf[r])
        BY <3>1 DEF WebhookInv, AnswerIsTrue
      <4> QED
        BY <4>1, <1>2
    <3>2. CASE ~NameFree(IssueOf[r])
      <4>1. PICK q \in Runs : IssueOf[q] = IssueOf[r] /\ job[q] \in JobPresent
        BY <3>2 DEF NameFree
      <4>2. NameHadJob(IssueOf[r])
        BY <4>1 DEF NameHadJob, JobPresent
      <4> QED
        BY <4>2, <1>2
    <3>3. CASE job'[r] # "absent"
      BY <3>3 DEF NameHadJob
    <3> QED
      BY <2>1, <3>1, <3>2, <3>3
  <2> QED
    BY <2>1 DEF AnswerIsTrue, OwnInv
<1>5. NamesAreHeldOnce'
  <2> SUFFICES ASSUME NEW q \in Runs, NEW p \in Runs, q # p, IssueOf[q] = IssueOf[p],
                      job'[q] \in JobPresent, job'[p] \in JobPresent
               PROVE  FALSE
    BY DEF NamesAreHeldOnce
  <2>1. ~(job[q] \in JobPresent /\ job[p] \in JobPresent)
    BY DEF WebhookInv, NamesAreHeldOnce
  <2>2. PICK other \in Runs \ {r} : IssueOf[other] = IssueOf[r] /\ job[other] \in JobPresent
                                   /\ job[r] \notin JobPresent
    BY <2>1
  <2>3. NameFree(IssueOf[r])
    BY <2>1, <2>2
  <2> QED
    BY <2>2, <2>3 DEF NameFree
<1> QED
    BY <1>1, <1>3, <1>4, <1>5 DEF WebhookInv, OwnInv

\* What a request's answer changes.
LEMMA AnswerIs ==
    ASSUME WebhookTypeOK, NEW r \in Runs, NEW code \in Codes, Answer(r, code)
    PROVE  /\ req' \in [Runs -> Requests] /\ \A q \in Runs : req'[q].payload = req[q].payload
           /\ \A q \in Runs \ {r} : req'[q] = req[q]
           /\ req'[r].stage = "answered" /\ req'[r].code = code /\ req'[r].dry = req[r].dry
<1> DEFINE answered == [stage |-> "answered", payload |-> req[r].payload, dry |-> req[r].dry,
                        code |-> code]
<1>1. req \in [Runs -> Requests]
    BY DEF WebhookTypeOK
<1>2. req' = [req EXCEPT ![r] = answered]
    BY DEF Answer
<1>3. answered \in Requests
    BY <1>1 DEF Requests, Stages
<1>4. /\ answered.stage = "answered" /\ answered.payload = req[r].payload
      /\ answered.dry = req[r].dry /\ answered.code = code
    OBVIOUS
<1> HIDE DEF answered
<1>5. req' \in [Runs -> Requests] /\ req'[r] = answered /\ \A q \in Runs \ {r} : req'[q] = req[q]
    BY <1>1, <1>2, <1>3
<1> QED
    BY <1>4, <1>5

\* What a request's stage changes.
LEMMA StageIs ==
    ASSUME WebhookTypeOK, NEW r \in Runs, NEW stage \in Stages, req' = [req EXCEPT ![r].stage = stage]
    PROVE  /\ req' \in [Runs -> Requests] /\ \A q \in Runs : req'[q].payload = req[q].payload
           /\ \A q \in Runs \ {r} : req'[q] = req[q]
           /\ req'[r].stage = stage /\ req'[r].dry = req[r].dry
<1>1. req \in [Runs -> Requests]
    BY DEF WebhookTypeOK
<1>2. [req[r] EXCEPT !.stage = stage] \in Requests
    BY <1>1 DEF Requests
<1>3. /\ [req[r] EXCEPT !.stage = stage].stage = stage
      /\ [req[r] EXCEPT !.stage = stage].payload = req[r].payload
      /\ [req[r] EXCEPT !.stage = stage].dry = req[r].dry
    BY <1>1 DEF Requests
<1>4. req' = [req EXCEPT ![r] = [req[r] EXCEPT !.stage = stage]]
    BY <1>1
<1>5. req' \in [Runs -> Requests] /\ req'[r] = [req[r] EXCEPT !.stage = stage]
      /\ \A q \in Runs \ {r} : req'[q] = req[q]
    BY <1>1, <1>2, <1>4
<1> QED
    BY <1>3, <1>5

\* What GitHub hears changes nothing but how one delivery stands.
LEMMA HearsIs ==
    ASSUME WebhookTypeOK, NEW r \in Runs, NEW code, Hears(r, code)
    PROVE  /\ github' \in [Runs -> {"none", "pending", "delivered", "failed"}]
           /\ \A q \in Runs \ {r} : github'[q] = github[q]
           /\ github'[r] = "delivered" => github[r] = "delivered" \/ Success(code)
<1>1. github \in [Runs -> {"none", "pending", "delivered", "failed"}]
    BY DEF WebhookTypeOK
<1> QED
    BY <1>1 DEF Hears

\* The types, of a step that leaves the process and its template alone.
LEMMA TypeStep ==
    ASSUME WebhookTypeOK, server' = server, kills' = kills, template' = template,
           req' \in [Runs -> Requests], \A q \in Runs : req'[q].payload = req[q].payload,
           wire' \subseteq Runs,
           result' \in [Runs -> {"none", "created", "exists", "error"}],
           github' \in [Runs -> {"none", "pending", "delivered", "failed"}],
           object' \in [Runs -> Seq(Runs)],
           ClusterTypeOK'
    PROVE  WebhookTypeOK'
BY DEF WebhookTypeOK

\* What the apiserver has not changed.
LEMMA ClusterKept ==
    ASSUME WebhookTypeOK, UNCHANGED clusterVars
    PROVE  ClusterTypeOK' /\ job' = job
BY DEF WebhookTypeOK, ClusterTypeOK, clusterVars

\* A delivery, heard by a handler or by nobody.
LEMMA DeliverStep ==
    ASSUME WebhookInv, NEW r \in Runs, Deliver(r)
    PROVE  WebhookInv'
<1>1. WebhookTypeOK /\ OwnInv(r)
    BY DEF WebhookInv, OwnInv, AnswerIsTrue
<1>2. ClusterTypeOK' /\ job' = job
    BY <1>1, ClusterKept DEF Deliver
<1>3. /\ server' = server /\ kills' = kills /\ template' = template /\ object' = object
      /\ wire' = wire /\ result' = result
    BY DEF Deliver, builderVars
<1>4. PICK stage \in {"received", "lost"} : req' = [req EXCEPT ![r].stage = stage]
    BY DEF Deliver
<1>5. /\ req' \in [Runs -> Requests] /\ \A q \in Runs : req'[q].payload = req[q].payload
      /\ \A q \in Runs \ {r} : req'[q] = req[q]
      /\ req'[r].stage = stage /\ req'[r].dry = req[r].dry
    BY <1>1, <1>4, StageIs DEF Stages
<1>6. PICK heard \in {"pending", "failed"} : github' = [github EXCEPT ![r] = heard]
    BY DEF Deliver
<1>7. /\ github' \in [Runs -> {"none", "pending", "delivered", "failed"}]
      /\ \A q \in Runs \ {r} : github'[q] = github[q]
      /\ github'[r] = heard
    BY <1>1, <1>6 DEF WebhookTypeOK
<1>8. WebhookTypeOK'
    BY <1>1, <1>2, <1>3, <1>5, <1>7, TypeStep DEF WebhookTypeOK
<1>9. OwnInv(r)'
  <2>1. r \notin Commands /\ req[r].stage = "unsent"
    BY DEF Deliver
  <2>2. ~Sent(r) /\ ~Sent(r)' /\ job[r] = "absent" /\ r \notin wire
    BY <1>1, <1>3, <2>1 DEF OwnInv, SendIsDue, JobIsCreated, Sent
  <2>3. ~Accepted(r)'
    BY <1>7, <2>1 DEF Accepted
  <2> QED
    BY <1>1, <1>2, <1>3, <1>5, <2>1, <2>2, <2>3 DEF OwnInv, SendIsDue, JobIsCreated
<1> QED
    BY <1>2, <1>3, <1>5, <1>7, <1>8, <1>9, RequestStep

\* GitHub hangs up: nothing is accepted by that.
LEMMA HangsUpStep ==
    ASSUME WebhookInv, NEW r \in Runs, GitHubHangsUp(r)
    PROVE  WebhookInv'
<1>1. WebhookTypeOK /\ OwnInv(r)
    BY DEF WebhookInv, OwnInv, AnswerIsTrue
<1>2. ClusterTypeOK' /\ job' = job
    BY <1>1, ClusterKept DEF GitHubHangsUp
<1>3. /\ server' = server /\ kills' = kills /\ template' = template /\ object' = object
      /\ wire' = wire /\ result' = result /\ req' = req
    BY DEF GitHubHangsUp, builderVars
<1>4. /\ github' \in [Runs -> {"none", "pending", "delivered", "failed"}]
      /\ \A q \in Runs \ {r} : github'[q] = github[q]
      /\ github'[r] = "failed"
    BY <1>1 DEF WebhookTypeOK, GitHubHangsUp
<1>5. WebhookTypeOK'
    BY <1>1, <1>2, <1>3, <1>4, TypeStep DEF WebhookTypeOK
<1>6. OwnInv(r)'
  <2>1. Passes(r)' <=> Passes(r)
    BY <1>3, PassesKept
  <2>2. Accepted(r)' => Accepted(r)
    BY <1>3, <1>4 DEF Accepted
  <2> QED
    BY <1>1, <1>2, <1>3, <2>1, <2>2 DEF OwnInv, SendIsDue, JobIsCreated, Sent
<1> QED
    BY <1>2, <1>3, <1>4, <1>5, <1>6, RequestStep

\* A handler that is done without a create of its own, or with the answer to it.
LEMMA AnswerStep ==
    ASSUME WebhookInv, NEW r \in Runs \ Commands, NEW code \in Codes,
           req[r].stage \in {"received", "waiting"},
           Answer(r, code), Hears(r, code),
           UNCHANGED <<clusterVars, builderVars, server, wire, result, kills>>,
           Success(code) /\ Passes(r) => Started(result[r])
    PROVE  WebhookInv'
<1>1. WebhookTypeOK /\ OwnInv(r)
    BY DEF WebhookInv, OwnInv, AnswerIsTrue
<1>2. ClusterTypeOK' /\ job' = job
    BY <1>1, ClusterKept
<1>3. /\ server' = server /\ kills' = kills /\ template' = template /\ object' = object
      /\ wire' = wire /\ result' = result
    BY DEF builderVars
<1>4. /\ req' \in [Runs -> Requests] /\ \A q \in Runs : req'[q].payload = req[q].payload
      /\ \A q \in Runs \ {r} : req'[q] = req[q]
      /\ req'[r].stage = "answered" /\ req'[r].code = code /\ req'[r].dry = req[r].dry
    BY <1>1, AnswerIs
<1>5. /\ github' \in [Runs -> {"none", "pending", "delivered", "failed"}]
      /\ \A q \in Runs \ {r} : github'[q] = github[q]
      /\ github'[r] = "delivered" => github[r] = "delivered" \/ Success(code)
    BY <1>1, HearsIs
<1>6. WebhookTypeOK'
    BY <1>1, <1>2, <1>3, <1>4, <1>5, TypeStep DEF WebhookTypeOK
<1>7. OwnInv(r)'
  <2>1. Passes(r)' <=> Passes(r)
    BY <1>4, PassesKept
  <2>2. Accepted(r)' => Started(result[r])
    BY <1>1, <1>5, <2>1 DEF Accepted, OwnInv
  <2>3. SendIsDue(r)'
    BY <1>1, <1>3, <1>4, <2>1 DEF OwnInv, SendIsDue, Sent
  <2> QED
    BY <1>1, <1>2, <1>3, <1>4, <2>2, <2>3 DEF OwnInv, JobIsCreated
<1> QED
    BY <1>2, <1>3, <1>4, <1>5, <1>6, <1>7, RequestStep

\* A refusal with a 200 is no acceptance: the request did not pass.
LEMMA RefuseStep ==
    ASSUME WebhookInv, NEW r \in Runs, Refuse(r)
    PROVE  WebhookInv'
<1>1. req[r].stage = "received" /\ ~Passes(r) /\ Answer(r, Refusal(r)) /\ Hears(r, Refusal(r))
    BY DEF Refuse
<1>2. r \in Runs \ Commands
    BY <1>1 DEF WebhookInv, AnswerIsTrue
<1>3. Refusal(r) \in Codes
    BY <1>1, RefusalIsCode
<1>4. UNCHANGED <<clusterVars, builderVars, server, wire, result, kills>>
    BY DEF Refuse
<1> QED
    BY <1>1, <1>2, <1>3, <1>4, AnswerStep

\* An answer of 202 passes the apiserver's on.
LEMMA AcceptStep ==
    ASSUME WebhookInv, NEW r \in Runs, Accept(r)
    PROVE  WebhookInv'
<1>1. /\ r \in Runs \ Commands /\ req[r].stage = "waiting" /\ Started(result[r])
      /\ Answer(r, 202) /\ Hears(r, 202)
    BY DEF Accept
<1>2. 202 \in Codes
    BY DEF Codes
<1>3. UNCHANGED <<clusterVars, builderVars, server, wire, result, kills>>
    BY DEF Accept
<1> QED
    BY <1>1, <1>2, <1>3, AnswerStep

\* A 500 promises nothing, executed or not.
LEMMA StartFailsStep ==
    ASSUME WebhookInv, NEW r \in Runs, StartFails(r)
    PROVE  WebhookInv'
<1>1. /\ r \in Runs \ Commands /\ req[r].stage = "waiting" /\ Answer(r, 500) /\ Hears(r, 500)
    BY DEF StartFails
<1>2. 500 \in Codes /\ ~Success(500)
    BY DEF Codes, Success
<1>3. UNCHANGED <<clusterVars, builderVars, server, wire, result, kills>>
    BY DEF StartFails
<1> QED
    BY <1>1, <1>2, <1>3, AnswerStep

\* A create that was sent, for the request alone whose Job was built: what Start and
\* RunCommand have in common.
LEMMA SendStep ==
    ASSUME WebhookInv, NEW r \in Runs, r \in Spelled, r \in Commands \/ Passes(r),
           req[r].stage \in {"unsent", "received"},
           req' \in [Runs -> Requests], \A q \in Runs : req'[q].payload = req[q].payload,
           \A q \in Runs \ {r} : req'[q] = req[q],
           req'[r].stage = "waiting", r \in Commands \/ req'[r].dry = req[r].dry,
           object' = [object EXCEPT ![r] = <<r>>],
           wire' = wire \cup {r},
           UNCHANGED <<clusterVars, template, server, result, github, kills>>
    PROVE  WebhookInv'
<1>1. WebhookTypeOK /\ OwnInv(r)
    BY DEF WebhookInv, OwnInv, AnswerIsTrue
<1>2. ClusterTypeOK' /\ job' = job
    BY <1>1, ClusterKept
<1>3. server' = server /\ kills' = kills /\ template' = template /\ result' = result /\ github' = github
    OBVIOUS
<1>4. <<r>> \in Seq(Runs)
    OBVIOUS
<1>5. /\ object' \in [Runs -> Seq(Runs)] /\ object'[r] = <<r>>
      /\ \A q \in Runs \ {r} : object'[q] = object[q]
    BY <1>1, <1>4 DEF WebhookTypeOK
<1>6. wire' \subseteq Runs
    BY <1>1 DEF WebhookTypeOK
<1>7. WebhookTypeOK'
    BY <1>1, <1>2, <1>3, <1>5, <1>6, TypeStep DEF WebhookTypeOK
<1>8. ~Sent(r) /\ result[r] = "none" /\ job[r] = "absent"
    BY <1>1 DEF OwnInv, SendIsDue, JobIsCreated, Sent
<1>9. OwnInv(r)'
  <2>1. Passes(r)' <=> Passes(r)
    BY PassesKept
  <2>2. SendIsDue(r)'
    BY <1>3, <1>5, <1>8, <2>1 DEF SendIsDue, Sent
  <2>3. ~Accepted(r)'
    <3>1. github[r] # "delivered" \/ ~Passes(r) \/ r \in Commands
      BY <1>1, <1>8 DEF OwnInv, Accepted, Started
    <3> QED
      BY <1>3, <2>1, <3>1 DEF Accepted
  <2>4. IF r \in Commands THEN req'[r].stage # "received" ELSE ~req'[r].dry
    BY <1>1 DEF OwnInv
  <2> QED
    BY <1>2, <1>8, <2>2, <2>3, <2>4 DEF OwnInv, JobIsCreated
<1>10. \A q \in Runs \ {r} : q \in wire' <=> q \in wire
    OBVIOUS
<1>11. ~Started(result[r])'
    BY <1>3, <1>8 DEF Started
<1> QED
    BY <1>2, <1>3, <1>5, <1>7, <1>9, <1>10, <1>11, RequestStep

\* The Job built from the chart's template names its own run.
LEMMA BuiltIsOwn ==
    ASSUME NEW r PROVE Built(Rendered, r) = <<r>>
BY DEF Built, Rendered

\* What a delivery starts passed every check.
LEMMA StartStep ==
    ASSUME WebhookInv, NEW r \in Runs, Start(r)
    PROVE  WebhookInv'
<1>1. WebhookTypeOK /\ template = Rendered
    BY DEF WebhookInv
<1>2. req[r].stage = "received" /\ Passes(r) /\ req' = [req EXCEPT ![r].stage = "waiting"]
    BY DEF Start
<1>3. r \in Spelled
    BY <1>2, PassesIsTrigger
<1>4. /\ req' \in [Runs -> Requests] /\ \A q \in Runs : req'[q].payload = req[q].payload
      /\ \A q \in Runs \ {r} : req'[q] = req[q]
      /\ req'[r].stage = "waiting" /\ req'[r].dry = req[r].dry
    BY <1>1, <1>2, StageIs DEF Stages
<1>5. object' = [object EXCEPT ![r] = <<r>>] /\ template' = template
    BY <1>1, BuiltIsOwn DEF Start, Builds, TemplateAfter
<1>6. wire' = wire \cup {r} /\ UNCHANGED <<clusterVars, server, result, github, kills>>
    BY DEF Start
<1> QED
    BY <1>2, <1>3, <1>4, <1>5, <1>6, SendStep

\* A command is sent if it parses, and is over if it does not.
LEMMA RunCommandStep ==
    ASSUME WebhookInv, NEW r \in Runs, RunCommand(r)
    PROVE  WebhookInv'
<1>1. WebhookTypeOK /\ OwnInv(r)
    BY DEF WebhookInv, OwnInv, AnswerIsTrue
<1>2. /\ r \in Commands /\ req[r].stage = "unsent"
      /\ UNCHANGED <<clusterVars, template, server, result, github, kills>>
    BY DEF RunCommand
<1>3. CASE r \in Spelled
  <2>1. PICK dry \in BOOLEAN :
            req' = [req EXCEPT ![r] = [stage |-> "waiting", payload |-> req[r].payload,
                                       dry |-> dry, code |-> req[r].code]]
    BY <1>3 DEF RunCommand
  <2>2. wire' = wire \cup {r} /\ object' = [object EXCEPT ![r] = <<r>>]
    BY <1>3, BuiltIsOwn DEF RunCommand
  <2> DEFINE sent == [stage |-> "waiting", payload |-> req[r].payload, dry |-> dry,
                      code |-> req[r].code]
  <2>3. sent \in Requests /\ sent.stage = "waiting" /\ sent.payload = req[r].payload
    BY <1>1 DEF WebhookTypeOK, Requests, Stages
  <2>4. req' = [req EXCEPT ![r] = sent] /\ req \in [Runs -> Requests]
    BY <1>1, <2>1 DEF WebhookTypeOK
  <2> HIDE DEF sent
  <2>5. req' \in [Runs -> Requests] /\ req'[r] = sent /\ \A q \in Runs \ {r} : req'[q] = req[q]
    BY <2>3, <2>4
  <2>6. \A q \in Runs : req'[q].payload = req[q].payload
    BY <2>3, <2>5
  <2> QED
    BY <1>2, <1>3, <2>2, <2>3, <2>5, <2>6, SendStep
<1>4. CASE r \notin Spelled
  <2>1. Answer(r, 1) /\ wire' = wire /\ object' = object
    BY <1>4 DEF RunCommand
  <2>2. 1 \in Codes
    BY DEF Codes
  <2>3. /\ req' \in [Runs -> Requests] /\ \A q \in Runs : req'[q].payload = req[q].payload
        /\ \A q \in Runs \ {r} : req'[q] = req[q]
        /\ req'[r].stage = "answered" /\ req'[r].code = 1 /\ req'[r].dry = req[r].dry
    BY <1>1, <2>1, <2>2, AnswerIs
  <2>4. ClusterTypeOK' /\ job' = job
    BY <1>1, <1>2, ClusterKept
  <2>5. /\ server' = server /\ kills' = kills /\ template' = template /\ result' = result
        /\ github' = github
    BY <1>2
  <2>6. WebhookTypeOK'
    BY <1>1, <2>1, <2>3, <2>4, <2>5, TypeStep DEF WebhookTypeOK
  <2>7. OwnInv(r)'
    <3>1. ~Sent(r) /\ ~Sent(r)' /\ r \notin wire /\ job[r] = "absent"
      BY <1>1, <1>2, <2>1, <2>5 DEF OwnInv, SendIsDue, JobIsCreated, Sent
    <3>2. ~Accepted(r)'
      BY <1>2, <2>3 DEF Accepted
    <3> QED
      BY <1>2, <2>1, <2>3, <2>4, <3>1, <3>2 DEF OwnInv, SendIsDue, JobIsCreated
  <2> QED
    BY <2>1, <2>3, <2>4, <2>5, <2>6, <2>7, RequestStep
<1> QED
    BY <1>3, <1>4

\* An exit of 0 passes the apiserver's answer on.
LEMMA CommandReturnsStep ==
    ASSUME WebhookInv, NEW r \in Runs, CommandReturns(r)
    PROVE  WebhookInv'
<1> DEFINE code == IF Started(result[r]) THEN 0 ELSE 1
<1>1. WebhookTypeOK /\ OwnInv(r)
    BY DEF WebhookInv, OwnInv, AnswerIsTrue
<1>2. /\ r \in Commands /\ req[r].stage = "waiting" /\ result[r] # "none" /\ Answer(r, code)
      /\ UNCHANGED <<clusterVars, builderVars, server, wire, result, github, kills>>
    BY DEF CommandReturns
<1>3. code \in Codes /\ (code = 0 => Started(result[r]))
    BY DEF Codes
<1> HIDE DEF code
<1>4. /\ req' \in [Runs -> Requests] /\ \A q \in Runs : req'[q].payload = req[q].payload
      /\ \A q \in Runs \ {r} : req'[q] = req[q]
      /\ req'[r].stage = "answered" /\ req'[r].code = code /\ req'[r].dry = req[r].dry
    BY <1>1, <1>2, <1>3, AnswerIs
<1>5. ClusterTypeOK' /\ job' = job
    BY <1>1, <1>2, ClusterKept
<1>6. /\ server' = server /\ kills' = kills /\ template' = template /\ object' = object
      /\ wire' = wire /\ result' = result /\ github' = github
    BY <1>2 DEF builderVars
<1>7. WebhookTypeOK'
    BY <1>1, <1>4, <1>5, <1>6, TypeStep DEF WebhookTypeOK
<1>8. OwnInv(r)'
  <2>1. Accepted(r)' => Started(result[r])
    BY <1>2, <1>3, <1>4 DEF Accepted
  <2>2. SendIsDue(r)'
    BY <1>1, <1>2, <1>4, <1>6 DEF OwnInv, SendIsDue, Sent
  <2> QED
    BY <1>1, <1>2, <1>4, <1>5, <1>6, <2>1, <2>2 DEF OwnInv, JobIsCreated
<1> QED
    BY <1>4, <1>5, <1>6, <1>7, <1>8, RequestStep

\* A Job is made.
LEMMA CreateIs ==
    ASSUME ClusterTypeOK, NEW r \in Runs, Create(r)
    PROVE  /\ ClusterTypeOK' /\ job'[r] = "active"
           /\ \A q \in Runs \ {r} : job'[q] = job[q]
BY DEF ClusterTypeOK, Create, JobStates, JobPresent, PodStates, PodPresent

\* The apiserver's answer is its own: "created" with a Job, unless it was a dry run, and
\* "exists" with somebody's.
LEMMA ExecutedStep ==
    ASSUME WebhookInv, NEW r \in Runs, CreateExecuted(r)
    PROVE  WebhookInv'
<1> DEFINE answer == IF NameFree(IssueOf[r]) THEN "created" ELSE "exists"
<1>1. WebhookTypeOK /\ ClusterTypeOK /\ OwnInv(r)
    BY DEF WebhookInv, WebhookTypeOK, OwnInv, AnswerIsTrue
<1>2. /\ r \in wire /\ wire' = wire \ {r} /\ result' = [result EXCEPT ![r] = answer]
      /\ UNCHANGED <<builderVars, server, req, github, kills>>
    BY DEF CreateExecuted, Makes
<1>3. IF NameFree(IssueOf[r]) /\ ~req[r].dry THEN Create(r) ELSE UNCHANGED clusterVars
    BY DEF CreateExecuted, Makes
<1>4. answer \in {"created", "exists"} /\ (answer = "created" <=> NameFree(IssueOf[r]))
    OBVIOUS
<1> HIDE DEF answer
<1>5. /\ server' = server /\ kills' = kills /\ template' = template /\ object' = object
      /\ req' = req /\ github' = github
    BY <1>2 DEF builderVars
<1>6. result[r] = "none" /\ job[r] = "absent" /\ Sent(r)
    BY <1>1, <1>2 DEF OwnInv, SendIsDue, JobIsCreated, Sent
<1>7. /\ result' \in [Runs -> {"none", "created", "exists", "error"}] /\ result'[r] = answer
      /\ \A q \in Runs \ {r} : result'[q] = result[q]
    BY <1>1, <1>2, <1>4 DEF WebhookTypeOK
<1>8. /\ ClusterTypeOK' /\ \A q \in Runs \ {r} : job'[q] = job[q]
      /\ job'[r] = IF NameFree(IssueOf[r]) /\ ~req[r].dry THEN "active" ELSE "absent"
  <2>1. CASE NameFree(IssueOf[r]) /\ ~req[r].dry
    BY <1>1, <1>3, <2>1, CreateIs
  <2>2. CASE ~(NameFree(IssueOf[r]) /\ ~req[r].dry)
    <3>1. ClusterTypeOK' /\ job' = job
      BY <1>1, <1>3, <2>2, ClusterKept
    <3> QED
      BY <1>6, <2>2, <3>1
  <2> QED
    BY <2>1, <2>2
<1>9. WebhookTypeOK'
    BY <1>1, <1>2, <1>5, <1>7, <1>8, TypeStep DEF WebhookTypeOK
<1>10. OwnInv(r)'
  <2>1. Passes(r)' <=> Passes(r)
    BY <1>5, PassesKept
  <2>2. Started(result[r])'
    BY <1>4, <1>7 DEF Started
  <2>3. SendIsDue(r)'
    BY <1>1, <1>2, <1>4, <1>5, <1>6, <1>7, <2>1 DEF OwnInv, SendIsDue, Sent
  <2>4. JobIsCreated(r)'
    BY <1>4, <1>5, <1>7, <1>8 DEF JobIsCreated
  <2> QED
    BY <1>1, <1>5, <2>2, <2>3, <2>4 DEF OwnInv
<1>11. \A q \in Runs \ {r} : q \in wire' <=> q \in wire
    BY <1>2
<1>12. job'[r] \in JobPresent => NameFree(IssueOf[r])
    BY <1>8 DEF JobPresent
<1>13. ~req'[r].dry => ~NameFree(IssueOf[r]) \/ job'[r] # "absent"
    BY <1>5, <1>8
<1> QED
    BY <1>5, <1>6, <1>7, <1>8, <1>9, <1>10, <1>11, <1>12, <1>13, RequestStep

\* A create that was lost is answered with an error.
LEMMA LostStep ==
    ASSUME WebhookInv, NEW r \in Runs, CreateLost(r)
    PROVE  WebhookInv'
<1>1. WebhookTypeOK /\ OwnInv(r)
    BY DEF WebhookInv, OwnInv, AnswerIsTrue
<1>2. /\ r \in wire /\ wire' = wire \ {r} /\ result' = [result EXCEPT ![r] = "error"]
      /\ UNCHANGED <<clusterVars, builderVars, server, req, github, kills>>
    BY DEF CreateLost
<1>3. /\ server' = server /\ kills' = kills /\ template' = template /\ object' = object
      /\ req' = req /\ github' = github
    BY <1>2 DEF builderVars
<1>4. result[r] = "none" /\ job[r] = "absent" /\ Sent(r)
    BY <1>1, <1>2 DEF OwnInv, SendIsDue, JobIsCreated, Sent
<1>5. /\ result' \in [Runs -> {"none", "created", "exists", "error"}] /\ result'[r] = "error"
      /\ \A q \in Runs \ {r} : result'[q] = result[q]
    BY <1>1, <1>2 DEF WebhookTypeOK
<1>6. ClusterTypeOK' /\ job' = job
    BY <1>1, <1>2, ClusterKept
<1>7. WebhookTypeOK'
    BY <1>1, <1>2, <1>3, <1>5, <1>6, TypeStep DEF WebhookTypeOK
<1>8. OwnInv(r)'
  <2>1. Passes(r)' <=> Passes(r)
    BY <1>3, PassesKept
  <2>2. ~Accepted(r) /\ (Accepted(r)' <=> Accepted(r))
    BY <1>1, <1>3, <1>4, <2>1 DEF OwnInv, Accepted, Started
  <2>3. SendIsDue(r)'
    BY <1>1, <1>2, <1>3, <1>4, <1>5, <2>1 DEF OwnInv, SendIsDue, Sent
  <2> QED
    BY <1>1, <1>3, <1>4, <1>6, <2>2, <2>3 DEF OwnInv, JobIsCreated
<1>9. \A q \in Runs \ {r} : q \in wire' <=> q \in wire
    BY <1>2
<1>10. ~Started(result[r])'
    BY <1>5 DEF Started
<1> QED
    BY <1>3, <1>4, <1>5, <1>6, <1>7, <1>8, <1>9, <1>10, RequestStep

\* A step of the process or of Kubernetes: no request is answered or sent by it, and no Job
\* is made or forgotten.
LEMMA CommonStep ==
    ASSUME WebhookInv, WebhookTypeOK', template' = template, wire' = wire, result' = result,
           object' = object,
           \A q \in Runs :
               /\ req'[q].payload = req[q].payload /\ req'[q].dry = req[q].dry
               /\ req'[q].code = req[q].code
               /\ req'[q].stage = req[q].stage
                  \/ (q \notin Commands /\ req[q].stage \in Running /\ req'[q].stage = "lost")
               /\ github'[q] = "delivered" => github[q] = "delivered"
               /\ job'[q] # "absent" <=> job[q] # "absent"
               /\ job'[q] \in JobPresent => job[q] \in JobPresent
    PROVE  WebhookInv'
<1>1. ASSUME NEW q \in Runs PROVE (SendIsDue(q) /\ JobIsCreated(q) /\ AnswerIsTrue(q))'
  <2>1. SendIsDue(q) /\ JobIsCreated(q) /\ AnswerIsTrue(q)
    BY DEF WebhookInv
  <2>2. Passes(q)' <=> Passes(q)
    BY PassesKept
  <2>3. Accepted(q)' => Accepted(q)
    BY <2>2 DEF Accepted
  <2>4. SendIsDue(q)'
    BY <2>1, <2>2 DEF SendIsDue, Sent
  <2>5. JobIsCreated(q)'
    BY <2>1 DEF JobIsCreated
  <2>6. NameHadJob(IssueOf[q]) => NameHadJob(IssueOf[q])'
    BY DEF NameHadJob
  <2>7. IF q \in Commands THEN req'[q].stage # "received" ELSE ~req'[q].dry
    BY <2>1 DEF AnswerIsTrue
  <2> QED
    BY <2>1, <2>3, <2>4, <2>5, <2>6, <2>7 DEF AnswerIsTrue, Started
<1>2. NamesAreHeldOnce'
    BY DEF WebhookInv, NamesAreHeldOnce
<1> QED
    BY <1>1, <1>2 DEF WebhookInv

\* Handlers end with the process; commands do not run in it.
LEMMA DeathStep ==
    ASSUME WebhookInv, ProcessDies, kills' \in 0 .. MaxKills
    PROVE  WebhookInv'
<1>1. WebhookTypeOK
    BY DEF WebhookInv
<1>2. /\ server' = "down" /\ UNCHANGED <<clusterVars, builderVars, wire, result>>
      /\ req' = [r \in Runs |-> IF r \notin Commands /\ req[r].stage \in Running
                                THEN [req[r] EXCEPT !.stage = "lost"] ELSE req[r]]
      /\ github' = [r \in Runs |-> IF github[r] = "pending" THEN "failed" ELSE github[r]]
    BY DEF ProcessDies
<1>3. template' = template /\ object' = object /\ wire' = wire /\ result' = result
    BY <1>2 DEF builderVars
<1>4. ClusterTypeOK' /\ job' = job
    BY <1>1, <1>2, ClusterKept
<1>5. ASSUME NEW q \in Runs
      PROVE  /\ req'[q] \in Requests
             /\ req'[q].payload = req[q].payload /\ req'[q].dry = req[q].dry
             /\ req'[q].code = req[q].code
             /\ req'[q].stage = req[q].stage
                \/ (q \notin Commands /\ req[q].stage \in Running /\ req'[q].stage = "lost")
  <2>1. req[q] \in Requests
    BY <1>1 DEF WebhookTypeOK
  <2>2. /\ [req[q] EXCEPT !.stage = "lost"] \in Requests
        /\ [req[q] EXCEPT !.stage = "lost"].stage = "lost"
        /\ [req[q] EXCEPT !.stage = "lost"].payload = req[q].payload
        /\ [req[q] EXCEPT !.stage = "lost"].dry = req[q].dry
        /\ [req[q] EXCEPT !.stage = "lost"].code = req[q].code
    BY <2>1 DEF Requests, Stages
  <2>3. req'[q] = IF q \notin Commands /\ req[q].stage \in Running
                  THEN [req[q] EXCEPT !.stage = "lost"] ELSE req[q]
    BY <1>2
  <2> QED
    BY <2>1, <2>2, <2>3
<1>6. req' \in [Runs -> Requests]
  <2>1. req' = [q \in Runs |-> req'[q]]
    BY <1>2
  <2> QED
    BY <1>5, <2>1
<1>7. /\ github' \in [Runs -> {"none", "pending", "delivered", "failed"}]
      /\ \A q \in Runs : github'[q] = "delivered" => github[q] = "delivered"
    BY <1>1, <1>2 DEF WebhookTypeOK
<1>8. WebhookTypeOK'
  <2>1. \A q \in Runs : req'[q].payload \in PayloadsOf[q]
    BY <1>1, <1>5 DEF WebhookTypeOK
  <2> QED
    BY <1>1, <1>2, <1>3, <1>4, <1>6, <1>7, <2>1 DEF WebhookTypeOK
<1> QED
    BY <1>3, <1>4, <1>5, <1>7, <1>8, CommonStep

\* The process comes up, is told to go, goes or is killed.
LEMMA ProcessStep ==
    ASSUME WebhookInv, Boot \/ Sigterm \/ ShutdownReturns \/ Killed
    PROVE  WebhookInv'
<1>1. WebhookTypeOK /\ template = Rendered
    BY DEF WebhookInv
<1>2. CASE Boot \/ Sigterm
  <2>1. /\ server' \in {"up", "draining"} /\ template' = template
        /\ UNCHANGED <<clusterVars, object, req, wire, result, github, kills>>
    BY <1>1, <1>2 DEF Boot, Sigterm, builderVars
  <2>2. ClusterTypeOK' /\ job' = job
    BY <1>1, <2>1, ClusterKept
  <2>3. WebhookTypeOK'
    BY <1>1, <2>1, <2>2 DEF WebhookTypeOK
  <2> QED
    BY <2>1, <2>2, <2>3, CommonStep
<1>3. CASE ShutdownReturns
  <2>1. ProcessDies /\ kills' = kills
    BY <1>3 DEF ShutdownReturns
  <2>2. kills' \in 0 .. MaxKills
    BY <1>1, <2>1 DEF WebhookTypeOK
  <2> QED
    BY <2>1, <2>2, DeathStep
<1>4. CASE Killed
  <2>1. ProcessDies /\ kills < MaxKills /\ kills' = kills + 1
    BY <1>4 DEF Killed
  <2>2. kills' \in 0 .. MaxKills
    BY <1>1, <2>1, BoundAssumption DEF WebhookTypeOK
  <2> QED
    BY <2>1, <2>2, DeathStep
<1> QED
    BY <1>2, <1>3, <1>4

\* Kubernetes makes no Job and brings none back: it ends them and deletes them.
LEMMA ClusterIs ==
    ASSUME ClusterTypeOK, ClusterNext
    PROVE  /\ ClusterTypeOK'
           /\ \A q \in Runs : /\ job'[q] # "absent" <=> job[q] # "absent"
                              /\ job'[q] \in JobPresent => job[q] \in JobPresent
<1>1. PICK r \in Runs : PodStops(r) \/ PodGone(r) \/ JobInterim(r) \/ JobEnds(r) \/ JobRemoved(r)
    BY DEF ClusterNext
<1>2. CASE PodStops(r) \/ PodGone(r)
  <2>1. job' = job /\ \E left \in PodStates : pod' = [pod EXCEPT ![r] = left]
    BY <1>2 DEF PodStops, PodGone, PodStates, PodPresent
  <2> QED
    BY <2>1 DEF ClusterTypeOK
<1>3. CASE JobInterim(r) \/ JobEnds(r) \/ JobRemoved(r)
  <2>1. /\ pod' = pod /\ job[r] \in JobPresent
        /\ \E fate \in JobStates \ {"absent"} : job' = [job EXCEPT ![r] = fate]
    BY <1>3 DEF JobInterim, JobEnds, JobRemoved, JobStates, JobPresent
  <2> QED
    BY <2>1 DEF ClusterTypeOK, JobPresent
<1> QED
    BY <1>1, <1>2, <1>3

\* A step of the namespace alone keeps WebhookInv: Jobs run, end and are deleted.
LEMMA ClusterStep ==
    ASSUME WebhookInv, ClusterNext, UNCHANGED webhookVars
    PROVE  WebhookInv'
<1>1. WebhookTypeOK /\ ClusterTypeOK
    BY DEF WebhookInv, WebhookTypeOK
<1>2. /\ server' = server /\ kills' = kills /\ template' = template /\ object' = object
      /\ req' = req /\ wire' = wire /\ result' = result /\ github' = github
    BY DEF webhookVars, builderVars
<1>3. /\ ClusterTypeOK'
      /\ \A q \in Runs : /\ job'[q] # "absent" <=> job[q] # "absent"
                         /\ job'[q] \in JobPresent => job[q] \in JobPresent
    BY <1>1, ClusterIs
<1>4. WebhookTypeOK'
    BY <1>1, <1>2, <1>3 DEF WebhookTypeOK
<1> QED
    BY <1>2, <1>3, <1>4, CommonStep

\* Every step keeps the invariant.
LEMMA WebhookStepHolds ==
    ASSUME WebhookInv, [WebhookNext]_whVars
    PROVE  WebhookInv'
<1>1. CASE WebhookNext
  <2>1. ASSUME NEW r \in Runs,
               Deliver(r) \/ GitHubHangsUp(r) \/ Handle(r) \/ Apiserver(r) \/ Command(r)
        PROVE  WebhookInv'
    BY <2>1, DeliverStep, HangsUpStep, RefuseStep, StartStep, AcceptStep, StartFailsStep,
       ExecutedStep, LostStep, RunCommandStep, CommandReturnsStep
       DEF Handle, Apiserver, Command
  <2>2. CASE Boot \/ Sigterm \/ ShutdownReturns \/ Killed
    BY <2>2, ProcessStep
  <2>3. CASE ClusterNext /\ UNCHANGED webhookVars
    BY <2>3, ClusterStep
  <2> QED
    BY <1>1, <2>1, <2>2, <2>3 DEF WebhookNext
<1>2. CASE UNCHANGED whVars
  <2>1. WebhookTypeOK /\ UNCHANGED <<clusterVars, webhookVars>>
    BY <1>2 DEF WebhookInv, whVars
  <2>2. /\ server' = server /\ kills' = kills /\ template' = template /\ object' = object
        /\ req' = req /\ wire' = wire /\ result' = result /\ github' = github
    BY <2>1 DEF webhookVars, builderVars
  <2>3. ClusterTypeOK' /\ job' = job
    BY <2>1, ClusterKept
  <2>4. WebhookTypeOK'
    BY <2>1, <2>2, <2>3 DEF WebhookTypeOK
  <2> QED
    BY <2>2, <2>3, <2>4, CommonStep
<1> QED
    BY <1>1, <1>2

-----------------------------------------------------------------------------
(* What follows from the invariant *)

\* A text is spelled of the pieces there are, and a request's Job name is that of the run its
\* text parses to.
LEMMA NameOfSpelled ==
    ASSUME NEW r \in Spelled
    PROVE  /\ r \in Runs /\ Text[r] \in Seq(Pieces)
           /\ \E run \in ParseIssue(Text[r]) : IssueOf[r] = JobName(run)
BY TextAssumption, NameAssumption DEF Spelled, Pieces

\* Of two requests that parse, the Job names are one if and only if the issues are.
LEMMA NameIsOfIssue ==
    ASSUME NEW q \in Spelled, NEW r \in Spelled
    PROVE  SameIssue(q, r) <=> IssueOf[q] = IssueOf[r]
<1>1. /\ q \in Runs /\ r \in Runs /\ Text[q] \in Seq(Pieces) /\ Text[r] \in Seq(Pieces)
    BY NameOfSpelled
<1>2. PICK run \in ParseIssue(Text[q]) : IssueOf[q] = JobName(run)
    BY NameOfSpelled
<1>3. PICK other \in ParseIssue(Text[r]) : IssueOf[r] = JobName(other)
    BY NameOfSpelled
<1>4. SameIssue(q, r) <=> Folded(Text[q]) = Folded(Text[r])
    BY <1>1 DEF SameIssue, AskedFor
<1>5. Folded(Text[q]) = Folded(Text[r]) => JobName(run) = JobName(other)
    BY <1>1, NameIsOfFolding
<1>6. JobName(run) = JobName(other) => Folded(Text[q]) = Folded(Text[r])
    BY <1>1, FoldingIsOfName
<1> QED
    BY <1>2, <1>3, <1>4, <1>5, <1>6

\* Whose Job there is, parsed, passed if it was delivered, and is named in it alone.
LEMMA JobIsDue ==
    ASSUME WebhookInv, NEW r \in Runs, job[r] # "absent"
    PROVE  r \in Spelled /\ (r \in Commands \/ Passes(r)) /\ object[r] = <<r>>
<1>1. SendIsDue(r) /\ JobIsCreated(r)
    BY DEF WebhookInv
<1>2. Sent(r)
    BY <1>1 DEF JobIsCreated, Sent
<1> QED
    BY <1>1, <1>2 DEF SendIsDue

\* Two Jobs of one issue would share a name, and a name is held once.
LEMMA InvGivesOneJob == WebhookInv => OneJobPerIssue
<1> SUFFICES ASSUME WebhookInv, NEW q \in Runs, NEW r \in Runs, q # r, SameIssue(q, r),
                    job[q] \in JobPresent, job[r] \in JobPresent
             PROVE  FALSE
    BY DEF OneJobPerIssue
<1>1. job[q] # "absent" /\ job[r] # "absent"
    BY DEF JobPresent
<1>2. q \in Spelled /\ r \in Spelled
    BY <1>1, JobIsDue
<1>3. IssueOf[q] = IssueOf[r]
    BY <1>2, NameIsOfIssue
<1> QED
    BY <1>3 DEF WebhookInv, NamesAreHeldOnce

\* Whoever was accepted found its Job created, or the name taken by a Job of its issue.
LEMMA InvGivesRun == WebhookInv => AcceptedHasRun
<1> SUFFICES ASSUME WebhookInv, NEW r \in Runs, Accepted(r)
             PROVE  \E q \in Runs : SameIssue(q, r) /\ job[q] # "absent"
    BY DEF AcceptedHasRun
<1>1. SendIsDue(r) /\ AnswerIsTrue(r)
    BY DEF WebhookInv
<1>2. Started(result[r]) /\ ~req[r].dry
    BY <1>1 DEF AnswerIsTrue, Accepted
<1>3. r \in Spelled
    BY <1>1, <1>2 DEF SendIsDue, Sent, Started
<1>4. PICK q \in Runs : IssueOf[q] = IssueOf[r] /\ job[q] # "absent"
    BY <1>1, <1>2 DEF AnswerIsTrue, NameHadJob
<1>5. q \in Spelled
    BY <1>4, JobIsDue
<1>6. SameIssue(q, r)
    BY <1>3, <1>4, <1>5, NameIsOfIssue
<1> QED
    BY <1>4, <1>6

\* A Job was created by a request, and only due requests are sent.
LEMMA InvGivesTrigger == WebhookInv => OnlyTheTrigger
<1> SUFFICES ASSUME WebhookInv, NEW r \in Runs \ Commands, job[r] # "absent"
             PROVE  LET p == req[r].payload
                    IN  /\ p.secret /\ p.signed /\ p.event = "issues" /\ p.action = "labeled"
                        /\ p.label = "ready" /\ p.number > 0 /\ p.state = "open"
                        /\ p.sender = "User"
    BY DEF OnlyTheTrigger
<1> DEFINE p == req[r].payload
<1>1. Passes(r)
    BY JobIsDue
<1>2. /\ p.secret /\ p.signed /\ p.event = "issues" /\ p.action = "labeled"
      /\ p.label = "ready" /\ p.number > 0 /\ p.state = "open" /\ Authorized(p)
    BY <1>1, PassesIsTrigger
<1>3. p.sender \in {"User", "ghost", "Bot"}
    BY DEF WebhookInv, WebhookTypeOK, Requests, PayloadType
<1>4. p.sender = "User"
    BY <1>2, <1>3 DEF Authorized
<1> QED
    BY <1>2, <1>4

\* What the proxy reads from a pod's Job is the run the Job was created for.
LEMMA InvGivesOwnIdentity == WebhookInv => AuthenticatesAsItself
BY JobIsDue, SpelledIsReadBack DEF AuthenticatesAsItself

-----------------------------------------------------------------------------
(* Theorems *)

\* The invariant holds in every behaviour: a create is sent once, for a request that passed,
\* and what is answered well the apiserver answered so.
THEOREM WebhookInvariance == WebhookSpec => []WebhookInv
<1>1. WebhookInit => WebhookInv
    BY WebhookInitHolds
<1>2. WebhookInv /\ [WebhookNext]_whVars => WebhookInv'
    BY WebhookStepHolds
<1> QED
    BY <1>1, <1>2, PTL DEF WebhookSpec

\* Two runs of one issue are never in the cluster together, whatever is redelivered, relabelled
\* or typed, in whatever case, and however the process is killed.
THEOREM OneJob == WebhookSpec => []OneJobPerIssue
<1>1. WebhookInv => OneJobPerIssue
    BY InvGivesOneJob
<1> QED
    BY <1>1, WebhookInvariance, PTL

\* Whoever was accepted, on the App's page or with an exit 0, has a run of that very issue.
THEOREM AcceptedRuns == WebhookSpec => []AcceptedHasRun
<1>1. WebhookInv => AcceptedHasRun
    BY InvGivesRun
<1> QED
    BY <1>1, WebhookInvariance, PTL

\* A delivery becomes a Job only if it is the trigger: signed, a ready label, by a person, on an
\* open issue.
THEOREM TriggerOnly == WebhookSpec => []OnlyTheTrigger
<1>1. WebhookInv => OnlyTheTrigger
    BY InvGivesTrigger
<1> QED
    BY <1>1, WebhookInvariance, PTL

\* The Job of a run names that run alone, and the proxy reads its claim back as that run.
THEOREM OwnIdentity == WebhookSpec => []AuthenticatesAsItself
<1>1. WebhookInv => AuthenticatesAsItself
    BY InvGivesOwnIdentity
<1> QED
    BY <1>1, WebhookInvariance, PTL

=============================================================================
