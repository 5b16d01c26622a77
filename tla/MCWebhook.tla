----------------------------- MODULE MCWebhook ------------------------------
(* Small instances of Webhook for TLC. *)
EXTENDS Webhook, TLC

CONSTANTS q1, q2, q3, q4, e1, e2, e3

\* Two words in either case, a number, the separators, and a comma.
TheWords == {"acme", "Acme", "my", "repo", "5"}
TheFold  == [p \in TheWords \cup {"-", "/", "#", ","} |-> IF p = "Acme" THEN "acme" ELSE p]

\* acme-my/repo#5 in two spellings, the repository that has the same slug, and a text
\* whose owner is no GitHub name.
Mine      == <<"acme", "-", "my", "/", "repo", "#", "5">>
MineUpper == [Mine EXCEPT ![1] = "Acme"]
Lookalike == <<"acme", "/", "my", "-", "repo", "#", "5">>
Comma     == <<"acme", ",", "my", "/", "repo", "#", "5">>

NameOf(text) ==
    IF ParseIssue(text) = {} THEN [slug |-> <<>>, hash |-> <<>>]
    ELSE JobName(CHOOSE run \in ParseIssue(text) : TRUE)

\* The delivery that is the trigger, and those one field away from it.
Trigger ==
    [secret |-> TRUE, fits |-> TRUE, signed |-> TRUE, event |-> "issues", json |-> TRUE,
     action |-> "labeled", label |-> "ready", number |-> 1, state |-> "open",
     sender |-> "User"]

Neighbours ==
    {Trigger} \cup {p \in PayloadType : \E f \in DOMAIN p : [p EXCEPT ![f] = Trigger[f]] = Trigger}

\* TLC evaluates a definition once, but not one that a constant stands for: hence the
\* names are defined in two steps.

\* A delivery, put by a person who may be gone; its owner typed in lower case, its
\* lookalike typed, and the text with a comma typed.
RaceTexts    == (q1 :> MineUpper) @@ (q2 :> Mine) @@ (q3 :> Lookalike) @@ (q4 :> Comma)
NamesInRace  == [q \in DOMAIN RaceTexts |-> NameOf(RaceTexts[q])]
RaceNames    == NamesInRace
RaceEvents   == (q1 :> e1) @@ (q2 :> e2) @@ (q3 :> e3) @@ (q4 :> e2)
RacePayloads == (q1 :> {Trigger, [Trigger EXCEPT !.sender = "ghost"]}) @@
                [q \in {q2, q3, q4} |-> {Trigger}]

\* Two deliveries for one issue, anything near the trigger and the trigger.
PairTexts    == (q1 :> MineUpper) @@ (q2 :> Mine)
NamesInPair  == [q \in DOMAIN PairTexts |-> NameOf(PairTexts[q])]
PairNames    == NamesInPair
PairEvents   == (q1 :> e1) @@ (q2 :> e2)
PairPayloads == (q1 :> Neighbours) @@ (q2 :> {Trigger})

\* One event, delivered twice: one text.
TwiceTexts    == [q \in {q1, q2} |-> Mine]
NamesInTwice  == [q \in DOMAIN TwiceTexts |-> NameOf(TwiceTexts[q])]
TwiceNames    == NamesInTwice
TwiceEvents   == [q \in {q1, q2} |-> e1]
TwicePayloads == [q \in {q1, q2} |-> {Trigger}]

Names(named) == {named[q] : q \in DOMAIN named}
RaceIssues   == Names(RaceNames)
PairIssues   == Names(PairNames)
TwiceIssues  == Names(TwiceNames)
=============================================================================
