----------------------------- MODULE CertReload -----------------------------
(***************************************************************************)
(* proxy/cert.go: the proxy's serving certificate, re-read when the file's *)
(* modification time moves.  cert-manager renews the Secret and the        *)
(* kubelet swaps the mount underneath the running process, at any moment   *)
(* of a call: between the stat, the two file reads and the assignment.     *)
(* The mutex admits one call of current at a time.                         *)
(*                                                                         *)
(* The mount's content is a generation; each has its own timestamp.        *)
(***************************************************************************)
EXTENDS Integers

CONSTANTS
    Missing,    \* generations whose tls.crt cannot be stat'ed
    Broken,     \* generations that do not load: unreadable, or not a pair
    MaxGen      \* bound: renewals

ASSUME GenerationsAssumption == Missing \subseteq Broken /\ Broken \subseteq Nat \ {0}

VARIABLES
    disk,    \* the generation the mount holds
    mod,     \* Certs.mod: the generation whose timestamp is remembered
    cert,    \* Certs.cert: the generation loaded, None at a cold start
    call     \* the call of current that holds the mutex

vars == <<disk, mod, cert, call>>

None == 0

\* seen: the generation stat saw.  crt: the one tls.crt was read from.
\* still: the mount was not swapped since the call began.
Stages == {"stat", "crt", "key", "install", "returned"}
Calls  == [stage : Stages, seen : Nat, crt : Nat, still : BOOLEAN, answer : Nat]
Enter  == [stage |-> "stat", seen |-> None, crt |-> None, still |-> TRUE, answer |-> None]

TypeOK ==
    /\ disk \in Nat \ {None}
    /\ mod \in Nat
    /\ cert \in Nat
    /\ call \in Calls

Init ==
    /\ disk = 1
    /\ mod = None
    /\ cert = None
    /\ call = Enter

-----------------------------------------------------------------------------

\* The kubelet swaps the whole mount.
Swap ==
    /\ disk < MaxGen
    /\ disk' = disk + 1
    /\ call' = [call EXCEPT !.still = FALSE]
    /\ UNCHANGED <<mod, cert>>

Answer(c) == call' = [call EXCEPT !.stage = "returned", !.answer = c]

AnswerError == Answer(None)

\* A failure is covered by the previous certificate; at a cold start there is
\* none, and None is the error.
AnswerPrevious == Answer(cert)

\* A reload failed: the certificate in memory, if any, is served.
ServePrevious == AnswerPrevious /\ UNCHANGED <<mod, cert>>

\* The timestamp is the one remembered.
Unmoved == cert # None /\ disk = mod

Stat ==
    /\ call.stage = "stat"
    /\ \/ disk \in Missing /\ ServePrevious
       \/ disk \notin Missing /\ Unmoved /\ ServePrevious
       \/ /\ disk \notin Missing /\ ~Unmoved
          /\ call' = [call EXCEPT !.stage = "crt", !.seen = disk]
          /\ UNCHANGED <<mod, cert>>
    /\ UNCHANGED disk

\* LoadX509KeyPair reads the two files one after the other ...
ReadCrt ==
    /\ call.stage = "crt"
    /\ call' = [call EXCEPT !.stage = "key", !.crt = disk]
    /\ UNCHANGED <<disk, mod, cert>>

\* ... and rejects a certificate and a key that are not a pair.
Loads == call.crt = disk /\ disk \notin Broken

ReadKey ==
    /\ call.stage = "key"
    /\ \/ Loads /\ call' = [call EXCEPT !.stage = "install"] /\ UNCHANGED <<mod, cert>>
       \/ ~Loads /\ ServePrevious
    /\ UNCHANGED disk

StatAgain == disk

\* The timestamp kept is the stat's, taken before the files were read.
ModTime == call.seen

Install ==
    /\ call.stage = "install"
    /\ cert' = call.crt
    /\ mod' = ModTime
    /\ Answer(call.crt)
    /\ UNCHANGED disk

\* The next handshake, or the next host to decide on.
NextCall ==
    /\ call.stage = "returned"
    /\ call' = Enter
    /\ UNCHANGED <<disk, mod, cert>>

Next == Swap \/ Stat \/ ReadCrt \/ ReadKey \/ Install \/ NextCall

Spec == Init /\ [][Next]_vars

-----------------------------------------------------------------------------
(* Properties *)

\* When stat says nothing moved, the certificate in memory is the one on disk: no
\* interleaving of a reload with a renewal leaves the proxy on a superseded one.
NeverStuck == Unmoved => cert = disk

\* A call the kubelet did not swap under answers with what the mount holds, if it
\* loads: a renewal takes effect at the next handshake, with no restart.
FreshAnswer ==
    call.stage = "returned" /\ call.still /\ disk \notin Broken => call.answer = disk

\* A renewal caught mid-write costs no handshake: once a certificate was loaded, no
\* call is answered with an error.
KeepsServing == call.stage = "returned" /\ cert # None => call.answer # None

-----------------------------------------------------------------------------
(* The inductive invariant *)

\* What is remembered is never newer than what was read after it, nor that than
\* the mount: a reload that raced a swap remembers too old a timestamp, and
\* the next stat finds it out.
Ordered ==
    /\ mod <= cert /\ cert <= disk
    /\ call.stage \in {"crt", "key", "install"} => call.seen # None /\ call.seen <= disk
    /\ call.stage \in {"key", "install"} => call.seen <= call.crt /\ call.crt <= disk

\* A call the mount held still for saw one generation throughout.
Steady ==
    call.still =>
        /\ call.stage \in {"crt", "key", "install"} => call.seen = disk /\ disk \notin Missing
        /\ call.stage \in {"key", "install"} => call.crt = disk

IInv == TypeOK /\ Ordered /\ Steady /\ NeverStuck /\ FreshAnswer /\ KeepsServing
=============================================================================
