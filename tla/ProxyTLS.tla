------------------------------ MODULE ProxyTLS ------------------------------
(***************************************************************************)
(* proxy.go, creds.go and cmd/proxy over one CertReload: the boot that     *)
(* checks the credentials against the certificate, the CONNECT that is     *)
(* decided by it, and the handshake that presents it.  Each of the three   *)
(* is a call of current of its own, so the certificate may be renewed      *)
(* between any two of them, and the process may be killed at any time.     *)
(***************************************************************************)
EXTENDS CertReload

CONSTANTS
    Conns,          \* connections; each asks for one host
    Main,           \* the boot, as a caller of current
    NoCaller,
    Hosts,
    Credentialed,   \* the hosts some credential names
    NamedBy,        \* NamedBy[g]: the hosts generation g of the certificate names
    MaxBoots        \* bound: boots of the process

ASSUME CallersAssumption == Main \notin Conns /\ NoCaller \notin Conns \cup {Main} /\ Main # NoCaller
ASSUME HostsAssumption   == Credentialed \subseteq Hosts /\ NamedBy \in [1 .. MaxGen -> SUBSET Hosts]
ASSUME BootsAssumption   == MaxBoots \in Nat \ {0}

VARIABLES
    proc,      \* the process: what main is at, or "dead"
    unchecked, \* credentialed hosts NewCreds has not asked about yet
    promised,  \* history: [Hosts -> the generation NewCreds found the host on]
    boots,
    caller,    \* who the call of current is for; NoCaller if the mutex is free
    conn       \* [Conns -> the connection]

certVars == <<disk, mod, cert, call>>
bootVars == <<proc, unchecked, promised, boots>>
tlsVars  == <<certVars, bootVars, caller, conn>>

\* by: the generation that decided.  shown: the one the handshake presented.
ConnStages == {"new", "deciding", "intercepted", "shaking", "served", "rejected",
               "tunnelled", "closed"}
Connection == [stage : ConnStages, host : Hosts, by : Nat, shown : Nat]

TLSTypeOK ==
    /\ TypeOK
    /\ proc \in {"loading", "creds", "serving", "dead"}
    /\ unchecked \subseteq Credentialed
    /\ promised \in [Hosts -> Nat]
    /\ boots \in 1 .. MaxBoots
    /\ caller \in Conns \cup {Main, NoCaller}
    /\ conn \in [Conns -> Connection]

\* What NewCreds goes through.
ToCheck == Credentialed

Fresh(h) == [stage |-> "new", host |-> h, by |-> None, shown |-> None]

TLSInit ==
    /\ Init
    /\ proc = "loading"
    /\ unchecked = ToCheck
    /\ promised = [h \in Hosts |-> None]
    /\ boots = 1
    /\ caller = Main
    /\ conn \in [Conns -> {Fresh(h) : h \in Hosts}]

Returned == call.stage = "returned"

\* Unlock, as current returns.
MutexFree == caller = NoCaller

\* A caller takes the mutex.
Locks(who) ==
    /\ MutexFree
    /\ caller' = who
    /\ NextCall

\* The call's own steps.
Current ==
    /\ caller # NoCaller
    /\ Stat \/ ReadCrt \/ ReadKey \/ Install
    /\ UNCHANGED <<bootVars, caller, conn>>

Renewal == Swap /\ UNCHANGED <<bootVars, caller, conn>>

\* The host is on the certificate the call answered with, if it answered with one.
Named(h) == call.answer # None /\ h \in NamedBy[call.answer]

-----------------------------------------------------------------------------
(* main *)

\* LoadCerts: no certificate, no proxy.
Loaded ==
    /\ proc = "loading" /\ caller = Main /\ Returned
    /\ proc' = IF call.answer = None THEN "dead" ELSE "creds"
    /\ caller' = NoCaller
    /\ UNCHANGED <<certVars, unchecked, promised, boots, conn>>

\* NewCreds: the next host of a credential is looked for on the certificate.
AskForHost ==
    /\ proc = "creds" /\ unchecked # {}
    /\ Locks(Main)
    /\ UNCHANGED <<bootVars, conn>>

NoQuestion(h) == TRUE

FoundAtBoot(h) == Named(h)

\* A credential on a host the certificate does not name is a boot failure.
HostChecked ==
    /\ proc = "creds" /\ caller = Main /\ Returned
    /\ \E h \in unchecked :
        /\ unchecked' = unchecked \ {h}
        /\ proc' = IF FoundAtBoot(h) THEN "creds" ELSE "dead"
        /\ promised' = [promised EXCEPT ![h] = call.answer]
    /\ caller' = NoCaller
    /\ UNCHANGED <<certVars, boots, conn>>

\* The listener opens when all of them were found.
Listen ==
    /\ proc = "creds" /\ unchecked = {} /\ MutexFree
    /\ proc' = "serving"
    /\ UNCHANGED <<certVars, unchecked, promised, boots, caller, conn>>

\* log.Fatal, or a kill.
Killed ==
    /\ boots < MaxBoots
    /\ boots' = boots + 1
    /\ proc' = "loading"
    /\ unchecked' = ToCheck
    /\ promised' = [h \in Hosts |-> None]
    /\ mod' = None /\ cert' = None /\ call' = Enter
    /\ caller' = Main
    /\ conn' = [c \in Conns |-> IF conn[c].stage = "new" THEN conn[c]
                                ELSE [conn[c] EXCEPT !.stage = "closed"]]
    /\ UNCHANGED disk

-----------------------------------------------------------------------------
(* One connection *)

\* ServeHTTP asks whether the CONNECT's host is on the certificate ...
AskIntercepts(c) ==
    /\ proc = "serving" /\ conn[c].stage = "new"
    /\ Locks(c)
    /\ conn' = [conn EXCEPT ![c].stage = "deciding"]
    /\ UNCHANGED bootVars

\* ... and intercepts or tunnels; an error of current is a tunnel.
Decide(c) ==
    /\ conn[c].stage = "deciding" /\ caller = c /\ Returned
    /\ conn' = [conn EXCEPT ![c].stage = IF Named(conn[c].host) THEN "intercepted" ELSE "tunnelled",
                            ![c].by = call.answer]
    /\ caller' = NoCaller
    /\ UNCHANGED <<certVars, bootVars>>

\* The ClientHello arrives: GetCertificate.
ClientHello(c) ==
    /\ conn[c].stage = "intercepted"
    /\ Locks(c)
    /\ conn' = [conn EXCEPT ![c].stage = "shaking"]
    /\ UNCHANGED bootVars

\* The client accepts a certificate that names the host it asked for.
Handshake(c) ==
    /\ conn[c].stage = "shaking" /\ caller = c /\ Returned
    /\ conn' = [conn EXCEPT ![c].stage = IF Named(conn[c].host) THEN "served" ELSE "rejected",
                            ![c].shown = call.answer]
    /\ caller' = NoCaller
    /\ UNCHANGED <<certVars, bootVars>>

TLSNext ==
    \/ Renewal \/ Current
    \/ Loaded \/ AskForHost \/ HostChecked \/ Listen \/ Killed
    \/ \E c \in Conns : AskIntercepts(c) \/ Decide(c) \/ ClientHello(c) \/ Handshake(c)

TLSSpec == TLSInit /\ [][TLSNext]_tlsVars

-----------------------------------------------------------------------------
(* Properties *)

\* Some renewal after generation g took host h off the certificate.
DroppedSince(g, h) == \E k \in g + 1 .. disk : h \notin NamedBy[k]

\* What was decided holds at the handshake: an interception that was decided is
\* presented a certificate for its host, whatever was renewed, failed to load or
\* went missing in between, unless a renewal really dropped the host.
DecidedIsPresented ==
    \A c \in Conns : conn[c].stage = "rejected" => DroppedSince(conn[c].by, conn[c].host)

\* A host with a credential is tunnelled, and so sent without it, only if a renewal
\* after the boot that checked it dropped the host: no error, missing file or
\* half-written renewal does it.
CredentialedIsIntercepted ==
    \A c \in Conns : conn[c].stage = "tunnelled" /\ conn[c].host \in Credentialed =>
        DroppedSince(promised[conn[c].host], conn[c].host)

-----------------------------------------------------------------------------
(* The inductive invariant *)

\* A call returns what is loaded, and what is loaded is never older than what was.
Onwards ==
    /\ Returned => call.answer = cert
    /\ call.stage \in {"crt", "key", "install"} => cert <= call.seen

\* The host is on generation g, and the proxy has loaded that or a later one.
OnSince(h, g) == g # None /\ g <= cert /\ h \in NamedBy[g]

\* Past its boot the process has found every credentialed host it asked for, and
\* it serves when it has asked for all.
BootKept ==
    /\ proc = "loading" => unchecked = ToCheck
    /\ proc \in {"creds", "serving"} =>
        cert # None /\ \A h \in Credentialed \ unchecked : OnSince(h, promised[h])
    /\ proc = "serving" => unchecked = {}

\* A connection in progress is one of the process that serves, and was intercepted by a
\* certificate that names its host.
ConnKept ==
    \A c \in Conns :
        /\ conn[c].stage \notin {"new", "closed"} => proc = "serving"
        /\ conn[c].stage \in {"intercepted", "shaking"} => OnSince(conn[c].host, conn[c].by)

TLSInv ==
    /\ TLSTypeOK /\ IInv /\ Onwards /\ BootKept /\ ConnKept
    /\ DecidedIsPresented /\ CredentialedIsIntercepted
=============================================================================
