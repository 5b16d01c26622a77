--------------------------- MODULE ProxyTLSProofs ---------------------------
(***************************************************************************)
(* Proofs about ProxyTLS, for any connections, hosts, credentials and      *)
(* renewals: what the boot and a CONNECT decided by one certificate still  *)
(* holds at the handshake with another.                                    *)
(***************************************************************************)
EXTENDS ProxyTLS, CertReloadProofs

\* Nothing was loaded, promised or decided yet.
LEMMA TLSInitHolds == TLSInit => TLSInv
<1> SUFFICES ASSUME TLSInit PROVE TLSInv
    OBVIOUS
<1>1. Init /\ IInv
    BY InitHolds DEF TLSInit
<1>2. /\ conn \in [Conns -> Connection]
      /\ \A c \in Conns : conn[c].stage = "new"
    BY DEF TLSInit, Fresh, Connection, ConnStages, None
<1>3. TLSTypeOK
    BY <1>1, <1>2, BootsAssumption DEF TLSInit, TLSTypeOK, IInv, ToCheck, None
<1> QED
    BY <1>1, <1>2, <1>3
    DEF TLSInv, TLSInit, Init, Enter, Onwards, Returned, BootKept, ConnKept, DecidedIsPresented,
        CredentialedIsIntercepted

\* A call's step, a renewal or neither: what is loaded and what is mounted only get newer.
LEMMA CertMoves ==
    ASSUME IInv, Onwards, [Next]_vars
    PROVE  IInv' /\ Onwards' /\ cert <= cert' /\ disk <= disk'
<1>1. IInv'
    BY StepHolds
<1> USE DEF IInv, TypeOK, Ordered, Onwards, Returned, None
<1>2. CASE Swap
  <2>1. call'.stage = call.stage /\ call'.seen = call.seen /\ call'.answer = call.answer
    BY <1>2 DEF Swap, Calls
  <2> QED
    BY <1>1, <1>2, <2>1 DEF Swap
<1>3. CASE Stat
  <2>1. /\ disk' = disk /\ cert' = cert
        /\ \/ call'.stage = "returned" /\ call'.answer = cert
           \/ call'.stage = "crt" /\ call'.seen = disk
    BY <1>3, AnswerIs DEF Stat, ServePrevious, AnswerPrevious, Calls
  <2> QED
    BY <1>1, <2>1
<1>4. CASE ReadCrt
  <2>1. /\ disk' = disk /\ cert' = cert
        /\ call.stage = "crt" /\ call'.stage = "key" /\ call'.seen = call.seen
    BY <1>4 DEF ReadCrt, Calls
  <2> QED
    BY <1>1, <2>1
<1>5. CASE ReadKey
  <2>1. /\ disk' = disk /\ cert' = cert /\ call.stage = "key"
        /\ \/ call'.stage = "returned" /\ call'.answer = cert
           \/ call'.stage = "install" /\ call'.seen = call.seen
    BY <1>5, AnswerIs DEF ReadKey, ServePrevious, AnswerPrevious, Calls
  <2> QED
    BY <1>1, <2>1
<1>6. CASE Install
  <2>1. call.crt \in Nat /\ call.seen \in Nat
    BY DEF Calls
  <2>2. /\ call.stage = "install" /\ disk' = disk /\ cert' = call.crt
        /\ call'.stage = "returned" /\ call'.answer = call.crt
    BY <1>6, <2>1, AnswerIs DEF Install
  <2> QED
    BY <1>1, <2>1, <2>2
<1>7. CASE NextCall
    BY <1>1, <1>7 DEF NextCall, Enter
<1>8. CASE UNCHANGED vars
    BY <1>1, <1>8 DEF vars
<1> QED
    BY <1>2, <1>3, <1>4, <1>5, <1>6, <1>7, <1>8 DEF Next

\* A step of CertReload's, seen from ProxyTLS.
LEMMA CertOfStep ==
    ASSUME TLSInv, [Next]_vars
    PROVE  TypeOK' /\ IInv' /\ Onwards' /\ cert <= cert' /\ disk <= disk'
<1>1. IInv /\ Onwards
    BY DEF TLSInv
<1> QED
    BY <1>1, CertMoves DEF IInv

\* What TLSInv says of one connection.
ConnOk(c) ==
    /\ conn[c].stage \notin {"new", "closed"} => proc = "serving"
    /\ conn[c].stage \in {"intercepted", "shaking"} => OnSince(conn[c].host, conn[c].by)
    /\ conn[c].stage = "rejected" => DroppedSince(conn[c].by, conn[c].host)
    /\ conn[c].stage = "tunnelled" /\ conn[c].host \in Credentialed =>
           DroppedSince(promised[conn[c].host], conn[c].host)

\* ... and of them all.
LEMMA ConnsOk ==
    (\A c \in Conns : ConnOk(c)) <=>
        (ConnKept /\ DecidedIsPresented /\ CredentialedIsIntercepted)
BY DEF ConnOk, ConnKept, DecidedIsPresented, CredentialedIsIntercepted

\* The certificate's progress disturbs no connection: what it named it named.
LEMMA ConnStays ==
    ASSUME TLSInv, [Next]_vars, proc' = proc, promised' = promised,
           NEW c \in Conns, conn'[c] = conn[c]
    PROVE  ConnOk(c)'
<1>1. ConnOk(c)
    BY ConnsOk DEF TLSInv
<1>2. /\ conn[c].by \in Nat /\ promised \in [Hosts -> Nat] /\ conn[c].host \in Hosts
      /\ cert \in Nat /\ disk \in Nat
    BY DEF TLSInv, TLSTypeOK, TypeOK, Connection
<1>3. cert' \in Nat /\ disk' \in Nat /\ cert <= cert' /\ disk <= disk'
    BY CertOfStep DEF TypeOK
<1> QED
    BY <1>1, <1>2, <1>3 DEF ConnOk, OnSince, DroppedSince, None

\* Nor what the boot has found.
LEMMA BootStays ==
    ASSUME TLSInv, [Next]_vars, UNCHANGED <<proc, unchecked, promised>>
    PROVE  BootKept'
<1>1. promised \in [Hosts -> Nat] /\ cert \in Nat /\ Credentialed \subseteq Hosts
    BY HostsAssumption DEF TLSInv, TLSTypeOK, TypeOK
<1>2. cert' \in Nat /\ cert <= cert'
    BY CertOfStep DEF TypeOK
<1> QED
    BY <1>1, <1>2 DEF TLSInv, BootKept, OnSince, None, ToCheck

\* A step of the mount or of the call in progress.
LEMMA CurrentStep ==
    ASSUME TLSInv, [Next]_vars, UNCHANGED <<bootVars, caller, conn>>
    PROVE  TLSInv'
<1>1. UNCHANGED <<proc, unchecked, promised, boots, caller, conn>>
    BY DEF bootVars
<1>2. TLSTypeOK'
    BY <1>1, CertOfStep DEF TLSInv, TLSTypeOK
<1>3. \A c \in Conns : ConnOk(c)'
    BY <1>1, ConnStays
<1>4. ConnKept' /\ DecidedIsPresented' /\ CredentialedIsIntercepted'
    BY <1>3 DEF ConnOk, ConnKept, DecidedIsPresented, CredentialedIsIntercepted
<1> QED
    BY <1>1, <1>2, <1>4, CertOfStep, BootStays DEF TLSInv

\* A step of one connection, which leaves the others as they are.
LEMMA ConnStep ==
    ASSUME TLSInv, [Next]_vars, UNCHANGED bootVars,
           caller' \in Conns \cup {Main, NoCaller}, conn' \in [Conns -> Connection],
           NEW c \in Conns, \A d \in Conns \ {c} : conn'[d] = conn[d], ConnOk(c)'
    PROVE  TLSInv'
<1>1. UNCHANGED <<proc, unchecked, promised, boots>>
    BY DEF bootVars
<1>2. TLSTypeOK'
    BY <1>1, CertOfStep DEF TLSInv, TLSTypeOK
<1>3. \A d \in Conns \ {c} : ConnOk(d)'
    BY <1>1, ConnStays
<1>4. ConnKept' /\ DecidedIsPresented' /\ CredentialedIsIntercepted'
    BY <1>3 DEF ConnOk, ConnKept, DecidedIsPresented, CredentialedIsIntercepted
<1> QED
    BY <1>1, <1>2, <1>4, CertOfStep, BootStays DEF TLSInv

-----------------------------------------------------------------------------

\* main: LoadCerts, NewCreds' questions and their answers, the listener.
LEMMA BootStep ==
    ASSUME TLSInv, Loaded \/ AskForHost \/ HostChecked \/ Listen
    PROVE  TLSInv'
<1>1. /\ proc # "serving" /\ UNCHANGED conn
      /\ promised \in [Hosts -> Nat] /\ Credentialed \subseteq Hosts
      /\ call \in Calls /\ cert \in Nat
    BY HostsAssumption
    DEF TLSInv, TLSTypeOK, TypeOK, Loaded, AskForHost, HostChecked, Listen
<1>2. \A c \in Conns : conn[c].stage \in {"new", "closed"}
    BY <1>1 DEF TLSInv, ConnKept
<1>3. ConnKept' /\ DecidedIsPresented' /\ CredentialedIsIntercepted'
    BY <1>1, <1>2 DEF ConnKept, DecidedIsPresented, CredentialedIsIntercepted
<1>4. [Next]_vars
    BY DEF Loaded, AskForHost, HostChecked, Listen, Locks, certVars, vars, Next
<1>5. CASE Loaded
  <2>1. /\ UNCHANGED <<cert, unchecked, promised, boots>> /\ caller' = NoCaller
        /\ proc = "loading" /\ proc' = IF cert = None THEN "dead" ELSE "creds"
    BY <1>5 DEF Loaded, certVars, TLSInv, Onwards
  <2>2. TLSTypeOK'
    BY <1>1, <1>4, <2>1, CertOfStep DEF TLSInv, TLSTypeOK
  <2>3. BootKept'
    BY <2>1 DEF TLSInv, TLSTypeOK, BootKept, ToCheck
  <2> QED
    BY <1>3, <1>4, <2>2, <2>3, CertOfStep DEF TLSInv
<1>6. CASE AskForHost
  <2>1. UNCHANGED <<proc, unchecked, promised, boots>> /\ caller' = Main
    BY <1>6 DEF AskForHost, Locks, bootVars
  <2>2. TLSTypeOK'
    BY <1>1, <1>4, <2>1, CertOfStep DEF TLSInv, TLSTypeOK
  <2> QED
    BY <1>3, <1>4, <2>1, <2>2, CertOfStep, BootStays DEF TLSInv
<1>7. CASE HostChecked
  <2>1. PICK h \in unchecked :
            /\ unchecked' = unchecked \ {h}
            /\ proc' = IF FoundAtBoot(h) THEN "creds" ELSE "dead"
            /\ promised' = [promised EXCEPT ![h] = call.answer]
    BY <1>7 DEF HostChecked
  <2>2. /\ UNCHANGED <<cert, boots>> /\ caller' = NoCaller
        /\ proc = "creds" /\ call.answer = cert /\ h \in Hosts
    BY <1>1, <1>7 DEF HostChecked, certVars, TLSInv, TLSTypeOK, Onwards
  <2>3. TLSTypeOK'
    BY <1>1, <1>4, <2>1, <2>2, CertOfStep DEF TLSInv, TLSTypeOK
  <2>4. BootKept'
    BY <1>1, <2>1, <2>2 DEF TLSInv, BootKept, OnSince, FoundAtBoot, Named
  <2> QED
    BY <1>3, <1>4, <2>3, <2>4, CertOfStep DEF TLSInv
<1>8. CASE Listen
  <2>1. /\ UNCHANGED <<cert, unchecked, promised, boots, caller>>
        /\ proc = "creds" /\ unchecked = {} /\ proc' = "serving"
    BY <1>8 DEF Listen, certVars
  <2>2. TLSTypeOK'
    BY <1>1, <1>4, <2>1, CertOfStep DEF TLSInv, TLSTypeOK
  <2>3. BootKept'
    BY <2>1 DEF TLSInv, BootKept, OnSince
  <2> QED
    BY <1>3, <1>4, <2>2, <2>3, CertOfStep DEF TLSInv
<1> QED
    BY <1>5, <1>6, <1>7, <1>8

\* A fresh process knows nothing and has no connection but those to come.
LEMMA KillStep == TLSInv /\ Killed => TLSInv'
<1> SUFFICES ASSUME TLSInv, Killed PROVE TLSInv'
    OBVIOUS
<1>1. /\ disk' = disk /\ mod' = None /\ cert' = None /\ call' = Enter
      /\ proc' = "loading" /\ unchecked' = ToCheck /\ promised' = [h \in Hosts |-> None]
      /\ boots' = boots + 1 /\ boots < MaxBoots /\ caller' = Main
    BY DEF Killed
<1>2. IInv'
    BY <1>1
    DEF TLSInv, IInv, TypeOK, Calls, Stages, Enter, None, Ordered, Steady, NeverStuck, Unmoved,
        FreshAnswer, KeepsServing
<1>3. /\ conn' \in [Conns -> Connection]
      /\ \A c \in Conns : conn'[c].stage \in {"new", "closed"}
    BY DEF Killed, TLSInv, TLSTypeOK, Connection, ConnStages
<1>4. TLSTypeOK'
    BY <1>1, <1>2, <1>3, BootsAssumption DEF TLSInv, TLSTypeOK, IInv, ToCheck, None
<1> QED
    BY <1>1, <1>2, <1>3, <1>4
    DEF TLSInv, Enter, Onwards, Returned, BootKept, ConnKept, DecidedIsPresented,
        CredentialedIsIntercepted

\* The CONNECT: its question, and what is decided by the answer.
LEMMA DecisionStep ==
    ASSUME TLSInv, NEW c \in Conns, AskIntercepts(c) \/ Decide(c)
    PROVE  TLSInv'
<1>1. /\ [Next]_vars /\ UNCHANGED bootVars
      /\ \A d \in Conns \ {c} : conn'[d] = conn[d]
    BY DEF TLSInv, TLSTypeOK, AskIntercepts, Decide, Locks, certVars, vars, Next
<1>2. /\ conn \in [Conns -> Connection] /\ promised \in [Hosts -> Nat]
      /\ call \in Calls /\ cert \in Nat /\ disk \in Nat /\ cert <= disk
    BY DEF TLSInv, TLSTypeOK, TypeOK, IInv, Ordered
<1>3. CASE AskIntercepts(c)
  <2>1. /\ conn' \in [Conns -> Connection] /\ caller' = c
        /\ conn'[c].stage = "deciding" /\ proc' = "serving"
    BY <1>2, <1>3 DEF AskIntercepts, Locks, Connection, ConnStages, bootVars
  <2>2. ConnOk(c)'
    BY <2>1 DEF ConnOk
  <2> QED
    BY <1>1, <2>1, <2>2, ConnStep
<1>4. CASE Decide(c)
  <2>1. /\ conn' \in [Conns -> Connection] /\ caller' = NoCaller
        /\ conn'[c].by = call.answer /\ conn'[c].host = conn[c].host
        /\ conn'[c].stage = IF Named(conn[c].host) THEN "intercepted" ELSE "tunnelled"
        /\ UNCHANGED <<disk, cert, proc, promised, unchecked>>
    <3>1. call.answer \in Nat
      BY <1>2 DEF Calls
    <3>2. PICK stage \in ConnStages :
              /\ stage = IF Named(conn[c].host) THEN "intercepted" ELSE "tunnelled"
              /\ conn' = [conn EXCEPT ![c].stage = stage, ![c].by = call.answer]
              /\ caller' = NoCaller /\ UNCHANGED <<disk, cert, proc, promised, unchecked>>
      BY <1>4 DEF Decide, ConnStages, certVars, bootVars
    <3>3. conn' \in [Conns -> Connection]
      BY <1>2, <3>1, <3>2 DEF Connection
    <3>4. /\ conn'[c].by = call.answer /\ conn'[c].host = conn[c].host
          /\ conn'[c].stage = IF Named(conn[c].host) THEN "intercepted" ELSE "tunnelled"
      BY <1>2, <3>2 DEF Connection
    <3> QED
      BY <3>2, <3>3, <3>4
  <2>2. proc = "serving" /\ call.answer = cert /\ conn[c].host \in Hosts
    BY <1>2, <1>4 DEF Decide, TLSInv, ConnKept, Onwards, Connection
  <2>3. conn[c].host \in Credentialed => OnSince(conn[c].host, promised[conn[c].host])
    BY <2>2 DEF TLSInv, BootKept
  <2>4. CASE Named(conn[c].host)
    <3>1. OnSince(conn[c].host, conn[c].by)'
      BY <1>2, <2>1, <2>2, <2>4 DEF Named, OnSince
    <3> QED
      BY <1>1, <2>1, <2>2, <2>4, <3>1, ConnStep DEF ConnOk
  <2>5. CASE ~Named(conn[c].host)
    <3>1. conn[c].host \in Credentialed => DroppedSince(promised[conn[c].host], conn[c].host)'
      BY <1>2, <2>1, <2>2, <2>3, <2>5 DEF Named, OnSince, DroppedSince, None
    <3>2. ConnOk(c)'
      BY <2>1, <2>2, <2>5, <3>1 DEF ConnOk, DroppedSince
    <3> QED
      BY <1>1, <2>1, <3>2, ConnStep
  <2> QED
    BY <2>4, <2>5
<1> QED
    BY <1>3, <1>4

\* The handshake: GetCertificate, and what the client makes of it.
LEMMA HandshakeStep ==
    ASSUME TLSInv, NEW c \in Conns, ClientHello(c) \/ Handshake(c)
    PROVE  TLSInv'
<1>1. /\ [Next]_vars /\ UNCHANGED bootVars
      /\ \A d \in Conns \ {c} : conn'[d] = conn[d]
    BY DEF TLSInv, TLSTypeOK, ClientHello, Handshake, Locks, certVars, vars, Next
<1>2. /\ conn \in [Conns -> Connection]
      /\ call \in Calls /\ cert \in Nat /\ disk \in Nat /\ cert <= disk
      /\ conn[c].by \in Nat
    BY DEF TLSInv, TLSTypeOK, TypeOK, IInv, Ordered, Connection
<1>3. proc = "serving" /\ OnSince(conn[c].host, conn[c].by)
    BY DEF TLSInv, ConnKept, ClientHello, Handshake
<1>4. CASE ClientHello(c)
  <2>1. /\ conn' \in [Conns -> Connection] /\ caller' = c
        /\ conn'[c].stage = "shaking" /\ UNCHANGED <<cert, proc>>
        /\ conn'[c].by = conn[c].by /\ conn'[c].host = conn[c].host
    BY <1>2, <1>4 DEF ClientHello, Locks, NextCall, Connection, ConnStages, bootVars
  <2>2. ConnOk(c)'
    BY <1>3, <2>1 DEF ConnOk, OnSince
  <2> QED
    BY <1>1, <2>1, <2>2, ConnStep
<1>5. CASE Handshake(c)
  <2>1. /\ conn' \in [Conns -> Connection] /\ caller' = NoCaller
        /\ conn'[c].by = conn[c].by /\ conn'[c].host = conn[c].host
        /\ conn'[c].stage = IF Named(conn[c].host) THEN "served" ELSE "rejected"
        /\ UNCHANGED <<disk, proc>> /\ call.answer = cert
    <3>1. call.answer \in Nat
      BY <1>2 DEF Calls
    <3>2. PICK stage \in ConnStages :
              /\ stage = IF Named(conn[c].host) THEN "served" ELSE "rejected"
              /\ conn' = [conn EXCEPT ![c].stage = stage, ![c].shown = call.answer]
              /\ caller' = NoCaller /\ UNCHANGED <<disk, proc>> /\ Returned
      BY <1>5 DEF Handshake, ConnStages, certVars, bootVars
    <3>3. conn' \in [Conns -> Connection]
      BY <1>2, <3>1, <3>2 DEF Connection
    <3>4. /\ conn'[c].by = conn[c].by /\ conn'[c].host = conn[c].host
          /\ conn'[c].stage = IF Named(conn[c].host) THEN "served" ELSE "rejected"
      BY <1>2, <3>2 DEF Connection
    <3>5. call.answer = cert
      BY <3>2 DEF TLSInv, Onwards
    <3> QED
      BY <3>2, <3>3, <3>4, <3>5
  <2>2. ~Named(conn[c].host) => DroppedSince(conn[c].by, conn[c].host)'
    BY <1>2, <1>3, <2>1 DEF Named, OnSince, DroppedSince, None
  <2>3. ConnOk(c)'
    BY <1>3, <2>1, <2>2 DEF ConnOk, DroppedSince
  <2> QED
    BY <1>1, <2>1, <2>3, ConnStep
<1> QED
    BY <1>4, <1>5

\* Every step keeps the invariant.
LEMMA TLSStepHolds == TLSInv /\ [TLSNext]_tlsVars => TLSInv'
<1> SUFFICES ASSUME TLSInv, [TLSNext]_tlsVars PROVE TLSInv'
    OBVIOUS
<1>1. CASE Renewal
    BY <1>1, CurrentStep DEF Renewal, Next
<1>2. CASE Current
    BY <1>2, CurrentStep DEF Current, Next
<1>3. CASE Loaded \/ AskForHost \/ HostChecked \/ Listen
    BY <1>3, BootStep
<1>4. CASE Killed
    BY <1>4, KillStep
<1>5. CASE \E c \in Conns : AskIntercepts(c) \/ Decide(c) \/ ClientHello(c) \/ Handshake(c)
    BY <1>5, DecisionStep, HandshakeStep
<1>6. CASE UNCHANGED tlsVars
  <2>1. [Next]_vars /\ UNCHANGED <<bootVars, caller, conn>>
    BY <1>6 DEF tlsVars, certVars, vars
  <2> QED
    BY <2>1, CurrentStep
<1> QED
    BY <1>1, <1>2, <1>3, <1>4, <1>5, <1>6 DEF TLSNext

-----------------------------------------------------------------------------

\* The invariant of the boot, the decisions and the handshakes over one certificate.
THEOREM TLSInvariance == TLSSpec => []TLSInv
BY TLSInitHolds, TLSStepHolds, PTL DEF TLSSpec

\* An interception that was decided is presented a certificate for its host, unless a
\* renewal in between really dropped the host.
THEOREM DecisionsHold == TLSSpec => []DecidedIsPresented
<1>1. TLSInv => DecidedIsPresented
    BY DEF TLSInv
<1> QED
    BY <1>1, TLSInvariance, PTL

\* No credentialed host is tunnelled, unless a renewal after the boot dropped it.
THEOREM CredentialsAreIntercepted == TLSSpec => []CredentialedIsIntercepted
<1>1. TLSInv => CredentialedIsIntercepted
    BY DEF TLSInv
<1> QED
    BY <1>1, TLSInvariance, PTL

\* What CertReloadProofs shows of one caller after the other holds of the process, its
\* restarts included: never stuck on a superseded certificate, fresh when undisturbed,
\* and never an error once a certificate was loaded.
THEOREM ProcessServes == TLSSpec => [](NeverStuck /\ FreshAnswer /\ KeepsServing)
<1>1. TLSInv => NeverStuck /\ FreshAnswer /\ KeepsServing
    BY DEF TLSInv, IInv
<1> QED
    BY <1>1, TLSInvariance, PTL
=============================================================================
