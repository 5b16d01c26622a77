-------------------------- MODULE CertReloadProofs --------------------------
(***************************************************************************)
(* Proofs about CertReload, for any number of renewals, however broken.    *)
(***************************************************************************)
EXTENDS CertReload, TLAPS

\* A cold start has nothing to be stale.
LEMMA InitHolds == Init => IInv
BY DEF Init, IInv, TypeOK, Calls, Stages, Enter, None, Ordered, Steady, NeverStuck, Unmoved,
       FreshAnswer, KeepsServing

\* A call that returns c changes in its stage and its answer only.
LEMMA AnswerIs ==
    ASSUME TypeOK, NEW c \in Nat, Answer(c)
    PROVE  /\ call' \in Calls
           /\ call'.stage = "returned" /\ call'.answer = c /\ call'.still = call.still
BY DEF TypeOK, Calls, Stages, Answer

\* Every step of a call, and a swap at any point of it, keeps IInv.
LEMMA StepHolds == IInv /\ [Next]_vars => IInv'
<1> SUFFICES ASSUME IInv, [Next]_vars  PROVE IInv'
    OBVIOUS
<1> USE DEF IInv, TypeOK, None, Ordered, Steady, NeverStuck, Unmoved, FreshAnswer, KeepsServing
<1>1. CASE Swap
  <2>1. /\ call' \in Calls /\ ~call'.still
        /\ call'.stage = call.stage /\ call'.seen = call.seen /\ call'.crt = call.crt
        /\ call'.answer = call.answer
    BY <1>1 DEF Swap, Calls
  <2>2. disk' = disk + 1 /\ mod' = mod /\ cert' = cert
    BY <1>1 DEF Swap
  <2>3. call.seen \in Nat /\ call.crt \in Nat
    BY DEF Calls
  <2> QED
    BY <2>1, <2>2, <2>3
<1>2. CASE Stat
  <2>1. call.stage = "stat" /\ disk' = disk /\ mod' = mod /\ cert' = cert
    BY <1>2 DEF Stat, ServePrevious
  <2>2. CASE ServePrevious /\ (disk \in Broken \/ cert = disk)
    <3>1. /\ call' \in Calls
          /\ call'.stage = "returned" /\ call'.answer = cert /\ call'.still = call.still
      BY <2>2, AnswerIs DEF ServePrevious, AnswerPrevious
    <3> QED
      BY <2>1, <2>2, <3>1
  <2>3. CASE disk \notin Missing /\ call' = [call EXCEPT !.stage = "crt", !.seen = disk]
    <3>1. call' \in Calls /\ call'.stage = "crt" /\ call'.seen = disk /\ call'.still = call.still
      BY <2>3 DEF Calls, Stages
    <3> QED
      BY <2>1, <2>3, <3>1
  <2> QED
    BY <1>2, <2>2, <2>3, GenerationsAssumption DEF Stat
<1>3. CASE ReadCrt
  <2>1. /\ call.stage = "crt" /\ call' \in Calls /\ call'.stage = "key"
        /\ call'.crt = disk /\ call'.seen = call.seen /\ call'.still = call.still
    BY <1>3 DEF ReadCrt, Calls, Stages
  <2>2. disk' = disk /\ mod' = mod /\ cert' = cert
    BY <1>3 DEF ReadCrt
  <2> QED
    BY <2>1, <2>2
<1>4. CASE ReadKey
  <2>1. call.stage = "key" /\ disk' = disk /\ mod' = mod /\ cert' = cert
    BY <1>4 DEF ReadKey, ServePrevious
  <2>2. CASE ServePrevious /\ ~Loads
    <3>1. /\ call' \in Calls
          /\ call'.stage = "returned" /\ call'.answer = cert /\ call'.still = call.still
      BY <2>2, AnswerIs DEF ServePrevious, AnswerPrevious
    <3> QED
      BY <2>1, <2>2, <3>1 DEF Loads
  <2>3. CASE call' = [call EXCEPT !.stage = "install"]
    <3>1. /\ call' \in Calls /\ call'.stage = "install"
          /\ call'.crt = call.crt /\ call'.seen = call.seen /\ call'.still = call.still
      BY <2>3 DEF Calls, Stages
    <3> QED
      BY <2>1, <3>1
  <2> QED
    BY <1>4, <2>2, <2>3 DEF ReadKey
<1>5. CASE Install
  <2>1. call.stage = "install" /\ disk' = disk /\ cert' = call.crt /\ mod' = call.seen
    BY <1>5 DEF Install, ModTime
  <2>2. call.seen \in Nat /\ call.crt \in Nat
    BY DEF Calls
  <2>3. /\ call' \in Calls
        /\ call'.stage = "returned" /\ call'.answer = call.crt /\ call'.still = call.still
    BY <1>5, <2>2, AnswerIs DEF Install
  <2> QED
    BY <2>1, <2>2, <2>3
<1>6. CASE NextCall
  <2>1. call' \in Calls /\ call'.stage = "stat"
    BY <1>6 DEF NextCall, Enter, Calls, Stages
  <2> QED
    BY <1>6, <2>1 DEF NextCall
<1>7. CASE UNCHANGED vars
    BY <1>7 DEF vars
<1> QED
    BY <1>1, <1>2, <1>3, <1>4, <1>5, <1>6, <1>7 DEF Next

\* IInv is inductive.
THEOREM CertInvariance == Spec => []IInv
BY InitHolds, StepHolds, PTL DEF Spec

\* No interleaving of reloads and renewals leaves the proxy on a superseded
\* certificate that it takes for current.
THEOREM NeverStuckOnOld == Spec => []NeverStuck
<1>1. IInv => NeverStuck
    BY DEF IInv
<1> QED
    BY <1>1, CertInvariance, PTL

\* A renewal that loads is what the next undisturbed call answers with, and one
\* that does not never costs an answer.
THEOREM AnswersAreFresh == Spec => [](FreshAnswer /\ KeepsServing)
<1>1. IInv => FreshAnswer /\ KeepsServing
    BY DEF IInv
<1> QED
    BY <1>1, CertInvariance, PTL
=============================================================================
