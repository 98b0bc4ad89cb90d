------------------------ MODULE CircuitBreaker_proofs ------------------------
(***************************************************************************)
(* CircuitBreaker for any number of threads, any threshold, timeout and    *)
(* number of retries.                                                      *)
(***************************************************************************)
EXTENDS CircuitBreaker, TLAPS

\* Whatever an attempt's failure leads to, the caller has left the call.
LEMMA FailedMoves ==
  ASSUME TypeOK, NEW c \in Callers, Failed(c)
  PROVE  /\ pc' \in [Callers -> {"idle", "acquire", "calling", "asleep"}]
         /\ pc'[c] # "calling"
         /\ pc'[c] = "asleep" => attempt[c] < MaxRetries
         /\ \A d \in Callers : d # c => pc'[d] = pc[d]
BY BreakerAssumption DEF TypeOK, Failed, Retries

(***************************************************************************)
(* The type invariant, with the bound of the attempts that the loop        *)
(* "for attempt in range(max_retries + 1)" sets.                           *)
(***************************************************************************)
LEMMA TypeNext == TypeOK /\ [Next]_vars => TypeOK'
<1> SUFFICES ASSUME TypeOK, [Next]_vars PROVE TypeOK'
  OBVIOUS
<1> USE BreakerAssumption
<1>1. ASSUME NEW c \in Callers, Start(c) PROVE TypeOK'
  BY <1>1 DEF Start, TypeOK, breakerVars
<1>2. ASSUME NEW c \in Callers, Wake(c) PROVE TypeOK'
  <2>1. attempt[c] + 1 \in 0..MaxRetries
    BY <1>2 DEF Wake, TypeOK
  <2> QED
    BY <1>2, <2>1 DEF Wake, TypeOK, breakerVars
<1>3. ASSUME NEW c \in Callers, Enter(c) PROVE TypeOK'
  BY <1>3 DEF Enter, TypeOK
<1>4. ASSUME NEW c \in Callers, Refuse(c) PROVE TypeOK'
  BY <1>4, FailedMoves DEF Refuse, RefusalIgnored, TypeOK, breakerVars
<1>5. ASSUME NEW c \in Callers, Succeed(c) PROVE TypeOK'
  BY <1>5 DEF Succeed, TypeOK
<1>6. ASSUME NEW c \in Callers, Fail(c) PROVE TypeOK'
  BY <1>6, FailedMoves DEF Fail, TypeOK
<1>7. ASSUME NEW c \in Callers, FailUnexpectedly(c) PROVE TypeOK'
  BY <1>7, FailedMoves DEF FailUnexpectedly, TypeOK, breakerVars
<1>8. CASE Tick
  BY <1>8 DEF Tick, TypeOK
<1>9. CASE UNCHANGED vars
  BY <1>9 DEF vars, TypeOK
<1> QED
  BY <1>1, <1>2, <1>3, <1>4, <1>5, <1>6, <1>7, <1>8, <1>9
  DEF Next, Call, Return

\* exception_handler.py keeps its types, and its retries within max_retries.
THEOREM BreakerTypeCorrect == Spec => []TypeOK
<1>1. Init => TypeOK
  BY BreakerAssumption DEF Init, TypeOK
<1> QED
  BY <1>1, TypeNext, PTL DEF Spec

-----------------------------------------------------------------------------
(* The breaker itself. *)

(***************************************************************************)
(* ClosedBelowThreshold says nothing of the time, and ProbesSpaced nothing *)
(* of a breaker that is half-open already: it may be called at once only   *)
(* because its timeout has passed and no failure was counted since.        *)
(***************************************************************************)
BreakerInv ==
  /\ ClosedBelowThreshold
  /\ state = "HALF_OPEN" => ShouldAttemptReset
  /\ OneProbe

LEMMA BreakerNext ==
  ASSUME TypeOK, BreakerInv, [Next]_vars
  PROVE  BreakerInv'
<1> USE BreakerAssumption
<1>1. ASSUME NEW c \in Callers, Start(c) PROVE BreakerInv'
  <2>1. pc'[c] = "acquire" /\ \A d \in Callers : d # c => pc'[d] = pc[d]
    BY <1>1 DEF Start, TypeOK
  <2> QED
    BY <1>1, <2>1
    DEF Start, BreakerInv, ClosedBelowThreshold, ShouldAttemptReset, OneProbe,
        breakerVars
<1>2. ASSUME NEW c \in Callers, Wake(c) PROVE BreakerInv'
  <2>1. pc'[c] = "acquire" /\ \A d \in Callers : d # c => pc'[d] = pc[d]
    BY <1>2 DEF Wake, TypeOK
  <2> QED
    BY <1>2, <2>1
    DEF Wake, BreakerInv, ClosedBelowThreshold, ShouldAttemptReset, OneProbe,
        breakerVars
<1>3. ASSUME NEW c \in Callers, Enter(c) PROVE BreakerInv'
  <2>1. pc'[c] = "calling"
        /\ \A d \in Callers : d # c => pc'[d] = pc[d] /\ pc[d] # "calling"
    BY <1>3 DEF Enter, LockFree, TypeOK
  <2>2. OneProbe'
    BY <2>1 DEF OneProbe
  <2>3. ClosedBelowThreshold'
    BY <1>3 DEF Enter, BreakerInv, ClosedBelowThreshold
  <2>4. state' = "HALF_OPEN" => ShouldAttemptReset'
    BY <1>3 DEF Enter, BreakerInv, ShouldAttemptReset
  <2> QED
    BY <2>2, <2>3, <2>4 DEF BreakerInv
<1>4. ASSUME NEW c \in Callers, Refuse(c) PROVE BreakerInv'
  <2>1. pc'[c] # "calling" /\ \A d \in Callers : d # c => pc'[d] = pc[d]
    BY <1>4, FailedMoves DEF Refuse
  <2> QED
    BY <1>4, <2>1
    DEF Refuse, RefusalIgnored, BreakerInv, ClosedBelowThreshold,
        ShouldAttemptReset, OneProbe, breakerVars
<1>5. ASSUME NEW c \in Callers, Succeed(c) PROVE BreakerInv'
  <2>1. pc'[c] = "idle" /\ \A d \in Callers : d # c => pc'[d] = pc[d]
    BY <1>5 DEF Succeed, TypeOK
  <2>2. OneProbe'
    BY <2>1 DEF OneProbe, BreakerInv
  <2> QED
    BY <1>5, <2>2 DEF Succeed, BreakerInv, ClosedBelowThreshold
<1>6. ASSUME NEW c \in Callers, Fail(c) PROVE BreakerInv'
  <2>1. pc'[c] # "calling" /\ \A d \in Callers : d # c => pc'[d] = pc[d]
    BY <1>6, FailedMoves DEF Fail
  <2>2. OneProbe'
    BY <2>1 DEF OneProbe, BreakerInv
  <2>3. ClosedBelowThreshold'
    BY <1>6 DEF Fail, Trips, BreakerInv, ClosedBelowThreshold, TypeOK
  <2>4. state' # "HALF_OPEN"
    BY <1>6 DEF Fail, Trips, BreakerInv, ClosedBelowThreshold, TypeOK
  <2> QED
    BY <2>2, <2>3, <2>4 DEF BreakerInv
<1>7. ASSUME NEW c \in Callers, FailUnexpectedly(c) PROVE BreakerInv'
  <2>1. pc'[c] # "calling" /\ \A d \in Callers : d # c => pc'[d] = pc[d]
    BY <1>7, FailedMoves DEF FailUnexpectedly
  <2> QED
    BY <1>7, <2>1
    DEF FailUnexpectedly, BreakerInv, ClosedBelowThreshold,
        ShouldAttemptReset, OneProbe, breakerVars
<1>8. CASE Tick
  BY <1>8
  DEF Tick, TypeOK, BreakerInv, ClosedBelowThreshold, ShouldAttemptReset,
      OneProbe
<1>9. CASE UNCHANGED vars
  BY <1>9
  DEF vars, BreakerInv, ClosedBelowThreshold, ShouldAttemptReset, OneProbe
<1> QED
  BY <1>1, <1>2, <1>3, <1>4, <1>5, <1>6, <1>7, <1>8, <1>9
  DEF Next, Call, Return

THEOREM BreakerInvariant == Spec => [](TypeOK /\ BreakerInv)
<1>1. Init => TypeOK /\ BreakerInv
  BY BreakerAssumption
  DEF Init, TypeOK, BreakerInv, ClosedBelowThreshold, OneProbe
<1>2. TypeOK /\ BreakerInv /\ [Next]_vars => (TypeOK /\ BreakerInv)'
  BY TypeNext, BreakerNext
<1> QED
  BY <1>1, <1>2, PTL DEF Spec

\* The state of the breaker is what its count of failures says.
THEOREM ClosedMeansBelow == Spec => []ClosedBelowThreshold
<1>1. TypeOK /\ BreakerInv => ClosedBelowThreshold
  BY DEF BreakerInv
<1> QED
  BY <1>1, BreakerInvariant, PTL

\* One caller at a time is inside the function.
THEOREM OneProbeAtATime == Spec => []OneProbe
<1>1. TypeOK /\ BreakerInv => OneProbe
  BY DEF BreakerInv
<1> QED
  BY <1>1, BreakerInvariant, PTL

(***************************************************************************)
(* A call of a tripped breaker comes RecoveryTimeout after the last        *)
(* counted failure: it was open and the timeout was checked, or half-open. *)
(***************************************************************************)
THEOREM ProbesAreSpaced == Spec => ProbesSpaced
<1> DEFINE Spaced ==
      \A c \in Callers :
        pc[c] # "calling" /\ pc'[c] = "calling"
          /\ failureCount >= FailureThreshold
        => sinceFailure >= RecoveryTimeout
<1>1. ASSUME TypeOK, BreakerInv, [Next]_vars PROVE Spaced
  <2> SUFFICES ASSUME NEW c \in Callers,
                      pc[c] # "calling", pc'[c] = "calling",
                      failureCount >= FailureThreshold
               PROVE  sinceFailure >= RecoveryTimeout
    OBVIOUS
  <2>1. \E d \in Callers : Enter(d)
    <3>1. ASSUME NEW d \in Callers, Start(d) \/ Wake(d) \/ Succeed(d)
          PROVE  FALSE
      BY <1>1, <3>1 DEF Start, Wake, Succeed, TypeOK
    <3>2. ASSUME NEW d \in Callers,
                 Refuse(d) \/ Fail(d) \/ FailUnexpectedly(d)
          PROVE  FALSE
      BY <1>1, <3>2, FailedMoves DEF Refuse, Fail, FailUnexpectedly
    <3>3. ~Tick /\ ~UNCHANGED vars
      BY DEF Tick, vars
    <3> QED
      BY <1>1, <3>1, <3>2, <3>3 DEF Next, Call, Return
  <2>2. state # "CLOSED"
    BY <1>1, BreakerAssumption
    DEF BreakerInv, ClosedBelowThreshold, TypeOK
  <2> QED
    BY <1>1, <2>1, <2>2 DEF Enter, BreakerInv, ShouldAttemptReset, TypeOK
<1>2. TypeOK /\ BreakerInv /\ [Next]_vars => [Spaced]_vars
  BY <1>1
<1> QED
  BY <1>2, BreakerInvariant, PTL DEF Spec, ProbesSpaced
==============================================================================
