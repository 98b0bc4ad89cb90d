---------------------------- MODULE CircuitBreaker ----------------------------
(***************************************************************************)
(* exception_handler.py: threads that call a function through a            *)
(* CircuitBreaker (with_circuit_breaker), each inside retry_with_backoff.  *)
(*                                                                         *)
(* call holds the breaker's lock from its decision until the function has  *)
(* returned and was accounted for; waiting for the lock is a state of its  *)
(* own, and time passes in it.  A refusal is an ordinary exception to the  *)
(* retry loop: it uses up an attempt, but the breaker does not count it.   *)
(* The function may raise the expected_exception or another one.           *)
(*                                                                         *)
(* How long a retry sleeps is left out: it wakes at any later time.        *)
(***************************************************************************)
EXTENDS Naturals

CONSTANTS
  Callers,           \* threads that share the breaker
  FailureThreshold,
  RecoveryTimeout,   \* in ticks of the clock
  MaxRetries,        \* of the RetryConfig
  MaxRaised          \* bound: how often the function raises, in all

ASSUME BreakerAssumption ==
  /\ FailureThreshold \in Nat \ {0}
  /\ RecoveryTimeout \in Nat
  /\ MaxRetries \in Nat
  /\ MaxRaised \in Nat

VARIABLES
  state,         \* "CLOSED", "OPEN", "HALF_OPEN"
  failureCount,
  sinceFailure,  \* ticks since last_failure_time, RecoveryTimeout if more
  pc,            \* where each caller is
  attempt,       \* its attempt, counted from 0
  raised         \* exceptions of the function so far

vars == <<state, failureCount, sinceFailure, pc, attempt, raised>>

breakerVars == <<state, failureCount, sinceFailure>>

Init ==
  /\ state = "CLOSED"
  /\ failureCount = 0
  /\ sinceFailure = RecoveryTimeout
  /\ pc = [c \in Callers |-> "idle"]
  /\ attempt = [c \in Callers |-> 0]
  /\ raised = 0

-----------------------------------------------------------------------------
(* retry_with_backoff *)

Start(c) ==
  /\ pc[c] = "idle"
  /\ pc' = [pc EXCEPT ![c] = "acquire"]
  /\ attempt' = [attempt EXCEPT ![c] = 0]
  /\ UNCHANGED <<breakerVars, raised>>

\* One attempt too many.
OneMoreRetry(n) == n <= MaxRetries

Retries(n) == n < MaxRetries

\* The attempt raised: sleep before the next one, or log the error and raise.
Failed(c) ==
  pc' = [pc EXCEPT ![c] = IF Retries(attempt[c]) THEN "asleep" ELSE "idle"]

Wake(c) ==
  /\ pc[c] = "asleep"
  /\ pc' = [pc EXCEPT ![c] = "acquire"]
  /\ attempt' = [attempt EXCEPT ![c] = attempt[c] + 1]
  /\ UNCHANGED <<breakerVars, raised>>

-----------------------------------------------------------------------------
(* CircuitBreaker.call *)

\* The lock is not held during the call.
AlwaysFree == TRUE

LockFree == \A c \in Callers : pc[c] # "calling"

ShouldAttemptReset == sinceFailure >= RecoveryTimeout

Enter(c) ==
  /\ pc[c] = "acquire"
  /\ LockFree
  /\ state = "OPEN" => ShouldAttemptReset
  /\ state' = IF state = "OPEN" THEN "HALF_OPEN" ELSE state
  /\ pc' = [pc EXCEPT ![c] = "calling"]
  /\ UNCHANGED <<failureCount, sinceFailure, attempt, raised>>

\* A breaker for which a refusal is a failure too.
RefusalCounts ==
  /\ sinceFailure' = 0
  /\ UNCHANGED <<state, failureCount>>

RefusalIgnored == UNCHANGED breakerVars

Refuse(c) ==
  /\ pc[c] = "acquire"
  /\ LockFree
  /\ state = "OPEN"
  /\ ~ShouldAttemptReset
  /\ RefusalIgnored
  /\ Failed(c)
  /\ UNCHANGED <<attempt, raised>>

Succeed(c) ==
  /\ pc[c] = "calling"
  /\ failureCount' = 0
  /\ state' = "CLOSED"
  /\ pc' = [pc EXCEPT ![c] = "idle"]
  /\ UNCHANGED <<sinceFailure, attempt, raised>>

\* Only the failure that reaches the threshold trips.
TripsOnce(count) == count = FailureThreshold

\* One failure more than the threshold.
TripsLate(count) == count > FailureThreshold

Trips(count) == count >= FailureThreshold

\* _on_failure
Fail(c) ==
  /\ pc[c] = "calling"
  /\ raised < MaxRaised
  /\ raised' = raised + 1
  /\ failureCount' = failureCount + 1
  /\ sinceFailure' = 0
  /\ state' = IF Trips(failureCount + 1) THEN "OPEN" ELSE state
  /\ Failed(c)
  /\ UNCHANGED attempt

\* Not the expected_exception: the breaker does not see it.
FailUnexpectedly(c) ==
  /\ pc[c] = "calling"
  /\ raised < MaxRaised
  /\ raised' = raised + 1
  /\ Failed(c)
  /\ UNCHANGED <<breakerVars, attempt>>

-----------------------------------------------------------------------------

Tick ==
  /\ sinceFailure < RecoveryTimeout
  /\ sinceFailure' = sinceFailure + 1
  /\ UNCHANGED <<state, failureCount, pc, attempt, raised>>

Call(c) == Enter(c) \/ Refuse(c)

Return(c) == Succeed(c) \/ Fail(c) \/ FailUnexpectedly(c)

Next ==
  \/ \E c \in Callers : Start(c) \/ Wake(c) \/ Call(c) \/ Return(c)
  \/ Tick

Spec == Init /\ [][Next]_vars

(***************************************************************************)
(* Fairness: time passes, the function returns, a sleep ends, and a thread *)
(* that waits for the lock gets it if it is free again and again.  That    *)
(* the breaker is called at all is an assumption about its user.           *)
(***************************************************************************)
Fairness ==
  /\ WF_vars(Tick)
  /\ \A c \in Callers :
       /\ WF_vars(Start(c)) /\ WF_vars(Wake(c)) /\ WF_vars(Return(c))
       /\ SF_vars(Call(c))

FairSpec == Spec /\ Fairness

-----------------------------------------------------------------------------
(* Properties. *)

\* Every variable has its type, and no caller makes more than 1 + MaxRetries
\* attempts.
TypeOK ==
  /\ state \in {"CLOSED", "OPEN", "HALF_OPEN"}
  /\ failureCount \in Nat
  /\ sinceFailure \in 0..RecoveryTimeout
  /\ pc \in [Callers -> {"idle", "acquire", "calling", "asleep"}]
  /\ attempt \in [Callers -> 0..MaxRetries]
  /\ raised \in Nat
  /\ \A c \in Callers : pc[c] = "asleep" => attempt[c] < MaxRetries

\* The breaker is closed exactly when it has counted fewer failures in a row
\* than its threshold, through probes, retries and uncounted exceptions.
ClosedBelowThreshold == state = "CLOSED" <=> failureCount < FailureThreshold

\* The function runs for one caller at a time, so that a half-open breaker
\* tries it once and not once for each thread that waits.
OneProbe ==
  \A c, d \in Callers : pc[c] = "calling" /\ pc[d] = "calling" => c = d

\* Once tripped, and until a call succeeds, the function is called only when
\* RecoveryTimeout has passed since its last counted failure: a failed probe
\* protects it again.
ProbesSpaced ==
  [][\A c \in Callers :
       pc[c] # "calling" /\ pc'[c] = "calling"
         /\ failureCount >= FailureThreshold
       => sinceFailure >= RecoveryTimeout]_vars

\* When the function is well again, callers that go on asking get the
\* breaker closed: their refusals do not keep it open.
Recovers == state # "CLOSED" ~> state = "CLOSED"
==============================================================================
