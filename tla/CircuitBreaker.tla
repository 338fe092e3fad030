--------------------------- MODULE CircuitBreaker ---------------------------
(***************************************************************************)
(* AsyncCircuitBreaker.execute (laser-service/core/circuit_breaker.py) as  *)
(* its two users call it, from inside AsyncRetryHandler.execute            *)
(* (laser-service/core/retry_handler.py): the pager service and            *)
(* ProductionLaserDevice.send_command.                                     *)
(*                                                                         *)
(* The lock of the breaker is held only over code that does not suspend,   *)
(* so a check of the state and the recording of a result are single steps; *)
(* the protected operation runs between them, outside the lock.            *)
(*                                                                         *)
(* Time is counted in ticks: a timer fires before the clock passes it.     *)
(* last_failure_time is kept as the time since then, which matters only up *)
(* to RecoveryTimeout.                                                     *)
(***************************************************************************)
EXTENDS Naturals, FiniteSetsExt

CONSTANTS
  Callers,           (* coroutines that may be inside send at the same time  *)
  FailureThreshold,  (* failures that open the breaker: 3 for both users     *)
  SuccessThreshold,  (* successes that close it again: 3                     *)
  Timeout,           (* CircuitBreakerConfig.timeout: 5 s, pager 10 s        *)
  RecoveryTimeout,   (* how long it stays open: 30 s, pager 60 s             *)
  MaxAttempts,       (* RetryConfig.max_attempts: 3                          *)
  BaseDelay,         (* RetryConfig.base_delay: 1 s                          *)
  MaxDelay           (* RetryConfig.max_delay: 300 s                         *)

(* EXPONENTIAL_BACKOFF with multiplier 2: the delay after attempt n.        *)
Pause(n) == Min({BaseDelay * 2^(n - 1), MaxDelay})

ASSUME BreakerAssumption ==
  /\ FailureThreshold \in Nat \ {0}
  /\ SuccessThreshold \in Nat \ {0}
  /\ Timeout \in Nat \ {0}
  /\ RecoveryTimeout \in Nat
  /\ MaxAttempts \in Nat \ {0}

(* Both users of the breaker give an operation less time than a recovery.   *)
ASSUME TimeoutAssumption == Timeout < RecoveryTimeout

ASSUME PauseAssumption == \A n \in 1 .. MaxAttempts : Pause(n) \in Nat

VARIABLES
  breaker,   (* the breaker shared by all callers                            *)
  caller     (* caller[c]: where c is in its retry loop                      *)

breakerVars == <<breaker, caller>>

(* quiet is the time since last_failure_time; forced is a history variable: *)
(* the breaker was opened by force_open() and not by a failure.             *)
Breaker ==
  [state: {"CLOSED", "OPEN", "HALF_OPEN"},
   failures: 0 .. FailureThreshold, successes: 0 .. SuccessThreshold,
   quiet: 0 .. RecoveryTimeout, forced: BOOLEAN]

(* age: how long the operation has run, or how long the pause before the    *)
(* next attempt still is.  spent: the time since the first attempt began.   *)
Caller ==
  [st: {"idle", "running", "pausing"}, attempt: 0 .. MaxAttempts,
   age: Nat, spent: Nat]

NotCalling == [st |-> "idle", attempt |-> 0, age |-> 0, spent |-> 0]

BreakerInit ==
  /\ breaker = [state |-> "CLOSED", failures |-> 0, successes |-> 0,
                quiet |-> RecoveryTimeout, forced |-> FALSE]
  /\ caller = [c \in Callers |-> NotCalling]

-----------------------------------------------------------------------------
(* What the handlers do to the breaker.                                     *)

(* Mutants: successes are counted in every state; a failure restarts the    *)
(* recovery time only while the breaker is closed.                          *)
AfterSuccessAnyState(b) ==
  IF b.state # "HALF_OPEN" THEN [b EXCEPT !.successes = b.successes + 1]
  ELSE [b EXCEPT !.successes = b.successes + 1, !.state = "CLOSED", !.failures = 0]
AfterFailureOnlyClosed(b) ==
  LET late == [b EXCEPT !.quiet = 0, !.forced = FALSE] IN
    CASE b.state = "CLOSED" ->
           [late EXCEPT !.failures = b.failures + 1,
                        !.state = IF b.failures + 1 >= FailureThreshold
                                  THEN "OPEN" ELSE "CLOSED"]
      [] b.state = "HALF_OPEN" ->
           [b EXCEPT !.state = "OPEN", !.failures = FailureThreshold]
      [] OTHER -> b

(* _update_state: an open breaker turns half-open after RecoveryTimeout.    *)
Updated(b) ==
  IF b.state = "OPEN" /\ b.quiet >= RecoveryTimeout
  THEN [b EXCEPT !.state = "HALF_OPEN", !.successes = 0]
  ELSE b

AfterSuccess(b) ==
  IF b.state # "HALF_OPEN" THEN b
  ELSE IF b.successes + 1 >= SuccessThreshold
       THEN [b EXCEPT !.state = "CLOSED", !.failures = 0, !.forced = FALSE,
                      !.successes = SuccessThreshold]
       ELSE [b EXCEPT !.successes = b.successes + 1]

AfterFailure(b) ==
  LET late == [b EXCEPT !.quiet = 0, !.forced = FALSE] IN
    CASE b.state = "CLOSED" ->
           [late EXCEPT !.failures = b.failures + 1,
                        !.state = IF b.failures + 1 >= FailureThreshold
                                  THEN "OPEN" ELSE "CLOSED"]
      [] b.state = "HALF_OPEN" ->
           [late EXCEPT !.state = "OPEN", !.failures = FailureThreshold]
      [] OTHER -> late

-----------------------------------------------------------------------------
(* One attempt of the retry loop.                                           *)

Running(c)  == caller[c].st = "running"
SetCaller(c, x) == caller' = [caller EXCEPT ![c] = x]
Returns(c)  == SetCaller(c, NotCalling)

Attempted(c, n) ==
  [st |-> "running", attempt |-> n, age |-> 0, spent |-> caller[c].spent]

(* The next attempt of c may begin: its first one, or after the pause.      *)
MayAttempt(c, n) ==
  \/ caller[c].st = "idle" /\ n = 1
  \/ caller[c].st = "pausing" /\ caller[c].age = 0 /\ n = caller[c].attempt + 1

Admitted(c, n) ==
  /\ MayAttempt(c, n)
  /\ Updated(breaker).state # "OPEN"
  /\ breaker' = Updated(breaker)
  /\ SetCaller(c, Attempted(c, n))

(* CircuitBreakerOpenException is not retried.                              *)
Rejected(c, n) ==
  /\ MayAttempt(c, n)
  /\ Updated(breaker).state = "OPEN"
  /\ Returns(c)
  /\ UNCHANGED breaker

Succeeds(c) ==
  /\ Running(c)
  /\ breaker' = AfterSuccess(breaker)
  /\ Returns(c)

(* The operation raises something the retry handler does not retry.         *)
Fails(c) ==
  /\ Running(c)
  /\ breaker' = AfterFailure(breaker)
  /\ Returns(c)

(* Mutant: the last attempt is retried, too.                                *)
FailsRetryablyAlways(c) ==
  /\ Running(c)
  /\ breaker' = AfterFailure(breaker)
  /\ SetCaller(c, [caller[c] EXCEPT !.st = "pausing", !.age = Pause(caller[c].attempt)])

(* The operation raises something retryable.                                *)
FailsRetryably(c) ==
  /\ Running(c)
  /\ breaker' = AfterFailure(breaker)
  /\ IF caller[c].attempt < MaxAttempts
     THEN SetCaller(c, [caller[c] EXCEPT !.st = "pausing", !.age = Pause(caller[c].attempt)])
     ELSE Returns(c)

(* asyncio.wait_for: CircuitBreakerTimeoutException, which is not retried.  *)
TimesOut(c) ==
  /\ Running(c)
  /\ caller[c].age = Timeout
  /\ breaker' = AfterFailure(breaker)
  /\ Returns(c)

(* The caller is cancelled, or the operation raises an exception outside    *)
(* expected_exception: nothing is recorded.                                 *)
Unrecorded(c) ==
  /\ Running(c)
  /\ Returns(c)
  /\ UNCHANGED breaker

Reset ==
  /\ breaker' = [breaker EXCEPT !.state = "CLOSED", !.failures = 0,
                                !.successes = 0, !.forced = FALSE]
  /\ UNCHANGED caller

(* last_failure_time stays what it was.                                     *)
ForceOpen ==
  /\ breaker' = [breaker EXCEPT !.state = "OPEN", !.forced = TRUE]
  /\ UNCHANGED caller

(* A timer that is due runs before the clock goes on.                       *)
MayPass(c) ==
  CASE caller[c].st = "running" -> caller[c].age < Timeout
    [] caller[c].st = "pausing" -> caller[c].age > 0
    [] OTHER -> TRUE

Aged(x) ==
  CASE x.st = "running" -> [x EXCEPT !.age = x.age + 1, !.spent = x.spent + 1]
    [] x.st = "pausing" -> [x EXCEPT !.age = x.age - 1, !.spent = x.spent + 1]
    [] OTHER -> x

Tick ==
  /\ \A c \in Callers : MayPass(c)
  /\ caller' = [c \in Callers |-> Aged(caller[c])]
  /\ breaker' = [breaker EXCEPT !.quiet = IF breaker.quiet < RecoveryTimeout
                                          THEN breaker.quiet + 1 ELSE breaker.quiet]

BreakerNext ==
  \/ \E c \in Callers, n \in 1 .. MaxAttempts : Admitted(c, n) \/ Rejected(c, n)
  \/ \E c \in Callers : \/ Succeeds(c) \/ Fails(c) \/ FailsRetryably(c)
                        \/ TimesOut(c) \/ Unrecorded(c)
  \/ Reset \/ ForceOpen \/ Tick

BreakerSpec == BreakerInit /\ [][BreakerNext]_breakerVars

-----------------------------------------------------------------------------

(* Type invariant of the breaker and the retry loops: the counters never    *)
(* pass their thresholds and no operation outlives its timeout.             *)
BreakerTypeOK ==
  /\ breaker \in Breaker
  /\ caller \in [Callers -> Caller]
  /\ \A c \in Callers : Running(c) => caller[c].age <= Timeout

(* HALF_OPEN is there to test whether the service recovered, but success and *)
(* failure are recorded without looking at when the call began.  They count *)
(* only test calls all the same: at the moment the breaker turns half-open  *)
(* no call of before is still running, unless force_open() opened it, which *)
(* does not restart the recovery time.                                      *)
TestsOnlyNewCalls ==
  [][breaker.state = "OPEN" /\ breaker'.state = "HALF_OPEN" /\ ~breaker.forced
       => \A c \in Callers : ~Running(c)]_breakerVars

(* How long n attempts take at most: operations of Timeout each and the     *)
(* pauses between them.                                                     *)
Budget[n \in 1 .. MaxAttempts] ==
  IF n = 1 THEN Timeout ELSE Budget[n - 1] + Pause(n - 1) + Timeout

(* The retry loop answers in bounded time (18 s for a laser command, within *)
(* the 30 s that measure_distance_async and get_task_result wait).          *)
AnsweredInTime == \A c \in Callers : caller[c].spent <= Budget[MaxAttempts]

=============================================================================
