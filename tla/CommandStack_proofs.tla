------------------------- MODULE CommandStack_proofs -------------------------
(***************************************************************************)
(* Theorems about CircuitBreaker and CommandStack.  Of the breaker: its    *)
(* type invariant, that a half-open breaker counts no result of a call     *)
(* that began before, and that the retry loop answers in bounded time.     *)
(* The command stack implements the breaker's specification, so it         *)
(* inherits these, and with them its own type, the discipline of the       *)
(* connection lock and the closing of the pool.                            *)
(***************************************************************************)
EXTENDS CommandStack, SequenceTheorems, WellFoundedInduction, TLAPS

-----------------------------------------------------------------------------
(* The circuit breaker.                                                     *)

(* The values the handlers store in the counters.                           *)
LEMMA CounterRanges ==
  /\ 0 \in 0 .. SuccessThreshold /\ SuccessThreshold \in 0 .. SuccessThreshold
  /\ 0 \in 0 .. FailureThreshold /\ FailureThreshold \in 0 .. FailureThreshold
  /\ 0 \in 0 .. RecoveryTimeout /\ RecoveryTimeout \in 0 .. RecoveryTimeout
  /\ \A n \in 0 .. SuccessThreshold : n + 1 < SuccessThreshold => n + 1 \in 0 .. SuccessThreshold
  /\ \A n \in 0 .. RecoveryTimeout : n < RecoveryTimeout => n + 1 \in 0 .. RecoveryTimeout
BY BreakerAssumption

(* What the handlers do to the record of the breaker keeps its type; in     *)
(* CLOSED the count of failures is always below its threshold.              *)
LEMMA UpdatedType ==
  ASSUME NEW b \in Breaker
  PROVE  Updated(b) \in Breaker
BY CounterRanges DEF Updated, Breaker

LEMMA AfterSuccessType ==
  ASSUME NEW b \in Breaker
  PROVE  AfterSuccess(b) \in Breaker
<1>1. CASE b.state # "HALF_OPEN"
  BY <1>1 DEF AfterSuccess
<1>2. CASE b.state = "HALF_OPEN" /\ b.successes + 1 >= SuccessThreshold
  BY <1>2, CounterRanges DEF AfterSuccess, Breaker
<1>3. CASE b.state = "HALF_OPEN" /\ ~(b.successes + 1 >= SuccessThreshold)
  <2>1. b.successes + 1 \in 0 .. SuccessThreshold
    BY <1>3, BreakerAssumption DEF Breaker
  <2> QED BY <1>3, <2>1 DEF AfterSuccess, Breaker
<1> QED BY <1>1, <1>2, <1>3

LEMMA AfterFailureType ==
  ASSUME NEW b \in Breaker, b.state = "CLOSED" => b.failures < FailureThreshold
  PROVE  AfterFailure(b) \in Breaker
<1>1. CASE b.state = "CLOSED"
  <2>1. b.failures + 1 \in 0 .. FailureThreshold
    BY <1>1, BreakerAssumption DEF Breaker
  <2> QED BY <1>1, <2>1, CounterRanges DEF AfterFailure, Breaker
<1>2. CASE b.state # "CLOSED"
  BY <1>2, CounterRanges DEF AfterFailure, Breaker
<1> QED BY <1>1, <1>2

-----------------------------------------------------------------------------
(* The inductive invariant.                                                 *)

(* A closed breaker would be open with one failure more.                    *)
ClosedBelowThreshold ==
  breaker.state = "CLOSED" => breaker.failures < FailureThreshold

AttemptsCounted ==
  \A c \in Callers : Running(c) => caller[c].attempt >= 1

(* No call begins while the breaker is open, and every failure restarts the *)
(* recovery time: a call that still runs has run for as long as the breaker *)
(* is quiet.                                                                *)
RunningSinceBefore ==
  breaker.state = "OPEN" /\ ~breaker.forced =>
    \A c \in Callers : Running(c) => breaker.quiet <= caller[c].age

BreakerInv ==
  /\ BreakerTypeOK
  /\ ClosedBelowThreshold
  /\ AttemptsCounted
  /\ RunningSinceBefore

(* The part of the invariant that speaks of the breaker's counters.         *)
LEMMA BreakerRecord ==
  ASSUME BreakerInv
  PROVE  /\ Updated(breaker) \in Breaker
         /\ AfterSuccess(breaker) \in Breaker
         /\ AfterFailure(breaker) \in Breaker
         /\ breaker' \in {breaker, Updated(breaker), AfterSuccess(breaker),
                          AfterFailure(breaker)} =>
              ClosedBelowThreshold'
<1>1. breaker \in Breaker /\ (breaker.state = "CLOSED" => breaker.failures < FailureThreshold)
  BY DEF BreakerInv, BreakerTypeOK, ClosedBelowThreshold
<1>2. 0 < FailureThreshold
  BY BreakerAssumption
<1>3. Updated(breaker).state = "CLOSED" => Updated(breaker).failures < FailureThreshold
  BY <1>1 DEF Updated, Breaker
<1>4. AfterSuccess(breaker).state = "CLOSED" => AfterSuccess(breaker).failures < FailureThreshold
  BY <1>1, <1>2 DEF AfterSuccess, Breaker
<1>5. AfterFailure(breaker).state = "CLOSED" => AfterFailure(breaker).failures < FailureThreshold
  <2>1. breaker.failures \in Nat /\ FailureThreshold \in Nat
    BY <1>1, BreakerAssumption DEF Breaker
  <2> QED BY <1>1, <2>1 DEF AfterFailure, Breaker
<1>6. breaker' \in {breaker, Updated(breaker), AfterSuccess(breaker), AfterFailure(breaker)}
        => ClosedBelowThreshold'
  BY <1>1, <1>3, <1>4, <1>5 DEF ClosedBelowThreshold
<1> QED BY <1>1, <1>6, UpdatedType, AfterSuccessType, AfterFailureType

(* A new record for one caller keeps what the invariant says of callers.    *)
LEMMA CallerRecord ==
  ASSUME BreakerInv, NEW c \in Callers, NEW x \in Caller, SetCaller(c, x),
         x.st = "running" => x.age <= Timeout /\ x.attempt >= 1
  PROVE  /\ caller' \in [Callers -> Caller]
         /\ \A d \in Callers : Running(d)' => caller'[d].age <= Timeout
         /\ AttemptsCounted'
         /\ \A d \in Callers \ {c} : caller'[d] = caller[d]
         /\ caller'[c] = x
<1>1. caller \in [Callers -> Caller] /\ caller' = [caller EXCEPT ![c] = x]
  BY DEF BreakerInv, BreakerTypeOK, SetCaller
<1>2. \A d \in Callers : Running(d) => caller[d].age <= Timeout /\ caller[d].attempt >= 1
  BY DEF BreakerInv, BreakerTypeOK, AttemptsCounted
<1> QED BY <1>1, <1>2 DEF Running, AttemptsCounted

LEMMA NotCallingType == NotCalling \in Caller /\ NotCalling.st # "running"
BY BreakerAssumption DEF NotCalling, Caller

LEMMA AttemptedType ==
  ASSUME BreakerInv, NEW c \in Callers, NEW n \in 1 .. MaxAttempts
  PROVE  /\ Attempted(c, n) \in Caller
         /\ Attempted(c, n).age <= Timeout /\ Attempted(c, n).attempt >= 1
<1>1. caller[c].spent \in Nat
  BY DEF BreakerInv, BreakerTypeOK, Caller
<1>2. n \in 0 .. MaxAttempts /\ n >= 1 /\ 0 <= Timeout /\ 0 \in Nat
  BY BreakerAssumption
<1> QED BY <1>1, <1>2 DEF Attempted, Caller

LEMMA PausingType ==
  ASSUME BreakerInv, NEW c \in Callers, Running(c)
  PROVE  /\ [caller[c] EXCEPT !.st = "pausing", !.age = Pause(caller[c].attempt)] \in Caller
         /\ [caller[c] EXCEPT !.st = "pausing", !.age = Pause(caller[c].attempt)].st # "running"
<1>1. caller[c] \in Caller /\ caller[c].attempt >= 1
  BY DEF BreakerInv, BreakerTypeOK, AttemptsCounted
<1>2. caller[c].attempt \in 1 .. MaxAttempts
  BY <1>1, BreakerAssumption DEF Caller
<1>3. Pause(caller[c].attempt) \in Nat
  BY <1>2, PauseAssumption
<1> QED BY <1>1, <1>3 DEF Caller

(* A call that ends or begins does not make an open breaker quieter.        *)
LEMMA ResultRecorded ==
  ASSUME BreakerInv, NEW c \in Callers, NEW x \in Caller, SetCaller(c, x),
         x.st # "running",
         breaker' \in {breaker, AfterSuccess(breaker), AfterFailure(breaker)}
  PROVE  BreakerInv'
<1>1. BreakerTypeOK' /\ ClosedBelowThreshold' /\ AttemptsCounted'
  BY BreakerRecord, CallerRecord DEF BreakerInv, BreakerTypeOK
<1>2. \A d \in Callers : Running(d)' => Running(d) /\ caller'[d] = caller[d]
  BY CallerRecord DEF Running
<1>3. caller' \in [Callers -> Caller]
  BY CallerRecord
<1>4. ASSUME breaker'.state = "OPEN", ~breaker'.forced
      PROVE  \/ breaker'.quiet = 0
             \/ breaker' = breaker
  BY <1>4, BreakerRecord DEF AfterSuccess, AfterFailure, BreakerInv, BreakerTypeOK, Breaker
<1>5. RunningSinceBefore'
  <2> SUFFICES ASSUME breaker'.state = "OPEN", ~breaker'.forced,
                      NEW d \in Callers, Running(d)'
               PROVE  breaker'.quiet <= caller'[d].age
    BY DEF RunningSinceBefore
  <2>1. CASE breaker'.quiet = 0
    <3>1. caller'[d].age \in Nat
      BY <1>3 DEF Caller
    <3> QED BY <2>1, <3>1
  <2>2. CASE breaker' = breaker
    BY <2>2, <1>2 DEF BreakerInv, RunningSinceBefore
  <2> QED BY <1>4, <2>1, <2>2
<1> QED BY <1>1, <1>5 DEF BreakerInv

LEMMA BreakerStep == BreakerInv /\ [BreakerNext]_breakerVars => BreakerInv'
<1> SUFFICES ASSUME BreakerInv, [BreakerNext]_breakerVars
             PROVE  BreakerInv'
  OBVIOUS
<1>1. ASSUME NEW c \in Callers, NEW n \in 1 .. MaxAttempts, Admitted(c, n)
      PROVE  BreakerInv'
  <2>1. breaker' = Updated(breaker) /\ breaker'.state # "OPEN"
        /\ SetCaller(c, Attempted(c, n))
    BY <1>1 DEF Admitted
  <2>2. RunningSinceBefore'
    BY <2>1 DEF RunningSinceBefore
  <2> QED BY <2>1, <2>2, AttemptedType, CallerRecord, BreakerRecord DEF BreakerInv, BreakerTypeOK
<1>2. ASSUME NEW c \in Callers, NEW n \in 1 .. MaxAttempts, Rejected(c, n)
      PROVE  BreakerInv'
  BY <1>2, NotCallingType, ResultRecorded DEF Rejected, Returns
<1>3. ASSUME NEW c \in Callers,
             Succeeds(c) \/ Fails(c) \/ FailsRetryably(c) \/ TimesOut(c) \/ Unrecorded(c)
      PROVE  BreakerInv'
  <2>1. Running(c) /\ breaker' \in {breaker, AfterSuccess(breaker), AfterFailure(breaker)}
    BY <1>3 DEF Succeeds, Fails, FailsRetryably, TimesOut, Unrecorded
  <2>2. \/ SetCaller(c, NotCalling)
        \/ SetCaller(c, [caller[c] EXCEPT !.st = "pausing", !.age = Pause(caller[c].attempt)])
    BY <1>3 DEF Succeeds, Fails, FailsRetryably, TimesOut, Unrecorded, Returns
  <2>3. CASE SetCaller(c, NotCalling)
    BY <2>1, <2>3, NotCallingType, ResultRecorded
  <2>4. CASE SetCaller(c, [caller[c] EXCEPT !.st = "pausing", !.age = Pause(caller[c].attempt)])
    <3> DEFINE x == [caller[c] EXCEPT !.st = "pausing", !.age = Pause(caller[c].attempt)]
    <3>1. x \in Caller /\ x.st # "running" /\ SetCaller(c, x)
      BY <2>1, <2>4, PausingType
    <3> HIDE DEF x
    <3> QED BY <2>1, <3>1, ResultRecorded
  <2> QED BY <2>2, <2>3, <2>4
<1>4. ASSUME Reset \/ ForceOpen
      PROVE  BreakerInv'
  <2>1. caller' = caller
    BY <1>4 DEF Reset, ForceOpen
  <2>2. breaker' \in Breaker
    BY <1>4, CounterRanges DEF Reset, ForceOpen, Breaker, BreakerInv, BreakerTypeOK
  <2>3. \/ breaker'.state = "CLOSED" /\ breaker'.failures = 0
        \/ breaker'.state = "OPEN" /\ breaker'.forced
    BY <1>4 DEF Reset, ForceOpen, Breaker, BreakerInv, BreakerTypeOK
  <2>4. ClosedBelowThreshold' /\ RunningSinceBefore'
    BY <2>3, BreakerAssumption DEF ClosedBelowThreshold, RunningSinceBefore
  <2> QED BY <2>1, <2>2, <2>4 DEF BreakerInv, BreakerTypeOK, AttemptsCounted, Running
<1>5. ASSUME Tick
      PROVE  BreakerInv'
  <2>1. caller' = [c \in Callers |-> Aged(caller[c])] /\ \A c \in Callers : MayPass(c)
    BY <1>5 DEF Tick
  <2>2. ASSUME NEW c \in Callers
        PROVE  /\ caller'[c] \in Caller
               /\ caller'[c].st = caller[c].st
               /\ Running(c) => /\ caller'[c].age = caller[c].age + 1
                                /\ caller'[c].age <= Timeout
                                /\ caller'[c].attempt = caller[c].attempt
    <3>1. caller[c] \in Caller /\ caller[c].age \in Nat /\ caller[c].spent \in Nat
      BY DEF BreakerInv, BreakerTypeOK, Caller
    <3>2. CASE caller[c].st = "running"
      <4>1. caller[c].age < Timeout
        BY <2>1, <3>2 DEF MayPass
      <4>2. caller[c].age + 1 \in Nat /\ caller[c].spent + 1 \in Nat /\ caller[c].age + 1 <= Timeout
        BY <3>1, <4>1, BreakerAssumption
      <4>3. caller'[c] = [caller[c] EXCEPT !.age = caller[c].age + 1, !.spent = caller[c].spent + 1]
        BY <2>1, <3>2 DEF Aged
      <4> QED BY <3>1, <3>2, <4>2, <4>3 DEF Caller
    <3>3. CASE caller[c].st = "pausing"
      <4>1. caller[c].age > 0
        BY <2>1, <3>3 DEF MayPass
      <4>2. caller[c].age - 1 \in Nat /\ caller[c].spent + 1 \in Nat
        BY <3>1, <4>1
      <4>3. caller'[c] = [caller[c] EXCEPT !.age = caller[c].age - 1, !.spent = caller[c].spent + 1]
        BY <2>1, <3>3 DEF Aged
      <4> QED BY <3>1, <3>3, <4>2, <4>3 DEF Caller, Running
    <3>4. CASE caller[c].st = "idle"
      BY <2>1, <3>1, <3>4 DEF Aged, Running
    <3> QED BY <3>1, <3>2, <3>3, <3>4 DEF Caller
  <2>3. caller' \in [Callers -> Caller]
    BY <2>1, <2>2
  <2>4. breaker \in Breaker
    BY DEF BreakerInv, BreakerTypeOK
  <2> DEFINE q == IF breaker.quiet < RecoveryTimeout THEN breaker.quiet + 1 ELSE breaker.quiet
  <2>5. q \in 0 .. RecoveryTimeout /\ q <= breaker.quiet + 1 /\ breaker.quiet \in Nat
    BY <2>4, BreakerAssumption DEF Breaker
  <2>6. breaker' = [breaker EXCEPT !.quiet = q]
    BY <1>5 DEF Tick
  <2> HIDE DEF q
  <2>7. /\ breaker' \in Breaker /\ breaker'.quiet = q
        /\ breaker'.state = breaker.state /\ breaker'.failures = breaker.failures
        /\ breaker'.forced = breaker.forced
    BY <2>4, <2>5, <2>6 DEF Breaker
  <2>8. RunningSinceBefore'
    <3> SUFFICES ASSUME breaker'.state = "OPEN", ~breaker'.forced,
                        NEW c \in Callers, Running(c)'
                 PROVE  breaker'.quiet <= caller'[c].age
      BY DEF RunningSinceBefore
    <3>1. Running(c)
      BY <2>2 DEF Running
    <3>2. breaker.quiet <= caller[c].age
      BY <2>7, <3>1 DEF BreakerInv, RunningSinceBefore
    <3>3. caller[c].age \in Nat
      BY DEF BreakerInv, BreakerTypeOK, Caller
    <3>4. caller'[c].age = caller[c].age + 1 /\ q \in Nat
      BY <2>2, <2>5, <3>1, BreakerAssumption
    <3> QED BY <2>5, <2>7, <3>2, <3>3, <3>4
  <2> QED BY <2>2, <2>3, <2>7, <2>8
          DEF BreakerInv, BreakerTypeOK, ClosedBelowThreshold, AttemptsCounted, Running
<1>6. CASE UNCHANGED breakerVars
  BY <1>6 DEF breakerVars, BreakerInv, BreakerTypeOK, ClosedBelowThreshold, AttemptsCounted,
              RunningSinceBefore, Running
<1> QED BY <1>1, <1>2, <1>3, <1>4, <1>5, <1>6 DEF BreakerNext

LEMMA BreakerInvariant == BreakerSpec => []BreakerInv
<1>1. BreakerInit => BreakerInv
  <2> SUFFICES ASSUME BreakerInit
               PROVE  BreakerInv
    OBVIOUS
  <2>1. breaker \in Breaker
    BY CounterRanges DEF BreakerInit, Breaker
  <2>2. caller \in [Callers -> Caller] /\ \A c \in Callers : ~Running(c)
    BY NotCallingType DEF BreakerInit, Running
  <2>3. ClosedBelowThreshold /\ RunningSinceBefore
    BY BreakerAssumption DEF BreakerInit, ClosedBelowThreshold, RunningSinceBefore
  <2> QED BY <2>1, <2>2, <2>3 DEF BreakerInv, BreakerTypeOK, AttemptsCounted
<1> QED BY <1>1, BreakerStep, PTL DEF BreakerSpec

-----------------------------------------------------------------------------

(* Type invariant: holds in every reachable state, for any number of        *)
(* callers and any thresholds.                                              *)
THEOREM BreakerTypeCorrect == BreakerSpec => []BreakerTypeOK
<1>1. BreakerInv => BreakerTypeOK
  BY DEF BreakerInv
<1> QED BY <1>1, BreakerInvariant, PTL

(* The step in which an open breaker turns half-open finds no call running: *)
(* it would have run for RecoveryTimeout, longer than its Timeout.          *)
LEMMA TestsOnlyNewCallsStep ==
  BreakerInv /\ [BreakerNext]_breakerVars =>
    (breaker.state = "OPEN" /\ breaker'.state = "HALF_OPEN" /\ ~breaker.forced
       => \A c \in Callers : ~Running(c))
<1> SUFFICES ASSUME BreakerInv, [BreakerNext]_breakerVars,
                    breaker.state = "OPEN", breaker'.state = "HALF_OPEN", ~breaker.forced,
                    NEW c \in Callers, Running(c)
             PROVE  FALSE
  OBVIOUS
<1>1. breaker \in Breaker /\ caller[c].age \in Nat /\ caller[c].age <= Timeout
      /\ breaker.quiet <= caller[c].age
  BY DEF BreakerInv, BreakerTypeOK, Caller, RunningSinceBefore
<1>2. breaker' = Updated(breaker)
  BY <1>1 DEF BreakerNext, breakerVars, Admitted, Rejected, Succeeds, Fails, FailsRetryably,
     TimesOut, Unrecorded, Reset, ForceOpen, Tick, AfterSuccess, AfterFailure, Breaker
<1>3. breaker.quiet >= RecoveryTimeout
  BY <1>2 DEF Updated
<1> QED BY <1>1, <1>3, BreakerAssumption, TimeoutAssumption DEF Breaker

(* Only results of calls that began after the breaker turned half-open      *)
(* close or reopen it.                                                      *)
THEOREM NoEarlyTest == BreakerSpec => TestsOnlyNewCalls
<1> QED BY BreakerInvariant, TestsOnlyNewCallsStep, PTL DEF BreakerSpec, TestsOnlyNewCalls

-----------------------------------------------------------------------------
(* The time a call takes.                                                   *)

(* Every nonempty set of natural numbers has a least element.               *)
LEMMA LeastNatural ==
  ASSUME NEW S \in SUBSET Nat, S # {}
  PROVE  \E n \in S : \A m \in S : n <= m
<1>1. PICK n \in S : \A m \in S : ~(<<m, n>> \in OpToRel(<, Nat))
  BY WFMin, NatLessThanWellFounded
<1>2. ASSUME NEW m \in S, ~(n <= m)
      PROVE  FALSE
  <2>1. m < n /\ <<m, n>> \in Nat \X Nat
    BY <1>2
  <2>2. <<m, n>> \in OpToRel(<, Nat)
    BY <2>1 DEF OpToRel
  <2> QED BY <1>1, <2>2
<1> QED BY <1>2

(* A table of the budgets of the first k attempts.                          *)
IsTable(h, k) ==
  /\ h \in [1 .. k -> Nat]
  /\ \A n \in 1 .. k : h[n] = IF n = 1 THEN Timeout ELSE h[n - 1] + Pause(n - 1) + Timeout

LEMMA TableExists ==
  ASSUME NEW k \in 1 .. MaxAttempts
  PROVE  \E h : IsTable(h, k)
<1> DEFINE Missing == {m \in 1 .. MaxAttempts : ~\E h : IsTable(h, m)}
<1> SUFFICES ASSUME Missing # {}
             PROVE  FALSE
  OBVIOUS
<1>t. MaxAttempts \in Nat /\ Timeout \in Nat /\ Missing \in SUBSET Nat
  BY BreakerAssumption
<1>1. PICK m \in Missing : \A j \in Missing : m <= j
  BY <1>t, LeastNatural
<1>2. m \in 1 .. MaxAttempts /\ ~\E h : IsTable(h, m)
  OBVIOUS
<1>3. CASE m = 1
  <2>1. IsTable([n \in 1 .. 1 |-> Timeout], 1)
    BY <1>t DEF IsTable
  <2> QED BY <1>2, <1>3, <2>1
<1>4. CASE m # 1
  <2>1. m - 1 \in 1 .. MaxAttempts /\ ~(m <= m - 1)
    BY <1>t, <1>2, <1>4
  <2>2. PICK h : IsTable(h, m - 1)
    BY <1>1, <2>1
  <2>3. h \in [1 .. m - 1 -> Nat] /\ Pause(m - 1) \in Nat /\ h[m - 1] \in Nat
    BY <2>1, <2>2, PauseAssumption DEF IsTable
  <2> DEFINE g == [n \in 1 .. m |-> IF n = m THEN h[m - 1] + Pause(m - 1) + Timeout ELSE h[n]]
  <2>4. g \in [1 .. m -> Nat]
    BY <1>t, <1>2, <2>3
  <2>5. ASSUME NEW n \in 1 .. m
        PROVE  g[n] = IF n = 1 THEN Timeout ELSE g[n - 1] + Pause(n - 1) + Timeout
    <3>1. CASE n = m
      <4>1. g[n] = h[m - 1] + Pause(m - 1) + Timeout /\ g[n - 1] = h[m - 1]
        BY <1>2, <1>4, <2>1, <3>1
      <4> QED BY <1>4, <3>1, <4>1
    <3>2. CASE n # m
      <4>1. n \in 1 .. m - 1 /\ g[n] = h[n]
        BY <1>2, <3>2
      <4>2. n # 1 => n - 1 \in 1 .. m /\ n - 1 # m
        BY <1>2, <4>1
      <4>3. n # 1 => g[n - 1] = h[n - 1]
        BY <4>2
      <4> QED BY <2>2, <4>1, <4>3 DEF IsTable
    <3> QED BY <3>1, <3>2
  <2>6. IsTable(g, m)
    BY <2>4, <2>5 DEF IsTable
  <2> QED BY <1>2, <2>6
<1> QED BY <1>3, <1>4

(* So the recursive definition of the budget has a solution.                *)
LEMMA BudgetDefined == IsTable(Budget, MaxAttempts)
<1>t. MaxAttempts \in 1 .. MaxAttempts
  BY BreakerAssumption
<1>1. PICK h : IsTable(h, MaxAttempts)
  BY <1>t, TableExists
<1>2. h = [n \in 1 .. MaxAttempts |->
             IF n = 1 THEN Timeout ELSE h[n - 1] + Pause(n - 1) + Timeout]
  BY <1>1 DEF IsTable
<1>3. Budget = [n \in 1 .. MaxAttempts |->
                  IF n = 1 THEN Timeout ELSE Budget[n - 1] + Pause(n - 1) + Timeout]
  BY <1>2 DEF Budget
<1>4. ASSUME NEW k \in 1 .. MaxAttempts, Budget[k] # h[k]
      PROVE  FALSE
  <2> DEFINE Wrong == {m \in 1 .. MaxAttempts : Budget[m] # h[m]}
  <2>1. Wrong \in SUBSET Nat /\ Wrong # {}
    BY <1>4
  <2>2. PICK m \in Wrong : \A j \in Wrong : m <= j
    BY <2>1, LeastNatural
  <2>3. m \in 1 .. MaxAttempts /\ Budget[m] # h[m]
    OBVIOUS
  <2>4. Budget[m] = IF m = 1 THEN Timeout ELSE Budget[m - 1] + Pause(m - 1) + Timeout
    BY <1>3, <2>3
  <2>5. h[m] = IF m = 1 THEN Timeout ELSE h[m - 1] + Pause(m - 1) + Timeout
    BY <1>1, <2>3 DEF IsTable
  <2>6. m # 1 => m - 1 \in 1 .. MaxAttempts /\ ~(m <= m - 1)
    BY <2>3, BreakerAssumption
  <2>7. m # 1 => Budget[m - 1] = h[m - 1]
    BY <2>2, <2>6
  <2> QED BY <2>3, <2>4, <2>5, <2>7
<1>5. Budget \in [1 .. MaxAttempts -> Nat]
  <2>1. \A n \in 1 .. MaxAttempts : Budget[n] \in Nat
    BY <1>1, <1>4 DEF IsTable
  <2>2. DOMAIN Budget = 1 .. MaxAttempts /\ Budget = [n \in DOMAIN Budget |-> Budget[n]]
    BY <1>3
  <2> QED BY <2>1, <2>2
<1>6. \A n \in 1 .. MaxAttempts :
        Budget[n] = IF n = 1 THEN Timeout ELSE Budget[n - 1] + Pause(n - 1) + Timeout
  BY <1>3
<1> QED BY <1>5, <1>6 DEF IsTable

(* More attempts take no less time.                                         *)
LEMMA BudgetGrows ==
  ASSUME NEW n \in 1 .. MaxAttempts
  PROVE  Budget[n] \in Nat /\ Budget[n] <= Budget[MaxAttempts]
<1> DEFINE Short == {m \in n .. MaxAttempts : ~(Budget[n] <= Budget[m])}
<1>t. /\ MaxAttempts \in Nat /\ Timeout \in Nat /\ n \in Nat
      /\ \A m \in 1 .. MaxAttempts : Budget[m] \in Nat
  BY BreakerAssumption, BudgetDefined DEF IsTable
<1>1. ASSUME Short # {} PROVE FALSE
  <2>1. Short \in SUBSET Nat
    BY <1>t
  <2>2. PICK m \in Short : \A j \in Short : m <= j
    BY <1>1, <2>1, LeastNatural
  <2>3. m \in n .. MaxAttempts /\ m \in 1 .. MaxAttempts /\ ~(Budget[n] <= Budget[m]) /\ m # n
    BY <1>t
  <2>4. m # 1 /\ m - 1 \in n .. MaxAttempts /\ m - 1 \in 1 .. MaxAttempts /\ ~(m <= m - 1)
    BY <1>t, <2>3
  <2>5. Budget[n] <= Budget[m - 1]
    BY <2>2, <2>4
  <2>6. Budget[m] = Budget[m - 1] + Pause(m - 1) + Timeout
    BY <2>3, <2>4, BudgetDefined DEF IsTable
  <2>7. Pause(m - 1) \in Nat
    BY <2>4, PauseAssumption
  <2> QED BY <1>t, <2>3, <2>4, <2>5, <2>6, <2>7
<1>2. MaxAttempts \in n .. MaxAttempts
  BY <1>t
<1> QED BY <1>t, <1>1, <1>2

(* A running operation has come no further than its share of the budget,    *)
(* and so has a pause with what is left of it.                              *)
OnBudget ==
  \A c \in Callers :
    /\ caller[c].st = "idle" => caller[c].spent = 0
    /\ caller[c].st = "running" =>
         caller[c].spent + Timeout <= Budget[caller[c].attempt] + caller[c].age
    /\ caller[c].st = "pausing" =>
         /\ caller[c].attempt \in 1 .. MaxAttempts /\ caller[c].attempt < MaxAttempts
         /\ caller[c].spent + caller[c].age <= Budget[caller[c].attempt] + Pause(caller[c].attempt)

LEMMA BudgetStep == BreakerInv /\ OnBudget /\ [BreakerNext]_breakerVars => OnBudget'
<1> SUFFICES ASSUME BreakerInv, OnBudget, [BreakerNext]_breakerVars
             PROVE  OnBudget'
  OBVIOUS
<1> DEFINE Kept(x) ==
      /\ x.st = "idle" => x.spent = 0
      /\ x.st = "running" => x.spent + Timeout <= Budget[x.attempt] + x.age
      /\ x.st = "pausing" => /\ x.attempt \in 1 .. MaxAttempts /\ x.attempt < MaxAttempts
                             /\ x.spent + x.age <= Budget[x.attempt] + Pause(x.attempt)
<1>a. /\ caller \in [Callers -> Caller] /\ Timeout \in Nat /\ MaxAttempts \in Nat
      /\ \A c \in Callers : /\ Kept(caller[c])
                            /\ caller[c].age \in Nat /\ caller[c].spent \in Nat
                            /\ Running(c) => /\ caller[c].attempt \in 1 .. MaxAttempts
                                             /\ caller[c].age <= Timeout
  BY BreakerAssumption DEF OnBudget, BreakerInv, BreakerTypeOK, AttemptsCounted, Caller
<1>b. \A n \in 1 .. MaxAttempts : Budget[n] \in Nat /\ Pause(n) \in Nat
  BY BudgetGrows, PauseAssumption
<1>c. ASSUME NEW c \in Callers, NEW x, SetCaller(c, x), Kept(x)
      PROVE  OnBudget'
  BY <1>a, <1>c DEF SetCaller, OnBudget
<1>d. ASSUME NEW c \in Callers, Returns(c)
      PROVE  OnBudget'
  <2>1. Kept(NotCalling) /\ SetCaller(c, NotCalling)
    BY <1>d DEF NotCalling, Returns
  <2> HIDE DEF Kept
  <2> QED BY <1>c, <2>1
<1>1. ASSUME NEW c \in Callers, NEW n \in 1 .. MaxAttempts, Admitted(c, n)
      PROVE  OnBudget'
  <2>1. MayAttempt(c, n) /\ SetCaller(c, Attempted(c, n))
    BY <1>1 DEF Admitted
  <2>2. caller[c].spent + Timeout <= Budget[n]
    <3>1. CASE caller[c].st = "idle" /\ n = 1
      <4>1. Budget[1] = Timeout
        BY <3>1, BudgetDefined DEF IsTable
      <4> QED BY <1>a, <3>1, <4>1
    <3>2. CASE caller[c].st = "pausing" /\ caller[c].age = 0 /\ n = caller[c].attempt + 1
      <4> DEFINE m == caller[c].attempt
      <4>1. m \in 1 .. MaxAttempts /\ caller[c].spent <= Budget[m] + Pause(m)
        BY <1>a, <3>2
      <4>2. Budget[n] = Budget[m] + Pause(m) + Timeout
        BY <1>a, <3>2, <4>1, BudgetDefined DEF IsTable
      <4> QED BY <1>a, <1>b, <4>1, <4>2
    <3> QED BY <2>1, <3>1, <3>2 DEF MayAttempt
  <2>3. Kept(Attempted(c, n))
    BY <1>a, <1>b, <2>2 DEF Attempted
  <2> HIDE DEF Kept
  <2> QED BY <1>c, <2>1, <2>3
<1>2. ASSUME NEW c \in Callers, FailsRetryably(c)
      PROVE  OnBudget'
  <2>1. CASE Returns(c)
    BY <1>d, <2>1
  <2>2. CASE caller[c].attempt < MaxAttempts /\ Running(c)
             /\ SetCaller(c, [caller[c] EXCEPT !.st = "pausing", !.age = Pause(caller[c].attempt)])
    <3> DEFINE x == [caller[c] EXCEPT !.st = "pausing", !.age = Pause(caller[c].attempt)]
    <3>1. /\ x.st = "pausing" /\ x.attempt = caller[c].attempt /\ x.spent = caller[c].spent
          /\ x.age = Pause(caller[c].attempt)
      BY <1>a DEF Caller
    <3>2. caller[c].attempt \in 1 .. MaxAttempts /\ caller[c].spent <= Budget[caller[c].attempt]
      BY <1>a, <1>b, <2>2 DEF Running
    <3> HIDE DEF x
    <3>3. Kept(x)
      BY <1>a, <1>b, <2>2, <3>1, <3>2
    <3>4. SetCaller(c, x)
      BY <2>2 DEF x
    <3> HIDE DEF Kept
    <3> QED BY <1>c, <3>3, <3>4
  <2> QED BY <1>2, <2>1, <2>2 DEF FailsRetryably
<1>3. ASSUME Tick
      PROVE  OnBudget'
  <2> SUFFICES ASSUME NEW c \in Callers
               PROVE  Kept(Aged(caller[c]))
    BY <1>3 DEF Tick, OnBudget
  <2>1. caller[c] \in Caller /\ MayPass(c) /\ caller[c].st \in {"idle", "running", "pausing"}
    BY <1>3, <1>a DEF Tick, Caller
  <2>2. CASE caller[c].st = "running"
    <3>1. caller[c].attempt \in 1 .. MaxAttempts
      BY <1>a, <2>2 DEF Running
    <3>2. Aged(caller[c]) = [caller[c] EXCEPT !.age = caller[c].age + 1, !.spent = caller[c].spent + 1]
      BY <2>2 DEF Aged
    <3>3. /\ Aged(caller[c]).st = "running" /\ Aged(caller[c]).attempt = caller[c].attempt
          /\ Aged(caller[c]).age = caller[c].age + 1 /\ Aged(caller[c]).spent = caller[c].spent + 1
      BY <2>1, <2>2, <3>2 DEF Caller
    <3> QED BY <1>a, <1>b, <2>2, <3>1, <3>3
  <2>3. CASE caller[c].st = "pausing"
    <3>1. caller[c].age > 0
      BY <2>1, <2>3 DEF MayPass
    <3>2. Aged(caller[c]) = [caller[c] EXCEPT !.age = caller[c].age - 1, !.spent = caller[c].spent + 1]
      BY <2>3 DEF Aged
    <3>3. /\ Aged(caller[c]).st = "pausing" /\ Aged(caller[c]).attempt = caller[c].attempt
          /\ Aged(caller[c]).age = caller[c].age - 1 /\ Aged(caller[c]).spent = caller[c].spent + 1
      BY <2>1, <2>3, <3>2 DEF Caller
    <3> QED BY <1>a, <1>b, <2>3, <3>1, <3>3
  <2>4. CASE caller[c].st = "idle"
    BY <1>a, <2>4 DEF Aged
  <2> QED BY <2>1, <2>2, <2>3, <2>4
<1>4. ASSUME UNCHANGED caller
      PROVE  OnBudget'
  BY <1>4 DEF OnBudget
<1>5. CASE UNCHANGED breakerVars \/ Reset \/ ForceOpen
  BY <1>4, <1>5 DEF breakerVars, Reset, ForceOpen
<1> QED BY <1>1, <1>2, <1>3, <1>5, <1>d DEF BreakerNext, Rejected, Succeeds, Fails, TimesOut, Unrecorded

LEMMA BudgetInvariant == BreakerSpec => []OnBudget
<1>1. BreakerInit => OnBudget
  BY DEF BreakerInit, NotCalling, OnBudget
<1> QED BY <1>1, BudgetStep, BreakerInvariant, PTL DEF BreakerSpec

(* A caller has its answer within MaxAttempts operations of Timeout and the *)
(* pauses between them, whoever else uses the breaker and whatever its      *)
(* operations do.                                                           *)
THEOREM AnswersInTime == BreakerSpec => []AnsweredInTime
<1>1. BreakerInv /\ OnBudget => AnsweredInTime
  <2> SUFFICES ASSUME BreakerInv, OnBudget, NEW c \in Callers
               PROVE  caller[c].spent <= Budget[MaxAttempts]
    BY DEF AnsweredInTime
  <2>t. /\ caller[c].st \in {"idle", "running", "pausing"} /\ Timeout \in Nat /\ MaxAttempts \in Nat \ {0}
        /\ caller[c].age \in Nat /\ caller[c].spent \in Nat
        /\ Running(c) => caller[c].attempt \in 1 .. MaxAttempts /\ caller[c].age <= Timeout
    BY BreakerAssumption DEF BreakerInv, BreakerTypeOK, AttemptsCounted, Caller
  <2>b. \A n \in 1 .. MaxAttempts : Budget[n] \in Nat /\ Pause(n) \in Nat /\ Budget[n] <= Budget[MaxAttempts]
    BY BudgetGrows, PauseAssumption
  <2>1. CASE caller[c].st = "idle"
    BY <2>t, <2>b, <2>1 DEF OnBudget
  <2>2. CASE caller[c].st = "running"
    BY <2>t, <2>b, <2>2 DEF OnBudget, Running
  <2>3. CASE caller[c].st = "pausing"
    <3> DEFINE n == caller[c].attempt
    <3>1. n \in 1 .. MaxAttempts /\ n < MaxAttempts /\ caller[c].spent + caller[c].age <= Budget[n] + Pause(n)
      BY <2>3 DEF OnBudget
    <3>2. n + 1 \in 1 .. MaxAttempts /\ n + 1 # 1 /\ (n + 1) - 1 = n
      BY <2>t, <3>1
    <3>3. Budget[n + 1] = Budget[n] + Pause(n) + Timeout
      BY <3>2, BudgetDefined DEF IsTable
    <3> QED BY <2>t, <2>b, <3>1, <3>2, <3>3
  <2> QED BY <2>t, <2>1, <2>2, <2>3
<1> QED BY <1>1, BreakerInvariant, BudgetInvariant, PTL

-----------------------------------------------------------------------------
(* The refinement.                                                          *)

(* An attempt ends for the breaker by one of the outcomes it knows.         *)
AttemptEnds(c) ==
  Succeeds(c) \/ Fails(c) \/ FailsRetryably(c) \/ TimesOut(c) \/ Unrecorded(c)

LEMMA OpStepImplements ==
  ASSUME NEW c \in Callers, OpStep(c)
  PROVE  AttemptEnds(c) \/ UNCHANGED breakerVars
BY DEF OpStep, Enters, FindsClosed, Reconnects, ConnectFails, SendsOnActive, SendsOnNew,
       Sends, Waits, Clashes, ReadsLine, StreamBreaks, OpCancelled, AttemptEnds, breakerVars

LEMMA StepImplements == [Next]_vars => [BreakerNext]_breakerVars
<1> SUFFICES ASSUME [Next]_vars
             PROVE  [BreakerNext]_breakerVars
  OBVIOUS
<1>1. ASSUME NEW c \in Callers, NEW n \in 1 .. MaxAttempts, Attempts(c, n)
      PROVE  BreakerNext
  BY <1>1 DEF Attempts, BreakerNext
<1>2. ASSUME NEW c \in Callers, OpStep(c)
      PROVE  [BreakerNext]_breakerVars
  BY <1>2, OpStepImplements DEF AttemptEnds, BreakerNext
<1>3. ASSUME NEW s \in Streams, DeviceAnswers(s)
      PROVE  UNCHANGED breakerVars
  BY <1>3 DEF DeviceAnswers, breakerVars
<1>4. ASSUME KeeperReconnects \/ KeeperDone \/ Close \/ CloseEnds
      PROVE  UNCHANGED breakerVars
  BY <1>4 DEF KeeperReconnects, KeeperDone, Close, CloseEnds, breakerVars
<1>5. ASSUME Reset \/ ForceOpen \/ Tick
      PROVE  BreakerNext
  BY <1>5 DEF BreakerNext
<1>6. ASSUME UNCHANGED vars
      PROVE  UNCHANGED breakerVars
  BY <1>6 DEF vars, breakerVars
<1> QED BY <1>1, <1>2, <1>3, <1>4, <1>5, <1>6 DEF Next

(* Every step of the command stack is a step of the breaker's specification *)
(* or leaves breaker and retry loops alone: the stack is built so, and this *)
(* lemma carries over to it what is proved of the breaker.                  *)
LEMMA StackImplementsBreaker == Spec => BreakerSpec
<1>1. Init => BreakerInit
  BY DEF Init
<1> QED BY <1>1, StepImplements, PTL DEF Spec, BreakerSpec

(* The guarantee of the breaker holds of the composition.                   *)
THEOREM NoEarlyTestInStack == Spec => TestsOnlyNewCalls
BY StackImplementsBreaker, NoEarlyTest, PTL

(* So does the bound on the time that a command takes.                      *)
THEOREM StackAnswersInTime == Spec => []AnsweredInTime
BY StackImplementsBreaker, AnswersInTime, PTL

-----------------------------------------------------------------------------
(* The inductive invariant.                                                 *)

(* A device answers only what it was asked.                                 *)
Answered == {x \in Stream : x.answered <= Len(x.asked)}

StackTyped ==
  /\ conn \in Conn
  /\ stream \in [Streams -> Answered]
  /\ op \in [Callers -> Op]
  /\ pool \in {"open", "closing", "closed"}

TaskWhileRunning == \A c \in Callers : Running(c) <=> ~At(c, "none")

(* close() cancels the maintenance loops before it waits for the lock.      *)
KeeperWhileOpen == conn.lock = Keeper => pool = "open"

StackInv ==
  /\ StackTyped
  /\ TaskWhileRunning
  /\ LockOnlyWhileOpening
  /\ KeeperWhileOpen
  /\ ClosedForGood

(* What SetCaller does to Running.                                          *)
LEMMA RunningAfter ==
  ASSUME caller \in [Callers -> Caller], NEW c \in Callers, NEW x, SetCaller(c, x)
  PROVE  /\ Running(c)' <=> x.st = "running"
         /\ \A d \in Callers \ {c} : Running(d)' <=> Running(d)
BY DEF SetCaller, Running

LEMMA EndedNotRunning ==
  ASSUME caller \in [Callers -> Caller], NEW c \in Callers, AttemptEnds(c)
  PROVE  /\ ~Running(c)'
         /\ \A d \in Callers \ {c} : Running(d)' <=> Running(d)
<1>1. \E x : SetCaller(c, x) /\ x.st # "running"
  <2>1. NotCalling.st # "running"
    BY DEF NotCalling
  <2>2. CASE Returns(c)
    BY <2>1, <2>2 DEF Returns
  <2>3. CASE SetCaller(c, [caller[c] EXCEPT !.st = "pausing", !.age = Pause(caller[c].attempt)])
    <3> DEFINE x == [caller[c] EXCEPT !.st = "pausing", !.age = Pause(caller[c].attempt)]
    <3>1. x.st = "pausing"
      BY DEF Caller
    <3> QED BY <2>3, <3>1
  <2> QED BY <2>2, <2>3 DEF AttemptEnds, Succeeds, Fails, FailsRetryably, TimesOut, Unrecorded
<1> QED BY <1>1, RunningAfter

-----------------------------------------------------------------------------
(* Streams.                                                                 *)

LEMMA EmptyStreamType == EmptyStream \in Answered
BY DEF EmptyStream, Answered, Stream

LEMMA GivenUpType ==
  ASSUME stream \in [Streams -> Answered], NEW s \in Streams, NEW c \in Callers,
         NEW raised \in BOOLEAN
  PROVE  /\ GivenUp(s, c, raised) \in Answered
         /\ GivenUp(s, c, raised) # EmptyStream =>
              /\ GivenUp(s, c, raised).answered = stream[s].answered
              /\ Len(GivenUp(s, c, raised).asked) = Len(stream[s].asked)
<1> DEFINE q == stream[s].asked
           r == [i \in DOMAIN q |-> IF q[i] = c THEN Nobody ELSE q[i]]
           w == IF stream[s].reader = c THEN Nobody ELSE stream[s].reader
           b == stream[s].broken \/ (raised /\ op[c].stream = s)
<1>1. q \in Seq(Callers \cup {Nobody}) /\ stream[s].answered \in Nat
      /\ stream[s].answered <= Len(q) /\ w \in Callers \cup {Nobody} /\ b \in BOOLEAN
  BY DEF Answered, Stream
<1>2. r \in Seq(Callers \cup {Nobody}) /\ Len(r) = Len(q)
  <2>1. Len(q) \in Nat /\ DOMAIN q = 1 .. Len(q) /\ \A i \in 1 .. Len(q) : q[i] \in Callers \cup {Nobody}
    BY <1>1
  <2>2. r \in [1 .. Len(q) -> Callers \cup {Nobody}]
    BY <2>1
  <2> HIDE DEF r
  <2> QED BY <2>1, <2>2
<1>3. GivenUp(s, c, raised) \in
        {EmptyStream, [asked |-> r, answered |-> stream[s].answered, reader |-> w, broken |-> b]}
  BY DEF GivenUp
<1> HIDE DEF q, r, w, b
<1>4. [asked |-> r, answered |-> stream[s].answered, reader |-> w, broken |-> b] \in Answered
  BY <1>1, <1>2 DEF Answered, Stream
<1>5. Len(q) = Len(stream[s].asked)
  BY DEF q
<1> QED BY <1>2, <1>3, <1>4, <1>5, EmptyStreamType

(* Ends keeps every part of the invariant.                                  *)
LEMMA EndsKeeps ==
  ASSUME StackInv, caller \in [Callers -> Caller], NEW c \in Callers, AttemptEnds(c),
         NEW st \in {"IDLE", "ACTIVE", "RECONNECTING", "FAILED", "CLOSED"},
         NEW raised \in BOOLEAN, Ends(c, st, raised)
  PROVE  StackInv'
<1>1. conn \in Conn /\ op \in [Callers -> Op] /\ stream \in [Streams -> Answered]
  BY DEF StackInv, StackTyped
<1> DEFINE l == IF conn.lock = c THEN Nobody ELSE conn.lock
<1>2. l \in Callers \cup {Keeper, Nobody}
  BY <1>1 DEF Conn
<1>3. conn' = [conn EXCEPT !.state = st, !.lock = l]
  BY DEF Ends
<1>4. l # c /\ (l = Keeper => conn.lock = Keeper) /\ \A d \in Callers \ {c} : l = d <=> conn.lock = d
  BY StackAssumption
<1> HIDE DEF l
<1>5. conn' \in Conn /\ conn'.lock = l /\ conn'.stream = conn.stream
  BY <1>1, <1>2, <1>3 DEF Conn
<1>6. op' \in [Callers -> Op] /\ op'[c].at = "none" /\ \A d \in Callers \ {c} : op'[d] = op[d]
  BY <1>1 DEF Ends, NoOp, Op
<1>7. stream' \in [Streams -> Answered] /\ pool' = pool
  BY <1>1, GivenUpType DEF Ends
<1>8. TaskWhileRunning'
  BY <1>6, EndedNotRunning DEF StackInv, TaskWhileRunning, At
<1>9. LockOnlyWhileOpening'
  BY <1>4, <1>5, <1>6 DEF StackInv, LockOnlyWhileOpening, At
<1> QED BY <1>4, <1>5, <1>6, <1>7, <1>8, <1>9
        DEF StackInv, StackTyped, KeeperWhileOpen, ClosedForGood

-----------------------------------------------------------------------------
(* The steps of an operation.                                               *)

LEMMA StartKeeps ==
  ASSUME StackInv, caller \in [Callers -> Caller],
         NEW c \in Callers, NEW n \in 1 .. MaxAttempts, Attempts(c, n)
  PROVE  StackInv'
<1>1. CASE Admitted(c, n) /\ Goes(c, "enter", NoStream) /\ UNCHANGED <<conn, stream, pool>>
  <2>1. op' \in [Callers -> Op] /\ op'[c].at = "enter" /\ \A d \in Callers \ {c} : op'[d] = op[d]
    BY <1>1 DEF Goes, Op, StackInv, StackTyped
  <2>2. ~Running(c)
    BY <1>1 DEF Admitted, MayAttempt, Running
  <2>3. At(c, "none")
    BY <2>2 DEF StackInv, TaskWhileRunning
  <2>4. Running(c)' /\ \A d \in Callers \ {c} : Running(d)' <=> Running(d)
    BY <1>1, RunningAfter DEF Admitted, Attempted
  <2> QED BY <1>1, <2>1, <2>3, <2>4
          DEF StackInv, StackTyped, TaskWhileRunning, LockOnlyWhileOpening, KeeperWhileOpen,
              ClosedForGood, At
<1>2. CASE Rejected(c, n) /\ UNCHANGED stackVars
  <2>1. ~Running(c)
    BY <1>2 DEF Rejected, MayAttempt, Running
  <2>2. \A d \in Callers : Running(d)' <=> Running(d)
    BY <1>2, <2>1, RunningAfter DEF Rejected, Returns, NotCalling
  <2> QED BY <1>2, <2>2
          DEF StackInv, StackTyped, TaskWhileRunning, LockOnlyWhileOpening, KeeperWhileOpen,
              ClosedForGood, At, stackVars
<1> QED BY <1>1, <1>2 DEF Attempts

(* The steps with which an operation ends; ReadsLine leaves the connection  *)
(* as it is.                                                                *)
LEMMA EndStepKeeps ==
  ASSUME StackInv, caller \in [Callers -> Caller], NEW c \in Callers,
         \/ FindsClosed(c) \/ ConnectFails(c) \/ Clashes(c)
         \/ StreamBreaks(c) \/ OpCancelled(c)
  PROVE  StackInv'
<1>1. AttemptEnds(c)
  BY DEF FindsClosed, ConnectFails, Clashes, StreamBreaks, OpCancelled, AttemptEnds
<1>2. Ends(c, conn.state, FALSE) \/ Ends(c, "FAILED", TRUE)
  BY DEF FindsClosed, ConnectFails, Clashes, StreamBreaks, OpCancelled, MarkedFailed, Cancelled
<1>3. conn.state \in {"IDLE", "ACTIVE", "RECONNECTING", "FAILED", "CLOSED"}
  BY DEF StackInv, StackTyped, Conn
<1> QED BY <1>1, <1>2, <1>3, EndsKeeps

LEMMA ReadsLineKeeps ==
  ASSUME StackInv, caller \in [Callers -> Caller], NEW c \in Callers, ReadsLine(c)
  PROVE  StackInv'
<1> DEFINE s == op[c].stream
<1>1. op \in [Callers -> Op] /\ stream \in [Streams -> Answered]
      /\ UNCHANGED <<conn, pool>> /\ op' = [op EXCEPT ![c] = NoOp] /\ stream[s].answered > 0
  BY DEF StackInv, StackTyped, ReadsLine
<1>2. op' \in [Callers -> Op] /\ op'[c].at = "none" /\ \A d \in Callers \ {c} : op'[d] = op[d]
  BY <1>1 DEF NoOp, Op
<1>3. stream' \in [Streams -> Answered]
  <2>1. ASSUME s \in Streams, GivenUp(s, c, FALSE) # EmptyStream
        PROVE  [GivenUp(s, c, FALSE) EXCEPT !.asked = Tail(@),
                                            !.answered = stream[s].answered - 1] \in Answered
    <3> DEFINE g == GivenUp(s, c, FALSE)
               a == stream[s].answered
    <3>1. g \in Answered /\ g.answered = a /\ a > 0
      BY <1>1, <2>1, GivenUpType
    <3>2. g.asked \in Seq(Callers \cup {Nobody}) /\ a \in Nat /\ a <= Len(g.asked)
          /\ g.reader \in Callers \cup {Nobody}
      BY <3>1 DEF Answered, Stream
    <3> HIDE DEF g, a
    <3>3. g.asked # <<>>
      BY <3>1, <3>2
    <3>4. Tail(g.asked) \in Seq(Callers \cup {Nobody}) /\ Len(Tail(g.asked)) = Len(g.asked) - 1
      BY <3>2, <3>3, HeadTailProperties
    <3>5. a - 1 \in Nat /\ a - 1 <= Len(g.asked) - 1
      BY <3>1, <3>2
    <3>6. [g EXCEPT !.asked = Tail(g.asked), !.answered = a - 1] \in Answered
      BY <3>1, <3>2, <3>4, <3>5 DEF Answered, Stream
    <3> QED BY <3>6 DEF g, a
  <2> QED BY <1>1, <2>1, GivenUpType DEF ReadsLine
<1>4. TaskWhileRunning'
  BY <1>2, EndedNotRunning DEF StackInv, TaskWhileRunning, At, ReadsLine, AttemptEnds
<1>5. LockOnlyWhileOpening'
  BY <1>1, <1>2 DEF StackInv, LockOnlyWhileOpening, At, ReadsLine
<1> QED BY <1>1, <1>2, <1>3, <1>4, <1>5
        DEF StackInv, StackTyped, KeeperWhileOpen, ClosedForGood

(* The steps with which an operation goes on leave its caller running.      *)
LEMMA GoesOnKeeps ==
  ASSUME StackInv, NEW c \in Callers,
         Enters(c) \/ Reconnects(c) \/ SendsOnActive(c) \/ SendsOnNew(c) \/ Waits(c)
  PROVE  StackInv'
<1>1. conn \in Conn /\ op \in [Callers -> Op] /\ stream \in [Streams -> Answered]
  BY DEF StackInv, StackTyped
<1>2. caller' = caller /\ pool' = pool
  BY DEF Enters, Reconnects, SendsOnActive, SendsOnNew, Sends, Waits
<1>3. \A d \in Callers : Running(d)' <=> Running(d)
  BY <1>2 DEF Running
<1>4. ASSUME NEW where \in {"enter", "lock", "creating", "reading"},
             NEW t \in Streams \cup {NoStream}, Goes(c, where, t)
      PROVE  /\ op' \in [Callers -> Op] /\ op'[c].at = where
             /\ \A d \in Callers \ {c} : op'[d] = op[d]
  BY <1>1, <1>4 DEF Goes, Op
<1>5. CASE Enters(c)
  <2>1. op' \in [Callers -> Op] /\ op'[c].at = "lock" /\ \A d \in Callers \ {c} : op'[d] = op[d]
    BY <1>4, <1>5 DEF Enters
  <2> QED BY <1>1, <1>2, <1>3, <1>5, <2>1
          DEF Enters, StackInv, StackTyped, TaskWhileRunning, LockOnlyWhileOpening,
              KeeperWhileOpen, ClosedForGood, At
<1>6. CASE Reconnects(c)
  <2>1. op' \in [Callers -> Op] /\ op'[c].at = "creating" /\ \A d \in Callers \ {c} : op'[d] = op[d]
    BY <1>4, <1>6 DEF Reconnects
  <2>2. conn' \in Conn /\ conn'.lock = c /\ conn'.stream = conn.stream /\ conn.lock = Nobody
    BY <1>1, <1>6 DEF Reconnects, Conn
  <2>3. LockOnlyWhileOpening'
    BY <2>1, <2>2, StackAssumption DEF StackInv, LockOnlyWhileOpening, At
  <2>4. pool # "closed" /\ c # Keeper
    BY <1>6, StackAssumption DEF Reconnects, StackInv, ClosedForGood, At
  <2> QED BY <1>1, <1>2, <1>3, <1>6, <2>1, <2>2, <2>3, <2>4
          DEF Reconnects, StackInv, StackTyped, TaskWhileRunning, KeeperWhileOpen,
              ClosedForGood, At
<1>7. ASSUME NEW t \in Streams, NEW x \in Answered, Sends(c, t, x)
      PROVE  /\ op' \in [Callers -> Op] /\ op'[c].at = "reading"
             /\ \A d \in Callers \ {c} : op'[d] = op[d]
             /\ stream' \in [Streams -> Answered]
  <2> DEFINE y == [x EXCEPT !.asked = Append(x.asked, c)]
  <2>1. x.asked \in Seq(Callers \cup {Nobody}) /\ x.answered \in Nat /\ x.answered <= Len(x.asked)
    BY DEF Answered, Stream
  <2>2. Append(x.asked, c) \in Seq(Callers \cup {Nobody})
        /\ Len(Append(x.asked, c)) = Len(x.asked) + 1 /\ Len(x.asked) \in Nat
    BY <2>1
  <2>3. x.answered <= Len(Append(x.asked, c))
    BY <2>1, <2>2
  <2>4. y \in Answered
    BY <2>2, <2>3 DEF Answered, Stream
  <2>5. stream' = [stream EXCEPT ![t] = y] /\ Goes(c, "reading", t)
    BY <1>7 DEF Sends
  <2> HIDE DEF y
  <2> QED BY <1>1, <1>4, <2>4, <2>5
<1>8. CASE SendsOnActive(c)
  <2>1. conn.stream \in Streams /\ conn' = conn /\ conn.lock = Nobody
        /\ Sends(c, conn.stream, stream[conn.stream])
    BY <1>1, <1>8 DEF SendsOnActive, Usable, Conn
  <2>2. stream[conn.stream] \in Answered
    BY <1>1, <2>1
  <2>3. /\ op' \in [Callers -> Op] /\ op'[c].at = "reading"
        /\ \A d \in Callers \ {c} : op'[d] = op[d]
        /\ stream' \in [Streams -> Answered]
    BY <1>7, <2>1, <2>2
  <2> QED BY <1>1, <1>2, <1>3, <1>8, <2>1, <2>3
          DEF SendsOnActive, StackInv, StackTyped, TaskWhileRunning, LockOnlyWhileOpening,
              KeeperWhileOpen, ClosedForGood, At
<1>9. CASE SendsOnNew(c)
  <2>1. PICK t \in Streams : Opened(t, "ACTIVE") /\ Sends(c, t, EmptyStream)
    BY <1>9 DEF SendsOnNew, FreeStreams
  <2>2. /\ op' \in [Callers -> Op] /\ op'[c].at = "reading"
        /\ \A d \in Callers \ {c} : op'[d] = op[d]
        /\ stream' \in [Streams -> Answered]
    BY <1>7, <2>1, EmptyStreamType
  <2>3. conn' \in Conn /\ conn'.lock = Nobody /\ conn'.stream = t
    BY <1>1, <2>1 DEF Opened, Conn
  <2>4. At(c, "creating") /\ conn.lock = c
    BY <1>9 DEF SendsOnNew, StackInv, LockOnlyWhileOpening
  <2>5. LockOnlyWhileOpening'
    BY <2>2, <2>3, <2>4, StackAssumption DEF StackInv, LockOnlyWhileOpening, At
  <2>6. pool # "closed" /\ Nobody # Keeper
    BY <2>4, StackAssumption DEF StackInv, ClosedForGood, At
  <2> QED BY <1>1, <1>2, <1>3, <2>2, <2>3, <2>4, <2>5, <2>6
          DEF StackInv, StackTyped, TaskWhileRunning, KeeperWhileOpen, ClosedForGood, At
<1>10. CASE Waits(c)
  <2>1. stream' = [stream EXCEPT ![op[c].stream].reader = c] /\ UNCHANGED <<conn, op>>
    BY <1>10 DEF Waits
  <2>2. ASSUME NEW s \in Streams
        PROVE  [stream[s] EXCEPT !.reader = c] \in Answered
    BY <1>1 DEF Answered, Stream
  <2>3. stream' \in [Streams -> Answered]
    BY <1>1, <2>1, <2>2
  <2> QED BY <1>1, <1>2, <1>3, <2>1, <2>3
          DEF StackInv, StackTyped, TaskWhileRunning, LockOnlyWhileOpening, KeeperWhileOpen,
              ClosedForGood, At
<1> QED BY <1>5, <1>6, <1>8, <1>9, <1>10

-----------------------------------------------------------------------------
(* The device, the maintenance loops and close().                           *)

LEMMA PoolStepKeeps ==
  ASSUME StackInv, breaker' = breaker, caller' = caller,
         (\E s \in Streams : DeviceAnswers(s)) \/ KeeperReconnects \/ KeeperDone
           \/ Close \/ CloseEnds
  PROVE  StackInv'
<1>1. conn \in Conn /\ op \in [Callers -> Op] /\ stream \in [Streams -> Answered]
      /\ pool \in {"open", "closing", "closed"}
  BY DEF StackInv, StackTyped
<1>2. op' = op
  BY DEF DeviceAnswers, KeeperReconnects, KeeperDone, Close, CloseEnds
<1>3. TaskWhileRunning'
  BY <1>2 DEF StackInv, TaskWhileRunning, At, Running
<1>4. ASSUME NEW s \in Streams, DeviceAnswers(s)
      PROVE  StackInv'
  <2> DEFINE x == [stream[s] EXCEPT !.answered = stream[s].answered + 1, !.reader = Nobody]
  <2>1. stream[s].asked \in Seq(Callers \cup {Nobody}) /\ stream[s].answered \in Nat
        /\ stream[s].answered < Len(stream[s].asked) /\ Len(stream[s].asked) \in Nat
        /\ stream[s] \in Stream
    BY <1>1, <1>4 DEF DeviceAnswers, Answered, Stream
  <2>2. stream[s].answered + 1 \in Nat /\ stream[s].answered + 1 <= Len(stream[s].asked)
    BY <2>1
  <2>3. x \in Answered
    BY <2>1, <2>2 DEF Answered, Stream
  <2>4. stream' = [stream EXCEPT ![s] = x] /\ UNCHANGED <<conn, op, pool>>
    BY <1>4 DEF DeviceAnswers
  <2> HIDE DEF x
  <2>5. stream' \in [Streams -> Answered]
    BY <1>1, <2>3, <2>4
  <2> QED BY <1>3, <2>4, <2>5
          DEF StackInv, StackTyped, LockOnlyWhileOpening, KeeperWhileOpen, ClosedForGood, At
<1>5. CASE KeeperReconnects
  <2>1. conn' \in Conn /\ conn'.lock = Keeper /\ conn'.stream = conn.stream
    BY <1>1, <1>5 DEF KeeperReconnects, Conn
  <2>2. LockOnlyWhileOpening'
    BY <1>2, <1>5, <2>1, StackAssumption DEF KeeperReconnects, StackInv, LockOnlyWhileOpening, At
  <2> QED BY <1>1, <1>2, <1>3, <1>5, <2>1, <2>2
          DEF KeeperReconnects, StackInv, StackTyped, KeeperWhileOpen, ClosedForGood
<1>6. CASE KeeperDone
  <2>1. conn' \in Conn /\ conn'.lock = Nobody
    BY <1>1, <1>6 DEF KeeperDone, Opened, Conn, FreeStreams
  <2>2. stream' \in [Streams -> Answered] /\ pool' = pool
    BY <1>1, <1>6, EmptyStreamType DEF KeeperDone
  <2>3. LockOnlyWhileOpening'
    BY <1>2, <1>6, <2>1, StackAssumption DEF KeeperDone, StackInv, LockOnlyWhileOpening, At
  <2>4. pool = "open" /\ Nobody # Keeper
    BY <1>6, StackAssumption DEF KeeperDone, StackInv, KeeperWhileOpen
  <2> QED BY <1>1, <1>2, <1>3, <2>1, <2>2, <2>3, <2>4
          DEF StackInv, StackTyped, KeeperWhileOpen, ClosedForGood
<1>7. CASE Close
  <2> DEFINE l == IF conn.lock = Keeper THEN Nobody ELSE conn.lock
  <2>1. conn' = [conn EXCEPT !.lock = l] /\ pool' = "closing" /\ stream' = stream
    BY <1>7 DEF Close
  <2>2. l \in Callers \cup {Keeper, Nobody} /\ l # Keeper
        /\ \A c \in Callers : l = c <=> conn.lock = c
    BY <1>1, StackAssumption DEF Conn
  <2> HIDE DEF l
  <2>3. conn' \in Conn /\ conn'.lock = l
    BY <1>1, <2>1, <2>2 DEF Conn
  <2> QED BY <1>1, <1>2, <1>3, <2>1, <2>2, <2>3
          DEF StackInv, StackTyped, LockOnlyWhileOpening, KeeperWhileOpen, ClosedForGood, At
<1>8. CASE CloseEnds
  <2>1. conn' \in Conn /\ conn'.lock = Nobody /\ conn'.stream = NoStream
    BY <1>1, <1>8 DEF CloseEnds, Conn
  <2>2. LockOnlyWhileOpening'
    BY <1>2, <1>8, <2>1 DEF CloseEnds, StackInv, LockOnlyWhileOpening, At
  <2>3. \A c \in Callers : op[c].at \notin {"lock", "creating"}
    BY <1>8, StackAssumption DEF CloseEnds, StackInv, LockOnlyWhileOpening, At
  <2> QED BY <1>1, <1>2, <1>3, <1>8, <2>1, <2>2, <2>3, StackAssumption
          DEF CloseEnds, StackInv, StackTyped, KeeperWhileOpen, ClosedForGood
<1> QED BY <1>4, <1>5, <1>6, <1>7, <1>8

(* Reset, force_open and the clock change nothing the stack looks at.       *)
LEMMA BreakerStepKeeps ==
  ASSUME StackInv, BreakerInv, BreakerInv', (Reset \/ ForceOpen \/ Tick) /\ UNCHANGED stackVars
  PROVE  StackInv'
<1>1. ASSUME NEW c \in Callers
      PROVE  caller'[c].st = caller[c].st
  <2>1. caller[c] \in Caller
    BY DEF BreakerInv, BreakerTypeOK
  <2>2. Aged(caller[c]).st = caller[c].st
    BY <2>1 DEF Aged, Caller
  <2>3. caller'[c] \in {caller[c], Aged(caller[c])}
    BY DEF Reset, ForceOpen, Tick
  <2> QED BY <2>2, <2>3
<1>2. \A c \in Callers : Running(c)' <=> Running(c)
  BY <1>1 DEF Running
<1> QED BY <1>2 DEF stackVars, StackInv, StackTyped, TaskWhileRunning, LockOnlyWhileOpening,
                    KeeperWhileOpen, ClosedForGood, At

LEMMA StackStep == StackInv /\ BreakerInv /\ BreakerInv' /\ [Next]_vars => StackInv'
<1> SUFFICES ASSUME StackInv, BreakerInv, BreakerInv', [Next]_vars
             PROVE  StackInv'
  OBVIOUS
<1>1. caller \in [Callers -> Caller]
  BY DEF BreakerInv, BreakerTypeOK
<1>2. CASE UNCHANGED vars
  BY <1>2 DEF vars, StackInv, StackTyped, TaskWhileRunning, LockOnlyWhileOpening,
              KeeperWhileOpen, ClosedForGood, At, Running
<1>3. ASSUME NEW c \in Callers, OpStep(c)
      PROVE  StackInv'
  BY <1>1, <1>3, EndStepKeeps, ReadsLineKeeps, GoesOnKeeps DEF OpStep
<1>4. ASSUME \/ \E s \in Streams : DeviceAnswers(s)
             \/ KeeperReconnects \/ KeeperDone \/ Close \/ CloseEnds
      PROVE  StackInv'
  <2>1. breaker' = breaker /\ caller' = caller
    BY <1>4 DEF DeviceAnswers, KeeperReconnects, KeeperDone, Close, CloseEnds
  <2> QED BY <1>4, <2>1, PoolStepKeeps
<1> QED BY <1>1, <1>2, <1>3, <1>4, StartKeeps, BreakerStepKeeps DEF Next

LEMMA StackInvariant == Spec => [](BreakerInv /\ StackInv)
<1>1. Init => StackInv
  <2> SUFFICES ASSUME Init
               PROVE  StackInv
    OBVIOUS
  <2>1. conn \in Conn /\ conn.lock = Nobody
    BY DEF Init, Conn
  <2>2. stream \in [Streams -> Answered] /\ op \in [Callers -> Op] /\ pool = "open"
    BY EmptyStreamType DEF Init, Op, NoOp
  <2>3. \A c \in Callers : ~Running(c) /\ At(c, "none")
    BY DEF Init, BreakerInit, Running, NotCalling, At, NoOp
  <2>4. LockOnlyWhileOpening
    BY <2>1, <2>3, StackAssumption DEF LockOnlyWhileOpening, At
  <2> QED BY <2>1, <2>2, <2>3, <2>4
          DEF StackInv, StackTyped, TaskWhileRunning, KeeperWhileOpen, ClosedForGood
<1>2. Spec => []BreakerInv
  BY StackImplementsBreaker, BreakerInvariant, PTL
<1> QED BY <1>1, <1>2, StackStep, PTL DEF Spec

-----------------------------------------------------------------------------

(* Type invariant: every variable keeps its type, and an operation's task   *)
(* exists exactly while the breaker waits for it.                           *)
THEOREM StackTypeCorrect == Spec => []TypeOK
<1>1. StackInv /\ BreakerInv => TypeOK
  BY DEF StackInv, StackTyped, TaskWhileRunning, BreakerInv, TypeOK, Answered
<1> QED BY <1>1, StackInvariant, PTL

(* No timeout, cancel, failure or close() leaves the connection locked.     *)
THEOREM LockFollowsOpening == Spec => []LockOnlyWhileOpening
<1>1. StackInv => LockOnlyWhileOpening
  BY DEF StackInv
<1> QED BY <1>1, StackInvariant, PTL

(* When close() has returned no stream is left and none will be opened.     *)
THEOREM PoolStaysClosed == Spec => []ClosedForGood
<1>1. StackInv => ClosedForGood
  BY DEF StackInv
<1> QED BY <1>1, StackInvariant, PTL

-----------------------------------------------------------------------------
(* Broken streams.                                                          *)

(* Whoever ends leaves the connection FAILED if its operation raised, and   *)
(* the mark of the connection's stream alone if it did not.                 *)
LEMMA EndsRetires ==
  ASSUME StackInv, BrokenStreamsRetired, NEW c \in Callers,
         Ends(c, conn.state, FALSE) \/ Ends(c, "FAILED", TRUE)
  PROVE  BrokenStreamsRetired'
<1>1. conn \in Conn /\ stream \in [Streams -> Answered] /\ NoStream \notin Streams
  BY StackAssumption DEF StackInv, StackTyped
<1>2. CASE Ends(c, "FAILED", TRUE)
  BY <1>1, <1>2 DEF Ends, Conn, BrokenStreamsRetired, Usable
<1>3. CASE Ends(c, conn.state, FALSE)
  <2>1. conn'.state = conn.state /\ conn'.stream = conn.stream
    BY <1>1, <1>3 DEF Ends, Conn
  <2>2. ASSUME Usable
        PROVE  ~stream'[conn.stream].broken
    <3>1. conn.stream \in Streams
      BY <1>1, <2>2 DEF Usable, Conn
    <3>2. stream'[conn.stream] = GivenUp(conn.stream, c, FALSE)
      BY <1>3, <3>1 DEF Ends
    <3>3. GivenUp(conn.stream, c, FALSE).broken = (stream[conn.stream].broken \/ FALSE)
      BY DEF GivenUp
    <3> QED BY <2>2, <3>2, <3>3 DEF BrokenStreamsRetired
  <2> QED BY <2>1, <2>2 DEF BrokenStreamsRetired, Usable
<1> QED BY <1>2, <1>3

LEMMA RetiredStep == StackInv /\ BrokenStreamsRetired /\ [Next]_vars => BrokenStreamsRetired'
<1> SUFFICES ASSUME StackInv, BrokenStreamsRetired, [Next]_vars
             PROVE  BrokenStreamsRetired'
  OBVIOUS
<1>1. conn \in Conn /\ stream \in [Streams -> Answered] /\ NoStream \notin Streams
  BY StackAssumption DEF StackInv, StackTyped
<1>2. ASSUME UNCHANGED <<conn, stream>>
      PROVE  BrokenStreamsRetired'
  BY <1>2 DEF BrokenStreamsRetired, Usable
<1>3. ASSUME NEW c \in Callers, OpStep(c)
      PROVE  BrokenStreamsRetired'
  <2>1. CASE Enters(c)
    BY <1>2, <2>1 DEF Enters
  <2>2. CASE FindsClosed(c) \/ ConnectFails(c) \/ Clashes(c) \/ StreamBreaks(c) \/ OpCancelled(c)
    BY <2>2, EndsRetires
    DEF FindsClosed, ConnectFails, Clashes, StreamBreaks, OpCancelled, MarkedFailed, Cancelled
  <2>3. CASE Reconnects(c)
    BY <1>1, <2>3 DEF Reconnects, Conn, BrokenStreamsRetired, Usable
  <2>4. ASSUME NEW t \in Streams, NEW x \in Answered, Sends(c, t, x)
        PROVE  stream'[t].broken = x.broken
    <3>1. [x EXCEPT !.asked = Append(x.asked, c)].broken = x.broken
      BY DEF Answered, Stream
    <3> QED BY <1>1, <2>4, <3>1 DEF Sends
  <2>5. CASE SendsOnActive(c)
    <3>1. conn.stream \in Streams /\ conn' = conn
      BY <1>1, <2>5 DEF SendsOnActive, Usable, Conn
    <3>2. stream'[conn.stream].broken = stream[conn.stream].broken
      BY <1>1, <2>4, <2>5, <3>1 DEF SendsOnActive
    <3> QED BY <3>1, <3>2 DEF BrokenStreamsRetired, Usable
  <2>6. CASE SendsOnNew(c)
    <3>1. PICK t \in Streams : Opened(t, "ACTIVE") /\ Sends(c, t, EmptyStream)
      BY <2>6 DEF SendsOnNew, FreeStreams
    <3>2. conn'.stream = t
      BY <1>1, <3>1 DEF Opened, Conn
    <3>3. ~stream'[t].broken
      BY <2>4, <3>1, EmptyStreamType DEF EmptyStream
    <3> QED BY <3>2, <3>3 DEF BrokenStreamsRetired
  <2>7. CASE Waits(c)
    <3>1. \A s \in Streams : stream'[s].broken = stream[s].broken
      BY <1>1, <2>7 DEF Waits, Answered, Stream
    <3>2. conn' = conn
      BY <2>7 DEF Waits
    <3> QED BY <1>1, <3>1, <3>2 DEF BrokenStreamsRetired, Usable, Conn
  <2>8. CASE ReadsLine(c)
    <3>1. conn' = conn
      BY <2>8 DEF ReadsLine
    <3>2. ASSUME Usable
          PROVE  ~stream'[conn.stream].broken
      <4> DEFINE t == conn.stream
                 g == GivenUp(t, c, FALSE)
                 n == stream[op[c].stream].answered - 1
      <4>1. t \in Streams
        BY <1>1, <3>2 DEF Usable, Conn
      <4>2. g.broken = (stream[t].broken \/ FALSE)
        BY DEF GivenUp
      <4>3. g \in Answered
        BY <1>1, <4>1, GivenUpType
      <4>4. stream'[t] \in {g, [g EXCEPT !.asked = Tail(@), !.answered = n]}
        BY <2>8, <4>1 DEF ReadsLine
      <4> HIDE DEF g, n
      <4>5. [g EXCEPT !.asked = Tail(@), !.answered = n].broken = g.broken
        BY <4>3 DEF Answered, Stream
      <4> QED BY <3>2, <4>2, <4>4, <4>5 DEF BrokenStreamsRetired
    <3> QED BY <3>1, <3>2 DEF BrokenStreamsRetired, Usable
  <2> QED BY <1>3, <2>1, <2>2, <2>3, <2>5, <2>6, <2>7, <2>8 DEF OpStep
<1>4. ASSUME NEW s \in Streams, DeviceAnswers(s)
      PROVE  BrokenStreamsRetired'
  <2>1. \A t \in Streams : stream'[t].broken = stream[t].broken
    BY <1>1, <1>4 DEF DeviceAnswers, Answered, Stream
  <2>2. conn' = conn
    BY <1>4 DEF DeviceAnswers
  <2> QED BY <1>1, <2>1, <2>2 DEF BrokenStreamsRetired, Usable, Conn
<1>5. CASE KeeperReconnects
  BY <1>1, <1>5 DEF KeeperReconnects, Conn, BrokenStreamsRetired, Usable
<1>6. CASE KeeperDone
  <2>1. ASSUME NEW t \in FreeStreams, Opened(t, "ACTIVE"), stream' = [stream EXCEPT ![t] = EmptyStream]
        PROVE  BrokenStreamsRetired'
    <3>1. t \in Streams /\ conn'.stream = t
      BY <1>1, <2>1 DEF Opened, Conn, FreeStreams
    <3> QED BY <1>1, <2>1, <3>1 DEF BrokenStreamsRetired, EmptyStream
  <2>2. ASSUME Opened(conn.stream, "FAILED")
        PROVE  BrokenStreamsRetired'
    BY <1>1, <2>2 DEF Opened, Conn, BrokenStreamsRetired, Usable
  <2> QED BY <1>6, <2>1, <2>2 DEF KeeperDone
<1>7. CASE Close
  BY <1>1, <1>7 DEF Close, Conn, BrokenStreamsRetired, Usable
<1>8. CASE CloseEnds
  <2>1. stream' = stream /\ (conn' = conn \/ conn'.stream = NoStream)
    BY <1>1, <1>8 DEF CloseEnds, Conn
  <2> QED BY <2>1 DEF BrokenStreamsRetired, Usable
<1>9. ASSUME NEW c \in Callers, NEW n \in 1 .. MaxAttempts, Attempts(c, n)
      PROVE  BrokenStreamsRetired'
  BY <1>2, <1>9 DEF Attempts, stackVars
<1>10. CASE (Reset \/ ForceOpen \/ Tick) /\ UNCHANGED stackVars
  BY <1>2, <1>10 DEF stackVars
<1>11. CASE UNCHANGED vars
  BY <1>2, <1>11 DEF vars
<1> QED BY <1>3, <1>4, <1>5, <1>6, <1>7, <1>8, <1>9, <1>10, <1>11 DEF Next

(* No command is written to a stream on which an operation has raised,      *)
(* whichever callers, loops and cancels met on the connection since.        *)
THEOREM BrokenStreamsStayRetired == Spec => []BrokenStreamsRetired
<1>1. Init => BrokenStreamsRetired
  BY DEF Init, BrokenStreamsRetired, Usable, EmptyStream
<1> QED BY <1>1, RetiredStep, StackInvariant, PTL DEF Spec

=============================================================================
