------------------------ MODULE ProviderClientProofs ------------------------
(***************************************************************************)
(* What holds of providerCall for any number of calls and containers, any  *)
(* profile and any budget: its types, the bound on its attempts, and the   *)
(* bound on its time.                                                      *)
(***************************************************************************)
EXTENDS ProviderClient, FiniteSetTheorems, TLAPS

(* The remaining budget at each place of the loop.  Only the check and the *)
(* first token are reached with certainty of time left; an attempt may be  *)
(* given the one tick of the shortest timeout when none is.                *)
BudgetAt(c) ==
  /\ pc[c] # "idle" => left[c] >= -1
  /\ pc[c] \in CheckSteps => left[c] >= 1
  /\ pc[c] = "acquire" => left[c] >= 0
  /\ pc[c] = "wait" => timer[c] <= left[c]
  /\ pc[c] = "attempt" => timer[c] <= left[c] + 1
  /\ pc[c] = "sleep" => timer[c] < left[c]

AttemptsAt(c) ==
  /\ retries[c] < MaxAttempts
  /\ pc[c] = "idle" => retries[c] = 0 /\ waited[c] = 0
  /\ mode[c] = "noWait" => retries[c] = 0 /\ waited[c] = 0
  /\ pc[c] = "sleep" => retries[c] + 1 < MaxAttempts /\ mode[c] # "noWait"

(* The inductive invariant.                                                *)
IInv == TypeOK /\ \A c \in Calls : BudgetAt(c) /\ AttemptsAt(c)

USE CallsAssumption, RedisAssumption, ModesAssumption, ThresholdAssumption,
    TimesAssumption, WaitsAssumption, AttemptsAssumption, FaultsAssumption
USE DEF Places, Breaker, CheckSteps, SuccessSteps, FailureSteps, Timed,
        Results, Stores, AllModes, NoExpiry, Go, Lesser, Greater

LEMMA InitIInv == Init => IInv
  BY DEF Init, IInv, TypeOK, BudgetAt, AttemptsAt

(* The end of a call leaves a slot that satisfies everything.              *)
LEMMA EndIInv ==
  ASSUME IInv, NEW c \in Calls, End(c)
  PROVE  /\ pc' \in [Calls -> Places] /\ mode' \in [Calls -> AllModes]
         /\ at' \in [Calls -> Stores] /\ retries' \in [Calls -> Nat]
         /\ result' \in [Calls -> Results] /\ left' \in [Calls -> Int]
         /\ timer' \in [Calls -> Nat] /\ waited' \in [Calls -> Nat]
         /\ asProbe' \in [Calls -> BOOLEAN]
         /\ \A d \in Calls : BudgetAt(d)' /\ AttemptsAt(d)'
  BY DEF End, IInv, TypeOK, BudgetAt, AttemptsAt

(* Passing the check leaves the call's budget and attempts in order.       *)
LEMMA AdmitIInv ==
  ASSUME IInv, NEW c \in Calls, pc[c] \in CheckSteps, NEW b \in BOOLEAN, Admit(c, b)
  PROVE  /\ pc' \in [Calls -> Places] /\ mode' \in [Calls -> AllModes]
         /\ at' \in [Calls -> Stores] /\ retries' \in [Calls -> Nat]
         /\ result' \in [Calls -> Results] /\ left' \in [Calls -> Int]
         /\ timer' \in [Calls -> Nat] /\ waited' \in [Calls -> Nat]
         /\ asProbe' \in [Calls -> BOOLEAN]
         /\ \A d \in Calls : BudgetAt(d)' /\ AttemptsAt(d)'
  BY DEF Admit, IInv, TypeOK, BudgetAt, AttemptsAt

LEMMA CheckIInv ==
  ASSUME IInv, NEW c \in Calls,
         Start(c) \/ GetOpen(c) \/ GetFailures(c) \/ SetProbe(c)
  PROVE  IInv'
<1>1. CASE Start(c)
  <2>1. PICK m \in Modes, b \in 0..Budget :
          b > 0 /\ mode' = [mode EXCEPT ![c] = m] /\ left' = [left EXCEPT ![c] = b]
    BY <1>1 DEF Start
  <2>2. TypeOK'
    BY <1>1, <2>1 DEF Start, IInv, TypeOK, storeVars, faultVars
  <2>3. \A d \in Calls : BudgetAt(d)'
    BY <1>1, <2>1 DEF Start, IInv, TypeOK, BudgetAt
  <2>4. \A d \in Calls : AttemptsAt(d)'
    BY <1>1, <2>1 DEF Start, IInv, TypeOK, AttemptsAt
  <2> QED BY <2>2, <2>3, <2>4 DEF IInv
<1>2. CASE GetOpen(c)
  <2>1. CASE End(c)
    BY <1>2, <2>1, EndIInv DEF GetOpen, IInv, TypeOK, storeVars, faultVars
  <2>2. CASE ~End(c)
    BY <1>2, <2>2 DEF GetOpen, IInv, TypeOK, BudgetAt, AttemptsAt, storeVars, faultVars
  <2> QED BY <2>1, <2>2
<1>3. CASE GetFailures(c)
  <2>1. CASE Admit(c, FALSE)
    BY <1>3, <2>1, AdmitIInv DEF GetFailures, IInv, TypeOK, storeVars, faultVars
  <2>2. CASE ~Admit(c, FALSE)
    BY <1>3, <2>2 DEF GetFailures, IInv, TypeOK, BudgetAt, AttemptsAt, storeVars, faultVars
  <2> QED BY <2>1, <2>2
<1>4. CASE SetProbe(c)
  <2>1. CASE Admit(c, TRUE)
    <3>1. pc[c] = "setProbe"
      BY <1>4 DEF SetProbe
    <3>2. probe' \in [Stores -> 0..Cooldown]
      <4>1. probe' = probe \/ probe' = [probe EXCEPT ![at[c]] = Cooldown]
        BY <1>4 DEF SetProbe
      <4>2. probe \in [Stores -> 0..Cooldown] /\ Cooldown \in 0..Cooldown
        BY DEF IInv, TypeOK
      <4> QED BY <4>1, <4>2
    <3>3. UNCHANGED <<failures, expiry, open, faultVars>>
      BY <1>4 DEF SetProbe
    <3> QED BY <2>1, <3>1, <3>2, <3>3, AdmitIInv DEF IInv, TypeOK, faultVars
  <2>2. CASE ~Admit(c, TRUE)
    BY <1>4, <2>2, EndIInv DEF SetProbe, IInv, TypeOK, faultVars
  <2> QED BY <2>1, <2>2
<1> QED BY <1>1, <1>2, <1>3, <1>4

LEMMA AttemptIInv ==
  ASSUME IInv, NEW c \in Calls, Acquire(c) \/ Waited(c) \/ Answer(c)
  PROVE  IInv'
<1>1. CASE Acquire(c)
  BY <1>1 DEF Acquire, WaitWindow, IInv, TypeOK, BudgetAt, AttemptsAt, storeVars, faultVars
<1>2. CASE Waited(c)
  BY <1>2 DEF Waited, IInv, TypeOK, BudgetAt, AttemptsAt, storeVars, faultVars
<1>3. CASE Answer(c)
  BY <1>3 DEF Answer, IInv, TypeOK, BudgetAt, AttemptsAt, storeVars, faultVars
<1> QED BY <1>1, <1>2, <1>3

LEMMA RecordIInv ==
  ASSUME IInv, NEW c \in Calls,
         Clear(c) \/ Incr(c) \/ PExpire(c) \/ SetOpen(c) \/ DelProbe(c)
  PROVE  IInv'
<1>1. CASE Clear(c)
  BY <1>1, EndIInv DEF Clear, IInv, TypeOK, faultVars
<1>2. CASE Incr(c)
  BY <1>2 DEF Incr, IInv, TypeOK, BudgetAt, AttemptsAt, faultVars
<1>3. CASE PExpire(c)
  BY <1>3 DEF PExpire, IInv, TypeOK, BudgetAt, AttemptsAt, faultVars
<1>4. CASE SetOpen(c)
  BY <1>4 DEF SetOpen, IInv, TypeOK, BudgetAt, AttemptsAt, faultVars
<1>5. CASE DelProbe(c)
  BY <1>5 DEF DelProbe, IInv, TypeOK, BudgetAt, AttemptsAt, faultVars
<1> QED BY <1>1, <1>2, <1>3, <1>4, <1>5

LEMMA RetryIInv ==
  ASSUME IInv, NEW c \in Calls, Decide(c) \/ Wake(c)
  PROVE  IInv'
<1>1. CASE Decide(c)
  <2>1. CASE End(c)
    BY <1>1, <2>1, EndIInv DEF Decide, IInv, TypeOK, storeVars, faultVars
  <2>2. CASE ~End(c)
    BY <1>1, <2>2 DEF Decide, CanRetry, IInv, TypeOK, BudgetAt, AttemptsAt, storeVars, faultVars
  <2> QED BY <2>1, <2>2
<1>2. CASE Wake(c)
  BY <1>2 DEF Wake, IInv, TypeOK, BudgetAt, AttemptsAt, storeVars, faultVars
<1> QED BY <1>1, <1>2

LEMMA FaultIInv ==
  ASSUME IInv,
         \/ \E c \in Calls : StoreFails(c)
         \/ \E k \in Containers : Crash(k)
  PROVE  IInv'
<1>1. ASSUME NEW c \in Calls, StoreFails(c) PROVE IInv'
  BY <1>1 DEF StoreFails, IInv, TypeOK, BudgetAt, AttemptsAt, storeVars
<1>2. ASSUME NEW k \in Containers, Crash(k) PROVE IInv'
  <2> DEFINE dead == {c \in Calls : Home[c] = k}
  <2>1. TypeOK'
    <3>1. /\ failures' \in [Stores -> 0..Threshold] /\ expiry' \in [Stores -> 0..NoExpiry]
          /\ open' \in [Stores -> 0..Cooldown] /\ probe' \in [Stores -> 0..Cooldown]
      BY <1>2 DEF Crash, IInv, TypeOK
    <3>2. /\ pc' \in [Calls -> Places] /\ mode' \in [Calls -> AllModes]
          /\ at' \in [Calls -> Stores] /\ result' \in [Calls -> Results]
          /\ asProbe' \in [Calls -> BOOLEAN]
      BY <1>2 DEF Crash, IInv, TypeOK
    <3>3. /\ retries' \in [Calls -> Nat] /\ left' \in [Calls -> Int]
          /\ timer' \in [Calls -> Nat] /\ waited' \in [Calls -> Nat]
      BY <1>2 DEF Crash, IInv, TypeOK
    <3>4. storeFailures' \in 0..MaxStoreFailures /\ crashes' \in 0..MaxCrashes
      BY <1>2 DEF Crash, IInv, TypeOK
    <3> QED BY <3>1, <3>2, <3>3, <3>4 DEF TypeOK
  <2>2. ASSUME NEW c \in dead PROVE BudgetAt(c)' /\ AttemptsAt(c)'
    BY <1>2, <2>2 DEF Crash, IInv, TypeOK, BudgetAt, AttemptsAt
  <2>3. ASSUME NEW c \in Calls \ dead PROVE BudgetAt(c)' /\ AttemptsAt(c)'
    <3>1. /\ pc'[c] = pc[c] /\ mode'[c] = mode[c] /\ retries'[c] = retries[c]
          /\ left'[c] = left[c] /\ timer'[c] = timer[c] /\ waited'[c] = waited[c]
      BY <1>2, <2>3 DEF Crash
    <3> QED BY <2>3, <3>1 DEF IInv, BudgetAt, AttemptsAt
  <2> QED BY <2>1, <2>2, <2>3 DEF IInv
<1> QED BY <1>1, <1>2

LEMMA TickIInv == IInv /\ Tick => IInv'
  BY DEF Tick, IInv, TypeOK, BudgetAt, AttemptsAt, faultVars

LEMMA NextIInv == IInv /\ [Next]_vars => IInv'
<1> SUFFICES ASSUME IInv, [Next]_vars PROVE IInv'
  OBVIOUS
<1>1. CASE UNCHANGED vars
  BY <1>1 DEF vars, storeVars, callVars, faultVars, IInv, TypeOK, BudgetAt, AttemptsAt
<1>2. CASE Tick
  BY <1>2, TickIInv
<1>3. ASSUME NEW c \in Calls, Start(c) \/ Step(c) PROVE IInv'
  BY <1>3, CheckIInv, AttemptIInv, RecordIInv, RetryIInv DEF Step
<1> QED BY <1>1, <1>2, <1>3, FaultIInv DEF Next

(* Every variable keeps its type.                                          *)
THEOREM TypeCorrect == Spec => []TypeOK
<1>1. IInv => TypeOK
  BY DEF IInv
<1> QED BY <1>1, InitIInv, NextIInv, PTL DEF Spec

(* No call outlives its request's deadline by more than a tick: the waits  *)
(* for a token, the attempts and the backoffs all fit the budget.          *)
THEOREM BudgetKept == Spec => []WithinBudget
<1>1. IInv => WithinBudget
  BY DEF IInv, BudgetAt, WithinBudget, Active
<1> QED BY <1>1, InitIInv, NextIInv, PTL DEF Spec

(* No call makes more attempts than its profile allows, and a noWait call  *)
(* makes one.                                                              *)
THEOREM AttemptsBounded == Spec => []BoundedAttempts
<1>1. IInv => BoundedAttempts
  BY DEF IInv, AttemptsAt, BoundedAttempts
<1> QED BY <1>1, InitIInv, NextIInv, PTL DEF Spec

-----------------------------------------------------------------------------
(* The count outlives the open key: where a failure is about to open the   *)
(* circuit, the count was renewed a moment ago, or was cleared meanwhile.  *)
CountAt(s) ==
  /\ open[s] > 0 /\ failures[s] > 0 => expiry[s] >= open[s] + Cooldown
  /\ (\E c \in Calls : at[c] = s /\ pc[c] = "setOpen") => failures[s] = 0 \/ expiry[s] >= 2 * Cooldown

CountKept == \A s \in Stores : CountAt(s)

(* The circuit is not on its way to opening again.                         *)
Opening(c) == pc[c] \in {"pExpireAtThreshold", "setOpen"}
Tripped    == failures[Redis] >= Threshold /\ \A c \in Calls : ~Opening(c)

(* The probes in flight that the open key may not outlive.                 *)
Exposed == {c \in Probing : open[Redis] <= left[c] + 1}

(* Without faults every call talks to Redis, and ends within its budget.   *)
Bounded ==
  \A c \in Calls :
    /\ at[c] = Redis /\ mode[c] # "job" /\ left[c] <= Budget
    /\ pc[c] = "idle" => ~asProbe[c]

(* There is one such probe at most, and the probe key outlives it; none    *)
(* while a failure that opened the circuit has yet to delete the key.      *)
ProbeKeyHeld ==
  Tripped => \A c \in Exposed : probe[Redis] > left[c] + 1 /\ \A d \in Exposed : d = c

OpenedJustNow ==
  Tripped /\ (\E c \in Calls : pc[c] = "delProbe") => open[Redis] = Cooldown

ProbeInv == Bounded /\ ProbeKeyHeld /\ OpenedJustNow

-----------------------------------------------------------------------------
(* A step that leaves the store's count and open key alone, and brings no  *)
(* call to setting the latter.                                             *)
LEMMA QuietCountKept ==
  ASSUME IInv, CountKept, UNCHANGED <<failures, expiry, open>>,
         \A c \in Calls : pc'[c] = "setOpen" => pc[c] = "setOpen" /\ at'[c] = at[c]
  PROVE  CountKept'
  BY DEF CountKept, CountAt

LEMMA IncrCountKept ==
  ASSUME IInv, CountKept, NEW c \in Calls, Incr(c)
  PROVE  CountKept'
<1> SUFFICES ASSUME NEW s \in Stores PROVE CountAt(s)'
  BY DEF CountKept
<1>1. /\ UNCHANGED <<open, at>> /\ open[s] \in 0..Cooldown
      /\ \A d \in Calls : pc'[d] = "setOpen" => pc[d] = "setOpen"
  BY DEF Incr, IInv, TypeOK
<1>2. CASE at[c] = s /\ failures[s] = 0
  BY <1>1, <1>2 DEF Incr, IInv, TypeOK, CountAt
<1>3. CASE at[c] # s \/ failures[s] # 0
  <2>1. expiry'[s] = expiry[s] /\ (failures'[s] = 0 <=> failures[s] = 0)
    BY <1>3 DEF Incr, IInv, TypeOK
  <2>2. CountAt(s) /\ failures[s] \in Nat /\ failures'[s] \in Nat
    BY DEF CountKept, Incr, IInv, TypeOK
  <2> QED BY <1>1, <2>1, <2>2 DEF CountAt
<1> QED BY <1>2, <1>3

LEMMA PExpireCountKept ==
  ASSUME IInv, CountKept, NEW c \in Calls, PExpire(c)
  PROVE  CountKept'
<1> SUFFICES ASSUME NEW s \in Stores PROVE CountAt(s)'
  BY DEF CountKept
<1>1. /\ UNCHANGED <<failures, open>> /\ open[s] \in 0..Cooldown /\ failures[s] \in Nat
      /\ \A d \in Calls \ {c} : pc'[d] = pc[d] /\ at'[d] = at[d]
      /\ pc'[c] = "setOpen" => at'[c] = at[c]
  BY DEF PExpire, IInv, TypeOK
<1>2. CASE at[c] = s /\ failures[s] > 0
  <2>1. expiry'[s] = 2 * Cooldown
    BY <1>2 DEF PExpire, IInv, TypeOK
  <2> QED BY <1>1, <2>1 DEF CountAt
<1>3. CASE at[c] = s /\ failures[s] = 0
  BY <1>1, <1>3 DEF CountAt
<1>4. CASE at[c] # s
  <2>1. expiry'[s] = expiry[s]
    BY <1>4 DEF PExpire, IInv, TypeOK
  <2>2. \A d \in Calls : at'[d] = s /\ pc'[d] = "setOpen" => at[d] = s /\ pc[d] = "setOpen"
    BY <1>1, <1>4
  <2> QED BY <1>1, <2>1, <2>2 DEF CountKept, CountAt
<1> QED BY <1>1, <1>2, <1>3, <1>4

LEMMA SetOpenCountKept ==
  ASSUME IInv, CountKept, NEW c \in Calls, SetOpen(c)
  PROVE  CountKept'
<1> SUFFICES ASSUME NEW s \in Stores PROVE CountAt(s)'
  BY DEF CountKept
<1>1. /\ UNCHANGED <<failures, expiry, at>>
      /\ \A d \in Calls : pc'[d] = "setOpen" => pc[d] = "setOpen"
      /\ failures[s] \in Nat /\ CountAt(s) /\ pc[c] = "setOpen"
  BY DEF SetOpen, IInv, TypeOK, CountKept
<1>2. CASE at[c] = s
  <2>1. open'[s] = Cooldown
    BY <1>2 DEF SetOpen, IInv, TypeOK
  <2> QED BY <1>1, <1>2, <2>1 DEF CountAt
<1>3. CASE at[c] # s
  <2>1. open'[s] = open[s]
    BY <1>3 DEF SetOpen, IInv, TypeOK
  <2> QED BY <1>1, <2>1 DEF CountAt
<1> QED BY <1>2, <1>3

LEMMA ClearCountKept ==
  ASSUME IInv, CountKept, NEW c \in Calls, Clear(c)
  PROVE  CountKept'
<1> SUFFICES ASSUME NEW s \in Stores PROVE CountAt(s)'
  BY DEF CountKept
<1>1. CASE at[c] = s
  BY <1>1 DEF Clear, IInv, TypeOK, CountAt
<1>2. CASE at[c] # s
  <2>1. failures'[s] = failures[s] /\ expiry'[s] = expiry[s] /\ open'[s] = open[s]
    BY <1>2 DEF Clear, IInv, TypeOK
  <2>2. \A d \in Calls : pc'[d] = "setOpen" => pc[d] = "setOpen" /\ at'[d] = at[d]
    BY DEF Clear, End, IInv, TypeOK
  <2> QED BY <2>1, <2>2 DEF CountKept, CountAt
<1> QED BY <1>1, <1>2

LEMMA CrashCountKept ==
  ASSUME IInv, CountKept, NEW k \in Containers, Crash(k)
  PROVE  CountKept'
<1> SUFFICES ASSUME NEW s \in Stores PROVE CountAt(s)'
  BY DEF CountKept
<1>1. CASE s = k
  BY <1>1 DEF Crash, IInv, TypeOK, CountAt
<1>2. CASE s # k
  <2>1. failures'[s] = failures[s] /\ expiry'[s] = expiry[s] /\ open'[s] = open[s]
    BY <1>2 DEF Crash, IInv, TypeOK
  <2>2. \A d \in Calls : pc'[d] = "setOpen" => pc[d] = "setOpen" /\ at'[d] = at[d]
    BY DEF Crash
  <2> QED BY <2>1, <2>2 DEF CountKept, CountAt
<1> QED BY <1>1, <1>2

LEMMA TickCountKept == IInv /\ CountKept /\ Tick => CountKept'
<1> SUFFICES ASSUME IInv, CountKept, Tick, NEW s \in Stores PROVE CountAt(s)'
  BY DEF CountKept
<1>1. \A c \in Calls : pc[c] # "setOpen"
  BY DEF Tick
<1>2. CASE open'[s] > 0 /\ failures'[s] > 0
  <2>1. open'[s] = open[s] - 1 /\ failures[s] > 0 /\ expiry[s] # 1
    BY <1>2 DEF Tick, IInv, TypeOK
  <2>2. expiry[s] >= open[s] + Cooldown /\ open[s] > 0
    BY <1>2, <2>1 DEF CountKept, CountAt, IInv, TypeOK
  <2>3. expiry'[s] = expiry[s] \/ expiry'[s] = expiry[s] - 1
    BY DEF Tick, IInv, TypeOK
  <2>4. open[s] \in Nat /\ expiry[s] \in Nat
    BY DEF IInv, TypeOK
  <2> QED BY <1>1, <2>1, <2>2, <2>3, <2>4 DEF CountAt, Tick
<1>3. CASE ~(open'[s] > 0 /\ failures'[s] > 0)
  BY <1>1, <1>3 DEF CountAt, Tick
<1> QED BY <1>2, <1>3

LEMMA NextCountKept == IInv /\ CountKept /\ [Next]_vars => CountKept'
<1> SUFFICES ASSUME IInv, CountKept, [Next]_vars PROVE CountKept'
  OBVIOUS
<1>1. CASE UNCHANGED vars
  BY <1>1, QuietCountKept DEF vars, storeVars, callVars
<1>2. ASSUME NEW c \in Calls,
             \/ Start(c) \/ GetOpen(c) \/ GetFailures(c) \/ SetProbe(c) \/ Acquire(c) \/ Waited(c)
             \/ Answer(c) \/ DelProbe(c) \/ Decide(c) \/ Wake(c) \/ StoreFails(c)
      PROVE  CountKept'
  <2>1. /\ UNCHANGED <<failures, expiry, open>>
        /\ \A d \in Calls : pc'[d] = "setOpen" => d # c
        /\ \A d \in Calls \ {c} : pc'[d] = pc[d] /\ at'[d] = at[d]
    BY <1>2
       DEF Start, GetOpen, GetFailures, SetProbe, Acquire, Waited, Answer, DelProbe, Decide, Wake,
           StoreFails, End, Admit, storeVars, IInv, TypeOK
  <2> QED BY <2>1, QuietCountKept
<1>3. ASSUME NEW c \in Calls, Clear(c) \/ Incr(c) \/ PExpire(c) \/ SetOpen(c) PROVE CountKept'
  BY <1>3, ClearCountKept, IncrCountKept, PExpireCountKept, SetOpenCountKept
<1> QED BY <1>1, <1>2, <1>3, CrashCountKept, TickCountKept DEF Next, Step

-----------------------------------------------------------------------------
(* No store fails and no container dies, every call has a deadline, and    *)
(* the breaker stays open for longer than a call may take.                 *)
ShortCalls ==
  /\ MaxStoreFailures = 0 /\ MaxCrashes = 0
  /\ "job" \notin Modes
  /\ Budget + 1 < Cooldown

(* A step that touches neither the keys nor the probes in flight.          *)
LEMMA QuietProbeInv ==
  ASSUME ProbeInv, Bounded', UNCHANGED <<failures, open, probe>>,
         \A d \in Calls : Opening(d) => Opening(d)',
         \A d \in Probing' : d \in Probing /\ left'[d] = left[d],
         \A d \in Calls : pc'[d] = "delProbe" => pc[d] = "delProbe"
  PROVE  ProbeInv'
<1>1. Tripped' => Tripped
  BY DEF Tripped
<1>2. \A d \in Exposed' : d \in Exposed /\ left'[d] = left[d]
  BY DEF Exposed
<1>3. ProbeKeyHeld'
  BY <1>1, <1>2 DEF ProbeInv, ProbeKeyHeld
<1>4. OpenedJustNow'
  BY <1>1 DEF ProbeInv, OpenedJustNow
<1> QED BY <1>3, <1>4 DEF ProbeInv

(* What the other calls do not notice of a step of c.                      *)
Alone(c) ==
  \A d \in Calls \ {c} :
    pc'[d] = pc[d] /\ left'[d] = left[d] /\ asProbe'[d] = asProbe[d] /\ at'[d] = at[d] /\ mode'[d] = mode[d]

LEMMA EndAlone ==
  ASSUME IInv, Bounded, NEW c \in Calls, End(c)
  PROVE  Alone(c) /\ pc'[c] = "idle" /\ Bounded'
<1>1. /\ Alone(c) /\ pc'[c] = "idle" /\ at'[c] = Redis /\ mode'[c] = "request"
      /\ left'[c] = 0 /\ asProbe'[c] = FALSE
  BY DEF End, IInv, TypeOK, Alone
<1> QED BY <1>1 DEF Alone, Bounded

LEMMA AdmitAlone ==
  ASSUME IInv, Bounded, NEW c \in Calls, NEW b \in BOOLEAN, Admit(c, b)
  PROVE  /\ Alone(c) /\ pc'[c] = "acquire" /\ asProbe'[c] = b /\ left'[c] = left[c] /\ Bounded'
<1>1. /\ Alone(c) /\ pc'[c] = "acquire" /\ at'[c] = Redis /\ UNCHANGED <<mode, left>>
      /\ asProbe'[c] = b
  BY DEF Admit, IInv, TypeOK, Alone
<1> QED BY <1>1 DEF Alone, Bounded

LEMMA GoAlone ==
  ASSUME IInv, Bounded, NEW c \in Calls, pc[c] # "idle", NEW place \in Places, place # "idle",
         Go(c, place), at' = at \/ at' = [at EXCEPT ![c] = Redis], UNCHANGED <<mode, left, asProbe>>
  PROVE  Alone(c) /\ pc'[c] = place /\ Bounded'
<1>1. pc'[c] = place /\ at'[c] = Redis /\ Alone(c)
  BY DEF IInv, TypeOK, Bounded, Alone
<1> QED BY <1>1 DEF Alone, Bounded

(* A step of c alone, from a place to another, neither of which has to do  *)
(* with opening the circuit.                                               *)
LEMMA AloneProbeInv ==
  ASSUME ProbeInv, NEW c \in Calls, Alone(c), Bounded', UNCHANGED <<failures, open, probe>>,
         pc'[c] # "delProbe", Opening(c) => Opening(c)',
         c \in Probing' => c \in Probing /\ left'[c] = left[c]
  PROVE  ProbeInv'
<1>1. \A d \in Calls : Opening(d) => Opening(d)'
  BY DEF Alone, Opening
<1>2. \A d \in Probing' : d \in Probing /\ left'[d] = left[d]
  BY DEF Alone, Probing, Active
<1>3. \A d \in Calls : pc'[d] = "delProbe" => pc[d] = "delProbe"
  BY DEF Alone
<1> QED BY <1>1, <1>2, <1>3, QuietProbeInv

LEMMA StartProbeInv ==
  ASSUME ShortCalls, IInv, ProbeInv, NEW c \in Calls, Start(c)
  PROVE  ProbeInv'
<1>1. PICK m \in Modes, b \in 0..Budget :
        mode' = [mode EXCEPT ![c] = m] /\ left' = [left EXCEPT ![c] = b]
  BY DEF Start
<1>2. /\ Alone(c) /\ pc[c] = "idle" /\ pc'[c] = "getOpen" /\ asProbe'[c] = FALSE
      /\ left'[c] = b /\ mode'[c] = m /\ at'[c] = Redis
  BY <1>1 DEF Start, IInv, TypeOK, Alone, ProbeInv, Bounded
<1>3. Bounded'
  BY <1>2 DEF ShortCalls, Alone, ProbeInv, Bounded
<1> QED
  BY <1>2, <1>3, AloneProbeInv DEF Start, storeVars, Opening, Probing

LEMMA CheckProbeInv ==
  ASSUME IInv, ProbeInv, NEW c \in Calls, GetOpen(c) \/ GetFailures(c)
  PROVE  ProbeInv'
<1>1. UNCHANGED <<failures, open, probe>> /\ pc[c] \in {"getOpen", "getFailures"}
  BY DEF GetOpen, GetFailures, storeVars
<1>2. CASE End(c)
  BY <1>1, <1>2, EndAlone, AloneProbeInv DEF ProbeInv, Opening, Probing, Active
<1>3. CASE Admit(c, FALSE)
  BY <1>1, <1>3, AdmitAlone, AloneProbeInv DEF ProbeInv, Opening, Probing, Active
<1>4. CASE \E place \in {"getFailures", "setProbe"} : Go(c, place) /\ UNCHANGED <<mode, at, left, asProbe>>
  <2>1. PICK place \in {"getFailures", "setProbe"} : Go(c, place) /\ UNCHANGED <<mode, at, left, asProbe>>
    BY <1>4
  <2>2. Alone(c) /\ pc'[c] = place /\ Bounded'
    BY <1>1, <2>1, GoAlone DEF ProbeInv
  <2> QED BY <1>1, <2>1, <2>2, AloneProbeInv DEF Opening, Probing, Active
<1> QED BY <1>2, <1>3, <1>4 DEF GetOpen, GetFailures

(* A probe is let through where there was none, or none that the open key  *)
(* does not outlive.                                                       *)
LEMMA SetProbeProbeInv ==
  ASSUME ShortCalls, IInv, ProbeInv, NEW c \in Calls, SetProbe(c)
  PROVE  ProbeInv'
<1>1. UNCHANGED <<failures, open>> /\ pc[c] = "setProbe" /\ at[c] = Redis
  BY DEF SetProbe, ProbeInv, Bounded
<1>2. CASE End(c) /\ UNCHANGED probe
  BY <1>1, <1>2, EndAlone, AloneProbeInv DEF ProbeInv, Opening, Probing, Active
<1>3. CASE ~(End(c) /\ UNCHANGED probe)
  <2>1. probe[Redis] = 0 /\ probe' = [probe EXCEPT ![Redis] = Cooldown] /\ Admit(c, TRUE)
    BY <1>1, <1>3 DEF SetProbe
  <2>2. Alone(c) /\ pc'[c] = "acquire" /\ left'[c] = left[c] /\ Bounded' /\ probe'[Redis] = Cooldown
    BY <2>1, AdmitAlone DEF ProbeInv, IInv, TypeOK
  <2>3. Tripped' => Tripped
    BY <1>1, <2>2 DEF Tripped, Opening, Alone
  <2>4. Tripped => Exposed = {}
    BY <2>1 DEF ProbeInv, ProbeKeyHeld, Exposed, Probing, IInv, BudgetAt, TypeOK, Active
  <2>5. \A d \in Exposed' : d = c \/ d \in Exposed
    BY <1>1, <2>2 DEF Exposed, Probing, Active, Alone
  <2>6. left[c] <= Budget /\ left[c] \in Int
    BY DEF ProbeInv, Bounded, IInv, TypeOK
  <2>7. ProbeKeyHeld'
    BY <2>2, <2>3, <2>4, <2>5, <2>6 DEF ProbeKeyHeld, ShortCalls
  <2>8. OpenedJustNow'
    BY <1>1, <2>2, <2>3 DEF ProbeInv, OpenedJustNow, Alone
  <2> QED BY <2>2, <2>7, <2>8 DEF ProbeInv
<1> QED BY <1>2, <1>3

(* The loop between the check and the record, which no key hears of.       *)
LEMMA LoopProbeInv ==
  ASSUME IInv, ProbeInv, NEW c \in Calls,
         Acquire(c) \/ Waited(c) \/ Answer(c) \/ Decide(c) \/ Wake(c)
  PROVE  ProbeInv'
<1>1. /\ UNCHANGED <<failures, open, probe>>
      /\ pc[c] \in {"acquire", "wait", "attempt", "decide", "sleep"}
  BY DEF Acquire, Waited, Answer, Decide, Wake, storeVars
<1>2. CASE End(c)
  BY <1>1, <1>2, EndAlone, AloneProbeInv DEF ProbeInv, Opening, Probing, Active
<1>3. CASE ~End(c)
  <2>1. PICK place \in {"acquire", "attempt", "decide", "wait", "clear", "incr", "sleep"} :
          Go(c, place) /\ UNCHANGED <<mode, at, left, asProbe>>
    BY <1>3 DEF Acquire, Waited, Answer, Decide, Wake
  <2>2. Alone(c) /\ pc'[c] = place /\ Bounded'
    BY <1>1, <2>1, GoAlone DEF ProbeInv
  <2> QED BY <1>1, <2>1, <2>2, AloneProbeInv DEF Opening, Probing, Active
<1> QED BY <1>2, <1>3

LEMMA ClearProbeInv ==
  ASSUME IInv, ProbeInv, NEW c \in Calls, Clear(c)
  PROVE  ProbeInv'
<1>1. Bounded'
  BY EndAlone DEF Clear, ProbeInv
<1>2. failures'[Redis] = 0
  BY DEF Clear, ProbeInv, Bounded, IInv, TypeOK
<1> QED BY <1>1, <1>2 DEF ProbeInv, Tripped, ProbeKeyHeld, OpenedJustNow

(* A failure that reaches the threshold is on its way to opening.          *)
LEMMA IncrProbeInv ==
  ASSUME IInv, ProbeInv, NEW c \in Calls, Incr(c)
  PROVE  ProbeInv'
<1> DEFINE n == failures[Redis] + 1
           place == IF n < Threshold THEN "pExpire" ELSE "pExpireAtThreshold"
<1>1. /\ pc[c] = "incr" /\ failures[Redis] \in Nat /\ failures'[Redis] = Lesser(n, Threshold)
      /\ Go(c, place) /\ UNCHANGED <<open, probe, mode, at, left, asProbe>>
  <2>1. at[c] = Redis
    BY DEF ProbeInv, Bounded
  <2> QED BY <2>1 DEF Incr, IInv, TypeOK
<1>2. Bounded' /\ pc'[c] = place
  BY <1>1, GoAlone DEF ProbeInv
<1>3. ~Tripped'
  BY <1>1, <1>2 DEF Tripped, Opening
<1> QED BY <1>2, <1>3 DEF ProbeInv, ProbeKeyHeld, OpenedJustNow

LEMMA PExpireProbeInv ==
  ASSUME IInv, ProbeInv, NEW c \in Calls, PExpire(c)
  PROVE  ProbeInv'
<1>1. UNCHANGED <<failures, open, probe, mode, left, asProbe>>
  BY DEF PExpire
<1>2. CASE pc[c] = "pExpire"
  <2>1. Go(c, "decide") /\ at' = [at EXCEPT ![c] = Redis]
    BY <1>2 DEF PExpire
  <2>2. Alone(c) /\ pc'[c] = "decide" /\ Bounded'
    BY <1>1, <1>2, <2>1, GoAlone DEF ProbeInv
  <2> QED BY <1>1, <1>2, <2>2, AloneProbeInv DEF Opening, Probing, Active
<1>3. CASE pc[c] = "pExpireAtThreshold"
  <2>1. Go(c, "setOpen") /\ UNCHANGED at
    BY <1>3 DEF PExpire
  <2>2. Alone(c) /\ pc'[c] = "setOpen" /\ Bounded'
    BY <1>1, <1>3, <2>1, GoAlone DEF ProbeInv
  <2> QED BY <1>1, <1>3, <2>2, AloneProbeInv DEF Opening, Probing, Active
<1> QED BY <1>2, <1>3 DEF PExpire

(* Opened, the circuit stays so for longer than any probe has left.        *)
LEMMA SetOpenProbeInv ==
  ASSUME ShortCalls, IInv, ProbeInv, NEW c \in Calls, SetOpen(c)
  PROVE  ProbeInv'
<1>1. /\ pc[c] = "setOpen" /\ open'[Redis] = Cooldown /\ Go(c, "delProbe")
      /\ UNCHANGED <<probe, mode, at, left, asProbe>>
  BY DEF SetOpen, ProbeInv, Bounded, IInv, TypeOK
<1>2. Bounded'
  BY <1>1, GoAlone DEF ProbeInv
<1>3. Exposed' = {}
  BY <1>1, <1>2 DEF Exposed, Probing, Bounded, ShortCalls, IInv, TypeOK
<1> QED BY <1>1, <1>2, <1>3 DEF ProbeInv, ProbeKeyHeld, OpenedJustNow

LEMMA DelProbeProbeInv ==
  ASSUME ShortCalls, IInv, ProbeInv, NEW c \in Calls, DelProbe(c)
  PROVE  ProbeInv'
<1>1. /\ pc[c] = "delProbe" /\ Go(c, "decide") /\ at' = [at EXCEPT ![c] = Redis]
      /\ UNCHANGED <<failures, open, mode, left, asProbe>>
  BY DEF DelProbe
<1>2. Alone(c) /\ pc'[c] = "decide" /\ Bounded'
  BY <1>1, GoAlone DEF ProbeInv
<1>3. Tripped' => Tripped
  BY <1>1, <1>2 DEF Tripped, Opening, Alone
<1>4. Tripped' => open'[Redis] = Cooldown
  BY <1>1, <1>3 DEF ProbeInv, OpenedJustNow
<1>5. Tripped' => Exposed' = {}
  BY <1>1, <1>2, <1>4 DEF Exposed, Probing, Bounded, ShortCalls, IInv, TypeOK
<1> QED BY <1>2, <1>4, <1>5 DEF ProbeInv, ProbeKeyHeld, OpenedJustNow

(* The keys lapse no sooner than the probes' budgets.                      *)
LEMMA TickProbeInv ==
  ASSUME IInv, ProbeInv, Tick
  PROVE  ProbeInv'
<1>1. UNCHANGED <<pc, mode, at, asProbe>> /\ \A c \in Calls : ~Opening(c) /\ pc[c] # "delProbe"
  BY DEF Tick, Opening
<1>2. \A c \in Calls : Active(c) => left'[c] = left[c] - 1
  BY DEF Tick, ProbeInv, Bounded, Active
<1>3. \A c \in Calls : left'[c] <= left[c]
  BY DEF Tick, IInv, TypeOK
<1>4. Bounded'
  BY <1>1, <1>3 DEF ProbeInv, Bounded, Tick, IInv, TypeOK
<1>5. Tripped' => Tripped
  BY <1>1 DEF Tripped, Tick, IInv, TypeOK
<1>6. /\ open[Redis] \in Nat /\ open'[Redis] = Greater(0, open[Redis] - 1)
      /\ probe[Redis] \in Nat /\ probe'[Redis] = Greater(0, probe[Redis] - 1)
  BY DEF Tick, IInv, TypeOK
<1>7. \A d \in Probing : left[d] \in Int /\ left[d] >= -1 /\ left'[d] = left[d] - 1 /\ left'[d] >= -1
  BY <1>2, TickIInv DEF Probing, Active, IInv, TypeOK, BudgetAt, Tick
<1>8. \A d \in Exposed' : d \in Exposed
  <2> SUFFICES ASSUME NEW d \in Exposed' PROVE d \in Exposed
    OBVIOUS
  <2>1. d \in Probing
    BY <1>1 DEF Exposed, Probing, Active
  <2>2. open'[Redis] <= left'[d] + 1
    BY DEF Exposed
  <2>3. open[Redis] <= left[d] + 1
    BY <1>6, <1>7, <2>1, <2>2
  <2> QED BY <2>1, <2>3 DEF Exposed
<1>9. ProbeKeyHeld'
  <2> SUFFICES ASSUME Tripped', NEW c \in Exposed'
               PROVE  probe'[Redis] > left'[c] + 1 /\ \A d \in Exposed' : d = c
    BY DEF ProbeKeyHeld
  <2>1. probe[Redis] > left[c] + 1 /\ \A d \in Exposed' : d = c
    BY <1>5, <1>8 DEF ProbeInv, ProbeKeyHeld
  <2>2. c \in Probing
    BY <1>8 DEF Exposed
  <2> QED BY <1>6, <1>7, <2>1, <2>2
<1>10. OpenedJustNow'
  BY <1>1 DEF OpenedJustNow
<1> QED BY <1>4, <1>9, <1>10 DEF ProbeInv

LEMMA NextProbeInv ==
  ASSUME ShortCalls
  PROVE  IInv /\ ProbeInv /\ [Next]_vars => ProbeInv'
<1> SUFFICES ASSUME IInv, ProbeInv, [Next]_vars PROVE ProbeInv'
  OBVIOUS
<1>1. CASE UNCHANGED vars
  <2>1. Bounded' /\ UNCHANGED <<failures, open, probe, pc, left, asProbe>>
    BY <1>1 DEF vars, storeVars, callVars, ProbeInv, Bounded
  <2> QED BY <2>1, QuietProbeInv DEF Opening, Probing, Active
<1>2. ASSUME NEW c \in Calls, Start(c) \/ Step(c) PROVE ProbeInv'
  BY <1>2, StartProbeInv, CheckProbeInv, SetProbeProbeInv, LoopProbeInv, ClearProbeInv,
     IncrProbeInv, PExpireProbeInv, SetOpenProbeInv, DelProbeProbeInv DEF Step
<1>3. ~(\E c \in Calls : StoreFails(c)) /\ ~(\E k \in Containers : Crash(k))
  BY DEF ShortCalls, StoreFails, Crash, IInv, TypeOK
<1> QED BY <1>1, <1>2, <1>3, TickProbeInv DEF Next

(* However the store fails and containers die, an open circuit whose count *)
(* stands at the threshold lapses into half-open and never into closed:    *)
(* the count has a cooldown left when `:open` has none (recordFailure).    *)
THEOREM CountOutlivesOpen == Spec => []OpenLapsesIntoHalfOpen
<1>1. Init => CountKept
  BY DEF Init, CountKept, CountAt
<1>2. IInv /\ CountKept => OpenLapsesIntoHalfOpen
  BY DEF IInv, TypeOK, CountKept, CountAt, OpenLapsesIntoHalfOpen
<1> QED BY <1>1, <1>2, InitIInv, NextIInv, NextCountKept, PTL DEF Spec

(* And from half-open the traffic comes back through one probe, for any    *)
(* number of calls and containers, as long as no store fails, no container *)
(* dies, and the cooldown is longer than a call (check, recordFailure).    *)
THEOREM OneProbeReopens ==
  ASSUME ShortCalls
  PROVE  Spec => []ReopensThroughOneProbe
<1>1. Init => CountKept /\ ProbeInv
  BY DEF Init, CountKept, CountAt, ProbeInv, Bounded, Probing, Active, Exposed, Tripped,
         ProbeKeyHeld, OpenedJustNow
<1>2. IInv /\ CountKept => OpenLapsesIntoHalfOpen
  BY DEF IInv, TypeOK, CountKept, CountAt, OpenLapsesIntoHalfOpen
<1>3. IInv /\ ProbeInv => OneProbeWhileHalfOpen
  <2> SUFFICES ASSUME IInv, ProbeInv, HalfOpen(Redis) PROVE Cardinality(Probing) <= 1
    BY DEF OneProbeWhileHalfOpen
  <2>1. Tripped
    BY DEF HalfOpen, Tripped, Opening, ProbeInv, Bounded
  <2>2. Probing \subseteq Exposed
    BY DEF HalfOpen, Probing, Exposed, Active, IInv, BudgetAt, TypeOK
  <2>3. \A c, d \in Probing : c = d
    BY <2>1, <2>2 DEF ProbeInv, ProbeKeyHeld
  <2>4. CASE Probing = {}
    <3>1. Cardinality(Probing) = 0
      BY <2>4, FS_EmptySet
    <3> QED BY <3>1
  <2>5. CASE Probing # {}
    <3>1. PICK c : Probing = {c}
      BY <2>3, <2>5
    <3>2. Cardinality(Probing) = 1
      BY <3>1, FS_Singleton
    <3> QED BY <3>2
  <2> QED BY <2>4, <2>5
<1>4. IInv /\ CountKept /\ ProbeInv => ReopensThroughOneProbe
  BY <1>2, <1>3 DEF ReopensThroughOneProbe
<1> QED BY <1>1, <1>4, InitIInv, NextIInv, NextCountKept, NextProbeInv, PTL DEF Spec
=============================================================================
