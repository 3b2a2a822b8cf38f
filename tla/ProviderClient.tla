--------------------------- MODULE ProviderClient ---------------------------
(***************************************************************************)
(* The one door to an upstream provider: `providerCall` with its request   *)
(* budget, the circuit breaker whose keys live in Redis, the wait for a    *)
(* shared rate-limit token, the timeout and the retry loop.                *)
(*                                                                         *)
(* Several calls, in several containers, share the breaker of one          *)
(* provider and environment.  Every `await` on the store is a step of its  *)
(* own, so that the calls interleave exactly where the code yields.  Time  *)
(* is a tick, long against a store round trip; timers fire when they are   *)
(* due.  A slot of Calls is reused once its call has ended.                *)
(***************************************************************************)
EXTENDS Integers, FiniteSets

CONSTANTS
  Calls,          \* slots for concurrent calls of providerCall
  Containers,     \* processes; each has a fallback store of its own
  Home,           \* the container a slot runs in
  Redis,          \* the shared store
  Modes,          \* which kinds of call are made, a subset of AllModes
  Threshold,      \* profile.breaker.failures
  Cooldown,       \* profile.breaker.cooldownMs, in ticks
  Budget,         \* budgetMs(), in ticks
  Timeout,        \* profile.timeoutMs, in ticks
  MaxAttempts,    \* profile.retry.maxAttempts
  MaxWait,        \* MAX_WAIT_MS of the limiter, in ticks
  Waits,          \* waits the token bucket can ask for
  Delays,         \* backoffs and Retry-After delays that can occur
  MaxStoreFailures, MaxCrashes   \* bounds on the faults of a behaviour

AllModes == {"request", "noWait", "job"}

ASSUME CallsAssumption      == IsFiniteSet(Calls) /\ Home \in [Calls -> Containers]
ASSUME RedisAssumption      == Redis \notin Containers
ASSUME ModesAssumption      == Modes \subseteq AllModes
ASSUME ThresholdAssumption  == Threshold \in Nat \ {0}
ASSUME TimesAssumption      == /\ Cooldown \in Nat \ {0}
                               /\ Budget \in Nat \ {0}
                               /\ Timeout \in Nat \ {0}
                               /\ MaxWait \in Nat
ASSUME WaitsAssumption      == Waits \subseteq Nat \ {0} /\ Delays \subseteq Nat
ASSUME AttemptsAssumption   == MaxAttempts \in Nat \ {0}
ASSUME FaultsAssumption     == MaxStoreFailures \in Nat /\ MaxCrashes \in Nat

Stores   == Containers \union {Redis}
NoExpiry == 2 * Cooldown + 1      \* a key that INCR made and nothing expires yet

(***************************************************************************)
(* Where a call stands.  The names in Breaker are awaits on the store; the *)
(* two pExpire places remember what the INCR before them returned.         *)
(***************************************************************************)
CheckSteps   == {"getOpen", "getFailures", "setProbe"}
SuccessSteps == {"clear"}
FailureSteps == {"incr", "pExpire", "pExpireAtThreshold", "setOpen", "delProbe"}
Breaker      == CheckSteps \union SuccessSteps \union FailureSteps
Timed        == {"wait", "attempt", "sleep"}
Places       == {"idle", "acquire", "decide"} \union Breaker \union Timed

(* What the last attempt came to: `outage` is a 5xx, a network error or a  *)
(* timeout; `refused` is an error of our own limiter, with an errorCode.   *)
Results == {"none", "ok", "outage", "throttled", "clientError", "refused"}

VARIABLES
  failures, expiry,  \* the `:failures` key (value saturates at Threshold) and its TTL
  open, probe,       \* TTL left of `:open` and `:probe`, 0 when absent
  pc, mode, at,      \* per call: place, kind, and the store it is talking to
  retries, result,   \* per call: `retries`, class of the last error
  left,              \* per call: remainingMs(locals)
  timer, waited,     \* per call: the timer it awaits; what acquire has waited
  asProbe,           \* per call: it was let through as a half-open probe
  storeFailures, crashes   \* faults so far

storeVars == <<failures, expiry, open, probe>>
callVars  == <<pc, mode, at, retries, result, left, timer, waited, asProbe>>
faultVars == <<storeFailures, crashes>>
vars      == <<storeVars, callVars, faultVars>>

Lesser(a, b)  == IF a < b THEN a ELSE b
Greater(a, b) == IF a > b THEN a ELSE b

TypeOK ==
  /\ failures \in [Stores -> 0..Threshold]
  /\ expiry \in [Stores -> 0..NoExpiry]
  /\ open \in [Stores -> 0..Cooldown]
  /\ probe \in [Stores -> 0..Cooldown]
  /\ pc \in [Calls -> Places]
  /\ mode \in [Calls -> AllModes]
  /\ at \in [Calls -> Stores]
  /\ retries \in [Calls -> Nat]
  /\ result \in [Calls -> Results]
  /\ left \in [Calls -> Int]
  /\ timer \in [Calls -> Nat]
  /\ waited \in [Calls -> Nat]
  /\ asProbe \in [Calls -> BOOLEAN]
  /\ storeFailures \in 0..MaxStoreFailures
  /\ crashes \in 0..MaxCrashes

Init ==
  /\ failures = [s \in Stores |-> 0]
  /\ expiry = [s \in Stores |-> 0]
  /\ open = [s \in Stores |-> 0]
  /\ probe = [s \in Stores |-> 0]
  /\ pc = [c \in Calls |-> "idle"]
  /\ mode = [c \in Calls |-> "request"]
  /\ at = [c \in Calls |-> Redis]
  /\ retries = [c \in Calls |-> 0]
  /\ result = [c \in Calls |-> "none"]
  /\ left = [c \in Calls |-> 0]
  /\ timer = [c \in Calls |-> 0]
  /\ waited = [c \in Calls |-> 0]
  /\ asProbe = [c \in Calls |-> FALSE]
  /\ storeFailures = 0
  /\ crashes = 0

-----------------------------------------------------------------------------
Go(c, place) == pc' = [pc EXCEPT ![c] = place]

(* The call returns or throws: its slot forgets everything.                *)
End(c) ==
  /\ Go(c, "idle")
  /\ mode' = [mode EXCEPT ![c] = "request"]
  /\ at' = [at EXCEPT ![c] = Redis]
  /\ retries' = [retries EXCEPT ![c] = 0]
  /\ result' = [result EXCEPT ![c] = "none"]
  /\ left' = [left EXCEPT ![c] = 0]
  /\ timer' = [timer EXCEPT ![c] = 0]
  /\ waited' = [waited EXCEPT ![c] = 0]
  /\ asProbe' = [asProbe EXCEPT ![c] = FALSE]

(* providerCall up to its first await.  A request may arrive with part of  *)
(* its budget spent; assertBudget throws when nothing is left.  A job has  *)
(* no deadline, so remainingMs is the whole budget whenever it is asked.   *)
Start(c) ==
  /\ pc[c] = "idle"
  /\ \E m \in Modes, b \in 0..Budget :
       /\ b > 0
       /\ m = "job" => b = Budget
       /\ mode' = [mode EXCEPT ![c] = m]
       /\ left' = [left EXCEPT ![c] = b]
  /\ Go(c, "getOpen")
  /\ UNCHANGED <<storeVars, at, retries, result, timer, waited, asProbe, faultVars>>

(* Wrong on purpose: reading the open key renews it, like the count.       *)
GetOpenRenewing(c) ==
  /\ pc[c] = "getOpen"
  /\ \/ /\ open[at[c]] > 0
        /\ open' = [open EXCEPT ![at[c]] = 2 * Cooldown]
        /\ End(c)
     \/ /\ open[at[c]] = 0
        /\ Go(c, "getFailures")
        /\ UNCHANGED <<open, mode, at, retries, result, left, timer, waited, asProbe>>
  /\ UNCHANGED <<failures, expiry, probe, faultVars>>

(* breaker.check: GET open; GET failures; SET probe NX PX.                 *)
GetOpen(c) ==
  /\ pc[c] = "getOpen"
  /\ \/ /\ open[at[c]] > 0
        /\ End(c)
     \/ /\ open[at[c]] = 0
        /\ Go(c, "getFailures")
        /\ UNCHANGED <<mode, at, retries, result, left, timer, waited, asProbe>>
  /\ UNCHANGED <<storeVars, faultVars>>

(* Past the check: the fallback store is forgotten, the loop begins.       *)
Admit(c, probing) ==
  /\ Go(c, "acquire")
  /\ at' = [at EXCEPT ![c] = Redis]
  /\ asProbe' = [asProbe EXCEPT ![c] = probing]
  /\ UNCHANGED <<mode, retries, result, left, timer, waited>>

GetFailures(c) ==
  /\ pc[c] = "getFailures"
  /\ \/ /\ failures[at[c]] < Threshold
        /\ Admit(c, FALSE)
     \/ /\ failures[at[c]] >= Threshold
        /\ Go(c, "setProbe")
        /\ UNCHANGED <<mode, at, retries, result, left, timer, waited, asProbe>>
  /\ UNCHANGED <<storeVars, faultVars>>

(* Wrong on purpose: the probe is claimed without NX.                      *)
SetProbeWithoutNX(c) ==
  /\ pc[c] = "setProbe"
  /\ probe' = [probe EXCEPT ![at[c]] = Cooldown]
  /\ Admit(c, TRUE)
  /\ UNCHANGED <<failures, expiry, open, faultVars>>

SetProbe(c) ==
  /\ pc[c] = "setProbe"
  /\ \/ /\ probe[at[c]] = 0
        /\ probe' = [probe EXCEPT ![at[c]] = Cooldown]
        /\ Admit(c, TRUE)
     \/ /\ probe[at[c]] > 0
        /\ UNCHANGED probe
        /\ End(c)
  /\ UNCHANGED <<failures, expiry, open, faultVars>>

(* One round of limiter.acquire.  A noWait call passes maxWaitMs 0.  The   *)
(* timeout of the attempt is the profile's, never past the budget, never 0.*)
WaitWindow(c) == IF mode[c] = "noWait" THEN 0 ELSE MaxWait

Acquire(c) ==
  /\ pc[c] = "acquire"
  /\ \/ /\ Go(c, "attempt")
        /\ timer' = [timer EXCEPT ![c] = Greater(1, Lesser(Timeout, left[c]))]
        /\ waited' = [waited EXCEPT ![c] = 0]
        /\ UNCHANGED result
     \/ \E w \in Waits :
          \/ /\ waited[c] + w > Lesser(WaitWindow(c), left[c])
             /\ Go(c, "decide")
             /\ result' = [result EXCEPT ![c] = "refused"]
             /\ waited' = [waited EXCEPT ![c] = 0]
             /\ UNCHANGED timer
          \/ /\ waited[c] + w <= Lesser(WaitWindow(c), left[c])
             /\ Go(c, "wait")
             /\ timer' = [timer EXCEPT ![c] = w]
             /\ waited' = [waited EXCEPT ![c] = waited[c] + w]
             /\ UNCHANGED result
  /\ UNCHANGED <<storeVars, mode, at, retries, left, asProbe, faultVars>>

Waited(c) ==
  /\ pc[c] = "wait"
  /\ timer[c] = 0
  /\ Go(c, "acquire")
  /\ UNCHANGED <<storeVars, mode, at, retries, result, left, timer, waited, asProbe, faultVars>>

(* fn settles: countsAsOutage decides whether the breaker hears of it.     *)
Answer(c) ==
  /\ pc[c] = "attempt"
  /\ \E r \in {"ok", "outage", "throttled", "clientError"} :
       /\ timer[c] = 0 => r = "outage"       \* the signal aborted the socket
       /\ result' = [result EXCEPT ![c] = r]
       /\ Go(c, CASE r = "ok"     -> "clear"
                  [] r = "outage" -> "incr"
                  [] OTHER        -> "decide")
  /\ timer' = [timer EXCEPT ![c] = 0]
  /\ UNCHANGED <<storeVars, mode, at, retries, left, waited, asProbe, faultVars>>

(* breaker.recordSuccess: one DEL of the three keys, and the call returns. *)
Clear(c) ==
  /\ pc[c] = "clear"
  /\ failures' = [failures EXCEPT ![at[c]] = 0]
  /\ expiry' = [expiry EXCEPT ![at[c]] = 0]
  /\ open' = [open EXCEPT ![at[c]] = 0]
  /\ probe' = [probe EXCEPT ![at[c]] = 0]
  /\ End(c)
  /\ UNCHANGED faultVars

(* breaker.recordFailure: INCR; PEXPIRE; at the threshold SET open PX and  *)
(* DEL probe.  A key that INCR makes has no expiry until the PEXPIRE.      *)
Incr(c) ==
  /\ pc[c] = "incr"
  /\ LET n == failures[at[c]] + 1 IN
       /\ failures' = [failures EXCEPT ![at[c]] = Lesser(n, Threshold)]
       /\ expiry' = IF failures[at[c]] = 0
                    THEN [expiry EXCEPT ![at[c]] = NoExpiry] ELSE expiry
       /\ Go(c, IF n < Threshold THEN "pExpire" ELSE "pExpireAtThreshold")
  /\ UNCHANGED <<open, probe, mode, at, retries, result, left, timer, waited, asProbe, faultVars>>

(* Wrong on purpose: the count lives no longer than the open key.          *)
PExpireOneCooldown(c) ==
  /\ pc[c] \in {"pExpire", "pExpireAtThreshold"}
  /\ expiry' = IF failures[at[c]] > 0
               THEN [expiry EXCEPT ![at[c]] = Cooldown] ELSE expiry
  /\ Go(c, IF pc[c] = "pExpire" THEN "decide" ELSE "setOpen")
  /\ at' = IF pc[c] = "pExpire" THEN [at EXCEPT ![c] = Redis] ELSE at
  /\ UNCHANGED <<failures, open, probe, mode, retries, result, left, timer, waited, asProbe, faultVars>>

PExpire(c) ==
  /\ pc[c] \in {"pExpire", "pExpireAtThreshold"}
  /\ expiry' = IF failures[at[c]] > 0
               THEN [expiry EXCEPT ![at[c]] = 2 * Cooldown] ELSE expiry
  /\ \/ /\ pc[c] = "pExpire"
        /\ Go(c, "decide")
        /\ at' = [at EXCEPT ![c] = Redis]
     \/ /\ pc[c] = "pExpireAtThreshold"
        /\ Go(c, "setOpen")
        /\ UNCHANGED at
  /\ UNCHANGED <<failures, open, probe, mode, retries, result, left, timer, waited, asProbe, faultVars>>

SetOpen(c) ==
  /\ pc[c] = "setOpen"
  /\ open' = [open EXCEPT ![at[c]] = Cooldown]
  /\ Go(c, "delProbe")
  /\ UNCHANGED <<failures, expiry, probe, mode, at, retries, result, left, timer, waited, asProbe, faultVars>>

DelProbe(c) ==
  /\ pc[c] = "delProbe"
  /\ probe' = [probe EXCEPT ![at[c]] = 0]
  /\ Go(c, "decide")
  /\ at' = [at EXCEPT ![c] = Redis]
  /\ UNCHANGED <<failures, expiry, open, mode, retries, result, left, timer, waited, asProbe, faultVars>>

(* Wrong on purpose: maxAttempts counts the retries.                       *)
CanRetryOnceMore(c) ==
  /\ mode[c] # "noWait"
  /\ result[c] \in {"outage", "throttled"}
  /\ retries[c] < MaxAttempts

(* The catch block: retry only a retryable error of the provider's, with   *)
(* attempts left, and only when the sleep ends before the budget does.     *)
CanRetry(c) ==
  /\ mode[c] # "noWait"
  /\ result[c] \in {"outage", "throttled"}
  /\ retries[c] + 1 < MaxAttempts

(* Wrong on purpose: the backoff is slept whatever is left of the budget.  *)
DecideBlindly(c) ==
  /\ pc[c] = "decide"
  /\ \/ /\ CanRetry(c)
        /\ Go(c, "sleep")
        /\ \E d \in Delays : timer' = [timer EXCEPT ![c] = d]
        /\ UNCHANGED <<mode, at, retries, result, left, waited, asProbe>>
     \/ ~CanRetry(c) /\ End(c)
  /\ UNCHANGED <<storeVars, faultVars>>

Decide(c) ==
  /\ pc[c] = "decide"
  /\ \E d \in Delays :
       \/ /\ CanRetry(c) /\ d < left[c]
          /\ Go(c, "sleep")
          /\ timer' = [timer EXCEPT ![c] = d]
          /\ UNCHANGED <<mode, at, retries, result, left, waited, asProbe>>
       \/ /\ ~(CanRetry(c) /\ d < left[c])
          /\ End(c)
  /\ UNCHANGED <<storeVars, faultVars>>

(* Wrong on purpose: the loop forgets to count its retries.                *)
WakeUncounted(c) ==
  /\ pc[c] = "sleep"
  /\ timer[c] = 0
  /\ Go(c, "acquire")
  /\ result' = [result EXCEPT ![c] = "none"]
  /\ UNCHANGED <<storeVars, mode, at, retries, left, timer, waited, asProbe, faultVars>>

Wake(c) ==
  /\ pc[c] = "sleep"
  /\ timer[c] = 0
  /\ Go(c, "acquire")
  /\ retries' = [retries EXCEPT ![c] = @ + 1]
  /\ result' = [result EXCEPT ![c] = "none"]
  /\ UNCHANGED <<storeVars, mode, at, left, timer, waited, asProbe, faultVars>>

(* withStore: a command that Redis fails restarts the whole operation on   *)
(* the container's MemoryStore.                                            *)
StoreFails(c) ==
  /\ pc[c] \in Breaker
  /\ at[c] = Redis
  /\ storeFailures < MaxStoreFailures
  /\ storeFailures' = storeFailures + 1
  /\ at' = [at EXCEPT ![c] = Home[c]]
  /\ Go(c, CASE pc[c] \in CheckSteps   -> "getOpen"
             [] pc[c] \in SuccessSteps -> "clear"
             [] pc[c] \in FailureSteps -> "incr")
  /\ UNCHANGED <<storeVars, mode, retries, result, left, timer, waited, asProbe, crashes>>

(* A container is killed between two awaits: its calls are gone and so is  *)
(* its MemoryStore; Redis keeps what they had written.                     *)
Crash(k) ==
  LET dead == {c \in Calls : Home[c] = k} IN
  /\ crashes < MaxCrashes
  /\ \E c \in dead : pc[c] # "idle"
  /\ crashes' = crashes + 1
  /\ failures' = [failures EXCEPT ![k] = 0]
  /\ expiry' = [expiry EXCEPT ![k] = 0]
  /\ open' = [open EXCEPT ![k] = 0]
  /\ probe' = [probe EXCEPT ![k] = 0]
  /\ pc' = [c \in Calls |-> IF c \in dead THEN "idle" ELSE pc[c]]
  /\ mode' = [c \in Calls |-> IF c \in dead THEN "request" ELSE mode[c]]
  /\ at' = [c \in Calls |-> IF c \in dead THEN Redis ELSE at[c]]
  /\ retries' = [c \in Calls |-> IF c \in dead THEN 0 ELSE retries[c]]
  /\ result' = [c \in Calls |-> IF c \in dead THEN "none" ELSE result[c]]
  /\ left' = [c \in Calls |-> IF c \in dead THEN 0 ELSE left[c]]
  /\ timer' = [c \in Calls |-> IF c \in dead THEN 0 ELSE timer[c]]
  /\ waited' = [c \in Calls |-> IF c \in dead THEN 0 ELSE waited[c]]
  /\ asProbe' = [c \in Calls |-> IF c \in dead THEN FALSE ELSE asProbe[c]]
  /\ UNCHANGED storeFailures

(* One tick of every clock.  No store round trip and no synchronous code   *)
(* takes a tick, and a timer that is due fires before time goes on.        *)
Tick ==
  /\ \A c \in Calls : \/ pc[c] = "idle"
                      \/ pc[c] \in Timed /\ timer[c] > 0
  /\ expiry' = [s \in Stores |-> IF expiry[s] \in {0, NoExpiry}
                                 THEN expiry[s] ELSE expiry[s] - 1]
  /\ failures' = [s \in Stores |-> IF expiry[s] = 1 THEN 0 ELSE failures[s]]
  /\ open' = [s \in Stores |-> Greater(0, open[s] - 1)]
  /\ probe' = [s \in Stores |-> Greater(0, probe[s] - 1)]
  /\ timer' = [c \in Calls |-> Greater(0, timer[c] - 1)]
  /\ left' = [c \in Calls |-> IF pc[c] = "idle" \/ mode[c] = "job"
                              THEN left[c] ELSE left[c] - 1]
  /\ UNCHANGED <<pc, mode, at, retries, result, waited, asProbe, faultVars>>

Step(c) ==
  \/ GetOpen(c) \/ GetFailures(c) \/ SetProbe(c)
  \/ Acquire(c) \/ Waited(c) \/ Answer(c)
  \/ Clear(c) \/ Incr(c) \/ PExpire(c) \/ SetOpen(c) \/ DelProbe(c)
  \/ Decide(c) \/ Wake(c)

Next ==
  \/ \E c \in Calls : Start(c) \/ Step(c) \/ StoreFails(c)
  \/ \E k \in Containers : Crash(k)
  \/ Tick

(* The event loop resumes every call whose await has settled, and time     *)
(* passes however busy the calls are: calls that come and go within one    *)
(* instant for ever are not a behaviour of the clock.                      *)
Fairness == []<><<Tick>>_vars /\ \A c \in Calls : WF_vars(Step(c))

Spec == Init /\ [][Next]_vars /\ Fairness

-----------------------------------------------------------------------------
Active(c) == pc[c] # "idle"

(* No call runs past its request's deadline by more than the one tick of   *)
(* the shortest timeout, whatever the limiter's waits, the attempts and    *)
(* the backoffs add up to; and a sleeping call wakes inside its budget.    *)
WithinBudget ==
  \A c \in Calls : Active(c) =>
    /\ left[c] >= -1
    /\ pc[c] = "sleep" => timer[c] < left[c]

(* No call makes more attempts than its profile allows, and a noWait call  *)
(* neither retries nor waits for a token.                                  *)
BoundedAttempts ==
  \A c \in Calls :
    /\ retries[c] < MaxAttempts
    /\ mode[c] = "noWait" => retries[c] = 0 /\ waited[c] = 0

(* A circuit is half-open when `:open` has lapsed, the count still stands  *)
(* at the threshold, and no failure is on its way to opening it again.     *)
HalfOpen(s) ==
  /\ open[s] = 0
  /\ failures[s] >= Threshold
  /\ ~ \E c \in Calls : at[c] = s /\ pc[c] \in {"pExpireAtThreshold", "setOpen"}

Probing == {c \in Calls : Active(c) /\ asProbe[c]}

(* While the circuit is half-open, at most one probe is in flight.         *)
OneProbeWhileHalfOpen == HalfOpen(Redis) => Cardinality(Probing) <= 1

(* An open circuit whose count is still at the threshold keeps the count   *)
(* for at least a cooldown longer: when `:open` lapses the circuit is      *)
(* half-open, and the waiting traffic is not let in all at once.           *)
OpenLapsesIntoHalfOpen ==
  \A s \in Stores :
    open[s] > 0 /\ failures[s] >= Threshold => expiry[s] >= open[s] + Cooldown

(* An open circuit lets traffic in again through one probe (check,         *)
(* recordFailure).                                                         *)
ReopensThroughOneProbe == OpenLapsesIntoHalfOpen /\ OneProbeWhileHalfOpen

(* Every call ends: the retry loop, the limiter's loop and the upstream    *)
(* together never hold a caller for ever.                                  *)
EveryCallEnds == \A c \in Calls : Active(c) ~> ~Active(c)

(* The check refuses every new call.                                       *)
Shut(s) == open[s] > 0 \/ (failures[s] >= Threshold /\ probe[s] > 0)

(* The breaker heals by itself: once no attempt fails as an outage any     *)
(* more and the count has its expiry, the circuit stops refusing for good, *)
(* even when no call ever succeeds.                                        *)
HealsByItself ==
  <>[](expiry[Redis] # NoExpiry /\ \A c \in Calls : pc[c] # "incr")
    => <>[](~Shut(Redis))
=============================================================================
