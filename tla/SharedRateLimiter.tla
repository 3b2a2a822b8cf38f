------------------------- MODULE SharedRateLimiter -------------------------
(***************************************************************************)
(* The token bucket of one provider, shared by every container through one *)
(* Redis hash that a Lua script reads and writes atomically, and the loop  *)
(* of `acquire` around it.  A container passes its own clock, which may be *)
(* ahead of the true time by up to Spread (a skewed clock, or the time the *)
(* command spent in flight).  When Redis fails a container falls back to   *)
(* its in-process RateLimiter.                                             *)
(*                                                                         *)
(* Tokens are counted in units, One to a token; Refill units a tick.       *)
(***************************************************************************)
EXTENDS Integers, FiniteSets

CONSTANTS
  Callers,            \* slots for concurrent calls of acquire
  Processes, HomeOf,  \* the containers, and that of each slot
  One, Refill, Burst, \* a token, profile.rps and profile.burst, in units
  KeyTtl,             \* KEY_TTL_MS, in ticks
  MaxWaitMs,          \* MAX_WAIT_MS, in ticks
  Budgets,            \* what remainingMs may be when acquire is called
  Spread,             \* how far a clock may be ahead
  MaxNow,             \* bound on the true time
  MaxRedisFailures    \* bound on Redis failures

ASSUME CallersAssumption      == HomeOf \in [Callers -> Processes]
ASSUME UnitsAssumption        == /\ One \in Nat \ {0}
                                 /\ Refill \in Nat \ {0}
                                 /\ Burst \in Nat /\ Burst >= One
ASSUME LimiterTimesAssumption == /\ KeyTtl \in Nat \ {0} /\ MaxWaitMs \in Nat
                                 /\ Budgets \subseteq Int
                                 /\ Spread \in Nat /\ MaxNow \in Nat
                                 /\ MaxRedisFailures \in Nat

VARIABLES
  now,                 \* the true time
  tokens, ts, ttl,     \* the Redis hash, and the TTL left of its key (0: absent)
  localTokens, localTs, localUsed,   \* each container's RateLimiter, once made
  granted,             \* tokens taken from the shared bucket so far
  localGranted,        \* tokens taken from each container's own
  place, window, remaining, slept, asleep,   \* per call of acquire
  redisFailures

bucketVars  == <<tokens, ts, ttl, granted>>
localVars   == <<localTokens, localTs, localUsed, localGranted>>
acquireVars == <<place, window, remaining, slept, asleep>>
limiterVars == <<now, bucketVars, localVars, acquireVars, redisFailures>>

MinOf(a, b) == IF a < b THEN a ELSE b

(* Wrong on purpose: no guard against an older clock.                      *)
StampBack(s, n) == n

(* What a bucket of t units, last refilled at s, holds at time n.          *)
Refilled(t, s, n) == IF n > s THEN MinOf(Burst, t + (n - s) * Refill) ELSE t
Stamp(s, n)       == IF n > s THEN n ELSE s

(* Wrong on purpose: the window starts anew whenever time has passed.      *)
LocalRefilledWhole(t, s, n) == IF n > s THEN Burst ELSE t

(* RateLimiter.refill has no guard against a clock that went back.         *)
LocalRefilled(t, s, n) == MinOf(Burst, t + (n - s) * Refill)

(* Ticks until the bucket holds a token: math.ceil((1 - tokens) / rps).    *)
WaitFor(t) == (One - t + Refill - 1) \div Refill

Clocks == now..(now + Spread)

LimiterTyped ==
  /\ now \in 0..MaxNow
  /\ tokens \in 0..Burst /\ ts \in Nat /\ ttl \in 0..KeyTtl
  /\ localTokens \in [Processes -> Int]
  /\ localTs \in [Processes -> Nat]
  /\ localUsed \in [Processes -> BOOLEAN]
  /\ granted \in Nat /\ localGranted \in [Processes -> Nat]
  /\ place \in [Callers -> {"idle", "try", "sleep"}]
  /\ window \in [Callers -> {0, MaxWaitMs}]
  /\ remaining \in [Callers -> Int]
  /\ slept \in [Callers -> Nat]
  /\ asleep \in [Callers -> Nat]
  /\ redisFailures \in 0..MaxRedisFailures

LimiterInit ==
  /\ now = 0
  /\ tokens = 0 /\ ts = 0 /\ ttl = 0
  /\ localTokens = [k \in Processes |-> 0]
  /\ localTs = [k \in Processes |-> 0]
  /\ localUsed = [k \in Processes |-> FALSE]
  /\ granted = 0 /\ localGranted = [k \in Processes |-> 0]
  /\ place = [c \in Callers |-> "idle"]
  /\ window = [c \in Callers |-> 0]
  /\ remaining = [c \in Callers |-> 0]
  /\ slept = [c \in Callers |-> 0]
  /\ asleep = [c \in Callers |-> 0]
  /\ redisFailures = 0

-----------------------------------------------------------------------------
(* acquire is called, with maxWaitMs 0 or MAX_WAIT_MS.                     *)
AcquireCalled(c) ==
  /\ place[c] = "idle"
  /\ place' = [place EXCEPT ![c] = "try"]
  /\ \E w \in {0, MaxWaitMs}, b \in Budgets :
       window' = [window EXCEPT ![c] = w] /\ remaining' = [remaining EXCEPT ![c] = b]
  /\ UNCHANGED <<now, bucketVars, localVars, slept, asleep, redisFailures>>

(* acquire returns or throws.                                              *)
AcquireOver(c) ==
  /\ place' = [place EXCEPT ![c] = "idle"]
  /\ window' = [window EXCEPT ![c] = 0]
  /\ remaining' = [remaining EXCEPT ![c] = 0]
  /\ slept' = [slept EXCEPT ![c] = 0]
  /\ asleep' = [asleep EXCEPT ![c] = 0]

(* The rest of the loop body once a bucket answered: a wait that fits the  *)
(* window and the budget is slept, any other is the 503 of rateLimited.    *)
Settle(c, wait) ==
  \/ /\ wait = 0
     /\ AcquireOver(c)
  \/ /\ wait > 0
     /\ slept[c] + wait > MinOf(window[c], remaining[c])
     /\ AcquireOver(c)
  \/ /\ wait > 0
     /\ slept[c] + wait <= MinOf(window[c], remaining[c])
     /\ place' = [place EXCEPT ![c] = "sleep"]
     /\ asleep' = [asleep EXCEPT ![c] = wait]
     /\ slept' = [slept EXCEPT ![c] = @ + wait]
     /\ UNCHANGED <<window, remaining>>

(* Wrong on purpose: the TTL is set when the key is made, never renewed.   *)
TrySharedOnceExpiring(c) ==
  /\ place[c] = "try"
  /\ \E n \in Clocks :
       LET full == IF ttl = 0 THEN Burst ELSE Refilled(tokens, ts, n)
           take == full >= One
       IN  /\ tokens' = IF take THEN full - One ELSE full
           /\ ts' = IF ttl = 0 THEN n ELSE Stamp(ts, n)
           /\ granted' = IF take THEN granted + 1 ELSE granted
           /\ Settle(c, IF take THEN 0 ELSE WaitFor(full))
  /\ ttl' = IF ttl = 0 THEN KeyTtl ELSE ttl
  /\ UNCHANGED <<now, localVars, redisFailures>>

(* tryAcquire through Redis: the script refills by the caller's clock,     *)
(* takes a token or computes the wait, and renews the key's TTL.           *)
TryShared(c) ==
  /\ place[c] = "try"
  /\ \E n \in Clocks :
       LET base == IF ttl = 0 THEN Burst ELSE tokens
           last == IF ttl = 0 THEN n ELSE ts
           full == Refilled(base, last, n)
           take == full >= One
       IN  /\ tokens' = IF take THEN full - One ELSE full
           /\ ts' = Stamp(last, n)
           /\ granted' = IF take THEN granted + 1 ELSE granted
           /\ Settle(c, IF take THEN 0 ELSE WaitFor(full))
  /\ ttl' = KeyTtl
  /\ UNCHANGED <<now, localVars, redisFailures>>

(* tryAcquire when Redis fails: the container's own limiter, made full at  *)
(* its first use.  tryConsume and getTokenCount each refill by the time    *)
(* they read: a tick that begins between the two may fill a bucket that    *)
(* had no token, and the call passes, its wait being 0, without one.       *)
TryLocal(c) ==
  LET k == HomeOf[c] IN
  /\ place[c] = "try"
  /\ redisFailures < MaxRedisFailures
  /\ redisFailures' = redisFailures + 1
  /\ \E n \in Clocks, m \in Clocks :
       LET base  == IF localUsed[k] THEN localTokens[k] ELSE Burst
           last  == IF localUsed[k] THEN localTs[k] ELSE n
           full  == LocalRefilled(base, last, n)
           take  == full >= One
           again == LocalRefilled(full, n, m)
       IN  /\ m \in {n, n + 1}
           /\ localTokens' = [localTokens EXCEPT ![k] = IF take THEN full - One ELSE again]
           /\ localTs' = [localTs EXCEPT ![k] = IF take THEN n ELSE m]
           /\ localGranted' = [localGranted EXCEPT ![k] = IF take THEN @ + 1 ELSE @]
           /\ Settle(c, IF take THEN 0 ELSE WaitFor(again))
  /\ localUsed' = [localUsed EXCEPT ![k] = TRUE]
  /\ UNCHANGED <<now, bucketVars>>

SlotDue(c) ==
  /\ place[c] = "sleep"
  /\ asleep[c] = 0
  /\ place' = [place EXCEPT ![c] = "try"]
  /\ UNCHANGED <<now, bucketVars, localVars, window, remaining, slept, asleep, redisFailures>>

(* One tick of true time; an untouched key expires.                        *)
TimeOn ==
  /\ now < MaxNow
  /\ \A c \in Callers : place[c] = "idle" \/ (place[c] = "sleep" /\ asleep[c] > 0)
  /\ now' = now + 1
  /\ ttl' = IF ttl = 0 THEN 0 ELSE ttl - 1
  /\ asleep' = [c \in Callers |-> IF place[c] = "sleep" THEN asleep[c] - 1 ELSE asleep[c]]
  /\ remaining' = [c \in Callers |-> IF place[c] = "sleep" THEN remaining[c] - 1 ELSE remaining[c]]
  /\ UNCHANGED <<tokens, ts, granted, localVars, place, window, slept, redisFailures>>

LimiterNext ==
  \/ \E c \in Callers : AcquireCalled(c) \/ TryShared(c) \/ TryLocal(c) \/ SlotDue(c)
  \/ TimeOn

LimiterSpec == LimiterInit /\ [][LimiterNext]_limiterVars

-----------------------------------------------------------------------------
(* The key outlives the time an empty bucket takes to fill, so that its    *)
(* expiry never hands out tokens that time had not earned.                 *)
TtlCoversRefill == KeyTtl >= Spread /\ (KeyTtl - Spread) * Refill >= Burst

(* However the containers' clocks disagree and their calls interleave, the *)
(* shared bucket lets through no more than the burst and the rate allow.   *)
RateKept == One * granted <= Burst + Refill * (now + Spread)

(* Each container's own limiter gives out no more tokens than that while   *)
(* Redis is away, though its clock may go back between two calls.  (A call *)
(* that passes at the turn of a tick takes none: see TryLocal.)            *)
LocalRateKept ==
  \A k \in Processes :
    One * localGranted[k] <= Burst + Refill * (now + Spread)

(* Neither bucket gives out more than its rate (tryAcquire).               *)
RatesKept == RateKept /\ LocalRateKept

(* A sleeping caller wakes inside both its window and its budget: what it  *)
(* slept counts against the window, and the sleep against what remains.    *)
SleepFits ==
  \A c \in Callers : place[c] = "sleep" =>
    /\ slept[c] <= window[c]
    /\ asleep[c] <= remaining[c]

Contract == INSTANCE RateContract WITH time <- now, passed <- granted

(* The bucket implements the promise of RateContract.                      *)
ImplementsContract == Contract!Spec
=============================================================================
