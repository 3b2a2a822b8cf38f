----------------------- MODULE SharedRateLimiterProofs -----------------------
(***************************************************************************)
(* The rate promise of the shared bucket, for any number of containers and *)
(* any parameters under which the key outlives a refill.                   *)
(***************************************************************************)
EXTENDS SharedRateLimiter, TLAPS

(* What was granted and what is left was a burst, or was earned by `ts`.   *)
Credit == One * granted + tokens <= Burst + Refill * ts

(* The clock in the hash is at most Spread ahead of the time the key was   *)
(* last touched, unless it never was.                                      *)
StampAge ==
  \/ granted = 0 /\ ttl = 0 /\ ts = 0
  \/ ts <= now - (KeyTtl - ttl) + Spread

LocalCredit ==
  \A k \in Processes : localUsed[k] =>
    One * localGranted[k] + localTokens[k] <= Burst + Refill * localTs[k]

LocalUnused == \A k \in Processes : ~localUsed[k] => localGranted[k] = 0

(* The inductive invariants: of the shared bucket, of the containers' own, *)
(* and of the callers.                                                     *)
SharedInv == Credit /\ StampAge
LocalInv  == LocalCredit /\ LocalUnused /\ LocalRateKept

USE CallersAssumption, UnitsAssumption, LimiterTimesAssumption

(* A bucket's balance before a refill and after a take.                    *)
LEMMA Balance ==
  \A taken, base, before, full, earned, taken2, rest \in Int :
    /\ taken + base <= Burst + before
    /\ full - earned <= base - before
    /\ taken2 + rest = taken + full
    => taken2 + rest <= Burst + earned
  OBVIOUS

LEMMA DivType == \A a \in Int : (a \div Refill) \in Int
  OBVIOUS

LEMMA WaitType == \A t \in Int : WaitFor(t) \in Int
  BY DivType DEF WaitFor

LEMMA TimesMonotone ==
  ASSUME NEW a \in Int, NEW b \in Int, a <= b PROVE Refill * a <= Refill * b
  OBVIOUS

LEMMA TimesSum ==
  ASSUME NEW a \in Int, NEW b \in Int
  PROVE  Refill * (a + b) = Refill * a + Refill * b /\ (b - a) * Refill = Refill * b - Refill * a
  OBVIOUS

(* Whatever clock the caller passes, the bucket stays between empty and    *)
(* full.                                                                   *)
LEMMA RefilledType ==
  ASSUME NEW t \in 0..Burst, NEW s \in Int, NEW n \in Int
  PROVE  Refilled(t, s, n) \in 0..Burst
<1>1. CASE n > s
  <2>1. n - s \in Nat /\ (n - s) * Refill \in Nat
    BY <1>1
  <2> QED BY <1>1, <2>1 DEF Refilled, MinOf
<1>2. CASE ~(n > s)
  BY <1>2 DEF Refilled
<1> QED BY <1>1, <1>2

(* A refill adds no more than the time since the last one has earned.      *)
LEMMA RefilledCredit ==
  ASSUME NEW t \in 0..Burst, NEW s \in Int, NEW n \in Int
  PROVE  Refilled(t, s, n) - Refill * Stamp(s, n) <= t - Refill * s
<1>1. CASE n > s
  <2>1. (n - s) * Refill = Refill * n - Refill * s /\ (n - s) * Refill \in Int
    BY TimesSum
  <2>2. Refilled(t, s, n) <= t + (n - s) * Refill
    BY <1>1, <2>1 DEF Refilled, MinOf
  <2>3. Refilled(t, s, n) \in Int /\ Refill * n \in Int /\ Refill * s \in Int
    BY RefilledType
  <2> QED BY <1>1, <2>1, <2>2, <2>3 DEF Stamp
<1>2. CASE ~(n > s)
  BY <1>2 DEF Refilled, Stamp
<1> QED BY <1>1, <1>2

LEMMA SettleTypes ==
  ASSUME LimiterTyped, NEW c \in Callers, NEW w \in Int, Settle(c, w)
  PROVE  /\ place' \in [Callers -> {"idle", "try", "sleep"}]
         /\ window' \in [Callers -> {0, MaxWaitMs}]
         /\ remaining' \in [Callers -> Int]
         /\ slept' \in [Callers -> Nat]
         /\ asleep' \in [Callers -> Nat]
  BY DEF Settle, AcquireOver, LimiterTyped

LEMMA SettleFits ==
  ASSUME LimiterTyped, SleepFits, NEW c \in Callers, NEW w \in Int, Settle(c, w)
  PROVE  SleepFits'
  BY DEF Settle, AcquireOver, LimiterTyped, SleepFits, MinOf

LEMMA InitInv == LimiterInit => LimiterTyped /\ SharedInv /\ LocalInv /\ SleepFits
<1> SUFFICES ASSUME LimiterInit PROVE LimiterTyped /\ SharedInv /\ LocalInv /\ SleepFits
  OBVIOUS
<1>1. LimiterTyped
  BY DEF LimiterInit, LimiterTyped
<1>2. SharedInv
  BY DEF LimiterInit, SharedInv, Credit, StampAge
<1>3. Refill * (now + Spread) \in Nat
  BY DEF LimiterInit
<1>4. LocalInv
  BY <1>3 DEF LimiterInit, LocalInv, LocalCredit, LocalUnused, LocalRateKept
<1>5. SleepFits
  BY DEF LimiterInit, SleepFits
<1> QED BY <1>1, <1>2, <1>4, <1>5

(* The shared bucket: the step that takes or refuses a token.              *)
LEMMA TryShared_Shared ==
  ASSUME TtlCoversRefill, LimiterTyped, SharedInv, NEW c \in Callers, TryShared(c)
  PROVE  SharedInv' /\ tokens' \in 0..Burst /\ ts' \in Nat /\ granted' \in Nat
<1> DEFINE base == IF ttl = 0 THEN Burst ELSE tokens
<1>1. PICK n \in Clocks :
        LET last == IF ttl = 0 THEN n ELSE ts
            full == Refilled(base, last, n)
            take == full >= One
        IN  /\ tokens' = IF take THEN full - One ELSE full
            /\ ts' = Stamp(last, n)
            /\ granted' = IF take THEN granted + 1 ELSE granted
  BY DEF TryShared
<1> DEFINE last == IF ttl = 0 THEN n ELSE ts
           full == Refilled(base, last, n)
<1>2. /\ base \in 0..Burst /\ n \in Nat /\ last \in Nat /\ granted \in Nat
      /\ now \in Nat /\ n >= now /\ n <= now + Spread
  BY DEF LimiterTyped, Clocks
<1>3. full \in 0..Burst
  BY <1>2, RefilledType
<1>4. tokens' \in 0..Burst /\ granted' \in Nat /\ ts' \in Nat
  BY <1>1, <1>2, <1>3 DEF Stamp
<1>5. One * granted' + tokens' = One * granted + full
  <2>1. \/ granted' = granted + 1 /\ tokens' = full - One
        \/ granted' = granted /\ tokens' = full
    BY <1>1
  <2>2. One * (granted + 1) = One * granted + One /\ One * granted \in Int
    BY <1>2
  <2>3. full \in Int /\ One \in Int
    BY <1>3
  <2> HIDE DEF full
  <2>4. CASE granted' = granted + 1 /\ tokens' = full - One
    BY <2>2, <2>3, <2>4
  <2>5. CASE granted' = granted /\ tokens' = full
    BY <2>5
  <2> QED BY <2>1, <2>4, <2>5
<1>6. One * granted + base <= Burst + Refill * last
  <2>1. CASE ttl = 0 /\ granted = 0
    <3>1. Refill * last \in Nat
      BY <1>2
    <3> QED BY <2>1, <3>1, <1>2
  <2>2. CASE ttl = 0 /\ granted # 0
    <3>1. ts + (KeyTtl - Spread) <= n
      BY <2>2, <1>2 DEF SharedInv, StampAge, LimiterTyped
    <3>2. Refill * (ts + (KeyTtl - Spread)) <= Refill * n
      BY <3>1, <1>2, TimesMonotone DEF LimiterTyped
    <3>3. Refill * (ts + (KeyTtl - Spread)) = Refill * ts + Refill * (KeyTtl - Spread)
      BY TimesSum DEF LimiterTyped
    <3>4. Refill * (KeyTtl - Spread) >= Burst
      BY DEF TtlCoversRefill
    <3>5. One * granted <= Burst + Refill * ts
      BY DEF SharedInv, Credit, LimiterTyped
    <3>6. /\ Refill * ts \in Int /\ Refill * n \in Int /\ One * granted \in Int
          /\ Refill * (KeyTtl - Spread) \in Int
      BY <1>2 DEF LimiterTyped
    <3> QED BY <2>2, <3>2, <3>3, <3>4, <3>5, <3>6
  <2>3. CASE ttl # 0
    BY <2>3 DEF SharedInv, Credit
  <2> QED BY <2>1, <2>2, <2>3
<1>7. full - Refill * ts' <= base - Refill * last
  BY <1>1, <1>2, RefilledCredit
<1>8. Credit'
  <2>1. /\ Refill * ts' \in Int /\ Refill * last \in Int
        /\ One * granted \in Int /\ One * granted' \in Int
    BY <1>2, <1>4
  <2>2. base \in Int /\ full \in Int /\ tokens' \in Int
    BY <1>2, <1>3, <1>4
  <2>3. One * granted' + tokens' <= Burst + Refill * ts'
    <3> HIDE DEF full, last, base
    <3> QED BY <1>5, <1>6, <1>7, <2>1, <2>2, Balance
  <2> QED BY <2>3 DEF Credit
<1>9. StampAge'
  <2>1. ts' <= now + Spread
    BY <1>1, <1>2 DEF Stamp, SharedInv, StampAge, LimiterTyped
  <2>2. now' = now /\ ttl' = KeyTtl
    BY DEF TryShared
  <2> QED BY <2>1, <2>2, <1>4, <1>2 DEF StampAge
<1> QED BY <1>4, <1>8, <1>9 DEF SharedInv

(* The local limiter: the same, its clock free to go back.                 *)
LEMMA TryLocal_Local ==
  ASSUME LimiterTyped, LocalInv, NEW c \in Callers, TryLocal(c)
  PROVE  /\ LocalInv'
         /\ localTokens' \in [Processes -> Int] /\ localTs' \in [Processes -> Nat]
         /\ localUsed' \in [Processes -> BOOLEAN]
         /\ localGranted' \in [Processes -> Nat]
<1> DEFINE k == HomeOf[c]
           base == IF localUsed[k] THEN localTokens[k] ELSE Burst
<1>1. PICK n \in Clocks, m \in Clocks :
        LET last  == IF localUsed[k] THEN localTs[k] ELSE n
            full  == LocalRefilled(base, last, n)
            take  == full >= One
            again == LocalRefilled(full, n, m)
        IN  /\ localTokens' = [localTokens EXCEPT ![k] = IF take THEN full - One ELSE again]
            /\ localTs' = [localTs EXCEPT ![k] = IF take THEN n ELSE m]
            /\ localGranted' = [localGranted EXCEPT ![k] = IF take THEN @ + 1 ELSE @]
  BY DEF TryLocal
<1> DEFINE last  == IF localUsed[k] THEN localTs[k] ELSE n
           full  == LocalRefilled(base, last, n)
           again == LocalRefilled(full, n, m)
           at    == localTs'[k]
<1>2. /\ k \in Processes /\ base \in Int /\ n \in Nat /\ m \in Nat /\ last \in Nat
      /\ localGranted[k] \in Nat /\ now \in Nat /\ n <= now + Spread /\ m <= now + Spread
  BY DEF LimiterTyped, Clocks
<1>3. full \in Int /\ full <= base + (n - last) * Refill
  <2>1. (n - last) * Refill \in Int
    BY <1>2
  <2> QED BY <1>2, <2>1 DEF LocalRefilled, MinOf
<1>4. again \in Int /\ again <= full + (m - n) * Refill
  <2>1. (m - n) * Refill \in Int
    BY <1>2
  <2> HIDE DEF full
  <2> QED BY <1>2, <1>3, <2>1 DEF LocalRefilled, MinOf
<1>5. /\ localTokens' \in [Processes -> Int] /\ localTs' \in [Processes -> Nat]
      /\ localGranted' \in [Processes -> Nat]
  <2> HIDE DEF full, again, k
  <2> QED BY <1>1, <1>2, <1>3, <1>4 DEF LimiterTyped, full, again, k
<1>6. localUsed' = [localUsed EXCEPT ![k] = TRUE] /\ now' = now
  BY DEF TryLocal
<1>7. localUsed' \in [Processes -> BOOLEAN] /\ localUsed'[k]
  BY <1>2, <1>6 DEF LimiterTyped
<1>8. One * localGranted[k] + base <= Burst + Refill * last
  <2>1. CASE localUsed[k]
    BY <1>2, <2>1 DEF LocalInv, LocalCredit
  <2>2. CASE ~localUsed[k]
    <3>1. localGranted[k] = 0 /\ Refill * n \in Nat
      BY <1>2, <2>2 DEF LocalInv, LocalUnused
    <3> QED BY <2>2, <3>1
  <2> QED BY <2>1, <2>2
(* What the first refill adds was earned by n, what the second, by m.      *)
<1>9. /\ full - Refill * n <= base - Refill * last
      /\ again - Refill * m <= base - Refill * last
  <2>1. /\ (n - last) * Refill = Refill * n - Refill * last
        /\ (m - n) * Refill = Refill * m - Refill * n
    BY <1>2, TimesSum
  <2>2. Refill * n \in Int /\ Refill * m \in Int /\ Refill * last \in Int
    BY <1>2
  <2> HIDE DEF again, full, last, base
  <2> QED BY <1>2, <1>3, <1>4, <2>1, <2>2
<1>10. \/ /\ localGranted'[k] = localGranted[k] + 1 /\ localTokens'[k] = full - One
          /\ at = n /\ full >= One
       \/ localGranted'[k] = localGranted[k] /\ localTokens'[k] = again /\ at = m
  BY <1>1, <1>2 DEF LimiterTyped
<1>11. One * localGranted'[k] + localTokens'[k] <= Burst + Refill * at
  <2>1. /\ Refill * n \in Int /\ Refill * m \in Int /\ Refill * last \in Int
        /\ One * localGranted[k] \in Int
        /\ One * (localGranted[k] + 1) = One * localGranted[k] + One
    BY <1>2
  <2> HIDE DEF again, full, last, base, k, at
  <2>2. CASE localGranted'[k] = localGranted[k] + 1 /\ localTokens'[k] = full - One /\ at = n
    BY <1>2, <1>3, <1>8, <1>9, <2>1, <2>2
  <2>3. CASE localGranted'[k] = localGranted[k] /\ localTokens'[k] = again /\ at = m
    BY <1>2, <1>4, <1>8, <1>9, <2>1, <2>3
  <2> QED BY <1>10, <2>2, <2>3
<1>12. LocalCredit'
  BY <1>1, <1>2, <1>6, <1>11 DEF LocalInv, LocalCredit, LimiterTyped
<1>13. LocalUnused'
  BY <1>1, <1>2, <1>6, <1>7 DEF LocalInv, LocalUnused, LimiterTyped
<1>14. One * localGranted'[k] <= Burst + Refill * (now + Spread)
  <2>1. CASE localGranted'[k] = localGranted[k]
    BY <1>2, <2>1 DEF LocalInv, LocalRateKept
  <2>2. CASE localGranted'[k] # localGranted[k]
    <3>1. localTokens'[k] >= 0 /\ at = n
      BY <1>3, <1>10, <2>2
    <3>2. Refill * n <= Refill * (now + Spread)
      BY <1>2, TimesMonotone
    <3>3. /\ Refill * n \in Int /\ Refill * (now + Spread) \in Int
          /\ One * localGranted'[k] \in Int /\ localTokens'[k] \in Int
      BY <1>2, <1>5
    <3> HIDE DEF k, at
    <3> QED BY <1>11, <3>1, <3>2, <3>3
  <2> QED BY <2>1, <2>2
<1>15. LocalRateKept'
  <2>1. ASSUME NEW j \in Processes, j # k
        PROVE  One * localGranted'[j] <= Burst + Refill * (now + Spread)
    BY <1>1, <2>1 DEF LocalInv, LocalRateKept, LimiterTyped
  <2> QED BY <1>6, <1>14, <2>1 DEF LocalRateKept
<1> QED BY <1>5, <1>7, <1>12, <1>13, <1>15 DEF LocalInv

(* Time passing and callers starting, sleeping or waking disturb neither.  *)
LEMMA BucketsKept ==
  ASSUME LimiterTyped, SharedInv, LocalInv,
         UNCHANGED <<tokens, ts, granted, localVars>>,
         \/ UNCHANGED <<now, ttl>>
         \/ now' = now + 1 /\ ttl' = IF ttl = 0 THEN 0 ELSE ttl - 1
  PROVE  SharedInv' /\ LocalInv'
<1>1. Credit'
  BY DEF SharedInv, Credit
<1>2. StampAge'
  BY DEF SharedInv, StampAge, LimiterTyped
<1>3. LocalCredit' /\ LocalUnused'
  BY DEF LocalInv, LocalCredit, LocalUnused, localVars
<1>4. LocalRateKept'
  <2>1. /\ now' \in Int /\ now \in Int /\ now + Spread <= now' + Spread
        /\ now + Spread \in Int /\ now' + Spread \in Int
    BY DEF LimiterTyped
  <2>2. Refill * (now + Spread) <= Refill * (now' + Spread)
    BY <2>1, TimesMonotone
  <2>3. Refill * (now + Spread) \in Int /\ Refill * (now' + Spread) \in Int
    BY <2>1
  <2>4. \A k \in Processes : One * localGranted[k] \in Int
    BY DEF LimiterTyped
  <2> QED BY <2>2, <2>3, <2>4 DEF LocalInv, LocalRateKept, localVars
<1> QED BY <1>1, <1>2, <1>3, <1>4 DEF SharedInv, LocalInv

(* The inductive invariant.                                                *)
IInv == LimiterTyped /\ SharedInv /\ LocalInv /\ SleepFits

LEMMA TryType ==
  ASSUME LimiterTyped, NEW c \in Callers, TryShared(c) \/ TryLocal(c)
  PROVE  \E w \in Int : Settle(c, w)
<1>1. CASE TryShared(c)
  <2>1. PICK n \in Clocks :
          LET last == IF ttl = 0 THEN n ELSE ts
              full == Refilled(IF ttl = 0 THEN Burst ELSE tokens, last, n)
          IN  Settle(c, IF full >= One THEN 0 ELSE WaitFor(full))
    BY <1>1 DEF TryShared
  <2> DEFINE full == Refilled(IF ttl = 0 THEN Burst ELSE tokens, IF ttl = 0 THEN n ELSE ts, n)
  <2>2. full \in 0..Burst
    <3>1. /\ (IF ttl = 0 THEN Burst ELSE tokens) \in 0..Burst
          /\ (IF ttl = 0 THEN n ELSE ts) \in Int /\ n \in Int
      BY DEF LimiterTyped, Clocks
    <3> QED BY <3>1, RefilledType
  <2>3. (IF full >= One THEN 0 ELSE WaitFor(full)) \in Int
    BY <2>2, WaitType
  <2> QED BY <2>1, <2>3
<1>2. CASE TryLocal(c)
  <2> DEFINE k    == HomeOf[c]
             base == IF localUsed[k] THEN localTokens[k] ELSE Burst
  <2>1. PICK n \in Clocks, m \in Clocks :
          LET last  == IF localUsed[k] THEN localTs[k] ELSE n
              full  == LocalRefilled(base, last, n)
              again == LocalRefilled(full, n, m)
          IN  Settle(c, IF full >= One THEN 0 ELSE WaitFor(again))
    BY <1>2 DEF TryLocal
  <2> DEFINE last  == IF localUsed[k] THEN localTs[k] ELSE n
             full  == LocalRefilled(base, last, n)
             again == LocalRefilled(full, n, m)
  <2>2. last \in Int /\ base \in Int /\ n \in Int /\ m \in Int
    BY DEF LimiterTyped, Clocks
  <2>3. full \in Int
    <3>1. (n - last) * Refill \in Int
      BY <2>2
    <3> QED BY <2>2, <3>1 DEF LocalRefilled, MinOf
  <2>4. again \in Int
    <3>1. (m - n) * Refill \in Int
      BY <2>2
    <3> HIDE DEF full
    <3> QED BY <2>2, <2>3, <3>1 DEF LocalRefilled, MinOf
  <2>5. (IF full >= One THEN 0 ELSE WaitFor(again)) \in Int
    BY <2>4, WaitType
  <2> QED BY <2>1, <2>5
<1> QED BY <1>1, <1>2

LEMMA NextIInv ==
  ASSUME TtlCoversRefill, IInv, [LimiterNext]_limiterVars PROVE IInv'
<1> USE DEF IInv
<1>1. ASSUME NEW c \in Callers, TryShared(c) PROVE IInv'
  <2>1. PICK w \in Int : Settle(c, w)
    BY <1>1, TryType
  <2>2. SharedInv' /\ tokens' \in 0..Burst /\ ts' \in Nat /\ granted' \in Nat
    BY <1>1, TryShared_Shared
  <2>3. UNCHANGED <<now, localVars, redisFailures>> /\ ttl' \in 0..KeyTtl
    BY <1>1 DEF TryShared
  <2>4. LimiterTyped'
    BY <2>1, <2>2, <2>3, SettleTypes DEF LimiterTyped, localVars
  <2>5. LocalInv'
    BY <2>3 DEF LocalInv, LocalCredit, LocalUnused, LocalRateKept, localVars
  <2> QED BY <2>1, <2>2, <2>4, <2>5, SettleFits
<1>2. ASSUME NEW c \in Callers, TryLocal(c) PROVE IInv'
  <2>1. PICK w \in Int : Settle(c, w)
    BY <1>2, TryType
  <2>2. /\ LocalInv'
        /\ localTokens' \in [Processes -> Int] /\ localTs' \in [Processes -> Nat]
        /\ localUsed' \in [Processes -> BOOLEAN]
        /\ localGranted' \in [Processes -> Nat]
    BY <1>2, TryLocal_Local
  <2>3. UNCHANGED <<now, bucketVars>> /\ redisFailures' \in 0..MaxRedisFailures
    BY <1>2 DEF TryLocal, LimiterTyped
  <2>4. LimiterTyped'
    BY <2>1, <2>2, <2>3, SettleTypes DEF LimiterTyped, bucketVars
  <2>5. SharedInv'
    BY <2>3 DEF SharedInv, Credit, StampAge, bucketVars
  <2> QED BY <2>1, <2>2, <2>4, <2>5, SettleFits
<1>3. ASSUME NEW c \in Callers, AcquireCalled(c) \/ SlotDue(c) PROVE IInv'
  <2>1. UNCHANGED <<now, bucketVars, localVars, redisFailures>>
    BY <1>3 DEF AcquireCalled, SlotDue
  <2>2. LimiterTyped' /\ SleepFits'
    BY <1>3 DEF AcquireCalled, SlotDue, LimiterTyped, SleepFits, bucketVars, localVars
  <2> QED BY <2>1, <2>2, BucketsKept DEF bucketVars
<1>4. CASE TimeOn
  <2>1. LimiterTyped' /\ SleepFits'
    BY <1>4 DEF TimeOn, LimiterTyped, SleepFits, localVars
  <2> QED BY <1>4, <2>1, BucketsKept DEF TimeOn
<1>5. CASE UNCHANGED limiterVars
  <2>1. LimiterTyped' /\ SleepFits'
    BY <1>5 DEF limiterVars, bucketVars, localVars, acquireVars, LimiterTyped, SleepFits
  <2> QED BY <1>5, <2>1, BucketsKept DEF limiterVars, bucketVars
<1> QED BY <1>1, <1>2, <1>3, <1>4, <1>5 DEF LimiterNext

LEMMA IInvImpliesRateKept == IInv => RateKept
<1> SUFFICES ASSUME IInv PROVE RateKept
  OBVIOUS
<1>1. ts <= now + Spread /\ ts \in Int /\ now \in Int
  BY DEF IInv, SharedInv, StampAge, LimiterTyped
<1>2. Refill * ts <= Refill * (now + Spread)
  BY <1>1, TimesMonotone
<1>3. Refill * ts \in Int /\ Refill * (now + Spread) \in Int /\ One * granted \in Int
  BY <1>1 DEF IInv, LimiterTyped
<1> QED BY <1>2, <1>3 DEF IInv, SharedInv, Credit, RateKept, LimiterTyped

(* As long as the key outlives a refill, every reachable state has its     *)
(* type, the shared bucket and each local one keep the rate, and a caller  *)
(* sleeps only inside its window and its budget.                           *)
THEOREM RateLimited ==
  ASSUME TtlCoversRefill
  PROVE  LimiterSpec => [](LimiterTyped /\ RatesKept /\ SleepFits)
<1>1. LimiterInit => IInv
  BY InitInv DEF IInv
<1>2. IInv /\ [LimiterNext]_limiterVars => IInv'
  BY NextIInv
<1>3. IInv => LimiterTyped /\ RatesKept /\ SleepFits
  BY IInvImpliesRateKept DEF IInv, LocalInv, RatesKept
<1> QED BY <1>1, <1>2, <1>3, PTL DEF LimiterSpec

(* The Redis bucket with its skewed clocks, expiring key and interleaved   *)
(* callers implements the rate promise: every token it hands out is one    *)
(* the contract allows at that moment.                                     *)
THEOREM LimiterImplementsContract ==
  ASSUME TtlCoversRefill
  PROVE  LimiterSpec => ImplementsContract
<1>1. LimiterInit => Contract!Init
  BY DEF LimiterInit, Contract!Init
<1>2. RateKept' /\ [LimiterNext]_limiterVars
        => [Contract!Grant \/ Contract!Pass]_<<now, granted>>
  <2> SUFFICES ASSUME RateKept', [LimiterNext]_limiterVars
               PROVE  [Contract!Grant \/ Contract!Pass]_<<now, granted>>
    OBVIOUS
  <2>1. ASSUME NEW c \in Callers, TryShared(c)
        PROVE  [Contract!Grant \/ Contract!Pass]_<<now, granted>>
    <3>1. now' = now
      BY <2>1 DEF TryShared
    <3>2. granted' = granted + 1 \/ granted' = granted
      BY <2>1 DEF TryShared
    <3>3. One * granted' <= Burst + Refill * (now' + Spread)
      BY DEF RateKept
    <3> QED BY <3>1, <3>2, <3>3 DEF Contract!Grant
  <2>2. ASSUME NEW c \in Callers, TryLocal(c) \/ AcquireCalled(c) \/ SlotDue(c)
        PROVE  UNCHANGED <<now, granted>>
    BY <2>2 DEF TryLocal, AcquireCalled, SlotDue, bucketVars
  <2>3. CASE TimeOn
    BY <2>3 DEF TimeOn, Contract!Pass
  <2>4. CASE UNCHANGED limiterVars
    BY <2>4 DEF limiterVars, bucketVars
  <2> QED BY <2>1, <2>2, <2>3, <2>4 DEF LimiterNext
<1>3. LimiterInit => IInv
  BY InitInv DEF IInv
<1>4. IInv /\ [LimiterNext]_limiterVars => IInv'
  BY NextIInv
<1> QED BY <1>1, <1>2, <1>3, <1>4, IInvImpliesRateKept, PTL DEF LimiterSpec, ImplementsContract, Contract!Spec
=============================================================================
