---------------------------- MODULE CatalogCache ----------------------------
(***************************************************************************)
(* The token catalog's snapshot and the single-flight cache under it: a    *)
(* memo in each container, and in Redis a fresh copy, a stale copy and the *)
(* lock of `withSingleFlight`, and the copies of CoinGecko's answers that  *)
(* a snapshot is built from.  Every Redis command of withSingleFlight is a *)
(* step of its own.  Data is modelled by its age, the ticks since the      *)
(* rebuild that fetched it began; a snapshot is as old as its oldest part. *)
(* The slots of Callers are containers, one call of getSnapshot at a time  *)
(* in each.                                                                *)
(***************************************************************************)
EXTENDS Integers, FiniteSets

CONSTANTS
  Callers,
  Sources,      \* CoinGecko's token list, coin ids and market ranks
  MemoTtl,      \* isFresh: 5 minutes
  SourceTtl,    \* CATALOG_TTL_SECONDS: 24 hours
  Ttl,          \* SNAPSHOT_TTL_SECONDS: 24 hours
  StaleTtl,     \* SNAPSHOT_STALE_TTL_SECONDS: 48 hours
  LockTtl,      \* REBUILD_LOCK_MS: 30 seconds
  Budget,       \* the request budget: 25 seconds
  MaxFaults     \* bound on Redis errors and killed containers, together

ASSUME SourcesAssumption == Sources # {} /\ IsFiniteSet(Sources)
ASSUME TimesAssumption ==
  /\ {MemoTtl, SourceTtl, Ttl, StaleTtl, LockTtl, Budget} \subseteq Nat \ {0}
  /\ Ttl <= StaleTtl
  /\ LockTtl > Budget + 1
  /\ MaxFaults \in Nat

VARIABLES
  fresh, stale,   \* the two copies, [ttl, age] or Absent
  source,         \* per source: its cached answer, likewise
  lock,           \* TTL left of the lock, 0 when free
  memo,           \* per container: its memo, [ttl, age] or Absent
  pc,             \* per call: its place
  left,           \* per call: remainingMs
  timer,          \* per call: what is left of its polling; time spent fetching
  built,          \* per call: age of the value it builds or has read
  missing,        \* per call: the sources it has to fetch
  errors, crashes

callVars == <<pc, left, timer, built, missing>>
vars     == <<fresh, stale, source, lock, memo, callVars, errors, crashes>>

Absent == [ttl |-> 0, age |-> 0]

NewestAge == Budget + 1                      \* of what a rebuild has fetched
BuiltAge  == NewestAge + SourceTtl + NewestAge   \* of what another may build of it
MaxAge    == BuiltAge + StaleTtl + MemoTtl
Longest   == IF SourceTtl > StaleTtl THEN SourceTtl ELSE StaleTtl
Copies    == [ttl : 0..Longest, age : 0..MaxAge]

(* Where a call stands.  Between taking the lock and dropping it: `rebuild`,*)
(* the two stores, the fallback to the stale copy, and the DEL of the lock,*)
(* after which the value is returned or the error thrown.                  *)
Holding == {"read", "rebuild", "storeFresh", "storeStale", "fallback", "unlock", "unlockThrow"}
Places  == {"idle", "get", "lock", "stale", "poll", "ownRead", "ownRebuild"} \union Holding

TypeOK ==
  /\ fresh \in Copies /\ stale \in Copies
  /\ source \in [Sources -> Copies]
  /\ lock \in 0..LockTtl
  /\ memo \in [Callers -> [ttl : 0..MemoTtl, age : 0..MaxAge]]
  /\ pc \in [Callers -> Places]
  /\ left \in [Callers -> -1..Budget]
  /\ timer \in [Callers -> 0..LockTtl + NewestAge]
  /\ built \in [Callers -> 0..MaxAge]
  /\ missing \in [Callers -> SUBSET Sources]
  /\ errors \in Nat /\ crashes \in Nat /\ errors + crashes <= MaxFaults

Init ==
  /\ fresh = Absent /\ stale = Absent /\ lock = 0
  /\ source = [x \in Sources |-> Absent]
  /\ memo = [c \in Callers |-> Absent]
  /\ pc = [c \in Callers |-> "idle"]
  /\ left = [c \in Callers |-> 0]
  /\ timer = [c \in Callers |-> 0]
  /\ built = [c \in Callers |-> 0]
  /\ missing = [c \in Callers |-> {}]
  /\ errors = 0 /\ crashes = 0

-----------------------------------------------------------------------------
Lesser(a, b) == IF a < b THEN a ELSE b

Go(c, place) == pc' = [pc EXCEPT ![c] = place]

Error == errors + crashes < MaxFaults /\ errors' = errors + 1

(* The call is over; its slot forgets.                                     *)
End(c) ==
  /\ Go(c, "idle")
  /\ left' = [left EXCEPT ![c] = 0]
  /\ timer' = [timer EXCEPT ![c] = 0]
  /\ built' = [built EXCEPT ![c] = 0]
  /\ missing' = [missing EXCEPT ![c] = {}]

(* getSnapshot returns what withSingleFlight gave it, and memoises it.     *)
Serve(c, age) ==
  /\ memo' = [memo EXCEPT ![c] = [ttl |-> MemoTtl, age |-> age]]
  /\ End(c)

Throw(c) == End(c) /\ UNCHANGED memo

(* A call that its memo cannot serve.                                      *)
Start(c) ==
  /\ pc[c] = "idle"
  /\ memo[c].ttl = 0
  /\ left' = [left EXCEPT ![c] = Budget]
  /\ Go(c, "get")
  /\ UNCHANGED <<fresh, stale, source, lock, memo, timer, built, missing, errors, crashes>>

GetFresh(c) ==
  /\ pc[c] = "get"
  /\ \/ fresh.ttl > 0 /\ Serve(c, fresh.age) /\ UNCHANGED errors
     \/ /\ (fresh.ttl = 0 /\ UNCHANGED errors) \/ Error
        /\ Go(c, "lock")
        /\ UNCHANGED <<memo, left, timer, built, missing>>
  /\ UNCHANGED <<fresh, stale, source, lock, crashes>>

(* Wrong on purpose: the lock is set without NX.                           *)
TryLockWithoutNX(c) ==
  /\ pc[c] = "lock"
  /\ lock' = LockTtl
  /\ Go(c, "read")
  /\ UNCHANGED <<fresh, stale, source, memo, left, timer, built, missing, errors, crashes>>

(* SET NX PX; with no Redis every process is its own single flight.        *)
TryLock(c) ==
  /\ pc[c] = "lock"
  /\ \/ /\ lock = 0
        /\ lock' = LockTtl
        /\ Go(c, "read")
        /\ UNCHANGED errors
     \/ Error /\ Go(c, "read") /\ UNCHANGED lock
     \/ lock > 0 /\ Go(c, "stale") /\ UNCHANGED <<lock, errors>>
  /\ UNCHANGED <<fresh, stale, source, memo, left, timer, built, missing, crashes>>

(* buildTokens asks Redis for every source.  Those without a copy, or all  *)
(* if Redis fails, must be fetched; the others count with their age.       *)
ReadSources(c) ==
  /\ pc[c] \in {"read", "ownRead"}
  /\ \/ /\ missing' = [missing EXCEPT ![c] = {x \in Sources : source[x].ttl = 0}]
        /\ UNCHANGED errors
     \/ Error /\ missing' = [missing EXCEPT ![c] = Sources]
  /\ \E age \in {0} \union {source[x].age : x \in Sources \ missing'[c]} :
       /\ \A x \in Sources \ missing'[c] : source[x].age <= age
       /\ built' = [built EXCEPT ![c] = age]
  /\ Go(c, IF pc[c] = "read" THEN "rebuild" ELSE "ownRebuild")
  /\ UNCHANGED <<fresh, stale, source, lock, memo, left, timer, crashes>>

(* What is fetched is saved, unless Redis fails.  All answers of a build   *)
(* are taken to arrive together.                                           *)
Save(c, fetched) ==
  \/ /\ source' = [x \in Sources |-> IF x \in fetched
                                     THEN [ttl |-> SourceTtl, age |-> timer[c]]
                                     ELSE source[x]]
     /\ UNCHANGED errors
  \/ fetched # {} /\ Error /\ UNCHANGED source

(* A source that cannot be fetched fails the build, not the others' saves. *)
Fetched(c)      == Save(c, missing[c])
FetchFailed(c)  == \E some \in SUBSET missing[c] \ {missing[c]} : Save(c, some)

Rebuild(c) ==
  /\ pc[c] = "rebuild"
  /\ \/ Fetched(c) /\ Go(c, "storeFresh")
     \/ FetchFailed(c) /\ Go(c, "fallback")
  /\ UNCHANGED <<fresh, stale, lock, memo, left, timer, built, missing, crashes>>

StoreFresh(c) ==
  /\ pc[c] = "storeFresh"
  /\ \/ fresh' = [ttl |-> Ttl, age |-> built[c]] /\ UNCHANGED errors
     \/ Error /\ UNCHANGED fresh
  /\ Go(c, "storeStale")
  /\ UNCHANGED <<stale, source, lock, memo, left, timer, built, missing, crashes>>

(* Wrong on purpose: a stale copy that lives no longer than the fresh one. *)
StoreStaleShort(c) ==
  /\ pc[c] = "storeStale"
  /\ stale' = [ttl |-> Ttl, age |-> built[c]]
  /\ Go(c, "unlock")
  /\ UNCHANGED <<fresh, source, lock, memo, left, timer, built, missing, errors, crashes>>

StoreStale(c) ==
  /\ pc[c] = "storeStale"
  /\ \/ stale' = [ttl |-> StaleTtl, age |-> built[c]] /\ UNCHANGED errors
     \/ Error /\ UNCHANGED stale
  /\ Go(c, "unlock")
  /\ UNCHANGED <<fresh, source, lock, memo, left, timer, built, missing, crashes>>

(* Wrong on purpose: the stale copy is stored again as if it were new.     *)
FallbackStoring(c) ==
  /\ pc[c] = "fallback"
  /\ \/ /\ stale.ttl > 0
        /\ built' = [built EXCEPT ![c] = stale.age]
        /\ Go(c, "storeFresh")
     \/ stale.ttl = 0 /\ Go(c, "unlockThrow") /\ UNCHANGED built
  /\ UNCHANGED <<fresh, stale, source, lock, memo, left, timer, missing, errors, crashes>>

(* The rebuild failed: the stale copy is served if there is one.           *)
Fallback(c) ==
  /\ pc[c] = "fallback"
  /\ \/ /\ stale.ttl > 0
        /\ built' = [built EXCEPT ![c] = stale.age]
        /\ Go(c, "unlock")
        /\ UNCHANGED errors
     \/ /\ (stale.ttl = 0 /\ UNCHANGED errors) \/ Error
        /\ Go(c, "unlockThrow")
        /\ UNCHANGED built
  /\ UNCHANGED <<fresh, stale, source, lock, memo, left, timer, missing, crashes>>

(* finally: DEL of the lock, whoever holds it by now.                      *)
Unlock(c) ==
  /\ pc[c] \in {"unlock", "unlockThrow"}
  /\ \/ lock' = 0 /\ UNCHANGED errors
     \/ Error /\ UNCHANGED lock
  /\ \/ pc[c] = "unlock" /\ Serve(c, built[c])
     \/ pc[c] = "unlockThrow" /\ Throw(c)
  /\ UNCHANGED <<fresh, stale, source, crashes>>

(* Another call holds the lock: the stale copy, or a poll for the fresh    *)
(* one, no longer than the lock and the budget last.                       *)
GetStale(c) ==
  /\ pc[c] = "stale"
  /\ \/ stale.ttl > 0 /\ Serve(c, stale.age) /\ UNCHANGED errors
     \/ /\ (stale.ttl = 0 /\ UNCHANGED errors) \/ Error
        /\ Go(c, "poll")
        /\ timer' = [timer EXCEPT ![c] = Lesser(LockTtl, left[c])]
        /\ UNCHANGED <<memo, left, built, missing>>
  /\ UNCHANGED <<fresh, stale, source, lock, crashes>>

PollHit(c) ==
  /\ pc[c] = "poll"
  /\ fresh.ttl > 0
  /\ Serve(c, fresh.age)
  /\ UNCHANGED <<fresh, stale, source, lock, errors, crashes>>

(* Wrong on purpose: a waiter polls again, with a budget anew, and again.  *)
PollAgain(c) ==
  /\ pc[c] = "poll"
  /\ timer[c] = 0
  /\ fresh.ttl = 0
  /\ timer' = [timer EXCEPT ![c] = Lesser(LockTtl, Budget)]
  /\ left' = [left EXCEPT ![c] = Budget]
  /\ UNCHANGED <<fresh, stale, source, lock, memo, pc, built, missing, errors, crashes>>

PollTimeout(c) ==
  /\ pc[c] = "poll"
  /\ timer[c] = 0
  /\ (fresh.ttl = 0 /\ UNCHANGED errors) \/ Error
  /\ Go(c, "ownRead")
  /\ UNCHANGED <<fresh, stale, source, lock, memo, left, timer, built, missing, crashes>>

(* Wrong on purpose: what is built without the lock is stored all the same.*)
OwnRebuildStoring(c) ==
  /\ pc[c] = "ownRebuild"
  /\ \/ Fetched(c) /\ Go(c, "storeFresh")
     \/ FetchFailed(c) /\ Go(c, "unlockThrow")
  /\ UNCHANGED <<fresh, stale, lock, memo, left, timer, built, missing, crashes>>

(* The last resort, without the lock and without storing the value.        *)
OwnRebuild(c) ==
  /\ pc[c] = "ownRebuild"
  /\ \/ Fetched(c) /\ Serve(c, built[c])
     \/ FetchFailed(c) /\ Throw(c)
  /\ UNCHANGED <<fresh, stale, lock, crashes>>

(* The container is killed; its memo goes, its lock stays.                 *)
Crash(c) ==
  /\ pc[c] # "idle"
  /\ errors + crashes < MaxFaults
  /\ crashes' = crashes + 1
  /\ End(c)
  /\ memo' = [memo EXCEPT ![c] = Absent]
  /\ UNCHANGED <<fresh, stale, source, lock, errors>>

-----------------------------------------------------------------------------
Building(c) == pc[c] \in {"rebuild", "ownRebuild"}

(* A rebuild settles within a tick of the deadline, because every provider *)
(* call under it does (ProviderClient!WithinBudget); one that finds every  *)
(* source in Redis takes no time.                                          *)
Fetching(c) == Building(c) /\ missing[c] # {}
Polling(c)  == pc[c] = "poll"

Aged(copy) == IF copy.ttl <= 1 THEN Absent ELSE [ttl |-> copy.ttl - 1, age |-> copy.age + 1]

Tick ==
  /\ \A c \in Callers : \/ pc[c] = "idle"
                        \/ Fetching(c) /\ left[c] >= 0
                        \/ Polling(c) /\ timer[c] > 0 /\ fresh.ttl = 0
  /\ fresh' = Aged(fresh) /\ stale' = Aged(stale)
  /\ source' = [x \in Sources |-> Aged(source[x])]
  /\ lock' = IF lock = 0 THEN 0 ELSE lock - 1
  /\ memo' = [c \in Callers |-> Aged(memo[c])]
  /\ left' = [c \in Callers |-> IF pc[c] # "idle" THEN left[c] - 1 ELSE left[c]]
  /\ timer' = [c \in Callers |-> IF Polling(c) THEN timer[c] - 1
                                 ELSE IF Fetching(c) THEN timer[c] + 1 ELSE timer[c]]
  /\ built' = [c \in Callers |-> IF Fetching(c) THEN built[c] + 1 ELSE built[c]]
  /\ UNCHANGED <<pc, missing, errors, crashes>>

Step(c) ==
  \/ GetFresh(c) \/ TryLock(c) \/ ReadSources(c) \/ Rebuild(c) \/ StoreFresh(c) \/ StoreStale(c)
  \/ Fallback(c) \/ Unlock(c) \/ GetStale(c) \/ PollHit(c) \/ PollTimeout(c)
  \/ OwnRebuild(c)

Next ==
  \/ \E c \in Callers : Start(c) \/ Step(c) \/ Crash(c)
  \/ Tick

Fairness == []<><<Tick>>_vars /\ \A c \in Callers : WF_vars(Step(c))

Spec == Init /\ [][Next]_vars /\ Fairness

-----------------------------------------------------------------------------
(* One caller, the lock holder, rebuilds; the lock neither lapses under it *)
(* nor is dropped by another.                                              *)
OneRebuilder ==
  errors = 0 => \A c, d \in Callers : pc[c] \in Holding /\ pc[d] \in Holding => c = d

(* Behind a fresh copy there is always a stale one that outlives it, so    *)
(* that the failure of the next rebuild finds something to serve.          *)
StaleBehindFresh ==
  fresh.ttl > 0 /\ errors = 0 /\ crashes = 0
      /\ (\A c \in Callers : pc[c] # "storeStale")
    => stale.ttl >= fresh.ttl + (StaleTtl - Ttl)

(* What a container serves is bounded in age by the lives of the copy it   *)
(* comes from, of the sources that was built from and of the memo, however *)
(* many failures were bridged.                                             *)
ServedAgeBounded ==
  \A c \in Callers : memo[c].ttl > 0 =>
    memo[c].age <= BuiltAge + StaleTtl + (MemoTtl - memo[c].ttl)

(* What the source says of CoinGecko's terms: the copy taken for fresh     *)
(* holds nothing fetched longer ago than a day, give or take a rebuild.    *)
FreshWithinTerms == fresh.ttl > 0 => fresh.age <= NewestAge + SourceTtl

(* Every call is served or fails: nobody waits for ever on a lock holder   *)
(* that died.                                                              *)
EveryCallEnds == \A c \in Callers : pc[c] # "idle" ~> pc[c] = "idle"
=============================================================================
