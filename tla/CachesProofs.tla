---------------------------- MODULE CachesProofs ----------------------------
(***************************************************************************)
(* What holds of the two caches that let one caller load for all.  Of the  *)
(* catalog's, for any number of containers and of sources and any times to *)
(* live: who may rebuild, that a stale copy backs the fresh one, and how   *)
(* old what is served can be.  Of the transaction history's, for any       *)
(* number of clients, queries and transactions: how often a query is       *)
(* loaded, and what a walk over its pages shows.                           *)
(***************************************************************************)
EXTENDS CatalogCache, TransactionHistory, SequenceTheorems, FiniteSetTheorems, TLAPS

(* A copy's age is bounded by the age it can be stored at and its life.    *)
Bounded(copy, stored, life) == copy.ttl <= life /\ copy.age <= stored + (life - copy.ttl)

AgesBounded ==
  /\ \A x \in Sources : Bounded(source[x], NewestAge, SourceTtl)
  /\ Bounded(fresh, BuiltAge, Ttl) /\ Bounded(stale, BuiltAge, StaleTtl)
  /\ \A c \in Callers : Bounded(memo[c], BuiltAge + StaleTtl, MemoTtl)

(* How much of its time a call has spent at each place, and how old what   *)
(* it carries there can be.                                                *)
CallAt(c) ==
  /\ pc[c] = "idle" => timer[c] = 0
  /\ pc[c] \in {"get", "lock", "stale", "read"} => left[c] = Budget /\ timer[c] = 0
  /\ pc[c] = "poll" => timer[c] <= left[c]
  /\ pc[c] = "ownRead" => left[c] >= 0 /\ timer[c] = 0
  /\ pc[c] = "rebuild" => timer[c] = Budget - left[c]
  /\ pc[c] = "ownRebuild" => timer[c] <= Budget - left[c]
  /\ pc[c] \in {"rebuild", "ownRebuild"} => built[c] <= NewestAge + SourceTtl + timer[c]
  /\ pc[c] \in {"storeFresh", "storeStale", "fallback"} => built[c] <= BuiltAge
  /\ pc[c] \in {"unlock", "unlockThrow"} => built[c] <= BuiltAge + StaleTtl

(* While Redis answers, the lock lasts at least as long as its holder.     *)
LockHeld ==
  errors = 0 => \A c \in Callers : pc[c] \in Holding => lock >= LockTtl - (Budget - left[c])

(* The inductive invariant.                                                *)
IInv ==
  /\ TypeOK /\ AgesBounded
  /\ \A c \in Callers : CallAt(c)
  /\ LockHeld /\ OneRebuilder /\ StaleBehindFresh

USE DEF Places, Holding, Copies, MaxAge, BuiltAge, NewestAge, Absent,
        Go, Lesser, Error, Building, Fetching, Polling, Bounded

(* The constants as numbers.                                               *)
LEMMA Times ==
  /\ MemoTtl \in Nat \ {0} /\ SourceTtl \in Nat \ {0} /\ Ttl \in Nat \ {0}
  /\ StaleTtl \in Nat \ {0} /\ LockTtl \in Nat \ {0} /\ Budget \in Nat \ {0}
  /\ Ttl <= StaleTtl /\ LockTtl > Budget + 1 /\ MaxFaults \in Nat
  /\ Longest \in Nat /\ SourceTtl <= Longest /\ StaleTtl <= Longest
  BY TimesAssumption DEF Longest

USE Times

LEMMA InitIInv == Init => IInv
  BY DEF Init, IInv, TypeOK, AgesBounded, CallAt, LockHeld, OneRebuilder, StaleBehindFresh

CallsKept ==
  /\ memo \in [Callers -> [ttl : 0..MemoTtl, age : 0..MaxAge]]
  /\ pc \in [Callers -> Places]
  /\ left \in [Callers -> -1..Budget]
  /\ timer \in [Callers -> 0..LockTtl + NewestAge]
  /\ built \in [Callers -> 0..MaxAge]
  /\ missing \in [Callers -> SUBSET Sources]
  /\ \A c \in Callers : Bounded(memo[c], BuiltAge + StaleTtl, MemoTtl) /\ CallAt(c)

(* Nothing but the slot of call c changes, and it keeps its types.         *)
OnlyCall(c) ==
  /\ pc' \in [Callers -> Places]
  /\ left' \in [Callers -> -1..Budget]
  /\ timer' \in [Callers -> 0..LockTtl + NewestAge]
  /\ built' \in [Callers -> 0..MaxAge]
  /\ missing' \in [Callers -> SUBSET Sources]
  /\ \A d \in Callers \ {c} : /\ pc'[d] = pc[d] /\ left'[d] = left[d] /\ timer'[d] = timer[d]
                            /\ built'[d] = built[d] /\ missing'[d] = missing[d]

(* What holds of the other calls goes on holding of them.                  *)
LEMMA GoKept ==
  ASSUME IInv, NEW c \in Callers, OnlyCall(c), UNCHANGED memo, CallAt(c)'
  PROVE  CallsKept'
<1>1. ASSUME NEW d \in Callers PROVE CallAt(d)'
  <2>1. CASE d = c
    BY <2>1
  <2>2. CASE d # c
    BY <2>2 DEF IInv, OnlyCall, CallAt
  <2> QED
    BY <2>1, <2>2
<1> QED
  BY <1>1 DEF CallsKept, OnlyCall, IInv, TypeOK, AgesBounded

(* The end of a call that serves, or throws, leaves all calls in order.    *)
LEMMA EndKept ==
  ASSUME IInv, NEW c \in Callers, End(c),
         \/ UNCHANGED memo \/ memo' = [memo EXCEPT ![c] = Absent]
         \/ \E age \in 0..BuiltAge + StaleTtl :
              memo' = [memo EXCEPT ![c] = [ttl |-> MemoTtl, age |-> age]]
  PROVE  CallsKept' /\ OnlyCall(c) /\ pc'[c] = "idle"
<1> DEFINE Memo(copy) == /\ copy \in [ttl : 0..MemoTtl, age : 0..MaxAge]
                         /\ Bounded(copy, BuiltAge + StaleTtl, MemoTtl)
<1>1. \A d \in Callers : Memo(memo[d])
  BY DEF IInv, TypeOK, AgesBounded
<1>2. \A age \in 0..BuiltAge + StaleTtl : Memo([ttl |-> MemoTtl, age |-> age])
  <2> TAKE age \in 0..BuiltAge + StaleTtl
  <2>1. age \in 0..MaxAge
    OBVIOUS
  <2> QED
    BY <2>1
<1>3. Memo(Absent)
  OBVIOUS
<1>4. PICK copy : Memo(copy) /\ (UNCHANGED memo \/ memo' = [memo EXCEPT ![c] = copy])
  BY <1>1, <1>2, <1>3
<1> HIDE DEF Memo
<1>5. DOMAIN memo' = Callers /\ memo' = [d \in Callers |-> memo'[d]] /\ \A d \in Callers : Memo(memo'[d])
  BY <1>1, <1>4 DEF IInv, TypeOK
<1>6. /\ memo' \in [Callers -> [ttl : 0..MemoTtl, age : 0..MaxAge]]
      /\ \A d \in Callers : Bounded(memo[d], BuiltAge + StaleTtl, MemoTtl)'
  BY <1>5 DEF Memo
<1>7. OnlyCall(c) /\ pc'[c] = "idle"
  BY DEF OnlyCall, IInv, TypeOK, End
<1>8. ASSUME NEW d \in Callers PROVE CallAt(d)'
  <2>1. CASE d = c
    BY <1>7, <2>1 DEF IInv, TypeOK, End, CallAt
  <2>2. CASE d # c
    BY <1>7, <2>2 DEF IInv, OnlyCall, CallAt
  <2> QED
    BY <2>1, <2>2
<1> QED
  BY <1>6, <1>7, <1>8 DEF CallsKept, OnlyCall

(* A call that neither takes the lock nor drops another's leaves it with   *)
(* its holder, and the holder alone.                                       *)
LEMMA LockKept ==
  ASSUME IInv, NEW c \in Callers, OnlyCall(c),
         errors' = 0 => errors = 0,
         pc'[c] \in Holding => pc[c] \in Holding /\ left'[c] = left[c],
         lock' = lock \/ (pc[c] \in Holding /\ pc'[c] \notin Holding)
  PROVE  LockHeld' /\ OneRebuilder'
<1>1. OneRebuilder'
  BY DEF IInv, OneRebuilder, OnlyCall
<1>2. LockHeld'
  BY DEF IInv, OneRebuilder, LockHeld, OnlyCall
<1> QED
  BY <1>1, <1>2

(* What is fetched within the budget may be saved.                         *)
LEMMA SaveKept ==
  ASSUME IInv, NEW c \in Callers, timer[c] <= NewestAge, NEW some \in SUBSET Sources, Save(c, some)
  PROVE  /\ source' \in [Sources -> Copies]
         /\ \A x \in Sources : Bounded(source[x], NewestAge, SourceTtl)'
         /\ errors' \in Nat /\ errors' + crashes <= MaxFaults
         /\ errors' = 0 => errors = 0
<1>1. timer[c] \in 0..MaxAge
  BY DEF IInv, TypeOK
<1>2. [ttl |-> SourceTtl, age |-> timer[c]] \in Copies
  BY <1>1
<1>3. /\ source' \in [Sources -> Copies]
      /\ \A x \in Sources : Bounded(source[x], NewestAge, SourceTtl)'
  BY <1>1, <1>2 DEF Save, IInv, TypeOK, AgesBounded
<1> QED
  BY <1>3 DEF Save, IInv, TypeOK

SharedKept ==
  /\ fresh \in Copies /\ stale \in Copies /\ source \in [Sources -> Copies]
  /\ lock \in 0..LockTtl
  /\ errors \in Nat /\ crashes \in Nat /\ errors + crashes <= MaxFaults
  /\ \A x \in Sources : Bounded(source[x], NewestAge, SourceTtl)
  /\ Bounded(fresh, BuiltAge, Ttl) /\ Bounded(stale, BuiltAge, StaleTtl)

LEMMA Parts == IInv <=> SharedKept /\ CallsKept /\ LockHeld /\ OneRebuilder /\ StaleBehindFresh
  BY DEF IInv, SharedKept, CallsKept, TypeOK, AgesBounded

LEMMA PartsPrimed ==
  ASSUME SharedKept', CallsKept', LockHeld', OneRebuilder', StaleBehindFresh'
  PROVE  IInv'
  BY DEF IInv, SharedKept, CallsKept, TypeOK, AgesBounded

(* Every step of a call or its container keeps the invariant.              *)
LEMMA StepIInv ==
  ASSUME IInv, NEW c \in Callers, Start(c) \/ Step(c) \/ Crash(c)
  PROVE  IInv'
<1> USE DEF IInv, TypeOK
<1>1. CASE Start(c)
  <2> USE <1>1 DEF Start
  <2>1. OnlyCall(c) /\ UNCHANGED memo
    BY DEF OnlyCall
  <2>2. CallAt(c)'
    BY DEF CallAt
  <2>3. CallsKept'
    BY <2>1, <2>2, GoKept
  <2>4. LockHeld' /\ OneRebuilder'
    <3>1. errors' = 0 => errors = 0
      BY DEF IInv
    <3>2. pc'[c] \in Holding => pc[c] \in Holding /\ left'[c] = left[c]
      OBVIOUS
    <3>3. lock' = lock
      OBVIOUS
    <3> QED
      BY <2>1, <3>1, <3>2, <3>3, LockKept
  <2>5. SharedKept'
    BY DEF SharedKept, AgesBounded
  <2>6. StaleBehindFresh'
    BY DEF StaleBehindFresh
  <2> QED
    BY <2>3, <2>4, <2>5, <2>6, PartsPrimed
<1>2. CASE GetFresh(c)
  <2> USE <1>2 DEF GetFresh
  <2>0. errors' = 0 => errors = 0
    BY DEF IInv
  <2>1. CallsKept' /\ OnlyCall(c) /\ pc'[c] \notin Holding
    <3>1. CASE Serve(c, fresh.age)
      <4>1. fresh.age \in 0..BuiltAge + StaleTtl
        BY DEF AgesBounded
      <4> QED
        BY <3>1, <4>1, EndKept DEF Serve
    <3>2. CASE ~Serve(c, fresh.age)
      <4>1. OnlyCall(c) /\ UNCHANGED memo
        BY <3>2 DEF OnlyCall
      <4>2. CallAt(c)'
        BY <3>2 DEF CallAt
      <4>3. pc'[c] \notin Holding
        BY <3>2
      <4> QED
        BY <4>1, <4>2, <4>3, GoKept
    <3> QED
      BY <3>1, <3>2
  <2>4. LockHeld' /\ OneRebuilder'
    BY <2>0, <2>1, LockKept
  <2>5. SharedKept'
    BY DEF SharedKept, AgesBounded
  <2>6. StaleBehindFresh'
    BY <2>0, <2>1 DEF StaleBehindFresh, OnlyCall
  <2> QED
    BY <2>1, <2>4, <2>5, <2>6, PartsPrimed
<1>3. CASE TryLock(c)
  <2> USE <1>3 DEF TryLock
  <2>1. OnlyCall(c) /\ UNCHANGED memo
    BY DEF OnlyCall
  <2>2. CallAt(c)'
    BY DEF CallAt
  <2>3. CallsKept'
    BY <2>1, <2>2, GoKept
  <2>4. LockHeld' /\ OneRebuilder'
    <3>1. CASE lock = 0 /\ errors = 0
      <4>1. \A d \in Callers : pc[d] \notin Holding
        BY <3>1 DEF LockHeld
      <4>2. left[c] = Budget
        BY DEF CallAt
      <4>3. CASE errors' = 0
        BY <2>1, <3>1, <4>1, <4>2, <4>3 DEF LockHeld, OneRebuilder, OnlyCall
      <4>4. CASE errors' # 0
        BY <4>4 DEF LockHeld, OneRebuilder
      <4> QED
        BY <4>3, <4>4
    <3>2. CASE lock > 0 /\ errors' = 0
      <4>1. errors = 0 /\ lock' = lock /\ left' = left /\ pc'[c] \notin Holding
        BY <3>2
      <4> QED
        BY <2>1, <4>1, LockKept
    <3>3. CASE errors' # 0
      BY <3>3 DEF LockHeld, OneRebuilder
    <3> QED
      BY <3>1, <3>2, <3>3
  <2>5. SharedKept'
    BY DEF SharedKept, AgesBounded
  <2>6. StaleBehindFresh'
    BY DEF StaleBehindFresh
  <2> QED
    BY <2>3, <2>4, <2>5, <2>6, PartsPrimed
<1>4. CASE ReadSources(c)
  <2> USE <1>4 DEF ReadSources
  <2>0. PICK age \in {0} \union {source[x].age : x \in Sources \ missing'[c]} :
          built' = [built EXCEPT ![c] = age]
    OBVIOUS
  <2>a. age \in 0..NewestAge + SourceTtl
    BY DEF AgesBounded
  <2>1. OnlyCall(c) /\ UNCHANGED memo
    BY <2>0, <2>a DEF OnlyCall
  <2>2. CallAt(c)'
    BY <2>0, <2>a DEF CallAt
  <2>3. CallsKept'
    BY <2>1, <2>2, GoKept
  <2>4. LockHeld' /\ OneRebuilder'
    <3>1. errors' = 0 => errors = 0
      BY <2>0, <2>a DEF IInv
    <3>2. pc'[c] \in Holding => pc[c] \in Holding /\ left'[c] = left[c]
      OBVIOUS
    <3>3. lock' = lock
      OBVIOUS
    <3> QED
      BY <2>1, <3>1, <3>2, <3>3, LockKept
  <2>5. SharedKept'
    BY <2>0, <2>a DEF SharedKept, AgesBounded
  <2>6. StaleBehindFresh'
    BY <2>0, <2>a DEF StaleBehindFresh
  <2> QED
    BY <2>3, <2>4, <2>5, <2>6, PartsPrimed
<1>5. CASE Rebuild(c)
  <2> USE <1>5 DEF Rebuild
  <2>a. PICK some \in SUBSET Sources : Save(c, some)
    BY DEF Fetched, FetchFailed
  <2>b. timer[c] <= NewestAge
    BY DEF CallAt
  <2>c. /\ source' \in [Sources -> Copies]
        /\ \A x \in Sources : Bounded(source[x], NewestAge, SourceTtl)'
        /\ errors' \in Nat /\ errors' + crashes <= MaxFaults
        /\ errors' = 0 => errors = 0
    BY <2>a, <2>b, SaveKept
  <2>1. OnlyCall(c) /\ UNCHANGED memo
    BY <2>b, <2>c DEF OnlyCall
  <2>2. CallAt(c)'
    BY <2>b, <2>c DEF CallAt
  <2>3. CallsKept'
    BY <2>1, <2>2, GoKept
  <2>4. LockHeld' /\ OneRebuilder'
    <3>1. errors' = 0 => errors = 0
      BY <2>b, <2>c DEF IInv
    <3>2. pc'[c] \in Holding => pc[c] \in Holding /\ left'[c] = left[c]
      OBVIOUS
    <3>3. lock' = lock
      OBVIOUS
    <3> QED
      BY <2>1, <3>1, <3>2, <3>3, LockKept
  <2>5. SharedKept'
    BY <2>b, <2>c DEF SharedKept, AgesBounded
  <2>6. StaleBehindFresh'
    BY <2>b, <2>c DEF StaleBehindFresh
  <2> QED
    BY <2>3, <2>4, <2>5, <2>6, PartsPrimed
<1>6. CASE StoreFresh(c)
  <2> USE <1>6 DEF StoreFresh
  <2>1. OnlyCall(c) /\ UNCHANGED memo
    BY DEF OnlyCall
  <2>2. CallAt(c)'
    BY DEF CallAt
  <2>3. CallsKept'
    BY <2>1, <2>2, GoKept
  <2>4. LockHeld' /\ OneRebuilder'
    <3>1. errors' = 0 => errors = 0
      BY DEF IInv
    <3>2. pc'[c] \in Holding => pc[c] \in Holding /\ left'[c] = left[c]
      OBVIOUS
    <3>3. lock' = lock
      OBVIOUS
    <3> QED
      BY <2>1, <3>1, <3>2, <3>3, LockKept
  <2>5. SharedKept'
    BY DEF SharedKept, AgesBounded, CallAt
  <2>6. StaleBehindFresh'
    BY DEF StaleBehindFresh
  <2> QED
    BY <2>3, <2>4, <2>5, <2>6, PartsPrimed
<1>7. CASE StoreStale(c)
  <2> USE <1>7 DEF StoreStale
  <2>1. OnlyCall(c) /\ UNCHANGED memo
    BY DEF OnlyCall
  <2>2. CallAt(c)'
    BY DEF CallAt
  <2>3. CallsKept'
    BY <2>1, <2>2, GoKept
  <2>4. LockHeld' /\ OneRebuilder'
    <3>1. errors' = 0 => errors = 0
      BY DEF IInv
    <3>2. pc'[c] \in Holding => pc[c] \in Holding /\ left'[c] = left[c]
      OBVIOUS
    <3>3. lock' = lock
      OBVIOUS
    <3> QED
      BY <2>1, <3>1, <3>2, <3>3, LockKept
  <2>5. SharedKept'
    BY DEF SharedKept, AgesBounded, CallAt
  <2>6. StaleBehindFresh'
    BY DEF StaleBehindFresh, AgesBounded
  <2> QED
    BY <2>3, <2>4, <2>5, <2>6, PartsPrimed
<1>8. CASE Fallback(c)
  <2> USE <1>8 DEF Fallback
  <2>1. OnlyCall(c) /\ UNCHANGED memo
    BY DEF OnlyCall
  <2>2. CallAt(c)'
    BY DEF CallAt, AgesBounded
  <2>3. CallsKept'
    BY <2>1, <2>2, GoKept
  <2>4. LockHeld' /\ OneRebuilder'
    <3>1. errors' = 0 => errors = 0
      BY DEF IInv
    <3>2. pc'[c] \in Holding => pc[c] \in Holding /\ left'[c] = left[c]
      OBVIOUS
    <3>3. lock' = lock
      OBVIOUS
    <3> QED
      BY <2>1, <3>1, <3>2, <3>3, LockKept
  <2>5. SharedKept'
    BY DEF SharedKept, AgesBounded
  <2>6. StaleBehindFresh'
    BY DEF StaleBehindFresh
  <2> QED
    BY <2>3, <2>4, <2>5, <2>6, PartsPrimed
<1>9. CASE Unlock(c)
  <2> USE <1>9 DEF Unlock
  <2>1. built[c] \in 0..BuiltAge + StaleTtl
    BY DEF CallAt
  <2>3. CallsKept' /\ OnlyCall(c) /\ pc'[c] = "idle"
    BY <2>1, EndKept DEF Serve, Throw
  <2>4. LockHeld' /\ OneRebuilder'
    <3>1. errors' = 0 => errors = 0
      BY <2>1 DEF IInv
    <3>2. lock' = lock \/ pc[c] \in Holding
      OBVIOUS
    <3> QED
      BY <2>3, <3>1, <3>2, LockKept
  <2>5. SharedKept'
    BY <2>1 DEF SharedKept, AgesBounded
  <2>6. StaleBehindFresh'
    BY <2>1, <2>3 DEF StaleBehindFresh, OnlyCall
  <2> QED
    BY <2>3, <2>4, <2>5, <2>6, PartsPrimed
<1>10. CASE GetStale(c)
  <2> USE <1>10 DEF GetStale
  <2>0. errors' = 0 => errors = 0
    BY DEF IInv
  <2>1. CallsKept' /\ OnlyCall(c) /\ pc'[c] \notin Holding
    <3>1. CASE Serve(c, stale.age)
      <4>1. stale.age \in 0..BuiltAge + StaleTtl
        BY DEF AgesBounded
      <4> QED
        BY <3>1, <4>1, EndKept DEF Serve
    <3>2. CASE ~Serve(c, stale.age)
      <4>0. left[c] = Budget
        BY DEF CallAt
      <4>a. /\ UNCHANGED <<memo, left, built, missing>> /\ Go(c, "poll")
            /\ timer' = [timer EXCEPT ![c] = Lesser(LockTtl, left[c])]
        BY <3>2
      <4>b. Lesser(LockTtl, left[c]) \in 0..LockTtl + NewestAge
        BY <4>0
      <4>1. OnlyCall(c) /\ UNCHANGED memo
        BY <4>a, <4>b DEF OnlyCall
      <4>2. CallAt(c)'
        BY <3>2 DEF CallAt
      <4>3. pc'[c] \notin Holding
        BY <3>2
      <4> QED
        BY <4>1, <4>2, <4>3, GoKept
    <3> QED
      BY <3>1, <3>2
  <2>4. LockHeld' /\ OneRebuilder'
    BY <2>0, <2>1, LockKept
  <2>5. SharedKept'
    BY DEF SharedKept, AgesBounded
  <2>6. StaleBehindFresh'
    BY <2>0, <2>1 DEF StaleBehindFresh, OnlyCall
  <2> QED
    BY <2>1, <2>4, <2>5, <2>6, PartsPrimed
<1>11. CASE PollHit(c)
  <2> USE <1>11 DEF PollHit
  <2>1. fresh.age \in 0..BuiltAge + StaleTtl
    BY DEF AgesBounded
  <2>3. CallsKept' /\ OnlyCall(c) /\ pc'[c] = "idle"
    BY <2>1, EndKept DEF Serve, Throw
  <2>4. LockHeld' /\ OneRebuilder'
    <3>1. errors' = 0 => errors = 0
      BY <2>1 DEF IInv
    <3>2. lock' = lock \/ pc[c] \in Holding
      OBVIOUS
    <3> QED
      BY <2>3, <3>1, <3>2, LockKept
  <2>5. SharedKept'
    BY <2>1 DEF SharedKept, AgesBounded
  <2>6. StaleBehindFresh'
    BY <2>1, <2>3 DEF StaleBehindFresh, OnlyCall
  <2> QED
    BY <2>3, <2>4, <2>5, <2>6, PartsPrimed
<1>12. CASE PollTimeout(c)
  <2> USE <1>12 DEF PollTimeout
  <2>1. OnlyCall(c) /\ UNCHANGED memo
    BY DEF OnlyCall
  <2>2. CallAt(c)'
    BY DEF CallAt
  <2>3. CallsKept'
    BY <2>1, <2>2, GoKept
  <2>4. LockHeld' /\ OneRebuilder'
    <3>1. errors' = 0 => errors = 0
      BY DEF IInv
    <3>2. pc'[c] \in Holding => pc[c] \in Holding /\ left'[c] = left[c]
      OBVIOUS
    <3>3. lock' = lock
      OBVIOUS
    <3> QED
      BY <2>1, <3>1, <3>2, <3>3, LockKept
  <2>5. SharedKept'
    BY DEF SharedKept, AgesBounded
  <2>6. StaleBehindFresh'
    BY DEF StaleBehindFresh
  <2> QED
    BY <2>3, <2>4, <2>5, <2>6, PartsPrimed
<1>13. CASE OwnRebuild(c)
  <2> USE <1>13 DEF OwnRebuild
  <2>a. PICK some \in SUBSET Sources : Save(c, some)
    BY DEF Fetched, FetchFailed
  <2>b. timer[c] <= NewestAge /\ built[c] \in 0..BuiltAge + StaleTtl
    BY DEF CallAt
  <2>c. /\ source' \in [Sources -> Copies]
        /\ \A x \in Sources : Bounded(source[x], NewestAge, SourceTtl)'
        /\ errors' \in Nat /\ errors' + crashes <= MaxFaults
        /\ errors' = 0 => errors = 0
    BY <2>a, <2>b, SaveKept
  <2>3. CallsKept' /\ OnlyCall(c) /\ pc'[c] = "idle"
    BY <2>b, <2>c, EndKept DEF Serve, Throw
  <2>4. LockHeld' /\ OneRebuilder'
    <3>1. errors' = 0 => errors = 0
      BY <2>b, <2>c DEF IInv
    <3>2. lock' = lock \/ pc[c] \in Holding
      OBVIOUS
    <3> QED
      BY <2>3, <3>1, <3>2, LockKept
  <2>5. SharedKept'
    BY <2>b, <2>c DEF SharedKept, AgesBounded
  <2>6. StaleBehindFresh'
    BY <2>b, <2>c, <2>3 DEF StaleBehindFresh, OnlyCall
  <2> QED
    BY <2>3, <2>4, <2>5, <2>6, PartsPrimed
<1>14. CASE Crash(c)
  <2> USE <1>14 DEF Crash
  <2>3. CallsKept' /\ OnlyCall(c) /\ pc'[c] = "idle"
    BY EndKept DEF Serve, Throw
  <2>4. LockHeld' /\ OneRebuilder'
    <3>1. errors' = 0 => errors = 0
      BY DEF IInv
    <3>2. lock' = lock \/ pc[c] \in Holding
      OBVIOUS
    <3> QED
      BY <2>3, <3>1, <3>2, LockKept
  <2>5. SharedKept'
    BY DEF SharedKept, AgesBounded
  <2>6. StaleBehindFresh'
    BY <2>3 DEF StaleBehindFresh, OnlyCall
  <2> QED
    BY <2>3, <2>4, <2>5, <2>6, PartsPrimed
<1> QED
  BY <1>1, <1>2, <1>3, <1>4, <1>5, <1>6, <1>7, <1>8, <1>9, <1>10, <1>11, <1>12, <1>13, <1>14 DEF Step

LEMMA AgedKept ==
  ASSUME NEW copy, NEW life \in Nat, NEW most \in Nat, NEW stored \in Nat,
         copy \in [ttl : 0..life, age : 0..most], Bounded(copy, stored, life),
         stored + life <= most
  PROVE  /\ Aged(copy) \in [ttl : 0..life, age : 0..most]
         /\ Bounded(Aged(copy), stored, life)
  BY DEF Aged

LEMMA TickIInv == IInv /\ Tick => IInv'
<1> SUFFICES ASSUME IInv, Tick PROVE IInv'
  OBVIOUS
<1> USE DEF IInv, Tick
<1>1. CallsKept'
  <2>1. ASSUME NEW c \in Callers
        PROVE  /\ Aged(memo[c]) \in [ttl : 0..MemoTtl, age : 0..MaxAge]
               /\ Bounded(Aged(memo[c]), BuiltAge + StaleTtl, MemoTtl)
    <3>1. /\ memo[c] \in [ttl : 0..MemoTtl, age : 0..MaxAge]
          /\ Bounded(memo[c], BuiltAge + StaleTtl, MemoTtl)
      BY DEF TypeOK, AgesBounded
    <3> QED
      BY <3>1, AgedKept
  <2>2. ASSUME NEW c \in Callers
        PROVE  /\ left'[c] \in -1..Budget /\ timer'[c] \in 0..LockTtl + NewestAge
               /\ built'[c] \in 0..MaxAge /\ CallAt(c)'
    BY DEF TypeOK, CallAt
  <2>3. memo' \in [Callers -> [ttl : 0..MemoTtl, age : 0..MaxAge]]
    BY <2>1
  <2>4. /\ left' \in [Callers -> -1..Budget]
        /\ timer' \in [Callers -> 0..LockTtl + NewestAge]
        /\ built' \in [Callers -> 0..MaxAge]
    BY <2>2 DEF TypeOK
  <2> QED
    BY <2>1, <2>2, <2>3, <2>4 DEF TypeOK, CallsKept
<1>2. LockHeld' /\ OneRebuilder'
  BY DEF TypeOK, CallAt, LockHeld, OneRebuilder
<1>3. SharedKept'
  BY DEF TypeOK, AgesBounded, SharedKept, Aged
<1>4. StaleBehindFresh'
  BY DEF TypeOK, StaleBehindFresh, Aged
<1> QED
  BY <1>1, <1>2, <1>3, <1>4, PartsPrimed

LEMMA NextIInv == IInv /\ [Next]_vars => IInv'
<1> SUFFICES ASSUME IInv, [Next]_vars PROVE IInv'
  OBVIOUS
<1>1. CASE Next
  BY <1>1, StepIInv, TickIInv DEF Next
<1>2. CASE UNCHANGED vars
  BY <1>2 DEF vars, callVars, IInv, TypeOK, AgesBounded, CallAt, LockHeld,
     OneRebuilder, StaleBehindFresh
<1> QED
  BY <1>1, <1>2

LEMMA InductiveInvariant == Spec => []IInv
  BY InitIInv, NextIInv, PTL DEF Spec

(* getSnapshot's state keeps its types.                                    *)
THEOREM TypeCorrect == Spec => []TypeOK
<1>1. IInv => TypeOK
  BY DEF IInv
<1> QED
  BY <1>1, InductiveInvariant, PTL

(* While Redis answers, at most one call is between taking withSingleFlight's *)
(* lock and dropping it, however containers die and however slow rebuilds are. *)
THEOREM SingleFlight == Spec => []OneRebuilder
<1>1. IInv => OneRebuilder
  BY DEF IInv
<1> QED
  BY <1>1, InductiveInvariant, PTL

(* Without faults a fresh copy is backed by a stale one that outlives it.  *)
THEOREM StaleBacksFresh == Spec => []StaleBehindFresh
<1>1. IInv => StaleBehindFresh
  BY DEF IInv
<1> QED
  BY <1>1, InductiveInvariant, PTL

(* No failure, however long it lasts, makes a container serve data older   *)
(* than the lives of the copies it passed through add up to.               *)
THEOREM AgeBounded == Spec => []ServedAgeBounded
<1>1. IInv => ServedAgeBounded
  BY DEF IInv, TypeOK, AgesBounded, ServedAgeBounded
<1> QED
  BY <1>1, InductiveInvariant, PTL

-----------------------------------------------------------------------------
HIDE Times
HIDE DEF Places, Holding, Copies, MaxAge, BuiltAge, NewestAge, Absent,
         Go, Lesser, Error, Building, Fetching, Polling, Bounded

(* The list of transactions: what a walk has been shown.                   *)

Pages == [listed : SUBSET Nat, read : SUBSET Nat, missing : SUBSET Nat, token : Nat \cup {None},
          bare : BOOLEAN, tip : Nat]
Working == EnrichedPlaces \cup {"rpcSignatures", "rpcTransactions"}
Walks == [pc : Working \cup {"idle", "await", "done", "failed"}, query : Queries \cup {None},
          token : Nat \cup {None}, page : Pages, pages : Seq(Pages), begun : Nat, before : Nat]

(* What a page accounts for, and up to where it was asked for.             *)
Told(p, q) == p.listed \cup p.missing \cup IF p.bare THEN {} ELSE p.read \cap Hidden(q)
UpTo(w) == IF w.token = None THEN w.page.tip ELSE w.token - 1

(* A page that was read up to `up`: it reaches down to its token.          *)
Spans(p, up, all) == IF up < 1 THEN all = {} /\ p.token = None ELSE p.token \in 1 .. up /\ all = p.token .. up

Gathered(p, up)     == p.listed = {} /\ ~p.bare /\ Spans(p, up, p.read \cup p.missing)
BareGathered(p, up) == p.bare /\ p.missing = {} /\ p.listed = p.read /\ Spans(p, up, p.read)

(* A page as it is shown.                                                  *)
Sound(p, up, q) ==
  IF p.token = None THEN p.listed = {} /\ (up < 1 \/ p.missing # {})
  ELSE p.token \in 1 .. up /\ p.listed \subseteq p.token .. up /\ p.token .. up \subseteq Told(p, q)

(* Where the pages of a walk have got to.                                  *)
Low(pages) ==
  LET last == Last(pages)
  IN  IF last.token # None THEN last.token
      ELSE IF Len(pages) = 1 THEN last.tip + 1 ELSE pages[Len(pages) - 1].token

Ordered(pages) ==
  \A i, j \in DOMAIN pages : i < j => \A s \in pages[i].listed, t \in pages[j].listed : s > t
Above(pages, low) == \A i \in DOMAIN pages : \A s \in pages[i].listed : s >= low
Covers(pages, low, q) == low .. pages[1].tip \subseteq UNION {Told(pages[i], q) : i \in DOMAIN pages}

Walked(w) ==
  IF w.pages = <<>> THEN w.token = None
  ELSE /\ w.query \in Queries /\ w.token = Last(w.pages).token
       /\ Low(w.pages) \in Nat \ {0}
       /\ Ordered(w.pages) /\ Above(w.pages, Low(w.pages)) /\ Covers(w.pages, Low(w.pages), w.query)
       /\ w.token = None => Low(w.pages) = 1 \/ Last(w.pages).missing # {}

(* A request under way.                                                    *)
UnderWay(w) ==
  /\ w.pc \in Working \cup {"await"} => w.query \in Queries
  /\ w.pc \in Working \cup {"await", "idle"} /\ w.token = None => w.pages = <<>>
  /\ w.pc \in {"await", "done"} => w.token = None
  /\ w.pc \in {"batch", "enrich"} => Gathered(w.page, UpTo(w))
  /\ w.pc = "batch" => w.page.missing = {}
  /\ w.pc = "rpcTransactions" => BareGathered(w.page, UpTo(w))

Good(w) == w \in Walks /\ Walked(w) /\ UnderWay(w)

Entries == [key : Queries, value : Pages, expiresAt : Nat]

WalksInv ==
  /\ tip \in Nat /\ now \in Nat /\ cache \in Seq(Entries)
  /\ reader \in [Readers -> Walks] /\ \A r \in Readers : Good(reader[r])
  /\ \A i \in DOMAIN cache : Sound(cache[i].value, cache[i].value.tip, cache[i].key)

LEMMA HistoryBounds ==
  /\ First \in Nat /\ CacheTtl \in Nat \ {0} /\ MaxCacheEntries \in Nat \ {0} /\ MaxHistoryBatch \in Nat \ {0}
  /\ None \notin Readers /\ None \notin Queries /\ None \notin Nat
  /\ \A q \in Queries : q.size \in Nat \ {0}
  BY HistoryAssumption

LEMMA NoPageIs == NoPage \in Pages /\ NoPage.token = None /\ NoPage.listed = {} /\ NoPage.missing = {} /\ ~NoPage.bare
  BY DEF NoPage, Pages

LEMMA IdleIs == Good(Idle)
<1>1. Idle \in Walks /\ Idle.pc = "idle" /\ Idle.pages = <<>> /\ Idle.token = None
  BY NoPageIs DEF Idle, Walks
<1> QED
  BY <1>1 DEF Good, Walked, UnderWay, Working, EnrichedPlaces

(* What the node answers reaches down from where it was asked to.          *)
LEMMA AnswerSpans ==
  ASSUME WalksInv, NEW r \in Readers, reader[r].query \in Queries,
         NEW up, up = IF reader[r].token = None THEN tip ELSE reader[r].token - 1
  PROVE  /\ Answer(r) \in SUBSET Nat /\ Cursor(Answer(r)) \in Nat \cup {None}
         /\ IF up < 1 THEN Answer(r) = {} /\ Cursor(Answer(r)) = None
            ELSE Cursor(Answer(r)) \in 1 .. up /\ Answer(r) = Cursor(Answer(r)) .. up
<1> DEFINE size == AtMost(reader[r].query.size)
           oldest == IF up - size + 1 > 1 THEN up - size + 1 ELSE 1
<1>1. size \in Nat \ {0}
  BY HistoryBounds DEF AtMost
<1>2. up \in Int /\ Answer(r) = oldest .. up
  <2>1. reader[r].token \in Nat \cup {None} /\ tip \in Nat
    BY DEF WalksInv, Walks
  <2> QED
    BY <2>1 DEF Answer
<1> HIDE DEF size
<1>3. oldest \in Nat \ {0} /\ (up >= 1 => oldest <= up)
  BY <1>1, <1>2
<1> HIDE DEF oldest
<1>4. Answer(r) \in SUBSET Nat
  BY <1>2, <1>3
<1>5. CASE up < 1
  <2>1. Answer(r) = {}
    BY <1>2, <1>3, <1>5
  <2> QED
    BY <1>5, <2>1 DEF Cursor
<1>6. CASE up >= 1
  <2>1. oldest \in Answer(r) /\ \A n \in Answer(r) : oldest <= n
    BY <1>2, <1>3, <1>6
  <2>2. Min(Answer(r)) = oldest
    BY <1>4, <2>1 DEF Min
  <2>3. Cursor(Answer(r)) = oldest
    BY <2>1, <2>2 DEF Cursor
  <2> QED
    BY <1>2, <1>3, <1>4, <1>6, <2>3
<1> QED
  BY <1>2, <1>5, <1>6

(* Both tiers end in a page that tells all it spans.                       *)
LEMMA EnhancedSound ==
  ASSUME NEW p \in Pages, NEW up \in Int, NEW q \in Queries, Gathered(p, up)
  PROVE  EnhancedPage(p, q) \in Pages /\ EnhancedPage(p, q).tip = p.tip /\ Sound(EnhancedPage(p, q), up, q)
<1> DEFINE e == EnhancedPage(p, q)
<1>1. e = [p EXCEPT !.listed = p.read \ Hidden(q), !.token = IF p.read = {} THEN None ELSE p.token]
  BY DEF EnhancedPage
<1>2. /\ e \in Pages /\ e.listed = p.read \ Hidden(q) /\ e.token = (IF p.read = {} THEN None ELSE p.token)
      /\ e.read = p.read /\ e.missing = p.missing /\ e.bare = p.bare /\ e.tip = p.tip
  BY <1>1 DEF Pages
<1> HIDE DEF e
<1>3. Sound(e, up, q)
  <2>1. CASE p.read = {}
    <3>1. e.token = None /\ e.listed = {}
      BY <1>2, <2>1
    <3>2. up < 1 \/ (p.token \in 1 .. up /\ p.missing = p.token .. up)
      BY <2>1 DEF Gathered, Spans
    <3>3. up < 1 \/ p.missing # {}
      BY <3>2
    <3> QED
      BY <1>2, <3>1, <3>3 DEF Sound
  <2>2. CASE p.read # {}
    <3>1. /\ p.token \in 1 .. up /\ p.read \cup p.missing = p.token .. up /\ ~p.bare
      BY <2>2 DEF Gathered, Spans
    <3>2. e.token = p.token /\ e.token # None
      BY <1>2, <2>2, <3>1, HistoryBounds
    <3> QED
      BY <1>2, <3>1, <3>2 DEF Sound, Told
  <2> QED
    BY <2>1, <2>2
<1> QED
  BY <1>2, <1>3 DEF e

LEMMA BareSound ==
  ASSUME NEW p \in Pages, NEW up \in Int, NEW q, BareGathered(p, up)
  PROVE  Sound(p, up, q)
  BY HistoryBounds DEF Sound, BareGathered, Spans, Told

LEMMA LastAppended ==
  ASSUME NEW ps \in Seq(Pages), NEW p \in Pages
  PROVE  /\ Append(ps, p) \in Seq(Pages) /\ Append(ps, p) # <<>> /\ Last(Append(ps, p)) = p
         /\ Len(Append(ps, p)) = Len(ps) + 1 /\ Len(ps) \in Nat
         /\ DOMAIN ps = 1 .. Len(ps) /\ DOMAIN Append(ps, p) = 1 .. Len(ps) + 1
         /\ \A i \in 1 .. Len(ps) : Append(ps, p)[i] = ps[i]
         /\ Append(ps, p)[Len(ps) + 1] = p
         /\ ps # <<>> => Len(ps) >= 1 /\ Last(ps) = ps[Len(ps)]
  BY DEF Last

(* The first page of a walk is read up to the newest transaction.          *)
LEMMA FirstShown ==
  ASSUME NEW p \in Pages, NEW q \in Queries, Sound(p, p.tip, q),
         NEW w \in Walks, w.pages = Append(<<>>, p), w.query = q, w.token = p.token
  PROVE  Walked(w)
<1> DEFINE ps == Append(<<>>, p)
<1>1. /\ ps # <<>> /\ Last(ps) = p /\ Len(ps) = 1 /\ DOMAIN ps = {1} /\ ps[1] = p
  BY DEF Last
<1>2. /\ p.tip \in Nat /\ p.token \in Nat \cup {None} /\ p.listed \subseteq Nat
  BY DEF Pages
<1> HIDE DEF ps
<1>3. Low(ps) = IF p.token # None THEN p.token ELSE p.tip + 1
  BY <1>1 DEF Low
<1>4. Low(ps) \in Nat \ {0}
  BY <1>2, <1>3, HistoryBounds DEF Sound
<1>5. Ordered(ps)
  BY <1>1 DEF Ordered
<1>6. Above(ps, Low(ps))
  <2>1. \A s \in p.listed : s >= Low(ps)
    BY <1>2, <1>3, HistoryBounds DEF Sound
  <2> QED
    BY <1>1, <2>1 DEF Above
<1>7. Covers(ps, Low(ps), q)
  <2>1. UNION {Told(ps[i], q) : i \in DOMAIN ps} = Told(p, q)
    BY <1>1
  <2>2. Low(ps) .. p.tip \subseteq Told(p, q)
    BY <1>2, <1>3, HistoryBounds DEF Sound
  <2> QED
    BY <1>1, <2>1, <2>2 DEF Covers
<1>8. p.token = None => Low(ps) = 1 \/ p.missing # {}
  BY <1>2, <1>3, HistoryBounds DEF Sound
<1> QED
  BY <1>1, <1>4, <1>5, <1>6, <1>7, <1>8 DEF Walked, ps

(* A deeper one, up to the one before.                                     *)
LEMMA NextShown ==
  ASSUME NEW v \in Walks, Walked(v), v.token # None,
         NEW p \in Pages, Sound(p, v.token - 1, v.query),
         NEW w \in Walks, w.pages = Append(v.pages, p), w.query = v.query, w.token = p.token
  PROVE  Walked(w)
<1> DEFINE ps == v.pages
           more == Append(ps, p)
           q == v.query
           low == v.token
<1>1. ps \in Seq(Pages) /\ ps # <<>>
  BY DEF Walks, Walked
<1>2. /\ more # <<>> /\ Last(more) = p /\ Len(more) = Len(ps) + 1 /\ Len(ps) \in Nat /\ Len(ps) >= 1
      /\ DOMAIN ps = 1 .. Len(ps) /\ DOMAIN more = 1 .. Len(ps) + 1
      /\ \A i \in 1 .. Len(ps) : more[i] = ps[i]
      /\ more[Len(ps) + 1] = p /\ Last(ps) = ps[Len(ps)]
  BY <1>1, LastAppended
<1>3. /\ q \in Queries /\ low = Last(ps).token /\ Low(ps) = low /\ low \in Nat \ {0}
      /\ Ordered(ps) /\ Above(ps, low) /\ Covers(ps, low, q)
  BY <1>1 DEF Walked, Low
<1>4. /\ p.token \in Nat \cup {None} /\ p.listed \subseteq Nat
      /\ \A i \in DOMAIN ps : ps[i].listed \subseteq Nat /\ ps[i].tip \in Nat
  <2>1. \A i \in DOMAIN ps : ps[i] \in Pages
    BY <1>1
  <2> QED
    BY <2>1 DEF Pages
<1> HIDE DEF ps, more, q, low
<1>5. Low(more) = IF p.token # None THEN p.token ELSE low
  BY <1>2, <1>3 DEF Low
<1>6. /\ Low(more) \in Nat \ {0} /\ Low(more) <= low
      /\ \A t \in p.listed : Low(more) <= t /\ t < low
      /\ Low(more) .. (low - 1) \subseteq Told(p, q)
  <2>1. CASE p.token = None
    <3>1. p.listed = {} /\ Low(more) = low
      BY <1>5, <2>1 DEF Sound, q, low
    <3> QED
      BY <1>3, <3>1
  <2>2. CASE p.token # None
    <3>1. /\ p.token \in 1 .. (low - 1) /\ p.listed \subseteq p.token .. (low - 1)
          /\ p.token .. (low - 1) \subseteq Told(p, q) /\ Low(more) = p.token
      BY <1>5, <2>2 DEF Sound, q, low
    <3> QED
      BY <1>3, <3>1
  <2> QED
    BY <2>1, <2>2
<1>7. Ordered(more)
  <2> SUFFICES ASSUME NEW i \in DOMAIN more, NEW j \in DOMAIN more, i < j,
                      NEW s \in more[i].listed, NEW t \in more[j].listed
               PROVE  s > t
    BY DEF Ordered
  <2>1. i \in DOMAIN ps /\ more[i] = ps[i]
    BY <1>2
  <2>2. CASE j = Len(ps) + 1
    <3>1. s >= low /\ t < low /\ s \in Nat /\ t \in Nat
      BY <1>2, <1>3, <1>4, <1>6, <2>1, <2>2 DEF Above
    <3> QED
      BY <1>3, <3>1
  <2>3. CASE j # Len(ps) + 1
    <3>1. j \in DOMAIN ps /\ more[j] = ps[j]
      BY <1>2, <2>3
    <3> QED
      BY <1>3, <2>1, <3>1 DEF Ordered
  <2> QED
    BY <2>2, <2>3
<1>8. Above(more, Low(more))
  <2> SUFFICES ASSUME NEW i \in DOMAIN more, NEW s \in more[i].listed PROVE s >= Low(more)
    BY DEF Above
  <2>1. CASE i = Len(ps) + 1
    BY <1>2, <1>4, <1>6, <2>1
  <2>2. CASE i # Len(ps) + 1
    <3>1. i \in DOMAIN ps /\ more[i] = ps[i]
      BY <1>2, <2>2
    <3>2. s >= low /\ s \in Nat
      BY <1>3, <1>4, <3>1 DEF Above
    <3> QED
      BY <1>3, <1>6, <3>2
  <2> QED
    BY <2>1, <2>2
<1>9. Covers(more, Low(more), q)
  <2>1. more[1] = ps[1] /\ ps[1].tip \in Nat
    BY <1>2, <1>4
  <2> SUFFICES ASSUME NEW n \in Low(more) .. ps[1].tip
               PROVE  \E i \in DOMAIN more : n \in Told(more[i], q)
    BY <2>1 DEF Covers
  <2>2. CASE n < low
    BY <1>2, <1>3, <1>6, <2>2
  <2>3. CASE n >= low
    <3>1. n \in UNION {Told(ps[i], q) : i \in DOMAIN ps}
      BY <1>3, <2>1, <2>3 DEF Covers
    <3>2. PICK i \in DOMAIN ps : n \in Told(ps[i], q)
      BY <3>1
    <3> QED
      BY <1>2, <3>2
  <2> QED
    BY <1>3, <1>6, <2>1, <2>2, <2>3
<1>10. p.token = None => Low(more) = 1 \/ p.missing # {}
  <2> SUFFICES ASSUME p.token = None, p.missing = {} PROVE Low(more) = 1
    OBVIOUS
  <2>1. low - 1 < 1
    BY DEF Sound, low
  <2> QED
    BY <1>3, <1>5, <2>1
<1> QED
  BY <1>2, <1>3, <1>6, <1>7, <1>8, <1>9, <1>10 DEF Walked, more, ps, q

(* One client's request changes, and the cache with it or not.             *)
LEMMA OneChanges ==
  ASSUME WalksInv, NEW r \in Readers, NEW w, Good(w), reader' = [reader EXCEPT ![r] = w],
         UNCHANGED <<tip, now>>,
         \/ UNCHANGED cache
         \/ /\ cache' \in Seq(Entries)
            /\ \A i \in DOMAIN cache' : Sound(cache'[i].value, cache'[i].value.tip, cache'[i].key)
  PROVE  WalksInv'
<1>1. /\ reader' \in [Readers -> Walks] /\ \A s \in Readers : Good(reader'[s])
  BY DEF WalksInv, Good
<1> QED
  BY <1>1 DEF WalksInv

LEMMA InWalks ==
  ASSUME NEW w \in Walks
  PROVE  /\ w.pc \in Working \cup {"idle", "await", "done", "failed"} /\ w.query \in Queries \cup {None}
         /\ w.token \in Nat \cup {None} /\ w.page \in Pages /\ w.pages \in Seq(Pages)
         /\ w.begun \in Nat /\ w.before \in Nat
         /\ w = [pc |-> w.pc, query |-> w.query, token |-> w.token, page |-> w.page, pages |-> w.pages,
                 begun |-> w.begun, before |-> w.before]
  BY DEF Walks

(* The delivery of a page: to a client whose walk it goes on with, or to   *)
(* one that begins.                                                        *)
Handed(w, page) ==
  [w EXCEPT !.pc = IF page.token = None THEN "done" ELSE "idle", !.token = page.token,
            !.pages = Append(@, page), !.page = NoPage, !.begun = 0, !.before = 0]

LEMMA HandedIs ==
  ASSUME NEW w \in Walks, NEW p \in Pages, NEW q \in Queries \cup {None}
  PROVE  LET h == [Handed(w, p) EXCEPT !.query = q]
         IN  /\ h \in Walks /\ h.query = q /\ h.token = p.token /\ h.pages = Append(w.pages, p)
             /\ h.pc = (IF p.token = None THEN "done" ELSE "idle")
             /\ w.query = q => h = Handed(w, p)
<1>1. Append(w.pages, p) \in Seq(Pages)
  BY InWalks
<1>2. p.token \in Nat \cup {None}
  BY DEF Pages
<1> DEFINE place == IF p.token = None THEN "done" ELSE "idle"
           ps == Append(w.pages, p)
           h == Handed(w, p)
<1>3. place \in {"done", "idle"} /\ ps \in Seq(Pages)
  BY <1>1
<1>4. h = [w EXCEPT !.pc = place, !.token = p.token, !.pages = ps, !.page = NoPage, !.begun = 0, !.before = 0]
  BY DEF Handed
<1> HIDE DEF place, ps, h
<1>5. h \in Walks /\ h.pc = place /\ h.token = p.token /\ h.pages = ps /\ h.query = w.query
  BY <1>2, <1>3, <1>4, NoPageIs DEF Walks
<1>6. LET k == [h EXCEPT !.query = q]
      IN  /\ k \in Walks /\ k.query = q /\ k.pc = place /\ k.token = p.token /\ k.pages = ps
          /\ h.query = q => k = h
  BY <1>5 DEF Walks
<1> QED
  BY <1>5, <1>6 DEF place, ps, h

LEMMA HandedRests ==
  ASSUME NEW w \in Walks, NEW p \in Pages, NEW q \in Queries
  PROVE  [Handed(w, p) EXCEPT !.query = q].pc \in {"done", "idle"}
<1> DEFINE h == [Handed(w, p) EXCEPT !.query = q]
<1>1. /\ h \in Walks /\ h.query = q /\ h.token = p.token /\ h.pages = Append(w.pages, p)
      /\ h.pc = (IF p.token = None THEN "done" ELSE "idle")
  BY HandedIs
<1>2. h.pc \in {"done", "idle"}
  <2> HIDE DEF h
  <2> QED
    BY <1>1
<1> QED
  BY <1>2

LEMMA HandedGood ==
  ASSUME NEW w, Good(w), NEW p \in Pages, NEW q \in Queries,
         w.pc \in Working \cup {"await", "idle"},
         w.token # None => w.query = q,
         Sound(p, IF w.token = None THEN p.tip ELSE w.token - 1, q)
  PROVE  Good([Handed(w, p) EXCEPT !.query = q])
<1> DEFINE h == [Handed(w, p) EXCEPT !.query = q]
<1>1. w \in Walks /\ Walked(w) /\ UnderWay(w)
  BY DEF Good
<1>2. /\ h \in Walks /\ h.query = q /\ h.token = p.token /\ h.pages = Append(w.pages, p)
      /\ h.pc = (IF p.token = None THEN "done" ELSE "idle")
  BY <1>1, HandedIs
<1> HIDE DEF h
<1>3. Walked(h)
  <2>1. CASE w.token = None
    <3>1. w.pages = <<>>
      BY <1>1, <2>1 DEF UnderWay
    <3> QED
      BY <1>2, <2>1, <3>1, FirstShown
  <2>2. CASE w.token # None
    BY <1>1, <1>2, <2>2, NextShown
  <2> QED
    BY <2>1, <2>2
<1>4. UnderWay(h)
  BY <1>2 DEF UnderWay, Working, EnrichedPlaces
<1> QED
  BY <1>2, <1>3, <1>4 DEF Good, h

(* Steps of a request that show its client nothing.                        *)
LEMMA StepGood ==
  ASSUME NEW w, Good(w), w.pc \in Working \cup {"idle", "await"},
         NEW v \in Walks, v.pages = w.pages, v.token = w.token, v.query = w.query \/ w.pages = <<>>,
         v.pc \in Working \cup {"await", "failed"},
         v.pc # "failed" => v.query \in Queries,
         v.pc = "await" => v.token = None,
         v.pc \in {"batch", "enrich"} => Gathered(v.page, UpTo(v)),
         v.pc = "batch" => v.page.missing = {},
         v.pc = "rpcTransactions" => BareGathered(v.page, UpTo(v))
  PROVE  Good(v)
<1>1. Walked(w) /\ UnderWay(w)
  BY DEF Good
<1>2. Walked(v)
  BY <1>1 DEF Walked
<1>3. UnderWay(v)
  BY <1>1 DEF UnderWay, Working, EnrichedPlaces
<1> QED
  BY <1>2, <1>3 DEF Good

-----------------------------------------------------------------------------
(* The cache.                                                              *)

LEMMA KeptWithout ==
  ASSUME cache \in Seq(Entries), NEW q
  PROVE  /\ Without(q) \in Seq(Entries)
         /\ q \notin Keys => Without(q) = cache
         /\ q \in Keys => /\ Place(q) \in 1 .. Len(cache) /\ cache[Place(q)].key = q
                          /\ Len(Without(q)) = Len(cache) - 1
                          /\ \A i \in 1 .. Len(cache) - 1 :
                               Without(q)[i] = cache[IF i < Place(q) THEN i ELSE i + 1]
<1>1. CASE q \notin Keys
  BY <1>1 DEF Without
<1>2. CASE q \in Keys
  <2> DEFINE p == Place(q)
             a == SubSeq(cache, 1, p - 1)
             b == SubSeq(cache, p + 1, Len(cache))
  <2>1. p \in DOMAIN cache /\ cache[p].key = q
    BY <1>2 DEF Keys, Place
  <2> HIDE DEF p
  <2>2. p \in 1 .. Len(cache) /\ Len(cache) \in Nat
    BY <2>1
  <2>3. /\ a \in Seq(Entries) /\ Len(a) = p - 1 /\ \A i \in 1 .. p - 1 : a[i] = cache[i]
    BY <2>2, SubSeqProperties
  <2>4. /\ b \in Seq(Entries) /\ Len(b) = Len(cache) - p
        /\ \A i \in 1 .. Len(cache) - p : b[i] = cache[p + i]
    BY <2>2, SubSeqProperties
  <2> HIDE DEF a, b
  <2>5. Without(q) = a \o b
    BY <1>2 DEF Without, RemoveAt, a, b, p
  <2>6. /\ a \o b \in Seq(Entries) /\ Len(a \o b) = Len(cache) - 1
        /\ \A i \in 1 .. Len(cache) - 1 : (a \o b)[i] = IF i < p THEN a[i] ELSE b[i - (p - 1)]
    <3>1. /\ a \o b \in Seq(Entries) /\ Len(a \o b) = Len(a) + Len(b)
          /\ \A i \in 1 .. Len(a) + Len(b) : (a \o b)[i] = IF i <= Len(a) THEN a[i] ELSE b[i - Len(a)]
      BY <2>3, <2>4, ConcatProperties
    <3> QED
      BY <2>2, <2>3, <2>4, <3>1
  <2>7. ASSUME NEW i \in 1 .. Len(cache) - 1
        PROVE  (a \o b)[i] = cache[IF i < p THEN i ELSE i + 1]
    <3>1. CASE i < p
      BY <2>2, <2>3, <2>6, <3>1
    <3>2. CASE i >= p
      <4>1. i - (p - 1) \in 1 .. Len(cache) - p /\ p + (i - (p - 1)) = i + 1
        BY <2>2, <3>2
      <4>2. (a \o b)[i] = b[i - (p - 1)]
        BY <2>2, <2>6, <3>2
      <4>3. b[i - (p - 1)] = cache[p + (i - (p - 1))]
        BY <2>4, <4>1
      <4> QED
        BY <2>2, <3>2, <4>1, <4>2, <4>3
    <3>3. i < p \/ i >= p
      BY <2>2
    <3> QED
      BY <3>1, <3>2, <3>3
  <2> QED
    BY <1>2, <2>1, <2>2, <2>5, <2>6, <2>7 DEF p
<1> QED
  BY <1>1, <1>2

LEMMA KeptStored ==
  ASSUME cache \in Seq(Entries), now \in Nat, NEW q \in Queries, NEW page \in Pages
  PROVE  /\ SetCachedValue(q, page) \in Seq(Entries)
         /\ \A i \in DOMAIN SetCachedValue(q, page) :
              \/ SetCachedValue(q, page)[i].key = q /\ SetCachedValue(q, page)[i].value = page
              \/ \E j \in DOMAIN cache : SetCachedValue(q, page)[i] = cache[j]
<1> DEFINE entry == [key |-> q, value |-> page, expiresAt |-> now + CacheTtl]
           kept  == IF Len(cache) >= MaxCacheEntries THEN Tail(cache) ELSE cache
           over  == [i \in DOMAIN cache |-> IF cache[i].key = q THEN entry ELSE cache[i]]
<1>1. entry \in Entries /\ entry.key = q /\ entry.value = page
  BY HistoryBounds DEF Entries
<1> HIDE DEF entry
<1>2. /\ over \in Seq(Entries) /\ DOMAIN over = DOMAIN cache
      /\ \A i \in DOMAIN over : over[i] = entry \/ over[i] = cache[i]
  <2>1. /\ DOMAIN cache = 1 .. Len(cache) /\ Len(cache) \in Nat /\ \A i \in DOMAIN cache : cache[i] \in Entries
    OBVIOUS
  <2>2. over \in [1 .. Len(cache) -> Entries]
    BY <1>1, <2>1
  <2> QED
    BY <2>1, <2>2, SeqDef
<1>3. /\ kept \in Seq(Entries) /\ \A i \in DOMAIN kept : \E j \in DOMAIN cache : kept[i] = cache[j]
  <2>1. CASE Len(cache) >= MaxCacheEntries
    <3>1. cache # <<>>
      BY <2>1, HistoryBounds
    <3>2. /\ Tail(cache) \in Seq(Entries) /\ Len(Tail(cache)) = Len(cache) - 1
          /\ \A i \in 1 .. Len(Tail(cache)) : Tail(cache)[i] = cache[i + 1]
      BY <3>1
    <3>3. \A i \in DOMAIN Tail(cache) : i + 1 \in DOMAIN cache
      BY <3>1, <3>2
    <3> QED
      BY <2>1, <3>2, <3>3
  <2>2. CASE ~(Len(cache) >= MaxCacheEntries)
    BY <2>2
  <2> QED
    BY <2>1, <2>2
<1> HIDE DEF kept, over
<1>4. SetCachedValue(q, page) = IF q \in Keys THEN over ELSE Append(kept, entry)
  BY DEF SetCachedValue, over, kept, entry
<1>5. /\ Append(kept, entry) \in Seq(Entries)
      /\ \A i \in DOMAIN Append(kept, entry) : Append(kept, entry)[i] = entry
                                              \/ (i \in DOMAIN kept /\ Append(kept, entry)[i] = kept[i])
  BY <1>1, <1>3
<1>6. CASE q \in Keys
  BY <1>1, <1>2, <1>4, <1>6
<1>7. CASE q \notin Keys
  BY <1>1, <1>3, <1>4, <1>5, <1>7
<1> QED
  BY <1>6, <1>7

LEMMA WithoutSound ==
  ASSUME WalksInv, NEW q, cache' = Without(q)
  PROVE  /\ cache' \in Seq(Entries)
         /\ \A i \in DOMAIN cache' : Sound(cache'[i].value, cache'[i].value.tip, cache'[i].key)
<1>1. cache \in Seq(Entries)
  BY DEF WalksInv
<1>2. \A i \in DOMAIN cache' : \E j \in DOMAIN cache : cache'[i] = cache[j]
  <2>1. CASE q \notin Keys
    BY <1>1, <2>1, KeptWithout
  <2>2. CASE q \in Keys
    <3>1. /\ cache' \in Seq(Entries) /\ Place(q) \in 1 .. Len(cache) /\ Len(cache') = Len(cache) - 1
          /\ \A i \in 1 .. Len(cache) - 1 : cache'[i] = cache[IF i < Place(q) THEN i ELSE i + 1]
      BY <1>1, <2>2, KeptWithout
    <3>2. DOMAIN cache' = 1 .. Len(cache) - 1 /\ DOMAIN cache = 1 .. Len(cache) /\ Len(cache) \in Nat
      BY <1>1, <3>1
    <3> QED
      BY <3>1, <3>2
  <2> QED
    BY <2>1, <2>2
<1> QED
  BY <1>1, <1>2, KeptWithout DEF WalksInv

-----------------------------------------------------------------------------
(* The steps.                                                              *)

LEMMA ReaderIs ==
  ASSUME WalksInv, NEW r \in Readers
  PROVE  /\ reader[r] \in Walks /\ Good(reader[r]) /\ Walked(reader[r]) /\ UnderWay(reader[r])
  BY DEF WalksInv, Good

LEMMA RequestWalks == ASSUME WalksInv, NEW r \in Readers, Request(r) PROVE WalksInv'
<1> DEFINE w == reader[r]
<1>1. /\ w.pc = "idle" /\ UNCHANGED <<tip, now>>
      /\ w \in Walks /\ Good(w) /\ UnderWay(w) /\ reader \in [Readers -> Walks]
  BY ReaderIs DEF Request, Outside, WalksInv
<1>2. CASE w.token = None
  <2>1. w.pages = <<>>
    BY <1>1, <1>2 DEF UnderWay
  <2>2. PICK q \in Queries : FirstPage(r, q)
    BY <1>2 DEF Request
  <2>3. CASE q \in Keys /\ Entry(q).expiresAt > now
    <3> DEFINE page == Entry(q).value
    <3>1. Place(q) \in DOMAIN cache /\ cache[Place(q)].key = q
      BY <2>3 DEF Keys, Place
    <3>2. page \in Pages /\ Sound(page, page.tip, q)
      <4>1. cache[Place(q)] \in Entries /\ page = cache[Place(q)].value
        BY <3>1 DEF WalksInv, Entry
      <4> QED
        BY <3>1, <4>1 DEF WalksInv, Entries
    <3>3. reader' = [Deliver(page, {r}) EXCEPT ![r].query = q] /\ UNCHANGED cache
      BY <2>2, <2>3 DEF FirstPage
    <3> HIDE DEF page
    <3>4. reader' = [reader EXCEPT ![r] = [Handed(w, page) EXCEPT !.query = q]]
      BY <1>1, <3>3 DEF Deliver, Handed
    <3>5. Good([Handed(w, page) EXCEPT !.query = q])
      BY <1>1, <1>2, <3>2, HandedGood
    <3> QED
      BY <1>1, <3>3, <3>4, <3>5, OneChanges
  <2>4. CASE ~(q \in Keys /\ Entry(q).expiresAt > now)
    <3>1. cache' = Without(q)
      BY <2>2, <2>4 DEF FirstPage
    <3>2. \E v \in Walks : /\ reader' = [reader EXCEPT ![r] = v] /\ v.pc \in {"await", FirstCall(None)} /\ v.query = q
                           /\ v.pages = w.pages /\ v.token = w.token
      <4>1. CASE reader' = [reader EXCEPT ![r].pc = "await", ![r].query = q]
        <5> DEFINE v == [w EXCEPT !.pc = "await", !.query = q]
        <5>1. reader' = [reader EXCEPT ![r] = v]
          BY <4>1
        <5>2. v \in Walks /\ v.pc = "await" /\ v.query = q /\ v.pages = w.pages /\ v.token = w.token
          BY <1>1 DEF Walks
        <5> QED
          BY <5>1, <5>2
      <4>2. CASE reader' = [reader EXCEPT ![r].pc = FirstCall(None), ![r].query = q,
                                          ![r].begun = now, ![r].before = Len(stores)]
        <5> DEFINE n == Len(stores)
                   place == FirstCall(None)
                   v == [w EXCEPT !.pc = place, !.query = q, !.begun = now, !.before = n]
        <5>1. reader' = [reader EXCEPT ![r] = v]
          BY <4>2
        <5>2. now \in Nat /\ n \in Nat /\ place \in Working
          BY DEF WalksInv, Working, EnrichedPlaces, FirstCall
        <5> HIDE DEF n, place
        <5>3. v \in Walks /\ v.pc = place /\ v.query = q /\ v.pages = w.pages /\ v.token = w.token
          BY <1>1, <5>2 DEF Walks
        <5> QED
          BY <5>1, <5>3 DEF place
      <4> QED
        BY <2>2, <2>4, <4>1, <4>2 DEF FirstPage, Loader
    <3>3. PICK v \in Walks : /\ reader' = [reader EXCEPT ![r] = v]
                            /\ v.pc \in {"await", FirstCall(None)} /\ v.query = q
                            /\ v.pages = w.pages /\ v.token = w.token
      BY <3>2
    <3>4. v.pc \in {"await", "rpcSignatures", "singleCall"}
      BY <3>3 DEF FirstCall
    <3>5. Good(v)
      BY <1>1, <1>2, <2>1, <3>3, <3>4, StepGood DEF Working, EnrichedPlaces
    <3> QED
      BY <1>1, <3>1, <3>3, <3>5, WithoutSound, OneChanges
  <2> QED
    BY <2>3, <2>4
<1>3. CASE w.token # None
  <2> DEFINE place == FirstCall(w.token)
             v == [w EXCEPT !.pc = place]
  <2>1. reader' = [reader EXCEPT ![r] = v] /\ UNCHANGED cache
    BY <1>3 DEF Request, Proceed
  <2>2. place \in {"rpcSignatures", "signatures"}
    BY <1>3 DEF FirstCall
  <2> HIDE DEF place
  <2>3. v \in Walks /\ v.pc = place /\ v.query = w.query /\ v.pages = w.pages /\ v.token = w.token
    BY <1>1, <2>2 DEF Walks, Working, EnrichedPlaces
  <2>4. w.query \in Queries
    BY <1>1, <1>3 DEF Good, Walked
  <2> HIDE DEF v
  <2>5. Good(v)
    BY <1>1, <2>2, <2>3, <2>4, StepGood DEF Working, EnrichedPlaces
  <2> QED
    BY <1>1, <2>1, <2>5, OneChanges
<1> QED
  BY <1>2, <1>3

(* A call that answers, and one after which the other tier takes over.     *)
LEMMA MovesOn ==
  ASSUME WalksInv, NEW r \in Readers, NEW place \in Working, NEW page \in Pages, reader[r].pc \in Working,
         reader' = [reader EXCEPT ![r].pc = place, ![r].page = page], UNCHANGED <<tip, now, cache>>,
         LET up == IF reader[r].token = None THEN page.tip ELSE reader[r].token - 1 IN
           /\ place \in {"batch", "enrich"} => Gathered(page, up)
           /\ place = "batch" => page.missing = {}
           /\ place = "rpcTransactions" => BareGathered(page, up)
  PROVE  WalksInv'
<1> DEFINE w == reader[r]
           v == [w EXCEPT !.pc = place, !.page = page]
<1>1. w \in Walks /\ Good(w) /\ UnderWay(w)
  BY ReaderIs
<1>2. v \in Walks /\ v.pc = place /\ v.page = page /\ v.query = w.query /\ v.token = w.token /\ v.pages = w.pages
  BY <1>1 DEF Walks
<1>3. reader' = [reader EXCEPT ![r] = v]
  OBVIOUS
<1>4. w.query \in Queries
  BY <1>1 DEF UnderWay
<1>5. UpTo(v) = IF w.token = None THEN page.tip ELSE w.token - 1
  BY <1>2 DEF UpTo
<1> HIDE DEF v
<1>6. place \notin {"await", "failed"}
  BY DEF Working, EnrichedPlaces
<1>7. Good(v)
  BY <1>1, <1>2, <1>4, <1>5, <1>6, StepGood
<1> QED
  BY <1>3, <1>7, OneChanges

(* The page a step leaves is the one it read, or none yet.                 *)
LEMMA AnswersWalk ==
  ASSUME WalksInv, NEW r \in Readers,
         GetTransactionsForAddress(r) \/ GetSignaturesForAddress(r) \/ GetParsedTransactionsBatch(r) \/ RpcSignatures(r)
  PROVE  WalksInv'
<1> DEFINE w == reader[r]
           a == Answer(r)
           c == Cursor(a)
           up == IF w.token = None THEN tip ELSE w.token - 1
<1>1. w \in Walks /\ UnderWay(w) /\ reader \in [Readers -> Walks] /\ w.page \in Pages /\ tip \in Nat
  BY ReaderIs, InWalks DEF WalksInv
<1>2. w.pc \in Working /\ w.query \in Queries /\ UNCHANGED <<tip, now, cache>>
  BY <1>1 DEF GetTransactionsForAddress, GetSignaturesForAddress, GetParsedTransactionsBatch, RpcSignatures,
              UnderWay, Working, EnrichedPlaces, Outside
<1>3. /\ a \in SUBSET Nat /\ c \in Nat \cup {None} /\ Spans([NoPage EXCEPT !.token = c], up, a)
      /\ a = {} => up < 1
  <2>1. /\ a \in SUBSET Nat /\ c \in Nat \cup {None}
        /\ IF up < 1 THEN a = {} /\ c = None ELSE c \in 1 .. up /\ a = c .. up
    BY <1>2, AnswerSpans
  <2>2. [NoPage EXCEPT !.token = c].token = c
    BY DEF NoPage
  <2>3. up \in Int
    BY <1>1, InWalks
  <2> HIDE DEF a, c, up
  <2> QED
    BY <2>1, <2>2, <2>3 DEF Spans
<1>4. CASE GetTransactionsForAddress(r) \/ GetSignaturesForAddress(r)
  <2> DEFINE page == [NoPage EXCEPT !.read = a, !.token = c, !.tip = tip]
  <2>1. \/ reader' = [reader EXCEPT ![r].pc = "signatures"]
        \/ \E place \in {"enrich", "batch"} : reader' = [reader EXCEPT ![r].pc = place, ![r].page = page]
    BY <1>4 DEF GetTransactionsForAddress, GetSignaturesForAddress, Proceed
  <2> HIDE DEF a, c, up
  <2>2. /\ page \in Pages /\ page.tip = tip /\ page.missing = {} /\ page.listed = {} /\ ~page.bare
        /\ page.read = a /\ page.token = c
    BY <1>1, <1>3 DEF NoPage, Pages
  <2>3. Gathered(page, up)
    BY <1>3, <2>2 DEF Gathered, Spans, NoPage
  <2> HIDE DEF page
  <2>4. CASE reader' = [reader EXCEPT ![r].pc = "signatures"]
    <3>1. reader' = [reader EXCEPT ![r].pc = "signatures", ![r].page = w.page]
      BY <1>1, <2>4 DEF Walks
    <3>2. /\ "signatures" \in Working /\ "signatures" \notin {"batch", "enrich", "rpcTransactions"}
          /\ UNCHANGED <<tip, now, cache>>
      BY <1>2 DEF Working, EnrichedPlaces
    <3> QED
      BY <1>1, <1>2, <3>1, <3>2, MovesOn
  <2>5. CASE \E place \in {"enrich", "batch"} : reader' = [reader EXCEPT ![r].pc = place, ![r].page = page]
    <3>1. PICK place \in {"enrich", "batch"} : reader' = [reader EXCEPT ![r].pc = place, ![r].page = page]
      BY <2>5
    <3>2. place \in Working /\ place # "rpcTransactions"
      BY DEF Working, EnrichedPlaces
    <3>3. up = IF w.token = None THEN page.tip ELSE w.token - 1
      BY <2>2 DEF up
    <3> QED
      BY <1>2, <2>2, <2>3, <3>1, <3>2, <3>3, MovesOn
  <2> QED
    BY <2>1, <2>4, <2>5
<1>5. CASE GetParsedTransactionsBatch(r)
  <2>1. PICK gone \in SUBSET w.page.read :
          reader' = [reader EXCEPT ![r].pc = "enrich", ![r].page.read = @ \ gone, ![r].page.missing = gone]
    BY <1>5 DEF GetParsedTransactionsBatch
  <2> DEFINE page == [w.page EXCEPT !.read = @ \ gone, !.missing = gone]
  <2>2. reader' = [reader EXCEPT ![r].pc = "enrich", ![r].page = page]
    BY <1>1, <2>1 DEF Walks
  <2>3. /\ page \in Pages /\ page.tip = w.page.tip /\ page.token = w.page.token /\ page.listed = w.page.listed
        /\ page.bare = w.page.bare /\ page.read = w.page.read \ gone /\ page.missing = gone
    BY <1>1 DEF Pages
  <2> HIDE DEF page
  <2>4. w.pc = "batch" /\ w.page.missing = {} /\ Gathered(w.page, UpTo(w))
    BY <1>1, <1>5 DEF GetParsedTransactionsBatch, UnderWay
  <2>5. page.read \cup page.missing = w.page.read \cup w.page.missing
    BY <2>3, <2>4
  <2>6. Gathered(page, UpTo(w))
    BY <2>3, <2>4, <2>5 DEF Gathered, Spans
  <2>7. UpTo(w) = IF w.token = None THEN page.tip ELSE w.token - 1
    BY <2>3 DEF UpTo
  <2>8. "enrich" \in Working /\ "enrich" \notin {"batch", "rpcTransactions"} /\ UNCHANGED <<tip, now, cache>>
    BY <1>2 DEF Working, EnrichedPlaces
  <2> QED
    BY <1>2, <2>2, <2>3, <2>6, <2>7, <2>8, MovesOn
<1>6. CASE RpcSignatures(r)
  <2> DEFINE page == [NoPage EXCEPT !.listed = a, !.read = a, !.bare = TRUE, !.token = c, !.tip = tip]
  <2>1. reader' = [reader EXCEPT ![r].pc = "rpcTransactions", ![r].page = page]
    BY <1>6 DEF RpcSignatures
  <2> HIDE DEF a, c, up
  <2>2. /\ page \in Pages /\ page.tip = tip /\ page.missing = {} /\ page.listed = a /\ page.bare
        /\ page.read = a /\ page.token = c
    BY <1>1, <1>3 DEF NoPage, Pages
  <2>3. BareGathered(page, up)
    BY <1>3, <2>2 DEF BareGathered, Spans, NoPage
  <2> HIDE DEF page
  <2>4. up = IF w.token = None THEN page.tip ELSE w.token - 1
    BY <2>2 DEF up
  <2>5. /\ "rpcTransactions" \in Working /\ "rpcTransactions" \notin {"batch", "enrich"} 
        /\ UNCHANGED <<tip, now, cache>>
    BY <1>2 DEF Working, EnrichedPlaces
  <2> QED
    BY <1>2, <2>1, <2>2, <2>3, <2>4, <2>5, MovesOn
<1> QED
  BY <1>4, <1>5, <1>6

(* Everyone who is given a page, the loader and those who wait for it.     *)
LEMMA FinishWalks ==
  ASSUME WalksInv, NEW r \in Readers, reader[r].pc \in Working, NEW page \in Pages,
         Sound(page, IF reader[r].token = None THEN page.tip ELSE reader[r].token - 1, reader[r].query),
         Finish(r, page), UNCHANGED <<tip, now>>
  PROVE  WalksInv'
<1> DEFINE w == reader[r]
           q == w.query
           rs == IF w.token = None THEN {r} \cup Waiting(q) ELSE {r}
<1>1. w \in Walks /\ Good(w) /\ UnderWay(w) /\ q \in Queries /\ cache \in Seq(Entries) /\ now \in Nat
  BY ReaderIs DEF UnderWay, WalksInv
<1>2. reader' = Deliver(page, rs)
  BY DEF Finish
<1>3. ASSUME NEW s \in Readers
      PROVE  reader'[s] \in Walks /\ Good(reader'[s])
  <2>1. reader[s] \in Walks /\ Good(reader[s]) /\ UnderWay(reader[s])
    BY ReaderIs
  <2>2. CASE s \notin rs
    <3>1. reader'[s] = reader[s]
      BY <1>2, <2>2 DEF Deliver
    <3> QED
      BY <2>1, <3>1
  <2>3. CASE s \in rs
    <3>1. reader'[s] = Handed(reader[s], page)
      BY <1>2, <2>3 DEF Deliver, Handed
    <3>2. /\ reader[s].query = q /\ reader[s].pc \in Working \cup {"await"} /\ reader[s].token = w.token
      BY <2>1, <2>3 DEF Waiting, UnderWay
    <3>3. Good([Handed(reader[s], page) EXCEPT !.query = q])
      BY <1>1, <2>1, <3>2, HandedGood
    <3>4. [Handed(reader[s], page) EXCEPT !.query = q] = Handed(reader[s], page)
      BY <1>1, <2>1, <3>2, HandedIs
    <3> QED
      BY <3>1, <3>3, <3>4 DEF Good
  <2> QED
    BY <2>2, <2>3
<1>4. reader' \in [Readers -> Walks]
  <2>1. reader' = [s \in Readers |-> reader'[s]]
    BY <1>2 DEF Deliver
  <2> QED
    BY <1>3, <2>1
<1>5. /\ cache' \in Seq(Entries)
      /\ \A i \in DOMAIN cache' : Sound(cache'[i].value, cache'[i].value.tip, cache'[i].key)
  <2>1. CASE w.token = None
    <3>1. cache' = SetCachedValue(q, page) /\ Sound(page, page.tip, q)
      BY <2>1 DEF Finish
    <3>2. \A i \in DOMAIN cache' :
              \/ cache'[i].key = q /\ cache'[i].value = page
              \/ \E j \in DOMAIN cache : cache'[i] = cache[j]
      BY <1>1, <3>1, KeptStored
    <3> QED
      BY <1>1, <3>1, <3>2, KeptStored DEF WalksInv
  <2>2. CASE w.token # None
    BY <2>2 DEF Finish, WalksInv
  <2> QED
    BY <2>1, <2>2
<1> QED
  BY <1>3, <1>4, <1>5 DEF WalksInv

LEMMA EndsWalk == ASSUME WalksInv, NEW r \in Readers, Enrich(r) \/ RpcTransactions(r) PROVE WalksInv'
<1> DEFINE w == reader[r]
<1>1. w \in Walks /\ UnderWay(w) /\ w.page \in Pages /\ w.token \in Nat \cup {None} /\ UNCHANGED <<tip, now>>
  BY ReaderIs, InWalks DEF Enrich, RpcTransactions, Outside
<1>2. w.pc \in Working /\ w.query \in Queries /\ UpTo(w) \in Int
  BY <1>1 DEF Enrich, RpcTransactions, UnderWay, Working, EnrichedPlaces, UpTo, Pages
<1>3. CASE Enrich(r)
  <2> DEFINE page == EnhancedPage(w.page, w.query)
  <2>1. Finish(r, page) /\ Gathered(w.page, UpTo(w))
    BY <1>1, <1>3 DEF Enrich, UnderWay
  <2>2. page \in Pages /\ page.tip = w.page.tip /\ Sound(page, UpTo(w), w.query)
    BY <1>1, <1>2, <2>1, EnhancedSound
  <2> HIDE DEF page
  <2>3. UpTo(w) = IF w.token = None THEN page.tip ELSE w.token - 1
    BY <2>2 DEF UpTo
  <2> QED
    BY <1>1, <1>2, <2>1, <2>2, <2>3, FinishWalks
<1>4. CASE RpcTransactions(r)
  <2>1. Finish(r, w.page) /\ BareGathered(w.page, UpTo(w))
    BY <1>1, <1>4 DEF RpcTransactions, UnderWay
  <2>2. Sound(w.page, UpTo(w), w.query)
    BY <1>1, <1>2, <2>1, BareSound
  <2> QED
    BY <1>1, <1>2, <2>1, <2>2, FinishWalks DEF UpTo
<1> QED
  BY <1>3, <1>4

LEMMA FailsWalk == ASSUME WalksInv, NEW r \in Readers, CallFails(r) \/ Refresh(r) PROVE WalksInv'
<1> DEFINE w == reader[r]
<1>1. /\ w \in Walks /\ Good(w) /\ UnderWay(w) /\ w.page \in Pages /\ reader \in [Readers -> Walks]
      /\ UNCHANGED <<tip, now, cache>>
  BY ReaderIs, InWalks DEF CallFails, Refresh, Reject, Outside, WalksInv
<1>2. CASE CallFails(r) /\ Proceed(r, "rpcSignatures") /\ w.pc \in EnrichedPlaces
  <2>1. reader' = [reader EXCEPT ![r].pc = "rpcSignatures", ![r].page = w.page]
    BY <1>1, <1>2 DEF Walks, Proceed
  <2>2. /\ "rpcSignatures" \in Working /\ "rpcSignatures" \notin {"batch", "enrich", "rpcTransactions"}
        /\ w.pc \in Working
    BY <1>2 DEF Working, EnrichedPlaces
  <2> QED
    BY <1>1, <2>1, <2>2, MovesOn
<1>3. CASE CallFails(r) /\ Reject(r) /\ w.pc \in Working
  <2> DEFINE all == IF w.token = None THEN {r} \cup Waiting(w.query) ELSE {r}
  <2>1. reader' = [s \in Readers |-> IF s \in all THEN [reader[s] EXCEPT !.pc = "failed"] ELSE reader[s]]
    BY <1>3 DEF Reject
  <2>2. ASSUME NEW s \in Readers PROVE Good(reader'[s]) /\ reader'[s] \in Walks
    <3>1. reader[s] \in Walks /\ Good(reader[s])
      BY ReaderIs
    <3>2. CASE s \notin all
      BY <2>1, <3>1, <3>2
    <3>3. CASE s \in all
      <4> DEFINE v == [reader[s] EXCEPT !.pc = "failed"]
      <4>1. reader'[s] = v
        BY <2>1, <3>3
      <4>2. /\ v \in Walks /\ v.pc = "failed"
            /\ v.query = reader[s].query /\ v.token = reader[s].token /\ v.pages = reader[s].pages
        BY <3>1 DEF Walks
      <4>3. reader[s].pc \in Working \cup {"await"}
        BY <1>3, <3>3 DEF Waiting
      <4> HIDE DEF v
      <4>4. Good(v)
        BY <3>1, <4>2, <4>3, StepGood
      <4> QED
        BY <4>1, <4>2, <4>4
    <3> QED
      BY <3>2, <3>3
  <2>3. reader' \in [Readers -> Walks]
    BY <2>1, <2>2
  <2> QED
    BY <1>1, <2>2, <2>3 DEF WalksInv
<1>4. CASE Refresh(r)
  BY <1>1, <1>4, IdleIs, OneChanges DEF Refresh
<1> QED
  BY <1>2, <1>3, <1>4 DEF CallFails, Working

LEMMA NextWalks == WalksInv /\ [HistoryNext]_historyVars => WalksInv'
<1> SUFFICES ASSUME WalksInv, [HistoryNext]_historyVars PROVE WalksInv'
  OBVIOUS
<1>1. CASE UNCHANGED historyVars
  BY <1>1 DEF WalksInv, historyVars
<1>2. CASE Land \/ SecondPasses
  BY <1>2 DEF WalksInv, Land, SecondPasses
<1>3. CASE \E r \in Readers : Attend(r) \/ Refresh(r) \/ CallFails(r)
  BY <1>3, RequestWalks, AnswersWalk, EndsWalk, FailsWalk DEF Attend
<1> QED
  BY <1>1, <1>2, <1>3 DEF HistoryNext

LEMMA InitWalks == HistoryInit => WalksInv
<1>1. Idle \in Walks /\ Good(Idle)
  BY IdleIs DEF Good
<1> QED
  BY <1>1, HistoryBounds DEF HistoryInit, WalksInv

(* Whichever tier serves each page, and whatever lands or fails, a walk     *)
(* lists the transactions in order, none twice, and passes over none but   *)
(* those the filters hide or a batch had no answer for.                    *)
THEOREM WalksAreExact == HistorySpec => []WalkExact
<1>1. WalksInv => WalkExact
  <2> SUFFICES ASSUME WalksInv, NEW r \in Readers, reader[r].pages # <<>>
               PROVE  /\ Ordered(reader[r].pages)
                      /\ Covers(reader[r].pages, Low(reader[r].pages), reader[r].query)
                      /\ reader[r].pc = "done" => Low(reader[r].pages) = 1 \/ Last(reader[r].pages).missing # {}
    BY DEF WalkExact, Ordered, Covers, Told, Low, WalkedTo
  <2>1. Walked(reader[r]) /\ UnderWay(reader[r])
    BY ReaderIs
  <2>2. reader[r].pc = "done" => reader[r].token = None
    BY <2>1 DEF UnderWay
  <2> QED
    BY <2>1, <2>2 DEF Walked
<1> QED
  BY <1>1, InitWalks, NextWalks, PTL DEF HistorySpec

-----------------------------------------------------------------------------
(* The list of transactions: how often a query is loaded.                  *)

Stored == [key : Queries, begun : Nat, before : Nat, at : Nat]

(* The queries stored after the i-th load, up to the n-th; and what makes  *)
(* the i-th one stale at the time t.                                       *)
KeysOf(st, i, n) == {st[k].key : k \in (i + 1) .. n}
Passed(st, i, n, t) == t >= st[i].at + CacheTtl \/ Cardinality(KeysOf(st, i, n)) >= MaxCacheEntries

(* Its entry, and what was inserted behind it.                             *)
HeldAt(c, st, i, k) ==
  /\ c[k].key = st[i].key /\ c[k].expiresAt = st[i].at + CacheTtl
  /\ \A m \in (k + 1) .. Len(c) : c[m].key \in KeysOf(st, i, Len(st))
Held(c, st, i) == \E k \in 1 .. Len(c) : HeldAt(c, st, i, k)

InCache(c, q) == \E i \in 1 .. Len(c) : c[i].key = q
Fit(c) == c \in Seq(Entries) /\ Len(c) <= MaxCacheEntries /\ \A a, b \in 1 .. Len(c) : c[a].key = c[b].key => a = b
Kept(c, st, t) == Fit(c) /\ \A i \in 1 .. Len(st) : Passed(st, i, Len(st), t) \/ Held(c, st, i)

Once(st) ==
  \A j \in 1 .. Len(st) :
    /\ st[j].before < j
    /\ \A i \in 1 .. Len(st) : i < j /\ st[i].key = st[j].key =>
         i <= st[j].before /\ Passed(st, i, st[j].before, st[j].begun)

(* A load under way, and what had passed when it began.                    *)
Loading(w) == w.pc \in Working /\ w.token = None
Since(st, w) ==
  /\ w.before <= Len(st)
  /\ \A i \in 1 .. Len(st) : st[i].key = w.query => i <= w.before /\ Passed(st, i, w.before, w.begun)

LoadsInv ==
  /\ stores \in Seq(Stored) /\ pending \in [Queries -> Readers \cup {None}]
  /\ Kept(cache, stores, now) /\ Once(stores)
  /\ \A q \in Queries : pending[q] # None =>
       Loading(reader[pending[q]]) /\ reader[pending[q]].query = q /\ ~InCache(cache, q)
  /\ \A r \in Readers : Loading(reader[r]) => pending[reader[r].query] = r /\ Since(stores, reader[r])

LEMMA KeysOfFinite ==
  ASSUME NEW st, NEW i \in Nat, NEW n \in Nat
  PROVE  IsFiniteSet(KeysOf(st, i, n)) /\ Cardinality(KeysOf(st, i, n)) \in Nat
<1> DEFINE f == [k \in (i + 1) .. n |-> st[k].key]
<1>1. IsFiniteSet((i + 1) .. n)
  BY FS_Interval
<1>2. f \in Surjection((i + 1) .. n, KeysOf(st, i, n))
  BY DEF Surjection, KeysOf
<1>3. IsFiniteSet(KeysOf(st, i, n))
  BY <1>1, <1>2, FS_Surjection
<1> QED
  BY <1>3, FS_CardinalityType

LEMMA StoresAppended ==
  ASSUME NEW st \in Seq(Stored), NEW e \in Stored
  PROVE  /\ Append(st, e) \in Seq(Stored) /\ Len(Append(st, e)) = Len(st) + 1 /\ Len(st) \in Nat
         /\ Append(st, e)[Len(st) + 1] = e
         /\ \A k \in 1 .. Len(st) : Append(st, e)[k] = st[k]
         /\ \A k \in 1 .. Len(st) :
              st[k] \in Stored /\ st[k].at \in Nat /\ st[k].begun \in Nat /\ st[k].before \in Nat
<1>1. \A k \in 1 .. Len(st) : st[k] \in Stored
  OBVIOUS
<1> QED
  BY <1>1 DEF Stored

LEMMA KeysGrow ==
  ASSUME NEW st \in Seq(Stored), NEW e \in Stored, NEW i \in 1 .. Len(st)
  PROVE  /\ \A n \in 0 .. Len(st) : KeysOf(Append(st, e), i, n) = KeysOf(st, i, n)
         /\ KeysOf(Append(st, e), i, Len(st) + 1) = KeysOf(st, i, Len(st)) \cup {e.key}
<1> DEFINE more == Append(st, e)
<1>1. /\ Len(st) \in Nat /\ more[Len(st) + 1] = e /\ \A k \in 1 .. Len(st) : more[k] = st[k]
  BY StoresAppended
<1> HIDE DEF more
<1>2. ASSUME NEW n \in 0 .. Len(st) PROVE KeysOf(more, i, n) = KeysOf(st, i, n)
  <2>1. \A k \in (i + 1) .. n : k \in 1 .. Len(st) /\ more[k] = st[k]
    BY <1>1
  <2> QED
    BY <2>1 DEF KeysOf
<1>3. KeysOf(more, i, Len(st) + 1) = KeysOf(st, i, Len(st)) \cup {e.key}
  <2>1. (i + 1) .. (Len(st) + 1) = ((i + 1) .. Len(st)) \cup {Len(st) + 1}
    BY <1>1
  <2>2. \A k \in (i + 1) .. Len(st) : k \in 1 .. Len(st) /\ more[k] = st[k]
    BY <1>1
  <2> QED
    BY <1>1, <2>1, <2>2 DEF KeysOf
<1> QED
  BY <1>2, <1>3 DEF more

LEMMA PassedOn ==
  ASSUME NEW st \in Seq(Stored), NEW e \in Stored, NEW i \in 1 .. Len(st), NEW t \in Nat
  PROVE  /\ \A n \in 0 .. Len(st) : Passed(st, i, n, t) => Passed(Append(st, e), i, n, t)
         /\ Passed(st, i, Len(st), t) => Passed(Append(st, e), i, Len(st) + 1, t)
<1> DEFINE before == KeysOf(st, i, Len(st))
           more == Append(st, e)
<1>1. /\ Len(st) \in Nat /\ i \in Nat /\ more[i] = st[i]
  BY StoresAppended
<1>2. /\ \A n \in 0 .. Len(st) : KeysOf(more, i, n) = KeysOf(st, i, n)
      /\ KeysOf(more, i, Len(st) + 1) = before \cup {e.key}
  BY KeysGrow
<1>3. IsFiniteSet(before) /\ Cardinality(before) \in Nat
  BY <1>1, KeysOfFinite
<1> HIDE DEF before, more
<1>4. Cardinality(before \cup {e.key}) = IF e.key \in before THEN Cardinality(before) ELSE Cardinality(before) + 1
  BY <1>3, FS_AddElement, Zenon
<1>5. Cardinality(before \cup {e.key}) >= Cardinality(before) /\ Cardinality(before \cup {e.key}) \in Nat
  BY <1>3, <1>4
<1>6. Passed(st, i, Len(st), t) => Passed(more, i, Len(st) + 1, t)
  <2>1. Cardinality(before) >= MaxCacheEntries => Cardinality(before \cup {e.key}) >= MaxCacheEntries
    BY <1>3, <1>5, HistoryBounds
  <2> QED
    BY <1>1, <1>2, <2>1 DEF Passed, before
<1> QED
  BY <1>1, <1>2, <1>6 DEF Passed, more

(* A loader is sent for once the entry of its query is stale.              *)
LEMMA StaleRemoved ==
  ASSUME Kept(cache, stores, now), stores \in Seq(Stored), now \in Nat,
         NEW q, q \in Keys => ~(Entry(q).expiresAt > now)
  PROVE  /\ Kept(Without(q), stores, now) /\ ~InCache(Without(q), q)
         /\ \A x : InCache(Without(q), x) => InCache(cache, x)
<1>1. Fit(cache) /\ cache \in Seq(Entries) /\ Len(cache) \in Nat
  BY DEF Kept, Fit
<1>2. CASE q \notin Keys
  <2>1. ~InCache(cache, q)
    BY <1>1, <1>2 DEF InCache, Keys
  <2> QED
    BY <1>1, <1>2, <2>1, KeptWithout
<1>3. CASE q \in Keys
  <2> DEFINE c == Without(q)
             p == Place(q)
             from(k) == IF k < p THEN k ELSE k + 1
             to(k) == IF k < p THEN k ELSE k - 1
  <2>1. /\ c \in Seq(Entries) /\ p \in 1 .. Len(cache) /\ cache[p].key = q /\ Len(c) = Len(cache) - 1
        /\ \A k \in 1 .. Len(cache) - 1 : c[k] = cache[from(k)]
    BY <1>1, <1>3, KeptWithout
  <2>2. cache[p] \in Entries
    BY <1>1, <2>1
  <2>3. cache[p].expiresAt \in Nat /\ ~(cache[p].expiresAt > now)
    BY <1>3, <2>2 DEF Entry, Entries
  <2> HIDE DEF c, p
  <2>4. \A k \in 1 .. Len(c) : from(k) \in 1 .. Len(cache) /\ from(k) # p /\ c[k] = cache[from(k)]
    BY <1>1, <2>1
  <2>5. \A k, m \in 1 .. Len(c) : (from(k) = from(m) => k = m) /\ (k < m => from(k) < from(m))
    BY <1>1, <2>1
  <2>6. \A k \in 1 .. Len(cache) : k # p => to(k) \in 1 .. Len(c) /\ from(to(k)) = k
    BY <1>1, <2>1
  <2> HIDE DEF from, to
  <2>7. Fit(c)
    BY <1>1, <2>1, <2>4, <2>5, HistoryBounds DEF Fit
  <2>8. ~InCache(c, q)
    BY <1>1, <2>1, <2>4 DEF Fit, InCache
  <2>9. ASSUME NEW i \in 1 .. Len(stores) PROVE Passed(stores, i, Len(stores), now) \/ Held(c, stores, i)
    <3>1. CASE Passed(stores, i, Len(stores), now)
      BY <3>1
    <3>2. CASE Held(cache, stores, i)
      <4>1. PICK k \in 1 .. Len(cache) : HeldAt(cache, stores, i, k)
        BY <3>2 DEF Held
      <4>2. CASE k = p
        <5>1. stores[i].at + CacheTtl = cache[p].expiresAt /\ stores[i].at \in Nat
          <6>1. stores[i] \in Stored
            OBVIOUS
          <6> QED
            BY <4>1, <4>2, <6>1 DEF HeldAt, Stored
        <5> QED
          BY <2>3, <5>1, HistoryBounds DEF Passed
      <4>3. CASE k # p
        <5>1. to(k) \in 1 .. Len(c) /\ c[to(k)] = cache[k]
          BY <2>4, <2>6, <4>3
        <5>2. ASSUME NEW m \in (to(k) + 1) .. Len(c) PROVE c[m].key \in KeysOf(stores, i, Len(stores))
          <6>1. m \in 1 .. Len(c) /\ to(k) < m
            BY <1>1, <2>1, <5>1
          <6>2. c[m] = cache[from(m)] /\ from(m) \in 1 .. Len(cache) /\ k < from(m)
            BY <2>4, <2>5, <2>6, <4>3, <5>1, <6>1
          <6>3. from(m) \in (k + 1) .. Len(cache)
            BY <1>1, <6>2
          <6> QED
            BY <4>1, <6>2, <6>3 DEF HeldAt
        <5> QED
          BY <4>1, <5>1, <5>2 DEF Held, HeldAt
      <4> QED
        BY <4>2, <4>3
    <3> QED
      BY <3>1, <3>2 DEF Kept
  <2>10. \A x : InCache(c, x) => InCache(cache, x)
    BY <2>4 DEF InCache
  <2> QED
    BY <2>7, <2>8, <2>9, <2>10 DEF Kept, c
<1> QED
  BY <1>2, <1>3

(* Its answer is stored last; whatever made room for it is stale.          *)
LEMMA StoredLast ==
  ASSUME Kept(cache, stores, now), stores \in Seq(Stored), now \in Nat, NEW page \in Pages,
         NEW e \in Stored, e.at = now, ~InCache(cache, e.key)
  PROVE  /\ Kept(SetCachedValue(e.key, page), Append(stores, e), now)
         /\ \A q : InCache(SetCachedValue(e.key, page), q) => InCache(cache, q) \/ q = e.key
<1> DEFINE q == e.key
           new == SetCachedValue(q, page)
           entry == [key |-> q, value |-> page, expiresAt |-> now + CacheTtl]
           kept  == IF Len(cache) >= MaxCacheEntries THEN Tail(cache) ELSE cache
           cut == IF Len(cache) >= MaxCacheEntries THEN 1 ELSE 0
           more == Append(stores, e)
           N == Len(stores)
           K == Len(cache)
<1>1. Fit(cache) /\ cache \in Seq(Entries) /\ K \in Nat /\ K <= MaxCacheEntries /\ N \in Nat /\ cut \in {0, 1}
  BY DEF Kept, Fit
<1>2. entry \in Entries /\ entry.key = q /\ entry.expiresAt = now + CacheTtl
  BY HistoryBounds DEF Entries, Stored
<1> HIDE DEF entry
<1>3. new = Append(kept, entry)
  <2>1. q \notin Keys
    BY <1>1 DEF InCache, Keys
  <2> QED
    BY <2>1 DEF SetCachedValue, entry
<1>4. kept \in Seq(Entries) /\ Len(kept) = K - cut /\ \A m \in 1 .. K - cut : kept[m] = cache[m + cut]
  <2>1. CASE K >= MaxCacheEntries
    <3>1. cache # <<>>
      BY <1>1, <2>1, HistoryBounds
    <3>2. /\ Tail(cache) \in Seq(Entries) /\ Len(Tail(cache)) = K - 1
          /\ \A m \in 1 .. K - 1 : Tail(cache)[m] = cache[m + 1]
      BY <1>1, <3>1
    <3> QED
      BY <2>1, <3>2
  <2>2. CASE ~(K >= MaxCacheEntries)
    BY <1>1, <2>2
  <2> QED
    BY <2>1, <2>2
<1>5. /\ K - cut + 1 <= MaxCacheEntries /\ K >= cut
  BY <1>1, HistoryBounds
<1> HIDE DEF kept
<1>6. /\ new \in Seq(Entries) /\ Len(new) = K - cut + 1 /\ new[K - cut + 1] = entry
      /\ \A m \in 1 .. K - cut : new[m] = cache[m + cut]
  BY <1>2, <1>3, <1>4, <1>5, AppendProperties
<1>7. cut = 1 => K >= MaxCacheEntries
  OBVIOUS
<1> HIDE DEF new, cut
<1>7a. /\ K \in Nat /\ cut \in {0, 1} /\ K >= cut /\ Len(new) = K - cut + 1
      /\ \A m \in 1 .. Len(new) : m # K - cut + 1 => m \in 1 .. K - cut
  <2>1. K \in Nat /\ cut \in {0, 1} /\ K >= cut /\ Len(new) = K - cut + 1
    BY <1>1, <1>5, <1>6
  <2> HIDE DEF K
  <2> QED
    BY <2>1
<1>8. Fit(new)
  <2>1. ASSUME NEW a \in 1 .. Len(new), NEW b \in 1 .. Len(new), new[a].key = new[b].key PROVE a = b
    <3>1. \A m \in 1 .. K - cut : m + cut \in 1 .. K /\ new[m] = cache[m + cut] /\ new[m].key # q
      <4>1. ASSUME NEW m \in 1 .. K - cut PROVE m + cut \in 1 .. K
        BY <1>7a
      <4>2. ASSUME NEW m \in 1 .. K - cut PROVE new[m] = cache[m + cut]
        BY <1>6
      <4>3. ASSUME NEW m \in 1 .. K PROVE cache[m].key # q
        BY DEF InCache
      <4> HIDE DEF K
      <4> QED
        BY <4>1, <4>2, <4>3
    <3>2. CASE a = K - cut + 1 \/ b = K - cut + 1
      <4>1. new[K - cut + 1].key = q
        BY <1>2, <1>6
      <4>2. \A m \in 1 .. Len(new) : m # K - cut + 1 => new[m].key # q
        BY <1>7a, <3>1
      <4> QED
        BY <2>1, <3>2, <4>1, <4>2
    <3>3. CASE a # K - cut + 1 /\ b # K - cut + 1
      <4>1. a \in 1 .. K - cut /\ b \in 1 .. K - cut
        BY <1>7a, <3>3
      <4>2. a + cut = b + cut
        BY <1>1, <2>1, <3>1, <4>1 DEF Fit
      <4> QED
        BY <1>1, <4>1, <4>2
    <3> QED
      BY <3>2, <3>3
  <2> QED
    BY <1>5, <1>6, <2>1 DEF Fit
<1>9. \A x : InCache(new, x) => InCache(cache, x) \/ x = q
  <2> SUFFICES ASSUME NEW m \in 1 .. Len(new) PROVE InCache(cache, new[m].key) \/ new[m].key = q
    BY DEF InCache
  <2>1. CASE m = K - cut + 1
    BY <1>2, <1>6, <2>1
  <2>2. CASE m # K - cut + 1
    <3>1. m + cut \in 1 .. K /\ new[m] = cache[m + cut]
      BY <1>1, <1>5, <1>6, <2>2
    <3> QED
      BY <3>1 DEF InCache
  <2> QED
    BY <2>1, <2>2
<1>10. /\ more \in Seq(Stored) /\ Len(more) = N + 1 /\ more[N + 1] = e /\ \A m \in 1 .. N : more[m] = stores[m]
  BY StoresAppended
<1> HIDE DEF more
<1>11. ASSUME NEW i \in 1 .. N PROVE Passed(more, i, N + 1, now) \/ Held(new, more, i)
  <2>1. /\ KeysOf(more, i, N + 1) = KeysOf(stores, i, N) \cup {q}
        /\ Passed(stores, i, N, now) => Passed(more, i, N + 1, now)
    BY KeysGrow, PassedOn DEF more
  <2>2. CASE Passed(stores, i, N, now)
    BY <2>1, <2>2
  <2>3. CASE Held(cache, stores, i)
    <3>1. PICK k \in 1 .. K : HeldAt(cache, stores, i, k)
      BY <2>3 DEF Held
    <3>2. CASE k > cut
      <4>1. k - cut \in 1 .. K - cut /\ new[k - cut] = cache[k] /\ k - cut \in 1 .. Len(new)
        BY <1>1, <1>5, <1>6, <3>2
      <4>2. ASSUME NEW m \in (k - cut + 1) .. Len(new) PROVE new[m].key \in KeysOf(more, i, N + 1)
        <5>1. CASE m = K - cut + 1
          BY <1>2, <1>6, <2>1, <5>1
        <5>2. CASE m # K - cut + 1
          <6>1. m \in 1 .. Len(new) /\ m >= k - cut + 1
            BY <1>7a, <3>2
          <6>2. m \in 1 .. K - cut /\ m + cut \in (k + 1) .. K
            <7> HIDE DEF K
            <7> QED
              BY <1>7a, <5>2, <6>1
          <6>3. new[m] = cache[m + cut]
            BY <1>6, <6>2
          <6>4. cache[m + cut].key \in KeysOf(stores, i, N)
            BY <3>1, <6>2 DEF HeldAt
          <6> QED
            BY <2>1, <6>3, <6>4
        <5> QED
          BY <5>1, <5>2
      <4>3. HeldAt(new, more, i, k - cut)
        BY <1>10, <3>1, <4>1, <4>2 DEF HeldAt
      <4> QED
        BY <4>1, <4>3 DEF Held
    <3>3. CASE ~(k > cut)
      <4>1. k = 1 /\ cut = 1 /\ K = MaxCacheEntries /\ K >= 1
        BY <1>1, <1>7, <3>3, HistoryBounds
      <4> DEFINE T == {cache[m].key : m \in 2 .. K}
                 f == [m \in 2 .. K |-> cache[m].key]
      <4>2. f \in Surjection(2 .. K, T) /\ f \in Injection(2 .. K, T)
        <5>1. \A a, b \in 2 .. K : cache[a].key = cache[b].key => a = b
          BY <1>1 DEF Fit
        <5>2. f \in [2 .. K -> T] /\ \A a, b \in 2 .. K : f[a] = f[b] => a = b
          BY <5>1
        <5>3. \A t \in T : \E a \in 2 .. K : f[a] = t
          OBVIOUS
        <5> HIDE DEF T, f
        <5> QED
          BY <5>2, <5>3 DEF Surjection, Injection, IsInjective
      <4>3. IsFiniteSet(2 .. K) /\ Cardinality(2 .. K) = K - 1
        <5>1. K \in Int /\ 2 \in Int
          BY <1>1
        <5>2. IsFiniteSet(2 .. K) /\ Cardinality(2 .. K) = IF 2 > K THEN 0 ELSE K - 2 + 1
          BY <5>1, FS_Interval, Zenon
        <5> QED
          BY <4>1, <5>1, <5>2
      <4>4. IsFiniteSet(T) /\ Cardinality(T) = K - 1
        <5> HIDE DEF T, f
        <5> QED
          BY <4>2, <4>3, FS_Surjection
      <4>5. q \notin T
        BY DEF InCache
      <4>6. T \cup {q} \subseteq KeysOf(more, i, N + 1)
        BY <2>1, <3>1, <4>1 DEF HeldAt
      <4> HIDE DEF T
      <4>7. IsFiniteSet(T \cup {q}) /\ Cardinality(T \cup {q}) = (K - 1) + 1
        BY <4>4, <4>5, FS_AddElement, Zenon
      <4>8. IsFiniteSet(KeysOf(more, i, N + 1)) /\ Cardinality(KeysOf(more, i, N + 1)) \in Nat
        BY <1>1, KeysOfFinite
      <4>9. Cardinality(T \cup {q}) <= Cardinality(KeysOf(more, i, N + 1))
        BY <4>6, <4>8, FS_Subset, Zenon
      <4> QED
        BY <1>1, <4>1, <4>7, <4>8, <4>9 DEF Passed
    <3> QED
      BY <3>2, <3>3
  <2> QED
    BY <2>2, <2>3 DEF Kept
<1>12. Held(new, more, N + 1)
  <2>1. K - cut + 1 \in 1 .. Len(new) /\ (K - cut + 1) + 1 > Len(new)
    BY <1>1, <1>5, <1>6
  <2> QED
    BY <1>2, <1>6, <1>10, <2>1 DEF Held, HeldAt
<1>13. \A i \in 1 .. N + 1 : Passed(more, i, N + 1, now) \/ Held(new, more, i)
  BY <1>1, <1>11, <1>12
<1> QED
  BY <1>8, <1>9, <1>10, <1>13 DEF Kept, more, new

LEMMA LoadsTyped ==
  ASSUME WalksInv, LoadsInv
  PROVE  /\ now \in Nat /\ stores \in Seq(Stored) /\ Len(stores) \in Nat /\ reader \in [Readers -> Walks]
         /\ Kept(cache, stores, now) /\ cache \in Seq(Entries)
         /\ pending \in [Queries -> Readers \cup {None}] /\ None \notin Readers
         /\ \A r \in Readers :
              /\ reader[r] \in Walks /\ UnderWay(reader[r]) /\ reader[r].begun \in Nat /\ reader[r].before \in Nat
              /\ Loading(reader[r]) => reader[r].query \in Queries
<1>1. \A r \in Readers :
        /\ reader[r] \in Walks /\ UnderWay(reader[r]) /\ reader[r].begun \in Nat /\ reader[r].before \in Nat
  BY ReaderIs, InWalks
<1>2. \A r \in Readers : Loading(reader[r]) => reader[r].query \in Queries
  BY <1>1 DEF Loading, UnderWay
<1> QED
  BY <1>1, <1>2, HistoryBounds DEF WalksInv, LoadsInv, Kept, Fit

LEMMA PassedLater ==
  ASSUME NEW st \in Seq(Stored), NEW i \in 1 .. Len(st), NEW n,
         NEW t \in Nat, NEW u \in Nat, u >= t, Passed(st, i, n, t)
  PROVE  Passed(st, i, n, u)
<1>1. st[i] \in Stored
  OBVIOUS
<1>2. st[i].at \in Nat
  BY <1>1 DEF Stored
<1> QED
  BY <1>2, HistoryBounds DEF Passed

(* Steps that begin no load and end none.                                  *)
Same(v, w) ==
  (Loading(v) <=> Loading(w)) /\ (Loading(w) => v.query = w.query /\ v.before = w.before /\ v.begun = w.begun)

LEMMA SameLoads ==
  ASSUME WalksInv, LoadsInv, now' \in Nat, now' >= now, UNCHANGED <<cache, pending, stores>>,
         \A r \in Readers : Same(reader'[r], reader[r])
  PROVE  LoadsInv'
<1>1. Kept(cache', stores', now')
  BY LoadsTyped, PassedLater DEF Kept
<1>2. \A q \in Queries : pending'[q] # None =>
        Loading(reader'[pending'[q]]) /\ reader'[pending'[q]].query = q /\ ~InCache(cache', q)
  BY LoadsTyped DEF LoadsInv, Same
<1>3. \A r \in Readers : Loading(reader'[r]) => pending'[reader'[r].query] = r /\ Since(stores', reader'[r])
  BY DEF LoadsInv, Same, Since
<1> QED
  BY <1>1, <1>2, <1>3 DEF LoadsInv

LEMMA OneSame ==
  ASSUME WalksInv, LoadsInv, UNCHANGED <<now, cache, pending, stores>>, NEW r \in Readers, NEW v,
         reader' = [reader EXCEPT ![r] = v], Same(v, reader[r])
  PROVE  LoadsInv'
<1>1. \A s \in Readers : Same(reader'[s], reader[s])
  BY LoadsTyped DEF Same
<1>2. now' \in Nat /\ now' >= now
  BY LoadsTyped
<1> QED
  BY <1>1, <1>2, SameLoads

LEMMA LoaderLoads ==
  ASSUME WalksInv, LoadsInv, NEW r \in Readers, NEW q \in Queries, reader[r].pc = "idle", reader[r].token = None,
         pending[q] = None, q \in Keys => ~(Entry(q).expiresAt > now), cache' = Without(q), Loader(r, q),
         UNCHANGED <<now, stores>>
  PROVE  LoadsInv'
<1> DEFINE place == FirstCall(None)
           n == Len(stores)
           v == [reader[r] EXCEPT !.pc = place, !.query = q, !.begun = now, !.before = n]
<1>1. /\ Kept(cache', stores', now') /\ ~InCache(cache', q) /\ \A x : InCache(cache', x) => InCache(cache, x)
  BY LoadsTyped, StaleRemoved
<1>2. pending' = [pending EXCEPT ![q] = r] /\ reader' = [reader EXCEPT ![r] = v]
  BY DEF Loader
<1>3. place \in Working
  BY DEF Working, EnrichedPlaces, FirstCall
<1> HIDE DEF place, n
<1>4. Loading(v) /\ v.query = q /\ v.begun = now /\ v.before = n
  BY <1>3, LoadsTyped DEF Loading, Walks
<1>5. ~Loading(reader[r])
  BY DEF Loading, Working, EnrichedPlaces
<1> HIDE DEF v
<1>6. \A x \in Queries : pending'[x] # None =>
        Loading(reader'[pending'[x]]) /\ reader'[pending'[x]].query = x /\ ~InCache(cache', x)
  <2> SUFFICES ASSUME NEW x \in Queries, pending'[x] # None
               PROVE  Loading(reader'[pending'[x]]) /\ reader'[pending'[x]].query = x /\ ~InCache(cache', x)
    OBVIOUS
  <2>1. CASE x = q
    BY <1>1, <1>2, <1>4, <2>1, LoadsTyped
  <2>2. CASE x # q
    <3>1. pending'[x] = pending[x] /\ pending[x] \in Readers
      BY <1>2, <2>2, LoadsTyped
    <3>2. Loading(reader[pending[x]]) /\ reader[pending[x]].query = x /\ ~InCache(cache, x)
      BY <3>1 DEF LoadsInv
    <3>3. pending[x] # r
      BY <1>5, <3>2
    <3> QED
      BY <1>1, <1>2, <3>1, <3>2, <3>3, LoadsTyped
  <2> QED
    BY <2>1, <2>2
<1>7. \A s \in Readers : Loading(reader'[s]) => pending'[reader'[s].query] = s /\ Since(stores', reader'[s])
  <2> SUFFICES ASSUME NEW s \in Readers, Loading(reader'[s])
               PROVE  pending'[reader'[s].query] = s /\ Since(stores', reader'[s])
    OBVIOUS
  <2>1. CASE s = r
    <3>1. reader'[s] = v /\ pending'[q] = r
      BY <1>2, <2>1, LoadsTyped
    <3>2. ASSUME NEW i \in 1 .. n, stores[i].key = q PROVE Passed(stores, i, n, now)
      BY <1>1, <3>2 DEF Kept, Held, HeldAt, InCache, n
    <3>3. Since(stores, v)
      BY <1>4, <3>2, LoadsTyped DEF Since, n
    <3> QED
      BY <1>4, <2>1, <3>1, <3>3
  <2>2. CASE s # r
    <3>1. reader'[s] = reader[s]
      BY <1>2, <2>2, LoadsTyped
    <3>2. pending[reader[s].query] = s /\ Since(stores, reader[s]) /\ reader[s].query \in Queries
      BY <3>1, LoadsTyped DEF LoadsInv
    <3>3. reader[s].query # q
      BY <3>2, LoadsTyped
    <3> QED
      BY <1>2, <3>1, <3>2, <3>3, LoadsTyped
  <2> QED
    BY <2>1, <2>2
<1>8. pending' \in [Queries -> Readers \cup {None}]
  BY <1>2, LoadsTyped
<1> QED
  BY <1>1, <1>6, <1>7, <1>8 DEF LoadsInv

(* Once a query is stored.                                                 *)
LEMMA OnceMore ==
  ASSUME NEW st \in Seq(Stored), Once(st), NEW e \in Stored, e.before <= Len(st),
         \A i \in 1 .. Len(st) : st[i].key = e.key => i <= e.before /\ Passed(st, i, e.before, e.begun)
  PROVE  Once(Append(st, e))
<1> DEFINE more == Append(st, e)
           N == Len(st)
<1>1. /\ Len(more) = N + 1 /\ N \in Nat /\ more[N + 1] = e
      /\ \A k \in 1 .. N : more[k] = st[k] /\ st[k].begun \in Nat /\ st[k].before \in Nat
      /\ e.before \in Nat /\ e.begun \in Nat
  BY StoresAppended DEF Stored
<1>2. ASSUME NEW i \in 1 .. N, NEW n \in 0 .. N, NEW t \in Nat, Passed(st, i, n, t)
      PROVE  Passed(more, i, n, t)
  BY <1>2, PassedOn
<1> HIDE DEF more, N
<1> SUFFICES ASSUME NEW j \in 1 .. N + 1
             PROVE  /\ more[j].before < j
                    /\ \A i \in 1 .. N + 1 : i < j /\ more[i].key = more[j].key =>
                         i <= more[j].before /\ Passed(more, i, more[j].before, more[j].begun)
  BY <1>1 DEF Once, more
<1>3. CASE j = N + 1
  <2>1. \A i \in 1 .. N : more[i].key = e.key => i <= e.before /\ Passed(more, i, e.before, e.begun)
    BY <1>1, <1>2 DEF N
  <2>2. e.before < N + 1
    BY <1>1 DEF N
  <2> QED
    BY <1>1, <1>3, <2>1, <2>2
<1>4. CASE j # N + 1
  <2>1. j \in 1 .. N /\ more[j] = st[j] /\ st[j].before \in Nat /\ st[j].begun \in Nat
    BY <1>1, <1>4
  <2>2. st[j].before < j /\ st[j].before \in 0 .. N
    BY <1>1, <2>1 DEF Once, N
  <2> SUFFICES ASSUME NEW i \in 1 .. N + 1, i < j, more[i].key = more[j].key
               PROVE  i <= more[j].before /\ Passed(more, i, more[j].before, more[j].begun)
    BY <2>1, <2>2
  <2>3. i \in 1 .. N /\ more[i] = st[i]
    BY <1>1, <2>1
  <2>4. i <= st[j].before /\ Passed(st, i, st[j].before, st[j].begun)
    BY <2>1, <2>3 DEF Once, N
  <2> QED
    BY <1>2, <2>1, <2>2, <2>3, <2>4
<1> QED
  BY <1>3, <1>4

(* A load that ends, well or not, leaves the other ones under way.         *)
LEMMA OthersLoad ==
  ASSUME WalksInv, LoadsInv, NEW r \in Readers, Loading(reader[r]), NEW s \in Readers, Loading(reader[s]), s # r
  PROVE  reader[s].query # reader[r].query /\ s \notin Waiting(reader[r].query)
<1>1. pending[reader[r].query] = r /\ pending[reader[s].query] = s
  BY DEF LoadsInv
<1> QED
  BY <1>1 DEF Loading, Waiting, Working, EnrichedPlaces

LEMMA LoadEnds ==
  ASSUME WalksInv, LoadsInv, NEW r \in Readers, Loading(reader[r]),
         pending' = [pending EXCEPT ![reader[r].query] = None],
         \A s \in Readers :
           IF s \in {r} \cup Waiting(reader[r].query) THEN ~Loading(reader'[s]) ELSE reader'[s] = reader[s],
         \A x : InCache(cache', x) => InCache(cache, x) \/ x = reader[r].query,
         Kept(cache', stores', now'), Once(stores'), stores' \in Seq(Stored),
         \A s \in Readers : Loading(reader[s]) /\ reader[s].query # reader[r].query => Since(stores', reader[s])
  PROVE  LoadsInv'
<1> DEFINE q == reader[r].query
<1>1. q \in Queries
  BY LoadsTyped
<1>2. ASSUME NEW s \in Readers, Loading(reader'[s])
      PROVE  pending'[reader'[s].query] = s /\ Since(stores', reader'[s])
  <2>1. s # r /\ reader'[s] = reader[s]
    BY <1>2
  <2>2. reader[s].query # q /\ pending[reader[s].query] = s /\ reader[s].query \in Queries
    BY <1>2, <2>1, OthersLoad, LoadsTyped DEF LoadsInv
  <2> QED
    BY <1>2, <2>1, <2>2, LoadsTyped
<1>3. ASSUME NEW x \in Queries, pending'[x] # None
      PROVE  Loading(reader'[pending'[x]]) /\ reader'[pending'[x]].query = x /\ ~InCache(cache', x)
  <2>1. x # q /\ pending'[x] = pending[x] /\ pending[x] \in Readers
    BY <1>1, <1>3, LoadsTyped
  <2>2. Loading(reader[pending[x]]) /\ reader[pending[x]].query = x /\ ~InCache(cache, x)
    BY <1>3, <2>1 DEF LoadsInv
  <2>3. pending[x] # r
    BY <2>1, <2>2
  <2>4. pending[x] \notin Waiting(q)
    BY <2>1, <2>2, <2>3, OthersLoad
  <2> QED
    BY <2>1, <2>2, <2>3, <2>4
<1>4. pending' \in [Queries -> Readers \cup {None}]
  BY LoadsTyped
<1> QED
  BY <1>2, <1>3, <1>4 DEF LoadsInv

LEMMA FinishLoads ==
  ASSUME WalksInv, LoadsInv, NEW r \in Readers, reader[r].pc \in Working,
         NEW page \in Pages, Finish(r, page), UNCHANGED now
  PROVE  LoadsInv'
<1> DEFINE w == reader[r]
           q == w.query
<1>1. ASSUME NEW s \in Readers, NEW rs, s \in rs, reader' = Deliver(page, rs) PROVE ~Loading(reader'[s])
  <2>1. reader'[s] = Handed(reader[s], page) /\ reader[s] \in Walks
    BY <1>1, LoadsTyped DEF Deliver, Handed
  <2>2. PICK x \in Queries \cup {None} : reader[s].query = x
    BY <2>1, InWalks
  <2>3. Handed(reader[s], page).pc \in {"done", "idle"}
    <3> DEFINE h == [Handed(reader[s], page) EXCEPT !.query = x]
    <3>1. h.pc \in {"done", "idle"} /\ h = Handed(reader[s], page)
      BY <2>1, <2>2, HandedIs
    <3> HIDE DEF h
    <3> QED
      BY <3>1
  <2> QED
    BY <2>1, <2>3 DEF Loading, Working, EnrichedPlaces
<1>2. CASE w.token # None
  <2>1. reader' = Deliver(page, {r}) /\ UNCHANGED <<cache, pending, stores>>
    BY <1>2 DEF Finish
  <2>2. \A s \in Readers : Same(reader'[s], reader[s])
    <3> SUFFICES ASSUME NEW s \in Readers PROVE Same(reader'[s], reader[s])
      OBVIOUS
    <3>1. CASE s = r
      BY <1>1, <1>2, <2>1, <3>1 DEF Same, Loading
    <3>2. CASE s # r
      BY <2>1, <3>2 DEF Same, Deliver
    <3> QED
      BY <3>1, <3>2
  <2>3. now' \in Nat /\ now' >= now
    BY LoadsTyped
  <2> QED
    BY <2>1, <2>2, <2>3, SameLoads
<1>3. CASE w.token = None
  <2> DEFINE e == [key |-> q, begun |-> w.begun, before |-> w.before, at |-> now]
             rs == {r} \cup Waiting(q)
  <2>1. /\ cache' = SetCachedValue(q, page) /\ pending' = [pending EXCEPT ![q] = None]
        /\ reader' = Deliver(page, rs) /\ stores' = Append(stores, e)
    BY <1>3 DEF Finish
  <2>2. Loading(w) /\ q \in Queries
    BY <1>3, LoadsTyped DEF Loading
  <2>3. /\ pending[q] = r /\ Since(stores, w) /\ ~InCache(cache, q) /\ Once(stores)
    BY <2>2, LoadsTyped DEF LoadsInv
  <2>4. e \in Stored /\ e.key = q /\ e.at = now /\ e.before = w.before /\ e.begun = w.begun
    BY <2>2, LoadsTyped DEF Stored
  <2> HIDE DEF e, rs
  <2>5. /\ Kept(cache', stores', now')
        /\ \A x : InCache(cache', x) => InCache(cache, x) \/ x = q
    BY <2>1, <2>3, <2>4, StoredLast, LoadsTyped
  <2>6. Once(stores') /\ stores' \in Seq(Stored)
    <3>1. \A i \in 1 .. Len(stores) : stores[i].key = e.key => i <= e.before /\ Passed(stores, i, e.before, e.begun)
      BY <2>3, <2>4 DEF Since
    <3>2. e.before <= Len(stores)
      BY <2>3, <2>4 DEF Since
    <3> QED
      BY <2>1, <2>3, <2>4, <3>1, <3>2, OnceMore, StoresAppended, LoadsTyped
  <2>7. \A s \in Readers : IF s \in rs THEN ~Loading(reader'[s]) ELSE reader'[s] = reader[s]
    <3> SUFFICES ASSUME NEW s \in Readers PROVE IF s \in rs THEN ~Loading(reader'[s]) ELSE reader'[s] = reader[s]
      OBVIOUS
    <3>1. CASE s \in rs
      BY <1>1, <2>1, <3>1
    <3>2. CASE s \notin rs
      BY <2>1, <3>2 DEF Deliver
    <3> QED
      BY <3>1, <3>2
  <2>8. ASSUME NEW s \in Readers, Loading(reader[s]), reader[s].query # q PROVE Since(stores', reader[s])
    <3> DEFINE b == reader[s].before
    <3>1. /\ Since(stores, reader[s]) /\ b \in Nat /\ reader[s].begun \in Nat
          /\ Len(stores) \in Nat /\ stores \in Seq(Stored)
      BY <2>8, LoadsTyped DEF LoadsInv
    <3>2. /\ Len(stores') = Len(stores) + 1 /\ stores'[Len(stores) + 1] = e
          /\ \A i \in 1 .. Len(stores) : stores'[i] = stores[i]
      BY <2>1, <2>4, <3>1, StoresAppended
    <3>3. b <= Len(stores) /\ b \in 0 .. Len(stores)
      BY <3>1 DEF Since
    <3>4. ASSUME NEW i \in 1 .. Len(stores'), stores'[i].key = reader[s].query
          PROVE  i <= b /\ Passed(stores', i, b, reader[s].begun)
      <4>1. i \in 1 .. Len(stores) /\ stores'[i] = stores[i]
        BY <2>4, <2>8, <3>1, <3>2, <3>4
      <4>2. i <= b /\ Passed(stores, i, b, reader[s].begun)
        BY <3>1, <3>4, <4>1 DEF Since
      <4> QED
        BY <2>1, <2>4, <3>1, <3>3, <4>1, <4>2, PassedOn
    <3>5. b <= Len(stores')
      BY <3>1, <3>2, <3>3
    <3> QED
      BY <3>4, <3>5 DEF Since
  <2> QED
    BY <2>1, <2>2, <2>5, <2>6, <2>7, <2>8, LoadEnds DEF rs
<1> QED
  BY <1>2, <1>3

LEMMA RejectLoads ==
  ASSUME WalksInv, LoadsInv, NEW r \in Readers, reader[r].pc \in Working, Reject(r), UNCHANGED now
  PROVE  LoadsInv'
<1> DEFINE w == reader[r]
           q == w.query
           all == IF w.token = None THEN {r} \cup Waiting(q) ELSE {r}
<1>1. /\ reader' = [s \in Readers |-> IF s \in all THEN [reader[s] EXCEPT !.pc = "failed"] ELSE reader[s]]
      /\ pending' = (IF w.token = None THEN [pending EXCEPT ![q] = None] ELSE pending)
      /\ UNCHANGED <<cache, stores>>
  BY DEF Reject
<1>2. \A s \in Readers : IF s \in all THEN ~Loading(reader'[s]) ELSE reader'[s] = reader[s]
  <2> SUFFICES ASSUME NEW s \in Readers PROVE IF s \in all THEN ~Loading(reader'[s]) ELSE reader'[s] = reader[s]
    OBVIOUS
  <2>1. CASE s \in all
    <3>1. reader'[s] = [reader[s] EXCEPT !.pc = "failed"] /\ reader[s] \in Walks
      BY <1>1, <2>1, LoadsTyped
    <3>2. reader'[s].pc = "failed"
      BY <3>1 DEF Walks
    <3> QED
      BY <2>1, <3>2 DEF Loading, Working, EnrichedPlaces
  <2>2. CASE s \notin all
    BY <1>1, <2>2
  <2> QED
    BY <2>1, <2>2
<1>3. CASE w.token # None
  <2>1. \A s \in Readers : Same(reader'[s], reader[s])
    BY <1>2, <1>3 DEF Same, Loading
  <2> QED
    BY <1>1, <1>3, <2>1, SameLoads, LoadsTyped
<1>4. CASE w.token = None
  <2>1. Loading(w)
    BY <1>4 DEF Loading
  <2>2. \A s \in Readers : Loading(reader[s]) => Since(stores', reader[s])
    BY <1>1 DEF LoadsInv
  <2>3. /\ pending' = [pending EXCEPT ![q] = None] /\ all = {r} \cup Waiting(q)
        /\ Kept(cache', stores', now') /\ Once(stores') /\ stores' \in Seq(Stored)
    BY <1>1, <1>4 DEF LoadsInv
  <2> HIDE DEF all
  <2> QED
    BY <1>1, <1>2, <2>1, <2>2, <2>3, LoadEnds
<1> QED
  BY <1>3, <1>4

LEMMA RequestLoads == ASSUME WalksInv, LoadsInv, NEW r \in Readers, Request(r) PROVE LoadsInv'
<1> DEFINE w == reader[r]
<1>1. w \in Walks /\ w.pc = "idle" /\ ~Loading(w) /\ UNCHANGED <<now, stores>>
  BY LoadsTyped DEF Request, Outside, Loading, Working, EnrichedPlaces
<1>2. CASE w.token = None
  <2>1. PICK q \in Queries : FirstPage(r, q)
    BY <1>2 DEF Request
  <2>2. CASE q \in Keys /\ Entry(q).expiresAt > now
    <3>1. /\ reader' = [Deliver(Entry(q).value, {r}) EXCEPT ![r].query = q]
          /\ UNCHANGED <<cache, pending>>
      BY <2>1, <2>2 DEF FirstPage
    <3> DEFINE page == Entry(q).value
               v == [Handed(w, page) EXCEPT !.query = q]
    <3>2. page \in Pages
      <4>1. Place(q) \in DOMAIN cache
        BY <2>2 DEF Keys, Place
      <4>2. cache[Place(q)] \in Entries
        BY <4>1, LoadsTyped
      <4> QED
        BY <4>2 DEF Entries, Entry
    <3> HIDE DEF page
    <3>3. reader' = [reader EXCEPT ![r] = v]
      BY <1>1, <3>1, LoadsTyped DEF Deliver, Handed, page
    <3>4. v.pc \in {"done", "idle"}
      BY <1>1, <3>2, HandedRests
    <3> HIDE DEF v
    <3>5. Same(v, w)
      BY <1>1, <3>4 DEF Same, Loading, Working, EnrichedPlaces
    <3> QED
      BY <1>1, <3>1, <3>3, <3>5, OneSame
  <2>3. CASE ~(q \in Keys /\ Entry(q).expiresAt > now)
    <3>1. /\ cache' = Without(q)
          /\ \/ pending[q] # None /\ reader' = [reader EXCEPT ![r].pc = "await", ![r].query = q] /\ UNCHANGED pending
             \/ pending[q] = None /\ Loader(r, q)
      BY <2>1, <2>3 DEF FirstPage
    <3>2. CASE pending[q] # None /\ reader' = [reader EXCEPT ![r].pc = "await", ![r].query = q] /\ UNCHANGED pending
      <4> DEFINE v == [w EXCEPT !.pc = "await", !.query = q]
      <4>1. reader' = [reader EXCEPT ![r] = v] /\ v.pc = "await"
        BY <1>1, <3>2 DEF Walks
      <4> HIDE DEF v
      <4>2. Same(v, w)
        BY <1>1, <4>1 DEF Same, Loading, Working, EnrichedPlaces
      <4>3. q \notin Keys
        <5>1. ~InCache(cache, q) /\ DOMAIN cache = 1 .. Len(cache)
          BY <3>2, LoadsTyped DEF LoadsInv
        <5> QED
          BY <5>1 DEF InCache, Keys
      <4>4. UNCHANGED cache
        BY <3>1, <4>3 DEF Without
      <4> QED
        BY <1>1, <3>2, <4>1, <4>2, <4>4, OneSame
    <3>3. CASE pending[q] = None /\ Loader(r, q)
      BY <1>1, <1>2, <2>3, <3>1, <3>3, LoaderLoads
    <3> QED
      BY <3>1, <3>2, <3>3
  <2> QED
    BY <2>2, <2>3
<1>3. CASE w.token # None
  <2> DEFINE place == FirstCall(w.token)
             v == [w EXCEPT !.pc = place]
  <2>1. reader' = [reader EXCEPT ![r] = v] /\ UNCHANGED <<cache, pending>>
    BY <1>3 DEF Request, Proceed
  <2> HIDE DEF place
  <2>2. v.token = w.token
    BY <1>1 DEF Walks
  <2> HIDE DEF v
  <2>3. Same(v, w)
    BY <1>1, <1>3, <2>2 DEF Same, Loading
  <2> QED
    BY <1>1, <2>1, <2>3, OneSame
<1> QED
  BY <1>2, <1>3

(* Answers, and the fall to the other tier.                                *)
LEMMA StaysLoading ==
  ASSUME WalksInv, LoadsInv, NEW r \in Readers, NEW place \in Working, NEW page, reader[r].pc \in Working,
         reader' = [reader EXCEPT ![r].pc = place, ![r].page = page], UNCHANGED <<now, cache, pending, stores>>
  PROVE  LoadsInv'
<1> DEFINE w == reader[r]
           v == [w EXCEPT !.pc = place, !.page = page]
<1>1. v.pc = place /\ v.token = w.token /\ v.query = w.query /\ v.begun = w.begun /\ v.before = w.before
  BY LoadsTyped DEF Walks
<1>2. reader' = [reader EXCEPT ![r] = v]
  OBVIOUS
<1> HIDE DEF v
<1>3. Same(v, w)
  BY <1>1 DEF Same, Loading
<1> QED
  BY <1>2, <1>3, OneSame

LEMMA AnswersLoad ==
  ASSUME WalksInv, LoadsInv, NEW r \in Readers,
         \/ GetTransactionsForAddress(r) \/ GetSignaturesForAddress(r)
         \/ GetParsedTransactionsBatch(r) \/ RpcSignatures(r)
         \/ /\ CallFails(r) /\ Proceed(r, "rpcSignatures") /\ reader[r].pc \in EnrichedPlaces
            /\ UNCHANGED <<pending, stores>>
  PROVE  LoadsInv'
<1>1. UNCHANGED <<now, cache, pending, stores>> /\ reader[r].pc \in Working /\ reader[r] \in Walks
  BY LoadsTyped DEF GetTransactionsForAddress, GetSignaturesForAddress, GetParsedTransactionsBatch, RpcSignatures,
                    CallFails, Reject, Outside, Working, EnrichedPlaces
<1>2. \E place \in Working : \E page : reader' = [reader EXCEPT ![r].pc = place, ![r].page = page]
  <2>1. {"signatures", "enrich", "batch", "rpcSignatures", "rpcTransactions"} \subseteq Working
    BY DEF Working, EnrichedPlaces
  <2>2. CASE Proceed(r, "signatures") \/ Proceed(r, "rpcSignatures")
    <3>1. PICK place \in {"signatures", "rpcSignatures"} : Proceed(r, place)
      BY <2>2
    <3>2. reader' = [reader EXCEPT ![r].pc = place, ![r].page = reader[r].page]
      BY <1>1, <3>1, LoadsTyped DEF Proceed, Walks
    <3> QED
      BY <2>1, <3>2
  <2>3. CASE GetParsedTransactionsBatch(r)
    <3>1. PICK gone :
            reader' = [reader EXCEPT ![r].pc = "enrich", ![r].page.read = @ \ gone, ![r].page.missing = gone]
      BY <2>3 DEF GetParsedTransactionsBatch
    <3> DEFINE page == [reader[r].page EXCEPT !.read = @ \ gone, !.missing = gone]
    <3>2. reader' = [reader EXCEPT ![r].pc = "enrich", ![r].page = page]
      BY <1>1, <3>1, LoadsTyped DEF Walks
    <3> QED
      BY <2>1, <3>2
  <2>4. CASE GetSignaturesForAddress(r)
    <3>1. \E place \in {"enrich", "batch"} : \E page : reader' = [reader EXCEPT ![r].pc = place, ![r].page = page]
      BY <2>4 DEF GetSignaturesForAddress
    <3> QED
      BY <2>1, <3>1
  <2>5. CASE GetTransactionsForAddress(r) /\ ~Proceed(r, "signatures")
    <3>1. \E page : reader' = [reader EXCEPT ![r].pc = "enrich", ![r].page = page]
      BY <2>5 DEF GetTransactionsForAddress
    <3> QED
      BY <2>1, <3>1
  <2>6. CASE RpcSignatures(r)
    <3>1. \E page : reader' = [reader EXCEPT ![r].pc = "rpcTransactions", ![r].page = page]
      BY <2>6 DEF RpcSignatures
    <3> QED
      BY <2>1, <3>1
  <2> QED
    BY <2>2, <2>3, <2>4, <2>5, <2>6
<1> QED
  BY <1>1, <1>2, StaysLoading

LEMMA EndsLoads == ASSUME WalksInv, LoadsInv, NEW r \in Readers, Enrich(r) \/ RpcTransactions(r) PROVE LoadsInv'
<1>1. /\ reader[r] \in Walks /\ reader[r].page \in Pages /\ UnderWay(reader[r]) /\ UNCHANGED now
  BY LoadsTyped, InWalks DEF Enrich, RpcTransactions, Outside
<1>2. reader[r].pc \in Working /\ reader[r].query \in Queries
  BY <1>1 DEF Enrich, RpcTransactions, UnderWay, Working, EnrichedPlaces
<1>3. CASE Enrich(r)
  <2>1. Gathered(reader[r].page, UpTo(reader[r])) /\ UpTo(reader[r]) \in Int
    BY <1>1, <1>3, InWalks DEF Enrich, UnderWay, UpTo, Pages
  <2>2. EnhancedPage(reader[r].page, reader[r].query) \in Pages
    BY <1>1, <1>2, <2>1, EnhancedSound
  <2> QED
    BY <1>1, <1>2, <1>3, <2>2, FinishLoads DEF Enrich
<1>4. CASE RpcTransactions(r)
  BY <1>1, <1>2, <1>4, FinishLoads DEF RpcTransactions
<1> QED
  BY <1>3, <1>4

LEMMA NextLoads == ASSUME WalksInv, LoadsInv, [HistoryNext]_historyVars PROVE LoadsInv'
<1>1. CASE UNCHANGED historyVars \/ Land \/ SecondPasses
  <2>1. \A s \in Readers : Same(reader'[s], reader[s])
    BY <1>1 DEF historyVars, Land, SecondPasses, Same
  <2>2. now' \in Nat /\ now' >= now /\ UNCHANGED <<cache, pending, stores>>
    BY <1>1, LoadsTyped DEF historyVars, Land, SecondPasses
  <2> QED
    BY <2>1, <2>2, SameLoads
<1>2. ASSUME NEW r \in Readers, Attend(r) PROVE LoadsInv'
  BY <1>2, RequestLoads, AnswersLoad, EndsLoads DEF Attend
<1>3. ASSUME NEW r \in Readers, Refresh(r) PROVE LoadsInv'
  <2>1. Same(Idle, reader[r])
    BY <1>3 DEF Refresh, Same, Loading, Working, EnrichedPlaces, Idle
  <2> QED
    BY <1>3, <2>1, OneSame DEF Refresh
<1>4. ASSUME NEW r \in Readers, CallFails(r) PROVE LoadsInv'
  <2>1. \/ reader[r].pc \in EnrichedPlaces /\ Proceed(r, "rpcSignatures") /\ UNCHANGED <<pending, stores>>
        \/ reader[r].pc \in Working /\ Reject(r) /\ UNCHANGED now
    BY <1>4 DEF CallFails, Working, Outside
  <2> QED
    BY <1>4, <2>1, AnswersLoad, RejectLoads
<1> QED
  BY <1>1, <1>2, <1>3, <1>4 DEF HistoryNext

LEMMA InitLoads == HistoryInit => LoadsInv
<1> SUFFICES ASSUME HistoryInit PROVE LoadsInv
  OBVIOUS
<1>1. stores = <<>> /\ cache = <<>> /\ pending = [q \in Queries |-> None] /\ \A r \in Readers : reader[r].pc = "idle"
  BY DEF HistoryInit, Idle
<1>2. Fit(<<>>) /\ Once(<<>>) /\ <<>> \in Seq(Stored)
  BY HistoryBounds DEF Fit, Once
<1>3. \A r \in Readers : ~Loading(reader[r])
  BY <1>1 DEF Loading, Working, EnrichedPlaces
<1> QED
  BY <1>1, <1>2, <1>3 DEF LoadsInv, Kept

(* However many ask for it and whatever is thrown out or rejected, the     *)
(* loader of a query runs once in a window.                                *)
THEOREM LoadedOncePerWindow == HistorySpec => []LoaderOncePerWindow
<1>1. LoadsInv => LoaderOncePerWindow
  <2> SUFFICES ASSUME LoadsInv, NEW i \in DOMAIN stores, NEW j \in DOMAIN stores, i < j, stores[i].key = stores[j].key
               PROVE  i <= stores[j].before /\ Passed(stores, i, stores[j].before, stores[j].begun)
    BY DEF LoaderOncePerWindow, Passed, KeysOf
  <2>1. DOMAIN stores = 1 .. Len(stores) /\ Once(stores)
    BY DEF LoadsInv
  <2> QED
    BY <2>1 DEF Once
<1>2. WalksInv /\ LoadsInv /\ [HistoryNext]_historyVars => (WalksInv /\ LoadsInv)'
  BY NextWalks, NextLoads
<1> QED
  BY <1>1, <1>2, InitWalks, InitLoads, PTL DEF HistorySpec
=============================================================================
