----------------------------- MODULE Sanctions -----------------------------
(***************************************************************************)
(* Sanctions screening: the daily refresh job that replaces the local copy *)
(* of the Treasury list in Redis, and the check of a wallet address that   *)
(* reads it.  Every Redis command and every request is a step of its own;  *)
(* a refresh can fail or be killed between any two, and checks run while   *)
(* it does.  Time is a day, long against both.                             *)
(***************************************************************************)
EXTENDS Integers, FiniteSets

CONSTANTS
  Jobs,        \* invocations of refreshSanctionsJob
  Checks,      \* slots for concurrent calls of isListed
  Addresses,
  Screened,    \* the addresses that callers ask about and ops block
  Downloads,   \* what a download can parse to: whole lists and truncated ones
  Chunk,       \* SADD_CHUNK
  MaxAge,      \* MAX_AGE_MS, in days
  Overlap      \* whether a second invocation may start while one runs

ASSUME DownloadsAssumption == Downloads \subseteq SUBSET Addresses
ASSUME AddressesAssumption == IsFiniteSet(Addresses) /\ Screened \subseteq Addresses
ASSUME ChunkAssumption     == Chunk \in Nat \ {0}
ASSUME AgeAssumption       == MaxAge \in Nat
ASSUME OverlapAssumption   == Overlap \in BOOLEAN

VARIABLES
  live,        \* sanctions:addresses, {} when the key is absent
  next,        \* sanctions:addresses:next
  fetchedAge,  \* days since the time in sanctions:fetched_at
  blocked,     \* sanctions:blocked
  trm,         \* sanctions:trm:<address>
  job,         \* per invocation: its place in the refresh
  list,        \* per invocation: the addresses it parsed
  todo,        \* per invocation: those it has not added yet
  check,       \* per check: its place, or its outcome
  address,     \* per check: the address it was asked about
  applied,     \* history: the list the last replacement was meant to install
  liveAge,     \* history: days since `live` was replaced
  held         \* history, per check: the lists that held its address all along

redisVars == <<live, next, fetchedAge, blocked, trm>>
jobVars   == <<job, list, todo>>
checkVars == <<check, address>>
screeningVars == <<redisVars, jobVars, checkVars, applied, liveAge, held>>

JobPlaces == {"idle", "size", "del", "fill", "stamp"}
Outcomes  == {"cleared", "listed", "unavailable", "error"}
CheckPlaces ==
  {"idle", "blocked", "exists", "age", "member", "trmCache", "trm", "saveYes", "saveNo"}
    \union Outcomes

TooOld == MaxAge + 1        \* older than the limit, or no time at all

Older(age) == IF age < TooOld THEN age + 1 ELSE TooOld

ListsTyped ==
  /\ live \subseteq Addresses /\ next \subseteq Addresses
  /\ fetchedAge \in 0..TooOld /\ liveAge \in 0..TooOld
  /\ blocked \subseteq Addresses
  /\ trm \in [Screened -> {"none", "yes", "no"}]
  /\ job \in [Jobs -> JobPlaces]
  /\ list \in [Jobs -> SUBSET Addresses] /\ todo \in [Jobs -> SUBSET Addresses]
  /\ check \in [Checks -> CheckPlaces]
  /\ address \in [Checks -> Screened]
  /\ applied \subseteq Addresses
  /\ held \in [Checks -> SUBSET {"live", "blocked"}]

ScreeningInit ==
  /\ live = {} /\ next = {} /\ fetchedAge = TooOld
  /\ blocked = {}
  /\ trm = [a \in Screened |-> "none"]
  /\ job = [j \in Jobs |-> "idle"]
  /\ list = [j \in Jobs |-> {}] /\ todo = [j \in Jobs |-> {}]
  /\ check = [r \in Checks |-> "idle"]
  /\ address \in [Checks -> Screened]
  /\ applied = {} /\ liveAge = TooOld
  /\ held = [r \in Checks |-> {}]

-----------------------------------------------------------------------------
(* The refresh job.                                                        *)

JobEnds(j) ==
  /\ job' = [job EXCEPT ![j] = "idle"]
  /\ list' = [list EXCEPT ![j] = {}]
  /\ todo' = [todo EXCEPT ![j] = {}]

(* The download is parsed; a list of no address at all is an error.        *)
Download(j) ==
  /\ job[j] = "idle"
  /\ Overlap \/ \A i \in Jobs : job[i] = "idle"
  /\ \E l \in Downloads \ {{}} : list' = [list EXCEPT ![j] = l]
  /\ job' = [job EXCEPT ![j] = "size"]
  /\ UNCHANGED <<redisVars, todo, checkVars, applied, liveAge, held>>

(* Wrong on purpose: the two sizes swapped.                                *)
TooSmallSwapped(l) == live # {} /\ 2 * Cardinality(live) < Cardinality(l)

(* getLocalListSize, and the refusal of a list below half of it.           *)
TooSmall(l) == live # {} /\ 2 * Cardinality(l) < Cardinality(live)

Size(j) ==
  /\ job[j] = "size"
  /\ \/ TooSmall(list[j]) /\ JobEnds(j)
     \/ /\ ~TooSmall(list[j])
        /\ job' = [job EXCEPT ![j] = "del"]
        /\ UNCHANGED <<list, todo>>
  /\ UNCHANGED <<redisVars, checkVars, applied, liveAge, held>>

(* Wrong on purpose: the time is stamped when the replacement begins.      *)
DelStamping(j) ==
  /\ job[j] = "del"
  /\ next' = {}
  /\ fetchedAge' = 0
  /\ todo' = [todo EXCEPT ![j] = list[j]]
  /\ job' = [job EXCEPT ![j] = "fill"]
  /\ UNCHANGED <<live, blocked, trm, list, checkVars, applied, liveAge, held>>

(* Wrong on purpose: what a failed refresh left in `next` stays there.     *)
DelNothing(j) ==
  /\ job[j] = "del"
  /\ todo' = [todo EXCEPT ![j] = list[j]]
  /\ job' = [job EXCEPT ![j] = "fill"]
  /\ UNCHANGED <<redisVars, list, checkVars, applied, liveAge, held>>

(* replaceLocalList: DEL next; SADD next in chunks; RENAME next over the   *)
(* live key; SET fetched_at.                                               *)
Del(j) ==
  /\ job[j] = "del"
  /\ next' = {}
  /\ todo' = [todo EXCEPT ![j] = list[j]]
  /\ job' = [job EXCEPT ![j] = "fill"]
  /\ UNCHANGED <<live, fetchedAge, blocked, trm, list, checkVars, applied, liveAge, held>>

Fill(j) ==
  /\ job[j] = "fill"
  /\ \E chunk \in SUBSET todo[j] :
       /\ chunk # {}
       /\ Cardinality(chunk) = Chunk \/ (chunk = todo[j] /\ Cardinality(chunk) < Chunk)
       /\ next' = next \union chunk
       /\ todo' = [todo EXCEPT ![j] = @ \ chunk]
  /\ UNCHANGED <<live, fetchedAge, blocked, trm, job, list, checkVars, applied, liveAge, held>>

StillHeld(r, l) == IF address[r] \in l THEN held[r] ELSE held[r] \ {"live"}

Rename(j) ==
  /\ job[j] = "fill"
  /\ todo[j] = {}
  /\ next # {}
  /\ live' = next
  /\ next' = {}
  /\ job' = [job EXCEPT ![j] = "stamp"]
  /\ applied' = list[j]
  /\ liveAge' = 0
  /\ held' = [r \in Checks |-> StillHeld(r, next)]
  /\ UNCHANGED <<fetchedAge, blocked, trm, list, todo, checkVars>>

SetFetchedAt(j) ==
  /\ job[j] = "stamp"
  /\ fetchedAge' = 0
  /\ JobEnds(j)
  /\ UNCHANGED <<live, next, blocked, trm, checkVars, applied, liveAge, held>>

(* A command fails, RENAME finds no key, or the invocation is killed.      *)
JobFails(j) ==
  /\ job[j] # "idle"
  /\ JobEnds(j)
  /\ UNCHANGED <<redisVars, checkVars, applied, liveAge, held>>

-----------------------------------------------------------------------------
(* isListed.                                                               *)

Goes(r, place) == check' = [check EXCEPT ![r] = place]

Ask(r) ==
  /\ check[r] = "idle"
  /\ \E a \in Screened :
       /\ address' = [address EXCEPT ![r] = a]
       /\ held' = [held EXCEPT ![r] = {s \in {"live", "blocked"} :
                     IF s = "live" THEN a \in live ELSE a \in blocked}]
  /\ Goes(r, "blocked")
  /\ UNCHANGED <<redisVars, jobVars, applied, liveAge>>

(* isBlockedManually comes first, and its Redis error is thrown as it is.  *)
IsBlockedManually(r) ==
  /\ check[r] = "blocked"
  /\ \/ Goes(r, IF address[r] \in blocked THEN "listed" ELSE "exists")
     \/ Goes(r, "error")
  /\ UNCHANGED <<redisVars, jobVars, address, applied, liveAge, held>>

(* localVerdict: each of its three reads answers, or leaves no verdict.    *)
HasLocalList(r) ==
  /\ check[r] = "exists"
  /\ \/ live # {} /\ Goes(r, "age")
     \/ Goes(r, "unavailable")
  /\ UNCHANGED <<redisVars, jobVars, address, applied, liveAge, held>>

(* Wrong on purpose: a list of any age will do.                            *)
GetFetchedAtUnchecked(r) ==
  /\ check[r] = "age"
  /\ Goes(r, "member") \/ Goes(r, "unavailable")
  /\ UNCHANGED <<redisVars, jobVars, address, applied, liveAge, held>>

GetFetchedAt(r) ==
  /\ check[r] = "age"
  /\ \/ fetchedAge <= MaxAge /\ Goes(r, "member")
     \/ Goes(r, "unavailable")
  /\ UNCHANGED <<redisVars, jobVars, address, applied, liveAge, held>>

(* Wrong on purpose: a read that fails counts as no.                       *)
IsListedLocallyFailOpen(r) ==
  /\ check[r] = "member"
  /\ \/ Goes(r, IF address[r] \in live THEN "listed" ELSE "trmCache")
     \/ Goes(r, "trmCache")
  /\ UNCHANGED <<redisVars, jobVars, address, applied, liveAge, held>>

IsListedLocally(r) ==
  /\ check[r] = "member"
  /\ \/ Goes(r, IF address[r] \in live THEN "listed" ELSE "trmCache")
     \/ Goes(r, "unavailable")
  /\ UNCHANGED <<redisVars, jobVars, address, applied, liveAge, held>>

(* trmVerdict: the cached verdict, or the provider's, or none; a cache     *)
(* that cannot be read is a miss, and no verdict is no objection.          *)
GetTrmVerdict(r) ==
  /\ check[r] = "trmCache"
  /\ Goes(r, "trm") \/ (trm[address[r]] = "yes" /\ Goes(r, "listed"))
                    \/ (trm[address[r]] = "no" /\ Goes(r, "cleared"))
  /\ UNCHANGED <<redisVars, jobVars, address, applied, liveAge, held>>

AskTrm(r) ==
  /\ check[r] = "trm"
  /\ \E place \in {"saveYes", "saveNo", "cleared"} : Goes(r, place)
  /\ UNCHANGED <<redisVars, jobVars, address, applied, liveAge, held>>

SaveTrmVerdict(r) ==
  /\ check[r] \in {"saveYes", "saveNo"}
  /\ \/ trm' = [trm EXCEPT ![address[r]] = IF check[r] = "saveYes" THEN "yes" ELSE "no"]
     \/ UNCHANGED trm
  /\ Goes(r, IF check[r] = "saveYes" THEN "listed" ELSE "cleared")
  /\ UNCHANGED <<live, next, fetchedAge, blocked, jobVars, address, applied, liveAge, held>>

(* The caller has its answer.                                              *)
Return(r) ==
  /\ check[r] \in Outcomes
  /\ Goes(r, "idle")
  /\ held' = [held EXCEPT ![r] = {}]
  /\ UNCHANGED <<redisVars, jobVars, address, applied, liveAge>>

-----------------------------------------------------------------------------
(* Ops block an address by hand, or lift the block.                        *)
Block(a) ==
  /\ blocked' = IF a \in blocked THEN blocked \ {a} ELSE blocked \union {a}
  /\ held' = [r \in Checks |-> IF address[r] = a THEN held[r] \ {"blocked"} ELSE held[r]]
  /\ UNCHANGED <<live, next, fetchedAge, trm, jobVars, checkVars, applied, liveAge>>

(* A day passes; a TRM verdict lives for one.                              *)
Day ==
  /\ \A j \in Jobs : job[j] = "idle"
  /\ \A r \in Checks : check[r] = "idle"
  /\ fetchedAge' = Older(fetchedAge)
  /\ liveAge' = Older(liveAge)
  /\ trm' = [a \in Screened |-> "none"]
  /\ UNCHANGED <<live, next, blocked, jobVars, checkVars, applied, held>>

JobStep(j) ==
  Download(j) \/ Size(j) \/ Del(j) \/ Fill(j) \/ Rename(j) \/ SetFetchedAt(j) \/ JobFails(j)

CheckStep(r) ==
  \/ Ask(r) \/ IsBlockedManually(r) \/ HasLocalList(r) \/ GetFetchedAt(r)
  \/ IsListedLocally(r) \/ GetTrmVerdict(r) \/ AskTrm(r) \/ SaveTrmVerdict(r) \/ Return(r)

ScreeningNext ==
  \/ \E j \in Jobs : JobStep(j)
  \/ \E r \in Checks : CheckStep(r)
  \/ \E a \in Screened : Block(a)
  \/ Day

ScreeningSpec == ScreeningInit /\ [][ScreeningNext]_screeningVars

-----------------------------------------------------------------------------
(* The list is replaced atomically: what readers see is one refresh's      *)
(* download, whole, however refreshes failed half-way before it.           *)
ReplacedAtomically == live = applied

(* The time a check trusts never makes the list look younger than it is.   *)
StampNeverFlatters == live # {} => liveAge <= fetchedAge

(* An address is cleared only by a list that is there and, by its true     *)
(* age, within the limit: screening is never skipped.                      *)
ClearedOnFreshList ==
  \A r \in Checks : check[r] = "cleared" => live # {} /\ liveAge <= MaxAge

(* An address that one of the authoritative lists held from the question   *)
(* to the answer is not cleared, whatever was replaced, blocked or saved   *)
(* in between.                                                             *)
ListedNeverCleared ==
  \A r \in Checks : check[r] = "cleared" => held[r] = {}

(* No single refresh shrinks the live list below half of what it was.      *)
NoSilentShrink ==
  [][live' # live => 2 * Cardinality(live') >= Cardinality(live)]_screeningVars
=============================================================================
